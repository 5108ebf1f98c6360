----------------------------- MODULE ReviewProofs -----------------------------
(***************************************************************************)
(* What the rows of promotions guarantee for any number of memories, teams *)
(* and reviewers: a status can be traced to a decision of someone who may  *)
(* make it, an answer to what it did, and a supersession is final.  Every  *)
(* part of the run of module KnowledgeMC is a behaviour of the part's own  *)
(* specification.                                                          *)
(***************************************************************************)
EXTENDS KnowledgeMC, FiniteSetTheorems, SequenceTheorems, TLAPS

\* The types of the promotions, the claims and the windows of validity.
Decision == {"needs_review", "approved", "denied", "auto_approved", "auto_rejected"}
PromotionRow == [memory : Belief, from : Statuses, to : Statuses, decision : Decision,
                 by : User \cup {Engine}]
ClaimRow == [memory : Belief, answer : {"open", "reverified", "deprecated", "dismissed"},
             by : User \cup {Nobody}]
Windows == {"ahead", "past", "closed"}
Doings  == {"idle", "reviewing", "proposing raw", "proposing", "verifying"}

StandingOK == status \in [Belief -> Statuses] /\ window \in [Belief -> Windows] /\ superseded \subseteq Belief
LedgerOK   == promotions \in Seq(PromotionRow) /\ settledBy \in [Belief -> 0..Len(promotions)]
ClaimsOK   == claims \in Seq(ClaimRow)
RequestOK ==
  /\ doing \in [User -> Doings] /\ item \in [User -> Belief \cup {NoItem}]
  /\ toDecide \in [User -> SUBSET Nat] /\ approving \in [User -> BOOLEAN]
  /\ \A u \in User : toDecide[u] \subseteq RowId
  /\ \A u \in User : doing[u] \in {"proposing raw", "proposing", "verifying"} => item[u] \in Belief
ReviewTypeOK == StandingOK /\ LedgerOK /\ ClaimsOK /\ RequestOK

\* A memory has its status from a row that is decided, so no later decision
\* changes that row.
SettledIsDecided == \A m \in Belief : settledBy[m] # 0 => promotions[settledBy[m]].decision # "needs_review"

\* What waits in the queue would not deprecate anything, so a row that did is decided.
QueuePromotes == \A p \in RowId : promotions[p].to = "deprecated" => promotions[p].decision # "needs_review"

\* The inductive invariant of the review queue.
ReviewInv ==
  /\ ReviewTypeOK /\ SettledIsDecided /\ QueuePromotes
  /\ LogExplainsStatus /\ CanonicalIsReviewed /\ AnswerIsReal
  /\ SupersededStaysClosed

-----------------------------------------------------------------------------
\* The policy has judged every memory once, in some order.
LEMMA ReviewStart == ReviewInit => ReviewInv
<1> SUFFICES ASSUME ReviewInit PROVE ReviewInv
  OBVIOUS
<1> DEFINE n == Cardinality(Belief)
           order == CHOOSE f \in [1..n -> Belief] : \A m \in Belief : \E i \in DOMAIN f : f[i] = m
           at(m) == CHOOSE i \in DOMAIN order : order[i] = m
<1>1. n \in Nat /\ order \in [1..n -> Belief] /\ \A m \in Belief : \E i \in DOMAIN order : order[i] = m
  <2>1. n \in Nat /\ ExistsBijection(1..n, Belief)
    BY ReviewAssumption, FS_CardinalityType
  <2>2. PICK f \in [1..n -> Belief] : \A m \in Belief : \E i \in 1..n : f[i] = m
    BY <2>1 DEF ExistsBijection, Bijection, Surjection
  <2> QED
    BY <2>1, <2>2
<1>2. /\ promotions = [i \in DOMAIN order |-> Judged(order[i])]
      /\ settledBy = [m \in Belief |-> IF m \in Promoted THEN at(m) ELSE 0]
  BY DEF ReviewInit
<1> HIDE DEF order, n
<1>3. \A m \in Belief : at(m) \in 1..n /\ order[at(m)] = m
  BY <1>1
<1> HIDE DEF at
<1>4. promotions = [i \in 1..n |-> Judged(order[i])]
  BY <1>1, <1>2
<1>5. \A m \in Belief : Judged(m) \in PromotionRow
  BY DEF Judged, Row, PromotionRow, Statuses, Decision
<1>6. promotions \in Seq(PromotionRow) /\ Len(promotions) = n
  BY <1>1, <1>4, <1>5
<1>7. settledBy \in [Belief -> 0..n]
  BY <1>1, <1>2, <1>3
<1>8. \A m \in Belief : settledBy[m] # 0 => /\ m \in Promoted
                                           /\ promotions[settledBy[m]].decision = "auto_approved"
                                           /\ promotions[settledBy[m]].to = "candidate"
  <2> SUFFICES ASSUME NEW m \in Belief, settledBy[m] # 0
               PROVE  /\ m \in Promoted
                      /\ promotions[settledBy[m]].decision = "auto_approved"
                      /\ promotions[settledBy[m]].to = "candidate"
    OBVIOUS
  <2>1. m \in Promoted /\ promotions[settledBy[m]] = Judged(m)
    BY <1>1, <1>2, <1>3, <1>4
  <2> QED
    BY <2>1 DEF Judged, Row
<1>9. /\ status = [m \in Belief |-> IF m \in Promoted THEN "candidate" ELSE "raw"]
      /\ window = [m \in Belief |-> "ahead"] /\ superseded = {} /\ claims = << >>
      /\ doing = [u \in User |-> "idle"] /\ item = [u \in User |-> NoItem]
      /\ toDecide = [u \in User |-> {}] /\ approving = [u \in User |-> FALSE]
  BY DEF ReviewInit
<1>10. ReviewTypeOK
  <2>1. StandingOK
    BY <1>9 DEF StandingOK, Statuses, Windows
  <2>2. LedgerOK /\ ClaimsOK
    BY <1>6, <1>7, <1>9 DEF LedgerOK, ClaimsOK
  <2>3. RequestOK
    BY <1>9 DEF RequestOK, Doings
  <2> QED
    BY <2>1, <2>2, <2>3 DEF ReviewTypeOK
<1>11. SettledIsDecided
  BY <1>8 DEF SettledIsDecided
<1>12. QueuePromotes
  BY <1>1, <1>4, <1>6 DEF QueuePromotes, Judged, Row, RowId
<1>13. LogExplainsStatus
  <2>1. ASSUME NEW m \in Belief
        PROVE  status[m] = IF settledBy[m] = 0 THEN "raw" ELSE Result(promotions[settledBy[m]])
    <3>1. CASE m \in Promoted
      <4>1. settledBy[m] # 0
        BY <1>1, <1>2, <1>3, <3>1
      <4> QED
        BY <1>8, <1>9, <3>1, <4>1 DEF Result
    <3>2. CASE m \notin Promoted
      BY <1>2, <1>9, <3>2
    <3> QED
      BY <3>1, <3>2
  <2> QED
    BY <2>1 DEF LogExplainsStatus
<1>14. CanonicalIsReviewed
  BY <1>9 DEF CanonicalIsReviewed
<1>15. AnswerIsReal /\ SupersededStaysClosed
  BY <1>9 DEF AnswerIsReal, SupersededStaysClosed, ClaimId
<1> QED
  BY <1>10, <1>11, <1>12, <1>13, <1>14, <1>15 DEF ReviewInv

-----------------------------------------------------------------------------
(* What a step may do to the rows. *)

\* No step takes a decided row away or changes it.
RowsStay ==
  \A p \in RowId : promotions[p].decision # "needs_review" =>
    p \in 1..Len(promotions') /\ promotions'[p] = promotions[p]

\* A memory that moves gets its status from a decided row, and becomes canonical
\* by one of a maintainer of its team.
Moved(m) ==
  LET p == promotions'[settledBy'[m]]
  IN  /\ settledBy'[m] \in 1..Len(promotions') /\ p.decision # "needs_review" /\ status'[m] = Result(p)
      /\ status'[m] = "canonical" => p.decision = "approved" /\ p.by \in User /\ Owner[m] \in Maintains[p.by]

\* Steps of that kind keep what the statuses are earned by.
LEMMA StatusFrame ==
  ASSUME ReviewInv, RowsStay,
         \A m \in Belief : Moved(m) \/ (settledBy'[m] = settledBy[m] /\ status'[m] = status[m])
  PROVE  SettledIsDecided' /\ LogExplainsStatus' /\ CanonicalIsReviewed'
<1> SUFFICES ASSUME NEW m \in Belief
             PROVE  LET p == promotions'[settledBy'[m]]
                    IN  /\ settledBy'[m] # 0 => p.decision # "needs_review"
                        /\ status'[m] = IF settledBy'[m] = 0 THEN "raw" ELSE Result(p)
                        /\ status'[m] = "canonical" =>
                             p.decision = "approved" /\ p.by \in User /\ Owner[m] \in Maintains[p.by]
  BY DEF SettledIsDecided, LogExplainsStatus, CanonicalIsReviewed, Result
<1>1. CASE Moved(m)
  <2>1. settledBy'[m] # 0
    BY <1>1 DEF Moved, ReviewInv, ReviewTypeOK, LedgerOK
  <2> QED
    BY <1>1, <2>1 DEF Moved
<1>2. CASE settledBy'[m] = settledBy[m] /\ status'[m] = status[m]
  <2>1. settledBy[m] # 0 => promotions'[settledBy[m]] = promotions[settledBy[m]]
    BY DEF RowsStay, ReviewInv, ReviewTypeOK, LedgerOK, RowId, SettledIsDecided
  <2>2. settledBy[m] = 0 => status[m] # "canonical"
    BY DEF ReviewInv, LogExplainsStatus
  <2> QED
    BY <1>2, <2>1, <2>2 DEF ReviewInv, SettledIsDecided, LogExplainsStatus, CanonicalIsReviewed
<1> QED
  BY <1>1, <1>2

\* An answer given before stays real.
LEMMA AnswerFrame ==
  ASSUME ReviewInv, RowsStay,
         \A c \in 1..Len(claims') : claims'[c].answer = "deprecated" =>
           \/ c \in ClaimId /\ claims'[c] = claims[c]
           \/ \E p \in 1..Len(promotions') : /\ promotions'[p].memory = claims'[c].memory
                                             /\ promotions'[p].to = "deprecated"
                                             /\ promotions'[p].by = claims'[c].by
  PROVE  AnswerIsReal'
<1> SUFFICES ASSUME NEW c \in 1..Len(claims'), claims'[c].answer = "deprecated"
             PROVE  \E p \in 1..Len(promotions') : /\ promotions'[p].memory = claims'[c].memory
                                                   /\ promotions'[p].to = "deprecated"
                                                   /\ promotions'[p].by = claims'[c].by
  BY DEF AnswerIsReal, ClaimId, RowId
<1>1. CASE c \in ClaimId /\ claims'[c] = claims[c]
  <2>1. PICK p \in RowId : /\ promotions[p].memory = claims[c].memory
                           /\ promotions[p].to = "deprecated"
                           /\ promotions[p].by = claims[c].by
    BY <1>1 DEF ReviewInv, AnswerIsReal
  <2>2. p \in 1..Len(promotions') /\ promotions'[p] = promotions[p]
    BY <2>1 DEF ReviewInv, QueuePromotes, RowsStay
  <2> QED
    BY <1>1, <2>1, <2>2
<1> QED
  BY <1>1

\* A row is appended to those there are.
LEMMA Appended ==
  ASSUME ReviewInv, NEW r \in PromotionRow, promotions' = Append(promotions, r)
  PROVE  /\ promotions' \in Seq(PromotionRow) /\ Len(promotions') = Len(promotions) + 1
         /\ Len(promotions) \in Nat /\ promotions'[Len(promotions) + 1] = r
         /\ \A p \in RowId : promotions'[p] = promotions[p]
         /\ RowsStay
<1>1. promotions \in Seq(PromotionRow)
  BY DEF ReviewInv, ReviewTypeOK, LedgerOK
<1>2. /\ promotions' \in Seq(PromotionRow) /\ Len(promotions') = Len(promotions) + 1
      /\ Len(promotions) \in Nat /\ promotions'[Len(promotions) + 1] = r
      /\ \A p \in RowId : promotions'[p] = promotions[p]
  BY <1>1, AppendProperties DEF RowId
<1> QED
  BY <1>2 DEF RowsStay, RowId

\* A logged transition: the row is there and explains the new status.
LEMMA LogStep ==
  ASSUME ReviewInv, NEW m \in Belief, NEW to \in {"deprecated", "rejected"},
         NEW decision \in {"approved", "auto_rejected"}, NEW by \in User \cup {Engine},
         Log(m, to, decision, by), status' = [status EXCEPT ![m] = to]
  PROVE  /\ LedgerOK' /\ RowsStay
         /\ SettledIsDecided' /\ QueuePromotes' /\ LogExplainsStatus' /\ CanonicalIsReviewed'
         /\ Len(promotions) + 1 \in 1..Len(promotions') /\ Len(promotions) <= Len(promotions')
         /\ settledBy'[m] = Len(promotions) + 1
         /\ promotions'[Len(promotions) + 1] = Row(m, status[m], to, decision, by)
<1> DEFINE r == Row(m, status[m], to, decision, by)
<1>1. status \in [Belief -> Statuses] /\ settledBy \in [Belief -> 0..Len(promotions)]
  BY DEF ReviewInv, ReviewTypeOK, StandingOK, LedgerOK
<1>2. r \in PromotionRow
  BY <1>1 DEF Row, PromotionRow, Statuses, Decision
<1>3. promotions' = Append(promotions, r) /\ settledBy' = [settledBy EXCEPT ![m] = Len(promotions) + 1]
  BY DEF Log
<1>4. r.memory = m /\ r.to = to /\ r.decision = decision /\ r.by = by
  BY DEF Row
<1> HIDE DEF r
<1>5. /\ promotions' \in Seq(PromotionRow) /\ Len(promotions') = Len(promotions) + 1
      /\ Len(promotions) \in Nat /\ promotions'[Len(promotions) + 1] = r
      /\ \A p \in RowId : promotions'[p] = promotions[p]
      /\ RowsStay
  BY <1>2, <1>3, Appended
<1>6. LedgerOK'
  BY <1>1, <1>3, <1>5 DEF LedgerOK
<1>7. Moved(m)
  BY <1>1, <1>3, <1>4, <1>5 DEF Moved, Result
<1>8. \A k \in Belief \ {m} : settledBy'[k] = settledBy[k] /\ status'[k] = status[k]
  BY <1>1, <1>3
<1>9. SettledIsDecided' /\ LogExplainsStatus' /\ CanonicalIsReviewed'
  BY <1>5, <1>7, <1>8, StatusFrame
<1>10. QueuePromotes'
  BY <1>4, <1>5 DEF QueuePromotes, ReviewInv, RowId
<1> QED
  BY <1>1, <1>3, <1>5, <1>6, <1>9, <1>10 DEF r

\* Requests that a step leaves alone stay typed while rows are only added.
LEMMA RequestFrame ==
  ASSUME ReviewInv, UNCHANGED request, RowId \subseteq RowId'
  PROVE  RequestOK'
  BY DEF ReviewInv, ReviewTypeOK, RequestOK, request

\* The answers AnswerAll writes.
LEMMA Answered ==
  ASSUME ReviewInv, NEW m \in Belief, NEW u \in User,
         NEW answer \in {"reverified", "deprecated", "dismissed"}, claims' = AnswerAll(m, answer, u)
  PROVE  /\ ClaimsOK'
         /\ \A c \in 1..Len(claims') :
              \/ c \in ClaimId /\ claims'[c] = claims[c]
              \/ claims'[c] = [memory |-> m, answer |-> answer, by |-> u]
<1>1. claims \in Seq(ClaimRow) /\ Len(claims) \in Nat
  BY DEF ReviewInv, ReviewTypeOK, ClaimsOK
<1> DEFINE new(c) == IF claims[c].memory = m /\ claims[c].answer = "open"
                     THEN [memory |-> m, answer |-> answer, by |-> u] ELSE claims[c]
<1>2. claims' = [c \in 1..Len(claims) |-> new(c)]
  BY DEF AnswerAll, ClaimId
<1>3. \A c \in 1..Len(claims) : new(c) \in ClaimRow
  <2>1. \A c \in 1..Len(claims) : claims[c] \in ClaimRow
    BY <1>1, ElementOfSeq
  <2>2. [memory |-> m, answer |-> answer, by |-> u] \in ClaimRow
    BY DEF ClaimRow
  <2> QED
    BY <2>1, <2>2
<1>4. \A c \in 1..Len(claims) : new(c) = claims[c] \/ new(c) = [memory |-> m, answer |-> answer, by |-> u]
  OBVIOUS
<1> HIDE DEF new
<1>5. claims' \in Seq(ClaimRow) /\ Len(claims') = Len(claims)
  BY <1>1, <1>2, <1>3
<1> QED
  BY <1>1, <1>2, <1>4, <1>5 DEF ClaimsOK, ClaimId

-----------------------------------------------------------------------------
(* The steps, by what they write. *)

\* Nothing but requests moves.
LEMMA RequestStep ==
  ASSUME ReviewInv, UNCHANGED <<standing, ledger, claims>>, RequestOK'
  PROVE  ReviewInv'
  BY DEF ReviewInv, ReviewTypeOK, StandingOK, LedgerOK, ClaimsOK, SettledIsDecided, QueuePromotes,
         LogExplainsStatus, CanonicalIsReviewed, AnswerIsReal, SupersededStaysClosed, standing, ledger,
         RowId, ClaimId

\* review_one decides a waiting row and moves its memory.
LEMMA DecideStep ==
  ASSUME ReviewInv, NEW u \in User, NEW p \in RowId, Actionable(p),
         MayReview(u, promotions[p].memory), Decide(u, p), UNCHANGED <<window, superseded, claims>>, RequestOK'
  PROVE  ReviewInv'
<1> DEFINE m == promotions[p].memory
           done == Row(m, promotions[p].from, promotions[p].to, IF approving[u] THEN "approved" ELSE "denied", u)
<1>1. /\ promotions \in Seq(PromotionRow) /\ settledBy \in [Belief -> 0..Len(promotions)]
      /\ status \in [Belief -> Statuses] /\ p \in 1..Len(promotions) /\ Len(promotions) \in Nat
  BY DEF ReviewInv, ReviewTypeOK, LedgerOK, StandingOK, RowId
<1>2. promotions[p] \in PromotionRow /\ promotions[p].decision = "needs_review" /\ Owner[m] \in Maintains[u]
  BY <1>1, ElementOfSeq DEF Actionable, Pending, MayReview
<1>3. m \in Belief /\ done \in PromotionRow
  BY <1>2 DEF Row, PromotionRow, Decision
<1>4. done.decision \in {"approved", "denied"} /\ done.by = u
  BY DEF Row
<1>5. /\ promotions' = [promotions EXCEPT ![p] = done] /\ settledBy' = [settledBy EXCEPT ![m] = p]
      /\ status' = [status EXCEPT ![m] = Result(done)]
  BY DEF Decide
<1>6. Result(done) \in Statuses /\ (done.decision = "denied" => Result(done) = "rejected")
  BY <1>3 DEF Result, PromotionRow, Statuses
<1>7. m = promotions[p].memory
  OBVIOUS
<1> HIDE DEF m, done
<1>8. /\ promotions' \in Seq(PromotionRow) /\ Len(promotions') = Len(promotions) /\ promotions'[p] = done
      /\ \A k \in 1..Len(promotions) \ {p} : promotions'[k] = promotions[k]
  BY <1>1, <1>3, <1>5, ExceptSeq
<1>9. RowsStay
  BY <1>1, <1>2, <1>8 DEF RowsStay, RowId
<1>10. Moved(m)
  BY <1>1, <1>2, <1>3, <1>4, <1>5, <1>6, <1>8 DEF Moved
<1>11. \A k \in Belief \ {m} : settledBy'[k] = settledBy[k] /\ status'[k] = status[k]
  BY <1>1, <1>5
<1>12. SettledIsDecided' /\ LogExplainsStatus' /\ CanonicalIsReviewed'
  BY <1>9, <1>10, <1>11, StatusFrame
<1>13. QueuePromotes'
  BY <1>4, <1>8 DEF QueuePromotes, ReviewInv, RowId
<1>14. AnswerIsReal'
  <2>1. \A c \in 1..Len(claims') : c \in ClaimId /\ claims'[c] = claims[c]
    BY DEF ClaimId
  <2> QED
    BY <1>9, <2>1, AnswerFrame
<1>15. StandingOK' /\ LedgerOK' /\ ClaimsOK'
  BY <1>1, <1>3, <1>5, <1>6, <1>8 DEF StandingOK, LedgerOK, ClaimsOK, ReviewInv, ReviewTypeOK
<1>16. SupersededStaysClosed'
  BY DEF ReviewInv, SupersededStaysClosed
<1> QED
  BY <1>12, <1>13, <1>14, <1>15, <1>16 DEF ReviewInv, ReviewTypeOK

\* A memory is withdrawn under a row of its own; the claims keep their answers or
\* get one that the row bears out, and a window only closes.
LEMMA WithdrawStep ==
  ASSUME ReviewInv, NEW m \in Belief, NEW to \in {"deprecated", "rejected"},
         NEW decision \in {"approved", "auto_rejected"}, NEW by \in User \cup {Engine},
         Log(m, to, decision, by), status' = [status EXCEPT ![m] = to], UNCHANGED request,
         window' = window \/ window' = [window EXCEPT ![m] = "closed"],
         superseded' = superseded \/ (superseded' = superseded \cup {m} /\ window' = [window EXCEPT ![m] = "closed"]),
         claims' = claims \/ (to = "deprecated" /\ by \in User /\ claims' = AnswerAll(m, "deprecated", by))
  PROVE  ReviewInv'
<1>1. /\ LedgerOK' /\ RowsStay
      /\ SettledIsDecided' /\ QueuePromotes' /\ LogExplainsStatus' /\ CanonicalIsReviewed'
      /\ Len(promotions) + 1 \in 1..Len(promotions') /\ Len(promotions) <= Len(promotions')
      /\ promotions'[Len(promotions) + 1] = Row(m, status[m], to, decision, by)
  BY LogStep
<1>2. StandingOK' /\ SupersededStaysClosed'
  BY DEF ReviewInv, ReviewTypeOK, StandingOK, SupersededStaysClosed, Statuses, Windows
<1>3. ClaimsOK' /\ AnswerIsReal'
  <2>1. CASE claims' = claims
    <3>1. \A c \in 1..Len(claims') : c \in ClaimId /\ claims'[c] = claims[c]
      BY <2>1 DEF ClaimId
    <3> QED
      BY <1>1, <2>1, <3>1, AnswerFrame DEF ReviewInv, ReviewTypeOK, ClaimsOK
  <2>2. CASE to = "deprecated" /\ by \in User /\ claims' = AnswerAll(m, "deprecated", by)
    <3>1. /\ ClaimsOK'
          /\ \A c \in 1..Len(claims') : \/ c \in ClaimId /\ claims'[c] = claims[c]
                                        \/ claims'[c] = [memory |-> m, answer |-> "deprecated", by |-> by]
      BY <2>2, Answered
    <3> DEFINE q == promotions'[Len(promotions) + 1]
    <3>2. q.memory = m /\ q.to = "deprecated" /\ q.by = by
      BY <1>1, <2>2 DEF Row
    <3> QED
      BY <1>1, <3>1, <3>2, AnswerFrame
  <2> QED
    BY <2>1, <2>2
<1>4. RequestOK'
  <2>1. Len(promotions) \in Nat /\ Len(promotions') \in Nat
    BY <1>1 DEF ReviewInv, ReviewTypeOK, LedgerOK
  <2> QED
    BY <1>1, <2>1, RequestFrame DEF RowId
<1> QED
  BY <1>1, <1>2, <1>3, <1>4 DEF ReviewInv, ReviewTypeOK

\* Claims come and are answered, and windows move, without a row; no answer says
\* that a memory was deprecated, and what is superseded is not touched.
LEMMA ValidityStep ==
  ASSUME ReviewInv, UNCHANGED <<status, superseded, ledger>>, StandingOK', ClaimsOK', RequestOK',
         \A m \in superseded : window'[m] = window[m],
         \A c \in 1..Len(claims') : \/ c \in ClaimId /\ claims'[c] = claims[c]
                                    \/ claims'[c].answer # "deprecated"
  PROVE  ReviewInv'
<1>1. RowsStay
  BY DEF RowsStay, RowId, ledger
<1>2. AnswerIsReal'
  BY <1>1, AnswerFrame
<1>3. LedgerOK' /\ SettledIsDecided' /\ QueuePromotes' /\ LogExplainsStatus' /\ CanonicalIsReviewed'
  BY DEF ReviewInv, ReviewTypeOK, LedgerOK, SettledIsDecided, QueuePromotes, LogExplainsStatus,
         CanonicalIsReviewed, RowId, ledger
<1>4. SupersededStaysClosed'
  BY DEF ReviewInv, SupersededStaysClosed
<1> QED
  BY <1>2, <1>3, <1>4 DEF ReviewInv, ReviewTypeOK

\* An answer that a memory was verified again or is fine leaves the rows alone.
LEMMA GoodNewsStep ==
  ASSUME ReviewInv, NEW m \in Belief, NEW u \in User, NEW answer \in {"reverified", "dismissed"},
         claims' = AnswerAll(m, answer, u), UNCHANGED <<status, superseded, ledger>>, RequestOK',
         \/ window' = window
         \/ m \notin superseded /\ window' = [window EXCEPT ![m] = "ahead"]
  PROVE  ReviewInv'
<1>1. /\ ClaimsOK'
      /\ \A c \in 1..Len(claims') : \/ c \in ClaimId /\ claims'[c] = claims[c]
                                    \/ claims'[c] = [memory |-> m, answer |-> answer, by |-> u]
  <2>1. answer \in {"reverified", "deprecated", "dismissed"}
    OBVIOUS
  <2> QED
    BY <2>1, Answered, ZenonT(40)
<1>2. StandingOK' /\ \A k \in superseded : window'[k] = window[k]
  BY DEF ReviewInv, ReviewTypeOK, StandingOK, Windows
<1>3. \A c \in 1..Len(claims') : \/ c \in ClaimId /\ claims'[c] = claims[c]
                                 \/ claims'[c].answer # "deprecated"
  BY <1>1
<1> QED
  BY <1>1, <1>2, <1>3, ValidityStep

\* Every action keeps the invariant.
LEMMA ReviewStep == ReviewInv /\ [ReviewNext]_reviewVars => ReviewInv'
<1> SUFFICES ASSUME ReviewInv, [ReviewNext]_reviewVars PROVE ReviewInv'
  OBVIOUS
<1> USE DEF ReviewTypeOK
<1>0. /\ promotions \in Seq(PromotionRow) /\ claims \in Seq(ClaimRow)
      /\ Len(promotions) \in Nat /\ Len(claims) \in Nat
  BY DEF ReviewInv, LedgerOK, ClaimsOK
<1>1. ASSUME NEW u \in User, NEW ordered \in SUBSET Pending, NEW approve \in BOOLEAN,
             Order(u, ordered, approve)
      PROVE  ReviewInv'
  <2>1. ordered \subseteq RowId /\ RowId \subseteq Nat /\ promotions' = promotions
    BY <1>0, <1>1 DEF Pending, RowId, Order, ledger
  <2>2. RequestOK'
    BY <1>1, <2>1 DEF ReviewInv, RequestOK, Order, RowId, Doings
  <2> QED
    BY <1>1, <2>2, RequestStep DEF Order
<1>2. ASSUME NEW u \in User, ReviewOne(u) PROVE ReviewInv'
  <2>1. PICK p \in toDecide[u] :
          /\ IF Actionable(p) /\ MayReview(u, promotions[p].memory)
             THEN Decide(u, p) ELSE UNCHANGED <<status, ledger>>
          /\ toDecide' = [toDecide EXCEPT ![u] = @ \ {p}]
          /\ doing' = [doing EXCEPT ![u] = IF toDecide[u] = {p} THEN "idle" ELSE @]
          /\ approving' = [approving EXCEPT ![u] = @ /\ toDecide[u] # {p}]
    BY <1>2 DEF ReviewOne
  <2>2. p \in RowId /\ doing[u] = "reviewing" /\ UNCHANGED <<window, superseded, claims, item>>
    BY <1>2 DEF ReviewOne, ReviewInv, RequestOK
  <2>3. ASSUME RowId' = RowId PROVE RequestOK'
    BY <2>1, <2>2, <2>3 DEF ReviewInv, RequestOK, Doings
  <2>4. CASE Actionable(p) /\ MayReview(u, promotions[p].memory)
    <3>1. Decide(u, p)
      BY <2>1, <2>4
    <3>2. Len(promotions') = Len(promotions)
      BY <1>0, <3>1 DEF Decide
    <3> QED
      BY <2>2, <2>3, <2>4, <3>1, <3>2, DecideStep DEF RowId
  <2>5. CASE ~ (Actionable(p) /\ MayReview(u, promotions[p].memory))
    BY <2>1, <2>2, <2>3, <2>5, RequestStep DEF RowId, standing, ledger
  <2> QED
    BY <2>4, <2>5
<1>3. ASSUME NEW u \in User, Queue(u) PROVE ReviewInv'
  <2> DEFINE r == IF doing[u] = "proposing raw"
                  THEN Row(item[u], "raw", "candidate", "needs_review", Engine)
                  ELSE Row(item[u], "candidate", "canonical", "needs_review", Engine)
  <2>1. item[u] \in Belief
    BY <1>3 DEF Queue, ReviewInv, RequestOK
  <2>2. r \in PromotionRow /\ r.to # "deprecated"
    BY <2>1 DEF Row, PromotionRow, Statuses, Decision
  <2>3. promotions' = Append(promotions, r)
    BY <1>3 DEF Queue
  <2> HIDE DEF r
  <2>4. /\ promotions' \in Seq(PromotionRow) /\ Len(promotions') = Len(promotions) + 1
        /\ promotions'[Len(promotions) + 1] = r
        /\ \A p \in RowId : promotions'[p] = promotions[p]
        /\ RowsStay
    BY <2>2, <2>3, Appended
  <2>5. /\ UNCHANGED <<standing, settledBy, claims, toDecide, approving>>
        /\ doing' = [doing EXCEPT ![u] = "idle"] /\ item' = [item EXCEPT ![u] = NoItem]
    BY <1>3 DEF Queue
  <2>6. RequestOK'
    <3>1. RowId \subseteq RowId'
      BY <1>0, <2>4 DEF RowId
    <3>2. doing' \in [User -> Doings] /\ item' \in [User -> Belief \cup {NoItem}]
      BY <2>5 DEF ReviewInv, RequestOK, Doings
    <3>3. \A v \in User : doing'[v] \in {"proposing raw", "proposing", "verifying"} => item'[v] \in Belief
      BY <2>5 DEF ReviewInv, RequestOK
    <3> QED
      BY <2>5, <3>1, <3>2, <3>3 DEF ReviewInv, RequestOK
  <2>7. StandingOK' /\ LedgerOK' /\ ClaimsOK'
    BY <1>0, <2>4, <2>5 DEF ReviewInv, StandingOK, LedgerOK, ClaimsOK, standing
  <2>8. SettledIsDecided' /\ LogExplainsStatus' /\ CanonicalIsReviewed'
    BY <2>4, <2>5, StatusFrame DEF standing
  <2>9. QueuePromotes'
    BY <1>0, <2>2, <2>4 DEF QueuePromotes, ReviewInv, RowId
  <2>10. AnswerIsReal' /\ SupersededStaysClosed'
    BY <2>4, <2>5, AnswerFrame DEF ClaimId, ReviewInv, SupersededStaysClosed, standing
  <2> QED
    BY <2>6, <2>7, <2>8, <2>9, <2>10 DEF ReviewInv
<1>4. ASSUME NEW u \in User, Extend(u) PROVE ReviewInv'
  <2>1. item[u] \in Belief
    BY <1>4 DEF Extend, ReviewInv, RequestOK
  <2>2. RequestOK'
    BY <1>4 DEF Extend, ReviewInv, RequestOK, RowId, Doings, ledger
  <2>3. CASE Extendable(item[u])
    BY <1>4, <2>1, <2>2, <2>3, GoodNewsStep DEF Extend, Extendable
  <2>4. CASE ~ Extendable(item[u])
    BY <1>4, <2>2, <2>4, RequestStep DEF Extend, standing
  <2> QED
    BY <2>3, <2>4
<1>5. ASSUME NEW u \in User, NEW m \in Belief, Propose(u, m) \/ Reverify(u, m) PROVE ReviewInv'
  <2>1. RequestOK'
    BY <1>5 DEF Propose, Reverify, ReviewInv, RequestOK, RowId, Doings, ledger
  <2> QED
    BY <1>5, <2>1, RequestStep DEF Propose, Reverify
<1>6. ASSUME NEW u \in User, NEW m \in Belief, Supersede(u, m) PROVE ReviewInv'
  BY <1>6, WithdrawStep DEF Supersede, Retire
<1>7. ASSUME NEW u \in User, NEW m \in Belief, AnswerDeprecated(u, m) PROVE ReviewInv'
  <2>1. UNCHANGED <<superseded, request>> /\ Log(m, "deprecated", "approved", u)
    BY <1>7 DEF AnswerDeprecated, Retire
  <2> QED
    BY <1>7, <2>1, WithdrawStep DEF AnswerDeprecated, Retire
<1>8. ASSUME NEW u \in User, NEW m \in Belief, AnswerReverified(u, m) \/ AnswerDismissed(u, m)
      PROVE  ReviewInv'
  <2>1. RequestOK' /\ UNCHANGED <<status, superseded, ledger>>
    BY <1>8, RequestFrame DEF AnswerReverified, AnswerDismissed, RowId, standing, ledger
  <2> QED
    BY <1>8, <2>1, GoodNewsStep DEF AnswerReverified, AnswerDismissed, Closed, standing
<1>9. ASSUME NEW m \in Belief, ExpireRaw(m) PROVE ReviewInv'
  BY <1>9, WithdrawStep DEF ExpireRaw
<1>10. ASSUME NEW m \in Belief, Lapse(m) PROVE ReviewInv'
  <2>1. /\ window[m] = "ahead" /\ window' = [window EXCEPT ![m] = "past"]
        /\ UNCHANGED <<status, superseded, ledger, claims, request>>
    BY <1>10 DEF Lapse
  <2>2. RequestOK'
    BY <2>1, RequestFrame DEF RowId, ledger
  <2>3. StandingOK' /\ \A k \in superseded : window'[k] = window[k]
    BY <2>1 DEF ReviewInv, StandingOK, SupersededStaysClosed, Windows
  <2> QED
    BY <2>1, <2>2, <2>3, ValidityStep DEF ReviewInv, ClaimsOK, ClaimId
<1>11. ASSUME NEW m \in Belief, Claim(m) PROVE ReviewInv'
  <2> DEFINE new == [memory |-> m, answer |-> "open", by |-> Nobody]
  <2>1. /\ claims' = Append(claims, new) /\ UNCHANGED <<standing, ledger, request>>
    BY <1>11 DEF Claim
  <2>2. new \in ClaimRow
    BY DEF ClaimRow
  <2>3. new.answer # "deprecated"
    OBVIOUS
  <2> HIDE DEF new
  <2>4. /\ claims' \in Seq(ClaimRow) /\ Len(claims') = Len(claims) + 1
        /\ claims'[Len(claims) + 1] = new /\ \A c \in 1..Len(claims) : claims'[c] = claims[c]
    BY <1>0, <2>1, <2>2, AppendProperties
  <2>5. \A c \in 1..Len(claims') : \/ c \in ClaimId /\ claims'[c] = claims[c]
                                   \/ claims'[c].answer # "deprecated"
    BY <1>0, <2>3, <2>4 DEF ClaimId
  <2>6. RequestOK'
    BY <2>1, RequestFrame DEF RowId, ledger
  <2> QED
    BY <2>1, <2>4, <2>5, <2>6, ValidityStep DEF ReviewInv, StandingOK, ClaimsOK, standing
<1>12. CASE UNCHANGED reviewVars
  <2>1. RequestOK'
    BY <1>12, RequestFrame DEF reviewVars, RowId, ledger
  <2> QED
    BY <1>12, <2>1, RequestStep DEF reviewVars
<1> QED
  BY <1>1, <1>2, <1>3, <1>4, <1>5, <1>6, <1>7, <1>8, <1>9, <1>10, <1>11, <1>12 DEF ReviewNext

-----------------------------------------------------------------------------
\* Whoever reviews, proposes, answers, supersedes and expires at once: a status
\* is the one its last decided row tells, canonical means approved by a maintainer
\* of the owning team, and an answer "deprecated" did deprecate.
THEOREM StatusesAreEarned == ReviewSpec => []StatusIsEarned
<1>1. ReviewInv => StatusIsEarned
  BY DEF ReviewInv, StatusIsEarned
<1> QED
  BY ReviewStart, ReviewStep, <1>1, PTL DEF ReviewSpec

\* No re-verification or answered claim reopens a memory that was superseded
\* between its read and its write (memories.rs extend_validity).
THEOREM SupersessionsStay == ReviewSpec => []SupersededStaysClosed
<1>1. ReviewInv => SupersededStaysClosed
  BY DEF ReviewInv
<1> QED
  BY ReviewStart, ReviewStep, <1>1, PTL DEF ReviewSpec

\* No sweep and no policy takes a candidate or a canonical memory away: the row
\* that a withdrawal is settled by is a person's (expire_stale_raw, review_one).
THEOREM WithdrawalsArePersonal == ReviewSpec => OnlyPeopleWithdraw
<1> DEFINE Withdrawn(m) == status[m] \in {"candidate", "canonical"} /\ status'[m] \in {"deprecated", "rejected"}
           Personal == \A m \in Belief : Withdrawn(m) => promotions'[settledBy'[m]].by \in User
<1>1. ReviewInv /\ [ReviewNext]_reviewVars => [Personal]_reviewVars
  <2> SUFFICES ASSUME ReviewInv, ReviewNext PROVE Personal
    OBVIOUS
  <2>0. status \in [Belief -> Statuses] /\ settledBy \in [Belief -> 0..Len(promotions)]
        /\ promotions \in Seq(PromotionRow)
    BY DEF ReviewInv, ReviewTypeOK, StandingOK, LedgerOK
  <2>1. ASSUME status' = status PROVE Personal
    BY <2>1
  <2>2. ASSUME NEW u \in User, NEW m \in Belief, Retire(m, u) PROVE Personal
    <3>1. /\ settledBy'[m] = Len(promotions) + 1
          /\ promotions'[Len(promotions) + 1] = Row(m, status[m], "deprecated", "approved", u)
          /\ \A k \in Belief \ {m} : status'[k] = status[k]
      BY <2>0, <2>2, LogStep DEF Retire
    <3>2. promotions'[settledBy'[m]].by = u
      BY <3>1 DEF Row
    <3> QED
      BY <3>1, <3>2
  <2>3. ASSUME NEW u \in User, ReviewOne(u), status' # status PROVE Personal
    <3>1. PICK p \in toDecide[u] : Decide(u, p)
      BY <2>3 DEF ReviewOne
    <3>2. p \in 1..Len(promotions)
      BY DEF ReviewInv, ReviewTypeOK, RequestOK, RowId
    <3> DEFINE m == promotions[p].memory
               done == Row(m, promotions[p].from, promotions[p].to, IF approving[u] THEN "approved" ELSE "denied", u)
    <3>3. promotions[p] \in PromotionRow
      BY <2>0, <3>2, ElementOfSeq
    <3>4. m \in Belief /\ done \in PromotionRow /\ done.by = u
      BY <3>3 DEF Row, PromotionRow, Decision
    <3>5. /\ promotions' = [promotions EXCEPT ![p] = done] /\ settledBy' = [settledBy EXCEPT ![m] = p]
          /\ status' = [status EXCEPT ![m] = Result(done)]
      BY <3>1 DEF Decide
    <3> HIDE DEF m, done
    <3>6. promotions'[p] = done
      BY <2>0, <3>2, <3>4, <3>5, ExceptSeq
    <3> QED
      BY <2>0, <3>4, <3>5, <3>6
  <2>4. ASSUME NEW m \in Belief, ExpireRaw(m) PROVE Personal
    BY <2>0, <2>4 DEF ExpireRaw, Stale
  <2> QED
    BY <2>1, <2>2, <2>3, <2>4, ZenonT(40)
    DEF ReviewNext, Order, Queue, Extend, Propose, Supersede, Reverify, AnswerReverified,
        AnswerDeprecated, AnswerDismissed, Lapse, Claim, standing
<1> QED
  BY ReviewStart, ReviewStep, <1>1, PTL DEF ReviewSpec, OnlyPeopleWithdraw

-----------------------------------------------------------------------------
(* The run of KnowledgeMC. *)

\* A behaviour of the run, with all its restrictions, is a behaviour of intake, of
\* the worker, of the ledger of disputes and of the review queue, so that what is
\* proved of those holds of it.
THEOREM KnowledgeIsOfItsParts ==
  KnowledgeSpec => IngestSpec /\ WorkSpec /\ Spec /\ ReviewSpec
<1>1. KnowledgeInit => IngestInit /\ WorkInit /\ Init /\ ReviewInit
  BY DEF KnowledgeInit, WorkInit
<1>2. [KnowledgeNext]_knowledgeVars => [WorkNext]_workVars /\ [Next]_vars /\ [ReviewNext]_reviewVars
  <2>1. KnowledgeNext =>
          \/ WorkNext /\ UNCHANGED <<vars, reviewVars>>
          \/ Next /\ UNCHANGED <<workVars, reviewVars>>
          \/ ReviewNext /\ UNCHANGED <<vars, workVars>>
    BY DEF KnowledgeNext, WorkNext
  <2>2. UNCHANGED knowledgeVars => UNCHANGED <<vars, workVars, reviewVars>>
    BY DEF knowledgeVars
  <2> QED
    BY <2>1, <2>2
<1>3. [WorkNext]_workVars => [RequestNext]_ingestVars
  BY DEF WorkNext, workVars, Begin, Extract, ResolveEntity, Judge, CommitRun, FailRun,
         Acknowledge, CrashRun, Reap
<1> QED
  BY <1>1, <1>2, <1>3, PTL DEF KnowledgeSpec, IngestSpec, WorkSpec, Spec, ReviewSpec
=============================================================================
