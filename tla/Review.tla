-------------------------------- MODULE Review --------------------------------
(***************************************************************************)
(* How people govern memories: the promotion queue (brainiac-server        *)
(* console.rs, http.rs), the proposals of agents (mcp.rs), the claims that *)
(* readers file against a memory and their answers (console.rs and         *)
(* brainiac-store feedback.rs), re-verification and the expiry of what     *)
(* nobody reviewed (brainiac-store memories.rs).  All of them move one     *)
(* memory's status and window of validity, each in its own transaction,    *)
(* and leave a row of promotions behind: queue and audit log are one       *)
(* table.                                                                  *)
(*                                                                         *)
(* A transaction that locks what it decides on before it reads it is one   *)
(* step; one that reads first and writes later is two.  A memory is seen   *)
(* by every user here, and its supersession is what module Disputes makes  *)
(* of it.                                                                  *)
(***************************************************************************)
EXTENDS Integers, FiniteSets, Sequences

CONSTANTS
  Belief,       \* memories
  User, Team,
  Teamless,     \* the owner of an org-wide memory
  Owner,        \* Owner[m]: team_id of memory m
  Maintains,    \* Maintains[u]: the teams user u is a maintainer of
  Promoted,     \* memories the policy has made candidates by itself
  Engine,       \* the policy, as reviewer of what the policy or a sweep decides
  Nobody,       \* the one who answered a claim that is open
  MaxPromotion, \* bound: rows of promotions
  MaxClaim      \* bound: claims

ASSUME ReviewAssumption ==
  /\ Teamless \notin Team /\ Engine \notin User /\ Nobody \notin User
  /\ Owner \in [Belief -> Team \cup {Teamless}]
  /\ Maintains \in [User -> SUBSET Team]
  /\ Promoted \subseteq Belief
  /\ IsFiniteSet(Belief) /\ MaxPromotion >= Cardinality(Belief)
  /\ MaxPromotion \in Nat /\ MaxClaim \in Nat

VARIABLES
  status,      \* status[m]
  window,      \* window[m]: valid_to is ahead, is past, or was closed
  superseded,  \* memories with superseded_by
  promotions,  \* the rows of promotions, in the order of their creation
  settledBy,   \* history: settledBy[m] is the row that m got its status from
  claims,      \* the wrong and outdated verdicts of memory_feedback
  doing,       \* doing[u]: the request of user u
  item,        \* item[u]: the memory it is about
  toDecide,    \* toDecide[u]: the promotions of its batch still to decide
  approving    \* approving[u]: the action of the batch

standing    == <<status, window, superseded>>
ledger  == <<promotions, settledBy>>
request == <<doing, item, toDecide, approving>>
reviewVars    == <<standing, ledger, claims, request>>

Statuses == {"raw", "candidate", "canonical", "deprecated", "rejected"}
RowId    == 1..Len(promotions)
ClaimId  == 1..Len(claims)

Row(m, from, to, decision, by) ==
  [memory |-> m, from |-> from, to |-> to, decision |-> decision, by |-> by]
\* The status a decided row stands for.
Result(p) == IF p.decision = "denied" THEN "rejected" ELSE p.to

\* process_job has judged every memory: it is a candidate, or waits.
Judged(m) == IF m \in Promoted THEN Row(m, "raw", "candidate", "auto_approved", Engine)
                               ELSE Row(m, "raw", "candidate", "needs_review", Engine)

\* The request of an idle user.
NoItem == CHOOSE m \in Belief : TRUE

ReviewInit ==
  LET order == CHOOSE f \in [1..Cardinality(Belief) -> Belief] :
                 \A m \in Belief : \E i \in DOMAIN f : f[i] = m
  IN  /\ promotions = [i \in DOMAIN order |-> Judged(order[i])]
      /\ settledBy = [m \in Belief |-> IF m \in Promoted
                                  THEN CHOOSE i \in DOMAIN order : order[i] = m ELSE 0]
      /\ status = [m \in Belief |-> IF m \in Promoted THEN "candidate" ELSE "raw"]
      /\ window = [m \in Belief |-> "ahead"]
      /\ superseded = {} /\ claims = << >>
      /\ doing = [u \in User |-> "idle"]
      /\ item = [u \in User |-> NoItem]
      /\ toDecide = [u \in User |-> {}]
      /\ approving = [u \in User |-> FALSE]

\* A transition and the row that records it (set_memory_status never writes
\* without its caller's row).
Log(m, to, decision, by) ==
  /\ Len(promotions) < MaxPromotion
  /\ promotions' = Append(promotions, Row(m, status[m], to, decision, by))
  /\ settledBy' = [settledBy EXCEPT ![m] = Len(promotions) + 1]

-----------------------------------------------------------------------------
(* The promotion queue. *)

\* pending_promotions.
Pending == {p \in RowId : promotions[p].decision = "needs_review"}

\* approve, reject and bulk_review: a batch, of one or more, of what the queue
\* has shown.
Order(u, batch, approve) ==
  /\ doing[u] = "idle" /\ batch # {}
  /\ doing' = [doing EXCEPT ![u] = "reviewing"]
  /\ toDecide' = [toDecide EXCEPT ![u] = batch]
  /\ approving' = [approving EXCEPT ![u] = approve]
  /\ UNCHANGED <<standing, ledger, claims, item>>

\* Mutant: one gate for the whole batch.
MayReviewBatch(u, m) == Maintains[u] # {}
\* is_maintainer of the owning team.  A memory without a team has no reviewer:
\* its promotion cannot be read.
MayReview(u, m) == Owner[m] \in Maintains[u]
\* actionable_promotion, under its row lock.
Actionable(p) == p \in Pending

\* review_one: the row is stamped and the memory gets its status.
Decide(u, p) ==
  LET m    == promotions[p].memory
      done == Row(m, promotions[p].from, promotions[p].to,
                  IF approving[u] THEN "approved" ELSE "denied", u)
  IN  /\ promotions' = [promotions EXCEPT ![p] = done]
      /\ settledBy' = [settledBy EXCEPT ![m] = p]
      /\ status' = [status EXCEPT ![m] = Result(done)]

\* One promotion of the batch, in its own transaction: decided or refused.
ReviewOne(u) ==
  /\ doing[u] = "reviewing"
  /\ \E p \in toDecide[u] :
       /\ IF Actionable(p) /\ MayReview(u, promotions[p].memory)
          THEN Decide(u, p)
          ELSE UNCHANGED <<status, ledger>>
       /\ toDecide' = [toDecide EXCEPT ![u] = @ \ {p}]
       /\ doing' = [doing EXCEPT ![u] = IF toDecide[u] = {p} THEN "idle" ELSE @]
       /\ approving' = [approving EXCEPT ![u] = @ /\ toDecide[u] # {p}]
  /\ UNCHANGED <<window, superseded, claims, item>>

\* knowledge_propose reads the status and that nothing is pending ...
Propose(u, m) ==
  /\ doing[u] = "idle"
  /\ status[m] \in {"raw", "candidate"}
  /\ \A p \in Pending : promotions[p].memory # m
  /\ doing' = [doing EXCEPT ![u] = IF status[m] = "raw" THEN "proposing raw" ELSE "proposing"]
  /\ item' = [item EXCEPT ![u] = m]
  /\ UNCHANGED <<standing, ledger, claims, toDecide, approving>>
\* ... and inserts a row about the status it has read.
Queue(u) ==
  /\ doing[u] \in {"proposing raw", "proposing"} /\ Len(promotions) < MaxPromotion
  /\ promotions' = Append(promotions,
       IF doing[u] = "proposing raw"
       THEN Row(item[u], "raw", "candidate", "needs_review", Engine)
       ELSE Row(item[u], "candidate", "canonical", "needs_review", Engine))
  /\ doing' = [doing EXCEPT ![u] = "idle"]
  /\ item' = [item EXCEPT ![u] = NoItem]
  /\ UNCHANGED <<standing, settledBy, claims, toDecide, approving>>

\* Mutant: the sweep takes every memory that is old.
StaleAny == Belief
\* The memories expire_stale_raw finds, looked at again under their locks.
Stale == {m \in Belief : status[m] = "raw"}
\* One of them has outlived its time (each is a row of the one statement).
ExpireRaw(m) ==
  /\ m \in Stale
  /\ status' = [status EXCEPT ![m] = "rejected"]
  /\ Log(m, "rejected", "auto_rejected", Engine)
  /\ UNCHANGED <<window, superseded, claims, request>>

-----------------------------------------------------------------------------
(* Validity: time, supersession and re-verification. *)

\* valid_to passes.
Lapse(m) ==
  /\ window[m] = "ahead"
  /\ window' = [window EXCEPT ![m] = "past"]
  /\ UNCHANGED <<status, superseded, ledger, claims, request>>

\* The end a memory is brought to (apply_supersession, apply_deprecation).
Retire(m, u) ==
  /\ status' = [status EXCEPT ![m] = "deprecated"]
  /\ window' = [window EXCEPT ![m] = "closed"]
  /\ Log(m, "deprecated", "approved", u)

\* apply_supersession, decided by a maintainer of the losing team.
Supersede(u, m) ==
  /\ MayReview(u, m) /\ m \notin superseded
  /\ superseded' = superseded \cup {m}
  /\ Retire(m, u)
  /\ UNCHANGED <<claims, request>>

\* memory_reverify reads the memory, which must not be superseded ...
Reverify(u, m) ==
  /\ doing[u] = "idle"
  /\ m \notin superseded /\ (Owner[m] = Teamless \/ MayReview(u, m))
  /\ doing' = [doing EXCEPT ![u] = "verifying"]
  /\ item' = [item EXCEPT ![u] = m]
  /\ UNCHANGED <<standing, ledger, claims, toDecide, approving>>

\* The open claims of m get their answer.
AnswerAll(m, answer, u) ==
  [c \in ClaimId |-> IF claims[c].memory = m /\ claims[c].answer = "open"
                     THEN [memory |-> m, answer |-> answer, by |-> u] ELSE claims[c]]

\* Mutant: the window of a memory is set without a look at its supersession.
ExtendableAny(m) == TRUE
\* extend_validity: the UPDATE asks again.
Extendable(m) == m \notin superseded
\* ... and extends the window and answers the claims, or finds a conflict.
Extend(u) ==
  /\ doing[u] = "verifying"
  /\ IF Extendable(item[u])
     THEN /\ window' = [window EXCEPT ![item[u]] = "ahead"]
          /\ claims' = AnswerAll(item[u], "reverified", u)
     ELSE UNCHANGED <<window, claims>>
  /\ doing' = [doing EXCEPT ![u] = "idle"]
  /\ item' = [item EXCEPT ![u] = NoItem]
  /\ UNCHANGED <<status, superseded, ledger, toDecide, approving>>

-----------------------------------------------------------------------------
(* Claims against memories. *)

\* memory_feedback of an agent or over HTTP; helpful verdicts are only counted.
Claim(m) ==
  /\ Len(claims) < MaxClaim
  /\ claims' = Append(claims, [memory |-> m, answer |-> "open", by |-> Nobody])
  /\ UNCHANGED <<standing, ledger, request>>

\* flagged: the triage queue.
Flagged == {claims[c].memory : c \in {c \in ClaimId : claims[c].answer = "open"}}

\* Of a team's memory its maintainers answer, of an org-wide one those of any.
MayAnswer(u, m) == IF Owner[m] = Teamless THEN Maintains[u] # {} ELSE MayReview(u, m)

\* resolve_feedback_claims, under the lock of the memory, which also keeps new
\* claims out: verified again, deprecated, or dismissed.
Closed(m) == status[m] = "deprecated" \/ m \in superseded
AnswerReverified(u, m) ==
  /\ m \in Flagged /\ MayAnswer(u, m) /\ ~ Closed(m)
  /\ window' = [window EXCEPT ![m] = "ahead"]
  /\ claims' = AnswerAll(m, "reverified", u)
  /\ UNCHANGED <<status, superseded, ledger, request>>
AnswerDeprecated(u, m) ==
  /\ m \in Flagged /\ MayAnswer(u, m) /\ ~ Closed(m)
  /\ Retire(m, u)
  /\ claims' = AnswerAll(m, "deprecated", u)
  /\ UNCHANGED <<superseded, request>>
AnswerDismissed(u, m) ==
  /\ m \in Flagged /\ MayAnswer(u, m)
  /\ claims' = AnswerAll(m, "dismissed", u)
  /\ UNCHANGED <<standing, ledger, request>>

ReviewNext ==
  \/ \E u \in User :
       \/ \E batch \in SUBSET Pending, approve \in BOOLEAN : Order(u, batch, approve)
       \/ ReviewOne(u) \/ Queue(u) \/ Extend(u)
       \/ \E m \in Belief :
            \/ Propose(u, m) \/ Supersede(u, m) \/ Reverify(u, m)
            \/ AnswerReverified(u, m) \/ AnswerDeprecated(u, m) \/ AnswerDismissed(u, m)
  \/ \E m \in Belief : ExpireRaw(m) \/ Lapse(m) \/ Claim(m)

ReviewSpec == ReviewInit /\ [][ReviewNext]_reviewVars

-----------------------------------------------------------------------------
(* Properties. *)

\* The status of a memory is the one its last decided row of promotions tells:
\* no request moves a memory without a trace or leaves a phantom approval
\* (review_one, set_memory_status, apply_deprecation, expire_stale_raw).
LogExplainsStatus ==
  \A m \in Belief :
    status[m] = IF settledBy[m] = 0 THEN "raw" ELSE Result(promotions[settledBy[m]])

\* What is canonical was approved by a maintainer of the team that owns it,
\* whatever batch it came in and whatever became of it in between (policy.rs
\* canonical_requires_maintainer and the gate of review_one).
CanonicalIsReviewed ==
  \A m \in Belief : status[m] = "canonical" =>
    LET p == promotions[settledBy[m]]
    IN  p.decision = "approved" /\ p.by \in User /\ Owner[m] \in Maintains[p.by]

\* The answer a claim was closed with was carried out: one that says deprecated
\* has the row of the deprecation, by the one who answered (resolve_feedback_claims
\* never commits the closure of claims on top of a deprecation that did not happen).
AnswerIsReal ==
  \A c \in ClaimId : claims[c].answer = "deprecated" =>
    \E p \in RowId : /\ promotions[p].memory = claims[c].memory
                     /\ promotions[p].to = "deprecated"
                     /\ promotions[p].by = claims[c].by

\* A status can be traced to those who may give it, and an answer to what it did.
StatusIsEarned == LogExplainsStatus /\ CanonicalIsReviewed /\ AnswerIsReal

\* A superseded memory is never valid again, also if the supersession falls
\* between the two statements of a re-verification (supersessions are final).
SupersededStaysClosed == \A m \in superseded : window[m] = "closed"

\* Out of circulation (candidate, canonical) a memory goes by a person's
\* decision alone: the sweep that races a review takes only what is raw.
OnlyPeopleWithdraw ==
  [][\A m \in Belief :
       status[m] \in {"candidate", "canonical"} /\ status'[m] \in {"deprecated", "rejected"}
         => promotions'[settledBy'[m]].by \in User]_reviewVars
=============================================================================
