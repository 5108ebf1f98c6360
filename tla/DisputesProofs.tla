---------------------------- MODULE DisputesProofs ----------------------------
(***************************************************************************)
(* What the row locks of Disputes guarantee for any number of memories,    *)
(* disputes and requests: the ledger is true, a supersession and a verdict *)
(* are final, and requests never deadlock over their pairs.                *)
(***************************************************************************)
EXTENDS Disputes, FiniteSetTheorems, TLAPS

\* The ledger and the supersession chain start empty and typed.
LEMMA TypeInit == Init => TypeOK
  BY LedgerAssumption
  DEF Init, TypeOK, Memory, DisputeId, Pair, Verdicts

\* Rows inserted as last + 1 to n come from F; older rows keep their pair.
LEMMA InsertFacts ==
  ASSUME NEW F, NEW n \in last..MaxDispute, Insert(n, F), last \in Nat
  PROVE  /\ last' = n
         /\ NewRows(n) \subseteq DisputeId
         /\ \A d \in NewRows(n) : pair'[d] \in F
         /\ \A p \in F : \E d \in NewRows(n) : pair'[d] = p
         /\ \A d \in DisputeId \ NewRows(n) : pair'[d] = pair[d]
         /\ pair' = [d \in DisputeId |-> pair'[d]]
<1> DEFINE f == CHOOSE f \in Orders(n, F) : TRUE
<1>1. f \in [NewRows(n) -> F] /\ \A p \in F : \E d \in NewRows(n) : f[d] = p
  BY DEF Insert, Orders
<1>2. NewRows(n) \subseteq DisputeId
  BY LedgerAssumption DEF NewRows, DisputeId
<1>3. pair' = [d \in DisputeId |-> IF d \in NewRows(n) THEN f[d] ELSE pair[d]] /\ last' = n
  BY DEF Insert
<1> HIDE DEF f
<1> QED
  BY <1>1, <1>2, <1>3

\* Ending a request leaves its variables typed.
LEMMA ReleaseTyped ==
  ASSUME TypeOK, NEW r \in Request, Release(r)
  PROVE  /\ pc' \in [Request -> {"idle", "read", "lock", "applied", "settle"}]
         /\ on' \in [Request -> 0..MaxDispute] /\ winner' \in [Request -> 0..MaxMemory]
         /\ locks' \in [Request -> SUBSET Memory] /\ rows' \in [Request -> SUBSET DisputeId]
         /\ todo' \in [Request -> SUBSET DisputeId] /\ left' \in [Request -> SUBSET DisputeId]
         /\ asking' \in [Request -> SUBSET Memory] /\ posed' \in [Request -> SUBSET Memory]
<1>1. 0 \in 0..MaxDispute /\ 0 \in 0..MaxMemory
  BY LedgerAssumption
<1>2. pc' \in [Request -> {"idle", "read", "lock", "applied", "settle"}]
  BY DEF TypeOK, Release
<1>3. on' \in [Request -> 0..MaxDispute] /\ winner' \in [Request -> 0..MaxMemory]
  BY <1>1 DEF TypeOK, Release
<1>4. locks' \in [Request -> SUBSET Memory] /\ rows' \in [Request -> SUBSET DisputeId]
  BY DEF TypeOK, Release
<1>5. todo' \in [Request -> SUBSET DisputeId] /\ left' \in [Request -> SUBSET DisputeId]
  BY DEF TypeOK, Release
<1>6. asking' \in [Request -> SUBSET Memory] /\ posed' \in [Request -> SUBSET Memory]
  BY DEF TypeOK, Release
<1> QED
  BY <1>2, <1>3, <1>4, <1>5, <1>6

\* A request in flight has a pair of committed memories, both known by name.
LEMMA RequestFacts ==
  ASSUME TypeOK, LedgerInv, NEW r \in Request, pc[r] # "idle"
  PROVE  /\ on[r] \in DisputeId /\ verdict[on[r]] = "open" /\ on[r] <= last
         /\ winner[r] \in Memory /\ Loser(r) \in Memory /\ winner[r] # Loser(r)
         /\ Sides(on[r]) = {winner[r], Loser(r)} /\ Sides(on[r]) \subseteq born
         /\ Other(on[r], Loser(r)) = winner[r]
<1>1. /\ on[r] \in rows[r] /\ winner[r] \in Sides(on[r])
  BY DEF LedgerInv, Subject
<1>2. on[r] \in DisputeId /\ verdict[on[r]] = "open"
  BY <1>1 DEF TypeOK, LedgerInv, RowsOpen, Open
<1>3. /\ on[r] <= last /\ pair[on[r]][1] # pair[on[r]][2]
      /\ Sides(on[r]) \subseteq born
  BY <1>2 DEF LedgerInv, RowsProper
<1>4. Sides(on[r]) \subseteq Memory
  BY <1>3 DEF TypeOK
<1> QED
  BY <1>1, <1>2, <1>3, <1>4 DEF Sides, Other, Loser

\* The supersession a commit writes: none, or that of a loser still unsuperseded.
LEMMA GoneFacts ==
  ASSUME TypeOK, LedgerInv, NEW r \in Request, pc[r] = "settle"
  PROVE  \/ /\ locks[r] \ {winner[r]} = {}
            /\ supersededBy[Loser(r)] = winner[r]
         \/ /\ locks[r] \ {winner[r]} = {Loser(r)} /\ locks[r] = Sides(on[r])
            /\ Loser(r) \notin Superseded /\ supersededBy[winner[r]] # Loser(r)
<1>1. CASE locks[r] = {} /\ supersededBy[Loser(r)] = winner[r]
  BY <1>1
<1>2. CASE locks[r] = Sides(on[r]) /\ Applicable(r)
  BY <1>2, RequestFacts DEF Applicable
<1> QED
  BY <1>1, <1>2 DEF LedgerInv, AppliedHolds

\* What a commit leaves of the tables.
LEMMA CommitFacts ==
  ASSUME TypeOK, LedgerInv, NEW r \in Request, NEW n \in last..MaxDispute, Commit(r, n)
  PROVE  /\ last' = n /\ last <= n /\ NewRows(n) \subseteq DisputeId
         /\ \A d \in NewRows(n) : \E c \in posed[r] : pair'[d] = <<winner[r], c>>
         /\ \A d \in DisputeId \ NewRows(n) : pair'[d] = pair[d]
         /\ pair' = [d \in DisputeId |-> pair'[d]]
         /\ \A d \in DisputeId : verdict[d] # "none" => d \notin NewRows(n)
<1> DEFINE F == {<<winner[r], c>> : c \in posed[r]}
<1>1. last \in Nat /\ last <= n
  BY LedgerAssumption DEF TypeOK
<1>2. Insert(n, F)
  BY DEF Commit
<1> HIDE DEF F
<1>3. /\ last' = n /\ NewRows(n) \subseteq DisputeId
      /\ \A d \in NewRows(n) : pair'[d] \in F
      /\ \A d \in DisputeId \ NewRows(n) : pair'[d] = pair[d]
      /\ pair' = [d \in DisputeId |-> pair'[d]]
  BY <1>1, <1>2, InsertFacts
<1>4. \A d \in DisputeId : verdict[d] # "none" => d \notin NewRows(n)
  BY <1>1 DEF LedgerInv, RowsProper, NewRows, DisputeId
<1> QED
  BY <1>1, <1>3, <1>4 DEF F

\* Every action keeps the types.
LEMMA TypeStep == TypeOK /\ LedgerInv /\ [Next]_vars => TypeOK'
<1> SUFFICES ASSUME TypeOK, LedgerInv, [Next]_vars PROVE TypeOK'
  OBVIOUS
<1> USE DEF TypeOK
<1>0. last \in Nat
  BY LedgerAssumption
<1>1. ASSUME NEW S \in Sources, NEW F \in SUBSET ((born \cup S) \X S),
             NEW n \in last..MaxFound, Ingest(S, F, n)
      PROVE  TypeOK'
  <2>1. S \subseteq Memory
    BY DEF Sources
  <2>2. n \in last..MaxDispute
    BY LedgerAssumption, <1>0
  <2>3. /\ last' = n /\ NewRows(n) \subseteq DisputeId
        /\ \A d \in NewRows(n) : pair'[d] \in F
        /\ \A d \in DisputeId \ NewRows(n) : pair'[d] = pair[d]
        /\ pair' = [d \in DisputeId |-> pair'[d]]
    BY <1>0, <1>1, <2>2, InsertFacts DEF Ingest
  <2>4. F \subseteq Pair
    BY <2>1 DEF Pair
  <2>5. pair' \in [DisputeId -> Pair]
    BY <2>3, <2>4
  <2>6. verdict' \in [DisputeId -> Verdicts]
    BY <1>1 DEF Ingest, Verdicts
  <2>7. last' \in 0..MaxDispute
    BY <2>2, <2>3, <1>0
  <2> QED
    BY <1>1, <2>1, <2>5, <2>6, <2>7 DEF Ingest, requestVars
<1>2. ASSUME NEW m \in Memory, Deprecate(m) PROVE TypeOK'
  BY <1>2 DEF Deprecate, Living, disputeVars, requestVars
<1>3. ASSUME NEW m \in Memory, Review(m) PROVE TypeOK'
  BY <1>3 DEF Review, disputeVars, requestVars
<1>4. ASSUME NEW d \in DisputeId, NEW v \in {"coexist", "dismissed"}, Settle(d, v)
      PROVE  TypeOK'
  BY <1>4 DEF Settle, memoryVars, requestVars, Verdicts
<1>5. ASSUME NEW r \in Request, NEW d \in DisputeId, NEW w \in Memory, Contest(r, d, w)
      PROVE  TypeOK'
  <2>1. d \in 0..MaxDispute /\ w \in 0..MaxMemory
    BY LedgerAssumption DEF DisputeId, Memory
  <2> QED
    BY <1>5, <2>1 DEF Contest, memoryVars, disputeVars
<1>6. ASSUME NEW r \in Request, ReadLoser(r) PROVE TypeOK'
  BY <1>6 DEF ReadLoser, memoryVars, disputeVars
<1>7. ASSUME NEW r \in Request, NEW m \in Memory, LockNext(r, m) PROVE TypeOK'
  BY <1>7 DEF LockNext, memoryVars, disputeVars
<1>8. ASSUME NEW r \in Request, Apply(r) PROVE TypeOK'
  BY <1>8 DEF Apply, memoryVars, disputeVars
<1>9. ASSUME NEW r \in Request, FindSiblings(r) PROVE TypeOK'
  BY <1>9 DEF FindSiblings, memoryVars, disputeVars, Open
<1>10. ASSUME NEW r \in Request, NEW d \in DisputeId, CloseSibling(r, d) PROVE TypeOK'
  BY <1>10 DEF CloseSibling, memoryVars, disputeVars
<1>11. ASSUME NEW r \in Request, NEW d \in DisputeId, CarryForward(r, d) PROVE TypeOK'
  <2>1. {c \in {Counterpart(r, d)} : WorthAsking(r, c)} \subseteq Memory
    BY DEF WorthAsking, Living
  <2> QED
    BY <1>11, <2>1 DEF CarryForward, memoryVars, disputeVars
<1>12. ASSUME NEW r \in Request, NEW c \in Memory, Pose(r, c) PROVE TypeOK'
  BY <1>12 DEF Pose, memoryVars, disputeVars
<1>13. ASSUME NEW r \in Request, NEW n \in last..MaxDispute, Commit(r, n) PROVE TypeOK'
  <2>1. pc[r] = "settle"
    BY <1>13 DEF Commit
  <2>2. /\ winner[r] \in Memory /\ locks[r] \subseteq born
        /\ posed[r] \subseteq Memory
    BY <2>1, RequestFacts DEF LedgerInv, Subject
  <2>3. supersededBy' \in [Memory -> Memory]
    BY <1>13, <2>2 DEF Commit
  <2>4. pair' \in [DisputeId -> Pair] /\ NewRows(n) \subseteq DisputeId
    BY <1>13, <2>2, CommitFacts DEF Pair
  <2>5. last' \in 0..MaxDispute
    BY <1>0, <1>13, CommitFacts
  <2>6. verdict' \in [DisputeId -> Verdicts]
    BY <1>13 DEF Commit, Verdicts
  <2>7. Release(r)
    BY <1>13 DEF Commit
  <2>8. /\ born' \subseteq Memory /\ carried' \subseteq DisputeId
        /\ deprecated' \subseteq fallen' /\ fallen' \subseteq born'
    BY <1>13, <2>2, <2>4 DEF Commit
  <2> QED
    BY <2>3, <2>4, <2>5, <2>6, <2>7, <2>8, ReleaseTyped
<1>14. ASSUME NEW r \in Request, Abort(r) PROVE TypeOK'
  BY <1>14, ReleaseTyped DEF Abort, memoryVars, disputeVars
<1>15. CASE UNCHANGED vars
  BY <1>15 DEF vars, memoryVars, disputeVars, requestVars
<1> QED
  BY <1>1, <1>2, <1>3, <1>4, <1>5, <1>6, <1>7, <1>8, <1>9, <1>10, <1>11, <1>12,
     <1>13, <1>14, <1>15 DEF Next, Resolve

\* The types and the lock discipline hold at the start.
LEMMA LedgerInit == Init => LedgerInv
  BY LedgerAssumption
  DEF Init, LedgerInv, LocksApart, RowsOpen, Subject, RowsProper, AppliedHolds,
      LedgerIsTrue, Open

\* Nothing LedgerInv reads of the tables changes but what is committed: a step
\* that only adds rows, memories and other verdicts keeps what it says of the
\* requests.
LEMMA LedgerFrame ==
  ASSUME TypeOK, LedgerInv, UNCHANGED requestVars, UNCHANGED supersededBy,
         born \subseteq born', last \in Nat, last' \in Nat, last <= last',
         \A d \in DisputeId : verdict[d] # "none" => pair'[d] = pair[d],
         \A d \in DisputeId : verdict'[d] # verdict[d] =>
           /\ verdict'[d] # "superseded"
           /\ \A r \in Request : d \notin rows[r],
         \A d \in DisputeId : verdict'[d] # "none" /\ verdict[d] = "none" =>
           /\ d <= last' /\ pair'[d][1] # pair'[d][2]
           /\ {pair'[d][1], pair'[d][2]} \subseteq born'
  PROVE  LedgerInv'
<1> USE DEF requestVars
<1>1. \A d \in DisputeId : verdict[d] # "none" =>
        Sides(d)' = Sides(d) /\ \A m : Other(d, m)' = Other(d, m)
  BY DEF Sides, Other
<1>2. \A r \in Request : pc[r] # "idle" =>
        /\ on[r] \in DisputeId /\ Sides(on[r])' = Sides(on[r])
        /\ Loser(r)' = Loser(r)
  BY RequestFacts DEF Sides, Other, Loser
<1>3. LocksApart'
  BY DEF LedgerInv, LocksApart
<1>4. RowsOpen'
  BY DEF TypeOK, LedgerInv, RowsOpen, Open
<1>5. Subject'
  BY <1>2 DEF LedgerInv, Subject
<1>6. RowsProper'
  <2> SUFFICES ASSUME NEW d \in DisputeId, verdict'[d] # "none"
               PROVE  /\ d <= last' /\ pair'[d][1] # pair'[d][2]
                      /\ {pair'[d][1], pair'[d][2]} \subseteq born'
    BY DEF RowsProper, Sides
  <2>1. CASE verdict[d] = "none"
    BY <2>1
  <2>2. CASE verdict[d] # "none"
    BY <2>2 DEF LedgerInv, RowsProper, Sides, DisputeId
  <2> QED
    BY <2>1, <2>2
<1>7. AppliedHolds'
  BY <1>2 DEF LedgerInv, AppliedHolds, Applicable, Superseded
<1>8. LedgerIsTrue'
  BY <1>1 DEF LedgerInv, LedgerIsTrue
<1> QED
  BY <1>3, <1>4, <1>5, <1>6, <1>7, <1>8 DEF LedgerInv

\* A step of a request that writes no table keeps what LedgerInv says of the
\* tables; what it says of the requests remains to be shown.
LEMMA RequestFrame ==
  ASSUME TypeOK, LedgerInv, UNCHANGED <<memoryVars, disputeVars>>,
         LocksApart', RowsOpen', Subject', AppliedHolds'
  PROVE  LedgerInv'
<1>1. RowsProper' /\ LedgerIsTrue'
  BY DEF LedgerInv, RowsProper, LedgerIsTrue, memoryVars, disputeVars, Sides, Other
<1> QED
  BY <1>1 DEF LedgerInv

\* The request that steps is the only one whose variables change, so what
\* LedgerInv says of the others stands.
LEMMA OthersFrame ==
  ASSUME TypeOK, LedgerInv, UNCHANGED <<memoryVars, disputeVars>>, NEW r \in Request,
         \A q \in Request \ {r} :
           /\ pc'[q] = pc[q] /\ on'[q] = on[q] /\ winner'[q] = winner[q]
           /\ locks'[q] = locks[q] /\ rows'[q] = rows[q] /\ todo'[q] = todo[q]
           /\ asking'[q] = asking[q] /\ posed'[q] = posed[q],
         \A q \in Request \ {r} :
           locks'[r] \cap locks[q] = {} /\ rows'[r] \cap rows[q] = {},
         rows'[r] \subseteq Open,
         IF pc'[r] = "idle"
           THEN /\ rows'[r] = {} /\ locks'[r] = {} /\ todo'[r] = {}
                /\ asking'[r] = {} /\ posed'[r] = {}
           ELSE /\ on'[r] \in rows'[r] /\ winner'[r] \in Sides(on'[r])
                /\ locks'[r] \subseteq Sides(on'[r])
                /\ asking'[r] \cup posed'[r] \subseteq born \ {winner'[r]}
                /\ pc'[r] = "read" => locks'[r] = {}
                /\ \A m \in locks'[r], n \in Sides(on'[r]) \ locks'[r] : m < n,
         pc'[r] \in {"applied", "settle"} =>
           \/ locks'[r] = {} /\ supersededBy[Loser(r)'] = winner'[r]
           \/ locks'[r] = Sides(on'[r]) /\ Applicable(r)'
  PROVE  LedgerInv'
<1> USE DEF memoryVars, disputeVars
<1>1. LocksApart'
  <2> SUFFICES ASSUME NEW p \in Request, NEW q \in Request, p # q
               PROVE  locks'[p] \cap locks'[q] = {} /\ rows'[p] \cap rows'[q] = {}
    BY DEF LocksApart
  <2>1. locks[p] \cap locks[q] = {} /\ rows[p] \cap rows[q] = {}
    BY DEF LedgerInv, LocksApart
  <2>2. CASE p = r
    BY <2>2
  <2>3. CASE q = r
    BY <2>3
  <2>4. CASE p # r /\ q # r
    BY <2>1, <2>4
  <2> QED
    BY <2>2, <2>3, <2>4
<1>2. Open' = Open
  BY DEF Open
<1>3. RowsOpen'
  <2> SUFFICES ASSUME NEW q \in Request PROVE rows'[q] \subseteq Open
    BY <1>2 DEF RowsOpen
  <2>1. CASE q = r
    BY <2>1
  <2>2. CASE q # r
    BY <2>2 DEF LedgerInv, RowsOpen
  <2> QED
    BY <2>1, <2>2
<1>4. \A q \in Request \ {r} : Sides(on[q])' = Sides(on[q]) /\ Loser(q)' = Loser(q)
  BY DEF Sides, Loser, Other
<1>5. Sides(on[r])' = Sides(on'[r])
  BY DEF Sides
<1>6. Subject'
  <2> SUFFICES ASSUME NEW q \in Request, q # r
               PROVE  IF pc'[q] = "idle"
                        THEN /\ rows'[q] = {} /\ locks'[q] = {} /\ todo'[q] = {}
                             /\ asking'[q] = {} /\ posed'[q] = {}
                        ELSE /\ on'[q] \in rows'[q] /\ winner'[q] \in Sides(on[q])'
                             /\ locks'[q] \subseteq Sides(on[q])'
                             /\ asking'[q] \cup posed'[q] \subseteq born' \ {winner'[q]}
                             /\ pc'[q] = "read" => locks'[q] = {}
                             /\ \A m \in locks'[q], n \in Sides(on[q])' \ locks'[q] : m < n
    BY <1>5 DEF Subject
  <2> QED
    BY <1>4 DEF LedgerInv, Subject
<1>7. AppliedHolds'
  <2> SUFFICES ASSUME NEW q \in Request, q # r, pc'[q] \in {"applied", "settle"}
               PROVE  \/ locks'[q] = {} /\ supersededBy'[Loser(q)'] = winner'[q]
                      \/ locks'[q] = Sides(on[q])' /\ Applicable(q)'
    BY <1>5 DEF AppliedHolds
  <2> QED
    BY <1>4 DEF LedgerInv, AppliedHolds, Applicable, Superseded, Memory
<1> QED
  BY <1>1, <1>3, <1>6, <1>7, RequestFrame

\* A commit keeps the ledger true and the others' locks as they are.
LEMMA LedgerCommit ==
  ASSUME TypeOK, LedgerInv, NEW r \in Request, NEW n \in last..MaxDispute, Commit(r, n)
  PROVE  LedgerInv'
<1> DEFINE gone == locks[r] \ {winner[r]}
<1>0. /\ pc[r] = "settle" /\ Release(r) /\ born' = born
      /\ \A m \in Memory : supersededBy'[m] = IF m \in gone THEN winner[r] ELSE supersededBy[m]
      /\ verdict' = [d \in DisputeId |-> IF d = on[r] THEN "superseded"
                                        ELSE IF d \in rows[r] THEN "moot"
                                        ELSE IF d \in NewRows(n) THEN "open"
                                        ELSE verdict[d]]
  BY DEF Commit
<1>1. /\ last' = n /\ last <= n /\ NewRows(n) \subseteq DisputeId
      /\ \A d \in NewRows(n) : \E c \in posed[r] : pair'[d] = <<winner[r], c>>
      /\ \A d \in DisputeId \ NewRows(n) : pair'[d] = pair[d]
      /\ \A d \in DisputeId : verdict[d] # "none" => d \notin NewRows(n)
  BY CommitFacts
<1>2. /\ on[r] \in DisputeId /\ verdict[on[r]] = "open"
      /\ winner[r] \in Memory /\ Loser(r) \in Memory /\ winner[r] # Loser(r)
      /\ Sides(on[r]) = {winner[r], Loser(r)} /\ Sides(on[r]) \subseteq born
      /\ Other(on[r], Loser(r)) = winner[r]
  BY <1>0, RequestFacts
<1>3. \A d \in DisputeId : verdict[d] # "none" =>
        Sides(d)' = Sides(d) /\ \A m : Other(d, m)' = Other(d, m)
  BY <1>1 DEF Sides, Other
<1>4. \A q \in Request \ {r} :
        /\ pc'[q] = pc[q] /\ on'[q] = on[q] /\ winner'[q] = winner[q]
        /\ locks'[q] = locks[q] /\ rows'[q] = rows[q] /\ todo'[q] = todo[q]
        /\ asking'[q] = asking[q] /\ posed'[q] = posed[q]
  BY <1>0 DEF TypeOK, Release
<1>5. /\ pc'[r] = "idle" /\ locks'[r] = {} /\ rows'[r] = {} /\ todo'[r] = {}
      /\ asking'[r] = {} /\ posed'[r] = {}
  BY <1>0 DEF TypeOK, Release
<1>6. \A q \in Request \ {r} : pc[q] # "idle" =>
        /\ on[q] \in DisputeId /\ verdict[on[q]] = "open"
        /\ Sides(on[q])' = Sides(on[q]) /\ Loser(q)' = Loser(q)
        /\ Loser(q) \in Memory /\ winner[q] \in Memory /\ winner[q] # Loser(q)
        /\ Sides(on[q]) = {winner[q], Loser(q)}
  <2> SUFFICES ASSUME NEW q \in Request \ {r}, pc[q] # "idle"
               PROVE  /\ on[q] \in DisputeId /\ verdict[on[q]] = "open"
                      /\ Sides(on[q])' = Sides(on[q]) /\ Loser(q)' = Loser(q)
                      /\ Loser(q) \in Memory /\ winner[q] \in Memory
                      /\ winner[q] # Loser(q) /\ Sides(on[q]) = {winner[q], Loser(q)}
    OBVIOUS
  <2>1. /\ on[q] \in DisputeId /\ verdict[on[q]] = "open" /\ Loser(q) \in Memory
        /\ winner[q] \in Memory /\ winner[q] # Loser(q)
        /\ Sides(on[q]) = {winner[q], Loser(q)}
    BY RequestFacts
  <2>2. pair'[on[q]] = pair[on[q]] /\ on'[q] = on[q] /\ winner'[q] = winner[q]
    BY <1>1, <1>4, <2>1
  <2>3. Sides(on[q])' = Sides(on[q]) /\ Loser(q)' = Loser(q)
    BY <2>2 DEF Sides, Loser, Other
  <2> QED
    BY <2>1, <2>3
<1>7. gone # {} => gone = {Loser(r)} /\ Loser(r) \notin Superseded
  <2>1. pc[r] = "settle"
    BY <1>0
  <2> QED
    BY <2>1, GoneFacts
<1>8. supersededBy'[Loser(r)] = winner[r]
  BY <1>0, <1>2, GoneFacts
<1>9. \A m \in Superseded : m \in Memory /\ supersededBy'[m] = supersededBy[m]
  BY <1>0, <1>7 DEF Superseded
<1> HIDE DEF gone
<1>10. LocksApart'
  BY <1>4, <1>5 DEF LedgerInv, LocksApart
<1>11. RowsOpen'
  <2> SUFFICES ASSUME NEW q \in Request \ {r}, NEW d \in rows[q]
               PROVE  d \in DisputeId /\ verdict'[d] = "open"
    BY <1>4, <1>5 DEF RowsOpen, Open
  <2>1. d \in DisputeId /\ verdict[d] = "open"
    BY DEF LedgerInv, RowsOpen, Open
  <2>2. d \notin rows[r] /\ on[r] \in rows[r]
    BY <1>0 DEF LedgerInv, LocksApart, Subject
  <2> QED
    BY <1>0, <2>1, <2>2
<1>12. Subject'
  <2> SUFFICES ASSUME NEW q \in Request \ {r}
               PROVE  IF pc[q] = "idle"
                        THEN /\ rows[q] = {} /\ locks[q] = {} /\ todo[q] = {}
                             /\ asking[q] = {} /\ posed[q] = {}
                        ELSE /\ on[q] \in rows[q] /\ winner[q] \in Sides(on[q])'
                             /\ locks[q] \subseteq Sides(on[q])'
                             /\ asking[q] \cup posed[q] \subseteq born \ {winner[q]}
                             /\ pc[q] = "read" => locks[q] = {}
                             /\ \A m \in locks[q], k \in Sides(on[q])' \ locks[q] : m < k
    BY <1>0, <1>4, <1>5 DEF Subject
  <2> QED
    BY <1>6 DEF LedgerInv, Subject
<1>13. RowsProper'
  <2> SUFFICES ASSUME NEW d \in DisputeId, verdict'[d] # "none"
               PROVE  d <= n /\ pair'[d][1] # pair'[d][2] /\ Sides(d)' \subseteq born
    BY <1>0, <1>1 DEF RowsProper
  <2>1. CASE d \in NewRows(n)
    <3> PICK c \in posed[r] : pair'[d] = <<winner[r], c>>
      BY <1>1, <2>1
    <3>1. c # winner[r] /\ c \in born /\ winner[r] \in born
      BY <1>0, <1>2 DEF LedgerInv, Subject
    <3> QED
      BY <2>1, <3>1 DEF NewRows, Sides
  <2>2. CASE d \notin NewRows(n)
    <3>1. verdict[d] # "none"
      <4>1. on[r] \in rows[r] /\ rows[r] \subseteq Open
        BY <1>0 DEF LedgerInv, RowsOpen, Subject
      <4> QED
        BY <1>0, <2>2, <4>1 DEF Open
    <3>2. d <= last /\ pair[d][1] # pair[d][2] /\ Sides(d) \subseteq born
      BY <3>1 DEF LedgerInv, RowsProper
    <3>3. last \in Int /\ n \in Int /\ d \in Int
      BY DEF TypeOK, DisputeId
    <3> QED
      BY <1>1, <1>3, <2>2, <3>1, <3>2, <3>3
  <2> QED
    BY <2>1, <2>2
<1>14. AppliedHolds'
  <2> SUFFICES ASSUME NEW q \in Request \ {r}, pc[q] \in {"applied", "settle"}
               PROVE  \/ locks[q] = {} /\ supersededBy'[Loser(q)] = winner[q]
                      \/ /\ locks[q] = Sides(on[q])
                         /\ Loser(q) \notin Superseded'
                         /\ supersededBy'[winner[q]] # Loser(q)
    BY <1>4, <1>5, <1>6 DEF AppliedHolds, Applicable
  <2>1. CASE locks[q] = {} /\ supersededBy[Loser(q)] = winner[q]
    BY <1>6, <1>9, <2>1 DEF Superseded
  <2>2. CASE locks[q] = Sides(on[q]) /\ Applicable(q)
    <3>1. locks[q] \cap gone = {}
      BY DEF gone, LedgerInv, LocksApart
    <3>2. /\ supersededBy'[Loser(q)] = supersededBy[Loser(q)]
          /\ supersededBy'[winner[q]] = supersededBy[winner[q]]
      BY <1>0, <1>6, <2>2, <3>1
    <3> QED
      BY <1>6, <2>2, <3>2 DEF Applicable, Superseded
  <2> QED
    BY <2>1, <2>2 DEF LedgerInv, AppliedHolds
<1>15. LedgerIsTrue'
  <2> SUFFICES ASSUME NEW d \in DisputeId, verdict'[d] = "superseded"
               PROVE  \E m \in Sides(d)' : supersededBy'[m] = Other(d, m)'
    BY DEF LedgerIsTrue
  <2>1. CASE d = on[r]
    BY <1>2, <1>3, <1>8, <2>1
  <2>2. CASE d # on[r]
    <3>1. verdict[d] = "superseded"
      BY <1>0, <2>2
    <3>2. PICK m \in Sides(d) : supersededBy[m] = Other(d, m)
      BY <3>1 DEF LedgerInv, LedgerIsTrue
    <3>3. pair[d] \in Pair /\ pair[d][1] # pair[d][2]
      BY <3>1 DEF TypeOK, LedgerInv, RowsProper
    <3>4. m \in Superseded
      BY <3>2, <3>3 DEF Superseded, Sides, Other, Pair
    <3> QED
      BY <1>3, <1>9, <3>1, <3>2, <3>4
  <2> QED
    BY <2>1, <2>2
<1> QED
  BY <1>10, <1>11, <1>12, <1>13, <1>14, <1>15 DEF LedgerInv

\* What LedgerInv says of one request.
LEMMA SelfFacts ==
  ASSUME LedgerInv, NEW r \in Request
  PROVE  /\ \A q \in Request \ {r} : locks[r] \cap locks[q] = {} /\ rows[r] \cap rows[q] = {}
         /\ rows[r] \subseteq Open
         /\ IF pc[r] = "idle"
              THEN /\ rows[r] = {} /\ locks[r] = {} /\ todo[r] = {}
                   /\ asking[r] = {} /\ posed[r] = {}
              ELSE /\ on[r] \in rows[r] /\ winner[r] \in Sides(on[r])
                   /\ locks[r] \subseteq Sides(on[r])
                   /\ asking[r] \cup posed[r] \subseteq born \ {winner[r]}
                   /\ pc[r] = "read" => locks[r] = {}
                   /\ \A m \in locks[r], n \in Sides(on[r]) \ locks[r] : m < n
         /\ pc[r] \in {"applied", "settle"} =>
              \/ locks[r] = {} /\ supersededBy[Loser(r)] = winner[r]
              \/ locks[r] = Sides(on[r]) /\ Applicable(r)
  BY DEF LedgerInv, LocksApart, RowsOpen, Subject, AppliedHolds

\* A request that keeps its dispute and its winner keeps its loser and the
\* verdict on the supersession, as long as the tables stand.
LEMMA SameSubject ==
  ASSUME UNCHANGED <<memoryVars, disputeVars>>, NEW r \in Request,
         on'[r] = on[r], winner'[r] = winner[r]
  PROVE  Loser(r)' = Loser(r) /\ Applicable(r)' = Applicable(r)
  BY DEF memoryVars, disputeVars, Loser, Other, Applicable, Superseded

\* Every step keeps the lock discipline and the truth of the ledger.
LEMMA LedgerStep == TypeOK /\ LedgerInv /\ [Next]_vars => LedgerInv'
<1> SUFFICES ASSUME TypeOK, LedgerInv, [Next]_vars PROVE LedgerInv'
  OBVIOUS
<1>0. last \in Nat
  BY LedgerAssumption DEF TypeOK
<1>1. ASSUME NEW S \in Sources, NEW F \in SUBSET ((born \cup S) \X S),
             NEW n \in last..MaxFound, Ingest(S, F, n)
      PROVE  LedgerInv'
  <2>1. n \in last..MaxDispute /\ Insert(n, F) /\ n \in Nat /\ last <= n
    BY LedgerAssumption, <1>0, <1>1 DEF Ingest
  <2>2. /\ last' = n
        /\ \A d \in NewRows(n) : pair'[d] \in F
        /\ \A d \in DisputeId \ NewRows(n) : pair'[d] = pair[d]
    BY <1>0, <2>1, InsertFacts
  <2>3. \A d \in DisputeId : verdict[d] # "none" => d \notin NewRows(n)
    BY <1>0 DEF LedgerInv, RowsProper, NewRows, DisputeId
  <2>4. \A d \in DisputeId :
          verdict'[d] = IF d \in NewRows(n) THEN "open" ELSE verdict[d]
    BY <1>1 DEF Ingest
  <2>5. \A d \in NewRows(n) :
          /\ d <= n /\ pair'[d][1] # pair'[d][2]
          /\ {pair'[d][1], pair'[d][2]} \subseteq born'
    BY <1>1, <2>2 DEF Ingest, NewRows
  <2>6. \A r \in Request : \A d \in rows[r] : verdict[d] # "none"
    BY DEF LedgerInv, RowsOpen, Open
  <2>7. /\ UNCHANGED requestVars /\ UNCHANGED supersededBy /\ born \subseteq born'
        /\ last' \in Nat /\ last <= last'
    BY <1>1, <2>1, <2>2 DEF Ingest
  <2> QED
    BY <1>0, <2>2, <2>3, <2>4, <2>5, <2>6, <2>7, LedgerFrame
<1>2. ASSUME NEW m \in Memory, Deprecate(m) PROVE LedgerInv'
  BY <1>0, <1>2, LedgerFrame DEF Deprecate, disputeVars
<1>3. ASSUME NEW m \in Memory, Review(m) PROVE LedgerInv'
  BY <1>0, <1>3, LedgerFrame DEF Review, disputeVars
<1>4. ASSUME NEW d \in DisputeId, NEW v \in {"coexist", "dismissed"}, Settle(d, v)
      PROVE  LedgerInv'
  <2>1. /\ verdict[d] = "open" /\ \A r \in Request : d \notin rows[r]
        /\ v # "superseded" /\ verdict' = [verdict EXCEPT ![d] = v]
        /\ UNCHANGED <<memoryVars, last, pair, requestVars>>
    BY <1>4 DEF Settle, Open, RowLocked
  <2>2. \A e \in DisputeId : e # d => verdict'[e] = verdict[e]
    BY <2>1 DEF TypeOK
  <2> QED
    BY <1>0, <2>1, <2>2, LedgerFrame DEF memoryVars, TypeOK
<1>5. ASSUME NEW r \in Request, NEW d \in DisputeId, NEW w \in Memory, Contest(r, d, w)
      PROVE  LedgerInv'
  <2>1. /\ locks[r] = {} /\ asking[r] = {} /\ posed[r] = {}
        /\ \A q \in Request \ {r} : d \notin rows[q]
    BY <1>5 DEF Contest, LedgerInv, Subject, RowLocked, Others
  <2> QED
    BY <1>5, <2>1, OthersFrame DEF Contest, TypeOK, memoryVars, disputeVars
<1>6. ASSUME NEW r \in Request, ReadLoser(r) PROVE LedgerInv'
  BY <1>6, OthersFrame
  DEF ReadLoser, TypeOK, LedgerInv, LocksApart, RowsOpen, Subject, Loser, Other,
      memoryVars, disputeVars
<1>7. ASSUME NEW r \in Request, NEW m \in Memory, LockNext(r, m)
      PROVE  LedgerInv'
  <2>1. UNCHANGED <<memoryVars, disputeVars, on, winner>>
    BY <1>7 DEF LockNext
  <2>2. Loser(r)' = Loser(r) /\ Applicable(r)' = Applicable(r)
    BY <2>1, SameSubject
  <2>3. \A q \in Request \ {r} : m \notin locks[q]
    BY <1>7 DEF LockNext, Lockable, ForUpdate, Others
  <2> QED
    BY <1>7, <2>1, <2>2, <2>3, SelfFacts, OthersFrame
    DEF LockNext, LockBefore, TypeOK, memoryVars, disputeVars
<1>8. ASSUME NEW r \in Request, Apply(r)
      PROVE  LedgerInv'
  <2>1. UNCHANGED <<memoryVars, disputeVars, on, winner>>
    BY <1>8 DEF Apply
  <2>2. Loser(r)' = Loser(r) /\ Applicable(r)' = Applicable(r)
    BY <2>1, SameSubject
  <2>3. /\ pc[r] = "lock" /\ locks[r] = Sides(on[r]) /\ Applicable(r)'
        /\ pc' = [pc EXCEPT ![r] = "applied"]
        /\ UNCHANGED <<on, winner, locks, rows, todo, asking, posed>>
    BY <1>8, <2>2 DEF Apply
  <2>4. /\ pc'[r] = "applied" /\ locks'[r] = Sides(on'[r])
        /\ \A q \in Request \ {r} : pc'[q] = pc[q]
    BY <2>3 DEF TypeOK, Sides
  <2>5. rows'[r] \subseteq Open /\ on'[r] \in rows'[r] /\ winner'[r] \in Sides(on'[r])
    BY <2>3, SelfFacts
  <2>6. asking'[r] \cup posed'[r] \subseteq born \ {winner'[r]}
    BY <2>3, SelfFacts
  <2>7. \A q \in Request \ {r} :
          locks'[r] \cap locks[q] = {} /\ rows'[r] \cap rows[q] = {}
    BY <2>3, SelfFacts
  <2> QED
    BY <2>1, <2>3, <2>4, <2>5, <2>6, <2>7, OthersFrame
<1>9. ASSUME NEW r \in Request, FindSiblings(r)
      PROVE  LedgerInv'
  <2>1. UNCHANGED <<memoryVars, disputeVars, on, winner>>
    BY <1>9 DEF FindSiblings
  <2>2. Loser(r)' = Loser(r) /\ Applicable(r)' = Applicable(r)
    BY <2>1, SameSubject
  <2>3. /\ pc[r] = "applied" /\ pc' = [pc EXCEPT ![r] = "settle"]
        /\ UNCHANGED <<locks, rows, asking, posed>>
        /\ todo' = [todo EXCEPT ![r] = todo'[r]]
    BY <1>9 DEF FindSiblings, TypeOK
  <2>4. /\ pc'[r] = "settle"
        /\ \A q \in Request \ {r} : pc'[q] = pc[q] /\ todo'[q] = todo[q]
    BY <2>3 DEF TypeOK
  <2>5. pair' = pair /\ supersededBy' = supersededBy
    BY <2>1 DEF memoryVars, disputeVars
  <2> QED
    BY <2>1, <2>2, <2>3, <2>4, <2>5, SelfFacts, OthersFrame
<1>10. ASSUME NEW r \in Request, NEW d \in DisputeId, CloseSibling(r, d)
      PROVE  LedgerInv'
  <2>1. UNCHANGED <<memoryVars, disputeVars, on, winner>>
    BY <1>10 DEF CloseSibling
  <2>2. Loser(r)' = Loser(r) /\ Applicable(r)' = Applicable(r)
    BY <2>1, SameSubject
  <2>3. \A q \in Request \ {r} : d \notin rows[q]
    BY <1>10 DEF CloseSibling, RowLocked, Others
  <2>4. pc[r] # "idle"
    BY <1>10, SelfFacts DEF CloseSibling
  <2>5. /\ UNCHANGED <<pc, locks, asking, posed>>
        /\ todo' = [todo EXCEPT ![r] = todo[r] \ {d}]
        /\ \/ d \in Open /\ rows' = [rows EXCEPT ![r] = rows[r] \cup {d}]
           \/ rows' = rows
    BY <1>10 DEF CloseSibling
  <2>6. \A q \in Request \ {r} :
          todo'[q] = todo[q] /\ rows'[q] = rows[q] /\ rows'[r] \cap rows[q] = {}
    BY <2>3, <2>5, SelfFacts DEF TypeOK
  <2>7. rows[r] \subseteq rows'[r] /\ rows'[r] \subseteq Open
    BY <2>5, SelfFacts DEF TypeOK
  <2> QED
    BY <2>1, <2>2, <2>4, <2>5, <2>6, <2>7, SelfFacts, OthersFrame
    DEF memoryVars, disputeVars
<1>11. ASSUME NEW r \in Request, NEW d \in DisputeId, CarryForward(r, d)
      PROVE  LedgerInv'
  <2>1. UNCHANGED <<memoryVars, disputeVars, on, winner>>
    BY <1>11 DEF CarryForward
  <2>2. Loser(r)' = Loser(r) /\ Applicable(r)' = Applicable(r)
    BY <2>1, SameSubject
  <2>3. asking'[r] \subseteq born \ {winner[r]}
    BY <1>11 DEF CarryForward, WorthAsking, Living, TypeOK
  <2> QED
    BY <1>11, <2>1, <2>2, <2>3, SelfFacts, OthersFrame
    DEF CarryForward, TypeOK, memoryVars, disputeVars
<1>12. ASSUME NEW r \in Request, NEW c \in Memory, Pose(r, c)
      PROVE  LedgerInv'
  <2>1. UNCHANGED <<memoryVars, disputeVars, on, winner>>
    BY <1>12 DEF Pose
  <2>2. Loser(r)' = Loser(r) /\ Applicable(r)' = Applicable(r)
    BY <2>1, SameSubject
  <2> QED
    BY <1>12, <2>1, <2>2, SelfFacts, OthersFrame, SMTT(30)
    DEF Pose, TypeOK, memoryVars, disputeVars
<1>13. ASSUME NEW r \in Request, NEW n \in last..MaxDispute, Commit(r, n)
       PROVE  LedgerInv'
  BY <1>13, LedgerCommit
<1>14. ASSUME NEW r \in Request, Abort(r) PROVE LedgerInv'
  BY <1>14, OthersFrame DEF Abort, Release, TypeOK, memoryVars, disputeVars
<1>15. CASE UNCHANGED vars
  BY <1>0, <1>15, LedgerFrame DEF vars, memoryVars, disputeVars
<1> QED
  BY <1>1, <1>2, <1>3, <1>4, <1>5, <1>6, <1>7, <1>8, <1>9, <1>10, <1>11, <1>12,
     <1>13, <1>14, <1>15 DEF Next, Resolve

-----------------------------------------------------------------------------
(* The theorems. *)

\* The inductive invariant: the types and LedgerInv together.
LEMMA Inductive == Spec => [](TypeOK /\ LedgerInv)
<1>1. Init => TypeOK /\ LedgerInv
  BY TypeInit, LedgerInit
<1>2. TypeOK /\ LedgerInv /\ [Next]_vars => (TypeOK /\ LedgerInv)'
  BY TypeStep, LedgerStep
<1> QED
  BY <1>1, <1>2, PTL DEF Spec

\* Every variable of the ledger, the chain and the requests keeps its type.
THEOREM TypeCorrect == Spec => []TypeOK
  BY Inductive, PTL

\* A dispute resolved by a supersession is backed by the corpus, however many
\* requests, siblings and rollbacks interleave (console.rs:749-752).
THEOREM LedgerTrue == Spec => []LedgerIsTrue
<1>1. LedgerInv => LedgerIsTrue
  BY DEF LedgerInv
<1> QED
  BY <1>1, Inductive, PTL

\* Among finitely many memories one has the greatest id.
LEMMA GreatestExists ==
  ASSUME NEW M \in SUBSET Memory, M # {}
  PROVE  \E g \in M : \A m \in M : m <= g
<1> DEFINE T == {m..MaxMemory : m \in M}
           R == StrictSubsetOrdering(Nat)
<1>0. MaxMemory \in Nat /\ \A m \in M : m \in Nat /\ m <= MaxMemory
  BY LedgerAssumption DEF Memory
<1>1. T # {} /\ T \subseteq FiniteSubsetsOf(Nat)
  <2>1. ASSUME NEW m \in M PROVE IsFiniteSet(m..MaxMemory) /\ m..MaxMemory \subseteq Nat
    <3>1. m \in Nat /\ m \in Int /\ MaxMemory \in Int
      BY <1>0
    <3>2. IsFiniteSet(m..MaxMemory)
      BY <3>1, FS_Interval
    <3> QED
      BY <3>1, <3>2
  <2> QED
    BY <2>1 DEF FiniteSubsetsOf
<1>2. IsWellFoundedOn(R, FiniteSubsetsOf(Nat))
  BY FS_StrictSubsetOrderingWellFounded
<1> HIDE DEF T, R
<1>3. \E X \in T : \A Y \in T : ~ (<<Y, X>> \in R)
  BY <1>1, <1>2, WFMin
<1>4. PICK g \in M : \A m \in M : ~ (<<m..MaxMemory, g..MaxMemory>> \in R)
  BY <1>3 DEF T
<1>5. ASSUME NEW m \in M, g < m PROVE FALSE
  <2>1. m..MaxMemory \subseteq g..MaxMemory /\ g \in g..MaxMemory /\ g \notin m..MaxMemory
    BY <1>0, <1>5
  <2>2. /\ m..MaxMemory \in SUBSET Nat /\ g..MaxMemory \in SUBSET Nat
        /\ m..MaxMemory # g..MaxMemory
    BY <1>0, <2>1
  <2>3. <<m..MaxMemory, g..MaxMemory>> \in R
    BY <2>1, <2>2 DEF R, StrictSubsetOrdering
  <2> QED
    BY <1>4, <2>3
<1> QED
  BY <1>0, <1>5

\* Who waits for a memory holds only older ones: along a chain of waits the ids grow.
LEMMA WaitsGrow ==
  ASSUME TypeOK, LedgerInv, NEW q \in Request, pc[q] = "lock",
         NEW m \in locks[q], NEW n \in Sides(on[q]) \ locks[q]
  PROVE  m < n
  BY SelfFacts

\* Requests never wait in a circle for the memories of their pairs, because each
\* locks its pair in id order (apply_supersession): of those that wait, the one
\* that waits for the youngest memory waits for none of the others.
THEOREM PairsNeverDeadlock == Spec => []NoPairDeadlock
<1>1. TypeOK /\ LedgerInv => NoPairDeadlock
  <2> SUFFICES ASSUME TypeOK, LedgerInv, NEW S \in SUBSET Request, S # {},
                      \A r \in S : \E q \in S : Blocked(r, q)
               PROVE  FALSE
    BY DEF NoPairDeadlock
  <2> DEFINE Awaited(r) == {m \in Sides(on[r]) \ locks[r] : \E q \in S : pc[q] = "lock" /\ m \in locks[q]}
             M == UNION {Awaited(r) : r \in S}
  <2>1. \A r \in S : pc[r] = "lock" /\ Awaited(r) # {}
    BY DEF Blocked
  <2>2. \A r \in S : Awaited(r) \subseteq Memory
    BY <2>1, SelfFacts DEF TypeOK
  <2>3. M # {} /\ M \in SUBSET Memory
    BY <2>1, <2>2
  <2> HIDE DEF M
  <2>4. PICK g \in M : \A m \in M : m <= g
    BY <2>3, GreatestExists
  <2>5. PICK q \in S : pc[q] = "lock" /\ g \in locks[q]
    BY <2>4 DEF M
  <2>6. PICK n \in Sides(on[q]) \ locks[q] : n \in M
    BY <2>1, <2>5 DEF M
  <2>7. g < n
    BY <2>5, <2>6, WaitsGrow
  <2>8. n <= g /\ n \in Int /\ g \in Int
    BY <2>3, <2>4, <2>6 DEF Memory
  <2> QED
    BY <2>7, <2>8
<1> QED
  BY <1>1, Inductive, PTL

\* A superseded memory keeps its winner: a request that finds it superseded
\* when it holds both rows rolls back (governance.rs:270).
THEOREM SupersessionFinal == Spec => SupersessionIsFinal
<1>1. TypeOK /\ LedgerInv /\ [Next]_vars =>
        [\A m \in Superseded : supersededBy'[m] = supersededBy[m]]_vars
  <2> SUFFICES ASSUME TypeOK, LedgerInv, Next, NEW m \in Superseded
               PROVE  supersededBy'[m] = supersededBy[m]
    OBVIOUS
  <2>1. CASE supersededBy' = supersededBy
    BY <2>1
  <2>2. ASSUME NEW r \in Request, NEW n \in last..MaxDispute, Commit(r, n)
        PROVE  supersededBy'[m] = supersededBy[m]
    <3>1. pc[r] = "settle"
      BY <2>2 DEF Commit
    <3>2. m \notin locks[r] \ {winner[r]}
      BY <3>1, GoneFacts
    <3> QED
      BY <2>2, <3>2 DEF Commit, Superseded
  <2> QED
    BY <2>1, <2>2
    DEF Next, Resolve, Ingest, Deprecate, Review, Settle, Contest, ReadLoser, LockNext,
        Apply, FindSiblings, CloseSibling, CarryForward, Pose, Abort, memoryVars
<1> QED
  BY <1>1, Inductive, PTL DEF Spec, SupersessionIsFinal

\* A dispute is decided once: a request holds the row of every dispute it
\* resolves or closes from the moment it has seen it open (console.rs:665-670).
THEOREM VerdictFinal == Spec => VerdictIsFinal
<1>1. TypeOK /\ LedgerInv /\ [Next]_vars =>
        [\A d \in DisputeId :
           verdict[d] \notin {"none", "open"} => verdict'[d] = verdict[d]]_vars
  <2> SUFFICES ASSUME TypeOK, LedgerInv, Next, NEW d \in DisputeId,
                      verdict[d] \notin {"none", "open"}
               PROVE  verdict'[d] = verdict[d]
    OBVIOUS
  <2>1. CASE verdict' = verdict
    BY <2>1
  <2>2. ASSUME NEW r \in Request, NEW n \in last..MaxDispute, Commit(r, n)
        PROVE  verdict'[d] = verdict[d]
    <3>1. d \notin NewRows(n)
      BY <2>2, CommitFacts
    <3>2. pc[r] # "idle" /\ on[r] \in rows[r] /\ rows[r] \subseteq Open
      BY <2>2, SelfFacts DEF Commit
    <3>3. d # on[r] /\ d \notin rows[r]
      BY <3>2 DEF Open
    <3> QED
      BY <2>2, <3>1, <3>3 DEF Commit
  <2>3. ASSUME NEW S \in Sources, NEW F \in SUBSET ((born \cup S) \X S),
               NEW n \in last..MaxFound, Ingest(S, F, n)
        PROVE  verdict'[d] = verdict[d]
    <3>1. d \notin NewRows(n)
      BY DEF TypeOK, LedgerInv, RowsProper, NewRows, DisputeId
    <3> QED
      BY <2>3, <3>1 DEF Ingest
  <2>4. ASSUME NEW e \in DisputeId, NEW v \in {"coexist", "dismissed"}, Settle(e, v)
        PROVE  verdict'[d] = verdict[d]
    BY <2>4 DEF Settle, Open, TypeOK
  <2> QED
    BY <2>1, <2>2, <2>3, <2>4
    DEF Next, Resolve, Deprecate, Review, Contest, ReadLoser, LockNext, Apply,
        FindSiblings, CloseSibling, CarryForward, Pose, Abort, disputeVars
<1> QED
  BY <1>1, Inductive, PTL DEF Spec, VerdictIsFinal

-----------------------------------------------------------------------------
(* No question is lost.  LedgerInv says nothing of what becomes of the      *)
(* siblings a supersession closes: ClosingInv follows each from the UPDATE  *)
(* that finds it to the commit.                                             *)

\* The question between w and c needs no dispute, or has one.
Answered(w, c) ==
  \/ c = w
  \/ c \in fallen \/ w \in fallen
  \/ \E e \in DisputeId : verdict[e] # "none" /\ Sides(e) = {w, c}

\* The siblings r is closing are about its loser; those it has carried forward
\* are answered, or their question is one r is posing.
ClosingOf(r) ==
  /\ pc[r] # "settle" => todo[r] = {} /\ asking[r] = {} /\ rows[r] \subseteq {on[r]}
  /\ \A d \in todo[r] \cup (rows[r] \ {on[r]}) : verdict[d] # "none" /\ Loser(r) \in Sides(d)
  /\ \A a, b \in asking[r] : a = b
  /\ \A d \in rows[r] \ ({on[r]} \cup left[r]) :
       Counterpart(r, d) \in asking[r] \cup posed[r] \/ Answered(winner[r], Counterpart(r, d))

\* What every closed question has behind it, and what open requests are about to close.
ClosingInv == /\ Superseded \subseteq fallen /\ QuestionIsKept
              /\ \A r \in Request : ClosingOf(r)

\* What no step takes back.
TablesKeep ==
  /\ fallen \subseteq fallen'
  /\ \A d \in DisputeId : verdict[d] # "none" => verdict'[d] # "none" /\ pair'[d] = pair[d]
  /\ \A m \in Superseded : supersededBy'[m] = supersededBy[m]
  /\ \A m \in Memory : m \in Superseded' => m \in Superseded \/ m \in fallen'

\* No step takes a committed row of the ledger back.
LEMMA TablesKept == TypeOK /\ LedgerInv /\ [Next]_vars => TablesKeep
<1> SUFFICES ASSUME TypeOK, LedgerInv, [Next]_vars PROVE TablesKeep
  OBVIOUS
<1>0. last \in Nat
  BY LedgerAssumption DEF TypeOK
<1>1. ASSUME NEW r \in Request, NEW n \in last..MaxDispute, Commit(r, n) PROVE TablesKeep
  <2>1. \A d \in DisputeId : verdict[d] # "none" => d \notin NewRows(n) /\ pair'[d] = pair[d]
    BY <1>1, CommitFacts
  <2>2. pc[r] = "settle"
    BY <1>1 DEF Commit
  <2>3. \A m \in Superseded : m \notin locks[r] \ {winner[r]}
    BY <2>2, GoneFacts
  <2> QED
    BY <1>1, <2>1, <2>3 DEF TablesKeep, Commit, Superseded
<1>2. ASSUME NEW S \in Sources, NEW F \in SUBSET ((born \cup S) \X S),
             NEW n \in last..MaxFound, Ingest(S, F, n)
      PROVE  TablesKeep
  <2>1. n \in last..MaxDispute /\ Insert(n, F)
    BY LedgerAssumption, <1>0, <1>2 DEF Ingest
  <2>2. \A d \in DisputeId \ NewRows(n) : pair'[d] = pair[d]
    BY <1>0, <2>1, InsertFacts
  <2>3. \A d \in DisputeId : verdict[d] # "none" => d \notin NewRows(n)
    BY <1>0 DEF LedgerInv, RowsProper, NewRows, DisputeId
  <2> QED
    BY <1>2, <2>2, <2>3 DEF TablesKeep, Ingest, Superseded
<1>3. ASSUME NEW d \in DisputeId, NEW v \in {"coexist", "dismissed"}, Settle(d, v)
      PROVE  TablesKeep
  BY <1>3 DEF Settle, memoryVars, TablesKeep, Superseded, TypeOK
<1>4. CASE UNCHANGED <<supersededBy, disputeVars>> /\ fallen \subseteq fallen'
  BY <1>4 DEF disputeVars, TablesKeep, Superseded
<1>5. \/ UNCHANGED <<supersededBy, disputeVars>> /\ fallen \subseteq fallen'
      \/ \E r \in Request : \E n \in last..MaxDispute : Commit(r, n)
      \/ \E S \in Sources : \E F \in SUBSET ((born \cup S) \X S), n \in last..MaxFound : Ingest(S, F, n)
      \/ \E d \in DisputeId, v \in {"coexist", "dismissed"} : Settle(d, v)
  BY DEF vars, Next, Resolve, Deprecate, Review, Contest, ReadLoser, LockNext, Apply,
         FindSiblings, CloseSibling, CarryForward, Pose, Abort, memoryVars
<1> QED
  BY <1>1, <1>2, <1>3, <1>4, <1>5

\* An answer stays one.
LEMMA AnswerStays ==
  ASSUME TablesKeep, NEW w, NEW c, Answered(w, c)
  PROVE  \/ c = w \/ c \in fallen' \/ w \in fallen'
         \/ \E e \in DisputeId : verdict'[e] # "none" /\ {pair'[e][1], pair'[e][2]} = {w, c}
  BY DEF TablesKeep, Answered, Sides

\* A request that does not step keeps what ClosingOf says of it.
LEMMA ClosingFrame ==
  ASSUME TypeOK, LedgerInv, TablesKeep, NEW q \in Request, ClosingOf(q),
         /\ pc'[q] = pc[q] /\ on'[q] = on[q] /\ winner'[q] = winner[q] /\ rows'[q] = rows[q]
         /\ todo'[q] = todo[q] /\ left'[q] = left[q] /\ asking'[q] = asking[q]
         /\ posed'[q] = posed[q]
  PROVE  ClosingOf(q)'
<1>1. CASE pc[q] = "idle"
  <2>1. rows[q] = {}
    BY <1>1 DEF LedgerInv, Subject
  <2> QED
    BY <1>1, <2>1 DEF ClosingOf
<1>2. CASE pc[q] # "idle"
  <2>1. on[q] \in DisputeId /\ verdict[on[q]] # "none"
    BY <1>2, RequestFacts
  <2>2. Loser(q)' = Loser(q)
    BY <2>1 DEF TablesKeep, Loser, Other
  <2>3. \A d \in todo[q] \cup (rows[q] \ {on[q]}) :
          /\ verdict'[d] # "none" /\ Sides(d)' = Sides(d) /\ Counterpart(q, d)' = Counterpart(q, d)
    BY <2>2 DEF ClosingOf, TablesKeep, TypeOK, Sides, Counterpart, Other
  <2>4. \A d \in rows[q] \ ({on[q]} \cup left[q]) :
          \/ Counterpart(q, d) \in asking[q] \cup posed[q]
          \/ Answered(winner[q], Counterpart(q, d))'
    <3> SUFFICES ASSUME NEW d \in rows[q] \ ({on[q]} \cup left[q]),
                        Counterpart(q, d) \notin asking[q] \cup posed[q]
                 PROVE  Answered(winner[q], Counterpart(q, d))'
      OBVIOUS
    <3>1. Counterpart(q, d)' = Counterpart(q, d)
      BY <2>3
    <3>2. Answered(winner[q], Counterpart(q, d))
      BY DEF ClosingOf
    <3> QED
      BY <3>1, <3>2, AnswerStays DEF Answered, Sides
  <2> QED
    BY <2>2, <2>3, <2>4 DEF ClosingOf, Answered
<1> QED
  BY <1>1, <1>2

\* The steps of a request before its commit.
LEMMA ClosingSelf ==
  ASSUME TypeOK, LedgerInv, ClosingInv, NEW r \in Request,
         \/ \E d \in DisputeId, w \in Memory : Contest(r, d, w)
         \/ ReadLoser(r) \/ Apply(r) \/ FindSiblings(r) \/ Abort(r)
         \/ \E m \in Memory : LockNext(r, m) \/ Pose(r, m)
         \/ \E d \in DisputeId : CloseSibling(r, d) \/ CarryForward(r, d)
  PROVE  ClosingOf(r)'
<1> USE DEF TypeOK
<1>0. ClosingOf(r)
  BY DEF ClosingInv
<1>1. UNCHANGED <<memoryVars, disputeVars, fallen>>
  BY DEF Contest, ReadLoser, Apply, FindSiblings, Abort, LockNext, Pose, CloseSibling, CarryForward
<1>2. /\ \A d : Sides(d)' = Sides(d) /\ verdict' = verdict
      /\ \A w, c : Answered(w, c) => \/ c = w \/ c \in fallen' \/ w \in fallen'
                                   \/ \E e \in DisputeId : verdict'[e] # "none" /\ Sides(e)' = {w, c}
  BY <1>1 DEF disputeVars, Sides, Answered
<1>3. CASE \E d \in DisputeId, w \in Memory : Contest(r, d, w)
  <2>1. pc[r] = "idle" /\ todo[r] = {} /\ asking[r] = {}
    BY <1>3 DEF Contest, LedgerInv, Subject
  <2>2. /\ pc'[r] = "read" /\ rows'[r] = {on'[r]}
        /\ todo'[r] = {} /\ asking'[r] = {}
    BY <1>3, <2>1 DEF Contest
  <2> QED
    BY <2>2 DEF ClosingOf
<1>4. CASE ReadLoser(r) \/ Apply(r) \/ \E m \in Memory : LockNext(r, m)
  <2>1. pc[r] # "settle" /\ pc'[r] # "settle" /\ UNCHANGED <<on, rows, todo, asking>>
    BY <1>4 DEF ReadLoser, Apply, LockNext
  <2>2. todo'[r] = {} /\ asking'[r] = {} /\ rows'[r] \subseteq {on'[r]}
    BY <1>0, <2>1 DEF ClosingOf
  <2> QED
    BY <2>2 DEF ClosingOf
<1>5. CASE Abort(r)
  <2>1. pc'[r] = "idle" /\ rows'[r] = {} /\ todo'[r] = {} /\ asking'[r] = {}
    BY <1>5 DEF Abort, Release
  <2> QED
    BY <2>1 DEF ClosingOf
<1> SUFFICES ASSUME \/ FindSiblings(r) \/ \E m \in Memory : Pose(r, m)
                    \/ \E d \in DisputeId : CloseSibling(r, d) \/ CarryForward(r, d)
             PROVE  ClosingOf(r)'
  BY <1>3, <1>4, <1>5
<1>6. on' = on /\ winner' = winner /\ pc'[r] = "settle"
  BY <1>0 DEF FindSiblings, Pose, CloseSibling, CarryForward, ClosingOf
<1>7. Loser(r)' = Loser(r) /\ \A d : Counterpart(r, d)' = Counterpart(r, d)
  BY <1>1, <1>6, SameSubject DEF Counterpart, Other, disputeVars
<1>8. SUFFICES
        /\ \A d \in todo'[r] \cup (rows'[r] \ {on[r]}) : verdict[d] # "none" /\ Loser(r) \in Sides(d)
        /\ \A a, b \in asking'[r] : a = b
        /\ \A d \in rows'[r] \ ({on[r]} \cup left'[r]) :
             \/ Counterpart(r, d) \in asking'[r] \cup posed'[r]
             \/ Answered(winner[r], Counterpart(r, d))
  <2>1. ASSUME NEW d, Answered(winner[r], Counterpart(r, d))
        PROVE  Answered(winner[r], Counterpart(r, d))'
    <3>1. Counterpart(r, d)' = Counterpart(r, d) /\ winner'[r] = winner[r]
      BY <1>6, <1>7
    <3> QED
      BY <1>1, <2>1, <3>1 DEF Answered, disputeVars, Sides
  <2>2. \A d : Counterpart(r, d)' = Counterpart(r, d) /\ Sides(d)' = Sides(d)
    BY <1>2, <1>7
  <2> QED
    BY <1>2, <1>6, <1>7, <2>1, <2>2 DEF ClosingOf
<1>9. CASE FindSiblings(r)
  <2>1. rows'[r] \subseteq {on[r]} /\ asking'[r] = {}
    BY <1>0, <1>9 DEF FindSiblings, ClosingOf
  <2>2. todo'[r] = {d \in Open \ {on[r]} : Loser(r) \in Sides(d)}
    BY <1>9 DEF FindSiblings
  <2> QED
    BY <2>1, <2>2 DEF Open
<1>10. CASE \E d \in DisputeId : CloseSibling(r, d)
  <2>1. PICK d \in DisputeId : CloseSibling(r, d)
    BY <1>10
  <2>2. /\ d \in todo[r] /\ todo'[r] = todo[r] \ {d} /\ UNCHANGED <<asking, posed>>
        /\ \/ rows'[r] = rows[r] \cup {d} /\ left'[r] = left[r] \cup {d}
           \/ UNCHANGED <<rows, left>>
    BY <2>1 DEF CloseSibling
  <2> QED
    BY <1>0, <2>2 DEF ClosingOf
<1>11. CASE \E m \in Memory : Pose(r, m)
  <2>1. PICK c \in Memory : Pose(r, c)
    BY <1>11
  <2>2. /\ c \in asking[r] /\ asking'[r] = {} /\ posed'[r] = posed[r] \cup {c}
        /\ UNCHANGED <<rows, todo, left>>
    BY <2>1 DEF Pose
  <2>3. asking[r] \cup posed[r] = asking'[r] \cup posed'[r]
    BY <1>0, <2>2 DEF ClosingOf
  <2> QED
    BY <1>0, <2>2, <2>3 DEF ClosingOf
<1>12. CASE \E d \in DisputeId : CarryForward(r, d)
  <2>1. PICK d \in DisputeId : CarryForward(r, d)
    BY <1>12
  <2> DEFINE c == Counterpart(r, d)
  <2>2. /\ pc[r] = "settle" /\ asking[r] = {} /\ left'[r] = left[r] \ {d}
        /\ asking'[r] = {x \in {c} : WorthAsking(r, x)} /\ UNCHANGED <<rows, todo, posed>>
    BY <2>1 DEF CarryForward
  <2>3. ASSUME d \in rows[r] \ {on[r]}, ~ WorthAsking(r, c), c \notin posed[r]
        PROVE  Answered(winner[r], c)
    <3>1. verdict[d] # "none" /\ Loser(r) \in Sides(d)
      BY <1>0, <2>3 DEF ClosingOf
    <3>2. c \in Sides(d)
      BY DEF Counterpart, Other, Sides
    <3>3. c \in born /\ winner[r] \in born
      BY <2>2, <3>1, <3>2, RequestFacts DEF LedgerInv, RowsProper
    <3>4. CASE c = winner[r]
      BY <3>4 DEF Answered
    <3>5. CASE ~ ({winner[r], c} \subseteq Living)
      <4>1. c \in deprecated \cup Superseded \/ winner[r] \in deprecated \cup Superseded
        BY <3>3, <3>5 DEF Living
      <4> QED
        BY <4>1 DEF ClosingInv, Answered
    <3>6. CASE Disputed(r, winner[r], c)
      BY <2>3, <3>6 DEF Disputed, Open, Answered
    <3> QED
      BY <2>3, <3>4, <3>5, <3>6 DEF WorthAsking
  <2>4. \A e \in rows[r] \ ({on[r]} \cup left'[r]) :
          \/ Counterpart(r, e) \in asking'[r] \cup posed[r]
          \/ Answered(winner[r], Counterpart(r, e))
    <3> SUFFICES ASSUME NEW e \in rows[r] \ ({on[r]} \cup left'[r])
                 PROVE  \/ Counterpart(r, e) \in asking'[r] \cup posed[r]
                        \/ Answered(winner[r], Counterpart(r, e))
      OBVIOUS
    <3>1. CASE e = d
      BY <2>2, <2>3, <3>1
    <3>2. CASE e # d
      BY <1>0, <2>2, <3>2 DEF ClosingOf
    <3> QED
      BY <3>1, <3>2
  <2> QED
    BY <1>0, <2>2, <2>4 DEF ClosingOf
<1> QED
  BY <1>9, <1>10, <1>11, <1>12

\* Dispute d is moot and its question is kept.
KeptFor(d) ==
  \E x \in Sides(d) \cap Superseded : Answered(supersededBy[x], Other(d, x))

\* The property, dispute by dispute.
LEMMA KeptQuestions == QuestionIsKept <=> \A d \in DisputeId : verdict[d] = "moot" => KeptFor(d)
  BY DEF QuestionIsKept, KeptFor, Answered

\* A question that is kept stays kept.
LEMMA KeptStays ==
  ASSUME TypeOK, TablesKeep, NEW d \in DisputeId, verdict[d] = "moot", KeptFor(d)
  PROVE  KeptFor(d)'
<1>1. PICK x \in Sides(d) \cap Superseded : Answered(supersededBy[x], Other(d, x))
  BY DEF KeptFor
<1>2. Sides(d)' = Sides(d) /\ Other(d, x)' = Other(d, x)
  BY DEF TablesKeep, Sides, Other
<1>3. supersededBy'[x] = supersededBy[x] /\ x \in Superseded'
  BY <1>1 DEF TablesKeep, Superseded
<1>4. Answered(supersededBy[x], Other(d, x))'
  <2> DEFINE w == supersededBy[x]
             c == Other(d, x)
  <2>1. \/ c = w \/ c \in fallen' \/ w \in fallen'
        \/ \E e \in DisputeId : verdict'[e] # "none" /\ {pair'[e][1], pair'[e][2]} = {w, c}
    BY <1>1, AnswerStays
  <2>2. w' = w /\ c' = c
    BY <1>2, <1>3
  <2> HIDE DEF w, c
  <2>3. Answered(w, c)'
    BY <2>1, <2>2 DEF Answered, Sides
  <2> QED
    BY <2>3 DEF w, c
<1> QED
  BY <1>1, <1>2, <1>3, <1>4 DEF KeptFor

\* The commit poses what was carried forward and makes the closed siblings moot.
LEMMA ClosingCommit ==
  ASSUME TypeOK, LedgerInv, ClosingInv, TablesKeep,
         NEW r \in Request, NEW n \in last..MaxDispute, Commit(r, n)
  PROVE  QuestionIsKept' /\ ClosingOf(r)'
<1> DEFINE w == winner[r]
           x == Loser(r)
<1>0. /\ pc[r] = "settle" /\ left[r] = {} /\ asking[r] = {} /\ last \in Nat
      /\ ClosingOf(r)
  BY LedgerAssumption DEF Commit, TypeOK, ClosingInv
<1>1. ClosingOf(r)'
  BY DEF Commit, Release, ClosingOf, TypeOK
<1>2. supersededBy'[x] = w /\ x # w /\ x \in Memory
  <2>1. x # w /\ x \in Memory
    BY <1>0, RequestFacts
  <2>2. supersededBy' = [m \in Memory |-> IF m \in locks[r] \ {w} THEN w ELSE supersededBy[m]]
    BY DEF Commit
  <2> QED
    BY <1>0, <2>1, <2>2, GoneFacts
<1>3. ASSUME NEW d \in rows[r] \ {on[r]} PROVE KeptFor(d)'
  <2> DEFINE c == Counterpart(r, d)
  <2>1. d \in DisputeId /\ verdict[d] # "none" /\ x \in Sides(d)
    BY <1>0 DEF ClosingOf, TypeOK
  <2>2. Sides(d)' = Sides(d) /\ \A m : Other(d, m)' = Other(d, m)
    BY <2>1 DEF TablesKeep, Sides, Other
  <2>3. c = Other(d, x)
    BY DEF Counterpart
  <2>4. x \in Superseded' /\ x \in Sides(d)'
    BY <1>2, <2>1, <2>2 DEF Superseded
  <2>5. CASE c \in posed[r]
    <3> DEFINE F == {<<w, k>> : k \in posed[r]}
    <3>1. Insert(n, F) /\ <<w, c>> \in F
      BY <2>5 DEF Commit
    <3> HIDE DEF F
    <3>2. PICK e \in NewRows(n) : e \in DisputeId /\ pair'[e] = <<w, c>>
      BY <1>0, <3>1, InsertFacts
    <3>3. verdict'[e] # "none"
      BY <3>2 DEF Commit
    <3>4. {pair'[e][1], pair'[e][2]} = {w, c}
      BY <3>2
    <3> QED
      BY <1>2, <2>2, <2>3, <2>4, <3>2, <3>3, <3>4 DEF KeptFor, Answered, Sides
  <2>6. CASE Answered(w, c)
    <3>1. \/ c = w \/ c \in fallen' \/ w \in fallen'
          \/ \E e \in DisputeId : verdict'[e] # "none" /\ {pair'[e][1], pair'[e][2]} = {w, c}
      BY <2>6, AnswerStays
    <3> QED
      BY <1>2, <2>2, <2>3, <2>4, <3>1 DEF KeptFor, Answered, Sides
  <2> QED
    BY <1>0, <2>5, <2>6 DEF ClosingOf
<1>4. ASSUME NEW d \in DisputeId, verdict'[d] = "moot" PROVE KeptFor(d)'
  <2>1. CASE d \in rows[r] \ {on[r]}
    BY <1>3, <2>1
  <2>2. CASE verdict[d] = "moot"
    BY <2>2, KeptQuestions, KeptStays DEF ClosingInv
  <2> QED
    BY <1>4, <2>1, <2>2 DEF Commit
<1>5. QuestionIsKept'
  <2>1. \A d \in DisputeId : verdict'[d] = "moot" => KeptFor(d)'
    BY <1>4
  <2> QED
    BY <2>1 DEF QuestionIsKept, KeptFor, Answered
<1> QED
  BY <1>1, <1>5

\* Every statement of every request keeps it.
LEMMA ClosingStep == TypeOK /\ LedgerInv /\ ClosingInv /\ [Next]_vars => ClosingInv'
<1> SUFFICES ASSUME TypeOK, LedgerInv, ClosingInv, [Next]_vars PROVE ClosingInv'
  OBVIOUS
<1>1. TablesKeep
  BY TablesKept
<1>2. Superseded' \subseteq fallen'
  <2>1. Superseded' \subseteq Memory
    BY DEF Superseded
  <2> QED
    BY <1>1, <2>1 DEF TablesKeep, ClosingInv
<1>3. ASSUME \A d \in DisputeId : verdict'[d] = "moot" => verdict[d] = "moot"
      PROVE  QuestionIsKept'
  <2>1. \A d \in DisputeId : verdict'[d] = "moot" => KeptFor(d)'
    BY <1>1, <1>3, KeptQuestions, KeptStays DEF ClosingInv
  <2> QED
    BY <2>1 DEF QuestionIsKept, KeptFor, Answered
<1>4. ASSUME UNCHANGED requestVars, NEW q \in Request PROVE ClosingOf(q)'
  BY <1>1, <1>4, ClosingFrame DEF ClosingInv, requestVars
<1>5. CASE \/ \E S \in Sources : \E F \in SUBSET ((born \cup S) \X S), n \in last..MaxFound : Ingest(S, F, n)
           \/ \E m \in Memory : Deprecate(m) \/ Review(m)
           \/ \E d \in DisputeId, v \in {"coexist", "dismissed"} : Settle(d, v)
           \/ UNCHANGED vars
  <2>1. UNCHANGED requestVars
    BY <1>5 DEF Ingest, Deprecate, Review, Settle, vars
  <2>2. \A d \in DisputeId : verdict'[d] = "moot" => verdict[d] = "moot"
    BY <1>5 DEF Ingest, Deprecate, Review, Settle, vars, disputeVars, TypeOK
  <2> QED
    BY <1>2, <1>3, <1>4, <2>1, <2>2 DEF ClosingInv
<1>6. ASSUME NEW r \in Request, Resolve(r) PROVE ClosingInv'
  <2>1. ASSUME NEW q \in Request \ {r} PROVE ClosingOf(q)'
    <3>1. /\ pc'[q] = pc[q] /\ on'[q] = on[q] /\ winner'[q] = winner[q] /\ rows'[q] = rows[q]
          /\ todo'[q] = todo[q] /\ left'[q] = left[q] /\ asking'[q] = asking[q]
          /\ posed'[q] = posed[q]
      <4> USE DEF TypeOK
      <4>1. CASE Release(r)
        BY <4>1 DEF Release
      <4>2. CASE \/ \E d \in DisputeId, w \in Memory : Contest(r, d, w)
                 \/ ReadLoser(r) \/ Apply(r) \/ FindSiblings(r)
        BY <4>2 DEF Contest, ReadLoser, Apply, FindSiblings
      <4>3. CASE \/ \E m \in Memory : LockNext(r, m) \/ Pose(r, m)
                 \/ \E d \in DisputeId : CloseSibling(r, d) \/ CarryForward(r, d)
        BY <4>3 DEF LockNext, Pose, CloseSibling, CarryForward
      <4> QED
        BY <1>6, <4>1, <4>2, <4>3 DEF Resolve, Abort, Commit
    <3> QED
      BY <1>1, <3>1, ClosingFrame DEF ClosingInv
  <2>2. CASE \E n \in last..MaxDispute : Commit(r, n)
    BY <1>1, <1>2, <2>1, <2>2, ClosingCommit DEF ClosingInv
  <2>3. CASE ~ \E n \in last..MaxDispute : Commit(r, n)
    <3>1. ClosingOf(r)'
      BY <1>6, <2>3, ClosingSelf DEF Resolve
    <3>2. UNCHANGED verdict
      BY <1>6, <2>3 DEF Resolve, Contest, ReadLoser, Apply, FindSiblings, Abort,
                        LockNext, Pose, CloseSibling, CarryForward, disputeVars
    <3> QED
      BY <1>2, <1>3, <2>1, <3>1, <3>2 DEF ClosingInv
  <2> QED
    BY <2>2, <2>3
<1> QED
  BY <1>5, <1>6 DEF Next

\* What becomes of closed siblings, in every reachable state.
LEMMA ClosingInductive == Spec => []ClosingInv
<1>1. Init => ClosingInv
  BY DEF Init, ClosingInv, Superseded, QuestionIsKept, ClosingOf
<1>2. TypeOK /\ LedgerInv /\ ClosingInv /\ [Next]_vars => ClosingInv'
  BY ClosingStep
<1> QED
  BY <1>1, <1>2, Inductive, PTL DEF Spec

\* A supersession closes every dispute about its loser: the question behind each
\* is on the ledger between the winner and the counterpart, unless one of the
\* two had been retired (governance.rs:636-641).
THEOREM NoQuestionIsLost == Spec => []QuestionIsKept
<1>1. ClosingInv => QuestionIsKept
  BY DEF ClosingInv
<1> QED
  BY <1>1, ClosingInductive, PTL

-----------------------------------------------------------------------------
(* Refinement of Ledger: a resolve decides in one step.                     *)

\* What r asks or has asked is the question of a sibling it has closed.
AskedOf(r) ==
  /\ on[r] \notin todo[r]
  /\ left[r] \subseteq rows[r] \ {on[r]}
  /\ \A c \in asking[r] \cup posed[r] : \E d \in rows[r] \ {on[r]} : c = Counterpart(r, d)

AskedInv == \A r \in Request : AskedOf(r)

\* A request that does not step asks what it asked.
LEMMA AskedFrame ==
  ASSUME TypeOK, LedgerInv, TablesKeep, NEW q \in Request, AskedOf(q),
         /\ on'[q] = on[q] /\ winner'[q] = winner[q] /\ rows'[q] = rows[q]
         /\ todo'[q] = todo[q] /\ left'[q] = left[q] /\ asking'[q] = asking[q]
         /\ posed'[q] = posed[q]
  PROVE  AskedOf(q)'
<1>1. CASE pc[q] = "idle"
  <2>1. asking[q] = {} /\ posed[q] = {}
    BY <1>1, SelfFacts
  <2> QED
    BY <2>1 DEF AskedOf
<1>2. CASE pc[q] # "idle"
  <2>1. on[q] \in DisputeId /\ verdict[on[q]] # "none"
    BY <1>2, RequestFacts
  <2>2. Loser(q)' = Loser(q)
    BY <2>1 DEF TablesKeep, Loser, Other
  <2>3. \A d \in rows[q] : d \in DisputeId /\ verdict[d] # "none"
    BY SelfFacts DEF Open
  <2>4. \A d \in rows[q] : Counterpart(q, d)' = Counterpart(q, d)
    BY <2>2, <2>3 DEF TablesKeep, Counterpart, Other
  <2> QED
    BY <2>4 DEF AskedOf
<1> QED
  BY <1>1, <1>2

\* Nor does its own step ask anything else.
LEMMA AskedSelf ==
  ASSUME TypeOK, LedgerInv, NEW r \in Request, AskedOf(r), Resolve(r)
  PROVE  AskedOf(r)'
<1> USE DEF TypeOK
<1>1. CASE \E d \in DisputeId, w \in Memory : Contest(r, d, w)
  <2>1. todo[r] = {} /\ asking[r] = {} /\ posed[r] = {} /\ rows[r] = {} /\ left[r] = {}
    BY <1>1, SelfFacts DEF Contest, AskedOf
  <2>2. todo'[r] = {} /\ asking'[r] = {} /\ posed'[r] = {} /\ left'[r] = {}
    BY <1>1, <2>1 DEF Contest
  <2> QED
    BY <2>2 DEF AskedOf
<1>2. CASE Release(r)
  <2>1. todo'[r] = {} /\ asking'[r] = {} /\ posed'[r] = {} /\ left'[r] = {}
    BY <1>2 DEF Release
  <2> QED
    BY <2>1 DEF AskedOf
<1>3. ASSUME UNCHANGED <<disputeVars, memoryVars, on, winner>>
      PROVE  \A d : Counterpart(r, d)' = Counterpart(r, d)
  BY <1>3, SameSubject DEF Counterpart, Other, disputeVars
<1>4. CASE ReadLoser(r) \/ Apply(r) \/ \E m \in Memory : LockNext(r, m)
  <2>1. UNCHANGED <<disputeVars, memoryVars, on, winner, rows, todo, left, asking, posed>>
    BY <1>4 DEF ReadLoser, Apply, LockNext
  <2> QED
    BY <1>3, <2>1 DEF AskedOf
<1>5. CASE FindSiblings(r)
  <2>1. /\ UNCHANGED <<disputeVars, memoryVars, on, winner, rows, left, asking, posed>>
        /\ on[r] \notin todo'[r]
    BY <1>5 DEF FindSiblings
  <2> QED
    BY <1>3, <2>1 DEF AskedOf
<1>6. ASSUME NEW d \in DisputeId, CloseSibling(r, d) PROVE AskedOf(r)'
  <2>1. /\ UNCHANGED <<disputeVars, memoryVars, on, winner, asking, posed>>
        /\ d \in todo[r] /\ todo'[r] = todo[r] \ {d}
        /\ \/ rows'[r] = rows[r] \cup {d} /\ left'[r] = left[r] \cup {d}
           \/ UNCHANGED <<rows, left>>
    BY <1>6 DEF CloseSibling
  <2> QED
    BY <1>3, <2>1 DEF AskedOf
<1>7. ASSUME NEW d \in DisputeId, CarryForward(r, d) PROVE AskedOf(r)'
  <2>1. /\ UNCHANGED <<disputeVars, memoryVars, on, winner, rows, todo, posed>>
        /\ d \in left[r] /\ left'[r] = left[r] \ {d} /\ asking'[r] \subseteq {Counterpart(r, d)}
    BY <1>7 DEF CarryForward
  <2> QED
    BY <1>3, <2>1 DEF AskedOf
<1>8. ASSUME NEW c \in Memory, Pose(r, c) PROVE AskedOf(r)'
  <2>1. /\ UNCHANGED <<disputeVars, memoryVars, on, winner, rows, todo, left>>
        /\ c \in asking[r] /\ asking'[r] = {} /\ posed'[r] = posed[r] \cup {c}
    BY <1>8 DEF Pose
  <2> QED
    BY <1>3, <2>1 DEF AskedOf
<1>9. CASE Abort(r) \/ \E n \in last..MaxDispute : Commit(r, n)
  BY <1>2, <1>9 DEF Abort, Commit
<1> QED
  BY <1>1, <1>4, <1>5, <1>6, <1>7, <1>8, <1>9 DEF Resolve

\* What every request asks, in every reachable state.
LEMMA AskedInductive == Spec => []AskedInv
<1>1. Init => AskedInv
  BY DEF Init, AskedInv, AskedOf
<1>2. TypeOK /\ LedgerInv /\ AskedInv /\ [Next]_vars => AskedInv'
  <2> SUFFICES ASSUME TypeOK, LedgerInv, AskedInv, [Next]_vars, NEW q \in Request
               PROVE  AskedOf(q)'
    BY DEF AskedInv
  <2>1. TablesKeep /\ AskedOf(q)
    BY TablesKept DEF AskedInv
  <2>2. CASE UNCHANGED requestVars
    BY <2>1, <2>2, AskedFrame DEF requestVars
  <2>3. ASSUME NEW r \in Request, Resolve(r) PROVE AskedOf(q)'
    <3>1. CASE q = r
      BY <2>1, <2>3, <3>1, AskedSelf
    <3>2. CASE q # r
      <4> USE DEF TypeOK
      <4>1. CASE Release(r)
        BY <2>1, <3>2, <4>1, AskedFrame DEF Release
      <4>2. CASE \/ \E d \in DisputeId, w \in Memory : Contest(r, d, w)
                 \/ ReadLoser(r) \/ Apply(r) \/ FindSiblings(r)
        BY <2>1, <3>2, <4>2, AskedFrame DEF Contest, ReadLoser, Apply, FindSiblings
      <4>3. CASE \/ \E m \in Memory : LockNext(r, m) \/ Pose(r, m)
                 \/ \E d \in DisputeId : CloseSibling(r, d) \/ CarryForward(r, d)
        BY <2>1, <3>2, <4>3, AskedFrame DEF LockNext, Pose, CloseSibling, CarryForward
      <4> QED
        BY <2>3, <4>1, <4>2, <4>3 DEF Resolve, Abort, Commit
    <3> QED
      BY <3>1, <3>2
  <2> QED
    BY <2>2, <2>3 DEF Next, Ingest, Deprecate, Review, Settle, vars
<1> QED
  BY <1>1, <1>2, Inductive, PTL DEF Spec

\* The pipeline's commit raises disputes.
LEMMA IngestRaises ==
  ASSUME TypeOK, LedgerInv, NEW S \in Sources, NEW F \in SUBSET ((born \cup S) \X S),
         NEW n \in last..MaxFound, Ingest(S, F, n)
  PROVE  Atomic!Next
<1>0. last \in Nat /\ n \in last..MaxDispute /\ Insert(n, F)
  BY LedgerAssumption DEF TypeOK, Ingest
<1>1. /\ NewRows(n) \subseteq DisputeId
      /\ \A d \in NewRows(n) : pair'[d] \in F
      /\ \A d \in DisputeId \ NewRows(n) : pair'[d] = pair[d]
  BY <1>0, InsertFacts
<1>2. \A d \in NewRows(n) : verdict[d] = "none"
  BY <1>0, <1>1 DEF LedgerInv, RowsProper, NewRows, DisputeId
<1>3. \A d \in NewRows(n) : pair'[d][1] # pair'[d][2] /\ {pair'[d][1], pair'[d][2]} \subseteq born'
  <2>1. \A p \in F : p[1] # p[2] /\ p[1] \in S \cup born /\ p[2] \in S
    BY DEF Ingest
  <2>2. born' = born \cup S
    BY DEF Ingest
  <2> QED
    BY <1>1, <2>1, <2>2
<1>4. Atomic!Posed(NewRows(n))
  BY <1>1, <1>2, <1>3 DEF Atomic!Posed, Atomic!Sides
<1>5. Atomic!Raise(NewRows(n))
  BY <1>4 DEF Atomic!Raise, Ingest
<1> QED
  BY <1>1, <1>5 DEF Atomic!Next

\* What r's closed siblings asked is asked by the commit, or needs no asking.
LEMMA CommitAnswers ==
  ASSUME TypeOK, LedgerInv, ClosingInv, TablesKeep,
         NEW r \in Request, NEW n \in last..MaxDispute, Commit(r, n),
         NEW d \in rows[r] \ {on[r]},
         NEW w, w = winner[r], NEW c, c = Counterpart(r, d)
  PROVE  Atomic!Answered(w, c)'
<1>0. left[r] = {} /\ asking[r] = {} /\ last \in Nat
  BY LedgerAssumption DEF Commit, TypeOK
<1>1. c \in posed[r] \/ Answered(w, c)
  BY <1>0 DEF ClosingInv, ClosingOf
<1>2. \/ c = w \/ c \in fallen' \/ w \in fallen'
      \/ \E e \in DisputeId : verdict'[e] # "none" /\ {pair'[e][1], pair'[e][2]} = {w, c}
  <2>1. CASE c \in posed[r]
    <3> DEFINE F == {<<w, k>> : k \in posed[r]}
    <3>1. Insert(n, F) /\ <<w, c>> \in F
      BY <2>1 DEF Commit
    <3> HIDE DEF F
    <3>2. PICK e \in NewRows(n) : e \in DisputeId /\ pair'[e] = <<w, c>>
      BY <1>0, <3>1, InsertFacts
    <3>3. verdict'[e] # "none"
      BY <3>2 DEF Commit
    <3>4. {pair'[e][1], pair'[e][2]} = {w, c}
      BY <3>2
    <3> QED
      BY <3>2, <3>3, <3>4
  <2>2. CASE Answered(w, c)
    BY <2>2, AnswerStays
  <2> QED
    BY <1>1, <2>1, <2>2
<1> QED
  BY <1>2 DEF Atomic!Answered, Atomic!Sides

\* The supersession of a commit, the end of a request of many statements, is one
\* decision of the ledger as it is then.
LEMMA CommitDecides ==
  ASSUME TypeOK, LedgerInv, ClosingInv, AskedInv, TablesKeep,
         NEW r \in Request, NEW n \in last..MaxDispute, Commit(r, n)
  PROVE  Atomic!Next
<1> DEFINE M == rows[r] \ {on[r]}
           N == NewRows(n)
<1>0. pc[r] = "settle" /\ left[r] = {} /\ asking[r] = {}
  BY DEF Commit
<1>1. PICK d \in DisputeId, w \in Memory, l \in Memory :
        /\ d = on[r] /\ w = winner[r] /\ l = Loser(r)
  BY <1>0, RequestFacts
<1>2. /\ verdict[d] = "open" /\ w # l /\ Sides(d) = {w, l} /\ Sides(d) \subseteq born
      /\ Other(d, w) = l
  BY <1>0, <1>1, RequestFacts DEF Loser
<1>3. M \subseteq Open \ {d} /\ \A m \in M : l \in Sides(m) /\ Counterpart(r, m) = Other(m, l)
  BY <1>1, SelfFacts DEF ClosingInv, ClosingOf, Counterpart
<1>4. \/ /\ supersededBy[l] = w
         /\ UNCHANGED <<deprecated, supersededBy, fallen>>
      \/ /\ l \notin Superseded /\ supersededBy[w] # l
         /\ supersededBy' = [supersededBy EXCEPT ![l] = w]
         /\ deprecated' = deprecated \cup {l}
         /\ fallen' = fallen \cup {l}
  <2> DEFINE gone == locks[r] \ {winner[r]}
  <2>1. /\ supersededBy' = [m \in Memory |-> IF m \in gone THEN winner[r] ELSE supersededBy[m]]
        /\ deprecated' = deprecated \cup gone /\ fallen' = fallen \cup gone
    BY DEF Commit
  <2>2. \/ gone = {} /\ supersededBy[l] = w
        \/ gone = {l} /\ l \notin Superseded /\ supersededBy[w] # l
    BY <1>0, <1>1, GoneFacts
  <2> HIDE DEF gone
  <2> QED
    BY <1>1, <2>1, <2>2 DEF TypeOK
<1>5. /\ N \subseteq DisputeId
      /\ \A e \in N : \E c \in posed[r] : pair'[e] = <<w, c>>
      /\ \A e \in DisputeId \ N : pair'[e] = pair[e]
      /\ \A e \in N : verdict[e] = "none"
  BY <1>1, CommitFacts
<1>6. \A c \in posed[r] : c \in born /\ c # w
  BY <1>0, <1>1, SelfFacts
<1>7. \A c \in posed[r] : \E m \in M : c = Other(m, l)
  BY <1>3 DEF AskedInv, AskedOf
<1>8. Atomic!Posed(N)
  <2>1. \A e \in N : pair'[e][1] # pair'[e][2] /\ {pair'[e][1], pair'[e][2]} \subseteq born'
    <3>1. born' = born /\ w \in born
      BY <1>2 DEF Commit
    <3> QED
      BY <1>5, <1>6, <3>1
  <2> QED
    BY <1>5, <2>1 DEF Atomic!Posed, Atomic!Sides
<1>9. \A e \in N : \E c \in {Other(m, l) : m \in M} : {pair'[e][1], pair'[e][2]} = {w, c}
  <2> SUFFICES ASSUME NEW e \in N
               PROVE  \E c \in {Other(m, l) : m \in M} : {pair'[e][1], pair'[e][2]} = {w, c}
    OBVIOUS
  <2>1. PICK c \in posed[r] : pair'[e] = <<w, c>>
    BY <1>5
  <2>2. c \in {Other(m, l) : m \in M} /\ {pair'[e][1], pair'[e][2]} = {w, c}
    BY <1>7, <2>1
  <2> QED
    BY <2>2
<1>10. verdict' = [e \in DisputeId |-> IF e = d THEN "superseded"
                                      ELSE IF e \in M THEN "moot"
                                      ELSE IF e \in N THEN "open"
                                      ELSE verdict[e]]
  BY <1>1 DEF Commit
<1>11. \A c \in {Other(m, l) : m \in M} : Atomic!Answered(w, c)'
  BY <1>1, <1>3, CommitAnswers
<1>12. Atomic!Supersede(d, w, M, N)
  <2>1. /\ Atomic!Other(d, w) = l /\ \A m : Atomic!Other(m, l) = Other(m, l)
        /\ \A e : Atomic!Sides(e) = Sides(e) /\ Atomic!Sides(e)' = {pair'[e][1], pair'[e][2]}
        /\ Atomic!Open = Open /\ Atomic!Superseded = Superseded
    BY <1>2 DEF Atomic!Other, Other, Atomic!Sides, Sides, Atomic!Open, Open,
                Atomic!Superseded, Superseded
  <2>2. d \in Open /\ w \in Sides(d) /\ born' = born
    BY <1>2 DEF Open, Commit
  <2> HIDE DEF M, N
  <2> QED
    BY <1>3, <1>4, <1>8, <1>9, <1>10, <1>11, <2>1, <2>2 DEF Atomic!Supersede
<1>13. M \in SUBSET DisputeId /\ N \in SUBSET DisputeId
  BY <1>3, <1>5 DEF Open
<1> QED
  BY <1>12, <1>13 DEF Atomic!Next

\* Every step of the tables and the requests is a step of the ledger, or changes
\* nothing it shows.
LEMMA LedgerRefined ==
  ASSUME TypeOK, LedgerInv, ClosingInv, AskedInv, [Next]_vars
  PROVE  [Atomic!Next]_(Atomic!vars)
<1>1. ASSUME UNCHANGED <<memoryVars, disputeVars, fallen>> PROVE UNCHANGED Atomic!vars
  BY <1>1 DEF memoryVars, disputeVars, Atomic!vars
<1>2. ASSUME NEW S \in Sources, NEW F \in SUBSET ((born \cup S) \X S),
             NEW n \in last..MaxFound, Ingest(S, F, n)
      PROVE  Atomic!Next
  BY <1>2, IngestRaises
<1>3. ASSUME NEW m \in Memory, Deprecate(m) PROVE Atomic!Next
  BY <1>3 DEF Deprecate, disputeVars, Living, Superseded, Atomic!Superseded, Atomic!Retire, Atomic!Next
<1>4. ASSUME NEW m \in Memory, Review(m) PROVE Atomic!Next
  BY <1>4 DEF Review, disputeVars, Atomic!Restore, Atomic!Next
<1>5. ASSUME NEW d \in DisputeId, NEW v \in {"coexist", "dismissed"}, Settle(d, v)
      PROVE  Atomic!Next
  BY <1>5 DEF Settle, memoryVars, Open, Atomic!Open, Atomic!Settle, Atomic!Next
<1>6. ASSUME NEW r \in Request, Resolve(r) PROVE Atomic!Next \/ UNCHANGED Atomic!vars
  <2>1. CASE \E n \in last..MaxDispute : Commit(r, n)
    BY <2>1, TablesKept, CommitDecides
  <2>2. CASE ~ \E n \in last..MaxDispute : Commit(r, n)
    BY <1>1, <1>6, <2>2 DEF Resolve, Contest, ReadLoser, Apply, FindSiblings, Abort,
                            LockNext, Pose, CloseSibling, CarryForward
  <2> QED
    BY <2>1, <2>2
<1>7. CASE UNCHANGED vars
  BY <1>1, <1>7 DEF vars
<1> QED
  BY <1>2, <1>3, <1>4, <1>5, <1>6, <1>7 DEF Next

\* Resolve requests of many statements, side by side, with rollbacks, waits and
\* what the pipeline, reviewers and readers commit between any two of them, are
\* decisions taken one after the other, each in one step.
THEOREM ResolvesAreAtomic == Spec => ImplementsLedger
<1>1. Init => Atomic!Init
  BY LedgerAssumption DEF Init, Atomic!Init, Memory
<1>2. TypeOK /\ LedgerInv /\ ClosingInv /\ AskedInv /\ [Next]_vars => [Atomic!Next]_(Atomic!vars)
  BY LedgerRefined
<1> QED
  BY <1>1, <1>2, Inductive, ClosingInductive, AskedInductive, PTL
  DEF Spec, ImplementsLedger, Atomic!Spec

=============================================================================
