------------------------------- MODULE Disputes -------------------------------
(***************************************************************************)
(* Disputes between memories and how maintainers settle them: the          *)
(* contradictions ledger and the supersession chain (brainiac-store        *)
(* governance.rs), the resolve, review and feedback endpoints              *)
(* (brainiac-server console.rs) and the detector that opens disputes       *)
(* (brainiac-pipeline contradict.rs).  Of a memory's status disputes ask   *)
(* only whether it is deprecated.                                          *)
(*                                                                         *)
(* A resolve request is one transaction of many statements at READ         *)
(* COMMITTED, and several run at once.  Each statement reads what is       *)
(* committed when it starts, waits for the row locks it needs, and looks   *)
(* again at a row it had to wait for; nothing it writes is seen by others  *)
(* before the commit.  A request's writes are therefore kept beside it,    *)
(* with the locks it holds, and reach the tables in Commit:                *)
(*   - the dispute it resolves and the siblings it has closed (rows),      *)
(*   - both memories of the supersession, FOR UPDATE (locks),              *)
(*   - the memories a dispute it inserted refers to, which the foreign     *)
(*     key locks FOR KEY SHARE (posed).                                    *)
(* Of every other transaction only the commit is seen: it is one action,   *)
(* enabled while no lock it needs is held.  Memories stand in the order of *)
(* their ids.                                                              *)
(***************************************************************************)
EXTENDS Integers, FiniteSets

CONSTANTS
  MaxMemory,   \* bound: memories; their ids are 1..MaxMemory
  MaxDispute,  \* bound: rows of contradictions
  MaxFound,    \* bound: rows the detector adds
  MaxSource,   \* bound: memories one source yields
  Request      \* resolve requests in flight

ASSUME LedgerAssumption ==
  /\ MaxMemory \in Nat \ {0} /\ MaxDispute \in Nat /\ MaxFound \in 0..MaxDispute
  /\ MaxSource \in Nat

VARIABLES
  born,         \* memories committed by the pipeline
  deprecated,   \* memories with status deprecated
  supersededBy, \* supersededBy[m]: superseded_by, m itself for NULL
  last,         \* rows of contradictions are 1..last
  pair,         \* pair[d]: <<memory_a, memory_b>>
  verdict,      \* verdict[d]: status of dispute d
  carried,      \* disputes with detected_by = sibling_carry_forward
  pc,           \* pc[r]: where request r is
  on,           \* on[r]: the dispute it resolves
  winner,       \* winner[r]: winner_memory_id
  locks,        \* locks[r]: memories it has locked FOR UPDATE
  rows,         \* rows[r]: disputes it has locked, its own among them
  todo,         \* todo[r]: siblings its UPDATE still has to visit
  left,         \* left[r]: closed siblings it has not carried forward yet
  asking,       \* asking[r]: counterparts found live, about to be posed
  posed,        \* posed[r]: counterparts of the disputes it has inserted
  fallen        \* history: memories that were ever deprecated

memoryVars  == <<born, deprecated, supersededBy>>
disputeVars == <<last, pair, verdict, carried>>
requestVars == <<pc, on, winner, locks, rows, todo, left, asking, posed>>
vars == <<memoryVars, disputeVars, requestVars, fallen>>

Memory    == 1..MaxMemory
DisputeId == 1..MaxDispute
Pair      == Memory \X Memory
Verdicts  == {"none", "open", "superseded", "coexist", "dismissed", "moot"}

Sides(d)    == {pair[d][1], pair[d][2]}
Other(d, m) == IF m = pair[d][1] THEN pair[d][2] ELSE pair[d][1]
Loser(r)    == Other(on[r], winner[r])

Open       == {d \in DisputeId : verdict[d] = "open"}
Superseded == {m \in Memory : supersededBy[m] # m}
\* carry_forward's test.
Living     == born \ (deprecated \cup Superseded)

\* What the requests Q keep other transactions from.
ForUpdate(m, Q) == \E q \in Q : m \in locks[q]
KeyShare(m, Q)  == \E q \in Q : posed[q] # {} /\ m \in posed[q] \cup {winner[q]}
Lockable(m, Q)  == ~ ForUpdate(m, Q) /\ ~ KeyShare(m, Q)
\* Mutant: the dispute is read without FOR UPDATE.
RowUnlocked(d, Q) == FALSE
RowLocked(d, Q) == \E q \in Q : d \in rows[q]
Others(r) == Request \ {r}

\* F is inserted as rows last + 1 to n, in an order that is of no consequence.
NewRows(n)   == (last + 1)..n
Orders(n, F) == {f \in [NewRows(n) -> F] :
                   /\ \A p \in F : \E d \in NewRows(n) : f[d] = p
                   /\ \A d, e \in NewRows(n) : f[d] = f[e] => d = e}
Insert(n, F) ==
  /\ Orders(n, F) # {}
  /\ LET f == CHOOSE f \in Orders(n, F) : TRUE
     IN  pair' = [d \in DisputeId |-> IF d \in NewRows(n) THEN f[d] ELSE pair[d]]
  /\ last' = n

-----------------------------------------------------------------------------
Init ==
  /\ born = {} /\ deprecated = {}
  /\ supersededBy = [m \in Memory |-> m]
  /\ last = 0
  /\ pair = [d \in DisputeId |-> <<1, 1>>]
  /\ verdict = [d \in DisputeId |-> "none"]
  /\ carried = {}
  /\ pc = [r \in Request |-> "idle"]
  /\ on = [r \in Request |-> 0]
  /\ winner = [r \in Request |-> 0]
  /\ locks = [r \in Request |-> {}]
  /\ rows = [r \in Request |-> {}]
  /\ todo = [r \in Request |-> {}]
  /\ left = [r \in Request |-> {}]
  /\ asking = [r \in Request |-> {}]
  /\ posed = [r \in Request |-> {}]
  /\ fallen = {}

-----------------------------------------------------------------------------
(* The pipeline and the reviewers. *)

\* process_job commits a source: its memories S and the disputes F with the
\* neighbours of each, retired ones included.
Ingest(S, F, n) ==
  /\ S \cap born = {}
  /\ \A p \in F : /\ p[1] # p[2] /\ p[2] \in S /\ p[1] \in S \cup born
                  /\ ~ ForUpdate(p[1], Request)
  /\ born' = born \cup S
  /\ Insert(n, F)
  /\ verdict' = [d \in DisputeId |-> IF d \in NewRows(n) THEN "open" ELSE verdict[d]]
  /\ UNCHANGED <<deprecated, supersededBy, carried, requestVars, fallen>>

\* resolve_feedback_claims with 'deprecated': apply_deprecation.
Deprecate(m) ==
  /\ m \in Living
  /\ Lockable(m, Request)
  /\ deprecated' = deprecated \cup {m}
  /\ fallen' = fallen \cup {m}
  /\ UNCHANGED <<born, supersededBy, disputeVars, requestVars>>

\* review_one of a promotion that was queued before m was retired: the status
\* is set whatever it has become meanwhile.
Review(m) ==
  /\ m \in deprecated
  /\ ~ ForUpdate(m, Request)
  /\ deprecated' = deprecated \ {m}
  /\ UNCHANGED <<born, supersededBy, disputeVars, requestVars, fallen>>

\* resolve_contradiction with 'coexist' or 'dismiss'.
Settle(d, v) ==
  /\ d \in Open
  /\ ~ RowLocked(d, Request)
  /\ verdict' = [verdict EXCEPT ![d] = v]
  /\ UNCHANGED <<memoryVars, last, pair, carried, requestVars, fallen>>

-----------------------------------------------------------------------------
(* resolve_contradiction with 'supersede'. *)

\* SELECT ... WHERE id = $1 AND status = 'open' FOR UPDATE.
Contest(r, d, w) ==
  /\ pc[r] = "idle"
  /\ d \in Open /\ w \in Sides(d)
  /\ ~ RowLocked(d, Others(r))
  /\ pc' = [pc EXCEPT ![r] = "read"]
  /\ on' = [on EXCEPT ![r] = d]
  /\ winner' = [winner EXCEPT ![r] = w]
  /\ rows' = [rows EXCEPT ![r] = {d}]
  /\ UNCHANGED <<memoryVars, disputeVars, locks, todo, left, asking, posed, fallen>>

\* Mutant: a row found is enough, whatever it names.
ReadLoserFound(r) ==
  /\ pc[r] = "read"
  /\ pc' = [pc EXCEPT ![r] = IF Loser(r) \in born THEN "applied" ELSE "lock"]
  /\ UNCHANGED <<memoryVars, disputeVars, on, winner, locks, rows, todo, left,
                 asking, posed, fallen>>
\* The loser's superseded_by, read without a lock: what the reviewer asks for
\* may hold already.
ReadLoser(r) ==
  /\ pc[r] = "read"
  /\ pc' = [pc EXCEPT ![r] = IF supersededBy[Loser(r)] = winner[r] THEN "applied" ELSE "lock"]
  /\ UNCHANGED <<memoryVars, disputeVars, on, winner, locks, rows, todo, left,
                 asking, posed, fallen>>

\* Mutant: the loser is locked first.
LoserBefore(r, m, n) == m = Loser(r)
\* The order in which apply_supersession locks the pair.
LockBefore(r, m, n) == m < n

\* SELECT ... ORDER BY id FOR UPDATE, one row after the other.
LockNext(r, m) ==
  /\ pc[r] = "lock"
  /\ m \in Sides(on[r]) \ locks[r]
  /\ \A n \in Sides(on[r]) \ (locks[r] \cup {m}) : LockBefore(r, m, n)
  /\ Lockable(m, Others(r))
  /\ locks' = [locks EXCEPT ![r] = @ \cup {m}]
  /\ UNCHANGED <<memoryVars, disputeVars, pc, on, winner, rows, todo, left,
                 asking, posed, fallen>>

\* The loser is not superseded, and the winner does not point back at it.
Applicable(r) ==
  Loser(r) \notin Superseded /\ supersededBy[winner[r]] # Loser(r)

\* apply_supersession writes.
Apply(r) ==
  /\ pc[r] = "lock" /\ locks[r] = Sides(on[r])
  /\ Applicable(r)
  /\ pc' = [pc EXCEPT ![r] = "applied"]
  /\ UNCHANGED <<memoryVars, disputeVars, on, winner, locks, rows, todo, left,
                 asking, posed, fallen>>

\* settle_siblings_of_superseded: its UPDATE sees the open disputes about the
\* loser that are committed now.
FindSiblings(r) ==
  /\ pc[r] = "applied"
  /\ pc' = [pc EXCEPT ![r] = "settle"]
  /\ todo' = [todo EXCEPT ![r] = {d \in Open \ {on[r]} : Loser(r) \in Sides(d)}]
  /\ UNCHANGED <<memoryVars, disputeVars, on, winner, locks, rows, left,
                 asking, posed, fallen>>

\* The UPDATE comes to sibling d: closed as moot, if it is open still.
CloseSibling(r, d) ==
  /\ d \in todo[r] /\ ~ RowLocked(d, Others(r))
  /\ todo' = [todo EXCEPT ![r] = @ \ {d}]
  /\ \/ /\ d \in Open
        /\ rows' = [rows EXCEPT ![r] = @ \cup {d}]
        /\ left' = [left EXCEPT ![r] = @ \cup {d}]
     \/ /\ d \notin Open
        /\ UNCHANGED <<rows, left>>
  /\ UNCHANGED <<memoryVars, disputeVars, pc, on, winner, locks, asking, posed, fallen>>

\* Mutant: the counterpart is always memory_b.
CounterpartB(r, d) == pair[d][2]
\* The other memory of a closed sibling.
Counterpart(r, d) == Other(d, Loser(r))

\* An open dispute of the two, in either direction, that r can see.
Disputed(r, m, n) ==
  \/ \E d \in Open : Sides(d) = {m, n}
  \/ m = winner[r] /\ n \in posed[r]

\* carry_forward's guards.
WorthAsking(r, c) ==
  /\ c # winner[r]
  /\ {winner[r], c} \subseteq Living
  /\ ~ Disputed(r, winner[r], c)

\* carry_forward, the reads.
CarryForward(r, d) ==
  /\ pc[r] = "settle" /\ todo[r] = {} /\ asking[r] = {}
  /\ d \in left[r]
  /\ left' = [left EXCEPT ![r] = @ \ {d}]
  /\ asking' = [asking EXCEPT ![r] = {c \in {Counterpart(r, d)} : WorthAsking(r, c)}]
  /\ UNCHANGED <<memoryVars, disputeVars, pc, on, winner, locks, rows, todo,
                 posed, fallen>>

\* carry_forward, the INSERT, once its foreign keys can be share-locked.
Pose(r, c) ==
  /\ c \in asking[r]
  /\ ~ ForUpdate(c, Others(r)) /\ ~ ForUpdate(winner[r], Others(r))
  /\ asking' = [asking EXCEPT ![r] = {}]
  /\ posed' = [posed EXCEPT ![r] = @ \cup {c}]
  /\ UNCHANGED <<memoryVars, disputeVars, pc, on, winner, locks, rows, todo,
                 left, fallen>>

\* r is over: nothing of it is left but what is in the tables.
Release(r) ==
  /\ pc' = [pc EXCEPT ![r] = "idle"]
  /\ on' = [on EXCEPT ![r] = 0]
  /\ winner' = [winner EXCEPT ![r] = 0]
  /\ locks' = [locks EXCEPT ![r] = {}]
  /\ rows' = [rows EXCEPT ![r] = {}]
  /\ todo' = [todo EXCEPT ![r] = {}]
  /\ left' = [left EXCEPT ![r] = {}]
  /\ asking' = [asking EXCEPT ![r] = {}]
  /\ posed' = [posed EXCEPT ![r] = {}]

\* The commit: the supersession (if r applied one), the verdict, the closed
\* siblings and the disputes carried forward.
Commit(r, n) ==
  LET gone == locks[r] \ {winner[r]} IN
  /\ pc[r] = "settle" /\ todo[r] = {} /\ left[r] = {} /\ asking[r] = {}
  /\ supersededBy' = [m \in Memory |-> IF m \in gone THEN winner[r] ELSE supersededBy[m]]
  /\ deprecated' = deprecated \cup gone
  /\ fallen' = fallen \cup gone
  /\ Insert(n, {<<winner[r], c>> : c \in posed[r]})
  /\ carried' = carried \cup NewRows(n)
  /\ verdict' = [d \in DisputeId |-> IF d = on[r] THEN "superseded"
                                     ELSE IF d \in rows[r] THEN "moot"
                                     ELSE IF d \in NewRows(n) THEN "open"
                                     ELSE verdict[d]]
  /\ Release(r)
  /\ UNCHANGED born

\* apply_supersession applied nothing, the caller is no maintainer of the
\* loser's team, the connection is lost, or Postgres picked r as the victim of
\* a deadlock: the transaction rolls back.
Abort(r) ==
  /\ pc[r] # "idle"
  /\ Release(r)
  /\ UNCHANGED <<memoryVars, disputeVars, fallen>>

-----------------------------------------------------------------------------
Sources == {S \in SUBSET (Memory \ born) : S # {} /\ Cardinality(S) <= MaxSource}

Resolve(r) ==
  \/ \E d \in DisputeId, w \in Memory : Contest(r, d, w)
  \/ ReadLoser(r) \/ Apply(r) \/ FindSiblings(r) \/ Abort(r)
  \/ \E n \in last..MaxDispute : Commit(r, n)
  \/ \E m \in Memory : LockNext(r, m) \/ Pose(r, m)
  \/ \E d \in DisputeId : CloseSibling(r, d) \/ CarryForward(r, d)

Next ==
  \/ \E S \in Sources : \E F \in SUBSET ((born \cup S) \X S), n \in last..MaxFound :
       Ingest(S, F, n)
  \/ \E m \in Memory : Deprecate(m) \/ Review(m)
  \/ \E d \in DisputeId, v \in {"coexist", "dismissed"} : Settle(d, v)
  \/ \E r \in Request : Resolve(r)

Spec == Init /\ [][Next]_vars

-----------------------------------------------------------------------------
(* Properties. *)

\* Every variable has its type.
TypeOK ==
  /\ born \subseteq Memory
  /\ deprecated \subseteq fallen /\ fallen \subseteq born
  /\ supersededBy \in [Memory -> Memory]
  /\ last \in 0..MaxDispute
  /\ pair \in [DisputeId -> Pair]
  /\ verdict \in [DisputeId -> Verdicts]
  /\ carried \subseteq DisputeId
  /\ pc \in [Request -> {"idle", "read", "lock", "applied", "settle"}]
  /\ on \in [Request -> 0..MaxDispute]
  /\ winner \in [Request -> 0..MaxMemory]
  /\ locks \in [Request -> SUBSET Memory]
  /\ rows \in [Request -> SUBSET DisputeId]
  /\ todo \in [Request -> SUBSET DisputeId]
  /\ left \in [Request -> SUBSET DisputeId]
  /\ asking \in [Request -> SUBSET Memory]
  /\ posed \in [Request -> SUBSET Memory]

\* The ledger never says a dispute was resolved by a supersession the corpus
\* does not have: one side points at the other, for ever (console.rs:749-752,
\* the defect of a dispute "logged resolved_supersede while the corpus was
\* untouched").
LedgerIsTrue ==
  \A d \in DisputeId : verdict[d] = "superseded" =>
    \E m \in Sides(d) : supersededBy[m] = Other(d, m)

\* A supersession is final: no request in flight at the same time points the
\* loser at another winner (governance.rs:270, "a live supersession is final").
SupersessionIsFinal ==
  [][\A m \in Superseded : supersededBy'[m] = supersededBy[m]]_vars

\* A dispute is decided once: two maintainers who resolve it together, or one
\* who resolves it while it is closed as a sibling, cannot both leave a verdict
\* (console.rs:665-670).
VerdictIsFinal ==
  [][\A d \in DisputeId : verdict[d] \notin {"none", "open"} => verdict'[d] = verdict[d]]_vars

\* No question is lost: the counterpart of a dispute closed as moot is the
\* winner itself, or its dispute with the winner is on the ledger, or one of
\* the two had been retired (governance.rs:636-641).
QuestionIsKept ==
  \A d \in DisputeId : verdict[d] = "moot" =>
    \E x \in Sides(d) \cap Superseded :
      LET w == supersededBy[x]  c == Other(d, x) IN
      \/ c = w
      \/ c \in fallen \/ w \in fallen
      \/ \E e \in DisputeId : verdict[e] # "none" /\ Sides(e) = {w, c}

\* Requests that each hold one memory of their pairs never wait for each other's
\* in a circle, however many there are: the locks of a supersession are taken in
\* id order.
Blocked(r, q) ==
  /\ pc[r] = "lock" /\ pc[q] = "lock"
  /\ \E m \in Sides(on[r]) \ locks[r] :
       /\ \A n \in Sides(on[r]) \ (locks[r] \cup {m}) : LockBefore(r, m, n)
       /\ m \in locks[q]
NoPairDeadlock ==
  \A S \in SUBSET Request : S # {} => \E r \in S : \A q \in S : ~ Blocked(r, q)

-----------------------------------------------------------------------------
(* The inductive invariant of DisputesProofs. *)

\* Row locks are exclusive, and a locked dispute stays open.
LocksApart ==
  \A q, r \in Request : q # r => locks[q] \cap locks[r] = {} /\ rows[q] \cap rows[r] = {}
RowsOpen == \A r \in Request : rows[r] \subseteq Open
\* A request in flight keeps its dispute, and holds no other memories than its
\* pair, locked in id order.
Subject ==
  \A r \in Request :
    IF pc[r] = "idle"
      THEN /\ rows[r] = {} /\ locks[r] = {} /\ todo[r] = {}
           /\ asking[r] = {} /\ posed[r] = {}
      ELSE /\ on[r] \in rows[r] /\ winner[r] \in Sides(on[r])
           /\ locks[r] \subseteq Sides(on[r])
           /\ asking[r] \cup posed[r] \subseteq born \ {winner[r]}
           /\ pc[r] = "read" => locks[r] = {}
           /\ \A m \in locks[r], n \in Sides(on[r]) \ locks[r] : m < n
\* A row on the ledger is between two memories.
RowsProper ==
  \A d \in DisputeId : verdict[d] # "none" =>
    d <= last /\ pair[d][1] # pair[d][2] /\ Sides(d) \subseteq born
\* From Apply on, what the request found of the pair cannot change.
AppliedHolds ==
  \A r \in Request : pc[r] \in {"applied", "settle"} =>
    \/ locks[r] = {} /\ supersededBy[Loser(r)] = winner[r]
    \/ locks[r] = Sides(on[r]) /\ Applicable(r)
LedgerInv == /\ LocksApart /\ RowsOpen /\ Subject /\ RowsProper /\ AppliedHolds
             /\ LedgerIsTrue

-----------------------------------------------------------------------------
(* The abstract ledger this one implements. *)

Atomic == INSTANCE Ledger

\* A resolve request of many statements at READ COMMITTED, beside others that
\* read, lock, wait and roll back, decides its dispute and whatever hangs on it
\* in one step, on the tables as they are then (governance.rs, console.rs:665-670).
ImplementsLedger == Atomic!Spec

-----------------------------------------------------------------------------
(* What comments in the code say and its behaviour does not keep. *)

\* governance.rs:625-626: a supersession must not "deprecate a live memory in
\* favour of a retired one".
WinnerLives ==
  [][\A m \in Memory : supersededBy'[m] # supersededBy[m] => supersededBy'[m] \in Living]_vars

=============================================================================
