--------------------------------- MODULE Inbox ---------------------------------
(***************************************************************************)
(* What intake promises its clients, without transactions, requests that   *)
(* race or die, and retries: sources are stored once and for good, one of a *)
(* key whatever was sent under it, and an answer names a stored source and  *)
(* a job of it, the first where it had one (http.rs, Idempotency-Key).      *)
(***************************************************************************)
EXTENDS Naturals, Sequences

CONSTANTS Source, NoKey

VARIABLES
  stored,   \* sources there are
  keyOf,    \* keyOf[s]: the key s was sent under, or NoKey
  says,     \* says[s]: what was sent
  jobs,     \* jobs[j]: the source job j is about
  receipts  \* <<key, source, job>> as clients were told

vars == <<stored, keyOf, says, jobs, receipts>>

Init ==
  /\ stored = {} /\ jobs = << >> /\ receipts = {}
  /\ keyOf = [s \in Source |-> NoKey] /\ says = [s \in Source |-> NoKey]

\* A body, or the new files of a bundle together.
Store(S) ==
  /\ S \cap stored = {} /\ stored' = stored \cup S
  /\ keyOf' = [s \in Source |-> IF s \in S THEN keyOf'[s] ELSE keyOf[s]]
  /\ says' = [s \in Source |-> IF s \in S THEN says'[s] ELSE says[s]]
  /\ \A s, t \in stored' : keyOf'[s] = keyOf'[t] /\ keyOf'[s] # NoKey => s = t
  /\ UNCHANGED <<jobs, receipts>>

Tell(s, j) == receipts' = receipts \cup {<<keyOf[s], s, j>>}

\* A new job for s, of which somebody is told or nobody.
Enqueue(s) ==
  /\ s \in stored
  /\ jobs' = Append(jobs, s)
  /\ UNCHANGED receipts \/ Tell(s, Len(jobs'))
  /\ UNCHANGED <<stored, keyOf, says>>

\* A retry is told the first job of its source.
Recall(s, j) ==
  /\ s \in stored /\ jobs[j] = s /\ \A i \in 1..(j - 1) : jobs[i] # s
  /\ Tell(s, j)
  /\ UNCHANGED <<stored, keyOf, says, jobs>>

Next ==
  \/ \E S \in SUBSET Source : Store(S)
  \/ \E s \in Source : Enqueue(s) \/ \E j \in 1..Len(jobs) : Recall(s, j)

Spec == Init /\ [][Next]_vars
=============================================================================
