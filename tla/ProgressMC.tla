------------------------------ MODULE ProgressMC ------------------------------
(***************************************************************************)
(* Whether work that was taken on is done: the queue under two workers, and *)
(* the pages under one.  The two share no state, so a behaviour is one of   *)
(* them at work and the other at rest in its initial state: there nothing   *)
(* of what fairness obliges is enabled, and the properties hold.            *)
(***************************************************************************)
EXTENDS JobQueue, Pages

VARIABLE part

\* A page may cite every memory, and every reviewer sees it.
BindAll == [p \in Page |-> Memory]
SeesAll == [a \in Actor |-> Page]

ProgressInit ==
  /\ part \in {"queue", "pages"} /\ Init /\ PagesInit
  /\ part = "queue" => pending = {}

ProgressNext ==
  \/ part = "queue" /\ Next /\ UNCHANGED <<pagesVars, part>>
  \/ part = "pages" /\ PagesNext /\ UNCHANGED <<vars, part>>

ProgressSpec ==
  /\ ProgressInit /\ [][ProgressNext]_<<vars, pagesVars, part>>
  /\ Fairness /\ PagesFairness
=============================================================================
