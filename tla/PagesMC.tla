------------------------------- MODULE PagesMC -------------------------------
(***************************************************************************)
(* Instances of Pages and JobQueue for TLC, side by side: the tables of      *)
(* the wiki and those of the queue share no row, so a behaviour is one of   *)
(* the two at work and the other at rest.                                   *)
(***************************************************************************)
EXTENDS JobQueue, Pages, TLC

CONSTANTS
  Parts,      \* which of "pages", "duel" and "backlog" a run is about
  m1, m2, home, digest, team, insider, outsider,
  x1, oa      \* the worker and the tenant that are there in every part

VARIABLE part

\* One page that may cite everything.
BindAll == [p \in Page |-> Memory]
\* Every maintainer sees every page.
SeesAll == [a \in Actor |-> Page]
\* The outsider is not a member of the team that owns the team page.
SeesOwn == [a \in Actor |-> IF a = outsider THEN Page \ {team} ELSE Page]

Sym == Permutations(Memory)

\* All the workers fight over one job of one tenant ...
Duel == sent' <= 1
\* ... or one of them serves three jobs of two tenants, each once.
Backlog ==
  /\ \A w \in Worker \ {x1} : w \notin reading' /\ \A j \in JobId : phase'[w][j] = "idle"
  /\ \A j \in JobId : delivered'[j] <= 1 /\ requeued'[j] = 0

PartsInit ==
  /\ part \in Parts /\ Init /\ PagesInit
  /\ part # "pages" => pending = {}
  /\ part # "backlog" => org = [j \in JobId |-> oa]
PartsNext ==
  \/ part = "pages" /\ PagesNext /\ UNCHANGED <<vars, part>>
  \/ part = "duel" /\ Next /\ Duel /\ UNCHANGED <<pagesVars, part>>
  \/ part = "backlog" /\ Next /\ Backlog /\ UNCHANGED <<pagesVars, part>>
PartsSpec == PartsInit /\ [][PartsNext]_<<vars, pagesVars, part>>
=============================================================================
