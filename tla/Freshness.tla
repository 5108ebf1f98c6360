------------------------------- MODULE Freshness -------------------------------
(***************************************************************************)
(* What the compiled wiki promises its readers, without workers, work lists *)
(* and timestamps: a page is recomposed in one step, from the prose and the *)
(* memories as they are at that moment, or it stays dirty; whatever a page  *)
(* names marks it when it moves; a page is published first by a person.     *)
(***************************************************************************)
EXTENDS Naturals

CONSTANTS Memory, Page

VARIABLES
  stands,   \* memories that may be on a page
  exists,   \* pages there are
  dirty,    \* pages to be composed again
  prose,    \* prose[p]: version of p's pinned section
  inked,    \* inked[p]: the version in p's newest revision
  cites,    \* cites[p]: the memories that p's newest revision names
  current   \* current[p]: the revision readers see, 0 for none

vars == <<stands, exists, dirty, prose, inked, cites, current>>

Init ==
  /\ stands \subseteq Memory
  /\ exists = {} /\ dirty = {}
  /\ prose = [p \in Page |-> 0] /\ inked = [p \in Page |-> 0]
  /\ cites = [p \in Page |-> {}]
  /\ current = [p \in Page |-> 0]

Scaffold(p) ==
  /\ p \notin exists
  /\ exists' = exists \cup {p} /\ dirty' = dirty \cup {p}
  /\ UNCHANGED <<stands, prose, inked, cites, current>>

Edit(p) ==
  /\ p \in exists
  /\ prose' = [prose EXCEPT ![p] = @ + 1]
  /\ dirty' = dirty \cup {p}
  /\ UNCHANGED <<stands, exists, inked, cites, current>>

Age(p) ==
  /\ p \in exists
  /\ dirty' = dirty \cup {p}
  /\ UNCHANGED <<stands, exists, prose, inked, cites, current>>

\* The standing of M is decided: every page that names one of them is dirty.
Govern(M) ==
  /\ stands' \subseteq Memory /\ stands \ M = stands' \ M
  /\ dirty' = dirty \cup {p \in Page : cites[p] \cap M # {}}
  /\ UNCHANGED <<exists, prose, inked, cites, current>>

\* p shows the prose as it is, and of the memories it named those that stand.
UpToDate(p) == inked'[p] = prose[p] /\ cites'[p] \cap cites[p] \subseteq stands

\* Readers get revision r instead of an older one.
Publish(p, r) == r > current[p] /\ current' = [current EXCEPT ![p] = r]

\* p is composed from prose of version v, with the memories C.
Compose(p, v, C) ==
  /\ p \in dirty
  /\ inked' = [inked EXCEPT ![p] = v]
  /\ cites' = [cites EXCEPT ![p] = C]
  /\ dirty' = dirty \/ (dirty' = dirty \ {p} /\ UpToDate(p))
  /\ UNCHANGED current \/ (current[p] # 0 /\ Publish(p, current'[p]))
  /\ UNCHANGED <<stands, exists, prose>>

Sign(p) ==
  /\ Publish(p, current'[p])
  /\ UNCHANGED <<stands, exists, dirty, prose, inked, cites>>

Next ==
  \/ \E p \in Page : Scaffold(p) \/ Edit(p) \/ Age(p) \/ Sign(p)
  \/ \E M \in SUBSET Memory : Govern(M)
  \/ \E p \in Page : \E v \in 0..prose[p], C \in SUBSET Memory : Compose(p, v, C)

Spec == Init /\ [][Next]_vars
=============================================================================
