-------------------------------- MODULE Ledger --------------------------------
(***************************************************************************)
(* What the ledger of disputes promises, without requests, statements and   *)
(* row locks: a dispute is raised, and decided once, in one step; the step  *)
(* that retires a memory in favour of another takes with it disputes about  *)
(* the retired one, and leaves none of their questions unasked.             *)
(***************************************************************************)
CONSTANTS Memory, DisputeId

VARIABLES
  born,         \* memories there are
  deprecated,   \* memories with status deprecated
  supersededBy, \* supersededBy[m]: the memory m gave way to, m itself for none
  fallen,       \* memories that were ever deprecated
  pair,         \* pair[d]: the two memories of dispute d
  verdict       \* verdict[d]: none (no such dispute yet), open or the decision

vars == <<born, deprecated, supersededBy, fallen, pair, verdict>>

Sides(d)    == {pair[d][1], pair[d][2]}
Other(d, m) == IF m = pair[d][1] THEN pair[d][2] ELSE pair[d][1]
Open        == {d \in DisputeId : verdict[d] = "open"}
Superseded  == {m \in Memory : supersededBy[m] # m}

Init ==
  /\ born = {} /\ deprecated = {} /\ fallen = {}
  /\ supersededBy = [m \in Memory |-> m]
  /\ pair \in [DisputeId -> Memory \X Memory]
  /\ verdict = [d \in DisputeId |-> "none"]

\* The disputes N come into being, each between two memories that exist; the
\* others are about what they were about.
Posed(N) ==
  /\ \A d \in N : /\ verdict[d] = "none"
                  /\ pair'[d][1] # pair'[d][2] /\ Sides(d)' \subseteq born'
  /\ \A d \in DisputeId \ N : pair'[d] = pair[d]

\* New memories, and the disputes they give rise to.
Raise(N) ==
  /\ born \subseteq born'
  /\ Posed(N)
  /\ verdict' = [d \in DisputeId |-> IF d \in N THEN "open" ELSE verdict[d]]
  /\ UNCHANGED <<deprecated, supersededBy, fallen>>

Retire(m) ==
  /\ m \in born \ (deprecated \cup Superseded)
  /\ deprecated' = deprecated \cup {m}
  /\ fallen' = fallen \cup {m}
  /\ UNCHANGED <<born, supersededBy, pair, verdict>>

Restore(m) ==
  /\ m \in deprecated
  /\ deprecated' = deprecated \ {m}
  /\ UNCHANGED <<born, supersededBy, fallen, pair, verdict>>

Settle(d, v) ==
  /\ d \in Open
  /\ verdict' = [verdict EXCEPT ![d] = v]
  /\ UNCHANGED <<born, deprecated, supersededBy, fallen, pair>>

\* The question between w and c needs no dispute, or has one.
Answered(w, c) ==
  \/ c = w
  \/ c \in fallen \/ w \in fallen
  \/ \E e \in DisputeId : verdict[e] # "none" /\ Sides(e) = {w, c}

\* d is decided for w: its other side gives way to w, or did before, disputes M
\* about it are moot, and N asks again what they asked.
Supersede(d, w, M, N) ==
  LET l     == Other(d, w)
      asked == {Other(m, l) : m \in M}
  IN
  /\ d \in Open /\ w \in Sides(d)
  /\ \/ /\ supersededBy[l] = w
        /\ UNCHANGED <<deprecated, supersededBy, fallen>>
     \/ /\ l \notin Superseded /\ supersededBy[w] # l
        /\ supersededBy' = [supersededBy EXCEPT ![l] = w]
        /\ deprecated' = deprecated \cup {l}
        /\ fallen' = fallen \cup {l}
  /\ M \subseteq Open \ {d} /\ \A m \in M : l \in Sides(m)
  /\ Posed(N) /\ \A e \in N : \E c \in asked : Sides(e)' = {w, c}
  /\ verdict' = [e \in DisputeId |-> IF e = d THEN "superseded"
                                     ELSE IF e \in M THEN "moot"
                                     ELSE IF e \in N THEN "open"
                                     ELSE verdict[e]]
  /\ \A c \in asked : Answered(w, c)'
  /\ UNCHANGED born

Next ==
  \/ \E N \in SUBSET DisputeId : Raise(N)
  \/ \E m \in Memory : Retire(m) \/ Restore(m)
  \/ \E d \in DisputeId, v \in {"coexist", "dismissed"} : Settle(d, v)
  \/ \E d \in DisputeId, w \in Memory, M, N \in SUBSET DisputeId : Supersede(d, w, M, N)

Spec == Init /\ [][Next]_vars
=============================================================================
