--------------------------------- MODULE Fusion ---------------------------------
(***************************************************************************)
(* Reciprocal rank fusion of the vector and the text candidate lists.  A     *)
(* score is a sum of weight / (RankConstant + rank), compared exactly as a   *)
(* fraction.                                                                 *)
(***************************************************************************)
EXTENDS Naturals, Sequences, FiniteSets, Functions

CONSTANTS Item, MaxList,   \* candidates, and the length of a list: CANDIDATES_PER_RETRIEVER
          Top,             \* FUSED_POOL
          RankConstant     \* RRF_K

\* 50 candidates a list, 30 of all kept, and a constant of 60.
ASSUME FusionAssumption == RankConstant \in Nat /\ MaxList \in Nat /\ MaxList <= RankConstant + 1 /\ Top \in Nat

VARIABLES lists, identifiers    \* the two lists, and whether the query is identifier-heavy
fusionVars == <<lists, identifiers>>

Lists == UNION {{s \in [1..n -> Item] : \A i, j \in 1..n : s[i] = s[j] => i = j} : n \in 0..MaxList}
FusionInit == lists \in Lists \X Lists /\ identifiers \in BOOLEAN
\* Nothing moves while a search fuses.
FusionSpec == FusionInit /\ [][UNCHANGED fusionVars]_fusionVars

Listed(x, l) == x \in Range(lists[l])
Rank(x, l) == CHOOSE i \in DOMAIN lists[l] : lists[l][i] = x

Weight(l) == IF identifiers /\ l = 2 THEN 2 ELSE 1

Term(x, l) == IF Listed(x, l) THEN <<Weight(l), RankConstant + Rank(x, l)>> ELSE <<0, 1>>
Plus(a, b) == <<a[1] * b[2] + b[1] * a[2], a[2] * b[2]>>
Above(a, b) == a[1] * b[2] > b[1] * a[2]

FusedScore(x) == Plus(Term(x, 1), Term(x, 2))

\* Ties break by first appearance, the vector list first.
FirstSeen(x) == IF Listed(x, 1) THEN Rank(x, 1) ELSE Len(lists[1]) + Rank(x, 2)
Leads(x, y) == \/ Above(FusedScore(x), FusedScore(y))
               \/ ~ Above(FusedScore(y), FusedScore(x)) /\ FirstSeen(x) < FirstSeen(y)

\* The place of each candidate in the sorted list: it stands behind all that lead it.
Found == Range(lists[1]) \union Range(lists[2])
Place == [x \in Found |-> 1 + Cardinality({y \in Found : Leads(y, x)})]
\* What truncation leaves of the list.
Fused == {x \in Found : Place[x] <= Top}

Ahead(x, y, l) == Listed(x, l) /\ (Listed(y, l) => Rank(x, l) < Rank(y, l))

\* One comes before the other, whatever the cut keeps of the two.
ComesFirst(x, y) == Place[x] < Place[y] /\ (y \in Fused => x \in Fused)

\* What every list that knows either of two candidates puts first comes first, and
\* is not cut away for the other.
AgreementWins ==
  \A x, y \in Found :
    (/\ x # y /\ \A l \in 1..2 : Listed(x, l) \/ Listed(y, l) => Ahead(x, y, l))
    => ComesFirst(x, y)

\* For an identifier-heavy query no candidate the vector list alone found leads one
\* that the text matched, nor costs it its place (engine: "exact lexical matches should
\* lead").
LiteralLeads ==
  identifiers =>
    \A x, y \in Found : Listed(x, 2) /\ ~ Listed(y, 2) => ComesFirst(x, y)
=============================================================================
