--------------------------------- MODULE Scores ---------------------------------
(***************************************************************************)
(* The scores the project is steered by: how well mentions were clustered,   *)
(* and how many gold facts an extraction matched.  Fractions are exact here. *)
(***************************************************************************)
EXTENDS Integers, FiniteSets, FiniteSetsExt, Functions

CONSTANTS Mention,      \* gold mentions
          ClusterId,    \* cluster ids, positive
          Fact, Output  \* gold facts and extracted memories, as numbers

ASSUME ScoresAssumption ==
  /\ IsFiniteSet(Mention) /\ ClusterId \subseteq Nat \ {0} /\ ClusterId # {}
  /\ IsFiniteSet(Fact) /\ Fact \subseteq Nat /\ IsFiniteSet(Output) /\ Output \subseteq Nat

Loose == 0              \* not clustered
MatchThreshold == 1     \* MATCH_THRESHOLD, in ranks of similarity

VARIABLES predicted, gold,   \* mention -> cluster
          alike              \* alike[fact][output]: rank of their similarity
scoreVars == <<predicted, gold, alike>>

\* One measurement at a time: the other is at these.
NoMention == predicted = [m \in Mention |-> Loose] /\ gold = [m \in Mention |-> CHOOSE c \in ClusterId : TRUE]
NothingAlike == alike = [f \in Fact |-> [o \in Output |-> 0]]
ScoresInit ==
  \/ predicted \in [Mention -> ClusterId \union {Loose}] /\ gold \in [Mention -> ClusterId] /\ NothingAlike
  \/ NoMention /\ alike \in [Fact -> [Output -> 0..(MatchThreshold + 1)]]

-----------------------------------------------------------------------------
\* core/metrics.rs.

Pairs == kSubset(2, Mention)
SameIn(c, p) == \E k \in ClusterId : \A m \in p : c[m] = k
TruePairs == {p \in Pairs : SameIn(predicted, p) /\ SameIn(gold, p)}
FalseMerges == {p \in Pairs : SameIn(predicted, p) /\ ~ SameIn(gold, p)}
Splits == {p \in Pairs : ~ SameIn(predicted, p) /\ SameIn(gold, p)}

Fraction(a, b) == IF b = 0 THEN <<1, 1>> ELSE <<a, b>>
PairwisePRF ==
  LET tp == Cardinality(TruePairs)
  IN  [precision |-> Fraction(tp, tp + Cardinality(FalseMerges)),
       recall |-> Fraction(tp, tp + Cardinality(Splits))]

\* The mentions put together with m, of which there are none when it is loose.
Members(c, m) == {n \in Mention : c[n] = c[m] /\ c[m] # Loose}
\* Twelfths: clusters of at most four.
Share(a, b) == (12 * a) \div b
OfMention(m) ==
  LET ps == Members(predicted, m)
      gs == Members(gold, m)
      both == Cardinality(ps \intersect gs)
  IN  IF ps = {} THEN [precision |-> 12, recall |-> Share(1, Cardinality(gs))]
      ELSE [precision |-> Share(both, Cardinality(ps)), recall |-> Share(both, Cardinality(gs))]
BCubed ==
  [precision |-> SumFunction([m \in Mention |-> OfMention(m).precision]),
   recall |-> SumFunction([m \in Mention |-> OfMention(m).recall])]

-----------------------------------------------------------------------------
\* greedy_match of extraction_profile.rs.

Likely == {p \in Fact \X Output : alike[p[1]][p[2]] >= MatchThreshold}
\* Most similar first, and of equals the first fact's first output.
Earlier(p, q) ==
  LET a == alike[p[1]][p[2]]
      b == alike[q[1]][q[2]]
  IN  a > b \/ (a = b /\ (p[1] < q[1] \/ (p[1] = q[1] /\ p[2] < q[2])))
Clash(p, q) == p[1] = q[1] \/ p[2] = q[2]
\* A pair is taken unless it clashes with one taken before it.
GreedyMatch ==
  CHOOSE taken \in SUBSET Likely :
    \A p \in Likely : p \in taken <=> ~ \E q \in taken : Earlier(q, p) /\ Clash(q, p)
Matchings == {M \in SUBSET Likely : \A p, q \in M : p # q => ~ Clash(p, q)}

-----------------------------------------------------------------------------
\* The two clustering scores agree on what matters: full precision is no false
\* merge and full recall no missed one, loose mentions included, so that neither
\* can call a corrupted graph perfect (metrics.rs: "unclustered prediction =
\* singleton" in one and "not same" in the other).
ScoresAgree ==
  LET full == 12 * Cardinality(Mention)
      pair == PairwisePRF
  IN  /\ BCubed.precision = full <=> FalseMerges = {}
      /\ BCubed.recall = full <=> Splits = {}
      /\ pair.precision[1] = pair.precision[2] <=> FalseMerges = {}
      /\ pair.recall[1] = pair.recall[2] <=> Splits = {}

\* Paraphrases of one fact do not count twice, and taking the likeliest pairs first
\* never costs more than half of what could be matched (greedy_match: "padding the
\* output with paraphrases of one fact cannot inflate recall").
MatchIsFair ==
  /\ GreedyMatch \in Matchings
  /\ \A M \in Matchings : Cardinality(M) <= 2 * Cardinality(GreedyMatch)
=============================================================================
