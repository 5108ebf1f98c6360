---------------------------- MODULE AlgorithmProofs ----------------------------
(***************************************************************************)
(* What the algorithms behind an answer make of any input: the scores of   *)
(* the evaluation, the firewall every composed page goes through, and the  *)
(* project a checkout is found by.  Each is built of folds; what a fold    *)
(* comes to is proved once, over the sets it may have seen so far.         *)
(***************************************************************************)
EXTENDS SurfaceMC, TLAPS, FiniteSetTheorems, FunctionTheorems, SequenceTheorems, WellFoundedInduction

\* Every nonempty set of numbers has a least.
LEMMA LeastOf ==
  ASSUME NEW S \in SUBSET Nat, S # {}
  PROVE  \E h \in S : \A i \in S : h <= i
<1> DEFINE T == {0..x : x \in S}
           R == StrictSubsetOrdering(Nat)
<1>1. T # {} /\ T \subseteq FiniteSubsetsOf(Nat)
  <2>1. \A x \in S : IsFiniteSet(0..x) /\ 0..x \subseteq Nat
    BY FS_Interval
  <2> QED
    BY <2>1 DEF FiniteSubsetsOf
<1>2. IsWellFoundedOn(R, FiniteSubsetsOf(Nat))
  BY FS_StrictSubsetOrderingWellFounded
<1> HIDE DEF T, R
<1>3. \E X \in T : \A Y \in T : ~ (<<Y, X>> \in R)
  BY <1>1, <1>2, WFMin
<1>4. PICK h \in S : \A i \in S : ~ (<<0..i, 0..h>> \in R)
  BY <1>3 DEF T
<1>5. ASSUME NEW i \in S, i < h PROVE FALSE
  <2>1. 0..i \subseteq 0..h /\ h \in 0..h /\ h \notin 0..i
    BY <1>5
  <2>2. 0..i \in SUBSET Nat /\ 0..h \in SUBSET Nat /\ 0..i # 0..h
    BY <2>1
  <2>3. <<0..i, 0..h>> \in R
    BY <2>1, <2>2 DEF R, StrictSubsetOrdering
  <2> QED
    BY <1>4, <2>3
<1> QED
  BY <1>5

-----------------------------------------------------------------------------
(* Folds. *)

\* Among some finite sets there is one that has none of them as a proper part.
LEMMA SmallestSet ==
  ASSUME NEW S, IsFiniteSet(S), NEW T \in SUBSET (SUBSET S), T # {}
  PROVE  \E X \in T : \A Y \in SUBSET X : Y # X => Y \notin T
<1> DEFINE R == StrictSubsetOrdering(S)
<1>1. T \subseteq FiniteSubsetsOf(S)
  BY FS_Subset DEF FiniteSubsetsOf
<1>2. IsWellFoundedOn(R, FiniteSubsetsOf(S))
  BY FS_StrictSubsetOrderingWellFounded
<1> HIDE DEF R
<1>3. PICK X \in T : \A Y \in T : ~ (<<Y, X>> \in R)
  BY <1>1, <1>2, WFMin
<1>4. \A Y \in SUBSET X : Y # X => Y \notin T
  BY <1>3 DEF R, StrictSubsetOrdering
<1> QED
  BY <1>4

\* A fold gives the empty set base, and another set the step g from what it gives
\* the set without its chosen element.  ClosedUnder: the relations of sets and values
\* that hold all such pairs; Given: the values that all of them relate with s.
ClosedUnder(S, V, base, choice, g) ==
  {P \in SUBSET ((SUBSET S) \X V) :
     /\ <<{}, base>> \in P
     /\ \A s \in SUBSET S, v \in V :
          s # {} /\ <<s \ {choice[s]}, v>> \in P => <<s, g[s, v]>> \in P}
Given(S, V, base, choice, g, s) ==
  {v \in V : \A P \in ClosedUnder(S, V, base, choice, g) : <<s, v>> \in P}

\* It gives every part of S one value.
LEMMA OneValue ==
  ASSUME NEW S, IsFiniteSet(S), NEW V, NEW base \in V,
         NEW choice, \A s \in SUBSET S : s # {} => choice[s] \in s,
         NEW g \in [(SUBSET S) \X V -> V], NEW s \in SUBSET S
  PROVE  \E v \in V : Given(S, V, base, choice, g, s) = {v}
<1> DEFINE Of(t) == Given(S, V, base, choice, g, t)
           Whole == ClosedUnder(S, V, base, choice, g)
           T == {t \in SUBSET S : ~ \E v \in V : Of(t) = {v}}
<1> SUFFICES ASSUME T # {} PROVE FALSE
  OBVIOUS
<1>1. PICK X \in T : \A Y \in SUBSET X : Y # X => Y \notin T
  BY SmallestSet, ZenonT(40)
<1>2. X \in SUBSET S
  OBVIOUS
<1>3. CASE X = {}
  <2>1. base \in Of(X)
    BY <1>3 DEF Given, ClosedUnder
  <2> DEFINE Q == {q \in (SUBSET S) \X V : q[1] = {} => q[2] = base}
  <2>2. Q \in Whole
    BY DEF ClosedUnder
  <2>3. \A v \in Of(X) : <<X, v>> \in Q
    BY <2>2 DEF Given
  <2>4. Of(X) = {base}
    BY <1>3, <2>1, <2>3
  <2> QED
    BY <2>4
<1>4. CASE X # {}
  <2> DEFINE x == choice[X]
  <2>1. x \in X
    BY <1>4
  <2>2. X \ {x} \in SUBSET X /\ X \ {x} # X
    BY <2>1
  <2>3. PICK v \in V : Of(X \ {x}) = {v}
    BY <1>1, <1>2, <2>2
  <2>4. g[X, v] \in V
    BY <1>2
  <2>5. g[X, v] \in Of(X)
    <3>1. \A P \in Whole : <<X \ {x}, v>> \in P
      BY <2>3 DEF Given
    <3>2. \A P \in Whole : <<X, g[X, v]>> \in P
      BY <1>2, <1>4, <3>1 DEF ClosedUnder
    <3> QED
      BY <2>4, <3>2 DEF Given
  <2>6. ASSUME NEW w \in Of(X) PROVE w = g[X, v]
    <3> DEFINE Q == {q \in (SUBSET S) \X V : (\A P \in Whole : q \in P) /\ (q[1] = X => q[2] = g[X, v])}
    <3>1. Q \in Whole
      <4>1. <<{}, base>> \in Q
        BY <1>4 DEF ClosedUnder
      <4>2. ASSUME NEW t \in SUBSET S, NEW u \in V, t # {}, <<t \ {choice[t]}, u>> \in Q
            PROVE  <<t, g[t, u]>> \in Q
        <5>1. \A P \in Whole : <<t \ {choice[t]}, u>> \in P
          BY <4>2
        <5>2. \A P \in Whole : <<t, g[t, u]>> \in P
          BY <4>2, <5>1 DEF ClosedUnder
        <5>3. ASSUME t = X PROVE g[t, u] = g[X, v]
          <6>1. u \in Of(X \ {x})
            BY <5>1, <5>3 DEF Given
          <6> QED
            BY <2>3, <5>3, <6>1
        <5> QED
          BY <5>2, <5>3
      <4>3. Q \in SUBSET ((SUBSET S) \X V)
        OBVIOUS
      <4> HIDE DEF Q
      <4> QED
        BY <4>1, <4>2, <4>3 DEF ClosedUnder
    <3>2. <<X, w>> \in Q
      BY <3>1 DEF Given
    <3> QED
      BY <3>2
  <2>7. Of(X) = {g[X, v]}
    BY <2>5, <2>6
  <2> HIDE DEF Of
  <2> QED
    BY <2>4, <2>7
<1> QED
  BY <1>3, <1>4

Foldable(S, V, base, choice, g) ==
  /\ IsFiniteSet(S) /\ base \in V /\ g \in [(SUBSET S) \X V -> V]
  /\ \A s \in SUBSET S : s # {} => choice[s] \in s
Solves(S, V, base, choice, g, it) ==
  /\ it \in [SUBSET S -> V] /\ it[{}] = base
  /\ \A s \in SUBSET S : s # {} => it[s] = g[s, it[s \ {choice[s]}]]

\* So there is a function that solves the equation of the fold.
LEMMA FoldExists ==
  ASSUME NEW S, NEW V, NEW base, NEW choice, NEW g, Foldable(S, V, base, choice, g)
  PROVE  \E it : Solves(S, V, base, choice, g, it)
<1> USE DEF Foldable
<1> DEFINE Of(t) == Given(S, V, base, choice, g, t)
           Whole == ClosedUnder(S, V, base, choice, g)
           it == [s \in SUBSET S |-> CHOOSE v \in V : Of(s) = {v}]
<1>1. \A s \in SUBSET S : it[s] \in V /\ Of(s) = {it[s]}
  BY OneValue
<1>2. Of({}) = {base}
  <2>1. base \in Of({})
    BY DEF Given, ClosedUnder
  <2> QED
    BY <1>1, <2>1
<1>3. ASSUME NEW s \in SUBSET S, s # {} PROVE it[s] = g[s, it[s \ {choice[s]}]]
  <2> DEFINE u == it[s \ {choice[s]}]
  <2>1. u \in V /\ u \in Of(s \ {choice[s]})
    BY <1>1
  <2>2. \A P \in Whole : <<s \ {choice[s]}, u>> \in P
    BY <2>1 DEF Given
  <2> HIDE DEF u
  <2>3. \A P \in Whole : <<s, g[s, u]>> \in P
    BY <1>3, <2>1, <2>2 DEF ClosedUnder
  <2>4. g[s, u] \in Of(s)
    BY <2>1, <2>3 DEF Given
  <2> HIDE DEF it, Of
  <2>5. it[s] = g[s, u]
    BY <1>1, <2>4
  <2> QED
    BY <2>5 DEF u
<1>4. it \in [SUBSET S -> V] /\ DOMAIN it = SUBSET S
  BY <1>1
<1>5. it[{}] = base
  BY <1>1, <1>2
<1> HIDE DEF it
<1> QED
  BY <1>3, <1>4, <1>5 DEF Solves

\* A sum over a finite set of numbers up to 12 is full when each of them is.
LEMMA FullSum ==
  ASSUME NEW S, IsFiniteSet(S), NEW f \in [S -> Int], \A x \in S : f[x] <= 12
  PROVE  SumFunction(f) = 12 * Cardinality(S) <=> \A x \in S : f[x] = 12
<1> DEFINE pick(s) == CHOOSE x \in s : TRUE
           choice == [s \in SUBSET S |-> pick(s)]
           g == [p \in (SUBSET S) \X Int |-> IF p[1] = {} THEN 0 ELSE f[pick(p[1])] + p[2]]
<1>1. \A s \in SUBSET S : s # {} => pick(s) \in s
  OBVIOUS
<1> HIDE DEF pick
<1>2. \A s \in SUBSET S : s # {} => choice[s] \in s
  BY <1>1
<1>3. g \in [(SUBSET S) \X Int -> Int]
  <2>1. ASSUME NEW p \in (SUBSET S) \X Int, p[1] # {} PROVE f[pick(p[1])] + p[2] \in Int
    <3>1. p[1] \in SUBSET S /\ p[2] \in Int
      OBVIOUS
    <3>2. pick(p[1]) \in S
      BY <1>1, <2>1, <3>1
    <3> QED
      BY <3>1, <3>2
  <2> QED
    BY <2>1
<1>4. Foldable(S, Int, 0, choice, g)
  <2> HIDE DEF g, choice
  <2> QED
    BY <1>2, <1>3 DEF Foldable
<1>5. PICK it : Solves(S, Int, 0, choice, g, it)
  BY <1>4, FoldExists
<1>6. it = [s \in SUBSET S |-> IF s = {} THEN 0 ELSE f[pick(s)] + it[s \ {pick(s)}]]
  <2>1. \A s \in SUBSET S : s \ {pick(s)} \in SUBSET S /\ it[s \ {pick(s)}] \in Int
    BY <1>5 DEF Solves
  <2>2. \A s \in SUBSET S : s # {} => g[s, it[s \ {choice[s]}]] = f[pick(s)] + it[s \ {pick(s)}]
    BY <2>1
  <2>3. \A s \in SUBSET S : it[s] = IF s = {} THEN 0 ELSE f[pick(s)] + it[s \ {pick(s)}]
    BY <1>5, <2>2 DEF Solves
  <2> QED
    BY <1>5, <2>3 DEF Solves
<1> DEFINE sum == CHOOSE h : h = [s \in SUBSET S |-> IF s = {} THEN 0 ELSE f[pick(s)] + h[s \ {pick(s)}]]
<1>7. sum = [s \in SUBSET S |-> IF s = {} THEN 0 ELSE f[pick(s)] + sum[s \ {pick(s)}]]
  BY <1>6
<1>8. SumFunction(f) = sum[S]
  BY DEF SumFunction, SumFunctionOnSet, FoldFunctionOnSet, MapThenFoldSet, pick
<1> HIDE DEF sum
<1> DEFINE Right(s) == /\ sum[s] \in Int /\ sum[s] <= 12 * Cardinality(s)
                       /\ sum[s] = 12 * Cardinality(s) <=> \A x \in s : f[x] = 12
           T == {s \in SUBSET S : ~ Right(s)}
<1>9. ASSUME T # {} PROVE FALSE
  <2>0. T \in SUBSET (SUBSET S)
    OBVIOUS
  <2>1. PICK X \in T : \A Y \in SUBSET X : Y # X => Y \notin T
    <3> HIDE DEF T
    <3> QED
      BY <1>9, <2>0, SmallestSet
  <2>2. X \in SUBSET S /\ IsFiniteSet(X) /\ ~ Right(X)
    BY FS_Subset
  <2>3. CASE X = {}
    BY <1>7, <2>2, <2>3, FS_EmptySet
  <2>4. CASE X # {}
    <3> DEFINE x == pick(X)
               Y == X \ {x}
    <3>1. x \in X /\ Y \in SUBSET X /\ Y # X /\ X = Y \cup {x}
      BY <1>1, <2>2, <2>4
    <3>2. Right(Y)
      BY <2>1, <2>2, <3>1
    <3>3. sum[X] = f[x] + sum[Y]
      BY <1>7, <2>2, <2>4
    <3>4. Cardinality(X) = Cardinality(Y) + 1 /\ Cardinality(Y) \in Nat
      <4>1. IsFiniteSet(Y) /\ x \notin Y
        BY <2>2, <3>1, FS_Subset
      <4> HIDE DEF x, Y
      <4> QED
        BY <3>1, <4>1, FS_AddElement, FS_CardinalityType
    <3>5. f[x] \in Int /\ f[x] <= 12
      BY <2>2, <3>1
    <3>6. (\A y \in X : f[y] = 12) <=> f[x] = 12 /\ \A y \in Y : f[y] = 12
      BY <3>1
    <3> HIDE DEF x, Y
    <3> DEFINE all == \A y \in Y : f[y] = 12
    <3>7. sum[Y] \in Int /\ sum[Y] <= 12 * Cardinality(Y) /\ (sum[Y] = 12 * Cardinality(Y) <=> all)
      BY <3>2
    <3>8. sum[X] \in Int /\ sum[X] <= 12 * Cardinality(X)
      BY <3>3, <3>4, <3>5, <3>7
    <3>9. sum[X] = 12 * Cardinality(X) <=> f[x] = 12 /\ sum[Y] = 12 * Cardinality(Y)
      BY <3>3, <3>4, <3>5, <3>7
    <3> QED
      BY <2>2, <3>6, <3>7, <3>8, <3>9
  <2> QED
    BY <2>3, <2>4
<1>10. Right(S)
  BY <1>9
<1> QED
  BY <1>8, <1>10

-----------------------------------------------------------------------------
(* The clustering scores. *)

ScoresTypeOK ==
  /\ predicted \in [Mention -> ClusterId \cup {Loose}] /\ gold \in [Mention -> ClusterId]
  /\ alike \in [Fact -> [Output -> Nat]]

\* A share is full when it is the whole.
LEMMA WholeShare ==
  ASSUME NEW a \in Nat, NEW b \in Nat, a <= b, b > 0
  PROVE  Share(a, b) \in Int /\ Share(a, b) <= 12 /\ (Share(a, b) = 12 <=> a = b)
<1> DEFINE q == (12 * a) \div b
<1>1. q \in Int /\ 12 * a \in Int
  OBVIOUS
<1>2. q * b <= 12 * a /\ 12 * a < (q + 1) * b
  OBVIOUS
<1> HIDE DEF q
<1>3. q <= 12
  <2> SUFFICES ASSUME q >= 13 PROVE FALSE
    BY <1>1
  <2>1. q * b >= 13 * b
    BY <1>1
  <2> QED
    BY <1>1, <1>2, <2>1
<1>4. a = b => q = 12
  <2> SUFFICES ASSUME a = b, q <= 11 PROVE FALSE
    BY <1>1, <1>3
  <2>1. (q + 1) * b <= 12 * b
    BY <1>1
  <2> QED
    BY <1>1, <1>2, <2>1
<1>5. q = 12 => a = b
  BY <1>1, <1>2
<1> QED
  BY <1>1, <1>3, <1>4, <1>5 DEF Share, q

\* A pair is two mentions.
LEMMA PairIsTwo ==
  /\ \A m, n \in Mention : m # n => {m, n} \in Pairs
  /\ \A p \in Pairs : \E m, n \in p : m # n /\ p = {m, n} /\ m \in Mention /\ n \in Mention
  /\ IsFiniteSet(Pairs)
<1>1. ASSUME NEW m \in Mention, NEW n \in Mention, m # n PROVE {m, n} \in Pairs
  <2>1. IsFiniteSet({m}) /\ Cardinality({m}) = 1
    BY FS_Singleton
  <2>2. {m, n} = {m} \cup {n} /\ n \notin {m}
    BY <1>1
  <2>3. Cardinality({m, n}) = 2
    BY <2>1, <2>2, FS_AddElement
  <2> QED
    BY <2>3 DEF Pairs, kSubset
<1>2. ASSUME NEW p \in Pairs
      PROVE  \E m, n \in p : m # n /\ p = {m, n} /\ m \in Mention /\ n \in Mention
  <2>1. p \in SUBSET Mention /\ Cardinality(p) = 2 /\ IsFiniteSet(p)
    BY FS_Subset, ScoresAssumption DEF Pairs, kSubset, ScoresAssumption
  <2>2. PICK m \in p : TRUE
    BY <2>1, FS_EmptySet
  <2>3. IsFiniteSet(p \ {m}) /\ Cardinality(p \ {m}) = 1
    BY <2>1, FS_RemoveElement
  <2>4. PICK n : p \ {m} = {n}
    BY <2>3, FS_Singleton
  <2> QED
    BY <2>1, <2>4
<1>3. IsFiniteSet(Pairs)
  <2>1. Pairs \in SUBSET (SUBSET Mention)
    BY DEF Pairs, kSubset
  <2> QED
    BY <2>1, FS_SUBSET, FS_Subset, ScoresAssumption DEF ScoresAssumption
<1> QED
  BY <1>1, <1>2, <1>3

\* What a false merge and a missed one are, mention by mention.
LEMMA MergesAndSplits ==
  ASSUME ScoresTypeOK
  PROVE  /\ FalseMerges = {} <=> \A m, n \in Mention :
              predicted[m] # Loose /\ predicted[n] = predicted[m] => gold[n] = gold[m]
         /\ Splits = {} <=> \A m, n \in Mention :
              m # n /\ gold[n] = gold[m] => predicted[m] # Loose /\ predicted[n] = predicted[m]
<1>1. /\ \A m, n \in Mention : SameIn(predicted, {m, n}) <=> predicted[m] # Loose /\ predicted[n] = predicted[m]
      /\ \A m, n \in Mention : SameIn(gold, {m, n}) <=> gold[n] = gold[m]
  BY ScoresAssumption DEF SameIn, ScoresTypeOK, ScoresAssumption, Loose
<1>2. FalseMerges = {} <=> \A m, n \in Mention :
        predicted[m] # Loose /\ predicted[n] = predicted[m] => gold[n] = gold[m]
  <2>1. ASSUME FalseMerges = {}, NEW m \in Mention, NEW n \in Mention,
               predicted[m] # Loose /\ predicted[n] = predicted[m]
        PROVE  gold[n] = gold[m]
    <3>1. m # n => {m, n} \notin FalseMerges /\ {m, n} \in Pairs
      BY <2>1, PairIsTwo
    <3> QED
      BY <1>1, <2>1, <3>1 DEF FalseMerges
  <2>2. ASSUME NEW p \in FalseMerges
        PROVE  \E m, n \in Mention : predicted[m] # Loose /\ predicted[n] = predicted[m] /\ gold[n] # gold[m]
    <3>1. PICK m, n \in p : m # n /\ p = {m, n} /\ m \in Mention /\ n \in Mention
      BY PairIsTwo DEF FalseMerges
    <3> QED
      BY <1>1, <3>1 DEF FalseMerges
  <2> QED
    BY <2>1, <2>2
<1>3. Splits = {} <=> \A m, n \in Mention :
        m # n /\ gold[n] = gold[m] => predicted[m] # Loose /\ predicted[n] = predicted[m]
  <2>1. ASSUME Splits = {}, NEW m \in Mention, NEW n \in Mention, m # n /\ gold[n] = gold[m]
        PROVE  predicted[m] # Loose /\ predicted[n] = predicted[m]
    <3>1. {m, n} \notin Splits /\ {m, n} \in Pairs
      BY <2>1, PairIsTwo
    <3> QED
      BY <1>1, <2>1, <3>1 DEF Splits
  <2>2. ASSUME NEW p \in Splits
        PROVE  \E m, n \in Mention : /\ m # n /\ gold[n] = gold[m]
                                     /\ ~ (predicted[m] # Loose /\ predicted[n] = predicted[m])
    <3>1. PICK m, n \in p : m # n /\ p = {m, n} /\ m \in Mention /\ n \in Mention
      BY PairIsTwo DEF Splits
    <3> QED
      BY <1>1, <3>1 DEF Splits
  <2> QED
    BY <2>1, <2>2
<1> QED
  BY <1>2, <1>3

\* A fraction of what is right and what is wrong is one when nothing is wrong.
LEMMA FullFraction ==
  ASSUME NEW a \in Nat, NEW b \in Nat
  PROVE  Fraction(a, a + b)[1] = Fraction(a, a + b)[2] <=> b = 0
  BY DEF Fraction

\* A mention's score is full when its cluster has nothing of another's, or all of its own.
LEMMA MentionScore ==
  ASSUME ScoresTypeOK, NEW m \in Mention
  PROVE  LET ps == Members(predicted, m)
             gs == Members(gold, m)
             of == OfMention(m)
         IN  /\ of.precision \in Int /\ of.precision <= 12
             /\ of.precision = 12 <=> ps \subseteq gs
             /\ of.recall \in Int /\ of.recall <= 12
             /\ of.recall = 12 <=> IF ps = {} THEN gs = {m} ELSE gs \subseteq ps
<1> DEFINE ps == Members(predicted, m)
           gs == Members(gold, m)
           both == ps \cap gs
           of == OfMention(m)
<1>1. ps \subseteq Mention /\ gs \subseteq Mention /\ m \in gs
  BY ScoresAssumption DEF Members, ScoresTypeOK, ScoresAssumption, Loose
<1>2. IF ps = {} THEN of = [precision |-> 12, recall |-> Share(1, Cardinality(gs))]
      ELSE of = [precision |-> Share(Cardinality(both), Cardinality(ps)),
                 recall |-> Share(Cardinality(both), Cardinality(gs))]
  BY DEF OfMention
<1> HIDE DEF ps, gs, of
<1>3. IsFiniteSet(ps) /\ IsFiniteSet(gs) /\ IsFiniteSet(both)
  BY <1>1, FS_Subset, ScoresAssumption DEF ScoresAssumption
<1>4. /\ Cardinality(ps) \in Nat /\ Cardinality(gs) \in Nat /\ Cardinality(both) \in Nat
      /\ Cardinality(gs) > 0 /\ (ps # {} => Cardinality(ps) > 0)
  BY <1>1, <1>3, FS_CardinalityType, FS_EmptySet
<1>5. /\ Cardinality(both) <= Cardinality(ps) /\ (Cardinality(both) = Cardinality(ps) <=> ps \subseteq gs)
      /\ Cardinality(both) <= Cardinality(gs) /\ (Cardinality(both) = Cardinality(gs) <=> gs \subseteq ps)
  <2>1. both \in SUBSET ps /\ both \in SUBSET gs
    OBVIOUS
  <2>2. Cardinality(both) <= Cardinality(ps) /\ (Cardinality(ps) = Cardinality(both) => ps = both)
    BY <1>3, <2>1, FS_Subset
  <2>3. Cardinality(both) <= Cardinality(gs) /\ (Cardinality(gs) = Cardinality(both) => gs = both)
    BY <1>3, <2>1, FS_Subset
  <2>4. (ps \subseteq gs => both = ps) /\ (gs \subseteq ps => both = gs)
    OBVIOUS
  <2> QED
    BY <2>1, <2>2, <2>3, <2>4
<1>6. Cardinality(gs) = 1 <=> gs = {m}
  BY <1>1, <1>3, FS_Singleton
<1> HIDE DEF both
<1>7. CASE ps = {}
  <2>1. of.precision = 12 /\ of.recall = Share(1, Cardinality(gs))
    BY <1>2, <1>7
  <2>2. /\ Share(1, Cardinality(gs)) \in Int /\ Share(1, Cardinality(gs)) <= 12
        /\ Share(1, Cardinality(gs)) = 12 <=> Cardinality(gs) = 1
    BY <1>4, WholeShare
  <2> QED
    BY <1>6, <1>7, <2>1, <2>2 DEF ps, gs, of
<1>8. CASE ps # {}
  <2>1. /\ of.precision = Share(Cardinality(both), Cardinality(ps))
        /\ of.recall = Share(Cardinality(both), Cardinality(gs))
    BY <1>2, <1>8
  <2>2. /\ of.precision \in Int /\ of.precision <= 12
        /\ of.precision = 12 <=> Cardinality(both) = Cardinality(ps)
    BY <1>4, <1>5, <1>8, <2>1, WholeShare
  <2>3. /\ of.recall \in Int /\ of.recall <= 12
        /\ of.recall = 12 <=> Cardinality(both) = Cardinality(gs)
    BY <1>4, <1>5, <2>1, WholeShare
  <2> QED
    BY <1>5, <1>8, <2>2, <2>3 DEF ps, gs, of
<1> QED
  BY <1>7, <1>8

LEMMA ScoresDoAgree == ScoresTypeOK => ScoresAgree
<1> SUFFICES ASSUME ScoresTypeOK PROVE ScoresAgree
  OBVIOUS
<1> DEFINE full == 12 * Cardinality(Mention)
           pf == [m \in Mention |-> OfMention(m).precision]
           rf == [m \in Mention |-> OfMention(m).recall]
<1>1. /\ pf \in [Mention -> Int] /\ \A m \in Mention : pf[m] <= 12
      /\ rf \in [Mention -> Int] /\ \A m \in Mention : rf[m] <= 12
  BY MentionScore
<1>2. /\ \A m \in Mention : pf[m] = 12 <=> Members(predicted, m) \subseteq Members(gold, m)
      /\ \A m \in Mention : rf[m] = 12 <=> IF Members(predicted, m) = {} THEN Members(gold, m) = {m}
                                             ELSE Members(gold, m) \subseteq Members(predicted, m)
  BY MentionScore
<1> HIDE DEF pf, rf
<1>3. /\ SumFunction(pf) = full <=> \A m \in Mention : pf[m] = 12
      /\ SumFunction(rf) = full <=> \A m \in Mention : rf[m] = 12
  BY <1>1, FullSum, ScoresAssumption DEF ScoresAssumption
<1>4. BCubed.precision = SumFunction(pf) /\ BCubed.recall = SumFunction(rf)
  BY DEF BCubed, pf, rf
<1>5. \A m \in Mention : gold[m] # Loose /\ (predicted[m] # Loose => m \in Members(predicted, m))
  BY ScoresAssumption DEF ScoresTypeOK, ScoresAssumption, Loose, Members
<1>6. (\A m \in Mention : pf[m] = 12) <=> FalseMerges = {}
  BY <1>2, <1>5, MergesAndSplits DEF Members
<1>7. (\A m \in Mention : rf[m] = 12) <=> Splits = {}
  <2>1. ASSUME \A m \in Mention : rf[m] = 12, NEW m \in Mention, NEW n \in Mention, m # n, gold[n] = gold[m]
        PROVE  predicted[m] # Loose /\ predicted[n] = predicted[m]
    <3>1. n \in Members(gold, m)
      BY <1>5, <2>1 DEF Members
    <3> QED
      BY <1>2, <2>1, <3>1 DEF Members
  <2>2. ASSUME Splits = {}, NEW m \in Mention
        PROVE  rf[m] = 12
    <3>1. \A n \in Members(gold, m) : n # m => predicted[m] # Loose /\ predicted[n] = predicted[m]
      BY <2>2, MergesAndSplits DEF Members
    <3>2. m \in Members(gold, m)
      BY <1>5 DEF Members
    <3>3. CASE Members(predicted, m) = {}
      BY <1>2, <1>5, <3>1, <3>2, <3>3
    <3>4. CASE Members(predicted, m) # {}
      BY <1>2, <3>1, <3>4 DEF Members
    <3> QED
      BY <3>3, <3>4
  <2> QED
    BY <2>1, <2>2, MergesAndSplits
<1>8. /\ Cardinality(TruePairs) \in Nat
      /\ Cardinality(FalseMerges) \in Nat /\ (Cardinality(FalseMerges) = 0 <=> FalseMerges = {})
      /\ Cardinality(Splits) \in Nat /\ (Cardinality(Splits) = 0 <=> Splits = {})
  <2>1. IsFiniteSet(TruePairs) /\ IsFiniteSet(FalseMerges) /\ IsFiniteSet(Splits)
    BY PairIsTwo, FS_Subset DEF TruePairs, FalseMerges, Splits
  <2> QED
    BY <2>1, FS_CardinalityType, FS_EmptySet
<1>9. /\ PairwisePRF.precision[1] = PairwisePRF.precision[2] <=> FalseMerges = {}
      /\ PairwisePRF.recall[1] = PairwisePRF.recall[2] <=> Splits = {}
  BY <1>8, FullFraction DEF PairwisePRF
<1> QED
  BY <1>3, <1>4, <1>6, <1>7, <1>9 DEF ScoresAgree

-----------------------------------------------------------------------------
(* The greedy match. *)

\* Pairs stand in one order.
LEMMA EarlierIsOrder ==
  ASSUME ScoresTypeOK
  PROVE  /\ Likely \subseteq Fact \X Output /\ IsFiniteSet(Likely)
         /\ \A p, q \in Likely : /\ p # q => Earlier(p, q) \/ Earlier(q, p)
                                 /\ Earlier(p, q) => ~ Earlier(q, p)
         /\ \A p, q, r \in Likely : Earlier(p, q) /\ Earlier(q, r) => Earlier(p, r)
         /\ \A p, q \in Likely : Clash(p, q) <=> Clash(q, p)
<1>1. Likely \subseteq Fact \X Output
  BY DEF Likely
<1>2. IsFiniteSet(Likely)
  BY <1>1, FS_Product, FS_Subset, ScoresAssumption DEF ScoresAssumption
<1>3. \A p \in Likely : p[1] \in Nat /\ p[2] \in Nat /\ alike[p[1]][p[2]] \in Nat /\ p = <<p[1], p[2]>>
  <2> SUFFICES ASSUME NEW p \in Likely
               PROVE  p[1] \in Nat /\ p[2] \in Nat /\ alike[p[1]][p[2]] \in Nat /\ p = <<p[1], p[2]>>
    OBVIOUS
  <2>1. p[1] \in Fact /\ p[2] \in Output /\ p = <<p[1], p[2]>>
    BY <1>1
  <2> QED
    BY <2>1, ScoresAssumption DEF ScoresAssumption, ScoresTypeOK
<1>4. ASSUME NEW p \in Likely, NEW q \in Likely
      PROVE  (p # q => Earlier(p, q) \/ Earlier(q, p)) /\ (Earlier(p, q) => ~ Earlier(q, p))
  <2>1. p # q => p[1] # q[1] \/ p[2] # q[2]
    BY <1>3
  <2> QED
    BY <1>3, <2>1 DEF Earlier
<1>5. ASSUME NEW p \in Likely, NEW q \in Likely, NEW r \in Likely, Earlier(p, q), Earlier(q, r)
      PROVE  Earlier(p, r)
  BY <1>3, <1>5 DEF Earlier
<1> QED
  BY <1>1, <1>2, <1>4, <1>5 DEF Clash

\* Of some pairs one is the last.
LEMMA LastPair ==
  ASSUME ScoresTypeOK, NEW S \in SUBSET Likely, S # {}
  PROVE  \E x \in S : \A y \in S \ {x} : Earlier(y, x)
<1> DEFINE Ends(X) == \E x \in X : \A y \in X \ {x} : Earlier(y, x)
           T == {X \in SUBSET Likely : X # {} /\ ~ Ends(X)}
<1> SUFFICES ASSUME T # {} PROVE FALSE
  OBVIOUS
<1>1. PICK X \in T : \A Y \in SUBSET X : Y # X => Y \notin T
  BY SmallestSet, EarlierIsOrder, ZenonT(40)
<1>2. PICK a \in X : TRUE
  OBVIOUS
<1>3. CASE X = {a}
  BY <1>3
<1>4. CASE X # {a}
  <2> DEFINE Y == X \ {a}
  <2>1. Y \in SUBSET X /\ Y # X /\ Y # {}
    BY <1>2, <1>4
  <2>2. Y \notin T /\ Y \in SUBSET Likely
    BY <1>1, <2>1
  <2>3. PICK b \in Y : \A y \in Y \ {b} : Earlier(y, b)
    BY <2>1, <2>2
  <2>4. a \in Likely /\ b \in Likely /\ a # b
    OBVIOUS
  <2>5. CASE Earlier(a, b)
    <3>1. \A y \in X \ {b} : Earlier(y, b)
      BY <2>3, <2>5
    <3> QED
      BY <3>1
  <2>6. CASE Earlier(b, a)
    <3>1. \A y \in X \ {a} : Earlier(y, a)
      BY <2>3, <2>4, <2>6, EarlierIsOrder
    <3> QED
      BY <3>1
  <2> QED
    BY <2>4, <2>5, <2>6, EarlierIsOrder
<1> QED
  BY <1>3, <1>4

\* So there is a match in which each pair is taken that clashes with none before it.
Greedy(S, M) == \A p \in S : p \in M <=> ~ \E q \in M : Earlier(q, p) /\ Clash(q, p)
LEMMA GreedyExists ==
  ASSUME ScoresTypeOK
  PROVE  \E M \in SUBSET Likely : Greedy(Likely, M)
<1> DEFINE T == {X \in SUBSET Likely : ~ \E M \in SUBSET X : Greedy(X, M)}
<1> SUFFICES ASSUME T # {} PROVE FALSE
  OBVIOUS
<1>0. T \in SUBSET (SUBSET Likely)
  OBVIOUS
<1>1. PICK X \in T : \A Y \in SUBSET X : Y # X => Y \notin T
  <2> HIDE DEF T
  <2> QED
    BY <1>0, SmallestSet, EarlierIsOrder
<1>2. CASE X = {}
  BY <1>2 DEF Greedy
<1>3. CASE X # {}
  <2>1. PICK x \in X : \A y \in X \ {x} : Earlier(y, x)
    BY <1>3, LastPair
  <2> DEFINE Y == X \ {x}
  <2>2. Y \in SUBSET Likely /\ Y \in SUBSET X /\ Y # X
    OBVIOUS
  <2>3. PICK M \in SUBSET Y : Greedy(Y, M)
    BY <1>1, <2>2
  <2>4. \A y \in Y : ~ Earlier(x, y)
    BY <2>1, EarlierIsOrder
  <2>5. ~ Earlier(x, x)
    BY EarlierIsOrder
  <2>6. CASE \E q \in M : Earlier(q, x) /\ Clash(q, x)
    <3>1. Greedy(X, M)
      BY <2>3, <2>6 DEF Greedy
    <3> QED
      BY <3>1
  <2>7. CASE ~ \E q \in M : Earlier(q, x) /\ Clash(q, x)
    <3>1. Greedy(X, M \cup {x})
      BY <2>3, <2>4, <2>5, <2>7 DEF Greedy
    <3> QED
      BY <3>1
  <2> QED
    BY <2>6, <2>7
<1> QED
  BY <1>2, <1>3

\* Nobody is matched twice, and each pair of another matching shares its fact or its
\* output with one that is taken, each of which so answers for at most two.
LEMMA MatchDoesFair == ScoresTypeOK => MatchIsFair
<1> SUFFICES ASSUME ScoresTypeOK PROVE MatchIsFair
  OBVIOUS
<1> DEFINE G == GreedyMatch
<1>1. G \in SUBSET Likely /\ Greedy(Likely, G)
  BY GreedyExists DEF GreedyMatch, Greedy
<1> HIDE DEF G
<1>2. \A p, q \in G : p # q => ~ Clash(p, q)
  BY <1>1, EarlierIsOrder DEF Greedy
<1>3. ASSUME NEW M \in Matchings PROVE Cardinality(M) <= 2 * Cardinality(G)
  <2> DEFINE A == {m \in M : \E g \in G : g[1] = m[1]}
             B == {m \in M : \E g \in G : g[2] = m[2]}
             a == [m \in A |-> CHOOSE g \in G : g[1] = m[1]]
             b == [m \in B |-> CHOOSE g \in G : g[2] = m[2]]
  <2>1. M \in SUBSET Likely /\ \A p, q \in M : p # q => p[1] # q[1] /\ p[2] # q[2]
    BY DEF Matchings, Clash
  <2>2. M = A \cup B
    <3> SUFFICES ASSUME NEW m \in M PROVE \E g \in G : Clash(g, m)
      BY DEF Clash
    <3>1. CASE m \in G
      BY <3>1 DEF Clash
    <3>2. CASE m \notin G
      BY <1>1, <2>1, <3>2 DEF Greedy
    <3> QED
      BY <3>1, <3>2
  <2>3. IsFiniteSet(G) /\ IsFiniteSet(A) /\ IsFiniteSet(B)
    BY <1>1, <2>1, EarlierIsOrder, FS_Subset
  <2>4. a \in Injection(A, G)
    <3>1. \A m \in A : a[m] \in G /\ a[m][1] = m[1]
      OBVIOUS
    <3>2. \A m, n \in A : a[m] = a[n] => m = n
      BY <2>1, <3>1
    <3> HIDE DEF a
    <3> QED
      BY <3>1, <3>2 DEF Injection, IsInjective, a
  <2>5. b \in Injection(B, G)
    <3>1. \A m \in B : b[m] \in G /\ b[m][2] = m[2]
      OBVIOUS
    <3>2. \A m, n \in B : b[m] = b[n] => m = n
      BY <2>1, <3>1
    <3> QED
      BY <3>1, <3>2 DEF Injection, IsInjective
  <2> HIDE DEF A, B, a, b
  <2>6. Cardinality(A) <= Cardinality(G) /\ Cardinality(B) <= Cardinality(G)
    BY <2>3, <2>4, <2>5, FS_Injection
  <2>7. /\ Cardinality(A \cup B) = Cardinality(A) + Cardinality(B) - Cardinality(A \cap B)
        /\ IsFiniteSet(A \cap B)
    <3>1. A \cap B \in SUBSET A
      OBVIOUS
    <3> QED
      BY <2>3, <3>1, FS_Union, FS_Subset
  <2>8. /\ Cardinality(A) \in Nat /\ Cardinality(B) \in Nat /\ Cardinality(A \cap B) \in Nat
        /\ Cardinality(G) \in Nat
    BY <2>3, <2>7, FS_CardinalityType
  <2> QED
    BY <2>2, <2>6, <2>7, <2>8
<1> QED
  BY <1>1, <1>2, <1>3 DEF MatchIsFair, Matchings, G

-----------------------------------------------------------------------------
(* Folds from the left. *)

\* What holds of 0, and of each number with the one before it, holds up to n.
LEMMA UpTo ==
  ASSUME NEW n \in Nat, NEW P, 0 \in P, \A i \in 1..n : i - 1 \in P => i \in P
  PROVE  \A i \in 0..n : i \in P
<1> DEFINE S == {i \in 0..n : i \notin P}
<1>1. ASSUME S # {} PROVE FALSE
  <2>1. S \in SUBSET Nat
    OBVIOUS
  <2>2. PICK h \in S : \A i \in S : h <= i
    <3> HIDE DEF S
    <3> QED
      BY <1>1, <2>1, LeastOf
  <2>3. h \in 1..n /\ h - 1 \in 0..n /\ ~ (h <= h - 1)
    OBVIOUS
  <2>4. h - 1 \in P
    BY <2>2, <2>3
  <2> QED
    BY <2>3, <2>4
<1> QED
  BY <1>1

\* The greatest of some numbers up to n is one of them.
LEMMA GreatestOf ==
  ASSUME NEW n \in Nat, NEW s \in SUBSET (1..n), s # {}
  PROVE  Max(s) \in s /\ \A y \in s : Max(s) >= y
<1> DEFINE S == {n - x : x \in s}
<1>1. S \in SUBSET Nat /\ S # {}
  <2>1. \A x \in s : n - x \in Nat
    OBVIOUS
  <2> QED
    BY <2>1
<1>2. PICK h \in S : \A i \in S : h <= i
  <2> HIDE DEF S
  <2> QED
    BY <1>1, LeastOf
<1>3. PICK x \in s : h = n - x
  OBVIOUS
<1>4. \A y \in s : x >= y
  <2> TAKE y \in s
  <2>1. n - x <= n - y
    BY <1>2, <1>3
  <2>2. x \in 1..n /\ y \in 1..n
    OBVIOUS
  <2> QED
    BY <2>1, <2>2
<1> QED
  BY <1>4 DEF Max

LEMMA GreatestUpTo ==
  ASSUME NEW i \in Nat, i > 0
  PROVE  Max(1..i) = i /\ (1..i) \ {i} = 1..(i - 1)
<1>1. Max(1..i) \in 1..i /\ Max(1..i) >= i
  <2>1. i \in 1..i /\ 1..i \in SUBSET (1..i) /\ 1..i # {}
    OBVIOUS
  <2> QED
    BY <2>1, GreatestOf
<1> QED
  BY <1>1

\* A fold of n from the left starts from base and steps with h.
FromLeft(n, V, base, h) == n \in Nat /\ base \in V /\ h \in [V \X (1..n) -> V]
SolvesLeft(n, V, base, h, it) ==
  /\ it \in [SUBSET (1..n) -> V]
  /\ \A s \in SUBSET (1..n) : it[s] = IF s = {} THEN base ELSE h[<<it[s \ {Max(s)}], Max(s)>>]
Goes(n, V, base, h, r) ==
  r \in [0..n -> V] /\ r[0] = base /\ \A i \in 1..n : r[i] = h[<<r[i - 1], i>>]

\* It has a value for each set of places ...
LEMMA LeftFold ==
  ASSUME NEW n, NEW V, NEW base, NEW h, FromLeft(n, V, base, h)
  PROVE  \E it : SolvesLeft(n, V, base, h, it)
<1> USE DEF FromLeft
<1> DEFINE S == 1..n
           choice == [s \in SUBSET S |-> Max(s)]
           g == [p \in (SUBSET S) \X V |-> IF p[1] = {} THEN base ELSE h[<<p[2], Max(p[1])>>]]
<1>1. \A s \in SUBSET S : s # {} => choice[s] \in s
  BY GreatestOf
<1>2. g \in [(SUBSET S) \X V -> V]
  <2>1. ASSUME NEW p \in (SUBSET S) \X V, p[1] # {} PROVE h[<<p[2], Max(p[1])>>] \in V
    <3>1. p[1] \in SUBSET S /\ p[2] \in V /\ Max(p[1]) \in 1..n
      BY <2>1, GreatestOf
    <3> QED
      BY <3>1
  <2> QED
    BY <2>1
<1>3. Foldable(S, V, base, choice, g)
  <2>1. IsFiniteSet(S)
    BY FS_Interval
  <2> HIDE DEF g, choice, S
  <2> QED
    BY <1>1, <1>2, <2>1 DEF Foldable
<1>4. PICK it : Solves(S, V, base, choice, g, it)
  <2> HIDE DEF g, choice, S
  <2> QED
    BY <1>3, FoldExists
<1>5. it \in [SUBSET S -> V] /\ it[{}] = base
  BY <1>4 DEF Solves
<1>6. ASSUME NEW s \in SUBSET S, s # {} PROVE it[s] = h[<<it[s \ {Max(s)}], Max(s)>>]
  <2>1. it[s] = g[s, it[s \ {choice[s]}]]
    <3> HIDE DEF g, choice, S
    <3> QED
      BY <1>4, <1>6 DEF Solves
  <2>2. choice[s] = Max(s) /\ it[s \ {Max(s)}] \in V
    BY <1>5
  <2> QED
    BY <1>6, <2>1, <2>2
<1> QED
  BY <1>5, <1>6 DEF SolvesLeft

\* ... and goes through one value after the other.
LEMMA FoldClimbs ==
  ASSUME NEW n, NEW V, NEW base, NEW h, FromLeft(n, V, base, h), NEW f, f[{}] = base,
         \A i \in 1..n : f[1..(i - 1)] \in V => f[1..i] = h[<<f[1..(i - 1)], i>>]
  PROVE  \E r : Goes(n, V, base, h, r) /\ r[n] = f[1..n]
<1> USE DEF FromLeft
<1> DEFINE P == {i \in 0..n : f[1..i] \in V}
           r == [i \in 0..n |-> f[1..i]]
<1>1. 1..0 = {}
  OBVIOUS
<1>2. 0 \in P
  BY <1>1
<1>3. \A i \in 1..n : i - 1 \in P => i \in P
  <2> SUFFICES ASSUME NEW i \in 1..n, f[1..(i - 1)] \in V PROVE i \in P
    OBVIOUS
  <2>1. <<f[1..(i - 1)], i>> \in V \X (1..n) /\ i \in 0..n
    OBVIOUS
  <2>2. h[<<f[1..(i - 1)], i>>] \in V
    BY <2>1
  <2> QED
    BY <2>1, <2>2
<1>4. \A i \in 0..n : i \in P
  <2> HIDE DEF P
  <2> QED
    BY <1>2, <1>3, UpTo
<1>5. r \in [0..n -> V]
  BY <1>4
<1>6. r[0] = base /\ (\A i \in 1..n : r[i] = h[<<r[i - 1], i>>]) /\ r[n] = f[1..n]
  BY <1>1, <1>4
<1> HIDE DEF r
<1> QED
  BY <1>5, <1>6 DEF Goes

-----------------------------------------------------------------------------
(* Texts taken apart. *)

Parts(T) == Seq(Seq(T)) \ {<< >>}

LEMMA SplitKeeps ==
  ASSUME NEW T, NEW ps \in Parts(T), NEW t \in T, NEW mark
  PROVE  Split(ps, t, mark) \in Parts(T)
<1>1. ps \in Seq(Seq(T)) /\ Len(ps) \in 1..Len(ps) /\ ps[Len(ps)] \in Seq(T)
  <2>1. ps \in Seq(Seq(T)) /\ ps # << >>
    BY DEF Parts
  <2>2. Len(ps) \in Nat /\ Len(ps) # 0
    BY <2>1, EmptySeq, LenProperties
  <2> QED
    BY <2>1, <2>2, ElementOfSeq
<1>2. CASE t = mark
  <2>1. << >> \in Seq(T)
    OBVIOUS
  <2>2. Append(ps, << >>) \in Seq(Seq(T)) /\ Append(ps, << >>) # << >>
    BY <1>1, <2>1, AppendProperties
  <2> QED
    BY <1>2, <2>2 DEF Split, Parts
<1>3. CASE t # mark
  <2> DEFINE e == Append(ps[Len(ps)], t)
  <2>1. e \in Seq(T)
    BY <1>1
  <2>2. [ps EXCEPT ![Len(ps)] = e] \in Seq(Seq(T)) /\ Len([ps EXCEPT ![Len(ps)] = e]) = Len(ps)
    <3> HIDE DEF e
    <3> QED
      BY <1>1, <2>1, ExceptSeq
  <2>3. [ps EXCEPT ![Len(ps)] = e] # << >>
    BY <1>1, <2>2
  <2>4. Split(ps, t, mark) = [ps EXCEPT ![Len(ps)] = e]
    BY <1>3 DEF Split
  <2> QED
    BY <2>2, <2>3, <2>4 DEF Parts
<1> QED
  BY <1>2, <1>3

\* What the split of a text goes through, one piece after the other.
SplitGoes(T, s, mark, r) ==
  /\ r \in [0..Len(s) -> Parts(T)] /\ r[0] = << << >> >> /\ r[Len(s)] = SplitAt(s, mark)
  /\ \A i \in 1..Len(s) : r[i] = Split(r[i - 1], s[i], mark)
LEMMA SplitRuns ==
  ASSUME NEW T, NEW s \in Seq(T), NEW mark
  PROVE  \E r : SplitGoes(T, s, mark, r)
<1> DEFINE n == Len(s)
           V == Parts(T)
           h == [p \in V \X (1..n) |-> Split(p[1], s[p[2]], mark)]
           base == << << >> >>
<1>1. n \in Nat /\ DOMAIN s = 1..n /\ \A i \in 1..n : s[i] \in T
  OBVIOUS
<1>2. base \in V
  BY DEF Parts
<1>3. h \in [V \X (1..n) -> V]
  BY <1>1, SplitKeeps
<1>4. FromLeft(n, V, base, h) /\ \E it : SolvesLeft(n, V, base, h, it)
  <2> HIDE DEF n, V, h, base
  <2>1. FromLeft(n, V, base, h)
    BY <1>1, <1>2, <1>3 DEF FromLeft
  <2> QED
    BY <2>1, LeftFold
<1>0. PICK it : SolvesLeft(n, V, base, h, it)
  BY <1>4
<1>5. ASSUME NEW t \in SUBSET (1..n), t # {}
      PROVE  it[t] = Split(it[t \ {Max(t)}], s[Max(t)], mark)
  <2>1. Max(t) \in 1..n /\ it[t \ {Max(t)}] \in V
    BY <1>0, <1>1, <1>5, GreatestOf DEF SolvesLeft
  <2> HIDE DEF V, base
  <2> QED
    BY <1>0, <1>5, <2>1 DEF SolvesLeft
<1> HIDE DEF h
<1>6. it = [t \in SUBSET (1..n) |-> IF t = {} THEN base ELSE Split(it[t \ {Max(t)}], s[Max(t)], mark)]
  <2>1. it \in [SUBSET (1..n) -> V] /\ it[{}] = base
    BY <1>0 DEF SolvesLeft
  <2> QED
    BY <1>5, <2>1
<1> DEFINE f == CHOOSE g : g = [t \in SUBSET (DOMAIN s) |-> IF t = {} THEN base ELSE Split(g[t \ {Max(t)}], s[Max(t)], mark)]
<1>7. f = [t \in SUBSET (1..n) |-> IF t = {} THEN base ELSE Split(f[t \ {Max(t)}], s[Max(t)], mark)]
  BY <1>1, <1>6
<1>8. SplitAt(s, mark) = f[1..n]
  BY <1>1 DEF SplitAt, FoldLeft, MapThenFoldSet
<1> HIDE DEF f
<1>9. f[{}] = base
  BY <1>7
<1>10. ASSUME NEW i \in 1..n, f[1..(i - 1)] \in V
       PROVE  f[1..i] = h[<<f[1..(i - 1)], i>>] /\ f[1..i] = Split(f[1..(i - 1)], s[i], mark)
  <2>1. Max(1..i) = i /\ (1..i) \ {i} = 1..(i - 1) /\ 1..i \in SUBSET (1..n) /\ 1..i # {}
    BY <1>1, GreatestUpTo
  <2>2. f[1..i] = Split(f[1..(i - 1)], s[i], mark)
    BY <1>7, <2>1
  <2>3. h[<<f[1..(i - 1)], i>>] = Split(f[1..(i - 1)], s[i], mark)
    <3> HIDE DEF V
    <3> QED
      BY <1>10 DEF h
  <2> QED
    BY <2>2, <2>3
<1>11. PICK r : Goes(n, V, base, h, r) /\ r[n] = f[1..n]
  <2> HIDE DEF n, V, base
  <2> QED
    BY <1>4, <1>9, <1>10, FoldClimbs
<1>12. ASSUME NEW i \in 1..n PROVE r[i] = Split(r[i - 1], s[i], mark)
  <2>1. r[i] = h[<<r[i - 1], i>>] /\ r[i - 1] \in V
    BY <1>1, <1>11, SMTT(30) DEF Goes
  <2> HIDE DEF V
  <2> QED
    BY <2>1 DEF h
<1> QED
  BY <1>8, <1>11, <1>12 DEF Goes, SplitGoes

\* p is what stands in s behind the place a, up to the next mark or the end.
Stretch(s, mark, p, a) ==
  /\ a \in Nat /\ a + Len(p) <= Len(s) /\ \A k \in 1..Len(p) : p[k] = s[a + k]
  /\ a + Len(p) = Len(s) \/ s[a + Len(p) + 1] = mark

\* What lies behind a in the part of s up to i: the last of the parts so far, or another.
Lies(s, mark, i, ps, k, a) ==
  /\ a \in Nat /\ a + Len(ps[k]) <= i /\ \A j \in 1..Len(ps[k]) : ps[k][j] = s[a + j]
  /\ IF k = Len(ps) THEN a + Len(ps[k]) = i ELSE a + Len(ps[k]) < i /\ s[a + Len(ps[k]) + 1] = mark
AllLie(s, mark, i, ps) == \A k \in 1..Len(ps) : \E a : Lies(s, mark, i, ps, k, a)

LEMMA PartsLie ==
  ASSUME NEW T, NEW s \in Seq(T), NEW mark, NEW i \in 1..Len(s), NEW ps \in Parts(T),
         AllLie(s, mark, i - 1, ps)
  PROVE  AllLie(s, mark, i, Split(ps, s[i], mark))
<1> DEFINE qs == Split(ps, s[i], mark)
<1>1. ps \in Seq(Seq(T)) /\ Len(ps) \in Nat /\ Len(ps) >= 1 /\ \A k \in 1..Len(ps) : ps[k] \in Seq(T) /\ Len(ps[k]) \in Nat
  <2>1. ps \in Seq(Seq(T)) /\ ps # << >>
    BY DEF Parts
  <2>2. Len(ps) \in Nat /\ Len(ps) # 0
    BY <2>1, EmptySeq, LenProperties
  <2> QED
    BY <2>1, <2>2, ElementOfSeq, LenProperties
<1>2. CASE s[i] = mark
  <2>1. qs = Append(ps, << >>) /\ << >> \in Seq(T)
    BY <1>2 DEF Split
  <2>2. Len(qs) = Len(ps) + 1 /\ qs[Len(ps) + 1] = << >> /\ \A k \in 1..Len(ps) : qs[k] = ps[k]
    BY <1>1, <2>1, AppendProperties
  <2>3. Lies(s, mark, i, qs, Len(ps) + 1, i)
    BY <2>2 DEF Lies
  <2>4. ASSUME NEW k \in 1..Len(ps) PROVE \E a : Lies(s, mark, i, qs, k, a)
    <3>1. PICK a : Lies(s, mark, i - 1, ps, k, a)
      BY DEF AllLie
    <3>2. qs[k] = ps[k] /\ k # Len(qs) /\ Len(ps[k]) \in Nat
      BY <1>1, <2>2
    <3> HIDE DEF qs
    <3>3. Lies(s, mark, i, qs, k, a)
      BY <1>2, <3>1, <3>2 DEF Lies
    <3> QED
      BY <3>3
  <2> HIDE DEF qs
  <2>5. \A k \in 1..Len(qs) : k \in 1..Len(ps) \/ k = Len(ps) + 1
    BY <1>1, <2>2
  <2>6. AllLie(s, mark, i, qs)
    BY <2>3, <2>4, <2>5 DEF AllLie
  <2> QED
    BY <2>6 DEF qs
<1>3. CASE s[i] # mark
  <2> DEFINE m == Len(ps)
             e == Append(ps[m], s[i])
  <2>0. s[i] \in T /\ m \in 1..m
    BY <1>1
  <2>1. qs = [ps EXCEPT ![m] = e] /\ e \in Seq(T)
    BY <1>1, <1>3, <2>0, AppendProperties DEF Split
  <2>2. Len(e) = Len(ps[m]) + 1 /\ e[Len(ps[m]) + 1] = s[i] /\ \A j \in 1..Len(ps[m]) : e[j] = ps[m][j]
    BY <1>1, <2>0, AppendProperties
  <2> HIDE DEF e
  <2>3. Len(qs) = m /\ qs[m] = e /\ \A k \in 1..m : k # m => qs[k] = ps[k]
    BY <1>1, <2>0, <2>1, ExceptSeq
  <2>4. ASSUME NEW k \in 1..m PROVE \E a : Lies(s, mark, i, qs, k, a)
    <3>1. PICK a : Lies(s, mark, i - 1, ps, k, a)
      BY DEF AllLie
    <3> HIDE DEF qs, m
    <3>2. CASE k = m
      <4>1. a \in Nat /\ a + Len(ps[m]) = i - 1 /\ \A j \in 1..Len(ps[m]) : ps[m][j] = s[a + j]
        BY <3>1, <3>2 DEF Lies, m
      <4>2. a + Len(e) = i /\ s[a + Len(ps[m]) + 1] = s[i]
        BY <1>1, <2>0, <2>2, <4>1
      <4>3. \A j \in 1..Len(e) : e[j] = s[a + j]
        <5> TAKE j \in 1..Len(e)
        <5>1. j \in 1..Len(ps[m]) \/ j = Len(ps[m]) + 1
          BY <1>1, <2>0, <2>2
        <5> QED
          BY <2>2, <4>1, <4>2, <5>1
      <4>4. Lies(s, mark, i, qs, k, a)
        BY <2>3, <3>2, <4>1, <4>2, <4>3 DEF Lies
      <4> QED
        BY <4>4
    <3>3. CASE k # m
      <4>1. qs[k] = ps[k] /\ k # Len(qs) /\ Len(ps[k]) \in Nat /\ k # Len(ps)
        BY <1>1, <2>3, <3>3 DEF m
      <4>2. Lies(s, mark, i, qs, k, a)
        BY <3>1, <4>1 DEF Lies
      <4> QED
        BY <4>2
    <3> QED
      BY <3>2, <3>3
  <2> HIDE DEF qs, m
  <2>5. AllLie(s, mark, i, qs)
    BY <2>3, <2>4 DEF AllLie
  <2> QED
    BY <2>5 DEF qs
<1> QED
  BY <1>2, <1>3

\* The parts of a text at a mark are the stretches between the marks.
LEMMA Stretches ==
  ASSUME NEW T, NEW s \in Seq(T), NEW mark
  PROVE  /\ SplitAt(s, mark) \in Parts(T)
         /\ \A p \in Range(SplitAt(s, mark)) : p \in Seq(T) /\ \E a : Stretch(s, mark, p, a)
<1>0. PICK r : SplitGoes(T, s, mark, r)
  BY SplitRuns
<1>1. /\ r \in [0..Len(s) -> Parts(T)] /\ r[0] = << << >> >> /\ r[Len(s)] = SplitAt(s, mark)
      /\ \A i \in 1..Len(s) : r[i] = Split(r[i - 1], s[i], mark)
  BY <1>0 DEF SplitGoes
<1> DEFINE P == {i \in 0..Len(s) : AllLie(s, mark, i, r[i])}
           n == Len(s)
<1>2. n \in Nat
  OBVIOUS
<1>3. 0 \in P
  <2>1. Len(r[0]) = 1 /\ r[0][1] = << >>
    BY <1>1
  <2>2. Lies(s, mark, 0, r[0], 1, 0)
    BY <2>1 DEF Lies
  <2> QED
    BY <1>2, <2>1, <2>2 DEF AllLie
<1>4. \A i \in 1..n : i - 1 \in P => i \in P
  <2> SUFFICES ASSUME NEW i \in 1..n, AllLie(s, mark, i - 1, r[i - 1]) PROVE AllLie(s, mark, i, r[i])
    OBVIOUS
  <2>1. r[i - 1] \in Parts(T) /\ r[i] = Split(r[i - 1], s[i], mark)
    BY <1>1
  <2> QED
    BY <2>1, PartsLie
<1>5. \A i \in 0..n : i \in P
  <2> HIDE DEF P, n
  <2> QED
    BY <1>2, <1>3, <1>4, UpTo
<1>6. AllLie(s, mark, n, SplitAt(s, mark)) /\ SplitAt(s, mark) \in Parts(T)
  BY <1>1, <1>2, <1>5
<1>7. ASSUME NEW p \in Range(SplitAt(s, mark)) PROVE p \in Seq(T) /\ \E a : Stretch(s, mark, p, a)
  <2> DEFINE ps == SplitAt(s, mark)
  <2>1. ps \in Seq(Seq(T))
    BY <1>6 DEF Parts
  <2> HIDE DEF ps
  <2>2. PICK k \in 1..Len(ps) : p = ps[k]
    BY <2>1, RangeEquality DEF ps
  <2>3. PICK a : Lies(s, mark, n, ps, k, a)
    BY <1>6 DEF AllLie, ps
  <2>4. Stretch(s, mark, p, a)
    BY <1>2, <2>2, <2>3 DEF Lies, Stretch
  <2> QED
    BY <2>1, <2>2, <2>4, ElementOfSeq
<1> QED
  BY <1>6, <1>7

-----------------------------------------------------------------------------
(* The citation firewall. *)

\* The pieces that are there for markers are among T, and the marker of id stands in
\* a text at i.
Marks(T) == {"[", "m:", "]"} \subseteq T /\ Handed \subseteq T
MarkedAt(text, i, id) ==
  i + 3 <= Len(text) /\ text[i] = "[" /\ text[i + 1] = "m:" /\ text[i + 2] = id /\ text[i + 3] = "]"
Enforced(T) == [clean : Seq(T), cited : SUBSET Handed, invented : BOOLEAN, from : Nat \ {0}]

\* What the next piece can do to what was enforced so far.
Reads(text, st, i, ft) ==
  \/ i < st.from /\ ft = st
  \/ i >= st.from /\ ~ Opens(text, i) /\ ft = [st EXCEPT !.clean = Append(@, text[i])]
  \/ /\ i >= st.from /\ Opens(text, i) /\ \A j \in (i + 2)..Len(text) : text[j] # "]"
     /\ ft = [st EXCEPT !.clean = @ \o SubSeq(text, i, Len(text)), !.from = Len(text) + 1]
  \/ /\ i >= st.from
     /\ \E id \in Handed : /\ MarkedAt(text, i, id)
                           /\ ft = [st EXCEPT !.clean = @ \o Marker(id), !.cited = @ \union {id}, !.from = i + 4]
  \/ i >= st.from /\ \E e \in (i + 2)..Len(text) : ft = [st EXCEPT !.invented = TRUE, !.from = e + 1]

LEMMA EnforceReads ==
  ASSUME NEW T, Marks(T), NEW text \in Seq(T), NEW i \in 1..Len(text), NEW st \in Enforced(T)
  PROVE  Reads(text, st, i, Enforce(text, st, i))
<1> DEFINE n == Len(text)
           ends == {j \in (i + 2)..n : text[j] = "]"}
           end == CHOOSE j \in ends : \A k \in ends : j <= k
           raw == SubSeq(text, i + 2, end - 1)
<1>1. n \in Nat /\ i \in Nat /\ st.from \in Nat /\ \A j \in 1..n : text[j] \in T
  BY DEF Enforced
<1>2. Enforce(text, st, i) =
        IF i < st.from THEN st
        ELSE IF ~ Opens(text, i) THEN [st EXCEPT !.clean = Append(@, text[i])]
        ELSE IF ends = {} THEN [st EXCEPT !.clean = @ \o SubSeq(text, i, n), !.from = n + 1]
        ELSE IF Len(raw) = 1 /\ raw[1] \in Handed
        THEN [st EXCEPT !.clean = @ \o Marker(raw[1]), !.cited = @ \union {raw[1]}, !.from = end + 1]
        ELSE [st EXCEPT !.invented = TRUE, !.from = end + 1]
  BY DEF Enforce
<1>3. CASE i < st.from \/ ~ Opens(text, i) \/ ends = {}
  <2> HIDE DEF end, raw
  <2>1. ends = {} => \A j \in (i + 2)..n : text[j] # "]"
    OBVIOUS
  <2> HIDE DEF ends
  <2>2. i < st.from <=> ~ (i >= st.from)
    BY <1>1
  <2>3. CASE i < st.from
    BY <1>2, <2>3 DEF Reads
  <2>4. CASE i >= st.from /\ ~ Opens(text, i)
    BY <1>2, <2>2, <2>4 DEF Reads
  <2>5. CASE i >= st.from /\ Opens(text, i) /\ ends = {}
    BY <1>2, <2>1, <2>2, <2>5 DEF Reads
  <2> QED
    BY <1>3, <2>2, <2>3, <2>4, <2>5
<1>4. CASE ~ (i < st.from \/ ~ Opens(text, i) \/ ends = {})
  <2>0. i >= st.from /\ Opens(text, i) /\ ends # {}
    BY <1>1, <1>4
  <2>1. end \in (i + 2)..n /\ text[end] = "]"
    <3>1. ends \in SUBSET Nat
      BY <1>1
    <3>2. \E h \in ends : \A k \in ends : h <= k
      <4> HIDE DEF ends
      <4> QED
        BY <2>0, <3>1, LeastOf
    <3>3. end \in ends
      <4> HIDE DEF ends
      <4> QED
        BY <3>2
    <3> QED
      BY <3>3
  <2> HIDE DEF end, ends
  <2>2. CASE Len(raw) = 1 /\ raw[1] \in Handed
    <3>1. Len(raw) = (IF i + 2 <= end - 1 THEN end - 1 - (i + 2) + 1 ELSE 0)
          /\ \A k \in 1..(end - 1 - (i + 2) + 1) : raw[k] = text[i + 2 + k - 1]
      <4>1. \A k \in (i + 2)..(end - 1) : text[k] \in T
        BY <1>1, <2>1
      <4> QED
        BY <1>1, <2>1, <4>1, SubSeqProperties
    <3> HIDE DEF raw
    <3>2. end = i + 3
      <4>1. end \in Nat /\ i + 2 <= end
        BY <1>1, <2>1
      <4>2. Len(raw) = 1 /\ Len(raw) = (IF i + 2 <= end - 1 THEN end - 1 - (i + 2) + 1 ELSE 0)
        BY <2>2, <3>1
      <4>3. i \in Nat
        BY <1>1
      <4>4. i + 2 <= end - 1 /\ end - 1 - (i + 2) + 1 = 1
        <5> DEFINE w == end - 1 - (i + 2) + 1
        <5>1. w \in Int /\ (i + 2 <= end - 1) \in BOOLEAN
          BY <4>1, <4>3
        <5>2. 1 = IF i + 2 <= end - 1 THEN w ELSE 0
          BY <4>2
        <5>3. (i + 2 <= end - 1) => w = 1
          BY <5>2
        <5>4. ~ (i + 2 <= end - 1) => 1 = 0
          BY <5>2
        <5> QED
          BY <5>3, <5>4
      <4> QED
        BY <4>1, <4>3, <4>4
    <3>3. raw[1] = text[i + 2]
      BY <1>1, <3>1, <3>2
    <3>4. MarkedAt(text, i, raw[1])
      BY <1>1, <2>0, <2>1, <3>2, <3>3 DEF Opens, MarkedAt
    <3>5. Enforce(text, st, i) = [st EXCEPT !.clean = @ \o Marker(raw[1]), !.cited = @ \union {raw[1]}, !.from = i + 4]
      <4>1. end + 1 = i + 4 /\ ~ (i < st.from)
        BY <1>1, <2>0, <3>2
      <4> QED
        BY <1>2, <2>0, <2>2, <4>1
    <3> QED
      BY <2>0, <2>2, <3>4, <3>5 DEF Reads
  <2>3. CASE ~ (Len(raw) = 1 /\ raw[1] \in Handed)
    <3> HIDE DEF raw
    <3>1. Enforce(text, st, i) = [st EXCEPT !.invented = TRUE, !.from = end + 1]
      BY <1>1, <1>2, <2>0, <2>3
    <3> QED
      BY <2>0, <2>1, <3>1 DEF Reads
  <2> QED
    BY <2>2, <2>3
<1> QED
  BY <1>3, <1>4

LEMMA MarkerIsText ==
  ASSUME NEW T, Marks(T), NEW id \in T
  PROVE  /\ Marker(id) \in Seq(T) /\ Len(Marker(id)) = 4
         /\ Marker(id)[1] = "[" /\ Marker(id)[2] = "m:" /\ Marker(id)[3] = id /\ Marker(id)[4] = "]"
BY DEF Marks, Marker

LEMMA EnforceKeeps ==
  ASSUME NEW T, Marks(T), NEW text \in Seq(T), NEW i \in 1..Len(text), NEW st \in Enforced(T)
  PROVE  Enforce(text, st, i) \in Enforced(T)
<1> DEFINE n == Len(text)
           ft == Enforce(text, st, i)
<1>1. Reads(text, st, i, ft)
  BY EnforceReads
<1> HIDE DEF ft
<1>2. st.clean \in Seq(T) /\ st.cited \in SUBSET Handed /\ n \in Nat /\ i \in Nat /\ text[i] \in T
  BY DEF Enforced
<1>3. Append(st.clean, text[i]) \in Seq(T)
  BY <1>2, AppendProperties
<1>4. st.clean \o SubSeq(text, i, n) \in Seq(T)
  <2>1. \A k \in i..n : text[k] \in T
    OBVIOUS
  <2>2. SubSeq(text, i, n) \in Seq(T)
    BY <1>2, <2>1, SubSeqProperties
  <2> QED
    BY <1>2, <2>2, ConcatProperties
<1>5. \A id \in Handed : st.clean \o Marker(id) \in Seq(T)
  BY <1>2, MarkerIsText, ConcatProperties DEF Marks
<1>6. ASSUME NEW c \in Seq(T) PROVE [st EXCEPT !.clean = c] \in Enforced(T)
  BY DEF Enforced
<1>7. ASSUME NEW c \in Seq(T), NEW m \in Nat \ {0} PROVE [st EXCEPT !.clean = c, !.from = m] \in Enforced(T)
  BY DEF Enforced
<1>8. ASSUME NEW c \in Seq(T), NEW d \in SUBSET Handed, NEW m \in Nat \ {0}
      PROVE  [st EXCEPT !.clean = c, !.cited = d, !.from = m] \in Enforced(T)
  BY DEF Enforced
<1>9. ASSUME NEW m \in Nat \ {0} PROVE [st EXCEPT !.invented = TRUE, !.from = m] \in Enforced(T)
  BY DEF Enforced
<1>10. ASSUME NEW id \in Handed,
              ft = [st EXCEPT !.clean = st.clean \o Marker(id), !.cited = st.cited \union {id}, !.from = i + 4]
       PROVE  ft \in Enforced(T)
  <2>1. i + 4 \in Nat \ {0} /\ st.cited \union {id} \in SUBSET Handed /\ st.clean \o Marker(id) \in Seq(T)
    BY <1>2, <1>5
  <2> QED
    BY <1>8, <1>10, <2>1
<1>11. ASSUME NEW e \in (i + 2)..n, ft = [st EXCEPT !.invented = TRUE, !.from = e + 1] PROVE ft \in Enforced(T)
  <2>1. e + 1 \in Nat \ {0}
    BY <1>2
  <2> QED
    BY <1>9, <1>11, <2>1
<1>12. ASSUME ft = [st EXCEPT !.clean = st.clean \o SubSeq(text, i, n), !.from = n + 1] PROVE ft \in Enforced(T)
  <2>1. n + 1 \in Nat \ {0}
    BY <1>2
  <2> QED
    BY <1>4, <1>7, <1>12, <2>1
<1>13. ASSUME ft = [st EXCEPT !.clean = Append(st.clean, text[i])] PROVE ft \in Enforced(T)
  BY <1>3, <1>6, <1>13
<1>14. ft \in Enforced(T)
  <2> USE <1>1 DEF Reads
  <2> HIDE DEF n
  <2>1. ft = st \/ ft = [st EXCEPT !.clean = Append(st.clean, text[i])]
        \/ ft = [st EXCEPT !.clean = st.clean \o SubSeq(text, i, n), !.from = n + 1]
        \/ (\E id \in Handed : ft = [st EXCEPT !.clean = st.clean \o Marker(id), !.cited = st.cited \union {id}, !.from = i + 4])
        \/ \E e \in (i + 2)..n : ft = [st EXCEPT !.invented = TRUE, !.from = e + 1]
    BY DEF n
  <2> HIDE <1>1 DEF Reads
  <2> QED
    BY <1>10, <1>11, <1>12, <1>13, <2>1
<1> QED
  BY <1>14 DEF ft

\* What the firewall goes through, one piece after the other.
EnforceGoes(T, text, r) ==
  /\ r \in [0..Len(text) -> Enforced(T)] /\ r[0] = Unread /\ r[Len(text)] = Cleaned(text)
  /\ \A i \in 1..Len(text) : r[i] = Enforce(text, r[i - 1], i)
LEMMA EnforceRuns ==
  ASSUME NEW T, Marks(T), NEW text \in Seq(T)
  PROVE  \E r : EnforceGoes(T, text, r)
<1> DEFINE n == Len(text)
           V == Enforced(T)
           idx == [i \in DOMAIN text |-> i]
           h == [p \in V \X (1..n) |-> Enforce(text, p[1], p[2])]
<1>1. n \in Nat /\ DOMAIN text = 1..n /\ DOMAIN idx = 1..n /\ \A i \in 1..n : idx[i] = i
  OBVIOUS
<1>2. Unread \in V
  BY DEF Enforced, Unread
<1>3. h \in [V \X (1..n) -> V]
  BY EnforceKeeps
<1> HIDE DEF V
<1>4. FromLeft(n, V, Unread, h) /\ \E it : SolvesLeft(n, V, Unread, h, it)
  <2> HIDE DEF n, h
  <2>1. FromLeft(n, V, Unread, h)
    BY <1>1, <1>2, <1>3 DEF FromLeft
  <2> QED
    BY <2>1, LeftFold
<1>5. PICK it : SolvesLeft(n, V, Unread, h, it)
  BY <1>4
<1>6. it = [t \in SUBSET (1..n) |-> IF t = {} THEN Unread ELSE Enforce(text, it[t \ {Max(t)}], idx[Max(t)])]
  <2>1. it \in [SUBSET (1..n) -> V] /\ it[{}] = Unread
    BY <1>5 DEF SolvesLeft
  <2>2. ASSUME NEW t \in SUBSET (1..n), t # {}
        PROVE  it[t] = Enforce(text, it[t \ {Max(t)}], idx[Max(t)])
    <3>1. Max(t) \in 1..n /\ idx[Max(t)] = Max(t) /\ it[t \ {Max(t)}] \in V
      BY <1>1, <2>1, <2>2, GreatestOf
    <3>2. it[t] = h[<<it[t \ {Max(t)}], Max(t)>>]
      <4> HIDE DEF h, n
      <4> QED
        BY <1>5, <2>2 DEF SolvesLeft
    <3> HIDE DEF idx
    <3> QED
      BY <3>1, <3>2
  <2> HIDE DEF idx, h
  <2> QED
    BY <2>1, <2>2
<1> DEFINE f == CHOOSE g : g = [t \in SUBSET (DOMAIN idx) |->
                                  IF t = {} THEN Unread ELSE Enforce(text, g[t \ {Max(t)}], idx[Max(t)])]
<1>7. f = [t \in SUBSET (1..n) |-> IF t = {} THEN Unread ELSE Enforce(text, f[t \ {Max(t)}], idx[Max(t)])]
  <2> HIDE DEF idx
  <2> QED
    BY <1>1, <1>6
<1>8. Cleaned(text) = f[1..n]
  BY <1>1 DEF Cleaned, FoldLeft, MapThenFoldSet
<1> HIDE DEF f, idx
<1>9. f[{}] = Unread
  BY <1>7
<1>10. ASSUME NEW i \in 1..n, f[1..(i - 1)] \in V
       PROVE  f[1..i] = h[<<f[1..(i - 1)], i>>]
  <2>1. Max(1..i) = i /\ (1..i) \ {i} = 1..(i - 1) /\ 1..i \in SUBSET (1..n) /\ 1..i # {}
    BY <1>1, GreatestUpTo
  <2>2. f[1..i] = Enforce(text, f[1..(i - 1)], i)
    <3>1. idx[i] = i
      BY <1>1
    <3>2. f[1..i] = Enforce(text, f[(1..i) \ {Max(1..i)}], idx[Max(1..i)])
      <4> HIDE DEF n, V, h
      <4> QED
        BY <1>7, <2>1
    <3> QED
      BY <2>1, <3>1, <3>2
  <2>3. h[<<f[1..(i - 1)], i>>] = Enforce(text, f[1..(i - 1)], i)
    BY <1>10 DEF h
  <2> QED
    BY <2>2, <2>3
<1>11. PICK r : Goes(n, V, Unread, h, r) /\ r[n] = f[1..n]
  <2> HIDE DEF n, h
  <2> QED
    BY <1>4, <1>9, <1>10, FoldClimbs
<1>12. ASSUME NEW i \in 1..n PROVE r[i] = Enforce(text, r[i - 1], i)
  <2>0. i - 1 \in 0..n
    BY <1>1
  <2>1. r[i] = h[<<r[i - 1], i>>] /\ r[i - 1] \in V
    <3> HIDE DEF h, n
    <3> QED
      BY <1>11, <2>0 DEF Goes
  <2> QED
    BY <2>1 DEF h
<1> QED
  BY <1>8, <1>11, <1>12 DEF Goes, EnforceGoes, V

\* How far the text was read, and what is then known of it if nothing was invented: it
\* is left as it was, whoever is cited has a marker in it, and every marker that is
\* closed is the whole marker of one who was handed out.
Upto(st, i) == IF st.from > i THEN st.from - 1 ELSE i
Honest(text, st, i) ==
  /\ Upto(st, i) <= Len(text) /\ st.clean = SubSeq(text, 1, Upto(st, i))
  /\ st.cited = {id \in Handed : \E k \in 1..Upto(st, i) : k + 3 <= Upto(st, i) /\ MarkedAt(text, k, id)}
  /\ \A k \in 1..Upto(st, i) :
       Opens(text, k) /\ (\E j \in (k + 2)..Len(text) : text[j] = "]") =>
         k + 3 <= Upto(st, i) /\ \E id \in Handed : MarkedAt(text, k, id)

\* Two markers of a text do not overlap, and one place has one.
LEMMA MarkersApart ==
  ASSUME NEW text, Len(text) \in Nat, NEW i \in Nat, NEW k \in Nat, NEW id \in Ids, NEW d \in Ids,
         MarkedAt(text, i, id), MarkedAt(text, k, d)
  PROVE  (i = k => id = d) /\ (i < k => i + 3 < k)
<1>1. id \notin {"[", "m:", "]"} /\ d \notin {"[", "m:", "]"}
  BY CompositionAssumption DEF Ids
<1>2. ASSUME i < k, ~ (i + 3 < k) PROVE FALSE
  <2>1. k = i + 1 \/ k = i + 2 \/ k = i + 3
    BY <1>2
  <2> QED
    BY <1>1, <2>1 DEF MarkedAt
<1> QED
  BY <1>2 DEF MarkedAt

LEMMA HonestStart ==
  ASSUME NEW T, NEW text \in Seq(T)
  PROVE  Honest(text, Unread, 0)
<1>1. Upto(Unread, 0) = 0 /\ Unread.clean = << >> /\ Unread.cited = {}
  BY DEF Upto, Unread
<1>2. SubSeq(text, 1, 0) = << >> /\ Len(text) \in Nat
  BY SubSeqEmpty
<1> QED
  BY <1>1, <1>2 DEF Honest

LEMMA HonestStep ==
  ASSUME NEW T, Marks(T), NEW text \in Seq(T), NEW i \in 1..Len(text), NEW st \in Enforced(T),
         ~ Enforce(text, st, i).invented, Honest(text, st, i - 1)
  PROVE  Honest(text, Enforce(text, st, i), i)
<1> DEFINE n == Len(text)
           ft == Enforce(text, st, i)
           m == Upto(st, i - 1)
           Closes(k) == \E j \in (k + 2)..n : text[j] = "]"
<1>1. Reads(text, st, i, ft) /\ ~ ft.invented
  BY EnforceReads
<1> HIDE DEF ft
<1>2. n \in Nat /\ i \in Nat /\ i >= 1 /\ i <= n /\ st.from \in Nat /\ st.from >= 1 /\ \A j \in 1..n : text[j] \in T
  BY DEF Enforced
<1> HIDE DEF n
<1>3. /\ m <= n /\ st.clean = SubSeq(text, 1, m)
      /\ st.cited = {id \in Handed : \E k \in 1..m : k + 3 <= m /\ MarkedAt(text, k, id)}
      /\ \A k \in 1..m : Opens(text, k) /\ Closes(k) => k + 3 <= m /\ \E id \in Handed : MarkedAt(text, k, id)
  BY DEF Honest, n
<1>4. m \in Nat /\ (i >= st.from => m = i - 1) /\ (i < st.from => m = st.from - 1)
  BY <1>2 DEF Upto
<1>5. \A k \in Nat : \A id : MarkedAt(text, k, id) => Opens(text, k) /\ k + 3 <= n /\ text[k + 3] = "]" /\ Closes(k)
  BY <1>2 DEF MarkedAt, Opens, n
<1>6. CASE i < st.from /\ ft = st
  <2>1. Upto(ft, i) = m
    BY <1>2, <1>4, <1>6 DEF Upto
  <2> QED
    BY <1>3, <1>6, <2>1 DEF Honest, n, ft
<1> HIDE DEF m
\* A marker that ends behind what was read begins behind it.
<1>7. ASSUME NEW k \in Nat, k >= 1, NEW id, MarkedAt(text, k, id), ~ (k + 3 <= m) PROVE k > m
  BY <1>2, <1>3, <1>4, <1>5, <1>7
<1> HIDE DEF Closes
\* It is enough to look at what was read since.
<1>8. ASSUME NEW u \in Nat, m <= u, u <= n, Upto(ft, i) = u, ft.clean = SubSeq(text, 1, u),
             ft.cited = st.cited \union {id \in Handed : \E k \in (m + 1)..u : k + 3 <= u /\ MarkedAt(text, k, id)},
             \A k \in (m + 1)..u : Opens(text, k) /\ Closes(k) => k + 3 <= u /\ \E id \in Handed : MarkedAt(text, k, id)
      PROVE  Honest(text, ft, i)
  <2>1. ft.cited = {id \in Handed : \E k \in 1..u : k + 3 <= u /\ MarkedAt(text, k, id)}
    <3>1. ASSUME NEW id \in st.cited PROVE id \in Handed /\ \E k \in 1..u : k + 3 <= u /\ MarkedAt(text, k, id)
      <4>1. PICK k \in 1..m : id \in Handed /\ k + 3 <= m /\ MarkedAt(text, k, id)
        BY <1>3
      <4>2. k \in 1..u /\ k + 3 <= u
        BY <1>4, <1>8, <4>1
      <4> QED
        BY <4>1, <4>2
    <3>2. ASSUME NEW id \in Handed, NEW k \in 1..u, k + 3 <= u, MarkedAt(text, k, id)
          PROVE  id \in st.cited \/ k \in (m + 1)..u
      <4>1. CASE k + 3 <= m
        <5>1. k \in 1..m
          BY <1>4, <4>1
        <5> QED
          BY <1>3, <3>2, <4>1, <5>1
      <4>2. CASE ~ (k + 3 <= m)
        <5>1. k > m
          BY <1>7, <3>2, <4>2
        <5> QED
          BY <1>4, <5>1
      <4> QED
        BY <4>1, <4>2
    <3>3. \A k \in (m + 1)..u : k \in 1..u
      BY <1>4
    <3> QED
      BY <1>8, <3>1, <3>2, <3>3
  <2>2. ASSUME NEW k \in 1..u, Opens(text, k), Closes(k)
        PROVE  k + 3 <= u /\ \E id \in Handed : MarkedAt(text, k, id)
    <3>1. k \in 1..m \/ k \in (m + 1)..u
      BY <1>4
    <3>2. CASE k \in 1..m
      <4>1. k + 3 <= m /\ \E id \in Handed : MarkedAt(text, k, id)
        BY <1>3, <2>2, <3>2
      <4> QED
        BY <1>4, <1>8, <4>1
    <3> QED
      BY <1>8, <2>2, <3>1, <3>2
  <2> QED
    BY <1>8, <2>1, <2>2 DEF Honest, Closes, n
<1>9. CASE i >= st.from /\ ~ Opens(text, i) /\ ft = [st EXCEPT !.clean = Append(@, text[i])]
  <2>1. m = i - 1 /\ ft.clean = Append(st.clean, text[i]) /\ ft.cited = st.cited /\ ft.from = st.from
    BY <1>4, <1>9 DEF Enforced
  <2>2. Upto(ft, i) = i
    BY <1>2, <1>9, <2>1 DEF Upto
  <2>3. ft.clean = SubSeq(text, 1, i)
    <3>1. SubSeq(text, 1, i) = SubSeq(text, 1, i - 1) \o <<text[i]>>
      BY <1>2, SubSeqRecursiveSecond DEF n
    <3>2. SubSeq(text, 1, i - 1) \in Seq(T)
      BY <1>2, SubSeqProperties
    <3>3. st.clean = SubSeq(text, 1, i - 1) /\ text[i] \in T
      BY <1>2, <1>3, <2>1 DEF n
    <3>4. Append(SubSeq(text, 1, i - 1), text[i]) = SubSeq(text, 1, i - 1) \o <<text[i]>>
      BY <3>2, <3>3, AppendIsConcat
    <3> QED
      BY <2>1, <3>1, <3>3, <3>4
  <2>4. \A k \in (m + 1)..i : k = i
    BY <1>2, <2>1
  <2>5. \A k \in (m + 1)..i : ~ Opens(text, k)
    BY <1>9, <2>4
  <2>6. \A k \in (m + 1)..i : \A id : ~ MarkedAt(text, k, id)
    BY <1>2, <1>5, <2>4, <2>5
  <2> QED
    BY <1>2, <1>8, <2>1, <2>2, <2>3, <2>5, <2>6 DEF ft
<1>10. CASE /\ i >= st.from /\ Opens(text, i) /\ \A j \in (i + 2)..Len(text) : text[j] # "]"
            /\ ft = [st EXCEPT !.clean = @ \o SubSeq(text, i, Len(text)), !.from = Len(text) + 1]
  <2>1. m = i - 1 /\ ft.clean = st.clean \o SubSeq(text, i, n) /\ ft.cited = st.cited /\ ft.from = n + 1
    BY <1>4, <1>10 DEF Enforced, n
  <2>2. Upto(ft, i) = n
    BY <1>2, <2>1 DEF Upto
  <2>3. ft.clean = SubSeq(text, 1, n)
    <3>1. CASE i = 1
      <4>1. st.clean = << >> /\ SubSeq(text, i, n) \in Seq(T)
        BY <1>2, <1>3, <2>1, <3>1, SubSeqEmpty, SubSeqProperties
      <4> QED
        BY <2>1, <3>1, <4>1, ConcatEmptySeq
    <3>2. CASE i # 1
      <4>1. SubSeq(text, 1, i - 1) \o SubSeq(text, (i - 1) + 1, n) = SubSeq(text, 1, n)
        <5>1. 1 \in 1..Len(text) + 1 /\ i - 1 \in 1..Len(text) /\ n \in (i - 1)..Len(text)
          BY <1>2, <3>2 DEF n
        <5> QED
          BY <1>2, <5>1, ConcatAdjacentSubSeq
      <4>2. (i - 1) + 1 = i
        BY <1>2
      <4> QED
        BY <1>3, <2>1, <4>1, <4>2
    <3> QED
      BY <3>1, <3>2
  <2>4. \A k \in (m + 1)..n : ~ Closes(k)
    BY <1>2, <1>10, <2>1 DEF Closes, n
  <2>5. \A k \in (m + 1)..n : \A id : ~ MarkedAt(text, k, id)
    BY <1>2, <1>4, <1>5, <2>4
  <2>6. ft.cited = st.cited \union {id \in Handed : \E k \in (m + 1)..n : k + 3 <= n /\ MarkedAt(text, k, id)}
    BY <2>1, <2>5
  <2>7. Honest(text, ft, i)
    BY <1>2, <1>3, <1>8, <2>2, <2>3, <2>4, <2>6
  <2> QED
    BY <2>7 DEF ft
<1>11. ASSUME i >= st.from, NEW id \in Handed, MarkedAt(text, i, id),
              ft = [st EXCEPT !.clean = @ \o Marker(id), !.cited = @ \union {id}, !.from = i + 4]
       PROVE  Honest(text, ft, i)
  <2>1. m = i - 1 /\ ft.clean = st.clean \o Marker(id) /\ ft.cited = st.cited \union {id} /\ ft.from = i + 4
    BY <1>4, <1>11 DEF Enforced
  <2>2. Upto(ft, i) = i + 3 /\ i + 3 <= n /\ i + 3 \in Nat /\ m <= i + 3
    BY <1>2, <1>5, <1>11, <2>1 DEF Upto
  <2>3. id \in T /\ id \in Ids
    BY DEF Marks, Ids
  <2>4. ft.clean = SubSeq(text, 1, i + 3)
    <3>1. SubSeq(text, 1, i - 1) \in Seq(T) /\ Len(SubSeq(text, 1, i - 1)) = i - 1
          /\ \A k \in 1..(i - 1) : SubSeq(text, 1, i - 1)[k] = text[k]
      <4>1. \A k \in 1..(i - 1) : text[k] \in T /\ 1 + k - 1 = k
        BY <1>2
      <4> QED
        BY <1>2, <4>1, SubSeqProperties
    <3>2. SubSeq(text, 1, i + 3) \in Seq(T) /\ Len(SubSeq(text, 1, i + 3)) = i + 3
          /\ \A k \in 1..(i + 3) : SubSeq(text, 1, i + 3)[k] = text[k]
      <4>1. \A k \in 1..(i + 3) : text[k] \in T /\ 1 + k - 1 = k
        BY <1>2, <2>2
      <4> QED
        BY <1>2, <4>1, SubSeqProperties
    <3>3. /\ Marker(id) \in Seq(T) /\ Len(Marker(id)) = 4
          /\ Marker(id)[1] = "[" /\ Marker(id)[2] = "m:" /\ Marker(id)[3] = id /\ Marker(id)[4] = "]"
      BY <2>3, MarkerIsText
    <3> DEFINE c == SubSeq(text, 1, i - 1)
               d == Marker(id)
    <3>4. /\ c \o d \in Seq(T) /\ Len(c \o d) = i + 3
          /\ \A k \in 1..(i + 3) : (c \o d)[k] = IF k <= i - 1 THEN c[k] ELSE d[k - (i - 1)]
      <4>1. c \in Seq(T) /\ d \in Seq(T) /\ Len(c) = i - 1 /\ Len(d) = 4
        BY <3>1, <3>3
      <4>2. (i - 1) + 4 = i + 3
        BY <1>2
      <4> HIDE DEF c, d
      <4>3. /\ c \o d \in Seq(T) /\ Len(c \o d) = Len(c) + Len(d)
            /\ \A k \in 1..Len(c) + Len(d) : (c \o d)[k] = IF k <= Len(c) THEN c[k] ELSE d[k - Len(c)]
        BY <4>1, ConcatProperties
      <4>4. Len(c) + Len(d) = i + 3
        BY <4>1, <4>2
      <4> QED
        BY <4>1, <4>3, <4>4
    <3>5. \A k \in 1..(i + 3) : (c \o d)[k] = text[k]
      <4> TAKE k \in 1..(i + 3)
      <4>1. CASE k <= i - 1
        BY <1>2, <3>1, <3>4, <4>1
      <4>2. CASE ~ (k <= i - 1)
        <5>1. k = i \/ k = i + 1 \/ k = i + 2 \/ k = i + 3
          BY <1>2, <4>2
        <5>2. (c \o d)[k] = d[k - (i - 1)]
          BY <3>4, <4>2
        <5>3. /\ text[i] = d[1] /\ text[i + 1] = d[2] /\ text[i + 2] = d[3] /\ text[i + 3] = d[4]
          BY <1>11, <3>3 DEF MarkedAt
        <5>4. (k = i => k - (i - 1) = 1) /\ (k = i + 1 => k - (i - 1) = 2)
              /\ (k = i + 2 => k - (i - 1) = 3) /\ (k = i + 3 => k - (i - 1) = 4)
          BY <1>2
        <5> HIDE DEF c, d
        <5> QED
          BY <5>1, <5>2, <5>3, <5>4
      <4> QED
        BY <4>1, <4>2
    <3>6. c \o d = SubSeq(text, 1, i + 3)
      <4> HIDE DEF c, d
      <4> QED
        BY <3>2, <3>4, <3>5, SeqEqual
    <3> QED
      BY <1>3, <2>1, <3>6
  <2>5. \A k \in (m + 1)..(i + 3) : k = i \/ k = i + 1 \/ k = i + 2 \/ k = i + 3
    BY <1>2, <2>1
  <2>6. text[i + 1] = "m:" /\ text[i + 2] = id /\ text[i + 3] = "]" /\ id # "["
    BY <1>11, <2>3, CompositionAssumption DEF MarkedAt, Ids
  <2>7. \A k \in (m + 1)..(i + 3) : text[k] = "[" => k = i
    BY <2>5, <2>6
  <2>8. \A k \in (m + 1)..(i + 3) : Opens(text, k) => k = i
    BY <2>7 DEF Opens
  <2>9. \A k \in (m + 1)..(i + 3), d \in Handed : MarkedAt(text, k, d) => k = i /\ d = id
    BY <1>11, <2>7 DEF MarkedAt
  <2>10. i \in (m + 1)..(i + 3) /\ i + 3 <= i + 3
    BY <1>2, <2>1
  <2>11. {d \in Handed : \E k \in (m + 1)..(i + 3) : k + 3 <= i + 3 /\ MarkedAt(text, k, d)} = {id}
    BY <1>11, <2>9, <2>10
  <2>12. \A k \in (m + 1)..(i + 3) : Opens(text, k) /\ Closes(k) => k + 3 <= i + 3 /\ \E d \in Handed : MarkedAt(text, k, d)
    BY <1>11, <2>8, <2>10
  <2> QED
    BY <1>8, <2>1, <2>2, <2>4, <2>11, <2>12
<1>12. ASSUME NEW e, ft = [st EXCEPT !.invented = TRUE, !.from = e + 1] PROVE FALSE
  BY <1>1, <1>12 DEF Enforced
<1>13. Honest(text, ft, i)
  BY <1>1, <1>6, <1>9, <1>10, <1>11, <1>12 DEF Reads, ft
<1> QED
  BY <1>13 DEF ft

\* Of a text in which nothing was invented nothing is taken, and it cites whoever has a
\* marker in it.
LEMMA CleanedIsHonest ==
  ASSUME NEW T, Marks(T), NEW text \in Seq(T)
  PROVE  /\ Cleaned(text) \in Enforced(T)
         /\ ~ Cleaned(text).invented =>
              /\ Cleaned(text).clean = text
              /\ Cleaned(text).cited = {id \in Handed : \E k \in 1..Len(text) : MarkedAt(text, k, id)}
              /\ \A k \in 1..Len(text) : Opens(text, k) /\ (\E j \in (k + 2)..Len(text) : text[j] = "]") =>
                   \E id \in Handed : MarkedAt(text, k, id)
<1> DEFINE n == Len(text)
<1>0. n \in Nat
  OBVIOUS
<1>1. PICK r : EnforceGoes(T, text, r)
  BY EnforceRuns
<1>2. r \in [0..n -> Enforced(T)] /\ r[0] = Unread /\ r[n] = Cleaned(text)
      /\ \A i \in 1..n : r[i] = Enforce(text, r[i - 1], i) /\ i - 1 \in 0..n
  BY <1>1 DEF EnforceGoes
<1> DEFINE P == {i \in 0..n : ~ r[i].invented => Honest(text, r[i], i)}
<1>3. 0 \in P
  BY <1>0, <1>2, HonestStart
<1>4. \A i \in 1..n : i - 1 \in P => i \in P
  <2> SUFFICES ASSUME NEW i \in 1..n, ~ r[i - 1].invented => Honest(text, r[i - 1], i - 1), ~ r[i].invented
               PROVE  Honest(text, r[i], i)
    BY <1>0
  <2>1. r[i - 1] \in Enforced(T) /\ r[i] = Enforce(text, r[i - 1], i)
    BY <1>2
  <2>2. Reads(text, r[i - 1], i, r[i])
    BY <2>1, EnforceReads
  <2> DEFINE st == r[i - 1]
             ft == r[i]
  <2> HIDE DEF st, ft
  <2>3. ft.invented = st.invented \/ ft.invented
    <3>1. st \in Enforced(T) /\ Reads(text, st, i, ft)
      BY <2>1, <2>2 DEF st, ft
    <3>2. CASE ft = st
      BY <3>2
    <3>3. ASSUME NEW c, ft = [st EXCEPT !.clean = c] PROVE ft.invented = st.invented
      BY <3>1, <3>3 DEF Enforced
    <3>4. ASSUME NEW c, NEW m, ft = [st EXCEPT !.clean = c, !.from = m] PROVE ft.invented = st.invented
      BY <3>1, <3>4 DEF Enforced
    <3>5. ASSUME NEW c, NEW d, NEW m, ft = [st EXCEPT !.clean = c, !.cited = d, !.from = m]
          PROVE  ft.invented = st.invented
      BY <3>1, <3>5 DEF Enforced
    <3>6. ASSUME NEW m, ft = [st EXCEPT !.invented = TRUE, !.from = m] PROVE ft.invented
      BY <3>1, <3>6 DEF Enforced
    <3> QED
      BY <3>1, <3>2, <3>3, <3>4, <3>5, <3>6 DEF Reads
  <2>4. st.invented \in BOOLEAN
    BY <2>1 DEF Enforced, st
  <2> QED
    BY <2>1, <2>3, <2>4, HonestStep DEF st, ft
<1>5. \A i \in 0..n : i \in P
  <2> HIDE DEF P, n
  <2> QED
    BY <1>0, <1>3, <1>4, UpTo
<1>6. ~ Cleaned(text).invented => Honest(text, Cleaned(text), n)
  BY <1>0, <1>2, <1>5
<1>7. Cleaned(text) \in Enforced(T)
  BY <1>0, <1>2
<1> DEFINE c == Cleaned(text)
<1> HIDE DEF c
<1>8. ASSUME Honest(text, c, n) PROVE Upto(c, n) = n
  <2>1. c.from \in Nat
    BY <1>7 DEF c, Enforced
  <2> QED
    BY <1>0, <1>8, <2>1 DEF Honest, Upto
<1>9. \A k \in 1..n : \A id : MarkedAt(text, k, id) => k + 3 <= n
  BY DEF MarkedAt
<1>10. ASSUME Honest(text, c, n)
       PROVE  /\ c.clean = text
              /\ c.cited = {id \in Handed : \E k \in 1..n : MarkedAt(text, k, id)}
              /\ \A k \in 1..n : Opens(text, k) /\ (\E j \in (k + 2)..n : text[j] = "]") =>
                   \E id \in Handed : MarkedAt(text, k, id)
  <2>1. SubSeq(text, 1, n) = text
    BY SubSeqFull
  <2> QED
    BY <1>8, <1>9, <1>10, <2>1 DEF Honest
<1> QED
  BY <1>6, <1>7, <1>10 DEF c

-----------------------------------------------------------------------------
(* What a reader sees. *)

LEMMA VisibleIsMarked ==
  ASSUME NEW T, Marks(T), Ids \subseteq T, NEW text \in Seq(T)
  PROVE  Visible(text) = {id \in Ids : \E i \in 1..Len(text) : MarkedAt(text, i, id)}
<1>1. DOMAIN text = 1..Len(text) /\ Len(text) \in Nat /\ \A i \in 1..Len(text) : text[i] \in T
  OBVIOUS
<1>2. ASSUME NEW id \in Ids, NEW i \in 1..Len(text), i + 3 <= Len(text)
      PROVE  SubSeq(text, i, i + 3) = Marker(id) <=> MarkedAt(text, i, id)
  <2> DEFINE s == SubSeq(text, i, i + 3)
             d == Marker(id)
  <2>1. s \in Seq(T) /\ Len(s) = 4 /\ s[1] = text[i] /\ s[2] = text[i + 1] /\ s[3] = text[i + 2] /\ s[4] = text[i + 3]
    <3>1. \A k \in i..(i + 3) : text[k] \in T
      BY <1>1, <1>2
    <3>2. s \in Seq(T) /\ Len(s) = (IF i <= i + 3 THEN i + 3 - i + 1 ELSE 0)
          /\ \A k \in 1..(i + 3 - i + 1) : s[k] = text[i + k - 1]
      BY <1>1, <3>1, SubSeqProperties
    <3>3. i + 3 - i + 1 = 4 /\ i <= i + 3 /\ i + 1 - 1 = i /\ i + 2 - 1 = i + 1 /\ i + 3 - 1 = i + 2 /\ i + 4 - 1 = i + 3
      BY <1>1
    <3>4. 1 \in 1..4 /\ 2 \in 1..4 /\ 3 \in 1..4 /\ 4 \in 1..4
      OBVIOUS
    <3> HIDE DEF s
    <3> QED
      BY <3>2, <3>3, <3>4
  <2>2. d \in Seq(T) /\ Len(d) = 4 /\ d[1] = "[" /\ d[2] = "m:" /\ d[3] = id /\ d[4] = "]"
    BY MarkerIsText
  <2> HIDE DEF s, d
  <2>3. s = d <=> s[1] = d[1] /\ s[2] = d[2] /\ s[3] = d[3] /\ s[4] = d[4]
    <3>1. \A k \in 1..4 : k = 1 \/ k = 2 \/ k = 3 \/ k = 4
      OBVIOUS
    <3>2. ASSUME s[1] = d[1] /\ s[2] = d[2] /\ s[3] = d[3] /\ s[4] = d[4] PROVE s = d
      <4>1. \A k \in 1..Len(s) : s[k] = d[k]
        BY <2>1, <3>1, <3>2
      <4> QED
        BY <2>1, <2>2, <4>1, SeqEqual
    <3> QED
      BY <3>2
  <2>4. s = d <=> MarkedAt(text, i, id)
    BY <1>2, <2>1, <2>2, <2>3 DEF MarkedAt
  <2> QED
    BY <2>4 DEF s, d
<1>3. \A id \in Ids, i \in 1..Len(text) : MarkedAt(text, i, id) => i + 3 <= Len(text)
  BY DEF MarkedAt
<1> QED
  BY <1>1, <1>2, <1>3 DEF Visible

\* A piece that is in no marker parts what is visible before it from what is behind.
Parting(T, x) == x \in T /\ x \notin Ids \union {"[", "m:", "]"}
LEMMA VisibleApart ==
  ASSUME NEW T, Marks(T), Ids \subseteq T, NEW a \in Seq(T), NEW b \in Seq(T), NEW x, Parting(T, x)
  PROVE  /\ a \o <<x>> \o b \in Seq(T)
         /\ Visible(a \o <<x>> \o b) = Visible(a) \union Visible(b)
<1> DEFINE ax == a \o <<x>>
           text == ax \o b
           n == Len(a)
<1>1. ax \in Seq(T) /\ Len(ax) = n + 1 /\ n \in Nat /\ Len(b) \in Nat
      /\ ax[n + 1] = x /\ \A i \in 1..n : ax[i] = a[i]
  <2>1. ax = Append(a, x) /\ x \in T
    BY AppendIsConcat DEF Parting
  <2> HIDE DEF ax
  <2> QED
    BY <2>1, AppendProperties
<1> HIDE DEF ax
<1>2. text \in Seq(T) /\ Len(text) = n + 1 + Len(b)
      /\ \A i \in 1..(n + 1 + Len(b)) : text[i] = IF i <= n + 1 THEN ax[i] ELSE b[i - (n + 1)]
  <2>1. text \in Seq(T) /\ Len(text) = Len(ax) + Len(b)
        /\ \A i \in 1..Len(ax) + Len(b) : text[i] = IF i <= Len(ax) THEN ax[i] ELSE b[i - Len(ax)]
    BY <1>1, ConcatProperties
  <2> HIDE DEF text, n
  <2> QED
    BY <1>1, <2>1
<1> HIDE DEF text, n
<1>3. text[n + 1] = x
  BY <1>1, <1>2
<1>4. \A i \in 1..n : text[i] = a[i]
  BY <1>1, <1>2
<1>5. \A i \in 1..Len(b) : text[n + 1 + i] = b[i] /\ n + 1 + i \in 1..Len(text)
  <2> TAKE i \in 1..Len(b)
  <2> DEFINE k == n + 1 + i
  <2>2. k \in 1..(n + 1 + Len(b)) /\ ~ (k <= n + 1) /\ k - (n + 1) = i
    BY <1>1
  <2> HIDE DEF k
  <2>3. text[k] = IF k <= n + 1 THEN ax[k] ELSE b[k - (n + 1)]
    BY <1>2, <2>2
  <2>4. text[k] = b[i] /\ k \in 1..Len(text)
    BY <1>2, <2>2, <2>3
  <2> QED
    BY <2>4 DEF k
<1>6. ASSUME NEW id \in Ids, NEW i \in 1..n, MarkedAt(a, i, id) PROVE i \in 1..Len(text) /\ MarkedAt(text, i, id)
  <2>1. i + 3 <= n
    BY <1>6 DEF MarkedAt, n
  <2>2. i \in 1..n /\ i + 1 \in 1..n /\ i + 2 \in 1..n /\ i + 3 \in 1..n
    BY <1>1, <2>1
  <2> QED
    BY <1>1, <1>2, <1>4, <1>6, <2>1, <2>2 DEF MarkedAt
<1>7. ASSUME NEW id \in Ids, NEW i \in 1..Len(b), MarkedAt(b, i, id) PROVE MarkedAt(text, n + 1 + i, id)
  <2>1. i + 3 <= Len(b)
    BY <1>7 DEF MarkedAt
  <2>2. i + 1 \in 1..Len(b) /\ i + 2 \in 1..Len(b) /\ i + 3 \in 1..Len(b)
    BY <1>1, <2>1
  <2>3. n + 1 + (i + 1) = (n + 1 + i) + 1 /\ n + 1 + (i + 2) = (n + 1 + i) + 2 /\ n + 1 + (i + 3) = (n + 1 + i) + 3
    BY <1>1
  <2>4. text[n + 1 + i] = b[i] /\ text[(n + 1 + i) + 1] = b[i + 1] /\ text[(n + 1 + i) + 2] = b[i + 2]
        /\ text[(n + 1 + i) + 3] = b[i + 3]
    BY <1>5, <2>2, <2>3
  <2>5. (n + 1 + i) + 3 <= Len(text)
    BY <1>1, <1>2, <2>1
  <2> QED
    BY <1>7, <2>4, <2>5 DEF MarkedAt
<1>8. ASSUME NEW id \in Ids, NEW i \in 1..Len(text), MarkedAt(text, i, id)
      PROVE  \/ i \in 1..n /\ MarkedAt(a, i, id)
             \/ \E j \in 1..Len(b) : MarkedAt(b, j, id)
  <2>1. i + 3 <= n + 1 + Len(b)
    BY <1>2, <1>8 DEF MarkedAt
  <2>2. i # n + 1 /\ i + 1 # n + 1 /\ i + 2 # n + 1 /\ i + 3 # n + 1
    BY <1>3, <1>8 DEF MarkedAt, Parting
  <2>3. CASE i + 3 <= n
    <3>1. i \in 1..n /\ i + 1 \in 1..n /\ i + 2 \in 1..n /\ i + 3 \in 1..n
      BY <1>1, <2>3
    <3> QED
      BY <1>4, <1>8, <2>3, <3>1 DEF MarkedAt, n
  <2>4. CASE ~ (i + 3 <= n)
    <3> DEFINE j == i - (n + 1)
    <3>1. i > n + 1
      BY <1>1, <1>2, <2>2, <2>4
    <3>2. j \in 1..Len(b) /\ j + 1 \in 1..Len(b) /\ j + 2 \in 1..Len(b) /\ j + 3 \in 1..Len(b) /\ j + 3 <= Len(b)
      BY <1>1, <1>2, <2>1, <3>1
    <3>3. n + 1 + j = i /\ n + 1 + (j + 1) = i + 1 /\ n + 1 + (j + 2) = i + 2 /\ n + 1 + (j + 3) = i + 3
      BY <1>1, <1>2
    <3> HIDE DEF j
    <3>4. MarkedAt(b, j, id)
      BY <1>5, <1>8, <3>2, <3>3 DEF MarkedAt
    <3> QED
      BY <3>2, <3>4
  <2> QED
    BY <2>3, <2>4
<1>9. Visible(text) = Visible(a) \union Visible(b)
  <2>1. /\ Visible(text) = {id \in Ids : \E i \in 1..Len(text) : MarkedAt(text, i, id)}
        /\ Visible(a) = {id \in Ids : \E i \in 1..n : MarkedAt(a, i, id)}
        /\ Visible(b) = {id \in Ids : \E i \in 1..Len(b) : MarkedAt(b, i, id)}
    BY <1>2, VisibleIsMarked DEF n
  <2> QED
    BY <1>5, <1>6, <1>7, <1>8, <2>1
<1> QED
  BY <1>2, <1>9 DEF text, ax

\* What is joined of many has what the empty text has and every part keeps.
LEMMA FlattenIn ==
  ASSUME NEW T, NEW s \in Seq(Seq(T)), NEW Q, << >> \in Q,
         \A v \in Seq(T), i \in 1..Len(s) : v \in Q => v \o s[i] \in Q
  PROVE  FlattenSeq(s) \in Q /\ FlattenSeq(s) \in Seq(T)
<1> DEFINE n == Len(s)
           V == Seq(T)
           h == [p \in V \X (1..n) |-> p[1] \o s[p[2]]]
           base == << >>
<1>1. n \in Nat /\ DOMAIN s = 1..n /\ \A i \in 1..n : s[i] \in V
  OBVIOUS
<1>2. base \in V
  OBVIOUS
<1>3. h \in [V \X (1..n) -> V]
  <2>1. ASSUME NEW v \in V, NEW i \in 1..n PROVE v \o s[i] \in V
    BY <1>1, ConcatProperties
  <2> HIDE DEF V
  <2> QED
    BY <2>1
<1> HIDE DEF V
<1>4. FromLeft(n, V, base, h)
  <2> HIDE DEF n, h, base
  <2> QED
    BY <1>1, <1>2, <1>3 DEF FromLeft
<1>5. PICK it : SolvesLeft(n, V, base, h, it)
  <2> HIDE DEF n, h, base
  <2> QED
    BY <1>4, LeftFold
<1>6. ASSUME NEW i \in 1..n PROVE it[1..(i - 1)] \in V /\ it[1..i] = it[1..(i - 1)] \o s[i]
  <2>1. Max(1..i) = i /\ (1..i) \ {i} = 1..(i - 1) /\ 1..i \in SUBSET (1..n) /\ 1..i # {} /\ 1..(i - 1) \in SUBSET (1..n)
    BY <1>1, GreatestUpTo
  <2>2. it[1..(i - 1)] \in V
    BY <1>5, <2>1 DEF SolvesLeft
  <2>3. it[1..i] = h[<<it[1..(i - 1)], i>>]
    <3> HIDE DEF h, n
    <3> QED
      BY <1>5, <2>1 DEF SolvesLeft
  <2> QED
    BY <2>2, <2>3
<1>7. it[{}] = << >>
  BY <1>5 DEF SolvesLeft
<1> HIDE DEF h
<1>8. CASE n = 0
  <2>1. s = << >>
    BY <1>8, EmptySeq
  <2> QED
    BY <1>2, <1>8, <2>1 DEF FlattenSeq, V
<1>9. CASE n # 0
  <2> DEFINE g == [i \in 1..n |-> it[1..i]]
  <2>1. g = [i \in 1..n |-> IF i = 1 THEN s[i] ELSE g[i - 1] \o s[i]]
    <3>1. ASSUME NEW i \in 1..n PROVE it[1..i] = IF i = 1 THEN s[i] ELSE g[i - 1] \o s[i]
      <4>1. CASE i = 1
        <5>0. 1 - 1 = 0 /\ 1..0 = {}
          OBVIOUS
        <5>1. it[1..1] = << >> \o s[1]
          BY <1>6, <1>7, <4>1, <5>0
        <5>2. << >> \o s[1] = s[1]
          BY <1>1, <4>1, ConcatEmptySeq DEF V
        <5> QED
          BY <4>1, <5>1, <5>2
      <4>2. CASE i # 1
        <5>1. i - 1 \in 1..n
          BY <1>1, <4>2, SMTT(30)
        <5> QED
          BY <1>6, <4>2, <5>1
      <4> QED
        BY <4>1, <4>2
    <3> QED
      BY <3>1
  <2> HIDE DEF g
  <2> DEFINE f == CHOOSE q : q = [i \in 1..n |-> IF i = 1 THEN s[i] ELSE q[i - 1] \o s[i]]
  <2>2. f = [i \in 1..n |-> IF i = 1 THEN s[i] ELSE f[i - 1] \o s[i]]
    BY <2>1
  <2>3. FlattenSeq(s) = f[n]
    BY <1>9 DEF FlattenSeq
  <2> HIDE DEF f
  <2> DEFINE P == {i \in 0..n : i # 0 => f[i] \in Q /\ f[i] \in V}
  <2>4. 0 \in P
    BY <1>1
  <2>5. \A i \in 1..n : i - 1 \in P => i \in P
    <3> SUFFICES ASSUME NEW i \in 1..n, i - 1 \in P PROVE f[i] \in Q /\ f[i] \in V
      OBVIOUS
    <3>1. CASE i = 1
      <4>1. f[1] = s[1] /\ s[1] \in V
        BY <1>1, <2>2, <3>1
      <4>2. << >> \o s[1] = s[1]
        BY <4>1, ConcatEmptySeq DEF V
      <4>3. << >> \o s[1] \in Q
        BY <1>2, <3>1 DEF V
      <4> QED
        BY <3>1, <4>1, <4>2, <4>3
    <3>2. CASE i # 1
      <4>1. f[i] = f[i - 1] \o s[i] /\ f[i - 1] \in Q /\ f[i - 1] \in V
        <5>1. i - 1 # 0
          BY <1>1, <3>2
        <5> QED
          BY <2>2, <3>2, <5>1
      <4>2. f[i - 1] \o s[i] \in Q
        BY <4>1 DEF V
      <4>3. f[i - 1] \o s[i] \in V
        BY <1>1, <4>1, ConcatProperties DEF V
      <4> QED
        BY <4>1, <4>2, <4>3
    <3> QED
      BY <3>1, <3>2
  <2>6. \A i \in 0..n : i \in P
    <3> HIDE DEF P, n
    <3> QED
      BY <1>1, <2>4, <2>5, UpTo
  <2> QED
    BY <1>1, <1>9, <2>3, <2>6 DEF V
<1> QED
  BY <1>8, <1>9

\* The pieces of a page.
Glyph == Ids \union {"[", "m:", "]", "gap", "#", "word", "artifact", "rule", "nothing"}

LEMMA PieceFacts ==
  /\ Marks(Glyph) /\ Ids \subseteq Glyph
  /\ \A x \in {"gap", "#", "word", "artifact", "rule", "nothing"} : Parting(Glyph, x)
BY CompositionAssumption DEF Glyph, Marks, Ids, Parting

LEMMA OnePiece == ASSUME NEW T, NEW x \in T PROVE <<x>> \in Seq(T)
OBVIOUS

LEMMA VisibleInPieces ==
  ASSUME NEW text \in Seq(Glyph)
  PROVE  Visible(text) = {id \in Ids : \E i \in 1..Len(text) : MarkedAt(text, i, id)}
<1>1. Marks(Glyph) /\ Ids \subseteq Glyph
  BY PieceFacts
<1> QED
  BY <1>1, VisibleIsMarked

LEMMA PiecesApart ==
  ASSUME NEW a \in Seq(Glyph), NEW b \in Seq(Glyph), NEW x, Parting(Glyph, x)
  PROVE  a \o <<x>> \o b \in Seq(Glyph) /\ Visible(a \o <<x>> \o b) = Visible(a) \union Visible(b)
<1>1. Marks(Glyph) /\ Ids \subseteq Glyph
  BY PieceFacts
<1> QED
  BY <1>1, VisibleApart

LEMMA DraftsAreTexts == Drafts \subseteq Seq(Glyph)
<1>1. Written \subseteq Seq(Glyph)
  <2>1. \A id \in Ids : Marker(id) \in Seq(Glyph)
    BY PieceFacts, MarkerIsText
  <2>2. Stranger \in Glyph
    BY DEF Glyph, Ids
  <2>3. "word" \in Glyph /\ "gap" \in Glyph /\ "#" \in Glyph /\ "[" \in Glyph /\ "m:" \in Glyph /\ "]" \in Glyph
    BY DEF Glyph
  <2>4. /\ <<"word">> \in Seq(Glyph) /\ <<"gap">> \in Seq(Glyph) /\ <<"#">> \in Seq(Glyph) /\ <<"[", "m:">> \in Seq(Glyph)
        /\ <<"[">> \in Seq(Glyph) /\ <<"]">> \in Seq(Glyph) /\ <<"m:", Stranger, "]">> \in Seq(Glyph)
    BY <2>2, <2>3
  <2> QED
    BY <2>1, <2>4 DEF Written
<1>2. ASSUME NEW k \in 0..MaxPieces, NEW s \in [1..k -> Written] PROVE FlattenSeq(s) \in Seq(Glyph)
  <2>1. k \in Nat
    <3>1. MaxPieces \in Nat
      BY CompositionAssumption
    <3> QED
      BY <3>1
  <2>2. s \in Seq(Seq(Glyph)) /\ Len(s) = k
    <3>1. s \in [1..k -> Seq(Glyph)]
      BY <1>1
    <3> QED
      BY <2>1, <3>1
  <2> DEFINE Q == Seq(Glyph)
  <2>3. << >> \in Q
    OBVIOUS
  <2>4. \A v \in Seq(Glyph), i \in 1..Len(s) : v \in Q => v \o s[i] \in Q
    <3> TAKE v \in Seq(Glyph), i \in 1..Len(s)
    <3>1. s[i] \in Seq(Glyph)
      BY <2>2, ElementOfSeq
    <3> QED
      BY <3>1, ConcatProperties
  <2> HIDE DEF Q
  <2> QED
    BY <2>2, <2>3, <2>4, FlattenIn
<1> QED
  BY <1>2 DEF Drafts

LEMMA VisibleBehind ==
  ASSUME NEW b \in Seq(Glyph), NEW x, Parting(Glyph, x)
  PROVE  <<x>> \o b \in Seq(Glyph) /\ Visible(<<x>> \o b) = Visible(b)
<1>1. << >> \in Seq(Glyph) /\ Len(<< >>) = 0
  OBVIOUS
<1>2. Visible(<< >>) = {}
  <2>1. Visible(<< >>) = {id \in Ids : \E i \in 1..Len(<< >>) : MarkedAt(<< >>, i, id)}
    BY <1>1, VisibleInPieces
  <2>2. 1..Len(<< >>) = {}
    BY <1>1
  <2> QED
    BY <2>1, <2>2
<1>3. << >> \o <<x>> = <<x>>
  <2>1. <<x>> \in Seq(Glyph)
    BY DEF Parting
  <2> QED
    BY <2>1, ConcatEmptySeq
<1>4. << >> \o <<x>> \o b \in Seq(Glyph) /\ Visible(<< >> \o <<x>> \o b) = Visible(<< >>) \union Visible(b)
  BY <1>1, PiecesApart
<1> QED
  BY <1>2, <1>3, <1>4

LEMMA MarkerIsVisible ==
  ASSUME NEW id \in Ids
  PROVE  Marker(id) \in Seq(Glyph) /\ Visible(Marker(id)) = {id}
<1> DEFINE d == Marker(id)
<1>1. id \in Glyph
  BY PieceFacts
<1>2. d \in Seq(Glyph) /\ Len(d) = 4 /\ d[1] = "[" /\ d[2] = "m:" /\ d[3] = id /\ d[4] = "]"
  BY <1>1, PieceFacts, MarkerIsText
<1> HIDE DEF d
<1>3. MarkedAt(d, 1, id)
  BY <1>2 DEF MarkedAt
<1>4. \A e \in Ids, i \in 1..Len(d) : MarkedAt(d, i, e) => e = id
  <2> SUFFICES ASSUME NEW e \in Ids, NEW i \in 1..Len(d), MarkedAt(d, i, e) PROVE e = id
    OBVIOUS
  <2>1. i = 1
    BY <1>2 DEF MarkedAt
  <2> QED
    BY <1>2, <2>1 DEF MarkedAt
<1>5. Visible(d) = {id}
  <2>1. Visible(d) = {e \in Ids : \E i \in 1..Len(d) : MarkedAt(d, i, e)}
    BY <1>2, VisibleInPieces
  <2>2. 1 \in 1..Len(d)
    BY <1>2
  <2> QED
    BY <1>3, <1>4, <2>1, <2>2
<1> QED
  BY <1>2, <1>5 DEF d

\* The artifacts show who is cited already.
LEMMA EvidenceIsCited ==
  ASSUME NEW text \in Seq(Glyph), NEW cited \in SUBSET Handed, Visible(text) = cited
  PROVE  text \o EvidenceBlocks(cited) \in Seq(Glyph) /\ Visible(text \o EvidenceBlocks(cited)) = cited
<1> DEFINE D == cited \intersect Detailed
           K == Cardinality(D)
           order == SetToSeq(D)
           s == [i \in 1..K |-> <<"gap", "artifact">> \o Marker(order[i])]
           Q == {v \in Seq(Glyph) : Visible(text \o v) = cited}
<1>1. IsFiniteSet(D) /\ K \in Nat
  <2>1. IsFiniteSet(D)
    BY CompositionAssumption, FS_Subset
  <2> QED
    BY <2>1, FS_CardinalityType
<1>2. \A i \in 1..K : order[i] \in D
  <2>1. \E f \in [1..K -> D] : IsInjective(f)
    <3>1. PICK f : f \in Bijection(1..K, D)
      BY <1>1, FS_CountingElements, FS_NatBijection DEF ExistsBijection
    <3>2. f \in [1..K -> D] /\ \A a, b \in 1..K : f[a] = f[b] => a = b
      BY <3>1 DEF Bijection, Injection, IsInjective
    <3> QED
      BY <3>2 DEF IsInjective
  <2>2. order \in [1..K -> D]
    BY <2>1 DEF SetToSeq
  <2> QED
    BY <2>2
<1>3. D \subseteq Ids /\ D \subseteq cited
  BY DEF Ids
<1> HIDE DEF K, D, order
<1>4. ASSUME NEW i \in 1..K
      PROVE  /\ s[i] = <<"gap">> \o (<<"artifact">> \o Marker(order[i])) /\ s[i] \in Seq(Glyph)
             /\ <<"artifact">> \o Marker(order[i]) \in Seq(Glyph)
             /\ Visible(<<"artifact">> \o Marker(order[i])) = {order[i]}
  <2> DEFINE m == Marker(order[i])
             b == <<"artifact">> \o m
  <2>1. order[i] \in Ids
    BY <1>2, <1>3
  <2>2. m \in Seq(Glyph) /\ Visible(m) = {order[i]}
    BY <2>1, MarkerIsVisible
  <2> HIDE DEF m
  <2>3. b \in Seq(Glyph) /\ Visible(b) = {order[i]}
    BY <2>2, PieceFacts, VisibleBehind
  <2>4. <<"gap", "artifact">> = <<"gap">> \o <<"artifact">>
    OBVIOUS
  <2>5. <<"gap">> \in Seq(Glyph) /\ <<"artifact">> \in Seq(Glyph)
    <3>1. "gap" \in Glyph /\ "artifact" \in Glyph
      BY DEF Glyph
    <3> QED
      BY <3>1
  <2>6. (<<"gap">> \o <<"artifact">>) \o m = <<"gap">> \o (<<"artifact">> \o m)
    BY <2>2, <2>5, ConcatAssociative
  <2>7. s[i] = <<"gap", "artifact">> \o m
    BY DEF m
  <2>8. <<"gap">> \o b \in Seq(Glyph)
    BY <2>3, PieceFacts, VisibleBehind
  <2> QED
    BY <2>3, <2>4, <2>6, <2>7, <2>8 DEF m
<1>5. s \in Seq(Seq(Glyph)) /\ Len(s) = K
  <2>1. s \in [1..K -> Seq(Glyph)]
    BY <1>4
  <2> HIDE DEF s
  <2> QED
    BY <1>1, <2>1
<1>6. << >> \in Q
  BY ConcatEmptySeq
<1>7. ASSUME NEW v \in Seq(Glyph), NEW i \in 1..Len(s), v \in Q PROVE v \o s[i] \in Q
  <2> DEFINE b == <<"artifact">> \o Marker(order[i])
             g == <<"gap">>
  <2>1. i \in 1..K /\ s[i] = g \o b /\ s[i] \in Seq(Glyph) /\ b \in Seq(Glyph) /\ Visible(b) = {order[i]} /\ order[i] \in cited
    BY <1>2, <1>3, <1>4, <1>5
  <2> HIDE DEF b, s
  <2>2. g \in Seq(Glyph)
    <3>1. "gap" \in Glyph
      BY DEF Glyph
    <3> QED
      BY <3>1
  <2>3. text \o v \in Seq(Glyph) /\ v \o s[i] \in Seq(Glyph)
    BY <2>1, ConcatProperties
  <2>4. text \o (v \o (g \o b)) = (text \o v) \o g \o b
    <3> DEFINE tv == text \o v
               gb == g \o b
    <3>1. gb \in Seq(Glyph) /\ tv \in Seq(Glyph)
      BY <2>1, <2>3
    <3>2. tv \o gb = text \o (v \o gb)
      <4> HIDE DEF gb
      <4> QED
        BY <3>1, ConcatAssociative, SMTT(30)
    <3>3. (tv \o g) \o b = tv \o gb
      <4> HIDE DEF g, tv
      <4> QED
        BY <2>1, <2>2, <3>1, ConcatAssociative, SMTT(30)
    <3> QED
      BY <3>2, <3>3
  <2>5. Visible((text \o v) \o g \o b) = Visible(text \o v) \union Visible(b)
    BY <2>1, <2>3, PieceFacts, PiecesApart
  <2> QED
    BY <1>7, <2>1, <2>3, <2>4, <2>5
<1> HIDE DEF s, Q
<1>8. FlattenSeq(s) \in Q /\ FlattenSeq(s) \in Seq(Glyph)
  BY <1>5, <1>6, <1>7, FlattenIn
<1>9. EvidenceBlocks(cited) = FlattenSeq(s)
  BY DEF EvidenceBlocks, s, K, D, order
<1> QED
  BY <1>8, <1>9, ConcatProperties DEF Q

\* A paragraph with an opening shows a memory that was handed out, unless a marker was
\* never closed.
LEMMA ParagraphsAreSourced ==
  ASSUME NEW text \in Seq(Glyph), NEW p \in Range(Paragraphs(text)), Sourced(p),
         \A k \in 1..Len(text) : Opens(text, k) => \E j \in k..Len(text) : text[j] = "]",
         \A k \in 1..Len(text) : Opens(text, k) /\ (\E j \in (k + 2)..Len(text) : text[j] = "]") =>
           \E id \in Handed : MarkedAt(text, k, id)
  PROVE  Visible(p) # {}
<1> DEFINE n == Len(text)
           l == Len(p)
<1>1. p \in Seq(Glyph) /\ \E a : Stretch(text, "gap", p, a)
  BY Stretches DEF Paragraphs
<1>2. PICK a : Stretch(text, "gap", p, a)
  BY <1>1
<1>3. a \in Nat /\ a + l <= n /\ (\A k \in 1..l : p[k] = text[a + k]) /\ (a + l = n \/ text[a + l + 1] = "gap")
      /\ n \in Nat /\ l \in Nat
  BY <1>1, <1>2, LenProperties DEF Stretch
<1>4. PICK i \in 1..l : Opens(p, i)
  BY <1>1 DEF Sourced
<1> DEFINE k == a + i
<1>5. i < l /\ p[i] = "[" /\ p[i + 1] = "m:"
  BY <1>4 DEF Opens
<1> HIDE DEF n, l
<1>6. k \in 1..n /\ k < n /\ k \in Nat /\ a + (i + 1) = k + 1 /\ a + (i + 2) = k + 2 /\ a + (i + 3) = k + 3 /\ i + 1 \in 1..l
  BY <1>3, <1>5
<1>7. text[k] = "[" /\ text[k + 1] = "m:"
  BY <1>3, <1>5, <1>6
<1> HIDE DEF k
<1>8. Opens(text, k)
  BY <1>6, <1>7 DEF Opens, n
<1>9. PICK j \in k..n : text[j] = "]"
  BY <1>6, <1>8 DEF n
<1>10. j \in (k + 2)..n
  <2>1. j # k /\ j # k + 1
    BY <1>7, <1>9
  <2> QED
    BY <1>3, <1>6, <2>1
<1>11. PICK id \in Handed : MarkedAt(text, k, id)
  BY <1>6, <1>8, <1>9, <1>10 DEF n
<1>12. k + 3 <= n /\ text[k + 2] = id /\ text[k + 3] = "]" /\ id \in Ids /\ id # "gap"
  <2>1. id \in Ids /\ id # "gap"
    BY CompositionAssumption DEF Ids
  <2> QED
    BY <1>11, <2>1 DEF MarkedAt, n
<1>13. i + 3 <= l
  <2>1. CASE a + l = n
    BY <1>3, <1>6, <1>12, <2>1
  <2>2. CASE text[a + l + 1] = "gap"
    <3>1. a + l + 1 # k + 2 /\ a + l + 1 # k + 3
      BY <1>12, <2>2
    <3> QED
      BY <1>3, <1>5, <1>6, <3>1
  <2> QED
    BY <1>3, <2>1, <2>2
<1>14. p[i + 2] = id /\ p[i + 3] = "]"
  <2>1. i + 2 \in 1..l /\ i + 3 \in 1..l
    BY <1>3, <1>13
  <2>2. p[i + 2] = text[a + (i + 2)] /\ p[i + 3] = text[a + (i + 3)]
    BY <1>3, <2>1
  <2> QED
    BY <1>6, <1>12, <2>2
<1>15. MarkedAt(p, i, id)
  BY <1>5, <1>13, <1>14 DEF MarkedAt, l
<1>16. id \in Visible(p)
  <2>1. Visible(p) = {e \in Ids : \E x \in 1..Len(p) : MarkedAt(p, x, e)}
    BY <1>1, VisibleInPieces
  <2> QED
    BY <1>12, <1>15, <2>1 DEF l
<1> QED
  BY <1>16

\* The page's other section shows what it is composed from.
LEMMA OtherSection ==
  ASSUME NEW mode \in {"pinned", "empty", "standards"}
  PROVE  /\ ComposeSection(mode).clean \in Seq(Glyph) /\ ComposeSection(mode).unbacked = FALSE
         /\ Visible(ComposeSection(mode).clean) = ComposeSection(mode).cited
<1>1. << >> \in Seq(Glyph) /\ Visible(<< >>) = {}
  <2>1. << >> \in Seq(Glyph) /\ 1..Len(<< >>) = {}
    OBVIOUS
  <2> QED
    BY <2>1, VisibleInPieces
<1>2. \A x \in {"word", "nothing"} : <<x>> \in Seq(Glyph) /\ Visible(<<x>>) = {}
  <2> TAKE x \in {"word", "nothing"}
  <2>1. Parting(Glyph, x)
    BY PieceFacts
  <2>2. <<x>> \o << >> \in Seq(Glyph) /\ Visible(<<x>> \o << >>) = {}
    BY <1>1, <2>1, VisibleBehind
  <2>3. <<x>> \o << >> = <<x>>
    <3>1. x \in Glyph
      BY <2>1 DEF Parting
    <3>2. <<x>> \in Seq(Glyph)
      BY <3>1, OnePiece
    <3> QED
      BY <3>2, ConcatEmptySeq
  <2> QED
    BY <2>2, <2>3
<1>3. CASE mode = "pinned"
  <2>1. ComposeSection(mode) = [clean |-> <<"word">>, cited |-> {}, unbacked |-> FALSE]
    BY <1>3 DEF ComposeSection
  <2>2. "word" \in {"word", "nothing"}
    OBVIOUS
  <2>3. <<"word">> \in Seq(Glyph) /\ Visible(<<"word">>) = {}
    BY <1>2, <2>2
  <2> DEFINE w == <<"word">>
  <2> HIDE DEF w
  <2>4. ComposeSection(mode).clean = w /\ ComposeSection(mode).cited = {} /\ ComposeSection(mode).unbacked = FALSE
    BY <2>1 DEF w
  <2> QED
    BY <2>3, <2>4 DEF w
<1>4. CASE mode = "empty"
  <2>1. ComposeSection(mode) = [clean |-> <<"nothing">>, cited |-> {}, unbacked |-> FALSE]
    BY <1>4 DEF ComposeSection
  <2>2. "nothing" \in {"word", "nothing"}
    OBVIOUS
  <2>3. <<"nothing">> \in Seq(Glyph) /\ Visible(<<"nothing">>) = {}
    BY <1>2, <2>2
  <2> DEFINE w == <<"nothing">>
  <2> HIDE DEF w
  <2>4. ComposeSection(mode).clean = w /\ ComposeSection(mode).cited = {} /\ ComposeSection(mode).unbacked = FALSE
    BY <2>1 DEF w
  <2> QED
    BY <2>3, <2>4 DEF w
<1>5. CASE mode = "standards"
  <2>1. ComposeSection(mode) = [clean |-> <<"rule">> \o Marker(Stranger), cited |-> {Stranger}, unbacked |-> FALSE]
    BY <1>5 DEF ComposeSection
  <2>2. Marker(Stranger) \in Seq(Glyph) /\ Visible(Marker(Stranger)) = {Stranger}
    BY MarkerIsVisible DEF Ids
  <2>3. <<"rule">> \o Marker(Stranger) \in Seq(Glyph) /\ Visible(<<"rule">> \o Marker(Stranger)) = {Stranger}
    BY <2>2, PieceFacts, VisibleBehind
  <2> QED
    BY <2>1, <2>3
<1> QED
  BY <1>3, <1>4, <1>5

LEMMA FirewallStands == CompositionInit => FirewallHolds
<1> SUFFICES ASSUME CompositionInit PROVE FirewallHolds
  OBVIOUS
<1> DEFINE text == composedText
           c == Cleaned(text)
           own == EnforceCitations(text)
           first == ComposeSection("composed")
           second == ComposeSection(other)
           doc == ComposeDocument
<1>1. text \in Seq(Glyph) /\ other \in {"pinned", "empty", "standards"}
  BY DraftsAreTexts DEF CompositionInit
<1>2. own = [clean |-> c.clean, cited |-> c.cited,
             unbacked |-> c.invented \/ \E p \in Range(Paragraphs(c.clean)) : Prose(p) /\ ~ Sourced(p)]
  BY DEF EnforceCitations
<1>3. first = [own EXCEPT !.clean = @ \o EvidenceBlocks(own.cited)]
  BY DEF ComposeSection
<1>4. doc = [body |-> first.clean \o <<"gap", "#", "gap">> \o second.clean,
             composedFrom |-> first.cited \union second.cited,
             unbacked |-> first.unbacked \/ second.unbacked]
  BY DEF ComposeDocument
<1> HIDE DEF c, own, first, doc
<1>5. c \in Enforced(Glyph) /\ c.cited \in SUBSET Handed
  <2>1. c \in Enforced(Glyph)
    BY <1>1, PieceFacts, CleanedIsHonest DEF c
  <2> QED
    BY <2>1 DEF Enforced
<1>6. /\ first.clean = c.clean \o EvidenceBlocks(c.cited) /\ first.cited = c.cited /\ first.unbacked = own.unbacked
      /\ own.clean = c.clean /\ own.cited = c.cited
  BY <1>2, <1>3
<1>7. second.clean \in Seq(Glyph) /\ second.unbacked = FALSE /\ Visible(second.clean) = second.cited
  BY <1>1, OtherSection
<1> HIDE DEF second
<1>8. ASSUME ~ doc.unbacked
      PROVE  /\ Visible(doc.body) = doc.composedFrom /\ own.cited \subseteq Handed
             /\ LeftOpen \/ \A p \in Range(Paragraphs(own.clean)) : Prose(p) => Visible(p) # {}
  <2>1. ~ c.invented /\ \A p \in Range(Paragraphs(c.clean)) : Prose(p) => Sourced(p)
    BY <1>2, <1>4, <1>6, <1>8
  <2>2. /\ c.clean = text
        /\ c.cited = {id \in Handed : \E k \in 1..Len(text) : MarkedAt(text, k, id)}
        /\ \A k \in 1..Len(text) : Opens(text, k) /\ (\E j \in (k + 2)..Len(text) : text[j] = "]") =>
             \E id \in Handed : MarkedAt(text, k, id)
    BY <1>1, <2>1, PieceFacts, CleanedIsHonest DEF c
  <2>3. Visible(text) = c.cited
    <3>1. Visible(text) = {id \in Ids : \E k \in 1..Len(text) : MarkedAt(text, k, id)}
      BY <1>1, VisibleInPieces
    <3>2. ASSUME NEW id \in Ids, NEW k \in 1..Len(text), MarkedAt(text, k, id) PROVE id \in Handed
      <4>1. Opens(text, k) /\ k + 3 \in (k + 2)..Len(text) /\ text[k + 3] = "]"
        BY <1>1, <3>2, LenProperties DEF MarkedAt, Opens
      <4>2. PICK d \in Handed : MarkedAt(text, k, d)
        BY <2>2, <4>1
      <4> QED
        BY <3>2, <4>2 DEF MarkedAt
    <3> QED
      BY <2>2, <3>1, <3>2 DEF Ids
  <2>4. first.clean \in Seq(Glyph) /\ Visible(first.clean) = c.cited
    BY <1>1, <1>5, <1>6, <2>2, <2>3, EvidenceIsCited
  <2>5. Visible(doc.body) = doc.composedFrom
    <3> DEFINE g == <<"gap">>
               h == <<"#">>
               t == second.clean
               gt == g \o t
               hgt == h \o gt
    <3>1. g \in Seq(Glyph) /\ h \in Seq(Glyph)
      <4>1. "gap" \in Glyph /\ "#" \in Glyph
        BY DEF Glyph
      <4> QED
        BY <4>1
    <3>2. gt \in Seq(Glyph) /\ Visible(gt) = second.cited
      <4> HIDE DEF t
      <4> QED
        BY <1>7, PieceFacts, VisibleBehind DEF t
    <3>3. hgt \in Seq(Glyph) /\ Visible(hgt) = second.cited
      <4> HIDE DEF gt
      <4> QED
        BY <3>2, PieceFacts, VisibleBehind
    <3>4. Visible(first.clean \o g \o hgt) = c.cited \union second.cited
      <4>1. Parting(Glyph, "gap")
        BY PieceFacts
      <4> DEFINE f == first.clean
      <4>2. f \in Seq(Glyph)
        BY <2>4
      <4> HIDE DEF hgt, f
      <4>3. Visible(f \o <<"gap">> \o hgt) = Visible(f) \union Visible(hgt)
        BY <3>3, <4>1, <4>2, PiecesApart
      <4> QED
        BY <2>4, <3>3, <4>3 DEF f
    <3>5. first.clean \o <<"gap", "#", "gap">> \o t = first.clean \o g \o hgt
      <4> DEFINE f == first.clean
                 gh == g \o h
                 ghg == gh \o g
      <4>1. <<"gap", "#", "gap">> = ghg
        OBVIOUS
      <4>2. f \in Seq(Glyph) /\ t \in Seq(Glyph) /\ gh \in Seq(Glyph) /\ ghg \in Seq(Glyph)
        <5>1. f \in Seq(Glyph) /\ t \in Seq(Glyph)
          BY <1>7, <2>4
        <5> HIDE DEF f, t, g, h
        <5>2. gh \in Seq(Glyph)
          BY <3>1, ConcatProperties
        <5> HIDE DEF gh
        <5>3. ghg \in Seq(Glyph)
          BY <3>1, <5>2, ConcatProperties
        <5> QED
          BY <5>1, <5>2, <5>3
      <4>3. (f \o ghg) \o t = f \o (ghg \o t)
        <5> HIDE DEF f, ghg, t
        <5> QED
          BY <4>2, ConcatAssociative, SMTT(30)
      <4>4. ghg \o t = gh \o gt
        <5> HIDE DEF f, gh, g, t
        <5> QED
          BY <3>1, <4>2, ConcatAssociative, SMTT(30)
      <4>5. gh \o gt = g \o hgt
        <5> HIDE DEF g, h, gt
        <5> QED
          BY <3>1, <3>2, ConcatAssociative
      <4>6. (f \o g) \o hgt = f \o (g \o hgt)
        <5> HIDE DEF f, g, hgt
        <5> QED
          BY <3>1, <3>3, <4>2, ConcatAssociative, SMTT(30)
      <4> HIDE DEF f, g, h, gt, hgt, t, gh, ghg
      <4>7. (f \o ghg) \o t = (f \o g) \o hgt
        BY <4>3, <4>4, <4>5, <4>6
      <4> QED
        BY <4>1, <4>7 DEF f
    <3> HIDE DEF g, h, gt, hgt
    <3>6. doc.body = first.clean \o <<"gap", "#", "gap">> \o t /\ doc.composedFrom = c.cited \union second.cited
      BY <1>4, <1>6
    <3> QED
      BY <3>4, <3>5, <3>6
  <2>6. ASSUME ~ LeftOpen, NEW p \in Range(Paragraphs(own.clean)), Prose(p) PROVE Visible(p) # {}
    <3>1. own.clean = text /\ Sourced(p) /\ p \in Range(Paragraphs(text))
      BY <1>6, <2>1, <2>2, <2>6
    <3>2. \A k \in 1..Len(text) : Opens(text, k) => \E j \in k..Len(text) : text[j] = "]"
      BY <1>1, <2>6 DEF LeftOpen
    <3> QED
      BY <1>1, <2>2, <3>1, <3>2, ParagraphsAreSourced
  <2> QED
    BY <1>5, <1>6, <2>5, <2>6
<1> QED
  BY <1>8 DEF FirewallHolds, doc, own

-----------------------------------------------------------------------------
(* Texts put together. *)

\* What the joining of some parts goes through, one part after the other.
JoinGoes(T, ps, mark, r) ==
  /\ r \in [0..Len(ps) -> Seq(T)] /\ r[0] = << >> /\ r[Len(ps)] = Joined(ps, mark)
  /\ \A i \in 1..Len(ps) : r[i] = Join(r[i - 1], ps[i], mark)
LEMMA JoinRuns ==
  ASSUME NEW T, NEW ps \in Seq(Seq(T)), NEW mark \in T
  PROVE  \E r : JoinGoes(T, ps, mark, r)
<1> DEFINE n == Len(ps)
           V == Seq(T)
           h == [p \in V \X (1..n) |-> Join(p[1], ps[p[2]], mark)]
           base == << >>
<1>1. n \in Nat /\ DOMAIN ps = 1..n /\ \A i \in 1..n : ps[i] \in V
  OBVIOUS
<1>2. base \in V
  OBVIOUS
<1>3. \A v \in V, q \in V : Join(v, q, mark) \in V
  BY DEF Join
<1>3a. h \in [V \X (1..n) -> V]
  <2> HIDE DEF V
  <2> QED
    BY <1>1, <1>3
<1>4. FromLeft(n, V, base, h) /\ \E it : SolvesLeft(n, V, base, h, it)
  <2> HIDE DEF n, V, h, base
  <2>1. FromLeft(n, V, base, h)
    BY <1>1, <1>2, <1>3a DEF FromLeft
  <2> QED
    BY <2>1, LeftFold
<1>0. PICK it : SolvesLeft(n, V, base, h, it)
  BY <1>4
<1>5. ASSUME NEW t \in SUBSET (1..n), t # {}
      PROVE  it[t] = Join(it[t \ {Max(t)}], ps[Max(t)], mark)
  <2>1. Max(t) \in 1..n /\ it[t \ {Max(t)}] \in V
    BY <1>0, <1>1, <1>5, GreatestOf DEF SolvesLeft
  <2> HIDE DEF V, base
  <2> QED
    BY <1>0, <1>5, <2>1 DEF SolvesLeft
<1> HIDE DEF h
<1>6. it = [t \in SUBSET (1..n) |-> IF t = {} THEN base ELSE Join(it[t \ {Max(t)}], ps[Max(t)], mark)]
  <2>1. it \in [SUBSET (1..n) -> V] /\ it[{}] = base
    BY <1>0 DEF SolvesLeft
  <2> QED
    BY <1>5, <2>1
<1> DEFINE f == CHOOSE g : g = [t \in SUBSET (DOMAIN ps) |-> IF t = {} THEN base ELSE Join(g[t \ {Max(t)}], ps[Max(t)], mark)]
<1>7. f = [t \in SUBSET (1..n) |-> IF t = {} THEN base ELSE Join(f[t \ {Max(t)}], ps[Max(t)], mark)]
  BY <1>1, <1>6
<1>8. Joined(ps, mark) = f[1..n]
  BY <1>1 DEF Joined, FoldLeft, MapThenFoldSet
<1> HIDE DEF f
<1>9. f[{}] = base
  BY <1>7
<1>10. ASSUME NEW i \in 1..n, f[1..(i - 1)] \in V
       PROVE  f[1..i] = h[<<f[1..(i - 1)], i>>] /\ f[1..i] = Join(f[1..(i - 1)], ps[i], mark)
  <2>1. Max(1..i) = i /\ (1..i) \ {i} = 1..(i - 1) /\ 1..i \in SUBSET (1..n) /\ 1..i # {}
    BY <1>1, GreatestUpTo, SMTT(30)
  <2>2. f[1..i] = Join(f[1..(i - 1)], ps[i], mark)
    BY <1>7, <2>1
  <2>3. h[<<f[1..(i - 1)], i>>] = Join(f[1..(i - 1)], ps[i], mark)
    <3> HIDE DEF V
    <3> QED
      BY <1>10 DEF h
  <2> QED
    BY <2>2, <2>3
<1>11. PICK r : Goes(n, V, base, h, r) /\ r[n] = f[1..n]
  <2> HIDE DEF n, V, base
  <2> QED
    BY <1>4, <1>9, <1>10, FoldClimbs
<1>12. ASSUME NEW i \in 1..n PROVE r[i] = Join(r[i - 1], ps[i], mark)
  <2>1. r[i] = h[<<r[i - 1], i>>] /\ r[i - 1] \in V
    BY <1>1, <1>11 DEF Goes
  <2> HIDE DEF V
  <2> QED
    BY <2>1 DEF h
<1> QED
  BY <1>8, <1>11, <1>12 DEF Goes, JoinGoes

\* What dropping the empty parts goes through.
KeepGoes(T, ps, r) ==
  /\ r \in [0..Len(ps) -> Seq(Seq(T))] /\ r[0] = << >>
  /\ r[Len(ps)] = NoEmpty(ps)
  /\ \A i \in 1..Len(ps) : r[i] = Nonempty(r[i - 1], ps[i])
LEMMA KeepRuns ==
  ASSUME NEW T, NEW ps \in Seq(Seq(T))
  PROVE  \E r : KeepGoes(T, ps, r)
<1> DEFINE n == Len(ps)
           V == Seq(Seq(T))
           h == [p \in V \X (1..n) |-> Nonempty(p[1], ps[p[2]])]
           base == << >>
<1>1. n \in Nat /\ DOMAIN ps = 1..n /\ \A i \in 1..n : ps[i] \in Seq(T)
  OBVIOUS
<1>2. base \in V
  OBVIOUS
<1>3. \A v \in V, q \in Seq(T) : Nonempty(v, q) \in V
  BY AppendProperties DEF Nonempty
<1>3a. h \in [V \X (1..n) -> V]
  <2> HIDE DEF V
  <2> QED
    BY <1>1, <1>3
<1>4. FromLeft(n, V, base, h) /\ \E it : SolvesLeft(n, V, base, h, it)
  <2> HIDE DEF n, V, h, base
  <2>1. FromLeft(n, V, base, h)
    BY <1>1, <1>2, <1>3a DEF FromLeft
  <2> QED
    BY <2>1, LeftFold
<1>0. PICK it : SolvesLeft(n, V, base, h, it)
  BY <1>4
<1>5. ASSUME NEW t \in SUBSET (1..n), t # {}
      PROVE  it[t] = Nonempty(it[t \ {Max(t)}], ps[Max(t)])
  <2>1. Max(t) \in 1..n /\ it[t \ {Max(t)}] \in V
    BY <1>0, <1>1, <1>5, GreatestOf DEF SolvesLeft
  <2> HIDE DEF V, base
  <2> QED
    BY <1>0, <1>5, <2>1 DEF SolvesLeft
<1> HIDE DEF h
<1>6. it = [t \in SUBSET (1..n) |-> IF t = {} THEN base ELSE Nonempty(it[t \ {Max(t)}], ps[Max(t)])]
  <2>1. it \in [SUBSET (1..n) -> V] /\ it[{}] = base
    BY <1>0 DEF SolvesLeft
  <2> QED
    BY <1>5, <2>1
<1> DEFINE f == CHOOSE g : g = [t \in SUBSET (DOMAIN ps) |-> IF t = {} THEN base ELSE Nonempty(g[t \ {Max(t)}], ps[Max(t)])]
<1>7. f = [t \in SUBSET (1..n) |-> IF t = {} THEN base ELSE Nonempty(f[t \ {Max(t)}], ps[Max(t)])]
  BY <1>1, <1>6
<1>8. NoEmpty(ps) = f[1..n]
  BY <1>1 DEF NoEmpty, FoldLeft, MapThenFoldSet
<1> HIDE DEF f
<1>9. f[{}] = base
  BY <1>7
<1>10. ASSUME NEW i \in 1..n, f[1..(i - 1)] \in V
       PROVE  f[1..i] = h[<<f[1..(i - 1)], i>>] /\ f[1..i] = Nonempty(f[1..(i - 1)], ps[i])
  <2>1. Max(1..i) = i /\ (1..i) \ {i} = 1..(i - 1) /\ 1..i \in SUBSET (1..n) /\ 1..i # {}
    BY <1>1, GreatestUpTo, SMTT(30)
  <2>2. f[1..i] = Nonempty(f[1..(i - 1)], ps[i])
    BY <1>7, <2>1
  <2>3. h[<<f[1..(i - 1)], i>>] = Nonempty(f[1..(i - 1)], ps[i])
    <3> HIDE DEF V
    <3> QED
      BY <1>10 DEF h
  <2> QED
    BY <2>2, <2>3
<1>11. PICK r : Goes(n, V, base, h, r) /\ r[n] = f[1..n]
  <2> HIDE DEF n, V, base
  <2> QED
    BY <1>4, <1>9, <1>10, FoldClimbs
<1>12. ASSUME NEW i \in 1..n PROVE r[i] = Nonempty(r[i - 1], ps[i])
  <2> HIDE DEF V
  <2>0. i - 1 \in 0..n /\ n \in Nat
    BY <1>1
  <2> HIDE DEF n
  <2>1. r[i] = h[<<r[i - 1], i>>] /\ r[i - 1] \in V
    BY <2>0, <1>11 DEF Goes
  <2> QED
    BY <2>1 DEF h
<1> QED
  BY <1>8, <1>11, <1>12 DEF Goes, KeepGoes

\* Where no part is empty none is dropped.
LEMMA AllKept ==
  ASSUME NEW T, NEW ps \in Seq(Seq(T)), \A i \in 1..Len(ps) : ps[i] # << >>
  PROVE  NoEmpty(ps) = ps
<1>1. PICK r : KeepGoes(T, ps, r)
  BY KeepRuns
<1> DEFINE n == Len(ps)
           P == {i \in 0..n : r[i] = SubSeq(ps, 1, i)}
<1>2. n \in Nat /\ SubSeq(ps, 1, 0) = << >> /\ SubSeq(ps, 1, n) = ps
  BY SubSeqEmpty, SubSeqFull
<1>3. 0 \in P
  BY <1>1, <1>2 DEF KeepGoes
<1>4. ASSUME NEW i \in 1..n, i - 1 \in P PROVE i \in P
  <2>1. SubSeq(ps, 1, i) = SubSeq(ps, 1, i - 1) \o <<ps[i]>>
    <3>1. 1 \in 1..Len(ps) /\ i \in 1..Len(ps)
      BY <1>2
    <3> QED
      BY <3>1, SubSeqRecursiveSecond
  <2>0. i - 1 \in 0..n /\ ps[i] \in Seq(T) /\ ps[i] # << >>
    BY <1>2
  <2>2. r[i] = Append(SubSeq(ps, 1, i - 1), ps[i]) /\ r[i - 1] = SubSeq(ps, 1, i - 1) /\ r[i - 1] \in Seq(Seq(T))
    <3>1. r[i] = Nonempty(r[i - 1], ps[i]) /\ r[i - 1] \in Seq(Seq(T))
      BY <1>1, <2>0 DEF KeepGoes
    <3>2. r[i - 1] = SubSeq(ps, 1, i - 1)
      BY <1>4
    <3> QED
      BY <2>0, <3>1, <3>2 DEF Nonempty
  <2>3. r[i] = SubSeq(ps, 1, i - 1) \o <<ps[i]>>
    BY <2>0, <2>2, AppendIsConcat
  <2> QED
    BY <2>1, <2>3
<1>5. n \in P
  <2>1. \A i \in 0..n : i \in P
    <3> HIDE DEF P, n
    <3> QED
      BY <1>2, <1>3, <1>4, UpTo
  <2>2. n \in 0..n
    BY <1>2
  <2> HIDE DEF P, n
  <2> QED
    BY <2>1, <2>2
<1> QED
  BY <1>1, <1>2, <1>5 DEF KeepGoes

\* How texts are put together does not matter.
LEMMA Together == ASSUME NEW T PROVE \A v, a, x \in Seq(T) : (v \o a) \o x = v \o (a \o x)
  BY ConcatAssociative

\* A further piece goes into the last part, or begins one.
LEMMA SplitAdds ==
  ASSUME NEW T, NEW s \in Seq(T), NEW t \in T, NEW mark
  PROVE  SplitAt(Append(s, t), mark) = Split(SplitAt(s, mark), t, mark)
<1> DEFINE n == Len(s)
           u == Append(s, t)
<1>1. n \in Nat /\ u \in Seq(T) /\ Len(u) = n + 1 /\ u[n + 1] = t /\ \A i \in 1..n : u[i] = s[i]
  BY AppendProperties
<1>2. PICK r : SplitGoes(T, s, mark, r)
  BY SplitRuns
<1>3. PICK q : SplitGoes(T, u, mark, q)
  BY <1>1, SplitRuns
<1> HIDE DEF u
<1> DEFINE P == {i \in 0..n : r[i] = q[i]}
<1>4. 0 \in P
  <2>1. r[0] = << << >> >>
    BY <1>2 DEF SplitGoes
  <2>2. q[0] = << << >> >>
    BY <1>3 DEF SplitGoes
  <2>3. 0 \in 0..n
    BY <1>1
  <2> QED
    BY <2>1, <2>2, <2>3
<1>5. ASSUME NEW i \in 1..n, i - 1 \in P PROVE i \in P
  <2>1. i \in 1..Len(u) /\ i \in 0..n
    BY <1>1
  <2>2. r[i] = Split(r[i - 1], s[i], mark) /\ q[i] = Split(q[i - 1], u[i], mark)
    BY <1>2, <1>3, <2>1 DEF SplitGoes
  <2>3. r[i] = q[i]
    BY <1>1, <1>5, <2>2
  <2> QED
    BY <2>1, <2>3
<1>6. r[n] = q[n]
  <2>1. \A i \in 0..n : i \in P
    <3> HIDE DEF P, n
    <3> QED
      BY <1>1, <1>4, <1>5, UpTo
  <2>2. n \in P
    <3> HIDE DEF P
    <3> QED
      BY <1>1, <2>1
  <2> QED
    BY <2>2
<1>7. n + 1 \in 1..Len(u) /\ (n + 1) - 1 = n
  BY <1>1
<1>8. q[n + 1] = Split(q[n], t, mark)
  BY <1>1, <1>3, <1>7 DEF SplitGoes
<1> QED
  BY <1>1, <1>2, <1>3, <1>6, <1>8 DEF SplitGoes, u

\* What parts are.
LEMMA PartFacts ==
  ASSUME NEW T, NEW ps \in Parts(T)
  PROVE  /\ ps \in Seq(Seq(T)) /\ Len(ps) \in Nat /\ Len(ps) >= 1 /\ Len(ps) \in 1..Len(ps)
         /\ \A k \in 1..Len(ps) : ps[k] \in Seq(T) /\ Len(ps[k]) \in Nat
<1>1. ps \in Seq(Seq(T)) /\ ps # << >>
  BY DEF Parts
<1>2. Len(ps) \in Nat /\ Len(ps) # 0
  BY <1>1, EmptySeq, LenProperties
<1> QED
  BY <1>1, <1>2, ElementOfSeq, LenProperties

\* Without a mark in it, what is put behind a text belongs to its last part.
Onto(ps, b) == [ps EXCEPT ![Len(ps)] = ps[Len(ps)] \o b]
Markless(b, mark) == \A j \in 1..Len(b) : b[j] # mark
LEMMA SplitPlain ==
  ASSUME NEW T, NEW s \in Seq(T), NEW b \in Seq(T), NEW mark, Markless(b, mark)
  PROVE  SplitAt(s \o b, mark) = Onto(SplitAt(s, mark), b)
<1> DEFINE ps == SplitAt(s, mark)
<1> HIDE DEF ps
<1>0. SplitAt(s, mark) = ps /\ ps = SplitAt(s, mark) /\ ps \in Parts(T)
  BY Stretches DEF ps
<1> DEFINE n == Len(b)
           m == Len(ps)
           head(i) == SubSeq(b, 1, i)
           P == {i \in 0..n : SplitAt(s \o head(i), mark) = [ps EXCEPT ![m] = ps[m] \o head(i)]}
<1>1. ps \in Seq(Seq(T)) /\ m \in Nat /\ m >= 1 /\ m \in 1..m /\ ps[m] \in Seq(T)
  <2> QED
    BY <1>0, PartFacts
<1>2. n \in Nat /\ head(0) = << >> /\ head(n) = b
  BY SubSeqEmpty, SubSeqFull
<1>3. 0 \in P
  <2>1. s \o << >> = s /\ ps[m] \o << >> = ps[m]
    BY <1>1, ConcatEmptySeq
  <2>2. [ps EXCEPT ![m] = ps[m]] = ps
    BY <1>1
  <2> HIDE DEF m, head
  <2>3. ps = SplitAt(s, mark)
    BY <1>0
  <2>4. SplitAt(s \o head(0), mark) = [ps EXCEPT ![m] = ps[m] \o head(0)]
    BY <1>2, <2>1, <2>2, <2>3
  <2> QED
    BY <1>2, <2>4
<1>4. ASSUME NEW i \in 1..n, i - 1 \in P PROVE i \in P
  <2>1. b[i] \in T /\ b[i] # mark /\ 1 \in 1..n /\ i \in 1..n
    BY <1>2 DEF Markless
  <2>2. head(i) = head(i - 1) \o <<b[i]>>
    BY <2>1, SubSeqRecursiveSecond
  <2>3. head(i - 1) \in Seq(T) /\ <<b[i]>> \in Seq(T)
    <3>1. \A j \in 1..(i - 1) : b[j] \in T
      BY <1>2
    <3>2. head(i - 1) \in Seq(T)
      BY <3>1, SubSeqProperties
    <3> QED
      BY <2>1, <3>2, OnePiece
  <2> DEFINE a == head(i - 1)
             e == ps[m] \o a
             qs == [ps EXCEPT ![m] = e]
  <2>4. SplitAt(s \o a, mark) = qs
    BY <1>4
  <2>4a. a \in Seq(T) /\ head(i) = a \o <<b[i]>> /\ e \in Seq(T)
    BY <1>1, <2>2, <2>3, ConcatProperties
  <2> HIDE DEF head, a
  <2> DEFINE x == <<b[i]>>
             w == s \o a
  <2>4b. x \in Seq(T)
    BY <2>3
  <2>4c. \A u \in Seq(T) : Append(u, b[i]) = u \o x
    BY <2>1, AppendIsConcat
  <2>4d. head(i) = a \o x
    BY <2>4a
  <2> HIDE DEF x
  <2>4e. s \in Seq(T) /\ a \in Seq(T) /\ x \in Seq(T)
    BY <2>4a, <2>4b
  <2>4f. \A v \in Seq(T) : (v \o a) \o x = v \o (a \o x)
    BY <2>4e, Together, SMTT(60)
  <2>5. s \o head(i) = Append(w, b[i]) /\ w \in Seq(T)
    <3>1. (s \o a) \o x = s \o (a \o x)
      BY <2>4e, <2>4f
    <3>2. w \in Seq(T)
      BY <2>4e, ConcatProperties
    <3> QED
      BY <2>4c, <2>4d, <3>1, <3>2
  <2>6. ps[m] \o head(i) = Append(e, b[i])
    <3> DEFINE y == ps[m]
    <3>0. y \in Seq(T)
      BY <1>1
    <3>2. e = y \o a
      OBVIOUS
    <3> HIDE DEF y, e
    <3>1. (y \o a) \o x = y \o (a \o x)
      BY <2>4f, <3>0
    <3>3. y \o head(i) = Append(e, b[i])
      BY <2>4a, <2>4c, <2>4d, <3>1, <3>2
    <3> QED
      BY <3>3 DEF y
  <2>6a. SplitAt(w, mark) = qs
    BY <2>4
  <2> HIDE DEF e, w, qs
  <2>7. SplitAt(s \o head(i), mark) = Split(qs, b[i], mark)
    BY <2>1, <2>5, <2>6a, SplitAdds
  <2> USE DEF qs
  <2>8. Len(qs) = m /\ qs[m] = e /\ qs \in Seq(Seq(T))
    BY <1>1, <2>4a, ExceptSeq
  <2>9. Split(qs, b[i], mark) = [qs EXCEPT ![m] = Append(e, b[i])]
    BY <2>1, <2>8 DEF Split
  <2>10. [qs EXCEPT ![m] = Append(e, b[i])] = [ps EXCEPT ![m] = Append(e, b[i])]
    BY <1>1
  <2> HIDE DEF qs
  <2>11. SplitAt(s \o head(i), mark) = [ps EXCEPT ![m] = ps[m] \o head(i)] /\ i \in 0..n
    <3> HIDE DEF m, n
    <3>1. i \in 0..n
      BY <1>2
    <3> QED
      BY <2>6, <2>7, <2>9, <2>10, <3>1
  <2> HIDE DEF m, n
  <2> QED
    BY <2>11
<1>5. SplitAt(s \o head(n), mark) = [ps EXCEPT ![m] = ps[m] \o head(n)]
  <2>1. \A i \in 0..n : i \in P
    <3> HIDE DEF P, n
    <3> QED
      BY <1>2, <1>3, <1>4, UpTo
  <2>2. n \in P
    <3> HIDE DEF P
    <3> QED
      BY <1>2, <2>1
  <2> HIDE DEF head, n
  <2> QED
    BY <2>2
<1> HIDE DEF head
<1> QED
  BY <1>0, <1>2, <1>5 DEF Onto

LEMMA SplitNothing ==
  ASSUME NEW mark
  PROVE  SplitAt(<< >>, mark) = << << >> >>
<1>1. << >> \in Seq({}) /\ Len(<< >>) = 0
  BY EmptySeq
<1>2. PICK r : SplitGoes({}, << >>, mark, r)
  BY <1>1, SplitRuns
<1> QED
  BY <1>1, <1>2 DEF SplitGoes

\* Followed a mark begins another part.
LEMMA SplitNext ==
  ASSUME NEW T, NEW mark \in T, NEW s \in Seq(T), NEW b \in Seq(T), Markless(b, mark)
  PROVE  SplitAt((s \o <<mark>>) \o b, mark) = Append(SplitAt(s, mark), b)
<1> DEFINE ps == SplitAt(s, mark)
           m == Len(ps)
<1>1. ps \in Seq(Seq(T)) /\ m \in Nat
  <2>1. ps \in Parts(T)
    BY Stretches
  <2> QED
    BY <2>1, PartFacts
<1>2. s \o <<mark>> = Append(s, mark) /\ Append(s, mark) \in Seq(T)
  BY AppendIsConcat, AppendProperties
<1> DEFINE qs == Append(ps, << >>)
<1>3. SplitAt(s \o <<mark>>, mark) = qs
  <2>1. SplitAt(Append(s, mark), mark) = Split(ps, mark, mark)
    BY SplitAdds
  <2> HIDE DEF ps
  <2> QED
    BY <1>2, <2>1 DEF Split
<1> HIDE DEF ps
<1>4. Len(qs) = m + 1 /\ qs[m + 1] = << >> /\ qs \in Seq(Seq(T)) /\ \A k \in 1..m : qs[k] = ps[k]
  BY <1>1, AppendProperties
<1> HIDE DEF qs
<1>5. SplitAt((s \o <<mark>>) \o b, mark) = [qs EXCEPT ![m + 1] = qs[m + 1] \o b]
  <2> DEFINE u == s \o <<mark>>
  <2>1. u \in Seq(T) /\ qs = SplitAt(u, mark)
    BY <1>2, <1>3
  <2> HIDE DEF u
  <2>2. SplitAt(u \o b, mark) = Onto(SplitAt(u, mark), b)
    BY <2>1, SplitPlain
  <2> QED
    BY <1>4, <2>1, <2>2 DEF u, Onto
<1>6. qs[m + 1] \o b = b
  BY <1>4, ConcatEmptySeq
<1>7. [qs EXCEPT ![m + 1] = b] = Append(ps, b)
  <2> DEFINE lefts == [qs EXCEPT ![m + 1] = b]
             rights == Append(ps, b)
  <2>1. lefts \in Seq(Seq(T)) /\ Len(lefts) = m + 1 /\ \A k \in 1..(m + 1) : lefts[k] = IF k = m + 1 THEN b ELSE qs[k]
    BY <1>1, <1>4, ExceptSeq
  <2>2. rights \in Seq(Seq(T)) /\ Len(rights) = m + 1 /\ rights[m + 1] = b /\ \A k \in 1..m : rights[k] = ps[k]
    BY <1>1, AppendProperties
  <2> HIDE DEF lefts, rights
  <2>3. \A k \in 1..(m + 1) : lefts[k] = rights[k]
    <3>1. \A k \in 1..(m + 1) : k = m + 1 \/ (k \in 1..m /\ k # m + 1)
      BY <1>1
    <3> HIDE DEF m
    <3> QED
      BY <1>4, <2>1, <2>2, <3>1
  <2>4. lefts = rights
    BY <2>1, <2>2, <2>3, SeqEqual
  <2> QED
    BY <2>4 DEF lefts, rights
<1> QED
  BY <1>5, <1>6, <1>7 DEF ps

LEMMA SplitAlone ==
  ASSUME NEW T, NEW b \in Seq(T), NEW mark, Markless(b, mark)
  PROVE  SplitAt(b, mark) = <<b>>
<1> DEFINE ps == << << >> >>
<1>1. << >> \in Seq(T) /\ << >> \o b = b
  BY ConcatEmptySeq
<1>2. ps = SplitAt(<< >>, mark)
  BY SplitNothing
<1>3. Len(ps) = 1 /\ ps[1] = << >>
  OBVIOUS
<1>3a. [ps EXCEPT ![1] = b] = <<b>>
  OBVIOUS
<1> HIDE DEF ps
<1>4. SplitAt(<< >> \o b, mark) = [ps EXCEPT ![1] = << >> \o b]
  <2> DEFINE e == << >>
  <2>1. e \in Seq(T) /\ ps = SplitAt(e, mark) /\ ps[1] = e
    BY <1>1, <1>2, <1>3
  <2> HIDE DEF e
  <2>2. SplitAt(e \o b, mark) = Onto(SplitAt(e, mark), b)
    BY <2>1, SplitPlain
  <2> QED
    BY <1>3, <2>1, <2>2 DEF e, Onto
<1> QED
  BY <1>1, <1>3a, <1>4

\* Parts that can be told apart once they are joined.
Distinct(T, mark, ps) ==
  /\ mark \in T /\ ps \in Seq(Seq(T)) /\ Len(ps) \in Nat
  /\ \A i \in 1..Len(ps) : ps[i] \in Seq(T) /\ ps[i] # << >> /\ Markless(ps[i], mark)

\* Each part makes the text longer, by a mark and its own length.
Lengthens(T, mark, ps, r) ==
  /\ \A i \in 0..Len(ps) : r[i] \in Seq(T) /\ Len(r[i]) \in Nat
  /\ \A i \in 1..Len(ps) : r[i] # << >> /\ Len(r[i]) > Len(r[i - 1])
  /\ \A i \in 1..Len(ps) : i > 1 => r[i] = (r[i - 1] \o <<mark>>) \o ps[i] /\ Len(r[i]) = Len(r[i - 1]) + 1 + Len(ps[i])
  /\ \A i \in 1..Len(ps) : i = 1 => r[i] = ps[i]
LEMMA JoinFacts ==
  ASSUME NEW T, NEW mark, NEW ps, Distinct(T, mark, ps), NEW r, JoinGoes(T, ps, mark, r)
  PROVE  Lengthens(T, mark, ps, r)
<1> DEFINE n == Len(ps)
           P == {i \in 0..n : i = 0 \/ Len(r[i]) > 0}
<1>1. /\ n \in Nat /\ r[0] = << >> /\ <<mark>> \in Seq(T) /\ Len(<<mark>>) = 1
      /\ \A i \in 0..n : r[i] \in Seq(T) /\ Len(r[i]) \in Nat
  <2>1. r \in [0..n -> Seq(T)] /\ r[0] = << >> /\ n \in Nat /\ mark \in T
    BY DEF JoinGoes, Distinct
  <2>2. \A i \in 0..n : r[i] \in Seq(T)
    BY <2>1
  <2> QED
    BY <2>1, <2>2, OnePiece, LenProperties
<1>2. \A i \in 1..n : /\ r[i] = Join(r[i - 1], ps[i], mark) /\ i - 1 \in 0..n /\ i \in 0..n
                      /\ ps[i] \in Seq(T) /\ Len(ps[i]) \in Nat /\ Len(ps[i]) > 0
  <2> TAKE i \in 1..n
  <2>1. ps[i] \in Seq(T) /\ ps[i] # << >> /\ r[i] = Join(r[i - 1], ps[i], mark)
    BY DEF JoinGoes, Distinct
  <2>2. Len(ps[i]) \in Nat \ {0}
    BY <2>1, EmptySeq
  <2> QED
    BY <1>1, <2>1, <2>2
<1> HIDE DEF n
<1>3. ASSUME NEW i \in 1..n, Len(r[i - 1]) > 0
      PROVE  r[i] = (r[i - 1] \o <<mark>>) \o ps[i] /\ Len(r[i]) = Len(r[i - 1]) + 1 + Len(ps[i])
  <2>1. r[i - 1] # << >> /\ r[i - 1] \in Seq(T)
    BY <1>1, <1>2, <1>3, EmptySeq
  <2>2. r[i] = (r[i - 1] \o <<mark>>) \o ps[i]
    BY <1>2, <2>1 DEF Join
  <2>3. r[i - 1] \o <<mark>> \in Seq(T) /\ Len(r[i - 1] \o <<mark>>) = Len(r[i - 1]) + 1
    BY <1>1, <2>1, ConcatProperties
  <2>4. Len((r[i - 1] \o <<mark>>) \o ps[i]) = Len(r[i - 1] \o <<mark>>) + Len(ps[i])
    BY <1>2, <2>3, ConcatProperties
  <2> QED
    BY <2>2, <2>3, <2>4
<1>4. ASSUME NEW i \in 1..n, i = 1 PROVE r[i] = ps[i] /\ Len(r[i - 1]) = 0
  <2>1. r[i - 1] = << >>
    BY <1>1, <1>4
  <2> QED
    BY <1>2, <2>1 DEF Join
<1>5. 0 \in P
  BY <1>1
<1>6. \A i \in 1..n : i - 1 \in P => i \in P
  <2> SUFFICES ASSUME NEW i \in 1..n, i - 1 \in P PROVE i \in 0..n /\ Len(r[i]) > 0
    OBVIOUS
  <2>1. CASE i = 1
    BY <1>2, <1>4, <2>1
  <2>2. CASE i # 1
    <3>1. i - 1 # 0 /\ i \in 0..n
      BY <1>1, <2>2
    <3>2. Len(r[i - 1]) > 0
      BY <3>1
    <3>3. /\ Len(r[i]) = Len(r[i - 1]) + 1 + Len(ps[i]) /\ Len(r[i - 1]) \in Nat
          /\ Len(ps[i]) \in Nat /\ Len(r[i]) \in Nat
      BY <1>1, <1>2, <1>3, <3>2
    <3> HIDE DEF P
    <3>4. \A x, y, z \in Nat : x = y + 1 + z => x > 0
      OBVIOUS
    <3>5. Len(r[i]) > 0
      BY <3>3, <3>4
    <3> QED
      BY <3>1, <3>5
  <2> QED
    BY <2>1, <2>2
<1>7. \A i \in 0..n : i \in P
  <2> HIDE DEF P
  <2> QED
    BY <1>1, <1>5, <1>6, UpTo
<1>8. \A i \in 1..n : Len(r[i]) > 0 /\ (i > 1 => Len(r[i - 1]) > 0)
  <2> TAKE i \in 1..n
  <2>1. i - 1 \in P /\ i \in P /\ i # 0 /\ (i > 1 => i - 1 # 0)
    BY <1>1, <1>2, <1>7
  <2> QED
    BY <2>1
<1> HIDE DEF P
<1>9. ASSUME NEW i \in 1..n PROVE r[i] # << >> /\ Len(r[i]) > Len(r[i - 1])
  <2>1. r[i] # << >>
    BY <1>8, EmptySeq
  <2>2. CASE i = 1
    BY <1>4, <1>8, <2>1, <2>2
  <2>3. CASE i > 1
    <3>1. Len(r[i]) = Len(r[i - 1]) + 1 + Len(ps[i]) /\ Len(r[i - 1]) \in Nat /\ Len(ps[i]) \in Nat
      BY <1>1, <1>2, <1>3, <1>8, <2>3
    <3>2. \A x, y, z \in Nat : x = y + 1 + z => x > y
      OBVIOUS
    <3>3. Len(r[i]) \in Nat
      BY <1>1, <1>2
    <3>4. Len(r[i]) > Len(r[i - 1])
      BY <3>1, <3>2, <3>3
    <3> QED
      BY <2>1, <3>4
  <2> QED
    BY <1>1, <2>2, <2>3
<1> QED
  BY <1>1, <1>3, <1>4, <1>8, <1>9 DEF n, Lengthens

\* Joined parts come apart again, also behind another text.
ComeApart(T, mark, ps) ==
  /\ SplitAt(Joined(ps, mark), mark) = ps
  /\ \A s \in Seq(T) : SplitAt((s \o <<mark>>) \o Joined(ps, mark), mark) = SplitAt(s, mark) \o ps
LEMMA JoinedSplits ==
  ASSUME NEW T, NEW mark, NEW ps, Distinct(T, mark, ps), ps # << >>
  PROVE  ComeApart(T, mark, ps)
<1> DEFINE n == Len(ps)
           head(i) == SubSeq(ps, 1, i)
<1>1. ps \in Seq(Seq(T)) /\ n \in Nat /\ n >= 1 /\ head(n) = ps /\ head(0) = << >> /\ mark \in T
  <2>1. ps \in Seq(Seq(T)) /\ mark \in T
    BY DEF Distinct
  <2>2. n \in Nat \ {0}
    BY <2>1, EmptySeq
  <2> QED
    BY <2>1, <2>2, SubSeqFull, SubSeqEmpty
<1>1a. head(1) = <<ps[1]>>
  <2>1. \A j \in 1..1 : ps[j] \in Seq(T)
    BY <1>1
  <2>2. Len(head(1)) = 1 /\ head(1)[1] = ps[1] /\ head(1) \in Seq(Seq(T))
    BY <2>1, SubSeqProperties
  <2>3. Len(<<ps[1]>>) = 1 /\ <<ps[1]>>[1] = ps[1] /\ <<ps[1]>> \in Seq(Seq(T))
    BY <2>1
  <2> HIDE DEF head
  <2> DEFINE y == <<ps[1]>>
  <2>4. Len(y) = 1 /\ y[1] = ps[1] /\ y \in Seq(Seq(T))
    BY <2>3
  <2> HIDE DEF y
  <2>5. Len(head(1)) = Len(y) /\ \A j \in 1..Len(head(1)) : head(1)[j] = y[j]
    BY <2>2, <2>4
  <2>6. head(1) = y
    BY <2>2, <2>4, <2>5, SeqEqual
  <2> QED
    BY <2>6 DEF y
<1>2. PICK r : JoinGoes(T, ps, mark, r)
  BY <1>1, JoinRuns
<1>3. /\ \A i \in 0..n : r[i] \in Seq(T)
      /\ \A i \in 1..n : i > 1 => r[i] = (r[i - 1] \o <<mark>>) \o ps[i]
      /\ \A i \in 1..n : i = 1 => r[i] = ps[i]
      /\ r[n] = Joined(ps, mark)
  <2>1. r[n] = Joined(ps, mark)
    BY <1>2 DEF JoinGoes
  <2>2. Distinct(T, mark, ps) /\ JoinGoes(T, ps, mark, r)
    BY <1>2
  <2> HIDE DEF head
  <2>3. Lengthens(T, mark, ps, r)
    BY <2>2, JoinFacts
  <2> QED
    BY <2>1, <2>3 DEF Lengthens
<1>4. ASSUME NEW i \in 1..n
      PROVE  /\ ps[i] \in Seq(T) /\ Markless(ps[i], mark) /\ i - 1 \in 0..n /\ i \in 0..n
             /\ head(i) = Append(head(i - 1), ps[i]) /\ head(i - 1) \in Seq(Seq(T))
  <2>1. ps[i] \in Seq(T) /\ Markless(ps[i], mark)
    BY DEF Distinct
  <2>2. 1 \in 1..n /\ i \in 1..n /\ i - 1 \in 0..n /\ i \in 0..n
    BY <1>1
  <2>3. head(i) = head(i - 1) \o <<ps[i]>>
    BY <1>1, <2>2, SubSeqRecursiveSecond
  <2>4. head(i - 1) \in Seq(Seq(T))
    <3>1. \A j \in 1..(i - 1) : ps[j] \in Seq(T)
      BY <1>1
    <3> QED
      BY <3>1, SubSeqProperties
  <2> HIDE DEF head
  <2>5. Append(head(i - 1), ps[i]) = head(i - 1) \o <<ps[i]>>
    BY <2>1, <2>4, AppendIsConcat
  <2> QED
    BY <2>1, <2>2, <2>3, <2>4, <2>5
<1> HIDE DEF head, n
<1>5. SplitAt(Joined(ps, mark), mark) = ps
  <2> DEFINE P == {i \in 0..n : i = 0 \/ SplitAt(r[i], mark) = head(i)}
  <2>1. 0 \in P
    BY <1>1
  <2>2. ASSUME NEW i \in 1..n, i - 1 \in P PROVE i \in P
    <3>1. CASE i = 1
      <4>1. SplitAt(r[i], mark) = <<ps[i]>>
        BY <1>3, <1>4, <3>1, SplitAlone
      <4>2. head(i) = <<ps[i]>>
        BY <1>1a, <3>1
      <4> QED
        BY <1>4, <4>1, <4>2
    <3>2. CASE i > 1
      <4>1. r[i] = (r[i - 1] \o <<mark>>) \o ps[i] /\ r[i - 1] \in Seq(T)
        BY <1>3, <1>4, <3>2
      <4>2. SplitAt((r[i - 1] \o <<mark>>) \o ps[i], mark) = Append(SplitAt(r[i - 1], mark), ps[i])
        <5> DEFINE v == r[i - 1]
        <5>1. v \in Seq(T) /\ ps[i] \in Seq(T) /\ Markless(ps[i], mark) /\ mark \in T
          BY <1>1, <1>4, <4>1
        <5> HIDE DEF v
        <5>2. SplitAt((v \o <<mark>>) \o ps[i], mark) = Append(SplitAt(v, mark), ps[i])
          BY <5>1, SplitNext
        <5> QED
          BY <5>2 DEF v
      <4>3. SplitAt(r[i - 1], mark) = head(i - 1)
        BY <1>4, <2>2, <3>2
      <4> QED
        BY <1>4, <4>1, <4>2, <4>3
    <3> QED
      BY <1>1, <3>1, <3>2
  <2>3. n \in P /\ n # 0
    <3>1. \A i \in 0..n : i \in P
      <4> HIDE DEF P
      <4> QED
        BY <1>1, <2>1, <2>2, UpTo
    <3> HIDE DEF P
    <3> QED
      BY <1>1, <3>1
  <2> QED
    BY <1>1, <1>3, <2>3
<1>6. ASSUME NEW s \in Seq(T) PROVE SplitAt((s \o <<mark>>) \o Joined(ps, mark), mark) = SplitAt(s, mark) \o ps
  <2> DEFINE u == s \o <<mark>>
             qs == SplitAt(s, mark)
             P == {i \in 0..n : i = 0 \/ SplitAt(u \o r[i], mark) = qs \o head(i)}
  <2>1. u \in Seq(T) /\ <<mark>> \in Seq(T) /\ qs \in Seq(Seq(T))
    <3>1. <<mark>> \in Seq(T)
      BY <1>1, OnePiece
    <3>2. u \in Seq(T)
      BY <3>1, ConcatProperties
    <3> HIDE DEF u
    <3>3. qs \in Parts(T)
      BY Stretches
    <3>4. qs \in Seq(Seq(T))
      BY <3>3, PartFacts
    <3> QED
      BY <3>1, <3>2, <3>4
  <2>2. 0 \in P
    BY <1>1
  <2>2a. \A b \in Seq(T) : Markless(b, mark) => SplitAt(u \o b, mark) = Append(qs, b)
    BY <1>1, SplitNext
  <2>2b. \A h \in Seq(Seq(T)), b \in Seq(T) : Append(qs \o h, b) = qs \o Append(h, b)
    <3> TAKE h \in Seq(Seq(T)), b \in Seq(T)
    <3>1. Append(h, b) = h \o <<b>> /\ <<b>> \in Seq(Seq(T))
      BY AppendIsConcat
    <3>2. qs \o h \in Seq(Seq(T))
      BY <2>1, ConcatProperties
    <3> HIDE DEF qs
    <3>3. Append(qs \o h, b) = (qs \o h) \o <<b>>
      BY <3>2, AppendIsConcat
    <3>4. (qs \o h) \o <<b>> = qs \o (h \o <<b>>)
      <4> DEFINE y == <<b>>
      <4>1. qs \in Seq(Seq(T)) /\ h \in Seq(Seq(T)) /\ y \in Seq(Seq(T))
        BY <2>1, <3>1
      <4> HIDE DEF y
      <4>2. (qs \o h) \o y = qs \o (h \o y)
        BY <4>1, Together, SMTT(60)
      <4> QED
        BY <4>2 DEF y
    <3> QED
      BY <3>1, <3>3, <3>4
  <2> HIDE DEF qs, u
  <2>3. ASSUME NEW i \in 1..n, i - 1 \in P PROVE i \in P
    <3>1. CASE i = 1
      <4>1. SplitAt(u \o r[i], mark) = Append(qs, ps[i])
        BY <1>3, <1>4, <2>2a, <3>1
      <4>2. Append(qs, ps[i]) = qs \o head(i)
        <5>1. head(i) = <<ps[i]>>
          BY <1>1a, <3>1
        <5> QED
          BY <1>4, <2>1, <5>1, AppendIsConcat
      <4> QED
        BY <1>4, <4>1, <4>2
    <3>2. CASE i > 1
      <4> DEFINE v == u \o r[i - 1]
      <4>1. r[i] = (r[i - 1] \o <<mark>>) \o ps[i] /\ r[i - 1] \in Seq(T) /\ ps[i] \in Seq(T) /\ Markless(ps[i], mark)
        BY <1>3, <1>4, <3>2
      <4>2. u \o r[i] = (v \o <<mark>>) \o ps[i]
        <5> DEFINE w == r[i - 1]
                   y == <<mark>>
                   z == ps[i]
        <5>1. w \in Seq(T) /\ y \in Seq(T) /\ z \in Seq(T) /\ v = u \o w /\ r[i] = (w \o y) \o z
          BY <2>1, <4>1
        <5> HIDE DEF w, y, z, v
        <5>2. w \o y \in Seq(T)
          BY <5>1, ConcatProperties
        <5>3. (u \o (w \o y)) \o z = u \o ((w \o y) \o z)
          BY <2>1, <5>1, <5>2, Together, SMTT(60)
        <5>4. (u \o w) \o y = u \o (w \o y)
          BY <2>1, <5>1, Together, SMTT(60)
        <5> QED
          BY <5>1, <5>3, <5>4 DEF y, z
      <4>3. v \in Seq(T)
        BY <2>1, <4>1, ConcatProperties
      <4>4. SplitAt(v, mark) = qs \o head(i - 1)
        BY <1>4, <2>3, <3>2
      <4> HIDE DEF v
      <4>5. SplitAt((v \o <<mark>>) \o ps[i], mark) = Append(SplitAt(v, mark), ps[i])
        BY <1>1, <4>1, <4>3, SplitNext
      <4>6. Append(qs \o head(i - 1), ps[i]) = qs \o Append(head(i - 1), ps[i])
        BY <1>4, <2>2b
      <4> QED
        BY <1>4, <4>2, <4>4, <4>5, <4>6
    <3> QED
      BY <1>1, <3>1, <3>2
  <2>4. n \in P /\ n # 0
    <3>1. \A i \in 0..n : i \in P
      <4> HIDE DEF P
      <4> QED
        BY <1>1, <2>2, <2>3, UpTo
    <3> HIDE DEF P
    <3> QED
      BY <1>1, <3>1
  <2> QED
    BY <1>1, <1>3, <2>4 DEF u, qs
<1> QED
  BY <1>5, <1>6 DEF ComeApart

\* One text begins another if it is how the other begins.
Begins(u, v) == Len(u) <= Len(v) /\ \A i \in 1..Len(u) : v[i] = u[i]
LEMMA PrefixBegins ==
  ASSUME NEW T, NEW u \in Seq(T), NEW v \in Seq(T)
  PROVE  IsPrefix(u, v) <=> Begins(u, v)
<1>1. Len(u) \in Nat /\ Len(v) \in Nat /\ SubSeq(u, 1, Len(u)) = u
  BY LenProperties, SubSeqFull
<1>2. ASSUME Len(u) <= Len(v)
      PROVE  /\ SubSeq(v, 1, Len(u)) \in Seq(T) /\ Len(SubSeq(v, 1, Len(u))) = Len(u)
             /\ \A i \in 1..Len(u) : SubSeq(v, 1, Len(u))[i] = v[i]
  <2>1. \A i \in 1..Len(u) : v[i] \in T
    BY <1>1, <1>2
  <2> DEFINE m == Len(u)
  <2>2. m \in Nat /\ \A i \in 1..m : v[i] \in T
    BY <1>1, <2>1
  <2> HIDE DEF m
  <2>3. /\ SubSeq(v, 1, m) \in Seq(T) /\ Len(SubSeq(v, 1, m)) = IF 1 <= m THEN m - 1 + 1 ELSE 0
        /\ \A i \in 1..(m - 1 + 1) : SubSeq(v, 1, m)[i] = v[1 + i - 1]
    BY <2>2, SubSeqProperties
  <2>4. /\ SubSeq(v, 1, m) \in Seq(T) /\ Len(SubSeq(v, 1, m)) = m
        /\ \A i \in 1..m : SubSeq(v, 1, m)[i] = v[i]
    BY <2>2, <2>3
  <2> QED
    BY <2>4 DEF m
<1>3. ASSUME IsPrefix(u, v) PROVE Begins(u, v)
  <2>1. Len(u) <= Len(v) /\ u = SubSeq(v, 1, Len(u))
    BY <1>1, <1>3 DEF IsPrefix
  <2> QED
    BY <1>2, <2>1 DEF Begins
<1>4. ASSUME Begins(u, v) PROVE IsPrefix(u, v)
  <2>1. Len(u) <= Len(v) /\ \A i \in 1..Len(u) : v[i] = u[i]
    BY <1>4 DEF Begins
  <2> DEFINE w == SubSeq(v, 1, Len(u))
  <2>2. w \in Seq(T) /\ Len(u) = Len(w) /\ \A i \in 1..Len(u) : u[i] = w[i]
    BY <1>2, <2>1
  <2> HIDE DEF w
  <2>3. u = w
    BY <2>2, SeqEqual
  <2> QED
    BY <1>1, <2>1, <2>3 DEF IsPrefix, w
<1> QED
  BY <1>3, <1>4

\* The parts up to a mark stay, whatever follows it.
LEMMA PartsStay ==
  ASSUME NEW T, NEW mark \in T, NEW p \in Seq(T), NEW q \in Seq(T), Begins(Append(p, mark), q)
  PROVE  Begins(SplitAt(p, mark), SplitAt(q, mark))
<1> DEFINE a == Len(p)
           n == Len(q)
           ps == SplitAt(p, mark)
           m == Len(ps)
<1>1. a \in Nat /\ n \in Nat /\ a + 1 <= n /\ q[a + 1] = mark /\ \A i \in 1..a : q[i] = p[i]
  <2>1. Append(p, mark)[a + 1] = mark /\ Len(Append(p, mark)) = a + 1 /\ \A i \in 1..a : Append(p, mark)[i] = p[i]
    BY AppendProperties
  <2>2. a \in Nat /\ n \in Nat
    OBVIOUS
  <2>3. a + 1 <= n /\ \A i \in 1..(a + 1) : q[i] = Append(p, mark)[i]
    BY <2>1 DEF Begins
  <2>4. a + 1 \in 1..(a + 1) /\ \A i \in 1..a : i \in 1..(a + 1)
    BY <2>2
  <2> HIDE DEF a, n
  <2> QED
    BY <2>1, <2>2, <2>3, <2>4
<1>2. PICK u : SplitGoes(T, p, mark, u)
  BY SplitRuns
<1>3. PICK r : SplitGoes(T, q, mark, r)
  BY SplitRuns
<1>3a. /\ r[0] = << << >> >> /\ r[n] = SplitAt(q, mark)
       /\ \A i \in 1..n : r[i] = Split(r[i - 1], q[i], mark)
       /\ \A i \in 0..n : r[i] \in Seq(Seq(T)) /\ Len(r[i]) \in Nat /\ Len(r[i]) >= 1 /\ r[i] \in Parts(T)
  <2>1. r \in [0..n -> Parts(T)]
    BY <1>3 DEF SplitGoes
  <2>2. \A i \in 0..n : r[i] \in Parts(T)
    BY <2>1
  <2> QED
    BY <1>3, <2>2, PartFacts DEF SplitGoes
<1>3b. m \in Nat /\ ps \in Seq(Seq(T)) /\ u[0] = << << >> >> /\ u[a] = ps /\ \A i \in 1..a : u[i] = Split(u[i - 1], p[i], mark)
  <2>1. ps \in Parts(T)
    BY Stretches
  <2>2. u[0] = << << >> >> /\ u[a] = ps /\ \A i \in 1..a : u[i] = Split(u[i - 1], p[i], mark)
    BY <1>2 DEF SplitGoes
  <2> QED
    BY <2>1, <2>2, PartFacts
<1> HIDE DEF ps, a, n
<1>4. r[a] = ps
  <2> DEFINE P == {i \in 0..a : r[i] = u[i]}
  <2>0. a \in Nat /\ r[0] = u[0]
    BY <1>1, <1>3a, <1>3b
  <2>1. 0 \in P
    BY <2>0
  <2>2. ASSUME NEW i \in 1..a, i - 1 \in P PROVE i \in P
    <3>0. i \in 0..a /\ i \in 1..n
      BY <1>1
    <3>1. r[i] = Split(r[i - 1], q[i], mark)
      BY <1>3a, <3>0
    <3>2. u[i] = Split(u[i - 1], p[i], mark)
      BY <1>3b
    <3>3. q[i] = p[i] /\ r[i - 1] = u[i - 1]
      BY <1>1, <2>2
    <3> QED
      BY <3>0, <3>1, <3>2, <3>3
  <2>3. a \in P
    <3>1. \A i \in 0..a : i \in P
      <4> HIDE DEF P
      <4> QED
        BY <1>1, <2>1, <2>2, UpTo
    <3> HIDE DEF P
    <3> QED
      BY <1>1, <3>1
  <2> QED
    BY <1>3b, <2>3
<1>5. r[a + 1] = Append(ps, << >>)
  <2>1. a + 1 \in 1..n /\ (a + 1) - 1 = a
    BY <1>1
  <2>2. r[a + 1] = Split(r[(a + 1) - 1], q[a + 1], mark)
    BY <1>3a, <2>1
  <2> QED
    BY <1>1, <1>4, <2>1, <2>2 DEF Split
<1> DEFINE d == n - (a + 1)
           P == {k \in 0..d : m < Len(r[a + 1 + k]) /\ \A j \in 1..m : r[a + 1 + k][j] = ps[j]}
<1>6. d \in Nat /\ a + 1 + d = n /\ \A k \in 0..d : a + 1 + k \in 1..n /\ a + 1 + k \in 0..n
  BY <1>1
<1>7. 0 \in P
  <2>1. Len(Append(ps, << >>)) = m + 1 /\ \A j \in 1..m : Append(ps, << >>)[j] = ps[j]
    <3>1. << >> \in Seq(T)
      OBVIOUS
    <3> QED
      BY <1>3b, <3>1, AppendProperties
  <2>2. a + 1 + 0 = a + 1 /\ m < m + 1 /\ 0 \in 0..d
    BY <1>1, <1>3b
  <2> HIDE DEF m, d
  <2> QED
    BY <1>5, <2>1, <2>2
<1>8. ASSUME NEW k \in 1..d, k - 1 \in P PROVE k \in P
  <2> DEFINE i == a + 1 + k
             qs == r[i - 1]
  <2>1. i \in 1..n /\ i - 1 = a + 1 + (k - 1) /\ i - 1 \in 0..n /\ k \in 0..d
    BY <1>1, <1>6
  <2>2. m < Len(qs) /\ (\A j \in 1..m : qs[j] = ps[j]) /\ qs \in Seq(Seq(T)) /\ qs \in Parts(T) /\ Len(qs) \in Nat
    <3> HIDE DEF d, m
    <3>1. i - 1 \in 0..n
      BY <2>1
    <3>2. m < Len(r[a + 1 + (k - 1)]) /\ \A j \in 1..m : r[a + 1 + (k - 1)][j] = ps[j]
      BY <1>8
    <3> HIDE DEF i
    <3> QED
      BY <1>3a, <2>1, <3>1, <3>2
  <2>3. r[i] = Split(qs, q[i], mark)
    <3> HIDE DEF i
    <3> QED
      BY <1>3a, <2>1
  <2> HIDE DEF qs
  <2>4. m < Len(Split(qs, q[i], mark)) /\ \A j \in 1..m : Split(qs, q[i], mark)[j] = ps[j]
    <3> DEFINE t == q[i]
    <3>0. t \in T
      <4> HIDE DEF i
      <4> QED
        BY <2>1, ElementOfSeq DEF n
    <3> HIDE DEF t
    <3>1. CASE t = mark
      <4>1. Split(qs, t, mark) = Append(qs, << >>) /\ << >> \in Seq(T)
        BY <3>1 DEF Split
      <4>2. Len(Append(qs, << >>)) = Len(qs) + 1 /\ \A j \in 1..Len(qs) : Append(qs, << >>)[j] = qs[j]
        BY <2>2, <4>1, AppendProperties
      <4>3. m < Len(qs) + 1 /\ \A j \in 1..m : j \in 1..Len(qs)
        BY <1>3b, <2>2
      <4> HIDE DEF m
      <4> QED
        BY <2>2, <4>1, <4>2, <4>3 DEF t
    <3>2. CASE t # mark
      <4> DEFINE l == Len(qs)
                 e == Append(qs[l], t)
      <4>1. l \in 1..l /\ l \in Nat /\ qs[l] \in Seq(T)
        BY <2>2, PartFacts
      <4>2. e \in Seq(T) /\ Split(qs, t, mark) = [qs EXCEPT ![l] = e]
        BY <3>0, <3>2, <4>1, AppendProperties DEF Split
      <4> HIDE DEF e
      <4>3. Len([qs EXCEPT ![l] = e]) = l /\ \A j \in 1..l : [qs EXCEPT ![l] = e][j] = IF j = l THEN e ELSE qs[j]
        BY <2>2, <4>1, <4>2, ExceptSeq
      <4>4. \A j \in 1..m : j \in 1..l /\ j # l
        BY <1>3b, <2>2, <4>1
      <4> HIDE DEF l, m
      <4>5. m < l
        BY <2>2 DEF l
      <4> QED
        BY <2>2, <4>2, <4>3, <4>4, <4>5 DEF t
    <3> QED
      BY <3>1, <3>2
  <2> HIDE DEF m, d
  <2>5. m < Len(r[i]) /\ \A j \in 1..m : r[i][j] = ps[j]
    BY <2>3, <2>4
  <2> QED
    BY <2>1, <2>5
<1>9. d \in P
  <2>1. \A k \in 0..d : k \in P
    <3> HIDE DEF P, d
    <3> QED
      BY <1>6, <1>7, <1>8, UpTo
  <2> HIDE DEF P
  <2> QED
    BY <1>6, <2>1
<1>10. m < Len(r[n]) /\ \A j \in 1..m : r[n][j] = ps[j]
  BY <1>6, <1>9
<1>11. Len(r[n]) \in Nat
  BY <1>1, <1>3a
<1> QED
  BY <1>3a, <1>3b, <1>10, <1>11 DEF Begins, ps

\* Further on in the joining of parts, a text is longer and begins with what it was
\* before, and a mark.
LEMMA Climbing ==
  ASSUME NEW T, NEW mark, NEW ps, Distinct(T, mark, ps), NEW r, JoinGoes(T, ps, mark, r),
         NEW j \in 0..Len(ps), NEW k \in 0..Len(ps), j < k
  PROVE  Len(r[j]) < Len(r[k]) /\ (j >= 1 => Begins(Append(r[j], mark), r[k]))
<1> DEFINE n == Len(ps)
           u == Append(r[j], mark)
           d == k - (j + 1)
           Q(i) == Len(r[j]) < Len(r[i]) /\ (j >= 1 => Begins(u, r[i]))
           P == {e \in 0..d : Q(j + 1 + e)}
<1>1. n \in Nat /\ mark \in T /\ <<mark>> \in Seq(T) /\ j \in 0..n /\ k \in 0..n
  BY OnePiece DEF Distinct
<1>2. /\ \A i \in 0..n : r[i] \in Seq(T) /\ Len(r[i]) \in Nat
      /\ \A i \in 1..n : Len(r[i]) > Len(r[i - 1])
      /\ \A i \in 1..n : i > 1 => r[i] = (r[i - 1] \o <<mark>>) \o ps[i]
  <2>1. Lengthens(T, mark, ps, r)
    BY JoinFacts
  <2> QED
    BY <2>1 DEF Lengthens
<1>2a. \A i \in 1..n : ps[i] \in Seq(T) /\ Len(ps[i]) \in Nat
  BY LenProperties DEF Distinct
<1>3. r[j] \in Seq(T) /\ u \in Seq(T) /\ Len(u) = Len(r[j]) + 1 /\ Len(r[j]) \in Nat /\ u = r[j] \o <<mark>>
  <2>1. r[j] \in Seq(T) /\ Len(r[j]) \in Nat
    BY <1>1, <1>2
  <2> QED
    BY <1>1, <2>1, AppendProperties, AppendIsConcat
<1>4. d \in Nat /\ j + 1 + d = k /\ j \in Nat /\ \A e \in 0..d : j + 1 + e \in 1..n /\ j + 1 + e \in 0..n
  BY <1>1
<1> HIDE DEF n, u
\* A text begins what is it with another behind it.
<1>5. ASSUME NEW v \in Seq(T), NEW w \in Seq(T), NEW x \in Seq(T), Begins(v, w) PROVE Begins(v, w \o x)
  <2>1. Len(w \o x) = Len(w) + Len(x) /\ \A i \in 1..(Len(w) + Len(x)) : (w \o x)[i] = IF i <= Len(w) THEN w[i] ELSE x[i - Len(w)]
    BY ConcatProperties
  <2>2. Len(v) \in Nat /\ Len(w) \in Nat /\ Len(x) \in Nat /\ Len(v) <= Len(w) /\ \A i \in 1..Len(v) : w[i] = v[i]
    BY <1>5, LenProperties DEF Begins
  <2>3. \A i \in 1..Len(v) : i \in 1..(Len(w) + Len(x)) /\ i <= Len(w)
    BY <2>2
  <2>4. Len(v) <= Len(w) + Len(x)
    BY <2>2
  <2> QED
    BY <2>1, <2>2, <2>3, <2>4 DEF Begins
<1>6. 0 \in P
  <2>1. j + 1 \in 1..n /\ (j + 1) - 1 = j /\ j + 1 + 0 = j + 1 /\ 0 \in 0..d /\ (j >= 1 => j + 1 > 1)
    BY <1>4
  <2>2. Len(r[j + 1]) > Len(r[(j + 1) - 1])
    BY <1>2, <2>1
  <2>3. ASSUME j >= 1 PROVE Begins(u, r[j + 1])
    <3>1. r[j + 1] = (r[(j + 1) - 1] \o <<mark>>) \o ps[j + 1]
      BY <1>2, <2>1, <2>3
    <3>2. r[j + 1] = u \o ps[j + 1] /\ ps[j + 1] \in Seq(T)
      BY <1>2a, <1>3, <2>1, <3>1
    <3>3. Begins(u, u)
      BY <1>3 DEF Begins
    <3> QED
      BY <1>3, <1>5, <3>2, <3>3
  <2>4. Len(r[j]) < Len(r[j + 1])
    <3>1. Len(r[j + 1]) \in Nat
      BY <1>2, <1>4, <2>1
    <3> QED
      BY <1>3, <2>1, <2>2, <3>1
  <2> HIDE DEF d
  <2> QED
    BY <2>1, <2>3, <2>4
<1>7. ASSUME NEW e \in 1..d, e - 1 \in P PROVE e \in P
  <2> DEFINE i == j + 1 + e
  <2>1. i \in 1..n /\ i - 1 = j + 1 + (e - 1) /\ i - 1 \in 0..n /\ i \in 0..n /\ e \in 0..d /\ i > 1
    BY <1>1, <1>4
  <2>2. Q(i - 1)
    <3> HIDE DEF Q, d
    <3> QED
      BY <1>7, <2>1
  <2> HIDE DEF i, d
  <2>3. Len(r[i]) > Len(r[i - 1]) /\ r[i] = (r[i - 1] \o <<mark>>) \o ps[i] /\ Len(r[i]) \in Nat /\ Len(r[i - 1]) \in Nat
        /\ r[i - 1] \in Seq(T) /\ ps[i] \in Seq(T)
    BY <1>2, <1>2a, <2>1
  <2>4. ASSUME j >= 1 PROVE Begins(u, r[i])
    <3> DEFINE v == r[i - 1]
               w == v \o <<mark>>
    <3>1. v \in Seq(T) /\ Begins(u, v)
      BY <2>2, <2>3, <2>4
    <3> HIDE DEF v
    <3>2. w \in Seq(T) /\ Begins(u, w)
      BY <1>1, <1>3, <1>5, <3>1, ConcatProperties
    <3>3. r[i] = w \o ps[i]
      BY <2>3 DEF v
    <3> HIDE DEF w
    <3> QED
      BY <1>3, <1>5, <2>3, <3>2, <3>3
  <2>5. Len(r[j]) < Len(r[i])
    <3>1. Len(r[j]) < Len(r[i - 1])
      BY <2>2
    <3>2. \A x, y, z \in Nat : x < y /\ z > y => x < z
      OBVIOUS
    <3> QED
      BY <1>3, <2>3, <3>1, <3>2
  <2>6. Q(i)
    BY <2>4, <2>5
  <2> HIDE DEF Q
  <2> QED
    BY <2>1, <2>6 DEF i
<1>8. d \in P
  <2>1. \A e \in 0..d : e \in P
    <3> HIDE DEF P, d
    <3> QED
      BY <1>4, <1>6, <1>7, UpTo
  <2> HIDE DEF P
  <2> QED
    BY <1>4, <2>1
<1>9. Q(k)
  <2> HIDE DEF Q
  <2> QED
    BY <1>4, <1>8
<1> QED
  BY <1>9 DEF u

\* What begins some parts is joined on the way.
LEMMA JoinedBefore ==
  ASSUME NEW T, NEW mark, NEW a, NEW ps, Distinct(T, mark, a), Distinct(T, mark, ps),
         NEW r, JoinGoes(T, ps, mark, r), Begins(a, ps)
  PROVE  Joined(a, mark) = r[Len(a)] /\ Len(a) \in 0..Len(ps)
<1> DEFINE m == Len(a)
           n == Len(ps)
<1>1. m \in Nat /\ n \in Nat /\ m <= n /\ (\A i \in 1..m : ps[i] = a[i]) /\ mark \in T /\ a \in Seq(Seq(T))
  BY DEF Distinct, Begins
<1>2. PICK q : JoinGoes(T, a, mark, q)
  BY <1>1, JoinRuns
<1>3. /\ q[0] = << >> /\ q[m] = Joined(a, mark) /\ r[0] = << >>
      /\ \A i \in 1..m : q[i] = Join(q[i - 1], a[i], mark)
      /\ \A i \in 1..n : r[i] = Join(r[i - 1], ps[i], mark)
  BY <1>2 DEF JoinGoes
<1> HIDE DEF m, n
<1> DEFINE P == {i \in 0..m : q[i] = r[i]}
<1>4. 0 \in P
  BY <1>1, <1>3
<1>5. ASSUME NEW i \in 1..m, i - 1 \in P PROVE i \in P
  <2>1. i \in 1..n /\ i \in 0..m
    BY <1>1
  <2>2. q[i] = Join(q[i - 1], a[i], mark) /\ r[i] = Join(r[i - 1], ps[i], mark)
    BY <1>3, <2>1
  <2> QED
    BY <1>1, <1>5, <2>1, <2>2
<1>6. \A i \in 0..m : i \in P
  <2> HIDE DEF P
  <2> QED
    BY <1>1, <1>4, <1>5, UpTo
<1>7. m \in P /\ m \in 0..n
  BY <1>1, <1>6
<1> QED
  BY <1>3, <1>7 DEF m, n

LEMMA NothingJoined ==
  ASSUME NEW T, NEW mark, NEW ps, Distinct(T, mark, ps)
  PROVE  Joined(ps, mark) = << >> <=> ps = << >>
<1>1. ps \in Seq(Seq(T)) /\ mark \in T /\ Len(ps) \in Nat
  BY DEF Distinct
<1>2. PICK r : JoinGoes(T, ps, mark, r)
  BY <1>1, JoinRuns
<1>3. r[0] = << >> /\ r[Len(ps)] = Joined(ps, mark)
  BY <1>2 DEF JoinGoes
<1>4. \A i \in 1..Len(ps) : r[i] # << >>
  <2>1. Lengthens(T, mark, ps, r)
    BY <1>2, JoinFacts
  <2> QED
    BY <2>1 DEF Lengthens
<1>5. CASE ps = << >>
  <2>1. Len(ps) = 0
    BY <1>5
  <2> QED
    BY <1>3, <1>5, <2>1
<1>6. CASE ps # << >>
  <2>1. Len(ps) \in 1..Len(ps)
    BY <1>1, <1>6, EmptySeq
  <2> QED
    BY <1>3, <1>4, <1>6, <2>1
<1> QED
  BY <1>5, <1>6

\* A path's text goes on from another's, behind a mark, just when its names go on
\* from the other's.
LEMMA TextsFollowNames ==
  ASSUME NEW T, NEW mark, NEW a, NEW d, Distinct(T, mark, a), Distinct(T, mark, d)
  PROVE  \/ Joined(a, mark) = << >>
         \/ Joined(d, mark) = Joined(a, mark)
         \/ Begins(Append(Joined(a, mark), mark), Joined(d, mark))
         <=> Begins(a, d)
<1> DEFINE p == Joined(a, mark)
           q == Joined(d, mark)
<1>1. a \in Seq(Seq(T)) /\ d \in Seq(Seq(T)) /\ mark \in T /\ Len(a) \in Nat /\ Len(d) \in Nat
  BY DEF Distinct
<1>2. PICK r : JoinGoes(T, d, mark, r)
  BY <1>1, JoinRuns
<1>2a. PICK ra : JoinGoes(T, a, mark, ra)
  BY <1>1, JoinRuns
<1>3. p \in Seq(T) /\ q \in Seq(T) /\ q = r[Len(d)]
  <2>1. q = r[Len(d)] /\ p = ra[Len(a)]
    BY <1>2, <1>2a DEF JoinGoes
  <2>2. r[Len(d)] \in Seq(T) /\ ra[Len(a)] \in Seq(T)
    <3>1. Len(d) \in 0..Len(d) /\ Len(a) \in 0..Len(a)
      BY <1>1
    <3>2. Lengthens(T, mark, d, r) /\ Lengthens(T, mark, a, ra)
      BY <1>2, <1>2a, JoinFacts
    <3> QED
      BY <3>1, <3>2 DEF Lengthens
  <2> QED
    BY <2>1, <2>2
<1>4. (p = << >> <=> a = << >>) /\ (q = << >> <=> d = << >>)
  BY NothingJoined
<1>5. (a # << >> => SplitAt(p, mark) = a) /\ (d # << >> => SplitAt(q, mark) = d)
  <2>1. ASSUME a # << >> PROVE ComeApart(T, mark, a)
    BY <2>1, JoinedSplits
  <2>2. ASSUME d # << >> PROVE ComeApart(T, mark, d)
    BY <2>2, JoinedSplits
  <2> QED
    BY <2>1, <2>2 DEF ComeApart
<1> HIDE DEF p, q
<1>6. ASSUME p = << >> PROVE Begins(a, d)
  <2>1. a = << >> /\ Len(a) = 0
    BY <1>4, <1>6
  <2> QED
    BY <1>1, <2>1 DEF Begins
<1>7. ASSUME p # << >>, q = p PROVE Begins(a, d)
  <2>1. a = d
    BY <1>4, <1>5, <1>7
  <2> QED
    BY <1>1, <2>1 DEF Begins
<1>8. ASSUME p # << >>, Begins(Append(p, mark), q) PROVE Begins(a, d)
  <2>1. Begins(SplitAt(p, mark), SplitAt(q, mark))
    BY <1>1, <1>3, <1>8, PartsStay
  <2>2. q # << >>
    <3>1. Len(Append(p, mark)) = Len(p) + 1 /\ Len(p) \in Nat
      BY <1>1, <1>3, AppendProperties
    <3>2. Len(Append(p, mark)) <= Len(q)
      BY <1>8 DEF Begins
    <3>3. Len(q) > 0
      <4>1. Len(q) \in Nat
        BY <1>3
      <4> QED
        BY <3>1, <3>2, <4>1
    <3> QED
      BY <3>3, EmptySeq
  <2> QED
    BY <1>4, <1>5, <1>8, <2>1, <2>2
<1>9. ASSUME Begins(a, d), a # << >>, q # p PROVE Begins(Append(p, mark), q)
  <2>1. p = r[Len(a)] /\ Len(a) \in 0..Len(d)
    BY <1>2, <1>9, JoinedBefore DEF p
  <2>2. Len(a) >= 1 /\ Len(d) \in 0..Len(d)
    BY <1>1, <1>9, EmptySeq
  <2>3. Len(a) < Len(d)
    <3>1. Len(a) # Len(d)
      BY <1>3, <1>9, <2>1
    <3> QED
      BY <1>1, <2>1, <3>1
  <2>4. Begins(Append(r[Len(a)], mark), r[Len(d)])
    BY <1>2, <2>1, <2>2, <2>3, Climbing
  <2> QED
    BY <1>3, <2>1, <2>4
<1>10. (p = << >> \/ q = p \/ Begins(Append(p, mark), q)) <=> Begins(a, d)
  BY <1>4, <1>6, <1>7, <1>8, <1>9
<1> QED
  BY <1>10 DEF p, q

\* Of two beginnings of a path the longer text has at least as many names.
LEMMA LongerTextMoreNames ==
  ASSUME NEW T, NEW mark, NEW v, NEW w, NEW d, Distinct(T, mark, v), Distinct(T, mark, w), Distinct(T, mark, d),
         Begins(v, d), Begins(w, d), Len(Joined(v, mark)) <= Len(Joined(w, mark))
  PROVE  Len(v) <= Len(w)
<1>1. d \in Seq(Seq(T)) /\ mark \in T /\ Len(d) \in Nat
  BY DEF Distinct
<1>2. PICK r : JoinGoes(T, d, mark, r)
  BY <1>1, JoinRuns
<1>3. Joined(v, mark) = r[Len(v)] /\ Len(v) \in 0..Len(d) /\ Joined(w, mark) = r[Len(w)] /\ Len(w) \in 0..Len(d)
  BY <1>2, JoinedBefore
<1>4. \A i \in 0..Len(d) : Len(r[i]) \in Nat
  BY <1>2, JoinFacts DEF Lengthens
<1>5. ASSUME Len(w) < Len(v) PROVE FALSE
  <2>1. Len(r[Len(w)]) < Len(r[Len(v)])
    BY <1>2, <1>3, <1>5, Climbing
  <2>2. Len(r[Len(v)]) <= Len(r[Len(w)]) /\ Len(r[Len(v)]) \in Nat /\ Len(r[Len(w)]) \in Nat
    BY <1>3, <1>4
  <2> QED
    BY <2>1, <2>2
<1>6. Len(v) \in Nat /\ Len(w) \in Nat
  BY <1>1, <1>3
<1> QED
  BY <1>5, <1>6

-----------------------------------------------------------------------------
(* The project of a path. *)

Letters == {"/"} \union UNION {Range(n) : n \in UNION {Range(d) : d \in Places}}

LEMMA PlacesApart == ASSUME NEW d \in Places PROVE Distinct(Letters, "/", d) /\ d \in Seq(Seq(Letters))
<1>1. d \in Seq(Range(d)) /\ \A n \in Range(d) : n \in Seq(Range(n)) /\ n # << >> /\ "/" \notin Range(n)
  BY GuardAssumption
<1>2. ASSUME NEW n \in Range(d) PROVE n \in Seq(Letters) /\ Markless(n, "/")
  <2>1. Range(n) \subseteq Letters
    BY DEF Letters
  <2>2. n \in Seq(Letters)
    BY <1>1, <2>1, SeqMonotonic
  <2>3. \A j \in 1..Len(n) : n[j] \in Range(n)
    BY <1>1, ElementOfSeq
  <2> QED
    BY <1>1, <2>2, <2>3 DEF Markless
<1>3. d \in Seq(Seq(Letters)) /\ Len(d) \in Nat /\ \A i \in 1..Len(d) : d[i] \in Range(d)
  <2>1. Range(d) \subseteq Seq(Letters)
    BY <1>2
  <2> QED
    BY <1>1, <2>1, SeqMonotonic, ElementOfSeq, LenProperties
<1>4. "/" \in Letters
  BY DEF Letters
<1> QED
  BY <1>1, <1>2, <1>3, <1>4 DEF Distinct

\* A path's text has no mark at either end.
LEMMA SpelledEnds ==
  ASSUME NEW d \in Places
  PROVE  /\ Spelled(d) \in Seq(Letters) /\ Len(Spelled(d)) \in Nat
         /\ Spelled(d) # << >> => Len(Spelled(d)) >= 1 /\ Spelled(d)[1] # "/" /\ Spelled(d)[Len(Spelled(d))] # "/"
<1> DEFINE n == Len(d)
           q == Spelled(d)
<1>1. Distinct(Letters, "/", d) /\ d \in Seq(Seq(Letters)) /\ n \in Nat /\ "/" \in Letters
  BY PlacesApart DEF Distinct
<1>2. PICK r : JoinGoes(Letters, d, "/", r)
  BY <1>1, JoinRuns
<1>3. Lengthens(Letters, "/", d, r)
  BY <1>1, <1>2, JoinFacts
<1>4. q = r[n] /\ q \in Seq(Letters) /\ Len(q) \in Nat
  <2>1. q = r[n] /\ n \in 0..n
    BY <1>1, <1>2 DEF JoinGoes, Spelled
  <2> HIDE DEF q
  <2> QED
    BY <1>3, <2>1 DEF Lengthens
<1>5. ASSUME q # << >> PROVE Len(q) >= 1 /\ q[1] # "/" /\ q[Len(q)] # "/"
  <2>1. n >= 1 /\ n \in 1..n /\ 1 \in 1..n
    <3>1. d # << >>
      BY <1>1, <1>5, NothingJoined DEF Spelled
    <3> QED
      BY <1>1, <3>1, EmptySeq
  <2>2. ASSUME NEW i \in 1..n
        PROVE  d[i] \in Seq(Letters) /\ Len(d[i]) \in Nat /\ Len(d[i]) >= 1 /\ d[i][1] # "/" /\ d[i][Len(d[i])] # "/"
    <3>1. d[i] \in Seq(Letters) /\ d[i] # << >> /\ Markless(d[i], "/")
      BY <1>1 DEF Distinct
    <3>2. Len(d[i]) \in Nat /\ Len(d[i]) >= 1
      BY <3>1, EmptySeq
    <3>3. 1 \in 1..Len(d[i]) /\ Len(d[i]) \in 1..Len(d[i])
      BY <3>2
    <3> QED
      BY <3>1, <3>2, <3>3 DEF Markless
  <2> HIDE DEF q, n
  <2>3. r[1] = d[1] /\ r[1] \in Seq(Letters)
    BY <1>3, <2>1, <2>2 DEF Lengthens, n
  <2>4. Len(q) >= 1 /\ q[1] # "/"
    <3>1. CASE n = 1
      BY <1>4, <2>1, <2>2, <2>3, <3>1
    <3>2. CASE n > 1
      <4> DEFINE u == Append(r[1], "/")
      <4>1. 1 \in 0..Len(d) /\ n \in 0..Len(d)
        BY <1>1, <2>1 DEF n
      <4>2. Begins(u, r[n])
        BY <1>1, <1>2, <3>2, <4>1, Climbing
      <4>3. Len(u) = Len(r[1]) + 1 /\ \A i \in 1..Len(r[1]) : u[i] = r[1][i]
        BY <1>1, <2>3, AppendProperties
      <4>4. Len(r[1]) \in Nat /\ Len(r[1]) >= 1 /\ 1 \in 1..Len(r[1]) /\ 1 \in 1..(Len(r[1]) + 1) /\ r[1][1] # "/"
        BY <2>1, <2>2, <2>3
      <4> HIDE DEF u
      <4>5. Len(u) <= Len(q) /\ q[1] = u[1]
        BY <1>4, <4>2, <4>3, <4>4 DEF Begins
      <4> QED
        BY <1>4, <4>3, <4>4, <4>5
    <3> QED
      BY <1>1, <2>1, <3>1, <3>2
  <2>5. q[Len(q)] # "/"
    <3>1. CASE n = 1
      BY <1>4, <2>1, <2>2, <2>3, <3>1
    <3>2. CASE n > 1
      <4> DEFINE v == r[n - 1] \o <<"/">>
                 b == d[n]
      <4>1. q = v \o b
        BY <1>3, <1>4, <2>1, <3>2 DEF Lengthens, n
      <4>2. v \in Seq(Letters) /\ b \in Seq(Letters) /\ Len(b) >= 1 /\ b[Len(b)] # "/" /\ Len(b) \in Nat
        <5>1. n - 1 \in 0..n
          BY <1>1, <2>1
        <5>2. r[n - 1] \in Seq(Letters) /\ <<"/">> \in Seq(Letters)
          BY <1>1, <1>3, <5>1, OnePiece DEF Lengthens, n
        <5> QED
          BY <2>1, <2>2, <5>2, ConcatProperties
      <4> HIDE DEF v, b
      <4>3. Len(v \o b) = Len(v) + Len(b) /\ Len(v) \in Nat
            /\ \A i \in 1..(Len(v) + Len(b)) : (v \o b)[i] = IF i <= Len(v) THEN v[i] ELSE b[i - Len(v)]
        BY <4>2, ConcatProperties, LenProperties
      <4>4. Len(v) + Len(b) \in 1..(Len(v) + Len(b)) /\ ~ (Len(v) + Len(b) <= Len(v)) /\ Len(v) + Len(b) - Len(v) = Len(b)
        BY <4>2, <4>3
      <4> QED
        BY <4>1, <4>2, <4>3, <4>4
    <3> QED
      BY <1>1, <2>1, <3>1, <3>2
  <2> QED
    BY <2>4, <2>5
<1> QED
  BY <1>4, <1>5

\* However a path is led in, it is read the same.
LEMMA PathIsPlain ==
  ASSUME NEW d \in Places, NEW lead \in {<< >>, <<"/">>}
  PROVE  NormalizePath(lead \o Spelled(d)) = Spelled(d)
<1> DEFINE q == Spelled(d)
           m == Len(q)
           l == Len(lead)
           p == lead \o q
<1>1. /\ q \in Seq(Letters) /\ m \in Nat
      /\ q # << >> => m >= 1 /\ q[1] # "/" /\ q[m] # "/"
  BY SpelledEnds
<1>2. lead \in Seq(Letters) /\ l \in 0..1 /\ \A i \in 1..l : lead[i] = "/"
  <2>1. "/" \in Letters
    BY DEF Letters
  <2>2. CASE lead = << >>
    BY <2>2
  <2>3. CASE lead = <<"/">>
    <3>1. lead \in Seq(Letters)
      BY <2>1, <2>3, OnePiece
    <3>2. l = 1 /\ lead[1] = "/"
      BY <2>3
    <3>3. \A i \in 1..l : i = 1
      BY <3>2
    <3> HIDE DEF l
    <3> QED
      BY <3>1, <3>2, <3>3
  <2> QED
    BY <2>2, <2>3
<1> HIDE DEF q
<1>3. p \in Seq(Letters) /\ Len(p) = l + m /\ \A i \in 1..(l + m) : p[i] = IF i <= l THEN lead[i] ELSE q[i - l]
  BY <1>1, <1>2, ConcatProperties
<1>3a. ASSUME NEW k \in 1..m PROVE p[l + k] = q[k]
  <2> DEFINE i == l + k
  <2>1. i \in 1..(l + m) /\ ~ (i <= l) /\ i - l = k
    BY <1>1, <1>2
  <2> HIDE DEF i, p, l, m
  <2>2. p[i] = q[i - l]
    BY <1>3, <2>1
  <2> QED
    BY <2>1, <2>2 DEF i
<1> DEFINE U == Unlike(p, "/")
<1>4. U \subseteq 1..(l + m) /\ (\A i \in U : i > l) /\ \A i \in 1..(l + m) : i \in U <=> p[i] # "/"
  <2>1. DOMAIN p = 1..(l + m)
    BY <1>3
  <2>2. U = {i \in 1..(l + m) : p[i] # "/"}
    BY <2>1 DEF Unlike
  <2> HIDE DEF U, p
  <2>3. ASSUME NEW i \in U PROVE i > l
    <3>1. i \in 1..(l + m) /\ p[i] # "/"
      BY <2>2
    <3>2. CASE i <= l
      <4>1. i \in 1..l
        BY <1>2, <3>1, <3>2
      <4> QED
        BY <1>2, <1>3, <3>1, <3>2, <4>1
    <3> QED
      BY <1>2, <3>1, <3>2
  <2> QED
    BY <2>2, <2>3
<1> HIDE DEF p, U, l, m
<1>5. CASE q = << >>
  <2>1. m = 0
    BY <1>5 DEF m
  <2>2. U = {}
    <3>1. \A i \in 1..(l + m) : ~ (i > l)
      BY <1>2, <2>1
    <3> QED
      BY <1>4, <3>1
  <2>3. NormalizePath(p) = << >>
    BY <2>2 DEF NormalizePath, U
  <2> QED
    BY <1>5, <2>3 DEF p, q
<1>6. CASE q # << >>
  <2>1. l + 1 \in 1..(l + m) /\ l + m \in 1..(l + m) /\ ~ (l + 1 <= l) /\ ~ (l + m <= l) /\ l + 1 - l = 1 /\ l + m - l = m
    BY <1>1, <1>2, <1>6
  <2>2. p[l + 1] = q[1] /\ p[l + m] = q[m]
    <3>1. 1 \in 1..m /\ m \in 1..m
      BY <1>1, <1>6
    <3> QED
      BY <1>3a, <3>1
  <2>3. l + 1 \in U /\ l + m \in U
    BY <1>1, <1>4, <1>6, <2>1, <2>2
  <2>4. \A i \in U : i \in Nat /\ l + 1 <= i /\ i <= l + m
    BY <1>1, <1>2, <1>4
  <2>5. Min(U) = l + 1
    <3>1. \E x \in U : \A y \in U : x <= y
      BY <2>3, <2>4
    <3>2. Min(U) \in U /\ \A y \in U : Min(U) <= y
      BY <3>1 DEF Min
    <3> QED
      BY <2>3, <2>4, <3>2
  <2>6. Max(U) = l + m
    <3>1. \E x \in U : \A y \in U : x >= y
      BY <2>3, <2>4
    <3>2. Max(U) \in U /\ \A y \in U : Max(U) >= y
      BY <3>1 DEF Max
    <3> QED
      BY <2>3, <2>4, <3>2
  <2>7. NormalizePath(p) = SubSeq(p, l + 1, l + m)
    BY <2>3, <2>5, <2>6 DEF NormalizePath, U
  <2>8. SubSeq(p, l + 1, l + m) = q
    <3> DEFINE w == SubSeq(p, l + 1, l + m)
    <3>1. \A i \in (l + 1)..(l + m) : p[i] \in Letters
      <4> TAKE i \in (l + 1)..(l + m)
      <4>1. i \in 1..Len(p)
        BY <1>1, <1>2, <1>3
      <4> QED
        BY <1>3, <4>1, ElementOfSeq
    <3>2. l + 1 \in Int /\ l + m \in Int /\ l + 1 <= l + m /\ l + m - (l + 1) + 1 = m
      BY <1>1, <1>2, <1>6
    <3>3. w \in Seq(Letters) /\ Len(w) = m /\ \A i \in 1..m : w[i] = p[l + 1 + i - 1]
      <4> DEFINE lo == l + 1
                 hi == l + m
      <4>1. lo \in Int /\ hi \in Int /\ lo <= hi /\ hi - lo + 1 = m /\ \A i \in lo..hi : p[i] \in Letters
        <5>1. \A i \in lo..hi : p[i] \in Letters
          BY <3>1
        <5>2. lo \in Int /\ hi \in Int /\ lo <= hi /\ hi - lo + 1 = m
          BY <1>1, <1>2, <1>6
        <5> HIDE DEF lo, hi
        <5> QED
          BY <5>1, <5>2
      <4> HIDE DEF lo, hi
      <4>2. /\ SubSeq(p, lo, hi) \in Seq(Letters)
            /\ Len(SubSeq(p, lo, hi)) = IF lo <= hi THEN hi - lo + 1 ELSE 0
            /\ \A i \in 1..(hi - lo + 1) : SubSeq(p, lo, hi)[i] = p[lo + i - 1]
        BY <4>1, SubSeqProperties
      <4>3. SubSeq(p, lo, hi) \in Seq(Letters) /\ Len(SubSeq(p, lo, hi)) = m /\ \A i \in 1..m : SubSeq(p, lo, hi)[i] = p[lo + i - 1]
        BY <4>1, <4>2
      <4> QED
        BY <4>3 DEF lo, hi
    <3>4. \A i \in 1..m : w[i] = q[i]
      <4> TAKE i \in 1..m
      <4>1. l + 1 + i - 1 = l + i
        BY <1>1, <1>2
      <4>2. p[l + 1 + i - 1] = q[i]
        BY <1>3a, <4>1
      <4> HIDE DEF w
      <4> QED
        BY <3>3, <4>2
    <3> HIDE DEF w
    <3>5. w = q
      BY <1>1, <3>3, <3>4, SeqEqual DEF m
    <3> QED
      BY <3>5 DEF w
  <2> QED
    BY <2>7, <2>8 DEF p, q
<1> QED
  BY <1>5, <1>6

\* A directory claims a path just when its names begin the path's.
LEMMA ClaimsByName ==
  ASSUME NEW a \in Places, NEW d \in Places
  PROVE  Claims(Spelled(a), Spelled(d)) <=> IsPrefix(a, d)
<1>1. Distinct(Letters, "/", a) /\ Distinct(Letters, "/", d) /\ a \in Seq(Seq(Letters)) /\ d \in Seq(Seq(Letters))
  BY PlacesApart
<1>2. IsPrefix(a, d) <=> Begins(a, d)
  BY <1>1, PrefixBegins
<1>3. IsPrefix(Append(Spelled(a), "/"), Spelled(d)) <=> Begins(Append(Spelled(a), "/"), Spelled(d))
  <2>1. "/" \in Letters /\ Spelled(a) \in Seq(Letters) /\ Spelled(d) \in Seq(Letters)
    BY SpelledEnds DEF Letters
  <2>2. Append(Spelled(a), "/") \in Seq(Letters)
    BY <2>1, AppendProperties
  <2> QED
    BY <2>1, <2>2, PrefixBegins
<1>4. \/ Spelled(a) = << >>
      \/ Spelled(d) = Spelled(a)
      \/ Begins(Append(Spelled(a), "/"), Spelled(d))
      <=> Begins(a, d)
  BY <1>1, TextsFollowNames DEF Spelled
<1> QED
  BY <1>2, <1>3, <1>4 DEF Claims

-----------------------------------------------------------------------------
(* The repository of a remote. *)

\* What stands behind a beginning is found by dropping it.
LEMMA Followed ==
  ASSUME NEW T, NEW u \in Seq(T), NEW w \in Seq(T), Len(u) >= 1
  PROVE  /\ u \o w \in Seq(T) /\ u \o w # << >> /\ Head(u \o w) = u[1] /\ (u \o w)[1] = u[1]
         /\ Drop(u \o w, Len(u)) = w /\ Len(u \o w) = Len(u) + Len(w)
<1> DEFINE l == Len(u)
           m == Len(w)
           s == u \o w
<1>1. l \in Nat /\ l >= 1 /\ m \in Nat
  BY LenProperties
<1>2. s \in Seq(T) /\ Len(s) = l + m /\ \A i \in 1..(l + m) : s[i] = IF i <= l THEN u[i] ELSE w[i - l]
  BY ConcatProperties
<1> HIDE DEF s, l, m
<1>3. s[1] = u[1] /\ s # << >>
  <2>1. 1 \in 1..(l + m) /\ 1 <= l
    BY <1>1
  <2>2. Len(s) # 0
    BY <1>1, <1>2
  <2> QED
    BY <1>2, <2>1, <2>2, EmptySeq
<1>4. Head(s) = s[1]
  BY <1>2, <1>3
<1>5. ASSUME NEW k \in 1..m PROVE s[l + k] = w[k]
  <2> DEFINE i == l + k
  <2>1. i \in 1..(l + m) /\ ~ (i <= l) /\ i - l = k
    BY <1>1
  <2> HIDE DEF i
  <2>2. s[i] = w[i - l]
    BY <1>2, <2>1
  <2> QED
    BY <2>1, <2>2 DEF i
<1>6. Drop(s, l) = w
  <2> DEFINE lo == l + 1
             hi == l + m
             v == SubSeq(s, lo, hi)
  <2>1. lo \in Int /\ hi \in Int /\ hi - lo + 1 = m /\ (IF lo <= hi THEN hi - lo + 1 ELSE 0) = m
    BY <1>1
  <2>2. \A i \in lo..hi : s[i] \in T
    <3> TAKE i \in lo..hi
    <3>1. i \in 1..Len(s)
      BY <1>1, <1>2
    <3> QED
      BY <1>2, <3>1, ElementOfSeq
  <2> HIDE DEF lo, hi
  <2>3. /\ v \in Seq(T) /\ Len(v) = IF lo <= hi THEN hi - lo + 1 ELSE 0
        /\ \A i \in 1..(hi - lo + 1) : v[i] = s[lo + i - 1]
    BY <2>1, <2>2, SubSeqProperties
  <2>4. v \in Seq(T) /\ Len(v) = m /\ \A i \in 1..m : v[i] = s[lo + i - 1]
    BY <2>1, <2>3
  <2> HIDE DEF v
  <2>5. \A i \in 1..m : v[i] = w[i]
    <3> TAKE i \in 1..m
    <3>1. lo + i - 1 = l + i
      BY <1>1 DEF lo
    <3> QED
      BY <1>5, <2>4, <3>1
  <2>6. v = w
    BY <2>4, <2>5, SeqEqual DEF m
  <2>7. Drop(s, l) = v
    BY <1>2 DEF Drop, v, lo, hi
  <2> QED
    BY <2>6, <2>7
<1>7. s \in Seq(T) /\ s # << >> /\ Head(s) = u[1] /\ s[1] = u[1] /\ Drop(s, l) = w /\ Len(s) = l + m
  BY <1>2, <1>3, <1>4, <1>6
<1> QED
  BY ONLY <1>7 DEF s, l, m

LEMMA MarklessBoth ==
  ASSUME NEW T, NEW u \in Seq(T), NEW w \in Seq(T), NEW mark, Markless(u, mark), Markless(w, mark)
  PROVE  Markless(u \o w, mark)
<1>1. Len(u \o w) = Len(u) + Len(w) /\ Len(u) \in Nat /\ Len(w) \in Nat
      /\ \A i \in 1..(Len(u) + Len(w)) : (u \o w)[i] = IF i <= Len(u) THEN u[i] ELSE w[i - Len(u)]
  BY ConcatProperties, LenProperties
<1>2. ASSUME NEW i \in 1..(Len(u) + Len(w)) PROVE (u \o w)[i] # mark
  <2>1. CASE i <= Len(u)
    BY <1>1, <2>1 DEF Markless
  <2>2. CASE ~ (i <= Len(u))
    <3>1. i - Len(u) \in 1..Len(w)
      BY <1>1, <2>2
    <3>2. (u \o w)[i] = w[i - Len(u)]
      BY <1>1, <2>2, SMTT(30)
    <3> QED
      BY <3>1, <3>2 DEF Markless
  <2> QED
    BY <2>1, <2>2
<1> QED
  BY <1>1, <1>2 DEF Markless

\* The tokens of the remotes.
Tokens == {"https://", "ssh://", "git", "user", "host", "web", "@", ":", "/", "2222", ".git", "acme", "Acme"}
          \union UNION {Range(r) : r \in Repos}

LEMMA SchemeGone == ASSUME NEW a \in {"https://", "ssh://"}, NEW w \in Seq(Tokens) PROVE NoScheme(<<a>> \o w) = w
<1> DEFINE u == <<a>>
<1>1. u \in Seq(Tokens) /\ Len(u) = 1 /\ u[1] = a
  BY OnePiece DEF Tokens
<1> HIDE DEF u
<1>2. /\ u \o w \in Seq(Tokens) /\ u \o w # << >> /\ Head(u \o w) = a
      /\ Drop(u \o w, 1) = w
  <2>1. Len(u) >= 1
    BY <1>1
  <2> QED
    BY <1>1, <2>1, Followed, ZenonT(40)
<1>3. Tail(u \o w) = w
  BY <1>2, TailIsSubSeq DEF Drop
<1> QED
  BY <1>2, <1>3 DEF NoScheme, Schemes, u

LEMMA NoSchemeThere ==
  ASSUME NEW u \in Seq(Tokens), NEW w \in Seq(Tokens), Len(u) >= 1, u[1] \notin Schemes
  PROVE  NoScheme(u \o w) = u \o w
<1>1. Head(u \o w) = u[1]
  BY Followed
<1> QED
  BY <1>1 DEF NoScheme

LEMMA ScpOther ==
  ASSUME NEW u \in Seq(Tokens), NEW w \in Seq(Tokens), Len(u) >= 1, u[1] # "git"
  PROVE  Scp(u \o w) = u \o w
<1> DEFINE s == u \o w
           g == <<"git", "@">>
<1>1. s \in Seq(Tokens) /\ s[1] = u[1]
  BY Followed
<1>2. g \in Seq(Tokens) /\ Len(g) = 2 /\ g[1] = "git"
  BY DEF Tokens
<1> HIDE DEF s, g
<1>3. ~ IsPrefix(g, s)
  <2> SUFFICES ASSUME IsPrefix(g, s) PROVE FALSE
    OBVIOUS
  <2>1. Begins(g, s)
    BY <1>1, <1>2, PrefixBegins
  <2>2. 1 \in 1..Len(g)
    BY <1>2
  <2>3. s[1] = g[1]
    BY <2>1, <2>2 DEF Begins
  <2> QED
    BY <1>1, <1>2, <2>3
<1> QED
  BY <1>3 DEF Scp, s, g

\* Followed git@ the first colon becomes a slash.
LEMMA ScpRest ==
  ASSUME NEW w \in Seq(Tokens)
  PROVE  LET colons == {i \in DOMAIN w : w[i] = ":" /\ \A j \in 1..(i - 1) : w[j] # ":"}
         IN  Scp(<<"git", "@">> \o w) = [i \in DOMAIN w |-> IF i \in colons THEN "/" ELSE w[i]]
<1> DEFINE g == <<"git", "@">>
<1>1. g \in Seq(Tokens) /\ Len(g) = 2
  BY DEF Tokens
<1> HIDE DEF g
<1>2. g \o w \in Seq(Tokens) /\ Drop(g \o w, 2) = w
  <2>1. Len(g) >= 1
    BY <1>1
  <2>2. g \o w \in Seq(Tokens) /\ Drop(g \o w, Len(g)) = w
    BY <1>1, <2>1, Followed
  <2> QED
    BY ONLY <1>1, <2>2
<1>3. IsPrefix(g, g \o w)
  <2>1. Len(g \o w) = Len(g) + Len(w) /\ \A i \in 1..(Len(g) + Len(w)) : (g \o w)[i] = IF i <= Len(g) THEN g[i] ELSE w[i - Len(g)]
    BY <1>1, ConcatProperties
  <2>2. Len(w) \in Nat /\ Len(g) <= Len(g) + Len(w) /\ \A i \in 1..Len(g) : i \in 1..(Len(g) + Len(w)) /\ i <= Len(g)
    BY <1>1, LenProperties
  <2>3. Begins(g, g \o w)
    BY <2>1, <2>2 DEF Begins
  <2> QED
    BY <1>1, <1>2, <2>3, PrefixBegins
<1> QED
  BY <1>2, <1>3 DEF Scp, g

LEMMA ScpPlain == ASSUME NEW w \in Seq(Tokens), Markless(w, ":") PROVE Scp(<<"git", "@">> \o w) = w
<1>1. DOMAIN w = 1..Len(w) /\ w \in [1..Len(w) -> Tokens]
  BY LenProperties
<1>2. {i \in DOMAIN w : w[i] = ":" /\ \A j \in 1..(i - 1) : w[j] # ":"} = {}
  BY <1>1 DEF Markless
<1>3. Scp(<<"git", "@">> \o w) = [i \in DOMAIN w |-> w[i]]
  BY <1>2, ScpRest
<1> QED
  BY <1>1, <1>3

LEMMA ScpColon ==
  ASSUME NEW v \in Seq(Tokens)
  PROVE  Scp(<<"git", "@">> \o (<<"host", ":">> \o v)) = <<"host", "/">> \o v
<1> DEFINE h == <<"host", ":">>
           k == <<"host", "/">>
           w == h \o v
           x == k \o v
           m == Len(v)
           colons == {i \in DOMAIN w : w[i] = ":" /\ \A j \in 1..(i - 1) : w[j] # ":"}
           y == [i \in DOMAIN w |-> IF i \in colons THEN "/" ELSE w[i]]
<1>1. /\ h \in Seq(Tokens) /\ Len(h) = 2 /\ h[1] = "host" /\ h[2] = ":"
      /\ k \in Seq(Tokens) /\ Len(k) = 2 /\ k[1] = "host" /\ k[2] = "/" /\ m \in Nat
  BY LenProperties DEF Tokens
<1> HIDE DEF h, k, m
<1>2. /\ w \in Seq(Tokens) /\ Len(w) = 2 + m /\ DOMAIN w = 1..(2 + m)
      /\ \A i \in 1..(2 + m) : w[i] = IF i <= 2 THEN h[i] ELSE v[i - 2]
  <2>1. /\ w \in Seq(Tokens) /\ Len(w) = Len(h) + Len(v)
        /\ \A i \in 1..(Len(h) + Len(v)) : w[i] = IF i <= Len(h) THEN h[i] ELSE v[i - Len(h)]
    BY <1>1, ConcatProperties
  <2>2. DOMAIN w = 1..Len(w)
    BY <2>1, LenProperties
  <2> QED
    BY <1>1, <2>1, <2>2 DEF m
<1>3. x \in Seq(Tokens) /\ Len(x) = 2 + m /\ \A i \in 1..(2 + m) : x[i] = IF i <= 2 THEN k[i] ELSE v[i - 2]
  <2>1. /\ x \in Seq(Tokens) /\ Len(x) = Len(k) + Len(v)
        /\ \A i \in 1..(Len(k) + Len(v)) : x[i] = IF i <= Len(k) THEN k[i] ELSE v[i - Len(k)]
    BY <1>1, ConcatProperties
  <2> QED
    BY <1>1, <2>1 DEF m
<1> HIDE DEF w, x
<1>4. w[1] = "host" /\ w[2] = ":" /\ x[1] = "host" /\ x[2] = "/" /\ 1 \in 1..(2 + m) /\ 2 \in 1..(2 + m)
  BY <1>1, <1>2, <1>3
<1>5. colons = {2}
  <2>1. 2 \in colons
    <3>1. \A j \in 1..(2 - 1) : j = 1
      OBVIOUS
    <3> QED
      BY <1>2, <1>4, <3>1
  <2>2. ASSUME NEW i \in colons PROVE i = 2
    <3>1. i \in 1..(2 + m) /\ w[i] = ":" /\ \A j \in 1..(i - 1) : w[j] # ":"
      BY <1>2
    <3>2. i # 1
      BY <1>4, <3>1
    <3>3. ~ (i > 2)
      <4> SUFFICES ASSUME i > 2 PROVE FALSE
        OBVIOUS
      <4>1. 2 \in 1..(i - 1)
        BY <1>1, <3>1
      <4> QED
        BY <1>4, <3>1, <4>1
    <3> QED
      BY <1>1, <3>1, <3>2, <3>3
  <2> QED
    BY <2>1, <2>2
<1>6. Scp(<<"git", "@">> \o w) = y
  BY <1>2, ScpRest
<1> HIDE DEF colons
<1>7. y \in Seq(Tokens) /\ Len(y) = 2 + m /\ \A i \in 1..(2 + m) : y[i] = IF i = 2 THEN "/" ELSE w[i]
  <2>1. y \in [1..(2 + m) -> Tokens]
    <3>1. \A i \in 1..(2 + m) : w[i] \in Tokens
      BY <1>2, ElementOfSeq
    <3>2. "/" \in Tokens
      BY DEF Tokens
    <3> QED
      BY <1>2, <3>1, <3>2
  <2>2. 2 + m \in Nat
    BY <1>1
  <2> QED
    BY <1>2, <1>5, <2>1, <2>2, SMTT(30)
<1> HIDE DEF y
<1>8. \A i \in 1..(2 + m) : y[i] = x[i]
  <2> TAKE i \in 1..(2 + m)
  <2>1. CASE i = 1
    BY <1>4, <1>7, <2>1
  <2>2. CASE i = 2
    BY <1>4, <1>7, <2>2
  <2>3. CASE i > 2
    <3>1. ~ (i <= 2) /\ i # 2
      BY <2>3
    <3> QED
      BY <1>2, <1>3, <1>7, <3>1
  <2> QED
    BY <1>1, <2>1, <2>2, <2>3
<1>9. y = x
  BY <1>3, <1>7, <1>8, SeqEqual
<1> QED
  BY <1>6, <1>9 DEF w, x, h, k

LEMMA NobodyThere == ASSUME NEW w \in Seq(Tokens), Markless(w, "@") PROVE NoUser(w) = w
<1>1. DOMAIN w = 1..Len(w)
  BY LenProperties
<1>2. ~ \E i \in DOMAIN w : w[i] = "@"
  BY <1>1 DEF Markless
<1> QED
  BY <1>2 DEF NoUser

LEMMA UserGone == ASSUME NEW w \in Seq(Tokens), Markless(w, "@") PROVE NoUser(<<"user", "@">> \o w) = w
<1> DEFINE u == <<"user", "@">>
           s == u \o w
           I == {i \in 1..Len(s) : s[i] = "@"}
<1>1. u \in Seq(Tokens) /\ Len(u) = 2 /\ u[1] = "user" /\ u[2] = "@"
  BY DEF Tokens
<1> HIDE DEF u
<1>2. s \in Seq(Tokens) /\ Drop(s, 2) = w /\ Len(s) = 2 + Len(w) /\ Len(w) \in Nat
  <2>1. Len(u) >= 1
    BY <1>1
  <2> QED
    BY <1>1, <2>1, Followed, LenProperties, ZenonT(40)
<1>3. DOMAIN s = 1..(2 + Len(w)) /\ \A i \in 1..(2 + Len(w)) : s[i] = IF i <= 2 THEN u[i] ELSE w[i - 2]
  BY <1>1, <1>2, ConcatProperties, LenProperties
<1> HIDE DEF s
<1>4. I = {2}
  <2>1. 2 \in I
    BY <1>1, <1>2, <1>3
  <2>2. ASSUME NEW i \in I PROVE i = 2
    <3>1. i \in 1..(2 + Len(w)) /\ s[i] = "@"
      BY <1>2
    <3>2. CASE i <= 2
      <4>1. i = 1 \/ i = 2
        BY <1>2, <3>1, <3>2
      <4> QED
        BY <1>1, <1>2, <1>3, <3>1, <3>2, <4>1
    <3>3. CASE ~ (i <= 2)
      <4>1. i - 2 \in 1..Len(w) /\ s[i] = w[i - 2]
        BY <1>2, <1>3, <3>1, <3>3
      <4> QED
        BY <3>1, <4>1 DEF Markless
    <3> QED
      BY <3>2, <3>3
  <2> QED
    BY <2>1, <2>2
<1>5. 2 \in DOMAIN s /\ s[2] = "@"
  BY <1>1, <1>2, <1>3
<1>6. SelectLastInSeq(s, LAMBDA t : t = "@") = 2
  <2>1. Max(I) = 2
    BY <1>4 DEF Max
  <2>2. SelectLastInSeq(s, LAMBDA t : t = "@") = IF I # {} THEN Max(I) ELSE 0
    BY DEF SelectLastInSeq
  <2> QED
    BY <1>4, <2>1, <2>2
<1> QED
  BY <1>2, <1>5, <1>6 DEF NoUser, s, u

\* A text that does not end in a mark is not shortened; one mark more is dropped.
LEMMA NothingTrimmed ==
  ASSUME NEW T, NEW x \in Seq(T), NEW mark, x # << >> => x[Len(x)] # mark
  PROVE  RTrim(x, mark) = x
<1> DEFINE n == Len(x)
           U == Unlike(x, mark)
<1>1. n \in Nat /\ DOMAIN x = 1..n /\ \A i \in 1..n : x[i] \in T
  BY LenProperties, ElementOfSeq
<1>2. U = {i \in 1..n : x[i] # mark}
  BY <1>1 DEF Unlike
<1>3. CASE x = << >>
  <2>1. U = {}
    BY <1>2, <1>3
  <2> QED
    BY <1>3, <2>1 DEF RTrim
<1>4. CASE x # << >>
  <2>1. n >= 1 /\ n \in 1..n
    BY <1>1, <1>4, EmptySeq
  <2>2. n \in U /\ \A i \in U : i \in Nat /\ i <= n
    BY <1>2, <1>4, <2>1
  <2> HIDE DEF U
  <2>3. Max(U) = n
    <3>1. \E m \in U : \A y \in U : m >= y
      BY <1>1, <2>2
    <3>2. Max(U) \in U /\ \A y \in U : Max(U) >= y
      BY <3>1 DEF Max
    <3> QED
      BY <1>1, <2>2, <3>2
  <2>4. RTrim(x, mark) = SubSeq(x, 1, n)
    BY <2>2, <2>3 DEF RTrim, U
  <2>5. SubSeq(x, 1, n) = x
    <3> DEFINE w == SubSeq(x, 1, n)
    <3>1. 1 \in Int /\ n \in Int /\ 1 <= n /\ n - 1 + 1 = n /\ \A i \in 1..n : x[i] \in T
      BY <1>1, <2>1
    <3> HIDE DEF n
    <3>2. /\ w \in Seq(T) /\ Len(w) = IF 1 <= n THEN n - 1 + 1 ELSE 0
          /\ \A i \in 1..(n - 1 + 1) : w[i] = x[1 + i - 1]
      BY <3>1, SubSeqProperties
    <3> HIDE DEF w
    <3>3. Len(w) = n /\ \A i \in 1..n : w[i] = x[i]
      BY <3>1, <3>2
    <3>4. w = x
      BY <3>2, <3>3, SeqEqual DEF n
    <3> QED
      BY <3>4 DEF w
  <2> QED
    BY <2>4, <2>5
<1> QED
  BY <1>3, <1>4

LEMMA OneTrimmed ==
  ASSUME NEW T, NEW x \in Seq(T), NEW mark \in T, x # << >>, x[Len(x)] # mark
  PROVE  RTrim(x \o <<mark>>, mark) = x
<1> DEFINE n == Len(x)
           y == x \o <<mark>>
           U == Unlike(y, mark)
<1>1. n \in Nat /\ n >= 1 /\ n \in 1..n /\ \A i \in 1..n : x[i] \in T
  BY LenProperties, ElementOfSeq, EmptySeq
<1>2. y \in Seq(T) /\ Len(y) = n + 1 /\ (\A i \in 1..n : y[i] = x[i]) /\ y[n + 1] = mark
  <2> DEFINE b == <<mark>>
  <2>1. b \in Seq(T) /\ Len(b) = 1 /\ b[1] = mark
    BY OnePiece
  <2> HIDE DEF b
  <2>2. x \o b \in Seq(T) /\ Len(x \o b) = n + 1 /\ \A i \in 1..(n + 1) : (x \o b)[i] = IF i <= n THEN x[i] ELSE b[i - n]
    <3>1. x \o b \in Seq(T) /\ Len(x \o b) = n + Len(b) /\ \A i \in 1..(n + Len(b)) : (x \o b)[i] = IF i <= n THEN x[i] ELSE b[i - n]
      BY <2>1, ConcatProperties
    <3> QED
      BY <2>1, <3>1
  <2>3. n + 1 \in 1..(n + 1) /\ ~ (n + 1 <= n) /\ n + 1 - n = 1 /\ \A i \in 1..n : i \in 1..(n + 1) /\ i <= n
    BY <1>1
  <2> QED
    BY <2>1, <2>2, <2>3 DEF b
<1> HIDE DEF y
<1>3. U = {i \in 1..(n + 1) : y[i] # mark}
  <2>1. DOMAIN y = 1..(n + 1)
    BY <1>2, LenProperties
  <2> QED
    BY <2>1 DEF Unlike
<1>4. n \in U /\ \A i \in U : i \in Nat /\ i <= n
  <2>1. n \in U
    BY <1>1, <1>2, <1>3
  <2>2. ASSUME NEW i \in U PROVE i \in Nat /\ i <= n
    <3>1. i \in 1..(n + 1) /\ y[i] # mark
      BY <1>3
    <3>2. i # n + 1
      BY <1>2, <3>1
    <3> QED
      BY <1>1, <3>1, <3>2
  <2> QED
    BY <2>1, <2>2
<1> HIDE DEF U
<1>5. Max(U) = n
  <2>1. \E m \in U : \A k \in U : m >= k
    BY <1>1, <1>4
  <2>2. Max(U) \in U /\ \A k \in U : Max(U) >= k
    BY <2>1 DEF Max
  <2> QED
    BY <1>1, <1>4, <2>2
<1>6. RTrim(y, mark) = SubSeq(y, 1, n)
  BY <1>4, <1>5 DEF RTrim, U
<1>7. SubSeq(y, 1, n) = x
  <2> DEFINE w == SubSeq(y, 1, n)
  <2>1. 1 \in Int /\ n \in Int /\ 1 <= n /\ n - 1 + 1 = n /\ \A i \in 1..n : y[i] \in T
    BY <1>1, <1>2
  <2>2. \A i \in 1..n : y[i] = x[i]
    BY <1>2
  <2> HIDE DEF n
  <2>3. /\ w \in Seq(T) /\ Len(w) = IF 1 <= n THEN n - 1 + 1 ELSE 0
        /\ \A i \in 1..(n - 1 + 1) : w[i] = y[1 + i - 1]
    BY <2>1, SubSeqProperties
  <2> HIDE DEF w
  <2>4. Len(w) = n /\ \A i \in 1..n : w[i] = x[i]
    BY <2>1, <2>2, <2>3
  <2>5. w = x
    BY <2>3, <2>4, SeqEqual DEF n
  <2> QED
    BY <2>5 DEF w
<1> QED
  BY <1>6, <1>7 DEF y

LEMMA TailTrimmed ==
  ASSUME NEW x \in Seq(Tokens), x # << >>, x[Len(x)] \notin {"/", ".git"}, NEW t \in {<< >>, <<".git">>, <<"/">>}
  PROVE  RTrim(RTrim(x \o t, "/"), ".git") = x
<1>1. RTrim(x, "/") = x /\ RTrim(x, ".git") = x
  BY NothingTrimmed
<1>2. CASE t = << >>
  <2>1. x \o t = x
    BY <1>2, ConcatEmptySeq
  <2> QED
    BY <1>1, <2>1
<1>3. CASE t = <<"/">>
  <2>1. "/" \in Tokens
    BY DEF Tokens
  <2>2. RTrim(x \o t, "/") = x
    BY <1>3, <2>1, OneTrimmed
  <2> QED
    BY <1>1, <2>2
<1>4. CASE t = <<".git">>
  <2>1. ".git" \in Tokens
    BY DEF Tokens
  <2>2. t \in Seq(Tokens) /\ Len(t) = 1 /\ t[1] = ".git"
    BY <1>4, <2>1, OnePiece
  <2>3. /\ x \o t \in Seq(Tokens) /\ Len(x \o t) = Len(x) + 1 /\ Len(x) \in Nat
        /\ \A i \in 1..(Len(x) + 1) : (x \o t)[i] = IF i <= Len(x) THEN x[i] ELSE t[i - Len(x)]
    <3>1. /\ x \o t \in Seq(Tokens) /\ Len(x \o t) = Len(x) + Len(t) /\ Len(x) \in Nat
          /\ \A i \in 1..(Len(x) + Len(t)) : (x \o t)[i] = IF i <= Len(x) THEN x[i] ELSE t[i - Len(x)]
      <4>1. Len(x) \in Nat
        BY LenProperties
      <4>2. t \in Seq(Tokens)
        BY <2>2
      <4>3. /\ x \o t \in Seq(Tokens) /\ Len(x \o t) = Len(x) + Len(t)
            /\ \A i \in 1..(Len(x) + Len(t)) : (x \o t)[i] = IF i <= Len(x) THEN x[i] ELSE t[i - Len(x)]
        BY <4>2, ConcatProperties
      <4> QED
        BY <4>1, <4>3
    <3> QED
      BY <2>2, <3>1
  <2>4. Len(x) + 1 \in 1..(Len(x) + 1) /\ ~ (Len(x) + 1 <= Len(x)) /\ Len(x) + 1 - Len(x) = 1
    BY <2>3
  <2>5. (x \o t)[Len(x \o t)] # "/"
    BY <2>2, <2>3, <2>4
  <2>6. RTrim(x \o t, "/") = x \o t
    BY <2>3, <2>5, NothingTrimmed
  <2>7. RTrim(x \o t, ".git") = x
    BY <1>4, <2>1, OneTrimmed
  <2> QED
    BY <2>6, <2>7
<1> QED
  BY <1>2, <1>3, <1>4

\* The path of a repository.
Singles(r) == [i \in DOMAIN r |-> <<r[i]>>]
RepoFacts(r) ==
  /\ r \in Seq(Tokens) /\ Len(r) \in Nat /\ Len(r) >= 2
  /\ \A i \in 1..Len(r) : r[i] \in Tokens /\ r[i] \notin {"/", ":", "@", ".git", "2222"}
LEMMA ReposAre ==
  ASSUME NEW r \in Repos
  PROVE  /\ RepoFacts(r) /\ RepoFacts(Shouted(r)) /\ Len(Shouted(r)) = Len(r)
         /\ \A i \in 1..Len(r) : Folded(Shouted(r)[i]) = r[i] /\ Folded(r[i]) = r[i]
         /\ Shouted(r)[Len(r)] = r[Len(r)]
<1> DEFINE n == Len(r)
           q == Shouted(r)
<1>1. /\ r \in Seq(Range(r)) /\ n >= 2 /\ r[n] # "acme"
      /\ Range(r) \intersect {"/", ":", "@", ".git", "2222", "Acme"} = {}
  BY GuardAssumption
<1>2. Range(r) \subseteq Tokens /\ n \in Nat /\ DOMAIN r = 1..n /\ \A i \in 1..n : r[i] \in Range(r)
  <2>1. Range(r) \subseteq Tokens
    BY DEF Tokens
  <2> QED
    BY <1>1, <2>1, LenProperties, ElementOfSeq
<1>3. \A i \in 1..n : r[i] \in Tokens /\ r[i] \notin {"/", ":", "@", ".git", "2222", "Acme"}
  BY <1>1, <1>2
<1>4. r \in Seq(Tokens)
  BY <1>1, <1>2, SeqMonotonic
<1>5. q \in Seq(Tokens) /\ Len(q) = n /\ \A i \in 1..n : q[i] = IF r[i] = "acme" THEN "Acme" ELSE r[i]
  <2>1. q = [i \in 1..n |-> IF r[i] = "acme" THEN "Acme" ELSE r[i]]
    BY <1>2 DEF Shouted
  <2>2. "Acme" \in Tokens
    BY DEF Tokens
  <2>3. q \in [1..n -> Tokens]
    BY <1>3, <2>1, <2>2
  <2> QED
    BY <1>2, <2>1, <2>3
<1> HIDE DEF q
<1>6. \A i \in 1..n : q[i] \in Tokens /\ q[i] \notin {"/", ":", "@", ".git", "2222"} /\ Folded(q[i]) = r[i] /\ Folded(r[i]) = r[i]
  <2> TAKE i \in 1..n
  <2>1. q[i] \in Tokens
    BY <1>5, ElementOfSeq
  <2> QED
    BY <1>3, <1>5, <2>1 DEF Folded
<1>7. n \in 1..n
  BY <1>1, <1>2
<1> QED
  BY <1>1, <1>2, <1>3, <1>4, <1>5, <1>6, <1>7 DEF RepoFacts, q

PathFacts(r) ==
  /\ Distinct(Tokens, "/", Singles(r)) /\ Len(Singles(r)) = Len(r) /\ Singles(r) # << >>
  /\ PathOf(r) = Joined(Singles(r), "/")
  /\ PathOf(r) \in Seq(Tokens) /\ PathOf(r) # << >> /\ PathOf(r)[Len(PathOf(r))] \notin {"/", ".git"}
  /\ Markless(PathOf(r), "@") /\ Markless(PathOf(r), ":")
LEMMA PathsAre == ASSUME NEW r, RepoFacts(r) PROVE PathFacts(r)
<1> DEFINE n == Len(r)
           T == Tokens \ {"@", ":"}
           ps == Singles(r)
           z == PathOf(r)
<1>1. n \in Nat /\ n >= 2 /\ r \in Seq(Tokens) /\ DOMAIN r = 1..n
      /\ \A i \in 1..n : r[i] \in T /\ r[i] \notin {"/", ".git"}
  BY LenProperties DEF RepoFacts
<1>2. "/" \in T
  BY DEF Tokens
<1>3. ps \in Seq(Seq(T)) /\ Len(ps) = n /\ \A i \in 1..n : ps[i] = <<r[i]>>
  <2>1. ps = [i \in 1..n |-> <<r[i]>>]
    BY <1>1 DEF Singles
  <2>2. \A i \in 1..n : <<r[i]>> \in Seq(T)
    BY <1>1, OnePiece
  <2>3. ps \in [1..n -> Seq(T)]
    BY <2>1, <2>2
  <2> QED
    BY <1>1, <2>1, <2>3
<1> HIDE DEF ps, T
<1>4. \A i \in 1..n : ps[i] \in Seq(T) /\ ps[i] # << >> /\ Len(ps[i]) = 1 /\ ps[i][1] = r[i] /\ Markless(ps[i], "/")
  <2> TAKE i \in 1..n
  <2>1. ps[i] = <<r[i]>> /\ r[i] # "/" /\ r[i] \in T
    BY <1>1, <1>3
  <2> QED
    BY <2>1, OnePiece DEF Markless
<1>5. Distinct(T, "/", ps) /\ ps # << >>
  BY <1>1, <1>2, <1>3, <1>4 DEF Distinct
<1>6. PICK g : JoinGoes(T, ps, "/", g)
  BY <1>2, <1>3, JoinRuns
<1>7. Lengthens(T, "/", ps, g)
  BY <1>5, <1>6, JoinFacts
<1>8. z = Joined(ps, "/") /\ z = g[n]
  <2>1. z = Joined(ps, "/")
    BY DEF PathOf, ps, Singles
  <2> QED
    BY <1>3, <1>6, <2>1 DEF JoinGoes
<1> HIDE DEF z
<1>9. z \in Seq(T) /\ z # << >>
  <2>1. n \in 0..n /\ n \in 1..n
    BY <1>1
  <2> QED
    BY <1>3, <1>7, <1>8, <2>1 DEF Lengthens
<1>10. z[Len(z)] = r[n]
  <2> DEFINE v == g[n - 1] \o <<"/">>
             b == ps[n]
  <2>1. n \in 1..n /\ n > 1 /\ n - 1 \in 0..n
    BY <1>1
  <2>2. z = v \o b
    BY <1>3, <1>7, <1>8, <2>1 DEF Lengthens
  <2>3. v \in Seq(T) /\ b \in Seq(T) /\ Len(b) = 1 /\ b[1] = r[n]
    <3>1. g[n - 1] \in Seq(T) /\ <<"/">> \in Seq(T)
      BY <1>2, <1>3, <1>7, <2>1, OnePiece DEF Lengthens
    <3> QED
      BY <1>4, <2>1, <3>1, ConcatProperties
  <2> HIDE DEF v, b
  <2>4. Len(v \o b) = Len(v) + 1 /\ Len(v) \in Nat
        /\ \A i \in 1..(Len(v) + 1) : (v \o b)[i] = IF i <= Len(v) THEN v[i] ELSE b[i - Len(v)]
    BY <2>3, ConcatProperties, LenProperties, SMTT(30)
  <2>5. Len(v) + 1 \in 1..(Len(v) + 1) /\ ~ (Len(v) + 1 <= Len(v)) /\ Len(v) + 1 - Len(v) = 1
    BY <2>4
  <2> QED
    BY <2>2, <2>3, <2>4, <2>5
<1>11. Markless(z, "@") /\ Markless(z, ":")
  <2>1. \A i \in 1..Len(z) : z[i] \in T
    BY <1>9, ElementOfSeq
  <2> QED
    BY <2>1 DEF Markless, T
<1>12. z \in Seq(Tokens) /\ Distinct(Tokens, "/", ps)
  <2>1. T \subseteq Tokens
    BY DEF T
  <2>2. Seq(T) \subseteq Seq(Tokens)
    BY <2>1, SeqMonotonic
  <2>3. Seq(Seq(T)) \subseteq Seq(Seq(Tokens))
    BY <2>2, SeqMonotonic
  <2> QED
    BY <1>5, <1>9, <2>1, <2>2, <2>3 DEF Distinct
<1>13. r[n] \notin {"/", ".git"}
  <2>1. n \in 1..n
    BY <1>1
  <2> QED
    BY <1>1, <2>1
<1> QED
  BY <1>3, <1>5, <1>8, <1>9, <1>10, <1>11, <1>12, <1>13 DEF PathFacts, z, ps

\* A host, its port behind a colon or a slash.
Hosts == {<<"host">>, <<"host", ":", "2222">>, <<"host", "/", "2222">>}
HostParts(h) == IF h = <<"host", "/", "2222">> THEN << <<"host">>, <<"2222">> >> ELSE <<h>>
LEMMA HostsAre ==
  ASSUME NEW h \in Hosts
  PROVE  /\ h \in Seq(Tokens) /\ Markless(h, "@") /\ Len(h) >= 1 /\ h[1] = "host"
         /\ HostParts(h) \in Seq(Seq(Tokens)) /\ SplitAt(h, "/") = HostParts(h)
<1> DEFINE a == <<"host">>
           b == <<"host", ":", "2222">>
           c == <<"host", "/", "2222">>
           d == <<"2222">>
<1>1. a \in Seq(Tokens) /\ b \in Seq(Tokens) /\ c \in Seq(Tokens) /\ d \in Seq(Tokens) /\ "/" \in Tokens
  BY DEF Tokens
<1>2. Markless(a, "/") /\ Markless(a, "@") /\ Len(a) = 1 /\ a[1] = "host"
  <2>1. Len(a) = 1 /\ a[1] = "host" /\ \A i \in 1..1 : i = 1
    OBVIOUS
  <2> HIDE DEF a
  <2> QED
    BY <2>1 DEF Markless
<1>3. Markless(b, "/") /\ Markless(b, "@") /\ Len(b) = 3 /\ b[1] = "host"
  <2>1. Len(b) = 3 /\ b[1] = "host" /\ b[2] = ":" /\ b[3] = "2222" /\ \A i \in 1..3 : i = 1 \/ i = 2 \/ i = 3
    OBVIOUS
  <2> HIDE DEF b
  <2> QED
    BY <2>1 DEF Markless
<1>4. Markless(c, "@") /\ Len(c) = 3 /\ c[1] = "host"
  <2>1. Len(c) = 3 /\ c[1] = "host" /\ c[2] = "/" /\ c[3] = "2222" /\ \A i \in 1..3 : i = 1 \/ i = 2 \/ i = 3
    OBVIOUS
  <2> HIDE DEF c
  <2> QED
    BY <2>1 DEF Markless
<1>5. Markless(d, "/")
  <2>1. Len(d) = 1 /\ d[1] = "2222" /\ \A i \in 1..1 : i = 1
    OBVIOUS
  <2> HIDE DEF d
  <2> QED
    BY <2>1 DEF Markless
<1>6. a # c /\ b # c /\ c = (a \o <<"/">>) \o d
  <2>1. a # c /\ b[2] # c[2]
    BY <1>2, <1>4
  <2>2. c = (a \o <<"/">>) \o d
    OBVIOUS
  <2> QED
    BY <2>1, <2>2
<1>7. HostParts(a) = <<a>> /\ HostParts(b) = <<b>> /\ HostParts(c) = <<a, d>>
  BY <1>6 DEF HostParts
<1> HIDE DEF a, b, c, d
<1>8. SplitAt(a, "/") = <<a>> /\ SplitAt(b, "/") = <<b>>
  BY <1>1, <1>2, <1>3, SplitAlone
<1>9. SplitAt(c, "/") = <<a, d>>
  <2>1. SplitAt(c, "/") = Append(<<a>>, d)
    BY <1>1, <1>5, <1>6, <1>8, SplitNext
  <2>2. Append(<<a>>, d) = <<a, d>>
    <3> DEFINE u == <<a>>
               v == <<a, d>>
    <3>1. u \in Seq(Seq(Tokens)) /\ Len(u) = 1 /\ u[1] = a /\ v \in Seq(Seq(Tokens)) /\ Len(v) = 2 /\ v[1] = a /\ v[2] = d
      BY <1>1
    <3> HIDE DEF u, v
    <3>2. /\ Append(u, d) \in Seq(Seq(Tokens)) /\ Len(Append(u, d)) = 2
          /\ Append(u, d)[1] = a /\ Append(u, d)[2] = d
      <4>1. /\ Append(u, d) \in Seq(Seq(Tokens)) /\ Len(Append(u, d)) = Len(u) + 1
            /\ (\A i \in 1..Len(u) : Append(u, d)[i] = u[i]) /\ Append(u, d)[Len(u) + 1] = d
        <5>1. u \in Seq(Seq(Tokens)) /\ d \in Seq(Tokens)
          BY <1>1, <3>1
        <5> QED
          BY ONLY <5>1, AppendProperties
      <4>2. 1 \in 1..Len(u) /\ Len(u) + 1 = 2
        BY <3>1
      <4> QED
        BY <3>1, <4>1, <4>2
    <3>3. \A i \in 1..2 : i = 1 \/ i = 2
      OBVIOUS
    <3>4. Append(u, d) = v
      BY <3>1, <3>2, <3>3, SeqEqual
    <3> QED
      BY <3>4 DEF u, v
  <2> QED
    BY <2>1, <2>2
<1>10. <<a>> \in Seq(Seq(Tokens)) /\ <<b>> \in Seq(Seq(Tokens)) /\ <<a, d>> \in Seq(Seq(Tokens))
  BY <1>1
<1>11. h = a \/ h = b \/ h = c
  BY DEF Hosts, a, b, c
<1>12. \A y \in {a, b, c} : y \in Seq(Tokens) /\ Markless(y, "@") /\ Len(y) >= 1 /\ y[1] = "host"
  <2>1. Len(a) >= 1 /\ Len(b) >= 1 /\ Len(c) >= 1
    BY <1>2, <1>3, <1>4
  <2> QED
    BY <1>1, <1>2, <1>3, <1>4, <2>1
<1>13. \A y \in {a, b, c} : HostParts(y) \in Seq(Seq(Tokens)) /\ SplitAt(y, "/") = HostParts(y)
  BY <1>7, <1>8, <1>9, <1>10
<1> QED
  BY <1>11, <1>12, <1>13

\* The segments of a remote are those of its host and the names of its path.
LEMMA SegmentsAre ==
  ASSUME NEW r, RepoFacts(r), NEW h \in Hosts
  PROVE  Segments((h \o <<"/">>) \o PathOf(r)) = HostParts(h) \o Singles(r)
<1> DEFINE ps == Singles(r)
           bs == HostParts(h)
           all == bs \o ps
<1>1. Distinct(Tokens, "/", ps) /\ ps # << >> /\ PathOf(r) = Joined(ps, "/")
  BY PathsAre DEF PathFacts
<1>2. h \in Seq(Tokens) /\ bs \in Seq(Seq(Tokens)) /\ SplitAt(h, "/") = bs
  BY HostsAre
<1> HIDE DEF ps, bs
<1>3. SplitAt((h \o <<"/">>) \o PathOf(r), "/") = all
  <2>1. ComeApart(Tokens, "/", ps)
    BY <1>1, JoinedSplits
  <2> QED
    BY <1>1, <1>2, <2>1 DEF ComeApart
<1>4. ps \in Seq(Seq(Tokens)) /\ Len(ps) \in Nat /\ \A i \in 1..Len(ps) : ps[i] # << >>
  BY <1>1 DEF Distinct
<1>5. Len(bs) \in Nat /\ \A i \in 1..Len(bs) : bs[i] # << >>
  <2>1. CASE h = <<"host", "/", "2222">>
    <3>1. bs = << <<"host">>, <<"2222">> >>
      BY <2>1 DEF bs, HostParts
    <3>2. Len(bs) = 2 /\ bs[1] = <<"host">> /\ bs[2] = <<"2222">> /\ \A i \in 1..2 : i = 1 \/ i = 2
      BY <3>1
    <3> QED
      BY <3>2
  <2>2. CASE h # <<"host", "/", "2222">>
    <3>1. bs = <<h>>
      BY <2>2 DEF bs, HostParts
    <3>2. Len(bs) = 1 /\ bs[1] = h /\ \A i \in 1..1 : i = 1
      BY <3>1
    <3>3. h # << >>
      BY HostsAre
    <3> QED
      BY <3>2, <3>3
  <2> QED
    BY <2>1, <2>2
<1>6. all \in Seq(Seq(Tokens)) /\ \A i \in 1..Len(all) : all[i] # << >>
  <2>1. /\ all \in Seq(Seq(Tokens)) /\ Len(all) = Len(bs) + Len(ps)
        /\ \A i \in 1..(Len(bs) + Len(ps)) : all[i] = IF i <= Len(bs) THEN bs[i] ELSE ps[i - Len(bs)]
    BY <1>2, <1>4, ConcatProperties
  <2> HIDE DEF all
  <2>2. ASSUME NEW i \in 1..(Len(bs) + Len(ps)) PROVE all[i] # << >>
    <3>1. CASE i <= Len(bs)
      <4>1. i \in 1..Len(bs)
        BY <1>4, <1>5, <3>1
      <4>2. all[i] = bs[i]
        BY <2>1, <3>1
      <4> QED
        BY <1>5, <4>1, <4>2
    <3>2. CASE ~ (i <= Len(bs))
      <4>1. i - Len(bs) \in 1..Len(ps)
        BY <1>4, <1>5, <3>2
      <4> QED
        BY <1>4, <2>1, <3>2, <4>1
    <3> QED
      BY <3>1, <3>2
  <2> QED
    BY <2>1, <2>2
<1> HIDE DEF all
<1>7. NoEmpty(all) = all
  BY <1>6, AllKept
<1> QED
  BY <1>3, <1>7 DEF Segments, all, ps, bs

LEMMA PortGone ==
  ASSUME NEW r, RepoFacts(r), NEW h \in Hosts
  PROVE  /\ NoPort(HostParts(h) \o Singles(r)) = << <<"host">> >> \o Singles(r)
         /\ HostParts(h) \o Singles(r) \in Seq(Seq(Tokens)) /\ Len(HostParts(h) \o Singles(r)) >= 3
<1> DEFINE ps == Singles(r)
           n == Len(r)
           a == <<"host">>
           g == <<a>>
<1>1. /\ ps \in Seq(Seq(Tokens)) /\ Len(ps) = n /\ n \in Nat /\ n >= 2
      /\ ps[1] = <<r[1]>> /\ r[1] # "2222"
  <2>1. n \in Nat /\ n >= 2 /\ 1 \in 1..n /\ r \in Seq(Tokens) /\ r[1] # "2222"
    BY DEF RepoFacts
  <2>2. DOMAIN r = 1..n
    BY <2>1, LenProperties
  <2>3. ps[1] = <<r[1]>>
    BY <2>1, <2>2 DEF Singles
  <2>4. Distinct(Tokens, "/", ps) /\ Len(ps) = n
    BY PathsAre DEF PathFacts
  <2> HIDE DEF ps, n
  <2> QED
    BY <2>1, <2>3, <2>4 DEF Distinct
<1> HIDE DEF ps, n
<1>2. a \in Seq(Tokens) /\ g \in Seq(Seq(Tokens)) /\ Len(g) = 1 /\ g[1] = a /\ Len(a) = 1
  BY DEF Tokens
<1>3. ASSUME NEW u \in Seq(Tokens)
      PROVE  LET x == <<u>> \o ps
             IN  /\ x \in Seq(Seq(Tokens)) /\ Len(x) = 1 + n /\ x[1] = u /\ x[2] = ps[1]
                 /\ \A i \in 1..(1 + n) : i > 1 => x[i] = ps[i - 1]
  <2> DEFINE f == <<u>>
             x == f \o ps
  <2>1. f \in Seq(Seq(Tokens)) /\ Len(f) = 1 /\ f[1] = u
    BY OnePiece
  <2> HIDE DEF f
  <2>2. x \in Seq(Seq(Tokens)) /\ Len(x) = Len(f) + Len(ps) /\ \A i \in 1..(Len(f) + Len(ps)) : x[i] = IF i <= Len(f) THEN f[i] ELSE ps[i - Len(f)]
    BY <1>1, <2>1, ConcatProperties
  <2>3. x \in Seq(Seq(Tokens)) /\ Len(x) = 1 + n /\ \A i \in 1..(1 + n) : x[i] = IF i <= 1 THEN f[i] ELSE ps[i - 1]
    BY <1>1, <2>1, <2>2
  <2> HIDE DEF x
  <2>4. x[1] = f[1]
    <3>1. 1 \in 1..(1 + n) /\ 1 <= 1
      BY <1>1
    <3> QED
      BY <2>3, <3>1
  <2>5. x[2] = ps[1]
    <3>1. 2 \in 1..(1 + n) /\ ~ (2 <= 1) /\ 2 - 1 = 1
      BY <1>1
    <3> QED
      BY <2>3, <3>1
  <2>6. \A i \in 1..(1 + n) : i > 1 => x[i] = ps[i - 1]
    BY <2>3
  <2> QED
    BY <2>1, <2>3, <2>4, <2>5, <2>6 DEF x, f
<1>4. h = a \/ h = <<"host", ":", "2222">> \/ h = <<"host", "/", "2222">>
  BY DEF Hosts
<1>5. CASE h = a
  <2> DEFINE x == <<a>> \o ps
  <2>1. HostParts(h) = <<a>>
    BY <1>5 DEF HostParts
  <2>2. x \in Seq(Seq(Tokens)) /\ Len(x) = 1 + n /\ x[1] = a /\ x[2] = ps[1]
    BY <1>2, <1>3
  <2>3. Len(x[1]) # 3 /\ ~ Digits(x[2])
    BY <1>1, <1>2, <2>2 DEF Digits
  <2> HIDE DEF x
  <2>4. NoPort(x) = x
    BY <2>3 DEF NoPort
  <2>5. Len(x) >= 3
    BY <1>1, <2>2
  <2> QED
    BY <2>1, <2>2, <2>4, <2>5 DEF x, ps
<1>6. CASE h = <<"host", ":", "2222">>
  <2> DEFINE x == <<h>> \o ps
             y == g \o ps
  <2>1. HostParts(h) = <<h>>
    BY <1>6 DEF HostParts
  <2>2. h \in Seq(Tokens) /\ Len(h) = 3 /\ h[2] = ":" /\ h[3] = "2222" /\ h[1] = "host"
    BY <1>6, HostsAre
  <2>3. x \in Seq(Seq(Tokens)) /\ Len(x) = 1 + n /\ x[1] = h /\ \A i \in 1..(1 + n) : i > 1 => x[i] = ps[i - 1]
    BY <1>3, <2>2
  <2>4. y \in Seq(Seq(Tokens)) /\ Len(y) = 1 + n /\ y[1] = a /\ \A i \in 1..(1 + n) : i > 1 => y[i] = ps[i - 1]
    BY <1>2, <1>3
  <2>5. NoPort(x) = [x EXCEPT ![1] = <<x[1][1]>>]
    BY <2>2, <2>3 DEF NoPort, Digits
  <2> HIDE DEF x, y, a, ps
  <2>6. [x EXCEPT ![1] = <<x[1][1]>>] = y
    <3> DEFINE w == [x EXCEPT ![1] = <<x[1][1]>>]
    <3>1. <<x[1][1]>> = a
      BY <2>2, <2>3 DEF a
    <3>2. w \in Seq(Seq(Tokens)) /\ Len(w) = 1 + n /\ \A i \in 1..(1 + n) : w[i] = IF i = 1 THEN a ELSE x[i]
      <4>1. DOMAIN x = 1..(1 + n) /\ x \in [1..(1 + n) -> Seq(Tokens)] /\ 1 + n \in Nat
        BY <1>1, <2>3, LenProperties
      <4>2. w \in [1..(1 + n) -> Seq(Tokens)] /\ \A i \in 1..(1 + n) : w[i] = IF i = 1 THEN a ELSE x[i]
        BY <1>2, <3>1, <4>1
      <4> HIDE DEF w
      <4> QED
        BY <4>1, <4>2
    <3> HIDE DEF w
    <3>3. \A i \in 1..(1 + n) : w[i] = y[i]
      <4> TAKE i \in 1..(1 + n)
      <4>1. CASE i = 1
        BY <2>4, <3>2, <4>1
      <4>2. CASE i > 1
        BY <2>3, <2>4, <3>2, <4>2
      <4> QED
        BY <4>1, <4>2
    <3>4. w = y
      BY <2>4, <3>2, <3>3, SeqEqual
    <3> QED
      BY <3>4 DEF w
  <2>7. Len(x) >= 3
    BY <1>1, <2>3
  <2> QED
    BY <2>1, <2>3, <2>5, <2>6, <2>7 DEF x, y, ps, a
<1>7. CASE h = <<"host", "/", "2222">>
  <2> DEFINE d == <<"2222">>
             b == <<a, d>>
             x == b \o ps
  <2>1. HostParts(h) = b
    BY <1>7 DEF HostParts
  <2>2. d \in Seq(Tokens) /\ b \in Seq(Seq(Tokens)) /\ Len(b) = 2 /\ b[1] = a /\ b[2] = d
    BY DEF Tokens
  <2> HIDE DEF b, a, d
  <2>3. x \in Seq(Seq(Tokens)) /\ x[1] = b[1] /\ Drop(x, Len(b)) = ps /\ Len(x) = Len(b) + n
    <3>1. Len(b) >= 1 /\ b \in Seq(Seq(Tokens)) /\ ps \in Seq(Seq(Tokens))
      BY <1>1, <2>2
    <3>2. x \in Seq(Seq(Tokens)) /\ x[1] = b[1] /\ Drop(x, Len(b)) = ps /\ Len(x) = Len(b) + Len(ps)
      BY ONLY <3>1, Followed
    <3> QED
      BY ONLY <1>1, <3>2
  <2>4. x[2] = d
    <3>1. \A i \in 1..(Len(b) + Len(ps)) : x[i] = IF i <= Len(b) THEN b[i] ELSE ps[i - Len(b)]
      BY <1>1, <2>2, ConcatProperties
    <3>2. 2 \in 1..(Len(b) + Len(ps)) /\ 2 <= Len(b)
      BY <1>1, <2>2
    <3>3. x[2] = b[2]
      BY <3>1, <3>2
    <3> QED
      BY <2>2, <3>3
  <2> HIDE DEF x
  <2>5. Drop(x, 2) = ps /\ x[1] = a /\ Len(x) = 2 + n /\ Digits(x[2]) /\ Len(x[1]) = 1
    BY <1>2, <2>2, <2>3, <2>4 DEF Digits, d
  <2>6. NoPort(x) = <<a>> \o ps
    <3>1. Len(x) >= 4 /\ Len(x[1]) # 3
      BY <1>1, <2>5
    <3> QED
      BY <2>5, <3>1 DEF NoPort
  <2>7. Len(x) >= 3
    BY <1>1, <2>5
  <2> QED
    BY <2>1, <2>3, <2>6, <2>7 DEF x, ps, a
<1> QED
  BY <1>4, <1>5, <1>6, <1>7

\* What is left of a remote names its repository.
LeftOver(h, r, t) == ((h \o <<"/">>) \o PathOf(r)) \o t
LEMMA RemoteIs ==
  ASSUME NEW r \in Repos, NEW q \in {r, Shouted(r)}, NEW h \in Hosts, NEW t \in {<< >>, <<".git">>, <<"/">>},
         NEW raw, NoUser(Scp(NoScheme(raw))) = LeftOver(h, q, t)
  PROVE  NormalizeRemote(raw) = <<"host">> \o r
<1> DEFINE x == (h \o <<"/">>) \o PathOf(q)
           parts == HostParts(h) \o Singles(q)
           ps == << <<"host">> >> \o Singles(q)
           n == Len(r)
           out == [i \in DOMAIN ps |-> IF i < Len(ps) THEN Folded(ps[i][1]) ELSE ps[i][1]]
           k == <<"host">> \o r
<1>1. /\ RepoFacts(q) /\ RepoFacts(r) /\ Len(q) = n /\ n \in Nat /\ n >= 2 /\ q[n] = r[n]
      /\ \A i \in 1..n : Folded(q[i]) = r[i]
  BY ReposAre DEF RepoFacts
<1>2. Segments(RTrim(RTrim(NoUser(Scp(NoScheme(raw))), "/"), ".git")) = parts
  <2>1. PathFacts(q) /\ h \in Seq(Tokens) /\ <<"/">> \in Seq(Tokens)
    <3>1. "/" \in Tokens
      BY DEF Tokens
    <3> QED
      BY <1>1, <3>1, HostsAre, PathsAre, OnePiece
  <2>2. x \in Seq(Tokens) /\ x # << >> /\ x[Len(x)] \notin {"/", ".git"}
    <3> DEFINE v == h \o <<"/">>
               z == PathOf(q)
    <3>1. v \in Seq(Tokens) /\ z \in Seq(Tokens) /\ z # << >> /\ z[Len(z)] \notin {"/", ".git"}
      BY <2>1, ConcatProperties DEF PathFacts
    <3> HIDE DEF v, z
    <3>2. /\ v \o z \in Seq(Tokens) /\ Len(v \o z) = Len(v) + Len(z)
          /\ \A i \in 1..(Len(v) + Len(z)) : (v \o z)[i] = IF i <= Len(v) THEN v[i] ELSE z[i - Len(v)]
      BY <3>1, ConcatProperties
    <3>3. Len(v) \in Nat /\ Len(z) \in Nat /\ Len(z) >= 1
      BY <3>1, LenProperties, EmptySeq
    <3>4. Len(v) + Len(z) \in 1..(Len(v) + Len(z)) /\ ~ (Len(v) + Len(z) <= Len(v)) /\ Len(v) + Len(z) - Len(v) = Len(z)
      BY <3>3
    <3>5. (v \o z)[Len(v \o z)] = z[Len(z)]
      BY <3>2, <3>4
    <3>6. v \o z # << >>
      <4>1. Len(v \o z) # 0
        BY <3>2, <3>3
      <4> QED
        BY <3>2, <4>1, EmptySeq
    <3> QED
      BY <3>1, <3>2, <3>5, <3>6 DEF v, z
  <2>3. RTrim(RTrim(x \o t, "/"), ".git") = x
    BY <2>2, TailTrimmed
  <2>4. Segments(x) = parts
    BY <1>1, SegmentsAre
  <2>5. NoUser(Scp(NoScheme(raw))) = x \o t
    BY DEF LeftOver
  <2> HIDE DEF x, parts
  <2> QED
    BY <2>3, <2>4, <2>5
<1>3. NoPort(parts) = ps /\ Len(parts) >= 3
  BY <1>1, PortGone
<1>4. /\ Len(ps) = 1 + n /\ DOMAIN ps = 1..(1 + n) /\ Len(ps[1]) = 1 /\ ps[1][1] = "host"
      /\ \A i \in 1..(1 + n) : i > 1 => ps[i][1] = q[i - 1]
  <2> DEFINE g == << <<"host">> >>
             qs == Singles(q)
  <2>1. g \in Seq(Seq(Tokens)) /\ Len(g) = 1 /\ Len(g[1]) = 1 /\ g[1][1] = "host"
    BY DEF Tokens
  <2>2. Distinct(Tokens, "/", qs) /\ Len(qs) = n
    BY <1>1, PathsAre DEF PathFacts
  <2>3. \A i \in 1..n : qs[i][1] = q[i]
    <3>1. DOMAIN q = 1..n
      BY <1>1, LenProperties DEF RepoFacts
    <3> QED
      BY <3>1 DEF Singles
  <2> HIDE DEF g, qs, n
  <2>4. qs \in Seq(Seq(Tokens))
    BY <2>2 DEF Distinct
  <2>5. /\ g \o qs \in Seq(Seq(Tokens)) /\ Len(g \o qs) = Len(g) + Len(qs)
        /\ \A i \in 1..(Len(g) + Len(qs)) : (g \o qs)[i] = IF i <= Len(g) THEN g[i] ELSE qs[i - Len(g)]
    BY <2>1, <2>4, ConcatProperties
  <2>6. DOMAIN (g \o qs) = 1..Len(g \o qs)
    BY <2>5, LenProperties
  <2>7. Len(g \o qs) = 1 + n /\ \A i \in 1..(1 + n) : (g \o qs)[i] = IF i <= 1 THEN g[i] ELSE qs[i - 1]
    BY <2>1, <2>2, <2>5
  <2>8. \A i \in 1..(1 + n) : i > 1 => (g \o qs)[i][1] = q[i - 1]
    <3> TAKE i \in 1..(1 + n)
    <3> HAVE i > 1
    <3>1. (g \o qs)[i] = qs[i - 1] /\ i - 1 \in 1..n
      BY <1>1, <2>7
    <3> QED
      BY <2>3, <3>1
  <2>9. (g \o qs)[1] = g[1]
    <3>1. 1 \in 1..(1 + n) /\ 1 <= 1
      BY <1>1
    <3> QED
      BY <2>7, <3>1
  <2> QED
    BY <2>1, <2>6, <2>7, <2>8, <2>9 DEF g, qs
<1> HIDE DEF ps, parts, n
<1>5. NormalizeRemote(raw) = out
  <2>1. ~ (Len(parts) < 3 \/ Len(NoPort(parts)) < 3 \/ Len(NoPort(parts)[1]) # 1)
    BY <1>1, <1>3, <1>4, PortGone DEF n
  <2> QED
    BY <1>2, <1>3, <2>1 DEF NormalizeRemote
<1>6. k \in Seq(Tokens) /\ Len(k) = 1 + n /\ k[1] = "host" /\ \A i \in 1..(1 + n) : i > 1 => k[i] = r[i - 1]
  <2> DEFINE g == <<"host">>
  <2>1. g \in Seq(Tokens) /\ Len(g) = 1 /\ g[1] = "host" /\ r \in Seq(Tokens)
    BY <1>1 DEF Tokens, RepoFacts
  <2> HIDE DEF g
  <2>2. /\ g \o r \in Seq(Tokens) /\ Len(g \o r) = Len(g) + Len(r)
        /\ \A i \in 1..(Len(g) + Len(r)) : (g \o r)[i] = IF i <= Len(g) THEN g[i] ELSE r[i - Len(g)]
    BY <2>1, ConcatProperties
  <2>3. Len(g \o r) = 1 + n /\ \A i \in 1..(1 + n) : (g \o r)[i] = IF i <= 1 THEN g[i] ELSE r[i - 1]
    BY <2>1, <2>2 DEF n
  <2>4. 1 \in 1..(1 + n) /\ 1 <= 1
    BY <1>1
  <2> QED
    BY <2>1, <2>2, <2>3, <2>4 DEF g
<1> HIDE DEF k
<1>7. \A i \in 1..(1 + n) : out[i] = k[i] /\ out[i] \in Tokens
  <2> TAKE i \in 1..(1 + n)
  <2>1. out[i] = k[i]
    <3>1. CASE i = 1
      BY <1>1, <1>4, <1>6, <3>1 DEF Folded
    <3>2. CASE i > 1 /\ i < 1 + n
      <4>1. i - 1 \in 1..n
        BY <1>1, <3>2
      <4> QED
        BY <1>1, <1>4, <1>6, <3>2, <4>1
    <3>3. CASE i = 1 + n
      <4>1. i - 1 = n /\ i > 1 /\ ~ (i < 1 + n)
        BY <1>1, <3>3
      <4> QED
        BY <1>1, <1>4, <1>6, <3>3, <4>1
    <3> QED
      BY <1>1, <3>1, <3>2, <3>3
  <2>2. k[i] \in Tokens
    BY <1>6, ElementOfSeq
  <2> QED
    BY <2>1, <2>2
<1>8. out = k
  <2>1. out \in [1..(1 + n) -> Tokens]
    <3>1. out = [i \in 1..(1 + n) |-> out[i]]
      BY <1>4
    <3> HIDE DEF out
    <3> QED
      BY <1>7, <3>1
  <2> HIDE DEF out
  <2>2. out \in Seq(Tokens) /\ Len(out) = 1 + n
    BY <1>1, <2>1
  <2> QED
    BY <1>6, <1>7, <2>2, SeqEqual
<1> QED
  BY <1>5, <1>8 DEF k

\* Putting together, by another name: the provers regroup it as an opaque operator.
Cat(a, b) == a \o b
LEMMA CatTogether ==
  ASSUME NEW T
  PROVE  \A a, b, c \in Seq(T) : Cat(a, b) \in Seq(T) /\ Cat(Cat(a, b), c) = Cat(a, Cat(b, c))
<1>1. \A a, b \in Seq(T) : Cat(a, b) \in Seq(T)
  BY ConcatProperties DEF Cat
<1>2. ASSUME NEW a \in Seq(T), NEW b \in Seq(T), NEW c \in Seq(T) PROVE Cat(Cat(a, b), c) = Cat(a, Cat(b, c))
  BY ConcatAssociative DEF Cat
<1> QED
  BY <1>1, <1>2

LEMMA Regroup ==
  ASSUME NEW T
  PROVE  \A a, b, c, d \in Seq(T) : Cat(Cat(Cat(a, b), c), d) = Cat(a, Cat(Cat(b, c), d))
  BY CatTogether

LEMMA PlainIs ==
  ASSUME NEW q, RepoFacts(q), NEW h \in Hosts, NEW t \in {<< >>, <<".git">>, <<"/">>}
  PROVE  /\ PathOf(q) \in Seq(Tokens) /\ t \in Seq(Tokens) /\ h \in Seq(Tokens) /\ h \o <<"/">> \in Seq(Tokens)
         /\ LeftOver(h, q, t) \in Seq(Tokens) /\ Markless(LeftOver(h, q, t), "@") /\ NoScheme(LeftOver(h, q, t)) = LeftOver(h, q, t)
         /\ Scp(LeftOver(h, q, t)) = LeftOver(h, q, t)
         /\ h = <<"host">> => Markless(LeftOver(h, q, t), ":")
<1> DEFINE m == <<"/">>
           z == PathOf(q)
           a == h \o m
           b == a \o z
           c == z \o t
           d == m \o c
<1>1. z \in Seq(Tokens) /\ Markless(z, "@") /\ Markless(z, ":")
  BY PathsAre DEF PathFacts
<1>2. m \in Seq(Tokens) /\ t \in Seq(Tokens)
  <2>1. "/" \in Tokens /\ ".git" \in Tokens
    BY DEF Tokens
  <2>2. m \in Seq(Tokens) /\ <<".git">> \in Seq(Tokens) /\ << >> \in Seq(Tokens)
    BY <2>1, OnePiece, EmptySeq
  <2> QED
    BY <2>2
<1>3. \A x \in {":", "@"} : Markless(m, x) /\ Markless(t, x)
  <2>1. Len(m) = 1 /\ m[1] = "/" /\ \A i \in 1..1 : i = 1
    OBVIOUS
  <2>2. t = << >> \/ (Len(t) = 1 /\ t[1] \in {".git", "/"})
    OBVIOUS
  <2>3. \A x \in {":", "@"} : Markless(m, x)
    <3> HIDE DEF m
    <3> QED
      BY <2>1 DEF Markless
  <2>4. CASE t = << >>
    <3>1. Len(t) = 0 /\ 1..0 = {}
      BY <2>4
    <3>2. \A x \in {":", "@"} : Markless(t, x)
      BY <3>1 DEF Markless
    <3> QED
      BY <2>3, <3>2
  <2>5. CASE Len(t) = 1 /\ t[1] \in {".git", "/"}
    <3>1. \A x \in {":", "@"} : Markless(t, x)
      BY <2>1, <2>5 DEF Markless
    <3> QED
      BY <2>3, <3>1
  <2> QED
    BY <2>2, <2>4, <2>5
<1>4. h \in Seq(Tokens) /\ Markless(h, "@") /\ Len(h) >= 1 /\ h[1] = "host"
  BY HostsAre
<1> HIDE DEF m, z
<1>5. a \in Seq(Tokens) /\ b \in Seq(Tokens) /\ b \o t \in Seq(Tokens) /\ c \in Seq(Tokens) /\ d \in Seq(Tokens)
  <2>1. a \in Seq(Tokens) /\ c \in Seq(Tokens)
    BY <1>1, <1>2, <1>4, ConcatProperties
  <2> HIDE DEF a, c
  <2>2. b \in Seq(Tokens) /\ d \in Seq(Tokens)
    BY <1>1, <1>2, <2>1, ConcatProperties
  <2> HIDE DEF b, d
  <2> QED
    BY <1>2, <2>1, <2>2, ConcatProperties
<1>6. \A x \in {":", "@"} : Markless(h, x) => Markless(b \o t, x)
  <2> TAKE x \in {":", "@"}
  <2> HAVE Markless(h, x)
  <2>1. Markless(m, x) /\ Markless(z, x) /\ Markless(t, x)
    BY <1>1, <1>3
  <2>2. Markless(a, x)
    BY <1>2, <1>4, <2>1, MarklessBoth
  <2> HIDE DEF a
  <2>3. Markless(b, x)
    BY <1>1, <1>5, <2>1, <2>2, MarklessBoth
  <2> HIDE DEF b
  <2> QED
    BY <1>2, <1>5, <2>1, <2>3, MarklessBoth
<1>7. b \o t = h \o d
  <2>1. b \o t = h \o ((m \o z) \o t)
    <3>1. Cat(Cat(Cat(h, m), z), t) = Cat(h, Cat(Cat(m, z), t))
      BY <1>1, <1>2, <1>4, Regroup
    <3> QED
      BY <3>1, Zenon DEF Cat
  <2>2. (m \o z) \o t = d
    <3>1. Cat(Cat(m, z), t) = Cat(m, Cat(z, t))
      BY <1>1, <1>2, CatTogether
    <3> QED
      BY <3>1, Zenon DEF Cat
  <2> QED
    BY <2>1, <2>2
<1>8. NoScheme(h \o d) = h \o d /\ Scp(h \o d) = h \o d
  <2>1. h[1] \notin Schemes /\ h[1] # "git"
    BY <1>4 DEF Schemes
  <2> HIDE DEF d
  <2> QED
    BY <1>4, <1>5, <2>1, NoSchemeThere, ScpOther
<1>9. h = <<"host">> => Markless(h, ":")
  <2> SUFFICES ASSUME h = <<"host">> PROVE Markless(h, ":")
    OBVIOUS
  <2>1. Len(h) = 1 /\ h[1] = "host" /\ \A i \in 1..1 : i = 1
    OBVIOUS
  <2> QED
    BY <2>1 DEF Markless
<1>10. LeftOver(h, q, t) = b \o t
  BY DEF LeftOver, z, m
<1> DEFINE y == b \o t
<1>11. NoScheme(y) = y /\ Scp(y) = y
  BY <1>7, <1>8
<1>12. y \in Seq(Tokens) /\ Markless(y, "@") /\ (h = <<"host">> => Markless(y, ":")) /\ LeftOver(h, q, t) = y
  BY <1>4, <1>5, <1>6, <1>9, <1>10
<1>13. h \o <<"/">> \in Seq(Tokens) /\ PathOf(q) \in Seq(Tokens)
  BY <1>1, <1>5 DEF m, z
<1> HIDE DEF y
<1> QED
  BY <1>2, <1>4, <1>11, <1>12, <1>13

\* However git spells a remote, what is left of it names the host and the repository.
Leaves(raw, r) ==
  \E q \in {r, Shouted(r)}, h \in Hosts, t \in {<< >>, <<".git">>, <<"/">>} : NoUser(Scp(NoScheme(raw))) = LeftOver(h, q, t)

LEMMA PlainSpelling ==
  ASSUME NEW r \in Repos, NEW t \in {<< >>, <<".git">>, <<"/">>},
         NEW s \in {<< >>, <<"https://">>, <<"https://", "user", "@">>, <<"ssh://", "git", "@">>, <<"ssh://">>}
  PROVE  Leaves(s \o <<"host", "/">> \o PathOf(r) \o t, r)
<1> DEFINE g == <<"host">>
           k == <<"host", "/">>
           z == PathOf(r)
           w == LeftOver(g, r, t)
           raw == s \o w
<1>1. g \in Hosts /\ RepoFacts(r)
  BY ReposAre DEF Hosts
<1>2. /\ w \in Seq(Tokens) /\ Markless(w, "@") /\ NoScheme(w) = w /\ Scp(w) = w /\ Markless(w, ":")
      /\ z \in Seq(Tokens) /\ t \in Seq(Tokens)
  BY <1>1, PlainIs
<1>3. k \in Seq(Tokens) /\ s \in Seq(Tokens) /\ k = g \o <<"/">>
  <2>1. k \in Seq(Tokens) /\ k = g \o <<"/">>
    BY DEF Tokens
  <2>2. << >> \in Seq(Tokens) /\ <<"https://">> \in Seq(Tokens) /\ <<"ssh://">> \in Seq(Tokens)
    BY DEF Tokens
  <2>3. <<"https://", "user", "@">> \in Seq(Tokens) /\ <<"ssh://", "git", "@">> \in Seq(Tokens)
    BY DEF Tokens
  <2> HIDE DEF k
  <2> QED
    BY <2>1, <2>2, <2>3
<1>4. w = (k \o z) \o t
  BY <1>3 DEF LeftOver
<1> HIDE DEF w, g, k, z
<1>5. ((s \o k) \o z) \o t = raw
  <2>1. ((s \o k) \o z) \o t = s \o ((k \o z) \o t)
    <3>1. Cat(Cat(Cat(s, k), z), t) = Cat(s, Cat(Cat(k, z), t))
      <4>1. s \in Seq(Tokens) /\ k \in Seq(Tokens) /\ z \in Seq(Tokens) /\ t \in Seq(Tokens)
        BY <1>2, <1>3
      <4> QED
        BY ONLY <4>1, Regroup
    <3> QED
      BY <3>1, Zenon DEF Cat
  <2> QED
    BY <1>4, <2>1
<1>6. NoUser(w) = w
  BY <1>2, NobodyThere
<1> HIDE DEF raw
<1>7. NoUser(Scp(NoScheme(raw))) = w
  <2>1. CASE s = << >>
    <3>1. raw = w
      BY <1>2, <2>1, ConcatEmptySeq DEF raw
    <3> QED
      BY <1>2, <1>6, <3>1
  <2>2. CASE s \in {<<"https://">>, <<"ssh://">>}
    <3>1. NoScheme(raw) = w
      BY <1>2, <2>2, SchemeGone DEF raw
    <3> QED
      BY <1>2, <1>6, <3>1
  <2>3. CASE s = <<"https://", "user", "@">>
    <3> DEFINE a == <<"https://">>
               u == <<"user", "@">>
               v == u \o w
    <3>1. a \in Seq(Tokens) /\ u \in Seq(Tokens) /\ s = a \o u /\ Len(u) >= 1 /\ u[1] = "user"
      BY <2>3 DEF Tokens
    <3>2. v \in Seq(Tokens)
      BY <1>2, <3>1, ConcatProperties
    <3>3. raw = a \o v
      <4> HIDE DEF a, u
      <4>1. (a \o u) \o w = a \o (u \o w)
        <5>1. Cat(Cat(a, u), w) = Cat(a, Cat(u, w))
          BY <1>2, <3>1, CatTogether
        <5> QED
          BY <5>1, Zenon DEF Cat
      <4> QED
        BY <3>1, <4>1 DEF raw
    <3>4. NoScheme(raw) = v
      BY <3>2, <3>3, SchemeGone
    <3>5. Scp(v) = v
      BY <1>2, <3>1, ScpOther
    <3>6. NoUser(v) = w
      BY <1>2, UserGone
    <3> QED
      BY <3>4, <3>5, <3>6
  <2>4. CASE s = <<"ssh://", "git", "@">>
    <3> DEFINE a == <<"ssh://">>
               u == <<"git", "@">>
               v == u \o w
    <3>1. a \in Seq(Tokens) /\ u \in Seq(Tokens) /\ s = a \o u
      BY <2>4 DEF Tokens
    <3>2. v \in Seq(Tokens)
      BY <1>2, <3>1, ConcatProperties
    <3>3. raw = a \o v
      <4> HIDE DEF a, u
      <4>1. (a \o u) \o w = a \o (u \o w)
        <5>1. Cat(Cat(a, u), w) = Cat(a, Cat(u, w))
          BY <1>2, <3>1, CatTogether
        <5> QED
          BY <5>1, Zenon DEF Cat
      <4> QED
        BY <3>1, <4>1 DEF raw
    <3>4. NoScheme(raw) = v
      BY <3>2, <3>3, SchemeGone
    <3>5. Scp(v) = w
      BY <1>2, ScpPlain
    <3> QED
      BY <1>6, <3>4, <3>5
  <2> QED
    BY <2>1, <2>2, <2>3, <2>4
<1>8. Leaves(raw, r)
  BY <1>1, <1>7 DEF Leaves, w
<1> QED
  BY <1>5, <1>8 DEF k, z

\* A remote with user git and a colon.
LEMMA ColonSpelling ==
  ASSUME NEW r \in Repos, NEW q \in {r, Shouted(r)}, NEW t \in {<< >>, <<".git">>, <<"/">>}, NEW port \in {<< >>, <<"2222", "/">>}
  PROVE  LET raw == <<"git", "@">> \o (<<"host", ":">> \o ((port \o PathOf(q)) \o t))
         IN  raw \in Seq(Tokens) /\ NoScheme(raw) = raw /\ \E h \in Hosts : NoUser(Scp(raw)) = LeftOver(h, q, t)
<1> DEFINE u == <<"git", "@">>
           k == <<"host", ":">>
           e == <<"host", "/">>
           z == PathOf(q)
           v == (port \o z) \o t
           h == IF port = << >> THEN <<"host">> ELSE <<"host", "/", "2222">>
           w == LeftOver(h, q, t)
           y == k \o v
           raw == u \o y
<1>1. h \in Hosts /\ RepoFacts(q)
  BY ReposAre DEF Hosts
<1>2. w \in Seq(Tokens) /\ Markless(w, "@") /\ z \in Seq(Tokens) /\ t \in Seq(Tokens)
  BY <1>1, PlainIs
<1>3. /\ u \in Seq(Tokens) /\ k \in Seq(Tokens) /\ e \in Seq(Tokens) /\ port \in Seq(Tokens)
      /\ Len(u) >= 1 /\ u[1] = "git"
  <2>1. u \in Seq(Tokens) /\ k \in Seq(Tokens) /\ e \in Seq(Tokens) /\ Len(u) >= 1 /\ u[1] = "git"
    BY DEF Tokens
  <2>2. << >> \in Seq(Tokens) /\ <<"2222", "/">> \in Seq(Tokens)
    BY DEF Tokens
  <2> HIDE DEF u, k, e
  <2> QED
    BY <2>1, <2>2
<1> HIDE DEF z
<1>4. v \in Seq(Tokens) /\ y \in Seq(Tokens) /\ raw \in Seq(Tokens)
  <2>1. port \o z \in Seq(Tokens)
    BY <1>2, <1>3, ConcatProperties
  <2>2. v \in Seq(Tokens)
    BY <1>2, <2>1, ConcatProperties
  <2> HIDE DEF v
  <2>3. y \in Seq(Tokens)
    BY <1>3, <2>2, ConcatProperties
  <2> HIDE DEF y
  <2>4. raw \in Seq(Tokens)
    BY <1>3, <2>3, ConcatProperties
  <2> QED
    BY <2>2, <2>3, <2>4
<1>5. w = e \o v
  <2>1. e \o port = h \o <<"/">>
    <3>1. CASE port = << >>
      <4>1. h = <<"host">>
        BY <3>1
      <4>2. e \o << >> = <<"host">> \o <<"/">>
        OBVIOUS
      <4> QED
        BY <3>1, <4>1, <4>2
    <3>2. CASE port = <<"2222", "/">>
      <4>1. port # << >>
        BY <3>2
      <4>2. h = <<"host", "/", "2222">>
        BY <4>1
      <4>3. e \o <<"2222", "/">> = <<"host", "/", "2222">> \o <<"/">>
        OBVIOUS
      <4> QED
        BY <3>2, <4>2, <4>3
    <3> QED
      BY <3>1, <3>2
  <2>2. w = ((e \o port) \o z) \o t
    BY <2>1 DEF LeftOver, z
  <2> HIDE DEF e, w
  <2> QED
    <3>1. ((e \o port) \o z) \o t = e \o ((port \o z) \o t)
      <4>1. Cat(Cat(Cat(e, port), z), t) = Cat(e, Cat(Cat(port, z), t))
        BY <1>2, <1>3, Regroup
      <4> QED
        BY <4>1, Zenon DEF Cat
    <3> QED
      BY <2>2, <3>1
<1>6. NoScheme(raw) = raw
  <2>1. u[1] \notin Schemes
    BY <1>3 DEF Schemes
  <2> HIDE DEF y, u
  <2> QED
    BY <1>3, <1>4, <2>1, NoSchemeThere
<1>7. Scp(raw) = e \o v
  <2> HIDE DEF v
  <2> QED
    BY <1>4, ScpColon
<1>8. NoUser(w) = w
  BY <1>2, NobodyThere
<1> HIDE DEF h, w
<1>9. NoUser(Scp(raw)) = w
  BY <1>5, <1>7, <1>8
<1>10. \E hh \in Hosts : NoUser(Scp(raw)) = LeftOver(hh, q, t)
  BY <1>1, <1>9 DEF w
<1> HIDE DEF raw
<1>11. raw \in Seq(Tokens) /\ NoScheme(raw) = raw /\ \E hh \in Hosts : NoUser(Scp(raw)) = LeftOver(hh, q, t)
  BY <1>4, <1>6, <1>10
<1> QED
  BY <1>11 DEF raw, y, v, z, u, k

LEMMA RegroupFour ==
  ASSUME NEW T
  PROVE  \A a, b, c, d, e \in Seq(T) : Cat(Cat(Cat(Cat(a, b), c), d), e) = Cat(a, Cat(b, Cat(Cat(c, d), e)))
  BY CatTogether
LEMMA RegroupFive ==
  ASSUME NEW T
  PROVE  \A a, b, c, d, e, f \in Seq(T) :
           Cat(Cat(Cat(Cat(Cat(a, b), c), d), e), f) = Cat(a, Cat(b, Cat(c, Cat(Cat(d, e), f))))
<1> TAKE a \in Seq(T), b \in Seq(T), c \in Seq(T), d \in Seq(T), e \in Seq(T), f \in Seq(T)
<1>1. Cat(a, b) \in Seq(T) /\ Cat(c, Cat(Cat(d, e), f)) \in Seq(T)
  BY CatTogether
<1>2. Cat(Cat(Cat(Cat(Cat(a, b), c), d), e), f) = Cat(Cat(a, b), Cat(c, Cat(Cat(d, e), f)))
  BY <1>1, RegroupFour
<1>3. Cat(Cat(a, b), Cat(c, Cat(Cat(d, e), f))) = Cat(a, Cat(b, Cat(c, Cat(Cat(d, e), f))))
  BY <1>1, CatTogether
<1> QED
  BY <1>2, <1>3

LEMMA PortSpelling ==
  ASSUME NEW r \in Repos, NEW t \in {<< >>, <<".git">>, <<"/">>}
  PROVE  /\ Leaves(<<"ssh://", "git", "@", "host", ":", "2222", "/">> \o PathOf(r) \o t, r)
         /\ Leaves(<<"ssh://", "host", ":", "2222", "/">> \o PathOf(r) \o t, r)
<1> DEFINE s == <<"ssh://">>
           u == <<"git", "@">>
           k == <<"host", ":">>
           p == <<"2222", "/">>
           h == <<"host", ":", "2222">>
           m == <<"/">>
           one == <<"ssh://", "git", "@", "host", ":", "2222", "/">>
           two == <<"ssh://", "host", ":", "2222", "/">>
           z == PathOf(r)
           w == LeftOver(h, r, t)
           x == u \o (k \o ((p \o z) \o t))
<1>1. h \in Hosts /\ RepoFacts(r)
  BY ReposAre DEF Hosts
<1>2. w \in Seq(Tokens) /\ Markless(w, "@") /\ Scp(w) = w /\ z \in Seq(Tokens) /\ t \in Seq(Tokens)
  BY <1>1, PlainIs
<1>3. x \in Seq(Tokens) /\ NoScheme(x) = x /\ \E hh \in Hosts : NoUser(Scp(x)) = LeftOver(hh, r, t)
  BY ColonSpelling
<1>4. s \in Seq(Tokens) /\ u \in Seq(Tokens) /\ k \in Seq(Tokens) /\ p \in Seq(Tokens) /\ h \in Seq(Tokens) /\ m \in Seq(Tokens)
  BY DEF Tokens
<1>5. one = ((s \o u) \o k) \o p /\ two = s \o (h \o m)
  OBVIOUS
<1>6. NoScheme(s \o x) = x /\ NoScheme(s \o w) = w
  BY <1>2, <1>3, SchemeGone
<1> HIDE DEF s, u, k, p, h, m, z, w, x, one, two
<1>7. (one \o z) \o t = s \o x
  <2>1. Cat(Cat(Cat(Cat(Cat(s, u), k), p), z), t) = Cat(s, Cat(u, Cat(k, Cat(Cat(p, z), t))))
    <3>1. s \in Seq(Tokens) /\ u \in Seq(Tokens) /\ k \in Seq(Tokens) /\ p \in Seq(Tokens) /\ z \in Seq(Tokens) /\ t \in Seq(Tokens)
      BY <1>2, <1>4
    <3> QED
      BY ONLY <3>1, RegroupFive
  <2>2. ((((s \o u) \o k) \o p) \o z) \o t = s \o (u \o (k \o ((p \o z) \o t)))
    BY <2>1, Zenon DEF Cat
  <2> QED
    BY <1>5, <2>2, Zenon DEF x
<1>8. (two \o z) \o t = s \o w
  <2> DEFINE b == h \o m
  <2>1. b \in Seq(Tokens)
    BY <1>4, ConcatProperties
  <2> HIDE DEF b
  <2>2. Cat(Cat(Cat(s, b), z), t) = Cat(s, Cat(Cat(b, z), t))
    <3>1. s \in Seq(Tokens) /\ b \in Seq(Tokens) /\ z \in Seq(Tokens) /\ t \in Seq(Tokens)
      BY <1>2, <1>4, <2>1
    <3> QED
      BY ONLY <3>1, Regroup
  <2>3. ((s \o b) \o z) \o t = s \o ((b \o z) \o t)
    BY <2>2, Zenon DEF Cat
  <2>4. w = (b \o z) \o t
    BY DEF w, LeftOver, b, z, m
  <2>5. two = s \o b
    BY <1>5 DEF b
  <2> QED
    BY <2>3, <2>4, <2>5, Zenon
<1>9. NoUser(w) = w
  BY <1>2, NobodyThere
<1>10. Leaves((one \o z) \o t, r)
  <2>1. PICK hh \in Hosts : NoUser(Scp(x)) = LeftOver(hh, r, t)
    BY <1>3
  <2>2. NoUser(Scp(NoScheme((one \o z) \o t))) = LeftOver(hh, r, t)
    BY <1>6, <1>7, <2>1
  <2> QED
    BY <2>2 DEF Leaves
<1>11. Leaves((two \o z) \o t, r)
  <2>1. NoUser(Scp(NoScheme((two \o z) \o t))) = LeftOver(h, r, t)
    BY <1>2, <1>6, <1>8, <1>9 DEF w
  <2> QED
    BY <1>1, <2>1 DEF Leaves
<1> QED
  BY <1>10, <1>11 DEF one, two, z

LEMMA ShoutedSpelling ==
  ASSUME NEW r \in Repos, NEW t \in {<< >>, <<".git">>, <<"/">>}, NEW port \in {<< >>, <<"2222", "/">>}
  PROVE  Leaves(<<"git", "@", "host", ":">> \o port \o PathOf(Shouted(r)) \o t, r)
<1> DEFINE u == <<"git", "@">>
           k == <<"host", ":">>
           one == <<"git", "@", "host", ":">>
           q == Shouted(r)
           z == PathOf(q)
           x == u \o (k \o ((port \o z) \o t))
<1>1. NoScheme(x) = x /\ \E hh \in Hosts : NoUser(Scp(x)) = LeftOver(hh, q, t)
  BY ColonSpelling
<1>2. z \in Seq(Tokens) /\ t \in Seq(Tokens)
  <2>1. RepoFacts(q) /\ <<"host">> \in Hosts
    BY ReposAre DEF Hosts
  <2> QED
    BY <2>1, PlainIs
<1>3. u \in Seq(Tokens) /\ k \in Seq(Tokens) /\ one = u \o k
  BY DEF Tokens
<1>4. port \in Seq(Tokens)
  <2>1. << >> \in Seq(Tokens) /\ <<"2222", "/">> \in Seq(Tokens)
    BY DEF Tokens
  <2> QED
    BY <2>1
<1> HIDE DEF u, k, z, q, x, one
<1>5. ((one \o port) \o z) \o t = x
  <2>1. Cat(Cat(Cat(Cat(u, k), port), z), t) = Cat(u, Cat(k, Cat(Cat(port, z), t)))
    <3>1. u \in Seq(Tokens) /\ k \in Seq(Tokens) /\ port \in Seq(Tokens) /\ z \in Seq(Tokens) /\ t \in Seq(Tokens)
      BY <1>2, <1>3, <1>4
    <3> QED
      BY ONLY <3>1, RegroupFour
  <2>2. (((u \o k) \o port) \o z) \o t = u \o (k \o ((port \o z) \o t))
    BY <2>1, Zenon DEF Cat
  <2> QED
    BY <1>3, <2>2, Zenon DEF x
<1>6. Leaves(x, r)
  <2>1. PICK hh \in Hosts : NoUser(Scp(x)) = LeftOver(hh, q, t)
    BY <1>1
  <2>2. NoUser(Scp(NoScheme(x))) = LeftOver(hh, q, t)
    BY <1>1, <2>1
  <2> QED
    BY <2>2 DEF Leaves, q
<1> QED
  BY <1>5, <1>6 DEF one, z, q

\* Every spelling of a repository comes to its one name, and garbage to none.
LEMMA SpellingsCollide ==
  ASSUME NEW r \in Repos, NEW raw \in Spellings(r)
  PROVE  NormalizeRemote(raw) = <<"host">> \o r
<1>1. Leaves(raw, r)
  <2> DEFINE tail == {<< >>, <<".git">>, <<"/">>}
             plain == {<< >>, <<"https://">>, <<"https://", "user", "@">>, <<"ssh://", "git", "@">>, <<"ssh://">>}
  <2>1. \/ \E s \in plain, t \in tail : raw = s \o <<"host", "/">> \o PathOf(r) \o t
        \/ \E t \in tail : raw = <<"ssh://", "git", "@", "host", ":", "2222", "/">> \o PathOf(r) \o t
        \/ \E t \in tail : raw = <<"ssh://", "host", ":", "2222", "/">> \o PathOf(r) \o t
        \/ \E port \in {<< >>, <<"2222", "/">>}, t \in tail : raw = <<"git", "@", "host", ":">> \o port \o PathOf(Shouted(r)) \o t
    <3> DEFINE F(s, t) == s \o <<"host", "/">> \o PathOf(r) \o t
               G(t) == <<"ssh://", "git", "@", "host", ":", "2222", "/">> \o PathOf(r) \o t
               H(t) == <<"ssh://", "host", ":", "2222", "/">> \o PathOf(r) \o t
               I(port, t) == <<"git", "@", "host", ":">> \o port \o PathOf(Shouted(r)) \o t
               ports == {<< >>, <<"2222", "/">>}
               A == {F(s, t) : s \in plain, t \in tail}
               B == {G(t) : t \in tail}
               C2 == {H(t) : t \in tail}
               D == {I(port, t) : port \in ports, t \in tail}
    <3>1. Spellings(r) = A \union B \union C2 \union D
      BY SMT DEF Spellings
    <3> HIDE DEF F, G, H, I, plain, tail, ports
    <3>2. /\ raw \in A => \E s \in plain, t \in tail : raw = F(s, t)
          /\ raw \in B => \E t \in tail : raw = G(t)
          /\ raw \in C2 => \E t \in tail : raw = H(t)
          /\ raw \in D => \E port \in ports, t \in tail : raw = I(port, t)
      OBVIOUS
    <3>4. raw \in A \/ raw \in B \/ raw \in C2 \/ raw \in D
      <4> HIDE DEF A, B, C2, D
      <4> QED
        BY <3>1
    <3> HIDE DEF A, B, C2, D
    <3> QED
      BY <3>2, <3>4, Zenon DEF F, G, H, I, ports, plain, tail
  <2>2. CASE \E s \in plain, t \in tail : raw = s \o <<"host", "/">> \o PathOf(r) \o t
    <3>1. PICK s \in plain, t \in tail : raw = s \o <<"host", "/">> \o PathOf(r) \o t
      BY <2>2
    <3>2. Leaves(s \o <<"host", "/">> \o PathOf(r) \o t, r)
      BY PlainSpelling
    <3> QED
      BY <3>1, <3>2, Zenon
  <2>3. CASE \E t \in tail : raw = <<"ssh://", "git", "@", "host", ":", "2222", "/">> \o PathOf(r) \o t
    <3>1. PICK t \in tail : raw = <<"ssh://", "git", "@", "host", ":", "2222", "/">> \o PathOf(r) \o t
      BY <2>3
    <3>2. Leaves(<<"ssh://", "git", "@", "host", ":", "2222", "/">> \o PathOf(r) \o t, r)
      BY PortSpelling
    <3> QED
      BY <3>1, <3>2, Zenon
  <2>4. CASE \E t \in tail : raw = <<"ssh://", "host", ":", "2222", "/">> \o PathOf(r) \o t
    <3>1. PICK t \in tail : raw = <<"ssh://", "host", ":", "2222", "/">> \o PathOf(r) \o t
      BY <2>4
    <3>2. Leaves(<<"ssh://", "host", ":", "2222", "/">> \o PathOf(r) \o t, r)
      BY PortSpelling
    <3> QED
      BY <3>1, <3>2, Zenon
  <2>5. CASE \E port \in {<< >>, <<"2222", "/">>}, t \in tail : raw = <<"git", "@", "host", ":">> \o port \o PathOf(Shouted(r)) \o t
    <3>1. PICK port \in {<< >>, <<"2222", "/">>}, t \in tail : raw = <<"git", "@", "host", ":">> \o port \o PathOf(Shouted(r)) \o t
      BY <2>5
    <3>2. Leaves(<<"git", "@", "host", ":">> \o port \o PathOf(Shouted(r)) \o t, r)
      BY ShoutedSpelling
    <3> QED
      BY <3>1, <3>2, Zenon
  <2> QED
    BY <2>1, <2>2, <2>3, <2>4, <2>5
<1>2. PICK q \in {r, Shouted(r)}, h \in Hosts, t \in {<< >>, <<".git">>, <<"/">>} : NoUser(Scp(NoScheme(raw))) = LeftOver(h, q, t)
  BY <1>1 DEF Leaves
<1> QED
  BY <1>2, RemoteIs, SMTT(30)

\* A text in parts of which fewer than three are left is no remote.
LEMMA TooShort ==
  ASSUME NEW ps \in Seq(Seq(Tokens)), Len(ps) < 3
  PROVE  Len(NoEmpty(ps)) < 3
<1> DEFINE n == Len(ps)
<1>1. PICK r : KeepGoes(Tokens, ps, r)
  BY KeepRuns
<1>2. /\ n \in 0..2 /\ r \in [0..n -> Seq(Seq(Tokens))] /\ r[0] = << >> /\ r[n] = NoEmpty(ps)
      /\ \A i \in 1..n : r[i] = Nonempty(r[i - 1], ps[i]) /\ ps[i] \in Seq(Tokens)
  <2>1. n \in Nat /\ \A i \in 1..n : ps[i] \in Seq(Tokens)
    BY LenProperties, ElementOfSeq
  <2>2. n \in 0..2
    <3>1. n \in Nat /\ n < 3
      BY <2>1
    <3> HIDE DEF n
    <3> QED
      BY <3>1
  <2>3. /\ r \in [0..n -> Seq(Seq(Tokens))] /\ r[0] = << >> /\ r[n] = NoEmpty(ps)
        /\ \A i \in 1..n : r[i] = Nonempty(r[i - 1], ps[i])
    BY <1>1, Zenon DEF KeepGoes
  <2> HIDE DEF n
  <2> QED
    BY <2>1, <2>2, <2>3
<1> HIDE DEF n
<1>3. ASSUME NEW i \in 1..n
      PROVE  Len(r[i]) <= Len(r[i - 1]) + 1 /\ Len(r[i]) \in Nat /\ Len(r[i - 1]) \in Nat
  <2>1. i - 1 \in 0..n /\ i \in 0..n
    BY <1>2
  <2>2. r[i - 1] \in Seq(Seq(Tokens)) /\ r[i] \in Seq(Seq(Tokens)) /\ ps[i] \in Seq(Tokens)
    BY <1>2, <2>1
  <2>3. Len(r[i - 1]) \in Nat /\ Len(r[i]) \in Nat
    BY <2>2, LenProperties
  <2>4. Len(Append(r[i - 1], ps[i])) = Len(r[i - 1]) + 1
    BY <2>2, AppendProperties
  <2>5. r[i] = r[i - 1] \/ r[i] = Append(r[i - 1], ps[i])
    BY <1>2 DEF Nonempty
  <2> QED
    BY <2>3, <2>4, <2>5
<1>4. Len(r[0]) = 0
  BY <1>2
<1>5. CASE n = 0
  BY <1>2, <1>4, <1>5
<1>6. CASE n = 1
  <2>1. Len(r[1]) <= Len(r[1 - 1]) + 1 /\ Len(r[1]) \in Nat
    BY <1>3, <1>6
  <2> QED
    BY <1>2, <1>4, <1>6, <2>1
<1>7. CASE n = 2
  <2>1. Len(r[1]) <= Len(r[1 - 1]) + 1 /\ Len(r[1]) \in Nat
    BY <1>3, <1>7
  <2>2. Len(r[2]) <= Len(r[2 - 1]) + 1 /\ Len(r[2]) \in Nat
    BY <1>3, <1>7
  <2> QED
    BY <1>2, <1>4, <1>7, <2>1, <2>2
<1> QED
  BY <1>2, <1>5, <1>6, <1>7

LEMMA ShortIsNone ==
  ASSUME NEW raw, NEW w \in Seq(Tokens), NoScheme(raw) = w, Markless(w, "@"),
         w # << >> => w[1] # "git" /\ w[Len(w)] \notin {"/", ".git"},
         NEW ps \in Seq(Seq(Tokens)), SplitAt(w, "/") = ps, Len(ps) < 3
  PROVE  NormalizeRemote(raw) = << >>
<1>1. Scp(w) = w
  <2>1. CASE w = << >>
    <3> DEFINE g == <<"git", "@">>
    <3>1. g \in Seq(Tokens) /\ Len(g) = 2
      BY DEF Tokens
    <3> HIDE DEF g
    <3>2. Len(w) = 0
      BY <2>1
    <3>3. ~ Begins(g, w)
      BY <3>1, <3>2 DEF Begins
    <3>4. ~ IsPrefix(g, w)
      BY <3>1, <3>3, PrefixBegins
    <3> QED
      BY <3>4 DEF Scp, g
  <2>2. CASE w # << >>
    <3>1. Len(w) >= 1 /\ << >> \in Seq(Tokens)
      BY <2>2, EmptySeq, LenProperties
    <3>2. w \o << >> = w
      BY ConcatEmptySeq
    <3>3. Scp(w \o << >>) = w \o << >>
      BY <2>2, <3>1, ScpOther
    <3> QED
      BY <3>2, <3>3
  <2> QED
    BY <2>1, <2>2
<1>2. NoUser(w) = w
  BY NobodyThere
<1>3. RTrim(w, "/") = w /\ RTrim(w, ".git") = w
  BY NothingTrimmed
<1>4. Segments(RTrim(RTrim(NoUser(Scp(NoScheme(raw))), "/"), ".git")) = NoEmpty(ps)
  <2>1. RTrim(RTrim(NoUser(Scp(NoScheme(raw))), "/"), ".git") = w
    BY <1>1, <1>2, <1>3
  <2> QED
    BY <2>1 DEF Segments
<1>5. Len(NoEmpty(ps)) < 3
  BY TooShort
<1> QED
  BY <1>4, <1>5 DEF NormalizeRemote

\* Garbage names no repository.
LEMMA GarbageIsNone == ASSUME NEW raw \in Garbage PROVE NormalizeRemote(raw) = << >>
<1> DEFINE a == <<"host">>
           b == <<"web">>
           m == <<"/">>
           c == <<"host", "/", "web">>
           s == <<"https://">>
<1>1. a \in Seq(Tokens) /\ b \in Seq(Tokens) /\ c \in Seq(Tokens) /\ << >> \in Seq(Tokens) /\ "/" \in Tokens
  BY DEF Tokens
<1>2. Len(a) = 1 /\ a[1] = "host" /\ Len(b) = 1 /\ b[1] = "web" /\ Len(c) = 3 /\ c[1] = "host" /\ c[2] = "/" /\ c[3] = "web"
  OBVIOUS
<1>3. c = (a \o m) \o b
  OBVIOUS
<1>4. NoScheme(<< >>) = << >>
  BY DEF NoScheme
<1>5. NoScheme(b) = b
  <2>1. b # << >> /\ Head(b) = "web"
    OBVIOUS
  <2> HIDE DEF b
  <2> QED
    BY <2>1 DEF NoScheme, Schemes
<1>6. NoScheme(s \o c) = c /\ s \o c = <<"https://", "host", "/", "web">>
  <2>1. s \o c = <<"https://", "host", "/", "web">>
    <3> DEFINE x == <<"https://", "host", "/", "web">>
               v == s \o c
    <3>1. x \in Seq(Tokens) /\ Len(x) = 4 /\ x[1] = "https://" /\ x[2] = "host" /\ x[3] = "/" /\ x[4] = "web"
      BY DEF Tokens
    <3>2. s \in Seq(Tokens) /\ Len(s) = 1 /\ s[1] = "https://"
      BY DEF Tokens
    <3> HIDE DEF s, c, x
    <3>3. v \in Seq(Tokens) /\ Len(v) = Len(s) + Len(c) /\ \A i \in 1..(Len(s) + Len(c)) : v[i] = IF i <= Len(s) THEN s[i] ELSE c[i - Len(s)]
      <4>1. s \in Seq(Tokens) /\ c \in Seq(Tokens)
        BY <1>1, <3>2
      <4> QED
        BY ONLY <4>1, ConcatProperties
    <3> HIDE DEF v
    <3>4. Len(v) = 4 /\ \A i \in 1..4 : v[i] = IF i <= 1 THEN s[i] ELSE c[i - 1]
      BY <1>2, <3>2, <3>3
    <3>5. \A i \in 1..4 : v[i] = x[i]
      <4> TAKE i \in 1..4
      <4>1. i = 1 \/ i = 2 \/ i = 3 \/ i = 4
        OBVIOUS
      <4>2. v[2] = c[1] /\ v[3] = c[2] /\ v[4] = c[3]
        <5>1. ~ (2 <= 1) /\ 2 - 1 = 1 /\ 2 \in 1..4
          OBVIOUS
        <5>2. ~ (3 <= 1) /\ 3 - 1 = 2 /\ 3 \in 1..4
          OBVIOUS
        <5>3. ~ (4 <= 1) /\ 4 - 1 = 3 /\ 4 \in 1..4
          OBVIOUS
        <5> QED
          BY <3>4, <5>1, <5>2, <5>3
      <4>3. v[1] = s[1]
        BY <3>4
      <4> QED
        BY <1>2, <3>1, <3>2, <4>1, <4>2, <4>3
    <3>6. v = x
      BY <3>1, <3>3, <3>4, <3>5, SeqEqual
    <3> QED
      BY <3>6 DEF v, x
  <2> HIDE DEF c
  <2> QED
    BY <1>1, <2>1, SchemeGone
<1>7. raw \in {<< >>, b, s \o c}
  BY <1>6, Zenon DEF Garbage
<1> HIDE DEF a, b, c, s
<1>8. \A i \in 1..3 : i = 1 \/ i = 2 \/ i = 3
  OBVIOUS
<1>9. Markless(a, "/") /\ Markless(b, "/") /\ Markless(b, "@") /\ Markless(c, "@")
  <2>1. \A i \in 1..1 : i = 1
    OBVIOUS
  <2> QED
    BY <1>2, <1>8, <2>1 DEF Markless
<1>10. CASE raw = << >>
  <2>1. SplitAt(<< >>, "/") = << << >> >> /\ << << >> >> \in Seq(Seq(Tokens)) /\ Len(<< << >> >>) < 3
    BY <1>1, SplitNothing
  <2>2. Markless(<< >>, "@")
    BY DEF Markless
  <2> QED
    BY <1>1, <1>4, <1>10, <2>1, <2>2, ShortIsNone
<1>11. CASE raw = b
  <2>1. SplitAt(b, "/") = <<b>>
    BY <1>1, <1>9, SplitAlone
  <2>2. <<b>> \in Seq(Seq(Tokens)) /\ Len(<<b>>) < 3
    BY <1>1
  <2>3. b[1] # "git" /\ b[Len(b)] \notin {"/", ".git"}
    BY <1>2
  <2> QED
    BY <1>1, <1>5, <1>9, <1>11, <2>1, <2>2, <2>3, ShortIsNone
<1>12. CASE raw = s \o c
  <2> DEFINE ps == Append(<<a>>, b)
  <2>1. SplitAt(c, "/") = ps
    <3>1. SplitAt(a, "/") = <<a>>
      BY <1>1, <1>9, SplitAlone
    <3> QED
      BY <1>1, <1>3, <1>9, <3>1, SplitNext
  <2>2. ps \in Seq(Seq(Tokens)) /\ Len(ps) < 3
    <3>1. <<a>> \in Seq(Seq(Tokens)) /\ Len(<<a>>) = 1
      BY <1>1
    <3> DEFINE u == <<a>>
    <3> HIDE DEF u
    <3>2. u \in Seq(Seq(Tokens)) /\ Len(u) = 1
      BY <3>1 DEF u
    <3>3. Append(u, b) \in Seq(Seq(Tokens)) /\ Len(Append(u, b)) = Len(u) + 1
      <4>1. u \in Seq(Seq(Tokens)) /\ b \in Seq(Tokens)
        BY <1>1, <3>2
      <4> QED
        BY ONLY <4>1, AppendProperties
    <3> QED
      BY <3>2, <3>3 DEF u
  <2>3. c[1] # "git" /\ c[Len(c)] \notin {"/", ".git"}
    BY <1>2
  <2> HIDE DEF ps
  <2> QED
    BY <1>1, <1>6, <1>9, <1>12, <2>1, <2>2, <2>3, ShortIsNone
<1> QED
  BY <1>7, <1>10, <1>11, <1>12

\* The project found is that of the nearest directory claimed above the path.
Claiming(r, d) == {w \in Whitelist : w.repo = r /\ IsPrefix(w.dirs, d)}
Nearest(mine, found) ==
  IF mine = {} THEN found = Unowned
  ELSE \E w \in mine : w.project = found /\ \A v \in mine : Len(v.dirs) <= Len(w.dirs)
LEMMA ClaimFound ==
  ASSUME NEW r \in Repos, NEW d \in Places
  PROVE  Nearest(Claiming(r, d), FindByRemote(<<"host">> \o r, Spelled(d)))
<1> DEFINE Row(w) == [remote |-> NormalizeRemote(<<"host", "/">> \o PathOf(w.repo)), prefix |-> Spelled(w.dirs), project |-> w.project]
           mine == Claiming(r, d)
           remote == <<"host">> \o r
           path == Spelled(d)
           R == {c \in Claimed : c.remote = remote /\ Claims(c.prefix, path)}
<1>1. Claimed = {Row(w) : w \in Whitelist}
  BY DEF Claimed
<1>2. ASSUME NEW w \in Whitelist PROVE w.repo \in Repos /\ w.dirs \in Places
  BY DEF Repos, Places
<1>3. ASSUME NEW w \in Whitelist PROVE Row(w).remote = <<"host">> \o w.repo
  <2> DEFINE k == <<"host", "/">>
             z == PathOf(w.repo)
  <2>1. w.repo \in Repos
    BY <1>2
  <2>2. Leaves(<< >> \o k \o z \o << >>, w.repo)
    BY <2>1, PlainSpelling
  <2>3. << >> \o k \o z \o << >> = k \o z
    <3>1. k \in Seq(Tokens) /\ z \in Seq(Tokens)
      <4>1. k \in Seq(Tokens)
        BY DEF Tokens
      <4>2. z \in Seq(Tokens)
        BY <2>1, PathsAre, ReposAre DEF PathFacts
      <4> QED
        BY <4>1, <4>2
    <3> HIDE DEF k, z
    <3>2. << >> \o k = k
      BY <3>1, ConcatEmptySeq
    <3>3. k \o z \in Seq(Tokens)
      BY <3>1, ConcatProperties
    <3>4. (k \o z) \o << >> = k \o z
      BY <3>3, ConcatEmptySeq
    <3> QED
      BY <3>2, <3>4
  <2>4. Leaves(k \o z, w.repo)
    BY <2>2, <2>3
  <2> DEFINE raw == k \o z
  <2> HIDE DEF raw
  <2>5. PICK q \in {w.repo, Shouted(w.repo)}, h \in Hosts, t \in {<< >>, <<".git">>, <<"/">>} : NoUser(Scp(NoScheme(raw))) = LeftOver(h, q, t)
    BY <2>4 DEF Leaves, raw
  <2>6. NormalizeRemote(raw) = <<"host">> \o w.repo
    BY <2>1, <2>5, RemoteIs
  <2> QED
    BY <2>6 DEF raw
<1>4. ASSUME NEW w \in Whitelist PROVE Row(w).remote = remote <=> w.repo = r
  <2> DEFINE a == <<"host">>
             x == w.repo
  <2>1. a \in Seq(Tokens) /\ x \in Seq(Tokens) /\ r \in Seq(Tokens) /\ Len(a) >= 1
    <3>1. a \in Seq(Tokens) /\ Len(a) >= 1
      BY DEF Tokens
    <3>2. x \in Seq(Tokens) /\ r \in Seq(Tokens)
      BY <1>2, ReposAre DEF RepoFacts
    <3> QED
      BY <3>1, <3>2
  <2> HIDE DEF a, x
  <2>2. Drop(a \o x, Len(a)) = x /\ Drop(a \o r, Len(a)) = r
    BY ONLY <2>1, Followed
  <2>3. a \o x = a \o r <=> x = r
    BY ONLY <2>2
  <2> QED
    BY <1>3, <2>3 DEF a, x
<1>5. ASSUME NEW w \in Whitelist PROVE Row(w) \in R <=> w \in mine
  <2>1. Claims(Spelled(w.dirs), path) <=> IsPrefix(w.dirs, d)
    BY <1>2, ClaimsByName
  <2>2. Row(w) \in Claimed /\ Row(w).prefix = Spelled(w.dirs)
    BY <1>1
  <2> HIDE DEF Row, remote, path
  <2> QED
    BY <1>4, <2>1, <2>2 DEF Claiming
<1>6. \A c \in R : \E w \in mine : c = Row(w)
  <2> TAKE c \in R
  <2>1. PICK w \in Whitelist : c = Row(w)
    BY <1>1
  <2> HIDE DEF Row, R, mine
  <2> QED
    BY <1>5, <2>1
<1>7. \A w \in mine : w \in Whitelist /\ Row(w) \in R
  <2>1. \A w \in mine : w \in Whitelist
    BY DEF Claiming
  <2> HIDE DEF Row, R, mine
  <2> QED
    BY <1>5, <2>1
<1>8. \A w \in mine : Row(w).prefix = Spelled(w.dirs) /\ Row(w).project = w.project
  OBVIOUS
<1>9. FindByRemote(remote, path) = IF R = {} THEN Unowned ELSE (CHOOSE c \in R : \A e \in R : Len(e.prefix) <= Len(c.prefix)).project
  BY DEF FindByRemote
<1> DEFINE found == FindByRemote(remote, path)
<1>10. \A w \in mine : Begins(w.dirs, d) /\ w.dirs \in Places
  <2> TAKE w \in mine
  <2>1. IsPrefix(w.dirs, d) /\ w.dirs \in Places
    BY <1>2 DEF Claiming
  <2>2. w.dirs \in Seq(Seq(Letters)) /\ d \in Seq(Seq(Letters))
    BY <2>1, PlacesApart
  <2> QED
    BY <2>1, <2>2, PrefixBegins
<1> HIDE DEF Row, mine, R, remote, path, found
<1>11. CASE R = {}
  <2>1. mine = {}
    BY <1>7, <1>11
  <2> QED
    BY <1>9, <1>11, <2>1 DEF Nearest, mine, found, remote, path
<1>12. CASE R # {}
  <2>1. \E c \in R : \A e \in R : Len(e.prefix) <= Len(c.prefix)
    <3> DEFINE P == {Len(Spelled(w.dirs)) : w \in mine}
    <3>1. P \subseteq Nat /\ P # {}
      <4>1. \A w \in mine : Len(Spelled(w.dirs)) \in Nat
        BY <1>10, SpelledEnds
      <4>2. mine # {}
        BY <1>6, <1>12
      <4> QED
        BY <4>1, <4>2
    <3>2. \E g \in P : \A i \in P : i <= g
      <4> DEFINE U == {Len(Spelled(d)) - i : i \in P}
      <4>1. \A w \in mine : Len(Spelled(w.dirs)) <= Len(Spelled(d)) /\ Len(Spelled(d)) \in Nat
        <5> TAKE w \in mine
        <5>1. Distinct(Letters, "/", w.dirs) /\ Distinct(Letters, "/", d)
          BY <1>10, PlacesApart
        <5>2. /\ Spelled(w.dirs) \in Seq(Letters) /\ Spelled(d) \in Seq(Letters) /\ "/" \in Letters
              /\ Len(Spelled(w.dirs)) \in Nat /\ Len(Spelled(d)) \in Nat
          BY <1>10, SpelledEnds DEF Letters
        <5>3. \/ Spelled(w.dirs) = << >>
              \/ Spelled(d) = Spelled(w.dirs)
              \/ Begins(Append(Spelled(w.dirs), "/"), Spelled(d))
          BY <1>10, <5>1, TextsFollowNames DEF Spelled
        <5>4. CASE Spelled(w.dirs) = << >>
          <6>1. Len(Spelled(w.dirs)) = 0
            BY <5>4
          <6> QED
            BY <5>2, <6>1
        <5>5. CASE Spelled(d) = Spelled(w.dirs)
          BY <5>2, <5>5
        <5>6. CASE Begins(Append(Spelled(w.dirs), "/"), Spelled(d))
          <6>1. Len(Append(Spelled(w.dirs), "/")) = Len(Spelled(w.dirs)) + 1
            BY <5>2, AppendProperties
          <6> QED
            BY <5>2, <5>6, <6>1 DEF Begins
        <5> QED
          BY <5>3, <5>4, <5>5, <5>6
      <4>2. \A i \in P : Len(Spelled(d)) - i \in Nat /\ i \in Nat /\ Len(Spelled(d)) \in Nat
        <5> TAKE i \in P
        <5>1. PICK w \in mine : i = Len(Spelled(w.dirs))
          OBVIOUS
        <5> HIDE DEF P
        <5> QED
          BY <3>1, <4>1, <5>1
      <4>3. U \in SUBSET Nat /\ U # {}
        <5> HIDE DEF P
        <5> QED
          BY <3>1, <4>2
      <4> HIDE DEF U
      <4>4. PICK l \in U : \A i \in U : l <= i
        BY <4>3, LeastOf
      <4>5. PICK g \in P : l = Len(Spelled(d)) - g
        BY DEF U
      <4>6. ASSUME NEW i \in P PROVE i <= g
        <5> HIDE DEF P
        <5>1. Len(Spelled(d)) - i \in U
          BY DEF U
        <5>2. Len(Spelled(d)) - g <= Len(Spelled(d)) - i
          BY <4>4, <4>5, <5>1
        <5> QED
          BY <4>2, <5>2
      <4> QED
        BY <4>6
    <3>3. PICK w \in mine : \A i \in P : i <= Len(Spelled(w.dirs))
      BY <3>2
    <3>4. \A e \in R : Len(e.prefix) \in P
      BY <1>6, <1>8
    <3> HIDE DEF P
    <3>5. Row(w) \in R /\ Row(w).prefix = Spelled(w.dirs)
      BY <1>7, <1>8
    <3> QED
      BY <3>3, <3>4, <3>5
  <2> DEFINE c == CHOOSE c \in R : \A e \in R : Len(e.prefix) <= Len(c.prefix)
  <2>2. c \in R /\ \A e \in R : Len(e.prefix) <= Len(c.prefix)
    BY <2>1
  <2>3. found = c.project
    BY <1>9, <1>12 DEF found
  <2> HIDE DEF c
  <2>4. PICK w \in mine : c = Row(w)
    BY <1>6, <2>2
  <2>5. \A v \in mine : Len(v.dirs) <= Len(w.dirs)
    <3> TAKE v \in mine
    <3>1. Len(Row(v).prefix) <= Len(Row(w).prefix)
      BY <1>7, <2>2, <2>4
    <3>2. Len(Spelled(v.dirs)) <= Len(Spelled(w.dirs))
      BY <1>8, <3>1
    <3>3. Distinct(Letters, "/", v.dirs) /\ Distinct(Letters, "/", w.dirs) /\ Distinct(Letters, "/", d)
      BY <1>10, PlacesApart
    <3>4. Begins(v.dirs, d) /\ Begins(w.dirs, d)
      BY <1>10
    <3> QED
      BY <3>2, <3>3, <3>4, LongerTextMoreNames DEF Spelled
  <2>6. w.project = found
    BY <1>8, <2>3, <2>4
  <2>7. Nearest(mine, found)
    BY <2>5, <2>6 DEF Nearest
  <2> QED
    BY <2>7 DEF mine, found, remote, path
<1> QED
  BY <1>11, <1>12

\* What waits to be matched was asked of a checkout and a path there are.
AskIsSound ==
  /\ ask = [by |-> ask.by, repo |-> ask.repo, remote |-> ask.remote, dirs |-> ask.dirs, path |-> ask.path]
  /\ stage = "asked" =>
       /\ ask.repo \in Repo /\ ask.dirs \in Paths /\ ask.remote \in Spellings(ask.repo) \union Garbage
       /\ \E lead \in {<< >>, <<"/">>} : ask.path = lead \o Spelled(ask.dirs)
MatchInv == AskIsSound /\ RightProject

LEMMA MatchStarts == GuardInit => MatchInv
<1> SUFFICES ASSUME GuardInit PROVE MatchInv
  OBVIOUS
<1>1. ask = NoAsk /\ stage = "idle"
  BY DEF GuardInit
<1> QED
  BY <1>1 DEF MatchInv, AskIsSound, RightProject, NoAsk

LEMMA RightIsNearest == RightProject <=> (stage = "matched" => Nearest(Claiming(ask.repo, ask.dirs), project))
  BY DEF RightProject, Nearest, Claiming

LEMMA MatchKeeps == ASSUME MatchInv, Match PROVE MatchInv'
<1>1. /\ stage = "asked" /\ ask' = [ask EXCEPT !.remote = << >>, !.path = << >>]
      /\ \/ NormalizeRemote(ask.remote) = << >> /\ stage' = "failed"
         \/ /\ NormalizeRemote(ask.remote) # << >> /\ stage' = "matched"
            /\ project' = FindByRemote(NormalizeRemote(ask.remote), NormalizePath(ask.path))
  BY DEF Match
<1>2. ask = [by |-> ask.by, repo |-> ask.repo, remote |-> ask.remote, dirs |-> ask.dirs, path |-> ask.path]
  BY DEF MatchInv, AskIsSound
<1>3. ask' = [by |-> ask.by, repo |-> ask.repo, remote |-> << >>, dirs |-> ask.dirs, path |-> << >>]
  BY <1>1, <1>2
<1>4. /\ ask.repo \in Repo /\ ask.dirs \in Paths /\ ask.remote \in Spellings(ask.repo) \union Garbage
      /\ \E lead \in {<< >>, <<"/">>} : ask.path = lead \o Spelled(ask.dirs)
  BY <1>1 DEF MatchInv, AskIsSound
<1>5. ask'.repo = ask.repo /\ ask'.dirs = ask.dirs
  BY <1>3
<1>6. AskIsSound'
  BY <1>1, <1>3 DEF AskIsSound
<1>7. ASSUME stage' = "matched" PROVE Nearest(Claiming(ask.repo, ask.dirs), project')
  <2>1. ask.repo \in Repos /\ ask.dirs \in Places
    BY <1>4 DEF Repos, Places
  <2>2. NormalizeRemote(ask.remote) # << >> /\ project' = FindByRemote(NormalizeRemote(ask.remote), NormalizePath(ask.path))
    BY <1>1, <1>7
  <2>3. ask.remote \in Spellings(ask.repo)
    BY <1>4, <2>2, GarbageIsNone
  <2>4. NormalizeRemote(ask.remote) = <<"host">> \o ask.repo
    BY <2>1, <2>3, SpellingsCollide
  <2>5. NormalizePath(ask.path) = Spelled(ask.dirs)
    BY <1>4, <2>1, PathIsPlain
  <2>6. project' = FindByRemote(<<"host">> \o ask.repo, Spelled(ask.dirs))
    BY <2>2, <2>4, <2>5
  <2> QED
    BY <2>1, <2>6, ClaimFound
<1>8. RightProject'
  BY <1>5, <1>7, RightIsNearest DEF RightProject, Nearest, Claiming
<1> QED
  BY <1>6, <1>8 DEF MatchInv

LEMMA MatchStep == MatchInv /\ [GuardNext]_guardVars => MatchInv'
<1> SUFFICES ASSUME MatchInv, [GuardNext]_guardVars PROVE MatchInv'
  OBVIOUS
<1>1. ASSUME NEW by, NEW repo \in Repo, NEW dirs \in Paths, NEW remote \in Spellings(repo) \union Garbage,
             NEW lead \in {<< >>, <<"/">>}, PreEdit(by, repo, remote, dirs, lead \o Spelled(dirs))
      PROVE  MatchInv'
  <2> DEFINE path == lead \o Spelled(dirs)
  <2>1. ask' = [by |-> by, repo |-> repo, remote |-> remote, dirs |-> dirs, path |-> path] /\ stage' = "asked"
    BY <1>1 DEF PreEdit
  <2>2. \E l \in {<< >>, <<"/">>} : path = l \o Spelled(dirs)
    OBVIOUS
  <2> HIDE DEF path
  <2>3. ask'.by = by /\ ask'.repo = repo /\ ask'.remote = remote /\ ask'.dirs = dirs /\ ask'.path = path
    BY <2>1
  <2>4. AskIsSound'
    BY <2>1, <2>2, <2>3, Zenon DEF AskIsSound
  <2>5. RightProject'
    BY <2>1 DEF RightProject
  <2> QED
    BY <2>4, <2>5 DEF MatchInv
<1>2. ASSUME stage = "idle", NEW repo \in Repo, NEW dirs \in Paths, NEW remote \in Spellings(repo) \union Garbage,
             NEW lead \in {<< >>, <<"/">>},
             \/ HookPreEdit(repo, remote, dirs, lead \o Spelled(dirs))
             \/ \E given \in {remote, << >>} : EditPreflight(repo, given, remote, dirs, lead \o Spelled(dirs))
      PROVE  MatchInv'
  <2>1. CASE HookPreEdit(repo, remote, dirs, lead \o Spelled(dirs))
    BY <1>1, <2>1 DEF HookPreEdit
  <2>2. ASSUME NEW given \in {remote, << >>}, EditPreflight(repo, given, remote, dirs, lead \o Spelled(dirs)) PROVE MatchInv'
    <3>1. (IF given # << >> THEN given ELSE remote) = remote
      OBVIOUS
    <3>2. PreEdit("tool", repo, remote, dirs, lead \o Spelled(dirs))
      BY <2>2, <3>1 DEF EditPreflight
    <3> QED
      BY <1>1, <3>2
  <2> QED
    BY <1>2, <2>1, <2>2
<1>3. ASSUME ask' = ask, project' = project, stage' # "asked" \/ stage' = stage, stage' = "matched" => stage = "matched"
      PROVE  MatchInv'
  BY <1>3 DEF MatchInv, AskIsSound, RightProject
<1>4. CASE SearchNotes \/ AddStandards \/ Fault \/ Refuse \/ Receive \/ FailOpen \/ Governance \/ UNCHANGED guardVars
  BY <1>3, <1>4 DEF SearchNotes, AddStandards, Fault, Refuse, Receive, FailOpen, Governance, guardVars
<1> QED
  BY <1>2, <1>4, MatchKeeps DEF GuardNext

\* Whatever is decided meanwhile, a preflight of any spelling is matched to the
\* project that claims the nearest directory above the file.
THEOREM ProjectIsFound == GuardSpec => []RightProject
<1>1. MatchInv => RightProject
  BY DEF MatchInv
<1> QED
  BY MatchStarts, MatchStep, <1>1, PTL DEF GuardSpec
===============================================================================
