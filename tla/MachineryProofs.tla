---------------------------- MODULE MachineryProofs ----------------------------
(***************************************************************************)
(* What keeps running without anybody asking, for any number of sweeps,      *)
(* memories, targets, requests, callers and questions: why an enabled sweep  *)
(* stays on the schedule, a half-embedded version is never served, the       *)
(* publication ledger does not run ahead, the health report tells what it    *)
(* found, a process leaves nothing torn, a provider that comes back meets one *)
(* probe, and a settled gap stays settled.                                   *)
(***************************************************************************)
EXTENDS MachineryMC, FiniteSetTheorems, SequenceTheorems, TLAPS


-----------------------------------------------------------------------------
(* The circuit breaker (module Gateway). *)

\* A probe whose cooldown has not passed since it was admitted.
Young(c) == call[c].probe /\ call[c].age < Cooldown

\* The types of the breaker and of the calls.
GatewayTypeOK ==
  /\ breaker \in [failures : 0..Threshold, open : BOOLEAN, cooling : 0..Cooldown,
                  probing : 0..(Cooldown + 1)]
  /\ call \in [Caller -> [at : {"idle", "admitted", "sent"}, attempt : Nat,
                          seen : {"up", "down", "rejecting"}, probe : BOOLEAN, age : 0..Cooldown]]
  /\ upstream \in {"up", "down", "rejecting"}

\* A closed circuit has given out no token.
ClosedIsFree == ~ breaker.open => breaker.probing = None

\* A young probe has the token, which is as old as the probe; or some report has
\* taken the token back, and then the circuit is closed or cools until the probe
\* is no longer young.
YoungIsCounted ==
  \A c \in Caller : Young(c) =>
    \/ breaker.open /\ breaker.probing = call[c].age
    \/ breaker.probing = None /\ (breaker.open => call[c].age + breaker.cooling >= Cooldown)

\* At most one probe is young, which is what the breaker is for.
OneYoung == \A c, d \in Caller : Young(c) /\ Young(d) => c = d

\* The inductive invariant of the breaker.
HerdInv == GatewayTypeOK /\ ClosedIsFree /\ YoungIsCounted /\ OneYoung

\* The circuit starts closed, with no call.
LEMMA HerdStart == GatewayInit => HerdInv
<1> SUFFICES ASSUME GatewayInit PROVE HerdInv
  OBVIOUS
<1> USE GatewayAssumption DEF GatewayInit
<1>1. \A c \in Caller : ~ Young(c)
  BY DEF Young, NoCall
<1>2. GatewayTypeOK
  BY DEF GatewayTypeOK, NoCall, None
<1> QED
  BY <1>1, <1>2 DEF HerdInv, ClosedIsFree, YoungIsCounted, OneYoung

\* A closed circuit admits calls that are no probes; an open one admits a probe
\* when no young one can be out.
LEMMA CheckStep ==
  ASSUME HerdInv, NEW c \in Caller, Check(c)
  PROVE  HerdInv'
<1> USE GatewayAssumption DEF HerdInv, GatewayTypeOK
<1>1. /\ call' = [call EXCEPT ![c] = [at |-> "admitted", attempt |-> 1, seen |-> "up",
                                     probe |-> breaker.open, age |-> 0]]
      /\ upstream' = upstream
  BY DEF Check, NoCall
<1>2. \A d \in Caller \ {c} : call'[d] = call[d]
  BY <1>1
<1>3. CASE ~ breaker.open
  <2>1. breaker' = breaker
    BY <1>3 DEF Check
  <2>2. ~ call'[c].probe
    BY <1>1, <1>3
  <2>3. GatewayTypeOK'
    BY <1>1, <2>1
  <2> QED
    BY <1>2, <2>1, <2>2, <2>3 DEF ClosedIsFree, YoungIsCounted, OneYoung, Young
<1>4. CASE breaker.open
  <2>1. /\ breaker.cooling = 0 /\ breaker.probing \in {None, Cooldown}
        /\ breaker' = [failures |-> 0, open |-> TRUE, cooling |-> 0, probing |-> 0]
    BY <1>4 DEF Check, ProbeFree
  <2>2. \A d \in Caller : ~ Young(d)
    BY <1>4, <2>1 DEF YoungIsCounted, Young, None
  <2>3. \A d \in Caller \ {c} : ~ Young(d)'
    BY <1>2, <2>2 DEF Young
  <2>4. GatewayTypeOK'
    BY <1>1, <2>1
  <2>5. breaker'.open /\ breaker'.probing = 0 /\ call'[c].age = 0
    BY <1>1, <1>4, <2>1
  <2> QED
    BY <2>3, <2>4, <2>5 DEF ClosedIsFree, YoungIsCounted, OneYoung
<1> QED
  BY <1>3, <1>4

\* What is reported of a call, its own or another's, leaves every young probe with
\* a circuit that is closed or has all its cooldown before it.
LEMMA ReportStep ==
  ASSUME HerdInv, NEW c \in Caller, RecordSuccess \/ RecordFailure,
         GatewayTypeOK', \A d \in Caller : Young(d)' => Young(d) /\ call'[d].age = call[d].age
  PROVE  HerdInv'
<1> USE GatewayAssumption DEF HerdInv, GatewayTypeOK
<1>1. OneYoung'
  BY DEF OneYoung
<1>2. CASE RecordSuccess
  <2>1. ~ breaker'.open /\ breaker'.probing = None
    BY <1>2 DEF RecordSuccess
  <2> QED
    BY <1>1, <2>1 DEF ClosedIsFree, YoungIsCounted
<1>3. CASE RecordFailure
  <2> DEFINE opens == breaker.probing # None \/ breaker.failures + 1 >= Threshold
  <2>1. /\ breaker'.probing = None
        /\ breaker'.open = (breaker.open \/ opens)
        /\ breaker'.cooling = IF opens THEN Cooldown ELSE breaker.cooling
    BY <1>3 DEF RecordFailure
  <2>2. ClosedIsFree'
    BY <2>1 DEF ClosedIsFree
  <2>3. YoungIsCounted'
    <3>1. CASE opens
      BY <2>1, <3>1 DEF YoungIsCounted
    <3>2. CASE ~ opens
      <4>1. breaker.probing = None /\ breaker'.open = breaker.open /\ breaker'.cooling = breaker.cooling
        BY <2>1, <3>2
      <4>2. \A d \in Caller : Young(d) => (breaker.open => call[d].age + breaker.cooling >= Cooldown)
        BY <4>1 DEF YoungIsCounted, Young, None
      <4> QED
        BY <2>1, <4>1, <4>2 DEF YoungIsCounted
    <3> QED
      BY <3>1, <3>2
  <2> QED
    BY <1>1, <2>2, <2>3
<1> QED
  BY <1>2, <1>3

\* A call that leaves, is tried again, dropped or answered makes no probe young.
LEMMA CallStep ==
  ASSUME HerdInv, NEW c \in Caller, Send(c) \/ Reply(c) \/ Drop(c)
  PROVE  HerdInv'
<1> USE GatewayAssumption DEF HerdInv, GatewayTypeOK
<1>1. ASSUME UNCHANGED breaker, GatewayTypeOK',
             \A d \in Caller : Young(d)' => Young(d) /\ call'[d].age = call[d].age
      PROVE  HerdInv'
  BY <1>1 DEF ClosedIsFree, YoungIsCounted, OneYoung, None
<1>2. ASSUME Finished(c)
      PROVE  /\ \A d \in Caller : Young(d)' => Young(d) /\ call'[d].age = call[d].age
             /\ call' \in [Caller -> [at : {"idle", "admitted", "sent"}, attempt : Nat,
                          seen : {"up", "down", "rejecting"}, probe : BOOLEAN, age : 0..Cooldown]]
  BY <1>2 DEF Finished, NoCall, Young
<1>3. CASE Send(c)
  <2>1. /\ \A d \in Caller : call'[d].probe = call[d].probe /\ call'[d].age = call[d].age
        /\ GatewayTypeOK' /\ UNCHANGED breaker
    BY <1>3 DEF Send, Attempt
  <2> QED
    BY <1>1, <2>1 DEF Young
<1>4. CASE Drop(c)
  BY <1>1, <1>2, <1>4 DEF Drop
<1>5. CASE Reply(c) /\ UNCHANGED breaker /\ ~ Finished(c)
  <2>1. /\ \A d \in Caller : call'[d].probe = call[d].probe /\ call'[d].age = call[d].age
        /\ GatewayTypeOK'
    BY <1>5 DEF Reply, Attempt
  <2> QED
    BY <1>1, <1>5, <2>1 DEF Young
<1>6. CASE Reply(c) /\ Finished(c) /\ (RecordSuccess \/ RecordFailure)
  <2>1. breaker' \in [failures : 0..Threshold, open : BOOLEAN, cooling : 0..Cooldown,
                      probing : 0..(Cooldown + 1)]
    <3>1. CASE RecordSuccess
      BY <3>1 DEF RecordSuccess, None
    <3>2. CASE RecordFailure
      BY <3>2 DEF RecordFailure, None
    <3> QED
      BY <1>6, <3>1, <3>2
  <2>2. upstream' = upstream
    BY <1>6 DEF Reply
  <2> QED
    BY <1>2, <1>6, <2>1, <2>2, ReportStep
<1>7. Reply(c) => \/ UNCHANGED breaker /\ ~ Finished(c)
                  \/ UNCHANGED breaker /\ Finished(c)
                  \/ Finished(c) /\ (RecordSuccess \/ RecordFailure)
  BY DEF Reply
<1>8. CASE Reply(c) /\ UNCHANGED breaker /\ Finished(c)
  <2>1. upstream' = upstream
    BY <1>8 DEF Reply
  <2> QED
    BY <1>1, <1>2, <1>8, <2>1
<1> QED
  BY <1>3, <1>4, <1>5, <1>6, <1>7, <1>8

\* A tick takes of the cooldown what it adds to the age of a probe.
LEMMA TickStep ==
  ASSUME HerdInv, Tick
  PROVE  HerdInv'
<1> USE GatewayAssumption DEF HerdInv, GatewayTypeOK
<1>1. /\ breaker'.open = breaker.open
      /\ breaker'.cooling = IF breaker.cooling = 0 THEN 0 ELSE breaker.cooling - 1
      /\ breaker'.probing = Older(breaker.probing)
  BY DEF Tick
<1>2. \A c \in Caller : /\ call'[c].probe = call[c].probe
                        /\ call[c].probe => call'[c].age = Older(call[c].age)
  BY DEF Tick
<1>3. GatewayTypeOK'
  <2>1. breaker' \in [failures : 0..Threshold, open : BOOLEAN, cooling : 0..Cooldown,
                      probing : 0..(Cooldown + 1)]
    BY DEF Tick, Older
  <2>2. call' \in [Caller -> [at : {"idle", "admitted", "sent"}, attempt : Nat,
                          seen : {"up", "down", "rejecting"}, probe : BOOLEAN, age : 0..Cooldown]]
    BY DEF Tick, Older
  <2> QED
    BY <2>1, <2>2 DEF Tick
<1>4. \A c \in Caller : Young(c)' => Young(c) /\ call'[c].age = call[c].age + 1
  BY <1>2 DEF Young, Older
<1>5. ClosedIsFree'
  BY <1>1 DEF ClosedIsFree, Older, None
<1>6. YoungIsCounted'
  <2> SUFFICES ASSUME NEW c \in Caller, Young(c)'
               PROVE  \/ breaker'.open /\ breaker'.probing = call'[c].age
                      \/ /\ breaker'.probing = None
                         /\ breaker'.open => call'[c].age + breaker'.cooling >= Cooldown
    BY DEF YoungIsCounted, None
  <2>1. Young(c) /\ call'[c].age = call[c].age + 1 /\ call[c].age < Cooldown
    BY <1>4 DEF Young
  <2>2. CASE breaker.open /\ breaker.probing = call[c].age
    BY <1>1, <2>1, <2>2 DEF Older
  <2>3. CASE breaker.probing = None /\ (breaker.open => call[c].age + breaker.cooling >= Cooldown)
    BY <1>1, <2>1, <2>3 DEF Older, None
  <2> QED
    BY <2>1, <2>2, <2>3 DEF YoungIsCounted
<1>7. OneYoung'
  BY <1>4 DEF OneYoung
<1> QED
  BY <1>3, <1>5, <1>6, <1>7

\* Callers, the clock and the provider keep the invariant; embedding is apart.
LEMMA HerdStep == HerdInv /\ [GatewayNext]_gatewayVars => HerdInv'
<1> SUFFICES ASSUME HerdInv, [GatewayNext]_gatewayVars PROVE HerdInv'
  OBVIOUS
<1>1. ASSUME NEW c \in Caller, Check(c) \/ Send(c) \/ Reply(c) \/ Drop(c)
      PROVE  HerdInv'
  BY <1>1, CheckStep, CallStep
<1>2. CASE Tick
  BY <1>2, TickStep
<1>3. ASSUME UNCHANGED <<breaker, call>>, upstream' \in {"up", "down", "rejecting"}
      PROVE  HerdInv'
  BY <1>3 DEF HerdInv, GatewayTypeOK, ClosedIsFree, YoungIsCounted, OneYoung, Young, None
<1>4. ASSUME NEW u \in {"up", "down", "rejecting"}, Turn(u) PROVE HerdInv'
  BY <1>3, <1>4 DEF Turn
<1>5. CASE EmbedNext \/ EmbedFails \/ UNCHANGED gatewayVars
  BY <1>3, <1>5 DEF EmbedNext, EmbedChunk, EmbedFails, gatewayVars, HerdInv, GatewayTypeOK
<1> QED
  BY <1>1, <1>2, <1>4, <1>5 DEF GatewayNext, CallNext

\* However many callers wait for a provider that is down, and however late calls
\* from before the outage report, at most one probe of a cooldown is out
\* (resilience.rs CircuitBreaker check, record_success, record_failure).
THEOREM HerdStaysHeld == GatewaySpec => []HerdHeld
<1>1. HerdInv => HerdHeld
  <2> SUFFICES ASSUME HerdInv PROVE HerdHeld
    OBVIOUS
  <2> DEFINE probes == {c \in Caller : call[c].probe /\ call[c].age < Cooldown}
  <2>1. \A c, d \in probes : c = d
    BY DEF HerdInv, OneYoung, Young
  <2> SUFFICES Cardinality(probes) <= 1
    BY DEF HerdHeld
  <2> HIDE DEF probes
  <2>2. CASE probes = {}
    BY <2>2, FS_EmptySet
  <2>3. CASE probes # {}
    <3>1. PICK c \in probes : TRUE
      BY <2>3
    <3>2. probes = {c}
      BY <2>1, <3>1
    <3>3. Cardinality(probes) = 1
      BY <3>2, FS_Singleton
    <3> QED
      BY <3>3
  <2> QED
    BY <2>2, <2>3
<1> QED
  BY HerdStart, HerdStep, <1>1, PTL DEF GatewaySpec

-----------------------------------------------------------------------------
(* An embedding request (module Gateway). *)

\* Every vector so far is that of its text.
EmbedInv ==
  /\ texts \in Seq(Text) /\ out \in Seq(Text) /\ Len(out) <= Len(texts)
  /\ EachItsOwn

\* A text that is sent comes after every text before it.
LEMMA BeforeGrows ==
  ASSUME NEW chunk, NEW i \in Nat, NEW j \in Nat, i <= j
  PROVE  /\ Before(chunk, i) \in Nat /\ Before(chunk, i) <= Before(chunk, j)
         /\ i < j /\ chunk[j] # Blank => Before(chunk, i) < Before(chunk, j)
<1> DEFINE S == {n \in 1..i : chunk[n] # Blank}
           T == {n \in 1..j : chunk[n] # Blank}
<1>1. IsFiniteSet(T)
  <2>1. IsFiniteSet(1..j)
    BY FS_Interval
  <2> QED
    BY <2>1, FS_Subset
<1>2. S \in SUBSET T /\ (i < j /\ chunk[j] # Blank => j \notin S /\ j \in T)
  OBVIOUS
<1>3. Before(chunk, i) = Cardinality(S) /\ Before(chunk, j) = Cardinality(T)
  BY DEF Before
<1> HIDE DEF S, T
<1>4. IsFiniteSet(S) /\ Cardinality(S) <= Cardinality(T) /\ (i < j /\ chunk[j] # Blank => Cardinality(S) # Cardinality(T))
  BY <1>1, <1>2, FS_Subset
<1>5. Cardinality(S) \in Nat /\ Cardinality(T) \in Nat
  BY <1>1, <1>4, FS_CardinalityType
<1> QED
  BY <1>3, <1>4, <1>5

\* A function on 1..n is a sequence of that length.
LEMMA SequenceOf ==
  ASSUME NEW S, NEW n \in Nat, NEW s \in [1..n -> S]
  PROVE  s \in Seq(S) /\ Len(s) = n /\ DOMAIN s = 1..n
  OBVIOUS

\* Whatever the order of a response, what is put back is the chunk itself.
LEMMA RefillIsChunk ==
  ASSUME NEW n \in Nat, NEW S, NEW chunk \in [1..n -> S], NEW answer \in Responses(LiveTexts(chunk))
  PROVE  Refill(chunk, InOrder(answer)) = chunk
<1> DEFINE sent == LiveTexts(chunk)
           L == Before(chunk, n)
<1>1. Len(chunk) = n /\ DOMAIN chunk = 1..n
  BY SequenceOf
<1>2. L \in Nat
  BY BeforeGrows
<1>3. sent = [k \in 1..L |-> chunk[CHOOSE i \in DOMAIN chunk : chunk[i] # Blank /\ Before(chunk, i) = k]]
  BY <1>1 DEF LiveTexts
<1> HIDE DEF sent, L
<1>4. Len(sent) = L
  <2>1. sent \in [1..L -> {sent[k] : k \in 1..L}]
    BY <1>3
  <2> QED
    BY <1>2, <2>1, SequenceOf
<1>5. PICK order \in [1..L -> 1..L] :
        /\ \A i \in 1..L : \E j \in 1..L : order[j] = i
        /\ answer = [i \in 1..L |-> [index |-> order[i], embedding |-> sent[order[i]]]]
  BY <1>4 DEF Responses, sent
<1>6. ASSUME NEW i \in 1..L PROVE InOrder(answer)[i] = sent[i]
  <2>1. \E j \in 1..L : answer[j].index = i
    BY <1>5
  <2> DEFINE j == CHOOSE j \in DOMAIN answer : answer[j].index = i
  <2>2. j \in 1..L /\ answer[j].index = i
    BY <1>5, <2>1
  <2>3. answer[j].embedding = sent[i]
    <3> HIDE DEF j
    <3> QED
      BY <1>5, <2>2
  <2>4. InOrder(answer)[i] = answer[j].embedding
    BY <1>5 DEF InOrder
  <2> QED
    BY <2>3, <2>4
<1>7. ASSUME NEW i \in 1..n, chunk[i] # Blank
      PROVE  Before(chunk, i) \in 1..L /\ sent[Before(chunk, i)] = chunk[i]
  <2> DEFINE h == CHOOSE h \in DOMAIN chunk : chunk[h] # Blank /\ Before(chunk, h) = Before(chunk, i)
  <2>1. h \in 1..n /\ chunk[h] # Blank /\ Before(chunk, h) = Before(chunk, i)
    BY <1>1, <1>7
  <2> HIDE DEF h
  <2>2. h = i
    <3>1. ~ (h < i) /\ ~ (i < h)
      BY <1>7, <2>1, BeforeGrows
    <3> QED
      BY <2>1, <3>1
  <2>3. Before(chunk, i) \in 1..L
    <3>1. 0 \in Nat /\ 0 <= i /\ 0 < i /\ i \in Nat /\ i <= n
      OBVIOUS
    <3>2. Before(chunk, 0) \in Nat /\ Before(chunk, 0) < Before(chunk, i) /\ Before(chunk, i) \in Nat
          /\ Before(chunk, i) <= L
      BY <1>7, <3>1, BeforeGrows DEF L
    <3> QED
      BY <1>2, <3>2
  <2>4. sent[Before(chunk, i)] = chunk[h]
    BY <1>3, <2>3 DEF h
  <2> QED
    BY <2>2, <2>3, <2>4
<1>8. Refill(chunk, InOrder(answer)) = [i \in 1..n |-> IF chunk[i] = Blank THEN Blank ELSE InOrder(answer)[Before(chunk, i)]]
  BY <1>1 DEF Refill
<1>9. \A i \in 1..n : (IF chunk[i] = Blank THEN Blank ELSE InOrder(answer)[Before(chunk, i)]) = chunk[i]
  BY <1>6, <1>7
<1> QED
  BY <1>8, <1>9

\* Nothing is embedded yet.
LEMMA EmbedStart == ASSUME texts = << >> \/ texts \in UNION {[1..n -> Text] : n \in 0..MaxTexts}, out = << >> PROVE EmbedInv
<1>1. texts \in Seq(Text)
  <2>1. CASE texts = << >>
    BY <2>1, EmptySeq
  <2>2. ASSUME NEW n \in 0..MaxTexts, texts \in [1..n -> Text] PROVE texts \in Seq(Text)
    BY <2>2, SequenceOf
  <2> QED
    BY <2>1, <2>2
<1>2. out \in Seq(Text) /\ Len(out) = 0 /\ DOMAIN out = {}
  BY EmptySeq
<1> QED
  BY <1>1, <1>2, LenProperties DEF EmbedInv, EachItsOwn

\* Each chunk adds the vectors of its own texts.
LEMMA EmbedStep == ASSUME EmbedInv, EmbedNext \/ EmbedFails \/ UNCHANGED batch PROVE EmbedInv'
<1>1. CASE EmbedNext
  <2> DEFINE left == Len(texts) - Len(out)
             n == IF left < MaxBatch THEN left ELSE MaxBatch
             chunk == [i \in 1..n |-> texts[Len(out) + i]]
  <2>1. /\ Len(out) \in Nat /\ Len(texts) \in Nat /\ Len(out) <= Len(texts) /\ MaxBatch \in Nat
        /\ DOMAIN out = 1..Len(out) /\ \A i \in 1..Len(texts) : texts[i] \in Text
    BY GatewayAssumption, LenProperties, ElementOfSeq DEF EmbedInv
  <2>2. n \in Nat /\ Len(out) + n <= Len(texts)
    BY <2>1
  <2>3. chunk \in [1..n -> Text] /\ Chunk = chunk
    <3>1. Chunk = chunk
      BY DEF Chunk
    <3> HIDE DEF n
    <3>2. \A i \in 1..n : Len(out) + i \in 1..Len(texts)
      BY <2>1, <2>2
    <3> QED
      BY <2>1, <3>1, <3>2
  <2> HIDE DEF chunk
  <2>4. out' = out \o chunk /\ texts' = texts
    BY <1>1, <2>2, <2>3, RefillIsChunk DEF EmbedNext, EmbedChunk
  <2>5. chunk \in Seq(Text) /\ Len(chunk) = n
    BY <2>2, <2>3, SequenceOf
  <2> HIDE DEF n
  <2>6. /\ out' \in Seq(Text) /\ Len(out') = Len(out) + n
        /\ \A i \in 1..(Len(out) + n) : out'[i] = IF i <= Len(out) THEN out[i] ELSE chunk[i - Len(out)]
    BY <2>4, <2>5, ConcatProperties DEF EmbedInv
  <2>7. ASSUME NEW i \in 1..(Len(out) + n) PROVE out'[i] = texts[i]
    <3>1. CASE i <= Len(out)
      <4>1. i \in DOMAIN out
        BY <2>1, <3>1
      <4> QED
        BY <2>6, <3>1, <4>1 DEF EmbedInv, EachItsOwn
    <3>2. CASE ~ (i <= Len(out))
      <4>1. i - Len(out) \in 1..n /\ Len(out) + (i - Len(out)) = i
        BY <2>1, <2>2, <3>2
      <4> QED
        BY <2>6, <3>2, <4>1 DEF chunk
    <3> QED
      BY <3>1, <3>2
  <2>8. DOMAIN out' = 1..(Len(out) + n)
    BY <2>6, LenProperties
  <2> QED
    BY <2>2, <2>4, <2>6, <2>7, <2>8 DEF EmbedInv, EachItsOwn
<1>2. CASE EmbedFails
  <2>1. out' = << >> /\ texts' = texts
    BY <1>2 DEF EmbedFails
  <2>2. out' \in Seq(Text) /\ Len(out') = 0 /\ DOMAIN out' = {} /\ Len(texts) \in Nat
    BY <2>1, EmptySeq, LenProperties DEF EmbedInv
  <2> QED
    BY <2>1, <2>2 DEF EmbedInv, EachItsOwn
<1>3. CASE UNCHANGED batch
  BY <1>3 DEF batch, EmbedInv, EachItsOwn
<1> QED
  BY <1>1, <1>2, <1>3

-----------------------------------------------------------------------------
(* The schedule of a sweep and what it stores (module Sweeps). *)

\* A typed row, which is on the schedule when it is enabled.
ScheduleInv ==
  /\ row \in [enabled : BOOLEAN, next : {"null", "due", "later"},
              status : {"none", "running", "ok", "error"}, old : BOOLEAN]
  /\ EnabledIsScheduled

\* A claim computes the next slot from the row it updates, and enabling arms.
LEMMA ScheduleStep == ScheduleInv /\ [SweepsNext]_sweepVars => ScheduleInv'
<1> SUFFICES ASSUME ScheduleInv, [SweepsNext]_sweepVars PROVE ScheduleInv'
  OBVIOUS
<1> USE DEF ScheduleInv, EnabledIsScheduled
<1>1. ASSUME NEW e \in BOOLEAN, UpdateSweep(e) PROVE ScheduleInv'
  BY <1>1 DEF UpdateSweep
<1>2. CASE RunNow \/ Elapse \/ TwoHours \/ RunDies
  BY <1>2 DEF RunNow, Elapse, TwoHours, RunDies
<1>3. ASSUME NEW s \in Scheduler, See(s) \/ Dispatch(s) PROVE ScheduleInv'
  BY <1>3 DEF See, Dispatch, Slot
<1>4. ASSUME NEW status \in {"ok", "error"}, Record(status) PROVE ScheduleInv'
  BY <1>4 DEF Record
<1>5. ASSUME NEW confirmed \in SUBSET Cluster, Scan(confirmed) PROVE ScheduleInv'
  BY <1>5 DEF Scan
<1>6. CASE UNCHANGED sweepVars
  BY <1>6 DEF sweepVars
<1> QED
  BY <1>1, <1>2, <1>3, <1>4, <1>5, <1>6 DEF SweepsNext

\* However operators and claims cross, an enabled sweep keeps a slot (sweeps.rs
\* update_sweep and the claim of run_due).
THEOREM EnabledStaysScheduled == SweepsSpec => []EnabledIsScheduled
<1>1. SweepsInit => ScheduleInv
  BY DEF SweepsInit, ScheduleInv, EnabledIsScheduled
<1>2. ScheduleInv => EnabledIsScheduled
  BY DEF ScheduleInv
<1> QED
  BY <1>1, <1>2, ScheduleStep, PTL DEF SweepsSpec

\* What a tick has found due may still be claimed.
SeenIsRunnable ==
  /\ ScheduleInv /\ ticks \in [Scheduler -> BOOLEAN]
  /\ \A s \in Scheduler : ticks[s] => Runnable

\* A lone scheduler's claim is the only step that makes a row run again, and it
\* ends the tick.
LEMMA LoneTickStep ==
  ASSUME \A s, t \in Scheduler : s = t, SeenIsRunnable, [SweepsNext]_sweepVars
  PROVE  SeenIsRunnable'
<1>1. ScheduleInv'
  BY ScheduleStep DEF SeenIsRunnable
<1> USE DEF SeenIsRunnable, ScheduleInv, Runnable
<1>2. CASE (\E e \in BOOLEAN : UpdateSweep(e)) \/ RunNow \/ Elapse \/ TwoHours \/ RunDies
  BY <1>1, <1>2 DEF UpdateSweep, RunNow, Elapse, TwoHours, RunDies
<1>3. ASSUME NEW s \in Scheduler, See(s) PROVE SeenIsRunnable'
  BY <1>1, <1>3 DEF See
<1>4. ASSUME NEW s \in Scheduler, Dispatch(s) PROVE SeenIsRunnable'
  BY <1>1, <1>4 DEF Dispatch
<1>5. CASE \E status \in {"ok", "error"} : Record(status)
  BY <1>1, <1>5 DEF Record
<1>6. CASE (\E confirmed \in SUBSET Cluster : Scan(confirmed)) \/ UNCHANGED sweepVars
  BY <1>1, <1>6 DEF Scan, sweepVars
<1> QED
  BY <1>2, <1>3, <1>4, <1>5, <1>6 DEF SweepsNext

\* With one scheduler no run is started beside a live one, however its ticks,
\* operators, late reports and dead runs follow each other (sweeps.rs run_due);
\* the run sweeps_double shows what a second scheduler changes.
THEOREM LoneSchedulerNeverDoubles ==
  ASSUME \A s, t \in Scheduler : s = t
  PROVE  SweepsSpec => NoDoubleDispatch
<1>1. SweepsInit => SeenIsRunnable
  BY DEF SweepsInit, SeenIsRunnable, ScheduleInv, EnabledIsScheduled
<1>2. SeenIsRunnable /\ [SweepsNext]_sweepVars => SeenIsRunnable'
  BY LoneTickStep
<1>3. SeenIsRunnable /\ [SweepsNext]_sweepVars =>
        [row.status = "running" /\ ~ row.old => \A s \in Scheduler : ~ Dispatch(s)]_sweepVars
  BY DEF SeenIsRunnable, Runnable, Dispatch
<1> QED
  BY <1>1, <1>2, <1>3, PTL DEF SweepsSpec, NoDoubleDispatch

\* A scan gives ids to what is new alone; the rest it keeps or drops
\* (divergence.rs reconcile).
LEMMA IdsAreKept == [SweepsNext]_sweepVars => IdIsStable
<1> SUFFICES ASSUME [SweepsNext]_sweepVars, NEW c \in Cluster, divergences[c] # 0, divergences'[c] # 0
             PROVE  divergences'[c] = divergences[c]
  BY DEF IdIsStable
<1>1. CASE UNCHANGED divergences
  BY <1>1
<1>2. ASSUME NEW confirmed \in SUBSET Cluster, Scan(confirmed)
      PROVE  divergences'[c] = divergences[c]
  <2> DEFINE new == {d \in confirmed : divergences[d] = 0}
             order == CHOOSE f \in [new -> 1..Cardinality(new)] : \A b, d \in new : f[b] = f[d] => b = d
  <2>1. divergences' = [d \in Cluster |-> CASE d \in new -> ids + order[d]
                                            [] d \in confirmed \ new -> divergences[d]
                                            [] OTHER -> 0]
    BY <1>2 DEF Scan, Refresh
  <2> HIDE DEF order
  <2> QED
    BY <2>1
<1> QED
  BY <1>1, <1>2 DEF SweepsNext, UpdateSweep, RunNow, Elapse, TwoHours, RunDies, See, Dispatch,
                    Record, Scan, rest, sweepVars

-----------------------------------------------------------------------------
(* The publication ledger (module Publishing), for one publishing worker.  Two *)
(* of them may push in the other order than they read.                         *)

OnePublisher == \A v, w \in Publisher : v = w

\* The types of a pass, and of the ledger and the targets it writes.
PassSteps == {"idle", "listed", "look", "push", "record", "commit"}
PassEntry == [target : Targets, rev : Nat, ref : Nat]
PassRow == [at : PassSteps, listed : Nat, content : Nat, target : Nat, ref : Nat, rows : Seq(PassEntry)]
PublishTypeOK ==
  /\ revision \in Nat
  /\ publications \in [Targets -> [rev : Nat, ref : Nat]]
  /\ external \in [Targets -> Seq(Nat)]
  /\ pass \in [Publisher -> PassRow]

\* An id the ledger or a pass knows of names a page of its target.
PageThere(t, ref) == ref \in DOMAIN external[t]

\* Nothing shows more than was signed, nor, while a pass is pushing, more than
\* that pass brings.
NothingNewer ==
  /\ \A t \in Targets : \A i \in DOMAIN external[t] : external[t][i] <= revision
  /\ \A w \in Publisher :
       /\ pass[w].at # "idle" => pass[w].listed <= revision
       /\ pass[w].at \in {"look", "push", "record", "commit"} =>
            /\ pass[w].listed <= pass[w].content /\ pass[w].content <= revision
            /\ \A t \in Targets : \A i \in DOMAIN external[t] : external[t][i] <= pass[w].content

\* What a pass is about to record, and has recorded, shows what it says.
PassIsBacked(w) ==
  LET p == pass[w] IN
  /\ p.at \in {"look", "push", "record"} => p.target \in Targets
  /\ p.at = "push" => p.ref = 0 \/ PageThere(p.target, p.ref)
  /\ p.at = "record" => PageThere(p.target, p.ref) /\ external[p.target][p.ref] >= p.listed
  /\ \A i \in DOMAIN p.rows :
       PageThere(p.rows[i].target, p.rows[i].ref) /\ external[p.rows[i].target][p.rows[i].ref] >= p.rows[i].rev

\* The inductive invariant of publishing.
PublishInv ==
  /\ PublishTypeOK /\ NothingNewer
  /\ \A w \in Publisher : PassIsBacked(w)
  /\ \A t \in Targets : publications[t].ref # 0 =>
       PageThere(t, publications[t].ref) /\ external[t][publications[t].ref] >= publications[t].rev

\* Nothing is signed, listed or pushed.
LEMMA PublishStart == PublishInit => PublishInv
  BY DEF PublishInit, PublishInv, PublishTypeOK, NothingNewer, PassIsBacked, PageThere, Idle, NoEntry, PassSteps, PassRow, PassEntry


\* A push of a pass adds a page or writes one anew, with what the pass brings.
PushedBy(w) ==
  /\ external' \in [Targets -> Seq(Nat)]
  /\ \A t \in Targets : \A i \in DOMAIN external[t] :
       i \in DOMAIN external'[t] /\ external'[t][i] \in {external[t][i], pass[w].content}
  /\ \A t \in Targets : \A i \in DOMAIN external'[t] :
       i \notin DOMAIN external[t] => external'[t][i] = pass[w].content

LEMMA PushFacts ==
  ASSUME PublishInv, NEW w \in Publisher, pass[w].at = "push", external' = Pushed(w, pass[w].target)
  PROVE  /\ PushedBy(w)
         /\ RefOf(w, pass[w].target) \in DOMAIN external'[pass[w].target]
         /\ external'[pass[w].target][RefOf(w, pass[w].target)] = pass[w].content
<1> DEFINE t == pass[w].target
           s == external[t]
           c == pass[w].content
<1>1. t \in Targets /\ s \in Seq(Nat) /\ c \in Nat /\ (pass[w].ref = 0 \/ pass[w].ref \in DOMAIN s)
      /\ external \in [Targets -> Seq(Nat)]
  BY DEF PublishInv, PublishTypeOK, PassRow, PassIsBacked, PageThere
<1>2. CASE pass[w].ref # 0
  <2>1. external' = [external EXCEPT ![t][pass[w].ref] = c] /\ RefOf(w, t) = pass[w].ref
    BY <1>2 DEF Pushed, RefOf
  <2>2. [s EXCEPT ![pass[w].ref] = c] \in Seq(Nat) /\ DOMAIN [s EXCEPT ![pass[w].ref] = c] = DOMAIN s
    <3> DEFINE r == pass[w].ref
    <3>1. s \in Seq(Nat) /\ c \in Nat /\ r \in DOMAIN s
      BY <1>1, <1>2
    <3> HIDE DEF s, c, r
    <3>2. [s EXCEPT ![r] = c] \in Seq(Nat) /\ DOMAIN [s EXCEPT ![r] = c] = DOMAIN s
      BY <3>1
    <3> QED
      BY <3>2 DEF r
  <2>3. external' = [external EXCEPT ![t] = [s EXCEPT ![pass[w].ref] = c]]
    BY <2>1
  <2> HIDE DEF s, c
  <2> QED
    BY <1>1, <1>2, <2>1, <2>2, <2>3 DEF PushedBy, s, c
<1>3. CASE pass[w].ref = 0 /\ (Target[t] \in Wikis \/ s = << >>)
  <2>1. external' = [external EXCEPT ![t] = Append(s, c)] /\ RefOf(w, t) = Len(s) + 1
    BY <1>1, <1>3 DEF Pushed, RefOf
  <2>2. /\ Append(s, c) \in Seq(Nat) /\ DOMAIN Append(s, c) = 1..(Len(s) + 1) /\ DOMAIN s = 1..Len(s) /\ Len(s) \in Nat
        /\ \A i \in DOMAIN s : Append(s, c)[i] = s[i]
        /\ Append(s, c)[Len(s) + 1] = c
    BY <1>1
  <2>3. external'[t] = Append(s, c) /\ \A u \in Targets \ {t} : external'[u] = external[u]
    BY <1>1, <2>1
  <2>4. external' \in [Targets -> Seq(Nat)]
    BY <1>1, <2>1, <2>2
  <2>5. \A i \in DOMAIN Append(s, c) : i \notin DOMAIN s => i = Len(s) + 1
    BY <2>2
  <2> HIDE DEF s, c, t
  <2>6. PushedBy(w)
    <3>1. \A u \in Targets : \A i \in DOMAIN external[u] :
            i \in DOMAIN external'[u] /\ external'[u][i] \in {external[u][i], pass[w].content}
      <4> SUFFICES ASSUME NEW u \in Targets, NEW i \in DOMAIN external[u]
                   PROVE  i \in DOMAIN external'[u] /\ external'[u][i] \in {external[u][i], pass[w].content}
        OBVIOUS
      <4>1. CASE u = t
        <5>1. i \in DOMAIN s
          BY <4>1 DEF s
        <5>2. i \in DOMAIN Append(s, c) /\ Append(s, c)[i] = s[i]
          BY <2>2, <5>1
        <5> QED
          BY <4>1, <5>2, <2>3 DEF s
      <4> QED
        BY <4>1, <2>3
    <3>2. \A u \in Targets : \A i \in DOMAIN external'[u] : i \notin DOMAIN external[u] => external'[u][i] = pass[w].content
      <4> SUFFICES ASSUME NEW u \in Targets, NEW i \in DOMAIN external'[u], i \notin DOMAIN external[u]
                   PROVE  external'[u][i] = pass[w].content
        OBVIOUS
      <4>1. u = t
        BY <2>3
      <4>2. i \in DOMAIN Append(s, c) /\ i \notin DOMAIN s
        BY <4>1, <2>3 DEF s
      <4>3. Append(s, c)[i] = c
        BY <4>2, <2>5, <2>2
      <4> QED
        BY <4>1, <4>3, <2>3 DEF c
    <3> QED
      BY <2>4, <3>1, <3>2 DEF PushedBy
  <2> QED
    BY <2>1, <2>2, <2>3, <2>6 DEF s, c, t
<1>4. CASE pass[w].ref = 0 /\ ~ (Target[t] \in Wikis \/ s = << >>)
  <2>1. external' = [external EXCEPT ![t][1] = c] /\ RefOf(w, t) = 1
    BY <1>1, <1>4 DEF Pushed, RefOf
  <2>2. 1 \in DOMAIN s /\ [s EXCEPT ![1] = c] \in Seq(Nat) /\ DOMAIN [s EXCEPT ![1] = c] = DOMAIN s
    BY <1>1, <1>4
  <2>3. external' = [external EXCEPT ![t] = [s EXCEPT ![1] = c]]
    BY <2>1
  <2> HIDE DEF s, c
  <2> QED
    BY <1>1, <2>1, <2>2, <2>3 DEF PushedBy, s, c
<1> QED
  BY <1>2, <1>3, <1>4

\* For one publisher a push only brings what is newer than what it replaces.
LEMMA PushRaises ==
  ASSUME PublishInv, NEW w \in Publisher, pass[w].at = "push", PushedBy(w)
  PROVE  \A t \in Targets :
           /\ \A i \in DOMAIN external[t] : i \in DOMAIN external'[t] /\ external'[t][i] >= external[t][i]
           /\ \A i \in DOMAIN external'[t] : external'[t][i] <= pass[w].content
<1>1. pass[w].content \in Nat
      /\ \A t \in Targets : \A i \in DOMAIN external[t] : external[t][i] <= pass[w].content /\ external[t][i] \in Nat
  BY DEF PublishInv, PublishTypeOK, PassRow, NothingNewer
<1> SUFFICES ASSUME NEW t \in Targets
             PROVE  /\ \A i \in DOMAIN external[t] : i \in DOMAIN external'[t] /\ external'[t][i] >= external[t][i]
                    /\ \A i \in DOMAIN external'[t] : external'[t][i] <= pass[w].content
  OBVIOUS
<1>2. \A i \in DOMAIN external[t] : i \in DOMAIN external'[t] /\ external'[t][i] \in {external[t][i], pass[w].content}
  BY DEF PushedBy
<1>3. \A i \in DOMAIN external'[t] : i \notin DOMAIN external[t] => external'[t][i] = pass[w].content
  BY DEF PushedBy
<1>4. \A i \in DOMAIN external[t] : i \in DOMAIN external'[t] /\ external'[t][i] >= external[t][i]
  BY <1>1, <1>2
<1>5. \A i \in DOMAIN external'[t] : external'[t][i] <= pass[w].content
  BY <1>1, <1>2, <1>3
<1> QED
  BY <1>4, <1>5

\* A page that shows enough goes on to.
Backed(t, ref, rev) == PageThere(t, ref) /\ external[t][ref] >= rev
BackedAfter(t, ref, rev) == ref \in DOMAIN external'[t] /\ external'[t][ref] >= rev

\* What was backed stays so while the targets only gain.
LEMMA BackedStays ==
  ASSUME PublishInv, external' \in [Targets -> Seq(Nat)],
         \A t \in Targets : \A i \in DOMAIN external[t] : i \in DOMAIN external'[t] /\ external'[t][i] >= external[t][i]
  PROVE  \A t \in Targets, ref \in Nat, rev \in Nat : Backed(t, ref, rev) => BackedAfter(t, ref, rev)
<1> SUFFICES ASSUME NEW t \in Targets, NEW ref \in Nat, NEW rev \in Nat, Backed(t, ref, rev)
             PROVE  BackedAfter(t, ref, rev)
  OBVIOUS
<1>1. ref \in DOMAIN external[t] /\ ref \in DOMAIN external'[t]
  BY DEF Backed, BackedAfter, PageThere
<1>2. external[t][ref] \in Nat /\ external'[t][ref] \in Nat
  BY <1>1 DEF PublishInv, PublishTypeOK
<1> QED
  BY <1>1, <1>2 DEF Backed, BackedAfter, PageThere

\* What a step of the one publisher leaves true of its pass is enough.
\* The targets only gain, the ledger stands, and the place the pass goes to is in order.
Gains ==
  /\ revision' = revision /\ publications' = publications /\ external' \in [Targets -> Seq(Nat)]
  /\ \A t \in Targets :
       /\ \A i \in DOMAIN external[t] : i \in DOMAIN external'[t] /\ external'[t][i] >= external[t][i]
       /\ \A i \in DOMAIN external'[t] : external'[t][i] <= revision
PassInOrder(q) ==
  /\ q.at # "idle" => q.listed <= revision
  /\ q.at \in {"look", "push", "record", "commit"} =>
       /\ q.listed <= q.content /\ q.content <= revision
       /\ \A t \in Targets : \A i \in DOMAIN external'[t] : external'[t][i] <= q.content
  /\ q.at \in {"look", "push", "record"} => q.target \in Targets
  /\ q.at = "push" => q.ref = 0 \/ q.ref \in DOMAIN external'[q.target]
  /\ q.at = "record" => BackedAfter(q.target, q.ref, q.listed)
  /\ \A i \in DOMAIN q.rows : BackedAfter(q.rows[i].target, q.rows[i].ref, q.rows[i].rev)

LEMMA PassMoves ==
  ASSUME OnePublisher, PublishInv, NEW w \in Publisher, NEW q \in PassRow,
         pass' = [pass EXCEPT ![w] = q], Gains, PassInOrder(q)
  PROVE  PublishInv'
<1> USE DEF Gains, PassInOrder
<1>1. \A v \in Publisher : pass'[v] = q
  BY DEF OnePublisher, PublishInv, PublishTypeOK
<1>2. PublishTypeOK'
  BY DEF PublishInv, PublishTypeOK
<1>3. NothingNewer'
  BY <1>1 DEF NothingNewer
<1>4. (\A v \in Publisher : PassIsBacked(v))'
  BY <1>1 DEF PassIsBacked, Backed, BackedAfter, PageThere
<1>5. \A t \in Targets : publications[t].ref # 0 => BackedAfter(t, publications[t].ref, publications[t].rev)
  BY BackedStays DEF PublishInv, PublishTypeOK, Backed, PageThere
<1> QED
  BY <1>2, <1>3, <1>4, <1>5 DEF PublishInv, Backed, BackedAfter, PageThere

\* Every move of the one publisher keeps the ledger behind its targets.
LEMMA PublishStep == OnePublisher /\ PublishInv /\ [PublishNext]_publishVars => PublishInv'
<1> SUFFICES ASSUME OnePublisher, PublishInv, [PublishNext]_publishVars PROVE PublishInv'
  OBVIOUS
<1> USE PublishAssumption
<1>1. CASE SignRevision
  <2>1. revision' = revision + 1 /\ UNCHANGED <<publications, external, pass>>
    BY <1>1 DEF SignRevision
  <2>2. PublishTypeOK'
    BY <2>1 DEF PublishInv, PublishTypeOK
  <2>3. NothingNewer'
    <3>1. \A t \in Targets : \A i \in DOMAIN external[t] : external[t][i] <= revision + 1
      BY DEF PublishInv, PublishTypeOK, NothingNewer
    <3>2. \A w \in Publisher : /\ pass[w].at # "idle" => pass[w].listed <= revision + 1
                               /\ pass[w].content <= revision => pass[w].content <= revision + 1
      BY DEF PublishInv, PublishTypeOK, NothingNewer, PassRow
    <3> QED
      BY <2>1, <3>1, <3>2 DEF NothingNewer, PublishInv
  <2> QED
    BY <2>1, <2>2, <2>3 DEF PublishInv, PassIsBacked, PageThere
<1>2. CASE GateMoves
  BY <1>2 DEF GateMoves, PublishInv, PublishTypeOK, NothingNewer, PassIsBacked, PageThere
<1>3. CASE UNCHANGED publishVars
  BY <1>3 DEF publishVars, PublishInv, PublishTypeOK, NothingNewer, PassIsBacked, PageThere
<1>4. ASSUME NEW w \in Publisher, Steps(w) \/ PushFails(w) \/ PassDies(w) PROVE PublishInv'
  <2>0. /\ pass[w] \in PassRow /\ revision \in Nat /\ external \in [Targets -> Seq(Nat)]
        /\ \A t \in Targets : \A i \in DOMAIN external[t] : external[t][i] \in Nat /\ external[t][i] <= revision
        /\ \A t \in Targets : \A i \in DOMAIN external[t] : i \in DOMAIN external[t] /\ external[t][i] >= external[t][i]
        /\ \A i \in DOMAIN pass[w].rows : pass[w].rows[i] \in PassEntry
                                        /\ Backed(pass[w].rows[i].target, pass[w].rows[i].ref, pass[w].rows[i].rev)
    <3>1. \A i \in DOMAIN pass[w].rows : pass[w].rows[i] \in PassEntry
      BY DEF PublishInv, PublishTypeOK, PassRow
    <3>2. pass[w] \in PassRow /\ revision \in Nat /\ external \in [Targets -> Seq(Nat)]
      BY DEF PublishInv, PublishTypeOK
    <3>3. \A t \in Targets : \A i \in DOMAIN external[t] : external[t][i] \in Nat
      BY <3>2
    <3>4. \A t \in Targets : \A i \in DOMAIN external[t] : external[t][i] <= revision
      BY DEF PublishInv, NothingNewer
    <3>5. \A i \in DOMAIN pass[w].rows : Backed(pass[w].rows[i].target, pass[w].rows[i].ref, pass[w].rows[i].rev)
      BY DEF PublishInv, PassIsBacked, Backed
    <3>6. \A t \in Targets : \A i \in DOMAIN external[t] : external[t][i] >= external[t][i]
      BY <3>3
    <3> QED
      BY <3>1, <3>2, <3>3, <3>4, <3>5, <3>6
  <2>a. /\ pass[w].at # "idle" => pass[w].listed <= revision
        /\ pass[w].at \in {"look", "push", "record", "commit"} =>
             /\ pass[w].listed <= pass[w].content /\ pass[w].content <= revision
             /\ \A t \in Targets : \A i \in DOMAIN external[t] : external[t][i] <= pass[w].content
        /\ pass[w].at \in {"look", "push", "record"} => pass[w].target \in Targets
    BY DEF PublishInv, NothingNewer, PassIsBacked
  <2>b. external' = external => \A t \in Targets, ref \in Nat, rev \in Nat : Backed(t, ref, rev) => BackedAfter(t, ref, rev)
    BY DEF Backed, BackedAfter, PageThere
  <2>c. revision <= revision /\ Targets = 1..Len(Target) /\ Len(Target) \in Nat \ {0}
    BY <2>0 DEF Targets
  <2>1. CASE ListPages(w)
    <3> DEFINE q == [at |-> "listed", listed |-> revision, content |-> 0, target |-> 0, ref |-> 0, rows |-> << >>]
    <3>1. q \in PassRow /\ q.at = "listed" /\ q.listed = revision /\ q.rows = << >>
      BY <2>0 DEF PassRow, PassSteps
    <3>2. pass' = [pass EXCEPT ![w] = q] /\ UNCHANGED <<revision, publications, external>>
      BY <2>1 DEF ListPages
    <3> HIDE DEF q
    <3>3. Gains
      BY <2>0, <3>2 DEF Gains
    <3>4. PassInOrder(q)
      BY <2>c, <3>1 DEF PassInOrder
    <3> QED
      BY <3>1, <3>2, <3>3, <3>4, PassMoves
  <2>2. CASE ReadRevision(w)
    <3> DEFINE q == [at |-> "look", listed |-> pass[w].listed, content |-> revision, target |-> 1,
                     ref |-> pass[w].ref, rows |-> pass[w].rows]
    <3>1. q \in PassRow /\ q.at = "look" /\ q.listed = pass[w].listed /\ q.content = revision /\ q.target = 1
          /\ q.rows = pass[w].rows
      BY <2>0 DEF PassRow, PassSteps
    <3>2. pass' = [pass EXCEPT ![w] = q] /\ UNCHANGED <<revision, publications, external>> /\ pass[w].at = "listed"
      BY <2>2 DEF ReadRevision
    <3> HIDE DEF q
    <3>3. \A i \in DOMAIN q.rows : BackedAfter(q.rows[i].target, q.rows[i].ref, q.rows[i].rev)
      BY <2>0, <3>1, <3>2 DEF Backed, BackedAfter, PageThere
    <3>4. 1 \in Targets
      BY <2>c
    <3>5. Gains
      BY <2>0, <3>2 DEF Gains
    <3>6. pass[w].listed <= revision
      BY <2>a, <3>2
    <3>7. PassInOrder(q)
      BY <2>0, <2>c, <3>1, <3>2, <3>3, <3>4, <3>6 DEF PassInOrder
    <3> QED
      BY <3>1, <3>2, <3>5, <3>7, PassMoves
  <2>3. ASSUME NEW rf \in Nat, NEW rw \in Seq(PassEntry),
               pass[w].at \in {"look", "push", "record"}, pass' = [pass EXCEPT ![w] = OnNext(w, rf, rw)],
               revision' = revision, publications' = publications, external' \in [Targets -> Seq(Nat)],
               \A t \in Targets : \A i \in DOMAIN external[t] : i \in DOMAIN external'[t] /\ external'[t][i] >= external[t][i],
               \A t \in Targets : \A i \in DOMAIN external'[t] : external'[t][i] <= pass[w].content,
               \A i \in DOMAIN rw : BackedAfter(rw[i].target, rw[i].ref, rw[i].rev)
        PROVE  PublishInv'
    <3> DEFINE q == OnNext(w, rf, rw)
    <3>1. /\ q \in PassRow /\ q.at \in {"look", "commit"} /\ q.listed = pass[w].listed /\ q.content = pass[w].content
          /\ q.rows = rw /\ q.target = pass[w].target + 1 /\ (q.at = "look" => pass[w].target < Len(Target))
      BY <2>0 DEF PassRow, PassSteps, OnNext
    <3> HIDE DEF q
    <3>2. q.at = "look" => q.target \in Targets
      BY <2>3, <2>a, <2>c, <3>1
    <3>3. pass[w].content \in Nat /\ pass[w].content <= revision
      BY <2>0, <2>3, <2>a DEF PassRow
    <3>4. \A t \in Targets : \A i \in DOMAIN external'[t] : external'[t][i] <= revision
      BY <2>3, <3>3, <2>0
    <3>5. pass' = [pass EXCEPT ![w] = q]
      BY <2>3 DEF q
    <3>6. Gains
      BY <2>3, <3>4 DEF Gains
    <3>7. PassInOrder(q)
      BY <2>3, <2>a, <3>1, <3>2, <3>3 DEF PassInOrder
    <3> QED
      BY <3>1, <3>5, <3>6, <3>7, PassMoves
  <2>4. ASSUME NEW at \in {"push", "record"}, NEW rf \in Nat,
               pass[w].at \in {"look", "push"}, pass' = [pass EXCEPT ![w] = AtStep(w, at, rf)],
               revision' = revision, publications' = publications, external' \in [Targets -> Seq(Nat)],
               \A t \in Targets : \A i \in DOMAIN external[t] : i \in DOMAIN external'[t] /\ external'[t][i] >= external[t][i],
               \A t \in Targets : \A i \in DOMAIN external'[t] : external'[t][i] <= pass[w].content,
               at = "push" => rf = 0 \/ rf \in DOMAIN external'[pass[w].target],
               at = "record" => BackedAfter(pass[w].target, rf, pass[w].listed)
        PROVE  PublishInv'
    <3> DEFINE q == AtStep(w, at, rf)
    <3>1. /\ q \in PassRow /\ q.at = at /\ q.listed = pass[w].listed /\ q.content = pass[w].content
          /\ q.rows = pass[w].rows /\ q.target = pass[w].target /\ q.ref = rf
      BY <2>0, <2>4 DEF PassRow, PassSteps, AtStep
    <3>5. pass' = [pass EXCEPT ![w] = q]
      BY <2>4
    <3> HIDE DEF q
    <3>2. q.target \in Targets
      BY <2>4, <2>a, <3>1
    <3>3. pass[w].content \in Nat /\ pass[w].content <= revision
      BY <2>0, <2>4, <2>a DEF PassRow
    <3>4. \A t \in Targets : \A i \in DOMAIN external'[t] : external'[t][i] <= revision
      BY <2>4, <3>3, <2>0
    <3>6. \A i \in DOMAIN q.rows : BackedAfter(q.rows[i].target, q.rows[i].ref, q.rows[i].rev)
      <4> SUFFICES ASSUME NEW i \in DOMAIN pass[w].rows
                   PROVE  BackedAfter(pass[w].rows[i].target, pass[w].rows[i].ref, pass[w].rows[i].rev)
        BY <3>1
      <4>1. pass[w].rows[i] \in PassEntry /\ Backed(pass[w].rows[i].target, pass[w].rows[i].ref, pass[w].rows[i].rev)
        BY <2>0
      <4>2. \A t \in Targets, ref \in Nat, rev \in Nat : Backed(t, ref, rev) => BackedAfter(t, ref, rev)
        BY <2>4, BackedStays
      <4> QED
        BY <4>1, <4>2 DEF PassEntry
    <3>7. Gains
      BY <2>4, <3>4 DEF Gains
    <3>8. PassInOrder(q)
      BY <2>4, <2>a, <3>1, <3>2, <3>3, <3>6 DEF PassInOrder
    <3> QED
      BY <3>1, <3>5, <3>7, <3>8, PassMoves
  <2>d. external' = external =>
          /\ external' \in [Targets -> Seq(Nat)]
          /\ \A t \in Targets : \A i \in DOMAIN external[t] : i \in DOMAIN external'[t] /\ external'[t][i] >= external[t][i]
          /\ pass[w].at \in {"look", "push", "record"} =>
               \A t \in Targets : \A i \in DOMAIN external'[t] : external'[t][i] <= pass[w].content
          /\ \A i \in DOMAIN pass[w].rows : BackedAfter(pass[w].rows[i].target, pass[w].rows[i].ref, pass[w].rows[i].rev)
    BY <2>0, <2>a DEF Backed, BackedAfter, PageThere
  <2>e. pass[w].ref \in Nat /\ pass[w].rows \in Seq(PassEntry) /\ pass[w].target \in Nat
    BY <2>0 DEF PassRow
  <2>5. CASE LookUp(w)
    <3>1. pass[w].at = "look" /\ UNCHANGED <<revision, publications, external>>
      BY <2>5 DEF LookUp
    <3>2. CASE AlreadyLive(w, pass[w].target)
      <4>1. pass' = [pass EXCEPT ![w] = OnNext(w, pass[w].ref, pass[w].rows)]
        BY <2>5, <3>2 DEF LookUp, NextTarget
      <4> QED
        BY <3>1, <4>1, <2>d, <2>e, <2>3
    <3>3. CASE ~ AlreadyLive(w, pass[w].target)
      <4> DEFINE ref == publications[pass[w].target].ref
      <4>1. pass' = [pass EXCEPT ![w] = AtStep(w, "push", ref)]
        BY <2>5, <3>3 DEF LookUp
      <4>2. ref \in Nat /\ (ref = 0 \/ ref \in DOMAIN external'[pass[w].target])
        BY <3>1, <2>a DEF PublishInv, PublishTypeOK, PageThere
      <4> HIDE DEF ref
      <4> QED
        BY <3>1, <4>1, <4>2, <2>d, <2>4
    <3> QED
      BY <3>2, <3>3
  <2>6. ASSUME pass[w].at = "push", external' = Pushed(w, pass[w].target)
        PROVE  /\ external' \in [Targets -> Seq(Nat)]
               /\ \A t \in Targets : \A i \in DOMAIN external[t] : i \in DOMAIN external'[t] /\ external'[t][i] >= external[t][i]
               /\ \A t \in Targets : \A i \in DOMAIN external'[t] : external'[t][i] <= pass[w].content
               /\ \A i \in DOMAIN pass[w].rows : BackedAfter(pass[w].rows[i].target, pass[w].rows[i].ref, pass[w].rows[i].rev)
               /\ RefOf(w, pass[w].target) \in Nat
               /\ BackedAfter(pass[w].target, RefOf(w, pass[w].target), pass[w].listed)
    <3>1. PushedBy(w) /\ RefOf(w, pass[w].target) \in DOMAIN external'[pass[w].target]
          /\ external'[pass[w].target][RefOf(w, pass[w].target)] = pass[w].content
      BY <2>6, PushFacts
    <3>2. /\ external' \in [Targets -> Seq(Nat)]
          /\ \A t \in Targets : \A i \in DOMAIN external[t] : i \in DOMAIN external'[t] /\ external'[t][i] >= external[t][i]
          /\ \A t \in Targets : \A i \in DOMAIN external'[t] : external'[t][i] <= pass[w].content
      BY <2>6, <3>1, PushRaises DEF PushedBy
    <3>3. \A i \in DOMAIN pass[w].rows : BackedAfter(pass[w].rows[i].target, pass[w].rows[i].ref, pass[w].rows[i].rev)
      <4> SUFFICES ASSUME NEW i \in DOMAIN pass[w].rows
                   PROVE  BackedAfter(pass[w].rows[i].target, pass[w].rows[i].ref, pass[w].rows[i].rev)
        OBVIOUS
      <4>1. pass[w].rows[i] \in PassEntry /\ Backed(pass[w].rows[i].target, pass[w].rows[i].ref, pass[w].rows[i].rev)
        BY <2>0
      <4>2. \A t \in Targets, ref \in Nat, rev \in Nat : Backed(t, ref, rev) => BackedAfter(t, ref, rev)
        BY <3>2, BackedStays
      <4> QED
        BY <4>1, <4>2 DEF PassEntry
    <3>4. RefOf(w, pass[w].target) \in Nat
      BY <2>a, <2>6, <3>1, <3>2
    <3>5. pass[w].listed <= pass[w].content /\ pass[w].content \in Nat /\ pass[w].listed \in Nat
      BY <2>0, <2>a, <2>6 DEF PassRow
    <3>6. BackedAfter(pass[w].target, RefOf(w, pass[w].target), pass[w].listed)
      BY <3>1, <3>5 DEF BackedAfter
    <3> QED
      BY <3>2, <3>3, <3>4, <3>6
  <2>7. CASE Push(w)
    <3>1. pass[w].at = "push" /\ external' = Pushed(w, pass[w].target) /\ UNCHANGED <<revision, publications>>
          /\ pass' = [pass EXCEPT ![w] = AtStep(w, "record", RefOf(w, pass[w].target))]
      BY <2>7 DEF Push
    <3> QED
      BY <3>1, <2>6, <2>4
  <2>8. CASE PushFails(w)
    <3>1. pass[w].at = "push" /\ (external' = external \/ external' = Pushed(w, pass[w].target)) /\ UNCHANGED <<revision, publications>>
          /\ pass' = [pass EXCEPT ![w] = OnNext(w, pass[w].ref, pass[w].rows)]
      BY <2>8 DEF PushFails, NextTarget
    <3>2. CASE external' = external
      BY <3>1, <3>2, <2>d, <2>e, <2>3
    <3>3. CASE external' = Pushed(w, pass[w].target)
      BY <3>1, <3>3, <2>6, <2>e, <2>3
    <3> QED
      BY <3>1, <3>2, <3>3
  <2>9. CASE RecordPublication(w)
    <3> DEFINE e == [target |-> pass[w].target, rev |-> pass[w].listed, ref |-> pass[w].ref]
               rw == Append(pass[w].rows, e)
    <3>1. pass[w].at = "record" /\ UNCHANGED <<revision, publications, external>>
          /\ pass' = [pass EXCEPT ![w] = OnNext(w, 0, rw)]
      BY <2>9 DEF RecordPublication, Recorded
    <3>2. e \in PassEntry /\ BackedAfter(e.target, e.ref, e.rev)
      BY <2>0, <2>a, <3>1 DEF PassEntry, PassRow, PublishInv, PassIsBacked, BackedAfter, PageThere
    <3> HIDE DEF e
    <3>3. rw \in Seq(PassEntry) /\ \A i \in DOMAIN rw : rw[i] = e \/ (i \in DOMAIN pass[w].rows /\ rw[i] = pass[w].rows[i])
      BY <2>e, <3>2
    <3> HIDE DEF rw
    <3>4. \A i \in DOMAIN rw : BackedAfter(rw[i].target, rw[i].ref, rw[i].rev)
      BY <3>1, <3>2, <3>3, <2>d
    <3> QED
      BY <3>1, <3>3, <3>4, <2>d, <2>3
  <2>10. CASE CommitPage(w)
    <3>1. pass[w].at = "commit" /\ UNCHANGED <<revision, external>> /\ pass' = [pass EXCEPT ![w] = Idle]
      BY <2>10 DEF CommitPage
    <3>2. \A v \in Publisher : pass'[v] = Idle
      BY <3>1 DEF OnePublisher, PublishInv, PublishTypeOK
    <3>3. \A t \in Targets :
            \/ publications'[t] = publications[t]
            \/ \E i \in DOMAIN pass[w].rows : /\ pass[w].rows[i].target = t
                 /\ publications'[t] = [rev |-> pass[w].rows[i].rev, ref |-> pass[w].rows[i].ref]
      <4> SUFFICES ASSUME NEW t \in Targets, publications'[t] # publications[t]
                   PROVE  \E i \in DOMAIN pass[w].rows : /\ pass[w].rows[i].target = t
                            /\ publications'[t] = [rev |-> pass[w].rows[i].rev, ref |-> pass[w].rows[i].ref]
        OBVIOUS
      <4> DEFINE ofIt == {i \in DOMAIN pass[w].rows : pass[w].rows[i].target = t}
                 last == CHOOSE i \in ofIt : TRUE
      <4>1. ofIt # {} /\ publications'[t] = [rev |-> pass[w].rows[last].rev, ref |-> pass[w].rows[last].ref]
        BY <2>10 DEF CommitPage
      <4>2. last \in ofIt
        BY <4>1
      <4> QED
        BY <4>1, <4>2
    <3>4. publications' \in [Targets -> [rev : Nat, ref : Nat]]
      <4>1. ASSUME NEW t \in Targets PROVE publications'[t] \in [rev : Nat, ref : Nat]
        <5>1. publications[t] \in [rev : Nat, ref : Nat]
          BY DEF PublishInv, PublishTypeOK
        <5>2. \A i \in DOMAIN pass[w].rows : pass[w].rows[i].rev \in Nat /\ pass[w].rows[i].ref \in Nat
          BY <2>0 DEF PassEntry
        <5>3. \A a, b \in Nat : [rev |-> a, ref |-> b] \in [rev : Nat, ref : Nat]
          OBVIOUS
        <5>4. CASE publications'[t] = publications[t]
          BY <5>1, <5>4
        <5>5. ASSUME NEW i \in DOMAIN pass[w].rows,
                     publications'[t] = [rev |-> pass[w].rows[i].rev, ref |-> pass[w].rows[i].ref]
              PROVE  publications'[t] \in [rev : Nat, ref : Nat]
          BY <5>5, <5>2, <5>3
        <5> QED
          BY <3>3, <5>4, <5>5
      <4>2. publications' = [t \in Targets |-> publications'[t]]
        BY <2>10 DEF CommitPage
      <4> QED
        BY <4>1, <4>2
    <3>5. PublishTypeOK'
      <4>1. Idle \in PassRow
        BY DEF Idle, PassRow, PassSteps
      <4> QED
        BY <3>1, <3>4, <4>1 DEF PublishInv, PublishTypeOK
    <3>6. NothingNewer' /\ (\A v \in Publisher : PassIsBacked(v))'
      BY <2>0, <3>1, <3>2 DEF NothingNewer, PassIsBacked, Idle
    <3>7. \A t \in Targets : publications'[t].ref # 0 => BackedAfter(t, publications'[t].ref, publications'[t].rev)
      <4> SUFFICES ASSUME NEW t \in Targets, publications'[t].ref # 0
                   PROVE  BackedAfter(t, publications'[t].ref, publications'[t].rev)
        OBVIOUS
      <4>1. CASE publications'[t] = publications[t]
        BY <3>1, <4>1 DEF PublishInv, BackedAfter, PageThere
      <4>2. CASE \E i \in DOMAIN pass[w].rows : /\ pass[w].rows[i].target = t
                 /\ publications'[t] = [rev |-> pass[w].rows[i].rev, ref |-> pass[w].rows[i].ref]
        BY <3>1, <4>2, <2>d
      <4> QED
        BY <3>3, <4>1, <4>2
    <3> QED
      BY <3>5, <3>6, <3>7 DEF PublishInv, BackedAfter, PageThere
  <2>11. CASE PassDies(w)
    <3>1. UNCHANGED <<revision, publications, external>> /\ pass' = [pass EXCEPT ![w] = Idle]
      BY <2>11 DEF PassDies
    <3>2. Idle \in PassRow /\ Idle.at = "idle" /\ Idle.rows = << >>
      BY DEF Idle, PassRow, PassSteps
    <3>3. Gains
      BY <2>0, <3>1 DEF Gains
    <3>4. PassInOrder(Idle)
      BY <3>2 DEF PassInOrder
    <3> QED
      BY <3>1, <3>2, <3>3, <3>4, PassMoves
  <2> QED
    BY <1>4, <2>1, <2>2, <2>5, <2>7, <2>8, <2>9, <2>10, <2>11 DEF Steps
<1> QED
  BY <1>1, <1>2, <1>3, <1>4 DEF PublishNext

\* With one publishing worker the ledger never claims what its target does not
\* show, whatever pushes are lost and wherever a pass dies (publishing.rs:
\* record_publication; migration 0020).
THEOREM LedgerIsShown == ASSUME OnePublisher PROVE PublishSpec => []LedgerNotAhead
<1>1. PublishInv => LedgerNotAhead
  BY DEF PublishInv, LedgerNotAhead
<1> QED
  BY PublishStart, PublishStep, <1>1, PTL DEF PublishSpec

-----------------------------------------------------------------------------
(* The embedder swap (module Reembed). *)

\* The corpus of a kind that was there when the backfill began has its vectors.
Covered(kind) == \A r \in early \cap rows \cap kind : <<r, New>> \in vector

\* The walks: nothing that was there before is behind them unembedded.
WalksCover ==
  /\ run.at \in {"canonicals", "activate"} => Covered(Memory)
  /\ run.at = "activate" => Covered(Canonical)

\* The inductive invariant of the swap.  What was there when a backfill began is
\* there still or was deleted, and a deleted memory does not come back; a version
\* is registered before anything is written with it.
ReembedInv ==
  /\ version \in [Version -> {"absent", "partial", "active"}] /\ writing \in Version
  /\ rows \subseteq Row /\ early \subseteq rows \cup gone /\ gone \subseteq Memory
  /\ gone \cap rows = {}
  /\ (\A v \in Version : version[v] = "absent") => rows = {} /\ gone = {}
  /\ run # NoRun => version[New] # "absent" /\ run.at \in {"memories", "canonicals", "activate"}
  /\ run \in [at : {"none", "memories", "canonicals", "activate"}, batch : SUBSET Row]
  /\ run.at = "activate" => run # NoRun
  /\ WalksCover

\* Nothing is written yet, and no version is known.
LEMMA ReembedStart == ReembedInit => ReembedInv
  BY DEF ReembedInit, ReembedInv, WalksCover, Covered, NoRun, Version

\* Ensuring a version makes it servable only in a corpus that has none.
LEMMA EnsuredKeeps ==
  ASSUME ReembedInv, NEW v \in Version, version' = Ensured(v), UNCHANGED <<rows, gone, vector, run, early>>,
         writing' \in Version
  PROVE  ReembedInv' /\ DrainedBeforeServing
<1> USE DEF ReembedInv
<1>1. version' \in [Version -> {"absent", "partial", "active"}]
  BY DEF Ensured, Born
<1>2. \A u \in Version : version[u] # "absent" => version'[u] = version[u]
  BY DEF Ensured
<1>3. New \in Version
  BY DEF Version
<1>4. version'[v] # "absent"
  BY DEF Ensured, Born
<1>5. ReembedInv'
  BY <1>1, <1>2, <1>3, <1>4 DEF WalksCover, Covered
<1>6. version[New] # "active" /\ version'[New] = "active" => \A u \in Version : version[u] = "absent"
  BY <1>3 DEF Ensured, Born
<1>7. DrainedBeforeServing
  BY <1>3, <1>6 DEF DrainedBeforeServing
<1> QED
  BY <1>5, <1>7

\* Vectors are only added, and what is new or deleted is no concern of a walk.
LEMMA CorpusKeeps ==
  ASSUME ReembedInv, UNCHANGED <<version, writing, run, early>>,
         vector \subseteq vector', rows' \subseteq Row,
         gone \subseteq gone', gone' \subseteq Memory, gone' \cap rows' = {}, rows \subseteq rows' \cup gone',
         rows' # {} \/ gone' # {} => \E v \in Version : version[v] # "absent",
         \A r \in rows' \ rows : r \notin early
  PROVE  ReembedInv' /\ DrainedBeforeServing
  BY DEF ReembedInv, WalksCover, Covered, DrainedBeforeServing

\* A walk moves on when it has left nothing behind.
LEMMA WalkKeeps ==
  ASSUME ReembedInv, Fetch \/ Upsert \/ WalkDrained \/ Activate \/ BackfillDies
  PROVE  ReembedInv' /\ DrainedBeforeServing
<1> USE DEF ReembedInv
<1>1. New \in Version
  BY DEF Version
<1>2. CASE Fetch
  <2>1. PICK b \in SUBSET Missing(Walked) : run' = [run EXCEPT !.batch = b]
    BY <1>2 DEF Fetch
  <2>2. b \subseteq Row /\ run.at \in {"memories", "canonicals"}
    BY <1>2 DEF Missing, Fetch
  <2>3. run'.at = run.at /\ run' \in [at : {"none", "memories", "canonicals", "activate"}, batch : SUBSET Row] /\ run # NoRun
    BY <2>1, <2>2 DEF NoRun
  <2> QED
    BY <1>2, <2>2, <2>3 DEF Fetch, WalksCover, Covered, DrainedBeforeServing, NoRun
<1>3. CASE Upsert
  <2>1. PICK r \in run.batch : vector' = vector \cup {<<r, New>>} /\ run' = [run EXCEPT !.batch = @ \ {r}]
    BY <1>3 DEF Upsert
  <2>2. run'.at = run.at /\ run' \in [at : {"none", "memories", "canonicals", "activate"}, batch : SUBSET Row]
    BY <2>1
  <2>3. run # NoRun
    BY <2>1 DEF NoRun
  <2> QED
    BY <1>3, <2>1, <2>2, <2>3 DEF Upsert, WalksCover, Covered, DrainedBeforeServing, NoRun
<1>4. CASE WalkDrained
  <2>1. run'.at = IF run.at = "memories" THEN "canonicals" ELSE "activate"
    BY <1>4 DEF WalkDrained, AfterMemories
  <2>2. run' \in [at : {"none", "memories", "canonicals", "activate"}, batch : SUBSET Row] /\ run # NoRun /\ run' # NoRun
    BY <1>4, <2>1 DEF WalkDrained, AfterMemories, NoRun
  <2>3. Covered(Walked)
    BY <1>4 DEF WalkDrained, Missing, Covered
  <2>4. WalksCover'
    BY <1>4, <2>1, <2>3 DEF WalkDrained, WalksCover, Covered, Walked
  <2> QED
    BY <1>4, <2>1, <2>2, <2>4 DEF WalkDrained, DrainedBeforeServing
<1>5. CASE Activate
  <2>1. \A r \in early \cap rows : <<r, New>> \in vector
    BY <1>5 DEF Activate, WalksCover, Covered, Row
  <2>2. DrainedBeforeServing
    BY <1>5, <2>1 DEF Activate, DrainedBeforeServing
  <2>3. ReembedInv'
    BY <1>1, <1>5 DEF Activate, NoRun, WalksCover
  <2> QED
    BY <2>2, <2>3
<1>6. CASE BackfillDies
  BY <1>6 DEF BackfillDies, NoRun, WalksCover, DrainedBeforeServing
<1> QED
  BY <1>2, <1>3, <1>4, <1>5, <1>6

\* Every step keeps the invariant, and serves no version that is not drained.
LEMMA ReembedStep == ReembedInv /\ [ReembedNext]_reembedVars => ReembedInv' /\ DrainedBeforeServing
<1> SUFFICES ASSUME ReembedInv, [ReembedNext]_reembedVars PROVE ReembedInv' /\ DrainedBeforeServing
  OBVIOUS
<1> USE DEF ReembedInv
<1>1. ASSUME NEW v \in Version, StartWorker(v) \/ Serve(v) PROVE ReembedInv' /\ DrainedBeforeServing
  BY <1>1, EnsuredKeeps DEF StartWorker, Serve
<1>2. ASSUME NEW m \in Memory, WriteMemory(m) \/ DeleteMemory(m) PROVE ReembedInv' /\ DrainedBeforeServing
  BY <1>2, CorpusKeeps DEF WriteMemory, DeleteMemory, Row
<1>3. ASSUME NEW c \in Canonical, WriteCanonical(c) PROVE ReembedInv' /\ DrainedBeforeServing
  <2>1. c \notin gone
    BY ReembedAssumption DEF ReembedAssumption
  <2> QED
    BY <1>3, <2>1, CorpusKeeps DEF WriteCanonical, Row
<1>4. CASE BeginRun
  <2>1. DrainedBeforeServing
    BY <1>4 DEF BeginRun, DrainedBeforeServing, Ensured, Born, Version
  <2>2. /\ version' \in [Version -> {"absent", "partial", "active"}] /\ version'[New] # "absent"
        /\ \A u \in Version : version[u] # "absent" => version'[u] # "absent"
    BY <1>4 DEF BeginRun, Ensured, Born, Version
  <2>3. run' = [at |-> "memories", batch |-> {}]
    BY <1>4 DEF BeginRun, NoRun
  <2>4. ReembedInv'
    BY <1>4, <2>2, <2>3 DEF BeginRun, NoRun, WalksCover, Version
  <2> QED
    BY <2>1, <2>4
<1>5. CASE UNCHANGED reembedVars
  BY <1>5 DEF reembedVars, WalksCover, Covered, DrainedBeforeServing
<1> QED
  BY <1>1, <1>2, <1>3, <1>4, <1>5, WalkKeeps DEF ReembedNext, RunStep

-----------------------------------------------------------------------------
(* The health report (module Health). *)

\* The types of what the report reads.
HealthTypeOK ==
  /\ memories \in [Kind -> Nat] /\ conflict \in [{"cross", "intra"} -> Nat]
  /\ backlog \in Nat /\ oldest \in Nat /\ overdue \in Nat
  /\ entity \in [all : Nat, cross : Nat]

\* The corpus starts empty.
LEMMA HealthStart == HealthInit => HealthTypeOK
  BY DEF HealthInit, HealthTypeOK

\* Every step keeps the types.
LEMMA HealthStep == HealthTypeOK /\ [HealthNext]_healthVars => HealthTypeOK'
<1> SUFFICES ASSUME HealthTypeOK, [HealthNext]_healthVars PROVE HealthTypeOK'
  OBVIOUS
<1> USE HealthAssumption DEF HealthAssumption, HealthTypeOK
<1>1. CASE PageWaits \/ Recompose \/ TimePasses \/ SpanEntity
  BY <1>1 DEF PageWaits, Recompose, TimePasses, SpanEntity
<1>2. ASSUME NEW vis \in Reach, Learn(vis) \/ GoStale(vis) PROVE HealthTypeOK'
  <2>1. <<vis, "live">> \in Kind /\ <<vis, "stale">> \in Kind
    BY DEF Kind
  <2>2. memories' \in [Kind -> Nat]
    BY <1>2, <2>1 DEF Learn, GoStale
  <2> QED
    BY <1>2, <2>2 DEF Learn, GoStale
<1>3. ASSUME NEW vis \in Reach, NEW f \in {"live", "stale"}, Reject(vis, f) PROVE HealthTypeOK'
  <2>1. <<vis, f>> \in Kind
    BY DEF Kind
  <2> QED
    BY <1>3, <2>1 DEF Reject
<1>4. ASSUME NEW k \in {"cross", "intra"}, OpenConflict(k) \/ Resolve(k) PROVE HealthTypeOK'
  BY <1>4 DEF OpenConflict, Resolve
<1>5. ASSUME NEW n \in Backlogs, AwaitReview(n) \/ Review(n) PROVE HealthTypeOK'
  <2>1. n \in Nat /\ backlog' \in Nat /\ UNCHANGED <<memories, conflict, entity, overdue>>
    BY <1>5 DEF AwaitReview, Review
  <2>2. oldest' \in {0} \cup Hours \cup {oldest}
    BY <1>5, <2>1 DEF AwaitReview, Review
  <2>3. oldest' \in Nat
    BY <2>2
  <2> QED
    BY <2>1, <2>3
<1>6. ASSUME NEW s \in {0, 1}, MeetEntity(s) PROVE HealthTypeOK'
  BY <1>6 DEF MeetEntity
<1>7. CASE UNCHANGED healthVars
  BY <1>7 DEF healthVars
<1> QED
  BY <1>1, <1>2, <1>3, <1>4, <1>5, <1>6, <1>7 DEF HealthNext

\* Rounded division: a quotient is an integer, grows with what is divided, and a
\* whole of itself is the factor.
LEMMA DivFacts ==
  ASSUME NEW b \in Nat \ {0}, NEW x \in Int
  PROVE  x \div b \in Int /\ b * (x \div b) <= x /\ x < b * ((x \div b) + 1)
  OBVIOUS

LEMMA DivGrows ==
  ASSUME NEW b \in Nat \ {0}, NEW x \in Int, NEW y \in Int, x <= y
  PROVE  x \div b <= y \div b
<1> DEFINE p == x \div b
           q == y \div b
<1>1. p \in Int /\ q \in Int /\ b * p <= x /\ y < b * (q + 1)
  BY DivFacts
<1> HIDE DEF p, q
<1>2. b * p < b * (q + 1)
  BY <1>1
<1>3. ASSUME p >= q + 1 PROVE FALSE
  <2>1. PICK d \in Nat : p = q + 1 + d
    BY <1>1, <1>3
  <2>2. b * p = b * (q + 1) + b * d /\ b * d >= 0
    BY <1>1, <2>1
  <2> QED
    BY <1>1, <1>2, <2>2
<1>4. p <= q
  BY <1>1, <1>3
<1> QED
  BY <1>4 DEF p, q

\* What the formulas add up is there to be added.
LEMMA HealthTotals ==
  HealthTypeOK =>
         /\ Total("org") \in Nat /\ Total("wide") \in Nat /\ Total("team") \in Nat
         /\ Beliefs \in Nat /\ Outdated \in Nat /\ Outdated <= Beliefs
         /\ \A k \in Kind : memories[k] \in Nat
<1> SUFFICES ASSUME HealthTypeOK
             PROVE  /\ Total("org") \in Nat /\ Total("wide") \in Nat /\ Total("team") \in Nat
                    /\ Beliefs \in Nat /\ Outdated \in Nat /\ Outdated <= Beliefs
                    /\ \A k \in Kind : memories[k] \in Nat
  OBVIOUS
<1>1. \A k \in Kind : memories[k] \in Nat
  BY DEF HealthTypeOK
<1>2. \A vis \in Reach, f \in {"live", "stale"} : memories[<<vis, f>>] \in Nat
  BY <1>1 DEF Kind
<1> QED
  BY <1>1, <1>2 DEF Total, Beliefs, Outdated, Reach


\* So it is in the next state.
OutdatedAreBeliefs == Beliefs \in Nat /\ Outdated \in Nat /\ Outdated <= Beliefs
LEMMA HealthTotalsNext == HealthTypeOK' => Beliefs' \in Nat /\ Outdated' \in Nat /\ Outdated' <= Beliefs'
<1>1. HealthTypeOK => OutdatedAreBeliefs
  BY HealthTotals DEF OutdatedAreBeliefs
<1>2. HealthTypeOK' => OutdatedAreBeliefs'
  BY <1>1, PTL
<1> QED
  BY <1>2 DEF OutdatedAreBeliefs

\* Quotients are rounded to integers, and grow with what is divided.
LEMMA RoundDivFacts ==
  ASSUME NEW b \in Nat \ {0}, NEW x \in Int, NEW y \in Int
  PROVE  RoundDiv(x, b) \in Int /\ (x <= y => RoundDiv(x, b) <= RoundDiv(y, b))
<1>1. 2 * x + b \in Int /\ 2 * y + b \in Int /\ 2 * b \in Nat \ {0}
  OBVIOUS
<1> QED
  BY <1>1, DivFacts, DivGrows DEF RoundDiv

\* Clamping keeps the order and stays in its bounds.
LEMMA ClampFacts ==
  ASSUME NEW x \in Int, NEW y \in Int
  PROVE  /\ Clamp100(x) \in 0..100 /\ (x <= y => Clamp100(x) <= Clamp100(y))
         /\ AtMost(x, y) \in {x, y} /\ AtMost(x, y) <= x /\ AtMost(x, y) <= y
         /\ AtLeast(x, y) \in {x, y} /\ AtLeast(x, y) >= x /\ AtLeast(x, y) >= y
  BY DEF Clamp100, AtMost, AtLeast

\* Clamping keeps the order.
LEMMA ClampGrows ==
  ASSUME NEW x \in Int, NEW y \in Int, x <= y
  PROVE  Clamp100(x) \in Int /\ Clamp100(y) \in Int /\ Clamp100(x) <= Clamp100(y)
  BY DEF Clamp100, AtMost, AtLeast

\* The penalty of a wait, in hours.
LEMMA AgePenaltyFacts ==
  ASSUME NEW h \in Nat
  PROVE  /\ AgePenalty(h) \in Int
         /\ h <= 12 => AgePenalty(h) <= 10
         /\ h <= 48 => AgePenalty(h) <= 40
         /\ h > 60 => AgePenalty(h) > 50
<1>1. AgePenalty(h) = (2 * (h * 40) + 48) \div 96 /\ 2 * (h * 40) + 48 \in Int
  BY DEF AgePenalty, RoundDiv
<1> DEFINE p == AgePenalty(h)
<1>2. p \in Int /\ 96 * p <= 80 * h + 48 /\ 80 * h + 48 < 96 * (p + 1)
  BY <1>1, DivFacts
<1> HIDE DEF p
<1> QED
  BY <1>2 DEF p

\* Every pillar is a score between 0 and 100.
LEMMA PillarTypes ==
  ASSUME HealthTypeOK
  PROVE  /\ Currency \in 0..100 /\ Governance \in 0..100
         /\ LiquidityPillar(entity.all, entity.cross) \in 0..100
         /\ ConsistencyPillar(conflict.cross + conflict.intra, conflict.cross) \in 0..100
<1>1. /\ conflict.cross \in Nat /\ conflict.intra \in Nat /\ entity.all \in Nat /\ entity.cross \in Nat
      /\ backlog \in Nat /\ oldest \in Nat /\ Beliefs \in Nat /\ Outdated \in Nat
  BY HealthTotals DEF HealthTypeOK
<1>2. Currency \in 0..100
  <2>1. (Beliefs - Outdated) * 100 \in Int
    BY <1>1
  <2>2. Beliefs > 0 => RoundDiv((Beliefs - Outdated) * 100, Beliefs) \in Int
    BY <1>1, <2>1, RoundDivFacts
  <2> QED
    BY <1>1, <2>2, ClampFacts DEF Currency, CurrencyPillar
<1>3. Governance \in 0..100
  <2>1. AgePenalty(oldest) \in Int /\ AtMost(backlog * 3, 40) \in Int
    BY <1>1, AgePenaltyFacts DEF AtMost
  <2>2. 100 - AgePenalty(oldest) - AtMost(backlog * 3, 40) \in Int
    BY <2>1
  <2> QED
    BY <2>2, ClampFacts DEF Governance, GovernancePillar
<1>4. LiquidityPillar(entity.all, entity.cross) \in 0..100
  <2>1. entity.cross * 100 \in Int
    BY <1>1
  <2>2. entity.all > 0 => RoundDiv(entity.cross * 100, entity.all) \in Int
    BY <1>1, <2>1, RoundDivFacts
  <2> QED
    BY <1>1, <2>2, ClampFacts DEF LiquidityPillar
<1>5. ConsistencyPillar(conflict.cross + conflict.intra, conflict.cross) \in 0..100
  <2>1. AtLeast((conflict.cross + conflict.intra) - conflict.cross, 0) \in Int
    BY <1>1 DEF AtLeast
  <2>2. 100 - (conflict.cross * 30 + AtLeast((conflict.cross + conflict.intra) - conflict.cross, 0) * 10) \in Int
    BY <1>1, <2>1
  <2>3. Clamp100(100 - (conflict.cross * 30 + AtLeast((conflict.cross + conflict.intra) - conflict.cross, 0) * 10)) \in 0..100
    BY <2>2, ClampFacts
  <2> QED
    BY <2>3 DEF ConsistencyPillar
<1> QED
  BY <1>2, <1>3, <1>4, <1>5

\* One open contradiction between teams is seen (health.rs composite_score).
LEMMA ConflictIsSeen == HealthTypeOK => OneConflictIsSeen
<1> SUFFICES ASSUME HealthTypeOK, conflict.cross > 0 PROVE Grade # "Healthy"
  BY DEF OneConflictIsSeen
<1> DEFINE v == RoundDiv(ConsistencyPillar(conflict.cross + conflict.intra, conflict.cross) * 35 + Currency * 25
                   + Governance * 20 + LiquidityPillar(entity.all, entity.cross) * 20, 100)
<1>1. conflict.cross \in Nat
  BY DEF HealthTypeOK
<1>2. v \in Int
  <2>1. \A a, e, g, l \in 0..100 : a * 35 + e * 25 + g * 20 + l * 20 \in Int
    OBVIOUS
  <2>2. ConsistencyPillar(conflict.cross + conflict.intra, conflict.cross) * 35 + Currency * 25
          + Governance * 20 + LiquidityPillar(entity.all, entity.cross) * 20 \in Int
    BY <2>1, PillarTypes
  <2> QED
    BY <2>2, RoundDivFacts
<1> HIDE DEF v
<1>3. Score = Clamp100(AtMost(v, CrossCap(conflict.cross)))
  BY DEF Score, Composite, v
<1>4. Score <= 78 /\ Score \in Int
  BY <1>1, <1>2, <1>3 DEF Clamp100, AtMost, AtLeast, CrossCap
<1> QED
  BY <1>4 DEF Grade, GradeOf

\* When the queue pauses publishing (health.rs publish_block_reason).
LEMMA QueueGoverns == HealthTypeOK => QueueGovernsPublishing
<1> SUFFICES ASSUME HealthTypeOK PROVE QueueGovernsPublishing
  OBVIOUS
<1> DEFINE p == AgePenalty(oldest)
<1>1. backlog \in Nat /\ oldest \in Nat
  BY DEF HealthTypeOK
<1>2. p \in Int /\ (oldest <= 12 => p <= 10) /\ (oldest <= 48 => p <= 40) /\ (oldest > 60 => p > 50)
  BY <1>1, AgePenaltyFacts
<1>3. Governance = Clamp100(100 - p - AtMost(backlog * 3, 40))
  BY DEF Governance, GovernancePillar
<1> HIDE DEF p
<1>4. /\ oldest > 60 => Governance < 50
      /\ Governance < 50 => oldest > 12 /\ (oldest <= 48 => backlog > 3)
  BY <1>1, <1>2, <1>3 DEF Clamp100, AtMost, AtLeast
<1>5. Governance < 50 => Gate # "none"
  BY DEF Gate, BlockReason, MinGovernance
<1>6. Gate = "governance" => Governance < 50
  BY DEF Gate, BlockReason, MinGovernance
<1>7. "governance" \notin Breaches => oldest <= 48
  BY <1>1 DEF Breaches
<1> QED
  BY <1>4, <1>5, <1>6, <1>7 DEF QueueGovernsPublishing

\* A corpus with nothing outdated is entirely current.
LEMMA FullyCurrent ==
  ASSUME NEW n \in Nat PROVE CurrencyPillar(n, 0) = 100
<1>1. CASE n = 0
  BY <1>1 DEF CurrencyPillar
<1>2. CASE n > 0
  <2> DEFINE q == (2 * ((n - 0) * 100) + n) \div (2 * n)
  <2>1. q \in Int /\ 2 * n * q <= 201 * n /\ 201 * n < 2 * n * (q + 1)
    BY <1>2, DivFacts
  <2> HIDE DEF q
  <2>2. q <= 100
    <3>1. ASSUME q >= 101 PROVE FALSE
      <4>1. 2 * n * q >= 2 * n * 101
        BY <1>2, <2>1, <3>1
      <4> QED
        BY <1>2, <2>1, <4>1
    <3> QED
      BY <2>1, <3>1
  <2>3. q >= 100
    <3>1. ASSUME q <= 99 PROVE FALSE
      <4>1. 2 * n * (q + 1) <= 2 * n * 100
        BY <1>2, <2>1, <3>1
      <4> QED
        BY <1>2, <2>1, <4>1
    <3> QED
      BY <2>1, <3>1
  <2>4. q = 100
    BY <2>1, <2>2, <2>3
  <2>5. RoundDiv((n - 0) * 100, n) = q
    BY DEF RoundDiv, q
  <2> QED
    BY <1>2, <2>4, <2>5 DEF CurrencyPillar, Clamp100, AtMost, AtLeast
<1> QED
  BY <1>1, <1>2

\* What went red is on the report (console.rs knowledge_health, alerts.rs).
LEMMA RedIsShown == HealthTypeOK => RedIsExplained
<1> SUFFICES ASSUME HealthTypeOK, NEW sees \in 0..conflict.cross
             PROVE  /\ Breaches \cap {"governance", "propagation"} \subseteq Attention(sees) \cup PageAttention
                    /\ Gate = "currency" /\ memories[<<"wide", "stale">>] = 0 => "staleness" \in Attention(sees)
  BY DEF RedIsExplained
<1>1. Breaches \cap {"governance", "propagation"} \subseteq Attention(sees) \cup PageAttention
  BY DEF Breaches, Attention, PageAttention, HealthTypeOK
<1>2. ASSUME Gate = "currency", memories[<<"wide", "stale">>] = 0 PROVE "staleness" \in Attention(sees)
  <2> DEFINE n == Total("org") + Total("wide")
             stale == memories[<<"org", "stale">>]
  <2>1. n \in Nat /\ stale \in Nat
    BY HealthTotals DEF Kind, Reach
  <2>2. CurrencyPillar(n, stale) < 70
    BY <1>2, <2>1 DEF Gate, BlockReason, MinCurrency
  <2>3. stale # 0
    BY <2>1, <2>2, FullyCurrent
  <2> QED
    BY <2>1, <2>3 DEF Attention
<1> QED
  BY <1>1, <1>2

\* A corpus with more outdated is less current.
LEMMA CurrencyFalls ==
  ASSUME NEW n \in Nat, NEW s \in 0..n, NEW t \in 0..n, s <= t
  PROVE  /\ CurrencyPillar(n, t) <= CurrencyPillar(n, s)
         /\ CurrencyPillar(n, t) \in Int /\ CurrencyPillar(n, s) \in Int
<1>1. CASE n = 0
  BY <1>1 DEF CurrencyPillar
<1>2. CASE n > 0
  <2> DEFINE p == RoundDiv((n - t) * 100, n)
             q == RoundDiv((n - s) * 100, n)
  <2>1. (n - t) * 100 \in Int /\ (n - s) * 100 \in Int /\ (n - t) * 100 <= (n - s) * 100 /\ n \in Nat \ {0}
    BY <1>2
  <2>4. \A a, b \in Int : a <= b => RoundDiv(a, n) \in Int /\ RoundDiv(b, n) \in Int /\ RoundDiv(a, n) <= RoundDiv(b, n)
    BY <2>1, RoundDivFacts
  <2>2. p \in Int /\ q \in Int /\ p <= q
    BY <2>1, <2>4
  <2>3. CurrencyPillar(n, t) = Clamp100(p) /\ CurrencyPillar(n, s) = Clamp100(q)
    BY <1>2 DEF CurrencyPillar
  <2> HIDE DEF p, q
  <2> QED
    BY <2>2, <2>3, ClampGrows
<1> QED
  BY <1>1, <1>2

\* More contradictions, less consistency.
LEMMA ConsistencyFalls ==
  ASSUME NEW c \in Nat, NEW d \in Nat, c <= d, NEW i \in Nat, NEW j \in Nat, i <= j
  PROVE  /\ ConsistencyPillar(d + j, d) <= ConsistencyPillar(c + i, c)
         /\ ConsistencyPillar(d + j, d) \in Int /\ ConsistencyPillar(c + i, c) \in Int
<1> DEFINE p == 100 - (d * 30 + j * 10)
           q == 100 - (c * 30 + i * 10)
<1>1. p \in Int /\ q \in Int /\ p <= q
  OBVIOUS
<1>2. (d + j) - d = j /\ (c + i) - c = i /\ AtLeast(j, 0) = j /\ AtLeast(i, 0) = i
  BY DEF AtLeast
<1>3. ConsistencyPillar(d + j, d) = Clamp100(p) /\ ConsistencyPillar(c + i, c) = Clamp100(q)
  BY <1>2 DEF ConsistencyPillar
<1> HIDE DEF p, q
<1> QED
  BY <1>1, <1>3, ClampGrows

\* A longer queue or an older one, less governance.
LEMMA GovernanceFalls ==
  ASSUME NEW w \in Nat, NEW x \in Nat, w <= x, NEW h \in Nat, NEW k \in Nat, h <= k
  PROVE  /\ GovernancePillar(x, k) <= GovernancePillar(w, h)
         /\ GovernancePillar(x, k) \in Int /\ GovernancePillar(w, h) \in Int
<1> DEFINE p == 100 - AgePenalty(k) - AtMost(x * 3, 40)
           q == 100 - AgePenalty(h) - AtMost(w * 3, 40)
<1>1. AgePenalty(h) \in Int /\ AgePenalty(k) \in Int /\ AgePenalty(h) <= AgePenalty(k)
  BY RoundDivFacts DEF AgePenalty
<1>2. AtMost(w * 3, 40) \in Int /\ AtMost(x * 3, 40) \in Int /\ AtMost(w * 3, 40) <= AtMost(x * 3, 40)
  BY DEF AtMost
<1>3. p \in Int /\ q \in Int /\ p <= q
  BY <1>1, <1>2
<1>4. GovernancePillar(x, k) = Clamp100(p) /\ GovernancePillar(w, h) = Clamp100(q)
  BY DEF GovernancePillar
<1> HIDE DEF p, q
<1> QED
  BY <1>3, <1>4, ClampGrows

\* The composite keeps the order of the pillars.
LEMMA CompositeGrows ==
  ASSUME NEW a \in Int, NEW b \in Int, a <= b, NEW e \in Int, NEW f \in Int, e <= f,
         NEW g \in Int, NEW h \in Int, g <= h, NEW l \in Int, NEW c \in Nat, NEW d \in Nat, d <= c
  PROVE  Composite(a, e, l, g, c) <= Composite(b, f, l, h, d)
<1> DEFINE m == a * 35 + e * 25 + g * 20 + l * 20
           n == b * 35 + f * 25 + h * 20 + l * 20
<1>1. m \in Int /\ n \in Int /\ m <= n
  OBVIOUS
<1>2. RoundDiv(m, 100) \in Int /\ RoundDiv(n, 100) \in Int /\ RoundDiv(m, 100) <= RoundDiv(n, 100)
  BY <1>1, RoundDivFacts
<1> HIDE DEF m, n
<1>3. CrossCap(c) \in Int /\ CrossCap(d) \in Int /\ CrossCap(c) <= CrossCap(d)
  BY DEF CrossCap
<1>4. /\ AtMost(RoundDiv(m, 100), CrossCap(c)) \in Int /\ AtMost(RoundDiv(n, 100), CrossCap(d)) \in Int
      /\ AtMost(RoundDiv(m, 100), CrossCap(c)) <= AtMost(RoundDiv(n, 100), CrossCap(d))
  BY <1>2, <1>3 DEF AtMost
<1>5. Clamp100(AtMost(RoundDiv(m, 100), CrossCap(c))) <= Clamp100(AtMost(RoundDiv(n, 100), CrossCap(d)))
  BY <1>4, ClampFacts
<1> QED
  BY <1>5 DEF Composite, m, n

\* Of two corpora of the same beliefs and entities the one with more burdens
\* scores no better (health.rs composite_score).
LEMMA WorseScoresWorse == HealthTypeOK /\ HealthTypeOK' => WorseNeverScoresBetter
<1> SUFFICES ASSUME HealthTypeOK, HealthTypeOK', Beliefs' = Beliefs, UNCHANGED entity
             PROVE  /\ (\A i \in 1..5 : Burden'[i] >= Burden[i]) => Score' <= Score
                    /\ (\A i \in 1..5 : Burden'[i] <= Burden[i]) => Score' >= Score
  BY DEF WorseNeverScoresBetter
<1> DEFINE n == Beliefs
           s == Outdated
           t == Outdated'
           c == conflict.cross
           d == conflict'.cross
           i == conflict.intra
           j == conflict'.intra
           w == backlog
           x == backlog'
           h == oldest
           k == oldest'
           l == LiquidityPillar(entity.all, entity.cross)
<1>1. /\ n \in Nat /\ s \in 0..n /\ t \in 0..n /\ c \in Nat /\ d \in Nat /\ i \in Nat /\ j \in Nat
      /\ w \in Nat /\ x \in Nat /\ h \in Nat /\ k \in Nat /\ l \in Int
  <2>1. n \in Nat /\ s \in 0..n
    BY HealthTotals
  <2>2. Beliefs' \in Nat /\ t \in 0..Beliefs'
    <3>1. Beliefs' \in Nat /\ Outdated' \in Nat /\ Outdated' <= Beliefs'
      BY HealthTotalsNext
    <3> QED
      BY <3>1
  <2> QED
    BY <2>1, <2>2, PillarTypes DEF HealthTypeOK
<1>2. Score = Composite(ConsistencyPillar(c + i, c), CurrencyPillar(n, s), l, GovernancePillar(w, h), c)
  BY DEF Score, Currency, Governance
<1>3. Score' = Composite(ConsistencyPillar(d + j, d), CurrencyPillar(n, t), l, GovernancePillar(x, k), d)
  BY DEF Score, Currency, Governance
<1>4. Burden = <<s, c, i, w, h>> /\ Burden' = <<t, d, j, x, k>>
  BY DEF Burden
<1> HIDE DEF n, s, t, c, d, i, j, w, x, h, k, l
<1>5. ASSUME \A b \in 1..5 : Burden'[b] >= Burden[b] PROVE Score' <= Score
  <2>1. t >= s /\ d >= c /\ j >= i /\ x >= w /\ k >= h
    BY <1>4, <1>5
  <2>2. /\ CurrencyPillar(n, t) <= CurrencyPillar(n, s)
        /\ CurrencyPillar(n, t) \in Int /\ CurrencyPillar(n, s) \in Int
        /\ ConsistencyPillar(d + j, d) <= ConsistencyPillar(c + i, c)
        /\ ConsistencyPillar(d + j, d) \in Int /\ ConsistencyPillar(c + i, c) \in Int
        /\ GovernancePillar(x, k) <= GovernancePillar(w, h)
        /\ GovernancePillar(x, k) \in Int /\ GovernancePillar(w, h) \in Int
    BY <1>1, <2>1, CurrencyFalls, ConsistencyFalls, GovernanceFalls
  <2> QED
    BY <1>1, <1>2, <1>3, <2>1, <2>2, CompositeGrows
<1>6. ASSUME \A b \in 1..5 : Burden'[b] <= Burden[b] PROVE Score' >= Score
  <2>1. s >= t /\ c >= d /\ i >= j /\ w >= x /\ h >= k
    BY <1>4, <1>6
  <2>2. /\ CurrencyPillar(n, s) <= CurrencyPillar(n, t)
        /\ CurrencyPillar(n, t) \in Int /\ CurrencyPillar(n, s) \in Int
        /\ ConsistencyPillar(c + i, c) <= ConsistencyPillar(d + j, d)
        /\ ConsistencyPillar(d + j, d) \in Int /\ ConsistencyPillar(c + i, c) \in Int
        /\ GovernancePillar(w, h) <= GovernancePillar(x, k)
        /\ GovernancePillar(x, k) \in Int /\ GovernancePillar(w, h) \in Int
    BY <1>1, <2>1, CurrencyFalls, ConsistencyFalls, GovernanceFalls
  <2>3. Composite(ConsistencyPillar(c + i, c), CurrencyPillar(n, s), l, GovernancePillar(w, h), c)
          <= Composite(ConsistencyPillar(d + j, d), CurrencyPillar(n, t), l, GovernancePillar(x, k), d)
    BY <1>1, <2>1, <2>2, CompositeGrows
  <2>4. \A e, cc, g \in Int : Composite(e, cc, l, g, c) \in Int /\ Composite(e, cc, l, g, d) \in Int
    <3> SUFFICES ASSUME NEW e \in Int, NEW cc \in Int, NEW g \in Int, NEW z \in Nat
                 PROVE  Composite(e, cc, l, g, z) \in Int
      BY <1>1
    <3>1. e * 35 + cc * 25 + g * 20 + l * 20 \in Int
      BY <1>1
    <3>2. RoundDiv(e * 35 + cc * 25 + g * 20 + l * 20, 100) \in Int /\ CrossCap(z) \in Int
      BY <3>1, RoundDivFacts DEF CrossCap
    <3>3. AtMost(RoundDiv(e * 35 + cc * 25 + g * 20 + l * 20, 100), CrossCap(z)) \in Int
      BY <3>2 DEF AtMost
    <3> QED
      BY <3>3, ClampFacts DEF Composite
  <2> QED
    BY <1>2, <1>3, <2>2, <2>3, <2>4
<1> QED
  BY <1>5, <1>6

-----------------------------------------------------------------------------
\* A worker that has left its loop has no job in hand, and a server that does not
\* listen yet, has drained, or was never there, no request.
DrainInv ==
  /\ inflight \in Nat /\ requests \in Nat
  /\ worker \notin {"tick"} => inflight = 0
  /\ server \in {"starting", "closed", "none"} => requests = 0
  /\ NothingTorn

\* Leaving waits for the batch, closing for the requests.
LEMMA DrainStep == DrainInv /\ [ServiceNext]_serviceVars => DrainInv'
<1> SUFFICES ASSUME DrainInv, [ServiceNext]_serviceVars PROVE DrainInv'
  OBVIOUS
<1> USE DEF DrainInv, NothingTorn, backoffs, net, fate, Go
<1>1. CASE ShutdownSignal \/ Arrive \/ Respond \/ Drained \/ Listen
  BY <1>1 DEF ShutdownSignal, Arrive, Respond, Drained, Listen
<1>2. CASE Startup \/ LoopTop \/ FinishJob
  BY <1>2, ServiceAssumption DEF ServiceAssumption, Startup, LoopTop, FinishJob
<1>3. CASE Worked \/ NoWork \/ TickFails \/ SleepOrShutdown
  BY <1>3 DEF Worked, NoWork, TickFails, SleepOrShutdown
<1>4. CASE ComposeSweep \/ RunDue \/ SweepEnds
  BY <1>4 DEF ComposeSweep, RunDue, SweepEnds
<1>5. CASE Exit
  BY <1>5 DEF Exit, Ends, Joined
<1>6. CASE Signal \/ ServeFails \/ Kill
  BY <1>6 DEF Signal, ServeFails, Kill, Ends
<1>7. CASE UNCHANGED serviceVars
  BY <1>7 DEF serviceVars
<1> QED
  BY <1>1, <1>2, <1>3, <1>4, <1>5, <1>6, <1>7 DEF ServiceNext

\* A process that ends as it was meant to, wherever the signal found it, has served
\* every request and settled every job; only one that was killed, or whose server
\* failed, had something in hand (main.rs serve, worker_loop).
THEOREM ExitsAreClean == ServiceSpec => []NothingTorn
<1>1. ServiceInit => DrainInv
  BY DEF ServiceInit, DrainInv, NothingTorn
<1>2. DrainInv => NothingTorn
  BY DEF DrainInv
<1> QED
  BY <1>1, <1>2, DrainStep, PTL DEF ServiceSpec

-----------------------------------------------------------------------------
(* The backlog of knowledge gaps (module Demand). *)

\* The types of the ledger, the gaps and the scans.
Evidence == [asks : Nat, projects : SUBSET Project]
Minted == UNION {[D -> Evidence] : D \in SUBSET Question}
DemandTypeOK ==
  /\ ledger \in [Question -> Evidence]
  /\ gap \in [Question -> [status : {"none", "open", "answered", "dismissed"}, evidence : Evidence]]
  /\ scan \in [Scanner -> [at : {"idle", "closing", "minting"}, left : SUBSET Question,
                           closed : SUBSET Question, minted : Minted]]

\* What a scan is about to write it holds alone, and it may still write it.
HoldsIts(s) ==
  /\ scan[s].at # "minting" => DOMAIN scan[s].minted = {}
  /\ \A q \in scan[s].closed : gap[q].status = "open"
  /\ \A q \in DOMAIN scan[s].minted : gap[q].status \in {"none", "open"}
  /\ \A r \in Scanner \ {s} : Written(s) \cap Written(r) = {}

\* The inductive invariant of the backlog.
DemandInv == DemandTypeOK /\ \A s \in Scanner : HoldsIts(s)

\* What a scan has minted is evidence about questions.
LEMMA MintedFacts ==
  /\ \A m \in Minted : DOMAIN m \subseteq Question /\ \A q \in DOMAIN m : m[q] \in Evidence
  /\ [q \in {} |-> NoMiss] \in Minted
  /\ ledger \in [Question -> Evidence] =>
       \A D \in SUBSET Question : [q \in D |-> ledger[q]] \in Minted
<1>1. [q \in {} |-> NoMiss] \in [{} -> Evidence]
  OBVIOUS
<1> QED
  BY <1>1 DEF Minted

\* A scan at rest, or one that just began, holds nothing.
LEMMA OffHoldsNothing ==
  /\ Off.at = "idle" /\ Off.left = {} /\ Off.closed = {} /\ DOMAIN Off.minted = {} /\ Off.minted \in Minted
  /\ Off \in [at : {"idle", "closing", "minting"}, left : SUBSET Question,
              closed : SUBSET Question, minted : Minted]
  BY MintedFacts DEF Off

\* Nothing has been asked yet.
LEMMA DemandStart == DemandInit => DemandInv
<1> SUFFICES ASSUME DemandInit PROVE DemandInv
  OBVIOUS
<1> USE DEF DemandInit
<1>1. DemandTypeOK
  BY OffHoldsNothing DEF DemandTypeOK, Evidence, NoMiss
<1>2. ASSUME NEW s \in Scanner PROVE HoldsIts(s)
  BY OffHoldsNothing DEF HoldsIts, Written
<1> QED
  BY <1>1, <1>2 DEF DemandInv

\* A scan takes up a row that no other has written, and is otherwise as it was:
\* what is held stays held by one.
LEMMA ScanMoves ==
  ASSUME DemandInv, UNCHANGED <<gap, ledger>>, NEW s \in Scanner, NEW scanRow,
         scanRow \in [at : {"idle", "closing", "minting"}, left : SUBSET Question,
                  closed : SUBSET Question, minted : Minted],
         scan' = [scan EXCEPT ![s] = scanRow],
         scanRow.at # "minting" => DOMAIN scanRow.minted = {},
         \A q \in scanRow.closed : gap[q].status = "open",
         \A q \in DOMAIN scanRow.minted : gap[q].status \in {"none", "open"},
         \A q \in scanRow.closed \cup DOMAIN scanRow.minted : q \in Written(s) \/ ~ LockedByOther(s, q)
  PROVE  DemandInv'
<1> USE DEF DemandInv, DemandTypeOK
<1>1. DemandTypeOK'
  OBVIOUS
<1>2. \A r \in Scanner : scan'[r] = IF r = s THEN scanRow ELSE scan[r]
  OBVIOUS
<1>3. \A r \in Scanner \ {s} : (scanRow.closed \cup DOMAIN scanRow.minted) \cap Written(r) = {}
  BY DEF LockedByOther, HoldsIts
<1>4. \A r \in Scanner : Written(r)' = IF r = s THEN scanRow.closed \cup DOMAIN scanRow.minted ELSE Written(r)
  BY <1>2 DEF Written
<1>5. ASSUME NEW r \in Scanner PROVE HoldsIts(r)'
  <2>1. CASE r = s
    BY <1>2, <1>3, <1>4, <2>1 DEF HoldsIts
  <2>2. CASE r # s
    <3>1. HoldsIts(r)
      OBVIOUS
    <3>2. \A t \in Scanner \ {r} : Written(r)' \cap Written(t)' = {}
      BY <1>3, <1>4, <2>2, <3>1 DEF HoldsIts
    <3> QED
      BY <1>2, <2>2, <3>1, <3>2 DEF HoldsIts
  <2> QED
    BY <2>1, <2>2
<1> QED
  BY <1>1, <1>5

\* A commit writes what the scan alone holds.
LEMMA CommitStep ==
  ASSUME DemandInv, NEW s \in Scanner, Commit(s)
  PROVE  DemandInv' /\ TerminalStays
<1> USE DEF DemandInv, DemandTypeOK
<1> DEFINE NewGap(q) == IF q \in scan[s].closed THEN [gap[q] EXCEPT !.status = "answered"]
                     ELSE IF q \in DOMAIN scan[s].minted
                     THEN [status |-> IF gap[q].status = "none" THEN "open" ELSE gap[q].status,
                           evidence |-> scan[s].minted[q]]
                     ELSE gap[q]
<1>1. gap' = [q \in Question |-> NewGap(q)] /\ scan' = [scan EXCEPT ![s] = Off] /\ ledger' = ledger
  BY DEF Commit
<1>2. HoldsIts(s) /\ scan[s].minted \in Minted
  OBVIOUS
<1>3. \A q \in Question : NewGap(q) \in [status : {"none", "open", "answered", "dismissed"}, evidence : Evidence]
  BY <1>2, MintedFacts
<1>4. DemandTypeOK'
  BY <1>1, <1>3, OffHoldsNothing
<1>5. TerminalStays
  BY <1>1, <1>2 DEF TerminalStays, HoldsIts
<1>6. \A q \in Question : q \notin Written(s) => gap'[q] = gap[q]
  BY <1>1 DEF Written
<1>7. ASSUME NEW r \in Scanner PROVE HoldsIts(r)'
  <2>1. \A t \in Scanner : Written(t)' = IF t = s THEN {} ELSE Written(t)
    BY <1>1, OffHoldsNothing DEF Written
  <2>2. CASE r = s
    BY <1>1, <2>1, <2>2, OffHoldsNothing DEF HoldsIts
  <2>3. CASE r # s
    <3>1. HoldsIts(r) /\ scan'[r] = scan[r] /\ Written(r) \cap Written(s) = {}
      BY <1>1, <2>3 DEF HoldsIts
    <3>2. \A q \in Written(r) : q \in Question /\ gap'[q] = gap[q]
      BY <1>6, <3>1, MintedFacts DEF Written
    <3> QED
      BY <2>1, <2>3, <3>1, <3>2 DEF HoldsIts, Written
  <2> QED
    BY <2>2, <2>3
<1> QED
  BY <1>4, <1>5, <1>7

\* Every step of a scan keeps the invariant and touches no settled gap.
LEMMA ScanStepKeeps ==
  ASSUME DemandInv, NEW s \in Scanner, ScanStep(s) \/ Abort(s)
  PROVE  DemandInv' /\ TerminalStays
<1> USE DEF DemandInv, DemandTypeOK
<1> DEFINE ScanRow == [at : {"idle", "closing", "minting"}, left : SUBSET Question,
                   closed : SUBSET Question, minted : Minted]
<1>1. scan[s] \in ScanRow /\ HoldsIts(s)
  OBVIOUS
<1>2. UNCHANGED gap => TerminalStays
  BY DEF TerminalStays
<1>3. ASSUME ScanBegins(s) PROVE DemandInv' /\ TerminalStays
  <2>1. PICK T \in OpenGaps : scan' = [scan EXCEPT ![s] = [Off EXCEPT !.at = "closing", !.left = T]]
    BY <1>3 DEF ScanBegins
  <2>2. T \subseteq Question
    BY DEF OpenGaps, Top, Open
  <2> DEFINE scanRow == [Off EXCEPT !.at = "closing", !.left = T]
  <2>3. scanRow \in ScanRow /\ scanRow.at = "closing" /\ scanRow.closed = {} /\ DOMAIN scanRow.minted = {}
    BY <2>2, OffHoldsNothing
  <2>4. DemandInv'
    BY <1>3, <2>1, <2>3, ScanMoves DEF ScanBegins
  <2> QED
    BY <1>2, <1>3, <2>4 DEF ScanBegins
<1>4. ASSUME ReadMisses(s) PROVE DemandInv' /\ TerminalStays
  <2>1. PICK T \in Top(Misses, ledger, MissLimit) : scan' = [scan EXCEPT ![s] = [at |-> "minting", left |-> T, closed |-> @.closed, minted |-> @.minted]]
    BY <1>4 DEF ReadMisses
  <2>2. T \subseteq Question
    BY DEF Top, Misses
  <2> DEFINE scanRow == [at |-> "minting", left |-> T, closed |-> scan[s].closed, minted |-> scan[s].minted]
  <2>3. scanRow \in ScanRow
    BY <1>1, <2>2
  <2>5. scan' = [scan EXCEPT ![s] = scanRow]
    BY <2>1
  <2>4. DemandInv'
    BY <1>1, <1>4, <2>3, <2>5, ScanMoves DEF ReadMisses, HoldsIts, Written
  <2> QED
    BY <1>2, <1>4, <2>4 DEF ReadMisses
<1>5. ASSUME NEW q \in Question, Close(s, q) PROVE DemandInv' /\ TerminalStays
  <2> DEFINE taken == IF Answerable(q) /\ q \in Open THEN scan[s].closed \cup {q} ELSE scan[s].closed
             scanRow == [at |-> scan[s].at, left |-> scan[s].left \ {q}, closed |-> taken, minted |-> scan[s].minted]
  <2>1. scanRow \in ScanRow
    BY <1>1
  <2>5. scan' = [scan EXCEPT ![s] = scanRow]
    BY <1>5 DEF Close
  <2>2. \A x \in taken : gap[x].status = "open" /\ (x \in Written(s) \/ ~ LockedByOther(s, x))
    BY <1>1, <1>5 DEF Close, Open, HoldsIts, Written
  <2>6. /\ scanRow.at # "minting" => DOMAIN scanRow.minted = {}
        /\ \A x \in scanRow.closed : gap[x].status = "open"
        /\ \A x \in DOMAIN scanRow.minted : gap[x].status \in {"none", "open"}
        /\ \A x \in scanRow.closed \cup DOMAIN scanRow.minted : x \in Written(s) \/ ~ LockedByOther(s, x)
    BY <1>1, <2>2 DEF HoldsIts, Written
  <2>7. UNCHANGED <<gap, ledger>>
    BY <1>5 DEF Close
  <2> HIDE DEF scanRow
  <2>3. DemandInv'
    BY <2>1, <2>5, <2>6, <2>7, ScanMoves
  <2> QED
    BY <1>2, <1>5, <2>3 DEF Close
<1>6. ASSUME NEW q \in Question, Mint(s, q) PROVE DemandInv' /\ TerminalStays
  <2> DEFINE keep == Answerable(q) \/ ~ Upserts(s, q)
             D == DOMAIN scan[s].minted \cup {q}
             taken == IF keep THEN scan[s].minted ELSE [x \in D |-> ledger[x]]
             scanRow == [at |-> scan[s].at, left |-> scan[s].left \ {q}, closed |-> scan[s].closed, minted |-> taken]
  <2>1. D \in SUBSET Question
    BY <1>1, MintedFacts
  <2>2. taken \in Minted /\ DOMAIN taken \subseteq D
    BY <1>1, <2>1, MintedFacts
  <2>3. scanRow \in ScanRow
    BY <1>1, <2>2
  <2>7. scan' = [scan EXCEPT ![s] = scanRow]
    BY <1>6 DEF Mint
  <2>4. \A x \in DOMAIN taken : gap[x].status \in {"none", "open"} /\ (x \in Written(s) \/ ~ LockedByOther(s, x))
    BY <1>1, <1>6, <2>2 DEF Mint, Upserts, HoldsIts, Written
  <2>6. /\ scanRow.at # "minting" => DOMAIN scanRow.minted = {}
        /\ \A x \in scanRow.closed : gap[x].status = "open"
        /\ \A x \in DOMAIN scanRow.minted : gap[x].status \in {"none", "open"}
        /\ \A x \in scanRow.closed \cup DOMAIN scanRow.minted : x \in Written(s) \/ ~ LockedByOther(s, x)
    BY <1>1, <1>6, <2>4 DEF HoldsIts, Written, Mint
  <2>8. UNCHANGED <<gap, ledger>>
    BY <1>6 DEF Mint
  <2> HIDE DEF scanRow
  <2>5. DemandInv'
    BY <2>3, <2>6, <2>7, <2>8, ScanMoves
  <2> QED
    BY <1>2, <1>6, <2>5 DEF Mint
<1>7. ASSUME Abort(s) PROVE DemandInv' /\ TerminalStays
  BY <1>2, <1>7, OffHoldsNothing, ScanMoves DEF Abort
<1> QED
  BY <1>3, <1>4, <1>5, <1>6, <1>7, CommitStep DEF ScanStep

\* A maintainer dismisses a gap no scan has its hands on.
LEMMA DismissStep ==
  ASSUME DemandInv, NEW q \in Question, Dismiss(q)
  PROVE  DemandInv' /\ TerminalStays
<1> USE DEF DemandInv, DemandTypeOK
<1>1. /\ gap' = [gap EXCEPT ![q].status = "dismissed"] /\ UNCHANGED <<scan, ledger>>
      /\ gap[q].status = "open" /\ \A s \in Scanner : q \notin Written(s)
  BY DEF Dismiss, Locked
<1>2. DemandTypeOK' /\ TerminalStays /\ \A x \in Question \ {q} : gap'[x] = gap[x]
  BY <1>1 DEF TerminalStays
<1>3. ASSUME NEW s \in Scanner PROVE HoldsIts(s)'
  <2>1. \A r \in Scanner : Written(r)' = Written(r)
    BY <1>1 DEF Written
  <2>2. \A x \in Written(s) : x \in Question /\ x # q
    BY <1>1, MintedFacts DEF Written
  <2> QED
    BY <1>1, <1>2, <2>1, <2>2 DEF HoldsIts, Written
<1> QED
  BY <1>2, <1>3

\* Every step keeps the invariant and touches no settled gap.
LEMMA DemandStep == DemandInv /\ [DemandNext]_demandVars => DemandInv' /\ TerminalStays
<1> SUFFICES ASSUME DemandInv, [DemandNext]_demandVars PROVE DemandInv' /\ TerminalStays
  OBVIOUS
<1>1. ASSUME UNCHANGED <<gap, scan>>, ledger' \in [Question -> Evidence] PROVE DemandInv' /\ TerminalStays
  BY <1>1 DEF DemandInv, DemandTypeOK, HoldsIts, Written, TerminalStays
<1>2. ASSUME NEW q \in Question, CorpusMoves(q) PROVE DemandInv' /\ TerminalStays
  BY <1>1, <1>2 DEF CorpusMoves, Corpus, DemandInv, DemandTypeOK
<1>3. ASSUME NEW q \in Question, Age(q) PROVE DemandInv' /\ TerminalStays
  BY <1>1, <1>3 DEF Age, DemandInv, DemandTypeOK, Evidence, NoMiss
<1>4. ASSUME NEW q \in Question, NEW p \in Project, NEW surface \in {"http", "mcp"}, Ask(q, p, surface)
      PROVE  DemandInv' /\ TerminalStays
  <2>1. ledger[q] \in Evidence
    BY DEF DemandInv, DemandTypeOK
  <2>2. [asks |-> ledger[q].asks + 1, projects |-> ledger[q].projects \cup {p}] \in Evidence
    BY <2>1 DEF Evidence
  <2>3. ledger' \in [Question -> Evidence]
    BY <1>4, <2>2 DEF Ask, Missed, DemandInv, DemandTypeOK, Evidence
  <2> QED
    BY <1>1, <1>4, <2>3 DEF Ask
<1>5. CASE UNCHANGED demandVars
  BY <1>1, <1>5 DEF demandVars, DemandInv, DemandTypeOK
<1> QED
  BY <1>2, <1>3, <1>4, <1>5, ScanStepKeeps, DismissStep DEF DemandNext

\* A gap that was answered or dismissed stays as it is, whatever scans were under
\* way (retrieval_events.rs: the guarded closes and the upsert's WHERE).
THEOREM SettledGapsStay == DemandSpec => [][TerminalStays]_demandVars
<1>1. DemandInv /\ [DemandNext]_demandVars => [TerminalStays]_demandVars
  BY DemandStep
<1> QED
  BY <1>1, DemandStart, DemandStep, PTL DEF DemandSpec

-----------------------------------------------------------------------------
(* The gate of the evaluation (module Evaluation), and all the parts at once.  *)

\* A run that is its own baseline loses nothing to it but the thesis, and a run
\* without one of the baseline's strata fails (gates.rs: regression_failures).
LEMMA GateHolds == report \in Reports => GateIsSteady
<1> SUFFICES ASSUME report \in Reports PROVE GateIsSteady
  OBVIOUS
<1> DEFINE base == FromReport(report)
<1>1. /\ base.setup = report.setup /\ base.overall = report.overall /\ base.temporal = report.temporal
      /\ base.refusal = report.refusal /\ DOMAIN base.per = {t \in Stratum : report.per[t] # NoScore}
      /\ \A s \in DOMAIN base.per : base.per[s] = report.per[s]
  BY DEF FromReport
<1>2. /\ report.temporal \in Int /\ report.refusal \in Int /\ report.overall \in Int
      /\ \A s \in Stratum : report.per[s] \in Int
  <2>1. Grades \union {NoScore} \subseteq Int
    BY EvaluationAssumption DEF NoScore
  <2>2. /\ report.temporal \in Grades /\ report.refusal \in Grades /\ report.overall \in Grades \union {NoScore}
        /\ report.per \in [Stratum -> Grades \union {NoScore}]
    BY DEF Reports
  <2>3. report.temporal \in Grades \union {NoScore} /\ report.refusal \in Grades \union {NoScore}
    BY <2>2
  <2>4. \A s \in Stratum : report.per[s] \in Grades \union {NoScore}
    BY <2>2
  <2> HIDE DEF NoScore
  <2> QED
    BY <2>1, <2>2, <2>3, <2>4
<1>3. \A a \in Int : /\ ~ (a < a - Delta)
                     /\ ~ (a < a - OverallDelta)
  BY EvaluationAssumption
<1> HIDE DEF base
<1>4. report.overall # NoScore => RegressionFailures(report, base) \subseteq {"thesis"}
  BY <1>1, <1>2, <1>3 DEF RegressionFailures
<1>5. ASSUME NEW s \in Stratum, report.per[s] # NoScore
      PROVE  RegressionFailures([report EXCEPT !.per[s] = NoScore], base) # {}
  <2> DEFINE r == [report EXCEPT !.per[s] = NoScore]
  <2>1. r.setup = report.setup /\ r.per[s] = NoScore
    BY DEF Reports
  <2>2. s \in DOMAIN base.per
    BY <1>1, <1>5
  <2> HIDE DEF r
  <2>3. s \in RegressionFailures(r, base)
    BY <2>1, <2>2, <1>1 DEF RegressionFailures
  <2> QED
    BY <2>3 DEF r
<1> QED
  BY <1>4, <1>5 DEF GateIsSteady, base

\* A part at rest stays as it is; what is at work keeps its invariant.
PartsInv ==
  /\ ScheduleInv /\ ReembedInv /\ HealthTypeOK /\ DrainInv
  /\ IF part = "calls" THEN HerdInv ELSE \A c \in Caller : ~ call[c].probe
  /\ part = "demand" => DemandInv
  /\ part = "evaluation" => report \in Reports
  /\ EmbedInv
  /\ OnePublisher => PublishInv

\* The parts begin in order, at work or at rest.
LEMMA PartsStart == MachineryInit => PartsInv
<1> SUFFICES ASSUME MachineryInit PROVE PartsInv
  OBVIOUS
<1> USE DEF MachineryInit
<1>1. ScheduleInv
  BY DEF SweepsInit, ScheduleInv, EnabledIsScheduled
<1>2. ReembedInv /\ HealthTypeOK /\ PublishInv
  BY ReembedStart, HealthStart, PublishStart
<1>3. DrainInv
  BY ServiceAssumption DEF ServiceInit, ServiceRests, DrainInv, NothingTorn
<1>4. part = "calls" => HerdInv
  BY HerdStart
<1>5. part # "calls" => \A c \in Caller : ~ call[c].probe
  BY DEF EmbeddingInit, GatewayRests, NoCall
<1>6. part = "demand" => DemandInv
  BY DemandStart
<1>7. part = "evaluation" => report \in Reports
  BY DEF EvaluationInit
<1>8. EmbedInv
  <2>1. (texts = << >> \/ texts \in UNION {[1..n -> Text] : n \in 0..MaxTexts}) /\ out = << >>
    BY DEF GatewayRests, EmbeddingInit, GatewayInit
  <2> QED
    BY <2>1, EmbedStart
<1> QED
  BY <1>1, <1>2, <1>3, <1>4, <1>5, <1>6, <1>7, <1>8 DEF PartsInv

\* Every step of the machinery is one of one part.
LEMMA PartsStep ==
  PartsInv /\ [MachineryNext]_machineryVars =>
    PartsInv' /\ DrainedBeforeServing /\ IdIsStable /\ WorseNeverScoresBetter /\ TerminalStays
<1> SUFFICES ASSUME PartsInv, [MachineryNext]_machineryVars
             PROVE  PartsInv' /\ DrainedBeforeServing /\ IdIsStable /\ WorseNeverScoresBetter /\ TerminalStays
  OBVIOUS
<1> USE DEF PartsInv
<1>1. part' = part
  BY DEF MachineryNext, machineryVars
<1>2. [SweepsNext]_sweepVars /\ [PublishNext]_publishVars /\ [ReembedNext]_reembedVars /\ [HealthNext]_healthVars
      /\ [ServiceNext]_serviceVars /\ [GatewayNext]_gatewayVars
  BY DEF MachineryNext, machineryVars, GatewayNext, operatorVars
<1>3. ScheduleInv' /\ IdIsStable
  BY <1>2, ScheduleStep, IdsAreKept
<1>4. ReembedInv' /\ DrainedBeforeServing
  BY <1>2, ReembedStep
<1>5. HealthTypeOK' /\ WorseNeverScoresBetter
  BY <1>2, HealthStep, WorseScoresWorse
<1>6. DrainInv'
  BY <1>2, DrainStep
<1>7. IF part = "calls" THEN HerdInv' ELSE \A c \in Caller : ~ call'[c].probe
  <2>1. CASE part = "calls"
    BY <2>1, <1>2, HerdStep
  <2>2. CASE part # "calls"
    <3>1. UNCHANGED call
      BY <2>2 DEF MachineryNext, machineryVars, gatewayVars, EmbedNext, EmbedChunk, EmbedFails
    <3> QED
      BY <2>2, <3>1
  <2> QED
    BY <2>1, <2>2
<1>8. (part = "demand" => DemandInv') /\ TerminalStays
  <2>1. CASE part = "demand"
    <3>1. [DemandNext]_demandVars
      BY DEF MachineryNext, machineryVars
    <3> QED
      BY <2>1, <3>1, DemandStep
  <2>2. CASE part # "demand"
    <3>1. UNCHANGED demandVars
      BY <2>2 DEF MachineryNext, machineryVars
    <3> QED
      BY <2>2, <3>1 DEF demandVars, TerminalStays
  <2> QED
    BY <2>1, <2>2
<1>9. part = "evaluation" => report' \in Reports
  BY DEF MachineryNext, machineryVars, evaluationVars
<1>10. OnePublisher => PublishInv'
  BY <1>2, PublishStep
<1>11. EmbedInv'
  <2>1. EmbedNext \/ EmbedFails \/ UNCHANGED batch
    BY DEF MachineryNext, machineryVars, gatewayVars, batch, CallNext, Check, Send, Reply, Drop, Tick, Turn
  <2> QED
    BY <2>1, EmbedStep
<1> QED
  BY <1>1, <1>3, <1>4, <1>5, <1>6, <1>7, <1>8, <1>9, <1>10, <1>11

\* No step of the machinery serves a half-populated version, gives a known
\* divergence a new id, scores a loss as a gain, or touches a settled gap
\* (reembed.rs, divergence.rs, health.rs, retrieval_events.rs).
THEOREM MovesStaySound == MachinerySpec => MovesAreSound
<1>1. PartsInv /\ [MachineryNext]_machineryVars
        => PartsInv' /\ [DrainedBeforeServing /\ IdIsStable /\ WorseNeverScoresBetter /\ TerminalStays]_machineryVars
  BY PartsStep
<1> QED
  BY PartsStart, <1>1, PTL DEF MachinerySpec, MovesAreSound

\* What the operator's books say of the parts is so, for one publishing worker
\* (admin.rs, publishing.rs, health.rs, main.rs and gates.rs).
THEOREM BooksStayTrue == ASSUME OnePublisher PROVE MachinerySpec => []BooksAreTrue
<1>1. PartsInv => BooksAreTrue
  <2> SUFFICES ASSUME PartsInv PROVE BooksAreTrue
    OBVIOUS
  <2>1. EnabledIsScheduled /\ NothingTorn
    BY DEF PartsInv, ScheduleInv, DrainInv
  <2>2. OneConflictIsSeen /\ QueueGovernsPublishing /\ RedIsExplained
    BY ConflictIsSeen, QueueGoverns, RedIsShown DEF PartsInv
  <2>3. LedgerNotAhead
    BY DEF PartsInv, PublishInv, LedgerNotAhead
  <2>4. part = "evaluation" => GateIsSteady
    BY GateHolds DEF PartsInv
  <2>5. EachItsOwn
    BY DEF PartsInv, EmbedInv
  <2> QED
    BY <2>1, <2>2, <2>3, <2>4, <2>5 DEF BooksAreTrue
<1>2. PartsInv /\ [MachineryNext]_machineryVars => PartsInv'
  BY PartsStep
<1> QED
  BY PartsStart, <1>1, <1>2, PTL DEF MachinerySpec
=============================================================================
