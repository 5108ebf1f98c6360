-------------------------------- MODULE Gateway --------------------------------
(***************************************************************************)
(* Calls to one model provider: retries under a circuit breaker that all    *)
(* callers share, and an embedding request split into chunks whose answers  *)
(* come in any order.  Time advances in ticks, Cooldown of them to a        *)
(* breaker's cooldown.                                                      *)
(***************************************************************************)
EXTENDS Naturals, Sequences, FiniteSets

CONSTANTS Caller,
          Threshold, MaxAttempts, Cooldown,
          MaxDrop,        \* bound on calls dropped before their outcome is recorded
          Text, Blank, MaxTexts,  \* texts to embed, one of them blank, and how many at most
          MaxBatch        \* texts the vendor takes in one request

ASSUME GatewayAssumption == Threshold \in Nat \ {0} /\ Cooldown \in Nat /\ MaxBatch \in Nat \ {0}

VARIABLES
  upstream,   \* what the provider answers to a request: "up", "down" or "rejecting"
  breaker,    \* BreakerState; cooling and probing count ticks, probing is Cooldown when a probe is stale
  call,       \* per caller; age counts the ticks since a probe was admitted
  drops,
  texts, out  \* one embed_batch: its inputs and the vectors so far, << >> after a failure

gatewayVars == <<upstream, breaker, call, drops, texts, out>>

None == Cooldown + 1       \* no probe
NoCall == [at |-> "idle", attempt |-> 0, seen |-> "up", probe |-> FALSE, age |-> 0]

GatewayInit ==
  /\ upstream = "up" /\ drops = 0
  /\ breaker = [failures |-> 0, open |-> FALSE, cooling |-> 0, probing |-> None]
  /\ call = [c \in Caller |-> NoCall]
  /\ texts \in UNION {[1..n -> Text] : n \in 0..MaxTexts} /\ out = << >>

batch == <<texts, out>>

-----------------------------------------------------------------------------
\* The breaker.

AnyAfterCooldown == TRUE        \* Mutant: an expired cooldown releases everyone.
NoTakeover == breaker.probing = None   \* Mutant: an abandoned probe keeps its token.
ProbeFree == breaker.probing \in {None, Cooldown}

\* A closed circuit admits; an open one whose cooldown is over admits a probe.
Check(c) ==
  /\ call[c] = NoCall
  /\ \/ ~ breaker.open /\ UNCHANGED breaker
     \/ /\ breaker.open /\ breaker.cooling = 0 /\ ProbeFree
        /\ breaker' = [failures |-> 0, open |-> TRUE, cooling |-> 0, probing |-> 0]
  /\ call' = [call EXCEPT ![c] = [at |-> "admitted", attempt |-> 1, seen |-> "up",
                                   probe |-> breaker.open, age |-> 0]]
  /\ UNCHANGED <<upstream, drops, batch>>

RecordSuccess == breaker' = [failures |-> 0, open |-> FALSE, cooling |-> 0, probing |-> None]

\* The first failure while a probe is out counts as the probe's.
RecordFailure ==
  LET n == breaker.failures + 1
      opens == breaker.probing # None \/ n >= Threshold IN
  breaker' = [failures |-> IF n < Threshold THEN n ELSE Threshold, open |-> breaker.open \/ opens,
              cooling |-> IF opens THEN Cooldown ELSE breaker.cooling, probing |-> None]

-----------------------------------------------------------------------------
\* One call: an attempt leaves, meets the upstream of that moment, and its reply
\* is looked at later.

Attempt(c, at, n, seen) ==
  call' = [call EXCEPT ![c] = [at |-> at, attempt |-> n, seen |-> seen, probe |-> @.probe, age |-> @.age]]

Send(c) ==
  /\ call[c].at = "admitted" /\ Attempt(c, "sent", call[c].attempt, upstream)
  /\ UNCHANGED <<upstream, breaker, drops, batch>>

Finished(c) == call' = [call EXCEPT ![c] = NoCall]
LastAttempt(c) == call[c].attempt >= MaxAttempts

\* Transport errors, 429 and 5xx are tried again after a pause; other refusals
\* are permanent.
Reply(c) ==
  /\ call[c].at = "sent"
  /\ \/ call[c].seen = "up" /\ RecordSuccess /\ Finished(c)
     \/ call[c].seen = "rejecting" /\ RecordFailure /\ Finished(c)
     \/ call[c].seen = "down" /\ LastAttempt(c) /\ RecordFailure /\ Finished(c)
     \/ /\ call[c].seen = "down" /\ ~ LastAttempt(c) /\ UNCHANGED breaker
        /\ Attempt(c, "admitted", call[c].attempt + 1, "down")
  /\ UNCHANGED <<upstream, drops, batch>>

\* The caller's future is dropped, or the body cannot be read: no outcome.
Drop(c) ==
  /\ call[c] # NoCall /\ drops < MaxDrop /\ drops' = drops + 1
  /\ Finished(c) /\ UNCHANGED <<upstream, breaker, batch>>

Older(n) == IF n < Cooldown THEN n + 1 ELSE n
Tick ==
  /\ breaker' = [failures |-> breaker.failures, open |-> breaker.open, probing |-> Older(breaker.probing),
                 cooling |-> IF breaker.cooling = 0 THEN 0 ELSE breaker.cooling - 1]
  /\ call' = [c \in Caller |-> IF call[c].probe THEN [call[c] EXCEPT !.age = Older(@)] ELSE call[c]]
  /\ UNCHANGED <<upstream, drops, batch>>

Turn(u) == upstream' = u /\ UNCHANGED <<breaker, call, drops, batch>>

-----------------------------------------------------------------------------
\* embed_batch.  A vector is written as the text it was made of.

Chunk ==
  LET left == Len(texts) - Len(out)
  IN  [i \in 1..(IF left < MaxBatch THEN left ELSE MaxBatch) |-> texts[Len(out) + i]]

\* Blank texts are left out of the request.
Before(chunk, i) == Cardinality({j \in 1..i : chunk[j] # Blank})
LiveTexts(chunk) ==
  [k \in 1..Before(chunk, Len(chunk)) |->
     chunk[CHOOSE i \in DOMAIN chunk : chunk[i] # Blank /\ Before(chunk, i) = k]]

\* The rows of a response, in the order the vendor happened to list them.
Responses(live) ==
  {[i \in 1..Len(live) |-> [index |-> order[i], embedding |-> live[order[i]]]] :
     order \in {f \in [1..Len(live) -> 1..Len(live)] : \A i \in 1..Len(live) : \E j \in 1..Len(live) : f[j] = i}}

InOrder(rows) == [i \in DOMAIN rows |-> rows[CHOOSE j \in DOMAIN rows : rows[j].index = i].embedding]

\* They get their zero vector back.
Refill(chunk, vectors) == [i \in DOMAIN chunk |-> IF chunk[i] = Blank THEN Blank ELSE vectors[Before(chunk, i)]]

EmbedChunk(rows) ==
  /\ out' = out \o Refill(Chunk, InOrder(rows))
  /\ UNCHANGED <<upstream, breaker, call, drops, texts>>
EmbedNext == Len(out) < Len(texts) /\ \E rows \in Responses(LiveTexts(Chunk)) : EmbedChunk(rows)
\* A failed request, or one with too few rows, fails the batch.
EmbedFails == out # << >> /\ out' = << >> /\ UNCHANGED <<upstream, breaker, call, drops, texts>>

-----------------------------------------------------------------------------
CallNext ==
  \/ \E c \in Caller : Check(c) \/ Send(c) \/ Reply(c) \/ Drop(c)
  \/ Tick \/ \E u \in {"up", "down", "rejecting"} : Turn(u)

\* Jobs keep calling, requests time out, and clocks advance.
GatewayFairness ==
  /\ WF_gatewayVars(Tick)
  /\ \A c \in Caller : WF_gatewayVars(Send(c)) /\ WF_gatewayVars(Reply(c)) /\ WF_gatewayVars(Check(c))

GatewayNext == CallNext \/ EmbedNext \/ EmbedFails
GatewaySpec == GatewayInit /\ [][GatewayNext]_gatewayVars /\ GatewayFairness

-----------------------------------------------------------------------------
\* Whatever late answers of calls from before the outage do to the circuit, no two
\* probes admitted within one cooldown are out together (resilience.rs check:
\* "A cooldown expiry admits exactly ONE call through half-open").
HerdHeld == Cardinality({c \in Caller : call[c].probe /\ call[c].age < Cooldown}) <= 1

\* Once the provider stays up the circuit closes for good, also when the calls
\* that carried the probe's token never reported (BreakerState: "cannot wedge the
\* breaker half-open forever").
CircuitRecovers == <>[](upstream = "up") => <>[](~ breaker.open)

\* Every vector is the one of the text at its place, whatever blanks, chunks and
\* response orders there were.
EachItsOwn == \A i \in DOMAIN out : out[i] = texts[i]
=============================================================================
