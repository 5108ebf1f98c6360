------------------------------ MODULE MachineryMC ------------------------------
(***************************************************************************)
(* What keeps running without anybody asking, in one run: the scheduled      *)
(* sweeps, publishing, the embedding backfill, the health report, the calls  *)
(* to the model provider, an embedding request, the knowledge gaps, and the  *)
(* process around them.  The parts share no state, so a behaviour is one of  *)
(* them at work and the others at rest; a part at rest is in a state that    *)
(* none of its fair actions can leave.                                       *)
(***************************************************************************)
EXTENDS Sweeps, Publishing, Reembed, Health, Service, Gateway, Demand, Evaluation

CONSTANTS m1, e1, q1

VARIABLE part
machineryVars == <<sweepVars, publishVars, reembedVars, healthVars, serviceVars,
                   gatewayVars, demandVars, evaluationVars, part>>

MCTarget == <<"wiki", "git">>
MCWikis == {"wiki"}
MCHours == {0, 12, 13, 48, 61}

GatewayRests ==
  /\ upstream = "up" /\ drops = 0 /\ texts = << >> /\ out = << >>
  /\ breaker = [failures |-> 0, open |-> FALSE, cooling |-> 0, probing |-> None]
  /\ call = [c \in Caller |-> [NoCall EXCEPT !.at = "away"]]
EmbeddingInit ==
  /\ upstream = "up" /\ drops = 0 /\ out = << >>
  /\ texts \in UNION {[1..n -> Text] : n \in 0..MaxTexts}
  /\ breaker = [failures |-> 0, open |-> FALSE, cooling |-> 0, probing |-> None]
  /\ call = [c \in Caller |-> [NoCall EXCEPT !.at = "away"]]
ServiceRests ==
  /\ signalled = FALSE /\ flag = FALSE /\ server = "none" /\ requests = 0 /\ torn = {}
  /\ worker = "gone" /\ inflight = 0 /\ org = 0 /\ failures = 0 /\ idle = 0 /\ sweeps = 0
  /\ process = "exited"
DemandRests ==
  /\ corpus = [q \in Question |-> "nothing"] /\ forgotten = 0 /\ aborted = 0
  /\ ledger = [q \in Question |-> NoMiss]
  /\ gap = [q \in Question |-> [status |-> "none", evidence |-> NoMiss]]
  /\ scan = [s \in Scanner |-> [Off EXCEPT !.at = "away"]]

MachineryInit ==
  /\ part \in {"sweeps", "publishing", "reembed", "health", "service", "calls", "embedding", "demand", "evaluation"}
  /\ SweepsInit /\ PublishInit /\ ReembedInit /\ HealthInit
  /\ IF part = "service" THEN ServiceInit ELSE ServiceRests
  /\ CASE part = "calls" -> GatewayInit /\ texts = << >>
       [] part = "embedding" -> EmbeddingInit
       [] OTHER -> GatewayRests
  /\ IF part = "demand" THEN DemandInit ELSE DemandRests
  /\ IF part = "evaluation" THEN EvaluationInit ELSE report = << >>

\* The second memory is from before the new version and is never deleted; what
\* the corpus can say changes for one question, the other keeps what it began with.
OneIsOld == gone' \subseteq {m1} /\ (version[New] # "absent" => rows' \ rows \subseteq {m1, e1})
OneQuestionMoves == \A q \in Question \ {q1} : corpus'[q] = corpus[q]

operatorVars == <<sweepVars, publishVars, reembedVars, healthVars>>

\* Pages wait, and beliefs without a team go stale, while nothing else is amiss.
OneTrouble ==
  \/ overdue' = 0 /\ Total("wide")' = 0
  \/ entity'.all = 0 /\ conflict'.intra = 0 /\ backlog' = 0

MachineryNext ==
  \/ part = "sweeps" /\ SweepsNext
     /\ UNCHANGED <<publishVars, reembedVars, healthVars, serviceVars, gatewayVars, demandVars, evaluationVars, part>>
  \/ part = "publishing" /\ PublishNext
     /\ UNCHANGED <<sweepVars, reembedVars, healthVars, serviceVars, gatewayVars, demandVars, evaluationVars, part>>
  \/ part = "reembed" /\ ReembedNext /\ OneIsOld
     /\ UNCHANGED <<sweepVars, publishVars, healthVars, serviceVars, gatewayVars, demandVars, evaluationVars, part>>
  \/ part = "health" /\ HealthNext /\ OneTrouble
     /\ UNCHANGED <<sweepVars, publishVars, reembedVars, serviceVars, gatewayVars, demandVars, evaluationVars, part>>
  \/ part = "service" /\ ServiceNext /\ UNCHANGED <<operatorVars, gatewayVars, demandVars, evaluationVars, part>>
  \/ part = "calls" /\ CallNext /\ UNCHANGED <<operatorVars, serviceVars, demandVars, evaluationVars, part>>
  \/ part = "embedding" /\ (EmbedNext \/ EmbedFails)
     /\ UNCHANGED <<operatorVars, serviceVars, demandVars, evaluationVars, part>>
  \/ part = "demand" /\ DemandNext /\ OneQuestionMoves
     /\ UNCHANGED <<operatorVars, serviceVars, gatewayVars, evaluationVars, part>>

MachineryFairness ==
  /\ SweepsFairness /\ PublishFairness /\ ServiceFairness /\ DemandFairness
  /\ GatewayFairness

MachinerySpec == MachineryInit /\ [][MachineryNext]_machineryVars /\ MachineryFairness

-----------------------------------------------------------------------------
\* What the operator's screens and ledgers say of each part is so: an enabled sweep
\* is on the schedule, the publication ledger claims no more than the targets show,
\* the report shows every open contradiction and what went red, the gate every
\* stuck queue, a process that ended as it was meant to had nothing in hand, a run
\* passes the evaluation gate it set, and a text's vector is its own.
BooksAreTrue ==
  /\ EnabledIsScheduled
  /\ LedgerNotAhead
  /\ OneConflictIsSeen /\ QueueGovernsPublishing /\ RedIsExplained
  /\ NothingTorn
  /\ part = "evaluation" => GateIsSteady
  /\ EachItsOwn

\* What no step of the machinery does: serve a half-populated version, give a
\* known divergence a new id, score a loss as a gain, touch a settled gap.
MovesAreSound ==
  [][DrainedBeforeServing /\ IdIsStable /\ WorseNeverScoresBetter /\ TerminalStays]_machineryVars
=============================================================================
