-------------------------------- MODULE Health --------------------------------
(***************************************************************************)
(* What one organisation's corpus scores, and who acts on it: the report    *)
(* and the hourly alerts read the organisation's true totals, the publish   *)
(* breaker reads what its own transaction can see.                          *)
(***************************************************************************)
EXTENDS Integers

CONSTANTS MaxCorpus,    \* bound on memories of each visibility and freshness
          MaxConflict,  \* bound on open contradictions of each kind
          MaxBacklog,   \* bound on promotions awaiting review
          Backlogs,     \* how many arrive at once
          Hours,        \* the waits told apart
          DirtyHours,   \* the waits of a page told apart
          MaxEntity     \* bound on canonical entities

ASSUME HealthAssumption ==
  /\ MaxCorpus \in Nat /\ MaxConflict \in Nat /\ MaxBacklog \in Nat /\ MaxEntity \in Nat
  /\ Backlogs \subseteq Nat /\ Hours \subseteq Nat /\ DirtyHours \subseteq Nat

VARIABLES
  memories,   \* memories that are not rejected, by reach and freshness
  conflict,   \* open contradictions, between two teams ("cross") or within one ("intra")
  backlog, oldest,   \* promotions awaiting review, and hours the oldest has waited
  entity,     \* canonical entities, and those that span two teams
  overdue     \* hours the longest waiting dirty page has waited

healthVars == <<memories, conflict, backlog, oldest, entity, overdue>>

\* "org": for everybody, "wide": for everybody and of no team, "team": its team's.
Reach == {"org", "wide", "team"}
Kind == Reach \X {"live", "stale"}
HealthInit ==
  /\ memories = [k \in Kind |-> 0]
  /\ conflict = [k \in {"cross", "intra"} |-> 0]
  /\ backlog = 0 /\ oldest = 0
  /\ entity = [all |-> 0, cross |-> 0] /\ overdue = 0

-----------------------------------------------------------------------------
\* core/health.rs.

AtLeast(a, b) == IF a < b THEN b ELSE a
AtMost(a, b) == IF a > b THEN b ELSE a
Clamp100(v) == AtMost(AtLeast(v, 0), 100)
RoundDiv(a, b) == (2 * a + b) \div (2 * b)

ConsistencyPillar(open, cross) == Clamp100(100 - (cross * 30 + AtLeast(open - cross, 0) * 10))
CurrencyPillar(total, stale) == IF total <= 0 THEN 100 ELSE Clamp100(RoundDiv((total - stale) * 100, total))
LiquidityPillar(canon, cross) == IF canon <= 0 THEN 0 ELSE Clamp100(RoundDiv(cross * 100, canon))

AgePenalty(hours) == RoundDiv(hours * 40, 48)
GovernancePillar(waiting, hours) == Clamp100(100 - AgePenalty(hours) - AtMost(waiting * 3, 40))

CrossCap(cross) == 100 - cross * 22
Composite(consistency, currency, liquidity, governance, cross) ==
  Clamp100(AtMost(RoundDiv(consistency * 35 + currency * 25 + governance * 20 + liquidity * 20, 100), CrossCap(cross)))

GradeOf(score) == IF score >= 85 THEN "Healthy" ELSE IF score >= 70 THEN "Watch"
                  ELSE IF score >= 50 THEN "At risk" ELSE "Critical"

MinCurrency == 70
MinGovernance == 50
BlockReason(currency, governance) ==
  IF currency < MinCurrency THEN "currency" ELSE IF governance < MinGovernance THEN "governance" ELSE "none"

-----------------------------------------------------------------------------
\* compute_health_core: the organisation's true totals.

Total(vis) == memories[<<vis, "live">>] + memories[<<vis, "stale">>]
Beliefs == Total("org") + Total("wide") + Total("team")
Outdated == memories[<<"org", "stale">>] + memories[<<"wide", "stale">>] + memories[<<"team", "stale">>]
Currency == CurrencyPillar(Beliefs, Outdated)
Governance == GovernancePillar(backlog, oldest)
Score == Composite(ConsistencyPillar(conflict.cross + conflict.intra, conflict.cross), Currency,
                   LiquidityPillar(entity.all, entity.cross), Governance, conflict.cross)
Grade == GradeOf(Score)

\* alert_sweep.
Breaches == {k \in {"governance", "currency", "contradiction", "propagation"} :
               CASE k = "governance" -> oldest > 48
                 [] k = "currency" -> Currency < MinCurrency
                 [] k = "propagation" -> overdue > 24
                 [] OTHER -> conflict.cross > 0}

\* knowledge_health: what the report asks a reader to attend to, who sees both sides
\* of so many contradictions between teams.  Stale beliefs are listed with their
\* team's name, those everybody may read.
Attention(sees) == {k \in {"contradiction", "staleness", "governance"} :
                      CASE k = "contradiction" -> sees > 0
                        [] k = "staleness" -> memories[<<"org", "stale">>] > 0
                        [] OTHER -> oldest > 48}
PageAttention == IF overdue > 1 THEN {"propagation"} ELSE {}

\* publish_gate: the same formulas in a transaction without teams, which row
\* security shows the organisation-wide memories only; promotions it sees all.
Gate == BlockReason(CurrencyPillar(Total("org") + Total("wide"), memories[<<"org", "stale">>] + memories[<<"wide", "stale">>]),
                    Governance)

-----------------------------------------------------------------------------
\* What moves the numbers.

Learn(vis) ==
  /\ memories[<<vis, "live">>] < MaxCorpus /\ memories' = [memories EXCEPT ![<<vis, "live">>] = @ + 1]
  /\ UNCHANGED <<conflict, backlog, oldest, entity, overdue>>

\* A memory is deprecated or outlives its validity.
GoStale(vis) ==
  /\ memories[<<vis, "live">>] > 0 /\ memories[<<vis, "stale">>] < MaxCorpus
  /\ memories' = [memories EXCEPT ![<<vis, "live">>] = @ - 1, ![<<vis, "stale">>] = @ + 1]
  /\ UNCHANGED <<conflict, backlog, oldest, entity, overdue>>

\* A rejected memory leaves the count.
Reject(vis, f) ==
  /\ memories[<<vis, f>>] > 0 /\ memories' = [memories EXCEPT ![<<vis, f>>] = @ - 1]
  /\ UNCHANGED <<conflict, backlog, oldest, entity, overdue>>

OpenConflict(k) ==
  /\ conflict[k] < MaxConflict /\ conflict' = [conflict EXCEPT ![k] = @ + 1]
  /\ UNCHANGED <<memories, backlog, oldest, entity, overdue>>
Resolve(k) ==
  /\ conflict[k] > 0 /\ conflict' = [conflict EXCEPT ![k] = @ - 1]
  /\ UNCHANGED <<memories, backlog, oldest, entity, overdue>>

AwaitReview(n) ==
  /\ backlog + n <= MaxBacklog /\ backlog' = backlog + n
  /\ UNCHANGED <<memories, conflict, oldest, entity, overdue>>
\* Some are decided, the oldest among them or not.
Review(n) ==
  /\ n <= backlog /\ backlog' = backlog - n
  /\ oldest' \in IF backlog' = 0 THEN {0} ELSE {h \in Hours : h <= oldest} \union {oldest}
  /\ UNCHANGED <<memories, conflict, entity, overdue>>
TimePasses ==
  /\ backlog > 0 /\ oldest' \in {h \in Hours : h > oldest}
  /\ \A h \in Hours : h > oldest => oldest' <= h
  /\ UNCHANGED <<memories, conflict, backlog, entity, overdue>>

MeetEntity(spans) ==
  /\ entity.all < MaxEntity
  /\ entity' = [all |-> entity.all + 1, cross |-> entity.cross + spans]
  /\ UNCHANGED <<memories, conflict, backlog, oldest, overdue>>
SpanEntity ==
  /\ entity.cross < entity.all /\ entity' = [entity EXCEPT !.cross = @ + 1]
  /\ UNCHANGED <<memories, conflict, backlog, oldest, overdue>>

PageWaits ==
  /\ overdue' \in {h \in DirtyHours : h > overdue}
  /\ UNCHANGED <<memories, conflict, backlog, oldest, entity>>
Recompose == overdue > 0 /\ overdue' = 0 /\ UNCHANGED <<memories, conflict, backlog, oldest, entity>>

HealthNext ==
  \/ PageWaits \/ Recompose
  \/ \E vis \in Reach : Learn(vis) \/ GoStale(vis) \/ \E f \in {"live", "stale"} : Reject(vis, f)
  \/ \E k \in {"cross", "intra"} : OpenConflict(k) \/ Resolve(k)
  \/ \E n \in Backlogs : AwaitReview(n) \/ Review(n)
  \/ TimePasses \/ SpanEntity \/ \E s \in {0, 1} : MeetEntity(s)

HealthSpec == HealthInit /\ [][HealthNext]_healthVars

-----------------------------------------------------------------------------
\* One open contradiction between teams takes the organisation out of Healthy,
\* however large and fresh the rest is (health.rs composite_score: "a plain
\* weighted average lets a large healthy corpus dilute" it).
OneConflictIsSeen == conflict.cross > 0 => Grade # "Healthy"

\* A queue nobody works pauses publishing once its oldest item has waited two and
\* a half days, no depth of fresh work alone ever does, and publishing is paused
\* without an alert of the queue only when more than three items wait (alerts.rs:
\* "nothing went red" must not be possible).
QueueGovernsPublishing ==
  /\ oldest > 60 => Gate # "none"
  /\ Gate = "governance" => oldest > 12
  /\ Gate = "governance" /\ "governance" \notin Breaches => backlog > 3

\* What went red is on the report whoever opens it: the queue's and the pages'
\* alarms, and the stale beliefs that pause publishing, unless those are of no team
\* (alerts.rs mirrors "the Knowledge Health attention item's" thresholds).
RedIsExplained ==
  \A sees \in 0..conflict.cross :
    /\ Breaches \intersect {"governance", "propagation"} \subseteq Attention(sees) \union PageAttention
    /\ Gate = "currency" /\ memories[<<"wide", "stale">>] = 0 => "staleness" \in Attention(sees)

\* Rounding, clamping and the cap never turn a loss into a gain: over the same
\* memories and entities, a step that only ages, contradicts or adds to the queue
\* never raises the score, and one that only relieves never lowers it.
Burden == <<Outdated, conflict.cross, conflict.intra, backlog, oldest>>
WorseNeverScoresBetter ==
  LET same == Beliefs' = Beliefs /\ UNCHANGED entity
         before == Burden
         after == Burden' IN
     /\ same /\ (\A i \in 1..5 : after[i] >= before[i]) => Score' <= Score
     /\ same /\ (\A i \in 1..5 : after[i] <= before[i]) => Score' >= Score
=============================================================================
