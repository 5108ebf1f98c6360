-------------------------------- MODULE Sweeps --------------------------------
(***************************************************************************)
(* The schedule of one operator sweep and what it runs.  A worker's tick    *)
(* claims the row if it is due; operators switch it on and off and ask for  *)
(* a run; the run records its outcome on the row, or dies and leaves it     *)
(* "running" until a later tick takes it for dead.  The runs of the         *)
(* divergence sweep reconcile what they confirmed with the stored rows.     *)
(***************************************************************************)
EXTENDS Naturals, FiniteSets

CONSTANTS Scheduler,    \* worker processes
          MaxLive,      \* counts of executing runs above this are not told apart
          Cluster,      \* entity clusters an adjudicator may confirm
          MaxId         \* bound on the ids divergences are given

VARIABLES
  row,        \* sweep_schedules; next: "null", "due" or "later"; old: started over two hours ago
  ticks,      \* per scheduler: FALSE, or TRUE once its claim has found the row due
  live,       \* runs executing
  divergences,\* practice_divergences: the id of a confirmed cluster, 0 when absent
  ids         \* ids given so far

sweepVars == <<row, ticks, live, divergences, ids>>

SweepsInit ==
  /\ row = [enabled |-> FALSE, next |-> "null", status |-> "none", old |-> FALSE]
  /\ ticks = [s \in Scheduler |-> FALSE] /\ live = 0
  /\ divergences = [c \in Cluster |-> 0] /\ ids = 0

rest == <<divergences, ids>>

-----------------------------------------------------------------------------
\* Operators.

\* Enabling an idle sweep arms it; disabling leaves the clock as it is.
UpdateSweep(e) ==
  /\ row' = [row EXCEPT !.enabled = e, !.next = IF e /\ @ = "null" THEN "due" ELSE @]
  /\ UNCHANGED <<ticks, live, rest>>

RunNow ==
  /\ row' = [row EXCEPT !.next = "due"]
  /\ UNCHANGED <<ticks, live, rest>>

-----------------------------------------------------------------------------
\* The claim: one UPDATE whose sub-select takes no lock.

Runnable == row.status # "running" \/ row.old

\* The sub-select sees the row due ...
See(s) ==
  /\ ~ ticks[s] /\ row.next = "due" /\ Runnable
  /\ ticks' = [ticks EXCEPT ![s] = TRUE]
  /\ UNCHANGED <<row, live, rest>>

\* The clock after a claim is computed from the row as it now is.
SlotOnce == "null"                                     \* Mutant: never slotted again.
Slot == IF row.enabled THEN "later" ELSE "null"

Saturated(n) == IF n < MaxLive THEN n + 1 ELSE n

\* ... and the outer WHERE, after any wait for the row, is on its kind alone.
Dispatch(s) ==
  /\ ticks[s]
  /\ row' = [row EXCEPT !.status = "running", !.old = FALSE, !.next = Slot]
  /\ ticks' = [ticks EXCEPT ![s] = FALSE]
  /\ live' = Saturated(live)
  /\ UNCHANGED rest

-----------------------------------------------------------------------------
\* Time, and what becomes of a run.

Elapse ==
  /\ row.next = "later" /\ row' = [row EXCEPT !.next = "due"]
  /\ UNCHANGED <<ticks, live, rest>>

NeverStale == FALSE      \* Mutant: no takeover of a dead run.
Stale == row.status = "running" /\ ~ row.old

TwoHours ==
  /\ Stale /\ row' = [row EXCEPT !.old = TRUE]
  /\ UNCHANGED <<ticks, live, rest>>

Ended == IF live = MaxLive THEN {live, live - 1} ELSE {live - 1}

\* record_result writes to the row whoever's run is the newest.
Record(status) ==
  /\ live > 0 /\ live' \in Ended
  /\ row' = [row EXCEPT !.status = status]
  /\ UNCHANGED <<ticks, rest>>

RunDies ==
  /\ live > 0 /\ live' \in Ended
  /\ UNCHANGED <<row, ticks, rest>>

-----------------------------------------------------------------------------
\* A divergence scan in its one transaction: rows this scan did not confirm go,
\* the others are upserted on their natural key.

Refresh(confirmed) ==
  LET new == {c \in confirmed : divergences[c] = 0}
      order == CHOOSE f \in [new -> 1..Cardinality(new)] :
                 \A c, d \in new : f[c] = f[d] => c = d
  IN  [c \in Cluster |-> CASE c \in new -> ids + order[c]
                           [] c \in confirmed \ new -> divergences[c]
                           [] OTHER -> 0]

Scan(confirmed) ==
  /\ live > 0 /\ ids + Cardinality(confirmed) <= MaxId
  /\ divergences' = Refresh(confirmed)
  /\ ids' = ids + Cardinality(confirmed)
  /\ UNCHANGED <<row, ticks, live>>

SweepsNext ==
  \/ \E e \in BOOLEAN : UpdateSweep(e)
  \/ RunNow \/ Elapse \/ TwoHours \/ RunDies
  \/ \E s \in Scheduler : See(s) \/ Dispatch(s)
  \/ \E status \in {"ok", "error"} : Record(status)
  \/ \E confirmed \in SUBSET Cluster : Scan(confirmed)

\* The worker loop ticks for ever and clocks advance; nothing says a run ends.
SweepsFairness ==
  /\ WF_sweepVars(TwoHours)
  /\ \A s \in Scheduler : WF_sweepVars(See(s)) /\ WF_sweepVars(Dispatch(s))

SweepsSpec == SweepsInit /\ [][SweepsNext]_sweepVars /\ SweepsFairness

-----------------------------------------------------------------------------
\* An enabled sweep never falls off the schedule, however switching it on and
\* off crosses the claims that advance its clock.
EnabledIsScheduled == row.enabled => row.next # "null"

\* What is due is dispatched, also when the run before it hangs or died without
\* a word (sweeps.rs RUNNING_STALE: "so a schedule can't wedge forever").
DueIsDispatched == row.next = "due" ~> row.next # "due"

\* A claim never starts a run beside one that started within the last two hours
\* and has not reported (sweeps.rs run_due: "two scheduler ticks (or a second
\* worker) can't double-dispatch the same sweep").
NoDoubleDispatch ==
  [][row.status = "running" /\ ~ row.old => \A s \in Scheduler : ~ Dispatch(s)]_sweepVars

\* A divergence two scans in a row confirm keeps its id, which standards cite.
IdIsStable ==
  \A c \in Cluster : divergences[c] # 0 /\ divergences'[c] # 0 => divergences'[c] = divergences[c]
=============================================================================
