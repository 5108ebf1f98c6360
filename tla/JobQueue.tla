------------------------------ MODULE JobQueue ------------------------------
(***************************************************************************)
(* The Postgres job queue of brainiac-store (queue.rs) and the ingest      *)
(* workers that drain it (brainiac-pipeline worker.rs: tick,               *)
(* process_claimed_job).                                                   *)
(*                                                                         *)
(* Time.  queue.jobs.visible_at is a wall-clock instant.  All the code     *)
(* ever asks of it is "visible_at <= now()", so a row is here either       *)
(* visible or hidden, and Lapse lets a hidden row become visible at any    *)
(* moment: a job may take longer than its visibility window, or not.       *)
(*                                                                         *)
(* Transactions run at READ COMMITTED, one statement at a time.  The two   *)
(* transactions whose statements other transactions can fall between are   *)
(* split: read (rank, then claim) and archive (INSERT ... SELECT, then     *)
(* DELETE).  Every other statement or transaction is one action.           *)
(***************************************************************************)
EXTENDS Integers, FiniteSets

CONSTANTS
  Worker,       \* worker processes polling the queue
  Org,          \* tenants a payload names
  MaxJob,       \* bound: jobs sent
  MaxAttempts,  \* MAX_ATTEMPTS (5 in the code)
  BatchSize,    \* WorkerConfig.batch
  Concurrency,  \* WorkerConfig.concurrency, at least 1 (worker.rs: .max(1))
  BaseBackoff,  \* WorkerConfig.backoff_base_secs
  MaxRequeue    \* bound: operator requeues of one job

ASSUME BoundsAssumption ==
  /\ MaxJob \in Nat /\ MaxRequeue \in Nat
  /\ MaxAttempts \in Nat \ {0}
  /\ BatchSize \in Nat \ {0}
  /\ Concurrency \in Nat \ {0}
  /\ BaseBackoff \in Nat

VARIABLES
  sent,      \* ids handed out by the bigserial are 1..sent
  org,       \* org[j]: payload->>'org_id'
  live,      \* ids with a row in queue.jobs
  visible,   \* live ids with visible_at <= now()
  attempts,  \* the attempts column, of the live row or of the archived one
  outcome,   \* outcome column of queue.archive, "none" without a row there
  reading,   \* workers whose read() has ranked and not yet committed
  ranked,    \* ranked[w]: the fair top-n ids that read() picked, unlocked
  phase,     \* phase[w][j]: where worker w is with its claimed copy of j
  taken,     \* taken[w][j]: Job.attempts of that copy
  requeued,  \* requeued[j]: times an operator requeued j (bounds Requeue)
  holders,   \* history: workers whose claim set the row's visible_at
  ran,       \* history: jobs one of whose runs committed its work
  delivered  \* history: delivered[j] counts the claims of j

queueVars  == <<sent, org, live, visible, attempts, outcome, requeued>>
readVars   == <<reading, ranked>>
batchVars  == <<phase, taken>>
history    == <<holders, ran, delivered>>
vars       == <<queueVars, readVars, batchVars, history>>

JobId    == 1..MaxJob
Outcomes == {"ok", "failed", "dead"}

\* A claimed copy is "waiting" in the batch, "running" in process_job, then
\* "ok" or "err"; while archive() has run its INSERT and not its DELETE it is
\* "okCopied"/"errCopied" (a row was selected) or "missed" (none was).
Phases   == {"idle", "waiting", "running", "ok", "err",
             "okCopied", "errCopied", "missed"}
Copied   == {"okCopied", "errCopied"}
Reported == {"ok", "err", "okCopied", "errCopied", "missed"}

-----------------------------------------------------------------------------
(* Ranking: the SQL of read(). *)

\* Mutant: the claim forgets the ceiling.
ReadyOverBudget == live \cap visible
Ready == {j \in live : j \in visible /\ attempts[j] < MaxAttempts}

\* Mutant: reaping starts one attempt late.
ReapableLate == {j \in live : j \in visible /\ attempts[j] > MaxAttempts}
Reapable == {j \in live : j \in visible /\ attempts[j] >= MaxAttempts}

\* ROW_NUMBER() OVER (PARTITION BY org_id ORDER BY id)
OrgRank(j) == Cardinality({k \in Ready : org[k] = org[j] /\ k <= j})

\* Mutant: strict global id order.
RankedById(k, j) == k < j
\* ORDER BY org_rank, id
RankedBefore(k, j) ==
  \/ OrgRank(k) < OrgRank(j)
  \/ OrgRank(k) = OrgRank(j) /\ k < j

\* LIMIT n
FairTop(n) == {j \in Ready : Cardinality({k \in Ready : RankedBefore(k, j)}) < n}

\* backoff_secs, below the saturation of its i64
BackoffSecs(base, n) ==
  LET shift == IF n - 1 < 16 THEN (IF n < 1 THEN 0 ELSE n - 1) ELSE 16
      delay == base * 2^shift
  IN  IF base <= 0 THEN 0 ELSE IF delay < 600 THEN delay ELSE 600

\* An archive row for j that an open transaction has inserted: any other
\* INSERT of the same id waits for that transaction to end.
CopyOpen(j) == \E w \in Worker : phase[w][j] \in Copied

BatchDone(w) == \A j \in JobId : phase[w][j] = "idle"
InFlight(w)  == {j \in JobId : phase[w][j] \notin {"idle", "waiting"}}

-----------------------------------------------------------------------------
Init ==
  /\ sent = 0
  /\ org \in [JobId -> Org]
  /\ live = {} /\ visible = {}
  /\ attempts = [j \in JobId |-> 0]
  /\ outcome = [j \in JobId |-> "none"]
  /\ reading = {}
  /\ ranked = [w \in Worker |-> {}]
  /\ phase = [w \in Worker |-> [j \in JobId |-> "idle"]]
  /\ taken = [w \in Worker |-> [j \in JobId |-> 0]]
  /\ requeued = [j \in JobId |-> 0]
  /\ holders = [j \in JobId |-> {}]
  /\ ran = {}
  /\ delivered = [j \in JobId |-> 0]

\* send: a new row, visible at once, attempts 0.
Send ==
  /\ sent < MaxJob
  /\ sent' = sent + 1
  /\ live' = live \cup {sent + 1}
  /\ visible' = visible \cup {sent + 1}
  /\ UNCHANGED <<org, attempts, outcome, requeued, readVars, batchVars, history>>

\* Time passes: the row's visible_at is reached.
Lapse(j) ==
  /\ j \in live \ visible
  /\ visible' = visible \cup {j}
  /\ holders' = [holders EXCEPT ![j] = {}]
  /\ UNCHANGED <<sent, org, live, attempts, outcome, requeued, readVars,
                 batchVars, ran, delivered>>

\* read(), the inner ranking: a snapshot, no row is locked.  A tick starts
\* only after the previous batch has settled; an empty poll does nothing.
Rank(w) ==
  /\ BatchDone(w) /\ w \notin reading
  /\ Ready \cup Reapable # {}
  /\ reading' = reading \cup {w}
  /\ ranked' = [ranked EXCEPT ![w] = FairTop(BatchSize)]
  /\ UNCHANGED <<queueVars, batchVars, history>>

\* Mutant: the readiness predicate is not restated under the row lock.
ClaimableUnchecked(w) == ranked[w] \cap live
\* The ranked ids whose readiness predicate still holds on the locked row.
Claimable(w) == ranked[w] \cap Ready

\* read(), reap and claim, committed together.
Claim(w) ==
  LET reap == Reapable
      got  == Claimable(w)
  IN
  /\ w \in reading
  /\ \A j \in reap : ~ CopyOpen(j)
  /\ live' = live \ reap
  /\ visible' = visible \ (reap \cup got)
  /\ outcome' = [j \in JobId |-> IF j \in reap THEN "dead" ELSE outcome[j]]
  /\ attempts' = [j \in JobId |-> IF j \in got THEN attempts[j] + 1 ELSE attempts[j]]
  /\ phase' = [phase EXCEPT ![w] = [j \in JobId |-> IF j \in got THEN "waiting" ELSE @[j]]]
  /\ taken' = [taken EXCEPT ![w] = [j \in JobId |-> IF j \in got THEN attempts'[j] ELSE @[j]]]
  /\ holders' = [j \in JobId |-> IF j \in reap THEN {}
                                 ELSE IF j \in got THEN holders[j] \cup {w}
                                 ELSE holders[j]]
  /\ delivered' = [j \in JobId |-> IF j \in got THEN delivered[j] + 1 ELSE delivered[j]]
  /\ reading' = reading \ {w}
  /\ ranked' = [ranked EXCEPT ![w] = {}]
  /\ UNCHANGED <<sent, org, requeued, ran>>

-----------------------------------------------------------------------------
(* A worker's tick: process_claimed_job, Concurrency futures at a time. *)

\* buffer_unordered polls the next future of the batch.
Start(w, j) ==
  /\ phase[w][j] = "waiting"
  /\ Cardinality(InFlight(w)) < Concurrency
  /\ phase' = [phase EXCEPT ![w][j] = "running"]
  /\ UNCHANGED <<queueVars, readVars, taken, history>>

\* process_job commits its own transaction.
RunOk(w, j) ==
  /\ phase[w][j] = "running"
  /\ phase' = [phase EXCEPT ![w][j] = "ok"]
  /\ ran' = ran \cup {j}
  /\ UNCHANGED <<queueVars, readVars, taken, holders, delivered>>

\* Mutant: a failed run is acknowledged like a finished one.
RunErrSwallowed(w, j) ==
  /\ phase[w][j] = "running"
  /\ phase' = [phase EXCEPT ![w][j] = "ok"]
  /\ UNCHANGED <<queueVars, readVars, taken, history>>
\* process_job rolled back, or the payload did not parse.
RunErr(w, j) ==
  /\ phase[w][j] = "running"
  /\ phase' = [phase EXCEPT ![w][j] = "err"]
  /\ UNCHANGED <<queueVars, readVars, taken, history>>

\* complete(), or fail() on a copy whose attempts reached the ceiling: the
\* copy goes to the archive.
Archives(w, j) ==
  \/ phase[w][j] = "ok"
  \/ phase[w][j] = "err" /\ taken[w][j] >= MaxAttempts

\* Mutant: the DELETE runs first, so the SELECT finds nothing.
RowFoundAfterDelete(j) == FALSE
\* The SELECT returns the row and its id is not archived yet.
RowFound(j) == j \in live /\ outcome[j] = "none"

\* archive(), INSERT ... SELECT FROM queue.jobs ... ON CONFLICT DO NOTHING.
ArchiveInsert(w, j) ==
  /\ Archives(w, j)
  /\ ~ CopyOpen(j)
  /\ phase' = [phase EXCEPT ![w][j] =
                 IF ~ RowFound(j) THEN "missed" ELSE IF @ = "ok" THEN "okCopied" ELSE "errCopied"]
  /\ taken' = [taken EXCEPT ![w][j] = IF RowFound(j) THEN attempts[j] ELSE @]
  /\ UNCHANGED <<queueVars, readVars, holders, ran, delivered>>

\* archive(), DELETE FROM queue.jobs WHERE id, and the commit.
ArchiveDelete(w, j) ==
  /\ phase[w][j] \in Copied \cup {"missed"}
  /\ live' = live \ {j}
  /\ visible' = visible \ {j}
  /\ \/ /\ phase[w][j] \in Copied
        /\ outcome' = [outcome EXCEPT ![j] =
                         IF phase[w][j] = "okCopied" THEN "ok" ELSE "failed"]
        /\ attempts' = [attempts EXCEPT ![j] = taken[w][j]]
     \/ /\ phase[w][j] = "missed"
        /\ UNCHANGED <<outcome, attempts>>
  /\ phase' = [phase EXCEPT ![w][j] = "idle"]
  /\ holders' = [holders EXCEPT ![j] = {}]
  /\ UNCHANGED <<sent, org, requeued, readVars, taken, ran, delivered>>

\* fail() under the ceiling.  The UPDATE names the id alone, so it lands on
\* whatever row has that id now and overrides the window some claim set.
FailRetry(w, j) ==
  /\ phase[w][j] = "err" /\ taken[w][j] < MaxAttempts
  /\ visible' = IF j \in live
                  THEN IF BackoffSecs(BaseBackoff, taken[w][j]) = 0
                         THEN visible \cup {j} ELSE visible \ {j}
                  ELSE visible
  /\ holders' = [holders EXCEPT ![j] = {}]
  /\ phase' = [phase EXCEPT ![w][j] = "idle"]
  /\ UNCHANGED <<sent, org, live, attempts, outcome, requeued, readVars, taken,
                 ran, delivered>>

\* The acknowledgement fails (connection lost, chosen as deadlock victim): its
\* transaction rolls back, the copy is dropped, the siblings carry on.
AckLost(w, j) ==
  /\ phase[w][j] \in Reported
  /\ phase' = [phase EXCEPT ![w][j] = "idle"]
  /\ UNCHANGED <<queueVars, readVars, taken, history>>

\* The process dies: open transactions roll back, claimed copies are gone.
Crash(w) ==
  /\ ~ BatchDone(w) \/ w \in reading
  /\ phase' = [phase EXCEPT ![w] = [j \in JobId |-> "idle"]]
  /\ reading' = reading \ {w}
  /\ ranked' = [ranked EXCEPT ![w] = {}]
  /\ UNCHANGED <<queueVars, taken, history>>

\* outcome IN ('failed', 'dead'), and the INSERT does not conflict.
DeadLetter(j) == outcome[j] \in {"failed", "dead"} /\ j \notin live

\* requeue_dead: the operator puts a dead letter back with a fresh budget.
Requeue(j) ==
  /\ requeued[j] < MaxRequeue
  /\ DeadLetter(j)
  /\ live' = live \cup {j}
  /\ visible' = visible \cup {j}
  /\ attempts' = [attempts EXCEPT ![j] = 0]
  /\ outcome' = [outcome EXCEPT ![j] = "none"]
  /\ requeued' = [requeued EXCEPT ![j] = @ + 1]
  /\ UNCHANGED <<sent, org, readVars, batchVars, holders, ran, delivered>>

-----------------------------------------------------------------------------
Next ==
  \/ Send
  \/ \E j \in JobId : Lapse(j) \/ Requeue(j)
  \/ \E w \in Worker : Rank(w) \/ Claim(w) \/ Crash(w)
  \/ \E w \in Worker, j \in JobId :
       \/ Start(w, j) \/ RunOk(w, j) \/ RunErr(w, j)
       \/ ArchiveInsert(w, j) \/ ArchiveDelete(w, j)
       \/ FailRetry(w, j) \/ AckLost(w, j)

Spec == Init /\ [][Next]_vars

\* Workers keep polling and a run ends one way or the other (every provider
\* call has a timeout), and clocks advance.  Not every read() is killed between
\* its two statements (strong fairness of Claim); a run or an acknowledgement
\* may be killed every time.  Nothing obliges a crash, a lost acknowledgement,
\* a new job or an operator.
Fairness ==
  /\ \A j \in JobId : WF_vars(Lapse(j))
  /\ \A w \in Worker : WF_vars(Rank(w)) /\ SF_vars(Claim(w))
  /\ \A w \in Worker, j \in JobId :
       /\ WF_vars(Start(w, j))
       /\ WF_vars(RunOk(w, j) \/ RunErr(w, j))
       /\ WF_vars(ArchiveInsert(w, j) \/ ArchiveDelete(w, j) \/ FailRetry(w, j))

FairSpec == Spec /\ Fairness

-----------------------------------------------------------------------------
(* Properties. *)

\* Every variable has its type; attempts never passes MAX_ATTEMPTS, which read()
\* promises of a claimed job (queue.rs:83-84).
TypeOK ==
  /\ sent \in 0..MaxJob
  /\ org \in [JobId -> Org]
  /\ live \subseteq JobId /\ visible \subseteq live
  /\ attempts \in [JobId -> 0..MaxAttempts]
  /\ outcome \in [JobId -> Outcomes \cup {"none"}]
  /\ reading \subseteq Worker
  /\ ranked \in [Worker -> SUBSET JobId]
  /\ phase \in [Worker -> [JobId -> Phases]]
  /\ taken \in [Worker -> [JobId -> 0..MaxAttempts]]
  /\ requeued \in [JobId -> 0..MaxRequeue]
  /\ holders \in [JobId -> SUBSET Worker]
  /\ ran \subseteq JobId
  /\ delivered \in [JobId -> Nat]

\* A job is never in queue.jobs and in queue.archive at once, whichever of the
\* reaper, a late acknowledgement and an operator's requeue move it.
OneHome == \A j \in live : outcome[j] = "none"

\* While the visibility window a claim opened runs, and no fail() has cut it
\* short, no second worker is given the job: the readiness predicate that
\* read() restates under the row lock holds two rankings of one snapshot apart
\* (queue.rs:137-145).
NoDoubleClaim == \A j \in JobId : \A v, w \in holders[j] : v = w

\* The archive says 'ok' only of a job one of whose runs committed, even when
\* the acknowledgement comes late, twice, or from a worker whose claim lapsed.
OkIsEarned == \A j \in JobId : outcome[j] = "ok" => j \in ran

\* A job no operator requeued is never lost: it has a row in queue.jobs or in
\* queue.archive whatever crashes and late acknowledgements do.
KeptUnlessRequeued ==
  \A j \in 1..sent : requeued[j] = 0 => j \in live \/ outcome[j] # "none"

\* Poison input terminates: a job is delivered at most MAX_ATTEMPTS times per
\* budget it was given, crashes and lapsed claims included (queue.rs:7-16).
DeliveryBudget == \A j \in JobId : delivered[j] <= MaxAttempts * (1 + requeued[j])

\* 'ok' is terminal: nothing a stale worker or an operator does takes a
\* succeeded job out of the archive or changes its outcome (queue.rs:24-26
\* makes only failed and dead recoverable).
OkIsFinal == [][\A j \in JobId : outcome[j] = "ok" => outcome'[j] = "ok" /\ j \notin live']_vars

\* One ranking serves every tenant's oldest ready job before any tenant's
\* second, and an org's jobs in id order (queue.rs:86-95): when the batch has
\* room for every org with work, each has its oldest job in it.
FairRanking ==
  [][\A w \in Worker : w \in reading' \ reading =>
       /\ \A j \in ranked'[w], k \in Ready : org[j] = org[k] /\ k < j => k \in ranked'[w]
       /\ LET orgs == {org[j] : j \in Ready}
          IN  Cardinality(orgs) <= BatchSize => orgs = {org[j] : j \in ranked'[w]}]_vars

\* A queued job leaves the live queue: it is archived however often workers
\* crash on it (queue.rs:11-16: without reaping it would be served for ever).
Settles == \A j \in JobId : (j \in live) ~> (j \notin live)

-----------------------------------------------------------------------------
(* The inductive invariant behind OneHome, NoDoubleClaim, OkIsEarned,      *)
(* KeptUnlessRequeued and DeliveryBudget.                                  *)

\* Only sent jobs have rows or copies; an id not sent yet has no past.
Known ==
  /\ live \subseteq 1..sent
  /\ \A j \in JobId : j \notin 1..sent =>
       /\ outcome[j] = "none" /\ delivered[j] = 0
       /\ \A w \in Worker : phase[w][j] = "idle"

\* A claim whose window runs hides its row.
WindowHides == \A j \in JobId : holders[j] # {} => j \in live \ visible

\* At most one open transaction has inserted the archive row of a job, and no
\* committed row has its id.
SoleCopier ==
  \A j \in JobId : \A v, w \in Worker :
    phase[v][j] \in Copied /\ phase[w][j] \in Copied => v = w /\ outcome[j] = "none"

\* Until an operator requeues the job, what an archive() transaction saw in its
\* first statement still holds at its second.
SnapshotHolds ==
  \A w \in Worker, j \in JobId : requeued[j] = 0 =>
    /\ phase[w][j] \in Copied => j \in live
    /\ phase[w][j] = "missed" => j \notin live

\* The same of every job, as long as requeues spare it.
SnapshotSpared ==
  \A w \in Worker, j \in JobId :
    /\ phase[w][j] \in Copied => j \in live
    /\ phase[w][j] = "missed" => j \notin live

\* A worker about to acknowledge success did commit a run.
AckIsEarned == \A w \in Worker, j \in JobId : phase[w][j] \in {"ok", "okCopied"} => j \in ran

\* Every delivery of the current budget is on the row's attempts counter.
BudgetCounted ==
  \A j \in JobId :
    delivered[j] <= MaxAttempts * requeued[j]
                    + (IF j \in live THEN attempts[j] ELSE MaxAttempts)

\* The inductive invariant; every part is a fact about late or crashed workers
\* that the code relies on without stating it (queue.rs:105-184, 217-235).
IInv ==
  /\ TypeOK /\ OneHome /\ NoDoubleClaim /\ OkIsEarned /\ KeptUnlessRequeued
  /\ Known /\ WindowHides /\ SoleCopier /\ SnapshotHolds /\ AckIsEarned
  /\ BudgetCounted

-----------------------------------------------------------------------------
(* The abstract queue this one implements. *)

\* A sent job with no row in either table has no abstract status: JobLifecycle
\* has no step that loses a job.
jobStatus ==
  [j \in JobId |-> IF j \in live THEN "queued"
                   ELSE IF outcome[j] # "none" THEN outcome[j]
                   ELSE IF j > sent THEN "absent" ELSE "lost"]

Lifecycle == INSTANCE JobLifecycle WITH Job <- JobId, status <- jobStatus, done <- ran

\* An operator requeues no job of which an acknowledgement has found no row and
\* has its DELETE still to run.  Nothing in the code sees to that.
RequeuesSpare ==
  [][\A j \in JobId : requeued'[j] # requeued[j] => \A w \in Worker : phase[w][j] # "missed"]_vars

\* As long as requeues spare open acknowledgements (RequeuesSpare; there are none
\* with MaxRequeue = 0), every step of the tables and workers is a step of a job's
\* lifecycle or changes nothing a caller of the queue can see.
ImplementsLifecycle == Lifecycle!Spec

-----------------------------------------------------------------------------
(* What the code's comments say and its behaviour does not keep. *)

\* queue.rs:367-372: the job of a source is "still live or has finished (queue.archive,
\* which this codebase never time-prunes)"; not found only before its enqueue.
JobStaysFindable == \A j \in 1..sent : j \in live \/ outcome[j] # "none"

=============================================================================
