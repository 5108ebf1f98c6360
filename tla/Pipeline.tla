------------------------------- MODULE Pipeline -------------------------------
(***************************************************************************)
(* What the worker makes of a source (brainiac-pipeline worker.rs,         *)
(* extract.rs, resolve.rs, contradict.rs, policy.rs): memories are         *)
(* extracted chunk by chunk, their entities are resolved against the       *)
(* canonical ones, each memory is compared with its neighbours and judged  *)
(* by the promotion policy, all in one transaction per job, at READ        *)
(* COMMITTED.  It composes Ingest, which makes the sources and jobs.       *)
(*                                                                         *)
(* The queue is seen as JobLifecycle shows it: a live job may be run       *)
(* again, also while an earlier run of it is not over, until it ends or    *)
(* its attempts are spent.  Of the waits for rows others have locked       *)
(* nothing is kept: they only delay a run.                                 *)
(*                                                                         *)
(* The model that adjudicates conflicts is taken to be right, and the      *)
(* corpus small enough for every memory to be among the neighbours: the    *)
(* guarantees below are about the code around it.                          *)
(***************************************************************************)
EXTENDS Ingest

CONSTANTS
  Statement,  \* what memories say
  Chunks,     \* Chunks[f]: the chunks of file f, in order
  Says,       \* Says[x]: what a perfect reader finds in chunk or text x
  About,      \* About[m]: the name of the entity statement m mentions
  Facets,     \* Facets[m]: kind, visibility and confidence (in percent)
  Conflict,   \* pairs of statements that contradict each other
  Near,       \* pairs above the similarity that stands in for an anchor
  MaxRun,     \* bound: runs of jobs
  MaxTries    \* MAX_ATTEMPTS

ASSUME PipelineAssumption ==
  /\ MaxRun \in Nat /\ MaxTries \in Nat \ {0}
  /\ Conflict \subseteq Statement \X Statement
  /\ Near \subseteq Statement \X Statement

VARIABLES
  db,        \* the committed rows, a set for each table
  work,      \* work[r]: the rows of run r's open transaction
  jobState,  \* jobState[j]: live, or the outcome in the archive
  runJob,    \* runJob[r]: the job run r is of, 0 before it starts
  stage,     \* stage[r]: where it is
  chunk,     \* chunk[r]: the chunk it extracts next
  fresh,     \* fresh[r]: entities it has created and not resolved yet
  unjudged,  \* unjudged[r]: memories it has not judged yet
  beside     \* history: pairs of runs that were open together

runVars      == <<runJob, stage, chunk, fresh, unjudged>>
pipelineVars == <<db, work, jobState, runVars, beside>>
workVars         == <<ingestVars, pipelineVars>>

Run == 1..MaxRun
\* The tables: memories, entities, canonical entities and their aliases, links,
\* mentions, contradictions, decisions of the policy and extraction_cache.
Nothing == [memories |-> {}, entities |-> {}, canonicals |-> {}, aliases |-> {},
            links |-> {}, mentions |-> {}, disputes |-> {}, decisions |-> {},
            cache |-> {}]
\* A transaction sees what is committed and what it wrote itself.
Sees(r) == [t \in DOMAIN db |-> db[t] \cup work[r][t]]
Write(r, new) ==
  work' = [work EXCEPT ![r] =
             [t \in DOMAIN db |-> IF t \in DOMAIN new THEN @[t] \cup new[t] ELSE @[t]]]

SourceOf(r)  == jobs[runJob[r]]
Manual(s)    == idKey[s] \notin File
\* chunk_source; a manual source is one statement and is never split.
Parts(s)     == IF Manual(s) THEN <<raw[s]>> ELSE Chunks[raw[s]]
OpenRuns     == {r \in Run : stage[r] = "open"}
\* Its last chunk is done.
Extracted(r) == chunk[r] > Len(Parts(SourceOf(r)))
\* The worker's read scope leaves out the private tier, whoever owns it.
Readable(m)  == Facets[m.says].visibility # "private"
Opposed(a, b) == <<a.says, b.says>> \in Conflict \/ <<b.says, a.says>> \in Conflict

PipelineInit ==
  /\ db = Nothing
  /\ work = [r \in Run |-> Nothing]
  /\ jobState = [j \in 1..MaxJob |-> "live"]
  /\ runJob = [r \in Run |-> 0]
  /\ stage = [r \in Run |-> "none"]
  /\ chunk = [r \in Run |-> 1]
  /\ fresh = [r \in Run |-> {}]
  /\ unjudged = [r \in Run |-> {}]
  /\ beside = {}

Tries(j) == Cardinality({r \in Run : runJob[r] = j})

\* A worker claims job j.
Begin(r, j) ==
  /\ stage[r] = "none" /\ \A q \in Run : q < r => stage[q] # "none"
  /\ jobState[j] = "live" /\ Tries(j) < MaxTries
  /\ runJob' = [runJob EXCEPT ![r] = j]
  /\ stage' = [stage EXCEPT ![r] = "open"]
  /\ beside' = beside \cup {{q, r} : q \in OpenRuns}
  /\ UNCHANGED <<ingestVars, db, work, jobState, chunk, fresh, unjudged>>

-----------------------------------------------------------------------------
(* Extraction. *)

Cached(r, x) == {e \in Sees(r).cache : e.chunk = x}
\* extract_verbatim for a manual source; the cached answer if there is one;
\* else extract_chunk: what the model finds, with repairs and resampling.
Answers(r, x) ==
  IF Manual(SourceOf(r)) THEN {Says[x]}
  ELSE IF Cached(r, x) # {} THEN {e.answer : e \in Cached(r, x)}
  ELSE SUBSET Says[x]
\* Mutant: every statement counts as new.
NewAlways(r, A) == A
\* memory_exists_for_source: what of A the source has not produced before.
New(r, A) ==
  {m \in A : \A o \in Sees(r).memories :
               ~ (o.says = m /\ o.source = SourceOf(r) /\ Readable(o))}

Raised(r, n) == [run |-> r, name |-> n, team |-> team[SourceOf(r)]]
\* find_by_name: the entities of that name in the source's team.
Known(r, n) == {e \in Sees(r).entities : e.name = n /\ e.team = team[SourceOf(r)]}
\* run_extract of one chunk.  Each memory's entity is found by name within the
\* team, or created.
Extract(r) ==
  /\ stage[r] = "open" /\ chunk[r] <= Len(Parts(SourceOf(r)))
  /\ LET s == SourceOf(r)
         x == Parts(s)[chunk[r]]
     IN  \E A \in Answers(r, x) :
           LET rows  == {[run |-> r, at |-> chunk[r], source |-> s, says |-> m]
                           : m \in New(r, A)}
               names == {About[m.says] : m \in rows}
               born  == {Raised(r, n) : n \in {n \in names : Known(r, n) = {}}}
           IN  /\ \E pick \in [names -> Sees(r).entities \cup born] :
                    /\ \A n \in names : pick[n] \in Known(r, n) \cup (born \cap {Raised(r, n)})
                    /\ Write(r, [memories |-> rows, entities |-> born,
                                 mentions |-> {<<m, pick[About[m.says]]>> : m \in rows},
                                 cache |-> IF Manual(s) \/ A = {} \/ Cached(r, x) # {}
                                           THEN {} ELSE {[chunk |-> x, answer |-> A]}])
               /\ fresh' = [fresh EXCEPT ![r] = @ \cup born]
               /\ unjudged' = [unjudged EXCEPT ![r] = @ \cup {m \in rows : Readable(m)}]
  /\ chunk' = [chunk EXCEPT ![r] = @ + 1]
  /\ UNCHANGED <<ingestVars, db, jobState, runJob, stage, beside>>

-----------------------------------------------------------------------------
(* Resolution of the entities a run has created. *)

LinkTo(r, e, c) ==
  Write(r, [links |-> {<<e, c>>},
            aliases |-> IF e.name = c.name THEN {} ELSE {<<c, e.name>>}])
\* find_canonical_by_name_or_alias.
Lexical(r, n) == {c \in Sees(r).canonicals : c.name = n \/ <<c, n>> \in Sees(r).aliases}
\* No canonical is near: a new one is made.
Bootstrap(r, e) ==
  LET c == [run |-> r, name |-> e.name]
  IN  Write(r, [canonicals |-> {c}, links |-> {<<e, c>>}])

\* resolve_entity: an exact name or alias links; else the nearest canonical
\* is close enough to link, or adjudicated to be the same or not, in which
\* case the entity is left to people; or it is too far.
ResolveEntity(r) ==
  /\ stage[r] = "open" /\ Extracted(r)
  /\ \E e \in fresh[r] :
       /\ IF Lexical(r, e.name) # {}
          THEN \E c \in Lexical(r, e.name) : LinkTo(r, e, c)
          ELSE \/ \E c \in Sees(r).canonicals : LinkTo(r, e, c)
               \/ Sees(r).canonicals # {} /\ Write(r, << >>)
               \/ Bootstrap(r, e)
       /\ fresh' = [fresh EXCEPT ![r] = @ \ {e}]
  /\ UNCHANGED <<ingestVars, db, jobState, runJob, stage, chunk, unjudged, beside>>

-----------------------------------------------------------------------------
(* Conflicts and the promotion policy. *)

Anchors(r, m) == {p[2] : p \in {p \in Sees(r).mentions : p[1] = m}}
\* Neighbours with a shared anchor, and the anchorless ones that are near
\* (the budget of two is not reached by the instances).
Compared(r, m) ==
  {o \in Sees(r).memories :
     /\ o # m /\ Readable(o)
     /\ \/ Anchors(r, o) \cap Anchors(r, m) # {}
        \/ <<o.says, m.says>> \in Near}
\* run_contradict: a row of contradictions for each conflict it finds.
Opened(r, m) == {<<o, m>> : o \in {o \in Compared(r, m) : Opposed(o, m)}}

\* Mutant: the policy is not told of the disputes just opened.
PolicyBlind(m, disputes, manual) ==
  LET f == Facets[m.says]
  IN  CASE f.kind = "pitfall" /\ f.visibility = "team" /\ ~ manual /\ f.confidence >= 90
             -> "pitfall_high_conf_auto_candidate"
        [] f.kind = "decision" /\ ~ manual /\ f.confidence >= 95
             -> "decision_explicit_auto_candidate"
        [] OTHER -> "default_needs_review"
\* PolicyEngine::evaluate of raw to candidate; a manual source has no
\* confidence to show, and all its memories are the team's.
Policy(m, disputes, manual) ==
  LET f == Facets[m.says]
  IN  IF disputes # {} THEN "contradiction_pending"
      ELSE IF f.kind = "pitfall" /\ f.visibility = "team" /\ ~ manual /\ f.confidence >= 90
           THEN "pitfall_high_conf_auto_candidate"
      ELSE IF f.kind = "decision" /\ ~ manual /\ f.confidence >= 95
           THEN "decision_explicit_auto_candidate"
      ELSE "default_needs_review"
AutoRules == {"pitfall_high_conf_auto_candidate", "decision_explicit_auto_candidate"}
AutoApproved(t) == {d[1] : d \in {d \in t.decisions : d[2] \in AutoRules}}

\* One memory is compared, judged and its promotion recorded; an auto-approved
\* one becomes a candidate.
Judge(r) ==
  /\ stage[r] = "open" /\ Extracted(r) /\ fresh[r] = {}
  /\ \E m \in unjudged[r] :
       LET opened == Opened(r, m)
       IN  /\ Write(r, [disputes |-> opened,
                        decisions |-> {<<m, Policy(m, opened, Manual(SourceOf(r)))>>}])
           /\ unjudged' = [unjudged EXCEPT ![r] = @ \ {m}]
  /\ UNCHANGED <<ingestVars, db, jobState, runJob, stage, chunk, fresh, beside>>

-----------------------------------------------------------------------------
(* The end of a run. *)

CommitRun(r) ==
  /\ stage[r] = "open" /\ Extracted(r) /\ fresh[r] = {} /\ unjudged[r] = {}
  /\ db' = Sees(r)
  /\ work' = [work EXCEPT ![r] = Nothing]
  /\ stage' = [stage EXCEPT ![r] = "committed"]
  /\ UNCHANGED <<ingestVars, jobState, runJob, chunk, fresh, unjudged, beside>>

\* A model or the database fails the run, or its process dies: its transaction
\* is gone.
FailRun(r) ==
  /\ r \in OpenRuns
  /\ stage' = [stage EXCEPT ![r] = "failed"]
  /\ work' = [work EXCEPT ![r] = Nothing]
  /\ fresh' = [fresh EXCEPT ![r] = {}]
  /\ unjudged' = [unjudged EXCEPT ![r] = {}]
  /\ UNCHANGED <<ingestVars, db, jobState, runJob, chunk, beside>>

\* complete and fail, if the job is still theirs to archive.
Outcome(r) ==
  IF jobState[runJob[r]] # "live" THEN jobState[runJob[r]]
  ELSE IF stage[r] = "committed" THEN "ok"
  ELSE IF Tries(runJob[r]) >= MaxTries THEN "failed" ELSE "live"
\* process_claimed_job acknowledges the job; the row of pipeline_runs it writes
\* before is only shown to people.
Acknowledge(r) ==
  /\ stage[r] \in {"committed", "failed"}
  /\ jobState' = [jobState EXCEPT ![runJob[r]] = Outcome(r)]
  /\ stage' = [stage EXCEPT ![r] = IF stage[r] = "committed" THEN "done" ELSE "gave up"]
  /\ UNCHANGED <<ingestVars, db, work, runJob, chunk, fresh, unjudged, beside>>

\* The process dies before it has acknowledged a run.
CrashRun(r) ==
  /\ stage[r] \in {"committed", "failed"}
  /\ stage' = [stage EXCEPT ![r] = IF stage[r] = "committed" THEN "done" ELSE "gave up"]
  /\ UNCHANGED <<ingestVars, db, work, jobState, runJob, chunk, fresh, unjudged, beside>>

\* read() finds the attempts of a job spent.
Reap(j) ==
  /\ jobState[j] = "live" /\ Tries(j) >= MaxTries
  /\ jobState' = [jobState EXCEPT ![j] = "dead"]
  /\ UNCHANGED <<ingestVars, db, work, runVars, beside>>

WorkNext ==
  \/ RequestNext /\ UNCHANGED pipelineVars
  \/ \E r \in Run :
       \/ \E j \in Job : Begin(r, j)
       \/ Extract(r) \/ ResolveEntity(r) \/ Judge(r)
       \/ CommitRun(r) \/ FailRun(r) \/ Acknowledge(r) \/ CrashRun(r)
  \/ \E j \in Job : Reap(j)

WorkInit == IngestInit /\ PipelineInit
WorkSpec == WorkInit /\ [][WorkNext]_workVars

-----------------------------------------------------------------------------
\* A job as JobLifecycle has it, and the jobs a run of which has committed.
jobLife ==
  [j \in 1..MaxJob |-> IF j > Len(jobs) THEN "absent"
                       ELSE IF jobState[j] = "live" THEN "queued" ELSE jobState[j]]
jobsDone == {runJob[r] : r \in {r \in Run : stage[r] \in {"committed", "done"}}}

Life == INSTANCE JobLifecycle WITH Job <- 1..MaxJob, status <- jobLife, done <- jobsDone

-----------------------------------------------------------------------------
(* Properties. *)

\* source_status: the word a client polls on.
Latest(s) == CHOOSE j \in JobsOf(s) : \A i \in JobsOf(s) : i <= j
Status(s) ==
  IF JobsOf(s) = {}
  THEN IF \E m \in db.memories : m.source = s THEN "processed" ELSE "unknown"
  ELSE CASE jobState[Latest(s)] = "live" -> IF Tries(Latest(s)) = 0 THEN "queued" ELSE "retrying"
         [] jobState[Latest(s)] = "ok"   -> "processed"
         [] OTHER                        -> "failed"

\* memory_status: what an agent is told its contribution became.
MemoryStatus(s) == {m \in db.memories : m.source = s /\ Readable(m)}

\* A client is told processed, and an agent that its contribution is extracted,
\* only of a source that a run has committed (source_status over the queue's
\* outcome, memory_status over what is stored).
ProcessedIsTrue ==
  \A s \in sources : Status(s) = "processed" \/ MemoryStatus(s) # {} =>
    \E r \in Run : runJob[r] # 0 /\ SourceOf(r) = s /\ stage[r] \in {"committed", "done"}

\* A source run again after its last run ended yields no memory twice: the
\* copies there are come from runs that were open together (the guard of
\* memory_exists_for_source under at-least-once delivery).
RedeliveryCollapses ==
  \A m, o \in db.memories :
    m.source = o.source /\ m.says = o.says /\ m # o /\ Readable(m) => {m.run, o.run} \in beside

\* A name has one canonical entity, unless two runs coined it together
\* (entities are found by name, canonicals by name and alias, before either
\* is created).
OneCanonicalPerName ==
  \A c, d \in db.canonicals : c.name = d.name /\ c # d => {c.run, d.run} \in beside

\* No memory circulates unreviewed that contradicts what was known when its
\* run began: the conflict is in the ledger and the promotion waits (policy.rs
\* contradiction_pending).
KnownConflictIsHeld ==
  \A m, o \in db.memories :
    Opposed(m, o) /\ Readable(m) /\ Readable(o) /\ o.run < m.run /\ {o.run, m.run} \notin beside
      => m \notin AutoApproved(db) /\ <<o, m>> \in db.disputes

\* Every memory that anyone can read is a candidate or waits in the review
\* queue, once, however its job was delivered.
NothingInLimbo ==
  \A m \in db.memories : Readable(m) => Cardinality({d \in db.decisions : d[1] = m}) = 1

\* At-least-once delivery looks like one delivery: what a client is told, what
\* is stored, what it is linked to and what is judged are those of one run
\* (worker.rs, extract.rs, resolve.rs).
DeliveredOnce ==
  ProcessedIsTrue /\ RedeliveryCollapses /\ OneCanonicalPerName /\ NothingInLimbo

\* What intake and the worker make of a job, by overlapping runs that fail, die or
\* are acknowledged late, is what the queue promises of a job: JobQueue and this
\* module meet in JobLifecycle (worker.rs process_claimed_job, queue.rs).
FollowsLifecycle == Life!Spec
=============================================================================
