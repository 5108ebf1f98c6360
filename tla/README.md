# A TLA+ development of brainiac

Brainiac keeps an organisation's knowledge: agents and people post raw text, a
pipeline distils it into *memories*, maintainers review, dispute and retire them,
a wiki is compiled from the ones that stand, and agents are served from them.  It
is a Rust server and worker over one Postgres database.  The specifications here
model the parts whose correctness depends on what other transactions, processes
or machines do between two of their steps.

    tlc -workers 2 -config <Config>.cfg <Module>.tla     model-check a run
    tlapm <Module>Proofs.tla                             check the proofs

`PROJECT.json` lists the components, the runs, which lines each definition
stands for, the hazards and the theorems; the last five sections below say what
the checks and the proofs rest on.

## The system

| Part | State it keeps | Operations | Talks to |
|---|---|---|---|
| Job queue (`store/queue.rs`) | `queue.jobs` (payload, attempts, visible_at), `queue.archive` (outcome) | send, read (reap, rank, claim), complete, fail, archive, requeue_dead | ingest endpoints send, workers read and acknowledge, operators requeue |
| Ingest (`server/http.rs`, `mcp.rs`, `okf_ingest.rs`) | `sources` with their Idempotency-Key | add, bulk add, memory_add, harvest | queue |
| Ingest worker (`worker.rs`, `extract.rs`, `resolve.rs`, `contradict.rs`, `policy.rs`) | memories, entities, canonicals, cache, disputes and decisions of a job's transaction | extract, deduplicate, link, compare, judge, commit | model gateway, queue |
| Review and feedback (`console.rs`, `feedback.rs`, `mcp.rs`, `memories.rs`) | `promotions`, `memories.status` and window, claims | propose, approve, deny, bulk review, claim, answer, reverify, expire | wiki (marks pages), disputes |
| Disputes (`governance.rs`, `console.rs`) | `contradictions`, `memories.superseded_by` | resolve (supersede, coexist, dismiss), settle siblings, carry forward | memories, wiki, Library |
| Documents and compose worker (`documents.rs`, `compose.rs`, `worker.rs`) | documents, revisions, sections, `document_dependencies`, the dirty list of a tick | scaffold, edit, approve, mark dirty, list, compose, publish a revision, back off | governance, retrieval, gateway |
| Reading and editing the wiki (`server/docs.rs`) | the pinned section, read counts | directory, filters, search, edit | documents |
| Library (`store/library/*`, `library_sweep.rs`, `standards_page.rs`) | signals, standards, revisions, skills and versions, usage | mine, propose, ratify, adopt, reject, retire, edit; sign, fetch | disputes, divergence, standards pages |
| Projects, pairing, sign-in (`projects.rs`, `onboard.rs`, `tokens.rs`, `provision.rs`) | whitelist, pairings, keys, identities | whitelist, start, approve, deny, poll and claim; first sign-in | all endpoints |
| Preflight (`guard.rs`, the edit hook) | none | match the checkout, search notes, add standards | projects, retrieval, Library |
| Retrieval (`retrieval.rs`, `core/fusion.rs`, `temporal.rs`) | none | retrieve, fuse, expand, deduplicate, gate, cut, pack | memories, disputes |
| Demand (`retrieval_events.rs`) | the ledger of misses, knowledge gaps | record, scan, dismiss | retrieval |
| Archive (`archive.rs`) | none | list, count, facets, triage | memories, claims |
| MCP session (`mcp.rs`) | the grant of its token | read a line, dispatch a tool, reply | everything above |
| Sweep scheduler (`sweeps.rs`), divergence (`divergence.rs`) | `sweep_schedules`, divergences | switch, arm, claim, run, record, reconcile | worker loop |
| Publishing (`publish/*`) | `document_publications`, external pages | gate, push, record | documents, external wikis |
| Re-embedding (`reembed.rs`) | `embedding_versions`, vectors | backfill, resume, activate | retrieval, worker |
| Model gateway (`gateway/*`) | circuit breaker, retries | send, embed in chunks | providers |
| Health and alerts (`health.rs`) | counts it reads | score, grade, attention, publish gate | publishing |
| Process (`main.rs`) | signal, tasks in hand | start, tick, back off, drain, exit | everything above |
| Evaluation (`brainiac-eval`) | a run and a baseline | cluster, match, gate | none |

What is hard in it: at-least-once delivery with visibility windows that lapse
under a running worker; statements of one READ COMMITTED transaction between
which others commit; requests of several statements with no transaction around
them; answers lost after a commit and clients that retry; model calls of several
seconds between reading knowledge and writing a page; row-level visibility that
decides which rows an UPDATE reaches; locks on two memories and on several
disputes at once; pushes to systems that know no rollback.

What makes each part correct, in a line:

* queue: a job is claimed by one worker at a time, terminates, and leaves the
  tables only by an operator's hand; no tenant waits behind another's backlog;
* intake: one source per idempotency key, and a job behind every answer;
* worker: redelivery adds nothing, and a known conflict stops an automatic promotion;
* review: every status has a decision of somebody who may make it, and a
  supersession is final;
* disputes: the ledger and the supersession chain say the same, decisions are
  final, questions are neither lost nor asked twice;
* wiki: a page that looks clean shows what the organisation believes, nobody
  publishes a first revision but a human, two saves of one text do not overlap;
* Library: a signal speaks through one rule and a rejected one is not brought up
  again by the machine, but where proposals overlap; nothing unsigned reaches readers;
* access: one key per approved pairing, one organisation per identity, one project
  per checkout, a reply per request;
* answers: nothing below the asked floor, no side of an open dispute as settled,
  no source-less paragraph;
* machinery: an enabled sweep is on the schedule, the ledger of publications does
  not run ahead of the targets, a half-embedded version serves nobody, one probe
  meets a provider that comes back, a process that ends as it was told to leaves
  nothing torn.

## Modules

| Module | What it is | Proofs |
|---|---|---|
| `JobQueue`, `JobLifecycle` | the queue's tables and its workers; the abstract life of a job, which the former implements | `JobQueueProofs` |
| `Pages` | documents, revisions, dependency index, compose worker, and the governance that moves memories | `PagesProofs` |
| `Disputes` | the ledger, supersession, and resolve requests statement by statement | `DisputesProofs` |
| `Freshness` | abstract: a wiki whose pages change and become clean in single steps | |
| `Ledger` | abstract: what the ledger promises, each resolve one step | |
| `Ingest` | the endpoints and the harvest | `PipelineProofs` |
| `Inbox` | abstract: sources stored, jobs queued and callers answered in single steps, which `Ingest` implements | |
| `Pipeline` (extends `Ingest`) | the worker's transaction per job, several runs at once | `PipelineProofs` |
| `Review` | promotions, proposals, claims, re-verification, expiry | `ReviewProofs` |
| `Standards`, `Skills`, `Onboarding`, `Provision`, `Wiki` | the Library's two shelves, pairing and projects, sign-in, editors | `SurfaceProofs` |
| `Archive`, `Session`, `Guard`, `Search`, `Fusion` | listing and triage, a stdio session, the preflight, a governed search and its rank fusion | `SurfaceProofs`, of `Guard`'s matching `AlgorithmProofs` |
| `Composition`, `Scores` | what a page is made of; clustering scores and the greedy match | `AlgorithmProofs` |
| `Texts` | strings split and joined, for `Composition` and `Guard` | `AlgorithmProofs` |
| `Sweeps`, `Publishing`, `Reembed`, `Health`, `Service`, `Gateway`, `Demand` | what runs by itself | `MachineryProofs` |
| `Evaluation` | the regression gate | `MachineryProofs` |
| `DisputesMC` | an instance of one module for TLC | |
| `PagesMC`, `KnowledgeMC`, `SurfaceMC`, `MachineryMC`, `ProgressMC` | the parts of a domain in one run (`PagesMC`: the wiki, and the queue) | |

Which modules compose: `Pipeline` extends `Ingest` and sees the queue as
`JobLifecycle` shows it, which `JobQueue` implements and which the jobs of `Pipeline`
follow (`FollowsLifecycle`, proved); `PagesMC`, `KnowledgeMC`, `SurfaceMC`,
`MachineryMC` and `ProgressMC` put parts that share no variable beside each other,
so that a behaviour is one part at work and the others at rest.  Where one part's
effect on another matters it is in the module that it happens to: governance moves
memories under a composing worker in `Pages`, under a search in `Search` and under
a preflight in `Guard`; a settlement reaches the Library's signals in `Standards`.

A definition that a comment introduces with "Mutant:" is the form a plausible bug
would give the definition after it.  No specification uses it; putting it in the
place of its neighbour must break the property it is paired with in
`PROJECT.json`, which shows that the property says something about the code.

### JobQueue

State: the rows of `queue.jobs` (`live`, `visible`, `attempts`, `org`) and of
`queue.archive` (`outcome`); per worker, where its transaction is (`reading`,
`ranked`) and its copy of each claimed job (`phase`, `taken`).  `visible_at` is
only ever compared with `now()`, so a row is visible or hidden and `Lapse` may
end a window at any moment.

`read()` is two actions, because the ranking subquery takes no lock: `Rank` reaps
the jobs over budget and picks the fair top n, `Claim` locks what is still
claimable, skipping the rest.  `archive()` is two statements, `ArchiveInsert` and
`ArchiveDelete`, which name the job's id alone; this is what lets a late
acknowledgement and a requeue meet.  `RunOk` and `RunErr` are the two ends of a
job's transaction; `AckLost` and `Crash` lose the answer or the process.

### Pages

State: each memory's status, chain and pending promotion; each page's `dirty`,
`throttled`, `prose` (version of the pinned section), `deps`, `current`; the
revisions; per worker the page list of its tick, the open compose transactions
(`jobs`) and `moved`.  The compare-and-swap of `insert_revision` on `updated_at`
is kept as what it tests: `moved[w]` are the pages whose row was written since
w's list was read.  A page binds the memories `Bind[p]`; which of those that stand
the model cites is free, since no guarantee may rest on what a language model
does.

`List`, `Begin`, `Cite`, `Finish`, `Fail`, `Unthrottle` and `SweepDies` are the
worker; `Review`, `Deprecate`, `Supersede` with the marking of dependent pages,
`EditPinned`, `RefreshDigest`, `Approve` and `Create` are the others.

`Freshness` is the wiki as its readers may think of it: a page is recomposed in one
step, from the prose and the memories of that moment, or it stays dirty; whatever is
decided about a memory marks the pages that name it; and only a person publishes
first.  `ImplementsFreshness` maps its variables to the standing memories, the pages
and, of each page's newest revision, the version of the prose and the citations.

### Disputes

State: the memories born, deprecated and superseded; the rows of
`contradictions` (`pair`, `verdict`, `carried`); per resolve request where its
transaction is, its locks (`locks` FOR UPDATE on memories, `rows` on disputes,
`posed` for the key-share locks of the foreign keys of what it inserted) and the
siblings it still has to visit or carry forward.  What a request has written is
seen by the others only in `Commit`, so it is kept with the request.

`Contest`, `ReadLoser`, `LockNext`, `Apply`, `FindSiblings`, `CloseSibling`,
`CarryForward`, `Pose` and `Commit` are the statements of
`resolve_contradiction` with resolution `supersede`, in their order; `Abort` is
every way out without a commit.  Ingest, feedback deprecation, review and the
other two resolutions are seen by their commit only.

`Ledger` is what of this an outsider may rely on: disputes are raised, settled or
decided by a supersession in single steps, `Supersede` retires the loser, closes
disputes about it as moot and leaves each of their counterparts answered (the winner
itself, a dispute with it, or one of the two retired).  `ImplementsLedger` maps its
variables to those of the same names: what is in the tables between commits.

### Ingest, Pipeline and Review

`Ingest` keeps `sources` with their keys, the `jobs` enqueued, and per request
where it is and the sources it has in hand: inserting, waiting on the unique
index, committed and still to enqueue, answered.  A request may die between the
commit and the enqueue (`Die`), and a client without an answer comes back with
its key; what clients were told is in `receipts`.

`Pipeline` gives every run of a job a transaction of its own (`work`) over the
committed tables (`db`): chunk by chunk memories are extracted, deduplicated
against what the run can see, linked to canonicals, compared with their
neighbours and judged by the policy's decision table.  Two runs of one job may
be open together after a window has lapsed; a run commits, fails or gives up.

`Review` keeps status, window of validity and the rows of `promotions`; a bulk
review decides row by row, a proposal or a re-verification reads in one step and
writes in another.  `settledBy` names the row a status rests on.

### Standards, Skills, Onboarding, Provision and Wiki

`Standards` and `Skills` have no locks to model because the code takes none, and every
read is a step of its own.  A ratification or a settlement looks whether its signal is
spoken for (`Ratify`, `MineWinner`), asks for the plain slug (`NamePlanned`), and
inserts with its commit (`InsertPlanned`); the mining sweep does so for one signal
after the other (`MineLook`, for a divergence once more `MineBridge`, `MineName`) and
commits what it has found at once.  The unique slug is all that stands between two
writers, and a suffixed slug gets past it: each rule carries, as history, how many
rules there were at the reads of its proposer, from which `SecondOnlyByOverlap` and
`RejectionIsRespected` say when a second rule of a signal, or one of a rejected
signal, can come about.  `Onboarding` keeps the whitelist,
the pairings with their state and expiry, the keys, and what each poll and each
admin is in the middle of, every statement a step of its own.  `Provision` is the
one transaction of a first sign-in: the identity's primary key makes the loser of
two wait and take the winner's organisation.  `Wiki` keeps the pinned section's
versions, what each editor has before them, and the compare-and-set of the save.

### Archive, Session, Guard, Search, Fusion, Composition and Scores

`Archive` walks a listing by offset while rows come and change; a listing is a
numbering of the rows by their order, and a page the rows numbered in its window.
In its backlog of disputed memories no value of the team's filter matches a memory
without a team, as `team_id = $n` matches no NULL; its menu has an option for them.
`Session` is the
read loop of the stdio server with its bounded line.  `Guard` spells a remote in
every way git does and runs the three statements of a preflight while governance
moves on; its strings are sequences of the tokens the normalisation tells apart.
`Search` is the statements of one governed search, each with a snapshot of its
own, under supersessions, detections, settlements and demotions.  `VectorHits` and
`TextHits` are cut to the limit of a retriever and `Fuse` to the pool
(`CANDIDATES_PER_RETRIEVER`, `FUSED_POOL`): a cut keeps all there is or as many as it
may, whichever they are.  `Near` is what the approximate index can find for the query.
The ranking of
what it found is any one-to-one numbering, since no guarantee may rest on the
scores; the walk of `chain_head` from a memory is the least set that holds it and
the successor of each of its members in the pool, and the memory where the walk
stops is the one that the rest of that set leads to.  The last three are functions
of an input.  `Fusion` adds exact fractions, where the code adds floats, and gives
each candidate the place behind all that lead it, of which the cut keeps the first.  `Composition` is the citation
firewall over sequences of the pieces it tells apart.  `Scores` counts in exact
fractions as well, and gives the greedy match as the set of pairs of which each stands
in it when no earlier one of it takes its fact or its output.

### Sweeps, Publishing, Reembed, Health, Service, Gateway, Demand and Evaluation

`Sweeps` splits the claim of a due sweep into its sub-select (`See`) and its UPDATE
(`Dispatch`).  `Publishing` takes one page through its targets: look at the ledger,
push, record, with the ledger rows visible only at the commit while the pushes are
out as they happen.  `Reembed` walks memories and canonicals batch by batch, dies
and resumes.  `Health` computes pillars, composite, grade, breaches, gate and
attention from counts.  `Service` is the process: the worker starts, then the server
listens (`Listen`) or fails to, now or later (`ServeFails`), which ends the process with
whatever the worker has in hand; signal, drain, loop, back-off.  Before the server
listens a signal kills.
`Gateway` is the breaker shared by callers, in ticks of its cooldown, and the
chunks of an embedding request, which are functions of positions.  `Demand` is the ledger of misses and the scans that turn it into gaps.  `Evaluation` compares a run with a baseline.
## Runs

Five runs pass.  Each disjunct of a composed run is one part; its bounds are the
smallest in which the behaviours the properties are about occur.

| Run | Parts and bounds | Shows |
|---|---|---|
| `queue_and_pages` | queue: a duel of 3 workers over one job, or a backlog of 3 jobs of 2 tenants served one at a time; 3 attempts, batch 2, 1 requeue, back-off on; pages: an entity page and a digest sharing 2 memories, 1 worker, 3 revisions, 2 edits, refreshes or approvals | `NoDoubleClaim`, `DeliveryBudget`, `KeptUnlessRequeued`, `FairRanking`; `CleanTracksDeps`, `ImplementsFreshness`, `FirstIsSigned`, `StandingIsPropagated` |
| `progress` | queue: 2 workers, 1 job, 3 attempts; pages: 1 page, 2 memories, 7 revisions, 1 edit; fairness | `ImplementsLifecycle`, `Settles`, `Converges` |
| `knowledge_safety` | intake: 2 clients, 2 harvests, 3 sources; worker: 2 runs of at most 3 jobs, 2 tries; disputes: 3 memories, 3 disputes, 2 requests; review: 2 memories of 2 teams, 4 promotions, 1 claim | `IntakeIsHonest`, `DeliveredOnce`, `KnownConflictIsHeld`, `LedgerIsTrue`, `QuestionIsKept`, `NoPairDeadlock`, `ImplementsLedger`, `StatusIsEarned`, `SupersededStaysClosed`, `OnlyPeopleWithdraw` |
| `surface_safety` | shelf, mining, skills, pairing, signin, wiki, archive, session, guard, search, fusion, composing, scoring | `SecondOnlyByOverlap`, `ShelvesAreSigned`, `PeopleAreHeard`, `PairingIsHonoured`, `SignInsAgree`, `OverlapIsRefused`, `BrowsingIsComplete`, `RepliesMatch`, `AnswersAreGoverned`, `FullAndSettled`, `AlgorithmsAreRight` |
| `machinery` | sweeps, publishing, reembed, health, service, calls, embedding, demand, evaluation; fairness | `BooksAreTrue`, `MovesAreSound`, `HerdHeld`, and the liveness properties `CircuitRecovers`, `DueIsDispatched`, `RevisionArrives`, `GapCloses`, `StopsWhenAsked` |

Seven refute a sentence of the repository; the property states the sentence, the
counterexample is what the code does:

| Run | Sentence | What happens |
|---|---|---|
| `queue_lost_job` | a job is found live or in the archive (queue.rs:367-372) | a late acknowledgement's INSERT misses, a requeue commits, its DELETE takes the requeued row |
| `pages_window` | a memory cannot change in the window and never mark the page that now cites it (documents.rs:567-569) | a memory cited for the first time falls during the compose; no edge names it yet |
| `pages_teams` | a standing change reaches every page that cites the memory (documents.rs:455-456) | the marking UPDATE runs under the reviewer's visibility and misses another team's page |
| `disputes_winner` | no live memory is retired in favour of a retired one (governance.rs:624-628) | feedback deprecates a side and leaves the dispute open; it is then decided for that side |
| `sweeps_double` | two ticks cannot dispatch the same sweep twice (sweeps.rs, comment of run_due) | both sub-selects find the row due; the second UPDATE looks at the kind alone |
| `standards_second` | an already bridged divergence gives its candidate back, never a second one (bridge.rs:70, 55) | a ratification and the mining sweep have found none; one commits before the other asks for the plain slug, which then takes the suffixed one |
| `wiki_overwrite` | a second editor is told instead of silently overwriting the first's save (server/docs.rs, comment of doc_edit) | the request reads the stored prose itself, after the first save |

Several runs carry, beside a module's own bounds, guards that keep the instance
small without losing the meetings the properties are about.  Each is a named
conjunct of the MC module:

* `queue_and_pages`, queue.  One job with three workers already has every overlap of claim,
  reap, acknowledgement and requeue (`Duel`), since jobs interact only in the
  ranking, which the backlog of three jobs of two tenants covers with one worker
  at a time (`Backlog`).
* `queue_and_pages`, pages.  Two memories give a page a citation that is kept and one that
  changes; three revisions with two approvals or edits give an approval out of
  order.
* `knowledge_safety`.  The worker's two runs need two sources of one client and one
  harvest that do not die (`OneOfEach`), since intake is explored by itself
  (`OneFile`: one file, two harvests).  Three memories and three disputes are the
  smallest instance with a sibling to close and a question to carry forward; two
  requests then share a memory, a dispute or a sibling.  `OneInDoubt` lets readers
  and time turn against one memory while both are reviewed.  A cycle of waits among
  dispute rows and memories by two requests needs four memories and is outside
  this instance, as are three requests at once; `NoPairDeadlock` is proved for any
  number.
* `surface_safety`.  The mining sweep only adds candidates, which no page shows, so
  it meets people in a part of its own (`OneAtATime`).  The second tenant's checkouts
  are listed whole and the list rests while a key is on its way (`ListsAreShort`);
  editors and readers share a page (`OnePageOpen`); disputes of the archive stand
  before the walk (`ClaimsFirst`); a spelling of the remote and a state of the
  corpus vary one at a time (`OneOddity`); a retriever's limit of 2 and a pool of 2 among three memories cut
  what there is; two writes of others and a tick of the clock meet the searches
  (`MaxWrites`, `MaxTime`), a supersession and the dispute that carries on, or a
  dispute opened and settled between two statements; the three kinds of search vary their
  filters one at a time (`Plain`), and an answer is read before the next search
  (`SearchPart`).
* `machinery`.  One memory of the two is from before the new version (`OneIsOld`),
  the corpus changes its mind about one question (`OneQuestionMoves`), and pages
  waiting and beliefs going stale do not vary with the rest (`OneTrouble`): the
  score is a sum of pillars, and these two meet in the composite only.

Bounds on revisions, rows, jobs, events and the like are guards of actions and
named constants (`MaxJob`, `MaxCompose`, `MaxTouch`, `MaxDispute`, `MaxRule`,
`MaxRev`, `MaxMishap`, ...).  Deadlock checking is off in every run: these bounds
let a behaviour come to rest with nothing left to do, and so do parts that really
end (an answered search, an exited process).

## Fairness

* `JobQueue`: workers keep polling (`Rank`, weakly fair, as the loop of
  `worker_loop` comes back every interval), a poll is not killed between its two
  statements for ever (`Claim`, strongly fair), a window ends (`Lapse`), a run ends
  one way or the other, since each provider call has a timeout, and its
  acknowledgement is tried.  Crashes and lost acknowledgements may strike every
  time: termination rests on the attempts counter and the reaper.
* `Pages`: a back-off window ends, the sweep comes back, and a page's compose is
  not failed or crashed for ever; the last is an assumption about the model
  provider which the code can only retry for.  Changes may land in every compose
  window until the bound on revisions stops them.
* `Sweeps`: clocks advance (`TwoHours`) and the worker loop ticks (`See`,
  `Dispatch`).  Nothing says that a run ends.
* `Publishing`: a worker's pass goes on (`Steps`) and comes back to the page
  (`ListPages`, strongly fair, since the gate may close in between); lost replies
  and deaths are bounded by `MaxMishap`.
* `Service`: signals are delivered, requests and jobs end, timers fire, and a task
  that can run is run.  A detached sweep need not end.
* `Gateway`: clocks advance, jobs keep calling, calls time out.
* `Demand`: the steps of each scan, so somebody keeps scanning.

The rest are safety specifications.

## Proofs

All theorems hold for every value of the constants that meets the named
assumptions of the modules; TLC evaluates those on every run.  They are bounds
being numbers, sets being finite where the code stores rows, and shapes: in
`Ingest` that a missing key is no key, in `Review` that the engine is no user, in
`Onboarding` that path prefixes are sequences, in `Gateway` that the threshold is
positive and a request takes at least one text, in `Reembed` that memories and
canonicals have ids of their own and a batch is not empty, in `Publishing` that there is a target, since a pass without
targets returns at once, in `Search` that there are finitely many memories and that
they begin as rows of the table, in `Session` that the cap on a line is positive, in `Archive` and `Wiki` that the
word for an absent filter is no value of a field, in `Archive` that a page is not
empty, in `Fusion` that a list is no longer than one more than the rank constant
(`CANDIDATES_PER_RETRIEVER` is 50, `RRF_K` 60), in `Evaluation` that a run has a setup,
in `Scores` that clusters and outputs are numbered, in `Composition` that an id is
none of the other pieces of a text, and in `Guard` that the claimed repositories have
an owner and a name, that no mark of a remote (`/`, `:`, `@`, `.git`) occurs in them,
and that no owner is all digits.  The last the code needs: in
`host/2222/owner/name` it takes the digits for a port.

Some theorems need more, and say so in their statement:

* `LoneWorker` (`CleanPagesTrackDeps`, `CleanPagesShowEdits`, `ReadersAdvance`,
  `ComposesAreAtomic`): one worker process sweeps the wiki.  With two the properties are false: see below.
* `AllSeen` (`CleanPagesTrackDeps`, `StandingStaysPropagated`, `ComposesAreAtomic`): maintainers see every
  page.  Without it `pages_teams` is the counterexample.
* `RequeuesSpare` (`LostOnlyUnderRequeue`, `RequeuesRefineLifecycle`): an operator
  does not requeue a job while the acknowledgement of an earlier run of it is between
  its two statements.  The code does not see to that, and `queue_lost_job` is what
  happens otherwise; the theorems say that nothing else loses a job.  Without
  requeues (`MaxRequeue = 0`, the run `progress`) it holds by itself
  (`RefinesLifecycle`).
* `ConflictsAreNear` (`KnownConflictHeld`): statements in conflict are near each
  other for the embedder.  Otherwise two memories are compared only through an
  entity they share, and two concurrent runs that bootstrap one name twice split
  its anchors; `ComparedConflictHeld` says what is true without it.
* One scheduler, as a hypothesis in words of the theorem
  (`LoneSchedulerNeverDoubles`): `sweeps_double` needs two, and this is all it needs.
* `OnePublisher` (`LedgerIsShown`, `BooksStayTrue`): one worker publishes.  With two,
  the older pass may push over what the newer has recorded.

What each proof rests on is an inductive invariant, in each case the property
with what the code keeps so that it holds:

* `JobQueueProofs`.  `IInv`: a claim whose window runs hides its row
  (`WindowHides`), two archive transactions do not both hold a copied row
  (`SoleCopier`), what a ranking saw is still so or shows under the lock
  (`SnapshotHolds`), an acknowledgement in flight is earned (`AckIsEarned`) and
  deliveries match the attempts (`BudgetCounted`).  From it `TypeCorrect`,
  `OneHomeHolds`, `SingleClaim`, `OkEarned`, `NothingLost`, `BoundedDelivery`,
  `OkFinal`.  `SnapshotSpared` is what `RequeuesSpare` buys: what an acknowledgement
  has not copied is still live or archived, so its DELETE loses nothing; with it
  `LostOnlyUnderRequeue` and, as every step of the queue is a step or a stutter of
  `JobLifecycle` (`LifecycleStep`), the refinement `RequeuesRefineLifecycle`.
  `RankingIsFair` needs `IInv` only for the types and is otherwise about numbers:
  the oldest ready job of a tenant ranks among the first of the tenants' firsts
  (`ReadyRanks`, `RankGrows`), so a batch with room for every tenant takes them all.
* `PagesProofs`.  `FirstPublicationSigned` holds for any fleet and needs `SignInv`:
  revision ids of open composes are distinct, and the revision a compose compares
  itself with is older and was signed.  The theorems for one worker rest on
  `SweepInv`: what the worker holds is dirty, no page is held twice, and a compose
  whose page was not written since it was listed has read the current prose and
  cites only indexed memories that still stand.  `StandingStaysPropagated` needs
  the types only: each decision marks whatever depends on the memories whose
  standing it changes.  `ComposesAreAtomic` is the refinement of `Freshness`: listing,
  reading and citing leave the tables alone, and `Finish` is `Compose` with what it
  brings.  That this is no newer than the page's prose is `ComposesBehind`; that a page
  which becomes clean shows the prose as it is and only standing memories of those it
  named is `SweepInv`; that no first revision is published this way is `SignInv`.
  `Readers!Govern` takes the memories whose standing a decision moves (`GovernRefines`).
* `DisputesProofs`.  `LedgerInv`: row locks are exclusive and a locked dispute stays
  open, a request holds no memories but its pair and takes them in id order, and
  what a request found of its pair when it applied the supersession still holds at
  its commit.  From it `LedgerTrue`, `SupersessionFinal`, `VerdictFinal` and
  `PairsNeverDeadlock`: of requests that wait in a circle, the one that waits for the
  greatest memory would wait for one that waits for a greater (`WaitsGrow`); with `ClosingInv` (whoever was superseded has fallen, and what a
  request has closed is asked again or answered before it commits)
  `NoQuestionIsLost`.  `ResolvesAreAtomic` is the refinement of `Ledger`: everything
  a request does before its commit leaves the tables alone, and the commit is
  `Supersede` of its dispute on the tables as they are then (`CommitDecides`).  That
  whatever hung on the loser has its answer there is `CommitAnswers`, from `ClosingInv`,
  and that nothing else is asked rests on `AskedInv`: what a request asks or has asked
  is the question of a sibling that it has closed.
* `PipelineProofs`, intake.  `IngestInv`: what the unique index holds, committed rows and
  those of open transactions, has each key once (`KeysApart`), a request has in hand
  what is stored and carries its key, and each receipt is backed by a job.
  `AnswersAreAtomic` is the refinement of `Inbox`: with `OpenIsNew` (what a transaction
  holds and has not committed is no committed row) a commit stores its rows in one
  step, and an answer to a retry names what is stored by then, whatever was lost
  on the way.
* `PipelineProofs`, worker.  `WorkInv`: runs begin in order and those that were open
  together are known; copies and double canonicals come only from such pairs
  (`CopiesOf`, `NamesOf`); every memory is judged once; and a conflict that was
  comparable when a memory was judged is on the ledger and holds it (`HeldOf`,
  `HeldInDb`).  `JobsFollowLifecycle` is the refinement of `JobLifecycle` by the jobs
  as the runs see them: with `LifeInv` (a job not yet enqueued has no outcome) an
  acknowledgement writes the outcome of its own run, once (`OutcomeOf`).
* `ReviewProofs`.  `ReviewInv`: a status rests on a decided row, which no later
  decision touches, and nothing that waits in the queue would deprecate.  The module
  also proves `KnowledgeIsOfItsParts`: a behaviour of `KnowledgeMC` is one of intake,
  of the worker, of the ledger and of the review queue, so that the run checks what
  the theorems of three modules state.
* `SurfaceProofs`.  `ProvisionInv`: one request at a time holds an identity's
  uncommitted row, and its loser has the winner's organisation.  `WikiInv`: saves
  add versions one at a time, and pages keep their filing.  `OnboardInv`: rows, requests under way and keys
  agree on the project and the admin, and a claimed pairing has been claimed once;
  that a checkout has one project uses that two listed prefixes of one path of the
  same length are equal.  `ShelfInv`: what a proposer
  has heard of its signal was so when it looked, and of the rules there were then still
  is, as no rejection is taken back (`Heard`); who suffixes its slug has found the
  plain one among the rules there were when it asked (`SoundPlan`, `SoundFinds`), and
  slugs are unique.  So a second rule of a signal has the suffix, and the first was
  committed before the second asked: `AnotherOnlyByOverlap`, and of a rejected signal
  the part of `DecisionsStand`.  `SkillInv`: version numbers grow, and what is served, fetched or answered
  was signed.  `RunIsOfItsParts` says that each behaviour of `SurfaceMC` is a
  behaviour of each part's own specification, so that the run checks what the
  theorems state.
* `MachineryProofs`.  `ScheduleInv`: who has seen the row due will slot it again, and what is seen is not running (`SeenIsRunnable`), from which
  a lone scheduler never doubles.
  `PublishInv`: nothing a target shows is newer than what the open pass brings,
  and what the pass has recorded is out.  `ReembedInv`: the walks cover whatever
  was there when the backfill began.  `HerdInv`: a probe younger than a cooldown
  holds the token, or the circuit cools until it no longer is; so whatever late
  reports do, no second one is admitted beside it.  `DrainInv`: jobs are in hand in a
  tick only and requests while the server serves, so an end that has waited for both
  tears nothing.  `DemandInv`: row locks keep the scans apart.
  `EmbedInv`: there are no more vectors
  than texts, and each is its text's own; a chunk's vectors are put back by how many
  texts that are not blank stand before each place (`BeforeGrows`, `RefillIsChunk`).  `PartsInv`
  puts all of these beside each other for the run; `MovesStaySound` and
  `BooksStayTrue` are the run's properties from it.

The other parts of `SurfaceProofs` are about what people and agents are shown:

* `SessionInv`: the loop stands at the beginning of a line, and of the lines before
  it each one that speaks has its reply in the place that its number among those
  gives it, but for the last while a call is awaited or standard output is gone.
  `PlaceOf` counts by a set's cardinality, so that `EveryLineIsAnswered` needs no
  induction.
* `SearchInv`: once the vector retriever has run, whatever is due (the index finds
  it, it is in scope, in force at the asked time and trusted enough) is among its
  hits unless these are at their limit, and then in the fused pool unless that is at
  its own (`Crowded`), whatever governance does meanwhile; everything that takes a
  place there is in the lens and in the caller's scope; the pool of rows holds all that
  is due and not crowded out, and nothing outside the lens or below the floor; and no hit that is ranked is
  the successor of another.  The last rests on how `chain_head` walks: the walk from
  a memory takes in the walk from its successor (`DirectHitsSpeakOnce`).
  `FullAndSettled` rests on the short list being the first of a numbering, so that
  whoever is cut has a full list of others before it.
* `ArchiveInv`: while nothing has left a walk's filter, every memory that was due and
  has not been seen has at least as many before it as the walk has reached
  (`InFront`, `Reached`).  A page of a numbering is the next `Limit` (`FirstAreCounted`),
  insertions only put more in front, and when the total is reached nothing can be
  that far, since a memory has fewer in front of it than there are.  Menus and
  directory (`MenuIsKept`, `TriageIsKept`, `DirectoryIsKept`) need that no field holds
  the word for an absent filter.
* `FusionIsFair`: fractions are totally ordered and sums grow with their parts
  (`RatioOrder`, `SumGrows`); so `Leads` is a strict order (`LeadsIsOrder`), who leads
  has a subset of the other's leaders before it, and a text match of the longest
  list adds more than the first place of the other; and a cut at any place keeps whoever
  stands before one it keeps.
* `GuardInv`: while a preflight runs, a rule that has been mandatory since it began
  is so now, and whatever is in force now has been seen in force; a move of
  governance keeps that (`GovernanceIsSeen`), so what the agent is told lies between.

`AlgorithmProofs` is about what the algorithms behind an answer compute, for any
input and not only the short ones TLC can list; `AlgorithmsStayRight` puts it together
for the run.  Such results are inductions over a text or a set, and the library's
induction theorems are out of the provers' reach.  They are proved instead from the
least element of a set of numbers, or the smallest of a family of finite sets, that
a counterexample would belong to (`LeastOf`, `SmallestSet`, `UpTo`):

* a fold over a set or a sequence passes through values, one for each part of its
  input (`FoldExists`, `LeftFold`), and what each of its steps keeps holds at its end;
* `ScoresDoAgree`: a sum of shares is full when and only when each share is
  (`FullSum`, `FullFraction`), so full precision is no false merge in both scores,
  and full recall no split;
* `MatchDoesFair`: the order in which pairs are tried is total, so there is one greedy
  match; each pair of another match clashes with a pair of it, in its fact or in its
  output, and each of these answers for two at most;
* `FirewallStands`: what the loop of `enforce_citations` has cleaned so far holds
  markers of handed-out ids only, each recorded as cited, and no other opening unless
  one was never closed (`HonestStep`); so a paragraph with an opening has a
  visible marker (`ParagraphsAreSourced`), and nothing becomes visible where sections
  and evidence blocks are put together (`VisibleApart`, `PiecesApart`);
* `ProjectIsFound`: a joined text splits into its parts again (`JoinedSplits`), so
  one directory's text begins another's when and only when its names do
  (`TextsFollowNames`, `ClaimsByName`), and the longest prefix has the most names; every
  spelling of a remote normalizes to one row (`SpellingsCollide`), and what is no
  remote to none (`GarbageIsNone`).  `MatchInv` carries both through the statements
  of a preflight.

Only model-checked, and why:

* the liveness properties (`Settles`, `Converges`, `CircuitRecovers`,
  `DueIsDispatched`, `RevisionArrives`, `GapCloses`, `StopsWhenAsked`): temporal
  reasoning under fairness and ENABLED are not in the prover's reach;
* every counterexample.

Every safety invariant of a passing run is stated by a theorem.
## Observations

The models contain more behaviour than the runs single out.  Met while modelling,
and visible in them or beside them; each is a reading of the code, most are rare
and some are intended.

Queue and worker
* A late `fail()` of a lapsed claim rewrites `visible_at` and shortens the window
  of the worker that has the job now (queue.rs:206); after a reap and a requeue it
  archives the fresh job as `failed` by the attempts of its own copy (queue.rs:200).
* A job that reported an error once and crashed on its last attempt is `dead`, the
  outcome queue.rs:22-24 describes as never having reported; a job that committed
  and lost its acknowledgement can end `dead` as well, and its source reads "failed".
* The extraction cache is written in the job's transaction, so a failed run loses
  what extract.rs:525-530 says it keeps; and the cache lookup's UPDATE holds a row
  lock for the whole job.
* Overlapping redelivery duplicates memories (extract.rs:808-814), and two runs that
  bootstrap one name leave two canonicals, which split the anchors a third memory is
  compared by.
* Two concurrent jobs with memories in conflict both promote automatically
  (policy.rs:30-34).
* Memories extracted as private have no owner and are seen by nobody.
* A harvest that dies between commit and enqueue leaves sources without a job, as
  does an unkeyed add (http.rs:681); two racing keyed calls can be told two job ids
  although http.rs:703 promises the original one.

Review, feedback and disputes
* Promotions of org-wide memories cannot be reviewed: `actionable_promotion` decodes
  a NULL team_id as a uuid.
* `memory_reverify` has no status check, and lets any writer reverify org-wide
  memories.
* Two concurrent proposals of one memory queue two rows; one approved and one denied
  can reject a canonical memory.  Expired raw memories keep their pending row, and
  approving it brings them back.
* A promotion that adds a claim marks only pages that already depend on the memory
  (governance.rs:222).
* `carry_forward` checks that a counterpart is live before the INSERT
  (governance.rs:728), which others can commit before.
* Two resolves of two disputes about one memory can wait for each other's dispute
  row; Postgres ends that by aborting one.  With retired winners admitted, a chain of
  supersessions can close over three memories; only the two-node cycle is refused
  (governance.rs:285).

Wiki
* A recompose that needs review clears the dirty flag while readers are still
  served the signed revision with the fallen claim (documents.rs:617); of two
  pending revisions the older can be approved (documents.rs:766); a revision approved
  while the worker composes can be replaced by an auto-published one that lost one of
  its claims (compose.rs:538).
* With two worker processes `CleanTracksDeps` and `CurrentAdvances` fail: the
  compare-and-swap of the slower keeps the flag as it finds it, which the faster has
  cleared (documents.rs:614), and `current_revision` is set unconditionally
  (documents.rs:623).
* The citation firewall keeps an unclosed "[m:", so its paragraph counts as backed
  (compose.rs:282-284); a paragraph that begins with '#' hides uncited lines below
  it; removing a marker can splice a new one, which is then flagged for review.
* An editor who reloads sees the last published revision, not the prose saved since;
  `doc_get` over MCP serves an archived page's revision as published.

Library, onboarding, access
* `update_standard` reads before it writes: an update can be lost, and one can land on
  a rule retired or rejected meanwhile.  Retiring a rule on a clean standards page
  leaves its `updated_at`.
* The reads of a proposer are statements of their own (bridge.rs:75 and 106,
  library_sweep.rs:77 and 103): besides the second live candidate of
  `standards_second`, a ratification and its rejection that both commit between them
  let the sweep propose the rejected signal again.
* A signal rejected twice meets its taken suffixed slug, and from then on ratifying it
  and that organisation's mining sweep fail; `mine_all` stops at the first
  organisation that fails.
* Two drafts of a skill can be pending, and publishing the older regresses what is
  served; the hourly budget counts new skills and not versions; `fetch` events can be
  posted over REST although the MCP comment calls them recorded server-side.
* Hourly budgets and `MAX_PENDING` can be exceeded by concurrent requests; any
  organisation's admin can refuse any pairing; a poll that loses to the expiry
  answers "claimed"; a crash after the claim leaves a spent pairing without a key.
* The loser of two first sign-ins leaves an organisation, an owner and a team that
  nobody uses.
* Remotes of the scp form with a user other than git are refused; a path of at least
  four parts whose second is all digits loses it as a port; a repository's name keeps
  its case.
* The hook sends paths as the agent gives them, so absolute ones match no prefix; a
  preflight without a project searches the notes of all.
* An MCP session keeps the authority its token had when it began (http.rs:1667).
* `types.rs` can_read calls the SQL policy its mirror but lacks the clauses for
  isolation and deletion.

Answers
* Statements of a search see different states: a memory disputed at the read and
  decided before the lookup is served on the losing side; one rejected after the
  candidate lists is served where no floor is asked; both ends of a chain are served
  for a past date when its middle is not in the pool.
* A context bundle stops at the first line beyond its budget, and with it drops
  contested lines further down.
* A swing of the feedback prior of 2e-4 does cross adjacent ranks from rank 11 on,
  against the comment that none can.
* Offset paging skips rows that leave the filter mid-walk; the archive's count and
  its list disagree about memories without a team (archive.rs:10-11); the flagged
  queue is ordered without a tie-break.
* The menu of the flagged queue counts an option "org-wide" for memories without a
  team (feedback.rs:472), although it says that no option empties the queue
  (feedback.rs:412-414): no team filter selects them (feedback.rs:234, 312, 389).  Its
  value is the empty string, which the endpoint refuses as a team id and the console
  leaves out of the request (governance-api.ts:341), which then shows the whole queue.
  `TriageLeadsSomewhere` is about the other options.
* A memory that is near, in scope and in force is left out of a search when 50 others
  fill its list or 30 others the fused pool (retrieval.rs:37-38); what is filtered or
  hidden takes no place there.  The vector index is approximate, and the model says
  nothing of what it does not find.
* The limit of re-probes, smaller than the open gaps, starves a low-ranked one; the
  probe uses the ungoverned search (retrieval_events.rs:367); two concurrent scans can
  deadlock on rows; a gap closed as answered stays so when its memory is rejected.

Machinery
* A sweep that is switched off runs once more; the result of a run presumed dead
  overwrites its replacement's status, which admits a third.
* With two publishers the ledger can be ahead of the target, and a create that is not
  recorded before a crash makes a second page.  The publish gate reads what its own
  transaction sees, which health.rs asks a gate not to do.
* Rows written during a backfill may lack a vector of the version it activates.
* Pages waiting 13 hours with a backlog of 14 halve the governance pillar without an
  alert; the attention list is read under the viewer's visibility while the score is
  the organisation's, and drops stale beliefs without a team.
* A late failure of a call from before an outage takes the probe's token and reopens
  the circuit.
* One organisation whose compose tick fails ends the pass for those behind it.
* The worker is at work before the router is built and the port bound (main.rs:496-509).
  If one of these fails, or the server does later (511-517), `serve` returns without
  awaiting the worker and drops its batch; the jobs come back when their windows lapse.
  A signal in that time meets no handler and kills.
* A worker that fails while starting leaves `serve --with-worker` up without one;
  detached sweeps die at exit.
* Strata missing from the evaluation's baseline are no breach, although gates.rs says
  "or vice versa".

## Not modelled, and the plan

`PROJECT.json` lists every component with what is left out of it.  Row-level
security is Postgres's and appears where visibility decides what is written or
served; prompts, parsing, rendering and the text of answers because no property
tells their data apart.  Not modelled at all: the fixtures (sequential loading and
linting of test data), the redaction (regular expressions over a text), and the web
console (a client of the HTTP interface).

What is left, in the order in which it would pay:

* the liveness properties as theorems, when the prover can reason about ENABLED: first
  `Settles` of `JobQueue` and `Converges` of `Pages`, whose safety part (`IInv`,
  `SweepInv`) is proved;
* one refinement from the worker's transaction to the pages: `Pipeline` and `Pages` are
  composed by what the one leaves for the other to read, and no run has both;
* the drivers of the evaluation profiles, as what each stage hands to the next.

