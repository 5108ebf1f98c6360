------------------------------- MODULE Pages -------------------------------
(***************************************************************************)
(* The compiled wiki: documents, their revisions and their dependency      *)
(* index (brainiac-store documents.rs), the compose worker                 *)
(* (brainiac-pipeline worker.rs compose_tick, compose.rs) and the          *)
(* governance decisions that move the memories pages are built from        *)
(* (governance.rs).                                                        *)
(*                                                                         *)
(* A page is dirty while dirty_at is set.  A worker lists the dirty pages  *)
(* in one transaction and composes each in another, whose model calls take *)
(* seconds: governance, edits and approvals commit in between.  The        *)
(* compare-and-swap on documents.updated_at is kept as the fact it tests:  *)
(* whether anything wrote the page's row since the worker's list was read  *)
(* (moved).  Revision ids stand in the order of created_at, which is the   *)
(* start of the compose transaction.  A page binds the memories a visible- *)
(* to-its-audience search can return, Bind[p]; which of them the model     *)
(* then cites is left open, and so is every wall-clock wait.               *)
(***************************************************************************)
EXTENDS Integers, FiniteSets

CONSTANTS
  Memory,       \* memories pages may cite
  Page,         \* documents with composed sections
  Digest,       \* the pages of kind digest
  Composer,       \* worker processes sweeping the wiki
  Actor,        \* maintainers
  Sees,         \* Sees[a]: pages the read policy shows to a's transactions
  Bind,         \* Bind[p]: memories p's sections bind and p's audience may see
  MaxCompose,   \* bound: revisions kept
  MaxTouch      \* bound: edits, digest refreshes and approvals

ASSUME WikiAssumption ==
  /\ Page # {} /\ Digest \subseteq Page
  /\ Sees \in [Actor -> SUBSET Page]
  /\ Bind \in [Page -> SUBSET Memory]
  /\ MaxCompose \in Nat /\ MaxTouch \in Nat

VARIABLES
  status,      \* status[m]: memories.status
  supersededBy,\* supersededBy[m]: superseded_by, m itself for NULL
  pending,     \* memories with a promotion to canonical awaiting review
  exists,      \* pages scaffolded
  dirty,       \* pages with dirty_at set
  throttled,   \* pages inside their failure backoff window
  prose,       \* prose[p]: version of p's pinned section
  deps,        \* deps[p]: document_dependencies of p
  current,     \* current[p]: current_revision, 0 for NULL
  pageOf,      \* pageOf[r]: document_id of revision r
  from,        \* from[r]: composed_from
  decision,    \* decision[r]: policy_decision and reviewed_by of revision r
  listed,      \* listed[w]: pages left on the work list of w's tick
  moved,       \* moved[w]: pages w holds whose row was written since its list
  jobs,        \* open compose transactions
  inked,       \* history: prose version in the last revision written of p
  slipped,     \* history: memories p cites that no edge named when they fell
  touches      \* counts what MaxTouch bounds

memoryVars   == <<status, supersededBy, pending>>
revisionVars == <<pageOf, from, decision>>
pagesVars == <<memoryVars, exists, dirty, throttled, prose, deps, current,
          revisionVars, listed, moved, jobs, inked, slipped, touches>>

RevId    == 1..MaxCompose
Version  == 0..MaxTouch
Statuses == {"candidate", "canonical", "rejected", "deprecated"}
\* "auto": published by policy; "signed": approved by a human.
Decisions == {"none", "pending", "auto", "signed"}
Job == [by : Composer, page : Page, rev : RevId, prev : 0..MaxCompose,
        prose : Version, cited : SUBSET Memory]

Superseded == {m \in Memory : supersededBy[m] # m}
\* What may be on a page: canonical and not superseded.
Standing == {m \in Memory : status[m] = "canonical"} \ Superseded

Written(r)  == decision[r] # "none"
Used        == {r \in RevId : Written(r)} \cup {j.rev : j \in jobs}
\* Revisions in the order their transactions started; an id is used again
\* when its transaction left nothing behind and is the last.
NextRev(rev) == (\A r \in Used : r < rev) /\ (rev = 1 \/ rev - 1 \in Used)
JobsOf(w)   == {j \in jobs : j.by = w}
Held(w)     == listed[w] \cup {j.page : j \in JobsOf(w)}
Idle(w)     == listed[w] = {} /\ JobsOf(w) = {}

\* Mutant: a write that does not bump updated_at.
WriteQuietly(P) == UNCHANGED moved
\* The rows of P are written, and updated_at bumped.
WriteRows(P) == moved' = [w \in Composer |-> moved[w] \cup (P \cap Held(w))]

MarkDirty(P) == dirty' = dirty \cup P /\ WriteRows(P)

\* Mutant: dependents are the pages whose published revision cites m.
DependentsServed(m) == {p \in Page : current[p] # 0 /\ m \in from[current[p]]}
Dependents(m) == {p \in Page : m \in deps[p]}

\* mark_dirty_for_memory, in a transaction of a.
MarkSuspect(a, M) == MarkDirty((UNION {Dependents(m) : m \in M}) \cap Sees[a])

-----------------------------------------------------------------------------
PagesInit ==
  /\ status \in [Memory -> {"candidate", "canonical"}]
  /\ supersededBy = [m \in Memory |-> m]
  /\ pending = {m \in Memory : status[m] = "candidate"}
  /\ exists = {} /\ dirty = {} /\ throttled = {}
  /\ prose = [p \in Page |-> 0]
  /\ deps = [p \in Page |-> {}]
  /\ current = [p \in Page |-> 0]
  /\ pageOf = [r \in RevId |-> CHOOSE p \in Page : TRUE]
  /\ from = [r \in RevId |-> {}]
  /\ decision = [r \in RevId |-> "none"]
  /\ listed = [w \in Composer |-> {}]
  /\ moved = [w \in Composer |-> {}]
  /\ jobs = {}
  /\ inked = [p \in Page |-> 0]
  /\ slipped = [p \in Page |-> {}]
  /\ touches = 0

-----------------------------------------------------------------------------
(* Pages come and are touched. *)

\* scaffold_*: a draft, born dirty.
Create(p) ==
  /\ p \notin exists
  /\ exists' = exists \cup {p}
  /\ MarkDirty({p})
  /\ UNCHANGED <<memoryVars, throttled, prose, deps, current, revisionVars,
                 listed, jobs, inked, slipped, touches>>

\* doc_edit of a pinned section.
EditPinned(a, p) ==
  /\ p \in exists \cap Sees[a]
  /\ touches < MaxTouch
  /\ touches' = touches + 1
  /\ prose' = [prose EXCEPT ![p] = @ + 1]
  /\ MarkDirty({p})
  /\ UNCHANGED <<memoryVars, exists, throttled, deps, current, revisionVars,
                 listed, jobs, inked, slipped>>

\* refresh_digests: the newest revision has aged, at a moment left open.
RefreshDigest(p) ==
  /\ p \in (Digest \cap exists) \ dirty
  /\ touches < MaxTouch
  /\ touches' = touches + 1
  /\ MarkDirty({p})
  /\ UNCHANGED <<memoryVars, exists, throttled, prose, deps, current,
                 revisionVars, listed, jobs, inked, slipped>>

-----------------------------------------------------------------------------
(* Governance moves a memory and marks the pages that depend on it. *)

\* review_one: the status is set whatever it has become meanwhile.
Review(a, m, verdict) ==
  /\ m \in pending
  /\ pending' = pending \ {m}
  /\ status' = [status EXCEPT ![m] = verdict]
  /\ MarkSuspect(a, {m})
  /\ UNCHANGED <<supersededBy, exists, throttled, prose, deps, current,
                 revisionVars, listed, jobs, inked, slipped, touches>>

\* apply_deprecation
Deprecate(a, m) ==
  /\ status[m] # "deprecated" /\ m \notin Superseded
  /\ status' = [status EXCEPT ![m] = "deprecated"]
  /\ MarkSuspect(a, {m})
  /\ UNCHANGED <<supersededBy, pending, exists, throttled, prose, deps, current,
                 revisionVars, listed, jobs, inked, slipped, touches>>

\* apply_supersession, for a dispute between the two: the winner's own
\* standing is not asked, only that it does not point back at the loser.
Supersede(a, loser, winner) ==
  /\ loser # winner
  /\ loser \notin Superseded /\ supersededBy[winner] # loser
  /\ supersededBy' = [supersededBy EXCEPT ![loser] = winner]
  /\ status' = [status EXCEPT ![loser] = "deprecated"]
  /\ MarkSuspect(a, {loser, winner})
  /\ UNCHANGED <<pending, exists, throttled, prose, deps, current,
                 revisionVars, listed, jobs, inked, slipped, touches>>

-----------------------------------------------------------------------------
(* The compose worker. *)

\* dirty_documents
List(w) ==
  /\ Idle(w) /\ dirty \ throttled # {}
  /\ listed' = [listed EXCEPT ![w] = dirty \ throttled]
  /\ moved' = [moved EXCEPT ![w] = {}]
  /\ UNCHANGED <<memoryVars, exists, dirty, throttled, prose, deps, current,
                 revisionVars, jobs, inked, slipped, touches>>

\* The next page's transaction starts; compose_document reads its sections
\* and its current revision.
Begin(w, p, rev) ==
  /\ JobsOf(w) = {} /\ p \in listed[w]
  /\ NextRev(rev)
  /\ jobs' = jobs \cup {[by |-> w, page |-> p, rev |-> rev, prev |-> current[p],
                         prose |-> prose[p], cited |-> {}]}
  /\ listed' = [listed EXCEPT ![w] = @ \ {p}]
  /\ UNCHANGED <<memoryVars, exists, dirty, throttled, prose, deps, current,
                 revisionVars, moved, inked, slipped, touches>>

\* bound_memories
Admitted(p) == Bind[p] \cap Standing

\* A section reads its bound memories and the model cites m.
Cite(j, m) ==
  /\ m \in Admitted(j.page) \ j.cited
  /\ jobs' = (jobs \ {j}) \cup {[j EXCEPT !.cited = @ \cup {m}]}
  /\ UNCHANGED <<memoryVars, exists, dirty, throttled, prose, deps, current,
                 revisionVars, listed, moved, inked, slipped, touches>>

\* Mutant: a first revision counts as an increment on nothing.
MayPublishFirst(j) == j.prev = 0 \/ from[j.prev] \subseteq j.cited
\* The publish policy, for a revision whose every claim is backed.
MayPublish(j) ==
  /\ j.prev # 0
  /\ from[j.prev] \subseteq j.cited \/ j.page \in Digest

\* Mutant: the flag is cleared without the compare-and-swap.
CleanedAlways(j) == TRUE
\* updated_at still is what the worker listed.
Cleaned(j) == j.page \notin moved[j.by]

\* insert_revision and the commit.
Finish(j, unbacked) ==
  LET p    == j.page
      auto == ~ unbacked /\ MayPublish(j)
  IN
  /\ decision' = [decision EXCEPT ![j.rev] = IF auto THEN "auto" ELSE "pending"]
  /\ pageOf' = [pageOf EXCEPT ![j.rev] = p]
  /\ from' = [from EXCEPT ![j.rev] = j.cited]
  /\ deps' = [deps EXCEPT ![p] = j.cited]
  /\ dirty' = IF Cleaned(j) THEN dirty \ {p} ELSE dirty
  /\ throttled' = throttled \ {p}
  /\ current' = IF auto THEN [current EXCEPT ![p] = j.rev] ELSE current
  /\ moved' = [w \in Composer |-> IF w = j.by THEN moved[w] \ {p}
                                ELSE moved[w] \cup ({p} \cap Held(w))]
  /\ jobs' = jobs \ {j}
  /\ inked' = [inked EXCEPT ![p] = j.prose]
  /\ slipped' = [slipped EXCEPT ![p] = (j.cited \ deps[p]) \ Standing]
  /\ UNCHANGED <<memoryVars, exists, prose, listed, touches>>

\* compose_document failed and rolled back; the backoff is best-effort.
Fail(j, recorded) ==
  LET p == j.page IN
  /\ jobs' = jobs \ {j}
  /\ throttled' = IF recorded THEN throttled \cup {p} ELSE throttled
  /\ moved' = [w \in Composer |->
                 IF w = j.by THEN moved[w] \ {p}
                 ELSE IF recorded THEN moved[w] \cup ({p} \cap Held(w))
                 ELSE moved[w]]
  /\ UNCHANGED <<memoryVars, exists, dirty, prose, deps, current, revisionVars,
                 listed, inked, slipped, touches>>

\* Mutant: a page that failed while dirty is never tried again.
UnthrottleClean(p) ==
  /\ p \in throttled \ dirty
  /\ throttled' = throttled \ {p}
  /\ UNCHANGED <<memoryVars, exists, dirty, prose, deps, current, revisionVars,
                 listed, moved, jobs, inked, slipped, touches>>
\* compose_next_at is reached.
Unthrottle(p) ==
  /\ p \in throttled
  /\ throttled' = throttled \ {p}
  /\ UNCHANGED <<memoryVars, exists, dirty, prose, deps, current, revisionVars,
                 listed, moved, jobs, inked, slipped, touches>>

\* The process dies, or insert_revision's error ends the tick.
SweepDies(w) ==
  /\ ~ Idle(w)
  /\ jobs' = jobs \ JobsOf(w)
  /\ listed' = [listed EXCEPT ![w] = {}]
  /\ moved' = [moved EXCEPT ![w] = {}]
  /\ UNCHANGED <<memoryVars, exists, dirty, throttled, prose, deps, current,
                 revisionVars, inked, slipped, touches>>

-----------------------------------------------------------------------------
\* Not yet reviewed, and no newer revision is current.
Approvable(r) ==
  /\ decision[r] \in {"pending", "auto"}
  /\ current[pageOf[r]] <= r

\* approve_revision; dirty_at is left alone.
Approve(a, r) ==
  LET p == pageOf[r] IN
  /\ p \in Sees[a]
  /\ Approvable(r)
  /\ touches < MaxTouch
  /\ touches' = touches + 1
  /\ decision' = [decision EXCEPT ![r] = "signed"]
  /\ current' = [current EXCEPT ![p] = r]
  /\ WriteRows({p})
  /\ UNCHANGED <<memoryVars, exists, dirty, throttled, prose, deps, pageOf,
                 from, listed, jobs, inked, slipped>>

-----------------------------------------------------------------------------
Curate(a) ==
  \/ \E p \in Page : EditPinned(a, p)
  \/ \E m \in Memory, verdict \in {"canonical", "rejected"} : Review(a, m, verdict)
  \/ \E m \in Memory : Deprecate(a, m)
  \/ \E l, v \in Memory : Supersede(a, l, v)
  \/ \E r \in RevId : Approve(a, r)

Compose(w) ==
  \/ List(w)
  \/ \E p \in Page, rev \in RevId : Begin(w, p, rev)
  \/ \E j \in JobsOf(w) :
       \/ \E m \in Memory : Cite(j, m)
       \/ \E unbacked \in BOOLEAN : Finish(j, unbacked)
       \/ \E recorded \in BOOLEAN : Fail(j, recorded)
  \/ SweepDies(w)

PagesNext ==
  \/ \E p \in Page : Create(p) \/ RefreshDigest(p) \/ Unthrottle(p)
  \/ \E a \in Actor : Curate(a)
  \/ \E w \in Composer : Compose(w)

PagesSpec == PagesInit /\ [][PagesNext]_pagesVars

FinishPage(p) ==
  \E j \in jobs : j.page = p /\ \E unbacked \in BOOLEAN : Finish(j, unbacked)

\* worker_loop comes back (List, Begin), a backoff window ends, and a page's
\* compose does not fail or crash for ever.
PagesFairness ==
  /\ \A p \in Page : WF_pagesVars(Unthrottle(p)) /\ SF_pagesVars(FinishPage(p))
  /\ \A w \in Composer :
       /\ SF_pagesVars(List(w))
       /\ \A p \in Page : SF_pagesVars(\E rev \in RevId : Begin(w, p, rev))
PagesFairSpec == PagesSpec /\ PagesFairness

-----------------------------------------------------------------------------
(* Properties. *)

\* Every variable has its type, and only scaffolded pages are dirty, listed,
\* composed or named by a dependency edge.
PagesTypeOK ==
  /\ status \in [Memory -> Statuses]
  /\ supersededBy \in [Memory -> Memory]
  /\ pending \subseteq Memory
  /\ exists \subseteq Page /\ dirty \subseteq exists /\ throttled \subseteq exists
  /\ \A p \in Page \ exists : deps[p] = {}
  /\ prose \in [Page -> 0..touches] /\ inked \in [Page -> Version]
  /\ deps \in [Page -> SUBSET Memory] /\ slipped \in [Page -> SUBSET Memory]
  /\ current \in [Page -> 0..MaxCompose]
  /\ pageOf \in [RevId -> Page] /\ from \in [RevId -> SUBSET Memory]
  /\ decision \in [RevId -> Decisions]
  /\ listed \in [Composer -> SUBSET exists]
  /\ moved \in [Composer -> SUBSET exists]
  /\ jobs \subseteq Job /\ \A j \in jobs : j.page \in exists
  /\ touches \in 0..MaxTouch

\* A page that is not dirty cites only memories that stand, or memories it
\* began to cite in its last compose and that fell during that compose: the
\* dependency index, the marking and the compare-and-swap together lose no
\* other change, whatever governance does while the model is writing.
CleanTracksDeps ==
  \A p \in exists \ dirty : deps[p] \subseteq Standing \cup slipped[p]

\* A page that is not dirty has a revision with its latest pinned prose: an
\* edit saved while the worker composes from the older prose keeps it dirty.
CleanShowsEdits == \A p \in exists \ dirty : inked[p] = prose[p]

SignedBy(p, n) ==
  \E r \in RevId : r <= n /\ pageOf[r] = p /\ decision[r] = "signed"

\* No page is published into existence by the machine: a page with a current
\* revision has one a human signed, no later than the current one, although
\* composes begun before it was signed finish after.
FirstIsSigned == \A p \in Page : current[p] # 0 => SignedBy(p, current[p])

\* Readers never move back to an older revision, although approvals and
\* auto-publication race for the page.
CurrentAdvances == [][\A p \in Page : current'[p] >= current[p]]_pagesVars

\* A change in a memory's standing never goes unnoticed by a page that names
\* it: each one leaves every dependent page dirty.
StandingIsPropagated ==
  [][\A p \in Page : deps[p] \cap Standing # deps[p] \cap Standing' => p \in dirty']_pagesVars

\* A dirty page is recomposed at last, through failures, back-offs, crashes
\* and changes that land while it is composed.
Converges == \A p \in Page : p \in dirty ~> p \notin dirty

-----------------------------------------------------------------------------
(* The inductive invariants of PagesProofs. *)

JobsApart == \A i, j \in jobs : i.rev = j.rev => i = j
CurrentWritten == \A p \in Page : current[p] = 0 \/ Written(current[p])
\* The revision a compose compares itself with is older, and signed before.
JobsFresh ==
  \A j \in jobs :
    /\ ~ Written(j.rev)
    /\ j.prev < j.rev
    /\ j.prev # 0 => SignedBy(j.page, j.prev)
SignInv == JobsApart /\ CurrentWritten /\ JobsFresh /\ FirstIsSigned

\* The deployment the docs describe: one worker process, and maintainers who
\* are members of every team that owns a page.
LoneWorker == \A v, w \in Composer : v = w
AllSeen    == \A a \in Actor : Sees[a] = Page

\* What one worker that sweeps alone relies on: the pages it holds are dirty,
\* no page is held twice, and its revision will be the newest.
OneJob   == \A i, j \in jobs : i = j
HeldOnce == \A j \in jobs : j.page \notin listed[j.by]
HeldDirty == \A w \in Composer : Held(w) \subseteq dirty
JobsNewest == \A j \in jobs, r \in RevId : Written(r) => r < j.rev
\* A compose whose page was not written since it was listed has read the
\* latest prose, and what it cites of the indexed memories still stands.
JobsCurrent ==
  \A j \in jobs : \/ j.page \in moved[j.by]
                  \/ /\ j.prose = prose[j.page]
                     /\ j.cited \cap deps[j.page] \subseteq Standing
SweepInv == /\ OneJob /\ HeldOnce /\ HeldDirty /\ JobsNewest /\ JobsCurrent
            /\ CleanTracksDeps /\ CleanShowsEdits

-----------------------------------------------------------------------------
(* What readers rely on. *)

Readers == INSTANCE Freshness WITH
  stands <- Standing,
  cites  <- deps

\* A compose that lists, reads, cites and writes over seconds, while edits,
\* decisions and approvals commit in between, fails or is cut off, is for readers
\* one step at its commit: a page comes out clean only if it shows what the tables
\* say then, and otherwise stays dirty (documents.rs insert_revision's
\* compare-and-swap on updated_at).
ImplementsFreshness == Readers!Spec

-----------------------------------------------------------------------------
(* What comments in the code say, and the runs refute. *)

\* documents.rs: "a page's dirty-marking must never lag the content it was
\* built from, or a memory could change in the window and never mark the page
\* that now cites it".
CleanCitesStanding == \A p \in exists \ dirty : deps[p] \subseteq Standing

=============================================================================
