-------------------------------- MODULE Archive --------------------------------
(***************************************************************************)
(* Browsing what the organisation knows: an agent walks the archive page by  *)
(* page under a filter while memories arrive and change standing, and a      *)
(* maintainer narrows the archive and the backlog of disputed memories by    *)
(* the menus beside them.  A page and its total are two statements.          *)
(***************************************************************************)
EXTENDS Naturals, FiniteSets, Functions

CONSTANTS Id,         \* ids memories are given, numbers in no order of time
          Early,      \* the ids in use at the start
          Time,       \* instants of created_at; a job's memories share one
          Shape,      \* [kind, team, project] a new memory may have
          None,       \* a NULL team or project
          Limit,      \* page size
          MaxChanges   \* bound on the writes while the archive is read

All == "any"            \* an absent filter
ASSUME ArchiveAssumption ==
  /\ Limit \in Nat \ {0} /\ Early \subseteq Id /\ Id \subseteq Nat /\ IsFiniteSet(Id)
  /\ Time \subseteq Nat /\ \A s \in Shape : All \notin {s.kind, s.team, s.project}

VARIABLES
  rows,       \* the memories the caller may read: id -> [kind, team, project, status, created]
  claims,     \* open wrong and outdated claims per memory
  edits,      \* writes so far
  walk        \* the agent's walk

archiveVars == <<rows, claims, edits, walk>>

Status == {"candidate", "canonical"}
Dim == {"kind", "team", "project", "status"}
NoFilter == [d \in Dim |-> All]
Filters == {f \in [kind : {s.kind : s \in Shape} \union {All}, team : {s.team : s \in Shape} \union {All},
                   project : {s.project : s \in Shape} \union {All}, status : Status \union {All}] : f.team # None}

-----------------------------------------------------------------------------
\* The one WHERE clause and what is built on it.

Matches(m, f) == \A d \in Dim : f[d] = All \/ rows[m][d] = f[d]

\* The page joins the team's name, which a memory without a team has not.
Browsable(f) == {m \in DOMAIN rows : Matches(m, f) /\ rows[m].team # None}
CountOf(f) == Cardinality({m \in DOMAIN rows : Matches(m, f)})

NewestOnly(a, b) == rows[a].created >= rows[b].created       \* Mutant: no tie-break.
Before(a, b) == rows[a].created > rows[b].created \/ (rows[a].created = rows[b].created /\ a < b)
\* The orders ORDER BY allows.
Orders(S) == {rank \in Bijection(S, 1..Cardinality(S)) : \A a, b \in S : rank[a] < rank[b] => Before(a, b)}
PageAt(rank, offset) == {m \in DOMAIN rank : offset < rank[m] /\ rank[m] <= offset + Limit}

\* The menu of a dimension is counted over every filter but its own.
MaskOut(f, d) == [f EXCEPT ![d] = All]
Facet(f, d, v) ==
  Cardinality({m \in DOMAIN rows : Matches(m, MaskOut(f, d)) /\ rows[m][d] = v /\ (d = "team" => v # None)})

\* The backlog of disputed memories: a memory is one dispute whatever its claims.
\* No value of the team's filter matches a NULL; the project's has "none" for it.
Flagged(f, least) ==
  {m \in DOMAIN rows : Matches(m, f) /\ f.team # None /\ claims[m] > 0 /\ claims[m] >= least}
FlaggedCount(f, least) == Cardinality(Flagged(f, least))
FlaggedFacet(d, v) == Cardinality({m \in Flagged(NoFilter, 0) : rows[m][d] = v})
\* The triage page: the total of its own filter beside a menu that ignores it.
FeedbackQueue(f, least) ==
  [total |-> FlaggedCount(f, least),
   facets |-> {[dim |-> d, value |-> rows[m][d], count |-> FlaggedFacet(d, rows[m][d])] :
                 d \in {"kind", "team", "project"}, m \in Flagged(NoFilter, 0)}]

-----------------------------------------------------------------------------
\* The walk of an agent: loop until offset + memories.len() >= total.

NoWalk == [at |-> "idle", filter |-> NoFilter, offset |-> 0, page |-> {}, total |-> 0,
           seen |-> {}, due |-> {}, shrunk |-> FALSE]

Memories == {[kind |-> s.kind, team |-> s.team, project |-> s.project, status |-> status, created |-> t] :
               s \in Shape, status \in Status, t \in Time}
ArchiveInit ==
  /\ rows \in [Early -> Memories]
  /\ claims = [m \in Early |-> 0] /\ edits = 0 /\ walk = NoWalk

BeginWalk(f) ==
  /\ walk.at = "idle" /\ DOMAIN rows # {}
  /\ walk' = [NoWalk EXCEPT !.at = "listing", !.filter = f, !.due = Browsable(f)]
  /\ UNCHANGED <<rows, claims, edits>>

List ==
  /\ walk.at = "listing"
  /\ \E rank \in Orders(Browsable(walk.filter)) :
       LET listed == PageAt(rank, walk.offset) IN
       walk' = [walk EXCEPT !.at = "counting", !.page = listed, !.seen = @ \union listed]
  /\ UNCHANGED <<rows, claims, edits>>

Count ==
  /\ walk.at = "counting"
  /\ walk' = [walk EXCEPT !.at = "answered", !.total = CountOf(walk.filter)]
  /\ UNCHANGED <<rows, claims, edits>>

HasMore == walk.offset + Cardinality(walk.page) < walk.total

Continue ==
  /\ walk.at = "answered" /\ HasMore
  /\ walk' = [walk EXCEPT !.at = "listing", !.offset = @ + Cardinality(walk.page), !.page = {}]
  /\ UNCHANGED <<rows, claims, edits>>
Stop ==
  /\ walk.at = "answered" /\ ~ HasMore
  /\ walk' = [walk EXCEPT !.at = "walked"]
  /\ UNCHANGED <<rows, claims, edits>>
Leave == walk.at = "walked" /\ walk' = NoWalk /\ UNCHANGED <<rows, claims, edits>>

-----------------------------------------------------------------------------
\* Meanwhile.

Alter(shrinks) ==
  /\ edits < MaxChanges /\ edits' = edits + 1
  /\ walk' = IF walk.at = "idle" THEN walk
             ELSE [walk EXCEPT !.shrunk = @ \/ shrinks]

With(f, m, x) == [n \in DOMAIN f \union {m} |-> IF n = m THEN x ELSE f[n]]

\* A job commits a memory, whose created_at is the start of its transaction.
Extract(m, memory) ==
  /\ m \notin DOMAIN rows
  /\ rows' = With(rows, m, memory)
  /\ claims' = With(claims, m, 0)
  /\ Alter(FALSE)

\* A review changes the standing; the memory may leave a walk's filter.
Restatus(m, status) ==
  /\ rows[m].status # status
  /\ rows' = [rows EXCEPT ![m].status = status]
  /\ UNCHANGED claims
  /\ Alter(walk.filter.status \notin {All, status})

ClaimAgainst(m) ==
  /\ claims[m] < 2 /\ claims' = [claims EXCEPT ![m] = @ + 1]
  /\ UNCHANGED rows /\ Alter(FALSE)

WalkStep == List \/ Count \/ Continue \/ Stop \/ Leave
ArchiveNext ==
  \/ \E m \in Id, memory \in Memories : Extract(m, memory)
  \/ \E m \in DOMAIN rows : ClaimAgainst(m) \/ \E status \in Status : Restatus(m, status)
  \/ \E status \in Status \union {All} : BeginWalk([NoFilter EXCEPT !.status = status])
  \/ WalkStep
ArchiveSpec == ArchiveInit /\ [][ArchiveNext]_archiveVars

-----------------------------------------------------------------------------
\* A walk that nothing left meanwhile has seen every memory it could have listed
\* when it began, whatever was inserted above or below its offset (mcp.rs
\* memory_list: it "pages exhaustively").
WalkMissesNothing == walk.at = "walked" /\ ~ walk.shrunk => walk.due \subseteq walk.seen

\* An option of the archive's menu leads to as many memories as it says, under
\* every combination of the other filters, the option chosen before included.
MenuKeepsItsPromise ==
  walk.at = "idle" => \A f \in Filters : \A d \in Dim : \A v \in {rows[m][d] : m \in DOMAIN rows} :
    ~ (d = "team" /\ v = None) =>
      Facet(f, d, v) = CountOf([f EXCEPT ![d] = v])

LeadsTo(option) == FeedbackQueue([NoFilter EXCEPT ![option.dim] = option.value], 0).total

\* And so does an option of the backlog's menu, which ignores the filters (Facet:
\* "so they never pick a filter that empties the queue"); but for the "org-wide" one
\* among the teams, of the memories without a team, which no filter selects.
TriageLeadsSomewhere ==
  walk.at = "idle" => \A option \in FeedbackQueue(NoFilter, 0).facets :
    option.dim # "team" \/ option.value # None => option.count = LeadsTo(option)
=============================================================================
