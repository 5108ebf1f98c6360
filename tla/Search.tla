--------------------------------- MODULE Search ---------------------------------
(***************************************************************************)
(* One governed search over a corpus that moves under it.  A search is a     *)
(* series of statements, each with a snapshot of its own: the two candidate  *)
(* retrievers, the graph expansion, the fetch of the direct hits, and the    *)
(* lookup of open contradictions before the top-k cut.  Its point in time is *)
(* fixed at the start.  The order in which fusion puts the candidates is     *)
(* modelled apart; here the cut takes any of them.                           *)
(***************************************************************************)
EXTENDS Naturals, FiniteSets, Functions, FiniteSetsExt

CONSTANTS Mem,          \* memories; numbers, as ids are ordered
          Since,        \* valid_from of each, Ever for NULL
          Begun,        \* the row of each at the start
          AsOf,         \* points in time asked about
          Own,          \* the memories of the isolated project
          Disputed,     \* the contradictions open at the start
          Near,         \* those the vector index can find for the query
          PerRetriever, \* CANDIDATES_PER_RETRIEVER
          FusedPool,    \* FUSED_POOL
          Floors,       \* trust floors a search may ask for
          TopKs,        \* answer sizes a search may ask for
          Lenses,       \* what scope, kinds and confidence may narrow a search to: sets of memories
          Budget,       \* lines that fit a context bundle
          MaxTime, MaxWrites   \* bounds on the clock and on the writes of others

Ever == MaxTime + 1     \* no end, or no beginning, of a validity window
NoSuccessor == 0        \* no successor
AnyTrust == "any"    \* no floor
AnyStatus == {"raw", "candidate", "canonical", "deprecated", "rejected"}
MemoryRow == [status : AnyStatus, next : Mem \union {NoSuccessor}, until : Nat]

ASSUME SearchAssumption ==
  /\ Mem \subseteq Nat \ {0} /\ IsFiniteSet(Mem)
  /\ Begun \in [Mem -> MemoryRow] /\ Lenses \subseteq SUBSET Mem
  /\ TopKs \subseteq Nat /\ MaxTime \in Nat /\ PerRetriever \in Nat /\ FusedPool \in Nat

VARIABLES
  memory,     \* [status, next (superseded_by), until (valid_to)] per memory
  disputes,   \* open contradictions: pairs of memories
  clock, writes,
  search      \* the search under way

searchVars == <<memory, disputes, clock, writes, search>>

NoSearch == [at |-> "idle", via |-> "governed", asOf |-> 0, floor |-> AnyTrust, lens |-> Mem, project |-> FALSE, k |-> 1, ran |-> {},
             near |-> {}, hits |-> {}, fused |-> {}, extras |-> << >>, pool |-> << >>, known |-> << >>, ranked |-> << >>,
             served |-> {}, warned |-> {}, quarrels |-> {}]

SearchInit ==
  /\ memory = Begun
  /\ disputes = Disputed
  /\ clock = 1 /\ writes = 0 /\ search = NoSearch

-----------------------------------------------------------------------------
\* Governance, while the search runs.

Write == writes < MaxWrites /\ writes' = writes + 1 /\ UNCHANGED <<clock, search>>

Standing(m) == memory[m].next = NoSuccessor /\ memory[m].status # "deprecated"

\* A resolved dispute retires its loser, which settles the loser's other disputes and
\* carries those between live memories over to the winner.  Supersession is final, and
\* refuses to close a two-node cycle only.
ApplySupersession(loser, winner) ==
  /\ loser # winner /\ {loser, winner} \in disputes
  /\ memory[loser].next = NoSuccessor /\ memory[winner].next # loser
  /\ memory' = [memory EXCEPT ![loser] = [status |-> "deprecated", next |-> winner, until |-> clock]]
  /\ disputes' = {d \in disputes : loser \notin d} \union
                 {{c, winner} : c \in {m \in Mem \ {loser, winner} :
                                         {m, loser} \in disputes /\ Standing(m) /\ Standing(winner)}}
  /\ Write
Settle(d) == disputes' = disputes \ {d} /\ UNCHANGED memory /\ Write

\* A job's transaction that compared its memory with a neighbour earlier commits.
Detect(new, neighbour) ==
  /\ new # neighbour /\ memory[new].next = NoSuccessor /\ {new, neighbour} \notin disputes
  /\ disputes' = disputes \union {{new, neighbour}} /\ UNCHANGED memory /\ Write

\* A denied promotion.
Withdraw(m) ==
  /\ memory[m].status \in {"candidate", "canonical"}
  /\ memory' = [memory EXCEPT ![m].status = "rejected"] /\ UNCHANGED disputes /\ Write
Later == clock < MaxTime /\ clock' = clock + 1 /\ UNCHANGED <<memory, disputes, writes, search>>

-----------------------------------------------------------------------------
\* What the statements see and admit.

\* The isolation policy, on a pooled connection stamped with the caller's scope.
Scoped(m, s) == m \in Own => s.project

Trust(floor) == CASE floor = AnyTrust -> AnyStatus
                  [] floor = "candidate" -> {"candidate", "canonical"}
                  [] floor = "canonical" -> {"canonical"}
Candidates(s) == {m \in s.lens : Scoped(m, s) /\ memory[m].status \in Trust(s.floor) \ {"rejected"}}

ValidAt(m, row, t) == (Since[m] = Ever \/ Since[m] <= t) /\ (row.until = Ever \/ row.until > t)

Admits(m, row, s) == m \in s.lens /\ row.status \in Trust(s.floor)

Rows(S) == [m \in S |-> memory[m]]

-----------------------------------------------------------------------------
\* temporal.rs, over a pool of rows.

Hop(pool, m) == IF pool[m].next \in DOMAIN pool THEN pool[m].next ELSE m
\* The memories a walk from m meets: the least set with m in it that hops do not leave.
MetFrom(pool, m) ==
  {x \in DOMAIN pool : \A T \in SUBSET DOMAIN pool : m \in T /\ (\A y \in T : Hop(pool, y) \in T) => x \in T}
\* Those it meets whatever it has met: the end of the chain, or the cycle.
LastMet(pool, m) == {x \in MetFrom(pool, m) : \A y \in MetFrom(pool, m) : x \in MetFrom(pool, y)}
\* Mutant: the least of the whole walk.
LeastMet(pool, m) == Min(MetFrom(pool, m))
\* The end of the chain within the pool, or the least member of its cycle.
ChainHead(pool, m) == Min(LastMet(pool, m))

Newer(a, b) == Since[a] # Ever /\ (Since[b] = Ever \/ Since[a] > Since[b])
\* One member of every chain: the newest, and of equals whichever comes first.
Deduped(pool) ==
  {S \in SUBSET DOMAIN pool :
     /\ \A m \in DOMAIN pool : \E w \in S : ChainHead(pool, w) = ChainHead(pool, m) /\ ~ Newer(m, w)
     /\ \A v, w \in S : ChainHead(pool, v) = ChainHead(pool, w) => v = w}

-----------------------------------------------------------------------------
\* The search.

Still == UNCHANGED <<memory, disputes, clock, writes>>

BeginSearch(via, filters, asOf, project, k) ==
  /\ search.at = "idle"
  /\ search' = [NoSearch EXCEPT !.at = "retrieving", !.via = via, !.floor = filters.floor, !.lens = filters.lens,
                                !.asOf = asOf, !.project = project, !.k = k, !.quarrels = disputes]
  /\ Still

\* The agent's floor is candidate unless it asks for the unreviewed; its scope, kinds
\* and confidence only narrow.
ParseFilters(unreviewed, lens) == [floor |-> IF unreviewed THEN AnyTrust ELSE "candidate", lens |-> lens]

\* An agent's search is governed unless it asks for the contested too; the task
\* bundle and the console's search are not, and look for disputes afterwards.
MemorySearch(both, unreviewed, lens, asOf, project, k) ==
  BeginSearch(IF both THEN "open" ELSE "governed", ParseFilters(unreviewed, lens), asOf, project, k)
MemoryContext(asOf, project) ==
  BeginSearch("bundle", [floor |-> "canonical", lens |-> Mem], asOf, project, Cardinality(Mem))
\* The console asks for what floor it likes.
BodyFilters(floor, lens) == [floor |-> floor, lens |-> lens]
RestSearch(floor, lens, asOf, project, k) ==
  BeginSearch("open", BodyFilters(floor, lens), asOf, project, k)

\* What a limit of n may leave of a list: all of it, or n of them.
Limited(S, n) == {T \in SUBSET S : Cardinality(T) <= n /\ (T = S \/ Cardinality(T) = n)}

\* Two connections, two snapshots, in either order; the filters and the policy are
\* in the statement, before its LIMIT.
VectorHits ==
  /\ search.at = "retrieving" /\ "vector" \notin search.ran
  /\ \E S \in Limited(Near \cap Candidates(search), PerRetriever) :
       search' = [search EXCEPT !.ran = @ \union {"vector"}, !.near = S, !.hits = @ \union S]
  /\ Still
TextHits ==
  /\ search.at = "retrieving" /\ "text" \notin search.ran
  /\ \E S \in SUBSET Candidates(search) :
       /\ Cardinality(S) <= PerRetriever
       /\ search' = [search EXCEPT !.ran = @ \union {"text"}, !.hits = @ \union S]
  /\ Still

\* Fusion keeps the first of both lists.
Fuse ==
  /\ search.at = "retrieving" /\ search.ran = {"vector", "text"}
  /\ \E S \in Limited(search.hits, FusedPool) :
       search' = [search EXCEPT !.at = "fused", !.hits = {}, !.fused = S]
  /\ Still

ForEntities(s) == {m \in Candidates(s) : /\ memory[m].status \in {"candidate", "canonical"}
                                         /\ ValidAt(m, memory[m], s.asOf)}
\* Neighbours of the direct hits, filtered in the statement.
GraphExtras ==
  /\ search.at = "fused"
  /\ \E S \in SUBSET ForEntities(search) :
       /\ search.fused = {} => S = {}
       /\ search' = [search EXCEPT !.at = "fetching", !.extras = Rows(S)]
  /\ Still

\* The rows of the direct hits; what is left is assembled, deduplicated and ranked.
FetchDirect ==
  /\ search.at = "fetching"
  /\ LET direct == {m \in search.fused : Scoped(m, search)}
         all == [m \in direct \union DOMAIN search.extras |-> IF m \in direct THEN memory[m] ELSE search.extras[m]]
         fits == {m \in DOMAIN all : ValidAt(m, all[m], search.asOf) /\ Admits(m, all[m], search)}
         pool == [m \in fits |-> all[m]]
     IN \E S \in Deduped(pool) : \E order \in Bijection(S, 1..Cardinality(S)) :
          search' = [search EXCEPT !.at = "ranked", !.pool = pool, !.extras = << >>, !.ranked = order,
                                   !.known = [m \in Mem |-> memory[m].next]]
  /\ Still

Contested(m) == \E d \in disputes : m \in d
FirstOf(S, ranked, k) == {m \in S : Cardinality({n \in S : ranked[n] < ranked[m]}) < k}
\* Mutant: the cut before the gate.
CutFirst(ranked, k) == {m \in FirstOf(DOMAIN ranked, ranked, k) : ~ Contested(m)}
Servable(ranked, k) == FirstOf({m \in DOMAIN ranked : ~ Contested(m)}, ranked, k)

\* One lookup of the open contradictions among the survivors, then the cut.
Serve ==
  /\ search.at = "ranked" /\ search.via = "governed"
  /\ search' = [search EXCEPT !.at = "served", !.served = Servable(search.ranked, search.k),
                              !.quarrels = @ \cap disputes]
  /\ Still
\* Ungoverned: the cut alone.
Cut ==
  /\ search.at = "ranked" /\ search.via # "governed"
  /\ search' = [search EXCEPT !.at = "served", !.served = FirstOf(DOMAIN search.ranked, search.ranked, search.k)]
  /\ Still

\* The handler's own lookup of the disputes among what it got: they are answered
\* with a warning.
Annotate ==
  /\ search.at = "served" /\ search.via # "bundle"
  /\ search' = [search EXCEPT !.at = "done", !.warned = {m \in search.served : Contested(m)},
                              !.quarrels = @ \cap disputes]
  /\ Still
\* The bundle: settled lines until the budget is spent, the contested met on the
\* way set apart.
PackContext ==
  /\ search.at = "served" /\ search.via = "bundle"
  /\ LET before(m) == {n \in search.served : search.ranked[n] <= search.ranked[m] /\ ~ Contested(n)}
         packed == {m \in search.served : Cardinality(before(m)) <= Budget}
     IN search' = [search EXCEPT !.at = "done", !.warned = {m \in packed : Contested(m)},
                                 !.served = packed, !.quarrels = @ \cap disputes]
  /\ Still

Answered == search.at = "done" /\ search' = NoSearch /\ Still

SearchStep == VectorHits \/ TextHits \/ Fuse \/ GraphExtras \/ FetchDirect \/ Serve \/ Cut \/ Annotate \/ PackContext \/ Answered
SearchNext ==
  \/ \E a, b \in Mem : ApplySupersession(a, b) \/ Detect(a, b)
  \/ \E m \in Mem : Withdraw(m)
  \/ \E d \in disputes : Settle(d)
  \/ Later \/ SearchStep
  \/ search.at = "idle" /\ \E asOf \in AsOf, project \in BOOLEAN :
       \/ MemoryContext(asOf, project)
       \/ \E k \in TopKs, lens \in Lenses :
            \/ \E both, unreviewed \in BOOLEAN : MemorySearch(both, unreviewed, lens, asOf, project, k)
            \/ \E floor \in Floors : RestSearch(floor, lens, asOf, project, k)
SearchSpec == SearchInit /\ [][SearchNext]_searchVars

-----------------------------------------------------------------------------
Direct == search.served \cap search.fused
Supersedes(S) == \E a, b \in S : a # b /\ search.known[a] = b

\* Of a memory and its successor only one is a direct hit of an answer, whatever
\* cycles the supersessions close and however the search interleaves with them
\* (chain_head: "Corrupt data degrades to one winner, not a hang and not a double").
DirectHitsSpeakOnce == search.at = "done" => ~ Supersedes(Direct)

\* A memory demoted between the candidate lists and the fetch of its row is not
\* served past the caller's trust floor, and no neighbour comes in over the graph
\* that the caller's narrowing left out (RetrievalFilters: admits).
FloorHolds == search.at = "done" => \A m \in search.served : m \in search.lens /\ search.pool[m].status \in Trust(search.floor)

\* A governed search serves fewer than asked only when nothing uncontested is left
\* (search_governed: "a served set of k really is k whenever k uncontested survivors
\* exist"), and no surface hands out a side of a dispute that was open all along as
\* settled, however it found it.
FullAndSettled ==
  [][/\ search.at = "ranked" /\ search'.at = "served" /\ search.via = "governed"
            /\ Cardinality(search'.served) < search.k =>
          {m \in DOMAIN search.ranked : ~ Contested(m)} \subseteq search'.served
     /\ search.at = "served" /\ search'.at = "done" =>
          \A d \in search'.quarrels : search'.served \cap d \subseteq search'.warned]_searchVars

\* A limit was met by others.
Crowded(m) ==
  \/ m \notin search.near /\ Cardinality(search.near) = PerRetriever
  \/ m \notin search.fused /\ Cardinality(search.fused) = FusedPool

\* Isolation is no blackout: what the caller's own project wrote, near the query,
\* valid and untouched, is among what the answer was made from, unless a full list of
\* others is; and nothing takes a place there that the caller may not see or has
\* filtered out.
OwnIsFound ==
  /\ \A m \in search.near \union search.fused : m \in search.lens /\ Scoped(m, search)
  /\ search.at \in {"ranked", "done"} =>
       \A m \in Near \cap search.lens : (/\ search.project \/ m \notin Own
                        /\ memory[m].next = NoSuccessor /\ memory[m].until = Ever
                        /\ memory[m].status \in Trust(search.floor) \ {"rejected"}
                        /\ ValidAt(m, memory[m], search.asOf)) => m \in DOMAIN search.pool \/ Crowded(m)
=============================================================================
