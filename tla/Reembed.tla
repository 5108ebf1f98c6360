-------------------------------- MODULE Reembed --------------------------------
(***************************************************************************)
(* Swapping the embedder of a live corpus.  Workers and readers run with    *)
(* the old or the new version; an operator's backfill walks the memories,   *)
(* then the canonical entities, that lack a vector of the new version,      *)
(* batch by batch without a transaction, dies and is started again, and     *)
(* marks the version servable when both walks come back empty.              *)
(***************************************************************************)
EXTENDS Naturals, FiniteSets

CONSTANTS Memory, Canonical,   \* rows the pipeline may write
          Old, New,            \* embedding versions
          FetchSize,           \* rows fetched at a time
          MaxDeaths            \* bound on backfills that die

ASSUME ReembedAssumption == Memory \cap Canonical = {} /\ FetchSize \in Nat \ {0}

Row == Memory \union Canonical
Version == {Old, New}

VARIABLES
  rows,      \* live memories and canonical entities
  gone,      \* soft-deleted memories
  vector,    \* memory_embeddings and canonical_entity_embeddings, as <<row, version>>
  version,   \* embedding_versions: "absent", "partial" or "active"
  writing,   \* the version the worker is configured with
  run,       \* the backfill: what it walks and the batch it still has to write
  early,     \* rows that were live when the backfill began
  deaths

reembedVars == <<rows, gone, vector, version, writing, run, early, deaths>>
NoRun == [at |-> "none", batch |-> {}]

ReembedInit ==
  /\ rows = {} /\ gone = {} /\ vector = {} /\ early = {} /\ deaths = 0
  /\ version = [v \in Version |-> "absent"]
  /\ writing = Old /\ run = NoRun

-----------------------------------------------------------------------------
\* Only the first version of a corpus is born complete.

Born == IF \A v \in Version : version[v] = "absent" THEN "active" ELSE "partial"

Ensured(v) == IF version[v] = "absent" THEN [version EXCEPT ![v] = Born] ELSE version

\* A worker starts, with either configuration, and ensures its version.
StartWorker(v) ==
  /\ writing' = v /\ version' = Ensured(v)
  /\ UNCHANGED <<rows, gone, vector, run, early, deaths>>

\* A job commits a memory with its vector, or new canonicals: the resolver first
\* embeds every canonical that lacks the worker's version.
WriteMemory(m) ==
  /\ m \notin rows \union gone /\ version[writing] # "absent"
  /\ rows' = rows \union {m} /\ vector' = vector \union {<<m, writing>>}
  /\ UNCHANGED <<gone, version, writing, run, early, deaths>>

WriteCanonical(c) ==
  /\ c \notin rows /\ version[writing] # "absent"
  /\ rows' = rows \union {c}
  /\ vector' = vector \union {<<d, writing>> : d \in (rows \intersect Canonical) \union {c}}
  /\ UNCHANGED <<gone, version, writing, run, early, deaths>>

DeleteMemory(m) ==
  /\ m \in rows /\ rows' = rows \ {m} /\ gone' = gone \union {m}
  /\ UNCHANGED <<vector, version, writing, run, early, deaths>>

\* A reader ensures its version too, and refuses one that is not complete.
Servable(v) == Ensured(v)[v] = "active"
Serve(v) ==
  /\ version' = Ensured(v)
  /\ UNCHANGED <<rows, gone, vector, writing, run, early, deaths>>

-----------------------------------------------------------------------------
\* The backfill of the new version.

Missing(kind) == {r \in rows \intersect kind : <<r, New>> \notin vector}
Walked == IF run.at = "memories" THEN Memory ELSE Canonical

BeginRun ==
  /\ run = NoRun
  /\ version' = Ensured(New) /\ run' = [NoRun EXCEPT !.at = "memories"] /\ early' = rows
  /\ UNCHANGED <<rows, gone, vector, writing, deaths>>

\* One batch is read, then sent to the embedder.
Fetch ==
  /\ run.at \in {"memories", "canonicals"} /\ run.batch = {} /\ Missing(Walked) # {}
  /\ \E b \in SUBSET Missing(Walked) :
       /\ Cardinality(b) = IF Cardinality(Missing(Walked)) < FetchSize THEN Cardinality(Missing(Walked)) ELSE FetchSize
       /\ run' = [run EXCEPT !.batch = b]
  /\ UNCHANGED <<rows, gone, vector, version, writing, early, deaths>>

\* Each vector of the batch is a statement that commits by itself.
Upsert ==
  /\ \E r \in run.batch :
       /\ vector' = vector \union {<<r, New>>}
       /\ run' = [run EXCEPT !.batch = @ \ {r}]
  /\ UNCHANGED <<rows, gone, version, writing, early, deaths>>

SkipCanonicals == "activate"      \* Mutant: the second walk is left out.
AfterMemories == "canonicals"
WalkDrained ==
  /\ run.at \in {"memories", "canonicals"} /\ run.batch = {} /\ Missing(Walked) = {}
  /\ run' = [run EXCEPT !.at = IF @ = "memories" THEN AfterMemories ELSE "activate"]
  /\ UNCHANGED <<rows, gone, vector, version, writing, early, deaths>>

Activate ==
  /\ run.at = "activate"
  /\ version' = [version EXCEPT ![New] = "active"] /\ run' = NoRun /\ early' = {}
  /\ UNCHANGED <<rows, gone, vector, writing, deaths>>

\* The embedder fails, answers with the wrong number or length, or the process dies.
BackfillDies ==
  /\ run # NoRun /\ deaths < MaxDeaths
  /\ deaths' = deaths + 1 /\ run' = NoRun /\ early' = {}
  /\ UNCHANGED <<rows, gone, vector, version, writing>>

RunStep == Fetch \/ Upsert \/ WalkDrained \/ Activate
ReembedNext ==
  \/ \E v \in Version : StartWorker(v) \/ Serve(v)
  \/ \E m \in Memory : WriteMemory(m) \/ DeleteMemory(m)
  \/ \E c \in Canonical : WriteCanonical(c)
  \/ BeginRun \/ RunStep \/ BackfillDies

ReembedSpec == ReembedInit /\ [][ReembedNext]_reembedVars

-----------------------------------------------------------------------------
\* A version that becomes servable holds a vector of every row, of both kinds,
\* that was in the corpus when the backfill that activates it began, however
\* often one died before (memories.rs ensure_embedding_version: "what stops an
\* interrupted reembed from leaving a half-populated version silently servable").
DrainedBeforeServing ==
  version[New] # "active" /\ version'[New] = "active"
       => \A r \in (IF run = NoRun THEN rows ELSE early \intersect rows) : <<r, New>> \in vector
=============================================================================
