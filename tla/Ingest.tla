-------------------------------- MODULE Ingest --------------------------------
(***************************************************************************)
(* How knowledge enters: the add and bulk-add endpoints (brainiac-server   *)
(* http.rs), the agents' memory_add (mcp.rs), and the harvest of a         *)
(* repository's wiki (brainiac-pipeline okf_ingest.rs).  Each writes a row *)
(* of sources in one transaction and, after its commit, enqueues a job in  *)
(* another: a request may die in between, and a client that got no answer  *)
(* comes back, with the same Idempotency-Key if it sent one.               *)
(*                                                                         *)
(* Source ids are given in the order of the inserts.  A request holds the  *)
(* sources of its open transaction in batch, and after the commit those it *)
(* has still to enqueue.                                                   *)
(***************************************************************************)
EXTENDS Integers, FiniteSets, Sequences

CONSTANTS
  Client,      \* requests of the endpoints
  Harvester,   \* runs of the harvest
  Key,         \* idempotency keys clients send
  File,        \* files of bundles: path and content, each its key
  Concept,     \* those that are concepts of the bundle and not pages of ours
  NoKey,       \* a source without a key
  NoTeam,      \* the team of a principal that has none
  WikiTeam,    \* the team a harvest is run for
  Body,        \* bodies clients send: records of the fields below
  MaxBulk,     \* bound: items of a bulk add after the first
  MaxStored,   \* bound: sources
  MaxJob       \* bound: jobs

ASSUME IngestAssumption ==
  /\ MaxStored \in Nat /\ MaxJob \in Nat /\ MaxBulk \in Nat
  /\ NoKey \notin Key \cup File
  /\ Key \cap File = {} /\ Concept \subseteq File
  /\ Client \cap Harvester = {} /\ IsFiniteSet(File)
  /\ Body \subseteq [text : STRING, content : {"empty", "fits", "long"},
                     kind : {"none", "known", "unknown"}, entities : {"ok", "bad"},
                     team : STRING, project : {"none", "own", "foreign"}]

VARIABLES
  sources,   \* committed rows of sources
  idKey,     \* idKey[s]: idempotency_key of source s
  raw,       \* raw[s]: what it says: the text of a body, or a file
  team,      \* team[s]: team_id
  nextId,    \* the source id a transaction takes next
  jobs,      \* jobs[j]: the source in the payload of job j
  where,     \* where[c]: the step request c is at
  sent,      \* sent[c]: the key it carries
  body,      \* body[c]: its text and team
  more,      \* more[c]: items of a bulk add after this one
  batch,     \* batch[c]: its sources, uncommitted or not yet enqueued
  receipts   \* <<key, source, job>> of the answers clients have got

sourceVars  == <<sources, idKey, raw, team, nextId>>
intakeVars == <<where, sent, body, more, batch, receipts>>
ingestVars  == <<sourceVars, jobs, intakeVars>>

Source == 1..MaxStored
Intake == Client \cup Harvester
Job     == 1..Len(jobs)

\* encode_add_source: non-empty and capped content, a known kind or none, few
\* and non-empty entity names.
Encodable(b) == b.content = "fits" /\ b.kind # "unknown" /\ b.entities = "ok"
\* effective_project: an explicit project must belong to the caller's org.
Attributable(b) == b.project # "foreign"
\* write_team_id: a team asked for or the principal's first.
HasTeam(b) == b.team # NoTeam
Acceptable(b) == Attributable(b) /\ Encodable(b) /\ HasTeam(b)

\* The unique index: another transaction that inserted k and is undecided.
Undecided(k, c) == \E d \in Intake \ {c} :
                     where[d] = "open" /\ \E s \in batch[d] : idKey[s] = k
Keyed(k) == {s \in sources : idKey[s] = k}
\* job_id_for_source: its jobs, live or archived.
JobsOf(s) == {j \in Job : jobs[j] = s}

IngestInit ==
  /\ sources = {} /\ nextId = 1 /\ jobs = << >> /\ receipts = {}
  /\ idKey = [s \in Source |-> NoKey]
  /\ raw = [s \in Source |-> NoKey]
  /\ team = [s \in Source |-> NoTeam]
  /\ where = [c \in Intake |-> "idle"]
  /\ sent = [c \in Intake |-> NoKey]
  /\ body = [c \in Intake |-> <<NoKey, NoTeam>>]
  /\ more = [c \in Intake |-> 0]
  /\ batch = [c \in Intake |-> {}]

-----------------------------------------------------------------------------
(* Adds. *)

\* A client sends b under key k (NoKey: none), or a bulk add of n more items,
\* which carries no key.  What is refused is refused before any write (of a
\* bulk add the item alone: n counts the others).
Add(c, k, b, n) ==
  /\ where[c] = "idle"
  /\ n > 0 => k = NoKey /\ Acceptable(b)
  /\ sent[c] \in {NoKey, k}
  /\ sent' = [sent EXCEPT ![c] = k]
  /\ body' = [body EXCEPT ![c] = <<b.text, b.team>>]
  /\ more' = [more EXCEPT ![c] = n]
  /\ where' = [where EXCEPT ![c] = IF Acceptable(b) THEN "insert" ELSE "refused"]
  /\ UNCHANGED <<sourceVars, jobs, batch, receipts>>

\* The memory_add of an agent: no key, no bulk, and the team of the principal.
AgentAdd(c, b) ==
  /\ where[c] = "idle" /\ sent[c] = NoKey
  /\ body' = [body EXCEPT ![c] = <<b.text, b.team>>]
  /\ where' = [where EXCEPT ![c] = IF Encodable(b) /\ HasTeam(b) THEN "insert" ELSE "refused"]
  /\ UNCHANGED <<sourceVars, jobs, sent, more, batch, receipts>>

\* Mutant: the insert carries no conflict clause and finds no conflict.
InsertUnchecked(c) ==
  /\ where[c] = "insert" /\ nextId \in Source
  /\ idKey' = [idKey EXCEPT ![nextId] = sent[c]]
  /\ raw' = [raw EXCEPT ![nextId] = body[c][1]]
  /\ team' = [team EXCEPT ![nextId] = body[c][2]]
  /\ batch' = [batch EXCEPT ![c] = {nextId}]
  /\ nextId' = nextId + 1
  /\ where' = [where EXCEPT ![c] = "open"]
  /\ UNCHANGED <<sources, jobs, sent, body, more, receipts>>
\* insert_source, or insert_source_idempotent for a key that is free.
InsertSource(c) ==
  /\ where[c] = "insert" /\ nextId \in Source
  /\ sent[c] # NoKey => ~ Undecided(sent[c], c) /\ Keyed(sent[c]) = {}
  /\ idKey' = [idKey EXCEPT ![nextId] = sent[c]]
  /\ raw' = [raw EXCEPT ![nextId] = body[c][1]]
  /\ team' = [team EXCEPT ![nextId] = body[c][2]]
  /\ batch' = [batch EXCEPT ![c] = {nextId}]
  /\ nextId' = nextId + 1
  /\ where' = [where EXCEPT ![c] = "open"]
  /\ UNCHANGED <<sources, jobs, sent, body, more, receipts>>

\* The key is taken: keyed_source_id names the source to replay.
KeyTaken(c) ==
  /\ where[c] = "insert"
  /\ sent[c] # NoKey /\ Keyed(sent[c]) # {}
  /\ batch' = [batch EXCEPT ![c] = Keyed(sent[c])]
  /\ where' = [where EXCEPT ![c] = "replay"]
  /\ UNCHANGED <<sourceVars, jobs, sent, body, more, receipts>>

\* The transaction of an add or of a harvest commits.
CommitIntake(c) ==
  /\ where[c] = "open"
  /\ sources' = sources \cup batch[c]
  /\ where' = [where EXCEPT ![c] = "stored"]
  /\ UNCHANGED <<idKey, raw, team, nextId, jobs, sent, body, more, batch, receipts>>

\* What follows the last answer of a request: the next item, or the end.
AfterAnswer(c) == IF more[c] > 0 THEN "insert" ELSE "answered"
Rest(n) == IF n > 0 THEN n - 1 ELSE 0
Least(S) == CHOOSE j \in S : \A i \in S : j <= i

\* job_id_for_source for a replay: its first job, or none and it is enqueued.
Replay(c) ==
  /\ where[c] = "replay"
  /\ \E s \in batch[c] :
       IF JobsOf(s) # {}
       THEN /\ receipts' = receipts \cup {<<sent[c], s, Least(JobsOf(s))>>}
            /\ batch' = [batch EXCEPT ![c] = {}]
            /\ where' = [where EXCEPT ![c] = "answered"]
       ELSE /\ where' = [where EXCEPT ![c] = "stored"]
            /\ UNCHANGED <<batch, receipts>>
  /\ UNCHANGED <<sourceVars, jobs, sent, body, more>>

\* enqueue_source; a client gets its receipt, a harvest goes on.
Enqueue(c) ==
  /\ where[c] = "stored" /\ Len(jobs) < MaxJob
  /\ \E s \in batch[c] :
       /\ jobs' = Append(jobs, s)
       /\ batch' = [batch EXCEPT ![c] = @ \ {s}]
       /\ receipts' = IF c \in Client
                      THEN receipts \cup {<<sent[c], s, Len(jobs) + 1>>}
                      ELSE receipts
  /\ more' = [more EXCEPT ![c] = Rest(@)]
  /\ where' = [where EXCEPT ![c] = IF batch'[c] # {} THEN "stored" ELSE AfterAnswer(c)]
  /\ UNCHANGED <<sourceVars, sent, body>>

\* A fault answers 500, or the process or the connection dies: an open
\* transaction rolls back, a bulk add loses its receipts with the rest, and
\* the client may come back; of a harvest nothing is left.
Die(c) ==
  /\ where[c] \notin {"idle", "answered", "refused"}
  /\ where' = [where EXCEPT ![c] = "idle"]
  /\ batch' = [batch EXCEPT ![c] = {}]
  /\ more' = [more EXCEPT ![c] = 0]
  /\ UNCHANGED <<sourceVars, jobs, sent, body, receipts>>

-----------------------------------------------------------------------------
\* harvest: the new concepts of the bundle F are inserted in one transaction;
\* the ones harvested before are unchanged, and pages this system published
\* itself are no evidence.
Harvest(c, F) ==
  /\ where[c] = "idle"
  /\ \A f \in F : ~ Undecided(f, c)
  /\ LET fresh == {f \in F \cap Concept : Keyed(f) = {}}
         ids   == nextId..(nextId + Cardinality(fresh) - 1)
     IN  /\ fresh # {} /\ ids \subseteq Source
         /\ \E file \in [ids -> fresh] :
              /\ \A f \in fresh : \E s \in ids : file[s] = f
              /\ idKey' = [s \in Source |-> IF s \in ids THEN file[s] ELSE idKey[s]]
              /\ raw' = [s \in Source |-> IF s \in ids THEN file[s] ELSE raw[s]]
         /\ team' = [s \in Source |-> IF s \in ids THEN WikiTeam ELSE team[s]]
         /\ batch' = [batch EXCEPT ![c] = ids]
         /\ nextId' = nextId + Cardinality(fresh)
  /\ where' = [where EXCEPT ![c] = "open"]
  /\ UNCHANGED <<sources, jobs, sent, body, more, receipts>>

RequestNext ==
  \/ \E c \in Client :
       \/ \E k \in Key \cup {NoKey}, b \in Body, n \in 0..MaxBulk : Add(c, k, b, n)
       \/ \E b \in Body : AgentAdd(c, b)
       \/ InsertSource(c) \/ KeyTaken(c) \/ Replay(c)
  \/ \E c \in Harvester, F \in SUBSET File : Harvest(c, F)
  \/ \E c \in Intake : CommitIntake(c) \/ Enqueue(c) \/ Die(c)

IngestSpec == IngestInit /\ [][RequestNext]_ingestVars

-----------------------------------------------------------------------------
(* Properties. *)

\* What of the table f of sources others see: the committed rows.
Shown(f) == [s \in Source |-> IF s \in sources THEN f[s] ELSE NoKey]

Mail == INSTANCE Inbox WITH stored <- sources, keyOf <- Shown(idKey), says <- Shown(raw)

\* However requests and harvests interleave, wait for each other, die between
\* commit and enqueue and are retried, clients meet an inbox that stores and
\* answers in single steps.
ImplementsInbox == Mail!Spec

\* Retries under one key, at once or one after the other, end in one source
\* (memory_add with an Idempotency-Key, and a bundle harvested again).
OneSourcePerKey ==
  \A s, t \in sources : idKey[s] = idKey[t] /\ idKey[s] # NoKey => s = t

\* A receipt is good: its source is stored under the key that was sent, its
\* job carries that source, and every receipt for a key names one source.
ReceiptIsBacked ==
  \A r \in receipts :
    /\ r[2] \in sources /\ idKey[r[2]] = r[1]
    /\ r[3] \in Job /\ jobs[r[3]] = r[2]
    /\ \A q \in receipts : q[1] = r[1] /\ r[1] # NoKey => q[2] = r[2]

\* A retry is safe and its answer good, wherever the call before it died.
IntakeIsHonest == OneSourcePerKey /\ ReceiptIsBacked
=============================================================================
