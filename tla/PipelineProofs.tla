---------------------------- MODULE PipelineProofs ----------------------------
(***************************************************************************)
(* What retries, at-least-once delivery and interleaved runs leave in the  *)
(* tables, for any number of clients, harvests, sources, jobs and runs: the *)
(* unique index makes one source of a key and a receipt names it, copies   *)
(* come only from runs that were open together, and a conflict known when  *)
(* a run began is held.                                                    *)
(***************************************************************************)
EXTENDS Pipeline, FiniteSetTheorems, SequenceTheorems, TLAPS

-----------------------------------------------------------------------------
(* Intake. *)

\* Where a request may be, and the keys it may have sent.
Steps == {"idle", "insert", "refused", "open", "replay", "stored", "answered"}
SentKey == Key \cup {NoKey}

\* The types of the tables and of the requests.
IngestTypeOK ==
  /\ sources \subseteq Source /\ nextId \in Nat
  /\ idKey \in [Source -> Key \cup File \cup {NoKey}]
  /\ jobs \in Seq(Source)
  /\ where \in [Intake -> Steps] /\ sent \in [Intake -> SentKey]
  /\ batch \in [Intake -> SUBSET Source]
  /\ receipts \subseteq SentKey \X Source \X Nat

\* Ids are given once.
IdsAreOld == /\ \A s \in sources : s < nextId
             /\ \A c \in Intake : \A s \in batch[c] : s < nextId

\* What the unique index holds: the rows stored and those of open transactions.
Indexed == sources \cup UNION {batch[c] : c \in {d \in Intake : where[d] = "open"}}
\* No key is in it twice: a transaction waits for one that may yet commit it.
KeysApart == \A s, t \in Indexed : idKey[s] = idKey[t] /\ idKey[s] # NoKey => s = t

\* After its commit, or for a replay, a request has stored sources in hand.
InHandIsStored == \A c \in Intake : where[c] \in {"stored", "replay"} => batch[c] \subseteq sources
\* What a client has in hand carries the key it sent.
InHandIsKeyed ==
  \A c \in Client : where[c] \in {"open", "stored", "replay"} => \A s \in batch[c] : idKey[s] = sent[c]

\* A receipt names a stored source of its key and a job of that source.
Backed(r) == r[2] \in sources /\ idKey[r[2]] = r[1] /\ r[3] \in Job /\ jobs[r[3]] = r[2]

\* The inductive invariant of intake.
IngestInv ==
  /\ IngestTypeOK /\ IdsAreOld /\ KeysApart /\ InHandIsStored /\ InHandIsKeyed
  /\ \A r \in receipts : Backed(r)

-----------------------------------------------------------------------------
\* One source of a key: then every receipt for the key names that one.
LEMMA HonestIntake == IngestInv => IntakeIsHonest
<1> SUFFICES ASSUME IngestInv PROVE OneSourcePerKey /\ ReceiptIsBacked
  BY DEF IntakeIsHonest
<1>1. OneSourcePerKey
  BY DEF IngestInv, KeysApart, Indexed, OneSourcePerKey
<1>2. \A r, q \in receipts : q[1] = r[1] /\ r[1] # NoKey => q[2] = r[2]
  BY <1>1 DEF IngestInv, Backed, OneSourcePerKey
<1> QED
  BY <1>1, <1>2 DEF IngestInv, Backed, ReceiptIsBacked

\* Nothing has been sent yet.
LEMMA IngestStart == IngestInit => IngestInv
<1> SUFFICES ASSUME IngestInit PROVE IngestInv
  OBVIOUS
<1> USE DEF IngestInit
<1>1. IngestTypeOK
  BY DEF IngestTypeOK, Steps, SentKey
<1>2. Indexed = {}
  BY DEF Indexed
<1>3. IdsAreOld /\ KeysApart /\ InHandIsStored /\ InHandIsKeyed
  BY <1>2 DEF IdsAreOld, KeysApart, InHandIsStored, InHandIsKeyed, Intake
<1> QED
  BY <1>1, <1>3 DEF IngestInv

\* The least of some jobs is one of them: the initial segments they bound are
\* well-founded under inclusion.
LEMMA LeastIsOne ==
  ASSUME NEW S \in SUBSET Nat, S # {}
  PROVE  Least(S) \in S /\ \A i \in S : Least(S) <= i
<1> DEFINE T == {0..x : x \in S}
           R == StrictSubsetOrdering(Nat)
<1>1. T # {} /\ T \subseteq FiniteSubsetsOf(Nat)
  <2>1. \A x \in S : IsFiniteSet(0..x) /\ 0..x \subseteq Nat
    BY FS_Interval
  <2> QED
    BY <2>1 DEF FiniteSubsetsOf
<1>2. IsWellFoundedOn(R, FiniteSubsetsOf(Nat))
  BY FS_StrictSubsetOrderingWellFounded
<1> HIDE DEF T, R
<1>3. \E X \in T : \A Y \in T : ~ (<<Y, X>> \in R)
  BY <1>1, <1>2, WFMin
<1>4. PICK x \in S : \A y \in S : ~ (<<0..y, 0..x>> \in R)
  BY <1>3 DEF T
<1>5. \A y \in S : x <= y
  <2> SUFFICES ASSUME NEW y \in S, y < x PROVE FALSE
    OBVIOUS
  <2>1. 0..y \subseteq 0..x /\ x \in 0..x /\ x \notin 0..y
    OBVIOUS
  <2>2. 0..y \in SUBSET Nat /\ 0..x \in SUBSET Nat /\ 0..y # 0..x
    BY <2>1
  <2>3. <<0..y, 0..x>> \in R
    BY <2>1, <2>2 DEF R, StrictSubsetOrdering
  <2> QED
    BY <1>4, <2>3
<1> QED
  BY <1>5 DEF Least

-----------------------------------------------------------------------------
(* The steps. *)

\* A step that gives no id and indexes nothing new keeps the keys apart.
LEMMA IndexFrame ==
  ASSUME IngestInv, UNCHANGED <<idKey, nextId, sources>>, NEW c \in Intake,
         NEW to \in Steps \ {"open"}, where' = [where EXCEPT ![c] = to],
         NEW left \in SUBSET batch[c], batch' = [batch EXCEPT ![c] = left]
  PROVE  IdsAreOld' /\ KeysApart'
<1> USE DEF IngestInv, IngestTypeOK
<1>1. \A d \in Intake : batch'[d] \subseteq batch[d] /\ (where'[d] = "open" => where[d] = "open")
  OBVIOUS
<1>2. Indexed' \subseteq Indexed
  BY <1>1 DEF Indexed
<1> QED
  BY <1>1, <1>2 DEF IdsAreOld, KeysApart

\* Sending and dying leave the stored rows and the receipts alone.
LEMMA SendStep ==
  ASSUME IngestInv, NEW c \in Intake,
         \/ c \in Client /\ \E k \in SentKey, b \in Body, n \in 0..MaxBulk : Add(c, k, b, n)
         \/ c \in Client /\ \E b \in Body : AgentAdd(c, b)
         \/ Die(c)
  PROVE  IngestInv'
<1> USE DEF IngestInv, IngestTypeOK
<1>1. PICK to \in {"insert", "refused", "idle"}, k \in SentKey, left \in {batch[c], {}} :
        /\ where' = [where EXCEPT ![c] = to] /\ batch' = [batch EXCEPT ![c] = left]
        /\ sent' = [sent EXCEPT ![c] = k]
        /\ UNCHANGED <<sources, idKey, nextId, jobs, receipts>>
  <2>1. CASE \E k \in SentKey, b \in Body, n \in 0..MaxBulk : Add(c, k, b, n)
    <3>1. PICK k \in SentKey, b \in Body, n \in 0..MaxBulk : Add(c, k, b, n)
      BY <2>1
    <3>2. batch' = [batch EXCEPT ![c] = batch[c]]
      BY <3>1 DEF Add
    <3> QED
      BY <3>1, <3>2 DEF Add, sourceVars
  <2>2. CASE \E b \in Body : AgentAdd(c, b)
    <3>1. batch' = [batch EXCEPT ![c] = batch[c]] /\ sent' = [sent EXCEPT ![c] = sent[c]]
      BY <2>2 DEF AgentAdd
    <3> QED
      BY <2>2, <3>1 DEF AgentAdd, sourceVars
  <2>3. CASE Die(c)
    <3>1. sent' = [sent EXCEPT ![c] = sent[c]]
      BY <2>3 DEF Die
    <3> QED
      BY <2>3, <3>1 DEF Die, sourceVars
  <2> QED
    BY <2>1, <2>2, <2>3
<1>2. IngestTypeOK'
  BY <1>1 DEF Steps
<1>3. IdsAreOld' /\ KeysApart'
  BY <1>1, IndexFrame DEF Steps
<1>4. InHandIsStored' /\ InHandIsKeyed'
  BY <1>1 DEF InHandIsStored, InHandIsKeyed, Intake
<1>5. \A r \in receipts' : Backed(r)'
  BY <1>1 DEF Backed, Job
<1> QED
  BY <1>2, <1>3, <1>4, <1>5

\* A row enters the index under a key nobody else has there.
LEMMA InsertStep ==
  ASSUME IngestInv, NEW c \in Client, InsertSource(c)
  PROVE  IngestInv'
<1> USE DEF IngestInv, IngestTypeOK
<1>0. c \in Intake /\ nextId \in Source /\ where[c] = "insert" /\ nextId' = nextId + 1
  BY DEF InsertSource, Intake
<1>1. /\ idKey' = [idKey EXCEPT ![nextId] = sent[c]] /\ batch' = [batch EXCEPT ![c] = {nextId}]
      /\ where' = [where EXCEPT ![c] = "open"] /\ UNCHANGED <<sources, jobs, sent, receipts>>
  BY DEF InsertSource
<1>2. IngestTypeOK'
  BY <1>0, <1>1 DEF Steps, SentKey
<1>3. IdsAreOld'
  BY <1>0, <1>1 DEF IdsAreOld
<1>4. \A s \in Indexed : s < nextId /\ s \in Source /\ idKey'[s] = idKey[s]
  BY <1>0, <1>1 DEF Indexed, IdsAreOld
<1>5. Indexed' = Indexed \cup {nextId}
  BY <1>0, <1>1 DEF Indexed
<1>6. sent[c] # NoKey => \A s \in Indexed : idKey[s] # sent[c]
  <2> SUFFICES ASSUME sent[c] # NoKey, NEW s \in Indexed PROVE idKey[s] # sent[c]
    OBVIOUS
  <2>1. ~ Undecided(sent[c], c) /\ Keyed(sent[c]) = {}
    BY DEF InsertSource
  <2>2. CASE s \in sources
    BY <2>1, <2>2 DEF Keyed
  <2>3. CASE \E d \in Intake : where[d] = "open" /\ s \in batch[d]
    BY <1>0, <2>1, <2>3 DEF Undecided
  <2> QED
    BY <2>2, <2>3 DEF Indexed
<1>7. KeysApart'
  BY <1>0, <1>1, <1>4, <1>5, <1>6 DEF KeysApart
<1>8. \A d \in Intake \ {c} : batch'[d] = batch[d] /\ where'[d] = where[d]
  BY <1>1
<1>9. \A d \in Intake : \A s \in batch[d] : s # nextId
  BY <1>0 DEF IdsAreOld
<1>10. InHandIsStored'
  BY <1>0, <1>1, <1>8 DEF InHandIsStored
<1>11. InHandIsKeyed'
  <2> SUFFICES ASSUME NEW d \in Client, where'[d] \in {"open", "stored", "replay"}, NEW s \in batch'[d]
               PROVE  idKey'[s] = sent'[d]
    BY DEF InHandIsKeyed
  <2>1. CASE d = c
    BY <1>0, <1>1, <2>1
  <2>2. CASE d # c
    BY <1>0, <1>1, <1>8, <1>9, <2>2 DEF InHandIsKeyed, Intake
  <2> QED
    BY <2>1, <2>2
<1>12. \A r \in receipts' : Backed(r)'
  BY <1>0, <1>1 DEF Backed, Job, IdsAreOld
<1> QED
  BY <1>2, <1>3, <1>7, <1>10, <1>11, <1>12

\* A commit turns indexed rows into stored ones.
LEMMA CommitStep ==
  ASSUME IngestInv, NEW c \in Intake, CommitIntake(c)
  PROVE  IngestInv'
<1> USE DEF IngestInv, IngestTypeOK
<1>1. /\ where[c] = "open" /\ sources' = sources \cup batch[c]
      /\ where' = [where EXCEPT ![c] = "stored"]
      /\ UNCHANGED <<idKey, nextId, jobs, sent, batch, receipts>>
  BY DEF CommitIntake
<1>2. IngestTypeOK'
  BY <1>1 DEF Steps
<1>3. Indexed' \subseteq Indexed
  BY <1>1 DEF Indexed
<1>4. IdsAreOld' /\ KeysApart'
  BY <1>1, <1>3 DEF IdsAreOld, KeysApart
<1>5. InHandIsStored' /\ InHandIsKeyed'
  BY <1>1 DEF InHandIsStored, InHandIsKeyed, Intake
<1>6. \A r \in receipts' : Backed(r)'
  BY <1>1 DEF Backed, Job
<1> QED
  BY <1>2, <1>4, <1>5, <1>6

\* A taken key is replayed: the stored source, with its job when there is one.
LEMMA ReplayStep ==
  ASSUME IngestInv, NEW c \in Client, KeyTaken(c) \/ Replay(c)
  PROVE  IngestInv'
<1> USE DEF IngestInv, IngestTypeOK
<1>0. c \in Intake
  BY DEF Intake
<1>1. CASE KeyTaken(c)
  <2>1. /\ batch' = [batch EXCEPT ![c] = Keyed(sent[c])] /\ where' = [where EXCEPT ![c] = "replay"]
        /\ where[c] = "insert" /\ UNCHANGED <<sources, idKey, nextId, jobs, sent, receipts>>
    BY <1>1 DEF KeyTaken, sourceVars
  <2>2. Keyed(sent[c]) \subseteq sources /\ \A s \in Keyed(sent[c]) : idKey[s] = sent[c]
    BY DEF Keyed
  <2>3. IngestTypeOK'
    BY <2>1, <2>2 DEF Steps
  <2>4. Indexed' \subseteq Indexed
    BY <2>1 DEF Indexed
  <2>5. IdsAreOld' /\ KeysApart'
    BY <2>1, <2>2, <2>4 DEF IdsAreOld, KeysApart
  <2>6. InHandIsStored' /\ InHandIsKeyed'
    BY <2>1, <2>2 DEF InHandIsStored, InHandIsKeyed, Intake
  <2>7. \A r \in receipts' : Backed(r)'
    BY <2>1 DEF Backed, Job
  <2> QED
    BY <2>3, <2>5, <2>6, <2>7
<1>2. CASE Replay(c)
  <2>1. PICK s \in batch[c] :
          IF JobsOf(s) # {}
          THEN /\ receipts' = receipts \cup {<<sent[c], s, Least(JobsOf(s))>>}
               /\ batch' = [batch EXCEPT ![c] = {}]
               /\ where' = [where EXCEPT ![c] = "answered"]
          ELSE /\ where' = [where EXCEPT ![c] = "stored"]
               /\ UNCHANGED <<batch, receipts>>
    BY <1>2 DEF Replay
  <2>2. /\ where[c] = "replay" /\ UNCHANGED <<sources, idKey, nextId, jobs, sent>>
        /\ s \in sources /\ idKey[s] = sent[c] /\ Len(jobs) \in Nat
    BY <1>0, <1>2 DEF Replay, sourceVars, InHandIsStored, InHandIsKeyed
  <2>3. PICK to \in {"answered", "stored"}, left \in {batch[c], {}} :
          where' = [where EXCEPT ![c] = to] /\ batch' = [batch EXCEPT ![c] = left]
    BY <2>1
  <2>4. IdsAreOld' /\ KeysApart'
    BY <1>0, <2>2, <2>3, IndexFrame DEF Steps
  <2>5. InHandIsStored' /\ InHandIsKeyed'
    BY <1>0, <2>2, <2>3 DEF InHandIsStored, InHandIsKeyed, Intake
  <2>6. CASE JobsOf(s) # {}
    <3> DEFINE r == <<sent[c], s, Least(JobsOf(s))>>
    <3>0. JobsOf(s) \in SUBSET Nat
      BY <2>2 DEF JobsOf, Job
    <3>1. Least(JobsOf(s)) \in JobsOf(s)
      BY <2>6, <3>0, LeastIsOne
    <3>2. r[2] \in sources /\ idKey[r[2]] = r[1] /\ r[3] \in Job /\ jobs[r[3]] = r[2]
      BY <2>2, <3>1 DEF JobsOf
    <3>3. r \in SentKey \X Source \X Nat
      BY <1>0, <2>2, <3>2 DEF Job
    <3>4. receipts' = receipts \cup {r}
      BY <2>1, <2>6
    <3> HIDE DEF r
    <3>5. IngestTypeOK'
      BY <2>2, <2>3, <3>3, <3>4 DEF Steps
    <3>6. \A q \in receipts' : Backed(q)'
      BY <2>2, <3>2, <3>4 DEF Backed, Job
    <3> QED
      BY <2>4, <2>5, <3>5, <3>6
  <2>7. CASE JobsOf(s) = {}
    <3>1. receipts' = receipts
      BY <2>1, <2>7
    <3>2. IngestTypeOK'
      BY <2>2, <2>3, <3>1 DEF Steps
    <3>3. \A q \in receipts' : Backed(q)'
      BY <2>2, <3>1 DEF Backed, Job
    <3> QED
      BY <2>4, <2>5, <3>2, <3>3
  <2> QED
    BY <2>6, <2>7
<1> QED
  BY <1>1, <1>2

\* An enqueue adds a job of a stored source, and a client's receipt for it.
LEMMA EnqueueStep ==
  ASSUME IngestInv, NEW c \in Intake, Enqueue(c)
  PROVE  IngestInv'
<1> USE DEF IngestInv, IngestTypeOK
<1>1. PICK s \in batch[c] :
        /\ jobs' = Append(jobs, s) /\ batch' = [batch EXCEPT ![c] = @ \ {s}]
        /\ receipts' = IF c \in Client THEN receipts \cup {<<sent[c], s, Len(jobs) + 1>>}
                                       ELSE receipts
  BY DEF Enqueue
<1>2. /\ where[c] = "stored" /\ UNCHANGED <<sources, idKey, nextId, sent>>
      /\ s \in sources /\ Len(jobs) \in Nat
  BY DEF Enqueue, sourceVars, InHandIsStored
<1>3. PICK to \in {"stored", "insert", "answered"} : where' = [where EXCEPT ![c] = to]
  BY DEF Enqueue, AfterAnswer
<1>4. batch[c] \ {s} \in SUBSET batch[c] /\ batch' = [batch EXCEPT ![c] = batch[c] \ {s}]
  BY <1>1
<1>5. IdsAreOld' /\ KeysApart'
  BY <1>2, <1>3, <1>4, IndexFrame DEF Steps
<1>6. InHandIsStored' /\ InHandIsKeyed'
  BY <1>2, <1>3, <1>4 DEF InHandIsStored, InHandIsKeyed, Intake
<1>7. /\ jobs' \in Seq(Source) /\ Len(jobs') = Len(jobs) + 1 /\ jobs'[Len(jobs) + 1] = s
      /\ \A j \in 1..Len(jobs) : jobs'[j] = jobs[j]
  BY <1>1, <1>2, AppendProperties
<1>8. \A r \in receipts : Backed(r)'
  BY <1>2, <1>7 DEF Backed, Job
<1>9. CASE c \in Client
  <2> DEFINE r == <<sent[c], s, Len(jobs) + 1>>
  <2>1. idKey[s] = sent[c]
    BY <1>2, <1>9 DEF InHandIsKeyed
  <2>2. r[2] \in sources' /\ idKey'[r[2]] = r[1] /\ r[3] \in Job' /\ jobs'[r[3]] = r[2]
    BY <1>2, <1>7, <2>1 DEF Job
  <2>3. r \in SentKey \X Source \X Nat /\ receipts' = receipts \cup {r}
    BY <1>1, <1>2, <1>9
  <2> HIDE DEF r
  <2>4. \A q \in receipts' : Backed(q)'
    BY <1>8, <2>2, <2>3 DEF Backed
  <2>5. IngestTypeOK'
    BY <1>2, <1>3, <1>4, <1>7, <2>3 DEF Steps
  <2> QED
    BY <1>5, <1>6, <2>4, <2>5
<1>10. CASE c \notin Client
  <2>1. receipts' = receipts
    BY <1>1, <1>10
  <2>2. IngestTypeOK'
    BY <1>2, <1>3, <1>4, <1>7, <2>1 DEF Steps
  <2> QED
    BY <1>5, <1>6, <1>8, <2>1, <2>2
<1> QED
  BY <1>9, <1>10

\* As many ids as files: a harvest that covers the files gives each one id.
LEMMA OneIdPerFile ==
  ASSUME IngestAssumption, NEW n \in Nat, NEW S \in SUBSET File,
         NEW file \in [n..(n + Cardinality(S) - 1) -> S],
         \A f \in S : \E s \in n..(n + Cardinality(S) - 1) : file[s] = f
  PROVE  \A s, t \in n..(n + Cardinality(S) - 1) : file[s] = file[t] => s = t
<1> DEFINE ids == n..(n + Cardinality(S) - 1)
<1>1. Cardinality(S) \in Nat
  BY FS_Subset, FS_CardinalityType DEF IngestAssumption
<1>2. IsFiniteSet(ids) /\ Cardinality(ids) = Cardinality(S)
  BY <1>1, FS_Interval, SMTT(30)
<1> HIDE DEF ids
<1>3. file \in Surjection(ids, S)
  BY DEF Surjection, ids
<1>4. file \in Injection(ids, S)
  BY <1>2, <1>3, FS_SurjSameCardinalityImpliesInj
<1> QED
  BY <1>4 DEF Injection, IsInjective, ids

\* A harvest indexes files nobody else has there, each under an id of its own.
LEMMA HarvestStep ==
  ASSUME IngestInv, NEW c \in Harvester, NEW F \in SUBSET File, Harvest(c, F)
  PROVE  IngestInv'
<1> USE DEF IngestInv, IngestTypeOK
<1> DEFINE newest == {f \in F \cap Concept : Keyed(f) = {}}
           ids   == nextId..(nextId + Cardinality(newest) - 1)
<1>0. c \in Intake /\ c \notin Client
  BY IngestAssumption DEF Intake, IngestAssumption
<1>1. PICK file \in [ids -> newest] :
        /\ \A f \in newest : \E s \in ids : file[s] = f
        /\ idKey' = [s \in Source |-> IF s \in ids THEN file[s] ELSE idKey[s]]
  BY DEF Harvest
<1>2. /\ batch' = [batch EXCEPT ![c] = ids] /\ where' = [where EXCEPT ![c] = "open"]
      /\ nextId' = nextId + Cardinality(newest) /\ ids \subseteq Source
      /\ UNCHANGED <<sources, jobs, sent, receipts>>
  BY DEF Harvest
<1>3. /\ \A f \in newest : f \in File /\ f # NoKey /\ Keyed(f) = {} /\ ~ Undecided(f, c)
      /\ where[c] = "idle" /\ newest \in SUBSET File
  BY IngestAssumption DEF IngestAssumption, Harvest
<1>4. Cardinality(newest) \in Nat
  BY <1>3, IngestAssumption, FS_Subset, FS_CardinalityType DEF IngestAssumption
<1>5. \A s, t \in ids : file[s] = file[t] => s = t
  BY <1>1, <1>3, IngestAssumption, OneIdPerFile
<1>6. \A s \in ids : s >= nextId /\ s < nextId' /\ s \in Source /\ file[s] \in newest
  <2> SUFFICES ASSUME NEW s \in ids
               PROVE  s >= nextId /\ s < nextId' /\ s \in Source /\ file[s] \in newest
    OBVIOUS
  <2>1. s \in Source /\ file[s] \in newest
    BY <1>1, <1>2
  <2> HIDE DEF newest
  <2>2. s >= nextId /\ s < nextId'
    BY <1>2, <1>4
  <2> QED
    BY <2>1, <2>2
<1> HIDE DEF newest, ids
<1>7. \A s \in Source : /\ s \in ids => idKey'[s] = file[s]
                        /\ s < nextId => s \notin ids /\ idKey'[s] = idKey[s]
  BY <1>1, <1>6 DEF Source
<1>8. IngestTypeOK'
  <2>1. idKey' \in [Source -> Key \cup File \cup {NoKey}]
    BY <1>1, <1>3, <1>6
  <2> QED
    BY <1>0, <1>2, <1>4, <2>1 DEF Steps
<1>9. IdsAreOld'
  <2>1. nextId <= nextId'
    BY <1>2, <1>4
  <2> QED
    BY <1>0, <1>2, <1>4, <1>6, <2>1 DEF IdsAreOld, Source
<1>10. \A s \in Indexed : s < nextId /\ s \in Source
  BY DEF Indexed, IdsAreOld
<1>11. Indexed' = Indexed \cup ids
  BY <1>0, <1>2, <1>3 DEF Indexed
<1>12. \A s \in Indexed : \A f \in newest : idKey[s] # f
  <2> SUFFICES ASSUME NEW s \in Indexed, NEW f \in newest PROVE idKey[s] # f
    OBVIOUS
  <2>1. CASE s \in sources
    BY <1>3, <2>1 DEF Keyed
  <2>2. CASE \E d \in Intake : where[d] = "open" /\ s \in batch[d]
    BY <1>3, <2>2 DEF Undecided
  <2> QED
    BY <2>1, <2>2 DEF Indexed
<1>13. KeysApart'
  <2>1. \A s \in ids : s \in Source /\ idKey'[s] = file[s] /\ file[s] \in newest
    BY <1>6, <1>7
  <2>2. \A s \in Indexed : idKey'[s] = idKey[s]
    BY <1>7, <1>10
  <2> QED
    BY <1>5, <1>11, <1>12, <2>1, <2>2 DEF KeysApart
<1>14. \A d \in Intake \ {c} : batch'[d] = batch[d] /\ where'[d] = where[d]
  BY <1>2
<1>15. InHandIsStored'
  BY <1>0, <1>2, <1>14 DEF InHandIsStored
<1>16. InHandIsKeyed'
  BY <1>0, <1>2, <1>7, <1>14 DEF InHandIsKeyed, IdsAreOld, Intake
<1>17. \A r \in receipts' : Backed(r)'
  BY <1>2, <1>7 DEF Backed, Job, IdsAreOld
<1> QED
  BY <1>8, <1>9, <1>13, <1>15, <1>16, <1>17

-----------------------------------------------------------------------------
(* The theorem. *)

\* Every step of every request keeps it.
LEMMA IngestStep == IngestInv /\ [RequestNext]_ingestVars => IngestInv'
<1> SUFFICES ASSUME IngestInv, [RequestNext]_ingestVars PROVE IngestInv'
  OBVIOUS
<1>1. CASE \E c \in Client : \/ \E k \in SentKey, b \in Body, n \in 0..MaxBulk : Add(c, k, b, n)
                           \/ \E b \in Body : AgentAdd(c, b)
  <2>1. PICK c \in Client : \/ \E k \in SentKey, b \in Body, n \in 0..MaxBulk : Add(c, k, b, n)
                           \/ \E b \in Body : AgentAdd(c, b)
    BY <1>1
  <2> QED
    BY <2>1, SendStep DEF Intake
<1>2. CASE \E c \in Client : InsertSource(c)
  BY <1>2, InsertStep
<1>3. CASE \E c \in Client : KeyTaken(c) \/ Replay(c)
  BY <1>3, ReplayStep
<1>4. CASE \E c \in Harvester, F \in SUBSET File : Harvest(c, F)
  BY <1>4, HarvestStep
<1>5. CASE \E c \in Intake : CommitIntake(c)
  BY <1>5, CommitStep
<1>6. CASE \E c \in Intake : Enqueue(c)
  BY <1>6, EnqueueStep
<1>7. CASE \E c \in Intake : Die(c)
  BY <1>7, SendStep
<1>8. CASE UNCHANGED ingestVars
  BY <1>8 DEF ingestVars, sourceVars, intakeVars, IngestInv, IngestTypeOK, IdsAreOld, KeysApart,
              Indexed, InHandIsStored, InHandIsKeyed, Backed, Job
<1> QED
  BY <1>1, <1>2, <1>3, <1>4, <1>5, <1>6, <1>7, <1>8 DEF RequestNext, SentKey

\* A client that got no answer may come back under its key: however its calls
\* overlap each other and the harvests, and wherever they die, one source is
\* stored, and each answer names it and a job that carries it.
THEOREM RetriesAreHonest == IngestSpec => []IntakeIsHonest
<1>1. IngestInit => IngestInv
  BY IngestStart
<1>2. IngestInv /\ [RequestNext]_ingestVars => IngestInv'
  BY IngestStep
<1>3. IngestInv => IntakeIsHonest
  BY HonestIntake
<1> QED
  BY <1>1, <1>2, <1>3, PTL DEF IngestSpec

-----------------------------------------------------------------------------
(* Refinement of Inbox: for clients intake stores and answers in one step.   *)

\* What an open transaction has inserted nobody else has.
OpenIsNew ==
  /\ DOMAIN raw = Source
  /\ \A c \in Intake : where[c] = "open" =>
       /\ batch[c] \cap sources = {}
       /\ \A d \in Intake \ {c} : where[d] = "open" => batch[c] \cap batch[d] = {}

\* An insert takes ids that no row has, and leaves the other rows alone.
LEMMA RowsArrive ==
  ASSUME IngestInv, OpenIsNew, NEW c \in Intake,
         \/ c \in Client /\ InsertSource(c)
         \/ \E F \in SUBSET File : Harvest(c, F)
  PROVE  \E ids \in SUBSET Source :
           /\ \A s \in ids : s >= nextId
           /\ batch' = [batch EXCEPT ![c] = ids] /\ where' = [where EXCEPT ![c] = "open"]
           /\ DOMAIN raw' = Source
           /\ \A s \in Source \ ids : idKey'[s] = idKey[s] /\ raw'[s] = raw[s]
           /\ UNCHANGED <<sources, jobs, receipts>>
<1> USE DEF IngestInv, IngestTypeOK, OpenIsNew
<1>1. CASE InsertSource(c)
  <2>1. {nextId} \in SUBSET Source /\ \A s \in {nextId} : s >= nextId
    BY <1>1 DEF InsertSource
  <2> QED
    BY <1>1, <2>1 DEF InsertSource
<1>2. CASE \E F \in SUBSET File : Harvest(c, F)
  <2>1. PICK F \in SUBSET File : Harvest(c, F)
    BY <1>2
  <2> DEFINE newest == {f \in F \cap Concept : Keyed(f) = {}}
             ids   == nextId..(nextId + Cardinality(newest) - 1)
  <2>2. /\ ids \subseteq Source /\ UNCHANGED <<sources, jobs, receipts>>
        /\ batch' = [batch EXCEPT ![c] = ids] /\ where' = [where EXCEPT ![c] = "open"]
    BY <2>1 DEF Harvest
  <2>3. PICK file \in [ids -> newest] :
          /\ idKey' = [s \in Source |-> IF s \in ids THEN file[s] ELSE idKey[s]]
          /\ raw' = [s \in Source |-> IF s \in ids THEN file[s] ELSE raw[s]]
    BY <2>1 DEF Harvest
  <2>4. Cardinality(newest) \in Nat
    BY IngestAssumption, FS_Subset, FS_CardinalityType DEF IngestAssumption
  <2> HIDE DEF newest
  <2>5. \A s \in ids : s >= nextId
    BY <2>4
  <2> HIDE DEF ids
  <2> QED
    BY <2>2, <2>3, <2>5
<1> QED
  BY <1>1, <1>2

\* A step that opens nothing, adds nothing to what is open and stores nothing open
\* elsewhere keeps it.
LEMMA OpenFrame ==
  ASSUME IngestInv, OpenIsNew, UNCHANGED raw,
         NEW c \in Intake,
         \A d \in Intake : where'[d] = "open" => where[d] = "open" /\ batch'[d] \subseteq batch[d],
         sources' = sources \/ (sources' = sources \cup batch[c] /\ where[c] = "open" /\ where'[c] # "open")
  PROVE  OpenIsNew'
<1>1. ASSUME NEW d \in Intake, where'[d] = "open"
      PROVE  batch'[d] \cap sources' = {}
  <2>1. where[d] = "open" /\ batch'[d] \subseteq batch[d] /\ batch[d] \cap sources = {}
    BY <1>1 DEF OpenIsNew
  <2>2. CASE sources' = sources
    BY <2>1, <2>2
  <2>3. CASE sources' = sources \cup batch[c] /\ where[c] = "open" /\ where'[c] # "open"
    <3>1. batch[d] \cap batch[c] = {}
      BY <1>1, <2>1, <2>3 DEF OpenIsNew
    <3> QED
      BY <2>1, <2>3, <3>1
  <2> QED
    BY <2>2, <2>3
<1>2. ASSUME NEW d \in Intake, NEW e \in Intake \ {d}, where'[d] = "open", where'[e] = "open"
      PROVE  batch'[d] \cap batch'[e] = {}
  <2>1. batch[d] \cap batch[e] = {}
    BY <1>2 DEF OpenIsNew
  <2> QED
    BY <1>2, <2>1
<1> QED
  BY <1>1, <1>2 DEF OpenIsNew

\* Every step of every request keeps it.
LEMMA OpenStep == IngestInv /\ OpenIsNew /\ [RequestNext]_ingestVars => OpenIsNew'
<1> SUFFICES ASSUME IngestInv, OpenIsNew, [RequestNext]_ingestVars PROVE OpenIsNew'
  OBVIOUS
<1> USE DEF IngestInv, IngestTypeOK
<1>1. ASSUME NEW c \in Intake, NEW to \in Steps \ {"open"}, where' = [where EXCEPT ![c] = to],
             UNCHANGED raw, \A d \in Intake \ {c} : batch'[d] = batch[d],
             sources' = sources \/ (sources' = sources \cup batch[c] /\ where[c] = "open")
      PROVE  OpenIsNew'
  <2>1. where'[c] # "open" /\ \A d \in Intake \ {c} : where'[d] = where[d]
    BY <1>1
  <2> QED
    BY <1>1, <2>1, OpenFrame
<1>2. ASSUME NEW c \in Client,
             \/ \E k \in SentKey, b \in Body, n \in 0..MaxBulk : Add(c, k, b, n)
             \/ \E b \in Body : AgentAdd(c, b)
      PROVE  OpenIsNew'
  BY <1>1, <1>2 DEF Add, AgentAdd, sourceVars, Steps, Intake
<1>3. ASSUME NEW c \in Client, KeyTaken(c) \/ Replay(c) PROVE OpenIsNew'
  BY <1>1, <1>3 DEF KeyTaken, Replay, sourceVars, Steps, Intake
<1>4. ASSUME NEW c \in Intake, CommitIntake(c) PROVE OpenIsNew'
  BY <1>1, <1>4 DEF CommitIntake, Steps
<1>5. ASSUME NEW c \in Intake, Enqueue(c) PROVE OpenIsNew'
  <2>1. PICK to \in Steps \ {"open"} : where' = [where EXCEPT ![c] = to]
    BY <1>5 DEF Enqueue, AfterAnswer, Steps
  <2>2. UNCHANGED <<raw, sources>> /\ \A d \in Intake \ {c} : batch'[d] = batch[d]
    BY <1>5 DEF Enqueue, sourceVars
  <2> QED
    BY <1>1, <2>1, <2>2
<1>6. ASSUME NEW c \in Intake, Die(c) PROVE OpenIsNew'
  BY <1>1, <1>6 DEF Die, sourceVars, Steps
<1>7. ASSUME NEW c \in Intake,
             \/ c \in Client /\ InsertSource(c)
             \/ \E F \in SUBSET File : Harvest(c, F)
      PROVE  OpenIsNew'
  <2>1. PICK ids \in SUBSET Source :
          /\ \A s \in ids : s >= nextId
          /\ batch' = [batch EXCEPT ![c] = ids] /\ where' = [where EXCEPT ![c] = "open"]
          /\ DOMAIN raw' = Source /\ sources' = sources
    BY <1>7, RowsArrive
  <2>2. /\ sources \cap ids = {}
        /\ \A d \in Intake : batch[d] \cap ids = {}
    BY <2>1 DEF IdsAreOld, Source
  <2>3. /\ batch'[c] = ids /\ \A d \in Intake \ {c} : batch'[d] = batch[d] /\ where'[d] = where[d]
    BY <2>1
  <2> QED
    BY <2>1, <2>2, <2>3 DEF OpenIsNew
<1>8. CASE UNCHANGED ingestVars
  BY <1>8 DEF ingestVars, sourceVars, intakeVars, OpenIsNew
<1> QED
  BY <1>2, <1>3, <1>4, <1>5, <1>6, <1>7, <1>8 DEF RequestNext, SentKey, Intake

\* A commit is one step of the inbox: what was inserted is new, under keys of its own.
LEMMA CommitStores ==
  ASSUME IngestInv, IngestInv', OpenIsNew, NEW c \in Intake, CommitIntake(c)
  PROVE  Mail!Next
<1> USE DEF IngestInv, IngestTypeOK
<1>1. /\ where[c] = "open" /\ sources' = sources \cup batch[c]
      /\ UNCHANGED <<idKey, raw, jobs, receipts>>
  BY DEF CommitIntake
<1>2. batch[c] \in SUBSET Source /\ batch[c] \cap sources = {}
  BY <1>1 DEF OpenIsNew
<1>3. \A s, t \in sources' : idKey'[s] = idKey'[t] /\ idKey'[s] # NoKey => s = t
  BY DEF KeysApart, Indexed
<1>4. \A s \in sources' : Shown(idKey)'[s] = idKey'[s]
  BY DEF Shown
<1>5. /\ Shown(idKey)' = [s \in Source |-> IF s \in batch[c] THEN Shown(idKey)'[s] ELSE Shown(idKey)[s]]
      /\ Shown(raw)' = [s \in Source |-> IF s \in batch[c] THEN Shown(raw)'[s] ELSE Shown(raw)[s]]
  BY <1>1, <1>2 DEF Shown
<1>6. Mail!Store(batch[c])
  BY <1>1, <1>2, <1>3, <1>4, <1>5 DEF Mail!Store
<1> QED
  BY <1>2, <1>6 DEF Mail!Next

\* So is an enqueue, whose client is told of the new job under the key it sent.
LEMMA EnqueueShows ==
  ASSUME IngestInv, NEW c \in Intake, Enqueue(c)
  PROVE  Mail!Next
<1> USE DEF IngestInv, IngestTypeOK
<1>1. PICK s \in batch[c] :
        /\ jobs' = Append(jobs, s)
        /\ receipts' = IF c \in Client THEN receipts \cup {<<sent[c], s, Len(jobs) + 1>>}
                                       ELSE receipts
  BY DEF Enqueue
<1>2. /\ s \in sources /\ s \in Source /\ Len(jobs') = Len(jobs) + 1
      /\ UNCHANGED <<sources, idKey, raw>>
  BY <1>1 DEF Enqueue, sourceVars, InHandIsStored
<1>3. UNCHANGED <<sources, Shown(idKey), Shown(raw)>>
  BY <1>2 DEF Shown
<1>4. UNCHANGED receipts \/ Mail!Tell(s, Len(jobs'))
  <2>1. ASSUME c \in Client PROVE sent[c] = Shown(idKey)[s]
    BY <1>2, <2>1 DEF Enqueue, InHandIsKeyed, Shown
  <2> QED
    BY <1>1, <1>2, <2>1 DEF Mail!Tell
<1>5. Mail!Enqueue(s)
  BY <1>1, <1>2, <1>3, <1>4 DEF Mail!Enqueue
<1> QED
  BY <1>2, <1>5 DEF Mail!Next

\* A replay tells of the first job of the source stored under the key, or of none.
LEMMA ReplayRecalls ==
  ASSUME IngestInv, NEW c \in Client, Replay(c)
  PROVE  Mail!Next \/ UNCHANGED Mail!vars
<1> USE DEF IngestInv, IngestTypeOK
<1>1. PICK s \in batch[c] :
        IF JobsOf(s) # {} THEN receipts' = receipts \cup {<<sent[c], s, Least(JobsOf(s))>>}
                          ELSE receipts' = receipts
  BY DEF Replay
<1>2. /\ s \in sources /\ s \in Source /\ Len(jobs) \in Nat /\ sent[c] = Shown(idKey)[s]
      /\ UNCHANGED <<sources, idKey, raw, jobs>>
  BY <1>1 DEF Replay, sourceVars, InHandIsStored, InHandIsKeyed, Shown, Intake
<1>3. UNCHANGED <<sources, Shown(idKey), Shown(raw), jobs>>
  BY <1>2 DEF Shown
<1>4. CASE JobsOf(s) # {}
  <2> DEFINE j == Least(JobsOf(s))
  <2>1. JobsOf(s) \in SUBSET Nat
    BY <1>2 DEF JobsOf, Job
  <2>2. j \in JobsOf(s) /\ \A i \in JobsOf(s) : j <= i
    BY <1>4, <2>1, LeastIsOne
  <2>3. j \in 1..Len(jobs) /\ jobs[j] = s
    BY <2>2 DEF JobsOf, Job
  <2>4. \A i \in 1..(j - 1) : jobs[i] # s
    <3> SUFFICES ASSUME NEW i \in 1..(j - 1), jobs[i] = s PROVE FALSE
      OBVIOUS
    <3>1. i \in JobsOf(s)
      BY <1>2, <2>3 DEF JobsOf, Job
    <3> QED
      BY <1>2, <2>2, <2>3, <3>1
  <2>5. receipts' = receipts \cup {<<Shown(idKey)[s], s, j>>}
    BY <1>1, <1>2, <1>4
  <2> HIDE DEF j
  <2>6. Mail!Recall(s, j)
    BY <1>2, <1>3, <2>3, <2>4, <2>5 DEF Mail!Recall, Mail!Tell
  <2> QED
    BY <1>2, <2>3, <2>6 DEF Mail!Next
<1>5. CASE JobsOf(s) = {}
  BY <1>1, <1>3, <1>5 DEF Mail!vars
<1> QED
  BY <1>4, <1>5

\* Every other step of a request is invisible.
LEMMA MailStep ==
  IngestInv /\ IngestInv' /\ OpenIsNew /\ [RequestNext]_ingestVars => [Mail!Next]_(Mail!vars)
<1> SUFFICES ASSUME IngestInv, IngestInv', OpenIsNew, [RequestNext]_ingestVars
             PROVE  Mail!Next \/ UNCHANGED Mail!vars
  OBVIOUS
<1>1. ASSUME UNCHANGED <<sources, jobs, receipts>>, \A s \in sources : idKey'[s] = idKey[s] /\ raw'[s] = raw[s]
      PROVE  UNCHANGED Mail!vars
  BY <1>1 DEF Mail!vars, Shown
<1>2. ASSUME NEW c \in Client,
             \/ \E k \in Key \cup {NoKey}, b \in Body, n \in 0..MaxBulk : Add(c, k, b, n)
             \/ \E b \in Body : AgentAdd(c, b)
             \/ KeyTaken(c)
      PROVE  UNCHANGED Mail!vars
  BY <1>1, <1>2 DEF Add, AgentAdd, KeyTaken, sourceVars
<1>3. ASSUME NEW c \in Intake, Die(c) PROVE UNCHANGED Mail!vars
  BY <1>1, <1>3 DEF Die, sourceVars
<1>4. ASSUME NEW c \in Intake,
             \/ c \in Client /\ InsertSource(c)
             \/ \E F \in SUBSET File : Harvest(c, F)
      PROVE  UNCHANGED Mail!vars
  <2>1. PICK ids \in SUBSET Source :
          /\ \A s \in ids : s >= nextId
          /\ \A s \in Source \ ids : idKey'[s] = idKey[s] /\ raw'[s] = raw[s]
          /\ UNCHANGED <<sources, jobs, receipts>>
    BY <1>4, RowsArrive
  <2>2. sources \subseteq Source \ ids
    BY <2>1 DEF IngestInv, IngestTypeOK, IdsAreOld, Source
  <2> QED
    BY <1>1, <2>1, <2>2
<1>5. CASE UNCHANGED ingestVars
  BY <1>1, <1>5 DEF ingestVars, sourceVars, intakeVars
<1>6. ASSUME NEW c \in Client, Replay(c) PROVE Mail!Next \/ UNCHANGED Mail!vars
  BY <1>6, ReplayRecalls
<1>7. ASSUME NEW c \in Intake, CommitIntake(c) PROVE Mail!Next
  BY <1>7, CommitStores
<1>8. ASSUME NEW c \in Intake, Enqueue(c) PROVE Mail!Next
  BY <1>8, EnqueueShows
<1> QED
  BY <1>2, <1>3, <1>4, <1>5, <1>6, <1>7, <1>8 DEF RequestNext, Intake

\* For its clients intake stores and answers in single steps: a key is checked and
\* its row stored at once although insert, wait and commit lie apart, what was
\* stored is never changed by what comes later under its key, and an answer names
\* the first job of its source or one just enqueued (http.rs, mcp.rs, okf_ingest.rs).
THEOREM AnswersAreAtomic == IngestSpec => ImplementsInbox
<1>1. IngestInit => IngestInv /\ OpenIsNew /\ Mail!Init
  <2>1. IngestInit => OpenIsNew /\ Mail!Init
    BY DEF IngestInit, OpenIsNew, Mail!Init, Shown
  <2> QED
    BY <2>1, IngestStart
<1>2. IngestInv /\ OpenIsNew /\ [RequestNext]_ingestVars => IngestInv' /\ OpenIsNew'
  BY IngestStep, OpenStep
<1>3. IngestInv /\ IngestInv' /\ OpenIsNew /\ [RequestNext]_ingestVars => [Mail!Next]_(Mail!vars)
  BY MailStep
<1> QED
  BY <1>1, <1>2, <1>3, PTL DEF IngestSpec, ImplementsInbox, Mail!Spec

-----------------------------------------------------------------------------
(* The runs. *)

\* The tables of a run's transaction and the stages of a run.
Tables == {"memories", "entities", "canonicals", "aliases", "links", "mentions",
           "disputes", "decisions", "cache"}
Stages == {"none", "open", "committed", "failed", "done", "gave up"}
Over   == {"committed", "done"}

\* The tables are there for every run; what a row looks like, its writer decides.
PipelineTypeOK ==
  /\ db = [t \in Tables |-> db[t]]
  /\ work = [r \in Run |-> [t \in Tables |-> work[r][t]]]
  /\ jobState = [j \in 1..MaxJob |-> jobState[j]] /\ Len(jobs) <= MaxJob
  /\ runJob \in [Run -> Nat] /\ stage \in [Run -> Stages] /\ chunk \in [Run -> Nat]
  /\ fresh = [r \in Run |-> fresh[r]] /\ unjudged = [r \in Run |-> unjudged[r]]

\* Runs begin in their order, each of a job there is, and those that were ever
\* open together are known.
RunsInOrder ==
  /\ \A q, r \in Run : q < r /\ stage[r] # "none" => stage[q] # "none"
  /\ \A q, r \in Run : q < r /\ stage[q] = "open" /\ stage[r] # "none" => {q, r} \in beside
  /\ \A r \in Run : stage[r] # "none" => runJob[r] \in Job

\* The queue says ok of a job that a run has committed.
OkIsCommitted ==
  \A j \in 1..MaxJob : jobState[j] = "ok" => \E r \in Run : runJob[r] = j /\ stage[r] \in Over

\* The rows of open transactions and those that are committed name their run.
RowsOfRuns ==
  /\ \A r \in Run :
       /\ stage[r] # "open" => \A t \in Tables : work[r][t] = {}
       /\ \A m \in work[r].memories : m.run = r /\ m.at \in 0..(chunk[r] - 1) /\ m.source = SourceOf(r)
       /\ \A c \in work[r].canonicals : c.run = r
       /\ \A p \in work[r].mentions : p[1] \in work[r].memories
  /\ \A m \in db.memories : m.run \in Run /\ stage[m.run] \in Over /\ m.source = SourceOf(m.run)
  /\ \A c \in db.canonicals : c.run \in Run /\ stage[c.run] \in Over
  /\ \A p \in db.mentions : p[1] \in db.memories

\* Two copies of a memory: what a source has said twice.
Copies(m, o) == m.source = o.source /\ m.says = o.says /\ m # o /\ Readable(m)
\* The runs that made two memories were open together.
Beside(m, o) == {m.run, o.run} \in beside
CopiesOf(r) ==
  \A m \in work[r].memories, o \in db.memories \cup work[r].memories : Copies(m, o) => Beside(m, o)
NamesOf(r) ==
  \A c \in work[r].canonicals, d \in db.canonicals \cup work[r].canonicals :
    c.name = d.name /\ c # d => Beside(c, d)

\* A run's memories are judged once or are still to be judged.
JudgedOf(r) ==
  /\ unjudged[r] \subseteq work[r].memories
  /\ \A m \in work[r].memories : Readable(m) =>
       m \in unjudged[r] \/ \E d \in work[r].decisions : d[1] = m
  /\ \A d \in work[r].decisions : d[1] \in work[r].memories \ unjudged[r]
  /\ \A d, e \in work[r].decisions : d[1] = e[1] => d = e

\* o is among the neighbours of m: they share an entity, or are near.
Comparable(mentions, m, o) ==
  \/ \E e : <<m, e>> \in mentions /\ <<o, e>> \in mentions
  \/ <<o.says, m.says>> \in Near
\* The conflict of m with o is on the ledger, and m waits for it.
Held(disputes, decisions, m, o) ==
  <<o, m>> \in disputes /\ \A d \in decisions : d[1] = m => d[2] \notin AutoRules
\* Two readable memories that contradict each other.
Contradicts(m, o) == Opposed(m, o) /\ Readable(m) /\ Readable(o)

HeldOf(r) ==
  \A m \in work[r].memories \ unjudged[r], o \in db.memories :
    Contradicts(m, o) /\ ~ Beside(m, o) /\ Comparable(db.mentions \cup work[r].mentions, m, o)
      => Held(work[r].disputes, work[r].decisions, m, o)
HeldInDb ==
  \A m, o \in db.memories :
    Contradicts(m, o) /\ o.run < m.run /\ ~ Beside(m, o) /\ Comparable(db.mentions, m, o)
      => Held(db.disputes, db.decisions, m, o)
DecisionsInDb == \A d \in db.decisions : d[1] \in db.memories

RunInv(r) == CopiesOf(r) /\ NamesOf(r) /\ JudgedOf(r) /\ HeldOf(r)
\* The inductive invariant of the worker.
WorkInv ==
  /\ IngestInv /\ PipelineTypeOK /\ RunsInOrder /\ OkIsCommitted /\ RowsOfRuns
  /\ \A r \in Run : RunInv(r)
  /\ RedeliveryCollapses /\ OneCanonicalPerName /\ NothingInLimbo
  /\ DecisionsInDb /\ HeldInDb

-----------------------------------------------------------------------------
(* Tables and jobs. *)

\* The endpoints only append to the jobs there are.
LEMMA JobsGrow ==
  ASSUME IngestInv, Len(jobs) <= MaxJob, [RequestNext]_ingestVars
  PROVE  /\ Len(jobs) \in Nat /\ Len(jobs') \in Nat /\ Len(jobs') <= MaxJob
         /\ \A j \in Job : j \in Job' /\ jobs'[j] = jobs[j]
<1> USE DEF IngestInv, IngestTypeOK
<1>1. CASE \E c \in Intake : Enqueue(c)
  <2>1. PICK c \in Intake, s \in Source : Len(jobs) < MaxJob /\ jobs' = Append(jobs, s)
    BY <1>1 DEF Enqueue
  <2> QED
    BY <2>1, AppendProperties, IngestAssumption DEF Job, IngestAssumption
<1>2. CASE UNCHANGED jobs
  BY <1>2 DEF Job
<1> QED
  BY <1>1, <1>2 DEF RequestNext, Add, AgentAdd, InsertSource, KeyTaken, Replay, Harvest,
                    CommitIntake, Die, ingestVars

\* What a run sees and what it writes, table by table.
LEMMA SeesFacts ==
  ASSUME PipelineTypeOK, NEW r \in Run
  PROVE  /\ Sees(r) = [t \in Tables |-> db[t] \cup work[r][t]]
         /\ Sees(r).memories = db.memories \cup work[r].memories
         /\ Sees(r).canonicals = db.canonicals \cup work[r].canonicals
         /\ Sees(r).mentions = db.mentions \cup work[r].mentions
         /\ Sees(r).disputes = db.disputes \cup work[r].disputes
         /\ Sees(r).decisions = db.decisions \cup work[r].decisions
<1>1. DOMAIN db = Tables
  BY DEF PipelineTypeOK
<1> QED
  BY <1>1 DEF Sees, Tables

\* What a run's write leaves in each table.
LEMMA WriteFacts ==
  ASSUME PipelineTypeOK, NEW r \in Run, NEW new, Write(r, new)
  PROVE  /\ work' = [q \in Run |-> [t \in Tables |-> work'[q][t]]]
         /\ \A q \in Run \ {r} : work'[q] = work[q]
         /\ \A t \in Tables :
              work'[r][t] = IF t \in DOMAIN new THEN work[r][t] \cup new[t] ELSE work[r][t]
<1>1. DOMAIN db = Tables /\ DOMAIN work = Run
  BY DEF PipelineTypeOK
<1> DEFINE row == [t \in Tables |-> IF t \in DOMAIN new THEN work[r][t] \cup new[t] ELSE work[r][t]]
<1>2. work' = [work EXCEPT ![r] = row]
  BY <1>1 DEF Write
<1>3. row = [t \in Tables |-> row[t]]
  OBVIOUS
<1>4. \A q \in Run : work[q] = [t \in Tables |-> work[q][t]]
  BY DEF PipelineTypeOK
<1>5. \A t \in Tables : row[t] = IF t \in DOMAIN new THEN work[r][t] \cup new[t] ELSE work[r][t]
  OBVIOUS
<1> HIDE DEF row
<1> QED
  BY <1>1, <1>2, <1>3, <1>4, <1>5

-----------------------------------------------------------------------------
(* Frames. *)

\* A run that does not step keeps its part, as long as the committed rows stand.
LEMMA RunFrame ==
  ASSUME NEW q \in Run, RunInv(q), db' = db, beside \subseteq beside',
         work'[q] = work[q], unjudged'[q] = unjudged[q]
  PROVE  RunInv(q)'
<1>1. CopiesOf(q)' /\ NamesOf(q)'
  BY DEF RunInv, CopiesOf, NamesOf, Beside
<1>2. JudgedOf(q)' /\ HeldOf(q)'
  BY DEF RunInv, JudgedOf, HeldOf, Beside
<1> QED
  BY <1>1, <1>2 DEF RunInv

\* A step that leaves the tables alone keeps what is true of them.
LEMMA DbFrame ==
  ASSUME WorkInv, db' = db, beside \subseteq beside'
  PROVE  /\ RedeliveryCollapses' /\ OneCanonicalPerName' /\ NothingInLimbo'
         /\ DecisionsInDb' /\ HeldInDb'
<1>1. RedeliveryCollapses' /\ OneCanonicalPerName' /\ NothingInLimbo' /\ DecisionsInDb'
  BY DEF WorkInv, RedeliveryCollapses, OneCanonicalPerName, NothingInLimbo, DecisionsInDb
<1>2. HeldInDb'
  BY DEF WorkInv, HeldInDb, Beside
<1> QED
  BY <1>1, <1>2

-----------------------------------------------------------------------------
(* The steps. *)

\* Nothing has been processed yet.
LEMMA WorkStart == WorkInit => WorkInv
<1> SUFFICES ASSUME WorkInit PROVE WorkInv
  OBVIOUS
<1> USE DEF WorkInit, PipelineInit
<1>1. IngestInv /\ jobs = << >> /\ Len(jobs) = 0
  BY IngestStart DEF IngestInit
<1>2. \A t \in Tables : Nothing[t] = {}
  BY DEF Nothing, Tables
<1>3. Nothing = [t \in Tables |-> Nothing[t]]
  BY DEF Nothing, Tables
<1>4. PipelineTypeOK
  BY <1>1, <1>3, IngestAssumption DEF PipelineTypeOK, Stages, IngestAssumption
<1>5. \A t \in Tables : db[t] = {} /\ \A r \in Run : work[r][t] = {}
  BY <1>2
<1>6. RunsInOrder /\ OkIsCommitted
  BY DEF RunsInOrder, OkIsCommitted
<1>7. RowsOfRuns
  BY <1>5 DEF RowsOfRuns, Tables
<1>8. \A r \in Run : RunInv(r)
  BY <1>5 DEF RunInv, CopiesOf, NamesOf, JudgedOf, HeldOf, Tables
<1>9. RedeliveryCollapses /\ OneCanonicalPerName /\ NothingInLimbo /\ DecisionsInDb /\ HeldInDb
  BY <1>5 DEF RedeliveryCollapses, OneCanonicalPerName, NothingInLimbo, DecisionsInDb, HeldInDb, Tables
<1> QED
  BY <1>1, <1>4, <1>6, <1>7, <1>8, <1>9 DEF WorkInv

\* The endpoints do not touch the runs.
LEMMA RequestStep ==
  ASSUME WorkInv, [RequestNext]_ingestVars, UNCHANGED pipelineVars
  PROVE  WorkInv'
<1> USE DEF pipelineVars, runVars
<1>1. IngestInv'
  BY IngestStep DEF WorkInv
<1>2. Len(jobs') <= MaxJob /\ \A j \in Job : j \in Job' /\ jobs'[j] = jobs[j]
  BY JobsGrow DEF WorkInv, PipelineTypeOK
<1>3. PipelineTypeOK'
  BY <1>2 DEF WorkInv, PipelineTypeOK
<1>4. RunsInOrder' /\ OkIsCommitted'
  BY <1>2 DEF WorkInv, RunsInOrder, OkIsCommitted
<1>5. \A r \in Run : stage[r] # "none" => SourceOf(r)' = SourceOf(r)
  BY <1>2 DEF WorkInv, RunsInOrder, SourceOf
<1>6. RowsOfRuns'
  <2>1. \A r \in Run : \A m \in work[r].memories : stage[r] = "open"
    BY DEF WorkInv, RowsOfRuns, Tables
  <2>2. \A r \in Run : \A m \in work[r].memories : m.source = SourceOf(r)'
    BY <1>5, <2>1 DEF WorkInv, RowsOfRuns
  <2>3. \A m \in db.memories : m.run \in Run /\ stage[m.run] \in Over /\ m.source = SourceOf(m.run)'
    BY <1>5 DEF WorkInv, RowsOfRuns, Over
  <2> QED
    BY <2>2, <2>3 DEF WorkInv, RowsOfRuns
<1>7. \A r \in Run : RunInv(r)'
  BY RunFrame DEF WorkInv
<1> QED
  BY <1>1, <1>3, <1>4, <1>6, <1>7, DbFrame DEF WorkInv

\* The runs do not touch the endpoints.
LEMMA IntakeStands ==
  ASSUME WorkInv, UNCHANGED ingestVars
  PROVE  IngestInv' /\ jobs' = jobs /\ idKey' = idKey /\ raw' = raw /\ Job' = Job
<1>1. IngestInv'
  BY IngestStep DEF WorkInv
<1> QED
  BY <1>1 DEF ingestVars, sourceVars, Job

\* A run begins beside the ones that are open.
LEMMA BeginStep ==
  ASSUME WorkInv, NEW r \in Run, NEW j \in Job, Begin(r, j)
  PROVE  WorkInv'
<1>1. /\ stage[r] = "none" /\ \A q \in Run : q < r => stage[q] # "none"
      /\ runJob' = [runJob EXCEPT ![r] = j] /\ stage' = [stage EXCEPT ![r] = "open"]
      /\ beside' = beside \cup {{q, r} : q \in OpenRuns}
      /\ UNCHANGED <<ingestVars, db, work, jobState, chunk, fresh, unjudged>>
  BY DEF Begin
<1>2. IngestInv' /\ jobs' = jobs /\ Job' = Job
  BY <1>1, IntakeStands
<1>3. j \in Nat /\ Run \subseteq Int
  BY DEF Job, Run
<1>4. PipelineTypeOK'
  BY <1>1, <1>2, <1>3 DEF WorkInv, PipelineTypeOK, Stages
<1>5. stage \in [Run -> Stages] /\ runJob \in [Run -> Nat]
  BY DEF WorkInv, PipelineTypeOK
<1>6. RunsInOrder'
  <2>1. \A p, q \in Run : p < q /\ stage'[q] # "none" => stage'[p] # "none"
    BY <1>1, <1>3, <1>5 DEF WorkInv, RunsInOrder
  <2>2. \A p, q \in Run : p < q /\ stage'[p] = "open" /\ stage'[q] # "none" => {p, q} \in beside'
    <3> SUFFICES ASSUME NEW p \in Run, NEW q \in Run, p < q, stage'[p] = "open", stage'[q] # "none"
                 PROVE  {p, q} \in beside'
      OBVIOUS
    <3>1. CASE q = r
      BY <1>1, <1>3, <1>5, <3>1 DEF OpenRuns
    <3>2. CASE p = r
      BY <1>1, <1>3, <1>5, <3>2 DEF WorkInv, RunsInOrder
    <3>3. CASE p # r /\ q # r
      BY <1>1, <1>5, <3>3 DEF WorkInv, RunsInOrder
    <3> QED
      BY <3>1, <3>2, <3>3
  <2>3. \A q \in Run : stage'[q] # "none" => runJob'[q] \in Job'
    BY <1>1, <1>2, <1>5 DEF WorkInv, RunsInOrder
  <2> QED
    BY <2>1, <2>2, <2>3 DEF RunsInOrder
<1>7. OkIsCommitted'
  BY <1>1, <1>5 DEF WorkInv, OkIsCommitted, Over
<1>8. RowsOfRuns'
  <2>1. \A t \in Tables : work[r][t] = {}
    BY <1>1 DEF WorkInv, RowsOfRuns
  <2>2. \A q \in Run \ {r} : SourceOf(q)' = SourceOf(q) /\ stage'[q] = stage[q]
    BY <1>1, <1>2, <1>5 DEF SourceOf
  <2>3. \A q \in Run : stage'[q] # "open" => \A t \in Tables : work[q][t] = {}
    BY <1>1, <2>2 DEF WorkInv, RowsOfRuns
  <2>4. \A q \in Run : \A m \in work[q].memories : m.source = SourceOf(q)'
    BY <2>1, <2>2 DEF WorkInv, RowsOfRuns, Tables
  <2>5. \A m \in db.memories : stage'[m.run] \in Over /\ m.source = SourceOf(m.run)'
    BY <1>1, <2>2 DEF WorkInv, RowsOfRuns, Over
  <2>6. \A c \in db.canonicals : stage'[c.run] \in Over
    BY <1>1, <2>2 DEF WorkInv, RowsOfRuns, Over
  <2> QED
    BY <1>1, <2>3, <2>4, <2>5, <2>6 DEF WorkInv, RowsOfRuns
<1>9. \A q \in Run : RunInv(q)'
  BY <1>1, RunFrame DEF WorkInv
<1> QED
  BY <1>1, <1>2, <1>4, <1>6, <1>7, <1>8, <1>9, DbFrame DEF WorkInv

\* The end of a run is acknowledged, or forgotten with the process.
LEMMA AckStep ==
  ASSUME WorkInv, \/ \E r \in Run : Acknowledge(r) \/ CrashRun(r)
                  \/ \E j \in Job : Reap(j)
  PROVE  WorkInv'
<1>1. UNCHANGED <<ingestVars, db, work, runJob, chunk, fresh, unjudged, beside>>
  BY DEF Acknowledge, CrashRun, Reap, runVars
<1>2. IngestInv' /\ jobs' = jobs /\ Job' = Job
  BY <1>1, IntakeStands
<1>3. stage \in [Run -> Stages] /\ stage' \in [Run -> Stages]
  BY DEF WorkInv, PipelineTypeOK, Stages, Acknowledge, CrashRun, Reap, runVars
<1>4. \A r \in Run : /\ stage'[r] = "none" <=> stage[r] = "none"
                     /\ stage'[r] = "open" <=> stage[r] = "open"
                     /\ stage[r] \in Over => stage'[r] \in Over
  BY <1>3 DEF Acknowledge, CrashRun, Reap, runVars, Over
<1>5. jobState' = [j \in 1..MaxJob |-> jobState'[j]]
  BY DEF WorkInv, PipelineTypeOK, Acknowledge, CrashRun, Reap
<1>6. PipelineTypeOK'
  BY <1>1, <1>2, <1>3, <1>5 DEF WorkInv, PipelineTypeOK
<1>7. RunsInOrder'
  BY <1>1, <1>2, <1>4 DEF WorkInv, RunsInOrder
<1>8. OkIsCommitted'
  <2> SUFFICES ASSUME NEW j \in 1..MaxJob, jobState'[j] = "ok"
               PROVE  \E r \in Run : runJob[r] = j /\ stage'[r] \in Over
    BY <1>1 DEF OkIsCommitted
  <2>1. CASE jobState[j] = "ok"
    BY <1>4, <2>1 DEF WorkInv, OkIsCommitted
  <2>2. CASE jobState[j] # "ok"
    <3>1. PICK r \in Run : Acknowledge(r) /\ runJob[r] = j /\ Outcome(r) = "ok"
      BY <2>2 DEF Acknowledge, CrashRun, Reap, WorkInv, PipelineTypeOK
    <3>2. stage[r] = "committed"
      BY <2>2, <3>1 DEF Outcome
    <3> QED
      BY <1>4, <3>1, <3>2 DEF Over
  <2> QED
    BY <2>1, <2>2
<1>9. RowsOfRuns'
  <2>1. \A r \in Run : SourceOf(r)' = SourceOf(r)
    BY <1>1, <1>2 DEF SourceOf
  <2> QED
    BY <1>1, <1>4, <2>1 DEF WorkInv, RowsOfRuns
<1>10. \A r \in Run : RunInv(r)'
  BY <1>1, RunFrame DEF WorkInv
<1> QED
  BY <1>1, <1>2, <1>6, <1>7, <1>8, <1>9, <1>10, DbFrame DEF WorkInv

\* A failed run leaves nothing.
LEMMA FailStep ==
  ASSUME WorkInv, NEW r \in Run, FailRun(r)
  PROVE  WorkInv'
<1>1. /\ stage[r] = "open" /\ stage' = [stage EXCEPT ![r] = "failed"]
      /\ work' = [work EXCEPT ![r] = Nothing]
      /\ fresh' = [fresh EXCEPT ![r] = {}] /\ unjudged' = [unjudged EXCEPT ![r] = {}]
      /\ UNCHANGED <<ingestVars, db, jobState, runJob, chunk, beside>>
  BY DEF FailRun, OpenRuns
<1>2. IngestInv' /\ jobs' = jobs /\ Job' = Job
  BY <1>1, IntakeStands
<1>3. stage \in [Run -> Stages] /\ stage' \in [Run -> Stages]
  BY <1>1 DEF WorkInv, PipelineTypeOK, Stages
<1>4. work'[r] = Nothing /\ \A q \in Run \ {r} : work'[q] = work[q] /\ unjudged'[q] = unjudged[q]
  BY <1>1 DEF WorkInv, PipelineTypeOK
<1>5. /\ Nothing = [t \in Tables |-> Nothing[t]]
      /\ \A t \in Tables : Nothing[t] = {}
  BY DEF Nothing, Tables
<1>6. PipelineTypeOK'
  <2>1. work' = [q \in Run |-> [t \in Tables |-> work'[q][t]]]
    <3>1. \A q \in Run : work'[q] = [t \in Tables |-> work'[q][t]]
      BY <1>4, <1>5 DEF WorkInv, PipelineTypeOK
    <3> QED
      BY <1>1, <3>1 DEF WorkInv, PipelineTypeOK
  <2> QED
    BY <1>1, <1>2, <1>3, <2>1 DEF WorkInv, PipelineTypeOK
<1>7. RunsInOrder' /\ OkIsCommitted'
  BY <1>1, <1>2, <1>3 DEF WorkInv, RunsInOrder, OkIsCommitted, Over
<1>8. \A t \in Tables : work'[r][t] = {}
  BY <1>4, <1>5
<1>9. RowsOfRuns'
  <2>1. \A q \in Run : SourceOf(q)' = SourceOf(q)
    BY <1>1, <1>2 DEF SourceOf
  <2>2. \A q \in Run : stage[q] \in Over => stage'[q] \in Over
    BY <1>1, <1>3 DEF Over
  <2>3. \A q \in Run : stage'[q] # "open" => \A t \in Tables : work'[q][t] = {}
    BY <1>1, <1>3, <1>4, <1>8 DEF WorkInv, RowsOfRuns
  <2>4. \A q \in Run :
          /\ \A m \in work'[q].memories : m.run = q /\ m.at \in 0..(chunk'[q] - 1) /\ m.source = SourceOf(q)'
          /\ \A c \in work'[q].canonicals : c.run = q
          /\ \A p \in work'[q].mentions : p[1] \in work'[q].memories
    <3> SUFFICES ASSUME NEW q \in Run
                 PROVE  /\ \A m \in work'[q].memories : m.run = q /\ m.at \in 0..(chunk'[q] - 1) /\ m.source = SourceOf(q)'
                        /\ \A c \in work'[q].canonicals : c.run = q
                        /\ \A p \in work'[q].mentions : p[1] \in work'[q].memories
      OBVIOUS
    <3>1. CASE q = r
      BY <1>8, <3>1 DEF Tables
    <3>2. CASE q # r
      BY <1>1, <1>4, <2>1, <3>2 DEF WorkInv, RowsOfRuns
    <3> QED
      BY <3>1, <3>2
  <2> QED
    BY <1>1, <2>1, <2>2, <2>3, <2>4 DEF WorkInv, RowsOfRuns
<1>10. RunInv(r)'
  <2>1. unjudged'[r] = {}
    BY <1>1 DEF WorkInv, PipelineTypeOK
  <2> QED
    BY <1>8, <2>1 DEF RunInv, CopiesOf, NamesOf, JudgedOf, HeldOf, Tables
<1>11. \A q \in Run : RunInv(q)'
  BY <1>1, <1>4, <1>10, RunFrame DEF WorkInv
<1> QED
  BY <1>1, <1>2, <1>6, <1>7, <1>9, <1>11, DbFrame DEF WorkInv

\* A run that writes to its own transaction answers for its own rows only.
LEMMA WriterFrame ==
  ASSUME WorkInv, NEW r \in OpenRuns,
         UNCHANGED <<ingestVars, db, jobState, runJob, stage, beside>>, PipelineTypeOK',
         \A q \in Run \ {r} :
           work'[q] = work[q] /\ unjudged'[q] = unjudged[q] /\ chunk'[q] = chunk[q],
         \A m \in work'[r].memories : m.run = r /\ m.at \in 0..(chunk'[r] - 1) /\ m.source = SourceOf(r),
         \A c \in work'[r].canonicals : c.run = r,
         \A p \in work'[r].mentions : p[1] \in work'[r].memories,
         RunInv(r)'
  PROVE  WorkInv'
<1>1. IngestInv' /\ jobs' = jobs /\ Job' = Job
  BY IntakeStands
<1>2. RunsInOrder' /\ OkIsCommitted'
  BY <1>1 DEF WorkInv, RunsInOrder, OkIsCommitted
<1>3. \A q \in Run : SourceOf(q)' = SourceOf(q)
  BY <1>1 DEF SourceOf
<1>4. r \in Run /\ stage[r] = "open"
  BY DEF OpenRuns
<1>5. RowsOfRuns'
  <2>1. \A q \in Run : stage'[q] # "open" => \A t \in Tables : work'[q][t] = {}
    BY <1>4 DEF WorkInv, RowsOfRuns
  <2>2. \A q \in Run :
          /\ \A m \in work'[q].memories : m.run = q /\ m.at \in 0..(chunk'[q] - 1) /\ m.source = SourceOf(q)'
          /\ \A c \in work'[q].canonicals : c.run = q
          /\ \A p \in work'[q].mentions : p[1] \in work'[q].memories
    <3> SUFFICES ASSUME NEW q \in Run, q # r
                 PROVE  /\ \A m \in work'[q].memories : m.run = q /\ m.at \in 0..(chunk'[q] - 1) /\ m.source = SourceOf(q)'
                        /\ \A c \in work'[q].canonicals : c.run = q
                        /\ \A p \in work'[q].mentions : p[1] \in work'[q].memories
      BY <1>3
    <3> QED
      BY <1>3 DEF WorkInv, RowsOfRuns
  <2> QED
    BY <1>3, <2>1, <2>2 DEF WorkInv, RowsOfRuns
<1>6. \A q \in Run : RunInv(q)'
  BY RunFrame DEF WorkInv
<1> QED
  BY <1>1, <1>2, <1>5, <1>6, DbFrame DEF WorkInv

\* An entity is linked, left to people, or becomes a canonical of its own when
\* no canonical the run can see has its name.
LEMMA ResolveStep ==
  ASSUME WorkInv, NEW r \in Run, ResolveEntity(r)
  PROVE  WorkInv'
<1>0. r \in OpenRuns /\ PipelineTypeOK
  BY DEF ResolveEntity, OpenRuns, WorkInv
<1>1. /\ UNCHANGED <<ingestVars, db, jobState, runJob, stage, chunk, unjudged, beside>>
      /\ fresh' = [q \in Run |-> fresh'[q]]
  BY <1>0 DEF ResolveEntity, PipelineTypeOK
<1>2. PICK e \in fresh[r] :
        \/ \E c : LinkTo(r, e, c)
        \/ Write(r, << >>)
        \/ Lexical(r, e.name) = {} /\ Bootstrap(r, e)
  BY DEF ResolveEntity
<1>3. PICK new :
        /\ Write(r, new)
        /\ DOMAIN new \subseteq {"links", "aliases", "canonicals"}
        /\ "canonicals" \in DOMAIN new =>
             Lexical(r, e.name) = {} /\ new["canonicals"] = {[run |-> r, name |-> e.name]}
  <2>1. CASE \E c : LinkTo(r, e, c)
    BY <2>1 DEF LinkTo
  <2>2. CASE Write(r, << >>)
    <3>1. DOMAIN << >> = {}
      OBVIOUS
    <3> QED
      BY <2>2, <3>1
  <2>3. CASE Lexical(r, e.name) = {} /\ Bootstrap(r, e)
    BY <2>3 DEF Bootstrap
  <2> QED
    BY <1>2, <2>1, <2>2, <2>3
<1>4. /\ work' = [q \in Run |-> [t \in Tables |-> work'[q][t]]]
      /\ \A q \in Run \ {r} : work'[q] = work[q]
      /\ \A t \in Tables :
           work'[r][t] = IF t \in DOMAIN new THEN work[r][t] \cup new[t] ELSE work[r][t]
  BY <1>0, <1>3, WriteFacts
<1>5. /\ work'[r].memories = work[r].memories /\ work'[r].mentions = work[r].mentions
      /\ work'[r].disputes = work[r].disputes /\ work'[r].decisions = work[r].decisions
  BY <1>3, <1>4 DEF Tables
<1>6. \/ work'[r].canonicals = work[r].canonicals
      \/ /\ Lexical(r, e.name) = {}
         /\ work'[r].canonicals = work[r].canonicals \cup {[run |-> r, name |-> e.name]}
  BY <1>3, <1>4 DEF Tables
<1>7. PipelineTypeOK'
  BY <1>0, <1>1, <1>4, IntakeStands DEF PipelineTypeOK
<1>8. CopiesOf(r)' /\ JudgedOf(r)' /\ HeldOf(r)'
  <2>1. CopiesOf(r) /\ JudgedOf(r) /\ HeldOf(r)
    BY <1>0 DEF WorkInv, RunInv, OpenRuns
  <2>2. CopiesOf(r)'
    BY <1>1, <1>5, <2>1 DEF CopiesOf, Beside
  <2>3. JudgedOf(r)'
    BY <1>1, <1>5, <2>1 DEF JudgedOf
  <2>4. HeldOf(r)'
    BY <1>1, <1>5, <2>1 DEF HeldOf, Beside
  <2> QED
    BY <2>2, <2>3, <2>4
<1>9. NamesOf(r)'
  <2>1. CASE work'[r].canonicals = work[r].canonicals
    BY <1>1, <2>1 DEF WorkInv, RunInv, NamesOf, Beside
  <2>2. CASE /\ Lexical(r, e.name) = {}
             /\ work'[r].canonicals = work[r].canonicals \cup {[run |-> r, name |-> e.name]}
    <3>1. \A d \in db.canonicals \cup work[r].canonicals : d.name # e.name
      BY <1>0, <2>2, SeesFacts DEF Lexical
    <3> QED
      BY <1>1, <2>2, <3>1 DEF WorkInv, RunInv, NamesOf, Beside
  <2> QED
    BY <1>6, <2>1, <2>2
<1>10. \A c \in work'[r].canonicals : c.run = r
  BY <1>6 DEF WorkInv, RowsOfRuns
<1>11. RunInv(r)'
  BY <1>8, <1>9 DEF RunInv
<1>12. /\ \A m \in work'[r].memories : m.run = r /\ m.at \in 0..(chunk'[r] - 1) /\ m.source = SourceOf(r)
       /\ \A p \in work'[r].mentions : p[1] \in work'[r].memories
  BY <1>1, <1>5 DEF WorkInv, RowsOfRuns
<1> QED
  BY <1>0, <1>1, <1>4, <1>7, <1>10, <1>11, <1>12, WriterFrame

\* Extraction adds rows the source has not produced before, all to be judged.
LEMMA ExtractStep ==
  ASSUME WorkInv, NEW r \in Run, Extract(r)
  PROVE  WorkInv'
<1>0. r \in OpenRuns /\ PipelineTypeOK /\ chunk[r] \in Nat /\ stage[r] = "open"
  BY DEF Extract, OpenRuns, WorkInv, PipelineTypeOK
<1>1. /\ UNCHANGED <<ingestVars, db, jobState, runJob, stage, beside>>
      /\ chunk' = [chunk EXCEPT ![r] = chunk[r] + 1]
  BY DEF Extract
<1> DEFINE s == SourceOf(r)
           x == Parts(s)[chunk[r]]
           Rows(A) == {[run |-> r, at |-> chunk[r], source |-> s, says |-> m] : m \in New(r, A)}
           Names(A) == {About[m.says] : m \in Rows(A)}
           Born(A) == {Raised(r, n) : n \in {n \in Names(A) : Known(r, n) = {}}}
           NewRows(A, pick) ==
             [memories |-> Rows(A), entities |-> Born(A),
              mentions |-> {<<m, pick[About[m.says]]>> : m \in Rows(A)},
              cache |-> IF Manual(s) \/ A = {} \/ Cached(r, x) # {}
                        THEN {} ELSE {[chunk |-> x, answer |-> A]}]
<1>2. PICK A, pick :
        /\ Write(r, NewRows(A, pick))
        /\ fresh' = [fresh EXCEPT ![r] = @ \cup Born(A)]
        /\ unjudged' = [unjudged EXCEPT ![r] = @ \cup {m \in Rows(A) : Readable(m)}]
  <2>1. PICK A \in Answers(r, x) :
          /\ \E pick \in [Names(A) -> Sees(r).entities \cup Born(A)] : Write(r, NewRows(A, pick))
          /\ fresh' = [fresh EXCEPT ![r] = @ \cup Born(A)]
          /\ unjudged' = [unjudged EXCEPT ![r] = @ \cup {m \in Rows(A) : Readable(m)}]
    BY DEF Extract
  <2> QED
    BY <2>1
<1> DEFINE rows == Rows(A)
           links == {<<m, pick[About[m.says]]>> : m \in rows}
<1>3. /\ DOMAIN NewRows(A, pick) = {"memories", "entities", "mentions", "cache"}
      /\ NewRows(A, pick)["memories"] = rows /\ NewRows(A, pick)["mentions"] = links
  OBVIOUS
<1>4. /\ \A m \in rows : m.run = r /\ m.at = chunk[r] /\ m.source = s
      /\ \A m, n \in rows : m.says = n.says => m = n
      /\ \A p \in links : p[1] \in rows
  OBVIOUS
<1>5. \A m \in rows, o \in db.memories \cup work[r].memories :
        ~ (o.says = m.says /\ o.source = s /\ Readable(o))
  BY <1>0, SeesFacts DEF New
<1> HIDE DEF NewRows, Rows, rows, links
<1>6. /\ work' = [q \in Run |-> [t \in Tables |-> work'[q][t]]]
      /\ \A q \in Run \ {r} : work'[q] = work[q]
      /\ \A t \in Tables :
           work'[r][t] = IF t \in DOMAIN NewRows(A, pick)
                         THEN work[r][t] \cup NewRows(A, pick)[t] ELSE work[r][t]
  BY <1>0, <1>2, WriteFacts
<1>7. /\ work'[r].memories = work[r].memories \cup rows
      /\ work'[r].mentions = work[r].mentions \cup links
      /\ work'[r].canonicals = work[r].canonicals
      /\ work'[r].disputes = work[r].disputes /\ work'[r].decisions = work[r].decisions
  BY <1>3, <1>6 DEF Tables
<1>8. /\ unjudged'[r] = unjudged[r] \cup {m \in rows : Readable(m)}
      /\ \A q \in Run \ {r} : unjudged'[q] = unjudged[q] /\ chunk'[q] = chunk[q]
      /\ unjudged' = [q \in Run |-> unjudged'[q]] /\ fresh' = [q \in Run |-> fresh'[q]]
      /\ chunk' \in [Run -> Nat] /\ chunk'[r] = chunk[r] + 1
  <2>1. unjudged' = [unjudged EXCEPT ![r] = unjudged[r] \cup {m \in rows : Readable(m)}]
    BY <1>2 DEF rows
  <2>2. fresh' = [q \in Run |-> fresh'[q]]
    BY <1>0, <1>2 DEF PipelineTypeOK
  <2>3. chunk' \in [Run -> Nat] /\ chunk'[r] = chunk[r] + 1 /\ \A q \in Run \ {r} : chunk'[q] = chunk[q]
    BY <1>0, <1>1 DEF PipelineTypeOK
  <2>4. unjudged = [q \in Run |-> unjudged[q]]
    BY <1>0 DEF PipelineTypeOK
  <2>5. /\ unjudged'[r] = unjudged[r] \cup {m \in rows : Readable(m)}
        /\ \A q \in Run \ {r} : unjudged'[q] = unjudged[q]
        /\ unjudged' = [q \in Run |-> unjudged'[q]]
    BY <2>1, <2>4
  <2> QED
    BY <2>2, <2>3, <2>5
<1>9. PipelineTypeOK'
  BY <1>0, <1>1, <1>6, <1>8, IntakeStands DEF PipelineTypeOK
<1>10. /\ \A m \in work[r].memories : m.run = r /\ m.at \in 0..(chunk[r] - 1) /\ m.source = s
       /\ \A c \in work[r].canonicals : c.run = r
       /\ \A p \in work[r].mentions : p[1] \in work[r].memories
       /\ CopiesOf(r) /\ NamesOf(r) /\ JudgedOf(r) /\ HeldOf(r)
  BY DEF WorkInv, RowsOfRuns, RunInv
<1>11. \A m \in work[r].memories : m \notin rows
  BY <1>0, <1>4, <1>10
<1>12. /\ \A m \in work'[r].memories : m.run = r /\ m.source = s
       /\ \A c \in work'[r].canonicals : c.run = r
       /\ \A p \in work'[r].mentions : p[1] \in work'[r].memories
  BY <1>4, <1>7, <1>10
<1>13. \A m \in work'[r].memories : m.at \in 0..(chunk'[r] - 1)
  <2> SUFFICES ASSUME NEW m \in work'[r].memories PROVE m.at \in 0..(chunk'[r] - 1)
    OBVIOUS
  <2>1. CASE m \in rows
    BY <1>0, <1>4, <1>8, <2>1
  <2>2. CASE m \in work[r].memories
    BY <1>0, <1>8, <1>10, <2>2
  <2> QED
    BY <1>7, <2>1, <2>2
<1>14. CopiesOf(r)'
  <2> SUFFICES ASSUME NEW m \in work[r].memories \cup rows,
                      NEW o \in db.memories \cup (work[r].memories \cup rows), Copies(m, o)
               PROVE  Beside(m, o)
    BY <1>1, <1>7 DEF CopiesOf, Beside
  <2>1. CASE m \in rows
    BY <1>4, <1>5, <2>1 DEF Copies, Readable
  <2>2. CASE o \in rows /\ m \in work[r].memories
    BY <1>4, <1>5, <1>10, <2>2 DEF Copies, Readable
  <2>3. CASE m \in work[r].memories /\ o \notin rows
    BY <1>10, <2>3 DEF CopiesOf
  <2> QED
    BY <2>1, <2>2, <2>3
<1>15. NamesOf(r)'
  BY <1>1, <1>7, <1>10 DEF NamesOf, Beside
<1>16. JudgedOf(r)'
  BY <1>7, <1>8, <1>10, <1>11 DEF JudgedOf
<1>17. HeldOf(r)'
  <2> SUFFICES ASSUME NEW m \in (work[r].memories \cup rows) \ unjudged'[r], NEW o \in db.memories,
                      Contradicts(m, o), ~ Beside(m, o),
                      Comparable(db.mentions \cup (work[r].mentions \cup links), m, o)
               PROVE  Held(work[r].disputes, work[r].decisions, m, o)
    BY <1>1, <1>7 DEF HeldOf, Beside
  <2>1. m \in work[r].memories \ unjudged[r] /\ m \notin rows
    BY <1>8, <1>11 DEF Contradicts
  <2>2. o \notin rows
    BY <1>0, <1>4 DEF WorkInv, RowsOfRuns, Over
  <2>3. Comparable(db.mentions \cup work[r].mentions, m, o)
    BY <1>4, <2>1, <2>2 DEF Comparable
  <2> QED
    BY <1>10, <2>1, <2>3 DEF HeldOf
<1> HIDE DEF s, x
<1>18. RunInv(r)'
  BY <1>14, <1>15, <1>16, <1>17 DEF RunInv
<1> QED
  BY <1>0, <1>1, <1>6, <1>8, <1>9, <1>12, <1>13, <1>18, WriterFrame DEF s

\* A memory is judged after it has been compared: what it contradicts among its
\* neighbours is written with the decision, and keeps the decision from being
\* automatic.
LEMMA JudgeStep ==
  ASSUME WorkInv, NEW r \in Run, Judge(r)
  PROVE  WorkInv'
<1>0. r \in OpenRuns /\ PipelineTypeOK /\ stage[r] = "open"
  BY DEF Judge, OpenRuns, WorkInv
<1>1. UNCHANGED <<ingestVars, db, jobState, runJob, stage, chunk, fresh, beside>>
  BY DEF Judge
<1>2. PICK m \in unjudged[r] :
        /\ Write(r, [disputes |-> Opened(r, m),
                     decisions |-> {<<m, Policy(m, Opened(r, m), Manual(SourceOf(r)))>>}])
        /\ unjudged' = [unjudged EXCEPT ![r] = unjudged[r] \ {m}]
  BY DEF Judge
<1> DEFINE verdictOn == <<m, Policy(m, Opened(r, m), Manual(SourceOf(r)))>>
           new == [disputes |-> Opened(r, m), decisions |-> {verdictOn}]
<1>3. /\ DOMAIN new = {"disputes", "decisions"}
      /\ new["disputes"] = Opened(r, m) /\ new["decisions"] = {verdictOn}
  OBVIOUS
<1>4. verdictOn[1] = m /\ (Opened(r, m) # {} => verdictOn[2] \notin AutoRules)
  <2>1. "contradiction_pending" \notin AutoRules
    BY DEF AutoRules
  <2>2. Opened(r, m) # {} => Policy(m, Opened(r, m), Manual(SourceOf(r))) = "contradiction_pending"
    BY DEF Policy
  <2> QED
    BY <2>1, <2>2
<1>5. Write(r, new)
  BY <1>2
<1> HIDE DEF new, verdictOn
<1>6. /\ work' = [q \in Run |-> [t \in Tables |-> work'[q][t]]]
      /\ \A q \in Run \ {r} : work'[q] = work[q]
      /\ \A t \in Tables :
           work'[r][t] = IF t \in DOMAIN new THEN work[r][t] \cup new[t] ELSE work[r][t]
  BY <1>0, <1>5, WriteFacts
<1>7. /\ work'[r].memories = work[r].memories /\ work'[r].mentions = work[r].mentions
      /\ work'[r].canonicals = work[r].canonicals
      /\ work'[r].disputes = work[r].disputes \cup Opened(r, m)
      /\ work'[r].decisions = work[r].decisions \cup {verdictOn}
  BY <1>3, <1>6 DEF Tables
<1>8. /\ unjudged'[r] = unjudged[r] \ {m}
      /\ \A q \in Run \ {r} : unjudged'[q] = unjudged[q]
      /\ unjudged' = [q \in Run |-> unjudged'[q]]
  BY <1>0, <1>2 DEF PipelineTypeOK
<1>9. PipelineTypeOK'
  BY <1>0, <1>1, <1>6, <1>8, IntakeStands DEF PipelineTypeOK
<1>10. CopiesOf(r) /\ NamesOf(r) /\ JudgedOf(r) /\ HeldOf(r)
  BY DEF WorkInv, RunInv
<1>11. CopiesOf(r)' /\ NamesOf(r)'
  BY <1>1, <1>7, <1>10 DEF CopiesOf, NamesOf, Beside
<1>12. m \in work[r].memories /\ \A d \in work[r].decisions : d[1] # m
  BY <1>10 DEF JudgedOf
<1>13. JudgedOf(r)'
  BY <1>4, <1>7, <1>8, <1>10, <1>12 DEF JudgedOf
<1>14. HeldOf(r)'
  <2> SUFFICES ASSUME NEW n \in work[r].memories \ (unjudged[r] \ {m}), NEW o \in db.memories,
                      Contradicts(n, o), ~ Beside(n, o),
                      Comparable(db.mentions \cup work[r].mentions, n, o)
               PROVE  Held(work'[r].disputes, work'[r].decisions, n, o)
    BY <1>1, <1>7, <1>8 DEF HeldOf, Beside
  <2>1. CASE n = m
    <3>1. o # m /\ o \in Sees(r).memories
      BY <1>0, <1>12, SeesFacts DEF WorkInv, RowsOfRuns, Over
    <3>2. Anchors(r, o) \cap Anchors(r, m) # {} \/ <<o.says, m.says>> \in Near
      <4>1. CASE \E e : /\ <<m, e>> \in db.mentions \cup work[r].mentions
                        /\ <<o, e>> \in db.mentions \cup work[r].mentions
        <5>1. PICK e : /\ <<m, e>> \in db.mentions \cup work[r].mentions
                       /\ <<o, e>> \in db.mentions \cup work[r].mentions
          BY <4>1
        <5>2. e \in Anchors(r, m) /\ e \in Anchors(r, o)
          BY <1>0, <5>1, SeesFacts DEF Anchors
        <5> QED
          BY <5>2
      <4> QED
        BY <2>1, <4>1 DEF Comparable
    <3>3. o \in Compared(r, m) /\ Opposed(o, m)
      BY <2>1, <3>1, <3>2 DEF Compared, Contradicts, Opposed
    <3>4. <<o, m>> \in Opened(r, m)
      BY <3>3 DEF Opened
    <3> QED
      BY <1>4, <1>7, <1>12, <2>1, <3>4 DEF Held
  <2>2. CASE n # m
    <3>1. Held(work[r].disputes, work[r].decisions, n, o)
      BY <1>10, <2>2 DEF HeldOf
    <3> QED
      BY <1>4, <1>7, <2>2, <3>1 DEF Held
  <2> QED
    BY <2>1, <2>2
<1>15. RunInv(r)'
  BY <1>11, <1>13, <1>14 DEF RunInv
<1>16. /\ \A n \in work'[r].memories : n.run = r /\ n.at \in 0..(chunk'[r] - 1) /\ n.source = SourceOf(r)
       /\ \A c \in work'[r].canonicals : c.run = r
       /\ \A p \in work'[r].mentions : p[1] \in work'[r].memories
  BY <1>1, <1>7 DEF WorkInv, RowsOfRuns
<1> QED
  BY <1>0, <1>1, <1>6, <1>8, <1>9, <1>15, <1>16, WriterFrame

\* A commit adds a run's rows to the tables.  Rows another run commits meanwhile
\* come from a run that is open beside it.
LEMMA CommitRunStep ==
  ASSUME WorkInv, NEW r \in Run, CommitRun(r)
  PROVE  WorkInv'
<1>1. /\ stage[r] = "open" /\ unjudged[r] = {} /\ db' = Sees(r)
      /\ work' = [work EXCEPT ![r] = Nothing] /\ stage' = [stage EXCEPT ![r] = "committed"]
      /\ UNCHANGED <<ingestVars, jobState, runJob, chunk, fresh, unjudged, beside>>
  BY DEF CommitRun
<1>2. IngestInv' /\ jobs' = jobs /\ Job' = Job
  BY <1>1, IntakeStands
<1>3. /\ stage \in [Run -> Stages] /\ stage' \in [Run -> Stages] /\ stage'[r] = "committed"
      /\ \A q \in Run \ {r} : stage'[q] = stage[q] /\ work'[q] = work[q]
      /\ work'[r] = Nothing /\ work' = [q \in Run |-> work'[q]]
  BY <1>1 DEF WorkInv, PipelineTypeOK, Stages
<1>4. /\ Nothing = [t \in Tables |-> Nothing[t]]
      /\ \A t \in Tables : Nothing[t] = {}
  BY DEF Nothing, Tables
<1>5. \A t \in Tables : work'[r][t] = {}
  BY <1>3, <1>4
<1>6. /\ db' = [t \in Tables |-> db'[t]]
      /\ db'.memories = db.memories \cup work[r].memories
      /\ db'.canonicals = db.canonicals \cup work[r].canonicals
      /\ db'.mentions = db.mentions \cup work[r].mentions
      /\ db'.disputes = db.disputes \cup work[r].disputes
      /\ db'.decisions = db.decisions \cup work[r].decisions
  BY <1>1, SeesFacts DEF WorkInv
<1>7. PipelineTypeOK'
  <2>1. \A q \in Run : work'[q] = [t \in Tables |-> work'[q][t]]
    BY <1>3, <1>4 DEF WorkInv, PipelineTypeOK
  <2> QED
    BY <1>1, <1>2, <1>3, <1>6, <2>1 DEF WorkInv, PipelineTypeOK
<1>8. RunsInOrder' /\ OkIsCommitted'
  BY <1>1, <1>2, <1>3 DEF WorkInv, RunsInOrder, OkIsCommitted, Over
<1>9. /\ \A m \in work[r].memories : m.run = r /\ m.source = SourceOf(r)
      /\ \A c \in work[r].canonicals : c.run = r
      /\ \A p \in work[r].mentions : p[1] \in work[r].memories
      /\ CopiesOf(r) /\ NamesOf(r) /\ JudgedOf(r) /\ HeldOf(r)
  BY DEF WorkInv, RowsOfRuns, RunInv
<1>10. /\ \A m \in db.memories : m.run \in Run /\ m.run # r /\ stage[m.run] \in Over
       /\ \A c \in db.canonicals : c.run \in Run /\ c.run # r
       /\ \A p \in db.mentions : p[1] \in db.memories
       /\ \A d \in db.decisions : d[1] \in db.memories
       /\ \A m \in db.memories : m \notin work[r].memories
  BY <1>1, <1>9 DEF WorkInv, RowsOfRuns, DecisionsInDb, Over
<1>11. RowsOfRuns'
  <2>1. \A q \in Run : SourceOf(q)' = SourceOf(q)
    BY <1>1, <1>2 DEF SourceOf
  <2>2. \A m \in db'.memories : m.run \in Run /\ stage'[m.run] \in Over /\ m.source = SourceOf(m.run)'
    BY <1>3, <1>6, <1>9, <2>1 DEF WorkInv, RowsOfRuns, Over
  <2>3. \A c \in db'.canonicals : c.run \in Run /\ stage'[c.run] \in Over
    BY <1>3, <1>6, <1>9 DEF WorkInv, RowsOfRuns, Over
  <2>4. \A p \in db'.mentions : p[1] \in db'.memories
    BY <1>6, <1>9, <1>10
  <2>5. \A q \in Run : stage'[q] # "open" => \A t \in Tables : work'[q][t] = {}
    BY <1>3, <1>5 DEF WorkInv, RowsOfRuns
  <2>6. \A q \in Run :
          /\ \A m \in work'[q].memories : m.run = q /\ m.at \in 0..(chunk'[q] - 1) /\ m.source = SourceOf(q)'
          /\ \A c \in work'[q].canonicals : c.run = q
          /\ \A p \in work'[q].mentions : p[1] \in work'[q].memories
    <3> SUFFICES ASSUME NEW q \in Run
                 PROVE  /\ \A m \in work'[q].memories : m.run = q /\ m.at \in 0..(chunk'[q] - 1) /\ m.source = SourceOf(q)'
                        /\ \A c \in work'[q].canonicals : c.run = q
                        /\ \A p \in work'[q].mentions : p[1] \in work'[q].memories
      OBVIOUS
    <3>1. CASE q = r
      BY <1>5, <3>1 DEF Tables
    <3>2. CASE q # r
      BY <1>1, <1>3, <2>1, <3>2 DEF WorkInv, RowsOfRuns
    <3> QED
      BY <3>1, <3>2
  <2> QED
    BY <2>2, <2>3, <2>4, <2>5, <2>6 DEF RowsOfRuns
<1>12. ASSUME NEW q \in Run PROVE RunInv(q)'
  <2>1. CASE q = r
    BY <1>1, <1>5, <2>1 DEF RunInv, CopiesOf, NamesOf, JudgedOf, HeldOf, Tables
  <2>2. CASE stage[q] # "open"
    <3>1. \A t \in Tables : work'[q][t] = {}
      BY <1>3, <1>5, <2>2 DEF WorkInv, RowsOfRuns
    <3>2. JudgedOf(q)'
      <4>1. work'[q] = work[q] /\ unjudged'[q] = unjudged[q] /\ JudgedOf(q)
        BY <1>1, <1>3, <2>2 DEF WorkInv, RunInv
      <4> QED
        BY <4>1 DEF JudgedOf
    <3> QED
      BY <3>1, <3>2 DEF RunInv, CopiesOf, NamesOf, HeldOf, Tables
  <2>3. CASE q # r /\ stage[q] = "open"
    <3>1. {q, r} \in beside /\ {r, q} = {q, r}
      <4>1. q < r \/ r < q
        BY <2>3 DEF Run
      <4> QED
        BY <1>1, <2>3, <4>1 DEF WorkInv, RunsInOrder
    <3>2. /\ work'[q] = work[q] /\ unjudged'[q] = unjudged[q] /\ beside' = beside
          /\ CopiesOf(q) /\ NamesOf(q) /\ JudgedOf(q) /\ HeldOf(q)
          /\ \A m \in work[q].memories : m.run = q
          /\ \A c \in work[q].canonicals : c.run = q
      BY <1>1, <1>3, <2>3 DEF WorkInv, RunInv, RowsOfRuns
    <3>3. \A m \in work[q].memories, o \in work[r].memories : Beside(m, o)
      BY <1>9, <3>1, <3>2 DEF Beside
    <3>4. CopiesOf(q)'
      BY <1>6, <3>2, <3>3 DEF CopiesOf, Beside
    <3>5. NamesOf(q)'
      BY <1>6, <1>9, <3>1, <3>2 DEF NamesOf, Beside
    <3>6. JudgedOf(q)'
      BY <3>2 DEF JudgedOf
    <3>7. HeldOf(q)'
      <4> SUFFICES ASSUME NEW m \in work[q].memories \ unjudged[q], NEW o \in db'.memories,
                          Contradicts(m, o), ~ Beside(m, o),
                          Comparable(db'.mentions \cup work[q].mentions, m, o)
                   PROVE  Held(work[q].disputes, work[q].decisions, m, o)
        BY <3>2 DEF HeldOf, Beside
      <4>1. o \in db.memories
        BY <1>6, <3>3
      <4>2. m \notin work[r].memories /\ o \notin work[r].memories
        BY <1>9, <1>10, <2>3, <3>2, <4>1
      <4>3. Comparable(db.mentions \cup work[q].mentions, m, o)
        BY <1>6, <1>9, <4>2 DEF Comparable
      <4> QED
        BY <3>2, <4>1, <4>3 DEF HeldOf
    <3> QED
      BY <3>4, <3>5, <3>6, <3>7 DEF RunInv
  <2> QED
    BY <2>1, <2>2, <2>3
<1>13. RedeliveryCollapses'
  <2> SUFFICES ASSUME NEW m \in db'.memories, NEW o \in db'.memories, Copies(m, o)
               PROVE  {m.run, o.run} \in beside
    BY <1>1 DEF RedeliveryCollapses, Copies
  <2>1. CASE m \in work[r].memories
    BY <1>6, <1>9, <2>1 DEF CopiesOf, Beside
  <2>2. CASE o \in work[r].memories
    <3>1. Copies(o, m)
      BY DEF Copies, Readable
    <3>2. {o.run, m.run} \in beside /\ {m.run, o.run} = {o.run, m.run}
      BY <1>6, <1>9, <2>2, <3>1 DEF CopiesOf, Beside
    <3> QED
      BY <3>2
  <2>3. CASE m \in db.memories /\ o \in db.memories
    BY <2>3 DEF WorkInv, RedeliveryCollapses, Copies
  <2> QED
    BY <1>6, <2>1, <2>2, <2>3
<1>14. OneCanonicalPerName'
  <2> SUFFICES ASSUME NEW c \in db'.canonicals, NEW d \in db'.canonicals, c.name = d.name, c # d
               PROVE  {c.run, d.run} \in beside
    BY <1>1 DEF OneCanonicalPerName
  <2>1. CASE c \in work[r].canonicals
    BY <1>6, <1>9, <2>1 DEF NamesOf, Beside
  <2>2. CASE d \in work[r].canonicals
    <3>1. {d.run, c.run} \in beside /\ {d.run, c.run} = {c.run, d.run}
      BY <1>6, <1>9, <2>2 DEF NamesOf, Beside
    <3> QED
      BY <3>1
  <2>3. CASE c \in db.canonicals /\ d \in db.canonicals
    BY <2>3 DEF WorkInv, OneCanonicalPerName
  <2> QED
    BY <1>6, <2>1, <2>2, <2>3
<1>15. NothingInLimbo'
  <2> SUFFICES ASSUME NEW m \in db'.memories, Readable(m)
               PROVE  Cardinality({d \in db'.decisions : d[1] = m}) = 1
    BY DEF NothingInLimbo, Readable
  <2>1. CASE m \in work[r].memories
    <3>1. PICK e \in work[r].decisions : e[1] = m
      BY <1>1, <1>9, <2>1 DEF JudgedOf
    <3>2. {d \in db'.decisions : d[1] = m} = {e}
      BY <1>6, <1>9, <1>10, <2>1, <3>1 DEF JudgedOf
    <3> QED
      BY <3>2, FS_Singleton
  <2>2. CASE m \in db.memories
    <3>1. {d \in db'.decisions : d[1] = m} = {d \in db.decisions : d[1] = m}
      BY <1>6, <1>9, <1>10, <2>2 DEF JudgedOf
    <3> QED
      BY <2>2, <3>1 DEF WorkInv, NothingInLimbo
  <2> QED
    BY <1>6, <2>1, <2>2
<1>16. DecisionsInDb'
  BY <1>6, <1>9, <1>10 DEF DecisionsInDb, JudgedOf
<1>17. HeldInDb'
  <2> SUFFICES ASSUME NEW m \in db'.memories, NEW o \in db'.memories, Contradicts(m, o),
                      o.run < m.run, ~ Beside(m, o), Comparable(db'.mentions, m, o)
               PROVE  Held(db'.disputes, db'.decisions, m, o)
    BY <1>1 DEF HeldInDb, Beside
  <2>1. CASE m \in work[r].memories
    <3>1. o \in db.memories
      BY <1>6, <1>9, <2>1 DEF Run
    <3>2. Held(work[r].disputes, work[r].decisions, m, o)
      BY <1>1, <1>6, <1>9, <2>1, <3>1 DEF HeldOf
    <3> QED
      BY <1>6, <1>10, <2>1, <3>2 DEF Held
  <2>2. CASE m \in db.memories /\ o \in work[r].memories
    <3>1. {r, m.run} \in beside /\ {r, m.run} = {m.run, o.run}
      BY <1>1, <1>9, <1>10, <2>2 DEF WorkInv, RunsInOrder, Over
    <3> QED
      BY <3>1 DEF Beside
  <2>3. CASE m \in db.memories /\ o \in db.memories
    <3>1. Comparable(db.mentions, m, o)
      BY <1>6, <1>9, <1>10, <2>3 DEF Comparable
    <3>2. Held(db.disputes, db.decisions, m, o)
      BY <2>3, <3>1 DEF WorkInv, HeldInDb
    <3> QED
      BY <1>6, <1>9, <1>10, <2>3, <3>2 DEF Held, JudgedOf
  <2> QED
    BY <1>6, <2>1, <2>2, <2>3
<1> QED
  BY <1>2, <1>7, <1>8, <1>11, <1>12, <1>13, <1>14, <1>15, <1>16, <1>17 DEF WorkInv

\* Every step of every run keeps the invariant.
LEMMA WorkStep == WorkInv /\ [WorkNext]_workVars => WorkInv'
<1> SUFFICES ASSUME WorkInv, [WorkNext]_workVars PROVE WorkInv'
  OBVIOUS
<1>1. CASE RequestNext /\ UNCHANGED pipelineVars
  BY <1>1, RequestStep
<1>2. CASE UNCHANGED workVars
  BY <1>2, RequestStep DEF workVars
<1>3. ASSUME NEW r \in Run,
             \/ \E j \in Job : Begin(r, j)
             \/ Extract(r) \/ ResolveEntity(r) \/ Judge(r)
             \/ CommitRun(r) \/ FailRun(r) \/ Acknowledge(r) \/ CrashRun(r)
      PROVE  WorkInv'
  BY <1>3, BeginStep, ExtractStep, ResolveStep, JudgeStep, CommitRunStep, FailStep, AckStep
<1>4. CASE \E j \in Job : Reap(j)
  BY <1>4, AckStep
<1> QED
  BY <1>1, <1>2, <1>3, <1>4 DEF WorkNext

\* So it holds in every behaviour of the worker.
LEMMA WorkInductive == WorkSpec => []WorkInv
<1>1. WorkInit => WorkInv
  BY WorkStart
<1>2. WorkInv /\ [WorkNext]_workVars => WorkInv'
  BY WorkStep
<1> QED
  BY <1>1, <1>2, PTL DEF WorkSpec

-----------------------------------------------------------------------------
(* The theorems. *)

\* The status a client polls is read off the latest of a source's jobs.
LEMMA LatestIsOne ==
  ASSUME NEW s, Len(jobs) \in Nat, JobsOf(s) # {}
  PROVE  Latest(s) \in JobsOf(s)
<1> DEFINE T == {Len(jobs) - j : j \in JobsOf(s)}
<1>1. JobsOf(s) \subseteq 1..Len(jobs)
  BY DEF JobsOf, Job
<1>2. T \in SUBSET Nat /\ T # {}
  BY <1>1
<1> HIDE DEF T
<1>3. \E x \in T : \A y \in T : x <= y
  <2>1. Least(T) \in T /\ \A y \in T : Least(T) <= y
    BY <1>2, LeastIsOne
  <2> QED
    BY <2>1
<1>4. PICK j \in JobsOf(s) : \A i \in JobsOf(s) : i <= j
  <2>1. PICK j \in JobsOf(s) : \A y \in T : Len(jobs) - j <= y
    BY <1>3 DEF T
  <2>2. \A i \in JobsOf(s) : Len(jobs) - j <= Len(jobs) - i
    BY <2>1 DEF T
  <2>3. j \in Int /\ \A i \in JobsOf(s) : i \in Int
    BY <1>1
  <2> QED
    BY <2>1, <2>2, <2>3
<1> QED
  BY <1>4 DEF Latest

\* What clients and agents are told is what a run has committed.
LEMMA ToldIsTrue == WorkInv => ProcessedIsTrue
<1> SUFFICES ASSUME WorkInv, NEW s \in sources, Status(s) = "processed" \/ MemoryStatus(s) # {}
             PROVE  \E r \in Run : /\ runJob[r] # 0 /\ SourceOf(r) = s
                                   /\ stage[r] \in {"committed", "done"}
  BY DEF ProcessedIsTrue
<1>0. /\ Len(jobs) \in Nat /\ Len(jobs) <= MaxJob
      /\ \A r \in Run : stage[r] # "none" => runJob[r] \in Job
  BY DEF WorkInv, IngestInv, IngestTypeOK, PipelineTypeOK, RunsInOrder
<1>1. CASE \E m \in db.memories : m.source = s
  <2>1. PICK m \in db.memories : m.source = s
    BY <1>1
  <2> QED
    BY <1>0, <2>1 DEF WorkInv, RowsOfRuns, Over, Job
<1>2. CASE JobsOf(s) # {} /\ jobState[Latest(s)] = "ok"
  <2>0. Latest(s) \in JobsOf(s)
    BY <1>0, <1>2, LatestIsOne
  <2>1. Latest(s) \in 1..MaxJob /\ Latest(s) \in Job /\ jobs[Latest(s)] = s
    BY <1>0, <2>0, IngestAssumption DEF JobsOf, Job, IngestAssumption
  <2>2. PICK r \in Run : runJob[r] = Latest(s) /\ stage[r] \in Over
    BY <1>2, <2>1 DEF WorkInv, OkIsCommitted
  <2> QED
    BY <2>1, <2>2 DEF Over, SourceOf, Job
<1>3. \/ \E m \in db.memories : m.source = s
      \/ JobsOf(s) # {} /\ jobState[Latest(s)] = "ok"
  BY DEF Status, MemoryStatus
<1> QED
  BY <1>1, <1>2, <1>3

\* However often a job is delivered and however its runs overlap, fail and
\* crash: what clients are told is committed, copies of a memory and twin
\* canonicals come only from runs open together, and everything anyone can
\* read is judged once.
THEOREM DeliveryIsOnce == WorkSpec => []DeliveredOnce
<1>1. WorkInv => DeliveredOnce
  BY ToldIsTrue DEF WorkInv, DeliveredOnce
<1> QED
  BY <1>1, WorkInductive, PTL

\* A conflict between two memories that are on the anchored or the near side of
\* the detector's comparison is on the ledger and keeps the later one from
\* being promoted by itself (contradict.rs, policy.rs contradiction_pending).
ComparedConflictIsHeld ==
  \A m, o \in db.memories :
    Contradicts(m, o) /\ o.run < m.run /\ ~ Beside(m, o) /\ Comparable(db.mentions, m, o)
      => m \notin AutoApproved(db) /\ <<o, m>> \in db.disputes

\* Statements that contradict each other are near: the similarity that stands in
\* for an anchor finds them.
ConflictsAreNear == \A a, b \in Statement : <<a, b>> \in Conflict \/ <<b, a>> \in Conflict => <<a, b>> \in Near

\* A memory that shares an entity with one it contradicts, or is near it, and was
\* committed before its run began, is on the ledger with it and not automatic.
THEOREM ComparedConflictHeld == WorkSpec => []ComparedConflictIsHeld
<1>1. WorkInv => ComparedConflictIsHeld
  BY DEF WorkInv, HeldInDb, ComparedConflictIsHeld, Held, AutoApproved
<1> QED
  BY <1>1, WorkInductive, PTL

\* Where conflicts are near, no conflict known when a run began escapes it
\* (policy.rs contradiction_pending).  Without nearness two concurrent runs may
\* give one thing two entities, and a third memory anchored on one of them is
\* not compared with a memory anchored on the other.
THEOREM KnownConflictHeld ==
  ASSUME ConflictsAreNear
  PROVE  WorkSpec => []KnownConflictIsHeld
<1>1. ComparedConflictIsHeld => KnownConflictIsHeld
  BY PipelineAssumption
  DEF ConflictsAreNear, PipelineAssumption, ComparedConflictIsHeld, KnownConflictIsHeld,
      Comparable, Contradicts, Beside, Opposed
<1> QED
  BY <1>1, ComparedConflictHeld, PTL

-----------------------------------------------------------------------------
(* The jobs of the worker live the life that JobQueue implements.           *)

\* A job that is not enqueued yet is live; whoever is archived has an outcome.
LifeInv ==
  /\ jobState \in [1..MaxJob -> {"live", "ok", "failed", "dead"}]
  /\ \A j \in 1..MaxJob : j > Len(jobs) => jobState[j] = "live"

\* An acknowledgement writes the outcome of its own run, if nobody has archived the
\* job before.
LEMMA OutcomeOf ==
  ASSUME WorkInv, LifeInv, NEW r \in Run, Acknowledge(r)
  PROVE  /\ runJob[r] \in Job /\ runJob[r] \in 1..MaxJob /\ Len(jobs) \in Nat
         /\ Outcome(r) \in {"live", "ok", "failed", "dead"}
         /\ jobState[runJob[r]] # "live" => Outcome(r) = jobState[runJob[r]]
         /\ jobState[runJob[r]] = "live" => Outcome(r) \in {"live", "ok", "failed"}
         /\ jobState[runJob[r]] = "live" /\ Outcome(r) = "ok" => stage[r] = "committed"
<1>1. runJob[r] \in Job
  BY DEF WorkInv, RunsInOrder, Acknowledge
<1>2. Len(jobs) \in Nat /\ Len(jobs) <= MaxJob /\ MaxJob \in Nat
  BY IngestAssumption DEF WorkInv, IngestInv, IngestTypeOK, PipelineTypeOK, IngestAssumption
<1>3. runJob[r] \in 1..MaxJob
  BY <1>1, <1>2 DEF Job
<1> QED
  BY <1>1, <1>2, <1>3 DEF LifeInv, Outcome

\* Every step keeps it.
LEMMA LifeStep == WorkInv /\ LifeInv /\ [WorkNext]_workVars => LifeInv'
<1> SUFFICES ASSUME WorkInv, LifeInv, [WorkNext]_workVars PROVE LifeInv'
  OBVIOUS
<1>1. CASE UNCHANGED jobState /\ [RequestNext]_ingestVars
  <2>1. Len(jobs) \in Nat /\ Len(jobs') \in Nat /\ \A j \in Job : j \in Job'
    BY <1>1, JobsGrow DEF WorkInv, PipelineTypeOK
  <2>2. \A j \in 1..MaxJob : j > Len(jobs') => j > Len(jobs)
    BY <2>1, IngestAssumption DEF Job, IngestAssumption
  <2> QED
    BY <1>1, <2>2 DEF LifeInv
<1>2. ASSUME NEW r \in Run, Acknowledge(r) PROVE LifeInv'
  <2>1. jobState' = [jobState EXCEPT ![runJob[r]] = Outcome(r)] /\ jobs' = jobs
    BY <1>2 DEF Acknowledge, ingestVars
  <2>2. ~ runJob[r] > Len(jobs)
    BY <1>2, OutcomeOf DEF Job
  <2> QED
    BY <1>2, <2>1, <2>2, OutcomeOf DEF LifeInv
<1>3. ASSUME NEW j \in Job, Reap(j) PROVE LifeInv'
  <2>1. jobState' = [jobState EXCEPT ![j] = "dead"] /\ jobs' = jobs
    BY <1>3 DEF Reap, ingestVars
  <2>2. ~ j > Len(jobs)
    BY DEF Job, WorkInv, IngestInv, IngestTypeOK
  <2> QED
    BY <2>1, <2>2 DEF LifeInv
<1> QED
  BY <1>1, <1>2, <1>3
  DEF WorkNext, workVars, pipelineVars, Begin, Extract, ResolveEntity, Judge, CommitRun,
      FailRun, CrashRun

\* A step that touches no job and leaves what runs have committed changes no life.
LEMMA LifeFrame ==
  ASSUME jobs' = jobs, jobState' = jobState, jobsDone' = jobsDone
  PROVE  UNCHANGED Life!vars
  BY DEF Life!vars, jobLife

\* A request enqueues at most one job.
LEMMA SubmitRefines ==
  ASSUME WorkInv, LifeInv, RequestNext, UNCHANGED pipelineVars
  PROVE  Life!Next \/ UNCHANGED Life!vars
<1>1. jobsDone' = jobsDone /\ jobState' = jobState
  BY DEF pipelineVars, runVars, jobsDone
<1>2. CASE jobs' = jobs
  BY <1>1, <1>2, LifeFrame
<1>3. ASSUME NEW c \in Intake, Enqueue(c) PROVE Life!Next
  <2>1. PICK s \in Source : jobs' = Append(jobs, s)
    BY <1>3 DEF Enqueue, WorkInv, IngestInv, IngestTypeOK
  <2>2. jobs \in Seq(Source) /\ Len(jobs) < MaxJob /\ MaxJob \in Nat
    BY <1>3, IngestAssumption DEF Enqueue, WorkInv, IngestInv, IngestTypeOK, IngestAssumption
  <2> DEFINE n == Len(jobs) + 1
  <2>3. Len(jobs) \in Nat /\ Len(jobs') = n /\ n \in 1..MaxJob
    BY <2>1, <2>2, AppendProperties, LenProperties
  <2>4. jobLife[n] = "absent" /\ jobState[n] = "live"
    BY <2>3 DEF jobLife, LifeInv
  <2>5. jobLife' = [jobLife EXCEPT ![n] = "queued"]
    <3>1. \A j \in 1..MaxJob : (j > Len(jobs') <=> j > Len(jobs) /\ j # n)
      BY <2>3
    <3> QED
      BY <1>1, <2>3, <2>4, <3>1 DEF jobLife
  <2> HIDE DEF n
  <2>6. Life!Submit(n)
    BY <1>1, <2>4, <2>5 DEF Life!Submit
  <2> QED
    BY <2>3, <2>6 DEF Life!Next
<1> QED
  BY <1>2, <1>3 DEF RequestNext, Add, AgentAdd, InsertSource, KeyTaken, Replay, Harvest,
                    CommitIntake, Die

\* The commit of a run is the commit of its job's run, whatever the job has become.
LEMMA CommitRefines ==
  ASSUME WorkInv, LifeInv, NEW r \in Run, CommitRun(r)
  PROVE  Life!Next
<1>1. runJob[r] \in Job /\ Len(jobs) \in Nat /\ Len(jobs) <= MaxJob /\ MaxJob \in Nat
  BY IngestAssumption
  DEF CommitRun, WorkInv, RunsInOrder, IngestInv, IngestTypeOK, PipelineTypeOK, IngestAssumption
<1>2. runJob[r] \in 1..MaxJob /\ jobLife[runJob[r]] # "absent"
  BY <1>1 DEF Job, jobLife, LifeInv
<1>3. jobs' = jobs /\ jobState' = jobState /\ runJob' = runJob
      /\ stage' = [stage EXCEPT ![r] = "committed"] /\ stage \in [Run -> Stages]
  BY DEF CommitRun, ingestVars, WorkInv, PipelineTypeOK
<1>4. jobsDone' = jobsDone \cup {runJob[r]}
  <2>1. \A q \in Run : stage'[q] \in {"committed", "done"} <=> stage[q] \in {"committed", "done"} \/ q = r
    BY <1>3
  <2> QED
    BY <1>3, <2>1 DEF jobsDone
<1>5. jobLife' = jobLife
  BY <1>3 DEF jobLife
<1>6. Life!RunCommits(runJob[r])
  BY <1>2, <1>4, <1>5 DEF Life!RunCommits
<1> QED
  BY <1>2, <1>6 DEF Life!Next

\* An acknowledgement archives a queued job with what its run came to, or leaves it.
LEMMA AckRefines ==
  ASSUME WorkInv, LifeInv, NEW r \in Run, Acknowledge(r)
  PROVE  Life!Next \/ UNCHANGED Life!vars
<1> DEFINE j == runJob[r]
<1>1. /\ jobState' = [jobState EXCEPT ![j] = Outcome(r)] /\ jobs' = jobs /\ runJob' = runJob
      /\ stage' = [stage EXCEPT ![r] = IF stage[r] = "committed" THEN "done" ELSE "gave up"]
      /\ stage[r] \in {"committed", "failed"} /\ stage \in [Run -> Stages]
  BY DEF Acknowledge, ingestVars, WorkInv, PipelineTypeOK
<1>2. jobsDone' = jobsDone
  <2>1. \A q \in Run : stage'[q] \in {"committed", "done"} <=> stage[q] \in {"committed", "done"}
    BY <1>1
  <2> QED
    BY <1>1, <2>1 DEF jobsDone
<1>3. j \in 1..MaxJob /\ ~ j > Len(jobs)
  BY OutcomeOf DEF Job
<1>4. jobState \in [1..MaxJob -> {"live", "ok", "failed", "dead"}]
  BY DEF LifeInv
<1>5. CASE Outcome(r) = jobState[j]
  <2>1. jobState' = jobState
    BY <1>1, <1>4, <1>5
  <2> QED
    BY <1>1, <1>2, <2>1, LifeFrame
<1>6. CASE Outcome(r) # jobState[j]
  <2>1. jobState[j] = "live" /\ Outcome(r) \in {"ok", "failed"}
    BY <1>6, OutcomeOf
  <2>2. jobLife[j] = "queued" /\ jobLife' = [jobLife EXCEPT ![j] = Outcome(r)]
    BY <1>1, <1>3, <1>4, <2>1 DEF jobLife
  <2>3. Outcome(r) = "ok" => j \in jobsDone
    BY <2>1, OutcomeOf DEF jobsDone
  <2> HIDE DEF j
  <2>4. Life!Succeed(j) \/ Life!Fail(j)
    BY <1>2, <2>1, <2>2, <2>3 DEF Life!Succeed, Life!Fail
  <2> QED
    BY <1>3, <2>4 DEF Life!Next
<1> QED
  BY <1>5, <1>6

\* The reaper gives up on one job.
LEMMA ReapRefines ==
  ASSUME WorkInv, LifeInv, NEW j \in Job, Reap(j)
  PROVE  Life!Next
<1>1. Len(jobs) \in Nat /\ Len(jobs) <= MaxJob /\ MaxJob \in Nat
  BY IngestAssumption DEF WorkInv, IngestInv, IngestTypeOK, PipelineTypeOK, IngestAssumption
<1>2. j \in 1..MaxJob /\ ~ j > Len(jobs)
  BY <1>1 DEF Job
<1>3. /\ jobState[j] = "live" /\ jobState' = [jobState EXCEPT ![j] = "dead"]
      /\ jobs' = jobs /\ jobsDone' = jobsDone
  BY DEF Reap, ingestVars, runVars, jobsDone
<1>4. jobLife[j] = "queued"
      /\ jobLife' = [i \in 1..MaxJob |-> IF i \in {j} THEN "dead" ELSE jobLife[i]]
  BY <1>2, <1>3 DEF jobLife, LifeInv
<1>5. Life!GiveUp({j})
  BY <1>3, <1>4 DEF Life!GiveUp
<1> QED
  BY <1>2, <1>5 DEF Life!Next

\* For any number of requests, jobs and overlapping runs, a job lives the life that
\* the queue promises: no outcome without its run, none changed, none lost.
THEOREM JobsFollowLifecycle == WorkSpec => FollowsLifecycle
<1>1. WorkInit => LifeInv /\ Life!Init
  <2> SUFFICES ASSUME WorkInit PROVE LifeInv /\ Life!Init
    OBVIOUS
  <2>1. Len(jobs) = 0 /\ jobState = [j \in 1..MaxJob |-> "live"] /\ stage = [r \in Run |-> "none"]
    BY DEF WorkInit, IngestInit, PipelineInit
  <2>2. \A j \in 1..MaxJob : j > Len(jobs)
    BY <2>1, IngestAssumption DEF IngestAssumption
  <2>3. jobLife = [j \in 1..MaxJob |-> "absent"]
    BY <2>2 DEF jobLife
  <2> QED
    BY <2>1, <2>3 DEF LifeInv, Life!Init, jobsDone
<1>2. WorkInv /\ LifeInv /\ [WorkNext]_workVars => [Life!Next]_(Life!vars)
  <2> SUFFICES ASSUME WorkInv, LifeInv, [WorkNext]_workVars PROVE Life!Next \/ UNCHANGED Life!vars
    OBVIOUS
  <2>1. ASSUME UNCHANGED <<jobs, jobState, runJob>>,
               \A r \in Run : stage'[r] \in {"committed", "done"} <=> stage[r] \in {"committed", "done"}
        PROVE  UNCHANGED Life!vars
    <3>1. jobsDone' = jobsDone
      BY <2>1 DEF jobsDone
    <3> QED
      BY <2>1, <3>1, LifeFrame
  <2>2. ASSUME NEW r \in Run, NEW j \in Job, Begin(r, j) PROVE UNCHANGED Life!vars
    <3>1. stage[r] = "none" /\ runJob' = [runJob EXCEPT ![r] = j] /\ stage' = [stage EXCEPT ![r] = "open"]
          /\ jobs' = jobs /\ jobState' = jobState
          /\ runJob \in [Run -> Nat] /\ stage \in [Run -> Stages]
      BY <2>2 DEF Begin, ingestVars, WorkInv, PipelineTypeOK
    <3>2. \A q \in Run : /\ stage'[q] \in {"committed", "done"} <=> stage[q] \in {"committed", "done"}
                         /\ stage[q] \in {"committed", "done"} => runJob'[q] = runJob[q]
      BY <3>1
    <3>3. jobsDone' = jobsDone
      BY <3>2 DEF jobsDone
    <3> QED
      BY <3>1, <3>3, LifeFrame
  <2>3. ASSUME NEW r \in Run, Extract(r) \/ ResolveEntity(r) \/ Judge(r) \/ FailRun(r) \/ CrashRun(r)
        PROVE  UNCHANGED Life!vars
    <3>1. stage \in [Run -> Stages]
      BY DEF WorkInv, PipelineTypeOK
    <3>2. UNCHANGED <<jobs, jobState, runJob>>
      BY <2>3 DEF Extract, ResolveEntity, Judge, FailRun, CrashRun, ingestVars
    <3>3. CASE Extract(r) \/ ResolveEntity(r) \/ Judge(r)
      BY <2>1, <3>2, <3>3 DEF Extract, ResolveEntity, Judge
    <3>4. CASE FailRun(r)
      <4>1. stage[r] = "open" /\ stage' = [stage EXCEPT ![r] = "failed"]
        BY <3>4 DEF FailRun, OpenRuns
      <4> QED
        BY <2>1, <3>1, <3>2, <4>1
    <3>5. CASE CrashRun(r)
      <4>1. /\ stage[r] \in {"committed", "failed"}
            /\ stage' = [stage EXCEPT ![r] = IF stage[r] = "committed" THEN "done" ELSE "gave up"]
        BY <3>5 DEF CrashRun
      <4> QED
        BY <2>1, <3>1, <3>2, <4>1
    <3> QED
      BY <2>3, <3>3, <3>4, <3>5
  <2>4. CASE UNCHANGED workVars
    BY <2>1, <2>4 DEF workVars, pipelineVars, runVars, ingestVars
  <2> QED
    BY <2>2, <2>3, <2>4, SubmitRefines, CommitRefines, AckRefines, ReapRefines DEF WorkNext
<1>3. WorkInv /\ LifeInv /\ [WorkNext]_workVars => LifeInv'
  BY LifeStep
<1> QED
  BY <1>1, <1>2, <1>3, WorkInductive, PTL DEF WorkSpec, FollowsLifecycle, Life!Spec
=============================================================================
