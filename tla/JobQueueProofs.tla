--------------------------- MODULE JobQueueProofs ---------------------------
(***************************************************************************)
(* Proofs about JobQueue for every number of workers, tenants, jobs,       *)
(* attempts and requeues.                                                  *)
(***************************************************************************)
EXTENDS JobQueue, FiniteSetTheorems, TLAPS

\* The initial state is typed.
LEMMA TypeInit == Init => TypeOK
  BY BoundsAssumption DEF Init, TypeOK, JobId, Outcomes, Phases

\* Every step of the queue and its workers keeps the types, the ceiling on
\* attempts among them.
LEMMA TypeStep == TypeOK /\ [Next]_vars => TypeOK'
<1> SUFFICES ASSUME TypeOK, [Next]_vars PROVE TypeOK'
  OBVIOUS
<1> USE BoundsAssumption DEF TypeOK, JobId
<1>1. CASE Send
  BY <1>1 DEF Send, readVars, batchVars, history
<1>2. ASSUME NEW j \in JobId, Lapse(j) PROVE TypeOK'
  BY <1>2 DEF Lapse, readVars, batchVars
<1>3. ASSUME NEW j \in JobId, Requeue(j) PROVE TypeOK'
  <2> USE <1>3 DEF Requeue
  <2>1. requeued' \in [JobId -> 0..MaxRequeue]
    <3>1. requeued[j] + 1 \in 0..MaxRequeue
      OBVIOUS
    <3> QED
      BY <3>1
  <2>2. attempts' \in [JobId -> 0..MaxAttempts] /\ outcome' \in [JobId -> Outcomes \cup {"none"}]
    OBVIOUS
  <2> QED
    BY <2>1, <2>2 DEF readVars, batchVars
<1>4. ASSUME NEW w \in Worker, Rank(w) PROVE TypeOK'
  <2>1. FairTop(BatchSize) \subseteq JobId
    BY DEF FairTop, Ready
  <2> QED
    BY <1>4, <2>1 DEF Rank, queueVars, batchVars, history
<1>5. ASSUME NEW w \in Worker, Claim(w) PROVE TypeOK'
  <2> USE <1>5 DEF Claim
  <2>1. attempts' \in [JobId -> 0..MaxAttempts]
    <3>1. \A j \in Claimable(w) : attempts[j] \in 0..MaxAttempts /\ attempts[j] < MaxAttempts
      BY DEF Claimable, Ready
    <3>2. \A n \in 0..MaxAttempts : n < MaxAttempts => n + 1 \in 0..MaxAttempts
      BY BoundsAssumption
    <3> QED
      BY <3>1, <3>2
  <2>2. outcome' \in [JobId -> Outcomes \cup {"none"}]
    BY DEF Outcomes
  <2>3. phase' \in [Worker -> [JobId -> Phases]]
    BY DEF Phases
  <2>4. taken' \in [Worker -> [JobId -> 0..MaxAttempts]]
    BY <2>1
  <2>5. holders' \in [JobId -> SUBSET Worker]
    OBVIOUS
  <2>6. delivered' \in [JobId -> Nat]
    <3>1. \A j \in JobId : delivered[j] + 1 \in Nat
      OBVIOUS
    <3> QED
      BY <3>1
  <2>7. live' \subseteq JobId /\ visible' \subseteq live'
    BY DEF Claimable, Ready
  <2>8. reading' \subseteq Worker /\ ranked' \in [Worker -> SUBSET JobId]
    OBVIOUS
  <2> QED
    BY <2>1, <2>2, <2>3, <2>4, <2>5, <2>6, <2>7, <2>8
<1>6. ASSUME NEW w \in Worker, Crash(w) PROVE TypeOK'
  BY <1>6 DEF Crash, queueVars, history, Phases
<1>7. ASSUME NEW w \in Worker, NEW j \in JobId, Start(w, j) PROVE TypeOK'
  BY <1>7 DEF Start, queueVars, readVars, history, Phases
<1>8. ASSUME NEW w \in Worker, NEW j \in JobId, RunOk(w, j) PROVE TypeOK'
  BY <1>8 DEF RunOk, queueVars, readVars, Phases
<1>9. ASSUME NEW w \in Worker, NEW j \in JobId, RunErr(w, j) PROVE TypeOK'
  BY <1>9 DEF RunErr, queueVars, readVars, history, Phases
<1>10. ASSUME NEW w \in Worker, NEW j \in JobId, ArchiveInsert(w, j) PROVE TypeOK'
  BY <1>10 DEF ArchiveInsert, queueVars, readVars, Phases
<1>11. ASSUME NEW w \in Worker, NEW j \in JobId, ArchiveDelete(w, j) PROVE TypeOK'
  <2> USE <1>11 DEF ArchiveDelete, readVars
  <2>1. outcome' \in [JobId -> Outcomes \cup {"none"}]
    BY DEF Outcomes
  <2>2. attempts' \in [JobId -> 0..MaxAttempts]
    <3>1. taken[w][j] \in 0..MaxAttempts
      OBVIOUS
    <3>2. CASE attempts' = [attempts EXCEPT ![j] = taken[w][j]]
      BY <3>1, <3>2
    <3>3. CASE UNCHANGED attempts
      BY <3>3
    <3> QED
      BY <3>2, <3>3
  <2>3. phase' \in [Worker -> [JobId -> Phases]]
    BY DEF Phases
  <2>4. holders' \in [JobId -> SUBSET Worker]
    OBVIOUS
  <2> QED
    BY <2>1, <2>2, <2>3, <2>4
<1>12. ASSUME NEW w \in Worker, NEW j \in JobId, FailRetry(w, j) PROVE TypeOK'
  BY <1>12 DEF FailRetry, readVars, Phases
<1>13. ASSUME NEW w \in Worker, NEW j \in JobId, AckLost(w, j) PROVE TypeOK'
  BY <1>13 DEF AckLost, queueVars, readVars, history, Phases
<1>14. CASE UNCHANGED vars
  BY <1>14 DEF vars, queueVars, readVars, batchVars, history
<1> QED
  BY <1>1, <1>2, <1>3, <1>4, <1>5, <1>6, <1>7, <1>8, <1>9, <1>10, <1>11,
     <1>12, <1>13, <1>14 DEF Next

\* The queue's variables always have their types: in particular no job's
\* attempts pass MAX_ATTEMPTS (queue.rs:83-84).
THEOREM TypeCorrect == Spec => []TypeOK
  BY TypeInit, TypeStep, PTL DEF Spec

-----------------------------------------------------------------------------
\* The code's empty tables and idle workers satisfy the inductive invariant.
LEMMA InvInit == Init => IInv
<1> SUFFICES ASSUME Init PROVE IInv
  OBVIOUS
<1>1. TypeOK
  BY TypeInit
<1> QED
  BY <1>1, BoundsAssumption
  DEF Init, IInv, OneHome, NoDoubleClaim, OkIsEarned, KeptUnlessRequeued, Known,
      WindowHides, SoleCopier, SnapshotHolds, AckIsEarned, BudgetCounted, Copied, JobId

\* A fresh budget is one more multiple of MAX_ATTEMPTS.
LEMMA NextBudget == \A m, r \in Nat : m * (r + 1) = m * r + m /\ m * r \in Nat
  OBVIOUS

\* Every statement of the queue and every step of a worker keeps the inductive
\* invariant: one case per action.
LEMMA InvStep == IInv /\ [Next]_vars => IInv'
<1> SUFFICES ASSUME IInv, [Next]_vars PROVE IInv'
  OBVIOUS
<1>0. TypeOK /\ TypeOK'
  BY TypeStep DEF IInv
<1> USE <1>0
<1>1. CASE Send
  <2> USE <1>1 DEF Send, readVars, batchVars, history
  <2>1. sent + 1 \in JobId /\ sent + 1 \notin 1..sent /\ 1..sent' = 1..sent \cup {sent + 1}
    <3>1. sent \in Nat /\ sent < MaxJob /\ MaxJob \in Nat /\ sent' = sent + 1
      BY BoundsAssumption DEF TypeOK
    <3> HIDE <1>1 DEF Send
    <3> QED
      BY <3>1 DEF JobId
  <2>2. /\ outcome[sent + 1] = "none" /\ delivered[sent + 1] = 0
        /\ \A w \in Worker : phase[w][sent + 1] = "idle"
        /\ sent + 1 \notin live
    BY <2>1 DEF IInv, Known
  <2>3. OneHome' /\ NoDoubleClaim' /\ OkIsEarned'
    BY <2>2 DEF IInv, OneHome, NoDoubleClaim, OkIsEarned
  <2>4. Known' /\ KeptUnlessRequeued'
    BY <2>1 DEF IInv, Known, KeptUnlessRequeued
  <2>5. WindowHides' /\ SoleCopier' /\ SnapshotHolds' /\ AckIsEarned'
    BY <2>1, <2>2 DEF IInv, WindowHides, SoleCopier, SnapshotHolds, AckIsEarned, Copied
  <2>6. BudgetCounted'
    <3> SUFFICES ASSUME NEW j \in JobId
                 PROVE delivered[j] <= MaxAttempts * requeued[j]
                                       + (IF j \in live' THEN attempts[j] ELSE MaxAttempts)
      BY DEF BudgetCounted
    <3>1. MaxAttempts * requeued[j] \in Nat /\ attempts[j] \in Nat /\ delivered[j] \in Nat
      BY BoundsAssumption, NextBudget DEF TypeOK
    <3>2. CASE j = sent + 1
      BY <2>2, <3>1, <3>2
    <3>3. CASE j # sent + 1
      BY <3>3 DEF IInv, BudgetCounted
    <3> QED
      BY <3>2, <3>3
  <2> QED
    BY <2>3, <2>4, <2>5, <2>6 DEF IInv
<1>2. ASSUME NEW j \in JobId, Lapse(j) PROVE IInv'
  BY <1>2 DEF Lapse, readVars, batchVars, TypeOK, IInv, OneHome, NoDoubleClaim,
       OkIsEarned, KeptUnlessRequeued, Known, WindowHides, SoleCopier, SnapshotHolds,
       AckIsEarned, BudgetCounted
<1>3. ASSUME NEW j \in JobId, Requeue(j) PROVE IInv'
  <2> USE <1>3 DEF Requeue, DeadLetter, readVars, batchVars
  <2>1. j \in 1..sent
    BY DEF IInv, Known
  <2>2. holders[j] = {}
    BY DEF IInv, WindowHides, TypeOK
  <2>3. OneHome' /\ NoDoubleClaim' /\ OkIsEarned' /\ WindowHides'
    BY <2>2 DEF TypeOK, IInv, OneHome, NoDoubleClaim, OkIsEarned, WindowHides
  <2>4. KeptUnlessRequeued' /\ Known'
    BY <2>1 DEF TypeOK, IInv, KeptUnlessRequeued, Known
  <2>5. SoleCopier' /\ AckIsEarned'
    BY DEF IInv, SoleCopier, AckIsEarned
  <2>6. SnapshotHolds'
    <3>1. requeued'[j] # 0
      BY DEF TypeOK
    <3> QED
      BY <3>1 DEF TypeOK, IInv, SnapshotHolds
  <2>7. BudgetCounted'
    <3> SUFFICES ASSUME NEW i \in JobId
                 PROVE delivered[i] <= MaxAttempts * requeued'[i]
                                       + (IF i \in live' THEN attempts'[i] ELSE MaxAttempts)
      BY DEF BudgetCounted
    <3>1. CASE i = j
      <4>1. delivered[j] <= MaxAttempts * requeued[j] + MaxAttempts
        BY DEF IInv, BudgetCounted
      <4>2. MaxAttempts * (requeued[j] + 1) = MaxAttempts * requeued[j] + MaxAttempts
        BY NextBudget, BoundsAssumption DEF TypeOK
      <4>3. requeued'[j] = requeued[j] + 1 /\ attempts'[j] = 0 /\ j \in live'
        BY DEF TypeOK
      <4>4. MaxAttempts * requeued[j] \in Nat /\ MaxAttempts \in Nat
        BY NextBudget, BoundsAssumption DEF TypeOK
      <4> QED
        BY <3>1, <4>1, <4>2, <4>3, <4>4
    <3>2. CASE i # j
      BY <3>2 DEF TypeOK, IInv, BudgetCounted
    <3> QED
      BY <3>1, <3>2
  <2> QED
    BY <2>3, <2>4, <2>5, <2>6, <2>7 DEF IInv
<1>4. ASSUME NEW w \in Worker, Rank(w) PROVE IInv'
  BY <1>4 DEF Rank, queueVars, batchVars, history, IInv, OneHome, NoDoubleClaim,
       OkIsEarned, KeptUnlessRequeued, Known, WindowHides, SoleCopier, SnapshotHolds,
       AckIsEarned, BudgetCounted
<1>5. ASSUME NEW w \in Worker, Claim(w) PROVE IInv'
  <2> USE <1>5 DEF Claim
  <2>1. /\ Claimable(w) \subseteq live \cap visible
        /\ Reapable \subseteq live \cap visible
        /\ Claimable(w) \cap Reapable = {}
    BY BoundsAssumption DEF Claimable, Ready, Reapable, TypeOK
  <2>2. \A i \in Claimable(w) \cup Reapable : holders[i] = {}
    BY <2>1 DEF IInv, WindowHides, TypeOK
  <2>3. \A i \in JobId : i \in live' => outcome'[i] = outcome[i]
    BY DEF TypeOK
  <2>4. OneHome' /\ OkIsEarned'
    BY <2>3 DEF TypeOK, IInv, OneHome, OkIsEarned
  <2>5. NoDoubleClaim' /\ WindowHides'
    BY <2>1, <2>2 DEF TypeOK, IInv, NoDoubleClaim, WindowHides
  <2>6. KeptUnlessRequeued'
    <3> SUFFICES ASSUME NEW i \in 1..sent, requeued[i] = 0
                 PROVE i \in live' \/ outcome'[i] # "none"
      BY DEF KeptUnlessRequeued
    <3>1. i \in JobId /\ (i \in live \/ outcome[i] # "none")
      BY BoundsAssumption DEF TypeOK, JobId, IInv, KeptUnlessRequeued
    <3>2. i \in Reapable => outcome'[i] = "dead"
      BY <3>1
    <3>3. i \notin Reapable => outcome'[i] = outcome[i] /\ (i \in live => i \in live')
      BY <3>1
    <3> QED
      BY <3>1, <3>2, <3>3
  <2>7. Known'
    BY <2>1 DEF TypeOK, IInv, Known
  <2>8. \A v \in Worker, i \in JobId :
          phase'[v][i] \in Copied \cup {"missed", "ok"} => phase'[v][i] = phase[v][i]
    BY DEF TypeOK, Copied
  <2>9. SoleCopier' /\ AckIsEarned'
    <3>1. \A v \in Worker, i \in JobId : phase[v][i] \in Copied => i \notin Reapable
      BY DEF CopyOpen
    <3> QED
      BY <2>8, <3>1 DEF IInv, SoleCopier, AckIsEarned, Copied
  <2>10. SnapshotHolds'
    <3> SUFFICES ASSUME NEW v \in Worker, NEW i \in JobId, requeued[i] = 0
                 PROVE /\ phase'[v][i] \in Copied => i \in live'
                       /\ phase'[v][i] = "missed" => i \notin live'
      BY DEF SnapshotHolds
    <3>1. phase'[v][i] \in Copied => i \in live'
      BY <2>8 DEF IInv, SnapshotHolds, CopyOpen, Copied
    <3>2. phase'[v][i] = "missed" => i \notin live'
      BY <2>8 DEF IInv, SnapshotHolds
    <3> QED
      BY <3>1, <3>2
  <2>11. BudgetCounted'
    <3> SUFFICES ASSUME NEW i \in JobId
                 PROVE delivered'[i] <= MaxAttempts * requeued[i]
                                        + (IF i \in live' THEN attempts'[i] ELSE MaxAttempts)
      BY DEF BudgetCounted
    <3>1. delivered[i] <= MaxAttempts * requeued[i]
                          + (IF i \in live THEN attempts[i] ELSE MaxAttempts)
      BY DEF IInv, BudgetCounted
    <3>2. /\ MaxAttempts * requeued[i] \in Nat /\ MaxAttempts \in Nat
          /\ attempts[i] \in 0..MaxAttempts /\ delivered[i] \in Nat
      BY NextBudget, BoundsAssumption DEF TypeOK
    <3>3. CASE i \in Claimable(w)
      BY <2>1, <3>1, <3>2, <3>3 DEF TypeOK
    <3>4. CASE i \notin Claimable(w)
      BY <3>1, <3>2, <3>4 DEF TypeOK
    <3> QED
      BY <3>3, <3>4
  <2> QED
    BY <2>4, <2>5, <2>6, <2>7, <2>9, <2>10, <2>11 DEF IInv
<1>6. ASSUME NEW w \in Worker, Crash(w) PROVE IInv'
  BY <1>6 DEF Crash, queueVars, history, TypeOK, IInv, OneHome, NoDoubleClaim,
       OkIsEarned, KeptUnlessRequeued, Known, WindowHides, SoleCopier, SnapshotHolds,
       AckIsEarned, BudgetCounted, Copied
<1>7. ASSUME NEW w \in Worker, NEW j \in JobId, Start(w, j) \/ RunErr(w, j) \/ AckLost(w, j)
      PROVE IInv'
  <2>1. /\ UNCHANGED <<queueVars, readVars, taken, history>>
        /\ phase[w][j] # "idle"
        /\ \E p \in {"running", "err", "idle"} : phase' = [phase EXCEPT ![w][j] = p]
    BY <1>7 DEF Start, RunErr, AckLost, Reported
  <2>2. \A v \in Worker, i \in JobId :
          /\ phase'[v][i] \in Copied \cup {"missed", "ok"} => phase'[v][i] = phase[v][i]
          /\ phase[v][i] = "idle" => phase'[v][i] = "idle"
    BY <2>1 DEF TypeOK, Copied
  <2> USE <2>1, <2>2 DEF queueVars, readVars, history
  <2>3. OneHome' /\ NoDoubleClaim' /\ OkIsEarned' /\ KeptUnlessRequeued'
        /\ WindowHides' /\ BudgetCounted'
    BY DEF IInv, OneHome, NoDoubleClaim, OkIsEarned, KeptUnlessRequeued,
           WindowHides, BudgetCounted
  <2>4. Known' /\ SoleCopier' /\ SnapshotHolds' /\ AckIsEarned'
    BY DEF IInv, Known, SoleCopier, SnapshotHolds, AckIsEarned, Copied
  <2> QED
    BY <2>3, <2>4 DEF IInv
<1>8. ASSUME NEW w \in Worker, NEW j \in JobId, RunOk(w, j) PROVE IInv'
  BY <1>8 DEF RunOk, queueVars, readVars, TypeOK, IInv, OneHome, NoDoubleClaim,
       OkIsEarned, KeptUnlessRequeued, Known, WindowHides, SoleCopier, SnapshotHolds,
       AckIsEarned, BudgetCounted, Copied
<1>9. ASSUME NEW w \in Worker, NEW j \in JobId, ArchiveInsert(w, j) PROVE IInv'
  <2> USE <1>9 DEF ArchiveInsert, queueVars, readVars
  <2>1. OneHome' /\ NoDoubleClaim' /\ OkIsEarned' /\ KeptUnlessRequeued'
        /\ WindowHides' /\ BudgetCounted'
    BY DEF IInv, OneHome, NoDoubleClaim, OkIsEarned, KeptUnlessRequeued,
           WindowHides, BudgetCounted
  <2>2. Known'
    BY DEF TypeOK, IInv, Known, Archives
  <2>3. SoleCopier'
    <3>1. \A v \in Worker : phase[v][j] \notin Copied
      BY DEF CopyOpen
    <3>2. phase'[w][j] \in Copied => outcome[j] = "none"
      BY DEF TypeOK, RowFound, Copied
    <3> QED
      BY <3>1, <3>2 DEF TypeOK, IInv, SoleCopier
  <2>4. SnapshotHolds'
    BY DEF TypeOK, IInv, SnapshotHolds, RowFound, OneHome, Copied
  <2>5. AckIsEarned'
    BY DEF TypeOK, IInv, AckIsEarned, Archives
  <2> QED
    BY <2>1, <2>2, <2>3, <2>4, <2>5 DEF IInv
<1>10. ASSUME NEW w \in Worker, NEW j \in JobId, ArchiveDelete(w, j) PROVE IInv'
  <2> USE <1>10 DEF ArchiveDelete, readVars
  <2>1. phase' = [phase EXCEPT ![w][j] = "idle"]
    OBVIOUS
  <2>2. \A i \in JobId : i # j => /\ outcome'[i] = outcome[i] /\ attempts'[i] = attempts[i]
                                  /\ holders'[i] = holders[i]
                                  /\ (i \in live' <=> i \in live)
    BY DEF TypeOK
  <2>3. OneHome'
    BY <2>2 DEF TypeOK, IInv, OneHome
  <2>4. NoDoubleClaim' /\ WindowHides'
    BY DEF TypeOK, IInv, NoDoubleClaim, WindowHides
  <2>5. OkIsEarned'
    BY DEF TypeOK, IInv, OkIsEarned, AckIsEarned, Copied
  <2>6. KeptUnlessRequeued'
    <3> SUFFICES ASSUME NEW i \in 1..sent, requeued[i] = 0
                 PROVE i \in live' \/ outcome'[i] # "none"
      BY DEF KeptUnlessRequeued
    <3>1. i \in JobId /\ (i \in live \/ outcome[i] # "none")
      BY BoundsAssumption DEF TypeOK, JobId, IInv, KeptUnlessRequeued
    <3>2. CASE i # j
      BY <2>2, <3>1, <3>2
    <3>3. CASE i = j /\ phase[w][j] \in Copied
      BY <3>1, <3>3 DEF TypeOK, Copied
    <3>4. CASE i = j /\ phase[w][j] = "missed"
      BY <3>1, <3>4 DEF TypeOK, IInv, SnapshotHolds
    <3> QED
      BY <3>2, <3>3, <3>4
  <2>7. j \in 1..sent
    BY DEF IInv, Known, Copied
  <2>8. Known'
    <3>1. live' \subseteq 1..sent' /\ sent' = sent
      BY <2>2 DEF IInv, Known
    <3>2. ASSUME NEW i \in JobId, i \notin 1..sent
          PROVE  /\ outcome'[i] = "none" /\ delivered'[i] = 0
                 /\ \A v \in Worker : phase'[v][i] = "idle"
      BY <2>1, <2>2, <2>7, <3>2 DEF TypeOK, IInv, Known
    <3> QED
      BY <3>1, <3>2 DEF Known
  <2>9. SoleCopier' /\ AckIsEarned'
    BY <2>1 DEF TypeOK, IInv, SoleCopier, AckIsEarned, Copied
  <2>10. SnapshotHolds'
    BY <2>1, <2>2 DEF TypeOK, IInv, SnapshotHolds, SoleCopier, Copied
  <2>11. BudgetCounted'
    <3> SUFFICES ASSUME NEW i \in JobId
                 PROVE delivered[i] <= MaxAttempts * requeued[i]
                                       + (IF i \in live' THEN attempts'[i] ELSE MaxAttempts)
      BY DEF BudgetCounted
    <3>1. delivered[i] <= MaxAttempts * requeued[i]
                          + (IF i \in live THEN attempts[i] ELSE MaxAttempts)
      BY DEF IInv, BudgetCounted
    <3>2. /\ MaxAttempts * requeued[i] \in Nat /\ MaxAttempts \in Nat
          /\ attempts[i] \in 0..MaxAttempts /\ delivered[i] \in Nat
      BY NextBudget, BoundsAssumption DEF TypeOK
    <3>3. CASE i = j
      BY <3>1, <3>2, <3>3
    <3>4. CASE i # j
      BY <2>2, <3>1, <3>4
    <3> QED
      BY <3>3, <3>4
  <2> QED
    BY <2>3, <2>4, <2>5, <2>6, <2>8, <2>9, <2>10, <2>11 DEF IInv
<1>11. ASSUME NEW w \in Worker, NEW j \in JobId, FailRetry(w, j) PROVE IInv'
  <2> USE <1>11 DEF FailRetry, readVars
  <2>1. OneHome' /\ NoDoubleClaim' /\ OkIsEarned' /\ KeptUnlessRequeued' /\ BudgetCounted'
    BY DEF TypeOK, IInv, OneHome, NoDoubleClaim, OkIsEarned, KeptUnlessRequeued, BudgetCounted
  <2>2. WindowHides'
    BY DEF TypeOK, IInv, WindowHides
  <2>3. Known' /\ SoleCopier' /\ SnapshotHolds' /\ AckIsEarned'
    BY DEF TypeOK, IInv, Known, SoleCopier, SnapshotHolds, AckIsEarned, Copied
  <2> QED
    BY <2>1, <2>2, <2>3 DEF IInv
<1>12. CASE UNCHANGED vars
  BY <1>12 DEF vars, queueVars, readVars, batchVars, history, IInv, OneHome, NoDoubleClaim,
       OkIsEarned, KeptUnlessRequeued, Known, WindowHides, SoleCopier, SnapshotHolds,
       AckIsEarned, BudgetCounted
<1> QED
  BY <1>1, <1>2, <1>3, <1>4, <1>5, <1>6, <1>7, <1>8, <1>9, <1>10, <1>11, <1>12 DEF Next

-----------------------------------------------------------------------------
\* The facts the queue's SQL relies on hold in every reachable state.
LEMMA Inductive == Spec => []IInv
  BY InvInit, InvStep, PTL DEF Spec

\* A job is never live and archived at once (OneHome), whatever order the
\* reaper, late acknowledgements and requeues come in.
THEOREM OneHomeHolds == Spec => []OneHome
<1>1. IInv => OneHome
  BY DEF IInv
<1> QED
  BY <1>1, Inductive, PTL

\* At most one claim's visibility window runs on a job: read() never hands a
\* job to two workers from one snapshot (queue.rs:97-105).
THEOREM SingleClaim == Spec => []NoDoubleClaim
<1>1. IInv => NoDoubleClaim
  BY DEF IInv
<1> QED
  BY <1>1, Inductive, PTL

\* The archive records 'ok' only for a job one of whose runs committed.
THEOREM OkEarned == Spec => []OkIsEarned
<1>1. IInv => OkIsEarned
  BY DEF IInv
<1> QED
  BY <1>1, Inductive, PTL

\* No crash, lapse, lost or late acknowledgement loses a job that no operator
\* requeued.
THEOREM NothingLost == Spec => []KeptUnlessRequeued
<1>1. IInv => KeptUnlessRequeued
  BY DEF IInv
<1> QED
  BY <1>1, Inductive, PTL

\* Poison input is delivered at most MAX_ATTEMPTS times per budget.
THEOREM BoundedDelivery == Spec => []DeliveryBudget
<1>1. IInv => DeliveryBudget
  <2> SUFFICES ASSUME IInv, NEW j \in JobId
               PROVE delivered[j] <= MaxAttempts * (1 + requeued[j])
    BY DEF DeliveryBudget
  <2>1. /\ MaxAttempts * requeued[j] \in Nat /\ MaxAttempts \in Nat
        /\ attempts[j] \in 0..MaxAttempts /\ delivered[j] \in Nat /\ requeued[j] \in Nat
    BY NextBudget, BoundsAssumption DEF IInv, TypeOK
  <2>2. MaxAttempts * (1 + requeued[j]) = MaxAttempts * requeued[j] + MaxAttempts
    BY NextBudget, <2>1
  <2>3. delivered[j] <= MaxAttempts * requeued[j]
                        + (IF j \in live THEN attempts[j] ELSE MaxAttempts)
    BY DEF IInv, BudgetCounted
  <2> QED
    BY <2>1, <2>2, <2>3
<1> QED
  BY <1>1, Inductive, PTL

\* 'ok' is terminal.
THEOREM OkFinal == Spec => OkIsFinal
<1>1. IInv /\ [Next]_vars =>
        [\A j \in JobId : outcome[j] = "ok" => outcome'[j] = "ok" /\ j \notin live']_vars
  <2> SUFFICES ASSUME IInv, Next, NEW j \in JobId, outcome[j] = "ok"
               PROVE outcome'[j] = "ok" /\ j \notin live'
    OBVIOUS
  <2>1. TypeOK /\ j \notin live /\ j \in 1..sent
    BY DEF IInv, OneHome, Known
  <2>2. \A w \in Worker : phase[w][j] \notin Copied
    BY DEF IInv, SoleCopier
  <2>3. CASE Send
    BY <2>1, <2>3 DEF Send, TypeOK
  <2>4. ASSUME NEW i \in JobId, Lapse(i) \/ Requeue(i)
        PROVE outcome'[j] = "ok" /\ j \notin live'
    BY <2>1, <2>4 DEF Lapse, Requeue, DeadLetter, TypeOK
  <2>5. ASSUME NEW w \in Worker, Rank(w) \/ Crash(w)
        PROVE outcome'[j] = "ok" /\ j \notin live'
    BY <2>1, <2>5 DEF Rank, Crash, queueVars
  <2>6. ASSUME NEW w \in Worker, Claim(w) PROVE outcome'[j] = "ok" /\ j \notin live'
    BY <2>1, <2>6 DEF Claim, Reapable
  <2>7. ASSUME NEW w \in Worker, NEW i \in JobId, ArchiveDelete(w, i)
        PROVE outcome'[j] = "ok" /\ j \notin live'
    BY <2>1, <2>2, <2>7 DEF ArchiveDelete, TypeOK
  <2>8. ASSUME NEW w \in Worker, NEW i \in JobId,
               \/ Start(w, i) \/ RunOk(w, i) \/ RunErr(w, i)
               \/ ArchiveInsert(w, i) \/ FailRetry(w, i) \/ AckLost(w, i)
        PROVE outcome'[j] = "ok" /\ j \notin live'
    BY <2>1, <2>8 DEF Start, RunOk, RunErr, ArchiveInsert, FailRetry, AckLost, queueVars
  <2> QED
    BY <2>3, <2>4, <2>5, <2>6, <2>7, <2>8 DEF Next
<1> QED
  BY <1>1, Inductive, PTL DEF Spec, OkIsFinal

-----------------------------------------------------------------------------
(* Ranking. *)

\* Every nonempty set of job ids has a least one.
LEMMA OldestExists ==
  ASSUME NEW S \in SUBSET Nat, S # {}
  PROVE  \E h \in S : \A i \in S : h <= i
<1> DEFINE T == {0..x : x \in S}
           R == StrictSubsetOrdering(Nat)
<1>1. T # {} /\ T \subseteq FiniteSubsetsOf(Nat)
  <2>1. \A x \in S : IsFiniteSet(0..x) /\ 0..x \subseteq Nat
    BY FS_Interval
  <2> QED
    BY <2>1 DEF FiniteSubsetsOf
<1>2. IsWellFoundedOn(R, FiniteSubsetsOf(Nat))
  BY FS_StrictSubsetOrderingWellFounded
<1> HIDE DEF T, R
<1>3. \E X \in T : \A Y \in T : ~ (<<Y, X>> \in R)
  BY <1>1, <1>2, WFMin
<1>4. PICK h \in S : \A i \in S : ~ (<<0..i, 0..h>> \in R)
  BY <1>3 DEF T
<1>5. ASSUME NEW i \in S, i < h PROVE FALSE
  <2>1. 0..i \subseteq 0..h /\ h \in 0..h /\ h \notin 0..i
    BY <1>5
  <2>2. 0..i \in SUBSET Nat /\ 0..h \in SUBSET Nat /\ 0..i # 0..h
    BY <2>1
  <2>3. <<0..i, 0..h>> \in R
    BY <2>1, <2>2 DEF R, StrictSubsetOrdering
  <2> QED
    BY <1>4, <2>3
<1> QED
  BY <1>5

\* There are finitely many ready jobs, and the rank of one counts at least itself.
LEMMA ReadyRanks ==
  ASSUME TypeOK
  PROVE  /\ Ready \in SUBSET JobId /\ IsFiniteSet(Ready)
         /\ \A j \in Ready : j \in Nat /\ OrgRank(j) \in Nat \ {0}
<1>1. Ready \in SUBSET JobId /\ IsFiniteSet(JobId)
  <2>1. 1 \in Int /\ MaxJob \in Int
    BY BoundsAssumption
  <2>2. IsFiniteSet(1..MaxJob)
    BY <2>1, FS_Interval
  <2> QED
    BY <2>2 DEF Ready, TypeOK, JobId
<1>2. IsFiniteSet(Ready)
  BY <1>1, FS_Subset
<1>3. ASSUME NEW j \in Ready PROVE j \in Nat /\ OrgRank(j) \in Nat \ {0}
  <2> DEFINE S == {k \in Ready : org[k] = org[j] /\ k <= j}
  <2>1. j \in S
    BY <1>1 DEF JobId
  <2>2. IsFiniteSet(S) /\ S # {}
    BY <1>2, <2>1, FS_Subset
  <2> HIDE DEF S
  <2>3. Cardinality(S) \in Nat \ {0}
    BY <2>2, FS_CardinalityType, FS_EmptySet
  <2> QED
    BY <1>1, <2>3, BoundsAssumption DEF OrgRank, S, JobId
<1> QED
  BY <1>1, <1>2, <1>3

\* Within a tenant a later job has a greater rank.
LEMMA RankGrows ==
  ASSUME TypeOK, NEW k \in Ready, NEW j \in Ready, org[k] = org[j], k < j
  PROVE  OrgRank(k) < OrgRank(j)
<1> DEFINE S == {i \in Ready : org[i] = org[j] /\ i <= j}
           T == {i \in Ready : org[i] = org[k] /\ i <= k}
<1>1. IsFiniteSet(Ready) /\ \A i \in Ready : i \in Nat
  BY ReadyRanks
<1>2. T \in SUBSET S /\ j \in S /\ j \notin T
  <2>1. \A i \in Ready : i <= k => i <= j
    BY <1>1
  <2>2. j <= j /\ ~ (j <= k)
    BY <1>1
  <2> QED
    BY <2>1, <2>2
<1>3. IsFiniteSet(S)
  BY <1>1, FS_Subset
<1>4. OrgRank(j) = Cardinality(S) /\ OrgRank(k) = Cardinality(T)
  BY DEF OrgRank
<1> HIDE DEF S, T
<1>5. Cardinality(T) <= Cardinality(S) /\ Cardinality(T) # Cardinality(S)
  BY <1>2, <1>3, FS_Subset
<1>6. OrgRank(j) \in Nat /\ OrgRank(k) \in Nat
  BY ReadyRanks
<1> QED
  BY <1>4, <1>5, <1>6

\* A batch that has a job of a tenant has every ready older one of it.
LEMMA OldestFirst ==
  ASSUME TypeOK, NEW n \in Nat, NEW j \in FairTop(n), NEW k \in Ready, org[j] = org[k], k < j
  PROVE  k \in FairTop(n)
<1> DEFINE S == {i \in Ready : RankedBefore(i, j)}
           T == {i \in Ready : RankedBefore(i, k)}
<1>1. j \in Ready /\ Cardinality(S) < n
  BY DEF FairTop
<1>2. OrgRank(k) < OrgRank(j)
  BY <1>1, RankGrows
<1>3. T \in SUBSET S
  BY <1>1, <1>2, ReadyRanks DEF RankedBefore
<1>4. IsFiniteSet(S)
  BY ReadyRanks, FS_Subset
<1> HIDE DEF S
<1>5. Cardinality(T) <= Cardinality(S) /\ Cardinality(T) \in Nat /\ Cardinality(S) \in Nat
  <2> HIDE DEF T
  <2> QED
    BY <1>3, <1>4, FS_Subset, FS_CardinalityType
<1>6. Cardinality(T) < n
  <2> HIDE DEF T
  <2> QED
    BY <1>1, <1>5
<1> QED
  BY <1>6 DEF FairTop

\* When the batch has room for every tenant with work, each has a job in it.
LEMMA EveryTenantServed ==
  ASSUME TypeOK, NEW n \in Nat, Cardinality({org[j] : j \in Ready}) <= n, NEW i \in Ready
  PROVE  \E h \in FairTop(n) : org[h] = org[i]
<1> DEFINE orgs == {org[j] : j \in Ready}
           Mine == {j \in Ready : org[j] = org[i]}
<1>0. Ready \in SUBSET JobId /\ IsFiniteSet(Ready) /\ \A j \in Ready : j \in Nat /\ OrgRank(j) \in Nat \ {0}
  BY ReadyRanks
<1>1. Mine \in SUBSET Nat /\ Mine # {}
  BY <1>0
<1>2. PICK h \in Mine : \A j \in Mine : h <= j
  <2> HIDE DEF Mine
  <2> QED
    BY <1>1, OldestExists
<1>3. h \in Ready /\ org[h] = org[i] /\ h \in Nat /\ \A j \in Ready : org[j] = org[i] => h <= j
  BY <1>0, <1>2 DEF JobId
<1>4. OrgRank(h) = 1
  <2>1. {k \in Ready : org[k] = org[h] /\ k <= h} = {h}
    <3>1. h <= h /\ \A k \in Ready : org[k] = org[h] /\ k <= h => k = h
      BY <1>0, <1>3
    <3> QED
      BY <1>3, <3>1
  <2> QED
    BY <2>1, FS_Singleton DEF OrgRank
<1> DEFINE B == {k \in Ready : RankedBefore(k, h)}
           others == orgs \ {org[i]}
           tenant == [k \in B |-> org[k]]
<1>5. \A k \in B : k \in Ready /\ OrgRank(k) = 1 /\ k < h
  BY <1>0, <1>4 DEF RankedBefore
<1>6. \A k \in B : org[k] \in others
  BY <1>0, <1>3, <1>5 DEF JobId
<1>7. \A k, l \in B : org[k] = org[l] => k = l
  <2> SUFFICES ASSUME NEW k \in B, NEW l \in B, org[k] = org[l], k < l PROVE FALSE
    BY <1>0, <1>5 DEF JobId
  <2>1. OrgRank(k) < OrgRank(l)
    BY <1>5, RankGrows
  <2> QED
    BY <1>5, <2>1
<1>8. IsFiniteSet(orgs)
  <2>1. [j \in Ready |-> org[j]] \in Surjection(Ready, orgs)
    BY DEF Surjection
  <2> HIDE DEF orgs
  <2> QED
    BY <1>0, <2>1, FS_Surjection
<1>9. IsFiniteSet(others) /\ Cardinality(others) = Cardinality(orgs) - 1 /\ Cardinality(orgs) \in Nat
  <2>1. org[i] \in orgs
    OBVIOUS
  <2> HIDE DEF orgs
  <2> QED
    BY <1>8, <2>1, FS_RemoveElement, FS_CardinalityType
<1>10. tenant \in Injection(B, others)
  <2> HIDE DEF B, others
  <2> QED
    BY <1>6, <1>7 DEF Injection, IsInjective
<1>11. Cardinality(B) <= Cardinality(others) /\ Cardinality(B) \in Nat
  <2> HIDE DEF B, others, tenant
  <2> QED
    BY <1>9, <1>10, FS_Injection, FS_CardinalityType
<1>12. Cardinality(B) < n
  <2> HIDE DEF B, others, tenant
  <2> QED
    BY <1>9, <1>11
<1>13. h \in FairTop(n)
  BY <1>3, <1>12 DEF FairTop
<1> QED
  BY <1>3, <1>13

\* One ranking serves every tenant's oldest ready job before any tenant's second,
\* and an org's jobs in id order (queue.rs:86-95).
THEOREM RankingIsFair == Spec => FairRanking
<1>1. IInv /\ [Next]_vars =>
        [\A w \in Worker : w \in reading' \ reading =>
           /\ \A j \in ranked'[w], k \in Ready : org[j] = org[k] /\ k < j => k \in ranked'[w]
           /\ LET orgs == {org[j] : j \in Ready}
              IN  Cardinality(orgs) <= BatchSize => orgs = {org[j] : j \in ranked'[w]}]_vars
  <2> SUFFICES ASSUME IInv, Next, NEW w \in Worker, w \in reading' \ reading
               PROVE  /\ \A j \in ranked'[w], k \in Ready : org[j] = org[k] /\ k < j => k \in ranked'[w]
                      /\ LET orgs == {org[j] : j \in Ready}
                         IN  Cardinality(orgs) <= BatchSize => orgs = {org[j] : j \in ranked'[w]}
    OBVIOUS
  <2>1. TypeOK /\ BatchSize \in Nat
    BY BoundsAssumption DEF IInv
  <2>2. Rank(w)
    <3>1. \A j \in JobId : ~ (Lapse(j) \/ Requeue(j))
      BY DEF Lapse, Requeue, readVars
    <3>2. \A v \in Worker : ~ (Claim(v) \/ Crash(v))
      BY DEF Claim, Crash
    <3>3. \A v \in Worker, j \in JobId :
            ~ (\/ Start(v, j) \/ RunOk(v, j) \/ RunErr(v, j)
               \/ ArchiveInsert(v, j) \/ ArchiveDelete(v, j)
               \/ FailRetry(v, j) \/ AckLost(v, j))
      BY DEF Start, RunOk, RunErr, ArchiveInsert, ArchiveDelete, FailRetry, AckLost, readVars
    <3>4. \A v \in Worker : Rank(v) => v = w
      BY DEF Rank
    <3>5. ~ Send
      BY DEF Send, readVars
    <3> QED
      BY <3>1, <3>2, <3>3, <3>4, <3>5 DEF Next
  <2>3. ranked'[w] = FairTop(BatchSize)
    BY <2>1, <2>2 DEF Rank, TypeOK
  <2>4. \A j \in FairTop(BatchSize), k \in Ready : org[j] = org[k] /\ k < j => k \in FairTop(BatchSize)
    BY <2>1, OldestFirst
  <2>5. Cardinality({org[j] : j \in Ready}) <= BatchSize =>
          {org[j] : j \in Ready} = {org[j] : j \in FairTop(BatchSize)}
    <3> SUFFICES ASSUME Cardinality({org[j] : j \in Ready}) <= BatchSize
                 PROVE  {org[j] : j \in Ready} = {org[j] : j \in FairTop(BatchSize)}
      OBVIOUS
    <3>1. \A i \in Ready : \E h \in FairTop(BatchSize) : org[h] = org[i]
      BY <2>1, EveryTenantServed
    <3>2. FairTop(BatchSize) \subseteq Ready
      BY DEF FairTop
    <3> QED
      BY <3>1, <3>2
  <2> QED
    BY <2>3, <2>4, <2>5
<1> QED
  BY <1>1, Inductive, PTL DEF Spec, FairRanking

-----------------------------------------------------------------------------
(* What requeues that spare open acknowledgements keep. *)

\* The first sends have no acknowledgement open and nothing to lose.
LEMMA SparedInit == Init => SnapshotSpared /\ JobStaysFindable
  BY BoundsAssumption DEF Init, SnapshotSpared, JobStaysFindable, Copied, JobId

\* A step that requeues nothing under an acknowledgement's DELETE leaves each
\* open acknowledgement with what it saw, and each sent job in a table.
LEMMA SparedStep ==
  ASSUME IInv, SnapshotSpared, JobStaysFindable, [Next]_vars,
         \A j \in JobId : requeued'[j] # requeued[j] => \A w \in Worker : phase[w][j] # "missed"
  PROVE  SnapshotSpared' /\ JobStaysFindable'
<1>0. TypeOK /\ OneHome /\ Known /\ SoleCopier
  BY DEF IInv
<1>a. \A j \in 1..sent : j \in JobId
  <2>1. sent \in 0..MaxJob /\ MaxJob \in Nat
    BY <1>0, BoundsAssumption DEF TypeOK
  <2> QED
    BY <2>1 DEF JobId
<1> USE <1>0, <1>a
<1>1. CASE Send
  <2>1. sent + 1 \in JobId /\ 1..sent' = 1..sent \cup {sent + 1} /\ sent + 1 \notin 1..sent
    <3>1. sent \in Nat /\ sent < MaxJob /\ MaxJob \in Nat /\ sent' = sent + 1
      BY <1>1, BoundsAssumption DEF TypeOK, Send
    <3> QED
      BY <3>1 DEF JobId
  <2>2. \A w \in Worker : phase[w][sent + 1] = "idle"
    BY <2>1 DEF Known
  <2> QED
    BY <1>1, <2>1, <2>2 DEF Send, batchVars, SnapshotSpared, JobStaysFindable, Copied
<1>2. ASSUME NEW j \in JobId, Requeue(j) PROVE SnapshotSpared' /\ JobStaysFindable'
  <2>1. requeued'[j] # requeued[j]
    BY <1>2 DEF Requeue, TypeOK
  <2>2. \A w \in Worker : phase[w][j] # "missed"
    BY <2>1
  <2> QED
    BY <1>2, <2>2 DEF Requeue, batchVars, TypeOK, SnapshotSpared, JobStaysFindable
<1>3. ASSUME NEW w \in Worker, Claim(w) PROVE SnapshotSpared' /\ JobStaysFindable'
  <2> USE <1>3 DEF Claim
  <2>1. \A v \in Worker, i \in JobId :
          phase'[v][i] \in Copied \cup {"missed"} => phase'[v][i] = phase[v][i]
    BY DEF TypeOK, Copied
  <2>2. \A v \in Worker, i \in JobId : phase[v][i] \in Copied => i \notin Reapable
    BY DEF CopyOpen
  <2>3. SnapshotSpared'
    BY <2>1, <2>2 DEF SnapshotSpared, Copied
  <2>4. JobStaysFindable'
    BY DEF JobStaysFindable
  <2> QED
    BY <2>3, <2>4
<1>4. ASSUME NEW w \in Worker, NEW j \in JobId, ArchiveInsert(w, j)
      PROVE SnapshotSpared' /\ JobStaysFindable'
  BY <1>4 DEF ArchiveInsert, queueVars, TypeOK, SnapshotSpared, JobStaysFindable, RowFound, OneHome, Copied
<1>5. ASSUME NEW w \in Worker, NEW j \in JobId, ArchiveDelete(w, j)
      PROVE SnapshotSpared' /\ JobStaysFindable'
  <2> USE <1>5 DEF ArchiveDelete
  <2>1. SnapshotSpared'
    BY DEF TypeOK, SnapshotSpared, SoleCopier, Copied
  <2>2. JobStaysFindable'
    <3>1. CASE phase[w][j] \in Copied
      BY <3>1 DEF TypeOK, JobStaysFindable, Copied
    <3>2. CASE phase[w][j] = "missed"
      BY <3>2 DEF TypeOK, JobStaysFindable, SnapshotSpared, Copied
    <3> QED
      BY <3>1, <3>2
  <2> QED
    BY <2>1, <2>2
<1>6. ASSUME UNCHANGED <<sent, live, outcome>>,
             \A v \in Worker, i \in JobId :
               phase'[v][i] \in Copied \cup {"missed"} => phase'[v][i] = phase[v][i]
      PROVE SnapshotSpared' /\ JobStaysFindable'
  BY <1>6 DEF SnapshotSpared, JobStaysFindable, Copied
<1>7. ASSUME NEW j \in JobId, Lapse(j) PROVE SnapshotSpared' /\ JobStaysFindable'
  BY <1>6, <1>7 DEF Lapse, batchVars
<1>8. ASSUME NEW w \in Worker, Rank(w) \/ Crash(w) PROVE SnapshotSpared' /\ JobStaysFindable'
  BY <1>6, <1>8 DEF Rank, Crash, queueVars, batchVars, TypeOK, Copied
<1>9. ASSUME NEW w \in Worker, NEW j \in JobId,
             Start(w, j) \/ RunOk(w, j) \/ RunErr(w, j) \/ FailRetry(w, j) \/ AckLost(w, j)
      PROVE SnapshotSpared' /\ JobStaysFindable'
  <2>1. UNCHANGED <<sent, live, outcome>>
    BY <1>9 DEF Start, RunOk, RunErr, FailRetry, AckLost, queueVars
  <2>2. \E p \in {"running", "ok", "err", "idle"} : phase' = [phase EXCEPT ![w][j] = p]
    BY <1>9 DEF Start, RunOk, RunErr, FailRetry, AckLost
  <2>3. \A v \in Worker, i \in JobId :
          phase'[v][i] \in Copied \cup {"missed"} => phase'[v][i] = phase[v][i]
    BY <2>2 DEF TypeOK, Copied
  <2> QED
    BY <1>6, <2>1, <2>3
<1>10. CASE UNCHANGED vars
  BY <1>6, <1>10 DEF vars, queueVars, batchVars
<1> QED
  BY <1>1, <1>2, <1>3, <1>4, <1>5, <1>7, <1>8, <1>9, <1>10 DEF Next

\* The invariants of queues whose requeues spare open acknowledgements.
LEMMA SparedInductive == Spec /\ RequeuesSpare => [](SnapshotSpared /\ JobStaysFindable)
<1>1. IInv /\ SnapshotSpared /\ JobStaysFindable /\ [Next]_vars
      /\ [\A j \in JobId : requeued'[j] # requeued[j] => \A w \in Worker : phase[w][j] # "missed"]_vars
      => SnapshotSpared' /\ JobStaysFindable'
  BY SparedStep DEF vars, queueVars
<1> QED
  BY <1>1, SparedInit, Inductive, PTL DEF Spec, RequeuesSpare

\* A job is lost to nothing but a requeue between the two statements of an
\* acknowledgement: where requeues spare those, the job of a source is always
\* found live or archived (queue.rs:367-372).
THEOREM LostOnlyUnderRequeue == Spec /\ RequeuesSpare => []JobStaysFindable
  BY SparedInductive, PTL

-----------------------------------------------------------------------------
(* Refinement of JobLifecycle. *)

\* While open acknowledgements are spared, each step of tables and workers is a
\* step of the abstract life cycle or leaves every job's status alone.
LEMMA LifecycleStep ==
  ASSUME IInv, SnapshotSpared, [Next]_vars
  PROVE  [Lifecycle!Next]_(Lifecycle!vars)
<1>0. TypeOK /\ OneHome /\ Known /\ SnapshotSpared /\ AckIsEarned
  BY DEF IInv
<1>1. ASSUME UNCHANGED <<sent, live, outcome, ran>> PROVE UNCHANGED Lifecycle!vars
  BY <1>1 DEF Lifecycle!vars, jobStatus
<1>2. CASE Send
  <2>1. sent \in Nat /\ sent < MaxJob /\ MaxJob \in Nat /\ sent' = sent + 1 /\ ran' = ran
    BY <1>0, <1>2, BoundsAssumption DEF Send, TypeOK, history
  <2>2. sent + 1 \in JobId
    BY <2>1 DEF JobId
  <2>3. jobStatus[sent + 1] = "absent"
    BY <1>0, <2>1, <2>2 DEF jobStatus, Known
  <2>4. jobStatus' = [jobStatus EXCEPT ![sent + 1] = "queued"]
    <3>1. \A j \in JobId : j # sent + 1 => (j > sent <=> j > sent + 1)
      BY <2>1 DEF JobId
    <3>2. live' = live \cup {sent + 1} /\ outcome' = outcome
      BY <1>2 DEF Send
    <3>3. \A j \in JobId : jobStatus'[j] = IF j = sent + 1 THEN "queued" ELSE jobStatus[j]
      BY <2>1, <3>1, <3>2 DEF jobStatus
    <3> QED
      BY <2>2, <3>3 DEF jobStatus
  <2>5. Lifecycle!Submit(sent + 1)
    BY <2>1, <2>3, <2>4 DEF Lifecycle!Submit
  <2> QED
    BY <2>2, <2>5 DEF Lifecycle!Next
<1>3. ASSUME NEW j \in JobId, Lapse(j) PROVE UNCHANGED Lifecycle!vars
  BY <1>1, <1>3 DEF Lapse
<1>4. ASSUME NEW j \in JobId, Requeue(j) PROVE Lifecycle!Next
  <2> USE <1>4 DEF Requeue, DeadLetter
  <2>1. jobStatus[j] \in {"failed", "dead"}
    BY <1>0 DEF jobStatus
  <2>2. jobStatus' = [jobStatus EXCEPT ![j] = "queued"]
    BY <1>0 DEF jobStatus, TypeOK
  <2>3. Lifecycle!Requeue(j)
    BY <2>1, <2>2 DEF Lifecycle!Requeue
  <2> QED
    BY <2>3 DEF Lifecycle!Next
<1>5. ASSUME NEW w \in Worker, Rank(w) \/ Crash(w) PROVE UNCHANGED Lifecycle!vars
  BY <1>1, <1>5 DEF Rank, Crash, queueVars, history
<1>6. ASSUME NEW w \in Worker, Claim(w) PROVE Lifecycle!Next
  <2>1. Reapable \subseteq JobId /\ Reapable \subseteq live /\ ran' = ran
    BY <1>0, <1>6 DEF Reapable, TypeOK, Claim
  <2>2. \A j \in Reapable : jobStatus[j] = "queued"
    BY <2>1 DEF jobStatus
  <2>3. jobStatus' = [j \in JobId |-> IF j \in Reapable THEN "dead" ELSE jobStatus[j]]
    BY <2>1, <1>6 DEF Claim, jobStatus
  <2>4. Lifecycle!GiveUp(Reapable)
    BY <2>1, <2>2, <2>3 DEF Lifecycle!GiveUp
  <2> QED
    BY <2>1, <2>4 DEF Lifecycle!Next
<1>7. ASSUME NEW w \in Worker, NEW j \in JobId,
             Start(w, j) \/ RunErr(w, j) \/ ArchiveInsert(w, j) \/ FailRetry(w, j) \/ AckLost(w, j)
      PROVE UNCHANGED Lifecycle!vars
  BY <1>1, <1>7 DEF Start, RunErr, ArchiveInsert, FailRetry, AckLost, queueVars, history
<1>8. ASSUME NEW w \in Worker, NEW j \in JobId, RunOk(w, j) PROVE Lifecycle!Next
  <2>1. j \in 1..sent
    BY <1>0, <1>8 DEF RunOk, Known
  <2>2. jobStatus[j] # "absent"
    BY <1>0, <2>1 DEF jobStatus, TypeOK, Outcomes
  <2>3. jobStatus' = jobStatus
    BY <1>8 DEF RunOk, queueVars, jobStatus
  <2>4. Lifecycle!RunCommits(j)
    BY <1>8, <2>2, <2>3 DEF RunOk, Lifecycle!RunCommits
  <2> QED
    BY <2>4 DEF Lifecycle!Next
<1>9. ASSUME NEW w \in Worker, NEW j \in JobId, ArchiveDelete(w, j)
      PROVE Lifecycle!Next \/ UNCHANGED Lifecycle!vars
  <2> USE <1>0, <1>9 DEF ArchiveDelete
  <2>1. CASE phase[w][j] = "missed"
    BY <1>1, <2>1 DEF SnapshotSpared, Copied, TypeOK
  <2>2. CASE phase[w][j] \in Copied
    <3>1. jobStatus[j] = "queued"
      BY <2>2 DEF SnapshotSpared, jobStatus
    <3>2. jobStatus' = [jobStatus EXCEPT ![j] =
                          IF phase[w][j] = "okCopied" THEN "ok" ELSE "failed"]
      BY <2>2 DEF jobStatus, TypeOK, Copied
    <3>3. phase[w][j] = "okCopied" => j \in ran
      BY DEF AckIsEarned
    <3>4. Lifecycle!Succeed(j) \/ Lifecycle!Fail(j)
      BY <3>1, <3>2, <3>3 DEF Lifecycle!Succeed, Lifecycle!Fail
    <3> QED
      BY <3>4 DEF Lifecycle!Next
  <2> QED
    BY <2>1, <2>2
<1>10. CASE UNCHANGED vars
  BY <1>1, <1>10 DEF vars, queueVars, history
<1> QED
  BY <1>2, <1>3, <1>4, <1>5, <1>6, <1>7, <1>8, <1>9, <1>10 DEF Next

\* Where requeues spare open acknowledgements the tables and workers implement
\* the abstract queue: no step loses a job, archives it twice, calls it 'ok'
\* unearned, or queues again what has succeeded.
THEOREM RequeuesRefineLifecycle == Spec /\ RequeuesSpare => ImplementsLifecycle
<1>1. Init => Lifecycle!Init
  BY DEF Init, Lifecycle!Init, jobStatus, JobId
<1>2. IInv /\ SnapshotSpared /\ [Next]_vars => [Lifecycle!Next]_(Lifecycle!vars)
  BY LifecycleStep
<1> QED
  BY <1>1, <1>2, Inductive, SparedInductive, PTL
  DEF Spec, ImplementsLifecycle, Lifecycle!Spec

\* Without requeues nothing needs sparing, and every queue implements the
\* abstract one.
THEOREM RefinesLifecycle == ASSUME MaxRequeue = 0 PROVE Spec => ImplementsLifecycle
<1>1. IInv /\ IInv' =>
        [\A j \in JobId : requeued'[j] # requeued[j] => \A w \in Worker : phase[w][j] # "missed"]_vars
  BY DEF IInv, TypeOK
<1>2. Spec => RequeuesSpare
  BY <1>1, Inductive, PTL DEF RequeuesSpare
<1> QED
  BY <1>2, RequeuesRefineLifecycle

=============================================================================
