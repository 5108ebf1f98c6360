---------------------------- MODULE PagesProofs ----------------------------
(***************************************************************************)
(* Proofs about Pages: for every set of pages, memories, maintainers and   *)
(* workers what a signature guarantees, and for one worker whose maintainers *)
(* see every page what a clean page guarantees.                            *)
(***************************************************************************)
EXTENDS Pages, TLAPS

-----------------------------------------------------------------------------
(* Types. *)

\* The initial state is typed: no page is scaffolded.
LEMMA TypeInit == PagesInit => PagesTypeOK
  BY WikiAssumption DEF PagesInit, PagesTypeOK, memoryVars, Statuses, Decisions, Version, Job

\* Marking pages that exist bumps only rows of pages that exist.
LEMMA MarkTyped ==
  ASSUME PagesTypeOK, NEW P \in SUBSET exists, MarkDirty(P)
  PROVE  /\ dirty' \subseteq exists
         /\ moved' \in [Composer -> SUBSET exists]
  BY DEF PagesTypeOK, MarkDirty, WriteRows, Held, JobsOf

\* What a memory's change marks are pages that exist.
LEMMA SuspectTyped ==
  ASSUME PagesTypeOK, NEW a \in Actor, NEW M \in SUBSET Memory, MarkSuspect(a, M)
  PROVE  /\ dirty' \subseteq exists
         /\ moved' \in [Composer -> SUBSET exists]
<1> DEFINE P == (UNION {Dependents(m) : m \in M}) \cap Sees[a]
<1>1. P \in SUBSET exists
  BY DEF PagesTypeOK, Dependents
<1>2. MarkDirty(P)
  BY DEF MarkSuspect
<1> QED
  BY <1>1, <1>2, MarkTyped

\* Every step keeps the types.
LEMMA TypeStep == PagesTypeOK /\ [PagesNext]_pagesVars => PagesTypeOK'
<1> SUFFICES ASSUME PagesTypeOK, [PagesNext]_pagesVars PROVE PagesTypeOK'
  OBVIOUS
<1> USE WikiAssumption
<1> USE DEF memoryVars, revisionVars
<1>1. ASSUME NEW p \in Page, Create(p) PROVE PagesTypeOK'
  <2>1. dirty' = dirty \cup {p} /\ moved' = [w \in Composer |-> moved[w] \cup ({p} \cap Held(w))]
    BY <1>1 DEF Create, MarkDirty, WriteRows
  <2> QED
    BY <1>1, <2>1 DEF Create, PagesTypeOK
<1>2. ASSUME NEW a \in Actor, NEW p \in Page, EditPinned(a, p) PROVE PagesTypeOK'
  <2>1. dirty' \subseteq exists /\ moved' \in [Composer -> SUBSET exists]
    BY <1>2, MarkTyped DEF EditPinned
  <2>2. touches' \in 0..MaxTouch /\ prose' \in [Page -> 0..touches']
    BY <1>2 DEF EditPinned, PagesTypeOK
  <2> QED
    BY <1>2, <2>1, <2>2 DEF EditPinned, PagesTypeOK
<1>3. ASSUME NEW p \in Page, RefreshDigest(p) PROVE PagesTypeOK'
  <2>1. dirty' \subseteq exists /\ moved' \in [Composer -> SUBSET exists]
    BY <1>3, MarkTyped DEF RefreshDigest
  <2> QED
    BY <1>3, <2>1 DEF RefreshDigest, PagesTypeOK
<1>4. ASSUME NEW a \in Actor, NEW m \in Memory, NEW v \in {"canonical", "rejected"}, Review(a, m, v)
      PROVE PagesTypeOK'
  <2>1. dirty' \subseteq exists /\ moved' \in [Composer -> SUBSET exists]
    BY <1>4, SuspectTyped DEF Review
  <2> QED
    BY <1>4, <2>1 DEF Review, PagesTypeOK, Statuses
<1>5. ASSUME NEW a \in Actor, NEW m \in Memory, Deprecate(a, m) PROVE PagesTypeOK'
  <2>1. dirty' \subseteq exists /\ moved' \in [Composer -> SUBSET exists]
    BY <1>5, SuspectTyped DEF Deprecate
  <2> QED
    BY <1>5, <2>1 DEF Deprecate, PagesTypeOK, Statuses
<1>6. ASSUME NEW a \in Actor, NEW l \in Memory, NEW v \in Memory, Supersede(a, l, v)
      PROVE PagesTypeOK'
  <2>1. dirty' \subseteq exists /\ moved' \in [Composer -> SUBSET exists]
    BY <1>6, SuspectTyped DEF Supersede
  <2> QED
    BY <1>6, <2>1 DEF Supersede, PagesTypeOK, Statuses
<1>7. ASSUME NEW w \in Composer, List(w) PROVE PagesTypeOK'
  BY <1>7 DEF List, PagesTypeOK
<1>8. ASSUME NEW w \in Composer, NEW p \in Page, NEW rev \in RevId, Begin(w, p, rev) PROVE PagesTypeOK'
  <2> DEFINE new == [by |-> w, page |-> p, rev |-> rev, prev |-> current[p],
                     prose |-> prose[p], cited |-> {}]
  <2>0. prose[p] \in Version
    BY DEF PagesTypeOK, Version
  <2>1. new \in Job /\ new.page \in exists
    BY <1>8, <2>0 DEF Begin, PagesTypeOK, Job
  <2>2. jobs' = jobs \cup {new}
    BY <1>8 DEF Begin
  <2> HIDE DEF new
  <2> QED
    BY <1>8, <2>1, <2>2 DEF Begin, PagesTypeOK
<1>9. ASSUME NEW j \in jobs, NEW m \in Memory, Cite(j, m) PROVE PagesTypeOK'
  <2> DEFINE new == [j EXCEPT !.cited = @ \cup {m}]
  <2>1. new \in Job /\ new.page \in exists
    BY DEF PagesTypeOK, Job
  <2>2. jobs' = (jobs \ {j}) \cup {new}
    BY <1>9 DEF Cite
  <2> HIDE DEF new
  <2> QED
    BY <1>9, <2>1, <2>2 DEF Cite, PagesTypeOK
<1>10. ASSUME NEW j \in jobs, NEW unbacked \in BOOLEAN, Finish(j, unbacked) PROVE PagesTypeOK'
  <2>1. j \in Job /\ j.page \in exists
    BY DEF PagesTypeOK
  <2>2. /\ j.page \in Page /\ j.rev \in RevId /\ j.rev \in 0..MaxCompose
        /\ j.prose \in Version /\ j.cited \in SUBSET Memory /\ j.by \in Composer
    BY <2>1 DEF Job, RevId
  <2>3. /\ decision' \in [RevId -> Decisions] /\ pageOf' \in [RevId -> Page]
        /\ from' \in [RevId -> SUBSET Memory]
    BY <1>10, <2>2 DEF Finish, PagesTypeOK, Decisions
  <2>4. /\ deps' \in [Page -> SUBSET Memory] /\ slipped' \in [Page -> SUBSET Memory]
        /\ \A p \in Page \ exists : deps'[p] = {}
    BY <1>10, <2>1, <2>2 DEF Finish, PagesTypeOK
  <2>5. current' \in [Page -> 0..MaxCompose] /\ inked' \in [Page -> Version]
    BY <1>10, <2>2 DEF Finish, PagesTypeOK
  <2>6. moved' \in [Composer -> SUBSET exists]
    BY <1>10, <2>1 DEF Finish, PagesTypeOK
  <2>7. dirty' \subseteq exists /\ throttled' \subseteq exists /\ jobs' \subseteq jobs
    BY <1>10 DEF Finish, PagesTypeOK
  <2>8. UNCHANGED <<memoryVars, exists, prose, listed, touches>>
    BY <1>10 DEF Finish
  <2> QED
    BY <2>3, <2>4, <2>5, <2>6, <2>7, <2>8 DEF PagesTypeOK
<1>11. ASSUME NEW j \in jobs, NEW recorded \in BOOLEAN, Fail(j, recorded) PROVE PagesTypeOK'
  <2>1. moved' \in [Composer -> SUBSET exists] /\ throttled' \subseteq exists
    BY <1>11 DEF Fail, PagesTypeOK
  <2> QED
    BY <1>11, <2>1 DEF Fail, PagesTypeOK
<1>12. ASSUME NEW p \in Page, Unthrottle(p) PROVE PagesTypeOK'
  BY <1>12 DEF Unthrottle, PagesTypeOK
<1>13. ASSUME NEW w \in Composer, SweepDies(w) PROVE PagesTypeOK'
  BY <1>13 DEF SweepDies, PagesTypeOK
<1>14. ASSUME NEW a \in Actor, NEW r \in RevId, Approve(a, r) PROVE PagesTypeOK'
  <2>1. moved' \in [Composer -> SUBSET exists]
    BY <1>14 DEF Approve, WriteRows, Held, JobsOf, PagesTypeOK
  <2>2. current' \in [Page -> 0..MaxCompose] /\ decision' \in [RevId -> Decisions]
    BY <1>14 DEF Approve, PagesTypeOK, Decisions, RevId
  <2> QED
    BY <1>14, <2>1, <2>2 DEF Approve, PagesTypeOK
<1>15. CASE UNCHANGED pagesVars
  BY <1>15 DEF pagesVars, PagesTypeOK
<1> QED
  BY <1>1, <1>2, <1>3, <1>4, <1>5, <1>6, <1>7, <1>8, <1>9, <1>10, <1>11, <1>12,
     <1>13, <1>14, <1>15 DEF PagesNext, Curate, Compose, JobsOf

\* Type correctness of the wiki's tables and of its workers' open composes,
\* whatever the number of pages, memories, maintainers and workers.
THEOREM TypeCorrect == PagesSpec => []PagesTypeOK
<1> QED
  BY TypeInit, TypeStep, PTL DEF PagesSpec

-----------------------------------------------------------------------------
(* A page's first publication is a human's, for any fleet of workers. *)

\* The rows of written revisions change only by a signature.
Kept == \A r \in RevId : Written(r) =>
          /\ pageOf'[r] = pageOf[r]
          /\ decision[r] = "signed" => decision'[r] = "signed"

\* A signature outlives a step that keeps written revisions.
LEMMA SignatureKept ==
  ASSUME Kept, NEW p \in Page, NEW n \in Nat, SignedBy(p, n)
  PROVE  SignedBy(p, n)'
<1>1. PICK r \in RevId : r <= n /\ pageOf[r] = p /\ decision[r] = "signed"
  BY DEF SignedBy
<1>2. pageOf'[r] = p /\ decision'[r] = "signed"
  BY <1>1 DEF Kept, Written
<1> QED
  BY <1>1, <1>2 DEF SignedBy

\* A signature counts for every later revision.
LEMMA SignatureLater ==
  ASSUME NEW p \in Page, NEW n \in Nat, NEW k \in Nat, n <= k, SignedBy(p, n)
  PROVE  SignedBy(p, k)
  BY DEF SignedBy, RevId

\* A step that writes no revision, moves no page and opens no compose keeps
\* the invariant; it may drop composes.
LEMMA SignQuiet ==
  ASSUME SignInv, UNCHANGED <<current, revisionVars>>, jobs' \subseteq jobs
  PROVE  SignInv'
<1>1. \A r \in RevId : Written(r)' <=> Written(r)
  BY DEF Written, revisionVars
<1>2. \A p \in Page, n \in Int : SignedBy(p, n)' <=> SignedBy(p, n)
  BY DEF SignedBy, revisionVars
<1> QED
  BY <1>1, <1>2 DEF SignInv, JobsApart, CurrentWritten, JobsFresh, FirstIsSigned, Written, SignedBy, revisionVars

\* No page has a current revision at the start.
LEMMA SignInit == PagesInit => SignInv
  BY DEF PagesInit, SignInv, JobsApart, CurrentWritten, JobsFresh, FirstIsSigned

\* Every step keeps it: a compose compares itself with a revision that was
\* signed, or follows a signed one, when it began; only a compose with such a
\* revision publishes itself.
LEMMA SignStep == PagesTypeOK /\ PagesTypeOK' /\ SignInv /\ [PagesNext]_pagesVars => SignInv'
<1> SUFFICES ASSUME PagesTypeOK, PagesTypeOK', SignInv, [PagesNext]_pagesVars PROVE SignInv'
  OBVIOUS
<1>1. ASSUME NEW w \in Composer, NEW p \in Page, NEW rev \in RevId, Begin(w, p, rev) PROVE SignInv'
  <2> DEFINE new == [by |-> w, page |-> p, rev |-> rev, prev |-> current[p],
                     prose |-> prose[p], cited |-> {}]
  <2>1. /\ jobs' = jobs \cup {new} /\ UNCHANGED <<current, revisionVars>>
        /\ \A r \in Used : r < rev
    BY <1>1 DEF Begin, NextRev
  <2>2. /\ \A r \in RevId : Written(r)' <=> Written(r)
        /\ \A q \in Page, n \in Int : SignedBy(q, n)' <=> SignedBy(q, n)
    BY <2>1 DEF Written, SignedBy, revisionVars
  <2>3. rev \notin Used
    BY <2>1 DEF RevId
  <2>4. ~ Written(rev) /\ \A j \in jobs : j.rev # rev
    BY <2>3 DEF Used
  <2>5. new.rev = rev /\ new.page = p /\ new.prev = current[p]
    OBVIOUS
  <2>6. current[p] \in 0..MaxCompose
    BY DEF PagesTypeOK
  <2>7. current[p] < rev
    <3>1. CASE current[p] = 0
      BY <3>1 DEF RevId
    <3>2. CASE current[p] # 0
      <4>1. current[p] \in RevId /\ Written(current[p])
        BY <3>2, <2>6, WikiAssumption DEF SignInv, CurrentWritten, RevId
      <4> QED
        BY <4>1, <2>1 DEF Used
    <3> QED
      BY <3>1, <3>2
  <2>8. current[p] # 0 => SignedBy(p, current[p])
    BY DEF SignInv, FirstIsSigned
  <2> HIDE DEF new
  <2>9. JobsApart'
    BY <2>1, <2>4, <2>5 DEF SignInv, JobsApart
  <2>10. JobsFresh'
    <3> SUFFICES ASSUME NEW j \in jobs'
                 PROVE (~ Written(j.rev) /\ j.prev < j.rev
                        /\ (j.prev # 0 => SignedBy(j.page, j.prev)))'
      BY DEF JobsFresh
    <3>1. CASE j \in jobs
      <4>1. j.page \in Page /\ j.prev \in Int /\ j.rev \in RevId
        BY <3>1 DEF PagesTypeOK, Job
      <4> QED
        BY <3>1, <4>1, <2>2 DEF SignInv, JobsFresh
    <3>2. CASE j = new
      BY <3>2, <2>2, <2>4, <2>5, <2>6, <2>7, <2>8
    <3> QED
      BY <3>1, <3>2, <2>1
  <2>11. CurrentWritten' /\ FirstIsSigned'
    BY <2>1 DEF SignInv, CurrentWritten, FirstIsSigned, Written, SignedBy, revisionVars
  <2> QED
    BY <2>9, <2>10, <2>11 DEF SignInv
<1>2. ASSUME NEW j \in jobs, NEW m \in Memory, Cite(j, m) PROVE SignInv'
  <2> DEFINE new == [j EXCEPT !.cited = @ \cup {m}]
  <2>1. j \in Job
    BY DEF PagesTypeOK
  <2>2. new.rev = j.rev /\ new.page = j.page /\ new.prev = j.prev
    BY <2>1 DEF Job
  <2>3. jobs' = (jobs \ {j}) \cup {new} /\ UNCHANGED <<current, revisionVars>>
    BY <1>2 DEF Cite
  <2> HIDE DEF new
  <2>4. JobsApart'
    BY <2>2, <2>3 DEF SignInv, JobsApart
  <2>5. JobsFresh' /\ CurrentWritten' /\ FirstIsSigned'
    BY <2>2, <2>3 DEF SignInv, JobsFresh, CurrentWritten, FirstIsSigned, Written, SignedBy, revisionVars
  <2> QED
    BY <2>4, <2>5 DEF SignInv
<1>3. ASSUME NEW j \in jobs, NEW unbacked \in BOOLEAN, Finish(j, unbacked) PROVE SignInv'
  <2> DEFINE auto == ~ unbacked /\ MayPublish(j)
  <2>1. j \in Job /\ j.page \in Page /\ j.rev \in RevId /\ j.prev \in Nat
    BY DEF PagesTypeOK, Job
  <2>2. /\ ~ Written(j.rev) /\ j.prev < j.rev
        /\ j.prev # 0 => SignedBy(j.page, j.prev)
    BY DEF SignInv, JobsFresh
  <2>3. /\ decision' = [decision EXCEPT ![j.rev] = IF auto THEN "auto" ELSE "pending"]
        /\ pageOf' = [pageOf EXCEPT ![j.rev] = j.page]
        /\ current' = IF auto THEN [current EXCEPT ![j.page] = j.rev] ELSE current
        /\ jobs' = jobs \ {j}
    BY <1>3 DEF Finish
  <2>4. auto => j.prev # 0
    BY DEF MayPublish
  <2> HIDE DEF auto
  <2>5. decision \in [RevId -> Decisions] /\ pageOf \in [RevId -> Page]
        /\ current \in [Page -> 0..MaxCompose]
    BY DEF PagesTypeOK
  <2>6. Kept
    BY <2>2, <2>3, <2>5 DEF Kept, Written
  <2>7. /\ Written(j.rev)'
        /\ \A r \in RevId \ {j.rev} : Written(r)' <=> Written(r)
    BY <2>1, <2>3, <2>5 DEF Written
  <2>8. CurrentWritten'
    <3> SUFFICES ASSUME NEW p \in Page PROVE (current[p] = 0 \/ Written(current[p]))'
      BY DEF CurrentWritten
    <3>1. CASE current'[p] = j.rev
      BY <3>1, <2>7
    <3>2. CASE current'[p] = current[p] /\ current'[p] # j.rev
      <4>1. current[p] = 0 \/ (current[p] \in RevId /\ Written(current[p]))
        BY <2>5, WikiAssumption DEF SignInv, CurrentWritten, RevId
      <4> QED
        BY <3>2, <4>1, <2>7
    <3> QED
      BY <3>1, <3>2, <2>3, <2>5
  <2>9. JobsFresh'
    <3> SUFFICES ASSUME NEW i \in jobs \ {j}
                 PROVE (~ Written(i.rev) /\ i.prev < i.rev
                        /\ (i.prev # 0 => SignedBy(i.page, i.prev)))'
      BY <2>3 DEF JobsFresh
    <3>1. i.page \in Page /\ i.prev \in Nat /\ i.rev \in RevId
      BY DEF PagesTypeOK, Job
    <3>2. i.rev # j.rev
      BY DEF SignInv, JobsApart
    <3>3. i.prev # 0 => SignedBy(i.page, i.prev)'
      BY <3>1, <2>6, SignatureKept DEF SignInv, JobsFresh
    <3> QED
      BY <3>1, <3>2, <3>3, <2>7 DEF SignInv, JobsFresh
  <2>10. FirstIsSigned'
    <3> SUFFICES ASSUME NEW p \in Page, current'[p] # 0 PROVE SignedBy(p, current[p])'
      BY DEF FirstIsSigned
    <3>1. CASE auto /\ p = j.page
      <4>1. current'[p] = j.rev /\ j.rev \in Nat
        BY <3>1, <2>1, <2>3, <2>5 DEF RevId
      <4>2. SignedBy(p, j.rev)
        BY <3>1, <4>1, <2>1, <2>2, <2>4, SignatureLater
      <4>3. SignedBy(p, j.rev)'
        BY <4>1, <4>2, <2>6, SignatureKept
      <4> QED
        BY <4>1, <4>3 DEF SignedBy
    <3>2. CASE ~ (auto /\ p = j.page)
      <4>1. current'[p] = current[p] /\ current[p] \in Nat
        BY <3>2, <2>3, <2>5
      <4>2. SignedBy(p, current[p])
        BY <4>1 DEF SignInv, FirstIsSigned
      <4>3. SignedBy(p, current[p]) => \E r \in RevId :
                r <= current[p] /\ pageOf'[r] = p /\ decision'[r] = "signed"
        BY <2>6 DEF Kept, SignedBy, Written
      <4> QED
        BY <4>1, <4>2, <4>3 DEF SignedBy
    <3> QED
      BY <3>1, <3>2
  <2>11. JobsApart'
    BY <2>3 DEF SignInv, JobsApart
  <2> QED
    BY <2>8, <2>9, <2>10, <2>11 DEF SignInv
<1>4. ASSUME NEW a \in Actor, NEW r \in RevId, Approve(a, r) PROVE SignInv'
  <2> DEFINE p == pageOf[r]
  <2>1. /\ p \in Page /\ r \in Nat /\ Written(r) /\ current[p] <= r
        /\ decision' = [decision EXCEPT ![r] = "signed"]
        /\ current' = [current EXCEPT ![p] = r]
        /\ UNCHANGED <<pageOf, jobs>>
    BY <1>4 DEF Approve, Approvable, Written, PagesTypeOK, RevId
  <2>2. decision \in [RevId -> Decisions] /\ pageOf \in [RevId -> Page]
        /\ current \in [Page -> 0..MaxCompose]
    BY DEF PagesTypeOK
  <2>3. Kept
    BY <2>1, <2>2 DEF Kept
  <2>4. \A q \in RevId : Written(q)' <=> Written(q)
    BY <2>1, <2>2 DEF Written
  <2>5. \E s \in RevId : s <= r /\ pageOf'[s] = p /\ decision'[s] = "signed"
    BY <2>1, <2>2
  <2> HIDE DEF p
  <2>6. CurrentWritten'
    <3> SUFFICES ASSUME NEW q \in Page PROVE (current[q] = 0 \/ Written(current[q]))'
      BY DEF CurrentWritten
    <3>1. CASE q = p
      BY <3>1, <2>1, <2>2, <2>4
    <3>2. CASE q # p
      <4>1. current[q] = 0 \/ (current[q] \in RevId /\ Written(current[q]))
        BY <2>2, WikiAssumption DEF SignInv, CurrentWritten, RevId
      <4> QED
        BY <3>2, <4>1, <2>1, <2>2, <2>4
    <3> QED
      BY <3>1, <3>2
  <2>7. JobsFresh'
    <3> SUFFICES ASSUME NEW i \in jobs
                 PROVE (~ Written(i.rev) /\ i.prev < i.rev
                        /\ (i.prev # 0 => SignedBy(i.page, i.prev)))'
      BY <2>1 DEF JobsFresh
    <3>1. i.page \in Page /\ i.prev \in Nat /\ i.rev \in RevId
      BY DEF PagesTypeOK, Job
    <3>2. i.prev # 0 => SignedBy(i.page, i.prev)'
      BY <3>1, <2>3, SignatureKept DEF SignInv, JobsFresh
    <3> QED
      BY <3>1, <3>2, <2>4 DEF SignInv, JobsFresh
  <2>8. FirstIsSigned'
    <3> SUFFICES ASSUME NEW q \in Page, current'[q] # 0 PROVE SignedBy(q, current[q])'
      BY DEF FirstIsSigned
    <3>1. CASE q = p
      BY <3>1, <2>1, <2>2, <2>5 DEF SignedBy
    <3>2. CASE q # p
      <4>1. current'[q] = current[q] /\ current[q] \in Nat
        BY <3>2, <2>1, <2>2
      <4>2. SignedBy(q, current[q])
        BY <4>1 DEF SignInv, FirstIsSigned
      <4>3. SignedBy(q, current[q]) => \E s \in RevId :
                s <= current[q] /\ pageOf'[s] = q /\ decision'[s] = "signed"
        BY <2>3 DEF Kept, SignedBy, Written
      <4> QED
        BY <4>1, <4>2, <4>3 DEF SignedBy
    <3> QED
      BY <3>1, <3>2
  <2> QED
    BY <2>1, <2>6, <2>7, <2>8 DEF SignInv, JobsApart
<1>5. ASSUME NEW j \in jobs, NEW recorded \in BOOLEAN, Fail(j, recorded) PROVE SignInv'
  BY <1>5, SignQuiet DEF Fail
<1>6. ASSUME NEW w \in Composer, List(w) \/ SweepDies(w) PROVE SignInv'
  BY <1>6, SignQuiet DEF List, SweepDies
<1>7. ASSUME NEW p \in Page, Create(p) \/ RefreshDigest(p) \/ Unthrottle(p) PROVE SignInv'
  BY <1>7, SignQuiet DEF Create, RefreshDigest, Unthrottle
<1>8. ASSUME NEW a \in Actor, NEW p \in Page, EditPinned(a, p) PROVE SignInv'
  BY <1>8, SignQuiet DEF EditPinned
<1>9. ASSUME NEW a \in Actor, NEW m \in Memory,
             \/ \E v \in {"canonical", "rejected"} : Review(a, m, v)
             \/ Deprecate(a, m)
             \/ \E v \in Memory : Supersede(a, m, v)
      PROVE SignInv'
  BY <1>9, SignQuiet DEF Review, Deprecate, Supersede
<1>10. CASE UNCHANGED pagesVars
  BY <1>10, SignQuiet DEF pagesVars
<1> QED
  BY <1>1, <1>2, <1>3, <1>4, <1>5, <1>6, <1>7, <1>8, <1>9, <1>10
     DEF PagesNext, Curate, Compose, JobsOf

\* No page is published into existence by the machine, for any number of
\* workers and whatever maintainers see.
THEOREM FirstPublicationSigned == PagesSpec => []FirstIsSigned
<1>1. SignInv => FirstIsSigned
  BY DEF SignInv
<1> QED
  BY <1>1, TypeInit, TypeStep, SignInit, SignStep, PTL DEF PagesSpec

-----------------------------------------------------------------------------
(* A clean page is current, for one worker and maintainers who see all. *)

\* Nothing is held and nothing exists at the start.
LEMMA SweepInit == PagesInit => SweepInv
  BY DEF PagesInit, SweepInv, OneJob, HeldOnce, HeldDirty, Held, JobsOf, JobsNewest,
         JobsCurrent, CleanTracksDeps, CleanShowsEdits

\* A step that marks every page whose prose it changes, or one of whose
\* indexed memories it moves, keeps the invariant: the mark reaches the page,
\* and the bumped row reaches the compose that is open on it.
LEMMA SweepMark ==
  ASSUME PagesTypeOK, SweepInv, NEW P \in SUBSET Page, MarkDirty(P),
         UNCHANGED <<listed, jobs, deps, decision, inked, slipped>>,
         exists' \subseteq exists \cup P,
         \A p \in Page \ P : /\ prose'[p] = prose[p]
                             /\ deps[p] \cap Standing' = deps[p] \cap Standing
  PROVE  SweepInv'
<1>1. dirty' = dirty \cup P /\ moved' = [w \in Composer |-> moved[w] \cup (P \cap Held(w))]
  BY DEF MarkDirty, WriteRows
<1>2. OneJob' /\ HeldOnce' /\ HeldDirty' /\ JobsNewest'
  BY <1>1 DEF SweepInv, OneJob, HeldOnce, HeldDirty, Held, JobsOf, JobsNewest, Written
<1>3. JobsCurrent'
  <2> SUFFICES ASSUME NEW j \in jobs, j.page \notin moved'[j.by]
               PROVE  /\ j.prose = prose'[j.page]
                      /\ j.cited \cap deps[j.page] \subseteq Standing'
    BY DEF JobsCurrent
  <2>1. j.by \in Composer /\ j.page \in Page /\ j.page \in Held(j.by)
    BY DEF PagesTypeOK, Job, Held, JobsOf
  <2>2. j.page \notin P /\ j.page \notin moved[j.by]
    BY <1>1, <2>1
  <2> QED
    BY <2>1, <2>2 DEF SweepInv, JobsCurrent
<1>4. CleanTracksDeps' /\ CleanShowsEdits'
  <2> SUFFICES ASSUME NEW p \in exists' \ dirty'
               PROVE  deps[p] \subseteq Standing' \cup slipped[p] /\ inked[p] = prose'[p]
    BY DEF CleanTracksDeps, CleanShowsEdits
  <2>1. p \notin P /\ p \in exists \ dirty /\ p \in Page
    BY <1>1 DEF PagesTypeOK
  <2>2. deps[p] \subseteq Standing \cup slipped[p] /\ inked[p] = prose[p]
    BY <2>1 DEF SweepInv, CleanTracksDeps, CleanShowsEdits
  <2> QED
    BY <2>1, <2>2
<1> QED
  BY <1>2, <1>3, <1>4 DEF SweepInv

\* A step that moves no standing, no page and no row, and drops composes or
\* lets the marks of an open compose grow, keeps the invariant.
LEMMA SweepQuiet ==
  ASSUME PagesTypeOK, SweepInv, jobs' \subseteq jobs,
         \A w \in Composer : listed'[w] \subseteq listed[w],
         \A j \in jobs' : moved[j.by] \subseteq moved'[j.by],
         \A r \in RevId : Written(r)' => Written(r),
         UNCHANGED <<memoryVars, exists, dirty, prose, deps, inked, slipped>>
  PROVE  SweepInv'
<1>1. Standing' = Standing
  BY DEF Standing, Superseded, memoryVars
<1>2. \A j \in jobs : j.by \in Composer
  BY DEF PagesTypeOK, Job
<1>3. OneJob' /\ HeldOnce' /\ HeldDirty' /\ JobsNewest'
  BY <1>2 DEF SweepInv, OneJob, HeldOnce, HeldDirty, Held, JobsOf, JobsNewest
<1>4. JobsCurrent'
  BY <1>1 DEF SweepInv, JobsCurrent
<1>5. CleanTracksDeps' /\ CleanShowsEdits'
  BY <1>1 DEF SweepInv, CleanTracksDeps, CleanShowsEdits
<1> QED
  BY <1>3, <1>4, <1>5 DEF SweepInv

\* A decision that moves the memories M marks every page that names one.
LEMMA SweepGovern ==
  ASSUME AllSeen, PagesTypeOK, SweepInv, NEW a \in Actor, NEW M \in SUBSET Memory, MarkSuspect(a, M),
         UNCHANGED <<exists, prose, listed, jobs, deps, decision, inked, slipped>>,
         \A m \in Memory \ M : m \in Standing' <=> m \in Standing
  PROVE  SweepInv'
<1> DEFINE P == (UNION {Dependents(m) : m \in M}) \cap Sees[a]
<1>1. MarkDirty(P) /\ P \in SUBSET Page
  BY DEF MarkSuspect, Dependents
<1>2. ASSUME NEW p \in Page \ P PROVE deps[p] \cap Standing' = deps[p] \cap Standing
  <2>1. p \in Sees[a]
    BY DEF AllSeen
  <2>2. ASSUME NEW m \in M, m \in deps[p] PROVE FALSE
    <3>1. p \in Dependents(m)
      BY <2>2 DEF Dependents
    <3>2. p \in UNION {Dependents(k) : k \in M}
      BY <2>2, <3>1
    <3>3. p \notin P
      OBVIOUS
    <3> QED
      BY <2>1, <3>2, <3>3
  <2>3. deps[p] \subseteq Memory
    BY DEF PagesTypeOK
  <2> QED
    BY <2>2, <2>3
<1> HIDE DEF P
<1> QED
  BY <1>1, <1>2, SweepMark

\* Every step of a lone worker, of maintainers who see every page, and of
\* the scaffolds keeps it.
LEMMA SweepStep ==
  ASSUME LoneWorker, AllSeen
  PROVE  PagesTypeOK /\ SweepInv /\ [PagesNext]_pagesVars => SweepInv'
<1> SUFFICES ASSUME PagesTypeOK, SweepInv, [PagesNext]_pagesVars PROVE SweepInv'
  OBVIOUS
<1>1. ASSUME NEW w \in Composer, NEW p \in Page, NEW rev \in RevId, Begin(w, p, rev) PROVE SweepInv'
  <2> DEFINE new == [by |-> w, page |-> p, rev |-> rev, prev |-> current[p],
                     prose |-> prose[p], cited |-> {}]
  <2>1. /\ jobs' = jobs \cup {new} /\ JobsOf(w) = {} /\ p \in listed[w]
        /\ listed' = [listed EXCEPT ![w] = @ \ {p}]
        /\ \A r \in Used : r < rev
        /\ UNCHANGED <<memoryVars, exists, dirty, prose, deps, decision, moved, inked, slipped>>
    BY <1>1 DEF Begin, NextRev, revisionVars
  <2>2. jobs = {}
    BY <2>1 DEF JobsOf, LoneWorker, PagesTypeOK, Job
  <2>3. /\ new.by = w /\ new.page = p /\ new.rev = rev /\ new.prose = prose[p]
        /\ new.cited = {}
    OBVIOUS
  <2> HIDE DEF new
  <2>4. jobs' = {new} /\ OneJob'
    BY <2>1, <2>2 DEF OneJob
  <2>5. listed \in [Composer -> SUBSET exists]
    BY DEF PagesTypeOK
  <2>6. HeldOnce'
    BY <2>1, <2>3, <2>4, <2>5 DEF HeldOnce
  <2>7. HeldDirty'
    <3>1. \A v \in Composer : listed[v] \subseteq dirty
      BY DEF SweepInv, HeldDirty, Held
    <3> QED
      BY <2>1, <2>3, <2>4, <2>5, <3>1 DEF HeldDirty, Held, JobsOf
  <2>8. JobsNewest'
    BY <2>1, <2>3, <2>4 DEF JobsNewest, Used, Written
  <2>9. JobsCurrent'
    BY <2>1, <2>3, <2>4 DEF JobsCurrent
  <2>10. CleanTracksDeps' /\ CleanShowsEdits'
    BY <2>1 DEF SweepInv, CleanTracksDeps, CleanShowsEdits, Standing, Superseded, memoryVars
  <2> QED
    BY <2>4, <2>6, <2>7, <2>8, <2>9, <2>10 DEF SweepInv
<1>2. ASSUME NEW j \in jobs, NEW m \in Memory, Cite(j, m) PROVE SweepInv'
  <2> DEFINE new == [j EXCEPT !.cited = @ \cup {m}]
  <2>1. j \in Job /\ jobs = {j}
    BY DEF PagesTypeOK, SweepInv, OneJob
  <2>2. /\ new.by = j.by /\ new.page = j.page /\ new.rev = j.rev /\ new.prose = j.prose
        /\ new.cited = j.cited \cup {m}
    BY <2>1 DEF Job
  <2>3. /\ jobs' = (jobs \ {j}) \cup {new} /\ m \in Standing
        /\ UNCHANGED <<memoryVars, exists, dirty, prose, deps, decision, listed, moved, inked, slipped>>
    BY <1>2 DEF Cite, Admitted, revisionVars
  <2> HIDE DEF new
  <2>4. jobs' = {new}
    BY <2>1, <2>3
  <2>5. Standing' = Standing
    BY <2>3 DEF Standing, Superseded, memoryVars
  <2>6. OneJob' /\ HeldOnce' /\ JobsNewest'
    BY <2>1, <2>2, <2>3, <2>4 DEF SweepInv, OneJob, HeldOnce, JobsNewest, Written
  <2>7. HeldDirty'
    BY <2>1, <2>2, <2>3, <2>4 DEF SweepInv, HeldDirty, Held, JobsOf
  <2>8. JobsCurrent'
    BY <2>1, <2>2, <2>3, <2>4, <2>5 DEF SweepInv, JobsCurrent
  <2>9. CleanTracksDeps' /\ CleanShowsEdits'
    BY <2>3, <2>5 DEF SweepInv, CleanTracksDeps, CleanShowsEdits
  <2> QED
    BY <2>6, <2>7, <2>8, <2>9 DEF SweepInv
<1>3. ASSUME NEW j \in jobs, NEW unbacked \in BOOLEAN, Finish(j, unbacked) PROVE SweepInv'
  <2> DEFINE p == j.page
  <2>1. j \in Job /\ jobs = {j} /\ p \in Page /\ p \in exists /\ j.by \in Composer
    BY DEF PagesTypeOK, SweepInv, OneJob, Job
  <2>2. /\ jobs' = {}
        /\ deps' = [deps EXCEPT ![p] = j.cited]
        /\ dirty' = IF p \notin moved[j.by] THEN dirty \ {p} ELSE dirty
        /\ inked' = [inked EXCEPT ![p] = j.prose]
        /\ slipped' = [slipped EXCEPT ![p] = (j.cited \ deps[p]) \ Standing]
        /\ UNCHANGED <<memoryVars, exists, prose, listed>>
    BY <1>3, <2>1 DEF Finish, Cleaned
  <2>3. p \in dirty /\ p \notin listed[j.by]
    BY <2>1 DEF SweepInv, HeldDirty, HeldOnce, Held, JobsOf
  <2>4. Standing' = Standing
    BY <2>2 DEF Standing, Superseded, memoryVars
  <2>5. OneJob' /\ HeldOnce' /\ JobsNewest' /\ JobsCurrent'
    BY <2>2 DEF OneJob, HeldOnce, JobsNewest, JobsCurrent
  <2>6. HeldDirty'
    <3> SUFFICES ASSUME NEW w \in Composer PROVE listed[w] \subseteq dirty'
      BY <2>2 DEF HeldDirty, Held, JobsOf
    <3>1. listed[w] \subseteq dirty /\ w = j.by
      BY <2>1 DEF SweepInv, HeldDirty, Held, LoneWorker
    <3> QED
      BY <3>1, <2>2, <2>3
  <2>7. ASSUME NEW q \in exists \ dirty'
        PROVE  deps'[q] \subseteq Standing \cup slipped'[q] /\ inked'[q] = prose[q]
    <3>1. q \in Page /\ deps \in [Page -> SUBSET Memory] /\ slipped \in [Page -> SUBSET Memory]
          /\ inked \in [Page -> Version]
      BY DEF PagesTypeOK
    <3>2. CASE q = p
      <4>1. p \notin moved[j.by]
        BY <3>2, <2>2, <2>3, <2>7
      <4>2. j.prose = prose[p] /\ j.cited \cap deps[p] \subseteq Standing
        BY <4>1 DEF SweepInv, JobsCurrent
      <4>3. deps'[q] = j.cited /\ slipped'[q] = (j.cited \ deps[p]) \ Standing /\ inked'[q] = j.prose
        BY <3>1, <3>2, <2>2
      <4> QED
        BY <4>2, <4>3, <3>2
    <3>3. CASE q # p
      <4>1. deps'[q] = deps[q] /\ slipped'[q] = slipped[q] /\ inked'[q] = inked[q] /\ q \notin dirty
        BY <3>1, <3>3, <2>2, <2>7
      <4> QED
        BY <4>1 DEF SweepInv, CleanTracksDeps, CleanShowsEdits
    <3> QED
      BY <3>2, <3>3
  <2> HIDE DEF p
  <2>8. CleanTracksDeps' /\ CleanShowsEdits'
    BY <2>2, <2>4, <2>7 DEF CleanTracksDeps, CleanShowsEdits
  <2> QED
    BY <2>5, <2>6, <2>8 DEF SweepInv
<1>4. ASSUME NEW w \in Composer, List(w) PROVE SweepInv'
  <2>1. /\ Idle(w) /\ listed' = [listed EXCEPT ![w] = dirty \ throttled]
        /\ UNCHANGED <<memoryVars, exists, dirty, prose, deps, decision, jobs, inked, slipped>>
    BY <1>4 DEF List, revisionVars
  <2>2. jobs = {}
    BY <2>1 DEF Idle, JobsOf, LoneWorker, PagesTypeOK, Job
  <2>3. OneJob' /\ HeldOnce' /\ JobsNewest' /\ JobsCurrent'
    BY <2>1, <2>2 DEF OneJob, HeldOnce, JobsNewest, JobsCurrent
  <2>4. HeldDirty'
    BY <2>1, <2>2 DEF SweepInv, HeldDirty, Held, JobsOf, LoneWorker, PagesTypeOK
  <2>5. CleanTracksDeps' /\ CleanShowsEdits'
    BY <2>1 DEF SweepInv, CleanTracksDeps, CleanShowsEdits, Standing, Superseded, memoryVars
  <2> QED
    BY <2>3, <2>4, <2>5 DEF SweepInv
<1>5. ASSUME NEW a \in Actor, NEW r \in RevId, Approve(a, r) PROVE SweepInv'
  <2>1. \A q \in RevId : Written(q)' => Written(q)
    BY <1>5 DEF Approve, Approvable, Written, PagesTypeOK
  <2>2. \A j \in jobs : j.by \in Composer
    BY DEF PagesTypeOK, Job
  <2>3. \A j \in jobs : moved[j.by] \subseteq moved'[j.by]
    BY <1>5, <2>2 DEF Approve, WriteRows
  <2> QED
    BY <1>5, <2>1, <2>3, SweepQuiet DEF Approve
<1>6. ASSUME NEW j \in jobs, NEW recorded \in BOOLEAN, Fail(j, recorded) PROVE SweepInv'
  <2>1. jobs' = {}
    BY <1>6 DEF Fail, SweepInv, OneJob
  <2>2. UNCHANGED <<memoryVars, exists, dirty, prose, deps, revisionVars, listed, inked, slipped>>
    BY <1>6 DEF Fail
  <2> QED
    BY <2>1, <2>2, SweepQuiet DEF Written, revisionVars
<1>7. ASSUME NEW w \in Composer, SweepDies(w) PROVE SweepInv'
  <2>1. \A j \in jobs : j.by = w
    BY DEF LoneWorker, PagesTypeOK, Job
  <2>2. jobs' = {}
    BY <1>7, <2>1 DEF SweepDies, JobsOf
  <2>3. \A v \in Composer : listed'[v] \subseteq listed[v]
    BY <1>7 DEF SweepDies, PagesTypeOK
  <2>4. UNCHANGED <<memoryVars, exists, dirty, prose, deps, revisionVars, inked, slipped>>
    BY <1>7 DEF SweepDies
  <2> QED
    BY <2>2, <2>3, <2>4, SweepQuiet DEF Written, revisionVars
<1>8. ASSUME NEW p \in Page, Unthrottle(p) PROVE SweepInv'
  BY <1>8, SweepQuiet DEF Unthrottle, Written, revisionVars
<1>9. CASE UNCHANGED pagesVars
  BY <1>9, SweepQuiet DEF pagesVars, Written, revisionVars
<1>10. ASSUME NEW p \in Page, Create(p) \/ RefreshDigest(p) PROVE SweepInv'
  <2>1. MarkDirty({p}) /\ exists' \subseteq exists \cup {p}
        /\ UNCHANGED <<memoryVars, prose, listed, jobs, deps, decision, inked, slipped>>
    BY <1>10 DEF Create, RefreshDigest, revisionVars
  <2>2. Standing' = Standing
    BY <2>1 DEF Standing, Superseded, memoryVars
  <2> QED
    BY <2>1, <2>2, SweepMark
<1>11. ASSUME NEW a \in Actor, NEW p \in Page, EditPinned(a, p) PROVE SweepInv'
  <2>1. MarkDirty({p}) /\ UNCHANGED <<memoryVars, exists, listed, jobs, deps, decision, inked, slipped>>
        /\ \A q \in Page \ {p} : prose'[q] = prose[q]
    BY <1>11 DEF EditPinned, revisionVars, PagesTypeOK
  <2>2. Standing' = Standing
    BY <2>1 DEF Standing, Superseded, memoryVars
  <2> QED
    BY <2>1, <2>2, SweepMark
<1>12. ASSUME NEW a \in Actor, NEW m \in Memory, NEW v \in {"canonical", "rejected"}, Review(a, m, v)
       PROVE SweepInv'
  <2>1. MarkSuspect(a, {m})
        /\ UNCHANGED <<exists, prose, listed, jobs, deps, decision, inked, slipped>>
    BY <1>12 DEF Review, revisionVars
  <2>2. \A n \in Memory \ {m} : n \in Standing' <=> n \in Standing
    BY <1>12 DEF Review, Standing, Superseded, PagesTypeOK
  <2> QED
    BY <2>1, <2>2, SweepGovern
<1>13. ASSUME NEW a \in Actor, NEW m \in Memory, Deprecate(a, m) PROVE SweepInv'
  <2>1. MarkSuspect(a, {m})
        /\ UNCHANGED <<exists, prose, listed, jobs, deps, decision, inked, slipped>>
    BY <1>13 DEF Deprecate, revisionVars
  <2>2. \A n \in Memory \ {m} : n \in Standing' <=> n \in Standing
    BY <1>13 DEF Deprecate, Standing, Superseded, PagesTypeOK
  <2> QED
    BY <2>1, <2>2, SweepGovern
<1>14. ASSUME NEW a \in Actor, NEW l \in Memory, NEW v \in Memory, Supersede(a, l, v) PROVE SweepInv'
  <2>1. MarkSuspect(a, {l, v})
        /\ UNCHANGED <<exists, prose, listed, jobs, deps, decision, inked, slipped>>
    BY <1>14 DEF Supersede, revisionVars
  <2>2. \A n \in Memory \ {l, v} : n \in Standing' <=> n \in Standing
    BY <1>14 DEF Supersede, Standing, Superseded, PagesTypeOK
  <2> QED
    BY <2>1, <2>2, SweepGovern
<1> QED
  BY <1>1, <1>2, <1>3, <1>4, <1>5, <1>6, <1>7, <1>8, <1>9, <1>10, <1>11, <1>12,
     <1>13, <1>14 DEF PagesNext, Curate, Compose, JobsOf

\* A page that is not dirty cites nothing that fell, save a memory it began
\* to cite in the compose it fell in.
THEOREM CleanPagesTrackDeps ==
  ASSUME LoneWorker, AllSeen
  PROVE  PagesSpec => []CleanTracksDeps
<1>1. SweepInv => CleanTracksDeps
  BY DEF SweepInv
<1> QED
  BY <1>1, TypeInit, TypeStep, SweepInit, SweepStep, PTL DEF PagesSpec

\* A page that is not dirty shows the last pinned edit.
THEOREM CleanPagesShowEdits ==
  ASSUME LoneWorker, AllSeen
  PROVE  PagesSpec => []CleanShowsEdits
<1>1. SweepInv => CleanShowsEdits
  BY DEF SweepInv
<1> QED
  BY <1>1, TypeInit, TypeStep, SweepInit, SweepStep, PTL DEF PagesSpec

\* Readers never move back to an older revision.
THEOREM ReadersAdvance ==
  ASSUME LoneWorker, AllSeen
  PROVE  PagesSpec => CurrentAdvances
<1>1. PagesTypeOK /\ SignInv /\ SweepInv /\ [PagesNext]_pagesVars =>
        [\A p \in Page : current'[p] >= current[p]]_pagesVars
  <2> SUFFICES ASSUME PagesTypeOK, SignInv, SweepInv, [PagesNext]_pagesVars, NEW p \in Page
               PROVE  current'[p] >= current[p]
    OBVIOUS
  <2>1. current \in [Page -> 0..MaxCompose]
    BY DEF PagesTypeOK
  <2>2. CASE UNCHANGED current
    BY <2>1, <2>2
  <2>3. ASSUME NEW j \in jobs, NEW unbacked \in BOOLEAN, Finish(j, unbacked)
        PROVE current'[p] >= current[p]
    <3>1. j.rev \in RevId /\ (current'[p] = j.rev \/ current'[p] = current[p])
      BY <2>1, <2>3 DEF Finish, PagesTypeOK, Job
    <3>2. current[p] = 0 \/ (current[p] \in RevId /\ Written(current[p]))
      BY <2>1, WikiAssumption DEF SignInv, CurrentWritten, RevId
    <3>3. current[p] <= j.rev
      BY <3>1, <3>2 DEF SweepInv, JobsNewest, RevId
    <3> QED
      BY <2>1, <3>1, <3>3 DEF RevId
  <2>4. ASSUME NEW a \in Actor, NEW r \in RevId, Approve(a, r) PROVE current'[p] >= current[p]
    BY <2>1, <2>4 DEF Approve, Approvable, RevId
  <2> QED
    BY <2>2, <2>3, <2>4
       DEF PagesNext, Curate, Compose, JobsOf, pagesVars, Create, RefreshDigest, Unthrottle,
           EditPinned, Review, Deprecate, Supersede, List, Begin, Cite, Fail, SweepDies
<1> QED
  BY <1>1, TypeInit, TypeStep, SignInit, SignStep, SweepInit, SweepStep, PTL
     DEF PagesSpec, CurrentAdvances

\* A decision about memories marks every page that names one of them.
LEMMA StandingMoves ==
  ASSUME AllSeen, NEW a \in Actor, NEW M \in SUBSET Memory, MarkSuspect(a, M), deps \in [Page -> SUBSET Memory],
         \A n \in Memory \ M : n \in Standing' <=> n \in Standing
  PROVE  \A p \in Page : deps[p] \cap Standing # deps[p] \cap Standing' => p \in dirty'
<1> SUFFICES ASSUME NEW p \in Page, deps[p] \cap Standing # deps[p] \cap Standing' PROVE p \in dirty'
  OBVIOUS
<1>1. PICK m \in deps[p] : ~ (m \in Standing' <=> m \in Standing)
  OBVIOUS
<1>2. m \in M /\ p \in Dependents(m)
  BY <1>1 DEF Dependents
<1>3. dirty' = dirty \cup ((UNION {Dependents(n) : n \in M}) \cap Page)
  BY DEF MarkSuspect, MarkDirty, AllSeen
<1> QED
  BY <1>2, <1>3

\* Where maintainers see every page, each change of a memory's standing leaves
\* every page that names it dirty (documents.rs: mark_dirty_for_memory).
THEOREM StandingStaysPropagated ==
  ASSUME AllSeen
  PROVE  PagesSpec => StandingIsPropagated
<1>1. PagesTypeOK /\ [PagesNext]_pagesVars =>
        [\A p \in Page : deps[p] \cap Standing # deps[p] \cap Standing' => p \in dirty']_pagesVars
  <2> SUFFICES ASSUME PagesTypeOK, [PagesNext]_pagesVars
               PROVE  \A p \in Page : deps[p] \cap Standing # deps[p] \cap Standing' => p \in dirty'
    OBVIOUS
  <2>1. /\ deps \in [Page -> SUBSET Memory] /\ status \in [Memory -> Statuses]
        /\ supersededBy \in [Memory -> Memory]
    BY DEF PagesTypeOK
  <2>2. CASE UNCHANGED memoryVars
    BY <2>2 DEF memoryVars, Standing, Superseded
  <2>3. ASSUME NEW a \in Actor, NEW m \in Memory, NEW verdict, Review(a, m, verdict)
        PROVE  \A p \in Page : deps[p] \cap Standing # deps[p] \cap Standing' => p \in dirty'
    <3>1. MarkSuspect(a, {m}) /\ \A n \in Memory \ {m} : n \in Standing' <=> n \in Standing
      BY <2>1, <2>3 DEF Review, Standing, Superseded
    <3> QED
      BY <2>1, <3>1, StandingMoves
  <2>4. ASSUME NEW a \in Actor, NEW m \in Memory, Deprecate(a, m)
        PROVE  \A p \in Page : deps[p] \cap Standing # deps[p] \cap Standing' => p \in dirty'
    <3>1. MarkSuspect(a, {m}) /\ \A n \in Memory \ {m} : n \in Standing' <=> n \in Standing
      BY <2>1, <2>4 DEF Deprecate, Standing, Superseded
    <3> QED
      BY <2>1, <3>1, StandingMoves
  <2>5. ASSUME NEW a \in Actor, NEW l \in Memory, NEW v \in Memory, Supersede(a, l, v)
        PROVE  \A p \in Page : deps[p] \cap Standing # deps[p] \cap Standing' => p \in dirty'
    <3>1. MarkSuspect(a, {l, v}) /\ \A n \in Memory \ {l, v} : n \in Standing' <=> n \in Standing
      BY <2>1, <2>5 DEF Supersede, Standing, Superseded
    <3> QED
      BY <2>1, <3>1, StandingMoves
  <2> QED
    BY <2>2, <2>3, <2>4, <2>5
       DEF PagesNext, Curate, Compose, JobsOf, pagesVars, Create, RefreshDigest, Unthrottle,
           EditPinned, List, Begin, Cite, Finish, Fail, SweepDies, Approve
<1> QED
  BY <1>1, TypeInit, TypeStep, PTL DEF PagesSpec, StandingIsPropagated

-----------------------------------------------------------------------------
(* Refinement of Freshness: for readers a compose is one step.              *)

\* An open compose has read prose that the page has or had, and compares itself
\* with a revision only if the page is still published.
ComposesBehind ==
  \A j \in jobs : j.prose <= prose[j.page] /\ (j.prev # 0 => current[j.page] # 0)

\* A step that opens no compose, takes back no prose and unpublishes no page
\* keeps that.
LEMMA BehindQuiet ==
  ASSUME PagesTypeOK, ComposesBehind, jobs' \subseteq jobs,
         \A p \in Page : /\ prose'[p] \in Nat /\ prose[p] <= prose'[p]
                         /\ current[p] # 0 => current'[p] # 0
  PROVE  ComposesBehind'
<1> SUFFICES ASSUME NEW j \in jobs
             PROVE  j.prose <= prose'[j.page] /\ (j.prev # 0 => current'[j.page] # 0)
  BY DEF ComposesBehind
<1>1. j.page \in Page /\ j.prose \in Nat /\ prose[j.page] \in Nat
  BY WikiAssumption DEF PagesTypeOK, Job, Version
<1> QED
  BY <1>1 DEF ComposesBehind

\* Every step keeps it: prose and publications only advance.
LEMMA BehindStep == PagesTypeOK /\ ComposesBehind /\ [PagesNext]_pagesVars => ComposesBehind'
<1> SUFFICES ASSUME PagesTypeOK, ComposesBehind, [PagesNext]_pagesVars PROVE ComposesBehind'
  OBVIOUS
<1>1. /\ prose \in [Page -> Nat] /\ current \in [Page -> Nat] /\ jobs \subseteq Job
      /\ pageOf \in [RevId -> Page]
  BY WikiAssumption DEF PagesTypeOK
<1>2. CASE UNCHANGED <<prose, current>> /\ jobs' \subseteq jobs
  BY <1>1, <1>2, BehindQuiet
<1>3. ASSUME NEW w \in Composer, NEW p \in Page, NEW rev \in RevId, Begin(w, p, rev)
      PROVE  ComposesBehind'
  <2> DEFINE new == [by |-> w, page |-> p, rev |-> rev, prev |-> current[p],
                     prose |-> prose[p], cited |-> {}]
  <2>1. jobs' = jobs \cup {new} /\ UNCHANGED <<prose, current>>
    BY <1>3 DEF Begin
  <2>2. new.page = p /\ new.prose = prose[p] /\ new.prev = current[p]
    OBVIOUS
  <2> HIDE DEF new
  <2> QED
    BY <1>1, <2>1, <2>2 DEF ComposesBehind
<1>4. ASSUME NEW j \in jobs, NEW m \in Memory, Cite(j, m) PROVE ComposesBehind'
  <2> DEFINE new == [j EXCEPT !.cited = @ \cup {m}]
  <2>1. new.page = j.page /\ new.prose = j.prose /\ new.prev = j.prev
    BY <1>1 DEF Job
  <2>2. jobs' = (jobs \ {j}) \cup {new} /\ UNCHANGED <<prose, current>>
    BY <1>4 DEF Cite
  <2> HIDE DEF new
  <2> QED
    BY <2>1, <2>2 DEF ComposesBehind
<1>5. ASSUME NEW j \in jobs, NEW unbacked \in BOOLEAN, Finish(j, unbacked) PROVE ComposesBehind'
  <2>1. j.rev # 0 /\ j.page \in Page
    BY <1>1 DEF Job, RevId
  <2>2. jobs' \subseteq jobs /\ prose' = prose
        /\ (current' = [current EXCEPT ![j.page] = j.rev] \/ current' = current)
    BY <1>5 DEF Finish
  <2> QED
    BY <1>1, <2>1, <2>2, BehindQuiet
<1>6. ASSUME NEW a \in Actor, NEW r \in RevId, Approve(a, r) PROVE ComposesBehind'
  <2>1. r # 0 /\ jobs' = jobs /\ prose' = prose /\ current' = [current EXCEPT ![pageOf[r]] = r]
    BY <1>6 DEF Approve, RevId
  <2> QED
    BY <1>1, <2>1, BehindQuiet
<1>7. ASSUME NEW a \in Actor, NEW p \in Page, EditPinned(a, p) PROVE ComposesBehind'
  <2>1. jobs' = jobs /\ current' = current /\ prose' = [prose EXCEPT ![p] = @ + 1]
    BY <1>7 DEF EditPinned
  <2> QED
    BY <1>1, <2>1, BehindQuiet
<1> QED
  BY <1>2, <1>3, <1>4, <1>5, <1>6, <1>7
     DEF PagesNext, Curate, Compose, JobsOf, pagesVars, Create, RefreshDigest, Unthrottle,
         Review, Deprecate, Supersede, List, Fail, SweepDies

\* A decision about the memories M is a step of the readers' wiki.
LEMMA GovernRefines ==
  ASSUME AllSeen, PagesTypeOK, NEW a \in Actor, NEW M \in SUBSET Memory, MarkSuspect(a, M),
         UNCHANGED <<exists, prose, inked, deps, current>>,
         \A n \in Memory \ M : n \in Standing' <=> n \in Standing
  PROVE  Readers!Next
<1>1. dirty' = dirty \cup ((UNION {Dependents(n) : n \in M}) \cap Page)
  BY DEF MarkSuspect, MarkDirty, AllSeen
<1>2. (UNION {Dependents(n) : n \in M}) \cap Page = {p \in Page : deps[p] \cap M # {}}
  BY DEF Dependents
<1>3. Standing \subseteq Memory /\ Standing' \subseteq Memory
  BY DEF Standing
<1>4. Readers!Govern(M)
  BY <1>1, <1>2, <1>3 DEF Readers!Govern
<1> QED
  BY <1>4 DEF Readers!Next

\* The commit of a compose is a step of the readers' wiki: what it marks clean
\* shows the tables as they are, since the page's row was not written meanwhile.
LEMMA FinishRefines ==
  ASSUME PagesTypeOK, SignInv, SweepInv, ComposesBehind,
         NEW j \in jobs, NEW unbacked \in BOOLEAN, Finish(j, unbacked)
  PROVE  Readers!Next
<1> DEFINE p == j.page
           auto == ~ unbacked /\ MayPublish(j)
<1>1. /\ p \in Page /\ j.by \in Composer /\ j.rev \in RevId /\ j.prose \in Nat /\ j.cited \in SUBSET Memory
      /\ current \in [Page -> Nat] /\ prose \in [Page -> Nat] /\ deps \in [Page -> SUBSET Memory]
      /\ inked \in [Page -> Version]
  BY WikiAssumption DEF PagesTypeOK, Job, Version
<1>2. /\ deps' = [deps EXCEPT ![p] = j.cited]
      /\ dirty' = IF p \notin moved[j.by] THEN dirty \ {p} ELSE dirty
      /\ current' = IF auto THEN [current EXCEPT ![p] = j.rev] ELSE current
      /\ inked' = [inked EXCEPT ![p] = j.prose]
      /\ UNCHANGED <<memoryVars, exists, prose>>
  BY DEF Finish, Cleaned
<1>3. auto => j.prev # 0
  BY DEF MayPublish
<1>4. p \in dirty
  BY <1>1 DEF SweepInv, HeldDirty, Held, JobsOf
<1>5. j.prose \in 0..prose[p] /\ (j.prev # 0 => current[p] # 0)
  BY <1>1 DEF ComposesBehind
<1>6. current[p] < j.rev
  <2>1. current[p] = 0 \/ (current[p] \in RevId /\ Written(current[p]))
    BY <1>1, WikiAssumption DEF SignInv, CurrentWritten, PagesTypeOK, RevId
  <2> QED
    BY <1>1, <2>1 DEF SweepInv, JobsNewest, RevId
<1>7. p \notin moved[j.by] => j.prose = prose[p] /\ j.cited \cap deps[p] \subseteq Standing
  BY DEF SweepInv, JobsCurrent
<1>8. Standing' = Standing
  BY <1>2 DEF Standing, Superseded, memoryVars
<1>9. inked'[p] = j.prose /\ deps'[p] = j.cited
  BY <1>1, <1>2
<1>a. dirty' = dirty \/ (dirty' = dirty \ {p} /\ Readers!UpToDate(p))
  BY <1>2, <1>7, <1>9 DEF Readers!UpToDate
<1>b. UNCHANGED current \/ (current[p] # 0 /\ Readers!Publish(p, current'[p]))
  <2>1. CASE auto
    <3>1. current'[p] = j.rev /\ current' = [current EXCEPT ![p] = j.rev]
      BY <1>1, <1>2, <2>1
    <3> QED
      BY <1>1, <1>3, <1>5, <1>6, <2>1, <3>1 DEF Readers!Publish, RevId
  <2>2. CASE ~ auto
    BY <1>2, <2>2
  <2> QED
    BY <2>1, <2>2
<1> HIDE DEF p, auto
<1>c. Readers!Compose(p, j.prose, j.cited)
  BY <1>2, <1>4, <1>8, <1>a, <1>b DEF Readers!Compose
<1> QED
  BY <1>1, <1>5, <1>c DEF Readers!Next

\* Every other step of a lone worker and of its maintainers is a step of the
\* readers' wiki, or nothing that readers see.
LEMMA FreshnessStep ==
  ASSUME LoneWorker, AllSeen
  PROVE  PagesTypeOK /\ SignInv /\ SweepInv /\ ComposesBehind /\ [PagesNext]_pagesVars
           => [Readers!Next]_(Readers!vars)
<1> SUFFICES ASSUME PagesTypeOK, SignInv, SweepInv, ComposesBehind, [PagesNext]_pagesVars
             PROVE  Readers!Next \/ UNCHANGED Readers!vars
  OBVIOUS
<1>0. /\ status \in [Memory -> Statuses] /\ supersededBy \in [Memory -> Memory]
      /\ current \in [Page -> Nat] /\ pageOf \in [RevId -> Page]
  BY WikiAssumption DEF PagesTypeOK
<1>1. CASE UNCHANGED <<memoryVars, exists, dirty, prose, inked, deps, current>>
  BY <1>1 DEF Readers!vars, memoryVars, Standing, Superseded
<1>2. ASSUME NEW p \in Page, Create(p) PROVE Readers!Next
  <2>1. Standing' = Standing
    BY <1>2 DEF Create, memoryVars, Standing, Superseded
  <2>2. Readers!Scaffold(p)
    BY <1>2, <2>1 DEF Create, MarkDirty, Readers!Scaffold
  <2> QED
    BY <2>2 DEF Readers!Next
<1>3. ASSUME NEW p \in Page, RefreshDigest(p) PROVE Readers!Next
  <2>1. Standing' = Standing
    BY <1>3 DEF RefreshDigest, memoryVars, Standing, Superseded
  <2>2. Readers!Age(p)
    BY <1>3, <2>1 DEF RefreshDigest, MarkDirty, Readers!Age
  <2> QED
    BY <2>2 DEF Readers!Next
<1>4. ASSUME NEW a \in Actor, NEW p \in Page, EditPinned(a, p) PROVE Readers!Next
  <2>1. Standing' = Standing
    BY <1>4 DEF EditPinned, memoryVars, Standing, Superseded
  <2>2. Readers!Edit(p)
    BY <1>4, <2>1 DEF EditPinned, MarkDirty, Readers!Edit
  <2> QED
    BY <2>2 DEF Readers!Next
<1>5. ASSUME NEW a \in Actor, NEW m \in Memory, NEW v, Review(a, m, v) PROVE Readers!Next
  <2>1. MarkSuspect(a, {m}) /\ \A n \in Memory \ {m} : n \in Standing' <=> n \in Standing
    BY <1>0, <1>5 DEF Review, Standing, Superseded
  <2> QED
    BY <1>5, <2>1, GovernRefines DEF Review
<1>6. ASSUME NEW a \in Actor, NEW m \in Memory, Deprecate(a, m) PROVE Readers!Next
  <2>1. MarkSuspect(a, {m}) /\ \A n \in Memory \ {m} : n \in Standing' <=> n \in Standing
    BY <1>0, <1>6 DEF Deprecate, Standing, Superseded
  <2> QED
    BY <1>6, <2>1, GovernRefines DEF Deprecate
<1>7. ASSUME NEW a \in Actor, NEW l \in Memory, NEW v \in Memory, Supersede(a, l, v) PROVE Readers!Next
  <2>1. MarkSuspect(a, {l, v}) /\ \A n \in Memory \ {l, v} : n \in Standing' <=> n \in Standing
    BY <1>0, <1>7 DEF Supersede, Standing, Superseded
  <2> QED
    BY <1>7, <2>1, GovernRefines DEF Supersede
<1>8. ASSUME NEW a \in Actor, NEW r \in RevId, Approve(a, r)
      PROVE  Readers!Next \/ UNCHANGED Readers!vars
  <2> DEFINE p == pageOf[r]
  <2>1. /\ p \in Page /\ current[p] <= r /\ current' = [current EXCEPT ![p] = r]
        /\ UNCHANGED <<exists, dirty, prose, inked, deps>>
    BY <1>0, <1>8 DEF Approve, Approvable
  <2>2. Standing' = Standing
    BY <1>8 DEF Approve, memoryVars, Standing, Superseded
  <2> HIDE DEF p
  <2>3. CASE current[p] = r
    <3>1. current' = current
      BY <1>0, <2>1, <2>3
    <3> QED
      BY <2>1, <2>2, <3>1 DEF Readers!vars
  <2>4. CASE current[p] # r
    <3>1. current'[p] = r /\ r > current[p]
      BY <1>0, <2>1, <2>4 DEF RevId
    <3>2. Readers!Sign(p)
      BY <2>1, <2>2, <3>1 DEF Readers!Sign, Readers!Publish
    <3> QED
      BY <2>1, <3>2 DEF Readers!Next
  <2> QED
    BY <2>3, <2>4
<1> QED
  BY <1>1, <1>2, <1>3, <1>4, <1>5, <1>6, <1>7, <1>8, FinishRefines
     DEF PagesNext, Curate, Compose, JobsOf, pagesVars, Unthrottle, List, Begin, Cite, Fail, SweepDies

\* Composing over seconds, beside edits, decisions, approvals, failures and
\* crashes, implements the wiki in which a page is recomposed in one step.
THEOREM ComposesAreAtomic ==
  ASSUME LoneWorker, AllSeen
  PROVE  PagesSpec => ImplementsFreshness
<1>1. PagesInit => Readers!Init /\ ComposesBehind
  BY DEF PagesInit, Readers!Init, ComposesBehind, Standing
<1>2. PagesTypeOK /\ SignInv /\ SweepInv /\ ComposesBehind /\ [PagesNext]_pagesVars
        => [Readers!Next]_(Readers!vars)
  BY FreshnessStep
<1> QED
  BY <1>1, <1>2, TypeInit, TypeStep, SignInit, SignStep, SweepInit, SweepStep, BehindStep, PTL
     DEF PagesSpec, ImplementsFreshness, Readers!Spec
=============================================================================
