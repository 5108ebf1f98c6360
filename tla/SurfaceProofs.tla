----------------------------- MODULE SurfaceProofs -----------------------------
(***************************************************************************)
(* What people meet, for any number of them: why two first sign-ins of one *)
(* identity end in one organisation and of two saves of the same prose one *)
(* is refused, why an approved pairing makes one key of what was approved, *)
(* why a signal has one open candidate, why nothing reaches readers from   *)
(* the Library unsigned, and why what agents are answered is in order,     *)
(* governed and whole.  Every part of the run of module SurfaceMC is a     *)
(* behaviour of the part's own specification.                              *)
(***************************************************************************)
EXTENDS AlgorithmProofs

\* A set whose elements are all the same has at most one.
LEMMA AtMostOne ==
  ASSUME NEW S, \A x, y \in S : x = y
  PROVE  IsFiniteSet(S) /\ Cardinality(S) \in Nat /\ Cardinality(S) <= 1
<1>1. CASE S = {}
  BY <1>1, FS_EmptySet
<1>2. CASE S # {}
  <2>1. PICK x : S = {x}
    BY <1>2
  <2> QED
    BY <2>1, FS_Singleton
<1> QED
  BY <1>1, <1>2

-----------------------------------------------------------------------------
(* Sign-in (module Provision). *)

\* An organisation is named by the request that wrote it.
Workspace == Signin \cup {NoOrg}

\* The types of identities, workspaces, requests and keys.
ProvisionTypeOK ==
  /\ identity \in [Subject -> Workspace]
  /\ workspaces \subseteq Signin
  /\ signing \in [Signin -> [at : {"fresh", "insert", "commit", "key", "answered", "dead"},
                             org : Workspace, wrote : BOOLEAN, created : BOOLEAN]]
  /\ deviceKeys \subseteq Workspace \X Signin

\* A request that loses has an organisation to answer with: it waited for the
\* winner to commit.
LoserHasAnswer ==
  \A s \in Signin : signing[s].at = "commit" /\ ~ signing[s].created =>
    /\ signing[s].org = identity[SubjectOf[s]] /\ signing[s].org # NoOrg

\* A request that wins wrote an organisation of its own for a new identity ...
WinnerIsNew ==
  \A s \in Signin : signing[s].at = "commit" /\ signing[s].created =>
    /\ signing[s].org = s /\ signing[s].wrote /\ identity[SubjectOf[s]] = NoOrg

\* ... and no two of them hold the uncommitted row of one identity.
Holds(s) == signing[s].at = "commit" /\ signing[s].created
\* At most one request is creating an identity's organisation.
OneWinner ==
  \A s, t \in Signin :
    Holds(s) /\ Holds(t) /\ SubjectOf[s] = SubjectOf[t] => s = t

\* Whoever is past the commit, and every key, is about some organisation.
NoBlankAnswer ==
  /\ \A s \in Signin : signing[s].at = "insert" => signing[s].wrote
  /\ \A s \in Signin : signing[s].at \in {"key", "answered"} => signing[s].org # NoOrg
  /\ \A k \in deviceKeys : k[1] # NoOrg

\* The inductive invariant of sign-in.
ProvisionInv ==
  /\ ProvisionTypeOK /\ LoserHasAnswer /\ WinnerIsNew /\ OneWinner /\ NoBlankAnswer
  /\ SignInsAgree

\* Nobody has signed in yet.
LEMMA ProvisionStart == ProvisionInit => ProvisionInv
<1> SUFFICES ASSUME ProvisionInit PROVE ProvisionInv
  OBVIOUS
<1> USE DEF ProvisionInit
<1>1. \A s \in Signin : signing[s].at = "fresh"
  BY DEF Fresh
<1>2. ProvisionTypeOK
  BY DEF ProvisionTypeOK, Workspace, Fresh
<1>3. LoserHasAnswer /\ WinnerIsNew /\ OneWinner
  BY <1>1 DEF LoserHasAnswer, WinnerIsNew, OneWinner, Holds
<1>4. NoBlankAnswer
  BY <1>1 DEF NoBlankAnswer
<1>5. SignInsAgree
  BY <1>1 DEF SignInsAgree
<1> QED
  BY <1>2, <1>3, <1>4, <1>5 DEF ProvisionInv

\* The first look, the mint and a death touch no identity.
LEMMA QuietStep ==
  ASSUME ProvisionInv, NEW s \in Signin, Find(s) \/ MintDevice(s) \/ SigninDies(s)
  PROVE  ProvisionInv'
<1> USE ProvisionAssumption DEF ProvisionInv, Holds, ProvisionTypeOK, Workspace
<1>1. CASE Find(s)
  <2>1. ProvisionTypeOK'
    BY <1>1 DEF Find, Fresh
  <2>2. /\ \A t \in Signin \ {s} : signing'[t] = signing[t]
        /\ signing'[s].at \in {"commit", "insert"}
        /\ ~ signing'[s].created
        /\ signing'[s].at = "insert" => signing'[s].wrote
        /\ signing'[s].at = "commit" =>
             signing'[s].org = identity[SubjectOf[s]] /\ signing'[s].org # NoOrg
    BY <1>1 DEF Find, Fresh
  <2> QED
    BY <1>1, <2>1, <2>2
    DEF Find, LoserHasAnswer, WinnerIsNew, OneWinner, NoBlankAnswer, SignInsAgree
<1>2. CASE MintDevice(s)
  <2>1. ProvisionTypeOK'
    BY <1>2 DEF MintDevice
  <2>2. /\ \A t \in Signin \ {s} : signing'[t] = signing[t]
        /\ signing'[s].at = "answered" /\ signing'[s].org = signing[s].org
    BY <1>2 DEF MintDevice
  <2>3. signing[s].org # NoOrg /\ signing[s].org = identity[SubjectOf[s]]
    BY <1>2 DEF MintDevice, NoBlankAnswer, SignInsAgree
  <2> QED
    BY <1>2, <2>1, <2>2, <2>3
    DEF MintDevice, LoserHasAnswer, WinnerIsNew, OneWinner, NoBlankAnswer, SignInsAgree
<1>3. CASE SigninDies(s)
  <2>1. ProvisionTypeOK'
    BY <1>3 DEF SigninDies, Fresh
  <2>2. \A t \in Signin \ {s} : signing'[t] = signing[t]
    BY <1>3 DEF SigninDies
  <2>3. signing'[s].at = "dead"
    BY <1>3 DEF SigninDies, Fresh
  <2>4. UNCHANGED <<identity, workspaces, deviceKeys>>
    BY <1>3 DEF SigninDies
  <2>5. LoserHasAnswer' /\ WinnerIsNew' /\ OneWinner'
    BY <2>2, <2>3, <2>4 DEF LoserHasAnswer, WinnerIsNew, OneWinner
  <2>6. NoBlankAnswer' /\ SignInsAgree'
    BY <2>2, <2>3, <2>4 DEF NoBlankAnswer, SignInsAgree
  <2> QED
    BY <2>1, <2>5, <2>6
<1> QED
  BY <1>1, <1>2, <1>3

\* The insert decides the race: it waits for an uncommitted rival and looks again.
LEMMA InsertStep ==
  ASSUME ProvisionInv, NEW s \in Signin, InsertIdentity(s)
  PROVE  ProvisionInv'
<1> USE ProvisionAssumption DEF ProvisionInv, Holds, ProvisionTypeOK, Workspace
<1>1. ProvisionTypeOK'
  <2>1. Wins(s) \in BOOLEAN /\ (IF Wins(s) THEN s ELSE Answer(s)) \in Workspace
    BY DEF Wins, Answer
  <2> HIDE DEF Workspace
  <2> QED
    BY <2>1 DEF InsertIdentity
<1>2. /\ \A t \in Signin \ {s} : signing'[t] = signing[t]
      /\ signing'[s].at = "commit" /\ signing'[s].wrote
      /\ signing'[s].created <=> identity[SubjectOf[s]] = NoOrg
      /\ signing'[s].org = IF signing'[s].created THEN s ELSE identity[SubjectOf[s]]
  BY DEF InsertIdentity, Wins, Answer, NoBlankAnswer
<1>3. \A t \in Signin : SubjectOf[t] = SubjectOf[s] /\ signing[t].at = "commit" => ~ signing[t].created
  BY DEF InsertIdentity, Waits
<1>4. OneWinner'
  BY <1>2, <1>3 DEF OneWinner
<1>5. UNCHANGED <<identity, workspaces, deviceKeys>>
  BY DEF InsertIdentity
<1> QED
  BY <1>1, <1>2, <1>4, <1>5 DEF LoserHasAnswer, WinnerIsNew, NoBlankAnswer, SignInsAgree

\* A commit that creates the identity finds nobody answered about it, and no
\* rival; any other leaves the identities alone.
LEMMA CommitStep ==
  ASSUME ProvisionInv, NEW s \in Signin, Commit(s)
  PROVE  ProvisionInv'
<1> USE ProvisionAssumption DEF ProvisionInv, Holds, ProvisionTypeOK, Workspace
<1>1. ProvisionTypeOK'
  <2>1. identity' \in [Subject -> Workspace] /\ workspaces' \subseteq Signin /\ deviceKeys' = deviceKeys
    BY DEF Commit
  <2>2. PICK next \in {"key", "answered"} : signing' = [signing EXCEPT ![s].at = next]
    BY DEF Commit
  <2> HIDE DEF Workspace
  <2> QED
    BY <2>1, <2>2
<1>2. /\ \A t \in Signin \ {s} : signing'[t] = signing[t]
      /\ signing'[s].at \in {"key", "answered"} /\ signing'[s].org = signing[s].org
      /\ deviceKeys' = deviceKeys /\ workspaces \subseteq workspaces'
  BY DEF Commit
<1>3. CASE signing[s].created
  <2>1. /\ signing[s].at = "commit" /\ signing[s].org = s /\ s \in workspaces'
        /\ identity[SubjectOf[s]] = NoOrg
    BY <1>3 DEF Commit, WinnerIsNew
  <2>2. /\ identity'[SubjectOf[s]] = s
        /\ \A u \in Subject \ {SubjectOf[s]} : identity'[u] = identity[u]
    BY <1>3 DEF Commit
  <2>3. \A t \in Signin \ {s} : signing[t].at = "commit" /\ signing[t].created
                                  => SubjectOf[t] # SubjectOf[s]
    BY <1>3, <2>1 DEF OneWinner
  <2>4. \A t \in Signin \ {s} : signing[t].at = "commit" /\ ~ signing[t].created
                                  => SubjectOf[t] # SubjectOf[s]
    BY <2>1 DEF LoserHasAnswer
  <2>5. \A t \in Signin \ {s} : signing[t].at \in {"key", "answered"} => SubjectOf[t] # SubjectOf[s]
    BY <2>1 DEF NoBlankAnswer, SignInsAgree
  <2>6. \A k \in deviceKeys : SubjectOf[k[2]] # SubjectOf[s]
    BY <2>1 DEF NoBlankAnswer, SignInsAgree
  <2>7. LoserHasAnswer'
    BY <1>2, <2>2, <2>4 DEF LoserHasAnswer
  <2>8. WinnerIsNew'
    BY <1>2, <2>2, <2>3 DEF WinnerIsNew
  <2>9. OneWinner' /\ NoBlankAnswer'
    <3>1. OneWinner'
      BY <1>2 DEF OneWinner
    <3>2. signing'[s].org # NoOrg
      BY <1>2, <2>1
    <3>3. NoBlankAnswer'
      BY <1>2, <3>2 DEF NoBlankAnswer
    <3> QED
      BY <3>1, <3>3
  <2>10. SignInsAgree'
    <3>1. \A t \in Signin : signing'[t].at \in {"key", "answered"} => signing'[t].org = identity'[SubjectOf[t]]
      BY <1>2, <2>1, <2>2, <2>5 DEF SignInsAgree
    <3>2. \A k \in deviceKeys' : k[1] = identity'[SubjectOf[k[2]]]
      BY <1>2, <2>2, <2>6 DEF SignInsAgree
    <3>3. \A u \in Subject : identity'[u] # NoOrg => identity'[u] \in workspaces' /\ SubjectOf[identity'[u]] = u
      BY <1>2, <2>1, <2>2 DEF SignInsAgree
    <3> QED
      BY <3>1, <3>2, <3>3 DEF SignInsAgree
  <2> QED
    BY <1>1, <2>7, <2>8, <2>9, <2>10
<1>4. CASE ~ signing[s].created
  <2>1. identity' = identity
    BY <1>4 DEF Commit
  <2>2. signing[s].org = identity[SubjectOf[s]] /\ signing[s].org # NoOrg
    BY <1>4 DEF Commit, LoserHasAnswer
  <2> QED
    BY <1>1, <1>2, <2>1, <2>2
    DEF LoserHasAnswer, WinnerIsNew, OneWinner, NoBlankAnswer, SignInsAgree
<1> QED
  BY <1>3, <1>4

\* The races of sign-in keep the invariant.
LEMMA ProvisionStep == ProvisionInv /\ [ProvisionNext]_provisionVars => ProvisionInv'
<1> SUFFICES ASSUME ProvisionInv, [ProvisionNext]_provisionVars PROVE ProvisionInv'
  OBVIOUS
<1>1. ASSUME NEW s \in Signin,
             Find(s) \/ InsertIdentity(s) \/ Commit(s) \/ MintDevice(s) \/ SigninDies(s)
      PROVE  ProvisionInv'
  BY <1>1, QuietStep, InsertStep, CommitStep
<1>2. CASE UNCHANGED provisionVars
  BY <1>2
  DEF provisionVars, ProvisionInv, ProvisionTypeOK, LoserHasAnswer, WinnerIsNew, OneWinner,
      Holds, NoBlankAnswer, SignInsAgree
<1> QED
  BY <1>1, <1>2 DEF ProvisionNext

-----------------------------------------------------------------------------
\* Any number of requests may sign one identity in at once: every answer and
\* every device key is about the one organisation the identity has, and that
\* organisation exists (identities.rs provision).
THEOREM RaceEndsInOnePlace == ProvisionSpec => []SignInsAgree
<1>1. ProvisionInv => SignInsAgree
  BY DEF ProvisionInv
<1> QED
  BY ProvisionStart, ProvisionStep, <1>1, PTL DEF ProvisionSpec

\* An identity that has an organisation keeps it, also when a late request of its
\* first sign-in commits (provision: the identity row is written once).
THEOREM IdentityIsSettled ==
  ProvisionSpec =>
    [][\A u \in Subject : identity[u] # NoOrg => identity'[u] = identity[u]]_provisionVars
<1> DEFINE Kept == \A u \in Subject : identity[u] # NoOrg => identity'[u] = identity[u]
<1>1. ProvisionInv /\ [ProvisionNext]_provisionVars => [Kept]_provisionVars
  <2> SUFFICES ASSUME ProvisionInv, ProvisionNext PROVE Kept
    BY DEF provisionVars
  <2>1. ASSUME NEW s \in Signin, Find(s) \/ InsertIdentity(s) \/ MintDevice(s) \/ SigninDies(s)
        PROVE  Kept
    BY <2>1 DEF Find, InsertIdentity, MintDevice, SigninDies
  <2>2. ASSUME NEW s \in Signin, Commit(s) PROVE Kept
    BY <2>2 DEF Commit, ProvisionInv, ProvisionTypeOK, WinnerIsNew
  <2> QED
    BY <2>1, <2>2 DEF ProvisionNext
<1> QED
  BY ProvisionStart, ProvisionStep, <1>1, PTL DEF ProvisionSpec
-----------------------------------------------------------------------------
(* The pinned prose of a page (module Wiki). *)

\* An editor starts with no page of theirs.
NoPageYet == CHOOSE p \in Page : TRUE

\* The types of the pages and of the editors.
WikiTypeOK ==
  /\ saves \in Nat
  /\ prose \in [Page -> Nat] /\ inked \in [Page -> Nat] /\ drafted \in [Page -> Nat]
  /\ before \in [Editor -> [page : Page \cup {NoPageYet}, seen : Nat]]
  /\ saving \in [Editor -> Nat]

\* A page keeps a kind and a space somebody filed it under.
PagesAreFiled ==
  pages \in [Page -> [kind : {Filed[p].kind : p \in Page}, space : {Filed[p].space : p \in Page},
                     status : {"draft", "published"}, dirty : BOOLEAN, review : BOOLEAN]]

\* An edit is of a page the editor has opened, and stays with it.
EditsAreOpened ==
  \A e \in Editor : before[e].seen # 0 \/ saving[e] # 0 => before[e].page \in Page

\* No version is given twice: a replaced one is the one its writer read, and is
\* older than what the page has now.
VersionsGrow ==
  /\ \A p \in Page : prose[p] <= saves
  /\ \A r \in replaced : /\ r.page \in Page /\ r.old \in Nat
                         /\ r.read = r.old /\ r.old < prose[r.page]

\* The inductive invariant of editing.
WikiInv == WikiTypeOK /\ PagesAreFiled /\ EditsAreOpened /\ VersionsGrow /\ OverlapIsRefused

\* The wiki starts with first versions and no edit.
LEMMA WikiStart == WikiInit => WikiInv
<1> SUFFICES ASSUME WikiInit PROVE WikiInv
  OBVIOUS
<1>1. WikiTypeOK
  BY DEF WikiInit, WikiTypeOK, NoPageYet
<1>2. EditsAreOpened /\ VersionsGrow /\ OverlapIsRefused
  BY DEF WikiInit, EditsAreOpened, VersionsGrow, OverlapIsRefused
<1>3. PagesAreFiled
  BY DEF WikiInit, PagesAreFiled
<1> QED
  BY <1>1, <1>2, <1>3 DEF WikiInv

\* Whatever marks, signs or composes a page leaves its filing alone.
LEMMA FilingStep ==
  ASSUME PagesAreFiled,
         \/ pages' = pages
         \/ \E p \in Page : MarkDirty(p) \/ SignRevision(p) \/ \E signed \in BOOLEAN : Compose(p, signed)
         \/ \E e \in Editor : UpdatePinned(e)
  PROVE  PagesAreFiled'
<1>1. ASSUME NEW p \in Page, MarkDirty(p) PROVE PagesAreFiled'
  BY <1>1 DEF MarkDirty, PagesAreFiled
<1>2. ASSUME NEW p \in Page, SignRevision(p) PROVE PagesAreFiled'
  BY <1>2 DEF SignRevision, PagesAreFiled
<1>3. ASSUME NEW p \in Page, NEW signed \in BOOLEAN, Compose(p, signed) PROVE PagesAreFiled'
  <2>1. \/ pages' = [pages EXCEPT ![p].dirty = FALSE, ![p].status = "published"]
        \/ pages' = [pages EXCEPT ![p].dirty = FALSE, ![p].review = TRUE]
    BY <1>3 DEF Compose
  <2>2. CASE pages' = [pages EXCEPT ![p].dirty = FALSE, ![p].status = "published"]
    BY <2>2 DEF PagesAreFiled
  <2>3. CASE pages' = [pages EXCEPT ![p].dirty = FALSE, ![p].review = TRUE]
    BY <2>3 DEF PagesAreFiled
  <2> QED
    BY <2>1, <2>2, <2>3
<1>4. ASSUME NEW e \in Editor, UpdatePinned(e) PROVE PagesAreFiled'
  <2>1. PICK p : pages' = [pages EXCEPT ![p].dirty = TRUE]
    BY <1>4 DEF UpdatePinned
  <2>2. CASE p \in Page
    BY <2>1, <2>2 DEF PagesAreFiled
  <2>3. CASE p \notin Page
    <3>1. pages' = pages
      BY <2>1, <2>3 DEF PagesAreFiled
    <3> QED
      BY <3>1 DEF PagesAreFiled
  <2> QED
    BY <2>2, <2>3
<1> QED
  BY <1>1, <1>2, <1>3, <1>4 DEF PagesAreFiled

\* A save that goes through replaces what it read by a version nobody has had.
LEMMA SaveStep ==
  ASSUME WikiInv, NEW e \in Editor, UpdatePinned(e)
  PROVE  WikiInv'
<1> USE DEF WikiInv, WikiTypeOK
<1> DEFINE p == before[e].page
           r == [page |-> p, old |-> prose[p], read |-> saving[e], seen |-> before[e].seen]
<1>1. p \in Page /\ prose[p] = saving[e] /\ prose[p] \in Nat /\ prose[p] <= saves
  BY DEF UpdatePinned, Unchanged, EditsAreOpened, VersionsGrow
<1>2. /\ prose' = [prose EXCEPT ![p] = saves + 1] /\ replaced' = replaced \cup {r}
      /\ before' = [before EXCEPT ![e].seen = saves + 1]
      /\ saves' = saves + 1 /\ saving' = [saving EXCEPT ![e] = 0]
      /\ inked' = inked /\ drafted' = drafted
  BY DEF UpdatePinned
<1>3. r.page = p /\ r.old = prose[p] /\ r.read = prose[p]
  BY <1>1
<1> HIDE DEF r
<1>4. WikiTypeOK'
  BY <1>1, <1>2
<1>5. EditsAreOpened'
  BY <1>1, <1>2 DEF EditsAreOpened
<1>6. \A q \in Page : prose[q] <= prose'[q]
  BY <1>1, <1>2 DEF VersionsGrow
<1>7. VersionsGrow'
  <2>1. \A q \in Page : prose'[q] <= saves'
    BY <1>1, <1>2 DEF VersionsGrow
  <2>2. ASSUME NEW s \in replaced'
        PROVE  s.page \in Page /\ s.old \in Nat /\ s.read = s.old /\ s.old < prose'[s.page]
    <3>1. CASE s \in replaced
      BY <1>4, <1>6, <3>1 DEF VersionsGrow
    <3>2. CASE s = r
      BY <1>1, <1>2, <1>3, <3>2
    <3> QED
      BY <1>2, <3>1, <3>2
  <2> QED
    BY <2>1, <2>2 DEF VersionsGrow
<1>8. \A s \in replaced : s.page = p => s.read # prose[p]
  BY DEF VersionsGrow
<1>9. OverlapIsRefused'
  BY <1>2, <1>3, <1>8 DEF OverlapIsRefused
<1> QED
  BY <1>4, <1>5, <1>7, <1>9, FilingStep

\* Whatever else people and the composer do keeps the invariant.
LEMMA WikiStep == WikiInv /\ [WikiNext]_wikiVars => WikiInv'
<1> SUFFICES ASSUME WikiInv, [WikiNext]_wikiVars PROVE WikiInv'
  OBVIOUS
<1> USE DEF WikiInv, WikiTypeOK
<1>1. ASSUME NEW p \in Page, NEW signed \in BOOLEAN,
             MarkDirty(p) \/ SignRevision(p) \/ AgentDocGet(p) \/ Compose(p, signed)
      PROVE  WikiInv'
  <2>1. UNCHANGED editing
    BY <1>1 DEF MarkDirty, SignRevision, AgentDocGet, Compose
  <2>2. inked' \in [Page -> Nat] /\ drafted' \in [Page -> Nat]
    BY <1>1 DEF MarkDirty, SignRevision, AgentDocGet, Compose, wiki
  <2>3. PagesAreFiled'
    BY <1>1, FilingStep DEF AgentDocGet, wiki
  <2> QED
    BY <2>1, <2>2, <2>3 DEF editing, EditsAreOpened, VersionsGrow, OverlapIsRefused
<1>2. ASSUME NEW e \in Editor, NEW p \in Page, DocGet(e, p)
      PROVE  WikiInv'
  <2>1. Shown(p) \in Nat
    BY DEF Shown
  <2>2. before' = [before EXCEPT ![e] = [page |-> p, seen |-> Shown(p)]]
        /\ UNCHANGED <<pages, inked, drafted, prose, saving, replaced, saves>>
    BY <1>2 DEF DocGet, wiki
  <2>3. WikiTypeOK' /\ EditsAreOpened'
    BY <2>1, <2>2 DEF EditsAreOpened
  <2> QED
    BY <2>2, <2>3 DEF VersionsGrow, OverlapIsRefused, PagesAreFiled
<1>3. ASSUME NEW e \in Editor, ReadSection(e) PROVE WikiInv'
  BY <1>3 DEF ReadSection, wiki, PagesAreFiled, EditsAreOpened, VersionsGrow, OverlapIsRefused
<1>4. ASSUME NEW e \in Editor, UpdatePinned(e) PROVE WikiInv'
  BY <1>4, SaveStep
<1>5. ASSUME NEW e \in Editor, Conflict(e) PROVE WikiInv'
  BY <1>5 DEF Conflict, wiki, PagesAreFiled, EditsAreOpened, VersionsGrow, OverlapIsRefused
<1>6. CASE UNCHANGED wikiVars
  BY <1>6 DEF wikiVars, PagesAreFiled, EditsAreOpened, VersionsGrow, OverlapIsRefused
<1> QED
  BY <1>1, <1>2, <1>3, <1>4, <1>5, <1>6 DEF WikiNext

\* However many editors save how many sections at once, of two saves that read
\* the same prose one is refused (documents.rs update_pinned).
THEOREM SavesDoNotOverlap == WikiSpec => []OverlapIsRefused
<1>1. WikiInv => OverlapIsRefused
  BY DEF WikiInv
<1> QED
  BY WikiStart, WikiStep, <1>1, PTL DEF WikiSpec

\* An option of the wiki's menu selects the pages it counts, and a page is behind the
\* option of its own value.
LEMMA DirectoryIsKept == PagesAreFiled => DirectoryIsWhole
<1> SUFFICES ASSUME PagesAreFiled, NEW f \in PageFilters, NEW d \in Dims
             PROVE  /\ \A o \in MenuOf(f, d) : Cardinality(Browse([f EXCEPT ![d] = o.value])) = o.count
                    /\ \A p \in Browse(Masked(f, d)) : \E o \in MenuOf(f, d) : p \in Browse([f EXCEPT ![d] = o.value])
  BY DEF DirectoryIsWhole
<1> DEFINE Field == {"kind", "space", "status", "review", "stale"}
<1>1. f = [x \in Field |-> f[x]] /\ d \in Field
  BY DEF PageFilters, Dims
<1>2. ASSUME NEW p \in Page PROVE pages[p][d] # Unfiltered
  <2>1. \A q \in Page : Filed[q].kind # Unfiltered /\ Filed[q].space # Unfiltered
    BY WikiAssumption
  <2>2. pages[p].kind # Unfiltered /\ pages[p].space # Unfiltered
    <3>1. pages[p].kind \in {Filed[q].kind : q \in Page} /\ pages[p].space \in {Filed[q].space : q \in Page}
      BY DEF PagesAreFiled
    <3> HIDE DEF Unfiltered
    <3> QED
      BY <2>1, <3>1
  <2>3. pages[p].status # Unfiltered
    BY DEF PagesAreFiled, Unfiltered
  <2> QED
    BY <2>2, <2>3 DEF Dims
<1>3. ASSUME NEW p \in Page, NEW v, v # Unfiltered
      PROVE  Selects([f EXCEPT ![d] = v], p) <=> Selects(Masked(f, d), p) /\ pages[p][d] = v
  <2> DEFINE g == [f EXCEPT ![d] = v]
             h == Masked(f, d)
  <2>1. /\ g[d] = v /\ h[d] = Unfiltered /\ \A e \in Dims : e # d => g[e] = f[e] /\ h[e] = f[e]
        /\ g["review"] = f["review"] /\ h["review"] = f["review"]
        /\ g["stale"] = f["stale"] /\ h["stale"] = f["stale"]
    BY <1>1 DEF Masked, Dims
  <2> HIDE DEF g, h
  <2> QED
    BY <1>3, <2>1 DEF Selects, g, h
<1>4. \A v : v # Unfiltered => Browse([f EXCEPT ![d] = v]) = {p \in Browse(Masked(f, d)) : pages[p][d] = v}
  BY <1>3 DEF Browse
<1>5. \A p \in Browse(Masked(f, d)) : p \in Page
  BY DEF Browse
<1>6. ASSUME NEW o \in MenuOf(f, d) PROVE Cardinality(Browse([f EXCEPT ![d] = o.value])) = o.count
  <2> DEFINE Behind(v) == {p \in Browse(Masked(f, d)) : pages[p][d] = v}
  <2>1. PICK q \in Browse(Masked(f, d)) : o = [value |-> pages[q][d], count |-> Cardinality(Behind(pages[q][d]))]
    BY DEF MenuOf
  <2>2. Browse([f EXCEPT ![d] = pages[q][d]]) = Behind(pages[q][d])
    BY <1>2, <1>4, <1>5
  <2> HIDE DEF Behind
  <2> QED
    BY <2>1, <2>2
<1>7. ASSUME NEW p \in Browse(Masked(f, d)) PROVE \E o \in MenuOf(f, d) : p \in Browse([f EXCEPT ![d] = o.value])
  <2> DEFINE v == pages[p][d]
             o == [value |-> v, count |-> Cardinality({q \in Browse(Masked(f, d)) : pages[q][d] = v})]
  <2>1. o \in MenuOf(f, d)
    BY DEF MenuOf
  <2>2. p \in Browse([f EXCEPT ![d] = o.value])
    BY <1>2, <1>4, <1>5
  <2> QED
    BY <2>1, <2>2
<1> QED
  BY <1>6, <1>7

-----------------------------------------------------------------------------
(* Pairing (module Onboarding). *)

\* The types of pairings, requests and keys.
PairingStatus == {"none", "pending", "approved", "denied", "claimed", "gone"}
SomeOrg == Org \cup {Nothing}
SomeProject == Project \cup {Nothing}
SomeAdmin == Admin \cup {Nothing}
SomePairing == Pairing \cup {Nothing}

Row == [status : PairingStatus, age : {"live", "expired", "ancient"}, path : Path \cup {<< >>},
        org : SomeOrg, project : SomeProject, by : SomeAdmin]
Decision == [at : {"rest", "approve"}, pairing : SomePairing, project : SomeProject, org : SomeOrg, by : SomeAdmin]
Poll == [at : {"rest", "claim", "mint"}, pairing : SomePairing, project : SomeProject, org : SomeOrg, by : SomeAdmin]
KeyRow == [org : SomeOrg, project : SomeProject, by : SomeAdmin, pairing : SomePairing, revoked : BOOLEAN]

OnboardTypeOK ==
  /\ pairings \in [Pairing -> Row] /\ opening \subseteq Pairing
  /\ whitelist \subseteq [org : Org, prefix : Prefix, project : Project]
  /\ deciding \in [Admin -> Decision] /\ polling \in [Poller -> Poll]
  /\ keys \in Seq(KeyRow)

\* A whitelisted directory belongs to one project of its tenant.
ListIsSound ==
  /\ \A r \in whitelist : HomeOf[r.project] = r.org
  /\ \A r, q \in whitelist : r.org = q.org /\ r.prefix = q.prefix => r = q

\* Something granted by an admin for a project of the admin's tenant.
GrantedTo(x) ==
  /\ x.by \in Admin /\ x.org = OrgOf[x.by]
  /\ x.project \in Project /\ HomeOf[x.project] = x.org

\* A row that is opened is new, one that is gone stays gone, and what has been
\* approved says by whom and for what.
RowsAreSound ==
  /\ \A d \in opening : pairings[d] = NoRow
  /\ \A d \in Pairing : pairings[d].status = "gone" => pairings[d].age = "ancient"
  /\ \A d \in Pairing : pairings[d].status \in {"approved", "claimed"} => GrantedTo(pairings[d])

\* Approvals and polls on their way have a pairing, an approval a project of its
\* admin's tenant.
RequestsAreSound ==
  /\ \A a \in Admin : deciding[a].at = "approve" =>
       /\ deciding[a].pairing \in Pairing /\ deciding[a].project \in Project
       /\ HomeOf[deciding[a].project] = OrgOf[a]
  /\ \A w \in Poller : polling[w].at # "rest" => polling[w].pairing \in Pairing

\* What is about to be minted, and every key of a pairing, is as the claimed row says.
Backed(x) ==
  LET row == pairings[x.pairing] IN
  /\ row.status \in {"claimed", "gone"}
  /\ row.org = x.org /\ row.project = x.project /\ row.by = x.by
MintsAreBacked == \A w \in Poller : polling[w].at = "mint" => GrantedTo(polling[w]) /\ Backed(polling[w])
KeysAreBacked ==
  \A i \in DOMAIN keys :
    /\ keys[i].by \in Admin /\ keys[i].org = OrgOf[keys[i].by]
    /\ keys[i].project # Nothing => HomeOf[keys[i].project] = keys[i].org
    /\ keys[i].pairing # Nothing => Backed(keys[i])

\* A pairing is claimed once: by one poll on its way to the mint, or by one key.
ClaimedOnce ==
  /\ \A w, v \in Poller :
       polling[w].at = "mint" /\ polling[v].at = "mint" /\ polling[w].pairing = polling[v].pairing => w = v
  /\ \A i, j \in DOMAIN keys : keys[i].pairing = keys[j].pairing /\ keys[i].pairing # Nothing => i = j
  /\ \A w \in Poller, i \in DOMAIN keys : polling[w].at = "mint" => keys[i].pairing # polling[w].pairing

\* The inductive invariant of pairing.
OnboardInv ==
  /\ OnboardTypeOK /\ ListIsSound /\ RowsAreSound /\ RequestsAreSound
  /\ MintsAreBacked /\ KeysAreBacked /\ ClaimedOnce

\* Nobody has paired yet.
LEMMA OnboardStart == OnboardInit => OnboardInv
<1> SUFFICES ASSUME OnboardInit PROVE OnboardInv
  OBVIOUS
<1>1. /\ \A w \in Poller : polling[w].at = "rest"
      /\ \A a \in Admin : deciding[a].at = "rest"
      /\ \A d \in Pairing : pairings[d].status = "none"
  BY DEF OnboardInit, Rest, Asked, NoRow
<1>2. OnboardTypeOK
  <2>1. NoRow \in Row
    BY DEF NoRow, Row, PairingStatus, SomeOrg, SomeProject, SomeAdmin
  <2>2. Rest \in Decision /\ Rest \in Poll
    BY DEF Rest, Asked, Decision, Poll, SomeOrg, SomeProject, SomeAdmin, SomePairing
  <2>3. << >> \in Seq(KeyRow)
    OBVIOUS
  <2> QED
    BY <2>1, <2>2, <2>3 DEF OnboardTypeOK, OnboardInit
<1>3. keys = << >> /\ whitelist = {} /\ opening = {}
  BY DEF OnboardInit
<1> QED
  BY <1>1, <1>2, <1>3
  DEF OnboardInv, ListIsSound, RowsAreSound, RequestsAreSound, MintsAreBacked, KeysAreBacked, ClaimedOnce

\* An admin's changes to the whitelist keep one project for each directory.
LEMMA ListStep ==
  ASSUME OnboardInv, NEW a \in Admin,
         \/ \E p \in Project, prefix \in Prefix : AddRepo(a, p, prefix)
         \/ \E r \in whitelist : RemoveRepo(a, r)
  PROVE  OnboardInv'
<1> USE OnboardingAssumption DEF OnboardingAssumption
<1>1. UNCHANGED <<pairings, opening, deciding, polling, keys>>
  BY DEF AddRepo, RemoveRepo
<1>2. whitelist' \subseteq [org : Org, prefix : Prefix, project : Project] /\ ListIsSound'
  <2>1. ASSUME NEW p \in Project, NEW prefix \in Prefix, AddRepo(a, p, prefix)
        PROVE  whitelist' \subseteq [org : Org, prefix : Prefix, project : Project] /\ ListIsSound'
    <3> DEFINE row == [org |-> OrgOf[a], prefix |-> prefix, project |-> p]
    <3>1. whitelist' = whitelist \cup {row} /\ HomeOf[p] = OrgOf[a]
      BY <2>1 DEF AddRepo, Belongs
    <3>2. \A r \in whitelist : ~ (r.org = OrgOf[a] /\ r.prefix = prefix)
      BY <2>1 DEF AddRepo, Unclaimed
    <3>3. row \in [org : Org, prefix : Prefix, project : Project] /\ row.org = OrgOf[a]
          /\ row.prefix = prefix /\ row.project = p
      OBVIOUS
    <3> HIDE DEF row
    <3> QED
      BY <3>1, <3>2, <3>3 DEF OnboardInv, OnboardTypeOK, ListIsSound
  <2>2. ASSUME NEW r \in whitelist, RemoveRepo(a, r)
        PROVE  whitelist' \subseteq [org : Org, prefix : Prefix, project : Project] /\ ListIsSound'
    BY <2>2 DEF RemoveRepo, OnboardInv, OnboardTypeOK, ListIsSound
  <2> QED
    BY <2>1, <2>2
<1> QED
  BY <1>1, <1>2
  DEF OnboardInv, OnboardTypeOK, RowsAreSound, RequestsAreSound, MintsAreBacked, KeysAreBacked,
      ClaimedOnce, Backed

\* What a change of one row must keep: a claimed row stays claimed or goes, and
\* says of whom it is.
Keeps(d) ==
  /\ pairings[d].status \in {"claimed", "gone"} => pairings'[d].status \in {"claimed", "gone"}
  /\ pairings[d].status \in {"claimed", "gone"} =>
       <<pairings'[d].org, pairings'[d].project, pairings'[d].by>>
         = <<pairings[d].org, pairings[d].project, pairings[d].by>>

\* Keys and mints lose nothing by steps that keep the rows and touch neither.
LEMMA BackingStays ==
  ASSUME OnboardInv, \A d \in Pairing : Keeps(d), keys' = keys, polling' = polling
  PROVE  MintsAreBacked' /\ KeysAreBacked' /\ ClaimedOnce'
<1>1. \A w \in Poller : polling[w].at = "mint" => polling[w].pairing \in Pairing
  BY DEF OnboardInv, RequestsAreSound
<1>2. \A i \in DOMAIN keys : keys[i].pairing # Nothing => keys[i].pairing \in Pairing
  <2>1. \A i \in DOMAIN keys : keys[i] \in KeyRow
    BY DEF OnboardInv, OnboardTypeOK
  <2> QED
    BY <2>1 DEF KeyRow, SomePairing
<1>3. MintsAreBacked'
  BY <1>1 DEF OnboardInv, MintsAreBacked, Backed, GrantedTo, Keeps
<1>4. KeysAreBacked'
  BY <1>2 DEF OnboardInv, KeysAreBacked, Backed, Keeps
<1>5. ClaimedOnce'
  BY DEF OnboardInv, ClaimedOnce
<1> QED
  BY <1>3, <1>4, <1>5

\* A device opens a pairing; rows age and are pruned.
LEMMA DeviceStep ==
  ASSUME OnboardInv, StartInVain \/ \E d \in Pairing : Gauge(d) \/ Open(d) \/ TimePasses(d)
  PROVE  OnboardInv'
<1> USE OnboardingAssumption DEF OnboardingAssumption
<1>1. UNCHANGED <<whitelist, deciding, polling, keys>>
  BY DEF StartInVain, Gauge, Open, TimePasses
<1>2. /\ pairings' \in [Pairing -> Row] /\ opening' \subseteq Pairing
      /\ RowsAreSound' /\ \A e \in Pairing : Keeps(e)
  <2>1. ASSUME pairings' = Pruned,
               \/ opening' = opening
               \/ \E d \in Pairing : pairings[d] = NoRow /\ opening' = opening \cup {d}
        PROVE  /\ pairings' \in [Pairing -> Row] /\ opening' \subseteq Pairing
               /\ RowsAreSound' /\ \A e \in Pairing : Keeps(e)
    <3>1. \A e \in Pairing : IF pairings[e].age = "ancient"
                             THEN pairings'[e] = [pairings[e] EXCEPT !.status = "gone"]
                             ELSE pairings'[e] = pairings[e]
      BY <2>1 DEF Pruned
    <3>2. \A e \in Pairing : pairings[e] \in Row
      BY DEF OnboardInv, OnboardTypeOK
    <3>3. ASSUME NEW e \in Pairing
          PROVE  /\ pairings'[e] \in Row
                 /\ pairings[e].age # "ancient" => pairings'[e] = pairings[e]
                 /\ pairings[e].age = "ancient" => pairings'[e].status = "gone"
                 /\ pairings'[e].age = pairings[e].age
                 /\ <<pairings'[e].org, pairings'[e].project, pairings'[e].by>>
                      = <<pairings[e].org, pairings[e].project, pairings[e].by>>
      <4>1. CASE pairings[e].age = "ancient"
        <5>1. pairings'[e] = [pairings[e] EXCEPT !.status = "gone"]
          BY <3>1, <4>1
        <5> QED
          BY <3>2, <4>1, <5>1 DEF Row, PairingStatus
      <4>2. CASE pairings[e].age # "ancient"
        BY <3>1, <3>2, <4>2
      <4> QED
        BY <4>1, <4>2
    <3>4. DOMAIN pairings' = Pairing /\ pairings' = [e \in Pairing |-> pairings'[e]]
      BY <2>1 DEF Pruned
    <3>5. pairings' \in [Pairing -> Row]
      BY <3>3, <3>4
    <3>6. NoRow.age # "ancient"
      BY DEF NoRow
    <3>7. RowsAreSound' /\ \A e \in Pairing : Keeps(e)
      BY <2>1, <3>3, <3>6 DEF OnboardInv, OnboardTypeOK, RowsAreSound, GrantedTo, Keeps
    <3> QED
      BY <2>1, <3>5, <3>7 DEF OnboardInv, OnboardTypeOK
  <2>2. ASSUME NEW d \in Pairing, Open(d)
        PROVE  /\ pairings' \in [Pairing -> Row] /\ opening' \subseteq Pairing
               /\ RowsAreSound' /\ \A e \in Pairing : Keeps(e)
    <3>1. PICK path \in Path : pairings' = [pairings EXCEPT ![d] = Opened(path)]
      BY <2>2 DEF Open
    <3>2. Opened(path) \in Row /\ Opened(path).status = "pending"
      BY DEF Opened, Row, PairingStatus, SomeOrg, SomeProject, SomeAdmin
    <3>3. pairings[d].status = "none" /\ opening' = opening \ {d}
      BY <2>2 DEF Open, OnboardInv, RowsAreSound, NoRow
    <3> QED
      BY <3>1, <3>2, <3>3 DEF OnboardInv, OnboardTypeOK, RowsAreSound, GrantedTo, Keeps
  <2>3. ASSUME NEW d \in Pairing, TimePasses(d)
        PROVE  /\ pairings' \in [Pairing -> Row] /\ opening' \subseteq Pairing
               /\ RowsAreSound' /\ \A e \in Pairing : Keeps(e)
    <3>1. PICK age \in {"expired", "ancient"} : pairings' = [pairings EXCEPT ![d].age = age]
      BY <2>3 DEF TimePasses
    <3>2. /\ pairings[d] \in Row /\ pairings[d].status \notin {"none", "gone"}
          /\ opening' = opening /\ d \notin opening
      BY <2>3 DEF TimePasses, OnboardInv, OnboardTypeOK, RowsAreSound, NoRow
    <3>3. pairings' \in [Pairing -> Row]
      BY <3>1, <3>2 DEF OnboardInv, OnboardTypeOK, Row
    <3>4. /\ \A e \in Pairing \ {d} : pairings'[e] = pairings[e]
          /\ pairings'[d].status = pairings[d].status
          /\ <<pairings'[d].org, pairings'[d].project, pairings'[d].by>>
               = <<pairings[d].org, pairings[d].project, pairings[d].by>>
      BY <3>1, <3>2 DEF OnboardInv, OnboardTypeOK, Row
    <3> QED
      BY <3>2, <3>3, <3>4 DEF OnboardInv, OnboardTypeOK, RowsAreSound, GrantedTo, Keeps
  <2> QED
    BY <2>1, <2>2, <2>3 DEF StartInVain, Gauge
<1>3. MintsAreBacked' /\ KeysAreBacked' /\ ClaimedOnce'
  BY <1>1, <1>2, BackingStays
<1> QED
  BY <1>1, <1>2, <1>3 DEF OnboardInv, OnboardTypeOK, ListIsSound, RequestsAreSound

\* An admin derives the project of a pairing, approves it or refuses it.
LEMMA DecisionStep ==
  ASSUME OnboardInv, NEW a \in Admin, Approve(a) \/ \E d \in Pairing : Derive(a, d) \/ Deny(a, d)
  PROVE  OnboardInv'
<1> USE OnboardingAssumption DEF OnboardingAssumption
<1>1. UNCHANGED <<opening, whitelist, polling, keys>>
  BY DEF Derive, Deny, Approve
<1>2. /\ pairings' \in [Pairing -> Row] /\ deciding' \in [Admin -> Decision]
      /\ RowsAreSound' /\ RequestsAreSound' /\ \A e \in Pairing : Keeps(e)
  <2>1. ASSUME NEW d \in Pairing, Derive(a, d)
        PROVE  /\ pairings' \in [Pairing -> Row] /\ deciding' \in [Admin -> Decision]
               /\ RowsAreSound' /\ RequestsAreSound' /\ \A e \in Pairing : Keeps(e)
    <3>1. PICK r \in Longest(OrgOf[a], pairings[d].path) :
            deciding' = [deciding EXCEPT ![a] = Asked("approve", d, r.project)]
      BY <2>1 DEF Derive
    <3>2. r \in whitelist /\ r.org = OrgOf[a]
      BY DEF Longest, Eligible
    <3>3. r.project \in Project /\ HomeOf[r.project] = OrgOf[a]
      BY <3>2 DEF OnboardInv, OnboardTypeOK, ListIsSound
    <3>4. /\ Asked("approve", d, r.project) \in Decision
          /\ Asked("approve", d, r.project).pairing = d
          /\ Asked("approve", d, r.project).project = r.project
      BY <3>3 DEF Asked, Decision, SomeOrg, SomeProject, SomeAdmin, SomePairing
    <3>5. pairings' = pairings
      BY <2>1 DEF Derive
    <3> QED
      BY <1>1, <3>1, <3>3, <3>4, <3>5
      DEF OnboardInv, OnboardTypeOK, RowsAreSound, RequestsAreSound, GrantedTo, Keeps
  <2>2. ASSUME NEW d \in Pairing, Deny(a, d)
        PROVE  /\ pairings' \in [Pairing -> Row] /\ deciding' \in [Admin -> Decision]
               /\ RowsAreSound' /\ RequestsAreSound' /\ \A e \in Pairing : Keeps(e)
    <3>1. pairings[d] \in Row /\ pairings[d].status = "pending" /\ d \notin opening
      BY <2>2 DEF Deny, Deniable, OnboardInv, OnboardTypeOK, RowsAreSound, NoRow
    <3>2. pairings' = [pairings EXCEPT ![d].status = "denied"] /\ deciding' = deciding
      BY <2>2 DEF Deny
    <3>3. pairings' \in [Pairing -> Row]
      BY <3>1, <3>2 DEF OnboardInv, OnboardTypeOK, Row, PairingStatus
    <3>4. pairings'[d].status = "denied" /\ \A e \in Pairing \ {d} : pairings'[e] = pairings[e]
      BY <3>1, <3>2 DEF OnboardInv, OnboardTypeOK, Row
    <3> QED
      BY <1>1, <3>1, <3>2, <3>3, <3>4
      DEF OnboardInv, OnboardTypeOK, RowsAreSound, RequestsAreSound, GrantedTo, Keeps
  <2>3. ASSUME Approve(a)
        PROVE  /\ pairings' \in [Pairing -> Row] /\ deciding' \in [Admin -> Decision]
               /\ RowsAreSound' /\ RequestsAreSound' /\ \A e \in Pairing : Keeps(e)
    <3> DEFINE d == deciding[a].pairing
               row == [status |-> "approved", age |-> pairings[d].age, path |-> pairings[d].path,
                       org |-> OrgOf[a], project |-> deciding[a].project, by |-> a]
    <3>1. d \in Pairing /\ deciding[a].project \in Project /\ HomeOf[deciding[a].project] = OrgOf[a]
      BY <2>3 DEF Approve, OnboardInv, RequestsAreSound
    <3>2. Rest \in Decision /\ Rest.at = "rest"
      BY DEF Rest, Asked, Decision, SomeOrg, SomeProject, SomeAdmin, SomePairing
    <3>3. /\ deciding' = [deciding EXCEPT ![a] = Rest]
          /\ pairings' = IF Approvable(d) THEN [pairings EXCEPT ![d] = row] ELSE pairings
      BY <2>3 DEF Approve
    <3>4. row \in Row /\ row.status = "approved" /\ GrantedTo(row)
      BY <3>1 DEF OnboardInv, OnboardTypeOK, Row, PairingStatus, SomeOrg, SomeProject, SomeAdmin, GrantedTo
    <3>5. Approvable(d) => pairings[d].status = "pending" /\ d \notin opening
      BY DEF Approvable, OnboardInv, RowsAreSound, NoRow
    <3> HIDE DEF d, row
    <3>6. pairings' \in [Pairing -> Row] /\ deciding' \in [Admin -> Decision]
      BY <3>1, <3>2, <3>3, <3>4 DEF OnboardInv, OnboardTypeOK
    <3>7. RequestsAreSound'
      BY <1>1, <3>2, <3>3 DEF OnboardInv, OnboardTypeOK, RequestsAreSound
    <3>8. RowsAreSound' /\ \A e \in Pairing : Keeps(e)
      BY <1>1, <3>1, <3>3, <3>4, <3>5 DEF OnboardInv, OnboardTypeOK, RowsAreSound, GrantedTo, Keeps
    <3> QED
      BY <3>6, <3>7, <3>8
  <2> QED
    BY <2>1, <2>2, <2>3
<1>3. MintsAreBacked' /\ KeysAreBacked' /\ ClaimedOnce'
  BY <1>1, <1>2, BackingStays
<1> QED
  BY <1>1, <1>2, <1>3 DEF OnboardInv, OnboardTypeOK, ListIsSound

\* A poll reads, claims or dies: who claims finds the row approved, which no key
\* and no other claim is about.
LEMMA PollStep ==
  ASSUME OnboardInv, NEW w \in Poller, Claim(w) \/ PollDies(w) \/ \E d \in Pairing : PollRead(w, d)
  PROVE  OnboardInv'
<1> USE OnboardingAssumption DEF OnboardingAssumption
<1>1. UNCHANGED <<opening, whitelist, deciding, keys>>
  BY DEF Claim, PollDies, PollRead
<1>2. CASE PollDies(w) \/ (\E d \in Pairing : PollRead(w, d)) \/ (Claim(w) /\ ~ Claimable(polling[w].pairing))
  <2>1. pairings' = pairings
    BY <1>2 DEF PollDies, PollRead, Claim
  <2>2. PICK p \in Poll : polling' = [polling EXCEPT ![w] = p] /\ p.at # "mint"
                        /\ (p.at # "rest" => p.pairing \in Pairing)
    <3>1. Rest \in Poll /\ Rest.at = "rest"
      BY DEF Rest, Asked, Poll, SomeOrg, SomeProject, SomeAdmin, SomePairing
    <3>2. \A d \in Pairing : Asked("claim", d, Nothing) \in Poll /\ Asked("claim", d, Nothing).at = "claim"
                              /\ Asked("claim", d, Nothing).pairing = d
      BY DEF Asked, Poll, SomeOrg, SomeProject, SomeAdmin, SomePairing
    <3>3. CASE \E d \in Pairing : PollRead(w, d)
      <4>1. PICK d \in Pairing : PollRead(w, d)
        BY <3>3
      <4> DEFINE p == Asked("claim", d, Nothing)
      <4>2. p \in Poll /\ p.at = "claim" /\ p.pairing = d /\ polling' = [polling EXCEPT ![w] = p]
        BY <3>2, <4>1 DEF PollRead
      <4> HIDE DEF p
      <4> QED
        BY <4>2
    <3>4. CASE PollDies(w) \/ (Claim(w) /\ ~ Claimable(polling[w].pairing))
      BY <3>1, <3>4 DEF PollDies, Claim
    <3> QED
      BY <1>2, <3>3, <3>4
  <2>3. \A v \in Poller : polling'[v].at = "mint" => v # w /\ polling'[v] = polling[v]
    BY <2>2 DEF OnboardInv, OnboardTypeOK
  <2>4. OnboardTypeOK' /\ RequestsAreSound'
    BY <1>1, <2>1, <2>2 DEF OnboardInv, OnboardTypeOK, RequestsAreSound
  <2>5. MintsAreBacked' /\ KeysAreBacked' /\ ClaimedOnce'
    BY <1>1, <2>1, <2>3 DEF OnboardInv, MintsAreBacked, KeysAreBacked, ClaimedOnce, Backed, GrantedTo
  <2> QED
    BY <1>1, <2>1, <2>4, <2>5 DEF OnboardInv, ListIsSound, RowsAreSound
<1>3. CASE Claim(w) /\ Claimable(polling[w].pairing)
  <2> DEFINE d == polling[w].pairing
             p == [at |-> "mint", pairing |-> d, project |-> pairings[d].project,
                   org |-> pairings[d].org, by |-> pairings[d].by]
  <2>1. d \in Pairing /\ pairings[d] \in Row /\ pairings[d].status = "approved"
        /\ pairings[d].age = "live" /\ GrantedTo(pairings[d]) /\ d \notin opening
    BY <1>3 DEF Claim, Claimable, OnboardInv, OnboardTypeOK, RequestsAreSound, RowsAreSound, NoRow
  <2>2. pairings' = [pairings EXCEPT ![d].status = "claimed"] /\ polling' = [polling EXCEPT ![w] = p]
    BY <1>3 DEF Claim
  <2>3. p \in Poll
    BY <2>1 DEF Poll, Row, SomePairing
  <2>4. p.at = "mint" /\ p.pairing = d /\ <<p.org, p.project, p.by>> = <<pairings[d].org, pairings[d].project, pairings[d].by>>
    OBVIOUS
  <2> HIDE DEF p, d
  <2>5. pairings' \in [Pairing -> Row]
    BY <2>1, <2>2 DEF OnboardInv, OnboardTypeOK, Row, PairingStatus
  <2>6. /\ pairings'[d].status = "claimed" /\ \A e \in Pairing \ {d} : pairings'[e] = pairings[e]
        /\ <<pairings'[d].org, pairings'[d].project, pairings'[d].by>>
              = <<pairings[d].org, pairings[d].project, pairings[d].by>>
        /\ pairings'[d].age = pairings[d].age
    BY <2>1, <2>2 DEF OnboardInv, OnboardTypeOK, Row
  <2>7. polling'[w] = p /\ \A v \in Poller \ {w} : polling'[v] = polling[v]
    BY <2>2 DEF OnboardInv, OnboardTypeOK
  <2>8. /\ \A v \in Poller : polling[v].at = "mint" => polling[v].pairing # d /\ polling[v].pairing \in Pairing
        /\ \A i \in DOMAIN keys : keys[i].pairing # d
        /\ \A i \in DOMAIN keys : keys[i].pairing # Nothing => keys[i].pairing \in Pairing
    <3>1. \A i \in DOMAIN keys : keys[i] \in KeyRow
      BY DEF OnboardInv, OnboardTypeOK
    <3> QED
      BY <2>1, <3>1 DEF OnboardInv, MintsAreBacked, KeysAreBacked, Backed, RequestsAreSound, KeyRow, SomePairing
  <2>9. OnboardTypeOK'
    BY <1>1, <2>2, <2>3, <2>5 DEF OnboardInv, OnboardTypeOK
  <2>10. RowsAreSound' /\ RequestsAreSound'
    <3>1. RowsAreSound'
      <4>1. \A e \in opening' : pairings'[e] = NoRow
        BY <1>1, <2>1, <2>6 DEF OnboardInv, OnboardTypeOK, RowsAreSound
      <4>2. \A e \in Pairing : pairings'[e].status = "gone" => pairings'[e].age = "ancient"
        BY <2>6 DEF OnboardInv, RowsAreSound
      <4>3. ASSUME NEW e \in Pairing, pairings'[e].status \in {"approved", "claimed"}
            PROVE  GrantedTo(pairings'[e])
        <5>1. CASE e = d
          BY <2>1, <2>6, <5>1 DEF GrantedTo
        <5>2. CASE e # d
          <6>1. pairings'[e] = pairings[e] /\ GrantedTo(pairings[e])
            BY <2>6, <4>3, <5>2 DEF OnboardInv, RowsAreSound
          <6> QED
            BY <6>1
        <5> QED
          BY <5>1, <5>2
      <4> QED
        BY <4>1, <4>2, <4>3 DEF RowsAreSound, GrantedTo
    <3>2. RequestsAreSound'
      BY <1>1, <2>1, <2>4, <2>7 DEF OnboardInv, RequestsAreSound
    <3> QED
      BY <3>1, <3>2
  <2>11. MintsAreBacked'
    <3>1. GrantedTo(p)
      BY <2>1, <2>4 DEF GrantedTo
    <3>2. ASSUME NEW v \in Poller, polling'[v].at = "mint"
          PROVE  /\ GrantedTo(polling'[v]) /\ pairings'[polling'[v].pairing].status \in {"claimed", "gone"}
                 /\ pairings'[polling'[v].pairing].org = polling'[v].org
                 /\ pairings'[polling'[v].pairing].project = polling'[v].project
                 /\ pairings'[polling'[v].pairing].by = polling'[v].by
      <4>1. CASE v = w
        BY <2>4, <2>6, <2>7, <3>1, <4>1
      <4>2. CASE v # w
        BY <2>6, <2>7, <2>8, <3>2, <4>2 DEF OnboardInv, MintsAreBacked, Backed
      <4> QED
        BY <4>1, <4>2
    <3> QED
      BY <3>2 DEF MintsAreBacked, Backed, GrantedTo
  <2>12. KeysAreBacked'
    BY <1>1, <2>6, <2>8 DEF OnboardInv, KeysAreBacked, Backed
  <2>13. ClaimedOnce'
    BY <1>1, <2>4, <2>7, <2>8 DEF OnboardInv, ClaimedOnce
  <2> QED
    BY <1>1, <2>9, <2>10, <2>11, <2>12, <2>13 DEF OnboardInv, ListIsSound
<1> QED
  BY <1>2, <1>3

\* A poll's mint, an admin's key, and a revocation.
LEMMA KeyStep ==
  ASSUME OnboardInv,
         \/ \E w \in Poller : Mint(w)
         \/ \E a \in Admin : \/ \E p \in Project \cup {Nothing} : CreateToken(a, p)
                             \/ \E i \in DOMAIN keys : RevokeToken(a, i)
  PROVE  OnboardInv'
<1> USE OnboardingAssumption DEF OnboardingAssumption
<1>1. UNCHANGED <<pairings, opening, whitelist, deciding>>
  BY DEF Mint, CreateToken, RevokeToken
<1>2. keys \in Seq(KeyRow)
  BY DEF OnboardInv, OnboardTypeOK
<1>3. \A i \in DOMAIN keys : keys[i] \in KeyRow
  BY <1>2
<1>4. ASSUME NEW w \in Poller, Mint(w) PROVE OnboardInv'
  <2> DEFINE k == Key(polling[w].org, polling[w].project, polling[w].by, polling[w].pairing)
  <2>1. keys' = Append(keys, k) /\ polling' = [polling EXCEPT ![w] = Rest] /\ polling[w].at = "mint"
    BY <1>4 DEF Mint
  <2>2. GrantedTo(polling[w]) /\ Backed(polling[w]) /\ polling[w] \in Poll /\ polling[w].pairing \in Pairing
    BY <2>1 DEF OnboardInv, OnboardTypeOK, MintsAreBacked, RequestsAreSound
  <2>3. k \in KeyRow /\ k.pairing = polling[w].pairing /\ k.by = polling[w].by
        /\ k.org = polling[w].org /\ k.project = polling[w].project
    BY <2>2 DEF Key, KeyRow, Poll
  <2>4. Rest \in Poll /\ Rest.at = "rest"
    BY DEF Rest, Asked, Poll, SomeOrg, SomeProject, SomeAdmin, SomePairing
  <2> HIDE DEF k
  <2>5. /\ keys' \in Seq(KeyRow) /\ DOMAIN keys' = 1..Len(keys) + 1 /\ DOMAIN keys = 1..Len(keys)
        /\ keys'[Len(keys) + 1] = k /\ \A i \in DOMAIN keys : keys'[i] = keys[i]
        /\ Len(keys) \in Nat
    BY <1>2, <2>1, <2>3
  <2>6. \A v \in Poller : polling'[v].at = "mint" => v # w /\ polling'[v] = polling[v]
    BY <2>1, <2>4 DEF OnboardInv, OnboardTypeOK
  <2>7. OnboardTypeOK' /\ RequestsAreSound'
    BY <1>1, <2>1, <2>4, <2>5 DEF OnboardInv, OnboardTypeOK, RequestsAreSound
  <2>8. MintsAreBacked'
    BY <1>1, <2>6 DEF OnboardInv, MintsAreBacked, Backed, GrantedTo
  <2>9. \A i \in DOMAIN keys' : i = Len(keys) + 1 \/ i \in DOMAIN keys
    BY <2>5
  <2>10. KeysAreBacked'
    BY <1>1, <2>2, <2>3, <2>5, <2>9 DEF OnboardInv, KeysAreBacked, Backed, GrantedTo
  <2>11. ClaimedOnce'
    <3>1. \A i \in DOMAIN keys : keys[i].pairing # k.pairing
      BY <2>1, <2>3 DEF OnboardInv, ClaimedOnce
    <3>2. \A v \in Poller : polling'[v].at = "mint" => polling'[v].pairing # k.pairing
      BY <2>1, <2>3, <2>6 DEF OnboardInv, ClaimedOnce
    <3> QED
      BY <2>5, <2>6, <2>9, <3>1, <3>2 DEF OnboardInv, ClaimedOnce
  <2> QED
    BY <1>1, <2>7, <2>8, <2>10, <2>11 DEF OnboardInv, ListIsSound, RowsAreSound
<1>5. ASSUME NEW a \in Admin, NEW p \in Project \cup {Nothing}, CreateToken(a, p) PROVE OnboardInv'
  <2> DEFINE k == Key(OrgOf[a], p, a, Nothing)
  <2>1. keys' = Append(keys, k) /\ polling' = polling /\ (p # Nothing => HomeOf[p] = OrgOf[a])
    BY <1>5 DEF CreateToken, Belongs
  <2>2. k \in KeyRow /\ k.pairing = Nothing /\ k.by = a /\ k.org = OrgOf[a] /\ k.project = p
    BY DEF Key, KeyRow, SomeOrg, SomeProject, SomeAdmin, SomePairing
  <2> HIDE DEF k
  <2>3. /\ keys' \in Seq(KeyRow) /\ DOMAIN keys' = 1..Len(keys) + 1 /\ DOMAIN keys = 1..Len(keys)
        /\ keys'[Len(keys) + 1] = k /\ \A i \in DOMAIN keys : keys'[i] = keys[i]
        /\ Len(keys) \in Nat
    BY <1>2, <2>1, <2>2
  <2>4. \A i \in DOMAIN keys' : i = Len(keys) + 1 \/ i \in DOMAIN keys
    BY <2>3
  <2>5. KeysAreBacked'
    BY <1>1, <2>1, <2>2, <2>3, <2>4 DEF OnboardInv, KeysAreBacked, Backed
  <2>6. ClaimedOnce'
    <3>1. \A w \in Poller : polling[w].at = "mint" => polling[w].pairing # Nothing
      BY DEF OnboardInv, RequestsAreSound
    <3> QED
      BY <2>1, <2>2, <2>3, <2>4, <3>1 DEF OnboardInv, ClaimedOnce
  <2> QED
    BY <1>1, <2>1, <2>3, <2>5, <2>6
    DEF OnboardInv, OnboardTypeOK, ListIsSound, RowsAreSound, RequestsAreSound, MintsAreBacked, Backed
<1>6. ASSUME NEW a \in Admin, NEW i \in DOMAIN keys, RevokeToken(a, i) PROVE OnboardInv'
  <2>1. keys' = [keys EXCEPT ![i].revoked = TRUE] /\ polling' = polling
    BY <1>6 DEF RevokeToken
  <2>2. [keys[i] EXCEPT !.revoked = TRUE] \in KeyRow
    BY <1>3 DEF KeyRow
  <2>3. keys' \in Seq(KeyRow) /\ DOMAIN keys' = DOMAIN keys
    BY <1>2, <2>1, <2>2
  <2>4. \A j \in DOMAIN keys : <<keys'[j].org, keys'[j].project, keys'[j].by, keys'[j].pairing>>
                                = <<keys[j].org, keys[j].project, keys[j].by, keys[j].pairing>>
    BY <1>3, <2>1 DEF KeyRow
  <2>5. KeysAreBacked' /\ ClaimedOnce'
    BY <1>1, <2>1, <2>3, <2>4 DEF OnboardInv, KeysAreBacked, ClaimedOnce, Backed
  <2> QED
    BY <1>1, <2>1, <2>3, <2>5
    DEF OnboardInv, OnboardTypeOK, ListIsSound, RowsAreSound, RequestsAreSound, MintsAreBacked, Backed
<1> QED
  BY <1>4, <1>5, <1>6

\* Every step of pairing keeps the invariant.
LEMMA OnboardStep == OnboardInv /\ [OnboardNext]_onboardVars => OnboardInv'
<1> SUFFICES ASSUME OnboardInv, [OnboardNext]_onboardVars PROVE OnboardInv'
  OBVIOUS
<1>1. CASE OnboardNext
  BY <1>1, ListStep, DeviceStep, DecisionStep, PollStep, KeyStep DEF OnboardNext
<1>2. CASE UNCHANGED onboardVars
  BY <1>2
  DEF onboardVars, OnboardInv, OnboardTypeOK, ListIsSound, RowsAreSound, RequestsAreSound,
      MintsAreBacked, KeysAreBacked, ClaimedOnce, Backed
<1> QED
  BY <1>1, <1>2

\* What the invariant says of the keys, of their counts, and of the whitelist.
LEMMA PairingHolds == OnboardInv => OneKeyPerPairing /\ KeyFollowsApproval /\ OneAnswer
<1> SUFFICES ASSUME OnboardInv PROVE OneKeyPerPairing /\ KeyFollowsApproval /\ OneAnswer
  OBVIOUS
<1> USE OnboardingAssumption DEF OnboardingAssumption
<1>1. ASSUME NEW d \in Pairing
      PROVE  Cardinality({i \in DOMAIN keys : keys[i].pairing = d})
               + Cardinality({w \in Poller : polling[w].at = "mint" /\ polling[w].pairing = d}) <= 1
  <2> DEFINE minted == {i \in DOMAIN keys : keys[i].pairing = d}
             minting == {w \in Poller : polling[w].at = "mint" /\ polling[w].pairing = d}
  <2>1. /\ \A i, j \in minted : i = j
        /\ \A w, v \in minting : w = v
        /\ minted = {} \/ minting = {}
    BY DEF OnboardInv, ClaimedOnce
  <2> HIDE DEF minted, minting
  <2>2. Cardinality(minted) \in Nat /\ Cardinality(minted) <= 1
    BY <2>1, AtMostOne
  <2>3. Cardinality(minting) \in Nat /\ Cardinality(minting) <= 1
    BY <2>1, AtMostOne
  <2>4. Cardinality(minted) = 0 \/ Cardinality(minting) = 0
    BY <2>1, FS_EmptySet
  <2>5. Cardinality(minted) + Cardinality(minting) <= 1
    BY <2>2, <2>3, <2>4
  <2> QED
    BY <2>5 DEF minted, minting
<1>2. KeyFollowsApproval
  BY DEF OnboardInv, KeysAreBacked, Backed, KeyFollowsApproval
<1>3. ASSUME NEW o \in Org, NEW path \in Path PROVE Cardinality(Longest(o, path)) <= 1
  <2>1. ASSUME NEW r \in Longest(o, path), NEW q \in Longest(o, path) PROVE r = q
    <3>1. /\ r \in whitelist /\ q \in whitelist /\ r.org = o /\ q.org = o
          /\ IsPrefix(r.prefix, path) /\ IsPrefix(q.prefix, path)
          /\ Len(r.prefix) <= Len(q.prefix) /\ Len(q.prefix) <= Len(r.prefix)
      BY <2>1 DEF Longest, Eligible
    <3>2. r.prefix \in Prefix /\ q.prefix \in Prefix
      BY <3>1 DEF OnboardInv, OnboardTypeOK
    <3>3. \A p \in Prefix : p \in Seq(Range(p)) /\ Len(p) \in Nat /\ p = SubSeq(p, 1, Len(p))
      OBVIOUS
    <3>4. Len(r.prefix) = Len(q.prefix)
      BY <3>1, <3>2, <3>3
    <3>5. r.prefix = q.prefix
      BY <3>1, <3>2, <3>3, <3>4 DEF IsPrefix
    <3> QED
      BY <3>1, <3>5 DEF OnboardInv, ListIsSound
  <2> QED
    BY <2>1, AtMostOne
<1> QED
  BY <1>1, <1>2, <1>3 DEF OneKeyPerPairing, OneAnswer

\* However many admins decide and however many polls race on one device code, what
\* an approval granted is what one device gets (onboard.rs approve and claim), and a
\* checkout has one project (projects.rs find_by_remote).
THEOREM PairingStandsUp == OnboardSpec => []PairingIsHonoured
<1>1. OnboardInv => PairingIsHonoured
  BY PairingHolds DEF PairingIsHonoured
<1> QED
  BY OnboardStart, OnboardStep, <1>1, PTL DEF OnboardSpec

\* The invariant keeps a decision: what is approved or refused is never written again
\* but by its claim and by the pruning.
LEMMA DecisionStands == OnboardInv /\ [OnboardNext]_onboardVars => DecisionIsFinal
<1> SUFFICES ASSUME OnboardInv, [OnboardNext]_onboardVars, NEW d \in Pairing,
                    pairings[d].status \in {"approved", "claimed", "denied"}
             PROVE  /\ pairings'[d].status \in {pairings[d].status, "gone"}
                         \cup (IF pairings[d].status = "approved" THEN {"claimed"} ELSE {})
                    /\ pairings'[d].by = pairings[d].by /\ pairings'[d].project = pairings[d].project
  BY DEF DecisionIsFinal
<1>1. pairings \in [Pairing -> Row] /\ pairings[d] \in Row
  BY DEF OnboardInv, OnboardTypeOK
<1>2. CASE UNCHANGED pairings
  BY <1>2
<1>3. CASE pairings' = Pruned
  BY <1>1, <1>3 DEF Pruned, Row
<1>4. ASSUME NEW e \in Pairing, TimePasses(e) PROVE pairings'[d].status = pairings[d].status
        /\ pairings'[d].by = pairings[d].by /\ pairings'[d].project = pairings[d].project
  BY <1>1, <1>4 DEF TimePasses, Row
<1>5. ASSUME NEW e \in Pairing, Open(e) PROVE pairings'[d] = pairings[d]
  <2>1. pairings[e].status = "none"
    BY <1>5 DEF Open, OnboardInv, RowsAreSound, NoRow
  <2> QED
    BY <1>1, <1>5, <2>1 DEF Open
<1>6. ASSUME NEW a \in Admin, NEW e \in Pairing, Deny(a, e) PROVE pairings'[d] = pairings[d]
  BY <1>1, <1>6 DEF Deny, Deniable
<1>7. ASSUME NEW a \in Admin, Approve(a) PROVE pairings'[d] = pairings[d]
  BY <1>1, <1>7 DEF Approve, Approvable
<1>8. ASSUME NEW w \in Poller, Claim(w)
      PROVE  \/ UNCHANGED pairings
             \/ \E e \in Pairing : Claimable(e) /\ pairings' = [pairings EXCEPT ![e].status = "claimed"]
  BY <1>8 DEF Claim, OnboardInv, RequestsAreSound
<1>9. ASSUME NEW e \in Pairing, Claimable(e), pairings' = [pairings EXCEPT ![e].status = "claimed"]
      PROVE  /\ pairings'[d].by = pairings[d].by /\ pairings'[d].project = pairings[d].project
             /\ \/ pairings'[d].status = pairings[d].status
                \/ pairings[d].status = "approved" /\ pairings'[d].status = "claimed"
  BY <1>1, <1>9 DEF Claimable, Row
<1> QED
  BY <1>2, <1>3, <1>4, <1>5, <1>6, <1>7, <1>8, <1>9
  DEF OnboardNext, onboardVars, AddRepo, RemoveRepo, Derive, CreateToken, RevokeToken, Gauge,
      StartInVain, PollRead, Mint, PollDies

-----------------------------------------------------------------------------
(* The shelf of rules (module Standards). *)

\* The types of the rules and of the requests about them.
Slug == Base \X (Signal \cup {Unmarked})
Lives == {"proposed", "adopted", "deprecated", "rejected"}
Bridged == {"human", "sweep"}
ReadsOf == [asked : Nat, looked : Nat, named : Nat]
Rule == [slug : Slug, origin : Bridged \cup {"agent"}, stack : Stack, text : Wording,
         support : SUBSET Signal, read : ReadsOf, life : Lives, by : Author \cup {Nobody},
         decreed : BOOLEAN, recent : BOOLEAN, fresh : BOOLEAN]
Naming == [op : {"name"}, signal : Signal, origin : Bridged, read : ReadsOf]
Insertion == [op : {"insert"}, new : Rule]
Change == [op : {"update"}, rule : Nat, stack : Stack, text : Wording,
           before : [stack : Stack, text : Wording, life : Lives]]
Asks == {Idle} \cup Naming \cup Insertion \cup Change
Sweeping == [todo : SUBSET Signal, signal : Signal \cup {Unmarked}, stage : {"look", "bridge", "name"},
             read : ReadsOf, found : Seq(Rule)]
Shows == SUBSET (Nat \X Wording)
Looks == [there : BOOLEAN, dirty : BOOLEAN, bumped : BOOLEAN, shows : Shows]

\* The types of the shelf.
ShelfTypeOK ==
  /\ rules \in Seq(Rule) /\ revs \in Seq(Seq(Wording)) /\ Len(revs) = Len(rules)
  /\ request \in [Author -> Asks]
  /\ mining \in Sweeping
  /\ page \in [Stack -> [there : BOOLEAN, dirty : BOOLEAN, bumped : BOOLEAN, shows : Shows]]
  /\ draft \in [Stack -> [rendered : BOOLEAN, shows : Shows]]

\* Bridged or mined, a rule has one signal and a slug of its.
OfOneSignal(p) ==
  p.origin # "agent" =>
    \E s \in Signal : p.support = {s} /\ p.slug \in {<<BaseOf[s], Unmarked>>, <<BaseOf[s], s>>}

\* A plan is a candidate nobody has decided.
IsPlan(p) == p \in Rule /\ p.life = "proposed" /\ ~ p.decreed /\ ~ p.recent /\ ~ p.fresh /\ OfOneSignal(p)

Bare(p) == <<p.slug[1], Unmarked>>
Alike(p, q) == p.origin # "agent" /\ q.origin # "agent" /\ p.support \cap q.support # {}

\* Of a state of the shelf: a slug is in use, or was among its first n rules.
Taken(shelf, slug) == \E r \in DOMAIN shelf : shelf[r].slug = slug
EarlierRule(shelf, n, slug) == \E r \in DOMAIN shelf : r <= n /\ shelf[r].slug = slug

\* What a proposer has heard of a signal still holds: of the rules there were when it
\* looked none speaks, nor for the sweep a rejection there was when it asked.
Heard(shelf, support, origin, read) ==
  /\ read \in ReadsOf /\ read.asked <= read.looked /\ read.looked <= Len(shelf)
  /\ \A q \in DOMAIN shelf :
       shelf[q].origin # "agent" /\ shelf[q].support \cap support # {} /\ q <= read.looked =>
         shelf[q].life = "rejected" /\ (origin = "sweep" /\ q <= read.asked => ~ shelf[q].fresh)

\* A suffixed rule stands beside one with the plain slug.
RulesAreSound ==
  \A r \in DOMAIN rules :
    /\ OfOneSignal(rules[r]) /\ (rules[r].fresh => rules[r].life = "rejected" /\ rules[r].recent)
    /\ rules[r].origin # "agent" /\ rules[r].slug # Bare(rules[r]) => Taken(rules, Bare(rules[r]))
SlugsAreUnique == \A r, q \in DOMAIN rules : rules[r].slug = rules[q].slug => r = q

\* A plan has heard of its signal, and has suffixed its slug because it found the
\* plain one taken.
Posed(shelf, p) ==
  /\ IsPlan(p)
  /\ p.origin # "agent" => /\ Heard(shelf, p.support, p.origin, p.read)
                           /\ p.read.looked <= p.read.named /\ p.read.named <= Len(shelf)
SoundPlan(shelf, p) ==
  /\ Posed(shelf, p)
  /\ p.origin # "agent" /\ p.slug # Bare(p) => EarlierRule(shelf, p.read.named, Bare(p))
RequestsArePlans ==
  \A u \in Author :
    /\ request[u].op = "insert" => SoundPlan(rules, request[u].new)
    /\ request[u].op = "name" => Heard(rules, {request[u].signal}, request[u].origin, request[u].read)

\* The same of the sweep, whose candidates may have found each other's slugs taken.
SoundFinds(shelf, found) ==
  /\ \A i \in DOMAIN found :
       /\ Posed(shelf, found[i]) /\ found[i].origin = "sweep"
       /\ found[i].slug # Bare(found[i]) =>
            \/ EarlierRule(shelf, found[i].read.named, Bare(found[i]))
            \/ \E j \in DOMAIN found : found[j].slug = Bare(found[i])
  /\ \A i, j \in DOMAIN found : Alike(found[i], found[j]) => i = j
SoundSweep(shelf, sweep) ==
  /\ SoundFinds(shelf, sweep.found)
  /\ sweep.signal # Unmarked =>
       /\ Heard(shelf, {sweep.signal}, "sweep", sweep.read)
       /\ \A i \in DOMAIN sweep.found : sweep.signal \notin sweep.found[i].support
SweepIsSound == SoundSweep(rules, mining)

\* A rule says what one of its revisions says, also for those who change it.
TextsAreRevisions ==
  /\ \A r \in DOMAIN rules : rules[r].text \in Range(revs[r])
  /\ \A u \in Author : request[u].op = "update" =>
       request[u].rule \in DOMAIN rules /\ request[u].before.text \in Range(revs[request[u].rule])

\* What is rendered has been adopted, and is a revision.
Ratified(x) ==
  /\ x[1] \in DOMAIN rules /\ rules[x[1]].life \in {"adopted", "deprecated"}
  /\ x[2] \in Range(revs[x[1]])
ShownIsRatified == \A s \in Stack : \A x \in page[s].shows \cup draft[s].shows : Ratified(x)

\* The inductive invariant of the rules' shelf.
ShelfInv ==
  /\ ShelfTypeOK /\ RulesAreSound /\ SlugsAreUnique /\ RequestsArePlans /\ SweepIsSound
  /\ SecondOnlyByOverlap /\ TextsAreRevisions /\ ShownIsRatified /\ DecidedByPeople

\* The sweep that is not at work has the type of one.
LEMMA SleepFacts == Asleep \in Sweeping /\ Asleep.found = << >> /\ Asleep.signal = Unmarked
<1>1. NothingRead \in ReadsOf
  BY DEF NothingRead, ReadsOf
<1>2. << >> \in Seq(Rule)
  OBVIOUS
<1> QED
  BY <1>1, <1>2 DEF Asleep, Sweeping

\* The shelf is empty.
LEMMA ShelfStart == StandardsInit => ShelfInv
<1> SUFFICES ASSUME StandardsInit PROVE ShelfInv
  OBVIOUS
<1> USE StandardsAssumption DEF StandardsAssumption, StandardsInit
<1>1. RuleId = {} /\ Len(rules) = 0 /\ Len(revs) = 0
  BY DEF RuleId
<1>2. \A u \in Author : request[u].op = "idle"
  BY DEF Idle
<1>3. mining.found = << >> /\ DOMAIN mining.found = {} /\ mining.signal = Unmarked
  BY DEF Asleep
<1>4. ShelfTypeOK
  <2>1. rules \in Seq(Rule) /\ revs \in Seq(Seq(Wording))
    OBVIOUS
  <2>2. Asleep \in Sweeping
    BY SleepFacts
  <2>3. NoPage \in [there : BOOLEAN, dirty : BOOLEAN, bumped : BOOLEAN, shows : Shows]
    BY DEF NoPage, Shows
  <2>4. NoDraft \in [rendered : BOOLEAN, shows : Shows]
    BY DEF NoDraft, Shows
  <2> QED
    BY <1>1, <2>1, <2>2, <2>3, <2>4 DEF ShelfTypeOK, Asks
<1>5. ShownIsRatified
  BY DEF ShownIsRatified, NoPage, NoDraft
<1> QED
  BY <1>1, <1>2, <1>3, <1>4, <1>5
  DEF ShelfInv, RulesAreSound, SlugsAreUnique, RequestsArePlans, SweepIsSound, SoundSweep, SoundFinds,
      SecondOnlyByOverlap, TextsAreRevisions, DecidedByPeople

\* What sequences are, said once for the rules and their revisions.
LEMMA ShelfFacts ==
  ASSUME ShelfTypeOK
  PROVE  /\ Len(rules) \in Nat /\ RuleId = DOMAIN rules /\ RuleId = DOMAIN revs /\ RuleId \subseteq Nat
         /\ \A r \in DOMAIN rules : rules[r] \in Rule /\ revs[r] \in Seq(Wording)
         /\ mining.found \in Seq(Rule) /\ \A i \in DOMAIN mining.found : mining.found[i] \in Rule
         /\ mining.read \in ReadsOf
BY DEF ShelfTypeOK, RuleId, Sweeping

\* What is kept of the rules is kept of the plans about them.
LEMMA PlansKept ==
  ASSUME NEW old, NEW new, Len(old) \in Nat, Len(new) \in Nat, Len(old) <= Len(new),
         \A support, origin, read : Heard(old, support, origin, read) => Heard(new, support, origin, read),
         \A n, slug : EarlierRule(old, n, slug) => EarlierRule(new, n, slug)
  PROVE  /\ \A p : SoundPlan(old, p) => SoundPlan(new, p)
         /\ \A sweep : SoundSweep(old, sweep) => SoundSweep(new, sweep)
<1>1. ASSUME NEW p, Posed(old, p) PROVE Posed(new, p)
  <2>1. p.read \in ReadsOf
    BY <1>1 DEF Posed, IsPlan, Rule
  <2>2. p.read.named \in Nat
    BY <2>1 DEF ReadsOf
  <2> QED
    BY <1>1, <2>2 DEF Posed
<1>2. ASSUME NEW p, SoundPlan(old, p) PROVE SoundPlan(new, p)
  BY <1>1, <1>2 DEF SoundPlan
<1>3. ASSUME NEW sweep, SoundSweep(old, sweep) PROVE SoundSweep(new, sweep)
  <2>1. SoundFinds(new, sweep.found)
    BY <1>1, <1>3 DEF SoundSweep, SoundFinds
  <2> QED
    BY <1>3, <2>1 DEF SoundSweep
<1> QED
  BY <1>2, <1>3

\* One row is written: it keeps its name and its signals, does not rise again, what
\* it says is a revision, and who decided it could.  No request but its own and no
\* candidate of the sweep is touched.
RowWritten(r, row) ==
  /\ rules' = [rules EXCEPT ![r] = row] /\ row \in Rule
  /\ row.slug = rules[r].slug /\ row.origin = rules[r].origin /\ row.support = rules[r].support
  /\ row.read = rules[r].read
  /\ rules[r].life = "rejected" => row.life = "rejected" /\ (row.fresh => rules[r].fresh)
  /\ rules[r].life \in {"adopted", "deprecated"} => row.life \in {"adopted", "deprecated"}
  /\ row.fresh => row.life = "rejected" /\ row.recent
  /\ row.life # "proposed" =>
       /\ row.by \in Holders["publish"]
       /\ row.life # "rejected" => row.support # {} \/ row.decreed
RevisionsGrow(r, row) ==
  /\ revs' \in Seq(Seq(Wording)) /\ Len(revs') = Len(revs)
  /\ \A q \in DOMAIN rules : Range(revs[q]) \subseteq Range(revs'[q])
  /\ row.text \in Range(revs'[r])

\* What a write of one rule's row keeps.
LEMMA RowStep ==
  ASSUME ShelfInv, NEW r \in RuleId, NEW row, RowWritten(r, row), RevisionsGrow(r, row),
         request' \in [Author -> Asks],
         \A u \in Author : request'[u] \in {request[u], Idle},
         mining' = mining, draft' = draft,
         page' \in [Stack -> [there : BOOLEAN, dirty : BOOLEAN, bumped : BOOLEAN, shows : Shows]],
         \A s \in Stack : page'[s].shows = page[s].shows
  PROVE  ShelfInv'
<1> DEFINE RowIds == DOMAIN rules
<1>1. ShelfTypeOK /\ r \in RowIds /\ RuleId = RowIds
  BY ShelfFacts DEF ShelfInv
<1>2. rules' \in Seq(Rule) /\ Len(rules') = Len(rules) /\ DOMAIN rules' = RowIds
  BY <1>1 DEF RowWritten, ShelfTypeOK
<1>3. \A q \in RowIds : IF q = r THEN rules'[q] = row ELSE rules'[q] = rules[q]
  BY DEF RowWritten
<1>4. \A q \in RowIds :
        /\ rules'[q].slug = rules[q].slug /\ rules'[q].origin = rules[q].origin
        /\ rules'[q].support = rules[q].support /\ rules'[q].read = rules[q].read
        /\ rules[q].life = "rejected" => rules'[q].life = "rejected" /\ (rules'[q].fresh => rules[q].fresh)
  BY <1>3 DEF RowWritten
<1>5. ShelfTypeOK'
  BY <1>1, <1>2 DEF ShelfTypeOK, RevisionsGrow
<1>6. \A slug : Taken(rules, slug) <=> Taken(rules', slug)
  BY <1>2, <1>4 DEF Taken
<1>7. RulesAreSound' /\ SlugsAreUnique'
  <2>1. RulesAreSound'
    <3>1. ASSUME NEW q \in RowIds
          PROVE  /\ OfOneSignal(rules'[q]) /\ Bare(rules'[q]) = Bare(rules[q])
                 /\ rules'[q].fresh => rules'[q].life = "rejected" /\ rules'[q].recent
      <4>1. OfOneSignal(rules'[q]) /\ Bare(rules'[q]) = Bare(rules[q])
        BY <1>4 DEF ShelfInv, RulesAreSound, OfOneSignal, Bare
      <4>2. rules'[q].fresh => rules'[q].life = "rejected" /\ rules'[q].recent
        BY <1>3 DEF ShelfInv, RulesAreSound, RowWritten
      <4> QED
        BY <4>1, <4>2
    <3> QED
      BY <1>2, <1>4, <1>6, <3>1 DEF ShelfInv, RulesAreSound
  <2>2. SlugsAreUnique'
    BY <1>2, <1>4 DEF ShelfInv, SlugsAreUnique
  <2> QED
    BY <2>1, <2>2
<1>8. \A support, origin, read : Heard(rules, support, origin, read) => Heard(rules', support, origin, read)
  BY <1>2, <1>4 DEF Heard
<1>9. \A n, slug : EarlierRule(rules, n, slug) => EarlierRule(rules', n, slug)
  BY <1>2, <1>4 DEF EarlierRule
<1>10. RequestsArePlans' /\ SweepIsSound'
  <2>1. Len(rules) \in Nat /\ Len(rules') \in Nat /\ Len(rules) <= Len(rules')
    BY <1>1, <1>2, ShelfFacts
  <2>2. ASSUME NEW u \in Author, request'[u].op \in {"insert", "name"} PROVE request'[u] = request[u]
    BY <2>2 DEF Idle
  <2>3. /\ \A p : SoundPlan(rules, p) => SoundPlan(rules', p)
        /\ \A sweep : SoundSweep(rules, sweep) => SoundSweep(rules', sweep)
    BY <1>8, <1>9, <2>1, PlansKept
  <2>4. RequestsArePlans'
    BY <1>8, <2>2, <2>3 DEF ShelfInv, RequestsArePlans
  <2>5. SweepIsSound'
    BY <2>3 DEF ShelfInv, SweepIsSound
  <2> QED
    BY <2>4, <2>5
<1>11. SecondOnlyByOverlap'
  <2>1. RuleId' = RowIds
    BY <1>2, <1>1 DEF RuleId
  <2> QED
    BY <1>1, <1>4, <2>1 DEF ShelfInv, SecondOnlyByOverlap, SameSignal, Minted, Live
<1>12. TextsAreRevisions'
  <2>1. \A q \in RowIds : rules'[q].text \in Range(revs'[q])
    BY <1>3 DEF ShelfInv, TextsAreRevisions, RevisionsGrow
  <2>2. ASSUME NEW u \in Author, request'[u].op = "update"
        PROVE  /\ request'[u].rule \in DOMAIN rules'
               /\ request'[u].before.text \in Range(revs'[request'[u].rule])
    <3>1. request'[u] = request[u]
      BY <2>2 DEF Idle
    <3> QED
      BY <1>2, <2>2, <3>1 DEF ShelfInv, TextsAreRevisions, RevisionsGrow
  <2> QED
    BY <1>2, <2>1, <2>2 DEF TextsAreRevisions
<1>13. ShownIsRatified'
  <2>1. \A x : Ratified(x) => Ratified(x)'
    BY <1>2, <1>3 DEF Ratified, RowWritten, RevisionsGrow
  <2> QED
    BY <2>1 DEF ShelfInv, ShownIsRatified
<1>14. DecidedByPeople'
  <2>1. RuleId' = RowIds
    BY <1>2, <1>1 DEF RuleId
  <2> QED
    BY <1>1, <1>3, <2>1 DEF ShelfInv, DecidedByPeople, RowWritten
<1> QED
  BY <1>5, <1>7, <1>10, <1>11, <1>12, <1>13, <1>14 DEF ShelfInv

\* A step that only plans: the shelf, its pages and what was rendered stay.
LEMMA PlanStep ==
  ASSUME ShelfInv, UNCHANGED <<rules, revs, page, draft>>, ShelfTypeOK',
         RequestsArePlans', SweepIsSound',
         \A u \in Author : request'[u].op = "update" =>
           request'[u].rule \in DOMAIN rules /\ request'[u].before.text \in Range(revs[request'[u].rule])
  PROVE  ShelfInv'
BY DEF ShelfInv, RulesAreSound, SlugsAreUnique, SecondOnlyByOverlap, SameSignal, Minted, TextsAreRevisions,
       ShownIsRatified, Ratified, DecidedByPeople, RuleId, Live

\* A step of the pages alone.
LEMMA PageStep ==
  ASSUME ShelfInv, UNCHANGED <<rules, revs, request, mining>>, ShelfTypeOK',
         \A s \in Stack : \A x \in page'[s].shows \cup draft'[s].shows : Ratified(x)
  PROVE  ShelfInv'
<1>1. ShownIsRatified'
  <2>1. \A x : Ratified(x)' <=> Ratified(x)
    BY DEF Ratified
  <2> QED
    BY <2>1 DEF ShownIsRatified
<1> QED
  BY <1>1 DEF ShelfInv, RulesAreSound, SlugsAreUnique, RequestsArePlans, SweepIsSound, SecondOnlyByOverlap,
              SameSignal, Minted, TextsAreRevisions, DecidedByPeople, RuleId, Live

\* What a shelf is after an insertion: the rules there were, then the new ones.
LEMMA ShelfJoined ==
  ASSUME NEW old, NEW new, NEW S, old \in Seq(S), new \in Seq(S)
  PROVE  /\ old \o new \in Seq(S) /\ Len(old \o new) = Len(old) + Len(new)
         /\ DOMAIN old \subseteq DOMAIN (old \o new)
         /\ \A r \in DOMAIN old : (old \o new)[r] = old[r]
         /\ \A i \in DOMAIN new : Len(old) + i \in DOMAIN (old \o new) /\ (old \o new)[Len(old) + i] = new[i]
         /\ \A r \in DOMAIN (old \o new) : r \in DOMAIN old \/ \E i \in DOMAIN new : r = Len(old) + i
         /\ Len(old) \in Nat /\ DOMAIN old = 1..Len(old)
<1>1. Len(old) \in Nat /\ Len(new) \in Nat /\ DOMAIN old = 1..Len(old) /\ DOMAIN new = 1..Len(new)
  OBVIOUS
<1>2. old \o new \in Seq(S) /\ Len(old \o new) = Len(old) + Len(new)
  OBVIOUS
<1>3. DOMAIN (old \o new) = 1..(Len(old) + Len(new))
  BY <1>2
<1>4. \A r \in DOMAIN (old \o new) : (old \o new)[r] = IF r <= Len(old) THEN old[r] ELSE new[r - Len(old)]
  BY <1>1, <1>3
<1>5. \A i \in DOMAIN new : Len(old) + i \in DOMAIN (old \o new) /\ (old \o new)[Len(old) + i] = new[i]
  BY <1>1, <1>3, <1>4
<1>6. ASSUME NEW r \in DOMAIN (old \o new), r \notin DOMAIN old PROVE \E i \in DOMAIN new : r = Len(old) + i
  <2>1. r - Len(old) \in DOMAIN new /\ r = Len(old) + (r - Len(old))
    BY <1>1, <1>3, <1>6
  <2> QED
    BY <2>1
<1> QED
  BY <1>1, <1>2, <1>3, <1>4, <1>5, <1>6

\* Rules that are inserted together: plans whose slugs are free, of different signals.
Insertable(new) ==
  /\ new \in Seq(Rule)
  /\ \A i \in DOMAIN new :
       /\ Posed(rules, new[i]) /\ ~ Taken(rules, new[i].slug)
       /\ new[i].origin # "agent" /\ new[i].slug # Bare(new[i]) =>
            \/ EarlierRule(rules, new[i].read.named, Bare(new[i]))
            \/ \E j \in DOMAIN new : new[j].slug = Bare(new[i])
  /\ \A i, j \in DOMAIN new : new[i].slug = new[j].slug => i = j
  /\ \A i, j \in DOMAIN new : Alike(new[i], new[j]) => i = j

\* Two rules of one signal with different slugs: one of them has the other's plain slug.
LEMMA SlugsMeet ==
  ASSUME NEW p, NEW q, OfOneSignal(p), OfOneSignal(q), Alike(p, q), p.slug # q.slug
  PROVE  \/ p.slug # Bare(p) /\ q.slug = Bare(p)
         \/ q.slug # Bare(q) /\ p.slug = Bare(q)
<1>1. PICK s \in Signal : p.support = {s} /\ p.slug \in {<<BaseOf[s], Unmarked>>, <<BaseOf[s], s>>}
  BY DEF OfOneSignal, Alike
<1>2. PICK t \in Signal : q.support = {t} /\ q.slug \in {<<BaseOf[t], Unmarked>>, <<BaseOf[t], t>>}
  BY DEF OfOneSignal, Alike
<1>3. s = t
  BY <1>1, <1>2 DEF Alike
<1> QED
  BY <1>1, <1>2, <1>3 DEF Bare

\* A rule of the signal that is there when another is inserted was there when the
\* other chose its slug, and if it speaks, came after the other had looked for one.
LEMMA OnlyOverlaps ==
  ASSUME ShelfInv, NEW new, Insertable(new), NEW i \in DOMAIN new, NEW q \in DOMAIN rules, Alike(rules[q], new[i])
  PROVE  /\ q <= new[i].read.named
         /\ q <= new[i].read.looked =>
              rules[q].life = "rejected" /\ (new[i].origin = "sweep" /\ q <= new[i].read.asked => ~ rules[q].fresh)
<1> DEFINE p == new[i]
<1>1. Posed(rules, p) /\ IsPlan(p) /\ OfOneSignal(p) /\ ~ Taken(rules, p.slug) /\ p.origin # "agent"
  BY DEF Insertable, Posed, IsPlan, Alike
<1>2. OfOneSignal(rules[q]) /\ rules[q].slug # p.slug
  BY <1>1 DEF ShelfInv, RulesAreSound, Taken
<1>3. ~ (rules[q].slug # Bare(rules[q]) /\ p.slug = Bare(rules[q]))
  BY <1>1 DEF ShelfInv, RulesAreSound, Alike
<1> HIDE DEF p
<1>4. p.slug # Bare(p) /\ rules[q].slug = Bare(p)
  <2>1. Alike(rules[q], p)
    BY DEF p
  <2> QED
    BY <1>1, <1>2, <1>3, <2>1, SlugsMeet
<1>5. EarlierRule(rules, p.read.named, Bare(p)) \/ \E j \in DOMAIN new : new[j].slug = Bare(p)
  BY <1>1, <1>4 DEF Insertable, p
<1>6. ~ \E j \in DOMAIN new : new[j].slug = Bare(p)
  BY <1>4 DEF Insertable, Taken
<1>7. q <= p.read.named
  BY <1>4, <1>5, <1>6 DEF EarlierRule, ShelfInv, SlugsAreUnique
<1> QED
  BY <1>1, <1>7 DEF Posed, Heard, Alike, p

\* What is inserted keeps the shelf in order, and asks nobody again.
LEMMA ShelfInsertStep ==
  ASSUME ShelfInv, NEW new, Insertable(new),
         rules' = rules \o new, revs' = revs \o [i \in DOMAIN new |-> <<new[i].text>>],
         request' \in [Author -> Asks],
         \A u \in Author : request'[u] \in {request[u], Idle},
         mining' \in {mining, Asleep}, page' = page, draft' = draft
  PROVE  ShelfInv' /\ RejectionIsRespected
<1> DEFINE n == Len(rules)
           texts == [i \in DOMAIN new |-> <<new[i].text>>]
<1>1. ShelfTypeOK /\ rules \in Seq(Rule) /\ new \in Seq(Rule) /\ revs \in Seq(Seq(Wording)) /\ Len(revs) = n
  BY DEF ShelfInv, ShelfTypeOK, Insertable
<1>1a. \A i \in DOMAIN new : new[i] \in Rule /\ new[i].read \in ReadsOf
  <2>1. \A i \in DOMAIN new : new[i] \in Rule
    BY <1>1
  <2> QED
    BY <2>1 DEF Rule
<1>2. /\ \A r \in DOMAIN rules : r \in DOMAIN rules' /\ rules'[r] = rules[r]
      /\ \A i \in DOMAIN new : n + i \in DOMAIN rules' /\ rules'[n + i] = new[i]
      /\ \A r \in DOMAIN rules' : r \in DOMAIN rules \/ \E i \in DOMAIN new : r = n + i
  BY <1>1, ShelfJoined
<1>2a. rules' \in Seq(Rule) /\ Len(rules') = n + Len(new) /\ n \in Nat /\ DOMAIN rules = 1..n
  BY <1>1, ShelfJoined
<1>3. texts \in Seq(Seq(Wording)) /\ Len(texts) = Len(new) /\ DOMAIN texts = DOMAIN new
  <2>1. \A i \in DOMAIN new : <<new[i].text>> \in Seq(Wording)
    <3>1. \A i \in DOMAIN new : new[i] \in Rule
      BY <1>1
    <3>2. \A i \in DOMAIN new : new[i].text \in Wording
      BY <3>1 DEF Rule
    <3> QED
      BY <3>2
  <2>2. DOMAIN new = 1..Len(new) /\ Len(new) \in Nat
    BY <1>1
  <2> QED
    BY <2>1, <2>2
<1>4. /\ \A r \in DOMAIN revs : r \in DOMAIN revs' /\ revs'[r] = revs[r]
      /\ \A i \in DOMAIN texts : Len(revs) + i \in DOMAIN revs' /\ revs'[Len(revs) + i] = texts[i]
      /\ revs' \in Seq(Seq(Wording)) /\ Len(revs') = Len(revs) + Len(texts)
  <2>1. revs' = revs \o texts
    OBVIOUS
  <2> HIDE DEF texts
  <2>2. /\ revs \o texts \in Seq(Seq(Wording)) /\ Len(revs \o texts) = Len(revs) + Len(texts)
        /\ DOMAIN revs \subseteq DOMAIN (revs \o texts)
        /\ \A r \in DOMAIN revs : (revs \o texts)[r] = revs[r]
        /\ \A i \in DOMAIN texts : Len(revs) + i \in DOMAIN (revs \o texts)
                                   /\ (revs \o texts)[Len(revs) + i] = texts[i]
    <3> DEFINE Words == Seq(Wording)
    <3>1. revs \in Seq(Words) /\ texts \in Seq(Words)
      BY <1>1, <1>3
    <3> HIDE DEF Words
    <3>2. revs \o texts \in Seq(Words)
      BY <3>1, ShelfJoined
    <3> QED
      BY <3>1, <3>2, ShelfJoined, SMTT(30) DEF Words
  <2> QED
    BY <2>1, <2>2
<1>5. DOMAIN revs = DOMAIN rules
  BY <1>1, <1>2a
<1>6. \A i \in DOMAIN new : revs'[n + i] = <<new[i].text>>
  BY <1>1, <1>3, <1>4
<1>7. \A i \in DOMAIN new : n + i \notin DOMAIN rules
  <2>1. DOMAIN new = 1..Len(new) /\ Len(new) \in Nat
    BY <1>1
  <2> QED
    BY <1>2a, <2>1
<1> HIDE DEF n, texts
<1>8. ShelfTypeOK'
  BY <1>1, <1>2a, <1>3, <1>4, SleepFacts DEF ShelfTypeOK
<1>9. \A r \in DOMAIN rules' : r \notin DOMAIN rules => \E i \in DOMAIN new : r = n + i /\ rules'[r] = new[i]
  BY <1>2
<1>10. /\ \A slug : Taken(rules, slug) => Taken(rules', slug)
       /\ \A i \in DOMAIN new : Taken(rules', new[i].slug)
  <2>1. \A i \in DOMAIN new : n + i \in DOMAIN rules' /\ rules'[n + i].slug = new[i].slug
    BY <1>2
  <2> QED
    BY <1>2, <2>1 DEF Taken
<1>11. RulesAreSound'
  <2>1. ASSUME NEW i \in DOMAIN new, new[i].origin # "agent", new[i].slug # Bare(new[i])
        PROVE  Taken(rules', Bare(new[i]))
    <3>1. CASE EarlierRule(rules, new[i].read.named, Bare(new[i]))
      BY <1>10, <3>1 DEF EarlierRule, Taken
    <3>2. CASE \E j \in DOMAIN new : new[j].slug = Bare(new[i])
      BY <1>10, <3>2
    <3> QED
      BY <2>1, <3>1, <3>2 DEF Insertable
  <2>2. ASSUME NEW r \in DOMAIN rules', r \notin DOMAIN rules
        PROVE  /\ OfOneSignal(rules'[r]) /\ ~ rules'[r].fresh
               /\ rules'[r].origin # "agent" /\ rules'[r].slug # Bare(rules'[r]) => Taken(rules', Bare(rules'[r]))
    BY <1>9, <2>1, <2>2 DEF Insertable, Posed, IsPlan
  <2>3. ASSUME NEW r \in DOMAIN rules
        PROVE  /\ OfOneSignal(rules'[r]) /\ (rules'[r].fresh => rules'[r].life = "rejected" /\ rules'[r].recent)
               /\ rules'[r].origin # "agent" /\ rules'[r].slug # Bare(rules'[r]) => Taken(rules', Bare(rules'[r]))
    BY <1>2, <1>10 DEF ShelfInv, RulesAreSound
  <2> QED
    BY <2>2, <2>3 DEF RulesAreSound
<1>11a. SlugsAreUnique'
  <2>1. ASSUME NEW r \in DOMAIN rules', NEW q \in DOMAIN rules', rules'[r].slug = rules'[q].slug PROVE r = q
    <3>1. CASE r \in DOMAIN rules /\ q \in DOMAIN rules
      BY <1>2, <2>1, <3>1 DEF ShelfInv, SlugsAreUnique
    <3>2. ASSUME NEW x \in DOMAIN rules, NEW y \in DOMAIN rules', y \notin DOMAIN rules PROVE rules'[x].slug # rules'[y].slug
      BY <1>2, <1>9, <3>2 DEF Insertable, Taken
    <3>3. CASE r \notin DOMAIN rules /\ q \notin DOMAIN rules
      BY <1>9, <2>1, <3>3 DEF Insertable
    <3> QED
      BY <2>1, <3>1, <3>2, <3>3
  <2> QED
    BY <2>1 DEF SlugsAreUnique
<1>12. RequestsArePlans' /\ SweepIsSound'
  <2>1. Len(rules) \in Nat /\ Len(rules') \in Nat /\ Len(rules) <= Len(rules')
    BY <1>1, <1>2a DEF n
  <2>2. \A r \in DOMAIN rules' : r \notin DOMAIN rules => r > Len(rules)
    <3>1. DOMAIN new = 1..Len(new) /\ Len(new) \in Nat
      BY <1>1
    <3> QED
      BY <1>9, <2>1, <3>1 DEF n
  <2>3. ASSUME NEW support, NEW origin, NEW read, Heard(rules, support, origin, read)
        PROVE  Heard(rules', support, origin, read)
    <3>1. read \in ReadsOf /\ read.looked \in Nat /\ read.looked <= Len(rules) /\ read.asked <= read.looked
      BY <2>3 DEF Heard, ReadsOf
    <3> QED
      BY <1>2, <2>1, <2>2, <2>3, <3>1 DEF Heard
  <2>4. \A k, slug : EarlierRule(rules, k, slug) => EarlierRule(rules', k, slug)
    BY <1>2 DEF EarlierRule
  <2>5. ASSUME NEW u \in Author, request'[u].op \in {"insert", "name"} PROVE request'[u] = request[u]
    BY <2>5 DEF Idle
  <2>6. RequestsArePlans'
    BY <2>1, <2>3, <2>4, <2>5, PlansKept DEF ShelfInv, RequestsArePlans
  <2>7. SweepIsSound'
    <3>1. SoundSweep(rules', mining)
      BY <2>1, <2>3, <2>4, PlansKept DEF ShelfInv, SweepIsSound
    <3>2. SoundSweep(rules', Asleep)
      BY SleepFacts DEF SoundSweep, SoundFinds
    <3> QED
      BY <3>1, <3>2 DEF SweepIsSound
  <2> QED
    BY <2>6, <2>7
<1>13. SecondOnlyByOverlap'
  <2>1. RuleId' = DOMAIN rules' /\ RuleId = DOMAIN rules
    BY <1>1, <1>2a DEF RuleId
  <2>2. ASSUME NEW q \in DOMAIN rules', NEW r \in DOMAIN rules', q < r, Alike(rules'[q], rules'[r])
        PROVE  q <= rules'[r].read.named /\ (rules'[q].life # "rejected" => rules'[r].read.looked < q)
    <3>1. CASE r \in DOMAIN rules
      <4>1. q \in DOMAIN rules
        BY <1>2a, <2>2, <3>1
      <4> QED
        BY <1>2, <2>1, <2>2, <3>1, <4>1 DEF ShelfInv, SecondOnlyByOverlap, SameSignal, Minted, Alike, Live
    <3>2. CASE q \in DOMAIN rules /\ r \notin DOMAIN rules
      <4>1. PICK i \in DOMAIN new : rules'[r] = new[i]
        BY <1>9, <3>2
      <4>2. Alike(rules[q], new[i]) /\ rules'[q] = rules[q]
        BY <1>2, <2>2, <3>2, <4>1
      <4>3. new[i].read \in ReadsOf /\ q \in Nat
        BY <1>1a, <1>2a, <3>2
      <4> QED
        BY <3>2, <4>1, <4>2, <4>3, OnlyOverlaps DEF ReadsOf
    <3>3. CASE q \notin DOMAIN rules /\ r \notin DOMAIN rules
      BY <1>9, <2>2, <3>3 DEF Insertable
    <3> QED
      BY <3>1, <3>2, <3>3
  <2> QED
    BY <2>1, <2>2 DEF SecondOnlyByOverlap, SameSignal, Minted, Alike, Live
<1>14. TextsAreRevisions'
  <2>1. \A r \in DOMAIN rules' : rules'[r].text \in Range(revs'[r])
    <3>1. \A r \in DOMAIN rules : rules'[r].text \in Range(revs'[r])
      BY <1>2, <1>4, <1>5 DEF ShelfInv, TextsAreRevisions
    <3>2. \A i \in DOMAIN new : rules'[n + i].text \in Range(revs'[n + i])
      <4>1. \A text : text \in Range(<<text>>)
        BY DEF Range
      <4> QED
        BY <1>2, <1>6, <4>1
    <3> QED
      BY <1>2, <3>1, <3>2
  <2>2. ASSUME NEW u \in Author, request'[u].op = "update"
        PROVE  /\ request'[u].rule \in DOMAIN rules'
               /\ request'[u].before.text \in Range(revs'[request'[u].rule])
    <3>1. request'[u] = request[u]
      BY <2>2 DEF Idle
    <3> QED
      BY <1>2, <1>4, <1>5, <2>2, <3>1 DEF ShelfInv, TextsAreRevisions
  <2> QED
    BY <2>1, <2>2 DEF TextsAreRevisions
<1>15. ShownIsRatified'
  <2>1. \A x : Ratified(x) => Ratified(x)'
    BY <1>2, <1>4, <1>5 DEF Ratified
  <2> QED
    BY <2>1 DEF ShelfInv, ShownIsRatified
<1>16. DecidedByPeople'
  <2>1. RuleId' = DOMAIN rules' /\ RuleId = DOMAIN rules
    BY <1>1, <1>8 DEF RuleId, ShelfTypeOK
  <2>2. \A i \in DOMAIN new : new[i].life = "proposed"
    BY DEF Insertable, Posed, IsPlan
  <2>3. \A r \in DOMAIN rules' : rules'[r].life # "proposed" => r \in DOMAIN rules /\ rules'[r] = rules[r]
    BY <1>2, <2>2
  <2> QED
    BY <2>1, <2>3 DEF ShelfInv, DecidedByPeople
<1>17. RejectionIsRespected
  <2>1. RuleId = DOMAIN rules
    BY <1>1 DEF RuleId
  <2>2. ASSUME NEW i \in DOMAIN new, new[i].origin = "sweep", NEW q \in DOMAIN rules, Minted(q),
               rules[q].fresh, rules[q].support \cap new[i].support # {}
        PROVE  new[i].read.asked < q /\ q <= new[i].read.named
    <3>1. Alike(rules[q], new[i])
      BY <2>2 DEF Alike, Minted
    <3>2. new[i].read \in ReadsOf /\ q \in Nat /\ new[i].read.asked <= new[i].read.looked
      BY <1>1a, <1>2a, <2>2 DEF Insertable, Posed, Heard
    <3> QED
      BY <2>2, <3>1, <3>2, OnlyOverlaps DEF ReadsOf
  <2> QED
    BY <1>9, <2>1, <2>2 DEF RejectionIsRespected
<1>18. ShelfInv'
  BY <1>8, <1>11, <1>11a, <1>12, <1>13, <1>14, <1>15, <1>16 DEF ShelfInv
<1> QED
  BY <1>17, <1>18

\* Marking pages changes nothing that they show.
LEMMA MarkingStays ==
  ASSUME ShelfTypeOK, NEW stacks
  PROVE  Marked(stacks) \in [Stack -> Looks] /\ \A s \in Stack : Marked(stacks)[s].shows = page[s].shows
<1>1. ASSUME NEW s \in Stack
      PROVE  page[s] \in Looks /\ [page[s] EXCEPT !.dirty = TRUE] \in Looks
             /\ [page[s] EXCEPT !.dirty = TRUE].shows = page[s].shows
  <2>1. page[s] \in Looks
    BY DEF ShelfTypeOK, Looks
  <2> QED
    BY <2>1 DEF Looks
<1> QED
  BY <1>1 DEF Marked

\* A maintainer's decision, and the window that closes after one.
LEMMA GateStep ==
  ASSUME ShelfInv, NEW r \in RuleId,
         \/ WindowPasses(r)
         \/ \E u \in Author : Deprecate(u, r) \/ Reject(u, r) \/ \E decree \in BOOLEAN : Adopt(u, r, decree)
  PROVE  ShelfInv'
<1> USE StandardsAssumption DEF StandardsAssumption
<1>1. /\ ShelfTypeOK /\ rules[r] \in Rule /\ r \in DOMAIN rules /\ RuleId = DOMAIN rules
      /\ rules[r].text \in Range(revs[r])
      /\ (rules[r].fresh => rules[r].life = "rejected" /\ rules[r].recent)
  BY ShelfFacts DEF ShelfInv, TextsAreRevisions, RulesAreSound
<1>2. UNCHANGED <<revs, request, mining, draft>>
  BY DEF WindowPasses, Deprecate, Reject, Adopt
<1>2a. page' \in [Stack -> Looks] /\ \A s \in Stack : page'[s].shows = page[s].shows
  <2>1. page' = page \/ \E stacks : page' = Marked(stacks)
    BY DEF WindowPasses, Deprecate, Reject, Adopt
  <2> QED
    BY <1>1, <2>1, MarkingStays DEF ShelfTypeOK, Looks
<1>3. \E row : RowWritten(r, row) /\ row.text = rules[r].text
  <2>1. CASE WindowPasses(r)
    <3> DEFINE row == Lately(rules[r], FALSE)
    <3>1. /\ row \in Rule /\ ~ row.fresh
          /\ row.slug = rules[r].slug /\ row.origin = rules[r].origin /\ row.support = rules[r].support
          /\ row.read = rules[r].read /\ row.life = rules[r].life /\ row.by = rules[r].by /\ row.decreed = rules[r].decreed
          /\ row.text = rules[r].text
      BY <1>1 DEF Lately, Rule
    <3>2. rules' = [rules EXCEPT ![r] = row]
      BY <2>1 DEF WindowPasses
    <3> HIDE DEF row
    <3> QED
      BY <1>1, <3>1, <3>2 DEF RowWritten, ShelfInv, DecidedByPeople
  <2>2. ASSUME NEW u \in Author, NEW life \in {"deprecated", "rejected"},
               rules[r].life # "rejected", life = "rejected" => rules[r].life = "proposed",
               life = "deprecated" => rules[r].life = "adopted",
               u \in Holders["publish"],
               rules' = [rules EXCEPT ![r] = IF life = "rejected" THEN Lately(Decided(r, life, u), TRUE)
                                                                  ELSE Decided(r, life, u)]
        PROVE  \E row : RowWritten(r, row) /\ row.text = rules[r].text
    <3> DEFINE decided == Decided(r, life, u)
               row == IF life = "rejected" THEN Lately(decided, TRUE) ELSE decided
    <3>1. /\ decided \in Rule /\ decided.fresh = rules[r].fresh
          /\ decided.slug = rules[r].slug /\ decided.origin = rules[r].origin
          /\ decided.support = rules[r].support /\ decided.read = rules[r].read
          /\ decided.life = life /\ decided.by = u /\ decided.decreed = rules[r].decreed
          /\ decided.text = rules[r].text
      BY <1>1 DEF Decided, Rule, Lives
    <3>2. /\ row \in Rule /\ (row.fresh => (life = "rejected" /\ row.recent) \/ rules[r].fresh)
          /\ row.slug = rules[r].slug /\ row.origin = rules[r].origin /\ row.support = rules[r].support
          /\ row.read = rules[r].read /\ row.life = life /\ row.by = u /\ row.decreed = rules[r].decreed
          /\ row.text = rules[r].text
      <4> HIDE DEF decided
      <4> QED
        BY <3>1 DEF Lately, Rule
    <3>3. rules' = [rules EXCEPT ![r] = row]
      BY <2>2
    <3> HIDE DEF row, decided
    <3> QED
      BY <1>1, <2>2, <3>2, <3>3 DEF RowWritten, ShelfInv, DecidedByPeople
  <2>3. ASSUME NEW u \in Author, NEW decree \in BOOLEAN, Adopt(u, r, decree)
        PROVE  \E row : RowWritten(r, row) /\ row.text = rules[r].text
    <3> DEFINE decided == Decided(r, "adopted", u)
               row == [decided EXCEPT !.decreed = @ \/ decree]
    <3>1. /\ decided \in Rule /\ decided.fresh = rules[r].fresh
          /\ decided.slug = rules[r].slug /\ decided.origin = rules[r].origin
          /\ decided.support = rules[r].support /\ decided.read = rules[r].read
          /\ decided.life = "adopted" /\ decided.by = u /\ decided.decreed = rules[r].decreed
          /\ decided.text = rules[r].text
      BY <1>1 DEF Decided, Rule, Lives
    <3>2. /\ row \in Rule /\ row.fresh = rules[r].fresh
          /\ row.slug = rules[r].slug /\ row.origin = rules[r].origin /\ row.support = rules[r].support
          /\ row.read = rules[r].read /\ row.life = "adopted" /\ row.by = u /\ (row.decreed <=> rules[r].decreed \/ decree)
          /\ row.text = rules[r].text
      <4> HIDE DEF decided
      <4> QED
        BY <1>1, <3>1 DEF Rule
    <3>3. rules' = [rules EXCEPT ![r] = row] /\ rules[r].life = "proposed" /\ u \in Holders["publish"]
          /\ (decree \/ rules[r].support # {} \/ rules[r].decreed)
      BY <2>3 DEF Adopt, MayDecide, Attributed
    <3> HIDE DEF row, decided
    <3> QED
      BY <1>1, <3>2, <3>3 DEF RowWritten
  <2>4. ASSUME NEW u \in Author, Deprecate(u, r) \/ Reject(u, r)
        PROVE  \E row : RowWritten(r, row) /\ row.text = rules[r].text
    <3>1. CASE Deprecate(u, r)
      BY <2>2, <3>1 DEF Deprecate, MayDecide
    <3>2. CASE Reject(u, r)
      BY <2>2, <3>2 DEF Reject, MayDecide
    <3> QED
      BY <2>4, <3>1, <3>2
  <2> QED
    BY <2>1, <2>3, <2>4
<1>4. PICK row : RowWritten(r, row) /\ row.text = rules[r].text
  BY <1>3
<1>5. RevisionsGrow(r, row)
  BY <1>1, <1>2, <1>4 DEF RevisionsGrow, ShelfTypeOK
<1>6. request' \in [Author -> Asks]
  BY <1>1, <1>2 DEF ShelfTypeOK
<1> QED
  BY <1>2, <1>2a, <1>4, <1>5, <1>6, RowStep DEF Looks

\* An edit that was read earlier is written, whatever became of the rule since.
LEMMA WriteStep ==
  ASSUME ShelfInv, NEW u \in Author, WriteEdit(u)
  PROVE  ShelfInv'
<1> USE StandardsAssumption DEF StandardsAssumption
<1> DEFINE e == request[u]  r == e.rule
<1>1. /\ ShelfTypeOK /\ RuleId = DOMAIN rules /\ RuleId = DOMAIN revs /\ e.op = "update" /\ e \in Change
      /\ r \in DOMAIN rules /\ rules[r] \in Rule /\ revs[r] \in Seq(Wording)
      /\ e.before.text \in Range(revs[r])
      /\ (rules[r].fresh => rules[r].life = "rejected" /\ rules[r].recent)
  <2>1. e.op = "update" /\ ShelfTypeOK
    BY DEF WriteEdit, ShelfInv
  <2>2. e \in Change
    <3>1. request[u] \in Asks
      BY <2>1 DEF ShelfTypeOK
    <3> QED
      BY <2>1, <3>1 DEF Asks, Naming, Insertion, Idle
  <2>3. r \in DOMAIN rules /\ e.before.text \in Range(revs[r])
    BY <2>1 DEF ShelfInv, TextsAreRevisions
  <2> QED
    BY <2>1, <2>2, <2>3, ShelfFacts DEF ShelfInv, RulesAreSound
<1>2. e.stack \in Stack /\ e.text \in Wording
  BY <1>1 DEF Change
<1> DEFINE row == Edited(rules[r], e.stack, e.text)
<1>3. /\ row \in Rule /\ row.slug = rules[r].slug /\ row.origin = rules[r].origin
      /\ row.support = rules[r].support /\ row.read = rules[r].read
      /\ row.life = rules[r].life /\ row.by = rules[r].by
      /\ row.decreed = rules[r].decreed /\ row.fresh = rules[r].fresh
      /\ row.recent = (rules[r].life = "rejected") /\ row.text = e.text
  <2>1. (rules[r].life = "rejected") \in BOOLEAN
    OBVIOUS
  <2> HIDE DEF e
  <2> QED
    BY <1>1, <1>2, <2>1 DEF Edited, Rule
<1>4. rules' = [rules EXCEPT ![r] = row]
  BY DEF WriteEdit
<1>5. RowWritten(r, row)
  <2> HIDE DEF row, e
  <2> QED
    BY <1>1, <1>3, <1>4 DEF RowWritten, ShelfInv, DecidedByPeople
<1>6. RevisionsGrow(r, row)
  <2>1. CASE e.text = e.before.text
    <3>1. revs' = revs
      BY <2>1 DEF WriteEdit
    <3> HIDE DEF row, e
    <3> QED
      BY <1>1, <1>3, <2>1, <3>1 DEF RevisionsGrow, ShelfTypeOK
  <2>2. CASE e.text # e.before.text
    <3> DEFINE longer == Append(revs[r], e.text)
    <3>1. revs' = [revs EXCEPT ![r] = longer]
      BY <2>2 DEF WriteEdit
    <3> HIDE DEF row, e
    <3>2. longer \in Seq(Wording) /\ \A i \in DOMAIN revs[r] : i \in DOMAIN longer /\ longer[i] = revs[r][i]
      BY <1>1, <1>2
    <3>3. Len(revs[r]) + 1 \in DOMAIN longer /\ longer[Len(revs[r]) + 1] = e.text
      BY <1>1, <1>2
    <3> HIDE DEF longer
    <3>4. Range(revs[r]) \subseteq Range(longer) /\ e.text \in Range(longer)
      BY <3>2, <3>3 DEF Range
    <3>5. revs' \in Seq(Seq(Wording)) /\ Len(revs') = Len(revs)
      BY <1>1, <3>1, <3>2 DEF ShelfTypeOK
    <3>6. revs'[r] = longer /\ \A q \in DOMAIN rules \ {r} : revs'[q] = revs[q]
      BY <1>1, <3>1
    <3> QED
      BY <1>3, <3>4, <3>5, <3>6 DEF RevisionsGrow
  <2> QED
    BY <2>1, <2>2
<1>7. page' \in [Stack -> Looks] /\ \A s \in Stack : page'[s].shows = page[s].shows
  <2>1. page' = page \/ \E stacks : page' = Marked(stacks)
    BY DEF WriteEdit
  <2> QED
    BY <1>1, <2>1, MarkingStays DEF ShelfTypeOK, Looks
<1>8. /\ request' \in [Author -> Asks]
      /\ \A v \in Author : request'[v] \in {request[v], Idle}
      /\ mining' = mining /\ draft' = draft
  BY <1>1 DEF WriteEdit, ShelfTypeOK, Asks
<1> HIDE DEF row, e
<1> QED
  BY <1>1, <1>5, <1>6, <1>7, <1>8, RowStep DEF Looks

\* Pages are scaffolded and marked; the composer renders what is adopted and saves
\* what it rendered.
LEMMA ComposerStep ==
  ASSUME ShelfInv, NEW s \in Stack, Scaffold(s) \/ Touch(s) \/ Render(s) \/ Publish(s)
  PROVE  ShelfInv'
<1> USE DEF Looks
<1> DEFINE Renders == [rendered : BOOLEAN, shows : Shows]
<1>1. ShelfTypeOK /\ page \in [Stack -> Looks] /\ draft \in [Stack -> Renders]
  BY DEF ShelfInv, ShelfTypeOK
<1>2. UNCHANGED <<rules, revs, request, mining>>
  BY DEF Scaffold, Touch, Render, Publish
<1>3. /\ page' \in [Stack -> Looks] /\ draft' \in [Stack -> Renders]
      /\ \A t \in Stack : \A x \in page'[t].shows \cup draft'[t].shows : Ratified(x)
  <2>1. CASE Scaffold(s)
    <3>1. [there |-> TRUE, dirty |-> TRUE, bumped |-> FALSE, shows |-> {}] \in Looks
      BY DEF Shows
    <3> QED
      BY <1>1, <2>1, <3>1 DEF Scaffold, ShelfInv, ShownIsRatified
  <2>2. CASE Touch(s)
    <3>1. [there |-> TRUE, dirty |-> TRUE, bumped |-> draft[s].rendered, shows |-> page[s].shows] \in Looks
      BY <1>1
    <3> QED
      BY <1>1, <2>2, <3>1 DEF Touch, ShelfInv, ShownIsRatified
  <2>3. CASE Render(s)
    <3> DEFINE shows == {<<r, rules[r].text>> : r \in Served(s)}
    <3>1. \A r \in Served(s) : /\ r \in Nat /\ r \in DOMAIN rules /\ rules[r].life = "adopted"
                               /\ rules[r].text \in Wording /\ rules[r].text \in Range(revs[r])
      BY <1>1, ShelfFacts DEF Served, Rule, ShelfInv, TextsAreRevisions
    <3>2. \A x \in shows : x \in Nat \X Wording /\ Ratified(x)
      BY <3>1 DEF Ratified
    <3>3. [rendered |-> TRUE, shows |-> shows] \in Renders
      BY <3>2 DEF Shows
    <3>4. page' = page /\ draft' = [draft EXCEPT ![s] = [rendered |-> TRUE, shows |-> shows]]
      BY <2>3 DEF Render
    <3> HIDE DEF shows
    <3> QED
      BY <1>1, <3>2, <3>3, <3>4 DEF ShelfInv, ShownIsRatified
  <2>4. CASE Publish(s)
    <3>1. [there |-> page[s].there, dirty |-> page[s].bumped, bumped |-> FALSE, shows |-> draft[s].shows] \in Looks
      BY <1>1
    <3>2. NoDraft \in Renders /\ NoDraft.shows = {}
      BY DEF NoDraft, Shows
    <3> QED
      BY <1>1, <2>4, <3>1, <3>2 DEF Publish, ShelfInv, ShownIsRatified
  <2> QED
    BY <2>1, <2>2, <2>3, <2>4
<1>4. ShelfTypeOK'
  BY <1>1, <1>2, <1>3 DEF ShelfTypeOK
<1> QED
  BY <1>2, <1>3, <1>4, PageStep

\* The slug a signal gets is of its name, and suffixed only if the name is taken.
LEMMA SlugFacts ==
  ASSUME NEW s \in Signal, NEW met
  PROVE  /\ SlugOf(s, met) \in Slug
         /\ SlugOf(s, met) \in {<<BaseOf[s], Unmarked>>, <<BaseOf[s], s>>}
         /\ SlugOf(s, met) # <<BaseOf[s], Unmarked>> => \E c \in met : c.slug = <<BaseOf[s], Unmarked>>
BY StandardsAssumption DEF StandardsAssumption, SlugOf, Slug

\* What a proposer hears that looks now: who asks for the sweep and is not blocked,
\* who asks for a person and finds the signal carried by none.
LEMMA HeardNow ==
  ASSUME ShelfInv, NEW s \in Signal, NEW met, Range(rules) \subseteq met, NEW origin, NEW read,
         read \in ReadsOf, read.asked = Len(rules), read.looked = Len(rules), ~ Carried(s, met),
         origin = "sweep" => ~ Blocked(s, met)
  PROVE  Heard(rules, {s}, origin, read)
<1>1. Len(rules) \in Nat /\ \A q \in DOMAIN rules : rules[q] \in met
  BY ShelfFacts DEF ShelfInv, Range
<1>2. \A q \in DOMAIN rules : s \in rules[q].support =>
        rules[q].life = "rejected" /\ (origin = "sweep" => ~ rules[q].recent)
  BY <1>1 DEF Carried, Blocked
<1>3. \A q \in DOMAIN rules : rules[q].fresh => rules[q].recent
  BY DEF ShelfInv, RulesAreSound
<1> QED
  BY <1>1, <1>2, <1>3 DEF Heard

\* The reads of a proposer, as it makes them.
LEMMA ReadFacts ==
  ASSUME ShelfTypeOK, NEW read \in ReadsOf
  PROVE  /\ AskedNow \in ReadsOf /\ AskedNow.asked = Len(rules) /\ AskedNow.looked = Len(rules)
         /\ LookedAt(read) \in ReadsOf /\ LookedAt(read).asked = read.asked /\ LookedAt(read).looked = Len(rules)
         /\ NamedAt(read) \in ReadsOf /\ NamedAt(read).named = Len(rules)
         /\ NamedAt(read).asked = read.asked /\ NamedAt(read).looked = read.looked
<1>1. Len(rules) \in Nat
  BY ShelfFacts
<1> QED
  BY <1>1 DEF AskedNow, LookedAt, NamedAt, ReadsOf

\* The candidate of a signal its proposer has heard of is a plan.
Sought(s, met, origin, read) == Candidate(SlugOf(s, met), origin, TextOf[s], {s}, NamedAt(read))
IsSought(p, s, met, origin) ==
  /\ Posed(rules, p) /\ p \in Rule /\ p.origin = origin /\ p.support = {s} /\ p.read.named = Len(rules)
  /\ p.slug # Bare(p) => \E c \in met : c.slug = Bare(p)
LEMMA NewCandidate ==
  ASSUME ShelfInv, NEW s \in Signal, NEW met, NEW origin \in Bridged, NEW read,
         Heard(rules, {s}, origin, read)
  PROVE  IsSought(Sought(s, met, origin, read), s, met, origin)
<1> USE StandardsAssumption DEF StandardsAssumption
<1> DEFINE named == NamedAt(read)
           p == Sought(s, met, origin, read)
<1>1. /\ p.slug = SlugOf(s, met) /\ p.origin = origin /\ p.support = {s} /\ p.life = "proposed"
      /\ p.read = named /\ ~ p.decreed /\ ~ p.recent /\ ~ p.fresh
  BY DEF Sought, Candidate
<1>2. /\ Len(rules) \in Nat /\ named \in ReadsOf /\ named.asked = read.asked /\ named.looked = read.looked
      /\ named.named = Len(rules)
  <2>1. ShelfTypeOK /\ read \in ReadsOf
    BY DEF ShelfInv, Heard
  <2> QED
    BY <2>1, ShelfFacts, ReadFacts
<1>3. p \in Rule
  <2>1. p = Candidate(SlugOf(s, met), origin, TextOf[s], {s}, named)
    BY DEF Sought
  <2> HIDE DEF named, p
  <2>2. SlugOf(s, met) \in Slug /\ {s} \in SUBSET Signal
    BY SlugFacts
  <2> QED
    BY <1>2, <2>1, <2>2 DEF Candidate, Rule, Lives, Bridged
<1> HIDE DEF named, p
<1>4. Bare(p) = <<BaseOf[s], Unmarked>>
  BY <1>1, SlugFacts DEF Bare
<1>5. IsPlan(p)
  <2>1. p.slug \in {<<BaseOf[s], Unmarked>>, <<BaseOf[s], s>>}
    BY <1>1, SlugFacts
  <2> QED
    BY <1>1, <1>3, <2>1 DEF IsPlan, OfOneSignal
<1>6. Heard(rules, p.support, p.origin, p.read) /\ p.read.looked <= p.read.named /\ p.read.named <= Len(rules)
  BY <1>1, <1>2 DEF Heard
<1>7. Posed(rules, p)
  BY <1>5, <1>6 DEF Posed
<1>8. p.slug # Bare(p) => \E c \in met : c.slug = Bare(p)
  <2>1. SlugOf(s, met) # <<BaseOf[s], Unmarked>> => \E c \in met : c.slug = <<BaseOf[s], Unmarked>>
    BY SlugFacts, Zenon
  <2> QED
    BY <1>1, <1>4, <2>1, Zenon
<1>9. IsSought(p, s, met, origin)
  BY <1>1, <1>2, <1>3, <1>7, <1>8 DEF IsSought
<1> QED
  BY <1>9 DEF p

\* A request is begun or goes on; what it has read is so.
LEMMA AskStep ==
  ASSUME ShelfInv, NEW u \in Author, NEW a \in Asks, request' = [request EXCEPT ![u] = a],
         UNCHANGED <<rules, revs, mining, page, draft>>,
         a.op = "insert" => SoundPlan(rules, a.new),
         a.op = "name" => Heard(rules, {a.signal}, a.origin, a.read),
         a.op = "update" => a.rule \in DOMAIN rules /\ a.before.text \in Range(revs[a.rule])
  PROVE  ShelfInv'
<1>1. ShelfTypeOK
  BY DEF ShelfInv
<1>2. ShelfTypeOK'
  BY <1>1 DEF ShelfTypeOK
<1>3. \A v \in Author : IF v = u THEN request'[v] = a ELSE request'[v] = request[v]
  BY <1>1 DEF ShelfTypeOK
<1>4. RequestsArePlans' /\ SweepIsSound'
  BY <1>3 DEF ShelfInv, RequestsArePlans, SweepIsSound
<1>5. \A v \in Author : request'[v].op = "update" =>
         request'[v].rule \in DOMAIN rules /\ request'[v].before.text \in Range(revs[request'[v].rule])
  BY <1>3 DEF ShelfInv, TextsAreRevisions
<1> QED
  BY <1>2, <1>4, <1>5, PlanStep

\* A ratification or a settlement finds its signal unspoken for.
LEMMA LookStep ==
  ASSUME ShelfInv, NEW u \in Author, NEW s \in Signal, Ratify(u, s) \/ MineWinner(u, s)
  PROVE  ShelfInv'
<1>1. PICK origin \in Bridged :
         /\ request' = [request EXCEPT ![u] = [op |-> "name", signal |-> s, origin |-> origin, read |-> AskedNow]]
         /\ ~ Carried(s, Range(rules)) /\ (origin = "sweep" => ~ Blocked(s, Range(rules)))
  <2>1. Carried(s, Range(rules)) => Blocked(s, Range(rules))
    BY DEF Carried, Blocked
  <2> QED
    BY <2>1 DEF Ratify, MineWinner, Looking, Bridged
<1>2. AskedNow \in ReadsOf /\ AskedNow.asked = Len(rules) /\ AskedNow.looked = Len(rules)
  <2>1. ShelfTypeOK /\ mining.read \in ReadsOf
    BY ShelfFacts DEF ShelfInv
  <2> QED
    BY <2>1, ReadFacts
<1>3. Heard(rules, {s}, origin, AskedNow)
  BY <1>1, <1>2, HeardNow
<1> DEFINE a == [op |-> "name", signal |-> s, origin |-> origin, read |-> AskedNow]
<1>4. a \in Asks /\ a.op = "name" /\ a.signal = s /\ a.origin = origin /\ a.read = AskedNow
  BY <1>2 DEF Asks, Naming
<1>5. UNCHANGED <<rules, revs, mining, page, draft>> /\ request' = [request EXCEPT ![u] = a]
  BY <1>1 DEF Ratify, MineWinner
<1> HIDE DEF a
<1> QED
  BY <1>3, <1>4, <1>5, AskStep

\* The slug is chosen, and the candidate is a sound plan.
LEMMA NameStep ==
  ASSUME ShelfInv, NEW u \in Author, NamePlanned(u)
  PROVE  ShelfInv'
<1> DEFINE q == request[u]
           met == Range(rules)
           p == Sought(q.signal, met, q.origin, q.read)
           a == [op |-> "insert", new |-> p]
<1>1. q.op = "name" /\ Heard(rules, {q.signal}, q.origin, q.read)
  BY DEF NamePlanned, ShelfInv, RequestsArePlans
<1>2. q.signal \in Signal /\ q.origin \in Bridged
  <2>1. q \in Asks
    BY DEF ShelfInv, ShelfTypeOK
  <2> QED
    BY <1>1, <2>1 DEF Asks, Idle, Naming, Insertion, Change
<1>4. request' = [request EXCEPT ![u] = a] /\ UNCHANGED <<rules, revs, mining, page, draft>>
  BY DEF NamePlanned, Sought
<1> HIDE DEF q, met
<1>3. IsSought(p, q.signal, met, q.origin)
  BY <1>1, <1>2, NewCandidate
<1> HIDE DEF p
<1>5. /\ Posed(rules, p) /\ p \in Rule /\ p.read.named = Len(rules)
      /\ p.slug # Bare(p) => \E c \in met : c.slug = Bare(p)
  BY <1>3 DEF IsSought
<1>6. \A r \in DOMAIN rules : r <= Len(rules)
  BY ShelfFacts DEF ShelfInv, RuleId
<1>7. SoundPlan(rules, p)
  BY <1>5, <1>6 DEF SoundPlan, EarlierRule, Range, met
<1>8. a \in Asks /\ a.op = "insert" /\ a.new = p
  BY <1>5 DEF Asks, Insertion
<1> HIDE DEF a
<1> QED
  BY <1>4, <1>7, <1>8, AskStep

\* An agent proposes.
LEMMA AgentStep ==
  ASSUME ShelfInv, NEW u \in Author, NEW b \in Base, NEW text \in Wording,
         NEW m \in {{}} \cup {{s} : s \in Signal \ Divergence}, Propose(u, b, text, m)
  PROVE  ShelfInv'
<1> DEFINE p == Candidate(<<b, Unmarked>>, "agent", text, m, NothingRead)
           a == [op |-> "insert", new |-> p]
<1>1. m \in SUBSET Signal /\ <<b, Unmarked>> \in Slug /\ NothingRead \in ReadsOf
  BY DEF Slug, NothingRead, ReadsOf
<1>2. p \in Rule /\ SoundPlan(rules, p)
  BY <1>1, StandardsAssumption
  DEF StandardsAssumption, Candidate, Rule, Lives, SoundPlan, Posed, IsPlan, OfOneSignal
<1>3. request' = [request EXCEPT ![u] = a] /\ UNCHANGED <<rules, revs, mining, page, draft>>
  BY DEF Propose
<1> HIDE DEF p
<1>4. a \in Asks /\ a.op = "insert" /\ a.new = p
  BY <1>2 DEF Asks, Insertion
<1> HIDE DEF a
<1> QED
  BY <1>2, <1>3, <1>4, AskStep

\* A maintainer reads a rule to edit it.
LEMMA PlanAnEdit ==
  ASSUME ShelfInv, NEW u \in Author, NEW r \in RuleId, NEW stack \in Stack, NEW text \in Wording,
         Edit(u, r, stack, text)
  PROVE  ShelfInv'
<1> DEFINE e == [op |-> "update", rule |-> r, stack |-> stack, text |-> text,
                 before |-> [stack |-> rules[r].stack, text |-> rules[r].text, life |-> rules[r].life]]
<1>1. ShelfTypeOK /\ RuleId = DOMAIN rules /\ r \in Nat /\ rules[r] \in Rule /\ rules[r].text \in Range(revs[r])
  BY ShelfFacts DEF ShelfInv, TextsAreRevisions
<1>2. e \in Asks /\ e.op = "update" /\ e.rule = r /\ e.before.text = rules[r].text
  BY <1>1 DEF Asks, Change, Rule
<1>3. UNCHANGED <<rules, revs, mining, page, draft>> /\ request' = [request EXCEPT ![u] = e]
  BY DEF Edit
<1> HIDE DEF e
<1> QED
  BY <1>1, <1>2, <1>3, AskStep

\* The sweep begins, looks for who speaks, looks again, and names its next candidate.
LEMMA SweepStep ==
  ASSUME ShelfInv,
         \/ \E found \in SUBSET Signal : MineStart(found)
         \/ \E s \in Signal : MineLook(s) \/ MineBridge(s) \/ MineName(s)
  PROVE  ShelfInv'
<1> DEFINE found == mining.found
<1>1. ShelfTypeOK /\ UNCHANGED <<rules, revs, request, page, draft>>
  <2>1. ShelfTypeOK
    BY DEF ShelfInv
  <2>2. ASSUME NEW S, MineStart(S) PROVE UNCHANGED <<rules, revs, request, page, draft>>
    BY <2>2 DEF MineStart
  <2>3. ASSUME NEW s, MineLook(s) \/ MineBridge(s) \/ MineName(s) PROVE UNCHANGED <<rules, revs, request, page, draft>>
    <3>1. CASE MineLook(s)
      BY <3>1, Zenon DEF MineLook
    <3>2. CASE MineBridge(s)
      BY <3>2 DEF MineBridge
    <3>3. CASE MineName(s)
      BY <3>3 DEF MineName
    <3> QED
      BY <2>3, <3>1, <3>2, <3>3
  <2> QED
    BY <2>1, <2>2, <2>3
<1>2. /\ mining \in Sweeping /\ found \in Seq(Rule) /\ mining.read \in ReadsOf /\ SoundSweep(rules, mining)
      /\ SoundFinds(rules, found) /\ Len(rules) \in Nat /\ Unmarked \notin Signal
  BY <1>1, ShelfFacts, StandardsAssumption
  DEF ShelfInv, ShelfTypeOK, SweepIsSound, SoundSweep, StandardsAssumption
<1>3. Range(rules) \subseteq Known /\ \A i \in DOMAIN found : found[i] \in Known
  BY DEF Known, Range
<1>4. ASSUME NEW s, NEW new \in Seq(Rule), SoundFinds(rules, new), mining' = Done(s, new)
      PROVE  mining' \in Sweeping /\ SoundSweep(rules, mining')
  <2>1. /\ mining' \in Sweeping /\ mining'.found = new /\ mining'.signal = Unmarked
    BY <1>2, <1>4, SleepFacts DEF Done, Sweeping
  <2> QED
    BY <1>4, <2>1 DEF SoundSweep
<1>5. mining' \in Sweeping /\ SoundSweep(rules, mining')
  <2>1. ASSUME NEW S \in SUBSET Signal, MineStart(S) PROVE mining' \in Sweeping /\ SoundSweep(rules, mining')
    <3>1. mining' \in Sweeping /\ mining'.found = << >> /\ mining'.signal = Unmarked
      BY <2>1, SleepFacts DEF MineStart, Sweeping
    <3> QED
      BY <3>1 DEF SoundSweep, SoundFinds
  <2>2. ASSUME NEW s \in Signal, MineLook(s) PROVE mining' \in Sweeping /\ SoundSweep(rules, mining')
    <3>1. CASE Blocked(s, Known)
      <4>1. mining' = Done(s, found)
        BY <2>2, <3>1, Zenon DEF MineLook
      <4> QED
        BY <1>2, <1>4, <4>1
    <3>2. CASE ~ Blocked(s, Known)
      <4>1. mining' = [mining EXCEPT !.signal = s, !.stage = StageOf(s), !.read = AskedNow]
        BY <2>2, <3>2, Zenon DEF MineLook
      <4>1a. StageOf(s) \in {"bridge", "name"}
        BY DEF StageOf
      <4>2. AskedNow \in ReadsOf /\ AskedNow.asked = Len(rules) /\ AskedNow.looked = Len(rules)
        BY <1>1, <1>2, ReadFacts
      <4>3. mining' \in Sweeping /\ mining'.signal = s /\ mining'.read = AskedNow /\ mining'.found = found
        BY <1>2, <4>1, <4>1a, <4>2 DEF Sweeping
      <4>4. Heard(rules, {s}, "sweep", AskedNow)
        <5>1. ~ Carried(s, Known)
          BY <3>2 DEF Blocked, Carried
        <5> QED
          BY <1>3, <3>2, <4>2, <5>1, HeardNow
      <4>5. \A i \in DOMAIN found : s \notin found[i].support
        BY <1>2, <1>3, <3>2 DEF Blocked, SoundFinds, Posed, IsPlan
      <4> QED
        BY <1>2, <4>3, <4>4, <4>5 DEF SoundSweep
    <3> QED
      BY <3>1, <3>2
  <2>3. ASSUME NEW s \in Signal, MineBridge(s) PROVE mining' \in Sweeping /\ SoundSweep(rules, mining')
    <3>1. CASE Carried(s, Known)
      <4>1. mining' = Done(s, found)
        BY <2>3, <3>1 DEF MineBridge
      <4> QED
        BY <1>2, <1>4, <4>1
    <3>2. CASE ~ Carried(s, Known)
      <4> DEFINE read == LookedAt(mining.read)
      <4>1. mining' = [mining EXCEPT !.stage = "name", !.read = read] /\ mining.signal = s
        BY <2>3, <3>2 DEF MineBridge
      <4>2. read \in ReadsOf /\ read.asked = mining.read.asked /\ read.looked = Len(rules)
        BY <1>1, <1>2, ReadFacts
      <4> HIDE DEF read
      <4>3. mining' \in Sweeping /\ mining'.signal = s /\ mining'.read = read /\ mining'.found = found
        BY <1>2, <4>1, <4>2 DEF Sweeping
      <4>4. /\ Heard(rules, {s}, "sweep", mining.read)
            /\ \A i \in DOMAIN found : s \notin found[i].support
        BY <1>2, <4>1 DEF SoundSweep
      <4>5. \A q \in DOMAIN rules : s \in rules[q].support => rules[q].life = "rejected"
        BY <1>3, <3>2 DEF Carried, Range
      <4>6. mining.read.asked \in Nat /\ mining.read.looked \in Nat /\ \A q \in DOMAIN rules : q \in Nat
        BY <1>1, <1>2, ShelfFacts DEF ReadsOf
      <4>7. Heard(rules, {s}, "sweep", read)
        BY <1>2, <4>2, <4>4, <4>5, <4>6 DEF Heard
      <4> QED
        BY <1>2, <4>3, <4>4, <4>7 DEF SoundSweep
    <3> QED
      BY <3>1, <3>2
  <2>4. ASSUME NEW s \in Signal, MineName(s) PROVE mining' \in Sweeping /\ SoundSweep(rules, mining')
    <3> DEFINE p == Sought(s, Known, "sweep", mining.read)
               longer == Append(found, p)
               next == Len(found) + 1
    <3>1. mining' = Done(s, longer) /\ mining.signal = s
      BY <2>4 DEF MineName, Sought
    <3>2. Heard(rules, {s}, "sweep", mining.read) /\ \A i \in DOMAIN found : s \notin found[i].support
      BY <1>2, <3>1 DEF SoundSweep
    <3>3. "sweep" \in Bridged
      BY DEF Bridged
    <3>4a. IsSought(p, s, Known, "sweep")
      BY <3>2, <3>3, NewCandidate
    <3> HIDE DEF p
    <3>4. /\ Posed(rules, p) /\ p \in Rule /\ p.origin = "sweep" /\ p.support = {s} /\ p.read.named = Len(rules)
          /\ p.slug # Bare(p) => \E c \in Known : c.slug = Bare(p)
      BY <3>4a DEF IsSought
    <3>5. /\ longer \in Seq(Rule) /\ DOMAIN longer = DOMAIN found \cup {next} /\ next \notin DOMAIN found
          /\ longer[next] = p /\ \A i \in DOMAIN found : longer[i] = found[i]
      BY <1>2, <3>4
    <3>6. p.slug # Bare(p) => \/ EarlierRule(rules, p.read.named, Bare(p))
                              \/ \E j \in DOMAIN found : found[j].slug = Bare(p)
      <4>1. \A r \in DOMAIN rules : r <= Len(rules)
        BY <1>1, ShelfFacts DEF RuleId
      <4> QED
        BY <3>4, <4>1 DEF Known, Range, EarlierRule
    <3> HIDE DEF longer, found, next
    <3>7. ASSUME NEW i \in DOMAIN longer
          PROVE  /\ Posed(rules, longer[i]) /\ longer[i].origin = "sweep"
                 /\ longer[i].slug # Bare(longer[i]) =>
                      \/ EarlierRule(rules, longer[i].read.named, Bare(longer[i]))
                      \/ \E j \in DOMAIN longer : longer[j].slug = Bare(longer[i])
      <4>1. CASE i = next
        BY <3>4, <3>5, <3>6, <4>1
      <4>2. CASE i \in DOMAIN found
        BY <1>2, <3>5, <4>2 DEF SoundFinds
      <4> QED
        BY <3>5, <4>1, <4>2
    <3>8. ASSUME NEW i \in DOMAIN longer, NEW j \in DOMAIN longer, Alike(longer[i], longer[j]) PROVE i = j
      <4>1. CASE i \in DOMAIN found /\ j \in DOMAIN found
        BY <1>2, <3>5, <3>8, <4>1 DEF SoundFinds
      <4>2. \A k \in DOMAIN found : ~ Alike(found[k], p) /\ ~ Alike(p, found[k])
        BY <3>2, <3>4 DEF Alike, found
      <4> QED
        BY <3>5, <3>8, <4>1, <4>2
    <3>9. SoundFinds(rules, longer)
      BY <3>7, <3>8 DEF SoundFinds
    <3> QED
      BY <1>4, <3>1, <3>5, <3>9
  <2> QED
    BY <2>1, <2>2, <2>3, <2>4
<1>6. ShelfTypeOK'
  BY <1>1, <1>5 DEF ShelfTypeOK
<1>7. RequestsArePlans' /\ SweepIsSound'
  BY <1>1, <1>5 DEF ShelfInv, RequestsArePlans, SweepIsSound
<1> QED
  BY <1>1, <1>6, <1>7, PlanStep DEF ShelfInv, TextsAreRevisions

\* An insertion goes through or fails as a whole: the unique slug decides.
LEMMA ShelfCommitStep ==
  ASSUME ShelfInv, MineCommit \/ \E u \in Author : InsertPlanned(u)
  PROVE  ShelfInv' /\ RejectionIsRespected
<1>1. ShelfTypeOK /\ RuleId = DOMAIN rules /\ UNCHANGED <<page, draft>>
  BY ShelfFacts DEF ShelfInv, MineCommit, InsertPlanned
<1>2. Asleep \in Sweeping
  BY SleepFacts
<1>3. ASSUME NEW u \in Author, InsertPlanned(u)
      PROVE  ShelfInv' /\ RejectionIsRespected
  <2> DEFINE p == request[u].new  new == <<p>>
  <2>1. SoundPlan(rules, p) /\ p \in Rule
    BY <1>3 DEF InsertPlanned, ShelfInv, RequestsArePlans, SoundPlan, Posed, IsPlan
  <2>2. request' = [request EXCEPT ![u] = Idle] /\ mining' = mining
    BY <1>3 DEF InsertPlanned
  <2>3. /\ request' \in [Author -> Asks]
        /\ \A v \in Author : request'[v] \in {request[v], Idle}
    BY <1>1, <2>2 DEF ShelfTypeOK, Asks
  <2>4. CASE Free(new)
    <3>1. rules' = rules \o new /\ revs' = revs \o [i \in DOMAIN new |-> <<new[i].text>>]
      BY <1>3, <2>4 DEF InsertPlanned, Insert
    <3>2. new \in Seq(Rule) /\ DOMAIN new = {1} /\ new[1] = p
      BY <2>1
    <3> HIDE DEF new, p
    <3>3. ~ Taken(rules, p.slug)
      BY <1>1, <2>4, <3>2 DEF Free, Taken
    <3>4. Insertable(new)
      BY <2>1, <3>2, <3>3 DEF Insertable, SoundPlan
    <3> QED
      BY <1>1, <2>2, <2>3, <3>1, <3>4, ShelfInsertStep
  <2>5. CASE ~ Free(new)
    <3>1. UNCHANGED <<rules, revs>>
      BY <1>3, <2>5 DEF InsertPlanned, Insert
    <3>2. ShelfTypeOK'
      BY <1>1, <2>2, <2>3, <3>1 DEF ShelfTypeOK
    <3>3. ASSUME NEW v \in Author, request'[v].op # "idle" PROVE request'[v] = request[v]
      BY <2>3, <3>3 DEF Idle
    <3>4. RequestsArePlans' /\ SweepIsSound'
      BY <2>2, <3>1, <3>3 DEF ShelfInv, RequestsArePlans, SweepIsSound
    <3>5. ShelfInv'
      BY <1>1, <2>2, <3>1, <3>2, <3>3, <3>4, PlanStep DEF ShelfInv, TextsAreRevisions
    <3> QED
      BY <1>1, <3>1, <3>5 DEF RejectionIsRespected
  <2> QED
    BY <2>4, <2>5
<1>4. CASE MineCommit
  <2> DEFINE new == mining.found
  <2>1. SoundFinds(rules, new) /\ new \in Seq(Rule)
    BY <1>1, ShelfFacts DEF ShelfInv, SweepIsSound, SoundSweep
  <2>2. request' = request /\ mining' = Asleep
    BY <1>4 DEF MineCommit
  <2>3. /\ request' \in [Author -> Asks]
        /\ \A v \in Author : request'[v] \in {request[v], Idle}
    BY <1>1, <2>2 DEF ShelfTypeOK, Asks
  <2>4. CASE Free(new)
    <3>1. rules' = rules \o new /\ revs' = revs \o [i \in DOMAIN new |-> <<new[i].text>>]
      BY <1>4, <2>4 DEF MineCommit, Insert
    <3>2. \A i \in DOMAIN new : ~ Taken(rules, new[i].slug)
      BY <1>1, <2>4 DEF Free, Taken
    <3>3. \A i, j \in DOMAIN new : new[i].slug = new[j].slug => i = j
      BY <2>4 DEF Free
    <3> HIDE DEF new
    <3>4. Insertable(new)
      BY <2>1, <3>2, <3>3 DEF Insertable, SoundFinds
    <3> QED
      BY <1>1, <2>2, <2>3, <3>1, <3>4, ShelfInsertStep
  <2>5. CASE ~ Free(new)
    <3>1. UNCHANGED <<rules, revs>>
      BY <1>4, <2>5 DEF MineCommit, Insert
    <3>2. ShelfTypeOK'
      BY <1>1, <1>2, <2>2, <2>3, <3>1 DEF ShelfTypeOK
    <3>3. RequestsArePlans' /\ SweepIsSound'
      <4>1. SoundSweep(rules, Asleep)
        BY SleepFacts DEF SoundSweep, SoundFinds
      <4>2. SweepIsSound'
        BY <2>2, <3>1, <4>1 DEF SweepIsSound
      <4>3. RequestsArePlans'
        BY <2>2, <3>1 DEF ShelfInv, RequestsArePlans
      <4> QED
        BY <4>2, <4>3
    <3>4. ShelfInv'
      BY <1>1, <2>2, <3>1, <3>2, <3>3, PlanStep DEF ShelfInv, TextsAreRevisions
    <3> QED
      BY <1>1, <3>1, <3>4 DEF RejectionIsRespected
  <2> QED
    BY <2>4, <2>5
<1> QED
  BY <1>3, <1>4

\* Every step of the shelf keeps the invariant, and none asks again what was refused.
LEMMA ShelfStep == ShelfInv /\ [StandardsNext]_standardVars => ShelfInv' /\ RejectionIsRespected
<1> SUFFICES ASSUME ShelfInv, [StandardsNext]_standardVars PROVE ShelfInv' /\ RejectionIsRespected
  OBVIOUS
<1>1. CASE MineCommit \/ \E u \in Author : InsertPlanned(u)
  BY <1>1, ShelfCommitStep
<1>2. CASE StandardsNext /\ ~ (MineCommit \/ \E u \in Author : InsertPlanned(u))
  <2>1. ShelfInv'
    BY <1>2, GateStep, WriteStep, ComposerStep, LookStep, NameStep, AgentStep, PlanAnEdit, SweepStep
    DEF StandardsNext
  <2>2. rules' = rules \/ \E r, row : rules' = [rules EXCEPT ![r] = row]
    BY <1>2, ZenonT(40) DEF StandardsNext, Ratify, MineWinner, NamePlanned, Propose, WriteEdit, Adopt, Deprecate, Reject, Edit,
                MineStart, MineLook, MineBridge, MineName, WindowPasses, Scaffold, Touch, Render, Publish
  <2>3. RuleId = DOMAIN rules /\ DOMAIN rules' = DOMAIN rules
    BY <2>2, ShelfFacts DEF ShelfInv
  <2> QED
    BY <2>1, <2>3 DEF RejectionIsRespected
<1>3. CASE UNCHANGED standardVars
  <2>1. ShelfInv'
    BY <1>3
    DEF standardVars, ShelfInv, ShelfTypeOK, RulesAreSound, SlugsAreUnique, RequestsArePlans, SweepIsSound,
        SecondOnlyByOverlap, SameSignal, Minted, TextsAreRevisions, ShownIsRatified, Ratified, DecidedByPeople,
        RuleId, Live
  <2>2. RuleId = DOMAIN rules
    BY ShelfFacts DEF ShelfInv
  <2> QED
    BY <1>3, <2>1, <2>2 DEF standardVars, RejectionIsRespected
<1> QED
  BY <1>1, <1>2, <1>3

\* What the invariant says of candidates and pages.
LEMMA ShelfHolds == ShelfInv => SecondOnlyByOverlap /\ PageShowsRatified /\ DecidedByPeople
BY DEF ShelfInv, ShownIsRatified, Ratified, PageShowsRatified

-----------------------------------------------------------------------------
(* Skills (module Skills). *)

\* The types of skills, requests and answers.
People == Agent \cup Maintainer
Version == [minor : Nat, signed : BOOLEAN]
Call == {NoCall} \cup [op : {"created", "new_version"}, skill : Skill, serving : Nat]
          \cup [op : {"number"}, skill : Skill, serving : Nat, minor : Nat]
          \cup [op : {"sign", "fetched"}, skill : Skill, version : Nat]
AnswerGiven == {Untold} \cup [outcome : {"duplicate"}, skill : Skill]
            \cup [outcome : {"created"}, skill : Skill, minor : Nat]
            \cup [outcome : {"new_version"}, skill : Skill, minor : Nat, serving : Nat]

\* The types of the skills' shelf.
SkillTypeOK ==
  /\ maturity \in [Skill -> {"absent", "draft", "published"}]
  /\ versions \in [Skill -> Seq(Version)]
  /\ current \in [Skill -> Nat]
  /\ call \in [People -> Call] /\ told \in [Agent -> AnswerGiven]
  /\ \A e \in usage : e.skill \in Skill

\* A version that is there, and one that is signed.
There(shelf, k, v) == v \in DOMAIN shelf[k]
SignedIn(shelf, k, v) == There(shelf, k, v) /\ shelf[k][v].signed

\* A skill has versions from its first day.
Shelved == \A k \in Skill : maturity[k] = "absent" <=> versions[k] = << >>

\* What is current is signed.
CurrentIsSigned == \A k \in Skill : current[k] # 0 => SignedIn(versions, k, current[k])

\* What a call has read still holds: the version that served, and the one it is to
\* sign or hands out.
CallHolds(shelf, c) ==
  /\ c.op \in {"new_version", "number"} => SignedIn(shelf, c.skill, c.serving)
  /\ c.op = "sign" => There(shelf, c.skill, c.version)
  /\ c.op = "fetched" => SignedIn(shelf, c.skill, c.version)

AnswerHolds(matured, shelf, t) ==
  /\ t.outcome # "none" => matured[t.skill] # "absent"
  /\ t.outcome \in {"created", "new_version"} =>
       \E v \in DOMAIN shelf[t.skill] : shelf[t.skill][v].minor = t.minor
  /\ t.outcome = "new_version" => SignedIn(shelf, t.skill, t.serving)

ServerEvent(shelf, e) == e.by = "server" => SignedIn(shelf, e.skill, e.version)

\* The inductive invariant of the skills' shelf.
SkillInv ==
  /\ SkillTypeOK /\ Shelved /\ CurrentIsSigned /\ NumbersAreUnique
  /\ \A p \in People : CallHolds(versions, call[p])
  /\ \A p \in Agent : AnswerHolds(maturity, versions, told[p])
  /\ \A e \in usage : ServerEvent(versions, e)

\* No skill has been proposed yet.
LEMMA SkillStart == SkillsInit => SkillInv
<1> SUFFICES ASSUME SkillsInit PROVE SkillInv
  OBVIOUS
<1>1. << >> \in Seq(Version) /\ DOMAIN << >> = {} /\ Len(<< >>) = 0
  OBVIOUS
<1>2. SkillTypeOK
  BY <1>1 DEF SkillsInit, SkillTypeOK, Call, AnswerGiven, People
<1>3. Shelved /\ CurrentIsSigned
  BY DEF SkillsInit, Shelved, CurrentIsSigned
<1>4. \A k \in Skill : VersionId(k) = {}
  BY <1>1 DEF SkillsInit, VersionId
<1>5. (\A p \in People : CallHolds(versions, call[p])) /\ usage = {}
  BY DEF SkillsInit, CallHolds, NoCall, People
<1>6. \A p \in Agent : AnswerHolds(maturity, versions, told[p])
  BY DEF SkillsInit, AnswerHolds, Untold
<1> QED
  BY <1>2, <1>3, <1>4, <1>5, <1>6 DEF SkillInv, NumbersAreUnique

\* A shelf that only grows: versions stay, keep their number and their signature.
Grows ==
  \A k \in Skill :
    /\ \A v \in DOMAIN versions[k] :
         /\ v \in DOMAIN versions'[k] /\ versions'[k][v].minor = versions[k][v].minor
         /\ versions[k][v].signed => versions'[k][v].signed
    /\ maturity[k] # "absent" => maturity'[k] # "absent"

\* On such a shelf whatever was read, answered or recorded still holds.
LEMMA GrowthKeeps ==
  ASSUME SkillInv, Grows, SkillTypeOK', Shelved', CurrentIsSigned', NumbersAreUnique',
         \A p \in People : call'[p] = call[p] \/ CallHolds(versions', call'[p]),
         \A p \in Agent : told'[p] = told[p] \/ AnswerHolds(maturity', versions', told'[p]),
         \A e \in usage' : e \in usage \/ ServerEvent(versions', e)
  PROVE  SkillInv'
<1>1. \A k \in Skill : \A v : /\ There(versions, k, v) => There(versions', k, v)
                              /\ SignedIn(versions, k, v) => SignedIn(versions', k, v)
  BY DEF Grows, There, SignedIn
<1>2. ASSUME NEW p \in People PROVE CallHolds(versions', call'[p])
  <2>1. CASE call'[p] = call[p]
    <3>1. call[p] \in Call /\ CallHolds(versions, call[p])
      BY DEF SkillInv, SkillTypeOK
    <3>2. call[p] = NoCall \/ call[p].skill \in Skill
      BY <3>1 DEF Call
    <3> QED
      BY <1>1, <2>1, <3>1, <3>2 DEF CallHolds, NoCall
  <2> QED
    BY <2>1
<1>3. ASSUME NEW p \in Agent PROVE AnswerHolds(maturity', versions', told'[p])
  <2>1. CASE told'[p] = told[p]
    <3>1. told[p] \in AnswerGiven /\ AnswerHolds(maturity, versions, told[p])
      BY DEF SkillInv, SkillTypeOK
    <3>2. told[p] = Untold \/ told[p].skill \in Skill
      BY <3>1 DEF AnswerGiven
    <3> QED
      BY <1>1, <2>1, <3>1, <3>2 DEF AnswerHolds, Untold, Grows
  <2> QED
    BY <2>1
<1>4. ASSUME NEW e \in usage' PROVE ServerEvent(versions', e)
  <2>1. CASE e \in usage
    BY <1>1, <2>1 DEF SkillInv, SkillTypeOK, ServerEvent
  <2> QED
    BY <2>1
<1> QED
  BY <1>2, <1>3, <1>4 DEF SkillInv

\* The newest of some versions is one of them: the final segments they bound are
\* well-founded under inclusion.
LEMMA NewestIsOne ==
  ASSUME NEW n \in Nat, NEW S \in SUBSET (1..n), S # {}
  PROVE  \E x \in S : \A y \in S : y <= x
<1> DEFINE T == {x..n : x \in S}
           R == StrictSubsetOrdering(Nat)
<1>1. T # {} /\ T \subseteq FiniteSubsetsOf(Nat)
  <2>1. \A x \in S : IsFiniteSet(x..n) /\ x..n \subseteq Nat
    BY FS_Interval
  <2> QED
    BY <2>1 DEF FiniteSubsetsOf
<1>2. IsWellFoundedOn(R, FiniteSubsetsOf(Nat))
  BY FS_StrictSubsetOrderingWellFounded
<1> HIDE DEF T, R
<1>3. \E X \in T : \A Y \in T : ~ (<<Y, X>> \in R)
  BY <1>1, <1>2, WFMin
<1>4. PICK x \in S : \A y \in S : ~ (<<y..n, x..n>> \in R)
  BY <1>3 DEF T
<1>5. \A y \in S : y <= x
  <2> SUFFICES ASSUME NEW y \in S, x < y PROVE FALSE
    OBVIOUS
  <2>1. y..n \subseteq x..n /\ x \in x..n /\ x \notin y..n
    OBVIOUS
  <2>2. y..n \in SUBSET Nat /\ x..n \in SUBSET Nat /\ y..n # x..n
    BY <2>1
  <2>3. <<y..n, x..n>> \in R
    BY <2>1, <2>2 DEF R, StrictSubsetOrdering
  <2> QED
    BY <1>4, <2>3
<1> QED
  BY <1>5

\* What is pending is a draft.
LEMMA PendingIsADraft ==
  ASSUME SkillTypeOK, NEW k \in Skill, Unsigned(k) # {}
  PROVE  Pending(k) \in Unsigned(k) /\ Unsigned(k) \subseteq DOMAIN versions[k]
<1>1. versions[k] \in Seq(Version) /\ Len(versions[k]) \in Nat /\ VersionId(k) = DOMAIN versions[k]
  BY DEF SkillTypeOK, VersionId
<1>2. Unsigned(k) \in SUBSET (1..Len(versions[k]))
  BY DEF Unsigned, VersionId
<1>3. \E x \in Unsigned(k) : \A y \in Unsigned(k) : y <= x
  BY <1>1, <1>2, NewestIsOne
<1> QED
  BY <1>1, <1>2, <1>3 DEF Pending

\* A step that leaves the shelf alone: a call is read, an answer given, a use recorded.
LEMMA SkillQuietStep ==
  ASSUME SkillInv, UNCHANGED <<maturity, versions, current>>,
         call' \in [People -> Call], told' \in [Agent -> AnswerGiven], \A e \in usage' : e.skill \in Skill,
         \A p \in People : call'[p] = call[p] \/ CallHolds(versions, call'[p]),
         \A p \in Agent : told'[p] = told[p] \/ AnswerHolds(maturity, versions, told'[p]),
         \A e \in usage' : e \in usage \/ ServerEvent(versions, e)
  PROVE  SkillInv'
<1>1. Grows
  BY DEF Grows
<1>2. SkillTypeOK'
  BY DEF SkillInv, SkillTypeOK
<1>3. Shelved' /\ CurrentIsSigned' /\ NumbersAreUnique'
  BY DEF SkillInv, Shelved, CurrentIsSigned, NumbersAreUnique, VersionId
<1> QED
  BY <1>1, <1>2, <1>3, GrowthKeeps

\* Serving is what is current.
LEMMA ServingFacts ==
  ASSUME SkillInv, NEW k \in Skill
  PROVE  /\ Serving(k) = current[k] /\ Serving(k) \in Nat
         /\ Serving(k) # 0 => SignedIn(versions, k, Serving(k)) /\ maturity[k] # "absent"
         /\ VersionId(k) = DOMAIN versions[k] /\ versions[k] \in Seq(Version) /\ Len(versions[k]) \in Nat
         /\ maturity[k] = "absent" => DOMAIN versions[k] = {}
<1>1. versions[k] \in Seq(Version) /\ Len(versions[k]) \in Nat /\ VersionId(k) = DOMAIN versions[k]
      /\ current[k] \in Nat
  BY DEF SkillInv, SkillTypeOK, VersionId
<1>2. maturity[k] = "absent" => DOMAIN versions[k] = {}
  <2>1. DOMAIN << >> = {}
    OBVIOUS
  <2> QED
    BY <2>1 DEF SkillInv, Shelved
<1>3. current[k] # 0 => SignedIn(versions, k, current[k])
  BY DEF SkillInv, CurrentIsSigned
<1> QED
  BY <1>1, <1>2, <1>3 DEF Serving, SignedIn, There

\* A proposal is classified, and answered at once when it is a duplicate.
LEMMA ProposeStep ==
  ASSUME SkillInv, NEW p \in Agent, NEW k \in Skill,
         ProposeSkill(p, k) \/ \E malformed \in BOOLEAN : SkillPropose(p, k, malformed)
  PROVE  SkillInv'
<1> USE DEF People
<1>1. SkillTypeOK /\ p \in People
  BY DEF SkillInv
<1>2. UNCHANGED <<maturity, versions, current, usage>>
  BY DEF ProposeSkill, SkillPropose
<1>3. NoCall \in Call /\ CallHolds(versions, NoCall) /\ Untold \in AnswerGiven /\ AnswerHolds(maturity, versions, Untold)
  BY DEF Call, AnswerGiven, CallHolds, AnswerHolds, NoCall, Untold
<1>4. \E c \in Call, t \in AnswerGiven :
        /\ CallHolds(versions, c) /\ AnswerHolds(maturity, versions, t)
        /\ call' = [call EXCEPT ![p] = c] /\ told' = [told EXCEPT ![p] = t]
  <2>1. CASE ProposeSkill(p, k) /\ Classified(k) = "duplicate"
    <3> DEFINE t == [outcome |-> "duplicate", skill |-> k]
    <3>1. maturity[k] # "absent"
      BY <2>1 DEF Classified
    <3>2. t \in AnswerGiven /\ AnswerHolds(maturity, versions, t)
      BY <3>1 DEF AnswerGiven, AnswerHolds
    <3>3. call' = [call EXCEPT ![p] = NoCall] /\ told' = [told EXCEPT ![p] = t]
      BY <2>1 DEF ProposeSkill, Conclude
    <3> HIDE DEF t
    <3> QED
      BY <1>3, <3>2, <3>3
  <2>2. CASE ProposeSkill(p, k) /\ Classified(k) # "duplicate"
    <3> DEFINE c == [op |-> Classified(k), skill |-> k, serving |-> Serving(k)]
    <3>1. Classified(k) = "created" \/ (Classified(k) = "new_version" /\ Serving(k) # 0)
      BY <2>2 DEF Classified
    <3>2. Serving(k) \in Nat /\ (Serving(k) # 0 => SignedIn(versions, k, Serving(k)))
      BY ServingFacts
    <3>3. c \in Call /\ CallHolds(versions, c)
      BY <3>1, <3>2 DEF Call, CallHolds
    <3>4. call' = [call EXCEPT ![p] = c] /\ told' = [told EXCEPT ![p] = Untold]
      BY <2>2 DEF ProposeSkill
    <3> HIDE DEF c
    <3> QED
      BY <1>3, <3>3, <3>4
  <2>3. CASE SkillPropose(p, k, TRUE)
    BY <1>3, <2>3 DEF SkillPropose, Conclude
  <2> QED
    BY <2>1, <2>2, <2>3 DEF SkillPropose
<1>5. PICK c \in Call, t \in AnswerGiven :
        /\ CallHolds(versions, c) /\ AnswerHolds(maturity, versions, t)
        /\ call' = [call EXCEPT ![p] = c] /\ told' = [told EXCEPT ![p] = t]
  BY <1>4
<1>6. call' \in [People -> Call] /\ told' \in [Agent -> AnswerGiven] /\ \A e \in usage' : e.skill \in Skill
  BY <1>1, <1>2, <1>5 DEF SkillTypeOK
<1>7. /\ \A q \in People : call'[q] = call[q] \/ CallHolds(versions, call'[q])
      /\ \A q \in Agent : told'[q] = told[q] \/ AnswerHolds(maturity, versions, told'[q])
  BY <1>1, <1>5 DEF SkillTypeOK
<1> QED
  BY <1>2, <1>6, <1>7, SkillQuietStep

\* A call reads on: the newest number, the draft to sign, the bundle to hand out.
LEMMA ReadStep ==
  ASSUME SkillInv, NEW p \in People,
         \/ ReadNewest(p)
         \/ \E k \in Skill : PickDraft(p, k) \/ FetchSkill(p, k)
  PROVE  SkillInv'
<1>1. SkillTypeOK /\ call[p] \in Call /\ CallHolds(versions, call[p])
  BY DEF SkillInv, SkillTypeOK
<1>2. UNCHANGED <<maturity, versions, current, usage, told>>
  BY DEF ReadNewest, PickDraft, FetchSkill
<1>3. \E c \in Call : CallHolds(versions, c) /\ call' = [call EXCEPT ![p] = c]
  <2>1. CASE ReadNewest(p)
    <3> DEFINE k == call[p].skill
               c == [op |-> "number", skill |-> k, serving |-> call[p].serving, minor |-> NextMinor(k)]
    <3>1. k \in Skill /\ call[p].serving \in Nat /\ SignedIn(versions, k, call[p].serving)
      BY <1>1, <2>1 DEF ReadNewest, Call, CallHolds, NoCall
    <3>2. NextMinor(k) \in Nat
      <4>1. versions[k] \in Seq(Version) /\ DOMAIN versions[k] # {}
        BY <1>1, <3>1 DEF SkillTypeOK, SignedIn, There
      <4> HIDE DEF k
      <4>2. Len(versions[k]) \in DOMAIN versions[k]
        BY <4>1
      <4>3. versions[k][Len(versions[k])] \in Version
        BY <4>1, <4>2
      <4> QED
        BY <4>3 DEF NextMinor, Version
    <3>3. call' = [call EXCEPT ![p] = c]
      BY <2>1 DEF ReadNewest
    <3> HIDE DEF k
    <3>4. c \in Call /\ CallHolds(versions, c)
      BY <3>1, <3>2 DEF Call, CallHolds
    <3> QED
      BY <3>3, <3>4
  <2>2. ASSUME NEW k \in Skill, PickDraft(p, k)
        PROVE  \E c \in Call : CallHolds(versions, c) /\ call' = [call EXCEPT ![p] = c]
    <3> DEFINE c == [op |-> "sign", skill |-> k, version |-> Pending(k)]
    <3>1. Pending(k) \in DOMAIN versions[k]
      BY <1>1, <2>2, PendingIsADraft DEF PickDraft
    <3>2. Pending(k) \in Nat
      <4>1. versions[k] \in Seq(Version)
        BY <1>1 DEF SkillTypeOK
      <4> QED
        BY <3>1, <4>1
    <3>3. c \in Call /\ CallHolds(versions, c)
      BY <3>1, <3>2 DEF Call, CallHolds, There
    <3> QED
      BY <2>2, <3>3 DEF PickDraft
  <2>3. ASSUME NEW k \in Skill, FetchSkill(p, k)
        PROVE  \E c \in Call : CallHolds(versions, c) /\ call' = [call EXCEPT ![p] = c]
    <3> DEFINE c == [op |-> "fetched", skill |-> k, version |-> Serving(k)]
    <3>1. Serving(k) \in Nat /\ SignedIn(versions, k, Serving(k))
      BY <2>3, ServingFacts DEF FetchSkill
    <3>2. c \in Call /\ CallHolds(versions, c)
      BY <3>1 DEF Call, CallHolds
    <3> QED
      BY <2>3, <3>2 DEF FetchSkill
  <2> QED
    BY <2>1, <2>2, <2>3
<1>4. PICK c \in Call : CallHolds(versions, c) /\ call' = [call EXCEPT ![p] = c]
  BY <1>3
<1>5. /\ call' \in [People -> Call] /\ told' \in [Agent -> AnswerGiven] /\ \A e \in usage' : e.skill \in Skill
      /\ \A q \in People : call'[q] = call[q] \/ CallHolds(versions, call'[q])
  BY <1>1, <1>2, <1>4 DEF SkillTypeOK
<1> QED
  BY <1>2, <1>5, SkillQuietStep

\* A use is recorded: by the server of what it serves, by others of what they say.
LEMMA UseStep ==
  ASSUME SkillInv,
         \/ \E p \in Agent : RecordFetch(p)
         \/ \E k \in Skill : Download(k)
         \/ \E k \in Skill, event \in {"fetch", "check", "apply"} : ReportUsage(k, event) \/ UsageRecord(k, 1, event)
  PROVE  SkillInv'
<1> USE DEF People
<1>1. SkillTypeOK
  BY DEF SkillInv
<1>2. UNCHANGED <<maturity, versions, current, told>>
  BY DEF RecordFetch, Download, ReportUsage, UsageRecord
<1>3. call' \in [People -> Call] /\ \A q \in People : call'[q] = call[q] \/ CallHolds(versions, call'[q])
  <2>1. NoCall \in Call /\ CallHolds(versions, NoCall)
    BY DEF Call, CallHolds, NoCall
  <2>2. call' = call \/ \E p \in Agent : call' = [call EXCEPT ![p] = NoCall]
    BY DEF RecordFetch, Download, ReportUsage, UsageRecord
  <2> QED
    BY <1>1, <2>1, <2>2 DEF SkillTypeOK
<1>4. \A e \in usage' : e \in usage \/ (e.skill \in Skill /\ ServerEvent(versions, e))
  <2>1. ASSUME NEW p \in Agent, RecordFetch(p), NEW e \in usage', e \notin usage
        PROVE  e.skill \in Skill /\ ServerEvent(versions, e)
    <3>1. call[p] \in Call /\ CallHolds(versions, call[p]) /\ call[p].op = "fetched"
      BY <1>1, <2>1 DEF RecordFetch, SkillInv, SkillTypeOK
    <3>2. call[p].skill \in Skill /\ SignedIn(versions, call[p].skill, call[p].version)
      BY <3>1 DEF Call, CallHolds, NoCall
    <3>3. e = [skill |-> call[p].skill, version |-> call[p].version, event |-> "fetch", by |-> "server"]
      BY <2>1 DEF RecordFetch, Record
    <3> QED
      BY <3>2, <3>3 DEF ServerEvent
  <2>2. ASSUME NEW k \in Skill, Download(k), NEW e \in usage', e \notin usage
        PROVE  e.skill \in Skill /\ ServerEvent(versions, e)
    <3>1. SignedIn(versions, k, Serving(k))
      BY <2>2, ServingFacts DEF Download
    <3>2. e = [skill |-> k, version |-> Serving(k), event |-> "fetch", by |-> "server"]
      BY <2>2 DEF Download, Record
    <3> QED
      BY <3>1, <3>2 DEF ServerEvent
  <2>3. ASSUME NEW k \in Skill, NEW event \in {"fetch", "check", "apply"},
               ReportUsage(k, event) \/ UsageRecord(k, 1, event), NEW e \in usage', e \notin usage
        PROVE  e.skill \in Skill /\ ServerEvent(versions, e)
    <3>1. e.skill = k /\ e.by \in {"agent", "client"}
      BY <2>3 DEF ReportUsage, UsageRecord, Record
    <3> QED
      BY <3>1 DEF ServerEvent
  <2> QED
    BY <2>1, <2>2, <2>3
<1>5. \A e \in usage' : e.skill \in Skill
  BY <1>1, <1>4 DEF SkillTypeOK
<1>6. told' \in [Agent -> AnswerGiven]
  BY <1>1, <1>2 DEF SkillTypeOK
<1> QED
  BY <1>2, <1>3, <1>4, <1>5, <1>6, SkillQuietStep

\* A skill is created, with its first draft.
LEMMA CreateStep ==
  ASSUME SkillInv, NEW p \in Agent, CreateSkill(p)
  PROVE  SkillInv'
<1> USE DEF People
<1> DEFINE k == call[p].skill
<1>1. SkillTypeOK /\ call[p] \in Call /\ call[p].op = "created"
  BY DEF SkillInv, SkillTypeOK, CreateSkill
<1>2. k \in Skill
  BY <1>1 DEF Call, NoCall
<1>3. NoCall \in Call /\ CallHolds(versions', NoCall) /\ Untold \in AnswerGiven /\ AnswerHolds(maturity', versions', Untold)
  BY DEF Call, AnswerGiven, CallHolds, AnswerHolds, NoCall, Untold
<1>4. CASE maturity[k] # "absent"
  <2>1. /\ UNCHANGED <<maturity, versions, current, usage>>
        /\ call' = [call EXCEPT ![p] = NoCall] /\ told' = [told EXCEPT ![p] = Untold]
    BY <1>4 DEF CreateSkill, Conclude
  <2>2. call' \in [People -> Call] /\ told' \in [Agent -> AnswerGiven] /\ \A e \in usage' : e.skill \in Skill
    BY <1>1, <1>3, <2>1 DEF SkillTypeOK
  <2> QED
    BY <1>1, <1>3, <2>1, <2>2, SkillQuietStep DEF SkillTypeOK
<1>5. CASE maturity[k] = "absent"
  <2> DEFINE t == [outcome |-> "created", skill |-> k, minor |-> 1]
             first == <<Draft(1)>>
  <2>1. /\ maturity' = [maturity EXCEPT ![k] = "draft"] /\ versions' = [versions EXCEPT ![k] = first]
        /\ UNCHANGED <<current, usage>>
        /\ call' = [call EXCEPT ![p] = NoCall] /\ told' = [told EXCEPT ![p] = t]
    BY <1>5 DEF CreateSkill, Conclude
  <2>2. first \in Seq(Version) /\ DOMAIN first = {1} /\ Len(first) = 1 /\ first[1].minor = 1 /\ first # << >>
    BY DEF Draft, Version
  <2>3. t \in AnswerGiven /\ t.outcome = "created" /\ t.skill = k /\ t.minor = 1
    BY <1>2 DEF AnswerGiven
  <2> HIDE DEF k, t, first
  <2>4. /\ maturity'[k] = "draft" /\ versions'[k] = first
        /\ \A j \in Skill \ {k} : maturity'[j] = maturity[j] /\ versions'[j] = versions[j]
    BY <1>1, <1>2, <2>1 DEF SkillTypeOK
  <2>5. SkillTypeOK'
    BY <1>1, <1>2, <1>3, <2>1, <2>2, <2>3 DEF SkillTypeOK
  <2>6. Grows
    BY <1>2, <1>5, <2>4, ServingFacts DEF Grows
  <2>7. Shelved'
    BY <1>2, <2>2, <2>4 DEF SkillInv, Shelved
  <2>8. CurrentIsSigned'
    <3>1. current[k] = 0
      BY <1>2, <1>5, ServingFacts
    <3> QED
      BY <1>2, <2>1, <2>4, <3>1 DEF SkillInv, CurrentIsSigned, SignedIn, There
  <2>9. NumbersAreUnique'
    <3>1. \A j \in Skill : VersionId(j)' = DOMAIN versions'[j]
      BY <2>5 DEF SkillTypeOK, VersionId
    <3>2. \A j \in Skill : VersionId(j) = DOMAIN versions[j]
      BY ServingFacts
    <3> QED
      BY <1>2, <2>2, <2>4, <3>1, <3>2 DEF SkillInv, NumbersAreUnique
  <2>10. AnswerHolds(maturity', versions', t)
    BY <2>2, <2>3, <2>4 DEF AnswerHolds
  <2>11. /\ \A q \in People : call'[q] = call[q] \/ CallHolds(versions', call'[q])
         /\ \A q \in Agent : told'[q] = told[q] \/ AnswerHolds(maturity', versions', told'[q])
    BY <1>1, <1>3, <2>1, <2>10 DEF SkillTypeOK
  <2> QED
    BY <2>1, <2>5, <2>6, <2>7, <2>8, <2>9, <2>11, GrowthKeeps
<1> QED
  BY <1>4, <1>5

\* A version is added if its number is free, else the proposal fails.
LEMMA AddStep ==
  ASSUME SkillInv, NEW p \in Agent, AddVersion(p)
  PROVE  SkillInv'
<1> USE DEF People
<1> DEFINE k == call[p].skill  minor == call[p].minor
<1>1. SkillTypeOK /\ call[p] \in Call /\ CallHolds(versions, call[p]) /\ call[p].op = "number"
  BY DEF SkillInv, SkillTypeOK, AddVersion
<1>2. k \in Skill /\ minor \in Nat /\ call[p].serving \in Nat /\ SignedIn(versions, k, call[p].serving)
  BY <1>1 DEF Call, NoCall, CallHolds
<1>3. NoCall \in Call /\ CallHolds(versions', NoCall) /\ Untold \in AnswerGiven /\ AnswerHolds(maturity', versions', Untold)
  BY DEF Call, AnswerGiven, CallHolds, AnswerHolds, NoCall, Untold
<1>4. CASE ~ NumberFree(k, minor)
  <2>1. /\ UNCHANGED <<maturity, versions, current, usage>>
        /\ call' = [call EXCEPT ![p] = NoCall] /\ told' = [told EXCEPT ![p] = Untold]
    BY <1>4 DEF AddVersion, Conclude
  <2>2. call' \in [People -> Call] /\ told' \in [Agent -> AnswerGiven] /\ \A e \in usage' : e.skill \in Skill
    BY <1>1, <1>3, <2>1 DEF SkillTypeOK
  <2> QED
    BY <1>1, <1>3, <2>1, <2>2, SkillQuietStep DEF SkillTypeOK
<1>5. CASE NumberFree(k, minor)
  <2> DEFINE t == [outcome |-> "new_version", skill |-> k, minor |-> minor, serving |-> call[p].serving]
             longer == Append(versions[k], Draft(minor))
             next == Len(versions[k]) + 1
  <2>1. /\ versions' = [versions EXCEPT ![k] = longer] /\ UNCHANGED <<maturity, current, usage>>
        /\ call' = [call EXCEPT ![p] = NoCall] /\ told' = [told EXCEPT ![p] = t]
    BY <1>5 DEF AddVersion, Conclude
  <2>2. /\ t \in AnswerGiven /\ t.outcome = "new_version" /\ t.skill = k /\ t.minor = minor
        /\ t.serving = call[p].serving
    BY <1>2 DEF AnswerGiven
  <2> HIDE DEF k, t, minor
  <2>3. versions[k] \in Seq(Version) /\ DOMAIN versions[k] # {} /\ maturity[k] # "absent"
        /\ VersionId(k) = DOMAIN versions[k]
    BY <1>2, ServingFacts DEF SignedIn, There
  <2>4. /\ longer \in Seq(Version) /\ DOMAIN longer = DOMAIN versions[k] \cup {next} /\ longer # << >>
        /\ \A v \in DOMAIN versions[k] : longer[v] = versions[k][v]
        /\ longer[next].minor = minor
    <3>1. Draft(minor) \in Version /\ Draft(minor).minor = minor
      BY <1>2 DEF Draft, Version
    <3> QED
      BY <2>3, <3>1
  <2> HIDE DEF longer, next
  <2>5. /\ versions'[k] = longer /\ maturity' = maturity
        /\ \A j \in Skill \ {k} : versions'[j] = versions[j]
    BY <1>1, <1>2, <2>1 DEF SkillTypeOK
  <2>6. SkillTypeOK'
    BY <1>1, <1>2, <1>3, <2>1, <2>2, <2>4 DEF SkillTypeOK
  <2>7. Grows
    BY <1>2, <2>4, <2>5 DEF Grows
  <2>8. Shelved'
    BY <1>2, <2>3, <2>4, <2>5 DEF SkillInv, Shelved
  <2>9. CurrentIsSigned'
    BY <1>2, <2>1, <2>4, <2>5 DEF SkillInv, CurrentIsSigned, SignedIn, There
  <2>10. NumbersAreUnique'
    <3>1. \A j \in Skill : VersionId(j)' = DOMAIN versions'[j]
      BY <2>6 DEF SkillTypeOK, VersionId
    <3>2. \A j \in Skill : VersionId(j) = DOMAIN versions[j]
      BY ServingFacts
    <3>3. \A v \in DOMAIN versions[k] : versions[k][v].minor # minor
      BY <1>5, <2>3 DEF NumberFree
    <3>4. \A v, w \in DOMAIN longer : v # w => longer[v].minor # longer[w].minor
      BY <1>2, <2>3, <2>4, <3>3 DEF SkillInv, NumbersAreUnique
    <3> QED
      BY <1>2, <2>5, <3>1, <3>2, <3>4 DEF SkillInv, NumbersAreUnique
  <2>11. AnswerHolds(maturity', versions', t)
    <3>1. \E v \in DOMAIN longer : longer[v].minor = minor
      BY <2>4
    <3>2. SignedIn(versions', k, call[p].serving)
      BY <1>2, <2>4, <2>5 DEF SignedIn, There, k
    <3> QED
      BY <2>2, <2>3, <2>5, <3>1, <3>2 DEF AnswerHolds
  <2>12. /\ \A q \in People : call'[q] = call[q] \/ CallHolds(versions', call'[q])
         /\ \A q \in Agent : told'[q] = told[q] \/ AnswerHolds(maturity', versions', told'[q])
    BY <1>1, <1>3, <2>1, <2>11 DEF SkillTypeOK
  <2> QED
    BY <2>1, <2>6, <2>7, <2>8, <2>9, <2>10, <2>12, GrowthKeeps
<1> QED
  BY <1>4, <1>5

\* A draft is signed unless somebody was faster; what serves changes by that alone.
LEMMA SignStep ==
  ASSUME SkillInv, NEW p \in Maintainer, Sign(p)
  PROVE  SkillInv' /\ ServingIsOnlyReplacedBySigning
<1> USE DEF People
<1> DEFINE k == call[p].skill  v == call[p].version
<1>1. SkillTypeOK /\ call[p] \in Call /\ CallHolds(versions, call[p]) /\ call[p].op = "sign"
  BY DEF SkillInv, SkillTypeOK, Sign
<1>2. k \in Skill /\ v \in Nat /\ v \in DOMAIN versions[k]
  BY <1>1 DEF Call, NoCall, CallHolds, There
<1>3. NoCall \in Call /\ \A shelf : CallHolds(shelf, NoCall)
  BY DEF Call, CallHolds, NoCall
<1>4. /\ call' = [call EXCEPT ![p] = NoCall] /\ UNCHANGED <<usage, told>>
      /\ call' \in [People -> Call] /\ told' \in [Agent -> AnswerGiven] /\ \A e \in usage' : e.skill \in Skill
      /\ \A q \in People : call'[q] = call[q] \/ CallHolds(versions', call'[q])
      /\ \A q \in People : call'[q] = call[q] \/ CallHolds(versions, call'[q])
  BY <1>1, <1>3 DEF Sign, SkillTypeOK
<1>5. CASE ~ Signable(k, v)
  <2>1. UNCHANGED <<maturity, versions, current>>
    BY <1>5 DEF Sign
  <2>2. SkillInv'
    BY <1>4, <2>1, SkillQuietStep
  <2>3. \A j \in Skill : Serving(j)' = Serving(j)
    BY <2>1 DEF Serving
  <2> QED
    BY <2>2, <2>3 DEF ServingIsOnlyReplacedBySigning
<1>6. CASE Signable(k, v)
  <2>1. /\ versions' = [versions EXCEPT ![k][v].signed = TRUE] /\ current' = [current EXCEPT ![k] = v]
        /\ maturity' = [maturity EXCEPT ![k] = "published"]
    BY <1>6 DEF Sign
  <2> HIDE DEF k, v
  <2>2. versions[k] \in Seq(Version) /\ versions[k][v] \in Version
    BY <1>1, <1>2 DEF SkillTypeOK
  <2> DEFINE row == [versions[k][v] EXCEPT !.signed = TRUE]
             written == [versions[k] EXCEPT ![v] = row]
  <2>3. row \in Version /\ row.minor = versions[k][v].minor /\ row.signed
    BY <2>2 DEF Version
  <2>4. versions' = [versions EXCEPT ![k] = written]
    BY <2>1
  <2> HIDE DEF row
  <2>5. /\ written \in Seq(Version) /\ DOMAIN written = DOMAIN versions[k] /\ written[v] = row
        /\ \A w \in DOMAIN versions[k] \ {v} : written[w] = versions[k][w]
    BY <1>2, <2>2, <2>3
  <2> HIDE DEF written
  <2>6. /\ versions'[k] = written /\ maturity'[k] = "published" /\ current'[k] = v
        /\ \A j \in Skill \ {k} : versions'[j] = versions[j] /\ maturity'[j] = maturity[j] /\ current'[j] = current[j]
    BY <1>1, <1>2, <2>1, <2>4 DEF SkillTypeOK
  <2>7. SkillTypeOK'
    <3>1. versions' \in [Skill -> Seq(Version)]
      BY <1>1, <1>2, <2>4, <2>5 DEF SkillTypeOK
    <3>2. maturity' \in [Skill -> {"absent", "draft", "published"}] /\ current' \in [Skill -> Nat]
      BY <1>1, <1>2, <2>1 DEF SkillTypeOK
    <3> QED
      BY <1>4, <3>1, <3>2 DEF SkillTypeOK
  <2>8. Grows
    <3>1. \A w \in DOMAIN versions[k] :
            /\ w \in DOMAIN versions'[k] /\ versions'[k][w].minor = versions[k][w].minor
            /\ versions[k][w].signed => versions'[k][w].signed
      BY <2>3, <2>5, <2>6
    <3> QED
      BY <1>2, <2>6, <3>1 DEF Grows
  <2>9. Shelved'
    <3>1. written # << >>
      BY <1>2, <2>5
    <3> QED
      BY <1>2, <2>6, <3>1 DEF SkillInv, Shelved
  <2>10. CurrentIsSigned'
    BY <1>2, <2>3, <2>5, <2>6 DEF SkillInv, CurrentIsSigned, SignedIn, There
  <2>11. NumbersAreUnique'
    <3>1. \A j \in Skill : VersionId(j)' = DOMAIN versions'[j]
      BY <2>7 DEF SkillTypeOK, VersionId
    <3>2. \A j \in Skill : VersionId(j) = DOMAIN versions[j]
      BY ServingFacts
    <3>3. \A w \in DOMAIN written : written[w].minor = versions[k][w].minor
      BY <2>3, <2>5
    <3> QED
      BY <1>2, <2>5, <2>6, <3>1, <3>2, <3>3 DEF SkillInv, NumbersAreUnique
  <2>12. \A q \in Agent : told'[q] = told[q]
    BY <1>4
  <2>13. SkillInv'
    BY <1>4, <2>7, <2>8, <2>9, <2>10, <2>11, <2>12, GrowthKeeps
  <2>14. ServingIsOnlyReplacedBySigning
    <3> SUFFICES ASSUME NEW j \in Skill, Serving(j)' # Serving(j)
                 PROVE  Serving(j)' # 0 /\ ~ versions[j][Serving(j)'].signed
      BY DEF ServingIsOnlyReplacedBySigning
    <3>1. Serving(j)' = current'[j] /\ Serving(j) = current[j]
      <4>1. Serving(j) = current[j]
        BY ServingFacts
      <4>2. Serving(j)' = current'[j]
        BY <2>10 DEF CurrentIsSigned, Serving, SignedIn
      <4> QED
        BY <4>1, <4>2
    <3>2. j = k /\ Serving(j)' = v
      BY <2>6, <3>1
    <3>3. v # 0
      BY <1>2, <2>2
    <3> QED
      BY <1>6, <3>2, <3>3 DEF Signable
  <2> QED
    BY <2>13, <2>14
<1> QED
  BY <1>5, <1>6

\* Every step of the skills keeps the invariant, and what serves.
LEMMA SkillStep == SkillInv /\ [SkillsNext]_skillVars => SkillInv' /\ ServingIsOnlyReplacedBySigning
<1> SUFFICES ASSUME SkillInv, [SkillsNext]_skillVars PROVE SkillInv' /\ ServingIsOnlyReplacedBySigning
  OBVIOUS
<1>1. CASE \E p \in Maintainer : Sign(p)
  BY <1>1, SignStep
<1>2. CASE SkillsNext /\ ~ \E p \in Maintainer : Sign(p)
  <2>1. SkillInv'
    BY <1>2, ProposeStep, ReadStep, UseStep, CreateStep, AddStep DEF SkillsNext, People
  <2>2. current' = current
    BY <1>2
    DEF SkillsNext, ProposeSkill, SkillPropose, CreateSkill, ReadNewest, AddVersion, PickDraft, Download,
        ReportUsage, UsageRecord, FetchSkill, RecordFetch
  <2>3. \A k \in Skill : Serving(k) = current[k]
    BY ServingFacts
  <2>4. \A k \in Skill : Serving(k)' = current'[k]
    BY <2>1 DEF SkillInv, CurrentIsSigned, Serving, SignedIn
  <2> QED
    BY <2>1, <2>2, <2>3, <2>4 DEF ServingIsOnlyReplacedBySigning
<1>3. CASE UNCHANGED skillVars
  <2>1. SkillInv'
    BY <1>3 DEF skillVars, SkillInv, SkillTypeOK, Shelved, CurrentIsSigned, NumbersAreUnique, VersionId
  <2>2. \A k \in Skill : Serving(k)' = Serving(k)
    BY <1>3 DEF skillVars, Serving
  <2> QED
    BY <2>1, <2>2 DEF ServingIsOnlyReplacedBySigning
<1> QED
  BY <1>1, <1>2, <1>3

\* What the invariant says of fetches and answers.
LEMMA SkillsHold == SkillInv => NumbersAreUnique /\ FetchedIsSigned /\ AnswersHold
<1> SUFFICES ASSUME SkillInv PROVE FetchedIsSigned /\ AnswersHold
  BY DEF SkillInv
<1>1. FetchedIsSigned
  BY DEF SkillInv, ServerEvent, SignedIn, FetchedIsSigned
<1>2. ASSUME NEW p \in Agent
      PROVE  LET t == told[p] IN
             /\ t.outcome # "none" => maturity[t.skill] # "absent"
             /\ t.outcome \in {"created", "new_version"} =>
                  \E v \in VersionId(t.skill) : versions[t.skill][v].minor = t.minor
             /\ t.outcome = "new_version" => t.serving # 0 /\ versions[t.skill][t.serving].signed
  <2>1. told[p] \in AnswerGiven /\ AnswerHolds(maturity, versions, told[p])
    BY DEF SkillInv, SkillTypeOK
  <2>2. told[p].outcome \in {"created", "new_version"} => told[p].skill \in Skill
    BY <2>1 DEF AnswerGiven, Untold
  <2>3. \A k \in Skill : VersionId(k) = DOMAIN versions[k] /\ 0 \notin DOMAIN versions[k]
    <3>1. \A k \in Skill : versions[k] \in Seq(Version) /\ VersionId(k) = DOMAIN versions[k]
      BY ServingFacts
    <3> QED
      BY <3>1
  <2> QED
    BY <2>1, <2>2, <2>3 DEF AnswerHolds, SignedIn, There
<1> QED
  BY <1>1, <1>2 DEF AnswersHold

-----------------------------------------------------------------------------
\* A session's replies.

\* The types of a session.
Line == [body : Bodies, size : Sizes, eol : BOOLEAN]
Codes == {"ok", "-32700", "-32602", "-32601", "-32600", "-32001"}
Reply == [id : Nat, code : Codes]
SessionTypeOK ==
  /\ lines \in Seq(Line)
  /\ at \in Nat /\ 1 <= at /\ at <= Len(lines) + 1 /\ left \in Nat
  /\ awaiting \in Tools \union {"none"}
  /\ replies \in Seq(Reply)

\* The loop has never begun in the middle of a line, an awaited call is that of the
\* line before, and a reply is out for every spoken line before that but one whose
\* call is awaited or whose reply found standard output gone.
SessionInv ==
  /\ SessionTypeOK
  /\ at \in DOMAIN lines => left = lines[at].size
  /\ awaiting # "none" => session = "up" /\ at > 1 /\ lines[at - 1].body = awaiting
  /\ Len(replies) = PlaceOf(at - 1) - (IF awaiting # "none" \/ session = "broken" THEN 1 ELSE 0)
  /\ \A i \in 1..(at - 1) : Spoken(i) /\ PlaceOf(i) <= Len(replies) => replies[PlaceOf(i)].id = OwnId(i)

\* What the types give a step to go by.
LEMMA SessionFacts ==
  ASSUME SessionTypeOK
  PROVE  /\ Len(lines) \in Nat /\ DOMAIN lines = 1..Len(lines) /\ Len(replies) \in Nat
         /\ \A i \in 1..Len(lines) : lines[i] \in Line /\ lines[i].size \in Nat
         /\ at - 1 \in Nat /\ (at - 1) + 1 = at /\ at - 1 <= Len(lines)
         /\ (at \in DOMAIN lines <=> at <= Len(lines))
<1>1. lines \in Seq(Line) /\ replies \in Seq(Reply) /\ at \in Nat /\ 1 <= at /\ at <= Len(lines) + 1
  BY DEF SessionTypeOK
<1>2. /\ Len(lines) \in Nat /\ DOMAIN lines = 1..Len(lines) /\ Len(replies) \in Nat
      /\ lines \in [1..Len(lines) -> Line]
  BY <1>1, LenProperties
<1>3. \A i \in 1..Len(lines) : lines[i] \in Line /\ lines[i].size \in Nat
  <2>1. \A l \in Line : l.size \in Nat
    BY SessionAssumption DEF Line
  <2> QED
    BY <1>2, <2>1
<1> QED
  BY <1>1, <1>2, <1>3

\* Places count up by one at each spoken line.
LEMMA PlacesCount ==
  ASSUME NEW i \in Nat
  PROVE  /\ PlaceOf(i) \in Nat /\ PlaceOf(0) = 0
         /\ PlaceOf(i + 1) = PlaceOf(i) + (IF Spoken(i + 1) THEN 1 ELSE 0)
<1> DEFINE S == {j \in 1..i : Spoken(j)}
<1>1. IsFiniteSet(S)
  <2>1. IsFiniteSet(1..i)
    BY FS_Interval
  <2> QED
    BY <2>1, FS_Subset
<1>2. {j \in 1..(i + 1) : Spoken(j)} = IF Spoken(i + 1) THEN S \union {i + 1} ELSE S
  <2>1. 1..(i + 1) = 1..i \union {i + 1}
    OBVIOUS
  <2> QED
    BY <2>1
<1>3. i + 1 \notin S
  OBVIOUS
<1>4. {j \in 1..0 : Spoken(j)} = {}
  OBVIOUS
<1> HIDE DEF S
<1>5. Cardinality(S) \in Nat /\ Cardinality(S \union {i + 1}) = Cardinality(S) + 1
  BY <1>1, <1>3, FS_AddElement, FS_CardinalityType
<1>6. PlaceOf(0) = 0
  BY <1>4, FS_EmptySet DEF PlaceOf
<1> QED
  BY <1>2, <1>5, <1>6 DEF PlaceOf, S

\* A spoken line comes after every line before it.
LEMMA PlacesGrow ==
  ASSUME NEW i \in Nat, NEW j \in Nat, i < j
  PROVE  PlaceOf(i) <= PlaceOf(j) /\ (Spoken(j) => PlaceOf(i) < PlaceOf(j))
<1> DEFINE S == {n \in 1..i : Spoken(n)}
           T == {n \in 1..j : Spoken(n)}
<1>1. IsFiniteSet(T)
  <2>1. IsFiniteSet(1..j)
    BY FS_Interval
  <2> QED
    BY <2>1, FS_Subset
<1>2. S \in SUBSET T /\ j \notin S /\ (Spoken(j) => j \in T)
  OBVIOUS
<1>3. PlaceOf(i) = Cardinality(S) /\ PlaceOf(j) = Cardinality(T)
  BY DEF PlaceOf
<1> HIDE DEF S, T
<1>4. Cardinality(S) <= Cardinality(T) /\ (Spoken(j) => Cardinality(S) # Cardinality(T))
  BY <1>1, <1>2, FS_Subset
<1> QED
  BY <1>3, <1>4, PlacesCount

\* Nothing has been said.
LEMMA SessionStart == SessionInit => SessionInv
<1> SUFFICES ASSUME SessionInit PROVE SessionInv
  OBVIOUS
<1>1. PlaceOf(0) = 0
  BY PlacesCount
<1> QED
  BY <1>1, EmptySeq DEF SessionInit, SessionInv, SessionTypeOK

\* A further line changes nothing about those before.
LEMMA TypeKeeps ==
  ASSUME SessionInv, NEW body \in Bodies, NEW size \in Sizes, NEW eol \in BOOLEAN, Type(body, size, eol)
  PROVE  SessionInv'
<1> DEFINE l == [body |-> body, size |-> size, eol |-> eol]
<1>0. SessionTypeOK /\ lines' = Append(lines, l) /\ UNCHANGED <<at, awaiting, replies, session>>
      /\ left' = IF at = Len(lines) + 1 THEN size ELSE left
  BY DEF SessionInv, Type
<1>1. l \in Line /\ l.size = size /\ size \in Nat
  BY SessionAssumption DEF Line
<1> HIDE DEF l
<1>2. lines \in Seq(Line) /\ Len(lines) \in Nat /\ at \in Nat /\ at <= Len(lines) + 1 /\ at - 1 \in Nat
      /\ 1 <= at /\ DOMAIN lines = 1..Len(lines)
  BY <1>0, SessionFacts DEF SessionTypeOK
<1>3. /\ lines' \in Seq(Line) /\ Len(lines') = Len(lines) + 1 /\ lines'[Len(lines) + 1] = l
      /\ \A i \in 1..Len(lines) : lines'[i] = lines[i]
  BY <1>0, <1>1, <1>2, AppendProperties
<1>4. SessionTypeOK'
  BY <1>0, <1>1, <1>2, <1>3 DEF SessionTypeOK
<1>5. (at \in DOMAIN lines => left = lines[at].size)'
  <2>1. DOMAIN lines' = 1..(Len(lines) + 1)
    BY <1>3, LenProperties
  <2>2. CASE at = Len(lines) + 1
    BY <1>0, <1>1, <1>3, <2>2
  <2>3. CASE at \in 1..Len(lines)
    BY <1>0, <1>2, <1>3, <2>3 DEF SessionInv
  <2> QED
    BY <1>0, <1>2, <2>1, <2>2, <2>3
<1>6. \A i \in 1..(at - 1) : i \in 1..Len(lines) /\ i \in Nat
  BY <1>2
<1>7. \A i \in 1..(at - 1) : (Spoken(i))' = Spoken(i) /\ (OwnId(i))' = OwnId(i)
  BY <1>3, <1>6 DEF Spoken, OwnId
<1>8. \A i \in 0..(at - 1) : (PlaceOf(i))' = PlaceOf(i)
  <2>1. \A i \in 0..(at - 1) : \A j \in 1..i : j \in 1..(at - 1)
    BY <1>2
  <2>2. \A i \in 0..(at - 1) : {j \in 1..i : (Spoken(j))'} = {j \in 1..i : Spoken(j)}
    BY <1>7, <2>1
  <2> QED
    BY <2>2 DEF PlaceOf
<1>9. awaiting # "none" => lines'[at - 1] = lines[at - 1]
  <2>1. awaiting # "none" => at - 1 \in 1..Len(lines)
    BY <1>2 DEF SessionInv
  <2> QED
    BY <1>3, <2>1
<1>10. at - 1 \in 0..(at - 1) /\ \A i \in 1..(at - 1) : i \in 0..(at - 1)
  BY <1>2
<1> QED
  <2>1. (awaiting # "none" => session = "up" /\ at > 1 /\ lines[at - 1].body = awaiting)'
    BY <1>0, <1>9 DEF SessionInv
  <2>2. (Len(replies) = PlaceOf(at - 1) - (IF awaiting # "none" \/ session = "broken" THEN 1 ELSE 0))'
    BY <1>0, <1>8, <1>10 DEF SessionInv
  <2>3. (\A i \in 1..(at - 1) : Spoken(i) /\ PlaceOf(i) <= Len(replies) => replies[PlaceOf(i)].id = OwnId(i))'
    BY <1>0, <1>7, <1>8, <1>10 DEF SessionInv
  <2> QED
    BY <1>4, <1>5, <2>1, <2>2, <2>3 DEF SessionInv

\* The reply of the line last read is the one that is due.
LEMMA ReplyIsDue ==
  ASSUME SessionInv, NEW n \in Nat \ {0}, n \in {at - 1, at}, n <= Len(lines), Spoken(n),
         Len(replies) + 1 = PlaceOf(n), NEW code \in Codes,
         replies' = Append(replies, [id |-> OwnId(n), code |-> code]), UNCHANGED lines
  PROVE  /\ replies' \in Seq(Reply) /\ Len(replies') = PlaceOf(n)
         /\ \A i \in 1..n : Spoken(i) /\ PlaceOf(i) <= Len(replies') => replies'[PlaceOf(i)].id = OwnId(i)
<1>1. [id |-> OwnId(n), code |-> code] \in Reply
  BY DEF OwnId, Reply
<1>0. SessionTypeOK /\ replies \in Seq(Reply) /\ Len(replies) \in Nat /\ at \in Nat /\ at - 1 \in Nat
  BY SessionFacts DEF SessionInv, SessionTypeOK
<1>2. /\ replies' \in Seq(Reply) /\ Len(replies') = Len(replies) + 1
      /\ replies'[PlaceOf(n)] = [id |-> OwnId(n), code |-> code]
      /\ \A i \in 1..Len(replies) : replies'[i] = replies[i]
  BY <1>0, <1>1, AppendProperties
<1>3. ASSUME NEW i \in 1..n, i < n, Spoken(i) PROVE replies'[PlaceOf(i)].id = OwnId(i)
  <2>1. PlaceOf(i) < PlaceOf(n) /\ PlaceOf(i - 1) < PlaceOf(i) /\ PlaceOf(i - 1) \in Nat /\ PlaceOf(i) \in Nat /\ PlaceOf(n) \in Nat
    <3>1. i \in Nat /\ i - 1 \in Nat /\ i - 1 < i
      OBVIOUS
    <3> QED
      BY <1>3, <3>1, PlacesGrow, PlacesCount
  <2>2. PlaceOf(i) \in 1..Len(replies)
    BY <1>0, <2>1
  <2>3. i \in 1..(at - 1)
    BY <1>0, <1>3
  <2>4. replies[PlaceOf(i)].id = OwnId(i)
    BY <1>3, <2>2, <2>3 DEF SessionInv
  <2> QED
    BY <1>2, <2>2, <2>4
<1>4. \A i \in 1..n : i = n \/ i < n
  OBVIOUS
<1>5. replies'[PlaceOf(n)].id = OwnId(n)
  BY <1>2
<1> QED
  BY <1>2, <1>3, <1>4, <1>5

\* The loop reads a line whole, or stops.
LEMMA LineKeeps ==
  ASSUME SessionInv, HandleMessage
  PROVE  SessionInv'
<1> DEFINE l == lines[at]
<1>0. /\ SessionTypeOK /\ at \in DOMAIN lines /\ session = "up" /\ awaiting = "none" /\ UNCHANGED lines
      /\ left = l.size /\ left \in Nat /\ Cap \in Nat /\ at \in Nat /\ 1 <= at
  BY SessionAssumption DEF SessionInv, SessionTypeOK, HandleMessage, Reading
<1>f. /\ Len(lines) \in Nat /\ DOMAIN lines = 1..Len(lines) /\ at <= Len(lines) /\ at - 1 \in Nat
      /\ Len(replies) \in Nat /\ \A i \in 1..Len(lines) : lines[i].size \in Nat
  BY <1>0, SessionFacts
<1>1. left <= Cap /\ Remainder(Cap) = 0 /\ Piece(l) = l.body
  <2>1. ~ Oversized(l)
    BY DEF HandleMessage
  <2>2. left <= Cap
    BY <1>0, <2>1 DEF Oversized
  <2> QED
    BY <1>0, <2>2 DEF Remainder, Piece
<1>2. at' = at + 1 /\ left' = IF at + 1 \in DOMAIN lines THEN lines[at + 1].size ELSE 0
  BY <1>1 DEF HandleMessage, Consume
<1>3. /\ left' \in Nat /\ at' \in Nat /\ 1 <= at' /\ at' <= Len(lines) + 1
      /\ (at' \in DOMAIN lines => left' = lines[at'].size)
  BY <1>0, <1>f, <1>2
<1>4. /\ PlaceOf(at - 1) \in Nat /\ PlaceOf(at) = PlaceOf(at - 1) + (IF Spoken(at) THEN 1 ELSE 0)
      /\ Len(replies) = PlaceOf(at - 1)
  <2>1. (at - 1) + 1 = at
    BY <1>0
  <2>2. PlaceOf(at - 1) \in Nat /\ PlaceOf((at - 1) + 1) = PlaceOf(at - 1) + (IF Spoken((at - 1) + 1) THEN 1 ELSE 0)
    BY <1>f, PlacesCount
  <2>3. Len(replies) = PlaceOf(at - 1) - 0
    BY <1>0 DEF SessionInv
  <2> QED
    BY <2>1, <2>2, <2>3
<1>5. \A i : (Spoken(i))' = Spoken(i) /\ (OwnId(i))' = OwnId(i) /\ (PlaceOf(i))' = PlaceOf(i)
  BY <1>0 DEF Spoken, OwnId, PlaceOf
<1>6. at' - 1 = at /\ at' > 1 /\ \A i \in 1..at : i = at \/ i \in 1..(at - 1)
  BY <1>0, <1>f, <1>2
<1>7. ASSUME Spoken(at), UNCHANGED replies
      PROVE  \A i \in 1..at : Spoken(i) /\ PlaceOf(i) <= Len(replies) => replies[PlaceOf(i)].id = OwnId(i)
  <2>1. PlaceOf(at) > Len(replies)
    BY <1>4, <1>7
  <2> QED
    BY <1>f, <1>4, <1>6, <2>1 DEF SessionInv
<1>8. CASE Piece(l) \in Silent /\ UNCHANGED <<awaiting, replies, session>>
  <2>1. ~ Spoken(at) /\ PlaceOf(at) = Len(replies)
    BY <1>1, <1>4, <1>8 DEF Spoken
  <2>2. \A i \in 1..at : Spoken(i) => i \in 1..(at - 1)
    BY <1>6, <2>1
  <2>3. SessionTypeOK'
    BY <1>0, <1>3, <1>8 DEF SessionTypeOK
  <2>4. awaiting' = "none" /\ session' = "up" /\ lines' = lines /\ replies' = replies
    BY <1>0, <1>8
  <2>5. Len(replies') = (PlaceOf(at - 1))'
    <3>1. (PlaceOf(at - 1))' = PlaceOf(at)
      BY <1>0, <1>6 DEF PlaceOf, Spoken
    <3> QED
      BY <1>4, <2>1, <2>4, <3>1
  <2>6. \A i \in 1..(at' - 1) :
          (Spoken(i))' /\ (PlaceOf(i))' <= Len(replies') => replies'[(PlaceOf(i))'].id = (OwnId(i))'
    BY <1>0, <1>5, <1>6, <2>2, <2>4 DEF SessionInv
  <2> QED
    <3>1. (Len(replies) = PlaceOf(at - 1) - (IF awaiting # "none" \/ session = "broken" THEN 1 ELSE 0))'
      <4>1. (PlaceOf(at - 1))' = Len(replies') /\ Len(replies') \in Nat
        BY <1>f, <2>4, <2>5
      <4> QED
        BY <2>4, <4>1
    <3> QED
      BY <1>3, <2>3, <2>4, <2>6, <3>1 DEF SessionInv
<1>9. ASSUME NEW code \in Codes, Spoken(at), Respond(OwnId(at), code), UNCHANGED awaiting PROVE SessionInv'
  <2>1. CASE replies' = Append(replies, [id |-> OwnId(at), code |-> code]) /\ UNCHANGED session
    <3>1. /\ replies' \in Seq(Reply) /\ Len(replies') = PlaceOf(at)
          /\ \A i \in 1..at : Spoken(i) /\ PlaceOf(i) <= Len(replies') => replies'[PlaceOf(i)].id = OwnId(i)
      <4>1. at \in Nat \ {0} /\ at \in {at - 1, at} /\ at <= Len(lines) /\ Len(replies) + 1 = PlaceOf(at)
        BY <1>0, <1>f, <1>4, <1>9
      <4> QED
        BY <1>0, <1>9, <2>1, <4>1, ReplyIsDue
    <3>2. SessionTypeOK'
      BY <1>0, <1>3, <1>9, <3>1 DEF SessionTypeOK
    <3>3. Len(replies') = PlaceOf(at) - 0
      BY <1>4, <1>9, <3>1
    <3> QED
      BY <1>0, <1>3, <1>5, <1>6, <1>9, <2>1, <3>1, <3>2, <3>3 DEF SessionInv
  <2>2. CASE replies' = replies /\ session' = "broken"
    <3>1. SessionTypeOK'
      BY <1>0, <1>3, <1>9, <2>2 DEF SessionTypeOK
    <3>2. \A i \in 1..at : Spoken(i) /\ PlaceOf(i) <= Len(replies) => replies[PlaceOf(i)].id = OwnId(i)
      BY <1>7, <1>9, <2>2
    <3>3. Len(replies) = PlaceOf(at) - 1
      BY <1>4, <1>9
    <3> QED
      BY <1>0, <1>3, <1>5, <1>6, <1>9, <2>2, <3>1, <3>2, <3>3 DEF SessionInv
  <2> QED
    BY <1>9, <2>1, <2>2 DEF Respond
<1>10. CASE Piece(l) \in Tools /\ awaiting' = Piece(l) /\ UNCHANGED <<replies, session>>
  <2>1. Spoken(at) /\ awaiting' \in Tools /\ awaiting' # "none" /\ awaiting' = lines[at].body
    BY <1>1, <1>10 DEF Spoken, Silent, Tools
  <2>2. SessionTypeOK'
    BY <1>0, <1>3, <1>10, <2>1 DEF SessionTypeOK
  <2>3. \A i \in 1..at : Spoken(i) /\ PlaceOf(i) <= Len(replies) => replies[PlaceOf(i)].id = OwnId(i)
    BY <1>7, <1>10, <2>1
  <2>4. Len(replies) = PlaceOf(at) - 1
    BY <1>4, <2>1
  <2> QED
    BY <1>0, <1>3, <1>5, <1>6, <1>10, <2>1, <2>2, <2>3, <2>4 DEF SessionInv
<1>11. {"-32700", "-32602", "-32001"} \subseteq Codes
  BY DEF Codes
<1>12. CASE Piece(l) = "garbage" /\ Respond(0, "-32700") /\ UNCHANGED awaiting
  <2>1. OwnId(at) = 0 /\ Spoken(at)
    BY <1>1, <1>12 DEF OwnId, Spoken, Silent
  <2> QED
    BY <1>9, <1>12, <1>11, <2>1
<1>13. ASSUME NEW code \in Codes, Piece(l) \in DOMAIN Immediate \union Tools \union {"no_such_tool"},
              Respond(at, code), UNCHANGED awaiting
       PROVE  SessionInv'
  <2>1. OwnId(at) = at /\ Spoken(at)
    BY <1>1, <1>13 DEF OwnId, Spoken, Silent, Immediate, Tools
  <2> QED
    BY <1>9, <1>13, <2>1
<1>14. \A said \in DOMAIN Immediate : Immediate[said] \in Codes
  BY DEF Immediate, Codes
<1> QED
  BY <1>8, <1>10, <1>11, <1>12, <1>13, <1>14 DEF HandleMessage

\* A call returns.
LEMMA CallKeeps ==
  ASSUME SessionInv, NEW outcome, CallTool(outcome)
  PROVE  SessionInv'
<1> DEFINE code == IF outcome = "invalid" THEN "-32602" ELSE "ok"
<1>0. /\ SessionTypeOK /\ awaiting # "none" /\ awaiting' = "none" /\ session = "up" /\ at > 1
      /\ lines[at - 1].body = awaiting /\ UNCHANGED <<lines, at, left>> /\ Respond(at - 1, code)
      /\ awaiting \in Tools /\ at - 1 \in Nat \ {0} /\ at - 1 <= Len(lines) /\ at \in Nat
      /\ Len(replies) \in Nat
  <2>1. SessionTypeOK /\ awaiting # "none" /\ at > 1 /\ at \in Nat
    BY DEF SessionInv, SessionTypeOK, CallTool
  <2>2. at - 1 \in Nat /\ at - 1 <= Len(lines) /\ at - 1 # 0 /\ Len(replies) \in Nat
    BY <2>1, SessionFacts
  <2> QED
    BY <2>1, <2>2 DEF SessionInv, SessionTypeOK, CallTool
<1>1. OwnId(at - 1) = at - 1 /\ Spoken(at - 1) /\ code \in Codes
  BY <1>0 DEF OwnId, Spoken, Silent, Tools, Codes
<1> HIDE DEF code
<1>2. Len(replies) + 1 = PlaceOf(at - 1) /\ PlaceOf(at - 1) \in Nat
  <2>1. Len(replies) = PlaceOf(at - 1) - 1
    BY <1>0 DEF SessionInv
  <2> QED
    BY <1>0, <2>1, PlacesCount
<1>3. \A i : (Spoken(i))' = Spoken(i) /\ (OwnId(i))' = OwnId(i) /\ (PlaceOf(i))' = PlaceOf(i)
  BY <1>0 DEF Spoken, OwnId, PlaceOf
<1>4. CASE replies' = Append(replies, [id |-> OwnId(at - 1), code |-> code]) /\ UNCHANGED session
  <2>1. /\ replies' \in Seq(Reply) /\ Len(replies') = PlaceOf(at - 1)
        /\ \A i \in 1..(at - 1) : Spoken(i) /\ PlaceOf(i) <= Len(replies') => replies'[PlaceOf(i)].id = OwnId(i)
    BY <1>0, <1>1, <1>2, <1>4, ReplyIsDue
  <2>2. SessionTypeOK'
    BY <1>0, <2>1 DEF SessionTypeOK
  <2>3. Len(replies') = PlaceOf(at - 1) - 0
    BY <1>2, <2>1
  <2> QED
    BY <1>0, <1>3, <1>4, <2>1, <2>2, <2>3 DEF SessionInv
<1>5. CASE replies' = replies /\ session' = "broken"
  <2>1. SessionTypeOK'
    BY <1>0, <1>5 DEF SessionTypeOK
  <2>2. Len(replies) = PlaceOf(at - 1) - 1
    BY <1>0, <1>2
  <2> QED
    BY <1>0, <1>3, <1>5, <2>1, <2>2 DEF SessionInv
<1> QED
  BY <1>0, <1>1, <1>4, <1>5 DEF Respond

\* Every step of a session keeps its replies in step with its lines.
LEMMA SessionStep == SessionInv /\ [SessionNext]_sessionVars => SessionInv'
<1> SUFFICES ASSUME SessionInv, [SessionNext]_sessionVars PROVE SessionInv'
  OBVIOUS
<1>1. CASE UNCHANGED sessionVars
  BY <1>1 DEF sessionVars, SessionInv, SessionTypeOK, Spoken, OwnId, PlaceOf
<1>2. CASE EndSession \/ HangUp
  <2>1. /\ UNCHANGED <<lines, at, left, awaiting, replies>> /\ awaiting = "none" /\ session = "up"
        /\ session' # "broken"
    BY <1>2 DEF EndSession, HangUp, Reading
  <2> QED
    BY <2>1 DEF SessionInv, SessionTypeOK, Spoken, OwnId, PlaceOf
<1> QED
  BY <1>1, <1>2, TypeKeeps, LineKeeps, CallKeeps DEF SessionNext

\* Replies answer the lines a client wrote, in their order.
LEMMA SessionHolds == SessionInv => RepliesMatch
<1> SUFFICES ASSUME SessionInv PROVE RepliesMatch
  OBVIOUS
<1>1. at - 1 \in Nat /\ Len(lines) \in Nat /\ at - 1 <= Len(lines) /\ Len(replies) \in Nat
      /\ PlaceOf(at - 1) \in Nat /\ Len(replies) <= PlaceOf(at - 1) /\ DOMAIN lines = 1..Len(lines)
  <2>1. SessionTypeOK /\ Len(replies) = PlaceOf(at - 1) - (IF awaiting # "none" \/ session = "broken" THEN 1 ELSE 0)
    BY DEF SessionInv
  <2>2. Len(replies) \in Nat /\ at - 1 \in Nat /\ PlaceOf(at - 1) \in Nat
    BY <2>1, SessionFacts, PlacesCount
  <2>3. Len(replies) <= PlaceOf(at - 1)
    BY <2>1, <2>2
  <2> QED
    BY <2>1, <2>2, <2>3, SessionFacts
<1>2. PlaceOf(at - 1) <= PlaceOf(Len(lines)) /\ PlaceOf(Len(lines)) \in Nat
  BY <1>1, PlacesGrow, PlacesCount, SMTT(30)
<1>3. ASSUME NEW i \in DOMAIN lines, Spoken(i), PlaceOf(i) <= Len(replies) PROVE replies[PlaceOf(i)].id = OwnId(i)
  <2>1. CASE i <= at - 1
    BY <1>1, <1>3, <2>1 DEF SessionInv
  <2>2. CASE at - 1 < i
    <3>1. PlaceOf(at - 1) < PlaceOf(i) /\ PlaceOf(i) \in Nat
      <4>1. i \in Nat
        BY <1>1
      <4> QED
        BY <1>1, <1>3, <2>2, <4>1, PlacesGrow, PlacesCount
    <3> QED
      BY <1>1, <1>3, <3>1
  <2> QED
    BY <1>1, <2>1, <2>2
<1> QED
  BY <1>1, <1>2, <1>3 DEF RepliesMatch

\* Every reply of a session answers a line of the client's, in the order it wrote
\* them, and none is passed over (mcp.rs serve_stdio, handle_message).
THEOREM EveryLineIsAnswered == SessionSpec => []RepliesMatch
  BY SessionStart, SessionStep, SessionHolds, PTL DEF SessionSpec

-----------------------------------------------------------------------------
\* What an agent is told before an edit.

\* While the preflight runs, what was mandatory ever since is mandatory now, and what
\* is in force now has been seen in force; the notes found are among it.
GuardInv ==
  /\ stage \in {"asked", "matched", "searched"} =>
       held \subseteq Mandatory /\ Mandatory \subseteq seen /\ Certified \subseteq seen
  /\ stage = "searched" => notes \subseteq seen
  /\ ToldIsHeld

\* A move of governance is witnessed.
LEMMA GovernanceIsSeen == ASSUME GuardInv, Governance PROVE GuardInv'
<1>0. stage \in {"asked", "matched", "searched"} /\ UNCHANGED <<stage, notes>>
  BY DEF Governance
<1>1. CASE Rules
  <2>1. /\ held' = held \intersect {q \in LawRule : law'[q]} /\ known' = known
        /\ seen' = (seen \union {q \in LawRule : law'[q]}) \union {}
    BY <1>1 DEF Rules, Witness
  <2>2. Mandatory' = {q \in LawRule : law'[q]} /\ Certified' = Certified
    BY <2>1 DEF Mandatory, Certified
  <2> QED
    BY <1>0, <2>1, <2>2 DEF GuardInv, ToldIsHeld
<1>2. CASE Standings
  <2>1. /\ held' = held \intersect Mandatory /\ law' = law
        /\ seen' = (seen \union Mandatory) \union {n \in Note : known'[n].certified}
    BY <1>2 DEF Standings, Witness
  <2>2. Mandatory' = Mandatory /\ Certified' = {n \in Note : known'[n].certified}
    BY <2>1 DEF Mandatory, Certified
  <2> QED
    BY <1>0, <2>1, <2>2 DEF GuardInv, ToldIsHeld
<1> QED
  BY <1>1, <1>2 DEF Governance

LEMMA GuardStep == GuardInv /\ [GuardNext]_guardVars => GuardInv'
<1> SUFFICES ASSUME GuardInv, [GuardNext]_guardVars PROVE GuardInv'
  OBVIOUS
<1>1. ASSUME NEW by, NEW repo, NEW remote, NEW dirs, NEW path, PreEdit(by, repo, remote, dirs, path) PROVE GuardInv'
  <2>1. /\ stage' = "asked" /\ held' = Mandatory /\ seen' = Mandatory \union Certified /\ UNCHANGED <<known, law>>
    BY <1>1 DEF PreEdit
  <2>2. Mandatory' = Mandatory /\ Certified' = Certified
    BY <2>1 DEF Mandatory, Certified
  <2> QED
    BY <2>1, <2>2 DEF GuardInv, ToldIsHeld
<1>2. CASE \E repo \in Repo, dirs \in Paths : \E remote \in Spellings(repo) \union Garbage, lead \in {<<>>, <<"/">>} :
             \/ HookPreEdit(repo, remote, dirs, lead \o Spelled(dirs))
             \/ \E given \in {remote, <<>>} : EditPreflight(repo, given, remote, dirs, lead \o Spelled(dirs))
  BY <1>1, <1>2 DEF HookPreEdit, EditPreflight
<1>3. ASSUME UNCHANGED <<known, law, held, seen>> PROVE Mandatory' = Mandatory /\ Certified' = Certified
  BY <1>3 DEF Mandatory, Certified
<1>4. CASE Match \/ Fault \/ Refuse \/ Receive \/ FailOpen
  BY <1>3, <1>4 DEF Match, Fault, Refuse, Receive, FailOpen, GuardInv, ToldIsHeld
<1>5. CASE SearchNotes
  <2>1. PICK found \in SUBSET Relevant : notes' = found
    BY <1>5 DEF SearchNotes
  <2>2. found \subseteq Certified
    BY DEF Relevant
  <2> QED
    BY <1>3, <1>5, <2>1, <2>2 DEF SearchNotes, GuardInv, ToldIsHeld
<1>6. CASE AddStandards
  BY <1>3, <1>6 DEF AddStandards, Unconditional, GuardInv, ToldIsHeld
<1>7. CASE UNCHANGED guardVars
  BY <1>3, <1>7 DEF guardVars, GuardInv, ToldIsHeld
<1> QED
  BY <1>2, <1>4, <1>5, <1>6, <1>7, GovernanceIsSeen DEF GuardNext

-----------------------------------------------------------------------------
\* The governed search.

\* The fields of a search; a record is what its fields say.
SearchField == {"at", "via", "asOf", "floor", "lens", "project", "k", "ran", "near", "hits", "fused", "extras", "pool",
                "known", "ranked", "served", "warned", "quarrels"}
IsSearch(s) == s = [f \in SearchField |-> s[f]]

SearchTypeOK ==
  /\ memory \in [Mem -> MemoryRow] /\ clock \in Nat
  /\ IsSearch(search)
  /\ search.at \in {"idle", "retrieving", "fused", "fetching", "ranked", "served", "done"}
  /\ search.lens \in SUBSET Mem /\ search.k \in Nat
  /\ \A m \in search.near \union search.hits \union search.fused : m \in search.lens /\ Scoped(m, search)
  /\ search.at = "fetching" => DOMAIN search.extras \subseteq Mem

\* What an answer owes its caller.
Due(m) ==
  /\ m \in Near \cap search.lens
  /\ search.project \/ m \notin Own
  /\ memory[m].next = NoSuccessor /\ memory[m].until = Ever
  /\ memory[m].status \in Trust(search.floor) \ {"rejected"}
  /\ ValidAt(m, memory[m], search.asOf)

\* The vector list found what is due unless it is full of others, fusion kept it or is
\* full of others, and nothing becomes due later.
NearIsFound ==
  /\ "vector" \in search.ran =>
       \A m \in Mem : Due(m) => m \in search.near \/ Cardinality(search.near) = PerRetriever
  /\ search.at = "retrieving" => search.near \subseteq search.hits
  /\ search.at \in {"fused", "fetching", "ranked", "served", "done"} =>
       \A m \in Mem : Due(m) => m \in search.fused \/ Crowded(m)

\* What was assembled: rows above the floor, all that is due and was not crowded out,
\* one voice per chain.
PoolIsGoverned ==
  search.at \in {"ranked", "served", "done"} =>
    /\ \A m \in DOMAIN search.pool : m \in search.lens /\ search.pool[m].status \in Trust(search.floor)
    /\ \A m \in Mem : Due(m) => m \in DOMAIN search.pool \/ Crowded(m)
    /\ DOMAIN search.ranked \subseteq DOMAIN search.pool /\ IsFiniteSet(DOMAIN search.ranked)
    /\ \A m \in DOMAIN search.ranked : search.ranked[m] \in Nat
    /\ \A a, b \in DOMAIN search.ranked \cap search.fused : a # b => search.known[a] # b

SearchInv ==
  /\ SearchTypeOK /\ NearIsFound /\ PoolIsGoverned
  /\ search.at \in {"served", "done"} => search.served \subseteq DOMAIN search.ranked

-----------------------------------------------------------------------------
\* The operators.

\* A cut that gives fewer than asked for gives all there is.
LEMMA ShortCutIsWhole ==
  ASSUME NEW S, IsFiniteSet(S), NEW ranked, \A m \in S : ranked[m] \in Nat, NEW k \in Nat,
         Cardinality(FirstOf(S, ranked, k)) < k
  PROVE  S \subseteq FirstOf(S, ranked, k)
<1> DEFINE F == FirstOf(S, ranked, k)
           places == {ranked[m] : m \in S \ F}
<1> SUFFICES ASSUME S \ F # {} PROVE FALSE
  OBVIOUS
<1>1. F \in SUBSET S
  BY DEF FirstOf
<1>2. places \in SUBSET Nat /\ places # {}
  OBVIOUS
<1>3. PICK least \in places : \A i \in places : least <= i
  <2> HIDE DEF places
  <2> QED
    BY <1>2, LeastOf
<1>4. PICK m \in S \ F : ranked[m] = least
  OBVIOUS
<1> DEFINE below == {n \in S : ranked[n] < ranked[m]}
<1>5. below \in SUBSET F
  <2> SUFFICES ASSUME NEW n \in below, n \notin F PROVE FALSE
    OBVIOUS
  <2>1. ranked[n] \in places /\ ranked[n] < least /\ ranked[n] \in Nat /\ least \in Nat
    BY <1>2, <1>4
  <2> QED
    BY <1>3, <2>1
<1>6. ~ (Cardinality(below) < k)
  BY <1>4 DEF FirstOf
<1> HIDE DEF F, below
<1>7. Cardinality(below) <= Cardinality(F) /\ Cardinality(F) \in Nat /\ Cardinality(below) \in Nat
  <2>1. IsFiniteSet(F)
    BY <1>1, FS_Subset
  <2> QED
    BY <1>5, <2>1, FS_Subset, FS_CardinalityType
<1> QED
  BY <1>6, <1>7 DEF F

\* A memory and its successor have the same chain head.
LEMMA HopSharesHead ==
  ASSUME NEW pool, NEW a \in DOMAIN pool, NEW b \in DOMAIN pool, pool[a].next = b
  PROVE  ChainHead(pool, a) = ChainHead(pool, b)
<1> DEFINE P == DOMAIN pool
           Closed(T) == \A y \in T : Hop(pool, y) \in T
<1>1. Hop(pool, a) = b /\ \A y \in P : Hop(pool, y) \in P
  BY DEF Hop
<1>2. \A m \in P : MetFrom(pool, m) = {x \in P : \A T \in SUBSET P : m \in T /\ Closed(T) => x \in T}
  BY DEF MetFrom
<1>3. MetFrom(pool, b) \subseteq MetFrom(pool, a) /\ b \in MetFrom(pool, b)
  BY <1>1, <1>2
<1>4. MetFrom(pool, a) \subseteq {a} \union MetFrom(pool, b)
  <2>1. {a} \union MetFrom(pool, b) \in SUBSET P
    BY <1>2
  <2>2. \A y \in MetFrom(pool, b) : Hop(pool, y) \in MetFrom(pool, b)
    BY <1>1, <1>2
  <2>3. Closed({a} \union MetFrom(pool, b))
    BY <1>1, <1>3, <2>2
  <2> HIDE DEF Closed
  <2> QED
    BY <1>2, <2>1, <2>3
<1>5. LastMet(pool, a) = LastMet(pool, b)
  BY <1>3, <1>4 DEF LastMet
<1> QED
  BY <1>5 DEF ChainHead

-----------------------------------------------------------------------------
\* The steps.

LEMMA SearchStart == SearchInit => SearchInv
<1> SUFFICES ASSUME SearchInit PROVE SearchInv
  OBVIOUS
<1>1. search = NoSearch /\ memory \in [Mem -> MemoryRow] /\ clock \in Nat
  BY SearchAssumption DEF SearchInit
<1>2. IsSearch(NoSearch)
  BY DEF IsSearch, SearchField, NoSearch
<1>3. SearchTypeOK
  BY <1>1, <1>2 DEF SearchTypeOK, NoSearch
<1> QED
  BY <1>1, <1>3 DEF SearchInv, NearIsFound, PoolIsGoverned, NoSearch

\* Governance makes nothing due that was not.
LEMMA GovernanceKeeps ==
  ASSUME SearchInv, UNCHANGED search, memory' \in [Mem -> MemoryRow], clock' \in Nat,
         \A m \in Mem : memory'[m] = memory[m] \/ memory'[m].next # NoSuccessor \/ memory'[m].status = "rejected"
  PROVE  SearchInv'
<1>1. \A m \in Mem : (Due(m))' => Due(m)
  BY DEF Due, ValidAt, Trust
<1>2. SearchTypeOK'
  BY DEF SearchInv, SearchTypeOK, Scoped
<1>3. \A m : Crowded(m)' <=> Crowded(m)
  BY DEF Crowded
<1> QED
  BY <1>1, <1>2, <1>3 DEF SearchInv, NearIsFound, PoolIsGoverned

LEMMA RowsMove ==
  ASSUME SearchInv,
         \/ \E a, b \in Mem : ApplySupersession(a, b) \/ Detect(a, b)
         \/ \E m \in Mem : Withdraw(m)
         \/ \E d \in disputes : Settle(d)
         \/ Later
  PROVE  SearchInv'
<1>0. memory \in [Mem -> MemoryRow] /\ clock \in Nat
  BY DEF SearchInv, SearchTypeOK
<1>1. ASSUME NEW a \in Mem, NEW b \in Mem, ApplySupersession(a, b) PROVE SearchInv'
  <2>1. /\ memory' = [memory EXCEPT ![a] = [status |-> "deprecated", next |-> b, until |-> clock]]
        /\ UNCHANGED <<search, clock>> /\ b # NoSuccessor
    BY <1>1, SearchAssumption DEF ApplySupersession, Write, NoSuccessor
  <2>2. [status |-> "deprecated", next |-> b, until |-> clock] \in MemoryRow
    BY <1>0 DEF MemoryRow, AnyStatus
  <2> QED
    BY <1>0, <2>1, <2>2, GovernanceKeeps
<1>2. ASSUME NEW m \in Mem, Withdraw(m) PROVE SearchInv'
  <2>1. memory' = [memory EXCEPT ![m].status = "rejected"] /\ UNCHANGED <<search, clock>>
    BY <1>2 DEF Withdraw, Write
  <2>2. memory[m] \in MemoryRow
    BY <1>0
  <2>3. /\ [memory[m] EXCEPT !.status = "rejected"] \in MemoryRow
        /\ [memory[m] EXCEPT !.status = "rejected"].status = "rejected"
    BY <2>2 DEF MemoryRow, AnyStatus
  <2> QED
    BY <1>0, <2>1, <2>3, GovernanceKeeps
<1>3. ASSUME UNCHANGED <<memory, search>>, clock' \in Nat PROVE SearchInv'
  BY <1>0, <1>3, GovernanceKeeps
<1>4. ASSUME NEW a \in Mem, NEW b \in Mem, Detect(a, b) PROVE SearchInv'
  BY <1>0, <1>3, <1>4 DEF Detect, Write
<1>5. ASSUME NEW d \in disputes, Settle(d) PROVE SearchInv'
  BY <1>0, <1>3, <1>5 DEF Settle, Write
<1>6. CASE Later
  BY <1>0, <1>3, <1>6 DEF Later
<1> QED
  BY <1>1, <1>2, <1>4, <1>5, <1>6

\* A search starts with nothing found.
LEMMA BeginKeeps ==
  ASSUME SearchInv, NEW via, NEW filters, filters.lens \in SUBSET Mem, NEW asOf, NEW proj, NEW k \in Nat,
         BeginSearch(via, filters, asOf, proj, k)
  PROVE  SearchInv'
<1>1. /\ search' = [NoSearch EXCEPT !.at = "retrieving", !.via = via, !.floor = filters.floor, !.lens = filters.lens,
                                    !.asOf = asOf, !.project = proj, !.k = k, !.quarrels = disputes]
      /\ UNCHANGED <<memory, clock>>
  BY DEF BeginSearch, Still
<1>2. /\ IsSearch(search') /\ search'.at = "retrieving" /\ search'.ran = {}
      /\ search'.near = {} /\ search'.hits = {} /\ search'.fused = {}
      /\ search'.lens = filters.lens /\ search'.k = k
  BY <1>1, ZenonT(40) DEF IsSearch, SearchField, NoSearch
<1>3. SearchTypeOK'
  BY <1>1, <1>2 DEF SearchInv, SearchTypeOK
<1> QED
  BY <1>2, <1>3 DEF SearchInv, NearIsFound, PoolIsGoverned

LEMMA AskKeeps ==
  ASSUME SearchInv, NEW asOf, NEW proj,
         \/ MemoryContext(asOf, proj)
         \/ \E k \in TopKs, lens \in Lenses :
              \/ \E both, unreviewed \in BOOLEAN : MemorySearch(both, unreviewed, lens, asOf, proj, k)
              \/ \E floor \in Floors : RestSearch(floor, lens, asOf, proj, k)
  PROVE  SearchInv'
<1>1. CASE MemoryContext(asOf, proj)
  <2>1. Cardinality(Mem) \in Nat
    BY SearchAssumption, FS_CardinalityType
  <2> QED
    BY <1>1, <2>1, BeginKeeps DEF MemoryContext
<1>2. ASSUME NEW k \in TopKs, NEW lens \in Lenses, NEW both \in BOOLEAN, NEW unreviewed \in BOOLEAN,
             MemorySearch(both, unreviewed, lens, asOf, proj, k)
      PROVE  SearchInv'
  BY <1>2, SearchAssumption, BeginKeeps DEF MemorySearch, ParseFilters
<1>3. ASSUME NEW k \in TopKs, NEW lens \in Lenses, NEW floor \in Floors, RestSearch(floor, lens, asOf, proj, k)
      PROVE  SearchInv'
  BY <1>3, SearchAssumption, BeginKeeps DEF RestSearch, BodyFilters
<1> QED
  BY <1>1, <1>2, <1>3

\* The fields that the steps after the start leave alone.
QueryVars == <<search.via, search.lens, search.floor, search.asOf, search.project, search.k>>

\* What is due, and who sees what, reads only what was asked and the rows.
LEMMA SameDue ==
  ASSUME UNCHANGED QueryVars, UNCHANGED memory
  PROVE  \A m : (Due(m))' = Due(m) /\ (Scoped(m, search))' = Scoped(m, search)
  BY DEF QueryVars, Due, Scoped, ValidAt, Trust

\* Candidate lists and neighbours.
LEMMA RetrieveKeeps ==
  ASSUME SearchInv, VectorHits \/ TextHits
  PROVE  SearchInv'
<1>0. SearchTypeOK /\ NearIsFound /\ IsSearch(search) /\ search.at = "retrieving" /\ UNCHANGED <<memory, clock>>
  BY DEF SearchInv, SearchTypeOK, VectorHits, TextHits, Still
<1>1. \A m \in Candidates(search) : m \in search.lens /\ Scoped(m, search)
  BY DEF Candidates
<1>2. ASSUME NEW S \in SUBSET Candidates(search), NEW ran, NEW near,
             IsSearch(search'), search'.at = "retrieving", UNCHANGED QueryVars, search'.fused = search.fused,
             search'.ran = ran, search'.near = near, search'.hits = search.hits \union S,
             near \in {S, search.near}, near \subseteq search.hits \union S,
             "vector" \in ran => \A m \in Mem : Due(m) => m \in near \/ Cardinality(near) = PerRetriever
      PROVE  SearchInv'
  <2>1. \A m : (Due(m))' = Due(m) /\ (Scoped(m, search))' = Scoped(m, search)
    BY <1>0, <1>2, SameDue
  <2>2. SearchTypeOK'
    BY <1>0, <1>1, <1>2, <2>1 DEF SearchTypeOK, QueryVars
  <2>3. NearIsFound'
    BY <1>2, <2>1 DEF NearIsFound
  <2> QED
    BY <1>2, <2>2, <2>3 DEF SearchInv, PoolIsGoverned
<1>3. CASE VectorHits
  <2>1. PICK S \in Limited(Near \cap Candidates(search), PerRetriever) :
          search' = [search EXCEPT !.ran = @ \union {"vector"}, !.near = S, !.hits = @ \union S]
    BY <1>3 DEF VectorHits
  <2>2. S \subseteq Near \cap Candidates(search)
        /\ (S = Near \cap Candidates(search) \/ Cardinality(S) = PerRetriever)
    BY DEF Limited
  <2>3. \A m \in Mem : Due(m) => m \in Near \cap Candidates(search)
    BY DEF Due, Candidates, Scoped
  <2>4. /\ IsSearch(search') /\ search'.at = "retrieving" /\ UNCHANGED QueryVars /\ search'.fused = search.fused
        /\ search'.ran = search.ran \union {"vector"} /\ search'.near = S /\ search'.hits = search.hits \union S
    BY <1>0, <2>1 DEF IsSearch, SearchField, QueryVars
  <2> QED
    BY <1>2, <2>2, <2>3, <2>4
<1>4. CASE TextHits
  <2>1. PICK S \in SUBSET Candidates(search) :
          search' = [search EXCEPT !.ran = @ \union {"text"}, !.hits = @ \union S]
    BY <1>4 DEF TextHits
  <2>2. /\ IsSearch(search') /\ search'.at = "retrieving" /\ UNCHANGED QueryVars /\ search'.fused = search.fused
        /\ search'.ran = search.ran \union {"text"} /\ search'.near = search.near
        /\ search'.hits = search.hits \union S
    BY <1>0, <2>1 DEF IsSearch, SearchField, QueryVars
  <2>3. /\ search.near \subseteq search.hits \union S
        /\ "vector" \in search.ran \union {"text"} =>
             \A m \in Mem : Due(m) => m \in search.near \/ Cardinality(search.near) = PerRetriever
    BY <1>0 DEF NearIsFound
  <2> QED
    BY <1>2, <2>2, <2>3
<1> QED
  BY <1>3, <1>4

\* What the limits leave of both lists, and their neighbours.
LEMMA FuseKeeps ==
  ASSUME SearchInv, Fuse \/ GraphExtras
  PROVE  SearchInv'
<1>0. SearchTypeOK /\ NearIsFound /\ IsSearch(search) /\ UNCHANGED <<memory, clock>>
  BY DEF SearchInv, SearchTypeOK, Fuse, GraphExtras, Still
<1>1. CASE Fuse
  <2>1. PICK S \in Limited(search.hits, FusedPool) :
          search' = [search EXCEPT !.at = "fused", !.hits = {}, !.fused = S]
    BY <1>1 DEF Fuse
  <2>2. S \subseteq search.hits /\ (S = search.hits \/ Cardinality(S) = FusedPool)
    BY DEF Limited
  <2>3. /\ IsSearch(search') /\ search'.at = "fused" /\ UNCHANGED QueryVars /\ search'.ran = search.ran
        /\ search'.near = search.near /\ search'.hits = {} /\ search'.fused = S
    BY <1>0, <2>1 DEF IsSearch, SearchField, QueryVars
  <2>4. search.at = "retrieving" /\ "vector" \in search.ran
    BY <1>1 DEF Fuse
  <2>5. \A m : (Due(m))' = Due(m) /\ (Scoped(m, search))' = Scoped(m, search)
    BY <1>0, <2>3, SameDue
  <2>6. SearchTypeOK'
    BY <1>0, <2>2, <2>3, <2>5 DEF SearchTypeOK, QueryVars
  <2>7. NearIsFound'
    BY <1>0, <2>2, <2>3, <2>4, <2>5 DEF NearIsFound, Crowded
  <2> QED
    BY <2>3, <2>6, <2>7 DEF SearchInv, PoolIsGoverned
<1>2. CASE GraphExtras
  <2>1. PICK S \in SUBSET ForEntities(search) : search' = [search EXCEPT !.at = "fetching", !.extras = Rows(S)]
    BY <1>2 DEF GraphExtras
  <2>2. /\ IsSearch(search') /\ search'.at = "fetching" /\ UNCHANGED QueryVars /\ search'.ran = search.ran
        /\ search'.near = search.near /\ search'.hits = search.hits /\ search'.fused = search.fused
        /\ DOMAIN search'.extras = S
    BY <1>0, <2>1 DEF IsSearch, SearchField, QueryVars, Rows
  <2>3. \A m : (Due(m))' = Due(m) /\ (Scoped(m, search))' = Scoped(m, search)
    BY <1>0, <2>2, SameDue
  <2>4. S \subseteq Mem /\ search.at = "fused"
    BY <1>0, <1>2 DEF ForEntities, Candidates, SearchTypeOK, GraphExtras
  <2>5. SearchTypeOK'
    BY <1>0, <2>2, <2>3, <2>4 DEF SearchTypeOK, QueryVars
  <2>6. NearIsFound'
    BY <1>0, <2>2, <2>3, <2>4 DEF NearIsFound, Crowded
  <2> QED
    BY <2>2, <2>5, <2>6 DEF SearchInv, PoolIsGoverned
<1> QED
  BY <1>1, <1>2

\* The rows are read anew, and those that no longer qualify fall out.
LEMMA FetchKeeps ==
  ASSUME SearchInv, FetchDirect
  PROVE  SearchInv'
<1> DEFINE direct == {m \in search.fused : Scoped(m, search)}
           all == [m \in direct \union DOMAIN search.extras |-> IF m \in direct THEN memory[m] ELSE search.extras[m]]
           fits == {m \in DOMAIN all : ValidAt(m, all[m], search.asOf) /\ Admits(m, all[m], search)}
           pool == [m \in fits |-> all[m]]
<1>0. /\ SearchTypeOK /\ NearIsFound /\ IsSearch(search) /\ search.at = "fetching"
      /\ DOMAIN search.extras \subseteq Mem /\ search.fused \subseteq Mem /\ UNCHANGED <<memory, clock>>
      /\ \A m \in search.fused : Scoped(m, search)
  BY DEF SearchInv, SearchTypeOK, NearIsFound, FetchDirect, Still
<1>1. direct = search.fused
  BY <1>0
<1>2. DOMAIN all = search.fused \union DOMAIN search.extras /\ \A m \in search.fused : all[m] = memory[m]
  BY <1>1
<1>3. PICK S \in Deduped(pool) : \E order \in Bijection(S, 1..Cardinality(S)) :
        search' = [search EXCEPT !.at = "ranked", !.pool = pool, !.extras = << >>, !.ranked = order,
                                 !.known = [m \in Mem |-> memory[m].next]]
  BY ZenonT(40) DEF FetchDirect
<1>o. PICK order \in Bijection(S, 1..Cardinality(S)) :
        search' = [search EXCEPT !.at = "ranked", !.pool = pool, !.extras = << >>, !.ranked = order,
                                 !.known = [m \in Mem |-> memory[m].next]]
  BY <1>3
<1> HIDE DEF direct, all
<1>4. DOMAIN pool = fits /\ \A m \in fits : pool[m] = all[m]
  OBVIOUS
<1>5. fits \subseteq Mem /\ IsFiniteSet(fits)
  <2>1. fits \in SUBSET Mem
    BY <1>0, <1>2
  <2> QED
    BY <2>1, SearchAssumption, FS_Subset
<1>6. \A m \in fits : m \in search.lens /\ pool[m].status \in Trust(search.floor)
  BY <1>4 DEF Admits
<1>7. \A m \in Mem : Due(m) => m \in fits \/ Crowded(m)
  BY <1>0, <1>2 DEF NearIsFound, Due, Admits
<1> HIDE DEF fits, pool
<1>8. S \in SUBSET fits /\ \A v, w \in S : ChainHead(pool, v) = ChainHead(pool, w) => v = w
  BY <1>4 DEF Deduped
<1>9. IsFiniteSet(S) /\ DOMAIN order = S /\ \A m \in S : order[m] \in Nat
  <2>1. IsFiniteSet(S) /\ Cardinality(S) \in Nat
    BY <1>5, <1>8, FS_Subset, FS_CardinalityType
  <2>2. order \in [S -> 1..Cardinality(S)]
    BY DEF Bijection, Injection
  <2> QED
    BY <2>1, <2>2
<1>10. ASSUME NEW a \in S \cap search.fused, NEW b \in S \cap search.fused, a # b PROVE memory[a].next # b
  <2> SUFFICES ASSUME memory[a].next = b PROVE FALSE
    OBVIOUS
  <2>1. a \in DOMAIN pool /\ b \in DOMAIN pool /\ pool[a].next = b
    BY <1>2, <1>4, <1>8
  <2>2. ChainHead(pool, a) = ChainHead(pool, b)
    BY <2>1, HopSharesHead
  <2> QED
    BY <1>8, <1>10, <2>2
<1>11. /\ IsSearch(search') /\ search'.at = "ranked" /\ UNCHANGED QueryVars
       /\ search'.ran = search.ran /\ search'.near = search.near /\ search'.hits = search.hits
       /\ search'.fused = search.fused /\ search'.pool = pool
       /\ search'.ranked = order /\ search'.known = [m \in Mem |-> memory[m].next]
  BY <1>0, <1>o DEF IsSearch, SearchField, QueryVars
<1>12. \A m : (Due(m))' = Due(m) /\ (Scoped(m, search))' = Scoped(m, search)
  BY <1>0, <1>11, SameDue
<1>12a. \A m : Crowded(m)' <=> Crowded(m)
  BY <1>11 DEF Crowded
<1>13. SearchTypeOK'
  BY <1>0, <1>11, <1>12 DEF SearchTypeOK, QueryVars
<1>14. NearIsFound'
  BY <1>0, <1>11, <1>12, <1>12a DEF NearIsFound
<1>15. \A a \in Mem : search'.known[a] = memory[a].next
  BY <1>11
<1>16. PoolIsGoverned'
  BY <1>0, <1>4, <1>5, <1>6, <1>7, <1>8, <1>9, <1>10, <1>11, <1>12, <1>12a, <1>15 DEF PoolIsGoverned, QueryVars
<1> QED
  BY <1>11, <1>13, <1>14, <1>16 DEF SearchInv

\* The cut and what a surface does with it.
LEMMA ServeKeeps ==
  ASSUME SearchInv, Serve \/ Cut \/ Annotate \/ PackContext
  PROVE  SearchInv'
<1>0. SearchTypeOK /\ NearIsFound /\ PoolIsGoverned /\ IsSearch(search) /\ UNCHANGED <<memory, clock>>
      /\ search.at \in {"ranked", "served"}
  BY DEF SearchInv, SearchTypeOK, Serve, Cut, Annotate, PackContext, Still
<1>1. /\ IsSearch(search') /\ UNCHANGED QueryVars /\ search'.at \in {"served", "done"}
      /\ search'.ran = search.ran /\ search'.near = search.near /\ search'.hits = search.hits
      /\ search'.fused = search.fused /\ search'.pool = search.pool
      /\ search'.ranked = search.ranked /\ search'.known = search.known
  <2>1. CASE Serve
    BY <1>0, <2>1 DEF IsSearch, SearchField, QueryVars, Serve
  <2>2. CASE Cut
    BY <1>0, <2>2 DEF IsSearch, SearchField, QueryVars, Cut
  <2>3. CASE Annotate
    BY <1>0, <2>3 DEF IsSearch, SearchField, QueryVars, Annotate
  <2>4. CASE PackContext
    <3>1. PICK packed, warned : search' = [search EXCEPT !.at = "done", !.warned = warned, !.served = packed,
                                                         !.quarrels = @ \cap disputes]
      BY <2>4 DEF PackContext
    <3> QED
      BY <1>0, <3>1 DEF IsSearch, SearchField, QueryVars
  <2> QED
    BY <2>1, <2>2, <2>3, <2>4
<1>2. search'.served \subseteq DOMAIN search.ranked
  <2>1. CASE Serve
    BY <1>0, <2>1 DEF IsSearch, SearchField, Serve, Servable, FirstOf
  <2>2. CASE Cut
    BY <1>0, <2>2 DEF IsSearch, SearchField, Cut, FirstOf
  <2>3. CASE Annotate
    BY <1>0, <2>3 DEF IsSearch, SearchField, Annotate, SearchInv
  <2>4. CASE PackContext
    BY <1>0, <2>4 DEF IsSearch, SearchField, PackContext, SearchInv
  <2> QED
    BY <2>1, <2>2, <2>3, <2>4
<1>3. \A m : (Due(m))' = Due(m) /\ (Scoped(m, search))' = Scoped(m, search)
  BY <1>0, <1>1, SameDue
<1>4. SearchTypeOK'
  BY <1>0, <1>1, <1>3 DEF SearchTypeOK, QueryVars
<1>5. \A m : Crowded(m)' <=> Crowded(m)
  BY <1>1 DEF Crowded
<1>6. NearIsFound'
  BY <1>0, <1>1, <1>3, <1>5 DEF NearIsFound
<1>7. PoolIsGoverned'
  BY <1>0, <1>1, <1>3, <1>5 DEF PoolIsGoverned, QueryVars
<1> QED
  BY <1>1, <1>2, <1>4, <1>6, <1>7 DEF SearchInv

LEMMA SearchStepKeeps == SearchInv /\ [SearchNext]_searchVars => SearchInv'
<1> SUFFICES ASSUME SearchInv, [SearchNext]_searchVars PROVE SearchInv'
  OBVIOUS
<1>1. CASE UNCHANGED searchVars
  <2>1. UNCHANGED <<search, memory, clock>> /\ memory \in [Mem -> MemoryRow] /\ clock \in Nat
    BY <1>1 DEF searchVars, SearchInv, SearchTypeOK
  <2> QED
    BY <2>1, GovernanceKeeps
<1>2. CASE Answered
  <2>1. search' = NoSearch /\ UNCHANGED <<memory, clock>>
    BY <1>2 DEF Answered, Still
  <2>2. IsSearch(NoSearch)
    BY DEF IsSearch, SearchField, NoSearch
  <2>3. SearchTypeOK'
    BY <2>1, <2>2 DEF SearchInv, SearchTypeOK, NoSearch
  <2> QED
    BY <2>1, <2>3 DEF SearchInv, NearIsFound, PoolIsGoverned, NoSearch
<1>3. CASE SearchStep
  BY <1>2, <1>3, RetrieveKeeps, FuseKeeps, FetchKeeps, ServeKeeps DEF SearchStep
<1> QED
  BY <1>1, <1>3, RowsMove, AskKeeps DEF SearchNext

\* What an answer rests on.
LEMMA SearchHolds == SearchInv => DirectHitsSpeakOnce /\ FloorHolds /\ OwnIsFound
<1> SUFFICES ASSUME SearchInv PROVE DirectHitsSpeakOnce /\ FloorHolds /\ OwnIsFound
  OBVIOUS
<1>1. SearchTypeOK /\ PoolIsGoverned /\ (search.at = "done" => search.served \subseteq DOMAIN search.ranked)
  BY DEF SearchInv
<1>2. DirectHitsSpeakOnce
  BY <1>1 DEF DirectHitsSpeakOnce, Supersedes, Direct, PoolIsGoverned
<1>3. FloorHolds
  BY <1>1 DEF FloorHolds, PoolIsGoverned
<1>4. OwnIsFound
  BY <1>1 DEF OwnIsFound, PoolIsGoverned, Due, SearchTypeOK
<1> QED
  BY <1>2, <1>3, <1>4

\* A governed search of any corpus serves fewer than asked only when nothing
\* uncontested is left, and no surface hands out a side of a dispute that stayed open
\* as settled.
LEMMA ServedIsFull ==
  ASSUME SearchInv, [SearchNext]_searchVars
  PROVE  /\ search.at = "ranked" /\ search'.at = "served" /\ search.via = "governed"
                 /\ Cardinality(search'.served) < search.k =>
               {m \in DOMAIN search.ranked : ~ Contested(m)} \subseteq search'.served
         /\ search.at = "served" /\ search'.at = "done" =>
               \A d \in search'.quarrels : search'.served \cap d \subseteq search'.warned
<1>0. IsSearch(search) /\ SearchTypeOK
  BY DEF SearchInv, SearchTypeOK
<1>1. ASSUME search.at = "ranked", search'.at = "served", search.via = "governed" PROVE Serve
  <2>1. search' # search
    BY <1>1
  <2>2. ~ (\/ \E a, b \in Mem : ApplySupersession(a, b) \/ Detect(a, b)
           \/ \E m \in Mem : Withdraw(m)
           \/ \E d \in disputes : Settle(d)
           \/ Later)
    BY <2>1 DEF ApplySupersession, Detect, Withdraw, Settle, Later, Write
  <2>3. ~ (VectorHits \/ TextHits \/ Fuse \/ GraphExtras \/ FetchDirect \/ Cut \/ Annotate \/ PackContext \/ Answered)
    BY <1>1 DEF VectorHits, TextHits, Fuse, GraphExtras, FetchDirect, Cut, Annotate, PackContext, Answered
  <2> QED
    BY <1>1, <2>1, <2>2, <2>3 DEF SearchNext, SearchStep, searchVars
<1>2. ASSUME search.at = "served", search'.at = "done" PROVE Annotate \/ PackContext
  <2>1. search' # search
    BY <1>2
  <2>2. ~ (\/ \E a, b \in Mem : ApplySupersession(a, b) \/ Detect(a, b)
           \/ \E m \in Mem : Withdraw(m)
           \/ \E d \in disputes : Settle(d)
           \/ Later)
    BY <2>1 DEF ApplySupersession, Detect, Withdraw, Settle, Later, Write
  <2>3. ~ (VectorHits \/ TextHits \/ Fuse \/ GraphExtras \/ FetchDirect \/ Cut \/ Serve \/ Answered)
    BY <1>2 DEF VectorHits, TextHits, Fuse, GraphExtras, FetchDirect, Cut, Serve, Answered
  <2> QED
    BY <1>2, <2>1, <2>2, <2>3 DEF SearchNext, SearchStep, searchVars
<1>3. ASSUME Serve, Cardinality(search'.served) < search.k
      PROVE  {m \in DOMAIN search.ranked : ~ Contested(m)} \subseteq search'.served
  <2> DEFINE settled == {m \in DOMAIN search.ranked : ~ Contested(m)}
  <2>1. search'.served = FirstOf(settled, search.ranked, search.k)
    BY <1>0, <1>3 DEF IsSearch, SearchField, Serve, Servable
  <2>2. search.k \in Nat /\ IsFiniteSet(DOMAIN search.ranked) /\ \A m \in DOMAIN search.ranked : search.ranked[m] \in Nat
    BY <1>0, <1>3 DEF SearchInv, SearchTypeOK, PoolIsGoverned, Serve
  <2>3. IsFiniteSet(settled) /\ \A m \in settled : search.ranked[m] \in Nat
    BY <2>2, FS_Subset
  <2> HIDE DEF settled
  <2>4. settled \subseteq FirstOf(settled, search.ranked, search.k)
    BY <1>3, <2>1, <2>2, <2>3, ShortCutIsWhole
  <2> QED
    BY <2>1, <2>4 DEF settled
<1>4. ASSUME Annotate \/ PackContext
      PROVE  \A d \in search'.quarrels : search'.served \cap d \subseteq search'.warned
  <2>1. search'.quarrels = search.quarrels \cap disputes
    BY <1>0, <1>4 DEF IsSearch, SearchField, Annotate, PackContext
  <2>2. search'.warned = {m \in search'.served : Contested(m)}
    BY <1>0, <1>4, ZenonT(40) DEF IsSearch, SearchField, Annotate, PackContext
  <2> QED
    BY <2>1, <2>2 DEF Contested
<1> QED
  BY <1>1, <1>2, <1>3, <1>4

-----------------------------------------------------------------------------
(* Browsing (module Archive). *)

\* The types of the archive and of a walk.
WalkField == {"at", "filter", "offset", "page", "total", "seen", "due", "shrunk"}
ArchiveTypeOK ==
  /\ DOMAIN rows \subseteq Id /\ rows \in [DOMAIN rows -> Memories]
  /\ walk = [f \in WalkField |-> walk[f]]
  /\ walk.at \in {"idle", "listing", "counting", "answered", "walked"}
  /\ walk.offset \in Nat /\ walk.total \in Nat /\ IsFiniteSet(walk.page)

\* How many of a filter's memories come before one of them.
InFront(f, m) == Cardinality({x \in Browsable(f) : Before(x, m)})
\* Where the next page begins.
Reached == walk.offset + (IF walk.at = "listing" THEN 0 ELSE Cardinality(walk.page))

\* While nothing has left the filter, whatever was due and is not seen yet lies beyond
\* what the walk has reached; so there is none once the walk has reached the total.
WalkInv ==
  walk.at # "idle" /\ ~ walk.shrunk =>
    /\ walk.due \subseteq Browsable(walk.filter)
    /\ \A m \in walk.due \ walk.seen : InFront(walk.filter, m) >= Reached
    /\ walk.at = "answered" /\ Reached >= walk.total => walk.due \subseteq walk.seen
    /\ walk.at = "walked" => walk.due \subseteq walk.seen

ArchiveInv == ArchiveTypeOK /\ WalkInv

\* What the types give: finite sets, and the fields of a memory.
LEMMA ArchiveFacts ==
  ASSUME ArchiveTypeOK
  PROVE  /\ IsFiniteSet(DOMAIN rows) /\ DOMAIN rows \subseteq Nat
         /\ \A f : IsFiniteSet(Browsable(f)) /\ Cardinality(Browsable(f)) \in Nat /\ Cardinality(Browsable(f)) <= CountOf(f)
                   /\ CountOf(f) \in Nat
         /\ \A f, m : InFront(f, m) \in Nat
         /\ \A m \in DOMAIN rows : /\ rows[m] = [kind |-> rows[m].kind, team |-> rows[m].team, project |-> rows[m].project,
                                                status |-> rows[m].status, created |-> rows[m].created]
                                   /\ rows[m].created \in Nat /\ \A d \in Dim : rows[m][d] # All
<1>1. IsFiniteSet(DOMAIN rows) /\ DOMAIN rows \subseteq Nat
  BY ArchiveAssumption, FS_Subset DEF ArchiveTypeOK
<1>2. ASSUME NEW f
      PROVE  /\ IsFiniteSet(Browsable(f)) /\ Cardinality(Browsable(f)) \in Nat /\ Cardinality(Browsable(f)) <= CountOf(f)
             /\ CountOf(f) \in Nat
  <2> DEFINE S == {m \in DOMAIN rows : Matches(m, f)}
  <2>1. S \in SUBSET DOMAIN rows /\ Browsable(f) \in SUBSET S
    BY DEF Browsable
  <2> HIDE DEF S
  <2>2. IsFiniteSet(S) /\ IsFiniteSet(Browsable(f)) /\ Cardinality(Browsable(f)) <= Cardinality(S)
    BY <1>1, <2>1, FS_Subset
  <2> QED
    BY <2>2, FS_CardinalityType DEF CountOf, S
<1>3. ASSUME NEW f, NEW m PROVE InFront(f, m) \in Nat
  <2>1. {x \in Browsable(f) : Before(x, m)} \in SUBSET Browsable(f)
    OBVIOUS
  <2> QED
    BY <1>2, <2>1, FS_Subset, FS_CardinalityType DEF InFront
<1>4. ASSUME NEW m \in DOMAIN rows
      PROVE  /\ rows[m] = [kind |-> rows[m].kind, team |-> rows[m].team, project |-> rows[m].project,
                           status |-> rows[m].status, created |-> rows[m].created]
             /\ rows[m].created \in Nat /\ \A d \in Dim : rows[m][d] # All
  <2>1. rows[m] \in Memories
    BY DEF ArchiveTypeOK
  <2>2. PICK s \in Shape, status \in Status, t \in Time :
          rows[m] = [kind |-> s.kind, team |-> s.team, project |-> s.project, status |-> status, created |-> t]
    BY <2>1 DEF Memories
  <2>3. All \notin {s.kind, s.team, s.project, status} /\ t \in Nat
    BY ArchiveAssumption DEF All, Status
  <2> HIDE DEF All
  <2> QED
    BY <2>2, <2>3 DEF Dim
<1> QED
  BY <1>1, <1>2, <1>3, <1>4

\* The numbers of an order's first k are as many as k.
LEMMA FirstAreCounted ==
  ASSUME NEW S, NEW n \in Nat, NEW rank \in Bijection(S, 1..n), NEW m \in S
  PROVE  /\ IsFiniteSet({x \in S : rank[x] < rank[m]}) /\ rank[m] \in 1..n
         /\ Cardinality({x \in S : rank[x] < rank[m]}) = rank[m] - 1
<1> DEFINE T == {x \in S : rank[x] < rank[m]}
           k == rank[m] - 1
           g == [x \in T |-> rank[x]]
<1>1. /\ rank \in [S -> 1..n] /\ \A x, y \in S : rank[x] = rank[y] => x = y
      /\ \A i \in 1..n : \E x \in S : rank[x] = i
  BY DEF Bijection, Injection, Surjection, IsInjective
<1>2. k \in Nat /\ k < n /\ rank[m] \in 1..n
  BY <1>1
<1>3. g \in [T -> 1..k]
  BY <1>1, <1>2
<1>4. \A x, y \in T : g[x] = g[y] => x = y
  BY <1>1
<1>5. \A i \in 1..k : \E x \in T : g[x] = i
  <2>1. \A i \in 1..k : i \in 1..n /\ i < rank[m]
    BY <1>2
  <2> QED
    BY <1>1, <2>1
<1> HIDE DEF k, T, g
<1>6. g \in Bijection(T, 1..k)
  BY <1>3, <1>4, <1>5, Fun_IsInj, Fun_IsSurj DEF Bijection
<1>7. IsFiniteSet(1..k) /\ Cardinality(1..k) = k
  BY <1>2, FS_Interval
<1>8. g \in Injection(T, 1..k) /\ g \in Surjection(T, 1..k)
  BY <1>6 DEF Bijection
<1>9. IsFiniteSet(T) /\ Cardinality(T) = k
  BY <1>7, <1>8, FS_Injection
<1> QED
  BY <1>2, <1>9 DEF k, T

\* A page is at most Limit memories.
LEMMA PagesAreShort ==
  ASSUME NEW S, NEW n \in Nat, NEW rank \in Bijection(S, 1..n), NEW offset \in Nat
  PROVE  /\ IsFiniteSet(PageAt(rank, offset)) /\ Cardinality(PageAt(rank, offset)) \in Nat
         /\ Cardinality(PageAt(rank, offset)) <= Limit
<1> DEFINE T == PageAt(rank, offset)
           I == (offset + 1)..(offset + Limit)
           g == [x \in T |-> rank[x]]
<1>1. rank \in [S -> 1..n] /\ DOMAIN rank = S /\ \A x, y \in S : rank[x] = rank[y] => x = y
  BY DEF Bijection, Injection, IsInjective
<1>2. Limit \in Nat /\ IsFiniteSet(I) /\ Cardinality(I) = Limit
  <2>1. Limit \in Nat \ {0}
    BY ArchiveAssumption
  <2>2. offset + 1 \in Int /\ offset + Limit \in Int /\ ~ (offset + 1 > offset + Limit) /\ (offset + Limit) - (offset + 1) + 1 = Limit
    BY <2>1
  <2> QED
    BY <2>1, <2>2, FS_Interval
<1>3. g \in [T -> I] /\ \A x, y \in T : g[x] = g[y] => x = y
  BY <1>1, <1>2 DEF PageAt
<1> HIDE DEF T, I, g
<1>4. g \in Injection(T, I)
  BY <1>3, Fun_IsInj
<1>5. IsFiniteSet(T) /\ Cardinality(T) <= Limit
  BY <1>2, <1>4, FS_Injection
<1> QED
  BY <1>5, FS_CardinalityType DEF T

\* One of two memories comes before the other, and not the other way round.
LEMMA OrderIsStrict ==
  ASSUME ArchiveTypeOK, NEW a \in DOMAIN rows, NEW b \in DOMAIN rows
  PROVE  ~ (Before(a, b) /\ Before(b, a))
<1>1. rows[a].created \in Nat /\ rows[b].created \in Nat /\ a \in Nat /\ b \in Nat
  BY ArchiveFacts
<1> QED
  BY <1>1 DEF Before

\* The archive begins with early memories and nobody walking, or is at rest.
LEMMA ArchiveStart ==
  ASSUME ArchiveInit \/ (rows = << >> /\ walk = NoWalk)
  PROVE  ArchiveInv
<1>1. walk = NoWalk /\ DOMAIN rows \subseteq Id /\ rows \in [DOMAIN rows -> Memories]
  <2>1. CASE ArchiveInit
    BY <2>1, ArchiveAssumption DEF ArchiveInit
  <2>2. CASE rows = << >> /\ walk = NoWalk
    BY <2>2
  <2> QED
    BY <2>1, <2>2
<1> QED
  BY <1>1, FS_EmptySet DEF NoWalk, WalkField, ArchiveInv, ArchiveTypeOK, WalkInv

\* Where the rows stay, so does what a filter selects and in which order.
LEMMA SameRows ==
  ASSUME rows' = rows
  PROVE  \A g : (Browsable(g))' = Browsable(g) /\ \A m : (InFront(g, m))' = InFront(g, m)
BY DEF Browsable, InFront, Matches, Before

\* A walk begins with what its filter selects.
LEMMA BeginKeepsWalk == ASSUME ArchiveInv, NEW f, BeginWalk(f) PROVE ArchiveInv'
<1>1. /\ walk' = [NoWalk EXCEPT !.at = "listing", !.filter = f, !.due = Browsable(f)] /\ rows' = rows
  BY DEF BeginWalk
<1>2. /\ walk' = [x \in WalkField |-> walk'[x]] /\ walk'.at = "listing" /\ walk'.filter = f /\ walk'.due = Browsable(f)
      /\ walk'.offset = 0 /\ walk'.total = 0 /\ walk'.page = {}
  BY <1>1 DEF NoWalk, WalkField
<1>3. ArchiveTypeOK'
  BY <1>1, <1>2, FS_EmptySet DEF ArchiveInv, ArchiveTypeOK
<1>4. \A m : (InFront(f, m))' >= 0
  <2>1. \A m : (InFront(f, m))' \in Nat
    <3>1. ArchiveTypeOK
      BY DEF ArchiveInv
    <3>2. \A m : InFront(f, m) \in Nat
      BY <3>1, ArchiveFacts
    <3> QED
      BY <1>1, <3>2, SameRows
  <2> QED
    BY <2>1
<1>5. Reached' = 0 /\ (Browsable(f))' = Browsable(f)
  <2>1. Reached' = 0
    BY <1>2 DEF Reached
  <2> QED
    BY <1>1, <2>1, SameRows
<1> QED
  BY <1>2, <1>3, <1>4, <1>5 DEF ArchiveInv, WalkInv

\* What a page leaves out of what was due lies beyond it.
LEMMA ListKeepsWalk == ASSUME ArchiveInv, List PROVE ArchiveInv'
<1> DEFINE f == walk.filter
           B == Browsable(f)
           n == Cardinality(B)
<1>1. PICK rank \in Orders(B) :
        walk' = [walk EXCEPT !.at = "counting", !.page = PageAt(rank, walk.offset),
                             !.seen = @ \union PageAt(rank, walk.offset)]
  BY DEF List
<1> DEFINE listed == PageAt(rank, walk.offset)
<1>2. /\ ArchiveTypeOK /\ walk.at = "listing" /\ rows' = rows /\ walk = [x \in WalkField |-> walk[x]]
      /\ walk.offset \in Nat /\ walk.total \in Nat /\ n \in Nat /\ Limit \in Nat
  BY ArchiveFacts, ArchiveAssumption DEF List, ArchiveInv, ArchiveTypeOK
<1>3. rank \in Bijection(B, 1..n) /\ \A a, b \in B : rank[a] < rank[b] => Before(a, b)
  BY DEF Orders
<1>4. IsFiniteSet(listed) /\ Cardinality(listed) \in Nat /\ Cardinality(listed) <= Limit
  BY <1>2, <1>3, PagesAreShort
<1> HIDE DEF n
<1>5. /\ walk' = [x \in WalkField |-> walk'[x]] /\ walk'.at = "counting" /\ walk'.page = listed
      /\ walk'.seen = walk.seen \union listed
      /\ walk'.filter = f /\ walk'.due = walk.due /\ walk'.shrunk = walk.shrunk /\ walk'.offset = walk.offset
      /\ walk'.total = walk.total
  <2> HIDE DEF listed, f
  <2> QED
    BY <1>1, <1>2 DEF WalkField, listed, f
<1>6. ArchiveTypeOK'
  BY <1>2, <1>4, <1>5 DEF ArchiveTypeOK
<1>7. \A g : (Browsable(g))' = Browsable(g) /\ \A m : (InFront(g, m))' = InFront(g, m)
  BY <1>2, SameRows
<1>8. ASSUME ~ walk.shrunk, NEW m \in walk.due, m \notin walk'.seen
      PROVE  InFront(f, m) >= walk.offset + Cardinality(listed)
  <2> DEFINE S == {x \in B : rank[x] < rank[m]}
  <2>1. m \in B /\ m \notin walk.seen /\ m \notin listed /\ InFront(f, m) >= walk.offset
    BY <1>2, <1>5, <1>8 DEF ArchiveInv, WalkInv, Reached
  <2>2. rank[m] \in 1..n /\ Cardinality(S) = rank[m] - 1
    <3>1. n \in Nat
      BY <1>2
    <3> HIDE DEF B, listed
    <3> QED
      BY <3>1, <1>3, <2>1, FirstAreCounted
  <2>3. S = {x \in B : Before(x, m)}
    <3>1. ASSUME NEW x \in B, Before(x, m) PROVE rank[x] < rank[m]
      <4>1. x \in DOMAIN rows /\ m \in DOMAIN rows
        BY <2>1 DEF Browsable
      <4>2. rank[x] \in 1..n /\ (rank[x] = rank[m] => x = m)
        BY <1>3, <2>1 DEF Bijection, Injection, IsInjective
      <4>3. ~ Before(m, x)
        BY <1>2, <3>1, <4>1, OrderIsStrict
      <4>4. ~ (rank[m] < rank[x]) /\ rank[x] # rank[m]
        BY <1>3, <2>1, <3>1, <4>2, <4>3
      <4> QED
        BY <2>2, <4>2, <4>4
    <3>2. \A x \in B : rank[x] < rank[m] => Before(x, m)
      BY <1>3, <2>1
    <3> QED
      BY <3>1, <3>2
  <2>4. InFront(f, m) = rank[m] - 1
    BY <2>2, <2>3 DEF InFront
  <2>5. DOMAIN rank = B
    BY <1>3 DEF Bijection, Injection
  <2>6. ~ (walk.offset < rank[m] /\ rank[m] <= walk.offset + Limit)
    BY <2>1, <2>5 DEF PageAt
  <2> HIDE DEF listed, S
  <2>7. rank[m] > walk.offset + Limit
    BY <1>2, <2>1, <2>2, <2>4, <2>6
  <2> QED
    BY <1>2, <1>4, <2>2, <2>4, <2>7
<1>9. Reached' = walk.offset + Cardinality(listed)
  BY <1>5 DEF Reached
<1> HIDE DEF listed, f
<1> QED
  <2>1. walk'.due \subseteq Browsable(f) \/ walk'.shrunk
    BY <1>2, <1>5, <1>7 DEF ArchiveInv, WalkInv, f
  <2>2. (Browsable(walk.filter))' = Browsable(f) /\ \A m : (InFront(walk.filter, m))' = InFront(f, m)
    BY <1>5, <1>7
  <2>3. ~ walk'.shrunk => \A m \in walk'.due \ walk'.seen : (InFront(walk.filter, m))' >= Reached'
    BY <1>5, <1>8, <1>9, <2>2
  <2> QED
    BY <1>5, <1>6, <2>1, <2>2, <2>3 DEF ArchiveInv, WalkInv

\* The total is no less than the filter's memories, of which there are more than come
\* before any of them.
LEMMA CountKeepsWalk == ASSUME ArchiveInv, Count PROVE ArchiveInv'
<1>1. /\ walk' = [walk EXCEPT !.at = "answered", !.total = CountOf(walk.filter)] /\ walk.at = "counting" /\ rows' = rows
      /\ ArchiveTypeOK /\ walk = [x \in WalkField |-> walk[x]]
  BY DEF Count, ArchiveInv, ArchiveTypeOK
<1>2. /\ walk' = [x \in WalkField |-> walk'[x]] /\ walk'.at = "answered" /\ walk'.total = CountOf(walk.filter)
      /\ walk'.seen = walk.seen /\ walk'.page = walk.page
      /\ walk'.filter = walk.filter /\ walk'.due = walk.due /\ walk'.shrunk = walk.shrunk /\ walk'.offset = walk.offset
  BY <1>1 DEF WalkField
<1>3. ArchiveTypeOK'
  BY <1>1, <1>2, ArchiveFacts DEF ArchiveTypeOK
<1>4. \A g : (Browsable(g))' = Browsable(g) /\ \A m : (InFront(g, m))' = InFront(g, m)
  BY <1>1, SameRows
<1>5. Reached' = Reached /\ Reached \in Nat
  <2>1. Cardinality(walk.page) \in Nat /\ walk.offset \in Nat /\ walk.at = "counting"
    BY <1>1, FS_CardinalityType DEF ArchiveTypeOK
  <2> QED
    BY <1>2, <2>1 DEF Reached
<1>c. \A g : /\ IsFiniteSet(Browsable(g)) /\ Cardinality(Browsable(g)) \in Nat
             /\ Cardinality(Browsable(g)) <= CountOf(g) /\ CountOf(g) \in Nat
  BY <1>1, ArchiveFacts
<1>6. ASSUME ~ walk.shrunk, NEW m \in walk.due \ walk.seen PROVE Reached < walk'.total
  <2> DEFINE B == Browsable(walk.filter)
             S == {x \in B : Before(x, m)}
  <2>1. m \in B /\ InFront(walk.filter, m) >= Reached
    BY <1>1, <1>6 DEF ArchiveInv, WalkInv
  <2>2. S \in SUBSET B /\ m \notin S
    <3>1. m \in DOMAIN rows
      BY <2>1 DEF Browsable
    <3> QED
      BY <1>1, <3>1, OrderIsStrict
  <2>3. InFront(walk.filter, m) = Cardinality(S)
    BY DEF InFront
  <2>4. IsFiniteSet(B) /\ Cardinality(B) \in Nat /\ Cardinality(B) <= walk'.total /\ walk'.total \in Nat
    BY <1>2, <1>c
  <2> HIDE DEF S, B
  <2>5. Cardinality(S) <= Cardinality(B) /\ Cardinality(S) # Cardinality(B) /\ Cardinality(S) \in Nat
    BY <2>1, <2>2, <2>4, FS_Subset, FS_CardinalityType
  <2> QED
    BY <1>5, <2>1, <2>3, <2>4, <2>5
<1>7. walk'.total \in Nat
  BY <1>2, <1>c
<1>8. ASSUME ~ walk.shrunk, Reached >= walk'.total PROVE walk.due \subseteq walk.seen
  BY <1>5, <1>6, <1>7, <1>8
<1>9. ~ walk.shrunk => /\ walk.due \subseteq Browsable(walk.filter)
                       /\ \A m \in walk.due \ walk.seen : InFront(walk.filter, m) >= Reached
  BY <1>1 DEF ArchiveInv, WalkInv
<1> QED
  BY <1>2, <1>3, <1>4, <1>5, <1>8, <1>9 DEF ArchiveInv, WalkInv

\* The agent goes on, or ends.
LEMMA TurnKeepsWalk == ASSUME ArchiveInv, Continue \/ Stop \/ Leave PROVE ArchiveInv'
<1>0. rows' = rows /\ ArchiveTypeOK /\ walk = [x \in WalkField |-> walk[x]]
  BY DEF Continue, Stop, Leave, ArchiveInv, ArchiveTypeOK
<1>1. CASE Continue
  <2>1. /\ walk' = [walk EXCEPT !.at = "listing", !.offset = walk.offset + Cardinality(walk.page), !.page = {}]
        /\ walk.at = "answered"
    BY <1>1 DEF Continue
  <2>2. /\ walk' = [x \in WalkField |-> walk'[x]] /\ walk'.at = "listing" /\ walk'.total = walk.total
        /\ walk'.seen = walk.seen /\ walk'.page = {}
        /\ walk'.filter = walk.filter /\ walk'.due = walk.due /\ walk'.shrunk = walk.shrunk
        /\ walk'.offset = walk.offset + Cardinality(walk.page)
    BY <1>0, <2>1 DEF WalkField
  <2>3. Cardinality(walk.page) \in Nat /\ walk.offset \in Nat
    BY <1>0, FS_CardinalityType DEF ArchiveTypeOK
  <2>4. ArchiveTypeOK'
    BY <1>0, <2>2, <2>3, FS_EmptySet DEF ArchiveTypeOK
  <2>5. (Browsable(walk.filter))' = Browsable(walk.filter) /\ \A m : (InFront(walk.filter, m))' = InFront(walk.filter, m)
    BY <1>0, <2>2 DEF Browsable, InFront, Matches, Before
  <2>6. Reached' = Reached
    BY <2>1, <2>2, <2>3 DEF Reached
  <2> QED
    BY <2>1, <2>2, <2>4, <2>5, <2>6 DEF ArchiveInv, WalkInv
<1>2. CASE Stop
  <2>1. walk' = [walk EXCEPT !.at = "walked"] /\ walk.at = "answered" /\ ~ HasMore
    BY <1>2 DEF Stop
  <2>2. /\ walk' = [x \in WalkField |-> walk'[x]] /\ walk'.at = "walked" /\ walk'.total = walk.total
        /\ walk'.seen = walk.seen /\ walk'.page = walk.page
        /\ walk'.filter = walk.filter /\ walk'.due = walk.due /\ walk'.shrunk = walk.shrunk
        /\ walk'.offset = walk.offset
    BY <1>0, <2>1 DEF WalkField
  <2>3. Cardinality(walk.page) \in Nat /\ walk.offset \in Nat /\ walk.total \in Nat
    BY <1>0, FS_CardinalityType DEF ArchiveTypeOK
  <2>4. ArchiveTypeOK'
    BY <1>0, <2>2 DEF ArchiveTypeOK
  <2>5. (Browsable(walk.filter))' = Browsable(walk.filter) /\ \A m : (InFront(walk.filter, m))' = InFront(walk.filter, m)
    BY <1>0, <2>2 DEF Browsable, InFront, Matches, Before
  <2>6. Reached' = Reached /\ Reached >= walk.total
    BY <2>1, <2>2, <2>3 DEF Reached, HasMore
  <2> QED
    BY <2>1, <2>2, <2>4, <2>5, <2>6 DEF ArchiveInv, WalkInv
<1>3. CASE Leave
  <2>1. walk' = NoWalk
    BY <1>3 DEF Leave
  <2> QED
    BY <1>0, <2>1, FS_EmptySet DEF NoWalk, WalkField, ArchiveInv, ArchiveTypeOK, WalkInv
<1> QED
  BY <1>1, <1>2, <1>3

\* What joins the archive, or a filter, only puts more before what is due.
LEMMA MoreKeepsWalk ==
  ASSUME ArchiveInv, ArchiveTypeOK', NEW shrinks \in BOOLEAN, Alter(shrinks),
         \A m \in DOMAIN rows : m \in DOMAIN rows' /\ rows'[m].created = rows[m].created,
         ~ shrinks => \A m \in Browsable(walk.filter) : rows'[m].team # None /\ (Matches(m, walk.filter))'
  PROVE  ArchiveInv'
<1>1. ArchiveTypeOK /\ walk = [x \in WalkField |-> walk[x]]
  BY DEF ArchiveInv, ArchiveTypeOK
<1>2. /\ walk'.at = walk.at /\ walk'.total = walk.total /\ walk'.seen = walk.seen /\ walk'.page = walk.page
      /\ walk'.filter = walk.filter /\ walk'.due = walk.due /\ walk'.offset = walk.offset
      /\ walk.at # "idle" /\ ~ walk'.shrunk => ~ walk.shrunk /\ ~ shrinks
  BY <1>1 DEF Alter, WalkField
<1>3. Reached' = Reached
  BY <1>2 DEF Reached
<1> SUFFICES ASSUME walk.at # "idle", ~ walk'.shrunk PROVE WalkInv'
  BY <1>2 DEF ArchiveInv, WalkInv
<1> DEFINE B == Browsable(walk.filter)
           After == (Browsable(walk.filter))'
<1>4. ~ walk.shrunk /\ ~ shrinks
  BY <1>2
<1>5. B \subseteq After
  <2>1. ASSUME NEW m \in B PROVE m \in After
    <3>1. m \in DOMAIN rows
      BY DEF Browsable
    <3>2. m \in DOMAIN rows' /\ rows'[m].team # None /\ (Matches(m, walk.filter))'
      BY <1>4, <3>1
    <3> QED
      BY <3>2 DEF Browsable
  <2> QED
    BY <2>1
<1>6. ASSUME NEW m \in B PROVE (InFront(walk.filter, m))' >= InFront(walk.filter, m) /\ (InFront(walk.filter, m))' \in Nat
  <2> DEFINE S == {x \in B : Before(x, m)}
             T == {x \in After : (Before(x, m))'}
  <2>1. S \in SUBSET T
    <3>1. \A x \in B : x \in DOMAIN rows
      BY DEF Browsable
    <3>2. \A x \in B : Before(x, m) => (Before(x, m))'
      BY <3>1 DEF Before
    <3> HIDE DEF B, After
    <3> QED
      BY <1>5, <3>2
  <2>2. IsFiniteSet(After)
    <3>1. DOMAIN rows' \subseteq Id /\ After \in SUBSET DOMAIN rows'
      BY DEF ArchiveTypeOK, Browsable
    <3>2. IsFiniteSet(DOMAIN rows')
      BY <3>1, ArchiveAssumption, FS_Subset
    <3> QED
      BY <3>1, <3>2, FS_Subset
  <2>3. IsFiniteSet(T) /\ T \in SUBSET After
    BY <2>2, FS_Subset
  <2>4. InFront(walk.filter, m) = Cardinality(S) /\ (InFront(walk.filter, m))' = Cardinality(T)
    BY DEF InFront
  <2> HIDE DEF S, T
  <2>5. IsFiniteSet(S) /\ Cardinality(S) <= Cardinality(T)
    BY <2>1, <2>3, FS_Subset
  <2>6. Cardinality(S) \in Nat /\ Cardinality(T) \in Nat
    BY <2>3, <2>5, FS_CardinalityType
  <2> QED
    BY <2>4, <2>5, <2>6
<1>7. \A m \in B : InFront(walk.filter, m) \in Nat /\ (InFront(walk.filter, m))' \in Nat
  <2>1. \A f, m : InFront(f, m) \in Nat
    BY <1>1, ArchiveFacts
  <2> QED
    BY <1>6, <2>1
<1>8. Reached \in Nat
  <2>1. Cardinality(walk.page) \in Nat /\ walk.offset \in Nat
    BY <1>1, FS_CardinalityType DEF ArchiveTypeOK
  <2> QED
    BY <2>1 DEF Reached
<1>9. /\ walk.due \subseteq B /\ \A m \in walk.due \ walk.seen : InFront(walk.filter, m) >= Reached
      /\ walk.at = "answered" /\ Reached >= walk.total => walk.due \subseteq walk.seen
      /\ walk.at = "walked" => walk.due \subseteq walk.seen
  BY <1>4 DEF ArchiveInv, WalkInv
<1>10. \A m \in walk.due \ walk.seen : (InFront(walk.filter, m))' >= Reached
  BY <1>6, <1>7, <1>8, <1>9
<1> QED
  BY <1>2, <1>3, <1>5, <1>9, <1>10 DEF WalkInv

LEMMA ArchiveStep == ArchiveInv /\ [ArchiveNext]_archiveVars => ArchiveInv'
<1> SUFFICES ASSUME ArchiveInv, [ArchiveNext]_archiveVars PROVE ArchiveInv'
  OBVIOUS
<1>0. ArchiveTypeOK
  BY DEF ArchiveInv
<1>a. ASSUME NEW shrinks \in BOOLEAN, Alter(shrinks), DOMAIN rows' \subseteq Id, rows' \in [DOMAIN rows' -> Memories]
      PROVE  ArchiveTypeOK'
  <2>1. CASE walk.at = "idle"
    BY <1>0, <1>a, <2>1 DEF Alter, ArchiveTypeOK
  <2>2. CASE walk.at # "idle"
    <3>1. walk' = [walk EXCEPT !.shrunk = @ \/ shrinks]
      BY <1>a, <2>2 DEF Alter
    <3>2. /\ walk' = [x \in WalkField |-> walk'[x]] /\ walk'.at = walk.at /\ walk'.offset = walk.offset
          /\ walk'.total = walk.total /\ walk'.page = walk.page
      BY <1>0, <3>1 DEF ArchiveTypeOK, WalkField
    <3> QED
      BY <1>0, <1>a, <3>2 DEF ArchiveTypeOK
  <2> QED
    BY <2>1, <2>2
<1>1. ASSUME NEW m \in Id, NEW entry \in Memories, Extract(m, entry) PROVE ArchiveInv'
  <2>1. rows' = With(rows, m, entry) /\ m \notin DOMAIN rows /\ Alter(FALSE)
    BY <1>1 DEF Extract
  <2>2. DOMAIN rows' = DOMAIN rows \union {m} /\ rows'[m] = entry /\ \A n \in DOMAIN rows : rows'[n] = rows[n]
    BY <2>1 DEF With
  <2>3. DOMAIN rows' \subseteq Id /\ rows' \in [DOMAIN rows' -> Memories]
    <3>1. \A n \in DOMAIN rows' : rows'[n] \in Memories
      BY <1>0, <2>2 DEF ArchiveTypeOK
    <3>2. rows' = [n \in DOMAIN rows' |-> rows'[n]]
      BY <2>1 DEF With
    <3>3. DOMAIN rows' \subseteq Id
      BY <1>0, <2>2 DEF ArchiveTypeOK
    <3> QED
      BY <3>1, <3>2, <3>3
  <2>4. ArchiveTypeOK'
    BY <1>a, <2>1, <2>3
  <2>5. \A n \in Browsable(walk.filter) : rows'[n].team # None /\ (Matches(n, walk.filter))'
    <3>1. walk'.filter = walk.filter
      BY <1>0, <2>1 DEF Alter, ArchiveTypeOK, WalkField
    <3> QED
      BY <2>2, <3>1 DEF Browsable, Matches
  <2> QED
    BY <2>1, <2>2, <2>4, <2>5, MoreKeepsWalk
<1>2. ASSUME NEW m \in DOMAIN rows, ClaimAgainst(m) PROVE ArchiveInv'
  <2>1. rows' = rows /\ Alter(FALSE)
    BY <1>2 DEF ClaimAgainst
  <2>2. ArchiveTypeOK'
    BY <1>0, <1>a, <2>1 DEF ArchiveTypeOK
  <2>3. walk'.filter = walk.filter
    BY <1>0, <2>1 DEF Alter, ArchiveTypeOK, WalkField
  <2>4. \A n \in Browsable(walk.filter) : rows'[n].team # None /\ (Matches(n, walk.filter))'
    BY <2>1, <2>3 DEF Browsable, Matches
  <2> QED
    BY <2>1, <2>2, <2>4, MoreKeepsWalk
<1>3. ASSUME NEW m \in DOMAIN rows, NEW status \in Status, Restatus(m, status) PROVE ArchiveInv'
  <2> DEFINE shrinks == walk.filter.status \notin {All, status}
  <2>1. rows' = [rows EXCEPT ![m].status = status] /\ Alter(shrinks) /\ shrinks \in BOOLEAN
    BY <1>3 DEF Restatus
  <2>2. /\ DOMAIN rows' = DOMAIN rows /\ rows'[m] = [rows[m] EXCEPT !.status = status]
        /\ \A n \in DOMAIN rows : n # m => rows'[n] = rows[n]
    BY <1>0, <2>1 DEF ArchiveTypeOK
  <2>3. rows[m] \in Memories
    BY <1>0 DEF ArchiveTypeOK
  <2>4. PICK s \in Shape, old \in Status, t \in Time :
          rows[m] = [kind |-> s.kind, team |-> s.team, project |-> s.project, status |-> old, created |-> t]
    BY <2>3 DEF Memories
  <2>5. rows'[m] = [kind |-> s.kind, team |-> s.team, project |-> s.project, status |-> status, created |-> t]
    BY <2>2, <2>4
  <2>6. rows'[m] \in Memories
    BY <2>5 DEF Memories
  <2>7. DOMAIN rows' \subseteq Id /\ rows' \in [DOMAIN rows' -> Memories]
    BY <1>0, <2>1, <2>2, <2>6 DEF ArchiveTypeOK
  <2>8. ArchiveTypeOK'
    BY <1>a, <2>1, <2>7
  <2>9. walk'.filter = walk.filter
    BY <1>0, <2>1 DEF Alter, ArchiveTypeOK, WalkField
  <2>10. ~ shrinks => \A n \in Browsable(walk.filter) : rows'[n].team # None /\ (Matches(n, walk.filter))'
    <3> SUFFICES ASSUME ~ shrinks, NEW n \in Browsable(walk.filter)
                 PROVE  rows'[n].team # None /\ (Matches(n, walk.filter))'
      OBVIOUS
    <3>1. n \in DOMAIN rows /\ Matches(n, walk.filter) /\ rows[n].team # None
      BY DEF Browsable
    <3>2. CASE n # m
      BY <2>2, <2>9, <3>1, <3>2 DEF Matches
    <3>3. CASE n = m
      <4>1. rows'[m].team # None
        BY <2>4, <2>5, <3>1, <3>3
      <4>2. rows'[m]["status"] = status /\ \A d \in Dim : d # "status" => rows'[m][d] = rows[m][d]
        BY <2>4, <2>5 DEF Dim
      <4>3. walk.filter["status"] = All \/ walk.filter["status"] = status
        OBVIOUS
      <4> QED
        BY <2>9, <3>1, <3>3, <4>1, <4>2, <4>3 DEF Matches
    <3> QED
      BY <3>2, <3>3
  <2>11. \A n \in DOMAIN rows : n \in DOMAIN rows' /\ rows'[n].created = rows[n].created
    <3>1. rows'[m].created = rows[m].created
      BY <2>4, <2>5
    <3> QED
      BY <2>2, <3>1
  <2> HIDE DEF shrinks
  <2> QED
    BY <2>1, <2>8, <2>10, <2>11, MoreKeepsWalk
<1>4. CASE WalkStep
  BY <1>4, ListKeepsWalk, CountKeepsWalk, TurnKeepsWalk DEF WalkStep
<1>5. ASSUME NEW f, BeginWalk(f) PROVE ArchiveInv'
  BY <1>5, BeginKeepsWalk
<1>6. CASE UNCHANGED archiveVars
  <2>1. rows' = rows /\ walk' = walk
    BY <1>6 DEF archiveVars
  <2>2. (Browsable(walk.filter))' = Browsable(walk.filter) /\ \A m : (InFront(walk.filter, m))' = InFront(walk.filter, m)
    BY <2>1, SameRows
  <2>3. Reached' = Reached
    BY <2>1 DEF Reached
  <2> QED
    BY <2>1, <2>2, <2>3 DEF ArchiveInv, ArchiveTypeOK, WalkInv
<1> QED
  BY <1>1, <1>2, <1>3, <1>4, <1>5, <1>6 DEF ArchiveNext

\* An option of the archive's menu selects what it counts.
LEMMA MenuIsKept == ASSUME ArchiveTypeOK PROVE MenuKeepsItsPromise
<1> SUFFICES ASSUME NEW f \in Filters, NEW d \in Dim, NEW n \in DOMAIN rows, ~ (d = "team" /\ rows[n][d] = None)
             PROVE  Facet(f, d, rows[n][d]) = CountOf([f EXCEPT ![d] = rows[n][d]])
  BY DEF MenuKeepsItsPromise
<1> DEFINE v == rows[n][d]
<1>1. f = [e \in Dim |-> f[e]]
  BY DEF Filters, Dim
<1>2. v # All
  BY ArchiveFacts
<1> HIDE DEF v
<1>3. \A m : Matches(m, MaskOut(f, d)) /\ rows[m][d] = v <=> Matches(m, [f EXCEPT ![d] = v])
  BY <1>1, <1>2 DEF Matches, MaskOut
<1> QED
  BY <1>3 DEF Facet, CountOf, v

\* So does one of the backlog's that is not the teamless.
LEMMA TriageIsKept == ASSUME ArchiveTypeOK PROVE TriageLeadsSomewhere
<1> SUFFICES ASSUME NEW d \in {"kind", "team", "project"}, NEW n \in Flagged(NoFilter, 0),
                    d # "team" \/ rows[n][d] # None
             PROVE  FlaggedFacet(d, rows[n][d]) = FlaggedCount([NoFilter EXCEPT ![d] = rows[n][d]], 0)
  BY DEF TriageLeadsSomewhere, FeedbackQueue, LeadsTo
<1> DEFINE v == rows[n][d]
           narrowed == [NoFilter EXCEPT ![d] = v]
<1>1. v # All /\ d \in Dim
  BY ArchiveFacts DEF Flagged, Dim
<1>2. NoFilter.team # None /\ narrowed.team # None
  <2>1. NoFilter.team # None
    BY DEF Flagged
  <2> QED
    BY <2>1, <1>1 DEF NoFilter, Dim
<1> HIDE DEF v
<1>3. \A m : Matches(m, NoFilter) /\ rows[m][d] = v <=> Matches(m, narrowed)
  BY <1>1 DEF Matches, NoFilter
<1> QED
  BY <1>2, <1>3 DEF Flagged, FlaggedFacet, FlaggedCount, v

LEMMA ArchiveIsWhole == ArchiveInv => WalkMissesNothing /\ MenuKeepsItsPromise /\ TriageLeadsSomewhere
<1> SUFFICES ASSUME ArchiveInv PROVE WalkMissesNothing /\ MenuKeepsItsPromise /\ TriageLeadsSomewhere
  OBVIOUS
<1> QED
  BY MenuIsKept, TriageIsKept DEF ArchiveInv, WalkInv, WalkMissesNothing

\* However memories arrive and change standing while an agent walks the archive, a walk
\* that nothing left has seen all that was due (mcp.rs memory_list), and the options of
\* the menus lead to as many memories as they say; of the backlog's menu, all but the
\* one for memories without a team, which its filter cannot select (feedback.rs).
THEOREM WalksMissNothing == ArchiveSpec => [](WalkMissesNothing /\ MenuKeepsItsPromise /\ TriageLeadsSomewhere)
BY ArchiveStart, ArchiveStep, ArchiveIsWhole, PTL DEF ArchiveSpec

-----------------------------------------------------------------------------
(* The fused list (module Fusion). *)

\* A fraction, and one that is no less than another.
Ratio == Nat \X (Nat \ {0})
NoLess(a, b) == a[1] * b[2] >= b[1] * a[2]

\* Products keep an order.
LEMMA Scaled ==
  ASSUME NEW x \in Nat, NEW y \in Nat, NEW z \in Nat
  PROVE  /\ x >= y => x * z >= y * z
         /\ x > y /\ z > 0 => x * z > y * z
<1>1. ASSUME x >= y PROVE x * z >= y * z
  <2>1. x - y \in Nat
    BY <1>1
  <2>2. (x - y) * z \in Nat
    BY <2>1
  <2>3. x * z = y * z + (x - y) * z
    OBVIOUS
  <2> QED
    BY <2>2, <2>3
<1>2. ASSUME x > y, z > 0 PROVE x * z > y * z
  <2>1. x - y - 1 \in Nat
    BY <1>2
  <2>2. (x - y - 1) * z \in Nat
    BY <2>1
  <2>3. x * z = y * z + (x - y - 1) * z + z
    OBVIOUS
  <2> QED
    BY <1>2, <2>2, <2>3
<1> QED
  BY <1>1, <1>2

\* A positive factor common to two products can be left out.
LEMMA Cancelled ==
  ASSUME NEW x \in Nat, NEW y \in Nat, NEW z \in Nat, z > 0
  PROVE  /\ x * z >= y * z => x >= y
         /\ x * z > y * z => x > y
<1>1. y > x => y * z > x * z
  BY Scaled
<1>2. y >= x => y * z >= x * z
  BY Scaled
<1> QED
  BY <1>1, <1>2

\* The order of fractions is transitive.
LEMMA RatioOrder ==
  ASSUME NEW a \in Ratio, NEW b \in Ratio, NEW c \in Ratio
  PROVE  /\ Above(a, b) <=> ~ NoLess(b, a)
         /\ NoLess(a, b) /\ NoLess(b, c) => NoLess(a, c)
         /\ Above(a, b) /\ NoLess(b, c) => Above(a, c)
         /\ NoLess(a, b) /\ Above(b, c) => Above(a, c)
<1> DEFINE p == a[1]  q == a[2]  r == b[1]  s == b[2]  t == c[1]  u == c[2]
<1>0. /\ p \in Nat /\ r \in Nat /\ t \in Nat
      /\ q \in Nat /\ s \in Nat /\ u \in Nat /\ q > 0 /\ s > 0 /\ u > 0
  BY DEF Ratio
<1> HIDE DEF p, q, r, s, t, u
<1>1. Above(a, b) <=> ~ NoLess(b, a)
  BY <1>0 DEF Above, NoLess, p, q, r, s
<1>2. \A x, y \in Nat : x * y \in Nat
  OBVIOUS
<1>3. /\ (p * s) * u = (p * u) * s /\ (r * q) * u = (r * u) * q /\ (t * s) * q = (t * q) * s
      /\ p * s \in Nat /\ r * q \in Nat /\ r * u \in Nat /\ t * s \in Nat /\ p * u \in Nat /\ t * q \in Nat
      /\ (p * s) * u \in Nat /\ (r * q) * u \in Nat /\ (t * s) * q \in Nat
  BY <1>0
<1>4. /\ p * s >= r * q => (p * s) * u >= (r * q) * u
      /\ p * s > r * q => (p * s) * u > (r * q) * u
  BY <1>0, <1>3, Scaled
<1>5. /\ r * u >= t * s => (r * u) * q >= (t * s) * q
      /\ r * u > t * s => (r * u) * q > (t * s) * q
  BY <1>0, <1>3, Scaled
<1>6. /\ (p * u) * s >= (t * q) * s => p * u >= t * q
      /\ (p * u) * s > (t * q) * s => p * u > t * q
  BY <1>0, <1>3, Cancelled
<1> DEFINE ps == p * s  rq == r * q  ru == r * u  ts == t * s  pu == p * u  tq == t * q
           psu == (p * s) * u  rqu == (r * q) * u  tsq == (t * s) * q
<1>7. /\ ps >= rq /\ ru >= ts => pu >= tq
      /\ ps > rq /\ ru >= ts => pu > tq
      /\ ps >= rq /\ ru > ts => pu > tq
  <2>1. psu \in Nat /\ rqu \in Nat /\ tsq \in Nat
    BY <1>3
  <2>2. /\ ps >= rq => psu >= rqu
        /\ ps > rq => psu > rqu
    BY <1>4
  <2>3. /\ ru >= ts => rqu >= tsq
        /\ ru > ts => rqu > tsq
    BY <1>3, <1>5
  <2>4. /\ psu >= tsq => pu >= tq
        /\ psu > tsq => pu > tq
    BY <1>3, <1>6
  <2> HIDE DEF ps, rq, ru, ts, pu, tq, psu, rqu, tsq
  <2> QED
    BY <2>1, <2>2, <2>3, <2>4
<1> QED
  BY <1>1, <1>7 DEF Above, NoLess, p, q, r, s, t, u

\* Of two fractions one is no less than the other, and none is above itself.
LEMMA RatioIsTotal ==
  ASSUME NEW a \in Ratio, NEW b \in Ratio
  PROVE  /\ Above(a, b) <=> ~ NoLess(b, a)
         /\ Above(a, b) => NoLess(a, b)
         /\ ~ Above(a, a)
<1> DEFINE p == a[1] * b[2]  q == b[1] * a[2]  r == a[1] * a[2]
<1>1. p \in Nat /\ q \in Nat /\ r \in Nat
  BY DEF Ratio
<1> HIDE DEF p, q, r
<1>2. (p > q <=> ~ (q >= p)) /\ (p > q => p >= q) /\ ~ (r > r)
  BY <1>1
<1> QED
  BY <1>2 DEF Above, NoLess, p, q, r

\* A sum of fractions is a fraction, whichever comes first.
LEMMA SumIsRatio ==
  ASSUME NEW a \in Ratio, NEW b \in Ratio
  PROVE  Plus(a, b) \in Ratio /\ Plus(a, b) = Plus(b, a)
<1> DEFINE p == a[1]  q == a[2]  r == b[1]  s == b[2]
<1>0. p \in Nat /\ r \in Nat /\ q \in Nat /\ s \in Nat /\ q > 0 /\ s > 0
  BY DEF Ratio
<1> HIDE DEF p, q, r, s
<1>1. p * s + r * q \in Nat /\ q * s \in Nat /\ q * s = s * q /\ p * s + r * q = r * q + p * s
  BY <1>0
<1>2. q * s > 0
  <2>1. q * s > 0 * s
    BY <1>0, Scaled
  <2> QED
    BY <1>0, <2>1
<1> QED
  BY <1>1, <1>2 DEF Plus, Ratio, p, q, r, s

\* A sum grows with its parts.
LEMMA SumGrows ==
  ASSUME NEW a \in Ratio, NEW b \in Ratio, NEW c \in Ratio, NEW d \in Ratio, NoLess(a, c), NoLess(b, d)
  PROVE  /\ NoLess(Plus(a, b), Plus(c, d))
         /\ Above(a, c) \/ Above(b, d) => Above(Plus(a, b), Plus(c, d))
<1> DEFINE p == a[1]  q == a[2]  r == b[1]  s == b[2]  t == c[1]  u == c[2]  v == d[1]  w == d[2]
<1>0. /\ p \in Nat /\ r \in Nat /\ t \in Nat /\ v \in Nat
      /\ q \in Nat /\ s \in Nat /\ u \in Nat /\ w \in Nat /\ q > 0 /\ s > 0 /\ u > 0 /\ w > 0
  BY DEF Ratio
<1>1. p * u >= t * q /\ r * w >= v * s
  BY DEF NoLess
<1>2. (Above(a, c) => p * u > t * q) /\ (Above(b, d) => r * w > v * s)
  BY DEF Above
<1> HIDE DEF p, q, r, s, t, u, v, w
<1> DEFINE pu == p * u  tq == t * q  rw == r * w  vs == v * s  sw == s * w  qu == q * u
<1>3. /\ pu \in Nat /\ tq \in Nat /\ rw \in Nat /\ vs \in Nat /\ sw \in Nat /\ qu \in Nat
  BY <1>0
<1>4. sw > 0 /\ qu > 0
  <2>1. s * w > 0 * w /\ q * u > 0 * u
    BY <1>0, Scaled
  <2> QED
    BY <1>0, <2>1
<1>5. /\ (p * s + r * q) * (u * w) = pu * sw + rw * qu
      /\ (t * w + v * u) * (q * s) = tq * sw + vs * qu
  <2>1. (p * s + r * q) * (u * w) = (p * s) * (u * w) + (r * q) * (u * w)
    BY <1>0
  <2>2. (t * w + v * u) * (q * s) = (t * w) * (q * s) + (v * u) * (q * s)
    BY <1>0
  <2>3. (p * s) * (u * w) = pu * sw /\ (r * q) * (u * w) = rw * qu
    BY <1>0
  <2>4. (t * w) * (q * s) = tq * sw /\ (v * u) * (q * s) = vs * qu
    BY <1>0
  <2> QED
    BY <2>1, <2>2, <2>3, <2>4
<1> HIDE DEF pu, tq, rw, vs, sw, qu
<1>6. /\ pu * sw >= tq * sw /\ rw * qu >= vs * qu
      /\ pu > tq => pu * sw > tq * sw
      /\ rw > vs => rw * qu > vs * qu
  <2>1. pu >= tq /\ rw >= vs
    BY <1>1 DEF pu, tq, rw, vs
  <2> QED
    BY <1>3, <1>4, <2>1, Scaled
<1> DEFINE A == pu * sw  B == tq * sw  D == rw * qu  E == vs * qu
<1>7. A \in Nat /\ B \in Nat /\ D \in Nat /\ E \in Nat
  BY <1>3
<1>8. /\ A + D >= B + E
      /\ pu > tq \/ rw > vs => A + D > B + E
  <2>1. A >= B /\ D >= E /\ (pu > tq => A > B) /\ (rw > vs => D > E)
    BY <1>6
  <2> HIDE DEF A, B, D, E
  <2> QED
    BY <1>7, <2>1
<1>9. /\ Plus(a, b)[1] = p * s + r * q /\ Plus(a, b)[2] = q * s
      /\ Plus(c, d)[1] = t * w + v * u /\ Plus(c, d)[2] = u * w
  BY DEF Plus, p, q, r, s, t, u, v, w
<1> QED
  BY <1>2, <1>5, <1>8, <1>9 DEF NoLess, Above, pu, tq, rw, vs

\* A list names a candidate at one place.
LEMMA RankIsPlace ==
  ASSUME FusionInit, NEW x, NEW l \in 1..2, Listed(x, l)
  PROVE  /\ Rank(x, l) \in 1..MaxList /\ Rank(x, l) \in Nat \ {0} /\ Rank(x, l) <= Len(lists[l])
         /\ lists[l][Rank(x, l)] = x
<1>1. lists[l] \in Lists
  BY DEF FusionInit
<1>2. PICK n \in 0..MaxList : lists[l] \in [1..n -> Item]
  BY <1>1 DEF Lists
<1>3. \E i \in DOMAIN lists[l] : lists[l][i] = x
  BY DEF Listed, Range
<1>4. Rank(x, l) \in DOMAIN lists[l] /\ lists[l][Rank(x, l)] = x
  BY <1>3 DEF Rank
<1>5. DOMAIN lists[l] = 1..n /\ n \in Nat /\ n <= MaxList /\ MaxList \in Nat
  BY <1>2, FusionAssumption
<1>6. Len(lists[l]) = n
  BY <1>2, <1>5
<1> QED
  BY <1>4, <1>5, <1>6

\* What a list adds to a score.
LEMMA TermFacts ==
  ASSUME FusionInit, NEW x, NEW l \in 1..2
  PROVE  /\ Term(x, l) \in Ratio
         /\ Listed(x, l) => Term(x, l) = <<Weight(l), RankConstant + Rank(x, l)>>
         /\ ~ Listed(x, l) => Term(x, l) = <<0, 1>>
         /\ Weight(l) \in {1, 2}
<1>1. Weight(l) \in {1, 2}
  BY DEF Weight
<1>2. CASE Listed(x, l)
  <2>1. RankConstant + Rank(x, l) \in Nat \ {0}
    BY <1>2, RankIsPlace, FusionAssumption
  <2> QED
    BY <1>1, <1>2, <2>1 DEF Term, Ratio
<1>3. CASE ~ Listed(x, l)
  BY <1>1, <1>3 DEF Term, Ratio
<1> QED
  BY <1>2, <1>3

\* A list that puts one candidate before another adds more to its score; one that knows
\* neither adds nothing to both.
LEMMA AheadAddsMore ==
  ASSUME FusionInit, NEW x, NEW y, NEW l \in 1..2, Listed(x, l) \/ Listed(y, l) => Ahead(x, y, l)
  PROVE  /\ NoLess(Term(x, l), Term(y, l))
         /\ Listed(x, l) => Above(Term(x, l), Term(y, l))
<1>1. CASE ~ Listed(x, l)
  <2>1. ~ Listed(y, l)
    BY <1>1 DEF Ahead
  <2> QED
    BY <1>1, <2>1, TermFacts DEF NoLess
<1>2. CASE Listed(x, l) /\ ~ Listed(y, l)
  <2>1. /\ Term(x, l) = <<Weight(l), RankConstant + Rank(x, l)>> /\ Term(y, l) = <<0, 1>>
        /\ RankConstant + Rank(x, l) \in Nat /\ Weight(l) \in {1, 2}
    BY <1>2, TermFacts, RankIsPlace, FusionAssumption
  <2> QED
    BY <2>1 DEF NoLess, Above
<1>3. CASE Listed(x, l) /\ Listed(y, l)
  <2> DEFINE i == RankConstant + Rank(x, l)
             j == RankConstant + Rank(y, l)
             w == Weight(l)
  <2>1. Rank(x, l) < Rank(y, l) /\ Rank(x, l) \in Nat /\ Rank(y, l) \in Nat
    BY <1>3, RankIsPlace DEF Ahead
  <2>2. i \in Nat /\ j \in Nat /\ j > i /\ w \in {1, 2}
    BY <2>1, TermFacts, FusionAssumption
  <2>3. Term(x, l) = <<w, i>> /\ Term(y, l) = <<w, j>>
    BY <1>3, TermFacts
  <2> HIDE DEF i, j, w
  <2> QED
    BY <2>2, <2>3 DEF NoLess, Above
<1> QED
  BY <1>1, <1>2, <1>3

\* Candidates come one before the other.
LEMMA LeadsIsOrder ==
  ASSUME FusionInit, NEW x \in Found, NEW y \in Found, NEW z \in Found
  PROVE  /\ ~ Leads(x, x)
         /\ Leads(x, y) /\ Leads(y, z) => Leads(x, z)
<1>1. \A e \in Found : FusedScore(e) \in Ratio
  BY TermFacts, SumIsRatio DEF FusedScore
<1>2. \A e \in Found : FirstSeen(e) \in Nat
  <2>1. ASSUME NEW e \in Found PROVE FirstSeen(e) \in Nat
    <3>1. CASE Listed(e, 1)
      BY <3>1, RankIsPlace DEF FirstSeen
    <3>2. CASE ~ Listed(e, 1)
      <4>1. Listed(e, 2)
        BY <2>1, <3>2 DEF Found, Listed
      <4>2. Len(lists[1]) \in Nat
        <5>1. lists[1] \in Lists
          BY DEF FusionInit
        <5>2. PICK n \in 0..MaxList : lists[1] \in [1..n -> Item]
          BY <5>1 DEF Lists
        <5> QED
          BY <5>2, FusionAssumption
      <4> QED
        BY <3>2, <4>1, <4>2, RankIsPlace DEF FirstSeen
    <3> QED
      BY <3>1, <3>2
  <2> QED
    BY <2>1
<1> DEFINE score(e) == FusedScore(e)
<1> HIDE DEF score
<1>3. \A e \in Found : score(e) \in Ratio
  BY <1>1 DEF score
<1>4. \A a, b \in Found : /\ Above(score(a), score(b)) <=> ~ NoLess(score(b), score(a))
                          /\ Above(score(a), score(b)) => NoLess(score(a), score(b))
                          /\ ~ Above(score(a), score(a))
  BY <1>3, RatioIsTotal
<1>5. \A a, b, c \in Found :
        /\ NoLess(score(a), score(b)) /\ NoLess(score(b), score(c)) => NoLess(score(a), score(c))
        /\ Above(score(a), score(b)) /\ NoLess(score(b), score(c)) => Above(score(a), score(c))
        /\ NoLess(score(a), score(b)) /\ Above(score(b), score(c)) => Above(score(a), score(c))
  BY <1>3, RatioOrder
<1>6. \A a, b \in Found : Leads(a, b) <=> \/ Above(score(a), score(b))
                                          \/ NoLess(score(a), score(b)) /\ FirstSeen(a) < FirstSeen(b)
  BY <1>4 DEF Leads, score
<1>7. FirstSeen(x) \in Nat /\ FirstSeen(y) \in Nat /\ FirstSeen(z) \in Nat
  BY <1>2
<1>8. ~ Leads(x, x)
  BY <1>4, <1>6, <1>7
<1>9. ASSUME Leads(x, y), Leads(y, z) PROVE Leads(x, z)
  <2>1. NoLess(score(x), score(y)) /\ NoLess(score(y), score(z))
    BY <1>4, <1>6, <1>9
  <2>2. CASE Above(score(x), score(y)) \/ Above(score(y), score(z))
    BY <1>5, <1>6, <2>1, <2>2
  <2>3. CASE ~ (Above(score(x), score(y)) \/ Above(score(y), score(z)))
    <3>1. FirstSeen(x) < FirstSeen(y) /\ FirstSeen(y) < FirstSeen(z)
      BY <1>6, <1>9, <2>3
    <3>2. FirstSeen(x) < FirstSeen(z)
      BY <1>7, <3>1
    <3> QED
      BY <1>5, <1>6, <2>1, <3>2
  <2> QED
    BY <2>2, <2>3
<1> QED
  BY <1>8, <1>9

\* Whoever leads stands before, and is not cut away for the other: what is before it is
\* before the other too.
LEMMA LeadersStandBefore ==
  ASSUME FusionInit, NEW x \in Found, NEW y \in Found, Leads(x, y)
  PROVE  ComesFirst(x, y)
<1> DEFINE S == {e \in Found : Leads(e, x)}
           T == {e \in Found : Leads(e, y)}
<1>1. IsFiniteSet(Found)
  <2>1. ASSUME NEW l \in 1..2 PROVE IsFiniteSet(Range(lists[l]))
    <3>1. lists[l] \in Lists
      BY DEF FusionInit
    <3>2. PICK n \in 0..MaxList : lists[l] \in [1..n -> Item]
      BY <3>1 DEF Lists
    <3>3. IsFiniteSet(1..n)
      BY FS_Interval, FusionAssumption
    <3>4. lists[l] \in Surjection(1..n, Range(lists[l]))
      BY <3>2 DEF Surjection, Range
    <3> QED
      BY <3>3, <3>4, FS_Surjection
  <2>2. IsFiniteSet(Range(lists[1])) /\ IsFiniteSet(Range(lists[2]))
    BY <2>1
  <2> QED
    BY <2>2, FS_Union DEF Found
<1>2. T \in SUBSET Found /\ S \in SUBSET T /\ x \in T /\ x \notin S
  BY LeadsIsOrder
<1> HIDE DEF S, T
<1>3. IsFiniteSet(T) /\ IsFiniteSet(S)
  BY <1>1, <1>2, FS_Subset
<1>4. Cardinality(S) <= Cardinality(T) /\ Cardinality(S) # Cardinality(T)
  BY <1>2, <1>3, FS_Subset
<1>5. Cardinality(S) \in Nat /\ Cardinality(T) \in Nat
  BY <1>3, FS_CardinalityType
<1>6. Place[x] = 1 + Cardinality(S) /\ Place[y] = 1 + Cardinality(T)
  BY DEF Place, S, T
<1>7. Place[x] \in Nat /\ Place[y] \in Nat /\ Place[x] < Place[y] /\ Top \in Nat
  BY <1>4, <1>5, <1>6, FusionAssumption
<1> QED
  BY <1>7 DEF ComesFirst, Fused

\* Who is ahead in each list leads by the score.
LEMMA AgreementIsKept == FusionInit => AgreementWins
<1> SUFFICES ASSUME FusionInit, NEW x \in Found, NEW y \in Found, x # y,
                    \A l \in 1..2 : Listed(x, l) \/ Listed(y, l) => Ahead(x, y, l)
             PROVE  ComesFirst(x, y)
  BY DEF AgreementWins
<1>1. Listed(x, 1) \/ Listed(x, 2)
  BY DEF Found, Listed
<1>2. \A l \in 1..2 : NoLess(Term(x, l), Term(y, l)) /\ (Listed(x, l) => Above(Term(x, l), Term(y, l)))
  BY AheadAddsMore
<1>3. \A l \in 1..2 : Term(x, l) \in Ratio /\ Term(y, l) \in Ratio
  BY TermFacts
<1>4. Above(FusedScore(x), FusedScore(y))
  <2>1. 1 \in 1..2 /\ 2 \in 1..2
    OBVIOUS
  <2> QED
    BY <1>1, <1>2, <1>3, <2>1, SumGrows DEF FusedScore
<1> QED
  BY <1>4, LeadersStandBefore DEF Leads

\* A text match adds more than the best place of the other list.
LEMMA LiteralIsKept == FusionInit => LiteralLeads
<1> SUFFICES ASSUME FusionInit, identifiers, NEW x \in Found, NEW y \in Found, Listed(x, 2), ~ Listed(y, 2)
             PROVE  ComesFirst(x, y)
  BY DEF LiteralLeads
<1> DEFINE i == Rank(x, 2)
           j == Rank(y, 1)
<1>0. Listed(y, 1) /\ 1 \in 1..2 /\ 2 \in 1..2
  BY DEF Found, Listed
<1>1. i \in Nat /\ i <= MaxList /\ j \in Nat /\ j >= 1
  BY <1>0, RankIsPlace, FusionAssumption
<1>2. Term(x, 2) = <<2, RankConstant + i>> /\ Term(y, 1) = <<1, RankConstant + j>> /\ Term(y, 2) = <<0, 1>>
  <2>1. Weight(2) = 2 /\ Weight(1) = 1
    BY DEF Weight
  <2> QED
    BY <1>0, <2>1, TermFacts
<1>3. Term(x, 1) \in Ratio /\ Term(x, 2) \in Ratio /\ Term(y, 1) \in Ratio /\ Term(y, 2) \in Ratio
  BY <1>0, TermFacts
<1> HIDE DEF i, j
<1>4. Above(Term(x, 2), Term(y, 1)) /\ NoLess(Term(x, 2), Term(y, 1))
  BY <1>1, <1>2, FusionAssumption DEF Above, NoLess
<1>5. NoLess(Term(x, 1), Term(y, 2))
  <2>1. Term(x, 1)[1] \in Nat /\ Term(x, 1)[2] \in Nat
    BY <1>3 DEF Ratio
  <2> QED
    BY <1>2, <2>1 DEF NoLess
<1>6. Above(Plus(Term(x, 1), Term(x, 2)), Plus(Term(y, 2), Term(y, 1)))
  BY <1>3, <1>4, <1>5, SumGrows
<1>7. Above(FusedScore(x), FusedScore(y))
  BY <1>3, <1>6, SumIsRatio DEF FusedScore
<1> QED
  BY <1>7, LeadersStandBefore DEF Leads

\* In the list fused of two of any length, whoever is ahead in each list that knows
\* either of two stands first, and for an identifier-heavy query the text's matches
\* stand before what the vectors alone found (fusion.rs weighted_reciprocal_rank_fusion).
THEOREM FusionIsFair == FusionSpec => [](AgreementWins /\ LiteralLeads)
<1>1. FusionInit /\ [UNCHANGED fusionVars]_fusionVars => FusionInit'
  BY DEF FusionInit, fusionVars, Lists
<1> QED
  BY <1>1, AgreementIsKept, LiteralIsKept, PTL DEF FusionSpec

-----------------------------------------------------------------------------
(* What the parts' invariants say together. *)

\* However the statements of ratifications, settlements and the sweep interleave, a
\* signal that has brought a rule brings another only if the first was committed before
\* the other chose its slug and, if it is live, after the other had looked for one: the
\* unique slug ends every other race (bridge.rs propose_from_divergence, unique_slug).
THEOREM AnotherOnlyByOverlap == StandardsSpec => []SecondOnlyByOverlap
<1>1. ShelfInv => SecondOnlyByOverlap
  BY ShelfHolds
<1> QED
  BY ShelfStart, ShelfStep, <1>1, PTL DEF StandardsSpec

\* Whatever requests, edits, sweeps and signatures interleave, nothing reaches readers
\* from the Library's shelves that nobody signed.
THEOREM NothingUnsigned == StandardsSpec /\ SkillsSpec => []ShelvesAreSigned
<1>1. ShelfInv /\ SkillInv => ShelvesAreSigned
  BY ShelfHolds, SkillsHold DEF ShelvesAreSigned, SkillInv
<1> QED
  BY ShelfStart, ShelfStep, SkillStart, SkillStep, <1>1, PTL DEF StandardsSpec, SkillsSpec

\* What somebody decided stands: a signal refused within its window, which the machine
\* proposes again only if both candidate and refusal came between the two reads of its
\* own transaction; a served skill; an approved or refused pairing.
THEOREM DecisionsStand == StandardsSpec /\ SkillsSpec /\ OnboardSpec => PeopleAreHeard
<1>1. ShelfInv /\ [StandardsNext]_standardVars => RejectionIsRespected
  BY ShelfStep
<1>2. SkillInv /\ [SkillsNext]_skillVars => ServingIsOnlyReplacedBySigning
  BY SkillStep
<1>3. OnboardInv /\ [OnboardNext]_onboardVars => DecisionIsFinal
  BY DecisionStands
<1> QED
  BY ShelfStart, ShelfStep, SkillStart, SkillStep, OnboardStart, OnboardStep, <1>1, <1>2, <1>3, PTL
  DEF StandardsSpec, SkillsSpec, OnboardSpec, PeopleAreHeard

\* Whatever interleaves with a search or a preflight, what it answers is governed: one
\* voice per chain, nothing below the floor, nothing among the candidates that the caller
\* may not see, what is due of the caller's own there unless a list is full of others, and
\* before an edit all that was in force and nothing else (retrieval.rs engine).
THEOREM AnswersStayGoverned == SearchSpec /\ FusionSpec /\ GuardSpec => []AnswersAreGoverned
<1>1. GuardInit => GuardInv
  BY DEF GuardInit, GuardInv, ToldIsHeld
<1>2. SearchInv /\ GuardInv /\ AgreementWins /\ LiteralLeads => AnswersAreGoverned
  BY SearchHolds DEF AnswersAreGoverned, GuardInv
<1> QED
  BY SearchStart, SearchStepKeeps, <1>1, GuardStep, FusionIsFair, <1>2, PTL DEF SearchSpec, GuardSpec

\* A governed search serves fewer than asked only when nothing uncontested is left, and
\* no surface hands out a side of a dispute that stayed open as settled.
THEOREM ServesWhatItCan == SearchSpec => FullAndSettled
<1>1. SearchInv /\ [SearchNext]_searchVars =>
        [/\ search.at = "ranked" /\ search'.at = "served" /\ search.via = "governed"
                 /\ Cardinality(search'.served) < search.k =>
               {m \in DOMAIN search.ranked : ~ Contested(m)} \subseteq search'.served
         /\ search.at = "served" /\ search'.at = "done" =>
               \A d \in search'.quarrels : search'.served \cap d \subseteq search'.warned]_searchVars
  BY ServedIsFull
<1> QED
  BY SearchStart, SearchStepKeeps, <1>1, PTL DEF SearchSpec, FullAndSettled

\* Paging, menus and directories leave nothing out, and promise nothing they do not lead
\* to but for the backlog's option for memories without a team, whichever part of the run
\* is at work (feedback.rs: `team_id = $n` matches no NULL).
THEOREM BrowsingStaysComplete == SurfaceSpec => []BrowsingIsComplete
<1>1. SurfaceInit => WikiInit /\ ArchiveInv
  BY ArchiveStart DEF SurfaceInit
<1>2. [SurfaceNext]_surfaceVars => [WikiNext]_wikiVars /\ [ArchiveNext]_archiveVars
  BY DEF SurfaceNext, surfaceVars, readVars
<1>3. WikiInv /\ ArchiveInv => BrowsingIsComplete
  BY DirectoryIsKept, ArchiveIsWhole DEF WikiInv, BrowsingIsComplete
<1> QED
  BY WikiStart, WikiStep, ArchiveStep, <1>1, <1>2, <1>3, PTL DEF SurfaceSpec

\* The types of what is scored hold as long as scoring is the part at work: nothing
\* else writes them.
LEMMA ScoringStart == SurfaceInit => (part = "scoring" => ScoresTypeOK)
<1> SUFFICES ASSUME SurfaceInit, part = "scoring" PROVE ScoresTypeOK
  OBVIOUS
<1>1. ScoresInit
  BY DEF SurfaceInit
<1>2. (CHOOSE c \in ClusterId : TRUE) \in ClusterId
  BY ScoresAssumption
<1> QED
  BY <1>1, <1>2, ScoresAssumption DEF ScoresInit, ScoresTypeOK, NoMention, NothingAlike, Loose, MatchThreshold

\* However remotes and paths are spelled and drafts and answers come, and whatever is
\* decided meanwhile: a preflight is matched to the nearest claim, no page the composer
\* writes says what it has no source for, and the scores are those of the formulas.
THEOREM AlgorithmsStayRight == SurfaceSpec => []AlgorithmsAreRight
<1> DEFINE Inputs == (part = "composing" => CompositionInit) /\ (part = "scoring" => ScoresTypeOK)
<1>1. SurfaceInit => GuardInit /\ Inputs
  BY ScoringStart DEF SurfaceInit
<1>2. [SurfaceNext]_surfaceVars => [GuardNext]_guardVars
  BY DEF SurfaceNext, surfaceVars, readVars
<1>3. Inputs /\ [SurfaceNext]_surfaceVars => Inputs'
  <2>1. [SurfaceNext]_surfaceVars => UNCHANGED <<part, compositionVars, scoreVars>>
    BY DEF SurfaceNext, surfaceVars, readVars, pureVars
  <2>2. UNCHANGED <<part, compositionVars, scoreVars>> => (Inputs <=> Inputs')
    BY DEF compositionVars, scoreVars, CompositionInit, ScoresTypeOK
  <2> QED
    BY <2>1, <2>2
<1>4. MatchInv /\ Inputs => AlgorithmsAreRight
  BY FirewallStands, ScoresDoAgree, MatchDoesFair DEF MatchInv, AlgorithmsAreRight
<1> HIDE DEF Inputs
<1> QED
  BY MatchStarts, MatchStep, <1>1, <1>2, <1>3, <1>4, PTL DEF SurfaceSpec

\* What TLC checks in one run is a behaviour of each of these parts, so what is proved
\* of a part holds in the run, with all that happens beside it.
THEOREM RunIsOfItsParts ==
  SurfaceSpec => /\ StandardsSpec /\ SkillsSpec /\ OnboardSpec /\ ProvisionSpec /\ WikiSpec
                 /\ SessionSpec /\ GuardSpec /\ SearchSpec /\ FusionSpec
<1>1. SurfaceInit => /\ StandardsInit /\ SkillsInit /\ OnboardInit /\ ProvisionInit /\ WikiInit
                     /\ SessionInit /\ GuardInit /\ SearchInit /\ FusionInit
  <2>1. lists = << << >>, << >> >> /\ identifiers = FALSE => FusionInit
    <3>1. << >> \in Lists
      <4>1. 0 \in 0..MaxList /\ 1..0 = {}
        BY FusionAssumption
      <4>2. << >> \in {s \in [1..0 -> Item] : \A i, j \in 1..0 : s[i] = s[j] => i = j}
        BY <4>1
      <4> QED
        BY <4>1, <4>2 DEF Lists
    <3>2. \A l \in Lists : <<l, l>> \in Lists \X Lists
      OBVIOUS
    <3>3. << << >>, << >> >> \in Lists \X Lists
      BY <3>1, <3>2
    <3> QED
      BY <3>3 DEF FusionInit
  <2> QED
    BY <2>1 DEF SurfaceInit
<1>2. [SurfaceNext]_surfaceVars =>
        /\ [StandardsNext]_standardVars /\ [SkillsNext]_skillVars /\ [OnboardNext]_onboardVars
        /\ [ProvisionNext]_provisionVars /\ [WikiNext]_wikiVars
  BY DEF SurfaceNext, surfaceVars, libraryVars, accessVars
<1>3. [SurfaceNext]_surfaceVars =>
        /\ [SessionNext]_sessionVars /\ [GuardNext]_guardVars /\ [SearchNext]_searchVars
        /\ [UNCHANGED fusionVars]_fusionVars
  <2>1. SearchPart => SearchNext
    BY DEF SearchPart, SearchNext, SearchStep
  <2> QED
    BY <2>1 DEF SurfaceNext, surfaceVars, readVars, pureVars
<1> QED
  BY <1>1, <1>2, <1>3, PTL
  DEF SurfaceSpec, StandardsSpec, SkillsSpec, OnboardSpec, ProvisionSpec, WikiSpec, SessionSpec, GuardSpec, SearchSpec, FusionSpec
=============================================================================
