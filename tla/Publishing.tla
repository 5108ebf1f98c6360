------------------------------- MODULE Publishing -------------------------------
(***************************************************************************)
(* Publishing one page to external targets.  A worker's pass reads the gate *)
(* and lists the page, then reads its revision, and target by target looks  *)
(* at the ledger, pushes and records, all in one transaction per page: the  *)
(* pushes are out as they happen, the ledger rows only at the commit.       *)
(***************************************************************************)
EXTENDS Naturals, Sequences

CONSTANTS Publisher,    \* worker processes
          Target,       \* targets, as a sequence in the order they were created
          Wikis,        \* those that create a page and hand out an id; the others are files
          MaxRev, MaxMishap   \* bounds on signatures and on deaths and lost replies

ASSUME PublishAssumption == MaxRev \in Nat /\ MaxMishap \in Nat
  /\ Target \in Seq(STRING) /\ Target # << >>   \* a pass without targets returns at once

VARIABLES
  revision,   \* the page's signed revision, 0 before the first
  gate,       \* whether the org opted in and its corpus is fit to publish
  publications, \* document_publications, committed
  external,   \* per target the pages that exist there, by id, and what each shows
  pass,       \* what each worker is doing
  mishaps

publishVars == <<revision, gate, publications, external, pass, mishaps>>

Targets == DOMAIN Target
Idle == [at |-> "idle", listed |-> 0, content |-> 0, target |-> 0, ref |-> 0, rows |-> << >>]
NoEntry == [rev |-> 0, ref |-> 0]

PublishInit ==
  /\ revision = 0 /\ gate = TRUE /\ mishaps = 0
  /\ publications = [t \in Targets |-> NoEntry]
  /\ external = [t \in Targets |-> << >>]
  /\ pass = [w \in Publisher |-> Idle]

\* A maintainer signs the next revision; the corpus degrades or recovers.
SignRevision ==
  /\ revision < MaxRev /\ revision' = revision + 1
  /\ UNCHANGED <<gate, publications, external, pass, mishaps>>
GateMoves ==
  /\ gate' = ~ gate /\ UNCHANGED <<revision, publications, external, pass, mishaps>>

-----------------------------------------------------------------------------
\* One pass of one worker.

\* The gate is read once per pass, and the page's current revision with it.
ListPages(w) ==
  /\ pass[w] = Idle /\ gate /\ revision # 0
  /\ pass' = [pass EXCEPT ![w] = [at |-> "listed", listed |-> revision, content |-> 0, target |-> 0,
                                  ref |-> 0, rows |-> << >>]]
  /\ UNCHANGED <<revision, gate, publications, external, mishaps>>

\* The page's transaction begins and reads the revision again.
ReadRevision(w) ==
  /\ pass[w].at = "listed"
  /\ pass' = [pass EXCEPT ![w] = [at |-> "look", listed |-> @.listed, content |-> revision, target |-> 1,
                                  ref |-> @.ref, rows |-> @.rows]]
  /\ UNCHANGED <<revision, gate, publications, external, mishaps>>

\* The pass goes to a step of the same target, or on to the next target.
AtStep(w, at, ref) ==
  [at |-> at, listed |-> pass[w].listed, content |-> pass[w].content, target |-> pass[w].target,
   ref |-> ref, rows |-> pass[w].rows]
OnNext(w, ref, rows) ==
  [at |-> IF pass[w].target < Len(Target) THEN "look" ELSE "commit", listed |-> pass[w].listed,
   content |-> pass[w].content, target |-> pass[w].target + 1, ref |-> ref, rows |-> rows]
NextTarget(w) == OnNext(w, pass[w].ref, pass[w].rows)

PublishedOnce(w, t) == publications[t].rev # 0      \* Mutant: published is published.
AlreadyLive(w, t) == publications[t].rev = pass[w].listed

LookUp(w) ==
  /\ pass[w].at = "look"
  /\ LET t == pass[w].target IN
     pass' = [pass EXCEPT ![w] = IF AlreadyLive(w, t) THEN NextTarget(w)
                                 ELSE AtStep(w, "push", publications[t].ref)]
  /\ UNCHANGED <<revision, gate, publications, external, mishaps>>

\* A wiki page is updated by its id or created; a file is written in place.
Pushed(w, t) ==
  IF pass[w].ref # 0 THEN [external EXCEPT ![t][pass[w].ref] = pass[w].content]
  ELSE IF Target[t] \in Wikis \/ external[t] = << >>
       THEN [external EXCEPT ![t] = Append(@, pass[w].content)]
       ELSE [external EXCEPT ![t][1] = pass[w].content]
RefOf(w, t) == IF pass[w].ref # 0 THEN pass[w].ref
               ELSE IF Target[t] \in Wikis THEN Len(external[t]) + 1 ELSE 1

Push(w) ==
  /\ pass[w].at = "push"
  /\ external' = Pushed(w, pass[w].target)
  /\ pass' = [pass EXCEPT ![w] = AtStep(w, "record", RefOf(w, pass[w].target))]
  /\ UNCHANGED <<revision, gate, publications, mishaps>>

\* The target refuses, or applies the push and its reply is lost: no record.
PushFails(w) ==
  /\ pass[w].at = "push" /\ mishaps < MaxMishap /\ mishaps' = mishaps + 1
  /\ \/ UNCHANGED external
     \/ external' = Pushed(w, pass[w].target)
  /\ pass' = [pass EXCEPT ![w] = NextTarget(w)]
  /\ UNCHANGED <<revision, gate, publications>>

\* The ledger records the revision the page was LISTED with.  The row is locked
\* from here to the commit.
Recorded(w) == pass[w].listed
RowHeld(w, t) == \E v \in Publisher \ {w} : \E i \in DOMAIN pass[v].rows : pass[v].rows[i].target = t

RecordPublication(w) ==
  /\ pass[w].at = "record" /\ ~ RowHeld(w, pass[w].target)
  /\ LET t == pass[w].target IN
     pass' = [pass EXCEPT ![w] = OnNext(w, 0, Append(pass[w].rows, [target |-> t, rev |-> Recorded(w),
                                                                   ref |-> pass[w].ref]))]
  /\ UNCHANGED <<revision, gate, publications, external, mishaps>>

CommitPage(w) ==
  /\ pass[w].at = "commit"
  /\ LET rows == pass[w].rows
         row(t) == {i \in DOMAIN rows : rows[i].target = t} IN
     publications' = [t \in Targets |-> IF row(t) = {} THEN publications[t]
                                  ELSE LET i == CHOOSE i \in row(t) : TRUE IN [rev |-> rows[i].rev, ref |-> rows[i].ref]]
  /\ pass' = [pass EXCEPT ![w] = Idle]
  /\ UNCHANGED <<revision, gate, external, mishaps>>

PassDies(w) ==
  /\ pass[w] # Idle /\ mishaps < MaxMishap /\ mishaps' = mishaps + 1
  /\ pass' = [pass EXCEPT ![w] = Idle]
  /\ UNCHANGED <<revision, gate, publications, external>>

Steps(w) == ListPages(w) \/ ReadRevision(w) \/ LookUp(w) \/ Push(w) \/ RecordPublication(w) \/ CommitPage(w)
PublishNext == SignRevision \/ GateMoves \/ \E w \in Publisher : Steps(w) \/ PushFails(w) \/ PassDies(w)

\* The worker loop makes a pass in every turn, for ever; the gate may close
\* between two of its looks at it, so listing needs the stronger form.
PublishFairness ==
  \A w \in Publisher : WF_publishVars(Steps(w)) /\ SF_publishVars(ListPages(w))
PublishSpec == PublishInit /\ [][PublishNext]_publishVars /\ PublishFairness

-----------------------------------------------------------------------------
\* The ledger never claims more than the target shows: what it says is live is
\* live there or has been replaced by something newer (migration 0020: "The
\* revision that is live in the external system RIGHT NOW").
LedgerNotAhead ==
  \A t \in Targets : publications[t].ref # 0 => external[t][publications[t].ref] >= publications[t].rev

\* Once the gate stays open every target comes to show the last signed revision
\* and to keep it, whatever pushes failed and passes died on the way.
RevisionArrives ==
  <>[]gate => <>[](\A t \in Targets : revision # 0 => publications[t].ref # 0 /\ external[t][publications[t].ref] = revision)
=============================================================================
