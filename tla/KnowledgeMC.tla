------------------------------ MODULE KnowledgeMC ------------------------------
(***************************************************************************)
(* How knowledge comes in, is judged, disputed and reviewed, in one run.    *)
(* Disputes and Review take memories as they come out of the pipeline and   *)
(* share no variable with it, so a behaviour is one part at work and the    *)
(* others at rest: the ingest endpoints by themselves, the worker behind    *)
(* one client and one harvest, the dispute ledger, and the review queue.    *)
(***************************************************************************)
EXTENDS Disputes, Pipeline, Review, TLC

CONSTANTS c1, h1, m1, m2, u1, u2, t1, t2

VARIABLE part

\* A file of two overlapping chunks, a file that contradicts it, and the
\* statement of a client of another team, about the same thing; "hush" is what
\* the model marks as private.  The third file is a page of ours.
MCStatement == {"always", "never", "note", "hush"}
MCChunks == [f \in File |-> CASE f = "wiki" -> <<"top", "tail">> [] OTHER -> <<"other">>]
MCSays == [x \in {"top", "tail", "other", "note"} |->
             CASE x = "top" -> {"always", "hush"} [] x = "tail" -> {"always"}
               [] x = "other" -> {"never"} [] OTHER -> {"note"}]
MCAbout == [m \in MCStatement |-> "deploy"]
MCFacets == [m \in MCStatement |->
               [kind |-> IF m = "never" THEN "decision" ELSE "pitfall",
                visibility |-> IF m = "hush" THEN "private" ELSE "team",
                confidence |-> 95]]
MCConflict == {<<"always", "never">>, <<"never", "always">>}
\* A body that is accepted and one whose kind is not known.
MCBody == {[text |-> "note", content |-> "fits", kind |-> k, entities |-> "ok",
            team |-> "a", project |-> "none"] : k \in {"none", "unknown"}}

\* A memory of each of two teams, one user who maintains the first and one who
\* maintains both.
MCOwner == [m \in Belief |-> IF m = m1 THEN t1 ELSE t2]
MCMaintains == [u \in User |-> IF u = u1 THEN {t1} ELSE {t1, t2}]

\* Interchangeable requests.
Sym == Permutations(Request)

knowledgeVars == <<vars, workVars, reviewVars, part>>

\* The worker's part: two sources, of one client that sends one good body
\* without a key and one harvest, which do not die, and a job for each.
OneOfEach ==
  /\ nextId' <= 3 /\ Len(jobs') <= 2
  /\ \A c \in Intake \ {c1, h1} : where'[c] = "idle"
  /\ \A c \in {c1, h1} : where[c] # "idle" => where'[c] \notin {"idle", "refused"}
  /\ sent'[c1] = NoKey /\ more'[c1] = 0
\* The endpoints' part: one file is harvested, by two harvests.
OneFile == \A s \in Source : raw'[s] # "rules"
\* The review queue's part: readers and time turn against the first memory.
OneInDoubt == window'[m2] # "past" /\ \A c \in ClaimId' : claims'[c].memory = m1

KnowledgeInit ==
  /\ part \in {"intake", "worker", "disputes", "review"}
  /\ Init /\ WorkInit /\ ReviewInit

KnowledgeNext ==
  \/ /\ part = "intake" /\ RequestNext /\ OneFile
     /\ UNCHANGED <<vars, pipelineVars, reviewVars, part>>
  \/ part = "worker" /\ WorkNext /\ OneOfEach /\ UNCHANGED <<vars, reviewVars, part>>
  \/ part = "disputes" /\ Next /\ UNCHANGED <<workVars, reviewVars, part>>
  \/ part = "review" /\ ReviewNext /\ OneInDoubt /\ UNCHANGED <<vars, workVars, part>>

KnowledgeSpec == KnowledgeInit /\ [][KnowledgeNext]_knowledgeVars
=============================================================================
