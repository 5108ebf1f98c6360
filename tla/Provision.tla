------------------------------- MODULE Provision -------------------------------
(***************************************************************************)
(* Self-serve sign-in.  One transaction looks the identity up and, when it  *)
(* is new, writes an organisation, its owner and its team and then the      *)
(* identity, whose primary key decides between two first sign-ins; the      *)
(* device key is minted in a statement of its own after the commit.         *)
(***************************************************************************)
EXTENDS Naturals, FiniteSets

CONSTANTS Subject,          \* verified identities
          Signin, SubjectOf,\* sign-in requests and whose they are
          NoOrg

ASSUME ProvisionAssumption == SubjectOf \in [Signin -> Subject] /\ NoOrg \notin Signin

VARIABLES
  identity,     \* identities: the organisation of a subject
  workspaces,   \* committed organisations, each named by the request that made it
  signing,      \* the requests
  deviceKeys    \* device keys, by organisation and request

provisionVars == <<identity, workspaces, signing, deviceKeys>>

Fresh == [at |-> "fresh", org |-> NoOrg, wrote |-> FALSE, created |-> FALSE]

ProvisionInit ==
  /\ identity = [u \in Subject |-> NoOrg] /\ workspaces = {} /\ deviceKeys = {}
  /\ signing = [s \in Signin |-> Fresh]

\* The first look: a known identity has its organisation, a new one writes its own.
Find(s) ==
  /\ signing[s].at = "fresh"
  /\ LET o == identity[SubjectOf[s]] IN
     signing' = [signing EXCEPT ![s] =
       IF o # NoOrg THEN [Fresh EXCEPT !.at = "commit", !.org = o]
                    ELSE [Fresh EXCEPT !.at = "insert", !.org = s, !.wrote = TRUE]]
  /\ UNCHANGED <<identity, workspaces, deviceKeys>>

\* Another request's uncommitted row makes the insert wait for its outcome.
Waits(s) == \E t \in Signin : /\ SubjectOf[t] = SubjectOf[s] /\ signing[t].at = "commit"
                              /\ signing[t].created
WinsAlways(s) == TRUE     \* Mutant: ON CONFLICT DO UPDATE.
Wins(s) == identity[SubjectOf[s]] = NoOrg
\* The loser answers with the winner's organisation, read again ...
Answer(s) == identity[SubjectOf[s]]

InsertIdentity(s) ==
  /\ signing[s].at = "insert" /\ ~ Waits(s)
  /\ signing' = [signing EXCEPT ![s] = [at |-> "commit", org |-> IF Wins(s) THEN s ELSE Answer(s),
                                        wrote |-> TRUE, created |-> Wins(s)]]
  /\ UNCHANGED <<identity, workspaces, deviceKeys>>

\* ... but what it wrote before is in the same transaction and commits too.
Commit(s) ==
  /\ signing[s].at = "commit"
  /\ workspaces' = IF signing[s].wrote THEN workspaces \cup {s} ELSE workspaces
  /\ identity' = IF signing[s].created THEN [identity EXCEPT ![SubjectOf[s]] = s] ELSE identity
  /\ \E issue \in BOOLEAN :
       signing' = [signing EXCEPT ![s].at = IF signing[s].created \/ issue
                                            THEN "key" ELSE "answered"]
  /\ UNCHANGED deviceKeys

MintDevice(s) ==
  /\ signing[s].at = "key"
  /\ deviceKeys' = deviceKeys \cup {<<signing[s].org, s>>}
  /\ signing' = [signing EXCEPT ![s].at = "answered"]
  /\ UNCHANGED <<identity, workspaces>>

\* The process dies: before the commit everything rolls back, after it the
\* organisation stays without its key.
SigninDies(s) ==
  /\ signing[s].at \notin {"answered", "dead"}
  /\ signing' = [signing EXCEPT ![s] = [Fresh EXCEPT !.at = "dead"]]
  /\ UNCHANGED <<identity, workspaces, deviceKeys>>

ProvisionNext == \E s \in Signin : Find(s) \/ InsertIdentity(s) \/ Commit(s) \/ MintDevice(s) \/ SigninDies(s)
ProvisionSpec == ProvisionInit /\ [][ProvisionNext]_provisionVars

-----------------------------------------------------------------------------
\* An identity never changes its organisation, and every request past its
\* commit, like every key, is about the organisation of its own identity: two
\* first sign-ins that race end in one place (identities.rs provision: "The
\* loser re-reads the winner's project").
SignInsAgree ==
  /\ \A s \in Signin : signing[s].at \in {"key", "answered"} => signing[s].org = identity[SubjectOf[s]]
  /\ \A k \in deviceKeys : k[1] = identity[SubjectOf[k[2]]]
  /\ \A u \in Subject : identity[u] # NoOrg => identity[u] \in workspaces /\ SubjectOf[identity[u]] = u
=============================================================================
