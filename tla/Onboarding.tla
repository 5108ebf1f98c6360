------------------------------ MODULE Onboarding ------------------------------
(***************************************************************************)
(* Device pairing, the repository whitelist and managed keys.  A device     *)
(* opens a pairing for a checkout; an admin approves it into the project    *)
(* the whitelist names for that checkout; the first poll after that claims  *)
(* the pairing and mints a key.  Every request is several statements on the *)
(* pool, with no transaction around them, and may die between two.          *)
(***************************************************************************)
EXTENDS Naturals, FiniteSets, SequencesExt

CONSTANTS Org, Admin, OrgOf,     \* tenants, the admins acting in them
          Project, HomeOf,       \* projects and the tenant of each
          Prefix, Path,          \* whitelisted and checked-out directories, as sequences of names
          Pairing, Poller,       \* pairing rows; polls in flight
          Nothing,
          MaxPending, MaxRepo, MaxKey   \* the flood cap; bounds of the model

ASSUME OnboardingAssumption ==
  /\ OrgOf \in [Admin -> Org] /\ HomeOf \in [Project -> Org]
  /\ Nothing \notin Org \cup Admin \cup Project \cup Pairing
  /\ \A p \in Prefix \cup Path : p \in Seq(Range(p))

VARIABLES
  pairings,    \* onboard_requests; age stands for expires_at against now()
  opening,     \* starts that have read the flood gauge and not yet inserted
  whitelist,   \* project_repos
  deciding,    \* approvals that have derived the project and not yet written
  polling,     \* polls that have read "approved", or claimed and not yet minted
  keys         \* api_tokens, in the order they were minted

onboardVars == <<pairings, opening, whitelist, deciding, polling, keys>>

NoRow == [status |-> "none", age |-> "live", path |-> << >>,
          org |-> Nothing, project |-> Nothing, by |-> Nothing]
Asked(step, d, p) == [at |-> step, pairing |-> d, project |-> p, org |-> Nothing, by |-> Nothing]
Rest == Asked("rest", Nothing, Nothing)

OnboardInit ==
  /\ pairings = [d \in Pairing |-> NoRow] /\ opening = {}
  /\ whitelist = {} /\ keys = << >>
  /\ deciding = [a \in Admin |-> Rest] /\ polling = [w \in Poller |-> Rest]

-----------------------------------------------------------------------------
\* The whitelist.

\* ON CONFLICT (org_id, remote, path_prefix) DO NOTHING.
Unclaimed(o, prefix) == ~ \E r \in whitelist : r.org = o /\ r.prefix = prefix

Belongs(o, p) == HomeOf[p] = o

AddRepo(a, p, prefix) ==
  /\ Cardinality(whitelist) < MaxRepo
  /\ Belongs(OrgOf[a], p) /\ Unclaimed(OrgOf[a], prefix)
  /\ whitelist' = whitelist \cup {[org |-> OrgOf[a], prefix |-> prefix, project |-> p]}
  /\ UNCHANGED <<pairings, opening, deciding, polling, keys>>

RemoveRepo(a, r) ==
  /\ r.org = OrgOf[a]
  /\ whitelist' = whitelist \ {r}
  /\ UNCHANGED <<pairings, opening, deciding, polling, keys>>

\* The rows that claim a checkout, on a directory boundary, and the longest.
Eligible(o, path) == {r \in whitelist : r.org = o /\ IsPrefix(r.prefix, path)}
Longest(o, path) ==
  {r \in Eligible(o, path) : \A q \in Eligible(o, path) : Len(q.prefix) <= Len(r.prefix)}

-----------------------------------------------------------------------------
\* The device opens a pairing.

LivePending == {d \in Pairing : pairings[d].status = "pending" /\ pairings[d].age = "live"}

\* Hygiene first: rows a day past their expiry go, whatever became of them.
Pruned == [e \in Pairing |-> IF pairings[e].age = "ancient" THEN [pairings[e] EXCEPT !.status = "gone"]
                                                            ELSE pairings[e]]

\* Then the gauge; the insert is a later statement.
Gauge(d) ==
  /\ pairings[d] = NoRow /\ d \notin opening
  /\ Cardinality(LivePending) < MaxPending
  /\ pairings' = Pruned /\ opening' = opening \cup {d}
  /\ UNCHANGED <<whitelist, deciding, polling, keys>>

\* A start the gauge refuses, or that dies before its insert, has pruned all the same.
StartInVain ==
  /\ pairings' = Pruned /\ pairings' # pairings
  /\ UNCHANGED <<opening, whitelist, deciding, polling, keys>>

Opened(path) == [status |-> "pending", age |-> "live", path |-> path,
                  org |-> Nothing, project |-> Nothing, by |-> Nothing]
Open(d) ==
  /\ d \in opening
  /\ opening' = opening \ {d}
  /\ \E path \in Path : pairings' = [pairings EXCEPT ![d] = Opened(path)]
  /\ UNCHANGED <<whitelist, deciding, polling, keys>>

\* Ten minutes pass; a day passes.
TimePasses(d) ==
  /\ pairings[d].status \notin {"none", "gone"} /\ pairings[d].age # "ancient"
  /\ pairings' = [pairings EXCEPT ![d].age = IF @ = "live" THEN "expired" ELSE "ancient"]
  /\ UNCHANGED <<opening, whitelist, deciding, polling, keys>>

-----------------------------------------------------------------------------
\* An admin decides.

Exists(d) == pairings[d].status \notin {"none", "gone"}

\* Whatever its state, the row is read and its project derived ...
Derive(a, d) ==
  /\ deciding[a] = Rest /\ Exists(d)
  /\ \E r \in Longest(OrgOf[a], pairings[d].path) :
       deciding' = [deciding EXCEPT ![a] = Asked("approve", d, r.project)]
  /\ UNCHANGED <<pairings, opening, whitelist, polling, keys>>

Approvable(d) == pairings[d].status = "pending" /\ pairings[d].age = "live"

\* ... and the update decides whether it counts.
Approve(a) ==
  /\ deciding[a].at = "approve"
  /\ deciding' = [deciding EXCEPT ![a] = Rest]
  /\ LET d == deciding[a].pairing IN
     pairings' = IF Approvable(d)
                 THEN [pairings EXCEPT ![d] =
                        [status |-> "approved", age |-> @.age, path |-> @.path,
                         org |-> OrgOf[a], project |-> deciding[a].project, by |-> a]]
                 ELSE pairings
  /\ UNCHANGED <<opening, whitelist, polling, keys>>

\* Any admin of any tenant may refuse a pending pairing, expired or not.
Deniable(d) == pairings[d].status = "pending"

Deny(a, d) ==
  /\ Deniable(d)
  /\ pairings' = [pairings EXCEPT ![d].status = "denied"]
  /\ UNCHANGED <<opening, whitelist, deciding, polling, keys>>

-----------------------------------------------------------------------------
\* The device polls.  Only an approved, unexpired pairing goes past the read.

PollRead(w, d) ==
  /\ polling[w] = Rest /\ pairings[d].status = "approved" /\ pairings[d].age = "live"
  /\ polling' = [polling EXCEPT ![w] = Asked("claim", d, Nothing)]
  /\ UNCHANGED <<pairings, opening, whitelist, deciding, keys>>

ClaimableTwice(d) == pairings[d].status \in {"approved", "claimed"}  \* Mutant: read, then trusted.
Claimable(d) == pairings[d].status = "approved" /\ pairings[d].age = "live"

\* UPDATE ... RETURNING: the row as claimed says where the key belongs.
Claim(w) ==
  /\ polling[w].at = "claim"
  /\ LET d == polling[w].pairing  row == pairings[d] IN
     IF Claimable(d)
     THEN /\ pairings' = [pairings EXCEPT ![d].status = "claimed"]
          /\ polling' = [polling EXCEPT ![w] = [at |-> "mint", pairing |-> d, project |-> row.project,
                                                org |-> row.org, by |-> row.by]]
     ELSE /\ polling' = [polling EXCEPT ![w] = Rest] /\ UNCHANGED pairings
  /\ UNCHANGED <<opening, whitelist, deciding, keys>>

Key(o, p, a, d) == [org |-> o, project |-> p, by |-> a, pairing |-> d, revoked |-> FALSE]

Mint(w) ==
  /\ polling[w].at = "mint"
  /\ keys' = Append(keys, Key(polling[w].org, polling[w].project, polling[w].by, polling[w].pairing))
  /\ polling' = [polling EXCEPT ![w] = Rest]
  /\ UNCHANGED <<pairings, opening, whitelist, deciding>>

\* The request dies: a claimed pairing stays claimed and no key comes of it.
PollDies(w) ==
  /\ polling[w] # Rest
  /\ polling' = [polling EXCEPT ![w] = Rest]
  /\ UNCHANGED <<pairings, opening, whitelist, deciding, keys>>

-----------------------------------------------------------------------------
\* An admin mints a key directly, org-wide or for a project, and revokes keys.

CreateToken(a, p) ==
  /\ Len(keys) < MaxKey
  /\ p # Nothing => Belongs(OrgOf[a], p)
  /\ keys' = Append(keys, Key(OrgOf[a], p, a, Nothing))
  /\ UNCHANGED <<pairings, opening, whitelist, deciding, polling>>

RevokeToken(a, i) ==
  /\ keys[i].org = OrgOf[a] /\ ~ keys[i].revoked
  /\ keys' = [keys EXCEPT ![i].revoked = TRUE]
  /\ UNCHANGED <<pairings, opening, whitelist, deciding, polling>>

OnboardNext ==
  \/ \E a \in Admin : \/ \E p \in Project, prefix \in Prefix : AddRepo(a, p, prefix)
                      \/ \E r \in whitelist : RemoveRepo(a, r)
                      \/ \E d \in Pairing : Derive(a, d) \/ Deny(a, d)
                      \/ Approve(a)
                      \/ \E p \in Project \cup {Nothing} : CreateToken(a, p)
                      \/ \E i \in DOMAIN keys : RevokeToken(a, i)
  \/ \E d \in Pairing : Gauge(d) \/ Open(d) \/ TimePasses(d)
  \/ StartInVain
  \/ \E w \in Poller : \/ \E d \in Pairing : PollRead(w, d)
                       \/ Claim(w) \/ Mint(w) \/ PollDies(w)

OnboardSpec == OnboardInit /\ [][OnboardNext]_onboardVars

-----------------------------------------------------------------------------
\* A pairing mints at most one key, however many polls race on its device code
\* and however they die: what is minted and what is about to be counts once
\* (onboard.rs claim: "it flips exactly once, so two racing polls ... mint at
\* most one key").
OneKeyPerPairing ==
  \A d \in Pairing :
    Cardinality({i \in DOMAIN keys : keys[i].pairing = d})
      + Cardinality({w \in Poller : polling[w].at = "mint" /\ polling[w].pairing = d}) <= 1

\* The key of a pairing belongs where the approval put it: same tenant, project
\* and approver as the row still says, the approver acting in that tenant and
\* the project being the tenant's own, whichever other admins tried to approve
\* or refuse the pairing meanwhile.
KeyFollowsApproval ==
  \A i \in DOMAIN keys :
    LET k == keys[i] IN
    /\ k.project # Nothing => HomeOf[k.project] = k.org
    /\ OrgOf[k.by] = k.org
    /\ k.pairing # Nothing =>
         LET row == pairings[k.pairing] IN
         /\ row.status \in {"claimed", "gone"}
         /\ <<row.org, row.project, row.by>> = <<k.org, k.project, k.by>>

\* The whitelist gives one answer for a checkout: among the rows that claim it
\* the longest is unique, so LIMIT 1 never chooses (projects.rs find_by_remote).
OneAnswer == \A o \in Org, path \in Path : Cardinality(Longest(o, path)) <= 1

\* A decision is final: a refused pairing is never approved or claimed, and an
\* approval only moves on to its claim, with its tenant, project and approver.
DecisionIsFinal ==
  \A d \in Pairing :
       pairings[d].status \in {"approved", "claimed", "denied"} =>
         /\ pairings'[d].status \in {pairings[d].status, "gone"}
              \cup (IF pairings[d].status = "approved" THEN {"claimed"} ELSE {})
         /\ pairings'[d].by = pairings[d].by /\ pairings'[d].project = pairings[d].project
=============================================================================
