------------------------------- MODULE SurfaceMC -------------------------------
(***************************************************************************)
(* What people and agents meet, in one run: the Library's two shelves, the   *)
(* wiki and its editors, pairing and sign-in, the archive and the backlog of *)
(* disputed memories, an agent's session, what it is told before an edit,    *)
(* the search and its fusion.  The parts share no state, so a behaviour is   *)
(* one of them at work and the others at rest.                               *)
(***************************************************************************)
EXTENDS Standards, Skills, Onboarding, Provision, Wiki, Archive, Session, Guard, Search, Fusion, Composition, Scores, TLC

CONSTANTS u1, u2, div, mem, name, wd, wm, any, none,
          o1, o2, alice, bob, p1, p2, p3, e1, e2, s1, s2, s3, w1, w2, x1, x2, m1, m2, r1

VARIABLE part
pureVars == <<fusionVars, compositionVars, scoreVars>>
surfaceVars == <<standardVars, skillVars, onboardVars, provisionVars, wikiVars, archiveVars,
                 sessionVars, guardVars, searchVars, pureVars, part>>

-----------------------------------------------------------------------------
\* The Library: one signal of each kind, which give the same name; u1 signs, u2
\* proposes.
MCHolders == [c \in {"propose", "publish"} |-> IF c = "publish" THEN {u1} ELSE {u2}]
MCBaseOf == [s \in {div, mem} |-> name]
MCTextOf == [s \in {div, mem} |-> IF s = div THEN wd ELSE wm]

\* Two tenants with an admin each; the first has two projects.
MCOrgOf == [a \in {alice, bob} |-> IF a = alice THEN o1 ELSE o2]
MCHomeOf == [p \in {p1, p2, p3} |-> IF p = p3 THEN o2 ELSE o1]
MCPrefix == {<< >>, <<"apps">>}
MCPath == {<<"apps", "web">>}
MCSame == [s \in {s1, s2, s3} |-> u1]

\* Two runbooks, of two spaces.
MCFiled == [p \in {w1, w2} |-> [kind |-> "runbook", space |-> IF p = w1 THEN "pay" ELSE "auth"]]

MCShape == {[kind |-> "fact", team |-> "t1", project |-> "j1"], [kind |-> "howto", team |-> "none", project |-> "none"]}

MCGrants == {{"read"}, {"read", "write"}, {"read", "admin"}}

\* A repository and a group's subgroup of the same name; directories nested and
\* with a common beginning.
MCRepo == {<<"acme", "web">>, <<"acme", "core", "web">>}
C == <<"c">>
CD == <<"c", "d">>
MCWhitelist == {[repo |-> <<"acme", "web">>, dirs |-> <<>>, project |-> p1],
                [repo |-> <<"acme", "web">>, dirs |-> <<C>>, project |-> p2],
                [repo |-> <<"acme", "web">>, dirs |-> <<C, CD>>, project |-> p3]}
MCPaths == {<<>>, <<C>>, <<CD>>, <<C, CD>>, <<C, C>>}

\* Memory 1 was superseded by 2, which is now disputed by 3.
MCSince == <<Ever, 0, 0>>
MCBegun == <<[status |-> "deprecated", next |-> 2, until |-> 1],
             [status |-> "canonical", next |-> NoSuccessor, until |-> Ever],
             [status |-> "candidate", next |-> NoSuccessor, until |-> Ever]>>
MCDisputed == {{2, 3}}

-----------------------------------------------------------------------------
Part == {"shelf", "mining", "skills", "pairing", "signin", "wiki", "archive", "session", "guard", "search", "fusion", "composing", "scoring"}

SurfaceInit ==
  /\ part \in Part
  /\ StandardsInit /\ SkillsInit /\ OnboardInit /\ ProvisionInit /\ WikiInit /\ SearchInit
  /\ IF part = "archive" THEN ArchiveInit ELSE rows = << >> /\ claims = << >> /\ edits = 0 /\ walk = NoWalk
  /\ SessionInit /\ (part = "session" \/ grant = {"read"})
  /\ GuardInit /\ \A m \in Note : known[m].kind = "pitfall" /\ known[m].project \in {p1, Unowned}
  /\ part = "guard" \/ ((\A r \in LawRule : ~ law[r]) /\ (\A m \in Note : known[m].project = Unowned))
  /\ IF part = "fusion" THEN FusionInit ELSE lists = << << >>, << >> >> /\ identifiers = FALSE
  /\ IF part = "composing" THEN CompositionInit ELSE composedText = << >> /\ other = "empty"
  /\ IF part = "scoring" THEN ScoresInit ELSE predicted = << >> /\ gold = << >> /\ alike = << >>

libraryVars == <<standardVars, skillVars>>
accessVars == <<onboardVars, provisionVars>>
readVars == <<archiveVars, sessionVars, guardVars, searchVars, pureVars>>

\* The sweep only adds candidates, which no page shows, and reads no wording: it, and
\* the composer and the edits, meet the people each in a part of its own.
OneAtATime ==
  IF part = "mining" THEN page' = page /\ \A u \in Author : request'[u].op # "update"
  ELSE mining' = mining

\* The second tenant's checkouts are listed whole, and nothing moves on the list
\* while a key is on its way to its device.
ListsAreShort ==
  /\ \A r \in whitelist' : r.org = o2 => r.prefix = << >>
  /\ whitelist' # whitelist => \A w \in Poller : polling[w].at = "rest"

\* Editors and readers have the first page before them.
OnePageOpen == reads'[w2] = 0 /\ \A e \in Editor : before'[e].seen # 0 => before'[e].page = w1
\* Memories are disputed while nobody walks.
ClaimsFirst == claims' # claims => walk.at = "idle" \/ DOMAIN rows' # DOMAIN rows

\* Every spelling of the remote with one path and one state of the corpus, every
\* path and every state with one spelling.
OneOddity == stage = "idle" /\ stage' = "asked" =>
  \/ ask'.remote = <<"host", "/">> \o PathOf(ask'.repo)
  \/ ask'.dirs = <<C, CD>> /\ \A m \in Note : known[m].project = p1 /\ \A r \in LawRule : law[r]

\* Whoever searched reads the answer before anything else happens.  The governed
\* search is asked with every floor, without a project for one memory of the present;
\* the others are asked of the present with one, and the narrowing with no floor beside it.
Plain == search.at = "idle" /\ search'.at = "retrieving" =>
  \/ search'.via = "governed" /\ search'.lens = Mem /\ (search'.project \/ (search'.asOf = 1 /\ search'.k = 1))
  \/ search'.via = "bundle" /\ search'.asOf = 1 /\ search'.project
  \/ search'.via = "open" /\ search'.asOf = 1 /\ search'.project
     /\ (search'.lens = Mem <=> search'.floor = "candidate") /\ search'.floor # "canonical"
SearchPart == (search.at # "done" /\ SearchNext /\ Plain) \/ Answered

SurfaceNext ==
  \/ part \in {"shelf", "mining"} /\ StandardsNext /\ OneAtATime /\ UNCHANGED <<skillVars, accessVars, wikiVars, readVars, part>>
  \/ part = "skills" /\ SkillsNext /\ UNCHANGED <<standardVars, accessVars, wikiVars, readVars, part>>
  \/ part = "pairing" /\ OnboardNext /\ ListsAreShort /\ UNCHANGED <<libraryVars, provisionVars, wikiVars, readVars, part>>
  \/ part = "signin" /\ ProvisionNext /\ UNCHANGED <<libraryVars, onboardVars, wikiVars, readVars, part>>
  \/ part = "wiki" /\ WikiNext /\ OnePageOpen /\ UNCHANGED <<libraryVars, accessVars, readVars, part>>
  \/ part = "archive" /\ ArchiveNext /\ ClaimsFirst
     /\ UNCHANGED <<libraryVars, accessVars, wikiVars, sessionVars, guardVars, searchVars, pureVars, part>>
  \/ part = "session" /\ SessionNext
     /\ UNCHANGED <<libraryVars, accessVars, wikiVars, archiveVars, guardVars, searchVars, pureVars, part>>
  \/ part = "guard" /\ GuardNext /\ OneOddity
     /\ UNCHANGED <<libraryVars, accessVars, wikiVars, archiveVars, sessionVars, searchVars, pureVars, part>>
  \/ part = "search" /\ SearchPart
     /\ UNCHANGED <<libraryVars, accessVars, wikiVars, archiveVars, sessionVars, guardVars, pureVars, part>>

SurfaceSpec == SurfaceInit /\ [][SurfaceNext]_surfaceVars

-----------------------------------------------------------------------------
\* Nothing reaches readers from the Library's shelves that nobody signed: the
\* rules on a page, the decisions behind them, the numbers of a skill's versions
\* and the bundles agents are handed.
ShelvesAreSigned == PageShowsRatified /\ DecidedByPeople /\ NumbersAreUnique /\ FetchedIsSigned
                    /\ AnswersHold

\* What somebody decided stands: a rejected signal is not proposed again by the
\* machine, but by an overlap with its reads, a served skill is replaced only by a signature, and a pairing that was
\* approved or refused stays so.
PeopleAreHeard ==
  [][RejectionIsRespected /\ ServingIsOnlyReplacedBySigning /\ DecisionIsFinal]_surfaceVars

\* What an approval granted is what one device gets, and a checkout has one project.
PairingIsHonoured == OneKeyPerPairing /\ KeyFollowsApproval /\ OneAnswer

\* Paging, menus and directories leave nothing out and promise nothing they do not
\* lead to, but for the backlog's option of the memories without a team.
BrowsingIsComplete ==
  /\ part = "archive" => WalkMissesNothing /\ MenuKeepsItsPromise /\ TriageLeadsSomewhere
  /\ part = "wiki" => DirectoryIsWhole

\* What agents are answered: one voice per chain, nothing below the floor they asked
\* for, the caller's own found unless a full list of others is, in a list that keeps the order on which both it is fused
\* of agree; and before an edit what was in force and nothing less.
AnswersAreGoverned == /\ DirectHitsSpeakOnce /\ FloorHolds /\ OwnIsFound
                      /\ AgreementWins /\ LiteralLeads
                      /\ ToldIsHeld

\* What the algorithms behind an answer make of their inputs: a checkout is found by
\* its project, however it is spelled, a page is composed of nothing without its
\* source, and the scores of the evaluation mean what they say.
AlgorithmsAreRight ==
  /\ RightProject
  /\ part = "composing" => FirewallHolds
  /\ part = "scoring" => ScoresAgree /\ MatchIsFair
=============================================================================
