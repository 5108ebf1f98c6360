--------------------------------- MODULE Guard ---------------------------------
(***************************************************************************)
(* What an agent is told before it edits a file.  Its hook (or the           *)
(* edit_preflight tool) sends the checkout's remote, spelled as git spells   *)
(* it, and the paths; the server finds the project, searches its certified   *)
(* pitfalls and decisions, adds the mandatory standards and answers.  The    *)
(* hook waits a short time and, whatever happens, lets the edit go on.       *)
(* Governance moves on between the three statements.                         *)
(***************************************************************************)
EXTENDS Texts, FiniteSets

CONSTANTS Repo,        \* repositories, as <<owner, ..., name>>
          Whitelist,   \* [repo, dirs, project]: directories claimed for a project
          Paths,       \* edited files' directories, as sequences of names (sequences of letters)
          Note,        \* memories
          LawRule,     \* library standards
          Unowned,     \* the project of an org-wide memory, and of an unknown checkout
          MostNotes,   \* PREFLIGHT_K
          MaxEvents    \* bound on governance events while a preflight runs

VARIABLES
  ask,        \* what was sent, by whom: [by, repo, remote, dirs, path], or NoAsk
  stage,      \* "idle", "asked", "matched", "searched", "answered", "failed", "shown", "silent", "refused"
  known,      \* memories: [kind, certified, project]
  law,        \* standards: adopted and mandatory or not
  held,       \* standards mandatory ever since the preflight was asked for
  seen,       \* memories certified, and standards mandatory, at some time since
  project,    \* the project found
  notes,      \* what the answer tells
  events
guardVars == <<ask, stage, known, law, held, seen, project, notes, events>>

\* The claimed repositories are among those of the forges: at least an owner and a
\* name, in none of which the marks of a remote occur; of an owner the case is not
\* looked at, so it is said in one, and a name that has two is another name.  Digits
\* are no owner: they would be taken for a port.
Repos == Repo \union {w.repo : w \in Whitelist}
Places == Paths \union {w.dirs : w \in Whitelist}
ASSUME GuardAssumption ==
  /\ \A r \in Repos : /\ r \in Seq(Range(r)) /\ Len(r) >= 2 /\ r[Len(r)] # "acme"
                      /\ Range(r) \intersect {"/", ":", "@", ".git", "2222", "Acme"} = {}
  /\ \A d \in Places : /\ d \in Seq(Range(d))
                       /\ \A n \in Range(d) : n \in Seq(Range(n)) /\ n # <<>> /\ "/" \notin Range(n)

NoAsk == [by |-> "hook", repo |-> <<>>, remote |-> <<>>, dirs |-> <<>>, path |-> <<>>]

-----------------------------------------------------------------------------
\* Remotes, as the sequence of the tokens that matter to normalize_remote.

PathOf(repo) == Joined([i \in DOMAIN repo |-> <<repo[i]>>], "/")
Shouted(repo) == [i \in DOMAIN repo |-> IF repo[i] = "acme" THEN "Acme" ELSE repo[i]]
Spellings(repo) ==
  LET tail == {<<>>, <<".git">>, <<"/">>}
      plain == {<<>>, <<"https://">>, <<"https://", "user", "@">>, <<"ssh://", "git", "@">>, <<"ssh://">>}
  IN  {s \o <<"host", "/">> \o PathOf(repo) \o t : s \in plain, t \in tail}
      \union {<<"ssh://", "git", "@", "host", ":", "2222", "/">> \o PathOf(repo) \o t : t \in tail}
      \union {<<"ssh://", "host", ":", "2222", "/">> \o PathOf(repo) \o t : t \in tail}
      \union {<<"git", "@", "host", ":">> \o port \o PathOf(Shouted(repo)) \o t : port \in {<<>>, <<"2222", "/">>}, t \in tail}
Garbage == {<<>>, <<"web">>, <<"https://", "host", "/", "web">>}

Schemes == {"https://", "http://", "ssh://", "git://"}
Drop(s, n) == SubSeq(s, n + 1, Len(s))
NoScheme(s) == IF s # <<>> /\ Head(s) \in Schemes THEN Tail(s) ELSE s
\* git@host:path is host/path, the first colon only.
Scp(s) ==
  IF IsPrefix(<<"git", "@">>, s)
  THEN LET rest == Drop(s, 2)
           colons == {i \in DOMAIN rest : rest[i] = ":" /\ \A j \in 1..(i - 1) : rest[j] # ":"}
       IN  [i \in DOMAIN rest |-> IF i \in colons THEN "/" ELSE rest[i]]
  ELSE s
NoUser(s) == IF \E i \in DOMAIN s : s[i] = "@" THEN Drop(s, SelectLastInSeq(s, LAMBDA t : t = "@")) ELSE s
Unlike(s, mark) == {i \in DOMAIN s : s[i] # mark}
RTrim(s, mark) == IF Unlike(s, mark) = {} THEN <<>> ELSE SubSeq(s, 1, Max(Unlike(s, mark)))
Nonempty(ps, p) == IF p = <<>> THEN ps ELSE Append(ps, p)
NoEmpty(parts) == FoldLeft(LAMBDA ps, p : Nonempty(ps, p), <<>>, parts)
Segments(s) == NoEmpty(SplitAt(s, "/"))
Digits(p) == p = <<"2222">>
NoPort(ps) ==
  IF Len(ps[1]) = 3 /\ ps[1][2] = ":" /\ Digits(<<ps[1][3]>>) THEN [ps EXCEPT ![1] = <<@[1]>>]
  ELSE IF Len(ps) >= 4 /\ Digits(ps[2]) THEN <<ps[1]>> \o Drop(ps, 2) ELSE ps
Folded(t) == IF t = "Acme" THEN "acme" ELSE t

NormalizeRemote(raw) ==
  LET parts == Segments(RTrim(RTrim(NoUser(Scp(NoScheme(raw))), "/"), ".git"))
  IN  IF Len(parts) < 3 \/ Len(NoPort(parts)) < 3 \/ Len(NoPort(parts)[1]) # 1 THEN <<>>
      ELSE LET ps == NoPort(parts) IN [i \in DOMAIN ps |-> IF i < Len(ps) THEN Folded(ps[i][1]) ELSE ps[i][1]]

\* Paths, letter by letter.
Spelled(dirs) == Joined(dirs, "/")
NormalizePath(p) == IF Unlike(p, "/") = {} THEN <<>> ELSE SubSeq(p, Min(Unlike(p, "/")), Max(Unlike(p, "/")))

Claimed == {[remote |-> NormalizeRemote(<<"host", "/">> \o PathOf(w.repo)), prefix |-> Spelled(w.dirs), project |-> w.project] : w \in Whitelist}
StartsWith(prefix, path) == IsPrefix(prefix, path)          \* Mutant: no segment boundary.
Claims(prefix, path) == prefix = <<>> \/ path = prefix \/ IsPrefix(Append(prefix, "/"), path)
FindByRemote(remote, path) ==
  LET rows == {c \in Claimed : c.remote = remote /\ Claims(c.prefix, path)}
  IN  IF rows = {} THEN Unowned ELSE (CHOOSE c \in rows : \A d \in rows : Len(d.prefix) <= Len(c.prefix)).project

-----------------------------------------------------------------------------
\* Governance.

Certified == {m \in Note : known[m].certified}
Mandatory == {r \in LawRule : law[r]}

GuardInit ==
  /\ ask = NoAsk /\ stage = "idle" /\ project = Unowned /\ events = 0
  /\ known \in [Note -> [kind : {"pitfall", "fact"}, certified : {TRUE}, project : {w.project : w \in Whitelist} \union {Unowned}]]
  /\ law \in [LawRule -> BOOLEAN] /\ held = {} /\ seen = {} /\ notes = {}

Witness(mandatory, certified) == held' = held \intersect mandatory /\ seen' = seen \union mandatory \union certified

\* A memory loses or gains its standing, a rule is adopted, demoted or retired.
Rules ==
  \E r \in LawRule : /\ law' = [law EXCEPT ![r] = ~ @] /\ UNCHANGED known
                     /\ Witness({q \in LawRule : law'[q]}, {})
Standings ==
  \E m \in Note : /\ known' = [known EXCEPT ![m].certified = ~ @] /\ UNCHANGED law
                     /\ Witness(Mandatory, {n \in Note : known'[n].certified})
Governance ==
  /\ stage \in {"asked", "matched", "searched"} /\ events < MaxEvents /\ events' = events + 1
  /\ Rules \/ Standings
  /\ UNCHANGED <<ask, stage, project, notes>>

-----------------------------------------------------------------------------
\* The hook: without a path or a remote it asks nothing.

PreEdit(by, repo, remote, dirs, path) ==
  /\ stage = "idle"
  /\ ask' = [by |-> by, repo |-> repo, remote |-> remote, dirs |-> dirs, path |-> path] /\ stage' = "asked"
  /\ held' = Mandatory /\ seen' = Mandatory \union Certified
  /\ UNCHANGED <<known, law, project, notes, events>>
HookPreEdit(repo, remote, dirs, path) == PreEdit("hook", repo, remote, dirs, path)

\* An agent without hooks asks itself: the remote it gives, or else its session's.
EditPreflight(repo, given, session, dirs, path) ==
  /\ given # <<>> \/ session # <<>>
  /\ PreEdit("tool", repo, IF given # <<>> THEN given ELSE session, dirs, path)

\* The server.

Match ==
  /\ stage = "asked"
  /\ IF NormalizeRemote(ask.remote) = <<>> THEN stage' = "failed" /\ UNCHANGED project
     ELSE /\ stage' = "matched"
          /\ project' = FindByRemote(NormalizeRemote(ask.remote), NormalizePath(ask.path))
  /\ ask' = [ask EXCEPT !.remote = <<>>, !.path = <<>>]          \* not looked at again
  /\ UNCHANGED <<known, law, held, seen, notes, events>>

\* Certified pitfalls of the project and the org; without a project, of every one.
Relevant == {m \in Certified : known[m].kind = "pitfall" /\ (project = Unowned \/ known[m].project \in {project, Unowned})}

SearchNotes ==
  /\ stage = "matched" /\ stage' = "searched"
  /\ \E found \in SUBSET Relevant : Cardinality(found) <= MostNotes /\ notes' = found
  /\ UNCHANGED <<ask, known, law, held, seen, project, events>>

Unconditional == Mandatory

AddStandards ==
  /\ stage = "searched" /\ stage' = "answered"
  /\ notes' = notes \union Unconditional
  /\ UNCHANGED <<ask, known, law, held, seen, project, events>>

Fault ==
  /\ stage \in {"asked", "matched", "searched"} /\ stage' = "failed"
  /\ UNCHANGED <<ask, known, law, held, seen, project, notes, events>>

\* The agent is told that its preflight failed.
Refuse ==
  /\ stage = "failed" /\ ask.by = "tool" /\ stage' = "refused"
  /\ UNCHANGED <<ask, known, law, held, seen, project, notes, events>>

\* The hook prints what it was answered, or nothing: a fault, a late answer and an
\* answer without notes look alike.
Receive ==
  /\ stage = "answered" /\ stage' = "shown"
  /\ UNCHANGED <<ask, known, law, held, seen, project, notes, events>>
FailOpen ==
  /\ stage \in {"asked", "matched", "searched", "answered", "failed"} /\ ask.by = "hook" /\ stage' = "silent"
  /\ UNCHANGED <<ask, known, law, held, seen, project, notes, events>>

GuardNext ==
  \/ stage = "idle" /\ \E repo \in Repo, dirs \in Paths : \E remote \in Spellings(repo) \union Garbage, lead \in {<<>>, <<"/">>} :
       \/ HookPreEdit(repo, remote, dirs, lead \o Spelled(dirs))
       \/ \E given \in {remote, <<>>} : EditPreflight(repo, given, remote, dirs, lead \o Spelled(dirs))
  \/ Match \/ SearchNotes \/ AddStandards \/ Fault \/ Refuse \/ Receive \/ FailOpen \/ Governance

GuardSpec == GuardInit /\ [][GuardNext]_guardVars

-----------------------------------------------------------------------------
\* The project is the one that claims the nearest directory above the file, by
\* names, however the remote and the path are spelled (projects.rs normalize_remote:
\* "Every spelling of the same repo ... must collide to one whitelist row").
RightProject ==
  stage = "matched" =>
    LET rows == {w \in Whitelist : w.repo = ask.repo /\ IsPrefix(w.dirs, ask.dirs)}
    IN  IF rows = {} THEN project = Unowned
        ELSE \E w \in rows : w.project = project /\ \A v \in rows : Len(v.dirs) <= Len(w.dirs)

\* What the agent is shown was certified or mandatory while it waited, and leaves
\* out no standard that was mandatory all that time (guard.rs preflight: "Mandatory
\* standards are unconditional").
ToldIsHeld == stage \in {"answered", "shown"} => notes \subseteq seen /\ held \subseteq notes
=============================================================================
