-------------------------------- MODULE Skills ---------------------------------
(***************************************************************************)
(* Skills, the Library's procedures (brainiac-store library/skills.rs and  *)
(* usage.rs, brainiac-server library.rs and mcp.rs): agents propose        *)
(* bundles, a maintainer signs a version, agents fetch what is signed.     *)
(* A skill is named by its slug; a version by its place among the skill's  *)
(* versions and the minor number it carries.  Proposals and signatures     *)
(* read first and write, with their commit, later.                         *)
(***************************************************************************)
EXTENDS Integers, FiniteSets, Sequences

CONSTANTS
  Skill,       \* slugs
  Agent,       \* who proposes and fetches
  Maintainer,  \* who signs
  MaxVersion,  \* bound: versions of a skill
  MaxFetch     \* bound: usage events

ASSUME SkillsAssumption ==
  /\ Agent \cap Maintainer = {} /\ MaxVersion \in Nat /\ MaxFetch \in Nat

VARIABLES
  maturity,  \* maturity[k]: absent, draft, published
  versions,  \* versions[k]: the rows of skill_versions, oldest first
  current,   \* current[k]: current_version, 0 for none
  usage,     \* library_usage_events: [skill, version, event, by]
  call,      \* call[p]: what p has read and is about to write
  told       \* told[p]: what p's last proposal was answered

skillVars == <<maturity, versions, current, usage, call, told>>

VersionId(k) == 1..Len(versions[k])
NoCall == [op |-> "none"]
Untold == [outcome |-> "none"]
Draft(minor) == [minor |-> minor, signed |-> FALSE]

\* pending_draft_version: the newest of those without a signature.
Unsigned(k) == {v \in VersionId(k) : ~ versions[k][v].signed}
Pending(k)  == CHOOSE v \in Unsigned(k) : \A w \in Unsigned(k) : w <= v

\* current_published_version.
Serving(k) == IF current[k] # 0 /\ versions[k][current[k]].signed THEN current[k] ELSE 0

SkillsInit ==
  /\ maturity = [k \in Skill |-> "absent"]
  /\ versions = [k \in Skill |-> << >>]
  /\ current = [k \in Skill |-> 0]
  /\ usage = {}
  /\ call = [p \in Agent \cup Maintainer |-> NoCall]
  /\ told = [p \in Agent |-> Untold]

\* propose_skill: a new name, the next version of a skill that serves one and
\* has no draft waiting, or nothing to add.
Classified(k) ==
  CASE maturity[k] = "absent" -> "created"
    [] maturity[k] # "absent" /\ Unsigned(k) = {} /\ Serving(k) # 0 -> "new_version"
    [] OTHER -> "duplicate"

\* What the two surfaces answer; a transaction that fails answers nothing.
Conclude(p, outcome) ==
  /\ told' = [told EXCEPT ![p] = outcome]
  /\ call' = [call EXCEPT ![p] = NoCall]

\* skill_propose: a bundle whose fields and files are well-formed.
ProposeSkill(p, k) ==
  /\ call[p] = NoCall
  /\ IF Classified(k) = "duplicate" THEN Conclude(p, [outcome |-> "duplicate", skill |-> k])
     ELSE /\ call' = [call EXCEPT ![p] = [op |-> Classified(k), skill |-> k, serving |-> Serving(k)]]
          /\ told' = [told EXCEPT ![p] = Untold]
  /\ UNCHANGED <<maturity, versions, current, usage>>

\* The tool's arguments: a bundle with a file that has no path or no text is refused
\* before anything is read.
SkillPropose(p, k, malformed) ==
  IF malformed
  THEN /\ call[p] = NoCall /\ Conclude(p, Untold)
       /\ UNCHANGED <<maturity, versions, current, usage>>
  ELSE ProposeSkill(p, k)

\* The skill and its 0.1.0; the slug is unique.
CreateSkill(p) ==
  LET k == call[p].skill
  IN  /\ call[p].op = "created"
      /\ IF maturity[k] = "absent"
         THEN /\ maturity' = [maturity EXCEPT ![k] = "draft"]
              /\ versions' = [versions EXCEPT ![k] = <<Draft(1)>>]
              /\ Conclude(p, [outcome |-> "created", skill |-> k, minor |-> 1])
         ELSE UNCHANGED <<maturity, versions>> /\ Conclude(p, Untold)
      /\ UNCHANGED <<current, usage>>

\* next_minor of the newest version, which is read after the rest.
NextMinor(k) == versions[k][Len(versions[k])].minor + 1
ReadNewest(p) ==
  /\ call[p].op = "new_version"
  /\ call' = [call EXCEPT ![p] = [op |-> "number", skill |-> call[p].skill, serving |-> call[p].serving,
                                  minor |-> NextMinor(call[p].skill)]]
  /\ UNCHANGED <<maturity, versions, current, usage, told>>

\* The unique constraint on (skill_id, semver).
NumberFree(k, minor) == \A v \in VersionId(k) : versions[k][v].minor # minor
\* add_skill_version, and the commit.
AddVersion(p) ==
  LET k == call[p].skill
  IN  /\ call[p].op = "number" /\ Len(versions[k]) < MaxVersion
      /\ IF NumberFree(k, call[p].minor)
         THEN /\ versions' = [versions EXCEPT ![k] = Append(@, Draft(call[p].minor))]
              /\ Conclude(p, [outcome |-> "new_version", skill |-> k, minor |-> call[p].minor,
                            serving |-> call[p].serving])
         ELSE UNCHANGED versions /\ Conclude(p, Untold)
      /\ UNCHANGED <<maturity, current, usage>>

\* skill_publish picks the draft ...
PickDraft(p, k) ==
  /\ call[p] = NoCall /\ Unsigned(k) # {}
  /\ call' = [call EXCEPT ![p] = [op |-> "sign", skill |-> k, version |-> Pending(k)]]
  /\ UNCHANGED <<maturity, versions, current, usage, told>>

\* publish_skill_version: published_by must still be NULL.
Signable(k, v) == ~ versions[k][v].signed
\* ... and signs it, which is then the one to serve, or fails.
Sign(p) ==
  LET k == call[p].skill
      v == call[p].version
  IN  /\ call[p].op = "sign"
      /\ IF Signable(k, v)
         THEN /\ versions' = [versions EXCEPT ![k][v].signed = TRUE]
              /\ current' = [current EXCEPT ![k] = v]
              /\ maturity' = [maturity EXCEPT ![k] = "published"]
         ELSE UNCHANGED <<maturity, versions, current>>
      /\ call' = [call EXCEPT ![p] = NoCall]
      /\ UNCHANGED <<usage, told>>

\* record_usage, which takes no user.
Record(k, v, event, by) ==
  /\ usage' = usage \cup {[skill |-> k, version |-> v, event |-> event, by |-> by]}
  /\ Cardinality(usage') <= MaxFetch

\* skill_download: the bundle and its event in one transaction.
Download(k) ==
  /\ Serving(k) # 0
  /\ Record(k, Serving(k), "fetch", "server")
  /\ UNCHANGED <<maturity, versions, current, call, told>>

\* skill_report_usage: a check or an apply, of no version.
ReportUsage(k, event) ==
  /\ maturity[k] # "absent" /\ event \in {"check", "apply"}
  /\ Record(k, 0, event, "agent")
  /\ UNCHANGED <<maturity, versions, current, call, told>>
\* usage_record takes a fetch as well, of the version the caller names.
UsageRecord(k, v, event) ==
  /\ maturity[k] # "absent"
  /\ Record(k, v, event, "client")
  /\ UNCHANGED <<maturity, versions, current, call, told>>

\* skill_fetch hands the bundle out ...
FetchSkill(p, k) ==
  /\ call[p] = NoCall /\ Serving(k) # 0
  /\ call' = [call EXCEPT ![p] = [op |-> "fetched", skill |-> k, version |-> Serving(k)]]
  /\ UNCHANGED <<maturity, versions, current, usage, told>>
\* ... and records it in a transaction of its own, whose failure is swallowed.
RecordFetch(p) ==
  /\ call[p].op = "fetched"
  /\ Record(call[p].skill, call[p].version, "fetch", "server") \/ UNCHANGED usage
  /\ call' = [call EXCEPT ![p] = NoCall]
  /\ UNCHANGED <<maturity, versions, current, told>>

SkillsNext ==
  \/ \E p \in Agent, k \in Skill : FetchSkill(p, k) \/ ProposeSkill(p, k)
                                   \/ \E malformed \in BOOLEAN : SkillPropose(p, k, malformed)
  \/ \E p \in Agent : CreateSkill(p) \/ ReadNewest(p) \/ AddVersion(p) \/ RecordFetch(p)
  \/ \E p \in Maintainer, k \in Skill : PickDraft(p, k)
  \/ \E p \in Maintainer : Sign(p)
  \/ \E k \in Skill : Download(k)
  \/ \E k \in Skill, event \in {"fetch", "check", "apply"} :
       ReportUsage(k, event) \/ UsageRecord(k, 1, event)

SkillsSpec == SkillsInit /\ [][SkillsNext]_skillVars

-----------------------------------------------------------------------------
(* Properties. *)

\* A semver is never reused, whichever proposals and signatures interleave
\* (the comment on next_minor in propose_skill).
NumbersAreUnique ==
  \A k \in Skill : \A v, w \in VersionId(k) : v # w => versions[k][v].minor # versions[k][w].minor

\* What agents were ever given was signed by then: a draft nobody has signed is
\* not served (current_published_version, publish_skill_version).
FetchedIsSigned ==
  \A e \in usage : e.by = "server" => versions[e.skill][e.version].signed

\* What a proposer was told stays true: the draft it was given the number of is
\* on the shelf, the version said to go on serving was signed, and what it was
\* told to be a duplicate of is there (skill_propose on both surfaces).
AnswersHold ==
  \A p \in Agent : LET t == told[p] IN
    /\ t.outcome # "none" => maturity[t.skill] # "absent"
    /\ t.outcome \in {"created", "new_version"} => \E v \in VersionId(t.skill) : versions[t.skill][v].minor = t.minor
    /\ t.outcome = "new_version" => t.serving # 0 /\ versions[t.skill][t.serving].signed

\* A skill in use stays in use: no proposal, and no signature that comes too
\* late, leaves readers without a version or changes the one they get.
ServingIsOnlyReplacedBySigning ==
  \A k \in Skill : Serving(k) # 0 /\ Serving(k)' # Serving(k) =>
       Serving(k)' # 0 /\ ~ versions[k][Serving(k)'].signed
=============================================================================
