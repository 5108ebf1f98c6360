------------------------------- MODULE Standards -------------------------------
(***************************************************************************)
(* The normative half of the Library (brainiac-store library/standards.rs, *)
(* bridge.rs and proposals.rs, brainiac-pipeline library_sweep.rs and      *)
(* standards_page.rs, brainiac-server library.rs and mcp.rs): candidate    *)
(* rules come from agents, from maintainers who ratify a divergence, from  *)
(* settled contradictions and from the mining sweep; maintainers adopt,    *)
(* reject, retire and edit them; the page of a stack is composed from what *)
(* is adopted.                                                             *)
(*                                                                         *)
(* No function here locks what it reads.  A proposer of a signal looks     *)
(* whether a rule carries it, asks in a statement of its own whether its   *)
(* slug is taken, and inserts with its commit in a third: what stands      *)
(* between two writers of the same candidate is the unique slug alone.     *)
(* The hourly budget of an author only refuses and is left out.            *)
(***************************************************************************)
EXTENDS Integers, FiniteSets, Sequences, SequencesExt

CONSTANTS
  Author,      \* people and agents with a request of their own
  Holders,     \* Holders[c]: those whose token has scope lib:c, c = propose or publish
  Nobody,      \* who has decided a rule that is undecided
  Signal,      \* what can motivate a rule: divergences and memories
  Divergence,  \* those of them that are divergences
  Base,        \* slugs of names
  BaseOf,      \* BaseOf[s]: the slug the name of signal s gives
  Wording,     \* what a rule can say
  TextOf,      \* TextOf[s]: the wording signal s gives
  Stack,
  General,     \* the stack every candidate is filed under
  Unmarked,    \* the suffix of a slug without one; no signal
  MinRules,    \* SCAFFOLD_MIN_RULES
  MaxRule,     \* bound: rules
  MaxRev       \* bound: revisions of a rule

ASSUME StandardsAssumption ==
  /\ Holders \in [{"propose", "publish"} -> SUBSET Author] /\ Nobody \notin Author
  /\ Divergence \subseteq Signal /\ Unmarked \notin Signal /\ General \in Stack
  /\ BaseOf \in [Signal -> Base] /\ TextOf \in [Signal -> Wording]
  /\ MinRules \in Nat \ {0} /\ MaxRule \in Nat /\ MaxRev \in Nat \ {0}

VARIABLES
  rules,    \* the rows of standards, in the order of their creation
  revs,     \* revs[r]: the wordings of standard_versions, by rev
  request,  \* request[u]: what u has read and is about to write
  mining,   \* the sweep's transaction: the signals left, the one in hand, its candidates
  page,     \* page[s]: the standards page of stack s
  draft     \* draft[s]: the page as the composer has rendered it

standardVars == <<rules, revs, request, mining, page, draft>>

RuleId == 1..Len(rules)
Live(r) == rules[r].life # "rejected"
Idle    == [op |-> "idle"]
\* History of a candidate: how many rules there were when its proposer asked
\* whether the signal is spoken for, looked for a live rule, and chose the slug.
NothingRead  == [asked |-> 0, looked |-> 0, named |-> 0]
Asleep  == [todo |-> {}, signal |-> Unmarked, stage |-> "look", read |-> NothingRead, found |-> << >>]
\* bumped: updated_at has moved since the composer took the page.
NoPage  == [there |-> FALSE, dirty |-> FALSE, bumped |-> FALSE, shows |-> {}]
NoDraft == [rendered |-> FALSE, shows |-> {}]

\* A candidate as insert_standard writes it.  slug is the base and the signal
\* whose id makes it unique; recent says that updated_at is in the dedup window,
\* and fresh (history) that the rejection itself is.
Candidate(slug, origin, text, support, read) ==
  [slug |-> slug, origin |-> origin, stack |-> General, text |-> text, support |-> support, read |-> read,
   life |-> "proposed", by |-> Nobody, decreed |-> FALSE, recent |-> FALSE, fresh |-> FALSE]

StandardsInit ==
  /\ rules = << >> /\ revs = << >>
  /\ request = [u \in Author |-> Idle]
  /\ mining = Asleep
  /\ page = [s \in Stack |-> NoPage]
  /\ draft = [s \in Stack |-> NoDraft]

-----------------------------------------------------------------------------
(* Where candidates come from. *)

\* Mutant: slugs are not unique.
FreeAlways(new) == TRUE
\* The unique constraint on (org_id, slug), met when the rows are inserted.
Free(new) ==
  /\ \A i \in DOMAIN new : \A r \in RuleId : rules[r].slug # new[i].slug
  /\ \A i, j \in DOMAIN new : i # j => new[i].slug # new[j].slug

\* insert_standard: the row and its revision 1; otherwise the transaction fails.
Insert(new) ==
  /\ Len(rules) + Len(new) <= MaxRule
  /\ IF Free(new)
     THEN /\ rules' = rules \o new
          /\ revs' = revs \o [i \in DOMAIN new |-> <<new[i].text>>]
     ELSE UNCHANGED <<rules, revs>>

\* The slug of a signal, suffixed when its base is taken by `known`.
SlugOf(s, known) ==
  IF \E c \in known : c.slug = <<BaseOf[s], Unmarked>>
  THEN <<BaseOf[s], s>> ELSE <<BaseOf[s], Unmarked>>

\* Mutant: a rejected rule does not speak for its signal.
BlockedByLive(s, known) == \E c \in known : s \in c.support /\ c.life # "rejected"
\* blocked: some rule carries the signal, or a rejection in the dedup window.
Blocked(s, known) == \E c \in known : s \in c.support /\ (c.life # "rejected" \/ c.recent)

\* Some live rule carries the signal.
Carried(s, known) == \E c \in known : s \in c.support /\ c.life # "rejected"

\* History of a proposer's reads.
AskedNow       == [asked |-> Len(rules), looked |-> Len(rules), named |-> 0]
LookedAt(read) == [read EXCEPT !.looked = Len(rules)]
NamedAt(read)  == [read EXCEPT !.named = Len(rules)]

Looking(s, origin) == [op |-> "name", signal |-> s, origin |-> origin, read |-> AskedNow]
\* ratify_divergence: a live candidate is returned as it is; a rejection is no obstacle.
Ratify(u, s) ==
  /\ request[u] = Idle /\ s \in Divergence /\ u \in Holders["publish"]
  /\ ~ Carried(s, Range(rules))
  /\ request' = [request EXCEPT ![u] = Looking(s, "human")]
  /\ UNCHANGED <<rules, revs, mining, page, draft>>

\* mine_contradiction_winner of a maintainer's resolution, inside the transaction that settles the dispute.
MineWinner(u, s) ==
  /\ request[u] = Idle /\ s \in Signal \ Divergence /\ u \in Holders["publish"]
  /\ ~ Blocked(s, Range(rules))
  /\ request' = [request EXCEPT ![u] = Looking(s, "sweep")]
  /\ UNCHANGED <<rules, revs, mining, page, draft>>

\* The next statement of either asks whether the plain slug is taken by now.
NamePlanned(u) ==
  /\ request[u].op = "name"
  /\ LET q == request[u] IN
       request' = [request EXCEPT ![u] =
         [op |-> "insert", new |-> Candidate(SlugOf(q.signal, Range(rules)), q.origin, TextOf[q.signal],
                                             {q.signal}, NamedAt(q.read))]]
  /\ UNCHANGED <<rules, revs, mining, page, draft>>

\* propose_standard collapses onto what says or is called the same.
Said(b, text) == \E r \in RuleId : rules[r].slug = <<b, Unmarked>> \/ rules[r].text = text
\* A proposal over HTTP or as an agent's tool; evidence is a memory or none.
Propose(u, b, text, evidence) ==
  /\ request[u] = Idle /\ u \in Holders["propose"]
  /\ ~ Said(b, text)
  /\ request' = [request EXCEPT ![u] =
       [op |-> "insert", new |-> Candidate(<<b, Unmarked>>, "agent", text, evidence, NothingRead)]]
  /\ UNCHANGED <<rules, revs, mining, page, draft>>

\* The insert and the commit of any of the three.
InsertPlanned(u) ==
  /\ request[u].op = "insert"
  /\ Insert(<<request[u].new>>)
  /\ request' = [request EXCEPT ![u] = Idle]
  /\ UNCHANGED <<mining, page, draft>>

\* mine_org: one transaction takes the divergences there are and the memories
\* that qualify by then, one after the other.
MineStart(found) ==
  /\ mining = Asleep
  /\ mining' = [Asleep EXCEPT !.todo = found]
  /\ UNCHANGED <<rules, revs, request, page, draft>>

Known == Range(rules) \cup Range(mining.found)
Done(s, found) == [Asleep EXCEPT !.todo = mining.todo \ {s}, !.found = found]
\* The divergences come first.
Turn(s) == mining.todo \cap Divergence # {} => s \in Divergence
StageOf(s) == IF s \in Divergence THEN "bridge" ELSE "name"
\* Of each it asks whether the signal is spoken for ...
MineLook(s) ==
  /\ mining.signal = Unmarked /\ s \in mining.todo /\ Turn(s)
  /\ mining' = IF Blocked(s, Known) THEN Done(s, mining.found)
               ELSE [mining EXCEPT !.signal = s, !.stage = StageOf(s), !.read = AskedNow]
  /\ UNCHANGED <<rules, revs, request, page, draft>>
\* ... of a divergence, in propose_from_divergence, once more whether a live rule carries it ...
MineBridge(s) ==
  /\ mining.signal = s /\ mining.stage = "bridge"
  /\ mining' = IF Carried(s, Known) THEN Done(s, mining.found)
               ELSE [mining EXCEPT !.stage = "name", !.read = LookedAt(@)]
  /\ UNCHANGED <<rules, revs, request, page, draft>>
\* ... then whether its plain slug is taken ...
MineName(s) ==
  /\ mining.signal = s /\ mining.stage = "name"
  /\ mining' = Done(s, Append(mining.found,
       Candidate(SlugOf(s, Known), "sweep", TextOf[s], {s}, NamedAt(mining.read))))
  /\ UNCHANGED <<rules, revs, request, page, draft>>
\* ... and commits what it has found, or none of it.
MineCommit ==
  /\ mining.todo = {} /\ mining.found # << >>
  /\ Insert(mining.found)
  /\ mining' = Asleep
  /\ UNCHANGED <<request, page, draft>>

-----------------------------------------------------------------------------
(* The maintainers' gate: one guarded UPDATE each. *)

\* mark_standards_pages_dirty: dirty_at alone, not updated_at.
Marked(stacks) ==
  [s \in Stack |-> IF s \in stacks /\ page[s].there THEN [page[s] EXCEPT !.dirty = TRUE]
                   ELSE page[s]]

\* standards_attribution_check.
Attributed(r, decree) == decree \/ rules[r].support # {} \/ rules[r].decreed

\* auth_of with lib:publish.
MayDecide(u) == u \in Holders["publish"]

Decided(r, life, u) == [[rules[r] EXCEPT !.life = life] EXCEPT !.by = u]
Lately(row, b) == [[row EXCEPT !.recent = b] EXCEPT !.fresh = b]

\* adopt_standard, under the schema's refusal.
Adopt(u, r, decree) ==
  /\ MayDecide(u) /\ rules[r].life = "proposed" /\ Attributed(r, decree)
  /\ rules' = [rules EXCEPT ![r] = [Decided(r, "adopted", u) EXCEPT !.decreed = @ \/ decree]]
  /\ page' = Marked({rules[r].stack})
  /\ UNCHANGED <<revs, request, mining, draft>>

Deprecate(u, r) ==
  /\ MayDecide(u) /\ rules[r].life = "adopted"
  /\ rules' = [rules EXCEPT ![r] = Decided(r, "deprecated", u)]
  /\ page' = Marked({rules[r].stack})
  /\ UNCHANGED <<revs, request, mining, draft>>

Reject(u, r) ==
  /\ MayDecide(u) /\ rules[r].life = "proposed"
  /\ rules' = [rules EXCEPT ![r] = Lately(Decided(r, "rejected", u), TRUE)]
  /\ UNCHANGED <<revs, request, mining, page, draft>>

\* The dedup window of a rejection passes.
WindowPasses(r) ==
  /\ rules[r].life = "rejected" /\ rules[r].recent
  /\ rules' = [rules EXCEPT ![r] = Lately(rules[r], FALSE)]
  /\ UNCHANGED <<revs, request, mining, page, draft>>

\* update_standard reads the rule, which must not be terminal ...
Edit(u, r, stack, text) ==
  /\ request[u] = Idle /\ MayDecide(u)
  /\ rules[r].life \in {"proposed", "adopted"}
  /\ stack # rules[r].stack \/ text # rules[r].text
  /\ request' = [request EXCEPT ![u] =
       [op |-> "update", rule |-> r, stack |-> stack, text |-> text,
        before |-> [stack |-> rules[r].stack, text |-> rules[r].text, life |-> rules[r].life]]]
  /\ UNCHANGED <<rules, revs, mining, page, draft>>
\* ... and writes the whole row, a revision when it has seen the words change,
\* and marks the pages when it has seen the rule adopted.
Edited(row, stack, text) ==
  [[[row EXCEPT !.stack = stack] EXCEPT !.text = text] EXCEPT !.recent = row.life = "rejected"]
WriteEdit(u) ==
  LET q == request[u]
  IN  /\ q.op = "update"
      /\ rules' = [rules EXCEPT ![q.rule] = Edited(rules[q.rule], q.stack, q.text)]
      /\ IF q.text = q.before.text THEN UNCHANGED revs
         ELSE /\ Len(revs[q.rule]) < MaxRev
              /\ revs' = [revs EXCEPT ![q.rule] = Append(@, q.text)]
      /\ page' = IF q.before.life = "adopted" THEN Marked({q.before.stack, q.stack}) ELSE page
      /\ request' = [request EXCEPT ![u] = Idle]
      /\ UNCHANGED <<mining, draft>>

-----------------------------------------------------------------------------
(* The page of a stack. *)

\* Mutant: the whole shelf is rendered.
ServedAll(s) == {r \in RuleId : rules[r].stack = s}
\* list_standards as readers, agents and the renderer call it.
Served(s) == {r \in RuleId : rules[r].stack = s /\ rules[r].life = "adopted"}

\* scaffold_standards_pages: born dirty.
Scaffold(s) ==
  /\ ~ page[s].there /\ Cardinality(Served(s)) >= MinRules
  /\ page' = [page EXCEPT ![s] = [there |-> TRUE, dirty |-> TRUE, bumped |-> FALSE, shows |-> {}]]
  /\ UNCHANGED <<rules, revs, request, mining, draft>>

\* mark_dirty from elsewhere (an edit, a request to recompose) moves updated_at.
Touch(s) ==
  /\ page[s].there
  /\ page' = [page EXCEPT ![s] =
       [there |-> TRUE, dirty |-> TRUE, bumped |-> draft[s].rendered, shows |-> page[s].shows]]
  /\ UNCHANGED <<rules, revs, request, mining, draft>>

\* The composer takes a dirty page and renders the stack ...
Render(s) ==
  /\ page[s].there /\ page[s].dirty /\ ~ draft[s].rendered
  /\ draft' = [draft EXCEPT ![s] =
       [rendered |-> TRUE, shows |-> {<<r, rules[r].text>> : r \in Served(s)}]]
  /\ UNCHANGED <<rules, revs, request, mining, page>>
\* ... and saves it, clean unless updated_at has moved since.
Publish(s) ==
  /\ draft[s].rendered
  /\ page' = [page EXCEPT ![s] =
       [there |-> page[s].there, dirty |-> page[s].bumped, bumped |-> FALSE, shows |-> draft[s].shows]]
  /\ draft' = [draft EXCEPT ![s] = NoDraft]
  /\ UNCHANGED <<rules, revs, request, mining>>

StandardsNext ==
  \/ \E u \in Author :
       \/ \E s \in Signal : Ratify(u, s) \/ MineWinner(u, s)
       \/ \E b \in Base, text \in Wording, m \in {{}} \cup {{s} : s \in Signal \ Divergence} :
            Propose(u, b, text, m)
       \/ NamePlanned(u) \/ InsertPlanned(u) \/ WriteEdit(u)
       \/ \E r \in RuleId :
            \/ \E decree \in BOOLEAN : Adopt(u, r, decree)
            \/ Deprecate(u, r) \/ Reject(u, r)
            \/ \E s \in Stack, text \in Wording : Edit(u, r, s, text)
  \/ \E found \in SUBSET Signal : MineStart(found)
  \/ MineCommit
  \/ \E s \in Signal : MineLook(s) \/ MineBridge(s) \/ MineName(s)
  \/ \E r \in RuleId : WindowPasses(r)
  \/ \E s \in Stack : Scaffold(s) \/ Touch(s) \/ Render(s) \/ Publish(s)

StandardsSpec == StandardsInit /\ [][StandardsNext]_standardVars

-----------------------------------------------------------------------------
(* Properties. *)

\* Rules that a signal has brought by itself: bridged or mined, not proposed.
Minted(r) == rules[r].origin # "agent"

SameSignal(q, r) == rules[q].support \cap rules[r].support # {}

\* A signal that has brought a rule brings another beside it only by an overlap:
\* the first was committed before the second chose its slug, and if the first is
\* live, after the second had looked for one (propose_from_divergence, unique_slug).
SecondOnlyByOverlap ==
  \A q, r \in RuleId : q < r /\ Minted(q) /\ Minted(r) /\ SameSignal(q, r) =>
    /\ q <= rules[r].read.named
    /\ Live(q) => rules[r].read.looked < q

\* propose_from_divergence, of an already bridged divergence: "never a second one".
NeverASecond ==
  \A s \in Divergence :
    Cardinality({r \in RuleId : Minted(r) /\ Live(r) /\ s \in rules[r].support}) <= 1

\* A maintainer who has said no to a signal is not asked again by the machine
\* within the window; unless candidate and rejection both came between the two
\* reads of one proposer, the first of which found nobody speaking (blocked).
RejectionIsRespected ==
  \A r \in DOMAIN rules' \ RuleId : rules'[r].origin = "sweep" =>
    \A q \in RuleId :
      Minted(q) /\ rules[q].life = "rejected" /\ rules[q].fresh
        /\ rules[q].support \cap rules'[r].support # {} =>
      rules'[r].read.asked < q /\ q <= rules'[r].read.named

\* Nothing reaches a page before a person has adopted it, whatever became of
\* the rule while the page was composed, and every text on it is one of the
\* rule's revisions (render_stack).
PageShowsRatified ==
  \A s \in Stack : \A shown \in page[s].shows :
    /\ rules[shown[1]].life \in {"adopted", "deprecated"}
    /\ shown[2] \in Range(revs[shown[1]])

\* Agents propose, people decide: what has left the gate was decided by one
\* with lib:publish, and is in force with evidence or a name under it
\* (standards_attribution_check), whatever edits raced the decision.
DecidedByPeople ==
  \A r \in RuleId : rules[r].life # "proposed" =>
    /\ rules[r].by \in Holders["publish"]
    /\ rules[r].life # "rejected" => rules[r].support # {} \/ rules[r].decreed
=============================================================================
