--------------------------------- MODULE Demand ---------------------------------
(***************************************************************************)
(* Questions agents ask, the ledger of those the corpus failed, and the      *)
(* backlog of knowledge gaps that scans derive from it.  What the corpus can *)
(* say to a question is "nothing", a memory "disputed" by an open            *)
(* contradiction, or a "settled" one.                                        *)
(***************************************************************************)
EXTENDS Naturals, FiniteSets

CONSTANTS Question, Project, Scanner,
          ReprobeDepth, MissLimit,   \* REPROBE_LIMIT and the request's limit
          MaxAsks,                   \* bound on recorded misses of a question
          MaxForget, MaxAbort        \* bounds on memories lost and scans aborted

VARIABLES
  corpus,   \* per question
  ledger,   \* per question: the misses in the window, [asks, projects]
  gap,      \* per question: status "none", "open", "answered" or "dismissed", and the evidence
  scan,     \* per scanner: its phase, the questions left, its uncommitted writes
  forgotten, aborted

demandVars == <<corpus, ledger, gap, scan, forgotten, aborted>>

NoMiss == [asks |-> 0, projects |-> {}]
Off == [at |-> "idle", left |-> {}, closed |-> {}, minted |-> [q \in {} |-> NoMiss]]

DemandInit ==
  /\ corpus \in [Question -> {"nothing", "settled"}] /\ forgotten = 0 /\ aborted = 0
  /\ ledger = [q \in Question |-> NoMiss]
  /\ gap = [q \in Question |-> [status |-> "none", evidence |-> NoMiss]]
  /\ scan = [s \in Scanner |-> Off]

-----------------------------------------------------------------------------
\* The agents' searches withhold a disputed memory, the HTTP search serves it.
Served(surface, state) == state = "settled" \/ (surface = "http" /\ state = "disputed")
\* The probe is the ungoverned search.
Answerable(q) == corpus[q] # "nothing"

Missed(q, p) ==
  ledger' = [ledger EXCEPT ![q] = [asks |-> @.asks + 1, projects |-> @.projects \union {p}]]

\* An answered question adds nothing to the miss list; nor does one whose ledger
\* write fails.
Ask(q, p, surface) ==
  /\ ~ Served(surface, corpus[q]) /\ ledger[q].asks < MaxAsks
  /\ Missed(q, p) /\ UNCHANGED <<corpus, gap, scan, forgotten, aborted>>

\* The misses of a question leave the window.
Age(q) ==
  /\ ledger[q] # NoMiss /\ ledger' = [ledger EXCEPT ![q] = NoMiss]
  /\ UNCHANGED <<corpus, gap, scan, forgotten, aborted>>

Corpus(q, from, to) ==
  /\ corpus[q] = from /\ corpus' = [corpus EXCEPT ![q] = to]
  /\ forgotten' = IF to = "settled" THEN forgotten ELSE forgotten + 1
  /\ forgotten' <= MaxForget /\ UNCHANGED <<ledger, gap, scan, aborted>>
CorpusMoves(q) ==
  \/ Corpus(q, "nothing", "settled") \/ Corpus(q, "disputed", "settled")
  \/ Corpus(q, "settled", "disputed") \/ Corpus(q, "settled", "nothing")

-----------------------------------------------------------------------------
\* A scan is one transaction: its writes lock their rows until it ends.
Written(s) == scan[s].closed \union DOMAIN scan[s].minted
Locked(q) == \E s \in Scanner : q \in Written(s)
LockedByOther(s, q) == \E r \in Scanner \ {s} : q \in Written(r)

Breadth(e) == Cardinality(e.projects)
Outranks(e, f) == Breadth(e) > Breadth(f) \/ (Breadth(e) = Breadth(f) /\ e.asks > f.asks)
\* The first n of S by breadth, then volume; the last ask breaks ties.
Top(S, evidence, n) ==
  {T \in SUBSET S : /\ Cardinality(T) = IF Cardinality(S) < n THEN Cardinality(S) ELSE n
                    /\ \A q \in S \ T, r \in T : ~ Outranks(evidence[q], evidence[r])}

Open == {q \in Question : gap[q].status = "open"}
Misses == {q \in Question : ledger[q] # NoMiss}

NoReprobe == {{}}       \* Mutant: gaps close only when they are asked again.
OpenGaps == Top(Open, [q \in Question |-> gap[q].evidence], ReprobeDepth)

ScanBegins(s) ==
  /\ scan[s].at = "idle"
  /\ \E T \in OpenGaps : scan' = [scan EXCEPT ![s] = [Off EXCEPT !.at = "closing", !.left = T]]
  /\ UNCHANGED <<corpus, ledger, gap, forgotten, aborted>>

\* One probe, and the guarded close if the corpus can answer.
Close(s, q) ==
  /\ scan[s].at = "closing" /\ q \in scan[s].left
  /\ ~ (Answerable(q) /\ LockedByOther(s, q))
  /\ scan' = [scan EXCEPT ![s] =
       [at |-> @.at, left |-> @.left \ {q}, minted |-> @.minted,
        closed |-> IF Answerable(q) /\ q \in Open THEN @.closed \union {q} ELSE @.closed]]
  /\ UNCHANGED <<corpus, ledger, gap, forgotten, aborted>>

ReadMisses(s) ==
  /\ scan[s].at = "closing" /\ scan[s].left = {}
  /\ \E T \in Top(Misses, ledger, MissLimit) :
       scan' = [scan EXCEPT ![s] = [at |-> "minting", left |-> T, closed |-> @.closed, minted |-> @.minted]]
  /\ UNCHANGED <<corpus, ledger, gap, forgotten, aborted>>

\* The upsert inserts a row or refreshes an open one.
Upserts(s, q) == gap[q].status \in {"none", "open"} /\ q \notin scan[s].closed

\* The evidence was read with the miss list; it is rewritten only by a new list.
Mint(s, q) ==
  /\ scan[s].at = "minting" /\ q \in scan[s].left
  /\ ~ (~ Answerable(q) /\ LockedByOther(s, q))
  /\ scan' = [scan EXCEPT ![s] =
       [at |-> @.at, left |-> @.left \ {q}, closed |-> @.closed,
        minted |-> IF Answerable(q) \/ ~ Upserts(s, q) THEN @.minted
                   ELSE [x \in DOMAIN @.minted \union {q} |-> ledger[x]]]]
  /\ UNCHANGED <<corpus, ledger, gap, forgotten, aborted>>

Commit(s) ==
  /\ scan[s].at = "minting" /\ scan[s].left = {}
  /\ gap' = [q \in Question |->
       IF q \in scan[s].closed THEN [gap[q] EXCEPT !.status = "answered"]
       ELSE IF q \in DOMAIN scan[s].minted
       THEN [status |-> IF gap[q].status = "none" THEN "open" ELSE gap[q].status,
             evidence |-> scan[s].minted[q]]
       ELSE gap[q]]
  /\ scan' = [scan EXCEPT ![s] = Off] /\ UNCHANGED <<corpus, ledger, forgotten, aborted>>

\* A failed probe, a deadlock with another scan or a dropped request rolls it back.
Abort(s) ==
  /\ scan[s] # Off /\ aborted < MaxAbort /\ aborted' = aborted + 1
  /\ scan' = [scan EXCEPT ![s] = Off] /\ UNCHANGED <<corpus, ledger, gap, forgotten>>

Dismiss(q) ==
  /\ gap[q].status = "open" /\ ~ Locked(q)
  /\ gap' = [gap EXCEPT ![q].status = "dismissed"]
  /\ UNCHANGED <<corpus, ledger, scan, forgotten, aborted>>

ScanStep(s) ==
  \/ ScanBegins(s) \/ ReadMisses(s) \/ Commit(s)
  \/ \E q \in Question : Close(s, q) \/ Mint(s, q)

DemandNext ==
  \/ \E q \in Question : \/ CorpusMoves(q) \/ Age(q) \/ Dismiss(q)
                         \/ \E p \in Project, surface \in {"http", "mcp"} : Ask(q, p, surface)
  \/ \E s \in Scanner : ScanStep(s) \/ Abort(s)

\* Somebody keeps scanning.
DemandFairness == \A s \in Scanner : WF_demandVars(ScanStep(s))
DemandSpec == DemandInit /\ [][DemandNext]_demandVars /\ DemandFairness

-----------------------------------------------------------------------------
\* Whatever scan was under way when a gap was dismissed or answered, nothing about
\* it changes any more (retrieval_events.rs: "Terminal states stay terminal").
TerminalStays ==
  \A q \in Question : gap[q].status \in {"answered", "dismissed"} => gap'[q] = gap[q]

\* A question the corpus can answer from some moment on does not stay in the
\* backlog, asked again or not ("Close the loop").
GapCloses ==
  \A q \in Question : <>[](corpus[q] # "nothing") => <>[](gap[q].status # "open")
=============================================================================
