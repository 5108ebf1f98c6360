-------------------------------- MODULE Session --------------------------------
(***************************************************************************)
(* An agent's session on stdio.  The client writes lines without waiting     *)
(* for replies; the loop reads one bounded piece at a time, answers it and   *)
(* flushes before it reads the next.  A tool call is awaited; the store it   *)
(* writes to outlives the session.                                           *)
(***************************************************************************)
EXTENDS Naturals, Sequences, FiniteSets

CONSTANTS Cap,          \* MAX_FRAME_BYTES, in pieces of some size
          Sizes,        \* sizes of the lines a client writes, terminator included
          MaxLines,     \* bound on the lines of a session
          Grants,       \* the scopes session tokens may carry
  Bodies        \* what a line may be: see Silent, Immediate, Tools, "garbage", "no_such_tool"
ASSUME SessionAssumption == Cap \in Nat \ {0} /\ Sizes \subseteq Nat \ {0}

VARIABLES
  lines,      \* what the client has written: [body, size, eol]
  at, left,   \* the line being read and what is left of it
  awaiting,   \* the tool whose call is awaited, or "none"
  replies,    \* what the client has been sent: [id, code]
  session,    \* "up", or why it ended: the peer is "gone", stdout is "broken", a line "oversized"
  grant       \* the scopes of the session's token, fixed when it starts
sessionVars == <<lines, at, left, awaiting, replies, session, grant>>

-----------------------------------------------------------------------------
\* Lines and tools.

Silent == {"blank", "notification"}
Immediate == [ping |-> "ok", list |-> "ok", unknown |-> "-32601", response |-> "-32600", nameless |-> "-32602"]

Tools == {"memory_search", "memory_list", "memory_context", "memory_provenance", "entity_lookup", "memory_status",
          "edit_preflight", "memory_add", "knowledge_propose", "memory_feedback", "doc_get", "doc_search", "standards_for",
          "skill_search", "skill_fetch", "skill_report_usage", "standard_propose", "skill_propose"}

ToolScope(tool) ==
  CASE tool \in {"memory_add", "knowledge_propose", "memory_feedback"} -> "write"
    [] tool \in {"doc_get", "doc_search"} -> "kb:read"
    [] tool \in {"standards_for", "skill_search", "skill_fetch", "skill_report_usage"} -> "lib:read"
    [] tool \in {"standard_propose", "skill_propose"} -> "lib:propose"
    [] tool \notin Tools -> "admin"
    [] OTHER -> "read"
\* The unrestricted token of the environment allows what one with "admin" does.
Allows(scope) == scope \in grant \/ "admin" \in grant

SessionInit ==
  /\ lines = <<>> /\ at = 1 /\ left = 0 /\ awaiting = "none" /\ replies = <<>>
  /\ session = "up" /\ grant \in Grants

-----------------------------------------------------------------------------
\* The client: whole lines, the last one perhaps cut off by the end of input.

Type(body, size, eol) ==
  /\ Len(lines) < MaxLines /\ \A i \in DOMAIN lines : lines[i].eol
  /\ lines' = Append(lines, [body |-> body, size |-> size, eol |-> eol])
  /\ left' = IF at = Len(lines) + 1 THEN size ELSE left
  /\ UNCHANGED <<at, awaiting, replies, session, grant>>

-----------------------------------------------------------------------------
\* The loop.

Reading == session = "up" /\ awaiting = "none" /\ at \in DOMAIN lines

NoBound(l) == FALSE                               \* Mutant: fragments are frames.
\* The piece is full and has no terminator.
Oversized(l) == left > Cap \/ (left = Cap /\ ~ l.eol)

\* What the piece says: the line itself or a fragment of it.
Piece(l) == IF left = l.size /\ left <= Cap THEN l.body ELSE "garbage"
Remainder(k) == IF left <= k THEN 0 ELSE left - k

Consume ==
  IF Remainder(Cap) > 0 THEN left' = Remainder(Cap) /\ UNCHANGED at
  ELSE /\ at' = at + 1
       /\ left' = IF at + 1 \in DOMAIN lines THEN lines[at + 1].size ELSE 0

\* The reply reaches the client, or its standard output is gone and the session ends.
Respond(id, code) ==
  \/ replies' = Append(replies, [id |-> id, code |-> code]) /\ UNCHANGED session
  \/ replies' = replies /\ session' = "broken"

EndSession ==
  /\ Reading /\ Oversized(lines[at])
  /\ session' = "oversized"
  /\ UNCHANGED <<lines, at, left, awaiting, replies, grant>>

\* The peer is gone: a read fault, or the end of the input.
HangUp ==
  /\ session = "up" /\ awaiting = "none"
  /\ session' = "gone"
  /\ UNCHANGED <<lines, at, left, awaiting, replies, grant>>

HandleMessage ==
  /\ Reading /\ ~ Oversized(lines[at])
  /\ Consume
  /\ LET said == Piece(lines[at]) IN
       \/ said \in Silent /\ UNCHANGED <<awaiting, replies, session>>
       \/ said = "garbage" /\ Respond(0, "-32700") /\ UNCHANGED awaiting
       \/ said \in DOMAIN Immediate /\ Respond(at, Immediate[said]) /\ UNCHANGED awaiting
       \/ /\ said \in Tools \union {"no_such_tool"} /\ ~ Allows(ToolScope(said))
          /\ Respond(at, "-32001") /\ UNCHANGED awaiting
       \/ /\ said = "no_such_tool" /\ Allows(ToolScope(said))
          /\ Respond(at, "-32602") /\ UNCHANGED awaiting
       \/ said \in Tools /\ Allows(ToolScope(said)) /\ awaiting' = said /\ UNCHANGED <<replies, session>>
  /\ UNCHANGED <<lines, grant>>

\* The awaited call returns: a result, bad arguments, a refusal, or a fault which
\* an agent is told of in the same words whatever it was.
CallTool(outcome) ==
  /\ awaiting # "none"
  /\ awaiting' = "none"
  /\ Respond(at - 1, IF outcome = "invalid" THEN "-32602" ELSE "ok")
  /\ UNCHANGED <<lines, at, left, grant>>

SessionNext ==
  \/ \E body \in Bodies, size \in Sizes, eol \in BOOLEAN : Type(body, size, eol)
  \/ EndSession \/ HangUp \/ HandleMessage
  \/ \E outcome \in {"done", "invalid", "rejected", "fault"} : CallTool(outcome)

SessionSpec == SessionInit /\ [][SessionNext]_sessionVars

-----------------------------------------------------------------------------
\* Nothing is owed for a blank line or a notification.
Spoken(i) == lines[i].body \notin Silent
\* The place of line i among those a client is owed a reply for.
PlaceOf(i) == Cardinality({j \in 1..i : Spoken(j)})
\* A line that is no JSON is answered with a null id.
OwnId(i) == IF lines[i].body = "garbage" THEN 0 ELSE i

\* Every reply answers one line the client wrote, in the order it wrote them, and
\* no line is passed over (mcp.rs handle_message: "every id-carrying frame gets a
\* reply"; serve_stdio's size cap never turns the rest of a line into a frame).
RepliesMatch ==
  /\ Len(replies) <= PlaceOf(Len(lines))
  /\ \A i \in DOMAIN lines : Spoken(i) /\ PlaceOf(i) <= Len(replies) => replies[PlaceOf(i)].id = OwnId(i)
=============================================================================
