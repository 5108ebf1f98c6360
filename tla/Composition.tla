------------------------------ MODULE Composition ------------------------------
(***************************************************************************)
(* What a page is made of once its memories are read (the reading and the    *)
(* publishing are in Pages): the model's text goes through the citation      *)
(* firewall, the artifacts of what it cites are appended, and the sections   *)
(* are joined into one revision.  A text is a sequence of the pieces that    *)
(* the firewall tells apart; the model may write any.                        *)
(***************************************************************************)
EXTENDS Texts, FiniteSets

CONSTANTS Handed,     \* memories the prompt listed
          Detailed,   \* those among them with an artifact
          Stranger,   \* an id it did not list
          MaxPieces   \* length of a text

\* An id is no other piece of a text.
ASSUME CompositionAssumption ==
  /\ IsFiniteSet(Handed) /\ Detailed \subseteq Handed /\ MaxPieces \in Nat
  /\ (Handed \union {Stranger}) \intersect
       {"[", "m:", "]", "gap", "#", "word", "artifact", "rule", "nothing"} = {}

VARIABLES composedText, \* what the model wrote
          other      \* the page's other section: "pinned", "empty", "standards"
compositionVars == <<composedText, other>>

Ids == Handed \union {Stranger}
Marker(id) == <<"[", "m:", id, "]">>
Written == {<<"word">>, <<"gap">>, <<"#">>, <<"[", "m:">>, <<"[">>, <<"]">>, <<"m:", Stranger, "]">>}
           \union {Marker(id) : id \in Ids}
Drafts == {FlattenSeq(s) : s \in UNION {[1..n -> Written] : n \in 0..MaxPieces}}

CompositionInit == composedText \in Drafts /\ other \in {"pinned", "empty", "standards"}

-----------------------------------------------------------------------------
\* enforce_citations.

Opens(text, i) == i < Len(text) /\ text[i] = "[" /\ text[i + 1] = "m:"

\* One marker after the other: what lies between its opening and the next bracket
\* is an id that was handed out, or it is stripped; an opening that is never closed
\* stays, with all behind it.
Unread == [clean |-> << >>, cited |-> {}, invented |-> FALSE, from |-> 1]
Enforce(text, s, i) ==
  LET ends == {j \in (i + 2)..Len(text) : text[j] = "]"}
      end == CHOOSE j \in ends : \A k \in ends : j <= k
      raw == SubSeq(text, i + 2, end - 1)
  IN  IF i < s.from THEN s
      ELSE IF ~ Opens(text, i) THEN [s EXCEPT !.clean = Append(@, text[i])]
      ELSE IF ends = {} THEN [s EXCEPT !.clean = @ \o SubSeq(text, i, Len(text)), !.from = Len(text) + 1]
      ELSE IF Len(raw) = 1 /\ raw[1] \in Handed
      THEN [s EXCEPT !.clean = @ \o Marker(raw[1]), !.cited = @ \union {raw[1]}, !.from = end + 1]
      ELSE [s EXCEPT !.invented = TRUE, !.from = end + 1]
Cleaned(text) == FoldLeft(LAMBDA s, i : Enforce(text, s, i), Unread, [i \in DOMAIN text |-> i])

Paragraphs(text) == SplitAt(text, "gap")
\* Headings are not looked at.
Prose(p) == p # << >> /\ p[1] # "#"
Sourced(p) == \E i \in DOMAIN p : Opens(p, i)

EnforceCitations(text) ==
  LET c == Cleaned(text)
  IN  [clean |-> c.clean, cited |-> c.cited,
       unbacked |-> c.invented \/ \E p \in Range(Paragraphs(c.clean)) : Prose(p) /\ ~ Sourced(p)]

-----------------------------------------------------------------------------
\* Sections and the page.

\* Artifacts of the cited, each under its own marker, in the prompt's order.
EvidenceBlocks(cited) ==
  FlattenSeq([i \in 1..Cardinality(cited \intersect Detailed) |->
                <<"gap", "artifact">> \o Marker(SetToSeq(cited \intersect Detailed)[i])])

\* Pinned prose and the Library's rules pass as they are; without memories the
\* section says so.
ComposeSection(mode) ==
  CASE mode = "pinned" -> [clean |-> <<"word">>, cited |-> {}, unbacked |-> FALSE]
    [] mode = "empty" -> [clean |-> <<"nothing">>, cited |-> {}, unbacked |-> FALSE]
    [] mode = "standards" -> [clean |-> <<"rule">> \o Marker(Stranger), cited |-> {Stranger}, unbacked |-> FALSE]
    [] OTHER -> LET out == EnforceCitations(composedText)
                IN  [out EXCEPT !.clean = @ \o EvidenceBlocks(out.cited)]

ComposeDocument ==
  LET first == ComposeSection("composed")
      second == ComposeSection(other)
  IN  [body |-> first.clean \o <<"gap", "#", "gap">> \o second.clean,
       composedFrom |-> first.cited \union second.cited,
       unbacked |-> first.unbacked \/ second.unbacked]

-----------------------------------------------------------------------------
Visible(text) == {id \in Ids : \E i \in DOMAIN text : i + 3 <= Len(text) /\ SubSeq(text, i, i + 3) = Marker(id)}
LeftOpen == \E i \in DOMAIN composedText : Opens(composedText, i) /\ \A j \in i..Len(composedText) : composedText[j] # "]"

\* A page that may publish itself cites what it was given and rests on what it
\* cites: its closure is every id a reader sees, and each paragraph the model wrote
\* names a memory it was handed, whatever it wrote, unless its last marker was
\* never closed (compose.rs: "an invented id is stripped, and a paragraph left with
\* no valid citation is an unbacked claim").
FirewallHolds ==
  LET doc == ComposeDocument
      own == EnforceCitations(composedText)
  IN  ~ doc.unbacked =>
        /\ Visible(doc.body) = doc.composedFrom
        /\ own.cited \subseteq Handed
        /\ LeftOpen \/ \A p \in Range(Paragraphs(own.clean)) : Prose(p) => Visible(p) # {}
=============================================================================
