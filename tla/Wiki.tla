---------------------------------- MODULE Wiki ----------------------------------
(***************************************************************************)
(* Reading the wiki and editing it.  People page through it under filters    *)
(* with a menu beside them, agents search and read what is published, and    *)
(* editors rewrite the pinned section of a page they have before them; what  *)
(* they have before them is a revision, composed some time ago.              *)
(***************************************************************************)
EXTENDS Naturals, FiniteSets

CONSTANTS Page,        \* pages
          Filed,       \* doc_kind of each page and the first part of its slug
          Editor,      \* maintainers
          MaxSave      \* bound on the versions of pinned prose

Unfiltered == "any"     \* an absent filter
ASSUME WikiAssumption == \A p \in Page : Unfiltered \notin {Filed[p].kind, Filed[p].space}

VARIABLES
  pages,      \* [kind, space, status, dirty, review]: review when a revision waits for a signature
  inked,      \* the version of the pinned prose in the current revision, 0 when there is none
  drafted,    \* the version in the waiting revision
  prose,      \* document_sections.pinned_content, by version; 1 is the first
  before,     \* what each editor last had before them: a version
  saving,     \* each editor's edit in the server: the version it read there, 0 when none
  replaced,   \* versions overwritten, each with what the writer had seen and read
  reads,      \* document_reads
  saves       \* versions given so far
wikiVars == <<pages, inked, drafted, prose, before, saving, replaced, reads, saves>>

wiki == <<pages, inked, drafted>>
editing == <<prose, before, saving, replaced, saves>>

WikiInit ==
  /\ pages = [p \in Page |-> [kind |-> Filed[p].kind, space |-> Filed[p].space, status |-> "draft", dirty |-> TRUE, review |-> FALSE]]
  /\ inked = [p \in Page |-> 0] /\ drafted = [p \in Page |-> 0]
  /\ prose = [p \in Page |-> 1] /\ before = [e \in Editor |-> [page |-> CHOOSE p \in Page : TRUE, seen |-> 0]]
  /\ saving = [e \in Editor |-> 0] /\ replaced = {} /\ reads = [p \in Page |-> 0] /\ saves = 1

-----------------------------------------------------------------------------
\* The browse and its menu.

Dims == {"kind", "space", "status"}
Tab == {BOOLEAN, {TRUE}, {FALSE}}         \* a boolean filter: unset, or one of its values
PageFilters == [kind : {Filed[p].kind : p \in Page} \union {Unfiltered}, space : {Filed[p].space : p \in Page} \union {Unfiltered}, status : {"draft", "published", Unfiltered},
                review : Tab, stale : Tab]

Selects(f, p) ==
  /\ \A d \in Dims : f[d] = Unfiltered \/ pages[p][d] = f[d]
  /\ pages[p].review \in f.review /\ pages[p].dirty \in f.stale
Browse(f) == {p \in Page : Selects(f, p)}

Masked(f, d) == [f EXCEPT ![d] = Unfiltered]
MenuOf(f, d) == {[value |-> v, count |-> Cardinality({p \in Browse(Masked(f, d)) : pages[p][d] = v})] :
                   v \in {pages[p][d] : p \in Browse(Masked(f, d))}}

-----------------------------------------------------------------------------
\* The life of a page, as far as readers see it.

MarkDirty(p) ==
  /\ ~ pages[p].dirty /\ pages' = [pages EXCEPT ![p].dirty = TRUE]
  /\ UNCHANGED <<inked, drafted, editing, reads>>
Compose(p, signed) ==
  /\ pages[p].dirty
  /\ IF signed THEN /\ inked' = [inked EXCEPT ![p] = prose[p]] /\ UNCHANGED drafted
                    /\ pages' = [pages EXCEPT ![p].dirty = FALSE, ![p].status = "published"]
     ELSE /\ drafted' = [drafted EXCEPT ![p] = prose[p]] /\ UNCHANGED inked
          /\ pages' = [pages EXCEPT ![p].dirty = FALSE, ![p].review = TRUE]
  /\ UNCHANGED <<editing, reads>>
SignRevision(p) ==
  /\ pages[p].review
  /\ pages' = [pages EXCEPT ![p].review = FALSE, ![p].status = "published"]
  /\ inked' = [inked EXCEPT ![p] = drafted[p]]
  /\ UNCHANGED <<drafted, editing, reads>>

-----------------------------------------------------------------------------
\* Reading.  The console shows the current revision, or the waiting one of a page
\* that has none; a read is counted when there was something to show.

Counted(n) == IF n < 1 THEN n + 1 ELSE n
Shown(p) == IF inked[p] # 0 THEN inked[p] ELSE IF pages[p].review THEN drafted[p] ELSE 0

DocGet(e, p) ==
  /\ saving[e] = 0
  /\ before' = [before EXCEPT ![e] = [page |-> p, seen |-> Shown(p)]]
  /\ reads' = [reads EXCEPT ![p] = IF Shown(p) # 0 THEN Counted(@) ELSE @]
  /\ UNCHANGED <<wiki, prose, saving, replaced, saves>>

\* An agent finds published pages only, and is served the current revision only.
AgentDocGet(p) ==
  /\ pages[p].status = "published" /\ inked[p] # 0 /\ reads' = [reads EXCEPT ![p] = Counted(@)] /\ reads' # reads
  /\ UNCHANGED <<wiki, editing>>

-----------------------------------------------------------------------------
\* Editing a pinned section: the request reads the section, then saves if the
\* stored prose is still what it read, and the page is marked.

ReadSection(e) ==
  /\ saving[e] = 0 /\ before[e].seen # 0
  /\ saving' = [saving EXCEPT ![e] = prose[before[e].page]]
  /\ UNCHANGED <<wiki, prose, before, replaced, saves, reads>>

AnyVersion(e) == TRUE                       \* Mutant: the last writer wins.
Unchanged(e) == prose[before[e].page] = saving[e]

UpdatePinned(e) ==
  /\ saving[e] # 0 /\ Unchanged(e) /\ saves < MaxSave
  /\ LET p == before[e].page IN
       /\ prose' = [prose EXCEPT ![p] = saves + 1]
       /\ pages' = [pages EXCEPT ![p].dirty = TRUE]
       /\ replaced' = replaced \union {[page |-> p, old |-> prose[p], read |-> saving[e], seen |-> before[e].seen]}
       /\ before' = [before EXCEPT ![e].seen = saves + 1]
  /\ saves' = saves + 1 /\ saving' = [saving EXCEPT ![e] = 0]
  /\ UNCHANGED <<inked, drafted, reads>>

\* 409: "this section changed since you loaded it".
Conflict(e) ==
  /\ saving[e] # 0 /\ ~ Unchanged(e) /\ saving' = [saving EXCEPT ![e] = 0]
  /\ UNCHANGED <<wiki, prose, before, replaced, saves, reads>>

WikiNext ==
  \/ \E p \in Page : MarkDirty(p) \/ SignRevision(p) \/ AgentDocGet(p) \/ \E signed \in BOOLEAN : Compose(p, signed)
  \/ \E e \in Editor : ReadSection(e) \/ UpdatePinned(e) \/ Conflict(e) \/ \E p \in Page : DocGet(e, p)
WikiSpec == WikiInit /\ [][WikiNext]_wikiVars

-----------------------------------------------------------------------------
\* An option of the wiki's menu leads to as many pages as it says under every
\* combination of the other filters, and every page is behind an option; asked before
\* anybody reads or edits, which the browse does not look at.
DirectoryIsWhole ==
  replaced = {} /\ (\A p \in Page : reads[p] = 0) /\ (\A e \in Editor : before[e].seen = 0) => \A f \in PageFilters : \A d \in Dims :
    /\ \A o \in MenuOf(f, d) : Cardinality(Browse([f EXCEPT ![d] = o.value])) = o.count
    /\ \A p \in Browse(Masked(f, d)) : \E o \in MenuOf(f, d) : p \in Browse([f EXCEPT ![d] = o.value])

\* Of two saves that read the same prose one is refused, whatever else happens
\* between their statements (documents.rs update_pinned).
OverlapIsRefused == \A r, s \in replaced : r.page = s.page /\ r.read = s.read => r = s

\* Nobody's prose is replaced by someone who has not seen it (docs.rs doc_edit: "a
\* second editor of the same section is told (409) instead of silently overwriting
\* the first's save").
SeenBeforeReplaced == \A r \in replaced : r.seen >= r.old
=============================================================================
