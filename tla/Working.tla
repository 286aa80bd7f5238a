-------------------------------- MODULE Working --------------------------------
(***************************************************************************)
(* The working document of docmodel.rs and the commands that change it:    *)
(* Accepts is what Working::apply checks, Effect what it then does.        *)
(*                                                                         *)
(* Pages, marks, redactions and versions of their contents are numbered,   *)
(* and 0 names none of them.  Renote, Recolor and Refit differ from Reink  *)
(* in the table they write, and are not repeated; crops, form answers and  *)
(* what is done to the file's own comments and fields are left out.        *)
(***************************************************************************)
EXTENDS Naturals, Sequences, FiniteSets, SequencesExt, Functions

CONSTANT Baseline       \* the pages of the file that was opened

ASSUME BaselineAssumption == Baseline \in Nat \ {0}

None == 0
Empty == [x \in {} |-> 0]

\* Where a page comes from: the opened file, nowhere, or an imported file.
FilePage(n) == [kind |-> "baseline", source |-> None, page |-> n]
Blank == [kind |-> "blank", source |-> None, page |-> None]
ImportedPage(s, n) == [kind |-> "imported", source |-> s, page |-> n]

BaselineDocument ==
    [order |-> [n \in 1..Baseline |-> n],
     pages |-> [n \in 1..Baseline |-> FilePage(n)],
     turns |-> [n \in 1..Baseline |-> 0],
     graves |-> {},
     marks |-> Empty,           \* the page a mark is on
     markGraves |-> {},
     notes |-> Empty,           \* the version of a mark's text
     inks |-> Empty,            \* the version of its strokes, once changed
     redactions |-> Empty,      \* the page a pending redaction is on
     redactionGraves |-> {},
     text |-> Empty]            \* the version of a page's replaced text

-----------------------------------------------------------------------------
Live(w, p) == p \in DOMAIN w.pages
LiveMark(w, m) == m \in DOMAIN w.marks
LiveRedaction(w, r) == r \in DOMAIN w.redactions

On(table, p) == {x \in DOMAIN table : table[x] = p}
But(f, S) == Restrict(f, DOMAIN f \ S)

\* g, and over it what f has; the table with one entry more, or another.
Over(f, g) == [x \in DOMAIN f \cup DOMAIN g |-> IF x \in DOMAIN f THEN f[x] ELSE g[x]]
With(table, x, e) == Over([y \in {x} |-> e], table)

PlacementsOf(w, s, n) == Cardinality({p \in DOMAIN w.pages :
                                         w.pages[p] = ImportedPage(s, n)})

EditedPagesOf(w, s) ==
    {w.pages[p].page : p \in {q \in DOMAIN w.text :
                                 /\ Live(w, q)
                                 /\ w.pages[q].kind = "imported"
                                 /\ w.pages[q].source = s}}

\* text_changes: a replacement on a deleted page stays in the table unseen.
TextChanges(w) == {p \in DOMAIN w.text : Live(w, p)}

Position(order, p) == CHOOSE i \in 1..Len(order) : order[i] = p
After(order, anchor) == IF anchor = None THEN 0 ELSE Position(order, anchor)
Placed(order, at, ps) == SubSeq(order, 1, at) \o ps
                             \o SubSeq(order, at + 1, Len(order))
Without(order, p) == RemoveAt(order, Position(order, p))

-----------------------------------------------------------------------------
Anchored(w, anchor) == anchor = None \/ Live(w, anchor)

\* The checks of Working::apply, one arm per command.
Accepts(w, c, selections) ==
    CASE c.kind \in {"rotate", "replaceText", "annotate", "redact"} ->
            Live(w, c.page)
      [] c.kind = "delete" -> Live(w, c.page) /\ Len(w.order) # 1
      [] c.kind = "move" -> /\ Live(w, c.page) /\ Anchored(w, c.after)
                            /\ c.after # c.page
      [] c.kind = "insert" -> Anchored(w, c.after)
      [] c.kind = "import" -> /\ c.selection \in DOMAIN selections
                              /\ Anchored(w, c.after)
      [] c.kind \in {"unannotate", "reink"} -> LiveMark(w, c.mark)
      [] c.kind = "unredact" -> LiveRedaction(w, c.redaction)

\* Pages added after an anchor, unturned.
WithPages(w, after, ids, from) ==
    [w EXCEPT !.order = Placed(w.order, After(w.order, after), ids),
              !.pages = Over(from, @),
              !.turns = Over([p \in DOMAIN from |-> 0], @)]

\* forget_mark: the mark is buried and its versions go with it.
WithoutMarks(w, ms) ==
    [w EXCEPT !.marks = But(@, ms), !.markGraves = @ \cup ms,
              !.notes = But(@, ms), !.inks = But(@, ms)]

WithoutRedactions(w, rs) ==
    [w EXCEPT !.redactions = But(@, rs), !.redactionGraves = @ \cup rs]

\* mutant of WithoutPage: a page's redactions outlive it
WithoutPageOnly(w, p) ==
    [WithoutMarks(w, On(w.marks, p))
         EXCEPT !.order = Without(@, p), !.graves = @ \cup {p},
                !.pages = But(@, {p}), !.turns = But(@, {p})]

\* A deleted page takes its marks and redactions along; its replaced text stays.
WithoutPage(w, p) ==
    [WithoutRedactions(WithoutMarks(w, On(w.marks, p)), On(w.redactions, p))
         EXCEPT !.order = Without(@, p), !.graves = @ \cup {p},
                !.pages = But(@, {p}), !.turns = But(@, {p})]

Moved(order, p, after) ==
    LET rest == Without(order, p) IN Placed(rest, After(rest, after), <<p>>)

WithPageMoved(w, p, after) == [w EXCEPT !.order = Moved(@, p, after)]

Imported(selection) ==
    [p \in {selection.pages[i].id : i \in DOMAIN selection.pages} |->
        LET i == CHOOSE j \in DOMAIN selection.pages : selection.pages[j].id = p
        IN  ImportedPage(selection.source, selection.pages[i].page)]

\* The effect of a command that was accepted.
Effect(w, c, selections) ==
    CASE c.kind = "rotate" -> [w EXCEPT !.turns[c.page] = (@ + c.turns) % 4]
      [] c.kind = "delete" -> WithoutPage(w, c.page)
      [] c.kind = "move" -> WithPageMoved(w, c.page, c.after)
      [] c.kind = "insert" ->
            WithPages(w, c.after, <<c.page>>, [p \in {c.page} |-> Blank])
      [] c.kind = "import" ->
            LET s == selections[c.selection]
            IN  WithPages(w, c.after,
                          [i \in DOMAIN s.pages |-> s.pages[i].id], Imported(s))
      [] c.kind = "replaceText" ->
            [w EXCEPT !.text = IF c.version = None THEN But(@, {c.page})
                               ELSE With(@, c.page, c.version)]
      [] c.kind = "annotate" ->
            [w EXCEPT !.marks = With(@, c.mark, c.page),
                      !.notes = With(@, c.mark, c.note),
                      !.markGraves = @ \ {c.mark}]
      [] c.kind = "unannotate" -> WithoutMarks(w, {c.mark})
      [] c.kind = "reink" -> [w EXCEPT !.inks = With(@, c.mark, c.ink)]
      [] c.kind = "redact" ->
            [w EXCEPT !.redactions = With(@, c.redaction, c.page),
                      !.redactionGraves = @ \ {c.redaction}]
      [] c.kind = "unredact" -> WithoutRedactions(w, {c.redaction})
=============================================================================
