-------------------------------- MODULE Journal --------------------------------
(***************************************************************************)
(* Doc of docmodel.rs: the journal of commands, the cursor that undo and   *)
(* redo move, the snapshots an undo is rebuilt from, and the tables of     *)
(* bodies (marks, versions of text, imported selections) that the commands *)
(* name by number.                                                         *)
(*                                                                         *)
(* One action is one call made under the lock of edits.rs.  A call that is *)
(* refused changes nothing, and is written out only where the code could   *)
(* have filled a table before it was refused.                              *)
(***************************************************************************)
EXTENDS Working

CONSTANTS SnapshotEvery,    \* SNAPSHOT_EVERY
          MaxTextVersions,  \* MAX_TEXT_VERSIONS
          MaxChanges,       \* MAX_CHANGES
          Words, Original,  \* what a page's text is replaced by, and what it was
          Picks,            \* the imports offered: files and pages of them
          Sweeps,           \* the gestures of the eraser
          MaxEdits          \* bound: edits accepted

ASSUME JournalAssumption ==
    /\ SnapshotEvery \in Nat \ {0} /\ MaxTextVersions \in Nat
    /\ MaxChanges \in Nat /\ MaxEdits \in Nat
    /\ Original \notin Words /\ None \notin Sweeps
    /\ \A pick \in Picks : /\ pick.pages \in Seq(Nat) /\ pick.pages # <<>>
                           /\ IsInjective(pick.pages)

VARIABLES
    now,        \* the working document
    journal,    \* entries: a command and the gesture it belongs to, if any
    cursor,     \* how many of them are applied
    snapshots,  \* working documents, by the cursor they were taken at
    bodies,     \* the tables the commands name
    next,       \* the next number of each kind
    edits       \* bound: edits accepted so far

vars == <<now, journal, cursor, snapshots, bodies, next, edits>>

Init ==
    /\ now = BaselineDocument
    /\ journal = <<>> /\ cursor = 0 /\ snapshots = Empty
    /\ bodies = [marks |-> {}, notes |-> {}, inks |-> {}, redactions |-> {},
                 text |-> Empty, selections |-> Empty, sources |-> Empty]
    /\ next = [page |-> Baseline + 1, mark |-> 1, note |-> 1, ink |-> 1,
               redaction |-> 1, text |-> 1, selection |-> 1, source |-> 1]
    /\ edits = 0

-----------------------------------------------------------------------------
\* apply_in.

\* mutant of Discarded: the bodies of the redo tail are kept
NothingDiscarded == <<>>

\* The redo tail, which the next edit gives up.
Discarded == SubSeq(journal, cursor + 1, Len(journal))

\* The bodies of one kind that the commands of some entries name.
NamedBy(entries, kinds, body(_)) ==
    {body(e.cmd) : e \in {f \in Range(entries) : f.cmd.kind \in kinds}}

MarksOf(entries) == NamedBy(entries, {"annotate"}, LAMBDA c : c.mark)
NotesOf(entries) == NamedBy(entries, {"annotate"}, LAMBDA c : c.note)
InksOf(entries) == NamedBy(entries, {"reink"}, LAMBDA c : c.ink)
RedactionsOf(entries) == NamedBy(entries, {"redact"}, LAMBDA c : c.redaction)
TextOf(entries) == NamedBy(entries, {"replaceText"}, LAMBDA c : c.version) \ {None}
SelectionsOf(entries) == NamedBy(entries, {"import"}, LAMBDA c : c.selection)

SourcesNamed(selections) == {selections[s].source : s \in DOMAIN selections}

\* mutant of Pruned: an import goes when its pages are deleted
PrunedToLive(b) ==
    LET kept == {s \in DOMAIN b.selections : \E i \in DOMAIN b.selections[s].pages :
                    b.selections[s].pages[i].id \notin now.graves}
    IN  [b EXCEPT !.marks = @ \ MarksOf(Discarded),
                  !.notes = @ \ NotesOf(Discarded),
                  !.inks = @ \ InksOf(Discarded),
                  !.redactions = @ \ RedactionsOf(Discarded),
                  !.text = But(@, TextOf(Discarded)),
                  !.selections = Restrict(@, kept)]

\* The bodies of the redo tail go with it, and the files no selection that is
\* left names.
Pruned(b) ==
    LET selections == But(b.selections, SelectionsOf(Discarded))
    IN  [marks |-> b.marks \ MarksOf(Discarded),
         notes |-> b.notes \ NotesOf(Discarded),
         inks |-> b.inks \ InksOf(Discarded),
         redactions |-> b.redactions \ RedactionsOf(Discarded),
         text |-> But(b.text, TextOf(Discarded)),
         selections |-> selections,
         sources |-> Restrict(b.sources, SourcesNamed(selections))]

\* mutant of Kept: the snapshots of the redo tail stay
AllKept == snapshots

Kept == Restrict(snapshots, {at \in DOMAIN snapshots : at <= cursor})

\* A command is applied, or refused with the bodies it brought already in.
Apply(c, sweep, b) ==
    /\ edits < MaxEdits
    /\ IF Accepts(now, c, b.selections)
       THEN /\ now' = Effect(now, c, b.selections)
            /\ bodies' = Pruned(b)
            /\ journal' = Append(SubSeq(journal, 1, cursor),
                                 [cmd |-> c, sweep |-> sweep])
            /\ cursor' = cursor + 1
            /\ snapshots' = IF cursor' % SnapshotEvery = 0
                            THEN With(Kept, cursor', now')
                            ELSE Kept
            /\ edits' = edits + 1
       ELSE /\ bodies' = b
            /\ UNCHANGED <<now, journal, cursor, snapshots, edits>>

-----------------------------------------------------------------------------
\* The edits.  A page, a mark or a redaction is named by any number ever issued.

Issued(kind) == 1..next[kind] - 1
Anchor == {None} \cup Issued("page")

Rotate(p, turns) ==
    /\ Apply([kind |-> "rotate", page |-> p, turns |-> turns], None, bodies)
    /\ UNCHANGED next

Delete(p) ==
    /\ Apply([kind |-> "delete", page |-> p], None, bodies)
    /\ UNCHANGED next

MovePage(p, after) ==
    /\ Apply([kind |-> "move", page |-> p, after |-> after], None, bodies)
    /\ UNCHANGED next

Insert(after) ==
    /\ Anchored(now, after)
    /\ next' = [next EXCEPT !.page = @ + 1]
    /\ Apply([kind |-> "insert", page |-> next.page, after |-> after], None, bodies)

\* mutant of MayImport: the text of a page placed before is not looked at
MayImportAnything(file, numbers) == TRUE

KnownAs(file) == {s \in DOMAIN bodies.sources : bodies.sources[s] = file}

\* A page of a file whose text was replaced is not placed a second time.
MayImport(file, numbers) ==
    \A s \in KnownAs(file) : EditedPagesOf(now, s) \cap Range(numbers) = {}

\* A file imported from before keeps its number.
Import(after, file, numbers) ==
    LET known == KnownAs(file)
        s == IF known = {} THEN next.source ELSE CHOOSE k \in known : TRUE
        placed == [i \in DOMAIN numbers |->
                      [id |-> next.page + i - 1, page |-> numbers[i]]]
        selection == [source |-> s, pages |-> placed]
    IN  /\ Anchored(now, after)
        /\ MayImport(file, numbers)
        /\ next' = [next EXCEPT !.page = @ + Len(numbers), !.selection = @ + 1,
                                !.source = IF known = {} THEN @ + 1 ELSE @]
        /\ Apply([kind |-> "import", selection |-> next.selection, after |-> after],
                 None,
                 [bodies EXCEPT !.selections = With(@, next.selection, selection),
                                !.sources = With(@, s, file)])

\* A page made here has no text to replace, and one placed twice would take
\* the replacement in both places.
TextIsReplaceable(p) ==
    /\ now.pages[p].kind # "blank"
    /\ now.pages[p].kind = "imported" =>
          PlacementsOf(now, now.pages[p].source, now.pages[p].page) <= 1

\* The versions of the redo tail make room as they go.
TextHistoryHasRoom ==
    Cardinality(DOMAIN bodies.text) - Cardinality(TextOf(Discarded))
        < MaxTextVersions

ReplaceText(p, word) ==
    LET edited == p \in DOMAIN now.text
        command(v) == [kind |-> "replaceText", page |-> p, version |-> v]
    IN  /\ Live(now, p) /\ DOMAIN now.redactions = {}
        /\ TextIsReplaceable(p)
        /\ edited => bodies.text[now.text[p]] # word
        /\ \/ /\ word = Original /\ edited
              /\ Apply(command(None), None, bodies)
              /\ UNCHANGED next
           \/ /\ word # Original
              /\ edited \/ Cardinality(TextChanges(now)) < MaxChanges
              /\ TextHistoryHasRoom
              /\ next' = [next EXCEPT !.text = @ + 1]
              /\ Apply(command(next.text), None,
                       [bodies EXCEPT !.text = With(@, next.text, word)])

Annotate(p, sweep) ==
    /\ Live(now, p)
    /\ next' = [next EXCEPT !.mark = @ + 1, !.note = @ + 1]
    /\ Apply([kind |-> "annotate", mark |-> next.mark, page |-> p,
              note |-> next.note], sweep,
             [bodies EXCEPT !.marks = @ \cup {next.mark},
                            !.notes = @ \cup {next.note}])

Unannotate(m, sweep) ==
    /\ Apply([kind |-> "unannotate", mark |-> m], sweep, bodies)
    /\ UNCHANGED next

Reink(m, sweep) ==
    /\ LiveMark(now, m)
    /\ next' = [next EXCEPT !.ink = @ + 1]
    /\ Apply([kind |-> "reink", mark |-> m, ink |-> next.ink], sweep,
             [bodies EXCEPT !.inks = @ \cup {next.ink}])

\* mutant of MayRedact: replaced text is looked for on the same page only
MayRedactElsewhere(p) ==
    /\ p \notin TextChanges(now)
    /\ Live(now, p) /\ now.pages[p].kind = "baseline"

MayRedact(p) ==
    /\ TextChanges(now) = {}
    /\ Live(now, p) /\ now.pages[p].kind = "baseline"

Redact(p) ==
    /\ MayRedact(p)
    /\ next' = [next EXCEPT !.redaction = @ + 1]
    /\ Apply([kind |-> "redact", redaction |-> next.redaction, page |-> p], None,
             [bodies EXCEPT !.redactions = @ \cup {next.redaction}])

Unredact(r) ==
    /\ Apply([kind |-> "unredact", redaction |-> r], None, bodies)
    /\ UNCHANGED next

-----------------------------------------------------------------------------
\* Undo and redo.

\* Entries k and k + 1 belong to one gesture.
Grouped(k) == journal[k].sweep = journal[k + 1].sweep /\ journal[k].sweep # None

\* mutant of Stops: a press moves by one command
EveryEntry == 0..Len(journal)

\* Where a press may leave the cursor.
Stops == {k \in 0..Len(journal) : k \in 1..Len(journal) - 1 => ~Grouped(k)}

Replayed(w, from, upto) ==
    LET after[k \in from..upto] ==
            IF k = from THEN w ELSE Effect(after[k - 1], journal[k].cmd, bodies.selections)
    IN  after[upto]

Nearest(upto) == Max({0} \cup {at \in DOMAIN snapshots : at <= upto})

Rebuilt(upto) ==
    LET from == Nearest(upto)
    IN  Replayed(IF from \in DOMAIN snapshots THEN snapshots[from]
                 ELSE BaselineDocument, from, upto)

\* The code panics should a command be refused on the way: see
\* NoReplayIsRefused.
Undo ==
    /\ cursor > 0
    /\ cursor' = Max({k \in Stops : k < cursor})
    /\ now' = Rebuilt(cursor')
    /\ UNCHANGED <<journal, snapshots, bodies, next, edits>>

Redo ==
    /\ cursor < Len(journal)
    /\ cursor' = Min({k \in Stops : k > cursor})
    /\ now' = Replayed(now, cursor, cursor')
    /\ UNCHANGED <<journal, snapshots, bodies, next, edits>>

Next ==
    \/ \E p \in Issued("page") :
          \/ Rotate(p, 1) \/ Delete(p) \/ Redact(p)
          \/ \E after \in Anchor : MovePage(p, after)
          \/ \E word \in Words \cup {Original} : ReplaceText(p, word)
          \/ \E sweep \in Sweeps \cup {None} : Annotate(p, sweep)
    \/ \E after \in Anchor :
          Insert(after) \/ \E pick \in Picks : Import(after, pick.file, pick.pages)
    \/ \E m \in Issued("mark"), sweep \in Sweeps \cup {None} :
          Unannotate(m, sweep) \/ Reink(m, sweep)
    \/ \E r \in Issued("redaction") : Unredact(r)
    \/ Undo \/ Redo

Spec == Init /\ [][Next]_vars

-----------------------------------------------------------------------------
\* What the document model promises.

\* The document after the first k commands, replayed from the file.
DocumentAt[k \in 0..Len(journal)] ==
    IF k = 0 THEN BaselineDocument
    ELSE Effect(DocumentAt[k - 1], journal[k].cmd, bodies.selections)

\* The tables have their types and fit together: the order is the live pages,
\* once each; marks and redactions are on live pages, a mark has a note exactly
\* while it is on a page, and what is buried is not alive (docmodel.rs:1862 and
\* the comments of the fields of Working).
TypeOK ==
    /\ cursor \in 0..Len(journal) /\ edits \in 0..MaxEdits
    /\ now.order # <<>> /\ IsInjective(now.order)
    /\ DOMAIN now.pages = Range(now.order) /\ DOMAIN now.turns = DOMAIN now.pages
    /\ now.graves \cap DOMAIN now.pages = {}
    /\ Range(now.marks) \cup Range(now.redactions) \subseteq DOMAIN now.pages
    /\ DOMAIN now.notes = DOMAIN now.marks /\ DOMAIN now.inks \subseteq DOMAIN now.marks
    /\ now.markGraves \cap DOMAIN now.marks = {}
    /\ now.redactionGraves \cap DOMAIN now.redactions = {}
    /\ DOMAIN now.text \subseteq DOMAIN now.pages \cup now.graves

\* No command of the journal, the redo tail included, would be refused where it
\* is replayed: rebuild and step panic on one (docmodel.rs:4214, 4239).
NoReplayIsRefused ==
    \A k \in 1..Len(journal) :
        Accepts(DocumentAt[k - 1], journal[k].cmd, bodies.selections)

\* The snapshots are those of the multiples of SNAPSHOT_EVERY within the
\* journal, so that a rebuild replays less than SNAPSHOT_EVERY commands, and
\* each is the document the journal describes, whatever tails were given up
\* since it was taken (docmodel.rs:45-46, 4140-4143).
SnapshotsServeReplay ==
    /\ DOMAIN snapshots = {k \in 1..Len(journal) : k % SnapshotEvery = 0}
    /\ \A k \in DOMAIN snapshots : snapshots[k] = DocumentAt[k]

\* A body is kept exactly while a command of the journal names it, applied or
\* waiting to be redone, and a file while a selection does: nothing leaks over
\* annotate, undo and annotate again, no refused call leaves one behind, and
\* none is gone that a redo would need (docmodel.rs:4071-4073).
BodiesMatchJournal ==
    /\ bodies.marks = MarksOf(journal) /\ bodies.notes = NotesOf(journal)
    /\ bodies.inks = InksOf(journal)
    /\ bodies.redactions = RedactionsOf(journal)
    /\ DOMAIN bodies.text = TextOf(journal)
    /\ DOMAIN bodies.selections = SelectionsOf(journal)
    /\ DOMAIN bodies.sources = SourcesNamed(bodies.selections)

\* A page of another file whose text was replaced stands in one place only,
\* over imports, deletions and undo: the writer would put the replacement in
\* every place (docmodel.rs, replace_text and import).
EditedImportIsPlacedOnce ==
    \A p \in TextChanges(now) : now.pages[p].kind = "imported" =>
        PlacementsOf(now, now.pages[p].source, now.pages[p].page) = 1

\* Replaced text and regions to be removed are never both pending, in whatever
\* order pages are deleted and brought back (docmodel.rs, replace_text and
\* redact).
TextOrRedactions == TextChanges(now) = {} \/ DOMAIN now.redactions = {}

\* Undo and redo are those of UndoHistory: replay from the nearest snapshot
\* brings back every earlier state exactly, redo every later one, a gesture is
\* one press in both directions, and a new edit gives up what was ahead
\* (docmodel.rs:30-46, 4153-4159).
StateAt == [k \in 0..Len(journal) |->
               [document |-> DocumentAt[k],
                gesture |-> IF k = 0 THEN None ELSE journal[k].sweep]]

\* The k-th of some numbers, in ascending order, and what stands there.
Nth(S, k) == CHOOSE i \in {j \in S : Cardinality({l \in S : l < j}) = k - 1} : TRUE

InOrder(S, states) == [k \in 1..Cardinality(S) |-> states[Nth(S, k)]]

TrueStops == {k \in 0..Len(journal) : k \in 1..Len(journal) - 1 => ~Grouped(k)}

History == INSTANCE UndoHistory
    WITH Opened <- [document |-> BaselineDocument, gesture |-> None],
         NoGesture <- None,
         past <- InOrder({k \in TrueStops : k < cursor}, StateAt),
         present <- [document |-> now,
                     gesture |-> IF cursor = 0 THEN None ELSE journal[cursor].sweep],
         ahead <- InOrder({k \in TrueStops : k > cursor}, StateAt)

ImplementsUndoHistory == History!Spec
=============================================================================
