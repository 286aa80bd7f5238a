----------------------------- MODULE JournalProofs -----------------------------
(* The document model, for any document, any journal and any distance between
   snapshots: what is replayed is what was there, no command of the journal is
   refused on the way, the bodies are those the journal names, and the rules
   between edits hold in every document an undo or a redo can bring back.
   Then the journal beside the search, as MCJournal puts them together: each
   keeps its specification while the other moves. *)
EXTENDS MCJournal, TLAPS, SequenceTheorems, FiniteSetTheorems, WellFoundedInduction

-----------------------------------------------------------------------------
\* Replaying.

LEMMA LeastNumber ==
    ASSUME NEW S \in SUBSET Nat, S # {}
    PROVE  \E i \in S : \A k \in S : i <= k
<1>1. \E i \in S : \A k \in S : ~(<<k, i>> \in OpToRel(<, Nat))
  BY NatLessThanWellFounded, WFMin
<1>2. PICK i \in S : \A k \in S : ~(<<k, i>> \in OpToRel(<, Nat))
  BY <1>1
<1>3. \A k \in S : ~(k < i)
  BY <1>2 DEF OpToRel
<1> QED  BY <1>3

\* The documents from w on, when the commands from + 1 to upto of j are applied.
Steps(w, j, s, from, upto) ==
    CHOOSE after : after = [k \in from..upto |->
        IF k = from THEN w ELSE Effect(after[k - 1], j[k].cmd, s)]

\* What follows one rule from one start on is the same.
LEMMA OneRuleOneCourse ==
    ASSUME NEW a \in Nat, NEW b \in Nat, NEW f, NEW g, f[a] = g[a],
           \A k \in a..b : a < k /\ f[k - 1] = g[k - 1] => f[k] = g[k]
    PROVE  \A k \in a..b : f[k] = g[k]
<1> DEFINE Bad == {k \in Nat : k \in a..b /\ f[k] # g[k]}
<1>1. CASE Bad = {}
  BY <1>1
<1>2. CASE Bad # {}
  <2>1. PICK i \in Bad : \A k \in Bad : i <= k
    BY <1>2, LeastNumber
  <2>2. i \in a + 1..b
    BY <2>1
  <2>3. i - 1 \in a..b /\ i - 1 \notin Bad
    BY <2>1, <2>2
  <2>4. f[i - 1] = g[i - 1]
    BY <2>3
  <2> QED  BY <2>1, <2>2, <2>4
<1> QED  BY <1>1, <1>2

\* f is what entries j make of w, from one position of the journal to another.
IsCourse(f, w, j, s, from, upto) ==
    f = [k \in from..upto |-> IF k = from THEN w ELSE Effect(f[k - 1], j[k].cmd, s)]

\* A recursive definition says nothing before it has been shown to define
\* something: there is a course of any length.
LEMMA CourseExists ==
    ASSUME NEW w, NEW j, NEW s, NEW from \in Nat, NEW upto \in Nat, from <= upto
    PROVE  \E f : IsCourse(f, w, j, s, from, upto)
<1> DEFINE Runs(f, n) == IsCourse(f, w, j, s, from, n)
<1> DEFINE Bad == {n \in Nat : from <= n /\ ~\E f : Runs(f, n)}
<1>1. CASE Bad = {}
  BY <1>1
<1>2. CASE Bad # {}
  <2>1. PICK n \in Bad : \A k \in Bad : n <= k
    BY <1>2, LeastNumber
  <2>2. n # from
    <3>1. [k \in from..from |-> w] =
            [k \in from..from |-> IF k = from THEN w
                ELSE Effect([i \in from..from |-> w][k - 1], j[k].cmd, s)]
      OBVIOUS
    <3>2. Runs([k \in from..from |-> w], from)
      BY <3>1 DEF IsCourse
    <3> QED  BY <2>1, <3>2
  <2>3. n - 1 \in Nat /\ from <= n - 1 /\ n - 1 \notin Bad
    <3>1. n \in Nat /\ from <= n
      BY <2>1
    <3> HIDE DEF Bad
    <3> QED  BY <2>1, <2>2, <3>1
  <2>4. PICK f : Runs(f, n - 1)
    BY <2>3
  <2> DEFINE g == [k \in from..n |-> IF k = n THEN Effect(f[n - 1], j[n].cmd, s) ELSE f[k]]
  <2>5. ASSUME NEW k \in from..n
        PROVE  g[k] = IF k = from THEN w ELSE Effect(g[k - 1], j[k].cmd, s)
    <3>1. CASE k = n
      <4>1. g[n - 1] = f[n - 1]
        BY <2>3
      <4> QED  BY <2>2, <3>1, <4>1
    <3>2. CASE k # n /\ k = from
      <4>1. f[k] = w
        BY <2>3, <2>4, <3>2 DEF IsCourse
      <4> QED  BY <3>2, <4>1
    <3>3. CASE k # n /\ k # from
      <4>1. k \in from..n - 1 /\ k - 1 \in from..n - 1 /\ k - 1 # n
        BY <2>3, <3>3
      <4>2. f[k] = Effect(f[k - 1], j[k].cmd, s)
        BY <2>4, <3>3, <4>1 DEF IsCourse
      <4>3. g[k] = f[k] /\ g[k - 1] = f[k - 1]
        BY <3>3, <4>1
      <4> QED  BY <3>3, <4>2, <4>3
    <3> QED  BY <3>1, <3>2, <3>3
  <2>6. Runs(g, n)
    <3>1. g = [k \in from..n |-> g[k]]
      OBVIOUS
    <3> HIDE DEF g
    <3> QED  BY <2>5, <3>1 DEF IsCourse
  <2> QED  BY <2>1, <2>6
<1> QED  BY <1>1, <1>2

LEMMA StepsAre ==
    ASSUME NEW w, NEW j, NEW s, NEW from \in Nat, NEW upto \in Nat, from <= upto
    PROVE  /\ Steps(w, j, s, from, upto)[from] = w
           /\ \A k \in from + 1..upto :
                 Steps(w, j, s, from, upto)[k] =
                    Effect(Steps(w, j, s, from, upto)[k - 1], j[k].cmd, s)
<1> DEFINE f == Steps(w, j, s, from, upto)
<1>1. f = [k \in from..upto |-> IF k = from THEN w ELSE Effect(f[k - 1], j[k].cmd, s)]
  <2> DEFINE Runs(g) == IsCourse(g, w, j, s, from, upto)
  <2>1. \E g : Runs(g)
    BY CourseExists
  <2>2. f = CHOOSE g : Runs(g)
    BY DEF Steps, IsCourse
  <2> HIDE DEF f, Runs
  <2>3. Runs(f)
    BY <2>1, <2>2
  <2> QED  BY <2>3 DEF Runs, IsCourse
<1> HIDE DEF f
<1>2. \A k \in from..upto : f[k] = IF k = from THEN w ELSE Effect(f[k - 1], j[k].cmd, s)
  BY <1>1
<1>3. f[from] = w /\ \A k \in from + 1..upto : f[k] = Effect(f[k - 1], j[k].cmd, s)
  BY <1>2
<1> QED  BY <1>3 DEF f

LEMMA DocumentsAreSteps ==
    /\ DocumentAt = Steps(BaselineDocument, journal, bodies.selections, 0, Len(journal))
    /\ \A w, from, upto :
          Replayed(w, from, upto) = Steps(w, journal, bodies.selections, from, upto)[upto]
  BY DEF DocumentAt, Replayed, Steps

-----------------------------------------------------------------------------
\* The numbers a command enters, and the bodies they name.

Kinds == {"mark", "note", "ink", "redaction", "text", "selection"}

Brings(c, kind, n) ==
    \/ c.kind = "annotate" /\ kind = "mark" /\ n = c.mark
    \/ c.kind = "annotate" /\ kind = "note" /\ n = c.note
    \/ c.kind = "reink" /\ kind = "ink" /\ n = c.ink
    \/ c.kind = "redact" /\ kind = "redaction" /\ n = c.redaction
    \/ c.kind = "replaceText" /\ kind = "text" /\ n = c.version /\ n # None
    \/ c.kind = "import" /\ kind = "selection" /\ n = c.selection

IsNamed(entries, kind, n) == \E i \in DOMAIN entries : Brings(entries[i].cmd, kind, n)

InTable(b, kind, n) ==
    \/ kind = "mark" /\ n \in b.marks
    \/ kind = "note" /\ n \in b.notes
    \/ kind = "ink" /\ n \in b.inks
    \/ kind = "redaction" /\ n \in b.redactions
    \/ kind = "text" /\ n \in DOMAIN b.text
    \/ kind = "selection" /\ n \in DOMAIN b.selections

LEMMA NamesOf ==
    ASSUME NEW e, NEW n
    PROVE  /\ n \in MarksOf(e) <=> IsNamed(e, "mark", n)
           /\ n \in NotesOf(e) <=> IsNamed(e, "note", n)
           /\ n \in InksOf(e) <=> IsNamed(e, "ink", n)
           /\ n \in RedactionsOf(e) <=> IsNamed(e, "redaction", n)
           /\ n \in TextOf(e) <=> IsNamed(e, "text", n)
           /\ n \in SelectionsOf(e) <=> IsNamed(e, "selection", n)
<1> USE DEF NamedBy, Range, IsNamed, Brings
<1>1. n \in MarksOf(e) <=> IsNamed(e, "mark", n)
  BY DEF MarksOf
<1>2. n \in NotesOf(e) <=> IsNamed(e, "note", n)
  BY DEF NotesOf
<1>3. n \in InksOf(e) <=> IsNamed(e, "ink", n)
  BY DEF InksOf
<1>4. n \in RedactionsOf(e) <=> IsNamed(e, "redaction", n)
  BY DEF RedactionsOf
<1>5. n \in TextOf(e) <=> IsNamed(e, "text", n)
  BY DEF TextOf
<1>6. n \in SelectionsOf(e) <=> IsNamed(e, "selection", n)
  BY DEF SelectionsOf
<1> QED  BY <1>1, <1>2, <1>3, <1>4, <1>5, <1>6

LEMMA PrunedTable ==
    ASSUME NEW b, NEW kind \in Kinds, NEW n
    PROVE  InTable(Pruned(b), kind, n) <=>
              InTable(b, kind, n) /\ ~IsNamed(Discarded, kind, n)
<1>1. /\ Pruned(b).marks = b.marks \ MarksOf(Discarded)
      /\ Pruned(b).notes = b.notes \ NotesOf(Discarded)
      /\ Pruned(b).inks = b.inks \ InksOf(Discarded)
      /\ Pruned(b).redactions = b.redactions \ RedactionsOf(Discarded)
      /\ DOMAIN Pruned(b).text = DOMAIN b.text \ TextOf(Discarded)
      /\ DOMAIN Pruned(b).selections = DOMAIN b.selections \ SelectionsOf(Discarded)
  BY DEF Pruned, But, Restrict
<1> HIDE DEF Pruned
<1> QED  BY <1>1, NamesOf DEF InTable, Kinds

Command ==
    [kind : {"rotate"}, page : Nat, turns : Nat] \cup [kind : {"delete"}, page : Nat]
    \cup [kind : {"move"}, page : Nat, after : Nat] \cup [kind : {"insert"}, page : Nat, after : Nat]
    \cup [kind : {"import"}, selection : Nat, after : Nat]
    \cup [kind : {"replaceText"}, page : Nat, version : Nat]
    \cup [kind : {"annotate"}, mark : Nat, page : Nat, note : Nat]
    \cup [kind : {"unannotate"}, mark : Nat] \cup [kind : {"reink"}, mark : Nat, ink : Nat]
    \cup [kind : {"redact"}, redaction : Nat, page : Nat]
    \cup [kind : {"unredact"}, redaction : Nat]

Entry == [cmd : Command, sweep : Sweeps \cup {None}]
Numbers == [page : Nat \ {0}, mark : Nat \ {0}, note : Nat \ {0}, ink : Nat \ {0},
            redaction : Nat \ {0}, text : Nat \ {0}, selection : Nat \ {0}, source : Nat \ {0}]

IsBodies(b) ==
    b \in [marks : {b.marks}, notes : {b.notes}, inks : {b.inks}, redactions : {b.redactions},
           text : {b.text}, selections : {b.selections}, sources : {b.sources}]

Typed ==
    /\ journal \in Seq(Entry) /\ cursor \in 0..Len(journal)
    /\ next \in Numbers /\ IsBodies(bodies) /\ edits \in 0..MaxEdits

\* A number is issued once, so that one entry of the journal names it.
Issuing ==
    \A i \in DOMAIN journal, kind \in Kinds : \A n :
        Brings(journal[i].cmd, kind, n) =>
            /\ n \in Nat /\ n < next[kind]
            /\ \A k \in DOMAIN journal : Brings(journal[k].cmd, kind, n) => k = i

Matching ==
    /\ \A kind \in Kinds : \A n : InTable(bodies, kind, n) <=> IsNamed(journal, kind, n)
    /\ DOMAIN bodies.sources = SourcesNamed(bodies.selections)

\* What every edit has in common: the bodies it brings are those its command
\* names, with numbers not issued before, and none are left if it is refused.
Enters(c, b) ==
    /\ \A kind \in Kinds : \A n :
          InTable(b, kind, n) <=> InTable(bodies, kind, n) \/ Brings(c, kind, n)
    /\ \A kind \in Kinds : \A n :
          Brings(c, kind, n) => n = next[kind] /\ next'[kind] = n + 1
    /\ \A s \in DOMAIN bodies.selections : b.selections[s] = bodies.selections[s]
    /\ Accepts(now, c, b.selections) \/ b = bodies

Grows == next' \in Numbers /\ \A kind \in DOMAIN next : next[kind] <= next'[kind]

AnEdit(c, sweep, b) ==
    /\ Apply(c, sweep, b) /\ c \in Command /\ sweep \in Sweeps \cup {None}
    /\ IsBodies(b) /\ Enters(c, b) /\ Grows

LEMMA JournalAfter ==
    ASSUME Typed, NEW e \in Entry
    PROVE  LET j == Append(SubSeq(journal, 1, cursor), e)
           IN  /\ j \in Seq(Entry) /\ Len(j) = cursor + 1 /\ DOMAIN j = 1..cursor + 1
               /\ j[cursor + 1] = e /\ \A i \in 1..cursor : j[i] = journal[i]
               /\ DOMAIN Discarded = 1..Len(journal) - cursor
               /\ \A i \in 1..Len(journal) - cursor : Discarded[i] = journal[i + cursor]
<1> DEFINE p == SubSeq(journal, 1, cursor)
<1>1. journal \in Seq(Entry) /\ cursor \in Nat /\ Len(journal) \in Nat /\ cursor <= Len(journal)
  BY DEF Typed
<1>2. p \in Seq(Entry) /\ Len(p) = cursor /\ \A i \in 1..cursor : p[i] = journal[i]
  BY <1>1, SubSeqProperties
<1>3. /\ Discarded \in Seq(Entry) /\ Len(Discarded) = Len(journal) - cursor
      /\ \A i \in 1..Len(journal) - cursor : Discarded[i] = journal[i + cursor]
  BY <1>1, SubSeqProperties DEF Discarded
<1> HIDE DEF p
<1>4. /\ Append(p, e) \in Seq(Entry) /\ Len(Append(p, e)) = cursor + 1
      /\ Append(p, e)[cursor + 1] = e /\ \A i \in 1..cursor : Append(p, e)[i] = p[i]
  BY <1>1, <1>2, AppendProperties
<1> QED  BY <1>1, <1>2, <1>3, <1>4 DEF p

\* What an edit that is accepted does to the journal, and what stays of it.
Proceeds(c, sweep, b) ==
    /\ journal' \in Seq(Entry) /\ Len(journal') = cursor + 1
    /\ DOMAIN journal' = 1..cursor + 1 /\ DOMAIN journal = 1..Len(journal)
    /\ journal'[cursor + 1] = [cmd |-> c, sweep |-> sweep]
    /\ \A i \in 1..cursor : journal'[i] = journal[i]
    /\ cursor' = cursor + 1 /\ bodies' = Pruned(b) /\ edits' = edits + 1
    /\ now' = Effect(now, c, b.selections)
    /\ DOMAIN Discarded = 1..Len(journal) - cursor
    /\ \A i \in 1..Len(journal) - cursor : Discarded[i] = journal[i + cursor]

LEMMA Accepted ==
    ASSUME Typed, NEW c, NEW sweep, NEW b, AnEdit(c, sweep, b), Accepts(now, c, b.selections)
    PROVE  Proceeds(c, sweep, b)
<1> DEFINE e == [cmd |-> c, sweep |-> sweep]
<1>1. e \in Entry
  BY DEF AnEdit, Entry
<1>2. /\ journal' = Append(SubSeq(journal, 1, cursor), e)
      /\ cursor' = cursor + 1 /\ bodies' = Pruned(b) /\ edits' = edits + 1
      /\ now' = Effect(now, c, b.selections)
  BY DEF AnEdit, Apply
<1>3. DOMAIN journal = 1..Len(journal)
  BY DEF Typed
<1> HIDE DEF e
<1>4. /\ journal' \in Seq(Entry) /\ Len(journal') = cursor + 1 /\ DOMAIN journal' = 1..cursor + 1
      /\ journal'[cursor + 1] = e /\ \A i \in 1..cursor : journal'[i] = journal[i]
      /\ DOMAIN Discarded = 1..Len(journal) - cursor
      /\ \A i \in 1..Len(journal) - cursor : Discarded[i] = journal[i + cursor]
  BY <1>1, <1>2, JournalAfter
<1> QED  BY <1>2, <1>3, <1>4 DEF e, Proceeds

LEMMA Refused ==
    ASSUME NEW c, NEW sweep, NEW b, AnEdit(c, sweep, b), ~Accepts(now, c, b.selections)
    PROVE  UNCHANGED <<now, journal, cursor, snapshots, bodies, edits>>
  BY DEF AnEdit, Apply, Enters

LEMMA EditKeepsTypes ==
    ASSUME Typed, NEW c, NEW sweep, NEW b, AnEdit(c, sweep, b)
    PROVE  Typed'
<1>1. CASE Accepts(now, c, b.selections)
  <2>0. Proceeds(c, sweep, b)
    BY <1>1, Accepted
  <2>1. edits' \in 0..MaxEdits
    BY <2>0, JournalAssumption DEF Typed, AnEdit, Apply, Proceeds
  <2>2. IsBodies(Pruned(b))
    BY DEF IsBodies, Pruned
  <2> QED  BY <2>0, <2>1, <2>2 DEF Typed, AnEdit, Grows, IsBodies, Proceeds
<1>2. CASE ~Accepts(now, c, b.selections)
  BY <1>2, Refused DEF Typed, AnEdit, Grows, IsBodies
<1> QED  BY <1>1, <1>2

LEMMA EditKeepsIssuing ==
    ASSUME Typed, Issuing, NEW c, NEW sweep, NEW b, AnEdit(c, sweep, b)
    PROVE  Issuing'
<1>0. /\ \A kind \in Kinds : next[kind] \in Nat /\ next'[kind] \in Nat /\ next[kind] <= next'[kind]
      /\ \A kind \in Kinds : \A n : Brings(c, kind, n) => n = next[kind] /\ next'[kind] = n + 1
  BY DEF AnEdit, Enters, Grows, Typed, Numbers, Kinds
<1>1. CASE Accepts(now, c, b.selections)
  <2>0. Proceeds(c, sweep, b)
    BY <1>1, Accepted
  <2> SUFFICES ASSUME NEW i \in DOMAIN journal', NEW kind \in Kinds, NEW n,
                      Brings(journal'[i].cmd, kind, n)
               PROVE  /\ n \in Nat /\ n < next'[kind]
                      /\ \A k \in DOMAIN journal' : Brings(journal'[k].cmd, kind, n) => k = i
    BY DEF Issuing
  <2>1. \A k \in 1..cursor : Brings(journal'[k].cmd, kind, n) =>
            /\ Brings(journal[k].cmd, kind, n)
            /\ n \in Nat /\ n < next[kind]
            /\ \A l \in 1..cursor : Brings(journal'[l].cmd, kind, n) => l = k
    <3>1. \A k \in 1..cursor : k \in DOMAIN journal /\ journal'[k] = journal[k]
      BY <2>0 DEF Typed, Proceeds
    <3> QED  BY <3>1 DEF Issuing
  <2>2. Brings(journal'[cursor + 1].cmd, kind, n) => n = next[kind] /\ next'[kind] = n + 1
    BY <1>0, <2>0 DEF Proceeds
  <2>3. DOMAIN journal' = 1..cursor + 1 /\ cursor \in Nat
    BY <2>0 DEF Typed, Proceeds
  <2>4. CASE i \in 1..cursor
    <3>1. n \in Nat /\ n < next[kind]
      BY <2>1, <2>4
    <3> QED  BY <1>0, <2>1, <2>2, <2>3, <2>4, <3>1
  <2>5. CASE i = cursor + 1
    <3>1. n = next[kind] /\ next'[kind] = n + 1
      BY <2>2, <2>5
    <3> QED  BY <1>0, <2>1, <2>3, <2>5, <3>1
  <2> QED  BY <2>3, <2>4, <2>5
<1>2. CASE ~Accepts(now, c, b.selections)
  <2>1. journal' = journal
    BY <1>2, Refused
  <2> QED  BY <1>0, <2>1 DEF Issuing
<1> QED  BY <1>1, <1>2

\* What the journal names after an edit, and what its redo tail named before.
LEMMA NamedAfter ==
    ASSUME Typed, Issuing, NEW c, NEW sweep, NEW b, AnEdit(c, sweep, b),
           Accepts(now, c, b.selections), NEW kind \in Kinds, NEW n
    PROVE  /\ IsNamed(journal', kind, n) <=>
                (IsNamed(journal, kind, n) /\ ~IsNamed(Discarded, kind, n)) \/ Brings(c, kind, n)
           /\ Brings(c, kind, n) => ~IsNamed(journal, kind, n)
           /\ IsNamed(Discarded, kind, n) => IsNamed(journal, kind, n)
<1>0. Proceeds(c, sweep, b)
  BY Accepted
<1>1. cursor \in 0..Len(journal) /\ Len(journal) \in Nat /\ DOMAIN journal = 1..Len(journal)
  BY DEF Typed
<1>2. IsNamed(Discarded, kind, n) <=>
          \E i \in cursor + 1..Len(journal) : Brings(journal[i].cmd, kind, n)
  <2>1. ASSUME NEW i \in cursor + 1..Len(journal), Brings(journal[i].cmd, kind, n)
        PROVE  IsNamed(Discarded, kind, n)
    <3>1. i - cursor \in DOMAIN Discarded /\ Discarded[i - cursor] = journal[i]
      BY <1>0, <1>1 DEF Proceeds
    <3> QED  BY <2>1, <3>1 DEF IsNamed
  <2>2. ASSUME NEW i \in DOMAIN Discarded, Brings(Discarded[i].cmd, kind, n)
        PROVE  \E k \in cursor + 1..Len(journal) : Brings(journal[k].cmd, kind, n)
    <3>1. i + cursor \in cursor + 1..Len(journal) /\ Discarded[i] = journal[i + cursor]
      BY <1>0, <1>1 DEF Proceeds
    <3> QED  BY <2>2, <3>1
  <2> QED  BY <2>1, <2>2 DEF IsNamed
<1>3. IsNamed(journal', kind, n) <=>
          (\E i \in 1..cursor : Brings(journal[i].cmd, kind, n)) \/ Brings(c, kind, n)
  <2>1. /\ DOMAIN journal' = 1..cursor + 1 /\ journal'[cursor + 1].cmd = c
        /\ \A i \in 1..cursor : journal'[i] = journal[i]
    BY <1>0 DEF Proceeds
  <2>2. 1..cursor + 1 = 1..cursor \cup {cursor + 1}
    BY <1>1
  <2> QED  BY <2>1, <2>2 DEF IsNamed
<1>4. IsNamed(journal, kind, n) <=>
          \/ \E i \in 1..cursor : Brings(journal[i].cmd, kind, n)
          \/ \E i \in cursor + 1..Len(journal) : Brings(journal[i].cmd, kind, n)
  BY <1>1 DEF IsNamed
<1>5. ~((\E i \in 1..cursor : Brings(journal[i].cmd, kind, n))
        /\ \E i \in cursor + 1..Len(journal) : Brings(journal[i].cmd, kind, n))
  <2> SUFFICES ASSUME NEW i \in 1..cursor, NEW k \in cursor + 1..Len(journal),
                      Brings(journal[i].cmd, kind, n), Brings(journal[k].cmd, kind, n)
               PROVE  FALSE
    OBVIOUS
  <2>1. i \in DOMAIN journal /\ k \in DOMAIN journal /\ i # k
    BY <1>1
  <2> QED  BY <2>1 DEF Issuing
<1>6. Brings(c, kind, n) => ~IsNamed(journal, kind, n)
  <2>1. Brings(c, kind, n) => n = next[kind]
    BY DEF AnEdit, Enters
  <2>2. IsNamed(journal, kind, n) => n \in Nat /\ n < next[kind]
    BY DEF Issuing, IsNamed
  <2> QED  BY <2>1, <2>2
<1> QED  BY <1>2, <1>3, <1>4, <1>5, <1>6

LEMMA EditKeepsMatching ==
    ASSUME Typed, Issuing, Matching, NEW c, NEW sweep, NEW b, AnEdit(c, sweep, b)
    PROVE  Matching'
<1>1. CASE Accepts(now, c, b.selections)
  <2>0. Proceeds(c, sweep, b)
    BY <1>1, Accepted
  <2>1. ASSUME NEW kind \in Kinds, NEW n
        PROVE  InTable(bodies', kind, n) <=> IsNamed(journal', kind, n)
    <3>1. InTable(bodies', kind, n) <=> InTable(b, kind, n) /\ ~IsNamed(Discarded, kind, n)
      <4>1. bodies' = Pruned(b)
        BY <2>0 DEF Proceeds
      <4>2. InTable(bodies', kind, n) <=> InTable(Pruned(b), kind, n)
        BY <4>1 DEF InTable
      <4> QED  BY <4>2, PrunedTable
    <3>2. InTable(b, kind, n) <=> InTable(bodies, kind, n) \/ Brings(c, kind, n)
      BY DEF AnEdit, Enters
    <3>3. InTable(bodies, kind, n) <=> IsNamed(journal, kind, n)
      BY DEF Matching
    <3> QED  BY <1>1, <3>1, <3>2, <3>3, NamedAfter
  <2>2. DOMAIN bodies'.sources = SourcesNamed(bodies'.selections)
    <3>1. DOMAIN Pruned(b).sources = SourcesNamed(Pruned(b).selections)
      BY DEF Pruned, Restrict
    <3> QED  BY <2>0, <3>1 DEF SourcesNamed, Proceeds
  <2> QED  BY <2>1, <2>2 DEF Matching, InTable, IsNamed, SourcesNamed
<1>2. CASE ~Accepts(now, c, b.selections)
  BY <1>2, Refused DEF Matching, InTable, IsNamed, SourcesNamed
<1> QED  BY <1>1, <1>2
-----------------------------------------------------------------------------
\* Which edits there are.

\* What an edit has seen to before its command is applied.
Allowed(c, b) ==
    /\ c.kind = "insert" => c.page = next.page /\ next'.page = next.page + 1
    /\ c.kind = "import" => \E n \in Nat \ {0} : LET x == b.selections[c.selection] IN
          /\ next'.page = next.page + n /\ DOMAIN x.pages = 1..n
          /\ \A i \in 1..n : x.pages[i].id = next.page + i - 1
          /\ \A i, k \in 1..n : x.pages[i].page = x.pages[k].page => i = k
          /\ x.source \in Nat /\ x.source < next'.source
          /\ \/ x.source = next.source
             \/ \A i \in 1..n : x.pages[i].page \notin EditedPagesOf(now, x.source)
    /\ c.kind = "replaceText" => TextIsReplaceable(c.page) /\ DOMAIN now.redactions = {}
    /\ c.kind = "redact" => TextChanges(now) = {}

Edited == \E c, sweep, b : AnEdit(c, sweep, b) /\ Allowed(c, b)

SourcesIssued == \A s \in DOMAIN bodies.sources : s \in Nat /\ s < next.source

LEMMA WithIs ==
    ASSUME NEW table, NEW x, NEW e
    PROVE  With(table, x, e) = [y \in DOMAIN table \cup {x} |-> IF y = x THEN e ELSE table[y]]
  BY DEF With, Over

\* A command that enters nothing is an edit as it stands.
LEMMA PlainEdit ==
    ASSUME Typed, NEW c \in Command, Apply(c, None, bodies), UNCHANGED next,
           \A kind \in Kinds : \A n : ~Brings(c, kind, n)
    PROVE  AnEdit(c, None, bodies)
<1>1. Enters(c, bodies)
  BY DEF Enters
<1>2. Grows
  BY DEF Grows, Typed, Numbers
<1> QED  BY <1>1, <1>2 DEF AnEdit, Typed

LEMMA Numbered ==
    ASSUME Typed
    PROVE  /\ \A kind \in DOMAIN next : next[kind] \in Nat \ {0}
           /\ next = [page |-> next.page, mark |-> next.mark, note |-> next.note,
                      ink |-> next.ink, redaction |-> next.redaction, text |-> next.text,
                      selection |-> next.selection, source |-> next.source]
           /\ next.page \in Nat \ {0} /\ next.mark \in Nat \ {0} /\ next.note \in Nat \ {0}
           /\ next.ink \in Nat \ {0} /\ next.redaction \in Nat \ {0} /\ next.text \in Nat \ {0}
           /\ next.selection \in Nat \ {0} /\ next.source \in Nat \ {0}
           /\ Issued("page") \subseteq Nat /\ Issued("mark") \subseteq Nat
           /\ Issued("redaction") \subseteq Nat /\ Anchor \subseteq Nat
  BY SMTT(30) DEF Typed, Numbers, Issued, Anchor, None

LEMMA RotateEdits ==
    ASSUME Typed, NEW p \in Issued("page"), Rotate(p, 1)
    PROVE  Edited
<1> DEFINE c == [kind |-> "rotate", page |-> p, turns |-> 1]
<1>1. c \in Command
  BY Numbered DEF Command
<1>2. \A kind \in Kinds : \A n : ~Brings(c, kind, n)
  BY DEF Brings
<1>3. AnEdit(c, None, bodies)
  BY <1>1, <1>2, PlainEdit DEF Rotate
<1>4. Allowed(c, bodies)
  BY DEF Allowed
<1> QED  BY <1>3, <1>4 DEF Edited

LEMMA DeleteEdits ==
    ASSUME Typed, NEW p \in Issued("page"), Delete(p)
    PROVE  Edited
<1> DEFINE c == [kind |-> "delete", page |-> p]
<1>1. c \in Command
  BY Numbered DEF Command
<1>2. \A kind \in Kinds : \A n : ~Brings(c, kind, n)
  BY DEF Brings
<1>3. AnEdit(c, None, bodies)
  BY <1>1, <1>2, PlainEdit DEF Delete
<1>4. Allowed(c, bodies)
  BY DEF Allowed
<1> QED  BY <1>3, <1>4 DEF Edited

LEMMA MoveEdits ==
    ASSUME Typed, NEW p \in Issued("page"), NEW after \in Anchor, MovePage(p, after)
    PROVE  Edited
<1> DEFINE c == [kind |-> "move", page |-> p, after |-> after]
<1>1. c \in Command
  BY Numbered DEF Command
<1>2. \A kind \in Kinds : \A n : ~Brings(c, kind, n)
  BY DEF Brings
<1>3. AnEdit(c, None, bodies)
  BY <1>1, <1>2, PlainEdit DEF MovePage
<1>4. Allowed(c, bodies)
  BY DEF Allowed
<1> QED  BY <1>3, <1>4 DEF Edited

LEMMA UnredactEdits ==
    ASSUME Typed, NEW r \in Issued("redaction"), Unredact(r)
    PROVE  Edited
<1> DEFINE c == [kind |-> "unredact", redaction |-> r]
<1>1. c \in Command
  BY Numbered DEF Command
<1>2. \A kind \in Kinds : \A n : ~Brings(c, kind, n)
  BY DEF Brings
<1>3. AnEdit(c, None, bodies)
  BY <1>1, <1>2, PlainEdit DEF Unredact
<1>4. Allowed(c, bodies)
  BY DEF Allowed
<1> QED  BY <1>3, <1>4 DEF Edited

LEMMA UnannotateEdits ==
    ASSUME Typed, NEW m \in Issued("mark"), NEW sweep \in Sweeps \cup {None},
           Unannotate(m, sweep)
    PROVE  Edited
<1> DEFINE c == [kind |-> "unannotate", mark |-> m]
<1>1. c \in Command
  BY Numbered DEF Command
<1>2. \A kind \in Kinds : \A n : ~Brings(c, kind, n)
  BY DEF Brings
<1>3. Enters(c, bodies) /\ Grows
  BY <1>2 DEF Unannotate, Enters, Grows, Typed, Numbers
<1>4. AnEdit(c, sweep, bodies)
  BY <1>1, <1>3 DEF Unannotate, AnEdit, Typed
<1>5. Allowed(c, bodies)
  BY DEF Allowed
<1> QED  BY <1>4, <1>5 DEF Edited

LEMMA InsertEdits ==
    ASSUME Typed, NEW after \in Anchor, Insert(after)
    PROVE  Edited
<1> DEFINE c == [kind |-> "insert", page |-> next.page, after |-> after]
<1>1. c \in Command
  BY Numbered DEF Command
<1>2. \A kind \in Kinds : \A n : ~Brings(c, kind, n)
  BY DEF Brings
<1>3. next' = [next EXCEPT !.page = @ + 1]
  BY DEF Insert
<1>4. Grows
  BY <1>3, Numbered DEF Grows, Numbers
<1>5. Enters(c, bodies)
  BY <1>2 DEF Enters
<1>6. AnEdit(c, None, bodies)
  BY <1>1, <1>4, <1>5 DEF Insert, AnEdit, Typed
<1>7. Allowed(c, bodies)
  BY <1>3, Numbered DEF Allowed
<1> QED  BY <1>6, <1>7 DEF Edited
LEMMA AnnotateEdits ==
    ASSUME Typed, NEW p \in Issued("page"), NEW sweep \in Sweeps \cup {None},
           Annotate(p, sweep)
    PROVE  Edited
<1> DEFINE c == [kind |-> "annotate", mark |-> next.mark, page |-> p, note |-> next.note]
           b == [bodies EXCEPT !.marks = @ \cup {next.mark}, !.notes = @ \cup {next.note}]
<1>1. c \in Command
  BY Numbered DEF Command
<1>2. /\ IsBodies(b)
      /\ b.marks = bodies.marks \cup {next.mark}
      /\ b.notes = bodies.notes \cup {next.note}
      /\ b.inks = bodies.inks
      /\ b.redactions = bodies.redactions
      /\ b.text = bodies.text
      /\ b.selections = bodies.selections
      /\ b.sources = bodies.sources
  BY DEF Typed, IsBodies
<1>3. next' = [next EXCEPT !.mark = @ + 1, !.note = @ + 1]
  BY DEF Annotate
<1>4. Grows
  <2>1. next' = [page |-> next.page, mark |-> next.mark + 1, note |-> next.note + 1,
                 ink |-> next.ink, redaction |-> next.redaction, text |-> next.text,
                 selection |-> next.selection, source |-> next.source]
    BY <1>3, Numbered
  <2> QED  BY <2>1, Numbered DEF Grows, Numbers
<1>5. \A kind : \A n : Brings(c, kind, n) <=>
          (kind = "mark" /\ n = next.mark) \/ (kind = "note" /\ n = next.note)
  BY DEF Brings
<1>6. Live(now, p) /\ Apply(c, sweep, b)
  BY DEF Annotate
<1>7. Accepts(now, c, b.selections)
  BY <1>6 DEF Accepts
<1> HIDE DEF b
<1>8. \A kind \in Kinds : \A n :
          InTable(b, kind, n) <=> InTable(bodies, kind, n) \/ Brings(c, kind, n)
  BY <1>2, <1>5 DEF InTable, Kinds
<1>9. next'.mark = next.mark + 1 /\ next'.note = next.note + 1
  BY <1>3, Numbered
<1> HIDE DEF c
<1>10. \A kind \in Kinds : \A n : Brings(c, kind, n) => n = next[kind] /\ next'[kind] = n + 1
  BY <1>5, <1>9
<1>11. \A s \in DOMAIN bodies.selections : b.selections[s] = bodies.selections[s]
  BY <1>2
<1>12. Enters(c, b)
  BY <1>7, <1>8, <1>10, <1>11 DEF Enters
<1>13. IsBodies(b)
  BY <1>2 DEF IsBodies
<1>14. AnEdit(c, sweep, b)
  BY <1>1, <1>4, <1>6, <1>12, <1>13 DEF AnEdit
<1>15. Allowed(c, b)
  BY <1>2 DEF Allowed, c
<1> QED  BY <1>14, <1>15 DEF Edited

LEMMA ReinkEdits ==
    ASSUME Typed, NEW m \in Issued("mark"), NEW sweep \in Sweeps \cup {None},
           Reink(m, sweep)
    PROVE  Edited
<1> DEFINE c == [kind |-> "reink", mark |-> m, ink |-> next.ink]
           b == [bodies EXCEPT !.inks = @ \cup {next.ink}]
<1>1. c \in Command
  BY Numbered DEF Command
<1>2. /\ IsBodies(b)
      /\ b.marks = bodies.marks
      /\ b.notes = bodies.notes
      /\ b.inks = bodies.inks \cup {next.ink}
      /\ b.redactions = bodies.redactions
      /\ b.text = bodies.text
      /\ b.selections = bodies.selections
      /\ b.sources = bodies.sources
  BY DEF Typed, IsBodies
<1>3. next' = [next EXCEPT !.ink = @ + 1]
  BY DEF Reink
<1>4. Grows
  BY <1>3, Numbered DEF Grows, Numbers
<1>5. \A kind : \A n : Brings(c, kind, n) <=> kind = "ink" /\ n = next.ink
  BY DEF Brings
<1>6. LiveMark(now, m) /\ Apply(c, sweep, b)
  BY DEF Reink
<1>7. Accepts(now, c, b.selections)
  BY <1>6 DEF Accepts
<1> HIDE DEF b
<1>8. \A kind \in Kinds : \A n :
          InTable(b, kind, n) <=> InTable(bodies, kind, n) \/ Brings(c, kind, n)
  BY <1>2, <1>5 DEF InTable, Kinds
<1>9. next'.ink = next.ink + 1
  BY <1>3, Numbered
<1> HIDE DEF c
<1>10. \A kind \in Kinds : \A n : Brings(c, kind, n) => n = next[kind] /\ next'[kind] = n + 1
  BY <1>5, <1>9
<1>11. \A s \in DOMAIN bodies.selections : b.selections[s] = bodies.selections[s]
  BY <1>2
<1>12. Enters(c, b)
  BY <1>7, <1>8, <1>10, <1>11 DEF Enters
<1>13. IsBodies(b)
  BY <1>2 DEF IsBodies
<1>14. AnEdit(c, sweep, b)
  BY <1>1, <1>4, <1>6, <1>12, <1>13 DEF AnEdit
<1>15. Allowed(c, b)
  BY <1>2 DEF Allowed, c
<1> QED  BY <1>14, <1>15 DEF Edited

LEMMA RedactEdits ==
    ASSUME Typed, NEW p \in Issued("page"), Redact(p)
    PROVE  Edited
<1> DEFINE c == [kind |-> "redact", redaction |-> next.redaction, page |-> p]
           b == [bodies EXCEPT !.redactions = @ \cup {next.redaction}]
<1>1. c \in Command
  BY Numbered DEF Command
<1>2. /\ IsBodies(b)
      /\ b.marks = bodies.marks
      /\ b.notes = bodies.notes
      /\ b.inks = bodies.inks
      /\ b.redactions = bodies.redactions \cup {next.redaction}
      /\ b.text = bodies.text
      /\ b.selections = bodies.selections
      /\ b.sources = bodies.sources
  BY DEF Typed, IsBodies
<1>3. next' = [next EXCEPT !.redaction = @ + 1]
  BY DEF Redact
<1>4. Grows
  BY <1>3, Numbered DEF Grows, Numbers
<1>5. \A kind : \A n : Brings(c, kind, n) <=> kind = "redaction" /\ n = next.redaction
  BY DEF Brings
<1>6. Live(now, p) /\ TextChanges(now) = {} /\ Apply(c, None, b)
  BY DEF Redact, MayRedact
<1>7. Accepts(now, c, b.selections)
  BY <1>6 DEF Accepts
<1> HIDE DEF b
<1>8. \A kind \in Kinds : \A n :
          InTable(b, kind, n) <=> InTable(bodies, kind, n) \/ Brings(c, kind, n)
  BY <1>2, <1>5 DEF InTable, Kinds
<1>9. next'.redaction = next.redaction + 1
  BY <1>3, Numbered
<1> HIDE DEF c
<1>10. \A kind \in Kinds : \A n : Brings(c, kind, n) => n = next[kind] /\ next'[kind] = n + 1
  BY <1>5, <1>9
<1>11. \A s \in DOMAIN bodies.selections : b.selections[s] = bodies.selections[s]
  BY <1>2
<1>12. Enters(c, b)
  BY <1>7, <1>8, <1>10, <1>11 DEF Enters
<1>13. IsBodies(b)
  BY <1>2 DEF IsBodies
<1>14. AnEdit(c, None, b)
  BY <1>1, <1>4, <1>6, <1>12, <1>13 DEF AnEdit
<1>15. Allowed(c, b)
  BY <1>2, <1>6 DEF Allowed, c
<1> QED  BY <1>14, <1>15 DEF Edited

LEMMA ReplaceTextEdits ==
    ASSUME Typed, NEW p \in Issued("page"), NEW word, ReplaceText(p, word)
    PROVE  Edited
<1> DEFINE c(v) == [kind |-> "replaceText", page |-> p, version |-> v]
           b == [bodies EXCEPT !.text = With(@, next.text, word)]
<1>0. Live(now, p) /\ DOMAIN now.redactions = {} /\ TextIsReplaceable(p)
  BY DEF ReplaceText
<1>1. CASE Apply(c(None), None, bodies) /\ UNCHANGED next
  <2>1. c(None) \in Command
    BY Numbered DEF Command, None
  <2>2. \A kind \in Kinds : \A n : ~Brings(c(None), kind, n)
    BY DEF Brings
  <2>3. AnEdit(c(None), None, bodies)
    BY <1>1, <2>1, <2>2, PlainEdit
  <2>4. Allowed(c(None), bodies)
    BY <1>0 DEF Allowed
  <2> QED  BY <2>3, <2>4 DEF Edited
<1>2. CASE Apply(c(next.text), None, b) /\ next' = [next EXCEPT !.text = @ + 1]
  <2> DEFINE d == c(next.text)
  <2>1. d \in Command
    BY Numbered DEF Command
  <2>2. /\ IsBodies(b)
        /\ b.marks = bodies.marks
        /\ b.notes = bodies.notes
        /\ b.inks = bodies.inks
        /\ b.redactions = bodies.redactions
        /\ b.text = With(bodies.text, next.text, word)
        /\ b.selections = bodies.selections
        /\ b.sources = bodies.sources
    BY DEF Typed, IsBodies
  <2>4. Grows
    BY <1>2, Numbered DEF Grows, Numbers
  <2>5. \A kind : \A n : Brings(d, kind, n) <=> kind = "text" /\ n = next.text
    BY Numbered DEF Brings, None
  <2>7. Accepts(now, d, b.selections)
    BY <1>0 DEF Accepts
  <2> HIDE DEF b
  <2>8. \A kind \in Kinds : \A n :
            InTable(b, kind, n) <=> InTable(bodies, kind, n) \/ Brings(d, kind, n)
    <3>0. b.text = With(bodies.text, next.text, word)
      BY <2>2
    <3>1. DOMAIN b.text = DOMAIN bodies.text \cup {next.text}
      BY <3>0, WithIs
    <3> QED  BY <2>2, <2>5, <3>1 DEF InTable, Kinds
  <2>9. next'.text = next.text + 1
    BY <1>2, Numbered
  <2>15. Allowed(d, b)
    BY <1>0, <2>2 DEF Allowed
  <2>16. Apply(d, None, b)
    BY <1>2
  <2> HIDE DEF d
  <2>10. \A kind \in Kinds : \A n : Brings(d, kind, n) => n = next[kind] /\ next'[kind] = n + 1
    BY <2>5, <2>9
  <2>11. \A s \in DOMAIN bodies.selections : b.selections[s] = bodies.selections[s]
    BY <2>2
  <2>12. Enters(d, b)
    BY <2>7, <2>8, <2>10, <2>11 DEF Enters
  <2>13. IsBodies(b)
    BY <2>2 DEF IsBodies
  <2>14. AnEdit(d, None, b)
    BY <2>1, <2>4, <2>16, <2>12, <2>13 DEF AnEdit
  <2> QED  BY <2>14, <2>15 DEF Edited
<1> QED  BY <1>1, <1>2 DEF ReplaceText

\* An import takes a number of each kind it makes, and a source's when it is new.
LEMMA GrowsWith ==
    ASSUME Typed, NEW p \in Nat \ {0}, NEW s \in Nat \ {0}, NEW m \in Nat \ {0},
           next.page <= p, next.selection <= s, next.source <= m,
           next' = [page |-> p, mark |-> next.mark, note |-> next.note, ink |-> next.ink,
                    redaction |-> next.redaction, text |-> next.text, selection |-> s, source |-> m]
    PROVE  Grows
<1>1. next' \in Numbers
  BY Numbered DEF Numbers
<1>2. DOMAIN next = {"page", "mark", "note", "ink", "redaction", "text", "selection", "source"}
  BY Numbered
<1>3. \A k \in Nat : k <= k
  OBVIOUS
<1>4. \A kind \in DOMAIN next : next[kind] <= next'[kind]
  BY <1>2, <1>3, Numbered
<1> QED  BY <1>1, <1>4 DEF Grows

LEMMA ImportEdits ==
    ASSUME Typed, SourcesIssued, Matching, Issuing, NEW after \in Anchor, NEW pick \in Picks,
           Import(after, pick.file, pick.pages)
    PROVE  Edited
<1> DEFINE numbers == pick.pages
           file == pick.file
           known == KnownAs(file)
           source == IF known = {} THEN next.source ELSE CHOOSE k \in known : TRUE
           placed == [i \in DOMAIN numbers |-> [id |-> next.page + i - 1, page |-> numbers[i]]]
           x == [source |-> source, pages |-> placed]
           c == [kind |-> "import", selection |-> next.selection, after |-> after]
           b == [bodies EXCEPT !.selections = With(@, next.selection, x),
                               !.sources = With(@, source, file)]
<1>1. /\ Anchored(now, after) /\ MayImport(file, numbers) /\ Apply(c, None, b)
      /\ next' = [next EXCEPT !.page = @ + Len(numbers), !.selection = @ + 1,
                              !.source = IF known = {} THEN @ + 1 ELSE @]
  BY DEF Import
<1>2. PICK n \in Nat \ {0} : Len(numbers) = n /\ DOMAIN numbers = 1..n /\ numbers \in Seq(Nat)
                             /\ \A i, k \in 1..n : numbers[i] = numbers[k] => i = k
  <2>1. numbers \in Seq(Nat) /\ numbers # <<>> /\ IsInjective(numbers)
    BY JournalAssumption
  <2>2. Len(numbers) \in Nat \ {0} /\ DOMAIN numbers = 1..Len(numbers)
    BY <2>1, EmptySeq, LenProperties
  <2>3. \A i, k \in DOMAIN numbers : numbers[i] = numbers[k] => i = k
    BY <2>1 DEF IsInjective
  <2> QED  BY <2>1, <2>2, <2>3
<1>3. /\ source \in Nat /\ source < next'.source
      /\ source = next.source \/ source \in known
  <2>1. next.source \in Nat /\ next'.source = IF known = {} THEN next.source + 1 ELSE next.source
    BY <1>1, Numbered
  <2>2. \A k \in known : k \in Nat /\ k < next.source
    BY DEF KnownAs, SourcesIssued
  <2> QED  BY <2>1, <2>2
<1>4. c \in Command
  BY Numbered DEF Command
<1>5. \A kind : \A m : Brings(c, kind, m) <=> kind = "selection" /\ m = next.selection
  BY DEF Brings
<1>6. next'.page = next.page + n /\ next'.selection = next.selection + 1
  BY <1>1, <1>2, Numbered
<1>7. Grows
  <2>1. PICK m : /\ m = next.source \/ m = next.source + 1
                 /\ next' = [page |-> next.page + n, mark |-> next.mark, note |-> next.note,
                             ink |-> next.ink, redaction |-> next.redaction, text |-> next.text,
                             selection |-> next.selection + 1, source |-> m]
    BY <1>1, <1>2, Numbered
  <2>2. /\ next.page + n \in Nat \ {0} /\ next.selection + 1 \in Nat \ {0} /\ m \in Nat \ {0}
        /\ next.page <= next.page + n /\ next.selection <= next.selection + 1 /\ next.source <= m
    BY <1>2, <2>1, Numbered, SMTT(30)
  <2> QED  BY <2>1, <2>2, GrowsWith
<1>8. /\ DOMAIN placed = 1..n
      /\ \A i \in 1..n : placed[i].id = next.page + i - 1 /\ placed[i].page = numbers[i]
  BY <1>2
<1>9. /\ IsBodies(b)
      /\ b.marks = bodies.marks
      /\ b.notes = bodies.notes
      /\ b.inks = bodies.inks
      /\ b.redactions = bodies.redactions
      /\ b.text = bodies.text
      /\ b.selections = With(bodies.selections, next.selection, x)
      /\ b.sources = With(bodies.sources, source, file)
  BY DEF Typed, IsBodies
<1> HIDE DEF source, placed, b
<1>10. /\ DOMAIN b.selections = DOMAIN bodies.selections \cup {next.selection}
       /\ b.selections[next.selection] = x
       /\ \A s \in DOMAIN bodies.selections : s # next.selection =>
             b.selections[s] = bodies.selections[s]
       /\ DOMAIN b.sources = DOMAIN bodies.sources \cup {source}
  <2> HIDE DEF x
  <2>1. /\ b.selections = With(bodies.selections, next.selection, x)
        /\ b.sources = With(bodies.sources, source, file)
    BY <1>9
  <2> QED  BY <2>1, WithIs
<1>11. next.selection \notin DOMAIN bodies.selections
  <2>1. \A m : m \in DOMAIN bodies.selections => IsNamed(journal, "selection", m)
    BY DEF Matching, InTable, Kinds
  <2>2. \A m : IsNamed(journal, "selection", m) => m \in Nat /\ m < next.selection
    <3>1. "selection" \in Kinds
      BY DEF Kinds
    <3> QED  BY <3>1 DEF Issuing, IsNamed
  <2> QED  BY <2>1, <2>2, Numbered
<1>12. Accepts(now, c, b.selections)
  BY <1>1, <1>10 DEF Accepts
<1>13. Allowed(c, b)
  <2>1. x.source = source /\ x.pages = placed
    OBVIOUS
  <2>2. \/ source = next.source
        \/ \A i \in 1..n : numbers[i] \notin EditedPagesOf(now, source)
    <3>1. \A i \in 1..n : numbers[i] \in Range(numbers)
      BY <1>2 DEF Range
    <3> QED  BY <1>1, <1>3, <3>1 DEF MayImport
  <2>3. /\ next'.page = next.page + n /\ DOMAIN x.pages = 1..n
        /\ \A i \in 1..n : x.pages[i].id = next.page + i - 1
        /\ \A i, k \in 1..n : x.pages[i].page = x.pages[k].page => i = k
        /\ x.source \in Nat /\ x.source < next'.source
        /\ \/ x.source = next.source
           \/ \A i \in 1..n : x.pages[i].page \notin EditedPagesOf(now, x.source)
    <3> HIDE DEF x
    <3>1. /\ DOMAIN x.pages = 1..n
          /\ \A i \in 1..n : x.pages[i].id = next.page + i - 1 /\ x.pages[i].page = numbers[i]
      BY <1>8, <2>1
    <3>2. \A i, k \in 1..n : x.pages[i].page = x.pages[k].page => i = k
      BY <1>2, <3>1
    <3>3. \/ x.source = next.source
          \/ \A i \in 1..n : x.pages[i].page \notin EditedPagesOf(now, x.source)
      BY <2>1, <2>2, <3>1
    <3> QED  BY <1>3, <1>6, <2>1, <3>1, <3>2, <3>3
  <2>4. b.selections[c.selection] = x
    BY <1>10
  <2> HIDE DEF x
  <2> QED  BY <2>3, <2>4 DEF Allowed
<1> HIDE DEF c, x
<1>14. \A kind \in Kinds : \A m :
          InTable(b, kind, m) <=> InTable(bodies, kind, m) \/ Brings(c, kind, m)
  BY <1>5, <1>9, <1>10 DEF InTable, Kinds
<1>15. \A kind \in Kinds : \A m : Brings(c, kind, m) => m = next[kind] /\ next'[kind] = m + 1
  BY <1>5, <1>6
<1>16. Enters(c, b)
  BY <1>10, <1>11, <1>12, <1>14, <1>15 DEF Enters
<1>17. IsBodies(b)
  BY <1>9 DEF IsBodies
<1>18. None \in Sweeps \cup {None} /\ Apply(c, None, b)
  BY <1>1
<1>19. AnEdit(c, None, b)
  BY <1>4, <1>7, <1>16, <1>17, <1>18 DEF AnEdit
<1> QED  BY <1>13, <1>19 DEF Edited

\* A step is an edit, an undo or a redo.
LEMMA EveryStep ==
    ASSUME Typed, SourcesIssued, Matching, Issuing, Next
    PROVE  Edited \/ Undo \/ Redo
  BY RotateEdits, DeleteEdits, MoveEdits, UnredactEdits, UnannotateEdits, InsertEdits,
     AnnotateEdits, ReinkEdits, RedactEdits, ReplaceTextEdits, ImportEdits DEF Next
-----------------------------------------------------------------------------
\* The documents of the journal.

\* The document model keeps what the journal says.
Current == now = DocumentAt[cursor]

LEMMA DocumentRule ==
    ASSUME journal \in Seq(Entry)
    PROVE  /\ DocumentAt[0] = BaselineDocument
           /\ \A k \in 1..Len(journal) :
                 DocumentAt[k] = Effect(DocumentAt[k - 1], journal[k].cmd, bodies.selections)
<1>1. 0 \in Nat /\ Len(journal) \in Nat /\ 0 <= Len(journal) /\ 0 + 1 = 1
  OBVIOUS
<1> QED  BY <1>1, DocumentsAreSteps, StepsAre

LEMMA DocumentRuleAfter ==
    ASSUME journal' \in Seq(Entry)
    PROVE  /\ DocumentAt'[0] = BaselineDocument
           /\ \A k \in 1..Len(journal') :
                 DocumentAt'[k] = Effect(DocumentAt'[k - 1], journal'[k].cmd, bodies'.selections)
<1>1. 0 \in Nat /\ Len(journal') \in Nat /\ 0 <= Len(journal') /\ 0 + 1 = 1
  OBVIOUS
<1>2. DocumentAt' = Steps(BaselineDocument, journal', bodies'.selections, 0, Len(journal'))
  BY DEF DocumentAt, Steps
<1> DEFINE f == Steps(BaselineDocument, journal', bodies'.selections, 0, Len(journal'))
<1>3. f[0] = BaselineDocument
      /\ \A k \in 0 + 1..Len(journal') : f[k] = Effect(f[k - 1], journal'[k].cmd, bodies'.selections)
  BY <1>1, StepsAre
<1> HIDE DEF f
<1>4. DocumentAt' = f
  BY <1>2 DEF f
<1> QED  BY <1>1, <1>3, <1>4

\* Of the tables, a command reads the selection it names.
LEMMA EffectReads ==
    ASSUME NEW w, NEW c, NEW s, NEW t, c.kind = "import" => s[c.selection] = t[c.selection]
    PROVE  Effect(w, c, s) = Effect(w, c, t)
  BY DEF Effect

LEMMA SelectionsAfter ==
    ASSUME Typed, Issuing, Matching, NEW c, NEW sweep, NEW b, AnEdit(c, sweep, b),
           Accepts(now, c, b.selections)
    PROVE  /\ \A i \in 1..cursor : journal[i].cmd.kind = "import" =>
                 bodies'.selections[journal[i].cmd.selection]
                    = bodies.selections[journal[i].cmd.selection]
           /\ c.kind = "import" => bodies'.selections[c.selection] = b.selections[c.selection]
<1>1. Proceeds(c, sweep, b) /\ Matching'
  BY Accepted, EditKeepsMatching
<1>2. \A n : n \in DOMAIN bodies'.selections => bodies'.selections[n] = b.selections[n]
  <2>1. bodies'.selections = [n \in DOMAIN b.selections \ SelectionsOf(Discarded) |-> b.selections[n]]
    BY <1>1 DEF Proceeds, Pruned, But, Restrict
  <2> QED  BY <2>1
<1>3. \A n : IsNamed(journal', "selection", n) => n \in DOMAIN bodies'.selections
  BY <1>1 DEF Matching, InTable, Kinds, IsNamed
<1>4. \A n : IsNamed(journal, "selection", n) => n \in DOMAIN bodies.selections
  BY DEF Matching, InTable, Kinds
<1>5. \A n \in DOMAIN bodies.selections : b.selections[n] = bodies.selections[n]
  BY DEF AnEdit, Enters
<1>6. ASSUME NEW i \in 1..cursor, journal[i].cmd.kind = "import"
      PROVE  bodies'.selections[journal[i].cmd.selection]
                = bodies.selections[journal[i].cmd.selection]
  <2>1. i \in DOMAIN journal /\ i \in DOMAIN journal' /\ journal'[i] = journal[i]
    BY <1>1 DEF Typed, Proceeds
  <2>2. Brings(journal[i].cmd, "selection", journal[i].cmd.selection)
    BY <1>6 DEF Brings
  <2>3. /\ IsNamed(journal, "selection", journal[i].cmd.selection)
        /\ IsNamed(journal', "selection", journal[i].cmd.selection)
    BY <2>1, <2>2 DEF IsNamed
  <2> QED  BY <1>2, <1>3, <1>4, <1>5, <2>3
<1>7. ASSUME c.kind = "import"
      PROVE  bodies'.selections[c.selection] = b.selections[c.selection]
  <2>1. cursor + 1 \in DOMAIN journal' /\ journal'[cursor + 1].cmd = c
    BY <1>1 DEF Typed, Proceeds
  <2>2. Brings(c, "selection", c.selection)
    BY <1>7 DEF Brings
  <2>3. IsNamed(journal', "selection", c.selection)
    BY <2>1, <2>2 DEF IsNamed
  <2> QED  BY <1>2, <1>3, <2>3
<1> QED  BY <1>6, <1>7

\* An edit leaves the documents up to the cursor what they were.
LEMMA DocumentsAfter ==
    ASSUME Typed, Issuing, Matching, Current, NEW c, NEW sweep, NEW b, AnEdit(c, sweep, b),
           Accepts(now, c, b.selections)
    PROVE  /\ \A k \in 0..cursor : DocumentAt'[k] = DocumentAt[k]
           /\ DocumentAt'[cursor + 1] = now'
<1>1. Proceeds(c, sweep, b)
  BY Accepted
<1>2. cursor \in Nat /\ journal' \in Seq(Entry) /\ Len(journal') = cursor + 1
  BY <1>1 DEF Typed, Proceeds
<1>3. DocumentAt[0] = BaselineDocument /\ DocumentAt'[0] = BaselineDocument
  BY <1>2, DocumentRule, DocumentRuleAfter DEF Typed
<1>4. ASSUME NEW k \in 0..cursor, 0 < k, DocumentAt'[k - 1] = DocumentAt[k - 1]
      PROVE  DocumentAt'[k] = DocumentAt[k]
  <2>1. k \in 1..cursor /\ k \in 1..Len(journal) /\ k \in 1..Len(journal')
    BY <1>2, <1>4 DEF Typed
  <2>2. DocumentAt[k] = Effect(DocumentAt[k - 1], journal[k].cmd, bodies.selections)
    BY <2>1, DocumentRule DEF Typed
  <2>3. DocumentAt'[k] = Effect(DocumentAt[k - 1], journal[k].cmd, bodies'.selections)
    <3>1. journal'[k] = journal[k]
      BY <1>1, <2>1 DEF Proceeds
    <3> QED  BY <1>2, <1>4, <2>1, <3>1, DocumentRuleAfter
  <2>4. journal[k].cmd.kind = "import" =>
           bodies'.selections[journal[k].cmd.selection]
              = bodies.selections[journal[k].cmd.selection]
    BY <2>1, SelectionsAfter
  <2> QED  BY <2>2, <2>3, <2>4, EffectReads
<1>5. \A k \in 0..cursor : DocumentAt'[k] = DocumentAt[k]
  <2>0. PICK f, g : f = DocumentAt' /\ g = DocumentAt
    OBVIOUS
  <2>1. 0 \in Nat /\ cursor \in Nat /\ f[0] = g[0]
    BY <1>2, <1>3, <2>0
  <2>2. \A k \in 0..cursor : 0 < k /\ f[k - 1] = g[k - 1] => f[k] = g[k]
    BY <1>2, <1>4, <2>0
  <2>3. \A k \in 0..cursor : f[k] = g[k]
    BY ONLY <2>1, <2>2, OneRuleOneCourse
  <2> QED  BY <2>0, <2>3
<1>6. DocumentAt'[cursor + 1] = now'
  <2>1. cursor + 1 \in 1..Len(journal') /\ cursor \in 0..cursor /\ (cursor + 1) - 1 = cursor
    BY <1>2
  <2>2. DocumentAt'[cursor + 1] = Effect(DocumentAt'[cursor], journal'[cursor + 1].cmd, bodies'.selections)
    BY <1>2, <2>1, DocumentRuleAfter
  <2>3. DocumentAt'[cursor + 1] = Effect(now, c, bodies'.selections)
    BY <1>1, <1>5, <2>1, <2>2 DEF Proceeds, Current
  <2>4. now' = Effect(now, c, b.selections)
    BY <1>1 DEF Proceeds
  <2> QED  BY <2>3, <2>4, SelectionsAfter, EffectReads
<1> QED  BY <1>5, <1>6

\* A refused edit, an undo and a redo leave the journal and its documents alone.
LEMMA DocumentsStay ==
    ASSUME journal' = journal, bodies' = bodies
    PROVE  DocumentAt' = DocumentAt
  BY DEF DocumentAt
-----------------------------------------------------------------------------
\* What undo and redo come to.

LEMMA MinOf ==
    ASSUME NEW S \in SUBSET Nat, S # {}
    PROVE  Min(S) \in S /\ \A k \in S : Min(S) <= k
<1>1. \E i \in S : \A k \in S : i <= k
  BY LeastNumber
<1> QED  BY <1>1 DEF Min

LEMMA MaxOf ==
    ASSUME NEW S \in SUBSET Nat, S # {}, NEW n \in Nat, \A k \in S : k <= n
    PROVE  Max(S) \in S /\ \A k \in S : k <= Max(S)
<1> DEFINE T == {n - k : k \in S}
<1>1. T \in SUBSET Nat /\ T # {}
  <2>1. \A k \in S : n - k \in Nat
    OBVIOUS
  <2> QED  BY <2>1
<1>2. PICK m \in T : \A k \in T : m <= k
  BY <1>1, LeastNumber
<1>3. PICK i \in S : m = n - i
  BY <1>2
<1>4. \A k \in S : i >= k
  <2> SUFFICES ASSUME NEW k \in S
               PROVE  i >= k
    OBVIOUS
  <2>1. n - k \in T
    OBVIOUS
  <2>2. n - i <= n - k
    BY <1>2, <1>3, <2>1
  <2> QED  BY <2>2
<1>5. Max(S) \in S /\ \A k \in S : Max(S) >= k
  BY <1>4 DEF Max
<1> QED  BY <1>5

LEMMA StopsAre ==
    ASSUME Typed
    PROVE  /\ Stops \subseteq 0..Len(journal) /\ 0 \in Stops /\ Len(journal) \in Stops
           /\ Stops = TrueStops
<1>1. Len(journal) \in Nat
  BY DEF Typed
<1> QED  BY <1>1 DEF Stops, TrueStops

LEMMA UndoStops ==
    ASSUME Typed, Undo
    PROVE  /\ cursor' \in Stops /\ cursor' < cursor /\ cursor' \in 0..Len(journal)
           /\ \A k \in Stops : k < cursor => k <= cursor'
<1> DEFINE S == {k \in Stops : k < cursor}
<1>1. cursor \in Nat /\ Len(journal) \in Nat
  BY DEF Typed
<1>2. S \in SUBSET Nat /\ 0 \in S /\ \A k \in S : k <= cursor
  BY <1>1, StopsAre DEF Undo
<1>3. cursor' = Max(S)
  BY DEF Undo
<1> HIDE DEF S
<1>4. Max(S) \in S /\ \A k \in S : k <= Max(S)
  BY <1>1, <1>2, MaxOf
<1> QED  BY <1>3, <1>4, StopsAre DEF S

LEMMA RedoStops ==
    ASSUME Typed, Redo
    PROVE  /\ cursor' \in Stops /\ cursor < cursor' /\ cursor' \in 0..Len(journal)
           /\ \A k \in Stops : cursor < k => cursor' <= k
<1> DEFINE S == {k \in Stops : k > cursor}
<1>1. cursor \in Nat /\ Len(journal) \in Nat
  BY DEF Typed
<1>2. S \in SUBSET Nat /\ Len(journal) \in S
  BY <1>1, StopsAre DEF Redo
<1>3. cursor' = Min(S)
  BY DEF Redo
<1> HIDE DEF S
<1>4. Min(S) \in S /\ \A k \in S : Min(S) <= k
  BY <1>2, MinOf
<1> QED  BY <1>1, <1>3, <1>4, StopsAre DEF S

\* Replaying a stretch of the journal from the document at its start.
LEMMA ReplayedIs ==
    ASSUME Typed, NEW from \in Nat, NEW upto \in Nat, from <= upto, upto <= Len(journal)
    PROVE  Replayed(DocumentAt[from], from, upto) = DocumentAt[upto]
<1> DEFINE s == Steps(DocumentAt[from], journal, bodies.selections, from, upto)
<1>1. PICK f, g : f = s /\ g = DocumentAt
  OBVIOUS
<1>2. /\ s[from] = DocumentAt[from]
      /\ \A k \in from + 1..upto : s[k] = Effect(s[k - 1], journal[k].cmd, bodies.selections)
  BY StepsAre
<1>3. ASSUME NEW k \in from..upto, from < k, f[k - 1] = g[k - 1]
      PROVE  f[k] = g[k]
  <2>1. k \in 1..Len(journal) /\ k \in from + 1..upto
    BY <1>3 DEF Typed
  <2>2. s[k] = Effect(DocumentAt[k - 1], journal[k].cmd, bodies.selections)
    BY <1>1, <1>2, <1>3, <2>1
  <2>3. DocumentAt[k] = Effect(DocumentAt[k - 1], journal[k].cmd, bodies.selections)
    BY <2>1, DocumentRule DEF Typed
  <2> QED  BY <1>1, <2>2, <2>3
<1>4. from \in Nat /\ upto \in Nat /\ f[from] = g[from]
  BY <1>1, <1>2
<1>5. \A k \in from..upto : from < k /\ f[k - 1] = g[k - 1] => f[k] = g[k]
  BY <1>3
<1>6. \A k \in from..upto : f[k] = g[k]
  BY ONLY <1>4, <1>5, OneRuleOneCourse, SMTT(30)
<1>7. Replayed(DocumentAt[from], from, upto) = s[upto]
  BY DocumentsAreSteps
<1> QED  BY <1>1, <1>6, <1>7

\* The snapshot nearest to a cursor is a document of the journal, and so is
\* what is replayed from it.
LEMMA RebuiltIs ==
    ASSUME Typed, SnapshotsServeReplay, NEW upto \in 0..Len(journal)
    PROVE  Rebuilt(upto) = DocumentAt[upto]
<1> DEFINE S == {0} \cup {at \in DOMAIN snapshots : at <= upto}
<1>1. /\ upto \in Nat /\ Len(journal) \in Nat /\ upto <= Len(journal)
      /\ DOMAIN snapshots \subseteq 1..Len(journal)
      /\ \A k \in DOMAIN snapshots : snapshots[k] = DocumentAt[k]
  BY DEF Typed, SnapshotsServeReplay
<1>2. S \in SUBSET Nat /\ S # {} /\ \A k \in S : k <= upto
  BY <1>1
<1>3. Nearest(upto) = Max(S)
  BY DEF Nearest
<1> HIDE DEF S
<1>4. Nearest(upto) \in S
  BY <1>1, <1>2, <1>3, MaxOf
<1> DEFINE from == Nearest(upto)
<1>5. from \in Nat /\ from <= upto /\ (from = 0 \/ from \in DOMAIN snapshots)
  BY <1>1, <1>2, <1>4 DEF S
<1>6. (IF from \in DOMAIN snapshots THEN snapshots[from] ELSE BaselineDocument) = DocumentAt[from]
  <2>1. CASE from \in DOMAIN snapshots
    BY <1>1, <2>1
  <2>2. CASE from \notin DOMAIN snapshots
    <3>1. from = 0
      BY <1>5, <2>2
    <3>2. DocumentAt[0] = BaselineDocument
      BY DocumentRule DEF Typed
    <3> QED  BY <2>2, <3>1, <3>2
  <2> QED  BY <2>1, <2>2
<1>7. Rebuilt(upto) = Replayed(DocumentAt[from], from, upto)
  BY <1>6 DEF Rebuilt
<1> QED  BY <1>1, <1>5, <1>7, ReplayedIs

\* A press brings back the document of the stop it moves to.
LEMMA UndoIs ==
    ASSUME Typed, SnapshotsServeReplay, Undo
    PROVE  now' = DocumentAt[cursor'] /\ UNCHANGED <<journal, snapshots, bodies, next, edits>>
<1>1. cursor' \in 0..Len(journal)
  BY UndoStops
<1>2. now' = Rebuilt(cursor') /\ UNCHANGED <<journal, snapshots, bodies, next, edits>>
  BY DEF Undo
<1> QED  BY <1>1, <1>2, RebuiltIs

LEMMA RedoIs ==
    ASSUME Typed, Current, Redo
    PROVE  now' = DocumentAt[cursor'] /\ UNCHANGED <<journal, snapshots, bodies, next, edits>>
<1>1. cursor' \in 0..Len(journal) /\ cursor < cursor' /\ cursor \in Nat /\ Len(journal) \in Nat
  BY RedoStops DEF Typed
<1>2. cursor' \in Nat /\ cursor <= cursor' /\ cursor' <= Len(journal)
  BY <1>1
<1>3. now' = Replayed(DocumentAt[cursor], cursor, cursor')
      /\ UNCHANGED <<journal, snapshots, bodies, next, edits>>
  BY DEF Redo, Current
<1> QED  BY <1>1, <1>2, <1>3, ReplayedIs
-----------------------------------------------------------------------------
\* What is replayed is what was there.

Sound ==
    /\ Typed /\ Issuing /\ SourcesIssued /\ Matching
    /\ Current /\ NoReplayIsRefused /\ SnapshotsServeReplay

\* Of the tables, a command asks for the selection it names.
LEMMA AcceptsReads ==
    ASSUME NEW w, NEW c, NEW s, NEW t,
           c.kind = "import" => (c.selection \in DOMAIN s <=> c.selection \in DOMAIN t),
           c \in Command, Accepts(w, c, s)
    PROVE  Accepts(w, c, t)
<1>1. CASE c.kind = "import"
  <2>1. c.selection \in DOMAIN s /\ Anchored(w, c.after)
    BY <1>1 DEF Accepts
  <2> QED  BY <1>1, <2>1 DEF Accepts
<1>2. CASE c.kind \in {"rotate", "replaceText", "annotate", "redact"}
  BY <1>2 DEF Accepts
<1>3. CASE c.kind = "delete"
  BY <1>3 DEF Accepts
<1>4. CASE c.kind = "move"
  BY <1>4 DEF Accepts
<1>5. CASE c.kind = "insert"
  BY <1>5 DEF Accepts
<1>6. CASE c.kind \in {"unannotate", "reink"}
  BY <1>6 DEF Accepts
<1>7. CASE c.kind = "unredact"
  BY <1>7 DEF Accepts
<1> QED  BY <1>1, <1>2, <1>3, <1>4, <1>5, <1>6, <1>7 DEF Command

LEMMA EditKeepsSources ==
    ASSUME Typed, SourcesIssued, Matching, NEW c, NEW sweep, NEW b, AnEdit(c, sweep, b),
           Allowed(c, b)
    PROVE  SourcesIssued'
<1>1. next.source \in Nat /\ next'.source \in Nat /\ next.source <= next'.source
  BY DEF AnEdit, Grows, Typed, Numbers
<1>2. CASE Accepts(now, c, b.selections)
  <2>1. bodies' = Pruned(b)
    BY <1>2, Accepted DEF Proceeds
  <2>2. ASSUME NEW n \in DOMAIN b.selections
        PROVE  b.selections[n].source \in Nat /\ b.selections[n].source < next'.source
    <3>1. n \in DOMAIN bodies.selections \/ Brings(c, "selection", n)
      BY DEF AnEdit, Enters, InTable, Kinds
    <3>2. CASE n \in DOMAIN bodies.selections
      <4>1. b.selections[n] = bodies.selections[n]
        BY <3>2 DEF AnEdit, Enters
      <4>2. bodies.selections[n].source \in DOMAIN bodies.sources
        BY <3>2 DEF Matching, SourcesNamed
      <4> QED  BY <1>1, <4>1, <4>2 DEF SourcesIssued
    <3>3. CASE Brings(c, "selection", n)
      <4>1. c.kind = "import" /\ n = c.selection
        BY <3>3 DEF Brings
      <4> QED  BY <4>1 DEF Allowed
    <3> QED  BY <3>1, <3>2, <3>3
  <2>3. \A s \in DOMAIN Pruned(b).sources : \E n \in DOMAIN b.selections : s = b.selections[n].source
    BY DEF Pruned, Restrict, But, SourcesNamed
  <2>4. \A s \in DOMAIN Pruned(b).sources : s \in Nat /\ s < next'.source
    BY <2>2, <2>3
  <2> QED  BY <2>1, <2>4 DEF SourcesIssued
<1>3. CASE ~Accepts(now, c, b.selections)
  <2>1. bodies' = bodies
    BY <1>3, Refused
  <2> QED  BY <1>1, <2>1 DEF SourcesIssued
<1> QED  BY <1>2, <1>3

\* The snapshots after an edit.
LEMMA SnapshotsAfter ==
    ASSUME Typed, SnapshotsServeReplay, NEW c, NEW sweep, NEW b, AnEdit(c, sweep, b),
           Accepts(now, c, b.selections)
    PROVE  /\ DOMAIN snapshots' = {k \in 1..cursor + 1 : k % SnapshotEvery = 0}
           /\ \A k \in DOMAIN snapshots' :
                 snapshots'[k] = IF k = cursor + 1 THEN now' ELSE DocumentAt[k]
<1>1. cursor' = cursor + 1
  BY Accepted DEF Proceeds
<1>2. snapshots' = IF (cursor + 1) % SnapshotEvery = 0 THEN With(Kept, cursor + 1, now') ELSE Kept
  BY <1>1 DEF AnEdit, Apply
<1>3. /\ cursor \in Nat /\ Len(journal) \in Nat /\ cursor <= Len(journal)
      /\ DOMAIN snapshots = {k \in 1..Len(journal) : k % SnapshotEvery = 0}
      /\ \A k \in DOMAIN snapshots : snapshots[k] = DocumentAt[k]
  BY DEF Typed, SnapshotsServeReplay
<1>4. /\ DOMAIN Kept = {k \in 1..cursor : k % SnapshotEvery = 0}
      /\ \A k \in DOMAIN Kept : Kept[k] = DocumentAt[k]
  <2>1. Kept = [k \in {at \in DOMAIN snapshots : at <= cursor} |-> snapshots[k]]
    BY DEF Kept, Restrict
  <2>2. {at \in DOMAIN snapshots : at <= cursor} = {k \in 1..cursor : k % SnapshotEvery = 0}
    BY <1>3
  <2> QED  BY <1>3, <2>1, <2>2
<1> HIDE DEF Kept
<1>5. CASE (cursor + 1) % SnapshotEvery = 0
  <2>1. snapshots' = [y \in DOMAIN Kept \cup {cursor + 1} |->
                        IF y = cursor + 1 THEN now' ELSE Kept[y]]
    BY <1>2, <1>5, WithIs
  <2>2. DOMAIN Kept \cup {cursor + 1} = {k \in 1..cursor + 1 : k % SnapshotEvery = 0}
    BY <1>3, <1>4, <1>5
  <2> QED  BY <1>4, <2>1, <2>2
<1>6. CASE (cursor + 1) % SnapshotEvery # 0
  <2>1. snapshots' = Kept
    BY <1>2, <1>6
  <2>2. {k \in 1..cursor : k % SnapshotEvery = 0} = {k \in 1..cursor + 1 : k % SnapshotEvery = 0}
    BY <1>3, <1>6
  <2>3. \A k \in DOMAIN Kept : k # cursor + 1
    BY <1>3, <1>4
  <2> QED  BY <1>4, <2>1, <2>2, <2>3
<1> QED  BY <1>5, <1>6

LEMMA EditKeepsReplay ==
    ASSUME Sound, NEW c, NEW sweep, NEW b, AnEdit(c, sweep, b)
    PROVE  (Current /\ NoReplayIsRefused /\ SnapshotsServeReplay)'
<1> USE DEF Sound
<1>1. CASE Accepts(now, c, b.selections)
  <2>0. Proceeds(c, sweep, b) /\ Matching'
    BY <1>1, Accepted, EditKeepsMatching
  <2>1. /\ \A k \in 0..cursor : DocumentAt'[k] = DocumentAt[k]
        /\ DocumentAt'[cursor + 1] = now'
    BY <1>1, DocumentsAfter
  <2>2. /\ cursor \in Nat /\ Len(journal) \in Nat /\ cursor <= Len(journal)
        /\ cursor' = cursor + 1 /\ Len(journal') = cursor + 1 /\ DOMAIN journal' = 1..cursor + 1
    BY <2>0 DEF Typed, Proceeds
  <2>3. Current'
    BY <2>1, <2>2 DEF Current
  <2>4. ASSUME NEW k \in 1..cursor + 1
        PROVE  Accepts(DocumentAt'[k - 1], journal'[k].cmd, bodies'.selections)
    <3>1. journal'[k].cmd.kind = "import" => journal'[k].cmd.selection \in DOMAIN bodies'.selections
      <4> SUFFICES ASSUME journal'[k].cmd.kind = "import"
                   PROVE  journal'[k].cmd.selection \in DOMAIN bodies'.selections
        OBVIOUS
      <4>1. Brings(journal'[k].cmd, "selection", journal'[k].cmd.selection)
        BY DEF Brings
      <4>2. IsNamed(journal', "selection", journal'[k].cmd.selection)
        BY <2>2, <4>1 DEF IsNamed
      <4> QED  BY <2>0, <4>2 DEF Matching, IsNamed, InTable, Kinds
    <3>2. CASE k \in 1..cursor
      <4>1. k \in 1..Len(journal) /\ k - 1 \in 0..cursor
        BY <2>2, <3>2
      <4>2. Accepts(DocumentAt[k - 1], journal[k].cmd, bodies.selections)
        BY <4>1 DEF NoReplayIsRefused
      <4>3. journal'[k] = journal[k] /\ DocumentAt'[k - 1] = DocumentAt[k - 1]
        BY <2>0, <2>1, <3>2, <4>1 DEF Proceeds
      <4>4. journal[k].cmd.kind = "import" => journal[k].cmd.selection \in DOMAIN bodies.selections
        BY <4>2 DEF Accepts
      <4>5. Accepts(DocumentAt[k - 1], journal[k].cmd, bodies'.selections)
        <5>1. journal[k].cmd \in Command
          <6>1. journal \in Seq(Entry) /\ journal[k] \in Entry
            BY <4>1 DEF Typed
          <6> QED  BY <6>1 DEF Entry
        <5> QED  BY <3>1, <4>2, <4>3, <4>4, <5>1, AcceptsReads
      <4> QED  BY <4>3, <4>5
    <3>3. CASE k = cursor + 1
      <4>1. journal'[k].cmd = c
        BY <2>0, <3>3 DEF Proceeds
      <4>2. DocumentAt'[k - 1] = now
        BY <2>1, <2>2, <3>3 DEF Current
      <4>3. c.kind = "import" => c.selection \in DOMAIN b.selections
        BY <1>1 DEF Accepts
      <4>4. Accepts(now, c, bodies'.selections)
        <5>1. c \in Command
          BY DEF AnEdit
        <5> QED  BY <1>1, <3>1, <4>1, <4>3, <5>1, AcceptsReads
      <4> QED  BY <4>1, <4>2, <4>4
    <3> QED  BY <2>2, <3>2, <3>3
  <2>5. NoReplayIsRefused'
    BY <2>2, <2>4 DEF NoReplayIsRefused
  <2>6. SnapshotsServeReplay'
    <3>1. /\ DOMAIN snapshots' = {k \in 1..cursor + 1 : k % SnapshotEvery = 0}
          /\ \A k \in DOMAIN snapshots' :
                snapshots'[k] = IF k = cursor + 1 THEN now' ELSE DocumentAt[k]
      BY <1>1, SnapshotsAfter
    <3>2. \A k \in DOMAIN snapshots' : snapshots'[k] = DocumentAt'[k]
      BY <2>1, <2>2, <3>1
    <3> QED  BY <2>2, <3>1, <3>2 DEF SnapshotsServeReplay
  <2> QED  BY <2>3, <2>5, <2>6
<1>2. CASE ~Accepts(now, c, b.selections)
  <2>1. UNCHANGED <<now, journal, cursor, snapshots, bodies>>
    BY <1>2, Refused
  <2>2. DocumentAt' = DocumentAt
    BY <2>1, DocumentsStay
  <2> QED  BY <2>1, <2>2 DEF Current, NoReplayIsRefused, SnapshotsServeReplay
<1> QED  BY <1>1, <1>2

\* Moving the cursor leaves what the journal says as it is.
LEMMA PressKeepsSound ==
    ASSUME Sound, UNCHANGED <<journal, snapshots, bodies, next, edits>>,
           cursor' \in 0..Len(journal), now' = DocumentAt[cursor']
    PROVE  Sound'
<1> USE DEF Sound
<1>1. DocumentAt' = DocumentAt
  BY DocumentsStay
<1>2. Typed' /\ Issuing' /\ SourcesIssued' /\ Matching'
  BY DEF Typed, Issuing, SourcesIssued, Matching, InTable, IsNamed, SourcesNamed, IsBodies
<1>3. Current' /\ NoReplayIsRefused' /\ SnapshotsServeReplay'
  BY <1>1 DEF Current, NoReplayIsRefused, SnapshotsServeReplay
<1> QED  BY <1>2, <1>3

LEMMA SoundAtFirst ==
    ASSUME Init
    PROVE  Sound
<1>1. journal = <<>> /\ Len(journal) = 0 /\ DOMAIN journal = {} /\ journal \in Seq(Entry)
  BY DEF Init
<1>2. Typed
  BY <1>1, BaselineAssumption, JournalAssumption DEF Init, Typed, Numbers, IsBodies
<1>3. Issuing
  BY <1>1 DEF Issuing
<1>4. Matching /\ SourcesIssued
  <2>1. \A kind \in Kinds : \A n : ~InTable(bodies, kind, n) /\ ~IsNamed(journal, kind, n)
    BY <1>1 DEF Init, InTable, IsNamed, Empty
  <2>2. DOMAIN bodies.sources = {} /\ DOMAIN bodies.selections = {}
    BY DEF Init, Empty
  <2> QED  BY <2>1, <2>2 DEF Matching, SourcesIssued, SourcesNamed
<1>5. Current
  BY <1>1, DocumentRule DEF Current, Init
<1>6. NoReplayIsRefused
  BY <1>1 DEF NoReplayIsRefused
<1>7. SnapshotsServeReplay
  BY <1>1 DEF SnapshotsServeReplay, Init, Empty
<1> QED  BY <1>2, <1>3, <1>4, <1>5, <1>6, <1>7 DEF Sound

LEMMA SoundStays ==
    ASSUME Sound, [Next]_vars
    PROVE  Sound'
<1>1. CASE Edited
  <2>1. PICK c, sweep, b : AnEdit(c, sweep, b) /\ Allowed(c, b)
    BY <1>1 DEF Edited
  <2> QED  BY <2>1, EditKeepsTypes, EditKeepsIssuing, EditKeepsSources, EditKeepsMatching,
              EditKeepsReplay DEF Sound
<1>2. CASE Undo
  BY <1>2, UndoStops, UndoIs, PressKeepsSound DEF Sound
<1>3. CASE Redo
  BY <1>3, RedoStops, RedoIs, PressKeepsSound DEF Sound
<1>4. CASE UNCHANGED vars
  <2>1. now' = DocumentAt[cursor'] /\ cursor' \in 0..Len(journal)
    BY <1>4 DEF vars, Sound, Current, Typed
  <2> QED  BY <1>4, <2>1, PressKeepsSound DEF vars
<1> QED  BY <1>1, <1>2, <1>3, <1>4, EveryStep DEF Sound

LEMMA AlwaysSound == Spec => []Sound
<1>1. Init => Sound
  BY SoundAtFirst
<1>2. Sound /\ [Next]_vars => Sound'
  BY SoundStays
<1> QED  BY <1>1, <1>2, PTL DEF Spec

\* No undo and no redo meets a command that is refused: the journal, its redo
\* tail included, replays to the end, after any edits, undos and redos
\* (docmodel.rs:4214, 4239).
THEOREM NothingReplayedIsRefused == Spec => []NoReplayIsRefused
<1>1. Sound => NoReplayIsRefused
  BY DEF Sound
<1> QED  BY <1>1, AlwaysSound, PTL

\* The snapshots are the multiples of SnapshotEvery within the journal, and
\* each is the document the journal describes there (docmodel.rs:4140-4143).
THEOREM SnapshotsAreTrue == Spec => []SnapshotsServeReplay
<1>1. Sound => SnapshotsServeReplay
  BY DEF Sound
<1> QED  BY <1>1, AlwaysSound, PTL

\* The working document is at every moment what the first commands of the
\* journal make of the file, however undo and redo came to it.
THEOREM NowIsReplayed == Spec => [](now = DocumentAt[cursor])
<1>1. Sound => now = DocumentAt[cursor]
  BY DEF Sound, Current
<1> QED  BY <1>1, AlwaysSound, PTL

\* A body is kept exactly while a command of the journal names it, and a file
\* while a selection does (docmodel.rs:4071-4073).
THEOREM NoBodyLeaks == Spec => []BodiesMatchJournal
<1>1. ASSUME Sound
      PROVE  BodiesMatchJournal
  <2>1. \A kind \in Kinds : \A n : InTable(bodies, kind, n) <=> IsNamed(journal, kind, n)
    BY <1>1 DEF Sound, Matching
  <2>2. \A n : /\ n \in bodies.marks <=> n \in MarksOf(journal)
               /\ n \in bodies.notes <=> n \in NotesOf(journal)
               /\ n \in bodies.inks <=> n \in InksOf(journal)
               /\ n \in bodies.redactions <=> n \in RedactionsOf(journal)
               /\ n \in DOMAIN bodies.text <=> n \in TextOf(journal)
               /\ n \in DOMAIN bodies.selections <=> n \in SelectionsOf(journal)
    BY <2>1, NamesOf DEF InTable, Kinds
  <2> QED  BY <1>1, <2>2 DEF BodiesMatchJournal, Sound, Matching
<1> QED  BY <1>1, AlwaysSound, PTL
-----------------------------------------------------------------------------
\* Orders: each page once.

Listed(s) == s \in Seq(Nat) /\ IsInjective(s)

LEMMA Joined ==
    ASSUME NEW s, NEW t, Listed(s), Listed(t), Range(s) \cap Range(t) = {}
    PROVE  /\ Listed(s \o t) /\ Range(s \o t) = Range(s) \cup Range(t)
           /\ Len(s \o t) = Len(s) + Len(t)
<1>1. s \in Seq(Nat) /\ t \in Seq(Nat)
  BY DEF Listed
<1>2. /\ s \o t \in Seq(Nat) /\ Len(s \o t) = Len(s) + Len(t)
      /\ \A i \in 1..Len(s) + Len(t) :
            (s \o t)[i] = IF i <= Len(s) THEN s[i] ELSE t[i - Len(s)]
  BY <1>1, ConcatProperties
<1>3. Range(s \o t) = Range(s) \cup Range(t)
  BY <1>1, RangeConcatenation
<1>4. /\ Len(s) \in Nat /\ Len(t) \in Nat /\ DOMAIN s = 1..Len(s) /\ DOMAIN t = 1..Len(t)
      /\ DOMAIN (s \o t) = 1..Len(s) + Len(t)
  BY <1>1, <1>2, LenProperties
<1>5. /\ \A i, k \in 1..Len(s) : s[i] = s[k] => i = k
      /\ \A i, k \in 1..Len(t) : t[i] = t[k] => i = k
      /\ \A i \in 1..Len(s), k \in 1..Len(t) : s[i] # t[k]
  <2>1. \A i \in 1..Len(s), k \in 1..Len(t) : s[i] \in Range(s) /\ t[k] \in Range(t)
    BY <1>4 DEF Range
  <2> QED  BY <1>4, <2>1 DEF Listed, IsInjective
<1>6. ASSUME NEW i \in 1..Len(s) + Len(t), NEW k \in 1..Len(s) + Len(t),
             (s \o t)[i] = (s \o t)[k]
      PROVE  i = k
  <2>1. CASE i <= Len(s) /\ k <= Len(s)
    BY <1>2, <1>4, <1>5, <1>6, <2>1
  <2>2. CASE i <= Len(s) /\ ~(k <= Len(s))
    <3>1. i \in 1..Len(s) /\ k - Len(s) \in 1..Len(t)
      BY <1>4, <2>2
    <3> QED  BY <1>2, <1>5, <1>6, <2>2, <3>1
  <2>3. CASE ~(i <= Len(s)) /\ k <= Len(s)
    <3>1. k \in 1..Len(s) /\ i - Len(s) \in 1..Len(t)
      BY <1>4, <2>3
    <3> QED  BY <1>2, <1>5, <1>6, <2>3, <3>1
  <2>4. CASE ~(i <= Len(s)) /\ ~(k <= Len(s))
    <3>1. k - Len(s) \in 1..Len(t) /\ i - Len(s) \in 1..Len(t)
      BY <1>4, <2>4
    <3>2. i - Len(s) = k - Len(s)
      BY <1>2, <1>5, <1>6, <2>4, <3>1
    <3> QED  BY <1>4, <3>2
  <2> QED  BY <2>1, <2>2, <2>3, <2>4
<1>7. IsInjective(s \o t)
  BY <1>4, <1>6 DEF IsInjective
<1> QED  BY <1>2, <1>3, <1>7 DEF Listed

LEMMA Stretch ==
    ASSUME NEW s, Listed(s), NEW m \in Nat \ {0}, NEW n \in Nat, n <= Len(s)
    PROVE  /\ Listed(SubSeq(s, m, n)) /\ Range(SubSeq(s, m, n)) = {s[i] : i \in m..n}
           /\ Len(SubSeq(s, m, n)) = IF m <= n THEN n - m + 1 ELSE 0
<1> DEFINE r == SubSeq(s, m, n)
           l == IF m <= n THEN n - m + 1 ELSE 0
<1>1. s \in Seq(Nat) /\ Len(s) \in Nat /\ DOMAIN s = 1..Len(s)
      /\ \A i, k \in 1..Len(s) : s[i] = s[k] => i = k
  BY LenProperties DEF Listed, IsInjective
<1>2. \A i \in m..n : i \in 1..Len(s) /\ s[i] \in Nat
  BY <1>1, ElementOfSeq
<1>3. r \in Seq(Nat) /\ Len(r) = l /\ \A i \in 1..n - m + 1 : r[i] = s[m + i - 1]
  BY <1>2, SubSeqProperties
<1>4. DOMAIN r = 1..l /\ l \in Nat
  BY <1>3, LenProperties
<1>5. \A i \in 1..l : i \in 1..n - m + 1 /\ m + i - 1 \in m..n /\ r[i] = s[m + i - 1]
  BY <1>3
<1> HIDE DEF r, l
<1>6. IsInjective(r)
  <2>1. ASSUME NEW i \in 1..l, NEW k \in 1..l, r[i] = r[k]
        PROVE  i = k
    <3>1. m + i - 1 = m + k - 1
      BY <1>1, <1>2, <1>5, <2>1
    <3> QED  BY <1>4, <3>1
  <2> QED  BY <1>4, <2>1 DEF IsInjective
<1>7. Range(r) = {s[i] : i \in m..n}
  <2>1. \A i \in m..n : i - m + 1 \in 1..l /\ m + (i - m + 1) - 1 = i
    BY DEF l
  <2>2. \A i \in m..n : i - m + 1 \in DOMAIN r /\ s[i] = r[i - m + 1]
    BY <1>4, <1>5, <2>1
  <2>3. \A x : x \in Range(r) => \E i \in m..n : x = s[i]
    BY <1>4, <1>5 DEF Range
  <2>4. \A x : (\E i \in m..n : x = s[i]) => x \in Range(r)
    BY <2>2 DEF Range
  <2> QED  BY <2>3, <2>4
<1> QED  BY <1>3, <1>6, <1>7 DEF Listed, r, l

LEMMA PlacedList ==
    ASSUME NEW s, Listed(s), NEW at \in 0..Len(s), NEW ps, Listed(ps), Range(s) \cap Range(ps) = {}
    PROVE  /\ Listed(Placed(s, at, ps)) /\ Range(Placed(s, at, ps)) = Range(s) \cup Range(ps)
           /\ Len(Placed(s, at, ps)) = Len(s) + Len(ps)
<1> DEFINE head == SubSeq(s, 1, at)
           tail == SubSeq(s, at + 1, Len(s))
<1>1. s \in Seq(Nat) /\ Len(s) \in Nat /\ DOMAIN s = 1..Len(s) /\ at \in Nat /\ at <= Len(s)
      /\ \A i, k \in 1..Len(s) : s[i] = s[k] => i = k
  BY LenProperties DEF Listed, IsInjective
<1>2. Listed(head) /\ Range(head) = {s[i] : i \in 1..at} /\ Len(head) = at
  <2>1. Listed(head) /\ Range(head) = {s[i] : i \in 1..at}
        /\ Len(head) = IF 1 <= at THEN at - 1 + 1 ELSE 0
    BY <1>1, Stretch
  <2> QED  BY <1>1, <2>1
<1>3. Listed(tail) /\ Range(tail) = {s[i] : i \in at + 1..Len(s)} /\ Len(tail) = Len(s) - at
  <2>1. at + 1 \in Nat \ {0} /\ Len(s) <= Len(s)
    BY <1>1
  <2>2. Listed(tail) /\ Range(tail) = {s[i] : i \in at + 1..Len(s)}
        /\ Len(tail) = IF at + 1 <= Len(s) THEN Len(s) - (at + 1) + 1 ELSE 0
    BY <1>1, <2>1, Stretch
  <2>3. \A a, l \in Nat : a <= l =>
            (IF a + 1 <= l THEN l - (a + 1) + 1 ELSE 0) = l - a
    OBVIOUS
  <2>4. at \in Nat /\ Len(s) \in Nat /\ at <= Len(s)
    BY <1>1
  <2>5. Len(tail) = Len(s) - at
    BY <2>2, <2>3, <2>4
  <2> QED  BY <2>2, <2>5
<1>4. Range(head) \cup Range(tail) = Range(s)
  <2>1. Range(s) = {s[i] : i \in 1..Len(s)}
    BY <1>1 DEF Range
  <2>2. \A i \in 1..Len(s) : i \in 1..at \/ i \in at + 1..Len(s)
    BY <1>1
  <2>3. \A i : i \in 1..at \/ i \in at + 1..Len(s) => i \in 1..Len(s)
    BY <1>1
  <2> QED  BY <1>2, <1>3, <2>1, <2>2, <2>3
<1>5. Range(head) \cap Range(tail) = {}
  <2>1. \A i \in 1..at, k \in at + 1..Len(s) : s[i] # s[k]
    BY <1>1
  <2> QED  BY <1>2, <1>3, <2>1
<1> HIDE DEF head, tail
<1>6. /\ Listed(head \o ps) /\ Range(head \o ps) = Range(head) \cup Range(ps)
      /\ Len(head \o ps) = at + Len(ps)
  BY <1>2, <1>4, Joined
<1>7. Range(head \o ps) \cap Range(tail) = {}
  BY <1>4, <1>5, <1>6
<1>8. /\ Listed((head \o ps) \o tail)
      /\ Range((head \o ps) \o tail) = Range(head \o ps) \cup Range(tail)
      /\ Len((head \o ps) \o tail) = Len(head \o ps) + Len(tail)
  BY <1>3, <1>6, <1>7, Joined
<1>9. Len(ps) \in Nat
  BY DEF Listed
<1>10. Placed(s, at, ps) = (head \o ps) \o tail
  BY DEF Placed, head, tail
<1>11. Listed(Placed(s, at, ps))
  BY <1>8, <1>10
<1>12. Range(Placed(s, at, ps)) = Range(s) \cup Range(ps)
  BY <1>4, <1>6, <1>8, <1>10
<1>13. Len(Placed(s, at, ps)) = (at + Len(ps)) + (Len(s) - at)
  BY <1>3, <1>6, <1>8, <1>10
<1>14. (at + Len(ps)) + (Len(s) - at) = Len(s) + Len(ps)
  BY <1>1, <1>9
<1> QED  BY <1>11, <1>12, <1>13, <1>14

LEMMA PositionIs ==
    ASSUME NEW s, Listed(s), NEW p \in Range(s)
    PROVE  Position(s, p) \in 1..Len(s) /\ s[Position(s, p)] = p
<1>1. \E i \in 1..Len(s) : s[i] = p
  BY LenProperties DEF Listed, Range
<1> QED  BY <1>1 DEF Position

LEMMA WithoutList ==
    ASSUME NEW s, Listed(s), NEW p \in Range(s)
    PROVE  /\ Listed(Without(s, p)) /\ Range(Without(s, p)) = Range(s) \ {p}
           /\ Len(Without(s, p)) = Len(s) - 1
<1> DEFINE at == Position(s, p)
           head == SubSeq(s, 1, at - 1)
           tail == SubSeq(s, at + 1, Len(s))
<1>1. s \in Seq(Nat) /\ Len(s) \in Nat /\ DOMAIN s = 1..Len(s)
      /\ \A i, k \in 1..Len(s) : s[i] = s[k] => i = k
  BY LenProperties DEF Listed, IsInjective
<1>2. at \in 1..Len(s) /\ s[at] = p
  BY PositionIs
<1> HIDE DEF at
<1>3. Listed(head) /\ Range(head) = {s[i] : i \in 1..at - 1} /\ Len(head) = at - 1
  <2>1. at - 1 \in Nat /\ at - 1 <= Len(s)
    <3>1. \A l \in Nat : \A a \in 1..l : a - 1 \in Nat /\ a - 1 <= l
      OBVIOUS
    <3>2. Len(s) \in Nat
      BY <1>1
    <3> QED  BY <1>2, <3>1, <3>2
  <2>2. Listed(head) /\ Range(head) = {s[i] : i \in 1..at - 1}
        /\ Len(head) = IF 1 <= at - 1 THEN (at - 1) - 1 + 1 ELSE 0
    <3>1. Listed(SubSeq(s, 1, at - 1)) /\ Range(SubSeq(s, 1, at - 1)) = {s[i] : i \in 1..at - 1}
          /\ Len(SubSeq(s, 1, at - 1)) = IF 1 <= at - 1 THEN (at - 1) - 1 + 1 ELSE 0
      <4> HIDE DEF head, tail
      <4>1. 1 \in Nat \ {0}
        OBVIOUS
      <4> QED  BY <2>1, <4>1, Stretch
    <3> QED  BY <3>1
  <2> QED  BY <1>2, <2>2
<1>4. Listed(tail) /\ Range(tail) = {s[i] : i \in at + 1..Len(s)} /\ Len(tail) = Len(s) - at
  <2>1. at + 1 \in Nat \ {0} /\ Len(s) <= Len(s)
    BY <1>1, <1>2
  <2>2. Listed(tail) /\ Range(tail) = {s[i] : i \in at + 1..Len(s)}
        /\ Len(tail) = IF at + 1 <= Len(s) THEN Len(s) - (at + 1) + 1 ELSE 0
    <3>1. Listed(SubSeq(s, at + 1, Len(s)))
          /\ Range(SubSeq(s, at + 1, Len(s))) = {s[i] : i \in at + 1..Len(s)}
          /\ Len(SubSeq(s, at + 1, Len(s))) = IF at + 1 <= Len(s) THEN Len(s) - (at + 1) + 1 ELSE 0
      <4> HIDE DEF head, tail
      <4> QED  BY <1>1, <2>1, Stretch
    <3> QED  BY <3>1
  <2>3. \A a, l \in Nat : a <= l =>
            (IF a + 1 <= l THEN l - (a + 1) + 1 ELSE 0) = l - a
    OBVIOUS
  <2>4. at \in Nat /\ Len(s) \in Nat /\ at <= Len(s)
    BY <1>1, <1>2
  <2>5. Len(tail) = Len(s) - at
    BY <2>2, <2>3, <2>4
  <2> QED  BY <2>2, <2>5
<1>5. Range(head) \cup Range(tail) = Range(s) \ {p}
  <2>1. Range(s) = {s[i] : i \in 1..Len(s)}
    BY <1>1 DEF Range
  <2>2. \A i \in 1..Len(s) : s[i] # p => i \in 1..at - 1 \/ i \in at + 1..Len(s)
    BY <1>2
  <2>3. \A i : i \in 1..at - 1 \/ i \in at + 1..Len(s) => i \in 1..Len(s) /\ i # at /\ s[i] # p
    BY <1>1, <1>2
  <2> QED  BY <1>3, <1>4, <2>1, <2>2, <2>3
<1>6. Range(head) \cap Range(tail) = {}
  <2>1. \A i \in 1..at - 1, k \in at + 1..Len(s) : s[i] # s[k]
    BY <1>1, <1>2
  <2> QED  BY <1>3, <1>4, <2>1
<1> HIDE DEF head, tail
<1>7. /\ Listed(head \o tail) /\ Range(head \o tail) = Range(head) \cup Range(tail)
      /\ Len(head \o tail) = Len(head) + Len(tail)
  BY <1>3, <1>4, <1>6, Joined
<1>8. Without(s, p) = head \o tail
  BY DEF Without, RemoveAt, head, tail, at
<1>9. Listed(Without(s, p)) /\ Range(Without(s, p)) = Range(s) \ {p}
  BY <1>5, <1>7, <1>8
<1>10. Len(Without(s, p)) = (at - 1) + (Len(s) - at)
  BY <1>3, <1>4, <1>7, <1>8
<1>11. (at - 1) + (Len(s) - at) = Len(s) - 1
  BY <1>1, <1>2
<1> QED  BY <1>9, <1>10, <1>11

LEMMA MovedList ==
    ASSUME NEW s, Listed(s), NEW p \in Range(s), NEW after, after # p,
           after = None \/ after \in Range(s)
    PROVE  /\ Listed(Moved(s, p, after)) /\ Range(Moved(s, p, after)) = Range(s)
           /\ Len(Moved(s, p, after)) = Len(s)
<1> DEFINE rest == Without(s, p)
           at == After(rest, after)
<1>1. Listed(rest) /\ Range(rest) = Range(s) \ {p} /\ Len(rest) = Len(s) - 1
  BY WithoutList
<1>2. Len(s) \in Nat /\ Len(rest) \in Nat /\ p \in Nat
  <2>1. s \in Seq(Nat) /\ rest \in Seq(Nat)
    BY <1>1 DEF Listed
  <2>2. Range(s) \in SUBSET Nat
    BY <2>1, RangeOfSeq
  <2> QED  BY <2>1, <2>2, LenProperties
<1> HIDE DEF rest
<1>3. at \in 0..Len(rest)
  <2>1. CASE after = None
    BY <1>2, <2>1 DEF After
  <2>2. CASE after # None
    <3>1. after \in Range(rest)
      BY <1>1, <2>2
    <3>2. Position(rest, after) \in 1..Len(rest)
      BY <1>1, <3>1, PositionIs
    <3> QED  BY <1>2, <2>2, <3>2 DEF After
  <2> QED  BY <2>1, <2>2
<1>4. Listed(<<p>>) /\ Range(<<p>>) = {p} /\ Len(<<p>>) = 1
  <2>1. <<p>> \in Seq(Nat) /\ Len(<<p>>) = 1 /\ DOMAIN <<p>> = {1} /\ <<p>>[1] = p
    BY <1>2
  <2> QED  BY <2>1 DEF Listed, IsInjective, Range
<1>5. Range(rest) \cap Range(<<p>>) = {}
  BY <1>1, <1>4
<1> HIDE DEF at
<1>6. /\ Listed(Placed(rest, at, <<p>>)) /\ Range(Placed(rest, at, <<p>>)) = Range(rest) \cup Range(<<p>>)
      /\ Len(Placed(rest, at, <<p>>)) = Len(rest) + Len(<<p>>)
  BY <1>1, <1>3, <1>4, <1>5, PlacedList
<1>7. Moved(s, p, after) = Placed(rest, at, <<p>>)
  BY DEF Moved, rest, at
<1>8. Listed(Moved(s, p, after))
  BY <1>6, <1>7
<1>9. Range(Moved(s, p, after)) = Range(s)
  <2>1. p \in Range(s)
    OBVIOUS
  <2> QED  BY <1>1, <1>4, <1>6, <1>7, <2>1
<1>10. Len(Moved(s, p, after)) = (Len(s) - 1) + 1
  BY <1>1, <1>4, <1>6, <1>7
<1>11. (Len(s) - 1) + 1 = Len(s)
  BY <1>2
<1> QED  BY <1>8, <1>9, <1>10, <1>11
-----------------------------------------------------------------------------
\* What every document the journal can bring back is like.

IsDocument(w) ==
    w \in [order : {w.order}, pages : {w.pages}, turns : {w.turns}, graves : {w.graves},
           marks : {w.marks}, markGraves : {w.markGraves}, notes : {w.notes}, inks : {w.inks},
           redactions : {w.redactions}, redactionGraves : {w.redactionGraves}, text : {w.text}]

PagesFit(w) ==
    /\ Listed(w.order) /\ w.order # <<>>
    /\ DOMAIN w.pages = Range(w.order) /\ DOMAIN w.turns = DOMAIN w.pages
    /\ w.graves \cap DOMAIN w.pages = {}

\* Pages and the files they come from have numbers that were issued.
PagesIssued(w, page, source) ==
    /\ \A p \in DOMAIN w.pages \cup w.graves : p \in Nat \ {0} /\ p < page
    /\ \A p \in DOMAIN w.pages : w.pages[p].kind = "imported" =>
          /\ w.pages[p] = ImportedPage(w.pages[p].source, w.pages[p].page)
          /\ w.pages[p].source \in Nat /\ w.pages[p].source < source

MarksFit(w) ==
    /\ Range(w.marks) \cup Range(w.redactions) \subseteq DOMAIN w.pages
    /\ DOMAIN w.notes = DOMAIN w.marks /\ DOMAIN w.inks \subseteq DOMAIN w.marks
    /\ w.markGraves \cap DOMAIN w.marks = {}
    /\ w.redactionGraves \cap DOMAIN w.redactions = {}

TextFits(w) ==
    /\ DOMAIN w.text \subseteq DOMAIN w.pages \cup w.graves
    /\ TextChanges(w) = {} \/ DOMAIN w.redactions = {}

\* A replaced page of another file is the one placement of it.
PlacedOnce(w) ==
    \A p \in TextChanges(w), q \in DOMAIN w.pages :
        w.pages[p].kind = "imported" /\ w.pages[q] = w.pages[p] => q = p

WellFormed(w, page, source) ==
    /\ IsDocument(w) /\ PagesFit(w) /\ PagesIssued(w, page, source)
    /\ MarksFit(w) /\ TextFits(w) /\ PlacedOnce(w)

LEMMA WellFormedGrows ==
    ASSUME NEW w, NEW page \in Nat, NEW source \in Nat, NEW page2 \in Nat, NEW source2 \in Nat,
           page <= page2, source <= source2, WellFormed(w, page, source)
    PROVE  WellFormed(w, page2, source2)
  BY DEF WellFormed, PagesIssued

LEMMA ButIs ==
    ASSUME NEW f, NEW S
    PROVE  But(f, S) = [x \in DOMAIN f \ S |-> f[x]]
  BY DEF But, Restrict

LEMMA BaselineIsWellFormed ==
    ASSUME NEW page, page = Baseline + 1, NEW source \in Nat
    PROVE  WellFormed(BaselineDocument, page, source)
<1> DEFINE w == BaselineDocument
<1>1. /\ w.order = [n \in 1..Baseline |-> n] /\ w.pages = [n \in 1..Baseline |-> FilePage(n)]
      /\ w.turns = [n \in 1..Baseline |-> 0] /\ w.graves = {} /\ w.marks = Empty
      /\ w.markGraves = {} /\ w.notes = Empty /\ w.inks = Empty /\ w.redactions = Empty
      /\ w.redactionGraves = {} /\ w.text = Empty /\ IsDocument(w)
  BY DEF BaselineDocument, IsDocument
<1>2. DOMAIN Empty = {} /\ Range(Empty) = {} /\ Baseline \in Nat \ {0}
  BY BaselineAssumption DEF Empty, Range
<1>3. Listed(w.order) /\ w.order # <<>> /\ Range(w.order) = 1..Baseline
  <2> DEFINE s == [n \in 1..Baseline |-> n]
  <2>1. s \in Seq(Nat) /\ Len(s) = Baseline /\ DOMAIN s = 1..Baseline
        /\ \A n \in 1..Baseline : s[n] = n
    BY <1>2
  <2>2. s # <<>>
    BY <1>2, <2>1
  <2> HIDE DEF s
  <2>3. IsInjective(s) /\ Range(s) = 1..Baseline
    BY <2>1 DEF IsInjective, Range
  <2> QED  BY <1>1, <2>1, <2>2, <2>3 DEF Listed, s
<1> HIDE DEF w
<1>4. PagesFit(w)
  BY <1>1, <1>2, <1>3 DEF PagesFit
<1>5. PagesIssued(w, page, source)
  BY <1>1, <1>2 DEF PagesIssued, FilePage
<1>6. MarksFit(w)
  BY <1>1, <1>2 DEF MarksFit
<1>7. TextFits(w) /\ PlacedOnce(w)
  BY <1>1, <1>2 DEF TextFits, PlacedOnce, TextChanges
<1> QED  BY <1>1, <1>4, <1>5, <1>6, <1>7 DEF WellFormed, w

LEMMA RotatedFits ==
    ASSUME NEW w, NEW page, NEW source, WellFormed(w, page, source), NEW c, NEW s,
           c.kind = "rotate"
    PROVE  WellFormed(Effect(w, c, s), page, source)
<1> DEFINE v == Effect(w, c, s)
<1>1. v = [w EXCEPT !.turns[c.page] = (@ + c.turns) % 4]
  BY DEF Effect
<1>2. /\ IsDocument(v) /\ DOMAIN v.turns = DOMAIN w.turns
      /\ v.order = w.order /\ v.pages = w.pages /\ v.graves = w.graves /\ v.marks = w.marks
      /\ v.markGraves = w.markGraves /\ v.notes = w.notes /\ v.inks = w.inks
      /\ v.redactions = w.redactions /\ v.redactionGraves = w.redactionGraves /\ v.text = w.text
  BY <1>1 DEF WellFormed, IsDocument
<1> HIDE DEF v
<1> QED  BY <1>2 DEF v, WellFormed, PagesFit, PagesIssued, MarksFit, TextFits, PlacedOnce,
                 TextChanges, Live

LEMMA MovedFits ==
    ASSUME NEW w, NEW page, NEW source, WellFormed(w, page, source), NEW c, NEW s,
           c.kind = "move", Accepts(w, c, s)
    PROVE  WellFormed(Effect(w, c, s), page, source)
<1> DEFINE v == Effect(w, c, s)
<1>1. v = [w EXCEPT !.order = Moved(@, c.page, c.after)]
  BY DEF Effect, WithPageMoved
<1>2. /\ IsDocument(v) /\ v.order = Moved(w.order, c.page, c.after) /\ v.turns = w.turns
      /\ v.pages = w.pages /\ v.graves = w.graves /\ v.marks = w.marks
      /\ v.markGraves = w.markGraves /\ v.notes = w.notes /\ v.inks = w.inks
      /\ v.redactions = w.redactions /\ v.redactionGraves = w.redactionGraves /\ v.text = w.text
  BY <1>1 DEF WellFormed, IsDocument
<1>3. c.page \in Range(w.order) /\ c.after # c.page /\ (c.after = None \/ c.after \in Range(w.order))
  BY DEF Accepts, Live, Anchored, WellFormed, PagesFit
<1>4. Listed(v.order) /\ Range(v.order) = Range(w.order) /\ Len(v.order) = Len(w.order)
  BY <1>2, <1>3, MovedList DEF WellFormed, PagesFit
<1>5. v.order # <<>>
  <2>1. w.order \in Seq(Nat) /\ w.order # <<>>
    BY DEF WellFormed, PagesFit, Listed
  <2>2. Len(w.order) # 0
    BY <2>1, EmptySeq
  <2> QED  BY <1>4, <2>2
<1> HIDE DEF v
<1>6. PagesFit(v)
  BY <1>2, <1>4, <1>5 DEF WellFormed, PagesFit
<1> QED  BY <1>2, <1>6 DEF v, WellFormed, PagesIssued, MarksFit, TextFits, PlacedOnce,
                 TextChanges, Live

LEMMA WithoutMarksIs ==
    ASSUME NEW w, IsDocument(w), NEW ms, NEW v, v = WithoutMarks(w, ms)
    PROVE  /\ IsDocument(v) /\ v.marks = But(w.marks, ms) /\ v.markGraves = w.markGraves \cup ms
           /\ v.notes = But(w.notes, ms) /\ v.inks = But(w.inks, ms)
           /\ v.order = w.order /\ v.pages = w.pages /\ v.turns = w.turns /\ v.graves = w.graves
           /\ v.redactions = w.redactions /\ v.redactionGraves = w.redactionGraves
           /\ v.text = w.text
  BY DEF WithoutMarks, IsDocument

LEMMA WithoutRedactionsIs ==
    ASSUME NEW w, IsDocument(w), NEW rs, NEW v, v = WithoutRedactions(w, rs)
    PROVE  /\ IsDocument(v) /\ v.redactions = But(w.redactions, rs)
           /\ v.redactionGraves = w.redactionGraves \cup rs
           /\ v.order = w.order /\ v.pages = w.pages /\ v.turns = w.turns /\ v.graves = w.graves
           /\ v.marks = w.marks /\ v.markGraves = w.markGraves /\ v.notes = w.notes
           /\ v.inks = w.inks /\ v.text = w.text
  BY DEF WithoutRedactions, IsDocument

LEMMA DeletedFits ==
    ASSUME NEW w, NEW page, NEW source, WellFormed(w, page, source), NEW c, NEW s,
           c.kind = "delete", Accepts(w, c, s)
    PROVE  WellFormed(Effect(w, c, s), page, source)
<1> DEFINE v == Effect(w, c, s)
           p == c.page
           ms == On(w.marks, p)
           rs == On(w.redactions, p)
<1>1. v = WithoutPage(w, p) /\ p \in DOMAIN w.pages /\ Len(w.order) # 1
  BY DEF Effect, Accepts, Live
<1>2. /\ IsDocument(v) /\ v.order = Without(w.order, p)
      /\ v.pages = But(w.pages, {p}) /\ v.turns = But(w.turns, {p}) /\ v.graves = w.graves \cup {p}
      /\ v.marks = But(w.marks, ms) /\ v.markGraves = w.markGraves \cup ms
      /\ v.notes = But(w.notes, ms) /\ v.inks = But(w.inks, ms)
      /\ v.redactions = But(w.redactions, rs)
      /\ v.redactionGraves = w.redactionGraves \cup rs /\ v.text = w.text
  <2>1. PICK m : m = WithoutMarks(w, ms)
    OBVIOUS
  <2>2. PICK r : r = WithoutRedactions(m, rs)
    OBVIOUS
  <2>3. v = [r EXCEPT !.order = Without(@, p), !.graves = @ \cup {p},
                      !.pages = But(@, {p}), !.turns = But(@, {p})]
    BY <1>1, <2>1, <2>2 DEF WithoutPage
  <2>4. /\ IsDocument(m) /\ m.marks = But(w.marks, ms) /\ m.markGraves = w.markGraves \cup ms
        /\ m.notes = But(w.notes, ms) /\ m.inks = But(w.inks, ms)
        /\ m.order = w.order /\ m.pages = w.pages /\ m.turns = w.turns /\ m.graves = w.graves
        /\ m.redactions = w.redactions /\ m.redactionGraves = w.redactionGraves
        /\ m.text = w.text
    BY <2>1, WithoutMarksIs DEF WellFormed
  <2>5. /\ IsDocument(r) /\ r.redactions = But(m.redactions, rs)
        /\ r.redactionGraves = m.redactionGraves \cup rs
        /\ r.order = m.order /\ r.pages = m.pages /\ r.turns = m.turns /\ r.graves = m.graves
        /\ r.marks = m.marks /\ r.markGraves = m.markGraves /\ r.notes = m.notes
        /\ r.inks = m.inks /\ r.text = m.text
    BY <2>2, <2>4, WithoutRedactionsIs
  <2> HIDE DEF v, ms, rs
  <2>6. /\ IsDocument(v) /\ v.order = Without(r.order, p) /\ v.graves = r.graves \cup {p}
        /\ v.pages = But(r.pages, {p}) /\ v.turns = But(r.turns, {p})
        /\ v.marks = r.marks /\ v.markGraves = r.markGraves /\ v.notes = r.notes
        /\ v.inks = r.inks /\ v.redactions = r.redactions
        /\ v.redactionGraves = r.redactionGraves /\ v.text = r.text
    BY <2>3, <2>5 DEF IsDocument
  <2> QED  BY <2>4, <2>5, <2>6
<1> HIDE DEF v, ms, rs
<1>3. /\ DOMAIN v.pages = DOMAIN w.pages \ {p} /\ DOMAIN v.turns = DOMAIN w.turns \ {p}
      /\ DOMAIN v.marks = DOMAIN w.marks \ ms /\ DOMAIN v.notes = DOMAIN w.notes \ ms
      /\ DOMAIN v.inks = DOMAIN w.inks \ ms /\ DOMAIN v.redactions = DOMAIN w.redactions \ rs
      /\ \A q \in DOMAIN v.pages : v.pages[q] = w.pages[q]
      /\ \A m \in DOMAIN v.marks : v.marks[m] = w.marks[m]
      /\ \A r \in DOMAIN v.redactions : v.redactions[r] = w.redactions[r]
  BY <1>2, ButIs, ZenonT(40)
<1>4. PagesFit(v)
  <2>1. p \in Range(w.order) /\ Listed(w.order) /\ w.order # <<>>
    BY <1>1 DEF WellFormed, PagesFit
  <2>2. /\ Listed(v.order) /\ Range(v.order) = Range(w.order) \ {p}
        /\ Len(v.order) = Len(w.order) - 1
    BY <1>2, <2>1, WithoutList
  <2>3. v.order # <<>>
    <3>1. Len(w.order) \in Nat \ {0}
      BY <2>1, EmptySeq DEF Listed
    <3>2. Len(v.order) # 0
      BY <1>1, <2>2, <3>1
    <3> QED  BY <3>2
  <2>4. v.graves \cap DOMAIN v.pages = {}
    BY <1>2, <1>3 DEF WellFormed, PagesFit
  <2> QED  BY <1>3, <2>2, <2>3, <2>4 DEF WellFormed, PagesFit
<1>5. PagesIssued(v, page, source)
  <2>1. \A q \in DOMAIN v.pages \cup v.graves : q \in DOMAIN w.pages \cup w.graves
    BY <1>1, <1>2, <1>3
  <2>2. \A q \in DOMAIN v.pages : q \in DOMAIN w.pages /\ v.pages[q] = w.pages[q]
    BY <1>3
  <2> HIDE DEF p
  <2> QED  BY <2>1, <2>2 DEF WellFormed, PagesIssued
<1>6. MarksFit(v)
  <2>1. \A m \in DOMAIN v.marks : v.marks[m] \in DOMAIN v.pages
    BY <1>3 DEF WellFormed, MarksFit, Range, ms, On
  <2>2. \A r \in DOMAIN v.redactions : v.redactions[r] \in DOMAIN v.pages
    BY <1>3 DEF WellFormed, MarksFit, Range, rs, On
  <2>3. Range(v.marks) \cup Range(v.redactions) \subseteq DOMAIN v.pages
    BY <2>1, <2>2 DEF Range
  <2> QED  BY <1>2, <1>3, <2>3 DEF WellFormed, MarksFit
<1>7. TextFits(v) /\ PlacedOnce(v)
  <2>1. TextChanges(v) \subseteq TextChanges(w)
    BY <1>2, <1>3 DEF TextChanges, Live
  <2>2. TextFits(v)
    BY <1>1, <1>2, <1>3, <2>1 DEF WellFormed, TextFits
  <2>3. \A q \in TextChanges(v) : q \in DOMAIN v.pages
    BY DEF TextChanges, Live
  <2> QED  BY <1>3, <2>1, <2>2, <2>3 DEF WellFormed, PlacedOnce
<1> QED  BY <1>2, <1>4, <1>5, <1>6, <1>7 DEF WellFormed, v
\* Pages with numbers not issued before, none of them one whose text was
\* replaced, go in between the others.
LEMMA AddedFits ==
    ASSUME NEW w, NEW page \in Nat, NEW source \in Nat, WellFormed(w, page, source),
           NEW page2 \in Nat, NEW source2 \in Nat, page <= page2, source <= source2,
           NEW after, Anchored(w, after), NEW ids, Listed(ids), NEW from, DOMAIN from = Range(ids),
           \A p \in DOMAIN from :
              /\ p \in Nat \ {0} /\ page <= p /\ p < page2
              /\ from[p].kind = "imported" =>
                    /\ from[p] = ImportedPage(from[p].source, from[p].page)
                    /\ from[p].source \in Nat /\ from[p].source < source2,
           \A p \in DOMAIN from, q \in TextChanges(w) :
              w.pages[q].kind = "imported" => from[p] # w.pages[q]
    PROVE  WellFormed(WithPages(w, after, ids, from), page2, source2)
<1> DEFINE v == WithPages(w, after, ids, from)
<1>0. /\ IsDocument(w) /\ PagesFit(w) /\ PagesIssued(w, page, source)
      /\ MarksFit(w) /\ TextFits(w) /\ PlacedOnce(w)
  BY DEF WellFormed
<1>1. /\ IsDocument(v) /\ v.order = Placed(w.order, After(w.order, after), ids)
      /\ v.pages = Over(from, w.pages) /\ v.turns = Over([p \in DOMAIN from |-> 0], w.turns)
      /\ v.graves = w.graves /\ v.marks = w.marks /\ v.markGraves = w.markGraves
      /\ v.notes = w.notes /\ v.inks = w.inks /\ v.redactions = w.redactions
      /\ v.redactionGraves = w.redactionGraves /\ v.text = w.text
  BY <1>0 DEF WithPages, IsDocument
<1> HIDE DEF v
<1>2. DOMAIN from \cap (DOMAIN w.pages \cup w.graves) = {}
  BY <1>0 DEF PagesIssued
<1>3. /\ DOMAIN v.pages = DOMAIN from \cup DOMAIN w.pages
      /\ DOMAIN v.turns = DOMAIN from \cup DOMAIN w.turns
      /\ \A p \in DOMAIN from : v.pages[p] = from[p]
      /\ \A p \in DOMAIN w.pages : v.pages[p] = w.pages[p]
  <2>1. v.pages = [p \in DOMAIN from \cup DOMAIN w.pages |->
                      IF p \in DOMAIN from THEN from[p] ELSE w.pages[p]]
    BY <1>1 DEF Over
  <2>2. DOMAIN v.turns = DOMAIN from \cup DOMAIN w.turns
    BY <1>1 DEF Over
  <2> QED  BY <1>2, <2>1, <2>2
<1>4. /\ Listed(v.order) /\ Range(v.order) = Range(w.order) \cup Range(ids)
      /\ Len(v.order) = Len(w.order) + Len(ids)
  <2>1. After(w.order, after) \in 0..Len(w.order)
    <3>1. Len(w.order) \in Nat
      BY <1>0 DEF PagesFit, Listed
    <3>2. CASE after = None
      BY <3>1, <3>2 DEF After
    <3>3. CASE after # None
      <4>1. after \in Range(w.order)
        BY <1>0, <3>3 DEF Anchored, Live, PagesFit
      <4>2. Position(w.order, after) \in 1..Len(w.order)
        BY <1>0, <4>1, PositionIs DEF PagesFit
      <4> QED  BY <3>1, <3>3, <4>2 DEF After
    <3> QED  BY <3>2, <3>3
  <2>2. Range(w.order) \cap Range(ids) = {}
    BY <1>0, <1>2 DEF PagesFit
  <2> QED  BY <1>0, <1>1, <2>1, <2>2, PlacedList DEF PagesFit
<1>5. PagesFit(v)
  <2>1. v.order # <<>>
    <3>1. Len(w.order) \in Nat \ {0} /\ Len(ids) \in Nat
      BY <1>0, EmptySeq DEF PagesFit, Listed
    <3>2. Len(v.order) # 0
      BY <1>4, <3>1
    <3> QED  BY <3>2
  <2>2. v.graves \cap DOMAIN v.pages = {}
    BY <1>0, <1>1, <1>2, <1>3 DEF PagesFit
  <2> QED  BY <1>0, <1>3, <1>4, <2>1, <2>2 DEF PagesFit
<1>6. PagesIssued(v, page2, source2)
  <2>1. \A p \in DOMAIN v.pages \cup v.graves :
           p \in DOMAIN from \/ p \in DOMAIN w.pages \cup w.graves
    BY <1>1, <1>3
  <2>2. \A p \in DOMAIN v.pages \cup v.graves : p \in Nat \ {0} /\ p < page2
    BY <1>0, <2>1 DEF PagesIssued
  <2>3. ASSUME NEW p \in DOMAIN v.pages, v.pages[p].kind = "imported"
        PROVE  /\ v.pages[p] = ImportedPage(v.pages[p].source, v.pages[p].page)
               /\ v.pages[p].source \in Nat /\ v.pages[p].source < source2
    <3>1. CASE p \in DOMAIN from
      BY <1>3, <2>3, <3>1
    <3>2. CASE p \in DOMAIN w.pages
      BY <1>0, <1>3, <2>3, <3>2 DEF PagesIssued
    <3> QED  BY <1>3, <3>1, <3>2
  <2> QED  BY <2>2, <2>3 DEF PagesIssued
<1>7. MarksFit(v)
  BY <1>0, <1>1, <1>3 DEF MarksFit
<1>8. TextChanges(v) = TextChanges(w)
  BY <1>0, <1>1, <1>2, <1>3 DEF TextChanges, Live, TextFits
<1>9. TextFits(v)
  BY <1>0, <1>1, <1>3, <1>8 DEF TextFits
<1>10. PlacedOnce(v)
  <2>1. ASSUME NEW p \in TextChanges(v), NEW q \in DOMAIN v.pages,
               v.pages[p].kind = "imported", v.pages[q] = v.pages[p]
        PROVE  q = p
    <3>1. p \in TextChanges(w) /\ p \in DOMAIN w.pages /\ v.pages[p] = w.pages[p]
      BY <1>3, <1>8 DEF TextChanges, Live
    <3>2. CASE q \in DOMAIN from
      BY <1>3, <2>1, <3>1, <3>2
    <3>3. CASE q \in DOMAIN w.pages
      BY <1>0, <1>3, <2>1, <3>1, <3>3 DEF PlacedOnce
    <3> QED  BY <1>3, <3>2, <3>3
  <2> QED  BY <2>1 DEF PlacedOnce
<1> QED  BY <1>1, <1>5, <1>6, <1>7, <1>9, <1>10 DEF WellFormed, v

LEMMA InsertedFits ==
    ASSUME NEW w, NEW page \in Nat \ {0}, NEW source \in Nat, WellFormed(w, page, source),
           NEW c, NEW s, c.kind = "insert", Accepts(w, c, s), c.page = page
    PROVE  WellFormed(Effect(w, c, s), page + 1, source)
<1> DEFINE from == [p \in {page} |-> Blank]
           ids == <<page>>
<1>1. Effect(w, c, s) = WithPages(w, c.after, ids, from) /\ Anchored(w, c.after)
  BY DEF Effect, Accepts
<1>2. Listed(ids) /\ Range(ids) = {page}
  <2>1. ids \in Seq(Nat) /\ DOMAIN ids = {1} /\ ids[1] = page
    OBVIOUS
  <2> QED  BY <2>1 DEF Listed, IsInjective, Range
<1>3. DOMAIN from = {page} /\ from[page] = Blank /\ Blank.kind = "blank"
  BY DEF Blank
<1>4. \A p \in DOMAIN from, q \in TextChanges(w) :
         w.pages[q].kind = "imported" => from[p] # w.pages[q]
  BY <1>3
<1>5. page \in Nat /\ page + 1 \in Nat /\ page <= page + 1 /\ source <= source /\ page < page + 1
  OBVIOUS
<1>6. \A p \in DOMAIN from : p \in Nat \ {0} /\ page <= p /\ p < page + 1 /\ from[p].kind # "imported"
  BY <1>3
<1> HIDE DEF from, ids
<1> QED  BY <1>1, <1>2, <1>3, <1>4, <1>5, <1>6, AddedFits

LEMMA ImportedFits ==
    ASSUME NEW w, NEW page \in Nat \ {0}, NEW source \in Nat, WellFormed(w, page, source),
           NEW c, NEW s, c.kind = "import", Accepts(w, c, s), NEW n \in Nat \ {0},
           NEW source2 \in Nat, source <= source2, NEW x, x = s[c.selection],
           DOMAIN x.pages = 1..n, \A i \in 1..n : x.pages[i].id = page + i - 1,
           \A i, k \in 1..n : x.pages[i].page = x.pages[k].page => i = k,
           x.source \in Nat, x.source < source2,
           \/ x.source = source
           \/ \A i \in 1..n : x.pages[i].page \notin EditedPagesOf(w, x.source)
    PROVE  WellFormed(Effect(w, c, s), page + n, source2)
<1> DEFINE ids == [i \in 1..n |-> page + i - 1]
           from == Imported(x)
<1>1. /\ Effect(w, c, s) = WithPages(w, c.after, [i \in 1..n |-> x.pages[i].id], from)
      /\ Anchored(w, c.after)
  BY DEF Effect, Accepts
<1>2. [i \in 1..n |-> x.pages[i].id] = ids
  OBVIOUS
<1>3. Listed(ids) /\ Range(ids) = page..page + n - 1
  <2>1. ids \in Seq(Nat) /\ DOMAIN ids = 1..n /\ \A i \in 1..n : ids[i] = page + i - 1
    BY SMTT(30)
  <2> HIDE DEF ids
  <2>2. IsInjective(ids)
    BY <2>1 DEF IsInjective
  <2>3. \A p \in page..page + n - 1 : p - page + 1 \in DOMAIN ids /\ ids[p - page + 1] = p
    BY <2>1, SMTT(30)
  <2>4. \A i \in DOMAIN ids : ids[i] \in page..page + n - 1
    BY <2>1, SMTT(30)
  <2>5. \A p : p \in Range(ids) <=> p \in page..page + n - 1
    BY <2>3, <2>4 DEF Range
  <2>6. Range(ids) = page..page + n - 1
    BY <2>5
  <2> QED  BY <2>1, <2>2, <2>6 DEF Listed
<1>4. DOMAIN from = Range(ids)
  <2>1. DOMAIN from = {x.pages[i].id : i \in 1..n}
    BY DEF Imported
  <2>2. Range([i \in 1..n |-> x.pages[i].id]) = {x.pages[i].id : i \in 1..n}
    BY DEF Range
  <2> HIDE DEF ids, from
  <2> QED  BY <1>2, <2>1, <2>2
<1>5. \A p \in DOMAIN from : \E i \in 1..n : from[p] = ImportedPage(x.source, x.pages[i].page)
  BY DEF Imported
<1>6. \A p \in DOMAIN from :
         /\ p \in Nat \ {0} /\ page <= p /\ p < page + n
         /\ from[p].kind = "imported" =>
               /\ from[p] = ImportedPage(from[p].source, from[p].page)
               /\ from[p].source \in Nat /\ from[p].source < source2
  <2>1. \A p \in DOMAIN from : p \in page..page + n - 1
    BY <1>3, <1>4
  <2>2. \A p \in DOMAIN from : from[p].source = x.source
                               /\ from[p] = ImportedPage(from[p].source, from[p].page)
    <3> SUFFICES ASSUME NEW p \in DOMAIN from
                 PROVE  from[p].source = x.source
                        /\ from[p] = ImportedPage(from[p].source, from[p].page)
      OBVIOUS
    <3>1. PICK i \in 1..n : from[p] = ImportedPage(x.source, x.pages[i].page)
      BY <1>5
    <3>2. from[p].source = x.source /\ from[p].page = x.pages[i].page
      BY <3>1 DEF ImportedPage
    <3> QED  BY <3>1, <3>2
  <2> QED  BY <2>1, <2>2
<1>7. ASSUME NEW p \in DOMAIN from, NEW q \in TextChanges(w), w.pages[q].kind = "imported",
             from[p] = w.pages[q]
      PROVE  FALSE
  <2>1. PICK i \in 1..n : from[p] = ImportedPage(x.source, x.pages[i].page)
    BY <1>5
  <2>2. w.pages[q].source = x.source /\ w.pages[q].page = x.pages[i].page
    BY <1>7, <2>1 DEF ImportedPage
  <2>3. q \in DOMAIN w.text /\ q \in DOMAIN w.pages
    BY DEF TextChanges, Live
  <2>4. x.source < source
    BY <1>7, <2>2, <2>3 DEF WellFormed, PagesIssued
  <2>5. x.pages[i].page \in EditedPagesOf(w, x.source)
    BY <1>7, <2>2, <2>3 DEF EditedPagesOf, Live
  <2> QED  BY <2>4, <2>5
<1>8. page \in Nat /\ page + n \in Nat /\ page <= page + n
  OBVIOUS
<1>9. \A p \in DOMAIN from, q \in TextChanges(w) :
         w.pages[q].kind = "imported" => from[p] # w.pages[q]
  BY <1>7
<1> HIDE DEF from, ids
<1>10. WellFormed(WithPages(w, c.after, ids, from), page + n, source2)
  BY <1>1, <1>3, <1>4, <1>6, <1>8, <1>9, AddedFits
<1> QED  BY <1>1, <1>2, <1>10
LEMMA ReplacedFits ==
    ASSUME NEW w, NEW page, NEW source, WellFormed(w, page, source), NEW c, NEW s,
           c.kind = "replaceText", Accepts(w, c, s), DOMAIN w.redactions = {},
           w.pages[c.page].kind = "imported" =>
              PlacementsOf(w, w.pages[c.page].source, w.pages[c.page].page) <= 1
    PROVE  WellFormed(Effect(w, c, s), page, source)
<1> DEFINE v == Effect(w, c, s)
           p == c.page
<1>0. /\ IsDocument(w) /\ PagesFit(w) /\ PagesIssued(w, page, source)
      /\ MarksFit(w) /\ TextFits(w) /\ PlacedOnce(w)
  BY DEF WellFormed
<1>1. /\ v = [w EXCEPT !.text = IF c.version = None THEN But(@, {p}) ELSE With(@, p, c.version)]
      /\ p \in DOMAIN w.pages
  BY DEF Effect, Accepts, Live
<1>2. /\ IsDocument(v) /\ v.order = w.order /\ v.pages = w.pages /\ v.turns = w.turns
      /\ v.graves = w.graves /\ v.marks = w.marks /\ v.markGraves = w.markGraves
      /\ v.notes = w.notes /\ v.inks = w.inks /\ v.redactions = w.redactions
      /\ v.redactionGraves = w.redactionGraves
      /\ v.text = IF c.version = None THEN But(w.text, {p}) ELSE With(w.text, p, c.version)
  BY <1>0, <1>1 DEF IsDocument
<1> HIDE DEF v
<1>3. DOMAIN v.text \subseteq DOMAIN w.text \cup {p}
  <2>1. DOMAIN But(w.text, {p}) = DOMAIN w.text \ {p}
    BY ButIs
  <2>2. DOMAIN With(w.text, p, c.version) = DOMAIN w.text \cup {p}
    BY WithIs
  <2> QED  BY <1>2, <2>1, <2>2
<1>4. TextFits(v)
  BY <1>0, <1>1, <1>2, <1>3 DEF TextFits
<1>5. ASSUME NEW q \in DOMAIN w.pages, w.pages[p].kind = "imported", w.pages[q] = w.pages[p]
      PROVE  q = p
  <2> DEFINE S == {r \in DOMAIN w.pages : w.pages[r] = ImportedPage(w.pages[p].source, w.pages[p].page)}
  <2>1. w.pages[p] = ImportedPage(w.pages[p].source, w.pages[p].page)
    BY <1>0, <1>1, <1>5 DEF PagesIssued
  <2>2. p \in S /\ q \in S
    BY <1>1, <1>5, <2>1
  <2>3. Cardinality(S) <= 1
    BY <1>5 DEF PlacementsOf
  <2>4. IsFiniteSet(DOMAIN w.pages)
    <3>1. w.order \in Seq(Nat) /\ DOMAIN w.pages = Range(w.order)
      BY <1>0 DEF PagesFit, Listed
    <3>2. Len(w.order) \in Nat /\ DOMAIN w.order = 1..Len(w.order)
      BY <3>1, LenProperties
    <3>4. IsFiniteSet(1..Len(w.order))
      BY <3>2, FS_Interval
    <3>3. w.order \in Surjection(1..Len(w.order), Range(w.order))
      BY <3>1, <3>2 DEF Surjection, Range
    <3> QED  BY <3>1, <3>3, <3>4, FS_Surjection
  <2>5. IsFiniteSet(S)
    BY <2>4, FS_Subset
  <2> HIDE DEF S
  <2>6. IsFiniteSet({p, q}) /\ Cardinality({p, q}) <= Cardinality(S)
    BY <2>2, <2>5, FS_Subset
  <2>7. ASSUME q # p
        PROVE  Cardinality({p, q}) = 2
    <3>1. IsFiniteSet({p}) /\ Cardinality({p}) = 1
      BY FS_Singleton
    <3>2. Cardinality({p} \cup {q}) = 2
      BY <2>7, <3>1, FS_AddElement, SMTT(30)
    <3>3. {p} \cup {q} = {p, q}
      OBVIOUS
    <3> QED  BY <3>2, <3>3
  <2>8. Cardinality(S) \in Nat
    BY <2>5, FS_CardinalityType
  <2> QED  BY <2>3, <2>6, <2>7, <2>8
<1>6. PlacedOnce(v)
  <2>1. ASSUME NEW r \in TextChanges(v), NEW q \in DOMAIN v.pages,
               v.pages[r].kind = "imported", v.pages[q] = v.pages[r]
        PROVE  q = r
    <3>1. CASE r = p
      BY <1>2, <1>5, <2>1, <3>1
    <3>2. CASE r # p
      <4>1. r \in TextChanges(w)
        BY <1>2, <1>3, <3>2 DEF TextChanges, Live
      <4> QED  BY <1>0, <1>2, <2>1, <4>1 DEF PlacedOnce
    <3> QED  BY <3>1, <3>2
  <2> QED  BY <2>1 DEF PlacedOnce
<1>7. PagesFit(v) /\ PagesIssued(v, page, source) /\ MarksFit(v)
  BY <1>0, <1>2 DEF PagesFit, PagesIssued, MarksFit
<1> QED  BY <1>2, <1>4, <1>6, <1>7 DEF WellFormed, v

\* The commands that write marks and redactions leave pages and text alone.
LEMMA OthersStay ==
    ASSUME NEW w, NEW page, NEW source, WellFormed(w, page, source), NEW v, IsDocument(v),
           v.order = w.order, v.pages = w.pages, v.turns = w.turns, v.graves = w.graves,
           v.text = w.text, MarksFit(v), TextChanges(w) = {} \/ DOMAIN v.redactions = {}
    PROVE  WellFormed(v, page, source)
  BY DEF WellFormed, PagesFit, PagesIssued, TextFits, PlacedOnce, TextChanges, Live

LEMMA AnnotatedFits ==
    ASSUME NEW w, NEW page, NEW source, WellFormed(w, page, source), NEW c, NEW s,
           c.kind = "annotate", Accepts(w, c, s)
    PROVE  WellFormed(Effect(w, c, s), page, source)
<1> DEFINE v == Effect(w, c, s)
<1>1. /\ v = [w EXCEPT !.marks = With(@, c.mark, c.page), !.notes = With(@, c.mark, c.note),
                       !.markGraves = @ \ {c.mark}]
      /\ c.page \in DOMAIN w.pages
  BY DEF Effect, Accepts, Live
<1>2. /\ IsDocument(v) /\ v.order = w.order /\ v.pages = w.pages /\ v.turns = w.turns
      /\ v.graves = w.graves /\ v.text = w.text /\ v.inks = w.inks
      /\ v.redactions = w.redactions /\ v.redactionGraves = w.redactionGraves
      /\ v.marks = With(w.marks, c.mark, c.page) /\ v.notes = With(w.notes, c.mark, c.note)
      /\ v.markGraves = w.markGraves \ {c.mark}
  BY <1>1 DEF WellFormed, IsDocument
<1> HIDE DEF v
<1>3. v.marks = [m \in DOMAIN w.marks \cup {c.mark} |->
                    IF m = c.mark THEN c.page ELSE w.marks[m]]
  BY <1>2, WithIs
<1>4. DOMAIN v.notes = DOMAIN w.notes \cup {c.mark}
  BY <1>2, WithIs
<1>5. \A m \in DOMAIN v.marks : v.marks[m] \in DOMAIN w.pages
  BY <1>1, <1>3 DEF WellFormed, MarksFit, Range
<1>6. Range(v.marks) \subseteq DOMAIN w.pages
  BY <1>5 DEF Range
<1>7. MarksFit(v)
  BY <1>2, <1>3, <1>4, <1>6 DEF WellFormed, MarksFit
<1>8. TextChanges(w) = {} \/ DOMAIN v.redactions = {}
  BY <1>2 DEF WellFormed, TextFits
<1>9. WellFormed(v, page, source)
  BY <1>2, <1>7, <1>8, OthersStay
<1> QED  BY <1>9 DEF v

LEMMA UnannotatedFits ==
    ASSUME NEW w, NEW page, NEW source, WellFormed(w, page, source), NEW c, NEW s,
           c.kind = "unannotate"
    PROVE  WellFormed(Effect(w, c, s), page, source)
<1> DEFINE v == Effect(w, c, s)
<1>1. v = WithoutMarks(w, {c.mark})
  BY DEF Effect
<1> HIDE DEF v
<1>2. /\ IsDocument(v) /\ v.marks = But(w.marks, {c.mark})
      /\ v.markGraves = w.markGraves \cup {c.mark}
      /\ v.notes = But(w.notes, {c.mark}) /\ v.inks = But(w.inks, {c.mark})
      /\ v.order = w.order /\ v.pages = w.pages /\ v.turns = w.turns /\ v.graves = w.graves
      /\ v.redactions = w.redactions /\ v.redactionGraves = w.redactionGraves
      /\ v.text = w.text
  BY <1>1, WithoutMarksIs DEF WellFormed
<1>3. /\ DOMAIN v.marks = DOMAIN w.marks \ {c.mark} /\ DOMAIN v.notes = DOMAIN w.notes \ {c.mark}
      /\ DOMAIN v.inks = DOMAIN w.inks \ {c.mark}
      /\ \A m \in DOMAIN v.marks : v.marks[m] = w.marks[m]
  BY <1>2, ButIs
<1>4. Range(v.marks) \subseteq DOMAIN w.pages
  BY <1>3 DEF WellFormed, MarksFit, Range
<1>5. MarksFit(v)
  BY <1>2, <1>3, <1>4 DEF WellFormed, MarksFit
<1>6. TextChanges(w) = {} \/ DOMAIN v.redactions = {}
  BY <1>2 DEF WellFormed, TextFits
<1>7. WellFormed(v, page, source)
  BY <1>2, <1>5, <1>6, OthersStay
<1> QED  BY <1>7 DEF v

LEMMA ReinkedFits ==
    ASSUME NEW w, NEW page, NEW source, WellFormed(w, page, source), NEW c, NEW s,
           c.kind = "reink", Accepts(w, c, s)
    PROVE  WellFormed(Effect(w, c, s), page, source)
<1> DEFINE v == Effect(w, c, s)
<1>1. v = [w EXCEPT !.inks = With(@, c.mark, c.ink)] /\ c.mark \in DOMAIN w.marks
  BY DEF Effect, Accepts, LiveMark
<1>2. /\ IsDocument(v) /\ v.order = w.order /\ v.pages = w.pages /\ v.turns = w.turns
      /\ v.graves = w.graves /\ v.text = w.text /\ v.inks = With(w.inks, c.mark, c.ink)
      /\ v.redactions = w.redactions /\ v.redactionGraves = w.redactionGraves
      /\ v.marks = w.marks /\ v.notes = w.notes /\ v.markGraves = w.markGraves
  BY <1>1 DEF WellFormed, IsDocument
<1> HIDE DEF v
<1>3. DOMAIN v.inks = DOMAIN w.inks \cup {c.mark}
  BY <1>2, WithIs
<1>4. MarksFit(v)
  BY <1>1, <1>2, <1>3 DEF WellFormed, MarksFit
<1>5. TextChanges(w) = {} \/ DOMAIN v.redactions = {}
  BY <1>2 DEF WellFormed, TextFits
<1>6. WellFormed(v, page, source)
  BY <1>2, <1>4, <1>5, OthersStay
<1> QED  BY <1>6 DEF v

LEMMA RedactedFits ==
    ASSUME NEW w, NEW page, NEW source, WellFormed(w, page, source), NEW c, NEW s,
           c.kind = "redact", Accepts(w, c, s), TextChanges(w) = {}
    PROVE  WellFormed(Effect(w, c, s), page, source)
<1> DEFINE v == Effect(w, c, s)
<1>1. /\ v = [w EXCEPT !.redactions = With(@, c.redaction, c.page),
                       !.redactionGraves = @ \ {c.redaction}]
      /\ c.page \in DOMAIN w.pages
  BY DEF Effect, Accepts, Live
<1>2. /\ IsDocument(v) /\ v.order = w.order /\ v.pages = w.pages /\ v.turns = w.turns
      /\ v.graves = w.graves /\ v.text = w.text /\ v.inks = w.inks
      /\ v.redactions = With(w.redactions, c.redaction, c.page)
      /\ v.redactionGraves = w.redactionGraves \ {c.redaction}
      /\ v.marks = w.marks /\ v.notes = w.notes /\ v.markGraves = w.markGraves
  BY <1>1 DEF WellFormed, IsDocument
<1> HIDE DEF v
<1>3. v.redactions = [r \in DOMAIN w.redactions \cup {c.redaction} |->
                         IF r = c.redaction THEN c.page ELSE w.redactions[r]]
  BY <1>2, WithIs
<1>4. \A r \in DOMAIN v.redactions : v.redactions[r] \in DOMAIN w.pages
  BY <1>1, <1>3 DEF WellFormed, MarksFit, Range
<1>5. Range(v.redactions) \subseteq DOMAIN w.pages
  BY <1>4 DEF Range
<1>6. MarksFit(v)
  BY <1>2, <1>3, <1>5 DEF WellFormed, MarksFit
<1>7. WellFormed(v, page, source)
  BY <1>2, <1>6, OthersStay
<1> QED  BY <1>7 DEF v

LEMMA UnredactedFits ==
    ASSUME NEW w, NEW page, NEW source, WellFormed(w, page, source), NEW c, NEW s,
           c.kind = "unredact"
    PROVE  WellFormed(Effect(w, c, s), page, source)
<1> DEFINE v == Effect(w, c, s)
<1>1. v = WithoutRedactions(w, {c.redaction})
  BY DEF Effect
<1> HIDE DEF v
<1>2. /\ IsDocument(v) /\ v.redactions = But(w.redactions, {c.redaction})
      /\ v.redactionGraves = w.redactionGraves \cup {c.redaction}
      /\ v.order = w.order /\ v.pages = w.pages /\ v.turns = w.turns /\ v.graves = w.graves
      /\ v.marks = w.marks /\ v.markGraves = w.markGraves /\ v.notes = w.notes
      /\ v.inks = w.inks /\ v.text = w.text
  BY <1>1, WithoutRedactionsIs DEF WellFormed
<1>3. /\ DOMAIN v.redactions = DOMAIN w.redactions \ {c.redaction}
      /\ \A r \in DOMAIN v.redactions : v.redactions[r] = w.redactions[r]
  BY <1>2, ButIs
<1>4. Range(v.redactions) \subseteq DOMAIN w.pages
  BY <1>3 DEF WellFormed, MarksFit, Range
<1>5. MarksFit(v)
  BY <1>2, <1>3, <1>4 DEF WellFormed, MarksFit
<1>6. TextChanges(w) = {} \/ DOMAIN v.redactions = {}
  BY <1>3 DEF WellFormed, TextFits
<1>7. WellFormed(v, page, source)
  BY <1>2, <1>5, <1>6, OthersStay
<1> QED  BY <1>7 DEF v
\* Every document the journal can bring back, its redo tail included.
Healthy == \A k \in 0..Len(journal) : WellFormed(DocumentAt[k], next.page, next.source)

LEMMA EditFits ==
    ASSUME Typed, WellFormed(now, next.page, next.source), NEW c, NEW sweep, NEW b,
           AnEdit(c, sweep, b), Allowed(c, b), Accepts(now, c, b.selections)
    PROVE  WellFormed(Effect(now, c, b.selections), next'.page, next'.source)
<1>1. /\ next.page \in Nat \ {0} /\ next.source \in Nat /\ next'.page \in Nat /\ next'.source \in Nat
      /\ next.page <= next'.page /\ next.source <= next'.source
  BY DEF AnEdit, Grows, Typed, Numbers
<1> DEFINE v == Effect(now, c, b.selections)
<1>2. c \in Command
  BY DEF AnEdit
<1>3. WellFormed(v, next.page, next.source) => WellFormed(v, next'.page, next'.source)
  <2> HIDE DEF v
  <2>1. next.page \in Nat
    BY <1>1
  <2> QED  BY <1>1, <2>1, WellFormedGrows
<1>4. CASE c.kind = "rotate"
  BY <1>3, <1>4, RotatedFits
<1>5. CASE c.kind = "delete"
  BY <1>3, <1>5, DeletedFits
<1>6. CASE c.kind = "move"
  BY <1>3, <1>6, MovedFits
<1>7. CASE c.kind = "insert"
  <2>1. c.page = next.page /\ next'.page = next.page + 1
    BY <1>7 DEF Allowed
  <2>2. WellFormed(v, next.page + 1, next.source)
    BY <1>1, <1>7, <2>1, InsertedFits
  <2>3. WellFormed(v, next'.page, next.source)
    BY <2>1, <2>2
  <2>4. next'.page <= next'.page
    BY <1>1
  <2> HIDE DEF v
  <2>5. WellFormed(v, next'.page, next'.source)
    BY <1>1, <2>3, <2>4, WellFormedGrows
  <2> QED  BY <2>5 DEF v
<1>8. CASE c.kind = "import"
  <2> DEFINE x == b.selections[c.selection]
  <2>1. PICK n \in Nat \ {0} :
           /\ next'.page = next.page + n /\ DOMAIN x.pages = 1..n
           /\ \A i \in 1..n : x.pages[i].id = next.page + i - 1
           /\ \A i, k \in 1..n : x.pages[i].page = x.pages[k].page => i = k
           /\ x.source \in Nat /\ x.source < next'.source
           /\ \/ x.source = next.source
              \/ \A i \in 1..n : x.pages[i].page \notin EditedPagesOf(now, x.source)
    BY <1>8 DEF Allowed
  <2>2. x = b.selections[c.selection]
    OBVIOUS
  <2> HIDE DEF x
  <2>3. WellFormed(v, next.page + n, next'.source)
    BY <1>1, <1>8, <2>1, <2>2, ImportedFits, ZenonT(40)
  <2> QED  BY <2>1, <2>3
<1>9. CASE c.kind = "replaceText"
  <2>1. TextIsReplaceable(c.page) /\ DOMAIN now.redactions = {}
    BY <1>9 DEF Allowed
  <2> QED  BY <1>3, <1>9, <2>1, ReplacedFits DEF TextIsReplaceable
<1>10. CASE c.kind = "annotate"
  BY <1>3, <1>10, AnnotatedFits
<1>11. CASE c.kind = "unannotate"
  BY <1>3, <1>11, UnannotatedFits
<1>12. CASE c.kind = "reink"
  BY <1>3, <1>12, ReinkedFits
<1>13. CASE c.kind = "redact"
  <2>1. TextChanges(now) = {}
    BY <1>13 DEF Allowed
  <2> QED  BY <1>3, <1>13, <2>1, RedactedFits
<1>14. CASE c.kind = "unredact"
  BY <1>3, <1>14, UnredactedFits
<1>15. c.kind \in {"rotate", "delete", "move", "insert", "import", "replaceText", "annotate",
                   "unannotate", "reink", "redact", "unredact"}
  BY <1>2 DEF Command
<1> QED  BY <1>4, <1>5, <1>6, <1>7, <1>8, <1>9, <1>10, <1>11, <1>12, <1>13, <1>14, <1>15

LEMMA EditKeepsHealthy ==
    ASSUME Sound, Healthy, NEW c, NEW sweep, NEW b, AnEdit(c, sweep, b), Allowed(c, b)
    PROVE  Healthy'
<1>1. /\ next.page \in Nat /\ next.source \in Nat /\ next'.page \in Nat /\ next'.source \in Nat
      /\ next.page <= next'.page /\ next.source <= next'.source
  BY DEF Sound, AnEdit, Grows, Typed, Numbers
<1>2. CASE Accepts(now, c, b.selections)
  <2>1. Proceeds(c, sweep, b)
    BY <1>2, Accepted DEF Sound
  <2>2. cursor \in 0..Len(journal) /\ Len(journal') = cursor + 1 /\ Len(journal) \in Nat
    BY <2>1 DEF Sound, Typed, Proceeds
  <2>3. /\ \A k \in 0..cursor : DocumentAt'[k] = DocumentAt[k]
        /\ DocumentAt'[cursor + 1] = now'
    BY <1>2, DocumentsAfter DEF Sound
  <2>4. WellFormed(now, next.page, next.source)
    BY <2>2 DEF Healthy, Sound, Current
  <2>5. WellFormed(now', next'.page, next'.source)
    <3>1. WellFormed(Effect(now, c, b.selections), next'.page, next'.source)
      BY <1>2, <2>4, EditFits DEF Sound
    <3> QED  BY <2>1, <3>1 DEF Proceeds
  <2>6. ASSUME NEW k \in 0..cursor + 1
        PROVE  WellFormed(DocumentAt'[k], next'.page, next'.source)
    <3>1. CASE k = cursor + 1
      BY <2>3, <2>5, <3>1
    <3>2. CASE k # cursor + 1
      <4>1. k \in 0..cursor /\ k \in 0..Len(journal)
        BY <2>2, <3>2
      <4>2. WellFormed(DocumentAt[k], next.page, next.source)
        BY <4>1 DEF Healthy
      <4>3. WellFormed(DocumentAt[k], next'.page, next'.source)
        BY <1>1, <4>2, WellFormedGrows
      <4> QED  BY <2>3, <4>1, <4>3
    <3> QED  BY <3>1, <3>2
  <2> QED  BY <2>2, <2>6 DEF Healthy
<1>3. CASE ~Accepts(now, c, b.selections)
  <2>1. journal' = journal /\ bodies' = bodies
    BY <1>3, Refused
  <2>2. DocumentAt' = DocumentAt
    BY <2>1, DocumentsStay
  <2>3. \A k \in 0..Len(journal) : WellFormed(DocumentAt[k], next'.page, next'.source)
    BY <1>1, WellFormedGrows DEF Healthy
  <2> QED  BY <2>1, <2>2, <2>3 DEF Healthy
<1> QED  BY <1>2, <1>3

LEMMA AlwaysHealthy == Spec => [](Sound /\ Healthy)
<1>1. Init => Sound /\ Healthy
  <2> SUFFICES ASSUME Init
               PROVE  Sound /\ Healthy
    OBVIOUS
  <2>1. Sound /\ Len(journal) = 0 /\ next.page = Baseline + 1 /\ next.source = 1
    BY SoundAtFirst DEF Init
  <2>2. DocumentAt[0] = BaselineDocument
    BY <2>1, DocumentRule DEF Sound, Typed
  <2>3. WellFormed(BaselineDocument, next.page, next.source)
    BY <2>1, BaselineIsWellFormed
  <2> QED  BY <2>1, <2>2, <2>3 DEF Healthy
<1>2. Sound /\ Healthy /\ [Next]_vars => (Sound /\ Healthy)'
  <2> SUFFICES ASSUME Sound, Healthy, [Next]_vars
               PROVE  Healthy'
    BY SoundStays
  <2>1. CASE Edited
    <3>1. PICK c, sweep, b : AnEdit(c, sweep, b) /\ Allowed(c, b)
      BY <2>1 DEF Edited
    <3> QED  BY <3>1, EditKeepsHealthy
  <2>2. CASE journal' = journal /\ bodies' = bodies /\ next' = next
    <3>1. DocumentAt' = DocumentAt
      BY <2>2, DocumentsStay
    <3> QED  BY <2>2, <3>1 DEF Healthy
  <2>3. Undo \/ Redo \/ UNCHANGED vars => journal' = journal /\ bodies' = bodies /\ next' = next
    BY DEF Undo, Redo, vars
  <2> QED  BY <2>1, <2>2, <2>3, EveryStep DEF Sound
<1> QED  BY <1>1, <1>2, PTL DEF Spec

LEMMA NowIsWellFormed ==
    ASSUME Sound, Healthy
    PROVE  WellFormed(now, next.page, next.source)
  BY DEF Sound, Current, Healthy, Typed

\* The tables of the working document fit together after any edits, undos and
\* redos: the order is the live pages, once each, marks and redactions are on
\* live pages, and what is buried is not alive (docmodel.rs:1862).
THEOREM TablesFit == Spec => []TypeOK
<1>1. ASSUME Sound, Healthy
      PROVE  TypeOK
  <2>1. PagesFit(now) /\ MarksFit(now) /\ TextFits(now)
    BY <1>1, NowIsWellFormed DEF WellFormed
  <2>2. cursor \in 0..Len(journal) /\ edits \in 0..MaxEdits
    BY <1>1 DEF Sound, Typed
  <2> QED  BY <2>1, <2>2 DEF TypeOK, PagesFit, MarksFit, TextFits, Listed
<1> QED  BY <1>1, AlwaysHealthy, PTL

\* Replaced text and regions to be removed are never both pending, whatever is
\* deleted, undone and redone (docmodel.rs, replace_text and redact).
THEOREM NeverTextAndRedactions == Spec => []TextOrRedactions
<1>1. ASSUME Sound, Healthy
      PROVE  TextOrRedactions
  BY <1>1, NowIsWellFormed DEF WellFormed, TextFits, TextOrRedactions
<1> QED  BY <1>1, AlwaysHealthy, PTL

\* A page of another file whose text was replaced stands in one place only,
\* over imports, deletions, undo and redo (docmodel.rs, replace_text and import).
THEOREM OnePlacement == Spec => []EditedImportIsPlacedOnce
<1>1. ASSUME Sound, Healthy, NEW p \in TextChanges(now), now.pages[p].kind = "imported"
      PROVE  PlacementsOf(now, now.pages[p].source, now.pages[p].page) = 1
  <2> DEFINE S == {q \in DOMAIN now.pages :
                      now.pages[q] = ImportedPage(now.pages[p].source, now.pages[p].page)}
  <2>1. PagesIssued(now, next.page, next.source) /\ PlacedOnce(now) /\ p \in DOMAIN now.pages
    BY <1>1, NowIsWellFormed DEF WellFormed, TextChanges, Live
  <2>2. now.pages[p] = ImportedPage(now.pages[p].source, now.pages[p].page)
    BY <1>1, <2>1 DEF PagesIssued
  <2>3. S = {p}
    BY <1>1, <2>1, <2>2 DEF PlacedOnce
  <2>4. Cardinality({p}) = 1
    BY FS_Singleton
  <2> QED  BY <2>3, <2>4 DEF PlacementsOf
<1>2. Sound /\ Healthy => EditedImportIsPlacedOnce
  BY <1>1 DEF EditedImportIsPlacedOnce
<1> QED  BY <1>2, AlwaysHealthy, PTL
-----------------------------------------------------------------------------
\* Numbers in ascending order.

Below(S, i) == {l \in S : l < i}

LEMMA BelowIsFinite ==
    ASSUME NEW S, IsFiniteSet(S), NEW i
    PROVE  IsFiniteSet(Below(S, i)) /\ Cardinality(Below(S, i)) \in Nat
<1>1. Below(S, i) \in SUBSET S
  BY DEF Below
<1>2. IsFiniteSet(Below(S, i))
  BY <1>1, FS_Subset
<1> QED  BY <1>2, FS_CardinalityType

LEMMA NthIs ==
    ASSUME NEW S, NEW k
    PROVE  Nth(S, k) = CHOOSE i \in {j \in S : Cardinality(Below(S, j)) = k - 1} : TRUE
  BY DEF Nth, Below

\* Of n numbers, there is a first to an n-th.
LEMMA NthExists ==
    ASSUME NEW n \in Nat, NEW S \in SUBSET (0..n), NEW k \in 1..Cardinality(S)
    PROVE  Nth(S, k) \in S /\ Cardinality(Below(S, Nth(S, k))) = k - 1
<1> DEFINE upto(i) == {l \in S : l <= i}
           T == {i \in S : k <= Cardinality(upto(i))}
<1>1. S \in SUBSET Nat /\ IsFiniteSet(S) /\ Cardinality(S) \in Nat /\ k \in Nat /\ 1 <= k
  <2>1. S \in SUBSET Nat /\ \A s \in S : s <= n
    OBVIOUS
  <2>2. IsFiniteSet(S)
    BY <2>1, FS_BoundedSetOfNaturals
  <2>3. Cardinality(S) \in Nat
    BY <2>2, FS_CardinalityType
  <2> QED  BY <2>1, <2>2, <2>3
<1>2. T # {}
  <2>1. S # {}
    <3>1. Cardinality(S) # 0
      BY <1>1
    <3> QED  BY <3>1, <1>1, FS_EmptySet
  <2>2. Max(S) \in S /\ \A l \in S : l <= Max(S)
    BY <1>1, <2>1, MaxOf
  <2>3. upto(Max(S)) = S
    BY <2>2
  <2>4. k <= Cardinality(S)
    BY <1>1
  <2>5. Max(S) \in T
    BY <2>2, <2>3, <2>4
  <2> QED  BY <2>5
<1>3. PICK i \in T : \A l \in T : i <= l
  BY <1>1, <1>2, LeastNumber
<1>4. /\ i \in S /\ i \in Nat /\ k <= Cardinality(upto(i))
      /\ IsFiniteSet(Below(S, i)) /\ Cardinality(Below(S, i)) \in Nat
  BY <1>1, <1>3, BelowIsFinite
<1>5. Cardinality(upto(i)) = Cardinality(Below(S, i)) + 1
  <2>1. \A l \in S : l <= i <=> (l < i \/ l = i)
    BY <1>1, <1>4
  <2>2. upto(i) = Below(S, i) \cup {i}
    BY <1>4, <2>1 DEF Below
  <2>3. i \notin Below(S, i)
    BY <1>4 DEF Below
  <2> QED  BY <1>4, <2>2, <2>3, FS_AddElement
<1>6. Cardinality(Below(S, i)) = k - 1
  <2>1. CASE k <= Cardinality(Below(S, i))
    <3>1. Below(S, i) # {}
      <4>1. Cardinality(Below(S, i)) # 0
        BY <1>1, <1>4, <2>1
      <4> QED  BY <1>4, <4>1, FS_EmptySet
    <3>2. Below(S, i) \in SUBSET Nat /\ \A l \in Below(S, i) : l <= i
      <4>1. \A l \in S : l < i => l <= i
        BY <1>1, <1>4
      <4> QED  BY <1>1, <4>1 DEF Below
    <3> DEFINE m == Max(Below(S, i))
    <3>3. m \in Below(S, i) /\ \A l \in Below(S, i) : l <= m
      BY <1>4, <3>1, <3>2, MaxOf
    <3>4. m \in S /\ m < i /\ m \in Nat
      BY <1>1, <3>3 DEF Below
    <3>5. upto(m) = Below(S, i)
      <4>1. \A l \in S : l <= m => l < i
        BY <1>1, <1>4, <3>4
      <4>2. \A l \in S : l < i => l <= m
        BY <3>3 DEF Below
      <4> QED  BY <4>1, <4>2 DEF Below
    <3>6. m \in T
      BY <2>1, <3>4, <3>5
    <3> HIDE DEF m
    <3> QED  BY <1>3, <1>4, <3>4, <3>6
  <2>2. CASE ~(k <= Cardinality(Below(S, i)))
    BY <1>1, <1>4, <1>5, <2>2
  <2> QED  BY <2>1, <2>2
<1>7. i \in {j \in S : Cardinality(Below(S, j)) = k - 1}
  BY <1>4, <1>6
<1>8. Nth(S, k) \in {j \in S : Cardinality(Below(S, j)) = k - 1}
  BY <1>7, NthIs
<1> QED  BY <1>8

\* A number above all others comes last.
LEMMA NthAbove ==
    ASSUME NEW n \in Nat, NEW S \in SUBSET (0..n), NEW m \in Nat, \A i \in S : i < m
    PROVE  /\ Cardinality(S \cup {m}) = Cardinality(S) + 1 /\ Cardinality(S) \in Nat
           /\ \A k \in 1..Cardinality(S) : Nth(S \cup {m}, k) = Nth(S, k)
           /\ Nth(S \cup {m}, Cardinality(S) + 1) = m
<1> DEFINE U == S \cup {m}
<1>1. S \in SUBSET Nat /\ IsFiniteSet(S) /\ Cardinality(S) \in Nat
  <2>1. S \in SUBSET Nat /\ \A s \in S : s <= n
    OBVIOUS
  <2>2. IsFiniteSet(S)
    BY <2>1, FS_BoundedSetOfNaturals
  <2> QED  BY <2>1, <2>2, FS_CardinalityType
<1>2. m \notin S /\ Cardinality(U) = Cardinality(S) + 1
  <2>1. m \notin S
    BY <1>1
  <2> QED  BY <1>1, <2>1, FS_AddElement
<1>3. \A i \in S : Below(U, i) = Below(S, i)
  BY <1>1 DEF Below
<1>4. Below(U, m) = S
  <2>1. ~(m < m)
    OBVIOUS
  <2> QED  BY <2>1 DEF Below
<1>5. ASSUME NEW i \in S
      PROVE  Cardinality(Below(S, i)) \in Nat /\ Cardinality(Below(S, i)) < Cardinality(S)
  <2>1. Below(S, i) \in SUBSET S /\ i \notin Below(S, i)
    BY <1>1 DEF Below
  <2>2. Below(S, i) # S
    BY <2>1
  <2>3. Cardinality(Below(S, i)) <= Cardinality(S) /\ Cardinality(Below(S, i)) # Cardinality(S)
    BY <1>1, <2>1, <2>2, FS_Subset
  <2>4. Cardinality(Below(S, i)) \in Nat
    BY <1>1, BelowIsFinite
  <2> QED  BY <1>1, <2>3, <2>4
<1>6. ASSUME NEW k \in 1..Cardinality(S)
      PROVE  Nth(U, k) = Nth(S, k)
  <2>1. {j \in U : Cardinality(Below(U, j)) = k - 1} = {j \in S : Cardinality(Below(S, j)) = k - 1}
    <3>1. Cardinality(Below(U, m)) # k - 1
      BY <1>1, <1>4
    <3> QED  BY <1>3, <3>1
  <2> QED  BY <2>1, NthIs
<1>7. Nth(U, Cardinality(S) + 1) = m
  <2>1. {j \in U : Cardinality(Below(U, j)) = (Cardinality(S) + 1) - 1} = {m}
    <3>1. (Cardinality(S) + 1) - 1 = Cardinality(S)
      BY <1>1
    <3>2. \A j \in S : Cardinality(Below(U, j)) # Cardinality(S)
      BY <1>1, <1>3, <1>5
    <3> QED  BY <1>4, <3>1, <3>2
  <2> QED  BY <2>1, NthIs
<1> QED  BY <1>1, <1>2, <1>6, <1>7

\* A number below all others comes first.
LEMMA NthBelow ==
    ASSUME NEW n \in Nat, NEW S \in SUBSET (0..n), NEW m \in Nat, \A i \in S : m < i
    PROVE  /\ Cardinality({m} \cup S) = Cardinality(S) + 1 /\ Cardinality(S) \in Nat
           /\ \A k \in 1..Cardinality(S) : Nth({m} \cup S, k + 1) = Nth(S, k)
           /\ Nth({m} \cup S, 1) = m
<1> DEFINE U == {m} \cup S
<1>1. S \in SUBSET Nat /\ IsFiniteSet(S) /\ Cardinality(S) \in Nat
  <2>1. S \in SUBSET Nat /\ \A s \in S : s <= n
    OBVIOUS
  <2>2. IsFiniteSet(S)
    BY <2>1, FS_BoundedSetOfNaturals
  <2> QED  BY <2>1, <2>2, FS_CardinalityType
<1>2. m \notin S /\ Cardinality(U) = Cardinality(S) + 1
  <2>1. m \notin S /\ U = S \cup {m}
    BY <1>1
  <2> QED  BY <1>1, <2>1, FS_AddElement
<1>3. ASSUME NEW i \in S
      PROVE  Cardinality(Below(U, i)) = Cardinality(Below(S, i)) + 1
             /\ Cardinality(Below(S, i)) \in Nat
  <2>1. Below(U, i) = Below(S, i) \cup {m} /\ m \notin Below(S, i)
    BY <1>1, <1>2 DEF Below
  <2> QED  BY <1>1, <2>1, FS_AddElement, BelowIsFinite
<1>4. Below(U, m) = {}
  <2>1. ~(m < m)
    OBVIOUS
  <2>2. \A i \in S : ~(i < m)
    BY <1>1
  <2> QED  BY <2>1, <2>2 DEF Below
<1>5. Cardinality(Below(U, m)) = 0
  BY <1>4, FS_EmptySet
<1>6. ASSUME NEW k \in 1..Cardinality(S)
      PROVE  Nth(U, k + 1) = Nth(S, k)
  <2>1. {j \in U : Cardinality(Below(U, j)) = (k + 1) - 1} = {j \in S : Cardinality(Below(S, j)) = k - 1}
    <3>1. Cardinality(Below(U, m)) # (k + 1) - 1
      BY <1>1, <1>5
    <3>2. \A j \in S : Cardinality(Below(U, j)) = (k + 1) - 1 <=> Cardinality(Below(S, j)) = k - 1
      BY <1>1, <1>3
    <3> QED  BY <3>1, <3>2
  <2> QED  BY <2>1, NthIs
<1>7. Nth(U, 1) = m
  <2>1. {j \in U : Cardinality(Below(U, j)) = 1 - 1} = {m}
    <3>1. \A c \in Nat : c + 1 # 1 - 1
      OBVIOUS
    <3>2. \A j \in S : Cardinality(Below(U, j)) # 1 - 1
      BY <1>3, <3>1
    <3>3. 1 - 1 = 0
      OBVIOUS
    <3> QED  BY <1>5, <3>2, <3>3
  <2> QED  BY <2>1, NthIs
<1> QED  BY <1>1, <1>2, <1>6, <1>7

LEMMA InOrderIs ==
    ASSUME NEW S, NEW f, NEW c \in Nat, Cardinality(S) = c,
           NEW V, \A k \in 1..c : f[Nth(S, k)] \in V
    PROVE  /\ InOrder(S, f) \in Seq(V) /\ Len(InOrder(S, f)) = c
           /\ \A k \in 1..c : InOrder(S, f)[k] = f[Nth(S, k)]
<1> DEFINE g == [k \in 1..c |-> f[Nth(S, k)]]
<1>1. g \in [1..c -> V] /\ \A k \in 1..c : g[k] = f[Nth(S, k)]
  OBVIOUS
<1>2. InOrder(S, f) = g
  BY DEF InOrder
<1> HIDE DEF g
<1>3. g \in Seq(V) /\ Len(g) = c
  BY <1>1
<1> QED  BY <1>1, <1>2, <1>3

\* What is in order reads the states of its numbers only.
LEMMA SameStates ==
    ASSUME NEW n \in Nat, NEW S \in SUBSET (0..n), NEW f, NEW g, \A i \in S : f[i] = g[i]
    PROVE  InOrder(S, f) = InOrder(S, g)
<1>1. \A k \in 1..Cardinality(S) : f[Nth(S, k)] = g[Nth(S, k)]
  BY NthExists
<1> QED  BY <1>1 DEF InOrder

LEMMA NothingInOrder ==
    ASSUME NEW f
    PROVE  InOrder({}, f) = <<>>
<1>1. Cardinality({}) = 0
  BY FS_EmptySet
<1>2. 1..0 = {}
  OBVIOUS
<1> QED  BY <1>1, <1>2 DEF InOrder

LEMMA OneMoreAbove ==
    ASSUME NEW n \in Nat, NEW S \in SUBSET (0..n), NEW m \in Nat, NEW f, \A i \in S : i < m
    PROVE  InOrder(S \cup {m}, f) = Append(InOrder(S, f), f[m])
<1> DEFINE c == Cardinality(S)
           V == {f[Nth(S, k)] : k \in 1..c} \cup {f[m]}
           s == InOrder(S, f)
           t == InOrder(S \cup {m}, f)
<1>1. /\ Cardinality(S \cup {m}) = c + 1 /\ c \in Nat /\ Nth(S \cup {m}, c + 1) = m
      /\ \A k \in 1..c : Nth(S \cup {m}, k) = Nth(S, k)
  BY NthAbove
<1>2. s \in Seq(V) /\ Len(s) = c /\ \A k \in 1..c : s[k] = f[Nth(S, k)]
  <2>1. (\A k \in 1..c : f[Nth(S, k)] \in V) /\ Cardinality(S) = c /\ c \in Nat
    BY <1>1
  <2> HIDE DEF c, V
  <2> QED  BY <2>1, InOrderIs
<1>3. t \in Seq(V) /\ Len(t) = c + 1 /\ \A k \in 1..c + 1 : t[k] = f[Nth(S \cup {m}, k)]
  <2>1. \A k \in 1..c + 1 : k \in 1..c \/ k = c + 1
    BY <1>1
  <2>2. \A k \in 1..c + 1 : f[Nth(S \cup {m}, k)] \in V
    BY <1>1, <2>1
  <2>3. c + 1 \in Nat /\ Cardinality(S \cup {m}) = c + 1
    BY <1>1
  <2> HIDE DEF c, V
  <2> QED  BY <2>2, <2>3, InOrderIs
<1> HIDE DEF c, s, t
<1>4. /\ Append(s, f[m]) \in Seq(V) /\ Len(Append(s, f[m])) = c + 1
      /\ \A k \in 1..c : Append(s, f[m])[k] = s[k]
      /\ Append(s, f[m])[c + 1] = f[m]
  BY <1>2, AppendProperties
<1>5. \A k \in 1..c + 1 : t[k] = Append(s, f[m])[k]
  <2> SUFFICES ASSUME NEW k \in 1..c + 1
               PROVE  t[k] = Append(s, f[m])[k]
    OBVIOUS
  <2>1. k = c + 1 \/ k \in 1..c
    BY <1>1
  <2> QED  BY <1>1, <1>2, <1>3, <1>4, <2>1
<1>6. t = Append(s, f[m])
  BY <1>1, <1>3, <1>4, <1>5, SeqEqual
<1> QED  BY <1>6 DEF s, t

LEMMA OneMoreBelow ==
    ASSUME NEW n \in Nat, NEW S \in SUBSET (0..n), NEW m \in Nat, NEW f, \A i \in S : m < i
    PROVE  InOrder({m} \cup S, f) = <<f[m]>> \o InOrder(S, f)
<1> DEFINE c == Cardinality(S)
           V == {f[Nth(S, k)] : k \in 1..c} \cup {f[m]}
           s == InOrder(S, f)
           t == InOrder({m} \cup S, f)
           u == <<f[m]>> \o s
<1>1. /\ Cardinality({m} \cup S) = c + 1 /\ c \in Nat /\ Nth({m} \cup S, 1) = m
      /\ \A k \in 1..c : Nth({m} \cup S, k + 1) = Nth(S, k)
  BY NthBelow
<1>2. s \in Seq(V) /\ Len(s) = c /\ \A k \in 1..c : s[k] = f[Nth(S, k)]
  <2>1. (\A k \in 1..c : f[Nth(S, k)] \in V) /\ Cardinality(S) = c /\ c \in Nat
    BY <1>1
  <2> HIDE DEF c, V
  <2> QED  BY <2>1, InOrderIs
<1>3. t \in Seq(V) /\ Len(t) = c + 1 /\ \A k \in 1..c + 1 : t[k] = f[Nth({m} \cup S, k)]
  <2>1. \A k \in 1..c + 1 : k \in 1..c \/ k = 1 \/ (k - 1 \in 1..c /\ k = (k - 1) + 1)
    BY <1>1
  <2>2. \A k \in 1..c + 1 : f[Nth({m} \cup S, k)] \in V
    BY <1>1, <2>1
  <2>3. c + 1 \in Nat /\ Cardinality({m} \cup S) = c + 1
    BY <1>1
  <2> HIDE DEF c, V
  <2> QED  BY <2>2, <2>3, InOrderIs
<1>4. <<f[m]>> \in Seq(V) /\ Len(<<f[m]>>) = 1 /\ <<f[m]>>[1] = f[m]
  OBVIOUS
<1> HIDE DEF c, s, t, V
<1>5. /\ u \in Seq(V) /\ Len(u) = c + 1 /\ u[1] = f[m]
      /\ \A k \in 1..c : u[k + 1] = s[k]
  <2>1. /\ u \in Seq(V) /\ Len(u) = 1 + c
        /\ \A i \in 1..1 + c : u[i] = IF i <= 1 THEN <<f[m]>>[i] ELSE s[i - 1]
    BY <1>2, <1>4, ConcatProperties
  <2>2. 1 \in 1..1 + c /\ 1 <= 1 /\ 1 + c = c + 1
    BY <1>1
  <2>3. \A k \in 1..c : k + 1 \in 1..1 + c /\ ~(k + 1 <= 1) /\ (k + 1) - 1 = k
    BY <1>1
  <2> HIDE DEF u
  <2> QED  BY <1>4, <2>1, <2>2, <2>3
<1> HIDE DEF u
<1>6. \A k \in 1..c + 1 : t[k] = u[k]
  <2> SUFFICES ASSUME NEW k \in 1..c + 1
               PROVE  t[k] = u[k]
    OBVIOUS
  <2>1. CASE k = 1
    BY <1>1, <1>3, <1>5, <2>1
  <2>2. CASE k # 1
    <3>1. k - 1 \in 1..c /\ (k - 1) + 1 = k
      BY <1>1, <2>2
    <3>2. u[k] = s[k - 1] /\ Nth({m} \cup S, k) = Nth(S, k - 1)
      BY <1>1, <1>5, <3>1
    <3> QED  BY <1>2, <1>3, <3>1, <3>2
  <2> QED  BY <2>1, <2>2
<1>7. t = u
  BY <1>1, <1>3, <1>5, <1>6, SeqEqual
<1> QED  BY <1>7 DEF s, t, u-----------------------------------------------------------------------------
\* The journal is an undo history.

Past == InOrder({k \in TrueStops : k < cursor}, StateAt)
Present == [document |-> now, gesture |-> IF cursor = 0 THEN None ELSE journal[cursor].sweep]
Ahead == InOrder({k \in TrueStops : k > cursor}, StateAt)

\* The cursor is where a press may leave it.
Resting == cursor \in TrueStops

LEMMA PresentIs ==
    ASSUME Typed, Current
    PROVE  Present = StateAt[cursor]
  BY DEF Typed, Current, Present, StateAt

LEMMA TrueStopsIn == TrueStops \subseteq 0..Len(journal)
  BY DEF TrueStops

\* Where an edit leaves the stops: those before the cursor stay, the cursor is
\* one unless its gesture goes on, and nothing is ahead.
LEMMA EditStops ==
    ASSUME Typed, NEW c, NEW sweep, NEW b, AnEdit(c, sweep, b), Accepts(now, c, b.selections)
    PROVE  /\ TrueStops' \ {cursor, cursor + 1} = {k \in TrueStops : k < cursor}
           /\ cursor + 1 \in TrueStops' /\ cursor' = cursor + 1
           /\ cursor \in TrueStops' <=>
                 \/ cursor = 0
                 \/ ~(journal[cursor].sweep = sweep /\ sweep # None)
<1>1. Proceeds(c, sweep, b) /\ cursor \in Nat /\ Len(journal) \in Nat /\ cursor <= Len(journal)
  BY Accepted DEF Typed
<1>2. /\ Len(journal') = cursor + 1 /\ journal'[cursor + 1].sweep = sweep
      /\ \A i \in 1..cursor : journal'[i] = journal[i]
      /\ cursor' = cursor + 1
  BY <1>1 DEF Proceeds
<1>3. \A k : k \in TrueStops' <=> k \in 0..cursor + 1 /\ (k \in 1..cursor => ~Grouped(k)')
  <2>1. (cursor + 1) - 1 = cursor
    BY <1>1
  <2> QED  BY <1>2, <2>1 DEF TrueStops
<1>4. ASSUME NEW k \in 1..cursor, k < cursor
      PROVE  Grouped(k)' <=> Grouped(k)
  <2>1. k + 1 \in 1..cursor
    BY <1>1, <1>4
  <2> QED  BY <1>2, <2>1 DEF Grouped
<1>5. TrueStops' \ {cursor, cursor + 1} = {k \in TrueStops : k < cursor}
  <2>1. \A k : k \in TrueStops' /\ k \notin {cursor, cursor + 1}
               <=> k \in 0..cursor /\ k < cursor /\ (k \in 1..cursor => ~Grouped(k)')
    BY <1>1, <1>3
  <2>2. \A k : k \in TrueStops /\ k < cursor
               <=> k \in 0..cursor /\ k < cursor /\ (k \in 1..cursor => ~Grouped(k))
    <3>1. \A k : k < cursor /\ k \in 0..Len(journal) => (k \in 1..Len(journal) - 1 <=> k \in 1..cursor)
      BY <1>1
    <3>2. \A k : k < cursor => (k \in 0..Len(journal) <=> k \in 0..cursor)
      BY <1>1
    <3> QED  BY <3>1, <3>2 DEF TrueStops
  <2> QED  BY <1>4, <2>1, <2>2
<1>6. cursor + 1 \in TrueStops'
  BY <1>1, <1>3
<1>7. cursor \in TrueStops' <=> cursor = 0 \/ ~(journal[cursor].sweep = sweep /\ sweep # None)
  <2>1. CASE cursor = 0
    <3>1. cursor \in 0..cursor + 1 /\ cursor \notin 1..cursor
      BY <1>1, <2>1
    <3> QED  BY <1>3, <2>1, <3>1
  <2>2. CASE cursor # 0
    <3>1. cursor \in 0..cursor + 1 /\ cursor \in 1..cursor
      BY <1>1, <2>2
    <3>2. \A k \in 1..cursor : k = cursor =>
             (Grouped(k)' <=> journal[cursor].sweep = sweep /\ sweep # None)
      BY <1>1, <1>2, <3>1 DEF Grouped
    <3> QED  BY <1>3, <2>2, <3>1, <3>2
  <2> QED  BY <2>1, <2>2
<1> QED  BY <1>2, <1>5, <1>6, <1>7

LEMMA EditRests ==
    ASSUME Typed, Current, Issuing, Matching, NEW c, NEW sweep, NEW b, AnEdit(c, sweep, b),
           Accepts(now, c, b.selections)
    PROVE  /\ Resting' /\ Ahead' = <<>>
           /\ Present'.gesture = sweep
           /\ \/ /\ Present.gesture = sweep /\ sweep # None
                 /\ Past' = Past
              \/ /\ ~(Present.gesture = sweep /\ sweep # None)
                 /\ Past' = Append(Past, Present)
<1> DEFINE S == {k \in TrueStops : k < cursor}
<1>1. Proceeds(c, sweep, b) /\ cursor \in Nat /\ Len(journal) \in Nat /\ cursor <= Len(journal)
  BY Accepted DEF Typed
<1>2. /\ TrueStops' \ {cursor, cursor + 1} = S
      /\ cursor + 1 \in TrueStops' /\ cursor' = cursor + 1 /\ Len(journal') = cursor + 1
      /\ cursor \in TrueStops' <=> cursor = 0 \/ ~(journal[cursor].sweep = sweep /\ sweep # None)
  BY <1>1, EditStops DEF Proceeds
<1>3. TrueStops' \subseteq 0..cursor + 1
  BY <1>2 DEF TrueStops
<1>4. Ahead' = <<>>
  <2>1. {k \in TrueStops' : k > cursor'} = {}
    <3>1. \A k \in TrueStops' : k \in 0..cursor + 1
      BY <1>3
    <3>2. \A k \in 0..cursor + 1 : ~(k > cursor + 1)
      BY <1>1
    <3> QED  BY <1>2, <3>1, <3>2
  <2>2. Ahead' = InOrder({k \in TrueStops' : k > cursor'}, StateAt')
    BY DEF Ahead, InOrder, Nth
  <2> QED  BY <2>1, <2>2, NothingInOrder
<1>5. Present'.gesture = sweep
  <2>1. cursor' # 0 /\ journal'[cursor'].sweep = sweep
    BY <1>1, <1>2 DEF Proceeds
  <2> QED  BY <2>1 DEF Present
<1>6. Present.gesture = IF cursor = 0 THEN None ELSE journal[cursor].sweep
  BY DEF Present
<1>7. cursor \in TrueStops' <=> ~(Present.gesture = sweep /\ sweep # None)
  BY <1>2, <1>6
<1>8. S \in SUBSET (0..cursor) /\ \A i \in S : i < cursor
  <2>1. \A k \in 0..Len(journal) : k < cursor => k \in 0..cursor
    BY <1>1
  <2> QED  BY <2>1, TrueStopsIn
<1>9. \A k \in 0..cursor : StateAt'[k] = StateAt[k]
  <2>1. \A k \in 0..cursor : DocumentAt'[k] = DocumentAt[k]
    BY DocumentsAfter
  <2>2. \A k \in 0..cursor : k # 0 => journal'[k] = journal[k]
    BY <1>1 DEF Proceeds
  <2>3. \A k \in 0..cursor : k \in 0..Len(journal) /\ k \in 0..Len(journal')
    BY <1>1, <1>2
  <2> QED  BY <2>1, <2>2, <2>3 DEF StateAt
<1>10. Past' = InOrder({k \in TrueStops' : k < cursor + 1}, StateAt')
  BY <1>2 DEF Past, InOrder, Nth
<1>11. InOrder(S, StateAt') = Past
  <2>1. \A i \in S : StateAt'[i] = StateAt[i]
    BY <1>8, <1>9
  <2>2. InOrder(S, StateAt') = InOrder(S, StateAt)
    <3> HIDE DEF S
    <3> QED  BY <1>1, <1>8, <2>1, SameStates
  <2> QED  BY <2>2 DEF Past
<1>12. CASE cursor \in TrueStops'
  <2>1. {k \in TrueStops' : k < cursor + 1} = S \cup {cursor}
    <3>1. \A k \in TrueStops' : k < cursor + 1 <=> k # cursor + 1
      BY <1>1, <1>3
    <3>2. cursor # cursor + 1
      BY <1>1
    <3> HIDE DEF S
    <3> QED  BY <1>2, <1>12, <3>1, <3>2
  <2>2. InOrder(S \cup {cursor}, StateAt') = Append(InOrder(S, StateAt'), StateAt'[cursor])
    <3> HIDE DEF S
    <3> QED  BY <1>1, <1>8, OneMoreAbove
  <2>3. StateAt'[cursor] = Present
    BY <1>1, <1>9, PresentIs
  <2>4. Past' = Append(Past, Present)
    BY <1>10, <1>11, <2>1, <2>2, <2>3
  <2> QED  BY <1>2, <1>4, <1>5, <1>7, <1>12, <2>4 DEF Resting
<1>13. CASE cursor \notin TrueStops'
  <2>1. {k \in TrueStops' : k < cursor + 1} = S
    <3>1. \A k \in TrueStops' : k < cursor + 1 <=> k # cursor + 1
      BY <1>1, <1>3
    <3> HIDE DEF S
    <3> QED  BY <1>2, <1>13, <3>1
  <2>2. Past' = Past
    BY <1>10, <1>11, <2>1
  <2> QED  BY <1>2, <1>4, <1>5, <1>7, <1>13, <2>2 DEF Resting
<1> QED  BY <1>12, <1>13
LEMMA InOrderIsList ==
    ASSUME NEW n \in Nat, NEW S \in SUBSET (0..n), NEW f, NEW e
    PROVE  \E V : e \in V /\ InOrder(S, f) \in Seq(V)
<1>1. IsFiniteSet(S)
  <2>1. S \in SUBSET Nat /\ \A s \in S : s <= n
    OBVIOUS
  <2> QED  BY <2>1, FS_BoundedSetOfNaturals
<1>2. PICK c \in Nat : c = Cardinality(S)
  BY <1>1, FS_CardinalityType
<1> DEFINE V == {f[Nth(S, k)] : k \in 1..c} \cup {e}
<1>3. e \in V /\ \A k \in 1..c : f[Nth(S, k)] \in V
  OBVIOUS
<1> HIDE DEF V
<1>4. InOrder(S, f) \in Seq(V)
  BY <1>2, <1>3, InOrderIs
<1> QED  BY <1>3, <1>4

LEMMA EndsOf ==
    ASSUME NEW V, NEW s \in Seq(V), NEW e \in V
    PROVE  /\ Append(s, e) # <<>> /\ Last(Append(s, e)) = e /\ Front(Append(s, e)) = s
           /\ <<e>> \o s # <<>> /\ Head(<<e>> \o s) = e /\ Tail(<<e>> \o s) = s
<1>1. Len(s) \in Nat /\ <<e>> \in Seq(V)
  OBVIOUS
<1> DEFINE a == Append(s, e)
           h == <<e>> \o s
<1>2. /\ a \in Seq(V) /\ a # <<>> /\ Len(a) = Len(s) + 1
      /\ \A i \in 1..Len(s) : a[i] = s[i] /\ a[Len(s) + 1] = e
  <2>1. /\ a \in Seq(V) /\ a # <<>> /\ Len(a) = Len(s) + 1
        /\ \A i \in 1..Len(s) : a[i] = s[i]
    BY AppendProperties
  <2> QED  BY <2>1, AppendProperties
<1>3. a[Len(s) + 1] = e
  BY AppendProperties
<1>4. Last(a) = e
  BY <1>2, <1>3 DEF Last
<1>5. Front(a) = s
  <2> HIDE DEF a
  <2>1. Front(a) = SubSeq(a, 1, Len(s))
    BY <1>1, <1>2 DEF Front
  <2>2. /\ SubSeq(a, 1, Len(s)) \in Seq(V) /\ Len(SubSeq(a, 1, Len(s))) = Len(s)
        /\ \A i \in 1..Len(s) : SubSeq(a, 1, Len(s))[i] = a[i]
    BY <1>1, <1>2, SubSeqProperties
  <2> QED  BY <1>2, <2>1, <2>2, SeqEqual
<1>6. /\ h \in Seq(V) /\ Len(h) = 1 + Len(s)
      /\ \A i \in 1..1 + Len(s) : h[i] = IF i <= 1 THEN <<e>>[i] ELSE s[i - 1]
  BY <1>1, ConcatProperties
<1> HIDE DEF h
<1>7. h # <<>> /\ Head(h) = e
  <2>1. 1 \in 1..1 + Len(s) /\ 1 <= 1
    BY <1>1
  <2>2. h[1] = e
    BY <1>6, <2>1
  <2>3. Len(h) # 0
    BY <1>1, <1>6
  <2> QED  BY <1>6, <2>2, <2>3
<1>8. Tail(h) = s
  <2>1. Tail(h) \in Seq(V) /\ Len(Tail(h)) = Len(s) /\ \A i \in 1..Len(s) : Tail(h)[i] = h[i + 1]
    BY <1>1, <1>6, <1>7
  <2>2. \A i \in 1..Len(s) : i + 1 \in 1..1 + Len(s) /\ ~(i + 1 <= 1) /\ (i + 1) - 1 = i
    BY <1>1
  <2>3. \A i \in 1..Len(s) : Tail(h)[i] = s[i]
    BY <1>6, <2>1, <2>2
  <2> QED  BY <2>1, <2>3, SeqEqual
<1> QED  BY <1>2, <1>4, <1>5, <1>7, <1>8 DEF h

\* Between two stops that follow each other there is one step of the history.
LEMMA NextStop ==
    ASSUME NEW n \in Nat, NEW S \in SUBSET (0..n), NEW f, NEW lo \in S, NEW hi \in S, lo < hi,
           \A k \in S : k < hi => k <= lo
    PROVE  /\ InOrder({k \in S : k < hi}, f) = Append(InOrder({k \in S : k < lo}, f), f[lo])
           /\ InOrder({k \in S : k > lo}, f) = <<f[hi]>> \o InOrder({k \in S : k > hi}, f)
<1> DEFINE B == {k \in S : k < lo}
           A == {k \in S : k > hi}
<1>1. S \subseteq Nat /\ lo \in Nat /\ hi \in Nat
  OBVIOUS
<1>2. {k \in S : k < hi} = B \cup {lo}
  <2>1. \A k \in S : k < hi <=> k < lo \/ k = lo
    BY <1>1
  <2> QED  BY <2>1
<1>3. {k \in S : k > lo} = {hi} \cup A
  <2>1. \A k \in S : k > lo <=> k > hi \/ k = hi
    BY <1>1
  <2> QED  BY <2>1
<1>4. B \in SUBSET (0..n) /\ (\A i \in B : i < lo) /\ A \in SUBSET (0..n) /\ \A i \in A : hi < i
  BY <1>1
<1> HIDE DEF A, B
<1>5. InOrder(B \cup {lo}, f) = Append(InOrder(B, f), f[lo])
  BY <1>1, <1>4, OneMoreAbove
<1>6. InOrder({hi} \cup A, f) = <<f[hi]>> \o InOrder(A, f)
  BY <1>1, <1>4, OneMoreBelow
<1> QED  BY <1>2, <1>3, <1>5, <1>6 DEF A, B

\* An undo or a redo: the stops and their states stay, and the cursor moves
\* from one to the next.
LEMMA Press ==
    ASSUME Sound, Resting, Undo \/ Redo
    PROVE  /\ Resting' /\ UNCHANGED <<journal, bodies>>
           /\ Present = StateAt[cursor] /\ Present' = StateAt[cursor']
           /\ Past' = InOrder({k \in TrueStops : k < cursor'}, StateAt)
           /\ Ahead' = InOrder({k \in TrueStops : k > cursor'}, StateAt)
<1>1. /\ cursor' \in TrueStops /\ cursor' \in 0..Len(journal) /\ now' = DocumentAt[cursor']
      /\ UNCHANGED <<journal, bodies>>
  BY UndoStops, RedoStops, UndoIs, RedoIs, StopsAre DEF Sound
<1>2. DocumentAt' = DocumentAt
  BY <1>1, DocumentsStay
<1>3. StateAt' = StateAt /\ TrueStops' = TrueStops
  BY <1>1, <1>2 DEF StateAt, TrueStops, Grouped
<1>4. Resting'
  BY <1>1, <1>3 DEF Resting
<1>5. Present = StateAt[cursor]
  BY PresentIs DEF Sound
<1>6. Present' = StateAt[cursor']
  BY <1>1 DEF Present, StateAt
<1>7. /\ Past' = InOrder({k \in TrueStops' : k < cursor'}, StateAt')
      /\ Ahead' = InOrder({k \in TrueStops' : k > cursor'}, StateAt')
  BY DEF Past, Ahead, InOrder, Nth
<1> QED  BY <1>1, <1>3, <1>4, <1>5, <1>6, <1>7

LEMMA UndoRests ==
    ASSUME Sound, Resting, Undo
    PROVE  /\ Resting' /\ Past # <<>> /\ Present' = Last(Past) /\ Past' = Front(Past)
           /\ Ahead' = <<Present>> \o Ahead
<1>1. /\ cursor' \in TrueStops /\ cursor' < cursor /\ \A k \in TrueStops : k < cursor => k <= cursor'
  BY UndoStops, StopsAre DEF Sound
<1>2. Len(journal) \in Nat /\ TrueStops \in SUBSET (0..Len(journal)) /\ cursor \in TrueStops
  BY TrueStopsIn DEF Sound, Typed, Resting
<1>3. PICK lo, hi : lo = cursor' /\ hi = cursor
  OBVIOUS
<1>4. /\ InOrder({k \in TrueStops : k < hi}, StateAt)
           = Append(InOrder({k \in TrueStops : k < lo}, StateAt), StateAt[lo])
      /\ InOrder({k \in TrueStops : k > lo}, StateAt)
           = <<StateAt[hi]>> \o InOrder({k \in TrueStops : k > hi}, StateAt)
  <2>0. PICK S, n : S = TrueStops /\ n = Len(journal)
    OBVIOUS
  <2>1. /\ n \in Nat /\ S \in SUBSET (0..n) /\ lo \in S /\ hi \in S /\ lo < hi
        /\ \A k \in S : k < hi => k <= lo
    BY <1>1, <1>2, <1>3, <2>0
  <2>2. /\ InOrder({k \in S : k < hi}, StateAt)
             = Append(InOrder({k \in S : k < lo}, StateAt), StateAt[lo])
        /\ InOrder({k \in S : k > lo}, StateAt)
             = <<StateAt[hi]>> \o InOrder({k \in S : k > hi}, StateAt)
    BY <2>1, NextStop, ZenonT(40)
  <2> QED  BY <2>0, <2>2
<1>5. Past = Append(Past', Present') /\ Ahead' = <<Present>> \o Ahead
  BY <1>3, <1>4, Press DEF Past, Ahead
<1>6. \E V : Present' \in V /\ Past' \in Seq(V)
  <2>1. {k \in TrueStops : k < lo} \in SUBSET (0..Len(journal))
    BY <1>2
  <2>2. \E V : Present' \in V /\ InOrder({k \in TrueStops : k < lo}, StateAt) \in Seq(V)
    BY <1>2, <2>1, InOrderIsList
  <2> QED  BY <1>3, <2>2, Press
<1>7. Past # <<>> /\ Last(Past) = Present' /\ Front(Past) = Past'
  <2>0. PICK s, e : s = Past' /\ e = Present'
    OBVIOUS
  <2>1. PICK V : e \in V /\ s \in Seq(V)
    BY <1>6, <2>0
  <2>2. Append(s, e) # <<>> /\ Last(Append(s, e)) = e /\ Front(Append(s, e)) = s
    BY <2>1, EndsOf
  <2> QED  BY <1>5, <2>0, <2>2
<1> QED  BY <1>5, <1>7, Press

LEMMA RedoRests ==
    ASSUME Sound, Resting, Redo
    PROVE  /\ Resting' /\ Ahead # <<>> /\ Present' = Head(Ahead) /\ Ahead' = Tail(Ahead)
           /\ Past' = Append(Past, Present)
<1>1. /\ cursor' \in TrueStops /\ cursor < cursor' /\ \A k \in TrueStops : cursor < k => cursor' <= k
  BY RedoStops, StopsAre DEF Sound
<1>2. /\ Len(journal) \in Nat /\ TrueStops \in SUBSET (0..Len(journal)) /\ cursor \in TrueStops
      /\ \A k \in TrueStops : k < cursor' => k <= cursor
  <2>1. Len(journal) \in Nat /\ TrueStops \in SUBSET (0..Len(journal)) /\ cursor \in TrueStops
    BY TrueStopsIn DEF Sound, Typed, Resting
  <2>2. \A k \in TrueStops : k \in Nat
    BY <2>1
  <2> QED  BY <1>1, <2>1, <2>2
<1>3. PICK lo, hi : lo = cursor /\ hi = cursor'
  OBVIOUS
<1>4. /\ InOrder({k \in TrueStops : k < hi}, StateAt)
           = Append(InOrder({k \in TrueStops : k < lo}, StateAt), StateAt[lo])
      /\ InOrder({k \in TrueStops : k > lo}, StateAt)
           = <<StateAt[hi]>> \o InOrder({k \in TrueStops : k > hi}, StateAt)
  <2>0. PICK S, n : S = TrueStops /\ n = Len(journal)
    OBVIOUS
  <2>1. /\ n \in Nat /\ S \in SUBSET (0..n) /\ lo \in S /\ hi \in S /\ lo < hi
        /\ \A k \in S : k < hi => k <= lo
    BY <1>1, <1>2, <1>3, <2>0
  <2>2. /\ InOrder({k \in S : k < hi}, StateAt)
             = Append(InOrder({k \in S : k < lo}, StateAt), StateAt[lo])
        /\ InOrder({k \in S : k > lo}, StateAt)
             = <<StateAt[hi]>> \o InOrder({k \in S : k > hi}, StateAt)
    BY <2>1, NextStop, ZenonT(40)
  <2> QED  BY <2>0, <2>2
<1>5. Past' = Append(Past, Present) /\ Ahead = <<Present'>> \o Ahead'
  BY <1>3, <1>4, Press DEF Past, Ahead
<1>6. \E V : Present' \in V /\ Ahead' \in Seq(V)
  <2>1. {k \in TrueStops : k > hi} \in SUBSET (0..Len(journal))
    BY <1>2
  <2>2. \E V : Present' \in V /\ InOrder({k \in TrueStops : k > hi}, StateAt) \in Seq(V)
    BY <1>2, <2>1, InOrderIsList
  <2> QED  BY <1>3, <2>2, Press
<1>7. Ahead # <<>> /\ Head(Ahead) = Present' /\ Tail(Ahead) = Ahead'
  <2>0. PICK s, e : s = Ahead' /\ e = Present'
    OBVIOUS
  <2>1. PICK V : e \in V /\ s \in Seq(V)
    BY <1>6, <2>0
  <2>2. <<e>> \o s # <<>> /\ Head(<<e>> \o s) = e /\ Tail(<<e>> \o s) = s
    BY <2>1, EndsOf
  <2> QED  BY <1>5, <2>0, <2>2
<1> QED  BY <1>5, <1>7, Press
\* The steps of the journal, as those of the history.
HistoryStep ==
    \/ /\ ~(Present.gesture = Present'.gesture /\ Present.gesture # None)
       /\ Past' = Append(Past, Present) /\ Ahead' = <<>>
    \/ /\ Present.gesture = Present'.gesture /\ Present.gesture # None
       /\ Past' = Past /\ Ahead' = <<>>
    \/ /\ Past # <<>> /\ Present' = Last(Past) /\ Past' = Front(Past)
       /\ Ahead' = <<Present>> \o Ahead
    \/ /\ Ahead # <<>> /\ Present' = Head(Ahead) /\ Ahead' = Tail(Ahead)
       /\ Past' = Append(Past, Present)

HistoryStays == UNCHANGED <<Past, Present, Ahead>>

LEMMA NothingMoves ==
    ASSUME UNCHANGED <<now, journal, cursor, bodies>>
    PROVE  HistoryStays /\ (Resting => Resting')
<1>1. DocumentAt' = DocumentAt
  BY DocumentsStay
<1>2. StateAt' = StateAt /\ TrueStops' = TrueStops
  BY <1>1 DEF StateAt, TrueStops, Grouped
<1>3. Past' = InOrder({k \in TrueStops' : k < cursor'}, StateAt')
      /\ Ahead' = InOrder({k \in TrueStops' : k > cursor'}, StateAt')
  BY DEF Past, Ahead, InOrder, Nth
<1>4. Present' = Present
  BY DEF Present
<1> QED  BY <1>2, <1>3, <1>4 DEF HistoryStays, Past, Ahead, Resting

LEMMA HistoryAtFirst ==
    ASSUME Init
    PROVE  /\ Resting /\ Past = <<>> /\ Ahead = <<>>
           /\ Present = [document |-> BaselineDocument, gesture |-> None]
<1>1. journal = <<>> /\ Len(journal) = 0 /\ cursor = 0 /\ now = BaselineDocument
  BY DEF Init
<1>2. TrueStops = {0}
  BY <1>1 DEF TrueStops
<1>3. {k \in TrueStops : k < cursor} = {} /\ {k \in TrueStops : k > cursor} = {}
  BY <1>1, <1>2
<1>4. Past = <<>>
  BY <1>3, NothingInOrder DEF Past
<1>5. Ahead = <<>>
  BY <1>3, NothingInOrder DEF Ahead
<1>6. Present = [document |-> BaselineDocument, gesture |-> None]
  BY <1>1 DEF Present
<1> QED  BY <1>1, <1>2, <1>4, <1>5, <1>6 DEF Resting

LEMMA HistorySteps ==
    ASSUME Sound, Resting, [Next]_vars
    PROVE  Resting' /\ (HistoryStep \/ HistoryStays)
<1>1. CASE Edited
  <2>1. PICK c, sweep, b : AnEdit(c, sweep, b)
    BY <1>1 DEF Edited
  <2>2. CASE Accepts(now, c, b.selections)
    <3>1. /\ Resting' /\ Ahead' = <<>> /\ Present'.gesture = sweep
          /\ \/ Present.gesture = sweep /\ sweep # None /\ Past' = Past
             \/ ~(Present.gesture = sweep /\ sweep # None) /\ Past' = Append(Past, Present)
      BY <2>1, <2>2, EditRests DEF Sound
    <3> QED  BY <3>1 DEF HistoryStep
  <2>3. CASE ~Accepts(now, c, b.selections)
    BY <2>1, <2>3, Refused, NothingMoves
  <2> QED  BY <2>2, <2>3
<1>2. CASE Undo
  BY <1>2, UndoRests DEF HistoryStep
<1>3. CASE Redo
  BY <1>3, RedoRests DEF HistoryStep
<1>4. CASE UNCHANGED vars
  BY <1>4, NothingMoves DEF vars
<1> QED  BY <1>1, <1>2, <1>3, <1>4, EveryStep DEF Sound

\* Undo and redo are those of the undo history, whatever the journal holds:
\* an undo brings back exactly the state before, a redo the state ahead, a
\* gesture of the eraser is one press in both directions, and an edit gives up
\* what was ahead (docmodel.rs:30-46, 4153-4159).
THEOREM UndoIsExact == Spec => ImplementsUndoHistory
<1>1. Init => Resting /\ History!Init
  <2> SUFFICES ASSUME Init
               PROVE  Resting /\ History!Init
    OBVIOUS
  <2>1. Resting /\ Past = <<>> /\ Ahead = <<>>
        /\ Present = [document |-> BaselineDocument, gesture |-> None]
    BY HistoryAtFirst
  <2> QED  BY <2>1 DEF History!Init, Past, Present, Ahead
<1>2. Sound /\ Resting /\ [Next]_vars => Resting'
  BY HistorySteps
<1>3. Sound /\ Resting /\ [Next]_vars => History!Next \/ HistoryStays
  <2> SUFFICES ASSUME Sound, Resting, [Next]_vars
               PROVE  History!Next \/ HistoryStays
    OBVIOUS
  <2>1. HistoryStep \/ HistoryStays
    BY HistorySteps
  <2>2. HistoryStep => History!Next
    <3>1. ~(Present.gesture = Present'.gesture /\ Present.gesture # None)
          /\ Past' = Append(Past, Present) /\ Ahead' = <<>> => History!Edit
      BY DEF Past, Present, Ahead, History!Edit, History!OneGesture
    <3>2. Present.gesture = Present'.gesture /\ Present.gesture # None
          /\ Past' = Past /\ Ahead' = <<>> => History!Amend
      BY DEF Past, Present, Ahead, History!Amend, History!OneGesture
    <3>3. Last(Past) = History!Last(Past) /\ Front(Past) = History!Front(Past)
      BY DEF Last, Front, History!Last, History!Front
    <3>4. Past # <<>> /\ Present' = Last(Past) /\ Past' = Front(Past)
          /\ Ahead' = <<Present>> \o Ahead => History!Undo
      BY <3>3 DEF Past, Present, Ahead, History!Undo
    <3>5. Ahead # <<>> /\ Present' = Head(Ahead) /\ Ahead' = Tail(Ahead)
          /\ Past' = Append(Past, Present) => History!Redo
      BY DEF Past, Present, Ahead, History!Redo
    <3> QED  BY <3>1, <3>2, <3>4, <3>5 DEF HistoryStep, History!Next
  <2> QED  BY <2>1, <2>2
<1>4. HistoryStays <=> UNCHANGED <<InOrder({k \in TrueStops : k < cursor}, StateAt),
                                   [document |-> now,
                                    gesture |-> IF cursor = 0 THEN None ELSE journal[cursor].sweep],
                                   InOrder({k \in TrueStops : k > cursor}, StateAt)>>
  BY DEF HistoryStays, Past, Present, Ahead
<1> QED  BY <1>1, <1>2, <1>3, <1>4, AlwaysSound, PTL DEF Spec, ImplementsUndoHistory, History!Spec

-----------------------------------------------------------------------------
\* The journal and the search together.

SearchP == INSTANCE SearchWalkProofs

\* The search that is proved about is the one that is checked: an instance of the
\* module of the proofs has the same steps as one of the module itself.

LEMMA SearchStarts == Search!Init => SearchP!Init
  BY DEF Search!NoPage, SearchP!NoPage, Search!NoCarry, SearchP!NoCarry, Search!NoWalk,
         SearchP!NoWalk, Search!NoMark, SearchP!NoMark, Search!Init, SearchP!Init,
         Search!InsertAt, SearchP!InsertAt

LEMMA SearchMoves == Search!Next => SearchP!Next
<1>1. Search!WalkStep => SearchP!WalkStep
  <2>1. \A w, kind, slots : Search!Asks(w, kind, slots) = SearchP!Asks(w, kind, slots)
    BY DEF Search!NoPage, SearchP!NoPage, Search!CarryInto, SearchP!CarryInto, Search!Asks,
           SearchP!Asks
  <2>2. \A w : Search!Superseded(w) = SearchP!Superseded(w) /\ Search!Ended(w) = SearchP!Ended(w)
    BY DEF Search!NoPage, SearchP!NoPage, Search!NoCarry, SearchP!NoCarry, Search!NoWalk,
           SearchP!NoWalk, Search!Ended, SearchP!Ended, Search!Superseded, SearchP!Superseded
  <2>3. \A w : Search!Onward(w) = SearchP!Onward(w)
    BY DEF Search!NoPage, SearchP!NoPage, Search!NoCarry, SearchP!NoCarry, Search!Addressable,
           SearchP!Addressable, Search!Continues, SearchP!Continues, Search!RunFrom,
           SearchP!RunFrom, Search!CarryInto, SearchP!CarryInto, Search!Asks, SearchP!Asks,
           Search!AsksFrom, SearchP!AsksFrom, Search!Ended, SearchP!Ended, Search!LooksBehind,
           SearchP!LooksBehind, Search!Onward, SearchP!Onward
  <2>4. \A w, n : Search!Filed(w, n) = SearchP!Filed(w, n)
    BY DEF Search!NoPage, SearchP!NoPage, Search!Subsequence, SearchP!Subsequence, Search!Own,
           SearchP!Own, Search!Join, SearchP!Join, Search!InScope, SearchP!InScope,
           Search!Takes, SearchP!Takes, Search!Before, SearchP!Before, Search!HitsOf,
           SearchP!HitsOf, Search!Filed, SearchP!Filed, Search!Range, SearchP!Range
  <2>5. \A g : Search!Reply(g) => SearchP!Reply(g)
    <3>1. \A w, n : Search!After(w, n) = SearchP!After(w, n)
      BY DEF Search!After, SearchP!After
    <3>2. \A w, v : Search!Resumed(w, v) = SearchP!Resumed(w, v)
      BY <2>2, <2>3 DEF Search!Resumed, SearchP!Resumed
    <3>3. \A g, w : Search!Goes(g, w) => SearchP!Goes(g, w)
      BY <2>2 DEF Search!Goes, SearchP!Goes
    <3>4. \A g : Search!Outstanding(g) /\ Search!Present(g) =>
                     SearchP!Outstanding(g) /\ SearchP!Present(g)
      BY DEF Search!Outstanding, SearchP!Outstanding, Search!Present, SearchP!Present
    <3> SUFFICES ASSUME NEW g, Search!Reply(g)
                 PROVE  SearchP!Reply(g)
      OBVIOUS
    <3>5. PICK n \in 1..Len(walk[g].asked) :
             /\ matches' = matches \o Search!Filed(walk[g], n)
             /\ Search!Goes(g, Search!Resumed(walk[g], Search!After(walk[g], n)))
      BY DEF Search!Reply
    <3>6. /\ matches' = matches \o SearchP!Filed(walk[g], n)
          /\ SearchP!Goes(g, SearchP!Resumed(walk[g], SearchP!After(walk[g], n)))
      BY <2>4, <3>1, <3>2, <3>3, <3>5
    <3> QED  BY <3>4, <3>6 DEF Search!Reply, SearchP!Reply
  <2>6. \A g : Search!ReplyWithProblem(g) => SearchP!ReplyWithProblem(g)
    BY <2>2, ZenonT(40)
       DEF Search!list, SearchP!list, Search!Goes, SearchP!Goes, Search!Outstanding,
           SearchP!Outstanding, Search!Present, SearchP!Present, Search!ReplyWithProblem,
           SearchP!ReplyWithProblem
  <2>9. \A g : Search!ReplyTooLate(g) => SearchP!ReplyTooLate(g)
    BY <2>2, ZenonT(40)
       DEF Search!list, SearchP!list, Search!Outstanding, SearchP!Outstanding, Search!Present,
           SearchP!Present, Search!ReplyTooLate, SearchP!ReplyTooLate
  <2>7. \A g : Search!PageFails(g) => SearchP!PageFails(g)
    BY <2>2, <2>3, ZenonT(40) DEF Search!NoPage, SearchP!NoPage, Search!NoCarry, SearchP!NoCarry,
                      Search!Goes, SearchP!Goes, Search!Unanswered, SearchP!Unanswered,
                      Search!Resumed, SearchP!Resumed, Search!Outstanding, SearchP!Outstanding,
                      Search!Present, SearchP!Present, Search!Fails, SearchP!Fails,
                      Search!PageFails, SearchP!PageFails
  <2>8. \A g : Search!RunFails(g) => SearchP!RunFails(g)
    BY <2>1, <2>2, <2>3, ZenonT(40) DEF Search!Addressable, SearchP!Addressable, Search!Goes, SearchP!Goes,
                            Search!Outstanding, SearchP!Outstanding, Search!Fails,
                            SearchP!Fails, Search!RunFails, SearchP!RunFails
  <2> QED  BY <2>5, <2>6, <2>7, <2>8, <2>9, ZenonT(40) DEF Search!WalkStep, SearchP!WalkStep
<1>2. Search!Reader => SearchP!Reader
  BY ZenonT(60) DEF Search!NoPage, SearchP!NoPage, Search!NoCarry, SearchP!NoCarry, Search!Infinity,
         SearchP!Infinity, Search!Entry, SearchP!Entry, Search!Subsequence,
         SearchP!Subsequence, Search!NoWalk, SearchP!NoWalk, Search!list, SearchP!list,
         Search!Addressable, SearchP!Addressable, Search!Continues, SearchP!Continues,
         Search!RunFrom, SearchP!RunFrom, Search!CarryInto, SearchP!CarryInto, Search!Asks,
         SearchP!Asks, Search!AsksFrom, SearchP!AsksFrom, Search!Ended, SearchP!Ended,
         Search!LooksBehind, SearchP!LooksBehind, Search!Onward, SearchP!Onward,
         Search!Superseded, SearchP!Superseded, Search!Emptied, SearchP!Emptied, Search!Whole,
         SearchP!Whole, Search!Selection, SearchP!Selection, Search!Cancelled,
         SearchP!Cancelled, Search!Search, SearchP!Search, Search!SearchAll, SearchP!SearchAll,
         Search!SearchSelection, SearchP!SearchSelection, Search!Cleared, SearchP!Cleared,
         Search!Clear, SearchP!Clear, Search!Reorder, SearchP!Reorder,
         Search!completeForMarking, SearchP!completeForMarking, Search!Chunk, SearchP!Chunk,
         Search!Loads, SearchP!Loads, Search!Mark, SearchP!Mark, Search!Reader, SearchP!Reader,
         Search!Range, SearchP!Range, Search!RemoveAt, SearchP!RemoveAt
<1>3. /\ Search!MarkRefuses => SearchP!MarkRefuses
      /\ Search!MarkLoads => SearchP!MarkLoads
      /\ Search!MarkEnds => SearchP!MarkEnds
  BY DEF Search!NoPage, SearchP!NoPage, Search!NoMark, SearchP!NoMark, Search!list,
         SearchP!list, Search!HalvesOf, SearchP!HalvesOf, Search!Chunk, SearchP!Chunk,
         Search!SamePages, SearchP!SamePages, Search!MarkRefuses, SearchP!MarkRefuses,
         Search!MarkLoads, SearchP!MarkLoads, Search!MarkEnds, SearchP!MarkEnds, Search!Range,
         SearchP!Range
<1> QED  BY <1>1, <1>2, <1>3 DEF Search!Next, SearchP!Next

\* A step moves one part, and the other stutters.
LEMMA JournalOrSearchMoves ==
    ASSUME [MCNext]_<<part, vars, searchVars>>
    PROVE  [Next]_vars /\ [SearchP!Next]_SearchP!vars
<1>1. UNCHANGED searchVars => UNCHANGED SearchP!vars
  BY DEF searchVars, SearchP!vars, SearchP!list
<1>2. CASE Next /\ UNCHANGED <<part, searchVars>>
  BY <1>1, <1>2
<1>3. CASE Search!Next /\ UNCHANGED <<part, vars>>
  BY <1>3, SearchMoves
<1>4. CASE UNCHANGED <<part, vars, searchVars>>
  BY <1>1, <1>4
<1> QED  BY <1>2, <1>3, <1>4 DEF MCNext

LEMMA BothKeepTheirSpec == MCSpec => Spec /\ SearchP!Spec
<1>1. MCInit => Init /\ SearchP!Init
  BY SearchStarts DEF MCInit
<1>2. [MCNext]_<<part, vars, searchVars>> => [Next]_vars /\ [SearchP!Next]_SearchP!vars
  BY JournalOrSearchMoves
<1> QED  BY <1>1, <1>2, PTL DEF MCSpec, Spec, SearchP!Spec

LEMMA SearchIsBounded == SearchP!Bounded
  BY SearchAssumption DEF SearchP!Bounded

\* Every variable of the journal and of the search has its type, for any document
\* and any number of edits, searches and failures.
THEOREM AllTypes == MCSpec => []AllTypesOK
<1>1. SearchP!Spec => []SearchP!TypeOK
  BY SearchIsBounded, SearchP!SearchTypes
<1>2. SearchP!TypeOK => Search!TypeOK
  BY SMTT(40) DEF Search!Slots, SearchP!Slots, Search!Address, SearchP!Address, Search!Hit, SearchP!Hit,
         Search!TypeOK, SearchP!TypeOK, Search!IsInjective, SearchP!IsInjective
<1>3. TypeOK /\ Search!TypeOK => AllTypesOK
  BY DEF AllTypesOK
<1> QED  BY <1>1, <1>2, <1>3, BothKeepTheirSpec, TablesFit, PTL

\* The list is what there is in reading order, each hit once, however the replies
\* are cut short, late or lost: a page that could not be read hides its own hits
\* and those at its breaks, and no other (search.ts).
THEOREM TheListIsWhatThereIs == MCSpec => []ListIsInReadingOrder
<1>1. SearchP!Spec => []SearchP!ListIsInReadingOrder
  BY SearchIsBounded, SearchP!ListIsWhatThereIs
<1>2. SearchP!ListIsInReadingOrder => Search!ListIsInReadingOrder
  BY DEF Search!NoPage, SearchP!NoPage, Search!Subsequence, SearchP!Subsequence, Search!Own,
         SearchP!Own, Search!Join, SearchP!Join, Search!InScope, SearchP!InScope,
         Search!AllHits, SearchP!AllHits, Search!ListIsInReadingOrder,
         SearchP!ListIsInReadingOrder, Search!IsPrefix, SearchP!IsPrefix, Search!Range,
         SearchP!Range
<1>3. Search!ListIsInReadingOrder => ListIsInReadingOrder
  BY DEF ListIsInReadingOrder
<1> QED  BY <1>1, <1>2, <1>3, BothKeepTheirSpec, PTL

\* What is handed over to be marked is every half of every hit of the list, on the
\* page its text was read from (matchQuadsByPage).
THEOREM TheMarksAreTheHits == MCSpec => []MarksAreTheHits
<1>1. SearchP!Spec => []SearchP!MarksAreTheHits
  BY SearchIsBounded, SearchP!MarksAreWhatWasListed
<1>2. SearchP!MarksAreTheHits => Search!MarksAreTheHits
  BY DEF Search!Halves, SearchP!Halves, Search!MarksAreTheHits, SearchP!MarksAreTheHits,
         Search!Range, SearchP!Range
<1>3. Search!MarksAreTheHits => MarksAreTheHits
  BY DEF MarksAreTheHits
<1> QED  BY <1>1, <1>2, <1>3, BothKeepTheirSpec, PTL
=============================================================================
