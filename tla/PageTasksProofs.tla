---------------------------- MODULE PageTasksProofs ----------------------------
(* The window's queues, for any number of files, edits and requests: a save  *)
(* takes every edit made of the document since it was mounted, the window    *)
(* shows the model once the replies are in, and no tab is closed over an     *)
(* edit its close has waited for without a question.  NoDoc is no file, and  *)
(* the bounds are numbers; PageTasks is taken as an instance where it is     *)
(* checked, so that the theorems say so themselves.                          *)
EXTENDS PageTasks, TLAPS, SequenceTheorems, FiniteSetTheorems

Bounded == NoDoc \notin Docs /\ MaxEdits \in Nat /\ MaxRequests \in Nat

-----------------------------------------------------------------------------
\* The inductive invariant.

\* The queue of edits runs one at a time, and those of a document follow each
\* other; what is not answered is not in the model yet.
EditRow(i) ==
    LET e == editing[i] IN
    /\ e.at # "queued" => i = 1
    /\ e.at # "answered" \/ e.view = "gone" => e.reply = 0
    /\ e.nth <= made[e.doc]
    /\ e.at # "answered" => model[e.doc] < e.nth
    /\ \A j \in DOMAIN editing : i < j /\ editing[j].doc = e.doc => e.nth < editing[j].nth

EditsInOrder ==
    /\ \A i \in DOMAIN editing : EditRow(i)
    /\ \A d \in Docs : model[d] <= made[d]

\* What was made since the document was mounted is up to pendingEdit.
Here(i) ==
    editing[i].doc = shown /\ pending.doc = shown /\ editing[i].nth <= pending.nth

EditsHere == \A i \in DOMAIN editing : editing[i].view = "here" => Here(i)

WindowOK ==
    /\ draft => shown # NoDoc /\ made[shown] < MaxEdits
    /\ pending = NoBound \/ pending.doc = shown \/ shown = NoDoc

\* The body that runs, where it is.
BodyRow(b) ==
    /\ b.kind = "behind" => b.at \in {"queued", "ask"}
    /\ b.at \in {"wait", "confirm"} =>
          b.until = NoBound \/ b.until.doc = shown \/ shown = NoDoc
    /\ b.at = "mount" => shown = NoDoc /\ pending = NoBound /\ b.kind # "several"

OthersWait ==
    /\ \A i \in DOMAIN opens : i # 1 => opens[i].at = "queued"
    /\ \A b \in afterIdle : b.at = "queued"

OneBodyRuns == opens # <<>> => BodyRow(opens[1])

\* Whose end waits for an edit: that of the body that runs, or that of the save.
Waits == IF opens # <<>> /\ opens[1].at = "wait" THEN {opens[1].until} ELSE {}
ByBody(i) ==
    \E until \in Waits : editing[i].doc = until.doc /\ editing[i].nth <= until.nth
BySave(i) ==
    /\ saving.at = "waitAgain"
    /\ editing[i].doc = saving.until.doc /\ editing[i].nth <= saving.until.nth

\* What was made of the document that is saved is waited for.
SaveAwaits ==
    saving.at \in {"waitAgain", "call"} =>
        \A i \in DOMAIN editing :
            editing[i].doc = saving.doc /\ editing[i].view = "here" =>
                ByBody(i) \/ BySave(i)

\* The state the page has is the model's, or the reply that says so is next.
Shows(d) ==
    IF editing # <<>> /\ editing[1].doc = d /\ editing[1].reply > 0
    THEN editing[1].reply = model[d] /\ model[d] = seen[d] + 1
    ELSE seen[d] = model[d]

Coming ==
    IF opens # <<>> /\ opens[1].at \in {"settle", "wait", "mount"} /\ opens[1].kind # "several"
    THEN {opens[1].doc} ELSE {}

WindowFollows == \A d \in tabs \cup Coming : Shows(d)

PageInv ==
    /\ TypeOK /\ EditsInOrder /\ EditsHere /\ WindowOK /\ OthersWait /\ OneBodyRuns
    /\ SaveAwaits /\ WindowFollows
-----------------------------------------------------------------------------
\* Queues.

LEMMA Appended ==
    ASSUME NEW V, NEW s \in Seq(V), NEW e \in V
    PROVE  /\ Append(s, e) \in Seq(V) /\ Len(Append(s, e)) = Len(s) + 1 /\ Append(s, e) # <<>>
           /\ DOMAIN Append(s, e) = 1..Len(s) + 1 /\ DOMAIN s = 1..Len(s) /\ Len(s) \in Nat
           /\ \A i \in 1..Len(s) : Append(s, e)[i] = s[i]
           /\ Append(s, e)[Len(s) + 1] = e
<1> DEFINE a == Append(s, e)
<1>1. /\ a \in Seq(V) /\ Len(a) = Len(s) + 1 /\ a # <<>>
      /\ (\A i \in 1..Len(s) : a[i] = s[i]) /\ a[Len(s) + 1] = e
  BY AppendProperties
<1>2. Len(s) \in Nat /\ DOMAIN s = 1..Len(s)
  OBVIOUS
<1> HIDE DEF a
<1>3. DOMAIN a = 1..Len(a)
  BY <1>1
<1> QED  BY <1>1, <1>2, <1>3 DEF a

LEMMA FirstRemoved ==
    ASSUME NEW V, NEW s \in Seq(V), s # <<>>
    PROVE  /\ RemoveAt(s, 1) \in Seq(V) /\ Len(RemoveAt(s, 1)) = Len(s) - 1
           /\ Len(s) \in Nat /\ Len(s) >= 1 /\ DOMAIN s = 1..Len(s)
           /\ DOMAIN RemoveAt(s, 1) = 1..Len(s) - 1
           /\ \A i \in 1..Len(s) - 1 : RemoveAt(s, 1)[i] = s[i + 1]
<1>1. Len(s) \in Nat /\ Len(s) >= 1 /\ DOMAIN s = 1..Len(s)
  OBVIOUS
<1> DEFINE a == SubSeq(s, 1, 0)
           b == SubSeq(s, 2, Len(s))
<1>2. a = <<>>
  OBVIOUS
<1>3. /\ b \in Seq(V) /\ Len(b) = Len(s) - 1
      /\ \A i \in 1..Len(s) - 1 : b[i] = s[i + 1]
  <2>1. b \in Seq(V) /\ Len(b) = (IF 2 <= Len(s) THEN Len(s) - 2 + 1 ELSE 0)
        /\ \A i \in 1..Len(s) - 2 + 1 : b[i] = s[2 + i - 1]
    BY <1>1, SubSeqProperties
  <2>2. (IF 2 <= Len(s) THEN Len(s) - 2 + 1 ELSE 0) = Len(s) - 1 /\ Len(s) - 2 + 1 = Len(s) - 1
    BY <1>1
  <2>3. \A i \in 1..Len(s) - 1 : 2 + i - 1 = i + 1
    BY <1>1
  <2> QED  BY <2>1, <2>2, <2>3
<1>4. RemoveAt(s, 1) = a \o b
  BY <1>1 DEF RemoveAt
<1> HIDE DEF a, b
<1>5. a \o b = b
  BY <1>2, <1>3
<1>6. DOMAIN b = 1..Len(b)
  BY <1>3
<1> QED  BY <1>1, <1>3, <1>4, <1>5, <1>6

LEMMA OneChanged ==
    ASSUME NEW V, NEW s \in Seq(V), NEW i \in DOMAIN s, NEW e \in V
    PROVE  /\ [s EXCEPT ![i] = e] \in Seq(V) /\ Len([s EXCEPT ![i] = e]) = Len(s)
           /\ DOMAIN [s EXCEPT ![i] = e] = DOMAIN s /\ DOMAIN s = 1..Len(s)
  OBVIOUS

LEMMA TailIs ==
    ASSUME NEW V, NEW s \in Seq(V), s # <<>>
    PROVE  /\ Tail(s) \in Seq(V) /\ Len(Tail(s)) = Len(s) - 1
           /\ Len(s) \in Nat /\ Len(s) >= 1 /\ DOMAIN s = 1..Len(s)
           /\ DOMAIN Tail(s) = 1..Len(s) - 1
           /\ \A i \in 1..Len(s) - 1 : Tail(s)[i] = s[i + 1]
           /\ Head(s) = s[1] /\ s[1] \in V
  OBVIOUS

LEMMA HeadChanged ==
    ASSUME NEW V, NEW s \in Seq(V), s # <<>>, NEW e \in V
    PROVE  /\ <<e>> \o Tail(s) \in Seq(V) /\ Len(<<e>> \o Tail(s)) = Len(s)
           /\ <<e>> \o Tail(s) # <<>> /\ DOMAIN (<<e>> \o Tail(s)) = DOMAIN s
           /\ (<<e>> \o Tail(s))[1] = e
           /\ \A i \in DOMAIN s : i # 1 => (<<e>> \o Tail(s))[i] = s[i]
<1>1. /\ Tail(s) \in Seq(V) /\ Len(Tail(s)) = Len(s) - 1 /\ Len(s) \in Nat /\ Len(s) >= 1
      /\ DOMAIN s = 1..Len(s) /\ \A i \in 1..Len(s) - 1 : Tail(s)[i] = s[i + 1]
  BY TailIs
<1>2. PICK t \in Seq(V) : t = Tail(s)
  BY <1>1
<1>3. <<e>> \in Seq(V) /\ Len(<<e>>) = 1 /\ <<e>>[1] = e
  OBVIOUS
<1> DEFINE h == <<e>> \o t
<1>4. /\ h \in Seq(V) /\ Len(h) = 1 + Len(t)
      /\ \A i \in 1..1 + Len(t) : h[i] = IF i <= 1 THEN <<e>>[i] ELSE t[i - 1]
  BY <1>3, ConcatProperties
<1> HIDE DEF h
<1>5. Len(h) = Len(s) /\ DOMAIN h = 1..Len(h) /\ h # <<>>
  <2>1. Len(h) = Len(s) /\ DOMAIN h = 1..Len(h)
    BY <1>1, <1>2, <1>4
  <2>2. Len(h) # 0
    BY <1>1, <2>1
  <2> QED  BY <1>4, <2>1, <2>2
<1>6. h[1] = e
  <2>1. 1 \in 1..1 + Len(t) /\ 1 <= 1
    BY <1>1, <1>2
  <2> QED  BY <1>3, <1>4, <2>1
<1>7. \A i \in DOMAIN s : i # 1 => h[i] = s[i]
  <2> SUFFICES ASSUME NEW i \in DOMAIN s, i # 1
               PROVE  h[i] = s[i]
    OBVIOUS
  <2>1. i \in 1..1 + Len(t) /\ ~(i <= 1) /\ i - 1 \in 1..Len(s) - 1 /\ (i - 1) + 1 = i
    BY <1>1, <1>2
  <2> QED  BY <1>1, <1>2, <1>4, <2>1
<1> QED  BY <1>1, <1>2, <1>4, <1>5, <1>6, <1>7 DEF h
-----------------------------------------------------------------------------
\* The queue of edits.

\* What a step makes of the queue without adding to it: an edit that is left
\* was there, and one that is of what is mounted was so.
Fewer ==
    \A i \in DOMAIN editing' : \E k \in DOMAIN editing :
        /\ editing'[i].doc = editing[k].doc /\ editing'[i].nth = editing[k].nth
        /\ editing'[i].view = "here" => editing[k].view = "here"

LEMMA EditsTyped ==
    ASSUME Bounded, TypeOK
    PROVE  /\ DOMAIN editing = 1..Len(editing) /\ Len(editing) \in Nat
           /\ editing \in Seq(EditCommand)
           /\ \A i \in DOMAIN editing :
                 /\ editing[i] \in EditCommand /\ editing[i].doc \in Docs
                 /\ editing[i].nth \in Nat /\ editing[i].nth >= 1
                 /\ editing[i].nth \in 1..MaxEdits /\ editing[i].reply \in 0..MaxEdits
                 /\ editing[i].reply \in Nat
<1>1. DOMAIN editing = 1..Len(editing) /\ Len(editing) \in Nat /\ editing \in Seq(EditCommand)
      /\ \A i \in DOMAIN editing : editing[i] \in EditCommand
  BY DEF TypeOK
<1>2. \A e \in EditCommand : /\ e.doc \in Docs /\ e.nth \in Nat /\ e.nth >= 1
                             /\ e.nth \in 1..MaxEdits /\ e.reply \in 0..MaxEdits /\ e.reply \in Nat
  BY DEF EditCommand, Bounded
<1> QED  BY <1>1, <1>2

LEMMA Counted ==
    ASSUME Bounded, TypeOK, EditsInOrder
    PROVE  \A d \in Docs : /\ made[d] \in Nat /\ made[d] <= MaxEdits /\ model[d] \in Nat
                           /\ seen[d] \in Nat /\ model[d] <= made[d]
  BY DEF TypeOK, Bounded, EditsInOrder

\* Only the first edit of the queue is on its way, and it is one.
LEMMA FirstOnly ==
    ASSUME Bounded, TypeOK, EditsInOrder, NEW i \in DOMAIN editing,
           editing[i].at # "queued" \/ editing[i].reply # 0
    PROVE  i = 1 /\ editing # <<>>
<1>1. i = 1
  BY DEF EditsInOrder, EditRow
<1>2. editing # <<>>
  BY DEF TypeOK
<1> QED  BY <1>1, <1>2

LEMMA OthersWithoutReply ==
    ASSUME Bounded, TypeOK, EditsInOrder
    PROVE  \A i \in DOMAIN editing : i # 1 => editing[i].at = "queued" /\ editing[i].reply = 0
  BY DEF EditsInOrder, EditRow

LEMMA QueueKeepsEdits ==
    ASSUME Bounded, TypeOK, EditsInOrder, NEW d \in Docs, Queue(d), made[d] < MaxEdits,
           UNCHANGED model
    PROVE  /\ EditsInOrder' /\ editing' \in Seq(EditCommand) /\ made' \in [Docs -> 0..MaxEdits]
           /\ pending' \in Bound /\ pending' = [doc |-> d, nth |-> made[d] + 1]
           /\ \A e \in Docs : e # d => made'[e] = made[e]
           /\ DOMAIN editing' = 1..Len(editing) + 1 /\ DOMAIN editing = 1..Len(editing)
           /\ editing' # <<>> /\ Len(editing) \in Nat
           /\ \A i \in DOMAIN editing : editing'[i] = editing[i]
           /\ editing'[Len(editing) + 1].doc = d /\ editing'[Len(editing) + 1].nth = made[d] + 1
           /\ editing'[Len(editing) + 1].reply = 0
           /\ \A i \in DOMAIN editing : editing[i].doc = d => editing[i].nth <= made[d] + 1
<1> DEFINE n == Len(editing)
           x == [doc |-> d, nth |-> made[d] + 1, view |-> "here", at |-> "queued", reply |-> 0]
<1>1. /\ DOMAIN editing = 1..n /\ n \in Nat /\ editing \in Seq(EditCommand)
      /\ \A i \in 1..n : editing[i] \in EditCommand /\ editing[i].doc \in Docs
                         /\ editing[i].nth \in Nat
  BY EditsTyped
<1>2. d # NoDoc /\ made[d] \in Nat /\ made \in [Docs -> 0..MaxEdits] /\ made[d] + 1 \in 1..MaxEdits
      /\ made[d] + 1 \in 0..MaxEdits
  BY Counted DEF TypeOK, Bounded
<1>3. x \in EditCommand
  BY <1>2 DEF EditCommand, Bounded
<1>4. /\ made' = [made EXCEPT ![d] = @ + 1] /\ editing' = Append(editing, x)
      /\ pending' = [doc |-> d, nth |-> made[d] + 1]
  BY DEF Queue
<1>5. /\ made' \in [Docs -> 0..MaxEdits] /\ made'[d] = made[d] + 1 /\ pending' \in Bound
      /\ \A e \in Docs : e # d => made'[e] = made[e]
  BY <1>2, <1>4 DEF Bounded, Bound
<1>6. x.doc = d /\ x.nth = made[d] + 1 /\ x.at = "queued" /\ x.reply = 0
  OBVIOUS
<1> HIDE DEF x, n
<1>7. /\ editing' \in Seq(EditCommand) /\ DOMAIN editing' = 1..n + 1 /\ editing' # <<>>
      /\ (\A i \in 1..n : editing'[i] = editing[i]) /\ editing'[n + 1] = x
  BY <1>1, <1>3, <1>4, Appended DEF n
<1>8. \A e \in Docs : made[e] \in Nat /\ model[e] \in Nat /\ made'[e] \in Nat
                      /\ made[e] <= made'[e] /\ model[e] <= made[e]
  <2>1. \A m \in Nat : m <= m /\ m <= m + 1 /\ m + 1 \in Nat
    OBVIOUS
  <2> QED  BY <1>2, <1>5, <2>1, Counted
<1>9. \A i \in 1..n : editing[i].nth <= made[editing[i].doc] /\ EditRow(i)
  BY <1>1 DEF EditsInOrder, EditRow
<1>10. \A i \in 1..n : editing[i].doc = d => editing[i].nth < x.nth /\ editing[i].nth <= made[d] + 1
  BY <1>1, <1>2, <1>6, <1>9
<1>11. ASSUME NEW i \in 1..n
       PROVE  EditRow(i)'
  <2>1. editing'[i] = editing[i]
    BY <1>7
  <2>2. editing[i].nth <= made'[editing[i].doc]
    BY <1>1, <1>8, <1>9
  <2>3. \A j \in 1..n + 1 : i < j /\ editing'[j].doc = editing[i].doc => editing[i].nth < editing'[j].nth
    <3> SUFFICES ASSUME NEW j \in 1..n + 1, i < j, editing'[j].doc = editing[i].doc
                 PROVE  editing[i].nth < editing'[j].nth
      OBVIOUS
    <3>1. CASE j = n + 1
      BY <1>6, <1>7, <1>10, <3>1
    <3>2. CASE j # n + 1
      <4>1. j \in 1..n
        BY <1>1, <3>2
      <4> QED  BY <1>1, <1>7, <1>9, <4>1 DEF EditRow
    <3> QED  BY <3>1, <3>2
  <2> QED  BY <1>7, <1>9, <2>1, <2>2, <2>3 DEF EditRow
<1>12. \A i \in 1..n + 1 : i = n + 1 => EditRow(i)'
  <2> SUFFICES ASSUME NEW i \in 1..n + 1, i = n + 1
               PROVE  EditRow(i)'
    OBVIOUS
  <2>1. \A j \in 1..n + 1 : ~(i < j)
    BY <1>1
  <2>2. editing'[i] = x /\ x.nth <= made'[d] /\ model[d] < x.nth
    BY <1>2, <1>5, <1>6, <1>7, <1>8
  <2> QED  BY <1>6, <1>7, <2>1, <2>2 DEF EditRow
<1>13. EditsInOrder'
  <2>1. \A i \in 1..n + 1 : i \in 1..n \/ i = n + 1
    BY <1>1
  <2>2. \A e \in Docs : model'[e] <= made'[e]
    BY <1>8
  <2> QED  BY <1>7, <1>11, <1>12, <2>1, <2>2 DEF EditsInOrder
<1> QED  BY <1>1, <1>4, <1>5, <1>6, <1>7, <1>10, <1>13 DEF n

\* The first edit leaves the queue.
LEMMA DropKeepsEdits ==
    ASSUME Bounded, TypeOK, EditsInOrder, editing # <<>>, editing' = RemoveAt(editing, 1),
           UNCHANGED <<made, model>>
    PROVE  /\ EditsInOrder' /\ editing' \in Seq(EditCommand) /\ Fewer
           /\ \A i \in DOMAIN editing' : editing'[i].reply = 0
<1> DEFINE n == Len(editing)
<1>1. /\ editing' \in Seq(EditCommand) /\ n \in Nat /\ n >= 1 /\ DOMAIN editing = 1..n
      /\ DOMAIN editing' = 1..n - 1 /\ \A i \in 1..n - 1 : editing'[i] = editing[i + 1]
  BY FirstRemoved DEF TypeOK
<1> HIDE DEF n
<1>2. \A i \in 1..n - 1 : i + 1 \in DOMAIN editing /\ i + 1 # 1
  BY <1>1
<1>3. \A i \in 1..n - 1 : editing'[i].at = "queued" /\ editing'[i].reply = 0
  BY <1>1, <1>2, OthersWithoutReply
<1>4. ASSUME NEW i \in 1..n - 1
      PROVE  EditRow(i)'
  <2>1. EditRow(i + 1)
    BY <1>2 DEF EditsInOrder
  <2>2. ASSUME NEW j \in 1..n - 1, i < j, editing'[j].doc = editing'[i].doc
        PROVE  editing'[i].nth < editing'[j].nth
    <3>1. i + 1 < j + 1 /\ editing'[j] = editing[j + 1] /\ j + 1 \in DOMAIN editing
      BY <1>1, <1>2, <2>2
    <3> QED  BY <1>1, <2>1, <2>2, <3>1 DEF EditRow
  <2>3. editing'[i].nth <= made[editing'[i].doc] /\ model[editing'[i].doc] < editing'[i].nth
    BY <1>1, <1>3, <2>1 DEF EditRow
  <2> QED  BY <1>1, <1>3, <2>2, <2>3 DEF EditRow
<1>5. EditsInOrder'
  BY <1>1, <1>4 DEF EditsInOrder
<1>6. Fewer
  BY <1>1, <1>2 DEF Fewer
<1> QED  BY <1>1, <1>3, <1>5, <1>6

\* The edits stay, and what is known of them changes.
LEMMA RelabelledKeepEdits ==
    ASSUME Bounded, TypeOK, EditsInOrder, UNCHANGED made,
           editing' \in Seq(EditCommand), DOMAIN editing' = DOMAIN editing,
           \A i \in DOMAIN editing :
               /\ editing'[i].doc = editing[i].doc /\ editing'[i].nth = editing[i].nth
               /\ editing'[i].view = "here" => editing[i].view = "here"
               /\ editing'[i].at # "queued" => i = 1
               /\ editing'[i].at # "answered" \/ editing'[i].view = "gone" => editing'[i].reply = 0
               /\ editing'[i].at # "answered" => model'[editing[i].doc] < editing[i].nth,
           \A d \in Docs : model'[d] <= made[d]
    PROVE  EditsInOrder' /\ Fewer
<1>1. ASSUME NEW i \in DOMAIN editing
      PROVE  EditRow(i)'
  <2>1. /\ editing[i].nth <= made[editing[i].doc]
        /\ \A j \in DOMAIN editing : i < j /\ editing[j].doc = editing[i].doc =>
              editing[i].nth < editing[j].nth
    BY DEF EditsInOrder, EditRow
  <2>2. \A j \in DOMAIN editing : editing'[j].doc = editing[j].doc /\ editing'[j].nth = editing[j].nth
    OBVIOUS
  <2> QED  BY <2>1, <2>2 DEF EditRow
<1>2. EditsInOrder'
  BY <1>1 DEF EditsInOrder
<1>3. Fewer
  BY DEF Fewer
<1> QED  BY <1>2, <1>3

\* One edit changes.
LEMMA OneRelabelled ==
    ASSUME Bounded, TypeOK, EditsInOrder, UNCHANGED made, NEW x \in EditCommand,
           1 \in DOMAIN editing, editing' = [editing EXCEPT ![1] = x],
           x.doc = editing[1].doc, x.nth = editing[1].nth, x.view = editing[1].view,
           x.at # "answered" \/ x.view = "gone" => x.reply = 0,
           \A i \in DOMAIN editing : editing'[i].at # "answered" =>
               model'[editing[i].doc] < editing[i].nth,
           \A d \in Docs : model'[d] <= made[d]
    PROVE  /\ EditsInOrder' /\ Fewer /\ editing' \in Seq(EditCommand)
           /\ DOMAIN editing' = DOMAIN editing /\ editing'[1] = x /\ editing' # <<>>
           /\ \A i \in DOMAIN editing : i # 1 => editing'[i] = editing[i]
<1>1. /\ editing' \in Seq(EditCommand) /\ DOMAIN editing' = DOMAIN editing
      /\ \A i \in DOMAIN editing : editing'[i] = IF i = 1 THEN x ELSE editing[i]
  BY OneChanged DEF TypeOK
<1>2. \A i \in DOMAIN editing :
         /\ editing'[i].doc = editing[i].doc /\ editing'[i].nth = editing[i].nth
         /\ editing'[i].view = "here" => editing[i].view = "here"
         /\ editing'[i].at # "queued" => i = 1
         /\ editing'[i].at # "answered" \/ editing'[i].view = "gone" => editing'[i].reply = 0
  BY <1>1, OthersWithoutReply
<1>3. EditsInOrder' /\ Fewer
  BY <1>1, <1>2, RelabelledKeepEdits
<1>4. editing' # <<>>
  BY <1>1
<1> QED  BY <1>1, <1>3, <1>4

LEMMA SendKeepsEdits ==
    ASSUME Bounded, TypeOK, EditsInOrder, NEW i \in DOMAIN editing, SendEdit(i)
    PROVE  /\ EditsInOrder' /\ editing' \in Seq(EditCommand) /\ Fewer
           /\ UNCHANGED <<made, pending, model, seen>>
           /\ \A k \in DOMAIN editing' : editing'[k].reply = 0
           /\ \A k \in DOMAIN editing : editing[k].reply = 0
<1>1. i = 1 /\ editing # <<>> /\ editing[i].at = "queued" /\ UNCHANGED <<made, pending, model, seen>>
  BY DEF SendEdit, MaySend, TypeOK
<1>2. \A k \in DOMAIN editing : editing[k].reply = 0 /\ editing[k].at = "queued"
  BY <1>1, OthersWithoutReply DEF EditsInOrder, EditRow
<1>3. CASE editing' = RemoveAt(editing, i)
  BY <1>1, <1>2, <1>3, DropKeepsEdits
<1>4. CASE editing' = [editing EXCEPT ![i].at = "sent"]
  <2> DEFINE x == [editing[1] EXCEPT !.at = "sent"]
  <2>1. /\ x \in EditCommand /\ x.doc = editing[1].doc /\ x.nth = editing[1].nth
        /\ x.view = editing[1].view /\ x.reply = editing[1].reply /\ x.at = "sent"
    BY <1>1, EditsTyped DEF EditCommand
  <2>2. editing' = [editing EXCEPT ![1] = x]
    BY <1>1, <1>4
  <2> HIDE DEF x
  <2>3. \A k \in DOMAIN editing : model'[editing[k].doc] < editing[k].nth
    BY <1>1, <1>2 DEF EditsInOrder, EditRow
  <2>4. \A d \in Docs : model'[d] <= made[d]
    BY <1>1, Counted
  <2>5. x.reply = 0
    BY <1>1, <1>2, <2>1
  <2>6. /\ EditsInOrder' /\ Fewer /\ editing' \in Seq(EditCommand)
        /\ DOMAIN editing' = DOMAIN editing /\ editing'[1] = x
        /\ \A k \in DOMAIN editing : k # 1 => editing'[k] = editing[k]
    BY <1>1, <2>1, <2>2, <2>3, <2>4, <2>5, OneRelabelled
  <2>7. \A k \in DOMAIN editing' : editing'[k].reply = 0
    BY <1>2, <2>5, <2>6
  <2> QED  BY <1>1, <1>2, <2>6, <2>7
<1> QED  BY <1>3, <1>4 DEF SendEdit

LEMMA ApplyKeepsEdits ==
    ASSUME Bounded, TypeOK, EditsInOrder, NEW i \in DOMAIN editing, ApplyEdit(i)
    PROVE  /\ EditsInOrder' /\ editing' \in Seq(EditCommand) /\ Fewer
           /\ model' \in [Docs -> 0..MaxEdits] /\ i = 1 /\ editing # <<>> /\ editing' # <<>>
           /\ UNCHANGED <<made, pending, seen>>
           /\ editing'[1].doc = editing[1].doc /\ editing[1].reply = 0
           /\ \/ model' = model /\ editing'[1].reply = 0
              \/ /\ model'[editing[1].doc] = model[editing[1].doc] + 1
                 /\ editing'[1].reply = model'[editing[1].doc]
                 /\ \A d \in Docs : d # editing[1].doc => model'[d] = model[d]
<1>1. i = 1 /\ editing # <<>> /\ editing[1].at = "sent" /\ UNCHANGED <<made, pending, seen>>
      /\ 1 \in DOMAIN editing
  BY FirstOnly DEF ApplyEdit
<1>2. /\ editing[1] \in EditCommand /\ editing[1].reply = 0 /\ editing[1].doc \in Docs
      /\ editing[1].nth \in Nat /\ model[editing[1].doc] < editing[1].nth
      /\ editing[1].nth <= made[editing[1].doc]
  BY <1>1, EditsTyped DEF EditsInOrder, EditRow
<1> DEFINE d == editing[1].doc
           x(r) == [editing[1] EXCEPT !.at = "answered", !.reply = r]
<1>3. \A r \in 0..MaxEdits : /\ x(r) \in EditCommand /\ x(r).doc = d /\ x(r).reply = r
                             /\ x(r).nth = editing[1].nth /\ x(r).at = "answered"
                             /\ x(r).view = editing[1].view
  BY <1>2 DEF EditCommand
<1>4. \A k \in DOMAIN editing : k # 1 =>
         /\ model[editing[k].doc] < editing[k].nth
         /\ editing[k].doc = d => editing[1].nth < editing[k].nth
  <2>1. \A k \in DOMAIN editing : k # 1 => 1 < k
    BY EditsTyped
  <2> QED  BY <1>1, <2>1, OthersWithoutReply DEF EditsInOrder, EditRow
<1>5. CASE editing' = [editing EXCEPT ![i].at = "answered"] /\ UNCHANGED model
  <2>1. editing' = [editing EXCEPT ![1] = x(0)]
    BY <1>1, <1>2, <1>5 DEF EditCommand
  <2>2. /\ x(0) \in EditCommand /\ x(0).doc = d /\ x(0).reply = 0 /\ x(0).nth = editing[1].nth
        /\ x(0).at = "answered" /\ x(0).view = editing[1].view
    <3>1. 0 \in 0..MaxEdits
      BY DEF Bounded
    <3> HIDE DEF x, d
    <3> QED  BY <1>3, <3>1
  <2> HIDE DEF x
  <2>3. \A k \in DOMAIN editing : editing'[k].at # "answered" => k # 1
    BY <1>1, <2>1, <2>2
  <2>4. \A e \in Docs : model'[e] <= made[e]
    BY <1>5, Counted
  <2>5. /\ EditsInOrder' /\ Fewer /\ editing' \in Seq(EditCommand) /\ editing'[1] = x(0)
        /\ editing' # <<>>
    BY <1>1, <1>4, <1>5, <2>1, <2>2, <2>3, <2>4, OneRelabelled
  <2>6. model' \in [Docs -> 0..MaxEdits]
    BY <1>5 DEF TypeOK
  <2> QED  BY <1>1, <1>2, <1>5, <2>2, <2>5, <2>6
<1>6. CASE /\ d \in live /\ editing[i].view # "gone" /\ model' = [model EXCEPT ![d] = @ + 1]
           /\ editing' = [editing EXCEPT ![i].at = "answered", ![i].reply = model[d] + 1]
  <2>1. model[d] \in Nat /\ made[d] \in Nat /\ made[d] <= MaxEdits
    BY <1>2, Counted
  <2>2. model[d] + 1 \in 0..MaxEdits /\ model[d] + 1 <= editing[1].nth /\ model[d] + 1 <= made[d]
    BY <1>2, <2>1 DEF Bounded
  <2>3. /\ model' \in [Docs -> 0..MaxEdits] /\ model'[d] = model[d] + 1
        /\ \A e \in Docs : e # d => model'[e] = model[e]
    BY <1>2, <1>6, <2>2 DEF TypeOK
  <2> DEFINE r == model[d] + 1
  <2>4. editing' = [editing EXCEPT ![1] = x(r)]
    BY <1>1, <1>2, <1>6 DEF EditCommand
  <2>5. /\ x(r) \in EditCommand /\ x(r).doc = d /\ x(r).reply = r /\ x(r).nth = editing[1].nth
        /\ x(r).at = "answered" /\ x(r).view = editing[1].view /\ x(r).view # "gone"
    BY <1>1, <1>3, <1>6, <2>2
  <2> HIDE DEF x, r
  <2>6. \A k \in DOMAIN editing : editing'[k].at # "answered" => model'[editing[k].doc] < editing[k].nth
    <3> SUFFICES ASSUME NEW k \in DOMAIN editing, editing'[k].at # "answered"
                 PROVE  model'[editing[k].doc] < editing[k].nth
      OBVIOUS
    <3>1. k # 1 /\ editing[k].doc \in Docs /\ editing[k].nth \in Nat
      BY <1>1, <2>4, <2>5, EditsTyped
    <3>2. CASE editing[k].doc = d
      <4>1. editing[1].nth < editing[k].nth /\ model'[d] <= editing[1].nth /\ model'[d] \in Nat
        BY <1>4, <2>1, <2>2, <2>3, <3>1, <3>2
      <4> QED  BY <1>2, <3>1, <3>2, <4>1
    <3>3. CASE editing[k].doc # d
      BY <1>4, <2>3, <3>1, <3>3
    <3> QED  BY <3>2, <3>3
  <2>7. \A e \in Docs : model'[e] <= made[e]
    BY <2>2, <2>3, Counted
  <2>8. /\ EditsInOrder' /\ Fewer /\ editing' \in Seq(EditCommand) /\ editing'[1] = x(r)
        /\ editing' # <<>>
    BY <1>1, <2>4, <2>5, <2>6, <2>7, OneRelabelled
  <2> QED  BY <1>1, <1>2, <2>3, <2>5, <2>8 DEF r
<1> QED  BY <1>1, <1>5, <1>6 DEF ApplyEdit

LEMMA AdoptKeepsEdits ==
    ASSUME Bounded, TypeOK, EditsInOrder, NEW i \in DOMAIN editing, AdoptEdit(i)
    PROVE  /\ EditsInOrder' /\ editing' \in Seq(EditCommand) /\ Fewer
           /\ seen' \in [Docs -> 0..MaxEdits] /\ i = 1 /\ editing # <<>>
           /\ UNCHANGED <<made, pending, model>>
           /\ \A k \in DOMAIN editing' : editing'[k].reply = 0
           /\ \/ editing[1].reply = 0 /\ seen' = seen
              \/ /\ editing[1].reply > 0 /\ seen'[editing[1].doc] = editing[1].reply
                 /\ \A d \in Docs : d # editing[1].doc => seen'[d] = seen[d]
<1>1. /\ i = 1 /\ editing # <<>> /\ UNCHANGED <<made, pending, model>>
      /\ editing' = RemoveAt(editing, 1)
  BY FirstOnly DEF AdoptEdit
<1>2. editing[1].reply \in 0..MaxEdits /\ editing[1].doc \in Docs /\ editing[1].reply \in Nat
  BY <1>1, EditsTyped
<1>3. CASE editing[1].reply = 0
  <2>1. seen' = seen
    BY <1>1, <1>3 DEF AdoptEdit
  <2> QED  BY <1>1, <1>3, <2>1, DropKeepsEdits DEF TypeOK
<1>4. CASE editing[1].reply # 0
  <2>1. seen' = [seen EXCEPT ![editing[1].doc] = editing[1].reply]
    BY <1>1, <1>4 DEF AdoptEdit
  <2>2. /\ seen' \in [Docs -> 0..MaxEdits] /\ seen'[editing[1].doc] = editing[1].reply
        /\ \A d \in Docs : d # editing[1].doc => seen'[d] = seen[d]
    BY <1>2, <2>1 DEF TypeOK
  <2>3. editing[1].reply > 0
    BY <1>2, <1>4
  <2> QED  BY <1>1, <2>2, <2>3, DropKeepsEdits
<1> QED  BY <1>3, <1>4

\* The document is taken down.
LEMMA LeftKeepsEdits ==
    ASSUME Bounded, TypeOK, EditsInOrder, editing' = Left, UNCHANGED <<made, model>>
    PROVE  /\ EditsInOrder' /\ editing' \in Seq(EditCommand) /\ Fewer
           /\ DOMAIN editing' = DOMAIN editing
           /\ \A i \in DOMAIN editing : /\ editing'[i].view # "here"
                                        /\ editing'[i].doc = editing[i].doc
                                        /\ editing'[i].reply = editing[i].reply
<1> DEFINE x(i) == [editing[i] EXCEPT !.view = IF @ = "here" THEN "left" ELSE @]
<1>1. editing' = [i \in DOMAIN editing |-> x(i)]
  BY DEF Left
<1>2. \A i \in DOMAIN editing :
         /\ x(i) \in EditCommand /\ x(i).doc = editing[i].doc /\ x(i).reply = editing[i].reply
         /\ x(i).nth = editing[i].nth /\ x(i).at = editing[i].at /\ x(i).view # "here"
         /\ x(i).view = "gone" => editing[i].view = "gone"
  BY EditsTyped DEF EditCommand
<1> HIDE DEF x
<1>3. /\ editing' \in Seq(EditCommand) /\ DOMAIN editing' = DOMAIN editing
      /\ \A i \in DOMAIN editing : editing'[i] = x(i)
  <2>1. editing' \in [1..Len(editing) -> EditCommand] /\ Len(editing) \in Nat
    BY <1>1, <1>2, EditsTyped
  <2> QED  BY <1>1, <2>1
<1>4. \A i \in DOMAIN editing : EditRow(i)
  BY DEF EditsInOrder
<1>5. \A i \in DOMAIN editing :
         /\ editing'[i].doc = editing[i].doc /\ editing'[i].nth = editing[i].nth
         /\ editing'[i].view = "here" => editing[i].view = "here"
         /\ editing'[i].at # "queued" => i = 1
         /\ editing'[i].at # "answered" \/ editing'[i].view = "gone" => editing'[i].reply = 0
         /\ editing'[i].at # "answered" => model'[editing[i].doc] < editing[i].nth
  BY <1>2, <1>3, <1>4 DEF EditRow
<1>6. \A d \in Docs : model'[d] <= made[d]
  BY Counted
<1>7. EditsInOrder' /\ Fewer
  BY <1>3, <1>5, <1>6, RelabelledKeepEdits
<1> QED  BY <1>2, <1>3, <1>7

\* The document is opened anew: there is nothing in its model.
LEMMA GoneKeepsEdits ==
    ASSUME Bounded, TypeOK, EditsInOrder, NEW d \in Docs, editing' = Gone(d), UNCHANGED made,
           model' = [model EXCEPT ![d] = 0]
    PROVE  /\ EditsInOrder' /\ editing' \in Seq(EditCommand) /\ Fewer
           /\ DOMAIN editing' = DOMAIN editing
           /\ model' \in [Docs -> 0..MaxEdits] /\ model'[d] = 0
           /\ \A e \in Docs : e # d => model'[e] = model[e]
           /\ \A i \in DOMAIN editing : /\ editing'[i].doc = editing[i].doc
                                        /\ editing[i].doc # d => editing'[i] = editing[i]
                                        /\ editing[i].doc = d => editing'[i].reply = 0
                                                                 /\ editing'[i].view = "gone"
<1> DEFINE x(i) == [editing[i] EXCEPT !.view = "gone", !.reply = 0]
<1>1. editing' = [i \in DOMAIN editing |-> IF editing[i].doc # d THEN editing[i] ELSE x(i)]
  BY DEF Gone
<1>2. \A i \in DOMAIN editing :
         /\ x(i) \in EditCommand /\ x(i).doc = editing[i].doc /\ x(i).reply = 0
         /\ x(i).nth = editing[i].nth /\ x(i).at = editing[i].at /\ x(i).view = "gone"
  <2>1. 0 \in 0..MaxEdits /\ \A i \in DOMAIN editing : editing[i] \in EditCommand
    BY EditsTyped DEF Bounded
  <2> QED  BY <2>1 DEF EditCommand
<1> HIDE DEF x
<1>3. /\ editing' \in Seq(EditCommand) /\ DOMAIN editing' = DOMAIN editing
      /\ \A i \in DOMAIN editing : editing'[i] = IF editing[i].doc # d THEN editing[i] ELSE x(i)
  <2>1. editing' \in [1..Len(editing) -> EditCommand] /\ Len(editing) \in Nat
    BY <1>1, <1>2, EditsTyped
  <2> QED  BY <1>1, <2>1
<1>4. /\ model' \in [Docs -> 0..MaxEdits] /\ model'[d] = 0
      /\ \A e \in Docs : e # d => model'[e] = model[e]
  BY DEF TypeOK, Bounded
<1>5. \A e \in Docs : model'[e] <= made[e] /\ model'[e] <= model[e] /\ model'[e] \in Nat
                      /\ model[e] \in Nat
  <2>1. \A m \in Nat : 0 <= m /\ m <= m
    OBVIOUS
  <2> QED  BY <1>4, <2>1, Counted
<1>6. \A i \in DOMAIN editing :
         /\ editing'[i].doc = editing[i].doc /\ editing'[i].nth = editing[i].nth
         /\ editing'[i].view = "here" => editing[i].view = "here"
         /\ editing'[i].at # "queued" => i = 1
         /\ editing'[i].at # "answered" \/ editing'[i].view = "gone" => editing'[i].reply = 0
  <2>1. \A i \in DOMAIN editing : EditRow(i)
    BY DEF EditsInOrder
  <2> QED  BY <1>2, <1>3, <2>1 DEF EditRow
<1>7. \A i \in DOMAIN editing :
         editing'[i].at # "answered" => model'[editing[i].doc] < editing[i].nth
  <2> SUFFICES ASSUME NEW i \in DOMAIN editing, editing'[i].at # "answered"
               PROVE  model'[editing[i].doc] < editing[i].nth
    OBVIOUS
  <2>1. editing[i].at # "answered" /\ editing[i].doc \in Docs /\ editing[i].nth \in Nat
    BY <1>2, <1>3, EditsTyped
  <2>2. model[editing[i].doc] < editing[i].nth
    BY <2>1 DEF EditsInOrder, EditRow
  <2> QED  BY <1>5, <2>1, <2>2
<1>8. EditsInOrder' /\ Fewer
  BY <1>3, <1>5, <1>6, <1>7, RelabelledKeepEdits
<1> QED  BY <1>2, <1>3, <1>4, <1>8

LEMMA EditsStay ==
    ASSUME EditsInOrder, UNCHANGED <<editing, made, model>>
    PROVE  EditsInOrder' /\ Fewer
  BY DEF EditsInOrder, EditRow, Fewer
-----------------------------------------------------------------------------
\* The bodies.

LEMMA OpensTyped ==
    ASSUME TypeOK
    PROVE  /\ DOMAIN opens = 1..Len(opens) /\ Len(opens) \in Nat /\ opens \in Seq(Body)
           /\ afterIdle \subseteq Body
           /\ opens # <<>> => body = opens[1] /\ 1 \in DOMAIN opens /\ opens[1] \in Body
  BY DEF TypeOK, body

LEMMA BodyTyped ==
    ASSUME NEW b \in Body
    PROVE  b.doc \in Docs /\ b.until \in Bound /\ b.rest \subseteq Docs
           /\ b.asked \in {"no", "nothing", "yes"}
  BY DEF Body

\* The bodies that are queued, or wait to be, are bodies, and only the first
\* has begun.
BodiesOK == opens \in Seq(Body) /\ afterIdle \subseteq Body /\ OthersWait

LEMMA QueuedIsABody ==
    ASSUME Bounded, NEW d \in Docs,
           NEW kind \in {"open", "activate", "behind", "close", "several", "reopen"}
    PROVE  Queued(kind, d) \in Body /\ Queued(kind, d).at = "queued"
           /\ \A others \in SUBSET Docs :
                 /\ [Queued(kind, d) EXCEPT !.rest = others] \in Body
                 /\ [Queued(kind, d) EXCEPT !.rest = others].at = "queued"
<1>1. NoBound \in Bound
  BY DEF NoBound, Bound, Bounded
<1> QED  BY <1>1 DEF Queued, Body

\* A body is put behind those there are.
LEMMA OneMore ==
    ASSUME NEW q \in Seq(Body), \A i \in DOMAIN q : i # 1 => q[i].at = "queued",
           NEW b \in Body, b.at = "queued", opens' = Append(q, b), UNCHANGED afterIdle,
           afterIdle \subseteq Body, \A c \in afterIdle : c.at = "queued"
    PROVE  /\ BodiesOK' /\ opens' # <<>>
           /\ q = <<>> => opens'[1] = b
           /\ q # <<>> => opens'[1] = q[1]
<1>1. /\ opens' \in Seq(Body) /\ opens' # <<>> /\ DOMAIN opens' = 1..Len(q) + 1
      /\ DOMAIN q = 1..Len(q) /\ Len(q) \in Nat
      /\ (\A i \in 1..Len(q) : opens'[i] = q[i]) /\ opens'[Len(q) + 1] = b
  BY Appended
<1>2. \A i \in DOMAIN opens' : i \in 1..Len(q) \/ i = Len(q) + 1
  BY <1>1
<1>3. \A i \in DOMAIN opens' : i # 1 => opens'[i].at = "queued"
  BY <1>1, <1>2
<1>4. q = <<>> => opens'[1] = b
  BY <1>1
<1>5. q # <<>> => opens'[1] = q[1]
  <2>1. q # <<>> => 1 \in 1..Len(q)
    BY <1>1
  <2> QED  BY <1>1, <2>1
<1> QED  BY <1>1, <1>3, <1>4, <1>5 DEF BodiesOK, OthersWait

LEMMA Enqueued ==
    ASSUME BodiesOK, NEW q \in Seq(Body), \A i \in DOMAIN q : i # 1 => q[i].at = "queued",
           NEW b \in Body, b.at = "queued", Enqueue(b, q)
    PROVE  /\ BodiesOK'
           /\ q = <<>> => opens' = <<>> \/ (opens' # <<>> /\ opens'[1] = b)
           /\ q # <<>> => opens' # <<>> /\ opens'[1] = q[1]
<1>1. CASE opens' = q /\ afterIdle' = afterIdle \cup {b}
  BY <1>1 DEF BodiesOK, OthersWait
<1>2. CASE opens' = Append(q, b) /\ UNCHANGED afterIdle
  BY <1>2, OneMore DEF BodiesOK, OthersWait
<1> QED  BY <1>1, <1>2 DEF Enqueue

\* The next body has not begun, so nothing waits for its sake.
NoneBegun == opens # <<>> => opens[1].at = "queued"

LEMMA BegunNothing ==
    ASSUME NoneBegun
    PROVE  OneBodyRuns /\ Waits = {} /\ Coming = {}
  BY DEF NoneBegun, OneBodyRuns, BodyRow, Waits, Coming

LEMMA TailWaits ==
    ASSUME BodiesOK, opens # <<>>
    PROVE  /\ Tail(opens) \in Seq(Body)
           /\ \A i \in DOMAIN Tail(opens) : Tail(opens)[i].at = "queued"
           /\ Tail(opens) # <<>> => Tail(opens)[1].at = "queued"
<1>1. /\ Tail(opens) \in Seq(Body) /\ DOMAIN Tail(opens) = 1..Len(opens) - 1
      /\ DOMAIN opens = 1..Len(opens) /\ Len(opens) \in Nat
      /\ \A i \in 1..Len(opens) - 1 : Tail(opens)[i] = opens[i + 1]
  BY TailIs DEF BodiesOK
<1>2. \A i \in 1..Len(opens) - 1 : i + 1 \in DOMAIN opens /\ i + 1 # 1
  BY <1>1
<1>3. \A i \in DOMAIN Tail(opens) : Tail(opens)[i].at = "queued"
  BY <1>1, <1>2 DEF BodiesOK, OthersWait
<1>4. Tail(opens) # <<>> => 1 \in DOMAIN Tail(opens)
  <2>1. PICK t \in Seq(Body) : t = Tail(opens)
    BY <1>1
  <2> QED  BY <2>1
<1> QED  BY <1>1, <1>3, <1>4

\* The body that runs has ended, with another one to be asked for or not.
LEMMA BodyLeaves ==
    ASSUME Bounded, BodiesOK, opens # <<>>, NEW ds \in SUBSET Docs,
           NEW asked \in {"no", "nothing", "yes"}, Leaves(ds, asked)
    PROVE  BodiesOK' /\ NoneBegun'
<1> DEFINE q == Tail(opens)
<1>1. /\ q \in Seq(Body) /\ \A i \in DOMAIN q : q[i].at = "queued"
      /\ q # <<>> => q[1].at = "queued"
  BY TailWaits
<1> HIDE DEF q
<1>2. CASE opens' = q /\ UNCHANGED afterIdle
  BY <1>1, <1>2 DEF BodiesOK, OthersWait, NoneBegun
<1>3. ASSUME NEW d \in ds,
             Enqueue([Queued("close", d) EXCEPT !.rest = ds \ {d}, !.asked = asked], q)
      PROVE  BodiesOK' /\ NoneBegun'
  <2> DEFINE b == [Queued("close", d) EXCEPT !.rest = ds \ {d}, !.asked = asked]
  <2>1. b \in Body /\ b.at = "queued"
    <3>1. ds \ {d} \in SUBSET Docs /\ d \in Docs
      OBVIOUS
    <3>2. NoBound \in Bound
      BY DEF NoBound, Bound, Bounded
    <3> QED  BY <3>1, <3>2 DEF Queued, Body
  <2> HIDE DEF b
  <2>2. Enqueue(b, q)
    BY <1>3 DEF b
  <2>3. BodiesOK' /\ (opens' # <<>> => opens'[1] = b \/ opens'[1].at = "queued")
    BY <1>1, <2>1, <2>2, Enqueued
  <2> QED  BY <2>1, <2>3 DEF NoneBegun
<1> QED  BY <1>2, <1>3 DEF Leaves, q

\* It goes on.
LEMMA BodyGoesOn ==
    ASSUME BodiesOK, opens # <<>>, NEW b \in Body, UNCHANGED afterIdle,
           opens' = [opens EXCEPT ![1] = b] \/ opens' = <<b>> \o Tail(opens)
    PROVE  BodiesOK' /\ opens' # <<>> /\ opens'[1] = b
<1>1. 1 \in DOMAIN opens /\ opens \in Seq(Body)
  BY DEF BodiesOK
<1>2. CASE opens' = [opens EXCEPT ![1] = b]
  <2>1. /\ opens' \in Seq(Body) /\ DOMAIN opens' = DOMAIN opens
        /\ \A i \in DOMAIN opens : opens'[i] = IF i = 1 THEN b ELSE opens[i]
    BY <1>1, <1>2, OneChanged
  <2>2. opens' # <<>>
    BY <1>1, <2>1
  <2> QED  BY <1>1, <2>1, <2>2 DEF BodiesOK, OthersWait
<1>3. CASE opens' = <<b>> \o Tail(opens)
  <2>1. /\ opens' \in Seq(Body) /\ DOMAIN opens' = DOMAIN opens /\ opens' # <<>> /\ opens'[1] = b
        /\ \A i \in DOMAIN opens : i # 1 => opens'[i] = opens[i]
    BY <1>1, <1>3, HeadChanged
  <2> QED  BY <2>1 DEF BodiesOK, OthersWait
<1> QED  BY <1>2, <1>3

LEMMA GoesOn ==
    ASSUME TypeOK, BodiesOK, opens # <<>>, NEW to \in {"ask", "settle", "mount", "confirm"}, Goes(to)
    PROVE  /\ BodiesOK' /\ opens' # <<>> /\ opens'[1] \in Body
           /\ opens'[1].at = to /\ opens'[1].kind = opens[1].kind
           /\ opens'[1].doc = opens[1].doc /\ opens'[1].until = opens[1].until
<1> DEFINE b == [opens[1] EXCEPT !.at = to]
<1>1. 1 \in DOMAIN opens /\ opens[1] \in Body
  BY OpensTyped
<1>2. b \in Body /\ b.at = to /\ b.kind = opens[1].kind /\ b.doc = opens[1].doc
      /\ b.until = opens[1].until
  BY <1>1 DEF Body
<1>3. opens' = [opens EXCEPT ![1] = b] /\ UNCHANGED afterIdle
  BY <1>1 DEF Goes
<1> HIDE DEF b
<1> QED  BY <1>2, <1>3, BodyGoesOn

LEMMA BodiesStay ==
    ASSUME BodiesOK, UNCHANGED <<opens, afterIdle>>
    PROVE  BodiesOK' /\ Waits' = Waits /\ Coming' = Coming
  BY DEF BodiesOK, OthersWait, Waits, Coming
-----------------------------------------------------------------------------
\* Who waits for which edits, and what the window shows.

LEMMA HereStays ==
    ASSUME EditsHere, Fewer, UNCHANGED <<shown, pending>>
    PROVE  EditsHere'
<1> SUFFICES ASSUME NEW i \in DOMAIN editing', editing'[i].view = "here"
             PROVE  Here(i)'
  BY DEF EditsHere
<1>1. PICK k \in DOMAIN editing : /\ editing'[i].doc = editing[k].doc /\ editing'[i].nth = editing[k].nth
                                  /\ editing[k].view = "here"
  BY DEF Fewer
<1> QED  BY <1>1 DEF EditsHere, Here

LEMMA AwaitsStay ==
    ASSUME SaveAwaits, Fewer, UNCHANGED saving, Waits \subseteq Waits'
    PROVE  SaveAwaits'
<1> SUFFICES ASSUME saving.at \in {"waitAgain", "call"}, NEW i \in DOMAIN editing',
                    editing'[i].doc = saving.doc, editing'[i].view = "here"
             PROVE  ByBody(i)' \/ BySave(i)'
  BY DEF SaveAwaits
<1>1. PICK k \in DOMAIN editing : /\ editing'[i].doc = editing[k].doc /\ editing'[i].nth = editing[k].nth
                                  /\ editing[k].view = "here"
  BY DEF Fewer
<1>2. ByBody(k) \/ BySave(k)
  BY <1>1 DEF SaveAwaits
<1> QED  BY <1>1, <1>2 DEF ByBody, BySave

LEMMA NoneHere ==
    ASSUME \A i \in DOMAIN editing' : editing'[i].view # "here"
    PROVE  EditsHere' /\ SaveAwaits'
  BY DEF EditsHere, SaveAwaits

LEMMA NoSaveAwaits ==
    ASSUME saving'.at \notin {"waitAgain", "call"}
    PROVE  SaveAwaits'
  BY DEF SaveAwaits

\* A body that has waited for its edits leaves none for the save to miss.
LEMMA BodyHasWaited ==
    ASSUME Bounded, TypeOK, SaveAwaits, Fewer, UNCHANGED saving, opens # <<>>,
           opens[1].at = "wait" => IsSettled(opens[1].until)
    PROVE  SaveAwaits'
<1> SUFFICES ASSUME saving.at \in {"waitAgain", "call"}, NEW i \in DOMAIN editing',
                    editing'[i].doc = saving.doc, editing'[i].view = "here"
             PROVE  ByBody(i)' \/ BySave(i)'
  BY DEF SaveAwaits
<1>1. PICK k \in DOMAIN editing : /\ editing'[i].doc = editing[k].doc /\ editing'[i].nth = editing[k].nth
                                  /\ editing[k].view = "here"
  BY DEF Fewer
<1>2. ByBody(k) \/ BySave(k)
  BY <1>1 DEF SaveAwaits
<1>3. ~ByBody(k)
  <2> SUFFICES ASSUME ByBody(k)
               PROVE  FALSE
    OBVIOUS
  <2>1. /\ opens[1].at = "wait" /\ editing[k].doc = opens[1].until.doc
        /\ editing[k].nth <= opens[1].until.nth
    BY DEF ByBody, Waits
  <2>2. editing[k].nth > opens[1].until.nth
    BY <2>1 DEF IsSettled
  <2>3. editing[k].nth \in Nat /\ opens[1].until.nth \in Nat
    <3>1. opens[1].until \in Bound
      BY OpensTyped, BodyTyped
    <3> QED  BY <3>1, EditsTyped DEF Bound, Bounded
  <2> QED  BY <2>1, <2>2, <2>3
<1> QED  BY <1>1, <1>2, <1>3 DEF BySave

\* What the window shows depends on the answer that is to be adopted next.
LEMMA AnswerStays ==
    ASSUME UNCHANGED <<model, seen>>,
           editing # <<>> /\ editing[1].reply > 0 => /\ editing' # <<>>
                                                     /\ editing'[1].doc = editing[1].doc
                                                     /\ editing'[1].reply = editing[1].reply,
           editing' # <<>> /\ editing'[1].reply > 0 => editing # <<>> /\ editing[1].reply > 0
    PROVE  \A d \in Docs : Shows(d) => Shows(d)'
  BY DEF Shows

LEMMA FollowedAreDocs ==
    ASSUME TypeOK
    PROVE  tabs \cup Coming \subseteq Docs
<1>1. opens # <<>> => opens[1].doc \in Docs
  BY OpensTyped, BodyTyped
<1> QED  BY <1>1 DEF TypeOK, Coming

LEMMA WindowStays ==
    ASSUME TypeOK, WindowFollows, \A d \in Docs : Shows(d) => Shows(d)',
           tabs' \cup Coming' \subseteq tabs \cup Coming
    PROVE  WindowFollows'
  BY FollowedAreDocs DEF WindowFollows

LEMMA ShowsStays ==
    ASSUME UNCHANGED <<editing, model, seen>>
    PROVE  \A d \in Docs : Shows(d) => Shows(d)'
  BY DEF Shows

\* An edit is made of the document that is mounted.
LEMMA QueuedHere ==
    ASSUME Bounded, PageInv, shown # NoDoc, Queue(shown), made[shown] < MaxEdits,
           UNCHANGED <<shown, model, seen>>
    PROVE  /\ editing' \in Seq(EditCommand) /\ made' \in [Docs -> 0..MaxEdits] /\ pending' \in Bound
           /\ EditsInOrder' /\ EditsHere' /\ pending'.doc = shown
           /\ made'[shown] = made[shown] + 1 /\ made[shown] \in Nat
           /\ \A d \in Docs : Shows(d) => Shows(d)'
<1>1. shown \in Docs /\ TypeOK /\ EditsInOrder
  BY DEF PageInv, TypeOK
<1>2. /\ EditsInOrder' /\ editing' \in Seq(EditCommand) /\ made' \in [Docs -> 0..MaxEdits]
      /\ pending' \in Bound /\ pending' = [doc |-> shown, nth |-> made[shown] + 1]
      /\ DOMAIN editing' = 1..Len(editing) + 1 /\ DOMAIN editing = 1..Len(editing)
      /\ editing' # <<>> /\ Len(editing) \in Nat
      /\ \A i \in DOMAIN editing : editing'[i] = editing[i]
      /\ editing'[Len(editing) + 1].doc = shown /\ editing'[Len(editing) + 1].nth = made[shown] + 1
      /\ editing'[Len(editing) + 1].reply = 0
      /\ \A i \in DOMAIN editing : editing[i].doc = shown => editing[i].nth <= made[shown] + 1
  BY <1>1, QueueKeepsEdits
<1>3. made[shown] \in Nat /\ made'[shown] = made[shown] + 1
  <2>1. made' = [made EXCEPT ![shown] = @ + 1]
    BY DEF Queue
  <2> QED  BY <1>1, <2>1, Counted DEF TypeOK
<1>4. pending'.doc = shown /\ pending'.nth = made[shown] + 1
  BY <1>2
<1>5. EditsHere'
  <2> SUFFICES ASSUME NEW i \in DOMAIN editing', editing'[i].view = "here"
               PROVE  Here(i)'
    BY DEF EditsHere
  <2>1. CASE i = Len(editing) + 1
    BY <1>2, <1>3, <1>4, <2>1 DEF Here
  <2>2. CASE i # Len(editing) + 1
    <3>1. i \in DOMAIN editing /\ editing'[i] = editing[i]
      BY <1>2, <2>2
    <3>2. Here(i)
      BY <3>1 DEF PageInv, EditsHere
    <3> QED  BY <1>2, <1>4, <3>1, <3>2 DEF Here
  <2> QED  BY <2>1, <2>2
<1>6. \A d \in Docs : Shows(d) => Shows(d)'
  <2>1. CASE editing = <<>>
    <3>1. editing'[1].reply = 0
      BY <1>2, <2>1
    <3> QED  BY <2>1, <3>1, AnswerStays
  <2>2. CASE editing # <<>>
    <3>1. 1 \in DOMAIN editing
      BY <1>2, <2>2
    <3>2. editing'[1] = editing[1]
      BY <1>2, <3>1
    <3> QED  BY <1>2, <2>2, <3>2, AnswerStays
  <2> QED  BY <2>1, <2>2
<1> QED  BY <1>2, <1>3, <1>4, <1>5, <1>6

\* settleDrafts: what was made of the document that is mounted is up to the edit
\* that is waited for.
LEMMA Settles ==
    ASSUME Bounded, PageInv, SettleDrafts, UNCHANGED shown
    PROVE  /\ editing' \in Seq(EditCommand) /\ made' \in [Docs -> 0..MaxEdits] /\ pending' \in Bound
           /\ EditsInOrder' /\ EditsHere' /\ WindowOK' /\ UNCHANGED <<model, seen>>
           /\ draft' = FALSE /\ (shown = NoDoc => pending' = pending)
           /\ \A d \in Docs : Shows(d) => Shows(d)'
<1>1. draft' = FALSE /\ UNCHANGED <<model, seen>>
  BY DEF SettleDrafts
<1>2. CASE draft /\ shown # NoDoc
  <2>1. Queue(shown) /\ made[shown] < MaxEdits
    BY <1>2 DEF SettleDrafts, PageInv, WindowOK
  <2>2. /\ editing' \in Seq(EditCommand) /\ made' \in [Docs -> 0..MaxEdits] /\ pending' \in Bound
        /\ EditsInOrder' /\ EditsHere' /\ pending'.doc = shown
        /\ \A d \in Docs : Shows(d) => Shows(d)'
    BY <1>1, <1>2, <2>1, QueuedHere
  <2>3. WindowOK'
    BY <1>1, <2>2 DEF WindowOK
  <2> QED  BY <1>1, <1>2, <2>2, <2>3
<1>3. CASE ~(draft /\ shown # NoDoc)
  <2>1. UNCHANGED <<made, editing, pending>>
    BY <1>3 DEF SettleDrafts
  <2>2. EditsInOrder' /\ EditsHere'
    BY <1>1, <2>1, EditsStay, HereStays DEF PageInv
  <2>3. WindowOK'
    BY <1>1, <2>1 DEF PageInv, WindowOK, NoBound
  <2> QED  BY <1>1, <2>1, <2>2, <2>3, ShowsStays DEF PageInv, TypeOK
<1> QED  BY <1>2, <1>3
-----------------------------------------------------------------------------
\* The reader's steps, and those of the queue of edits.

LEMMA PageParts ==
    ASSUME PageInv
    PROVE  /\ TypeOK /\ EditsInOrder /\ EditsHere /\ WindowOK /\ BodiesOK /\ OneBodyRuns
           /\ SaveAwaits /\ WindowFollows
  BY DEF PageInv, BodiesOK, TypeOK

LEMMA MakeEditKeeps ==
    ASSUME Bounded, PageInv, MakeEdit
    PROVE  PageInv'
<1>1. /\ shown # NoDoc /\ Queue(shown) /\ ~documentBusy
      /\ UNCHANGED <<tabs, shown, live, opening, draft, model, seen, opens, afterIdle, saving,
                     requests>>
  BY DEF MakeEdit, MayEdit
<1>2. made[shown] < MaxEdits /\ (draft => made[shown] + 1 < MaxEdits)
  <2>1. shown \in Docs /\ made[shown] \in Nat
    BY <1>1, PageParts, Counted DEF TypeOK
  <2> QED  BY <2>1 DEF MakeEdit, Bounded
<1>3. /\ editing' \in Seq(EditCommand) /\ made' \in [Docs -> 0..MaxEdits] /\ pending' \in Bound
      /\ EditsInOrder' /\ EditsHere' /\ pending'.doc = shown
      /\ made'[shown] = made[shown] + 1
      /\ \A d \in Docs : Shows(d) => Shows(d)'
  BY <1>1, <1>2, QueuedHere
<1>4. TypeOK'
  BY <1>1, <1>3 DEF PageInv, TypeOK
<1>5. WindowOK'
  BY <1>1, <1>2, <1>3 DEF PageInv, WindowOK
<1>6. OthersWait' /\ OneBodyRuns'
  BY <1>1 DEF PageInv, OthersWait, OneBodyRuns, BodyRow
<1>7. SaveAwaits'
  BY <1>1 DEF SaveAwaits, documentBusy
<1>8. WindowFollows'
  <2>1. Coming' = Coming
    BY <1>1 DEF Coming
  <2> QED  BY <1>1, <1>3, <2>1, WindowStays DEF PageInv
<1> QED  BY <1>3, <1>4, <1>5, <1>6, <1>7, <1>8 DEF PageInv

\* What leaves the edits, the window and the bodies as they are.
LEMMA PageStays ==
    ASSUME PageInv, UNCHANGED <<tabs, shown, edits, opens, afterIdle, saving>>
    PROVE  EditsInOrder' /\ EditsHere' /\ OthersWait' /\ OneBodyRuns' /\ SaveAwaits' /\ WindowFollows'
<1>1. UNCHANGED <<made, editing, pending, model, seen, shown, opens, afterIdle, saving, tabs>>
  BY DEF edits
<1>2. EditsInOrder' /\ Fewer /\ Waits' = Waits /\ Coming' = Coming
  BY <1>1, EditsStay DEF PageInv, Waits, Coming
<1>3. EditsHere' /\ SaveAwaits'
  BY <1>1, <1>2, HereStays, AwaitsStay DEF PageInv
<1>4. OthersWait' /\ OneBodyRuns'
  BY <1>1 DEF PageInv, OthersWait, OneBodyRuns, BodyRow
<1>5. WindowFollows'
  BY <1>1, <1>2, ShowsStays, WindowStays DEF PageInv
<1> QED  BY <1>2, <1>3, <1>4, <1>5

LEMMA TypeKeeps ==
    ASSUME Bounded, PageInv, Type
    PROVE  PageInv'
<1>1. /\ shown # NoDoc /\ made[shown] < MaxEdits /\ draft'
      /\ UNCHANGED <<tabs, shown, live, opening, edits, opens, afterIdle, saving, requests>>
      /\ UNCHANGED <<made, editing, pending, model, seen>>
  BY DEF Type, edits
<1>2. TypeOK' /\ WindowOK'
  <2>1. draft' \in BOOLEAN
    BY DEF Type
  <2> QED  BY <1>1, <2>1 DEF PageInv, TypeOK, WindowOK
<1> QED  BY <1>1, <1>2, PageStays DEF PageInv

LEMMA AskSaveKeeps ==
    ASSUME Bounded, PageInv, AskSave
    PROVE  PageInv'
<1>1. /\ requests' \in 0..MaxRequests /\ saving' = [NoTask EXCEPT !.at = "settle"]
      /\ UNCHANGED <<tabs, shown, live, opening, draft, made, editing, pending, model, seen, opens,
                     afterIdle>>
  BY DEF AskSave, Asked, edits, PageInv, TypeOK, Bounded
<1>2. saving' \in Task /\ saving'.at = "settle"
  BY <1>1 DEF NoTask, NoBound, Task, Bound, Bounded
<1>3. TypeOK' /\ WindowOK' /\ OthersWait' /\ OneBodyRuns'
  BY <1>1, <1>2 DEF PageInv, TypeOK, WindowOK, OthersWait, OneBodyRuns, BodyRow
<1>4. EditsInOrder' /\ EditsHere' /\ SaveAwaits'
  BY <1>1, <1>2, EditsStay, HereStays, NoSaveAwaits DEF PageInv
<1>5. WindowFollows'
  <2>1. Coming' = Coming
    BY <1>1 DEF Coming
  <2> QED  BY <1>1, <2>1, ShowsStays, WindowStays DEF PageInv
<1> QED  BY <1>3, <1>4, <1>5 DEF PageInv

\* A step of the queue of edits leaves the bodies and the save where they are.
LEMMA EditsMove ==
    ASSUME Bounded, PageInv, EditsInOrder', Fewer, editing' \in Seq(EditCommand),
           model' \in [Docs -> 0..MaxEdits], seen' \in [Docs -> 0..MaxEdits],
           UNCHANGED <<tabs, shown, live, opening, draft, made, pending, opens, afterIdle, saving,
                       requests>>,
           \A d \in tabs \cup Coming : Shows(d)'
    PROVE  PageInv'
<1>1. TypeOK' /\ WindowOK' /\ OthersWait' /\ OneBodyRuns'
  BY DEF PageInv, TypeOK, WindowOK, OthersWait, OneBodyRuns, BodyRow
<1>2. Waits' = Waits /\ Coming' = Coming
  BY DEF Waits, Coming
<1>3. EditsHere' /\ SaveAwaits'
  BY <1>2, HereStays, AwaitsStay DEF PageInv
<1>4. WindowFollows'
  BY <1>2 DEF WindowFollows
<1> QED  BY <1>1, <1>3, <1>4 DEF PageInv

LEMMA EditsKeep ==
    ASSUME Bounded, PageInv, EditStep
    PROVE  PageInv'
<1>1. PICK i \in DOMAIN editing : SendEdit(i) \/ ApplyEdit(i) \/ AdoptEdit(i)
  BY DEF EditStep
<1>2. TypeOK /\ EditsInOrder /\ WindowFollows /\ tabs \cup Coming \subseteq Docs
      /\ seen \in [Docs -> 0..MaxEdits] /\ model \in [Docs -> 0..MaxEdits]
  BY FollowedAreDocs DEF PageInv, TypeOK
<1>3. CASE SendEdit(i)
  <2>1. /\ EditsInOrder' /\ editing' \in Seq(EditCommand) /\ Fewer
        /\ UNCHANGED <<made, pending, model, seen>>
        /\ \A k \in DOMAIN editing' : editing'[k].reply = 0
        /\ \A k \in DOMAIN editing : editing[k].reply = 0
    BY <1>2, <1>3, SendKeepsEdits
  <2>2. UNCHANGED <<tabs, shown, live, opening, draft, opens, afterIdle, saving, requests>>
    BY <1>3 DEF SendEdit
  <2>3. (editing # <<>> => editing[1].reply = 0) /\ (editing' # <<>> => editing'[1].reply = 0)
    <3>1. /\ editing # <<>> => 1 \in DOMAIN editing
          /\ editing' # <<>> => 1 \in DOMAIN editing'
      BY <1>2, <2>1 DEF TypeOK
    <3> QED  BY <2>1, <3>1
  <2>4. \A d \in tabs \cup Coming : Shows(d)'
    BY <1>2, <2>1, <2>3, AnswerStays DEF WindowFollows
  <2> QED  BY <1>2, <2>1, <2>2, <2>4, EditsMove
<1>4. CASE ApplyEdit(i)
  <2>1. /\ EditsInOrder' /\ editing' \in Seq(EditCommand) /\ Fewer
        /\ model' \in [Docs -> 0..MaxEdits] /\ editing # <<>> /\ editing' # <<>>
        /\ UNCHANGED <<made, pending, seen>>
        /\ editing'[1].doc = editing[1].doc /\ editing[1].reply = 0
        /\ \/ model' = model /\ editing'[1].reply = 0
           \/ /\ model'[editing[1].doc] = model[editing[1].doc] + 1
              /\ editing'[1].reply = model'[editing[1].doc]
              /\ \A d \in Docs : d # editing[1].doc => model'[d] = model[d]
    BY <1>2, <1>4, ApplyKeepsEdits
  <2>2. UNCHANGED <<tabs, shown, live, opening, draft, opens, afterIdle, saving, requests>>
    BY <1>4 DEF ApplyEdit
  <2>3. ASSUME NEW d \in tabs \cup Coming
        PROVE  Shows(d)'
    <3>1. Shows(d) /\ seen[d] = model[d] /\ d \in Docs /\ model[d] \in Nat
      BY <1>2, <2>1, Counted DEF WindowFollows, Shows
    <3>2. CASE model' = model /\ editing'[1].reply = 0
      BY <2>1, <3>1, <3>2 DEF Shows
    <3>3. CASE model' # model \/ editing'[1].reply # 0
      <4>1. CASE d = editing[1].doc
        BY <2>1, <3>1, <3>3, <4>1 DEF Shows
      <4>2. CASE d # editing[1].doc
        BY <2>1, <3>1, <3>3, <4>2 DEF Shows
      <4> QED  BY <4>1, <4>2
    <3> QED  BY <3>2, <3>3
  <2> QED  BY <1>2, <2>1, <2>2, <2>3, EditsMove
<1>5. CASE AdoptEdit(i)
  <2>1. /\ EditsInOrder' /\ editing' \in Seq(EditCommand) /\ Fewer
        /\ seen' \in [Docs -> 0..MaxEdits] /\ editing # <<>>
        /\ UNCHANGED <<made, pending, model>>
        /\ \A k \in DOMAIN editing' : editing'[k].reply = 0
        /\ \/ editing[1].reply = 0 /\ seen' = seen
           \/ /\ editing[1].reply > 0 /\ seen'[editing[1].doc] = editing[1].reply
              /\ \A d \in Docs : d # editing[1].doc => seen'[d] = seen[d]
    BY <1>2, <1>5, AdoptKeepsEdits
  <2>2. UNCHANGED <<tabs, shown, live, opening, draft, opens, afterIdle, saving, requests>>
    BY <1>5 DEF AdoptEdit
  <2>3. editing' # <<>> => editing'[1].reply = 0
    <3>1. editing' # <<>> => 1 \in DOMAIN editing'
      BY <2>1
    <3> QED  BY <2>1, <3>1
  <2>4. ASSUME NEW d \in tabs \cup Coming
        PROVE  Shows(d)'
    <3>1. Shows(d) /\ d \in Docs
      BY <1>2 DEF WindowFollows
    <3>2. seen'[d] = model[d]
      <4>1. CASE d = editing[1].doc /\ editing[1].reply > 0
        BY <2>1, <3>1, <4>1 DEF Shows
      <4>2. CASE ~(d = editing[1].doc /\ editing[1].reply > 0)
        BY <2>1, <3>1, <4>2 DEF Shows
      <4> QED  BY <4>1, <4>2
    <3> QED  BY <2>1, <2>3, <3>2 DEF Shows
  <2> QED  BY <1>2, <2>1, <2>2, <2>4, EditsMove
<1> QED  BY <1>1, <1>3, <1>4, <1>5
-----------------------------------------------------------------------------
\* The bodies.

\* The bodies go on and nothing else does.
LEMMA BodiesMove ==
    ASSUME Bounded, PageInv, BodiesOK', OneBodyRuns', Coming' \subseteq tabs \cup Coming,
           opening' \in BOOLEAN, requests' \in 0..MaxRequests, live' \subseteq Docs,
           UNCHANGED <<tabs, shown, draft, edits, saving>>,
           \/ Waits \subseteq Waits'
           \/ opens # <<>> /\ (opens[1].at = "wait" => IsSettled(opens[1].until))
    PROVE  PageInv'
<1>1. UNCHANGED <<made, editing, pending, model, seen, tabs, shown, draft, saving>>
  BY DEF edits
<1>2. TypeOK' /\ WindowOK' /\ OthersWait'
  BY <1>1 DEF PageInv, TypeOK, WindowOK, BodiesOK
<1>3. EditsInOrder' /\ Fewer
  BY <1>1, EditsStay DEF PageInv
<1>4. EditsHere' /\ SaveAwaits'
  BY <1>1, <1>3, HereStays, AwaitsStay, BodyHasWaited DEF PageInv
<1>5. WindowFollows'
  <2>1. tabs' \cup Coming' \subseteq tabs \cup Coming
    BY <1>1
  <2> QED  BY <1>1, <2>1, ShowsStays, WindowStays DEF PageInv
<1> QED  BY <1>2, <1>3, <1>4, <1>5 DEF PageInv

\* One body more, and the one that runs is the same.
LEMMA SameRuns ==
    ASSUME OneBodyRuns, opens # <<>>, opens' # <<>>, opens'[1] = opens[1], shown' = shown,
           pending' = pending
    PROVE  OneBodyRuns' /\ Waits' = Waits /\ Coming' = Coming
  BY DEF OneBodyRuns, BodyRow, Waits, Coming

LEMMA BodyAsked ==
    ASSUME Bounded, PageInv, NEW b \in Body, b.at = "queued", requests' \in 0..MaxRequests,
           Enqueue(b, opens) \/ (opens' = Append(opens, b) /\ afterIdle' \subseteq afterIdle),
           UNCHANGED <<tabs, shown, live, opening, draft, edits, saving>>
    PROVE  PageInv'
<1>1. /\ opens \in Seq(Body) /\ BodiesOK /\ OneBodyRuns /\ afterIdle \subseteq Body
      /\ \A i \in DOMAIN opens : i # 1 => opens[i].at = "queued"
      /\ \A c \in afterIdle : c.at = "queued"
  BY PageParts DEF BodiesOK, OthersWait
<1>2. /\ BodiesOK'
      /\ opens = <<>> => opens' = <<>> \/ (opens' # <<>> /\ opens'[1] = b)
      /\ opens # <<>> => opens' # <<>> /\ opens'[1] = opens[1]
  <2>1. CASE Enqueue(b, opens)
    BY <1>1, <2>1, Enqueued
  <2>2. CASE opens' = Append(opens, b) /\ afterIdle' \subseteq afterIdle
    <3>1. /\ opens' \in Seq(Body) /\ opens' # <<>> /\ DOMAIN opens' = 1..Len(opens) + 1
          /\ DOMAIN opens = 1..Len(opens) /\ Len(opens) \in Nat
          /\ (\A i \in 1..Len(opens) : opens'[i] = opens[i]) /\ opens'[Len(opens) + 1] = b
      BY <1>1, <2>2, Appended
    <3>2. \A i \in DOMAIN opens' : i \in 1..Len(opens) \/ i = Len(opens) + 1
      BY <3>1
    <3>3. \A i \in DOMAIN opens' : i # 1 => opens'[i].at = "queued"
      BY <1>1, <3>1, <3>2
    <3>4. /\ opens = <<>> => opens'[1] = b
          /\ opens # <<>> => opens'[1] = opens[1]
      <4>1. opens # <<>> => 1 \in 1..Len(opens)
        BY <3>1
      <4> QED  BY <3>1, <4>1
    <3> QED  BY <1>1, <2>2, <3>1, <3>3, <3>4 DEF BodiesOK, OthersWait
  <2> QED  BY <2>1, <2>2
<1>3. UNCHANGED <<shown, pending>> /\ opening' \in BOOLEAN /\ live' \subseteq Docs
  BY DEF edits, PageInv, TypeOK
<1>4. CASE opens = <<>>
  <2>1. NoneBegun' /\ Waits = {}
    BY <1>2, <1>4 DEF NoneBegun, Waits
  <2>2. OneBodyRuns' /\ Coming' = {}
    BY <2>1 DEF NoneBegun, OneBodyRuns, BodyRow, Coming
  <2> QED  BY <1>2, <1>3, <2>1, <2>2, BodiesMove
<1>5. CASE opens # <<>>
  <2>1. OneBodyRuns' /\ Waits' = Waits /\ Coming' = Coming
    BY <1>1, <1>2, <1>3, <1>5, SameRuns
  <2> QED  BY <1>2, <1>3, <2>1, BodiesMove
<1> QED  BY <1>4, <1>5

LEMMA AskKeeps ==
    ASSUME Bounded, PageInv, Ask
    PROVE  PageInv'
<1>1. /\ requests' \in 0..MaxRequests
      /\ UNCHANGED <<tabs, shown, live, opening, draft, edits, saving>>
  BY DEF Ask, Asked, PageInv, TypeOK, Bounded
<1>2. PICK d \in Docs :
         \/ \E kind \in {"open", "activate", "behind", "close"} : Enqueue(Queued(kind, d), opens)
         \/ \E others \in SUBSET (tabs \ {d}) :
               Enqueue([Queued("several", d) EXCEPT !.rest = others], opens)
  BY DEF Ask
<1>3. CASE \E kind \in {"open", "activate", "behind", "close"} : Enqueue(Queued(kind, d), opens)
  <2>1. PICK kind \in {"open", "activate", "behind", "close"} : Enqueue(Queued(kind, d), opens)
    BY <1>3
  <2>2. Queued(kind, d) \in Body /\ Queued(kind, d).at = "queued"
    BY QueuedIsABody
  <2> QED  BY <1>1, <2>1, <2>2, BodyAsked
<1>4. CASE \E others \in SUBSET (tabs \ {d}) :
              Enqueue([Queued("several", d) EXCEPT !.rest = others], opens)
  <2>1. PICK others \in SUBSET (tabs \ {d}) :
            Enqueue([Queued("several", d) EXCEPT !.rest = others], opens)
    BY <1>4
  <2> DEFINE b == [Queued("several", d) EXCEPT !.rest = others]
  <2>2. b \in Body /\ b.at = "queued"
    <3>1. others \in SUBSET Docs /\ NoBound \in Bound
      BY DEF PageInv, TypeOK, NoBound, Bound, Bounded
    <3> QED  BY <3>1 DEF Queued, Body
  <2> HIDE DEF b
  <2>3. Enqueue(b, opens)
    BY <2>1 DEF b
  <2> QED  BY <1>1, <2>2, <2>3, BodyAsked
<1> QED  BY <1>2, <1>3, <1>4

LEMMA IdleKeeps ==
    ASSUME Bounded, PageInv, Idle
    PROVE  PageInv'
<1>1. PICK b \in afterIdle : afterIdle' = afterIdle \ {b} /\ opens' = Append(opens, b)
  BY DEF Idle
<1>2. b \in Body /\ b.at = "queued" /\ requests' \in 0..MaxRequests
      /\ UNCHANGED <<tabs, shown, live, opening, draft, edits, saving>>
  BY DEF Idle, PageInv, TypeOK, OthersWait
<1> QED  BY <1>1, <1>2, BodyAsked

LEMMA TheBody ==
    ASSUME PageInv, opens # <<>>
    PROVE  /\ body = opens[1] /\ opens[1] \in Body /\ BodyRow(opens[1]) /\ BodiesOK
           /\ opens[1].doc \in Docs /\ opens[1].until \in Bound /\ opens[1].rest \in SUBSET Docs
           /\ opens[1].asked \in {"no", "nothing", "yes"}
<1>1. body = opens[1] /\ opens[1] \in Body /\ BodiesOK /\ BodyRow(opens[1])
  BY PageParts, OpensTyped DEF OneBodyRuns
<1> QED  BY <1>1, BodyTyped

LEMMA BodyIsDone ==
    ASSUME Bounded, PageInv, opens # <<>>, BodyEnds
    PROVE  opening' = FALSE /\ BodiesOK' /\ NoneBegun'
<1>1. Leaves(opens[1].rest, opens[1].asked) /\ opening' = FALSE
  BY TheBody DEF BodyEnds
<1> QED  BY <1>1, TheBody, BodyLeaves

\* The body that runs ends, and has changed nothing.
LEMMA BodyEndsKeeps ==
    ASSUME Bounded, PageInv, opens # <<>>, BodiesOK', NoneBegun', opening' \in BOOLEAN,
           live' \subseteq Docs,
           UNCHANGED <<tabs, shown, draft, edits, saving, requests>>,
           opens[1].at = "wait" => IsSettled(opens[1].until)
    PROVE  PageInv'
<1>1. OneBodyRuns' /\ Coming' = {}
  BY DEF NoneBegun, OneBodyRuns, BodyRow, Coming
<1>2. requests' \in 0..MaxRequests
  BY DEF PageInv, TypeOK
<1> QED  BY <1>1, <1>2, BodiesMove

LEMMA StartKeeps ==
    ASSUME Bounded, PageInv, Start
    PROVE  PageInv'
<1>1. /\ opens # <<>> /\ opens[1].at = "queued" /\ body = opens[1]
      /\ UNCHANGED <<tabs, shown, live, draft, edits, saving, requests>>
      /\ opens[1].at # "wait"
  BY TheBody DEF Start, Running
<1>2. live' \subseteq Docs /\ requests' \in 0..MaxRequests /\ opening \in BOOLEAN
      /\ UNCHANGED <<shown, pending>>
  BY <1>1 DEF PageInv, TypeOK, edits
<1> DEFINE b == opens[1]
<1>3. \/ Goes("ask") /\ opening' \in BOOLEAN
      \/ /\ Goes("settle") /\ opening' \in BOOLEAN
         /\ b.kind = "several" \/ (b.kind # "behind" /\ b.doc \in tabs)
      \/ Leaves(b.rest, b.asked) /\ opening' \in BOOLEAN
  BY <1>1, <1>2 DEF Start
<1>4. CASE Goes("ask") /\ opening' \in BOOLEAN
  <2>1. BodiesOK' /\ opens' # <<>> /\ opens'[1].at = "ask"
    BY <1>1, <1>4, GoesOn, PageParts
  <2>2. OneBodyRuns' /\ Coming' = {} /\ Waits = {}
    BY <1>1, <2>1 DEF OneBodyRuns, BodyRow, Coming, Waits
  <2> QED  BY <1>1, <1>2, <1>4, <2>1, <2>2, BodiesMove
<1>5. CASE /\ Goes("settle") /\ opening' \in BOOLEAN
           /\ b.kind = "several" \/ (b.kind # "behind" /\ b.doc \in tabs)
  <2>1. /\ BodiesOK' /\ opens' # <<>> /\ opens'[1].at = "settle"
        /\ opens'[1].kind = b.kind /\ opens'[1].doc = b.doc
    BY <1>1, <1>5, GoesOn, PageParts
  <2>2. OneBodyRuns' /\ Coming' \subseteq tabs /\ Waits = {}
    BY <1>1, <1>5, <2>1 DEF OneBodyRuns, BodyRow, Coming, Waits
  <2> QED  BY <1>1, <1>2, <1>5, <2>1, <2>2, BodiesMove
<1>6. CASE Leaves(b.rest, b.asked) /\ opening' \in BOOLEAN
  <2>1. BodiesOK' /\ NoneBegun'
    BY <1>1, <1>6, TheBody, BodyLeaves
  <2> QED  BY <1>1, <1>2, <1>6, <2>1, BodyEndsKeeps
<1> QED  BY <1>3, <1>4, <1>5, <1>6

LEMMA OpenedKeeps ==
    ASSUME Bounded, PageInv, Opened
    PROVE  PageInv'
<1> DEFINE b == opens[1]
           d == b.doc
<1>1. /\ opens # <<>> /\ b.at = "ask" /\ body = b /\ d \in Docs /\ b \in Body /\ BodiesOK /\ TypeOK
      /\ UNCHANGED <<made, pending, saving, requests>>
  BY TheBody, PageParts DEF Opened, Running
<1>2. CASE /\ IF b.kind = "behind" THEN Leaves({}, "no") /\ UNCHANGED opening ELSE BodyEnds
           /\ UNCHANGED <<tabs, shown, draft, live, model, seen, editing>>
  <2>1. BodiesOK' /\ NoneBegun' /\ opening' \in BOOLEAN
    <3>1. {} \in SUBSET Docs /\ "no" \in {"no", "nothing", "yes"} /\ opening \in BOOLEAN
      BY DEF PageInv, TypeOK
    <3>2. CASE b.kind = "behind"
      BY <1>1, <1>2, <3>1, <3>2, BodyLeaves
    <3>3. CASE b.kind # "behind"
      BY <1>1, <1>2, <3>3, BodyIsDone
    <3> QED  BY <3>2, <3>3
  <2>2. live' \subseteq Docs /\ UNCHANGED <<tabs, shown, draft, edits, saving, requests>>
    BY <1>1, <1>2 DEF edits, TypeOK
  <2> QED  BY <1>1, <2>1, <2>2, BodyEndsKeeps
<1>3. CASE /\ live' = live \cup {d} /\ editing' = Gone(d)
           /\ model' = [model EXCEPT ![d] = 0] /\ seen' = [seen EXCEPT ![d] = 0]
           /\ shown' = IF shown = d THEN NoDoc ELSE shown
           /\ draft' = (draft /\ shown # d)
           /\ IF b.kind = "behind" THEN Leaves({}, "no") /\ tabs' = tabs \cup {d}
              ELSE Goes("settle") /\ UNCHANGED tabs
           /\ UNCHANGED opening
  <2>1. /\ EditsInOrder' /\ editing' \in Seq(EditCommand) /\ Fewer /\ DOMAIN editing' = DOMAIN editing
        /\ model' \in [Docs -> 0..MaxEdits] /\ model'[d] = 0
        /\ \A e \in Docs : e # d => model'[e] = model[e]
        /\ \A i \in DOMAIN editing : /\ editing'[i].doc = editing[i].doc
                                     /\ editing[i].doc # d => editing'[i] = editing[i]
                                     /\ editing[i].doc = d => editing'[i].reply = 0
                                                              /\ editing'[i].view = "gone"
    BY <1>1, <1>3, GoneKeepsEdits DEF PageInv
  <2>2. /\ seen' \in [Docs -> 0..MaxEdits] /\ seen'[d] = 0
        /\ \A e \in Docs : e # d => seen'[e] = seen[e]
    BY <1>1, <1>3 DEF TypeOK, Bounded
  <2>3. EditsHere'
    <3>1. CASE shown = d
      <4>1. \A i \in DOMAIN editing' : editing'[i].view # "here"
        <5> SUFFICES ASSUME NEW i \in DOMAIN editing', editing'[i].view = "here"
                     PROVE  FALSE
          OBVIOUS
        <5>1. editing[i].doc # d /\ editing[i].view = "here" /\ i \in DOMAIN editing
          BY <2>1
        <5> QED  BY <3>1, <5>1 DEF PageInv, EditsHere, Here
      <4> QED  BY <4>1, NoneHere
    <3>2. CASE shown # d
      <4>1. UNCHANGED <<shown, pending>>
        BY <1>1, <1>3, <3>2
      <4> QED  BY <2>1, <4>1, HereStays DEF PageInv
    <3> QED  BY <3>1, <3>2
  <2>4. SaveAwaits'
    <3>1. Waits = {}
      BY <1>1 DEF Waits
    <3> QED  BY <1>1, <2>1, <3>1, AwaitsStay DEF PageInv
  <2>5. WindowOK' /\ draft' \in BOOLEAN /\ shown' \in Docs \cup {NoDoc}
    <3>1. CASE shown = d
      BY <1>1, <1>3, <3>1 DEF WindowOK
    <3>2. CASE shown # d
      BY <1>1, <1>3, <3>2 DEF PageInv, TypeOK, WindowOK
    <3> QED  BY <3>1, <3>2
  <2>6. \A e \in Docs : e = d \/ Shows(e) => Shows(e)'
    <3> SUFFICES ASSUME NEW e \in Docs, e = d \/ Shows(e)
                 PROVE  Shows(e)'
      OBVIOUS
    <3>1. /\ editing' # <<>> => editing # <<>> /\ 1 \in DOMAIN editing
          /\ editing # <<>> => editing' # <<>> /\ 1 \in DOMAIN editing
      BY <1>1, <2>1 DEF TypeOK
    <3>2. CASE e = d
      <4>1. editing' # <<>> /\ editing'[1].doc = d => editing'[1].reply = 0
        BY <2>1, <3>1
      <4> QED  BY <2>1, <2>2, <3>2, <4>1 DEF Shows
    <3>3. CASE e # d
      <4>1. /\ (editing' # <<>> /\ editing'[1].doc = e) <=> (editing # <<>> /\ editing[1].doc = e)
            /\ editing # <<>> /\ editing[1].doc = e => editing'[1] = editing[1]
        BY <2>1, <3>1, <3>3
      <4> QED  BY <2>1, <2>2, <3>3, <4>1 DEF Shows
    <3> QED  BY <3>2, <3>3
  <2>7. /\ BodiesOK' /\ OneBodyRuns' /\ tabs' \cup Coming' \subseteq tabs \cup {d} /\ tabs' \subseteq Docs
    <3>1. CASE b.kind = "behind"
      <4>1. {} \in SUBSET Docs /\ "no" \in {"no", "nothing", "yes"}
        OBVIOUS
      <4>2. BodiesOK' /\ NoneBegun'
        BY <1>1, <1>3, <3>1, <4>1, BodyLeaves
      <4> QED  BY <1>1, <1>3, <3>1, <4>2 DEF NoneBegun, OneBodyRuns, BodyRow, Coming, TypeOK
    <3>2. CASE b.kind # "behind"
      <4>1. /\ BodiesOK' /\ opens' # <<>> /\ opens'[1].at = "settle"
            /\ opens'[1].kind = b.kind /\ opens'[1].doc = d
        BY <1>1, <1>3, <3>2, GoesOn
      <4> QED  BY <1>1, <1>3, <3>2, <4>1 DEF OneBodyRuns, BodyRow, Coming, TypeOK
    <3> QED  BY <3>1, <3>2
  <2>8. TypeOK'
    <3>1. live' \subseteq Docs
      BY <1>1, <1>3 DEF TypeOK
    <3> QED  BY <1>1, <1>3, <2>1, <2>2, <2>5, <2>7, <3>1 DEF PageInv, TypeOK, BodiesOK
  <2>9. WindowFollows'
    BY <1>1, <2>6, <2>7, FollowedAreDocs DEF PageInv, WindowFollows
  <2> QED  BY <2>1, <2>3, <2>4, <2>5, <2>7, <2>8, <2>9 DEF PageInv, BodiesOK
<1> QED  BY <1>1, <1>2, <1>3 DEF Opened

LEMMA SettleKeeps ==
    ASSUME Bounded, PageInv, Settle
    PROVE  PageInv'
<1> DEFINE b == opens[1]
           x == [b EXCEPT !.at = "wait", !.until = pending']
<1>1. /\ opens # <<>> /\ b.at = "settle" /\ b \in Body /\ BodiesOK /\ BodyRow(b) /\ SettleDrafts
      /\ opens' = [opens EXCEPT ![1].at = "wait", ![1].until = pending']
      /\ UNCHANGED <<tabs, shown, live, opening, afterIdle, saving, requests>>
  BY TheBody DEF Settle, Running
<1>2. /\ editing' \in Seq(EditCommand) /\ made' \in [Docs -> 0..MaxEdits] /\ pending' \in Bound
      /\ EditsInOrder' /\ EditsHere' /\ WindowOK' /\ UNCHANGED <<model, seen>>
      /\ draft' = FALSE
      /\ \A d \in Docs : Shows(d) => Shows(d)'
  BY <1>1, Settles
<1>3. /\ x \in Body /\ x.at = "wait" /\ x.until = pending' /\ x.kind = b.kind /\ x.doc = b.doc
      /\ opens' = [opens EXCEPT ![1] = x]
  <2>1. 1 \in DOMAIN opens
    BY <1>1, OpensTyped DEF PageInv
  <2> QED  BY <1>1, <1>2, <2>1 DEF Body
<1> HIDE DEF x
<1>4. BodiesOK' /\ opens' # <<>> /\ opens'[1] = x
  BY <1>1, <1>3, BodyGoesOn
<1>5. OneBodyRuns' /\ Waits' = {pending'} /\ Coming' = Coming
  <2>1. x.kind # "behind"
    BY <1>1, <1>3 DEF BodyRow
  <2> QED  BY <1>1, <1>2, <1>3, <1>4, <2>1 DEF OneBodyRuns, BodyRow, Waits, Coming, WindowOK
<1>6. SaveAwaits'
  <2>1. \A i \in DOMAIN editing' : editing'[i].view = "here" => ByBody(i)'
    BY <1>1, <1>2, <1>5 DEF EditsHere, Here, ByBody
  <2> QED  BY <2>1 DEF SaveAwaits
<1>7. TypeOK'
  BY <1>1, <1>2, <1>4 DEF PageInv, TypeOK, BodiesOK
<1>8. WindowFollows'
  BY <1>1, <1>2, <1>5, WindowStays DEF PageInv
<1> QED  BY <1>2, <1>4, <1>5, <1>6, <1>7, <1>8 DEF PageInv, BodiesOK

\* The document that is mounted is taken down: what is under way was left.
LEMMA TakenDown ==
    ASSUME Bounded, PageInv, editing' = Left, shown' = NoDoc, draft' = FALSE,
           UNCHANGED <<made, model, seen>>
    PROVE  /\ editing' \in Seq(EditCommand) /\ EditsInOrder' /\ EditsHere' /\ SaveAwaits'
           /\ WindowOK' /\ \A d \in Docs : Shows(d) => Shows(d)'
<1>1. /\ EditsInOrder' /\ editing' \in Seq(EditCommand) /\ DOMAIN editing' = DOMAIN editing
      /\ \A i \in DOMAIN editing : /\ editing'[i].view # "here"
                                   /\ editing'[i].doc = editing[i].doc
                                   /\ editing'[i].reply = editing[i].reply
  BY LeftKeepsEdits DEF PageInv
<1>2. EditsHere' /\ SaveAwaits'
  BY <1>1, NoneHere
<1>3. WindowOK'
  BY DEF WindowOK
<1>4. \A d \in Docs : Shows(d) => Shows(d)'
  <2>1. /\ editing' # <<>> => editing # <<>> /\ 1 \in DOMAIN editing
        /\ editing # <<>> => editing' # <<>> /\ 1 \in DOMAIN editing
    BY <1>1 DEF PageInv, TypeOK
  <2> QED  BY <1>1, <2>1, AnswerStays
<1> QED  BY <1>1, <1>2, <1>3, <1>4

LEMMA UnmountKeeps ==
    ASSUME Bounded, PageInv, Unmount
    PROVE  PageInv'
<1> DEFINE b == opens[1]
<1>1. /\ opens # <<>> /\ b.at = "wait" /\ body = b /\ BodiesOK /\ b.kind # "several"
      /\ BodyRow(b) /\ Goes("mount")
      /\ editing' = Left /\ pending' = NoBound /\ shown' = NoDoc /\ draft' = FALSE
      /\ UNCHANGED <<tabs, live, opening, made, model, seen, saving, requests>>
  BY TheBody DEF Unmount, Running
<1>2. /\ editing' \in Seq(EditCommand) /\ EditsInOrder' /\ EditsHere' /\ SaveAwaits'
      /\ WindowOK' /\ \A d \in Docs : Shows(d) => Shows(d)'
  BY <1>1, TakenDown
<1>3. /\ BodiesOK' /\ opens' # <<>> /\ opens'[1].at = "mount" /\ opens'[1].kind = b.kind
      /\ opens'[1].doc = b.doc
  BY <1>1, GoesOn DEF PageInv
<1>4. OneBodyRuns' /\ Coming' = Coming
  BY <1>1, <1>3 DEF OneBodyRuns, BodyRow, Coming
<1>5. TypeOK'
  <2>1. pending' \in Bound
    BY <1>1 DEF NoBound, Bound, Bounded
  <2> QED  BY <1>1, <1>2, <1>3, <2>1 DEF PageInv, TypeOK, BodiesOK
<1>6. WindowFollows'
  BY <1>1, <1>2, <1>4, WindowStays DEF PageInv
<1> QED  BY <1>2, <1>3, <1>4, <1>5, <1>6 DEF PageInv, BodiesOK

LEMMA MountKeeps ==
    ASSUME Bounded, PageInv, Mount
    PROVE  PageInv'
<1> DEFINE b == opens[1]
<1>1. /\ opens # <<>> /\ b.at = "mount" /\ body = b /\ b.doc \in Docs /\ BodyEnds
      /\ shown = NoDoc /\ pending = NoBound /\ b.kind # "several"
      /\ UNCHANGED <<draft, made, editing, pending, model, seen, saving, requests>>
      /\ \/ shown' = b.doc /\ tabs' = tabs \cup {b.doc} /\ UNCHANGED live
         \/ live' \subseteq live /\ UNCHANGED <<shown, tabs>>
  <2>1. opens # <<>> /\ body.at = "mount"
    BY DEF Mount, Running
  <2> QED  BY <2>1, TheBody DEF Mount, Running, BodyRow, edits
<1>2. opening' = FALSE /\ BodiesOK' /\ NoneBegun'
  BY <1>1, BodyIsDone
<1>3. OneBodyRuns' /\ Coming' = {}
  BY <1>2 DEF NoneBegun, OneBodyRuns, BodyRow, Coming
<1>4. TypeOK'
  BY <1>1, <1>2 DEF PageInv, TypeOK, BodiesOK
<1>5. EditsInOrder' /\ EditsHere' /\ SaveAwaits'
  <2>1. \A i \in DOMAIN editing' : editing'[i].view # "here"
    <3>1. \A i \in DOMAIN editing : editing[i].doc # NoDoc
      BY EditsTyped DEF PageInv, Bounded
    <3> QED  BY <1>1, <3>1 DEF PageInv, EditsHere, Here
  <2>2. EditsInOrder'
    BY <1>1, EditsStay DEF PageInv
  <2> QED  BY <2>1, <2>2, NoneHere
<1>6. WindowOK'
  BY <1>1 DEF PageInv, WindowOK
<1>7. WindowFollows'
  <2>1. Coming = {b.doc}
    BY <1>1 DEF Coming
  <2>2. tabs' \cup Coming' \subseteq tabs \cup Coming
    BY <1>1, <1>3, <2>1
  <2> QED  BY <1>1, <2>2, ShowsStays, WindowStays DEF PageInv
<1> QED  BY <1>2, <1>3, <1>4, <1>5, <1>6, <1>7 DEF PageInv, BodiesOK

LEMMA RemovesKeeps ==
    ASSUME Bounded, PageInv, opens # <<>>, Removes(opens[1].doc),
           opens[1].at = "wait" => IsSettled(opens[1].until), UNCHANGED <<saving, requests>>
    PROVE  PageInv'
<1> DEFINE b == opens[1]
           d == b.doc
<1>1. /\ body = b /\ b \in Body /\ d \in Docs /\ BodiesOK /\ tabs' = tabs \ {d}
      /\ live' = live \ {d} /\ UNCHANGED <<made, model, seen, saving, requests>>
  BY TheBody DEF Removes
<1>2. /\ BodiesOK' /\ OneBodyRuns' /\ Coming' \subseteq tabs' /\ opening' \in BOOLEAN
  <2>1. CASE shown = d /\ tabs' # {}
    <3>1. PICK next \in tabs' :
              opens' = <<[b EXCEPT !.kind = "activate", !.doc = next, !.at = "settle"]>> \o Tail(opens)
      BY <1>1, <2>1 DEF Removes
    <3> DEFINE x == [b EXCEPT !.kind = "activate", !.doc = next, !.at = "settle"]
    <3>2. x \in Body /\ x.kind = "activate" /\ x.doc = next /\ x.at = "settle"
      <4>1. next \in Docs
        BY <1>1 DEF PageInv, TypeOK
      <4> QED  BY <1>1, <4>1 DEF Body
    <3>3. UNCHANGED <<opening, afterIdle>>
      BY <2>1 DEF Removes
    <3> HIDE DEF x
    <3>4. BodiesOK' /\ opens' # <<>> /\ opens'[1] = x
      <4>1. opens' = <<x>> \o Tail(opens)
        BY <3>1 DEF x
      <4> QED  BY <1>1, <3>2, <3>3, <4>1, BodyGoesOn
    <3> QED  BY <3>2, <3>3, <3>4 DEF OneBodyRuns, BodyRow, Coming, PageInv, TypeOK
  <2>2. CASE ~(shown = d /\ tabs' # {})
    <3>1. BodyEnds
      BY <2>2 DEF Removes
    <3>2. opening' = FALSE /\ BodiesOK' /\ NoneBegun'
      BY <3>1, BodyIsDone
    <3> QED  BY <3>2 DEF NoneBegun, OneBodyRuns, BodyRow, Coming
  <2> QED  BY <2>1, <2>2
<1>3. /\ editing' \in Seq(EditCommand) /\ pending' \in Bound /\ shown' \in Docs \cup {NoDoc}
      /\ draft' \in BOOLEAN /\ EditsInOrder' /\ EditsHere' /\ SaveAwaits' /\ WindowOK'
      /\ \A e \in Docs : Shows(e) => Shows(e)'
  <2>1. CASE shown = d
    <3>1. shown' = NoDoc /\ draft' = FALSE /\ editing' = Left /\ pending' = NoBound
      BY <2>1 DEF Removes
    <3>2. pending' \in Bound
      BY <3>1 DEF NoBound, Bound, Bounded
    <3> QED  BY <1>1, <3>1, <3>2, TakenDown
  <2>2. CASE shown # d
    <3>1. UNCHANGED <<shown, draft, editing, pending>>
      BY <2>2 DEF Removes
    <3>2. EditsInOrder' /\ Fewer
      BY <1>1, <3>1, EditsStay DEF PageInv
    <3>3. EditsHere' /\ SaveAwaits'
      BY <1>1, <3>1, <3>2, HereStays, BodyHasWaited DEF PageInv
    <3> QED  BY <1>1, <3>1, <3>2, <3>3, ShowsStays DEF PageInv, TypeOK, WindowOK
  <2> QED  BY <2>1, <2>2
<1>4. TypeOK'
  BY <1>1, <1>2, <1>3 DEF PageInv, TypeOK, BodiesOK
<1>5. WindowFollows'
  <2>1. tabs' \cup Coming' \subseteq tabs \cup Coming
    BY <1>1, <1>2
  <2> QED  BY <1>3, <2>1, WindowStays DEF PageInv
<1> QED  BY <1>2, <1>3, <1>4, <1>5 DEF PageInv, BodiesOK

\* A question is put to the reader.
LEMMA AsksTheReader ==
    ASSUME Bounded, PageInv, opens # <<>>, opens[1].at = "wait", IsSettled(opens[1].until),
           Goes("confirm"), UNCHANGED <<tabs, shown, live, opening, draft, edits, saving, requests>>
    PROVE  PageInv'
<1>1. /\ BodiesOK /\ BodyRow(opens[1])
      /\ BodiesOK' /\ opens' # <<>> /\ opens'[1].at = "confirm"
      /\ opens'[1].kind = opens[1].kind /\ opens'[1].until = opens[1].until
  BY TheBody, GoesOn DEF PageInv
<1>2. OneBodyRuns' /\ Coming' = {}
  BY <1>1 DEF OneBodyRuns, BodyRow, Coming
<1>3. opening' \in BOOLEAN /\ requests' \in 0..MaxRequests /\ live' \subseteq Docs
  BY DEF PageInv, TypeOK
<1> QED  BY <1>1, <1>2, <1>3, BodiesMove

LEMMA CloseKeeps ==
    ASSUME Bounded, PageInv, Close
    PROVE  PageInv'
<1>1. /\ opens # <<>> /\ body = opens[1] /\ opens[1].at = "wait" /\ IsSettled(opens[1].until)
      /\ UNCHANGED <<saving, requests>>
  BY TheBody DEF Close, Running
<1>2. CASE Goes("confirm") /\ UNCHANGED <<tabs, shown, live, opening, draft, edits>>
  BY <1>1, <1>2, AsksTheReader
<1>3. CASE Removes(opens[1].doc)
  BY <1>1, <1>3, RemovesKeeps
<1> QED  BY <1>1, <1>2, <1>3 DEF Close

LEMMA SeveralLeave ==
    ASSUME Bounded, PageInv, opens # <<>>, NEW asked \in {"nothing", "yes"},
           Leaves({opens[1].doc} \cup opens[1].rest, asked)
    PROVE  BodiesOK' /\ NoneBegun'
<1>1. {opens[1].doc} \cup opens[1].rest \in SUBSET Docs /\ BodiesOK
  BY TheBody
<1> QED  BY <1>1, BodyLeaves

LEMMA CloseSeveralKeeps ==
    ASSUME Bounded, PageInv, CloseSeveral
    PROVE  PageInv'
<1>1. /\ opens # <<>> /\ body = opens[1] /\ opens[1].at = "wait" /\ IsSettled(opens[1].until)
      /\ UNCHANGED <<tabs, shown, live, opening, draft, edits, saving, requests>>
  BY TheBody DEF CloseSeveral, Running
<1>2. CASE Goes("confirm")
  BY <1>1, <1>2, AsksTheReader
<1>3. CASE Leaves({opens[1].doc} \cup opens[1].rest, "nothing")
  <2>1. BodiesOK' /\ NoneBegun'
    BY <1>1, <1>3, SeveralLeave
  <2>2. opening' \in BOOLEAN /\ live' \subseteq Docs
    BY <1>1 DEF PageInv, TypeOK
  <2> QED  BY <1>1, <2>1, <2>2, BodyEndsKeeps
<1> QED  BY <1>1, <1>2, <1>3 DEF CloseSeveral

LEMMA ConfirmKeeps ==
    ASSUME Bounded, PageInv, Confirm
    PROVE  PageInv'
<1>1. /\ opens # <<>> /\ body = opens[1] /\ opens[1].at = "confirm" /\ opens[1].at # "wait"
      /\ UNCHANGED <<saving, requests>>
  BY TheBody DEF Confirm, Running
<1>2. CASE Removes(opens[1].doc)
  BY <1>1, <1>2, RemovesKeeps
<1>3. CASE /\ \/ Leaves({opens[1].doc} \cup opens[1].rest, "yes")
              \/ Leaves({}, "no")
           /\ opening' = FALSE /\ UNCHANGED <<tabs, shown, live, draft, edits>>
  <2>1. BodiesOK' /\ NoneBegun'
    <3>1. {} \in SUBSET Docs /\ "no" \in {"no", "nothing", "yes"}
      OBVIOUS
    <3> QED  BY <1>1, <1>3, <3>1, SeveralLeave, TheBody, BodyLeaves
  <2>2. opening' \in BOOLEAN /\ live' \subseteq Docs
    BY <1>1, <1>3 DEF PageInv, TypeOK
  <2> QED  BY <1>1, <1>3, <2>1, <2>2, BodyEndsKeeps
<1> QED  BY <1>1, <1>2, <1>3 DEF Confirm

-----------------------------------------------------------------------------
\* The save.

\* The save goes on, and waits for nothing yet or no more.
LEMMA SaveMoves ==
    ASSUME Bounded, PageInv, saving' \in Task, SaveAwaits',
           UNCHANGED <<tabs, shown, live, opening, draft, edits, opens, afterIdle, requests>>
    PROVE  PageInv'
<1>1. UNCHANGED <<made, editing, pending, model, seen>>
  BY DEF edits
<1>2. TypeOK' /\ WindowOK' /\ OthersWait' /\ OneBodyRuns'
  BY <1>1 DEF PageInv, TypeOK, WindowOK, OthersWait, OneBodyRuns, BodyRow
<1>3. EditsInOrder' /\ EditsHere'
  BY <1>1, EditsStay, HereStays DEF PageInv
<1>4. WindowFollows'
  <2>1. Coming' = Coming
    BY DEF Coming
  <2> QED  BY <1>1, <2>1, ShowsStays, WindowStays DEF PageInv
<1> QED  BY <1>2, <1>3, <1>4 DEF PageInv

LEMMA TaskTyped ==
    ASSUME Bounded, TypeOK
    PROVE  /\ NoTask \in Task /\ NoTask.at = "none" /\ saving \in Task
           /\ \A t \in Task : t.doc \in Docs \cup {NoDoc} /\ t.until \in Bound
<1>1. NoBound \in Bound
  BY DEF NoBound, Bound, Bounded
<1>2. NoTask \in Task /\ NoTask.at = "none"
  BY <1>1 DEF NoTask, Task
<1>3. \A t \in Task : t.doc \in Docs \cup {NoDoc} /\ t.until \in Bound
  BY DEF Task
<1> QED  BY <1>2, <1>3 DEF TypeOK

LEMMA SaveSettlesKeeps ==
    ASSUME Bounded, PageInv, SaveSettles
    PROVE  PageInv'
<1>1. /\ SettleDrafts /\ saving.at \in {"settle", "settleAgain"}
      /\ saving' = [saving EXCEPT !.at = IF saving.at = "settle" THEN "wait" ELSE "waitAgain",
                                  !.until = pending']
      /\ UNCHANGED <<tabs, shown, live, opening, opens, afterIdle, requests>>
  BY DEF SaveSettles, Saving
<1>2. /\ editing' \in Seq(EditCommand) /\ made' \in [Docs -> 0..MaxEdits] /\ pending' \in Bound
      /\ EditsInOrder' /\ EditsHere' /\ WindowOK' /\ UNCHANGED <<model, seen>>
      /\ draft' = FALSE /\ (shown = NoDoc => pending' = pending)
      /\ \A d \in Docs : Shows(d) => Shows(d)'
  BY <1>1, Settles
<1>3. /\ saving' \in Task /\ saving'.until = pending' /\ saving'.at \in {"wait", "waitAgain"}
  BY <1>1, <1>2, TaskTyped DEF PageInv, Task
<1>4. TypeOK'
  BY <1>1, <1>2, <1>3 DEF PageInv, TypeOK
<1>5. OthersWait' /\ OneBodyRuns'
  BY <1>1, <1>2 DEF PageInv, OthersWait, OneBodyRuns, BodyRow
<1>6. SaveAwaits'
  <2>1. saving'.at = "waitAgain" =>
            \A i \in DOMAIN editing' : editing'[i].view = "here" => BySave(i)'
    BY <1>1, <1>2, <1>3 DEF EditsHere, Here, BySave
  <2> QED  BY <1>3, <2>1 DEF SaveAwaits
<1>7. WindowFollows'
  <2>1. Coming' = Coming
    BY <1>1 DEF Coming
  <2> QED  BY <1>1, <1>2, <2>1, WindowStays DEF PageInv
<1> QED  BY <1>2, <1>4, <1>5, <1>6, <1>7 DEF PageInv

LEMMA SaveBeginsKeeps ==
    ASSUME Bounded, PageInv, SaveBegins
    PROVE  PageInv'
<1>1. /\ \/ saving' = NoTask
         \/ shown \in Docs /\ saving' = [saving EXCEPT !.at = "settleAgain", !.doc = shown]
      /\ UNCHANGED <<tabs, shown, live, opening, draft, edits, opens, afterIdle, requests>>
  BY DEF SaveBegins, Saving, TaskEnds, PageInv, TypeOK
<1>2. saving' \in Task /\ saving'.at \notin {"waitAgain", "call"}
  BY <1>1, TaskTyped DEF PageInv, Task
<1> QED  BY <1>1, <1>2, NoSaveAwaits, SaveMoves

LEMMA SaveIsSureKeeps ==
    ASSUME Bounded, PageInv, SaveIsSure
    PROVE  PageInv'
<1>1. /\ saving.at = "waitAgain" /\ IsSettled(saving.until)
      /\ saving' = NoTask \/ saving' = [saving EXCEPT !.at = "call"]
      /\ UNCHANGED <<tabs, shown, live, opening, draft, edits, opens, afterIdle, requests>>
  BY DEF SaveIsSure, Saving, TaskEnds
<1>2. CASE saving' = NoTask
  BY <1>1, <1>2, TaskTyped, NoSaveAwaits, SaveMoves DEF PageInv
<1>3. CASE saving' = [saving EXCEPT !.at = "call"]
  <2>1. saving' \in Task /\ saving'.doc = saving.doc
    BY <1>3, TaskTyped DEF PageInv, Task
  <2>2. \A i \in DOMAIN editing : ~BySave(i)
    <3> SUFFICES ASSUME NEW i \in DOMAIN editing, BySave(i)
                 PROVE  FALSE
      OBVIOUS
    <3>1. editing[i].nth <= saving.until.nth /\ editing[i].nth > saving.until.nth
      BY <1>1 DEF BySave, IsSettled
    <3>2. editing[i].nth \in Nat /\ saving.until.nth \in Nat
      BY EditsTyped, TaskTyped DEF PageInv, Bound, Bounded
    <3> QED  BY <3>1, <3>2
  <2>3. UNCHANGED editing /\ Waits' = Waits
    BY <1>1 DEF edits, Waits
  <2>4. SaveAwaits'
    BY <1>1, <2>1, <2>2, <2>3 DEF PageInv, SaveAwaits, ByBody
  <2> QED  BY <1>1, <2>1, <2>4, SaveMoves
<1> QED  BY <1>1, <1>2, <1>3

LEMMA SaveAnswersKeeps ==
    ASSUME Bounded, PageInv, SaveAnswers
    PROVE  PageInv'
<1>1. CASE TaskEnds /\ UNCHANGED <<shown, live, draft, editing, opens, afterIdle>>
  <2>1. UNCHANGED <<tabs, shown, live, opening, draft, edits, opens, afterIdle, requests>>
    BY <1>1 DEF SaveAnswers, Saving, edits
  <2> QED  BY <1>1, <2>1, TaskTyped, NoSaveAwaits, SaveMoves DEF TaskEnds, PageInv
<1>2. CASE ~(TaskEnds /\ UNCHANGED <<shown, live, draft, editing, opens, afterIdle>>)
  <2> DEFINE b == Queued("reopen", saving.doc)
  <2>1. /\ saving.doc \in live /\ live' = live \ {saving.doc}
        /\ saving' = [saving EXCEPT !.at = "reopen"]
        /\ shown' = NoDoc /\ draft' = FALSE /\ editing' = Left
        /\ opens' = Append(opens, b) /\ UNCHANGED afterIdle
        /\ UNCHANGED <<tabs, opening, made, pending, model, seen, requests>>
    BY <1>2 DEF SaveAnswers, Saving, ReopenWaits
  <2>2. b \in Body /\ b.at = "queued" /\ saving' \in Task
    <3>1. saving.doc \in Docs
      BY <2>1 DEF PageInv, TypeOK
    <3> QED  BY <2>1, <3>1, QueuedIsABody, TaskTyped DEF PageInv, Task
  <2> HIDE DEF b
  <2>3. /\ editing' \in Seq(EditCommand) /\ EditsInOrder' /\ EditsHere' /\ SaveAwaits'
        /\ WindowOK' /\ \A d \in Docs : Shows(d) => Shows(d)'
    BY <2>1, TakenDown
  <2>4. /\ BodiesOK' /\ opens' # <<>>
        /\ opens = <<>> => opens'[1] = b
        /\ opens # <<>> => opens'[1] = opens[1]
    BY <2>1, <2>2, PageParts, OneMore DEF BodiesOK, OthersWait
  <2>5. OneBodyRuns' /\ Coming' \subseteq Coming
    <3>1. CASE opens = <<>>
      BY <2>2, <2>4, <3>1 DEF OneBodyRuns, BodyRow, Coming
    <3>2. CASE opens # <<>>
      BY <2>1, <2>4, <3>2 DEF PageInv, OneBodyRuns, BodyRow, Coming
    <3> QED  BY <3>1, <3>2
  <2>6. TypeOK'
    BY <2>1, <2>2, <2>3, <2>4 DEF PageInv, TypeOK, BodiesOK
  <2>7. WindowFollows'
    BY <2>1, <2>3, <2>5, WindowStays DEF PageInv
  <2> QED  BY <2>3, <2>4, <2>5, <2>6, <2>7 DEF PageInv, BodiesOK
<1> QED  BY <1>1, <1>2

LEMMA SaveEndsKeeps ==
    ASSUME Bounded, PageInv, SaveEnds
    PROVE  PageInv'
<1>1. UNCHANGED <<tabs, shown, live, opening, draft, edits, opens, afterIdle, requests>>
      /\ saving' = NoTask
  BY DEF SaveEnds, Saving, TaskEnds
<1> QED  BY <1>1, TaskTyped, NoSaveAwaits, SaveMoves DEF PageInv

-----------------------------------------------------------------------------
\* The invariant holds.

LEMMA PageInvInit == Bounded /\ Init => PageInv
<1> SUFFICES ASSUME Bounded, Init
             PROVE  PageInv
  OBVIOUS
<1>1. /\ opens = <<>> /\ editing = <<>> /\ afterIdle = {} /\ saving = NoTask /\ pending = NoBound
      /\ shown \in Docs /\ tabs \subseteq Docs /\ draft = FALSE
      /\ \A d \in Docs : made[d] = 0 /\ model[d] = 0 /\ seen[d] = 0
  BY DEF Init
<1>2. /\ DOMAIN editing = {} /\ DOMAIN opens = {}
  BY <1>1
<1>3. NoTask \in Task /\ NoTask.at = "none" /\ NoBound \in Bound
  <2>1. NoBound \in Bound
    BY DEF NoBound, Bound, Bounded
  <2> QED  BY <2>1 DEF NoTask, Task
<1>4. TypeOK
  <2>1. 0 \in 0..MaxEdits /\ 0 \in 0..MaxRequests
    BY DEF Bounded
  <2>2. /\ made \in [Docs -> 0..MaxEdits] /\ model \in [Docs -> 0..MaxEdits]
        /\ seen \in [Docs -> 0..MaxEdits]
    BY <2>1 DEF Init
  <2>3. /\ tabs \in SUBSET Docs /\ shown \in Docs \cup {NoDoc} /\ live \in SUBSET Docs
        /\ opening \in BOOLEAN /\ draft \in BOOLEAN /\ requests \in 0..MaxRequests
    BY <2>1 DEF Init
  <2>4. editing \in Seq(EditCommand) /\ opens \in Seq(Body) /\ afterIdle \in SUBSET Body
    BY <1>1
  <2> QED  BY <1>1, <1>3, <2>2, <2>3, <2>4 DEF TypeOK
<1>5. EditsInOrder /\ EditsHere /\ WindowOK /\ OthersWait /\ OneBodyRuns
  BY <1>1, <1>2 DEF EditsInOrder, EditsHere, WindowOK, OthersWait, OneBodyRuns
<1>6. SaveAwaits
  BY <1>1, <1>3 DEF SaveAwaits
<1>7. WindowFollows
  BY <1>1 DEF WindowFollows, Coming, Shows
<1> QED  BY <1>4, <1>5, <1>6, <1>7 DEF PageInv

LEMMA PageInvStep == Bounded /\ PageInv /\ [Next]_vars => PageInv'
<1> SUFFICES ASSUME Bounded, PageInv, [Next]_vars
             PROVE  PageInv'
  OBVIOUS
<1>1. CASE Reader
  BY <1>1, MakeEditKeeps, TypeKeeps, AskKeeps, AskSaveKeeps DEF Reader
<1>2. CASE EditStep
  BY <1>2, EditsKeep
<1>3. CASE BodyStep
  BY <1>3, IdleKeeps, StartKeeps, OpenedKeeps, SettleKeeps, UnmountKeeps, MountKeeps, CloseKeeps,
     CloseSeveralKeeps, ConfirmKeeps DEF BodyStep
<1>4. CASE SaveStep
  BY <1>4, SaveSettlesKeeps, SaveBeginsKeeps, SaveIsSureKeeps, SaveAnswersKeeps, SaveEndsKeeps
     DEF SaveStep
<1>5. CASE UNCHANGED vars
  <2>1. /\ UNCHANGED <<tabs, shown, live, opening, draft, edits, opens, afterIdle, requests>>
        /\ UNCHANGED saving
    BY <1>5 DEF vars
  <2>2. SaveAwaits' /\ saving' \in Task
    BY <2>1, PageStays DEF PageInv, TypeOK
  <2> QED  BY <2>1, <2>2, SaveMoves
<1> QED  BY <1>1, <1>2, <1>3, <1>4, <1>5 DEF Next

LEMMA PageInvAlways == ASSUME Bounded PROVE Spec => []PageInv
<1>1. Init => PageInv
  BY PageInvInit
<1>2. PageInv /\ [Next]_vars => PageInv'
  BY PageInvStep
<1> QED  BY <1>1, <1>2, PTL DEF Spec

-----------------------------------------------------------------------------
\* The theorems.

\* Every state of the page is of its type: its queues hold bodies and edits of
\* documents it knows, and no bound is passed.
THEOREM PageTypes == Bounded => (Spec => []TypeOK)
<1>1. PageInv => TypeOK
  BY DEF PageInv
<1>2. ASSUME Bounded
      PROVE  Spec => []TypeOK
  BY <1>1, <1>2, PageInvAlways, PTL
<1> QED  BY <1>2

\* A save with no body beside it takes every edit made of the document it saves
\* since that was mounted (pendingEdit, applyEdit): it has waited for those made
\* before it, and since it began only a body that settles has added any, which
\* waits for them itself.
THEOREM SaveTakesEvery == Bounded => (Spec => []SaveTakesEveryEdit)
<1>1. PageInv => SaveTakesEveryEdit
  <2> SUFFICES ASSUME PageInv, saving.at = "call", ~Beside, NEW i \in DOMAIN editing,
                      editing[i].doc = saving.doc, editing[i].view = "here"
               PROVE  FALSE
    BY DEF SaveTakesEveryEdit
  <2>1. ByBody(i)
    BY DEF PageInv, SaveAwaits, BySave
  <2>2. opens # <<>> /\ opens[1].at = "wait"
    BY <2>1 DEF ByBody, Waits
  <2>3. body = opens[1] /\ opens[1].kind # "behind"
    BY <2>2, TheBody DEF BodyRow
  <2> QED  BY <2>2, <2>3 DEF Beside
<1>2. ASSUME Bounded
      PROVE  Spec => []SaveTakesEveryEdit
  BY <1>1, <1>2, PageInvAlways, PTL
<1> QED  BY <1>2

\* Once the replies are in, the window shows the state its document's model is in
\* (Edits.adopt): one edit is on its way at a time, and what a reply says of a
\* document that is open is one step from what the page has.
THEOREM WindowShows == Bounded => (Spec => []WindowShowsTheModel)
<1>1. PageInv => WindowShowsTheModel
  <2> SUFFICES ASSUME PageInv, NEW d \in tabs,
                      \A i \in DOMAIN editing : editing[i].doc = d => editing[i].view = "gone"
               PROVE  seen[d] = model[d]
    BY DEF WindowShowsTheModel
  <2>1. editing # <<>> => 1 \in DOMAIN editing
    BY DEF PageInv, TypeOK
  <2>2. editing # <<>> /\ editing[1].doc = d => editing[1].reply = 0
    BY <2>1 DEF PageInv, EditsInOrder, EditRow
  <2> QED  BY <2>2 DEF PageInv, WindowFollows, Shows
<1>2. ASSUME Bounded
      PROVE  Spec => []WindowShowsTheModel
  BY <1>1, <1>2, PageInvAlways, PTL
<1> QED  BY <1>2

\* Only a body that closes a tab takes one away.
LEMMA TabsStay ==
    ASSUME PageInv, [Next]_vars, ~Close, ~Confirm
    PROVE  tabs \subseteq tabs'
<1>1. CASE Reader
  BY <1>1 DEF Reader, MakeEdit, Type, Ask, AskSave
<1>2. CASE EditStep
  BY <1>2 DEF EditStep, SendEdit, ApplyEdit, AdoptEdit
<1>3. CASE Idle \/ Start \/ Settle \/ Unmount \/ CloseSeveral
  BY <1>3 DEF Idle, Start, Settle, Unmount, CloseSeveral
<1>4. CASE Opened \/ Mount
  BY <1>4 DEF Opened, Mount
<1>5. CASE SaveStep
  BY <1>5 DEF SaveStep, SaveSettles, SaveBegins, SaveIsSure, SaveAnswers, SaveEnds
<1>6. CASE UNCHANGED vars
  BY <1>6 DEF vars
<1> QED  BY <1>1, <1>2, <1>3, <1>4, <1>5, <1>6 DEF Next, BodyStep

\* What a document that is not dirty can still gain has been answered since its
\* close began to settle, or was on its way when the document was taken down.
LEMMA ClosedClean ==
    ASSUME Bounded, PageInv, Close, ~dirty(body.doc), body.doc \in tabs
    PROVE  model[body.doc] <= Cardinality(LateAnswers(body.doc))
<1>1. /\ opens # <<>> /\ body = opens[1] /\ opens[1].at = "wait" /\ IsSettled(opens[1].until)
      /\ BodyRow(opens[1]) /\ TypeOK /\ EditsInOrder /\ EditsHere
  BY TheBody, PageParts DEF Close, Running
<1>2. PICK d \in tabs : d = body.doc /\ d \in Docs
  BY <1>1 DEF TypeOK
<1>3. seen[d] = 0
  <2>1. seen[d] \in Nat
    BY <1>1, <1>2, Counted
  <2> QED  BY <1>2, <2>1 DEF dirty
<1>4. /\ IsFiniteSet(LateAnswers(d)) /\ Cardinality(LateAnswers(d)) \in Nat
      /\ (LateAnswers(d) # {} => Cardinality(LateAnswers(d)) # 0)
  <2>1. DOMAIN editing = 1..Len(editing) /\ Len(editing) \in Nat
    BY <1>1, EditsTyped
  <2>2. IsFiniteSet(DOMAIN editing)
    BY <2>1, FS_Interval
  <2>3. LateAnswers(d) \subseteq DOMAIN editing
    BY DEF LateAnswers
  <2>4. IsFiniteSet(LateAnswers(d))
    BY <2>2, <2>3, FS_Subset
  <2> QED  BY <2>4, FS_CardinalityType, FS_EmptySet
<1>5. Shows(d)
  BY <1>2 DEF PageInv, WindowFollows
<1>6. CASE editing # <<>> /\ editing[1].doc = d /\ editing[1].reply > 0
  <2>1. model[d] = 1
    BY <1>3, <1>5, <1>6 DEF Shows
  <2>2. /\ 1 \in DOMAIN editing /\ editing[1].nth >= 1 /\ editing[1].nth \in Nat
        /\ editing[1].view \in {"here", "left", "gone"}
    <3>1. 1 \in DOMAIN editing /\ editing[1] \in EditCommand
      <4>1. editing \in Seq(EditCommand)
        BY <1>1 DEF TypeOK
      <4> QED  BY <1>6, <4>1
    <3>2. editing[1].nth \in 1..MaxEdits /\ editing[1].view \in {"here", "left", "gone"}
      BY <3>1 DEF EditCommand
    <3> QED  BY <3>1, <3>2 DEF Bounded
  <2>3. editing[1].view # "gone"
    BY <1>1, <1>6, <2>2 DEF EditsInOrder, EditRow
  <2>4. editing[1].view = "here" => editing[1].nth > body.until.nth
    <3> SUFFICES ASSUME editing[1].view = "here"
                 PROVE  editing[1].nth > opens[1].until.nth
      BY <1>1
    <3>1. shown = d /\ shown # NoDoc
      BY <1>1, <1>2, <1>6, <2>2 DEF EditsHere, Here, Bounded
    <3>2. CASE opens[1].until = NoBound
      BY <2>2, <3>2 DEF NoBound
    <3>3. CASE opens[1].until.doc = shown
      BY <1>1, <1>6, <2>2, <3>1, <3>3 DEF IsSettled
    <3> QED  BY <1>1, <3>1, <3>2, <3>3 DEF BodyRow
  <2>5. 1 \in LateAnswers(d)
    BY <1>6, <2>2, <2>3, <2>4 DEF LateAnswers
  <2> QED  BY <1>2, <1>4, <2>1, <2>5
<1>7. CASE ~(editing # <<>> /\ editing[1].doc = d /\ editing[1].reply > 0)
  BY <1>2, <1>3, <1>4, <1>5, <1>7 DEF Shows
<1> QED  BY <1>6, <1>7

\* No tab is closed without a question over an edit its close has waited for
\* (closeTab): dirty is read when pendingEdit is answered, and Edits.current is
\* the model's state.  Not of those edits are the ones made while the close
\* settled, the ones on their way when the document was last taken down, and all
\* of a tab that is closed with others, which are asked about together.
THEOREM NothingClosedUnasked == Bounded => (Spec => NothingIsClosedUnasked)
<1> DEFINE A == \A d \in tabs \ tabs' :
                   \/ body.at = "confirm" \/ body.asked # "no"
                   \/ model[d] <= Cardinality(LateAnswers(d))
<1>1. Bounded /\ PageInv /\ [Next]_vars => [A]_vars
  <2> SUFFICES ASSUME Bounded, PageInv, [Next]_vars, NEW d \in tabs, d \notin tabs'
               PROVE  \/ body.at = "confirm" \/ body.asked # "no"
                      \/ model[d] <= Cardinality(LateAnswers(d))
    BY DEF vars
  <2>1. CASE Confirm
    BY <2>1 DEF Confirm, Running
  <2>2. CASE Close
    <3>1. Removes(body.doc) /\ ~(body.asked = "no" /\ dirty(body.doc))
      BY <2>2 DEF Close
    <3>2. d = body.doc
      BY <3>1 DEF Removes
    <3> QED  BY <2>2, <3>1, <3>2, ClosedClean
  <2>3. CASE ~Close /\ ~Confirm
    BY <2>3, TabsStay
  <2> QED  BY <2>1, <2>2, <2>3
<1>2. ASSUME Bounded
      PROVE  Spec => [][A]_vars
  BY <1>1, <1>2, PageInvAlways, PTL DEF Spec
<1> QED  BY <1>2 DEF NothingIsClosedUnasked
=============================================================================
