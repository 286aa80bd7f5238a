---------------------------- MODULE DocumentsProofs ----------------------------
(***************************************************************************)
(* The table of documents: a pool has one owner or its close is on the     *)
(* way, for any number of commands, files, documents, imports and reloads. *)
(* Then what is behind a tab, as MCDocuments puts it together: whichever   *)
(* part moves, each of the three keeps its specification, so that what is  *)
(* proved of it alone holds where it is checked.                           *)
(***************************************************************************)
EXTENDS MCDocuments, TLAPS

\* The pools document d keeps.
KeptBy(d) == SourcesOf(d) \cup WaitingOf(d)

\* A document that is not open keeps nothing.
ClosedIsEmpty == \A d \in Handle \ rows : KeptBy(d) = {}

\* What a command is at belongs to what was asked, and a command that is about
\* a document names one.
TaskWhere ==
    \A c \in Calls :
        /\ task[c].at = "opening" => task[c].op \in {"open", "prepare"}
        /\ task[c].at = "insert" => task[c].op = "open"
        /\ task[c].at \in {"vet", "prepare"} => task[c].op = "prepare"
        /\ task[c].at = "place" => task[c].op = "commit" /\ task[c].file \in Files
        /\ task[c].op = "prepare" => task[c].file \in Files
        /\ task[c].at \in {"stage", "land"} => task[c].op = "save"
        /\ task[c].at = "adopt" => task[c].op = "links"
        /\ task[c].op \notin {"none", "open", "release"} => task[c].doc # 0
        /\ task[c].op = "commit" => task[c].id # 0

\* Where a command holds a pool, and an import that waits has one.
HeldWhere ==
    /\ \A c \in Calls : held[c] # NoHandle <=>
                           task[c].at \in {"insert", "vet", "prepare", "place"}
    /\ \A d \in Handle :
          waiting[d].id # 0 => waiting[d].handle # NoHandle /\ waiting[d].file \in Files

TypeInv == TypeOK /\ TaskWhere /\ HeldWhere

\* No pool has two owners.
OneOwner ==
    /\ \A c, e \in Calls : held[c] # NoHandle /\ held[c] = held[e] => c = e
    /\ \A c \in Calls : held[c] \notin rows
    /\ \A c \in Calls, d \in rows : held[c] \notin KeptBy(d)
    /\ \A h, d \in rows : h \notin KeptBy(d)
    /\ \A d, e \in rows, h \in Handle : h \in KeptBy(d) /\ h \in KeptBy(e) => d = e
    /\ \A d \in rows, h \in Handle : ~(h \in SourcesOf(d) /\ h \in WaitingOf(d))

\* A document the page or a command can name, or whose answer was lost, was
\* opened as a document.
Named(h) == h \in known \/ \E c \in Calls : doc(c) = h /\ task[c].op # "links"
Nameable(h) == Named(h) \/ h \in lost

NamedIsDocument ==
    \A h \in Handle :
        Nameable(h) => pool[h] # "none" /\ ~IsHeld(h) /\ \A d \in rows : h \notin KeptBy(d)

\* A close is sent for what was opened.
ClosedWasOpened == \A h \in closing : pool[h] # "none"

\* A pool that is open has an owner, or its close or a sweep is on the way.
PoolsAreHeld ==
    \A h \in Handle : pool[h] = "open" => Owned(h) \/ h \in closing \/ sweeps > 0

Ownership ==
    /\ ClosedIsEmpty /\ OneOwner /\ NamedIsDocument /\ ClosedWasOpened
    /\ OwnedIsNotClosed /\ PoolsAreHeld

TableInv == TypeInv /\ Ownership

\* An owner that is a document has somebody who will close it: the page, which
\* forgets it only with its close or its save, or the release a new page asks
\* for.  What answered to nobody has none, and takes no pages either.
Names ==
    /\ \A d \in rows :
          Closable(d) \/ d \in lost \/ \E c \in Calls : task[c].op = "release"
    /\ \A c \in Calls : task[c].at = "land" => doc(c) \notin rows
    /\ \A c \in Calls : task[c].at = "idle" => task[c].op = "none"
    /\ \A h \in lost : ~Named(h) /\ KeptBy(h) = {}

-----------------------------------------------------------------------------
\* Types.

\* Nothing is open at the start.
LEMMA InitTypes == Init => TypeInv
<1> USE TableAssumption DEF Handle, NoHandle
<1> SUFFICES ASSUME Init  PROVE TypeInv
  OBVIOUS
<1>1. sources \in [Handle -> [Files -> 0..MaxHandles]]
  BY DEF Init, NoSources
<1>2. waiting \in [Handle -> Waiting]
  BY DEF Init, NoWaiting, Waiting
<1>3. task \in [Calls -> Task]
  BY DEF Init, NoTask, Task, Ops, PcValues
<1>4. /\ pool \in [Handle -> {"none", "open", "closed", "swept"}]
      /\ closing \in SUBSET Handle /\ sweeps \in Nat
      /\ rows \in SUBSET Handle /\ lastPending \in 0..MaxIds
  BY DEF Init
<1>5. /\ listed \in SUBSET Handle /\ known \in SUBSET Handle /\ lost \in SUBSET Handle
      /\ reloads \in 0..MaxReloads /\ held \in [Calls -> 0..MaxHandles]
  BY DEF Init
<1>6. TaskWhere /\ HeldWhere
  BY DEF Init, TaskWhere, HeldWhere, NoTask, NoWaiting
<1> QED  BY <1>1, <1>2, <1>3, <1>4, <1>5, <1>6 DEF TypeInv, TypeOK

\* What a document keeps are pools.
LEMMA KeptAreHandles ==
    ASSUME TypeOK, NEW d \in Handle
    PROVE  /\ SourcesOf(d) \subseteq Handle /\ WaitingOf(d) \subseteq Handle
           /\ Handed(d) \subseteq Handle
<1> USE TableAssumption DEF Handle, NoHandle, TypeOK, Waiting
<1>1. SourcesOf(d) \subseteq Handle
  BY DEF SourcesOf
<1>2. WaitingOf(d) \subseteq Handle
  BY DEF WaitingOf
<1> QED  BY <1>1, <1>2 DEF Handed

\* The page sends a command of a kind it has, about a document it knows.
LEMMA CallKeepsTypes ==
    ASSUME TypeInv, NEW c \in Calls, PageStep(c)
    PROVE  TypeInv'
<1> USE TableAssumption DEF table, Handle
<1>1. PICK what \in Ops, d \in 0..MaxHandles, i \in 0..MaxIds, f \in Files \cup {NoFile} :
          /\ Called(c, what, d, i, f)
          /\ what \notin {"none", "open", "release"} => d # 0
          /\ what = "commit" => i # 0
          /\ what = "prepare" => f \in Files
  <2>1. /\ known \subseteq 1..MaxHandles /\ 0 \in 0..MaxHandles /\ 0 \in 0..MaxIds
        /\ 1..lastPending \subseteq 1..MaxIds
    BY DEF TypeInv, TypeOK
  <2>2. {"open", "prepare", "commit", "cancel", "close", "save", "links", "release"} \subseteq Ops
    BY DEF Ops
  <2> QED  BY <2>1, <2>2 DEF PageStep, CallOpen, CallPrepare, CallOnImport, CallClose,
              CallSave, CallLinks, Reload
<1>2. task' \in [Calls -> Task]
  BY <1>1 DEF Called, TypeInv, TypeOK, Task, PcValues
<1>3. /\ known' \subseteq known
      /\ reloads' \in {reloads} \cup {r \in {reloads + 1} : reloads < MaxReloads}
  BY DEF PageStep, CallOpen, CallPrepare, CallOnImport, CallClose, CallSave, CallLinks,
     Reload
<1>4. known' \subseteq Handle /\ reloads' \in 0..MaxReloads
  BY <1>3 DEF TypeInv, TypeOK
<1>5. UNCHANGED <<pool, closing, sweeps, table, listed, lost, held>>
  BY <1>1 DEF Called
<1>6. TaskWhere'
  BY <1>1 DEF Called, TypeInv, TypeOK, TaskWhere, Task, Ops
<1>7. HeldWhere'
  BY <1>1, <1>5 DEF Called, TypeInv, TypeOK, HeldWhere, Task
<1> QED  BY <1>2, <1>4, <1>5, <1>6, <1>7 DEF TypeInv, TypeOK

\* A task that moves on or ends, with its pool held where it should be.
LEMMA TaskMoves ==
    ASSUME TypeInv, NEW c \in Calls, NEW from, NEW to \in PcValues,
           Goto(c, from, to) \/ Ends(c, from),
           Goto(c, from, to) =>
               /\ to = "opening" => task[c].op \in {"open", "prepare"}
               /\ to = "insert" => task[c].op = "open"
               /\ to \in {"vet", "prepare"} => task[c].op = "prepare"
               /\ to # "place"
               /\ to \in {"stage", "land"} => task[c].op = "save"
               /\ to = "adopt" => task[c].op = "links"
    PROVE  task' \in [Calls -> Task] /\ TaskWhere'
<1> USE DEF TypeInv, TypeOK
<1>1. NoTask \in Task
  BY TableAssumption DEF NoTask, Task, Ops, PcValues
<1>2. \A t \in Task : [t EXCEPT !.at = to] \in Task
  BY DEF Task
<1>3. CASE Goto(c, from, to)
  <2>1. task' \in [Calls -> Task]
    BY <1>2, <1>3 DEF Goto
  <2>2. TaskWhere'
    BY <1>3 DEF Goto, Task, TaskWhere
  <2> QED  BY <2>1, <2>2
<1>4. CASE Ends(c, from)
  <2>1. task' \in [Calls -> Task]
    BY <1>1, <1>4 DEF Ends
  <2>2. TaskWhere'
    BY <1>4 DEF Ends, Task, TaskWhere, NoTask
  <2> QED  BY <2>1, <2>2
<1> QED  BY <1>3, <1>4

\* The pools a command lets go of, and those it closes a document with, exist.
LEMMA ReleasedAreHandles ==
    ASSUME TypeInv, NEW c \in Calls
    PROVE  /\ {held[c]} \ {NoHandle} \subseteq Handle
           /\ task[c].op \notin {"none", "open", "release"} =>
                 doc(c) \in Handle /\ Handed(doc(c)) \subseteq Handle
                 /\ Replaced(doc(c)) \subseteq Handle /\ WaitingOf(doc(c)) \subseteq Handle
<1> USE TableAssumption DEF Handle, NoHandle
<1>1. {held[c]} \ {NoHandle} \subseteq Handle
  BY DEF TypeInv, TypeOK
<1>2. task[c].op \notin {"none", "open", "release"} => doc(c) \in Handle
  BY DEF TypeInv, TypeOK, TaskWhere, Task, doc
<1> QED  BY <1>1, <1>2, KeptAreHandles DEF Replaced, TypeInv

\* What closing a document leaves has the right types.
LEMMA ClosedModelTypes ==
    ASSUME TypeInv, NEW d \in Handle, CloseModel(d)
    PROVE  /\ rows' \in SUBSET Handle /\ sources' \in [Handle -> [Files -> 0..MaxHandles]]
           /\ waiting' \in [Handle -> Waiting] /\ listed' \in SUBSET Handle
           /\ closing' \in SUBSET Handle
           /\ \A e \in Handle : waiting'[e].id # 0 => waiting'[e].handle # NoHandle /\ waiting'[e].file \in Files
<1> USE TableAssumption DEF TypeInv, TypeOK
<1>1. NoSources \in [Files -> 0..MaxHandles] /\ NoWaiting \in Waiting /\ NoWaiting.id = 0
  BY DEF NoSources, NoWaiting, Waiting, NoHandle
<1>2. sources' \in [Handle -> [Files -> 0..MaxHandles]] /\ waiting' \in [Handle -> Waiting]
  BY <1>1 DEF CloseModel
<1>3. Handed(d) \subseteq Handle
  BY KeptAreHandles
<1>4. closing' \in SUBSET Handle /\ rows' \in SUBSET Handle /\ listed' \in SUBSET Handle
  BY <1>3 DEF CloseModel, Releases
<1>5. \A e \in Handle : waiting'[e].id # 0 => waiting'[e].handle # NoHandle /\ waiting'[e].file \in Files
  BY <1>1 DEF CloseModel, HeldWhere
<1> QED  BY <1>2, <1>4, <1>5

\* A command moves on, ends, or hands a pool over, within the types.
LEMMA CommandKeepsTypes ==
    ASSUME TypeInv, NEW c \in Calls, CommandStep(c)
    PROVE  TypeInv'
<1>a. {"asked", "opening", "insert", "vet", "prepare", "stage", "land", "adopt"} \subseteq PcValues
  BY DEF PcValues
<1>b. task[c].op \in Ops /\ task[c].doc \in 0..MaxHandles
      /\ held[c] \in 0..MaxHandles
  BY DEF TypeInv, TypeOK, Task
<1> USE DEF table, NoHandle
<1>1. CASE ServiceOpens(c)
  <2>1. \/ Goto(c, "opening", "insert") /\ task[c].op = "open"
        \/ Goto(c, "opening", "vet") /\ task[c].op = "prepare"
    BY <1>1 DEF ServiceOpens, TypeInv, TaskWhere, Goto
  <2>2. task' \in [Calls -> Task] /\ TaskWhere'
    BY <2>1, <1>a, TaskMoves
  <2>3. HeldWhere'
    BY <1>1, TableAssumption DEF ServiceOpens, TypeInv, TypeOK, HeldWhere, Goto, Task, Handle
  <2>4. PICK h \in Handle : pool' = [pool EXCEPT ![h] = "open"] /\ held' = [held EXCEPT ![c] = h]
    BY <1>1 DEF ServiceOpens
  <2>5. /\ pool' \in [Handle -> {"none", "open", "closed", "swept"}]
        /\ held' \in [Calls -> 0..MaxHandles]
    BY <2>4, TableAssumption DEF TypeInv, TypeOK, Handle
  <2>6. UNCHANGED <<closing, sweeps, table, listed, known, lost, reloads>>
    BY <1>1 DEF ServiceOpens
  <2> QED  BY <2>2, <2>3, <2>5, <2>6 DEF TypeInv, TypeOK
<1>2. CASE ServiceRefuses(c)
  <2>1. task' \in [Calls -> Task] /\ TaskWhere'
    BY <1>2, <1>a, TaskMoves DEF ServiceRefuses, Goto, Ends
  <2>2. HeldWhere'
    BY <1>2 DEF ServiceRefuses, TypeInv, TypeOK, HeldWhere, Ends, NoTask
  <2>3. TypeOK'
    BY <1>2, <2>1 DEF ServiceRefuses, TypeInv, TypeOK
  <2> QED  BY <2>1, <2>2, <2>3 DEF TypeInv
<1>3. CASE Insert(c)
  <2>1. task' \in [Calls -> Task] /\ TaskWhere'
    BY <1>3, <1>a, TaskMoves DEF Insert, Goto, Ends
  <2>2. HeldWhere'
    BY <1>3 DEF Insert, Kept, TypeInv, TypeOK, HeldWhere, Ends, NoTask, Task
  <2>3. held[c] \in Handle
    BY <1>3, ReleasedAreHandles DEF Insert, Ends, TypeInv, HeldWhere
  <2>4. /\ rows' \in SUBSET Handle /\ known' \in SUBSET Handle /\ lost' \in SUBSET Handle
        /\ held' \in [Calls -> 0..MaxHandles]
    BY <1>3, <2>3, TableAssumption DEF Insert, Kept, TypeInv, TypeOK
  <2>5. UNCHANGED <<pool, closing, sweeps, sources, waiting, lastPending, listed, reloads>>
    BY <1>3 DEF Insert
  <2> QED  BY <2>1, <2>2, <2>4, <2>5 DEF TypeInv, TypeOK
<1>4. CASE CheckOpen(c)
  <2>1. task' \in [Calls -> Task] /\ TaskWhere'
    BY <1>4, <1>a, TaskMoves DEF CheckOpen, TypeInv, TaskWhere, Goto, Ends
  <2>2. HeldWhere'
    BY <1>4 DEF CheckOpen, TypeInv, TypeOK, HeldWhere, Goto, Ends, NoTask, Task
  <2>3. TypeOK'
    BY <1>4, <2>1 DEF CheckOpen, TypeInv, TypeOK
  <2> QED  BY <2>1, <2>2, <2>3 DEF TypeInv
<1>5. CASE Vet(c)
  <2>1. \/ Goto(c, "vet", "prepare") /\ task[c].op = "prepare" /\ UNCHANGED <<closing, held>>
        \/ Ends(c, "vet") /\ Dropped(c)
    BY <1>5 DEF Vet, TypeInv, TaskWhere, Goto
  <2>2. task' \in [Calls -> Task] /\ TaskWhere'
    BY <2>1, <1>a, TaskMoves DEF Goto, Ends
  <2>3. /\ held' \in [Calls -> 0..MaxHandles] /\ closing' \in SUBSET Handle
    BY <2>1, ReleasedAreHandles, TableAssumption DEF Dropped, Releases, TypeInv, TypeOK
  <2>4. UNCHANGED <<pool, sweeps, table, listed, known, lost, reloads>>
    BY <1>5 DEF Vet
  <2>5. HeldWhere'
    BY <2>1, <2>4 DEF Dropped, TypeInv, TypeOK, HeldWhere, Goto, Ends, NoTask, Task
  <2> QED  BY <2>2, <2>3, <2>4, <2>5 DEF TypeInv, TypeOK
<1>6. CASE Cancel(c)
  <2>1. Ends(c, "asked") /\ doc(c) \in Handle /\ WaitingOf(doc(c)) \subseteq Handle
    BY <1>6, ReleasedAreHandles DEF Cancel
  <2>2. task' \in [Calls -> Task] /\ TaskWhere'
    BY <2>1, <1>a, TaskMoves DEF Goto, Ends
  <2>3. /\ UNCHANGED <<pool, sweeps, rows, sources, lastPending, listed, known, lost, reloads, held>>
        /\ waiting' \in {waiting, [waiting EXCEPT ![doc(c)] = NoWaiting]}
        /\ closing' \in {closing, closing \cup WaitingOf(doc(c))}
    BY <1>6 DEF Cancel, Releases
  <2>4. NoWaiting \in Waiting /\ NoWaiting.id = 0
    BY TableAssumption DEF NoWaiting, Waiting, NoHandle
  <2>5. waiting' \in [Handle -> Waiting] /\ closing' \in SUBSET Handle
    BY <2>1, <2>3, <2>4 DEF TypeInv, TypeOK
  <2>6. \A d \in Handle : waiting'[d].id # 0 => waiting'[d].handle # NoHandle /\ waiting'[d].file \in Files
    BY <2>1, <2>3, <2>4 DEF TypeInv, TypeOK, HeldWhere
  <2>7. HeldWhere'
    BY <2>1, <2>3, <2>6 DEF TypeInv, TypeOK, HeldWhere, Ends, NoTask, Task
  <2> QED  BY <2>2, <2>3, <2>5, <2>7 DEF TypeInv, TypeOK
<1>7. CASE Close(c)
  <2>1. Ends(c, "asked") /\ CloseModel(doc(c)) /\ doc(c) \in Handle
    BY <1>7, ReleasedAreHandles DEF Close
  <2>2. task' \in [Calls -> Task] /\ TaskWhere'
    BY <2>1, <1>a, TaskMoves DEF Ends, Goto
  <2>3. UNCHANGED <<pool, sweeps, lastPending, known, lost, reloads, held>>
    BY <1>7 DEF Close
  <2>4. HeldWhere'
    BY <2>1, <2>3, ClosedModelTypes DEF TypeInv, TypeOK, HeldWhere, Ends, NoTask, Task
  <2> QED  BY <2>1, <2>2, <2>3, <2>4, ClosedModelTypes DEF TypeInv, TypeOK
<1>8. CASE Plan(c)
  <2>1. task' \in [Calls -> Task] /\ TaskWhere'
    BY <1>8, <1>a, TaskMoves DEF Plan, TypeInv, TaskWhere, Goto, Ends
  <2>2. HeldWhere'
    BY <1>8 DEF Plan, TypeInv, TypeOK, HeldWhere, Goto, Ends, NoTask, Task
  <2>3. TypeOK'
    BY <1>8, <2>1 DEF Plan, TypeInv, TypeOK
  <2> QED  BY <2>1, <2>2, <2>3 DEF TypeInv
<1>9. CASE Stage(c)
  <2>1. \/ Ends(c, "stage") /\ UNCHANGED <<closing, rows, sources, waiting, listed>>
        \/ /\ Goto(c, "stage", "land") /\ task[c].op = "save"
           /\ CloseModel(doc(c)) /\ doc(c) \in Handle
    BY <1>9, ReleasedAreHandles DEF Stage, TypeInv, TaskWhere, Goto
  <2>2. task' \in [Calls -> Task] /\ TaskWhere'
    BY <2>1, <1>a, TaskMoves DEF Ends, Goto
  <2>3. UNCHANGED <<pool, sweeps, lastPending, known, lost, reloads, held>>
    BY <1>9 DEF Stage
  <2>4. \A d \in Handle : waiting'[d].id # 0 => waiting'[d].handle # NoHandle /\ waiting'[d].file \in Files
    BY <2>1, ClosedModelTypes DEF TypeInv, HeldWhere
  <2>5. \A e \in Calls : held'[e] # NoHandle <=>
                           task'[e].at \in {"insert", "vet", "prepare", "place"}
    <3>1. /\ task[c].at = "stage" /\ task'[c].at \in {"idle", "land"}
          /\ \A e \in Calls \ {c} : task'[e] = task[e]
      BY <2>1 DEF TypeInv, TypeOK, Ends, Goto, NoTask, Task
    <3> QED  BY <3>1, <2>3 DEF TypeInv, HeldWhere
  <2> QED  BY <2>1, <2>2, <2>3, <2>4, <2>5, ClosedModelTypes DEF TypeInv, TypeOK, HeldWhere
<1>10. CASE Land(c)
  <2>1. task' \in [Calls -> Task] /\ TaskWhere'
    BY <1>10, <1>a, TaskMoves DEF Land, Goto, Ends
  <2>2. HeldWhere'
    BY <1>10 DEF Land, TypeInv, TypeOK, HeldWhere, Goto, Ends, NoTask, Task
  <2>3. TypeOK'
    BY <1>10, <2>1 DEF Land, TypeInv, TypeOK
  <2> QED  BY <2>1, <2>2, <2>3 DEF TypeInv
<1>11. CASE ReadLinks(c)
  <2>1. task' \in [Calls -> Task] /\ TaskWhere'
    BY <1>11, <1>a, TaskMoves DEF ReadLinks, TypeInv, TaskWhere, Goto, Ends
  <2>2. HeldWhere'
    <3>1. /\ task[c].at = "asked" /\ task'[c].at \in {"idle", "adopt"}
          /\ \A e \in Calls \ {c} : task'[e] = task[e]
          /\ UNCHANGED <<waiting, held>>
      BY <1>11 DEF ReadLinks, TypeInv, TypeOK, Goto, Ends, NoTask, Task
    <3> QED  BY <3>1 DEF TypeInv, HeldWhere
  <2>3. TypeOK'
    BY <1>11, <2>1 DEF ReadLinks, TypeInv, TypeOK
  <2> QED  BY <2>1, <2>2, <2>3 DEF TypeInv
<1>12. CASE Adopt(c)
  <2>1. task' \in [Calls -> Task] /\ TaskWhere'
    BY <1>12, <1>a, TaskMoves DEF Adopt, Goto, Ends
  <2>2. HeldWhere'
    BY <1>12 DEF Adopt, TypeInv, TypeOK, HeldWhere, Goto, Ends, NoTask, Task
  <2>3. TypeOK'
    BY <1>12, <2>1, ReleasedAreHandles DEF Adopt, TypeInv, TypeOK, TaskWhere, Ends
  <2> QED  BY <2>1, <2>2, <2>3 DEF TypeInv
<1>13. CASE Release(c)
  <2>1. task' \in [Calls -> Task] /\ TaskWhere'
    BY <1>13, <1>a, TaskMoves DEF Release, Goto, Ends
  <2>2. HeldWhere'
    BY <1>13 DEF Release, NoWaiting, TypeInv, TypeOK, HeldWhere, Ends, NoTask, Task
  <2>3. NoSources \in [Files -> 0..MaxHandles] /\ NoWaiting \in Waiting
    BY TableAssumption DEF NoSources, NoWaiting, Waiting
  <2>4. /\ sources' \in [Handle -> [Files -> 0..MaxHandles]] /\ waiting' \in [Handle -> Waiting]
        /\ rows' \in SUBSET Handle /\ listed' \in SUBSET Handle
    BY <1>13, <2>3 DEF Release
  <2>5. UNCHANGED <<pool, closing, lastPending, known, lost, reloads, held>> /\ sweeps' = sweeps + 1
    BY <1>13 DEF Release
  <2> QED  BY <2>1, <2>2, <2>4, <2>5 DEF TypeInv, TypeOK
<1>14. CASE Prepare(c)
  <2>1. /\ Ends(c, "prepare") /\ task[c].file \in Files
        /\ doc(c) \in Handle /\ Replaced(doc(c)) \subseteq Handle
    BY <1>14, ReleasedAreHandles DEF Prepare, Ends, TypeInv, TypeOK, TaskWhere, Task
  <2>2. task' \in [Calls -> Task] /\ TaskWhere'
    BY <2>1, <1>a, TaskMoves DEF Ends, Goto
  <2>3. held[c] \in Handle
    BY <2>1, ReleasedAreHandles DEF Ends, TypeInv, HeldWhere
  <2>4. UNCHANGED <<pool, sweeps, rows, sources, listed, known, lost, reloads>>
        /\ held' = [held EXCEPT ![c] = NoHandle]
    BY <1>14 DEF Prepare, Dropped, Kept
  <2>5. closing' \subseteq Handle
    BY <1>14, <2>1, <2>3 DEF Prepare, Dropped, Releases, TypeInv, TypeOK
  <2>6. \/ UNCHANGED <<waiting, lastPending>>
        \/ /\ lastPending < MaxIds /\ lastPending' = lastPending + 1
           /\ waiting' = [waiting EXCEPT ![doc(c)] =
                 [id |-> lastPending + 1, handle |-> held[c], file |-> task[c].file]]
    BY <1>14 DEF Prepare
  <2>7. /\ lastPending' \in 0..MaxIds /\ waiting' \in [Handle -> Waiting]
        /\ \A d \in Handle : waiting'[d].id # 0 => waiting'[d].handle # NoHandle /\ waiting'[d].file \in Files
    <3>1. CASE UNCHANGED <<waiting, lastPending>>
      BY <3>1 DEF TypeInv, TypeOK, HeldWhere
    <3>2. CASE /\ lastPending < MaxIds /\ lastPending' = lastPending + 1
               /\ waiting' = [waiting EXCEPT ![doc(c)] =
                     [id |-> lastPending + 1, handle |-> held[c], file |-> task[c].file]]
      <4>1. lastPending + 1 \in 0..MaxIds /\ held[c] \in 0..MaxHandles /\ held[c] # 0
        BY <3>2, <2>3, TableAssumption DEF TypeInv, TypeOK, Handle
      <4>2. [id |-> lastPending + 1, handle |-> held[c], file |-> task[c].file] \in Waiting
        BY <4>1, <2>1 DEF Waiting
      <4> QED  BY <3>2, <4>1, <4>2, <2>1 DEF TypeInv, TypeOK, HeldWhere
    <3> QED  BY <3>1, <3>2, <2>6
  <2>8. held' \in [Calls -> 0..MaxHandles]
    BY <2>4, TableAssumption DEF TypeInv, TypeOK
  <2>9. HeldWhere'
    BY <2>1, <2>4, <2>7 DEF TypeInv, TypeOK, HeldWhere, Ends, NoTask, Task
  <2> QED  BY <2>2, <2>4, <2>5, <2>7, <2>8, <2>9 DEF TypeInv, TypeOK
<1>15. CASE Place(c)
  <2>1. Ends(c, "place") /\ doc(c) \in Handle
    BY <1>15, ReleasedAreHandles DEF Place, Ends, TypeInv, TaskWhere
  <2>2. task' \in [Calls -> Task] /\ TaskWhere'
    BY <2>1, <1>a, TaskMoves DEF Ends, Goto, PcValues
  <2>3. /\ UNCHANGED <<pool, sweeps, rows, waiting, lastPending, listed, known, lost, reloads>>
        /\ held' = [held EXCEPT ![c] = NoHandle]
    BY <1>15 DEF Place, Dropped, Kept
  <2>4. closing' \subseteq Handle
    BY <1>15, ReleasedAreHandles DEF Place, Dropped, Releases, TypeInv, TypeOK
  <2>5. sources' \in {sources, [sources EXCEPT ![doc(c)][task[c].file] = held[c]]}
    BY <1>15 DEF Place
  <2>6. sources' \in [Handle -> [Files -> 0..MaxHandles]]
    BY <2>5, <1>b DEF TypeInv, TypeOK
  <2>7. held' \in [Calls -> 0..MaxHandles]
    BY <2>3, TableAssumption DEF TypeInv, TypeOK
  <2>8. HeldWhere'
    BY <2>1, <2>3 DEF TypeInv, TypeOK, HeldWhere, Ends, NoTask, Task
  <2> QED  BY <2>2, <2>3, <2>4, <2>6, <2>7, <2>8 DEF TypeInv, TypeOK
<1>16. CASE Take(c)
  <2>1. /\ task[c].op = "commit" /\ doc(c) \in Handle
        /\ UNCHANGED <<pool, closing, sweeps, rows, sources, lastPending, listed, known, lost, reloads>>
    BY <1>16, ReleasedAreHandles DEF Take
  <2>2. CASE Ends(c, "asked") /\ UNCHANGED <<waiting, held>>
    <3>1. task' \in [Calls -> Task] /\ TaskWhere'
      BY <2>2, <1>a, TaskMoves DEF Ends, Goto
    <3>2. HeldWhere'
      BY <2>2 DEF TypeInv, TypeOK, HeldWhere, Ends, NoTask, Task
    <3> QED  BY <2>1, <2>2, <3>1, <3>2 DEF TypeInv, TypeOK
  <2>3. CASE /\ waiting[doc(c)].id = task[c].id /\ task[c].at = "asked"
             /\ task' = [task EXCEPT ![c].at = "place", ![c].file = waiting[doc(c)].file]
             /\ held' = [held EXCEPT ![c] = waiting[doc(c)].handle]
             /\ waiting' = [waiting EXCEPT ![doc(c)] = NoWaiting]
    <3>1. /\ waiting[doc(c)].file \in Files /\ waiting[doc(c)].handle \in 0..MaxHandles
          /\ waiting[doc(c)].handle # NoHandle
      BY <2>1, <2>3 DEF TypeInv, TypeOK, HeldWhere, TaskWhere, Waiting
    <3>2. \A t \in Task, f \in Files \cup {NoFile} : [t EXCEPT !.at = "place", !.file = f] \in Task
      BY DEF Task, PcValues
    <3>3. task' \in [Calls -> Task]
      BY <2>3, <3>1, <3>2 DEF TypeInv, TypeOK
    <3>4. TaskWhere'
      BY <2>1, <2>3, <3>1 DEF TypeInv, TypeOK, TaskWhere, Task
    <3>5. NoWaiting \in Waiting
      BY TableAssumption DEF NoWaiting, Waiting
    <3>6. waiting' \in [Handle -> Waiting] /\ held' \in [Calls -> 0..MaxHandles]
      BY <2>3, <3>1, <3>5 DEF TypeInv, TypeOK
    <3>7. HeldWhere'
      BY <2>1, <2>3, <3>1 DEF TypeInv, TypeOK, HeldWhere, NoWaiting, Task
    <3> QED  BY <2>1, <3>3, <3>4, <3>6, <3>7 DEF TypeInv, TypeOK
  <2> QED  BY <1>16, <2>2, <2>3 DEF Take, TakenFrom
<1> QED  BY <1>1, <1>2, <1>3, <1>4, <1>5, <1>6, <1>7, <1>8, <1>9, <1>10, <1>11, <1>12,
            <1>13, <1>14, <1>15, <1>16 DEF CommandStep

\* Every step keeps the types.
LEMMA StepKeepsTypes == TypeInv /\ [Next]_vars => TypeInv'
<1> SUFFICES ASSUME TypeInv, [Next]_vars  PROVE TypeInv'
  OBVIOUS
<1>1. ASSUME NEW c \in Calls, PageStep(c) \/ CommandStep(c)  PROVE TypeInv'
  BY <1>1, CallKeepsTypes, CommandKeepsTypes
<1>2. CASE SweepJob \/ \E h \in Handle : CloseJob(h)
  <2>1. UNCHANGED <<table, listed, known, lost, reloads, task, held>>
    BY <1>2 DEF SweepJob, CloseJob
  <2>2. TypeOK'
    BY <1>2, <2>1 DEF SweepJob, CloseJob, TypeInv, TypeOK, table
  <2> QED  BY <2>1, <2>2 DEF TypeInv, TaskWhere, HeldWhere, table
<1>3. CASE UNCHANGED vars
  BY <1>3 DEF TypeInv, TypeOK, TaskWhere, HeldWhere, vars, table
<1> QED  BY <1>1, <1>2, <1>3 DEF Next

-----------------------------------------------------------------------------
\* Owners.

\* An owner is a document, one that keeps it, or a command.
LEMMA OwnedMeans ==
    \A h : /\ Owned(h) <=> h \in rows \/ (\E d \in rows : h \in KeptBy(d)) \/ IsHeld(h)
           /\ Owned(h)' <=> h \in rows' \/ (\E d \in rows' : h \in KeptBy(d)') \/ IsHeld(h)'
BY DEF Owned, IsKept, KeptBy

\* The pools of a document change with its sources and its waiting import only.
LEMMA KeptFrame ==
    /\ UNCHANGED sources => \A d : SourcesOf(d)' = SourcesOf(d)
    /\ UNCHANGED waiting => \A d : WaitingOf(d)' = WaitingOf(d)
BY DEF SourcesOf, WaitingOf

\* Nobody owns anything at the start.
LEMMA InitOwnership == Init => Ownership
<1> SUFFICES ASSUME Init  PROVE Ownership
  OBVIOUS
<1>1. \A d \in Handle : KeptBy(d) = {}
  BY DEF Init, KeptBy, SourcesOf, WaitingOf, NoSources, NoWaiting
<1>2. rows = {} /\ closing = {} /\ known = {} /\ lost = {} /\ \A h \in Handle : pool[h] = "none" /\ ~IsHeld(h)
  BY DEF Init, IsHeld, Handle, NoHandle
<1>3. \A h \in Handle : ~Nameable(h)
  BY <1>2 DEF Init, Nameable, Named, NoTask, doc, Handle
<1>4. \A c \in Calls : held[c] = NoHandle
  BY DEF Init
<1> QED  BY <1>1, <1>2, <1>3, <1>4 DEF Ownership, ClosedIsEmpty, OneOwner, NamedIsDocument,
            ClosedWasOpened, OwnedIsNotClosed, PoolsAreHeld, Owned, IsKept

\* "No pool" is nobody's.
LEMMA NoHandleIsFree ==
    ASSUME TypeOK
    PROVE  NoHandle \notin Handle /\ NoHandle \notin rows /\ \A d \in Handle : NoHandle \notin KeptBy(d)
BY DEF TypeOK, Handle, NoHandle, KeptBy, SourcesOf, WaitingOf

\* Steps that move no pool.
LEMMA FrameKeeps ==
    ASSUME Ownership, UNCHANGED <<pool, closing, sweeps, rows, sources, waiting, held>>,
           \A h \in Handle : Nameable(h)' => Nameable(h)
    PROVE  Ownership'
<1>1. \A d : KeptBy(d)' = KeptBy(d) /\ SourcesOf(d)' = SourcesOf(d) /\ WaitingOf(d)' = WaitingOf(d)
  BY KeptFrame DEF KeptBy
<1>2. \A h : IsHeld(h)' = IsHeld(h)
  BY DEF IsHeld
<1>3. \A h : Owned(h)' <=> Owned(h)
  BY <1>1, <1>2, OwnedMeans
<1>4. OneOwner'
  BY <1>1 DEF Ownership, OneOwner
<1>5. NamedIsDocument'
  BY <1>1, <1>2 DEF Ownership, NamedIsDocument
<1>6. ClosedIsEmpty' /\ ClosedWasOpened'
  BY <1>1 DEF Ownership, ClosedIsEmpty, ClosedWasOpened
<1>7. OwnedIsNotClosed' /\ PoolsAreHeld'
  BY <1>3 DEF Ownership, OwnedIsNotClosed, PoolsAreHeld
<1> QED  BY <1>4, <1>5, <1>6, <1>7 DEF Ownership

\* A command lets its pool go, and its close is sent.
LEMMA DropKeeps ==
    ASSUME TableInv, NEW c \in Calls, Dropped(c),
           UNCHANGED <<pool, sweeps, rows, sources, waiting>>,
           \A h \in Handle : Nameable(h)' => Nameable(h)
    PROVE  Ownership'
<1> USE DEF TableInv, TypeInv, TypeOK, Ownership, Handle, NoHandle
<1>1. \A d : KeptBy(d)' = KeptBy(d) /\ SourcesOf(d)' = SourcesOf(d) /\ WaitingOf(d)' = WaitingOf(d)
  BY KeptFrame DEF KeptBy
<1>2. held' = [held EXCEPT ![c] = 0] /\ closing' = closing \cup ({held[c]} \ {0})
  BY DEF Dropped, Releases
<1>3. \A h \in Handle : IsHeld(h)' <=> IsHeld(h) /\ h # held[c]
  BY <1>2 DEF IsHeld, OneOwner
<1>4. \A h \in Handle : Owned(h)' <=> Owned(h) /\ h # held[c]
  BY <1>1, <1>3, OwnedMeans DEF OneOwner
<1>5. OneOwner'
  BY <1>1, <1>2, NoHandleIsFree DEF OneOwner
<1>6. NamedIsDocument' /\ ClosedIsEmpty'
  BY <1>1, <1>3 DEF NamedIsDocument, ClosedIsEmpty
<1>7. IsHeld(held[c]) /\ (held[c] # 0 => pool[held[c]] # "none")
  BY OwnedMeans DEF IsHeld, OwnedIsNotClosed
<1>8. ClosedWasOpened'
  BY <1>2, <1>7 DEF ClosedWasOpened
<1>9. OwnedIsNotClosed'
  BY <1>2, <1>4 DEF OwnedIsNotClosed
<1>10. PoolsAreHeld'
  BY <1>2, <1>4 DEF PoolsAreHeld
<1> QED  BY <1>5, <1>6, <1>8, <1>9, <1>10

\* A document and what it keeps are closed together.
LEMMA CloseModelKeeps ==
    ASSUME TableInv, NEW d \in Handle, CloseModel(d), Nameable(d),
           UNCHANGED <<pool, sweeps, held>>,
           \A h \in Handle : Nameable(h)' => Nameable(h)
    PROVE  Ownership'
<1> USE DEF TableInv, TypeInv, TypeOK, Ownership
<1>1. /\ rows' = rows \ {d} /\ closing' = closing \cup (Handed(d) \cup {d})
      /\ sources' = [sources EXCEPT ![d] = NoSources]
      /\ waiting' = [waiting EXCEPT ![d] = NoWaiting]
  BY DEF CloseModel, Releases
<1>2. \A e \in Handle : e # d => SourcesOf(e)' = SourcesOf(e) /\ WaitingOf(e)' = WaitingOf(e)
  BY <1>1 DEF SourcesOf, WaitingOf
<1>3. SourcesOf(d)' = {} /\ WaitingOf(d)' = {}
  BY <1>1 DEF SourcesOf, WaitingOf, NoSources, NoWaiting, NoHandle
<1>4. KeptBy(d)' = {} /\ \A e \in Handle : e # d => KeptBy(e)' = KeptBy(e)
  BY <1>2, <1>3 DEF KeptBy
<1>5. Handed(d) = KeptBy(d)
  BY DEF Handed, KeptBy, ClosedIsEmpty
<1>6. \A h : IsHeld(h)' = IsHeld(h)
  BY DEF IsHeld
<1>7. \A h \in Handle : Owned(h)' <=> Owned(h) /\ h # d /\ h \notin KeptBy(d)
  <2> SUFFICES ASSUME NEW h \in Handle
               PROVE  Owned(h)' <=> Owned(h) /\ h # d /\ h \notin KeptBy(d)
    OBVIOUS
  <2>1. Owned(h)' <=> h \in rows' \/ (\E e \in rows' : h \in KeptBy(e)') \/ IsHeld(h)'
    BY OwnedMeans
  <2>2. Owned(h) <=> h \in rows \/ (\E e \in rows : h \in KeptBy(e)) \/ IsHeld(h)
    BY OwnedMeans
  <2>3. h = d => ~IsHeld(h) /\ \A e \in rows : h \notin KeptBy(e)
    BY DEF NamedIsDocument
  <2>4. h \in KeptBy(d) => /\ h \notin rows /\ ~IsHeld(h)
                           /\ \A e \in rows : h \in KeptBy(e) => e = d
    BY DEF OneOwner, IsHeld, ClosedIsEmpty
  <2> QED  BY <1>1, <1>4, <1>6, <2>1, <2>2, <2>3, <2>4
<1>8. OneOwner'
  BY <1>1, <1>2, <1>3, <1>4 DEF OneOwner
<1>9. NamedIsDocument' /\ ClosedIsEmpty'
  BY <1>1, <1>4, <1>6 DEF NamedIsDocument, ClosedIsEmpty
<1>10. ClosedWasOpened'
  BY <1>1, <1>5, OwnedMeans, KeptAreHandles DEF ClosedWasOpened, NamedIsDocument, OwnedIsNotClosed,
     ClosedIsEmpty, KeptBy
<1>11. OwnedIsNotClosed' /\ PoolsAreHeld'
  BY <1>1, <1>5, <1>7 DEF OwnedIsNotClosed, PoolsAreHeld
<1> QED  BY <1>8, <1>9, <1>10, <1>11

\* The service opens a pool for a command.
LEMMA ServiceOpensKeeps ==
    ASSUME TableInv, NEW c \in Calls, ServiceOpens(c)
    PROVE  Ownership'
<1> USE DEF TableInv, TypeInv, TypeOK, Ownership
<1>1. PICK h \in Handle : /\ pool[h] = "none" /\ pool' = [pool EXCEPT ![h] = "open"]
                          /\ held' = [held EXCEPT ![c] = h] /\ task[c].at = "opening"
  BY DEF ServiceOpens, Goto
<1>2. UNCHANGED <<closing, sweeps, rows, sources, waiting, known, lost>>
  BY DEF ServiceOpens, table
<1>3. held[c] = NoHandle
  BY <1>1 DEF HeldWhere
<1>4. \A d : KeptBy(d)' = KeptBy(d) /\ SourcesOf(d)' = SourcesOf(d) /\ WaitingOf(d)' = WaitingOf(d)
  BY <1>2, KeptFrame DEF KeptBy
<1>5. ~Owned(h) /\ h \notin closing /\ ~Nameable(h)
  BY <1>1 DEF OwnedIsNotClosed, ClosedWasOpened, NamedIsDocument
<1>6. \A k \in Handle : IsHeld(k)' <=> IsHeld(k) \/ k = h
  BY <1>1, <1>3 DEF IsHeld, Handle, NoHandle
<1>7. \A k \in Handle : Owned(k)' <=> Owned(k) \/ k = h
  BY <1>2, <1>4, <1>6, OwnedMeans
<1>8. \A k : Nameable(k)' <=> Nameable(k)
  BY <1>2 DEF ServiceOpens, Nameable, Named, Goto, doc, Task
<1>9. OneOwner'
  BY <1>1, <1>2, <1>4, <1>5, OwnedMeans DEF OneOwner, IsHeld
<1>10. NamedIsDocument' /\ ClosedIsEmpty' /\ ClosedWasOpened'
  BY <1>1, <1>2, <1>4, <1>5, <1>6, <1>8 DEF NamedIsDocument, ClosedIsEmpty, ClosedWasOpened
<1>11. OwnedIsNotClosed' /\ PoolsAreHeld'
  BY <1>1, <1>2, <1>5, <1>7 DEF OwnedIsNotClosed, PoolsAreHeld
<1> QED  BY <1>9, <1>10, <1>11

\* open_document: the pool becomes a document.
LEMMA InsertKeeps ==
    ASSUME TableInv, NEW c \in Calls, Insert(c)
    PROVE  Ownership'
<1> USE DEF TableInv, TypeInv, TypeOK, Ownership
<1> DEFINE h == held[c]
<1>1. /\ rows' = rows \cup {h} /\ known' \subseteq known \cup {h}
      /\ lost' \subseteq lost \cup {h}
      /\ held' = [held EXCEPT ![c] = NoHandle] /\ task[c].at = "insert"
      /\ UNCHANGED <<pool, closing, sweeps, sources, waiting>>
  BY DEF Insert, Kept, Ends
<1>2. h \in Handle /\ IsHeld(h)
  BY <1>1, ReleasedAreHandles DEF HeldWhere, IsHeld
<1>3. \A d : KeptBy(d)' = KeptBy(d) /\ SourcesOf(d)' = SourcesOf(d) /\ WaitingOf(d)' = WaitingOf(d)
  BY <1>1, KeptFrame DEF KeptBy
<1>4. h \notin rows /\ KeptBy(h) = {} /\ \A d \in rows : h \notin KeptBy(d)
  BY <1>2 DEF OneOwner, ClosedIsEmpty
<1>5. \A k \in Handle : IsHeld(k)' <=> IsHeld(k) /\ k # h
  BY <1>1 DEF IsHeld, OneOwner, Handle, NoHandle
<1>6. \A k \in Handle : Owned(k)' <=> Owned(k)
  BY <1>1, <1>2, <1>3, <1>4, <1>5, OwnedMeans
<1>7. \A k \in Handle : Nameable(k)' => Nameable(k) \/ k = h
  BY <1>1 DEF Insert, Ends, NoTask, Nameable, Named, doc, Handle
<1>8. OneOwner'
  <2>1. SourcesOf(h) = {} /\ h # NoHandle
    BY <1>2, <1>4, NoHandleIsFree DEF KeptBy
  <2>2. \A e \in Calls : held'[e] \notin rows' /\ \A d \in rows' : held'[e] \notin KeptBy(d)'
    BY <1>1, <1>2, <1>3, <1>4, <2>1, NoHandleIsFree DEF OneOwner
  <2>3. \A k, d \in rows' : k \notin KeptBy(d)'
    BY <1>1, <1>3, <1>4 DEF OneOwner
  <2>4. \A d, e \in rows', k \in Handle : k \in KeptBy(d)' /\ k \in KeptBy(e)' => d = e
    BY <1>1, <1>3, <1>4 DEF OneOwner
  <2>5. \A d \in rows', k \in Handle : ~(k \in SourcesOf(d)' /\ k \in WaitingOf(d)')
    BY <1>1, <1>3, <2>1 DEF OneOwner
  <2> QED  BY <1>1, <2>2, <2>3, <2>4, <2>5 DEF OneOwner
<1>9. pool[h] # "none"
  BY <1>2, OwnedMeans DEF OwnedIsNotClosed
<1>10. NamedIsDocument' /\ ClosedIsEmpty' /\ ClosedWasOpened'
  BY <1>1, <1>3, <1>4, <1>5, <1>7, <1>9 DEF NamedIsDocument, ClosedIsEmpty, ClosedWasOpened
<1>11. OwnedIsNotClosed' /\ PoolsAreHeld'
  BY <1>1, <1>6 DEF OwnedIsNotClosed, PoolsAreHeld
<1> QED  BY <1>8, <1>10, <1>11

\* page_import_prepare: the pool waits with the document, and the one that
\* waited before is closed.
LEMMA PrepareKeeps ==
    ASSUME TableInv, NEW c \in Calls, Ends(c, "prepare"), Kept(c),
           NEW d, d = doc(c), d \in rows, NEW h, h = held[c], NEW i, NEW f,
           NEW W, W = WaitingOf(d), Releases(W), UNCHANGED <<pool, sweeps, rows, sources, known>>,
           waiting' = [waiting EXCEPT ![d] = [id |-> i, handle |-> h, file |-> f]],
           \A g \in Handle : Nameable(g)' => Nameable(g)
    PROVE  Ownership'
<1> USE DEF TableInv, TypeInv, TypeOK, Ownership
<1>1. h \in Handle /\ h # NoHandle /\ IsHeld(h) /\ d \in Handle
  BY ReleasedAreHandles, NoHandleIsFree DEF HeldWhere, IsHeld, Ends
<1>2. /\ held' = [held EXCEPT ![c] = NoHandle] /\ closing' = closing \cup W
  BY DEF Kept, Releases
<1>3. \A e : SourcesOf(e)' = SourcesOf(e)
  BY KeptFrame
<1>4. WaitingOf(d)' = {h} /\ \A e \in Handle : e # d => WaitingOf(e)' = WaitingOf(e)
  BY <1>1 DEF WaitingOf
<1>5. /\ KeptBy(d)' = SourcesOf(d) \cup {h}
      /\ \A e \in Handle : e # d => KeptBy(e)' = KeptBy(e)
  BY <1>3, <1>4 DEF KeptBy
<1>6. KeptBy(d) = SourcesOf(d) \cup W /\ SourcesOf(d) \cap W = {} /\ W \subseteq Handle
  BY <1>1, KeptAreHandles DEF KeptBy, OneOwner
<1>7. \A k \in Handle : IsHeld(k)' <=> IsHeld(k) /\ k # h
  BY <1>1, <1>2, NoHandleIsFree DEF IsHeld, OneOwner
<1>8. h \notin rows /\ \A e \in rows : h \notin KeptBy(e)
  BY <1>1 DEF OneOwner
<1>9. \A k \in W : k \notin rows /\ ~IsHeld(k) /\ \A e \in rows : k \in KeptBy(e) => e = d
  BY <1>6 DEF OneOwner, IsHeld
<1>10. \A k \in Handle : Owned(k)' <=> Owned(k) /\ k \notin W
  <2> SUFFICES ASSUME NEW k \in Handle  PROVE Owned(k)' <=> Owned(k) /\ k \notin W
    OBVIOUS
  <2>1. Owned(k)' <=> k \in rows \/ (\E e \in rows : k \in KeptBy(e)') \/ IsHeld(k)'
    BY OwnedMeans
  <2>2. Owned(k) <=> k \in rows \/ (\E e \in rows : k \in KeptBy(e)) \/ IsHeld(k)
    BY OwnedMeans
  <2> QED  BY <1>1, <1>5, <1>6, <1>7, <1>8, <1>9, <2>1, <2>2
<1>11. OneOwner'
  <2>1. \A e \in Calls : held'[e] \notin rows' /\ \A g \in rows' : held'[e] \notin KeptBy(g)'
    BY <1>1, <1>2, <1>5, <1>6, NoHandleIsFree DEF OneOwner
  <2>2. \A k, g \in rows' : k \notin KeptBy(g)'
    BY <1>5, <1>6, <1>8 DEF OneOwner
  <2>3. \A g, e \in rows', k \in Handle : k \in KeptBy(g)' /\ k \in KeptBy(e)' => g = e
    BY <1>5, <1>6, <1>8 DEF OneOwner
  <2>4. \A g \in rows', k \in Handle : ~(k \in SourcesOf(g)' /\ k \in WaitingOf(g)')
    BY <1>3, <1>4, <1>6, <1>8 DEF OneOwner
  <2>5. \A e, g \in Calls : held'[e] # NoHandle /\ held'[e] = held'[g] => e = g
    BY <1>2 DEF OneOwner
  <2> QED  BY <2>1, <2>2, <2>3, <2>4, <2>5 DEF OneOwner
<1>12. ~Nameable(h)
  BY <1>1 DEF NamedIsDocument
<1>13. NamedIsDocument' /\ ClosedIsEmpty'
  <2>1. ASSUME NEW k \in Handle, Nameable(k)'
        PROVE  pool'[k] # "none" /\ ~IsHeld(k)' /\ \A e \in rows' : k \notin KeptBy(e)'
    <3>1. Nameable(k) /\ k # h
      BY <1>12, <2>1
    <3>2. pool[k] # "none" /\ ~IsHeld(k) /\ \A e \in rows : k \notin KeptBy(e)
      BY <3>1 DEF NamedIsDocument
    <3> QED  BY <1>5, <1>6, <1>7, <3>1, <3>2
  <2>2. ClosedIsEmpty'
    BY <1>5 DEF ClosedIsEmpty
  <2> QED  BY <2>1, <2>2 DEF NamedIsDocument
<1>14. ClosedWasOpened'
  BY <1>2, <1>6, OwnedMeans DEF ClosedWasOpened, OwnedIsNotClosed
<1>15. OwnedIsNotClosed' /\ PoolsAreHeld'
  BY <1>2, <1>6, <1>10 DEF OwnedIsNotClosed, PoolsAreHeld
<1> QED  BY <1>11, <1>13, <1>14, <1>15

\* commit_import: what waited is the command's.
LEMMA TakeKeeps ==
    ASSUME TableInv, NEW c \in Calls, task[c].at = "asked", task[c].op = "commit",
           NEW d, d = doc(c), d \in rows, waiting[d].id = task[c].id,
           NEW h, h = waiting[d].handle,
           held' = [held EXCEPT ![c] = h], waiting' = [waiting EXCEPT ![d] = NoWaiting],
           UNCHANGED <<pool, closing, sweeps, rows, sources, known>>,
           \A g \in Handle : Nameable(g)' => Nameable(g)
    PROVE  Ownership'
<1> USE DEF TableInv, TypeInv, TypeOK, Ownership
<1>1. h \in Handle /\ h # NoHandle /\ d \in Handle /\ held[c] = NoHandle /\ WaitingOf(d) = {h}
  <2>1. d \in Handle /\ waiting[d] \in Waiting /\ task[c].id # 0
    BY DEF TaskWhere
  <2>2. h \in 0..MaxHandles /\ h # NoHandle
    BY <2>1 DEF HeldWhere, Waiting
  <2>3. held[c] = NoHandle
    BY DEF HeldWhere
  <2> QED  BY <2>1, <2>2, <2>3, TableAssumption DEF WaitingOf, Handle, NoHandle
<1>2. \A e : SourcesOf(e)' = SourcesOf(e)
  BY KeptFrame
<1>3. WaitingOf(d)' = {} /\ \A e \in Handle : e # d => WaitingOf(e)' = WaitingOf(e)
  BY <1>1 DEF WaitingOf, NoWaiting
<1>4. /\ KeptBy(d)' = KeptBy(d) \ {h} /\ h \in KeptBy(d)
      /\ \A e \in Handle : e # d => KeptBy(e)' = KeptBy(e)
  BY <1>1, <1>2, <1>3 DEF KeptBy, OneOwner
<1>5. h \notin rows /\ ~IsHeld(h) /\ \A e \in rows : h \in KeptBy(e) => e = d
  BY <1>1, <1>4 DEF OneOwner, IsHeld
<1>6. \A k \in Handle : IsHeld(k)' <=> IsHeld(k) \/ k = h
  BY <1>1, NoHandleIsFree DEF IsHeld
<1>7. \A k \in Handle : Owned(k)' <=> Owned(k)
  <2> SUFFICES ASSUME NEW k \in Handle  PROVE Owned(k)' <=> Owned(k)
    OBVIOUS
  <2>1. Owned(k)' <=> k \in rows \/ (\E e \in rows : k \in KeptBy(e)') \/ IsHeld(k)'
    BY OwnedMeans
  <2>2. Owned(k) <=> k \in rows \/ (\E e \in rows : k \in KeptBy(e)) \/ IsHeld(k)
    BY OwnedMeans
  <2> QED  BY ZenonT(30), <1>1, <1>4, <1>5, <1>6, <2>1, <2>2
<1>8. OneOwner'
  <2>1. \A e \in Calls : held'[e] \notin rows' /\ \A g \in rows' : held'[e] \notin KeptBy(g)'
    BY <1>1, <1>4, <1>5 DEF OneOwner
  <2>2. \A k, g \in rows' : k \notin KeptBy(g)'
    BY SMTT(30), <1>4 DEF OneOwner
  <2>3. \A g, e \in rows', k \in Handle : k \in KeptBy(g)' /\ k \in KeptBy(e)' => g = e
    BY <1>4 DEF OneOwner
  <2>4. \A g \in rows', k \in Handle : ~(k \in SourcesOf(g)' /\ k \in WaitingOf(g)')
    BY <1>2, <1>3 DEF OneOwner
  <2>5. \A e, g \in Calls : held'[e] # NoHandle /\ held'[e] = held'[g] => e = g
    BY <1>5 DEF OneOwner, IsHeld
  <2> QED  BY <2>1, <2>2, <2>3, <2>4, <2>5 DEF OneOwner
<1>9. ~Nameable(h)
  BY <1>1, <1>4 DEF NamedIsDocument
<1>10. NamedIsDocument' /\ ClosedIsEmpty' /\ ClosedWasOpened'
  <2>1. ASSUME NEW k \in Handle, Nameable(k)'
        PROVE  pool'[k] # "none" /\ ~IsHeld(k)' /\ \A e \in rows' : k \notin KeptBy(e)'
    <3>1. Nameable(k) /\ k # h
      BY <1>9, <2>1
    <3>2. pool[k] # "none" /\ ~IsHeld(k) /\ \A e \in rows : k \notin KeptBy(e)
      BY <3>1 DEF NamedIsDocument
    <3> QED  BY <1>4, <1>6, <3>1, <3>2
  <2>2. ClosedIsEmpty' /\ ClosedWasOpened'
    BY <1>4 DEF ClosedIsEmpty, ClosedWasOpened
  <2> QED  BY <2>1, <2>2 DEF NamedIsDocument
<1>11. OwnedIsNotClosed' /\ PoolsAreHeld'
  BY <1>7 DEF OwnedIsNotClosed, PoolsAreHeld
<1> QED  BY <1>8, <1>10, <1>11

\* Edits::import: the pool stays with the document as that of its file.
LEMMA PlaceKeeps ==
    ASSUME TableInv, NEW c \in Calls, task[c].at = "place", Kept(c),
           NEW d, d \in rows, NEW h, h = held[c], NEW f \in Files, sources[d][f] = NoHandle,
           sources' = [sources EXCEPT ![d][f] = h],
           UNCHANGED <<pool, closing, sweeps, rows, waiting, known>>,
           \A k \in Handle : Nameable(k)' => Nameable(k)
    PROVE  Ownership'
<1> USE DEF TableInv, TypeInv, TypeOK, Ownership
<1>1. h \in Handle /\ h # NoHandle /\ IsHeld(h) /\ d \in Handle
  BY ReleasedAreHandles, NoHandleIsFree DEF HeldWhere, IsHeld
<1>2. held' = [held EXCEPT ![c] = NoHandle] /\ \A e : WaitingOf(e)' = WaitingOf(e)
  BY KeptFrame DEF Kept
<1>3. /\ SourcesOf(d)' = SourcesOf(d) \cup {h}
      /\ \A e \in Handle : e # d => SourcesOf(e)' = SourcesOf(e)
  BY <1>1 DEF SourcesOf
<1>4. /\ KeptBy(d)' = KeptBy(d) \cup {h}
      /\ \A e \in Handle : e # d => KeptBy(e)' = KeptBy(e)
  BY <1>2, <1>3 DEF KeptBy
<1>5. \A k \in Handle : IsHeld(k)' <=> IsHeld(k) /\ k # h
  BY <1>1, <1>2, NoHandleIsFree DEF IsHeld, OneOwner
<1>6. h \notin rows /\ \A e \in rows : h \notin KeptBy(e)
  BY <1>1 DEF OneOwner
<1>7. \A k \in Handle : Owned(k)' <=> Owned(k)
  <2> SUFFICES ASSUME NEW k \in Handle  PROVE Owned(k)' <=> Owned(k)
    OBVIOUS
  <2>1. Owned(k)' <=> k \in rows \/ (\E e \in rows : k \in KeptBy(e)') \/ IsHeld(k)'
    BY OwnedMeans
  <2>2. Owned(k) <=> k \in rows \/ (\E e \in rows : k \in KeptBy(e)) \/ IsHeld(k)
    BY OwnedMeans
  <2> QED  BY <1>1, <1>4, <1>5, <1>6, <2>1, <2>2
<1>8. OneOwner'
  <2>1. \A e \in Calls : held'[e] \notin rows' /\ \A g \in rows' : held'[e] \notin KeptBy(g)'
    BY <1>1, <1>2, <1>4, NoHandleIsFree DEF OneOwner
  <2>2. \A k, g \in rows' : k \notin KeptBy(g)'
    BY <1>4, <1>6 DEF OneOwner
  <2>3. \A g, e \in rows', k \in Handle : k \in KeptBy(g)' /\ k \in KeptBy(e)' => g = e
    BY <1>4, <1>6 DEF OneOwner
  <2>4. h \notin WaitingOf(d)
    BY <1>6 DEF KeptBy
  <2>5. \A g \in rows', k \in Handle : ~(k \in SourcesOf(g)' /\ k \in WaitingOf(g)')
    BY <1>2, <1>3, <2>4 DEF OneOwner
  <2>6. \A e, g \in Calls : held'[e] # NoHandle /\ held'[e] = held'[g] => e = g
    BY <1>2 DEF OneOwner
  <2> QED  BY <2>1, <2>2, <2>3, <2>5, <2>6 DEF OneOwner
<1>9. ~Nameable(h)
  BY <1>1 DEF NamedIsDocument
<1>10. NamedIsDocument'
  <2>1. ASSUME NEW k \in Handle, Nameable(k)'
        PROVE  pool'[k] # "none" /\ ~IsHeld(k)' /\ \A e \in rows' : k \notin KeptBy(e)'
    <3>1. Nameable(k) /\ k # h
      BY <1>9, <2>1
    <3>2. pool[k] # "none" /\ ~IsHeld(k) /\ \A e \in rows : k \notin KeptBy(e)
      BY <3>1 DEF NamedIsDocument
    <3> QED  BY <1>4, <1>5, <3>1, <3>2
  <2> QED  BY <2>1 DEF NamedIsDocument
<1>11. ClosedIsEmpty' /\ ClosedWasOpened'
  BY <1>4 DEF ClosedIsEmpty, ClosedWasOpened
<1>12. OwnedIsNotClosed' /\ PoolsAreHeld'
  BY <1>7 DEF OwnedIsNotClosed, PoolsAreHeld
<1> QED  BY <1>8, <1>10, <1>11, <1>12

\* Edits::cancel_import: the pool that waited is closed.
LEMMA CancelKeeps ==
    ASSUME TableInv, NEW d \in rows, NEW W, W = WaitingOf(d), Releases(W),
           waiting' = [waiting EXCEPT ![d] = NoWaiting],
           UNCHANGED <<pool, sweeps, rows, sources, known, held>>,
           \A k \in Handle : Nameable(k)' => Nameable(k)
    PROVE  Ownership'
<1> USE DEF TableInv, TypeInv, TypeOK, Ownership
<1>1. d \in Handle /\ closing' = closing \cup W /\ \A k : IsHeld(k)' = IsHeld(k)
  BY DEF Releases, IsHeld
<1>2. \A e : SourcesOf(e)' = SourcesOf(e)
  BY KeptFrame
<1>3. WaitingOf(d)' = {} /\ \A e \in Handle : e # d => WaitingOf(e)' = WaitingOf(e)
  BY <1>1 DEF WaitingOf, NoWaiting
<1>4. KeptBy(d) = SourcesOf(d) \cup W /\ SourcesOf(d) \cap W = {} /\ W \subseteq Handle
  BY <1>1, KeptAreHandles DEF KeptBy, OneOwner
<1>5. KeptBy(d)' = KeptBy(d) \ W /\ \A e \in Handle : e # d => KeptBy(e)' = KeptBy(e)
  BY <1>2, <1>3, <1>4 DEF KeptBy
<1>6. \A k \in W : k \notin rows /\ ~IsHeld(k) /\ \A e \in rows : k \in KeptBy(e) => e = d
  BY <1>4 DEF OneOwner, IsHeld
<1>7. \A k \in Handle : Owned(k)' <=> Owned(k) /\ k \notin W
  <2> SUFFICES ASSUME NEW k \in Handle  PROVE Owned(k)' <=> Owned(k) /\ k \notin W
    OBVIOUS
  <2>1. Owned(k)' <=> k \in rows \/ (\E e \in rows : k \in KeptBy(e)') \/ IsHeld(k)'
    BY OwnedMeans
  <2>2. Owned(k) <=> k \in rows \/ (\E e \in rows : k \in KeptBy(e)) \/ IsHeld(k)
    BY OwnedMeans
  <2> QED  BY <1>1, <1>5, <1>6, <2>1, <2>2
<1>8. OneOwner'
  <2>1. \A e \in Handle : KeptBy(e)' \subseteq KeptBy(e) /\ WaitingOf(e)' \subseteq WaitingOf(e)
    BY <1>3, <1>5
  <2> QED  BY <1>2, <2>1 DEF OneOwner
<1>9. NamedIsDocument' /\ ClosedIsEmpty'
  <2>1. ASSUME NEW k \in Handle, Nameable(k)'
        PROVE  pool'[k] # "none" /\ ~IsHeld(k)' /\ \A e \in rows' : k \notin KeptBy(e)'
    <3>1. pool[k] # "none" /\ ~IsHeld(k) /\ \A e \in rows : k \notin KeptBy(e)
      BY <2>1 DEF NamedIsDocument
    <3> QED  BY <1>1, <1>5, <3>1
  <2>2. ClosedIsEmpty'
    BY <1>5 DEF ClosedIsEmpty
  <2> QED  BY <2>1, <2>2 DEF NamedIsDocument
<1>10. ClosedWasOpened'
  BY <1>1, <1>4, OwnedMeans DEF ClosedWasOpened, OwnedIsNotClosed
<1>11. OwnedIsNotClosed' /\ PoolsAreHeld'
  BY <1>1, <1>7 DEF OwnedIsNotClosed, PoolsAreHeld
<1> QED  BY <1>8, <1>9, <1>10, <1>11

\* release_documents: nothing is anybody's but what the commands hold.
LEMMA ReleaseKeeps ==
    ASSUME TableInv, rows' = {}, sweeps' = sweeps + 1,
           sources' = [d \in Handle |-> NoSources], waiting' = [d \in Handle |-> NoWaiting],
           UNCHANGED <<pool, closing, known, held>>,
           \A k \in Handle : Nameable(k)' => Nameable(k)
    PROVE  Ownership'
<1> USE DEF TableInv, TypeInv, TypeOK, Ownership
<1>1. \A d \in Handle : KeptBy(d)' = {}
  BY DEF KeptBy, SourcesOf, WaitingOf, NoSources, NoWaiting, NoHandle
<1>2. \A k : IsHeld(k)' = IsHeld(k)
  BY DEF IsHeld
<1>3. \A k \in Handle : Owned(k)' => Owned(k)
  BY <1>2, OwnedMeans
<1>4. OneOwner'
  BY DEF OneOwner
<1>5. NamedIsDocument' /\ ClosedIsEmpty' /\ ClosedWasOpened'
  BY <1>1, <1>2 DEF NamedIsDocument, ClosedIsEmpty, ClosedWasOpened
<1>6. sweeps' > 0
  OBVIOUS
<1>7. OwnedIsNotClosed' /\ PoolsAreHeld'
  BY <1>3, <1>6 DEF OwnedIsNotClosed, PoolsAreHeld
<1> QED  BY <1>4, <1>5, <1>7

\* The service closes what nobody owns, or sweeps what it has open.
LEMMA JobsKeep ==
    ASSUME TableInv, SweepJob \/ \E h \in Handle : CloseJob(h)
    PROVE  Ownership'
<1> USE DEF TableInv, TypeInv, TypeOK, Ownership
<1>1. UNCHANGED <<rows, sources, waiting, known, lost, task, held>>
  BY DEF SweepJob, CloseJob, table
<1>2. \A d : KeptBy(d)' = KeptBy(d) /\ SourcesOf(d)' = SourcesOf(d) /\ WaitingOf(d)' = WaitingOf(d)
  BY <1>1, KeptFrame DEF KeptBy
<1>3. \A h : IsHeld(h)' = IsHeld(h) /\ Nameable(h)' = Nameable(h)
  BY <1>1 DEF IsHeld, Nameable, Named, doc
<1>4. \A h : Owned(h)' <=> Owned(h)
  BY <1>1, <1>2, <1>3, OwnedMeans
<1>5. OneOwner' /\ ClosedIsEmpty'
  BY <1>1, <1>2 DEF OneOwner, ClosedIsEmpty
<1>6. \A h \in Handle : pool[h] # "none" => pool'[h] # "none"
  BY DEF SweepJob, CloseJob
<1>7. closing' \subseteq closing
  BY DEF SweepJob, CloseJob
<1>8. NamedIsDocument' /\ ClosedWasOpened'
  BY <1>1, <1>2, <1>3, <1>6, <1>7 DEF NamedIsDocument, ClosedWasOpened
<1>9. OwnedIsNotClosed'
  BY <1>4, <1>7 DEF OwnedIsNotClosed, SweepJob, CloseJob
<1>10. PoolsAreHeld'
  BY <1>4 DEF PoolsAreHeld, SweepJob, CloseJob
<1> QED  BY <1>5, <1>8, <1>9, <1>10
-----------------------------------------------------------------------------
\* Steps.

\* What can be named can be forgotten, and only an open names more.
LEMMA NameableStays ==
    ASSUME TypeInv, NEW c \in Calls, PageStep(c) \/ (CommandStep(c) /\ ~Insert(c))
    PROVE  /\ \A h \in Handle : Named(h)' => Named(h)
           /\ \A h \in Handle : Nameable(h)' => Nameable(h)
<1> USE DEF TypeInv, TypeOK
<1> SUFFICES \A h \in Handle : Named(h)' => Named(h)
  <2>1. lost' = lost
    BY DEF PageStep, CallOpen, CallPrepare, CallOnImport, CallClose, CallSave, CallLinks,
       Reload, Called, CommandStep, ServiceOpens, ServiceRefuses, CheckOpen, Vet, Prepare,
       Take, Place, Cancel, Close, Plan, Stage, Land, ReadLinks, Adopt, Release
  <2> QED  BY <2>1 DEF Nameable
<1>1. CASE PageStep(c)
  <2>1. PICK what, d, i, f :
            /\ Called(c, what, d, i, f)
            /\ what # "links" => d \in known \cup {0}
    BY <1>1 DEF PageStep, CallOpen, CallPrepare, CallOnImport, CallClose, CallSave,
       CallLinks, Reload
  <2>2. known' \subseteq known
    BY <1>1 DEF PageStep, CallOpen, CallPrepare, CallOnImport, CallClose, CallSave,
       CallLinks, Reload
  <2>3. /\ task'[c].op = what /\ task'[c].doc = d
        /\ \A e \in Calls \ {c} : task'[e] = task[e]
    BY <2>1 DEF Called
  <2> QED  BY <2>1, <2>2, <2>3 DEF Named, doc, Handle
<1>2. CASE CommandStep(c) /\ ~Insert(c)
  <2>1. known' \subseteq known
    BY <1>2 DEF CommandStep, ServiceOpens, ServiceRefuses, CheckOpen, Vet, Prepare, Take,
       Place, Cancel, Close, Plan, Stage, Land, ReadLinks, Adopt, Release
  <2>2. \/ \E to : task' = [task EXCEPT ![c].at = to]
        \/ \E to, f : task' = [task EXCEPT ![c].at = to, ![c].file = f]
        \/ task' = [task EXCEPT ![c] = NoTask]
    <3>1. CASE ServiceOpens(c)
      <4>1. task' = [task EXCEPT ![c].at = IF task[c].op = "open" THEN "insert" ELSE "vet"]
        BY <3>1 DEF ServiceOpens, Goto
      <4> QED  BY <4>1
    <3>4. CASE Take(c)
      <4>1. \/ task' = [task EXCEPT ![c].at = "place", ![c].file = waiting[doc(c)].file]
            \/ task' = [task EXCEPT ![c] = NoTask]
        BY <3>4 DEF Take, Ends
      <4> QED  BY <4>1
    <3>2. CASE ServiceRefuses(c) \/ CheckOpen(c) \/ Vet(c) \/ Prepare(c) \/ Place(c)
      BY <3>2 DEF ServiceRefuses, CheckOpen, Vet, Prepare, Place, Goto, Ends
    <3>3. CASE \/ Cancel(c) \/ Close(c) \/ Plan(c) \/ Stage(c) \/ Land(c)
               \/ ReadLinks(c) \/ Adopt(c) \/ Release(c)
      BY <3>3 DEF Cancel, Close, Plan, Stage, Land, ReadLinks, Adopt, Release, Goto, Ends
    <3> QED  BY <1>2, <3>1, <3>2, <3>3, <3>4 DEF CommandStep
  <2>3. \A t \in Task : \A to, f :
            /\ [t EXCEPT !.at = to].op = t.op /\ [t EXCEPT !.at = to].doc = t.doc
            /\ [t EXCEPT !.at = to, !.file = f].op = t.op
            /\ [t EXCEPT !.at = to, !.file = f].doc = t.doc
    BY DEF Task
  <2>4. /\ (task'[c].op = task[c].op /\ task'[c].doc = task[c].doc) \/ task'[c].doc = 0
        /\ \A e \in Calls \ {c} : task'[e] = task[e]
    <3>1. CASE task' = [task EXCEPT ![c] = NoTask]
      BY <3>1 DEF NoTask
    <3>2. ASSUME NEW to, task' = [task EXCEPT ![c].at = to]
          PROVE  task'[c].op = task[c].op /\ task'[c].doc = task[c].doc
      <4>1. task'[c] = [task[c] EXCEPT !.at = to] /\ task[c] \in Task
        BY <3>2
      <4> QED  BY <4>1, <2>3
    <3>3. ASSUME NEW to, NEW f, task' = [task EXCEPT ![c].at = to, ![c].file = f]
          PROVE  task'[c].op = task[c].op /\ task'[c].doc = task[c].doc
      <4>1. task'[c] = [task[c] EXCEPT !.at = to, !.file = f] /\ task[c] \in Task
        BY <3>3
      <4> QED  BY <4>1, <2>3
    <3>4. \A e \in Calls \ {c} : task'[e] = task[e]
      BY <2>2
    <3> QED  BY <2>2, <3>1, <3>2, <3>3, <3>4
  <2>5. ASSUME NEW h \in Handle, NEW e \in Calls, task'[e].doc = h, task'[e].op # "links"
        PROVE  Named(h)
    <3>1. CASE e = c
      BY <2>4, <2>5, <3>1 DEF Named, doc, Handle
    <3>2. CASE e # c
      BY <2>4, <2>5, <3>2 DEF Named, doc
    <3> QED  BY <3>1, <3>2
  <2> QED  BY <2>1, <2>5 DEF Named, doc
<1> QED  BY <1>1, <1>2

\* A page that sends a command moves no pool.
LEMMA CallKeeps ==
    ASSUME TableInv, NEW c \in Calls, PageStep(c)
    PROVE  Ownership'
<1>1. UNCHANGED <<pool, closing, sweeps, rows, sources, waiting, held>>
  BY DEF PageStep, CallOpen, CallPrepare, CallOnImport, CallClose, CallSave, CallLinks,
     Reload, Called, table
<1> QED  BY <1>1, NameableStays, FrameKeeps DEF TableInv

\* Each command hands its pool on, gives it up, or moves none.
LEMMA CommandKeeps ==
    ASSUME TableInv, NEW c \in Calls, CommandStep(c)
    PROVE  Ownership'
<1> USE DEF table
<1>1. CASE ServiceOpens(c)
  BY <1>1, ServiceOpensKeeps
<1>2. CASE Insert(c)
  BY <1>2, InsertKeeps
<1> SUFFICES ASSUME ~Insert(c)  PROVE Ownership'
  BY <1>2
<1>3. \A h \in Handle : Nameable(h)' => Nameable(h)
  BY NameableStays DEF TableInv
<1>4. CASE ServiceRefuses(c) \/ CheckOpen(c) \/ Plan(c) \/ Land(c) \/ ReadLinks(c) \/ Adopt(c)
  <2>1. UNCHANGED <<pool, closing, sweeps, rows, sources, waiting, held>>
    BY <1>4 DEF ServiceRefuses, CheckOpen, Plan, Land, ReadLinks, Adopt
  <2> QED  BY <1>3, <2>1, FrameKeeps DEF TableInv
<1>5. CASE Vet(c)
  <2>1. CASE UNCHANGED <<closing, held>>
    BY <1>3, <1>5, <2>1, FrameKeeps DEF Vet, TableInv
  <2>2. CASE Dropped(c)
    BY <1>3, <1>5, <2>2, DropKeeps DEF Vet
  <2> QED  BY <1>5, <2>1, <2>2 DEF Vet
<1>6. CASE Prepare(c)
  <2>1. CASE Dropped(c) /\ UNCHANGED <<waiting, lastPending>>
    BY <1>3, <1>6, <2>1, DropKeeps DEF Prepare
  <2>2. CASE /\ doc(c) \in rows /\ Releases(Replaced(doc(c))) /\ Kept(c)
             /\ waiting' = [waiting EXCEPT ![doc(c)] =
                   [id |-> lastPending + 1, handle |-> held[c], file |-> task[c].file]]
    <3>1. Ends(c, "prepare") /\ UNCHANGED <<pool, sweeps, rows, sources, known>>
      BY <1>6 DEF Prepare
    <3>2. Releases(WaitingOf(doc(c)))
      BY <2>2 DEF Replaced
    <3> QED  BY <1>3, <2>2, <3>1, <3>2, PrepareKeeps
  <2> QED  BY <1>6, <2>1, <2>2 DEF Prepare
<1>7. CASE Take(c)
  <2>1. CASE UNCHANGED <<waiting, held>>
    BY <1>3, <1>7, <2>1, FrameKeeps DEF Take, TableInv
  <2>2. CASE /\ doc(c) \in rows /\ waiting[doc(c)].id = task[c].id /\ task[c].at = "asked"
             /\ held' = [held EXCEPT ![c] = waiting[doc(c)].handle]
             /\ waiting' = [waiting EXCEPT ![doc(c)] = TakenFrom(doc(c))]
    <3>1. task[c].op = "commit" /\ UNCHANGED <<pool, closing, sweeps, rows, sources, known>>
      BY <1>7 DEF Take
    <3>2. waiting' = [waiting EXCEPT ![doc(c)] = NoWaiting]
      BY <2>2 DEF TakenFrom
    <3> QED  BY <1>3, <2>2, <3>1, <3>2, TakeKeeps
  <2> QED  BY <1>7, <2>1, <2>2 DEF Take
<1>8. CASE Place(c)
  <2>1. /\ task[c].at = "place" /\ UNCHANGED <<pool, sweeps, rows, waiting, known>>
        /\ task[c].file \in Files
    BY <1>8 DEF Place, Ends, TableInv, TypeInv, TaskWhere
  <2>2. CASE Dropped(c) /\ UNCHANGED sources
    BY <1>3, <2>1, <2>2, DropKeeps
  <2>3. CASE /\ doc(c) \in rows /\ sources[doc(c)][task[c].file] = NoHandle
             /\ sources' = [sources EXCEPT ![doc(c)][task[c].file] = held[c]]
             /\ Kept(c) /\ UNCHANGED closing
    BY <1>3, <2>1, <2>3, PlaceKeeps
  <2> QED  BY <1>8, <2>2, <2>3 DEF Place
<1>9. CASE Cancel(c)
  <2>1. UNCHANGED <<pool, sweeps, rows, sources, known, held>>
    BY <1>9 DEF Cancel
  <2>2. CASE UNCHANGED <<closing, waiting>>
    BY <1>3, <2>1, <2>2, FrameKeeps DEF TableInv
  <2>3. CASE /\ doc(c) \in rows /\ Releases(WaitingOf(doc(c)))
             /\ waiting' = [waiting EXCEPT ![doc(c)] = NoWaiting]
    BY <1>3, <2>1, <2>3, CancelKeeps
  <2> QED  BY <1>9, <2>2, <2>3 DEF Cancel
<1>10. CASE Close(c) \/ Stage(c)
  <2>1. UNCHANGED <<pool, sweeps, held>>
    BY <1>10 DEF Close, Stage
  <2>2. CASE UNCHANGED <<closing, rows, sources, waiting, listed>>
    BY <1>3, <2>1, <2>2, FrameKeeps DEF TableInv
  <2>3. CASE CloseModel(doc(c))
    <3>1. task[c].op \in {"close", "save"}
      BY <1>10 DEF Close, Stage, Goto, Ends, TableInv, TypeInv, TaskWhere
    <3>2. doc(c) \in Handle /\ Nameable(doc(c))
      BY <3>1, ReleasedAreHandles DEF TableInv, Nameable, Named
    <3> QED  BY <1>3, <2>1, <2>3, <3>2, CloseModelKeeps
  <2> QED  BY <1>10, <2>2, <2>3 DEF Close, Stage
<1>11. CASE Release(c)
  BY <1>3, <1>11, ReleaseKeeps DEF Release
<1> QED  BY <1>1, <1>4, <1>5, <1>6, <1>7, <1>8, <1>9, <1>10, <1>11 DEF CommandStep

\* The invariant is inductive.
LEMMA StepKeeps == TableInv /\ [Next]_vars => TableInv'
<1> SUFFICES ASSUME TableInv, [Next]_vars  PROVE TableInv'
  OBVIOUS
<1>1. TypeInv'
  BY StepKeepsTypes DEF TableInv
<1> SUFFICES Ownership'
  BY <1>1 DEF TableInv
<1>2. ASSUME NEW c \in Calls, PageStep(c) \/ CommandStep(c)  PROVE Ownership'
  BY <1>2, CallKeeps, CommandKeeps
<1>3. CASE SweepJob \/ \E h \in Handle : CloseJob(h)
  BY <1>3, JobsKeep
<1>4. CASE UNCHANGED vars
  <2>1. UNCHANGED <<pool, closing, sweeps, rows, sources, waiting, held, known, lost, task>>
    BY <1>4 DEF vars, table
  <2>2. \A h \in Handle : Nameable(h)' => Nameable(h)
    BY <2>1 DEF Nameable, Named, doc
  <2> QED  BY <2>1, <2>2, FrameKeeps DEF TableInv
<1> QED  BY <1>2, <1>3, <1>4 DEF Next

\* The invariant holds in every state.
LEMMA InvariantHolds == Spec => []TableInv
<1>1. Init => TableInv
  BY InitTypes, InitOwnership DEF TableInv
<1> QED  BY <1>1, StepKeeps, PTL DEF Spec

-----------------------------------------------------------------------------
\* Who can close them.

\* Steps that leave every document with the one who can close it.
LEMMA NamesFrame ==
    ASSUME TableInv, Names, lost' = lost, rows' \subseteq rows,
           \A h \in Handle : Named(h)' => Named(h),
           \A h \in lost : KeptBy(h)' \subseteq KeptBy(h),
           \A d \in rows' : Closable(d) => Closable(d)',
           rows' # {} => \A e \in Calls : task[e].op = "release" => task'[e].op = "release",
           \A e \in Calls : task'[e].at = "land" =>
               (task[e].at = "land" /\ doc(e)' = doc(e)) \/ doc(e)' \notin rows',
           \A e \in Calls : task'[e].at = "idle" => task'[e].op = "none"
    PROVE  Names'
<1> USE DEF Names
<1>1. \A d \in rows' :
          Closable(d)' \/ d \in lost' \/ \E c \in Calls : task'[c].op = "release"
  OBVIOUS
<1>2. \A c \in Calls : task'[c].at = "land" => doc(c)' \notin rows'
  OBVIOUS
<1>3. \A h \in lost' : ~Named(h)' /\ KeptBy(h)' = {}
  BY DEF TableInv, TypeInv, TypeOK
<1> QED  BY <1>1, <1>2, <1>3

\* A page that forgets a document sends its close, or a release of everything.
LEMMA CallKeepsNames ==
    ASSUME TableInv, Names, NEW c \in Calls, PageStep(c)
    PROVE  Names'
<1> USE DEF TableInv, TypeInv, TypeOK
<1>1. PICK what, d, i, f :
          /\ Called(c, what, d, i, f)
          /\ \/ known' = known \/ what = "release"
             \/ what = "close" /\ known' = known \ {d}
  BY DEF PageStep, CallOpen, CallPrepare, CallOnImport, CallClose, CallSave, CallLinks,
     Reload
<1>2. /\ UNCHANGED <<rows, sources, waiting, lost>>
      /\ task'[c].op = what /\ task'[c].doc = d /\ task'[c].at \in {"opening", "asked"}
      /\ \A e \in Calls \ {c} : task'[e] = task[e]
      /\ task[c].op = "none"
  BY <1>1 DEF Called, table, Names
<1>3. \A h \in Handle : Named(h)' => Named(h)
  BY NameableStays
<1>4. \A h : KeptBy(h)' = KeptBy(h)
  BY <1>2, KeptFrame DEF KeptBy
<1>5. CASE what = "release"
  <2>1. /\ \E e \in Calls : task'[e].op = "release"
        /\ \A e \in Calls : task'[e].at = "land" => doc(e)' \notin rows'
        /\ \A e \in Calls : task'[e].at = "idle" => task'[e].op = "none"
    BY <1>2, <1>5 DEF Names, doc
  <2>2. \A h \in lost' : ~Named(h)' /\ KeptBy(h)' = {}
    BY <1>2, <1>3, <1>4 DEF Names
  <2> QED  BY <2>1, <2>2 DEF Names
<1>6. CASE what # "release"
  <2>1. \A e \in rows : Closable(e) => Closable(e)'
    BY <1>1, <1>2, <1>6 DEF Closable, doc
  <2>2. \A e \in Calls : task[e].op = "release" => task'[e].op = "release"
    BY <1>2
  <2>3. \A e \in Calls : /\ task'[e].at = "land" => task[e].at = "land" /\ doc(e)' = doc(e)
                         /\ task'[e].at = "idle" => task'[e].op = "none"
    BY <1>2 DEF Names, doc
  <2> QED  BY <1>2, <1>3, <1>4, <2>1, <2>2, <2>3, NamesFrame
<1> QED  BY <1>5, <1>6

\* open_document: the answer reaches the page that asked, or the document is lost.
LEMMA InsertKeepsNames ==
    ASSUME TableInv, Names, NEW c \in Calls, Insert(c)
    PROVE  Names'
<1> USE DEF TableInv, TypeInv, TypeOK
<1> DEFINE h == held[c]
<1>1. /\ rows' = rows \cup {h} /\ UNCHANGED <<sources, waiting>>
      /\ task' = [task EXCEPT ![c] = NoTask] /\ task[c].op = "open"
      /\ \/ known' = known \cup {h} /\ lost' = lost
         \/ known' = known /\ lost' = lost \cup {h}
  BY DEF Insert, Ends, TaskWhere
<1>2. h \in Handle /\ IsHeld(h)
  BY ReleasedAreHandles DEF Insert, Ends, HeldWhere, IsHeld
<1>3. ~Nameable(h) /\ h \notin rows
  BY <1>2 DEF Ownership, NamedIsDocument, OneOwner
<1>4. /\ task'[c] = NoTask /\ \A e \in Calls \ {c} : task'[e] = task[e]
  BY <1>1
<1>5. \A d \in rows' : Closable(d)' \/ d \in lost' \/ \E e \in Calls : task'[e].op = "release"
  BY <1>1, <1>4 DEF Names, Closable, doc
<1>6. \A e \in Calls : task'[e].at = "land" => doc(e)' \notin rows'
  <2> SUFFICES ASSUME NEW e \in Calls, task'[e].at = "land"  PROVE doc(e)' \notin rows'
    OBVIOUS
  <2>1. e # c /\ task'[e] = task[e]
    BY <1>4 DEF NoTask
  <2>2. doc(e) \notin rows /\ task[e].op = "save"
    BY <2>1 DEF Names, TaskWhere
  <2>3. doc(e) # h
    BY <2>2, <1>3 DEF Nameable, Named
  <2> QED  BY <1>1, <2>1, <2>2, <2>3 DEF doc
<1>7. \A e \in Calls : task'[e].at = "idle" => task'[e].op = "none"
  BY <1>4 DEF Names, NoTask
<1>8. \A k : KeptBy(k)' = KeptBy(k)
  BY <1>1, KeptFrame DEF KeptBy
<1>9. \A k \in Handle : Named(k)' => Named(k) \/ (k = h /\ known' # known)
  BY <1>1, <1>4 DEF Named, NoTask, doc, Handle
<1>10. ASSUME NEW k \in lost'  PROVE ~Named(k)' /\ KeptBy(k)' = {}
  <2>1. CASE k \in lost
    <3>1. k # h
      BY <2>1, <1>3 DEF Nameable
    <3> QED  BY <2>1, <3>1, <1>8, <1>9 DEF Names
  <2>2. CASE k \notin lost
    <3>1. k = h /\ known' = known
      BY <2>2, <1>1
    <3>2. KeptBy(h) = {}
      BY <1>2, <1>3 DEF Ownership, ClosedIsEmpty
    <3> QED  BY <3>1, <3>2, <1>2, <1>3, <1>8, <1>9 DEF Nameable
  <2> QED  BY <2>1, <2>2
<1> QED  BY <1>5, <1>6, <1>7, <1>10 DEF Names

\* A document nobody can name is given nothing to keep.
LEMMA LostKeepNothing ==
    ASSUME TableInv, Names, NEW c \in Calls, CommandStep(c), ~Insert(c), NEW h \in lost
    PROVE  KeptBy(h)' \subseteq KeptBy(h)
<1> USE DEF TableInv, TypeInv, TypeOK, table
<1>1. h \in Handle /\ (task[c].op # "links" => doc(c) # h)
  BY DEF Names, Named
<1>2. CASE UNCHANGED <<sources, waiting>>
  BY <1>2, KeptFrame DEF KeptBy
<1>3. CASE Prepare(c) \/ Take(c) \/ Place(c) \/ Cancel(c)
  <2>1. doc(c) # h
    BY <1>1, <1>3 DEF Prepare, Take, Place, Cancel, Ends, TaskWhere
  <2>2. sources'[h] = sources[h] /\ waiting'[h] = waiting[h]
    BY <1>1, <1>3, <2>1 DEF Prepare, Take, Place, Cancel
  <2> QED  BY <2>2 DEF KeptBy, SourcesOf, WaitingOf
<1>4. CASE Close(c) \/ Stage(c) \/ Release(c)
  <2>1. /\ sources'[h] \in {sources[h], NoSources} /\ waiting'[h] \in {waiting[h], NoWaiting}
    BY <1>1, <1>4 DEF Close, Stage, Release, CloseModel
  <2>2. SourcesOf(h)' \subseteq SourcesOf(h) /\ WaitingOf(h)' \subseteq WaitingOf(h)
    BY <2>1 DEF SourcesOf, WaitingOf, NoSources, NoWaiting
  <2> QED  BY <2>2 DEF KeptBy
<1> QED  BY <1>2, <1>3, <1>4 DEF CommandStep, ServiceOpens, ServiceRefuses, CheckOpen, Vet,
            Plan, Land, ReadLinks, Adopt

\* A command that closes a document takes its row, and only those forget one.
LEMMA CommandKeepsNames ==
    ASSUME TableInv, Names, NEW c \in Calls, CommandStep(c)
    PROVE  Names'
<1> USE DEF table
<1>1. CASE Insert(c)
  BY <1>1, InsertKeepsNames
<1> SUFFICES ASSUME ~Insert(c)  PROVE Names'
  BY <1>1
<1>2. \A h \in Handle : Named(h)' => Named(h)
  BY NameableStays DEF TableInv
<1>3. \A h \in lost : KeptBy(h)' \subseteq KeptBy(h)
  BY LostKeepNothing
<1>4. lost' = lost /\ rows' \subseteq rows
  BY DEF CommandStep, ServiceOpens, ServiceRefuses, CheckOpen, Vet, Prepare, Take, Place,
     Cancel, Close, Plan, Stage, Land, ReadLinks, Adopt, Release, CloseModel
<1>5. \A e \in Calls \ {c} : task'[e] = task[e]
  BY DEF CommandStep, ServiceOpens, ServiceRefuses, CheckOpen, Vet, Prepare, Take, Place,
     Cancel, Close, Plan, Stage, Land, ReadLinks, Adopt, Release, Goto, Ends, TableInv,
     TypeInv, TypeOK
<1>6. /\ task'[c].at = "idle" => task'[c].op = "none"
      /\ task'[c].at = "land" => doc(c)' \notin rows'
  <2>1. CASE \E from : Ends(c, from)
    BY <2>1 DEF Ends, NoTask, TableInv, TypeInv, TypeOK
  <2>2. CASE ServiceOpens(c) \/ CheckOpen(c) \/ Vet(c) \/ Take(c) \/ Plan(c) \/ ReadLinks(c)
    <3>1. SUFFICES ASSUME ~\E from : Ends(c, from)
                   PROVE  task'[c].at \notin {"idle", "land"}
      BY <2>1
    <3>2. task[c] \in Task /\ c \in DOMAIN task
      BY DEF TableInv, TypeInv, TypeOK
    <3>3. \/ \E from : \E to \in {"insert", "vet", "opening", "prepare", "stage", "adopt"} :
                Goto(c, from, to)
          \/ task' = [task EXCEPT ![c].at = "place", ![c].file = waiting[doc(c)].file]
      BY <2>2, <3>1 DEF ServiceOpens, CheckOpen, Vet, Take, Plan, ReadLinks
    <3> QED  BY <3>2, <3>3 DEF Goto, Task
  <2>3. CASE Goto(c, "stage", "land") /\ CloseModel(doc(c))
    BY <2>3 DEF Goto, CloseModel, doc, TableInv, TypeInv, TypeOK, Task
  <2> QED  BY <2>1, <2>2, <2>3 DEF CommandStep, ServiceRefuses, Prepare, Place, Cancel,
              Close, Stage, Land, Adopt, Release
<1>7. CASE Release(c)
  <2>1. rows' = {}
    BY <1>7 DEF Release
  <2> QED  BY <1>2, <1>3, <1>4, <1>5, <1>6, <2>1, NamesFrame DEF Names, doc
<1> SUFFICES ASSUME ~Release(c)  PROVE Names'
  BY <1>7
<1>8. CASE Close(c)
  <2>1. /\ task[c].op = "close" /\ known' = known /\ rows' = rows \ {doc(c)}
    BY <1>8 DEF Close, CloseModel
  <2>2. \A d \in rows' : Closable(d) => Closable(d)'
    BY <1>5, <2>1 DEF Closable, doc
  <2> QED  BY <1>2, <1>3, <1>4, <1>5, <1>6, <2>1, <2>2, NamesFrame DEF Names, doc
<1> SUFFICES ASSUME ~Close(c)  PROVE Names'
  BY <1>8
<1>9. task[c].op \notin {"close", "release"}
  BY DEF CommandStep, ServiceOpens, ServiceRefuses, CheckOpen, Vet, Prepare, Take, Place,
     Cancel, Plan, Stage, Land, ReadLinks, Adopt, Goto, Ends, TableInv, TypeInv, TaskWhere
<1>10. known \ known' \subseteq {d \in {doc(c)} : d \notin rows}
  BY DEF CommandStep, ServiceOpens, ServiceRefuses, CheckOpen, Vet, Prepare, Take, Place,
     Cancel, Plan, Stage, Land, ReadLinks, Adopt, Ends, Names
<1>11. \A d \in rows' : Closable(d) => Closable(d)'
  BY <1>4, <1>5, <1>9, <1>10 DEF Closable, doc
<1> QED  BY <1>2, <1>3, <1>4, <1>5, <1>6, <1>9, <1>11, NamesFrame DEF Names, doc

\* Every document has somebody who can close it, or was lost.
LEMMA NamesHold == Spec => []Names
<1>1. Init => Names
  <2>1. Init => rows = {} /\ lost = {} /\ task = [c \in Calls |-> NoTask]
    BY DEF Init
  <2> QED  BY <2>1 DEF Names, NoTask
<1>2. TableInv /\ Names /\ [Next]_vars => Names'
  <2> SUFFICES ASSUME TableInv, Names, [Next]_vars  PROVE Names'
    OBVIOUS
  <2>1. ASSUME NEW c \in Calls, PageStep(c) \/ CommandStep(c)  PROVE Names'
    BY <2>1, CallKeepsNames, CommandKeepsNames
  <2>2. CASE (SweepJob \/ \E h \in Handle : CloseJob(h)) \/ UNCHANGED vars
    <3>1. UNCHANGED <<rows, sources, waiting, known, lost, task>>
      BY <2>2 DEF SweepJob, CloseJob, vars, table
    <3> QED  BY <3>1, KeptFrame DEF Names, Named, KeptBy, Closable, doc
  <2> QED  BY <2>1, <2>2 DEF Next
<1> QED  BY <1>1, <1>2, InvariantHolds, PTL DEF Spec

-----------------------------------------------------------------------------
\* The table's variables keep their types: a pool the table, a command or a
\* list of addresses names is one the service numbered (edits.rs, imports.rs).
THEOREM TableTypes == Spec => []TypeOK
<1>1. TableInv => TypeOK
  BY DEF TableInv, TypeInv
<1> QED  BY <1>1, InvariantHolds, PTL

\* Every open pool has somebody left who will close it: a close or a release on
\* its way, the command that holds it, or the page, with a document it can still
\* close (edits.rs Open::sources, imports.rs Held).  A document whose open was
\* under way while its page was reloaded is excepted: nobody can name it.
THEOREM PoolsOwned == Spec => []PoolsAreOwned
<1>1. TableInv /\ Names => PoolsAreOwned
  <2> SUFFICES ASSUME TableInv, Names, NEW h \in Handle \ lost, pool[h] = "open",
                      ~(h \in closing \/ Releasing \/ IsHeld(h))
               PROVE  \E d \in rows : Closable(d) /\ h \in {d} \cup SourcesOf(d) \cup WaitingOf(d)
    BY DEF PoolsAreOwned, HasCloser
  <2>1. ~(sweeps > 0) /\ ~\E c \in Calls : task[c].op = "release"
    BY DEF Releasing
  <2>2. PICK d \in rows : h \in {d} \cup KeptBy(d)
    BY <2>1, OwnedMeans DEF TableInv, Ownership, PoolsAreHeld
  <2>3. d \notin lost
    BY <2>2 DEF Names
  <2> QED  BY <2>1, <2>2, <2>3 DEF Names, KeptBy
<1> QED  BY <1>1, InvariantHolds, NamesHold, PTL

\* No pool is closed under whoever holds it (commands/document.rs
\* close_document, edits.rs Edits::close).
THEOREM OwnedNotClosed == Spec => []OwnedIsNotClosed
<1>1. TableInv => OwnedIsNotClosed
  BY DEF TableInv, Ownership
<1> QED  BY <1>1, InvariantHolds, PTL

-----------------------------------------------------------------------------
\* The table, the save and the page together.

SaveP == INSTANCE SaveOverProofs
PageP == INSTANCE PageTasksProofs

-----------------------------------------------------------------------------
\* The definitions that are proved about are those that are checked: an instance
\* of the module of the proofs has the same steps as one of the module itself.

LEMMA SaveMoves == Save!Next => SaveP!Next
  BY DEF Save!Staged, SaveP!Staged, Save!Tails, SaveP!Tails, Save!Original, SaveP!Original,
         Save!InWindow, SaveP!InWindow, Save!content, SaveP!content, Save!model, SaveP!model,
         Save!world, SaveP!world, Save!NoStaged, SaveP!NoStaged, Save!Foreign, SaveP!Foreign,
         Save!ForeignWrites, SaveP!ForeignWrites, Save!ByStamp, SaveP!ByStamp, Save!RewriteInPlace, SaveP!RewriteInPlace,
         Save!Replace, SaveP!Replace, Save!Remove, SaveP!Remove, Save!Wake, SaveP!Wake,
         Save!Others, SaveP!Others, Save!Edit, SaveP!Edit, Save!HashReads, SaveP!HashReads,
         Save!Moved, SaveP!Moved, Save!HashSettles, SaveP!HashSettles, Save!Step, SaveP!Step,
         Save!Goes, SaveP!Goes, Save!Ended, SaveP!Ended, Save!Refused, SaveP!Refused, Save!Save,
         SaveP!Save, Save!Plan, SaveP!Plan, Save!Check, SaveP!Check, Save!Read, SaveP!Read,
         Save!Write, SaveP!Write, Save!Discarded, SaveP!Discarded, Save!Ours, SaveP!Ours,
         Save!Flushed, SaveP!Flushed, Save!Sync, SaveP!Sync, Save!Close, SaveP!Close, Save!Agrees,
         SaveP!Agrees, Save!Verify, SaveP!Verify, Save!Rename, SaveP!Rename, Save!Landing,
         SaveP!Landing, Save!Open, SaveP!Open, Save!Meta, SaveP!Meta, Save!Target, SaveP!Target,
         Save!Body, SaveP!Body, Save!SyncBody, SaveP!SyncBody, Save!Trailer, SaveP!Trailer,
         Save!SyncTrailer, SaveP!SyncTrailer, Save!Reread, SaveP!Reread, Save!CutBack,
         SaveP!CutBack, Save!Name, SaveP!Name, Save!Survivors, SaveP!Survivors, Save!Stops,
         SaveP!Stops, Save!SaveStep, SaveP!SaveStep, Save!Next, SaveP!Next

LEMMA PageMoves == Page!Next => PageP!Next
<1>1. Page!Reader => PageP!Reader
  BY DEF Page!edits, PageP!edits, Page!NoBound, PageP!NoBound, Page!NoTask, PageP!NoTask,
         Page!documentBusy, PageP!documentBusy, Page!Queue, PageP!Queue, Page!MayEdit,
         PageP!MayEdit, Page!MakeEdit, PageP!MakeEdit, Page!Type, PageP!Type, Page!Queued,
         PageP!Queued, Page!Asked, PageP!Asked, Page!Enqueue, PageP!Enqueue, Page!Ask,
         PageP!Ask, Page!AskSave, PageP!AskSave, Page!body, PageP!body, Page!IsSettled,
         PageP!IsSettled, Page!Followed, PageP!Followed, Page!Reader, PageP!Reader
<1>2. Page!EditStep => PageP!EditStep
  BY DEF Page!MaySend, PageP!MaySend, Page!SendEdit, PageP!SendEdit, Page!ApplyEdit,
         PageP!ApplyEdit, Page!AdoptEdit, PageP!AdoptEdit, Page!EditStep, PageP!EditStep,
         Page!RemoveAt, PageP!RemoveAt
<1>3. Page!BodyStep => PageP!BodyStep
  BY DEF Page!edits, PageP!edits, Page!NoBound, PageP!NoBound, Page!documentBusy,
         PageP!documentBusy, Page!Queue, PageP!Queue, Page!SettleDrafts, PageP!SettleDrafts,
         Page!IsSettled, PageP!IsSettled, Page!Queued, PageP!Queued, Page!Enqueue,
         PageP!Enqueue, Page!Leaves, PageP!Leaves, Page!Left, PageP!Left, Page!Gone,
         PageP!Gone, Page!Idle, PageP!Idle, Page!body, PageP!body, Page!Running, PageP!Running,
         Page!Goes, PageP!Goes, Page!BodyEnds, PageP!BodyEnds, Page!Start, PageP!Start,
         Page!Opened, PageP!Opened, Page!Settle, PageP!Settle, Page!Unmount, PageP!Unmount,
         Page!Mount, PageP!Mount, Page!Removes, PageP!Removes, Page!dirty, PageP!dirty,
         Page!Close, PageP!Close, Page!CloseSeveral, PageP!CloseSeveral, Page!Confirm,
         PageP!Confirm, Page!BodyStep, PageP!BodyStep
<1>4. Page!SaveStep => PageP!SaveStep
  BY DEF Page!edits, PageP!edits, Page!NoBound, PageP!NoBound, Page!NoTask, PageP!NoTask,
         Page!Queue, PageP!Queue, Page!SettleDrafts, PageP!SettleDrafts, Page!IsSettled,
         PageP!IsSettled, Page!Left, PageP!Left, Page!Queued, PageP!Queued, Page!Saving,
         PageP!Saving, Page!TaskEnds, PageP!TaskEnds, Page!SaveSettles, PageP!SaveSettles,
         Page!SaveBegins, PageP!SaveBegins, Page!SaveIsSure, PageP!SaveIsSure,
         Page!ReopenWaits, PageP!ReopenWaits, Page!SaveAnswers, PageP!SaveAnswers,
         Page!SaveEnds, PageP!SaveEnds, Page!SaveStep, PageP!SaveStep, Page!ToSet, PageP!ToSet
<1> QED  BY <1>1, <1>2, <1>3, <1>4 DEF Page!Next, PageP!Next

LEMMA SaveStarts == Save!Init => SaveP!Init
  BY DEF Save!Init, SaveP!Init, Save!Inodes, SaveP!Inodes, Save!Staged, SaveP!Staged,
         Save!Original, SaveP!Original, Save!NoPrint, SaveP!NoPrint, Save!NoStaged, SaveP!NoStaged

LEMMA PageStarts == Page!Init => PageP!Init
  BY DEF Page!Init, PageP!Init, Page!NoTask, PageP!NoTask, Page!NoBound, PageP!NoBound

-----------------------------------------------------------------------------
\* A step moves one part, and the others stutter.

LEMMA OnePartMoves ==
    ASSUME [MCNext]_<<part, vars, saveVars, pageVars>>
    PROVE  [Next]_vars /\ [SaveP!Next]_SaveP!vars /\ [PageP!Next]_PageP!vars /\ UNCHANGED part
<1>1. /\ UNCHANGED saveVars => UNCHANGED SaveP!vars
      /\ UNCHANGED pageVars => UNCHANGED PageP!vars
  BY DEF saveVars, pageVars, SaveP!vars, SaveP!content, SaveP!model, SaveP!world, PageP!vars,
         PageP!edits
<1>2. CASE TableNext
  BY <1>1, <1>2 DEF TableNext
<1>3. CASE Save!Next /\ UNCHANGED <<part, vars, pageVars>>
  BY <1>1, <1>3, SaveMoves
<1>4. CASE PageNext
  <2>1. Page!Next /\ UNCHANGED <<part, vars, saveVars>>
    BY <1>4 DEF PageNext
  <2> QED  BY <1>1, <2>1, PageMoves
<1>5. CASE UNCHANGED <<part, vars, saveVars, pageVars>>
  BY <1>1, <1>5
<1> QED  BY <1>2, <1>3, <1>4, <1>5 DEF MCNext

LEMMA EachKeepsItsSpec == MCSpec => Spec /\ SaveP!Spec /\ PageP!Spec
<1>1. MCInit => Init /\ SaveP!Init /\ PageP!Init
  BY SaveStarts, PageStarts DEF MCInit
<1>2. [MCNext]_<<part, vars, saveVars, pageVars>> =>
          [Next]_vars /\ [SaveP!Next]_SaveP!vars /\ [PageP!Next]_PageP!vars
  BY OnePartMoves
<1> QED  BY <1>1, <1>2, PTL DEF MCSpec, Spec, SaveP!Spec, PageP!Spec

-----------------------------------------------------------------------------
\* The theorems.

\* Every variable of the part that moves has its type, for any number of
\* commands, files, documents, edits, requests and writes of other programs.
THEOREM DocumentsTypes == MCSpec => []AllTypesOK
<1>1. SaveP!Spec => []SaveP!TypeOK
  BY DocumentsAssumption, SaveP!SaveTypes
<1>2. PageP!Spec => []PageP!TypeOK
  BY DocumentsAssumption, PageP!PageTypes DEF PageP!Bounded
<1>3. SaveP!TypeOK => Save!TypeOK
  BY DEF Save!TypeOK, SaveP!TypeOK, Save!Inodes, SaveP!Inodes, Save!Staged, SaveP!Staged,
         Save!Tails, SaveP!Tails, Save!Fingerprint, SaveP!Fingerprint, Save!PcValues,
         SaveP!PcValues, Save!InWindow, SaveP!InWindow
<1>4. PageP!TypeOK => Page!TypeOK
  BY DEF Page!TypeOK, PageP!TypeOK, Page!EditCommand, PageP!EditCommand, Page!Body, PageP!Body,
         Page!Task, PageP!Task, Page!Bound, PageP!Bound
<1>5. TypeOK /\ Save!TypeOK /\ Page!TypeOK => AllTypesOK
  BY DEF AllTypesOK
<1> QED  BY <1>1, <1>2, <1>3, <1>4, <1>5, EachKeepsItsSpec, TableTypes, PTL

\* Wherever the machine stops, what has the name of the file is the old file or
\* the new one (append_in_place, write_in_two).
THEOREM FileIsOldOrNew == MCSpec => []OldOrNew
<1>1. SaveP!Spec => []SaveP!OldOrNew
  BY DocumentsAssumption, SaveP!NeverTorn
<1>2. SaveP!OldOrNew => OldOrNew
  BY DEF OldOrNew, Save!OldOrNew, SaveP!OldOrNew
<1> QED  BY <1>1, <1>2, EachKeepsItsSpec, PTL

\* A save that says it landed is there whole, over the bytes the reader opened,
\* where no write of another program was one that length and time do not show
\* (Opened::moved, agrees_with_metadata), and but for a rename that a stop of the
\* machine undid (commit).
THEOREM SavedOverTheOpened == MCSpec => []SavedIsWhatWasOpened
<1>1. SaveP!Spec => []SaveP!SavedIsWhatWasOpened
  BY DocumentsAssumption, SaveP!SavedOverWhatWasOpened
<1>2. SaveP!SavedIsWhatWasOpened => SavedIsWhatWasOpened
  BY DEF SavedIsWhatWasOpened, Save!SavedIsWhatWasOpened, SaveP!SavedIsWhatWasOpened,
         Save!Original, SaveP!Original
<1> QED  BY <1>1, <1>2, EachKeepsItsSpec, PTL

\* What the reader is told of a save that did not land is so.
THEOREM EndingsAreHonest == MCSpec => []HonestEnding
<1>1. SaveP!Spec => []SaveP!HonestEnding
  BY DocumentsAssumption, SaveP!EndingsAreTrue
<1>2. SaveP!HonestEnding => HonestEnding
  BY DEF HonestEnding, Save!HonestEnding, SaveP!HonestEnding, Save!Untouched, SaveP!Untouched,
         Save!Inodes, SaveP!Inodes, Save!Staged, SaveP!Staged
<1> QED  BY <1>1, <1>2, EachKeepsItsSpec, PTL

\* A save takes every edit the page has accepted of the document it saves since
\* the document was mounted (pendingEdit, applyEdit), while no body that was queued
\* behind one that opens a tab runs beside it.
THEOREM SavesTakeEveryEdit == MCSpec => []SaveTakesEveryEdit
<1>1. PageP!Spec => []PageP!SaveTakesEveryEdit
  BY DocumentsAssumption, PageP!SaveTakesEvery DEF PageP!Bounded
<1>2. PageP!SaveTakesEveryEdit => SaveTakesEveryEdit
  BY DEF SaveTakesEveryEdit, Page!SaveTakesEveryEdit, PageP!SaveTakesEveryEdit, Page!Beside,
         PageP!Beside, Page!body, PageP!body
<1> QED  BY <1>1, <1>2, EachKeepsItsSpec, PTL

\* Once the replies are in, the window shows the state of its document's model
\* (Edits.adopt, serial.ts).
THEOREM TheWindowShowsTheModel == MCSpec => []WindowShowsTheModel
<1>1. PageP!Spec => []PageP!WindowShowsTheModel
  BY DocumentsAssumption, PageP!WindowShows DEF PageP!Bounded
<1>2. PageP!WindowShowsTheModel => WindowShowsTheModel
  BY DEF WindowShowsTheModel, Page!WindowShowsTheModel, PageP!WindowShowsTheModel
<1> QED  BY <1>1, <1>2, EachKeepsItsSpec, PTL

\* No tab is closed without a question over an edit its close has waited for
\* (closeTab): not over one made after the close had begun to settle, over one on
\* its way when the document was last taken down, or of several closed together.
THEOREM NoTabIsClosedUnasked == MCSpec => NothingIsClosedUnasked
<1> DEFINE
      Asked(d) ==
          \/ Page!body.at = "confirm" \/ Page!body.asked # "no"
          \/ model[d] <= Page!Cardinality(Page!LateAnswers(d))
      AskedP(d) ==
          \/ PageP!body.at = "confirm" \/ PageP!body.asked # "no"
          \/ model[d] <= PageP!Cardinality(PageP!LateAnswers(d))
<1>1. PageP!Spec => [][\A d \in tabs \ tabs' : AskedP(d)]_PageP!vars
  BY DocumentsAssumption, PageP!NothingClosedUnasked
     DEF PageP!Bounded, PageP!NothingIsClosedUnasked
<1>2. \A d : AskedP(d) => Asked(d)
  <2>1. \A S : Page!Cardinality(S) = PageP!Cardinality(S)
    BY DEF Page!Cardinality, PageP!Cardinality, Page!IsFiniteSet, PageP!IsFiniteSet
  <2> QED  BY <2>1 DEF Page!body, PageP!body, Page!LateAnswers, PageP!LateAnswers
<1>3. PageP!vars = Page!vars /\ (UNCHANGED PageP!vars <=> UNCHANGED Page!vars)
  BY DEF Page!vars, PageP!vars, Page!edits, PageP!edits
<1> HIDE DEF Asked, AskedP
<1>4. [\A d \in tabs \ tabs' : AskedP(d)]_PageP!vars => [\A d \in tabs \ tabs' : Asked(d)]_Page!vars
  BY <1>2, <1>3
<1>5. MCSpec => [][\A d \in tabs \ tabs' : Asked(d)]_Page!vars
  BY <1>1, <1>4, EachKeepsItsSpec, PTL
<1> QED  BY <1>5 DEF Asked, NothingIsClosedUnasked, Page!NothingIsClosedUnasked
=============================================================================
