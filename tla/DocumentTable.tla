---------------------------- MODULE DocumentTable ----------------------------
(***************************************************************************)
(* Who holds the worker pools the render service has open: the document    *)
(* table of src-tauri/src/edits.rs, the guard of imports.rs, the address   *)
(* lists of webopen.rs, and the commands of commands/document.rs and       *)
(* commands/save.rs that move a pool from one owner to another.            *)
(*                                                                         *)
(* Every command is a task of its own: the window does not wait for one    *)
(* before it sends the next, and a page that is reloaded leaves its        *)
(* commands running.  An action is one critical section of the table, or   *)
(* what a command does between two awaits.  The service's jobs run later,  *)
(* in any order: WorkerPool has their own detail.                          *)
(***************************************************************************)
EXTENDS Naturals

CONSTANTS Calls,        \* bound: commands under way at once
          Files, NoFile,\* the other files pages are taken from
          MaxHandles,   \* bound: documents the service opens
          MaxIds,       \* bound: imports prepared
          MaxReloads    \* bound: pages started

ASSUME TableAssumption ==
    NoFile \notin Files /\ MaxHandles \in Nat /\ MaxIds \in Nat /\ MaxReloads \in Nat

Handle == 1..MaxHandles     \* the service never uses a document number again
NoHandle == 0

VARIABLES
    pool,       \* pool[h]: "none", "open", "closed", or "swept" by release_all
    closing,    \* the close jobs sent to the service and not yet run
    sweeps,     \* the release_all jobs sent and not yet run
    rows,       \* the documents that have a model (Edits::docs)
    sources,    \* sources[d][f]: the pool that draws the pages taken from f
    waiting,    \* waiting[d]: the import whose pages the reader has not chosen
    lastPending,\* Edits::last_pending
    listed,     \* the documents with an address list (webopen::Registry)
    known,      \* the documents the page can name
    lost,       \* those whose open was answered to a page that was gone
    reloads,    \* the pages started
    task,       \* task[c]: a command, where it is, its arguments and its page
    held        \* held[c]: the pool it holds itself (imports::Held)

table == <<rows, sources, waiting, lastPending>>
vars == <<pool, closing, sweeps, table, listed, known, lost, reloads, task, held>>

Ops == {"none", "open", "prepare", "commit", "cancel", "close", "save", "links", "release"}
PcValues == {"idle", "asked", "opening", "insert", "vet", "prepare", "place",
             "stage", "land", "adopt"}
Waiting == [id : 0..MaxIds, handle : 0..MaxHandles, file : Files \cup {NoFile}]
NoWaiting == [id |-> 0, handle |-> NoHandle, file |-> NoFile]
NoSources == [f \in Files |-> NoHandle]
Task == [op : Ops, at : PcValues, doc : 0..MaxHandles, id : 0..MaxIds,
         file : Files \cup {NoFile}, page : 0..MaxReloads]
NoTask == [op |-> "none", at |-> "idle", doc |-> 0, id |-> 0, file |-> NoFile,
           page |-> 0]

TypeOK ==
    /\ pool \in [Handle -> {"none", "open", "closed", "swept"}]
    /\ closing \in SUBSET Handle /\ sweeps \in Nat
    /\ rows \in SUBSET Handle
    /\ sources \in [Handle -> [Files -> 0..MaxHandles]]
    /\ waiting \in [Handle -> Waiting] /\ lastPending \in 0..MaxIds
    /\ listed \in SUBSET Handle /\ known \in SUBSET Handle
    /\ lost \in SUBSET Handle /\ reloads \in 0..MaxReloads
    /\ task \in [Calls -> Task] /\ held \in [Calls -> 0..MaxHandles]

Init ==
    /\ pool = [h \in Handle |-> "none"]
    /\ closing = {} /\ sweeps = 0
    /\ rows = {} /\ sources = [d \in Handle |-> NoSources]
    /\ waiting = [d \in Handle |-> NoWaiting] /\ lastPending = 0
    /\ listed = {} /\ known = {} /\ lost = {} /\ reloads = 0
    /\ task = [c \in Calls |-> NoTask] /\ held = [c \in Calls |-> NoHandle]

Goto(c, from, to) == task[c].at = from /\ task' = [task EXCEPT ![c].at = to]
Ends(c, from) == task[c].at = from /\ task' = [task EXCEPT ![c] = NoTask]
doc(c) == task[c].doc

\* The pools document d keeps for the files it took pages from.
SourcesOf(d) == {sources[d][f] : f \in Files} \ {NoHandle}

\* mutant of WaitingOf: a pool is named whether an import waits or not
WaitingOrNone(d) == {waiting[d].handle}

WaitingOf(d) == {waiting[d].handle} \ {NoHandle}

-----------------------------------------------------------------------------
\* The page sends a command.

Called(c, what, d, i, f) ==
    /\ task[c].at = "idle"
    /\ task' = [task EXCEPT ![c] =
          [op |-> what, at |-> IF what = "open" THEN "opening" ELSE "asked",
           doc |-> d, id |-> i, file |-> f, page |-> reloads]]
    /\ UNCHANGED <<pool, closing, sweeps, table, listed, lost, held>>

CallOpen(c) == Called(c, "open", 0, 0, NoFile) /\ UNCHANGED <<known, reloads>>

CallPrepare(c) ==
    \E d \in known, f \in Files : Called(c, "prepare", d, 0, f) /\ UNCHANGED <<known, reloads>>

CallOnImport(c) ==
    \E d \in known, i \in 1..lastPending, what \in {"commit", "cancel"} :
        Called(c, what, d, i, NoFile) /\ UNCHANGED <<known, reloads>>

\* The page forgets a document it closes before it hears of it.
CallClose(c) ==
    \E d \in known :
        /\ Called(c, "close", d, 0, NoFile)
        /\ known' = known \ {d} /\ UNCHANGED reloads

CallSave(c) ==
    \E d \in known : Called(c, "save", d, 0, NoFile) /\ UNCHANGED <<known, reloads>>

\* The links of a document, or of a file it took pages from.
CallLinks(c) ==
    \E d \in known, h \in Handle :
        /\ h = d \/ (d \in rows /\ h \in SourcesOf(d))
        /\ Called(c, "links", h, 0, NoFile) /\ UNCHANGED <<known, reloads>>

\* A reloaded page holds no document and asks for everything to be released.
Reload(c) ==
    /\ reloads < MaxReloads /\ reloads' = reloads + 1 /\ known' = {}
    /\ Called(c, "release", 0, 0, NoFile)

-----------------------------------------------------------------------------
\* The pools a command lets go of are closed, none of them waited for.
Releases(handles) == closing' = closing \cup handles

\* mutant of Dropped: the pool of a command that failed is left open
Leaked(c) == held' = [held EXCEPT ![c] = NoHandle] /\ UNCHANGED closing

\* Held goes out of scope before it is kept.
Dropped(c) ==
    /\ held' = [held EXCEPT ![c] = NoHandle]
    /\ Releases({held[c]} \ {NoHandle})

Kept(c) == held' = [held EXCEPT ![c] = NoHandle]

\* The service opens a document, or refuses it.
ServiceOpens(c) ==
    /\ \E h \in Handle :
          /\ pool[h] = "none" /\ \A k \in 1..h - 1 : pool[k] # "none"
          /\ Goto(c, "opening", IF task[c].op = "open" THEN "insert" ELSE "vet")
          /\ pool' = [pool EXCEPT ![h] = "open"]
          /\ held' = [held EXCEPT ![c] = h]
    /\ UNCHANGED <<closing, sweeps, table, listed, known, lost, reloads>>

ServiceRefuses(c) ==
    /\ Ends(c, "opening")
    /\ UNCHANGED <<pool, closing, sweeps, table, listed, known, lost, reloads, held>>

\* open_document: the model is entered once the service has answered, and the
\* answer reaches the page that asked, if it is still there.
Insert(c) ==
    /\ Ends(c, "insert")
    /\ rows' = rows \cup {held[c]}
    /\ \/ task[c].page = reloads /\ known' = known \cup {held[c]} /\ UNCHANGED lost
       \/ task[c].page # reloads /\ lost' = lost \cup {held[c]} /\ UNCHANGED known
    /\ Kept(c)
    /\ UNCHANGED <<pool, closing, sweeps, sources, waiting, lastPending, listed, reloads>>

\* page_import_prepare

CheckOpen(c) ==
    /\ task[c].op = "prepare"
    /\ IF doc(c) \in rows THEN Goto(c, "asked", "opening") ELSE Ends(c, "asked")
    /\ UNCHANGED <<pool, closing, sweeps, table, listed, known, lost, reloads, held>>

\* Its properties, its fingerprint and its page count.
Vet(c) ==
    /\ \/ Goto(c, "vet", "prepare") /\ UNCHANGED <<closing, held>>
       \/ Ends(c, "vet") /\ Dropped(c)
    /\ UNCHANGED <<pool, sweeps, table, listed, known, lost, reloads>>

\* mutant of Replaced: the import that waited before is forgotten
ReplacedForgotten(d) == {}

Replaced(d) == WaitingOf(d)

Prepare(c) ==
    /\ Ends(c, "prepare")
    /\ \/ /\ doc(c) \notin rows /\ Dropped(c)
          /\ UNCHANGED <<waiting, lastPending>>
       \/ /\ doc(c) \in rows /\ lastPending < MaxIds
          /\ lastPending' = lastPending + 1
          /\ waiting' = [waiting EXCEPT ![doc(c)] =
                [id |-> lastPending + 1, handle |-> held[c], file |-> task[c].file]]
          /\ Releases(Replaced(doc(c))) /\ Kept(c)
    /\ UNCHANGED <<pool, sweeps, rows, sources, listed, known, lost, reloads>>

\* page_import: commit_import takes the waiting import, and import locks again.

\* mutant of TakenFrom: the row keeps what the command now holds
LeftWaiting(d) == waiting[d]

TakenFrom(d) == NoWaiting

Take(c) ==
    LET d == doc(c) IN
    /\ task[c].op = "commit"
    /\ \/ /\ d \notin rows \/ waiting[d].id # task[c].id
          /\ Ends(c, "asked") /\ UNCHANGED <<waiting, held>>
       \/ /\ d \in rows /\ waiting[d].id = task[c].id
          /\ task[c].at = "asked"
          /\ task' = [task EXCEPT ![c].at = "place", ![c].file = waiting[d].file]
          /\ held' = [held EXCEPT ![c] = waiting[d].handle]
          /\ waiting' = [waiting EXCEPT ![d] = TakenFrom(d)]
    /\ UNCHANGED <<pool, closing, sweeps, rows, sources, lastPending, listed, known, lost, reloads>>

\* The model refuses, or places the pages; a file it had keeps the pool it had.
Place(c) ==
    LET d == doc(c)  f == task[c].file IN
    /\ Ends(c, "place")
    /\ \/ Dropped(c) /\ UNCHANGED sources
       \/ /\ d \in rows /\ sources[d][f] = NoHandle
          /\ sources' = [sources EXCEPT ![d][f] = held[c]]
          /\ Kept(c) /\ UNCHANGED closing
    /\ UNCHANGED <<pool, sweeps, rows, waiting, lastPending, listed, known, lost, reloads>>

\* page_import_cancel
Cancel(c) ==
    LET d == doc(c) IN
    /\ task[c].op = "cancel" /\ Ends(c, "asked")
    /\ IF d \in rows /\ waiting[d].id = task[c].id
       THEN /\ Releases(WaitingOf(d))
            /\ waiting' = [waiting EXCEPT ![d] = NoWaiting]
       ELSE UNCHANGED <<closing, waiting>>
    /\ UNCHANGED <<pool, sweeps, rows, sources, lastPending, listed, known, lost, reloads,
                   held>>

\* mutant of Handed: the import that waits is not handed back with the model
HandedWithoutPending(d) == SourcesOf(d)

\* What Edits::close returns.
Handed(d) == IF d \in rows THEN SourcesOf(d) \cup WaitingOf(d) ELSE {}

\* close_document, and the close of a save: the model first, then the address
\* lists, the pools of the files it took pages from, and its own.
CloseModel(d) ==
    /\ rows' = rows \ {d}
    /\ sources' = [sources EXCEPT ![d] = NoSources]
    /\ waiting' = [waiting EXCEPT ![d] = NoWaiting]
    /\ listed' = listed \ ({d} \cup Handed(d))
    /\ Releases(Handed(d) \cup {d})

Close(c) ==
    /\ task[c].op = "close" /\ Ends(c, "asked") /\ CloseModel(doc(c))
    /\ UNCHANGED <<pool, sweeps, lastPending, known, lost, reloads, held>>

\* save_document: a plan, the staging, the close, the landing.
Plan(c) ==
    /\ task[c].op = "save"
    /\ IF doc(c) \in rows THEN Goto(c, "asked", "stage") ELSE Ends(c, "asked")
    /\ UNCHANGED <<pool, closing, sweeps, table, listed, known, lost, reloads, held>>

Stage(c) ==
    /\ \/ /\ Ends(c, "stage")
          /\ UNCHANGED <<closing, rows, sources, waiting, listed>>
       \/ Goto(c, "stage", "land") /\ CloseModel(doc(c))
    /\ UNCHANGED <<pool, sweeps, lastPending, known, lost, reloads, held>>

Land(c) ==
    /\ Ends(c, "land")
    /\ known' = known \ {doc(c)}
    /\ UNCHANGED <<pool, closing, sweeps, table, listed, lost, reloads, held>>

\* document_links: the service reads them, and their addresses are kept.
ReadLinks(c) ==
    /\ task[c].op = "links"
    /\ IF pool[doc(c)] = "open" THEN Goto(c, "asked", "adopt") ELSE Ends(c, "asked")
    /\ UNCHANGED <<pool, closing, sweeps, table, listed, known, lost, reloads, held>>

Adopt(c) ==
    /\ Ends(c, "adopt")
    /\ listed' = listed \cup {doc(c)}
    /\ UNCHANGED <<pool, closing, sweeps, table, known, lost, reloads, held>>

\* release_documents
Release(c) ==
    /\ task[c].op = "release" /\ Ends(c, "asked")
    /\ rows' = {} /\ listed' = {} /\ sweeps' = sweeps + 1
    /\ sources' = [d \in Handle |-> NoSources]
    /\ waiting' = [d \in Handle |-> NoWaiting]
    /\ UNCHANGED <<pool, closing, lastPending, known, lost, reloads, held>>

-----------------------------------------------------------------------------
\* The service runs a close it was sent, or a release of everything it has.

CloseJob(h) ==
    /\ h \in closing /\ closing' = closing \ {h}
    /\ pool' = [pool EXCEPT ![h] = IF @ = "open" THEN "closed" ELSE @]
    /\ UNCHANGED <<sweeps, table, listed, known, lost, reloads, task, held>>

SweepJob ==
    /\ sweeps > 0 /\ sweeps' = sweeps - 1
    /\ pool' = [h \in Handle |-> IF pool[h] = "open" THEN "swept" ELSE pool[h]]
    /\ UNCHANGED <<closing, table, listed, known, lost, reloads, task, held>>

PageStep(c) ==
    \/ CallOpen(c) \/ CallPrepare(c) \/ CallOnImport(c) \/ CallClose(c)
    \/ CallSave(c) \/ CallLinks(c) \/ Reload(c)

CommandStep(c) ==
    \/ ServiceOpens(c) \/ ServiceRefuses(c) \/ Insert(c)
    \/ CheckOpen(c) \/ Vet(c) \/ Prepare(c)
    \/ Take(c) \/ Place(c) \/ Cancel(c)
    \/ Close(c) \/ Plan(c) \/ Stage(c) \/ Land(c)
    \/ ReadLinks(c) \/ Adopt(c) \/ Release(c)

Next ==
    \/ \E c \in Calls : PageStep(c) \/ CommandStep(c)
    \/ \E h \in Handle : CloseJob(h)
    \/ SweepJob

Spec == Init /\ [][Next]_vars

-----------------------------------------------------------------------------
\* Who has pool h: the model of its own document, a document that took pages
\* from its file or may yet, and a command under way.
IsHeld(h) == \E c \in Calls : held[c] = h
IsKept(h) == \E d \in rows : h \in SourcesOf(d) \cup WaitingOf(d)
Owned(h) == h \in rows \/ IsKept(h) \/ IsHeld(h)

\* A document the page can close, or has sent the close of.
Closable(d) == d \in known \/ \E c \in Calls : task[c].op = "close" /\ doc(c) = d

\* A release of everything is on its way, to the table or to the service.
Releasing == sweeps > 0 \/ \E c \in Calls : task[c].op = "release"

\* Who will close pool h: the close or the sweep that is on its way, the command
\* that holds it, or the page, with a document it can close.
HasCloser(h) ==
    \/ h \in closing \/ Releasing \/ IsHeld(h)
    \/ \E d \in rows : Closable(d) /\ h \in {d} \cup SourcesOf(d) \cup WaitingOf(d)

\* Every pool the service has open has somebody left who will close it: none
\* runs on for the life of the process, whatever a commit, a cancel, a second
\* prepare, a close, a save and a reload do to each other (the comments at
\* Open::sources and on Held).  One is excepted: a document whose open was under
\* way while its page was reloaded, and whose answer found nobody.
PoolsAreOwned ==
    \A h \in Handle \ lost : pool[h] = "open" => HasCloser(h)

\* commands/document.rs:541-563: a page that starts has every document released
\* that the one before it opened, so that none is left unreachable with its pool
\* alive.
ReloadLeavesNothing ==
    \A h \in Handle : pool[h] = "open" => HasCloser(h)

\* A pool somebody holds is not closed under them, and no close is on its way:
\* only the sweep of a page that starts takes one.
OwnedIsNotClosed ==
    \A h \in Handle :
        Owned(h) => pool[h] \in {"open", "swept"} /\ h \notin closing

\* webopen.rs:102-105 and 122-125: a token of a closed document names nothing.
NoListOutlivesItsDocument ==
    \A h \in listed : h \in rows \/ IsKept(h)
=============================================================================
