# tpdf: verification project

tpdf is a desktop PDF reader and editor: a Svelte page in a webview, a Rust
process that serves it (`src-tauri/src`), and one sandboxed worker process per
parser. This directory holds TLA+ models of the parts of it that are state
machines, the TLC runs that check them, and TLAPS
proofs of all their safety properties but one, which is about ENABLED.

Paths below are relative to the repository; `workers.rs` stands for
`src-tauri/src/workers.rs`, and so on.

## 1. The system

### Components, their state and their operations

| Component | State it keeps | Operations | What makes it correct |
|---|---|---|---|
| withdraw table (`queue.rs`) | ids queued, ids in flight with their token, ids cancelled | enqueue, claim, release, withdraw, forget | the table is the outstanding work, no more and no less; a withdrawal is not lost whichever side it meets |
| render service (`render.rs`) | the job channel, the service's withdraw table | tile, cancel, and a reply callback for every job | each request is answered, once; a withdrawn tile is not drawn or at least not delivered |
| worker process (`worker_child.rs`) | its own withdraw table, a channel between reader thread and render thread | the reader takes lines and applies withdrawals at once; the renderer polls its token at pauses | its table drains with its work; one reply per request |
| worker pool (`workers.rs`) | documents (`Held`: idle workers, count, senders, `outlived`), calls in flight | open, request with checkout/retry/discard, close, release_all, retire_idle, kill_overdue | the count is right, no process leaked or owned twice, closes wait, killed workers stay out |
| spare worker (`workers.rs`, `SpareSlot`) | ready, warming, spawning | prewarm, settled, take_spare, adopt_or_spawn | one spare at a time, none leaked, the claim always comes back |
| document model journal (`docmodel.rs`) | working document, journal, cursor, snapshots, tables of bodies | the edits, undo, redo | undo by replay is undo; no body leaks or is missed; rules between edits hold across undo |
| document model table (`edits.rs`, `commands/`) | which documents have a model, the pools that draw pages taken from other files, the import that waits | open, import prepare/commit/cancel, close, save's close, release_all | every pool has somebody left who will close it, and none is closed under its owner |
| imports of other files (`imports.rs`) | the pool a command holds until it has handed it over | vet, hold, hand over, drop | a command that fails or is too late closes what it opened |
| web addresses (`webopen.rs`) | the address lists of the open documents | adopt, address, forget | a closed document's tokens name nothing |
| saving (`save.rs`, `save_order.rs`, `save_outside.rs`) | none between calls; the file, the staged copy | check, stage, close, land (rename or append), roll back | at any stop of the machine the old file or the new one; a message that is true |
| file identity (`fingerprint.rs`, `diskwatch.ts`) | stamp, deferred hash, watch | stamp, wake, compare | a save onto a file another program rewrote is refused |
| tabs and document opening (`App.svelte`, `serial.ts`, `documenttabs.ts`) | the tabs, the document that is mounted, the queues of bodies, of edits and of document tasks | open, activate, close one or several, edit, save and reopen | no accepted edit is lost, no old state is shown last, no queue waits for itself |
| search (`search.ts`, `viewer.ts`, `render.rs`) | the list of hits, the scan's generation, the pages not read | run, clear, setPages, scope to the selection, mark every hit | the list is what there is, in reading order; what is marked is what was found |
| page text cache, OCR gate, session and recovery, printing, updates | see `PROJECT.json` | | |
| content transformations (redaction, text editing, forms, compression, signing, verification, readers) | none | pure functions of bytes or object graphs | right output, which is not a state machine's subject |

`PROJECT.json` lists every component with what is modelled of it or why it is
not.

### How they interact

The page calls the service through Tauri commands. A call posts a job with its
reply callback on one FIFO channel, from which `Capacity + 2` service threads
take jobs (`serve_pooled`). A thread checks out a worker of the document's pool,
writes a line on its pipe, and waits for the reply while the in-flight table
names its call to the deadline supervisor. Withdrawals do not queue: `cancel`
runs on the caller's thread, marks the service's table, then finds the call in
the in-flight table, and after dropping that lock writes a line to that worker
(or to all of them). The reaper (`retire_idle`) and the supervisor
(`kill_overdue`) run beside the threads. `edits.rs` keeps the journal of each
document under a lock of its own; a save reads it as a plan.

In the page, `opens` runs one body at a time that opens, shows or closes a
document, `editing` sends one edit after another, and `documentTasks` runs one
save (or print, export, ...) at a time, while edits are refused and new bodies
wait. A save settles the edits, calls `save_document`, which stages the file,
closes the model and the workers' document, and lands the file, and then opens
the document again from within the task. Commands are tasks of their own in the
backend; what they open and close in the service is done by jobs that run later.
A search asks for a run of pages at a time through the same channel as the tiles.

### What is hard

* A withdrawal is a second message chasing the first over two channels, two
  tables, a pipe and a retry.
* The pool's counts, senders and in-flight entries are three books about the
  same processes, changed in separate critical sections around spawns, kills
  and exchanges that run unlocked. Pids are reissued.
* A pre-spawned child may answer at its deadline, and two threads then decide
  what becomes of it.
* A service thread may panic, a worker may die or hang at any point, a file may
  be cut short under its mapping, the webview may reload alone.
* Undo replays commands through tables that later edits prune.
* A save meets other programs that write the same file, some of which put the
  modification time back, and a machine that stops between any two file operations.
* Commands race for the one import of a document that waits, and for the pools
  that go with it.
* The page's queues hand over to each other across awaits, and what a tab waits
  for is forgotten when it is taken down.
* A search that is superseded goes on with what it asked for, while the reader
  edits the pages under it.

The `hazards` of `PROJECT.json` name each with its line and the property that
watches it.

## 2. The modules

| Module | Models | Composes |
|---|---|---|
| `WithdrawTable` | `Queue` of `queue.rs` as operators on a table value | |
| `RenderService` | a tile request and its withdrawal from the page to the worker and back | two instances' worth of `WithdrawTable`: the service's and each worker's |
| `TileLifecycle` | what the page is promised of a tile (abstract) | refined by `RenderService` |
| `WorkerPool` | the pool, its threads, reaper and supervisor | |
| `SpareSlot` | the spare worker | |
| `Working` | the working document; `Accepts` and `Effect` of a command | |
| `Journal` | journal, cursor, snapshots, bodies | `Working` |
| `UndoHistory` | what undo and redo promise (abstract) | refined by `Journal` |
| `DocumentTable` | the document model table, imports, address lists and the commands that move a pool from one owner to another | |
| `SaveOver` | a save over the document's own file | |
| `PageTasks` | the page's three queues | |
| `SearchWalk` | a search, and the marking of its hits | |
| `MCRenderService`, `MCWorkerPool` | symmetry sets and inputs for TLC | |
| `MCDocuments` | what is behind a tab, for TLC | `DocumentTable`, `SaveOver`, `PageTasks` |
| `MCJournal` | the pages and what refers to them, for TLC | `Journal`, `SearchWalk` |
| `RenderServiceProofs` | theorems about the tile path and its refinement of `TileLifecycle` | `RenderService` |
| `WorkerPoolProofs` | theorems about the pool: its books; who owns a process, whose the in-flight entries are, whom the senders reach, which corpses a pool may hold | `WorkerPool` |
| `SpareSlotProofs`, `SaveOverProofs`, `PageTasksProofs`, `SearchWalkProofs` | theorems about `SpareSlot`, `SaveOver`, `PageTasks`, `SearchWalk` | |
| `JournalProofs` | theorems about the journal and its refinement of `UndoHistory`, and about `MCJournal` as a whole | `MCJournal`, `SearchWalkProofs` |
| `DocumentsProofs` | theorems about the document table, and about `MCDocuments` as a whole | `MCDocuments`, `SaveOverProofs`, `PageTasksProofs` |

`MCDocuments` and `MCJournal` put several components in one instance. They share
no variable, `part` names the one that moves, and the others stay as they began:
the states of the parts add up, and a property of one part is checked in its
states. (`DocumentTable` moves under two names: with a third document and no
reload, and with two documents and one reload.)

### RenderService

`stage[r]` follows request `r` from the call of `tile()` to its answer; the page
numbers it with `rid[r]` (0 for a request that cannot be withdrawn). `table` is
the service's withdraw table and `chan` its channel. Per service thread: `pc`,
`job`, its `token`, the `verdict` it will answer and whether it has `retried`.
Per worker: unread lines (`pipe`), table, channel, `wpc`, token, reply. `cancel`
is the one withdrawal under way; its three steps (mark, address, send) are three
actions because the code gives up a lock between them. A thread has one worker to
itself here: which worker it gets is WorkerPool's subject, and a worker that was
replaced is told from its predecessor by `incarnation`, as the code tells them
by pid. A panic is modelled where the thread is between claim and call, where
nothing releases the claim.

### WorkerPool

An action is one critical section of `docs` or of `calls`, or one unlocked step
between them. `pc[t]` names where thread `t` is: `checkout` or `waiting` for the
condition variable, `spawn`, `giveBack`, `publish`, `watch`/`inside`/`end`/`unwatch`
for the watched exchange, `diagnose`, `judge`, `checkin`, `drop`, `account`,
`publishDoc`, `sweep`, `close`, `closing`, `kill`. A `Worker` value is a pid and
whether its child has been waited for. `waiting` and `closing` threads run again
only when something calls `NotifyAndGoto`, as with `notify_all`. What the
supervisor does to a call that is overdue is atomic, because the code signals
under the lock of `calls`. A worker the deadline killed is told by the flag that
`CallWatch::end` returns; `is_running` is `try_wait`, and may call a fresh corpse
alive. A watch takes its entry by pid twice, as in the code: once where `end`
reports the verdict (`EndWatch`), and once where it is dropped (`DropWatch`, a part
of `EndUnlock`, `EndOpen` and `EndServe`), with the lock of `calls` given up in
between. `Reissue` says whether the system issues the pid of a reaped child again.

### SpareSlot

Each call of `prewarm` has a thread and starts a waiter; `pc[c]` and `waiter[c]`
are the two. `mail[c]` is the channel between them. `proc` tells a dead child
that is not reaped from a free pid, which is what signalling by pid rests on.

### Working and Journal

`Accepts(w, c, selections)` is what `Working::apply` checks for command `c`,
`Effect` what it then does; `Apply` is `apply_in`. A refused command leaves the
body that its caller had already entered in the table, as in the code, so that
the property about leaks is about the callers' own checks too. Every number is
issued once, by `next`. Eleven of the twenty commands are there; Renote,
Recolor and Refit repeat Reink with another table. A page has one piece of
replaceable text. `undo` moves to the nearest stop of `Stops` below the cursor
(a stop is a cursor position that does not split a gesture) and rebuilds from
the nearest snapshot; `redo` replays on from the working document and takes no
snapshot, as in the code.

### DocumentTable

`pool[h]` is a document the service has open; `closing` and `sweeps` are the jobs
sent to it and not yet run, taken in any order. `rows`, `sources` and `waiting`
are the table of `Edits`: which documents have a model, which pool draws the
pages taken from which file, and the import whose pages the reader has not
chosen. `task[c]` is a command, with the page that sent it, and `held[c]` the
pool it holds in the guard of `imports.rs`. A command is cut where it awaits; a
reload of the page starts `release_documents` and leaves the older commands
running. The page names a document it has been told of and not closed (`known`);
a document whose open was answered to a page that is gone is in `lost`. `HasCloser`
says who will close a pool: the close, the sweep or the release on its way, the
command that holds it, or the page, with a document it can still close.

### SaveOver

A file is an inode with its bytes (a number: 0 is what the reader opened), its
length and modification time, and what of a save it holds (`tail`). An action is
one file operation of `save_order.rs` or of one of the two writers; `pc` names
the next. `disk` is what a `sync` has made sure of: when the machine stops, what
was not synced may be there or not. Other programs may write in place, or replace
the file, between any two operations, also while the deferred hash reads it. Such
a write has new bytes, the old length or another, and a new modification time or
the one the file was opened with, as after `cp -p`. `blind` records one that kept
both at a moment when the code has only these to go by (`ByStamp`): under the hash,
whose stamp is compared and whose bytes are not, and between the reading of the
file and the last look before it is written. A rename is not flushed with its
directory, as in `commit`: a stop of the machine may put the name back on the file
that had it (`was`). Abstractions: a time that the platform cannot report is one
that was kept; the trailer of an append, a few dozen bytes, is written whole or not at all;
removing the staged file succeeds; the retries of a rename fold into the time
before it. A write of another program after the save has looked for the last time
is a window that the code says it cannot close: `late` records it, and the two
properties about the file except it. `SavedIsWhatWasOpened` excepts `blind` from
what it says of the bytes.

### PageTasks

An action is what the page, one thread, does between two awaits. `opens` is the
queue of bodies, the first one running; `afterIdle` those that wait for
`documentTasks.idle`; `editing` the queue of edit commands with their replies;
`saving` the document task. `made`, `model` and `seen` count the edits of a
document that the page accepted, that the backend applied, and that the state
the page shows has. `pending` is `pendingEdit`: what `settleDrafts` waits for, the
edit made last of what is mounted, and with it those the queue has before it. To
take a document down (`unmountDocument`) resets it, and what is still on its way
is then `left`: it is applied and adopted when its turn comes, but neither a save
nor a close waits for it. An edit of a handle that was replaced or closed is `gone`
and changes no model. A close of several tabs (`closeTabs`) is a body that settles
and asks once, and then one body per tab, which does not ask (`asked`). One pane is
modelled, and of the document tasks the save. `Beside` names the one way in which a
body is changing what is mounted while a save runs (section 5).

### SearchWalk

`order` is the page each slot draws; `walk[g]` the walk of the g-th search: its
plan, where it is, what it has asked for (`asked`, `sources`, `carry`) and what it
will hand to the next request (`carried`). `scan` is the search whose generation
is the present one. A superseded walk goes on until its request is answered, as
in the code, and a refused run sends it on (section 5). A request is answered by
a prefix of what was asked, with a problem, too late, or not at all. Every page
has one hit of its own and one over the break to whatever page follows; the
pattern that is not one is reported by the first page that answers. The counts
`scanned`, `toScan` and `charsSeen` and the mapping verdicts are left out.

## 3. The runs

All runs use two TLC workers. The longest are `documents` (1236429 states), `pool`
(1163353), `pool_live` (267557), `pool_locked` (959150) and `journal` (386563), of one and a half
to two and a half minutes; the others end within one.

| Run | Instance | Shows |
|---|---|---|
| `render_safety` | 2 threads, 2 tiles, 1 worker death, 2 panics | both tables match the work in every state, a withdrawal stays on record to the verdict, an answered request leaves no trace, and the whole implements `TileLifecycle` |
| `render_live` | 1 thread, 2 tiles, 1 death, 1 reload, fair | every tile asked for is answered |
| `render_reload` | 1 thread, 2 tiles, 1 reload | **violation**: two outstanding requests share an id |
| `pool` | 3 threads, 2 places, 1 document, 4 jobs, 1 death, pids not reissued | the pool's count is its workers; a close never takes a pool with a worker out; a killed worker is not pooled; the senders are the pool's workers; in-flight entries are the calls |
| `pool_locked` | 2 threads, 2 places, 2 encrypted documents, 3 jobs, 1 death, 1 truncation, pids reissued | every process has one owner; an outlived document lends no worker, idle or new, to a request that had none |
| `pool_live` | 2 threads, 1 place, 3 jobs, 1 death, pids not reissued, fair | every job is answered |
| `pool_sweep` | 2 threads, 2 jobs | **violation**: a start-up sweep drops a document opened after it was sent |
| `spare` | 2 calls, 2 openers, 3 pids, fair | one claim, one owner, the claim and every waiter come back |
| `spare_signal` | 1 call, 1 opener | **violation**: `settled` may signal a pid already reaped |
| `journal` | 2 pages, 2 files to import from, 3 edits, snapshots every 2; 2 searches of 3 pages, runs of 2, 1 edit of the order, 1 failure | replay is never refused, snapshots and bodies are exact, text and regions are never both pending, an edited import is placed once, and it all implements `UndoHistory`; the list of a search is exact and its marks are its hits |
| `documents` | 2 commands, 1 other file, 2 imports, 3 documents (2 with a reload); 3 writes of other programs; 2 tabs, 2 edits of each, 3 requests | every pool has somebody left who will close it, and none is closed under its owner; no save loses the old file, another's write that it could see, or the truth; no queue loses an edit it waits for, shows an old state, or waits for itself |
| `documents_tokens` | 2 commands, 2 documents | **violation**: a closed document gets its addresses back |

### The bounds and why they are enough

*Two threads and two tiles* are the smallest instance where a withdrawal races a
second claim, a broadcast reaches a worker that serves another request, and the
last-but-one panic leaves the channel with a reader while the last closes it.
*Three threads* have one that serves, one that waits and one that closes. *Two places* are what makes a pool grow past its first worker, retire
one and keep one (`KeptWarm = 1`). *Two encrypted documents* make `release_all`
close more than one, and give the second of two exchanges (unlock, then serve) to
one worker. *One death* reaches the retry; the second failure, which is final, is
reached by a deadline kill or a failed spawn, which are not bounded. In `pool_locked` pids are one more than can live at once, so that
a freed pid can be taken by another pool. `pool` and `pool_live` issue no pid
again: the in-flight table, the senders and the corpses are right only then, and a
call whose entry another took has no deadline that would end it. `pool_live` has `KeptWarm = 0`, so that the reaper can
empty a pool. *Three edits* are what an import that is
edited and imported again needs, and any number of undo and redo lies between
them; with a snapshot every two, positions before, at and after one are met. The
rule between text and regions needs two opened pages, since the last page cannot be
deleted and only an opened one takes a region: text on one, its deletion and a
region on the other are three edits. `MCJournal` moves the journal under two names to
keep this small: `journal` has every command and leaves the second page alone
(`OneOpenedPage`), `pages` edits both and neither annotates nor imports (`PagesAlone`).
*Two commands* are what a race of a commit, a cancel, a prepare, a close or a
save for one import takes; the third document is the second import's pool beside
the document and the first. *Three writes of other programs* are one under the
hash, one between the checks and one in the window, each with the time moved or
kept, and either writer may meet them. *Two tabs with two edits and three requests* have a
save, a body behind it and a body behind that, with one edit answered and one
under way, or a switch away, a switch back and the save. *Two searches* are a superseded one and its successor; *three slots*,
one perhaps of another file, have a run of two, a page alone, a wrap and a break
behind; an edit of the order comes before, between or under them.

`MaxRequests`, `MaxJobs`, `MaxDocs`, `MaxCrashes`, `MaxTruncated`, `MaxPanics`,
`MaxReloads`, `MaxEdits`, `MaxHandles`, `MaxIds`, `MaxForeign`, `MaxScans`,
`MaxReorders`, `MaxFailures`, `Pages` and the set `Calls` are bounds of the model
only. `SnapshotEvery`, `MaxTextVersions`, `MaxChanges`, `Capacity`, `KeptWarm`,
`RunPages`, `CopyChunk` and `MaxMatches` are constants of the code, given small
values.

`CHECK_DEADLOCK FALSE` is set everywhere: with its bounds spent the page asks
for nothing more, and a quiet service is not an error. What a deadlock would be
(a job that waits for ever) is a liveness property, `EveryTileAnswered` and
`EveryJobAnswered`. For the queues of the page it is an invariant, `NothingIsStuck`:
while one of them has anything, one of its own steps is enabled.

Permutations of threads, pids and commands are used as symmetry in safety runs
only.

### Fairness

* `RenderService`: each thread's steps, a send begun, the steps of a withdrawal
  begun, the worker's reader and renderer. These are running threads with work at
  hand. `WFinish` stands for the end of a render; a render that hangs is ended by
  the deadline, which is WorkerPool's subject. Nothing is fair about the page,
  deaths, reloads or panics.
* `WorkerPool`: the threads' own steps and the two periodic sweeps. **A worker is
  not obliged to answer**: what ends a hung exchange is the supervisor. Sends,
  deaths and truncations are not fair.
* `SpareSlot`: the steps of a call of `prewarm`, including the return of
  `recv_timeout`, and the end of a waiter whose pipe has closed. The child's
  answer is not fair.
* `DocumentTable`, `SaveOver`, `PageTasks`, `SearchWalk`: none; their properties
  are safety properties.

## 4. What is proved

Every theorem is an invariant, an action property or a refinement of `Spec`, for
every value of the constants, on these assumptions about constants, stated where the
constants are and evaluated by TLC in the runs:

* `ThreadAssumption`, `BoundAssumption`, `PoolAssumption`, `SpareAssumption`,
  `TableAssumption`: there is a thread, what stands for none is no thread or pid, and
  bounds are numbers; of the pool, threads and pids are finite sets;
* `BaselineAssumption`, `JournalAssumption`: a document has a page, the distance
  between snapshots is not zero, the text a page had is not a text that replaces
  it, and an import picks some pages, each once;
* `SearchAssumption`, `DocumentsAssumption`: the same for the modules that `MCJournal`
  and `MCDocuments` take as instances, where TLC evaluates no assumption of theirs.
  The theorems of `SaveOverProofs`, `PageTasksProofs` and `SearchWalkProofs` have
  them as hypotheses (`MaxForeign \in Nat`, `Bounded`), and the theorems about the
  compositions discharge these. A search needs a run of one page at least, a chunk of
  one, and a document of two pages to begin with.

One theorem module has a hypothesis beyond these: `MaxReloads = 0`, below.

### The tile path (`RenderServiceProofs`)

| Theorem | Property |
|---|---|
| `ServiceTypes` | `TypeOK` |
| `TheTableMatches` | `TableMatchesWork` |
| `NoWithdrawalIsLost` | `WithdrawalIsOnRecord` |
| `NothingIsLeftOfAnAnswer` | `AnsweredLeavesNoTrace` |
| `WorkersAgreeWithTheirThreads` | `WorkerTableMatchesWork` |
| `TheServiceImplementsTheLifecycle` | `ImplementsLifecycle` |

All assume `MaxReloads = 0`. That is not for convenience: `TableMatchesWork`
is about ids, and after a reload two outstanding requests may have one (run
`render_reload`). The inductive invariant of the service's side is

    IInv == TypeInv /\ Ids /\ Jobs /\ Channel /\ Book /\ WithdrawalIsOnRecord

`TypeInv` adds to `TypeOK` that a worker's incarnation lags the deaths so far
(else it could leave its range) and that a rendering worker has a job. `Ids`: a
request is unasked exactly past `asked`, ids are below the counter and differ.
`Jobs`: a busy thread has a taken request, and no two threads have the same.
`Channel`: what is in the channel is sent, once. `Book` restates the table
property with an equivalence per direction, which is what a step on one id needs
to leave the others alone. `WithdrawalIsOnRecord` alone is not inductive: that a
claim finds the mark needs `Book`, that it finds it for the right request needs
`Ids`, and that the request just claimed is nobody else's needs `Jobs` and
`Channel`. There is one lemma per action that touches these (`AskKeeps`,
`SendKeeps`, `WithdrawKeeps`, `TakeKeeps`, `ClaimKeeps`, `ReleaseKeeps`), one for
those that only move a thread along its work (`WorkKeeps`) and one for those that
change none of the variables concerned (`FrameKeeps`).

The workers' side is a second invariant on top of it:

    WorkerInv == IInv /\ OneAtATime /\ SameRequest /\ WorkerTables /\ OnlyRecalled

`OneAtATime`: of a tile line, a job and a reply a worker has at most one, and none
unless its thread waits. `SameRequest`: it is the thread's request, so that a reply
is the reply to what was asked. `WorkerTables`: a worker's table is about that one
request. `OnlyRecalled`: whatever the service's table, a withdrawal on its way, a
line in a pipe, a worker's table or token, or a thread's token takes for withdrawn,
the page has withdrawn. This is what makes a broadcast harmless: a worker that is
told of an id it does not have forgets it, and one that gives up its render had
that very id named. Each clause has one lemma per kind of step.

The refinement then maps, with `WorkerInv`, `Ask` to the abstract `Ask`; `Send` to a
stutter, or to `Refuse` when it failed; `Withdraw` to `Withdraw` or a stutter;
`Claim` to `Start` or, when the mark was found, to `Drop`; the reply and the
giving up to `Finish`; everything else, the retry after a death and the worker's
own steps included, to a stutter.

### The worker pool (`WorkerPoolProofs`)

| Theorem | Property |
|---|---|
| `TypeCorrect` | `TypeOK` |
| `BooksAlwaysBalance` | `PoolAccounting` |
| `ClosesAlwaysWait` | `CloseWaitsForPool` |
| `OutlivedNeverStarts` | `OutlivedStartsNothing` (an action property) |
| `EachProcessIsOwnedOnce` | `EveryProcessHasOneOwner` |
| `NoEntryOutlivesItsCall` | `EntriesAreCalls` |
| `EveryWorkerIsReached` | `SendersAreMembers` |
| `TheKilledStayOut` | `KilledStaysOut` |

For any finite numbers of threads and pids, any capacity, any number of documents
and jobs, encrypted or not. The first five hold with pids reissued or not, the last
three where no pid is issued again. `PoolAssumption` has the two
sets finite because the accounting counts threads. The inductive invariant of the
books is

    PoolInv == QueueTyped /\ DocsTyped /\ WorldTyped /\ LocalTyped
               /\ (\A t \in Threads : Row(t)) /\ OneThreadPerJob /\ SentJobs
               /\ OpensFit /\ PoolAccounting /\ CloseWaitsForPool

`Row(t)` ties `pc[t]` to the rest of the thread: to its job (`JobRow`), to the kind
of job (`KindRow`), to the phase of the exchange (`PhaseRow`), to whether it has a
worker (`WorkerRow`) and to the verdict it carries (`VerdictRow`). `SentJobs`: a
job names a document that was published. `OpensFit`: there is a slot left for every
open still under way. The accounting needs the rows to know for which document a
thread is counted, and `CloseWaitsForPool` is not inductive without the accounting:
a close takes the pool when the idle workers are as many as `spawned`, and that no
thread is counted then is what the equation says. A thread's step changes its own
row (`MoverKeepsItsRow`, `OthersKeepTheirRows`) and at most one document, by one
lemma per action (`CheckoutGrowDocs`, `CheckinDocs`, `CloseTakeDocs`, ...), from which
`BooksOfOne` balances that document's books; `ThreadsKeepPoolInv` puts these together,
and `SendKeepsPoolInv`, `RetireIdleKeepsPoolInv`, `RetireKillKeepsPoolInv` and
`QuietKeepsPoolInv` are for the rest of `Next`. For `OutlivedNeverStarts`,
`StepsKeepLatch` says that a diagnosis stays while its document is open, and
`StepsLetNobodyJoin`, with `WhoJoinsWasServed`, that a thread comes to count for a
document only by a checkout that was not refused or by the open itself.

Ownership is about *places*: a thread's worker, an element of `idle`, of a close's
`dropping`, of `retired`.

    OwnerInv == PoolInv /\ NoClash /\ OwnedAlive /\ NoOrphan /\ SlotsAndCorpses

`NoClash`: no two places have workers of the same pid that are both not reaped (and
none of the same pid at all where pids are not reissued). `OwnedAlive`: what is not
reaped is a child. `NoOrphan`: every child is in some place. `SlotsAndCorpses`: a
closed slot is empty, and a worker that is being struck off was reaped. An action
moves a worker from one place to another, and has a lemma that says which. The
property counts owners where the invariant compares places; the lemmas before
`EachProcessIsOwnedOnce` turn the one into the other.

Three results rest on these two invariants:

* The in-flight table. `CallsMatch` says that its entries can be matched one to one
  with the threads in an exchange, pid by pid; a call's beginning adds to the match
  (`MatchGrows`) and its first take removes from it (`MatchShrinks`). The second take
  must find nothing (`DropFindsNothing`): the thread still has the worker, and where
  no pid is issued again no other thread in an exchange has its pid (`PidsDiffer`,
  from `NoClash`). Where pids are issued again it may find another call's entry,
  and the theorem does not hold (section 5).
* The senders. `SendersKnown`: a pid is among a pool's senders exactly while a worker
  of it is idle there or lent. That striking one off removes nobody else's needs
  `NoClash`, and that a close leaves nobody lent needs `CloseWaitsForPool`. The
  property is about pids that are not issued again, and so is the theorem.
* The corpses. A thread's worker is `Doomed` when the thread knows that the supervisor
  killed it, or will be told as its call ends. `OneCorpse`: of the workers that are
  dead, and in a pool or lent from it and not doomed, there is one at most. No step
  adds such a worker (`NoNewCorpse`): whom the supervisor kills is in an exchange,
  in nobody else's hands (`NoClash`) and doomed at once (`TheKilledAreDoomed`); a
  thread does not forget (`StaysDoomed`), since the entry it takes out is its own
  (`CallsMatch`, with distinct pids); and who is adopted is alive (`FreshIsAlive`).
  A document is born with the one worker that may be dead already (`BornWithOne`).

### The spare worker (`SpareSlotProofs`)

`SpareTypes` (`TypeOK`), `SpareClaimedOnce` (`OneClaim`) and `SpareOwnedOnce`
(`SparesHaveOneOwner`), for any sets of calls, openers and pids. `OneClaim` needs
that a call in the claimed stretch is the only one, and that what `settled` clears
was its own. `SparesHaveOneOwner` needs on top of it what each call and each opener
may hold where it stands (`CallRows`, `OpenerRows`), that what is owned is a child
(`OwnedIsThere`), that no two owners have one pid (`OwnersDiffer`), and that no
child is without an owner (`NoneIsLeaked`).

### The journal (`JournalProofs`)

| Theorem | Property |
|---|---|
| `NothingReplayedIsRefused` | `NoReplayIsRefused` |
| `SnapshotsAreTrue` | `SnapshotsServeReplay` |
| `NowIsReplayed` | the working document is what the journal makes of the opened file |
| `NoBodyLeaks` | `BodiesMatchJournal` |
| `TablesFit` | `TypeOK`, which is about how the tables of a document fit together |
| `NeverTextAndRedactions` | `TextOrRedactions` |
| `OnePlacement` | `EditedImportIsPlacedOnce` |
| `UndoIsExact` | `ImplementsUndoHistory` |

For any file, any imports offered, any gestures of the eraser, any number of edits,
undos and redos, and any distance between snapshots. There are three layers.

    Sound   == Typed /\ Issuing /\ SourcesIssued /\ Matching
               /\ Current /\ NoReplayIsRefused /\ SnapshotsServeReplay
    Healthy == \A k \in 0..Len(journal) : WellFormed(DocumentAt[k], ...)
    Resting == cursor \in TrueStops

`Sound` is what undo by replay rests on. `Issuing`: a number is brought in by one
entry of the journal and is below the next to be issued, so that a new edit prunes
nobody else's body. `Matching`: the tables hold what the journal names. `Current`:
what is shown is what the journal says. An edit drops the redo tail and the bodies
that only it named, and every earlier entry must still replay: that is `DocumentsAfter`,
for which the selections that commands look up must outlive the pruning (`Matching`
again). `DocumentAt` is a recursive function over a journal of any length; its values
are never computed, and what is needed of it is proved by the least position at which
it could fail (`LeastNumber`, `OneRuleOneCourse`): two courses that begin alike and
follow one rule are one, which is why a replay from a snapshot ends where a replay
from the start does.

The rules between edits hold in the document shown because they hold in **every**
document the journal can bring back, the undone ones included. `Healthy` says so, and
it is what makes `TextOrRedactions` and `EditedImportIsPlacedOnce` inductive: a redo
brings back a document that no rule has been checked against since. `WellFormed` says
that the order, the pages and the marks fit, that live and buried numbers are
disjoint and issued, and the two rules. There is one lemma per command.

For the refinement the abstract past is the documents at the stops below the cursor,
a stop being where no gesture is split. `Resting`: between calls the cursor is at one.
Then an undo goes to the nearest stop, which is the last of the past, and an edit
that continues a gesture moves a stop instead of adding one (`EditRests`, `UndoRests`,
`RedoRests`).

### The search (`SearchWalkProofs`)

| Theorem | Property |
|---|---|
| `SearchTypes` | `TypeOK` |
| `ListIsWhatThereIs` | `ListIsInReadingOrder` |
| `MarksAreWhatWasListed` | `MarksAreTheHits` |

For any number of pages of either file in any order, any length of a run, any chunk,
any numbers of searches, edits and failures. The inductive invariant is

    SearchInv == OrderOK /\ WalksOK /\ PresentOK /\ MarkOK /\ Counted

`WalksOK` is what a walk keeps for itself, superseded or not. `PresentOK` is about the
one walk whose replies are filed, and says what its list is worth at each point:

* `PlanOK`: neighbours in the plan are neighbours on the screen, except at the wrap,
  and a plan has each page once;
* `CarriedOK`, `AskedOK`: what is carried is the tail of the page before in the plan,
  and what is asked for is the plan's next pages, as the slots drew them;
* `FoundBefore`: there are places `A` of the hits along the plan such that the list is
  the hits at `A`, in that order, and pages `U` that could not be read, as many as
  `unread` says, such that every hit before the walk's place is at `A` or hidden by a
  page of `U`; and nothing is carried only at the beginning or behind a page of `U`.

The last clause is why the hit across a break is neither lost nor found twice when a
page is missed: the page after it has nothing to join to. `A` and `U` are not in the
code and the model has no variable for them; each step's lemma names those of the next
state. The join of a walk that wrapped is the last place of the plan, and is found
only if page one of the plan was asked again with what the last page left
(`LooksBehind`).

That a reply extends the list is a fact about subsequences: the hits of the first `n`
answers, filtered, are the hits along the plan at the places they cover
(`AnswersAgree`, with `SubsequenceOfParts`). That the list can be recovered from its
values, as `ListIsInReadingOrder` states it, is `SubsequenceByValue` with the lemma
that no two hits of a plan are equal (`GoodHits`); that at most three hits are missing
for a page not read is `HiddenAreFew`. `Subsequence` is a fold over places where a
filter by value would do in TLC: it can be reasoned about.

`MarkOK` follows a marking: every half of every hit listed is handed over already or
on a page still to be loaded, and what was loaded is what the slots draw, which holds
because `SamePages` is asked after each load.

### The document table (`DocumentsProofs`)

`TableTypes` (`TypeOK`), `PoolsOwned` (`PoolsAreOwned`: all but a `lost` document's
pool have somebody left who will close them) and `OwnedNotClosed`
(`OwnedIsNotClosed`) for any number of commands, files, documents, imports and
reloads, reloads with three documents included, which the run leaves out. The
inductive invariant is

    TableInv  == TypeInv /\ Ownership
    TypeInv   == TypeOK /\ TaskWhere /\ HeldWhere
    Ownership == ClosedIsEmpty /\ OneOwner /\ NamedIsDocument /\ ClosedWasOpened
                 /\ OwnedIsNotClosed /\ PoolsAreHeld

`HeldWhere`: a command holds a pool exactly between its opening and its hand-over,
and an import that waits has one. `ClosedIsEmpty`: what `Edits::close` hands back
is all that the document kept. `OneOwner`: letting go of a pool leaves no second
owner behind. `NamedIsDocument`: a close or a save names a document and never
another document's pool, so that it closes nobody else's. `ClosedWasOpened`: a
number that the service has not used yet has no close on its way. `PoolsAreHeld`:
an open pool has an owner, or its close or a sweep is on the way. `OwnedIsNotClosed`
and `PoolsAreHeld` are not inductive without each other or without these. Types are kept by
`CallKeepsTypes` and `CommandKeepsTypes`; ownership by one lemma per kind of step
(`FrameKeeps`, `DropKeeps`, `CloseModelKeeps`, `ServiceOpensKeeps`, `InsertKeeps`,
`PrepareKeeps`, `TakeKeeps`, `PlaceKeeps`, `CancelKeeps`, `ReleaseKeeps`,
`JobsKeep`).

An owner that is a document closes nothing by itself, so `PoolsOwned` needs a second
invariant on top:

    Names == every document with a model is one the page can close, or has been
             sent the close of, or is lost, or a release is on its way; what is lost
             is named by no command and has taken no pages

A page forgets a document only as it sends its close or as its save, which closed
the model before, is over; a reload makes it forget all of them, and the release it
sends is what holds the invariant until they are gone (`CallKeepsNames`,
`InsertKeepsNames`, `LostKeepNothing`, `CommandKeepsNames`).

### The save (`SaveOverProofs`)

`SaveTypes` (`TypeOK`), `NeverTorn` (`OldOrNew`), `SavedOverWhatWasOpened`
(`SavedIsWhatWasOpened`) and `EndingsAreTrue` (`HonestEnding`), for any number of
writes of other programs before, under, between and after the checks, and a stop
of the machine anywhere. The inductive invariant `SaveInv` follows the save through its stages:

* where it is: `NameWhere` (the staged file has the name only when the save is
  over, and what is staged, synced and held open at each step), `OpenWhere`;
* what the checks are worth: `WriteShows` (a write of another program is seen in
  the bytes) and, while nobody wrote `blind`, `HashIsOfOriginal` (a hash that was
  taken is that of the file as it was opened, and one being read is, or else its
  length or time tells), `ComparedIsOriginal` (so is what the save compared, and what
  has the name since then is that file or can be told from it), `StagedIsOriginal` (so
  is what it staged, unless another file has the name, and then the last look finds
  that; and so is what the rename replaces);
* how far the write is: `TailWhere`, `AppendInOrder` (with `Sound`: what may be in
  the buffers for what is on the disk), `SavedWhole` (the name has the whole save, or
  after a stop the file that had the name before, without any of it);
* `ToldTruly`.

The hash alone would not do: it may be read while another program writes. That the
save is refused all the same is `ComparedIsOriginal`, whose step needs `WriteShows`.
Without the condition on `blind` none of the three is inductive: a write under the
hash that puts the time back leaves a hash of other bytes, and one between the
reading and the last look is not looked for.

### The page's queues (`PageTasksProofs`)

`PageTypes` (`TypeOK`), `SaveTakesEvery` (`SaveTakesEveryEdit`), `WindowShows`
(`WindowShowsTheModel`) and `NothingClosedUnasked` (`NothingIsClosedUnasked`, an action
property), for any number of documents, edits and requests. The inductive invariant is

    PageInv == TypeOK /\ EditsInOrder /\ EditsHere /\ WindowOK /\ OthersWait
               /\ OneBodyRuns /\ SaveAwaits /\ WindowFollows

`EditsInOrder`: one edit runs, those of a document are in the order they were made, and
the model has none that is not answered. `EditsHere`: an edit made since the document
was mounted is of the document that is shown and not after `pendingEdit`, so that to
wait for the one is to wait for all; what was taken down is no longer among them.
`OthersWait` and `OneBodyRuns`: of the bodies only the first is past its beginning, and
what it waits for is an edit of the document that is shown. `SaveAwaits` is what the
save's promise needs: from the moment a save is sure of its document, every edit of it
made since it was mounted is one that the save itself, or the body that began to settle
beside it, waits for. Without the body's half it is not inductive: a body that takes
down the document while the save settles is what lets the save go on. `WindowFollows`:
the state the page has is the model's, or the reply that says so is the next to be
adopted; a document about to be mounted included. Closes of several tabs pass through
the same lemmas: what they queue has nothing begun (`BodyLeaves`, `CloseSeveralKeeps`).

### What is behind a tab, and what is under a page (`DocumentsProofs`, `JournalProofs`)

The runs check `MCDocuments` and `MCJournal`, which compose modules by INSTANCE, and
whose properties are those of the parts while the part moves. `EachKeepsItsSpec` and
`BothKeepTheirSpec` show that a behaviour of the composition is one of each part, the
others' steps being stutters, and the theorems about the parts carry over:

| Theorem | Property, as the run states it |
|---|---|
| `DocumentsTypes`, `AllTypes` | `AllTypesOK` of each |
| `FileIsOldOrNew` | `OldOrNew` |
| `SavedOverTheOpened` | `SavedIsWhatWasOpened` |
| `EndingsAreHonest` | `HonestEnding` |
| `SavesTakeEveryEdit` | `SaveTakesEveryEdit` |
| `TheWindowShowsTheModel` | `WindowShowsTheModel` |
| `NoTabIsClosedUnasked` | `NothingIsClosedUnasked` |
| `TheListIsWhatThereIs` | `ListIsInReadingOrder` |
| `TheMarksAreTheHits` | `MarksAreTheHits` |

A theorem about a part is had through an instance of the module of its proofs
(`SaveP`, `PageP`, `SearchP`), and `SaveMoves`, `PageMoves` and `SearchMoves` say that
its steps are those of the instance that is checked.

TLC had found every one of these invariants to hold on an instance before it was
proved.

### Only model-checked

* `NothingIsStuck`, which is about ENABLED, and every liveness property
  (`EveryTileAnswered`, `EveryJobAnswered`, `ClaimComesBack`, `NoWaiterLeaked`):
  both are out of the prover's reach;
* the tile path with reloads, where the properties that need distinct ids do not hold
  (run `render_reload`).

Of the pool's in-flight table, its senders, its corpses and the answer to every job
nothing is claimed where pids are issued again: the first is violated there (section
5), and the others rest on it or on pids that tell workers apart.

## 5. Where the code and its comments part

1. `render.rs:124` calls a tile's `rid` "unique for the life of the process"; the
   counter is the page's (`tiles.ts:170`) and starts again with a reload, while
   the process and its queue stay. A withdrawal can then name two requests.
   Run `render_reload`.
2. `App.svelte:5650` says that the sweep of a starting page runs before anything
   opens a document, so that it cannot drop what the page was just given. The
   call is not awaited, and `release_all` reads the open ids on whichever service
   thread took it, so that an open sent later and served by another thread can be
   swept. Run `pool_sweep`.
3. `workers.rs:1572` says `kill_pid` signals a child that is still unreaped.
   `settled` also calls it when the waiter could not be started and its child was
   dropped, killed and reaped. Run `spare_signal`.

4. `webopen.rs:102` and `:122` say that the tokens of a closed document name
   nothing. `document_links` and `document_outline` await the service and then
   adopt the addresses (`commands/read.rs:175`) without asking whether the
   document is still open, so that an answer given before a close is adopted
   after it. Run `documents_tokens`.
5. The comment on `completeForMarking` (`search.ts`) says that every page has to
   have been searched before every hit is marked, and the one on `generation`
   that replies to an older search are dropped. `visitRun` returns 0 for a run
   that was refused before it looks at the generation (`search.ts:728`); the walk
   then asks for the run's first page, and when that slot is gone `visit` passes
   it over, the old walk reaches its end and sets `running` to false under the
   newer search. The steps: a search waits for the run of the last pages; those
   pages are deleted; a second search begins and has its first hits; the old
   request fails. The hits so far can now be marked as if they were all.
   `MarkedListIsWhole` states it. It has no run of its own; with `Pages = 4`,
   `MaxReorders = 2` and `Spec` TLC finds it violated in seven states.
6. `workers.rs:1485` says that `Drop` runs immediately after `CallWatch::end` and
   finds nothing to remove. Both take by pid, in two critical sections. Where a worker
   was reaped inside its exchange (a reply over its bound, an epitaph), its pid may
   belong to a new worker, in a call of another thread, by the time of the second: its
   entry is taken, and that call has no deadline. `EntriesAreCalls` states it, and the
   run `pool` checks it where no pid is issued again; with `Reissue = TRUE`, two
   threads, two pids and two places TLC finds it violated in 22 states.
7. `commands/document.rs:541` says that `release_documents` releases every document
   the backend still holds when a webview starts, so that none is left unreachable
   with its pool alive. An open of the page before, which the service publishes
   after the sweep has read the open ids, is entered afterwards (`edits.open`, line
   355) and answered to nobody. `ReloadLeavesNothing` states it and has no run of its
   own; with two commands, one document and `MaxReloads = 1` TLC finds it violated in
   seven states. `PoolsAreOwned` excepts that document by the name `lost`.
8. `App.svelte:3144` calls `pendingEdit` the edit that has been asked for and not yet
   answered, and `:3569` has a save wait for it. `unmountDocument` resets it
   (`livedocument.ts:117`). The steps: an edit is made while a switch of tabs settles;
   the switch does not wait for that one; the tab is shown again before it is
   answered; a save waits for nothing and is planned without it. `NoEditIsMissed`
   states it and has no run of its own; with two documents, `MaxEdits = 2`,
   `MaxRequests = 3` and `Spec` TLC finds it violated in 21 states. `SaveTakesEveryEdit` and
   `NothingIsClosedUnasked` except what is `left`.
9. `App.svelte:1359` says that `asked` is set when the caller has asked about the
   unsaved work. `closeTabs` sets it also when it found none and asked nothing, and
   closes each tab in a body of its own: what is edited after it began to settle is
   discarded unasked. `AskedOnceIsEnough` states it and has no run of its own; with the
   same constants TLC finds it violated in 15 states. `NothingIsClosedUnasked` excepts
   such closes.

Smaller things, which the models have and no property forbids. A request
dequeued before a close may be told its document is closed (`render.rs:1274`
argues it cannot), and the retry after a crash may have to wait for the place
that it gave up (`workers.rs:1344` says it cannot block); neither harms, and
`EveryJobAnswered` covers both. Opening a tab behind the others (`App.svelte:6231`)
does not say that a body is running, so that a save can start beside it, and a
switch of tabs behind it then settles while the save is being written: what its
popups commit is accepted and comes after the plan. `SaveTakesEveryEdit` excepts
that case by the name `Beside`. `reloadAnyway` (`App.svelte:5300`) is not
modelled, but has the shape of a close: an edit made between its question and the
unmount is lost without another. Neither is `closeAllTabs` (`App.svelte:1404`), which
asks once, like `closeTabs`, and releases every document from one body. A save that
the machine's stop follows may be undone with its rename (`commit` does not flush the
directory): the old file is there, which no comment denies.

## 6. Not modelled, and why

Bytes and layout: content streams, fonts, compression, signatures, certificate
chains, PDF structure, OCR engines: pure functions over data too large for TLC
and without state. Platform spoolers and the updater: the state is not tpdf's.
Sandboxing: a property of system calls. Passwords and payloads of requests. The
user interface beyond the calls it makes. Withdrawals inside WorkerPool (they
change no book of the pool) and pool effects inside RenderService (a thread has a
worker to itself). Condition variables wake all waiters and spurious wakeups are
not modelled: a woken thread checks its condition again, so one would change
nothing. Nine commands of the journal: `Crop`, `Fill`, `TabOrder`, `Refield`,
`Rewrite` and `Discard`, and `Renote`, `Recolor` and `Refit`, which repeat `Reink`
with another table. Of saving: a copy, merge and split, and the helper process of
`save_outside.rs`. The page's watch of the file. The second pane and its twins, a
close of all tabs, the document tasks other than the save, and the restore of a
session's tabs. The page
text cache, the matching of a search, and the texts a recovered search starts
from.

## 7. Plan

Done: the tile path, the pool, the spare, the journal, the document table with its
imports, the save over a file, the page's queues, the search. Proved: every safety
property and action property that a passing run checks, `NothingIsStuck` excepted,
and both refinements.

Next, in this order:

1. Reloads in the proofs of the tile path: what still holds of it when two outstanding
   requests may share an id.
2. The page's watch of the file (`diskwatch.ts`) beside `SaveOver`, and a save of
   a copy.
3. The second pane in `PageTasks`, and the document tasks other than the save.
4. The remaining commands of the journal, the page text cache, the OCR gate.
