---------------------------- MODULE RenderService ----------------------------
(***************************************************************************)
(* Tile requests and their withdrawal, end to end: render.rs (tile,        *)
(* cancel), the tile path of workers.rs (Engine::tile, Workers::render,    *)
(* broadcast_withdraw) and the worker process's own two threads            *)
(* (worker_child.rs).                                                      *)
(*                                                                         *)
(* A request goes   page -> table and channel -> service thread -> pipe -> *)
(* worker's reader thread -> worker's render thread -> pipe -> thread,     *)
(* and its withdrawal is a second message that may meet it anywhere.       *)
(*                                                                         *)
(* Abstraction: each service thread t has the worker t to itself (which    *)
(* worker a thread gets is WorkerPool's subject), and every request is for *)
(* one open document.  incarnation[t] stands for the worker's pid.         *)
(***************************************************************************)
EXTENDS Naturals, Sequences, FiniteSets

CONSTANTS Threads,      \* the service threads, and so the workers
          NoThread,
          MaxRequests,  \* bound: tiles the page asks for
          MaxReloads,   \* bound: webview reloads
          MaxCrashes,   \* bound: worker deaths
          MaxPanics     \* bound: panics of a service thread

ASSUME ThreadAssumption == Threads # {} /\ NoThread \notin Threads

ASSUME BoundAssumption ==
    /\ MaxRequests \in Nat \ {0}
    /\ MaxReloads \in Nat /\ MaxCrashes \in Nat /\ MaxPanics \in Nat

Req == 1..MaxRequests
NoReq == 0
Rids == 0..MaxRequests

T == INSTANCE WithdrawTable WITH Rid <- Rids, Holder <- Threads,
                                 NoHolder <- NoThread

VARIABLES
    asked,          \* how many tiles have been asked for
    lastRequestId,  \* the page's counter
    reloads,
    rid,            \* rid[r]: the id request r carries
    stage,          \* stage[r]: how far the call of tile() and the channel got
    answer,         \* answer[r]: what the page was told
    withdrawn,      \* the requests the page has withdrawn
    table,          \* the service's withdraw table
    chan,           \* the job channel
    pc, job, token, verdict, retried,             \* the service threads
    pipe, wtable, wchan, wpc, wtoken, wreply,      \* the workers
    incarnation, crashes, panics,
    cancel          \* the withdrawal being carried out

page == <<asked, lastRequestId, reloads, rid, stage, answer, withdrawn>>
service == <<table, chan, pc, job, token, verdict, retried>>
worker == <<pipe, wtable, wchan, wpc, wtoken, wreply, incarnation, crashes>>
vars == <<page, service, worker, panics, cancel>>

Everyone == [thread : Threads \cup {NoThread}, incarnation : 0..MaxCrashes]
NoCancel == [pc |-> "idle", rid |-> 0,
             to |-> [thread |-> NoThread, incarnation |-> 0]]
Line == [kind : {"tile", "withdraw"}, rid : Rids]

TypeOK ==
    /\ asked \in 0..MaxRequests
    /\ lastRequestId \in 0..MaxRequests
    /\ reloads \in 0..MaxReloads
    /\ rid \in [Req -> Rids]
    /\ stage \in [Req -> {"unasked", "enqueued", "sent", "taken", "answered"}]
    /\ answer \in [Req -> {"none", "rendered", "abandoned", "failed"}]
    /\ withdrawn \subseteq Req
    /\ table \in T!Table
    /\ chan \in Seq(Req)
    /\ pc \in [Threads -> {"idle", "taken", "claimed", "calling", "waiting",
                           "judged", "dead"}]
    /\ job \in [Threads -> Req \cup {NoReq}]
    /\ token \in [Threads -> BOOLEAN]
    /\ verdict \in [Threads -> {"none", "rendered", "abandoned", "failed"}]
    /\ retried \in [Threads -> BOOLEAN]
    /\ pipe \in [Threads -> Seq(Line)]
    /\ wtable \in [Threads -> T!Table]
    /\ wchan \in [Threads -> Seq(Rids)]
    /\ wpc \in [Threads -> {"idle", "rendering", "dead"}]
    /\ wtoken \in [Threads -> BOOLEAN]
    /\ wreply \in [Threads -> {"none", "abandoned", "drawn", "error"}]
    /\ incarnation \in [Threads -> 0..MaxCrashes]
    /\ crashes \in 0..MaxCrashes
    /\ panics \in 0..MaxPanics
    /\ cancel \in [pc : {"idle", "address", "send"}, rid : Rids, to : Everyone]

Init ==
    /\ asked = 0 /\ lastRequestId = 0 /\ reloads = 0
    /\ rid = [r \in Req |-> 0]
    /\ stage = [r \in Req |-> "unasked"]
    /\ answer = [r \in Req |-> "none"]
    /\ withdrawn = {}
    /\ table = T!EmptyTable
    /\ chan = <<>>
    /\ pc = [t \in Threads |-> "idle"]
    /\ job = [t \in Threads |-> NoReq]
    /\ token = [t \in Threads |-> FALSE]
    /\ verdict = [t \in Threads |-> "none"]
    /\ retried = [t \in Threads |-> FALSE]
    /\ pipe = [t \in Threads |-> <<>>]
    /\ wtable = [t \in Threads |-> T!EmptyTable]
    /\ wchan = [t \in Threads |-> <<>>]
    /\ wpc = [t \in Threads |-> "idle"]
    /\ wtoken = [t \in Threads |-> FALSE]
    /\ wreply = [t \in Threads |-> "none"]
    /\ incarnation = [t \in Threads |-> 0]
    /\ crashes = 0 /\ panics = 0
    /\ cancel = NoCancel

-----------------------------------------------------------------------------
\* The page and the calling side of the service.

\* A tile is asked for, with a fresh id or as not withdrawable, and tile()
\* enters it in the table before it sends the job.
Ask(id) ==
    /\ asked < MaxRequests
    /\ id \in {0, lastRequestId + 1}
    /\ asked' = asked + 1
    /\ lastRequestId' = IF id = 0 THEN lastRequestId ELSE id
    /\ rid' = [rid EXCEPT ![asked + 1] = id]
    /\ stage' = [stage EXCEPT ![asked + 1] = "enqueued"]
    /\ table' = T!Enqueue(table, id)
    /\ UNCHANGED <<reloads, answer, withdrawn, chan, pc, job, token, verdict,
                   retried, worker, panics, cancel>>

\* The channel has a receiver as long as one service thread lives.
Listening == \E t \in Threads : pc[t] # "dead"

Send(r) ==
    /\ stage[r] = "enqueued"
    /\ IF Listening
       THEN /\ chan' = Append(chan, r)
            /\ stage' = [stage EXCEPT ![r] = "sent"]
            /\ UNCHANGED <<table, answer>>
       ELSE /\ table' = T!Forget(table, rid[r])
            /\ stage' = [stage EXCEPT ![r] = "answered"]
            /\ answer' = [answer EXCEPT ![r] = "failed"]
            /\ UNCHANGED chan
    /\ UNCHANGED <<asked, lastRequestId, reloads, rid, withdrawn, pc, job,
                   token, verdict, retried, worker, panics, cancel>>

\* A reloaded page starts its module-level counter again; the process, its
\* table and its workers stay.
Reload ==
    /\ reloads < MaxReloads
    /\ reloads' = reloads + 1
    /\ lastRequestId' = 0
    /\ UNCHANGED <<asked, rid, stage, answer, withdrawn, service, worker,
                   panics, cancel>>

\* cancel(rid), first half: the service's own table.
Withdraw(r) ==
    /\ r <= asked /\ r \notin withdrawn
    /\ cancel.pc = "idle"
    /\ withdrawn' = withdrawn \cup {r}
    /\ table' = T!Withdraw(table, rid[r])
    /\ token' = [t \in Threads |-> token[t] \/ t \in T!Fired(table, rid[r])]
    /\ cancel' = [NoCancel EXCEPT !.pc = "address", !.rid = rid[r]]
    /\ UNCHANGED <<asked, lastRequestId, reloads, rid, stage, answer, chan, pc,
                   job, verdict, retried, worker, panics>>

\* The in-flight table names a call from the start of its watch to its end.
InCall(t) == pc[t] \in {"calling", "waiting"}

HolderOf(id) ==
    IF id = 0 THEN {} ELSE {t \in Threads : InCall(t) /\ rid[job[t]] = id}

\* broadcast_withdraw reads the in-flight table, drops that lock ...
Address ==
    /\ cancel.pc = "address"
    /\ \/ /\ HolderOf(cancel.rid) = {}
          /\ cancel' = [cancel EXCEPT !.pc = "send"]
       \/ \E t \in HolderOf(cancel.rid) :
             cancel' = [cancel EXCEPT !.pc = "send", !.to =
                           [thread |-> t, incarnation |-> incarnation[t]]]
    /\ UNCHANGED <<page, service, worker, panics>>

\* ... and writes to that worker, or to all if the pool no longer has it.
\* A write to a dead worker fails and is ignored.
Broadcast ==
    LET named == cancel.to.thread
        known == named # NoThread /\ incarnation[named] = cancel.to.incarnation
        aimed == IF known THEN {named} ELSE Threads
    IN  /\ cancel.pc = "send"
        /\ pipe' = [t \in Threads |->
                       IF t \in aimed /\ wpc[t] # "dead"
                       THEN Append(pipe[t], [kind |-> "withdraw",
                                             rid |-> cancel.rid])
                       ELSE pipe[t]]
        /\ cancel' = NoCancel
        /\ UNCHANGED <<page, service, wtable, wchan, wpc, wtoken, wreply,
                       incarnation, crashes, panics>>

-----------------------------------------------------------------------------
\* A service thread.

Step(t, from, to) == pc[t] = from /\ pc' = [pc EXCEPT ![t] = to]

Take(t) ==
    /\ Step(t, "idle", "taken")
    /\ chan # <<>>
    /\ job' = [job EXCEPT ![t] = Head(chan)]
    /\ chan' = Tail(chan)
    /\ stage' = [stage EXCEPT ![Head(chan)] = "taken"]
    /\ UNCHANGED <<asked, lastRequestId, reloads, rid, answer, withdrawn,
                   table, token, verdict, retried, worker, panics, cancel>>

\* mutant of Reply: a withdrawn request's reply is dropped
SilentReply(t, outcome) ==
    /\ pc' = [pc EXCEPT ![t] = "idle"]
    /\ job' = [job EXCEPT ![t] = NoReq]
    /\ IF outcome = "abandoned"
       THEN UNCHANGED <<answer, stage>>
       ELSE /\ answer' = [answer EXCEPT ![job[t]] = outcome]
            /\ stage' = [stage EXCEPT ![job[t]] = "answered"]

\* The reply callback, and back to recv.
Reply(t, outcome) ==
    /\ pc' = [pc EXCEPT ![t] = "idle"]
    /\ answer' = [answer EXCEPT ![job[t]] = outcome]
    /\ stage' = [stage EXCEPT ![job[t]] = "answered"]
    /\ job' = [job EXCEPT ![t] = NoReq]

\* Engine::tile claims before it looks for a worker.
Claim(t) ==
    /\ pc[t] = "taken"
    /\ table' = T!Claim(table, rid[job[t]], t)
    /\ IF T!ClaimWithdrawn(table, rid[job[t]])
       THEN Reply(t, "abandoned") /\ UNCHANGED <<token, retried>>
       ELSE /\ pc' = [pc EXCEPT ![t] = "claimed"]
            /\ token' = [token EXCEPT ![t] = FALSE]
            /\ retried' = [retried EXCEPT ![t] = FALSE]
            /\ UNCHANGED <<answer, stage, job>>
    /\ UNCHANGED <<asked, lastRequestId, reloads, rid, withdrawn, chan,
                   verdict, worker, panics, cancel>>

\* checkout and CallWatch::start: from here the in-flight table names the call.
StartCall(t) ==
    /\ Step(t, "claimed", "calling")
    /\ UNCHANGED <<page, table, chan, job, token, verdict, retried, worker,
                   panics, cancel>>

\* Worker::call writes the request line; the pipe of a dead worker takes none.
WriteTile(t) ==
    /\ Step(t, "calling", "waiting")
    /\ pipe' = [pipe EXCEPT ![t] =
                   IF wpc[t] = "dead" THEN @
                   ELSE Append(@, [kind |-> "tile", rid |-> rid[job[t]]])]
    /\ UNCHANGED <<page, table, chan, job, token, verdict, retried, wtable,
                   wchan, wpc, wtoken, wreply, incarnation, crashes, panics,
                   cancel>>

Judge(t, outcome) ==
    /\ pc' = [pc EXCEPT ![t] = "judged"]
    /\ verdict' = [verdict EXCEPT ![t] = outcome]

\* mutant of Verdict: the worker's answer is believed
WorkersWord(t) == CASE wreply[t] = "error" -> "failed"
                    [] wreply[t] = "abandoned" -> "abandoned"
                    [] OTHER -> "rendered"

\* A tile drawn for a request withdrawn meanwhile is dropped: this side's
\* token decides, not the worker's answer.
Verdict(t) == IF wreply[t] = "error" THEN "failed"
              ELSE IF wreply[t] = "abandoned" \/ token[t] THEN "abandoned"
              ELSE "rendered"

\* Workers::render reads the reply.
ReadReply(t) ==
    /\ pc[t] = "waiting"
    /\ wreply[t] # "none"
    /\ Judge(t, Verdict(t))
    /\ wreply' = [wreply EXCEPT ![t] = "none"]
    /\ UNCHANGED <<page, table, chan, job, token, retried, pipe, wtable, wchan,
                   wpc, wtoken, incarnation, crashes, panics, cancel>>

\* mutant of Lost: a worker that is slow is taken for dead
LostOnSilence(t) == pc[t] = "waiting" /\ wreply[t] = "none"

Lost(t) == pc[t] = "waiting" /\ wpc[t] = "dead" /\ wreply[t] = "none"

\* The worker died and is_running saw it: discard, and the one retry.
Replace(t) ==
    /\ Lost(t) /\ ~retried[t]
    /\ pc' = [pc EXCEPT ![t] = "claimed"]
    /\ retried' = [retried EXCEPT ![t] = TRUE]
    /\ wpc' = [wpc EXCEPT ![t] = "idle"]
    /\ incarnation' = [incarnation EXCEPT ![t] = @ + 1]
    /\ UNCHANGED <<page, table, chan, job, token, verdict, pipe, wtable, wchan,
                   wtoken, wreply, crashes, panics, cancel>>

\* The retry died as well, or is_running still called the corpse alive: the
\* error is the answer and the corpse goes back to the pool.
GiveUp(t) ==
    /\ Lost(t)
    /\ Judge(t, "failed")
    /\ UNCHANGED <<page, table, chan, job, token, retried, worker, panics,
                   cancel>>

\* Queue::release, then the reply callback.
Release(t) ==
    /\ pc[t] = "judged"
    /\ table' = T!Release(table, rid[job[t]])
    /\ Reply(t, verdict[t])
    /\ verdict' = [verdict EXCEPT ![t] = "none"]
    /\ UNCHANGED <<asked, lastRequestId, reloads, rid, withdrawn, chan, token,
                   retried, worker, panics, cancel>>

\* A panic inside a job ends its thread; nothing releases the claim and
\* nothing answers.  The last thread takes the channel with it.
Panic(t) ==
    /\ panics < MaxPanics
    /\ pc[t] = "claimed"
    /\ pc' = [pc EXCEPT ![t] = "dead"]
    /\ panics' = panics + 1
    /\ chan' = IF \E u \in Threads \ {t} : pc[u] # "dead" THEN chan ELSE <<>>
    /\ UNCHANGED <<page, table, job, token, verdict, retried, worker, cancel>>

-----------------------------------------------------------------------------
\* A worker process: a reader thread and a render thread.

\* The reader applies a withdrawal on the spot and registers a tile on
\* arrival, before it hands the tile to the render thread.
ReadLine(t) ==
    LET line == Head(pipe[t])
    IN  /\ wpc[t] # "dead" /\ pipe[t] # <<>>
        /\ pipe' = [pipe EXCEPT ![t] = Tail(@)]
        /\ IF line.kind = "withdraw"
           THEN /\ wtable' = [wtable EXCEPT ![t] = T!Withdraw(@, line.rid)]
                /\ wtoken' = [wtoken EXCEPT ![t] =
                                 @ \/ T!Running(wtable[t], line.rid)]
                /\ UNCHANGED wchan
           ELSE /\ wtable' = [wtable EXCEPT ![t] = T!Enqueue(@, line.rid)]
                /\ wchan' = [wchan EXCEPT ![t] = Append(@, line.rid)]
                /\ UNCHANGED wtoken
        /\ UNCHANGED <<page, service, wpc, wreply, incarnation, crashes,
                       panics, cancel>>

\* The render thread's job stays at the head of wchan until it is answered.
WClaim(t) ==
    LET id == Head(wchan[t])
    IN  /\ wpc[t] = "idle" /\ wchan[t] # <<>>
        /\ wtable' = [wtable EXCEPT ![t] = T!Claim(@, id, t)]
        /\ IF T!ClaimWithdrawn(wtable[t], id)
           THEN /\ wreply' = [wreply EXCEPT ![t] = "abandoned"]
                /\ wchan' = [wchan EXCEPT ![t] = Tail(@)]
                /\ UNCHANGED <<wpc, wtoken>>
           ELSE /\ wpc' = [wpc EXCEPT ![t] = "rendering"]
                /\ wtoken' = [wtoken EXCEPT ![t] = FALSE]
                /\ UNCHANGED <<wreply, wchan>>
        /\ UNCHANGED <<page, service, pipe, incarnation, crashes, panics,
                       cancel>>

\* The render ends: abandoned at a pause that saw the token, drawn, or refused
\* (too large for the mapping, an encoder error).  A render that was done
\* before it polled is drawn whatever the token says.
WFinish(t) ==
    /\ wpc[t] = "rendering"
    /\ \E outcome \in {"abandoned", "drawn", "error"} :
          /\ outcome = "abandoned" => wtoken[t]
          /\ wreply' = [wreply EXCEPT ![t] = outcome]
    /\ wtable' = [wtable EXCEPT ![t] = T!Release(@, Head(wchan[t]))]
    /\ wchan' = [wchan EXCEPT ![t] = Tail(@)]
    /\ wpc' = [wpc EXCEPT ![t] = "idle"]
    /\ UNCHANGED <<page, service, pipe, wtoken, incarnation, crashes, panics,
                   cancel>>

\* A process takes its table, its channel and its unread lines with it; a
\* reply it had already written can still be read.
Crash(t) ==
    /\ crashes < MaxCrashes
    /\ wpc[t] # "dead"
    /\ crashes' = crashes + 1
    /\ wpc' = [wpc EXCEPT ![t] = "dead"]
    /\ pipe' = [pipe EXCEPT ![t] = <<>>]
    /\ wtable' = [wtable EXCEPT ![t] = T!EmptyTable]
    /\ wchan' = [wchan EXCEPT ![t] = <<>>]
    /\ wtoken' = [wtoken EXCEPT ![t] = FALSE]
    /\ UNCHANGED <<page, service, wreply, incarnation, panics, cancel>>

-----------------------------------------------------------------------------
ThreadStep(t) ==
    \/ Take(t) \/ Claim(t) \/ StartCall(t) \/ WriteTile(t)
    \/ ReadReply(t) \/ Replace(t) \/ GiveUp(t) \/ Release(t)

WorkerStep(t) == ReadLine(t) \/ WClaim(t) \/ WFinish(t)

Next ==
    \/ \E id \in Rids : Ask(id)
    \/ Reload
    \/ \E r \in Req : Send(r) \/ Withdraw(r)
    \/ Address \/ Broadcast
    \/ \E t \in Threads : ThreadStep(t) \/ WorkerStep(t) \/ Crash(t) \/ Panic(t)

\* Every thread and every process keeps running; pages owe nothing, and deaths
\* are not owed either.  A render that hangs is ended by the deadline of
\* WorkerPool, so WFinish is fair here.
Fairness ==
    /\ \A r \in Req : WF_vars(Send(r))
    /\ WF_vars(Address) /\ WF_vars(Broadcast)
    /\ \A t \in Threads : WF_vars(ThreadStep(t)) /\ WF_vars(ReadLine(t))
                          /\ WF_vars(WClaim(t)) /\ WF_vars(WFinish(t))

Spec == Init /\ [][Next]_vars
FairSpec == Spec /\ Fairness

-----------------------------------------------------------------------------
\* What the tile path promises.

Outstanding(r) == stage[r] \in {"enqueued", "sent", "taken"}
Claimed(t) == pc[t] \in {"claimed", "calling", "waiting", "judged", "dead"}
Unclaimed(r) == Outstanding(r) /\ \A t \in Threads : Claimed(t) => job[t] # r

\* Every entry of the service's table belongs to a request at that stage: an
\* id is queued exactly while its request waits to be claimed, in flight
\* exactly while a thread works on it (or died at it), and marked withdrawn
\* only while queued.  So the tables drain with the work and never grow
\* (queue.rs, the tests on outstanding and pending_withdrawals).
TableMatchesWork ==
    /\ table.cancelled \subseteq table.queued
    /\ table.queued = {rid[r] : r \in {q \in Req : Unclaimed(q)}} \ {0}
    /\ \A t \in Threads :
          /\ Claimed(t) /\ rid[job[t]] # 0 => table.inflight[rid[job[t]]] = t
    /\ \A id \in Rids : T!Running(table, id) =>
          Claimed(table.inflight[id]) /\ rid[job[table.inflight[id]]] = id

\* The places of the tile lines in a pipe.
TileLines(t) == {i \in 1..Len(pipe[t]) : pipe[t][i].kind = "tile"}

\* The same of each worker's own table, which the reader thread fills and the
\* render thread drains; a pipe never holds more than one tile line, so a
\* reply is always the reply to the last request.
WorkerTableMatchesWork ==
    \A t \in Threads :
        /\ wtable[t].cancelled \subseteq wtable[t].queued
        /\ \A id \in Rids : T!Running(wtable[t], id) =>
              wpc[t] = "rendering" /\ id = Head(wchan[t])
        /\ wtable[t].queued \subseteq {wchan[t][i] : i \in 1..Len(wchan[t])}
        /\ Cardinality(TileLines(t)) + Len(wchan[t])
             + (IF wreply[t] = "none" THEN 0 ELSE 1)
             <= IF pc[t] = "waiting" THEN 1 ELSE 0

\* A withdrawal arriving at any instant before the verdict is on record: it
\* either marked the queued request or set the token of the running one
\* (queue.rs:45-49), across the threads, the retry and the concurrent claims.
WithdrawalIsOnRecord ==
    \A r \in withdrawn : rid[r] # 0 =>
        /\ Unclaimed(r) => rid[r] \in table.cancelled
        /\ \A t \in Threads :
              job[t] = r /\ pc[t] \in {"claimed", "calling", "waiting"}
                => token[t]

\* The service implements TileLifecycle: a request withdrawn while it waits
\* never reaches a worker, one withdrawn before its verdict is never answered
\* with a tile (even when the worker drew it), and none is given up that the
\* page still wants, whatever the two tables, the broadcasts and the retry do.
PhaseOf(r) ==
    CASE stage[r] = "unasked" -> "unasked"
      [] stage[r] = "answered" -> answer[r]
      [] Unclaimed(r) -> "queued"
      [] \E t \in Threads : job[t] = r /\ pc[t] = "judged" ->
            verdict[CHOOSE t \in Threads : job[t] = r /\ pc[t] = "judged"]
      [] OTHER -> "running"

Lifecycle == INSTANCE TileLifecycle
                 WITH phase <- [r \in Req |-> PhaseOf(r)],
                      unwanted <- {r \in withdrawn : rid[r] # 0}

ImplementsLifecycle == Lifecycle!Spec

\* A request that was answered has left no trace in the table, the one whose
\* send failed included (queue.rs, Queue::forget).
AnsweredLeavesNoTrace ==
    \A r \in Req : stage[r] = "answered" /\ rid[r] # 0 =>
        rid[r] \notin table.queued \cup table.cancelled

\* Two requests that are both outstanding never share an id: "unique for the
\* life of the process" (render.rs:124).
OutstandingIdsDistinct ==
    \A p, q \in Req : Outstanding(p) /\ Outstanding(q) /\ p # q =>
        rid[p] # rid[q] \/ rid[p] = 0

\* Every tile asked for is answered: no dropped reply leaves the page's fetch
\* pending (render.rs:835-846).
EveryTileAnswered ==
    \A r \in Req : stage[r] = "enqueued" ~> stage[r] = "answered"
=============================================================================
