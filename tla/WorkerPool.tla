----------------------------- MODULE WorkerPool -----------------------------
(***************************************************************************)
(* src-tauri/src/workers.rs: documents parsed in sandboxed worker          *)
(* processes, a pool of them per document, served from one FIFO job queue  *)
(* by Capacity + 2 threads.  Beside the threads run the reaper             *)
(* (retire_idle) and the deadline supervisor (kill_overdue).               *)
(*                                                                         *)
(* One action is one critical section of `docs` or of `calls`, or one step *)
(* between them: a lock is never held across an exchange, a spawn or a     *)
(* kill, so everything may interleave at those points.                     *)
(*                                                                         *)
(* A process is its pid, which the operating system may issue again once   *)
(* the process is reaped.  A Worker value is the pid it was spawned with   *)
(* and whether its child has been waited for.                              *)
(***************************************************************************)
EXTENDS Naturals, Sequences, FiniteSets

CONSTANTS Threads,      \* the service threads
          Pids, NoPid,
          Capacity,     \* the most workers one document may have
          KeptWarm,     \* KEPT_WARM
          Encrypted,    \* whether documents need their password
          Reissue,      \* whether the system issues a pid again
          MaxDocs,      \* bound: documents opened
          MaxJobs,      \* bound: jobs sent
          MaxCrashes,   \* bound: workers that die, or overrun a reply, by themselves
          MaxTruncated  \* bound: files shortened under their mapping

ASSUME PoolAssumption ==
    /\ Capacity \in Nat \ {0} /\ KeptWarm \in Nat
    /\ NoPid \notin Pids /\ Encrypted \in BOOLEAN /\ Reissue \in BOOLEAN
    /\ IsFiniteSet(Threads) /\ IsFiniteSet(Pids)

ASSUME BoundAssumption ==
    MaxDocs \in Nat /\ MaxJobs \in Nat /\ MaxCrashes \in Nat /\ MaxTruncated \in Nat

Job == 1..MaxJobs
Doc == 1..MaxDocs
Request == [kind : {"open", "ask", "close", "release"}, doc : 0..MaxDocs]

Worker == [pid : Pids, reaped : BOOLEAN]
NoWorker == [pid |-> NoPid, reaped |-> TRUE]

VARIABLES
    sent,       \* the jobs sent, in order: a job is its index
    next,       \* the first job not yet taken off the channel
    answer,     \* answer[j]
    docs,       \* the document table: Held, or a hole once closed
    calls,      \* the in-flight table
    proc,       \* proc[p]: "free", "alive", "dead" and not yet reaped, or "gone"
    pc,
    job,        \* the job a thread serves
    worker,     \* the Worker a thread owns
    phase,      \* which request its exchange is: unlock, open or serve
    outcome,    \* what the exchange returned
    killed,     \* whether the supervisor ended it
    retried,    \* whether this is the second exchange
    verdict,    \* what will be answered, or "retry"
    todo,       \* documents a close or a release has still to close
    dropping,   \* workers a close has taken with their slot
    retired,    \* workers the reaper has taken and not yet killed
    crashes, truncated

local == <<job, worker, phase, outcome, killed, retried, verdict, todo, dropping>>
vars == <<sent, next, answer, docs, calls, proc, pc, local, retired, crashes,
          truncated>>

Held == [open : BOOLEAN, idle : Seq(Worker), spawned : Nat,
         senders : SUBSET Pids, outlived : BOOLEAN]

Hole == [open |-> FALSE, idle |-> <<>>, spawned |-> 0, senders |-> {},
         outlived |-> FALSE]

PcValues == {"idle", "checkout", "waiting", "spawn", "giveBack", "publish",
             "watch", "inside", "end", "unwatch", "diagnose", "judge", "checkin", "drop",
             "account", "forsake", "publishDoc", "sweep", "close", "closing",
             "kill"}

TypeOK ==
    /\ sent \in Seq(Request) /\ Len(sent) <= MaxJobs
    /\ next \in 1..Len(sent) + 1
    /\ answer \in [Job -> {"none", "ok", "failed", "closed", "gone"}]
    /\ docs \in Seq(Held) /\ Len(docs) <= MaxDocs
    /\ calls \in Seq([pid : Pids, killed : BOOLEAN])
    /\ proc \in [Pids -> {"free", "alive", "dead", "gone"}]
    /\ pc \in [Threads -> PcValues]
    /\ job \in [Threads -> 0..MaxJobs]
    /\ worker \in [Threads -> Worker \cup {NoWorker}]
    /\ phase \in [Threads -> {"unlock", "open", "serve"}]
    /\ outcome \in [Threads -> {"ok", "error", "lost", "overlong"}]
    /\ killed \in [Threads -> BOOLEAN]
    /\ retried \in [Threads -> BOOLEAN]
    /\ verdict \in [Threads -> {"ok", "failed", "gone", "retry"}]
    /\ todo \in [Threads -> SUBSET Doc]
    /\ dropping \in [Threads -> SUBSET Worker]
    /\ retired \subseteq Worker
    /\ crashes \in 0..MaxCrashes
    /\ truncated \subseteq Doc

Init ==
    /\ sent = <<>> /\ next = 1
    /\ answer = [j \in Job |-> "none"]
    /\ docs = <<>> /\ calls = <<>>
    /\ proc = [p \in Pids |-> "free"]
    /\ pc = [t \in Threads |-> "idle"]
    /\ job = [t \in Threads |-> 0]
    /\ worker = [t \in Threads |-> NoWorker]
    /\ phase = [t \in Threads |-> "serve"]
    /\ outcome = [t \in Threads |-> "ok"]
    /\ killed = [t \in Threads |-> FALSE]
    /\ retried = [t \in Threads |-> FALSE]
    /\ verdict = [t \in Threads |-> "ok"]
    /\ todo = [t \in Threads |-> {}]
    /\ dropping = [t \in Threads |-> {}]
    /\ retired = {} /\ crashes = 0 /\ truncated = {}

-----------------------------------------------------------------------------
\* Vocabulary.

Kind(t) == sent[job[t]].kind
DocOf(t) == sent[job[t]].doc
IsOpen(d) == d \in 1..Len(docs) /\ docs[d].open

\* mutant of Reap: the child is killed and never waited for
Unreaped(p, ws) == p

\* Dropping a Worker kills its child and waits for it.
Reap(p, ws) == [q \in Pids |-> IF \E w \in ws : w.pid = q /\ ~w.reaped
                               THEN (IF Reissue THEN "free" ELSE "gone")
                               ELSE p[q]]

Goto(t, to) == pc' = [pc EXCEPT ![t] = to]

\* mutant of NotifyAndGoto: the waiters are not told
GotoOnly(t, to) == Goto(t, to)

\* notify_all on `returned`, as thread t goes on to `to`.
WakeAll(f) == [u \in Threads |-> CASE f[u] = "waiting" -> "checkout"
                                   [] f[u] = "closing" -> "close"
                                   [] OTHER -> f[u]]
NotifyAndGoto(t, to) == pc' = WakeAll([pc EXCEPT ![t] = to])

\* The reply callback; the thread goes back to recv with nothing in hand.
Answer(t, what) == answer' = [answer EXCEPT ![job[t]] = what]
Rest(t) ==
    /\ job' = [job EXCEPT ![t] = 0]
    /\ worker' = [worker EXCEPT ![t] = NoWorker]
    /\ phase' = [phase EXCEPT ![t] = "serve"]
    /\ outcome' = [outcome EXCEPT ![t] = "ok"]
    /\ killed' = [killed EXCEPT ![t] = FALSE]
    /\ retried' = [retried EXCEPT ![t] = FALSE]
    /\ verdict' = [verdict EXCEPT ![t] = "ok"]
    /\ todo' = [todo EXCEPT ![t] = {}]
    /\ dropping' = [dropping EXCEPT ![t] = {}]
Reply(t, what) == Answer(t, what) /\ Rest(t) /\ Goto(t, "idle")
ReplyAndNotify(t, what) == Answer(t, what) /\ Rest(t) /\ NotifyAndGoto(t, "idle")

\* mutants of Forgotten: the place is given back twice; the sender is left
ForgottenTwice(held, w) == [held EXCEPT !.spawned = @ - 2]
SenderLeft(held, w) == [held EXCEPT !.spawned = IF @ = 0 THEN 0 ELSE @ - 1]

\* A worker leaves a pool for good: the count and its sender go together.
Forgotten(held, w) == [held EXCEPT !.spawned = IF @ = 0 THEN 0 ELSE @ - 1,
                                   !.senders = @ \ {w.pid}]

-----------------------------------------------------------------------------
\* The callers of the service.

\* The opens that may still add a document.
PendingOpens == {j \in 1..Len(sent) : sent[j].kind = "open" /\ answer[j] = "none"}

\* A page names documents it was given, the ones it has closed included.
Send(req) ==
    /\ Len(sent) < MaxJobs
    /\ \/ req.kind \in {"ask", "close"} /\ req.doc \in 1..Len(docs)
       \/ /\ req.kind = "open" /\ req.doc = 0
          /\ Len(docs) + Cardinality(PendingOpens) < MaxDocs
       \/ req.kind = "release" /\ req.doc = 0
    /\ sent' = Append(sent, req)
    /\ UNCHANGED <<next, answer, docs, calls, proc, pc, local, retired,
                   crashes, truncated>>

\* serve_pooled: one job off the channel, then dispatch.
Recv(t) ==
    /\ pc[t] = "idle" /\ next <= Len(sent)
    /\ next' = next + 1
    /\ job' = [job EXCEPT ![t] = next]
    /\ \/ /\ sent[next].kind = "open" /\ Goto(t, "spawn")
          /\ phase' = [phase EXCEPT ![t] = "open"] /\ UNCHANGED todo
       \/ /\ sent[next].kind = "ask" /\ Goto(t, "checkout")
          /\ UNCHANGED <<phase, todo>>
       \/ /\ sent[next].kind = "close" /\ Goto(t, "close")
          /\ todo' = [todo EXCEPT ![t] = {sent[next].doc}] /\ UNCHANGED phase
       \/ /\ sent[next].kind = "release" /\ Goto(t, "sweep")
          /\ UNCHANGED <<phase, todo>>
    /\ UNCHANGED <<sent, answer, docs, calls, proc, worker, outcome, killed,
                   retried, verdict, dropping, retired, crashes, truncated>>

-----------------------------------------------------------------------------
\* checkout: refuse, take an idle worker, grow, or wait for one to return.

CheckoutRefused(t) ==
    /\ pc[t] = "checkout"
    /\ \/ ~IsOpen(DocOf(t)) /\ Reply(t, "closed")
       \/ IsOpen(DocOf(t)) /\ docs[DocOf(t)].outlived /\ Reply(t, "gone")
    /\ UNCHANGED <<sent, next, docs, calls, proc, retired, crashes, truncated>>

\* mutant of Serving: the diagnosis is not looked at
ServingAnyway(t) == pc[t] = "checkout" /\ IsOpen(DocOf(t))

Serving(t) == pc[t] = "checkout" /\ IsOpen(DocOf(t)) /\ ~docs[DocOf(t)].outlived

CheckoutIdle(t) ==
    LET held == docs[DocOf(t)]
        last == Len(held.idle)
    IN  /\ Serving(t) /\ last > 0
        /\ worker' = [worker EXCEPT ![t] = held.idle[last]]
        /\ docs' = [docs EXCEPT ![DocOf(t)].idle = SubSeq(@, 1, last - 1)]
        /\ Goto(t, "watch")
        /\ UNCHANGED <<sent, next, answer, calls, proc, job, phase, outcome,
                       killed, retried, verdict, todo, dropping, retired,
                       crashes, truncated>>

\* The reservation is taken before the lock is given back.
CheckoutGrow(t) ==
    /\ Serving(t) /\ docs[DocOf(t)].idle = <<>>
    /\ docs[DocOf(t)].spawned < Capacity
    /\ docs' = [docs EXCEPT ![DocOf(t)].spawned = @ + 1]
    /\ Goto(t, "spawn")
    /\ UNCHANGED <<sent, next, answer, calls, proc, local, retired, crashes,
                   truncated>>

CheckoutWait(t) ==
    /\ Serving(t) /\ docs[DocOf(t)].idle = <<>>
    /\ docs[DocOf(t)].spawned >= Capacity
    /\ Goto(t, "waiting")
    /\ UNCHANGED <<sent, next, answer, docs, calls, proc, local, retired,
                   crashes, truncated>>

\* adopt_or_spawn: a worker arrives, the spare or a fresh process, under
\* whatever pid is free.  An encrypted document is unlocked first.
Spawn(t) ==
    /\ pc[t] = "spawn"
    /\ \E p \in Pids :
          /\ proc[p] = "free"
          /\ proc' = [proc EXCEPT ![p] = "alive"]
          /\ worker' = [worker EXCEPT ![t] = [pid |-> p, reaped |-> FALSE]]
    /\ IF Encrypted
       THEN Goto(t, "watch") /\ phase' = [phase EXCEPT ![t] = "unlock"]
       ELSE Goto(t, IF Kind(t) = "open" THEN "watch" ELSE "publish")
            /\ UNCHANGED phase
    /\ UNCHANGED <<sent, next, answer, docs, calls, job, outcome, killed,
                   retried, verdict, todo, dropping, retired, crashes,
                   truncated>>

\* ... or none does.  Only a pool has a reservation to give back.
SpawnFails(t) ==
    /\ pc[t] = "spawn"
    /\ IF Kind(t) = "open"
       THEN Reply(t, "failed")
       ELSE Goto(t, "giveBack") /\ UNCHANGED <<answer, local>>
    /\ UNCHANGED <<sent, next, docs, calls, proc, retired, crashes, truncated>>

\* mutant of GivenBack: an error path that keeps its reservation
KeptReservation(d) == docs

GivenBack(d) ==
    IF IsOpen(d)
    THEN [docs EXCEPT ![d].spawned = IF @ = 0 THEN 0 ELSE @ - 1]
    ELSE docs

\* give_back, and the error; a worker that could not unlock is dropped after.
GiveBack(t) ==
    /\ pc[t] = "giveBack"
    /\ docs' = GivenBack(DocOf(t))
    /\ IF worker[t] = NoWorker
       THEN ReplyAndNotify(t, "failed")
       ELSE NotifyAndGoto(t, "forsake") /\ UNCHANGED <<answer, local>>
    /\ UNCHANGED <<sent, next, calls, proc, retired, crashes, truncated>>

\* A worker that never joined a pool goes out of scope with its error.
Forsake(t) ==
    /\ pc[t] = "forsake"
    /\ proc' = Reap(proc, {worker[t]})
    /\ Reply(t, "failed")
    /\ UNCHANGED <<sent, next, docs, calls, retired, crashes, truncated>>

\* The end of spawn_into: a worker is known to the pool by its sender.  Were
\* the slot gone, the worker would be dropped and the request refused.
Publish(t) ==
    /\ pc[t] = "publish"
    /\ IF IsOpen(DocOf(t))
       THEN /\ docs' = [docs EXCEPT ![DocOf(t)].senders = @ \cup {worker[t].pid}]
            /\ Goto(t, "watch") /\ phase' = [phase EXCEPT ![t] = "serve"]
            /\ UNCHANGED <<answer, proc, job, worker, outcome, killed, retried,
                           verdict, todo, dropping>>
       ELSE /\ proc' = Reap(proc, {worker[t]})
            /\ Reply(t, "closed")
            /\ UNCHANGED docs
    /\ UNCHANGED <<sent, next, calls, retired, crashes, truncated>>

-----------------------------------------------------------------------------
\* One watched exchange with a worker.

\* CallWatch::start
Watch(t) ==
    /\ pc[t] = "watch"
    /\ calls' = Append(calls, [pid |-> worker[t].pid, killed |-> FALSE])
    /\ Goto(t, "inside")
    /\ UNCHANGED <<sent, next, answer, docs, proc, local, retired, crashes,
                   truncated>>

Exchanged(t, result) ==
    /\ pc[t] = "inside"
    /\ outcome' = [outcome EXCEPT ![t] = result]
    /\ Goto(t, "end")
    /\ UNCHANGED <<sent, next, answer, docs, calls, job, phase, killed,
                   retried, verdict, todo, dropping, retired, crashes,
                   truncated>>

\* A live worker answers, or does not; nothing makes it.
WorkerAnswers(t) ==
    /\ ~worker[t].reaped /\ proc[worker[t].pid] = "alive"
    /\ \E result \in {"ok", "error"} : Exchanged(t, result)
    /\ UNCHANGED <<proc, worker>>

\* A reply past MAX_REPLY_BYTES: read_reply kills the worker and waits for it.
WorkerOverruns(t) ==
    /\ pc[t] = "inside"
    /\ ~worker[t].reaped /\ proc[worker[t].pid] = "alive"
    /\ outcome' = [outcome EXCEPT ![t] = "overlong"]
    /\ crashes < MaxCrashes /\ crashes' = crashes + 1
    /\ proc' = Reap(proc, {worker[t]})
    /\ worker' = [worker EXCEPT ![t].reaped = TRUE]
    /\ Goto(t, "end")
    /\ UNCHANGED <<sent, next, answer, docs, calls, job, phase, killed, retried,
                   verdict, todo, dropping, retired, truncated>>

\* The worker is gone.  Its last reply may already be in the pipe; otherwise
\* the error carries an epitaph, and try_wait reaps a child that has become
\* waitable by then.
WorkerLost(t) ==
    /\ pc[t] = "inside"
    /\ worker[t].reaped \/ proc[worker[t].pid] = "dead"
    /\ \/ Exchanged(t, "lost") /\ UNCHANGED <<proc, worker>>
       \/ /\ ~worker[t].reaped
          /\ Exchanged(t, "ok") /\ UNCHANGED <<proc, worker>>
       \/ /\ ~worker[t].reaped
          /\ Exchanged(t, "lost")
          /\ proc' = Reap(proc, {worker[t]})
          /\ worker' = [worker EXCEPT ![t].reaped = TRUE]

\* mutant of EntryOf: the oldest call is taken for this one
OldestEntry(t) == IF calls = <<>> THEN 0 ELSE 1

\* CallWatch::take finds the first entry with this worker's pid.
EntryOf(t) ==
    LET mine == {i \in 1..Len(calls) : calls[i].pid = worker[t].pid}
    IN  IF mine = {} THEN 0 ELSE CHOOSE i \in mine : \A k \in mine : i <= k

Without(s, i) == SubSeq(s, 1, i - 1) \o SubSeq(s, i + 1, Len(s))

Take(t) == calls' = IF EntryOf(t) = 0 THEN calls ELSE Without(calls, EntryOf(t))

\* CallWatch::end
EndWatch(t) ==
    /\ pc[t] = "end" /\ Take(t)
    /\ killed' = [killed EXCEPT ![t] = EntryOf(t) # 0 /\ calls[EntryOf(t)].killed]
    /\ Goto(t, "unwatch")
    /\ UNCHANGED <<sent, next, answer, docs, proc, job, worker, phase, outcome,
                   retried, verdict, todo, dropping, retired, crashes,
                   truncated>>

\* CallWatch::drop, as `end` returns: whatever has this pid by now is taken.
DropWatch(t) == pc[t] = "unwatch" /\ Take(t)

\* The unlock before a worker is published.  Its kill flag is not consulted.
EndUnlock(t) ==
    /\ phase[t] = "unlock" /\ DropWatch(t)
    /\ IF outcome[t] = "ok"
       THEN IF Kind(t) = "open"
            THEN Goto(t, "watch") /\ phase' = [phase EXCEPT ![t] = "open"]
            ELSE Goto(t, "publish") /\ UNCHANGED phase
       ELSE Goto(t, IF Kind(t) = "open" THEN "forsake" ELSE "giveBack")
            /\ UNCHANGED phase
    /\ UNCHANGED <<sent, next, answer, docs, proc, job, worker, outcome, killed,
                   retried, verdict, todo, dropping, retired, crashes,
                   truncated>>

\* The geometry of a document being opened; a reply is believed even from a
\* worker killed meanwhile.
EndOpen(t) ==
    /\ phase[t] = "open" /\ DropWatch(t)
    /\ Goto(t, IF outcome[t] = "ok" THEN "publishDoc" ELSE "forsake")
    /\ UNCHANGED <<sent, next, answer, docs, proc, job, worker, phase, outcome,
                   killed, retried, verdict, todo, dropping, retired, crashes,
                   truncated>>

\* with_worker_for, from the end of the exchange: an answer is kept and the
\* worker too unless it was killed; a second failure is final.
EndServe(t) ==
    LET ok == outcome[t] = "ok"
    IN  /\ phase[t] = "serve" /\ DropWatch(t)
        /\ verdict' = [verdict EXCEPT ![t] = IF ok THEN "ok" ELSE "failed"]
        /\ Goto(t, IF ok \/ retried[t]
                   THEN IF killed[t] THEN "drop" ELSE "checkin"
                   ELSE "diagnose")
        /\ UNCHANGED <<sent, next, answer, docs, proc, job, worker, phase,
                       outcome, killed, retried, todo, dropping, retired,
                       crashes, truncated>>

\* outlived_its_file: asked of the file before anything is concluded from the
\* process.  The latch is never cleared.
Diagnose(t) ==
    /\ pc[t] = "diagnose"
    /\ IF IsOpen(DocOf(t)) /\ (docs[DocOf(t)].outlived \/ DocOf(t) \in truncated)
       THEN /\ docs' = [docs EXCEPT ![DocOf(t)].outlived = TRUE]
            /\ Goto(t, "drop") /\ verdict' = [verdict EXCEPT ![t] = "gone"]
       ELSE Goto(t, "judge") /\ UNCHANGED <<docs, verdict>>
    /\ UNCHANGED <<sent, next, answer, calls, proc, job, worker, phase, outcome,
                   killed, retried, todo, dropping, retired, crashes, truncated>>

\* mutant of SeemsRunning: the kill flag is not consulted
RunningByTryWait(t) == ~worker[t].reaped

\* is_running is try_wait: a child that has just died may still read as
\* running, and one that has not is reaped by the question.
SeemsRunning(t) == ~killed[t] /\ ~worker[t].reaped
SeemsDead(t) == killed[t] \/ worker[t].reaped \/ proc[worker[t].pid] = "dead"

KeepWorker(t) ==
    /\ pc[t] = "judge" /\ SeemsRunning(t)
    /\ Goto(t, "checkin")
    /\ UNCHANGED <<sent, next, answer, docs, calls, proc, local, retired,
                   crashes, truncated>>

\* A deadline kill is final; any other death is worth one replacement.
CondemnWorker(t) ==
    /\ pc[t] = "judge" /\ SeemsDead(t)
    /\ Goto(t, "drop")
    /\ IF killed[t] THEN UNCHANGED verdict
                    ELSE verdict' = [verdict EXCEPT ![t] = "retry"]
    /\ UNCHANGED <<sent, next, answer, docs, calls, proc, job, worker, phase,
                   outcome, killed, retried, todo, dropping, retired, crashes,
                   truncated>>

\* checkin
Checkin(t) ==
    /\ pc[t] = "checkin"
    /\ IF IsOpen(DocOf(t))
       THEN /\ docs' = [docs EXCEPT ![DocOf(t)].idle = Append(@, worker[t])]
            /\ UNCHANGED proc
       ELSE proc' = Reap(proc, {worker[t]}) /\ UNCHANGED docs
    /\ ReplyAndNotify(t, verdict[t])
    /\ UNCHANGED <<sent, next, calls, retired, crashes, truncated>>

\* discard: the worker is killed and reaped before the lock is taken ...
DropWorker(t) ==
    /\ pc[t] = "drop"
    /\ proc' = Reap(proc, {worker[t]})
    /\ worker' = [worker EXCEPT ![t].reaped = TRUE]
    /\ Goto(t, "account")
    /\ UNCHANGED <<sent, next, answer, docs, calls, job, phase, outcome, killed,
                   retried, verdict, todo, dropping, retired, crashes,
                   truncated>>

\* ... and its pool is told after; then the answer, or the one retry.
Account(t) ==
    /\ pc[t] = "account"
    /\ docs' = IF IsOpen(DocOf(t))
               THEN [docs EXCEPT ![DocOf(t)] = Forgotten(@, worker[t])]
               ELSE docs
    /\ IF verdict[t] = "retry"
       THEN /\ NotifyAndGoto(t, "checkout")
            /\ retried' = [retried EXCEPT ![t] = TRUE]
            /\ worker' = [worker EXCEPT ![t] = NoWorker]
            /\ UNCHANGED <<answer, job, phase, outcome, killed, verdict, todo,
                           dropping>>
       ELSE ReplyAndNotify(t, verdict[t])
    /\ UNCHANGED <<sent, next, calls, proc, retired, crashes, truncated>>

-----------------------------------------------------------------------------
\* Opening, closing, and the sweep of a page that has just started.

\* The end of Workers::open: the id is the length of the table.
PublishDoc(t) ==
    /\ pc[t] = "publishDoc"
    /\ docs' = Append(docs, [open |-> TRUE, idle |-> <<worker[t]>>,
                             spawned |-> 1, senders |-> {worker[t].pid},
                             outlived |-> FALSE])
    /\ Reply(t, "ok")
    /\ UNCHANGED <<sent, next, calls, proc, retired, crashes, truncated>>

\* release_all reads the ids under the lock and closes them outside it.
Sweep(t) ==
    LET open == {d \in 1..Len(docs) : docs[d].open}
    IN  /\ pc[t] = "sweep"
        /\ IF open = {}
           THEN Reply(t, "ok")
           ELSE /\ todo' = [todo EXCEPT ![t] = open]
                /\ Goto(t, "close")
                /\ UNCHANGED <<answer, job, worker, phase, outcome, killed,
                               retried, verdict, dropping>>
        /\ UNCHANGED <<sent, next, docs, calls, proc, retired, crashes,
                       truncated>>

Target(t) == CHOOSE d \in todo[t] : \A e \in todo[t] : d <= e

\* A caller closing a document that is gone is told so; a sweep passes over it.
CloseRefused(t) ==
    /\ pc[t] = "close" /\ ~IsOpen(Target(t))
    /\ IF Kind(t) = "close"
       THEN Reply(t, "closed")
       ELSE IF todo[t] = {Target(t)}
       THEN Reply(t, "ok")
       ELSE /\ todo' = [todo EXCEPT ![t] = @ \ {Target(t)}]
            /\ UNCHANGED <<answer, pc, job, worker, phase, outcome, killed,
                           retried, verdict, dropping>>
    /\ UNCHANGED <<sent, next, docs, calls, proc, retired, crashes, truncated>>

\* mutant of PoolIsHome: a close that does not drain
NoDrain(d) == TRUE

PoolIsHome(d) == Len(docs[d].idle) >= docs[d].spawned

CloseWait(t) ==
    /\ pc[t] = "close" /\ IsOpen(Target(t)) /\ ~PoolIsHome(Target(t))
    /\ Goto(t, "closing")
    /\ UNCHANGED <<sent, next, answer, docs, calls, proc, local, retired,
                   crashes, truncated>>

\* The slot is emptied under the lock, its workers are killed outside it.
CloseTake(t) ==
    LET held == docs[Target(t)]
    IN  /\ pc[t] = "close" /\ IsOpen(Target(t)) /\ PoolIsHome(Target(t))
        /\ dropping' = [dropping EXCEPT ![t] =
                           {held.idle[i] : i \in 1..Len(held.idle)}]
        /\ docs' = [docs EXCEPT ![Target(t)] = Hole]
        /\ todo' = [todo EXCEPT ![t] = @ \ {Target(t)}]
        /\ Goto(t, "kill")
        /\ UNCHANGED <<sent, next, answer, calls, proc, job, worker, phase,
                       outcome, killed, retried, verdict, retired, crashes,
                       truncated>>

CloseKill(t) ==
    /\ pc[t] = "kill"
    /\ proc' = Reap(proc, dropping[t])
    /\ IF todo[t] = {}
       THEN Reply(t, "ok")
       ELSE /\ dropping' = [dropping EXCEPT ![t] = {}]
            /\ Goto(t, "close")
            /\ UNCHANGED <<answer, job, worker, phase, outcome, killed, retried,
                           verdict, todo>>
    /\ UNCHANGED <<sent, next, docs, calls, retired, crashes, truncated>>

-----------------------------------------------------------------------------
\* The reaper, the supervisor, and what the world does.

\* One document's share of a sweep of retire_idle.  Idle workers stand oldest
\* first, so those idle for too long are the first n of them.
RetireIdle(d) ==
    LET held == docs[d]
        mayGo == IF held.spawned > KeptWarm THEN held.spawned - KeptWarm ELSE 0
    IN  /\ retired = {} /\ IsOpen(d)
        /\ \E n \in 1..Len(held.idle) :
              LET gone == IF n < mayGo THEN n ELSE mayGo
                  ws == {held.idle[i] : i \in 1..gone}
              IN  /\ gone > 0
                  /\ retired' = ws
                  /\ docs' = [docs EXCEPT ![d] =
                       [held EXCEPT !.idle = SubSeq(@, gone + 1, Len(@)),
                                    !.spawned = @ - gone,
                                    !.senders = @ \ {w.pid : w \in ws}]]
        /\ UNCHANGED <<sent, next, answer, calls, proc, pc, local, crashes,
                       truncated>>

\* The retired are killed outside the lock, and then the waiters are told.
RetireKill ==
    /\ retired # {}
    /\ proc' = Reap(proc, retired)
    /\ retired' = {}
    /\ pc' = WakeAll(pc)
    /\ UNCHANGED <<sent, next, answer, docs, calls, local, crashes, truncated>>

\* A sweep of the supervisor.  Calls stand in the order they started, so the
\* overdue ones are the first n; every entry with an overdue pid is marked
\* and that pid is signalled, in one critical section.
KillOverdue ==
    \E n \in 1..Len(calls) :
        LET pids == {calls[i].pid : i \in 1..n}
        IN  /\ calls' = [i \in 1..Len(calls) |->
                            IF calls[i].pid \in pids
                            THEN [calls[i] EXCEPT !.killed = TRUE]
                            ELSE calls[i]]
            /\ proc' = [p \in Pids |-> IF p \in pids /\ proc[p] = "alive"
                                       THEN "dead" ELSE proc[p]]
            /\ UNCHANGED <<sent, next, answer, docs, pc, local, retired,
                           crashes, truncated>>

Crash(p) ==
    /\ crashes < MaxCrashes /\ proc[p] = "alive"
    /\ crashes' = crashes + 1
    /\ proc' = [proc EXCEPT ![p] = "dead"]
    /\ UNCHANGED <<sent, next, answer, docs, calls, pc, local, retired,
                   truncated>>

Truncate(d) ==
    /\ d \in 1..Len(docs) /\ d \notin truncated
    /\ Cardinality(truncated) < MaxTruncated
    /\ truncated' = truncated \cup {d}
    /\ UNCHANGED <<sent, next, answer, docs, calls, proc, pc, local, retired,
                   crashes>>

-----------------------------------------------------------------------------
\* What a thread does by itself; an exchange with a live worker is not owed.
ThreadStep(t) ==
    \/ Recv(t) \/ CheckoutRefused(t) \/ CheckoutIdle(t) \/ CheckoutGrow(t)
    \/ CheckoutWait(t) \/ Spawn(t) \/ SpawnFails(t) \/ GiveBack(t) \/ Forsake(t)
    \/ Publish(t) \/ Watch(t) \/ WorkerLost(t) \/ EndWatch(t) \/ EndUnlock(t) \/ EndOpen(t)
    \/ EndServe(t) \/ Diagnose(t) \/ KeepWorker(t) \/ CondemnWorker(t)
    \/ Checkin(t) \/ DropWorker(t) \/ Account(t) \/ PublishDoc(t) \/ Sweep(t)
    \/ CloseRefused(t) \/ CloseWait(t) \/ CloseTake(t) \/ CloseKill(t)

Next ==
    \/ \E req \in Request : Send(req)
    \/ \E t \in Threads : ThreadStep(t) \/ WorkerAnswers(t) \/ WorkerOverruns(t)
    \/ \E d \in Doc : RetireIdle(d) \/ Truncate(d)
    \/ RetireKill \/ KillOverdue
    \/ \E p \in Pids : Crash(p)

\* The threads run, and both sweeps come round.  No worker has to answer: what
\* ends an exchange that hangs is the supervisor.
Fairness ==
    /\ \A t \in Threads : WF_vars(ThreadStep(t))
    /\ WF_vars(KillOverdue) /\ WF_vars(RetireKill)

Spec == Init /\ [][Next]_vars
FairSpec == Spec /\ Fairness

-----------------------------------------------------------------------------
\* What the pool promises.

\* A thread that is counted in `spawned` of its document: it has reserved a
\* place, or has a worker out, or has dropped one and not yet said so.
Counted(t) ==
    \/ pc[t] \in {"giveBack", "publish", "diagnose", "judge", "checkin", "drop",
                  "account"}
    \/ pc[t] \in {"spawn", "watch", "inside", "end", "unwatch"} /\ Kind(t) = "ask"

CountedFor(d) == {t \in Threads : Counted(t) /\ DocOf(t) = d}

\* `spawned` is exactly the workers idle, out or promised, and never past the
\* ceiling: a failed spawn, a failed unlock, a crash, a deadline kill, the
\* retry and a retirement each keep the books (workers.rs, give_back and
\* retire_idle say what a slip costs: a pool that shrinks to a deadlock, or a
\* close that waits for ever).
PoolAccounting ==
    \A d \in 1..Len(docs) : docs[d].open =>
        /\ docs[d].spawned = Len(docs[d].idle) + Cardinality(CountedFor(d))
        /\ docs[d].spawned <= Capacity

\* A close never takes a pool with a worker out: while a thread holds a
\* reservation or a worker of a document, its slot is open, so the refusals in
\* spawn_into, checkin and discard for a slot that has gone are never taken.
CloseWaitsForPool ==
    \A t \in Threads : Counted(t) => IsOpen(DocOf(t))

\* Who owns a process: the Worker values that have not waited for their child.
Owned ==
    [threads |-> {t \in Threads : ~worker[t].reaped},
     idle |-> {o \in (1..Len(docs)) \X (1..Capacity) :
                  o[2] <= Len(docs[o[1]].idle) /\ ~docs[o[1]].idle[o[2]].reaped},
     closing |-> {o \in Threads \X Worker : o[2] \in dropping[o[1]] /\ ~o[2].reaped},
     retired |-> {w \in retired : ~w.reaped}]

OwnedPids ==
    {worker[t].pid : t \in Owned.threads}
    \cup {docs[o[1]].idle[o[2]].pid : o \in Owned.idle}
    \cup {o[2].pid : o \in Owned.closing} \cup {w.pid : w \in Owned.retired}

\* Every process has exactly one owner, and everyone who thinks it owns a
\* process does: none is leaked by a close, a retirement, a failed open or a
\* retry, and no two values would kill the same child.
EveryProcessHasOneOwner ==
    /\ OwnedPids = {p \in Pids : proc[p] \in {"alive", "dead"}}
    /\ Cardinality(OwnedPids) =
          Cardinality(Owned.threads) + Cardinality(Owned.idle)
          + Cardinality(Owned.closing) + Cardinality(Owned.retired)

InWatch(t) == pc[t] \in {"inside", "end"}

\* An entry of the in-flight table is there exactly while its thread is in the
\* exchange and owns that worker: no entry outlives its call, none is taken by
\* another call, and a signal goes out to a pid that its call's own thread has
\* not let go of (InFlight, the second of its two gaps; CallWatch).  A pid that
\* is issued again between a call's two takes breaks it.
EntriesAreCalls ==
    /\ Len(calls) = Cardinality({t \in Threads : InWatch(t)})
    /\ \A i \in 1..Len(calls) : \E t \in Threads :
          InWatch(t) /\ worker[t].pid = calls[i].pid
    /\ \A t \in Threads : InWatch(t) =>
          \E i \in 1..Len(calls) : calls[i].pid = worker[t].pid

\* While nothing dies of itself, a pool holds at most one corpse: the worker
\* that opened the document, if its reply was in the pipe when its deadline
\* expired (Workers::open).  No other worker the supervisor kills is checked
\* in, not with an answer in hand and not by way of is_running, which would
\* call it alive (with_worker_for).  An encrypted document has a second such
\* case, the unlock of a worker that joins later, and a pid that read_reply
\* freed inside a call and that was issued again is signalled by mistake;
\* neither is allowed for here.
KilledStaysOut ==
    crashes = 0 /\ ~Reissue /\ ~Encrypted =>
        \A d \in 1..Len(docs) : \A i, k \in 1..Len(docs[d].idle) :
            i # k => \/ proc[docs[d].idle[i].pid] = "alive"
                     \/ proc[docs[d].idle[k].pid] = "alive"

\* The workers of document d that a withdrawal could be written to.
Members(d) ==
    {docs[d].idle[i].pid : i \in 1..Len(docs[d].idle)}
    \cup {worker[t].pid : t \in {u \in CountedFor(d) :
             phase[u] = "serve" /\ pc[u] \notin {"spawn", "giveBack", "publish"}}}

\* A pool's senders are its workers, idle and out: none is missing, so a
\* withdrawal reaches whoever serves it, and none is left of a worker that was
\* discarded or retired.
SendersAreMembers ==
    ~Reissue => \A d \in 1..Len(docs) : docs[d].senders = Members(d)

\* Once a file is known to have been cut short, no request of its document is
\* given a worker or a place for one, idle workers included: only those that had
\* one go on, and the diagnosis stays while the document is open (Held::outlived).
OutlivedStartsNothing ==
    [][\A d \in 1..Len(docs) :
          docs[d].open /\ docs[d].outlived =>
              /\ docs'[d].outlived \/ ~docs'[d].open
              /\ CountedFor(d)' \subseteq CountedFor(d)]_vars

\* A sweep sent before an open leaves the opened document alone
\* (App.svelte:5650-5653).
SweepSparesTheNewPage ==
    \A j, k \in 1..Len(sent) :
        (/\ sent[j].kind = "release" /\ sent[k].kind = "open" /\ j < k
         /\ \A i \in 1..Len(sent) : i # k => sent[i].kind = "release" /\ i < k
         /\ answer[k] = "ok")
        => \A d \in 1..Len(docs) : docs[d].open

\* Every job is answered: no request, close or open waits for ever, whatever
\* hangs, dies or fails to start.
EveryJobAnswered ==
    \A j \in Job : (j <= Len(sent)) ~> (answer[j] # "none")
=============================================================================
