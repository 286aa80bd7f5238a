--------------------------- MODULE WorkerPoolProofs ---------------------------
(* The books of the pools, for any number of threads, pids, documents, jobs
   and crashes, and any capacity.  PoolInv says where a thread may be with a
   job of each kind and what it then holds; with it, a worker that is counted
   in spawned is idle in the pool or in the hands of exactly one thread, and a
   slot is not emptied under a thread that is counted in it. *)
EXTENDS WorkerPool, FiniteSetTheorems, SequenceTheorems, TLAPS

-----------------------------------------------------------------------------
\* Types, by what they are about.
QueueTyped ==
    /\ sent \in Seq(Request) /\ Len(sent) <= MaxJobs
    /\ next \in 1..Len(sent) + 1
    /\ answer \in [Job -> {"none", "ok", "failed", "closed", "gone"}]

DocsTyped == docs \in Seq(Held) /\ Len(docs) <= MaxDocs

WorldTyped ==
    /\ calls \in Seq([pid : Pids, killed : BOOLEAN])
    /\ proc \in [Pids -> {"free", "alive", "dead", "gone"}]
    /\ retired \subseteq Worker
    /\ crashes \in 0..MaxCrashes /\ truncated \subseteq Doc

LocalTyped ==
    /\ pc \in [Threads -> PcValues]
    /\ job \in [Threads -> 0..MaxJobs]
    /\ worker \in [Threads -> Worker \cup {NoWorker}]
    /\ phase \in [Threads -> {"unlock", "open", "serve"}]
    /\ outcome \in [Threads -> {"ok", "error", "lost", "overlong"}]
    /\ killed \in [Threads -> BOOLEAN]
    /\ retried \in [Threads -> BOOLEAN]
    /\ verdict \in [Threads -> {"ok", "failed", "gone", "retry"}]
    /\ todo \in [Threads -> SUBSET Doc]
    /\ dropping \in [Threads -> SUBSET Worker]

-----------------------------------------------------------------------------
\* Where a thread may be with a job of each kind, and where it has a worker.
AskPcs == {"checkout", "waiting", "spawn", "giveBack", "publish", "watch", "inside",
           "end", "unwatch", "forsake", "diagnose", "judge", "checkin", "drop", "account"}
OpenPcs == {"spawn", "watch", "inside", "end", "unwatch", "forsake", "publishDoc"}
ClosePcs == {"close", "closing", "kill"}
Holding == {"publish", "watch", "inside", "end", "unwatch", "forsake", "diagnose",
            "judge", "checkin", "drop", "account", "publishDoc"}

JobRow(t) ==
    /\ pc[t] = "idle" => job[t] = 0
    /\ pc[t] # "idle" =>
          job[t] \in 1..Len(sent) /\ job[t] < next /\ answer[job[t]] = "none"

KindRow(t) ==
    pc[t] # "idle" =>
        /\ Kind(t) = "open" => pc[t] \in OpenPcs
        /\ Kind(t) = "ask" => pc[t] \in AskPcs
        /\ Kind(t) = "close" => pc[t] \in ClosePcs
        /\ Kind(t) = "release" => pc[t] \in ClosePcs \cup {"sweep"}

PhaseRow(t) ==
    /\ pc[t] = "idle" => phase[t] = "serve"
    /\ pc[t] # "idle" /\ phase[t] = "open" => Kind(t) = "open"
    /\ pc[t] # "idle" /\ phase[t] = "serve" => Kind(t) # "open"
    /\ phase[t] = "unlock" =>
          pc[t] \in {"watch", "inside", "end", "unwatch", "publish", "giveBack", "forsake"}

WorkerRow(t) ==
    /\ pc[t] \in Holding => worker[t] \in Worker
    /\ pc[t] \notin Holding \cup {"giveBack"} => worker[t] = NoWorker
    /\ pc[t] # "kill" => dropping[t] = {}

VerdictRow(t) == pc[t] \in {"diagnose", "judge", "checkin"} => verdict[t] # "retry"

Row(t) == JobRow(t) /\ KindRow(t) /\ PhaseRow(t) /\ WorkerRow(t) /\ VerdictRow(t)

OneThreadPerJob == \A t, u \in Threads : t # u /\ job[t] = job[u] => job[t] = 0

SentJobs ==
    /\ \A j \in 1..Len(sent) :
          sent[j].kind \in {"ask", "close"} => sent[j].doc \in 1..Len(docs)
    /\ \A j \in Job : j >= next => answer[j] = "none"

OpensFit == Len(docs) + Cardinality(PendingOpens) <= MaxDocs

PoolInv ==
    /\ QueueTyped /\ DocsTyped /\ WorldTyped /\ LocalTyped
    /\ \A t \in Threads : Row(t)
    /\ OneThreadPerJob /\ SentJobs /\ OpensFit
    /\ PoolAccounting /\ CloseWaitsForPool

-----------------------------------------------------------------------------
LEMMA HeldAt ==
    ASSUME DocsTyped, NEW d \in 1..Len(docs)
    PROVE  /\ docs[d] \in Held /\ d \in Doc /\ Len(docs) \in Nat
           /\ docs[d].idle \in Seq(Worker) /\ Len(docs[d].idle) \in Nat
           /\ docs[d].spawned \in Nat /\ docs[d].open \in BOOLEAN
           /\ docs[d].senders \subseteq Pids /\ docs[d].outlived \in BOOLEAN
           /\ \A i \in 1..Len(docs[d].idle) : docs[d].idle[i] \in Worker
<1>1. docs[d] \in Held
  BY ElementOfSeq DEF DocsTyped
<1>2. Len(docs) \in Nat
  BY LenProperties DEF DocsTyped
<1>3. d \in Doc
  BY <1>2, BoundAssumption DEF DocsTyped, Doc
<1>4. /\ docs[d].idle \in Seq(Worker) /\ docs[d].spawned \in Nat
      /\ docs[d].open \in BOOLEAN /\ docs[d].senders \subseteq Pids
      /\ docs[d].outlived \in BOOLEAN
  BY <1>1 DEF Held
<1>5. Len(docs[d].idle) \in Nat
  BY <1>4, LenProperties
<1>6. \A i \in 1..Len(docs[d].idle) : docs[d].idle[i] \in Worker
  BY <1>4, ElementOfSeq
<1> QED  BY <1>1, <1>2, <1>3, <1>4, <1>5, <1>6

LEMMA SentAt ==
    ASSUME QueueTyped, NEW j \in 1..Len(sent)
    PROVE  sent[j] \in Request /\ j \in Job /\ Len(sent) \in Nat
<1>1. sent[j] \in Request
  BY ElementOfSeq DEF QueueTyped
<1>2. Len(sent) \in Nat
  BY LenProperties DEF QueueTyped
<1> QED  BY <1>1, <1>2, BoundAssumption DEF QueueTyped, Job

LEMMA WorkerReaped == \A w \in Worker : [w EXCEPT !.reaped = TRUE] \in Worker
  BY DEF Worker
-----------------------------------------------------------------------------
\* Thread t moves, and of the others some are woken.
Alone(t) ==
    \A u \in Threads \ {t} :
        /\ \/ pc'[u] = pc[u]
           \/ pc[u] = "waiting" /\ pc'[u] = "checkout"
           \/ pc[u] = "closing" /\ pc'[u] = "close"
        /\ job'[u] = job[u] /\ worker'[u] = worker[u] /\ phase'[u] = phase[u]
        /\ dropping'[u] = dropping[u] /\ verdict'[u] = verdict[u]

LEMMA GotoMoves ==
    ASSUME LocalTyped, NEW t \in Threads, NEW to \in PcValues, Goto(t, to)
    PROVE  /\ pc' \in [Threads -> PcValues] /\ pc'[t] = to
           /\ \A u \in Threads \ {t} : pc'[u] = pc[u]
  BY DEF LocalTyped, Goto

LEMMA NotifyMoves ==
    ASSUME LocalTyped, NEW t \in Threads, NEW to \in PcValues \ {"waiting", "closing"},
           NotifyAndGoto(t, to)
    PROVE  /\ pc' \in [Threads -> PcValues] /\ pc'[t] = to
           /\ \A u \in Threads \ {t} :
                 \/ pc'[u] = pc[u]
                 \/ pc[u] = "waiting" /\ pc'[u] = "checkout"
                 \/ pc[u] = "closing" /\ pc'[u] = "close"
<1> DEFINE f == [pc EXCEPT ![t] = to]
<1>1. f \in [Threads -> PcValues] /\ f[t] = to /\ \A u \in Threads \ {t} : f[u] = pc[u]
  BY DEF LocalTyped
<1>2. pc' = WakeAll(f)
  BY DEF NotifyAndGoto
<1> HIDE DEF f
<1>3. \A u \in Threads : pc'[u] = CASE f[u] = "waiting" -> "checkout"
                                    [] f[u] = "closing" -> "close"
                                    [] OTHER -> f[u]
  BY <1>2 DEF WakeAll
<1>4. pc' \in [Threads -> PcValues]
  BY <1>1, <1>2 DEF WakeAll, PcValues
<1> QED  BY <1>1, <1>3, <1>4

LEMMA RestFrees ==
    ASSUME LocalTyped, NEW t \in Threads, Rest(t)
    PROVE  /\ job' \in [Threads -> 0..MaxJobs]
           /\ worker' \in [Threads -> Worker \cup {NoWorker}]
           /\ phase' \in [Threads -> {"unlock", "open", "serve"}]
           /\ outcome' \in [Threads -> {"ok", "error", "lost", "overlong"}]
           /\ killed' \in [Threads -> BOOLEAN]
           /\ retried' \in [Threads -> BOOLEAN]
           /\ verdict' \in [Threads -> {"ok", "failed", "gone", "retry"}]
           /\ todo' \in [Threads -> SUBSET Doc]
           /\ dropping' \in [Threads -> SUBSET Worker]
           /\ job'[t] = 0 /\ worker'[t] = NoWorker /\ phase'[t] = "serve"
           /\ dropping'[t] = {}
           /\ \A u \in Threads \ {t} :
                 /\ job'[u] = job[u] /\ worker'[u] = worker[u] /\ phase'[u] = phase[u]
                 /\ dropping'[u] = dropping[u] /\ verdict'[u] = verdict[u]
<1>1. 0 \in 0..MaxJobs
  BY BoundAssumption
<1> QED  BY <1>1 DEF LocalTyped, Rest

\* Every variable of a thread keeps its type, and only one thread moves.
LEMMA ThreadLocals ==
    ASSUME PoolInv, NEW t \in Threads,
           ThreadStep(t) \/ WorkerAnswers(t) \/ WorkerOverruns(t)
    PROVE  LocalTyped' /\ Alone(t)
<1> USE DEF PoolInv, Alone
<1> DEFINE Moved ==
        /\ pc' \in [Threads -> PcValues]
        /\ \A u \in Threads \ {t} :
              \/ pc'[u] = pc[u]
              \/ pc[u] = "waiting" /\ pc'[u] = "checkout"
              \/ pc[u] = "closing" /\ pc'[u] = "close"
<1>1. \A to \in PcValues : Goto(t, to) => Moved
  BY GotoMoves
<1>2. \A to \in PcValues \ {"waiting", "closing"} : NotifyAndGoto(t, to) => Moved
  BY NotifyMoves
<1>3. \A what : Reply(t, what) \/ ReplyAndNotify(t, what) => Moved
  BY <1>1, <1>2 DEF Reply, ReplyAndNotify, PcValues
<1> HIDE DEF Moved
<1>4. Rest(t) /\ Moved => LocalTyped' /\ Alone(t)
  BY RestFrees DEF LocalTyped, Moved
<1>5. \A what : Reply(t, what) \/ ReplyAndNotify(t, what) => LocalTyped' /\ Alone(t)
  BY <1>3, <1>4 DEF Reply, ReplyAndNotify
<1>6. Moved /\ UNCHANGED local => LocalTyped' /\ Alone(t)
  BY DEF LocalTyped, Moved, local
<1> USE DEF PcValues
<1>7. CASE Recv(t)
  <2>1. next \in Job /\ next \in 1..Len(sent) /\ sent[next] \in Request
    <3>1. next \in 1..Len(sent)
      BY <1>7 DEF Recv, QueueTyped
    <3> QED  BY <3>1, SentAt
  <2>2. sent[next].kind = "close" => sent[next].doc \in Doc
    BY <2>1, HeldAt DEF SentJobs
  <2>3. job' \in [Threads -> 0..MaxJobs]
    BY <1>7, <2>1 DEF Recv, LocalTyped, Job
  <2>4. phase' \in [Threads -> {"unlock", "open", "serve"}]
    BY <1>7 DEF Recv, LocalTyped
  <2>5. todo' \in [Threads -> SUBSET Doc]
    <3>1. \/ todo' = todo
          \/ /\ todo' = [todo EXCEPT ![t] = {sent[next].doc}]
             /\ sent[next].kind = "close"
      BY <1>7 DEF Recv
    <3> QED  BY <3>1, <2>2 DEF LocalTyped
  <2>6. Moved
    BY <1>7, <1>1 DEF Recv
  <2> QED  BY <1>7, <2>3, <2>4, <2>5, <2>6 DEF Recv, LocalTyped, Moved
<1>8. CASE CheckoutRefused(t)
  BY <1>8, <1>5 DEF CheckoutRefused
<1>9. CASE CheckoutIdle(t)
  <2>1. docs[DocOf(t)].idle \in Seq(Worker)
    BY <1>9, HeldAt DEF CheckoutIdle, Serving, IsOpen
  <2>2. docs[DocOf(t)].idle[Len(docs[DocOf(t)].idle)] \in Worker
    BY <1>9, <2>1 DEF CheckoutIdle
  <2>3. Moved
    BY <1>9, <1>1 DEF CheckoutIdle
  <2> QED  BY <1>9, <2>2, <2>3 DEF CheckoutIdle, LocalTyped, Moved
<1>10. CASE CheckoutGrow(t) \/ CheckoutWait(t)
  BY <1>10, <1>1, <1>6 DEF CheckoutGrow, CheckoutWait
<1>11. CASE Spawn(t)
  <2>1. worker' \in [Threads -> Worker \cup {NoWorker}]
    BY <1>11 DEF Spawn, LocalTyped, Worker
  <2>2. phase' \in [Threads -> {"unlock", "open", "serve"}]
    BY <1>11 DEF Spawn, LocalTyped
  <2>3. Moved
    BY <1>11, <1>1 DEF Spawn
  <2> QED  BY <1>11, <2>1, <2>2, <2>3 DEF Spawn, LocalTyped, Moved
<1>12. CASE SpawnFails(t)
  BY <1>12, <1>1, <1>5, <1>6 DEF SpawnFails
<1>13. CASE GiveBack(t)
  BY <1>13, <1>2, <1>5, <1>6 DEF GiveBack
<1>14. CASE Forsake(t)
  BY <1>14, <1>5 DEF Forsake
<1>15. CASE Publish(t)
  <2>1. CASE IsOpen(DocOf(t))
    BY ZenonT(30), <1>15, <2>1, <1>1 DEF Publish, LocalTyped, Moved
  <2>2. CASE ~IsOpen(DocOf(t))
    BY <1>15, <2>2, <1>5 DEF Publish
  <2> QED  BY <2>1, <2>2
<1>16. CASE Watch(t)
  BY <1>16, <1>1, <1>6 DEF Watch
<1>17. CASE WorkerLost(t) \/ WorkerAnswers(t) \/ WorkerOverruns(t)
  <2>1. Moved
    BY <1>17, <1>1 DEF WorkerLost, WorkerAnswers, WorkerOverruns, Exchanged
  <2>2. outcome' \in [Threads -> {"ok", "error", "lost", "overlong"}]
    BY <1>17 DEF WorkerLost, WorkerAnswers, WorkerOverruns, Exchanged, LocalTyped
  <2>3. worker' \in [Threads -> Worker \cup {NoWorker}] /\ \A u \in Threads \ {t} : worker'[u] = worker[u]
    <3>1. pc[t] = "inside"
      BY <1>17 DEF WorkerLost, WorkerAnswers, WorkerOverruns, Exchanged
    <3>2. worker[t] \in Worker
      BY <3>1 DEF Row, WorkerRow, Holding
    <3> QED  BY <1>17, <3>2, WorkerReaped DEF WorkerLost, WorkerAnswers, WorkerOverruns, LocalTyped
  <2> QED
    BY <1>17, <2>1, <2>2, <2>3
       DEF WorkerLost, WorkerAnswers, WorkerOverruns, Exchanged, LocalTyped, Moved
<1>18. CASE EndWatch(t) \/ EndUnlock(t) \/ EndOpen(t) \/ EndServe(t)
  <2>1. Moved
    BY <1>18, <1>1 DEF EndWatch, EndUnlock, EndOpen, EndServe
  <2>2. killed' \in [Threads -> BOOLEAN]
    BY <1>18 DEF EndUnlock, EndOpen, EndServe, EndWatch, DropWatch, Take, LocalTyped
  <2>3. /\ phase' \in [Threads -> {"unlock", "open", "serve"}]
        /\ \A u \in Threads \ {t} : phase'[u] = phase[u]
    BY <1>18 DEF EndWatch, EndUnlock, EndOpen, EndServe, LocalTyped
  <2>4. verdict' \in [Threads -> {"ok", "failed", "gone", "retry"}]
    BY <1>18 DEF EndWatch, EndUnlock, EndOpen, EndServe, LocalTyped
  <2> QED
    BY <1>18, <2>1, <2>2, <2>3, <2>4 DEF EndWatch, EndUnlock, EndOpen, EndServe, LocalTyped, Moved
<1>19. CASE Diagnose(t)
  BY <1>19, <1>1 DEF Diagnose, LocalTyped, Moved
<1>20. CASE KeepWorker(t)
  BY <1>20, <1>1, <1>6 DEF KeepWorker
<1>21. CASE CondemnWorker(t)
  BY <1>21, <1>1 DEF CondemnWorker, LocalTyped, Moved
<1>22. CASE Checkin(t)
  BY <1>22, <1>5 DEF Checkin
<1>23. CASE DropWorker(t)
  <2>1. worker[t] \in Worker
    BY <1>23 DEF DropWorker, Row, WorkerRow, Holding
  <2> QED  BY <1>23, <2>1, <1>1, WorkerReaped DEF DropWorker, LocalTyped, Moved
<1>24. CASE Account(t)
  <2>1. CASE verdict[t] = "retry"
    BY ZenonT(30), <1>24, <2>1, <1>2 DEF Account, LocalTyped, Moved
  <2>2. CASE verdict[t] # "retry"
    BY <1>24, <2>2, <1>5 DEF Account
  <2> QED  BY <2>1, <2>2
<1>25. CASE PublishDoc(t)
  BY <1>25, <1>5 DEF PublishDoc
<1>26. CASE Sweep(t)
  <2>1. {d \in 1..Len(docs) : docs[d].open} \subseteq Doc
    BY HeldAt
  <2>2. CASE {d \in 1..Len(docs) : docs[d].open} = {}
    BY <1>26, <2>2, <1>5 DEF Sweep
  <2>3. CASE {d \in 1..Len(docs) : docs[d].open} # {}
    BY ZenonT(30), <1>26, <2>1, <2>3, <1>1 DEF Sweep, LocalTyped, Moved
  <2> QED  BY <2>2, <2>3
<1>27. CASE CloseRefused(t)
  <2>1. CASE Kind(t) = "close" \/ todo[t] = {Target(t)}
    BY <1>27, <2>1, <1>5 DEF CloseRefused
  <2>2. CASE ~(Kind(t) = "close" \/ todo[t] = {Target(t)})
    BY <1>27, <2>2 DEF CloseRefused, LocalTyped
  <2> QED  BY <2>1, <2>2
<1>28. CASE CloseWait(t)
  BY <1>28, <1>1, <1>6 DEF CloseWait
<1>29. CASE CloseTake(t)
  <2>1. docs[Target(t)].idle \in Seq(Worker)
    BY <1>29, HeldAt DEF CloseTake, IsOpen
  <2>2. {docs[Target(t)].idle[i] : i \in 1..Len(docs[Target(t)].idle)} \subseteq Worker
    BY <2>1
  <2>3. Moved
    BY <1>29, <1>1 DEF CloseTake
  <2> QED  BY <1>29, <2>2, <2>3 DEF CloseTake, LocalTyped, Moved
<1>30. CASE CloseKill(t)
  <2>1. CASE todo[t] = {}
    BY <1>30, <2>1, <1>5 DEF CloseKill
  <2>2. CASE todo[t] # {}
    BY <1>30, <2>2, <1>1 DEF CloseKill, LocalTyped, Moved
  <2> QED  BY <2>1, <2>2
<1> QED
  BY <1>7, <1>8, <1>9, <1>10, <1>11, <1>12, <1>13, <1>14, <1>15, <1>16, <1>17, <1>18,
     <1>19, <1>20, <1>21, <1>22, <1>23, <1>24, <1>25, <1>26, <1>27, <1>28, <1>29, <1>30
     DEF ThreadStep

-----------------------------------------------------------------------------
\* What each step does to the table of documents: one slot becomes h.
Only(d, h) ==
    /\ docs' \in Seq(Held) /\ Len(docs') = Len(docs) /\ docs'[d] = h
    /\ \A e \in 1..Len(docs) : e # d => docs'[e] = docs[e]

LEMMA SlotChanges ==
    ASSUME DocsTyped, NEW d \in 1..Len(docs), NEW h \in Held,
           docs' = [docs EXCEPT ![d] = h]
    PROVE  Only(d, h)
<1>1. docs \in Seq(Held)
  BY DEF DocsTyped
<1>2. /\ [docs EXCEPT ![d] = h] \in Seq(Held)
      /\ Len([docs EXCEPT ![d] = h]) = Len(docs)
      /\ \A e \in 1..Len(docs) :
            [docs EXCEPT ![d] = h][e] = IF e = d THEN h ELSE docs[e]
  BY <1>1, ExceptSeq
<1> QED  BY <1>2 DEF Only

LEMMA HoleTyped == Hole \in Held
<1>1. <<>> \in Seq(Worker)
  BY EmptySeq
<1> QED  BY <1>1 DEF Hole, Held

LEMMA CheckoutIdleDocs ==
    ASSUME DocsTyped, NEW t \in Threads, CheckoutIdle(t)
    PROVE  LET d == DocOf(t)
               s == SubSeq(docs[d].idle, 1, Len(docs[d].idle) - 1)
           IN  /\ IsOpen(d) /\ Len(docs[d].idle) > 0
               /\ s \in Seq(Worker) /\ Len(s) = Len(docs[d].idle) - 1
               /\ \A i \in 1..Len(s) : s[i] = docs[d].idle[i]
               /\ Only(d, [docs[d] EXCEPT !.idle = s])
<1> DEFINE d == DocOf(t)
<1> DEFINE n == Len(docs[d].idle)
<1> DEFINE s == SubSeq(docs[d].idle, 1, n - 1)
<1>1. d \in 1..Len(docs) /\ IsOpen(d) /\ n > 0
  BY DEF CheckoutIdle, Serving, IsOpen
<1>2. docs[d] \in Held /\ n \in Nat /\ \A i \in 1..n : docs[d].idle[i] \in Worker
  BY <1>1, HeldAt
<1>3. /\ s \in Seq(Worker) /\ Len(s) = n - 1
      /\ \A i \in 1..Len(s) : s[i] = docs[d].idle[i]
  <2>1. 1 \in Int /\ n - 1 \in Int /\ \A i \in 1..(n - 1) : docs[d].idle[i] \in Worker
    BY <1>2
  <2>2. /\ s \in Seq(Worker) /\ Len(s) = IF 1 <= n - 1 THEN n - 1 - 1 + 1 ELSE 0
        /\ \A i \in 1..(n - 1 - 1 + 1) : s[i] = docs[d].idle[1 + i - 1]
    BY <2>1, SubSeqProperties
  <2> QED  BY <2>2, <1>1, <1>2
<1>4. docs' = [docs EXCEPT ![d] = [docs[d] EXCEPT !.idle = s]]
  BY DEF CheckoutIdle
<1>5. [docs[d] EXCEPT !.idle = s] \in Held
  BY <1>2, <1>3 DEF Held
<1> QED  BY <1>1, <1>3, <1>4, <1>5, SlotChanges

LEMMA CheckoutGrowDocs ==
    ASSUME DocsTyped, NEW t \in Threads, CheckoutGrow(t)
    PROVE  LET d == DocOf(t) IN
           /\ IsOpen(d) /\ docs[d].spawned < Capacity
           /\ Only(d, [docs[d] EXCEPT !.spawned = @ + 1])
<1> DEFINE d == DocOf(t)
<1>1. d \in 1..Len(docs) /\ IsOpen(d) /\ docs[d].spawned < Capacity
  BY DEF CheckoutGrow, Serving, IsOpen
<1>2. docs' = [docs EXCEPT ![d] = [docs[d] EXCEPT !.spawned = @ + 1]]
  BY DEF CheckoutGrow
<1>3. [docs[d] EXCEPT !.spawned = @ + 1] \in Held
  BY <1>1, HeldAt DEF Held
<1> QED  BY <1>1, <1>2, <1>3, SlotChanges

LEMMA GiveBackDocs ==
    ASSUME DocsTyped, NEW t \in Threads, GiveBack(t), IsOpen(DocOf(t))
    PROVE  LET d == DocOf(t) IN
           Only(d, [docs[d] EXCEPT !.spawned = IF @ = 0 THEN 0 ELSE @ - 1])
<1> DEFINE d == DocOf(t)
<1> DEFINE h == [docs[d] EXCEPT !.spawned = IF @ = 0 THEN 0 ELSE @ - 1]
<1>1. d \in 1..Len(docs)
  BY DEF IsOpen
<1>2. docs' = [docs EXCEPT ![d] = h]
  BY DEF GiveBack, GivenBack
<1>3. h \in Held
  BY <1>1, HeldAt DEF Held
<1> QED  BY <1>1, <1>2, <1>3, SlotChanges

LEMMA PublishDocs ==
    ASSUME DocsTyped, NEW t \in Threads, Publish(t), IsOpen(DocOf(t)),
           worker[t] \in Worker
    PROVE  LET d == DocOf(t) IN
           Only(d, [docs[d] EXCEPT !.senders = @ \cup {worker[t].pid}])
<1> DEFINE d == DocOf(t)
<1> DEFINE h == [docs[d] EXCEPT !.senders = @ \cup {worker[t].pid}]
<1>1. d \in 1..Len(docs)
  BY DEF IsOpen
<1>2. docs' = [docs EXCEPT ![d] = h]
  BY DEF Publish
<1>3. worker[t].pid \in Pids
  BY DEF Worker
<1>4. h \in Held
  BY <1>1, <1>3, HeldAt DEF Held
<1> QED  BY <1>1, <1>2, <1>4, SlotChanges

LEMMA DiagnoseDocs ==
    ASSUME DocsTyped, NEW t \in Threads, Diagnose(t)
    PROVE  \/ docs' = docs
           \/ /\ IsOpen(DocOf(t))
              /\ Only(DocOf(t), [docs[DocOf(t)] EXCEPT !.outlived = TRUE])
<1> DEFINE d == DocOf(t)
<1> SUFFICES ASSUME docs' # docs  PROVE IsOpen(d) /\ Only(d, [docs[d] EXCEPT !.outlived = TRUE])
  OBVIOUS
<1>1. IsOpen(d) /\ docs' = [docs EXCEPT ![d] = [docs[d] EXCEPT !.outlived = TRUE]]
  BY DEF Diagnose
<1>2. d \in 1..Len(docs)
  BY <1>1 DEF IsOpen
<1>3. [docs[d] EXCEPT !.outlived = TRUE] \in Held
  BY <1>2, HeldAt DEF Held
<1> QED  BY <1>1, <1>2, <1>3, SlotChanges

LEMMA CheckinDocs ==
    ASSUME DocsTyped, NEW t \in Threads, Checkin(t), IsOpen(DocOf(t)),
           worker[t] \in Worker
    PROVE  LET d == DocOf(t)
               s == Append(docs[d].idle, worker[t])
           IN  /\ s \in Seq(Worker) /\ Len(s) = Len(docs[d].idle) + 1
               /\ \A i \in 1..Len(docs[d].idle) : s[i] = docs[d].idle[i]
               /\ s[Len(docs[d].idle) + 1] = worker[t]
               /\ Only(d, [docs[d] EXCEPT !.idle = s])
<1> DEFINE d == DocOf(t)
<1> DEFINE s == Append(docs[d].idle, worker[t])
<1>1. d \in 1..Len(docs)
  BY DEF IsOpen
<1>2. docs[d] \in Held /\ docs[d].idle \in Seq(Worker)
  BY <1>1, HeldAt
<1>3. /\ s \in Seq(Worker) /\ Len(s) = Len(docs[d].idle) + 1
      /\ \A i \in 1..Len(docs[d].idle) : s[i] = docs[d].idle[i]
      /\ s[Len(docs[d].idle) + 1] = worker[t]
  BY <1>2, AppendProperties
<1>4. docs' = [docs EXCEPT ![d] = [docs[d] EXCEPT !.idle = s]]
  BY DEF Checkin
<1>5. [docs[d] EXCEPT !.idle = s] \in Held
  BY <1>2, <1>3 DEF Held
<1> QED  BY <1>1, <1>3, <1>4, <1>5, SlotChanges

LEMMA AccountDocs ==
    ASSUME DocsTyped, NEW t \in Threads, Account(t), IsOpen(DocOf(t))
    PROVE  LET d == DocOf(t) IN
           Only(d, [docs[d] EXCEPT !.spawned = IF @ = 0 THEN 0 ELSE @ - 1,
                                   !.senders = @ \ {worker[t].pid}])
<1> DEFINE d == DocOf(t)
<1> DEFINE h == [docs[d] EXCEPT !.spawned = IF @ = 0 THEN 0 ELSE @ - 1,
                                !.senders = @ \ {worker[t].pid}]
<1>1. d \in 1..Len(docs)
  BY DEF IsOpen
<1>2. docs' = [docs EXCEPT ![d] = h]
  BY DEF Account, Forgotten
<1>3. h \in Held
  <2>1. /\ docs[d] \in Held /\ docs[d].spawned \in Nat
        /\ docs[d].senders \subseteq Pids
    BY <1>1, HeldAt
  <2>2. /\ (IF docs[d].spawned = 0 THEN 0 ELSE docs[d].spawned - 1) \in Nat
        /\ docs[d].senders \ {worker[t].pid} \subseteq Pids
    BY <2>1
  <2> QED  BY <2>1, <2>2 DEF Held
<1> QED  BY <1>1, <1>2, <1>3, SlotChanges

LEMMA CloseTakeDocs ==
    ASSUME DocsTyped, NEW t \in Threads, CloseTake(t)
    PROVE  IsOpen(Target(t)) /\ Only(Target(t), Hole)
<1>1. IsOpen(Target(t)) /\ Target(t) \in 1..Len(docs) /\ docs' = [docs EXCEPT ![Target(t)] = Hole]
  BY DEF CloseTake, IsOpen
<1> QED  BY <1>1, SlotChanges, HoleTyped

LEMMA PublishDocDocs ==
    ASSUME DocsTyped, NEW t \in Threads, PublishDoc(t), worker[t] \in Worker
    PROVE  LET h == [open |-> TRUE, idle |-> <<worker[t]>>, spawned |-> 1,
                     senders |-> {worker[t].pid}, outlived |-> FALSE]
           IN  /\ docs' \in Seq(Held) /\ Len(docs') = Len(docs) + 1
               /\ docs'[Len(docs) + 1] = h
               /\ \A e \in 1..Len(docs) : docs'[e] = docs[e]
<1> DEFINE h == [open |-> TRUE, idle |-> <<worker[t]>>, spawned |-> 1,
                 senders |-> {worker[t].pid}, outlived |-> FALSE]
<1>1. <<worker[t]>> \in Seq(Worker) /\ worker[t].pid \in Pids
  BY DEF Worker
<1>2. h \in Held
  BY <1>1 DEF Held
<1>3. docs' = Append(docs, h) /\ docs \in Seq(Held)
  BY DEF PublishDoc, DocsTyped
<1> QED  BY <1>2, <1>3, AppendProperties

LEMMA RetireIdleDocs ==
    ASSUME DocsTyped, NEW d \in Doc, RetireIdle(d)
    PROVE  \E k \in 1..Len(docs[d].idle) :
              LET s == SubSeq(docs[d].idle, k + 1, Len(docs[d].idle))
                  ws == {docs[d].idle[i] : i \in 1..k}
              IN  /\ IsOpen(d) /\ k <= docs[d].spawned /\ retired' = ws
                  /\ s \in Seq(Worker) /\ Len(s) = Len(docs[d].idle) - k
                  /\ \A i \in 1..Len(s) : s[i] = docs[d].idle[i + k]
                  /\ Only(d, [docs[d] EXCEPT !.idle = s, !.spawned = @ - k,
                                !.senders = @ \ {w.pid : w \in ws}])
<1> DEFINE m == Len(docs[d].idle)
<1> DEFINE mayGo == IF docs[d].spawned > KeptWarm THEN docs[d].spawned - KeptWarm ELSE 0
<1> DEFINE K(n) == IF n < mayGo THEN n ELSE mayGo
<1> DEFINE S(k) == SubSeq(docs[d].idle, k + 1, m)
<1> DEFINE W(k) == {docs[d].idle[i] : i \in 1..k}
<1> DEFINE H(k) == [docs[d] EXCEPT !.idle = S(k), !.spawned = @ - k,
                                   !.senders = @ \ {w.pid : w \in W(k)}]
<1>1. d \in 1..Len(docs) /\ IsOpen(d)
  BY DEF RetireIdle, IsOpen
<1>2. docs[d] \in Held /\ m \in Nat /\ docs[d].spawned \in Nat
      /\ \A i \in 1..m : docs[d].idle[i] \in Worker
  BY <1>1, HeldAt
<1>3. PICK n \in 1..m : K(n) > 0 /\ retired' = W(K(n))
                        /\ docs' = [docs EXCEPT ![d] = H(K(n))]
  BY DEF RetireIdle
<1> DEFINE k == K(n)
<1>4. k \in 1..m /\ k <= docs[d].spawned
  BY <1>2, <1>3, PoolAssumption
<1> HIDE DEF k, K, mayGo
<1>5. /\ S(k) \in Seq(Worker) /\ Len(S(k)) = m - k
      /\ \A i \in 1..Len(S(k)) : S(k)[i] = docs[d].idle[i + k]
  <2>1. k + 1 \in Int /\ m \in Int /\ \A i \in (k + 1)..m : docs[d].idle[i] \in Worker
    BY <1>2, <1>4
  <2>2. /\ S(k) \in Seq(Worker) /\ Len(S(k)) = IF k + 1 <= m THEN m - (k + 1) + 1 ELSE 0
        /\ \A i \in 1..(m - (k + 1) + 1) : S(k)[i] = docs[d].idle[k + 1 + i - 1]
    BY SMTT(30), <2>1, SubSeqProperties
  <2> QED  BY <2>2, <1>2, <1>4
<1>6. H(k) \in Held
  <2>1. docs[d].spawned - k \in Nat /\ docs[d].senders \ {w.pid : w \in W(k)} \subseteq Pids
    BY <1>1, <1>2, <1>4, HeldAt
  <2>2. S(k) \in Seq(Worker)
    BY <1>5
  <2> HIDE DEF S, W
  <2> QED  BY <1>2, <2>1, <2>2 DEF Held
<1>7. Only(d, H(k))
  BY <1>1, <1>3, <1>6, SlotChanges DEF k
<1> QED  BY <1>1, <1>3, <1>4, <1>5, <1>7 DEF k

-----------------------------------------------------------------------------
\* What a thread's step does to the queue: it takes a job, keeps the one it
\* has, or answers it and has nothing in hand.
Took(t) ==
    /\ pc[t] = "idle" /\ next <= Len(sent) /\ next' = next + 1 /\ answer' = answer
    /\ job'[t] = next /\ pc'[t] # "idle"

Kept(t) ==
    /\ pc[t] # "idle" /\ pc'[t] # "idle" /\ next' = next /\ answer' = answer
    /\ job'[t] = job[t]

Replied(t) ==
    /\ pc[t] # "idle" /\ next' = next
    /\ \E what \in {"ok", "failed", "closed", "gone"} :
          answer' = [answer EXCEPT ![job[t]] = what]
    /\ pc'[t] = "idle" /\ job'[t] = 0 /\ worker'[t] = NoWorker /\ phase'[t] = "serve"
    /\ dropping'[t] = {}

LEMMA QueueSteps ==
    ASSUME PoolInv, NEW t \in Threads,
           ThreadStep(t) \/ WorkerAnswers(t) \/ WorkerOverruns(t)
    PROVE  sent' = sent /\ (Took(t) \/ Kept(t) \/ Replied(t))
<1> USE DEF PoolInv
<1>1. \A to \in PcValues : Goto(t, to) => pc'[t] = to
  BY GotoMoves
<1>2. \A to \in PcValues \ {"waiting", "closing"} : NotifyAndGoto(t, to) => pc'[t] = to
  BY NotifyMoves
<1> USE DEF PcValues
<1>3. \A what \in {"ok", "failed", "closed", "gone"} :
          (Reply(t, what) \/ ReplyAndNotify(t, what)) /\ pc[t] # "idle" /\ next' = next
             => Replied(t)
  <2>1. Rest(t) => /\ job'[t] = 0 /\ worker'[t] = NoWorker /\ phase'[t] = "serve"
                   /\ dropping'[t] = {}
    BY RestFrees
  <2>2. \A what : Reply(t, what) \/ ReplyAndNotify(t, what) =>
            pc'[t] = "idle" /\ Rest(t) /\ answer' = [answer EXCEPT ![job[t]] = what]
    BY <1>1, <1>2 DEF Reply, ReplyAndNotify, Answer
  <2> QED  BY <2>1, <2>2 DEF Replied
<1>4. \A to \in PcValues : Goto(t, to) /\ UNCHANGED <<next, answer>> /\ job'[t] = job[t]
                           /\ to # "idle" /\ pc[t] # "idle" => Kept(t)
  BY <1>1 DEF Kept
<1>5. \A to \in PcValues \ {"waiting", "closing"} :
          NotifyAndGoto(t, to) /\ UNCHANGED <<next, answer>> /\ job'[t] = job[t]
             /\ to # "idle" /\ pc[t] # "idle" => Kept(t)
  BY <1>2 DEF Kept
<1>6. CASE Recv(t)
  <2>1. job'[t] = next
    BY <1>6 DEF Recv, LocalTyped
  <2> QED  BY <1>6, <1>1, <2>1 DEF Recv, Took
<1>7. CASE CheckoutRefused(t)
  BY <1>7, <1>3 DEF CheckoutRefused
<1>8. CASE CheckoutIdle(t) \/ CheckoutGrow(t) \/ CheckoutWait(t)
  BY <1>8, <1>4 DEF CheckoutIdle, CheckoutGrow, CheckoutWait, Serving, local
<1>9. CASE Spawn(t)
  BY <1>9, <1>4 DEF Spawn
<1>10. CASE SpawnFails(t)
  BY <1>10, <1>3, <1>4 DEF SpawnFails, local
<1>11. CASE GiveBack(t)
  BY <1>11, <1>3, <1>5 DEF GiveBack, local
<1>12. CASE Forsake(t)
  BY <1>12, <1>3 DEF Forsake
<1>13. CASE Publish(t)
  BY <1>13, <1>3, <1>4 DEF Publish
<1>14. CASE Watch(t)
  BY <1>14, <1>4 DEF Watch, local
<1>15. CASE WorkerLost(t) \/ WorkerAnswers(t) \/ WorkerOverruns(t)
  BY <1>15, <1>4 DEF WorkerLost, WorkerAnswers, WorkerOverruns, Exchanged
<1>16. CASE EndWatch(t) \/ EndUnlock(t) \/ EndOpen(t) \/ EndServe(t)
  BY <1>16, <1>4 DEF EndUnlock, EndOpen, EndServe, EndWatch, DropWatch, Take
<1>17. CASE Diagnose(t) \/ KeepWorker(t) \/ CondemnWorker(t)
  BY <1>17, <1>4 DEF Diagnose, KeepWorker, CondemnWorker, local
<1>18. CASE Checkin(t)
  <2>1. verdict[t] \in {"ok", "failed", "gone"}
    BY <1>18 DEF Checkin, Row, VerdictRow, LocalTyped
  <2> QED  BY <1>18, <1>3, <2>1 DEF Checkin
<1>19. CASE DropWorker(t)
  BY <1>19, <1>4 DEF DropWorker
<1>20. CASE Account(t)
  <2>1. CASE verdict[t] = "retry"
    BY <1>20, <2>1, <1>5 DEF Account
  <2>2. CASE verdict[t] \in {"ok", "failed", "gone"}
    BY <1>20, <2>2, <1>3 DEF Account
  <2> QED  BY <2>1, <2>2 DEF LocalTyped
<1>21. CASE PublishDoc(t)
  BY <1>21, <1>3 DEF PublishDoc
<1>22. CASE Sweep(t)
  BY <1>22, <1>3, <1>4 DEF Sweep
<1>23. CASE CloseRefused(t)
  <2>1. CASE Kind(t) = "close" \/ todo[t] = {Target(t)}
    BY <1>23, <2>1, <1>3 DEF CloseRefused
  <2>2. CASE ~(Kind(t) = "close" \/ todo[t] = {Target(t)})
    BY <1>23, <2>2 DEF CloseRefused, Kept
  <2> QED  BY <2>1, <2>2
<1>24. CASE CloseWait(t) \/ CloseTake(t)
  BY <1>24, <1>4 DEF CloseWait, CloseTake, local
<1>25. CASE CloseKill(t)
  BY <1>25, <1>3, <1>4 DEF CloseKill
<1> QED
  BY <1>6, <1>7, <1>8, <1>9, <1>10, <1>11, <1>12, <1>13, <1>14, <1>15, <1>16, <1>17, <1>18,
     <1>19, <1>20, <1>21, <1>22, <1>23, <1>24, <1>25 DEF ThreadStep

-----------------------------------------------------------------------------
\* The jobs in hand.
LEMMA JobsInHand ==
    ASSUME PoolInv, NEW t \in Threads,
           ThreadStep(t) \/ WorkerAnswers(t) \/ WorkerOverruns(t)
    PROVE  /\ QueueTyped' /\ OneThreadPerJob'
           /\ \A u \in Threads : JobRow(u)'
           /\ \A j \in Job : j >= next' => answer'[j] = "none"
<1> USE DEF PoolInv
<1>1. sent' = sent /\ (Took(t) \/ Kept(t) \/ Replied(t)) /\ Alone(t) /\ LocalTyped'
  BY QueueSteps, ThreadLocals
<1>2. \A u \in Threads \ {t} :
          /\ job'[u] = job[u] /\ JobRow(u) /\ (pc'[u] = "idle" <=> pc[u] = "idle")
  BY <1>1 DEF Alone, Row
<1>3. Len(sent) \in Nat /\ next \in 1..Len(sent) + 1 /\ Len(sent) <= MaxJobs
  BY LenProperties DEF QueueTyped
<1>4. JobRow(t)
  BY DEF Row
<1>5. CASE Took(t)
  <2>1. next \in Job /\ answer[next] = "none"
    BY <1>3, <1>5, BoundAssumption DEF Took, SentJobs, Job
  <2>2. QueueTyped'
    BY <1>1, <1>3, <1>5 DEF QueueTyped, Took
  <2>3. \A u \in Threads \ {t} : job[u] # next /\ JobRow(u)'
    BY <1>1, <1>2, <1>3, <1>5 DEF JobRow, Took
  <2>4. JobRow(t)'
    BY <1>1, <1>3, <1>5, <2>1 DEF JobRow, Took
  <2>5. OneThreadPerJob'
    BY <1>2, <1>5, <2>3 DEF OneThreadPerJob, Took
  <2>6. \A j \in Job : j >= next' => answer'[j] = "none"
    BY <1>3, <1>5 DEF Took, SentJobs, Job
  <2> QED  BY <2>2, <2>3, <2>4, <2>5, <2>6
<1>6. CASE Kept(t)
  <2>1. QueueTyped'
    BY <1>1, <1>6 DEF QueueTyped, Kept
  <2>2. \A u \in Threads : JobRow(u)'
    BY <1>1, <1>2, <1>4, <1>6 DEF JobRow, Kept
  <2>3. OneThreadPerJob'
    BY <1>2, <1>6 DEF OneThreadPerJob, Kept
  <2>4. \A j \in Job : j >= next' => answer'[j] = "none"
    BY <1>6 DEF Kept, SentJobs
  <2> QED  BY <2>1, <2>2, <2>3, <2>4
<1>7. CASE Replied(t)
  <2>1. PICK what \in {"ok", "failed", "closed", "gone"} :
            answer' = [answer EXCEPT ![job[t]] = what]
    BY <1>7 DEF Replied
  <2>2. job[t] \in 1..Len(sent) /\ job[t] < next
    BY <1>4, <1>7 DEF JobRow, Replied
  <2>3. answer' \in [Job -> {"none", "ok", "failed", "closed", "gone"}]
        /\ \A j \in Job : j # job[t] => answer'[j] = answer[j]
    BY <2>1 DEF QueueTyped
  <2>4. QueueTyped'
    BY <1>1, <1>7, <2>3 DEF QueueTyped, Replied
  <2>5. ASSUME NEW u \in Threads \ {t}  PROVE JobRow(u)'
    <3>1. pc[u] # "idle" => job[u] \in Job /\ job[u] # job[t]
      BY <1>2, <1>3, <2>2, BoundAssumption DEF JobRow, OneThreadPerJob, Job
    <3> QED  BY <1>1, <1>2, <1>7, <2>3, <3>1 DEF JobRow, Replied
  <2>6. JobRow(t)'
    BY <1>7 DEF JobRow, Replied
  <2>7. OneThreadPerJob'
    BY <1>2, <1>7 DEF OneThreadPerJob, Replied
  <2>8. \A j \in Job : j >= next' => answer'[j] = "none"
    BY <1>3, <1>7, <2>2, <2>3 DEF Replied, SentJobs, Job
  <2> QED  BY <2>4, <2>5, <2>6, <2>7, <2>8
<1> QED  BY <1>1, <1>5, <1>6, <1>7

LEMMA OthersKeepTheirRows ==
    ASSUME PoolInv, NEW t \in Threads,
           ThreadStep(t) \/ WorkerAnswers(t) \/ WorkerOverruns(t)
    PROVE  \A u \in Threads \ {t} :
              Kind(u)' = Kind(u) /\ DocOf(u)' = DocOf(u) /\ Row(u)'
<1> SUFFICES ASSUME NEW u \in Threads \ {t}
             PROVE  Kind(u)' = Kind(u) /\ DocOf(u)' = DocOf(u) /\ Row(u)'
  OBVIOUS
<1>1. sent' = sent /\ Alone(t) /\ JobRow(u)' /\ Row(u)
  BY QueueSteps, ThreadLocals, JobsInHand DEF PoolInv
<1>2. Kind(u)' = Kind(u) /\ DocOf(u)' = DocOf(u)
  BY <1>1 DEF Kind, DocOf, Alone
<1>3. \/ pc'[u] = pc[u]
      \/ pc[u] = "waiting" /\ pc'[u] = "checkout"
      \/ pc[u] = "closing" /\ pc'[u] = "close"
  BY <1>1 DEF Alone
<1>4. KindRow(u)'
  BY <1>1, <1>2, <1>3 DEF Row, KindRow, AskPcs, OpenPcs, ClosePcs
<1>5. PhaseRow(u)'
  BY <1>1, <1>2, <1>3 DEF Row, PhaseRow, Alone
<1>6. WorkerRow(u)'
  BY <1>1, <1>3 DEF Row, WorkerRow, Alone, Holding
<1>7. VerdictRow(u)'
  BY <1>1, <1>3 DEF Row, VerdictRow, Alone
<1> QED  BY <1>1, <1>2, <1>4, <1>5, <1>6, <1>7 DEF Row

\* The thread that moves: where it goes with a job of that kind, in which
\* phase, and whether it has a worker.
OwnRow(t) == KindRow(t) /\ PhaseRow(t) /\ WorkerRow(t) /\ VerdictRow(t)

LEMMA MoverKeepsItsRow ==
    ASSUME PoolInv, NEW t \in Threads,
           ThreadStep(t) \/ WorkerAnswers(t) \/ WorkerOverruns(t)
    PROVE  OwnRow(t)'
<1> USE DEF PoolInv
<1> DEFINE Rows == OwnRow(t)'
<1>1. sent' = sent /\ (Took(t) \/ Kept(t) \/ Replied(t)) /\ LocalTyped' /\ Row(t)
  BY QueueSteps, ThreadLocals
<1>2. CASE Replied(t)
  BY <1>2 DEF Replied, OwnRow, KindRow, PhaseRow, WorkerRow, VerdictRow, Holding
<1>3. CASE Took(t)
  <2>1. next \in 1..Len(sent) /\ next \in Job
    BY <1>3, SentAt DEF Took, QueueTyped
  <2>2. Recv(t)
    BY <1>3
       DEF Took, ThreadStep, Recv, CheckoutRefused, CheckoutIdle, CheckoutGrow, CheckoutWait,
           Serving, Spawn, SpawnFails, GiveBack, Forsake, Publish, Watch, WorkerLost,
           EndUnlock, EndOpen, EndServe, EndWatch, DropWatch, Take, Diagnose, KeepWorker, CondemnWorker,
           Checkin, DropWorker, Account, PublishDoc, Sweep, CloseRefused, CloseWait,
           CloseTake, CloseKill, WorkerAnswers, WorkerOverruns, Exchanged
  <2>3. Kind(t)' = sent[next].kind
    BY <1>1, <1>3 DEF Took, Kind
  <2>4. /\ worker'[t] = NoWorker /\ dropping'[t] = {} /\ verdict' = verdict
    BY <1>1, <1>3, <2>2 DEF Took, Recv, Row, WorkerRow, Holding
  <2>5. \/ sent[next].kind = "open" /\ pc'[t] = "spawn" /\ phase'[t] = "open"
        \/ sent[next].kind = "ask" /\ pc'[t] = "checkout" /\ phase'[t] = "serve"
        \/ sent[next].kind = "close" /\ pc'[t] = "close" /\ phase'[t] = "serve"
        \/ sent[next].kind = "release" /\ pc'[t] = "sweep" /\ phase'[t] = "serve"
    BY <1>1, <2>2 DEF Recv, Row, PhaseRow, LocalTyped, Goto
  <2> QED
    BY <2>3, <2>4, <2>5
       DEF OwnRow, KindRow, PhaseRow, WorkerRow, VerdictRow, Holding, AskPcs, OpenPcs, ClosePcs
<1>4. CASE Kept(t)
  <2>1. Kind(t)' = Kind(t)
    BY <1>1, <1>4 DEF Kind, Kept
  <2>2. KindRow(t) /\ PhaseRow(t) /\ WorkerRow(t) /\ VerdictRow(t)
    BY <1>1 DEF Row
  <2>3. pc[t] # "idle" /\ pc'[t] # "idle"
    BY <1>4 DEF Kept
  <2>4. Kind(t) \in {"open", "ask", "close", "release"}
    BY <1>1, <2>3, SentAt DEF Row, JobRow, Kind, Request
  <2> USE DEF PcValues
  <2>5. \A to \in PcValues : Goto(t, to) => pc'[t] = to
    BY GotoMoves
  <2>6. \A to \in PcValues \ {"waiting", "closing"} : NotifyAndGoto(t, to) => pc'[t] = to
    BY NotifyMoves
  <2>7. \A what : ~Reply(t, what) /\ ~ReplyAndNotify(t, what)
    <3>1. \A what : Reply(t, what) => pc'[t] = "idle"
      BY <2>5 DEF Reply
    <3>2. \A what : ReplyAndNotify(t, what) => pc'[t] = "idle"
      BY <2>6 DEF ReplyAndNotify
    <3> QED  BY <2>3, <3>1, <3>2
  <2> USE DEF OwnRow, KindRow, PhaseRow, WorkerRow, VerdictRow, Holding, AskPcs, OpenPcs,
              ClosePcs
  <2> HIDE DEF PcValues
  <2>8. CASE CheckoutIdle(t)
    <3>1. /\ pc[t] = "checkout" /\ pc'[t] = "watch" /\ phase' = phase /\ dropping' = dropping
          /\ worker'[t] = docs[DocOf(t)].idle[Len(docs[DocOf(t)].idle)]
      BY <2>8, <2>5 DEF CheckoutIdle, Serving, PcValues, LocalTyped
    <3>2. worker'[t] \in Worker
      <4>1. DocOf(t) \in 1..Len(docs) /\ Len(docs[DocOf(t)].idle) > 0
        BY <2>8 DEF CheckoutIdle, Serving, IsOpen
      <4> QED  BY <3>1, <4>1, HeldAt
    <3> QED  BY <2>1, <2>2, <2>4, <3>1, <3>2
  <2>9. CASE CheckoutGrow(t) \/ CheckoutWait(t)
    <3>1. pc[t] = "checkout" /\ pc'[t] \in {"spawn", "waiting"} /\ UNCHANGED local
      BY <2>9, <2>5 DEF CheckoutGrow, CheckoutWait, Serving, PcValues
    <3> QED  BY <2>1, <2>2, <2>4, <3>1 DEF local
  <2>10. CASE Spawn(t)
    <3>1. worker'[t] \in Worker /\ dropping' = dropping /\ pc[t] = "spawn"
      BY <2>10 DEF Spawn, LocalTyped, Worker
    <3>2. \/ pc'[t] = "watch" /\ phase'[t] = "unlock"
          \/ pc'[t] = "watch" /\ phase'[t] = phase[t] /\ Kind(t) = "open"
          \/ pc'[t] = "publish" /\ phase'[t] = phase[t] /\ Kind(t) # "open"
      BY <2>10, <2>5 DEF Spawn, LocalTyped, PcValues
    <3> QED  BY <2>1, <2>2, <2>4, <3>1, <3>2
  <2>11. CASE SpawnFails(t)
    <3>1. pc[t] = "spawn" /\ Kind(t) # "open" /\ pc'[t] = "giveBack" /\ UNCHANGED local
      BY <2>11, <2>5, <2>7 DEF SpawnFails, PcValues
    <3> QED  BY <2>1, <2>2, <2>4, <3>1 DEF local
  <2>12. CASE GiveBack(t)
    <3>1. /\ pc[t] = "giveBack" /\ worker[t] # NoWorker /\ pc'[t] = "forsake"
          /\ UNCHANGED local
      BY <2>12, <2>6, <2>7 DEF GiveBack, PcValues
    <3>2. worker[t] \in Worker
      BY <3>1 DEF LocalTyped
    <3> QED  BY <2>1, <2>2, <2>4, <3>1, <3>2 DEF local
  <2>13. CASE Publish(t)
    <3>1. /\ pc[t] = "publish" /\ pc'[t] = "watch" /\ phase'[t] = "serve"
          /\ worker' = worker /\ dropping' = dropping
      BY <2>13, <2>5, <2>7 DEF Publish, PcValues, LocalTyped
    <3> QED  BY <2>1, <2>2, <2>4, <3>1
  <2>14. CASE Watch(t)
    <3>1. pc[t] = "watch" /\ pc'[t] = "inside" /\ UNCHANGED local
      BY <2>14, <2>5 DEF Watch, PcValues
    <3> QED  BY <2>1, <2>2, <2>4, <3>1 DEF local
  <2>15. CASE WorkerLost(t) \/ WorkerAnswers(t) \/ WorkerOverruns(t)
    <3>1. pc[t] = "inside" /\ pc'[t] = "end" /\ UNCHANGED <<phase, dropping, verdict>>
      BY <2>15, <2>5 DEF WorkerLost, WorkerAnswers, WorkerOverruns, Exchanged, PcValues
    <3>2. worker[t] \in Worker
      BY <2>2, <3>1
    <3>3. worker'[t] \in Worker
      BY <2>15, <3>2, WorkerReaped DEF WorkerLost, WorkerAnswers, WorkerOverruns, LocalTyped
    <3> QED  BY <2>1, <2>2, <2>4, <3>1, <3>3
  <2>16. CASE EndUnlock(t)
    <3>1. pc[t] = "unwatch" /\ phase[t] = "unlock" /\ UNCHANGED <<worker, dropping, verdict>>
      BY <2>16 DEF EndUnlock, DropWatch
    <3>2. \/ Kind(t) = "open" /\ pc'[t] = "watch" /\ phase'[t] = "open"
          \/ Kind(t) # "open" /\ pc'[t] = "publish" /\ phase'[t] = "unlock"
          \/ Kind(t) = "open" /\ pc'[t] = "forsake" /\ phase'[t] = "unlock"
          \/ Kind(t) # "open" /\ pc'[t] = "giveBack" /\ phase'[t] = "unlock"
      BY <2>16, <2>5, <3>1 DEF EndUnlock, LocalTyped, PcValues
    <3> QED  BY <2>1, <2>2, <2>4, <3>1, <3>2
  <2>17. CASE EndOpen(t)
    <3>1. /\ pc[t] = "unwatch" /\ phase[t] = "open" /\ UNCHANGED <<phase, worker, dropping, verdict>>
          /\ pc'[t] \in {"publishDoc", "forsake"}
      BY <2>17, <2>5 DEF EndOpen, DropWatch, PcValues
    <3> QED  BY <2>1, <2>2, <2>4, <3>1
  <2>18. CASE EndServe(t)
    <3>1. /\ pc[t] = "unwatch" /\ phase[t] = "serve" /\ UNCHANGED <<phase, worker, dropping>>
          /\ pc'[t] \in {"drop", "checkin", "diagnose"} /\ verdict'[t] # "retry"
      BY <2>18, <2>5 DEF EndServe, DropWatch, PcValues, LocalTyped
    <3> QED  BY <2>1, <2>2, <2>4, <3>1
  <2>18a. CASE EndWatch(t)
    <3>1. /\ pc[t] = "end" /\ pc'[t] = "unwatch"
          /\ UNCHANGED <<phase, worker, dropping, verdict>>
      BY <2>18a, <2>5 DEF EndWatch, PcValues
    <3> QED  BY <2>1, <2>2, <2>4, <3>1
  <2>19. CASE Diagnose(t)
    <3>1. /\ pc[t] = "diagnose" /\ UNCHANGED <<phase, worker, dropping>>
          /\ \/ pc'[t] = "drop"
             \/ pc'[t] = "judge" /\ verdict' = verdict
      BY <2>19, <2>5 DEF Diagnose, PcValues
    <3> QED  BY <2>1, <2>2, <2>4, <3>1
  <2>20. CASE KeepWorker(t)
    <3>1. pc[t] = "judge" /\ pc'[t] = "checkin" /\ UNCHANGED local
      BY <2>20, <2>5 DEF KeepWorker, PcValues
    <3> QED  BY <2>1, <2>2, <2>4, <3>1 DEF local
  <2>21. CASE CondemnWorker(t)
    <3>1. pc[t] = "judge" /\ pc'[t] = "drop" /\ UNCHANGED <<phase, worker, dropping>>
      BY <2>21, <2>5 DEF CondemnWorker, PcValues
    <3> QED  BY <2>1, <2>2, <2>4, <3>1
  <2>22. CASE DropWorker(t)
    <3>1. pc[t] = "drop" /\ pc'[t] = "account" /\ UNCHANGED <<phase, dropping, verdict>>
      BY <2>22, <2>5 DEF DropWorker, PcValues
    <3>2. worker'[t] \in Worker
      BY <2>2, <2>22, <3>1, WorkerReaped DEF DropWorker, LocalTyped
    <3> QED  BY <2>1, <2>2, <2>4, <3>1, <3>2
  <2>23. CASE Account(t)
    <3>1. /\ pc[t] = "account" /\ pc'[t] = "checkout" /\ UNCHANGED <<phase, dropping>>
          /\ worker'[t] = NoWorker
      BY <2>23, <2>6, <2>7 DEF Account, PcValues, LocalTyped
    <3> QED  BY <2>1, <2>2, <2>4, <3>1
  <2>24. CASE Sweep(t) \/ CloseRefused(t) \/ CloseWait(t)
    <3>1. /\ pc[t] \in {"sweep", "close"} /\ pc'[t] \in {"close", "closing"}
          /\ UNCHANGED <<phase, worker, dropping, verdict>>
      BY <2>24, <2>5, <2>7 DEF Sweep, CloseRefused, CloseWait, PcValues, local
    <3> QED  BY <2>1, <2>2, <2>4, <3>1
  <2>25. CASE CloseTake(t)
    <3>1. pc[t] = "close" /\ pc'[t] = "kill" /\ UNCHANGED <<phase, worker, verdict>>
      BY <2>25, <2>5 DEF CloseTake, PcValues
    <3> QED  BY <2>1, <2>2, <2>4, <3>1
  <2>26. CASE CloseKill(t)
    <3>1. /\ pc[t] = "kill" /\ pc'[t] = "close" /\ UNCHANGED <<phase, worker, verdict>>
          /\ dropping'[t] = {}
      BY <2>26, <2>5, <2>7 DEF CloseKill, PcValues, LocalTyped
    <3> QED  BY <2>1, <2>2, <2>4, <3>1
  <2>27. ~Recv(t) /\ ~CheckoutRefused(t) /\ ~Forsake(t) /\ ~Checkin(t) /\ ~PublishDoc(t)
    BY <2>3, <2>7 DEF Recv, CheckoutRefused, Forsake, Checkin, PublishDoc
  <2> HIDE DEF OwnRow
  <2> QED
    BY <2>8, <2>9, <2>10, <2>11, <2>12, <2>13, <2>14, <2>15, <2>16, <2>17, <2>18, <2>18a, <2>19,
       <2>20, <2>21, <2>22, <2>23, <2>24, <2>25, <2>26, <2>27 DEF ThreadStep
<1> QED  BY <1>1, <1>2, <1>3, <1>4

-----------------------------------------------------------------------------
\* The table of documents keeps its type, and only an open that succeeds makes
\* it longer.
LEMMA TableGrows ==
    ASSUME PoolInv, NEW t \in Threads,
           ThreadStep(t) \/ WorkerAnswers(t) \/ WorkerOverruns(t)
    PROVE  /\ docs' \in Seq(Held)
           /\ \/ Len(docs') = Len(docs) /\ ~PublishDoc(t)
              \/ Len(docs') = Len(docs) + 1 /\ PublishDoc(t)
<1> USE DEF PoolInv
<1>1. docs \in Seq(Held) /\ Len(docs) \in Nat
  BY LenProperties DEF DocsTyped
<1>2. pc[t] \in Holding => worker[t] \in Worker
  BY DEF Row, WorkerRow
<1>3. CASE docs' = docs
  <2>1. ~PublishDoc(t)
    <3> SUFFICES ASSUME PublishDoc(t)  PROVE FALSE
      OBVIOUS
    <3>1. Len(docs') = Len(docs) + 1
      BY <1>2, PublishDocDocs DEF PublishDoc, Holding
    <3> QED  BY <1>1, <1>3, <3>1
  <2> QED  BY <1>1, <1>3, <2>1
<1>4. CASE PublishDoc(t)
  BY <1>2, <1>4, PublishDocDocs DEF PublishDoc, Holding
<1>5. ASSUME \E d, h : Only(d, h)
      PROVE  docs' \in Seq(Held) /\ Len(docs') = Len(docs) /\ ~PublishDoc(t)
  <2>1. docs' \in Seq(Held) /\ Len(docs') = Len(docs)
    BY <1>5 DEF Only
  <2> QED  BY <1>1, <1>2, <2>1, PublishDocDocs DEF PublishDoc, Holding
<1>6. CASE docs' # docs /\ ~PublishDoc(t)
  <2>1. CASE CheckoutIdle(t)
    BY <2>1, <1>5, CheckoutIdleDocs
  <2>2. CASE CheckoutGrow(t)
    BY <2>2, <1>5, CheckoutGrowDocs
  <2>3. CASE GiveBack(t)
    BY <1>6, <2>3, <1>5, GiveBackDocs DEF GiveBack, GivenBack
  <2>4. CASE Publish(t)
    BY <1>2, <1>6, <2>4, <1>5, PublishDocs DEF Publish, Holding
  <2>5. CASE Diagnose(t)
    BY <1>6, <2>5, <1>5, DiagnoseDocs
  <2>6. CASE Checkin(t)
    BY <1>2, <1>6, <2>6, <1>5, CheckinDocs DEF Checkin, Holding
  <2>7. CASE Account(t)
    BY <1>6, <2>7, <1>5, AccountDocs DEF Account
  <2>8. CASE CloseTake(t)
    BY <2>8, <1>5, CloseTakeDocs
  <2> QED
    BY <1>6, <2>1, <2>2, <2>3, <2>4, <2>5, <2>6, <2>7, <2>8
       DEF ThreadStep, Recv, CheckoutRefused, CheckoutWait, Spawn, SpawnFails, Forsake,
           Watch, WorkerLost, EndWatch, EndUnlock, EndOpen, EndServe, KeepWorker, CondemnWorker,
           DropWorker, Sweep, CloseRefused, CloseWait, CloseKill, WorkerAnswers,
           WorkerOverruns, Exchanged
<1> QED  BY <1>3, <1>4, <1>6

LEMMA PendingIsFinite ==
    ASSUME QueueTyped
    PROVE  IsFiniteSet(PendingOpens) /\ Cardinality(PendingOpens) \in Nat
<1>1. PendingOpens \in SUBSET (1..Len(sent)) /\ 1 \in Int /\ Len(sent) \in Int
  BY LenProperties DEF PendingOpens, QueueTyped
<1>2. IsFiniteSet(1..Len(sent))
  BY <1>1, FS_Interval
<1> QED  BY <1>1, <1>2, FS_Subset, FS_CardinalityType

\* An open takes the place among the documents that was kept for it when it
\* was sent.
LEMMA OpensKeepFitting ==
    ASSUME PoolInv, NEW t \in Threads,
           ThreadStep(t) \/ WorkerAnswers(t) \/ WorkerOverruns(t)
    PROVE  DocsTyped' /\ SentJobs' /\ OpensFit'
<1> USE DEF PoolInv
<1>1. /\ sent' = sent /\ (Took(t) \/ Kept(t) \/ Replied(t)) /\ QueueTyped'
      /\ \A j \in Job : j >= next' => answer'[j] = "none"
  BY QueueSteps, JobsInHand
<1>2. /\ docs' \in Seq(Held) /\ Len(docs) \in Nat /\ Len(sent) \in Nat
      /\ \/ Len(docs') = Len(docs) /\ ~PublishDoc(t)
         \/ Len(docs') = Len(docs) + 1 /\ PublishDoc(t)
  BY TableGrows, LenProperties DEF DocsTyped, QueueTyped
<1>3. SentJobs'
  BY <1>1, <1>2 DEF SentJobs
<1>4. IsFiniteSet(PendingOpens) /\ Cardinality(PendingOpens) \in Nat /\ MaxDocs \in Nat
      /\ Len(docs) + Cardinality(PendingOpens) <= MaxDocs
  BY PendingIsFinite, BoundAssumption DEF OpensFit
<1>5. IsFiniteSet(PendingOpens') /\ Cardinality(PendingOpens') \in Nat
  <2>1. /\ PendingOpens' \in SUBSET (1..Len(sent)) /\ 1 \in Int /\ Len(sent) \in Int
    BY <1>1, <1>2 DEF PendingOpens
  <2>2. IsFiniteSet(1..Len(sent))
    BY <2>1, FS_Interval
  <2> QED  BY <2>1, <2>2, FS_Subset, FS_CardinalityType
<1>6. PendingOpens' \subseteq PendingOpens
  <2>1. \A j \in 1..Len(sent) : j \in Job
    BY SentAt
  <2>2. CASE answer' = answer
    BY <1>1, <2>2 DEF PendingOpens
  <2>3. CASE Replied(t)
    <3>1. PICK what \in {"ok", "failed", "closed", "gone"} :
              answer' = [answer EXCEPT ![job[t]] = what]
      BY <2>3 DEF Replied
    <3>2. \A j \in Job : answer'[j] = "none" => answer[j] = "none"
      BY <3>1 DEF QueueTyped
    <3> QED  BY <1>1, <2>1, <3>2 DEF PendingOpens
  <2> QED  BY <1>1, <2>2, <2>3 DEF Took, Kept
<1>7. OpensFit'
  <2>1. CASE Len(docs') = Len(docs)
    <3>1. Cardinality(PendingOpens') <= Cardinality(PendingOpens)
      BY <1>4, <1>6, FS_Subset
    <3> QED  BY <1>2, <1>4, <1>5, <2>1, <3>1 DEF OpensFit
  <2>2. CASE PublishDoc(t) /\ Len(docs') = Len(docs) + 1
    <3>1. pc[t] = "publishDoc"
      BY <2>2 DEF PublishDoc
    <3>2. JobRow(t) /\ KindRow(t)
      BY DEF Row
    <3>3. job[t] \in 1..Len(sent) /\ answer[job[t]] = "none" /\ job[t] \in Job
      BY <3>1, <3>2, SentAt DEF JobRow
    <3>4. Kind(t) = "open"
      <4>1. Kind(t) \in {"open", "ask", "close", "release"}
        BY <3>3, SentAt DEF Kind, Request
      <4> QED  BY <3>1, <3>2, <4>1 DEF KindRow, AskPcs, ClosePcs
    <3>5. job[t] \in PendingOpens
      BY <3>3, <3>4 DEF PendingOpens, Kind
    <3>6. job[t] \notin PendingOpens'
      BY <1>1, <2>2, <3>3 DEF PublishDoc, Reply, Answer, PendingOpens, QueueTyped
    <3>7. PendingOpens' \in SUBSET (PendingOpens \ {job[t]})
      BY <1>6, <3>6
    <3>8. /\ IsFiniteSet(PendingOpens \ {job[t]})
          /\ Cardinality(PendingOpens \ {job[t]}) = Cardinality(PendingOpens) - 1
      BY <1>4, <3>5, FS_RemoveElement
    <3>9. Cardinality(PendingOpens') <= Cardinality(PendingOpens) - 1
      BY <3>7, <3>8, FS_Subset
    <3> QED  BY <1>2, <1>4, <1>5, <2>2, <3>9 DEF OpensFit
  <2> QED  BY <1>2, <2>1, <2>2
<1>8. DocsTyped'
  BY <1>2, <1>4, <1>5, <1>7 DEF DocsTyped, OpensFit
<1> QED  BY <1>3, <1>7, <1>8

-----------------------------------------------------------------------------
\* Worlds: processes, in-flight calls, retired workers, the budgets.
LEMMA ReapTyped ==
    ASSUME NEW p \in [Pids -> {"free", "alive", "dead", "gone"}], NEW ws
    PROVE  Reap(p, ws) \in [Pids -> {"free", "alive", "dead", "gone"}]
  BY DEF Reap

LEMMA WithoutOne ==
    ASSUME NEW S, NEW s \in Seq(S), NEW i \in 1..Len(s)
    PROVE  /\ Without(s, i) \in Seq(S) /\ Len(Without(s, i)) = Len(s) - 1
           /\ \A k \in 1..Len(s) - 1 :
                 Without(s, i)[k] = IF k < i THEN s[k] ELSE s[k + 1]
<1> DEFINE a == SubSeq(s, 1, i - 1)
<1> DEFINE b == SubSeq(s, i + 1, Len(s))
<1>1. Len(s) \in Nat /\ \A k \in 1..Len(s) : s[k] \in S
  BY LenProperties, ElementOfSeq
<1>2. /\ a \in Seq(S) /\ Len(a) = i - 1
      /\ \A k \in 1..i - 1 : a[k] = s[k]
  <2>1. 1 \in Int /\ i - 1 \in Int /\ \A k \in 1..i - 1 : s[k] \in S
    BY <1>1
  <2>2. /\ a \in Seq(S) /\ Len(a) = IF 1 <= i - 1 THEN i - 1 - 1 + 1 ELSE 0
        /\ \A k \in 1..i - 1 - 1 + 1 : a[k] = s[1 + k - 1]
    BY <2>1, SubSeqProperties
  <2> QED  BY <1>1, <2>2
<1>3. /\ b \in Seq(S) /\ Len(b) = Len(s) - i
      /\ \A k \in 1..Len(s) - i : b[k] = s[i + k]
  <2>1. i + 1 \in Int /\ Len(s) \in Int /\ \A k \in i + 1..Len(s) : s[k] \in S
    BY <1>1
  <2>2. /\ b \in Seq(S) /\ Len(b) = IF i + 1 <= Len(s) THEN Len(s) - (i + 1) + 1 ELSE 0
        /\ \A k \in 1..Len(s) - (i + 1) + 1 : b[k] = s[i + 1 + k - 1]
    BY <2>1, SubSeqProperties
  <2> QED  BY <1>1, <2>2
<1> HIDE DEF a, b
<1>4. /\ a \o b \in Seq(S) /\ Len(a \o b) = Len(a) + Len(b)
      /\ \A k \in 1..Len(a) + Len(b) : (a \o b)[k] = IF k <= Len(a) THEN a[k] ELSE b[k - Len(a)]
  BY <1>2, <1>3, ConcatProperties
<1>5. Without(s, i) = a \o b
  BY DEF Without, a, b
<1>6. ASSUME NEW k \in 1..Len(s) - 1
      PROVE  Without(s, i)[k] = IF k < i THEN s[k] ELSE s[k + 1]
  <2>1. Len(a) + Len(b) = Len(s) - 1 /\ k \in 1..Len(a) + Len(b)
    BY <1>1, <1>2, <1>3
  <2>2. CASE k < i
    <3>1. k <= Len(a) /\ k \in 1..i - 1
      BY <1>1, <1>2, <2>2
    <3> QED  BY <1>2, <1>4, <1>5, <2>1, <2>2, <3>1
  <2>3. CASE ~(k < i)
    <3>1. ~(k <= Len(a)) /\ k - Len(a) \in 1..Len(s) - i /\ i + (k - Len(a)) = k + 1
      BY <1>1, <1>2, <2>3
    <3> QED  BY <1>3, <1>4, <1>5, <2>1, <2>3, <3>1
  <2> QED  BY <2>2, <2>3
<1>7. Len(a) + Len(b) = Len(s) - 1
  BY <1>1, <1>2, <1>3
<1> QED  BY <1>4, <1>5, <1>6, <1>7

LEMMA LeastOfSome ==
    ASSUME NEW S \in SUBSET Nat, S # {}
    PROVE  \E i \in S : \A k \in S : i <= k
<1>1. \E i \in S : \A k \in S : ~(<<k, i>> \in OpToRel(<, Nat))
  BY NatLessThanWellFounded, WFMin
<1>2. PICK i \in S : \A k \in S : ~(<<k, i>> \in OpToRel(<, Nat))
  BY <1>1
<1>3. \A k \in S : ~(k < i)
  BY <1>2 DEF OpToRel
<1> QED  BY <1>3

\* CallWatch::end finds an entry of this worker's pid if there is one.
LEMMA EntryFound ==
    ASSUME WorldTyped, NEW t \in Threads
    PROVE  \/ EntryOf(t) = 0 /\ \A i \in 1..Len(calls) : calls[i].pid # worker[t].pid
           \/ EntryOf(t) \in 1..Len(calls) /\ calls[EntryOf(t)].pid = worker[t].pid
<1> DEFINE mine == {i \in 1..Len(calls) : calls[i].pid = worker[t].pid}
<1>1. Len(calls) \in Nat
  BY LenProperties DEF WorldTyped
<1>2. CASE mine = {}
  BY <1>2 DEF EntryOf
<1>3. CASE mine # {}
  <2>1. mine \in SUBSET Nat
    BY <1>1
  <2>2. \E i \in mine : \A k \in mine : i <= k
    BY <1>3, <2>1, LeastOfSome
  <2>3. EntryOf(t) = CHOOSE i \in mine : \A k \in mine : i <= k
    BY <1>3 DEF EntryOf
  <2>4. EntryOf(t) \in mine
    BY <2>2, <2>3
  <2> QED  BY <2>4
<1> QED  BY <1>2, <1>3

LEMMA WorldKeepsItsType ==
    ASSUME PoolInv, NEW t \in Threads,
           ThreadStep(t) \/ WorkerAnswers(t) \/ WorkerOverruns(t)
    PROVE  WorldTyped'
<1> USE DEF PoolInv
<1> DEFINE Call == [pid : Pids, killed : BOOLEAN]
<1>1. calls \in Seq(Call) /\ (pc[t] \in Holding => worker[t] \in Worker)
  BY DEF WorldTyped, Row, WorkerRow
<1>2. calls' \in Seq(Call)
  <2>1. CASE calls' = calls
    BY <1>1, <2>1
  <2>2. CASE Watch(t)
    <3>1. [pid |-> worker[t].pid, killed |-> FALSE] \in Call
      BY <1>1, <2>2 DEF Watch, Holding, Worker
    <3>2. calls' = Append(calls, [pid |-> worker[t].pid, killed |-> FALSE])
      BY <2>2 DEF Watch
    <3> HIDE DEF Call
    <3> QED  BY <1>1, <3>1, <3>2, AppendProperties
  <2>3. CASE EndWatch(t) \/ EndUnlock(t) \/ EndOpen(t) \/ EndServe(t)
    <3>1. calls' = IF EntryOf(t) = 0 THEN calls ELSE Without(calls, EntryOf(t))
      BY <2>3 DEF EndUnlock, EndOpen, EndServe, EndWatch, DropWatch, Take
    <3>2. CASE EntryOf(t) = 0
      BY <1>1, <3>1, <3>2
    <3>3. CASE EntryOf(t) # 0
      <4>1. EntryOf(t) \in 1..Len(calls)
        BY <3>3, EntryFound
      <4> HIDE DEF Call
      <4> QED  BY <1>1, <3>1, <3>3, <4>1, WithoutOne
    <3> QED  BY <3>2, <3>3
  <2> QED
    BY <2>1, <2>2, <2>3
       DEF ThreadStep, Recv, CheckoutRefused, CheckoutIdle, CheckoutGrow, CheckoutWait,
           Spawn, SpawnFails, GiveBack, Forsake, Publish, WorkerLost, Diagnose, KeepWorker,
           CondemnWorker, Checkin, DropWorker, Account, PublishDoc, Sweep, CloseRefused,
           CloseWait, CloseTake, CloseKill, WorkerAnswers, WorkerOverruns, Exchanged
<1>3. proc' \in [Pids -> {"free", "alive", "dead", "gone"}]
  <2>1. \A p, ws : p = proc => Reap(p, ws) \in [Pids -> {"free", "alive", "dead", "gone"}]
    BY ReapTyped DEF WorldTyped
  <2>2. CASE proc' = proc
    BY <2>2 DEF WorldTyped
  <2>3. CASE \E ws : proc' = Reap(proc, ws)
    BY <2>1, <2>3
  <2>4. CASE Spawn(t)
    BY <2>4 DEF Spawn, WorldTyped
  <2> QED
    BY <2>2, <2>3, <2>4
       DEF ThreadStep, Recv, CheckoutRefused, CheckoutIdle, CheckoutGrow, CheckoutWait,
           SpawnFails, GiveBack, Forsake, Publish, Watch, WorkerLost, EndWatch, EndUnlock, EndOpen,
           EndServe, Diagnose, KeepWorker, CondemnWorker, Checkin, DropWorker, Account,
           PublishDoc, Sweep, CloseRefused, CloseWait, CloseTake, CloseKill, WorkerAnswers,
           WorkerOverruns, Exchanged
<1>4. retired' = retired /\ truncated' = truncated /\ crashes' \in 0..MaxCrashes
  BY SMTT(30), BoundAssumption
     DEF ThreadStep, Recv, CheckoutRefused, CheckoutIdle, CheckoutGrow, CheckoutWait,
         Spawn, SpawnFails, GiveBack, Forsake, Publish, Watch, WorkerLost, EndWatch, EndUnlock,
         EndOpen, EndServe, Diagnose, KeepWorker, CondemnWorker, Checkin, DropWorker,
         Account, PublishDoc, Sweep, CloseRefused, CloseWait, CloseTake, CloseKill,
         WorkerAnswers, WorkerOverruns, Exchanged, WorldTyped
<1> QED  BY <1>2, <1>3, <1>4 DEF WorldTyped

-----------------------------------------------------------------------------
\* The books of the pools.
LEMMA CountWithout ==
    ASSUME NEW S, IsFiniteSet(S), NEW x, NEW i \in {0, 1}, i = 1 <=> x \in S
    PROVE  Cardinality(S \ {x}) = Cardinality(S) - i
<1>1. Cardinality(S) \in Nat
  BY FS_CardinalityType
<1>2. Cardinality(S \ {x}) = IF x \in S THEN Cardinality(S) - 1 ELSE Cardinality(S)
  BY FS_RemoveElement
<1> QED  BY <1>1, <1>2

LEMMA CountsAreFinite ==
    /\ \A d : IsFiniteSet(CountedFor(d)) /\ Cardinality(CountedFor(d)) \in Nat
    /\ \A d : IsFiniteSet(CountedFor(d)') /\ Cardinality(CountedFor(d)') \in Nat
<1>1. IsFiniteSet(Threads)
  BY PoolAssumption
<1>2. ASSUME NEW d  PROVE IsFiniteSet(CountedFor(d)) /\ Cardinality(CountedFor(d)) \in Nat
  <2>1. CountedFor(d) \in SUBSET Threads
    BY DEF CountedFor
  <2> QED  BY <1>1, <2>1, FS_Subset, FS_CardinalityType
<1>3. ASSUME NEW d  PROVE IsFiniteSet(CountedFor(d)') /\ Cardinality(CountedFor(d)') \in Nat
  <2>1. CountedFor(d)' \in SUBSET Threads
    BY DEF CountedFor
  <2> QED  BY <1>1, <2>1, FS_Subset, FS_CardinalityType
<1> QED  BY <1>2, <1>3

\* A step of t changes the counts by t alone.
LEMMA CountsMove ==
    ASSUME PoolInv, NEW t \in Threads,
           ThreadStep(t) \/ WorkerAnswers(t) \/ WorkerOverruns(t)
    PROVE  /\ \A u \in Threads \ {t} :
                 (Counted(u)' <=> Counted(u)) /\ DocOf(u)' = DocOf(u)
           /\ \A d : \A i, j \in {0, 1} :
                 (i = 1 <=> t \in CountedFor(d)) /\ (j = 1 <=> t \in CountedFor(d)')
                    => Cardinality(CountedFor(d)') + i = Cardinality(CountedFor(d)) + j
<1>1. ASSUME NEW u \in Threads \ {t}
      PROVE  (Counted(u)' <=> Counted(u)) /\ DocOf(u)' = DocOf(u)
  <2>1. /\ Kind(u)' = Kind(u) /\ DocOf(u)' = DocOf(u)
        /\ \/ pc'[u] = pc[u]
           \/ pc[u] = "waiting" /\ pc'[u] = "checkout"
           \/ pc[u] = "closing" /\ pc'[u] = "close"
    BY OthersKeepTheirRows, ThreadLocals DEF Alone
  <2> QED  BY <2>1 DEF Counted
<1>2. ASSUME NEW d, NEW i \in {0, 1}, NEW j \in {0, 1},
             i = 1 <=> t \in CountedFor(d), j = 1 <=> t \in CountedFor(d)'
      PROVE  Cardinality(CountedFor(d)') + i = Cardinality(CountedFor(d)) + j
  <2> DEFINE A == CountedFor(d)
  <2> DEFINE B == CountedFor(d)'
  <2>1. /\ IsFiniteSet(A) /\ Cardinality(A) \in Nat
        /\ IsFiniteSet(B) /\ Cardinality(B) \in Nat
    BY CountsAreFinite
  <2>2. A \ {t} = B \ {t}
    BY <1>1 DEF CountedFor
  <2>3. (i = 1 <=> t \in A) /\ (j = 1 <=> t \in B)
    BY <1>2
  <2> HIDE DEF A, B
  <2>4. Cardinality(A \ {t}) = Cardinality(A) - i
    BY <2>1, <2>3, CountWithout
  <2>5. Cardinality(B \ {t}) = Cardinality(B) - j
    BY <2>1, <2>3, CountWithout
  <2>6. Cardinality(B) + i = Cardinality(A) + j
    BY <2>1, <2>2, <2>4, <2>5
  <2> QED  BY <2>6 DEF A, B
<1> QED  BY <1>1, <1>2

\* A step that leaves the table alone leaves its thread counted or not.
LEMMA BooksUnmoved ==
    ASSUME PoolInv, NEW t \in Threads,
           ThreadStep(t) \/ WorkerAnswers(t) \/ WorkerOverruns(t),
           docs' = docs, Counted(t)' <=> Counted(t), Counted(t) => DocOf(t)' = DocOf(t)
    PROVE  PoolAccounting' /\ CloseWaitsForPool'
<1>1. \A u \in Threads : (Counted(u)' <=> Counted(u)) /\ (Counted(u) => DocOf(u)' = DocOf(u))
  BY CountsMove
<1>2. \A d : CountedFor(d)' = CountedFor(d)
  BY <1>1 DEF CountedFor
<1>3. PoolAccounting'
  BY <1>2 DEF PoolInv, PoolAccounting
<1>4. CloseWaitsForPool'
  BY <1>1 DEF PoolInv, CloseWaitsForPool, IsOpen
<1> QED  BY <1>3, <1>4

\* A step that changes the slot of its own document keeps its books balanced.
LEMMA BooksOfOne ==
    ASSUME PoolInv, NEW t \in Threads,
           ThreadStep(t) \/ WorkerAnswers(t) \/ WorkerOverruns(t),
           NEW d, d = DocOf(t), NEW h \in Held, IsOpen(d), Only(d, h), h.open,
           Counted(t)' => DocOf(t)' = d,
           NEW i \in {0, 1}, i = 1 <=> Counted(t), NEW j \in {0, 1}, j = 1 <=> Counted(t)',
           h.spawned + Len(docs[d].idle) + i = docs[d].spawned + Len(h.idle) + j,
           h.spawned <= Capacity
    PROVE  PoolAccounting' /\ CloseWaitsForPool'
<1>1. d \in 1..Len(docs) /\ docs[d].open /\ docs[d] \in Held /\ DocsTyped
  BY HeldAt DEF IsOpen, PoolInv
<1>2. /\ Len(docs[d].idle) \in Nat /\ docs[d].spawned \in Nat
      /\ docs[d].spawned = Len(docs[d].idle) + Cardinality(CountedFor(d))
  BY <1>1, HeldAt DEF PoolInv, PoolAccounting
<1>3. Len(h.idle) \in Nat /\ h.spawned \in Nat
  BY LenProperties DEF Held
<1>4. /\ t \in CountedFor(d) <=> Counted(t)
      /\ t \in CountedFor(d)' <=> Counted(t)'
  BY DEF CountedFor
<1>5. h.spawned = Len(h.idle) + Cardinality(CountedFor(d)')
  <2>1. (i = 1 <=> t \in CountedFor(d)) /\ (j = 1 <=> t \in CountedFor(d)')
    BY <1>4
  <2>2. Cardinality(CountedFor(d)') + i = Cardinality(CountedFor(d)) + j
    BY <2>1, CountsMove
  <2>3. Cardinality(CountedFor(d)) \in Nat /\ Cardinality(CountedFor(d)') \in Nat
    BY CountsAreFinite
  <2> DEFINE m == Len(docs[d].idle)
  <2> DEFINE n == Len(h.idle)
  <2> DEFINE x == docs[d].spawned
  <2> DEFINE y == h.spawned
  <2> DEFINE p == Cardinality(CountedFor(d))
  <2> DEFINE q == Cardinality(CountedFor(d)')
  <2>4. /\ m \in Nat /\ n \in Nat /\ x \in Nat /\ y \in Nat /\ p \in Nat /\ q \in Nat
        /\ x = m + p /\ y + m + i = x + n + j /\ q + i = p + j
    BY <1>2, <1>3, <2>2, <2>3
  <2> HIDE DEF m, n, x, y, p, q
  <2>5. y = n + q
    BY <2>4
  <2> QED  BY <2>5 DEF n, q, y
<1>6. ASSUME NEW e \in 1..Len(docs), e # d  PROVE CountedFor(e)' = CountedFor(e)
  BY <1>6, CountsMove DEF CountedFor
<1>7. PoolAccounting'
  <2> SUFFICES ASSUME NEW e \in 1..Len(docs)', docs[e].open'
               PROVE  /\ docs[e].spawned' = Len(docs[e].idle)' + Cardinality(CountedFor(e)')
                      /\ docs[e].spawned' <= Capacity
    BY DEF PoolAccounting
  <2>1. e \in 1..Len(docs)
    BY DEF Only
  <2>2. CASE e = d
    <3>1. docs[e]' = h
      BY <2>2 DEF Only
    <3> QED  BY <1>5, <2>2, <3>1
  <2>3. CASE e # d
    BY <1>6, <2>1, <2>3 DEF Only, PoolInv, PoolAccounting
  <2> QED  BY <2>2, <2>3
<1>8. CloseWaitsForPool'
  <2> SUFFICES ASSUME NEW u \in Threads, Counted(u)'  PROVE IsOpen(DocOf(u))'
    BY DEF CloseWaitsForPool
  <2>1. IsOpen(DocOf(u)) /\ DocOf(u)' = DocOf(u)
    BY CountsMove DEF PoolInv, CloseWaitsForPool
  <2> QED  BY <2>1 DEF IsOpen, Only
<1> QED  BY <1>7, <1>8

\* Whatever a thread does, the books of every pool stay balanced, and no slot is
\* emptied under a thread that is counted in it.
LEMMA BooksBalance ==
    ASSUME PoolInv, NEW t \in Threads,
           ThreadStep(t) \/ WorkerAnswers(t) \/ WorkerOverruns(t)
    PROVE  PoolAccounting' /\ CloseWaitsForPool'
<1>1. /\ sent' = sent /\ (Took(t) \/ Kept(t) \/ Replied(t)) /\ LocalTyped /\ LocalTyped'
      /\ Row(t) /\ Row(t)' /\ DocsTyped
  BY QueueSteps, ThreadLocals, JobsInHand, MoverKeepsItsRow DEF PoolInv, OwnRow, Row
<1> DEFINE Stays == docs' = docs /\ (Counted(t)' <=> Counted(t))
<1>2. Counted(t) /\ Counted(t)' => Kept(t)
  BY <1>1 DEF Took, Replied, Counted
<1>3. Kept(t) => Kind(t)' = Kind(t) /\ DocOf(t)' = DocOf(t)
  BY <1>1 DEF Kept, Kind, DocOf
<1>4. Stays => PoolAccounting' /\ CloseWaitsForPool'
  BY <1>2, <1>3, BooksUnmoved
<1>5. /\ Counted(t) => IsOpen(DocOf(t)) /\ DocOf(t) \in 1..Len(docs)
      /\ pc[t] \in Holding => worker[t] \in Worker
  BY <1>1 DEF PoolInv, CloseWaitsForPool, IsOpen, Row, WorkerRow
<1>6. \A d \in 1..Len(docs) :
          /\ docs[d] \in Held /\ Len(docs[d].idle) \in Nat /\ docs[d].spawned \in Nat
          /\ docs[d].open =>
                /\ docs[d].spawned = Len(docs[d].idle) + Cardinality(CountedFor(d))
                /\ docs[d].spawned <= Capacity
  BY <1>1, HeldAt DEF PoolInv, PoolAccounting
<1>7. Counted(t) => docs[DocOf(t)].spawned > Len(docs[DocOf(t)].idle)
  <2> SUFFICES ASSUME Counted(t)  PROVE docs[DocOf(t)].spawned > Len(docs[DocOf(t)].idle)
    OBVIOUS
  <2>1. t \in CountedFor(DocOf(t))
    BY DEF CountedFor
  <2>2. IsFiniteSet(CountedFor(DocOf(t))) /\ Cardinality(CountedFor(DocOf(t))) \in Nat
    BY CountsAreFinite
  <2>3. Cardinality(CountedFor(DocOf(t))) # 0
    BY <2>1, <2>2, FS_EmptySet
  <2> QED  BY <1>5, <1>6, <2>2, <2>3 DEF IsOpen
<1>8. Replied(t) => ~Counted(t)'
  BY DEF Replied, Counted
<1> USE DEF Counted
<1>9. CASE Recv(t)
  <2>1. pc[t] = "idle" /\ next \in 1..Len(sent) /\ Kind(t)' = sent[next].kind /\ docs' = docs
    BY <1>1, <1>9, SentAt DEF Recv, Took, Kept, Replied, Kind, PoolInv, QueueTyped
  <2>2. \/ pc'[t] = "spawn" /\ Kind(t)' = "open"
        \/ pc'[t] \in {"checkout", "close", "sweep"}
    BY <1>1, <1>9, <2>1 DEF Recv, LocalTyped, Goto
  <2> QED  BY <1>4, <2>1, <2>2
<1>10. CASE CheckoutRefused(t) \/ CheckoutWait(t)
  <2>1. pc[t] = "checkout" /\ docs' = docs
    BY <1>10 DEF CheckoutRefused, CheckoutWait, Serving
  <2>2. Replied(t) \/ pc'[t] = "waiting"
    BY <1>1, <1>10, GotoMoves
       DEF CheckoutRefused, CheckoutWait, Serving, Reply, PcValues, Took, Kept
  <2> QED  BY <1>4, <1>8, <2>1, <2>2
<1>11. CASE CheckoutIdle(t)
  <2>1. PICK d : d = DocOf(t)
    OBVIOUS
  <2> DEFINE s == SubSeq(docs[d].idle, 1, Len(docs[d].idle) - 1)
  <2> DEFINE h == [docs[d] EXCEPT !.idle = s]
  <2>2. /\ IsOpen(d) /\ Len(docs[d].idle) > 0 /\ s \in Seq(Worker)
        /\ Len(s) = Len(docs[d].idle) - 1 /\ Only(d, h)
    BY <1>1, <1>11, <2>1, CheckoutIdleDocs
  <2>3. d \in 1..Len(docs) /\ docs[d].open
    BY <2>2 DEF IsOpen
  <2>4. pc[t] = "checkout" /\ pc'[t] = "watch"
    BY <1>1, <1>11 DEF CheckoutIdle, Serving, Goto, LocalTyped
  <2>5. ~Counted(t) /\ Kept(t)
    BY <1>1, <2>4 DEF Took, Replied
  <2>6. Kind(t) = "ask"
    <3>1. Kind(t) \in {"open", "ask", "close", "release"}
      BY <1>1, <2>4, SentAt DEF Row, JobRow, Kind, Request, PoolInv
    <3> QED  BY <1>1, <2>4, <3>1 DEF Row, KindRow, OpenPcs, ClosePcs
  <2>7. Counted(t)' /\ DocOf(t)' = d
    BY <1>3, <2>1, <2>4, <2>5, <2>6
  <2>8. h \in Held /\ h.open /\ h.spawned = docs[d].spawned /\ h.idle = s
    BY <1>6, <2>2, <2>3 DEF Held
  <2>9. /\ h.spawned + Len(docs[d].idle) + 0 = docs[d].spawned + Len(h.idle) + 1
        /\ h.spawned <= Capacity
    BY SMTT(30), <1>6, <2>2, <2>3, <2>8
  <2> HIDE DEF s, h
  <2> QED  BY <2>1, <2>2, <2>5, <2>7, <2>8, <2>9, BooksOfOne
<1>12. CASE CheckoutGrow(t)
  <2>1. PICK d : d = DocOf(t)
    OBVIOUS
  <2> DEFINE h == [docs[d] EXCEPT !.spawned = @ + 1]
  <2>2. IsOpen(d) /\ docs[d].spawned < Capacity /\ Only(d, h)
    BY <1>1, <1>12, <2>1, CheckoutGrowDocs
  <2>3. d \in 1..Len(docs) /\ docs[d].open
    BY <2>2 DEF IsOpen
  <2>4. pc[t] = "checkout" /\ pc'[t] = "spawn"
    BY <1>1, <1>12 DEF CheckoutGrow, Serving, Goto, LocalTyped
  <2>5. ~Counted(t) /\ Kept(t)
    BY <1>1, <2>4 DEF Took, Replied
  <2>6. Kind(t) = "ask"
    <3>1. Kind(t) \in {"open", "ask", "close", "release"}
      BY <1>1, <2>4, SentAt DEF Row, JobRow, Kind, Request, PoolInv
    <3> QED  BY <1>1, <2>4, <3>1 DEF Row, KindRow, OpenPcs, ClosePcs
  <2>7. Counted(t)' /\ DocOf(t)' = d
    BY <1>3, <2>1, <2>4, <2>5, <2>6
  <2>8. h \in Held /\ h.open /\ h.spawned = docs[d].spawned + 1 /\ h.idle = docs[d].idle
    BY <1>6, <2>3 DEF Held
  <2>9. /\ h.spawned + Len(docs[d].idle) + 0 = docs[d].spawned + Len(h.idle) + 1
        /\ h.spawned <= Capacity
    BY SMTT(30), <1>6, <2>2, <2>3, <2>8, PoolAssumption
  <2> HIDE DEF h
  <2> QED  BY <2>1, <2>2, <2>5, <2>7, <2>8, <2>9, BooksOfOne
<1>13. CASE Spawn(t) \/ SpawnFails(t)
  <2>1. pc[t] = "spawn" /\ docs' = docs
    BY <1>13 DEF Spawn, SpawnFails
  <2>2. \/ /\ pc'[t] = "watch"
        \/ pc'[t] \in {"publish", "giveBack"} /\ Kind(t) # "open"
        \/ Replied(t) /\ Kind(t) = "open"
    BY <1>1, <1>13, <2>1
       DEF Spawn, SpawnFails, Goto, Reply, Rest, LocalTyped, Replied, Took, Kept
  <2>3. Kind(t) \in {"open", "ask"}
    <3>1. Kind(t) \in {"open", "ask", "close", "release"}
      BY <1>1, <2>1, SentAt DEF Row, JobRow, Kind, Request, PoolInv
    <3> QED  BY <1>1, <2>1, <3>1 DEF Row, KindRow, ClosePcs
  <2>4. Counted(t)' <=> Counted(t)
    <3>1. CASE Replied(t)
      BY <1>8, <2>1, <2>2, <3>1 DEF Replied
    <3>2. CASE ~Replied(t)
      BY <1>1, <1>3, <2>1, <2>2, <2>3, <3>2 DEF Took
    <3> QED  BY <3>1, <3>2
  <2> QED  BY <1>4, <2>1, <2>4
<1>14. CASE GiveBack(t)
  <2>1. PICK d : d = DocOf(t)
    OBVIOUS
  <2> DEFINE h == [docs[d] EXCEPT !.spawned = IF @ = 0 THEN 0 ELSE @ - 1]
  <2>2. pc[t] = "giveBack" /\ Counted(t)
    BY <1>14 DEF GiveBack
  <2>3. IsOpen(d) /\ d \in 1..Len(docs) /\ docs[d].open
    BY <1>5, <2>1, <2>2 DEF IsOpen
  <2>4. Only(d, h)
    BY <1>1, <1>14, <2>1, <2>3, GiveBackDocs
  <2>5. ~Counted(t)'
    <3>1. pc'[t] \in {"idle", "forsake"}
      BY <1>1, <1>14, NotifyMoves DEF GiveBack, ReplyAndNotify, PcValues
    <3> QED  BY <3>1
  <2>6. docs[d].spawned > 0 /\ h.spawned = docs[d].spawned - 1
    BY <1>6, <1>7, <2>1, <2>2, <2>3 DEF Held
  <2>7. h \in Held /\ h.open /\ h.idle = docs[d].idle
    BY <1>6, <2>3 DEF Held
  <2>8. /\ h.spawned + Len(docs[d].idle) + 1 = docs[d].spawned + Len(h.idle) + 0
        /\ h.spawned <= Capacity
    BY <1>6, <2>3, <2>6, <2>7, PoolAssumption
  <2> HIDE DEF h
  <2> QED  BY <2>1, <2>2, <2>3, <2>4, <2>5, <2>7, <2>8, BooksOfOne
<1>15. CASE Forsake(t) \/ CloseRefused(t) \/ CloseWait(t) \/ Sweep(t) \/ CloseKill(t)
  <2>1. docs' = docs /\ pc[t] \in {"forsake", "close", "sweep", "kill"}
    BY <1>15 DEF Forsake, CloseRefused, CloseWait, Sweep, CloseKill
  <2>2. Replied(t) \/ pc'[t] \in {"close", "closing"}
    BY <1>1, <1>15
       DEF Forsake, CloseRefused, CloseWait, Sweep, CloseKill, Goto, Reply, Rest, LocalTyped,
           Took, Kept, Replied
  <2> QED  BY <1>4, <1>8, <2>1, <2>2
<1>16. CASE Publish(t)
  <2>1. PICK d : d = DocOf(t)
    OBVIOUS
  <2> DEFINE h == [docs[d] EXCEPT !.senders = @ \cup {worker[t].pid}]
  <2>2. pc[t] = "publish" /\ Counted(t)
    BY <1>16 DEF Publish
  <2>3. IsOpen(d) /\ d \in 1..Len(docs) /\ docs[d].open
    BY <1>5, <2>1, <2>2 DEF IsOpen
  <2>4. worker[t] \in Worker
    BY <1>5, <2>2 DEF Holding
  <2>5. Only(d, h)
    BY <1>1, <1>16, <2>1, <2>3, <2>4, PublishDocs
  <2>6. pc'[t] = "watch"
    BY <1>1, <1>16, <2>1, <2>3 DEF Publish, Goto, LocalTyped
  <2>7. Kind(t) = "ask"
    <3>1. Kind(t) \in {"open", "ask", "close", "release"}
      BY <1>1, <2>2, SentAt DEF Row, JobRow, Kind, Request, PoolInv
    <3> QED  BY <1>1, <2>2, <3>1 DEF Row, KindRow, OpenPcs, ClosePcs
  <2>8. Counted(t)' /\ DocOf(t)' = d
    BY <1>1, <1>3, <2>1, <2>2, <2>6, <2>7 DEF Took, Replied
  <2>9. h \in Held /\ h.open /\ h.idle = docs[d].idle /\ h.spawned = docs[d].spawned
    <3>1. docs[d].senders \cup {worker[t].pid} \subseteq Pids
      BY <1>1, <2>3, <2>4, HeldAt DEF Worker
    <3> QED  BY <1>6, <2>3, <3>1 DEF Held
  <2>10. /\ h.spawned + Len(docs[d].idle) + 1 = docs[d].spawned + Len(h.idle) + 1
         /\ h.spawned <= Capacity
    BY <1>6, <2>3, <2>9, PoolAssumption
  <2> HIDE DEF h
  <2> QED  BY <2>1, <2>2, <2>3, <2>5, <2>8, <2>9, <2>10, BooksOfOne
<1>17. CASE Watch(t) \/ WorkerLost(t) \/ WorkerAnswers(t) \/ WorkerOverruns(t)
  <2>1. docs' = docs /\ pc[t] \in {"watch", "inside"} /\ pc'[t] \in {"inside", "end"}
    BY <1>1, <1>17
       DEF Watch, WorkerLost, WorkerAnswers, WorkerOverruns, Exchanged, Goto, LocalTyped
  <2>2. Kept(t)
    BY <1>1, <2>1 DEF Took, Replied
  <2> QED  BY <1>3, <1>4, <2>1, <2>2
<1>17a. CASE EndWatch(t)
  <2>1. docs' = docs /\ pc[t] = "end" /\ pc'[t] = "unwatch"
    BY <1>1, <1>17a DEF EndWatch, Goto, LocalTyped
  <2>2. Kept(t)
    BY <1>1, <2>1 DEF Took, Replied
  <2> QED  BY <1>3, <1>4, <2>1, <2>2
<1>18. CASE EndUnlock(t)
  <2>1. docs' = docs /\ pc[t] = "unwatch"
    BY <1>18 DEF EndUnlock, DropWatch
  <2>2. \/ Kind(t) = "open" /\ pc'[t] \in {"watch", "forsake"}
        \/ Kind(t) # "open" /\ pc'[t] \in {"publish", "giveBack"}
    BY <1>1, <1>18 DEF EndUnlock, Goto, LocalTyped
  <2>3. Kind(t) \in {"open", "ask"}
    <3>1. Kind(t) \in {"open", "ask", "close", "release"}
      BY <1>1, <2>1, SentAt DEF Row, JobRow, Kind, Request, PoolInv
    <3> QED  BY <1>1, <2>1, <3>1 DEF Row, KindRow, ClosePcs
  <2>4. Kept(t)
    BY <1>1, <2>1, <2>2 DEF Took, Replied
  <2> QED  BY <1>3, <1>4, <2>1, <2>2, <2>3, <2>4
<1>19. CASE EndOpen(t)
  <2>1. docs' = docs /\ pc[t] = "unwatch" /\ phase[t] = "open"
    BY <1>19 DEF EndOpen, DropWatch
  <2>2. pc'[t] \in {"publishDoc", "forsake"}
    BY <1>1, <1>19 DEF EndOpen, Goto, LocalTyped
  <2>3. Kind(t) = "open"
    BY <1>1, <2>1 DEF Row, PhaseRow
  <2> QED  BY <1>4, <2>1, <2>2, <2>3
<1>20. CASE EndServe(t)
  <2>1. docs' = docs /\ pc[t] = "unwatch" /\ phase[t] = "serve"
    BY <1>20 DEF EndServe, DropWatch
  <2>2. pc'[t] \in {"drop", "checkin", "diagnose"}
    BY <1>1, <1>20 DEF EndServe, Goto, LocalTyped
  <2>3. Kind(t) = "ask"
    <3>1. Kind(t) \in {"open", "ask", "close", "release"} /\ Kind(t) # "open"
      BY <1>1, <2>1, SentAt DEF Row, JobRow, PhaseRow, Kind, Request, PoolInv
    <3> QED  BY <1>1, <2>1, <3>1 DEF Row, KindRow, ClosePcs
  <2> QED  BY <1>4, <2>1, <2>2, <2>3
<1>21. CASE Diagnose(t)
  <2>1. pc[t] = "diagnose" /\ pc'[t] \in {"drop", "judge"} /\ Counted(t) /\ Counted(t)'
    BY <1>1, <1>21 DEF Diagnose, Goto, LocalTyped
  <2>2. CASE docs' = docs
    BY <1>4, <2>1, <2>2
  <2>3. CASE docs' # docs
    <3>1. PICK d : d = DocOf(t)
      OBVIOUS
    <3> DEFINE h == [docs[d] EXCEPT !.outlived = TRUE]
    <3>2. IsOpen(d) /\ d \in 1..Len(docs) /\ docs[d].open /\ Only(d, h)
      BY <1>1, <1>21, <2>3, <3>1, DiagnoseDocs DEF IsOpen
    <3>3. h \in Held /\ h.open /\ h.idle = docs[d].idle /\ h.spawned = docs[d].spawned
      BY <1>6, <3>2 DEF Held
    <3>4. /\ h.spawned + Len(docs[d].idle) + 1 = docs[d].spawned + Len(h.idle) + 1
          /\ h.spawned <= Capacity
      BY <1>6, <3>2, <3>3, PoolAssumption
    <3>5. DocOf(t)' = d
      BY <1>2, <1>3, <2>1, <3>1
    <3> HIDE DEF h
    <3> QED  BY <2>1, <3>1, <3>2, <3>3, <3>4, <3>5, BooksOfOne
  <2> QED  BY <2>2, <2>3
<1>22. CASE KeepWorker(t) \/ CondemnWorker(t) \/ DropWorker(t)
  <2>1. /\ docs' = docs /\ pc[t] \in {"judge", "drop"}
        /\ pc'[t] \in {"checkin", "drop", "account"}
    BY <1>1, <1>22 DEF KeepWorker, CondemnWorker, DropWorker, Goto, LocalTyped
  <2> QED  BY <1>4, <2>1
<1>23. CASE Checkin(t)
  <2>1. PICK d : d = DocOf(t)
    OBVIOUS
  <2> DEFINE s == Append(docs[d].idle, worker[t])
  <2> DEFINE h == [docs[d] EXCEPT !.idle = s]
  <2>2. pc[t] = "checkin" /\ Counted(t) /\ worker[t] \in Worker
    BY <1>5, <1>23 DEF Checkin, Holding
  <2>3. IsOpen(d) /\ d \in 1..Len(docs) /\ docs[d].open
    BY <1>5, <2>1, <2>2 DEF IsOpen
  <2>4. s \in Seq(Worker) /\ Len(s) = Len(docs[d].idle) + 1 /\ Only(d, h)
    BY <1>1, <1>23, <2>1, <2>2, <2>3, CheckinDocs
  <2>5. ~Counted(t)'
    <3>1. pc'[t] = "idle"
      BY <1>1, <1>23, NotifyMoves DEF Checkin, ReplyAndNotify, PcValues
    <3> QED  BY <3>1
  <2>6. h \in Held /\ h.open /\ h.idle = s /\ h.spawned = docs[d].spawned
    BY <1>6, <2>3, <2>4 DEF Held
  <2>7. /\ h.spawned + Len(docs[d].idle) + 1 = docs[d].spawned + Len(h.idle) + 0
        /\ h.spawned <= Capacity
    BY <1>6, <2>3, <2>4, <2>6
  <2> HIDE DEF h, s
  <2> QED  BY <2>1, <2>2, <2>3, <2>4, <2>5, <2>6, <2>7, BooksOfOne
<1>24. CASE Account(t)
  <2>1. PICK d : d = DocOf(t)
    OBVIOUS
  <2> DEFINE h == [docs[d] EXCEPT !.spawned = IF @ = 0 THEN 0 ELSE @ - 1,
                                  !.senders = @ \ {worker[t].pid}]
  <2>2. pc[t] = "account" /\ Counted(t)
    BY <1>24 DEF Account
  <2>3. IsOpen(d) /\ d \in 1..Len(docs) /\ docs[d].open
    BY <1>5, <2>1, <2>2 DEF IsOpen
  <2>4. Only(d, h)
    BY <1>1, <1>24, <2>1, <2>3, AccountDocs
  <2>5. ~Counted(t)'
    <3>1. pc'[t] \in {"idle", "checkout"}
      BY <1>1, <1>24, NotifyMoves DEF Account, ReplyAndNotify, PcValues
    <3> QED  BY <3>1
  <2>6. docs[d].spawned > 0 /\ h.spawned = docs[d].spawned - 1
    BY <1>6, <1>7, <2>1, <2>2, <2>3 DEF Held
  <2>7. h \in Held /\ h.open /\ h.idle = docs[d].idle
    <3>1. /\ docs[d].senders \ {worker[t].pid} \subseteq Pids
          /\ (IF docs[d].spawned = 0 THEN 0 ELSE docs[d].spawned - 1) \in Nat
      BY <1>1, <2>3, HeldAt
    <3> QED  BY <1>6, <2>3, <3>1 DEF Held
  <2>8. /\ h.spawned + Len(docs[d].idle) + 1 = docs[d].spawned + Len(h.idle) + 0
        /\ h.spawned <= Capacity
    BY <1>6, <2>3, <2>6, <2>7, PoolAssumption
  <2> HIDE DEF h
  <2> QED  BY <2>1, <2>2, <2>3, <2>4, <2>5, <2>7, <2>8, BooksOfOne
<1>25. CASE PublishDoc(t)
  <2>1. pc[t] = "publishDoc" /\ worker[t] \in Worker /\ ~Counted(t)
    BY <1>5, <1>25 DEF PublishDoc, Holding
  <2>2. ~Counted(t)'
    <3>1. pc'[t] = "idle"
      BY <1>1, <1>25, GotoMoves DEF PublishDoc, Reply, PcValues
    <3> QED  BY <3>1
  <2> DEFINE h == [open |-> TRUE, idle |-> <<worker[t]>>, spawned |-> 1,
                   senders |-> {worker[t].pid}, outlived |-> FALSE]
  <2>3. /\ Len(docs') = Len(docs) + 1 /\ docs'[Len(docs) + 1] = h
        /\ \A e \in 1..Len(docs) : docs'[e] = docs[e]
    BY <1>1, <1>25, <2>1, PublishDocDocs
  <2>4. Len(docs) \in Nat
    BY <1>1, LenProperties DEF DocsTyped
  <2>5. \A u \in Threads : (Counted(u)' <=> Counted(u)) /\ (Counted(u) => DocOf(u)' = DocOf(u))
    BY <2>1, <2>2, CountsMove
  <2>6. \A e : CountedFor(e)' = CountedFor(e)
    BY <2>5 DEF CountedFor
  <2>7. PICK e : e = Len(docs) + 1
    OBVIOUS
  <2>8. CountedFor(e) = {}
    <3>1. \A u \in Threads : Counted(u) => DocOf(u) \in 1..Len(docs)
      BY DEF PoolInv, CloseWaitsForPool, IsOpen
    <3> QED  BY <2>4, <2>7, <3>1 DEF CountedFor
  <2>9. docs'[e].spawned = 1 /\ Len(docs'[e].idle) = 1 /\ 1 <= Capacity
    BY <2>3, <2>7, PoolAssumption
  <2>10. PoolAccounting'
    <3> SUFFICES ASSUME NEW f \in 1..Len(docs)', docs[f].open'
                 PROVE  /\ docs[f].spawned' = Len(docs[f].idle)' + Cardinality(CountedFor(f)')
                        /\ docs[f].spawned' <= Capacity
      BY DEF PoolAccounting
    <3>1. CASE f = e
      <4>1. docs'[f].spawned = 1 /\ Len(docs'[f].idle) = 1 /\ 1 <= Capacity
        BY <2>9, <3>1
      <4>2. CountedFor(f)' = {}
        BY <2>6, <2>8, <3>1
      <4>3. Cardinality(CountedFor(f)') = 0
        BY <4>2, FS_EmptySet
      <4> QED  BY <4>1, <4>3
    <3>2. CASE f # e
      <4>1. f \in 1..Len(docs)
        BY <2>3, <2>4, <2>7, <3>2
      <4> QED  BY <2>3, <2>6, <4>1 DEF PoolInv, PoolAccounting
    <3> QED  BY <3>1, <3>2
  <2>11. CloseWaitsForPool'
    <3> SUFFICES ASSUME NEW u \in Threads, Counted(u)'  PROVE IsOpen(DocOf(u))'
      BY DEF CloseWaitsForPool
    <3>1. IsOpen(DocOf(u)) /\ DocOf(u)' = DocOf(u)
      BY <2>5 DEF PoolInv, CloseWaitsForPool
    <3> QED  BY <2>3, <2>4, <3>1 DEF IsOpen
  <2> QED  BY <2>10, <2>11
<1>26. CASE CloseTake(t)
  <2>1. PICK d : d = Target(t)
    OBVIOUS
  <2>2. IsOpen(d) /\ d \in 1..Len(docs) /\ docs[d].open /\ Only(d, Hole)
    BY <1>1, <1>26, <2>1, CloseTakeDocs DEF IsOpen
  <2>3. pc[t] = "close" /\ pc'[t] = "kill"
    BY <1>1, <1>26 DEF CloseTake, Goto, LocalTyped
  <2>4. ~Counted(t) /\ ~Counted(t)'
    BY <2>3
  <2>5. CountedFor(d) = {}
    <3>1. Len(docs[d].idle) >= docs[d].spawned
      BY <1>26, <2>1 DEF CloseTake, PoolIsHome
    <3>2. IsFiniteSet(CountedFor(d)) /\ Cardinality(CountedFor(d)) \in Nat
      BY CountsAreFinite
    <3>3. Cardinality(CountedFor(d)) = 0
      BY <1>6, <2>2, <3>1, <3>2
    <3> QED  BY <3>2, <3>3, FS_EmptySet
  <2>6. \A u \in Threads : (Counted(u)' <=> Counted(u)) /\ (Counted(u) => DocOf(u)' = DocOf(u))
    BY <2>4, CountsMove
  <2>7. \A e : CountedFor(e)' = CountedFor(e)
    BY <2>6 DEF CountedFor
  <2>8. PoolAccounting'
    <3> SUFFICES ASSUME NEW e \in 1..Len(docs)', docs[e].open'
                 PROVE  /\ docs[e].spawned' = Len(docs[e].idle)' + Cardinality(CountedFor(e)')
                        /\ docs[e].spawned' <= Capacity
      BY DEF PoolAccounting
    <3>1. e \in 1..Len(docs) /\ e # d
      BY <2>2 DEF Only, Hole
    <3> QED  BY <2>2, <2>7, <3>1 DEF Only, PoolInv, PoolAccounting
  <2>9. CloseWaitsForPool'
    <3> SUFFICES ASSUME NEW u \in Threads, Counted(u)'  PROVE IsOpen(DocOf(u))'
      BY DEF CloseWaitsForPool
    <3>1. Counted(u) /\ IsOpen(DocOf(u)) /\ DocOf(u)' = DocOf(u)
      BY <2>6 DEF PoolInv, CloseWaitsForPool
    <3>2. DocOf(u) # d
      BY <2>5, <3>1 DEF CountedFor
    <3> QED  BY <2>2, <3>1, <3>2 DEF IsOpen, Only
  <2> QED  BY <2>8, <2>9
<1> QED
  BY <1>9, <1>10, <1>11, <1>12, <1>13, <1>14, <1>15, <1>16, <1>17, <1>17a, <1>18, <1>19, <1>20,
     <1>21, <1>22, <1>23, <1>24, <1>25, <1>26 DEF ThreadStep

-----------------------------------------------------------------------------
\* The steps of the threads keep the invariant.
LEMMA ThreadsKeepPoolInv ==
    ASSUME PoolInv, NEW t \in Threads,
           ThreadStep(t) \/ WorkerAnswers(t) \/ WorkerOverruns(t)
    PROVE  PoolInv'
<1>1. QueueTyped' /\ DocsTyped' /\ WorldTyped' /\ LocalTyped'
  BY JobsInHand, OpensKeepFitting, WorldKeepsItsType, ThreadLocals
<1>2. ASSUME NEW u \in Threads  PROVE Row(u)'
  <2>1. CASE u = t
    BY <2>1, JobsInHand, MoverKeepsItsRow DEF Row, OwnRow
  <2>2. CASE u # t
    BY <2>2, OthersKeepTheirRows
  <2> QED  BY <2>1, <2>2
<1>3. OneThreadPerJob' /\ SentJobs' /\ OpensFit'
  BY JobsInHand, OpensKeepFitting
<1>4. PoolAccounting' /\ CloseWaitsForPool'
  BY BooksBalance
<1> QED  BY <1>1, <1>2, <1>3, <1>4 DEF PoolInv

-----------------------------------------------------------------------------
\* The steps of the callers, the reaper, the supervisor and the world.
LEMMA QuietKeepsPoolInv ==
    ASSUME PoolInv, UNCHANGED <<sent, next, answer, docs, pc, local>>, WorldTyped'
    PROVE  PoolInv'
<1> USE DEF PoolInv, local
<1>1. QueueTyped' /\ DocsTyped' /\ LocalTyped'
  BY DEF QueueTyped, DocsTyped, LocalTyped
<1>2. \A u \in Threads : Row(u)'
  BY DEF Row, JobRow, KindRow, PhaseRow, WorkerRow, VerdictRow, Kind
<1>3. OneThreadPerJob' /\ SentJobs'
  BY DEF OneThreadPerJob, SentJobs
<1>4. OpensFit'
  BY DEF OpensFit, PendingOpens
<1>5. \A d : CountedFor(d)' = CountedFor(d)
  BY DEF CountedFor, Counted, Kind, DocOf
<1>6. PoolAccounting'
  BY <1>5 DEF PoolAccounting
<1>7. CloseWaitsForPool'
  BY DEF CloseWaitsForPool, Counted, Kind, DocOf, IsOpen
<1> QED  BY <1>1, <1>2, <1>3, <1>4, <1>6, <1>7

LEMMA SendKeepsPoolInv ==
    ASSUME PoolInv, NEW req \in Request, Send(req)
    PROVE  PoolInv'
<1> USE DEF PoolInv, local
<1>1. /\ sent \in Seq(Request) /\ Len(sent) \in Nat /\ Len(sent) < MaxJobs
      /\ next \in 1..Len(sent) + 1
  BY LenProperties DEF Send, QueueTyped
<1>2. /\ sent' \in Seq(Request) /\ Len(sent') = Len(sent) + 1
      /\ sent'[Len(sent) + 1] = req
      /\ \A j \in 1..Len(sent) : sent'[j] = sent[j]
  BY <1>1, AppendProperties DEF Send
<1>3. UNCHANGED <<next, answer, docs, calls, proc, pc, local, retired, crashes, truncated>>
  BY DEF Send
<1>4. QueueTyped' /\ DocsTyped' /\ WorldTyped' /\ LocalTyped'
  <2>1. Len(sent)' <= MaxJobs
    BY <1>1, <1>2, BoundAssumption
  <2>2. QueueTyped'
    BY <1>1, <1>2, <1>3, <2>1 DEF QueueTyped
  <2> QED  BY <1>3, <2>2 DEF DocsTyped, WorldTyped, LocalTyped
<1>5. ASSUME NEW u \in Threads, pc[u] # "idle"
      PROVE  Kind(u)' = Kind(u) /\ DocOf(u)' = DocOf(u) /\ job[u] \in 1..Len(sent)
  BY <1>2, <1>3, <1>5 DEF Row, JobRow, Kind, DocOf
<1>6. ASSUME NEW u \in Threads  PROVE Row(u)'
  <2>1. JobRow(u)'
    <3>1. JobRow(u)
      BY DEF Row
    <3> QED  BY <1>1, <1>2, <1>3, <3>1 DEF JobRow
  <2>2. KindRow(u)' /\ PhaseRow(u)' /\ WorkerRow(u)' /\ VerdictRow(u)'
    BY <1>3, <1>5 DEF Row, KindRow, PhaseRow, WorkerRow, VerdictRow
  <2> QED  BY <2>1, <2>2 DEF Row
<1>7. OneThreadPerJob'
  BY <1>3 DEF OneThreadPerJob
<1>8. SentJobs'
  <2>1. ASSUME NEW j \in 1..Len(sent)', sent'[j].kind \in {"ask", "close"}
        PROVE  sent'[j].doc \in 1..Len(docs)'
    <3>1. CASE j = Len(sent) + 1
      BY <1>2, <1>3, <2>1, <3>1 DEF Send
    <3>2. CASE j # Len(sent) + 1
      <4>1. j \in 1..Len(sent)
        BY <1>1, <1>2, <3>2
      <4> QED  BY <1>2, <1>3, <2>1, <4>1 DEF SentJobs
    <3> QED  BY <3>1, <3>2
  <2> QED  BY <1>3, <2>1 DEF SentJobs
<1>9. OpensFit'
  <2> DEFINE P == PendingOpens
  <2> DEFINE Q == PendingOpens'
  <2> DEFINE n == Len(sent) + 1
  <2>1. IsFiniteSet(P) /\ Cardinality(P) \in Nat /\ n \notin P
    BY <1>1, PendingIsFinite DEF PendingOpens
  <2>2. Q \subseteq P \cup {n} /\ (req.kind # "open" => Q \subseteq P)
    <3> SUFFICES ASSUME NEW j \in Q
                 PROVE  j \in P \/ (j = n /\ req.kind = "open")
      OBVIOUS
    <3>1. j \in 1..Len(sent)' /\ sent'[j].kind = "open" /\ answer[j] = "none"
      BY <1>3 DEF PendingOpens
    <3>2. CASE j = n
      BY <1>2, <3>1, <3>2
    <3>3. CASE j # n
      <4>1. j \in 1..Len(sent)
        BY <1>1, <1>2, <3>1, <3>3
      <4> QED  BY <1>2, <3>1, <4>1 DEF PendingOpens
    <3> QED  BY <3>2, <3>3
  <2>3. Len(docs) \in Nat /\ MaxDocs \in Nat /\ Len(docs) + Cardinality(P) <= MaxDocs
    BY BoundAssumption, LenProperties DEF DocsTyped, OpensFit
  <2>4. req.kind = "open" => Len(docs) + Cardinality(P) < MaxDocs
    BY DEF Send
  <2> HIDE DEF P, Q, n
  <2>5. /\ IsFiniteSet(P \cup {n}) /\ Cardinality(P \cup {n}) = Cardinality(P) + 1
    BY <2>1, FS_AddElement
  <2>6. /\ Cardinality(Q) \in Nat
        /\ Cardinality(Q) <= Cardinality(P) + 1
        /\ req.kind # "open" => Cardinality(Q) <= Cardinality(P)
    <3>1. IsFiniteSet(Q) /\ Cardinality(Q) <= Cardinality(P \cup {n})
      BY <2>2, <2>5, FS_Subset
    <3>2. req.kind # "open" => Cardinality(Q) <= Cardinality(P)
      BY <2>1, <2>2, FS_Subset
    <3> QED  BY <2>5, <3>1, <3>2, FS_CardinalityType
  <2>7. Len(docs) + Cardinality(Q) <= MaxDocs
    BY <2>1, <2>3, <2>4, <2>6
  <2> QED  BY <1>3, <2>7 DEF OpensFit, Q
<1>10. ASSUME NEW u \in Threads
       PROVE  (Counted(u)' <=> Counted(u)) /\ (Counted(u) => DocOf(u)' = DocOf(u))
  BY <1>3, <1>5 DEF Counted
<1>11. \A d : CountedFor(d)' = CountedFor(d)
  BY <1>10 DEF CountedFor
<1>12. PoolAccounting'
  BY <1>3, <1>11 DEF PoolAccounting
<1>13. CloseWaitsForPool'
  BY <1>3, <1>10 DEF CloseWaitsForPool, IsOpen
<1> QED  BY <1>4, <1>6, <1>7, <1>8, <1>9, <1>12, <1>13

LEMMA RetireKillKeepsPoolInv ==
    ASSUME PoolInv, RetireKill
    PROVE  PoolInv'
<1> USE DEF PoolInv, local
<1>1. /\ UNCHANGED <<sent, next, answer, docs, calls, local, crashes, truncated>>
      /\ pc' = WakeAll(pc) /\ proc' = Reap(proc, retired) /\ retired' = {}
  BY DEF RetireKill
<1>2. \A u \in Threads :
          \/ pc'[u] = pc[u]
          \/ pc[u] = "waiting" /\ pc'[u] = "checkout"
          \/ pc[u] = "closing" /\ pc'[u] = "close"
  BY <1>1 DEF WakeAll
<1>3. pc' \in [Threads -> PcValues]
  BY <1>1 DEF WakeAll, LocalTyped, PcValues
<1>4. QueueTyped' /\ DocsTyped' /\ LocalTyped'
  BY <1>1, <1>3 DEF QueueTyped, DocsTyped, LocalTyped
<1>5. WorldTyped'
  BY <1>1, ReapTyped DEF WorldTyped
<1>6. ASSUME NEW u \in Threads  PROVE Row(u)'
  <2>1. Row(u) /\ Kind(u)' = Kind(u)
    BY <1>1 DEF Kind
  <2>2. JobRow(u)'
    BY <1>1, <1>2, <2>1 DEF Row, JobRow
  <2>3. KindRow(u)'
    BY <1>1, <1>2, <2>1 DEF Row, KindRow, AskPcs, OpenPcs, ClosePcs
  <2>4. PhaseRow(u)'
    BY <1>1, <1>2, <2>1 DEF Row, PhaseRow
  <2>5. WorkerRow(u)' /\ VerdictRow(u)'
    BY <1>1, <1>2, <2>1 DEF Row, WorkerRow, VerdictRow, Holding
  <2> QED  BY <2>2, <2>3, <2>4, <2>5 DEF Row
<1>7. OneThreadPerJob' /\ SentJobs' /\ OpensFit'
  BY <1>1 DEF OneThreadPerJob, SentJobs, OpensFit, PendingOpens
<1>8. \A u \in Threads : (Counted(u)' <=> Counted(u)) /\ DocOf(u)' = DocOf(u)
  BY <1>1, <1>2 DEF Counted, Kind, DocOf
<1>9. \A d : CountedFor(d)' = CountedFor(d)
  BY <1>8 DEF CountedFor
<1>10. PoolAccounting' /\ CloseWaitsForPool'
  BY <1>1, <1>8, <1>9 DEF PoolAccounting, CloseWaitsForPool, IsOpen
<1> QED  BY <1>4, <1>5, <1>6, <1>7, <1>10

\* What is retired was idle and is counted no more.
LEMMA RetireIdleKeepsPoolInv ==
    ASSUME PoolInv, NEW d \in Doc, RetireIdle(d)
    PROVE  PoolInv'
<1> USE DEF PoolInv, local
<1>1. UNCHANGED <<sent, next, answer, calls, proc, pc, local, crashes, truncated>>
  BY DEF RetireIdle
<1>2. PICK k \in 1..Len(docs[d].idle) :
          LET s == SubSeq(docs[d].idle, k + 1, Len(docs[d].idle))
              ws == {docs[d].idle[i] : i \in 1..k}
          IN  /\ IsOpen(d) /\ k <= docs[d].spawned /\ retired' = ws
              /\ s \in Seq(Worker) /\ Len(s) = Len(docs[d].idle) - k
              /\ \A i \in 1..Len(s) : s[i] = docs[d].idle[i + k]
              /\ Only(d, [docs[d] EXCEPT !.idle = s, !.spawned = @ - k,
                            !.senders = @ \ {w.pid : w \in ws}])
  BY RetireIdleDocs
<1> DEFINE s == SubSeq(docs[d].idle, k + 1, Len(docs[d].idle))
<1> DEFINE h == [docs[d] EXCEPT !.idle = s, !.spawned = @ - k,
                   !.senders = @ \ {w.pid : w \in {docs[d].idle[i] : i \in 1..k}}]
<1>3. /\ IsOpen(d) /\ k <= docs[d].spawned /\ s \in Seq(Worker)
      /\ Len(s) = Len(docs[d].idle) - k /\ Only(d, h)
      /\ retired' = {docs[d].idle[i] : i \in 1..k}
  BY <1>2
<1>4. /\ d \in 1..Len(docs) /\ docs[d] \in Held /\ docs[d].open
      /\ Len(docs[d].idle) \in Nat /\ docs[d].spawned \in Nat
      /\ \A i \in 1..Len(docs[d].idle) : docs[d].idle[i] \in Worker
      /\ Len(docs) \in Nat
  BY <1>3, HeldAt DEF IsOpen
<1>5. h.open /\ h.idle = s /\ h.spawned = docs[d].spawned - k
  BY <1>4 DEF Held
<1>6. /\ docs' \in Seq(Held) /\ Len(docs') = Len(docs) /\ docs'[d].open
      /\ docs'[d].idle = s /\ docs'[d].spawned = docs[d].spawned - k
      /\ \A e \in 1..Len(docs) : e # d => docs'[e] = docs[e]
  BY <1>3, <1>5 DEF Only
<1> HIDE DEF s, h
<1>7. QueueTyped' /\ DocsTyped' /\ LocalTyped'
  BY <1>1, <1>6 DEF QueueTyped, DocsTyped, LocalTyped
<1>8. WorldTyped'
  BY <1>1, <1>3, <1>4 DEF WorldTyped
<1>9. \A u \in Threads : Row(u)'
  BY <1>1 DEF Row, JobRow, KindRow, PhaseRow, WorkerRow, VerdictRow, Kind
<1>10. OneThreadPerJob' /\ SentJobs' /\ OpensFit'
  BY <1>1, <1>6 DEF OneThreadPerJob, SentJobs, OpensFit, PendingOpens
<1>11. \A u \in Threads : (Counted(u)' <=> Counted(u)) /\ DocOf(u)' = DocOf(u)
  BY <1>1 DEF Counted, Kind, DocOf
<1>12. \A e : CountedFor(e)' = CountedFor(e)
  BY <1>11 DEF CountedFor
<1>13. PoolAccounting'
  <2> SUFFICES ASSUME NEW e \in 1..Len(docs)', docs[e].open'
               PROVE  /\ docs[e].spawned' = Len(docs[e].idle)' + Cardinality(CountedFor(e)')
                      /\ docs[e].spawned' <= Capacity
    BY DEF PoolAccounting
  <2>1. e \in 1..Len(docs)
    BY <1>6
  <2>2. CASE e = d
    <3> DEFINE c == Cardinality(CountedFor(d))
    <3> DEFINE x == docs[d].spawned
    <3> DEFINE m == Len(docs[d].idle)
    <3>1. /\ c \in Nat /\ x \in Nat /\ m \in Nat /\ k \in 1..m /\ x = m + c
          /\ x <= Capacity /\ Capacity \in Nat
      BY <1>2, <1>4, CountsAreFinite, PoolAssumption DEF PoolAccounting
    <3>2. docs'[e].spawned = x - k /\ Len(docs'[e].idle) = m - k
          /\ Cardinality(CountedFor(e)') = c
      BY <1>3, <1>6, <1>12, <2>2
    <3> HIDE DEF c, x, m
    <3>3. x - k = m - k + c /\ x - k <= Capacity
      BY <3>1
    <3> QED  BY <3>2, <3>3
  <2>3. CASE e # d
    BY <1>6, <1>12, <2>1, <2>3 DEF PoolAccounting
  <2> QED  BY <2>2, <2>3
<1>14. CloseWaitsForPool'
  BY <1>6, <1>11 DEF CloseWaitsForPool, IsOpen
<1> QED  BY <1>7, <1>8, <1>9, <1>10, <1>13, <1>14

\* The invariant holds of the service that has just started.
LEMMA InitPoolInv == Init => PoolInv
<1> SUFFICES ASSUME Init  PROVE PoolInv
  OBVIOUS
<1> USE DEF Init
<1>1. /\ <<>> \in Seq(Request) /\ <<>> \in Seq(Held)
      /\ <<>> \in Seq([pid : Pids, killed : BOOLEAN]) /\ Len(<<>>) = 0
  BY EmptySeq
<1>2. QueueTyped /\ DocsTyped /\ WorldTyped
  BY <1>1, BoundAssumption DEF QueueTyped, DocsTyped, WorldTyped
<1>3. LocalTyped
  BY BoundAssumption DEF LocalTyped, PcValues
<1>4. \A t \in Threads : Row(t)
  BY DEF Row, JobRow, KindRow, PhaseRow, WorkerRow, VerdictRow, Holding
<1>5. OneThreadPerJob /\ SentJobs
  BY <1>1 DEF OneThreadPerJob, SentJobs
<1>6. OpensFit
  <2>1. PendingOpens = {}
    BY <1>1 DEF PendingOpens
  <2> QED  BY <1>1, <2>1, FS_EmptySet, BoundAssumption DEF OpensFit
<1>7. PoolAccounting /\ CloseWaitsForPool
  BY <1>1 DEF PoolAccounting, CloseWaitsForPool, Counted
<1> QED  BY <1>2, <1>3, <1>4, <1>5, <1>6, <1>7 DEF PoolInv

\* Every step keeps it.
LEMMA NextKeepsPoolInv == PoolInv /\ [Next]_vars => PoolInv'
<1> SUFFICES ASSUME PoolInv, [Next]_vars  PROVE PoolInv'
  OBVIOUS
<1>1. CASE \E req \in Request : Send(req)
  BY <1>1, SendKeepsPoolInv
<1>2. CASE \E t \in Threads : ThreadStep(t) \/ WorkerAnswers(t) \/ WorkerOverruns(t)
  BY <1>2, ThreadsKeepPoolInv
<1>3. CASE \E d \in Doc : RetireIdle(d)
  BY <1>3, RetireIdleKeepsPoolInv
<1>4. CASE \E d \in Doc : Truncate(d)
  <2>1. PICK d \in Doc : Truncate(d)
    BY <1>4
  <2>2. WorldTyped'
    BY <2>1 DEF Truncate, PoolInv, WorldTyped
  <2> QED  BY <2>1, <2>2, QuietKeepsPoolInv DEF Truncate
<1>5. CASE RetireKill
  BY <1>5, RetireKillKeepsPoolInv
<1>6. CASE KillOverdue
  <2> DEFINE Call == [pid : Pids, killed : BOOLEAN]
  <2>1. PICK n \in 1..Len(calls) :
            /\ calls' = [i \in 1..Len(calls) |->
                            IF calls[i].pid \in {calls[m].pid : m \in 1..n}
                            THEN [calls[i] EXCEPT !.killed = TRUE]
                            ELSE calls[i]]
            /\ proc' = [p \in Pids |->
                          IF p \in {calls[m].pid : m \in 1..n} /\ proc[p] = "alive"
                          THEN "dead" ELSE proc[p]]
            /\ UNCHANGED <<sent, next, answer, docs, pc, local, retired, crashes, truncated>>
    BY <1>6 DEF KillOverdue
  <2>2. calls \in Seq(Call) /\ Len(calls) \in Nat /\ \A i \in 1..Len(calls) : calls[i] \in Call
    BY LenProperties, ElementOfSeq DEF PoolInv, WorldTyped
  <2>3. \A c \in Call : [c EXCEPT !.killed = TRUE] \in Call
    OBVIOUS
  <2>4. calls' \in [1..Len(calls) -> Call]
    <3> HIDE DEF Call
    <3> QED  BY <2>1, <2>2, <2>3
  <2>5. calls' \in Seq(Call)
    <3> HIDE DEF Call
    <3> QED  BY <2>2, <2>4, SeqDef
  <2>6. proc' \in [Pids -> {"free", "alive", "dead", "gone"}]
    BY <2>1 DEF PoolInv, WorldTyped
  <2>7. WorldTyped'
    BY <2>1, <2>5, <2>6 DEF PoolInv, WorldTyped
  <2> QED  BY <2>1, <2>7, QuietKeepsPoolInv
<1>7. CASE \E p \in Pids : Crash(p)
  <2>1. PICK p \in Pids : Crash(p)
    BY <1>7
  <2>2. WorldTyped'
    BY <2>1, BoundAssumption DEF Crash, PoolInv, WorldTyped
  <2> QED  BY <2>1, <2>2, QuietKeepsPoolInv DEF Crash
<1>8. CASE UNCHANGED vars
  <2>1. WorldTyped'
    BY <1>8 DEF vars, PoolInv, WorldTyped
  <2> QED  BY <1>8, <2>1, QuietKeepsPoolInv DEF vars
<1> QED  BY <1>1, <1>2, <1>3, <1>4, <1>5, <1>6, <1>7, <1>8 DEF Next

-----------------------------------------------------------------------------
\* The invariant, for every run of the service.
THEOREM PoolIsSound == Spec => []PoolInv
<1>1. Init => PoolInv
  BY InitPoolInv
<1>2. PoolInv /\ [Next]_vars => PoolInv'
  BY NextKeepsPoolInv
<1> QED  BY <1>1, <1>2, PTL DEF Spec

\* Every variable of the pool keeps its type.
THEOREM TypeCorrect == Spec => []TypeOK
<1>1. PoolInv => TypeOK
  BY DEF PoolInv, TypeOK, QueueTyped, DocsTyped, WorldTyped, LocalTyped
<1> QED  BY <1>1, PoolIsSound, PTL

\* What a pool has counted is what it has: its idle workers and those lent to
\* threads or being spawned, never more than its capacity.
THEOREM BooksAlwaysBalance == Spec => []PoolAccounting
<1>1. PoolInv => PoolAccounting
  BY DEF PoolInv
<1> QED  BY <1>1, PoolIsSound, PTL

\* While a thread is counted in a pool its slot is open, so a close that empties
\* the slot has waited for every worker to come back.
THEOREM ClosesAlwaysWait == Spec => []CloseWaitsForPool
<1>1. PoolInv => CloseWaitsForPool
  BY DEF PoolInv
<1> QED  BY <1>1, PoolIsSound, PTL

-----------------------------------------------------------------------------
\* What a step may never do to the pool of a file that has been cut short: lose
\* the diagnosis, or lend a worker or a place to a thread that had none.
LatchStays ==
    \A d \in 1..Len(docs) :
        docs[d].open /\ docs[d].outlived => docs'[d].outlived \/ ~docs'[d].open

NobodyJoins ==
    \A d \in 1..Len(docs) :
        docs[d].open /\ docs[d].outlived => CountedFor(d)' \subseteq CountedFor(d)

LEMMA OneSlotKeepsLatch ==
    ASSUME DocsTyped, NEW d \in 1..Len(docs), NEW h, Only(d, h),
           docs[d].open /\ docs[d].outlived => h.outlived \/ ~h.open
    PROVE  LatchStays
<1> SUFFICES ASSUME NEW e \in 1..Len(docs), docs[e].open, docs[e].outlived
             PROVE  docs'[e].outlived \/ ~docs'[e].open
  BY DEF LatchStays
<1>1. docs'[e] = IF e = d THEN h ELSE docs[e]
  BY DEF Only
<1> QED  BY <1>1

LEMMA StepsKeepLatch == PoolInv /\ [Next]_vars => LatchStays
<1> SUFFICES ASSUME PoolInv, [Next]_vars  PROVE LatchStays
  OBVIOUS
<1> USE DEF PoolInv
<1>1. CASE docs' = docs
  BY <1>1 DEF LatchStays
<1>2. ASSUME NEW t \in Threads, ThreadStep(t) \/ WorkerAnswers(t) \/ WorkerOverruns(t),
             docs' # docs
      PROVE  LatchStays
  <2>1. pc[t] \in Holding => worker[t] \in Worker
    BY DEF Row, WorkerRow
  <2>2. PICK d : d = DocOf(t)
    OBVIOUS
  <2>3. \A e \in 1..Len(docs) : docs[e] \in Held
    BY HeldAt
  <2>4. CASE CheckoutIdle(t)
    <3>1. d \in 1..Len(docs) /\ \E s : Only(d, [docs[d] EXCEPT !.idle = s])
      BY <2>2, <2>4, CheckoutIdleDocs DEF IsOpen
    <3>2. PICK s : Only(d, [docs[d] EXCEPT !.idle = s])
      BY <3>1
    <3> DEFINE h == [docs[d] EXCEPT !.idle = s]
    <3>3. h.outlived = docs[d].outlived
      BY <2>3, <3>1 DEF Held
    <3> QED  BY <3>1, <3>2, <3>3, OneSlotKeepsLatch
  <2>5. CASE CheckoutGrow(t)
    <3>1. d \in 1..Len(docs) /\ Only(d, [docs[d] EXCEPT !.spawned = @ + 1])
      BY <2>2, <2>5, CheckoutGrowDocs DEF IsOpen
    <3>2. ~docs[d].outlived
      BY <2>2, <2>5 DEF CheckoutGrow, Serving
    <3> QED  BY <3>1, <3>2, OneSlotKeepsLatch
  <2>6. CASE GiveBack(t)
    <3> DEFINE h == [docs[d] EXCEPT !.spawned = IF @ = 0 THEN 0 ELSE @ - 1]
    <3>1. IsOpen(d) /\ d \in 1..Len(docs)
      BY <1>2, <2>2, <2>6 DEF GiveBack, GivenBack, IsOpen
    <3>2. Only(d, h)
      BY <2>2, <2>6, <3>1, GiveBackDocs
    <3>3. h.outlived = docs[d].outlived
      BY <2>3, <3>1 DEF Held
    <3> QED  BY <3>1, <3>2, <3>3, OneSlotKeepsLatch
  <2>7. CASE Publish(t)
    <3> DEFINE h == [docs[d] EXCEPT !.senders = @ \cup {worker[t].pid}]
    <3>1. IsOpen(d) /\ d \in 1..Len(docs) /\ worker[t] \in Worker
      BY <1>2, <2>1, <2>2, <2>7 DEF Publish, IsOpen, Holding
    <3>2. Only(d, h)
      BY <2>2, <2>7, <3>1, PublishDocs
    <3>3. h.outlived = docs[d].outlived
      BY <2>3, <3>1 DEF Held
    <3> QED  BY <3>1, <3>2, <3>3, OneSlotKeepsLatch
  <2>8. CASE Diagnose(t)
    <3> DEFINE h == [docs[d] EXCEPT !.outlived = TRUE]
    <3>1. d \in 1..Len(docs) /\ Only(d, h)
      BY <1>2, <2>2, <2>8, DiagnoseDocs DEF IsOpen
    <3>2. h.outlived
      BY <2>3, <3>1 DEF Held
    <3> QED  BY <3>1, <3>2, OneSlotKeepsLatch
  <2>9. CASE Checkin(t)
    <3> DEFINE h == [docs[d] EXCEPT !.idle = Append(docs[d].idle, worker[t])]
    <3>1. IsOpen(d) /\ d \in 1..Len(docs) /\ worker[t] \in Worker
      BY <1>2, <2>1, <2>2, <2>9 DEF Checkin, IsOpen, Holding
    <3>2. Only(d, h)
      BY <2>2, <2>9, <3>1, CheckinDocs
    <3>3. h.outlived = docs[d].outlived
      BY <2>3, <3>1 DEF Held
    <3> QED  BY <3>1, <3>2, <3>3, OneSlotKeepsLatch
  <2>10. CASE Account(t)
    <3> DEFINE h == [docs[d] EXCEPT !.spawned = IF @ = 0 THEN 0 ELSE @ - 1,
                                    !.senders = @ \ {worker[t].pid}]
    <3>1. IsOpen(d) /\ d \in 1..Len(docs)
      BY <1>2, <2>2, <2>10 DEF Account, IsOpen
    <3>2. Only(d, h)
      BY <2>2, <2>10, <3>1, AccountDocs
    <3>3. h.outlived = docs[d].outlived
      BY <2>3, <3>1 DEF Held
    <3> QED  BY <3>1, <3>2, <3>3, OneSlotKeepsLatch
  <2>11. CASE PublishDoc(t)
    <3>1. \A e \in 1..Len(docs) : docs'[e] = docs[e]
      BY <2>1, <2>11, PublishDocDocs DEF PublishDoc, Holding
    <3> QED  BY <3>1 DEF LatchStays
  <2>12. CASE CloseTake(t)
    <3>1. Target(t) \in 1..Len(docs) /\ Only(Target(t), Hole)
      BY <2>12, CloseTakeDocs DEF IsOpen
    <3>2. ~Hole.open
      BY DEF Hole
    <3> QED  BY <3>1, <3>2, OneSlotKeepsLatch
  <2> QED
    BY <1>2, <2>4, <2>5, <2>6, <2>7, <2>8, <2>9, <2>10, <2>11, <2>12
       DEF ThreadStep, Recv, CheckoutRefused, CheckoutWait, Spawn, SpawnFails, Forsake,
           Watch, WorkerLost, EndWatch, EndUnlock, EndOpen, EndServe, KeepWorker, CondemnWorker,
           DropWorker, Sweep, CloseRefused, CloseWait, CloseKill, WorkerAnswers,
           WorkerOverruns, Exchanged
<1>3. ASSUME NEW d \in Doc, RetireIdle(d)  PROVE LatchStays
  <2>1. PICK k \in 1..Len(docs[d].idle) :
            /\ IsOpen(d)
            /\ Only(d, [docs[d] EXCEPT
                         !.idle = SubSeq(docs[d].idle, k + 1, Len(docs[d].idle)),
                         !.spawned = @ - k,
                         !.senders = @ \ {w.pid : w \in {docs[d].idle[i] : i \in 1..k}}])
    BY <1>3, RetireIdleDocs
  <2> DEFINE s == SubSeq(docs[d].idle, k + 1, Len(docs[d].idle))
  <2> DEFINE f == docs[d].senders \ {w.pid : w \in {docs[d].idle[i] : i \in 1..k}}
  <2> DEFINE h == [docs[d] EXCEPT !.idle = s, !.spawned = @ - k, !.senders = f]
  <2>2. d \in 1..Len(docs) /\ Only(d, h)
    BY <2>1 DEF IsOpen
  <2>3. docs[d] \in Held
    BY <2>2, HeldAt
  <2> HIDE DEF s, f
  <2>4. h.outlived = docs[d].outlived
    BY <2>3 DEF Held
  <2> HIDE DEF h
  <2> QED  BY <2>2, <2>4, OneSlotKeepsLatch
<1> QED
  BY <1>1, <1>2, <1>3 DEF Next, Send, Truncate, RetireKill, KillOverdue, Crash, vars

\* A thread that comes to be counted in a pool comes from a checkout that was
\* served, and a checkout serves no document whose file was cut short.
LEMMA WhoJoinsWasServed ==
    ASSUME PoolInv, NEW t \in Threads,
           ThreadStep(t) \/ WorkerAnswers(t) \/ WorkerOverruns(t),
           Counted(t)', ~Counted(t)
    PROVE  Serving(t) /\ DocOf(t)' = DocOf(t)
<1>1. /\ sent' = sent /\ (Took(t) \/ Kept(t) \/ Replied(t)) /\ LocalTyped /\ Row(t)
      /\ OwnRow(t)'
  BY QueueSteps, MoverKeepsItsRow DEF PoolInv
<1> USE DEF PcValues
<1>2. \A to \in PcValues : Goto(t, to) => pc'[t] = to
  BY <1>1, GotoMoves
<1>3. \A to \in PcValues \ {"waiting", "closing"} : NotifyAndGoto(t, to) => pc'[t] = to
  BY <1>1, NotifyMoves
<1> HIDE DEF PcValues
<1>4. pc'[t] # "idle"
  BY DEF Counted
<1>5. ~Replied(t)
  BY <1>4 DEF Replied
<1>6. CASE Took(t)
  <2>1. next \in 1..Len(sent) /\ sent[next] \in Request
    <3>1. next \in 1..Len(sent)
      BY <1>6 DEF Took, PoolInv, QueueTyped
    <3> QED  BY <3>1, SentAt DEF PoolInv
  <2>2. Recv(t)
    BY <1>6
       DEF Took, ThreadStep, Recv, CheckoutRefused, CheckoutIdle, CheckoutGrow, CheckoutWait,
           Serving, Spawn, SpawnFails, GiveBack, Forsake, Publish, Watch, WorkerLost,
           EndUnlock, EndOpen, EndServe, EndWatch, DropWatch, Diagnose, KeepWorker, CondemnWorker,
           Checkin, DropWorker, Account, PublishDoc, Sweep, CloseRefused, CloseWait,
           CloseTake, CloseKill, WorkerAnswers, WorkerOverruns, Exchanged
  <2>3. Kind(t)' = sent[next].kind
    BY <1>1, <1>6 DEF Took, Kind
  <2>4. \/ sent[next].kind = "open" /\ pc'[t] = "spawn"
        \/ pc'[t] \in {"checkout", "close", "sweep"}
    BY <1>2, <2>2 DEF Recv, PcValues
  <2> QED  BY <2>3, <2>4 DEF Counted
<1>7. CASE Kept(t)
  <2>1. Kind(t)' = Kind(t) /\ DocOf(t)' = DocOf(t) /\ pc[t] # "idle"
    BY <1>1, <1>7 DEF Kind, DocOf, Kept
  <2>2. \A what : ~Reply(t, what) /\ ~ReplyAndNotify(t, what)
    <3>1. \A what : Reply(t, what) => pc'[t] = "idle"
      BY <1>2 DEF Reply, PcValues
    <3>2. \A what : ReplyAndNotify(t, what) => pc'[t] = "idle"
      BY <1>3 DEF ReplyAndNotify, PcValues
    <3> QED  BY <1>4, <3>1, <3>2
  <2>3. Kind(t) = "ask"
    <3>1. Kind(t) \in {"open", "ask", "close", "release"}
      BY <1>1, <2>1, SentAt DEF Row, JobRow, Kind, Request, PoolInv
    <3>2. KindRow(t)'
      BY <1>1 DEF OwnRow
    <3> QED
      BY <1>4, <2>1, <3>1, <3>2 DEF KindRow, Counted, OpenPcs, ClosePcs
  <2>4. pc[t] \in {"checkout", "waiting", "forsake"}
    BY <1>1, <2>1, <2>3 DEF Row, KindRow, AskPcs, Counted
  <2>5. CheckoutIdle(t) \/ CheckoutGrow(t) \/ CheckoutWait(t)
    BY <2>2, <2>4
       DEF ThreadStep, Recv, CheckoutRefused, Spawn, SpawnFails, GiveBack, Forsake, Publish,
           Watch, WorkerLost, EndWatch, EndUnlock, EndOpen, EndServe, DropWatch, Diagnose,
           KeepWorker, CondemnWorker, Checkin, DropWorker, Account, PublishDoc, Sweep,
           CloseRefused, CloseWait, CloseTake, CloseKill, WorkerAnswers, WorkerOverruns,
           Exchanged
  <2> QED  BY <2>1, <2>5 DEF CheckoutIdle, CheckoutGrow, CheckoutWait
<1> QED  BY <1>1, <1>5, <1>6, <1>7

LEMMA StepsLetNobodyJoin == PoolInv /\ [Next]_vars => NobodyJoins
<1> SUFFICES ASSUME PoolInv, [Next]_vars  PROVE NobodyJoins
  OBVIOUS
<1>1. ASSUME NEW t \in Threads, ThreadStep(t) \/ WorkerAnswers(t) \/ WorkerOverruns(t)
      PROVE  NobodyJoins
  <2> SUFFICES ASSUME NEW d \in 1..Len(docs), docs[d].outlived,
                      NEW u \in Threads, Counted(u)', DocOf(u)' = d
               PROVE  Counted(u) /\ DocOf(u) = d
    BY DEF NobodyJoins, CountedFor
  <2>1. CASE u # t
    BY <1>1, <2>1, CountsMove
  <2>2. CASE u = t
    <3>1. Counted(t)
      <4> SUFFICES ASSUME ~Counted(t)  PROVE FALSE
        OBVIOUS
      <4>1. Serving(t) /\ DocOf(t) = d
        BY <1>1, <2>2, WhoJoinsWasServed
      <4> QED  BY <4>1 DEF Serving
    <3>2. pc[t] # "idle" /\ pc'[t] # "idle" /\ sent' = sent /\ (Took(t) \/ Kept(t) \/ Replied(t))
      BY <1>1, <2>2, <3>1, QueueSteps DEF Counted
    <3>3. job'[t] = job[t]
      BY <3>2 DEF Took, Kept, Replied
    <3> QED  BY <2>2, <3>1, <3>2, <3>3 DEF DocOf
  <2> QED  BY <2>1, <2>2
<1>2. ASSUME \A u \in Threads :
                (Counted(u)' <=> Counted(u)) /\ (Counted(u) => DocOf(u)' = DocOf(u))
      PROVE  NobodyJoins
  BY <1>2 DEF NobodyJoins, CountedFor
<1>3. ASSUME UNCHANGED <<sent, pc, local>>  PROVE NobodyJoins
  <2>1. \A u \in Threads : (Counted(u)' <=> Counted(u)) /\ DocOf(u)' = DocOf(u)
    BY <1>3 DEF Counted, Kind, DocOf, local
  <2> QED  BY <1>2, <2>1
<1>4. CASE \E req \in Request : Send(req)
  <2>1. PICK req \in Request : Send(req)
    BY <1>4
  <2>2. UNCHANGED <<pc, local>> /\ \A j \in 1..Len(sent) : sent'[j] = sent[j]
    BY <2>1, AppendProperties DEF Send, PoolInv, QueueTyped
  <2>3. ASSUME NEW u \in Threads, pc[u] # "idle"
        PROVE  Kind(u)' = Kind(u) /\ DocOf(u)' = DocOf(u)
    BY <2>2, <2>3 DEF PoolInv, Row, JobRow, Kind, DocOf, local
  <2>4. \A u \in Threads :
            (Counted(u)' <=> Counted(u)) /\ (Counted(u) => DocOf(u)' = DocOf(u))
    BY <2>2, <2>3 DEF Counted
  <2> QED  BY <1>2, <2>4
<1>5. CASE RetireKill
  <2>1. \A u \in Threads :
            \/ pc'[u] = pc[u]
            \/ pc[u] = "waiting" /\ pc'[u] = "checkout"
            \/ pc[u] = "closing" /\ pc'[u] = "close"
    BY <1>5 DEF RetireKill, WakeAll, PoolInv, LocalTyped
  <2>2. \A u \in Threads : (Counted(u)' <=> Counted(u)) /\ DocOf(u)' = DocOf(u)
    BY <1>5, <2>1 DEF RetireKill, Counted, Kind, DocOf, local
  <2> QED  BY <1>2, <2>2
<1>6. CASE \E d \in Doc : RetireIdle(d) \/ Truncate(d)
  BY <1>3, <1>6 DEF RetireIdle, Truncate
<1>7. CASE KillOverdue \/ (\E p \in Pids : Crash(p)) \/ UNCHANGED vars
  BY <1>3, <1>7 DEF KillOverdue, Crash, vars
<1> QED  BY <1>1, <1>4, <1>5, <1>6, <1>7 DEF Next

\* Once a file is known to have been cut short, no step lends a worker of its
\* pool, idle or new, to a request that had none, and none makes the pool forget
\* the diagnosis, but by closing it.
THEOREM OutlivedNeverStarts == Spec => OutlivedStartsNothing
<1>1. PoolInv /\ [Next]_vars => [LatchStays /\ NobodyJoins]_vars
  BY StepsKeepLatch, StepsLetNobodyJoin
<1>2. LatchStays /\ NobodyJoins =>
        \A d \in 1..Len(docs) : docs[d].open /\ docs[d].outlived =>
            /\ docs'[d].outlived \/ ~docs'[d].open
            /\ CountedFor(d)' \subseteq CountedFor(d)
  BY DEF LatchStays, NobodyJoins
<1> QED  BY <1>1, <1>2, PoolIsSound, PTL DEF Spec, OutlivedStartsNothing

-----------------------------------------------------------------------------
\* Who owns a worker's process, whether or not the operating system issues a pid
\* again.  A worker is in one place: a thread's hands, a pool's idle list, the
\* workers a close is dropping, or the list of the retired.  What rests on that
\* follows: whose the entries of the in-flight table are, whom a pool's senders
\* reach, and which corpses a pool may hold.

\* Two workers that must not carry one pid: while both are unreaped, and for
\* good where a pid is never issued again.
Clash(w, v) == w.pid = v.pid /\ (~Reissue \/ (~w.reaped /\ ~v.reaped))

\* The places a worker can be in, and the worker in a place.
ThreadPlace(t) == <<"thread", t, 0>>
IdlePlace(d, i) == <<"idle", d, i>>
ClosingPlace(t, w) == <<"closing", t, w>>
RetiredPlace(w) == <<"retired", 0, w>>

Places ==
    {ThreadPlace(t) : t \in {u \in Threads : worker[u] # NoWorker}}
    \cup {o \in {IdlePlace(d, i) : d \in 1..Len(docs), i \in Nat} :
             o[3] \in 1..Len(docs[o[2]].idle)}
    \cup {o \in {ClosingPlace(t, w) : t \in Threads, w \in Worker} :
             o[3] \in dropping[o[2]]}
    \cup {RetiredPlace(w) : w \in retired}

WorkerAt(o) ==
    IF o[1] = "thread" THEN worker[o[2]]
    ELSE IF o[1] = "idle" THEN docs[o[2]].idle[o[3]]
    ELSE o[3]

NoClash == \A o, q \in Places : o # q => ~Clash(WorkerAt(o), WorkerAt(q))

OwnedAlive ==
    \A o \in Places :
        /\ ~WorkerAt(o).reaped => proc[WorkerAt(o).pid] \in {"alive", "dead"}
        /\ ~Reissue => proc[WorkerAt(o).pid] # "free"

NoOrphan ==
    \A p \in Pids : proc[p] \in {"alive", "dead"} =>
        \E o \in Places : WorkerAt(o) = [pid |-> p, reaped |-> FALSE]

Owners == NoClash /\ OwnedAlive /\ NoOrphan

\* A closed slot is empty, and a worker about to be struck off is dead.
SlotsAndCorpses ==
    /\ \A d \in 1..Len(docs) : ~docs[d].open => docs[d] = Hole
    /\ \A t \in Threads : pc[t] = "account" => worker[t].reaped

-----------------------------------------------------------------------------
LEMMA PlacesApart ==
    /\ \A t, u : ThreadPlace(t) = ThreadPlace(u) <=> t = u
    /\ \A d, i, e, k : IdlePlace(d, i) = IdlePlace(e, k) <=> d = e /\ i = k
    /\ \A t, w, u, v : ClosingPlace(t, w) = ClosingPlace(u, v) <=> t = u /\ w = v
    /\ \A w, v : RetiredPlace(w) = RetiredPlace(v) <=> w = v
    /\ \A t, d, i : ThreadPlace(t) # IdlePlace(d, i)
    /\ \A t, u, w : ThreadPlace(t) # ClosingPlace(u, w)
    /\ \A t, w : ThreadPlace(t) # RetiredPlace(w)
    /\ \A d, i, t, w : IdlePlace(d, i) # ClosingPlace(t, w)
    /\ \A d, i, w : IdlePlace(d, i) # RetiredPlace(w)
    /\ \A t, w, v : ClosingPlace(t, w) # RetiredPlace(v)
  BY DEF ThreadPlace, IdlePlace, ClosingPlace, RetiredPlace

LEMMA PlacesAre ==
    ASSUME LocalTyped
    PROVE  /\ \A t : ThreadPlace(t) \in Places <=> t \in Threads /\ worker[t] # NoWorker
           /\ \A d, i : IdlePlace(d, i) \in Places <=>
                 d \in 1..Len(docs) /\ i \in 1..Len(docs[d].idle)
           /\ \A t, w : ClosingPlace(t, w) \in Places <=> t \in Threads /\ w \in dropping[t]
           /\ \A w : RetiredPlace(w) \in Places <=> w \in retired
           /\ \A o \in Places :
                 \/ \E t \in Threads : o = ThreadPlace(t)
                 \/ \E d \in 1..Len(docs) : \E i \in 1..Len(docs[d].idle) : o = IdlePlace(d, i)
                 \/ \E t \in Threads : \E w \in dropping[t] : o = ClosingPlace(t, w)
                 \/ \E w \in retired : o = RetiredPlace(w)
<1>0. \A t \in Threads : dropping[t] \subseteq Worker
  BY DEF LocalTyped
<1>1. \A t : ThreadPlace(t) \in Places <=> t \in Threads /\ worker[t] # NoWorker
  BY <1>0, PlacesApart DEF Places, ThreadPlace, IdlePlace, ClosingPlace, RetiredPlace
<1>2. \A d, i : IdlePlace(d, i) \in Places <=>
          d \in 1..Len(docs) /\ i \in 1..Len(docs[d].idle)
  BY <1>0, PlacesApart DEF Places, ThreadPlace, IdlePlace, ClosingPlace, RetiredPlace
<1>3. \A t, w : ClosingPlace(t, w) \in Places <=> t \in Threads /\ w \in dropping[t]
  BY <1>0, PlacesApart DEF Places, ThreadPlace, IdlePlace, ClosingPlace, RetiredPlace
<1>4. \A w : RetiredPlace(w) \in Places <=> w \in retired
  BY <1>0, PlacesApart DEF Places, ThreadPlace, IdlePlace, ClosingPlace, RetiredPlace
<1>5. \A o \in Places :
          \/ \E t \in Threads : o = ThreadPlace(t)
          \/ \E d \in 1..Len(docs) : \E i \in 1..Len(docs[d].idle) : o = IdlePlace(d, i)
          \/ \E t \in Threads : \E w \in dropping[t] : o = ClosingPlace(t, w)
          \/ \E w \in retired : o = RetiredPlace(w)
  BY <1>0 DEF Places, IdlePlace, ClosingPlace
<1> QED  BY <1>1, <1>2, <1>3, <1>4, <1>5

LEMMA NextPlacesAre ==
    ASSUME LocalTyped'
    PROVE  /\ \A t : ThreadPlace(t) \in Places' <=> t \in Threads /\ worker'[t] # NoWorker
           /\ \A d, i : IdlePlace(d, i) \in Places' <=>
                 d \in 1..Len(docs') /\ i \in 1..Len(docs'[d].idle)
           /\ \A t, w : ClosingPlace(t, w) \in Places' <=> t \in Threads /\ w \in dropping'[t]
           /\ \A w : RetiredPlace(w) \in Places' <=> w \in retired'
           /\ \A o \in Places' :
                 \/ \E t \in Threads : o = ThreadPlace(t)
                 \/ \E d \in 1..Len(docs') : \E i \in 1..Len(docs'[d].idle) : o = IdlePlace(d, i)
                 \/ \E t \in Threads : \E w \in dropping'[t] : o = ClosingPlace(t, w)
                 \/ \E w \in retired' : o = RetiredPlace(w)
<1>0. \A t \in Threads : dropping'[t] \subseteq Worker
  BY DEF LocalTyped
<1>1. \A t : ThreadPlace(t) \in Places' <=> t \in Threads /\ worker'[t] # NoWorker
  BY <1>0, PlacesApart DEF Places, ThreadPlace, IdlePlace, ClosingPlace, RetiredPlace
<1>2. \A d, i : IdlePlace(d, i) \in Places' <=>
          d \in 1..Len(docs') /\ i \in 1..Len(docs'[d].idle)
  BY <1>0, PlacesApart DEF Places, ThreadPlace, IdlePlace, ClosingPlace, RetiredPlace
<1>3. \A t, w : ClosingPlace(t, w) \in Places' <=> t \in Threads /\ w \in dropping'[t]
  BY <1>0, PlacesApart DEF Places, ThreadPlace, IdlePlace, ClosingPlace, RetiredPlace
<1>4. \A w : RetiredPlace(w) \in Places' <=> w \in retired'
  BY <1>0, PlacesApart DEF Places, ThreadPlace, IdlePlace, ClosingPlace, RetiredPlace
<1>5. \A o \in Places' :
          \/ \E t \in Threads : o = ThreadPlace(t)
          \/ \E d \in 1..Len(docs') : \E i \in 1..Len(docs'[d].idle) : o = IdlePlace(d, i)
          \/ \E t \in Threads : \E w \in dropping'[t] : o = ClosingPlace(t, w)
          \/ \E w \in retired' : o = RetiredPlace(w)
  BY <1>0 DEF Places, IdlePlace, ClosingPlace
<1> QED  BY <1>1, <1>2, <1>3, <1>4, <1>5

LEMMA WorkersAtPlaces ==
    /\ \A t : WorkerAt(ThreadPlace(t)) = worker[t]
    /\ \A d, i : WorkerAt(IdlePlace(d, i)) = docs[d].idle[i]
    /\ \A t, w : WorkerAt(ClosingPlace(t, w)) = w
    /\ \A w : WorkerAt(RetiredPlace(w)) = w
    /\ \A t : WorkerAt(ThreadPlace(t))' = worker'[t]
    /\ \A d, i : WorkerAt(IdlePlace(d, i))' = docs'[d].idle[i]
    /\ \A t, w : WorkerAt(ClosingPlace(t, w))' = w
    /\ \A w : WorkerAt(RetiredPlace(w))' = w
  BY DEF WorkerAt, ThreadPlace, IdlePlace, ClosingPlace, RetiredPlace

LEMMA PlacesHoldWorkers ==
    ASSUME PoolInv
    PROVE  \A o \in Places : WorkerAt(o) \in Worker
<1> USE DEF PoolInv
<1>1. \A t \in Threads : worker[t] # NoWorker => worker[t] \in Worker
  BY DEF LocalTyped
<1>2. \A d \in 1..Len(docs) : \A i \in 1..Len(docs[d].idle) : docs[d].idle[i] \in Worker
  BY HeldAt
<1>3. \A t \in Threads : \A w \in dropping[t] : w \in Worker
  BY DEF LocalTyped
<1>4. \A w \in retired : w \in Worker
  BY DEF WorldTyped
<1> QED  BY <1>1, <1>2, <1>3, <1>4, PlacesAre, WorkersAtPlaces

\* However workers move between places, and whichever of them are reaped on the
\* way: f says where each came from, gone is those that were reaped.
LEMMA OwnersMove ==
    ASSUME PoolInv, Owners, NEW gone \in SUBSET Places,
           NEW f \in [Places' -> Places],
           \A o, q \in Places' : f[o] = f[q] => o = q,
           \A o \in Places' : WorkerAt(o)' =
              IF f[o] \in gone THEN [WorkerAt(f[o]) EXCEPT !.reaped = TRUE]
                               ELSE WorkerAt(f[o]),
           \A o \in Places \ gone : WorkerAt(o).reaped \/ \E q \in Places' : f[q] = o,
           \A p \in Pids :
              IF \E o \in gone : WorkerAt(o).pid = p /\ ~WorkerAt(o).reaped
              THEN proc'[p] = IF Reissue THEN "free" ELSE "gone"
              ELSE proc'[p] = proc[p] \/ (proc[p] = "alive" /\ proc'[p] = "dead")
    PROVE  Owners'
<1>1. \A o \in Places : WorkerAt(o) \in Worker
  BY PlacesHoldWorkers
<1>2. ASSUME NEW o \in Places'
      PROVE  /\ f[o] \in Places /\ WorkerAt(f[o]) \in Worker
             /\ WorkerAt(o)'.pid = WorkerAt(f[o]).pid
             /\ WorkerAt(o)'.reaped <=> (WorkerAt(f[o]).reaped \/ f[o] \in gone)
  <2>1. f[o] \in Places
    OBVIOUS
  <2>2. PICK w \in Worker : w = WorkerAt(f[o])
    BY <1>1, <2>1
  <2>3. WorkerAt(o)' = IF f[o] \in gone THEN [w EXCEPT !.reaped = TRUE] ELSE w
    BY <2>2
  <2> QED  BY <2>1, <2>2, <2>3 DEF Worker
<1>3. NoClash'
  <2> SUFFICES ASSUME NEW o \in Places', NEW q \in Places', o # q
               PROVE  ~Clash(WorkerAt(o), WorkerAt(q))'
    BY DEF NoClash
  <2>1. f[o] \in Places /\ f[q] \in Places /\ f[o] # f[q]
    BY <1>2
  <2>2. ~Clash(WorkerAt(f[o]), WorkerAt(f[q]))
    BY <2>1 DEF Owners, NoClash
  <2> QED  BY <1>2, <2>2 DEF Clash
<1>4. OwnedAlive'
  <2> SUFFICES ASSUME NEW o \in Places'
               PROVE  /\ ~WorkerAt(o)'.reaped => proc'[WorkerAt(o)'.pid] \in {"alive", "dead"}
                      /\ ~Reissue => proc'[WorkerAt(o)'.pid] # "free"
    BY DEF OwnedAlive
  <2>1. PICK w : w = WorkerAt(f[o])
    OBVIOUS
  <2>2. w \in Worker /\ w.pid \in Pids /\ WorkerAt(o)'.pid = w.pid
    BY <1>2, <2>1 DEF Worker
  <2>3. /\ ~w.reaped => proc[w.pid] \in {"alive", "dead"}
        /\ ~Reissue => proc[w.pid] # "free"
    BY <1>2, <2>1 DEF Owners, OwnedAlive
  <2>4. ASSUME ~WorkerAt(o)'.reaped
        PROVE  proc'[w.pid] \in {"alive", "dead"}
    <3>1. f[o] \notin gone /\ ~w.reaped
      BY <1>2, <2>1, <2>4
    <3>2. ASSUME NEW g \in gone, WorkerAt(g).pid = w.pid, ~WorkerAt(g).reaped
          PROVE  FALSE
      <4>1. g # f[o] /\ g \in Places /\ f[o] \in Places
        BY <1>2, <3>1
      <4> QED  BY <2>1, <3>1, <3>2, <4>1 DEF Owners, NoClash, Clash
    <3>3. proc'[w.pid] = proc[w.pid] \/ proc'[w.pid] = "dead"
      BY <2>2, <3>2
    <3> QED  BY <2>3, <3>1, <3>3
  <2>5. ~Reissue => proc'[w.pid] # "free"
    BY <2>2, <2>3
  <2> QED  BY <2>2, <2>4, <2>5
<1>5. NoOrphan'
  <2> SUFFICES ASSUME NEW p \in Pids, proc'[p] \in {"alive", "dead"}
               PROVE  \E o \in Places' : WorkerAt(o)' = [pid |-> p, reaped |-> FALSE]
    BY DEF NoOrphan
  <2>1. ~\E o \in gone : WorkerAt(o).pid = p /\ ~WorkerAt(o).reaped
    OBVIOUS
  <2>2. proc[p] \in {"alive", "dead"}
    BY <2>1
  <2>3. PICK o \in Places : WorkerAt(o) = [pid |-> p, reaped |-> FALSE]
    BY <2>2 DEF Owners, NoOrphan
  <2>4. o \notin gone /\ ~WorkerAt(o).reaped
    BY <2>1, <2>3
  <2>5. PICK q \in Places' : f[q] = o
    BY <2>4
  <2>6. WorkerAt(q)' = WorkerAt(o)
    BY <2>4, <2>5
  <2> QED  BY <2>3, <2>6
<1> QED  BY <1>3, <1>4, <1>5 DEF Owners

-----------------------------------------------------------------------------
\* Workers that stay where they are, but for those that are reaped.
LEMMA OwnersInPlace ==
    ASSUME PoolInv, Owners, NEW gone \in SUBSET Places, Places' \subseteq Places,
           \A o \in Places' : WorkerAt(o)' =
              IF o \in gone THEN [WorkerAt(o) EXCEPT !.reaped = TRUE] ELSE WorkerAt(o),
           \A o \in Places \ gone : WorkerAt(o).reaped \/ o \in Places',
           \A p \in Pids :
              IF \E o \in gone : WorkerAt(o).pid = p /\ ~WorkerAt(o).reaped
              THEN proc'[p] = IF Reissue THEN "free" ELSE "gone"
              ELSE proc'[p] = proc[p] \/ (proc[p] = "alive" /\ proc'[p] = "dead")
    PROVE  Owners'
<1> DEFINE f == [o \in Places' |-> o]
<1>1. f \in [Places' -> Places] /\ \A o \in Places' : f[o] = o
  OBVIOUS
<1>2. \A o, q \in Places' : f[o] = f[q] => o = q
  BY <1>1
<1>3. \A o \in Places' : WorkerAt(o)' =
          IF f[o] \in gone THEN [WorkerAt(f[o]) EXCEPT !.reaped = TRUE]
                           ELSE WorkerAt(f[o])
  BY <1>1
<1>4. \A o \in Places \ gone : WorkerAt(o).reaped \/ \E q \in Places' : f[q] = o
  BY <1>1
<1> HIDE DEF f
<1> QED  BY <1>1, <1>2, <1>3, <1>4, OwnersMove

\* Nobody's worker goes anywhere; a process may die.
LEMMA QuietOwners ==
    ASSUME PoolInv, PoolInv', Owners,
           \A u \in Threads : worker'[u] = worker[u] /\ dropping'[u] = dropping[u],
           Len(docs') = Len(docs), \A d \in 1..Len(docs) : docs'[d].idle = docs[d].idle,
           retired' = retired,
           \A p \in Pids : proc'[p] = proc[p] \/ (proc[p] = "alive" /\ proc'[p] = "dead")
    PROVE  Owners'
<1>1. LocalTyped /\ LocalTyped'
  BY DEF PoolInv
<1>2. ASSUME NEW o \in Places'  PROVE o \in Places /\ WorkerAt(o)' = WorkerAt(o)
  BY <1>1, NextPlacesAre, PlacesAre, WorkersAtPlaces
<1>3. ASSUME NEW o \in Places  PROVE o \in Places'
  BY <1>1, NextPlacesAre, PlacesAre
<1>4. PICK gone \in SUBSET Places : gone = {}
  OBVIOUS
<1>5. \A p \in Pids : ~\E o \in gone : WorkerAt(o).pid = p /\ ~WorkerAt(o).reaped
  BY <1>4
<1> QED  BY <1>2, <1>3, <1>4, <1>5, OwnersInPlace

\* Thread t reaps the worker it has, and keeps the value.
LEMMA ReapedInHand ==
    ASSUME PoolInv, PoolInv', Owners, NEW t \in Threads, worker[t] \in Worker,
           worker'[t] = [worker[t] EXCEPT !.reaped = TRUE], dropping'[t] = dropping[t],
           \A u \in Threads \ {t} : worker'[u] = worker[u] /\ dropping'[u] = dropping[u],
           docs' = docs, retired' = retired, proc' = Reap(proc, {worker[t]})
    PROVE  Owners'
<1>1. LocalTyped /\ LocalTyped'
  BY DEF PoolInv
<1>2. worker[t] # NoWorker /\ worker'[t] # NoWorker
  BY PoolAssumption DEF Worker, NoWorker
<1>3. ThreadPlace(t) \in Places /\ WorkerAt(ThreadPlace(t)) = worker[t]
  BY <1>1, <1>2, PlacesAre, WorkersAtPlaces
<1>4. ASSUME NEW o \in Places'
      PROVE  /\ o \in Places
             /\ WorkerAt(o)' = IF o = ThreadPlace(t) THEN [WorkerAt(o) EXCEPT !.reaped = TRUE]
                                                     ELSE WorkerAt(o)
  <2>1. CASE o = ThreadPlace(t)
    BY <1>3, <2>1, WorkersAtPlaces
  <2>2. CASE o # ThreadPlace(t)
    BY <1>1, <2>2, NextPlacesAre, PlacesAre, WorkersAtPlaces
  <2> QED  BY <2>1, <2>2
<1>5. ASSUME NEW o \in Places  PROVE o \in Places'
  <2>1. CASE o = ThreadPlace(t)
    BY <1>1, <1>2, <2>1, NextPlacesAre
  <2>2. CASE o # ThreadPlace(t)
    BY <1>1, <2>2, NextPlacesAre, PlacesAre
  <2> QED  BY <2>1, <2>2
<1>6. \A p \in Pids : proc'[p] = IF worker[t].pid = p /\ ~worker[t].reaped
                                 THEN IF Reissue THEN "free" ELSE "gone"
                                 ELSE proc[p]
  BY DEF Reap
<1>7. PICK gone \in SUBSET Places : gone = {ThreadPlace(t)}
  BY <1>3
<1>8. \A p \in Pids : (\E o \in gone : WorkerAt(o).pid = p /\ ~WorkerAt(o).reaped)
                          <=> (worker[t].pid = p /\ ~worker[t].reaped)
  BY <1>3, <1>7
<1>9. \A o \in Places' : WorkerAt(o)' =
          IF o \in gone THEN [WorkerAt(o) EXCEPT !.reaped = TRUE] ELSE WorkerAt(o)
  BY <1>4, <1>7
<1> QED  BY ZenonT(30), <1>4, <1>5, <1>6, <1>8, <1>9, OwnersInPlace

\* Thread t has nothing in hand any more, and what it had is reaped.
LEMMA LetGo ==
    ASSUME PoolInv, PoolInv', Owners, NEW t \in Threads,
           worker'[t] = NoWorker, dropping[t] = {}, dropping'[t] = {},
           \A u \in Threads \ {t} : worker'[u] = worker[u] /\ dropping'[u] = dropping[u],
           Len(docs') = Len(docs), \A d \in 1..Len(docs) : docs'[d].idle = docs[d].idle,
           retired' = retired, proc' = Reap(proc, {worker[t]})
    PROVE  Owners'
<1>1. LocalTyped /\ LocalTyped'
  BY DEF PoolInv
<1>2. ASSUME NEW o \in Places'
      PROVE  o \in Places /\ o # ThreadPlace(t) /\ WorkerAt(o)' = WorkerAt(o)
  <2>1. o # ThreadPlace(t)
    BY <1>1, NextPlacesAre
  <2> QED  BY SMTT(30), <1>1, <2>1, NextPlacesAre, PlacesAre, WorkersAtPlaces
<1>3. ASSUME NEW o \in Places, o # ThreadPlace(t)  PROVE o \in Places'
  BY <1>1, <1>3, NextPlacesAre, PlacesAre
<1>4. \A p \in Pids : proc'[p] = IF worker[t].pid = p /\ ~worker[t].reaped
                                 THEN IF Reissue THEN "free" ELSE "gone"
                                 ELSE proc[p]
  BY DEF Reap
<1>5. PICK gone \in SUBSET Places : gone = {ThreadPlace(t)} \cap Places
  OBVIOUS
<1>6. \A p \in Pids : (\E o \in gone : WorkerAt(o).pid = p /\ ~WorkerAt(o).reaped)
                          <=> (worker[t].pid = p /\ ~worker[t].reaped)
  <2>1. CASE worker[t] = NoWorker
    <3>1. gone = {}
      BY <1>1, <1>5, <2>1, PlacesAre
    <3>2. worker[t].reaped
      BY <2>1 DEF NoWorker
    <3> QED  BY <3>1, <3>2
  <2>2. CASE worker[t] # NoWorker
    <3>1. ThreadPlace(t) \in Places /\ WorkerAt(ThreadPlace(t)) = worker[t]
      BY <1>1, <2>2, PlacesAre, WorkersAtPlaces
    <3> QED  BY <1>5, <3>1
  <2> QED  BY <2>1, <2>2
<1>7. \A o \in Places' : WorkerAt(o)' =
          IF o \in gone THEN [WorkerAt(o) EXCEPT !.reaped = TRUE] ELSE WorkerAt(o)
  BY <1>2, <1>5
<1>8. \A o \in Places \ gone : WorkerAt(o).reaped \/ o \in Places'
  BY <1>3, <1>5
<1>9. Places' \subseteq Places
  BY <1>2
<1>10. \A p \in Pids :
          IF \E o \in gone : WorkerAt(o).pid = p /\ ~WorkerAt(o).reaped
          THEN proc'[p] = IF Reissue THEN "free" ELSE "gone"
          ELSE proc'[p] = proc[p] \/ (proc[p] = "alive" /\ proc'[p] = "dead")
  BY <1>4, <1>6
<1> QED  BY <1>7, <1>8, <1>9, <1>10, OwnersInPlace

-----------------------------------------------------------------------------
\* Workers that move, and none is reaped.
LEMMA OwnersRelocate ==
    ASSUME PoolInv, Owners, NEW f \in [Places' -> Places],
           \A o, q \in Places' : f[o] = f[q] => o = q,
           \A o \in Places' : WorkerAt(o)' = WorkerAt(f[o]),
           \A o \in Places : WorkerAt(o).reaped \/ \E q \in Places' : f[q] = o,
           proc' = proc
    PROVE  Owners'
<1>1. PICK gone \in SUBSET Places : gone = {}
  OBVIOUS
<1>2. \A p \in Pids : ~\E o \in gone : WorkerAt(o).pid = p /\ ~WorkerAt(o).reaped
  BY <1>1
<1>3. \A p \in Pids :
          IF \E o \in gone : WorkerAt(o).pid = p /\ ~WorkerAt(o).reaped
          THEN proc'[p] = IF Reissue THEN "free" ELSE "gone"
          ELSE proc'[p] = proc[p] \/ (proc[p] = "alive" /\ proc'[p] = "dead")
  BY <1>2
<1>4. \A o \in Places' : WorkerAt(o)' =
          IF f[o] \in gone THEN [WorkerAt(f[o]) EXCEPT !.reaped = TRUE]
                           ELSE WorkerAt(f[o])
  BY <1>1
<1>5. \A o \in Places \ gone : WorkerAt(o).reaped \/ \E q \in Places' : f[q] = o
  OBVIOUS
<1> QED  BY <1>3, <1>4, <1>5, OwnersMove

\* A worker arrives under a pid that is free.
LEMMA Arrival ==
    ASSUME PoolInv, PoolInv', Owners, NEW t \in Threads, worker[t] = NoWorker,
           NEW p \in Pids, proc[p] = "free", proc' = [proc EXCEPT ![p] = "alive"],
           worker'[t] = [pid |-> p, reaped |-> FALSE], dropping'[t] = dropping[t],
           \A u \in Threads \ {t} : worker'[u] = worker[u] /\ dropping'[u] = dropping[u],
           docs' = docs, retired' = retired
    PROVE  Owners'
<1>1. LocalTyped /\ LocalTyped' /\ WorldTyped
  BY DEF PoolInv
<1> DEFINE here == ThreadPlace(t)
<1>2. here \in Places' /\ WorkerAt(here)' = [pid |-> p, reaped |-> FALSE]
  <2>1. worker'[t] # NoWorker
    BY DEF NoWorker
  <2> QED  BY <1>1, <2>1, NextPlacesAre, WorkersAtPlaces
<1>3. ASSUME NEW o \in Places', o # here  PROVE o \in Places /\ WorkerAt(o)' = WorkerAt(o)
  BY <1>1, <1>3, NextPlacesAre, PlacesAre, WorkersAtPlaces
<1>4. ASSUME NEW o \in Places  PROVE o \in Places' /\ o # here /\ WorkerAt(o)' = WorkerAt(o)
  <2>1. o # here
    BY <1>1, PlacesAre
  <2> QED  BY <1>1, <2>1, NextPlacesAre, PlacesAre, WorkersAtPlaces
<1>5. ASSUME NEW o \in Places, WorkerAt(o).pid = p  PROVE Reissue /\ WorkerAt(o).reaped
  BY <1>5 DEF Owners, OwnedAlive
<1>6. \A o \in Places : WorkerAt(o) \in Worker
  BY PlacesHoldWorkers
<1>7. \A q \in Pids : proc'[q] = IF q = p THEN "alive" ELSE proc[q]
  BY <1>1 DEF WorldTyped
<1> HIDE DEF here
<1>8. NoClash'
  <2> SUFFICES ASSUME NEW o \in Places', NEW q \in Places', o # q
               PROVE  ~Clash(WorkerAt(o), WorkerAt(q))'
    BY DEF NoClash
  <2>1. CASE o # here /\ q # here
    BY <1>3, <2>1 DEF Owners, NoClash, Clash
  <2>2. CASE o = here
    BY <1>2, <1>3, <1>5, <2>2 DEF Clash
  <2>3. CASE q = here
    BY <1>2, <1>3, <1>5, <2>3 DEF Clash
  <2> QED  BY <2>1, <2>2, <2>3
<1>9. OwnedAlive'
  <2> SUFFICES ASSUME NEW o \in Places'
               PROVE  /\ ~WorkerAt(o)'.reaped => proc'[WorkerAt(o)'.pid] \in {"alive", "dead"}
                      /\ ~Reissue => proc'[WorkerAt(o)'.pid] # "free"
    BY DEF OwnedAlive
  <2>1. CASE o = here
    BY <1>2, <1>7, <2>1
  <2>2. CASE o # here
    <3>1. o \in Places /\ WorkerAt(o)' = WorkerAt(o) /\ WorkerAt(o).pid \in Pids
      BY <1>3, <1>6, <2>2 DEF Worker
    <3> QED  BY <1>5, <1>7, <3>1 DEF Owners, OwnedAlive
  <2> QED  BY <2>1, <2>2
<1>10. NoOrphan'
  <2> SUFFICES ASSUME NEW q \in Pids, proc'[q] \in {"alive", "dead"}
               PROVE  \E o \in Places' : WorkerAt(o)' = [pid |-> q, reaped |-> FALSE]
    BY DEF NoOrphan
  <2>1. CASE q = p
    BY <1>2, <2>1
  <2>2. CASE q # p
    BY <1>4, <1>7, <2>2 DEF Owners, NoOrphan
  <2> QED  BY <2>1, <2>2
<1> QED  BY <1>8, <1>9, <1>10 DEF Owners

\* What is neither in the table nor in the hand of t stays where it is.
LEMMA OthersStayPut ==
    ASSUME LocalTyped, LocalTyped', NEW t \in Threads,
           \A u \in Threads \ {t} : worker'[u] = worker[u],
           \A u \in Threads : dropping'[u] = dropping[u],
           retired' = retired, NEW o, o # ThreadPlace(t), \A d, i : o # IdlePlace(d, i)
    PROVE  /\ o \in Places' <=> o \in Places
           /\ o \in Places => WorkerAt(o)' = WorkerAt(o)
<1>1. o \in Places' \/ o \in Places =>
          \/ \E u \in Threads : o = ThreadPlace(u)
          \/ \E u \in Threads : \E w : o = ClosingPlace(u, w)
          \/ \E w : o = RetiredPlace(w)
  BY NextPlacesAre, PlacesAre
<1>2. CASE \E u \in Threads : o = ThreadPlace(u)
  <2>1. PICK u \in Threads : o = ThreadPlace(u)
    BY <1>2
  <2>2. u # t /\ worker'[u] = worker[u]
    BY <2>1
  <2> QED  BY <2>1, <2>2, NextPlacesAre, PlacesAre, WorkersAtPlaces
<1>3. CASE \E u \in Threads : \E w : o = ClosingPlace(u, w)
  BY <1>3, NextPlacesAre, PlacesAre, WorkersAtPlaces
<1>4. CASE \E w : o = RetiredPlace(w)
  BY <1>4, NextPlacesAre, PlacesAre, WorkersAtPlaces
<1> QED  BY <1>1, <1>2, <1>3, <1>4

\* Thread t puts its worker into an empty place of the table ...
LEMMA Shelved ==
    ASSUME PoolInv, PoolInv', Owners, NEW t \in Threads, worker[t] \in Worker,
           worker'[t] = NoWorker, dropping[t] = {}, dropping'[t] = {},
           \A u \in Threads \ {t} : worker'[u] = worker[u] /\ dropping'[u] = dropping[u],
           NEW d, NEW i, d \in 1..Len(docs'), i \in 1..Len(docs'[d].idle),
           ~(d \in 1..Len(docs) /\ i \in 1..Len(docs[d].idle)),
           docs'[d].idle[i] = worker[t],
           \A e, k : (e # d \/ k # i) =>
              (e \in 1..Len(docs') /\ k \in 1..Len(docs'[e].idle)
                 <=> e \in 1..Len(docs) /\ k \in 1..Len(docs[e].idle)),
           \A e \in 1..Len(docs) : \A k \in 1..Len(docs[e].idle) :
              docs'[e].idle[k] = docs[e].idle[k],
           retired' = retired, proc' = proc
    PROVE  Owners'
<1>1. LocalTyped /\ LocalTyped'
  BY DEF PoolInv
<1> DEFINE old == ThreadPlace(t)
<1> DEFINE new == IdlePlace(d, i)
<1> DEFINE f == [o \in Places' |-> IF o = new THEN old ELSE o]
<1>2. new \in Places' /\ new \notin Places /\ WorkerAt(new)' = worker[t]
  BY <1>1, NextPlacesAre, PlacesAre, WorkersAtPlaces
<1>3. old \in Places /\ old \notin Places' /\ WorkerAt(old) = worker[t]
  <2>1. worker[t] # NoWorker
    BY PoolAssumption DEF Worker, NoWorker
  <2> QED  BY <1>1, <2>1, NextPlacesAre, PlacesAre, WorkersAtPlaces
<1>4. ASSUME NEW o \in Places', o # new  PROVE o \in Places /\ WorkerAt(o)' = WorkerAt(o)
  <2>1. o # old
    BY <1>3
  <2>2. CASE \E e \in 1..Len(docs') : \E k \in 1..Len(docs'[e].idle) : o = IdlePlace(e, k)
    <3>1. PICK e, k : /\ e \in 1..Len(docs') /\ k \in 1..Len(docs'[e].idle)
                     /\ o = IdlePlace(e, k)
      BY <2>2
    <3>2. e # d \/ k # i
      BY <1>4, <3>1
    <3>3. e \in 1..Len(docs) /\ k \in 1..Len(docs[e].idle)
      BY <3>1, <3>2
    <3>4. o \in Places
      BY <1>1, <3>1, <3>3, PlacesAre
    <3>5. docs'[e].idle[k] = docs[e].idle[k]
      BY <3>1, <3>3
    <3> QED  BY <3>1, <3>4, <3>5, WorkersAtPlaces
  <2>3. CASE ~\E e \in 1..Len(docs') : \E k \in 1..Len(docs'[e].idle) : o = IdlePlace(e, k)
    <3>1. \A e, k : o # IdlePlace(e, k)
      BY <1>1, <2>3, NextPlacesAre
    <3> QED  BY ZenonT(30), <1>1, <1>4, <2>1, <3>1, OthersStayPut
  <2> QED  BY <2>2, <2>3
<1>5. ASSUME NEW o \in Places, o # old  PROVE o \in Places' /\ o # new
  <2>1. o # new
    BY <1>2
  <2>2. CASE \E e \in 1..Len(docs) : \E k \in 1..Len(docs[e].idle) : o = IdlePlace(e, k)
    <3>1. PICK e, k : /\ e \in 1..Len(docs) /\ k \in 1..Len(docs[e].idle)
                     /\ o = IdlePlace(e, k)
      BY <2>2
    <3>2. e # d \/ k # i
      BY <2>1, <3>1
    <3>3. e \in 1..Len(docs') /\ k \in 1..Len(docs'[e].idle)
      BY <3>1, <3>2
    <3> QED  BY <1>1, <2>1, <3>1, <3>3, NextPlacesAre
  <2>3. CASE ~\E e \in 1..Len(docs) : \E k \in 1..Len(docs[e].idle) : o = IdlePlace(e, k)
    <3>1. \A e, k : o # IdlePlace(e, k)
      BY <1>1, <2>3, PlacesAre
    <3> QED  BY ZenonT(30), <1>1, <1>5, <2>1, <3>1, OthersStayPut
  <2> QED  BY <2>2, <2>3
<1> HIDE DEF old, new
<1>6. /\ f \in [Places' -> Places]
      /\ \A o \in Places' : f[o] = IF o = new THEN old ELSE o
  BY <1>3, <1>4
<1>7. \A o, q \in Places' : f[o] = f[q] => o = q
  BY <1>3, <1>6
<1>8. \A o \in Places' : WorkerAt(o)' = WorkerAt(f[o])
  BY <1>2, <1>3, <1>4, <1>6
<1>9. \A o \in Places : \E q \in Places' : f[q] = o
  BY <1>2, <1>5, <1>6
<1> HIDE DEF f
<1> QED  BY <1>6, <1>7, <1>8, <1>9, OwnersRelocate

\* ... or takes one from it.
LEMMA Fetched ==
    ASSUME PoolInv, PoolInv', Owners, NEW t \in Threads, worker[t] = NoWorker,
           dropping'[t] = dropping[t],
           \A u \in Threads \ {t} : worker'[u] = worker[u] /\ dropping'[u] = dropping[u],
           NEW d \in 1..Len(docs), NEW i \in 1..Len(docs[d].idle),
           worker'[t] = docs[d].idle[i], worker'[t] \in Worker,
           ~(d \in 1..Len(docs') /\ i \in 1..Len(docs'[d].idle)),
           \A e, k : (e # d \/ k # i) =>
              (e \in 1..Len(docs') /\ k \in 1..Len(docs'[e].idle)
                 <=> e \in 1..Len(docs) /\ k \in 1..Len(docs[e].idle)),
           \A e \in 1..Len(docs') : \A k \in 1..Len(docs'[e].idle) :
              docs'[e].idle[k] = docs[e].idle[k],
           retired' = retired, proc' = proc
    PROVE  Owners'
<1>1. LocalTyped /\ LocalTyped'
  BY DEF PoolInv
<1> DEFINE new == ThreadPlace(t)
<1> DEFINE old == IdlePlace(d, i)
<1> DEFINE f == [o \in Places' |-> IF o = new THEN old ELSE o]
<1>2. old \in Places /\ old \notin Places' /\ WorkerAt(old) = worker'[t]
  BY <1>1, NextPlacesAre, PlacesAre, WorkersAtPlaces
<1>3. new \in Places' /\ new \notin Places /\ WorkerAt(new)' = worker'[t]
  <2>1. worker'[t] # NoWorker
    BY PoolAssumption DEF Worker, NoWorker
  <2> QED  BY <1>1, <2>1, NextPlacesAre, PlacesAre, WorkersAtPlaces
<1>4. ASSUME NEW o \in Places', o # new  PROVE o \in Places /\ WorkerAt(o)' = WorkerAt(o)
  <2>1. o # old
    BY <1>2
  <2>2. CASE \E e \in 1..Len(docs') : \E k \in 1..Len(docs'[e].idle) : o = IdlePlace(e, k)
    <3>1. PICK e, k : /\ e \in 1..Len(docs') /\ k \in 1..Len(docs'[e].idle)
                     /\ o = IdlePlace(e, k)
      BY <2>2
    <3>2. e # d \/ k # i
      BY <2>1, <3>1
    <3>3. e \in 1..Len(docs) /\ k \in 1..Len(docs[e].idle)
      BY <3>1, <3>2
    <3>4. o \in Places
      BY <1>1, <3>1, <3>3, PlacesAre
    <3>5. docs'[e].idle[k] = docs[e].idle[k]
      BY <3>1, <3>3
    <3> QED  BY <3>1, <3>4, <3>5, WorkersAtPlaces
  <2>3. CASE ~\E e \in 1..Len(docs') : \E k \in 1..Len(docs'[e].idle) : o = IdlePlace(e, k)
    <3>1. \A e, k : o # IdlePlace(e, k)
      BY <1>1, <2>3, NextPlacesAre
    <3> QED  BY <1>1, <1>4, <2>1, <3>1, OthersStayPut
  <2> QED  BY <2>2, <2>3
<1>5. ASSUME NEW o \in Places, o # old  PROVE o \in Places' /\ o # new
  <2>1. o # new
    BY <1>3
  <2>2. CASE \E e \in 1..Len(docs) : \E k \in 1..Len(docs[e].idle) : o = IdlePlace(e, k)
    <3>1. PICK e, k : /\ e \in 1..Len(docs) /\ k \in 1..Len(docs[e].idle)
                     /\ o = IdlePlace(e, k)
      BY <2>2
    <3>2. e # d \/ k # i
      BY <1>5, <3>1
    <3>3. e \in 1..Len(docs') /\ k \in 1..Len(docs'[e].idle)
      BY <3>1, <3>2
    <3> QED  BY <1>1, <2>1, <3>1, <3>3, NextPlacesAre
  <2>3. CASE ~\E e \in 1..Len(docs) : \E k \in 1..Len(docs[e].idle) : o = IdlePlace(e, k)
    <3>1. \A e, k : o # IdlePlace(e, k)
      BY <1>1, <2>3, PlacesAre
    <3> QED  BY <1>1, <1>5, <2>1, <3>1, OthersStayPut
  <2> QED  BY <2>2, <2>3
<1> HIDE DEF old, new
<1>6. /\ f \in [Places' -> Places]
      /\ \A o \in Places' : f[o] = IF o = new THEN old ELSE o
  BY <1>2, <1>4
<1>7. \A o, q \in Places' : f[o] = f[q] => o = q
  BY <1>2, <1>6
<1>8. \A o \in Places' : WorkerAt(o)' = WorkerAt(f[o])
  BY <1>2, <1>3, <1>4, <1>6
<1>9. \A o \in Places : \E q \in Places' : f[q] = o
  BY <1>3, <1>5, <1>6
<1> HIDE DEF f
<1> QED  BY <1>6, <1>7, <1>8, <1>9, OwnersRelocate

-----------------------------------------------------------------------------
\* Two unreaped workers of one pid stand in one place.
LEMMA NoTwins ==
    ASSUME PoolInv, Owners, NEW d \in 1..Len(docs),
           NEW i \in 1..Len(docs[d].idle), NEW k \in 1..Len(docs[d].idle),
           docs[d].idle[i] = docs[d].idle[k], ~docs[d].idle[i].reaped
    PROVE  i = k
<1>1. IdlePlace(d, i) \in Places /\ IdlePlace(d, k) \in Places
  BY PlacesAre DEF PoolInv
<1>2. Clash(WorkerAt(IdlePlace(d, i)), WorkerAt(IdlePlace(d, k)))
  BY WorkersAtPlaces DEF Clash
<1>3. IdlePlace(d, i) = IdlePlace(d, k)
  BY <1>1, <1>2 DEF Owners, NoClash
<1> QED  BY <1>3, PlacesApart

\* A close takes the whole slot over.
LEMMA SlotTaken ==
    ASSUME PoolInv, PoolInv', Owners, NEW t \in Threads, dropping[t] = {},
           \A u \in Threads : worker'[u] = worker[u],
           \A u \in Threads \ {t} : dropping'[u] = dropping[u],
           NEW d \in 1..Len(docs), Only(d, Hole),
           dropping'[t] = {docs[d].idle[i] : i \in 1..Len(docs[d].idle)},
           retired' = retired, proc' = proc
    PROVE  Owners'
<1>1. LocalTyped /\ LocalTyped' /\ DocsTyped
  BY DEF PoolInv
<1> DEFINE n == Len(docs[d].idle)
<1> DEFINE ws == {docs[d].idle[i] : i \in 1..n}
<1>2. /\ Len(docs') = Len(docs) /\ Len(docs'[d].idle) = 0
      /\ \A e \in 1..Len(docs) : e # d => docs'[e] = docs[e]
  BY DEF Only, Hole
<1>3. PICK g \in [ws -> 1..n] : \A w \in ws : docs[d].idle[g[w]] = w
  <2> DEFINE h == [w \in ws |-> CHOOSE i \in 1..n : docs[d].idle[i] = w]
  <2>1. ASSUME NEW w \in ws  PROVE h[w] \in 1..n /\ docs[d].idle[h[w]] = w
    <3>1. PICK i \in 1..n : docs[d].idle[i] = w
      OBVIOUS
    <3>2. h[w] = CHOOSE k \in 1..n : docs[d].idle[k] = w
      OBVIOUS
    <3> HIDE DEF h, n
    <3> QED  BY <3>1, <3>2
  <2> QED  BY <2>1
<1>4. ASSUME NEW o \in Places'
      PROVE  \/ \E w \in ws : o = ClosingPlace(t, w)
             \/ /\ o \in Places /\ WorkerAt(o)' = WorkerAt(o)
                /\ \A w : o # ClosingPlace(t, w)
                /\ \A i : o # IdlePlace(d, i)
  <2>1. CASE \E w : o = ClosingPlace(t, w)
    BY <1>1, <2>1, NextPlacesAre, PlacesApart
  <2>2. CASE \E e, i : o = IdlePlace(e, i)
    <3>1. PICK e, i : o = IdlePlace(e, i)
      BY <2>2
    <3>2. e \in 1..Len(docs') /\ i \in 1..Len(docs'[e].idle)
      BY <1>1, <3>1, NextPlacesAre
    <3>3. e # d /\ e \in 1..Len(docs) /\ docs'[e] = docs[e]
      BY <1>2, <3>2
    <3>4. o \in Places /\ WorkerAt(o)' = WorkerAt(o)
      BY <1>1, <3>1, <3>2, <3>3, PlacesAre, WorkersAtPlaces
    <3> QED  BY <3>1, <3>3, <3>4, PlacesApart
  <2>3. CASE ~(\E w : o = ClosingPlace(t, w)) /\ ~(\E e, i : o = IdlePlace(e, i))
    BY SMTT(30), <1>1, <2>3, NextPlacesAre, PlacesAre, PlacesApart, WorkersAtPlaces
  <2> QED  BY <2>1, <2>2, <2>3
<1>5. \A w \in ws : /\ ClosingPlace(t, w) \in Places' /\ ClosingPlace(t, w) \notin Places
                    /\ WorkerAt(ClosingPlace(t, w))' = w
  BY <1>1, NextPlacesAre, PlacesAre, WorkersAtPlaces
<1>6. \A i \in 1..n : /\ IdlePlace(d, i) \in Places
                      /\ WorkerAt(IdlePlace(d, i)) = docs[d].idle[i]
  BY <1>1, PlacesAre, WorkersAtPlaces
<1>7. ASSUME NEW o \in Places, \A i : o # IdlePlace(d, i)
      PROVE  o \in Places' /\ \A w : o # ClosingPlace(t, w)
  <2>1. \A w : o # ClosingPlace(t, w)
    BY <1>1, PlacesAre, PlacesApart
  <2>2. CASE \E e, i : o = IdlePlace(e, i)
    <3>1. PICK e, i : o = IdlePlace(e, i)
      BY <2>2
    <3>2. e \in 1..Len(docs) /\ i \in 1..Len(docs[e].idle) /\ e # d
      BY <1>1, <1>7, <3>1, PlacesAre
    <3>3. e \in 1..Len(docs') /\ docs'[e] = docs[e]
      BY <1>2, <3>2
    <3> QED  BY <1>1, <2>1, <3>1, <3>2, <3>3, NextPlacesAre
  <2>3. CASE ~\E e, i : o = IdlePlace(e, i)
    BY <1>1, <2>1, <2>3, NextPlacesAre, PlacesAre, PlacesApart
  <2> QED  BY <2>1, <2>2, <2>3
<1> DEFINE f == [o \in Places' |-> IF \E w \in ws : o = ClosingPlace(t, w)
                                   THEN IdlePlace(d, g[WorkerAt(o)']) ELSE o]
<1>8. \A w \in ws : f[ClosingPlace(t, w)] = IdlePlace(d, g[w]) /\ g[w] \in 1..n
  BY <1>3, <1>5
<1>9. \A o \in Places' : ~(\E w \in ws : o = ClosingPlace(t, w)) => f[o] = o
  OBVIOUS
<1>10. f \in [Places' -> Places]
  BY <1>4, <1>5, <1>6, <1>3
<1> HIDE DEF f, ws
<1>11. ASSUME NEW o \in Places', NEW q \in Places', f[o] = f[q]  PROVE o = q
  <2>1. CASE \E w \in ws : o = ClosingPlace(t, w)
    <3>1. PICK w \in ws : o = ClosingPlace(t, w)
      BY <2>1
    <3>2. f[q] = IdlePlace(d, g[w])
      BY <1>8, <1>11, <3>1
    <3>3. \E v \in ws : q = ClosingPlace(t, v)
      BY <1>4, <1>9, <3>2
    <3>4. PICK v \in ws : q = ClosingPlace(t, v)
      BY <3>3
    <3>5. g[w] = g[v]
      BY <1>8, <3>2, <3>4, PlacesApart
    <3>6. w = v
      BY <1>3, <3>5
    <3> QED  BY <3>1, <3>4, <3>6
  <2>2. CASE ~\E w \in ws : o = ClosingPlace(t, w)
    <3>1. f[q] = o /\ \A i : o # IdlePlace(d, i)
      BY <1>4, <1>9, <1>11, <2>2
    <3>2. ~\E w \in ws : q = ClosingPlace(t, w)
      BY <1>8, <3>1
    <3> QED  BY <1>9, <3>1, <3>2
  <2> QED  BY <2>1, <2>2
<1>12. ASSUME NEW o \in Places'  PROVE WorkerAt(o)' = WorkerAt(f[o])
  <2>1. CASE \E w \in ws : o = ClosingPlace(t, w)
    <3>1. PICK w \in ws : o = ClosingPlace(t, w)
      BY <2>1
    <3>2. WorkerAt(o)' = w /\ f[o] = IdlePlace(d, g[w]) /\ g[w] \in 1..n
      BY <1>5, <1>8, <3>1
    <3> QED  BY <1>3, <1>6, <3>2
  <2>2. CASE ~\E w \in ws : o = ClosingPlace(t, w)
    BY <1>4, <1>9, <2>2
  <2> QED  BY <2>1, <2>2
<1>13. ASSUME NEW o \in Places, ~WorkerAt(o).reaped
       PROVE  \E q \in Places' : f[q] = o
  <2>1. CASE \E i : o = IdlePlace(d, i)
    <3>1. PICK i : o = IdlePlace(d, i)
      BY <2>1
    <3>2. i \in 1..n /\ ~docs[d].idle[i].reaped
      BY <1>1, <1>13, <3>1, PlacesAre, WorkersAtPlaces
    <3>3. PICK w \in ws : w = docs[d].idle[i]
      BY <3>2 DEF ws
    <3>4. docs[d].idle[g[w]] = docs[d].idle[i] /\ g[w] \in 1..n
      BY <1>3, <3>3
    <3>5. g[w] = i
      BY <3>2, <3>4, NoTwins
    <3> QED  BY <1>5, <1>8, <3>1, <3>5
  <2>2. CASE ~\E i : o = IdlePlace(d, i)
    BY <1>7, <1>9, <2>2
  <2> QED  BY <2>1, <2>2
<1> QED  BY <1>10, <1>11, <1>12, <1>13, OwnersRelocate

\* The reaper takes the oldest k out of a pool.
LEMMA OldestTaken ==
    ASSUME PoolInv, PoolInv', Owners, retired = {},
           \A u \in Threads : worker'[u] = worker[u] /\ dropping'[u] = dropping[u],
           NEW d \in 1..Len(docs), NEW k \in 1..Len(docs[d].idle),
           retired' = {docs[d].idle[i] : i \in 1..k},
           Len(docs') = Len(docs), \A e \in 1..Len(docs) : e # d => docs'[e] = docs[e],
           Len(docs'[d].idle) = Len(docs[d].idle) - k,
           \A i \in 1..Len(docs'[d].idle) : docs'[d].idle[i] = docs[d].idle[i + k],
           proc' = proc
    PROVE  Owners'
<1>1. LocalTyped /\ LocalTyped' /\ DocsTyped
  BY DEF PoolInv
<1> DEFINE n == Len(docs[d].idle)
<1> DEFINE ws == {docs[d].idle[i] : i \in 1..k}
<1>2. n \in Nat /\ k \in 1..n /\ Len(docs'[d].idle) = n - k /\ d \in 1..Len(docs')
  BY <1>1, HeldAt
<1>3. PICK g \in [ws -> 1..k] : \A w \in ws : docs[d].idle[g[w]] = w
  <2> DEFINE h == [w \in ws |-> CHOOSE i \in 1..k : docs[d].idle[i] = w]
  <2>1. \A w \in ws : h[w] \in 1..k /\ docs[d].idle[h[w]] = w
    OBVIOUS
  <2> QED  BY <2>1
<1>4. \A i : IdlePlace(d, i)[3] = i
  BY DEF IdlePlace
\* The three kinds of place: newly retired, further down the same pool, elsewhere.
<1> DEFINE New(o) == \E w \in ws : o = RetiredPlace(w)
<1> DEFINE Stays(o) == \E i \in 1..n - k : o = IdlePlace(d, i)
<1>5. \A w \in ws : /\ RetiredPlace(w) \in Places' /\ WorkerAt(RetiredPlace(w))' = w
                    /\ g[w] \in 1..k
  BY <1>1, <1>3, NextPlacesAre, WorkersAtPlaces
<1>6. \A i \in 1..n - k : /\ IdlePlace(d, i) \in Places' /\ i + k \in 1..n
                          /\ WorkerAt(IdlePlace(d, i))' = docs[d].idle[i + k]
  <2> SUFFICES ASSUME NEW i \in 1..n - k
               PROVE  /\ IdlePlace(d, i) \in Places' /\ i + k \in 1..n
                      /\ WorkerAt(IdlePlace(d, i))' = docs[d].idle[i + k]
    OBVIOUS
  <2>1. i \in 1..Len(docs'[d].idle) /\ i + k \in 1..n
    BY <1>2
  <2>2. IdlePlace(d, i) \in Places'
    BY <1>1, <1>2, <2>1, NextPlacesAre
  <2>3. WorkerAt(IdlePlace(d, i))' = docs'[d].idle[i] /\ docs'[d].idle[i] = docs[d].idle[i + k]
    BY <2>1, WorkersAtPlaces
  <2> QED  BY <2>1, <2>2, <2>3
<1>7. \A i \in 1..n : /\ IdlePlace(d, i) \in Places
                      /\ WorkerAt(IdlePlace(d, i)) = docs[d].idle[i]
  BY SMTT(30), <1>1, PlacesAre, WorkersAtPlaces
<1>8. ASSUME NEW o \in Places', ~New(o), ~Stays(o)
      PROVE  o \in Places /\ WorkerAt(o)' = WorkerAt(o) /\ \A i : o # IdlePlace(d, i)
  <2>1. \A i : o # IdlePlace(d, i)
    BY <1>1, <1>2, <1>8, NextPlacesAre
  <2>2. \A w : o # RetiredPlace(w)
    BY <1>1, <1>8, NextPlacesAre
  <2>3. CASE \E e, i : o = IdlePlace(e, i)
    <3>1. PICK e, i : o = IdlePlace(e, i)
      BY <2>3
    <3>2. e \in 1..Len(docs) /\ e # d /\ docs'[e] = docs[e] /\ i \in 1..Len(docs[e].idle)
      BY <1>1, <2>1, <3>1, NextPlacesAre
    <3>3. o \in Places
      BY <1>1, <3>1, <3>2, PlacesAre
    <3>4. WorkerAt(o) = docs[e].idle[i] /\ WorkerAt(o)' = docs'[e].idle[i]
      BY <3>1, WorkersAtPlaces
    <3> QED  BY <2>1, <3>2, <3>3, <3>4
  <2>4. CASE ~\E e, i : o = IdlePlace(e, i)
    <3>1. CASE \E u \in Threads : o = ThreadPlace(u)
      BY SMTT(30), <1>1, <2>1, <3>1, NextPlacesAre, PlacesAre, WorkersAtPlaces
    <3>2. CASE \E u \in Threads : \E w : o = ClosingPlace(u, w)
      BY <1>1, <2>1, <3>2, NextPlacesAre, PlacesAre, WorkersAtPlaces
    <3> QED  BY <1>1, <2>2, <2>4, <3>1, <3>2, NextPlacesAre
  <2> QED  BY <2>3, <2>4
<1>9. ASSUME NEW o \in Places, \A i : o # IdlePlace(d, i)
      PROVE  o \in Places' /\ ~New(o) /\ ~Stays(o)
  <2>1. \A w : o # RetiredPlace(w)
    BY <1>1, PlacesAre
  <2>2. CASE \E e, i : o = IdlePlace(e, i)
    <3>1. PICK e, i : o = IdlePlace(e, i)
      BY <2>2
    <3>2. e \in 1..Len(docs') /\ docs'[e] = docs[e] /\ i \in 1..Len(docs[e].idle)
      BY <1>1, <1>9, <3>1, PlacesAre
    <3> QED  BY <1>1, <1>9, <2>1, <3>1, <3>2, NextPlacesAre
  <2>3. CASE ~\E e, i : o = IdlePlace(e, i)
    <3>1. ~New(o) /\ ~Stays(o)
      BY <2>1, <2>3
    <3>2. CASE \E u \in Threads : o = ThreadPlace(u)
      BY <1>1, <3>1, <3>2, NextPlacesAre, PlacesAre
    <3>3. CASE \E u \in Threads : \E w : o = ClosingPlace(u, w)
      BY <1>1, <3>1, <3>3, NextPlacesAre, PlacesAre
    <3> QED  BY <1>1, <2>1, <2>3, <3>2, <3>3, PlacesAre
  <2> QED  BY <2>2, <2>3
<1> DEFINE f == [o \in Places' |->
                   IF New(o) THEN IdlePlace(d, g[WorkerAt(o)'])
                   ELSE IF Stays(o) THEN IdlePlace(d, o[3] + k) ELSE o]
<1>10. \A w \in ws : f[RetiredPlace(w)] = IdlePlace(d, g[w])
  BY <1>5
<1>11. \A i \in 1..n - k : f[IdlePlace(d, i)] = IdlePlace(d, i + k)
  <2> SUFFICES ASSUME NEW i \in 1..n - k
               PROVE  f[IdlePlace(d, i)] = IdlePlace(d, i + k)
    OBVIOUS
  <2>1. ~New(IdlePlace(d, i)) /\ Stays(IdlePlace(d, i))
    BY PlacesApart
  <2>2. IdlePlace(d, i) \in Places' /\ IdlePlace(d, i)[3] = i
    BY <1>4, <1>6
  <2> HIDE DEF New, Stays
  <2> QED  BY <2>1, <2>2
<1>12. \A o \in Places' : ~New(o) /\ ~Stays(o) => f[o] = o
  OBVIOUS
<1>13. ASSUME NEW o \in Places'
       PROVE  \/ \E w \in ws : /\ o = RetiredPlace(w) /\ f[o] = IdlePlace(d, g[w])
                               /\ WorkerAt(o)' = w
              \/ \E i \in 1..n - k : /\ o = IdlePlace(d, i) /\ f[o] = IdlePlace(d, i + k)
                                     /\ WorkerAt(o)' = docs[d].idle[i + k]
              \/ /\ f[o] = o /\ o \in Places /\ WorkerAt(o)' = WorkerAt(o)
                 /\ \A i : o # IdlePlace(d, i)
  <2> HIDE DEF f, ws
  <2>1. CASE New(o)
    BY <1>5, <1>10, <2>1
  <2>2. CASE Stays(o)
    BY <1>6, <1>11, <2>2
  <2>3. CASE ~New(o) /\ ~Stays(o)
    BY <1>8, <1>12, <2>3
  <2> QED  BY <2>1, <2>2, <2>3
<1>14. f \in [Places' -> Places]
  <2>1. ASSUME NEW o \in Places'  PROVE f[o] \in Places
    <3> HIDE DEF f, ws
    <3>1. \A w \in ws : g[w] \in 1..n
      BY <1>2, <1>5
    <3> QED  BY <1>6, <1>7, <1>13, <3>1
  <2>2. f = [o \in Places' |-> f[o]]
    OBVIOUS
  <2> HIDE DEF f
  <2> QED  BY <2>1, <2>2
<1> HIDE DEF f, ws, New, Stays
<1>15. ASSUME NEW o \in Places', NEW q \in Places', f[o] = f[q]  PROVE o = q
  <2>1. CASE \E w \in ws : o = RetiredPlace(w) /\ f[o] = IdlePlace(d, g[w])
    <3>1. PICK w \in ws : o = RetiredPlace(w) /\ f[o] = IdlePlace(d, g[w])
      BY <2>1
    <3>2. g[w] \in 1..k
      BY <1>5
    <3>3. ~\E i \in 1..n - k : f[q] = IdlePlace(d, i + k)
      BY <1>2, <1>15, <3>1, <3>2, PlacesApart
    <3>4. \E v \in ws : q = RetiredPlace(v) /\ f[q] = IdlePlace(d, g[v])
      <4>1. f[q] = IdlePlace(d, g[w])
        BY <1>15, <3>1
      <4>2. ~(f[q] = q /\ \A i : q # IdlePlace(d, i))
        BY <4>1
      <4> QED  BY <1>13, <3>3, <4>2
    <3>5. PICK v \in ws : q = RetiredPlace(v) /\ f[q] = IdlePlace(d, g[v])
      BY <3>4
    <3>6. g[v] = g[w]
      BY <1>15, <3>1, <3>5, PlacesApart
    <3>7. v = w
      BY <1>3, <3>6
    <3> QED  BY <3>1, <3>5, <3>7
  <2>2. CASE \E i \in 1..n - k : o = IdlePlace(d, i) /\ f[o] = IdlePlace(d, i + k)
    <3>1. PICK i \in 1..n - k : o = IdlePlace(d, i) /\ f[o] = IdlePlace(d, i + k)
      BY <2>2
    <3>2. ~\E w \in ws : f[q] = IdlePlace(d, g[w])
      BY <1>2, <1>5, <1>15, <3>1, PlacesApart
    <3>3. \E j \in 1..n - k : q = IdlePlace(d, j) /\ f[q] = IdlePlace(d, j + k)
      BY <1>13, <1>15, <3>1, <3>2
    <3>4. PICK j \in 1..n - k : q = IdlePlace(d, j) /\ f[q] = IdlePlace(d, j + k)
      BY <3>3
    <3>5. i + k = j + k
      BY <1>15, <3>1, <3>4, PlacesApart
    <3>6. i = j
      BY <1>2, <3>5
    <3> QED  BY <3>1, <3>4, <3>6
  <2>3. CASE f[o] = o /\ \A i : o # IdlePlace(d, i)
    BY ZenonT(30), <1>13, <1>15, <2>3
  <2> QED  BY <1>13, <2>1, <2>2, <2>3
<1>16. ASSUME NEW o \in Places'  PROVE WorkerAt(o)' = WorkerAt(f[o])
  <2>1. \A w \in ws : g[w] \in 1..n /\ docs[d].idle[g[w]] = w
    BY <1>2, <1>3, <1>5
  <2>2. CASE \E w \in ws : f[o] = IdlePlace(d, g[w]) /\ WorkerAt(o)' = w
    BY <1>7, <2>1, <2>2
  <2>3. CASE \E i \in 1..n - k : f[o] = IdlePlace(d, i + k) /\ WorkerAt(o)' = docs[d].idle[i + k]
    BY <1>6, <1>7, <2>3
  <2> QED  BY <1>13, <2>2, <2>3
<1>17. ASSUME NEW o \in Places, ~WorkerAt(o).reaped
       PROVE  \E q \in Places' : f[q] = o
  <2>1. CASE \E i : o = IdlePlace(d, i)
    <3>1. PICK i : o = IdlePlace(d, i)
      BY <2>1
    <3>2. i \in 1..n /\ ~docs[d].idle[i].reaped
      BY <1>1, <1>17, <3>1, PlacesAre, WorkersAtPlaces
    <3>3. CASE i \in 1..k
      <4>1. PICK w \in ws : w = docs[d].idle[i]
        BY <3>3 DEF ws
      <4>2. docs[d].idle[g[w]] = docs[d].idle[i] /\ g[w] \in 1..n
        BY <1>2, <1>3, <1>5, <4>1
      <4>3. g[w] = i
        BY <3>2, <4>2, NoTwins
      <4> QED  BY <1>5, <1>10, <3>1, <4>3
    <3>4. CASE i \notin 1..k
      <4>1. i - k \in 1..n - k /\ (i - k) + k = i
        BY <1>2, <3>2, <3>4
      <4> QED  BY <1>6, <1>11, <3>1, <4>1
    <3> QED  BY <3>3, <3>4
  <2>2. CASE ~\E i : o = IdlePlace(d, i)
    BY <1>9, <1>12, <2>2
  <2> QED  BY <2>1, <2>2
<1> QED  BY <1>14, <1>15, <1>16, <1>17, OwnersRelocate

\* The workers a close or the reaper has taken are killed and waited for.
LEMMA TakenAreReaped ==
    ASSUME PoolInv, PoolInv', Owners, NEW ws, NEW gone \in SUBSET Places,
           \A o \in gone : WorkerAt(o) \in ws, \A w \in ws : \E o \in gone : WorkerAt(o) = w,
           Places' = Places \ gone, \A o \in Places' : WorkerAt(o)' = WorkerAt(o),
           proc' = Reap(proc, ws)
    PROVE  Owners'
<1>1. \A p \in Pids : proc'[p] = IF \E w \in ws : w.pid = p /\ ~w.reaped
                                 THEN IF Reissue THEN "free" ELSE "gone"
                                 ELSE proc[p]
  BY DEF Reap
<1>2. \A p \in Pids : (\E o \in gone : WorkerAt(o).pid = p /\ ~WorkerAt(o).reaped)
                          <=> (\E w \in ws : w.pid = p /\ ~w.reaped)
  OBVIOUS
<1>3. \A p \in Pids :
          IF \E o \in gone : WorkerAt(o).pid = p /\ ~WorkerAt(o).reaped
          THEN proc'[p] = IF Reissue THEN "free" ELSE "gone"
          ELSE proc'[p] = proc[p] \/ (proc[p] = "alive" /\ proc'[p] = "dead")
  BY <1>1, <1>2
<1>4. \A o \in Places' : WorkerAt(o)' =
          IF o \in gone THEN [WorkerAt(o) EXCEPT !.reaped = TRUE] ELSE WorkerAt(o)
  OBVIOUS
<1> QED  BY <1>3, <1>4, OwnersInPlace

-----------------------------------------------------------------------------
\* What the steps of a thread do with workers.
SameIdle ==
    /\ Len(docs') = Len(docs)
    /\ \A d \in 1..Len(docs) : docs'[d].idle = docs[d].idle

LEMMA IdleOfOne ==
    ASSUME DocsTyped, NEW d \in 1..Len(docs), NEW h, Only(d, h), h.idle = docs[d].idle
    PROVE  SameIdle
  BY DEF Only, SameIdle

LEMMA TablesKeepIdle ==
    ASSUME PoolInv, NEW t \in Threads,
           CheckoutGrow(t) \/ GiveBack(t) \/ Diagnose(t) \/ Account(t)
             \/ (Publish(t) /\ IsOpen(DocOf(t)))
    PROVE  SameIdle
<1>1. /\ \A d \in 1..Len(docs) : docs[d] \in Held
      /\ pc[t] \in Holding => worker[t] \in Worker
      /\ DocsTyped
  BY HeldAt DEF PoolInv, Row, WorkerRow
<1>2. PICK d : d = DocOf(t)
  OBVIOUS
<1>3. CASE docs' = docs
  BY <1>3 DEF SameIdle
<1>4. CASE docs' # docs
  <2>1. CASE CheckoutGrow(t)
    <3>1. d \in 1..Len(docs) /\ Only(d, [docs[d] EXCEPT !.spawned = @ + 1])
      BY <1>1, <1>2, <2>1, CheckoutGrowDocs DEF IsOpen
    <3>2. [docs[d] EXCEPT !.spawned = @ + 1].idle = docs[d].idle
      BY <1>1, <3>1 DEF Held
    <3> QED  BY <1>1, <3>1, <3>2, IdleOfOne
  <2>2. CASE GiveBack(t)
    <3> DEFINE h == [docs[d] EXCEPT !.spawned = IF @ = 0 THEN 0 ELSE @ - 1]
    <3>1. IsOpen(d) /\ d \in 1..Len(docs)
      BY <1>2, <1>4, <2>2 DEF GiveBack, GivenBack, IsOpen
    <3>2. Only(d, h)
      BY <1>1, <1>2, <2>2, <3>1, GiveBackDocs
    <3>3. h.idle = docs[d].idle
      BY <1>1, <3>1 DEF Held
    <3> QED  BY <1>1, <3>1, <3>2, <3>3, IdleOfOne
  <2>3. CASE Diagnose(t)
    <3> DEFINE h == [docs[d] EXCEPT !.outlived = TRUE]
    <3>1. d \in 1..Len(docs) /\ Only(d, h)
      BY <1>1, <1>2, <1>4, <2>3, DiagnoseDocs DEF IsOpen
    <3>2. h.idle = docs[d].idle
      BY <1>1, <3>1 DEF Held
    <3> QED  BY <1>1, <3>1, <3>2, IdleOfOne
  <2>4. CASE Account(t)
    <3> DEFINE h == [docs[d] EXCEPT !.spawned = IF @ = 0 THEN 0 ELSE @ - 1,
                                    !.senders = @ \ {worker[t].pid}]
    <3>1. IsOpen(d) /\ d \in 1..Len(docs)
      BY <1>2, <1>4, <2>4 DEF Account, IsOpen
    <3>2. Only(d, h)
      BY <1>1, <1>2, <2>4, <3>1, AccountDocs
    <3>3. h.idle = docs[d].idle
      BY <1>1, <3>1 DEF Held
    <3> QED  BY <1>1, <3>1, <3>2, <3>3, IdleOfOne
  <2>5. CASE Publish(t) /\ IsOpen(DocOf(t))
    <3> DEFINE h == [docs[d] EXCEPT !.senders = @ \cup {worker[t].pid}]
    <3>1. IsOpen(d) /\ d \in 1..Len(docs) /\ worker[t] \in Worker
      BY <1>1, <1>2, <2>5 DEF Publish, IsOpen, Holding
    <3>2. Only(d, h)
      BY <1>1, <1>2, <2>5, <3>1, PublishDocs
    <3>3. h.idle = docs[d].idle
      BY <1>1, <3>1 DEF Held
    <3> QED  BY <1>1, <3>1, <3>2, <3>3, IdleOfOne
  <2> QED  BY <2>1, <2>2, <2>3, <2>4, <2>5
<1> QED  BY <1>3, <1>4

LEMMA DeadStayDead ==
    ASSUME WorldTyped, NEW w, w.reaped
    PROVE  Reap(proc, {w}) = proc
<1>1. \A q \in Pids : ~\E v \in {w} : v.pid = q /\ ~v.reaped
  OBVIOUS
<1>2. Reap(proc, {w}) = [q \in Pids |-> proc[q]]
  BY <1>1 DEF Reap
<1>3. proc = [q \in Pids |-> proc[q]]
  BY DEF WorldTyped
<1> QED  BY <1>2, <1>3

\* A thread that answers has reaped what it had, or had nothing.
LEMMA RestLetsGo ==
    ASSUME PoolInv, PoolInv', Owners, NEW t \in Threads, Alone(t), Rest(t),
           pc[t] # "kill", SameIdle, retired' = retired,
           proc' = Reap(proc, {worker[t]}) \/ (proc' = proc /\ worker[t].reaped)
    PROVE  Owners'
<1>1. worker'[t] = NoWorker /\ dropping'[t] = {} /\ dropping[t] = {}
  BY RestFrees DEF PoolInv, Row, WorkerRow
<1>2. \A u \in Threads \ {t} : worker'[u] = worker[u] /\ dropping'[u] = dropping[u]
  BY DEF Alone
<1>3. proc' = Reap(proc, {worker[t]})
  BY DeadStayDead DEF PoolInv
<1> QED  BY <1>1, <1>2, <1>3, LetGo DEF SameIdle

LEMMA HandsUnmoved ==
    ASSUME PoolInv, PoolInv', Owners, NEW t \in Threads, Alone(t),
           worker'[t] = worker[t], dropping'[t] = dropping[t],
           SameIdle, retired' = retired, proc' = proc
    PROVE  Owners'
<1>1. \A u \in Threads : worker'[u] = worker[u] /\ dropping'[u] = dropping[u]
  BY DEF Alone
<1> QED  BY <1>1, QuietOwners DEF SameIdle

LEMMA ThreadsKeepOwners ==
    ASSUME PoolInv, Owners, SlotsAndCorpses, NEW t \in Threads,
           ThreadStep(t) \/ WorkerAnswers(t) \/ WorkerOverruns(t)
    PROVE  Owners'
<1>1. /\ PoolInv' /\ Alone(t) /\ LocalTyped /\ LocalTyped' /\ DocsTyped
      /\ Row(t)
  BY ThreadsKeepPoolInv, ThreadLocals DEF PoolInv
<1>2. /\ pc[t] \in Holding => worker[t] \in Worker
      /\ pc[t] \notin Holding \cup {"giveBack"} => worker[t] = NoWorker /\ worker[t].reaped
      /\ pc[t] # "kill" => dropping[t] = {}
  BY <1>1 DEF Row, WorkerRow, NoWorker
<1>3. \A u \in Threads \ {t} : worker'[u] = worker[u] /\ dropping'[u] = dropping[u]
  BY <1>1 DEF Alone
<1>4. docs' = docs => SameIdle
  BY DEF SameIdle
<1> DEFINE Quiet == UNCHANGED <<worker, dropping, retired, proc>> /\ SameIdle
<1>5. Quiet => Owners'
  BY <1>1, HandsUnmoved
<1> DEFINE Freed == /\ Rest(t) /\ pc[t] # "kill" /\ SameIdle /\ retired' = retired
                    /\ proc' = Reap(proc, {worker[t]}) \/ (proc' = proc /\ worker[t].reaped)
<1>6. Freed => Owners'
  BY <1>1, RestLetsGo
<1>7. \A what : Reply(t, what) \/ ReplyAndNotify(t, what) => Rest(t)
  BY DEF Reply, ReplyAndNotify
<1>8. CASE Recv(t) \/ CheckoutWait(t) \/ Watch(t) \/ KeepWorker(t) \/ CondemnWorker(t)
           \/ CloseWait(t) \/ WorkerAnswers(t)
  BY <1>4, <1>5, <1>8 DEF Recv, CheckoutWait, Watch, KeepWorker, CondemnWorker, CloseWait,
       WorkerAnswers, Exchanged, local
<1>9. CASE EndWatch(t) \/ EndUnlock(t) \/ EndOpen(t) \/ EndServe(t)
  BY <1>4, <1>5, <1>9 DEF EndUnlock, EndOpen, EndServe, EndWatch, DropWatch, Take
<1>10. CASE CheckoutGrow(t) \/ Diagnose(t)
  BY <1>5, <1>10, TablesKeepIdle DEF CheckoutGrow, Diagnose, local
<1>11. CASE CheckoutRefused(t)
  BY <1>2, <1>4, <1>6, <1>7, <1>11 DEF CheckoutRefused, Holding
<1>12. CASE SpawnFails(t)
  BY <1>2, <1>4, <1>5, <1>6, <1>7, <1>12 DEF SpawnFails, Holding, local
<1>13. CASE GiveBack(t)
  <2>1. SameIdle /\ pc[t] = "giveBack" /\ retired' = retired /\ proc' = proc
    BY <1>13, TablesKeepIdle DEF GiveBack
  <2>2. CASE worker[t] = NoWorker
    BY <1>6, <1>7, <1>13, <2>1, <2>2 DEF GiveBack, NoWorker
  <2>3. CASE worker[t] # NoWorker
    BY <1>5, <1>13, <2>1, <2>3 DEF GiveBack, local
  <2> QED  BY <2>2, <2>3
<1>14. CASE Forsake(t)
  BY <1>4, <1>6, <1>7, <1>14 DEF Forsake
<1>15. CASE Publish(t)
  <2>1. CASE IsOpen(DocOf(t))
    <3>1. SameIdle
      BY <1>15, <2>1, TablesKeepIdle
    <3> QED  BY <1>5, <1>15, <2>1, <3>1 DEF Publish
  <2>2. CASE ~IsOpen(DocOf(t))
    BY <1>4, <1>6, <1>7, <1>15, <2>2 DEF Publish
  <2> QED  BY <2>1, <2>2
<1>16. CASE Account(t)
  <2>1. SameIdle /\ pc[t] = "account" /\ retired' = retired /\ proc' = proc /\ worker[t].reaped
    BY <1>16, TablesKeepIdle DEF Account, SlotsAndCorpses
  <2>2. CASE verdict[t] = "retry"
    <3>1. worker'[t] = NoWorker /\ dropping'[t] = {} /\ dropping[t] = {}
      BY <1>1, <1>2, <1>16, <2>1, <2>2 DEF Account, LocalTyped
    <3>2. proc' = Reap(proc, {worker[t]})
      BY <2>1, DeadStayDead DEF PoolInv
    <3> QED  BY <1>1, <1>3, <2>1, <3>1, <3>2, LetGo DEF SameIdle
  <2>3. CASE verdict[t] # "retry"
    BY <1>6, <1>7, <1>16, <2>1, <2>3 DEF Account
  <2> QED  BY <2>2, <2>3
<1>17. CASE Sweep(t)
  <2>1. docs' = docs /\ proc' = proc /\ retired' = retired /\ pc[t] = "sweep"
    BY <1>17 DEF Sweep
  <2>2. CASE {d \in 1..Len(docs) : docs[d].open} = {}
    BY <1>2, <1>4, <1>6, <1>7, <1>17, <2>1, <2>2 DEF Sweep, Holding
  <2>3. CASE {d \in 1..Len(docs) : docs[d].open} # {}
    BY <1>4, <1>5, <1>17, <2>1, <2>3 DEF Sweep
  <2> QED  BY <2>2, <2>3
<1>18. CASE CloseRefused(t)
  <2>1. docs' = docs /\ proc' = proc /\ retired' = retired /\ pc[t] = "close"
    BY <1>18 DEF CloseRefused
  <2>2. CASE Kind(t) = "close" \/ todo[t] = {Target(t)}
    BY <1>2, <1>4, <1>6, <1>7, <1>18, <2>1, <2>2 DEF CloseRefused, Holding
  <2>3. CASE ~(Kind(t) = "close" \/ todo[t] = {Target(t)})
    BY <1>4, <1>5, <1>18, <2>1, <2>3 DEF CloseRefused
  <2> QED  BY <2>2, <2>3
<1>19. CASE Spawn(t)
  <2>1. pc[t] = "spawn" /\ worker[t] = NoWorker
    BY <1>2, <1>19 DEF Spawn, Holding
  <2>2. PICK p \in Pids :
            /\ proc[p] = "free" /\ proc' = [proc EXCEPT ![p] = "alive"]
            /\ worker' = [worker EXCEPT ![t] = [pid |-> p, reaped |-> FALSE]]
    BY <1>19 DEF Spawn
  <2>3. worker'[t] = [pid |-> p, reaped |-> FALSE]
    BY <1>1, <2>2 DEF LocalTyped
  <2>4. dropping'[t] = dropping[t] /\ docs' = docs /\ retired' = retired
    BY <1>19 DEF Spawn
  <2> QED  BY <1>1, <1>3, <2>1, <2>2, <2>3, <2>4, Arrival
<1>20. CASE WorkerOverruns(t) \/ DropWorker(t)
  <2>1. worker[t] \in Worker
    BY <1>2, <1>20 DEF WorkerOverruns, DropWorker, Holding
  <2>2. /\ worker'[t] = [worker[t] EXCEPT !.reaped = TRUE] /\ proc' = Reap(proc, {worker[t]})
        /\ dropping'[t] = dropping[t] /\ docs' = docs /\ retired' = retired
    BY <1>1, <1>20 DEF WorkerOverruns, DropWorker, LocalTyped
  <2> QED  BY <1>1, <1>3, <2>1, <2>2, ReapedInHand
<1>21. CASE WorkerLost(t)
  <2>1. pc[t] = "inside" /\ docs' = docs /\ retired' = retired /\ dropping' = dropping
    BY <1>21 DEF WorkerLost, Exchanged
  <2>2. CASE UNCHANGED <<proc, worker>>
    BY <1>4, <1>5, <2>1, <2>2
  <2>3. CASE /\ proc' = Reap(proc, {worker[t]})
             /\ worker' = [worker EXCEPT ![t].reaped = TRUE]
    <3>1. worker[t] \in Worker /\ worker'[t] = [worker[t] EXCEPT !.reaped = TRUE]
      BY <1>1, <1>2, <2>1, <2>3 DEF Holding, LocalTyped
    <3> QED  BY <1>1, <1>3, <2>1, <2>3, <3>1, ReapedInHand
  <2> QED  BY <1>21, <2>2, <2>3 DEF WorkerLost
<1>22. CASE CheckoutIdle(t)
  <2>1. PICK d : d = DocOf(t)
    OBVIOUS
  <2> DEFINE n == Len(docs[d].idle)
  <2> DEFINE s == SubSeq(docs[d].idle, 1, n - 1)
  <2>2. /\ IsOpen(d) /\ n > 0 /\ Len(s) = n - 1
        /\ \A i \in 1..Len(s) : s[i] = docs[d].idle[i]
        /\ Only(d, [docs[d] EXCEPT !.idle = s])
    BY <1>1, <1>22, <2>1, CheckoutIdleDocs
  <2>3. d \in 1..Len(docs) /\ docs[d] \in Held /\ n \in Nat /\ n \in 1..n
        /\ docs[d].idle[n] \in Worker
    BY <1>1, <2>2, HeldAt DEF IsOpen
  <2>4. [docs[d] EXCEPT !.idle = s].idle = s
    BY <2>3 DEF Held
  <2>5. /\ Len(docs') = Len(docs) /\ Len(docs'[d].idle) = n - 1
        /\ \A i \in 1..n - 1 : docs'[d].idle[i] = docs[d].idle[i]
        /\ \A e \in 1..Len(docs) : e # d => docs'[e] = docs[e]
    BY <2>2, <2>4 DEF Only
  <2>6. pc[t] = "checkout" /\ worker'[t] = docs[d].idle[n] /\ worker[t] = NoWorker
        /\ dropping'[t] = dropping[t] /\ retired' = retired /\ proc' = proc
    BY <1>1, <1>2, <1>22, <2>1 DEF CheckoutIdle, Serving, LocalTyped, Holding
  <2> HIDE DEF n, s
  <2>7. n \notin 1..n - 1 /\ 1..n - 1 \subseteq 1..n /\ \A k \in 1..n : k # n => k \in 1..n - 1
    BY <2>3
  <2>8. \A e, k : (e # d \/ k # n) =>
            (e \in 1..Len(docs') /\ k \in 1..Len(docs'[e].idle)
               <=> e \in 1..Len(docs) /\ k \in 1..Len(docs[e].idle))
    BY <2>5, <2>7 DEF n
  <2>9. \A e \in 1..Len(docs') : \A k \in 1..Len(docs'[e].idle) :
            docs'[e].idle[k] = docs[e].idle[k]
    BY <2>5
  <2>10. ~(d \in 1..Len(docs') /\ n \in 1..Len(docs'[d].idle))
    BY <2>5, <2>7
  <2>11. n \in 1..Len(docs[d].idle) /\ worker'[t] \in Worker
    BY <2>3, <2>6 DEF n
  <2> QED  BY <1>1, <1>3, <2>3, <2>6, <2>8, <2>9, <2>10, <2>11, Fetched
<1>23. CASE Checkin(t)
  <2>1. PICK d : d = DocOf(t)
    OBVIOUS
  <2>2. pc[t] = "checkin" /\ worker[t] \in Worker /\ Rest(t) /\ retired' = retired
    BY <1>2, <1>7, <1>23 DEF Checkin, Holding
  <2>3. CASE ~IsOpen(d)
    BY <1>4, <1>6, <1>23, <2>1, <2>2, <2>3 DEF Checkin
  <2>4. CASE IsOpen(d)
    <3> DEFINE n == Len(docs[d].idle)
    <3> DEFINE s == Append(docs[d].idle, worker[t])
    <3>1. /\ Len(s) = n + 1 /\ \A i \in 1..n : s[i] = docs[d].idle[i]
          /\ s[n + 1] = worker[t] /\ Only(d, [docs[d] EXCEPT !.idle = s])
      BY <1>1, <1>23, <2>1, <2>2, <2>4, CheckinDocs
    <3>2. d \in 1..Len(docs) /\ docs[d] \in Held /\ n \in Nat
      BY <1>1, <2>4, HeldAt DEF IsOpen
    <3>3. [docs[d] EXCEPT !.idle = s].idle = s
      BY <3>2 DEF Held
    <3>4. /\ Len(docs') = Len(docs) /\ Len(docs'[d].idle) = n + 1
          /\ docs'[d].idle[n + 1] = worker[t]
          /\ \A i \in 1..n : docs'[d].idle[i] = docs[d].idle[i]
          /\ \A e \in 1..Len(docs) : e # d => docs'[e] = docs[e]
      BY <3>1, <3>3 DEF Only
    <3>5. worker'[t] = NoWorker /\ dropping'[t] = {} /\ dropping[t] = {} /\ proc' = proc
      BY <1>1, <1>2, <1>23, <2>1, <2>2, <2>4, RestFrees DEF Checkin
    <3> HIDE DEF n, s
    <3>6. PICK i : i = n + 1
      OBVIOUS
    <3>7. i \in 1..n + 1 /\ i \notin 1..n /\ 1..n \subseteq 1..n + 1
          /\ \A k \in 1..n + 1 : k # i => k \in 1..n
      BY <3>2, <3>6
    <3>8. \A e, k : (e # d \/ k # i) =>
              (e \in 1..Len(docs') /\ k \in 1..Len(docs'[e].idle)
                 <=> e \in 1..Len(docs) /\ k \in 1..Len(docs[e].idle))
      BY <3>4, <3>7 DEF n
    <3>9. \A e \in 1..Len(docs) : \A k \in 1..Len(docs[e].idle) :
              docs'[e].idle[k] = docs[e].idle[k]
      BY <3>4 DEF n
    <3>10. /\ d \in 1..Len(docs') /\ i \in 1..Len(docs'[d].idle)
           /\ ~(d \in 1..Len(docs) /\ i \in 1..Len(docs[d].idle))
           /\ docs'[d].idle[i] = worker[t]
      BY <3>2, <3>4, <3>6, <3>7 DEF n
    <3> QED  BY <1>1, <1>3, <2>2, <3>5, <3>8, <3>9, <3>10, Shelved
  <2> QED  BY <2>3, <2>4
<1>24. CASE PublishDoc(t)
  <2>1. worker[t] \in Worker /\ pc[t] = "publishDoc" /\ Rest(t) /\ retired' = retired
        /\ proc' = proc
    BY <1>2, <1>7, <1>24 DEF PublishDoc, Holding
  <2>2. PICK d : d = Len(docs) + 1
    OBVIOUS
  <2>3. /\ Len(docs') = d /\ Len(docs'[d].idle) = 1 /\ docs'[d].idle[1] = worker[t]
        /\ \A e \in 1..Len(docs) : docs'[e] = docs[e]
    <3> DEFINE h == [open |-> TRUE, idle |-> <<worker[t]>>, spawned |-> 1,
                     senders |-> {worker[t].pid}, outlived |-> FALSE]
    <3>1. /\ Len(docs') = Len(docs) + 1 /\ docs'[Len(docs) + 1] = h
          /\ \A e \in 1..Len(docs) : docs'[e] = docs[e]
      BY <1>1, <1>24, <2>1, PublishDocDocs
    <3>2. h.idle = <<worker[t]>>
      OBVIOUS
    <3> QED  BY <2>2, <3>1, <3>2
  <2>4. Len(docs) \in Nat
    BY <1>1, LenProperties DEF DocsTyped
  <2>5. /\ d \in 1..d /\ d \notin 1..Len(docs) /\ 1..Len(docs) \subseteq 1..d
        /\ \A e \in 1..d : e # d => e \in 1..Len(docs)
    BY <2>2, <2>4
  <2>6. worker'[t] = NoWorker /\ dropping'[t] = {} /\ dropping[t] = {}
    BY <1>1, <1>2, <2>1, RestFrees
  <2>7. \A e, k : (e # d \/ k # 1) =>
            (e \in 1..Len(docs') /\ k \in 1..Len(docs'[e].idle)
               <=> e \in 1..Len(docs) /\ k \in 1..Len(docs[e].idle))
    <3> SUFFICES ASSUME NEW e, NEW k, e # d \/ k # 1
                 PROVE  e \in 1..Len(docs') /\ k \in 1..Len(docs'[e].idle)
                          <=> e \in 1..Len(docs) /\ k \in 1..Len(docs[e].idle)
      OBVIOUS
    <3>1. CASE e = d
      <4>1. k # 1 /\ k \notin 1..Len(docs'[e].idle)
        <5>1. k # 1 /\ Len(docs'[e].idle) = 1
          BY <2>3, <3>1
        <5>2. 1..1 = {1}
          OBVIOUS
        <5> QED  BY <5>1, <5>2
      <4> QED  BY <2>5, <3>1, <4>1
    <3>2. CASE e # d
      BY <2>3, <2>5, <3>2
    <3> QED  BY <3>1, <3>2
  <2>8. \A e \in 1..Len(docs) : \A k \in 1..Len(docs[e].idle) :
            docs'[e].idle[k] = docs[e].idle[k]
    BY <2>3
  <2>9. /\ d \in 1..Len(docs') /\ 1 \in 1..Len(docs'[d].idle)
        /\ ~(d \in 1..Len(docs) /\ 1 \in 1..Len(docs[d].idle))
    BY <2>3, <2>5
  <2> QED  BY <1>1, <1>3, <2>1, <2>3, <2>6, <2>7, <2>8, <2>9, Shelved
<1>25. CASE CloseTake(t)
  <2>1. PICK d : d = Target(t)
    OBVIOUS
  <2>2. d \in 1..Len(docs) /\ Only(d, Hole)
    BY <1>1, <1>25, <2>1, CloseTakeDocs DEF IsOpen
  <2>3. /\ pc[t] = "close" /\ dropping[t] = {} /\ worker' = worker /\ retired' = retired
        /\ proc' = proc /\ dropping'[t] = {docs[d].idle[i] : i \in 1..Len(docs[d].idle)}
    BY <1>1, <1>2, <1>25, <2>1 DEF CloseTake, LocalTyped
  <2> QED  BY <1>1, <1>3, <2>2, <2>3, SlotTaken
<1>26. CASE CloseKill(t)
  <2>1. /\ pc[t] = "kill" /\ worker[t] = NoWorker /\ docs' = docs /\ retired' = retired
        /\ proc' = Reap(proc, dropping[t])
    BY <1>2, <1>26 DEF CloseKill, Holding
  <2>2. worker'[t] = NoWorker /\ dropping'[t] = {}
    <3>1. CASE todo[t] = {}
      BY <1>1, <1>7, <1>26, <3>1, RestFrees DEF CloseKill
    <3>2. CASE todo[t] # {}
      BY <1>1, <1>26, <2>1, <3>2 DEF CloseKill, LocalTyped
    <3> QED  BY <3>1, <3>2
  <2>3. PICK gone : gone = {o \in Places : \E w \in dropping[t] : o = ClosingPlace(t, w)}
    OBVIOUS
  <2>4. /\ \A o \in gone : WorkerAt(o) \in dropping[t]
        /\ \A w \in dropping[t] : \E o \in gone : WorkerAt(o) = w
    BY <1>1, <2>3, PlacesAre, WorkersAtPlaces
  <2>5. ASSUME NEW o
        PROVE  /\ o \in Places' <=> o \in Places \ gone
               /\ o \in Places' => WorkerAt(o)' = WorkerAt(o)
    <3>1. CASE \E u \in Threads : o = ThreadPlace(u)
      BY <1>1, <1>3, <2>1, <2>2, <2>3, <3>1, PlacesAre, NextPlacesAre, PlacesApart,
         WorkersAtPlaces
    <3>2. CASE \E u \in Threads : \E w : o = ClosingPlace(u, w)
      <4>1. PICK u, w : u \in Threads /\ o = ClosingPlace(u, w)
        BY <3>2
      <4>2. CASE u = t
        BY <1>1, <2>2, <2>3, <4>1, <4>2, PlacesAre, NextPlacesAre
      <4>3. CASE u # t
        BY <1>1, <1>3, <2>3, <4>1, <4>3, PlacesAre, NextPlacesAre, PlacesApart,
           WorkersAtPlaces
      <4> QED  BY <4>2, <4>3
    <3>3. CASE \E d, i : o = IdlePlace(d, i)
      BY <1>1, <2>1, <2>3, <3>3, PlacesAre, NextPlacesAre, PlacesApart, WorkersAtPlaces
    <3>4. CASE \E w : o = RetiredPlace(w)
      BY <1>1, <2>1, <2>3, <3>4, PlacesAre, NextPlacesAre, PlacesApart, WorkersAtPlaces
    <3> QED  BY <1>1, <3>1, <3>2, <3>3, <3>4, PlacesAre, NextPlacesAre
  <2>6. Places' = Places \ gone /\ \A o \in Places' : WorkerAt(o)' = WorkerAt(o)
    BY <2>5
  <2>7. gone \in SUBSET Places
    BY <2>3
  <2> QED  BY <1>1, <2>1, <2>4, <2>6, <2>7, TakenAreReaped
<1> QED
  BY <1>8, <1>9, <1>10, <1>11, <1>12, <1>13, <1>14, <1>15, <1>16, <1>17, <1>18, <1>19,
     <1>20, <1>21, <1>22, <1>23, <1>24, <1>25, <1>26 DEF ThreadStep

-----------------------------------------------------------------------------
\* The reaper, the supervisor and the world.
LEMMA NextKeepsOwners ==
    ASSUME PoolInv, Owners, SlotsAndCorpses, [Next]_vars
    PROVE  Owners'
<1>1. PoolInv' /\ LocalTyped /\ LocalTyped' /\ DocsTyped /\ WorldTyped
  BY NextKeepsPoolInv DEF PoolInv
<1>2. CASE \E t \in Threads : ThreadStep(t) \/ WorkerAnswers(t) \/ WorkerOverruns(t)
  BY <1>2, ThreadsKeepOwners
<1>3. CASE \/ \E req \in Request : Send(req)
           \/ \E d \in Doc : Truncate(d)
           \/ UNCHANGED vars
  BY <1>1, <1>3, QuietOwners DEF Send, Truncate, vars, local
<1>4. CASE KillOverdue \/ \E p \in Pids : Crash(p)
  <2>1. UNCHANGED <<worker, dropping, docs, retired>>
    BY <1>4 DEF KillOverdue, Crash, local
  <2>2. \A p \in Pids : proc'[p] = proc[p] \/ (proc[p] = "alive" /\ proc'[p] = "dead")
    <3>1. CASE KillOverdue
      <4>1. PICK pids : proc' = [p \in Pids |-> IF p \in pids /\ proc[p] = "alive"
                                               THEN "dead" ELSE proc[p]]
        BY <3>1 DEF KillOverdue
      <4> QED  BY <4>1
    <3>2. CASE \E p \in Pids : Crash(p)
      BY <1>1, <3>2 DEF Crash, WorldTyped
    <3> QED  BY <1>4, <3>1, <3>2
  <2> QED  BY <1>1, <2>1, <2>2, QuietOwners
<1>5. CASE \E d \in Doc : RetireIdle(d)
  <2>1. PICK d \in Doc : RetireIdle(d)
    BY <1>5
  <2>2. retired = {} /\ UNCHANGED <<worker, dropping, proc>>
    BY <2>1 DEF RetireIdle, local
  <2>3. PICK k \in 1..Len(docs[d].idle) :
            LET s == SubSeq(docs[d].idle, k + 1, Len(docs[d].idle))
                ws == {docs[d].idle[i] : i \in 1..k}
            IN  /\ IsOpen(d) /\ k <= docs[d].spawned /\ retired' = ws
                /\ s \in Seq(Worker) /\ Len(s) = Len(docs[d].idle) - k
                /\ \A i \in 1..Len(s) : s[i] = docs[d].idle[i + k]
                /\ Only(d, [docs[d] EXCEPT !.idle = s, !.spawned = @ - k,
                              !.senders = @ \ {w.pid : w \in ws}])
    BY <1>1, <2>1, RetireIdleDocs
  <2> DEFINE s == SubSeq(docs[d].idle, k + 1, Len(docs[d].idle))
  <2> DEFINE ws == {docs[d].idle[i] : i \in 1..k}
  <2> DEFINE h == [docs[d] EXCEPT !.idle = s, !.spawned = @ - k,
                                  !.senders = @ \ {w.pid : w \in ws}]
  <2>4. /\ IsOpen(d) /\ retired' = ws /\ Len(s) = Len(docs[d].idle) - k
        /\ \A i \in 1..Len(s) : s[i] = docs[d].idle[i + k]
        /\ Only(d, h)
    BY <2>3
  <2>5. d \in 1..Len(docs) /\ docs[d] \in Held
    BY <1>1, <2>4, HeldAt DEF IsOpen
  <2>6. h.idle = s
    BY <2>5 DEF Held
  <2>7. /\ Len(docs') = Len(docs) /\ docs'[d].idle = s
        /\ \A e \in 1..Len(docs) : e # d => docs'[e] = docs[e]
    BY <2>4, <2>6 DEF Only
  <2> QED  BY <1>1, <2>2, <2>4, <2>5, <2>7, OldestTaken
<1>6. CASE RetireKill
  <2>1. /\ UNCHANGED <<worker, dropping, docs>> /\ retired' = {}
        /\ proc' = Reap(proc, retired)
    BY <1>6 DEF RetireKill, local
  <2>2. PICK gone : gone = {o \in Places : \E w \in retired : o = RetiredPlace(w)}
    OBVIOUS
  <2>3. /\ \A o \in gone : WorkerAt(o) \in retired
        /\ \A w \in retired : \E o \in gone : WorkerAt(o) = w
    BY <1>1, <2>2, PlacesAre, WorkersAtPlaces
  <2>4. ASSUME NEW o
        PROVE  /\ o \in Places' <=> o \in Places \ gone
               /\ o \in Places' => WorkerAt(o)' = WorkerAt(o)
    <3>1. CASE \E u \in Threads : o = ThreadPlace(u)
      BY <1>1, <2>1, <2>2, <3>1, PlacesAre, NextPlacesAre, PlacesApart, WorkersAtPlaces
    <3>2. CASE \E u \in Threads : \E w : o = ClosingPlace(u, w)
      BY <1>1, <2>1, <2>2, <3>2, PlacesAre, NextPlacesAre, PlacesApart, WorkersAtPlaces
    <3>3. CASE \E d, i : o = IdlePlace(d, i)
      BY <1>1, <2>1, <2>2, <3>3, PlacesAre, NextPlacesAre, PlacesApart, WorkersAtPlaces
    <3>4. CASE \E w : o = RetiredPlace(w)
      BY <1>1, <2>1, <2>2, <3>4, PlacesAre, NextPlacesAre, PlacesApart
    <3> QED  BY <1>1, <3>1, <3>2, <3>3, <3>4, PlacesAre, NextPlacesAre
  <2>5. Places' = Places \ gone /\ \A o \in Places' : WorkerAt(o)' = WorkerAt(o)
    BY <2>4
  <2>6. gone \in SUBSET Places
    BY <2>2
  <2> QED  BY <1>1, <2>1, <2>3, <2>5, <2>6, TakenAreReaped
<1> QED  BY <1>2, <1>3, <1>4, <1>5, <1>6 DEF Next

-----------------------------------------------------------------------------
\* Closed slots stay empty; only a worker that was just reaped is struck off.
LEMMA OneSlotKeepsHoles ==
    ASSUME DocsTyped, \A e \in 1..Len(docs) : ~docs[e].open => docs[e] = Hole,
           NEW d \in 1..Len(docs), NEW h, Only(d, h), h.open \/ h = Hole
    PROVE  \A e \in 1..Len(docs') : ~docs'[e].open => docs'[e] = Hole
  BY DEF Only

LEMMA NextKeepsSlots ==
    ASSUME PoolInv, SlotsAndCorpses, [Next]_vars
    PROVE  \A e \in 1..Len(docs') : ~docs'[e].open => docs'[e] = Hole
<1> DEFINE Holes == \A e \in 1..Len(docs) : ~docs[e].open => docs[e] = Hole
<1>1. Holes /\ DocsTyped
  BY DEF SlotsAndCorpses, PoolInv
<1>2. \A d \in 1..Len(docs) : \A h : Only(d, h) /\ (h.open \/ h = Hole) => Holes'
  BY <1>1, OneSlotKeepsHoles
<1>3. CASE docs' = docs
  BY <1>1, <1>3
<1>4. ASSUME NEW t \in Threads, ThreadStep(t) \/ WorkerAnswers(t) \/ WorkerOverruns(t),
             docs' # docs
      PROVE  Holes'
  <2> HIDE DEF Holes
  <2>1. pc[t] \in Holding => worker[t] \in Worker
    BY DEF PoolInv, Row, WorkerRow
  <2>2. PICK d : d = DocOf(t)
    OBVIOUS
  <2>3. \A e \in 1..Len(docs) : docs[e] \in Held
    BY <1>1, HeldAt
  <2>4. CASE CheckoutIdle(t)
    <3>1. IsOpen(d) /\ \E s : Only(d, [docs[d] EXCEPT !.idle = s])
      BY <1>1, <2>2, <2>4, CheckoutIdleDocs
    <3>2. PICK s : Only(d, [docs[d] EXCEPT !.idle = s])
      BY <3>1
    <3>3. d \in 1..Len(docs) /\ [docs[d] EXCEPT !.idle = s].open
      BY <2>3, <3>1 DEF Held, IsOpen
    <3> QED  BY <1>2, <3>2, <3>3
  <2>5. CASE CheckoutGrow(t)
    <3>1. IsOpen(d) /\ Only(d, [docs[d] EXCEPT !.spawned = @ + 1])
      BY <1>1, <2>2, <2>5, CheckoutGrowDocs
    <3>2. d \in 1..Len(docs) /\ [docs[d] EXCEPT !.spawned = @ + 1].open
      BY <2>3, <3>1 DEF Held, IsOpen
    <3> QED  BY <1>2, <3>1, <3>2
  <2>6. CASE GiveBack(t)
    <3> DEFINE h == [docs[d] EXCEPT !.spawned = IF @ = 0 THEN 0 ELSE @ - 1]
    <3>1. IsOpen(d)
      BY <1>4, <2>2, <2>6 DEF GiveBack, GivenBack
    <3>2. Only(d, h)
      BY <1>1, <2>2, <2>6, <3>1, GiveBackDocs
    <3>3. d \in 1..Len(docs) /\ h.open
      BY <2>3, <3>1 DEF Held, IsOpen
    <3> QED  BY <1>2, <3>2, <3>3
  <2>7. CASE Publish(t)
    <3> DEFINE h == [docs[d] EXCEPT !.senders = @ \cup {worker[t].pid}]
    <3>1. IsOpen(d) /\ worker[t] \in Worker
      BY <1>4, <2>1, <2>2, <2>7 DEF Publish, Holding
    <3>2. Only(d, h)
      BY <1>1, <2>2, <2>7, <3>1, PublishDocs
    <3>3. d \in 1..Len(docs) /\ h.open
      BY <2>3, <3>1 DEF Held, IsOpen
    <3> QED  BY <1>2, <3>2, <3>3
  <2>8. CASE Diagnose(t)
    <3> DEFINE h == [docs[d] EXCEPT !.outlived = TRUE]
    <3>1. IsOpen(d) /\ Only(d, h)
      BY <1>1, <1>4, <2>2, <2>8, DiagnoseDocs
    <3>2. d \in 1..Len(docs) /\ h.open
      BY <2>3, <3>1 DEF Held, IsOpen
    <3> QED  BY <1>2, <3>1, <3>2
  <2>9. CASE Checkin(t)
    <3> DEFINE h == [docs[d] EXCEPT !.idle = Append(docs[d].idle, worker[t])]
    <3>1. IsOpen(d) /\ worker[t] \in Worker
      BY <1>4, <2>1, <2>2, <2>9 DEF Checkin, Holding
    <3>2. Only(d, h)
      BY <1>1, <2>2, <2>9, <3>1, CheckinDocs
    <3>3. d \in 1..Len(docs) /\ h.open
      BY <2>3, <3>1 DEF Held, IsOpen
    <3> QED  BY <1>2, <3>2, <3>3
  <2>10. CASE Account(t)
    <3> DEFINE h == [docs[d] EXCEPT !.spawned = IF @ = 0 THEN 0 ELSE @ - 1,
                                    !.senders = @ \ {worker[t].pid}]
    <3>1. IsOpen(d)
      BY <1>4, <2>2, <2>10 DEF Account
    <3>2. Only(d, h)
      BY <1>1, <2>2, <2>10, <3>1, AccountDocs
    <3>3. d \in 1..Len(docs) /\ h.open
      BY <2>3, <3>1 DEF Held, IsOpen
    <3> QED  BY <1>2, <3>2, <3>3
  <2>11. CASE PublishDoc(t)
    <3>1. Len(docs) \in Nat /\ worker[t] \in Worker
      BY <1>1, <2>1, <2>11, LenProperties DEF PublishDoc, DocsTyped, Holding
    <3> DEFINE h == [open |-> TRUE, idle |-> <<worker[t]>>, spawned |-> 1,
                     senders |-> {worker[t].pid}, outlived |-> FALSE]
    <3>2. /\ Len(docs') = Len(docs) + 1 /\ docs'[Len(docs) + 1] = h
          /\ \A e \in 1..Len(docs) : docs'[e] = docs[e]
      BY <1>1, <2>11, <3>1, PublishDocDocs
    <3>3. docs'[Len(docs) + 1].open
      BY <3>2
    <3> QED  BY <1>1, <3>1, <3>2, <3>3 DEF Holes
  <2>12. CASE CloseTake(t)
    <3>1. Target(t) \in 1..Len(docs) /\ Only(Target(t), Hole)
      BY <1>1, <2>12, CloseTakeDocs DEF IsOpen
    <3> QED  BY <1>2, <3>1
  <2> QED
    BY <1>4, <2>4, <2>5, <2>6, <2>7, <2>8, <2>9, <2>10, <2>11, <2>12
       DEF ThreadStep, Recv, CheckoutRefused, CheckoutWait, Spawn, SpawnFails, Forsake,
           Watch, WorkerLost, EndWatch, EndUnlock, EndOpen, EndServe, KeepWorker, CondemnWorker,
           DropWorker, Sweep, CloseRefused, CloseWait, CloseKill, WorkerAnswers,
           WorkerOverruns, Exchanged
<1>5. ASSUME NEW d \in Doc, RetireIdle(d)  PROVE Holes'
  <2> HIDE DEF Holes
  <2>1. PICK k \in 1..Len(docs[d].idle) :
            /\ IsOpen(d)
            /\ Only(d, [docs[d] EXCEPT
                         !.idle = SubSeq(docs[d].idle, k + 1, Len(docs[d].idle)),
                         !.spawned = @ - k,
                         !.senders = @ \ {w.pid : w \in {docs[d].idle[i] : i \in 1..k}}])
    BY <1>1, <1>5, RetireIdleDocs
  <2> DEFINE s == SubSeq(docs[d].idle, k + 1, Len(docs[d].idle))
  <2> DEFINE f == docs[d].senders \ {w.pid : w \in {docs[d].idle[i] : i \in 1..k}}
  <2> DEFINE h == [docs[d] EXCEPT !.idle = s, !.spawned = @ - k, !.senders = f]
  <2>2. d \in 1..Len(docs) /\ Only(d, h) /\ docs[d] \in Held /\ docs[d].open
    BY <1>1, <2>1, HeldAt DEF IsOpen
  <2> HIDE DEF s, f
  <2>3. h.open
    BY <2>2 DEF Held
  <2> HIDE DEF h
  <2> QED  BY <1>2, <2>2, <2>3
<1> QED
  BY <1>3, <1>4, <1>5 DEF Next, Send, Truncate, RetireKill, KillOverdue, Crash, vars

LEMMA NextKeepsCorpses ==
    ASSUME PoolInv, SlotsAndCorpses, [Next]_vars
    PROVE  \A u \in Threads : pc'[u] = "account" => worker'[u].reaped
<1>1. \A u \in Threads : pc[u] = "account" => worker[u].reaped
  BY DEF SlotsAndCorpses
<1>2. LocalTyped
  BY DEF PoolInv
<1>3. ASSUME NEW t \in Threads, ThreadStep(t) \/ WorkerAnswers(t) \/ WorkerOverruns(t),
             NEW u \in Threads, pc'[u] = "account"
      PROVE  worker'[u].reaped
  <2>1. CASE u # t
    <3>1. pc[u] = "account" /\ worker'[u] = worker[u]
      BY <1>3, <2>1, ThreadLocals DEF Alone
    <3> QED  BY <1>1, <3>1
  <2>2. CASE u = t
    <3>1. CASE DropWorker(t)
      <4>1. worker[t] \in Worker
        BY <3>1 DEF DropWorker, PoolInv, Row, WorkerRow, Holding
      <4> QED  BY <1>2, <2>2, <3>1, <4>1 DEF DropWorker, LocalTyped, Worker
    <3>2. \A to \in PcValues : Goto(t, to) => pc'[t] = to
      BY <1>2, GotoMoves
    <3>3. \A to \in PcValues \ {"waiting", "closing"} : NotifyAndGoto(t, to) => pc'[t] = to
      BY <1>2, NotifyMoves
    <3>4. \A what : ~Reply(t, what) /\ ~ReplyAndNotify(t, what)
      BY <1>3, <2>2, <3>2, <3>3 DEF Reply, ReplyAndNotify, PcValues
    <3>5. \A to \in PcValues \ {"waiting", "closing", "account"} :
              ~Goto(t, to) /\ ~NotifyAndGoto(t, to)
      BY <1>3, <2>2, <3>2, <3>3
    <3>6. ~Goto(t, "waiting") /\ ~Goto(t, "closing")
      BY <1>3, <2>2, <3>2 DEF PcValues
    <3> USE DEF PcValues
    <3>7. ~(CheckoutIdle(t) \/ CheckoutGrow(t) \/ CheckoutWait(t) \/ CheckoutRefused(t)
            \/ Spawn(t) \/ SpawnFails(t) \/ GiveBack(t) \/ Forsake(t) \/ Publish(t) \/ Watch(t))
      BY <3>4, <3>5, <3>6 DEF CheckoutIdle, CheckoutGrow, CheckoutWait, CheckoutRefused,
           Spawn, SpawnFails, GiveBack, Forsake, Publish, Watch
    <3>8. ~(WorkerLost(t) \/ WorkerAnswers(t) \/ WorkerOverruns(t) \/ EndWatch(t)
            \/ EndUnlock(t) \/ EndOpen(t) \/ EndServe(t) \/ Diagnose(t) \/ KeepWorker(t)
            \/ CondemnWorker(t))
      BY <3>5 DEF WorkerLost, WorkerAnswers, WorkerOverruns, Exchanged, EndWatch, EndUnlock,
           EndOpen, EndServe, Diagnose, KeepWorker, CondemnWorker
    <3>9. ~(Checkin(t) \/ Account(t) \/ PublishDoc(t) \/ Sweep(t) \/ CloseWait(t)
            \/ CloseTake(t) \/ CloseKill(t) \/ Recv(t))
      BY <3>4, <3>5, <3>6 DEF Checkin, Account, PublishDoc, Sweep, CloseWait, CloseTake,
           CloseKill, Recv
    <3>10. ~CloseRefused(t)
      BY <1>3, <2>2, <3>4 DEF CloseRefused
    <3> QED  BY <1>3, <3>1, <3>7, <3>8, <3>9, <3>10 DEF ThreadStep
  <2> QED  BY <2>1, <2>2
<1>4. CASE \/ \E req \in Request : Send(req)
           \/ \E d \in Doc : RetireIdle(d) \/ Truncate(d)
           \/ KillOverdue \/ (\E p \in Pids : Crash(p)) \/ UNCHANGED vars
  BY <1>1, <1>4 DEF Send, RetireIdle, Truncate, KillOverdue, Crash, vars, local
<1>5. CASE RetireKill
  BY <1>1, <1>5 DEF RetireKill, WakeAll, local
<1> QED  BY <1>3, <1>4, <1>5 DEF Next

-----------------------------------------------------------------------------
\* The invariant behind ownership.
OwnerInv == PoolInv /\ Owners /\ SlotsAndCorpses

THEOREM OwnershipIsSound == Spec => []OwnerInv
<1>1. Init => OwnerInv
  <2> SUFFICES ASSUME Init  PROVE OwnerInv
    OBVIOUS
  <2>1. PoolInv /\ LocalTyped
    BY InitPoolInv DEF PoolInv
  <2>2. Len(docs) = 0
    BY EmptySeq DEF Init
  <2>3. ASSUME NEW o \in Places  PROVE FALSE
    <3>1. ~\E t \in Threads : o = ThreadPlace(t)
      BY <2>1, PlacesAre DEF Init
    <3>2. ~\E d \in 1..Len(docs) : TRUE
      BY <2>2
    <3> QED  BY <2>1, <2>3, <3>1, <3>2, PlacesAre DEF Init
  <2>4. Owners
    BY <2>3 DEF Owners, NoClash, OwnedAlive, NoOrphan, Init
  <2>5. SlotsAndCorpses
    BY <2>2 DEF SlotsAndCorpses, Init
  <2> QED  BY <2>1, <2>4, <2>5 DEF OwnerInv
<1>2. OwnerInv /\ [Next]_vars => OwnerInv'
  <2> SUFFICES ASSUME OwnerInv, [Next]_vars  PROVE OwnerInv'
    OBVIOUS
  <2>1. PoolInv' /\ Owners'
    BY NextKeepsPoolInv, NextKeepsOwners DEF OwnerInv
  <2>2. SlotsAndCorpses'
    BY NextKeepsSlots, NextKeepsCorpses DEF OwnerInv, SlotsAndCorpses
  <2> QED  BY <2>1, <2>2 DEF OwnerInv
<1> QED  BY <1>1, <1>2, PTL DEF Spec

-----------------------------------------------------------------------------
\* As many pids as owners.
LEMMA DistinctPids ==
    ASSUME NEW S, IsFiniteSet(S), NEW T, NEW f \in [S -> T],
           \A x, y \in S : f[x] = f[y] => x = y, \A z \in T : \E x \in S : f[x] = z
    PROVE  IsFiniteSet(T) /\ Cardinality(T) = Cardinality(S)
<1>1. f \in Bijection(S, T)
  BY DEF Bijection, Injection, Surjection, IsInjective
<1>2. ExistsBijection(S, T)
  BY <1>1 DEF ExistsBijection
<1> QED  BY <1>2, FS_Bijection

LEMMA Disjoint ==
    ASSUME NEW S, IsFiniteSet(S), NEW T, IsFiniteSet(T), S \cap T = {}
    PROVE  IsFiniteSet(S \cup T) /\ Cardinality(S \cup T) = Cardinality(S) + Cardinality(T)
<1>1. Cardinality(S \cap T) = 0
  BY FS_EmptySet
<1>2. Cardinality(S) \in Nat /\ Cardinality(T) \in Nat
  BY FS_CardinalityType
<1>3. /\ IsFiniteSet(S \cup T)
      /\ Cardinality(S \cup T) = Cardinality(S) + Cardinality(T) - Cardinality(S \cap T)
  BY FS_Union
<1> QED  BY <1>1, <1>2, <1>3

LEMMA IdleWithinCapacity ==
    ASSUME PoolInv, SlotsAndCorpses, NEW d \in 1..Len(docs)
    PROVE  Len(docs[d].idle) \in 0..Capacity
<1>1. CASE docs[d].open
  <2>1. /\ Len(docs[d].idle) \in Nat
        /\ docs[d].spawned = Len(docs[d].idle) + Cardinality(CountedFor(d))
        /\ docs[d].spawned <= Capacity /\ Cardinality(CountedFor(d)) \in Nat
    BY <1>1, HeldAt, CountsAreFinite DEF PoolInv, PoolAccounting
  <2> QED  BY <2>1, PoolAssumption
<1>2. CASE ~docs[d].open
  BY <1>2, PoolAssumption DEF SlotsAndCorpses, Hole
<1> QED  BY <1>1, <1>2

LEMMA OneOwnerEach == OwnerInv => EveryProcessHasOneOwner
<1> SUFFICES ASSUME OwnerInv  PROVE EveryProcessHasOneOwner
  OBVIOUS
<1>1. PoolInv /\ LocalTyped /\ WorldTyped /\ DocsTyped /\ Owners /\ SlotsAndCorpses
  BY DEF OwnerInv, PoolInv
<1> DEFINE A == Owned.threads
<1> DEFINE B == Owned.idle
<1> DEFINE C == Owned.closing
<1> DEFINE D == Owned.retired
<1> DEFINE PA == {worker[t].pid : t \in A}
<1> DEFINE PB == {docs[o[1]].idle[o[2]].pid : o \in B}
<1> DEFINE PC == {o[2].pid : o \in C}
<1> DEFINE PD == {w.pid : w \in D}
<1>2. /\ A = {t \in Threads : ~worker[t].reaped}
      /\ B = {o \in (1..Len(docs)) \X (1..Capacity) :
                 o[2] <= Len(docs[o[1]].idle) /\ ~docs[o[1]].idle[o[2]].reaped}
      /\ C = {o \in Threads \X Worker : o[2] \in dropping[o[1]] /\ ~o[2].reaped}
      /\ D = {w \in retired : ~w.reaped}
  BY DEF Owned
<1>3. OwnedPids = PA \cup PB \cup PC \cup PD
  BY DEF OwnedPids
<1> HIDE DEF A, B, C, D
\* Where each owner is.
<1>4. ASSUME NEW t \in A
      PROVE  /\ ThreadPlace(t) \in Places /\ WorkerAt(ThreadPlace(t)) = worker[t]
             /\ ~worker[t].reaped
  <2>1. worker[t] # NoWorker
    BY <1>2 DEF NoWorker
  <2> QED  BY <1>1, <1>2, <2>1, PlacesAre, WorkersAtPlaces
<1>5. ASSUME NEW o \in B
      PROVE  /\ IdlePlace(o[1], o[2]) \in Places
             /\ WorkerAt(IdlePlace(o[1], o[2])) = docs[o[1]].idle[o[2]]
             /\ ~docs[o[1]].idle[o[2]].reaped /\ o = <<o[1], o[2]>>
  <2>1. /\ o[1] \in 1..Len(docs) /\ o[2] \in 1..Capacity /\ o[2] <= Len(docs[o[1]].idle)
        /\ ~docs[o[1]].idle[o[2]].reaped /\ o = <<o[1], o[2]>>
    BY <1>2
  <2>2. o[2] \in 1..Len(docs[o[1]].idle)
    <3>1. Len(docs[o[1]].idle) \in Nat
      BY <1>1, <2>1, HeldAt
    <3> QED  BY <2>1, <3>1, PoolAssumption
  <2> QED  BY <1>1, <2>1, <2>2, PlacesAre, WorkersAtPlaces
<1>6. ASSUME NEW o \in C
      PROVE  /\ ClosingPlace(o[1], o[2]) \in Places
             /\ WorkerAt(ClosingPlace(o[1], o[2])) = o[2]
             /\ ~o[2].reaped /\ o = <<o[1], o[2]>>
  BY <1>1, <1>2, PlacesAre, WorkersAtPlaces
<1>7. ASSUME NEW w \in D
      PROVE  RetiredPlace(w) \in Places /\ WorkerAt(RetiredPlace(w)) = w /\ ~w.reaped
  BY <1>1, <1>2, PlacesAre, WorkersAtPlaces
<1>8. ASSUME NEW o \in Places, NEW q \in Places,
             ~WorkerAt(o).reaped, ~WorkerAt(q).reaped, WorkerAt(o).pid = WorkerAt(q).pid
      PROVE  o = q
  BY <1>1, <1>8 DEF Owners, NoClash, Clash
<1>9. IsFiniteSet(A) /\ IsFiniteSet(B) /\ IsFiniteSet(C) /\ IsFiniteSet(D)
  <2>1. IsFiniteSet(Threads) /\ IsFiniteSet(Pids) /\ Capacity \in Int
    BY PoolAssumption
  <2>2. IsFiniteSet(Worker)
    <3>1. IsFiniteSet(BOOLEAN)
      <4>1. BOOLEAN = {TRUE, FALSE}
        OBVIOUS
      <4>2. IsFiniteSet({FALSE})
        BY FS_Singleton
      <4>3. IsFiniteSet({FALSE} \cup {TRUE})
        BY <4>2, FS_AddElement
      <4>4. BOOLEAN = {FALSE} \cup {TRUE}
        BY <4>1
      <4> QED  BY <4>3, <4>4
    <3>2. IsFiniteSet(Pids \X BOOLEAN)
      BY <2>1, <3>1, FS_Product
    <3> DEFINE f == [o \in Pids \X BOOLEAN |-> [pid |-> o[1], reaped |-> o[2]]]
    <3>3. f \in [Pids \X BOOLEAN -> Worker]
      BY DEF Worker
    <3>4. \A x, y \in Pids \X BOOLEAN : f[x] = f[y] => x = y
      OBVIOUS
    <3>5. \A w \in Worker : \E x \in Pids \X BOOLEAN : f[x] = w
      <4> SUFFICES ASSUME NEW w \in Worker
                   PROVE  \E x \in Pids \X BOOLEAN : f[x] = w
        OBVIOUS
      <4>1. <<w.pid, w.reaped>> \in Pids \X BOOLEAN /\ w = [pid |-> w.pid, reaped |-> w.reaped]
        BY DEF Worker
      <4>2. f[<<w.pid, w.reaped>>] = w
        BY <4>1
      <4> QED  BY <4>1, <4>2
    <3> HIDE DEF f
    <3> QED  BY <3>2, <3>3, <3>4, <3>5, DistinctPids
  <2>3. IsFiniteSet(1..Len(docs)) /\ IsFiniteSet(1..Capacity)
    <3>1. 1 \in Int /\ Len(docs) \in Int
      BY <1>1, LenProperties DEF DocsTyped
    <3> QED  BY <2>1, <3>1, FS_Interval
  <2>4. IsFiniteSet((1..Len(docs)) \X (1..Capacity)) /\ IsFiniteSet(Threads \X Worker)
    BY <2>1, <2>2, <2>3, FS_Product
  <2>5. /\ A \in SUBSET Threads /\ B \in SUBSET ((1..Len(docs)) \X (1..Capacity))
        /\ C \in SUBSET (Threads \X Worker) /\ D \in SUBSET Worker
    BY <1>1, <1>2 DEF WorldTyped
  <2> QED  BY <2>1, <2>2, <2>4, <2>5, FS_Subset
\* Each kind of owner has as many pids as members ...
<1>10. IsFiniteSet(PA) /\ Cardinality(PA) = Cardinality(A)
  <2> DEFINE f == [t \in A |-> worker[t].pid]
  <2>1. \A x, y \in A : f[x] = f[y] => x = y
    BY <1>4, <1>8, PlacesApart
  <2>2. f \in [A -> PA] /\ \A z \in PA : \E x \in A : f[x] = z
    OBVIOUS
  <2> HIDE DEF f, PA
  <2> QED  BY <1>9, <2>1, <2>2, DistinctPids
<1>11. IsFiniteSet(PB) /\ Cardinality(PB) = Cardinality(B)
  <2> DEFINE f == [o \in B |-> docs[o[1]].idle[o[2]].pid]
  <2>1. ASSUME NEW x \in B, NEW y \in B, f[x] = f[y]  PROVE x = y
    <3>1. IdlePlace(x[1], x[2]) = IdlePlace(y[1], y[2])
      BY <1>5, <1>8, <2>1
    <3> QED  BY <1>5, <3>1, PlacesApart
  <2>2. f \in [B -> PB] /\ \A z \in PB : \E x \in B : f[x] = z
    OBVIOUS
  <2> HIDE DEF f, PB
  <2> QED  BY <1>9, <2>1, <2>2, DistinctPids
<1>12. IsFiniteSet(PC) /\ Cardinality(PC) = Cardinality(C)
  <2> DEFINE f == [o \in C |-> o[2].pid]
  <2>1. ASSUME NEW x \in C, NEW y \in C, f[x] = f[y]  PROVE x = y
    <3>1. ClosingPlace(x[1], x[2]) = ClosingPlace(y[1], y[2])
      BY <1>6, <1>8, <2>1
    <3> QED  BY <1>6, <3>1, PlacesApart
  <2>2. f \in [C -> PC] /\ \A z \in PC : \E x \in C : f[x] = z
    OBVIOUS
  <2> HIDE DEF f, PC
  <2> QED  BY <1>9, <2>1, <2>2, DistinctPids
<1>13. IsFiniteSet(PD) /\ Cardinality(PD) = Cardinality(D)
  <2> DEFINE f == [w \in D |-> w.pid]
  <2>1. \A x, y \in D : f[x] = f[y] => x = y
    BY <1>7, <1>8, PlacesApart
  <2>2. f \in [D -> PD] /\ \A z \in PD : \E x \in D : f[x] = z
    OBVIOUS
  <2> HIDE DEF f, PD
  <2> QED  BY <1>9, <2>1, <2>2, DistinctPids
\* ... and no two kinds share one.
<1>14. /\ PA \cap PB = {} /\ (PA \cup PB) \cap PC = {}
       /\ (PA \cup PB \cup PC) \cap PD = {}
  <2>1. PA \cap PB = {}
    BY <1>4, <1>5, <1>8, PlacesApart
  <2>2. PA \cap PC = {}
    BY <1>4, <1>6, <1>8, PlacesApart
  <2>3. PB \cap PC = {}
    BY <1>5, <1>6, <1>8, PlacesApart
  <2>4. PA \cap PD = {}
    BY <1>4, <1>7, <1>8, PlacesApart
  <2>5. PB \cap PD = {}
    BY <1>5, <1>7, <1>8, PlacesApart
  <2>6. PC \cap PD = {}
    BY <1>6, <1>7, <1>8, PlacesApart
  <2> HIDE DEF PA, PB, PC, PD
  <2> QED  BY <2>1, <2>2, <2>3, <2>4, <2>5, <2>6
<1>15. Cardinality(OwnedPids) =
          Cardinality(A) + Cardinality(B) + Cardinality(C) + Cardinality(D)
  <2> HIDE DEF PA, PB, PC, PD
  <2>1. IsFiniteSet(PA \cup PB) /\ Cardinality(PA \cup PB) = Cardinality(PA) + Cardinality(PB)
    BY <1>10, <1>11, <1>14, Disjoint
  <2>2. /\ IsFiniteSet(PA \cup PB \cup PC)
        /\ Cardinality(PA \cup PB \cup PC) = Cardinality(PA \cup PB) + Cardinality(PC)
    BY <1>12, <1>14, <2>1, Disjoint
  <2>3. Cardinality(PA \cup PB \cup PC \cup PD) = Cardinality(PA \cup PB \cup PC) + Cardinality(PD)
    BY <1>13, <1>14, <2>2, Disjoint
  <2> QED  BY <1>3, <1>10, <1>11, <1>12, <1>13, <2>1, <2>2, <2>3
\* The processes they own are the processes there are.
<1>16. ASSUME NEW p \in OwnedPids  PROVE p \in Pids /\ proc[p] \in {"alive", "dead"}
  <2>1. PICK o \in Places : ~WorkerAt(o).reaped /\ WorkerAt(o).pid = p
    BY <1>3, <1>4, <1>5, <1>6, <1>7
  <2>2. WorkerAt(o) \in Worker
    BY <1>1, PlacesHoldWorkers
  <2> QED  BY <1>1, <2>1, <2>2 DEF Owners, OwnedAlive, Worker
<1>17. ASSUME NEW p \in Pids, proc[p] \in {"alive", "dead"}  PROVE p \in OwnedPids
  <2>1. PICK o \in Places : WorkerAt(o) = [pid |-> p, reaped |-> FALSE]
    BY <1>1, <1>17 DEF Owners, NoOrphan
  <2>2. CASE \E t \in Threads : o = ThreadPlace(t)
    <3>1. PICK t \in Threads : o = ThreadPlace(t)
      BY <2>2
    <3>2. worker[t] = [pid |-> p, reaped |-> FALSE]
      BY <2>1, <3>1, WorkersAtPlaces
    <3>3. t \in A /\ worker[t].pid = p
      BY <1>2, <3>2
    <3> QED  BY <1>3, <3>3
  <2>3. CASE \E d \in 1..Len(docs) : \E i \in 1..Len(docs[d].idle) : o = IdlePlace(d, i)
    <3>1. PICK d \in 1..Len(docs) : \E i \in 1..Len(docs[d].idle) : o = IdlePlace(d, i)
      BY <2>3
    <3>2. PICK i \in 1..Len(docs[d].idle) : o = IdlePlace(d, i)
      BY <3>1
    <3>3. docs[d].idle[i] = [pid |-> p, reaped |-> FALSE]
      BY <2>1, <3>2, WorkersAtPlaces
    <3>4. i \in 1..Capacity /\ i <= Len(docs[d].idle)
      <4>1. Len(docs[d].idle) \in 0..Capacity
        BY <1>1, IdleWithinCapacity
      <4> QED  BY <4>1, PoolAssumption
    <3>5. <<d, i>> \in B /\ docs[<<d, i>>[1]].idle[<<d, i>>[2]].pid = p
      BY <1>2, <3>3, <3>4
    <3> QED  BY <1>3, <3>5
  <2>4. CASE \E t \in Threads : \E w \in dropping[t] : o = ClosingPlace(t, w)
    <3>1. PICK t \in Threads : \E w \in dropping[t] : o = ClosingPlace(t, w)
      BY <2>4
    <3>2. PICK w \in dropping[t] : o = ClosingPlace(t, w)
      BY <3>1
    <3>3. w = [pid |-> p, reaped |-> FALSE] /\ w \in Worker
      BY <1>1, <2>1, <3>2, WorkersAtPlaces DEF LocalTyped
    <3>4. <<t, w>> \in C /\ <<t, w>>[2].pid = p
      BY <1>2, <3>3
    <3> QED  BY <1>3, <3>4
  <2>5. CASE \E w \in retired : o = RetiredPlace(w)
    <3>1. PICK w \in retired : o = RetiredPlace(w)
      BY <2>5
    <3>2. w \in D /\ w.pid = p
      BY <1>2, <2>1, <3>1, WorkersAtPlaces
    <3> QED  BY <1>3, <3>2
  <2> QED  BY <1>1, <2>2, <2>3, <2>4, <2>5, PlacesAre
<1>18. OwnedPids = {p \in Pids : proc[p] \in {"alive", "dead"}}
  BY <1>16, <1>17
<1> QED  BY <1>15, <1>18 DEF EveryProcessHasOneOwner, A, B, C, D

\* Every process that is alive, or dead and not yet reaped, is in exactly one
\* place: none is orphaned, and none can be handed out or reaped twice.
THEOREM EachProcessIsOwnedOnce == Spec => []EveryProcessHasOneOwner
  BY OwnershipIsSound, OneOwnerEach, PTL

\* No two members have one pid where none is issued again.
LEMMA PidsDiffer ==
    ASSUME OwnerInv, ~Reissue
    PROVE  /\ \A t, u \in Threads :
                 t # u /\ worker[t] \in Worker /\ worker[u] \in Worker
                    => worker[t].pid # worker[u].pid
           /\ \A t \in Threads, d \in 1..Len(docs) : \A i \in 1..Len(docs[d].idle) :
                 worker[t] \in Worker => docs[d].idle[i].pid # worker[t].pid
           /\ \A d \in 1..Len(docs) : \A i, k \in 1..Len(docs[d].idle) :
                 i # k => docs[d].idle[i].pid # docs[d].idle[k].pid
<1>1. \A o, q \in Places : o # q => WorkerAt(o).pid # WorkerAt(q).pid
  BY DEF OwnerInv, Owners, NoClash, Clash
<1>2. \A t \in Threads : worker[t] \in Worker =>
          ThreadPlace(t) \in Places /\ WorkerAt(ThreadPlace(t)) = worker[t]
  BY PlacesAre, WorkersAtPlaces, PoolAssumption DEF OwnerInv, PoolInv, Worker, NoWorker
<1>3. \A d \in 1..Len(docs) : \A i \in 1..Len(docs[d].idle) :
          IdlePlace(d, i) \in Places /\ WorkerAt(IdlePlace(d, i)) = docs[d].idle[i]
  BY PlacesAre, WorkersAtPlaces DEF OwnerInv, PoolInv
<1>4. ASSUME NEW t \in Threads, NEW u \in Threads, t # u,
             worker[t] \in Worker, worker[u] \in Worker
      PROVE  worker[t].pid # worker[u].pid
  <2>1. ThreadPlace(t) # ThreadPlace(u)
    BY <1>4, PlacesApart
  <2> QED  BY <1>1, <1>2, <1>4, <2>1
<1>5. ASSUME NEW t \in Threads, NEW d \in 1..Len(docs), NEW i \in 1..Len(docs[d].idle),
             worker[t] \in Worker
      PROVE  docs[d].idle[i].pid # worker[t].pid
  <2>1. ThreadPlace(t) # IdlePlace(d, i)
    BY PlacesApart
  <2> QED  BY <1>1, <1>2, <1>3, <1>5, <2>1
<1>6. ASSUME NEW d \in 1..Len(docs), NEW i \in 1..Len(docs[d].idle),
             NEW k \in 1..Len(docs[d].idle), i # k
      PROVE  docs[d].idle[i].pid # docs[d].idle[k].pid
  <2>1. IdlePlace(d, i) # IdlePlace(d, k)
    BY <1>6, PlacesApart
  <2> QED  BY <1>1, <1>3, <2>1
<1> QED  BY <1>4, <1>5, <1>6

-----------------------------------------------------------------------------
\* The in-flight table.  Entries are told by pid only; that they are the calls
\* under way is that the one can be matched with the other.
Matches(g) ==
    /\ g \in [1..Len(calls) -> Threads]
    /\ \A i \in 1..Len(calls) : InWatch(g[i]) /\ worker[g[i]].pid = calls[i].pid
    /\ \A i, k \in 1..Len(calls) : g[i] = g[k] => i = k
    /\ \A t \in Threads : InWatch(t) => \E i \in 1..Len(calls) : g[i] = t

CallsMatch == \E g \in [1..Len(calls) -> Threads] : Matches(g)

\* Only the two ends of a watch change which calls there are.
LEMMA ExchangeGoesOn ==
    ASSUME PoolInv, NEW t \in Threads,
           ThreadStep(t) \/ WorkerAnswers(t) \/ WorkerOverruns(t),
           ~Watch(t), ~EndWatch(t), ~EndUnlock(t), ~EndOpen(t), ~EndServe(t)
    PROVE  /\ InWatch(t)' <=> InWatch(t)
           /\ InWatch(t) => worker'[t].pid = worker[t].pid
           /\ calls' = calls
<1> USE DEF InWatch, PcValues
<1>1. LocalTyped /\ \A to \in PcValues : Goto(t, to) => pc'[t] = to
  BY GotoMoves DEF PoolInv
<1>2. \A to \in PcValues \ {"waiting", "closing"} : NotifyAndGoto(t, to) => pc'[t] = to
  BY <1>1, NotifyMoves
<1>3. \A what : Reply(t, what) \/ ReplyAndNotify(t, what) => pc'[t] = "idle"
  BY <1>1, <1>2 DEF Reply, ReplyAndNotify
<1>4. CASE WorkerAnswers(t) \/ WorkerOverruns(t) \/ WorkerLost(t)
  <2>1. worker[t] \in Worker
    BY <1>4 DEF WorkerAnswers, WorkerOverruns, WorkerLost, Exchanged, PoolInv, Row,
         WorkerRow, Holding
  <2>2. worker' = worker \/ worker' = [worker EXCEPT ![t].reaped = TRUE]
    BY <1>4 DEF WorkerAnswers, WorkerOverruns, WorkerLost
  <2>3. worker'[t].pid = worker[t].pid
    BY <1>1, <2>1, <2>2 DEF LocalTyped, Worker
  <2>4. pc[t] = "inside" /\ pc'[t] = "end" /\ calls' = calls
    BY <1>1, <1>4 DEF WorkerAnswers, WorkerOverruns, WorkerLost, Exchanged
  <2> QED  BY <2>3, <2>4
<1>5. CASE Recv(t) \/ CheckoutRefused(t) \/ CheckoutIdle(t) \/ CheckoutGrow(t)
           \/ CheckoutWait(t) \/ Spawn(t) \/ SpawnFails(t) \/ GiveBack(t)
  <2>1. ~InWatch(t) /\ calls' = calls
    BY <1>5 DEF Recv, CheckoutRefused, CheckoutIdle, CheckoutGrow, CheckoutWait, Spawn,
         SpawnFails, GiveBack, Serving
  <2>2. pc'[t] \notin {"inside", "end"}
    BY <1>1, <1>2, <1>3, <1>5 DEF Recv, CheckoutRefused, CheckoutIdle, CheckoutGrow,
         CheckoutWait, Spawn, SpawnFails, GiveBack
  <2> QED  BY <2>1, <2>2
<1>6. CASE Forsake(t) \/ Publish(t) \/ Diagnose(t) \/ KeepWorker(t) \/ CondemnWorker(t)
           \/ Checkin(t) \/ DropWorker(t) \/ Account(t) \/ PublishDoc(t)
  <2>1. ~InWatch(t) /\ calls' = calls
    BY <1>6 DEF Forsake, Publish, Diagnose, KeepWorker, CondemnWorker, Checkin, DropWorker,
         Account, PublishDoc
  <2>2. pc'[t] \notin {"inside", "end"}
    BY <1>1, <1>2, <1>3, <1>6 DEF Forsake, Publish, Diagnose, KeepWorker, CondemnWorker,
         Checkin, DropWorker, Account, PublishDoc
  <2> QED  BY <2>1, <2>2
<1>7. CASE Sweep(t) \/ CloseRefused(t) \/ CloseWait(t) \/ CloseTake(t) \/ CloseKill(t)
  <2>1. ~InWatch(t) /\ calls' = calls
    BY <1>7 DEF Sweep, CloseRefused, CloseWait, CloseTake, CloseKill
  <2>2. pc'[t] \notin {"inside", "end"}
    BY <1>1, <1>3, <1>7, <2>1 DEF Sweep, CloseRefused, CloseWait, CloseTake, CloseKill
  <2> QED  BY <2>1, <2>2
<1> QED  BY <1>4, <1>5, <1>6, <1>7 DEF ThreadStep

\* A match outlives a step that leaves the calls and those in them as they are.
LEMMA MatchStays ==
    ASSUME CallsMatch, Len(calls') = Len(calls),
           \A i \in 1..Len(calls) : calls'[i].pid = calls[i].pid,
           \A u \in Threads : /\ InWatch(u)' <=> InWatch(u)
                              /\ InWatch(u) => worker'[u].pid = worker[u].pid
    PROVE  CallsMatch'
<1>1. PICK g \in [1..Len(calls) -> Threads] : Matches(g)
  BY DEF CallsMatch
<1>2. Matches(g)'
  BY <1>1 DEF Matches
<1> QED  BY <1>1, <1>2 DEF CallsMatch

\* A call that begins is matched with its entry, the last.
LEMMA MatchGrows ==
    ASSUME PoolInv, CallsMatch, NEW t \in Threads, Watch(t), Alone(t)
    PROVE  CallsMatch'
<1>1. PICK g \in [1..Len(calls) -> Threads] : Matches(g)
  BY DEF CallsMatch
<1> DEFINE n == Len(calls)
<1> DEFINE c == [pid |-> worker[t].pid, killed |-> FALSE]
<1>2. /\ worker' = worker /\ pc'[t] = "inside" /\ ~InWatch(t)
      /\ calls' = Append(calls, c) /\ worker[t] \in Worker
  BY DEF Watch, local, Goto, InWatch, PoolInv, LocalTyped, Row, WorkerRow, Holding
<1>3. /\ n \in Nat /\ Len(calls') = n + 1 /\ calls'[n + 1] = c
      /\ \A i \in 1..n : calls'[i] = calls[i]
  <2>1. calls \in Seq([pid : Pids, killed : BOOLEAN]) /\ c \in [pid : Pids, killed : BOOLEAN]
    BY <1>2 DEF PoolInv, WorldTyped, Worker
  <2> HIDE DEF c
  <2> QED  BY <1>2, <2>1, AppendProperties, LenProperties
<1>4. \A u \in Threads \ {t} : InWatch(u)' <=> InWatch(u)
  BY DEF Alone, InWatch
<1>5. PICK f : f = [i \in 1..(n + 1) |-> IF i \in 1..n THEN g[i] ELSE t]
  OBVIOUS
<1>6. /\ f \in [1..(n + 1) -> Threads] /\ f[n + 1] = t
      /\ \A i \in 1..n : f[i] = g[i] /\ i \in 1..(n + 1) /\ g[i] \in Threads \ {t}
      /\ \A i \in 1..(n + 1) : i \in 1..n \/ i = n + 1
  <2>1. \A i \in 1..(n + 1) : i \in 1..n \/ i = n + 1
    BY <1>3
  <2>2. n + 1 \in 1..(n + 1) /\ n + 1 \notin 1..n /\ \A i \in 1..n : i \in 1..(n + 1)
    BY <1>3
  <2>3. \A i \in 1..n : g[i] \in Threads \ {t}
    BY <1>1, <1>2 DEF Matches
  <2> QED  BY <1>5, <2>1, <2>2, <2>3
<1>7. \A i \in 1..(n + 1) : InWatch(f[i])' /\ worker'[f[i]].pid = calls'[i].pid
  BY <1>1, <1>2, <1>3, <1>4, <1>6 DEF Matches, InWatch
<1>8. \A i, k \in 1..(n + 1) : f[i] = f[k] => i = k
  BY <1>1, <1>6 DEF Matches
<1>9. \A u \in Threads : InWatch(u)' => \E i \in 1..(n + 1) : f[i] = u
  <2> SUFFICES ASSUME NEW u \in Threads, InWatch(u)'  PROVE \E i \in 1..(n + 1) : f[i] = u
    OBVIOUS
  <2>1. CASE u = t
    BY <1>3, <1>6, <2>1
  <2>2. CASE u # t
    <3>1. \E i \in 1..n : g[i] = u
      BY <1>1, <1>4, <2>2 DEF Matches
    <3> QED  BY <1>6, <3>1
  <2> QED  BY <2>1, <2>2
<1>10. Matches(f)'
  BY <1>3, <1>6, <1>7, <1>8, <1>9 DEF Matches
<1> QED  BY <1>3, <1>6, <1>10 DEF CallsMatch

\* An entry taken out is that of the call that ends, or of one with the same
\* pid, which then goes over to the other entry.
LEMMA MatchShrinks ==
    ASSUME PoolInv, CallsMatch, NEW t \in Threads, EndWatch(t), Alone(t),
           worker' = worker, pc'[t] \notin {"inside", "end"}
    PROVE  CallsMatch'
<1>1. PICK g \in [1..Len(calls) -> Threads] : Matches(g)
  BY DEF CallsMatch
<1>2. PICK n \in Nat : n = Len(calls)
  BY LenProperties DEF PoolInv, WorldTyped
<1>3. InWatch(t) /\ ~InWatch(t)' /\ \A u \in Threads \ {t} : InWatch(u)' <=> InWatch(u)
  BY DEF EndWatch, InWatch, Alone
<1>4. PICK k \in 1..n : g[k] = t
  BY <1>1, <1>2, <1>3 DEF Matches
<1>5. PICK e \in 1..n : e = EntryOf(t) /\ calls[e].pid = worker[t].pid
  <2>1. calls[k].pid = worker[t].pid
    BY <1>1, <1>2, <1>4 DEF Matches
  <2> QED  BY <1>2, <2>1, EntryFound DEF PoolInv
<1>6. /\ Len(calls') = n - 1
      /\ \A i \in 1..(n - 1) : calls'[i] = IF i < e THEN calls[i] ELSE calls[i + 1]
  <2>1. calls' = Without(calls, e)
    BY <1>5 DEF EndWatch, Take
  <2>2. calls \in Seq([pid : Pids, killed : BOOLEAN])
    BY DEF PoolInv, WorldTyped
  <2> QED  BY <1>2, <2>1, <2>2, WithoutOne
\* The two entries are exchanged ...
<1>7. PICK h : h = [i \in 1..n |-> IF i = e THEN t ELSE IF i = k THEN g[e] ELSE g[i]]
  OBVIOUS
<1>8. /\ \A i \in 1..n : h[i] \in Threads /\ InWatch(h[i]) /\ worker[h[i]].pid = calls[i].pid
      /\ \A i, j \in 1..n : h[i] = h[j] => i = j
      /\ h[e] = t
      /\ \A u \in Threads : InWatch(u) => \E i \in 1..n : h[i] = u
  <2>1. /\ \A i \in 1..n : g[i] \in Threads /\ InWatch(g[i]) /\ worker[g[i]].pid = calls[i].pid
        /\ \A i, j \in 1..n : g[i] = g[j] => i = j
        /\ \A u \in Threads : InWatch(u) => \E i \in 1..n : g[i] = u
    BY <1>1, <1>2 DEF Matches
  <2>2. \A i \in 1..n : h[i] = IF i = e THEN t ELSE IF i = k THEN g[e] ELSE g[i]
    BY <1>7
  <2>3. calls[k].pid = calls[e].pid
    BY <1>4, <1>5, <2>1
  <2>4. \A i \in 1..n : h[i] \in Threads /\ InWatch(h[i]) /\ worker[h[i]].pid = calls[i].pid
    BY SMTT(30), <1>3, <1>4, <1>5, <2>1, <2>2, <2>3
  <2>5. \A i, j \in 1..n : h[i] = h[j] => i = j
    BY <1>4, <2>1, <2>2
  <2>6. ASSUME NEW u \in Threads, InWatch(u)  PROVE \E i \in 1..n : h[i] = u
    <3>1. PICK i \in 1..n : g[i] = u
      BY <2>1, <2>6
    <3>2. CASE i = k
      BY <1>4, <2>2, <3>1, <3>2
    <3>3. CASE i # k /\ i = e
      BY <2>2, <3>1, <3>3
    <3>4. CASE i # k /\ i # e
      BY <2>2, <3>1, <3>4
    <3> QED  BY <3>2, <3>3, <3>4
  <2> QED  BY <2>2, <2>4, <2>5, <2>6
\* ... and the rest moves up.
<1>9. PICK f : f = [i \in 1..(n - 1) |-> IF i < e THEN h[i] ELSE h[i + 1]]
  OBVIOUS
<1> DEFINE From(i) == IF i < e THEN i ELSE i + 1
<1>10. /\ \A i \in 1..(n - 1) : From(i) \in 1..n /\ From(i) # e
       /\ \A i \in 1..(n - 1) : f[i] = h[From(i)] /\ calls'[i] = calls[From(i)]
       /\ \A i, j \in 1..(n - 1) : From(i) = From(j) => i = j
       /\ \A i \in 1..n : i # e => \E j \in 1..(n - 1) : From(j) = i
  <2>1. \A i \in 1..(n - 1) : From(i) \in 1..n /\ From(i) # e
    OBVIOUS
  <2>2. \A i \in 1..(n - 1) : f[i] = h[From(i)] /\ calls'[i] = calls[From(i)]
    BY <1>6, <1>9
  <2>3. \A i, j \in 1..(n - 1) : From(i) = From(j) => i = j
    OBVIOUS
  <2>4. ASSUME NEW i \in 1..n, i # e  PROVE \E j \in 1..(n - 1) : From(j) = i
    <3>1. CASE i < e
      <4>1. i \in 1..(n - 1) /\ From(i) = i
        BY <3>1
      <4> QED  BY <4>1
    <3>2. CASE e < i
      <4>1. i - 1 \in 1..(n - 1) /\ From(i - 1) = i
        BY <3>2
      <4> QED  BY <4>1
    <3> QED  BY <2>4, <3>1, <3>2
  <2> QED  BY <2>1, <2>2, <2>3, <2>4
<1> HIDE DEF From
<1>11. \A i \in 1..(n - 1) :
          f[i] \in Threads /\ InWatch(f[i])' /\ worker'[f[i]].pid = calls'[i].pid
  <2> SUFFICES ASSUME NEW i \in 1..(n - 1)
               PROVE  f[i] \in Threads /\ InWatch(f[i])' /\ worker'[f[i]].pid = calls'[i].pid
    OBVIOUS
  <2>1. PICK m \in 1..n : m = From(i) /\ m # e /\ f[i] = h[m] /\ calls'[i] = calls[m]
    BY <1>10
  <2>2. h[m] \in Threads /\ h[m] # t /\ InWatch(h[m])
    BY <1>8, <2>1
  <2> QED  BY <1>3, <1>8, <2>1, <2>2
<1>12. \A i, j \in 1..(n - 1) : f[i] = f[j] => i = j
  <2> SUFFICES ASSUME NEW i \in 1..(n - 1), NEW j \in 1..(n - 1), f[i] = f[j]
               PROVE  i = j
    OBVIOUS
  <2>1. /\ From(i) \in 1..n /\ f[i] = h[From(i)]
        /\ From(j) \in 1..n /\ f[j] = h[From(j)]
    BY <1>10
  <2>2. From(i) = From(j)
    BY <1>8, <2>1
  <2> QED  BY <1>10, <2>2
<1>13. \A u \in Threads : InWatch(u)' => \E i \in 1..(n - 1) : f[i] = u
  <2> SUFFICES ASSUME NEW u \in Threads, InWatch(u)'  PROVE \E i \in 1..(n - 1) : f[i] = u
    OBVIOUS
  <2>1. u # t /\ InWatch(u)
    BY <1>3
  <2>2. PICK i \in 1..n : h[i] = u
    BY <1>8, <2>1
  <2>3. i # e
    BY <1>8, <2>1, <2>2
  <2> QED  BY SMTT(30), <1>10, <2>2, <2>3
<1>14. f \in [1..(n - 1) -> Threads]
  BY <1>9, <1>11
<1>15. Matches(f)'
  BY <1>6, <1>11, <1>12, <1>13, <1>14 DEF Matches
<1> QED  BY <1>6, <1>14, <1>15 DEF CallsMatch

\* The second take of a call finds nothing: its pid is nobody else's.
LEMMA DropFindsNothing ==
    ASSUME OwnerInv, CallsMatch, ~Reissue, NEW t \in Threads, DropWatch(t)
    PROVE  calls' = calls /\ ~InWatch(t)
<1>1. PICK g \in [1..Len(calls) -> Threads] : Matches(g)
  BY DEF CallsMatch
<1>2. pc[t] = "unwatch" /\ worker[t] \in Worker /\ ~InWatch(t)
  BY DEF DropWatch, OwnerInv, PoolInv, Row, WorkerRow, Holding, InWatch
<1>3. ASSUME NEW i \in 1..Len(calls)  PROVE calls[i].pid # worker[t].pid
  <2>1. g[i] \in Threads /\ InWatch(g[i]) /\ worker[g[i]].pid = calls[i].pid
    BY <1>1 DEF Matches
  <2>2. worker[g[i]] \in Worker /\ g[i] # t
    BY <1>2, <2>1 DEF InWatch, OwnerInv, PoolInv, Row, WorkerRow, Holding
  <2> QED  BY <1>2, <2>1, <2>2, PidsDiffer
<1>4. EntryOf(t) = 0
  BY <1>3 DEF EntryOf
<1> QED  BY <1>2, <1>4 DEF DropWatch, Take

LEMMA NextKeepsMatch ==
    OwnerInv /\ (~Reissue => CallsMatch) /\ [Next]_vars => (~Reissue => CallsMatch')
<1> SUFFICES ASSUME OwnerInv, PoolInv, CallsMatch, ~Reissue, [Next]_vars  PROVE CallsMatch'
  BY DEF OwnerInv
<1>1. ASSUME NEW t \in Threads, ThreadStep(t) \/ WorkerAnswers(t) \/ WorkerOverruns(t)
      PROVE  CallsMatch'
  <2>1. LocalTyped /\ Alone(t)
    BY <1>1, ThreadLocals DEF PoolInv
  <2>2. CASE Watch(t)
    BY <2>1, <2>2, MatchGrows
  <2>3. CASE EndWatch(t) \/ EndUnlock(t) \/ EndOpen(t) \/ EndServe(t)
    <3>1. \E to \in PcValues \ {"inside", "end"} : Goto(t, to)
      BY <2>3 DEF EndWatch, EndUnlock, EndOpen, EndServe, PcValues
    <3>2. pc'[t] \notin {"inside", "end"} /\ worker' = worker
      BY <2>1, <2>3, <3>1, GotoMoves DEF EndWatch, EndUnlock, EndOpen, EndServe
    <3>3. CASE EndWatch(t)
      BY <2>1, <3>2, <3>3, MatchShrinks
    <3>4. CASE EndUnlock(t) \/ EndOpen(t) \/ EndServe(t)
      <4>1. calls' = calls /\ ~InWatch(t) /\ ~InWatch(t)'
        BY <3>2, <3>4, DropFindsNothing DEF EndUnlock, EndOpen, EndServe, InWatch
      <4>2. \A u \in Threads : InWatch(u)' <=> InWatch(u)
        BY <2>1, <4>1 DEF Alone, InWatch
      <4> QED  BY <3>2, <4>1, <4>2, MatchStays
    <3> QED  BY <2>3, <3>3, <3>4
  <2>4. CASE ~Watch(t) /\ ~EndWatch(t) /\ ~EndUnlock(t) /\ ~EndOpen(t) /\ ~EndServe(t)
    <3>1. /\ InWatch(t)' <=> InWatch(t)
          /\ InWatch(t) => worker'[t].pid = worker[t].pid
          /\ calls' = calls
      BY <1>1, <2>4, ExchangeGoesOn
    <3>2. ASSUME NEW u \in Threads \ {t}
          PROVE  (InWatch(u)' <=> InWatch(u)) /\ worker'[u] = worker[u]
      BY <2>1 DEF Alone, InWatch
    <3> QED  BY <3>1, <3>2, MatchStays
  <2> QED  BY <2>2, <2>3, <2>4
<1>2. CASE RetireKill
  <2>1. \A u \in Threads : (InWatch(u)' <=> InWatch(u)) /\ worker'[u] = worker[u]
    BY <1>2 DEF RetireKill, WakeAll, InWatch, local
  <2>2. calls' = calls
    BY <1>2 DEF RetireKill
  <2> QED  BY <2>1, <2>2, MatchStays
<1>3. CASE KillOverdue
  <2>1. PICK n \in 1..Len(calls) :
            calls' = [i \in 1..Len(calls) |->
                        IF calls[i].pid \in {calls[k].pid : k \in 1..n}
                        THEN [calls[i] EXCEPT !.killed = TRUE] ELSE calls[i]]
    BY <1>3 DEF KillOverdue
  <2>2. Len(calls) \in Nat /\ \A i \in 1..Len(calls) : calls[i] \in [pid : Pids, killed : BOOLEAN]
    BY LenProperties, ElementOfSeq DEF PoolInv, WorldTyped
  <2>3. Len(calls') = Len(calls) /\ \A i \in 1..Len(calls) : calls'[i].pid = calls[i].pid
    <3>1. DOMAIN calls' = 1..Len(calls)
      BY <2>1
    <3>2. calls' \in Seq([pid : Pids, killed : BOOLEAN])
      BY <1>3, NextKeepsPoolInv DEF PoolInv, WorldTyped
    <3>3. Len(calls') \in Nat /\ 1..Len(calls') = 1..Len(calls)
      BY <3>1, <3>2, LenProperties
    <3>4. Len(calls') = Len(calls)
      BY <2>2, <3>3
    <3> QED  BY <2>1, <2>2, <3>4
  <2>4. pc' = pc /\ worker' = worker
    BY <1>3 DEF KillOverdue, local
  <2> QED  BY <2>3, <2>4, MatchStays DEF InWatch
<1>4. CASE \/ \E req \in Request : Send(req)
           \/ \E d \in Doc : RetireIdle(d) \/ Truncate(d)
           \/ \E p \in Pids : Crash(p)
           \/ UNCHANGED vars
  <2>1. calls' = calls /\ pc' = pc /\ worker' = worker
    BY <1>4 DEF Send, RetireIdle, Truncate, Crash, vars, local
  <2> QED  BY <2>1, MatchStays DEF InWatch
<1> QED  BY <1>1, <1>2, <1>3, <1>4 DEF Next

LEMMA MatchedAreCalls ==
    ASSUME PoolInv, CallsMatch
    PROVE  EntriesAreCalls
<1>1. PICK g \in [1..Len(calls) -> Threads] : Matches(g)
  BY DEF CallsMatch
<1> DEFINE W == {t \in Threads : InWatch(t)}
<1>2. /\ g \in [1..Len(calls) -> W]
      /\ \A i, k \in 1..Len(calls) : g[i] = g[k] => i = k
      /\ \A t \in W : \E i \in 1..Len(calls) : g[i] = t
  BY <1>1 DEF Matches
<1>3. Len(calls) \in Nat
  BY LenProperties DEF PoolInv, WorldTyped
<1>4. IsFiniteSet(1..Len(calls)) /\ Cardinality(1..Len(calls)) = Len(calls)
  <2>1. PICK n \in Nat : n = Len(calls)
    BY <1>3
  <2>2. IsFiniteSet(1..n) /\ Cardinality(1..n) = IF 1 > n THEN 0 ELSE n - 1 + 1
    BY FS_Interval
  <2> QED  BY <2>1, <2>2
<1>5. Cardinality(W) = Len(calls)
  BY <1>2, <1>4, DistinctPids
<1> QED  BY <1>1, <1>2, <1>5 DEF EntriesAreCalls, Matches

LEMMA CallsAlwaysMatch == Spec => [](~Reissue => CallsMatch)
<1>1. Init => CallsMatch
  <2> SUFFICES ASSUME Init  PROVE CallsMatch
    OBVIOUS
  <2>1. 1..Len(calls) = {}
    BY EmptySeq DEF Init
  <2>2. PICK g : g = [i \in 1..Len(calls) |-> CHOOSE t \in Threads : TRUE]
    OBVIOUS
  <2>3. g \in [1..Len(calls) -> Threads] /\ \A t \in Threads : ~InWatch(t)
    BY <2>1, <2>2 DEF Init, InWatch
  <2>4. Matches(g)
    BY <2>1, <2>3 DEF Matches
  <2> QED  BY <2>3, <2>4 DEF CallsMatch
<1>2. OwnerInv /\ (~Reissue => CallsMatch) /\ [Next]_vars => (~Reissue => CallsMatch)'
  BY NextKeepsMatch
<1> QED  BY <1>1, <1>2, OwnershipIsSound, PTL DEF Spec

\* Where no pid is issued again, an entry of the in-flight table is there
\* exactly while its call is, for every number of calls under way: none is taken
\* by another call, and what the supervisor signals its call's own thread has
\* not let go of (InFlight, CallWatch).
THEOREM NoEntryOutlivesItsCall == Spec => [](~Reissue => EntriesAreCalls)
<1>1. OwnerInv /\ (~Reissue => CallsMatch) => (~Reissue => EntriesAreCalls)
  BY MatchedAreCalls DEF OwnerInv
<1> QED  BY <1>1, CallsAlwaysMatch, OwnershipIsSound, PTL

-----------------------------------------------------------------------------
\* The senders of a pool.  A thread has a worker of its pool in hand from
\* checkout or publish to checkin or discard.
Lending == {"watch", "inside", "end", "unwatch", "diagnose", "judge", "checkin", "drop", "account"}
Lent(t) == phase[t] = "serve" /\ pc[t] \in Lending

LentIsCounted ==
    \A t \in Threads :
        /\ Lent(t) <=> /\ Counted(t) /\ phase[t] = "serve"
                       /\ pc[t] \notin {"spawn", "giveBack", "publish"}
        /\ Lent(t) => worker[t] \in Worker /\ job[t] \in 1..Len(sent)
        /\ pc[t] \in {"checkout", "diagnose", "judge", "checkin", "drop", "account"}
              => phase[t] = "serve"

LEMMA LentAre == PoolInv => LentIsCounted
<1> SUFFICES ASSUME PoolInv, NEW t \in Threads
             PROVE  /\ Lent(t) <=> /\ Counted(t) /\ phase[t] = "serve"
                                   /\ pc[t] \notin {"spawn", "giveBack", "publish"}
                    /\ Lent(t) => worker[t] \in Worker /\ job[t] \in 1..Len(sent)
                    /\ pc[t] \in {"checkout", "diagnose", "judge", "checkin", "drop", "account"}
                          => phase[t] = "serve"
  BY DEF LentIsCounted
<1>1. JobRow(t) /\ KindRow(t) /\ PhaseRow(t) /\ WorkerRow(t)
      /\ phase[t] \in {"unlock", "open", "serve"}
  BY DEF PoolInv, Row, LocalTyped
<1>2. pc[t] # "idle" => job[t] \in 1..Len(sent) /\ Kind(t) \in {"open", "ask", "close", "release"}
  BY <1>1, SentAt DEF PoolInv, JobRow, Kind, Request
<1>3. pc[t] \in Lending /\ phase[t] = "serve" => Kind(t) = "ask"
  BY <1>1, <1>2 DEF Lending, KindRow, PhaseRow, ClosePcs
<1>4. Lent(t) <=> /\ Counted(t) /\ phase[t] = "serve"
                  /\ pc[t] \notin {"spawn", "giveBack", "publish"}
  BY <1>3 DEF Lent, Counted, Lending
<1>5. Lent(t) => worker[t] \in Worker /\ job[t] \in 1..Len(sent)
  BY <1>1, <1>2 DEF Lent, Lending, WorkerRow, Holding
<1>6. pc[t] \in {"checkout", "diagnose", "judge", "checkin", "drop", "account"}
         => phase[t] = "serve"
  BY <1>1, <1>2 DEF PhaseRow, KindRow, OpenPcs
<1> QED  BY <1>4, <1>5, <1>6

LEMMA LentAreNext == PoolInv' => LentIsCounted'
  BY LentAre, PTL

\* A pid is a member's while it is idle in the pool or lent.
IdleIn(p, d) == \E i \in 1..Len(docs[d].idle) : docs[d].idle[i].pid = p
LentFrom(p, d) == \E t \in Threads : Lent(t) /\ DocOf(t) = d /\ worker[t].pid = p
Known(d) == \A p : p \in docs[d].senders <=> IdleIn(p, d) \/ LentFrom(p, d)
SendersKnown == \A d \in 1..Len(docs) : Known(d)

LEMMA KnownAreMembers ==
    ASSUME LentIsCounted
    PROVE  SendersKnown <=> \A d \in 1..Len(docs) : docs[d].senders = Members(d)
<1>1. ASSUME NEW d \in 1..Len(docs)
      PROVE  Known(d) <=> docs[d].senders = Members(d)
  <2>1. \A t \in Threads : Lent(t) <=>
           Counted(t) /\ phase[t] = "serve" /\ pc[t] \notin {"spawn", "giveBack", "publish"}
    BY DEF LentIsCounted
  <2>2. \A p : p \in Members(d) <=> IdleIn(p, d) \/ LentFrom(p, d)
    BY <2>1 DEF Members, CountedFor, IdleIn, LentFrom
  <2> QED  BY <2>2 DEF Known
<1> QED  BY <1>1 DEF SendersKnown

\* A pool whose slot a step leaves alone, and whose lent workers too.
LEMMA KnownStays ==
    ASSUME NEW d, Known(d), docs'[d].idle = docs[d].idle, docs'[d].senders = docs[d].senders,
           \A u \in Threads :
              /\ (Lent(u)' /\ DocOf(u)' = d) <=> (Lent(u) /\ DocOf(u) = d)
              /\ Lent(u) => worker'[u].pid = worker[u].pid
    PROVE  Known(d)'
<1>1. \A p : IdleIn(p, d)' <=> IdleIn(p, d)
  BY DEF IdleIn
<1>2. \A p : LentFrom(p, d)' <=> LentFrom(p, d)
  BY DEF LentFrom
<1> QED  BY <1>1, <1>2 DEF Known

\* The steps that lend no worker and take none back.
LEMMA LentStays ==
    ASSUME PoolInv, NEW t \in Threads,
           ThreadStep(t) \/ WorkerAnswers(t) \/ WorkerOverruns(t),
           ~CheckoutIdle(t), ~Publish(t), ~Checkin(t), ~Account(t)
    PROVE  /\ Lent(t)' <=> Lent(t)
           /\ Lent(t) => DocOf(t)' = DocOf(t) /\ worker'[t].pid = worker[t].pid
<1> USE DEF Lent, Lending, PcValues
<1>1. LocalTyped /\ LocalTyped' /\ PhaseRow(t)
  BY ThreadLocals DEF PoolInv, Row
<1>2. \A to \in PcValues : Goto(t, to) => pc'[t] = to
  BY <1>1, GotoMoves
<1>3. \A to \in PcValues \ {"waiting", "closing"} : NotifyAndGoto(t, to) => pc'[t] = to
  BY <1>1, NotifyMoves
<1>4. \A what : Reply(t, what) \/ ReplyAndNotify(t, what) => pc'[t] = "idle"
  BY <1>2, <1>3 DEF Reply, ReplyAndNotify
<1>5. CASE WorkerAnswers(t) \/ WorkerOverruns(t) \/ WorkerLost(t) \/ DropWorker(t)
  <2>1. worker[t] \in Worker
    BY <1>5 DEF WorkerAnswers, WorkerOverruns, WorkerLost, DropWorker, Exchanged, PoolInv,
         Row, WorkerRow, Holding
  <2>2. worker' = worker \/ worker' = [worker EXCEPT ![t].reaped = TRUE]
    BY <1>5 DEF WorkerAnswers, WorkerOverruns, WorkerLost, DropWorker
  <2>3. worker'[t].pid = worker[t].pid
    BY <1>1, <2>1, <2>2 DEF LocalTyped, Worker
  <2>4. /\ pc[t] \in Lending /\ pc'[t] \in Lending
        /\ phase' = phase /\ job' = job /\ sent' = sent
    BY <1>2, <1>5 DEF WorkerAnswers, WorkerOverruns, WorkerLost, DropWorker, Exchanged
  <2> QED  BY <2>3, <2>4 DEF DocOf
<1>6. CASE Watch(t) \/ EndWatch(t) \/ EndServe(t) \/ Diagnose(t) \/ KeepWorker(t)
           \/ CondemnWorker(t)
  <2>1. /\ pc[t] \in Lending /\ phase' = phase /\ job' = job /\ sent' = sent
        /\ worker' = worker
    BY <1>6 DEF Watch, EndWatch, EndServe, DropWatch, Diagnose, KeepWorker, CondemnWorker, local
  <2>2. pc'[t] \in Lending
    BY <1>2, <1>6 DEF Watch, EndWatch, EndServe, Diagnose, KeepWorker, CondemnWorker
  <2> QED  BY <2>1, <2>2 DEF DocOf
<1>7. CASE EndUnlock(t) \/ EndOpen(t)
  <2>1. ~Lent(t)
    BY <1>7 DEF EndUnlock, EndOpen
  <2>2. pc'[t] \notin Lending \/ phase'[t] # "serve"
    BY <1>1, <1>2, <1>7 DEF EndUnlock, EndOpen, LocalTyped
  <2> QED  BY <2>1, <2>2
<1>8. CASE Recv(t) \/ CheckoutRefused(t) \/ CheckoutGrow(t) \/ CheckoutWait(t)
           \/ SpawnFails(t) \/ GiveBack(t) \/ Forsake(t)
  <2>1. ~Lent(t)
    BY <1>8 DEF Recv, CheckoutRefused, CheckoutGrow, CheckoutWait, SpawnFails, GiveBack,
         Forsake, Serving
  <2>2. pc'[t] \notin Lending
    BY <1>2, <1>3, <1>4, <1>8 DEF Recv, CheckoutRefused, CheckoutGrow, CheckoutWait,
         SpawnFails, GiveBack, Forsake
  <2> QED  BY <2>1, <2>2
<1>9. CASE Spawn(t)
  <2>1. ~Lent(t)
    BY <1>9 DEF Spawn
  <2>2. Kind(t) = "open" => phase[t] # "serve"
    BY <1>1, <1>9 DEF Spawn, PhaseRow
  <2>3. pc'[t] \notin Lending \/ phase'[t] # "serve"
    BY <1>1, <1>2, <1>9, <2>2 DEF Spawn, LocalTyped
  <2> QED  BY <2>1, <2>3
<1>10. CASE PublishDoc(t) \/ Sweep(t) \/ CloseRefused(t) \/ CloseWait(t) \/ CloseTake(t)
            \/ CloseKill(t)
  <2>1. ~Lent(t)
    BY <1>10 DEF PublishDoc, Sweep, CloseRefused, CloseWait, CloseTake, CloseKill
  <2>2. pc'[t] \notin Lending
    BY <1>2, <1>4, <1>10, <2>1 DEF PublishDoc, Sweep, CloseRefused, CloseWait, CloseTake,
         CloseKill
  <2> QED  BY <2>1, <2>2
<1> QED  BY <1>5, <1>6, <1>7, <1>8, <1>9, <1>10 DEF ThreadStep

\* The other threads, whatever thread t does.
LEMMA OthersLent ==
    ASSUME PoolInv, NEW t \in Threads,
           ThreadStep(t) \/ WorkerAnswers(t) \/ WorkerOverruns(t),
           NEW u \in Threads \ {t}
    PROVE  (Lent(u)' <=> Lent(u)) /\ DocOf(u)' = DocOf(u) /\ worker'[u] = worker[u]
<1>1. DocOf(u)' = DocOf(u) /\ Alone(t)
  BY OthersKeepTheirRows, ThreadLocals
<1> QED  BY <1>1 DEF Alone, Lent, Lending

\* The steps of a thread that change no pool's senders and no idle list.
SameMembers ==
    /\ Len(docs') = Len(docs)
    /\ \A d \in 1..Len(docs) :
          docs'[d].idle = docs[d].idle /\ docs'[d].senders = docs[d].senders

LEMMA MembersOfOne ==
    ASSUME DocsTyped, NEW d \in 1..Len(docs), NEW h, Only(d, h),
           h.idle = docs[d].idle, h.senders = docs[d].senders
    PROVE  SameMembers
  BY DEF Only, SameMembers

LEMMA SlotsStay ==
    ASSUME PoolInv, NEW t \in Threads,
           ThreadStep(t) \/ WorkerAnswers(t) \/ WorkerOverruns(t),
           ~CheckoutIdle(t), ~Publish(t), ~Checkin(t), ~Account(t),
           ~CloseTake(t), ~PublishDoc(t)
    PROVE  SameMembers
<1>1. DocsTyped /\ \A d \in 1..Len(docs) : docs[d] \in Held
  BY HeldAt DEF PoolInv
<1>2. docs' = docs => SameMembers
  BY DEF SameMembers
<1>3. CASE CheckoutGrow(t)
  <2>1. PICK d : d = DocOf(t)
    OBVIOUS
  <2>2. d \in 1..Len(docs) /\ Only(d, [docs[d] EXCEPT !.spawned = @ + 1])
    BY <1>1, <1>3, <2>1, CheckoutGrowDocs DEF IsOpen
  <2>3. /\ [docs[d] EXCEPT !.spawned = @ + 1].idle = docs[d].idle
        /\ [docs[d] EXCEPT !.spawned = @ + 1].senders = docs[d].senders
    BY <1>1, <2>2 DEF Held
  <2> QED  BY <1>1, <2>2, <2>3, MembersOfOne
<1>4. CASE GiveBack(t)
  <2>1. PICK d : d = DocOf(t)
    OBVIOUS
  <2>2. CASE ~IsOpen(d)
    BY <1>2, <1>4, <2>1, <2>2 DEF GiveBack, GivenBack
  <2>3. CASE IsOpen(d)
    <3> DEFINE h == [docs[d] EXCEPT !.spawned = IF @ = 0 THEN 0 ELSE @ - 1]
    <3>1. d \in 1..Len(docs) /\ Only(d, h)
      BY <1>1, <1>4, <2>1, <2>3, GiveBackDocs DEF IsOpen
    <3>2. h.idle = docs[d].idle /\ h.senders = docs[d].senders
      BY <1>1, <3>1 DEF Held
    <3> HIDE DEF h
    <3> QED  BY <1>1, <3>1, <3>2, MembersOfOne
  <2> QED  BY <2>2, <2>3
<1>5. CASE Diagnose(t)
  <2>1. PICK d : d = DocOf(t)
    OBVIOUS
  <2>2. CASE docs' # docs
    <3>1. d \in 1..Len(docs) /\ Only(d, [docs[d] EXCEPT !.outlived = TRUE])
      BY <1>1, <1>5, <2>1, <2>2, DiagnoseDocs DEF IsOpen
    <3>2. /\ [docs[d] EXCEPT !.outlived = TRUE].idle = docs[d].idle
          /\ [docs[d] EXCEPT !.outlived = TRUE].senders = docs[d].senders
      BY <1>1, <3>1 DEF Held
    <3> QED  BY <1>1, <3>1, <3>2, MembersOfOne
  <2> QED  BY <1>2, <2>2
<1>6. CASE ~CheckoutGrow(t) /\ ~GiveBack(t) /\ ~Diagnose(t)
  <2>1. docs' = docs
    BY <1>6 DEF ThreadStep, Recv, CheckoutRefused, CheckoutWait, Spawn, SpawnFails, Forsake,
         Watch, WorkerLost, EndWatch, EndUnlock, EndOpen, EndServe, KeepWorker, CondemnWorker,
         DropWorker, Sweep, CloseRefused, CloseWait, CloseKill, WorkerAnswers,
         WorkerOverruns, Exchanged
  <2> QED  BY <1>2, <2>1
<1> QED  BY <1>3, <1>4, <1>5, <1>6

\* What thread t does shows in its own loan only.
LentByOthers(t, p, d) ==
    \E u \in Threads \ {t} : Lent(u) /\ DocOf(u) = d /\ worker[u].pid = p

LEMMA LoansOfOne ==
    ASSUME PoolInv, NEW t \in Threads,
           ThreadStep(t) \/ WorkerAnswers(t) \/ WorkerOverruns(t)
    PROVE  \A p, d :
              /\ LentFrom(p, d) <=>
                    LentByOthers(t, p, d) \/ (Lent(t) /\ DocOf(t) = d /\ worker[t].pid = p)
              /\ LentFrom(p, d)' <=>
                    LentByOthers(t, p, d) \/ (Lent(t)' /\ DocOf(t)' = d /\ worker'[t].pid = p)
<1>1. \A u \in Threads \ {t} :
          (Lent(u)' <=> Lent(u)) /\ DocOf(u)' = DocOf(u) /\ worker'[u] = worker[u]
  BY OthersLent
<1> QED  BY <1>1 DEF LentFrom, LentByOthers

\* A pool other than the one thread t works for.
LEMMA OtherPoolsKnown ==
    ASSUME PoolInv, NEW t \in Threads,
           ThreadStep(t) \/ WorkerAnswers(t) \/ WorkerOverruns(t),
           NEW d, Known(d), docs'[d] = docs[d],
           ~(Lent(t) /\ DocOf(t) = d), ~(Lent(t)' /\ DocOf(t)' = d)
    PROVE  Known(d)'
<1>1. \A p : LentFrom(p, d)' <=> LentFrom(p, d)
  BY LoansOfOne
<1>2. \A p : IdleIn(p, d)' <=> IdleIn(p, d)
  BY DEF IdleIn
<1> QED  BY <1>1, <1>2 DEF Known

LEMMA CheckoutKnown ==
    ASSUME PoolInv, LentIsCounted, SendersKnown, NEW t \in Threads, CheckoutIdle(t)
    PROVE  SendersKnown'
<1>1. PICK d : d = DocOf(t)
  OBVIOUS
<1>2. PICK n : n = Len(docs[d].idle)
  OBVIOUS
<1>3. PICK s : s = SubSeq(docs[d].idle, 1, n - 1)
  OBVIOUS
<1>4. /\ IsOpen(d) /\ d \in 1..Len(docs) /\ n \in Nat /\ n > 0 /\ Len(s) = n - 1
      /\ \A i \in 1..(n - 1) : s[i] = docs[d].idle[i]
      /\ Only(d, [docs[d] EXCEPT !.idle = s]) /\ docs[d] \in Held
  BY <1>1, <1>2, <1>3, CheckoutIdleDocs, HeldAt DEF PoolInv, IsOpen
<1>5. /\ docs'[d].idle = s /\ docs'[d].senders = docs[d].senders /\ Len(docs') = Len(docs)
      /\ \A e \in 1..Len(docs) : e # d => docs'[e] = docs[e]
  BY <1>4 DEF Only, Held
<1>6. /\ ~Lent(t) /\ Lent(t)' /\ DocOf(t)' = d /\ worker'[t] = docs[d].idle[n]
  <2>1. phase[t] = "serve" /\ pc[t] = "checkout"
    BY DEF LentIsCounted, CheckoutIdle, Serving
  <2>2. LocalTyped /\ phase' = phase /\ job' = job /\ sent' = sent /\ pc'[t] = "watch"
        /\ worker' = [worker EXCEPT ![t] = docs[d].idle[n]]
    BY <1>1, <1>2, GotoMoves DEF PoolInv, CheckoutIdle, PcValues
  <2> QED  BY <1>1, <2>1, <2>2 DEF Lent, Lending, DocOf, LocalTyped
<1>7. ThreadStep(t)
  BY DEF ThreadStep
<1>8. ASSUME NEW e \in 1..Len(docs), e # d  PROVE Known(e)'
  BY <1>5, <1>6, <1>7, <1>8, OtherPoolsKnown DEF SendersKnown
<1>9. Known(d)'
  <2>1. \A p : IdleIn(p, d) <=> IdleIn(p, d)' \/ docs[d].idle[n].pid = p
    <3>1. \A i \in 1..n : i \in 1..(n - 1) \/ i = n
      BY <1>4
    <3>2. n \in 1..n /\ \A i \in 1..(n - 1) : i \in 1..n
      BY <1>4
    <3> QED  BY <1>2, <1>4, <1>5, <3>1, <3>2 DEF IdleIn
  <2>2. \A p : LentFrom(p, d)' <=> LentFrom(p, d) \/ docs[d].idle[n].pid = p
    BY <1>6, <1>7, LoansOfOne
  <2>3. Known(d)
    BY <1>4 DEF SendersKnown
  <2> QED  BY <1>5, <2>1, <2>2, <2>3 DEF Known
<1> QED  BY <1>5, <1>8, <1>9 DEF SendersKnown

LEMMA PublishKnown ==
    ASSUME PoolInv, SendersKnown, NEW t \in Threads, Publish(t)
    PROVE  SendersKnown'
<1>1. PICK d : d = DocOf(t)
  OBVIOUS
<1>2. /\ IsOpen(d) /\ d \in 1..Len(docs) /\ worker[t] \in Worker /\ docs[d] \in Held
  BY <1>1, HeldAt
     DEF Publish, PoolInv, CloseWaitsForPool, Counted, Row, WorkerRow, Holding, IsOpen
<1>3. Only(d, [docs[d] EXCEPT !.senders = @ \cup {worker[t].pid}])
  BY <1>1, <1>2, PublishDocs DEF PoolInv
<1>4. /\ docs'[d].idle = docs[d].idle /\ docs'[d].senders = docs[d].senders \cup {worker[t].pid}
      /\ Len(docs') = Len(docs) /\ \A e \in 1..Len(docs) : e # d => docs'[e] = docs[e]
  BY <1>2, <1>3 DEF Only, Held
<1>5. ~Lent(t) /\ Lent(t)' /\ DocOf(t)' = d /\ worker'[t] = worker[t]
  <2>1. LocalTyped /\ pc[t] = "publish" /\ pc'[t] = "watch" /\ worker' = worker /\ job' = job
        /\ sent' = sent /\ phase' = [phase EXCEPT ![t] = "serve"]
    BY <1>1, <1>2, GotoMoves DEF PoolInv, Publish, PcValues
  <2> QED  BY <1>1, <2>1 DEF Lent, Lending, DocOf, LocalTyped
<1>6. ThreadStep(t)
  BY DEF ThreadStep
<1>7. ASSUME NEW e \in 1..Len(docs), e # d  PROVE Known(e)'
  BY <1>4, <1>5, <1>6, <1>7, OtherPoolsKnown DEF SendersKnown
<1>8. Known(d)'
  <2>1. \A p : IdleIn(p, d)' <=> IdleIn(p, d)
    BY <1>4 DEF IdleIn
  <2>2. \A p : LentFrom(p, d)' <=> LentFrom(p, d) \/ worker[t].pid = p
    BY <1>5, <1>6, LoansOfOne
  <2>3. Known(d)
    BY <1>2 DEF SendersKnown
  <2> QED  BY <1>4, <2>1, <2>2, <2>3 DEF Known
<1> QED  BY <1>4, <1>7, <1>8 DEF SendersKnown

LEMMA CheckinKnown ==
    ASSUME PoolInv, LentIsCounted, SendersKnown, NEW t \in Threads, Checkin(t)
    PROVE  SendersKnown'
<1>1. PICK d : d = DocOf(t)
  OBVIOUS
<1>2. Lent(t) /\ worker[t] \in Worker
  BY DEF LentIsCounted, Checkin, Lent, Lending
<1>3. IsOpen(d) /\ d \in 1..Len(docs) /\ docs[d] \in Held /\ Len(docs[d].idle) \in Nat
  BY <1>1, <1>2, HeldAt DEF LentIsCounted, PoolInv, CloseWaitsForPool, IsOpen
<1>4. PICK n : n = Len(docs[d].idle)
  OBVIOUS
<1>5. PICK s : s = Append(docs[d].idle, worker[t])
  OBVIOUS
<1>6. /\ Len(s) = n + 1 /\ \A i \in 1..n : s[i] = docs[d].idle[i]
      /\ s[n + 1] = worker[t] /\ Only(d, [docs[d] EXCEPT !.idle = s])
  BY <1>1, <1>2, <1>3, <1>4, <1>5, CheckinDocs DEF PoolInv
<1>7. /\ docs'[d].idle = s /\ docs'[d].senders = docs[d].senders /\ Len(docs') = Len(docs)
      /\ \A e \in 1..Len(docs) : e # d => docs'[e] = docs[e]
  BY <1>3, <1>6 DEF Only, Held
<1>8. ThreadStep(t) /\ ~Lent(t)'
  <2>1. pc'[t] = "idle"
    BY NotifyMoves DEF PoolInv, Checkin, ReplyAndNotify, PcValues
  <2> QED  BY <2>1 DEF ThreadStep, Lent, Lending
<1>9. ASSUME NEW e \in 1..Len(docs), e # d  PROVE Known(e)'
  BY <1>1, <1>7, <1>8, <1>9, OtherPoolsKnown DEF SendersKnown
<1>10. Known(d)'
  <2>1. \A p : IdleIn(p, d)' <=> IdleIn(p, d) \/ worker[t].pid = p
    <3>1. \A i \in 1..(n + 1) : i \in 1..n \/ i = n + 1
      BY <1>3, <1>4
    <3>2. n + 1 \in 1..(n + 1) /\ \A i \in 1..n : i \in 1..(n + 1)
      BY <1>3, <1>4
    <3> QED  BY <1>4, <1>6, <1>7, <3>1, <3>2 DEF IdleIn
  <2>2. \A p : LentFrom(p, d) <=> LentFrom(p, d)' \/ worker[t].pid = p
    BY <1>1, <1>2, <1>8, LoansOfOne
  <2>3. Known(d)
    BY <1>3 DEF SendersKnown
  <2> QED  BY <1>7, <2>1, <2>2, <2>3 DEF Known
<1> QED  BY <1>7, <1>9, <1>10 DEF SendersKnown

LEMMA AccountKnown ==
    ASSUME OwnerInv, ~Reissue, LentIsCounted, SendersKnown, NEW t \in Threads, Account(t)
    PROVE  SendersKnown'
<1>1. PICK d : d = DocOf(t)
  OBVIOUS
<1>2. PoolInv /\ Lent(t) /\ worker[t] \in Worker
  BY DEF OwnerInv, LentIsCounted, Account, Lent, Lending
<1>3. IsOpen(d) /\ d \in 1..Len(docs) /\ docs[d] \in Held
  BY <1>1, <1>2, HeldAt DEF LentIsCounted, PoolInv, CloseWaitsForPool, IsOpen
<1>4. Only(d, [docs[d] EXCEPT !.spawned = IF @ = 0 THEN 0 ELSE @ - 1,
                              !.senders = @ \ {worker[t].pid}])
  BY <1>1, <1>2, <1>3, AccountDocs DEF PoolInv
<1>5. /\ docs'[d].idle = docs[d].idle /\ docs'[d].senders = docs[d].senders \ {worker[t].pid}
      /\ Len(docs') = Len(docs) /\ \A e \in 1..Len(docs) : e # d => docs'[e] = docs[e]
  BY <1>3, <1>4 DEF Only, Held
<1>6. ThreadStep(t) /\ ~Lent(t)'
  <2>1. pc'[t] = "idle" \/ pc'[t] = "checkout"
    BY <1>2, NotifyMoves DEF PoolInv, Account, ReplyAndNotify, PcValues
  <2> QED  BY <2>1 DEF ThreadStep, Lent, Lending
<1>7. ASSUME NEW e \in 1..Len(docs), e # d  PROVE Known(e)'
  BY <1>1, <1>2, <1>5, <1>6, <1>7, OtherPoolsKnown DEF SendersKnown
<1>8. Known(d)'
  <2>1. \A p : IdleIn(p, d)' <=> IdleIn(p, d)
    BY <1>5 DEF IdleIn
  <2>2. \A p : IdleIn(p, d) => p # worker[t].pid
    BY <1>2, <1>3, PidsDiffer DEF IdleIn
  <2>3. \A p : LentByOthers(t, p, d) => p # worker[t].pid
    <3>1. \A u \in Threads \ {t} : Lent(u) => worker[u] \in Worker
      BY DEF LentIsCounted
    <3> QED  BY <1>2, <3>1, PidsDiffer DEF LentByOthers
  <2>4. \A p : /\ LentFrom(p, d) <=> LentByOthers(t, p, d) \/ worker[t].pid = p
               /\ LentFrom(p, d)' <=> LentByOthers(t, p, d)
    BY <1>1, <1>2, <1>6, LoansOfOne
  <2>5. Known(d)
    BY <1>3 DEF SendersKnown
  <2> QED  BY <1>5, <2>1, <2>2, <2>3, <2>4, <2>5 DEF Known
<1> QED  BY <1>5, <1>7, <1>8 DEF SendersKnown

\* No worker is lent of a slot that is closed or not yet there.
LEMMA LentFromOpen ==
    ASSUME PoolInv, LentIsCounted, NEW d, ~IsOpen(d)
    PROVE  \A u \in Threads : ~(Lent(u) /\ DocOf(u) = d)
  BY DEF LentIsCounted, PoolInv, CloseWaitsForPool

LEMMA CloseTakeKnown ==
    ASSUME PoolInv, LentIsCounted, SendersKnown, NEW t \in Threads, CloseTake(t)
    PROVE  SendersKnown'
<1>1. PICK d : d = Target(t)
  OBVIOUS
<1>2. IsOpen(d) /\ d \in 1..Len(docs) /\ Only(d, Hole)
  BY <1>1, CloseTakeDocs DEF PoolInv, IsOpen
<1>3. /\ docs'[d] = Hole /\ Len(docs') = Len(docs)
      /\ \A e \in 1..Len(docs) : e # d => docs'[e] = docs[e]
  BY <1>2 DEF Only
<1>4. ThreadStep(t) /\ ~Lent(t) /\ ~Lent(t)'
  <2>1. pc[t] = "close" /\ pc'[t] = "kill"
    BY GotoMoves DEF PoolInv, CloseTake, PcValues
  <2> QED  BY <2>1 DEF ThreadStep, Lent, Lending
<1>5. ASSUME NEW e \in 1..Len(docs), e # d  PROVE Known(e)'
  BY <1>3, <1>4, <1>5, OtherPoolsKnown DEF SendersKnown
<1>6. Known(d)'
  <2>1. PoolInv' /\ LentIsCounted'
    BY <1>4, ThreadsKeepPoolInv, LentAreNext
  <2>2. \A u \in Threads : ~(Lent(u)' /\ DocOf(u)' = d)
    <3>1. ~IsOpen(d)'
      BY <1>3 DEF IsOpen, Hole
    <3> QED  BY <2>1, <3>1 DEF LentIsCounted, PoolInv, CloseWaitsForPool
  <2>3. docs'[d].idle = <<>> /\ docs'[d].senders = {} /\ Len(docs'[d].idle) = 0
    BY <1>3, EmptySeq DEF Hole
  <2> QED  BY <2>2, <2>3 DEF Known, IdleIn, LentFrom
<1> QED  BY <1>3, <1>5, <1>6 DEF SendersKnown

LEMMA PublishDocKnown ==
    ASSUME PoolInv, LentIsCounted, SendersKnown, NEW t \in Threads, PublishDoc(t)
    PROVE  SendersKnown'
<1>1. PICK n \in Nat : n = Len(docs)
  BY LenProperties DEF PoolInv, DocsTyped
<1>2. worker[t] \in Worker
  BY DEF PublishDoc, PoolInv, Row, WorkerRow, Holding
<1>3. /\ Len(docs') = n + 1 /\ \A e \in 1..n : docs'[e] = docs[e]
      /\ docs'[n + 1].idle = <<worker[t]>> /\ docs'[n + 1].senders = {worker[t].pid}
  <2>1. LET h == [open |-> TRUE, idle |-> <<worker[t]>>, spawned |-> 1,
                  senders |-> {worker[t].pid}, outlived |-> FALSE]
        IN  /\ Len(docs') = n + 1 /\ docs'[n + 1] = h
            /\ \A e \in 1..n : docs'[e] = docs[e]
    BY <1>1, <1>2, PublishDocDocs DEF PoolInv
  <2> QED  BY <2>1
<1>4. ThreadStep(t) /\ ~Lent(t) /\ ~Lent(t)'
  <2>1. pc[t] = "publishDoc" /\ pc'[t] = "idle"
    BY GotoMoves DEF PoolInv, PublishDoc, Reply, PcValues
  <2> QED  BY <2>1 DEF ThreadStep, Lent, Lending
<1>5. ASSUME NEW e \in 1..n  PROVE Known(e)'
  BY <1>1, <1>3, <1>4, OtherPoolsKnown DEF SendersKnown
<1>6. Known(n + 1)'
  <2>1. ~IsOpen(n + 1)
    BY <1>1 DEF IsOpen
  <2>2. \A p : ~LentFrom(p, n + 1)
    BY <2>1, LentFromOpen DEF LentFrom
  <2>3. \A p : ~LentFrom(p, n + 1)'
    BY <1>4, <2>2, LoansOfOne
  <2>4. Len(<<worker[t]>>) = 1 /\ <<worker[t]>>[1] = worker[t] /\ 1 \in 1..1 /\ \A i \in 1..1 : i = 1
    OBVIOUS
  <2>5. \A p : IdleIn(p, n + 1)' <=> p = worker[t].pid
    BY <1>3, <2>4 DEF IdleIn
  <2> QED  BY <1>3, <2>3, <2>5 DEF Known
<1>7. \A e \in 1..(n + 1) : e \in 1..n \/ e = n + 1
  OBVIOUS
<1> QED  BY <1>3, <1>5, <1>6, <1>7 DEF SendersKnown

\* The reaper takes the senders of those it takes, and of nobody else.
LEMMA RetireIdleKnown ==
    ASSUME OwnerInv, ~Reissue, LentIsCounted, SendersKnown, NEW d \in Doc, RetireIdle(d)
    PROVE  SendersKnown'
<1>1. PoolInv /\ DocsTyped
  BY DEF OwnerInv, PoolInv
<1>2. PICK k \in 1..Len(docs[d].idle) :
        LET s == SubSeq(docs[d].idle, k + 1, Len(docs[d].idle))
            ws == {docs[d].idle[i] : i \in 1..k}
        IN  /\ IsOpen(d) /\ Len(s) = Len(docs[d].idle) - k
            /\ \A i \in 1..Len(s) : s[i] = docs[d].idle[i + k]
            /\ Only(d, [docs[d] EXCEPT !.idle = s, !.spawned = @ - k,
                          !.senders = @ \ {w.pid : w \in ws}])
  BY <1>1, RetireIdleDocs
<1>3. d \in 1..Len(docs) /\ docs[d] \in Held /\ Len(docs[d].idle) \in Nat
  BY <1>1, <1>2, HeldAt DEF IsOpen
<1>4. PICK n \in Nat : n = Len(docs[d].idle)
  BY <1>3
<1>5. PICK s, f : /\ s = SubSeq(docs[d].idle, k + 1, n)
                  /\ f = docs[d].senders \ {w.pid : w \in {docs[d].idle[i] : i \in 1..k}}
  OBVIOUS
<1>6. /\ Len(s) = n - k /\ \A i \in 1..(n - k) : s[i] = docs[d].idle[i + k]
      /\ Only(d, [docs[d] EXCEPT !.idle = s, !.spawned = @ - k, !.senders = f])
  BY <1>2, <1>4, <1>5
<1>7. /\ docs'[d].idle = s /\ docs'[d].senders = f /\ Len(docs') = Len(docs)
      /\ \A e \in 1..Len(docs) : e # d => docs'[e] = docs[e]
  BY <1>3, <1>6 DEF Only, Held
<1>8. pc' = pc /\ sent' = sent /\ phase' = phase /\ job' = job /\ worker' = worker
  BY DEF RetireIdle, local
<1>9. \A p, e : LentFrom(p, e)' <=> LentFrom(p, e)
  BY <1>8 DEF LentFrom, Lent, DocOf
<1>10. ASSUME NEW e \in 1..Len(docs), e # d  PROVE Known(e)'
  <2>1. \A p : IdleIn(p, e)' <=> IdleIn(p, e)
    BY <1>7, <1>10 DEF IdleIn
  <2> QED  BY <1>7, <1>9, <1>10, <2>1 DEF Known, SendersKnown
<1>11. Known(d)'
  <2> DEFINE Taken(p) == \E i \in 1..k : docs[d].idle[i].pid = p
  <2>1. \A p : p \in f <=> p \in docs[d].senders /\ ~Taken(p)
    BY <1>5
  <2>2. \A p : IdleIn(p, d)' <=> \E i \in 1..n : i > k /\ docs[d].idle[i].pid = p
    <3>1. \A i \in 1..(n - k) : i + k \in 1..n /\ i + k > k
      BY <1>4
    <3>2. \A i \in 1..n : i > k => i - k \in 1..(n - k) /\ (i - k) + k = i
      BY <1>4
    <3>3. \A p : IdleIn(p, d)' <=> \E i \in 1..(n - k) : docs[d].idle[i + k].pid = p
      BY <1>6, <1>7 DEF IdleIn
    <3> QED  BY <3>1, <3>2, <3>3
  <2>3. \A p : IdleIn(p, d) <=> IdleIn(p, d)' \/ Taken(p)
    <3>1. \A i \in 1..n : i \in 1..k \/ i > k
      BY <1>4
    <3>2. \A i \in 1..k : i \in 1..n
      BY <1>4
    <3> QED  BY <1>4, <2>2, <3>1, <3>2 DEF IdleIn
  <2>4. \A p : Taken(p) => ~IdleIn(p, d)'
    <3>1. \A i \in 1..k : i \in 1..n /\ ~(i > k)
      BY <1>4
    <3> QED  BY <1>3, <1>4, <2>2, <3>1, PidsDiffer
  <2>5. \A p : Taken(p) => ~LentFrom(p, d)
    <3>1. \A i \in 1..k : i \in 1..n
      BY <1>4
    <3>2. \A u \in Threads : Lent(u) => worker[u] \in Worker
      BY DEF LentIsCounted
    <3> QED  BY <1>3, <1>4, <3>1, <3>2, PidsDiffer DEF LentFrom
  <2>6. Known(d)
    BY <1>3 DEF SendersKnown
  <2> HIDE DEF Taken
  <2> QED  BY <1>7, <1>9, <2>1, <2>3, <2>4, <2>5, <2>6 DEF Known
<1> QED  BY <1>7, <1>10, <1>11 DEF SendersKnown

LEMMA NextKeepsKnown ==
    ASSUME OwnerInv, ~Reissue, LentIsCounted, SendersKnown, [Next]_vars
    PROVE  SendersKnown'
<1>1. PoolInv
  BY DEF OwnerInv
<1>2. ASSUME docs' = docs,
             \A u \in Threads :
                /\ Lent(u)' <=> Lent(u)
                /\ Lent(u) => DocOf(u)' = DocOf(u) /\ worker'[u] = worker[u]
      PROVE  SendersKnown'
  BY <1>2, KnownStays DEF SendersKnown
<1>3. ASSUME NEW t \in Threads, ThreadStep(t) \/ WorkerAnswers(t) \/ WorkerOverruns(t)
      PROVE  SendersKnown'
  <2>1. CASE CheckoutIdle(t)
    BY <1>1, <2>1, CheckoutKnown
  <2>2. CASE Publish(t)
    BY <1>1, <2>2, PublishKnown
  <2>3. CASE Checkin(t)
    BY <1>1, <2>3, CheckinKnown
  <2>4. CASE Account(t)
    BY <2>4, AccountKnown
  <2>5. CASE CloseTake(t)
    BY <1>1, <2>5, CloseTakeKnown
  <2>6. CASE PublishDoc(t)
    BY <1>1, <2>6, PublishDocKnown
  <2>7. CASE /\ ~CheckoutIdle(t) /\ ~Publish(t) /\ ~Checkin(t) /\ ~Account(t)
             /\ ~CloseTake(t) /\ ~PublishDoc(t)
    <3>1. SameMembers
      BY <1>1, <1>3, <2>7, SlotsStay
    <3>2. ASSUME NEW u \in Threads
          PROVE  /\ Lent(u)' <=> Lent(u)
                 /\ Lent(u) => DocOf(u)' = DocOf(u) /\ worker'[u].pid = worker[u].pid
      <4>1. CASE u = t
        BY <1>1, <1>3, <2>7, <4>1, LentStays
      <4>2. CASE u # t
        BY <1>1, <1>3, <4>2, OthersLent
      <4> QED  BY <4>1, <4>2
    <3>3. ASSUME NEW d \in 1..Len(docs)  PROVE Known(d)'
      BY <3>1, <3>2, KnownStays DEF SameMembers, SendersKnown
    <3> QED  BY <3>1, <3>3 DEF SameMembers, SendersKnown
  <2> QED  BY <2>1, <2>2, <2>3, <2>4, <2>5, <2>6, <2>7
<1>4. ASSUME NEW d \in Doc, RetireIdle(d)  PROVE SendersKnown'
  BY <1>4, RetireIdleKnown
<1>5. CASE \E req \in Request : Send(req)
  <2>1. PICK req \in Request : Send(req)
    BY <1>5
  <2>2. /\ sent' = Append(sent, req) /\ docs' = docs /\ pc' = pc /\ phase' = phase
        /\ worker' = worker /\ job' = job
    BY <2>1 DEF Send, local
  <2>3. \A j \in 1..Len(sent) : sent'[j] = sent[j]
    BY <1>1, <2>2, AppendProperties DEF PoolInv, QueueTyped
  <2>4. \A u \in Threads : Lent(u) => DocOf(u)' = DocOf(u)
    BY <2>2, <2>3 DEF LentIsCounted, DocOf
  <2> QED  BY <1>2, <2>2, <2>4 DEF Lent
<1>6. CASE RetireKill
  <2>1. docs' = docs /\ phase' = phase /\ worker' = worker /\ job' = job /\ sent' = sent
    BY <1>6 DEF RetireKill, local
  <2>2. \A u \in Threads : Lent(u)' <=> Lent(u)
    BY <1>6, <2>1 DEF RetireKill, WakeAll, Lent, Lending
  <2> QED  BY <1>2, <2>1, <2>2 DEF DocOf
<1>7. CASE KillOverdue \/ (\E d \in Doc : Truncate(d)) \/ (\E p \in Pids : Crash(p))
           \/ UNCHANGED vars
  <2>1. /\ docs' = docs /\ phase' = phase /\ worker' = worker /\ job' = job /\ sent' = sent
        /\ pc' = pc
    BY <1>7 DEF KillOverdue, Truncate, Crash, vars, local
  <2> QED  BY <1>2, <2>1 DEF Lent, DocOf
<1> QED  BY <1>3, <1>4, <1>5, <1>6, <1>7 DEF Next

LEMMA KnownAreMembersNext ==
    LentIsCounted' => (SendersKnown' <=> (\A d \in 1..Len(docs) : docs[d].senders = Members(d))')
<1>1. LentIsCounted => (SendersKnown <=> \A d \in 1..Len(docs) : docs[d].senders = Members(d))
  BY KnownAreMembers
<1> QED  BY <1>1, PTL

\* Where no pid is issued again a pool's senders are its workers, idle and out,
\* for every number of pools and threads: a withdrawal reaches whoever serves
\* it, and is not written to a worker that was discarded or retired.
THEOREM EveryWorkerIsReached == Spec => []SendersAreMembers
<1>1. Init => SendersAreMembers
  <2> SUFFICES ASSUME Init  PROVE SendersAreMembers
    OBVIOUS
  <2>1. 1..Len(docs) = {}
    BY EmptySeq DEF Init
  <2> QED  BY <2>1 DEF SendersAreMembers
<1>2. OwnerInv /\ SendersAreMembers /\ [Next]_vars /\ OwnerInv' => SendersAreMembers'
  <2> SUFFICES ASSUME OwnerInv, SendersAreMembers, [Next]_vars, OwnerInv', ~Reissue
               PROVE  \A d \in 1..Len(docs') : docs'[d].senders = Members(d)'
    BY DEF SendersAreMembers
  <2>1. LentIsCounted /\ LentIsCounted'
    BY LentAre, LentAreNext DEF OwnerInv
  <2>2. SendersKnown
    BY <2>1, KnownAreMembers DEF SendersAreMembers
  <2>3. SendersKnown'
    BY <2>1, <2>2, NextKeepsKnown
  <2> QED  BY <2>1, <2>3, KnownAreMembersNext
<1> QED  BY <1>1, <1>2, OwnershipIsSound, PTL DEF Spec

-----------------------------------------------------------------------------
\* The corpses of a pool, where nothing dies of itself, no pid is issued again
\* and no worker is unlocked.  A thread does not check in a worker of which it
\* knows, or will be told as its call ends, that the supervisor killed it.
Doomed(t) ==
    \/ /\ InWatch(t)
       /\ \E i \in 1..Len(calls) : calls[i].pid = worker[t].pid /\ calls[i].killed
    \/ pc[t] \in {"unwatch", "diagnose", "judge"} /\ killed[t]
    \/ pc[t] \in {"drop", "account"}

Spoils(t, p, d) == Lent(t) /\ DocOf(t) = d /\ worker[t].pid = p /\ ~Doomed(t)

\* A corpse that is in the pool, or may yet be.
Spoilt(p, d) ==
    proc[p] # "alive" /\ (IdleIn(p, d) \/ \E t \in Threads : Spoils(t, p, d))

NoNewCorpse == \A d \in 1..Len(docs) : \A p : Spoilt(p, d)' => Spoilt(p, d)

FreshIsAlive ==
    \A t \in Threads :
        phase[t] # "unlock" /\ (pc[t] = "publish" => proc[worker[t].pid] = "alive")

OneCorpse ==
    crashes = 0 /\ ~Reissue /\ ~Encrypted =>
        /\ FreshIsAlive
        /\ \A d \in 1..Len(docs) : \A p, q : Spoilt(p, d) /\ Spoilt(q, d) => p = q

LEMMA OneCorpseAtMost ==
    ASSUME OwnerInv, OneCorpse
    PROVE  KilledStaysOut
<1> SUFFICES ASSUME crashes = 0, ~Reissue, ~Encrypted, NEW d \in 1..Len(docs),
                    NEW i \in 1..Len(docs[d].idle), NEW k \in 1..Len(docs[d].idle), i # k,
                    proc[docs[d].idle[i].pid] # "alive", proc[docs[d].idle[k].pid] # "alive"
             PROVE  FALSE
  BY DEF KilledStaysOut
<1>1. Spoilt(docs[d].idle[i].pid, d) /\ Spoilt(docs[d].idle[k].pid, d)
  BY DEF Spoilt, IdleIn
<1>2. docs[d].idle[i].pid = docs[d].idle[k].pid
  BY <1>1 DEF OneCorpse
<1> QED  BY <1>2, PidsDiffer

\* Which workers a step kills: those it reaps, or one that crashes.
LEMMA LivesOn ==
    ASSUME PoolInv, NEW t \in Threads,
           ThreadStep(t) \/ WorkerAnswers(t) \/ WorkerOverruns(t), crashes' = 0,
           NEW p \in Pids, proc[p] = "alive", \A w \in dropping[t] : w.pid # p,
           ~(worker[t].pid = p /\ (Forsake(t) \/ DropWorker(t)))
    PROVE  proc'[p] = "alive"
<1>1. /\ crashes \in Nat /\ \A q \in Pids : proc[q] \in {"free", "alive", "dead", "gone"}
      /\ proc \in [Pids -> {"free", "alive", "dead", "gone"}]
  BY DEF PoolInv, WorldTyped
<1>2. worker[t].pid # p => Reap(proc, {worker[t]})[p] = "alive"
  BY DEF Reap
<1>3. Reap(proc, dropping[t])[p] = "alive"
  BY DEF Reap
<1>4. CASE Forsake(t) \/ DropWorker(t)
  BY <1>2, <1>4 DEF Forsake, DropWorker
<1>5. CASE CloseKill(t)
  BY <1>3, <1>5 DEF CloseKill
<1>6. CASE WorkerOverruns(t)
  <2>1. crashes' = crashes + 1
    BY <1>6 DEF WorkerOverruns
  <2> QED  BY <1>1, <2>1
<1>7. CASE WorkerLost(t)
  <2>1. \/ proc' = proc
        \/ proc' = Reap(proc, {worker[t]}) /\ proc[worker[t].pid] = "dead"
    BY <1>7 DEF WorkerLost
  <2> QED  BY <1>2, <2>1
<1>8. CASE Spawn(t)
  BY <1>1, <1>8 DEF Spawn
<1>9. CASE Publish(t) \/ Checkin(t)
  <2>1. IsOpen(DocOf(t))
    BY <1>9 DEF Publish, Checkin, PoolInv, CloseWaitsForPool, Counted
  <2> QED  BY <1>9, <2>1 DEF Publish, Checkin
<1>10. CASE ~Forsake(t) /\ ~DropWorker(t) /\ ~CloseKill(t) /\ ~WorkerOverruns(t)
            /\ ~WorkerLost(t) /\ ~Spawn(t) /\ ~Publish(t) /\ ~Checkin(t)
  <2>1. proc' = proc
    BY <1>10 DEF ThreadStep, Recv, CheckoutRefused, CheckoutIdle, CheckoutGrow, CheckoutWait,
         SpawnFails, GiveBack, Watch, EndWatch, EndUnlock, EndOpen, EndServe, Diagnose, KeepWorker,
         CondemnWorker, Account, PublishDoc, Sweep, CloseRefused, CloseWait, CloseTake,
         WorkerAnswers, Exchanged
  <2> QED  BY <2>1
<1> QED  BY <1>4, <1>5, <1>6, <1>7, <1>8, <1>9, <1>10

\* What a close drops and what was retired is in no pool and nobody's hands.
LEMMA OutOfPools ==
    ASSUME OwnerInv, ~Reissue, NEW w,
           (\E t \in Threads : w \in dropping[t]) \/ w \in retired
    PROVE  /\ \A u \in Threads : worker[u] \in Worker => worker[u].pid # w.pid
           /\ \A d \in 1..Len(docs) : \A i \in 1..Len(docs[d].idle) :
                 docs[d].idle[i].pid # w.pid
<1>1. \A o, q \in Places : o # q => WorkerAt(o).pid # WorkerAt(q).pid
  BY DEF OwnerInv, Owners, NoClash, Clash
<1>2. PICK o \in Places : /\ WorkerAt(o) = w
                          /\ \A t, d, i : o # ThreadPlace(t) /\ o # IdlePlace(d, i)
  <2>1. CASE w \in retired
    BY <2>1, PlacesAre, WorkersAtPlaces, PlacesApart DEF OwnerInv, PoolInv
  <2>2. CASE \E t \in Threads : w \in dropping[t]
    BY <2>2, PlacesAre, WorkersAtPlaces, PlacesApart DEF OwnerInv, PoolInv
  <2> QED  BY <2>1, <2>2
<1>3. ASSUME NEW u \in Threads, worker[u] \in Worker  PROVE worker[u].pid # w.pid
  <2>1. ThreadPlace(u) \in Places /\ WorkerAt(ThreadPlace(u)) = worker[u]
    BY <1>3, PlacesAre, WorkersAtPlaces, PoolAssumption
       DEF OwnerInv, PoolInv, Worker, NoWorker
  <2> QED  BY <1>1, <1>2, <2>1
<1>4. ASSUME NEW d \in 1..Len(docs), NEW i \in 1..Len(docs[d].idle)
      PROVE  docs[d].idle[i].pid # w.pid
  <2>1. IdlePlace(d, i) \in Places /\ WorkerAt(IdlePlace(d, i)) = docs[d].idle[i]
    BY PlacesAre, WorkersAtPlaces DEF OwnerInv, PoolInv
  <2> QED  BY <1>1, <1>2, <2>1
<1> QED  BY <1>3, <1>4

\* A thread's kill flag is its own.
LEMMA FlagsOfOthers ==
    ASSUME PoolInv, NEW t \in Threads,
           ThreadStep(t) \/ WorkerAnswers(t) \/ WorkerOverruns(t)
    PROVE  \A u \in Threads \ {t} : killed'[u] = killed[u]
<1>1. killed \in [Threads -> BOOLEAN]
  BY DEF PoolInv, LocalTyped
<1>2. killed' = killed => \A u \in Threads \ {t} : killed'[u] = killed[u]
  OBVIOUS
<1>3. ASSUME EndWatch(t)  PROVE \A u \in Threads \ {t} : killed'[u] = killed[u]
  BY <1>1, <1>3 DEF EndWatch
<1>4. ASSUME Rest(t)  PROVE \A u \in Threads \ {t} : killed'[u] = killed[u]
  BY <1>1, <1>4 DEF Rest
<1>5. \A what : Reply(t, what) \/ ReplyAndNotify(t, what) => Rest(t)
  BY DEF Reply, ReplyAndNotify
<1>6. CASE EndWatch(t) \/ EndUnlock(t) \/ EndOpen(t) \/ EndServe(t)
  BY <1>3, <1>6 DEF EndWatch, EndUnlock, EndOpen, EndServe
<1>7. CASE Recv(t) \/ CheckoutRefused(t) \/ CheckoutIdle(t) \/ CheckoutGrow(t)
           \/ CheckoutWait(t) \/ Spawn(t) \/ SpawnFails(t) \/ GiveBack(t)
  BY <1>2, <1>4, <1>5, <1>7 DEF Recv, CheckoutRefused, CheckoutIdle, CheckoutGrow,
       CheckoutWait, Spawn, SpawnFails, GiveBack, local
<1>8. CASE Forsake(t) \/ Publish(t) \/ Watch(t) \/ WorkerLost(t) \/ WorkerAnswers(t)
           \/ WorkerOverruns(t) \/ Diagnose(t) \/ KeepWorker(t) \/ CondemnWorker(t)
  BY <1>2, <1>4, <1>5, <1>8 DEF Forsake, Publish, Watch, WorkerLost, WorkerAnswers,
       WorkerOverruns, Exchanged, Diagnose, KeepWorker, CondemnWorker, local
<1>9. CASE Checkin(t) \/ DropWorker(t) \/ Account(t) \/ PublishDoc(t) \/ Sweep(t)
           \/ CloseRefused(t) \/ CloseWait(t) \/ CloseTake(t) \/ CloseKill(t)
  BY <1>2, <1>4, <1>5, <1>9 DEF Checkin, DropWorker, Account, PublishDoc, Sweep,
       CloseRefused, CloseWait, CloseTake, CloseKill, local
<1> QED  BY <1>6, <1>7, <1>8, <1>9 DEF ThreadStep

\* What happens to an entry of a pid that thread t does not have.
LEMMA EntriesOfOthers ==
    ASSUME PoolInv, NEW t \in Threads,
           ThreadStep(t) \/ WorkerAnswers(t) \/ WorkerOverruns(t),
           NEW i \in 1..Len(calls), calls[i].pid # worker[t].pid
    PROVE  \E k \in 1..Len(calls') : calls'[k] = calls[i]
<1>1. PICK n \in Nat : n = Len(calls)
  BY LenProperties DEF PoolInv, WorldTyped
<1>2. calls \in Seq([pid : Pids, killed : BOOLEAN])
  BY DEF PoolInv, WorldTyped
<1>3. CASE calls' = calls
  BY <1>3
<1>4. CASE Watch(t)
  <2>1. PICK c : c = [pid |-> worker[t].pid, killed |-> FALSE]
    OBVIOUS
  <2>2. worker[t] \in Worker /\ calls' = Append(calls, c)
    BY <1>4, <2>1 DEF Watch, PoolInv, Row, WorkerRow, Holding
  <2>3. c \in [pid : Pids, killed : BOOLEAN]
    BY <2>1, <2>2 DEF Worker
  <2>4. Len(calls') = n + 1 /\ calls'[i] = calls[i]
    BY <1>1, <1>2, <2>2, <2>3, AppendProperties
  <2> QED  BY <1>1, <2>4
<1>5. CASE Take(t) /\ calls' # calls
  <2>1. PICK e \in 1..n : e = EntryOf(t) /\ calls[e].pid = worker[t].pid
    BY <1>1, <1>5, EntryFound DEF Take, PoolInv
  <2>2. calls' = Without(calls, e)
    BY <1>5, <2>1 DEF Take
  <2>3. /\ Len(calls') = n - 1
        /\ \A k \in 1..(n - 1) : calls'[k] = IF k < e THEN calls[k] ELSE calls[k + 1]
    BY <1>1, <1>2, <2>1, <2>2, WithoutOne
  <2>4. i # e
    BY <2>1
  <2>5. CASE i < e
    <3>1. i \in 1..(n - 1)
      BY <1>1, <2>1, <2>5
    <3> QED  BY <2>3, <2>5, <3>1
  <2>6. CASE e < i
    <3>1. i - 1 \in 1..(n - 1) /\ ~(i - 1 < e) /\ (i - 1) + 1 = i
      BY <1>1, <2>1, <2>6
    <3> QED  BY <2>3, <3>1
  <2> QED  BY <1>1, <2>1, <2>4, <2>5, <2>6
<1>6. ASSUME ~Watch(t), ~Take(t)  PROVE calls' = calls
  <2>1. ~EndWatch(t) /\ ~EndUnlock(t) /\ ~EndOpen(t) /\ ~EndServe(t)
    BY <1>6 DEF EndWatch, EndUnlock, EndOpen, EndServe, DropWatch
  <2> QED  BY <1>6, <2>1, ExchangeGoesOn
<1> QED  BY <1>3, <1>4, <1>5, <1>6

LEMMA OthersStayDoomed ==
    ASSUME OwnerInv, ~Reissue, NEW t \in Threads,
           ThreadStep(t) \/ WorkerAnswers(t) \/ WorkerOverruns(t),
           NEW u \in Threads \ {t}, Doomed(u)
    PROVE  Doomed(u)'
<1>1. PoolInv /\ Alone(t) /\ worker'[u] = worker[u] /\ killed'[u] = killed[u]
  BY ThreadLocals, FlagsOfOthers DEF OwnerInv, Alone
<1>2. pc[u] \notin {"waiting", "closing"} => pc'[u] = pc[u]
  BY <1>1 DEF Alone
<1>3. CASE InWatch(u)
  <2>1. PICK i \in 1..Len(calls) : calls[i].pid = worker[u].pid /\ calls[i].killed
    BY <1>3 DEF Doomed, InWatch
  <2>2. worker[u] \in Worker /\ InWatch(u)'
    BY <1>1, <1>2, <1>3 DEF InWatch, PoolInv, Row, WorkerRow, Holding
  <2>3. calls[i].pid # worker[t].pid
    <3>1. CASE worker[t] \in Worker
      BY <2>1, <2>2, <3>1, PidsDiffer
    <3>2. CASE worker[t] = NoWorker
      BY <2>1, <2>2, <3>2, PoolAssumption DEF NoWorker, Worker
    <3> QED  BY <1>1, <3>1, <3>2 DEF PoolInv, LocalTyped
  <2>4. PICK k \in 1..Len(calls') : calls'[k] = calls[i]
    BY <1>1, <2>3, EntriesOfOthers
  <2> QED  BY <1>1, <2>1, <2>2, <2>4 DEF Doomed
<1>4. CASE ~InWatch(u)
  BY <1>1, <1>2, <1>4 DEF Doomed
<1> QED  BY <1>3, <1>4

\* Two entries are of two pids.
LEMMA EntriesDiffer ==
    ASSUME OwnerInv, CallsMatch, ~Reissue,
           NEW i \in 1..Len(calls), NEW k \in 1..Len(calls), calls[i].pid = calls[k].pid
    PROVE  i = k
<1>1. PICK g \in [1..Len(calls) -> Threads] : Matches(g)
  BY DEF CallsMatch
<1>2. /\ InWatch(g[i]) /\ worker[g[i]].pid = calls[i].pid
      /\ InWatch(g[k]) /\ worker[g[k]].pid = calls[k].pid
  BY <1>1 DEF Matches
<1>3. worker[g[i]] \in Worker /\ worker[g[k]] \in Worker
  BY <1>1, <1>2 DEF InWatch, OwnerInv, PoolInv, Row, WorkerRow, Holding
<1>4. g[i] = g[k]
  BY <1>1, <1>2, <1>3, PidsDiffer
<1> QED  BY <1>1, <1>4 DEF Matches

\* A thread does not forget that its worker was killed.
LEMMA StaysDoomed ==
    ASSUME OwnerInv, CallsMatch, ~Reissue, NEW t \in Threads, Lent(t), Doomed(t),
           ThreadStep(t) \/ WorkerAnswers(t) \/ WorkerOverruns(t), ~Account(t)
    PROVE  Doomed(t)'
<1>1. PoolInv /\ LocalTyped
  BY DEF OwnerInv, PoolInv
<1>2. \A to \in PcValues : Goto(t, to) => pc'[t] = to
  BY <1>1, GotoMoves
<1>3. /\ pc[t] \in {"inside", "end", "unwatch", "diagnose", "judge", "drop", "account"}
      /\ phase[t] = "serve"
  BY DEF Lent, Doomed, InWatch
<1>4. CASE WorkerAnswers(t) \/ WorkerOverruns(t) \/ WorkerLost(t)
  <2>1. pc[t] = "inside" /\ pc'[t] = "end"
    BY <1>2, <1>4 DEF WorkerAnswers, WorkerOverruns, WorkerLost, Exchanged, PcValues
  <2>2. ~Watch(t) /\ ~EndWatch(t) /\ ~EndUnlock(t) /\ ~EndOpen(t) /\ ~EndServe(t)
    BY <2>1 DEF Watch, EndWatch, EndUnlock, EndOpen, EndServe, DropWatch
  <2>3. InWatch(t)' /\ worker'[t].pid = worker[t].pid /\ calls' = calls
    BY <1>1, <2>1, <2>2, ExchangeGoesOn DEF InWatch
  <2> QED  BY <2>1, <2>3 DEF Doomed, InWatch
<1>5. CASE EndWatch(t)
  <2>1. PICK i \in 1..Len(calls) : calls[i].pid = worker[t].pid /\ calls[i].killed
    BY <1>5 DEF Doomed, EndWatch
  <2>2. EntryOf(t) \in 1..Len(calls) /\ calls[EntryOf(t)].pid = worker[t].pid
    BY <1>1, <2>1, EntryFound DEF PoolInv
  <2>3. EntryOf(t) = i
    BY <2>1, <2>2, EntriesDiffer
  <2>4. EntryOf(t) # 0
    <3>1. 0 \notin 1..Len(calls)
      OBVIOUS
    <3> QED  BY <2>2, <3>1
  <2>5. killed'[t] = TRUE
    BY <1>1, <1>5, <2>1, <2>3, <2>4 DEF EndWatch, LocalTyped
  <2>6. pc'[t] = "unwatch"
    BY <1>2, <1>5 DEF EndWatch, PcValues
  <2> QED  BY <2>5, <2>6 DEF Doomed
<1>5a. CASE EndServe(t)
  <2>1. killed[t] /\ killed' = killed
    BY <1>5a DEF Doomed, EndServe, DropWatch, InWatch
  <2>2. pc'[t] \in {"drop", "diagnose"}
    BY <1>2, <1>5a, <2>1 DEF EndServe, PcValues
  <2> QED  BY <2>1, <2>2 DEF Doomed
<1>6. CASE Diagnose(t) \/ CondemnWorker(t) \/ DropWorker(t)
  <2>1. pc'[t] \in {"drop", "judge", "account"} /\ killed' = killed
    BY <1>2, <1>6 DEF Diagnose, CondemnWorker, DropWorker, PcValues
  <2>2. pc'[t] = "judge" => killed[t]
    BY <1>2, <1>6 DEF Diagnose, CondemnWorker, DropWorker, PcValues, Doomed, InWatch
  <2> QED  BY <2>1, <2>2 DEF Doomed
<1>7. ~KeepWorker(t)
  BY DEF KeepWorker, SeemsRunning, Doomed, InWatch
<1>8. ~(\/ Recv(t) \/ CheckoutRefused(t) \/ CheckoutIdle(t) \/ CheckoutGrow(t)
        \/ CheckoutWait(t) \/ Spawn(t) \/ SpawnFails(t) \/ GiveBack(t) \/ Forsake(t)
        \/ Publish(t) \/ Watch(t) \/ EndUnlock(t) \/ EndOpen(t) \/ Checkin(t))
  BY <1>3 DEF Recv, CheckoutRefused, CheckoutIdle, CheckoutGrow, CheckoutWait, Spawn,
       SpawnFails, GiveBack, Forsake, Publish, Watch, EndUnlock, EndOpen, Checkin, Serving
<1>9. ~(PublishDoc(t) \/ Sweep(t) \/ CloseRefused(t) \/ CloseWait(t) \/ CloseTake(t)
        \/ CloseKill(t))
  BY <1>3 DEF PublishDoc, Sweep, CloseRefused, CloseWait, CloseTake, CloseKill
<1> QED  BY <1>4, <1>5, <1>5a, <1>6, <1>7, <1>8, <1>9 DEF ThreadStep

\* Only a checkin brings a worker into a pool that is there.
LEMMA OnlyCheckinShelves ==
    ASSUME PoolInv, LentIsCounted, NEW t \in Threads,
           ThreadStep(t) \/ WorkerAnswers(t) \/ WorkerOverruns(t),
           NEW d \in 1..Len(docs), NEW p, IdleIn(p, d)'
    PROVE  IdleIn(p, d) \/ (Checkin(t) /\ d = DocOf(t) /\ p = worker[t].pid)
<1>1. DocsTyped /\ docs[d] \in Held /\ Len(docs[d].idle) \in Nat
  BY HeldAt DEF PoolInv
<1>2. docs'[d].idle = docs[d].idle => IdleIn(p, d)
  BY DEF IdleIn
<1>3. PICK e : e = DocOf(t)
  OBVIOUS
<1>4. CASE CheckoutIdle(t)
  <2>1. PICK n : n = Len(docs[e].idle)
    OBVIOUS
  <2>2. PICK s : s = SubSeq(docs[e].idle, 1, n - 1)
    OBVIOUS
  <2>3. /\ e \in 1..Len(docs) /\ n \in Nat /\ Len(s) = n - 1
        /\ \A i \in 1..(n - 1) : s[i] = docs[e].idle[i]
        /\ Only(e, [docs[e] EXCEPT !.idle = s]) /\ docs[e] \in Held
    BY <1>1, <1>3, <1>4, <2>1, <2>2, CheckoutIdleDocs, HeldAt DEF IsOpen
  <2>4. docs'[e].idle = s /\ (e # d => docs'[d] = docs[d])
    BY <2>3 DEF Only, Held
  <2>5. CASE d = e
    <3>1. \A i \in 1..(n - 1) : i \in 1..n
      BY <2>3
    <3> QED  BY <2>1, <2>3, <2>4, <2>5, <3>1 DEF IdleIn
  <2> QED  BY <1>2, <2>4, <2>5
<1>5. CASE Publish(t) \/ Account(t)
  <2>1. Publish(t) => IsOpen(DocOf(t))
    BY DEF Publish, PoolInv, CloseWaitsForPool, Counted
  <2>2. SameIdle
    BY <1>5, <2>1, TablesKeepIdle
  <2> QED  BY <1>2, <2>2 DEF SameIdle
<1>6. CASE Checkin(t)
  <2>1. worker[t] \in Worker /\ IsOpen(e)
    BY <1>3, <1>6 DEF Checkin, PoolInv, CloseWaitsForPool, Counted, Row, WorkerRow, Holding
  <2>2. PICK n \in Nat : n = Len(docs[e].idle) /\ e \in 1..Len(docs) /\ docs[e] \in Held
    BY <1>1, <2>1, HeldAt DEF IsOpen
  <2>3. PICK s : s = Append(docs[e].idle, worker[t])
    OBVIOUS
  <2>4. /\ Len(s) = n + 1 /\ \A i \in 1..n : s[i] = docs[e].idle[i]
        /\ s[n + 1] = worker[t] /\ Only(e, [docs[e] EXCEPT !.idle = s])
    BY <1>1, <1>3, <1>6, <2>1, <2>2, <2>3, CheckinDocs
  <2>5. docs'[e].idle = s /\ (e # d => docs'[d] = docs[d])
    BY <2>2, <2>4 DEF Only, Held
  <2>6. CASE d = e
    <3>1. PICK i \in 1..(n + 1) : s[i].pid = p
      BY <2>4, <2>5, <2>6 DEF IdleIn
    <3>2. i \in 1..n \/ i = n + 1
      OBVIOUS
    <3> QED  BY <1>3, <1>6, <2>2, <2>4, <2>6, <3>1, <3>2 DEF IdleIn
  <2> QED  BY <1>2, <2>5, <2>6
<1>7. CASE CloseTake(t)
  <2>1. PICK h : h = Target(t)
    OBVIOUS
  <2>2. IsOpen(h) /\ Only(h, Hole)
    BY <1>1, <1>7, <2>1, CloseTakeDocs
  <2>3. CASE d = h
    <3>1. docs'[d].idle = <<>> /\ Len(docs'[d].idle) = 0
      BY <2>2, <2>3, EmptySeq DEF Only, Hole, IsOpen
    <3> QED  BY <3>1 DEF IdleIn
  <2>4. CASE d # h
    BY <1>2, <2>2, <2>4 DEF Only
  <2> QED  BY <2>3, <2>4
<1>8. CASE PublishDoc(t)
  <2>1. worker[t] \in Worker
    BY <1>8 DEF PublishDoc, PoolInv, Row, WorkerRow, Holding
  <2>2. docs'[d] = docs[d]
    BY <1>1, <1>8, <2>1, PublishDocDocs
  <2> QED  BY <1>2, <2>2
<1>9. CASE ~CheckoutIdle(t) /\ ~Publish(t) /\ ~Checkin(t) /\ ~Account(t)
           /\ ~CloseTake(t) /\ ~PublishDoc(t)
  BY <1>2, <1>9, SlotsStay DEF SameMembers
<1> QED  BY <1>4, <1>5, <1>6, <1>7, <1>8, <1>9

\* A corpse that a thread may check in afterwards it might before, or it took
\* it out of the pool.
LEMMA CorpsesInHand ==
    ASSUME OwnerInv, CallsMatch, LentIsCounted, ~Reissue, ~Encrypted, FreshIsAlive,
           NEW t \in Threads, ThreadStep(t) \/ WorkerAnswers(t) \/ WorkerOverruns(t),
           crashes' = 0, NEW d \in 1..Len(docs), NEW p, proc'[p] # "alive", Spoils(t, p, d)'
    PROVE  Spoilt(p, d)
<1>1. PoolInv /\ LocalTyped /\ Lent(t)'
  BY DEF OwnerInv, PoolInv, Spoils
<1>2. ~(Checkin(t) \/ Account(t))
  <2>1. \A to \in PcValues \ {"waiting", "closing"} : NotifyAndGoto(t, to) => pc'[t] = to
    BY <1>1, NotifyMoves
  <2>2. Checkin(t) \/ Account(t) => pc'[t] \in {"idle", "checkout"}
    BY <2>1 DEF Checkin, Account, ReplyAndNotify, PcValues
  <2> QED  BY <1>1, <2>2 DEF Lent, Lending
<1>3. CASE CheckoutIdle(t)
  <2>1. PICK e : e = DocOf(t)
    OBVIOUS
  <2>2. PICK n \in Nat : n = Len(docs[e].idle) /\ n > 0 /\ e \in 1..Len(docs)
    BY <1>1, <1>3, <2>1, HeldAt DEF CheckoutIdle, Serving, IsOpen, PoolInv
  <2>3. worker'[t] = docs[e].idle[n] /\ DocOf(t)' = e /\ proc' = proc
    BY <1>1, <1>3, <2>1, <2>2 DEF CheckoutIdle, DocOf, LocalTyped
  <2>4. d = e /\ p = docs[e].idle[n].pid
    BY <2>3 DEF Spoils
  <2>5. IdleIn(p, d)
    BY <2>2, <2>4 DEF IdleIn
  <2> QED  BY <2>3, <2>5 DEF Spoilt
<1>4. CASE Publish(t)
  <2>1. IsOpen(DocOf(t)) /\ proc[worker[t].pid] = "alive"
    BY <1>1, <1>4 DEF Publish, PoolInv, CloseWaitsForPool, Counted, FreshIsAlive
  <2>2. proc' = proc /\ worker' = worker
    BY <1>4, <2>1 DEF Publish
  <2> QED  BY <2>1, <2>2 DEF Spoils
<1>5. CASE ~CheckoutIdle(t) /\ ~Publish(t)
  <2>1. Lent(t) /\ DocOf(t)' = DocOf(t) /\ worker'[t].pid = worker[t].pid
    BY <1>1, <1>2, <1>5, LentStays
  <2>2. Spoils(t, p, d)
    BY <1>2, <2>1, StaysDoomed DEF Spoils
  <2>3. ~Forsake(t) /\ ~DropWorker(t) /\ pc[t] # "kill"
    <3>1. DropWorker(t) => pc'[t] = "account"
      BY <1>1, GotoMoves DEF DropWorker, PcValues
    <3>2. ~DropWorker(t)
      BY <3>1 DEF Spoils, Doomed
    <3> QED  BY <2>1, <3>2 DEF Forsake, Lent, Lending
  <2>4. worker[t] \in Worker /\ p \in Pids /\ dropping[t] = {}
    BY <1>1, <2>1, <2>2, <2>3 DEF LentIsCounted, Spoils, Worker, PoolInv, Row, WorkerRow
  <2>5. proc[p] # "alive"
    BY <1>1, <2>3, <2>4, LivesOn
  <2> QED  BY <2>2, <2>5 DEF Spoilt
<1> QED  BY <1>3, <1>4, <1>5

LEMMA ThreadsAddNoCorpse ==
    ASSUME OwnerInv, CallsMatch, LentIsCounted, ~Reissue, ~Encrypted, FreshIsAlive,
           NEW t \in Threads, ThreadStep(t) \/ WorkerAnswers(t) \/ WorkerOverruns(t),
           crashes' = 0
    PROVE  NoNewCorpse
<1> SUFFICES ASSUME NEW d \in 1..Len(docs), NEW p, Spoilt(p, d)'  PROVE Spoilt(p, d)
  BY DEF NoNewCorpse
<1>1. PoolInv /\ proc'[p] # "alive"
  BY DEF OwnerInv, Spoilt
\* A worker that the step does not touch was dead before it.
<1>2. ASSUME p \in Pids, worker[t] \in Worker => worker[t].pid # p,
             \A w \in dropping[t] : w.pid # p
      PROVE  proc[p] # "alive"
  <2>1. Forsake(t) \/ DropWorker(t) => worker[t] \in Worker
    BY <1>1 DEF Forsake, DropWorker, PoolInv, Row, WorkerRow, Holding
  <2> QED  BY <1>1, <1>2, <2>1, LivesOn
<1>3. CASE IdleIn(p, d)
  <2>1. PICK i \in 1..Len(docs[d].idle) : docs[d].idle[i].pid = p
    BY <1>3 DEF IdleIn
  <2>2. docs[d].idle[i] \in Worker
    BY <1>1, <2>1, HeldAt DEF PoolInv
  <2>3. /\ p \in Pids /\ (worker[t] \in Worker => worker[t].pid # p)
        /\ \A w \in dropping[t] : w.pid # p
    BY <2>1, <2>2, PidsDiffer, OutOfPools DEF Worker
  <2> QED  BY <1>2, <1>3, <2>3 DEF Spoilt
<1>4. CASE IdleIn(p, d)' /\ ~IdleIn(p, d)
  <2>1. Checkin(t) /\ d = DocOf(t) /\ p = worker[t].pid
    BY <1>1, <1>4, OnlyCheckinShelves
  <2>2. Spoils(t, p, d)
    BY <2>1 DEF Spoils, Doomed, InWatch, Lent, Lending, LentIsCounted, Checkin
  <2>3. proc' = proc
    BY <1>1, <2>1 DEF Checkin, PoolInv, CloseWaitsForPool, Counted
  <2> QED  BY <1>1, <2>2, <2>3 DEF Spoilt
<1>5. CASE Spoils(t, p, d)'
  BY <1>1, <1>5, CorpsesInHand
<1>6. ASSUME NEW u \in Threads \ {t}, Spoils(u, p, d)'  PROVE Spoilt(p, d)
  <2>1. (Lent(u)' <=> Lent(u)) /\ DocOf(u)' = DocOf(u) /\ worker'[u] = worker[u]
    BY <1>1, OthersLent
  <2>2. Spoils(u, p, d)
    BY <1>6, <2>1, OthersStayDoomed DEF Spoils
  <2>3. worker[u] \in Worker /\ worker[u].pid = p
    BY <2>2 DEF Spoils, LentIsCounted
  <2>4. /\ p \in Pids /\ (worker[t] \in Worker => worker[t].pid # p)
        /\ \A w \in dropping[t] : w.pid # p
    BY <2>3, PidsDiffer, OutOfPools DEF Worker
  <2> QED  BY <1>2, <2>2, <2>4 DEF Spoilt
<1>7. IdleIn(p, d)' \/ \E u \in Threads : Spoils(u, p, d)'
  BY DEF Spoilt
<1> QED  BY <1>3, <1>4, <1>5, <1>6, <1>7

\* A worker that is adopted into a pool is alive.
LEMMA ThreadsAdoptTheLiving ==
    ASSUME OwnerInv, ~Reissue, ~Encrypted, FreshIsAlive,
           NEW t \in Threads, ThreadStep(t) \/ WorkerAnswers(t) \/ WorkerOverruns(t),
           crashes' = 0
    PROVE  FreshIsAlive'
<1>1. PoolInv /\ LocalTyped /\ LocalTyped' /\ Alone(t)
  BY ThreadLocals DEF OwnerInv, PoolInv
<1>2. \A to \in PcValues : Goto(t, to) => pc'[t] = to
  BY <1>1, GotoMoves
<1>3. \A to \in PcValues \ {"waiting", "closing"} : NotifyAndGoto(t, to) => pc'[t] = to
  BY <1>1, NotifyMoves
<1>4. \A what : Reply(t, what) \/ ReplyAndNotify(t, what) =>
          pc'[t] = "idle" /\ phase'[t] = "serve"
  BY <1>1, <1>2, <1>3 DEF Reply, ReplyAndNotify, Rest, PcValues, LocalTyped
<1> DEFINE Fresh(u) ==
        phase[u] # "unlock" /\ (pc[u] = "publish" => proc[worker[u].pid] = "alive")
<1>5. ASSUME NEW u \in Threads \ {t}  PROVE Fresh(u)'
  <2>1. phase'[u] = phase[u] /\ worker'[u] = worker[u]
        /\ (pc'[u] = "publish" => pc[u] = "publish")
    BY <1>1 DEF Alone
  <2>2. CASE pc[u] = "publish"
    <3>1. worker[u] \in Worker /\ proc[worker[u].pid] = "alive"
      BY <1>1, <2>2 DEF FreshIsAlive, PoolInv, Row, WorkerRow, Holding
    <3>2. Forsake(t) \/ DropWorker(t) => worker[t] \in Worker
      BY <1>1 DEF Forsake, DropWorker, PoolInv, Row, WorkerRow, Holding
    <3>3. proc'[worker[u].pid] = "alive"
      BY <1>1, <3>1, <3>2, PidsDiffer, OutOfPools, LivesOn DEF Worker
    <3> QED  BY <2>1, <3>3 DEF FreshIsAlive
  <2> QED  BY <2>1, <2>2 DEF FreshIsAlive
<1>6. Fresh(t)'
  <2>1. phase[t] # "unlock"
    BY DEF FreshIsAlive
  <2>2. CASE Spawn(t)
    <3>1. PICK p \in Pids : /\ proc' = [proc EXCEPT ![p] = "alive"]
                            /\ worker' = [worker EXCEPT ![t] = [pid |-> p, reaped |-> FALSE]]
      BY <2>2 DEF Spawn
    <3>2. proc'[worker'[t].pid] = "alive"
      BY <1>1, <3>1 DEF PoolInv, WorldTyped, LocalTyped
    <3>3. phase' = phase
      BY <2>2 DEF Spawn
    <3> QED  BY <2>1, <3>2, <3>3
  <2>3. CASE ~Spawn(t)
    <3>1. ~EndUnlock(t)
      BY <2>1 DEF EndUnlock
    <3>2. CASE Publish(t)
      <4>1. IsOpen(DocOf(t))
        BY <1>1, <3>2 DEF Publish, PoolInv, CloseWaitsForPool, Counted
      <4>2. pc'[t] = "watch" /\ phase'[t] = "serve"
        BY <1>1, <1>2, <3>2, <4>1 DEF Publish, PcValues, LocalTyped
      <4> QED  BY <4>2
    <3>3. CASE Recv(t) \/ CheckoutRefused(t) \/ CheckoutIdle(t) \/ CheckoutGrow(t)
               \/ CheckoutWait(t) \/ SpawnFails(t) \/ GiveBack(t) \/ Forsake(t)
      <4>1. pc'[t] # "publish"
        BY <1>2, <1>3, <1>4, <3>3 DEF Recv, CheckoutRefused, CheckoutIdle, CheckoutGrow,
             CheckoutWait, SpawnFails, GiveBack, Forsake, PcValues
      <4>2. phase'[t] \in {phase[t], "open", "serve"}
        BY <1>1, <1>4, <3>3 DEF Recv, CheckoutRefused, CheckoutIdle, CheckoutGrow,
             CheckoutWait, SpawnFails, GiveBack, Forsake, LocalTyped, local, ReplyAndNotify,
             Reply, Rest
      <4> QED  BY <2>1, <4>1, <4>2
    <3>4. CASE Watch(t) \/ WorkerLost(t) \/ WorkerAnswers(t) \/ WorkerOverruns(t)
               \/ EndWatch(t) \/ EndOpen(t) \/ EndServe(t) \/ Diagnose(t) \/ KeepWorker(t)
               \/ CondemnWorker(t) \/ DropWorker(t)
      <4>1. pc'[t] # "publish"
        BY <1>2, <3>4 DEF Watch, WorkerLost, WorkerAnswers, WorkerOverruns, Exchanged,
             EndWatch, EndOpen, EndServe, Diagnose, KeepWorker, CondemnWorker, DropWorker, PcValues
      <4>2. phase' = phase
        BY <3>4 DEF Watch, WorkerLost, WorkerAnswers, WorkerOverruns, Exchanged,
             EndWatch, EndOpen, EndServe, Diagnose, KeepWorker, CondemnWorker, DropWorker, local
      <4> QED  BY <2>1, <4>1, <4>2
    <3>5. CASE Checkin(t) \/ Account(t) \/ PublishDoc(t) \/ Sweep(t) \/ CloseRefused(t)
               \/ CloseWait(t) \/ CloseTake(t) \/ CloseKill(t)
      <4>1. pc'[t] # "publish"
        BY <1>2, <1>3, <1>4, <3>5 DEF Checkin, Account, PublishDoc, Sweep, CloseRefused,
             CloseWait, CloseTake, CloseKill, PcValues
      <4>2. phase' = phase \/ phase'[t] = "serve"
        BY <1>4, <3>5 DEF Checkin, Account, PublishDoc, Sweep, CloseRefused, CloseWait,
             CloseTake, CloseKill, local
      <4> QED  BY <2>1, <4>1, <4>2
    <3> QED  BY <2>3, <3>1, <3>2, <3>3, <3>4, <3>5 DEF ThreadStep
  <2> QED  BY <2>2, <2>3
<1> QED  BY <1>5, <1>6 DEF FreshIsAlive

\* The reaper, the supervisor and the world: who is lent stays lent.
LEMMA LoansGoOn ==
    ASSUME PoolInv, LentIsCounted, [Next]_vars,
           ~\E t \in Threads : ThreadStep(t) \/ WorkerAnswers(t) \/ WorkerOverruns(t)
    PROVE  /\ worker' = worker /\ phase' = phase /\ killed' = killed
           /\ Len(docs') = Len(docs)
           /\ \A u \in Threads :
                 /\ Lent(u)' <=> Lent(u)
                 /\ Lent(u) => DocOf(u)' = DocOf(u) /\ pc'[u] = pc[u]
                 /\ pc'[u] = "publish" => pc[u] = "publish"
           /\ \A d \in 1..Len(docs) : \A p : IdleIn(p, d)' => IdleIn(p, d)
<1>1. QueueTyped /\ DocsTyped
  BY DEF PoolInv
<1> DEFINE Goal ==
        /\ worker' = worker /\ phase' = phase /\ killed' = killed
        /\ Len(docs') = Len(docs)
        /\ \A u \in Threads :
              /\ Lent(u)' <=> Lent(u)
              /\ Lent(u) => DocOf(u)' = DocOf(u) /\ pc'[u] = pc[u]
              /\ pc'[u] = "publish" => pc[u] = "publish"
        /\ \A d \in 1..Len(docs) : \A p : IdleIn(p, d)' => IdleIn(p, d)
<1>2. docs' = docs => /\ Len(docs') = Len(docs)
                      /\ \A d \in 1..Len(docs) : \A p : IdleIn(p, d)' => IdleIn(p, d)
  BY DEF IdleIn
<1>3. ASSUME NEW req \in Request, Send(req)  PROVE Goal
  <2>1. /\ sent' = Append(sent, req) /\ docs' = docs /\ pc' = pc /\ phase' = phase
        /\ worker' = worker /\ job' = job /\ killed' = killed
    BY <1>3 DEF Send, local
  <2>2. \A j \in 1..Len(sent) : sent'[j] = sent[j]
    BY <1>1, <2>1, AppendProperties DEF QueueTyped
  <2>3. \A u \in Threads : Lent(u) => DocOf(u)' = DocOf(u)
    BY <2>1, <2>2 DEF LentIsCounted, DocOf
  <2> QED  BY <1>2, <2>1, <2>3 DEF Lent
<1>4. CASE RetireKill
  <2>1. docs' = docs /\ phase' = phase /\ worker' = worker /\ job' = job /\ sent' = sent
        /\ killed' = killed
    BY <1>4 DEF RetireKill, local
  <2>2. \A u \in Threads : pc[u] \notin {"waiting", "closing"} => pc'[u] = pc[u]
    BY <1>4 DEF RetireKill, WakeAll
  <2>3. \A u \in Threads : pc'[u] \notin {"checkout", "close"} => pc'[u] = pc[u]
    BY <1>4 DEF RetireKill, WakeAll
  <2> QED  BY <1>2, <2>1, <2>2, <2>3 DEF Lent, Lending, DocOf
<1>5. CASE KillOverdue \/ (\E d \in Doc : Truncate(d)) \/ (\E p \in Pids : Crash(p))
           \/ UNCHANGED vars
  <2>1. /\ docs' = docs /\ phase' = phase /\ worker' = worker /\ job' = job /\ sent' = sent
        /\ pc' = pc /\ killed' = killed
    BY <1>5 DEF KillOverdue, Truncate, Crash, vars, local
  <2> QED  BY <1>2, <2>1 DEF Lent, DocOf
<1>6. ASSUME NEW e \in Doc, RetireIdle(e)  PROVE Goal
  <2>1. /\ phase' = phase /\ worker' = worker /\ job' = job /\ sent' = sent
        /\ pc' = pc /\ killed' = killed
    BY <1>6 DEF RetireIdle, local
  <2>2. PICK k \in 1..Len(docs[e].idle) :
          LET s == SubSeq(docs[e].idle, k + 1, Len(docs[e].idle))
              ws == {docs[e].idle[i] : i \in 1..k}
          IN  /\ IsOpen(e) /\ Len(s) = Len(docs[e].idle) - k
              /\ \A i \in 1..Len(s) : s[i] = docs[e].idle[i + k]
              /\ Only(e, [docs[e] EXCEPT !.idle = s, !.spawned = @ - k,
                            !.senders = @ \ {w.pid : w \in ws}])
    BY <1>1, <1>6, RetireIdleDocs
  <2>3. PICK s, f : /\ s = SubSeq(docs[e].idle, k + 1, Len(docs[e].idle))
                    /\ f = docs[e].senders \ {w.pid : w \in {docs[e].idle[i] : i \in 1..k}}
                    /\ Len(s) = Len(docs[e].idle) - k
                    /\ \A i \in 1..Len(s) : s[i] = docs[e].idle[i + k]
                    /\ Only(e, [docs[e] EXCEPT !.idle = s, !.spawned = @ - k, !.senders = f])
    BY <2>2
  <2> DEFINE h == [docs[e] EXCEPT !.idle = s, !.spawned = @ - k, !.senders = f]
  <2>8. h.idle = s /\ Only(e, h) /\ e \in 1..Len(docs)
    BY <1>1, <2>2, <2>3, HeldAt DEF Held, IsOpen
  <2> HIDE DEF h
  <2>4. /\ Len(docs') = Len(docs) /\ docs'[e].idle = s /\ e \in 1..Len(docs)
        /\ \A d \in 1..Len(docs) : d # e => docs'[d] = docs[d]
    BY <2>8 DEF Only
  <2>5. Len(docs[e].idle) \in Nat
    BY <1>1, <2>4, HeldAt
  <2>6. \A i \in 1..Len(s) : i + k \in 1..Len(docs[e].idle)
    BY <2>3, <2>5
  <2>7. ASSUME NEW d \in 1..Len(docs), NEW p, IdleIn(p, d)'  PROVE IdleIn(p, d)
    BY ZenonT(30), <2>3, <2>4, <2>6, <2>7 DEF IdleIn
  <2> QED  BY <2>1, <2>4, <2>7 DEF Lent, DocOf
<1> QED  BY <1>3, <1>4, <1>5, <1>6 DEF Next

\* The supervisor kills the workers of calls under way, and marks those calls.
LEMMA TheKilledAreDoomed ==
    ASSUME OwnerInv, CallsMatch, LentIsCounted, ~Reissue, KillOverdue,
           NEW p \in Pids, proc[p] = "alive", proc'[p] # "alive"
    PROVE  /\ \A d \in 1..Len(docs) : ~IdleIn(p, d)
           /\ \A t \in Threads : Lent(t) /\ worker[t].pid = p => Doomed(t)'
           /\ \A t \in Threads : pc[t] = "publish" => worker[t].pid # p
<1>1. PoolInv
  BY DEF OwnerInv
<1>2. PICK i \in 1..Len(calls) :
        calls[i].pid = p /\ calls'[i].pid = p /\ calls'[i].killed /\ Len(calls') = Len(calls)
  <2>1. PICK n \in 1..Len(calls) :
          LET pids == {calls[i].pid : i \in 1..n}
          IN  /\ calls' = [i \in 1..Len(calls) |-> IF calls[i].pid \in pids
                                                   THEN [calls[i] EXCEPT !.killed = TRUE]
                                                   ELSE calls[i]]
              /\ proc' = [q \in Pids |-> IF q \in pids /\ proc[q] = "alive"
                                         THEN "dead" ELSE proc[q]]
    BY DEF KillOverdue
  <2>2. PICK pids : /\ pids = {calls[i].pid : i \in 1..n}
                    /\ calls' = [i \in 1..Len(calls) |-> IF calls[i].pid \in pids
                                                         THEN [calls[i] EXCEPT !.killed = TRUE]
                                                         ELSE calls[i]]
                    /\ proc' = [q \in Pids |-> IF q \in pids /\ proc[q] = "alive"
                                               THEN "dead" ELSE proc[q]]
    BY <2>1
  <2>3. Len(calls) \in Nat /\ \A i \in 1..Len(calls) :
                                 calls[i] \in [pid : Pids, killed : BOOLEAN]
    BY <1>1, LenProperties, ElementOfSeq DEF PoolInv, WorldTyped
  <2>4. p \in pids
    BY <2>2
  <2>5. PICK i \in 1..n : calls[i].pid = p
    BY <2>2, <2>4
  <2>6. i \in 1..Len(calls)
    BY <2>3
  <2>7. calls'[i] = [calls[i] EXCEPT !.killed = TRUE] /\ Len(calls') = Len(calls)
    BY <2>2, <2>3, <2>4, <2>5, <2>6
  <2> QED  BY <2>3, <2>5, <2>6, <2>7
<1>3. PICK u \in Threads : InWatch(u) /\ worker[u].pid = p
  BY <1>1, <1>2, MatchedAreCalls DEF EntriesAreCalls
<1>4. worker[u] \in Worker
  BY <1>1, <1>3 DEF InWatch, PoolInv, Row, WorkerRow, Holding
<1>5. \A d \in 1..Len(docs) : ~IdleIn(p, d)
  BY <1>3, <1>4, PidsDiffer DEF IdleIn
<1>6. ASSUME NEW t \in Threads, Lent(t), worker[t].pid = p  PROVE Doomed(t)'
  <2>1. t = u
    BY <1>3, <1>4, <1>6, PidsDiffer DEF LentIsCounted
  <2>2. worker' = worker /\ pc' = pc
    BY DEF KillOverdue, local
  <2> QED  BY <1>2, <1>3, <2>1, <2>2 DEF Doomed, InWatch
<1>7. ASSUME NEW t \in Threads, pc[t] = "publish"  PROVE worker[t].pid # p
  <2>1. worker[t] \in Worker /\ t # u
    BY <1>1, <1>3, <1>7 DEF InWatch, PoolInv, Row, WorkerRow, Holding
  <2> QED  BY <1>3, <1>4, <2>1, PidsDiffer
<1> QED  BY <1>5, <1>6, <1>7

\* ... and the reaper those of no pool.
LEMMA TheWorldAddsNoCorpse ==
    ASSUME OwnerInv, CallsMatch, LentIsCounted, ~Reissue, FreshIsAlive, [Next]_vars,
           ~\E t \in Threads : ThreadStep(t) \/ WorkerAnswers(t) \/ WorkerOverruns(t),
           crashes' = 0
    PROVE  FreshIsAlive' /\ NoNewCorpse /\ Len(docs') = Len(docs)
<1>1. PoolInv /\ proc \in [Pids -> {"free", "alive", "dead", "gone"}] /\ crashes \in Nat
  BY DEF OwnerInv, PoolInv, WorldTyped
<1>2. /\ worker' = worker /\ phase' = phase /\ killed' = killed
      /\ Len(docs') = Len(docs)
      /\ \A u \in Threads :
            /\ Lent(u)' <=> Lent(u)
            /\ Lent(u) => DocOf(u)' = DocOf(u) /\ pc'[u] = pc[u]
            /\ pc'[u] = "publish" => pc[u] = "publish"
      /\ \A d \in 1..Len(docs) : \A p : IdleIn(p, d)' => IdleIn(p, d)
  BY <1>1, LoansGoOn
<1>3. RetireKill \/ KillOverdue \/ proc' = proc
  <2>1. ASSUME NEW q \in Pids, Crash(q)  PROVE FALSE
    <3>1. crashes' = crashes + 1
      BY <2>1 DEF Crash
    <3> QED  BY <1>1, <3>1
  <2> QED  BY <2>1 DEF Next, Send, RetireIdle, Truncate, vars
<1>4. \A u \in Threads : Doomed(u) /\ Lent(u) => Doomed(u)'
  <2>1. CASE KillOverdue
    <3>1. \A i \in 1..Len(calls) : calls'[i].pid = calls[i].pid
                                   /\ (calls[i].killed => calls'[i].killed)
      <4>1. \A i \in 1..Len(calls) : calls[i] \in [pid : Pids, killed : BOOLEAN]
        BY <1>1, ElementOfSeq DEF PoolInv, WorldTyped
      <4>2. \A i \in 1..Len(calls) :
               calls'[i] = calls[i] \/ calls'[i] = [calls[i] EXCEPT !.killed = TRUE]
        BY <2>1 DEF KillOverdue
      <4> QED  BY <4>1, <4>2
    <3>2. Len(calls') = Len(calls)
      <4>1. Len(calls) \in Nat
        BY <1>1, LenProperties DEF PoolInv, WorldTyped
      <4> QED  BY <2>1, <4>1 DEF KillOverdue
    <3> QED  BY <1>2, <3>1, <3>2 DEF Doomed, InWatch
  <2>2. CASE ~KillOverdue
    <3>1. calls' = calls
      BY <2>2 DEF Next, Send, RetireIdle, RetireKill, Truncate, Crash, vars
    <3> QED  BY <1>2, <3>1 DEF Doomed, InWatch
  <2> QED  BY <2>1, <2>2
<1>5. ASSUME NEW p \in Pids, proc[p] = "alive", proc'[p] # "alive"
      PROVE  /\ \A d \in 1..Len(docs) : ~IdleIn(p, d)
             /\ \A t \in Threads : Lent(t) /\ worker[t].pid = p => Doomed(t)'
             /\ \A t \in Threads : pc[t] = "publish" => worker[t].pid # p
  <2>1. CASE KillOverdue
    BY <1>5, <2>1, TheKilledAreDoomed
  <2>2. CASE RetireKill
    <3>1. PICK w \in retired : w.pid = p
      BY <1>5, <2>2 DEF RetireKill, Reap
    <3>2. /\ \A u \in Threads : worker[u] \in Worker => worker[u].pid # p
          /\ \A d \in 1..Len(docs) : \A i \in 1..Len(docs[d].idle) : docs[d].idle[i].pid # p
      BY <3>1, OutOfPools
    <3>3. \A t \in Threads : Lent(t) \/ pc[t] = "publish" => worker[t] \in Worker
      BY <1>1 DEF LentIsCounted, PoolInv, Row, WorkerRow, Holding
    <3> QED  BY <3>2, <3>3 DEF IdleIn
  <2> QED  BY <1>3, <1>5, <2>1, <2>2
<1>6. FreshIsAlive'
  <2> SUFFICES ASSUME NEW t \in Threads
               PROVE  phase'[t] # "unlock" /\ (pc'[t] = "publish" => proc'[worker'[t].pid] = "alive")
    BY DEF FreshIsAlive
  <2>1. pc[t] = "publish" => worker[t] \in Worker
    BY <1>1 DEF PoolInv, Row, WorkerRow, Holding
  <2> QED  BY <1>2, <1>5, <2>1 DEF FreshIsAlive, Worker
<1>7. ASSUME NEW d \in 1..Len(docs), NEW p, Spoilt(p, d)'  PROVE Spoilt(p, d)
  <2>1. proc'[p] # "alive" /\ (IdleIn(p, d)' \/ \E t \in Threads : Spoils(t, p, d)')
    BY <1>7 DEF Spoilt
  <2>2. CASE IdleIn(p, d)'
    <3>1. IdleIn(p, d)
      BY <1>2, <2>2
    <3>2. p \in Pids
      <4>1. PICK i \in 1..Len(docs[d].idle) : docs[d].idle[i].pid = p
        BY <3>1 DEF IdleIn
      <4>2. docs[d].idle[i] \in Worker
        BY <1>1, <4>1, HeldAt DEF PoolInv
      <4> QED  BY <4>1, <4>2 DEF Worker
    <3> QED  BY <1>5, <2>1, <3>1, <3>2 DEF Spoilt
  <2>3. ASSUME NEW t \in Threads, Spoils(t, p, d)'  PROVE Spoilt(p, d)
    <3>1. Lent(t) /\ DocOf(t) = d /\ worker[t].pid = p /\ ~Doomed(t)'
      BY <1>2, <2>3 DEF Spoils
    <3>2. p \in Pids
      BY <3>1 DEF LentIsCounted, Worker
    <3>3. proc[p] # "alive"
      BY <1>5, <2>1, <3>1, <3>2
    <3> QED  BY <1>4, <3>1, <3>3 DEF Spoilt, Spoils
  <2> QED  BY <2>1, <2>2, <2>3
<1> QED  BY <1>2, <1>6, <1>7 DEF NoNewCorpse

\* A document is published with one worker, and nobody has one of it.
LEMMA BornWithOne ==
    ASSUME PoolInv, LentIsCounted, NEW t \in Threads, PublishDoc(t),
           NEW n \in Nat, n = Len(docs)
    PROVE  Len(docs') = n + 1 /\ \A p : Spoilt(p, n + 1)' => p = worker[t].pid
<1>1. worker[t] \in Worker
  BY DEF PublishDoc, PoolInv, Row, WorkerRow, Holding
<1>2. Len(docs') = n + 1 /\ docs'[n + 1].idle = <<worker[t]>>
  <2>1. LET h == [open |-> TRUE, idle |-> <<worker[t]>>, spawned |-> 1,
                  senders |-> {worker[t].pid}, outlived |-> FALSE]
        IN  Len(docs') = n + 1 /\ docs'[n + 1] = h
    BY <1>1, PublishDocDocs DEF PoolInv
  <2> QED  BY <2>1
<1>3. ThreadStep(t) /\ ~Lent(t) /\ ~Lent(t)'
  <2>1. pc[t] = "publishDoc" /\ pc'[t] = "idle"
    BY GotoMoves DEF PoolInv, PublishDoc, Reply, PcValues
  <2> QED  BY <2>1 DEF ThreadStep, Lent, Lending
<1>4. \A p : ~LentFrom(p, n + 1)'
  <2>1. ~IsOpen(n + 1)
    BY DEF IsOpen
  <2>2. \A p : ~LentFrom(p, n + 1)
    BY <2>1, LentFromOpen DEF LentFrom
  <2> QED  BY <1>3, <2>2, LoansOfOne
<1>5. Len(<<worker[t]>>) = 1 /\ <<worker[t]>>[1] = worker[t] /\ \A i \in 1..1 : i = 1
  OBVIOUS
<1>6. ASSUME NEW p, Spoilt(p, n + 1)'  PROVE p = worker[t].pid
  <2>1. ~\E u \in Threads : Spoils(u, p, n + 1)'
    BY <1>4 DEF Spoils, LentFrom
  <2>2. IdleIn(p, n + 1)'
    BY <1>6, <2>1 DEF Spoilt
  <2> QED  BY <1>2, <1>5, <2>2 DEF IdleIn
<1> QED  BY <1>2, <1>6

LEMMA TablesGrowByOne ==
    ASSUME PoolInv, NEW t \in Threads,
           ThreadStep(t) \/ WorkerAnswers(t) \/ WorkerOverruns(t), ~PublishDoc(t)
    PROVE  Len(docs') = Len(docs)
<1>1. DocsTyped
  BY DEF PoolInv
<1>2. PICK e : e = DocOf(t)
  OBVIOUS
<1>3. CASE CheckoutIdle(t)
  BY <1>1, <1>3, CheckoutIdleDocs DEF Only
<1>4. CASE Publish(t) \/ Account(t)
  <2>1. Publish(t) => IsOpen(DocOf(t))
    BY DEF Publish, PoolInv, CloseWaitsForPool, Counted
  <2> QED  BY <1>4, <2>1, TablesKeepIdle DEF SameIdle
<1>5. CASE Checkin(t)
  <2>1. worker[t] \in Worker /\ IsOpen(DocOf(t))
    BY <1>5 DEF Checkin, PoolInv, CloseWaitsForPool, Counted, Row, WorkerRow, Holding
  <2> QED  BY <1>1, <1>5, <2>1, CheckinDocs DEF Only
<1>6. CASE CloseTake(t)
  BY <1>1, <1>6, CloseTakeDocs DEF Only
<1>7. CASE ~CheckoutIdle(t) /\ ~Publish(t) /\ ~Checkin(t) /\ ~Account(t) /\ ~CloseTake(t)
  BY <1>7, SlotsStay DEF SameMembers
<1> QED  BY <1>3, <1>4, <1>5, <1>6, <1>7

LEMMA NothingCrashes ==
    ASSUME NEW t \in Threads, ThreadStep(t)
    PROVE  crashes' = crashes
<1>1. CASE Recv(t) \/ CheckoutRefused(t) \/ CheckoutIdle(t) \/ CheckoutGrow(t)
           \/ CheckoutWait(t) \/ Spawn(t) \/ SpawnFails(t) \/ GiveBack(t) \/ Forsake(t)
  BY <1>1 DEF Recv, CheckoutRefused, CheckoutIdle, CheckoutGrow, CheckoutWait, Spawn,
       SpawnFails, GiveBack, Forsake
<1>2. CASE Publish(t) \/ Watch(t) \/ WorkerLost(t) \/ EndWatch(t) \/ EndUnlock(t)
           \/ EndOpen(t) \/ EndServe(t) \/ Diagnose(t) \/ KeepWorker(t) \/ CondemnWorker(t)
  BY <1>2 DEF Publish, Watch, WorkerLost, Exchanged, EndWatch, EndUnlock, EndOpen, EndServe, Diagnose,
       KeepWorker, CondemnWorker
<1>3. CASE Checkin(t) \/ DropWorker(t) \/ Account(t) \/ PublishDoc(t) \/ Sweep(t)
           \/ CloseRefused(t) \/ CloseWait(t) \/ CloseTake(t) \/ CloseKill(t)
  BY <1>3 DEF Checkin, DropWorker, Account, PublishDoc, Sweep, CloseRefused, CloseWait,
       CloseTake, CloseKill
<1> QED  BY <1>1, <1>2, <1>3 DEF ThreadStep

LEMMA NextKeepsOneCorpse ==
    OwnerInv /\ (~Reissue => CallsMatch) /\ OneCorpse /\ [Next]_vars => OneCorpse'
<1> SUFFICES ASSUME OwnerInv, CallsMatch, OneCorpse, [Next]_vars,
                    crashes' = 0, ~Reissue, ~Encrypted
             PROVE  /\ FreshIsAlive'
                    /\ \A d \in 1..Len(docs') : \A p, q :
                          Spoilt(p, d)' /\ Spoilt(q, d)' => p = q
  BY DEF OneCorpse
<1>1. PoolInv /\ LentIsCounted /\ crashes \in Nat
  BY LentAre DEF OwnerInv, PoolInv, WorldTyped
<1>2. crashes = 0
  <2>1. crashes' = crashes \/ crashes' = crashes + 1
    <3>1. ASSUME NEW t \in Threads, ThreadStep(t)  PROVE crashes' = crashes
      BY <3>1, NothingCrashes
    <3>2. ASSUME NEW t \in Threads, WorkerAnswers(t) \/ WorkerOverruns(t)
          PROVE  crashes' = crashes \/ crashes' = crashes + 1
      BY <3>2 DEF WorkerAnswers, WorkerOverruns, Exchanged
    <3>3. ASSUME ~\E t \in Threads : ThreadStep(t) \/ WorkerAnswers(t) \/ WorkerOverruns(t)
          PROVE  crashes' = crashes \/ crashes' = crashes + 1
      BY <3>3 DEF Next, Send, RetireIdle, RetireKill, KillOverdue, Truncate, Crash, vars
    <3> QED  BY <3>1, <3>2, <3>3
  <2> QED  BY <1>1, <2>1
<1>3. FreshIsAlive /\ \A d \in 1..Len(docs) : \A p, q : Spoilt(p, d) /\ Spoilt(q, d) => p = q
  BY <1>2 DEF OneCorpse
<1>4. FreshIsAlive' /\ NoNewCorpse
  BY <1>1, <1>3, ThreadsAdoptTheLiving, ThreadsAddNoCorpse, TheWorldAddsNoCorpse
<1>5. ASSUME NEW d \in 1..Len(docs'), NEW p, NEW q, Spoilt(p, d)', Spoilt(q, d)'
      PROVE  p = q
  <2>1. CASE d \in 1..Len(docs)
    BY <1>3, <1>4, <1>5, <2>1 DEF NoNewCorpse
  <2>2. CASE d \notin 1..Len(docs)
    <3>1. Len(docs') # Len(docs)
      BY <2>2
    <3>2. PICK t \in Threads : PublishDoc(t)
      BY <1>1, <1>3, <3>1, TheWorldAddsNoCorpse, TablesGrowByOne
    <3>3. PICK n \in Nat : n = Len(docs)
      BY <1>1, LenProperties DEF PoolInv, DocsTyped
    <3>4. Len(docs') = n + 1 /\ \A r : Spoilt(r, n + 1)' => r = worker[t].pid
      BY <1>1, <3>2, <3>3, BornWithOne
    <3>5. d = n + 1
      BY <2>2, <3>3, <3>4
    <3> QED  BY <1>5, <3>4, <3>5
  <2> QED  BY <2>1, <2>2
<1> QED  BY <1>4, <1>5

\* While nothing dies of itself a pool has one corpse at most, whatever number
\* of workers the supervisor kills: with_worker_for checks none of these in.
THEOREM TheKilledStayOut == Spec => []KilledStaysOut
<1>1. Init => OneCorpse
  <2> SUFFICES ASSUME Init  PROVE FreshIsAlive /\ 1..Len(docs) = {}
    BY DEF OneCorpse
  <2> QED  BY EmptySeq DEF Init, FreshIsAlive
<1>2. OwnerInv /\ OneCorpse => KilledStaysOut
  BY OneCorpseAtMost
<1> QED
  BY <1>1, <1>2, NextKeepsOneCorpse, OwnershipIsSound, CallsAlwaysMatch, PTL DEF Spec

=============================================================================
