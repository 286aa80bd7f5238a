------------------------- MODULE RenderServiceProofs -------------------------
(* While the page is not reloaded, a withdrawal is never lost between the
   table, the channel and the threads; the workers take for withdrawn only
   what the page has withdrawn; and every step is a step of TileLifecycle or
   none: for any number of threads, requests, worker deaths and panics. *)
EXTENDS RenderService, TLAPS, SequenceTheorems, FiniteSetTheorems

-----------------------------------------------------------------------------
\* Type correctness.  A worker is replaced only after it died.
IncarnationsAreDeaths ==
    \A t \in Threads : incarnation[t] <= crashes /\
                       (wpc[t] = "dead" => incarnation[t] < crashes)

RendersAJob == \A t \in Threads : wpc[t] = "rendering" => wchan[t] # <<>>

TypeInv == TypeOK /\ IncarnationsAreDeaths /\ RendersAJob

LEMMA TableOps ==
    ASSUME NEW tab \in T!Table, NEW id \in Rids
    PROVE  /\ T!Enqueue(tab, id) \in T!Table
           /\ T!Forget(tab, id) \in T!Table
           /\ T!Withdraw(tab, id) \in T!Table
           /\ \A t \in Threads : T!Claim(tab, id, t) \in T!Table
           /\ T!Release(tab, id) \in T!Table
<1> USE DEF T!Table
<1>1. T!Enqueue(tab, id) \in T!Table
  BY DEF T!Enqueue
<1>2. T!Forget(tab, id) \in T!Table
  BY DEF T!Forget
<1>3. T!Withdraw(tab, id) \in T!Table
  BY DEF T!Withdraw
<1>4. \A t \in Threads : T!Claim(tab, id, t) \in T!Table
  BY <1>2 DEF T!Claim, T!Forget
<1>5. T!Release(tab, id) \in T!Table
  BY DEF T!Release
<1> QED  BY <1>1, <1>2, <1>3, <1>4, <1>5

LEMMA AppendIsNotEmpty ==
    ASSUME NEW S, NEW s \in Seq(S), NEW x \in S
    PROVE  Append(s, x) # <<>>
<1>1. Len(Append(s, x)) = Len(s) + 1 /\ Len(s) \in Nat
  OBVIOUS
<1> QED  BY <1>1

LEMMA TypesStart == Init => TypeInv
<1> SUFFICES ASSUME Init  PROVE TypeInv
  OBVIOUS
<1>1. T!EmptyTable \in T!Table
  BY DEF T!EmptyTable, T!Table
<1>2. NoCancel \in [pc : {"idle", "address", "send"}, rid : Rids, to : Everyone]
  BY BoundAssumption DEF NoCancel, Everyone, Rids
<1>3. TypeOK
  BY <1>1, <1>2, BoundAssumption DEF Init, TypeOK, Req, Rids, NoReq
<1> QED  BY <1>3, BoundAssumption DEF TypeInv, IncarnationsAreDeaths, RendersAJob, Init

\* A job off the channel is with one thread.
Jobs ==
    \A t \in Threads :
        /\ pc[t] = "idle" => job[t] = NoReq
        /\ pc[t] # "idle" => job[t] \in Req /\ stage[job[t]] = "taken"
        /\ \A u \in Threads : t # u /\ pc[t] # "idle" /\ pc[u] # "idle"
                                => job[t] # job[u]

\* The page's and the caller's steps.
LEMMA PageTypes ==
    ASSUME TypeInv,
           \/ \E id \in Rids : Ask(id)
           \/ \E r \in Req : Send(r) \/ Withdraw(r)
           \/ Reload \/ Address \/ Broadcast
    PROVE  TypeInv'
<1> USE DEF TypeInv, TypeOK, IncarnationsAreDeaths, RendersAJob
<1>1. ASSUME NEW id \in Rids, Ask(id)  PROVE TypeInv'
  <2>1. asked + 1 \in Req /\ asked + 1 \in 0..MaxRequests
    BY <1>1, BoundAssumption DEF Ask, Req
  <2>2. T!Enqueue(table, id) \in T!Table
    BY TableOps
  <2> QED  BY <1>1, <2>1, <2>2 DEF Ask, Rids, worker
<1>2. ASSUME NEW r \in Req, Send(r)  PROVE TypeInv'
  <2>1. T!Forget(table, rid[r]) \in T!Table
    BY TableOps
  <2>2. chan' \in Seq(Req) /\ table' \in T!Table
    <3>1. Append(chan, r) \in Seq(Req)
      OBVIOUS
    <3>2. CASE Listening
      BY <1>2, <3>1, <3>2 DEF Send
    <3>3. CASE ~Listening
      BY <1>2, <2>1, <3>3 DEF Send
    <3> QED  BY <3>2, <3>3
  <2>3. /\ stage' \in [Req -> {"unasked", "enqueued", "sent", "taken", "answered"}]
        /\ answer' \in [Req -> {"none", "rendered", "abandoned", "failed"}]
    BY ZenonT(30), <1>2 DEF Send
  <2> QED  BY <1>2, <2>2, <2>3 DEF Send, worker
<1>3. ASSUME NEW r \in Req, Withdraw(r)  PROVE TypeInv'
  <2>1. T!Withdraw(table, rid[r]) \in T!Table
    BY TableOps
  <2>2. NoCancel \in [pc : {"idle", "address", "send"}, rid : Rids, to : Everyone]
    BY BoundAssumption DEF NoCancel, Everyone, Rids
  <2>3. cancel' \in [pc : {"idle", "address", "send"}, rid : Rids, to : Everyone]
    BY <1>3, <2>2 DEF Withdraw
  <2>4. token' \in [Threads -> BOOLEAN]
    BY <1>3 DEF Withdraw
  <2> QED  BY ZenonT(30), <1>3, <2>1, <2>3, <2>4 DEF Withdraw, worker
<1>4. ASSUME Reload  PROVE TypeInv'
  BY <1>4, BoundAssumption DEF Reload, service, worker
<1>5. ASSUME Address  PROVE TypeInv'
  <2>1. cancel' \in [pc : {"idle", "address", "send"}, rid : Rids, to : Everyone]
    <3>1. CASE cancel' = [cancel EXCEPT !.pc = "send"]
      BY <3>1
    <3>2. CASE \E t \in HolderOf(cancel.rid) :
                  cancel' = [cancel EXCEPT !.pc = "send", !.to =
                               [thread |-> t, incarnation |-> incarnation[t]]]
      <4>1. PICK t \in HolderOf(cancel.rid) :
                  cancel' = [cancel EXCEPT !.pc = "send", !.to =
                               [thread |-> t, incarnation |-> incarnation[t]]]
        BY <3>2
      <4>2. t \in Threads
        BY DEF HolderOf
      <4>3. [thread |-> t, incarnation |-> incarnation[t]] \in Everyone
        BY <4>2 DEF Everyone
      <4> QED  BY <4>1, <4>3
    <3> QED  BY <1>5, <3>1, <3>2 DEF Address
  <2> QED  BY <1>5, <2>1 DEF Address, page, service, worker
<1>6. ASSUME Broadcast  PROVE TypeInv'
  <2>1. cancel' \in [pc : {"idle", "address", "send"}, rid : Rids, to : Everyone]
    BY <1>6, BoundAssumption DEF Broadcast, NoCancel, Everyone, Rids
  <2>2. [kind |-> "withdraw", rid |-> cancel.rid] \in Line
    BY DEF Line
  <2>3. pipe' \in [Threads -> Seq(Line)]
    BY <1>6, <2>2 DEF Broadcast
  <2> QED  BY <1>6, <2>1, <2>3 DEF Broadcast, page, service
<1> QED  BY <1>1, <1>2, <1>3, <1>4, <1>5, <1>6

\* A service thread's steps.
LEMMA ThreadTypes ==
    ASSUME TypeInv, Jobs, NEW t \in Threads, ThreadStep(t) \/ Panic(t)
    PROVE  TypeInv'
<1> USE DEF TypeInv, TypeOK, IncarnationsAreDeaths, RendersAJob, Jobs
<1>1. CASE Take(t)
  <2>1. Head(chan) \in Req /\ Tail(chan) \in Seq(Req)
    BY <1>1 DEF Take
  <2> QED  BY <1>1, <2>1 DEF Take, Step, worker
<1>2. CASE Claim(t)
  <2>1. job[t] \in Req /\ rid[job[t]] \in Rids
    BY <1>2 DEF Claim
  <2>2. T!Claim(table, rid[job[t]], t) \in T!Table
    BY <2>1, TableOps
  <2>3. table' \in T!Table
    BY <1>2, <2>2 DEF Claim
  <2>4. UNCHANGED <<asked, lastRequestId, reloads, rid, withdrawn, chan,
                    verdict, worker, panics, cancel>>
    BY <1>2 DEF Claim
  <2>5. CASE T!ClaimWithdrawn(table, rid[job[t]])
    <3>1. /\ pc' = [pc EXCEPT ![t] = "idle"]
          /\ job' = [job EXCEPT ![t] = NoReq]
          /\ stage' = [stage EXCEPT ![job[t]] = "answered"]
          /\ answer' = [answer EXCEPT ![job[t]] = "abandoned"]
          /\ UNCHANGED <<token, retried>>
      BY <1>2, <2>5 DEF Claim, Reply
    <3> QED  BY <2>1, <2>3, <2>4, <3>1 DEF worker
  <2>6. CASE ~T!ClaimWithdrawn(table, rid[job[t]])
    <3>1. /\ pc' = [pc EXCEPT ![t] = "claimed"]
          /\ token' = [token EXCEPT ![t] = FALSE]
          /\ retried' = [retried EXCEPT ![t] = FALSE]
          /\ UNCHANGED <<answer, stage, job>>
      BY <1>2, <2>6 DEF Claim
    <3> QED  BY <2>1, <2>3, <2>4, <3>1 DEF worker
  <2> QED  BY <2>5, <2>6
<1>3. CASE StartCall(t)
  BY <1>3 DEF StartCall, Step, page, worker
<1>4. CASE WriteTile(t)
  <2>1. [kind |-> "tile", rid |-> rid[job[t]]] \in Line
    BY <1>4 DEF WriteTile, Step, Line
  <2>2. pipe' \in [Threads -> Seq(Line)]
    BY <1>4, <2>1 DEF WriteTile
  <2> QED  BY <1>4, <2>2 DEF WriteTile, Step, page
<1>5. CASE ReadReply(t)
  <2>1. Verdict(t) \in {"rendered", "abandoned", "failed"}
    BY DEF Verdict
  <2> QED  BY <1>5, <2>1 DEF ReadReply, Judge, page
<1>6. CASE Replace(t)
  <2>1. incarnation[t] + 1 <= crashes /\ incarnation[t] + 1 \in 0..MaxCrashes
    BY <1>6, BoundAssumption DEF Replace, Lost
  <2> QED  BY <1>6, <2>1 DEF Replace, page
<1>7. CASE GiveUp(t)
  BY <1>7 DEF GiveUp, Judge, page, worker
<1>8. CASE Release(t)
  <2>1. job[t] \in Req /\ rid[job[t]] \in Rids
    BY <1>8 DEF Release
  <2>2. T!Release(table, rid[job[t]]) \in T!Table
    BY <2>1, TableOps
  <2> QED  BY <1>8, <2>1, <2>2 DEF Release, Reply, worker
<1>9. CASE Panic(t)
  BY <1>9, BoundAssumption DEF Panic, page, worker
<1> QED  BY <1>1, <1>2, <1>3, <1>4, <1>5, <1>6, <1>7, <1>8, <1>9 DEF ThreadStep

\* A worker's steps.
LEMMA WorkerTypes ==
    ASSUME TypeInv, NEW t \in Threads, WorkerStep(t) \/ Crash(t)
    PROVE  TypeInv'
<1> USE DEF TypeInv, TypeOK, IncarnationsAreDeaths, RendersAJob
<1>1. CASE ReadLine(t)
  <2>1. pipe[t] \in Seq(Line) /\ Head(pipe[t]) \in Line /\ Tail(pipe[t]) \in Seq(Line)
    BY <1>1 DEF ReadLine
  <2>2. Head(pipe[t]).rid \in Rids
    BY <2>1 DEF Line
  <2>3. /\ T!Withdraw(wtable[t], Head(pipe[t]).rid) \in T!Table
        /\ T!Enqueue(wtable[t], Head(pipe[t]).rid) \in T!Table
    BY <2>2, TableOps
  <2>4. T!Running(wtable[t], Head(pipe[t]).rid) \in BOOLEAN
    BY DEF T!Running
  <2>5. Append(wchan[t], Head(pipe[t]).rid) \in Seq(Rids)
    BY <2>2
  <2>6. wtable' \in [Threads -> T!Table]
    <3>1. wtable' \in {[wtable EXCEPT ![t] = T!Withdraw(@, Head(pipe[t]).rid)],
                       [wtable EXCEPT ![t] = T!Enqueue(@, Head(pipe[t]).rid)]}
      BY <1>1 DEF ReadLine
    <3> QED  BY ZenonT(30), <2>3, <3>1
  <2>7. wtoken' \in [Threads -> BOOLEAN]
    <3>1. (wtoken[t] \/ T!Running(wtable[t], Head(pipe[t]).rid)) \in BOOLEAN
      OBVIOUS
    <3> QED  BY ZenonT(30), <1>1, <3>1 DEF ReadLine
  <2>8. pipe' \in [Threads -> Seq(Line)]
    BY <1>1, <2>1 DEF ReadLine
  <2>10. wchan' \in {wchan, [wchan EXCEPT ![t] = Append(@, Head(pipe[t]).rid)]}
    BY <1>1 DEF ReadLine
  <2>11. wchan' \in [Threads -> Seq(Rids)] /\ RendersAJob'
    <3>1. wpc' = wpc
      BY <1>1 DEF ReadLine
    <3>2. wchan[t] \in Seq(Rids)
      OBVIOUS
    <3> HIDE DEF TypeInv, TypeOK
    <3>3. Append(wchan[t], Head(pipe[t]).rid) # <<>>
      BY <2>2, <3>2, AppendIsNotEmpty
    <3> USE DEF TypeInv, TypeOK
    <3>4. wchan' \in [Threads -> Seq(Rids)]
      BY ZenonT(30), <2>5, <2>10
    <3> QED  BY SMTT(30), <2>5, <2>10, <3>1, <3>3, <3>4
  <2>9. UNCHANGED <<page, service, wpc, wreply, incarnation, crashes, panics, cancel>>
    BY <1>1 DEF ReadLine
  <2> QED  BY <2>6, <2>7, <2>8, <2>9, <2>11 DEF page, service
<1>2. CASE WClaim(t)
  <2>1. Head(wchan[t]) \in Rids /\ Tail(wchan[t]) \in Seq(Rids)
    BY <1>2 DEF WClaim
  <2>2. T!Claim(wtable[t], Head(wchan[t]), t) \in T!Table
    BY <2>1, TableOps
  <2>3. wtable' \in [Threads -> T!Table]
    <3>1. wtable' = [wtable EXCEPT ![t] = T!Claim(wtable[t], Head(wchan[t]), t)]
      BY <1>2 DEF WClaim
    <3> QED  BY <2>2, <3>1
  <2>4. UNCHANGED <<page, service, pipe, incarnation, crashes, panics, cancel>>
    BY <1>2 DEF WClaim
  <2>5. CASE T!ClaimWithdrawn(wtable[t], Head(wchan[t]))
    <3>1. /\ wpc[t] = "idle"
          /\ wreply' = [wreply EXCEPT ![t] = "abandoned"]
          /\ wchan' = [wchan EXCEPT ![t] = Tail(wchan[t])]
          /\ UNCHANGED <<wpc, wtoken>>
      BY <1>2, <2>5 DEF WClaim
    <3> QED  BY <2>1, <2>3, <2>4, <3>1 DEF page, service
  <2>6. CASE ~T!ClaimWithdrawn(wtable[t], Head(wchan[t]))
    <3>1. /\ wpc[t] = "idle" /\ wchan[t] # <<>>
          /\ wpc' = [wpc EXCEPT ![t] = "rendering"]
          /\ wtoken' = [wtoken EXCEPT ![t] = FALSE]
          /\ UNCHANGED <<wreply, wchan>>
      BY <1>2, <2>6 DEF WClaim
    <3> QED  BY <2>1, <2>3, <2>4, <3>1 DEF page, service
  <2> QED  BY <2>5, <2>6
<1>3. CASE WFinish(t)
  <2>1. wtable' \in [Threads -> T!Table]
    <3>1. Head(wchan[t]) \in Rids
      BY <1>3 DEF WFinish
    <3>2. T!Release(wtable[t], Head(wchan[t])) \in T!Table
      BY <3>1, TableOps
    <3>3. wtable' = [wtable EXCEPT ![t] = T!Release(wtable[t], Head(wchan[t]))]
      BY <1>3 DEF WFinish
    <3> QED  BY <3>2, <3>3
  <2>2. wreply' \in [Threads -> {"none", "abandoned", "drawn", "error"}]
    BY <1>3 DEF WFinish
  <2>3. wchan' \in [Threads -> Seq(Rids)]
    <3>1. Tail(wchan[t]) \in Seq(Rids)
      BY <1>3 DEF WFinish
    <3> QED  BY <1>3, <3>1 DEF WFinish
  <2>4. wpc' = [wpc EXCEPT ![t] = "idle"]
    BY <1>3 DEF WFinish
  <2>5. UNCHANGED <<page, service, pipe, wtoken, incarnation, crashes, panics, cancel>>
    BY <1>3 DEF WFinish
  <2>6. wpc' \in [Threads -> {"idle", "rendering", "dead"}] /\ IncarnationsAreDeaths'
    BY <2>4, <2>5
  <2>7. \A u \in Threads : u # t => wchan'[u] = wchan[u]
    BY <1>3 DEF WFinish
  <2>8. RendersAJob'
    BY SMTT(30), <2>4, <2>7
  <2> QED  BY <2>1, <2>2, <2>3, <2>5, <2>6, <2>8 DEF page, service
<1>4. CASE Crash(t)
  <2>1. T!EmptyTable \in T!Table
    BY DEF T!EmptyTable, T!Table
  <2>2. crashes + 1 \in 0..MaxCrashes
    BY <1>4, BoundAssumption DEF Crash
  <2> QED  BY SMTT(30), <1>4, <2>1, <2>2 DEF Crash, page, service
<1> QED  BY <1>1, <1>2, <1>3, <1>4 DEF WorkerStep

-----------------------------------------------------------------------------
\* The part of the invariant the two tables rest on.

\* Without a reload, ids are unique; what is unasked has no id.
Ids ==
    /\ reloads = 0
    /\ \A r \in Req :
          /\ (r > asked) <=> (stage[r] = "unasked")
          /\ r > asked => rid[r] = 0
          /\ rid[r] <= lastRequestId
          /\ \A q \in Req : q # r /\ rid[q] = rid[r] => rid[r] = 0
    /\ \A r \in withdrawn : r <= asked

Channel ==
    \A i \in 1..Len(chan) :
        /\ stage[chan[i]] = "sent"
        /\ \A k \in 1..Len(chan) : i # k => chan[i] # chan[k]

\* TableMatchesWork, id by id.
QueuedIsUnclaimed ==
    \A id \in Rids : id \in table.queued <=>
        id # 0 /\ \E r \in Req : Unclaimed(r) /\ rid[r] = id
ClaimedIsInflight ==
    \A t \in Threads :
        Claimed(t) /\ rid[job[t]] # 0 => table.inflight[rid[job[t]]] = t
InflightIsClaimed ==
    \A id \in Rids : \A t \in Threads :
        table.inflight[id] = t => Claimed(t) /\ rid[job[t]] = id
Book ==
    /\ table.cancelled \subseteq table.queued
    /\ QueuedIsUnclaimed /\ ClaimedIsInflight /\ InflightIsClaimed

Core == Ids /\ Jobs /\ Channel /\ Book /\ WithdrawalIsOnRecord

IInv == TypeInv /\ Core

LEMMA CoreStart == Init => Core
<1> SUFFICES ASSUME Init  PROVE Core
  OBVIOUS
<1>1. Ids /\ Jobs /\ Channel
  BY BoundAssumption DEF Init, Ids, Jobs, Channel, Req
<1>2. \A r \in Req : ~Unclaimed(r)
  BY DEF Init, Unclaimed, Outstanding
<1>3. Book
  BY <1>2, ThreadAssumption DEF Init, Book, QueuedIsUnclaimed, ClaimedIsInflight,
                               InflightIsClaimed, T!EmptyTable, Claimed
<1>4. WithdrawalIsOnRecord
  BY DEF Init, WithdrawalIsOnRecord
<1> QED  BY <1>1, <1>3, <1>4 DEF Core

\* A step that leaves the service's side alone keeps it.
LEMMA FrameKeeps ==
    ASSUME Core,
           UNCHANGED <<asked, lastRequestId, reloads, rid, stage, withdrawn,
                       table, chan, pc, job, token>>
    PROVE  Core'
BY DEF Core, Ids, Jobs, Channel, Book, WithdrawalIsOnRecord, Unclaimed,
       Outstanding, Claimed, QueuedIsUnclaimed, ClaimedIsInflight, InflightIsClaimed

\* So does a step of a thread at work on its claim.
LEMMA WorkKeeps ==
    ASSUME TypeInv, Core, NEW t \in Threads, NEW to,
           Claimed(t), pc' = [pc EXCEPT ![t] = to],
           to \in {"claimed", "calling", "waiting", "judged", "dead"},
           to \in {"claimed", "calling", "waiting"} =>
               pc[t] \in {"claimed", "calling", "waiting"},
           chan' \in {chan, <<>>},
           UNCHANGED <<asked, lastRequestId, reloads, rid, stage, withdrawn,
                       table, job, token>>
    PROVE  Core'
<1> USE DEF TypeInv, TypeOK
<1>1. \A u \in Threads : Claimed(u)' <=> Claimed(u)
  BY DEF Claimed
<1>2. \A r \in Req : Unclaimed(r)' <=> Unclaimed(r)
  BY <1>1 DEF Unclaimed, Outstanding
<1>3. Ids'
  BY DEF Core, Ids
<1>4. Jobs'
  BY SMTT(30) DEF Core, Jobs, Claimed
<1>5. Channel'
  BY DEF Core, Channel
<1>6. Book'
  <2>1. QueuedIsUnclaimed'
    BY <1>2 DEF Core, Book, QueuedIsUnclaimed
  <2>2. ClaimedIsInflight' /\ InflightIsClaimed'
    BY <1>1 DEF Core, Book, ClaimedIsInflight, InflightIsClaimed
  <2> QED  BY <2>1, <2>2 DEF Core, Book
<1>7. WithdrawalIsOnRecord'
  BY <1>2 DEF Core, WithdrawalIsOnRecord
<1> QED  BY <1>3, <1>4, <1>5, <1>6, <1>7 DEF Core

-----------------------------------------------------------------------------
\* The steps that move a request.

LEMMA AskKeeps ==
    ASSUME IInv, NEW id \in Rids, Ask(id)
    PROVE  Core'
<1> USE DEF IInv, TypeInv, TypeOK
<1> DEFINE n == asked + 1
<1>1. n \in Req /\ stage[n] = "unasked" /\ rid[n] = 0
  BY BoundAssumption DEF Ask, Req, Core, Ids
<1>2. \A r \in Req : r # n => stage'[r] = stage[r] /\ rid'[r] = rid[r]
  BY DEF Ask
<1>3. stage'[n] = "enqueued" /\ rid'[n] = id
  BY <1>1 DEF Ask
<1>4. UNCHANGED <<reloads, withdrawn, chan, pc, job, token>>
  BY DEF Ask, worker
<1>5. \A t \in Threads : (Claimed(t)' <=> Claimed(t)) /\ (Claimed(t) => job[t] # n)
  BY <1>1, <1>4 DEF Claimed, Core, Jobs
<1>6. \A r \in Req : Unclaimed(r)' <=> (Unclaimed(r) \/ r = n)
  BY <1>1, <1>2, <1>3, <1>4, <1>5 DEF Unclaimed, Outstanding
<1>7. ~Unclaimed(n)
  BY <1>1 DEF Unclaimed, Outstanding
<1>8. Ids'
  BY <1>1, <1>2, <1>3, <1>4, BoundAssumption DEF Core, Ids, Ask, Req, Rids
<1>9. Jobs'
  BY <1>1, <1>2, <1>4 DEF Core, Jobs
<1>10. Channel'
  BY <1>1, <1>2, <1>4 DEF Core, Channel
<1>11. /\ table'.cancelled = table.cancelled /\ table'.inflight = table.inflight
       /\ table'.queued = IF id = 0 THEN table.queued ELSE table.queued \cup {id}
  BY DEF Ask, T!Enqueue, T!Table
<1>12. Book'
  <2>1. table'.cancelled \subseteq table'.queued
    BY <1>11 DEF Core, Book
  <2>2. QueuedIsUnclaimed'
    <3> SUFFICES ASSUME NEW k \in Rids
                 PROVE  k \in table'.queued <=>
                            k # 0 /\ \E r \in Req : Unclaimed(r)' /\ rid'[r] = k
      BY DEF QueuedIsUnclaimed
    <3>1. (\E r \in Req : Unclaimed(r)' /\ rid'[r] = k)
              <=> (\E r \in Req : Unclaimed(r) /\ rid[r] = k) \/ id = k
      BY <1>1, <1>2, <1>3, <1>6, <1>7
    <3>2. k \in table.queued <=> k # 0 /\ \E r \in Req : Unclaimed(r) /\ rid[r] = k
      BY DEF Core, Book, QueuedIsUnclaimed
    <3> QED  BY <1>11, <3>1, <3>2
  <2>3. \A t \in Threads : Claimed(t) => job[t] \in Req /\ rid'[job[t]] = rid[job[t]]
    BY <1>2, <1>5 DEF Core, Jobs, Claimed
  <2>4. ClaimedIsInflight'
    BY <1>4, <1>5, <1>11, <2>3 DEF Core, Book, ClaimedIsInflight
  <2>5. InflightIsClaimed'
    <3> SUFFICES ASSUME NEW k \in Rids, NEW t \in Threads, table'.inflight[k] = t
                 PROVE  Claimed(t)' /\ rid'[job'[t]] = k
      BY DEF InflightIsClaimed
    <3>1. table.inflight[k] = t
      BY <1>11
    <3>2. Claimed(t) /\ rid[job[t]] = k
      BY <3>1 DEF Core, Book, InflightIsClaimed
    <3> QED  BY <1>4, <1>5, <2>3, <3>2
  <2> QED  BY <2>1, <2>2, <2>4, <2>5 DEF Book
<1>13. WithdrawalIsOnRecord'
  BY <1>1, <1>2, <1>4, <1>6, <1>11 DEF Core, Ids, WithdrawalIsOnRecord, Req
<1> QED  BY <1>8, <1>9, <1>10, <1>12, <1>13 DEF Core

LEMMA SendKeeps ==
    ASSUME IInv, NEW r \in Req, Send(r)
    PROVE  Core'
<1> USE DEF IInv, TypeInv, TypeOK
<1>1. stage[r] = "enqueued"
  BY DEF Send
<1>2. UNCHANGED <<asked, lastRequestId, reloads, rid, withdrawn, pc, job, token>>
  BY DEF Send
<1>3. \A t \in Threads : (Claimed(t)' <=> Claimed(t)) /\ (Claimed(t) => job[t] # r)
  BY <1>1, <1>2 DEF Claimed, Core, Jobs
<1>4. \A q \in Req : q # r => stage'[q] = stage[q]
  BY DEF Send
<1>5. \A i \in 1..Len(chan) : chan[i] # r
  BY <1>1 DEF Core, Channel
<1>6. stage'[r] \in {"sent", "answered"}
  BY DEF Send
<1>7. Ids'
  BY <1>1, <1>2, <1>4, <1>6 DEF Core, Ids
<1>8. Jobs'
  BY <1>1, <1>2, <1>4, <1>6 DEF Core, Jobs
<1>9. Unclaimed(r)
  BY <1>1, <1>3 DEF Unclaimed, Outstanding
<1>10. \A q \in Req : q # r => (Unclaimed(q)' <=> Unclaimed(q))
  BY <1>2, <1>3, <1>4 DEF Unclaimed, Outstanding
<1>11. CASE Listening
  <2>1. chan' = Append(chan, r) /\ table' = table /\ stage'[r] = "sent"
    BY <1>11 DEF Send
  <2>2. Unclaimed(r)'
    BY <1>2, <1>3, <2>1 DEF Unclaimed, Outstanding
  <2>3. Channel'
    <3>1. /\ Len(chan') = Len(chan) + 1 /\ chan'[Len(chan) + 1] = r
          /\ \A i \in 1..Len(chan) : chan'[i] = chan[i] /\ chan[i] \in Req
      BY <2>1
    <3>2. \A i \in 1..Len(chan) : stage'[chan[i]] = "sent"
      BY <1>4, <1>5, <3>1 DEF Core, Channel
    <3> QED  BY SMTT(30), <1>5, <2>1, <3>1, <3>2 DEF Core, Channel
  <2>4. Book'
    BY <1>2, <1>3, <1>9, <1>10, <2>1, <2>2
    DEF Core, Book, QueuedIsUnclaimed, ClaimedIsInflight, InflightIsClaimed
  <2>5. WithdrawalIsOnRecord'
    <3> SUFFICES ASSUME NEW q \in withdrawn', rid'[q] # 0
                 PROVE  /\ Unclaimed(q)' => rid'[q] \in table'.cancelled
                        /\ \A t \in Threads :
                              job'[t] = q /\ pc'[t] \in {"claimed", "calling", "waiting"}
                                  => token'[t]
      BY DEF WithdrawalIsOnRecord
    <3>1. q \in withdrawn /\ q \in Req /\ rid[q] # 0
      BY <1>2
    <3>2. /\ Unclaimed(q) => rid[q] \in table.cancelled
          /\ \A t \in Threads : job[t] = q /\ pc[t] \in {"claimed", "calling", "waiting"}
                                     => token[t]
      BY <3>1 DEF Core, WithdrawalIsOnRecord
    <3> QED  BY <1>2, <1>9, <1>10, <2>1, <3>1, <3>2
  <2> QED  BY <1>7, <1>8, <2>3, <2>4, <2>5 DEF Core
<1>12. CASE ~Listening
  <2>1. chan' = chan /\ table' = T!Forget(table, rid[r]) /\ stage'[r] = "answered"
    BY <1>12 DEF Send
  <2>2. ~Unclaimed(r)'
    BY <2>1 DEF Unclaimed, Outstanding
  <2>3. Channel'
    BY <1>4, <1>5, <2>1 DEF Core, Channel
  <2>4. /\ table'.queued = table.queued \ {rid[r]}
        /\ table'.cancelled = table.cancelled \ {rid[r]}
        /\ table'.inflight = table.inflight
    BY <2>1 DEF T!Forget, T!Table
  <2>5. \A q \in Req : q # r /\ rid[q] # 0 => rid[q] # rid[r]
    BY DEF Core, Ids
  <2>6. QueuedIsUnclaimed'
    BY <1>2, <1>9, <1>10, <2>2, <2>4, <2>5 DEF Core, Book, QueuedIsUnclaimed
  <2>7. ClaimedIsInflight' /\ InflightIsClaimed'
    BY <1>2, <1>3, <2>4 DEF Core, Book, ClaimedIsInflight, InflightIsClaimed
  <2>8. WithdrawalIsOnRecord'
    <3> SUFFICES ASSUME NEW q \in withdrawn', rid'[q] # 0
                 PROVE  /\ Unclaimed(q)' => rid'[q] \in table'.cancelled
                        /\ \A t \in Threads :
                              job'[t] = q /\ pc'[t] \in {"claimed", "calling", "waiting"}
                                  => token'[t]
      BY DEF WithdrawalIsOnRecord
    <3>1. q \in withdrawn /\ q \in Req /\ rid[q] # 0
      BY <1>2
    <3>2. /\ Unclaimed(q) => rid[q] \in table.cancelled
          /\ \A t \in Threads : job[t] = q /\ pc[t] \in {"claimed", "calling", "waiting"}
                                     => token[t]
      BY <3>1 DEF Core, WithdrawalIsOnRecord
    <3> QED  BY <1>2, <1>10, <2>2, <2>4, <2>5, <3>1, <3>2
  <2> QED  BY <1>7, <1>8, <2>3, <2>4, <2>6, <2>7, <2>8 DEF Core, Book
<1> QED  BY <1>11, <1>12

LEMMA WithdrawKeeps ==
    ASSUME IInv, NEW r \in Req, Withdraw(r)
    PROVE  Core'
<1> USE DEF IInv, TypeInv, TypeOK
<1>1. UNCHANGED <<asked, lastRequestId, reloads, rid, stage, chan, pc, job>>
  BY DEF Withdraw
<1>2. withdrawn' = withdrawn \cup {r} /\ r <= asked
  BY DEF Withdraw
<1>3. \A t \in Threads : Claimed(t)' <=> Claimed(t)
  BY <1>1 DEF Claimed
<1>4. \A q \in Req : Unclaimed(q)' <=> Unclaimed(q)
  BY <1>1, <1>3 DEF Unclaimed, Outstanding
<1>5. Ids' /\ Jobs' /\ Channel'
  BY <1>1, <1>2 DEF Core, Ids, Jobs, Channel
<1>6. /\ table'.queued = table.queued /\ table'.inflight = table.inflight
      /\ table'.cancelled = IF table.inflight[rid[r]] = NoThread /\ rid[r] \in table.queued
                            THEN table.cancelled \cup {rid[r]} ELSE table.cancelled
  BY DEF Withdraw, T!Withdraw, T!Running, T!Table
<1>7. Book'
  BY <1>1, <1>3, <1>4, <1>6
  DEF Core, Book, QueuedIsUnclaimed, ClaimedIsInflight, InflightIsClaimed
<1>8. \A t \in Threads : (token[t] \/ table.inflight[rid[r]] = t) => token'[t]
  BY ZenonT(30), ThreadAssumption DEF Withdraw, T!Fired, T!Running
<1>9. ASSUME NEW q \in withdrawn', rid[q] # 0, Unclaimed(q)  PROVE rid[q] \in table'.cancelled
  <2>1. CASE q # r
    BY <1>2, <1>6, <1>9, <2>1 DEF Core, WithdrawalIsOnRecord
  <2>2. CASE q = r
    <3>1. rid[r] \in table.queued
      BY <1>9, <2>2 DEF Core, Book, QueuedIsUnclaimed
    <3>2. table.inflight[rid[r]] = NoThread
      <4> SUFFICES ASSUME NEW t \in Threads, table.inflight[rid[r]] = t  PROVE FALSE
        BY DEF T!Table
      <4>1. Claimed(t) /\ rid[job[t]] = rid[r]
        BY ZenonT(30) DEF Core, Book, InflightIsClaimed
      <4>2. job[t] \in Req
        BY <4>1 DEF Core, Jobs, Claimed
      <4>3. job[t] = r
        BY <1>9, <2>2, <4>1, <4>2 DEF Core, Ids
      <4> QED  BY <1>9, <2>2, <4>1, <4>3 DEF Unclaimed
    <3> QED  BY <1>6, <2>2, <3>1, <3>2
  <2> QED  BY <2>1, <2>2
<1>10. ASSUME NEW q \in withdrawn', rid[q] # 0, NEW t \in Threads, job[t] = q,
              pc[t] \in {"claimed", "calling", "waiting"}
       PROVE  token'[t]
  <2>1. CASE q # r
    BY <1>2, <1>8, <1>10, <2>1 DEF Core, WithdrawalIsOnRecord
  <2>2. CASE q = r
    <3>1. table.inflight[rid[r]] = t
      BY <1>10, <2>2 DEF Core, Book, ClaimedIsInflight, Claimed
    <3> QED  BY <1>8, <3>1
  <2> QED  BY <2>1, <2>2
<1>11. WithdrawalIsOnRecord'
  <2> SUFFICES ASSUME NEW q \in withdrawn', rid'[q] # 0
               PROVE  /\ Unclaimed(q)' => rid'[q] \in table'.cancelled
                      /\ \A t \in Threads :
                            job'[t] = q /\ pc'[t] \in {"claimed", "calling", "waiting"}
                                => token'[t]
    BY DEF WithdrawalIsOnRecord
  <2>1. q \in Req
    BY <1>2
  <2> QED  BY <1>1, <1>4, <1>9, <1>10, <2>1
<1> QED  BY <1>5, <1>7, <1>11 DEF Core

LEMMA TakeKeeps ==
    ASSUME IInv, NEW t \in Threads, Take(t)
    PROVE  Core'
<1> USE DEF IInv, TypeInv, TypeOK
<1> DEFINE r == Head(chan)
<1>1. /\ r \in Req /\ r = chan[1] /\ stage[r] = "sent"
      /\ Len(chan') = Len(chan) - 1
      /\ \A i \in 1..Len(chan') : chan'[i] = chan[i + 1]
      /\ Len(chan) \in Nat /\ Len(chan) > 0
      /\ \A i \in 1..Len(chan) : chan[i] \in Req
  BY DEF Take, Core, Channel
<1>2. pc[t] = "idle" /\ pc' = [pc EXCEPT ![t] = "taken"] /\ job' = [job EXCEPT ![t] = r]
  BY DEF Take, Step
<1>3. stage'[r] = "taken" /\ \A q \in Req : q # r => stage'[q] = stage[q]
  BY <1>1 DEF Take
<1>4. UNCHANGED <<asked, lastRequestId, reloads, rid, withdrawn, table, token>>
  BY DEF Take
<1>5. \A u \in Threads : Claimed(u)' <=> Claimed(u)
  BY <1>2 DEF Claimed
<1>6. \A u \in Threads : Claimed(u) => u # t /\ job'[u] = job[u]
  BY <1>2 DEF Claimed
<1>7. \A q \in Req : Unclaimed(q)' <=> Unclaimed(q)
  BY ZenonT(30), <1>1, <1>3, <1>5, <1>6 DEF Unclaimed, Outstanding
<1>8. Ids'
  BY <1>1, <1>3, <1>4 DEF Core, Ids
<1>9. Jobs'
  <2>1. \A u \in Threads : u # t /\ pc[u] # "idle" =>
            job[u] \in Req /\ job[u] # r /\ stage'[job[u]] = "taken"
    BY <1>1, <1>3 DEF Core, Jobs
  <2> SUFFICES ASSUME NEW u \in Threads
               PROVE  /\ pc'[u] = "idle" => job'[u] = NoReq
                      /\ pc'[u] # "idle" => job'[u] \in Req /\ stage'[job'[u]] = "taken"
                      /\ \A v \in Threads : u # v /\ pc'[u] # "idle" /\ pc'[v] # "idle"
                                              => job'[u] # job'[v]
    BY DEF Jobs
  <2>2. CASE u = t
    BY <1>1, <1>2, <1>3, <2>1, <2>2
  <2>3. CASE u # t
    BY <1>2, <2>1, <2>3 DEF Core, Jobs
  <2> QED  BY <2>2, <2>3
<1>10. Channel'
  <2> SUFFICES ASSUME NEW i \in 1..Len(chan')
               PROVE  /\ stage'[chan'[i]] = "sent"
                      /\ \A k \in 1..Len(chan') : i # k => chan'[i] # chan'[k]
    BY DEF Channel
  <2>1. i + 1 \in 1..Len(chan) /\ chan'[i] = chan[i + 1] /\ 1 \in 1..Len(chan)
    BY <1>1
  <2>2. chan[i + 1] # r /\ stage[chan[i + 1]] = "sent"
    BY <1>1, <2>1 DEF Core, Channel
  <2>3. \A k \in 1..Len(chan') : i # k => chan[i + 1] # chan[k + 1]
    BY SMTT(30), <1>1, <2>1 DEF Core, Channel
  <2>4. stage'[chan'[i]] = "sent"
    BY <1>1, <1>3, <2>1, <2>2
  <2>5. \A k \in 1..Len(chan') : i # k => chan'[i] # chan'[k]
    <3> SUFFICES ASSUME NEW k \in 1..Len(chan'), i # k  PROVE chan'[i] # chan'[k]
      OBVIOUS
    <3>1. chan'[k] = chan[k + 1]
      BY <1>1
    <3> QED  BY <2>1, <2>3, <3>1
  <2> QED  BY <2>4, <2>5
<1>11. Book'
  <2>1. QueuedIsUnclaimed'
    BY <1>4, <1>7 DEF Core, Book, QueuedIsUnclaimed
  <2>2. ClaimedIsInflight' /\ InflightIsClaimed'
    BY SMTT(30), <1>4, <1>5, <1>6 DEF Core, Book, ClaimedIsInflight, InflightIsClaimed
  <2> QED  BY <1>4, <2>1, <2>2 DEF Core, Book
<1>12. WithdrawalIsOnRecord'
  BY <1>2, <1>4, <1>7 DEF Core, WithdrawalIsOnRecord
<1> QED  BY <1>8, <1>9, <1>10, <1>11, <1>12 DEF Core

\* A claim: a withdrawn request is answered, any other goes to its thread.
LEMMA ClaimKeeps ==
    ASSUME IInv, NEW t \in Threads, Claim(t)
    PROVE  Core'
<1> USE DEF IInv, TypeInv, TypeOK
<1> SUFFICES ASSUME NEW r \in Req, r = job[t]  PROVE Core'
  BY DEF Claim, Core, Jobs
<1>1. pc[t] = "taken" /\ r = job[t] /\ stage[r] = "taken" /\ ~Claimed(t) /\ rid[r] \in Rids
  BY DEF Claim, Core, Jobs, Claimed
<1>2. UNCHANGED <<asked, lastRequestId, reloads, rid, withdrawn, chan>>
  BY DEF Claim
<1>3. ASSUME NEW u \in Threads, Claimed(u)  PROVE u # t /\ job[u] # r
  <2>1. u # t /\ pc[u] # "idle" /\ pc[t] # "idle"
    BY <1>1, <1>3 DEF Claimed
  <2> QED  BY <1>1, <2>1 DEF Core, Jobs
<1>4. Unclaimed(r)
  BY <1>1, <1>3 DEF Unclaimed, Outstanding
<1>5. \A q \in Req : q # r /\ rid[q] # 0 => rid[q] # rid[r]
  BY <1>1 DEF Core, Ids
<1>6. /\ table'.queued = table.queued \ {rid[r]}
      /\ table'.cancelled = table.cancelled \ {rid[r]}
  BY <1>1 DEF Claim, T!Claim, T!Forget, T!Table
<1>7. \A i \in 1..Len(chan) : chan[i] \in Req /\ chan[i] # r
  BY <1>1 DEF Core, Channel
<1>8. CASE T!ClaimWithdrawn(table, rid[r])
  <2>1. /\ pc' = [pc EXCEPT ![t] = "idle"] /\ job' = [job EXCEPT ![t] = NoReq]
        /\ stage' = [stage EXCEPT ![r] = "answered"] /\ token' = token
        /\ table'.inflight = table.inflight
    BY <1>8 DEF Claim, Reply, T!Claim, T!Forget, T!Table
  <2>2. \A u \in Threads : (Claimed(u)' <=> Claimed(u)) /\ (Claimed(u) => job'[u] = job[u])
    BY <1>1, <1>3, <2>1 DEF Claimed
  <2>3. ~Unclaimed(r)' /\ \A q \in Req : q # r => (Unclaimed(q)' <=> Unclaimed(q))
    BY <1>1, <2>1, <2>2 DEF Unclaimed, Outstanding
  <2>4. Ids' /\ Channel'
    BY <1>1, <1>2, <1>7, <2>1 DEF Core, Ids, Channel
  <2>5. Jobs'
    BY <1>1, <2>1 DEF Core, Jobs
  <2>6. QueuedIsUnclaimed'
    BY <1>2, <1>4, <1>5, <1>6, <2>3 DEF Core, Book, QueuedIsUnclaimed
  <2>7. ClaimedIsInflight' /\ InflightIsClaimed'
    BY SMTT(30), <1>2, <2>1, <2>2 DEF Core, Book, ClaimedIsInflight, InflightIsClaimed
  <2>8. WithdrawalIsOnRecord'
    <3> SUFFICES ASSUME NEW q \in withdrawn', rid'[q] # 0
                 PROVE  /\ Unclaimed(q)' => rid'[q] \in table'.cancelled
                        /\ \A u \in Threads :
                              job'[u] = q /\ pc'[u] \in {"claimed", "calling", "waiting"}
                                  => token'[u]
      BY DEF WithdrawalIsOnRecord
    <3>1. q \in withdrawn /\ q \in Req /\ rid[q] # 0
      BY <1>2
    <3>2. /\ Unclaimed(q) => rid[q] \in table.cancelled
          /\ \A u \in Threads : job[u] = q /\ pc[u] \in {"claimed", "calling", "waiting"}
                                     => token[u]
      BY <3>1 DEF Core, WithdrawalIsOnRecord
    <3> QED  BY <1>2, <1>5, <1>6, <2>1, <2>3, <3>1, <3>2
  <2> QED  BY <1>6, <2>4, <2>5, <2>6, <2>7, <2>8 DEF Core, Book
<1>9. CASE ~T!ClaimWithdrawn(table, rid[r])
  <2>1. /\ pc' = [pc EXCEPT ![t] = "claimed"] /\ token' = [token EXCEPT ![t] = FALSE]
        /\ UNCHANGED <<stage, job>>
    BY <1>9 DEF Claim
  <2>2. table'.inflight = IF rid[r] = 0 THEN table.inflight
                          ELSE [table.inflight EXCEPT ![rid[r]] = t]
    BY <1>1, <1>9 DEF Claim, T!Claim, T!Forget, T!Table
  <2>3. \A u \in Threads : Claimed(u)' <=> (Claimed(u) \/ u = t)
    BY <2>1 DEF Claimed
  <2>4. ~Unclaimed(r)' /\ \A q \in Req : q # r => (Unclaimed(q)' <=> Unclaimed(q))
    BY <1>1, <2>1, <2>3 DEF Unclaimed, Outstanding
  <2>5. Ids' /\ Channel'
    BY <1>2, <2>1 DEF Core, Ids, Channel
  <2>6. Jobs'
    BY SMTT(30), <1>1, <2>1 DEF Core, Jobs
  <2>7. QueuedIsUnclaimed'
    BY <1>2, <1>4, <1>5, <1>6, <2>4 DEF Core, Book, QueuedIsUnclaimed
  <2>8. \A u \in Threads : Claimed(u) => job[u] \in Req /\ (rid[job[u]] # 0 => rid[job[u]] # rid[r])
    BY <1>3, <1>5 DEF Core, Jobs, Claimed
  <2>9. ClaimedIsInflight'
    <3> SUFFICES ASSUME NEW u \in Threads, Claimed(u)', rid'[job'[u]] # 0
                 PROVE  table'.inflight[rid'[job'[u]]] = u
      BY DEF ClaimedIsInflight
    <3>1. CASE u = t
      BY <1>1, <1>2, <2>1, <2>2, <3>1 DEF T!Table
    <3>2. CASE u # t
      <4>1. Claimed(u) /\ rid[job[u]] # rid[r] /\ rid[job[u]] \in Rids
        BY <1>2, <2>1, <2>3, <2>8, <3>2
      <4> QED  BY <1>2, <2>1, <2>2, <4>1 DEF Core, Book, ClaimedIsInflight, T!Table
    <3> QED  BY <3>1, <3>2
  <2>10. InflightIsClaimed'
    <3> SUFFICES ASSUME NEW k \in Rids, NEW u \in Threads, table'.inflight[k] = u
                 PROVE  Claimed(u)' /\ rid'[job'[u]] = k
      BY DEF InflightIsClaimed
    <3>1. CASE k = rid[r] /\ k # 0
      <4>1. u = t
        BY <2>2, <3>1 DEF T!Table
      <4> QED  BY <1>1, <1>2, <2>1, <2>3, <3>1, <4>1
    <3>2. CASE k # rid[r] \/ k = 0
      <4>1. table.inflight[k] = u
        BY <1>1, <2>2, <3>2 DEF T!Table
      <4>2. Claimed(u) /\ rid[job[u]] = k
        BY <4>1 DEF Core, Book, InflightIsClaimed
      <4> QED  BY <1>2, <2>1, <2>3, <4>2
    <3> QED  BY <3>1, <3>2
  <2>11. WithdrawalIsOnRecord'
    <3> SUFFICES ASSUME NEW q \in withdrawn', rid'[q] # 0
                 PROVE  /\ Unclaimed(q)' => rid'[q] \in table'.cancelled
                        /\ \A u \in Threads :
                              job'[u] = q /\ pc'[u] \in {"claimed", "calling", "waiting"}
                                  => token'[u]
      BY DEF WithdrawalIsOnRecord
    <3>1. q \in withdrawn /\ q \in Req /\ rid[q] # 0
      BY <1>2
    <3>2. /\ Unclaimed(q) => rid[q] \in table.cancelled
          /\ \A u \in Threads : job[u] = q /\ pc[u] \in {"claimed", "calling", "waiting"}
                                     => token[u]
      BY <3>1 DEF Core, WithdrawalIsOnRecord
    <3>3. q # r
      BY <1>4, <1>9, <3>1, <3>2 DEF T!ClaimWithdrawn
    <3> QED  BY <1>2, <1>5, <1>6, <2>1, <2>4, <3>1, <3>2, <3>3
  <2> QED  BY <1>6, <2>5, <2>6, <2>7, <2>9, <2>10, <2>11 DEF Core, Book
<1> QED  BY <1>8, <1>9

\* The end of a job: the claim is given back and the request answered.
LEMMA ReleaseKeeps ==
    ASSUME IInv, NEW t \in Threads, Release(t)
    PROVE  Core'
<1> USE DEF IInv, TypeInv, TypeOK
<1> SUFFICES ASSUME NEW r \in Req, r = job[t]  PROVE Core'
  BY DEF Release, Core, Jobs
<1>1. r = job[t] /\ stage[r] = "taken" /\ Claimed(t) /\ rid[r] \in Rids /\ pc[t] # "idle"
  BY DEF Release, Core, Jobs, Claimed
<1>2. UNCHANGED <<asked, lastRequestId, reloads, rid, withdrawn, chan, token>>
  BY DEF Release
<1>3. /\ pc' = [pc EXCEPT ![t] = "idle"] /\ job' = [job EXCEPT ![t] = NoReq]
      /\ stage' = [stage EXCEPT ![r] = "answered"]
  BY <1>1 DEF Release, Reply
<1>4. /\ table'.queued = table.queued /\ table'.cancelled = table.cancelled
      /\ table'.inflight = [table.inflight EXCEPT ![rid[r]] = NoThread]
  BY <1>1 DEF Release, T!Release, T!Table
<1>5. ASSUME NEW u \in Threads, pc[u] # "idle", u # t  PROVE job[u] \in Req /\ job[u] # r
  BY <1>1, <1>5 DEF Core, Jobs
<1>6. \A u \in Threads : Claimed(u)' <=> (Claimed(u) /\ u # t)
  BY <1>3 DEF Claimed
<1>7. ~Unclaimed(r) /\ ~Unclaimed(r)'
  BY <1>1, <1>3 DEF Unclaimed, Outstanding
<1>8. ASSUME NEW q \in Req, q # r  PROVE Unclaimed(q)' <=> Unclaimed(q)
  <2>1. Outstanding(q)' <=> Outstanding(q)
    BY <1>3, <1>8 DEF Outstanding
  <2>2. \A u \in Threads : (Claimed(u) => job[u] # q)' <=> (Claimed(u) => job[u] # q)
    BY <1>1, <1>3, <1>6, <1>8
  <2> QED  BY <2>1, <2>2 DEF Unclaimed
<1>9. Ids'
  BY <1>1, <1>2, <1>3 DEF Core, Ids
<1>10. Jobs'
  <2> SUFFICES ASSUME NEW u \in Threads
               PROVE  /\ pc'[u] = "idle" => job'[u] = NoReq
                      /\ pc'[u] # "idle" => job'[u] \in Req /\ stage'[job'[u]] = "taken"
                      /\ \A v \in Threads : u # v /\ pc'[u] # "idle" /\ pc'[v] # "idle"
                                              => job'[u] # job'[v]
    BY DEF Jobs
  <2>1. CASE u = t
    BY <1>3, <2>1
  <2>2. CASE u # t
    BY <1>3, <1>5, <2>2 DEF Core, Jobs
  <2> QED  BY <2>1, <2>2
<1>11. Channel'
  <2>1. \A i \in 1..Len(chan) : chan[i] \in Req /\ chan[i] # r
    BY <1>1 DEF Core, Channel
  <2> QED  BY <1>2, <1>3, <2>1 DEF Core, Channel
<1>12. QueuedIsUnclaimed'
  BY <1>2, <1>4, <1>7, <1>8 DEF Core, Book, QueuedIsUnclaimed
<1>13. ClaimedIsInflight'
  <2> SUFFICES ASSUME NEW u \in Threads, Claimed(u), u # t, rid[job[u]] # 0
               PROVE  table'.inflight[rid[job[u]]] = u
    BY <1>2, <1>3, <1>6 DEF ClaimedIsInflight
  <2>1. job[u] \in Req /\ job[u] # r
    BY <1>5 DEF Claimed
  <2>2. rid[job[u]] # rid[r] /\ rid[job[u]] \in Rids
    BY <2>1 DEF Core, Ids
  <2> QED  BY <1>4, <2>2 DEF Core, Book, ClaimedIsInflight, T!Table
<1>14. InflightIsClaimed'
  <2> SUFFICES ASSUME NEW k \in Rids, NEW u \in Threads, table'.inflight[k] = u
               PROVE  Claimed(u)' /\ rid'[job'[u]] = k
    BY DEF InflightIsClaimed
  <2>1. k # rid[r]
    BY <1>1, <1>4, ThreadAssumption DEF T!Table
  <2>2. table.inflight[k] = u
    BY <1>4, <2>1 DEF T!Table
  <2>3. Claimed(u) /\ rid[job[u]] = k
    BY <2>2 DEF Core, Book, InflightIsClaimed
  <2> QED  BY <1>1, <1>2, <1>3, <1>6, <2>1, <2>3
<1>15. WithdrawalIsOnRecord'
  <2> SUFFICES ASSUME NEW q \in withdrawn', rid'[q] # 0
               PROVE  /\ Unclaimed(q)' => rid'[q] \in table'.cancelled
                      /\ \A u \in Threads :
                            job'[u] = q /\ pc'[u] \in {"claimed", "calling", "waiting"}
                                => token'[u]
    BY DEF WithdrawalIsOnRecord
  <2>1. q \in withdrawn /\ q \in Req /\ rid[q] # 0
    BY <1>2
  <2>2. /\ Unclaimed(q) => rid[q] \in table.cancelled
        /\ \A u \in Threads : job[u] = q /\ pc[u] \in {"claimed", "calling", "waiting"}
                                   => token[u]
    BY <2>1 DEF Core, WithdrawalIsOnRecord
  <2> QED  BY <1>2, <1>3, <1>4, <1>7, <1>8, <2>1, <2>2
<1> QED  BY <1>4, <1>9, <1>10, <1>11, <1>12, <1>13, <1>14, <1>15 DEF Core, Book

\* The other steps of a thread leave the table alone.
LEMMA ThreadKeeps ==
    ASSUME IInv, NEW t \in Threads, ThreadStep(t) \/ Panic(t)
    PROVE  Core'
<1> USE DEF IInv
<1>1. CASE Take(t)
  BY <1>1, TakeKeeps
<1>2. CASE Claim(t)
  BY <1>2, ClaimKeeps
<1>3. CASE StartCall(t)
  BY <1>3, WorkKeeps DEF StartCall, Step, Claimed, page
<1>4. CASE WriteTile(t)
  BY <1>4, WorkKeeps DEF WriteTile, Step, Claimed, page
<1>5. CASE ReadReply(t)
  BY <1>5, WorkKeeps DEF ReadReply, Judge, Claimed, page
<1>6. CASE Replace(t)
  BY <1>6, WorkKeeps DEF Replace, Lost, Claimed, page
<1>7. CASE GiveUp(t)
  BY <1>7, WorkKeeps DEF GiveUp, Lost, Judge, Claimed, page
<1>8. CASE Release(t)
  BY <1>8, ReleaseKeeps
<1>9. CASE Panic(t)
  BY <1>9, WorkKeeps DEF Panic, Claimed, page
<1> QED  BY <1>1, <1>2, <1>3, <1>4, <1>5, <1>6, <1>7, <1>8, <1>9 DEF ThreadStep

-----------------------------------------------------------------------------
\* The invariant is inductive while there is no reload.
LEMMA StepKeeps ==
    ASSUME MaxReloads = 0, IInv, [Next]_vars
    PROVE  IInv'
<1> USE DEF IInv
<1>1. ASSUME NEW id \in Rids, Ask(id)  PROVE IInv'
  BY <1>1, PageTypes, AskKeeps
<1>2. ASSUME NEW r \in Req, Send(r)  PROVE IInv'
  BY <1>2, PageTypes, SendKeeps
<1>3. ASSUME NEW r \in Req, Withdraw(r)  PROVE IInv'
  BY <1>3, PageTypes, WithdrawKeeps
<1>4. CASE Reload
  BY <1>4 DEF Reload, TypeInv, TypeOK
<1>5. CASE Address
  <2>1. Core'
    BY <1>5, FrameKeeps DEF Address, page, service
  <2> QED  BY <1>5, <2>1, PageTypes
<1>6. CASE Broadcast
  <2>1. Core'
    BY <1>6, FrameKeeps DEF Broadcast, page, service
  <2> QED  BY <1>6, <2>1, PageTypes
<1>7. ASSUME NEW t \in Threads, ThreadStep(t) \/ Panic(t)  PROVE IInv'
  <2>1. Core'
    BY <1>7, ThreadKeeps
  <2>2. TypeInv'
    BY <1>7, ThreadTypes DEF Core
  <2> QED  BY <2>1, <2>2
<1>8. ASSUME NEW t \in Threads, WorkerStep(t) \/ Crash(t)  PROVE IInv'
  <2>1. Core'
    BY <1>8, FrameKeeps
    DEF WorkerStep, ReadLine, WClaim, WFinish, Crash, page, service
  <2> QED  BY <1>8, <2>1, WorkerTypes
<1>9. CASE UNCHANGED vars
  <2>1. Core'
    BY <1>9, FrameKeeps DEF vars, page, service
  <2>2. TypeInv'
    BY <1>9 DEF vars, page, service, worker, TypeInv, TypeOK,
                IncarnationsAreDeaths, RendersAJob
  <2> QED  BY <2>1, <2>2
<1> QED  BY <1>1, <1>2, <1>3, <1>4, <1>5, <1>6, <1>7, <1>8, <1>9 DEF Next

LEMMA Inductive ==
    ASSUME MaxReloads = 0
    PROVE  Spec => []IInv
<1>1. Init => IInv
  BY TypesStart, CoreStart DEF IInv
<1>2. IInv /\ [Next]_vars => IInv'
  BY StepKeeps
<1> QED  BY <1>1, <1>2, PTL DEF Spec

\* Book says id by id what TableMatchesWork says of the sets.
LEMMA BookIsTheTable ==
    ASSUME IInv
    PROVE  TableMatchesWork
<1> USE DEF IInv, TypeInv, TypeOK, Core, Book
<1>1. table.queued = {rid[r] : r \in {q \in Req : Unclaimed(q)}} \ {0}
  <2>1. table.queued \subseteq Rids
    BY DEF T!Table
  <2>2. ASSUME NEW id \in table.queued
        PROVE  id \in {rid[r] : r \in {q \in Req : Unclaimed(q)}} \ {0}
    BY <2>1 DEF QueuedIsUnclaimed
  <2>3. ASSUME NEW r \in Req, Unclaimed(r), rid[r] # 0
        PROVE  rid[r] \in table.queued
    BY <2>3 DEF QueuedIsUnclaimed
  <2> QED  BY <2>2, <2>3
<1>2. \A t \in Threads :
          Claimed(t) /\ rid[job[t]] # 0 => table.inflight[rid[job[t]]] = t
  BY DEF ClaimedIsInflight
<1>3. \A id \in Rids : T!Running(table, id) =>
          Claimed(table.inflight[id]) /\ rid[job[table.inflight[id]]] = id
  <2> SUFFICES ASSUME NEW id \in Rids, table.inflight[id] # NoThread
               PROVE  Claimed(table.inflight[id]) /\ rid[job[table.inflight[id]]] = id
    BY DEF T!Running
  <2>1. PICK t \in Threads : table.inflight[id] = t
    BY DEF T!Table
  <2>2. Claimed(t) /\ rid[job[t]] = id
    BY <2>1 DEF InflightIsClaimed
  <2> QED  BY <2>1, <2>2
<1> QED  BY <1>1, <1>2, <1>3 DEF TableMatchesWork

-----------------------------------------------------------------------------
\* Every variable keeps its type, a worker is replaced only after a death, and
\* no step of the reader, the render thread or the service leaves its range.
THEOREM ServiceTypes ==
    ASSUME MaxReloads = 0
    PROVE  Spec => []TypeOK
<1>1. IInv => TypeOK
  BY DEF IInv, TypeInv
<1> QED  BY <1>1, Inductive, PTL

\* The service's table and the work agree in every state (queue.rs): no entry
\* outlives its request, no claimed request is without its token.
THEOREM TheTableMatches ==
    ASSUME MaxReloads = 0
    PROVE  Spec => []TableMatchesWork
<1> QED  BY BookIsTheTable, Inductive, PTL

\* A withdrawal is never lost, whichever of the page, the channel and the
\* threads moves first (queue.rs:45-49).
THEOREM NoWithdrawalIsLost ==
    ASSUME MaxReloads = 0
    PROVE  Spec => []WithdrawalIsOnRecord
<1>1. IInv => WithdrawalIsOnRecord
  BY DEF IInv, Core
<1> QED  BY <1>1, Inductive, PTL

-----------------------------------------------------------------------------
\* An answered request is in no part of the table: its id was its own, and
\* what is queued is not answered.
LEMMA AnsweredIsGone ==
    ASSUME IInv
    PROVE  AnsweredLeavesNoTrace
<1> USE DEF IInv, TypeInv, TypeOK
<1> SUFFICES ASSUME NEW r \in Req, stage[r] = "answered", rid[r] # 0
             PROVE  rid[r] \notin table.queued \cup table.cancelled
  BY DEF AnsweredLeavesNoTrace
<1>1. ~Unclaimed(r)
  BY DEF Unclaimed, Outstanding
<1>2. \A q \in Req : rid[q] = rid[r] => q = r
  BY DEF Core, Ids
<1> QED  BY <1>1, <1>2 DEF Core, Book, QueuedIsUnclaimed

\* A request that was answered, a failed send included, left nothing behind
\* (queue.rs, Queue::forget).
THEOREM NothingIsLeftOfAnAnswer ==
    ASSUME MaxReloads = 0
    PROVE  Spec => []AnsweredLeavesNoTrace
<1> QED  BY AnsweredIsGone, Inductive, PTL

-----------------------------------------------------------------------------
\* The workers' side of the tile path, and what the page is promised of it.  The
\* invariant above knows the service's table and threads; here it is joined by
\* what the pipes, the workers' tables and their replies hold: each worker has at
\* most the one request its thread waits for, and whatever any of them takes for
\* withdrawn the page has withdrawn.

\* The ids of the requests the page has withdrawn.
Recalled(id) == id # 0 /\ \E r \in withdrawn : rid[r] = id

\* A worker has one request at most: as a line, a job or a reply.
OneAtATime ==
    \A t \in Threads :
        /\ pc[t] # "waiting" => wchan[t] = <<>> /\ wreply[t] = "none" /\ TileLines(t) = {}
        /\ Len(wchan[t]) <= 1
        /\ wchan[t] # <<>> => wreply[t] = "none" /\ TileLines(t) = {}
        /\ wreply[t] # "none" => TileLines(t) = {}
        /\ \A i, k \in TileLines(t) : i = k
        /\ wpc[t] = "dead" => pipe[t] = <<>> /\ wchan[t] = <<>>

\* And it is the request its thread waits for.
SameRequestAt(t) ==
    /\ wchan[t] # <<>> => wchan[t][1] = rid[job[t]]
    /\ \A i \in TileLines(t) : pipe[t][i].rid = rid[job[t]]

SameRequest == \A t \in Threads : SameRequestAt(t)

\* The worker's table is about the job in its channel.
WorkerTableAt(t) ==
    /\ wtable[t].cancelled \subseteq wtable[t].queued
    /\ \A id \in wtable[t].queued : wchan[t] # <<>> /\ id = wchan[t][1] /\ id # 0
    /\ \A id \in Rids : T!Running(wtable[t], id) =>
          wpc[t] = "rendering" /\ id = wchan[t][1] /\ id # 0
    /\ wpc[t] = "rendering" => wtable[t].queued = {}

WorkerTables == \A t \in Threads : WorkerTableAt(t)

\* Nothing is taken for withdrawn that is not: not by the service's table or the
\* withdrawal on its way, by a line in a pipe, by a worker, or by a thread.
TableRecalled ==
    /\ \A id \in table.cancelled : Recalled(id)
    /\ table.inflight[0] = NoThread
    /\ cancel.pc # "idle" /\ cancel.rid # 0 => Recalled(cancel.rid)

PipeRecalled ==
    \A t \in Threads : \A i \in 1..Len(pipe[t]) :
        pipe[t][i].kind = "withdraw" /\ pipe[t][i].rid # 0 => Recalled(pipe[t][i].rid)

WorkerRecalled ==
    \A t \in Threads :
        /\ \A id \in wtable[t].cancelled : Recalled(id)
        /\ wtoken[t] /\ wpc[t] = "rendering" => Recalled(wchan[t][1])

AtWork(t) == pc[t] \in {"claimed", "calling", "waiting"}

ThreadRecalled ==
    \A t \in Threads :
        /\ wreply[t] = "abandoned" => Recalled(rid[job[t]])
        /\ token[t] /\ AtWork(t) => Recalled(rid[job[t]])

OnlyRecalled == TableRecalled /\ PipeRecalled /\ WorkerRecalled /\ ThreadRecalled

WorkerInv == IInv /\ OneAtATime /\ SameRequest /\ WorkerTables /\ OnlyRecalled

-----------------------------------------------------------------------------
\* Lines at the end of a pipe and at its head.
LEMMA LineAdded ==
    ASSUME NEW s \in Seq(Line), NEW l \in Line
    PROVE  /\ Len(s) \in Nat /\ Len(Append(s, l)) = Len(s) + 1
           /\ \A i \in 1..Len(s) : Append(s, l)[i] = s[i]
           /\ \A i \in 1..Len(Append(s, l)) : i \in 1..Len(s) \/ Append(s, l)[i] = l
  BY AppendProperties, LenProperties

LEMMA LineRead ==
    ASSUME NEW s \in Seq(Line), s # <<>>
    PROVE  /\ Head(s) = s[1] /\ Head(s) \in Line /\ 1 \in 1..Len(s)
           /\ Tail(s) \in Seq(Line)
           /\ \A i \in 1..Len(Tail(s)) : i + 1 \in 1..Len(s) /\ Tail(s)[i] = s[i + 1] /\ i + 1 # 1
  BY HeadTailProperties, LenProperties, EmptySeq

\* A thread writes a tile line only when its worker has nothing of it.
LEMMA OneAtATimeWrite ==
    ASSUME IInv, OneAtATime, NEW t \in Threads, WriteTile(t)
    PROVE  OneAtATime'
<1> USE DEF IInv, TypeInv, TypeOK
<1> DEFINE l == [kind |-> "tile", rid |-> rid[job[t]]]
<1>1. job[t] \in Req /\ l \in Line
  BY DEF WriteTile, Step, Core, Jobs, Line
<1>2. /\ pc[t] = "calling" /\ pc'[t] = "waiting"
      /\ \A u \in Threads \ {t} : pc'[u] = pc[u] /\ pipe'[u] = pipe[u]
      /\ pipe'[t] = IF wpc[t] = "dead" THEN pipe[t] ELSE Append(pipe[t], l)
      /\ UNCHANGED <<wchan, wpc, wreply>>
  BY DEF WriteTile, Step
<1>3. wchan[t] = <<>> /\ wreply[t] = "none" /\ TileLines(t) = {}
  BY <1>2 DEF OneAtATime
<1>4. ASSUME NEW u \in Threads \ {t}  PROVE TileLines(u)' = TileLines(u)
  BY <1>2 DEF TileLines
<1>5. \A i, k \in TileLines(t)' : i = k
  <2>1. CASE wpc[t] = "dead"
    BY <1>2, <1>3, <2>1 DEF TileLines
  <2>2. CASE wpc[t] # "dead"
    <3>1. /\ pipe'[t] = Append(pipe[t], l) /\ pipe[t] \in Seq(Line)
          /\ \A i \in 1..Len(pipe[t]) : pipe[t][i].kind # "tile"
      BY <1>2, <1>3, <2>2 DEF TileLines
    <3> HIDE DEF l
    <3>2. \A i \in TileLines(t)' : i = Len(pipe[t]) + 1
      BY <1>1, <3>1, LineAdded DEF TileLines
    <3> QED  BY <3>2
  <2> QED  BY <2>1, <2>2
<1> QED  BY <1>2, <1>3, <1>4, <1>5 DEF OneAtATime

\* What reading a line moves.
LEMMA ReadLineMoves ==
    ASSUME IInv, NEW t \in Threads, ReadLine(t)
    PROVE  /\ wpc[t] # "dead" /\ pipe[t] # <<>> /\ pipe[t] \in Seq(Line)
           /\ wchan[t] \in Seq(Rids)
           /\ pipe'[t] = Tail(pipe[t])
           /\ \A u \in Threads \ {t} : pipe'[u] = pipe[u] /\ wchan'[u] = wchan[u]
           /\ Head(pipe[t]).kind = "withdraw" => wchan'[t] = wchan[t]
           /\ Head(pipe[t]).kind # "withdraw" =>
                 wchan'[t] = Append(wchan[t], Head(pipe[t]).rid)
           /\ UNCHANGED <<page, service, wpc, wreply, incarnation, crashes, panics, cancel>>
<1> USE DEF IInv, TypeInv, TypeOK
<1>1. CASE Head(pipe[t]).kind = "withdraw"
  <2>1. UNCHANGED wchan /\ pipe' = [pipe EXCEPT ![t] = Tail(@)]
    BY <1>1 DEF ReadLine
  <2> QED  BY <1>1, <2>1 DEF ReadLine
<1>2. CASE Head(pipe[t]).kind # "withdraw"
  <2>1. /\ wchan' = [wchan EXCEPT ![t] = Append(@, Head(pipe[t]).rid)]
        /\ pipe' = [pipe EXCEPT ![t] = Tail(@)]
    BY <1>2 DEF ReadLine
  <2> QED  BY <1>2, <2>1 DEF ReadLine
<1> QED  BY <1>1, <1>2

\* A line that is read becomes the job; the others move up.
LEMMA OneAtATimeReadLine ==
    ASSUME IInv, OneAtATime, NEW t \in Threads, ReadLine(t)
    PROVE  OneAtATime'
<1>1. /\ pipe[t] # <<>> /\ pipe[t] \in Seq(Line) /\ pipe'[t] = Tail(pipe[t]) /\ wpc[t] # "dead"
      /\ \A u \in Threads \ {t} : pipe'[u] = pipe[u] /\ wchan'[u] = wchan[u]
      /\ UNCHANGED <<pc, wpc, wreply>>
  BY ReadLineMoves DEF service
<1>2. ASSUME NEW u \in Threads \ {t}  PROVE TileLines(u)' = TileLines(u)
  BY <1>1 DEF TileLines
<1>3. \A i \in TileLines(t)' : i + 1 \in TileLines(t) /\ i \in Nat /\ i + 1 # 1
  BY <1>1, LineRead DEF TileLines
<1>4. \A i, k \in TileLines(t) : i = k
  BY DEF OneAtATime
<1>5. \A i, k \in TileLines(t)' : i = k
  <2> SUFFICES ASSUME NEW i \in TileLines(t)', NEW k \in TileLines(t)'  PROVE i = k
    OBVIOUS
  <2>1. i + 1 = k + 1 /\ i \in Nat /\ k \in Nat
    BY <1>3, <1>4
  <2> QED  BY <2>1
<1>6. TileLines(t) = {} => TileLines(t)' = {}
  BY <1>3
<1>7. CASE Head(pipe[t]).kind = "withdraw"
  <2>1. wchan'[t] = wchan[t]
    BY <1>7, ReadLineMoves
  <2> QED  BY <1>1, <1>2, <1>5, <1>6, <2>1 DEF OneAtATime
<1>8. CASE Head(pipe[t]).kind # "withdraw"
  <2>1. 1 \in TileLines(t)
    BY <1>1, <1>8, LineRead DEF TileLines, Line
  <2>2. TileLines(t)' = {}
    BY <1>3, <1>4, <2>1
  <2>3. wchan[t] = <<>> /\ wreply[t] = "none" /\ pc[t] = "waiting"
    BY <2>1 DEF OneAtATime
  <2>4. wchan'[t] # <<>> /\ Len(wchan'[t]) <= 1
    <3>1. wchan'[t] = Append(wchan[t], Head(pipe[t]).rid) /\ wchan[t] \in Seq(Rids)
      BY <1>8, ReadLineMoves
    <3>2. Head(pipe[t]).rid \in Rids
      BY <1>1, LineRead DEF Line
    <3> QED  BY <2>3, <3>1, <3>2, AppendProperties
  <2> QED  BY <1>1, <1>2, <2>2, <2>3, <2>4 DEF OneAtATime
<1> QED  BY <1>7, <1>8

\* A withdrawal is not a tile line.
LEMMA OneAtATimeBroadcast ==
    ASSUME IInv, OneAtATime, Broadcast
    PROVE  OneAtATime'
<1> USE DEF IInv, TypeInv, TypeOK
<1> DEFINE l == [kind |-> "withdraw", rid |-> cancel.rid]
<1>1. /\ \A u \in Threads : pipe'[u] = pipe[u] \/ (wpc[u] # "dead" /\ pipe'[u] = Append(pipe[u], l))
      /\ UNCHANGED <<pc, wpc, wreply, wchan>>
  BY DEF Broadcast, service
<1>2. l \in Line /\ l.kind # "tile"
  BY DEF Line
<1> HIDE DEF l
<1>3. ASSUME NEW u \in Threads  PROVE TileLines(u)' = TileLines(u)
  <2>1. CASE pipe'[u] = pipe[u]
    BY <2>1 DEF TileLines
  <2>2. CASE pipe'[u] = Append(pipe[u], l)
    <3>1. pipe[u] \in Seq(Line)
      OBVIOUS
    <3>2. /\ Len(pipe'[u]) = Len(pipe[u]) + 1 /\ Len(pipe[u]) \in Nat
          /\ \A i \in 1..Len(pipe[u]) : pipe'[u][i] = pipe[u][i]
          /\ \A i \in 1..Len(pipe'[u]) : i \in 1..Len(pipe[u]) \/ pipe'[u][i] = l
      BY <1>2, <2>2, <3>1, LineAdded
    <3> QED  BY SMTT(30), <1>2, <3>2 DEF TileLines
  <2> QED  BY <1>1, <2>1, <2>2
<1> QED  BY <1>1, <1>3 DEF OneAtATime

LEMMA OneAtATimeThread ==
    ASSUME IInv, OneAtATime, NEW t \in Threads,
           ThreadStep(t) \/ Panic(t)
    PROVE  OneAtATime'
<1> USE DEF IInv, TypeInv, TypeOK, RendersAJob, page, service, worker, Step,
           OneAtATime, TileLines
<1>1. CASE Take(t)
  <2>1. /\ UNCHANGED <<wchan, wreply, wpc, pipe>>
        /\ \A u \in Threads : pc'[u] # "waiting" => pc[u] # "waiting"
    BY <1>1 DEF Take
  <2> HIDE DEF IInv, TypeInv, TypeOK, RendersAJob
  <2> QED  BY <2>1
<1>2. CASE Claim(t)
  BY SMTT(30), <1>2 DEF Claim, Reply
<1>3. CASE StartCall(t)
  BY <1>3 DEF StartCall
<1>4. CASE WriteTile(t)
  BY <1>4, OneAtATimeWrite
<1>5. CASE ReadReply(t)
  BY <1>5 DEF ReadReply, Judge
<1>6. CASE Replace(t)
  BY <1>6 DEF Replace, Lost
<1>7. CASE GiveUp(t)
  BY <1>7 DEF GiveUp, Lost, Judge
<1>8. CASE Release(t)
  BY <1>8 DEF Release, Reply
<1>9. CASE Panic(t)
  BY <1>9 DEF Panic
<1> QED  BY <1>1, <1>2, <1>3, <1>4, <1>5, <1>6, <1>7, <1>8, <1>9 DEF ThreadStep

LEMMA OneAtATimeWorker ==
    ASSUME IInv, OneAtATime, NEW t \in Threads,
           WorkerStep(t) \/ Crash(t)
    PROVE  OneAtATime'
<1> USE DEF IInv, TypeInv, TypeOK, RendersAJob, page, service, worker, Step,
           OneAtATime, TileLines
<1>1. CASE ReadLine(t)
  BY <1>1, OneAtATimeReadLine
<1>2. CASE WClaim(t)
  BY SMTT(30), <1>2 DEF WClaim
<1>3. CASE WFinish(t)
  BY SMTT(30), <1>3 DEF WFinish
<1>4. CASE Crash(t)
  BY <1>4 DEF Crash
<1> QED  BY <1>1, <1>2, <1>3, <1>4 DEF WorkerStep

LEMMA OneAtATimePage ==
    ASSUME IInv, OneAtATime,
           \/ \E id \in Rids : Ask(id)
           \/ \E r \in Req : Send(r) \/ Withdraw(r)
           \/ Address \/ Broadcast
    PROVE  OneAtATime'
<1> USE DEF IInv, TypeInv, TypeOK, RendersAJob, page, service, worker, Step,
           OneAtATime, TileLines
<1>1. ASSUME NEW id \in Rids, Ask(id)  PROVE OneAtATime'
  BY SMTT(30), <1>1 DEF Ask
<1>2. ASSUME NEW r \in Req, Send(r)  PROVE OneAtATime'
  BY <1>2 DEF Send
<1>3. ASSUME NEW r \in Req, Withdraw(r)  PROVE OneAtATime'
  <2>1. UNCHANGED <<pc, wchan, wreply, wpc, pipe>>
    BY <1>3 DEF Withdraw
  <2> QED  BY <2>1
<1>4. ASSUME Address  PROVE OneAtATime'
  <2>1. UNCHANGED <<pc, wchan, wreply, wpc, pipe>>
    BY <1>4 DEF Address
  <2> QED  BY <2>1
<1>5. ASSUME Broadcast  PROVE OneAtATime'
  BY <1>5, OneAtATimeBroadcast
<1> QED  BY <1>1, <1>2, <1>3, <1>4, <1>5

\* The lines that are left after one is read were there before.
LEMMA LinesLeft ==
    ASSUME IInv, NEW t \in Threads, ReadLine(t)
    PROVE  \A i \in 1..Len(pipe'[t]) :
              i \in Nat /\ i + 1 \in 1..Len(pipe[t]) /\ pipe'[t][i] = pipe[t][i + 1]
<1>1. pipe[t] # <<>> /\ pipe[t] \in Seq(Line) /\ pipe'[t] = Tail(pipe[t])
  BY ReadLineMoves
<1>2. \A i \in 1..Len(Tail(pipe[t])) :
          i + 1 \in 1..Len(pipe[t]) /\ Tail(pipe[t])[i] = pipe[t][i + 1]
  BY <1>1, LineRead
<1>3. Len(Tail(pipe[t])) \in Nat
  BY <1>1, LineRead, LenProperties
<1> QED  BY <1>1, <1>2, <1>3

\* A line added at the end is the last one.
LEMMA LinesAdded ==
    ASSUME IInv, Broadcast, NEW u \in Threads
    PROVE  \A i \in 1..Len(pipe'[u]) :
              \/ (i \in 1..Len(pipe[u]) /\ pipe'[u][i] = pipe[u][i])
              \/ pipe'[u][i] = [kind |-> "withdraw", rid |-> cancel.rid]
<1> USE DEF IInv, TypeInv, TypeOK
<1> DEFINE l == [kind |-> "withdraw", rid |-> cancel.rid]
<1>1. pipe'[u] = pipe[u] \/ pipe'[u] = Append(pipe[u], l)
  BY DEF Broadcast
<1>2. l \in Line /\ pipe[u] \in Seq(Line)
  BY DEF Line
<1> HIDE DEF l
<1>3. CASE pipe'[u] = Append(pipe[u], l)
  <2>1. \A i \in 1..Len(Append(pipe[u], l)) :
            i \in 1..Len(pipe[u]) \/ Append(pipe[u], l)[i] = l
    BY <1>2, LineAdded
  <2>2. \A i \in 1..Len(pipe[u]) : Append(pipe[u], l)[i] = pipe[u][i]
    BY <1>2, LineAdded
  <2> QED  BY <1>3, <2>1, <2>2 DEF l
<1>4. l = [kind |-> "withdraw", rid |-> cancel.rid]
  BY DEF l
<1> QED  BY <1>1, <1>3, <1>4

\* A worker that a step does not touch has the request it had.
LEMMA SameRequestElse ==
    ASSUME SameRequest, NEW u \in Threads,
           pipe'[u] = pipe[u], wchan'[u] = wchan[u], rid'[job'[u]] = rid[job[u]]
    PROVE  SameRequestAt(u)'
<1>1. TileLines(u)' = TileLines(u)
  BY DEF TileLines
<1> QED  BY <1>1 DEF SameRequest, SameRequestAt

\* A job whose thread does not wait for it has left nothing with the worker.
LEMMA SameRequestFrame ==
    ASSUME IInv, OneAtATime, SameRequest, UNCHANGED <<pipe, wchan>>,
           \A u \in Threads : pc[u] = "waiting" => job'[u] = job[u] /\ rid'[job[u]] = rid[job[u]]
    PROVE  SameRequest'
<1>1. \A u \in Threads : TileLines(u)' = TileLines(u)
  BY DEF TileLines
<1>2. ASSUME NEW u \in Threads, pc[u] # "waiting"
      PROVE  wchan'[u] = <<>> /\ TileLines(u)' = {}
  BY <1>1, <1>2 DEF OneAtATime
<1> QED  BY <1>1, <1>2 DEF SameRequest, SameRequestAt

LEMMA SameRequestThread ==
    ASSUME IInv, OneAtATime, SameRequest, NEW t \in Threads, ThreadStep(t) \/ Panic(t)
    PROVE  SameRequest'
<1> USE DEF IInv, TypeInv, TypeOK
<1>1. CASE WriteTile(t)
  <2> DEFINE l == [kind |-> "tile", rid |-> rid[job[t]]]
  <2>1. /\ \A u \in Threads \ {t} : pipe'[u] = pipe[u]
        /\ pipe'[t] = pipe[t] \/ pipe'[t] = Append(pipe[t], l)
        /\ UNCHANGED <<wchan, job, rid>>
    BY <1>1 DEF WriteTile, Step, page
  <2>2. pipe[t] \in Seq(Line) /\ l \in Line /\ l.rid = rid[job[t]]
    BY <1>1 DEF WriteTile, Step, Core, Jobs, Line
  <2> HIDE DEF l
  <2>3. \A u \in Threads \ {t} : SameRequestAt(u)'
    BY <2>1, SameRequestElse
  <2>4. \A i \in TileLines(t)' : pipe'[t][i].rid = rid[job[t]]
    <3>1. CASE pipe'[t] = pipe[t]
      BY <3>1 DEF TileLines, SameRequest, SameRequestAt
    <3>2. CASE pipe'[t] = Append(pipe[t], l)
      <4>1. \A i \in 1..Len(pipe'[t]) :
                (i \in 1..Len(pipe[t]) /\ pipe'[t][i] = pipe[t][i]) \/ pipe'[t][i] = l
        <5>1. \A i \in 1..Len(Append(pipe[t], l)) :
                  i \in 1..Len(pipe[t]) \/ Append(pipe[t], l)[i] = l
          BY <2>2, LineAdded
        <5>2. \A i \in 1..Len(pipe[t]) : Append(pipe[t], l)[i] = pipe[t][i]
          BY <2>2, LineAdded
        <5> QED  BY <3>2, <5>1, <5>2
      <4>2. ASSUME NEW i \in TileLines(t)'  PROVE pipe'[t][i].rid = rid[job[t]]
        <5>1. i \in 1..Len(pipe'[t]) /\ pipe'[t][i].kind = "tile"
          BY DEF TileLines
        <5>2. CASE pipe'[t][i] = l
          BY <2>2, <5>2
        <5>3. CASE i \in 1..Len(pipe[t]) /\ pipe'[t][i] = pipe[t][i]
          BY <5>1, <5>3 DEF TileLines, SameRequest, SameRequestAt
        <5> QED  BY <4>1, <5>1, <5>2, <5>3
      <4> QED  BY <4>2
    <3> QED  BY <2>1, <3>1, <3>2
  <2>5. SameRequestAt(t)'
    BY <2>1, <2>4 DEF SameRequest, SameRequestAt
  <2> QED  BY <2>3, <2>5 DEF SameRequest
<1>2. CASE Take(t) \/ Claim(t) \/ Release(t)
  <2>1. pc[t] # "waiting" /\ \A u \in Threads \ {t} : job'[u] = job[u]
    BY <1>2 DEF Take, Step, Claim, Release, Reply
  <2>2. UNCHANGED <<pipe, wchan, rid>>
    BY <1>2 DEF Take, Claim, Release, worker
  <2> QED  BY <2>1, <2>2, SameRequestFrame
<1>3. CASE StartCall(t) \/ ReadReply(t) \/ Replace(t) \/ GiveUp(t) \/ Panic(t)
  <2>1. UNCHANGED <<pipe, wchan, rid, job>>
    BY <1>3 DEF StartCall, ReadReply, Replace, GiveUp, Panic, page, worker
  <2> QED  BY <2>1, SameRequestFrame
<1> QED  BY <1>1, <1>2, <1>3 DEF ThreadStep

LEMMA SameRequestPage ==
    ASSUME IInv, OneAtATime, SameRequest,
           \/ \E id \in Rids : Ask(id)
           \/ \E r \in Req : Send(r) \/ Withdraw(r)
           \/ Address \/ Broadcast
    PROVE  SameRequest'
<1> USE DEF IInv, TypeInv, TypeOK
<1>1. ASSUME NEW id \in Rids, Ask(id)  PROVE SameRequest'
  <2>1. \A u \in Threads : pc[u] = "waiting" => job[u] \in Req /\ job[u] # asked + 1
    BY <1>1 DEF Ask, Core, Jobs, Ids, Req
  <2>2. UNCHANGED <<pipe, wchan, job>> /\ rid' = [rid EXCEPT ![asked + 1] = id]
    BY <1>1 DEF Ask, worker
  <2> QED  BY <2>1, <2>2, SameRequestFrame
<1>2. ASSUME NEW r \in Req, Send(r) \/ Withdraw(r)  PROVE SameRequest'
  <2>1. UNCHANGED <<pipe, wchan, rid, job>>
    BY <1>2 DEF Send, Withdraw, worker
  <2> QED  BY <2>1, SameRequestFrame
<1>3. ASSUME Address  PROVE SameRequest'
  <2>1. UNCHANGED <<pipe, wchan, rid, job>>
    BY <1>3 DEF Address, page, service, worker
  <2> QED  BY <2>1, SameRequestFrame
<1>4. ASSUME Broadcast  PROVE SameRequest'
  <2>1. UNCHANGED <<wchan, rid, job>>
    BY <1>4 DEF Broadcast, page, service
  <2>2. ASSUME NEW u \in Threads
        PROVE  \A i \in TileLines(u)' : i \in TileLines(u) /\ pipe'[u][i] = pipe[u][i]
    <3> SUFFICES ASSUME NEW i \in TileLines(u)'
                 PROVE  i \in TileLines(u) /\ pipe'[u][i] = pipe[u][i]
      OBVIOUS
    <3>1. i \in 1..Len(pipe'[u]) /\ pipe'[u][i].kind = "tile"
      BY DEF TileLines
    <3>2. \/ (i \in 1..Len(pipe[u]) /\ pipe'[u][i] = pipe[u][i])
          \/ pipe'[u][i] = [kind |-> "withdraw", rid |-> cancel.rid]
      BY <1>4, <3>1, LinesAdded
    <3> QED  BY <3>1, <3>2 DEF TileLines
  <2>3. ASSUME NEW u \in Threads  PROVE SameRequestAt(u)'
    <3>1. \A i \in TileLines(u)' : pipe'[u][i].rid = rid[job[u]]
      <4> SUFFICES ASSUME NEW i \in TileLines(u)'  PROVE pipe'[u][i].rid = rid[job[u]]
        OBVIOUS
      <4>1. i \in TileLines(u) /\ pipe'[u][i] = pipe[u][i]
        BY <2>2
      <4> QED  BY <4>1 DEF SameRequest, SameRequestAt
    <3> QED  BY <2>1, <3>1 DEF SameRequest, SameRequestAt
  <2> QED  BY <2>3 DEF SameRequest
<1> QED  BY <1>1, <1>2, <1>3, <1>4

LEMMA SameRequestWorker ==
    ASSUME IInv, OneAtATime, SameRequest, NEW t \in Threads, WorkerStep(t) \/ Crash(t)
    PROVE  SameRequest'
<1> USE DEF IInv, TypeInv, TypeOK
<1>1. UNCHANGED <<rid, job>>
  BY DEF WorkerStep, ReadLine, WClaim, WFinish, Crash, page, service
<1>2. CASE ReadLine(t)
  <2>1. \A u \in Threads \ {t} : pipe'[u] = pipe[u] /\ wchan'[u] = wchan[u]
    BY <1>2, ReadLineMoves
  <2>2. \A u \in Threads \ {t} : SameRequestAt(u)'
    BY <1>1, <2>1, SameRequestElse
  <2>3. \A i \in TileLines(t)' : i + 1 \in TileLines(t) /\ pipe'[t][i] = pipe[t][i + 1]
    BY SMTT(30), <1>2, LinesLeft DEF TileLines
  <2>4. wchan'[t] # <<>> => wchan'[t][1] = rid[job[t]]
    <3>1. CASE Head(pipe[t]).kind = "withdraw"
      BY <1>2, <3>1, ReadLineMoves DEF SameRequest, SameRequestAt
    <3>2. CASE Head(pipe[t]).kind # "withdraw"
      <4>1. /\ pipe[t] # <<>> /\ pipe[t] \in Seq(Line)
            /\ wchan'[t] = Append(wchan[t], Head(pipe[t]).rid)
        BY <1>2, <3>2, ReadLineMoves
      <4>2. 1 \in TileLines(t) /\ Head(pipe[t]) = pipe[t][1] /\ Head(pipe[t]).rid \in Rids
        BY <3>2, <4>1, LineRead DEF TileLines, Line
      <4>3. wchan[t] = <<>> /\ pipe[t][1].rid = rid[job[t]]
        BY <4>2 DEF OneAtATime, SameRequest, SameRequestAt
      <4>4. wchan'[t] = <<Head(pipe[t]).rid>>
        BY <4>1, <4>2, <4>3
      <4> QED  BY <4>2, <4>3, <4>4
    <3> QED  BY <3>1, <3>2
  <2>5. SameRequestAt(t)'
    BY <1>1, <2>3, <2>4 DEF SameRequest, SameRequestAt
  <2> QED  BY <2>2, <2>5 DEF SameRequest
<1>3. CASE WClaim(t) \/ WFinish(t) \/ Crash(t)
  <2>1. /\ \A u \in Threads \ {t} : wchan'[u] = wchan[u] /\ pipe'[u] = pipe[u]
        /\ wchan'[t] \in {wchan[t], Tail(wchan[t]), <<>>}
        /\ pipe'[t] \in {pipe[t], <<>>}
    BY <1>3 DEF WClaim, WFinish, Crash
  <2>2. wchan'[t] = <<>> \/ wchan'[t] = wchan[t]
    <3>1. wchan[t] \in Seq(Rids) /\ Len(wchan[t]) <= 1
      BY DEF OneAtATime
    <3>2. CASE wchan[t] = <<>>
      <4>1. UNCHANGED wchan \/ wchan'[t] = <<>>
        BY <1>3, <3>2 DEF WClaim, WFinish, Crash, RendersAJob
      <4> QED  BY <4>1
    <3>3. CASE wchan[t] # <<>>
      BY <2>1, <3>1, <3>3
    <3> QED  BY <3>2, <3>3
  <2>3. \A u \in Threads \ {t} : SameRequestAt(u)'
    BY <1>1, <2>1, SameRequestElse
  <2>4. \A i \in TileLines(t)' : i \in TileLines(t) /\ pipe'[t][i] = pipe[t][i]
    <3>1. CASE pipe'[t] = pipe[t]
      BY <3>1 DEF TileLines
    <3>2. CASE pipe'[t] = <<>>
      BY <3>2 DEF TileLines
    <3> QED  BY <2>1, <3>1, <3>2
  <2>5. SameRequestAt(t)'
    <3>1. \A i \in TileLines(t) : pipe[t][i].rid = rid[job[t]]
      BY DEF SameRequest, SameRequestAt
    <3>2. \A i \in TileLines(t)' : pipe'[t][i].rid = rid'[job'[t]]
      BY <1>1, <2>4, <3>1
    <3>3. wchan'[t] # <<>> => wchan'[t][1] = rid'[job'[t]]
      BY <1>1, <2>2 DEF SameRequest, SameRequestAt
    <3> QED  BY <3>2, <3>3 DEF SameRequestAt
  <2> QED  BY <2>3, <2>5 DEF SameRequest
<1> QED  BY <1>2, <1>3 DEF WorkerStep

\* A step that leaves a worker's job and table alone keeps them together.
LEMMA WorkerTableElse ==
    ASSUME WorkerTables, NEW u \in Threads,
           wtable'[u] = wtable[u], wchan'[u] = wchan[u], wpc'[u] = wpc[u]
    PROVE  WorkerTableAt(u)'
BY DEF WorkerTables, WorkerTableAt, T!Running

LEMMA WorkerTablesFrame ==
    ASSUME WorkerTables, \A u \in Threads : wpc'[u] = wpc[u] \/ (wpc[u] = "dead" /\ wpc'[u] = "idle"),
           UNCHANGED <<wtable, wchan>>
    PROVE  WorkerTables'
BY DEF WorkerTables, WorkerTableAt, T!Running

LEMMA WorkerTablesService ==
    ASSUME IInv, OneAtATime, WorkerTables,
           \/ \E id \in Rids : Ask(id)
           \/ \E r \in Req : Send(r) \/ Withdraw(r)
           \/ Address \/ Broadcast
           \/ \E t \in Threads : ThreadStep(t) \/ Panic(t)
    PROVE  WorkerTables'
<1> USE DEF IInv, TypeInv, TypeOK
<1>1. UNCHANGED <<wtable, wchan>>
  BY DEF Ask, Send, Withdraw, Address, Broadcast, ThreadStep, Take, Claim, StartCall,
         WriteTile, ReadReply, Replace, GiveUp, Release, Panic, page, service, worker
<1>2. \A u \in Threads : wpc'[u] = wpc[u] \/ (wpc[u] = "dead" /\ wpc'[u] = "idle")
  <2>1. CASE \E t \in Threads : Replace(t)
    BY <2>1 DEF Replace, Lost
  <2>2. CASE ~\E t \in Threads : Replace(t)
    <3>1. UNCHANGED wpc
      BY <2>2 DEF Ask, Send, Withdraw, Address, Broadcast, ThreadStep, Take, Claim, StartCall,
                  WriteTile, ReadReply, GiveUp, Release, Panic, page, service, worker
    <3> QED  BY SMTT(30), <3>1
  <2> QED  BY <2>1, <2>2
<1> QED  BY SMTT(30), <1>1, <1>2, WorkerTablesFrame

LEMMA WorkerTablesReadLine ==
    ASSUME IInv, OneAtATime, WorkerTables, NEW t \in Threads, ReadLine(t)
    PROVE  WorkerTables'
<1> USE DEF IInv, TypeInv, TypeOK
<1> DEFINE line == Head(pipe[t])
<1>1. /\ pipe[t] # <<>> /\ pipe[t] \in Seq(Line) /\ line \in Line /\ line.rid \in Rids
      /\ line = pipe[t][1] /\ 1 \in 1..Len(pipe[t])
  BY ReadLineMoves, LineRead DEF Line
<1>2. /\ \A u \in Threads \ {t} : wchan'[u] = wchan[u] /\ wtable'[u] = wtable[u]
      /\ UNCHANGED wpc
  BY DEF ReadLine
<1>3. \A u \in Threads \ {t} : WorkerTableAt(u)'
  BY <1>2, WorkerTableElse
<1>4. WorkerTableAt(t)
  BY DEF WorkerTables
<1>5. wtable[t] \in T!Table
  OBVIOUS
<1>6. CASE line.kind = "withdraw"
  <2>1. wtable'[t] = T!Withdraw(wtable[t], line.rid) /\ wchan'[t] = wchan[t]
    BY <1>6 DEF ReadLine
  <2>2. /\ wtable'[t].queued = wtable[t].queued /\ wtable'[t].inflight = wtable[t].inflight
        /\ wtable'[t].cancelled \subseteq wtable[t].cancelled \cup wtable[t].queued
    BY <1>5, <2>1 DEF T!Withdraw, T!Table
  <2>3. WorkerTableAt(t)'
    BY <1>2, <1>4, <2>1, <2>2 DEF WorkerTableAt, T!Running
  <2> QED  BY <1>3, <2>3 DEF WorkerTables
<1>7. CASE line.kind # "withdraw"
  <2>1. /\ wtable'[t] = T!Enqueue(wtable[t], line.rid)
        /\ wchan'[t] = Append(wchan[t], line.rid)
    BY <1>7 DEF ReadLine
  <2>2. wchan[t] = <<>>
    <3>1. 1 \in TileLines(t)
      BY <1>1, <1>7 DEF TileLines, Line
    <3> QED  BY <3>1 DEF OneAtATime
  <2>3. wchan'[t] # <<>> /\ wchan'[t][1] = line.rid
    BY <1>1, <2>1, <2>2
  <2>4. /\ wtable[t].queued = {} /\ wtable[t].cancelled = {} /\ wpc[t] # "rendering"
        /\ \A id \in Rids : wtable[t].inflight[id] = NoThread
    BY <1>4, <1>5, <2>2 DEF WorkerTableAt, T!Running, T!Table, RendersAJob
  <2>5. /\ wtable'[t].queued \subseteq {line.rid} \ {0} /\ wtable'[t].cancelled = {}
        /\ wtable'[t].inflight = wtable[t].inflight
    BY <1>5, <2>1, <2>4 DEF T!Enqueue, T!Table
  <2>6. WorkerTableAt(t)'
    BY <1>2, <2>3, <2>4, <2>5 DEF WorkerTableAt, T!Running
  <2> QED  BY <1>3, <2>6 DEF WorkerTables
<1> QED  BY <1>6, <1>7

\* The render thread's steps take the job they settle off the table.
LEMMA WorkerTablesRender ==
    ASSUME IInv, OneAtATime, WorkerTables, NEW t \in Threads,
           WClaim(t) \/ WFinish(t) \/ Crash(t)
    PROVE  WorkerTables'
<1> USE DEF IInv, TypeInv, TypeOK
<1>1. \A u \in Threads \ {t} : wchan'[u] = wchan[u] /\ wtable'[u] = wtable[u] /\ wpc'[u] = wpc[u]
  <2>1. CASE WClaim(t)
    BY <2>1 DEF WClaim
  <2>2. CASE WFinish(t)
    BY <2>2 DEF WFinish
  <2>3. CASE Crash(t)
    BY <2>3 DEF Crash
  <2> QED  BY <2>1, <2>2, <2>3
<1>2. \A u \in Threads \ {t} : WorkerTableAt(u)'
  BY <1>1, WorkerTableElse
<1>3. WorkerTableAt(t) /\ wtable[t] \in T!Table /\ wchan[t] \in Seq(Rids) /\ Len(wchan[t]) <= 1
  BY DEF WorkerTables, OneAtATime
<1>4. wchan[t] # <<>> => Head(wchan[t]) = wchan[t][1] /\ wchan[t][1] \in Rids /\ Tail(wchan[t]) = <<>>
  BY <1>3
<1>5. ASSUME WClaim(t)  PROVE WorkerTableAt(t)'
  <2> DEFINE id == wchan[t][1]
  <2>1. wpc[t] = "idle" /\ wchan[t] # <<>> /\ wtable'[t] = T!Claim(wtable[t], id, t)
    BY <1>4, <1>5 DEF WClaim
  <2>2. \A i \in Rids : wtable[t].inflight[i] = NoThread
    BY <1>3, <2>1 DEF WorkerTableAt, T!Running
  <2>3. wtable'[t].queued = {} /\ wtable'[t].cancelled = {}
    BY <1>3, <2>1 DEF WorkerTableAt, T!Claim, T!Forget, T!Table
  <2>4. CASE T!ClaimWithdrawn(wtable[t], id)
    <3>1. \A i \in Rids : wtable'[t].inflight[i] = NoThread
      BY <1>3, <2>1, <2>2, <2>4 DEF T!Claim, T!Forget, T!Table
    <3> QED  BY <2>3, <3>1 DEF WorkerTableAt, T!Running
  <2>5. CASE ~T!ClaimWithdrawn(wtable[t], id)
    <3>1. wpc'[t] = "rendering" /\ wchan' = wchan
      BY <1>4, <1>5, <2>5 DEF WClaim
    <3>2. \A i \in Rids : i # id => wtable'[t].inflight[i] = NoThread
      BY <1>3, <2>1, <2>2 DEF T!Claim, T!Forget, T!Table
    <3>3. id = 0 => wtable'[t].inflight = wtable[t].inflight
      BY <1>3, <2>1 DEF T!Claim, T!Forget, T!Table
    <3> QED  BY <2>2, <2>3, <3>1, <3>2, <3>3 DEF WorkerTableAt, T!Running
  <2> QED  BY <2>4, <2>5
<1>6. ASSUME WFinish(t)  PROVE WorkerTableAt(t)'
  <2> DEFINE id == wchan[t][1]
  <2>1. wchan[t] # <<>> /\ wtable'[t] = T!Release(wtable[t], id)
    BY <1>4, <1>6 DEF WFinish, RendersAJob
  <2>2. wchan'[t] = <<>>
    BY <1>4, <1>6, <2>1 DEF WFinish
  <2>3. \A i \in Rids : wtable'[t].inflight[i] = NoThread
    BY <1>3, <1>4, <2>1 DEF WorkerTableAt, T!Running, T!Release, T!Table
  <2>4. wtable'[t].queued = {} /\ wtable'[t].cancelled = {}
    <3>1. wpc[t] = "rendering"
      BY <1>6 DEF WFinish
    <3>2. wtable[t].queued = {} /\ wtable[t].cancelled = {}
      BY <1>3, <3>1 DEF WorkerTableAt
    <3> QED  BY <1>3, <2>1, <3>2 DEF T!Release, T!Table
  <2> QED  BY <2>2, <2>3, <2>4 DEF WorkerTableAt, T!Running
<1>7. ASSUME Crash(t)  PROVE WorkerTableAt(t)'
  BY <1>7 DEF Crash, WorkerTableAt, T!EmptyTable, T!Running
<1> QED  BY <1>2, <1>5, <1>6, <1>7 DEF WorkerTables

\* What is withdrawn stays so.
LEMMA RecalledStays ==
    ASSUME IInv,
           \/ UNCHANGED <<rid, withdrawn>>
           \/ \E id \in Rids : Ask(id)
           \/ \E r \in Req : Withdraw(r)
    PROVE  \A id : Recalled(id) => Recalled(id)'
<1> USE DEF IInv, TypeInv, TypeOK, Recalled
<1>1. CASE UNCHANGED <<rid, withdrawn>>
  BY <1>1
<1>2. CASE \E id \in Rids : Ask(id)
  <2>1. withdrawn' = withdrawn /\ \A r \in withdrawn : rid'[r] = rid[r]
    BY <1>2 DEF Ask, Core, Ids, Req
  <2> QED  BY <2>1
<1>3. CASE \E r \in Req : Withdraw(r)
  <2>1. withdrawn \subseteq withdrawn' /\ rid' = rid
    BY <1>3 DEF Withdraw
  <2> QED  BY <2>1
<1> QED  BY <1>1, <1>2, <1>3

\* What a withdrawal does besides marking the table: fires the token of the
\* one thread that runs the request.
LEMMA WithdrawMoves ==
    ASSUME IInv, TableRecalled, NEW r \in Req, Withdraw(r)
    PROVE  /\ rid[r] # 0 => Recalled(rid[r])'
           /\ cancel'.rid = rid[r]
           /\ table'.inflight = table.inflight
           /\ table'.cancelled \subseteq table.cancelled \cup ({rid[r]} \ {0})
           /\ \A t \in Threads : token'[t] => token[t] \/ (rid[job[t]] = rid[r] /\ rid[r] # 0)
           /\ UNCHANGED <<rid, job, pc, worker>>
<1> USE DEF IInv, TypeInv, TypeOK
<1>1. rid[r] # 0 => Recalled(rid[r])'
  BY DEF Withdraw, Recalled
<1>2. cancel'.rid = rid[r]
  BY DEF Withdraw, NoCancel
<1>3. /\ table'.inflight = table.inflight
      /\ table'.cancelled \subseteq table.cancelled \cup (table.queued \cap {rid[r]})
  BY DEF Withdraw, T!Withdraw, T!Table
<1>4. 0 \notin table.queued
  <2>1. 0 \in Rids
    BY BoundAssumption DEF Rids
  <2> QED  BY <2>1 DEF Core, Book, QueuedIsUnclaimed
<1>5. ASSUME NEW t \in Threads, token'[t], ~token[t]
      PROVE  rid[job[t]] = rid[r] /\ rid[r] # 0
  <2>1. table.inflight[rid[r]] = t
    BY <1>5, ThreadAssumption DEF Withdraw, T!Fired, T!Running
  <2> QED  BY ZenonT(30), <2>1, ThreadAssumption DEF TableRecalled, Core, Book, InflightIsClaimed
<1>6. UNCHANGED <<rid, job, pc, worker>>
  BY DEF Withdraw
<1> QED  BY <1>1, <1>2, <1>3, <1>4, <1>5, <1>6

\* Of the page's steps only a withdrawal adds to what is taken for withdrawn.
LEMMA TableRecalledPage ==
    ASSUME IInv, TableRecalled,
           \/ \E id \in Rids : Ask(id)
           \/ \E r \in Req : Send(r) \/ Withdraw(r)
           \/ Address \/ Broadcast
    PROVE  TableRecalled'
<1> USE DEF IInv, TypeInv, TypeOK
<1>1. ASSUME NEW id \in Rids, Ask(id)  PROVE TableRecalled'
  <2>1. /\ table'.cancelled = table.cancelled /\ table'.inflight = table.inflight
        /\ UNCHANGED cancel
    BY <1>1 DEF Ask, T!Enqueue, T!Table
  <2> QED  BY <1>1, <2>1, RecalledStays DEF TableRecalled
<1>2. ASSUME NEW r \in Req, Send(r)  PROVE TableRecalled'
  <2>1. /\ table' \in {table, T!Forget(table, rid[r])}
        /\ UNCHANGED <<cancel, rid, withdrawn>>
    BY <1>2 DEF Send
  <2>2. table'.cancelled \subseteq table.cancelled /\ table'.inflight = table.inflight
    <3>1. T!Forget(table, rid[r]).cancelled \subseteq table.cancelled
      BY DEF T!Forget, T!Table
    <3>2. T!Forget(table, rid[r]).inflight = table.inflight
      BY DEF T!Forget, T!Table
    <3> QED  BY <2>1, <3>1, <3>2
  <2> QED  BY <2>1, <2>2 DEF TableRecalled, Recalled
<1>3. ASSUME NEW r \in Req, Withdraw(r)  PROVE TableRecalled'
  <2>1. \A id : Recalled(id) => Recalled(id)'
    BY <1>3, RecalledStays
  <2> QED  BY <1>3, <2>1, WithdrawMoves DEF TableRecalled
<1>4. ASSUME Address  PROVE TableRecalled'
  <2>1. cancel.pc # "idle" /\ cancel'.rid = cancel.rid
    BY ZenonT(30), <1>4 DEF Address
  <2> QED  BY <1>4, <2>1 DEF Address, page, service, TableRecalled, Recalled
<1>5. ASSUME Broadcast  PROVE TableRecalled'
  <2>1. cancel'.pc = "idle"
    BY <1>5 DEF Broadcast, NoCancel
  <2> QED  BY <1>5, <2>1 DEF Broadcast, page, service, TableRecalled, Recalled
<1> QED  BY <1>1, <1>2, <1>3, <1>4, <1>5

LEMMA PipeRecalledPage ==
    ASSUME IInv, TableRecalled, PipeRecalled,
           \/ \E id \in Rids : Ask(id)
           \/ \E r \in Req : Send(r) \/ Withdraw(r)
           \/ Address \/ Broadcast
    PROVE  PipeRecalled'
<1>1. CASE ~Broadcast
  <2>1. UNCHANGED pipe
    BY <1>1 DEF Ask, Send, Withdraw, Address, worker
  <2>2. \A id : Recalled(id) => Recalled(id)'
    BY <1>1, RecalledStays DEF Send, Address, page
  <2> QED  BY <2>1, <2>2 DEF PipeRecalled
<1>2. CASE Broadcast
  <2>1. cancel.rid # 0 => Recalled(cancel.rid)
    BY <1>2 DEF Broadcast, TableRecalled
  <2>2. \A id : Recalled(id)' <=> Recalled(id)
    BY <1>2 DEF Broadcast, page, Recalled
  <2>3. ASSUME NEW u \in Threads, NEW i \in 1..Len(pipe'[u]),
               pipe'[u][i].kind = "withdraw", pipe'[u][i].rid # 0
        PROVE  Recalled(pipe'[u][i].rid)
    <3>1. CASE i \in 1..Len(pipe[u]) /\ pipe'[u][i] = pipe[u][i]
      BY <2>3, <3>1 DEF PipeRecalled
    <3>2. CASE pipe'[u][i] = [kind |-> "withdraw", rid |-> cancel.rid]
      BY <2>1, <2>3, <3>2
    <3> QED  BY <1>2, <3>1, <3>2, LinesAdded
  <2> QED  BY <2>2, <2>3 DEF PipeRecalled
<1> QED  BY <1>1, <1>2

LEMMA WorkerRecalledPage ==
    ASSUME IInv, WorkerRecalled,
           \/ \E id \in Rids : Ask(id)
           \/ \E r \in Req : Send(r) \/ Withdraw(r)
           \/ Address \/ Broadcast
    PROVE  WorkerRecalled'
<1>1. UNCHANGED <<wtable, wtoken, wpc, wchan>>
  BY DEF Ask, Send, Withdraw, Address, Broadcast, worker
<1>2. \A id : Recalled(id) => Recalled(id)'
  BY RecalledStays DEF Send, Address, Broadcast, page
<1> QED  BY SMTT(30), <1>1, <1>2 DEF WorkerRecalled

LEMMA ThreadRecalledPage ==
    ASSUME IInv, OneAtATime, TableRecalled, ThreadRecalled,
           \/ \E id \in Rids : Ask(id)
           \/ \E r \in Req : Send(r) \/ Withdraw(r)
           \/ Address \/ Broadcast
    PROVE  ThreadRecalled'
<1> USE DEF IInv, TypeInv, TypeOK
<1>1. \A id : Recalled(id) => Recalled(id)'
  BY RecalledStays DEF Send, Address, Broadcast, page
<1>2. UNCHANGED <<pc, job, wreply>>
  BY DEF Ask, Send, Withdraw, Address, Broadcast, service, worker
<1>3. \A t \in Threads : pc[t] # "idle" => rid'[job[t]] = rid[job[t]]
  <2>1. ASSUME NEW id \in Rids, Ask(id), NEW t \in Threads, pc[t] # "idle"
        PROVE  rid'[job[t]] = rid[job[t]]
    BY SMTT(30), <2>1 DEF Ask, Core, Jobs, Ids, Req
  <2>2. CASE ~\E id \in Rids : Ask(id)
    BY <2>2 DEF Send, Withdraw, Address, Broadcast, page
  <2> QED  BY <2>1, <2>2
<1>4. \A t \in Threads : wreply[t] = "abandoned" => pc[t] # "idle"
  BY DEF OneAtATime
<1>5. ASSUME NEW t \in Threads, token'[t], AtWork(t)  PROVE Recalled(rid[job[t]])'
  <2>1. pc[t] # "idle"
    BY <1>5 DEF AtWork
  <2>2. CASE token[t]
    BY <1>1, <1>2, <1>3, <1>5, <2>1, <2>2 DEF ThreadRecalled
  <2>3. CASE ~token[t]
    <3>1. PICK r \in Req : Withdraw(r)
      BY <1>5, <2>3 DEF Ask, Send, Address, Broadcast, service
    <3>2. rid[job[t]] = rid[r] /\ rid[r] # 0 /\ Recalled(rid[r])' /\ UNCHANGED <<rid, job>>
      BY <1>5, <2>3, <3>1, WithdrawMoves
    <3> QED  BY <3>2
  <2> QED  BY <2>2, <2>3
<1>6. ASSUME NEW t \in Threads, wreply'[t] = "abandoned"  PROVE Recalled(rid[job[t]])'
  BY <1>1, <1>2, <1>3, <1>4, <1>6 DEF ThreadRecalled
<1> QED  BY <1>2, <1>5, <1>6 DEF ThreadRecalled, AtWork

\* A thread only takes ids off the table.
LEMMA TableRecalledThread ==
    ASSUME IInv, TableRecalled, NEW t \in Threads,
           ThreadStep(t) \/ Panic(t)
    PROVE  TableRecalled'
<1> USE DEF IInv, TypeInv, TypeOK, RendersAJob, page, service, worker, Step, Core,
           Jobs, T!Table, T!Running, T!Claim, T!Forget,
 T!Release, Recalled, TableRecalled
<1>1. CASE Take(t)
  BY <1>1 DEF Take
<1>2. CASE Claim(t)
  BY <1>2 DEF Claim, Reply
<1>3. CASE StartCall(t)
  BY <1>3 DEF StartCall
<1>4. CASE WriteTile(t)
  BY <1>4 DEF WriteTile
<1>5. CASE ReadReply(t)
  BY <1>5 DEF ReadReply, Judge
<1>6. CASE Replace(t)
  BY <1>6 DEF Replace, Lost
<1>7. CASE GiveUp(t)
  BY <1>7 DEF GiveUp, Lost, Judge
<1>8. CASE Release(t)
  BY <1>8 DEF Release, Reply
<1>9. CASE Panic(t)
  BY <1>9 DEF Panic
<1> QED  BY <1>1, <1>2, <1>3, <1>4, <1>5, <1>6, <1>7, <1>8, <1>9 DEF ThreadStep

LEMMA PipeRecalledThread ==
    ASSUME IInv, PipeRecalled, NEW t \in Threads,
           ThreadStep(t) \/ Panic(t)
    PROVE  PipeRecalled'
<1> USE DEF IInv, TypeInv, TypeOK, RendersAJob, page, service, worker, Step, Core,
           Jobs, Line, Lost, Recalled, PipeRecalled
<1>1. CASE Take(t)
  BY <1>1 DEF Take
<1>2. CASE Claim(t)
  BY <1>2 DEF Claim, Reply
<1>3. CASE StartCall(t)
  BY <1>3 DEF StartCall
<1>4. CASE WriteTile(t)
  BY SMTT(30), <1>4 DEF WriteTile
<1>5. CASE ReadReply(t)
  BY SMTT(30), <1>5 DEF ReadReply, Judge
<1>6. CASE Replace(t)
  BY <1>6 DEF Replace, Lost
<1>7. CASE GiveUp(t)
  BY <1>7 DEF GiveUp, Lost, Judge
<1>8. CASE Release(t)
  BY <1>8 DEF Release, Reply
<1>9. CASE Panic(t)
  BY <1>9 DEF Panic
<1> QED  BY <1>1, <1>2, <1>3, <1>4, <1>5, <1>6, <1>7, <1>8, <1>9 DEF ThreadStep

LEMMA PipeRecalledWorker ==
    ASSUME IInv, PipeRecalled, NEW t \in Threads,
           WorkerStep(t) \/ Crash(t)
    PROVE  PipeRecalled'
<1> USE DEF IInv, TypeInv, TypeOK, RendersAJob, page, service, worker, Step,
           Recalled, PipeRecalled
<1>1. CASE ReadLine(t)
  BY <1>1 DEF ReadLine
<1>2. CASE WClaim(t)
  BY <1>2 DEF WClaim
<1>3. CASE WFinish(t)
  BY SMTT(30), <1>3 DEF WFinish
<1>4. CASE Crash(t)
  BY <1>4 DEF Crash
<1> QED  BY <1>1, <1>2, <1>3, <1>4 DEF WorkerStep

LEMMA WorkerRecalledThread ==
    ASSUME IInv, WorkerRecalled, NEW t \in Threads,
           ThreadStep(t) \/ Panic(t)
    PROVE  WorkerRecalled'
<1> USE DEF IInv, TypeInv, TypeOK, RendersAJob, page, service, worker, Step, Lost,
           Recalled, WorkerRecalled
<1>1. CASE Take(t)
  BY <1>1 DEF Take
<1>2. CASE Claim(t)
  BY <1>2 DEF Claim, Reply
<1>3. CASE StartCall(t)
  BY <1>3 DEF StartCall
<1>4. CASE WriteTile(t)
  BY <1>4 DEF WriteTile
<1>5. CASE ReadReply(t)
  BY <1>5 DEF ReadReply, Judge
<1>6. CASE Replace(t)
  BY <1>6 DEF Replace, Lost
<1>7. CASE GiveUp(t)
  BY <1>7 DEF GiveUp, Lost, Judge
<1>8. CASE Release(t)
  BY <1>8 DEF Release, Reply
<1>9. CASE Panic(t)
  BY <1>9 DEF Panic
<1> QED  BY <1>1, <1>2, <1>3, <1>4, <1>5, <1>6, <1>7, <1>8, <1>9 DEF ThreadStep

\* A claim starts with a token that is not set.
LEMMA ThreadRecalledThread ==
    ASSUME IInv, OneAtATime, ThreadRecalled, NEW t \in Threads,
           ThreadStep(t) \/ Panic(t)
    PROVE  ThreadRecalled'
<1> USE DEF IInv, TypeInv, TypeOK, RendersAJob, page, service, worker, Step,
           OneAtATime, Core, Jobs, Lost,
 Recalled, AtWork, ThreadRecalled
<1>1. CASE Take(t)
  BY SMTT(30), <1>1 DEF Take
<1>2. CASE Claim(t)
  BY <1>2 DEF Claim, Reply
<1>3. CASE StartCall(t)
  BY <1>3 DEF StartCall
<1>4. CASE WriteTile(t)
  BY <1>4 DEF WriteTile
<1>5. CASE ReadReply(t)
  BY <1>5 DEF ReadReply, Judge
<1>6. CASE Replace(t)
  BY <1>6 DEF Replace, Lost
<1>7. CASE GiveUp(t)
  BY <1>7 DEF GiveUp, Lost, Judge
<1>8. CASE Release(t)
  BY <1>8 DEF Release, Reply
<1>9. CASE Panic(t)
  BY <1>9 DEF Panic
<1> QED  BY <1>1, <1>2, <1>3, <1>4, <1>5, <1>6, <1>7, <1>8, <1>9 DEF ThreadStep

\* A worker's token is set only by a line that withdraws what it renders.
LEMMA WorkerRecalledWorker ==
    ASSUME IInv, OneAtATime, WorkerTables, PipeRecalled, WorkerRecalled,
           NEW t \in Threads, WorkerStep(t) \/ Crash(t)
    PROVE  WorkerRecalled'
<1> USE DEF IInv, TypeInv, TypeOK
<1>1. \A id : Recalled(id)' <=> Recalled(id)
  BY DEF WorkerStep, ReadLine, WClaim, WFinish, Crash, page, Recalled
<1>2. \A u \in Threads \ {t} : /\ wtable'[u] = wtable[u] /\ wtoken'[u] = wtoken[u]
                               /\ wpc'[u] = wpc[u] /\ wchan'[u] = wchan[u]
  <2>1. CASE ReadLine(t)
    BY <2>1 DEF ReadLine
  <2>2. CASE WClaim(t)
    BY <2>2 DEF WClaim
  <2>3. CASE WFinish(t)
    BY <2>3 DEF WFinish
  <2>4. CASE Crash(t)
    BY <2>4 DEF Crash
  <2> QED  BY <2>1, <2>2, <2>3, <2>4 DEF WorkerStep
<1>3. SUFFICES /\ \A id \in wtable'[t].cancelled : Recalled(id)
               /\ wtoken'[t] /\ wpc'[t] = "rendering" => Recalled(wchan'[t][1])
  BY <1>1, <1>2 DEF WorkerRecalled
<1>4. /\ wtable[t] \in T!Table /\ WorkerTableAt(t)
      /\ \A id \in wtable[t].cancelled : Recalled(id)
      /\ wtoken[t] /\ wpc[t] = "rendering" => Recalled(wchan[t][1])
  BY DEF WorkerTables, WorkerRecalled
<1>5. CASE ReadLine(t)
  <2> DEFINE line == Head(pipe[t])
  <2>1. /\ pipe[t] # <<>> /\ pipe[t] \in Seq(Line) /\ line \in Line /\ line.rid \in Rids
        /\ line = pipe[t][1] /\ 1 \in 1..Len(pipe[t]) /\ UNCHANGED wpc
    BY <1>5, ReadLineMoves, LineRead DEF Line
  <2>2. CASE line.kind = "withdraw"
    <3>1. line.rid # 0 => Recalled(line.rid)
      BY <2>1, <2>2 DEF PipeRecalled
    <3>2. /\ wtable'[t] = T!Withdraw(wtable[t], line.rid) /\ wchan'[t] = wchan[t]
          /\ wtoken'[t] => wtoken[t] \/ T!Running(wtable[t], line.rid)
      BY <1>5, <2>2 DEF ReadLine
    <3>3. wtable'[t].cancelled \subseteq wtable[t].cancelled \cup (wtable[t].queued \cap {line.rid})
      BY <1>4, <3>2 DEF T!Withdraw, T!Table
    <3>4. \A id \in wtable'[t].cancelled : Recalled(id)
      BY ZenonT(30), <1>4, <3>1, <3>3 DEF WorkerTableAt
    <3>5. T!Running(wtable[t], line.rid) => line.rid = wchan[t][1] /\ line.rid # 0
      BY <1>4, <2>1 DEF WorkerTableAt
    <3> QED  BY <1>4, <2>1, <3>1, <3>2, <3>4, <3>5
  <2>3. CASE line.kind # "withdraw"
    <3>1. wtable'[t] = T!Enqueue(wtable[t], line.rid)
      BY <1>5, <2>3 DEF ReadLine
    <3>2. wtable'[t].cancelled = wtable[t].cancelled
      BY <1>4, <3>1 DEF T!Enqueue, T!Table
    <3>3. 1 \in TileLines(t)
      BY <2>1, <2>3 DEF TileLines, Line
    <3>4. wpc'[t] # "rendering"
      BY <2>1, <3>3 DEF OneAtATime, RendersAJob
    <3> QED  BY <1>4, <3>2, <3>4
  <2> QED  BY <2>2, <2>3
<1>6. CASE WClaim(t)
  <2>1. /\ wtable'[t] = T!Claim(wtable[t], Head(wchan[t]), t)
        /\ wtoken'[t] = FALSE \/ wpc'[t] = "idle"
    BY <1>6 DEF WClaim
  <2>2. wtable'[t].cancelled \subseteq wtable[t].cancelled
    BY <1>4, <2>1 DEF T!Claim, T!Forget, T!Table
  <2> QED  BY <1>4, <2>1, <2>2
<1>7. CASE WFinish(t)
  <2>1. wtable'[t] = T!Release(wtable[t], Head(wchan[t])) /\ wpc'[t] = "idle"
    BY <1>7 DEF WFinish
  <2>2. wtable'[t].cancelled = wtable[t].cancelled
    BY <1>4, <2>1 DEF T!Release, T!Table
  <2> QED  BY <1>4, <2>1, <2>2
<1>8. CASE Crash(t)
  BY <1>8 DEF Crash, T!EmptyTable
<1> QED  BY <1>5, <1>6, <1>7, <1>8 DEF WorkerStep

\* And it answers that a tile is abandoned only when the tile was withdrawn.
LEMMA ThreadRecalledWorker ==
    ASSUME IInv, OneAtATime, SameRequest, WorkerTables, WorkerRecalled, ThreadRecalled,
           NEW t \in Threads, WorkerStep(t) \/ Crash(t)
    PROVE  ThreadRecalled'
<1> USE DEF IInv, TypeInv, TypeOK
<1>1. UNCHANGED <<rid, withdrawn, job, pc, token>>
  BY DEF WorkerStep, ReadLine, WClaim, WFinish, Crash, page, service
<1>2. ASSUME NEW u \in Threads, wreply'[u] = "abandoned"  PROVE Recalled(rid[job[u]])
  <2>1. CASE wreply[u] = "abandoned"
    BY <2>1 DEF ThreadRecalled
  <2>2. CASE wreply[u] # "abandoned"
    <3>1. u = t /\ (WClaim(t) \/ WFinish(t))
      <4>1. ~(ReadLine(t) \/ Crash(t))
        BY <1>2, <2>2 DEF ReadLine, Crash
      <4>2. WClaim(t) \/ WFinish(t)
        BY <4>1 DEF WorkerStep
      <4>3. PICK to : wreply' = [wreply EXCEPT ![t] = to] \/ wreply' = wreply
        BY <4>2 DEF WClaim, WFinish
      <4> QED  BY <1>2, <2>2, <4>2, <4>3
    <3>2. wchan[t] # <<>>
      BY <3>1 DEF WClaim, WFinish, RendersAJob
    <3>3. Head(wchan[t]) = wchan[t][1] /\ wchan[t][1] = rid[job[t]]
      BY <3>2 DEF SameRequest, SameRequestAt
    <3>4. Recalled(wchan[t][1])
      <4>1. CASE WClaim(t)
        <5>1. T!ClaimWithdrawn(wtable[t], Head(wchan[t]))
          BY <1>2, <2>2, <3>1, <4>1 DEF WClaim
        <5> QED  BY <3>3, <5>1 DEF T!ClaimWithdrawn, WorkerRecalled
      <4>2. CASE WFinish(t)
        BY <1>2, <3>1, <4>2 DEF WFinish, WorkerRecalled
      <4> QED  BY <3>1, <4>1, <4>2
    <3> QED  BY <3>1, <3>3, <3>4
  <2> QED  BY <2>1, <2>2
<1>3. \A id : Recalled(id)' <=> Recalled(id)
  BY <1>1 DEF Recalled
<1> QED  BY <1>1, <1>2, <1>3 DEF ThreadRecalled, AtWork

-----------------------------------------------------------------------------
\* All of it together is inductive.
LEMMA WorkerStart == Init => WorkerInv
<1> SUFFICES ASSUME Init  PROVE WorkerInv
  OBVIOUS
<1>1. IInv
  BY TypesStart, CoreStart DEF IInv
<1>2. \A t \in Threads : TileLines(t) = {}
  BY DEF Init, TileLines
<1>3. OneAtATime /\ SameRequest /\ WorkerTables
  BY <1>2 DEF Init, OneAtATime, SameRequest, SameRequestAt, WorkerTables, WorkerTableAt,
              T!EmptyTable, T!Running
<1>4. OnlyRecalled
  BY BoundAssumption DEF Init, OnlyRecalled, TableRecalled, PipeRecalled, WorkerRecalled,
                         ThreadRecalled, T!EmptyTable, NoCancel, Rids
<1> QED  BY <1>1, <1>3, <1>4 DEF WorkerInv

LEMMA WorkerKeeps ==
    ASSUME MaxReloads = 0, WorkerInv, [Next]_vars
    PROVE  WorkerInv'
<1> USE DEF WorkerInv, OnlyRecalled
<1>1. IInv'
  BY StepKeeps
<1>2. ASSUME \/ \E id \in Rids : Ask(id)
             \/ \E r \in Req : Send(r) \/ Withdraw(r)
             \/ Address \/ Broadcast
      PROVE  WorkerInv'
  <2>1. OneAtATime' /\ SameRequest' /\ WorkerTables'
    BY <1>2, OneAtATimePage, SameRequestPage, WorkerTablesService
  <2>2. OnlyRecalled'
    BY <1>2, TableRecalledPage, PipeRecalledPage, WorkerRecalledPage, ThreadRecalledPage
  <2> QED  BY <1>1, <2>1, <2>2
<1>3. ASSUME NEW t \in Threads, ThreadStep(t) \/ Panic(t)  PROVE WorkerInv'
  <2>1. OneAtATime' /\ SameRequest' /\ WorkerTables'
    BY <1>3, OneAtATimeThread, SameRequestThread, WorkerTablesService
  <2>2. OnlyRecalled'
    BY <1>3, TableRecalledThread, PipeRecalledThread, WorkerRecalledThread,
       ThreadRecalledThread
  <2> QED  BY <1>1, <2>1, <2>2
<1>4. ASSUME NEW t \in Threads, WorkerStep(t) \/ Crash(t)  PROVE WorkerInv'
  <2>1. OneAtATime' /\ SameRequest'
    BY <1>4, OneAtATimeWorker, SameRequestWorker
  <2>2. WorkerTables'
    BY <1>4, WorkerTablesReadLine, WorkerTablesRender DEF WorkerStep
  <2>3. TableRecalled'
    <3>1. UNCHANGED <<table, cancel, rid, withdrawn>>
      BY <1>4 DEF WorkerStep, ReadLine, WClaim, WFinish, Crash, page, service
    <3> QED  BY <3>1 DEF TableRecalled, Recalled
  <2>4. PipeRecalled' /\ WorkerRecalled' /\ ThreadRecalled'
    BY <1>4, PipeRecalledWorker, WorkerRecalledWorker, ThreadRecalledWorker
  <2> QED  BY <1>1, <2>1, <2>2, <2>3, <2>4
<1>5. CASE Reload
  BY <1>5 DEF Reload, IInv, TypeInv, TypeOK
<1>6. CASE UNCHANGED vars
  <2>1. UNCHANGED <<pc, job, token, rid, withdrawn, table, cancel>>
        /\ UNCHANGED <<pipe, wtable, wchan, wpc, wtoken, wreply>>
    BY <1>6 DEF vars, page, service, worker
  <2>2. \A t \in Threads : TileLines(t)' = TileLines(t)
    BY <2>1 DEF TileLines
  <2>3. OneAtATime' /\ SameRequest' /\ WorkerTables'
    BY <2>1, <2>2 DEF OneAtATime, SameRequest, SameRequestAt, WorkerTables, WorkerTableAt,
                      T!Running
  <2>4. OnlyRecalled'
    BY <2>1 DEF TableRecalled, PipeRecalled, WorkerRecalled, ThreadRecalled, Recalled, AtWork
  <2> QED  BY <1>1, <2>3, <2>4
<1> QED  BY <1>2, <1>3, <1>4, <1>5, <1>6 DEF Next

\* The invariant.
LEMMA WorkersAreSound ==
    ASSUME MaxReloads = 0
    PROVE  Spec => []WorkerInv
<1>1. Init => WorkerInv
  BY WorkerStart
<1>2. WorkerInv /\ [Next]_vars => WorkerInv'
  BY WorkerKeeps
<1> QED  BY <1>1, <1>2, PTL DEF Spec

\* What the invariant says of each worker is what the runs check of it.
LEMMA WorkersMatch ==
    ASSUME WorkerInv
    PROVE  WorkerTableMatchesWork
<1> USE DEF WorkerInv, IInv, TypeInv, TypeOK
<1> SUFFICES ASSUME NEW t \in Threads
             PROVE  /\ wtable[t].cancelled \subseteq wtable[t].queued
                    /\ \A id \in Rids : T!Running(wtable[t], id) =>
                          wpc[t] = "rendering" /\ id = Head(wchan[t])
                    /\ wtable[t].queued \subseteq {wchan[t][i] : i \in 1..Len(wchan[t])}
                    /\ Cardinality(TileLines(t)) + Len(wchan[t])
                         + (IF wreply[t] = "none" THEN 0 ELSE 1)
                         <= IF pc[t] = "waiting" THEN 1 ELSE 0
  BY DEF WorkerTableMatchesWork
<1>1. wchan[t] \in Seq(Rids) /\ WorkerTableAt(t)
  BY DEF WorkerTables
<1>2. wchan[t] # <<>> => Head(wchan[t]) = wchan[t][1] /\ 1 \in 1..Len(wchan[t])
  BY <1>1
<1>3. ASSUME NEW id \in Rids, T!Running(wtable[t], id)
      PROVE  wpc[t] = "rendering" /\ id = Head(wchan[t])
  BY <1>1, <1>2, <1>3 DEF WorkerTableAt, RendersAJob
<1>4. wtable[t].queued \subseteq {wchan[t][i] : i \in 1..Len(wchan[t])}
  BY <1>1, <1>2 DEF WorkerTableAt
<1>5. Cardinality(TileLines(t)) + Len(wchan[t]) + (IF wreply[t] = "none" THEN 0 ELSE 1)
         <= IF pc[t] = "waiting" THEN 1 ELSE 0
  <2>1. Len(wchan[t]) \in Nat /\ (wchan[t] = <<>> => Len(wchan[t]) = 0)
    BY <1>1
  <2>2. CASE TileLines(t) = {}
    <3>1. Cardinality(TileLines(t)) = 0
      BY <2>2, FS_EmptySet
    <3> QED  BY <2>1, <3>1 DEF OneAtATime
  <2>3. CASE TileLines(t) # {}
    <3>1. PICK i \in TileLines(t) : TRUE
      BY <2>3
    <3>2. TileLines(t) = {i}
      BY <3>1 DEF OneAtATime
    <3>3. Cardinality(TileLines(t)) = 1
      BY <3>2, FS_Singleton
    <3> QED  BY <2>1, <2>3, <3>3 DEF OneAtATime
  <2> QED  BY <2>2, <2>3
<1> QED  BY <1>1, <1>3, <1>4, <1>5 DEF WorkerTableAt

\* Each worker's own table is about the one request its thread waits for, and
\* a reply is always the reply to that request (worker_child.rs).
THEOREM WorkersAgreeWithTheirThreads ==
    ASSUME MaxReloads = 0
    PROVE  Spec => []WorkerTableMatchesWork
<1> QED  BY WorkersMatch, WorkersAreSound, PTL

-----------------------------------------------------------------------------
\* The refinement.

\* What a request's phase is, by where the request is.
Phases ==
    \A r \in Req :
        /\ stage[r] = "unasked" => PhaseOf(r) = "unasked"
        /\ stage[r] = "answered" => PhaseOf(r) = answer[r]
        /\ Unclaimed(r) => PhaseOf(r) = "queued"
        /\ \A t \in Threads : job[t] = r =>
              /\ pc[t] = "judged" => PhaseOf(r) = verdict[t]
              /\ Claimed(t) /\ pc[t] # "judged" => PhaseOf(r) = "running"
        /\ \/ stage[r] \in {"unasked", "answered"} \/ Unclaimed(r)
           \/ \E t \in Threads : job[t] = r /\ Claimed(t)

LEMMA PhasesAre == IInv => Phases
<1> SUFFICES ASSUME IInv, NEW r \in Req
             PROVE  /\ stage[r] = "unasked" => PhaseOf(r) = "unasked"
                    /\ stage[r] = "answered" => PhaseOf(r) = answer[r]
                    /\ Unclaimed(r) => PhaseOf(r) = "queued"
                    /\ \A t \in Threads : job[t] = r =>
                          /\ pc[t] = "judged" => PhaseOf(r) = verdict[t]
                          /\ Claimed(t) /\ pc[t] # "judged" => PhaseOf(r) = "running"
                    /\ \/ stage[r] \in {"unasked", "answered"} \/ Unclaimed(r)
                       \/ \E t \in Threads : job[t] = r /\ Claimed(t)
  BY DEF Phases
<1> USE DEF IInv, TypeInv, TypeOK
<1>1. (\E t \in Threads : job[t] = r /\ pc[t] = "judged") => stage[r] = "taken" /\ ~Unclaimed(r)
  BY DEF Claimed, Unclaimed, Core, Jobs
<1>2. stage[r] = "unasked" => PhaseOf(r) = "unasked"
  BY <1>1 DEF PhaseOf, Unclaimed, Outstanding
<1>3. stage[r] = "answered" => PhaseOf(r) = answer[r]
  BY <1>1 DEF PhaseOf, Unclaimed, Outstanding
<1>4. Unclaimed(r) => PhaseOf(r) = "queued"
  BY <1>1 DEF PhaseOf, Unclaimed, Outstanding
<1>5. ASSUME NEW t \in Threads, job[t] = r, Claimed(t)
      PROVE  /\ pc[t] = "judged" => PhaseOf(r) = verdict[t]
             /\ pc[t] # "judged" => PhaseOf(r) = "running"
  <2>1. stage[r] = "taken" /\ ~Unclaimed(r)
    BY <1>5 DEF Claimed, Unclaimed, Core, Jobs
  <2>2. \A u \in Threads : job[u] = r /\ pc[u] # "idle" => u = t
    BY <1>5 DEF Claimed, Core, Jobs
  <2>3. CASE pc[t] = "judged"
    <3>1. (CHOOSE u \in Threads : job[u] = r /\ pc[u] = "judged") = t
      BY <1>5, <2>2, <2>3
    <3> QED  BY <1>5, <2>1, <2>3, <3>1 DEF PhaseOf
  <2>4. CASE pc[t] # "judged"
    <3>1. ~\E u \in Threads : job[u] = r /\ pc[u] = "judged"
      BY <2>2, <2>4
    <3> QED  BY <2>1, <2>4, <3>1 DEF PhaseOf
  <2> QED  BY <2>3, <2>4
<1>6. \/ stage[r] \in {"unasked", "answered"} \/ Unclaimed(r)
      \/ \E t \in Threads : job[t] = r /\ Claimed(t)
  BY DEF Unclaimed, Outstanding
<1>7. ASSUME NEW t \in Threads, job[t] = r, pc[t] = "judged"  PROVE PhaseOf(r) = verdict[t]
  BY <1>5, <1>7 DEF Claimed
<1> QED  BY <1>2, <1>3, <1>4, <1>5, <1>6, <1>7

\* And of the state after a step.
LEMMA PhasesWillBe == IInv' => Phases'
BY PhasesAre, PTL

\* A request that a step does not concern stays in its phase.
LEMMA OthersStay ==
    ASSUME Phases, Phases', NEW q \in Req,
           stage'[q] = stage[q], answer'[q] = answer[q],
           \A u \in Threads :
               \/ job[u] # q /\ job'[u] # q
               \/ /\ job'[u] = job[u] /\ (Claimed(u)' <=> Claimed(u))
                  /\ pc'[u] = "judged" <=> pc[u] = "judged"
                  /\ verdict'[u] = verdict[u]
    PROVE  PhaseOf(q)' = PhaseOf(q)
<1>1. CASE stage[q] \in {"unasked", "answered"}
  BY <1>1 DEF Phases
<1>2. CASE Unclaimed(q)
  <2>1. Unclaimed(q)'
    BY <1>2 DEF Unclaimed, Outstanding
  <2> QED  BY <1>2, <2>1 DEF Phases
<1>3. CASE \E t \in Threads : job[t] = q /\ Claimed(t)
  <2>1. PICK t \in Threads : job[t] = q /\ Claimed(t)
    BY <1>3
  <2>2. job'[t] = q /\ Claimed(t)' /\ (pc'[t] = "judged" <=> pc[t] = "judged")
        /\ verdict'[t] = verdict[t]
    BY <2>1
  <2> QED  BY <2>1, <2>2 DEF Phases
<1> QED  BY <1>1, <1>2, <1>3 DEF Phases

Unwanted == {r \in withdrawn : rid[r] # 0}

\* A step of the service is a move of one request ...
LEMMA IsMove ==
    ASSUME NEW r \in Req, NEW from, NEW to, PhaseOf(r) = from, PhaseOf(r)' = to,
           \A q \in Req : q # r => PhaseOf(q)' = PhaseOf(q),
           Unwanted' = Unwanted
    PROVE  /\ Lifecycle!Move(r, from, to)
           /\ {p \in withdrawn : rid[p] # 0}' = {p \in withdrawn : rid[p] # 0}
BY DEF Lifecycle!Move, Unwanted

\* ... or of none.
LEMMA IsStutter ==
    ASSUME \A q \in Req : PhaseOf(q)' = PhaseOf(q), Unwanted' = Unwanted
    PROVE  UNCHANGED Lifecycle!vars
BY DEF Lifecycle!vars, Unwanted

\* A request is recalled when it is the one the page withdrew.
LEMMA RecalledIsUnwanted ==
    ASSUME IInv, NEW r \in Req, Recalled(rid[r])
    PROVE  r \in Unwanted
BY DEF Recalled, Unwanted, IInv, TypeInv, TypeOK, Core, Ids

\* A request at work has been taken off the channel.
LEMMA ClaimedIsTaken ==
    ASSUME IInv
    PROVE  \A t \in Threads : Claimed(t) => stage[job[t]] = "taken"
BY DEF IInv, Core, Jobs, Claimed

\* Each step, by the request it concerns.
LEMMA AskImplements ==
    ASSUME WorkerInv, WorkerInv', NEW id \in Rids, Ask(id)
    PROVE  Lifecycle!Next
<1> USE DEF WorkerInv, IInv, TypeInv, TypeOK
<1>1. Phases /\ Phases'
  BY PhasesAre, PhasesWillBe
<1> PICK n : n = asked + 1
  OBVIOUS
<1>2. n \in Req /\ stage[n] = "unasked" /\ n \notin withdrawn
  BY BoundAssumption DEF Ask, Req, Core, Ids
<1>3. /\ stage'[n] = "enqueued" /\ UNCHANGED <<pc, job, verdict, answer, withdrawn>>
      /\ \A q \in Req : q # n => stage'[q] = stage[q] /\ rid'[q] = rid[q]
  BY <1>2 DEF Ask
<1>4. \A q \in Req : q # n => PhaseOf(q)' = PhaseOf(q)
  BY <1>1, <1>3, OthersStay DEF Claimed
<1>5. Unclaimed(n)'
  <2>1. \A t \in Threads : Claimed(t) => job[t] # n
    BY <1>2, ClaimedIsTaken
  <2> QED  BY <1>2, <1>3, <2>1 DEF Unclaimed, Outstanding, Claimed
<1>6. PhaseOf(n) = "unasked" /\ PhaseOf(n)' = "queued"
  BY <1>1, <1>2, <1>5 DEF Phases
<1>7. Unwanted' = Unwanted
  <2>1. \A r \in withdrawn : rid'[r] = rid[r]
    BY SMTT(30), <1>2, <1>3
  <2> QED  BY <1>3, <2>1 DEF Unwanted
<1>8. Lifecycle!Ask(n)
  BY <1>2, <1>4, <1>6, <1>7, IsMove DEF Lifecycle!Ask, Unwanted
<1> QED  BY <1>2, <1>8 DEF Lifecycle!Next

LEMMA SendImplements ==
    ASSUME WorkerInv, WorkerInv', NEW r \in Req, Send(r)
    PROVE  Lifecycle!Next \/ UNCHANGED Lifecycle!vars
<1> USE DEF WorkerInv, IInv, TypeInv, TypeOK
<1>1. Phases /\ Phases'
  BY PhasesAre, PhasesWillBe
<1>2. /\ stage[r] = "enqueued" /\ UNCHANGED <<pc, job, verdict, withdrawn, rid>>
      /\ \A q \in Req : q # r => stage'[q] = stage[q] /\ answer'[q] = answer[q]
  BY DEF Send
<1>3. \A q \in Req : q # r => PhaseOf(q)' = PhaseOf(q)
  BY <1>1, <1>2, OthersStay DEF Claimed
<1>4. Unclaimed(r)
  BY <1>2, ClaimedIsTaken DEF Unclaimed, Outstanding
<1>5. PhaseOf(r) = "queued"
  BY <1>1, <1>4 DEF Phases
<1>6. Unwanted' = Unwanted
  BY <1>2 DEF Unwanted
<1>7. CASE Listening
  <2>1. stage'[r] = "sent"
    BY <1>7 DEF Send
  <2>2. Unclaimed(r)'
    BY <1>2, <1>4, <2>1 DEF Unclaimed, Outstanding, Claimed
  <2>3. PhaseOf(r)' = "queued"
    BY <1>1, <2>2 DEF Phases
  <2> QED  BY <1>3, <1>5, <1>6, <2>3, IsStutter
<1>8. CASE ~Listening
  <2>1. stage'[r] = "answered" /\ answer'[r] = "failed"
    BY <1>8 DEF Send
  <2>2. PhaseOf(r)' = "failed"
    BY <1>1, <2>1 DEF Phases
  <2>3. Lifecycle!Refuse(r)
    BY <1>3, <1>5, <1>6, <2>2, IsMove DEF Lifecycle!Refuse
  <2> QED  BY <2>3 DEF Lifecycle!Next
<1> QED  BY <1>7, <1>8

LEMMA WithdrawImplements ==
    ASSUME WorkerInv, WorkerInv', NEW r \in Req, Withdraw(r)
    PROVE  Lifecycle!Next \/ UNCHANGED Lifecycle!vars
<1> USE DEF WorkerInv, IInv, TypeInv, TypeOK
<1>1. Phases /\ Phases'
  BY PhasesAre, PhasesWillBe
<1>2. /\ UNCHANGED <<pc, job, verdict, stage, answer, rid>>
      /\ r <= asked /\ withdrawn' = withdrawn \cup {r}
  BY DEF Withdraw
<1>3. \A q \in Req : PhaseOf(q)' = PhaseOf(q)
  BY <1>1, <1>2, OthersStay DEF Claimed
<1>4. PhaseOf(r) # "unasked"
  <2>1. stage[r] # "unasked"
    BY <1>2 DEF Core, Ids, Req
  <2>2. CASE stage[r] = "answered"
    <3>1. answer[r] # "unasked"
      OBVIOUS
    <3> QED  BY <1>1, <2>2, <3>1 DEF Phases
  <2>3. CASE Unclaimed(r)
    BY <1>1, <2>3 DEF Phases
  <2>4. CASE \E t \in Threads : job[t] = r /\ Claimed(t)
    <3>1. PICK t \in Threads : job[t] = r /\ Claimed(t)
      BY <2>4
    <3>2. verdict[t] # "unasked"
      OBVIOUS
    <3>3. PhaseOf(r) = verdict[t] \/ PhaseOf(r) = "running"
      BY <1>1, <3>1 DEF Phases
    <3> QED  BY <3>2, <3>3
  <2> QED  BY <1>1, <2>1, <2>2, <2>3, <2>4 DEF Phases
<1>5. CASE rid[r] = 0
  <2>1. Unwanted' = Unwanted
    BY <1>2, <1>5 DEF Unwanted
  <2> QED  BY <1>3, <2>1, IsStutter
<1>6. CASE rid[r] # 0
  <2>1. Unwanted' = Unwanted \cup {r}
    BY <1>2, <1>6 DEF Unwanted
  <2>2. Lifecycle!Withdraw(r)
    BY SMTT(30), <1>3, <1>4, <2>1 DEF Lifecycle!Withdraw, Unwanted
  <2> QED  BY <2>2 DEF Lifecycle!Next
<1> QED  BY <1>5, <1>6

LEMMA ClaimImplements ==
    ASSUME WorkerInv, WorkerInv', NEW t \in Threads, Claim(t)
    PROVE  Lifecycle!Next
<1> USE DEF WorkerInv, IInv, TypeInv, TypeOK
<1>1. Phases /\ Phases'
  BY PhasesAre, PhasesWillBe
<1> PICK r : r = job[t]
  OBVIOUS
<1>2. r \in Req /\ pc[t] = "taken" /\ stage[r] = "taken" /\ UNCHANGED <<withdrawn, rid, verdict>>
  BY DEF Claim, Core, Jobs
<1>3. \A u \in Threads : u # t => job[u] # r \/ pc[u] = "idle"
  BY <1>2 DEF Core, Jobs
<1>4. Unclaimed(r)
  BY <1>2, <1>3 DEF Unclaimed, Outstanding, Claimed
<1>5. PhaseOf(r) = "queued"
  BY <1>1, <1>2, <1>4 DEF Phases
<1>6. Unwanted' = Unwanted
  BY <1>2 DEF Unwanted
<1>7. \A u \in Threads \ {t} : job'[u] = job[u] /\ pc'[u] = pc[u]
  BY SMTT(30) DEF Claim, Reply
<1>8. CASE T!ClaimWithdrawn(table, rid[r])
  <2>1. /\ stage' = [stage EXCEPT ![r] = "answered"]
        /\ answer' = [answer EXCEPT ![r] = "abandoned"]
        /\ pc'[t] = "idle" /\ job'[t] = NoReq
    BY <1>8 DEF Claim, Reply
  <2>2. \A q \in Req : q # r => PhaseOf(q)' = PhaseOf(q)
    <3> SUFFICES ASSUME NEW q \in Req, q # r  PROVE PhaseOf(q)' = PhaseOf(q)
      OBVIOUS
    <3>1. stage'[q] = stage[q] /\ answer'[q] = answer[q] /\ job[t] # q /\ job'[t] # q
      BY <2>1 DEF NoReq, Req
    <3>2. \A u \in Threads \ {t} : /\ job'[u] = job[u] /\ (Claimed(u)' <=> Claimed(u))
                                   /\ pc'[u] = "judged" <=> pc[u] = "judged"
                                   /\ verdict'[u] = verdict[u]
      BY <1>2, <1>7 DEF Claimed
    <3> QED  BY SMTT(30), <1>1, <3>1, <3>2, OthersStay
  <2>3. PhaseOf(r)' = "abandoned"
    BY <1>1, <1>2, <2>1 DEF Phases
  <2>4. r \in Unwanted
    BY <1>2, <1>8, RecalledIsUnwanted DEF T!ClaimWithdrawn, OnlyRecalled, TableRecalled
  <2>5. Lifecycle!Drop(r)
    BY <1>2, <1>5, <1>6, <2>2, <2>3, <2>4, IsMove DEF Lifecycle!Drop, Unwanted
  <2> QED  BY <1>2, <2>5 DEF Lifecycle!Next
<1>9. CASE ~T!ClaimWithdrawn(table, rid[r])
  <2>1. pc'[t] = "claimed" /\ UNCHANGED <<answer, stage, job>>
    BY <1>9 DEF Claim
  <2>2. \A q \in Req : q # r => PhaseOf(q)' = PhaseOf(q)
    <3> SUFFICES ASSUME NEW q \in Req, q # r  PROVE PhaseOf(q)' = PhaseOf(q)
      OBVIOUS
    <3>1. stage'[q] = stage[q] /\ answer'[q] = answer[q] /\ job[t] # q /\ job'[t] # q
      BY <2>1
    <3>2. \A u \in Threads \ {t} : /\ job'[u] = job[u] /\ (Claimed(u)' <=> Claimed(u))
                                   /\ pc'[u] = "judged" <=> pc[u] = "judged"
                                   /\ verdict'[u] = verdict[u]
      BY <1>2, <1>7 DEF Claimed
    <3> QED  BY <1>1, <3>1, <3>2, OthersStay
  <2>3. PhaseOf(r)' = "running"
    BY <1>1, <1>2, <2>1 DEF Phases, Claimed
  <2>4. r \notin Unwanted
    BY <1>2, <1>4, <1>9 DEF T!ClaimWithdrawn, Core, WithdrawalIsOnRecord, Unwanted
  <2>5. Lifecycle!Start(r)
    BY <1>2, <1>5, <1>6, <2>2, <2>3, <2>4, IsMove DEF Lifecycle!Start, Unwanted
  <2> QED  BY <1>2, <2>5 DEF Lifecycle!Next
<1> QED  BY <1>8, <1>9

LEMMA JudgeImplements ==
    ASSUME WorkerInv, WorkerInv', NEW t \in Threads, ReadReply(t) \/ GiveUp(t)
    PROVE  Lifecycle!Next
<1> USE DEF WorkerInv, IInv, TypeInv, TypeOK
<1>1. Phases /\ Phases'
  BY PhasesAre, PhasesWillBe
<1> PICK r : r = job[t]
  OBVIOUS
<1>2. /\ pc[t] = "waiting" /\ r \in Req
      /\ pc' = [pc EXCEPT ![t] = "judged"]
      /\ UNCHANGED <<withdrawn, rid, stage, answer, job>>
  BY DEF ReadReply, GiveUp, Lost, Judge, page, Core, Jobs
<1>3. \A u \in Threads \ {t} : verdict'[u] = verdict[u]
  <2>1. PICK to : verdict' = [verdict EXCEPT ![t] = to]
    BY DEF ReadReply, GiveUp, Judge
  <2> QED  BY <2>1
<1>4. PhaseOf(r) = "running" /\ PhaseOf(r)' = verdict'[t]
  BY <1>1, <1>2 DEF Phases, Claimed
<1>5. \A q \in Req : q # r => PhaseOf(q)' = PhaseOf(q)
  BY <1>1, <1>2, <1>3, OthersStay DEF Claimed
<1>6. Unwanted' = Unwanted
  BY <1>2 DEF Unwanted
<1>7. \/ verdict'[t] = "failed"
      \/ verdict'[t] = "abandoned" /\ r \in Unwanted
      \/ verdict'[t] = "rendered" /\ r \notin Unwanted
  <2>1. CASE GiveUp(t)
    BY <2>1 DEF GiveUp, Judge
  <2>2. CASE ReadReply(t)
    <3>1. verdict'[t] = Verdict(t)
      BY <2>2 DEF ReadReply, Judge
    <3>2. CASE wreply[t] = "error"
      BY <3>1, <3>2 DEF Verdict
    <3>3. CASE wreply[t] # "error" /\ (wreply[t] = "abandoned" \/ token[t])
      <4>1. Recalled(rid[r])
        BY <1>2, <3>3 DEF OnlyRecalled, ThreadRecalled, AtWork
      <4> QED  BY <1>2, <3>1, <3>3, <4>1, RecalledIsUnwanted DEF Verdict
    <3>4. CASE wreply[t] \notin {"error", "abandoned"} /\ ~token[t]
      <4>1. r \notin Unwanted
        BY <1>2, <3>4 DEF Core, WithdrawalIsOnRecord, Unwanted
      <4> QED  BY <3>1, <3>4, <4>1 DEF Verdict
    <3> QED  BY <3>2, <3>3, <3>4
  <2> QED  BY <2>1, <2>2
<1>8. Lifecycle!Finish(r)
  BY <1>2, <1>4, <1>5, <1>6, <1>7, IsMove DEF Lifecycle!Finish, Unwanted
<1> QED  BY <1>2, <1>8 DEF Lifecycle!Next

LEMMA TakeImplements ==
    ASSUME WorkerInv, WorkerInv', NEW t \in Threads, Take(t)
    PROVE  UNCHANGED Lifecycle!vars
<1> USE DEF WorkerInv, IInv, TypeInv, TypeOK
<1>1. Phases /\ Phases'
  BY PhasesAre, PhasesWillBe
<1> PICK r : r = Head(chan)
  OBVIOUS
<1>2. /\ pc[t] = "idle" /\ pc' = [pc EXCEPT ![t] = "taken"]
      /\ job' = [job EXCEPT ![t] = r] /\ stage' = [stage EXCEPT ![r] = "taken"]
      /\ UNCHANGED <<withdrawn, rid, answer, verdict>>
  BY DEF Take, Step
<1>3. r \in Req /\ stage[r] = "sent"
  BY DEF Take, Core, Channel
<1>4. job[t] = NoReq
  BY <1>2 DEF Core, Jobs
<1>5. \A u \in Threads : Claimed(u) => job[u] # r /\ u # t
  BY <1>2, <1>3, ClaimedIsTaken DEF Claimed
<1>6. Unclaimed(r)
  BY <1>3, <1>5 DEF Unclaimed, Outstanding
<1>7. Unclaimed(r)'
  <2>1. \A u \in Threads : Claimed(u)' => Claimed(u) /\ job'[u] = job[u]
    BY <1>2 DEF Claimed
  <2>2. stage'[r] = "taken"
    BY <1>2, <1>3
  <2> QED  BY <1>5, <2>1, <2>2 DEF Unclaimed, Outstanding
<1>8. \A q \in Req : PhaseOf(q)' = PhaseOf(q)
  <2>1. PhaseOf(r)' = PhaseOf(r)
    BY <1>1, <1>3, <1>6, <1>7 DEF Phases
  <2>2. ASSUME NEW q \in Req, q # r  PROVE PhaseOf(q)' = PhaseOf(q)
    <3>1. job[t] # q /\ job'[t] # q /\ stage'[q] = stage[q] /\ answer'[q] = answer[q]
      <4>1. job[t] # q
        BY <1>4 DEF NoReq, Req
      <4> QED  BY SMTT(30), <1>2, <1>3, <2>2, <4>1
    <3>2. \A u \in Threads \ {t} : job'[u] = job[u] /\ pc'[u] = pc[u] /\ verdict'[u] = verdict[u]
      BY <1>2
    <3> QED  BY ZenonT(30), <1>1, <3>1, <3>2, OthersStay DEF Claimed
  <2> QED  BY <2>1, <2>2
<1>9. Unwanted' = Unwanted
  BY <1>2 DEF Unwanted
<1> QED  BY <1>8, <1>9, IsStutter

LEMMA ReleaseImplements ==
    ASSUME WorkerInv, WorkerInv', NEW t \in Threads, Release(t)
    PROVE  UNCHANGED Lifecycle!vars
<1> USE DEF WorkerInv, IInv, TypeInv, TypeOK
<1>1. Phases /\ Phases'
  BY PhasesAre, PhasesWillBe
<1> PICK r : r = job[t]
  OBVIOUS
<1>2. /\ pc[t] = "judged" /\ pc' = [pc EXCEPT ![t] = "idle"]
      /\ job' = [job EXCEPT ![t] = NoReq] /\ verdict' = [verdict EXCEPT ![t] = "none"]
      /\ stage' = [stage EXCEPT ![r] = "answered"]
      /\ answer' = [answer EXCEPT ![r] = verdict[t]]
      /\ UNCHANGED <<withdrawn, rid>>
  BY DEF Release, Reply
<1>3. r \in Req
  BY <1>2 DEF Core, Jobs
<1>4. PhaseOf(r) = verdict[t] /\ PhaseOf(r)' = verdict[t]
  BY <1>1, <1>2, <1>3 DEF Phases
<1>5. ASSUME NEW q \in Req, q # r  PROVE PhaseOf(q)' = PhaseOf(q)
  <2>1. job[t] # q /\ job'[t] # q /\ stage'[q] = stage[q] /\ answer'[q] = answer[q]
    BY <1>2, <1>3, <1>5 DEF NoReq, Req
  <2>2. \A u \in Threads \ {t} : job'[u] = job[u] /\ pc'[u] = pc[u] /\ verdict'[u] = verdict[u]
    BY <1>2
  <2> QED  BY ZenonT(30), <1>1, <2>1, <2>2, OthersStay DEF Claimed
<1>6. Unwanted' = Unwanted
  BY <1>2 DEF Unwanted
<1> QED  BY <1>4, <1>5, <1>6, IsStutter

\* Everything else leaves the page's and the threads' accounts of a request.
LEMMA OtherStepsStutter ==
    ASSUME WorkerInv, WorkerInv',
           \/ Address \/ Broadcast \/ UNCHANGED vars
           \/ \E t \in Threads :
                 \/ StartCall(t) \/ WriteTile(t) \/ Replace(t) \/ Panic(t)
                 \/ WorkerStep(t) \/ Crash(t)
    PROVE  UNCHANGED Lifecycle!vars
<1> USE DEF WorkerInv, IInv, TypeInv, TypeOK
<1>1. Phases /\ Phases'
  BY PhasesAre, PhasesWillBe
<1>2. UNCHANGED <<stage, answer, withdrawn, rid, job, verdict>>
  BY DEF Address, Broadcast, StartCall, WriteTile, Replace, Panic, WorkerStep, ReadLine,
         WClaim, WFinish, Crash, vars, page, service, worker
<1>3. \A u \in Threads : (Claimed(u)' <=> Claimed(u)) /\ (pc'[u] = "judged" <=> pc[u] = "judged")
  <2>1. ASSUME NEW t \in Threads, StartCall(t) \/ WriteTile(t) \/ Replace(t) \/ Panic(t)
        PROVE  pc[t] \in {"claimed", "calling", "waiting"} /\
               \E to \in {"claimed", "calling", "waiting", "dead"} : pc' = [pc EXCEPT ![t] = to]
    BY <2>1 DEF StartCall, WriteTile, Replace, Lost, Panic, Step
  <2>2. CASE UNCHANGED pc
    BY <2>2 DEF Claimed
  <2>3. CASE ~UNCHANGED pc
    <3>1. ~(Address \/ Broadcast \/ UNCHANGED vars)
      BY <2>3 DEF Address, Broadcast, vars, service
    <3>2. \A t \in Threads : ~(WorkerStep(t) \/ Crash(t))
      BY <2>3 DEF WorkerStep, ReadLine, WClaim, WFinish, Crash, service
    <3>3. PICK t \in Threads : StartCall(t) \/ WriteTile(t) \/ Replace(t) \/ Panic(t)
      BY <3>1, <3>2
    <3>4. PICK to \in {"claimed", "calling", "waiting", "dead"} : pc' = [pc EXCEPT ![t] = to]
      BY <2>1, <3>3
    <3>5. Claimed(t) /\ Claimed(t)' /\ pc[t] # "judged" /\ pc'[t] # "judged"
      <4>1. pc[t] \in {"claimed", "calling", "waiting"}
        BY <2>1, <3>3
      <4>2. pc'[t] \in {"claimed", "calling", "waiting", "dead"}
        BY <3>4
      <4> QED  BY <4>1, <4>2 DEF Claimed
    <3>6. \A u \in Threads \ {t} : pc'[u] = pc[u]
      BY <3>4
    <3> QED  BY <3>5, <3>6 DEF Claimed
  <2> QED  BY <2>2, <2>3
<1>4. \A q \in Req : PhaseOf(q)' = PhaseOf(q)
  BY <1>1, <1>2, <1>3, OthersStay
<1>5. Unwanted' = Unwanted
  BY <1>2 DEF Unwanted
<1> QED  BY <1>4, <1>5, IsStutter

LEMMA StepImplements ==
    ASSUME MaxReloads = 0, WorkerInv, WorkerInv', [Next]_vars
    PROVE  [Lifecycle!Next]_Lifecycle!vars
<1>1. ASSUME NEW id \in Rids, Ask(id)  PROVE Lifecycle!Next
  BY <1>1, AskImplements
<1>2. ASSUME NEW r \in Req, Send(r) \/ Withdraw(r)
      PROVE  Lifecycle!Next \/ UNCHANGED Lifecycle!vars
  BY <1>2, SendImplements, WithdrawImplements
<1>3. CASE Reload
  BY <1>3 DEF Reload, WorkerInv, IInv, TypeInv, TypeOK
<1>4. CASE Address \/ Broadcast \/ UNCHANGED vars
  BY <1>4, OtherStepsStutter
<1>5. ASSUME NEW t \in Threads, ThreadStep(t)
      PROVE  Lifecycle!Next \/ UNCHANGED Lifecycle!vars
  BY <1>5, TakeImplements, ClaimImplements, JudgeImplements, ReleaseImplements,
     OtherStepsStutter DEF ThreadStep
<1>6. ASSUME NEW t \in Threads, WorkerStep(t) \/ Crash(t) \/ Panic(t)
      PROVE  UNCHANGED Lifecycle!vars
  BY <1>6, OtherStepsStutter
<1> QED  BY <1>1, <1>2, <1>3, <1>4, <1>5, <1>6 DEF Next

\* The service implements TileLifecycle: whatever the tables, the broadcasts,
\* the retry, the deaths and the panics do, a withdrawn request never starts, is
\* never answered with a tile, and nothing the page wants is given up.
THEOREM TheServiceImplementsTheLifecycle ==
    ASSUME MaxReloads = 0
    PROVE  Spec => ImplementsLifecycle
<1>1. Init => Lifecycle!Init
  <2> SUFFICES ASSUME Init  PROVE Lifecycle!Init
    OBVIOUS
  <2>1. \A r \in Req : PhaseOf(r) = "unasked"
    BY TypesStart, CoreStart, PhasesAre DEF IInv, Phases, Init
  <2> QED  BY <2>1 DEF Init, Lifecycle!Init
<1>2. WorkerInv /\ WorkerInv' /\ [Next]_vars => [Lifecycle!Next]_Lifecycle!vars
  BY StepImplements
<1> QED  BY <1>1, <1>2, WorkersAreSound, PTL DEF Spec, ImplementsLifecycle, Lifecycle!Spec
=============================================================================
