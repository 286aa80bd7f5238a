------------------------------ MODULE SpareSlot ------------------------------
(***************************************************************************)
(* The pre-spawned worker of src-tauri/src/workers.rs: prewarm, settled,   *)
(* take_spare and adopt_or_spawn over one SpareSlot, with wait_warm and    *)
(* adopt of worker.rs.                                                     *)
(*                                                                         *)
(* Each call of prewarm is a thread of its own, and starts a second one,   *)
(* the waiter, that blocks in a read of the child's pipe.  The call waits  *)
(* for the waiter no longer than the deadline, so the two can end in       *)
(* either order.  An action is one critical section of the slot or one     *)
(* step between two of them.                                               *)
(***************************************************************************)
EXTENDS Naturals, FiniteSets

CONSTANTS Calls,      \* bound: the calls of prewarm
          Openers,    \* the threads that need a worker, each for one document
          Pids, NoPid

ASSUME SpareAssumption == NoPid \notin Pids

VARIABLES
    ready, warming, spawning,   \* the SpareSlot
    proc,       \* proc[p]: "free", "alive", or "dead" and not yet reaped
    pc,         \* pc[c]: where call c of prewarm is
    pid,        \* the process call c started
    waiter,     \* waiter[c]: its waiting thread
    mail,       \* what is in the channel from the waiter to the call
    answered,   \* what recv_timeout returned
    opc,        \* where an opener is
    holds       \* the process whose Worker it owns

slot == <<ready, warming, spawning>>
vars == <<slot, proc, pc, pid, waiter, mail, answered, opc, holds>>

TypeOK ==
    /\ ready \in Pids \cup {NoPid} /\ warming \in Pids \cup {NoPid}
    /\ spawning \in BOOLEAN
    /\ proc \in [Pids -> {"free", "alive", "dead"}]
    /\ pc \in [Calls -> {"uncalled", "check", "fork", "unclaim", "register", "start",
                         "recv", "clear", "kill", "publish", "done"}]
    /\ pid \in [Calls -> Pids \cup {NoPid}]
    /\ waiter \in [Calls -> {"none", "reading", "done"}]
    /\ mail \in [Calls -> {"none", "warm", "failed"}]
    /\ answered \in [Calls -> {"none", "warm", "failed"}]
    /\ opc \in [Openers -> {"wants", "adopt", "spawn", "has", "serves", "over"}]
    /\ holds \in [Openers -> Pids \cup {NoPid}]

Init ==
    /\ ready = NoPid /\ warming = NoPid /\ spawning = FALSE
    /\ proc = [p \in Pids |-> "free"]
    /\ pc = [c \in Calls |-> "uncalled"]
    /\ pid = [c \in Calls |-> NoPid]
    /\ waiter = [c \in Calls |-> "none"]
    /\ mail = [c \in Calls |-> "none"]
    /\ answered = [c \in Calls |-> "none"]
    /\ opc = [o \in Openers |-> "wants"]
    /\ holds = [o \in Openers |-> NoPid]

Goto(c, from, to) == pc[c] = from /\ pc' = [pc EXCEPT ![c] = to]

\* mutant of Dropped: the process is let go of and lives on
LetGo(p) == proc

\* A PreWorker, a WarmWorker or a Worker goes out of scope.
Dropped(p) == IF p = NoPid THEN proc ELSE [proc EXCEPT ![p] = "free"]

-----------------------------------------------------------------------------
\* prewarm.  The service calls it as it starts, whoever adopts a spare, and
\* every open once it has a worker.

ServiceStarts ==
    /\ \A c \in Calls : pc[c] = "uncalled"
    /\ \E c \in Calls : Goto(c, "uncalled", "check")
    /\ UNCHANGED <<slot, proc, pid, waiter, mail, answered, opc, holds>>

\* mutant of Taken: a spare that is being forked does not count
TakenIfNamed == ready # NoPid \/ warming # NoPid

Taken == ready # NoPid \/ warming # NoPid \/ spawning

Check(c) ==
    /\ IF Taken
       THEN Goto(c, "check", "done") /\ UNCHANGED spawning
       ELSE Goto(c, "check", "fork") /\ spawning' = TRUE
    /\ UNCHANGED <<ready, warming, proc, pid, waiter, mail, answered, opc,
                   holds>>

Prespawn(c) ==
    /\ \/ /\ Goto(c, "fork", "register")
          /\ \E p \in Pids : /\ proc[p] = "free"
                             /\ proc' = [proc EXCEPT ![p] = "alive"]
                             /\ pid' = [pid EXCEPT ![c] = p]
       \/ Goto(c, "fork", "unclaim") /\ UNCHANGED <<proc, pid>>
    /\ UNCHANGED <<slot, waiter, mail, answered, opc, holds>>

\* A spawn that failed gives its claim back.
Unclaim(c) ==
    /\ Goto(c, "unclaim", "done")
    /\ spawning' = FALSE
    /\ UNCHANGED <<ready, warming, proc, pid, waiter, mail, answered, opc,
                   holds>>

Register(c) ==
    /\ Goto(c, "register", "start")
    /\ warming' = pid[c] /\ spawning' = FALSE
    /\ UNCHANGED <<ready, proc, pid, waiter, mail, answered, opc, holds>>

\* The waiter owns the PreWorker; if it cannot be started, both are dropped.
StartWaiter(c) ==
    /\ Goto(c, "start", "recv")
    /\ \/ waiter' = [waiter EXCEPT ![c] = "reading"] /\ UNCHANGED proc
       \/ waiter' = [waiter EXCEPT ![c] = "done"] /\ proc' = Dropped(pid[c])
    /\ UNCHANGED <<slot, pid, mail, answered, opc, holds>>

\* wait_warm: the readiness line, or anything else, which drops the PreWorker.
\* A send to a call that has ended drops what it carries.
WaiterReads(c) ==
    /\ waiter[c] = "reading"
    /\ waiter' = [waiter EXCEPT ![c] = "done"]
    /\ \E news \in {"warm", "failed"} :
          /\ mail' = [mail EXCEPT ![c] = IF pc[c] = "done" THEN "none" ELSE news]
          /\ proc' = IF news = "failed" \/ pc[c] = "done"
                     THEN Dropped(pid[c]) ELSE proc
    /\ UNCHANGED <<slot, pc, pid, answered, opc, holds>>

WarmedUp(c) == waiter[c] = "reading" /\ proc[pid[c]] = "alive" /\ WaiterReads(c)

\* The end of the pipe.  The line may have been written before it.
PipeCloses(c) == waiter[c] = "reading" /\ proc[pid[c]] = "dead" /\ WaiterReads(c)

\* recv_timeout, in settled: news, a sender that is gone, or the deadline.
Receive(c) ==
    /\ Goto(c, "recv", "clear")
    /\ answered' = [answered EXCEPT ![c] = mail[c]]
    /\ mail' = [mail EXCEPT ![c] = "none"]
    /\ UNCHANGED <<slot, proc, pid, waiter, opc, holds>>

\* mutants of Cleared: the claim is given back only on an answer; no claim is
\* written as pid zero
ClearedIfAnswered(c) == IF answered[c] = "none" THEN warming ELSE NoPid
ClearedToZero(c) == 0

Cleared(c) == NoPid

\* settled gives the claim back in both branches.
Clear(c) ==
    /\ Goto(c, "clear", IF answered[c] = "none" THEN "kill" ELSE "publish")
    /\ warming' = Cleared(c)
    /\ UNCHANGED <<ready, spawning, proc, pid, waiter, mail, answered, opc,
                   holds>>

\* mutant of Signalled: a signal that does nothing
NotSignalled(p) == proc

Signalled(p) == [proc EXCEPT ![p] = IF @ = "alive" THEN "dead" ELSE @]

\* kill_pid: whatever has that number.
Kill(c) ==
    /\ Goto(c, "kill", "publish")
    /\ proc' = Signalled(pid[c])
    /\ UNCHANGED <<slot, pid, waiter, mail, answered, opc, holds>>

\* A warm worker is published unless there is one; it is dropped otherwise,
\* and so is one in a message that came too late.
PublishSpare(c) ==
    /\ Goto(c, "publish", "done")
    /\ IF answered[c] = "warm" /\ ready = NoPid
       THEN ready' = pid[c] /\ UNCHANGED proc
       ELSE /\ proc' = IF "warm" \in {answered[c], mail[c]} THEN Dropped(pid[c]) ELSE proc
            /\ UNCHANGED ready
    /\ answered' = [answered EXCEPT ![c] = "none"]
    /\ mail' = [mail EXCEPT ![c] = "none"]
    /\ UNCHANGED <<warming, spawning, pid, waiter, opc, holds>>

-----------------------------------------------------------------------------
\* adopt_or_spawn, on the thread of whoever needs a worker.

TakeSpare(o) ==
    /\ opc[o] = "wants"
    /\ IF ready # NoPid
       THEN /\ opc' = [opc EXCEPT ![o] = "adopt"]
            /\ holds' = [holds EXCEPT ![o] = ready]
            /\ ready' = NoPid
       ELSE opc' = [opc EXCEPT ![o] = "spawn"] /\ UNCHANGED <<holds, ready>>
    /\ UNCHANGED <<warming, spawning, proc, pc, pid, waiter, mail, answered>>

\* prewarm is called; past the bound the call is left out.
Prewarm ==
    \/ \E c \in Calls : Goto(c, "uncalled", "check")
    \/ (\A c \in Calls : pc[c] # "uncalled") /\ UNCHANGED pc

\* The handover reaches a live spare, and prewarm is called for the next one.
Adopt(o) ==
    /\ opc[o] = "adopt" /\ proc[holds[o]] = "alive"
    /\ opc' = [opc EXCEPT ![o] = "has"]
    /\ Prewarm
    /\ UNCHANGED <<slot, proc, pid, waiter, mail, answered, holds>>

\* A spare that died while it waited, or could not be reached, is dropped, and
\* a process is started after all; prewarm is not called.
AdoptFails(o) ==
    /\ opc[o] = "adopt"
    /\ opc' = [opc EXCEPT ![o] = "spawn"]
    /\ proc' = Dropped(holds[o])
    /\ holds' = [holds EXCEPT ![o] = NoPid]
    /\ UNCHANGED <<slot, pc, pid, waiter, mail, answered>>

SpawnShared(o) ==
    /\ opc[o] = "spawn"
    /\ \/ \E p \in Pids : /\ proc[p] = "free"
                          /\ proc' = [proc EXCEPT ![p] = "alive"]
                          /\ holds' = [holds EXCEPT ![o] = p]
                          /\ opc' = [opc EXCEPT ![o] = "has"]
       \/ opc' = [opc EXCEPT ![o] = "over"] /\ UNCHANGED <<proc, holds>>
    /\ UNCHANGED <<slot, pc, pid, waiter, mail, answered>>

\* An open calls prewarm however it came by its worker; a pool that grows does
\* not.
Go(o) ==
    /\ opc[o] = "has"
    /\ opc' = [opc EXCEPT ![o] = "serves"]
    /\ Prewarm \/ UNCHANGED pc
    /\ UNCHANGED <<slot, proc, pid, waiter, mail, answered, holds>>

\* Its document is closed: the pool drops the worker.
Finish(o) ==
    /\ opc[o] = "serves"
    /\ opc' = [opc EXCEPT ![o] = "over"]
    /\ proc' = Dropped(holds[o])
    /\ holds' = [holds EXCEPT ![o] = NoPid]
    /\ UNCHANGED <<slot, pc, pid, waiter, mail, answered>>

Die(p) ==
    /\ proc[p] = "alive"
    /\ proc' = [proc EXCEPT ![p] = "dead"]
    /\ UNCHANGED <<slot, pc, pid, waiter, mail, answered, opc, holds>>

-----------------------------------------------------------------------------
CallStep(c) ==
    \/ Check(c) \/ Prespawn(c) \/ Unclaim(c) \/ Register(c) \/ StartWaiter(c)
    \/ Receive(c) \/ Clear(c) \/ Kill(c) \/ PublishSpare(c)

Next ==
    \/ ServiceStarts
    \/ \E c \in Calls : CallStep(c) \/ WarmedUp(c) \/ PipeCloses(c)
    \/ \E o \in Openers : \/ TakeSpare(o) \/ Adopt(o) \/ AdoptFails(o)
                          \/ SpawnShared(o) \/ Go(o) \/ Finish(o)
    \/ \E p \in Pids : Die(p)

\* The threads run and recv_timeout returns; no child has to say anything.
Fairness == \A c \in Calls : WF_vars(CallStep(c)) /\ WF_vars(PipeCloses(c))

Spec == Init /\ [][Next]_vars
FairSpec == Spec /\ Fairness

-----------------------------------------------------------------------------
\* What the slot promises.

InClaim == {c \in Calls : pc[c] \in {"fork", "unclaim", "register"}}
InWarming == {c \in Calls : pc[c] \in {"start", "recv", "clear"}}

\* One spare is made at a time, and the slot says so exactly while it is: two
\* calls that arrive together never both decide there is none, and no claim is
\* left set by a call that has ended.
OneClaim ==
    /\ \A c, d \in InClaim \cup InWarming : c = d
    /\ spawning <=> InClaim # {}
    /\ warming # NoPid => \E c \in InWarming : warming = pid[c]
    /\ warming = NoPid => InWarming = {}

\* The process of call c is still its own to drop: with the call, the waiter,
\* the channel, or what was received.
Keeps(c) ==
    \/ pc[c] \in {"register", "start"} \/ waiter[c] = "reading"
    \/ mail[c] = "warm" \/ answered[c] = "warm"

\* No spare is leaked or owned twice, whichever of timeout, death, late answer
\* and adoption comes first: a process that is not reaped is kept by exactly
\* one call, the slot, or an opener.
SparesHaveOneOwner ==
    \A p \in Pids :
        LET owners == {<<"call", c>> : c \in {d \in Calls : Keeps(d) /\ pid[d] = p}}
                      \cup {<<"opener", o>> : o \in {q \in Openers : holds[q] = p}}
                      \cup (IF ready = p THEN {<<"slot", 0>>} ELSE {})
        IN  Cardinality(owners) = IF proc[p] = "free" THEN 0 ELSE 1

\* A call that is about to signal a pid still has that child unreaped: "a child
\* of this process that the caller has established is still unreaped"
\* (workers.rs, kill_pid).
SignalsOwnChild == \A c \in Calls : pc[c] = "kill" => Keeps(c)

\* The claim always comes back, so a spare that never answers does not cost
\* every later open its head start (workers.rs, settled).
ClaimComesBack == (spawning \/ warming # NoPid) ~> ~(spawning \/ warming # NoPid)

\* "Neither a process nor a thread is leaked by the timeout" (workers.rs,
\* settled): once its call has ended, a waiter ends too.
NoWaiterLeaked ==
    \A c \in Calls : (pc[c] = "done" /\ waiter[c] = "reading") ~> waiter[c] = "done"
=============================================================================
