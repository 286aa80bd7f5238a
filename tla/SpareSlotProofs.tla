--------------------------- MODULE SpareSlotProofs ---------------------------
(* The spare slot is claimed by one call at a time, and a process made ahead
   has one owner at every instant, for any number of calls, openers and
   processes. *)
EXTENDS SpareSlot, FiniteSetTheorems, TLAPS

\* A call that got past the fork knows its child.
PidKnown ==
    \A c \in Calls :
        pc[c] \in {"register", "start", "recv", "clear", "kill", "publish"}
            \/ waiter[c] = "reading"
        => pid[c] \in Pids

ClaimInv == TypeOK /\ PidKnown /\ OneClaim

LEMMA InitEstablishes == Init => ClaimInv
<1> SUFFICES ASSUME Init  PROVE ClaimInv
  OBVIOUS
<1>1. TypeOK
  BY DEF Init, TypeOK
<1>2. InClaim = {} /\ InWarming = {}
  BY DEF Init, InClaim, InWarming
<1>3. OneClaim
  BY <1>2 DEF Init, OneClaim
<1>4. PidKnown
  BY DEF Init, PidKnown
<1> QED  BY <1>1, <1>3, <1>4 DEF ClaimInv

\* The domains of the state are kept by every step of a call.
LEMMA CallKeepsTypes ==
    ASSUME TypeOK, PidKnown, NEW c \in Calls, CallStep(c)
    PROVE  TypeOK' /\ PidKnown'
<1> USE DEF TypeOK, PidKnown, Goto
<1>1. CASE Check(c)
  <2>1. spawning' \in BOOLEAN /\ pc' \in {[pc EXCEPT ![c] = "done"], [pc EXCEPT ![c] = "fork"]}
    BY <1>1 DEF Check
  <2>2. UNCHANGED <<ready, warming, proc, pid, waiter, mail, answered, opc, holds>>
    BY <1>1 DEF Check
  <2> QED  BY <2>1, <2>2
<1>2. CASE Prespawn(c)
  <2>1. CASE \E p \in Pids : /\ proc[p] = "free"
                             /\ proc' = [proc EXCEPT ![p] = "alive"]
                             /\ pid' = [pid EXCEPT ![c] = p]
                             /\ pc' = [pc EXCEPT ![c] = "register"]
    BY <1>2, <2>1 DEF Prespawn, slot
  <2>2. CASE pc' = [pc EXCEPT ![c] = "unclaim"] /\ UNCHANGED <<proc, pid>>
    BY <1>2, <2>2 DEF Prespawn, slot
  <2> QED  BY <1>2, <2>1, <2>2 DEF Prespawn
<1>3. CASE Unclaim(c)
  BY <1>3 DEF Unclaim
<1>4. CASE Register(c)
  BY <1>4 DEF Register
<1>5. CASE StartWaiter(c)
  BY <1>5 DEF StartWaiter, Dropped, slot
<1>6. CASE Receive(c)
  BY <1>6 DEF Receive, slot
<1>7. CASE Clear(c)
  BY <1>7 DEF Clear, Cleared
<1>8. CASE Kill(c)
  BY <1>8 DEF Kill, Signalled, slot
<1>9. CASE PublishSpare(c)
  BY <1>9 DEF PublishSpare, Dropped
<1> QED  BY <1>1, <1>2, <1>3, <1>4, <1>5, <1>6, <1>7, <1>8, <1>9 DEF CallStep

\* Each step of a call keeps the claim with one call.
LEMMA CallKeepsClaim ==
    ASSUME ClaimInv, NEW c \in Calls, CallStep(c)
    PROVE  OneClaim'
<1> USE DEF ClaimInv, TypeOK, PidKnown, OneClaim, InClaim, InWarming, Goto
<1>1. CASE Check(c)
  BY <1>1 DEF Check, Taken
<1>2. CASE Prespawn(c)
  BY <1>2 DEF Prespawn, slot
<1>3. CASE Unclaim(c)
  BY <1>3 DEF Unclaim
<1>4. CASE Register(c)
  BY <1>4, SpareAssumption DEF Register
<1>5. CASE StartWaiter(c)
  BY <1>5 DEF StartWaiter, slot
<1>6. CASE Receive(c)
  BY <1>6 DEF Receive, slot
<1>7. CASE Clear(c)
  BY <1>7 DEF Clear, Cleared
<1>8. CASE Kill(c)
  BY <1>8 DEF Kill, slot
<1>9. CASE PublishSpare(c)
  BY <1>9 DEF PublishSpare
<1> QED  BY <1>1, <1>2, <1>3, <1>4, <1>5, <1>6, <1>7, <1>8, <1>9 DEF CallStep

\* The waiters, the openers and the system touch neither claim.
LEMMA OthersKeep ==
    ASSUME ClaimInv,
           \/ ServiceStarts
           \/ \E c \in Calls : WarmedUp(c) \/ PipeCloses(c)
           \/ \E o \in Openers : \/ TakeSpare(o) \/ Adopt(o) \/ AdoptFails(o)
                                 \/ SpawnShared(o) \/ Go(o) \/ Finish(o)
           \/ \E p \in Pids : Die(p)
           \/ UNCHANGED vars
    PROVE  ClaimInv'
<1> USE DEF ClaimInv, TypeOK, PidKnown, OneClaim, InClaim, InWarming, slot
<1>1. CASE ServiceStarts
  BY <1>1 DEF ServiceStarts, Goto
<1>2. ASSUME NEW c \in Calls, WaiterReads(c)  PROVE ClaimInv'
  BY <1>2 DEF WaiterReads, Dropped
<1>3. ASSUME NEW o \in Openers, TakeSpare(o)  PROVE ClaimInv'
  BY <1>3 DEF TakeSpare
<1>4. ASSUME NEW o \in Openers, Adopt(o)  PROVE ClaimInv'
  BY <1>4 DEF Adopt, Prewarm, Goto
<1>5. ASSUME NEW o \in Openers, AdoptFails(o) \/ Finish(o)  PROVE ClaimInv'
  BY <1>5 DEF AdoptFails, Finish, Dropped
<1>6. ASSUME NEW o \in Openers, SpawnShared(o)  PROVE ClaimInv'
  BY <1>6 DEF SpawnShared
<1>7. ASSUME NEW p \in Pids, Die(p)  PROVE ClaimInv'
  BY <1>7 DEF Die
<1>8. ASSUME NEW o \in Openers, Go(o)  PROVE ClaimInv'
  BY <1>8 DEF Go, Prewarm, Goto
<1>9. CASE UNCHANGED vars
  BY <1>9 DEF vars
<1> QED  BY <1>1, <1>2, <1>3, <1>4, <1>5, <1>6, <1>7, <1>8, <1>9 DEF WarmedUp, PipeCloses

LEMMA StepKeeps == ClaimInv /\ [Next]_vars => ClaimInv'
<1> SUFFICES ASSUME ClaimInv, [Next]_vars  PROVE ClaimInv'
  OBVIOUS
<1>1. ASSUME NEW c \in Calls, CallStep(c)  PROVE ClaimInv'
  BY <1>1, CallKeepsTypes, CallKeepsClaim DEF ClaimInv
<1> QED  BY <1>1, OthersKeep DEF Next

\* The state of the slot and of its threads stays in its domains.
THEOREM SpareTypes == Spec => []TypeOK
<1>1. Spec => []ClaimInv
  BY InitEstablishes, StepKeeps, PTL DEF Spec
<1> QED  BY <1>1, PTL DEF ClaimInv

\* One spare is made at a time and the slot says so exactly while it is, for
\* every number of prewarm calls arriving together (Workers::prewarm, settled).
THEOREM SpareClaimedOnce == Spec => []OneClaim
<1>1. Spec => []ClaimInv
  BY InitEstablishes, StepKeeps, PTL DEF Spec
<1> QED  BY <1>1, PTL DEF ClaimInv

-----------------------------------------------------------------------------
\* Ownership.  Where a call is, its waiter and the news agree, and an opener
\* holds a process exactly while it has one to adopt, use or give up.
CallRows ==
    \A c \in Calls :
        /\ pc[c] \in {"uncalled", "check", "fork", "unclaim", "register", "start"}
              => waiter[c] = "none" /\ mail[c] = "none" /\ answered[c] = "none"
        /\ pc[c] \notin {"clear", "publish"} => answered[c] = "none"
        /\ pc[c] = "done" => mail[c] = "none"
        /\ waiter[c] = "reading" => mail[c] = "none" /\ answered[c] = "none"

OpenerRows ==
    \A o \in Openers : opc[o] \in {"adopt", "has", "serves"} <=> holds[o] # NoPid

\* Whoever has a process has one that is there.
OwnedIsThere ==
    /\ \A c \in Calls : Keeps(c) => pid[c] \in Pids /\ proc[pid[c]] # "free"
    /\ \A o \in Openers : holds[o] # NoPid => proc[holds[o]] # "free"
    /\ ready # NoPid => proc[ready] # "free"

\* No two have the same.
OwnersDiffer ==
    /\ \A c, d \in Calls : Keeps(c) /\ Keeps(d) /\ pid[c] = pid[d] => c = d
    /\ \A o, q \in Openers : holds[o] = holds[q] /\ holds[o] # NoPid => o = q
    /\ \A c \in Calls, o \in Openers : Keeps(c) => pid[c] # holds[o]
    /\ \A c \in Calls : Keeps(c) => pid[c] # ready
    /\ \A o \in Openers : holds[o] # NoPid => holds[o] # ready

\* And somebody has each.
NoneIsLeaked ==
    \A p \in Pids : proc[p] # "free" =>
        \/ \E c \in Calls : Keeps(c) /\ pid[c] = p
        \/ \E o \in Openers : holds[o] = p
        \/ ready = p

OwnerInv ==
    ClaimInv /\ CallRows /\ OpenerRows /\ OwnedIsThere /\ OwnersDiffer /\ NoneIsLeaked

-----------------------------------------------------------------------------
\* Each part is kept by the steps of a call and its waiter, and of an opener.
LEMMA CallRowsCall ==
    ASSUME OwnerInv, NEW c \in Calls, CallStep(c) \/ WaiterReads(c)
    PROVE  CallRows'
<1> USE SpareAssumption DEF OwnerInv, ClaimInv, TypeOK, PidKnown, Keeps, Goto, slot,
           CallRows, OpenerRows, OwnedIsThere, OwnersDiffer, NoneIsLeaked
<1>1. CASE Check(c)
  BY <1>1 DEF Check, Taken
<1>2. CASE Prespawn(c)
  BY <1>2 DEF Prespawn
<1>3. CASE Unclaim(c)
  BY <1>3 DEF Unclaim
<1>4. CASE Register(c)
  BY <1>4 DEF Register
<1>5. CASE StartWaiter(c)
  BY <1>5 DEF StartWaiter, Dropped
<1>6. CASE Receive(c)
  BY <1>6 DEF Receive
<1>7. CASE Clear(c)
  BY <1>7 DEF Clear, Cleared
<1>8. CASE Kill(c)
  BY <1>8 DEF Kill, Signalled
<1>9. CASE PublishSpare(c)
  BY <1>9 DEF PublishSpare, Dropped
<1>10. CASE WaiterReads(c)
  BY <1>10 DEF WaiterReads, Dropped
<1> QED  BY <1>1, <1>2, <1>3, <1>4, <1>5, <1>6, <1>7, <1>8, <1>9, <1>10
          DEF CallStep

LEMMA CallRowsOpener ==
    ASSUME OwnerInv, NEW o \in Openers,
           \/ TakeSpare(o) \/ Adopt(o) \/ AdoptFails(o)
           \/ SpawnShared(o) \/ Go(o) \/ Finish(o)
    PROVE  CallRows'
<1> USE SpareAssumption DEF OwnerInv, ClaimInv, TypeOK, PidKnown, Keeps, Goto, slot,
           CallRows, OpenerRows, OwnedIsThere, OwnersDiffer, NoneIsLeaked
<1>1. CASE TakeSpare(o)
  BY <1>1 DEF TakeSpare
<1>2. CASE Adopt(o)
  BY <1>2 DEF Adopt, Prewarm
<1>3. CASE AdoptFails(o)
  BY <1>3 DEF AdoptFails, Dropped
<1>4. CASE SpawnShared(o)
  BY <1>4 DEF SpawnShared
<1>5. CASE Go(o)
  BY <1>5 DEF Go, Prewarm
<1>6. CASE Finish(o)
  BY <1>6 DEF Finish, Dropped
<1> QED  BY <1>1, <1>2, <1>3, <1>4, <1>5, <1>6

LEMMA OpenerRowsCall ==
    ASSUME OwnerInv, NEW c \in Calls, CallStep(c) \/ WaiterReads(c)
    PROVE  OpenerRows'
<1> USE SpareAssumption DEF OwnerInv, ClaimInv, TypeOK, PidKnown, Keeps, Goto, slot,
           CallRows, OpenerRows, OwnedIsThere, OwnersDiffer, NoneIsLeaked
<1>1. CASE Check(c)
  BY <1>1 DEF Check, Taken
<1>2. CASE Prespawn(c)
  BY <1>2 DEF Prespawn
<1>3. CASE Unclaim(c)
  BY <1>3 DEF Unclaim
<1>4. CASE Register(c)
  BY <1>4 DEF Register
<1>5. CASE StartWaiter(c)
  BY <1>5 DEF StartWaiter, Dropped
<1>6. CASE Receive(c)
  BY <1>6 DEF Receive
<1>7. CASE Clear(c)
  BY <1>7 DEF Clear, Cleared
<1>8. CASE Kill(c)
  BY <1>8 DEF Kill, Signalled
<1>9. CASE PublishSpare(c)
  BY <1>9 DEF PublishSpare, Dropped
<1>10. CASE WaiterReads(c)
  BY <1>10 DEF WaiterReads, Dropped
<1> QED  BY <1>1, <1>2, <1>3, <1>4, <1>5, <1>6, <1>7, <1>8, <1>9, <1>10
          DEF CallStep

LEMMA OpenerRowsOpener ==
    ASSUME OwnerInv, NEW o \in Openers,
           \/ TakeSpare(o) \/ Adopt(o) \/ AdoptFails(o)
           \/ SpawnShared(o) \/ Go(o) \/ Finish(o)
    PROVE  OpenerRows'
<1> USE SpareAssumption DEF OwnerInv, ClaimInv, TypeOK, PidKnown, Keeps, Goto, slot,
           CallRows, OpenerRows, OwnedIsThere, OwnersDiffer, NoneIsLeaked
<1>1. CASE TakeSpare(o)
  BY <1>1 DEF TakeSpare
<1>2. CASE Adopt(o)
  BY <1>2 DEF Adopt, Prewarm
<1>3. CASE AdoptFails(o)
  BY <1>3 DEF AdoptFails, Dropped
<1>4. CASE SpawnShared(o)
  BY <1>4 DEF SpawnShared
<1>5. CASE Go(o)
  BY <1>5 DEF Go, Prewarm
<1>6. CASE Finish(o)
  BY <1>6 DEF Finish, Dropped
<1> QED  BY <1>1, <1>2, <1>3, <1>4, <1>5, <1>6

LEMMA OwnedIsThereCall ==
    ASSUME OwnerInv, NEW c \in Calls, CallStep(c) \/ WaiterReads(c)
    PROVE  OwnedIsThere'
<1> USE SpareAssumption DEF OwnerInv, ClaimInv, TypeOK, PidKnown, Keeps, Goto, slot,
           CallRows, OpenerRows, OwnedIsThere, OwnersDiffer, NoneIsLeaked
<1>1. CASE Check(c)
  BY <1>1 DEF Check, Taken
<1>2. CASE Prespawn(c)
  BY <1>2 DEF Prespawn
<1>3. CASE Unclaim(c)
  BY <1>3 DEF Unclaim
<1>4. CASE Register(c)
  BY <1>4 DEF Register
<1>5. CASE StartWaiter(c)
  BY <1>5 DEF StartWaiter, Dropped
<1>6. CASE Receive(c)
  BY <1>6 DEF Receive
<1>7. CASE Clear(c)
  BY <1>7 DEF Clear, Cleared
<1>8. CASE Kill(c)
  BY <1>8 DEF Kill, Signalled
<1>9. CASE PublishSpare(c)
  BY <1>9 DEF PublishSpare, Dropped
<1>10. CASE WaiterReads(c)
  BY <1>10 DEF WaiterReads, Dropped
<1> QED  BY <1>1, <1>2, <1>3, <1>4, <1>5, <1>6, <1>7, <1>8, <1>9, <1>10
          DEF CallStep

LEMMA OwnedIsThereOpener ==
    ASSUME OwnerInv, NEW o \in Openers,
           \/ TakeSpare(o) \/ Adopt(o) \/ AdoptFails(o)
           \/ SpawnShared(o) \/ Go(o) \/ Finish(o)
    PROVE  OwnedIsThere'
<1> USE SpareAssumption DEF OwnerInv, ClaimInv, TypeOK, PidKnown, Keeps, Goto, slot,
           CallRows, OpenerRows, OwnedIsThere, OwnersDiffer, NoneIsLeaked
<1>1. CASE TakeSpare(o)
  BY <1>1 DEF TakeSpare
<1>2. CASE Adopt(o)
  BY <1>2 DEF Adopt, Prewarm
<1>3. CASE AdoptFails(o)
  BY <1>3 DEF AdoptFails, Dropped
<1>4. CASE SpawnShared(o)
  BY <1>4 DEF SpawnShared
<1>5. CASE Go(o)
  BY <1>5 DEF Go, Prewarm
<1>6. CASE Finish(o)
  BY <1>6 DEF Finish, Dropped
<1> QED  BY <1>1, <1>2, <1>3, <1>4, <1>5, <1>6

LEMMA OwnersDifferCall ==
    ASSUME OwnerInv, NEW c \in Calls, CallStep(c) \/ WaiterReads(c)
    PROVE  OwnersDiffer'
<1> USE SpareAssumption DEF OwnerInv, ClaimInv, TypeOK, PidKnown, Keeps, Goto, slot,
           CallRows, OpenerRows, OwnedIsThere, OwnersDiffer, NoneIsLeaked
<1>1. CASE Check(c)
  BY <1>1 DEF Check, Taken
<1>2. CASE Prespawn(c)
  BY <1>2 DEF Prespawn
<1>3. CASE Unclaim(c)
  BY <1>3 DEF Unclaim
<1>4. CASE Register(c)
  BY <1>4 DEF Register
<1>5. CASE StartWaiter(c)
  BY <1>5 DEF StartWaiter, Dropped
<1>6. CASE Receive(c)
  BY <1>6 DEF Receive
<1>7. CASE Clear(c)
  BY <1>7 DEF Clear, Cleared
<1>8. CASE Kill(c)
  BY <1>8 DEF Kill, Signalled
<1>9. CASE PublishSpare(c)
  BY <1>9 DEF PublishSpare, Dropped
<1>10. CASE WaiterReads(c)
  BY <1>10 DEF WaiterReads, Dropped
<1> QED  BY <1>1, <1>2, <1>3, <1>4, <1>5, <1>6, <1>7, <1>8, <1>9, <1>10
          DEF CallStep

LEMMA OwnersDifferOpener ==
    ASSUME OwnerInv, NEW o \in Openers,
           \/ TakeSpare(o) \/ Adopt(o) \/ AdoptFails(o)
           \/ SpawnShared(o) \/ Go(o) \/ Finish(o)
    PROVE  OwnersDiffer'
<1> USE SpareAssumption DEF OwnerInv, ClaimInv, TypeOK, PidKnown, Keeps, Goto, slot,
           CallRows, OpenerRows, OwnedIsThere, OwnersDiffer, NoneIsLeaked
<1>1. CASE TakeSpare(o)
  BY <1>1 DEF TakeSpare
<1>2. CASE Adopt(o)
  BY <1>2 DEF Adopt, Prewarm
<1>3. CASE AdoptFails(o)
  BY <1>3 DEF AdoptFails, Dropped
<1>4. CASE SpawnShared(o)
  BY <1>4 DEF SpawnShared
<1>5. CASE Go(o)
  BY <1>5 DEF Go, Prewarm
<1>6. CASE Finish(o)
  BY <1>6 DEF Finish, Dropped
<1> QED  BY <1>1, <1>2, <1>3, <1>4, <1>5, <1>6

LEMMA NoneIsLeakedCall ==
    ASSUME OwnerInv, NEW c \in Calls, CallStep(c) \/ WaiterReads(c)
    PROVE  NoneIsLeaked'
<1> USE SpareAssumption DEF OwnerInv, ClaimInv, TypeOK, PidKnown, Keeps, Goto, slot,
           CallRows, OpenerRows, OwnedIsThere, OwnersDiffer, NoneIsLeaked
<1>1. CASE Check(c)
  BY <1>1 DEF Check, Taken
<1>2. CASE Prespawn(c)
  BY <1>2 DEF Prespawn
<1>3. CASE Unclaim(c)
  BY <1>3 DEF Unclaim
<1>4. CASE Register(c)
  BY <1>4 DEF Register
<1>5. CASE StartWaiter(c)
  BY <1>5 DEF StartWaiter, Dropped
<1>6. CASE Receive(c)
  BY <1>6 DEF Receive
<1>7. CASE Clear(c)
  BY <1>7 DEF Clear, Cleared
<1>8. CASE Kill(c)
  BY <1>8 DEF Kill, Signalled
<1>9. CASE PublishSpare(c)
  BY <1>9 DEF PublishSpare, Dropped
<1>10. CASE WaiterReads(c)
  BY <1>10 DEF WaiterReads, Dropped
<1> QED  BY <1>1, <1>2, <1>3, <1>4, <1>5, <1>6, <1>7, <1>8, <1>9, <1>10
          DEF CallStep

LEMMA NoneIsLeakedOpener ==
    ASSUME OwnerInv, NEW o \in Openers,
           \/ TakeSpare(o) \/ Adopt(o) \/ AdoptFails(o)
           \/ SpawnShared(o) \/ Go(o) \/ Finish(o)
    PROVE  NoneIsLeaked'
<1> USE SpareAssumption DEF OwnerInv, ClaimInv, TypeOK, PidKnown, Keeps, Goto, slot,
           CallRows, OpenerRows, OwnedIsThere, OwnersDiffer, NoneIsLeaked
<1>1. CASE TakeSpare(o)
  BY <1>1 DEF TakeSpare
<1>2. CASE Adopt(o)
  BY <1>2 DEF Adopt, Prewarm
<1>3. CASE AdoptFails(o)
  BY <1>3 DEF AdoptFails, Dropped
<1>4. CASE SpawnShared(o)
  BY <1>4 DEF SpawnShared
<1>5. CASE Go(o)
  BY <1>5 DEF Go, Prewarm
<1>6. CASE Finish(o)
  BY <1>6 DEF Finish, Dropped
<1> QED  BY <1>1, <1>2, <1>3, <1>4, <1>5, <1>6

LEMMA InitOwners == Init => OwnerInv
<1> SUFFICES ASSUME Init  PROVE OwnerInv
  OBVIOUS
<1>1. \A c \in Calls : ~Keeps(c)
  BY DEF Init, Keeps
<1> QED
  BY <1>1, InitEstablishes
     DEF Init, OwnerInv, CallRows, OpenerRows, OwnedIsThere, OwnersDiffer, NoneIsLeaked

LEMMA StepKeepsOwners == OwnerInv /\ [Next]_vars => OwnerInv'
<1> SUFFICES ASSUME OwnerInv, [Next]_vars  PROVE OwnerInv'
  OBVIOUS
<1> DEFINE Parts == CallRows /\ OpenerRows /\ OwnedIsThere /\ OwnersDiffer /\ NoneIsLeaked
<1>1. ClaimInv'
  BY StepKeeps DEF OwnerInv
<1>2. ASSUME NEW c \in Calls, CallStep(c) \/ WaiterReads(c)  PROVE Parts'
  BY <1>2, CallRowsCall, OpenerRowsCall, OwnedIsThereCall, OwnersDifferCall, NoneIsLeakedCall
<1>3. ASSUME NEW o \in Openers, TakeSpare(o) \/ Adopt(o) \/ AdoptFails(o)
                                \/ SpawnShared(o) \/ Go(o) \/ Finish(o)
      PROVE  Parts'
  BY <1>3, CallRowsOpener, OpenerRowsOpener, OwnedIsThereOpener, OwnersDifferOpener,
     NoneIsLeakedOpener
<1> USE DEF OwnerInv, ClaimInv, TypeOK, CallRows, OpenerRows, OwnedIsThere, OwnersDiffer,
            NoneIsLeaked, Keeps
<1>4. ASSUME ServiceStarts  PROVE Parts'
  BY <1>4 DEF ServiceStarts, Goto, slot
<1>5. ASSUME NEW p \in Pids, Die(p)  PROVE Parts'
  BY <1>5 DEF Die, slot
<1>6. ASSUME UNCHANGED vars  PROVE Parts'
  BY <1>6 DEF vars, slot
<1>7. Parts'
  BY <1>2, <1>3, <1>4, <1>5, <1>6 DEF Next, WarmedUp, PipeCloses
<1> QED  BY <1>1, <1>7

\* From the pieces to the count.
LEMMA OneOwnerEach == OwnerInv => SparesHaveOneOwner
<1> SUFFICES ASSUME OwnerInv, NEW p \in Pids
             PROVE  LET owners ==
                            {<<"call", c>> : c \in {d \in Calls : Keeps(d) /\ pid[d] = p}}
                            \cup {<<"opener", o>> : o \in {q \in Openers : holds[q] = p}}
                            \cup (IF ready = p THEN {<<"slot", 0>>} ELSE {})
                    IN  Cardinality(owners) = IF proc[p] = "free" THEN 0 ELSE 1
  BY DEF SparesHaveOneOwner
<1> DEFINE C == {d \in Calls : Keeps(d) /\ pid[d] = p}
<1> DEFINE O == {q \in Openers : holds[q] = p}
<1> DEFINE S == IF ready = p THEN {<<"slot", 0>>} ELSE {}
<1> DEFINE owners == {<<"call", c>> : c \in C} \cup {<<"opener", o>> : o \in O} \cup S
<1> USE SpareAssumption DEF OwnerInv, OwnedIsThere, OwnersDiffer, NoneIsLeaked
<1>1. p # NoPid
  OBVIOUS
<1>2. CASE proc[p] = "free"
  <2>1. owners = {}
    BY <1>1, <1>2
  <2> QED  BY <1>2, <2>1, FS_EmptySet
<1>3. CASE proc[p] # "free"
  <2>1. CASE \E c \in Calls : Keeps(c) /\ pid[c] = p
    <3>1. PICK c \in Calls : Keeps(c) /\ pid[c] = p
      BY <2>1
    <3>2. C = {c} /\ O = {} /\ S = {}
      BY <1>1, <3>1
    <3> HIDE DEF C, O, S
    <3>3. owners = {<<"call", c>>}
      BY <3>2
    <3> QED  BY <1>3, <3>3, FS_Singleton DEF C, O, S
  <2>2. CASE \E o \in Openers : holds[o] = p
    <3>1. PICK o \in Openers : holds[o] = p
      BY <2>2
    <3>2. C = {} /\ O = {o} /\ S = {}
      BY <1>1, <3>1
    <3> HIDE DEF C, O, S
    <3>3. owners = {<<"opener", o>>}
      BY <3>2
    <3> QED  BY <1>3, <3>3, FS_Singleton DEF C, O, S
  <2>3. CASE ready = p
    <3>1. C = {} /\ O = {} /\ S = {<<"slot", 0>>}
      BY <1>1, <2>3
    <3> HIDE DEF C, O, S
    <3>2. owners = {<<"slot", 0>>}
      BY <3>1
    <3> QED  BY <1>3, <3>2, FS_Singleton DEF C, O, S
  <2> QED  BY <1>3, <2>1, <2>2, <2>3
<1> QED  BY <1>2, <1>3

\* No worker made ahead is leaked or owned twice, whichever of the deadline, a
\* death, a late answer and an adoption comes first: a process that is not
\* reaped is kept by one call of prewarm, the slot or an opener, for every
\* number of them (Workers::settled, take_spare, adopt_or_spawn).
THEOREM SpareOwnedOnce == Spec => []SparesHaveOneOwner
<1>1. Spec => []OwnerInv
  BY InitOwners, StepKeepsOwners, PTL DEF Spec
<1> QED  BY <1>1, OneOwnerEach, PTL
=============================================================================
