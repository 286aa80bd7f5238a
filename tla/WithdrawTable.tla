---------------------------- MODULE WithdrawTable ----------------------------
(***************************************************************************)
(* src-tauri/src/queue.rs: the table of outstanding render requests.       *)
(*                                                                         *)
(* The table is a value and each operation a function of it, because every *)
(* caller holds SharedQueue's lock for exactly one operation.  The render  *)
(* service keeps one table and every worker process keeps its own, so this *)
(* module has no variables.                                                *)
(*                                                                         *)
(* A claim hands out a CancelToken.  A token is named here by its holder,  *)
(* the actor that claimed: inflight maps a request id to the holder of its *)
(* token, and Fired(table, rid) is the set of tokens that a withdrawal of  *)
(* rid sets.                                                               *)
(***************************************************************************)
EXTENDS Naturals

CONSTANTS Rid,      \* the request ids in use; 0 is "not withdrawable"
          Holder,   \* the actors that claim requests
          NoHolder  \* no token registered

Table == [queued : SUBSET Rid, cancelled : SUBSET Rid,
          inflight : [Rid -> Holder \cup {NoHolder}]]

EmptyTable == [queued |-> {}, cancelled |-> {},
               inflight |-> [rid \in Rid |-> NoHolder]]

Enqueue(table, rid) ==
    IF rid = 0 THEN table ELSE [table EXCEPT !.queued = @ \cup {rid}]

\* mutant of Forget: a failed send leaves its id behind
ForgetNothing(table, rid) == table

\* A request whose send failed: nothing will ever claim it.
Forget(table, rid) ==
    [table EXCEPT !.queued = @ \ {rid}, !.cancelled = @ \ {rid}]

Running(table, rid) == table.inflight[rid] # NoHolder

\* mutant of Withdraw: an id that is not queued is remembered
WithdrawRemembered(table, rid) ==
    IF Running(table, rid) THEN table
    ELSE [table EXCEPT !.cancelled = @ \cup {rid}]

\* A running request is withdrawn through its token, a queued one by a mark;
\* an id in neither table is ignored rather than remembered.
Withdraw(table, rid) ==
    IF ~Running(table, rid) /\ rid \in table.queued
    THEN [table EXCEPT !.cancelled = @ \cup {rid}]
    ELSE table

\* mutant of Fired: no token is set
NoToken(table, rid) == {}

Fired(table, rid) ==
    IF Running(table, rid) THEN {table.inflight[rid]} ELSE {}

\* What a claim answers: Claim::Withdrawn, or Claim::Start.
ClaimWithdrawn(table, rid) == rid \in table.cancelled

Claim(table, rid, holder) ==
    LET taken == Forget(table, rid)
    IN  IF ClaimWithdrawn(table, rid) \/ rid = 0 THEN taken
        ELSE [taken EXCEPT !.inflight[rid] = holder]

\* mutant of Release: the claim is never given back
ReleaseNothing(table, rid) == table

Release(table, rid) == [table EXCEPT !.inflight[rid] = NoHolder]
=============================================================================
