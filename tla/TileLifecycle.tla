---------------------------- MODULE TileLifecycle ----------------------------
(***************************************************************************)
(* What the tile service promises its page about each request, one at a    *)
(* time and with no tables, threads or processes: a request waits, is      *)
(* rendered or not, and a withdrawal is final from the moment it is made.  *)
(***************************************************************************)
CONSTANT Req

VARIABLES phase,     \* phase[r]: where request r is, and how it ended
          unwanted   \* the requests withdrawn so far

vars == <<phase, unwanted>>

Phases == {"unasked", "queued", "running", "rendered", "abandoned", "failed"}

TypeOK == phase \in [Req -> Phases] /\ unwanted \subseteq Req

Init == phase = [r \in Req |-> "unasked"] /\ unwanted = {}

Move(r, from, to) == phase[r] = from /\ phase' = [phase EXCEPT ![r] = to]

Ask(r) == Move(r, "unasked", "queued") /\ UNCHANGED unwanted

Withdraw(r) ==
    /\ phase[r] # "unasked"
    /\ unwanted' = unwanted \cup {r}
    /\ UNCHANGED phase

\* An unwanted request never starts: it is dropped from the queue instead.
Start(r) == r \notin unwanted /\ Move(r, "queued", "running") /\ UNCHANGED unwanted

Drop(r) == r \in unwanted /\ Move(r, "queued", "abandoned") /\ UNCHANGED unwanted

\* The service is gone.
Refuse(r) == Move(r, "queued", "failed") /\ UNCHANGED unwanted

\* Only a wanted request ends in a tile, and only an unwanted one is given up.
Finish(r) ==
    /\ \/ r \notin unwanted /\ Move(r, "running", "rendered")
       \/ r \in unwanted /\ Move(r, "running", "abandoned")
       \/ Move(r, "running", "failed")
    /\ UNCHANGED unwanted

Next == \E r \in Req : \/ Ask(r) \/ Withdraw(r) \/ Start(r)
                       \/ Drop(r) \/ Refuse(r) \/ Finish(r)

Spec == Init /\ [][Next]_vars
=============================================================================
