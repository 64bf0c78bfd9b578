------------------------------ MODULE SyncCall ----------------------------
(***************************************************************************)
(* What the router's blocking functions promise to their callers: a call   *)
(* returns only after the router has served its request, the router serves *)
(* a request once, and only while its caller waits for it, and the audio   *)
(* device's modes change only when a request is served or the device is    *)
(* created.                                                                *)
(***************************************************************************)

CONSTANT Threads

VARIABLES
    request,   \* what became of the request of each thread
    device,    \* the audio device exists
    modes      \* the modes it is in

vars == <<request, device, modes>>

Init ==
    /\ request = [t \in Threads |-> "none"]
    /\ device = FALSE

Moves(t, from, to) ==
    /\ request[t] = from
    /\ request' = [request EXCEPT ![t] = to]
    /\ UNCHANGED device

Request(t) == Moves(t, "none", "pending") /\ UNCHANGED modes

Serve(t) == Moves(t, "pending", "served")

Return(t) == Moves(t, "served", "none") /\ UNCHANGED modes

Create ==
    /\ ~device
    /\ device' = TRUE
    /\ UNCHANGED request

Destroy ==
    /\ device
    /\ device' = FALSE
    /\ UNCHANGED request

Next ==
    \/ \E t \in Threads : Request(t) \/ Serve(t) \/ Return(t)
    \/ Create
    \/ Destroy

Spec == Init /\ [][Next]_vars
=============================================================================
