------------------------------- MODULE Conn -------------------------------
(***************************************************************************)
(* What one destination connection promises to the router, whatever the    *)
(* protocol behind it (WebSocket, HTTP, SDT).                              *)
(*                                                                         *)
(* The router hands a session to a destination and from then on relies on  *)
(* two calls coming back from the destination's state machine:             *)
(* xrsr_speech_stream_end, which releases the destination's audio pipe and *)
(* lets xraudio stop streaming, and xrsr_session_end, which lets the       *)
(* router release the audio source for the next session.  A destination    *)
(* makes each of them exactly once per session and in that order, and is   *)
(* idle again as soon as the second one is made.                           *)
(***************************************************************************)
EXTENDS Naturals

VARIABLES
    phase,        \* where the destination's session is
    streamEnds,   \* calls of xrsr_speech_stream_end in the latest session
    sessionEnds   \* calls of xrsr_session_end in the latest session

vars == <<phase, streamEnds, sessionEnds>>

Phases == {"idle", "opening", "streaming", "draining"}

Init ==
    /\ phase = "idle"
    /\ streamEnds = 0
    /\ sessionEnds = 0

\* The router hands the destination a session.
Begin ==
    /\ phase = "idle"
    /\ phase' = "opening"
    /\ streamEnds' = 0
    /\ sessionEnds' = 0

\* The server accepted the connection: audio starts to flow.
StartStream ==
    /\ phase = "opening"
    /\ phase' = "streaming"
    /\ UNCHANGED <<streamEnds, sessionEnds>>

\* The stream is over, the connection stays up to collect the answer.
EndStream ==
    /\ phase \in {"opening", "streaming"}
    /\ phase' = "draining"
    /\ streamEnds' = streamEnds + 1
    /\ UNCHANGED sessionEnds

\* The connection is gone: the session is over.
EndSession ==
    /\ phase = "draining"
    /\ phase' = "idle"
    /\ sessionEnds' = sessionEnds + 1
    /\ UNCHANGED streamEnds

\* The stream and the session end together.
Abort ==
    /\ phase \in {"opening", "streaming"}
    /\ phase' = "idle"
    /\ streamEnds' = streamEnds + 1
    /\ sessionEnds' = sessionEnds + 1

Next == Begin \/ StartStream \/ EndStream \/ EndSession \/ Abort

Spec == Init /\ [][Next]_vars
=============================================================================
