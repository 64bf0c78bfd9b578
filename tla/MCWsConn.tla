------------------------------ MODULE MCWsConn -----------------------------
(* A small WebSocket destination for TLC: two sessions, so that what one    *)
(* leaves behind can disturb the next, a connect timeout of two check       *)
(* intervals, room for one outgoing message and one retry of a write.       *)
EXTENDS WsConn
=============================================================================
