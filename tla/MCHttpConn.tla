---------------------------- MODULE MCHttpConn ----------------------------
(* Two HTTP destinations that share the multi handle, of two sessions each; *)
(* creating the first one's easy handle may fail.                           *)
EXTENDS HttpConn

CONSTANTS c1, c2
=============================================================================
