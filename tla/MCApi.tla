------------------------------- MODULE MCApi ------------------------------
(* Two threads for TLC, one of which opens and closes the router and sets   *)
(* its modes, and a queue that the other one and a session begin can fill.  *)
EXTENDS Api

CONSTANTS c1, c2
=============================================================================
