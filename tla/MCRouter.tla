------------------------------ MODULE MCRouter ------------------------------
(* Small instances of the router for TLC. *)
EXTENDS Router, TLC

\* A remote control's source and the microphone share a group.
Protocols ==
    [s \in Sources |-> IF s = "RCU_PTT" THEN "WS"
                       ELSE IF s = "MICROPHONE" THEN "HTTP" ELSE "SDT"]

\* All routes are set.
AllRoutes == {[listed |-> Sources, kept |-> Sources]}

\* All routes are set; those of one source are deleted.
Tables ==
    AllRoutes \cup {[listed |-> {s}, kept |-> {}] : s \in Sources \cap {"RCU_PTT"}}

Symmetry == Permutations(Uuids)
=============================================================================
