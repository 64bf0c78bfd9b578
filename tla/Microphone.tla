----------------------------- MODULE Microphone -----------------------------
(***************************************************************************)
(* What the router promises about the microphones.  The sources of a group *)
(* share one audio path.  A session takes the path for its source, records *)
(* at most one stream, stops recording, and only then frees the path: a    *)
(* path never passes from one session to the next while audio is still     *)
(* recorded, and is never recorded for nobody.  The one exception is a     *)
(* stuck stream, one that would not stop when its session stopped it: it   *)
(* may run on until it stops or the next stream takes its place.  The      *)
(* paths of different groups do not hinder each other.                     *)
(***************************************************************************)
CONSTANTS Groups, Sources, None, Group(_)

VARIABLE path   \* per group: the session that has it, its stage, and whether
                \* a stream is stuck

Stages == {"free", "taken", "recording", "recorded"}

Free == [src |-> None, stage |-> "free", stuck |-> FALSE]

Init == path = [g \in Groups |-> Free]

\* The path goes to a session and a stage.  A stream gets stuck only as it is
\* stopped, and a new one takes its place.
Goes(g, src, stage) ==
    \E stuck \in BOOLEAN :
      /\ path'[g] = [src |-> src, stage |-> stage, stuck |-> stuck]
      /\ stuck => /\ stage # "recording"
                  /\ path[g].stuck \/ path[g].stage = "recording"

\* What one step may make of a path.
Take(g) ==
    /\ path[g].stage = "free"
    /\ \E src \in {s \in Sources : Group(s) = g},
          stage \in {"taken", "recording"} : Goes(g, src, stage)

Record(g) == path[g].stage = "taken" /\ Goes(g, path[g].src, "recording")

Stop(g) == path[g].stage = "recording" /\ Goes(g, path[g].src, "recorded")

\* The session ends; a stream that still records is stopped with it.
Release(g) == path[g].stage # "free" /\ Goes(g, None, "free")

Keep(g) == Goes(g, path[g].src, path[g].stage)

Next ==
    /\ path' \in [Groups ->
                 [src : Sources \cup {None}, stage : Stages, stuck : BOOLEAN]]
    /\ \A g \in Groups :
         Take(g) \/ Record(g) \/ Stop(g) \/ Release(g) \/ Keep(g)

Spec == Init /\ [][Next]_path
=============================================================================
