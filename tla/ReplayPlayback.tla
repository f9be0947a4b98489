--------------------------- MODULE ReplayPlayback ---------------------------
(***************************************************************************)
(* What one viewer is promised of a replay: it is created at the first     *)
(* frame, next moves it one frame forward and completes it at the last,    *)
(* finish completes it at once, a completed replay stays where it is, and  *)
(* a frame's commentary is kept until a newer one replaces it.  A range    *)
(* shorter than a frame makes a replay without any, which its first step   *)
(* completes.                                                              *)
(***************************************************************************)
EXTENDS Integers

CONSTANTS
  Authors,    \* whoever may write a commentary
  MaxFrames,  \* the longest replay
  NULL        \* no commentary

VARIABLES
  state,      \* "absent", "idle", "playing" or "completed"
  frame,      \* the frame shown
  total,      \* the number of frames
  comments    \* the commentary on each frame

vars == <<state, frame, total, comments>>

Init ==
  /\ state = "absent"
  /\ frame = 0
  /\ total = 0
  /\ comments = [i \in 0 .. MaxFrames - 1 |-> NULL]

Create ==
  /\ state = "absent"
  /\ state' = "idle"
  /\ frame' = 0
  /\ total' \in 0 .. MaxFrames
  /\ UNCHANGED comments

Step ==
  /\ state \in {"idle", "playing"}
  /\ IF frame + 1 < total - 1
     THEN state' = "playing" /\ frame' = frame + 1
     ELSE state' = "completed" /\ frame' = total - 1
  /\ UNCHANGED <<total, comments>>

Finish ==
  /\ state # "absent"
  /\ state' = "completed"
  /\ frame' = total - 1
  /\ UNCHANGED <<total, comments>>

Annotate(i, a) ==
  /\ state # "absent"
  /\ i < total
  /\ comments' = [comments EXCEPT ![i] = a]
  /\ UNCHANGED <<state, frame, total>>

Next ==
  \/ Create
  \/ Step
  \/ Finish
  \/ \E i \in 0 .. MaxFrames - 1, a \in Authors : Annotate(i, a)

Spec == Init /\ [][Next]_vars
=============================================================================
