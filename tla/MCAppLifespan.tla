---------------------------- MODULE MCAppLifespan ---------------------------
(* AppLifespan on small sets, for TLC. *)
EXTENDS AppLifespan, TLC

CONSTANTS w1, w2, w3

\* The two processes of the newest image and one of the image before the replay
\* sessions.
Images == (w1 :> Scripts) @@ (w2 :> Scripts) @@ (w3 :> Scripts \ {replay_sessions})
=============================================================================
