--------------------------- MODULE MCReplayControl --------------------------
(* ReplayControl on small sets, for TLC. *)
EXTENDS ReplayControl, TLC

\* Requests are told apart only by what they do: sound for the safety runs.
Symmetry == Permutations(Requests)
=============================================================================
