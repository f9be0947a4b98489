--------------------------- MODULE MCContextMemory --------------------------
(* ContextMemory on small sets, for TLC. *)
EXTENDS ContextMemory, TLC

\* Requests are told apart only by what they do: sound for the safety runs.
Symmetry == Permutations(Requests)
=============================================================================
