--------------------------- MODULE MCEventDelivery --------------------------
(* EventDelivery on small sets, for TLC. *)
EXTENDS EventDelivery, TLC

\* Every change is announced on the first channel.
OneChannel == [e \in Changes |-> "trading"]

\* Client ids are drawn at random: sound for the safety runs.
Symmetry == Permutations(Clients)
=============================================================================
