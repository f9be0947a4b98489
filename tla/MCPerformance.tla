---------------------------- MODULE MCPerformance ---------------------------
(* Performance on small sets, for TLC. *)
EXTENDS Performance

\* Out at 8 it is one R lost, out at 13 one and a half won.
OnePlan ==
  {[asset |-> "a", direction |-> "LONG", entry |-> 10, stop |-> 8, target |-> 13]}
=============================================================================
