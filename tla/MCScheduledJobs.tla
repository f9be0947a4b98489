--------------------------- MODULE MCScheduledJobs --------------------------
(* ScheduledJobs on small sets, for TLC. *)
EXTENDS ScheduledJobs, TLC

\* Workers differ in name only: sound for the safety run.
Symmetry == Permutations(Workers)
=============================================================================
