------------------------------ MODULE MCScheduler ------------------------------
(* Scheduler with its bounds, for TLC.  Loops are interchangeable in every  *)
(* safety property; symmetry is not used where liveness is checked.         *)
EXTENDS Scheduler, TLC

Symmetry == Permutations(Loops) \cup Permutations(Restarts)
=============================================================================
