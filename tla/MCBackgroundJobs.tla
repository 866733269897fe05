--------------------------- MODULE MCBackgroundJobs ---------------------------
(* BackgroundJobs with its bounds, for TLC. *)
EXTENDS BackgroundJobs
=============================================================================
