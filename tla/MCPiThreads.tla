----------------------------- MODULE MCPiThreads -----------------------------
(* PiThreads with its bounds, for TLC. *)
EXTENDS PiThreads
=============================================================================
