---------------------------- MODULE MCEmailOutbox ----------------------------
(* Small instances of EmailOutbox for TLC. *)
EXTENDS EmailOutbox, TLC

\* Addresses are only compared: any permutation of them is the same state.
Symmetry == Permutations(Addresses)
=============================================================================
