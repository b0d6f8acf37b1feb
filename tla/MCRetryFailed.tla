--------------------------- MODULE MCRetryFailed ----------------------------
(* Instances of RetryFailed for TLC. *)
EXTENDS RetryFailed, TLC

Symmetry == Permutations(Procs)
=============================================================================
