----------------------------- MODULE MCLimiter ------------------------------
(* Instances of Limiter for TLC. *)
EXTENDS Limiter, TLC

Symmetry == Permutations(Clients) \cup Permutations(ChainNames)
=============================================================================
