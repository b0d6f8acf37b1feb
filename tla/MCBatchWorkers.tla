--------------------------- MODULE MCBatchWorkers ---------------------------
(* Instances of BatchWorkers for TLC. *)
EXTENDS BatchWorkers

\* The first address has three chains, the others one.
EvmFirst == [a \in Addresses |-> IF a = 1 THEN TypeEVM ELSE TypeBTC]
=============================================================================
