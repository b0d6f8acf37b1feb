----------------------------- MODULE MCScanRuns -----------------------------
(***************************************************************************)
(* Small instances of ScanRuns for TLC.                                    *)
(***************************************************************************)
EXTENDS ScanRuns, TLC

\* One chain per address: the fewest outcomes per result.
BtcOnly == [a \in 1 .. MaxId |-> TypeBTC]

\* The last address has three chains, the others one.
EvmLast == [a \in 1 .. MaxId |-> IF a = MaxId THEN TypeEVM ELSE TypeSOL]

Symmetry == Permutations(Procs) \cup Permutations(Imports)
=============================================================================
