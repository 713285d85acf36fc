-------------------------- MODULE WorkerRuntimeMC --------------------------
(* TLC instance of WorkerRuntime.                                          *)
EXTENDS WorkerRuntime, TLC

CONSTANTS k1, k2, w1, w2

RowSymmetry == Permutations({k1, k2}) \cup Permutations({w1, w2})

=============================================================================
