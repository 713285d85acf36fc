---------------------------- MODULE TaskQueueMC ----------------------------
(* TLC instance of TaskQueue.                                              *)
EXTENDS TaskQueue, TLC

CONSTANTS k1, k2, w1, w2

\* Workers are interchangeable: no action or property names one.
WorkerSymmetry == Permutations({w1, w2})

=============================================================================
