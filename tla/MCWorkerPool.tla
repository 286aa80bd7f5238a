----------------------------- MODULE MCWorkerPool -----------------------------
(* WorkerPool for TLC: interchangeable threads and pids. *)
EXTENDS WorkerPool, TLC

Symmetry == Permutations(Threads) \cup Permutations(Pids)
=============================================================================
