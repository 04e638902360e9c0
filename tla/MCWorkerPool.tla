---------------------------- MODULE MCWorkerPool ----------------------------
(***************************************************************************)
(* WorkerPool for the runs without liveness: which task or worker name is  *)
(* which makes no difference, so states that differ only in that are one.  *)
(***************************************************************************)
EXTENDS WorkerPool, TLC

Interchangeable == Permutations(Tasks) \cup Permutations(Names)

=============================================================================
