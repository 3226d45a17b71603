----------------------------- MODULE MCWorkerLease -----------------------------
(* Instances of WorkerLease for TLC; the cfgs give the constants. *)
EXTENDS WorkerLease, TLC

\* Windows are interchangeable.
Interchangeable == Permutations(Window)
================================================================================
