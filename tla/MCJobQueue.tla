----------------------------- MODULE MCJobQueue -----------------------------
(* Constants for model checking JobQueue. *)
EXTENDS JobQueue, TLC

WorkerSymmetry == Permutations(Worker \ OneShot)
=============================================================================
