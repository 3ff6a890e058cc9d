----------------------------- MODULE MCScheduler -----------------------------
(* Constants for model checking Scheduler. *)
EXTENDS Scheduler
=============================================================================
