---------------------------- MODULE DurableQueue ----------------------------
(***************************************************************************)
(* What the job queue promises: a submitted job waits, is worked on, goes  *)
(* back to waiting when the work was in vain, and is done once, for good.  *)
(***************************************************************************)
CONSTANT Job

VARIABLE phase

Init == phase = [j \in Job |-> "absent"]

Move(j, from, to) ==
  /\ phase[j] = from
  /\ phase' = [phase EXCEPT ![j] = to]

Submit(j)   == Move(j, "absent", "waiting")
Take(j)     == Move(j, "waiting", "working")
GiveBack(j) == Move(j, "working", "waiting")
Finish(j)   == Move(j, "working", "done")

Next == \E j \in Job : Submit(j) \/ Take(j) \/ GiveBack(j) \/ Finish(j)

Spec == Init /\ [][Next]_phase
=============================================================================
