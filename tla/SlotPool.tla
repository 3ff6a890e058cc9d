------------------------------ MODULE SlotPool ------------------------------
(***************************************************************************)
(* What the subagent pool promises its callers, without threads, counters  *)
(* or a store: an id may hold a slot while fewer than GlobalLimit ids do   *)
(* and fewer than PerParentLimit ids of its parent do, and whoever holds a *)
(* slot gives it back.                                                     *)
(***************************************************************************)
EXTENDS Naturals, FiniteSets

CONSTANTS Sub, GlobalLimit, PerParentLimit

VARIABLES parentOf, held

vars == <<parentOf, held>>

Siblings(s) == {t \in held : parentOf[t] = parentOf[s]}

Init == held = {}

Acquire(s) ==
  /\ s \notin held
  /\ Cardinality(held) < GlobalLimit
  /\ Cardinality(Siblings(s)) < PerParentLimit
  /\ held' = held \cup {s}
  /\ UNCHANGED parentOf

Release(s) ==
  /\ s \in held
  /\ held' = held \ {s}
  /\ UNCHANGED parentOf

\* The process holding the slots is replaced by a new one.
Reset ==
  /\ held' = {}
  /\ UNCHANGED parentOf

Next == (\E s \in Sub : Acquire(s) \/ Release(s)) \/ Reset

Spec == Init /\ [][Next]_vars /\ \A s \in Sub : WF_vars(Release(s))
=============================================================================
