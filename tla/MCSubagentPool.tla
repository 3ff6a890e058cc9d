--------------------------- MODULE MCSubagentPool ---------------------------
(* Constants for model checking SubagentPool. *)
EXTENDS SubagentPool, TLC

CONSTANTS p1, p2, plain, guarded, spawn, off, other

OneParent  == {p1}
TwoParents == {p1, p2}

\* A tool of each kind a worker must tell apart: free to use, guarded, able to
\* spawn, switched off by the policy, and not listed by the delegation.
AllTools == {plain, guarded, spawn, off, other}
Listed   == {plain, guarded, spawn, off}

\* One kind of delegation per parent: what the scheduling depends on.
PlainRequests ==
  [parent : Parent, tools : {{plain}}, consent : {FALSE}]

\* A delegation that lists every kind of tool: p1 consents, p2 does not.
MixedRequests ==
  {[parent |-> p, tools |-> Listed, consent |-> p = p1] : p \in Parent}

\* Both parents delegate; under cancels only one delegation is of the consenting one.
\* Where the pool is cancelled or closed two ids are enough and no restart follows.
Used == {s \in Sub : status'[s] # "absent"}
MCInit ==
  /\ Init
  /\ Cardinality({s \in Sub : request[s].consent}) \in IF "cancel" \in event THEN {1} ELSE {1, 2}
MCStep == event \cap {"cancel", "close"} # {} => Cardinality(Used) <= 2 /\ restarts' = 0
MCSpec == MCInit /\ [][Next]_vars

SubSymmetry == Permutations(Sub)
=============================================================================
