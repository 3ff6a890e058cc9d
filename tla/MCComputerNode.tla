--------------------------- MODULE MCComputerNode ---------------------------
(* Symmetric processes for the checks of ComputerNode. *)
EXTENDS ComputerNode, TLC

ProcessSymmetry == Permutations(Process)
=============================================================================
