--------------------------- MODULE MCLeaseBudget ---------------------------
(* Instances of LeaseBudget for TLC. *)
EXTENDS LeaseBudget, TLC

CONSTANTS l1, l2

TwoLoops == {l1, l2}
Symmetry == Permutations(TwoLoops)
=============================================================================
