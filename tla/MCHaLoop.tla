------------------------------ MODULE MCHaLoop ------------------------------
(* HaLoop on two nodes; the bounds are in the .cfg files.                   *)
EXTENDS HaLoop, TLC

CONSTANTS a, b

MCNode == {a, b}
Symmetry == Permutations(MCNode)
=============================================================================
