---------------------------- MODULE MCSpscQueue ----------------------------
(* Instances of SpscQueue for TLC.                                         *)
EXTENDS SpscQueue, TLC

CONSTANTS a, b

MCValues == {a, b}
Symmetry == Permutations(MCValues)
=============================================================================
