-------------------------- MODULE MCHashTableMemory --------------------------
(***************************************************************************)
(* Instantiates HashTableMemory with three objects and three heap blocks,  *)
(* both symmetric (the code never compares two objects or two blocks     *)
(* except for identity).                                                   *)
(***************************************************************************)
EXTENDS HashTableMemory, TLC

CONSTANTS o1, o2, o3, b1, b2, b3

MCObjs == {o1, o2, o3}
MCBlocks == {b1, b2, b3}

Symmetry == Permutations(MCObjs) \cup Permutations(MCBlocks)
=============================================================================
