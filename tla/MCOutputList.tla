---------------------------- MODULE MCOutputList ----------------------------
(* Small instances of OutputList for TLC.                                  *)
EXTENDS OutputList

CONSTANTS o1, o2, o3, n1, n2, n3

ThreeOutputs == {o1, o2, o3}
ThreeNodes == {n1, n2, n3}

\* Neither an output's identity nor a node's address is told apart anywhere.
Symmetry == Permutations(ThreeOutputs) \cup Permutations(ThreeNodes)
=============================================================================
