---------------------------- MODULE MCAlgorithms ----------------------------
(* Small instances of the algorithms.                                      *)
EXTENDS Algorithms

MCKeys == <<1, 1, 2, 3>>

MCHashKeys == <<1, 1, 2, 3, 4>>

MCHashes == <<0, 4, 6, 3>>
=============================================================================
