------------------------------- MODULE MCRound -------------------------------
(* Round for TLC: the pool is the first two or three of three miners.      *)
EXTENDS Round, TLC

CONSTANTS m1, m2, m3
MCOffered == <<m1, m2, m3>>
Symmetry == Permutations(Contents)
=============================================================================
