---------------------------- MODULE MCMinerParts ----------------------------
(* MinerParts for TLC.                                                     *)
EXTENDS MinerParts, SequencesExt

\* Workspaces of up to four files in two levels, and texts of up to four units.
MCNames == {1, 2}
MCPaths == {<<a>> : a \in MCNames} \union {<<a, b>> : a, b \in MCNames}
MCWorkspaces == {S \in SUBSET MCPaths : /\ Cardinality(S) \in 0..4
                                        /\ \A p, q \in S : ~IsStrictPrefix(p, q)}
MCUnits == [width : 1..3, whole : {TRUE}] \union [width : 1..2, whole : {FALSE}]
MCTexts == UNION {[1..n -> MCUnits] : n \in 0..4}

\* Four calls to the miner.
MCCalls == 1..4
=============================================================================
