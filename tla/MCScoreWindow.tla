---------------------------- MODULE MCScoreWindow ----------------------------
(* ScoreWindow for TLC: two uids, three hotkeys, windows of one and two    *)
(* observations, and score files of every kind a first start can find.     *)
EXTENDS ScoreWindow, TLC

\* A file of a release with a larger window, where the miner of uid 1 is not
\* known, and a file of release 1. Every choice of hotkeys is included, so that
\* permuting the hotkeys is a symmetry.
OldWindow(a) ==
    [version |-> 2, size |-> 2, max |-> 3, min |-> 1, upto |-> 0,
     hk |-> (0 :> a @@ 1 :> NoHotkey),
     hist |-> (0 :> [i \in 1..3 |-> [reward |-> i - 1, round |-> 0, owner |-> a]]
               @@ 1 :> <<>>)]
Legacy(a, b) ==
    [version |-> 1, size |-> 2, score |-> (0 :> 0 @@ 1 :> 1), hk |-> (0 :> a @@ 1 :> b)]
MCInitialFiles == {OldWindow(a) : a \in Hotkeys}
                  \cup {Legacy(p[1], p[2]) : p \in {q \in Hotkeys \X Hotkeys : q[1] # q[2]}}

Symmetry == Permutations(Hotkeys)
=============================================================================
