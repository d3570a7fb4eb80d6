---------------------------- MODULE Subsequences ----------------------------
(***************************************************************************)
(* The list comprehension [x for x in s if x in S], written with ranks and *)
(* no recursion so that facts about it can be proved.                      *)
(***************************************************************************)
EXTENDS Integers, Sequences, FiniteSets

Places(s, S) == {i \in DOMAIN s : s[i] \in S}

\* The number of the places of s up to i that hold an element of S.
Rank(s, S, i) == Cardinality({j \in Places(s, S) : j <= i})

\* The k-th of them.
Place(s, S, k) == CHOOSE i \in Places(s, S) : Rank(s, S, i) = k

Where(s, S) == [k \in 1..Cardinality(Places(s, S)) |-> s[Place(s, S, k)]]
=============================================================================
