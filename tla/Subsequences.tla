---------------------------- MODULE Subsequences ----------------------------
(***************************************************************************)
(* The entries of a sequence at some of its positions, in their order.     *)
(* This is SelectSeq without its recursion, so that it can be proved       *)
(* about.                                                                  *)
(***************************************************************************)
EXTENDS Integers, Sequences, FiniteSets

UpTo(positions, i) == {k \in positions : k <= i}

\* The j-th position, counted from the front.
Nth(positions, j) == CHOOSE i \in positions : Cardinality(UpTo(positions, i)) = j

Subsequence(s, positions) == [j \in 1..Cardinality(positions) |-> s[Nth(positions, j)]]
=============================================================================
