------------------------------- MODULE Ranks -------------------------------
(***************************************************************************)
(* The elements of a finite set of numbers in order: how a bitmap, an      *)
(* inode or a page table is gone through from its start.                   *)
(***************************************************************************)
EXTENDS Integers, FiniteSets

\* The elements of a set of numbers by rank, from 0.
Rank(S, x) == Cardinality({y \in S : y < x})
Nth(S, i) == CHOOSE x \in S : Rank(S, x) = i

\* All of them as a sequence.
Sorted(S) == [i \in 1..Cardinality(S) |-> Nth(S, i - 1)]
=============================================================================
