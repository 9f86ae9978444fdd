-------------------------------- MODULE Ranks -------------------------------
(***************************************************************************)
(* Going over the numbers of a set from the lowest, as the code does with  *)
(* the entries of an array that are in use or that a test keeps.           *)
(***************************************************************************)
EXTENDS Naturals, FiniteSets

(* The number in S that has j - 1 below it. *)
Nth(S, j) == CHOOSE x \in S : Cardinality({y \in S : y < x}) = j - 1

(* The elements of s at the indices of a set, in order. *)
Kept(s, at) == [j \in 1 .. Cardinality(at) |-> s[Nth(at, j)]]
=============================================================================
