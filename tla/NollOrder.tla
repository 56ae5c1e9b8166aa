------------------------------ MODULE NollOrder -----------------------------
(***************************************************************************)
(* Sorting, as the quick sort of the tables of the boolean abstraction     *)
(* (noll2sat.c) and the insertion sort of the edges of a graph             *)
(* (noll_hom.c) do it: by the elements that come before each element.      *)
(***************************************************************************)
EXTENDS Integers, FiniteSets

(* The elements of S in an order R, a set of pairs.                        *)
Ranked(S, R) ==
  [n \in 1 .. Cardinality(S) |->
     CHOOSE e \in S : Cardinality({d \in S : <<d, e>> \in R}) = n - 1]

=============================================================================
