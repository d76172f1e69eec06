------------------------------- MODULE Listing -------------------------------
(***************************************************************************)
(* Sequences made of a set and an order on it: what sort() and filter() do *)
(* with the indices of an array.                                           *)
(***************************************************************************)
EXTENDS Naturals, FiniteSets

\* The members of S in the order less, a set of pairs: the n-th of them has
\* n - 1 below it.
Listed(S, less) ==
  [n \in 1 .. Cardinality(S) |->
     CHOOSE x \in S : Cardinality({y \in S : <<y, x>> \in less}) + 1 = n]

\* The indices that a filter keeps, in their own order.
Filtered(S) == Listed(S, {p \in S \X S : p[1] < p[2]})
=============================================================================
