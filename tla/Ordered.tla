------------------------------ MODULE Ordered ------------------------------
(***************************************************************************)
(* A finite set put in an order: ORDER BY, and sorting by a comparison.    *)
(* The order is a relation, the pairs <<x, y>> with x before y.            *)
(***************************************************************************)
EXTENDS Naturals, FiniteSets

\* The element at n is the one with n - 1 elements before it.
Sorted(S, Before) ==
    [n \in 1 .. Cardinality(S) |->
        CHOOSE x \in S : Cardinality({y \in S : <<y, x>> \in Before}) = n - 1]

Increasing(S) == {p \in S \X S : p[1] < p[2]}
=============================================================================
