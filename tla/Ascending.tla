------------------------------ MODULE Ascending ------------------------------
(***************************************************************************)
(* A finite set of integers in ascending order: what a loop that goes      *)
(* through a list and keeps some of its items has kept.                    *)
(***************************************************************************)
EXTENDS Naturals, FiniteSets

\* The k-th member of I.
Nth(I, k) == CHOOSE i \in I : Cardinality({j \in I : j <= i}) = k

InOrder(I) == [k \in 1..Cardinality(I) |-> Nth(I, k)]
=============================================================================
