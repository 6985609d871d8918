------------------------------- MODULE Orders -------------------------------
(* Data in an order: what the code does with sorted vectors and with filters
   and searches that go through a vector from the front. *)
EXTENDS Integers, FiniteSets

\* The elements of a finite set in the order R, a set of pairs; those of a
\* sequence at the indices in I, in their order; and the first of some indices.
InOrder(S, R) == [k \in 1..Cardinality(S) |-> CHOOSE x \in S : Cardinality({y \in S : <<y, x>> \in R}) = k - 1]
ElementsAt(s, I) == LET at == InOrder(I, {p \in I \X I : p[1] < p[2]}) IN [k \in DOMAIN at |-> s[at[k]]]
FirstOf(I) == CHOOSE i \in I : \A j \in I : i <= j
=============================================================================
