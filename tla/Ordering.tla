------------------------------ MODULE Ordering ------------------------------
(***************************************************************************)
(* Sorting, as the retrieval and the knowledge graph use it: no two of the *)
(* things they sort have the same key.                                     *)
(***************************************************************************)
EXTENDS Integers, FiniteSets, Sequences

\* The elements of a finite set, each behind those the order puts before it:
\* an order is a set of pairs.
InOrder(S, order) ==
    [i \in 1..Cardinality(S) |->
        CHOOSE x \in S : Cardinality({y \in S : <<y, x>> \in order}) = i - 1]

=============================================================================
