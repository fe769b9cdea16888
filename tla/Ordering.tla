------------------------------ MODULE Ordering ------------------------------
(***************************************************************************)
(* The elements of a finite set by rank, the lowest first.                 *)
(***************************************************************************)
EXTENDS Integers, FiniteSets

InOrder(S, rank) ==
  CHOOSE s \in [1..Cardinality(S) -> S] : \A i, j \in 1..Cardinality(S) : i < j => rank[s[i]] < rank[s[j]]

\* Numbers in increasing order.
Turns(S) == InOrder(S, [x \in S |-> x])
=============================================================================
