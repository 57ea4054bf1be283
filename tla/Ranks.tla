-------------------------------- MODULE Ranks --------------------------------
(***************************************************************************)
(* The elements of a finite set of integers in ascending order: what a      *)
(* query that ends in ORDER BY id returns.                                  *)
(***************************************************************************)
EXTENDS Integers, FiniteSets

Below(S, x) == {y \in S : y < x}

InOrder(S) ==
  [i \in 1..Cardinality(S) |-> CHOOSE x \in S : Cardinality(Below(S, x)) = i - 1]

\* A sequence that goes up and leaves nothing of S out.
Ascends(f, n, S) ==
  /\ f \in [1..n -> S]
  /\ \A i, j \in 1..n : i < j => f[i] < f[j]
  /\ \A x \in S : \E i \in 1..n : f[i] = x
=============================================================================
