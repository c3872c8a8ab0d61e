---------------------------- MODULE Subsequences ----------------------------
(***************************************************************************)
(* The elements of a sequence at a set of positions: what filter leaves of *)
(* an array.  It is written without recursion, so that it can be proved    *)
(* about.                                                                  *)
(***************************************************************************)
EXTENDS Integers, Sequences, FiniteSets

\* How many of the positions P come up to i.
Rank(P, i) == Cardinality({k \in P : k <= i})

\* The elements of s at the positions P, in the order they have in s.
Keep(s, P) ==
  [n \in 1..Cardinality(P) |-> s[CHOOSE i \in P : Rank(P, i) = n]]
=============================================================================
