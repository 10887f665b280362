------------------------------- MODULE Ordered -------------------------------
(* A finite set of naturals as the sequence of its members in increasing   *)
(* order, and what filtering leaves of a list.                             *)
EXTENDS Naturals, FiniteSets

(* The member of S that i - 1 others precede. *)
Nth(S, i) == CHOOSE x \in S : Cardinality({y \in S : y < x}) = i - 1

InOrder(S) == [i \in 1..Cardinality(S) |-> Nth(S, i)]

(* The list s without the positions outside P. *)
Kept(s, P) == [i \in 1..Cardinality(P) |-> s[Nth(P, i)]]
==============================================================================
