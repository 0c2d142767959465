----------------------------- MODULE OrderedLists -----------------------------
(***************************************************************************)
(* Sums of lists and lists in order, for EstimateStages and Retrieval.     *)
(***************************************************************************)
EXTENDS Naturals, Sequences, FiniteSets

Sum(s) ==
  LET to[n \in 0..Len(s)] == IF n = 0 THEN 0 ELSE to[n - 1] + s[n]
  IN to[Len(s)]

\* The elements of S, each behind those that R, a set of pairs, puts before it.
InOrder(S, R) ==
  LET ranked == {<<x, Cardinality({y \in S : <<y, x>> \in R})>> : x \in S}
  IN [k \in 1..Cardinality(S) |-> (CHOOSE r \in ranked : r[2] = k - 1)[1]]

\* The elements of a list that stand at the given places.
Those(s, places) ==
  LET order == InOrder(places, {p \in places \X places : p[1] < p[2]})
  IN [k \in 1..Cardinality(places) |-> s[order[k]]]
=============================================================================
