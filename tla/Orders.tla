-------------------------------- MODULE Orders --------------------------------
(* How the code sorts: Array.sort by a comparison that tells all members apart, *)
(* since the sort is stable and the place in the list counts last.             *)
EXTENDS Integers, FiniteSets

\* The members of a finite set by a rank that no two of them share.
InOrder(S, rank) ==
  CHOOSE order \in [1..Cardinality(S) -> S] :
    \A m, n \in DOMAIN order : m < n => rank[order[m]] < rank[order[n]]
===============================================================================
