-------------------------------- MODULE Lists --------------------------------
(* What the scripts do to lists: keep the items at some places, in order.  *)
EXTENDS Naturals, FiniteSets

Rank(places, i) == Cardinality({j \in places : j <= i})

Kept(list, places) ==
  [k \in 1..Cardinality(places) |-> list[CHOOSE i \in places : Rank(places, i) = k]]
==============================================================================
