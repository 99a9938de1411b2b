---------------------------- MODULE MCMethodPicks ----------------------------
(* Small catalogs for MethodPicks: one with a gap in its numbers and two   *)
(* spellings of a category, with what a user may make of it.               *)
EXTENDS MethodPicks, TLC

MCDigits == "tree" :> None @@ "graph" :> None @@ "mortem" :> None @@ "why" :> None @@ "mine" :> None @@ "four" :> 4
MCCatFold == "risk" :> "risk" @@ "Risk" :> "risk" @@ "core" :> "core"

R(num, name, cat) == [num |-> num, name |-> name, cat |-> cat]
Shipped ==
  <<R(1, "tree", "core"), R(2, "graph", "core"), R(7, "mortem", "risk"), R(8, "why", "risk")>>

\* Nothing of one's own; a shipped method retuned, moved and joined by two more, one
\* of them twice; a method called by a number, and one that takes a number in use.
MCCatalogs ==
  {[rows |-> rows, extras |-> extras] :
     rows \in {Shipped, [Shipped EXCEPT ![2].num = None]},
     extras \in {<<>>,
                 <<R(None, "mine", "Risk"), R(None, "graph", "risk"),
                   R(None, "mine", "core"), R(None, "four", "core")>>,
                 <<R(2, "mine", "Risk")>>}}
=============================================================================
