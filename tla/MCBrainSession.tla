--------------------------- MODULE MCBrainSession ---------------------------
(* A small catalogue with and without an overlay, for BrainSession.        *)
EXTENDS BrainSession, TLC

Row(name, cat, gist, classic, goals) ==
  [name |-> name, cat |-> cat, gist |-> gist, classic |-> classic, goals |-> goals]

MCLower == "Scamper" :> "scamper" @@ "SCAMPER" :> "scamper" @@ "Hats" :> "hats" @@ "Dice" :> "dice"
             @@ "structured" :> "structured" @@ "wild" :> "wild" @@ "own" :> "own"
MCRank == "structured" :> 2 @@ "wild" :> 3 @@ "own" :> 1

ShippedRows ==
  <<Row("Scamper", "structured", "shipped", TRUE, {"novel"}),
    Row("Hats", "wild", "shipped", FALSE, {"unstuck"})>>

MCMaxStep == "rand" :> 2 @@ "inv" :> 1 @@ "ai" :> 1
Symmetry == Permutations(Callers)

MCShipped == <<"structured", "wild">>

\* No overlay; a technique retuned, under another case, and one of a new category.
MCCatalogs ==
  {[rows |-> ShippedRows, extras |-> e] : e \in
     {<<>>,
      <<Row("SCAMPER", "own", "retuned", FALSE, {}), Row("Dice", "own", "new", TRUE, {"unstuck"})>>,
      <<Row("Dice", "wild", "draft", FALSE, {}), Row("Dice", "wild", "final", TRUE, {"novel"})>>}}

MCTechniques == UNION {ToSet(c.rows) \cup ToSet(c.extras) : c \in MCCatalogs}
=============================================================================
