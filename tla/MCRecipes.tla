----------------------------- MODULE MCRecipes ------------------------------
(* Recipes on the small sets of MCTable.                                   *)
EXTENDS Recipes, MCTable

CONSTANTS p1, p2

\* Both keys are there; the active one changes.
BothKeys == <<Both(v1), Both(v2)>>

\* Loops and workers treat all rows alike.
Symmetry == Permutations(Pks)
=============================================================================
