----------------------------- MODULE MCKeyCache -----------------------------
(* KeyCache on small sets of model values, and their symmetry.             *)
EXTENDS KeyCache, TLC

\* No property distinguishes two threads or two master keys.  The key ids are
\* not in it: SomeJob chooses one.
Symmetry == Permutations(Threads) \cup Permutations(Materials)
=============================================================================
