----------------------------- MODULE MCTraverse -----------------------------
\* Instances of Traverse for TLC.
EXTENDS Traverse, TLC

\* The best document but for one, and three of the four.
MCAsked == {<<1, {1}>>, <<3, {}>>}

Symmetry == Permutations(Term)
=============================================================================
