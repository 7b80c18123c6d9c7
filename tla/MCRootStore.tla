---------------------------- MODULE MCRootStore -----------------------------
\* Instances of RootStore for TLC.
EXTENDS RootStore, TLC

CONSTANTS p1, p2

Symmetry == Permutations(Store)
=============================================================================
