---------------------------- MODULE MCLeaseFence ----------------------------
\* Instances of LeaseFence for TLC.
EXTENDS LeaseFence, TLC

CONSTANTS n1, n2, u1

Symmetry == Permutations(Node)
=============================================================================
