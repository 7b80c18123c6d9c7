----------------------------- MODULE MCChainLog -----------------------------
\* Instances of ChainLog for TLC: two processes on one chain.
EXTENDS ChainLog, TLC

CONSTANTS w1, w2

Symmetry == Permutations({w1, w2})
=============================================================================
