------------------------------ MODULE MCMgPool ------------------------------
\* MgPool with symmetric workers and connections.
EXTENDS MgPool, TLC

Symmetry == Permutations(Workers) \cup Permutations(Conns)
=============================================================================
