---------------------------- MODULE MCPublishing ----------------------------
EXTENDS Publishing, TLC

Symmetry == Permutations(Peers) \cup Permutations(Calls)
=============================================================================
