--------------------------- MODULE MCCommunities ---------------------------
EXTENDS Communities, TLC

Symmetry == Permutations(Calls) \cup Permutations(Offers)
=============================================================================
