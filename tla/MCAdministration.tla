-------------------------- MODULE MCAdministration --------------------------
EXTENDS Administration, TLC

Symmetry == Permutations(Orgs) \cup Permutations(Calls)
=============================================================================
