----------------------------- MODULE MCPeering -----------------------------
EXTENDS Peering, TLC

Symmetry == Permutations(Rows) \cup Permutations(Calls) \cup Permutations(Identities)
            \cup Permutations(Addresses)
=============================================================================
