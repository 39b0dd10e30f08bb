-------------------------- MODULE MCPendingRemoval --------------------------
EXTENDS PendingRemoval, TLC
MCSymmetry == Permutations(Procs) \cup Permutations(Requests)
=============================================================================
