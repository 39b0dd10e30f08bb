------------------------- MODULE MCAllocatorWait -------------------------
EXTENDS AllocatorWait, TLC

ThreadSymmetry == Permutations(Threads)

=============================================================================
