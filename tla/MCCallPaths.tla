----------------------------- MODULE MCCallPaths -----------------------------
EXTENDS CallPaths

ThreadSymmetry == Permutations(Threads)

=============================================================================
