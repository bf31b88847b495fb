------------------------------- MODULE MCCLog -------------------------------
EXTENDS CLog, TLC
Symmetry == Permutations(Threads)
=============================================================================
