---------------------------- MODULE MCTrxRecovery ----------------------------
EXTENDS TrxRecovery, TLC
Symmetry == Permutations(Rids) \cup Permutations(Sessions) \cup Permutations(Keys)
=============================================================================
