------------------------------ MODULE MCMvccTrx ------------------------------
EXTENDS MvccTrx, TLC
PlainWrites == {"insert", "delete", "rollback"}
TidyWrites == PlainWrites \cup {"stray"}
Symmetry == Permutations(Rids) \cup Permutations(Sessions)
=============================================================================
