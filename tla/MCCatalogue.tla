---------------------------- MODULE MCCatalogue ----------------------------
(* Two worker threads, two table names and two index names; the row of the *)
(* third statement has NULL in the fields of both.                         *)
EXTENDS Catalogue, TLC

MCNullKeys == {2} \X IndexNames

Symmetry == Permutations(Threads) \cup Permutations(Names) \cup Permutations(IndexNames)
=============================================================================
