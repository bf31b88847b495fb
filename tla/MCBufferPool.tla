---------------------------- MODULE MCBufferPool ----------------------------
(* Threads and frames are interchangeable, and so are the files. *)
EXTENDS BufferPool, TLC
Symmetry == Permutations(Threads) \cup Permutations(Frames) \cup Permutations(Files)
=============================================================================
