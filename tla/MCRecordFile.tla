---------------------------- MODULE MCRecordFile ----------------------------
(* Two threads, pages of two records, bitmaps of two-bit bytes.  A file    *)
(* with a full and a half-full page, an empty file, and one to recover:    *)
(* from a log with and from one without a gap in its page numbers.         *)
EXTENDS RecordFile

MCStatements == [t \in Threads |-> {"insert", "select", "delete", "delete_sub", "update"}]
MCFiles == {<<2, 1>>, <<>>}
MCRedoLogs == {<<<<1, 0>>, <<2, 0>>>>, <<<<2, 0>>>>}
=============================================================================
