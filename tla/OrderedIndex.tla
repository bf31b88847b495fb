---------------------------- MODULE OrderedIndex ----------------------------
(***************************************************************************)
(* What an index promises the table above it: a set of entries (indexed    *)
(* value, RID).                                                            *)
(***************************************************************************)
EXTENDS Integers

CONSTANTS Attrs, Rids, Unique

VARIABLES entries, answer

Reply(call, arg, rc) == [call |-> call, arg |-> arg, rc |-> rc]

Taken(key) == IF Unique THEN \E e \in entries : e[1] = key[1] ELSE key \in entries

AddEntry(key) ==
  IF Taken(key)
  THEN answer' = Reply("insert", key, "RECORD_DUPLICATE_KEY") /\ UNCHANGED entries
  ELSE answer' = Reply("insert", key, "SUCCESS") /\ entries' = entries \cup {key}

(* An insertion into an empty index may be refused: insert_entry does so   *)
(* when the last entry goes away between its two tests for emptiness.      *)
RefuseEntry(key) ==
  /\ entries = {}
  /\ answer' = Reply("insert", key, "EMPTY")
  /\ UNCHANGED entries

RemoveEntry(key) ==
  /\ answer' = Reply("delete", key, IF key \in entries THEN "SUCCESS" ELSE "RECORD_NOT_EXIST")
  /\ entries' = entries \ {key}

(* A statement that deletes what it finds under one value; which of the    *)
(* entries it finds is left open here.                                     *)
RemoveFound(attr) ==
  /\ answer' = Reply("delete_scan", <<attr>>, "SUCCESS")
  /\ entries' \subseteq entries
  /\ \A e \in entries \ entries' : e[1] = attr

Init == entries \subseteq Attrs \X Rids /\ answer.call = "none"

(* The reply names the call, so there is one step to compare with.         *)
Next ==
  \/ answer'.call = "insert" /\ (AddEntry(answer'.arg) \/ RefuseEntry(answer'.arg))
  \/ answer'.call = "delete" /\ RemoveEntry(answer'.arg)
  \/ answer'.call = "delete_scan" /\ RemoveFound(answer'.arg[1])

Spec == Init /\ [][Next]_<<entries, answer>>

=============================================================================
