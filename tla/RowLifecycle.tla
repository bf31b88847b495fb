---------------------------- MODULE RowLifecycle ----------------------------
(***************************************************************************)
(* What docs/src/design/miniob-transaction.md promises of the two version  *)
(* columns of a record, whatever transactions run: a record moves only     *)
(* along this table (Ta is a transaction's id, Tc its commit id),          *)
(*                                                                         *)
(*     operation   trx state     begin xid        end xid                  *)
(*     inserted    committed     Tc               MaxTrxId                 *)
(*     deleted     committed     some trx id      Tc                       *)
(*     insert      uncommitted   -Ta              MaxTrxId                 *)
(*     delete      uncommitted   some trx id      -Ta                      *)
(*                                                                         *)
(* from no record to "insert", from there to "inserted" or back, from      *)
(* "inserted" to "delete", and from there to "deleted" or back.  A commit  *)
(* id is drawn after the id of its transaction, and only a transaction     *)
(* that began after the insertion's commit id can delete the record.       *)
(***************************************************************************)
EXTENDS Integers

CONSTANTS Rids, MaxTrxId, NoVersion

VARIABLE version   \* rid -> its two version columns, or NoVersion

Init == version = [r \in Rids |-> NoVersion]

Inserting(v) == v.begin < 0 /\ v.end = MaxTrxId
Inserted(v)  == v.begin > 0 /\ v.end = MaxTrxId
Deleting(v)  == v.begin > 0 /\ v.end < 0

Insert(r) ==
  /\ version[r] = NoVersion
  /\ \E ta \in 1 .. MaxTrxId - 1 :
       version' = [version EXCEPT ![r] = [begin |-> -ta, end |-> MaxTrxId]]

CommitInsert(r) ==
  /\ version[r] /= NoVersion
  /\ Inserting(version[r])
  /\ \E tc \in 1 - version[r].begin .. MaxTrxId - 1 :
       version' = [version EXCEPT ![r].begin = tc]

AbortInsert(r) ==
  /\ version[r] /= NoVersion
  /\ Inserting(version[r])
  /\ version' = [version EXCEPT ![r] = NoVersion]

Delete(r) ==
  /\ version[r] /= NoVersion
  /\ Inserted(version[r])
  /\ \E ta \in version[r].begin + 1 .. MaxTrxId - 1 :
       version' = [version EXCEPT ![r].end = -ta]

CommitDelete(r) ==
  /\ version[r] /= NoVersion
  /\ Deleting(version[r])
  /\ \E tc \in 1 - version[r].end .. MaxTrxId - 1 :
       version' = [version EXCEPT ![r].end = tc]

AbortDelete(r) ==
  /\ version[r] /= NoVersion
  /\ Deleting(version[r])
  /\ version' = [version EXCEPT ![r].end = MaxTrxId]

Next ==
  \E r \in Rids :
    \/ Insert(r) \/ CommitInsert(r) \/ AbortInsert(r)
    \/ Delete(r) \/ CommitDelete(r) \/ AbortDelete(r)

Spec == Init /\ [][Next]_version
=============================================================================
