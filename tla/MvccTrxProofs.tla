--------------------------- MODULE MvccTrxProofs ---------------------------
(***************************************************************************)
(* Proofs about MvccTrx, for every number of sessions, records and keys:   *)
(* type correctness and the index, which need no more than the types.      *)
(***************************************************************************)
EXTENDS MvccTrx, TLAPS

-----------------------------------------------------------------------------
(* Type correctness.                                                       *)

\* Setting one version column of a record leaves a table of records.
LEMMA RowTypes ==
  ASSUME NEW table \in [Rids -> Row \cup {NoRow}], NEW r \in Rids, table[r] /= NoRow,
         NEW x \in Int
  PROVE  /\ [table EXCEPT ![r].begin = x] \in [Rids -> Row \cup {NoRow}]
         /\ [table EXCEPT ![r].end = x] \in [Rids -> Row \cup {NoRow}]
  <1>1. table[r] \in Row
    OBVIOUS
  <1>2. [table[r] EXCEPT !.begin = x] \in Row /\ [table[r] EXCEPT !.end = x] \in Row
    BY <1>1 DEF Row
  <1> QED
    BY <1>2

\* A record that a transaction has just inserted.
LEMMA NewRowType ==
  ASSUME NEW x \in Int, NEW k \in Keys
  PROVE  [begin |-> x, end |-> MaxTrxId, key |-> k] \in Row
  BY ConstantsAssumption DEF Row

\* The operation set stays a set of operations.
LEMMA AddOperationType ==
  ASSUME NEW ops \in SUBSET Operation, NEW type \in {"INSERT", "DELETE"}, NEW r \in Rids
  PROVE  AddOperation(ops, type, r) \in SUBSET Operation
  BY DEF AddOperation, Operation

\* The table and the index after Table::delete_record.
LEMMA TableDeleteRecordType ==
  ASSUME TypeOK, NEW r \in Rids, TableDeleteRecord(r)
  PROVE  /\ rows' \in [Rids -> Row \cup {NoRow}]
         /\ index' \subseteq Keys \X Rids
  BY DEF TypeOK, TableDeleteRecord, tableVars

\* What start_if_need leaves behind.
LEMMA StartIfNeedType ==
  ASSUME TypeOK, NEW s \in Sessions, StartIfNeed(s)
  PROVE  /\ current_trx_id' \in Nat /\ trx_id' \in [Sessions -> Int]
         /\ started' \in [Sessions -> BOOLEAN]
  <1>1. current_trx_id + 1 \in Nat /\ current_trx_id + 1 \in Int
    BY DEF TypeOK
  <1>2. CASE started[s]
    BY <1>2 DEF TypeOK, StartIfNeed
  <1>3. CASE ~started[s]
    <2>1. current_trx_id' \in Nat /\ trx_id' \in [Sessions -> Int]
      BY <1>1, <1>3 DEF TypeOK, StartIfNeed
    <2>2. started' \in [Sessions -> BOOLEAN]
      BY <1>3 DEF TypeOK, StartIfNeed
    <2> QED
      BY <2>1, <2>2
  <1> QED
    BY <1>2, <1>3

\* A new database has the types.
LEMMA TypeInit == Init => TypeOK
  BY DEF Init, TypeOK, NoTrxId

\* Every handler keeps the types.
LEMMA TypeStep == TypeOK /\ [Next]_vars => TypeOK'
  <1> SUFFICES ASSUME TypeOK, [Next]_vars PROVE TypeOK'
    OBVIOUS
  <1> USE ConstantsAssumption DEF TypeOK, kitVars, tableVars, trxVars
  <1>0. current_trx_id + 1 \in Nat /\ current_trx_id + 1 \in Int
    OBVIOUS
  <1>1. ASSUME NEW s \in Sessions, Begin(s) PROVE TypeOK'
    <2>1. /\ current_trx_id' \in Nat /\ trx_id' \in [Sessions -> Int]
          /\ started' \in [Sessions -> BOOLEAN]
      BY <1>1, StartIfNeedType DEF Begin
    <2> QED
      BY <1>1, <2>1 DEF Begin
  <1>2. ASSUME NEW s \in Sessions, OpenStatement(s) PROVE TypeOK'
    <2>1. /\ current_trx_id' \in Nat /\ trx_id' \in [Sessions -> Int]
          /\ started' \in [Sessions -> BOOLEAN]
      BY <1>2, StartIfNeedType DEF OpenStatement
    <2> QED
      BY <1>2, <2>1 DEF OpenStatement
  <1>3. ASSUME NEW s \in Sessions, StartCommit(s), UNCHANGED multi \/ multi' = [multi EXCEPT ![s] = FALSE]
        PROVE TypeOK'
    <2>1. current_trx_id' \in Nat /\ commit_xid' \in [Sessions -> Int]
      BY <1>0, <1>3 DEF StartCommit
    <2>2. started' \in [Sessions -> BOOLEAN] /\ multi' \in [Sessions -> BOOLEAN]
      BY <1>3 DEF StartCommit
    <2>3. /\ todo' \in [Sessions -> SUBSET Operation]
          /\ phase' \in [Sessions -> {"idle", "stmt", "close", "commit", "rollback"}]
      BY <1>3 DEF StartCommit
    <2>4. UNCHANGED <<rows, index, trx_id, operations>>
      BY <1>3 DEF StartCommit
    <2> QED
      BY <2>1, <2>2, <2>3, <2>4
  <1>4. ASSUME NEW s \in Sessions, CloseStatement(s) PROVE TypeOK'
    BY <1>3, <1>4 DEF CloseStatement
  <1>5. ASSUME NEW s \in Sessions, NEW r \in Rids, NEW k \in Keys, InsertRecord(s, r, k) PROVE TypeOK'
    <2>1. [begin |-> -trx_id[s], end |-> MaxTrxId, key |-> k] \in Row
      BY NewRowType
    <2>2. AddOperation(operations[s], "INSERT", r) \in SUBSET Operation
      BY AddOperationType
    <2> QED
      BY <1>5, <2>1, <2>2 DEF InsertRecord
  <1>6. ASSUME NEW s \in Sessions, NEW r \in Rids, DeleteRecord(s, r) PROVE TypeOK'
    <2>1. rows' \in [Rids -> Row \cup {NoRow}]
      <3>1. rows[r] /= NoRow /\ rows' = [rows EXCEPT ![r].end = -trx_id[s]] /\ -trx_id[s] \in Int
        BY <1>6 DEF DeleteRecord
      <3> QED BY <3>1, RowTypes
    <2>2. AddOperation(operations[s], "DELETE", r) \in SUBSET Operation
      BY AddOperationType
    <2> QED
      BY <1>6, <2>1, <2>2 DEF DeleteRecord
  <1>7. ASSUME NEW s \in Sessions, NEW r \in Rids, NEW r2 \in Rids, NEW k \in Keys,
               UpdateRecord(s, r, r2, k)
        PROVE TypeOK'
    <2> DEFINE marked == [rows EXCEPT ![r].end = -trx_id[s]]
               row == [begin |-> -trx_id[s], end |-> MaxTrxId, key |-> k]
               first == AddOperation(operations[s], "DELETE", r)
    <2>1. rows[r] /= NoRow /\ -trx_id[s] \in Int
      BY <1>7 DEF UpdateRecord
    <2>2. marked \in [Rids -> Row \cup {NoRow}] /\ rows[r] \in Row /\ rows[r].key \in Keys
      BY <2>1, RowTypes DEF Row
    <2>3. row \in Row
      BY NewRowType
    <2>4. [marked EXCEPT ![r2] = row] \in [Rids -> Row \cup {NoRow}]
      BY <2>2, <2>3
    <2>5. first \in SUBSET Operation
      BY AddOperationType
    <2>6. AddOperation(first, "INSERT", r2) \in SUBSET Operation
      BY <2>5, AddOperationType
    <2>7. rows' \in [Rids -> Row \cup {NoRow}]
      BY <1>7, <2>2, <2>4 DEF UpdateRecord
    <2>8. index' \subseteq Keys \X Rids
      BY <1>7, <2>2 DEF UpdateRecord
    <2> QED
      BY <1>7, <2>6, <2>7, <2>8 DEF UpdateRecord
  <1>8. ASSUME NEW s \in Sessions, NEW r \in Rids, WriteConflict(s, r) PROVE TypeOK'
    BY <1>8 DEF WriteConflict
  <1>9. ASSUME NEW s \in Sessions, Commit(s) PROVE TypeOK'
    BY <1>3, <1>9 DEF Commit
  <1>10. ASSUME NEW s \in Sessions, NEW op \in Operation, CommitOperation(s, op) PROVE TypeOK'
    <2>1. op.rid \in Rids /\ commit_xid[s] \in Int
      BY DEF Operation
    <2>2. rows' \in [Rids -> Row \cup {NoRow}]
      BY <1>10, <2>1, RowTypes DEF CommitOperation
    <2> QED
      BY <1>10, <2>2 DEF CommitOperation
  <1>11. ASSUME NEW s \in Sessions, FinishCommit(s) PROVE TypeOK'
    BY <1>11 DEF FinishCommit
  <1>12. ASSUME NEW s \in Sessions, Rollback(s) PROVE TypeOK'
    BY <1>12 DEF Rollback
  <1>13. ASSUME NEW s \in Sessions, NEW op \in Operation, RollbackOperation(s, op) PROVE TypeOK'
    <2>1. op.rid \in Rids /\ MaxTrxId \in Int
      BY DEF Operation
    <2>2. CASE op.type = "INSERT"
      BY <1>13, <2>1, <2>2, TableDeleteRecordType DEF RollbackOperation
    <2>3. CASE op.type /= "INSERT"
      <3>1. /\ rows' = IF rows[op.rid] = NoRow THEN rows ELSE [rows EXCEPT ![op.rid].end = MaxTrxId]
            /\ index' = index
        BY <1>13, <2>3 DEF RollbackOperation
      <3>2. rows' \in [Rids -> Row \cup {NoRow}]
        BY <2>1, <3>1, RowTypes
      <3>3. todo' \in [Sessions -> SUBSET Operation]
        BY <1>13 DEF RollbackOperation
      <3> QED
        BY <1>13, <3>1, <3>2, <3>3 DEF RollbackOperation
    <2> QED
      BY <2>2, <2>3
  <1>14. ASSUME NEW s \in Sessions, FinishRollback(s) PROVE TypeOK'
    BY <1>14 DEF FinishRollback
  <1>15. ASSUME NEW s \in Sessions, Disconnect(s) PROVE TypeOK'
    BY <1>15 DEF Disconnect, NoTrxId
  <1>16. CASE UNCHANGED vars
    BY <1>16 DEF vars
  <1> QED
    BY <1>1, <1>2, <1>4, <1>5, <1>6, <1>7, <1>8, <1>9, <1>10, <1>11, <1>12, <1>13, <1>14,
       <1>15, <1>16 DEF Next

\* Every variable keeps its type whatever statements the sessions mix: xids
\* stay integers, the table maps every slot to a record or to nothing, and the
\* operation sets hold operations on slots of the table (MvccTrx's members).
THEOREM TypeCorrect == Spec => []TypeOK
  <1>1. Init => TypeOK
    BY TypeInit
  <1>2. TypeOK /\ [Next]_vars => TypeOK'
    BY TypeStep
  <1> QED
    BY <1>1, <1>2, PTL DEF Spec

-----------------------------------------------------------------------------
(* The index.                                                              *)

\* Every handler changes index and pages together, so that no entry is left
\* without its record.
LEMMA IndexStep == TypeOK /\ IndexEntriesLive /\ [Next]_vars => IndexEntriesLive'
  <1> SUFFICES ASSUME TypeOK, IndexEntriesLive, [Next]_vars PROVE IndexEntriesLive'
    OBVIOUS
  <1>0. /\ rows \in [Rids -> Row \cup {NoRow}]
        /\ index \subseteq Keys \X Rids
        /\ \A r \in Rids : rows[r] /= NoRow => rows[r] \in Row
    BY DEF TypeOK
  <1>1. ASSUME UNCHANGED tableVars PROVE IndexEntriesLive'
    BY <1>1 DEF IndexEntriesLive, tableVars
  <1>2. ASSUME NEW r \in Rids, NEW row, NEW k \in Keys, rows[r] = NoRow, row /= NoRow, row.key = k,
               rows' = [rows EXCEPT ![r] = row], index' = index \cup {<<k, r>>}
        PROVE IndexEntriesLive'
    BY <1>0, <1>2 DEF IndexEntriesLive
  <1>3. ASSUME NEW s \in Sessions, NEW r \in Rids, NEW k \in Keys, InsertRecord(s, r, k)
        PROVE IndexEntriesLive'
    <2> DEFINE row == [begin |-> -trx_id[s], end |-> MaxTrxId, key |-> k]
    <2>1. row /= NoRow /\ row.key = k
      BY NewRowType, NoRowAssumption DEF TypeOK
    <2> QED
      BY <1>1, <1>2, <1>3, <2>1 DEF InsertRecord
  \* A step that removes entries and changes version columns only.
  <1>4. ASSUME \A r \in Rids : rows[r] /= NoRow => rows'[r] /= NoRow /\ rows'[r].key = rows[r].key,
               index' \subseteq index
        PROVE IndexEntriesLive'
    BY <1>0, <1>4 DEF IndexEntriesLive
  <1>5. ASSUME NEW r \in Rids, rows[r] /= NoRow, NEW x \in Int
        PROVE  \A q \in Rids : rows[q] /= NoRow =>
                 /\ [rows EXCEPT ![r].begin = x][q] /= NoRow
                 /\ [rows EXCEPT ![r].begin = x][q].key = rows[q].key
                 /\ [rows EXCEPT ![r].end = x][q] /= NoRow
                 /\ [rows EXCEPT ![r].end = x][q].key = rows[q].key
    <2>1. [rows[r] EXCEPT !.begin = x] \in Row /\ [rows[r] EXCEPT !.end = x] \in Row
      BY <1>0, <1>5 DEF Row
    <2>2. /\ [rows[r] EXCEPT !.begin = x].key = rows[r].key
          /\ [rows[r] EXCEPT !.end = x].key = rows[r].key
      BY <1>0, <1>5 DEF Row
    <2> QED
      BY <1>0, <2>1, <2>2, NoRowAssumption
  <1>6. ASSUME NEW s \in Sessions, NEW r \in Rids, DeleteRecord(s, r) PROVE IndexEntriesLive'
    <2>1. -trx_id[s] \in Int
      BY DEF TypeOK
    <2> QED
      BY <1>4, <1>5, <1>6, <2>1 DEF DeleteRecord
  <1>7. ASSUME NEW s \in Sessions, NEW r \in Rids, NEW r2 \in Rids, NEW k \in Keys,
               UpdateRecord(s, r, r2, k)
        PROVE IndexEntriesLive'
    <2> DEFINE marked == [rows EXCEPT ![r].end = -trx_id[s]]
               row == [begin |-> -trx_id[s], end |-> MaxTrxId, key |-> k]
               removed == index \ {<<rows[r].key, r>>}
    <2>1. -trx_id[s] \in Int /\ rows[r] /= NoRow /\ rows[r2] = NoRow /\ r /= r2
      BY <1>7 DEF TypeOK, UpdateRecord
    <2>2. row /= NoRow /\ row.key = k
      BY <2>1, NewRowType, NoRowAssumption
    <2>3. \A q \in Rids : rows[q] /= NoRow => marked[q] /= NoRow /\ marked[q].key = rows[q].key
      BY <1>5, <2>1
    <2>4. CASE rows' = marked /\ index' \subseteq index \cup {<<rows[r].key, r>>}
      BY <1>0, <2>1, <2>3, <2>4 DEF IndexEntriesLive
    <2>5. CASE rows' = [marked EXCEPT ![r2] = row] /\ index' = removed \cup {<<k, r2>>}
      BY <1>0, <2>1, <2>2, <2>3, <2>5 DEF IndexEntriesLive
    <2> QED
      BY <1>7, <2>4, <2>5 DEF UpdateRecord
  <1>8. ASSUME NEW s \in Sessions, NEW op \in Operation, CommitOperation(s, op) PROVE IndexEntriesLive'
    <2>1. commit_xid[s] \in Int /\ op.rid \in Rids /\ index' = index
      BY <1>8 DEF TypeOK, CommitOperation, Operation
    <2>2. \A q \in Rids : rows[q] /= NoRow => rows'[q] /= NoRow /\ rows'[q].key = rows[q].key
      BY <1>5, <1>8, <2>1 DEF CommitOperation
    <2> QED
      BY <1>4, <2>1, <2>2
  <1>9. ASSUME NEW s \in Sessions, NEW op \in Operation, RollbackOperation(s, op) PROVE IndexEntriesLive'
    <2>1. MaxTrxId \in Int /\ op.rid \in Rids
      BY ConstantsAssumption DEF Operation
    <2>2. CASE op.type = "INSERT"
      <3>1. TableDeleteRecord(op.rid)
        BY <1>9, <2>2 DEF RollbackOperation
      <3> QED
        BY <1>0, <1>1, <2>1, <3>1 DEF TableDeleteRecord, IndexEntriesLive
    <2>3. CASE op.type /= "INSERT"
      <3>1. /\ rows' = IF rows[op.rid] = NoRow THEN rows ELSE [rows EXCEPT ![op.rid].end = MaxTrxId]
            /\ index' = index
        BY <1>9, <2>3 DEF RollbackOperation
      <3>2. \A q \in Rids : rows[q] /= NoRow => rows'[q] /= NoRow /\ rows'[q].key = rows[q].key
        BY <1>5, <2>1, <3>1
      <3> QED
        BY <1>4, <3>1, <3>2
    <2> QED
      BY <2>2, <2>3
  <1>10. ASSUME NEW s \in Sessions,
                \/ Begin(s) \/ OpenStatement(s) \/ CloseStatement(s) \/ Commit(s) \/ FinishCommit(s)
                \/ Rollback(s) \/ FinishRollback(s) \/ Disconnect(s)
                \/ \E r \in Rids : WriteConflict(s, r)
         PROVE  IndexEntriesLive'
    <2>1. UNCHANGED tableVars
      BY <1>10 DEF Begin, OpenStatement, CloseStatement, Commit, StartCommit, FinishCommit, Rollback,
                   FinishRollback, Disconnect, WriteConflict, tableVars
    <2> QED
      BY <1>1, <2>1
  <1>11. CASE UNCHANGED vars
    BY <1>1, <1>11 DEF vars
  <1> QED
    BY <1>3, <1>6, <1>7, <1>8, <1>9, <1>10, <1>11 DEF Next

\* Whatever statements run and however they end, an index entry leads to a
\* record that is in its page and has the entry's key, so an index scan never
\* fails on a dangling entry (IndexScanPhysicalOperator::next).
THEOREM IndexLive == Spec => []IndexEntriesLive
  <1>1. Init => IndexEntriesLive
    BY DEF Init, IndexEntriesLive
  <1>2. TypeOK /\ IndexEntriesLive /\ [Next]_vars => IndexEntriesLive'
    BY IndexStep
  <1> QED
    BY <1>1, <1>2, TypeCorrect, PTL DEF Spec
=============================================================================
