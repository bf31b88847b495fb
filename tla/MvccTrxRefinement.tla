-------------------------- MODULE MvccTrxRefinement --------------------------
(***************************************************************************)
(* The version columns follow the table of the design document, and no     *)
(* mark outlives its transaction, for every number of sessions, records    *)
(* and keys: what the run mvcc_tidy checks on a small instance.            *)
(*                                                                         *)
(* Neither holds of every workload.  An update marks the old version again *)
(* whatever its end column says, and leaves the mark behind when the new   *)
(* version is refused; a transaction that deletes its own insertion gives  *)
(* the record two marks and one operation; a session that goes away leaves *)
(* its marks.  The theorems name the workloads they hold for.              *)
(***************************************************************************)
EXTENDS MvccTrxInvariance

\* No update, and no transaction writes the records it inserted itself.
PlainWorkload == Workload \cap {"update", "own"} = {}

\* The id of a transaction is never the commit id of a record or of a running
\* commit: both are drawn from the one counter.
PlainIds ==
  \A s \in Sessions : trx_id[s] > 0 =>
    /\ \A r \in Rids : rows[r] /= NoRow => rows[r].begin /= trx_id[s]
    /\ \A t \in Sessions : phase[t] = "commit" => commit_xid[t] /= trx_id[s]

\* A record whose insertion is not committed is nobody's deletion and has its
\* index entry, so that a rollback can take it out of the page.
OwnInserts ==
  \A r \in Rids : rows[r] /= NoRow /\ rows[r].begin < 0 =>
    rows[r].end = MaxTrxId /\ <<rows[r].key, r>> \in index

RInv == IInv /\ PlainIds /\ OwnInserts

-----------------------------------------------------------------------------
(* What a step does to a record: six changes, each with what the columns   *)
(* were before it.                                                         *)

\* Every record but r keeps its columns and its index entries.
Elsewhere(r) ==
  \A q \in Rids \ {r} :
    rows'[q] = rows[q] /\ \A k \in Keys : <<k, q>> \in index => <<k, q>> \in index'

\* The id of a transaction that was started, and its commit id.
Started(s) == trx_id[s] \in 1 .. MaxTrxId - 1
Committing(s) == phase[s] = "commit" /\ commit_xid[s] \in trx_id[s] + 1 .. MaxTrxId - 1

RowInserted(s, r, k) ==
  /\ Started(s) /\ Elsewhere(r)
  /\ rows[r] = NoRow
  /\ rows'[r] = [begin |-> -trx_id[s], end |-> MaxTrxId, key |-> k]
  /\ <<k, r>> \in index'

RowDeleted(s, r) ==
  /\ Started(s) /\ Elsewhere(r)
  /\ rows[r] \in Row
  /\ rows[r].begin \in 1 .. trx_id[s] /\ rows[r].end = MaxTrxId
  /\ rows'[r] = [rows[r] EXCEPT !.end = -trx_id[s]]

InsertCommitted(s, r) ==
  /\ Started(s) /\ Committing(s) /\ Elsewhere(r)
  /\ rows[r] \in Row
  /\ rows[r].begin = -trx_id[s] /\ rows[r].end = MaxTrxId
  /\ rows'[r] = [rows[r] EXCEPT !.begin = commit_xid[s]]

DeleteCommitted(s, r) ==
  /\ Started(s) /\ Committing(s) /\ Elsewhere(r)
  /\ rows[r] \in Row
  /\ rows[r].begin > 0 /\ rows[r].end = -trx_id[s]
  /\ rows'[r] = [rows[r] EXCEPT !.end = commit_xid[s]]

InsertUndone(s, r) ==
  /\ Started(s) /\ Elsewhere(r)
  /\ rows[r] \in Row
  /\ rows[r].begin = -trx_id[s] /\ rows[r].end = MaxTrxId
  /\ rows'[r] = NoRow

DeleteUndone(s, r) ==
  /\ Started(s) /\ Elsewhere(r)
  /\ rows[r] \in Row
  /\ rows[r].begin > 0 /\ rows[r].end = -trx_id[s]
  /\ rows'[r] = [rows[r] EXCEPT !.end = MaxTrxId]

RowChanged ==
  \E s \in Sessions, r \in Rids :
    \/ \E k \in Keys : RowInserted(s, r, k)
    \/ RowDeleted(s, r)
    \/ InsertCommitted(s, r) \/ DeleteCommitted(s, r)
    \/ InsertUndone(s, r) \/ DeleteUndone(s, r)

\* A session in a statement has a transaction.
LEMMA StatementStarted ==
  ASSUME IInv, NEW s \in Sessions, phase[s] = "stmt"
  PROVE  Started(s)
  <1>1. trx_id[s] \in 1 .. current_trx_id /\ current_trx_id \in Nat /\ current_trx_id < MaxTrxId
    BY DEF IInv, Phases, TrxIds, TypeOK
  <1> QED
    BY <1>1, ConstantsAssumption DEF Started

\* A commit or rollback that visits a record has a transaction, and the record
\* has the mark of that transaction.
LEMMA VisitedRecord ==
  ASSUME IInv, NEW s \in Sessions, NEW op \in todo[s], phase[s] \in Ending
  PROVE  /\ Started(s) /\ op \in Pending(s) /\ op \in Operation /\ op.rid \in Rids
         /\ rows[op.rid] \in Row /\ rows[op.rid] /= NoRow
         /\ op.type = "INSERT" => rows[op.rid].begin = -trx_id[s]
         /\ op.type = "DELETE" => rows[op.rid].begin > 0 /\ rows[op.rid].end = -trx_id[s]
  <1>1. op \in Pending(s)
    BY DEF Pending, Ending
  <1>2. op \in Operation /\ op.rid \in Rids
    BY DEF IInv, TypeOK, Operation
  <1>3. /\ rows[op.rid] /= NoRow
        /\ op.type = "INSERT" => rows[op.rid].begin = -trx_id[s]
        /\ op.type = "DELETE" => rows[op.rid].begin > 0 /\ rows[op.rid].end = -trx_id[s]
    BY <1>1 DEF IInv, OperationOwnsMark
  <1>4. rows[op.rid] \in Row
    BY <1>2, <1>3 DEF IInv, TypeOK
  <1>5. trx_id[s] \in 1 .. current_trx_id /\ current_trx_id \in Nat /\ current_trx_id < MaxTrxId
    BY <1>1, PendingFacts DEF IInv, TypeOK, TrxIds
  <1>6. Started(s)
    BY <1>5, ConstantsAssumption DEF Started
  <1> QED
    BY <1>1, <1>2, <1>3, <1>4, <1>6

\* Table::insert_record, from the operator's call.
LEMMA InsertChange ==
  ASSUME IInv, NEW s \in Sessions, NEW r \in Rids, NEW k \in Keys, InsertRecord(s, r, k)
  PROVE  UNCHANGED <<rows, index>> \/ RowInserted(s, r, k)
  <1>1. CASE DuplicateKey(index, k, r)
    BY <1>1 DEF InsertRecord, tableVars
  <1>2. CASE ~DuplicateKey(index, k, r)
    <2>1. /\ rows[r] = NoRow /\ index' = index \cup {<<k, r>>}
          /\ rows' = [rows EXCEPT ![r] = [begin |-> -trx_id[s], end |-> MaxTrxId, key |-> k]]
      BY <1>2 DEF InsertRecord
    <2>2. rows \in [Rids -> Row \cup {NoRow}]
      BY DEF IInv, TypeOK
    <2>3. rows'[r] = [begin |-> -trx_id[s], end |-> MaxTrxId, key |-> k]
      BY <2>1, <2>2
    <2>4. Elsewhere(r)
      BY <2>1, <2>2 DEF Elsewhere
    <2>5. Started(s)
      BY StatementStarted DEF InsertRecord
    <2> QED
      BY <2>1, <2>3, <2>4, <2>5 DEF RowInserted
  <1> QED
    BY <1>1, <1>2

\* MvccTrx::delete_record accepts only a committed record that this transaction
\* may see and that nobody has deleted.
LEMMA DeleteChange ==
  ASSUME IInv, PlainWorkload, NEW s \in Sessions, NEW r \in Rids, DeleteRecord(s, r)
  PROVE  RowDeleted(s, r)
  <1>1. /\ rows[r] /= NoRow /\ rows[r].begin /= -trx_id[s] /\ rows[r].end = MaxTrxId
        /\ VisitRecord(trx_id[s], rows[r], FALSE) = "SUCCESS"
        /\ rows' = [rows EXCEPT ![r].end = -trx_id[s]]
        /\ index' = index \ {<<rows[r].key, r>>}
    BY DEF DeleteRecord, PlainWorkload, OwnRow
  <1>2. rows \in [Rids -> Row \cup {NoRow}] /\ rows[r] \in Row
    BY <1>1 DEF IInv, TypeOK
  <1>3. Started(s)
    BY StatementStarted DEF DeleteRecord
  <1>4. rows[r].begin \in Int /\ rows[r].begin /= 0 /\ trx_id[s] \in Int
    BY <1>1, <1>2 DEF Row, IInv, XidOrder, TypeOK
  <1>5. rows[r].begin \in 1 .. trx_id[s]
    <2>1. CASE rows[r].begin > 0
      BY <1>1, <1>4, <2>1, ConstantsAssumption DEF VisitRecord
    <2>2. CASE rows[r].begin < 0
      BY <1>1, <1>4, <2>2 DEF VisitRecord
    <2> QED
      BY <1>4, <2>1, <2>2
  <1>6. rows'[r] = [rows[r] EXCEPT !.end = -trx_id[s]]
    BY <1>1, <1>2
  <1>7. Elsewhere(r)
    BY <1>1, <1>2 DEF Elsewhere
  <1> QED
    BY <1>1, <1>2, <1>3, <1>5, <1>6, <1>7 DEF RowDeleted

\* One record of the loop of commit_with_trx_id.
LEMMA CommitChange ==
  ASSUME IInv, OwnInserts, NEW s \in Sessions, NEW op \in Operation, CommitOperation(s, op)
  PROVE  /\ op.type = "INSERT" => InsertCommitted(s, op.rid)
         /\ op.type = "DELETE" => DeleteCommitted(s, op.rid)
  <1>1. op \in todo[s] /\ phase[s] \in Ending /\ phase[s] = "commit" /\ index' = index
    BY DEF CommitOperation, Ending
  <1>2. /\ Started(s) /\ op.rid \in Rids /\ rows[op.rid] \in Row /\ rows[op.rid] /= NoRow
        /\ op.type = "INSERT" => rows[op.rid].begin = -trx_id[s]
        /\ op.type = "DELETE" => rows[op.rid].begin > 0 /\ rows[op.rid].end = -trx_id[s]
    BY <1>1, VisitedRecord
  <1>3. Committing(s)
    <2>1. commit_xid[s] \in trx_id[s] + 1 .. current_trx_id /\ current_trx_id < MaxTrxId
      BY <1>1 DEF IInv, Phases, TrxIds
    <2> QED
      BY <1>1, <2>1, ConstantsAssumption DEF Committing, IInv, TypeOK
  <1>4. rows \in [Rids -> Row \cup {NoRow}]
    BY DEF IInv, TypeOK
  <1>5. CASE op.type = "INSERT"
    <2>1. rows' = [rows EXCEPT ![op.rid].begin = commit_xid[s]]
      BY <1>2, <1>5 DEF CommitOperation
    <2>2. rows[op.rid].begin < 0
      BY <1>2, <1>5 DEF Started
    <2>3. rows[op.rid].end = MaxTrxId
      BY <1>2, <2>2 DEF OwnInserts
    <2>4. rows'[op.rid] = [rows[op.rid] EXCEPT !.begin = commit_xid[s]]
      BY <1>2, <1>4, <2>1
    <2>5. Elsewhere(op.rid)
      BY <1>1, <1>4, <2>1 DEF Elsewhere
    <2> QED
      BY <1>2, <1>3, <1>5, <2>3, <2>4, <2>5 DEF InsertCommitted
  <1>6. CASE op.type = "DELETE"
    <2>1. rows' = [rows EXCEPT ![op.rid].end = commit_xid[s]]
      BY <1>2, <1>6 DEF CommitOperation
    <2>2. rows'[op.rid] = [rows[op.rid] EXCEPT !.end = commit_xid[s]]
      BY <1>2, <1>4, <2>1
    <2>3. Elsewhere(op.rid)
      BY <1>1, <1>4, <2>1 DEF Elsewhere
    <2> QED
      BY <1>2, <1>3, <1>6, <2>2, <2>3 DEF DeleteCommitted
  <1> QED
    BY <1>5, <1>6

\* One record of the loop of MvccTrx::rollback: the record of an insertion is
\* taken out, because its index entry is still there.
LEMMA RollbackChange ==
  ASSUME IInv, OwnInserts, NEW s \in Sessions, NEW op \in Operation, RollbackOperation(s, op)
  PROVE  /\ op.type = "INSERT" => InsertUndone(s, op.rid)
         /\ op.type = "DELETE" => DeleteUndone(s, op.rid)
  <1>1. op \in todo[s] /\ phase[s] \in Ending
    BY DEF RollbackOperation, Ending
  <1>2. /\ Started(s) /\ op.rid \in Rids /\ rows[op.rid] \in Row /\ rows[op.rid] /= NoRow
        /\ op.type = "INSERT" => rows[op.rid].begin = -trx_id[s]
        /\ op.type = "DELETE" => rows[op.rid].begin > 0 /\ rows[op.rid].end = -trx_id[s]
    BY <1>1, VisitedRecord
  <1>3. rows \in [Rids -> Row \cup {NoRow}]
    BY DEF IInv, TypeOK
  <1>4. CASE op.type = "INSERT"
    <2>1. rows[op.rid].begin < 0
      BY <1>2, <1>4 DEF Started
    <2>2. rows[op.rid].end = MaxTrxId /\ <<rows[op.rid].key, op.rid>> \in index
      BY <1>2, <2>1 DEF OwnInserts
    <2>3. /\ rows' = [rows EXCEPT ![op.rid] = NoRow]
          /\ index' = index \ {<<rows[op.rid].key, op.rid>>}
      BY <1>2, <1>4, <2>2 DEF RollbackOperation, TableDeleteRecord
    <2>4. rows'[op.rid] = NoRow
      BY <1>2, <1>3, <2>3
    <2>5. Elsewhere(op.rid)
      BY <1>3, <2>3 DEF Elsewhere
    <2> QED
      BY <1>2, <1>4, <2>2, <2>4, <2>5 DEF InsertUndone
  <1>5. CASE op.type = "DELETE"
    <2>1. rows' = [rows EXCEPT ![op.rid].end = MaxTrxId] /\ index' = index
      BY <1>2, <1>5 DEF RollbackOperation
    <2>2. rows'[op.rid] = [rows[op.rid] EXCEPT !.end = MaxTrxId]
      BY <1>2, <1>3, <2>1
    <2>3. Elsewhere(op.rid)
      BY <1>3, <2>1 DEF Elsewhere
    <2> QED
      BY <1>2, <1>5, <2>2, <2>3 DEF DeleteUndone
  <1> QED
    BY <1>4, <1>5

\* The handlers that do not write records.
LEMMA OtherHandlers ==
  ASSUME NEW s \in Sessions,
         \/ Begin(s) \/ OpenStatement(s) \/ CloseStatement(s) \/ Commit(s) \/ FinishCommit(s)
         \/ Rollback(s) \/ FinishRollback(s) \/ Disconnect(s)
         \/ \E q \in Rids : WriteConflict(s, q)
  PROVE  UNCHANGED <<rows, index>>
  BY DEF Begin, OpenStatement, CloseStatement, Commit, StartCommit, FinishCommit, Rollback,
         FinishRollback, Disconnect, WriteConflict, tableVars

\* Every step makes one of the six changes or leaves the table alone.
LEMMA StepChanges ==
  ASSUME IInv, OwnInserts, PlainWorkload, [Next]_vars
  PROVE  UNCHANGED <<rows, index>> \/ RowChanged
  <1>1. ASSUME NEW s \in Sessions, NEW r \in Rids, NEW r2 \in Rids, NEW k \in Keys,
               UpdateRecord(s, r, r2, k)
        PROVE  FALSE
    BY <1>1 DEF UpdateRecord, PlainWorkload
  <1>2. ASSUME NEW s \in Sessions, NEW r \in Rids, NEW k \in Keys, InsertRecord(s, r, k)
        PROVE  UNCHANGED <<rows, index>> \/ RowChanged
    BY <1>2, InsertChange DEF RowChanged
  <1>3. ASSUME NEW s \in Sessions, NEW r \in Rids, DeleteRecord(s, r)
        PROVE  RowChanged
    BY <1>3, DeleteChange DEF RowChanged
  <1>4. ASSUME NEW s \in Sessions, NEW op \in Operation, CommitOperation(s, op)
        PROVE  RowChanged
    BY <1>4, CommitChange DEF RowChanged, Operation
  <1>5. ASSUME NEW s \in Sessions, NEW op \in Operation, RollbackOperation(s, op)
        PROVE  RowChanged
    BY <1>5, RollbackChange DEF RowChanged, Operation
  <1>6. CASE UNCHANGED vars
    BY <1>6 DEF vars, tableVars
  <1> QED
    BY <1>1, <1>2, <1>3, <1>4, <1>5, <1>6, OtherHandlers DEF Next

-----------------------------------------------------------------------------
(* The invariant.                                                          *)

\* An uncommitted insertion stays undeleted and in the index.
LEMMA OwnInsertsStep ==
  ASSUME IInv, OwnInserts, PlainWorkload, [Next]_vars
  PROVE  OwnInserts'
  <1> SUFFICES ASSUME NEW q \in Rids, rows'[q] /= NoRow, rows'[q].begin < 0
               PROVE  rows'[q].end = MaxTrxId /\ <<rows'[q].key, q>> \in index'
    BY DEF OwnInserts
  <1>0. UNCHANGED <<rows, index>> \/ RowChanged
    BY StepChanges
  <1>1. CASE UNCHANGED <<rows, index>>
    BY <1>1 DEF OwnInserts
  <1>2. CASE RowChanged
    <2>1. PICK s \in Sessions, r \in Rids :
            \/ \E k \in Keys : RowInserted(s, r, k)
            \/ RowDeleted(s, r)
            \/ InsertCommitted(s, r) \/ DeleteCommitted(s, r)
            \/ InsertUndone(s, r) \/ DeleteUndone(s, r)
      BY <1>2 DEF RowChanged
    <2>2. CASE q /= r
      <3>1. rows'[q] = rows[q] /\ \A k \in Keys : <<k, q>> \in index => <<k, q>> \in index'
        BY <2>1, <2>2 DEF Elsewhere, RowInserted, RowDeleted, InsertCommitted, DeleteCommitted,
                          InsertUndone, DeleteUndone
      <3>2. rows[q].key \in Keys
        BY <3>1 DEF IInv, TypeOK, Row
      <3> QED
        BY <3>1, <3>2 DEF OwnInserts
    <2>3. CASE q = r /\ \E k \in Keys : RowInserted(s, r, k)
      BY <2>3 DEF RowInserted
    <2>4. CASE q = r /\ (RowDeleted(s, r) \/ DeleteCommitted(s, r) \/ DeleteUndone(s, r))
      <3>1. rows[q] \in Row /\ rows[q].begin > 0 /\ rows'[q].begin = rows[q].begin
        BY <2>4 DEF RowDeleted, DeleteCommitted, DeleteUndone, Row
      <3> QED
        BY <3>1 DEF Row
    <2>5. CASE q = r /\ InsertCommitted(s, r)
      <3>1. rows'[q].begin = commit_xid[s] /\ commit_xid[s] > 0 /\ commit_xid[s] \in Int
        BY <2>5, ConstantsAssumption DEF InsertCommitted, Started, Committing, Row
      <3> QED
        BY <3>1
    <2>6. CASE q = r /\ InsertUndone(s, r)
      BY <2>6 DEF InsertUndone
    <2> QED
      BY <2>1, <2>2, <2>3, <2>4, <2>5, <2>6
  <1> QED
    BY <1>0, <1>1, <1>2

\* A step gives a record no commit id but one that a running commit has drawn.
LEMMA BeginColumns ==
  ASSUME IInv, OwnInserts, PlainWorkload, [Next]_vars, NEW q \in Rids, rows'[q] /= NoRow
  PROVE  \/ rows[q] /= NoRow /\ rows'[q].begin = rows[q].begin
         \/ rows'[q].begin \in Int /\ rows'[q].begin < 0
         \/ \E t \in Sessions : phase[t] = "commit" /\ rows'[q].begin = commit_xid[t]
  <1>0. UNCHANGED <<rows, index>> \/ RowChanged
    BY StepChanges
  <1>1. CASE UNCHANGED <<rows, index>>
    BY <1>1
  <1>2. CASE RowChanged
    <2>1. PICK s \in Sessions, r \in Rids :
            \/ \E k \in Keys : RowInserted(s, r, k)
            \/ RowDeleted(s, r)
            \/ InsertCommitted(s, r) \/ DeleteCommitted(s, r)
            \/ InsertUndone(s, r) \/ DeleteUndone(s, r)
      BY <1>2 DEF RowChanged
    <2>2. CASE q /= r
      BY <2>1, <2>2 DEF Elsewhere, RowInserted, RowDeleted, InsertCommitted, DeleteCommitted,
                        InsertUndone, DeleteUndone
    <2>3. CASE q = r /\ \E k \in Keys : RowInserted(s, r, k)
      BY <2>3 DEF RowInserted, Started
    <2>4. CASE q = r /\ (RowDeleted(s, r) \/ DeleteCommitted(s, r) \/ DeleteUndone(s, r))
      BY <2>4, NoRowAssumption DEF RowDeleted, DeleteCommitted, DeleteUndone, Row
    <2>5. CASE q = r /\ InsertCommitted(s, r)
      BY <2>5 DEF InsertCommitted, Committing, Row
    <2>6. CASE q = r /\ InsertUndone(s, r)
      BY <2>6 DEF InsertUndone
    <2> QED
      BY <2>1, <2>2, <2>3, <2>4, <2>5, <2>6
  <1> QED
    BY <1>0, <1>1, <1>2

\* A step leaves the id of a session alone, forgets it, or draws the next one.
LEMMA IdColumns ==
  ASSUME IInv, [Next]_vars, NEW u \in Sessions
  PROVE  \/ trx_id'[u] = trx_id[u]
         \/ trx_id'[u] = NoTrxId
         \/ trx_id'[u] = current_trx_id + 1 /\ commit_xid' = commit_xid /\ rows' = rows
            /\ \A t \in Sessions : phase'[t] = "commit" => phase[t] = "commit"
  <1>0. trx_id \in [Sessions -> Int] /\ phase \in [Sessions -> {"idle", "stmt", "close", "commit", "rollback"}]
    BY DEF IInv, TypeOK
  <1>1. ASSUME NEW s \in Sessions, Begin(s) \/ OpenStatement(s)
        PROVE  \/ trx_id'[u] = trx_id[u]
               \/ trx_id'[u] = current_trx_id + 1 /\ commit_xid' = commit_xid /\ rows' = rows
                  /\ \A t \in Sessions : phase'[t] = "commit" => phase[t] = "commit"
    <2>1. trx_id' = trx_id \/ trx_id' = [trx_id EXCEPT ![s] = current_trx_id + 1]
      BY <1>1 DEF Begin, OpenStatement, StartIfNeed
    <2>2. commit_xid' = commit_xid /\ rows' = rows
      BY <1>1 DEF Begin, OpenStatement, tableVars
    <2>3. \A t \in Sessions : phase'[t] = "commit" => phase[t] = "commit"
      BY <1>0, <1>1 DEF Begin, OpenStatement
    <2> QED
      BY <1>0, <2>1, <2>2, <2>3
  <1>2. ASSUME NEW s \in Sessions, Disconnect(s)
        PROVE  trx_id'[u] = trx_id[u] \/ trx_id'[u] = NoTrxId
    BY <1>0, <1>2 DEF Disconnect
  <1>3. ASSUME NEW s \in Sessions,
               \/ CloseStatement(s) \/ Commit(s) \/ FinishCommit(s) \/ Rollback(s) \/ FinishRollback(s)
               \/ \E q \in Rids : WriteConflict(s, q) \/ DeleteRecord(s, q)
               \/ \E q \in Rids, k \in Keys : InsertRecord(s, q, k)
               \/ \E q, q2 \in Rids, k \in Keys : UpdateRecord(s, q, q2, k)
               \/ \E op \in Operation : CommitOperation(s, op) \/ RollbackOperation(s, op)
        PROVE  trx_id' = trx_id
    BY <1>3 DEF CloseStatement, Commit, StartCommit, FinishCommit, Rollback, FinishRollback,
                WriteConflict, DeleteRecord, InsertRecord, UpdateRecord, CommitOperation,
                RollbackOperation, trxVars
  <1>4. CASE UNCHANGED vars
    BY <1>4 DEF vars, trxVars
  <1> QED
    BY <1>1, <1>2, <1>3, <1>4 DEF Next

\* A running commit keeps its id; the id of a new one is the next of the
\* counter.
LEMMA CommitIds ==
  ASSUME IInv, [Next]_vars, NEW t \in Sessions, phase'[t] = "commit"
  PROVE  \/ phase[t] = "commit" /\ commit_xid'[t] = commit_xid[t]
         \/ commit_xid'[t] = current_trx_id + 1 /\ trx_id' = trx_id
  <1>0. /\ commit_xid \in [Sessions -> Int]
        /\ phase \in [Sessions -> {"idle", "stmt", "close", "commit", "rollback"}]
    BY DEF IInv, TypeOK
  <1>1. ASSUME NEW s \in Sessions, CloseStatement(s) \/ Commit(s)
        PROVE  \/ phase[t] = "commit" /\ commit_xid'[t] = commit_xid[t]
               \/ commit_xid'[t] = current_trx_id + 1 /\ trx_id' = trx_id
    <2>1. CASE StartCommit(s)
      BY <1>0, <2>1 DEF StartCommit
    <2>2. CASE ~StartCommit(s)
      BY <1>0, <1>1, <2>2 DEF CloseStatement, Commit, trxVars
    <2> QED
      BY <2>1, <2>2
  <1>2. ASSUME NEW s \in Sessions,
               \/ Begin(s) \/ OpenStatement(s) \/ FinishCommit(s) \/ Rollback(s) \/ FinishRollback(s)
               \/ Disconnect(s)
               \/ \E q \in Rids : WriteConflict(s, q) \/ DeleteRecord(s, q)
               \/ \E q \in Rids, k \in Keys : InsertRecord(s, q, k)
               \/ \E q, q2 \in Rids, k \in Keys : UpdateRecord(s, q, q2, k)
               \/ \E op \in Operation : CommitOperation(s, op) \/ RollbackOperation(s, op)
        PROVE  phase[t] = "commit" /\ commit_xid'[t] = commit_xid[t]
    BY <1>0, <1>2, ZenonT(60) DEF Begin, OpenStatement, FinishCommit, Rollback, FinishRollback, Disconnect,
                WriteConflict, DeleteRecord, InsertRecord, UpdateRecord, CommitOperation,
                RollbackOperation, trxVars
  <1>3. CASE UNCHANGED vars
    BY <1>3 DEF vars, trxVars
  <1> QED
    BY <1>1, <1>2, <1>3 DEF Next

\* The ids of transactions stay apart from the commit ids.
LEMMA PlainIdsStep ==
  ASSUME RInv, PlainWorkload, [Next]_vars
  PROVE  PlainIds'
  <1> SUFFICES ASSUME NEW u \in Sessions, trx_id'[u] > 0
               PROVE  /\ \A q \in Rids : rows'[q] /= NoRow => rows'[q].begin /= trx_id'[u]
                      /\ \A t \in Sessions : phase'[t] = "commit" => commit_xid'[t] /= trx_id'[u]
    BY DEF PlainIds
  <1>1. /\ current_trx_id \in Nat /\ \A t \in Sessions : trx_id[t] \in Int /\ commit_xid[t] \in Int
        /\ \A t \in Sessions : trx_id[t] <= current_trx_id
        /\ \A t \in Sessions : phase[t] = "commit" => commit_xid[t] <= current_trx_id
    <2>1. current_trx_id \in Nat /\ \A t \in Sessions : trx_id[t] \in Int /\ commit_xid[t] \in Int
      BY DEF RInv, IInv, TypeOK
    <2>2. \A t \in Sessions : trx_id[t] <= current_trx_id
      BY <2>1 DEF RInv, IInv, TrxIds, NoTrxId
    <2>3. \A t \in Sessions : phase[t] = "commit" => commit_xid[t] <= current_trx_id
      BY <2>1 DEF RInv, IInv, Phases
    <2> QED
      BY <2>1, <2>2, <2>3
  <1>2. \A q \in Rids : rows[q] /= NoRow => rows[q].begin \in Int /\ rows[q].begin <= current_trx_id
    BY DEF RInv, IInv, TypeOK, Row, XidOrder
  <1>3. CASE trx_id'[u] = trx_id[u]
    <2>1. ASSUME NEW q \in Rids, rows'[q] /= NoRow PROVE rows'[q].begin /= trx_id[u]
      BY <1>1, <1>3, <2>1, BeginColumns DEF RInv, PlainIds
    <2>2. ASSUME NEW t \in Sessions, phase'[t] = "commit" PROVE commit_xid'[t] /= trx_id[u]
      BY <1>1, <1>3, <2>2, CommitIds DEF RInv, PlainIds
    <2> QED
      BY <1>3, <2>1, <2>2
  <1>4. CASE trx_id'[u] = NoTrxId
    BY <1>4 DEF NoTrxId
  <1>5. CASE /\ trx_id'[u] = current_trx_id + 1 /\ commit_xid' = commit_xid /\ rows' = rows
             /\ \A t \in Sessions : phase'[t] = "commit" => phase[t] = "commit"
    BY <1>1, <1>2, <1>5
  <1> QED
    BY <1>3, <1>4, <1>5, IdColumns DEF RInv

\* A new database satisfies the invariant and every handler keeps it.
THEOREM PlainInvariance == PlainWorkload => (Spec => []RInv)
  <1> SUFFICES ASSUME PlainWorkload PROVE Spec => []RInv
    OBVIOUS
  <1>1. Init => RInv
    BY InvInit DEF Init, RInv, PlainIds, OwnInserts, NoTrxId
  <1>2. RInv /\ [Next]_vars => RInv'
    BY InvStep, OwnInsertsStep, PlainIdsStep DEF RInv
  <1> QED
    BY <1>1, <1>2, PTL DEF Spec

-----------------------------------------------------------------------------
(* The refinement of RowLifecycle.                                         *)

\* The two version columns of a record.
Columns(row) == IF row = NoRow THEN NoRow ELSE [begin |-> row.begin, end |-> row.end]

\* The refinement mapping of MvccTrx!Lifecycle.
Version == [r \in Rids |-> IF rows[r] = NoRow THEN NoRow
              ELSE [begin |-> rows[r].begin, end |-> rows[r].end]]

\* A change of one record changes one place of the mapped state.
LEMMA VersionChange ==
  ASSUME NEW r \in Rids, Elsewhere(r)
  PROVE  Version' = [Version EXCEPT ![r] = Columns(rows'[r])]
  BY DEF Version, Columns, Elsewhere

\* The mapped state of one record.
LEMMA VersionOf ==
  ASSUME NEW r \in Rids, rows[r] \in Row
  PROVE  /\ Version[r] = [begin |-> rows[r].begin, end |-> rows[r].end]
         /\ Version[r] /= NoRow
         /\ rows[r].begin \in Int /\ rows[r].end \in Int
  BY NoRowAssumption DEF Version, Row

\* The six changes are the six moves of the table.
LEMMA ChangeIsMove ==
  ASSUME IInv, PlainIds, RowChanged
  PROVE  Lifecycle!Next
  <1>1. PICK s \in Sessions, r \in Rids :
          \/ \E k \in Keys : RowInserted(s, r, k)
          \/ RowDeleted(s, r)
          \/ InsertCommitted(s, r) \/ DeleteCommitted(s, r)
          \/ InsertUndone(s, r) \/ DeleteUndone(s, r)
    BY DEF RowChanged
  <1>2. MaxTrxId \in Nat \ {0} /\ trx_id[s] \in Int /\ commit_xid[s] \in Int
    BY ConstantsAssumption DEF IInv, TypeOK
  <1>3. ASSUME NEW k \in Keys, RowInserted(s, r, k) PROVE Lifecycle!Insert(r)
    <2> DEFINE new == [begin |-> -trx_id[s], end |-> MaxTrxId, key |-> k]
    <2>1. new \in Row
      BY <1>2 DEF Row
    <2>2. Columns(rows'[r]) = [begin |-> -trx_id[s], end |-> MaxTrxId]
      BY <1>3, <2>1, NoRowAssumption DEF Columns, RowInserted
    <2>3. Version' = [Version EXCEPT ![r] = [begin |-> -trx_id[s], end |-> MaxTrxId]]
      BY <1>3, <2>2, VersionChange DEF RowInserted
    <2>4. Version[r] = NoRow
      BY <1>3 DEF RowInserted, Version
    <2>5. trx_id[s] \in 1 .. MaxTrxId - 1
      BY <1>3 DEF RowInserted, Started
    <2> QED
      BY <2>3, <2>4, <2>5 DEF Lifecycle!Insert, Version
  <1>4. ASSUME RowDeleted(s, r) PROVE Lifecycle!Delete(r)
    <2>1. /\ Version[r] = [begin |-> rows[r].begin, end |-> rows[r].end] /\ Version[r] /= NoRow
          /\ rows[r].begin \in Int
      BY <1>4, VersionOf DEF RowDeleted
    <2>2. rows[r].begin /= trx_id[s]
      BY <1>2, <1>4, NoRowAssumption DEF RowDeleted, PlainIds, Started
    <2>3. trx_id[s] \in rows[r].begin + 1 .. MaxTrxId - 1
      BY <1>2, <1>4, <2>1, <2>2 DEF RowDeleted, Started
    <2>4. Columns(rows'[r]) = [Version[r] EXCEPT !.end = -trx_id[s]]
      <3>1. rows'[r] \in Row /\ rows'[r].begin = rows[r].begin /\ rows'[r].end = -trx_id[s]
        BY <1>2, <1>4 DEF RowDeleted, Row
      <3> QED
        BY <2>1, <3>1, NoRowAssumption DEF Columns
    <2>5. Version' = [Version EXCEPT ![r].end = -trx_id[s]]
      BY <1>4, <2>4, VersionChange DEF RowDeleted
    <2>6. Version[r].begin > 0 /\ Version[r].end = MaxTrxId /\ trx_id[s] \in Version[r].begin + 1 .. MaxTrxId - 1
      BY <1>2, <1>4, <2>1, <2>3 DEF RowDeleted
    <2> QED
      BY <2>1, <2>5, <2>6 DEF Lifecycle!Delete, Lifecycle!Inserted, Version
  <1>5. ASSUME InsertCommitted(s, r) PROVE Lifecycle!CommitInsert(r)
    <2>1. /\ Version[r] = [begin |-> rows[r].begin, end |-> rows[r].end] /\ Version[r] /= NoRow
          /\ rows[r].begin \in Int
      BY <1>5, VersionOf DEF InsertCommitted
    <2>2. Columns(rows'[r]) = [Version[r] EXCEPT !.begin = commit_xid[s]]
      <3>1. rows'[r] \in Row /\ rows'[r].end = rows[r].end /\ rows'[r].begin = commit_xid[s]
        BY <1>2, <1>5 DEF InsertCommitted, Row
      <3> QED
        BY <2>1, <3>1, NoRowAssumption DEF Columns
    <2>3. Version' = [Version EXCEPT ![r].begin = commit_xid[s]]
      BY <1>5, <2>2, VersionChange DEF InsertCommitted
    <2>4. /\ Version[r].begin < 0 /\ Version[r].end = MaxTrxId
          /\ commit_xid[s] \in 1 - Version[r].begin .. MaxTrxId - 1
      BY <1>2, <1>5, <2>1 DEF InsertCommitted, Started, Committing
    <2> QED
      BY <2>1, <2>3, <2>4 DEF Lifecycle!CommitInsert, Lifecycle!Inserting, Version
  <1>6. ASSUME DeleteCommitted(s, r) PROVE Lifecycle!CommitDelete(r)
    <2>1. /\ Version[r] = [begin |-> rows[r].begin, end |-> rows[r].end] /\ Version[r] /= NoRow
          /\ rows[r].begin \in Int
      BY <1>6, VersionOf DEF DeleteCommitted
    <2>2. Columns(rows'[r]) = [Version[r] EXCEPT !.end = commit_xid[s]]
      <3>1. rows'[r] \in Row /\ rows'[r].begin = rows[r].begin /\ rows'[r].end = commit_xid[s]
        BY <1>2, <1>6 DEF DeleteCommitted, Row
      <3> QED
        BY <2>1, <3>1, NoRowAssumption DEF Columns
    <2>3. Version' = [Version EXCEPT ![r].end = commit_xid[s]]
      BY <1>6, <2>2, VersionChange DEF DeleteCommitted
    <2>4. /\ Version[r].begin > 0 /\ Version[r].end < 0
          /\ commit_xid[s] \in 1 - Version[r].end .. MaxTrxId - 1
      BY <1>2, <1>6, <2>1 DEF DeleteCommitted, Started, Committing
    <2> QED
      BY <2>1, <2>3, <2>4 DEF Lifecycle!CommitDelete, Lifecycle!Deleting, Version
  <1>7. ASSUME InsertUndone(s, r) PROVE Lifecycle!AbortInsert(r)
    <2>1. /\ Version[r] = [begin |-> rows[r].begin, end |-> rows[r].end] /\ Version[r] /= NoRow
          /\ rows[r].begin \in Int
      BY <1>7, VersionOf DEF InsertUndone
    <2>2. Version' = [Version EXCEPT ![r] = NoRow]
      BY <1>7, VersionChange DEF InsertUndone, Columns
    <2>3. Version[r].begin < 0 /\ Version[r].end = MaxTrxId
      BY <1>2, <1>7, <2>1 DEF InsertUndone, Started
    <2> QED
      BY <2>1, <2>2, <2>3 DEF Lifecycle!AbortInsert, Lifecycle!Inserting, Version
  <1>8. ASSUME DeleteUndone(s, r) PROVE Lifecycle!AbortDelete(r)
    <2>1. /\ Version[r] = [begin |-> rows[r].begin, end |-> rows[r].end] /\ Version[r] /= NoRow
          /\ rows[r].begin \in Int
      BY <1>8, VersionOf DEF DeleteUndone
    <2>2. Columns(rows'[r]) = [Version[r] EXCEPT !.end = MaxTrxId]
      <3>1. rows'[r] \in Row /\ rows'[r].begin = rows[r].begin /\ rows'[r].end = MaxTrxId
        BY <1>2, <1>8 DEF DeleteUndone, Row
      <3> QED
        BY <2>1, <3>1, NoRowAssumption DEF Columns
    <2>3. Version' = [Version EXCEPT ![r].end = MaxTrxId]
      BY <1>8, <2>2, VersionChange DEF DeleteUndone
    <2>4. Version[r].begin > 0 /\ Version[r].end < 0
      BY <1>2, <1>8, <2>1 DEF DeleteUndone, Started
    <2> QED
      BY <2>1, <2>3, <2>4 DEF Lifecycle!AbortDelete, Lifecycle!Deleting, Version
  <1> QED
    BY <1>1, <1>3, <1>4, <1>5, <1>6, <1>7, <1>8 DEF Lifecycle!Next

\* Without updates and writes to own insertions, every record's version columns
\* move along the table of docs/src/design/miniob-transaction.md and no other
\* way, whatever statements, commits, rollbacks and disconnections interleave:
\* MvccTrx implements RowLifecycle.
THEOREM FollowsTheTable == PlainWorkload => (Spec => LifecycleSpec)
  <1> SUFFICES ASSUME PlainWorkload PROVE Spec => LifecycleSpec
    OBVIOUS
  <1>1. Init => Lifecycle!Init
    BY DEF Init, Lifecycle!Init
  <1>2. RInv /\ [Next]_vars => [Lifecycle!Next]_Version
    <2> SUFFICES ASSUME RInv, [Next]_vars PROVE Lifecycle!Next \/ Version' = Version
      OBVIOUS
    <2>1. CASE UNCHANGED <<rows, index>>
      BY <2>1 DEF Version
    <2>2. CASE RowChanged
      BY <2>2, ChangeIsMove DEF RInv
    <2> QED
      BY <2>1, <2>2, StepChanges DEF RInv
  <1> QED
    BY <1>1, <1>2, PlainInvariance, PTL DEF Spec, LifecycleSpec, Lifecycle!Spec, Version

-----------------------------------------------------------------------------
(* No mark outlives its transaction.                                       *)

\* The transaction of session s answers for the mark x on record r.
Answers(s, x, r) ==
  Active(s) /\ trx_id[s] = -x /\ \E op \in Pending(s) : op.rid = r

\* A session whose transaction answers for something goes on answering for it,
\* except for the operations of gone.
Keeps(t, gone) ==
  Pending(t) /= {} => Active(t)' /\ trx_id'[t] = trx_id[t] /\ Pending(t) \ gone \subseteq Pending(t)'

\* The marks of a record that a step does not touch keep their owners.
LEMMA OwnersKept ==
  ASSUME MarksHaveOwners, NEW r \in Rids, rows'[r] = rows[r], rows[r] /= NoRow, NEW gone,
         \A op \in gone : op.rid /= r, \A t \in Sessions : Keeps(t, gone)
  PROVE  \A x \in {rows'[r].begin, rows'[r].end} :
           x < 0 => \E t \in Sessions : Answers(t, x, r)'
  <1> SUFFICES ASSUME NEW x \in {rows[r].begin, rows[r].end}, x < 0
               PROVE  \E t \in Sessions : Answers(t, x, r)'
    OBVIOUS
  <1>1. PICK t \in Sessions : Answers(t, x, r)
    BY DEF MarksHaveOwners, Answers
  <1>2. PICK op \in Pending(t) : op.rid = r
    BY <1>1 DEF Answers
  <1>3. op \in Pending(t)' /\ Active(t)' /\ trx_id'[t] = trx_id[t]
    BY <1>2 DEF Keeps
  <1> QED
    BY <1>1, <1>2, <1>3 DEF Answers

\* What is left to show of a step that changes one record.
LEMMA MarksFrom ==
  ASSUME MarksHaveOwners, NEW r \in Rids, \A q \in Rids \ {r} : rows'[q] = rows[q],
         NEW gone, \A op \in gone : op.rid = r, \A t \in Sessions : Keeps(t, gone),
         rows'[r] /= NoRow => \A x \in {rows'[r].begin, rows'[r].end} :
                                x < 0 => \E t \in Sessions : Answers(t, x, r)'
  PROVE  MarksHaveOwners'
  <1> SUFFICES ASSUME NEW q \in Rids, rows'[q] /= NoRow
               PROVE  \A x \in {rows'[q].begin, rows'[q].end} :
                        x < 0 => \E t \in Sessions : Answers(t, x, q)'
    BY DEF MarksHaveOwners, Answers
  <1>1. CASE q = r
    BY <1>1
  <1>2. CASE q /= r
    <2>1. rows'[q] = rows[q] /\ \A op \in gone : op.rid /= q
      BY <1>2
    <2> QED
      BY <2>1, OwnersKept
  <1> QED
    BY <1>1, <1>2

\* A step that leaves the table alone.
LEMMA MarksQuiet ==
  ASSUME MarksHaveOwners, rows' = rows, \A t \in Sessions : Keeps(t, {})
  PROVE  MarksHaveOwners'
  <1> SUFFICES ASSUME NEW q \in Rids, rows'[q] /= NoRow
               PROVE  \A x \in {rows'[q].begin, rows'[q].end} :
                        x < 0 => \E t \in Sessions : Answers(t, x, q)'
    BY DEF MarksHaveOwners, Answers
  <1> QED
    BY OwnersKept

\* An operator that adds one operation to the set of its transaction.
LEMMA OperationAdded ==
  ASSUME IInv, NEW s \in Sessions, NEW r \in Rids, NEW type \in {"INSERT", "DELETE"},
         phase[s] = "stmt", UNCHANGED <<trx_id, started, phase, todo>>,
         operations' = [operations EXCEPT ![s] = AddOperation(@, type, r)]
  PROVE  /\ \A t \in Sessions : Keeps(t, {})
         /\ Active(s)' /\ \E op \in Pending(s)' : op.rid = r
  <1>1. operations \in [Sessions -> SUBSET Operation]
    BY DEF IInv, TypeOK
  <1>2. /\ operations'[s] = AddOperation(operations[s], type, r)
        /\ \A t \in Sessions \ {s} : operations'[t] = operations[t]
    BY <1>1
  <1>3. operations[s] \subseteq operations'[s] /\ \E op \in operations'[s] : op.rid = r
    <2>1. CASE \E op \in operations[s] : op.rid = r
      BY <1>2, <2>1 DEF AddOperation
    <2>2. CASE ~\E op \in operations[s] : op.rid = r
      <3>1. operations'[s] = operations[s] \cup {[type |-> type, rid |-> r]}
        BY <1>2, <2>2 DEF AddOperation
      <3>2. [type |-> type, rid |-> r].rid = r
        OBVIOUS
      <3> QED
        BY <3>1, <3>2
    <2> QED
      BY <2>1, <2>2
  <1>4. started[s]
    BY DEF IInv, Phases
  <1>5. \A t \in Sessions : Pending(t) /= {} => Active(t)
    BY DEF IInv, Phases, Pending, Active, Ending
  <1>6. \A t \in Sessions : Active(t)' = Active(t) /\ Pending(t) \subseteq Pending(t)'
    BY <1>2, <1>3 DEF Active, Pending
  <1>7. Pending(s)' = operations'[s]
    BY DEF Pending
  <1> QED
    BY <1>3, <1>4, <1>5, <1>6, <1>7 DEF Keeps, Active

\* A commit or rollback takes one operation off its list.
LEMMA OperationVisited ==
  ASSUME IInv, NEW s \in Sessions, NEW op \in todo[s], phase[s] \in Ending,
         UNCHANGED <<trx_id, started, phase, operations>>, todo' = [todo EXCEPT ![s] = @ \ {op}]
  PROVE  \A t \in Sessions : Keeps(t, {op})
  <1>1. todo \in [Sessions -> SUBSET Operation]
    BY DEF IInv, TypeOK
  <1>2. \A t \in Sessions : todo'[t] = todo[t] \/ todo'[t] = todo[t] \ {op}
    BY <1>1
  <1>3. \A t \in Sessions : Pending(t) /= {} => Active(t)
    BY DEF IInv, Phases, Pending, Active, Ending
  <1>4. \A t \in Sessions : Active(t)' = Active(t) /\ Pending(t) \ {op} \subseteq Pending(t)'
    BY <1>2 DEF Active, Pending
  <1> QED
    BY <1>3, <1>4 DEF Keeps

\* The handlers that do not write records and do not end a session let every
\* transaction go on answering for its marks.
LEMMA OtherHandlersKeep ==
  ASSUME IInv, NEW s \in Sessions,
         \/ Begin(s) \/ OpenStatement(s) \/ CloseStatement(s) \/ Commit(s) \/ FinishCommit(s)
         \/ Rollback(s) \/ FinishRollback(s)
         \/ \E q \in Rids : WriteConflict(s, q)
         \/ \E q \in Rids, k \in Keys : InsertRecord(s, q, k) /\ DuplicateKey(index, k, q)
  PROVE  \A t \in Sessions : Keeps(t, {})
  <1> SUFFICES ASSUME NEW t \in Sessions, Pending(t) /= {}
               PROVE  Active(t)' /\ trx_id'[t] = trx_id[t] /\ Pending(t) \subseteq Pending(t)'
    BY DEF Keeps
  <1>0. /\ trx_id \in [Sessions -> Int] /\ started \in [Sessions -> BOOLEAN]
        /\ phase \in [Sessions -> {"idle", "stmt", "close", "commit", "rollback"}]
        /\ operations \in [Sessions -> SUBSET Operation] /\ todo \in [Sessions -> SUBSET Operation]
    BY DEF IInv, TypeOK
  <1>1. Active(t) /\ (phase[t] \notin Ending => started[t] /\ todo[t] = {}) /\ todo[t] \subseteq operations[t]
    BY DEF IInv, Phases, Pending, Active, Ending
  <1>2. CASE t /= s
    <2>1. phase'[t] = phase[t] /\ operations'[t] = operations[t] /\ todo'[t] = todo[t] /\ trx_id'[t] = trx_id[t]
      BY <1>0, <1>2 DEF Begin, OpenStatement, StartIfNeed, CloseStatement, Commit, StartCommit,
           FinishCommit, Rollback, FinishRollback, WriteConflict, InsertRecord, trxVars
    <2>2. started'[t] = started[t]
      BY <1>0, <1>2 DEF Begin, OpenStatement, StartIfNeed, CloseStatement, Commit, StartCommit,
           FinishCommit, Rollback, FinishRollback, WriteConflict, InsertRecord, trxVars
    <2> QED
      BY <1>1, <2>1, <2>2 DEF Active, Pending
  <1>3. CASE t = s /\ (Begin(s) \/ OpenStatement(s))
    <2>1. phase[s] = "idle" /\ started[s]
      BY <1>1, <1>3 DEF Begin, OpenStatement, Ending
    <2>2. UNCHANGED <<trx_id, started, operations>> /\ phase'[s] \in {"idle", "stmt"}
      BY <1>0, <1>3, <2>1 DEF Begin, OpenStatement, StartIfNeed
    <2> QED
      BY <1>3, <2>1, <2>2 DEF Active, Pending
  <1>4. CASE t = s /\ (FinishCommit(s) \/ FinishRollback(s))
    BY <1>4 DEF FinishCommit, FinishRollback, Pending
  <1>5. CASE t = s /\ (Rollback(s) \/ Commit(s) \/ (CloseStatement(s) /\ ~multi[s]))
    <2>1. /\ phase[s] \notin Ending /\ trx_id' = trx_id /\ phase'[s] \in Ending
          /\ todo'[s] = operations[s]
      BY <1>0, <1>5 DEF Rollback, Commit, CloseStatement, StartCommit, Ending
    <2> QED
      BY <1>5, <2>1 DEF Active, Pending, Ending
  <1>6. CASE /\ t = s
             /\ \/ CloseStatement(s) /\ multi[s]
                \/ \E q \in Rids : WriteConflict(s, q)
                \/ \E q \in Rids, k \in Keys : InsertRecord(s, q, k) /\ DuplicateKey(index, k, q)
    <2>1. /\ phase[s] \notin Ending /\ phase'[s] \notin Ending
          /\ UNCHANGED <<trx_id, started, operations>>
      BY <1>0, <1>6 DEF CloseStatement, WriteConflict, InsertRecord, trxVars, Ending
    <2> QED
      BY <1>1, <1>6, <2>1 DEF Active, Pending, Ending
  <1> QED
    BY <1>2, <1>3, <1>4, <1>5, <1>6

\* Every step leaves every mark with an owner.
LEMMA MarksStep ==
  ASSUME RInv, MarksHaveOwners, PlainWorkload, "disconnect" \notin Workload, [Next]_vars
  PROVE  MarksHaveOwners'
  <1>0. IInv /\ OwnInserts
    BY DEF RInv
  <1>1. ASSUME NEW s \in Sessions,
               \/ Begin(s) \/ OpenStatement(s) \/ CloseStatement(s) \/ Commit(s) \/ FinishCommit(s)
               \/ Rollback(s) \/ FinishRollback(s)
               \/ \E q \in Rids : WriteConflict(s, q)
        PROVE  MarksHaveOwners'
    <2>1. \A t \in Sessions : Keeps(t, {})
      BY <1>0, <1>1, OtherHandlersKeep
    <2>2. rows' = rows
      BY <1>1, OtherHandlers
    <2> QED
      BY <2>1, <2>2, MarksQuiet
  <1>2. ASSUME NEW s \in Sessions, NEW r \in Rids, NEW k \in Keys, InsertRecord(s, r, k)
        PROVE  MarksHaveOwners'
    <2>1. CASE DuplicateKey(index, k, r)
      <3>1. \A t \in Sessions : Keeps(t, {})
        BY <1>0, <1>2, <2>1, OtherHandlersKeep
      <3>2. rows' = rows
        BY <1>2, <2>1 DEF InsertRecord, tableVars
      <3> QED
        BY <3>1, <3>2, MarksQuiet
    <2>2. CASE ~DuplicateKey(index, k, r)
      <3>1. /\ phase[s] = "stmt" /\ UNCHANGED <<trx_id, started, phase, todo>>
            /\ operations' = [operations EXCEPT ![s] = AddOperation(@, "INSERT", r)]
            /\ rows' = [rows EXCEPT ![r] = [begin |-> -trx_id[s], end |-> MaxTrxId, key |-> k]]
        BY <1>2, <2>2 DEF InsertRecord
      <3>2. /\ \A t \in Sessions : Keeps(t, {})
            /\ Active(s)' /\ \E op \in Pending(s)' : op.rid = r
        BY <1>0, <3>1, OperationAdded
      <3>3. /\ rows'[r] = [begin |-> -trx_id[s], end |-> MaxTrxId, key |-> k]
            /\ \A q \in Rids \ {r} : rows'[q] = rows[q]
        BY <1>0, <3>1 DEF IInv, TypeOK
      <3>4. trx_id'[s] = -(-trx_id[s])
        BY <1>0, <3>1 DEF IInv, TypeOK
      <3>5. \A x \in {rows'[r].begin, rows'[r].end} : x < 0 => \E t \in Sessions : Answers(t, x, r)'
        <4> SUFFICES ASSUME NEW x \in {rows'[r].begin, rows'[r].end}, x < 0 PROVE Answers(s, x, r)'
          OBVIOUS
        <4>1. x = -trx_id[s]
          BY <3>3, ConstantsAssumption
        <4> QED
          BY <3>2, <3>4, <4>1 DEF Answers
      <3> QED
        BY <3>2, <3>3, <3>5, MarksFrom
    <2> QED
      BY <2>1, <2>2
  <1>3. ASSUME NEW s \in Sessions, NEW r \in Rids, DeleteRecord(s, r)
        PROVE  MarksHaveOwners'
    <2>1. /\ phase[s] = "stmt" /\ UNCHANGED <<trx_id, started, phase, todo>>
          /\ operations' = [operations EXCEPT ![s] = AddOperation(@, "DELETE", r)]
      BY <1>3 DEF DeleteRecord
    <2>2. /\ \A t \in Sessions : Keeps(t, {})
          /\ Active(s)' /\ \E op \in Pending(s)' : op.rid = r
      BY <1>0, <2>1, OperationAdded
    <2>3. RowDeleted(s, r)
      BY <1>0, <1>3, DeleteChange
    <2>4. rows'[r].begin > 0 /\ rows'[r].begin \in Int /\ rows'[r].end = -trx_id[s]
      BY <2>3 DEF RowDeleted, Row
    <2>5. trx_id'[s] = -(-trx_id[s])
      BY <1>0, <2>1 DEF IInv, TypeOK
    <2>6. \A x \in {rows'[r].begin, rows'[r].end} : x < 0 => \E t \in Sessions : Answers(t, x, r)'
      <3> SUFFICES ASSUME NEW x \in {rows'[r].begin, rows'[r].end}, x < 0 PROVE Answers(s, x, r)'
        OBVIOUS
      <3>1. x = -trx_id[s]
        BY <2>4
      <3> QED
        BY <2>2, <2>5, <3>1 DEF Answers
    <2> QED
      BY <2>2, <2>3, <2>6, MarksFrom DEF RowDeleted, Elsewhere
  <1>4. ASSUME NEW s \in Sessions, NEW op \in Operation, CommitOperation(s, op)
        PROVE  MarksHaveOwners'
    <2>1. /\ op \in todo[s] /\ phase[s] \in Ending /\ op.rid \in Rids
          /\ UNCHANGED <<trx_id, started, phase, operations>> /\ todo' = [todo EXCEPT ![s] = @ \ {op}]
      BY <1>4 DEF CommitOperation, Ending, Operation
    <2>2. \A t \in Sessions : Keeps(t, {op})
      BY <1>0, <2>1, OperationVisited
    <2>3. InsertCommitted(s, op.rid) \/ DeleteCommitted(s, op.rid)
      BY <1>0, <1>4, CommitChange DEF Operation
    <2>4. ~(rows'[op.rid].begin < 0) /\ ~(rows'[op.rid].end < 0) /\ Elsewhere(op.rid)
      BY <2>3, ConstantsAssumption DEF InsertCommitted, DeleteCommitted, Started, Committing, Row
    <2> QED
      BY <2>1, <2>2, <2>4, MarksFrom DEF Elsewhere
  <1>5. ASSUME NEW s \in Sessions, NEW op \in Operation, RollbackOperation(s, op)
        PROVE  MarksHaveOwners'
    <2>1. /\ op \in todo[s] /\ phase[s] \in Ending /\ op.rid \in Rids
          /\ UNCHANGED <<trx_id, started, phase, operations>> /\ todo' = [todo EXCEPT ![s] = @ \ {op}]
      BY <1>5 DEF RollbackOperation, Ending, Operation
    <2>2. \A t \in Sessions : Keeps(t, {op})
      BY <1>0, <2>1, OperationVisited
    <2>3. InsertUndone(s, op.rid) \/ DeleteUndone(s, op.rid)
      BY <1>0, <1>5, RollbackChange DEF Operation
    <2>4. /\ rows'[op.rid] /= NoRow => ~(rows'[op.rid].begin < 0) /\ ~(rows'[op.rid].end < 0)
          /\ Elsewhere(op.rid)
      BY <2>3, ConstantsAssumption DEF InsertUndone, DeleteUndone, Row
    <2> QED
      BY <2>1, <2>2, <2>4, MarksFrom DEF Elsewhere
  <1>6. CASE UNCHANGED vars
    BY <1>6 DEF vars, kitVars, tableVars, trxVars, MarksHaveOwners, Active, Pending
  <1>7. ASSUME NEW s \in Sessions,
               Disconnect(s) \/ \E r, r2 \in Rids, k \in Keys : UpdateRecord(s, r, r2, k)
        PROVE  FALSE
    BY <1>7 DEF Disconnect, UpdateRecord, PlainWorkload
  <1> QED
    BY <1>1, <1>2, <1>3, <1>4, <1>5, <1>6, <1>7 DEF Next

\* Without updates, writes to own insertions and disconnections, every negative
\* id on a record is the id of a transaction that is still open or being ended
\* and has the record in its operation set: no record stays locked for ever.
THEOREM MarksOwned ==
  PlainWorkload /\ "disconnect" \notin Workload => (Spec => []MarksHaveOwners)
  <1> SUFFICES ASSUME PlainWorkload, "disconnect" \notin Workload PROVE Spec => []MarksHaveOwners
    OBVIOUS
  <1>1. Init => MarksHaveOwners
    BY DEF Init, MarksHaveOwners
  <1>2. RInv /\ MarksHaveOwners /\ [Next]_vars => MarksHaveOwners'
    BY MarksStep
  <1> QED
    BY <1>1, <1>2, PlainInvariance, PTL DEF Spec
=============================================================================
