------------------------------- MODULE MvccTrx -------------------------------
(***************************************************************************)
(* The multi-version transactions of storage/trx/mvcc_trx.cpp as the SQL   *)
(* layer drives them: sessions open a statement (SqlResult::open), the     *)
(* physical operators insert, delete and update records through the trx,   *)
(* the statement is closed (SqlResult::close, which commits in auto-commit *)
(* mode), and BEGIN / COMMIT / ROLLBACK are the two trx executors.         *)
(*                                                                         *)
(* One table with one index.  A row carries the two hidden columns         *)
(* __trx_xid_begin and __trx_xid_end and the indexed column.  A negative   *)
(* xid is the mark of a transaction that has not finished.  The page latch *)
(* of the scan covers visit_record and the modification that follows it,   *)
(* so each operator call is one step; commit and rollback walk the         *)
(* operation set one record at a time, latching each page separately, so   *)
(* other sessions run between two records.                                 *)
(*                                                                         *)
(* ASSERT is compiled in with DEBUG only (common/log/log.h): the build     *)
(* without it goes on, which is what the actions do; the build with it     *)
(* makes the same steps and stops at the first assertion that fails, so    *)
(* its behaviours are beginnings of these.  Which assertions can fail is   *)
(* what AssertionsFailOnOwnOnly says.                                      *)
(*                                                                         *)
(* The commit log the handlers write to is the other component:            *)
(* TrxRecovery extends this module and conjoins to every action the        *)
(* records it appends to the log.                                          *)
(***************************************************************************)
EXTENDS Integers

CONSTANTS
  Sessions,    \* client sessions, each with its own Trx object
  Rids,        \* record ids: the slots of the table's pages
  Keys,        \* values of the indexed column
  NoRow,       \* what an unused slot holds
  Unique,      \* whether the index is a unique index
  Workload,    \* the kinds of statement the clients issue
  MaxTrxId     \* MvccTrxKit::max_trx_id(), the "+infinity" of end_xid

(***************************************************************************)
(* "insert", "delete", "update", "rollback": the statements of that name;  *)
(* "own": a transaction also deletes or updates rows it inserted itself;   *)
(* "stray": COMMIT or ROLLBACK is sent outside a transaction;              *)
(* "disconnect": a client goes away with its transaction open.             *)
(***************************************************************************)
AllWorkload == {"insert", "delete", "update", "rollback", "own", "stray", "disconnect"}

ASSUME ConstantsAssumption ==
  /\ MaxTrxId \in Nat \ {0}
  /\ Unique \in BOOLEAN
  /\ Workload \subseteq AllWorkload

Row == [begin : Int, end : Int, key : Keys]

ASSUME NoRowAssumption == NoRow \notin Row /\ NoRow \notin [begin : Int, end : Int]

VARIABLES
  current_trx_id,  \* MvccTrxKit::current_trx_id_
  rows,            \* table pages: rid -> row, or NoRow when the slot is free
  index,           \* the index's entries, pairs <<key, rid>>
  trx_id,          \* MvccTrx::trx_id_ of each session
  started,         \* MvccTrx::started_
  operations,      \* MvccTrx::operations_
  multi,           \* Session::trx_multi_operation_mode_
  phase,           \* what the session's worker thread is doing
  todo,            \* operations the running commit or rollback has not visited
  commit_xid       \* the commit id drawn by the running commit

kitVars == <<current_trx_id>>
tableVars == <<rows, index>>
trxVars == <<trx_id, started, operations, commit_xid, todo>>
vars == <<kitVars, tableVars, trxVars, multi, phase>>

Operation == [type : {"INSERT", "DELETE"}, rid : Rids]

TypeOK ==
  /\ current_trx_id \in Nat
  /\ rows \in [Rids -> Row \cup {NoRow}]
  /\ index \subseteq Keys \X Rids
  /\ trx_id \in [Sessions -> Int]
  /\ started \in [Sessions -> BOOLEAN]
  /\ operations \in [Sessions -> SUBSET Operation]
  /\ multi \in [Sessions -> BOOLEAN]
  /\ phase \in [Sessions -> {"idle", "stmt", "close", "commit", "rollback"}]
  /\ todo \in [Sessions -> SUBSET Operation]
  /\ commit_xid \in [Sessions -> Int]

(***************************************************************************)
(* A fresh database: tables are created empty, sessions have no Trx yet    *)
(* (its trx_id_ is -1 until the first start_if_need).                      *)
(***************************************************************************)
NoTrxId == -1

Init ==
  /\ current_trx_id = 0
  /\ rows = [r \in Rids |-> NoRow]
  /\ index = {}
  /\ trx_id = [s \in Sessions |-> NoTrxId]
  /\ started = [s \in Sessions |-> FALSE]
  /\ operations = [s \in Sessions |-> {}]
  /\ multi = [s \in Sessions |-> FALSE]
  /\ phase = [s \in Sessions |-> "idle"]
  /\ todo = [s \in Sessions |-> {}]
  /\ commit_xid = [s \in Sessions |-> 0]

-----------------------------------------------------------------------------
(* Visibility and the operation set.                                       *)

\* Mutant: a record marked by another transaction's deletion is no conflict.
VisitRecordNoConflict(id, row, readonly) ==
  CASE row.begin < 0 -> IF -row.begin = id THEN "SUCCESS" ELSE "RECORD_INVISIBLE"
    [] row.begin > 0 /\ row.end > 0 ->
         IF id >= row.begin /\ id <= row.end THEN "SUCCESS" ELSE "RECORD_INVISIBLE"
    [] OTHER -> IF -row.end = id THEN "RECORD_INVISIBLE" ELSE "SUCCESS"

\* Mutant: the mark of an uncommitted insertion is taken for a commit id.
VisitRecordDirty(id, row, readonly) ==
  IF row.end < 0
  THEN IF -row.end = id THEN "RECORD_INVISIBLE" ELSE "LOCKED_CONCURRENCY_CONFLICT"
  ELSE IF id >= row.begin /\ id <= row.end THEN "SUCCESS" ELSE "RECORD_INVISIBLE"

\* MvccTrx::visit_record: what transaction id may do with a record.
VisitRecord(id, row, readonly) ==
  CASE row.begin > 0 /\ row.end > 0 ->
         IF id >= row.begin /\ id <= row.end THEN "SUCCESS" ELSE "RECORD_INVISIBLE"
    [] row.begin < 0 ->
         IF -row.begin = id THEN "SUCCESS" ELSE "RECORD_INVISIBLE"
    [] row.begin >= 0 /\ row.end < 0 ->
         IF -row.end = id THEN "RECORD_INVISIBLE"
         ELSE IF readonly THEN "SUCCESS" ELSE "LOCKED_CONCURRENCY_CONFLICT"
    [] OTHER -> "SUCCESS"

\* Mutant: only the last operation is kept.
AddOperationLast(ops, type, r) == {[type |-> type, rid |-> r]}

\* unordered_set::insert under OperationEqualer, which compares the record's
\* place and not the operation's type.
AddOperation(ops, type, r) ==
  IF \E op \in ops : op.rid = r THEN ops
  ELSE ops \cup {[type |-> type, rid |-> r]}

\* insert_entry of the B+ tree: a unique tree compares the attribute only,
\* the other kind the attribute and the rid.
DuplicateKey(entries, k, r) ==
  IF Unique THEN \E e \in entries : e[1] = k ELSE <<k, r>> \in entries

OwnRow(s, r) == rows[r].begin = -trx_id[s]

-----------------------------------------------------------------------------
(* Statements: SqlResult::open, the operators, SqlResult::close.           *)

\* MvccTrx::start_if_need.  MaxTrxId also bounds the ids a run draws.
StartIfNeed(s) ==
  IF started[s]
  THEN UNCHANGED <<current_trx_id, trx_id, started>>
  ELSE /\ current_trx_id + 1 < MaxTrxId
       /\ current_trx_id' = current_trx_id + 1
       /\ trx_id' = [trx_id EXCEPT ![s] = current_trx_id + 1]
       /\ started' = [started EXCEPT ![s] = TRUE]

\* TrxBeginExecutor::execute.
Begin(s) ==
  /\ phase[s] = "idle"
  /\ multi' = [multi EXCEPT ![s] = TRUE]
  /\ StartIfNeed(s)
  /\ UNCHANGED <<tableVars, operations, phase, todo, commit_xid>>

\* SqlResult::open.
OpenStatement(s) ==
  /\ phase[s] = "idle"
  /\ phase' = [phase EXCEPT ![s] = "stmt"]
  /\ StartIfNeed(s)
  /\ UNCHANGED <<tableVars, operations, multi, todo, commit_xid>>

\* Table::insert_record in InsertPhysicalOperator; a duplicate key takes the
\* record out of the page again and fails the statement.
InsertRecord(s, r, k) ==
  /\ "insert" \in Workload
  /\ phase[s] = "stmt"
  /\ rows[r] = NoRow
  /\ UNCHANGED <<kitVars, trx_id, started, multi, todo, commit_xid>>
  /\ IF DuplicateKey(index, k, r)
     THEN /\ phase' = [phase EXCEPT ![s] = "close"]
          /\ UNCHANGED <<tableVars, operations>>
     ELSE /\ rows' = [rows EXCEPT ![r] =
                        [begin |-> -trx_id[s], end |-> MaxTrxId, key |-> k]]
          /\ index' = index \cup {<<k, r>>}
          /\ operations' = [operations EXCEPT ![s] = AddOperation(@, "INSERT", r)]
          /\ UNCHANGED phase

\* MvccTrx::delete_record on a record the scan has just visited for writing.
\* A version that is not the latest one (end_xid /= max) is left alone: no
\* step.  That includes a record the transaction inserted and then deleted
\* itself, on which ASSERT(end_xid > 0) stops the build with DEBUG.
DeleteRecord(s, r) ==
  /\ "delete" \in Workload
  /\ phase[s] = "stmt"
  /\ rows[r] /= NoRow
  /\ OwnRow(s, r) => "own" \in Workload
  /\ VisitRecord(trx_id[s], rows[r], FALSE) = "SUCCESS"
  /\ rows[r].end = MaxTrxId
  /\ rows' = [rows EXCEPT ![r].end = -trx_id[s]]
  /\ index' = index \ {<<rows[r].key, r>>}
  /\ operations' = [operations EXCEPT ![s] = AddOperation(@, "DELETE", r)]
  /\ UNCHANGED <<kitVars, trx_id, started, multi, phase, todo, commit_xid>>

\* MvccTrx::update_record: the old version is marked as deleted and the new
\* one is inserted in another slot.  When the insertion fails the index entry
\* is put back and the statement fails; end_xid keeps the mark.
UpdateRecord(s, r, r2, k) ==
  /\ "update" \in Workload
  /\ phase[s] = "stmt"
  /\ rows[r] /= NoRow
  /\ rows[r2] = NoRow
  /\ OwnRow(s, r) => "own" \in Workload
  /\ VisitRecord(trx_id[s], rows[r], FALSE) = "SUCCESS"
  /\ UNCHANGED <<kitVars, trx_id, started, multi, todo, commit_xid>>
  /\ LET marked  == [rows EXCEPT ![r].end = -trx_id[s]]
         removed == index \ {<<rows[r].key, r>>}
     IN  IF DuplicateKey(removed, k, r2)
         THEN /\ rows' = marked
              /\ index' = IF DuplicateKey(removed, rows[r].key, r)
                          THEN removed ELSE removed \cup {<<rows[r].key, r>>}
              /\ phase' = [phase EXCEPT ![s] = "close"]
              /\ UNCHANGED operations
         ELSE /\ rows' = [marked EXCEPT ![r2] =
                            [begin |-> -trx_id[s], end |-> MaxTrxId, key |-> k]]
              /\ index' = removed \cup {<<k, r2>>}
              /\ operations' = [operations EXCEPT ![s] =
                                  AddOperation(AddOperation(@, "DELETE", r), "INSERT", r2)]
              /\ UNCHANGED phase

\* A write scan meets a record another transaction has marked: the operator
\* stops with the error, which ends the statement and nothing else.
WriteConflict(s, r) ==
  /\ Workload \cap {"delete", "update"} /= {}
  /\ phase[s] = "stmt"
  /\ rows[r] /= NoRow
  /\ VisitRecord(trx_id[s], rows[r], FALSE) = "LOCKED_CONCURRENCY_CONFLICT"
  /\ phase' = [phase EXCEPT ![s] = "close"]
  /\ UNCHANGED <<kitVars, tableVars, trxVars, multi>>

\* MvccTrx::commit up to its loop: the commit id is drawn, started_ cleared.
StartCommit(s) ==
  /\ current_trx_id + 1 < MaxTrxId
  /\ current_trx_id' = current_trx_id + 1
  /\ commit_xid' = [commit_xid EXCEPT ![s] = current_trx_id + 1]
  /\ started' = [started EXCEPT ![s] = FALSE]
  /\ todo' = [todo EXCEPT ![s] = operations[s]]
  /\ phase' = [phase EXCEPT ![s] = "commit"]
  /\ UNCHANGED <<tableVars, trx_id, operations>>

\* SqlResult::close: outside a multi-statement transaction the statement is
\* committed, whatever the operator returned before.  The rollback of its
\* other branch is for an operator whose close fails; every close of the
\* physical operators returns SUCCESS or what its child's close returned.
CloseStatement(s) ==
  /\ phase[s] \in {"stmt", "close"}
  /\ UNCHANGED multi
  /\ IF multi[s]
     THEN /\ phase' = [phase EXCEPT ![s] = "idle"]
          /\ UNCHANGED <<kitVars, tableVars, trxVars>>
     ELSE StartCommit(s)

-----------------------------------------------------------------------------
(* The end of a transaction.                                               *)

\* TrxEndExecutor::execute on COMMIT.
Commit(s) ==
  /\ phase[s] = "idle"
  /\ started[s] \/ "stray" \in Workload
  /\ multi' = [multi EXCEPT ![s] = FALSE]
  /\ StartCommit(s)

\* Mutant: the deletions of the set are not stamped.
CommitOperationInsertsOnly(s, op) ==
  /\ phase[s] = "commit"
  /\ op \in todo[s]
  /\ todo' = [todo EXCEPT ![s] = @ \ {op}]
  /\ rows' = IF rows[op.rid] = NoRow \/ op.type = "DELETE" THEN rows
             ELSE [rows EXCEPT ![op.rid].begin = commit_xid[s]]
  /\ UNCHANGED <<kitVars, index, trx_id, started, operations, commit_xid, multi, phase>>

\* One iteration of the loop of MvccTrx::commit_with_trx_id.
CommitOperation(s, op) ==
  /\ phase[s] = "commit"
  /\ op \in todo[s]
  /\ todo' = [todo EXCEPT ![s] = @ \ {op}]
  /\ rows' = IF rows[op.rid] = NoRow THEN rows
             ELSE IF op.type = "INSERT"
             THEN [rows EXCEPT ![op.rid].begin = commit_xid[s]]
             ELSE [rows EXCEPT ![op.rid].end = commit_xid[s]]
  /\ UNCHANGED <<kitVars, index, trx_id, started, operations, commit_xid, multi, phase>>

\* Mutant: the operation set is not cleared.
FinishCommitKeepsSet(s) ==
  /\ phase[s] = "commit"
  /\ todo[s] = {}
  /\ commit_xid' = [commit_xid EXCEPT ![s] = 0]
  /\ phase' = [phase EXCEPT ![s] = "idle"]
  /\ UNCHANGED <<kitVars, tableVars, trx_id, started, operations, todo, multi>>

\* The rest of commit_with_trx_id: the set is cleared, CLogManager::commit_trx.
FinishCommit(s) ==
  /\ phase[s] = "commit"
  /\ todo[s] = {}
  /\ operations' = [operations EXCEPT ![s] = {}]
  /\ commit_xid' = [commit_xid EXCEPT ![s] = 0]
  /\ phase' = [phase EXCEPT ![s] = "idle"]
  /\ UNCHANGED <<kitVars, tableVars, trx_id, started, todo, multi>>

\* TrxEndExecutor::execute on ROLLBACK.
Rollback(s) ==
  /\ "rollback" \in Workload
  /\ phase[s] = "idle"
  /\ started[s] \/ "stray" \in Workload
  /\ multi' = [multi EXCEPT ![s] = FALSE]
  /\ started' = [started EXCEPT ![s] = FALSE]
  /\ todo' = [todo EXCEPT ![s] = operations[s]]
  /\ phase' = [phase EXCEPT ![s] = "rollback"]
  /\ UNCHANGED <<kitVars, tableVars, trx_id, operations, commit_xid>>

\* Mutant: the index keeps the entry of the deleted record.
TableDeleteRecordOnly(r) ==
  rows' = [rows EXCEPT ![r] = NoRow] /\ UNCHANGED index

\* Table::delete_record(record): the index entries first, then the record.  It
\* fails, with the table as it was, when the index has no entry for the record;
\* rollback asserts that it does not and goes on without DEBUG.
TableDeleteRecord(r) ==
  LET entry == <<rows[r].key, r>>
  IN  IF rows[r] /= NoRow /\ entry \in index
      THEN rows' = [rows EXCEPT ![r] = NoRow] /\ index' = index \ {entry}
      ELSE UNCHANGED tableVars

\* One iteration of the loop of MvccTrx::rollback.
RollbackOperation(s, op) ==
  /\ phase[s] = "rollback"
  /\ op \in todo[s]
  /\ todo' = [todo EXCEPT ![s] = @ \ {op}]
  /\ IF op.type = "INSERT"
     THEN TableDeleteRecord(op.rid)
     ELSE /\ rows' = IF rows[op.rid] = NoRow THEN rows
                     ELSE [rows EXCEPT ![op.rid].end = MaxTrxId]
          /\ UNCHANGED index
  /\ UNCHANGED <<kitVars, trx_id, started, operations, commit_xid, multi, phase>>

FinishRollback(s) ==
  /\ phase[s] = "rollback"
  /\ todo[s] = {}
  /\ operations' = [operations EXCEPT ![s] = {}]
  /\ phase' = [phase EXCEPT ![s] = "idle"]
  /\ UNCHANGED <<kitVars, tableVars, trx_id, started, todo, commit_xid, multi>>

\* Session::~Session destroys the Trx and nothing else; the next connection
\* gets a new Session.
Disconnect(s) ==
  /\ "disconnect" \in Workload
  /\ phase[s] = "idle"
  /\ trx_id' = [trx_id EXCEPT ![s] = NoTrxId]
  /\ started' = [started EXCEPT ![s] = FALSE]
  /\ operations' = [operations EXCEPT ![s] = {}]
  /\ multi' = [multi EXCEPT ![s] = FALSE]
  /\ UNCHANGED <<kitVars, tableVars, commit_xid, todo, phase>>

-----------------------------------------------------------------------------
Next ==
  \E s \in Sessions :
    \/ Begin(s) \/ OpenStatement(s) \/ CloseStatement(s)
    \/ \E r \in Rids, k \in Keys : InsertRecord(s, r, k)
    \/ \E r \in Rids : DeleteRecord(s, r)
    \/ \E r, r2 \in Rids, k \in Keys : UpdateRecord(s, r, r2, k)
    \/ \E r \in Rids : WriteConflict(s, r)
    \/ Commit(s) \/ FinishCommit(s)
    \/ \E op \in Operation : CommitOperation(s, op)
    \/ Rollback(s) \/ FinishRollback(s)
    \/ \E op \in Operation : RollbackOperation(s, op)
    \/ Disconnect(s)

Spec == Init /\ [][Next]_vars

(***************************************************************************)
(* The worker thread that runs a request goes on until the request is      *)
(* answered; nothing forces a client to send the next one.                 *)
(***************************************************************************)
Worker(s) ==
  \/ CloseStatement(s) \/ FinishCommit(s) \/ FinishRollback(s)
  \/ \E op \in Operation : CommitOperation(s, op) \/ RollbackOperation(s, op)

FairSpec == Spec /\ \A s \in Sessions : WF_vars(Worker(s))

-----------------------------------------------------------------------------
(* Properties.                                                             *)

\* Operations the transaction still answers for.
Pending(s) == IF phase[s] \in {"commit", "rollback"} THEN todo[s] ELSE operations[s]

\* Transaction s has its mark on row r.
Marks(s, r) ==
  /\ rows[r] /= NoRow
  /\ \/ rows[r].begin = -trx_id[s]
     \/ rows[r].end = -trx_id[s]

\* The transaction is open or is being ended.
Active(s) == started[s] \/ phase[s] \in {"commit", "rollback"}

\* A record in the operation set is still in its page and still carries the
\* mark this transaction put on it.
OperationOwnsMark ==
  \A s \in Sessions : \A op \in Pending(s) :
    /\ rows[op.rid] /= NoRow
    /\ op.type = "INSERT" => rows[op.rid].begin = -trx_id[s]
    /\ op.type = "DELETE" => /\ rows[op.rid].begin > 0
                             /\ rows[op.rid].end = -trx_id[s]

\* An inserted record in the operation set has its index entry, unless the
\* transaction itself has deleted or updated the record since.
InsertionHasEntry ==
  \A s \in Sessions : \A op \in Pending(s) : op.type = "INSERT" =>
    LET row == rows[op.rid]
    IN  \/ row.end = MaxTrxId /\ <<row.key, op.rid>> \in index
        \/ row.end = -trx_id[s]

\* The assertions of commit_with_trx_id and rollback, whatever the other
\* sessions did meanwhile.  Those of the commit never fail, nor those on the
\* marks.  Rollback's assertion that Table::delete_record succeeds can fail,
\* and only for a record that its transaction first inserted and then deleted
\* or updated itself: the operation set kept the insertion, the index no
\* longer has the entry.
AssertionsFailOnOwnOnly == OperationOwnsMark /\ InsertionHasEntry

\* Write-write exclusion: no record is in the operation sets of two
\* transactions, so no commit or rollback can undo the other's change.
WriteExclusion ==
  \A s, t \in Sessions : s /= t =>
    \A op \in Pending(s), oq \in Pending(t) : op.rid /= oq.rid

\* Xids on records come from the kit's counter in order: a committed deletion
\* has a later id than the insertion it ends, and no record carries an id, or
\* the mark of one, that was not drawn yet.
XidOrder ==
  \A r \in Rids : rows[r] /= NoRow =>
    LET b == rows[r].begin
        e == rows[r].end
    IN  /\ b /= 0 /\ b <= current_trx_id /\ -b <= current_trx_id
        /\ e /= 0 /\ (e = MaxTrxId \/ e <= current_trx_id) /\ -e <= current_trx_id
        /\ b > 0 /\ e > 0 => b < e

\* An index entry always leads to a record that is in its page and has the
\* entry's key: IndexScanPhysicalOperator::next fails on any other.
IndexEntriesLive ==
  \A e \in index : rows[e[2]] /= NoRow /\ rows[e[2]].key = e[1]

\* Once an insertion has its commit id, no later commit, rollback or
\* disconnection changes that id or takes the record out of its page.
CommittedInsertStable ==
  [][\A r \in Rids : rows[r] /= NoRow /\ rows[r].begin > 0
       => rows'[r] /= NoRow /\ rows'[r].begin = rows[r].begin]_vars

\* Every mark belongs to a transaction that will still come back to it: once a
\* transaction has ended, no record carries its negative id, which would keep
\* the record locked for ever.
MarksHaveOwners ==
  \A r \in Rids : rows[r] /= NoRow =>
    \A x \in {rows[r].begin, rows[r].end} :
      x < 0 => \E s \in Sessions :
                 /\ Active(s) /\ trx_id[s] = -x
                 /\ \E op \in Pending(s) : op.rid = r

\* A request to end a transaction ends with every record it marked released.
EndReleasesRecords ==
  \A s \in Sessions, r \in Rids :
    phase[s] \in {"commit", "rollback"} /\ Marks(s, r) ~> ~Marks(s, r)

\* The version columns of each record follow the table of the design document
\* docs/src/design/miniob-transaction.md: visit_record, delete_record, the
\* commit and the rollback loops move a record only along that table.
Lifecycle == INSTANCE RowLifecycle WITH
  NoVersion <- NoRow,
  version <- [r \in Rids |-> IF rows[r] = NoRow THEN NoRow
                ELSE [begin |-> rows[r].begin, end |-> rows[r].end]]

LifecycleSpec == Lifecycle!Spec
=============================================================================
