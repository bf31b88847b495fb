----------------------------- MODULE TrxRecovery -----------------------------
(***************************************************************************)
(* Transactions, the commit log and restart together.  Every action of     *)
(* MvccTrx is taken with the records its handler appends to the log        *)
(* (CLogManager::begin_trx, append_log, commit_trx, rollback_trx).  A      *)
(* crash loses the buffer pool and the log records that were not synced;   *)
(* restart is CLogManager::recover, which redoes the whole log through     *)
(* MvccTrx::redo and then rolls back the transactions that did not finish. *)
(*                                                                         *)
(* As miniob-clog.md requires, data pages are not written back before the  *)
(* crash: recovery starts from the empty pages that init_empty_page        *)
(* flushed.  commit_trx appends and syncs in one step here; CLog looks     *)
(* inside it.                                                              *)
(***************************************************************************)
EXTENDS MvccTrx, Sequences

CONSTANTS
  MaxCrashes,  \* bound: crashes in a behaviour
  MaxLog       \* bound: log records after which the sessions stop

ASSUME BoundsAssumption == MaxCrashes \in Nat /\ MaxLog \in Nat

VARIABLES
  log,        \* the log: synced records followed by those still in memory
  synced,     \* how many records of the log are certainly on disk
  mode,       \* "up", "redo" while recover() runs, "failed" when it gave up
  pos,        \* next record to redo
  trxes,      \* MvccTrxKit::trxes_ during recovery: id -> operations_
  torn,       \* the file ends with a record whose body is incomplete
  crashes

logVars == <<log, synced>>
redoVars == <<mode, pos, trxes, torn, crashes>>
recoveryVars == <<vars, logVars, redoVars>>

LogRecord ==
  [type : {"MTR_BEGIN", "MTR_ROLLBACK"}, trx : Int]
    \cup [type : {"MTR_COMMIT"}, trx : Int, xid : Int]
    \cup [type : {"INSERT"}, trx : Int, rid : Rids, key : Keys]
    \cup [type : {"DELETE"}, trx : Int, rid : Rids]

NoOps == [x \in {} |-> {}]

RecoveryTypeOK ==
  /\ TypeOK
  /\ log \in Seq(LogRecord) /\ synced \in 0 .. Len(log)
  /\ mode \in {"up", "redo", "failed"}
  /\ pos \in 1 .. Len(log) + 1
  /\ DOMAIN trxes \subseteq Nat /\ trxes \in [DOMAIN trxes -> SUBSET Operation]
  /\ torn \in BOOLEAN /\ crashes \in 0 .. MaxCrashes

RecoveryInit ==
  /\ Init
  /\ log = <<>> /\ synced = 0
  /\ mode = "up" /\ pos = 1 /\ trxes = NoOps
  /\ torn = FALSE /\ crashes = 0

-----------------------------------------------------------------------------
(* The handlers with what they log.                                        *)

Logs(records) == log' = log \o records /\ UNCHANGED <<synced, redoVars>>
LogsNothing == UNCHANGED <<logVars, redoVars>>

\* start_if_need: begin_trx when a new transaction starts.
StartLogs(s) ==
  IF started[s] THEN LogsNothing
  ELSE Logs(<<[type |-> "MTR_BEGIN", trx |-> current_trx_id + 1]>>)

InsertLog(s, r, k) == [type |-> "INSERT", trx |-> trx_id[s], rid |-> r, key |-> k]
DeleteLog(s, r) == [type |-> "DELETE", trx |-> trx_id[s], rid |-> r]

\* commit_trx appends the commit record and syncs the log.
CommitTrx(s) ==
  /\ log' = Append(log, [type |-> "MTR_COMMIT", trx |-> trx_id[s], xid |-> commit_xid[s]])
  /\ synced' = Len(log) + 1
  /\ UNCHANGED redoVars

Serve(s) ==
  \/ Begin(s) /\ StartLogs(s)
  \/ OpenStatement(s) /\ StartLogs(s)
  \/ CloseStatement(s) /\ LogsNothing
  \/ \E r \in Rids, k \in Keys :
       /\ InsertRecord(s, r, k)
       /\ IF DuplicateKey(index, k, r) THEN LogsNothing ELSE Logs(<<InsertLog(s, r, k)>>)
  \/ \E r \in Rids : DeleteRecord(s, r) /\ Logs(<<DeleteLog(s, r)>>)
  \/ \E r, r2 \in Rids, k \in Keys :
       /\ UpdateRecord(s, r, r2, k)
       /\ IF DuplicateKey(index \ {<<rows[r].key, r>>}, k, r2) THEN LogsNothing
          ELSE Logs(<<DeleteLog(s, r), InsertLog(s, r2, k)>>)
  \/ \E r \in Rids : WriteConflict(s, r) /\ LogsNothing
  \/ Commit(s) /\ LogsNothing
  \/ \E op \in Operation : CommitOperation(s, op) /\ LogsNothing
  \/ FinishCommit(s) /\ CommitTrx(s)
  \/ Rollback(s) /\ LogsNothing
  \/ \E op \in Operation : RollbackOperation(s, op) /\ LogsNothing
  \/ FinishRollback(s) /\ Logs(<<[type |-> "MTR_ROLLBACK", trx |-> trx_id[s]]>>)
  \/ Disconnect(s) /\ LogsNothing

-----------------------------------------------------------------------------
(* Crash and restart.                                                      *)

\* Everything in memory is gone.  Of the records that were not synced a
\* prefix may have reached the disk, and a part of the next one: a header
\* without its body (MTR_BEGIN and MTR_ROLLBACK have none).
HasBody(rec) == rec.type \notin {"MTR_BEGIN", "MTR_ROLLBACK"}

Crash ==
  /\ mode = "up" /\ crashes < MaxCrashes
  /\ crashes' = crashes + 1
  /\ \E n \in synced .. Len(log) :
       /\ log' = SubSeq(log, 1, n) /\ synced' = n
       /\ torn' \in {FALSE, n < Len(log) /\ HasBody(log[n + 1])}
  /\ mode' = "redo" /\ pos' = 1 /\ trxes' = NoOps
  /\ current_trx_id' = 0
  /\ rows' = [r \in Rids |-> NoRow]
  /\ index' = {}
  /\ trx_id' = [s \in Sessions |-> NoTrxId]
  /\ started' = [s \in Sessions |-> FALSE]
  /\ operations' = [s \in Sessions |-> {}]
  /\ multi' = [s \in Sessions |-> FALSE]
  /\ phase' = [s \in Sessions |-> "idle"]
  /\ todo' = [s \in Sessions |-> {}]
  /\ commit_xid' = [s \in Sessions |-> 0]

\* MvccTrx::rollback in recovery, where no other thread interferes.
UndoneRecord(r, ops) ==
  /\ [type |-> "INSERT", rid |-> r] \in ops
  /\ rows[r] /= NoRow
  /\ <<rows[r].key, r>> \in index

Undo(ops) ==
  /\ rows' = [r \in Rids |->
       IF UndoneRecord(r, ops) THEN NoRow
       ELSE IF rows[r] /= NoRow /\ [type |-> "DELETE", rid |-> r] \in ops
            THEN [rows[r] EXCEPT !.end = MaxTrxId]
       ELSE rows[r]]
  /\ index' = index \ {<<rows[r].key, r>> : r \in {q \in Rids : UndoneRecord(q, ops)}}

Redoing == mode = "redo" /\ pos <= Len(log)
Record == log[pos]
Known == Record.trx \in DOMAIN trxes
Advance == pos' = pos + 1 /\ UNCHANGED <<mode, torn, crashes, logVars>>

recoveryIdle == <<trx_id, started, operations, multi, phase, todo, commit_xid>>

\* MTR_BEGIN: create_trx(trx_id), which also moves the kit's counter.
RedoBegin ==
  /\ Redoing /\ Record.type = "MTR_BEGIN"
  /\ trxes' = [x \in DOMAIN trxes \cup {Record.trx} |-> IF x \in DOMAIN trxes THEN trxes[x] ELSE {}]
  /\ current_trx_id' = IF current_trx_id < Record.trx THEN Record.trx ELSE current_trx_id
  /\ Advance
  /\ UNCHANGED <<tableVars, recoveryIdle>>

\* INSERT: Table::recover_insert_record writes the logged record into its slot
\* and the index entry.
RedoInsert ==
  LET r == Record.rid
      k == Record.key
  IN  /\ Redoing /\ Record.type = "INSERT" /\ Known
      /\ ~DuplicateKey(index, k, r)
      /\ rows' = [rows EXCEPT ![r] = [begin |-> -Record.trx, end |-> MaxTrxId, key |-> k]]
      /\ index' = index \cup {<<k, r>>}
      /\ trxes' = [trxes EXCEPT ![Record.trx] = AddOperation(@, "INSERT", r)]
      /\ Advance
      /\ UNCHANGED <<current_trx_id, recoveryIdle>>

\* DELETE: only end_xid is set, the index keeps its entry.
RedoDelete ==
  LET r == Record.rid
  IN  /\ Redoing /\ Record.type = "DELETE" /\ Known
      /\ rows' = IF rows[r] = NoRow THEN rows ELSE [rows EXCEPT ![r].end = -Record.trx]
      /\ trxes' = [trxes EXCEPT ![Record.trx] = AddOperation(@, "DELETE", r)]
      /\ Advance
      /\ UNCHANGED <<current_trx_id, index, recoveryIdle>>

\* Mutant: records are stamped with the id of the transaction.
RedoCommitTrxId ==
  LET ops == trxes[Record.trx]
  IN  /\ Redoing /\ Record.type = "MTR_COMMIT" /\ Known
      /\ rows' = [r \in Rids |->
           IF rows[r] = NoRow THEN NoRow
           ELSE IF [type |-> "INSERT", rid |-> r] \in ops THEN [rows[r] EXCEPT !.begin = Record.trx]
           ELSE IF [type |-> "DELETE", rid |-> r] \in ops THEN [rows[r] EXCEPT !.end = Record.trx]
           ELSE rows[r]]
      /\ trxes' = [trxes EXCEPT ![Record.trx] = {}]
      /\ Advance
      /\ UNCHANGED <<current_trx_id, index, recoveryIdle>>

\* MTR_COMMIT: commit_with_trx_id(commit_xid) of the whole operation set.
RedoCommit ==
  LET ops == trxes[Record.trx]
      has(type, r) == rows[r] /= NoRow /\ [type |-> type, rid |-> r] \in ops
  IN  /\ Redoing /\ Record.type = "MTR_COMMIT" /\ Known
      /\ rows' = [r \in Rids |->
           IF has("INSERT", r) THEN [rows[r] EXCEPT !.begin = Record.xid]
           ELSE IF has("DELETE", r) THEN [rows[r] EXCEPT !.end = Record.xid]
           ELSE rows[r]]
      /\ trxes' = [trxes EXCEPT ![Record.trx] = {}]
      /\ Advance
      /\ UNCHANGED <<current_trx_id, index, recoveryIdle>>

\* Mutant: the transaction is destroyed as soon as it is rolled back.
RedoRollbackDestroys ==
  /\ Redoing /\ Record.type = "MTR_ROLLBACK" /\ Known
  /\ Undo(trxes[Record.trx])
  /\ trxes' = [x \in DOMAIN trxes \ {Record.trx} |-> trxes[x]]
  /\ Advance
  /\ UNCHANGED <<current_trx_id, recoveryIdle>>

\* MTR_ROLLBACK.
RedoRollback ==
  /\ Redoing /\ Record.type = "MTR_ROLLBACK" /\ Known
  /\ Undo(trxes[Record.trx])
  /\ trxes' = [trxes EXCEPT ![Record.trx] = {}]
  /\ Advance
  /\ UNCHANGED <<current_trx_id, recoveryIdle>>

\* The transaction that recover() rolls back next.
FirstLeft(x) == x \in DOMAIN trxes /\ \A y \in DOMAIN trxes : x <= y

\* The assertions of redo on a DELETE record: the record is there and in its
\* latest version.  Those of commit_with_trx_id and rollback for transaction x
\* in recovery: its records are there with its marks, and those it inserted
\* have the index entries Table::delete_record wants.
DeleteAsserts(r) == rows[r] /= NoRow /\ rows[r].end = MaxTrxId
CommitAsserts(x) ==
  \A op \in trxes[x] : /\ rows[op.rid] /= NoRow
                       /\ op.type = "INSERT" => rows[op.rid].begin = -x
                       /\ op.type = "DELETE" => rows[op.rid].end = -x
RollbackAsserts(x) ==
  \A op \in trxes[x] : /\ rows[op.rid] /= NoRow
                       /\ op.type = "INSERT" => <<rows[op.rid].key, op.rid>> \in index
                       /\ op.type = "DELETE" => rows[op.rid].end = -x

\* Which of them fails now: on the record to be redone, or on the transaction to
\* be rolled back at the end of the log.
AssertionFails ==
  \/ /\ Redoing /\ Known
     /\ \/ Record.type = "DELETE" /\ ~DeleteAsserts(Record.rid)
        \/ Record.type = "MTR_COMMIT" /\ ~CommitAsserts(Record.trx)
        \/ Record.type = "MTR_ROLLBACK" /\ ~RollbackAsserts(Record.trx)
  \/ /\ mode = "redo" /\ pos = Len(log) + 1 /\ ~torn
     /\ \E x \in DOMAIN trxes : FirstLeft(x) /\ ~RollbackAsserts(x)

\* The server does not start.  recover() returns an error and Db::init fails:
\* the record's transaction is unknown, the index refuses the key of a redone
\* insertion, or the iterator cannot read the body of the last record.  Or an
\* ASSERT fails and the build has DEBUG; without it recover() goes on, which
\* the other actions do.
RedoFails ==
  /\ \/ Redoing /\ Record.type /= "MTR_BEGIN" /\ ~Known
     \/ Redoing /\ Record.type = "INSERT" /\ DuplicateKey(index, Record.key, Record.rid)
     \/ mode = "redo" /\ pos = Len(log) + 1 /\ torn
     \/ AssertionFails
  /\ mode' = "failed"
  /\ UNCHANGED <<vars, logVars, pos, trxes, torn, crashes>>

\* The log is at its end: the transactions left over are rolled back and
\* destroyed one after the other, and the server starts to serve.
UndoUnfinished ==
  /\ mode = "redo" /\ pos = Len(log) + 1 /\ ~torn
  /\ IF trxes = NoOps
     THEN /\ mode' = "up"
          /\ UNCHANGED <<tableVars, trxes>>
     ELSE \E x \in DOMAIN trxes :
            /\ FirstLeft(x)
            /\ Undo(trxes[x])
            /\ trxes' = [y \in DOMAIN trxes \ {x} |-> trxes[y]]
            /\ UNCHANGED mode
  /\ UNCHANGED <<current_trx_id, recoveryIdle, logVars, pos, torn, crashes>>

RecoveryNext ==
  \/ mode = "up" /\ Len(log) < MaxLog /\ \E s \in Sessions : Serve(s)
  \/ Crash
  \/ RedoBegin \/ RedoInsert \/ RedoDelete \/ RedoCommit \/ RedoRollback
  \/ RedoFails \/ UndoUnfinished

RecoverySpec == RecoveryInit /\ [][RecoveryNext]_recoveryVars

-----------------------------------------------------------------------------
(* What a log says about its transactions.                                 *)

IsData(rec) == rec.type \in {"INSERT", "DELETE"}

\* Record e of log l is the first that ends transaction x.  A COMMIT or a
\* ROLLBACK sent after the transaction logs its id once more.
Ends(l, e, x) == l[e].type \in {"MTR_COMMIT", "MTR_ROLLBACK"} /\ l[e].trx = x
EndedAt(l, e, x) == Ends(l, e, x) /\ \A d \in 1 .. e - 1 : ~Ends(l, d, x)

CommittedAt(l, c, x) == EndedAt(l, c, x) /\ l[c].type = "MTR_COMMIT"
RolledBack(l, x, n) == \E e \in 1 .. n : EndedAt(l, e, x) /\ l[e].type = "MTR_ROLLBACK"

\* Among the first n records is an insertion into a slot for which an earlier
\* record still stands: the slot was freed in memory, by a rollback whose
\* MTR_ROLLBACK had not been logged yet or was lost.
SlotReused(l, n) ==
  \E j \in 1 .. n : l[j].type = "INSERT" /\ \E i \in 1 .. j - 1 :
    IsData(l[i]) /\ l[i].rid = l[j].rid /\ ~RolledBack(l, l[i].trx, j - 1)

\* Among the first n records is a deletion of a record that an earlier one, not
\* rolled back before it, has deleted.
DeletedTwice(l, n) ==
  \E j \in 1 .. n : l[j].type = "DELETE" /\ \E i \in 1 .. j - 1 :
    l[i].type = "DELETE" /\ l[i].rid = l[j].rid /\ ~RolledBack(l, l[i].trx, j - 1)

\* A record was deleted by another transaction than the one that inserted it,
\* of which the log has no end.
CommitLost(l) ==
  \E j \in DOMAIN l : l[j].type = "DELETE" /\ \E i \in 1 .. j - 1 :
    /\ l[i].type = "INSERT" /\ l[i].rid = l[j].rid /\ l[i].trx /= l[j].trx
    /\ \A e \in DOMAIN l : ~Ends(l, e, l[i].trx)

\* The transaction of record i has inserted the record it deletes.
OwnRecord(l, i) ==
  \E j \in DOMAIN l : l[j].type = "INSERT" /\ l[j].trx = l[i].trx /\ l[j].rid = l[i].rid

\* No other deletion of the same record stands in the log: the others come
\* before deletion i and were rolled back before it.
OnlyDeletion(l, i) ==
  \A j \in DOMAIN l \ {i} : l[j].type = "DELETE" /\ l[j].rid = l[i].rid
    => j < i /\ RolledBack(l, l[j].trx, i - 1)

-----------------------------------------------------------------------------
(* Properties.                                                             *)

\* The table holds what the first n records of the log say is committed: the
\* record of every insertion of a committed transaction is in its slot with
\* that transaction's commit id, and a record that a committed transaction
\* deleted, and no other one, is gone or has the deletion's commit id.
CommittedRows(n) ==
  \A c \in 1 .. n, i \in 1 .. n : CommittedAt(log, c, log[i].trx) =>
    LET row == rows[log[i].rid]
    IN  /\ log[i].type = "INSERT" =>
             row /= NoRow /\ row.begin = log[c].xid /\ row.key = log[i].key
        /\ log[i].type = "DELETE" /\ ~OwnRecord(log, i) /\ OnlyDeletion(log, i) =>
             row = NoRow \/ row.end = log[c].xid

\* While the server is up, before a crash and after any restart, the table
\* matches the log, unless a slot was used again too early.
TableMatchesLog ==
  mode = "up" /\ ~SlotReused(log, Len(log)) => CommittedRows(Len(log))

\* Recovery leaves no trace of a transaction that had not committed: when the
\* server is up again and nothing has been logged since, no record carries a
\* mark, save the mark that a transaction put on a record of its own, which
\* commit_with_trx_id leaves there.
RecoveredTableClean ==
  mode = "up" /\ ~SlotReused(log, Len(log)) /\ crashes > 0 /\ pos = Len(log) + 1
    => \A r \in Rids : rows[r] /= NoRow =>
         /\ rows[r].begin > 0
         /\ rows[r].end > 0 \/ \E i \in DOMAIN log :
              log[i].type = "DELETE" /\ log[i].rid = r /\ OwnRecord(log, i)

\* Ids are not drawn twice across a restart: a running transaction's id marks
\* only records in its own operation set, so it can never take a record that
\* an earlier process left marked for one of its own.
IdsNotReused ==
  \A s \in Sessions, r \in Rids :
    started[s] /\ Marks(s, r) => \E op \in Pending(s) : op.rid = r

\* What a restart must bring back: the committed records and nothing else, no
\* index entry without its record, and ids that no record left behind carries.
RecoveryExact ==
  /\ TableMatchesLog
  /\ RecoveredTableClean
  /\ mode = "up" /\ (crashes = 0 \/ ~SlotReused(log, Len(log)))
       => IndexEntriesLive /\ IdsNotReused

\* How far recover() has read.
Reached == IF pos > Len(log) THEN Len(log) ELSE pos

\* recover() refuses a log, or stops at an ASSERT on the way, for six reasons
\* only: its last record is torn; a COMMIT or ROLLBACK was sent on a connection
\* that never began a transaction; a slot that a rollback had emptied was used
\* again before MvccTrx::rollback logged its MTR_ROLLBACK; a record was deleted
\* twice, by a transaction that updated a row of its own again or from an older
\* snapshot, and the first deletion was not rolled back in between; the crash
\* came when a commit had stamped a record, another transaction had deleted it
\* and the MTR_COMMIT was not logged; or, with a unique index, a record with
\* the same key that was not rolled back (its deletion took the entry out of
\* the index, redo leaves it there) comes earlier.  Every other log is accepted.
RefusedLogs ==
  mode = "failed" =>
    \/ torn /\ pos > Len(log)
    \/ pos <= Len(log) /\ Record.trx = NoTrxId
    \/ SlotReused(log, Reached)
    \/ DeletedTwice(log, Reached)
    \/ pos > Len(log) /\ CommitLost(log)
    \/ /\ Unique /\ pos <= Len(log) /\ Record.type = "INSERT"
       /\ \E i \in 1 .. pos - 1 :
            /\ log[i].type = "INSERT" /\ log[i].key = Record.key
            /\ ~RolledBack(log, log[i].trx, pos - 1)
=============================================================================
