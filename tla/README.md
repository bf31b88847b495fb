# A verification of landbase

landbase is a small relational database (a MiniOB fork): a server that parses
SQL, plans and executes it over tables kept in paged files, with B+ tree
indexes, multi-version transactions and a redo log. This directory models it
in TLA+, checks it with TLC on small instances, and proves properties of its
transactions, log, recovery, buffer pool, record manager and catalogue with TLAPS for
every instance. Paths below are relative to the repository; `observer/` stands
for `src/observer/`.

The storage models describe the build with `CONCURRENCY` on (the option that
makes the mutexes and page latches real; it is off by default). The
transaction models are about transactions of type `mvcc`, the SQL models about
the default, `vacuous`, in which every change is made in place.

## 1. Inventory

| component | state | operations | talks to |
|---|---|---|---|
| MVCC transactions (`observer/storage/trx`) | the kit's id counter, `trx_id_`, `started_`, `operations_`, the hidden columns begin/end xid of every record | start_if_need, insert, delete, update, visit_record, commit, rollback, redo | called by the SQL operators and `SqlResult`; calls Table and the commit log |
| Commit log (`storage/clog`) | record list, `total_size_`, log file | append_log, begin/commit/rollback_trx, flush_buffer, recover | called by transactions; recover calls back into `MvccTrx::redo` |
| Table, catalogue (`storage/table`, `storage/db`, `storage/default`) | opened tables, next table id, meta, data and index files | create, open, drop, create_index, insert/delete/recover record | transactions above; record manager, B+ tree and buffer pool below |
| Record manager (`storage/record`) | slots and bitmap of each page, `free_pages_`, scanner positions | insert/delete/visit/recover record, prefetching scan | pages, page latches |
| B+ tree (`storage/index`) | nodes, root page | insert_entry, delete_entry, range scan | LatchMemo, buffer pool |
| Buffer pool (`storage/buffer`) | frames (page, pins, dirty flag), file header (bitmap, counts), three kinds of mutex | get_this_page, allocate_page, dispose_page, flush, evict, recover_page | record manager, B+ tree |
| Latches (`deps/common/lang/mutex.*`, `storage/trx/latch_memo.*`) | owner, readers, recursion; memo of pins and latches | lock/unlock, release_to | B+ tree, record manager |
| SQL resolver, planner, rewriter (`sql/stmt`, `sql/optimizer`, `sql/parser/value.*`) | the statement and its plan | resolve, plan, rewrite in rounds, choose scans | statement execution |
| Statement execution (`sql/operator`, `sql/executor`, `sql/expr`) | open operators, subqueries, the session's multi-statement flag | open/next/close, BEGIN, COMMIT, ROLLBACK | session, transactions, scans |
| Network front end (`observer/net`, `observer/session`) | connections, communicators, ring buffers, sessions | accept, read_event, write_result, close_connection, shutdown | SEDA stages |
| MySQL protocol (`net/mysql_communicator.*`) | sequence id, authenticated flag | handshake, commands, result packets | buffered writer |
| SEDA (`deps/common/seda`) | event queues, run queue, service threads, timers | add_event, schedule, handle, timer dispatch, connect/disconnect, kill threads | network front end |
| SQL parser (`sql/parser/*sql.*`) and common library | generated code; utilities | – | – |

What is hard in this system, and what makes it correct:

* **Transactions interleave record by record.** Commit and rollback stamp the
  records of the operation set one at a time under separate page latches. A
  record in the set must still carry the transaction's own mark when its turn
  comes; two transactions never answer for one record; the ids on a record
  stay ordered; a mark does not outlive its transaction.
* **The log is shared.** Every committer flushes everybody's records; lists
  and counters are read outside the lock.
* **Crash and restart.** The tables are rebuilt from the whole log; several
  files change one after the other in every DDL statement.
* **Memory is shared.** Pages of all files compete for the frames; mutexes,
  page latches and the record file's lock are taken in several orders.
* **Scans run while what they scan changes**: prefetched records, B+ tree
  leaves that split and merge, an UPDATE or DELETE that changes the very index
  it is walking.
* **A statement passes many representations** (parsed, resolved, logical,
  rewritten, physical), and none may change what it means.
* **Callbacks and threads** share a connection's communicator, and the SEDA
  library starts and stops under load.

## 2. Modules and how they correspond to the code

`PROJECT.json` maps every definition to the lines it models. Definitions whose
comment says *Mutant* are deliberately wrong variants used to show that a
property can fail.

### Transactions: MvccTrx, RowLifecycle

One table with one index and a set of client sessions. `rows` is the content
of the table's slots (hidden columns `begin`, `end` and the indexed column),
`index` the entries of the B+ tree as a set, `current_trx_id` the kit's
counter; `trx_id`, `started`, `operations` are the members of each session's
`MvccTrx`, `multi` is `Session::trx_multi_operation_mode_`, and `phase`,
`todo`, `commit_xid` are the position and local variables of the worker thread
inside a statement, `commit` or `rollback`. `OperationEqualer` compares the
place of the record only; `AddOperation` keeps that. `Workload` says which
statements clients send, so that a property can be stated for the workloads
that satisfy it. The page latch a scan holds covers `visit_record` and the
modification, so they are one step; RecordFile looks at the exception.
`ASSERT` stops the process only in a build with `DEBUG`. Here and in
RecordFile an operation whose assertion fails does what the build without it
does, and `AssertionsFailOnOwnOnly` says which assertions can fail and when; in
TrxRecovery and the SQL modules a failing assertion is a failure of its own.
A statement ends with `CloseStatement`, in which `SqlResult::close` commits:
its branch for an operator whose `close()` fails is left out, because no
physical operator's `close()` fails.

`RowLifecycle` is the abstract specification: the table of version columns in
`docs/src/design/miniob-transaction.md` as a state machine of a single
variable. `LifecycleSpec` says that MvccTrx implements it.

### Log and recovery: CLog, TrxRecovery

`CLog` is `CLogBuffer` and `CLogFile` under several threads.
`append_log_record`'s capacity test and `flush_buffer`'s loop condition are
outside the lock in the code and are steps of their own here, so is the
subtraction after the unlock. Records are reduced to owner, kind and size.

`TrxRecovery` extends MvccTrx: every handler together with the records it logs
(`Serve`), `Crash` (the buffer pool and a suffix of the unsynced log are lost,
the last record may be cut in its body), and `CLogManager::recover` record by
record (`RedoBegin` … `UndoUnfinished`, `RedoFails`); `AssertionFails` are the
assertions of `redo`, `commit_with_trx_id` and `rollback` on the way. Data
pages are lost at the crash, as `docs/src/design/miniob-clog.md` assumes. The properties read a
transaction's fate off the log alone: it is committed or rolled back by its
first end (`EndedAt`), because a stray COMMIT or ROLLBACK logs the id of the
connection's last transaction again. `CommittedRows` compares the table with
that, before and after a restart. `SlotReused` and `OnlyDeletion` name the logs
about which nothing is claimed; section 5 says why.

### Buffer pool: BufferPool

The frames shared by all files: `frame`, `disk`, `header` (BPFileHeader), the
three mutexes `fm_owner`, `pool_owner`, `mgr_owner`, and for every thread its
position and call. `OpenFile` … `FinishOpen` are `BufferPoolManager::open_file`,
which has the manager's lock while it gets a frame for the header page.
`Modify` and `MarkDirty` are the changes that end in `mark_dirty`; `Stamp` are
those that do not: the version columns that `visit_record` and the MVCC
statements set in place, and the neighbour's links in `coalesce`. `FindPage` …
`LoadPage` are the pieces of `get_this_page`
between the locks. Content is the number of modifications; `latest` is a
history variable with what the users have written. The victim is any unpinned
frame (the code takes the least recently used one), header frames are kept
apart, a thread uses one page at a time, reads and writes of files succeed.

### Record manager: RecordFile

Pages of slots, `free_pages` under `lock`, recursive reader/writer latches per
page (`RecursiveSharedMutex`), `page_count` and the allocation bitmap, and for
each thread the statement it runs. An insertion is `InsertLock` …
`InsertDone`, one step per lock or latch; a deletion `DeleteRecord`,
`DeleteShare`; a scan `OpenScan`, `FetchInPage`, `FetchNextPage`, `FetchLatch`
with its prefetched record `next` and the record in hand `cur`. A duplicate key
takes an inserted record out again, that of an UPDATE while its scan is open;
the old record then keeps its mark. `Subquery` is
the uncorrelated subquery that `TableScanPhysicalOperator::open` runs with the
scan already open. `RecoverInsertRecord` replays a log before statements run.

### B+ tree: OrderedIndex, BplusTree, BplusTreeLatch

`BplusTree` has the node operations of `bplus_tree.cpp` as functions on a tree
of pages: lookup, insertion with splits up to a new root, deletion with
`coalesce_or_redistribute`, the leaf chain, range scans with `fix_user_key`,
and the DELETE statement that deletes the entries its scanner returns. Its
initial states are trees built in several orders. `OrderedIndex` is the
abstract specification, a set of entries. `BplusTreeLatch` runs the same
operations from several threads with the root lock, page latches and the latch
memo: one step per latch; crabbing releases what `is_safe` says is not needed.
Node capacities below 4, which very long keys would give, are excluded by an
assumption: a node could then be left with one entry, which
`coalesce_or_redistribute` does not survive.

### SQL: SqlValue, SqlPlan, SqlExec, SqlStatement, SqlReference

`SqlValue`: values, casts and `Value::compare` (texts are numbered, with what
each one converts to; `Junk` is what an uninitialised `Value` may hold).
`SqlPlan`: logical plans, the rewrite rules, physical plans. `SqlExec`: open,
next and close of every physical operator with its state, expressions and
subqueries; the virtual calls that lead to one another go through one recursive
operator, `Call`. `SqlStatement`: resolution (`CreateSelect` …), then one step per
stage or call: `Resolve`, `MakePlan`, `RewritePass`, `Generate`, `OpenPlan`,
`FetchTuple`, `Modify`, `ClosePlan`, with the vacuous transaction underneath.
`SqlReference` computes what a statement means from the parsed statement and
the tables alone, and names the cases in which the code departs from it.

### Network and SEDA: WorkQueue, Seda, OutputBuffer, Server

`WorkQueue` is the abstract promise of a stage: items are started in order,
once, by a bounded number of threads, and finished. `Seda` is the library:
stages, run queue, service threads, the timer stage and its thread, the
metrics report that re-registers itself, start, shutdown and the killing of
threads; one step per critical section. `Seda!StageQueueSpec` says that its
session stage implements `WorkQueue`. `Server` builds on `WorkQueue`: clients,
the event loop, service threads, communicators with the ring buffer of
`OutputBuffer`, both protocols, closing and shutdown. Use of a deleted
communicator is undefined behaviour: the process crashes, or the thread goes
on as if nothing had happened. The handshake, commands other than a query and
`select @@version_comment` are answered by the event loop itself (`ReadOther`).
A data race on one `BufferedWriter` ends the
behaviour (`Race`), as nothing can be said of what follows.

### Catalogue

CREATE TABLE, DROP TABLE, CREATE INDEX and INSERT on several threads, one step
per change of a file or of the opened tables; a step can fail, the process can
die between any two steps or shut down in order, and `Start` is `Db::init`:
open every table with a meta file, then recover the log. Whether the log is one
that `recover` gives up on by itself is TrxRecovery's subject; here it is a
choice made at the crash or shutdown (`refusable`). The transaction with which
CREATE INDEX scans was never started, so which committed records it sees
depends on the ids the connection used before: `BuildIndex` enters any subset
of them. A record with a NULL in an index's fields (`NullKeys`) is entered by
CREATE INDEX and by no insertion. A statement that uses a `Table` another one
has deleted ends the behaviour ("wild"). `cut`, `spoilt`, `missed` and `twin`
are history variables that record the known exceptions.

## 3. Runs

`MC*.tla` add only workloads, inputs and symmetry sets.

| run | instance | shows |
|---|---|---|
| `mvcc_all` | 2 sessions, 2 slots, 2 keys, unique index, every kind of statement | operation sets, marks, ids and index entries stay sound; which assertion of a rollback can fail; a committed insertion is final |
| `mvcc_tidy` | the same without UPDATE, own deletions and disconnections | the columns follow the design document, no mark outlives its transaction, every COMMIT or ROLLBACK releases its records |
| `clog` | 2 threads, a buffer smaller than what they log | order, exactly-once, size and capacity of the log; every commit record is written |
| `recovery` | 2 sessions, every kind of statement, one crash anywhere | the restart brings back what the log says is committed, ids are not drawn again; which logs are refused or stopped by an assertion |
| `bp` | 2 threads, 3 files being opened, 3 frames | mapping, pins and header agree; the three ways a modification is lost; the cycles of waits |
| `btree` | capacity 4, 12 entries, three levels, 3 calls | the tree is valid after every call; scans return exactly their range; when a DELETE misses an entry |
| `btree_latch` | 3 threads, one call each, 4 initial trees | what crabbing releases is not needed, calls take effect one after the other (`IndexSpec`), scans are complete, the one cycle of waits |
| `record` | 2 threads, pages of 2 records, new and recovered files | no space is lost, scans are complete, what a scan's page latch protects, the deadlocks there are, and that statements end |
| `sql` | about 1,600 statements, 3 databases, with and without indexes | rewriting keeps the meaning and ends; answers and changes match the reference; the ways a statement can crash the server |
| `seda` | 2 service threads, 2 requests, an alarm, a report cycle | nothing is lost, handled twice or used after deletion; progress; the queue implements `WorkQueue` |
| `net` | 2 clients, 2 messages, ring of 3 bytes, both protocols | who reads which bytes in which order, requests outlive their clients' patience only, length encoding, every message is answered |
| `catalogue` | 2 threads, 2 tables, 2 indexes, 4 statements, 2 restarts, 1 failing step | when the next start can fail, files and opened tables agree, ids name one table, indexes are complete |

**Bounds.** Two sessions and two slots give every conflict between a writer
and another writer, reader or ending transaction, the reuse of a slot, and a
set of two records walked while the other session acts; a third session adds
only more of the same (the theorems hold for any number). `MaxTrxId` is both
the code's "infinite" id and the bound on ids drawn. In `clog`, Capacity 5
with records of size 3 and 1 makes both the refusal and the overshoot happen.
`MaxLog` (6) lets a transaction be cut off by the crash and another one begin
and commit after the restart, or two commit before it; both keys are
interchangeable without a unique index, so they are in the symmetry set. In `bp`, three frames hold the
headers of two files and one page, so that an eviction meets pages of the same
and of another file, and one thread can open the third file while the other
evicts or while it has to evict itself.
In `btree`, twelve entries in nodes of four give three levels, so that splits
and merges propagate; three calls reach a merge of inner nodes and a shrinking
root from the minimal trees. `btree_latch` starts from an empty tree, two
leaves, a full middle leaf and minimal nodes; the keys of the calls lie at
both ends and in the middle. In `record`, one page is full and one half full,
so that an insertion takes a page of `free_pages`, allocates one, and meets a
page another thread fills. In `net`, an answer is longer than the ring, so
that it wraps and is written in pieces; the second client takes over the
descriptor of the first. In `catalogue`, four statements give a name that is
created, indexed, dropped and created again; one of the records has NULL in the
fields of both indexes.

**Deadlock checking** is off: bounds on ids, calls and statements end
behaviours that go on in the code, clients may stop sending requests, and the
deadlocks the code has are named by `CyclesOnlyInPurge`,
`DeadlockOnlyInUpdate` and `CyclesOnlyAtOpen` instead.

**Fairness.** `MvccTrx!FairSpec`, `RecordFile!Spec`: weak fairness of the
steps with which a thread finishes what it has begun; clients owe nothing.
`CLog!FairSpec`: strong fairness of a thread's step inside a call, because
`lock_` is held only across one write and a `std::mutex` that keeps becoming
free is eventually obtained. `SedaFairness`: the threads run, the clock
ticks, and a start or shutdown that has begun goes on. `ServerFairness`: the
event loop and the service threads run, and a client that has begun a message
finishes it or hangs up - while it does neither, `read_event` spins in the
event loop and nobody is served.

**Composition.** TrxRecovery extends MvccTrx with the log; BplusTreeLatch runs
BplusTree's operations; Server extends WorkQueue, which Seda implements, so
that what `net` shows of requests rests on what `seda` shows of the queue.

## 4. Proofs

The proofs are in modules of their own that extend the module they are about.
Every one follows the same pattern: an inductive invariant `IInv`, a lemma
`Init => IInv`, lemmas that say what each action keeps, `Spec => []IInv`, and
the theorems as consequences. Each `IInv` was checked with TLC before it was
proved (in `TrxRecoveryProofs` it is split into `AnyIndex` and `PlainIndex`; in
`CatalogueProofs` the files have an invariant of their own, `FInv`).
`PROJECT.json` lists the theorems next to the properties they state.

| module | theorems (property of the run) | assumptions on the constants |
|---|---|---|
| `MvccTrxProofs`, `MvccTrxInvariance` | `TypeCorrect`, `IndexLive` (`IndexEntriesLive`), `AssertionsFailOnlyOnOwn` (`AssertionsFailOnOwnOnly`), `WritersExcluded` (`WriteExclusion`), `XidsOrdered` (`XidOrder`), `CommittedInsertsStay` (`CommittedInsertStable`) | `ConstantsAssumption`, `NoRowAssumption`; sessions, slots and keys are arbitrary sets, finite or not |
| `MvccTrxRefinement` | `FollowsTheTable` (`LifecycleSpec`), `MarksOwned` (`MarksHaveOwners`) | the same; the workload is a hypothesis of the theorem |
| `CLogProofs` | `LogExact` (`LogFileExact`), `BufferExact` (`BufferAccounted`) | `SizesAssumption`: finitely many threads, a positive capacity, a commit record no longer than a data record and not empty |
| `BufferPoolProofs` | `FramesSound` (`FramesExact`), `CyclesFound` (`CyclesOnlyInPurge`), `ModificationsKept` (`LossesNamed`) | `PoolAssumption` (finitely many threads, a file has at least its header page), `NoPageAssumption` |
| `RecordFileProofs` | `SpaceKept` (`SpaceExact`), `CyclesNeedUpdate` (`DeadlockOnlyInUpdate`), `LatchesProtect` (`LatchedRecordsKept`, the second half of `ScansSound`) | `RecordFileAssumption`: pages hold at least one record, the initial files and logs fit the bounds |
| `TrxRecoveryProofs` | `RecoveryTypeCorrect`, `RefusalsExplained` (`RefusedLogs`), `RestartLeavesNoTrace`, `RecoveryIsExact` (`RecoveryExact`) | those of MvccTrx and `BoundsAssumption` (the bounds are natural numbers); `RecoveryIsExact` has the hypothesis `~Unique` |
| `CatalogueProofs` | `IdsUnique` (`IdsNameOneTable`), `CatalogueAgrees` (`CatalogueMatchesFiles`), `IndexesComplete` (`IndexComplete`), `StartRefusalsExplained` (`StartFailsOnlyAfter`) | `BoundsAssumption` (the bounds are natural numbers), `ValuesAssumption` (no file, an empty file, no table and no statement differ from every meta data, table and statement; no index is called "data"); threads, names and indexes are arbitrary sets |

**Transactions.** `IndexEntriesLive` is inductive given the types: entries are
removed before, and added after, the record they point to. None of the other
four is inductive alone. A commit finds its mark only because nobody else
writes a marked record; that needs the ids of transactions to be distinct
(`TrxIds`) and that `visit_record` refuses every row somebody answers for. A
row the transaction inserted itself is accepted by `visit_record`, so there
the operation set must already hold the insertion (`InsertsKnown`) and at most
one operation per record (`OnePerRecord`); then the second operation is
dropped and the mark that counts is still the insertion's. `XidOrder` needs
that a deletion's commit id exceeds the insertion's: `DeletesVisible` (only
visible versions are deleted) together with the bounds on `commit_xid` in
`Phases`. `UncommittedRows` rules out a foreign deletion mark on an
uncommitted insertion. `InsertionHasEntry`, the rest of
`AssertionsFailOnOwnOnly`, says when rollback's `Table::delete_record` finds the
entry it removes; it needs that an index entry goes only with its own record.
There is one lemma per action, with one step for each
conjunct it can disturb.

**Transactions refine the version table.** The refinement and the ownership of
marks fail for some workloads (section 5), so both theorems name the workloads
they hold for: `PlainWorkload` (no UPDATE, no write to an own insertion), and
for the marks also no disconnection inside a transaction. `RInv` adds to
`IInv` that no transaction id is a commit id on a record (`PlainIds`) and that
uncommitted insertions carry no deletion mark (`OwnInserts`). Every change of a
record is one of six (inserted, deleted, committed twice, undone twice), each
described with what the columns were before it; each is a step of
`RowLifecycle`.

**Log.** The record in the hand of the thread that has the lock is the one it
popped (`Control`), and a commit record is followed from its push to the
acknowledgement (`CommitsFollowed`): until `flush_buffer` sees the empty list
it is among the accepted records, from then on among those taken out.
`PushBound` counts the threads that have passed the test of `total_size_` and
not pushed yet; it gives the overshoot over the capacity. Finiteness of the
thread set is needed because sizes are sums over it.

**Recovery.** The theorems hold for any number of crashes, of sessions and of
records, restarts of restarts included. The log is the reference: `LogOrdered`
says that a transaction logs its data between its MTR_BEGIN and its first end.
While the server is up, `SessionsOK` ties each session to the log (a started
transaction has begun there and has not ended; its operation set is the one the
log gives it, `OpsMatch`), and `LiveRows` says that a running transaction's
insertions are in their slots and that what a commit has visited carries its id.
When MTR_COMMIT is appended, `LiveRows` becomes `CommittedRows` for that
transaction; afterwards `InsertStands` and `DeleteStands` show that no request
of another session touches those rows, given the slot is not used too early.
During redo the same `OpsMatch` ties `trxes_` to the redone prefix
(`RedoTrxes`), and `RedoTable` says that table and index hold exactly the
insertions that are not rolled back so far: with it a duplicate key during redo
can be traced to a log record, which gives that part of `RefusedLogs`. Its
assertions need more: every deletion in the log is of a record that its own
transaction inserted or that can no longer be rolled back (`DeletesHeld`, from
`UpHeld` while the server is up), so that redo finds the record; its end is
`MaxTrxId` unless a deletion stands (`RedoDeletes`); and what an open
transaction has inserted or deleted carries its marks (`RedoBegins`,
`RedoMarks`). `RedoEnds` (a mark
left on a record belongs to an operation still kept) makes the table clean when
the last unfinished transaction is undone. `MarksDrawn` holds throughout:
no mark lies above the counter, so that the next id drawn is on no record.
`RefusedLogs`, `RecoveredTableClean` and the index part need nothing about the
index being unique. The rest does: on a unique index an UPDATE whose new version
is refused leaves its mark with neither an operation nor a log record, and TLC
refutes `RecoveryExact` there in eight states once there are three slots.
`Undo` removes the entry of each undone record, by its own key, as
`rollback` does; an earlier form that dropped every entry of the slot was
corrected when this proof asked which entries are left.

**Buffer pool.** What a thread may do follows from where it stands (`Calls`),
from its mutexes there (`Locks`) and from the page it is after (`Pages`).
`Victims` says that a frame being written back for another file has no user,
`Pins` that a frame has at least as many pins as users, `FramesAllocated` that
a mapped page is allocated or just being added. A thread that opens a file has
the manager's lock and no file's, so `CyclesOnlyInPurge` follows from `Locks`
once `Victims` says whom a purger waits for. For `LossesNamed`, `Loading` says
who owes a frame its content and `Clean` that a frame whose content is not in
the file is dirty, has an unmarked change, or is in the hands of its modifier.

**Record manager.** Every action is first reduced to one of eighteen shapes of
steps (`Action`), each described by what it does to the thread and to the
shared state; the invariant is then kept shape by shape. The two orders in which
`insert_record` takes `lock_` and a page latch do not meet because a page is
latched before the lock only while nobody else knows it (`FreshPages`,
`KnownPages`). That a page's count is exact needs that a rollback finds the
record it removes: `Marks`, `Todo`, `Own`, and `InHand` (what a scan has in
hand is not removed under it). A predecessor of `LatchedRecordsKept`, which
said that a record in hand is stale only at the end of a page, was refuted
while its invariant was being looked for: a statement that has left its page
finishes its record while another one scans that page.

**Catalogue.** A table is what one CREATE TABLE made, its serial number. Its id
is in its `Table`, in its meta file, in the statement that has drawn it and in
the log; `Drawn` collects the first three. That one id means one table
(`OneSerial`, `LogSerial`) needs that all ids lie below `next_table_id_`
(`IdsDrawn`). Running, only `next_table_id_++` brings an id into use; after a
restart `next_table_id_` is one more than the greatest id in a meta file
(`NextIdAbove`), and a record of a dropped table cannot lie above it because
`recover` has found a table for every record. That no two names share an id
needs that a serial number belongs to one name (`Serials`, `OneName`), and
that CREATE INDEX never renames another table's meta data over a table's own
(`TmpMatches`), though CREATE and DROP TABLE may run meanwhile.

The other three properties rest on `FInv`: for every name, `NameInv` while the
process is up and `Disk` when it is down. No lock guards the files of a name.
`Control` says what does: `O_EXCL` on the meta file lets one CREATE TABLE
through, and the pool of the data file, which `close_file` can delete once,
lets one DROP TABLE of a table through. From that follows what the files hold
at each place a statement can stand at (`Content`). A CREATE TABLE may publish
a table while a DROP TABLE of the old one still removes index files; that its
`erase` does not meet the new table unnoticed needs the serial numbers
(`Alive`, `Serials`), and the new table has no index then (`Lists`). An index
file has one builder or belongs to the table (`Owned`), has an owner at all
(`Owners`), and is listed in the meta data or has a CREATE INDEX about to list
it (`Pending`, `OneRewriter`), so that a crash leaves `Disk`, and `Start`
gives `NameInv` back. `Complete` is kept by INSERT because a record enters
every index in `indexes_` whose key is not NULL, and by CREATE INDEX because
what an index lacks when it comes into use is in `missed`; a restart enters
every record again and empties `missed`. Each action has a lemma for its own name; a frame lemma
(`ElsewhereKept`) covers all other names. That `recover` finds a table for
every record whose table has a meta file needs the converse of the ids
argument: a serial number has one id (`SerIds`).

**Only model-checked**, and why:

* Liveness (`EndReleasesRecords`, `CommitReachesFile`, `StatementsEnd`,
  `SedaProgress`, `ServerProgress`) and `ENABLED`: out of the prover's reach.
* BplusTree, BplusTreeLatch and the SQL modules: built on recursive operators;
  the prover has no induction over trees and sequences.
* `Seda!EventsAccounted` and `StageQueueSpec`: they filter and fold over
  queues, whose laws need the same induction.
* The other half of `ScansSound`, `ScanComplete`: with enough threads the
  clock passes `MaxTrxId`, the code's "infinite" id, and then it is false; it
  has to be stated for clocks below that, with an invariant about what lies
  behind and ahead of each scanner.
* The properties of Server: no proof yet (section 7).
* `RecoveryExact` with a unique index, in the parts that need `~Unique`.

## 5. Where the code departs

The properties hold of the code as it is; what it does not do is named, either
inside a property or here.

*Transactions.* `visit_record` does not look at `begin_xid` while another
transaction's deletion is in progress (`mvcc_trx.cpp:231`), so a reader can see
an insertion later than itself, against the version range of
`miniob-transaction.md`. `OperationEqualer` ignores the type (`trx.h:101`):
INSERT and DELETE of one record in a transaction commits with the deletion's
mark left behind, and its ROLLBACK fails the assertion that `delete_record`
succeeds (`mvcc_trx.cpp:460`), as the index entry is gone; without assertions
the record stays. A second DELETE of an own record fails `ASSERT(end_xid > 0)`
(`mvcc_trx.cpp:174`). An UPDATE of an older version overwrites a committed
deletion's end xid; one that fails after the mark leaves it. The index entry
of a record is removed by an uncommitted deletion and not restored by its
rollback. A write conflict in auto-commit mode commits the records written
before it. A session that is closed inside a transaction leaves its marks.

*Log and recovery.* A committer can find the list empty while another thread
holds its record, sync, and report success before the record is in the file
(`clog.cpp:216`; `LogFileExact` says where the record is). The same loop runs as
long as other threads append, so that a commit need not return
(`CommitReachesFile` claims only that its record is written). Rollbacks of one
recovery are not logged and the log is never truncated, so that a second
restart can undo a slot that has been used again (`clog.cpp:556`). Likewise a
rollback empties its slots before it logs MTR_ROLLBACK (`mvcc_trx.cpp:509`), and
an insertion into such a slot comes first in the log: redo then undoes the wrong
record. `SlotReused` is exactly this, and nothing is claimed of such a log.
A deletion undone in memory whose MTR_ROLLBACK comes after another, committed
deletion of the record, or is lost, makes redo take the committed end away
again, and so does an UPDATE of an older version while running: `OnlyDeletion`
leaves these records out. Recovery moves the id counter over the ids of
MTR_BEGIN records only, so that a new id can be smaller than a recovered commit
id; ids still mark no foreign record (`IdsNotReused`), but `XidOrder` is not
claimed after a restart. `RefusedLogs` names the logs recovery refuses or stops
at with a failing assertion; one is reached by ordinary statements:
`BEGIN; INSERT; UPDATE; UPDATE; COMMIT` on one row logs two
deletions of the row, and redo asserts that it finds none. With a unique
index, redo also refuses logs in which a key was deleted and inserted again.

*Buffer pool.* `get_this_page` can load the file over a frame another thread
has changed, and a clean page with an unmarked change is dropped by an eviction
(`LossesNamed`). Eviction and `get_this_page` take two locks in opposite
orders; `open_file` keeps the manager's lock while it may have to evict, which
asks for that lock again (`CyclesOnlyInPurge`).

*Record manager.* `DeadlockOnlyInUpdate` names an UPDATE that inserts under its
scan's latch and a DELETE or UPDATE with a subquery on its own table. Pages
from recovery are not in `free_pages_`; a log with a gap in its page numbers
leaves `page_count` short (`recover_page`).

*B+ tree.* A DELETE through an index can miss entries when a merge takes the
leaf away under its scanner (`DeleteMissesOnlyMerged`). The uniqueness test
looks only into one leaf; an equal key at the edge of the neighbouring leaf is
not seen. A scan that opens at the end of a leaf can deadlock with a deletion
(`CyclesOnlyAtOpen`).

*SQL* (operators of SqlReference): a constant that decides a conjunction is
replaced by the condition before it (`DecidedByAnother`); a disjunction of
false constants becomes true (`EmptiedOr`); a correlated `column = subquery`
is run once and without a tuple (`PushedCorrelated`); texts are converted only
on one side of a comparison (`WrongSide`); IN compares types and equates nulls
(`NullOrMixedIn`); a table named twice is one table (`SameTableTwice`); only
the second connective counts (`MixedConnectives`); the key of an index scan
has the literal's bytes (`OtherKey`); `HiddenCorrelation`. UPDATE: `MovesKey`,
`NullsUnique`, `StoresBadDate`. A failing INSERT or UPDATE keeps the rows it
has changed; an empty ORDER BY result disconnects the client; subqueries over
an index, or sorted ones run per tuple, crash, and so does SUM or AVG of a
column of texts in a build with assertions (`value.cpp:654`; `CrashesNamed`).

*Network and SEDA.* A hang-up lets the event loop delete a communicator in use;
what is left in its ring goes to a descriptor that may be somebody else's.
Rows already sent cannot be taken back when a scan fails. Blank queries get no
answer. `store_lenenc_int` doubles its two limits (`LenencReadable`). With no
service thread, or after a spurious wakeup in `kill_threads`, shutdown hangs.

*Catalogue.* The comment in `db.h:73` expects DDL not to run concurrently, and
nothing prevents it: two CREATE TABLE can draw one id, two CREATE INDEX share
one temporary meta file, CREATE INDEX misses insertions under way, DROP TABLE
deletes a `Table` others use. Alone, CREATE INDEX can miss committed records
too, as its transaction has no id to see them with
(`create_index_executor.cpp:35`), until a restart enters them. `StartFailsOnlyAfter` names what stops the next
start: a cut CREATE or DROP TABLE or meta rewrite, a dropped table with
records in the log, an orderly shutdown whose index entries redo enters again, a
log that `RefusedLogs` names.

## 6. Not modelled, and why

* The SQL parser: generated code. CALC, EXPLAIN, SHOW, LOAD DATA, HELP and the
  like: no state, or file reading around INSERT.
* Common library: metrics, configuration, logging, strings, process utilities
  carry none of the database's logic; bitmap, `lower_bound`, LRU list and
  mutexes are modelled where they are used.
* Id overflow after two billion transactions; `LOGBUF_FULL` leading to an
  unlogged committed change (the refusal itself is in CLog); atomic visibility
  of a commit, which the code itself lists as missing.
* Buffer pool: `purge_page`, and failing reads and writes of pages under load.
* In-place `update_record` of the record manager under latches (used by
  vacuous transactions only), and the byte layout of pages, records, packets
  and meta files.
* The command line communicator (one thread, nothing shared) and the set-up of
  sockets.

## 7. Next

Proofs worth adding, in this order:

1. RecordFile: `ScanComplete` for clocks below `MaxTrxId`.
2. Server: `RequestsLive` and `AnswersInOrder`.
