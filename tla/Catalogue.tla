------------------------------ MODULE Catalogue ------------------------------
(***************************************************************************)
(* The catalogue: Db's table of opened tables, and the files of a table    *)
(* under the database's directory: name.table with the meta data,          *)
(* name.data with the records, name-index.index for every index, and the   *)
(* temporary name.table.tmp through which CREATE INDEX rewrites the meta   *)
(* data.  Sessions run CREATE TABLE, DROP TABLE, CREATE INDEX and INSERT   *)
(* on worker threads; none of Db and Table is guarded by a lock.  A step   *)
(* can fail, the process can die between any two of them, or shut down;    *)
(* the next start opens every table that has a meta file and replays the   *)
(* commit log, which is never truncated and names tables by their id.      *)
(*                                                                         *)
(* A row stands for a record and its slot; each index name stands for an   *)
(* index on fields of its own.  Pages are written when the process shuts   *)
(* down in order; eviction belongs to BufferPool.  A look-up or change of  *)
(* opened_tables_ is one step, though the code does not guard the map.     *)
(* What recover() makes of a log by itself, whatever the tables are, is    *)
(* TrxRecovery's subject: here it is the choice of refusable.              *)
(***************************************************************************)
EXTENDS Naturals, FiniteSets

CONSTANTS
  Threads, Names, IndexNames,
  NoFile, NoTable, Idle,  \* no such file, no such table, a thread without a statement
  Empty,                  \* the content of a file that was only created or truncated
  NullKeys,               \* the rows with NULL in a field of an index, as pairs of the two
  MaxStatements,          \* bound: statements in a behaviour
  MaxRestarts,            \* bound: crashes and shutdowns
  MaxFaults               \* bound: steps that fail

ASSUME NullKeysAssumption == NullKeys \subseteq Nat \X IndexNames

ASSUME BoundsAssumption == MaxStatements \in Nat /\ MaxRestarts \in Nat /\ MaxFaults \in Nat

\* What a meta file says (TableMeta), what a Table has, the places between two
\* calls at which a statement can be, and a statement under way.
MetaData == [id : Nat, ser : Nat, indexes : SUBSET IndexNames]
Table == [id : Nat, ser : Nat, indexes : SUBSET IndexNames, listed : SUBSET IndexNames]
Steps ==
  {"store_id", "meta", "serialize", "data", "header", "open",
   "close", "indexes", "file", "build", "push", "tmp", "write", "rename", "commit"}
Job == [op : {"create", "drop", "index", "insert"}, step : Steps, n : Names, i : IndexNames \cup {Idle},
        ser : Nat, id : Nat, row : Nat, left : SUBSET IndexNames]

ASSUME ValuesAssumption ==
  /\ NoFile /= Empty /\ NoFile \notin MetaData /\ Empty \notin MetaData
  /\ NoTable \notin Table /\ Idle \notin Job
  /\ "data" \notin IndexNames

VARIABLES
  meta,     \* name.table: NoFile, Empty, or what was serialized
  tmp,      \* name.table.tmp, likewise
  data,     \* name.data: "none", "raw" before its header is written, "ok"
  indexFiles, \* the index files there are
  saved,    \* the entries in the index files
  log,      \* the records of insertions in the commit log
  refusable, \* the log is one that recover() gives up on whatever the tables are
  mode,     \* "up", "down", "failed" (Db::init gave up), or "wild": freed memory
            \* was used, or a table was erased in place of another
  opened_tables, \* the Table objects by name
  buffer_pools,  \* the files BufferPoolManager has open
  next_table_id,
  rows,     \* the records in the tables
  entries,  \* the entries of the indexes
  job,      \* what each thread is doing
  statements, restarts, faults,
  \* History, for the properties:
  cut,      \* names on which a CREATE or DROP TABLE, or a rewrite of the meta data, was cut short
  spoilt,   \* indexes whose creation or deletion was cut short
  missed,   \* the indexes, each with a record it did not have when it came into use
  twin      \* two CREATE TABLE drew their ids at the same time

disk == <<meta, tmp, data, indexFiles, saved, log>>
tables == <<opened_tables, buffer_pools, next_table_id, rows, entries>>
history == <<cut, spoilt, missed, twin>>
vars == <<disk, refusable, tables, mode, job, statements, restarts, faults, history>>

Indexes == Names \X IndexNames
DataFile(n) == <<n, "data">>

Init ==
  /\ meta = [n \in Names |-> NoFile] /\ tmp = [n \in Names |-> NoFile]
  /\ data = [n \in Names |-> "none"]
  /\ indexFiles = {} /\ saved = [x \in Indexes |-> {}] /\ log = {} /\ refusable = FALSE
  /\ mode = "down"
  /\ opened_tables = [n \in Names |-> NoTable]
  /\ buffer_pools = {} /\ next_table_id = 0
  /\ rows = [n \in Names |-> {}] /\ entries = [x \in Indexes |-> {}]
  /\ job = [t \in Threads |-> Idle]
  /\ statements = 0 /\ restarts = 0 /\ faults = 0
  /\ cut = {} /\ spoilt = {} /\ missed = {} /\ twin = FALSE

-----------------------------------------------------------------------------
(* Threads and statements.                                                 *)

At(t, op, step) == mode = "up" /\ job[t] /= Idle /\ job[t].op = op /\ job[t].step = step
Goto(t, step) == job' = [job EXCEPT ![t].step = step]
Return(t) == job' = [job EXCEPT ![t] = Idle]
Running(op, n, steps) ==
  {u \in Threads : job[u] /= Idle /\ job[u].op = op /\ job[u].n = n /\ job[u].step \in steps}

Same == UNCHANGED <<mode, refusable, statements, restarts, faults>>
Fault == faults < MaxFaults /\ faults' = faults + 1 /\ UNCHANGED <<mode, refusable, statements, restarts>>

\* The thread's Table has not been deleted by another thread's DROP TABLE (nor
\* been replaced in opened_tables_ by a CREATE TABLE shortly before that).
Alive(t) == opened_tables[job[t].n] /= NoTable /\ opened_tables[job[t].n].ser = job[t].ser
HasPool(t) == DataFile(job[t].n) \in buffer_pools

\* A statement begins: it looks up its table in opened_tables_.
Begin(t, op, step, n, i, ser) ==
  /\ mode = "up" /\ job[t] = Idle /\ statements < MaxStatements
  /\ statements' = statements + 1
  /\ job' = [job EXCEPT ![t] = [op |-> op, step |-> step, n |-> n, i |-> i, ser |-> ser,
                                id |-> next_table_id, row |-> statements, left |-> {}]]
  /\ UNCHANGED <<disk, refusable, tables, mode, restarts, faults>>

\* The Table, or the DiskBufferPool of its data, is used after its deletion.
UseAfterDelete(t, pool) ==
  /\ ~Alive(t) \/ (pool /\ ~HasPool(t))
  /\ mode' = "wild"
  /\ UNCHANGED <<disk, refusable, tables, job, statements, restarts, faults, history>>

-----------------------------------------------------------------------------
(* CREATE TABLE: Db::create_table and Table::create.                       *)

\* The name is not open; the id is read from next_table_id_ ...
CreateTable(t, n) ==
  /\ opened_tables[n] = NoTable
  /\ Begin(t, "create", "store_id", n, Idle, statements)
  /\ twin' = (twin \/ \E u \in Threads : At(u, "create", "store_id"))
  /\ UNCHANGED <<cut, spoilt, missed>>

\* ... and incremented: next_table_id_++ on a plain int.
StoreId(t) ==
  /\ At(t, "create", "store_id")
  /\ next_table_id' = job[t].id + 1
  /\ Goto(t, "meta")
  /\ Same /\ UNCHANGED <<disk, opened_tables, buffer_pools, rows, entries, history>>

\* The meta file is created with O_EXCL: SCHEMA_TABLE_EXIST when it is there.
CreateMeta(t) ==
  LET n == job[t].n
  IN  /\ At(t, "create", "meta")
      /\ IF meta[n] /= NoFile THEN Return(t) /\ UNCHANGED meta
         ELSE meta' = [meta EXCEPT ![n] = Empty] /\ Goto(t, "serialize")
      /\ Same /\ UNCHANGED <<tmp, data, indexFiles, saved, log, tables, history>>

NewMeta(t) == [id |-> job[t].id, ser |-> job[t].ser, indexes |-> {}]

\* TableMeta::init and serialize.  A column that FieldMeta::init refuses, or a
\* file that cannot be opened, leaves the empty file; whether the text could be
\* written nobody asks.
SerializeMeta(t) ==
  LET n == job[t].n
  IN  /\ At(t, "create", "serialize")
      /\ \/ meta' = [meta EXCEPT ![n] = NewMeta(t)] /\ Goto(t, "data") /\ Same /\ UNCHANGED cut
         \/ Fault /\ (Return(t) \/ Goto(t, "data")) /\ cut' = cut \cup {n} /\ UNCHANGED meta
      /\ UNCHANGED <<tmp, data, indexFiles, saved, log, tables, spoilt, missed, twin>>

\* BufferPoolManager::create_file: the file, again with O_EXCL ...
CreateFile(t) ==
  LET n == job[t].n
  IN  /\ At(t, "create", "data")
      /\ IF data[n] /= "none"
         THEN Return(t) /\ cut' = cut \cup {n} /\ UNCHANGED data
         ELSE data' = [data EXCEPT ![n] = "raw"] /\ Goto(t, "header") /\ UNCHANGED cut
      /\ Same /\ UNCHANGED <<meta, tmp, indexFiles, saved, log, tables, spoilt, missed, twin>>

\* ... and its header page.
WriteHeader(t) ==
  LET n == job[t].n
  IN  /\ At(t, "create", "header")
      /\ \/ data' = [data EXCEPT ![n] = "ok"] /\ Goto(t, "open") /\ Same /\ UNCHANGED cut
         \/ Fault /\ Return(t) /\ cut' = cut \cup {n} /\ UNCHANGED data
      /\ UNCHANGED <<meta, tmp, indexFiles, saved, log, tables, spoilt, missed, twin>>

\* init_record_handler opens the data file; Db enters the table, over the one
\* that a DROP TABLE of the same name has not yet erased.
Publish(t) ==
  LET n == job[t].n
  IN  /\ At(t, "create", "open")
      /\ \/ /\ ~HasPool(t)
            /\ buffer_pools' = buffer_pools \cup {DataFile(n)}
            /\ opened_tables' = [opened_tables EXCEPT ![n] =
                 [id |-> job[t].id, ser |-> job[t].ser, indexes |-> {}, listed |-> {}]]
            /\ rows' = [rows EXCEPT ![n] = {}]
            /\ Same /\ UNCHANGED cut
         \/ /\ Fault \/ (HasPool(t) /\ Same)
            /\ cut' = cut \cup {n}
            /\ UNCHANGED <<buffer_pools, opened_tables, rows>>
      /\ Return(t)
      /\ UNCHANGED <<disk, next_table_id, entries, spoilt, missed, twin>>

-----------------------------------------------------------------------------
(* DROP TABLE: Db::drop_table and Table::drop.  Deleting the Table at the  *)
(* end calls close_file on pools that are already deleted; the freed       *)
(* memory still says that their files are closed, or the process dies      *)
(* there, which Crash covers.                                              *)

DropTable(t, n) ==
  /\ opened_tables[n] /= NoTable
  /\ Begin(t, "drop", "close", n, Idle, opened_tables[n].ser)
  /\ UNCHANGED history

\* BufferPoolManager::close_file deletes the data file's pool; when another
\* DROP has done so already, this one gives up.
DropClose(t) ==
  /\ At(t, "drop", "close") /\ Alive(t)
  /\ IF HasPool(t)
     THEN buffer_pools' = buffer_pools \ {DataFile(job[t].n)} /\ Goto(t, "data")
     ELSE Return(t) /\ UNCHANGED buffer_pools
  /\ Same /\ UNCHANGED <<disk, opened_tables, next_table_id, rows, entries, history>>

DropData(t) ==
  LET n == job[t].n
  IN  /\ At(t, "drop", "data")
      /\ \/ data' = [data EXCEPT ![n] = "none"] /\ Goto(t, "meta") /\ Same /\ UNCHANGED cut
         \/ Fault /\ Return(t) /\ cut' = cut \cup {n} /\ UNCHANGED data
      /\ UNCHANGED <<meta, tmp, indexFiles, saved, log, tables, spoilt, missed, twin>>

DropMeta(t) ==
  LET n == job[t].n
  IN  /\ At(t, "drop", "meta")
      /\ \/ /\ meta' = [meta EXCEPT ![n] = NoFile]
            /\ job' = [job EXCEPT ![t].step = "indexes", ![t].left = opened_tables[n].indexes]
            /\ Same /\ UNCHANGED cut
         \/ Fault /\ Return(t) /\ cut' = cut \cup {n} /\ UNCHANGED meta
      /\ UNCHANGED <<tmp, data, indexFiles, saved, log, tables, spoilt, missed, twin>>

\* Mutant: the index files stay.
DropIndexKeepsFile(t) ==
  \E i \in IndexNames :
    /\ At(t, "drop", "indexes") /\ i \in job[t].left
    /\ buffer_pools' = buffer_pools \ {<<job[t].n, i>>}
    /\ job' = [job EXCEPT ![t].left = @ \ {i}]
    /\ Same /\ UNCHANGED <<disk, opened_tables, next_table_id, rows, entries, history>>

\* Each index: its pool is closed, its file removed.
DropIndex(t) ==
  \E i \in IndexNames :
    LET x == <<job[t].n, i>>
    IN  /\ At(t, "drop", "indexes") /\ i \in job[t].left
        /\ buffer_pools' = buffer_pools \ {x}
        /\ \/ /\ indexFiles' = indexFiles \ {x} /\ saved' = [saved EXCEPT ![x] = {}]
              /\ job' = [job EXCEPT ![t].left = @ \ {i}]
              /\ Same /\ UNCHANGED history
           \/ /\ Fault /\ Return(t)
              /\ cut' = cut \cup {job[t].n} /\ spoilt' = spoilt \cup {y \in Indexes : y[1] = job[t].n}
              /\ UNCHANGED <<indexFiles, saved, missed, twin>>
        /\ UNCHANGED <<meta, tmp, data, log, opened_tables, next_table_id, rows, entries>>

\* opened_tables_.erase by name, and the deletion of the Table.  A new table
\* that a CREATE TABLE has entered meanwhile is erased instead.
DropErase(t) ==
  LET n == job[t].n
  IN  /\ At(t, "drop", "indexes") /\ job[t].left = {}
      /\ IF Alive(t)
         THEN opened_tables' = [opened_tables EXCEPT ![n] = NoTable] /\ Return(t) /\ UNCHANGED mode
         ELSE mode' = "wild" /\ UNCHANGED <<opened_tables, job>>
      /\ UNCHANGED <<disk, refusable, buffer_pools, next_table_id, rows, entries, history,
                     statements, restarts, faults>>

-----------------------------------------------------------------------------
(* CREATE INDEX: CreateIndexStmt::create and Table::create_index.          *)

CreateIndex(t, n, i) ==
  /\ opened_tables[n] /= NoTable /\ i \notin opened_tables[n].indexes
  /\ Begin(t, "index", "file", n, i, opened_tables[n].ser)
  /\ UNCHANGED history

Building(t, step) == At(t, "index", step) /\ Alive(t)
Index(t) == <<job[t].n, job[t].i>>
Spoil(t) == spoilt' = spoilt \cup {Index(t)}

\* BplusTreeIndex::create: the file with O_EXCL, its pool, the tree's header.
CreateIndexFile(t) ==
  LET x == Index(t)
  IN  /\ Building(t, "file")
      /\ IF job[t].i \in opened_tables[job[t].n].listed \/ x \in indexFiles
         THEN Return(t) /\ Same /\ UNCHANGED <<indexFiles, buffer_pools, entries, spoilt>>
         ELSE /\ indexFiles' = indexFiles \cup {x}
              /\ \/ /\ buffer_pools' = buffer_pools \cup {x}
                    /\ entries' = [entries EXCEPT ![x] = {}]
                    /\ Goto(t, "build") /\ Same /\ UNCHANGED spoilt
                 \/ Fault /\ Return(t) /\ Spoil(t) /\ UNCHANGED <<buffer_pools, entries>>
      /\ UNCHANGED <<meta, tmp, data, saved, log, opened_tables, next_table_id, rows, cut, missed, twin>>

\* The records that other transactions have not committed are not visible.
Uncommitted(n) == {job[u].row : u \in Running("insert", n, {"commit"})}

\* The visible records are entered, those with NULL too.  The executor passes
\* the session's transaction without starting it: a committed record is visible
\* when its begin_xid is not above the id of the session's last transaction, so
\* which of them are is open here.  When an entry is refused (two equal keys in
\* a unique index) the index, its pool and its file are left as they are.
BuildIndex(t) ==
  LET n == job[t].n
  IN  /\ Building(t, "build") /\ HasPool(t)
      /\ \E seen \in SUBSET (rows[n] \ Uncommitted(n)) :
           entries' = [entries EXCEPT ![Index(t)] = seen]
      /\ \/ Goto(t, "push") /\ Same /\ UNCHANGED spoilt
         \/ Fault /\ Return(t) /\ Spoil(t)
      /\ UNCHANGED <<disk, opened_tables, buffer_pools, next_table_id, rows, cut, missed, twin>>

Rewriting(n) == Running("index", n, {"tmp", "write", "rename"})

\* Mutant: the index is put into the meta data only.
PushIndexListsOnly(t) ==
  /\ Building(t, "push")
  /\ Goto(t, "tmp")
  /\ Same /\ UNCHANGED <<disk, tables, history>>

\* indexes_.push_back(index).  The records that the scan did not see, and those
\* inserted since, are missing; a DROP that walks indexes_ meanwhile has its
\* iterators taken away.
PushIndex(t) ==
  LET n == job[t].n
      x == Index(t)
  IN  /\ Building(t, "push")
      /\ IF Running("drop", n, {"indexes"}) /= {}
         THEN mode' = "wild" /\ UNCHANGED <<opened_tables, missed, cut, spoilt, job>>
         ELSE /\ opened_tables' = [opened_tables EXCEPT ![n].indexes = @ \cup {job[t].i}]
              /\ missed' = missed \cup {<<x, r>> : r \in rows[n] \ entries[x]}
              /\ IF Rewriting(n) = {} THEN UNCHANGED <<cut, spoilt>>
                 ELSE cut' = cut \cup {n} /\ spoilt' = spoilt \cup {y \in Indexes : y[1] = n}
              /\ Goto(t, "tmp") /\ UNCHANGED mode
      /\ UNCHANGED <<disk, refusable, buffer_pools, next_table_id, rows, entries, twin,
                     statements, restarts, faults>>

\* Mutant: the meta file is rewritten in place.
OpenTmpInPlace(t) ==
  LET n == job[t].n
  IN  /\ Building(t, "tmp")
      /\ meta' = [meta EXCEPT ![n] = Empty]
      /\ job' = [job EXCEPT ![t].step = "write",
                            ![t].left = opened_tables[n].listed \cup {job[t].i}]
      /\ Same
      /\ UNCHANGED <<tmp, data, indexFiles, saved, log, tables, history>>

\* The new meta data, a copy of table_meta_ with the index, is taken now; the
\* temporary file is opened and truncated.
OpenTmp(t) ==
  LET n == job[t].n
  IN  /\ Building(t, "tmp")
      /\ \/ /\ tmp' = [tmp EXCEPT ![n] = Empty]
            /\ job' = [job EXCEPT ![t].step = "write",
                                  ![t].left = opened_tables[n].listed \cup {job[t].i}]
            /\ Same /\ UNCHANGED spoilt
         \/ Fault /\ Return(t) /\ Spoil(t) /\ UNCHANGED tmp
      /\ UNCHANGED <<meta, data, indexFiles, saved, log, tables, cut, missed, twin>>

\* The open file has this content now: name.table.tmp or, when another CREATE
\* INDEX has renamed it, name.table.
Written(t) ==
  LET n == job[t].n
      new == [id |-> opened_tables[n].id, ser |-> job[t].ser, indexes |-> job[t].left]
  IN  IF tmp[n] /= NoFile THEN tmp' = [tmp EXCEPT ![n] = new] /\ UNCHANGED meta
      ELSE IF meta[n] /= NoFile THEN meta' = [meta EXCEPT ![n] = new] /\ UNCHANGED tmp
      ELSE UNCHANGED <<meta, tmp>>

\* serialize reports a failure; what fails when the buffer is written out by
\* fs.close() nobody asks.
WriteTmp(t) ==
  /\ Building(t, "write")
  /\ \/ Written(t) /\ Goto(t, "rename") /\ Same /\ UNCHANGED <<cut, spoilt>>
     \/ Fault /\ Return(t) /\ Spoil(t) /\ UNCHANGED <<meta, tmp, cut>>
     \/ Fault /\ Goto(t, "rename") /\ cut' = cut \cup {job[t].n} /\ UNCHANGED <<meta, tmp, spoilt>>
  /\ UNCHANGED <<data, indexFiles, saved, log, tables, missed, twin>>

\* rename, then table_meta_.swap.
RenameTmp(t) ==
  LET n == job[t].n
  IN  /\ Building(t, "rename")
      /\ \/ /\ tmp[n] /= NoFile
            /\ meta' = [meta EXCEPT ![n] = tmp[n]] /\ tmp' = [tmp EXCEPT ![n] = NoFile]
            /\ opened_tables' = [opened_tables EXCEPT ![n].listed = job[t].left]
            /\ cut' = IF Running("drop", n, {"data", "meta", "indexes"}) = {} THEN cut ELSE cut \cup {n}
            /\ Same /\ UNCHANGED spoilt
         \/ /\ Fault \/ (tmp[n] = NoFile /\ Same)
            /\ Spoil(t)
            /\ UNCHANGED <<meta, tmp, opened_tables, cut>>
      /\ Return(t)
      /\ UNCHANGED <<data, indexFiles, saved, log, buffer_pools, next_table_id, rows, entries,
                     missed, twin>>

-----------------------------------------------------------------------------
(* INSERT, for what it leaves in the table, its indexes and the log.       *)

Insert(t, n) ==
  /\ opened_tables[n] /= NoTable
  /\ Begin(t, "insert", "write", n, Idle, opened_tables[n].ser)
  /\ UNCHANGED history

\* insert_entry_of_indexes and its counterparts pass over an index for which the
\* record has NULL in a field.
Keyed(rs, i) == {r \in rs : <<r, i>> \notin NullKeys}

InsertRecord(t) ==
  LET n == job[t].n
      r == job[t].row
  IN  /\ At(t, "insert", "write") /\ Alive(t) /\ HasPool(t)
      /\ rows' = [rows EXCEPT ![n] = @ \cup {r}]
      /\ entries' = [x \in Indexes |->
           IF x[1] = n /\ x[2] \in opened_tables[n].indexes
           THEN entries[x] \cup Keyed({r}, x[2]) ELSE entries[x]]
      /\ log' = log \cup {[id |-> opened_tables[n].id, ser |-> job[t].ser, row |-> r, done |-> FALSE]}
      /\ Goto(t, "commit")
      /\ Same
      /\ UNCHANGED <<meta, tmp, data, indexFiles, saved, opened_tables, buffer_pools, next_table_id, history>>

Commit(t) ==
  /\ At(t, "insert", "commit") /\ Alive(t) /\ HasPool(t)
  /\ log' = {IF e.row = job[t].row THEN [e EXCEPT !.done = TRUE] ELSE e : e \in log}
  /\ Return(t)
  /\ Same /\ UNCHANGED <<meta, tmp, data, indexFiles, saved, tables, history>>

-----------------------------------------------------------------------------
(* The end of the process, and the next start.                             *)

\* By now the log may be one that recover() gives up on by itself (the last
\* record torn, two UPDATEs of one record in a transaction: see RefusedLogs of
\* TrxRecovery); it stays so, for it is never truncated.
Ended ==
  /\ refusable' \in {refusable, TRUE}
  /\ restarts < MaxRestarts /\ restarts' = restarts + 1
  /\ mode' = "down"
  /\ opened_tables' = [n \in Names |-> NoTable] /\ buffer_pools' = {} /\ next_table_id' = 0
  /\ rows' = [n \in Names |-> {}] /\ entries' = [x \in Indexes |-> {}]
  /\ job' = [t \in Threads |-> Idle]
  /\ UNCHANGED <<meta, tmp, data, indexFiles, statements, faults, twin>>

Stopped(op, steps) == {job[u].n : u \in {v \in Threads : job[v] /= Idle /\ job[v].op = op
                                                          /\ job[v].step \in steps}}

\* The process dies.  Records that no commit has synced may or may not be in
\* the log file.
Crash ==
  /\ mode = "up" /\ Ended
  /\ \E lost \in SUBSET {e \in log : ~e.done} : log' = log \ lost
  /\ cut' = cut \cup Stopped("create", {"serialize", "data", "header"}) \cup Stopped("drop", {"meta"})
  /\ spoilt' = spoilt \cup {Index(t) : t \in {u \in Threads : job[u] /= Idle /\ job[u].op = "index"
                                                              /\ job[u].step /= "file"}}
                      \cup {x \in Indexes : x[1] \in Stopped("drop", {"indexes"})}
  /\ UNCHANGED <<saved, missed>>

\* Table::sync of every table writes the pages of its indexes.
Synced ==
  [x \in Indexes |->
    IF opened_tables[x[1]] /= NoTable /\ x[2] \in opened_tables[x[1]].indexes
    THEN entries[x] ELSE saved[x]]

\* An orderly shutdown between statements: DefaultHandler::destroy syncs the
\* databases and deletes them, which closes the pools.
Shutdown ==
  /\ mode = "up" /\ \A t \in Threads : job[t] = Idle
  /\ \A n \in Names : opened_tables[n] /= NoTable => DataFile(n) \in buffer_pools
  /\ Ended
  /\ saved' = Synced
  /\ UNCHANGED <<log, cut, spoilt, missed>>

MetaFiles == {n \in Names : meta[n] /= NoFile}

\* TableMeta::deserialize finds no JSON text in an empty file.
Deserializes(n) == meta[n] /= Empty

\* DiskBufferPool::open_file reads the header page.
OpensFile(n) == data[n] = "ok"

\* BplusTreeIndex::open.
OpensIndex(n, i) == <<n, i>> \in indexFiles

\* Table::open of every meta file.
CanOpen ==
  \A n \in MetaFiles :
    /\ Deserializes(n) /\ OpensFile(n)
    /\ \A i \in meta[n].indexes : OpensIndex(n, i)

\* Db::find_table by id.  Two tables with one id are told apart by the order
\* of an unordered_map.
FoundBy(ids) == {home \in [ids -> MetaFiles] : \A x \in ids : meta[home[x]].id = x}

\* CLogManager::recover: the table with the record's id takes the record and
\* its index entries; an entry the index file has already is refused.
CanRedo(home) ==
  /\ ~refusable
  /\ \A e \in log :
       /\ e.id \in DOMAIN home
       /\ \A i \in meta[home[e.id]].indexes : Keyed({e.row}, i) \cap saved[<<home[e.id], i>>] = {}

Redone(home, n) == {e.row : e \in {f \in log : f.done /\ home[f.id] = n}}

\* Mutant: next_table_id_ starts again at 0.
NextTableIdZero(ids) == 0

\* next_table_id_ after open_all_tables.
NextTableId(ids) == IF ids = {} THEN 0 ELSE 1 + CHOOSE x \in ids : \A y \in ids : y <= x

\* Db::init: open_all_tables, then recover.
Start ==
  /\ mode = "down"
  /\ \/ /\ CanOpen
        /\ LET ids == {meta[n].id : n \in MetaFiles}
           IN  \E home \in FoundBy(ids) :
                 /\ next_table_id' = NextTableId(ids)
                 /\ IF CanRedo(home)
                    THEN /\ mode' = "up"
                         /\ rows' = [n \in Names |-> Redone(home, n)]
                         /\ entries' = [x \in Indexes |->
                              saved[x] \cup IF x[1] \in MetaFiles /\ x[2] \in meta[x[1]].indexes
                                            THEN Keyed(Redone(home, x[1]), x[2]) ELSE {}]
                         /\ missed' = {}
                    ELSE mode' = "failed" /\ UNCHANGED <<rows, entries, missed>>
        /\ opened_tables' = [n \in Names |->
             IF n \in MetaFiles
             THEN [id |-> meta[n].id, ser |-> meta[n].ser,
                   indexes |-> meta[n].indexes, listed |-> meta[n].indexes]
             ELSE NoTable]
        /\ buffer_pools' = {DataFile(n) : n \in MetaFiles}
             \cup {x \in Indexes : x[1] \in MetaFiles /\ x[2] \in meta[x[1]].indexes}
     \/ ~CanOpen /\ mode' = "failed" /\ UNCHANGED <<tables, missed>>
  /\ UNCHANGED <<disk, refusable, job, statements, restarts, faults, cut, spoilt, twin>>

Statement(t) ==
  \/ \E n \in Names : CreateTable(t, n) \/ DropTable(t, n) \/ Insert(t, n)
  \/ \E n \in Names, i \in IndexNames : CreateIndex(t, n, i)

Step(t) ==
  \/ StoreId(t) \/ CreateMeta(t) \/ SerializeMeta(t) \/ CreateFile(t) \/ WriteHeader(t) \/ Publish(t)
  \/ DropClose(t) \/ DropData(t) \/ DropMeta(t) \/ DropIndex(t) \/ DropErase(t)
  \/ CreateIndexFile(t) \/ BuildIndex(t) \/ PushIndex(t) \/ OpenTmp(t) \/ WriteTmp(t) \/ RenameTmp(t)
  \/ InsertRecord(t) \/ Commit(t)
  \/ At(t, "drop", "close") /\ UseAfterDelete(t, FALSE)
  \/ (\E step \in {"file", "push", "tmp", "write", "rename"} : At(t, "index", step)) /\ UseAfterDelete(t, FALSE)
  \/ At(t, "index", "build") /\ UseAfterDelete(t, TRUE)
  \/ (\E step \in {"write", "commit"} : At(t, "insert", step)) /\ UseAfterDelete(t, TRUE)

Next == (\E t \in Threads : Statement(t) \/ Step(t)) \/ Crash \/ Shutdown \/ Start

Spec == Init /\ [][Next]_vars

-----------------------------------------------------------------------------
(* Properties.                                                             *)

\* As long as the files can be read, Db::init fails in four cases only: a CREATE
\* or DROP TABLE, or a rewrite of the meta data, was cut short by a crash or an
\* error; a table with records in the log has been dropped, whose id recover()
\* no longer finds; an orderly shutdown has written index entries that recover()
\* enters again; or the log is one of those that recover() gives up on whatever
\* the tables are, which RefusedLogs of TrxRecovery names.
\* A crash or an error in CREATE INDEX, and one before the first or after the
\* last file of CREATE TABLE, never does.
StartFailsOnlyAfter ==
  mode = "failed" =>
    \/ cut /= {}
    \/ \E e \in log : \A n \in MetaFiles : meta[n] = Empty \/ meta[n].ser /= e.ser
    \/ \E x \in Indexes : saved[x] /= {}
    \/ refusable

\* While no statement is at work on a name, the opened table and the files of
\* that name agree: the meta file says what the Table has, the files of its
\* indexes are there, and a name that is not open has left no file behind.
\* Excepted are names and indexes on which a statement was cut short.
CatalogueMatchesFiles ==
  mode = "up" => \A n \in Names :
    (n \notin cut /\ \A t \in Threads : job[t] = Idle \/ job[t].n /= n) =>
      LET table == opened_tables[n]
          has(i) == table /= NoTable /\ i \in table.indexes
      IN  /\ IF table = NoTable THEN meta[n] = NoFile /\ data[n] = "none"
             ELSE /\ meta[n] = [id |-> table.id, ser |-> table.ser, indexes |-> table.listed]
                  /\ data[n] = "ok" /\ DataFile(n) \in buffer_pools
          /\ \A i \in IndexNames : <<n, i>> \notin spoilt =>
               /\ has(i) <=> <<n, i>> \in indexFiles
               /\ has(i) => i \in table.listed /\ <<n, i>> \in buffer_pools

\* The id in a log record names one table, so that recover() puts the record
\* back where it was: open tables have different ids, and the id of a dropped
\* table with records in the log is never given to another table, though after
\* a restart next_table_id_ follows the tables there are: recover() has refused
\* such a log before.  Excepted are two CREATE TABLE that incremented
\* next_table_id_ at the same time.
IdsNameOneTable ==
  mode = "up" /\ ~twin =>
    /\ \A n, o \in Names :
         n /= o /\ opened_tables[n] /= NoTable /\ opened_tables[o] /= NoTable
           => opened_tables[n].id /= opened_tables[o].id
    /\ \A e \in log, n \in Names :
         opened_tables[n] /= NoTable /\ opened_tables[n].id = e.id => opened_tables[n].ser = e.ser

\* Every index a query may use has an entry for every record of its table with
\* no NULL in the index's fields, through insertions and restarts, unless the
\* index came into use without it (the scan of CREATE INDEX did not see the
\* record, or the insertion came after the scan) and there was no restart since,
\* or DROP TABLE is deleting the indexes.
IndexComplete ==
  mode = "up" => \A n \in Names :
    opened_tables[n] /= NoTable /\ Running("drop", n, {"indexes"}) = {} =>
      \A i \in opened_tables[n].listed : <<n, i>> \notin spoilt =>
        \A r \in Keyed(rows[n], i) : r \in entries[<<n, i>>] \/ <<<<n, i>>, r>> \in missed
=============================================================================
