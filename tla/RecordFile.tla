----------------------------- MODULE RecordFile -----------------------------
(***************************************************************************)
(* The record manager (storage/record/record_manager.cpp) under several    *)
(* threads: pages of slots, the set of pages with free slots and its lock, *)
(* the page latches, insertions, deletions, and the statements that scan a *)
(* table and delete or update what they scan.  At first the records that   *)
(* the log recovered may have to be put back.                              *)
(*                                                                         *)
(* A record is the row it is a version of and the two stamps MvccTrx puts  *)
(* on it.  A record pointer points into the page, so a statement sees the  *)
(* slot as it is when it looks.  Every statement is a transaction of its   *)
(* own here; MvccTrx models transactions, this module models latches.      *)
(***************************************************************************)
EXTENDS Integers, Sequences, FiniteSets, FiniteSetsExt

CONSTANTS Threads,
          Capacity,     \* record_capacity of a page
          ByteBits,     \* bits in a byte of a bitmap (8 in the code)
          MaxPage,      \* bound: last page number
          Files,        \* initial contents: how many records each page holds
          RedoLogs,     \* the rids the log recovers, in log order
          Statements,   \* thread -> kinds of statement it runs
          MaxOps        \* bound: statements a thread runs

Nobody == "nobody"

ASSUME RecordFileAssumption ==
  /\ Capacity \in Nat \ {0} /\ ByteBits \in Nat \ {0}
  /\ MaxPage \in Nat /\ MaxOps \in Nat
  /\ Nobody \notin Threads
  /\ Statements \in [Threads -> SUBSET {"insert", "select", "delete", "delete_sub", "update"}]
  /\ Files \subseteq Seq(0..Capacity) /\ \A f \in Files : Len(f) <= MaxPage
  /\ RedoLogs \subseteq Seq((1..MaxPage) \X (0..Capacity - 1))

VARIABLES pages,        \* page number -> its slots and record count
          page_count,   \* BPFileHeader::page_count
          allocated,    \* BPFileHeader::bitmap, without the header page
          free_pages,   \* RecordFileHandler::free_pages_
          lock,         \* the holder of RecordFileHandler::lock_
          latch,        \* page number -> owner, recursion, readers
          redo,         \* the log still to be recovered
          th,           \* threads
          recovered,    \* history: the pages recover_page brought
          clock,        \* MvccTrxKit::current_trx_id_
          ops           \* statements so far

vars == <<pages, page_count, allocated, free_pages, lock, latch, redo, recovered, th, clock, ops>>

NoPage == 0
NoSlot == -1
NoRid == <<NoPage, NoSlot>>

Slots == 0..Capacity - 1
MaxTrxId == 1000
Empty == [row |-> 0, begin |-> 0, end |-> 0]
NoRec == [rid |-> NoRid, seen |-> Empty]
Version(row, begin) == [row |-> row, begin |-> begin, end |-> MaxTrxId]
Committed(p, s) == Version(10 * p + s, 1)
EmptyPage == [slots |-> [s \in Slots |-> Empty], num |-> 0]
Set(page) == {s \in Slots : page.slots[s] # Empty}
At(rid) == pages[rid[1]].slots[rid[2]]

-----------------------------------------------------------------------------
(* Bitmaps.  next_setted_bit starts each byte at start % 8 until it has    *)
(* looked into one that is not empty.                                      *)

NextSettedBit(bits, start, size) ==
  LET bytes == {i \div ByteBits : i \in {j \in bits : j \div ByteBits >= start \div ByteBits}}
      first == Min(bytes)
      hits  == {i \in bits : /\ i \div ByteBits >= first
                             /\ i \div ByteBits = first => i % ByteBits >= start % ByteBits}
  IN  IF bytes = {} \/ hits = {} THEN -1
      ELSE IF Min(hits) >= size THEN -1 ELSE Min(hits)

NextUnsettedBit(bits) == Min(Slots \ bits)

-----------------------------------------------------------------------------
(* RecursiveSharedMutex: a writer may lock again, readers are only counted. *)

NoLatch == [owner |-> Nobody, depth |-> 0, readers |-> {}]

CanRead(p) == latch[p].owner = Nobody
CanWrite(t, p) == latch[p].owner = t \/ (latch[p].owner = Nobody /\ latch[p].readers = {})
ReadLatched(l, t) == [l EXCEPT !.readers = @ \cup {t}]
ReadUnlatched(l, t) == [l EXCEPT !.readers = @ \ {t}]
WriteLatched(l, t) == [l EXCEPT !.owner = t, !.depth = @ + 1]
WriteUnlatched(l) == IF l.depth > 1 THEN [l EXCEPT !.depth = @ - 1] ELSE [l EXCEPT !.owner = Nobody, !.depth = 0]

(* Mutant: a read latch is not given back.                                 *)
CleanupForgets(ls, t, p, readonly) ==
  IF p = NoPage \/ readonly THEN ls ELSE [ls EXCEPT ![p] = WriteUnlatched(@)]

(* RecordPageHandler::cleanup of the scanner's page handler.               *)
Cleanup(ls, t, p, readonly) ==
  IF p = NoPage THEN ls
  ELSE [ls EXCEPT ![p] = IF readonly THEN ReadUnlatched(@, t) ELSE WriteUnlatched(@)]

-----------------------------------------------------------------------------
(* A thread: its program counter, its statement, the page handler of the   *)
(* call it is in, the record it inserts, and its scanner: page, next slot  *)
(* of the page iterator, prefetched and current record, each with what it  *)
(* was when visit_record let it pass.                                      *)

Idle == [pc |-> "idle", stmt |-> "none", page |-> NoPage, rec |-> Empty, rid |-> NoRid,
         tid |-> 0, limit |-> 0, at |-> 0, scan_page |-> NoPage, slot |-> NoSlot, next |-> NoRec, cur |-> NoRec,
         visited |-> <<>>, must |-> {}, todo |-> {}]

ReadOnly(t) == th[t].stmt = "select"

Init ==
  /\ \E f \in Files :
       /\ pages = [p \in 1..MaxPage |->
                     IF p > Len(f) THEN EmptyPage
                     ELSE [slots |-> [s \in Slots |-> IF s < f[p] THEN Committed(p, s) ELSE Empty], num |-> f[p]]]
       /\ page_count = Len(f) + 1
       /\ allocated = 1..Len(f)
       /\ free_pages = {p \in 1..Len(f) : f[p] < Capacity}
       /\ redo \in IF f = <<>> THEN RedoLogs ELSE {<<>>}
  /\ recovered = {}
  /\ lock = Nobody
  /\ latch = [p \in 1..MaxPage |-> NoLatch]
  /\ th = [t \in Threads |-> Idle]
  /\ clock = 2 /\ ops = [t \in Threads |-> 0]

file == <<pages, page_count, allocated>>
locks == <<free_pages, lock, latch>>
log == <<redo, recovered>>

(* visit_record: what the statement's transaction may see.                 *)
Visit(t, rec) ==
  IF rec.begin > 0 /\ rec.end > 0
  THEN IF rec.begin <= th[t].tid /\ th[t].tid <= rec.end THEN "visible" ELSE "invisible"
  ELSE IF rec.begin < 0
  THEN IF -rec.begin = th[t].tid THEN "visible" ELSE "invisible"
  ELSE IF -rec.end = th[t].tid THEN "invisible"
  ELSE IF ReadOnly(t) THEN "visible" ELSE "conflict"

Ready(t) == th[t].pc = "idle" /\ redo = <<>> /\ ops[t] < MaxOps
Go(t, rec) == th' = [th EXCEPT ![t] = rec]
Rids == allocated \X Slots
Mine(t) == {r \in Rids : -th[t].tid \in {At(r).begin, At(r).end}}

-----------------------------------------------------------------------------
(* Recovery, before any statement runs: recover_page marks the page        *)
(* allocated and counts one page more, whatever its number.                *)

RecoverPage(p) ==
  IF p \in allocated THEN UNCHANGED <<allocated, page_count>>
  ELSE allocated' = allocated \cup {p} /\ page_count' = page_count + 1

RecoverInsertRecord ==
  LET rid == Head(redo)
      old == pages[rid[1]]
  IN  /\ redo # <<>>
      /\ RecoverPage(rid[1])
      /\ pages' = [pages EXCEPT ![rid[1]] = [slots |-> [old.slots EXCEPT ![rid[2]] = Committed(rid[1], rid[2])],
                                             num |-> IF rid[2] \in Set(old) THEN old.num ELSE old.num + 1]]
      /\ redo' = Tail(redo)
      /\ recovered' = recovered \cup ({rid[1]} \ allocated)
      /\ UNCHANGED <<locks, th, clock, ops>>

-----------------------------------------------------------------------------
(* RecordFileHandler::insert_record, as a call of its own or inside the    *)
(* UPDATE that inserts a new version.                                      *)

StartInsert(t) ==
  /\ "insert" \in Statements[t] /\ Ready(t)
  /\ Go(t, [Idle EXCEPT !.pc = "ins_lock", !.stmt = "insert", !.tid = clock,
                        !.rec = Version(100 + clock, -clock)])
  /\ ops' = [ops EXCEPT ![t] = @ + 1] /\ clock' = clock + 1
  /\ UNCHANGED <<file, locks, log>>

(* The set is unordered: any page may be its first.  Without one lock_ is  *)
(* given back.                                                             *)
Pick(t, free) ==
  IF free = {} THEN Go(t, [th[t] EXCEPT !.pc = "ins_alloc"]) /\ lock' = Nobody
  ELSE \E p \in free : Go(t, [th[t] EXCEPT !.pc = "ins_latch", !.page = p]) /\ lock' = t

InsertLock(t) ==
  /\ th[t].pc = "ins_lock" /\ lock = Nobody
  /\ Pick(t, free_pages)
  /\ UNCHANGED <<file, free_pages, latch, log, clock, ops>>

(* The page's latch is waited for inside lock_.  A full page leaves the    *)
(* set; otherwise lock_ is given back and the latch kept.                  *)
InsertLatch(t) ==
  LET p == th[t].page
  IN  /\ th[t].pc = "ins_latch" /\ CanWrite(t, p)
      /\ IF pages[p].num >= Capacity
         THEN /\ free_pages' = free_pages \ {p}
              /\ Pick(t, free_pages')
              /\ UNCHANGED latch
         ELSE /\ latch' = [latch EXCEPT ![p] = WriteLatched(@, t)]
              /\ lock' = Nobody
              /\ Go(t, [th[t] EXCEPT !.pc = "ins_put"])
              /\ UNCHANGED free_pages
      /\ UNCHANGED <<file, log, clock, ops>>

(* allocate_page: a new page at the end of the file (record pages are      *)
(* never disposed); afterwards anybody can see it in the bitmap.           *)
InsertAllocate(t) ==
  /\ th[t].pc = "ins_alloc" /\ page_count <= MaxPage
  /\ allocated' = allocated \cup {page_count}
  /\ page_count' = page_count + 1
  /\ pages' = [pages EXCEPT ![page_count] = EmptyPage]
  /\ Go(t, [th[t] EXCEPT !.pc = "ins_init", !.page = page_count])
  /\ UNCHANGED <<locks, log, clock, ops>>

InsertInit(t) ==
  /\ th[t].pc = "ins_init" /\ CanWrite(t, th[t].page)
  /\ latch' = [latch EXCEPT ![th[t].page] = WriteLatched(@, t)]
  /\ Go(t, [th[t] EXCEPT !.pc = "ins_share"])
  /\ UNCHANGED <<file, free_pages, lock, log, clock, ops>>

InsertShare(t) ==
  /\ th[t].pc = "ins_share" /\ lock = Nobody
  /\ free_pages' = free_pages \cup {th[t].page}
  /\ Go(t, [th[t] EXCEPT !.pc = "ins_put"])
  /\ UNCHANGED <<file, lock, latch, log, clock, ops>>

(* RecordFileScanner::next: the prefetched record becomes the current one. *)
HandOut(rec) ==
  IF rec.next = NoRec THEN [rec EXCEPT !.pc = "close", !.cur = NoRec]
  ELSE [rec EXCEPT !.pc = "fetch", !.cur = rec.next, !.visited = Append(@, rec.next.rid)]

(* RecordPageHandler::insert_record and the handler's cleanup.             *)
InsertPut(t) ==
  LET p    == th[t].page
      slot == NextUnsettedBit(Set(pages[p]))
  IN  /\ th[t].pc = "ins_put"
      /\ pages' = [pages EXCEPT ![p] = [slots |-> [@.slots EXCEPT ![slot] = th[t].rec], num |-> @.num + 1]]
      /\ latch' = [latch EXCEPT ![p] = WriteUnlatched(@)]
      /\ Go(t, [th[t] EXCEPT !.pc = "ins_done", !.page = NoPage, !.rid = <<p, slot>>])
      /\ UNCHANGED <<page_count, allocated, free_pages, lock, log, clock, ops>>

(* Table::insert_record puts the record into the indexes; a duplicate      *)
(* key takes the record out again and ends the statement.                  *)
InsertDone(t) ==
  /\ th[t].pc = "ins_done"
  /\ \/ th[t].stmt = "insert" /\ Go(t, [th[t] EXCEPT !.pc = "commit"])
     \/ th[t].stmt = "update" /\ Go(t, HandOut(th[t]))
     \/ Go(t, [th[t] EXCEPT !.pc = "del_latch"])
  /\ UNCHANGED <<file, locks, log, clock, ops>>

-----------------------------------------------------------------------------
(* RecordFileHandler::delete_record: the page latch is given back before   *)
(* lock_ is taken.  It is called by an insertion that meets a duplicate    *)
(* key, that of an UPDATE with its scan still open, and by a rollback.     *)

(* Mutant: the page latch is kept while lock_ is taken.                    *)
DeleteRecordKeepsLatch(t) ==
  LET rid == th[t].rid
  IN  /\ th[t].pc = "del_latch" /\ CanWrite(t, rid[1])
      /\ pages' = [pages EXCEPT ![rid[1]] = [slots |-> [@.slots EXCEPT ![rid[2]] = Empty], num |-> @.num - 1]]
      /\ latch' = [latch EXCEPT ![rid[1]] = WriteLatched(@, t)]
      /\ Go(t, [th[t] EXCEPT !.pc = "del_share"])
      /\ UNCHANGED <<page_count, allocated, free_pages, lock, log, clock, ops>>

DeleteRecord(t) ==
  LET rid == th[t].rid
  IN  /\ th[t].pc = "del_latch" /\ CanWrite(t, rid[1])
      /\ pages' = [pages EXCEPT ![rid[1]] = [slots |-> [@.slots EXCEPT ![rid[2]] = Empty], num |-> @.num - 1]]
      /\ Go(t, [th[t] EXCEPT !.pc = "del_share"])
      /\ UNCHANGED <<page_count, allocated, locks, log, clock, ops>>

(* Mutant: the page is not put into free_pages_.                           *)
DeleteShareForgets(t) ==
  /\ th[t].pc = "del_share" /\ lock = Nobody
  /\ Go(t, [th[t] EXCEPT !.pc = IF th[t].cur = NoRec THEN "rollback" ELSE "failed"])
  /\ UNCHANGED <<file, locks, log, clock, ops>>

DeleteShare(t) ==
  /\ th[t].pc = "del_share" /\ lock = Nobody
  /\ free_pages' = free_pages \cup {th[t].rid[1]}
  /\ Go(t, [th[t] EXCEPT !.pc = IF th[t].cur = NoRec THEN "rollback" ELSE "failed"])
  /\ UNCHANGED <<file, lock, latch, log, clock, ops>>

-----------------------------------------------------------------------------
(* Statements over RecordFileScanner.  open_scan fixes the number of pages *)
(* and prefetches the first record; next hands out the prefetched record   *)
(* and fetches the one after it, which may mean leaving the page.  `must'  *)
(* is what the statement has to come across: all it can see now.           *)

OpenScan(t, stmt) ==
  /\ stmt \in Statements[t] \ {"insert"} /\ Ready(t)
  /\ Go(t, [Idle EXCEPT !.pc = "fetch", !.stmt = stmt, !.tid = clock, !.limit = page_count,
                        !.must = {r \in Rids : At(r).begin > 0 /\ At(r).end = MaxTrxId /\ r[1] < page_count}])
  /\ ops' = [ops EXCEPT ![t] = @ + 1] /\ clock' = clock + 1
  /\ UNCHANGED <<file, locks, log>>

(* Mutant: the page count is taken for the number of the last page. *)
FollowingPageEarly(t) == NextSettedBit(allocated \cup {0}, th[t].at + 1, th[t].limit - 1)
FollowingPage(t) == NextSettedBit(allocated \cup {0}, th[t].at + 1, th[t].limit)

(* Where the statement goes on once the fetch is over: to the record it    *)
(* has in hand, or, after open_scan, to its subquery or its first record.  *)
AfterFetch(rec) ==
  IF rec.cur # NoRec THEN [rec EXCEPT !.pc = "process"]
  ELSE IF rec.stmt = "delete_sub" THEN [rec EXCEPT !.pc = "subquery"]
  ELSE HandOut(rec)

(* fetch_next_record: the next slot that is not invisible, else the next   *)
(* page, whose latch is waited for after this page's is given back, else   *)
(* the end.  A conflict ends the statement.                                *)
FetchInPage(t) ==
  LET p     == th[t].scan_page
      here  == th[t].slot
      after == NextSettedBit(Set(pages[p]), here + 1, Capacity)
      visit == Visit(t, pages[p].slots[here])
  IN  /\ th[t].pc = "fetch" /\ p # NoPage /\ here # NoSlot
      /\ Go(t, CASE visit = "visible"   -> AfterFetch([th[t] EXCEPT !.slot = after, !.next = [rid |-> <<p, here>>, seen |-> pages[p].slots[here]]])
                 [] visit = "invisible" -> [th[t] EXCEPT !.slot = after]
                 [] visit = "conflict"  -> [th[t] EXCEPT !.pc = "failed"])
      /\ UNCHANGED <<file, locks, log, clock, ops>>

FetchNextPage(t) ==
  /\ th[t].pc = "fetch" /\ (th[t].scan_page = NoPage \/ th[t].slot = NoSlot)
  /\ latch' = Cleanup(latch, t, th[t].scan_page, ReadOnly(t))
  /\ Go(t, IF FollowingPage(t) = -1
           THEN AfterFetch([th[t] EXCEPT !.next = NoRec, !.scan_page = NoPage])
           ELSE [th[t] EXCEPT !.at = FollowingPage(t), !.scan_page = NoPage, !.pc = "fetch_latch"])
  /\ UNCHANGED <<file, free_pages, lock, log, clock, ops>>

FetchLatch(t) ==
  LET p == th[t].at
  IN  /\ th[t].pc = "fetch_latch"
      /\ IF ReadOnly(t) THEN CanRead(p) ELSE CanWrite(t, p)
      /\ latch' = [latch EXCEPT ![p] = IF ReadOnly(t) THEN ReadLatched(@, t) ELSE WriteLatched(@, t)]
      /\ Go(t, [th[t] EXCEPT !.pc = "fetch", !.scan_page = p, !.slot = NextSettedBit(Set(pages[p]), 0, Capacity)])
      /\ UNCHANGED <<file, free_pages, lock, log, clock, ops>>

(* A subquery over the same table, run by TableScanPhysicalOperator::open  *)
(* when the scan is open: it reads the page the scan has latched.          *)
Subquery(t) ==
  /\ th[t].pc = "subquery"
  /\ th[t].scan_page # NoPage => CanRead(th[t].scan_page)
  /\ Go(t, HandOut(th[t]))
  /\ UNCHANGED <<file, locks, log, clock, ops>>

(* What the statement does with its current record: return it, mark it     *)
(* deleted unless it is marked already, or mark it and insert a new        *)
(* version unless another transaction has marked it.                       *)
Mark(t, rid) == [pages EXCEPT ![rid[1]].slots[rid[2]].end = -th[t].tid]

SelectRecord(t) ==
  /\ th[t].pc = "process" /\ th[t].stmt = "select"
  /\ Go(t, HandOut(th[t]))
  /\ UNCHANGED <<file, locks, log, clock, ops>>

(* A record with another's mark (end < 0) is skipped where assertions are  *)
(* compiled out; with DEBUG, ASSERT(end_xid > 0) stops the server there.   *)
DeleteCurrent(t) ==
  LET cur == th[t].cur.rid
  IN  /\ th[t].pc = "process" /\ th[t].stmt \in {"delete", "delete_sub"}
      /\ pages' = IF At(cur).end = MaxTrxId THEN Mark(t, cur) ELSE pages
      /\ Go(t, HandOut(th[t]))
      /\ UNCHANGED <<page_count, allocated, locks, log, clock, ops>>

UpdateCurrent(t) ==
  LET cur == th[t].cur.rid
  IN  /\ th[t].pc = "process" /\ th[t].stmt = "update"
      /\ IF Visit(t, At(cur)) = "visible"
         THEN /\ pages' = Mark(t, cur)
              /\ Go(t, [th[t] EXCEPT !.pc = "ins_lock", !.rec = Version(At(cur).row, -th[t].tid)])
         ELSE Go(t, [th[t] EXCEPT !.pc = "failed"]) /\ UNCHANGED pages
      /\ UNCHANGED <<page_count, allocated, locks, log, clock, ops>>

(* close_scan, then the end of the transaction: commit takes a trx id and  *)
(* stamps, record by record, what is in operations_; of a record both      *)
(* inserted and marked only the insertion is there, and the record whose   *)
(* UPDATE met a duplicate key is not: it keeps the mark.  A failed         *)
(* statement rolls back.  Of the scan, nothing is needed any more.         *)
Operations(t) == {r \in Mine(t) : r # th[t].cur.rid \/ At(r).begin = -th[t].tid}

CloseScan(t) ==
  /\ \/ th[t].pc = "close" /\ Go(t, [th[t] EXCEPT !.pc = "commit", !.scan_page = NoPage])
     \/ th[t].pc = "failed" /\ Go(t, [th[t] EXCEPT !.pc = "rollback", !.scan_page = NoPage,
                                                   !.next = NoRec, !.cur = NoRec,
                                                   !.visited = <<>>, !.must = {}, !.todo = Operations(t)])
  /\ latch' = Cleanup(latch, t, th[t].scan_page, ReadOnly(t))
  /\ UNCHANGED <<file, free_pages, lock, log, clock, ops>>

(* operations_ is a hash set; its order does not matter here: by rid.      *)
FirstOperation(t) ==
  {r \in th[t].todo : \A q \in th[t].todo : r[1] < q[1] \/ (r[1] = q[1] /\ r[2] <= q[2])}

Commit(t) ==
  /\ th[t].pc = "commit"
  /\ Go(t, [th[t] EXCEPT !.pc = "stamp", !.limit = clock, !.visited = <<>>, !.must = {}, !.todo = Mine(t)])
  /\ clock' = clock + 1
  /\ UNCHANGED <<file, locks, log, ops>>

CommitRecord(t) ==
  /\ th[t].pc = "stamp"
  /\ \/ \E r \in FirstOperation(t) :
          /\ CanWrite(t, r[1])
          /\ pages' = [pages EXCEPT ![r[1]].slots[r[2]] =
                         IF @.begin = -th[t].tid THEN [@ EXCEPT !.begin = th[t].limit]
                         ELSE [@ EXCEPT !.end = th[t].limit]]
          /\ Go(t, [th[t] EXCEPT !.todo = @ \ {r}])
     \/ th[t].todo = {} /\ Go(t, Idle) /\ UNCHANGED pages
  /\ UNCHANGED <<page_count, allocated, locks, log, clock, ops>>

RollbackRecord(t) ==
  /\ th[t].pc = "rollback"
  /\ \/ \E r \in FirstOperation(t) :
          /\ CanWrite(t, r[1])
          /\ IF At(r).begin = -th[t].tid
             THEN Go(t, [th[t] EXCEPT !.pc = "del_latch", !.rid = r, !.todo = @ \ {r}]) /\ UNCHANGED pages
             ELSE /\ pages' = [pages EXCEPT ![r[1]].slots[r[2]].end = MaxTrxId]
                  /\ Go(t, [th[t] EXCEPT !.todo = @ \ {r}])
     \/ th[t].todo = {} /\ Go(t, Idle) /\ UNCHANGED pages
  /\ UNCHANGED <<page_count, allocated, locks, log, clock, ops>>

Run(t) ==
  \/ InsertLock(t) \/ InsertLatch(t) \/ InsertAllocate(t) \/ InsertInit(t)
  \/ InsertShare(t) \/ InsertPut(t) \/ InsertDone(t) \/ DeleteRecord(t) \/ DeleteShare(t)
  \/ FetchInPage(t) \/ FetchNextPage(t) \/ FetchLatch(t) \/ Subquery(t)
  \/ SelectRecord(t) \/ DeleteCurrent(t) \/ UpdateCurrent(t) \/ CloseScan(t)
  \/ Commit(t) \/ CommitRecord(t) \/ RollbackRecord(t)

Start(t) == StartInsert(t) \/ \E stmt \in Statements[t] : OpenScan(t, stmt)

Next == RecoverInsertRecord \/ \E t \in Threads : Start(t) \/ Run(t)

(* Every thread that can go on does: the operating system schedules it.    *)
Fairness == \A t \in Threads : WF_vars(Run(t))
Spec == Init /\ [][Next]_vars /\ Fairness

-----------------------------------------------------------------------------
(* Properties.                                                             *)

(* Space is never lost: a page with a free slot is in free_pages_, or a    *)
(* thread is on its way to put it there - although delete_record gives the *)
(* page back before it takes lock_, and insert_record drops full pages.    *)
(* The pages of recover_page are the exception: they stay unused.          *)
FreeSpaceKnown ==
  \A p \in allocated \ recovered :
    pages[p].num < Capacity =>
      \/ p \in free_pages
      \/ \E t \in Threads : \/ th[t].pc \in {"ins_init", "ins_share"} /\ th[t].page = p
                            \/ th[t].pc = "del_share" /\ th[t].rid[1] = p

(* Recovery makes every record of the log reachable: its page is below     *)
(* page_count, where scans stop and new pages begin - provided the log has *)
(* a record on each page up to the last, else recover_page counts short.   *)
Gapless(ps) == \A p \in ps : 1..p \subseteq ps
RecoveredReachable ==
  redo = <<>> /\ Gapless(allocated) => \A r \in Rids : At(r) # Empty => r[1] < page_count

(* A statement that comes to its end has met every record that was         *)
(* committed when it began, and none twice, whatever the other threads     *)
(* insert, delete or update meanwhile, and whatever it inserts itself.     *)
ScanComplete ==
  \A t \in Threads :
    th[t].pc = "commit" /\ th[t].stmt # "insert" =>
      /\ \A r \in th[t].must : \/ r \in {th[t].visited[i] : i \in DOMAIN th[t].visited}
                               \/ At(r).end # MaxTrxId
      /\ \A i, j \in DOMAIN th[t].visited : i # j => th[t].visited[i] # th[t].visited[j]

(* delete_record and update_record rely on the check made when the record  *)
(* was fetched.  A record on the page a scan has latched changes under the  *)
(* scan in one way only: by a statement that had the record in hand as the  *)
(* last of the page and, one fetch ahead, has let go of the latch before it *)
(* writes.                                                                  *)
LatchKeeps ==
  \A t \in Threads, s \in Slots :
    LET p == th[t].scan_page
    IN  p # NoPage /\ pages'[p].slots[s] # pages[p].slots[s] =>
          \/ th'[t] # th[t]
          \/ \E u \in Threads : /\ th[u].pc = "process" /\ th[u].cur.rid = <<p, s>>
                                /\ th[u].scan_page # p /\ th'[u] # th[u]
LatchedRecordsKept == [][LatchKeeps]_vars

(* Who waits for whom.                                                     *)
Holders(p) == latch[p].readers \cup ({latch[p].owner} \ {Nobody})
WaitsFor(t) ==
  CASE th[t].pc \in {"ins_lock", "ins_share", "del_share"} -> {lock} \ {Nobody}
    [] th[t].pc \in {"ins_latch", "ins_init"} -> IF CanWrite(t, th[t].page) THEN {} ELSE Holders(th[t].page)
    [] th[t].pc = "del_latch" -> IF CanWrite(t, th[t].rid[1]) THEN {} ELSE Holders(th[t].rid[1])
    [] th[t].pc = "fetch_latch" /\ ~ReadOnly(t) -> IF CanWrite(t, th[t].at) THEN {} ELSE Holders(th[t].at)
    [] th[t].pc = "fetch_latch" /\ ReadOnly(t) -> {latch[th[t].at].owner} \ {Nobody}
    [] th[t].pc = "subquery" /\ th[t].scan_page # NoPage -> {latch[th[t].scan_page].owner} \ {Nobody}
    [] th[t].pc \in {"stamp", "rollback"} ->
         UNION {Holders(r[1]) : r \in {q \in FirstOperation(t) : ~CanWrite(t, q[1])}}
    [] OTHER -> {}
Deadlocked(t) == t \in WaitsFor(t) \/ \E u \in WaitsFor(t) : t \in WaitsFor(u) \/ u \in WaitsFor(u)

(* Page latch and lock_ are taken in both orders.  insert_record and       *)
(* delete_record alone never block each other; the ways to a deadlock are  *)
(* an UPDATE that inserts while its scan holds a latch, and a statement    *)
(* that reads, in a subquery, the page its own scan has write-latched.     *)
DeadlockOnlyInUpdate ==
  \A t \in Threads :
    /\ t \in WaitsFor(t) => th[t].stmt = "delete_sub"
    /\ \A u \in WaitsFor(t) : u # t /\ t \in WaitsFor(u) => "update" \in {th[t].stmt, th[u].stmt}

(* Unless it runs into such a deadlock every statement ends, an UPDATE     *)
(* that meets its own new versions included: the scan stops at the page    *)
(* count of its opening.                                                   *)
StatementsEnd == \A t \in Threads : th[t].pc # "idle" ~> (th[t].pc = "idle" \/ Deadlocked(t))

(* Pages with room are found again and pages with records are within the    *)
(* page count, after recovery and after any overlap of the three users of   *)
(* free_pages_.                                                             *)
SpaceExact == FreeSpaceKnown /\ RecoveredReachable

(* What a statement sees while others write: all of its records, and no    *)
(* change of the page it has latched but by such a straggler.               *)
ScansSound == [][ScanComplete' /\ LatchKeeps]_vars
=============================================================================
