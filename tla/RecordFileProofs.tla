-------------------------- MODULE RecordFileProofs --------------------------
(***************************************************************************)
(* The record manager for any number of threads, pages, slots and          *)
(* statements.                                                             *)
(*                                                                         *)
(* Who waits for whom follows from who has what (Latches, LockHeld), and   *)
(* that from where each thread stands in its statement (Phases).  The two  *)
(* orders in which insert_record takes lock_ and a page latch do not meet, *)
(* because a page is latched before lock_ only while nobody else knows it  *)
(* (FreshPages, KnownPages).  That a page's record count is exact needs    *)
(* that a rollback finds the record it removes: records carry the marks of *)
(* one transaction (Marks), what is left to end is still marked (Todo,     *)
(* Own), and what a scan has in hand cannot vanish (InHand).               *)
(***************************************************************************)
EXTENDS RecordFile, TLAPS, FiniteSetTheorems, WellFoundedInduction

PageNos == 1..MaxPage
RidT == PageNos \X Slots
Rec == [row : Int, begin : Int, end : Int]
Page == [slots : [Slots -> Rec], num : Int]
Fetched == [rid : RidT, seen : Rec] \cup {NoRec}

InsertPcs == {"ins_lock", "ins_latch", "ins_alloc", "ins_init", "ins_share", "ins_put", "ins_done"}
ScanPcs == {"fetch", "fetch_latch", "subquery", "process", "close", "failed"}
EndPcs == {"stamp", "rollback", "del_latch", "del_share"}
DeletePcs == {"del_latch", "del_share"}
GoingPcs == (ScanPcs \ {"failed"}) \cup InsertPcs
Scans == {"select", "delete", "delete_sub", "update"}

Thread ==
  [pc : InsertPcs \cup ScanPcs \cup EndPcs \cup {"idle", "commit"},
   stmt : Scans \cup {"insert", "none"},
   page : 0..MaxPage, rec : Rec, rid : RidT \cup {NoRid}, tid : Nat, limit : Nat,
   at : 0..MaxPage, scan_page : 0..MaxPage, slot : Slots \cup {NoSlot},
   next : Fetched, cur : Fetched, visited : Seq(RidT), must : SUBSET RidT, todo : SUBSET RidT]

TypeOK ==
  /\ pages \in [PageNos -> Page]
  /\ page_count \in Nat \ {0}
  /\ allocated \subseteq PageNos
  /\ free_pages \subseteq PageNos
  /\ lock \in Threads \cup {Nobody}
  /\ latch \in [PageNos -> [owner : Threads \cup {Nobody}, depth : Nat, readers : SUBSET Threads]]
  /\ redo \in Seq(RidT)
  /\ recovered \subseteq PageNos
  /\ th \in [Threads -> Thread]
  /\ clock \in Nat \ {0}
  /\ ops \in [Threads -> Nat]

\* What the control state of a thread says about its statement and its scan.
Phases ==
  \A t \in Threads :
    /\ th[t].pc = "idle" => th[t] = Idle
    /\ th[t].pc # "idle" => redo = <<>>
    /\ th[t].pc \in InsertPcs => th[t].stmt \in {"insert", "update"}
    /\ th[t].pc \in ScanPcs => th[t].stmt \in Scans
    /\ th[t].pc \in {"ins_latch", "ins_init", "ins_share", "ins_put"} => th[t].page \in PageNos
    /\ th[t].pc \in {"ins_done", "del_latch", "del_share"} => th[t].rid \in RidT
    /\ th[t].pc = "fetch_latch" => th[t].at \in PageNos /\ th[t].scan_page = NoPage
    /\ th[t].pc = "subquery" => th[t].stmt = "delete_sub"
    /\ th[t].pc = "process" => th[t].cur # NoRec
    /\ th[t].scan_page # NoPage =>
         th[t].pc \in ScanPcs \cup InsertPcs \cup DeletePcs /\ th[t].stmt \in Scans
    /\ th[t].todo # {} => th[t].pc \in EndPcs
    /\ th[t].pc \in InsertPcs => (th[t].cur # NoRec <=> th[t].stmt = "update")
    /\ th[t].pc = "rollback" => th[t].cur = NoRec
    /\ th[t].pc \in DeletePcs => /\ th[t].cur # NoRec => th[t].stmt = "update" /\ th[t].todo = {}
                                 /\ th[t].scan_page # NoPage => th[t].cur # NoRec

\* What a scan covers lies below the page count.
Scanned ==
  \A t \in Threads :
    /\ th[t].pc # "stamp" => th[t].limit <= page_count
    /\ th[t].at < page_count /\ th[t].scan_page < page_count

\* How often a thread has latched a page for writing.
ScanDepth(T, p) == IF T.scan_page = p /\ T.stmt # "select" THEN 1 ELSE 0
InsertDepth(T, p) == IF T.pc \in {"ins_share", "ins_put"} /\ T.page = p THEN 1 ELSE 0
Depth(T, p) == ScanDepth(T, p) + InsertDepth(T, p)
Reads(T, p) == T.scan_page = p /\ T.stmt = "select"

LatchOf(l, W, p) ==
  /\ \A t \in Threads : Depth(W[t], p) = IF l.owner = t THEN l.depth ELSE 0
  /\ l.owner = Nobody <=> l.depth = 0
  /\ l.readers = {t \in Threads : Reads(W[t], p)}
  /\ l.readers # {} => l.owner = Nobody
Latches == \A p \in PageNos : LatchOf(latch[p], th, p)

LockHeld == \A t \in Threads : lock = t <=> th[t].pc = "ins_latch"

\* A page that its thread has allocated and not yet put into free_pages_.
Fresh(T, p) == T.pc \in {"ins_init", "ins_share"} /\ T.page = p
FreshPages ==
  \A t \in Threads, p \in PageNos :
    Fresh(th[t], p) => /\ p < page_count /\ pages[p] = EmptyPage
                       /\ \A u \in Threads : Fresh(th[u], p) => u = t

Known(p) == p < page_count /\ \A t \in Threads : ~Fresh(th[t], p)
KnownPages ==
  /\ \A p \in free_pages : Known(p)
  /\ \A t \in Threads : /\ th[t].pc = "ins_latch" => th[t].page \in free_pages
                        /\ th[t].pc = "ins_put" => Known(th[t].page)
                        /\ th[t].pc = "del_share" => Known(th[t].rid[1])
  /\ \A r \in RidT : At(r).begin < 0 \/ At(r).end < 0 => Known(r[1])

\* Transaction ids are drawn from the clock.
Tids ==
  /\ \A t \in Threads : th[t].pc # "idle" => th[t].tid \in 1..clock - 1
  /\ \A t, u \in Threads : t # u /\ th[t].pc # "idle" /\ th[u].pc # "idle" => th[t].tid # th[u].tid
  /\ \A t \in Threads : th[t].pc = "stamp" => th[t].limit > 0

\* A record that is not committed carries the marks of one transaction.
Marks ==
  /\ \A r \in RidT : /\ At(r) = Empty \/ (At(r).begin # 0 /\ At(r).end # 0)
                     /\ At(r).begin < 0 => At(r).end \in {MaxTrxId, At(r).begin}
  /\ \A t \in Threads : th[t].pc \in InsertPcs \ {"ins_done"} =>
       th[t].rec.begin = -th[t].tid /\ th[t].rec.end = MaxTrxId

\* What a scan that goes on has fetched is in its page and not another's
\* insertion; the slot it looks at next is in use.
Live(T, x) == x # NoRec => x.rid[1] < page_count /\ (At(x.rid).begin > 0 \/ At(x.rid).begin = -T.tid)
InHand ==
  \A t \in Threads :
    /\ th[t].pc \in GoingPcs => Live(th[t], th[t].cur) /\ Live(th[t], th[t].next)
    /\ th[t].pc \in GoingPcs /\ th[t].scan_page # NoPage /\ th[t].slot # NoSlot =>
         At(<<th[t].scan_page, th[t].slot>>) # Empty

\* A commit or rollback still has its mark on what it has to visit.
Todo == \A t \in Threads : \A r \in th[t].todo : -th[t].tid \in {At(r).begin, At(r).end}
Own ==
  \A t \in Threads :
    /\ th[t].pc \in {"ins_done", "del_latch"} => At(th[t].rid).begin = -th[t].tid
    /\ th[t].pc = "del_latch" => th[t].rid \notin th[t].todo

\* record_num is the number of slots in use, and an insertion finds room.
Counted ==
  /\ \A p \in PageNos : pages[p].num = Cardinality(Set(pages[p]))
  /\ \A t \in Threads : th[t].pc = "ins_put" => pages[th[t].page].num < Capacity

\* The header counts no fewer pages than are in use.
PagesCounted ==
  /\ Cardinality(allocated) < page_count
  /\ redo # <<>> => recovered = allocated

ControlInv == TypeOK /\ Phases /\ Scanned /\ Latches /\ LockHeld
PageInv == FreshPages /\ KnownPages /\ PagesCounted /\ FreeSpaceKnown
RecordInv == Tids /\ Marks /\ InHand /\ Todo /\ Own /\ Counted

IInv == ControlInv /\ PageInv /\ RecordInv

-----------------------------------------------------------------------------
(* The steps of a thread, each with what it does to the thread's own state *)
(* (T before the step, U after it) and to the shared one.                  *)

KeepStmt(T, U) == U.stmt = T.stmt /\ U.tid = T.tid /\ U.rec = T.rec /\ U.todo = T.todo
KeepPlace(T, U) == U.page = T.page /\ U.rid = T.rid
KeepScan(T, U) ==
  /\ U.limit = T.limit /\ U.at = T.at /\ U.scan_page = T.scan_page /\ U.slot = T.slot
  /\ U.next = T.next /\ U.cur = T.cur

\* A statement begins: an insertion, or a scan.
Starts(t, T, U) ==
  /\ T.pc = "idle" /\ redo = <<>>
  /\ U.tid = clock /\ U.limit \in {0, page_count} /\ U.at = 0 /\ U.scan_page = NoPage
  /\ U.next = NoRec /\ U.cur = NoRec /\ U.todo = {}
  /\ \/ /\ U.pc = "ins_lock" /\ U.stmt = "insert"
        /\ U.rec.begin = -clock /\ U.rec.end = MaxTrxId
     \/ U.pc = "fetch" /\ U.stmt \in Scans
  /\ clock' = clock + 1
  /\ UNCHANGED <<file, locks, log>>

\* insert_record looks into free_pages_, perhaps after a full page.
Picks(t, T, U) ==
  /\ \/ T.pc = "ins_lock" /\ lock = Nobody /\ free_pages' = free_pages
     \/ T.pc = "ins_latch" /\ pages[T.page].num >= Capacity /\ free_pages' = free_pages \ {T.page}
  /\ \/ U.pc = "ins_alloc" /\ lock' = Nobody
     \/ U.pc = "ins_latch" /\ U.page \in free_pages' /\ lock' = t
  /\ KeepStmt(T, U) /\ KeepScan(T, U)
  /\ UNCHANGED <<file, latch, log, clock>>

LatchesPage(t, T, U) ==
  /\ T.pc = "ins_latch" /\ CanWrite(t, T.page) /\ pages[T.page].num < Capacity
  /\ U.pc = "ins_put" /\ KeepStmt(T, U) /\ KeepScan(T, U) /\ KeepPlace(T, U)
  /\ latch' = [latch EXCEPT ![T.page] = WriteLatched(@, t)] /\ lock' = Nobody
  /\ UNCHANGED <<file, free_pages, log, clock>>

Allocates(t, T, U) ==
  /\ T.pc = "ins_alloc" /\ page_count <= MaxPage
  /\ U.pc = "ins_init" /\ U.page = page_count /\ KeepStmt(T, U) /\ KeepScan(T, U)
  /\ allocated' = allocated \cup {page_count} /\ page_count' = page_count + 1
  /\ pages' = [pages EXCEPT ![page_count] = EmptyPage]
  /\ UNCHANGED <<locks, log, clock>>

InitsPage(t, T, U) ==
  /\ T.pc = "ins_init" /\ CanWrite(t, T.page)
  /\ U.pc = "ins_share" /\ KeepStmt(T, U) /\ KeepScan(T, U) /\ KeepPlace(T, U)
  /\ latch' = [latch EXCEPT ![T.page] = WriteLatched(@, t)]
  /\ UNCHANGED <<file, free_pages, lock, log, clock>>

SharesPage(t, T, U) ==
  /\ T.pc = "ins_share" /\ lock = Nobody
  /\ U.pc = "ins_put" /\ KeepStmt(T, U) /\ KeepScan(T, U) /\ KeepPlace(T, U)
  /\ free_pages' = free_pages \cup {T.page}
  /\ UNCHANGED <<file, lock, latch, log, clock>>

Puts(t, T, U) ==
  /\ T.pc = "ins_put"
  /\ U.pc = "ins_done" /\ U.rid[1] = T.page /\ U.rid \in RidT /\ At(U.rid) = Empty
  /\ KeepStmt(T, U) /\ KeepScan(T, U)
  /\ pages' = [pages EXCEPT ![T.page] = [slots |-> [@.slots EXCEPT ![U.rid[2]] = T.rec], num |-> @.num + 1]]
  /\ latch' = [latch EXCEPT ![T.page] = WriteUnlatched(@)]
  /\ UNCHANGED <<page_count, allocated, free_pages, lock, log, clock>>

InsertEnds(t, T, U) ==
  /\ T.pc = "ins_done" /\ (U.pc = "del_latch" \/ (T.stmt = "insert" /\ U.pc = "commit"))
  /\ KeepStmt(T, U) /\ KeepScan(T, U) /\ KeepPlace(T, U)
  /\ UNCHANGED <<file, locks, log, clock>>

DeletesRecord(t, T, U) ==
  /\ T.pc = "del_latch" /\ CanWrite(t, T.rid[1])
  /\ U.pc = "del_share" /\ KeepStmt(T, U) /\ KeepScan(T, U) /\ KeepPlace(T, U)
  /\ pages' = [pages EXCEPT ![T.rid[1]] = [slots |-> [@.slots EXCEPT ![T.rid[2]] = Empty], num |-> @.num - 1]]
  /\ UNCHANGED <<page_count, allocated, locks, log, clock>>

SharesDeleted(t, T, U) ==
  /\ T.pc = "del_share" /\ lock = Nobody
  /\ U.pc = (IF T.cur = NoRec THEN "rollback" ELSE "failed")
  /\ KeepStmt(T, U) /\ KeepScan(T, U) /\ KeepPlace(T, U)
  /\ free_pages' = free_pages \cup {T.rid[1]}
  /\ UNCHANGED <<file, lock, latch, log, clock>>

\* Where a scan may stand after next() or fetch_next_record().
ScanPlace(U) ==
  /\ U.pc \in {"fetch", "subquery", "process", "close", "failed"}
  /\ U.pc = "subquery" => U.stmt = "delete_sub"
  /\ U.pc = "process" => U.cur # NoRec

\* The scan goes on within its page.
ScanMoves(t, T, U) ==
  /\ T.pc \in {"fetch", "subquery", "process", "ins_done"} /\ T.stmt \in Scans
  /\ ScanPlace(U) /\ KeepStmt(T, U) /\ KeepPlace(T, U)
  /\ U.limit = T.limit /\ U.at = T.at /\ U.scan_page = T.scan_page
  /\ Live(T, U.cur) /\ Live(T, U.next)
  /\ U.scan_page # NoPage /\ U.slot # NoSlot => At(<<U.scan_page, U.slot>>) # Empty
  /\ UNCHANGED <<file, locks, log, clock>>

\* The scan marks its current record, and goes on or inserts a new version.
MarksRecord(t, T, U) ==
  /\ T.pc = "process" /\ T.stmt \in Scans \ {"select"} /\ U.pc # "process"
  /\ At(T.cur.rid).end > 0 \/ At(T.cur.rid).begin = -T.tid
  /\ U.stmt = T.stmt /\ U.tid = T.tid /\ U.todo = T.todo /\ KeepPlace(T, U)
  /\ U.limit = T.limit /\ U.at = T.at /\ U.scan_page = T.scan_page /\ U.slot = T.slot /\ U.next = T.next
  /\ U.cur \in {NoRec, T.cur, T.next}
  /\ \/ ScanPlace(U)
     \/ U.pc = "ins_lock" /\ U.stmt = "update" /\ U.cur = T.cur /\ U.rec.begin = -T.tid /\ U.rec.end = MaxTrxId
  /\ pages' = [pages EXCEPT ![T.cur.rid[1]].slots[T.cur.rid[2]].end = -T.tid]
  /\ UNCHANGED <<page_count, allocated, locks, log, clock>>

\* The scan leaves its page: for the next one, at its end, or closed.
LeavesPage(t, T, U) ==
  /\ T.pc \in {"fetch", "close", "failed"} /\ (T.pc = "failed" => U.pc = "rollback")
  /\ U.stmt = T.stmt /\ U.tid = T.tid /\ U.rec = T.rec /\ KeepPlace(T, U)
  /\ U.limit = T.limit /\ U.scan_page = NoPage
  /\ U.next \in {NoRec, T.next} /\ U.cur \in {NoRec, T.cur, T.next}
  /\ \/ U.pc = "fetch_latch" /\ U.at \in PageNos /\ U.at < T.limit /\ U.todo = T.todo
     \/ ScanPlace(U) /\ U.at = T.at /\ U.todo = T.todo
     \/ U.pc = "commit" /\ U.at = T.at /\ U.todo = T.todo
     \/ U.pc = "rollback" /\ U.at = T.at /\ U.todo \subseteq Mine(t) /\ U.cur = NoRec
  /\ latch' = Cleanup(latch, t, T.scan_page, T.stmt = "select")
  /\ UNCHANGED <<file, free_pages, lock, log, clock>>

EntersPage(t, T, U) ==
  /\ T.pc = "fetch_latch"
  /\ IF T.stmt = "select" THEN CanRead(T.at) ELSE CanWrite(t, T.at)
  /\ U.pc = "fetch" /\ KeepStmt(T, U) /\ KeepPlace(T, U)
  /\ U.limit = T.limit /\ U.at = T.at /\ U.scan_page = T.at /\ U.next = T.next /\ U.cur = T.cur
  /\ U.slot # NoSlot => At(<<T.at, U.slot>>) # Empty
  /\ latch' = [latch EXCEPT ![T.at] = IF T.stmt = "select" THEN ReadLatched(@, t) ELSE WriteLatched(@, t)]
  /\ UNCHANGED <<file, free_pages, lock, log, clock>>

Commits(t, T, U) ==
  /\ T.pc = "commit"
  /\ U.pc = "stamp" /\ U.limit = clock /\ U.todo = Mine(t)
  /\ U.stmt = T.stmt /\ U.tid = T.tid /\ U.rec = T.rec /\ KeepPlace(T, U)
  /\ U.at = T.at /\ U.scan_page = T.scan_page /\ U.slot = T.slot /\ U.next = T.next /\ U.cur = T.cur
  /\ clock' = clock + 1
  /\ UNCHANGED <<file, locks, log>>

\* A commit or rollback visits a record.
Stamped(T, rec) == IF rec.begin = -T.tid THEN [rec EXCEPT !.begin = T.limit] ELSE [rec EXCEPT !.end = T.limit]
VisitsRecord(t, T, U, r) ==
  /\ r \in T.todo /\ CanWrite(t, r[1]) /\ U.todo = T.todo \ {r}
  /\ U.pc = T.pc /\ U.stmt = T.stmt /\ U.tid = T.tid /\ U.rec = T.rec /\ KeepPlace(T, U) /\ KeepScan(T, U)
  /\ \/ T.pc = "stamp" /\ pages' = [pages EXCEPT ![r[1]].slots[r[2]] = Stamped(T, @)]
     \/ /\ T.pc = "rollback" /\ At(r).begin # -T.tid
        /\ pages' = [pages EXCEPT ![r[1]].slots[r[2]].end = MaxTrxId]
  /\ UNCHANGED <<page_count, allocated, locks, log, clock>>

PicksInsertion(t, T, U, r) ==
  /\ T.pc = "rollback" /\ r \in T.todo /\ At(r).begin = -T.tid
  /\ U.pc = "del_latch" /\ U.rid = r /\ U.todo = T.todo \ {r} /\ U.page = T.page
  /\ U.stmt = T.stmt /\ U.tid = T.tid /\ U.rec = T.rec /\ KeepScan(T, U)
  /\ UNCHANGED <<file, locks, log, clock>>

Finishes(t, T, U) ==
  /\ T.pc \in {"stamp", "rollback"} /\ T.todo = {}
  /\ U = Idle
  /\ UNCHANGED <<file, locks, log, clock>>

Action(t, T, U, r) ==
  \/ Starts(t, T, U) \/ Picks(t, T, U) \/ LatchesPage(t, T, U) \/ Allocates(t, T, U)
  \/ InitsPage(t, T, U) \/ SharesPage(t, T, U) \/ Puts(t, T, U) \/ InsertEnds(t, T, U)
  \/ DeletesRecord(t, T, U) \/ SharesDeleted(t, T, U) \/ ScanMoves(t, T, U)
  \/ MarksRecord(t, T, U) \/ LeavesPage(t, T, U) \/ EntersPage(t, T, U) \/ Commits(t, T, U)
  \/ VisitsRecord(t, T, U, r) \/ PicksInsertion(t, T, U, r) \/ Finishes(t, T, U)

\* One step of one thread; the other threads stay where they are.
ThreadStep(t, T, U, r) ==
  /\ T = th[t] /\ U \in Thread /\ th' = [th EXCEPT ![t] = U]
  /\ ops' \in [Threads -> Nat]
  /\ Action(t, T, U, r)

-----------------------------------------------------------------------------
(* Bitmaps.                                                                *)

\* A set of numbers has a smallest.
LEMMA MinOf ==
  ASSUME NEW S \in SUBSET Nat, S # {}
  PROVE  Min(S) \in S /\ \A y \in S : Min(S) <= y
  <1> DEFINE R == {ss \in Nat \X Nat : ss[1] < ss[2]}
  <1>1. IsWellFoundedOn(R, Nat)
    BY NatLessThanWellFounded, Zenon DEF OpToRel
  <1> HIDE DEF R
  <1>2. PICK x \in S : \A y \in S : ~(<<y, x>> \in R)
    BY <1>1, WFMin
  <1>3. \A y \in S : ~(y < x)
    BY <1>2 DEF R
  <1>4. \A y \in S : x <= y
    BY <1>3
  <1> QED
    BY <1>4 DEF Min

\* next_setted_bit returns a bit that is set, below the size and not before the
\* first, or none.
LEMMA NextSetted ==
  ASSUME NEW bits \in SUBSET Nat, NEW start \in Nat, NEW size \in Nat
  PROVE  LET n == NextSettedBit(bits, start, size)
         IN  n = -1 \/ (n \in bits /\ n < size /\ (start > 0 => n > 0))
  <1> DEFINE bytes == {i \div ByteBits : i \in {j \in bits : j \div ByteBits >= start \div ByteBits}}
             first == Min(bytes)
             hits  == {i \in bits : /\ i \div ByteBits >= first
                                    /\ i \div ByteBits = first => i % ByteBits >= start % ByteBits}
             n == NextSettedBit(bits, start, size)
  <1> SUFFICES ASSUME n # -1 PROVE n \in bits /\ n < size /\ (start > 0 => n > 0)
    OBVIOUS
  <1>1. bytes # {} /\ hits # {} /\ n = Min(hits) /\ ~(Min(hits) >= size)
    BY DEF NextSettedBit
  <1>2. \A i \in Nat : i \div ByteBits \in Nat /\ i % ByteBits \in Nat
    BY RecordFileAssumption
  <1>3. hits \in SUBSET Nat /\ bytes \in SUBSET Nat
    BY <1>2
  <1>4. n \in hits /\ first \in bytes
    BY <1>1, <1>3, MinOf
  <1>5. first \in Nat /\ first >= start \div ByteBits
    BY <1>3, <1>4
  <1>6. ASSUME start > 0, n = 0 PROVE FALSE
    <2>1. 0 \div ByteBits = 0 /\ 0 % ByteBits = 0
      BY RecordFileAssumption
    <2>2. 0 >= first /\ (0 = first => 0 >= start % ByteBits)
      BY <1>4, <1>6, <2>1
    <2>3. start \div ByteBits = 0 /\ start % ByteBits = 0
      BY <1>2, <1>5, <2>2
    <2>4. start = (ByteBits * (start \div ByteBits)) + (start % ByteBits)
      BY RecordFileAssumption
    <2> QED
      BY <1>6, <2>3, <2>4, RecordFileAssumption
  <1>7. n \in Nat /\ n \in bits
    BY <1>4
  <1> QED
    BY <1>1, <1>6, <1>7

-----------------------------------------------------------------------------
(* Every step of a thread is one of the actions above.                     *)

\* A thread's state stays well typed when its program counter, or its page too, is set.
LEMMA SetPc ==
  ASSUME NEW T \in Thread, NEW pc \in InsertPcs \cup ScanPcs \cup EndPcs \cup {"idle", "commit"}
  PROVE  [T EXCEPT !.pc = pc] \in Thread
  BY DEF Thread
LEMMA SetPage ==
  ASSUME NEW T \in Thread, NEW pc \in InsertPcs, NEW p \in 0..MaxPage
  PROVE  [T EXCEPT !.pc = pc, !.page = p] \in Thread
  BY DEF Thread

\* A thread between statements.
LEMMA IdleTyped == Idle \in Thread
  <1>1. Empty \in Rec /\ NoRec \in Fetched /\ <<>> \in Seq(RidT)
    BY DEF Empty, Rec, Fetched
  <1>2. NoPage \in 0..MaxPage /\ 0 \in 0..MaxPage
    BY RecordFileAssumption DEF NoPage
  <1>3. NoSlot \in Slots \cup {NoSlot} /\ {} \in SUBSET RidT
    OBVIOUS
  <1> QED
    BY <1>1, <1>2, <1>3 DEF Idle, Thread

\* An insertion that begins is well typed.
LEMMA StartTyped ==
  ASSUME NEW tid \in Nat, NEW rec \in Rec
  PROVE  [Idle EXCEPT !.pc = "ins_lock", !.stmt = "insert", !.tid = tid, !.rec = rec] \in Thread
  <1> DEFINE A == [Idle EXCEPT !.pc = "ins_lock"]
             B == [A EXCEPT !.stmt = "insert"]
             C == [B EXCEPT !.tid = tid]
             D == [C EXCEPT !.rec = rec]
  <1>1. A \in Thread
    BY IdleTyped DEF Thread, InsertPcs
  <1>2. B \in Thread
    BY <1>1 DEF Thread
  <1>3. C \in Thread
    BY <1>2 DEF Thread
  <1>4. D \in Thread
    BY <1>3 DEF Thread
  <1> QED
    BY <1>4

\* next() hands out the record fetched before, or ends the scan.
LEMMA HandOutKeeps ==
  ASSUME NEW T \in Thread
  PROVE  LET U == HandOut(T)
         IN  /\ U \in Thread /\ U.pc \in {"close", "fetch"} /\ KeepStmt(T, U) /\ KeepPlace(T, U)
             /\ U.limit = T.limit /\ U.at = T.at /\ U.scan_page = T.scan_page
             /\ U.slot = T.slot /\ U.next = T.next /\ U.cur \in {NoRec, T.next}
  <1>1. T.next # NoRec => T.next.rid \in RidT
    BY DEF Thread, Fetched
  <1>2. NoRec \in Fetched /\ T.next \in Fetched
    BY DEF Thread, Fetched
  <1>3. T.next # NoRec => Append(T.visited, T.next.rid) \in Seq(RidT)
    BY <1>1 DEF Thread
  <1>4. HandOut(T) \in Thread
    BY <1>2, <1>3, ZenonT(60) DEF HandOut, Thread, ScanPcs
  <1> QED
    BY <1>4 DEF HandOut, Thread, KeepStmt, KeepPlace

\* The end of a fetch leads to a place of the scan.
LEMMA AfterFetchKeeps ==
  ASSUME NEW T \in Thread
  PROVE  LET U == AfterFetch(T)
         IN  /\ U \in Thread /\ ScanPlace(U) /\ KeepStmt(T, U) /\ KeepPlace(T, U)
             /\ U.limit = T.limit /\ U.at = T.at /\ U.scan_page = T.scan_page
             /\ U.slot = T.slot /\ U.next = T.next /\ U.cur \in {NoRec, T.cur, T.next}
  <1>1. CASE T.cur # NoRec
    <2>1. AfterFetch(T) = [T EXCEPT !.pc = "process"]
      BY <1>1 DEF AfterFetch
    <2> QED
      BY <1>1, <2>1 DEF Thread, KeepStmt, KeepPlace, ScanPlace, ScanPcs
  <1>2. CASE T.cur = NoRec /\ T.stmt = "delete_sub"
    <2>1. AfterFetch(T) = [T EXCEPT !.pc = "subquery"]
      BY <1>2 DEF AfterFetch
    <2> QED
      BY <1>2, <2>1 DEF Thread, KeepStmt, KeepPlace, ScanPlace, ScanPcs
  <1>3. CASE T.cur = NoRec /\ T.stmt # "delete_sub"
    <2>1. AfterFetch(T) = HandOut(T)
      BY <1>3 DEF AfterFetch
    <2> QED
      BY <1>3, <2>1, HandOutKeeps DEF ScanPlace
  <1> QED
    BY <1>1, <1>2, <1>3

\* A step that is one of the actions is a step of the thread.
LEMMA StepIs ==
  ASSUME NEW t \in Threads, NEW U \in Thread, NEW r, Go(t, U), ops' \in [Threads -> Nat],
         Action(t, th[t], U, r)
  PROVE  \E V, q : ThreadStep(t, th[t], V, q)
  BY Zenon DEF ThreadStep, Go

\* The steps of an insertion.
LEMMA InsertSteps ==
  ASSUME IInv, NEW t \in Threads,
         \/ StartInsert(t) \/ InsertLock(t) \/ InsertLatch(t) \/ InsertAllocate(t) \/ InsertInit(t)
         \/ InsertShare(t)
  PROVE  \E U, r : ThreadStep(t, th[t], U, r)
  <1> USE DEF IInv, ControlInv
  <1>1. CASE StartInsert(t)
    <2> DEFINE U == [Idle EXCEPT !.pc = "ins_lock", !.stmt = "insert", !.tid = clock,
                                 !.rec = Version(100 + clock, -clock)]
    <2>0. Version(100 + clock, -clock) \in Rec
      BY DEF Version, Rec, TypeOK, MaxTrxId
    <2>1. U \in Thread
      BY <2>0, StartTyped DEF TypeOK
    <2>3. ops' \in [Threads -> Nat]
      BY <1>1 DEF StartInsert, TypeOK
    <2>2. Starts(t, th[t], U)
      BY <1>1 DEF StartInsert, Ready, Starts, Idle, Version
    <2> QED
      BY <1>1, <2>1, <2>2, <2>3, StepIs, Zenon DEF StartInsert, Action
  <1>2. CASE InsertLock(t) /\ free_pages = {}
    <2> DEFINE U == [th[t] EXCEPT !.pc = "ins_alloc"]
    <2>1. U \in Thread /\ ops' \in [Threads -> Nat]
      BY <1>2, SetPc, SetPage DEF InsertLock, TypeOK, InsertPcs
    <2>2. Picks(t, th[t], U)
      BY <1>2 DEF InsertLock, Pick, Picks, TypeOK, Thread, KeepStmt, KeepScan
    <2> QED
      BY <1>2, <2>1, <2>2, StepIs, Zenon DEF InsertLock, Pick, Action
  <1>3. CASE InsertLock(t) /\ free_pages # {}
    <2>1. PICK p \in free_pages : Go(t, [th[t] EXCEPT !.pc = "ins_latch", !.page = p]) /\ lock' = t
      BY <1>3 DEF InsertLock, Pick
    <2> DEFINE U == [th[t] EXCEPT !.pc = "ins_latch", !.page = p]
    <2>2. p \in 0..MaxPage /\ th[t] \in Thread /\ ops' \in [Threads -> Nat]
      BY <1>3 DEF InsertLock, TypeOK, PageNos
    <2>3. U \in Thread
      BY <2>2, SetPage DEF InsertPcs
    <2>4. Picks(t, th[t], U)
      BY <1>3, <2>1 DEF InsertLock, Picks, TypeOK, Thread, KeepStmt, KeepScan
    <2> QED
      BY <2>1, <2>2, <2>3, <2>4, StepIs, Zenon DEF Action
  <1>4. CASE InsertLatch(t) /\ pages[th[t].page].num >= Capacity /\ free_pages' = {}
    <2> DEFINE U == [th[t] EXCEPT !.pc = "ins_alloc"]
    <2>1. U \in Thread /\ ops' \in [Threads -> Nat]
      BY <1>4, SetPc, SetPage DEF InsertLatch, TypeOK, InsertPcs
    <2>2. Picks(t, th[t], U)
      BY <1>4 DEF InsertLatch, Pick, Picks, TypeOK, Thread, KeepStmt, KeepScan
    <2> QED
      BY <1>4, <2>1, <2>2, StepIs, Zenon DEF InsertLatch, Pick, Action
  <1>5. CASE InsertLatch(t) /\ pages[th[t].page].num >= Capacity /\ free_pages' # {}
    <2>1. PICK p \in free_pages' : Go(t, [th[t] EXCEPT !.pc = "ins_latch", !.page = p]) /\ lock' = t
      BY <1>5 DEF InsertLatch, Pick
    <2> DEFINE U == [th[t] EXCEPT !.pc = "ins_latch", !.page = p]
    <2>2. free_pages' = free_pages \ {th[t].page}
      BY <1>5 DEF InsertLatch
    <2>3. p \in 0..MaxPage /\ th[t] \in Thread /\ ops' \in [Threads -> Nat]
      BY <1>5, <2>2 DEF InsertLatch, TypeOK, PageNos
    <2>5. U \in Thread
      BY <2>3, SetPage DEF InsertPcs
    <2>4. Picks(t, th[t], U)
      BY <1>5, <2>1, SMTT(60) DEF InsertLatch, Picks, TypeOK, Thread, KeepStmt, KeepScan
    <2> QED
      BY <2>1, <2>3, <2>4, <2>5, StepIs, Zenon DEF Action
  <1>6. CASE InsertLatch(t) /\ ~(pages[th[t].page].num >= Capacity)
    <2> DEFINE U == [th[t] EXCEPT !.pc = "ins_put"]
    <2>1. U \in Thread /\ ops' \in [Threads -> Nat]
      BY <1>6, SetPc, SetPage DEF InsertLatch, TypeOK, InsertPcs
    <2>2. pages[th[t].page].num < Capacity
      BY <1>6, RecordFileAssumption DEF InsertLatch, TypeOK, Phases, Page
    <2>3. LatchesPage(t, th[t], U)
      BY <1>6, <2>2 DEF InsertLatch, LatchesPage, TypeOK, Thread, KeepStmt, KeepScan, KeepPlace
    <2> QED
      BY <1>6, <2>1, <2>3, StepIs, Zenon DEF InsertLatch, Action
  <1>7. CASE InsertAllocate(t)
    <2> DEFINE U == [th[t] EXCEPT !.pc = "ins_init", !.page = page_count]
    <2>0. page_count \in 0..MaxPage /\ th[t] \in Thread /\ ops' \in [Threads -> Nat]
      BY <1>7, RecordFileAssumption, SMTT(60) DEF InsertAllocate, TypeOK
    <2>1. U \in Thread
      BY <2>0, SetPage DEF InsertPcs
    <2>2. Allocates(t, th[t], U)
      BY <1>7 DEF InsertAllocate, Allocates, TypeOK, Thread, KeepStmt, KeepScan
    <2> QED
      BY <1>7, <2>0, <2>1, <2>2, StepIs, Zenon DEF InsertAllocate, Action
  <1>8. CASE InsertInit(t)
    <2> DEFINE U == [th[t] EXCEPT !.pc = "ins_share"]
    <2>1. U \in Thread /\ ops' \in [Threads -> Nat]
      BY <1>8, SetPc, SetPage DEF InsertInit, TypeOK, InsertPcs
    <2>2. InitsPage(t, th[t], U)
      BY <1>8 DEF InsertInit, InitsPage, TypeOK, Thread, KeepStmt, KeepScan, KeepPlace
    <2> QED
      BY <1>8, <2>1, <2>2, StepIs, ZenonT(60) DEF InsertInit, Action
  <1>9. CASE InsertShare(t)
    <2> DEFINE U == [th[t] EXCEPT !.pc = "ins_put"]
    <2>1. U \in Thread /\ ops' \in [Threads -> Nat]
      BY <1>9, SetPc, SetPage DEF InsertShare, TypeOK, InsertPcs
    <2>2. SharesPage(t, th[t], U)
      BY <1>9 DEF InsertShare, SharesPage, TypeOK, Thread, KeepStmt, KeepScan, KeepPlace
    <2> QED
      BY <1>9, <2>1, <2>2, StepIs, Zenon DEF InsertShare, Action
  <1> QED
    BY <1>1, <1>2, <1>3, <1>4, <1>5, <1>6, <1>7, <1>8, <1>9

\* An insertion finds a slot that is not in use.
LEMMA FreeSlot ==
  ASSUME IInv, NEW t \in Threads, th[t].pc = "ins_put"
  PROVE  LET n == NextUnsettedBit(Set(pages[th[t].page]))
         IN  n \in Slots /\ pages[th[t].page].slots[n] = Empty
  <1> DEFINE used == Set(pages[th[t].page])
  <1>1. Slots \in SUBSET Nat /\ used \subseteq Slots
    BY RecordFileAssumption DEF Slots, Set
  <1>2. IsFiniteSet(Slots) /\ Cardinality(Slots) = Capacity
    BY FS_Interval, RecordFileAssumption DEF Slots
  <1>3. Cardinality(used) < Capacity
    BY DEF IInv, ControlInv, RecordInv, Counted, Phases
  <1>4. used # Slots
    BY <1>2, <1>3, RecordFileAssumption
  <1>5. Slots \ used \in SUBSET Nat /\ Slots \ used # {}
    BY <1>1, <1>4
  <1>6. Min(Slots \ used) \in Slots \ used
    BY <1>5, MinOf
  <1> QED
    BY <1>6 DEF NextUnsettedBit, Set

\* The end of an insertion, and delete_record.
LEMMA RecordSteps ==
  ASSUME IInv, NEW t \in Threads, InsertPut(t) \/ InsertDone(t) \/ DeleteRecord(t) \/ DeleteShare(t)
  PROVE  \E U, r : ThreadStep(t, th[t], U, r)
  <1> USE DEF IInv, ControlInv
  <1>0. th[t] \in Thread /\ ops' \in [Threads -> Nat]
    BY DEF TypeOK, InsertPut, InsertDone, DeleteRecord, DeleteShare
  <1>1. CASE InsertPut(t)
    <2> DEFINE slot == NextUnsettedBit(Set(pages[th[t].page]))
               rid == <<th[t].page, slot>>
               V == [th[t] EXCEPT !.pc = "ins_done", !.page = NoPage]
               U == [th[t] EXCEPT !.pc = "ins_done", !.page = NoPage, !.rid = rid]
    <2>1. th[t].pc = "ins_put" /\ th[t].page \in PageNos
      BY <1>1 DEF InsertPut, Phases
    <2>2. slot \in Slots /\ pages[th[t].page].slots[slot] = Empty
      BY <2>1, FreeSlot
    <2> HIDE DEF slot
    <2>3. rid \in RidT /\ At(rid) = Empty
      BY <2>1, <2>2 DEF RidT, At
    <2>4. V \in Thread
      <3>1. NoPage \in 0..MaxPage /\ "ins_done" \in InsertPcs
        BY RecordFileAssumption DEF NoPage, InsertPcs
      <3> QED
        BY <1>0, <3>1, SetPage
    <2>5. [V EXCEPT !.rid = rid] \in Thread
      BY ONLY <2>3, <2>4 DEF Thread
    <2>6. U = [V EXCEPT !.rid = rid]
      BY <1>0 DEF Thread
    <2>7. Go(t, U) /\ pages' = [pages EXCEPT ![th[t].page] =
                                  [slots |-> [@.slots EXCEPT ![slot] = th[t].rec], num |-> @.num + 1]]
      BY <1>1 DEF InsertPut, slot
    <2>8. U.pc = "ins_done" /\ U.rid = rid /\ KeepStmt(th[t], U) /\ KeepScan(th[t], U)
      BY <1>0 DEF Thread, KeepStmt, KeepScan
    <2>9. Puts(t, th[t], U)
      <3>1. latch' = [latch EXCEPT ![th[t].page] = WriteUnlatched(@)]
        BY <1>1 DEF InsertPut
      <3>2. UNCHANGED <<page_count, allocated, free_pages, lock, log, clock>>
        BY <1>1 DEF InsertPut
      <3>3. rid[1] = th[t].page /\ rid[2] = slot
        OBVIOUS
      <3> HIDE DEF U, rid
      <3> QED
        BY <2>1, <2>3, <2>7, <2>8, <3>1, <3>2, <3>3 DEF Puts
    <2> QED
      BY <1>0, <2>5, <2>6, <2>7, <2>9, StepIs, Zenon DEF Action
  <1>2. CASE InsertDone(t) /\ ~Go(t, HandOut(th[t]))
    <2>1. PICK pc \in {"commit", "del_latch"} :
            Go(t, [th[t] EXCEPT !.pc = pc]) /\ (pc = "commit" => th[t].stmt = "insert")
      BY <1>2 DEF InsertDone
    <2> DEFINE U == [th[t] EXCEPT !.pc = pc]
    <2>2. U \in Thread
      BY <1>0, SetPc DEF EndPcs
    <2>3. InsertEnds(t, th[t], U)
      BY <1>0, <1>2, <2>1 DEF InsertDone, InsertEnds, Thread, KeepStmt, KeepScan, KeepPlace
    <2> QED
      BY <1>0, <2>1, <2>2, <2>3, StepIs, Zenon DEF Action
  <1>3. CASE th[t].stmt = "update" /\ InsertDone(t) /\ Go(t, HandOut(th[t]))
    <2> DEFINE U == HandOut(th[t])
    <2>1. Go(t, U) /\ th[t].pc = "ins_done"
      BY <1>3 DEF InsertDone
    <2>2. U \in Thread
      BY <1>0, HandOutKeeps
    <2>3. Live(th[t], th[t].next) /\ Live(th[t], NoRec)
      BY <2>1 DEF Live, RecordInv, InHand, GoingPcs, InsertPcs
    <2>4. ScanPlace(U) /\ Live(th[t], U.cur) /\ Live(th[t], U.next)
      BY <1>0, <2>3, HandOutKeeps DEF ScanPlace
    <2>5. U.scan_page # NoPage /\ U.slot # NoSlot => At(<<U.scan_page, U.slot>>) # Empty
      BY <1>0, <2>1, HandOutKeeps DEF RecordInv, InHand, GoingPcs, InsertPcs
    <2>6. UNCHANGED <<file, locks, log, clock>>
      BY <1>3 DEF InsertDone
    <2>7. ScanMoves(t, th[t], U)
      BY <1>0, <1>3, <2>1, <2>4, <2>5, <2>6, HandOutKeeps DEF ScanMoves, Scans
    <2> QED
      BY <1>0, <2>1, <2>2, <2>7, StepIs, Zenon DEF Action
  <1>4. CASE DeleteRecord(t)
    <2> DEFINE U == [th[t] EXCEPT !.pc = "del_share"]
    <2>1. U \in Thread
      BY <1>0, SetPc DEF EndPcs
    <2>2. DeletesRecord(t, th[t], U)
      BY <1>0, <1>4 DEF DeleteRecord, DeletesRecord, Thread, KeepStmt, KeepScan, KeepPlace
    <2> QED
      BY <1>0, <1>4, <2>1, <2>2, StepIs, Zenon DEF DeleteRecord, Action
  <1>5. CASE DeleteShare(t)
    <2> DEFINE pc == IF th[t].cur = NoRec THEN "rollback" ELSE "failed"
               U == [th[t] EXCEPT !.pc = pc]
    <2>1. U \in Thread
      BY <1>0, SetPc DEF EndPcs, ScanPcs
    <2>2. SharesDeleted(t, th[t], U)
      BY <1>0, <1>5 DEF DeleteShare, SharesDeleted, Thread, KeepStmt, KeepScan, KeepPlace
    <2> QED
      BY <1>0, <1>5, <2>1, <2>2, StepIs, Zenon DEF DeleteShare, Action
  <1>6. CASE th[t].stmt # "update" /\ InsertDone(t) /\ Go(t, HandOut(th[t]))
    <2>1. HandOut(th[t]).pc \in {"close", "fetch"}
      BY <1>0, HandOutKeeps
    <2>2. th'[t].pc \in {"commit", "del_latch"} /\ th'[t].pc \in {"close", "fetch"}
      BY <1>0, <1>6, <2>1 DEF InsertDone, Go, TypeOK, Thread
    <2> QED
      BY <2>2
  <1> QED
    BY <1>1, <1>2, <1>3, <1>4, <1>5, <1>6

\* A scan opens, or goes to a page.
LEMMA PageSteps ==
  ASSUME IInv, NEW t \in Threads,
         \/ \E stmt \in Statements[t] : OpenScan(t, stmt)
         \/ FetchNextPage(t) \/ FetchLatch(t) \/ CloseScan(t)
  PROVE  \E U, r : ThreadStep(t, th[t], U, r)
  <1> USE DEF IInv, ControlInv
  <1>0. th[t] \in Thread /\ ops' \in [Threads -> Nat]
    <2>1. ops' = ops \/ ops' = [ops EXCEPT ![t] = @ + 1]
      BY Zenon DEF OpenScan, FetchNextPage, FetchLatch, CloseScan
    <2> QED
      BY <2>1 DEF TypeOK
  <1>1. ASSUME NEW stmt \in Statements[t], OpenScan(t, stmt) PROVE \E U, r : ThreadStep(t, th[t], U, r)
    <2> DEFINE must == {r \in Rids : At(r).begin > 0 /\ At(r).end = MaxTrxId /\ r[1] < page_count}
               U == [Idle EXCEPT !.pc = "fetch", !.stmt = stmt, !.tid = clock, !.limit = page_count,
                                 !.must = must]
    <2>1. must \in SUBSET RidT
      BY DEF Rids, RidT, TypeOK
    <2>2. stmt \in Scans
      BY <1>1, RecordFileAssumption DEF OpenScan, Scans
    <2> HIDE DEF must
    <2>3. U \in Thread
      <3> DEFINE A == [Idle EXCEPT !.pc = "fetch"]
                 B == [A EXCEPT !.stmt = stmt]
                 C == [B EXCEPT !.tid = clock]
                 D == [C EXCEPT !.limit = page_count]
                 E == [D EXCEPT !.must = must]
      <3>1. clock \in Nat /\ page_count \in Nat
        BY DEF TypeOK
      <3>2. A \in Thread
        BY IdleTyped, SetPc DEF ScanPcs
      <3>3. B \in Thread
        BY ONLY <2>2, <3>2 DEF Thread
      <3>4. C \in Thread
        BY ONLY <3>1, <3>3 DEF Thread
      <3>5. D \in Thread
        BY ONLY <3>1, <3>4 DEF Thread
      <3>6. E \in Thread
        BY ONLY <2>1, <3>5 DEF Thread
      <3> QED
        BY <3>6
    <2>4. Starts(t, th[t], U)
      BY <1>1, <2>2 DEF OpenScan, Ready, Starts, Idle
    <2>5. Go(t, U)
      BY <1>1 DEF OpenScan, must
    <2> QED
      BY <1>0, <2>3, <2>4, <2>5, StepIs, Zenon DEF Action
  <1>2. CASE FetchNextPage(t) /\ FollowingPage(t) = -1
    <2> DEFINE V == [th[t] EXCEPT !.next = NoRec, !.scan_page = NoPage]
               U == AfterFetch(V)
    <2>1. V \in Thread /\ V.stmt = th[t].stmt /\ V.tid = th[t].tid /\ V.rec = th[t].rec /\ V.todo = th[t].todo
          /\ V.page = th[t].page /\ V.rid = th[t].rid /\ V.limit = th[t].limit /\ V.at = th[t].at
          /\ V.scan_page = NoPage /\ V.next = NoRec /\ V.cur = th[t].cur
      <3>1. NoRec \in Fetched /\ NoPage \in 0..MaxPage
        BY RecordFileAssumption DEF Fetched, NoPage
      <3> QED
        BY ONLY <1>0, <3>1 DEF Thread
    <2> HIDE DEF V
    <2>2. Go(t, U) /\ latch' = Cleanup(latch, t, th[t].scan_page, th[t].stmt = "select")
          /\ UNCHANGED <<file, free_pages, lock, log, clock>> /\ th[t].pc = "fetch"
      BY <1>2 DEF FetchNextPage, ReadOnly, V
    <2>3. U \in Thread
      BY <2>1, AfterFetchKeeps
    <2>4. LeavesPage(t, th[t], U)
      BY <2>1, <2>2, AfterFetchKeeps DEF LeavesPage, KeepStmt, KeepPlace
    <2> QED
      BY <1>0, <2>2, <2>3, <2>4, StepIs, Zenon DEF Action
  <1>3. CASE FetchNextPage(t) /\ FollowingPage(t) # -1
    <2> DEFINE q == FollowingPage(t)
               U == [th[t] EXCEPT !.at = q, !.scan_page = NoPage, !.pc = "fetch_latch"]
    <2>1. q \in allocated \cup {0} /\ q < th[t].limit /\ q > 0
      <3>1. allocated \cup {0} \in SUBSET Nat /\ th[t].at + 1 \in Nat /\ th[t].at + 1 > 0 /\ th[t].limit \in Nat
        BY <1>0, SMTT(60) DEF TypeOK, Thread, PageNos
      <3> QED
        BY <1>3, <3>1, NextSetted DEF FollowingPage
    <2>3. Go(t, U) /\ latch' = Cleanup(latch, t, th[t].scan_page, th[t].stmt = "select")
          /\ UNCHANGED <<file, free_pages, lock, log, clock>> /\ th[t].pc = "fetch"
      BY <1>3 DEF FetchNextPage, ReadOnly
    <2> HIDE DEF q
    <2>2. q \in PageNos /\ q \in 0..MaxPage /\ NoPage \in 0..MaxPage
      BY <2>1, RecordFileAssumption DEF TypeOK, PageNos, NoPage
    <2>4. U \in Thread
      BY ONLY <1>0, <2>2 DEF Thread, ScanPcs
    <2>5. U.pc = "fetch_latch" /\ U.at = q /\ U.scan_page = NoPage /\ KeepStmt(th[t], U) /\ KeepPlace(th[t], U)
          /\ U.limit = th[t].limit /\ U.next = th[t].next /\ U.cur = th[t].cur
      BY ONLY <1>0 DEF Thread, KeepStmt, KeepPlace
    <2> HIDE DEF U
    <2>6. LeavesPage(t, th[t], U)
      BY <2>1, <2>2, <2>3, <2>5 DEF LeavesPage, KeepStmt
    <2> QED
      BY <1>0, <2>3, <2>4, <2>6, StepIs, Zenon DEF Action
  <1>4. CASE FetchLatch(t)
    <2> DEFINE q == th[t].at
               n == NextSettedBit(Set(pages[q]), 0, Capacity)
               U == [th[t] EXCEPT !.pc = "fetch", !.scan_page = q, !.slot = n]
    <2>1. Set(pages[q]) \in SUBSET Nat /\ 0 \in Nat /\ Capacity \in Nat
      BY RecordFileAssumption DEF Set, Slots
    <2>2. n = NoSlot \/ (n \in Slots /\ pages[q].slots[n] # Empty)
      BY <2>1, NextSetted DEF Set, NoSlot
    <2>3. Go(t, U) /\ th[t].pc = "fetch_latch"
      BY <1>4 DEF FetchLatch
    <2> HIDE DEF n
    <2>4. U \in Thread
      BY ONLY <1>0, <2>2 DEF Thread, ScanPcs
    <2>5. U.pc = "fetch" /\ U.slot = n /\ U.scan_page = th[t].at /\ KeepStmt(th[t], U) /\ KeepPlace(th[t], U)
          /\ U.limit = th[t].limit /\ U.at = th[t].at /\ U.next = th[t].next /\ U.cur = th[t].cur
      BY ONLY <1>0 DEF Thread, KeepStmt, KeepPlace
    <2>6. U.slot # NoSlot => At(<<th[t].at, U.slot>>) # Empty
      BY <2>2, <2>5 DEF At
    <2> HIDE DEF U
    <2>7. EntersPage(t, th[t], U)
      BY <1>4, <2>3, <2>5, <2>6 DEF FetchLatch, EntersPage, ReadOnly
    <2> QED
      BY <1>0, <2>3, <2>4, <2>7, StepIs, Zenon DEF Action
  <1>5. CASE CloseScan(t)
    <2>1. NoPage \in 0..MaxPage /\ Mine(t) \in SUBSET RidT
      BY RecordFileAssumption DEF NoPage, Mine, Rids, RidT, TypeOK
    <2>2. latch' = Cleanup(latch, t, th[t].scan_page, th[t].stmt = "select")
          /\ UNCHANGED <<file, free_pages, lock, log, clock>>
      BY <1>5 DEF CloseScan, ReadOnly
    <2>3. CASE th[t].pc = "close"
      <3> DEFINE U == [th[t] EXCEPT !.pc = "commit", !.scan_page = NoPage]
      <3>1. U \in Thread
        BY ONLY <1>0, <2>1 DEF Thread
      <3>2. LeavesPage(t, th[t], U)
        BY <1>0, <2>2, <2>3 DEF Thread, LeavesPage, KeepPlace
      <3> QED
        BY <1>0, <1>5, <2>3, <3>1, <3>2, StepIs, Zenon DEF Action, CloseScan
    <2>4. CASE th[t].pc = "failed"
      <3> DEFINE U == [th[t] EXCEPT !.pc = "rollback", !.scan_page = NoPage, !.next = NoRec, !.cur = NoRec,
                                    !.visited = <<>>, !.must = {}, !.todo = Operations(t)]
                 A == [th[t] EXCEPT !.pc = "rollback", !.scan_page = NoPage]
                 B == [A EXCEPT !.next = NoRec, !.cur = NoRec]
                 C == [B EXCEPT !.visited = <<>>, !.must = {}]
                 D == [C EXCEPT !.todo = Operations(t)]
      <3>0. Operations(t) \in SUBSET RidT /\ Operations(t) \subseteq Mine(t)
            /\ NoRec \in Fetched /\ <<>> \in Seq(RidT)
        BY <2>1 DEF Operations, Fetched
      <3>1. A \in Thread
        BY ONLY <1>0, <2>1 DEF Thread, EndPcs
      <3>2. B \in Thread
        BY ONLY <3>0, <3>1 DEF Thread
      <3>3. C \in Thread
        BY ONLY <3>0, <3>2 DEF Thread
      <3>4. D \in Thread
        BY ONLY <3>0, <3>3 DEF Thread
      <3>5. U = D
        BY ONLY <1>0 DEF Thread
      <3>6. U.pc = "rollback" /\ U.stmt = th[t].stmt /\ U.tid = th[t].tid /\ U.rec = th[t].rec
            /\ KeepPlace(th[t], U) /\ U.limit = th[t].limit /\ U.scan_page = NoPage /\ U.at = th[t].at
            /\ U.next = NoRec /\ U.cur = NoRec /\ U.todo = Operations(t)
        BY ONLY <1>0 DEF Thread, KeepPlace
      <3>7. Go(t, U)
        BY <1>5, <2>4 DEF CloseScan
      <3> HIDE DEF U
      <3>8. LeavesPage(t, th[t], U)
        BY <2>2, <2>4, <3>0, <3>6 DEF LeavesPage
      <3> QED
        BY <1>0, <3>4, <3>5, <3>7, <3>8, StepIs, Zenon DEF Action
    <2> QED
      BY <1>5, <2>3, <2>4 DEF CloseScan
  <1> QED
    BY <1>1, <1>2, <1>3, <1>4, <1>5

\* What visit_record lets pass is committed or the statement's own.
LEMMA VisibleLives ==
  ASSUME NEW t \in Threads, NEW rec \in Rec, rec.begin # 0, th[t].tid \in Nat, Visit(t, rec) = "visible"
  PROVE  /\ rec.begin > 0 \/ rec.begin = -th[t].tid
         /\ rec.end > 0 \/ rec.begin = -th[t].tid \/ ReadOnly(t)
  BY DEF Visit, Rec

\* A scan works within its page.
LEMMA ScanSteps ==
  ASSUME IInv, NEW t \in Threads,
         FetchInPage(t) \/ Subquery(t) \/ SelectRecord(t) \/ DeleteCurrent(t) \/ UpdateCurrent(t)
  PROVE  \E U, r : ThreadStep(t, th[t], U, r)
  <1> USE DEF IInv, ControlInv
  <1>0. th[t] \in Thread /\ ops' \in [Threads -> Nat] /\ th[t].stmt \in Scans
        /\ th[t].pc \in {"fetch", "subquery", "process"}
    BY Zenon DEF TypeOK, FetchInPage, Subquery, SelectRecord, DeleteCurrent, UpdateCurrent, Phases, ScanPcs
  <1>1. Live(th[t], th[t].cur) /\ Live(th[t], th[t].next) /\ Live(th[t], NoRec)
    BY <1>0 DEF RecordInv, InHand, Live, GoingPcs, ScanPcs
  <1>2. th[t].scan_page # NoPage /\ th[t].slot # NoSlot => At(<<th[t].scan_page, th[t].slot>>) # Empty
    BY <1>0 DEF RecordInv, InHand, GoingPcs, ScanPcs
  <1>3. CASE FetchInPage(t)
    <2> DEFINE p     == th[t].scan_page
               here  == th[t].slot
               after == NextSettedBit(Set(pages[p]), here + 1, Capacity)
               visit == Visit(t, pages[p].slots[here])
               fetched == [rid |-> <<p, here>>, seen |-> pages[p].slots[here]]
               V == [th[t] EXCEPT !.slot = after, !.next = fetched]
               W == [th[t] EXCEPT !.slot = after]
               X == [th[t] EXCEPT !.pc = "failed"]
    <2>1. th[t].pc = "fetch" /\ p \in PageNos /\ here \in Slots /\ p # NoPage
      <3>1. p \in 0..MaxPage /\ here \in Slots \cup {NoSlot}
        BY <1>0, SMTT(60) DEF Thread
      <3>2. th[t].pc = "fetch" /\ p # NoPage /\ here # NoSlot
        BY <1>3, ZenonT(60) DEF FetchInPage
      <3> HIDE DEF p, here
      <3> QED
        BY <3>1, <3>2, RecordFileAssumption DEF NoPage, PageNos
    <2>2. UNCHANGED <<file, locks, log, clock>>
      BY <1>3 DEF FetchInPage
    <2>3. pages[p].slots[here] \in Rec /\ pages[p].slots[here] # Empty /\ p < page_count
          /\ pages[p].slots[here].begin # 0
      <3>1. <<p, here>> \in RidT /\ At(<<p, here>>) = pages[p].slots[here]
        BY <2>1, SMTT(60) DEF RidT, At
      <3>2. pages[p].slots[here] # Empty
        BY <1>2, <1>3, <3>1 DEF FetchInPage
      <3>3. pages[p].slots[here] \in Rec
        BY <2>1 DEF TypeOK, Page
      <3> QED
        BY <3>1, <3>2, <3>3 DEF RecordInv, Marks, Scanned
    <2>4. after = NoSlot \/ (after \in Slots /\ pages[p].slots[after] # Empty)
      <3>1. Set(pages[p]) \in SUBSET Nat /\ here + 1 \in Nat /\ Capacity \in Nat
        BY <2>1, RecordFileAssumption DEF Set, Slots
      <3> QED
        BY <3>1, NextSetted DEF Set, NoSlot
    <2>5. Go(t, CASE visit = "visible"   -> AfterFetch(V)
                  [] visit = "invisible" -> W
                  [] visit = "conflict"  -> X)
      BY <1>3 DEF FetchInPage
    <2>6. visit \in {"visible", "invisible", "conflict"}
      BY DEF Visit
    <2> HIDE DEF after, visit
    <2>7. CASE visit = "visible"
      <3>1. fetched \in Fetched
        BY <2>1, <2>3 DEF Fetched, RidT
      <3>2. Live(th[t], fetched)
        <4>1. pages[p].slots[here].begin > 0 \/ pages[p].slots[here].begin = -th[t].tid
          BY <1>0, <2>3, <2>7, VisibleLives DEF visit, Thread
        <4>2. At(fetched.rid) = pages[p].slots[here] /\ fetched.rid[1] = p
          BY DEF At
        <4> QED
          BY <2>3, <4>1, <4>2 DEF Live
      <3> HIDE DEF fetched
      <3>3. V \in Thread /\ V.slot = after /\ V.next = fetched /\ V.cur = th[t].cur
            /\ KeepStmt(th[t], V) /\ KeepPlace(th[t], V)
            /\ V.limit = th[t].limit /\ V.at = th[t].at /\ V.scan_page = p
        BY ONLY <1>0, <2>4, <3>1 DEF Thread, KeepStmt, KeepPlace
      <3> HIDE DEF V
      <3> DEFINE U == AfterFetch(V)
      <3>4. Go(t, U)
        BY <2>5, <2>7
      <3>5. U \in Thread
        BY <3>3, AfterFetchKeeps
      <3>6. Live(th[t], U.cur) /\ Live(th[t], U.next)
        BY <1>1, <3>2, <3>3, AfterFetchKeeps
      <3>7. U.scan_page = p /\ U.slot = after
        BY <3>3, AfterFetchKeeps
      <3>8. U.scan_page # NoPage /\ U.slot # NoSlot => At(<<U.scan_page, U.slot>>) # Empty
        BY <2>4, <3>7 DEF At
      <3>9. ScanMoves(t, th[t], U)
        BY <1>0, <2>1, <2>2, <3>3, <3>6, <3>7, <3>8, AfterFetchKeeps DEF ScanMoves, KeepStmt, KeepPlace
      <3> QED
        BY <1>0, <3>4, <3>5, <3>9, StepIs, Zenon DEF Action
    <2>8. CASE visit = "invisible"
      <3>1. W \in Thread
        BY ONLY <1>0, <2>4 DEF Thread
      <3>2. W.slot = after /\ W.pc = th[t].pc /\ W.cur = th[t].cur /\ W.next = th[t].next
            /\ KeepStmt(th[t], W) /\ KeepPlace(th[t], W)
            /\ W.limit = th[t].limit /\ W.at = th[t].at /\ W.scan_page = p
        BY ONLY <1>0 DEF Thread, KeepStmt, KeepPlace
      <3>3. W.scan_page # NoPage /\ W.slot # NoSlot => At(<<W.scan_page, W.slot>>) # Empty
        BY <2>4, <3>2 DEF At
      <3>4. Go(t, W)
        BY <2>5, <2>8
      <3> HIDE DEF W
      <3>5. ScanMoves(t, th[t], W)
        BY <1>0, <1>1, <2>1, <2>2, <3>2, <3>3 DEF ScanMoves, ScanPlace
      <3> QED
        BY <1>0, <3>1, <3>4, <3>5, StepIs, Zenon DEF Action
    <2>9. CASE visit = "conflict"
      <3>1. X \in Thread
        BY <1>0, SetPc DEF ScanPcs
      <3>2. ScanMoves(t, th[t], X)
        BY <1>0, <1>1, <1>2, <2>2 DEF ScanMoves, ScanPlace, Thread, KeepStmt, KeepPlace
      <3>3. Go(t, X)
        BY <2>5, <2>9
      <3> QED
        BY <1>0, <3>1, <3>2, <3>3, StepIs, Zenon DEF Action
    <2> QED
      BY <2>6, <2>7, <2>8, <2>9
  <1>4. CASE UNCHANGED <<file, locks, log, clock>> /\ Go(t, HandOut(th[t]))
    <2> DEFINE U == HandOut(th[t])
    <2>1. U \in Thread /\ ScanPlace(U) /\ Live(th[t], U.cur) /\ Live(th[t], U.next)
      BY <1>0, <1>1, HandOutKeeps DEF ScanPlace
    <2>2. U.scan_page # NoPage /\ U.slot # NoSlot => At(<<U.scan_page, U.slot>>) # Empty
      BY <1>0, <1>2, HandOutKeeps
    <2>3. ScanMoves(t, th[t], U)
      BY <1>0, <1>4, <2>1, <2>2, HandOutKeeps DEF ScanMoves
    <2> QED
      BY <1>0, <1>4, <2>1, <2>3, StepIs, Zenon DEF Action
  <1>5. CASE DeleteCurrent(t) /\ At(th[t].cur.rid).end = MaxTrxId
    <2> DEFINE U == HandOut(th[t])
    <2>1. U \in Thread /\ ScanPlace(U)
      BY <1>0, HandOutKeeps, SMTT(60) DEF ScanPlace
    <2>2. pages' = [pages EXCEPT ![th[t].cur.rid[1]].slots[th[t].cur.rid[2]].end = -th[t].tid]
          /\ Go(t, U) /\ th[t].pc = "process" /\ th[t].stmt \in {"delete", "delete_sub"}
          /\ UNCHANGED <<page_count, allocated, locks, log, clock>>
      BY <1>5 DEF DeleteCurrent, Mark
    <2>3. At(th[t].cur.rid).end > 0
      BY <1>5, SMTT(60) DEF MaxTrxId
    <2>4. MarksRecord(t, th[t], U)
      BY <1>0, <2>1, <2>2, <2>3, HandOutKeeps DEF MarksRecord, KeepStmt, Scans
    <2> QED
      BY <1>0, <2>1, <2>2, <2>4, StepIs, Zenon DEF Action
  <1>6. CASE UpdateCurrent(t) /\ Visit(t, At(th[t].cur.rid)) = "visible"
    <2> DEFINE rec == Version(At(th[t].cur.rid).row, -th[t].tid)
               V == [th[t] EXCEPT !.pc = "ins_lock"]
               U == [th[t] EXCEPT !.pc = "ins_lock", !.rec = rec]
    <2>1. th[t].pc = "process" /\ th[t].stmt = "update" /\ Go(t, U)
          /\ pages' = [pages EXCEPT ![th[t].cur.rid[1]].slots[th[t].cur.rid[2]].end = -th[t].tid]
          /\ UNCHANGED <<page_count, allocated, locks, log, clock>>
      BY <1>6, ZenonT(60) DEF UpdateCurrent, Mark
    <2>2. th[t].cur.rid \in RidT /\ th[t].cur # NoRec
      BY <1>0, <2>1 DEF Phases, Thread, Fetched
    <2>3. At(th[t].cur.rid) \in Rec
      BY <2>2 DEF TypeOK, RidT, Page, At
    <2>4. At(th[t].cur.rid).begin # 0
      BY <1>0, <1>1, <2>2, <2>3, SMTT(60) DEF Live, Thread, RecordInv, Tids
    <2>5. At(th[t].cur.rid).end > 0 \/ At(th[t].cur.rid).begin = -th[t].tid
      BY <1>0, <1>6, <2>1, <2>3, <2>4, VisibleLives DEF ReadOnly, Thread
    <2>6. rec \in Rec /\ rec.begin = -th[t].tid /\ rec.end = MaxTrxId
      BY <1>0, <2>3, SMTT(60) DEF Version, Rec, Thread, MaxTrxId
    <2> HIDE DEF rec
    <2>7. V \in Thread
      BY <1>0, SetPc DEF InsertPcs
    <2>8. U \in Thread
      <3>1. [V EXCEPT !.rec = rec] \in Thread
        BY ONLY <2>6, <2>7 DEF Thread
      <3> QED
        BY ONLY <3>1, <1>0 DEF Thread
    <2>9. MarksRecord(t, th[t], U)
      <3>1. U.pc = "ins_lock" /\ U.rec = rec /\ U.stmt = th[t].stmt /\ U.tid = th[t].tid /\ U.todo = th[t].todo
            /\ KeepPlace(th[t], U) /\ KeepScan(th[t], U)
        BY ONLY <1>0 DEF Thread, KeepPlace, KeepScan
      <3> HIDE DEF U
      <3> QED
        BY <1>0, <2>1, <2>5, <2>6, <3>1 DEF MarksRecord, Scans, KeepScan
    <2> QED
      BY <1>0, <2>1, <2>8, <2>9, StepIs, ZenonT(60) DEF Action
  <1>7. CASE UpdateCurrent(t) /\ Visit(t, At(th[t].cur.rid)) # "visible"
    <2> DEFINE X == [th[t] EXCEPT !.pc = "failed"]
    <2>1. Go(t, X) /\ UNCHANGED <<file, locks, log, clock>>
      BY <1>7 DEF UpdateCurrent, file
    <2>2. X \in Thread
      BY <1>0, SetPc DEF ScanPcs
    <2>3. ScanMoves(t, th[t], X)
      BY <1>0, <1>1, <1>2, <2>1 DEF ScanMoves, ScanPlace, Thread, KeepStmt, KeepPlace
    <2> QED
      BY <1>0, <2>1, <2>2, <2>3, StepIs, Zenon DEF Action
  <1> QED
    BY <1>3, <1>4, <1>5, <1>6, <1>7 DEF Subquery, SelectRecord, DeleteCurrent, file

\* A transaction ends.
LEMMA EndSteps ==
  ASSUME IInv, NEW t \in Threads, Commit(t) \/ CommitRecord(t) \/ RollbackRecord(t)
  PROVE  \E U, r : ThreadStep(t, th[t], U, r)
  <1> USE DEF IInv, ControlInv
  <1>0. th[t] \in Thread /\ ops' \in [Threads -> Nat]
    BY Zenon DEF TypeOK, Commit, CommitRecord, RollbackRecord
  <1>1. CASE Commit(t)
    <2> DEFINE V == [th[t] EXCEPT !.pc = "stamp", !.limit = clock]
               W == [V EXCEPT !.visited = <<>>, !.must = {}]
               U == [th[t] EXCEPT !.pc = "stamp", !.limit = clock, !.visited = <<>>, !.must = {},
                                  !.todo = Mine(t)]
    <2>1. Mine(t) \in SUBSET RidT /\ clock \in Nat /\ <<>> \in Seq(RidT)
      BY DEF Mine, Rids, RidT, TypeOK
    <2>2. V \in Thread
      BY ONLY <1>0, <2>1 DEF Thread, EndPcs
    <2>3. W \in Thread
      BY ONLY <2>1, <2>2 DEF Thread
    <2>4. [W EXCEPT !.todo = Mine(t)] \in Thread
      BY ONLY <2>1, <2>3 DEF Thread
    <2>5. U = [W EXCEPT !.todo = Mine(t)]
      BY ONLY <1>0 DEF Thread
    <2>6. U.pc = "stamp" /\ U.limit = clock /\ U.todo = Mine(t) /\ U.stmt = th[t].stmt /\ U.tid = th[t].tid
          /\ U.rec = th[t].rec /\ KeepPlace(th[t], U) /\ U.at = th[t].at /\ U.scan_page = th[t].scan_page
          /\ U.slot = th[t].slot /\ U.next = th[t].next /\ U.cur = th[t].cur
      BY ONLY <1>0 DEF Thread, KeepPlace
    <2>7. Go(t, U) /\ th[t].pc = "commit" /\ clock' = clock + 1 /\ UNCHANGED <<file, locks, log>>
      BY <1>1 DEF Commit
    <2> HIDE DEF U
    <2>8. Commits(t, th[t], U)
      BY <2>6, <2>7 DEF Commits
    <2> QED
      BY <1>0, <2>4, <2>5, <2>7, <2>8, StepIs, Zenon DEF Action
  <1>2. CASE (CommitRecord(t) \/ RollbackRecord(t)) /\ Go(t, Idle) /\ th[t].todo = {} /\ UNCHANGED pages
    <2>1. Finishes(t, th[t], Idle)
      BY <1>2 DEF Finishes, CommitRecord, RollbackRecord, file
    <2> QED
      BY <1>0, <1>2, <2>1, IdleTyped, StepIs, Zenon DEF Action
  <1>3. ASSUME NEW r \in FirstOperation(t), CanWrite(t, r[1]),
               CommitRecord(t) \/ RollbackRecord(t), Go(t, [th[t] EXCEPT !.todo = @ \ {r}]),
               \/ th[t].pc = "stamp" /\ pages' = [pages EXCEPT ![r[1]].slots[r[2]] = Stamped(th[t], @)]
               \/ /\ th[t].pc = "rollback" /\ At(r).begin # -th[t].tid
                  /\ pages' = [pages EXCEPT ![r[1]].slots[r[2]].end = MaxTrxId]
        PROVE  \E U, q : ThreadStep(t, th[t], U, q)
    <2> DEFINE U == [th[t] EXCEPT !.todo = @ \ {r}]
    <2>1. U \in Thread
      BY ONLY <1>0 DEF Thread
    <2>2. r \in th[t].todo
      BY DEF FirstOperation
    <2>3. UNCHANGED <<page_count, allocated, locks, log, clock>>
      BY <1>3 DEF CommitRecord, RollbackRecord
    <2>4. VisitsRecord(t, th[t], U, r)
      BY <1>0, <1>3, <2>2, <2>3 DEF VisitsRecord, Thread, KeepPlace, KeepScan
    <2> QED
      BY <1>0, <1>3, <2>1, <2>4, StepIs, Zenon DEF Action
  <1>4. ASSUME NEW r \in FirstOperation(t), At(r).begin = -th[t].tid, RollbackRecord(t), UNCHANGED pages,
               Go(t, [th[t] EXCEPT !.pc = "del_latch", !.rid = r, !.todo = @ \ {r}])
        PROVE  \E U, q : ThreadStep(t, th[t], U, q)
    <2> DEFINE V == [th[t] EXCEPT !.pc = "del_latch", !.rid = r]
               U == [th[t] EXCEPT !.pc = "del_latch", !.rid = r, !.todo = @ \ {r}]
    <2>1. r \in th[t].todo /\ r \in RidT
      BY <1>0 DEF FirstOperation, Thread
    <2>2. V \in Thread
      BY ONLY <1>0, <2>1 DEF Thread, EndPcs
    <2>3. [V EXCEPT !.todo = @ \ {r}] \in Thread
      BY ONLY <2>2 DEF Thread
    <2>4. U = [V EXCEPT !.todo = @ \ {r}]
      BY <1>0, SMTT(60) DEF Thread
    <2>5. PicksInsertion(t, th[t], U, r)
      BY <1>0, <1>4, <2>1, ZenonT(60) DEF RollbackRecord, PicksInsertion, Thread, KeepScan, file
    <2> QED
      BY <1>0, <1>4, <2>3, <2>4, <2>5, StepIs, Zenon DEF Action
  <1>5. CASE CommitRecord(t)
    <2>1. CASE Go(t, Idle) /\ th[t].todo = {} /\ UNCHANGED pages
      BY <1>2, <1>5, <2>1
    <2>2. CASE \E r \in FirstOperation(t) :
                 /\ CanWrite(t, r[1])
                 /\ pages' = [pages EXCEPT ![r[1]].slots[r[2]] = Stamped(th[t], @)]
                 /\ Go(t, [th[t] EXCEPT !.todo = @ \ {r}])
      BY <1>3, <1>5, <2>2, ZenonT(60) DEF CommitRecord
    <2> QED
      BY <1>5, <2>1, <2>2, Zenon DEF CommitRecord, Stamped
  <1>6. CASE RollbackRecord(t)
    <2>1. CASE Go(t, Idle) /\ th[t].todo = {} /\ UNCHANGED pages
      BY <1>2, <1>6, <2>1, SMTT(60)
    <2>2. CASE \E r \in FirstOperation(t) :
                 /\ CanWrite(t, r[1]) /\ At(r).begin # -th[t].tid
                 /\ pages' = [pages EXCEPT ![r[1]].slots[r[2]].end = MaxTrxId]
                 /\ Go(t, [th[t] EXCEPT !.todo = @ \ {r}])
      BY <1>3, <1>6, <2>2, ZenonT(60) DEF RollbackRecord
    <2>3. CASE \E r \in FirstOperation(t) :
                 /\ At(r).begin = -th[t].tid /\ UNCHANGED pages
                 /\ Go(t, [th[t] EXCEPT !.pc = "del_latch", !.rid = r, !.todo = @ \ {r}])
      BY <1>4, <1>6, <2>3 DEF RollbackRecord
    <2> QED
      BY <1>6, <2>1, <2>2, <2>3 DEF RollbackRecord
  <1> QED
    BY <1>1, <1>5, <1>6

\* Every step of the specification is recovery, or a step of a thread.
LEMMA EveryStep ==
  ASSUME IInv, Next
  PROVE  RecoverInsertRecord \/ \E t \in Threads : \E U, r : ThreadStep(t, th[t], U, r)
  BY InsertSteps, RecordSteps, PageSteps, ScanSteps, EndSteps, Zenon DEF Next, Start, Run

-----------------------------------------------------------------------------
(* What a step does to the records and to the latches.                     *)

\* A step moves one thread.
LEMMA Moved ==
  ASSUME TypeOK, NEW t \in Threads, NEW T, NEW U, NEW r, ThreadStep(t, T, U, r)
  PROVE  /\ T \in Thread /\ U \in Thread /\ T = th[t] /\ th'[t] = U
         /\ \A u \in Threads : u # t => th'[u] = th[u]
         /\ th' \in [Threads -> Thread]
  BY DEF ThreadStep, TypeOK

\* Record r becomes new; the others stay.
Writes(q, new) == \A x \in RidT : At(x)' = IF x = q THEN new ELSE At(x)

\* A page becomes X, which differs in slot s.
LEMMA WritePage ==
  ASSUME pages \in [PageNos -> Page], NEW p \in PageNos, NEW s \in Slots, NEW new, NEW X \in Page,
         pages' = [pages EXCEPT ![p] = X],
         \A z \in Slots : X.slots[z] = IF z = s THEN new ELSE pages[p].slots[z]
  PROVE  /\ pages' \in [PageNos -> Page] /\ Writes(<<p, s>>, new)
         /\ \A y \in PageNos : y # p => pages'[y] = pages[y]
         /\ pages'[p] = X
  <1>1. /\ pages' \in [PageNos -> Page] /\ pages'[p] = X
        /\ \A y \in PageNos : y # p => pages'[y] = pages[y]
    OBVIOUS
  <1>2. ASSUME NEW x \in RidT PROVE At(x)' = IF x = <<p, s>> THEN new ELSE At(x)
    <2>1. x[1] \in PageNos /\ x[2] \in Slots /\ (x = <<p, s>> <=> x[1] = p /\ x[2] = s)
      BY DEF RidT
    <2>2. At(x)' = pages'[x[1]].slots[x[2]] /\ At(x) = pages[x[1]].slots[x[2]]
      BY DEF At
    <2> QED
      BY <1>1, <2>1, <2>2
  <1> QED
    BY <1>1, <1>2 DEF Writes

\* A slot is written and the page's count set.
LEMMA WriteCounted ==
  ASSUME pages \in [PageNos -> Page], NEW p \in PageNos, NEW s \in Slots, NEW new \in Rec, NEW num \in Int,
         pages' = [pages EXCEPT ![p] = [slots |-> [@.slots EXCEPT ![s] = new], num |-> num]]
  PROVE  /\ pages' \in [PageNos -> Page] /\ Writes(<<p, s>>, new)
         /\ \A y \in PageNos : y # p => pages'[y] = pages[y]
         /\ pages'[p].num = num
  <1>1. PICK X : X = [slots |-> [pages[p].slots EXCEPT ![s] = new], num |-> num]
    OBVIOUS
  <1>2. pages[p].slots \in [Slots -> Rec]
    BY DEF Page
  <1>3. X \in Page /\ X.num = num
    BY <1>1, <1>2 DEF Page
  <1>4. \A z \in Slots : X.slots[z] = IF z = s THEN new ELSE pages[p].slots[z]
    BY <1>1, <1>2
  <1>5. pages' = [pages EXCEPT ![p] = X]
    BY <1>1
  <1>6. pages' \in [PageNos -> Page]
    BY <1>3, <1>4, <1>5, WritePage
  <1>7. Writes(<<p, s>>, new)
    BY <1>3, <1>4, <1>5, WritePage
  <1>8. (\A y \in PageNos : y # p => pages'[y] = pages[y]) /\ pages'[p] = X
    BY <1>3, <1>4, <1>5, WritePage
  <1> QED
    BY <1>3, <1>6, <1>7, <1>8

\* A slot is written and the count stays.
LEMMA WriteOnly ==
  ASSUME pages \in [PageNos -> Page], NEW p \in PageNos, NEW s \in Slots, NEW new \in Rec,
         pages' = [pages EXCEPT ![p].slots[s] = new]
  PROVE  /\ pages' \in [PageNos -> Page] /\ Writes(<<p, s>>, new)
         /\ \A y \in PageNos : y # p => pages'[y] = pages[y]
         /\ pages'[p].num = pages[p].num
  <1>1. PICK X : X = [pages[p] EXCEPT !.slots = [@ EXCEPT ![s] = new]]
    OBVIOUS
  <1>2. pages[p] \in Page
    OBVIOUS
  <1>3. X \in Page /\ X.num = pages[p].num
    BY <1>1, <1>2 DEF Page
  <1>4. pages' = [pages EXCEPT ![p] = X]
    BY <1>1
  <1>5. \A z \in Slots : X.slots[z] = IF z = s THEN new ELSE pages[p].slots[z]
    BY <1>1, <1>2 DEF Page
  <1>6. pages' \in [PageNos -> Page]
    BY <1>3, <1>4, <1>5, WritePage
  <1>7. Writes(<<p, s>>, new)
    BY <1>3, <1>4, <1>5, WritePage
  <1>8. (\A y \in PageNos : y # p => pages'[y] = pages[y]) /\ pages'[p] = X
    BY <1>3, <1>4, <1>5, WritePage
  <1> QED
    BY <1>3, <1>6, <1>7, <1>8

\* The page's bitmap after a slot has been written.
LEMMA SetAfter ==
  ASSUME NEW q \in RidT, NEW new, Writes(q, new)
  PROVE  /\ new # Empty => Set(pages[q[1]])' = Set(pages[q[1]]) \cup {q[2]}
         /\ new = Empty => Set(pages[q[1]])' = Set(pages[q[1]]) \ {q[2]}
  <1>1. \A s \in Slots : pages'[q[1]].slots[s] = IF s = q[2] THEN new ELSE pages[q[1]].slots[s]
    <2> TAKE s \in Slots
    <2>1. <<q[1], s>> \in RidT /\ (<<q[1], s>> = q <=> s = q[2])
      BY DEF RidT
    <2> QED
      BY <2>1 DEF Writes, At
  <1> QED
    BY <1>1 DEF Set, RidT

\* Which record a step writes, and what it writes.
Rewrites(t, T, U, r, q, new) ==
  \/ Puts(t, T, U) /\ q = U.rid /\ new = T.rec
  \/ DeletesRecord(t, T, U) /\ q = T.rid /\ new = Empty
  \/ MarksRecord(t, T, U) /\ q = T.cur.rid /\ new = [At(q) EXCEPT !.end = -T.tid]
  \/ VisitsRecord(t, T, U, r) /\ q = r /\ T.pc = "stamp" /\ new = Stamped(T, At(q))
  \/ VisitsRecord(t, T, U, r) /\ q = r /\ T.pc = "rollback" /\ new = [At(q) EXCEPT !.end = MaxTrxId]

Quiet(t, T, U, r) ==
  \/ Starts(t, T, U) \/ Picks(t, T, U) \/ LatchesPage(t, T, U)
  \/ InitsPage(t, T, U) \/ SharesPage(t, T, U) \/ InsertEnds(t, T, U)
  \/ SharesDeleted(t, T, U) \/ ScanMoves(t, T, U)
  \/ LeavesPage(t, T, U) \/ EntersPage(t, T, U) \/ Commits(t, T, U)
  \/ PicksInsertion(t, T, U, r) \/ Finishes(t, T, U)

\* A step leaves the pages alone, brings a new one, or writes one record.
LEMMA PagesAfter ==
  ASSUME TypeOK, Phases, Own, Tids, NEW t \in Threads, NEW T, NEW U, NEW r, ThreadStep(t, T, U, r)
  PROVE  \/ Quiet(t, T, U, r) /\ pages' = pages /\ allocated' = allocated /\ page_count' = page_count
         \/ Allocates(t, T, U) /\ pages' \in [PageNos -> Page]
         \/ \E q \in RidT, new \in Rec :
              /\ Rewrites(t, T, U, r, q, new) /\ Writes(q, new) /\ pages' \in [PageNos -> Page]
              /\ allocated' = allocated /\ page_count' = page_count
              /\ \A p \in PageNos : p # q[1] => pages'[p] = pages[p]
              /\ pages'[q[1]].num = pages[q[1]].num + (IF Puts(t, T, U) THEN 1 ELSE 0)
                                                    - (IF DeletesRecord(t, T, U) THEN 1 ELSE 0)
  <1>0. T \in Thread /\ U \in Thread /\ T = th[t]
    BY Moved
  <1>t. pages \in [PageNos -> Page] /\ \A q \in RidT : At(q) \in Rec /\ pages[q[1]].num \in Int
    BY DEF TypeOK, RidT, At, Page
  <1>i. T.tid \in Nat /\ T.limit \in Nat
    BY <1>0 DEF Thread
  <1>1. CASE Quiet(t, T, U, r)
    BY <1>1 DEF Quiet, file, Starts, Picks, LatchesPage, InitsPage, SharesPage, InsertEnds,
       SharesDeleted, ScanMoves,
       LeavesPage, EntersPage, Commits, PicksInsertion, Finishes
  <1>2. CASE Allocates(t, T, U)
    <2>1. EmptyPage \in Page
      BY DEF EmptyPage, Page, Empty, Rec
    <2> QED
      BY <1>2, <1>t, <2>1 DEF Allocates
  <1>3. CASE Puts(t, T, U)
    <2>1. U.rid \in RidT /\ T.rec \in Rec /\ U.rid[1] = T.page /\ ~DeletesRecord(t, T, U)
      BY <1>0, <1>3 DEF Puts, Thread, DeletesRecord
    <2>2. pages' = [pages EXCEPT ![U.rid[1]] = [slots |-> [@.slots EXCEPT ![U.rid[2]] = T.rec], num |-> pages[U.rid[1]].num + 1]]
      BY <1>3, <2>1 DEF Puts
    <2>3. /\ pages' \in [PageNos -> Page] /\ Writes(U.rid, T.rec)
          /\ \A p \in PageNos : p # U.rid[1] => pages'[p] = pages[p]
          /\ pages'[U.rid[1]].num = pages[U.rid[1]].num + 1
      <3>1. PICK num \in Int : num = pages[U.rid[1]].num + 1
        BY <1>t, <2>1
      <3>2. U.rid[1] \in PageNos /\ U.rid[2] \in Slots /\ U.rid = <<U.rid[1], U.rid[2]>>
        BY <2>1 DEF RidT
      <3>3. pages' \in [PageNos -> Page]
        BY <1>t, <2>1, <2>2, <3>1, <3>2, WriteCounted
      <3>4. Writes(U.rid, T.rec)
        <4>1. Writes(<<U.rid[1], U.rid[2]>>, T.rec)
          BY <1>t, <2>1, <2>2, <3>1, <3>2, WriteCounted
        <4> QED
          BY <3>2, <4>1 DEF Writes
      <3>5. (\A p \in PageNos : p # U.rid[1] => pages'[p] = pages[p]) /\ pages'[U.rid[1]].num = num
        BY <1>t, <2>1, <2>2, <3>1, <3>2, WriteCounted
      <3> QED
        BY <3>1, <3>3, <3>4, <3>5
    <2>4. Rewrites(t, T, U, r, U.rid, T.rec) /\ allocated' = allocated /\ page_count' = page_count
      BY <1>3 DEF Rewrites, Puts
    <2> QED
      BY <1>t, <1>3, <2>1, <2>3, <2>4
  <1>4. CASE DeletesRecord(t, T, U)
    <2>1. T.rid \in RidT /\ Empty \in Rec /\ ~Puts(t, T, U)
      BY <1>0, <1>4 DEF Puts, DeletesRecord, Phases, Empty, Rec
    <2>2. pages' = [pages EXCEPT ![T.rid[1]] = [slots |-> [@.slots EXCEPT ![T.rid[2]] = Empty], num |-> pages[T.rid[1]].num - 1]]
      BY <1>4 DEF DeletesRecord
    <2>3. /\ pages' \in [PageNos -> Page] /\ Writes(T.rid, Empty)
          /\ \A p \in PageNos : p # T.rid[1] => pages'[p] = pages[p]
          /\ pages'[T.rid[1]].num = pages[T.rid[1]].num - 1
      <3>1. PICK num \in Int : num = pages[T.rid[1]].num - 1
        BY <1>t, <2>1
      <3>2. T.rid[1] \in PageNos /\ T.rid[2] \in Slots /\ T.rid = <<T.rid[1], T.rid[2]>>
        BY <2>1, SMTT(60) DEF RidT
      <3>3. pages' \in [PageNos -> Page]
        BY <1>t, <2>1, <2>2, <3>1, <3>2, WriteCounted
      <3>4. Writes(T.rid, Empty)
        <4>1. Writes(<<T.rid[1], T.rid[2]>>, Empty)
          BY <1>t, <2>1, <2>2, <3>1, <3>2, WriteCounted
        <4> QED
          BY <3>2, <4>1 DEF Writes
      <3>5. (\A p \in PageNos : p # T.rid[1] => pages'[p] = pages[p]) /\ pages'[T.rid[1]].num = num
        BY <1>t, <2>1, <2>2, <3>1, <3>2, WriteCounted
      <3> QED
        BY <3>1, <3>3, <3>4, <3>5
    <2>4. Rewrites(t, T, U, r, T.rid, Empty) /\ allocated' = allocated /\ page_count' = page_count
      BY <1>4 DEF Rewrites, DeletesRecord
    <2> QED
      BY <1>t, <1>4, <2>1, <2>3, <2>4
  <1>5. ASSUME MarksRecord(t, T, U) \/ VisitsRecord(t, T, U, r), NEW q \in RidT, NEW new \in Rec,
               Rewrites(t, T, U, r, q, new), pages' = [pages EXCEPT ![q[1]].slots[q[2]] = new]
        PROVE  /\ Writes(q, new) /\ pages' \in [PageNos -> Page]
               /\ allocated' = allocated /\ page_count' = page_count
               /\ \A p \in PageNos : p # q[1] => pages'[p] = pages[p]
               /\ pages'[q[1]].num = pages[q[1]].num + (IF Puts(t, T, U) THEN 1 ELSE 0)
                                                     - (IF DeletesRecord(t, T, U) THEN 1 ELSE 0)
    <2>1. ~Puts(t, T, U) /\ ~DeletesRecord(t, T, U) /\ allocated' = allocated /\ page_count' = page_count
      BY <1>5 DEF Puts, DeletesRecord, MarksRecord, VisitsRecord
    <2>2. q[1] \in PageNos /\ q[2] \in Slots /\ q = <<q[1], q[2]>> /\ pages[q[1]].num \in Int
      BY <1>t DEF RidT
    <2>3. /\ pages' \in [PageNos -> Page] /\ Writes(q, new)
          /\ \A y \in PageNos : y # q[1] => pages'[y] = pages[y]
          /\ pages'[q[1]].num = pages[q[1]].num
      <3>1. pages' \in [PageNos -> Page]
        BY <1>t, <1>5, <2>2, WriteOnly
      <3>2. Writes(q, new)
        <4>1. Writes(<<q[1], q[2]>>, new)
          BY <1>t, <1>5, <2>2, WriteOnly
        <4> QED
          BY <2>2, <4>1 DEF Writes
      <3>3. (\A y \in PageNos : y # q[1] => pages'[y] = pages[y]) /\ pages'[q[1]].num = pages[q[1]].num
        BY <1>t, <1>5, <2>2, WriteOnly
      <3> QED
        BY <3>1, <3>2, <3>3
    <2> QED
      BY <2>1, <2>2, <2>3, SMTT(60)
  <1>6. CASE MarksRecord(t, T, U)
    <2> DEFINE q == T.cur.rid
               new == [At(q) EXCEPT !.end = -T.tid]
    <2>1. q \in RidT
      BY <1>0, <1>6 DEF MarksRecord, Phases, Thread, Fetched
    <2>2. new \in Rec
      BY <1>t, <2>1, <1>i, SMTT(60) DEF Rec
    <2>3. pages' = [pages EXCEPT ![q[1]].slots[q[2]] = new]
      BY <1>6 DEF MarksRecord, At
    <2>4. Rewrites(t, T, U, r, q, new)
      BY <1>6 DEF Rewrites
    <2> HIDE DEF q, new
    <2> QED
      BY <1>5, <1>6, <2>1, <2>2, <2>3, <2>4
  <1>7. CASE VisitsRecord(t, T, U, r) /\ T.pc = "stamp"
    <2> DEFINE new == Stamped(T, At(r))
    <2>1. r \in RidT
      BY <1>0, <1>7 DEF VisitsRecord, Thread
    <2>2. new \in Rec
      BY <1>t, <2>1, <1>i DEF Rec, Stamped
    <2>3. pages' = [pages EXCEPT ![r[1]].slots[r[2]] = new]
      BY <1>7 DEF VisitsRecord, At
    <2>4. Rewrites(t, T, U, r, r, new)
      BY <1>7 DEF Rewrites
    <2> HIDE DEF new
    <2> QED
      BY <1>5, <1>7, <2>1, <2>2, <2>3, <2>4
  <1>8. CASE VisitsRecord(t, T, U, r) /\ T.pc = "rollback"
    <2> DEFINE new == [At(r) EXCEPT !.end = MaxTrxId]
    <2>1. r \in RidT
      BY <1>0, <1>8 DEF VisitsRecord, Thread
    <2>2. new \in Rec
      BY <1>0, <1>t, <2>1 DEF Rec, MaxTrxId
    <2>3. pages' = [pages EXCEPT ![r[1]].slots[r[2]] = new]
      BY <1>8 DEF VisitsRecord, At
    <2>4. Rewrites(t, T, U, r, r, new)
      BY <1>8 DEF Rewrites
    <2> HIDE DEF new
    <2> QED
      BY <1>5, <1>8, <2>1, <2>2, <2>3, <2>4
  <1> QED
    BY <1>1, <1>2, <1>3, <1>4, <1>6, <1>7, <1>8 DEF ThreadStep, Action, Quiet, VisitsRecord

\* What a record becomes when it is written: new records carry the marks of the
\* writer, and only the writer's own marks change.
OwnMarksOnly(t, T, U, q, new) ==
  /\ T.tid \in Nat \ {0} /\ T.pc # "idle" /\ U.tid = T.tid /\ At(q) \in Rec
  /\ q \notin U.todo
  /\ new = Empty => DeletesRecord(t, T, U) /\ At(q).begin = -T.tid
  /\ new # Empty => /\ new.begin # 0 /\ new.end # 0
                    /\ new.begin < 0 => new.end \in {MaxTrxId, new.begin}
                    /\ new.begin > 0 \/ new.begin = -T.tid
  /\ At(q) = Empty => Puts(t, T, U)
  /\ At(q) # Empty /\ new # Empty =>
       /\ new.begin = At(q).begin \/ At(q).begin = -T.tid
       /\ new.end = At(q).end \/ At(q).end > 0 \/ -T.tid \in {At(q).begin, At(q).end}

\* Every write is of that kind.
LEMMA RewriteFacts ==
  ASSUME IInv, NEW t \in Threads, NEW T, NEW U, NEW r, ThreadStep(t, T, U, r),
         NEW q \in RidT, NEW new \in Rec, Rewrites(t, T, U, r, q, new)
  PROVE  OwnMarksOnly(t, T, U, q, new)
  <1> USE DEF IInv, ControlInv, RecordInv
  <1>0. T \in Thread /\ U \in Thread /\ T = th[t]
    BY Moved
  <1>1. At(q) \in Rec /\ Empty \in Rec /\ Empty.begin = 0 /\ Empty.end = 0
    BY DEF TypeOK, RidT, At, Page, Empty, Rec
  <1>2. T.tid \in Nat /\ T.limit \in Nat /\ T.rec \in Rec
    BY <1>0 DEF Thread
  <1>3. T.pc # "idle" => T.tid > 0
    BY <1>0, <1>2 DEF Tids, TypeOK
  <1>4. At(q) = Empty \/ (At(q).begin # 0 /\ At(q).end # 0)
    BY DEF Marks
  <1>4a. At(q).begin < 0 => At(q).end \in {MaxTrxId, At(q).begin}
    BY DEF Marks
  <1> HIDE DEF IInv, ControlInv, RecordInv
  <1>5. CASE Puts(t, T, U) /\ q = U.rid /\ new = T.rec
    <2>1. T.pc = "ins_put" /\ At(q) = Empty /\ U.todo = T.todo /\ U.tid = T.tid
      BY <1>5 DEF Puts, KeepStmt
    <2>2. T.rec.begin = -T.tid /\ T.rec.end = MaxTrxId /\ T.todo = {}
      BY <1>0, <2>1 DEF IInv, ControlInv, RecordInv, Marks, Phases, InsertPcs, EndPcs
    <2> QED
      BY <1>1, <1>2, <1>3, <1>5, <2>1, <2>2 DEF Rec, MaxTrxId, OwnMarksOnly
  <1>6. CASE DeletesRecord(t, T, U) /\ q = T.rid /\ new = Empty
    <2>1. T.pc = "del_latch" /\ U.todo = T.todo /\ U.tid = T.tid
      BY <1>6 DEF DeletesRecord, KeepStmt
    <2>2. At(q).begin = -T.tid /\ q \notin T.todo
      BY <1>0, <1>6, <2>1 DEF IInv, ControlInv, RecordInv, Own
    <2> QED
      BY <1>1, <1>2, <1>3, <1>6, <2>1, <2>2 DEF OwnMarksOnly
  <1>7. CASE MarksRecord(t, T, U) /\ q = T.cur.rid /\ new = [At(q) EXCEPT !.end = -T.tid]
    <2>1. T.pc = "process" /\ U.todo = T.todo /\ U.tid = T.tid /\ (At(q).end > 0 \/ At(q).begin = -T.tid)
      BY <1>7 DEF MarksRecord
    <2>2. At(q).begin > 0 \/ At(q).begin = -T.tid
      BY <1>0, <1>7, <2>1 DEF IInv, ControlInv, RecordInv, InHand, Live, Phases, GoingPcs, ScanPcs
    <2>3. T.todo = {}
      BY <1>0, <2>1 DEF IInv, ControlInv, Phases, EndPcs
    <2>4. new.begin = At(q).begin /\ new.end = -T.tid
      BY <1>1, <1>7 DEF Rec
    <2>5. T.tid > 0 /\ At(q) # Empty /\ new # Empty
      BY <1>1, <1>2, <1>3, <2>1, <2>2, <2>4
    <2> QED
      BY <1>1, <1>2, <2>1, <2>2, <2>3, <2>4, <2>5, SMTT(60) DEF Rec, OwnMarksOnly
  <1>8. CASE VisitsRecord(t, T, U, r) /\ q = r
             /\ \/ T.pc = "stamp" /\ new = Stamped(T, At(q))
                \/ T.pc = "rollback" /\ new = [At(q) EXCEPT !.end = MaxTrxId]
    <2>1. r \in T.todo /\ U.todo = T.todo \ {r} /\ U.tid = T.tid /\ (T.pc = "rollback" => At(q).begin # -T.tid)
      BY <1>8 DEF VisitsRecord
    <2>2. -T.tid \in {At(q).begin, At(q).end}
      BY <1>0, <1>8, <2>1 DEF IInv, RecordInv, Todo
    <2>3. T.tid > 0
      BY <1>3, <1>8
    <2>4. At(q) # Empty /\ At(q).begin # 0 /\ At(q).end # 0
      BY <1>1, <1>2, <1>4, <2>2, <2>3
    <2>5. T.pc = "stamp" => T.limit > 0
      BY <1>0 DEF IInv, RecordInv, Tids
    <2>8. q \notin U.todo
      BY <1>8, <2>1
    <2>6. CASE T.pc = "stamp"
      <3>1. CASE At(q).begin = -T.tid
        <4>1. new.begin = T.limit /\ new.end = At(q).end
          BY <1>1, <1>8, <2>6, <3>1 DEF Stamped, Rec
        <4>2. new # Empty
          BY <1>1, <2>5, <2>6, <4>1
        <4> QED
          BY <1>1, <1>2, <2>1, <2>2, <2>3, <2>4, <2>5, <2>6, <2>8, <3>1, <4>1, <4>2 DEF Rec, OwnMarksOnly
      <3>2. CASE At(q).begin # -T.tid
        <4>1. new.begin = At(q).begin /\ new.end = T.limit
          BY <1>1, <1>8, <2>6, <3>2 DEF Stamped, Rec
        <4>2. At(q).end = -T.tid /\ At(q).begin > 0
          BY <1>1, <1>2, <1>4a, <2>2, <2>3, <2>4, <3>2 DEF Rec, MaxTrxId
        <4>3. new # Empty
          BY <1>1, <2>4, <4>1
        <4> QED
          BY <1>1, <1>2, <2>1, <2>2, <2>3, <2>4, <2>5, <2>6, <2>8, <3>2, <4>1, <4>2, <4>3 DEF Rec,
             OwnMarksOnly
      <3> QED
        BY <3>1, <3>2
    <2>7. CASE T.pc = "rollback"
      <3>1. new.begin = At(q).begin /\ new.end = MaxTrxId
        BY <1>1, <1>8, <2>7 DEF Rec
      <3>2. At(q).end = -T.tid /\ At(q).begin > 0
        BY <1>1, <1>2, <1>4a, <2>1, <2>2, <2>3, <2>4, <2>7 DEF Rec, MaxTrxId
      <3>3. new # Empty
        BY <1>1, <2>4, <3>1
      <3> QED
        BY <1>1, <1>2, <2>1, <2>2, <2>3, <2>4, <2>7, <2>8, <3>1, <3>2, <3>3 DEF Rec, MaxTrxId, OwnMarksOnly
    <2> QED
      BY <1>8, <2>6, <2>7
  <1> QED
    BY <1>5, <1>6, <1>7, <1>8, Zenon DEF Rewrites

-----------------------------------------------------------------------------
(* Every conjunct of the invariant is kept.                                *)

LatchT == [owner : Threads \cup {Nobody}, depth : Nat, readers : SUBSET Threads]

\* The latch operations keep a latch a latch.
LEMMA LatchOps ==
  ASSUME NEW l \in LatchT, NEW t \in Threads
  PROVE  /\ WriteLatched(l, t) \in LatchT /\ WriteUnlatched(l) \in LatchT
         /\ ReadLatched(l, t) \in LatchT /\ ReadUnlatched(l, t) \in LatchT
  <1>1. WriteLatched(l, t) \in LatchT
    <2> DEFINE m == [l EXCEPT !.owner = t]
    <2>1. m \in LatchT /\ m.depth \in Nat
      BY DEF LatchT
    <2>2. WriteLatched(l, t) = [m EXCEPT !.depth = m.depth + 1]
      BY DEF WriteLatched
    <2> HIDE DEF m
    <2>3. [m EXCEPT !.depth = m.depth + 1] \in LatchT
      BY <2>1 DEF LatchT
    <2> QED
      BY <2>2, <2>3
  <1>2. WriteUnlatched(l) \in LatchT
    <2>1. CASE l.depth > 1
      <3>1. l.depth - 1 \in Nat
        BY <2>1 DEF LatchT
      <3> QED
        BY <2>1, <3>1 DEF LatchT, WriteUnlatched
    <2>2. CASE ~(l.depth > 1)
      BY <2>2 DEF LatchT, WriteUnlatched
    <2> QED
      BY <2>1, <2>2
  <1>3. ReadLatched(l, t) \in LatchT
    BY DEF LatchT, ReadLatched
  <1>4. ReadUnlatched(l, t) \in LatchT
    BY DEF LatchT, ReadUnlatched
  <1> QED
    BY <1>1, <1>2, <1>3, <1>4

\* A step keeps the types.
LEMMA TypeStep ==
  ASSUME IInv, NEW t \in Threads, NEW T, NEW U, NEW r, ThreadStep(t, T, U, r)
  PROVE  TypeOK'
  <1> USE DEF IInv, ControlInv, PageInv, RecordInv
  <1>0. T \in Thread /\ U \in Thread /\ T = th[t] /\ th' \in [Threads -> Thread]
    BY Moved
  <1>t. T.page \in 0..MaxPage /\ T.at \in 0..MaxPage /\ T.scan_page \in 0..MaxPage
    BY <1>0 DEF Thread
  <1>1. pages' \in [PageNos -> Page]
    BY PagesAfter DEF TypeOK
  <1>2. page_count' \in Nat \ {0} /\ allocated' \subseteq PageNos
    <2>1. CASE Allocates(t, T, U)
      BY <2>1 DEF Allocates, TypeOK, PageNos
    <2> QED
      BY <2>1, PagesAfter DEF TypeOK
  <1>3. latch \in [PageNos -> LatchT]
    BY DEF TypeOK, LatchT
  <1>4. ops' \in [Threads -> Nat]
    BY DEF ThreadStep
  <1> DEFINE Rest == /\ free_pages' \subseteq PageNos /\ lock' \in Threads \cup {Nobody}
                     /\ latch' \in [PageNos -> LatchT] /\ redo' \in Seq(RidT)
                     /\ recovered' \subseteq PageNos /\ clock' \in Nat \ {0}
  <1>5. CASE latch' = latch /\ free_pages' = free_pages /\ lock' = lock /\ redo' = redo
             /\ recovered' = recovered /\ clock' \in {clock, clock + 1}
    <2>1. Rest
      BY <1>3, <1>5 DEF TypeOK
    <2> QED
      BY <1>0, <1>1, <1>2, <1>4, <2>1 DEF TypeOK, LatchT
  <1>6. CASE Picks(t, T, U)
    <2>1. Rest
      BY <1>3, <1>6 DEF TypeOK, Picks, log
    <2> QED
      BY <1>0, <1>1, <1>2, <1>4, <2>1 DEF TypeOK, LatchT
  <1>7. CASE LatchesPage(t, T, U) \/ InitsPage(t, T, U)
    <2>1. T.page \in PageNos
      BY <1>0, <1>7 DEF Phases, LatchesPage, InitsPage
    <2>2. latch[T.page] \in LatchT
      BY <1>3, <2>1
    <2>3. latch' = [latch EXCEPT ![T.page] = WriteLatched(latch[T.page], t)]
      BY <1>7 DEF LatchesPage, InitsPage
    <2>4. Rest
      BY <1>3, <1>7, <2>2, <2>3, LatchOps DEF TypeOK, LatchesPage, InitsPage, log
    <2> QED
      BY <1>0, <1>1, <1>2, <1>4, <2>4 DEF TypeOK, LatchT
  <1>8. CASE SharesPage(t, T, U) \/ SharesDeleted(t, T, U)
    <2>1. free_pages' \subseteq PageNos
      BY <1>0, <1>8, ZenonT(60) DEF Phases, SharesPage, SharesDeleted, RidT, TypeOK
    <2>2. Rest
      BY <1>3, <1>8, <2>1 DEF TypeOK, SharesPage, SharesDeleted, log
    <2> QED
      BY <1>0, <1>1, <1>2, <1>4, <2>2 DEF TypeOK, LatchT
  <1>9. CASE Puts(t, T, U)
    <2>1. T.page \in PageNos
      BY <1>0, <1>9 DEF Phases, Puts
    <2>2. latch[T.page] \in LatchT
      BY <1>3, <2>1
    <2>3. latch' = [latch EXCEPT ![T.page] = WriteUnlatched(latch[T.page])]
      BY <1>9 DEF Puts
    <2>4. Rest
      BY <1>3, <1>9, <2>2, <2>3, LatchOps DEF TypeOK, Puts, log
    <2> QED
      BY <1>0, <1>1, <1>2, <1>4, <2>4 DEF TypeOK, LatchT
  <1>10. CASE LeavesPage(t, T, U)
    <2>1. latch' \in [PageNos -> LatchT]
      <3>1. CASE T.scan_page = NoPage
        BY <1>3, <1>10, <3>1 DEF LeavesPage, Cleanup
      <3>2. CASE T.scan_page # NoPage
        <4>1. T.scan_page \in PageNos
          BY <1>t, <3>2, RecordFileAssumption DEF NoPage, PageNos
        <4>2. latch[T.scan_page] \in LatchT
          BY <1>3, <4>1
        <4> QED
          BY <1>3, <1>10, <3>2, <4>2, LatchOps DEF LeavesPage, Cleanup
      <3> QED
        BY <3>1, <3>2
    <2>2. Rest
      BY <1>3, <1>10, <2>1 DEF TypeOK, LeavesPage, log
    <2> QED
      BY <1>0, <1>1, <1>2, <1>4, <2>2 DEF TypeOK, LatchT
  <1>11. CASE EntersPage(t, T, U)
    <2>1. T.at \in PageNos
      BY <1>0, <1>11 DEF Phases, EntersPage
    <2>2. latch[T.at] \in LatchT
      BY <1>3, <2>1
    <2>3. latch' \in [PageNos -> LatchT]
      BY <1>3, <1>11, <2>2, LatchOps DEF EntersPage
    <2>4. Rest
      BY <1>3, <1>11, <2>3 DEF TypeOK, EntersPage, log
    <2> QED
      BY <1>0, <1>1, <1>2, <1>4, <2>4 DEF TypeOK, LatchT
  <1>12. CASE \/ Starts(t, T, U) \/ Allocates(t, T, U) \/ InsertEnds(t, T, U) \/ DeletesRecord(t, T, U)
              \/ ScanMoves(t, T, U) \/ MarksRecord(t, T, U) \/ Commits(t, T, U)
              \/ VisitsRecord(t, T, U, r) \/ PicksInsertion(t, T, U, r) \/ Finishes(t, T, U)
    BY <1>5, <1>12, Zenon DEF locks, log, Starts, Allocates, InsertEnds, DeletesRecord, ScanMoves,
       MarksRecord,
       Commits, VisitsRecord, PicksInsertion, Finishes
  <1> QED
    BY <1>6, <1>7, <1>8, <1>9, <1>10, <1>11, <1>12, Zenon DEF ThreadStep, Action

\* A step leads to a place of the statement it belongs to.
LEMMA PhaseStep ==
  ASSUME IInv, NEW t \in Threads, NEW T, NEW U, NEW r, ThreadStep(t, T, U, r)
  PROVE  Phases'
  <1> USE DEF IInv, ControlInv
  <1>1. T \in Thread /\ U \in Thread /\ T = th[t] /\ th'[t] = U
    BY Moved
  <1>2. \A u \in Threads : u # t => th'[u] = th[u]
    BY Moved, SMTT(60)
  <1>3. redo' = redo
    BY DEF ThreadStep, Action, log, Starts, Picks, LatchesPage, Allocates, InitsPage, SharesPage, Puts,
       InsertEnds,
       DeletesRecord, SharesDeleted, ScanMoves, MarksRecord, LeavesPage, EntersPage, Commits, VisitsRecord,
       PicksInsertion, Finishes
  <1> DEFINE P(X) == /\ X.pc = "idle" => X = Idle
                     /\ X.pc # "idle" => redo = <<>>
                     /\ X.pc \in InsertPcs => X.stmt \in {"insert", "update"}
                     /\ X.pc \in ScanPcs => X.stmt \in Scans
                     /\ X.pc \in {"ins_latch", "ins_init", "ins_share", "ins_put"} => X.page \in PageNos
                     /\ X.pc \in {"ins_done", "del_latch", "del_share"} => X.rid \in RidT
                     /\ X.pc = "fetch_latch" => X.at \in PageNos /\ X.scan_page = NoPage
                     /\ X.pc = "subquery" => X.stmt = "delete_sub"
                     /\ X.pc = "process" => X.cur # NoRec
                     /\ X.scan_page # NoPage => X.pc \in ScanPcs \cup InsertPcs \cup DeletePcs /\ X.stmt \in Scans
                     /\ X.todo # {} => X.pc \in EndPcs
                     /\ X.pc \in InsertPcs => (X.cur # NoRec <=> X.stmt = "update")
                     /\ X.pc = "rollback" => X.cur = NoRec
                     /\ X.pc \in DeletePcs => /\ X.cur # NoRec => X.stmt = "update" /\ X.todo = {}
                                              /\ X.scan_page # NoPage => X.cur # NoRec
  <1>4. \A u \in Threads : P(th[u])
    BY DEF Phases
  <1>5. P(T)
    BY <1>1, <1>4
  <1>6. SUFFICES P(U)
    <2> HIDE DEF P
    <2>1. \A u \in Threads : P(th'[u])
      BY <1>1, <1>2, <1>4, <1>6
    <2> USE DEF P
    <2> QED
      BY <1>3, <2>1 DEF Phases
  <1>11. CASE Starts(t, T, U)
    BY <1>11, <1>1, <1>5 DEF InsertPcs, ScanPcs, EndPcs, DeletePcs, KeepStmt, KeepPlace, KeepScan, Starts, Scans
  <1>12. CASE Picks(t, T, U)
    BY <1>12, <1>1, <1>5 DEF InsertPcs, ScanPcs, EndPcs, DeletePcs, KeepStmt, KeepPlace, KeepScan, Picks, TypeOK
  <1>13. CASE LatchesPage(t, T, U)
    BY <1>13, <1>1, <1>5 DEF InsertPcs, ScanPcs, EndPcs, DeletePcs, KeepStmt, KeepPlace, KeepScan, LatchesPage
  <1>14. CASE Allocates(t, T, U)
    BY <1>14, <1>1, <1>5 DEF InsertPcs, ScanPcs, EndPcs, DeletePcs, KeepStmt, KeepPlace, KeepScan, Allocates,
       TypeOK, PageNos
  <1>15. CASE InitsPage(t, T, U)
    BY <1>15, <1>1, <1>5 DEF InsertPcs, ScanPcs, EndPcs, DeletePcs, KeepStmt, KeepPlace, KeepScan, InitsPage
  <1>16. CASE SharesPage(t, T, U)
    BY <1>16, <1>1, <1>5 DEF InsertPcs, ScanPcs, EndPcs, DeletePcs, KeepStmt, KeepPlace, KeepScan, SharesPage
  <1>17. CASE Puts(t, T, U)
    BY <1>17, <1>1, <1>5 DEF InsertPcs, ScanPcs, EndPcs, DeletePcs, KeepStmt, KeepPlace, KeepScan, Puts
  <1>18. CASE InsertEnds(t, T, U)
    BY <1>18, <1>1, <1>5 DEF InsertPcs, ScanPcs, EndPcs, DeletePcs, KeepStmt, KeepPlace, KeepScan, InsertEnds, Scans
  <1>19. CASE DeletesRecord(t, T, U)
    BY <1>19, <1>1, <1>5 DEF InsertPcs, ScanPcs, EndPcs, DeletePcs, KeepStmt, KeepPlace, KeepScan, DeletesRecord
  <1>20. CASE SharesDeleted(t, T, U)
    <2>1. T.pc = "del_share" /\ U.pc = (IF T.cur = NoRec THEN "rollback" ELSE "failed") /\ U.cur = T.cur
          /\ U.stmt = T.stmt /\ U.todo = T.todo /\ U.scan_page = T.scan_page
      BY <1>20 DEF SharesDeleted, KeepStmt, KeepScan
    <2>2. redo = <<>> /\ (T.cur # NoRec => T.stmt = "update" /\ T.todo = {})
          /\ (T.scan_page # NoPage => T.cur # NoRec)
      BY <1>5, <2>1 DEF DeletePcs
    <2>3. CASE T.cur = NoRec
      BY <2>1, <2>2, <2>3 DEF InsertPcs, ScanPcs, EndPcs, DeletePcs
    <2>4. CASE T.cur # NoRec
      BY <2>1, <2>2, <2>4 DEF InsertPcs, ScanPcs, EndPcs, DeletePcs, Scans
    <2> QED
      BY <2>3, <2>4
  <1>21. CASE ScanMoves(t, T, U)
    BY <1>21, <1>1, <1>5, SMTT(60) DEF InsertPcs, ScanPcs, EndPcs, DeletePcs, KeepStmt, KeepPlace, KeepScan, ScanMoves,
       ScanPlace, Scans
  <1>22. CASE MarksRecord(t, T, U)
    BY <1>22, <1>1, <1>5 DEF InsertPcs, ScanPcs, EndPcs, DeletePcs, KeepStmt, KeepPlace, KeepScan, MarksRecord,
       ScanPlace, Scans
  <1>23. CASE LeavesPage(t, T, U)
    BY <1>23, <1>1, <1>5 DEF InsertPcs, ScanPcs, EndPcs, DeletePcs, KeepStmt, KeepPlace, KeepScan, LeavesPage,
       ScanPlace, Scans
  <1>24. CASE EntersPage(t, T, U)
    BY <1>24, <1>1, <1>5 DEF InsertPcs, ScanPcs, EndPcs, DeletePcs, KeepStmt, KeepPlace, KeepScan, EntersPage, Scans
  <1>25. CASE Commits(t, T, U)
    BY <1>25, <1>1, <1>5 DEF InsertPcs, ScanPcs, EndPcs, DeletePcs, KeepStmt, KeepPlace, KeepScan, Commits
  <1>26. CASE VisitsRecord(t, T, U, r)
    BY <1>26, <1>1, <1>5 DEF InsertPcs, ScanPcs, EndPcs, DeletePcs, KeepStmt, KeepPlace, KeepScan, VisitsRecord, Thread
  <1>27. CASE PicksInsertion(t, T, U, r)
    BY <1>27, <1>1, <1>5 DEF InsertPcs, ScanPcs, EndPcs, DeletePcs, KeepStmt, KeepPlace, KeepScan, PicksInsertion,
       Thread
  <1>28. CASE Finishes(t, T, U)
    BY <1>28, <1>1, <1>5 DEF InsertPcs, ScanPcs, EndPcs, DeletePcs, KeepStmt, KeepPlace, KeepScan, Finishes, Idle
  <1> QED
    BY <1>11, <1>12, <1>13, <1>14, <1>15, <1>16, <1>17, <1>18, <1>19, <1>20, <1>21, <1>22, <1>23, <1>24,
       <1>25, <1>26, <1>27, <1>28 DEF ThreadStep, Action

\* A scan stays below the page count.
LEMMA ScannedStep ==
  ASSUME IInv, NEW t \in Threads, NEW T, NEW U, NEW r, ThreadStep(t, T, U, r)
  PROVE  Scanned'
  <1> USE DEF IInv, ControlInv
  <1>1. T \in Thread /\ U \in Thread /\ T = th[t] /\ th'[t] = U
    BY Moved
  <1>2. \A u \in Threads : u # t => th'[u] = th[u]
    BY Moved
  <1>3. page_count \in Nat /\ page_count' \in Nat /\ page_count <= page_count' /\ 0 < page_count
    BY PagesAfter DEF RecordInv, TypeOK, Allocates
  <1> DEFINE P(X, n) == /\ X.pc # "stamp" => X.limit <= n
                        /\ X.at < n /\ X.scan_page < n
  <1>4. \A u \in Threads : P(th[u], page_count) /\ th[u].limit \in Nat /\ th[u].at \in Nat /\ th[u].scan_page \in Nat
    BY SMTT(60) DEF Scanned, TypeOK, Thread
  <1>5. \A u \in Threads : P(th[u], page_count')
    BY <1>3, <1>4
  <1>6. P(T, page_count) /\ P(T, page_count') /\ T.limit \in Nat /\ T.at \in Nat /\ T.scan_page \in Nat
    BY <1>1, <1>4, <1>5
  <1>7. SUFFICES P(U, page_count')
    BY <1>1, <1>2, <1>5 DEF Scanned
  <1>11. CASE Starts(t, T, U)
    BY <1>11, <1>3, <1>6 DEF KeepStmt, KeepPlace, KeepScan, Starts, NoPage
  <1>12. CASE Picks(t, T, U)
    BY <1>12, <1>3, <1>6 DEF KeepStmt, KeepPlace, KeepScan, Picks
  <1>13. CASE LatchesPage(t, T, U)
    BY <1>13, <1>3, <1>6 DEF KeepStmt, KeepPlace, KeepScan, LatchesPage
  <1>14. CASE Allocates(t, T, U)
    BY <1>14, <1>3, <1>6 DEF KeepStmt, KeepPlace, KeepScan, Allocates
  <1>15. CASE InitsPage(t, T, U)
    BY <1>15, <1>3, <1>6 DEF KeepStmt, KeepPlace, KeepScan, InitsPage
  <1>16. CASE SharesPage(t, T, U)
    BY <1>16, <1>3, <1>6 DEF KeepStmt, KeepPlace, KeepScan, SharesPage
  <1>17. CASE Puts(t, T, U)
    BY <1>17, <1>3, <1>6 DEF KeepStmt, KeepPlace, KeepScan, Puts
  <1>18. CASE InsertEnds(t, T, U)
    BY <1>18, <1>3, <1>6 DEF KeepStmt, KeepPlace, KeepScan, InsertEnds
  <1>19. CASE DeletesRecord(t, T, U)
    BY <1>19, <1>3, <1>6 DEF KeepStmt, KeepPlace, KeepScan, DeletesRecord
  <1>20. CASE SharesDeleted(t, T, U)
    BY <1>20, <1>3, <1>6 DEF KeepStmt, KeepPlace, KeepScan, SharesDeleted
  <1>21. CASE ScanMoves(t, T, U)
    BY <1>21, <1>3, <1>6, SMTT(60) DEF KeepStmt, KeepPlace, KeepScan, ScanMoves
  <1>22. CASE MarksRecord(t, T, U)
    BY <1>22, <1>3, <1>6 DEF KeepStmt, KeepPlace, KeepScan, MarksRecord
  <1>23. CASE LeavesPage(t, T, U)
    BY <1>23, <1>3, <1>6, <1>1 DEF KeepStmt, KeepPlace, KeepScan, LeavesPage, NoPage, Phases, PageNos
  <1>24. CASE EntersPage(t, T, U)
    BY <1>24, <1>3, <1>6 DEF KeepStmt, KeepPlace, KeepScan, EntersPage
  <1>25. CASE Commits(t, T, U)
    BY <1>25, <1>3, <1>6 DEF KeepStmt, KeepPlace, KeepScan, Commits
  <1>26. CASE VisitsRecord(t, T, U, r)
    BY <1>26, <1>3, <1>6 DEF KeepStmt, KeepPlace, KeepScan, VisitsRecord
  <1>27. CASE PicksInsertion(t, T, U, r)
    BY <1>27, <1>3, <1>6 DEF KeepStmt, KeepPlace, KeepScan, PicksInsertion
  <1>28. CASE Finishes(t, T, U)
    BY <1>28, <1>3, <1>6 DEF KeepStmt, KeepPlace, KeepScan, Finishes, Idle, NoPage
  <1> QED
    BY <1>11, <1>12, <1>13, <1>14, <1>15, <1>16, <1>17, <1>18, <1>19, <1>20, <1>21, <1>22, <1>23, <1>24,
       <1>25, <1>26, <1>27, <1>28 DEF ThreadStep, Action

\* lock_ is held between the choice of a page and its latch.
LEMMA LockStep ==
  ASSUME IInv, NEW t \in Threads, NEW T, NEW U, NEW r, ThreadStep(t, T, U, r)
  PROVE  LockHeld'
  <1> USE DEF IInv, ControlInv
  <1>1. T \in Thread /\ U \in Thread /\ T = th[t] /\ th'[t] = U
    BY Moved
  <1>2. \A u \in Threads : u # t => th'[u] = th[u]
    BY Moved
  <1>3. \A u \in Threads : lock = u <=> th[u].pc = "ins_latch"
    BY DEF LockHeld
  <1>4. Nobody \notin Threads
    BY RecordFileAssumption
  <1>11. CASE Starts(t, T, U)
    BY <1>11, <1>1, <1>2, <1>3, <1>4 DEF LockHeld, locks, Starts
  <1>12. CASE Picks(t, T, U)
    BY <1>12, <1>1, <1>2, <1>3, <1>4 DEF LockHeld, locks, Picks
  <1>13. CASE LatchesPage(t, T, U)
    BY <1>13, <1>1, <1>2, <1>3, <1>4 DEF LockHeld, locks, LatchesPage
  <1>14. CASE Allocates(t, T, U)
    BY <1>14, <1>1, <1>2, <1>3, <1>4 DEF LockHeld, locks, Allocates
  <1>15. CASE InitsPage(t, T, U)
    BY <1>15, <1>1, <1>2, <1>3, <1>4 DEF LockHeld, locks, InitsPage
  <1>16. CASE SharesPage(t, T, U)
    BY <1>16, <1>1, <1>2, <1>3, <1>4 DEF LockHeld, locks, SharesPage
  <1>17. CASE Puts(t, T, U)
    BY <1>17, <1>1, <1>2, <1>3, <1>4 DEF LockHeld, locks, Puts
  <1>18. CASE InsertEnds(t, T, U)
    BY <1>18, <1>1, <1>2, <1>3, <1>4 DEF LockHeld, locks, InsertEnds
  <1>19. CASE DeletesRecord(t, T, U)
    BY <1>19, <1>1, <1>2, <1>3, <1>4 DEF LockHeld, locks, DeletesRecord
  <1>20. CASE SharesDeleted(t, T, U)
    BY <1>20, <1>1, <1>2, <1>3, <1>4 DEF LockHeld, locks, SharesDeleted
  <1>21. CASE ScanMoves(t, T, U)
    BY <1>21, <1>1, <1>2, <1>3, <1>4, SMTT(60) DEF LockHeld, locks, ScanMoves, ScanPlace
  <1>22. CASE MarksRecord(t, T, U)
    BY <1>22, <1>1, <1>2, <1>3, <1>4, ZenonT(60) DEF LockHeld, locks, MarksRecord, ScanPlace
  <1>23. CASE LeavesPage(t, T, U)
    BY <1>23, <1>1, <1>2, <1>3, <1>4 DEF LockHeld, locks, LeavesPage, ScanPlace
  <1>24. CASE EntersPage(t, T, U)
    BY <1>24, <1>1, <1>2, <1>3, <1>4 DEF LockHeld, locks, EntersPage
  <1>25. CASE Commits(t, T, U)
    BY <1>25, <1>1, <1>2, <1>3, <1>4 DEF LockHeld, locks, Commits
  <1>26. CASE VisitsRecord(t, T, U, r)
    BY <1>26, <1>1, <1>2, <1>3, <1>4 DEF LockHeld, locks, VisitsRecord
  <1>27. CASE PicksInsertion(t, T, U, r)
    BY <1>27, <1>1, <1>2, <1>3, <1>4 DEF LockHeld, locks, PicksInsertion
  <1>28. CASE Finishes(t, T, U)
    BY <1>28, <1>1, <1>2, <1>3, <1>4 DEF LockHeld, locks, Finishes, Idle
  <1> QED
    BY <1>11, <1>12, <1>13, <1>14, <1>15, <1>16, <1>17, <1>18, <1>19, <1>20, <1>21, <1>22, <1>23, <1>24,
       <1>25, <1>26, <1>27, <1>28 DEF ThreadStep, Action

\* Transaction ids are drawn in order and never twice.
LEMMA TidStep ==
  ASSUME IInv, NEW t \in Threads, NEW T, NEW U, NEW r, ThreadStep(t, T, U, r)
  PROVE  Tids'
  <1> USE DEF IInv, ControlInv
  <1>1. T \in Thread /\ U \in Thread /\ T = th[t] /\ th'[t] = U
    BY Moved
  <1>2. \A u \in Threads : u # t => th'[u] = th[u]
    BY Moved
  <1>3. clock \in Nat /\ clock > 0
    BY DEF TypeOK
  <1>4. /\ \A u \in Threads : th[u].pc # "idle" => th[u].tid \in 1..clock - 1
        /\ \A u, v \in Threads : u # v /\ th[u].pc # "idle" /\ th[v].pc # "idle" => th[u].tid # th[v].tid
        /\ \A u \in Threads : th[u].pc = "stamp" => th[u].limit > 0
    BY DEF RecordInv, Tids
  <1>5. ASSUME clock' = clock, T.pc # "idle", U.pc # "idle" => U.tid = T.tid, U.pc = "stamp" => U.limit > 0
        PROVE  Tids'
    BY <1>1, <1>2, <1>3, <1>4, <1>5 DEF Tids
  <1>11. CASE Starts(t, T, U)
    BY <1>11, <1>1, <1>2, <1>3, <1>4 DEF Starts, Tids
  <1>12. CASE Picks(t, T, U)
    BY <1>12, <1>1, <1>4, <1>5 DEF KeepStmt, KeepScan, Picks
  <1>13. CASE LatchesPage(t, T, U)
    BY <1>13, <1>1, <1>4, <1>5 DEF KeepStmt, KeepScan, LatchesPage
  <1>14. CASE Allocates(t, T, U)
    BY <1>14, <1>1, <1>4, <1>5 DEF KeepStmt, KeepScan, Allocates
  <1>15. CASE InitsPage(t, T, U)
    BY <1>15, <1>1, <1>4, <1>5 DEF KeepStmt, KeepScan, InitsPage
  <1>16. CASE SharesPage(t, T, U)
    BY <1>16, <1>1, <1>4, <1>5 DEF KeepStmt, KeepScan, SharesPage
  <1>17. CASE Puts(t, T, U)
    BY <1>17, <1>1, <1>4, <1>5 DEF KeepStmt, KeepScan, Puts
  <1>18. CASE InsertEnds(t, T, U)
    BY <1>18, <1>1, <1>4, <1>5 DEF KeepStmt, KeepScan, InsertEnds
  <1>19. CASE DeletesRecord(t, T, U)
    BY <1>19, <1>1, <1>4, <1>5 DEF KeepStmt, KeepScan, DeletesRecord
  <1>20. CASE SharesDeleted(t, T, U)
    BY <1>20, <1>1, <1>4, <1>5 DEF KeepStmt, KeepScan, SharesDeleted
  <1>21. CASE ScanMoves(t, T, U)
    BY <1>21, <1>1, <1>4, <1>5, SMTT(60) DEF KeepStmt, KeepScan, ScanMoves, ScanPlace
  <1>22. CASE MarksRecord(t, T, U)
    BY <1>22, <1>1, <1>4, <1>5 DEF KeepStmt, KeepScan, MarksRecord, ScanPlace
  <1>23. CASE LeavesPage(t, T, U)
    BY <1>23, <1>1, <1>4, <1>5 DEF KeepStmt, KeepScan, LeavesPage, ScanPlace
  <1>24. CASE EntersPage(t, T, U)
    BY <1>24, <1>1, <1>4, <1>5 DEF KeepStmt, KeepScan, EntersPage
  <1>25. CASE Commits(t, T, U)
    BY <1>25, <1>1, <1>2, <1>3, <1>4 DEF Commits, Tids
  <1>26. CASE VisitsRecord(t, T, U, r)
    BY <1>26, <1>1, <1>4, <1>5 DEF KeepStmt, KeepScan, VisitsRecord
  <1>27. CASE PicksInsertion(t, T, U, r)
    BY <1>27, <1>1, <1>4, <1>5 DEF KeepStmt, KeepScan, PicksInsertion
  <1>28. CASE Finishes(t, T, U)
    BY <1>28, <1>1, <1>4, <1>5 DEF KeepStmt, KeepScan, Finishes, Idle
  <1> QED
    BY <1>11, <1>12, <1>13, <1>14, <1>15, <1>16, <1>17, <1>18, <1>19, <1>20, <1>21, <1>22, <1>23, <1>24,
       <1>25, <1>26, <1>27, <1>28 DEF ThreadStep, Action

\* A thread that moves without touching a page keeps the page's latch right.
LEMMA LatchKept ==
  ASSUME NEW t \in Threads, NEW W \in [Threads -> Thread], NEW V \in [Threads -> Thread], NEW p, NEW l,
         \A u \in Threads : u # t => V[u] = W[u],
         LatchOf(l, W, p), Depth(V[t], p) = Depth(W[t], p), Reads(V[t], p) <=> Reads(W[t], p)
  PROVE  LatchOf(l, V, p)
  <1>1. \A u \in Threads : Depth(V[u], p) = Depth(W[u], p) /\ (Reads(V[u], p) <=> Reads(W[u], p))
    OBVIOUS
  <1> QED
    BY <1>1 DEF LatchOf

\* A writer latches once more.
LEMMA LatchTaken ==
  ASSUME NEW t \in Threads, NEW W \in [Threads -> Thread], NEW V \in [Threads -> Thread], NEW p, NEW l \in LatchT,
         \A u \in Threads : u # t => V[u] = W[u],
         LatchOf(l, W, p), Depth(V[t], p) = Depth(W[t], p) + 1, Reads(V[t], p) <=> Reads(W[t], p),
         l.owner = t \/ (l.owner = Nobody /\ l.readers = {})
  PROVE  LatchOf(WriteLatched(l, t), V, p)
  <1>1. Nobody \notin Threads
    BY RecordFileAssumption
  <1>2. \A u \in Threads : u # t => Depth(V[u], p) = Depth(W[u], p) /\ (Reads(V[u], p) <=> Reads(W[u], p))
    OBVIOUS
  <1>3. WriteLatched(l, t).owner = t /\ WriteLatched(l, t).depth = l.depth + 1 /\ WriteLatched(l, t).readers = l.readers
    BY DEF WriteLatched, LatchT
  <1>4. l.depth \in Nat
    BY DEF LatchT
  <1>5. l.readers = {} /\ \A u \in Threads : u # t => Depth(W[u], p) = 0
    BY <1>1 DEF LatchOf
  <1>6. Depth(W[t], p) = l.depth
    BY <1>1 DEF LatchOf
  <1> QED
    BY <1>1, <1>2, <1>3, <1>4, <1>5, <1>6 DEF LatchOf

\* A writer gives a latch back.
LEMMA LatchGiven ==
  ASSUME NEW t \in Threads, NEW W \in [Threads -> Thread], NEW V \in [Threads -> Thread], NEW p, NEW l \in LatchT,
         \A u \in Threads : u # t => V[u] = W[u],
         LatchOf(l, W, p), Depth(V[t], p) \in Nat, Depth(W[t], p) = Depth(V[t], p) + 1,
         Reads(V[t], p) <=> Reads(W[t], p)
  PROVE  LatchOf(WriteUnlatched(l), V, p)
  <1>1. Nobody \notin Threads /\ l.depth \in Nat
    BY RecordFileAssumption DEF LatchT
  <1>2. \A u \in Threads : u # t => Depth(V[u], p) = Depth(W[u], p) /\ (Reads(V[u], p) <=> Reads(W[u], p))
    OBVIOUS
  <1>3. l.owner = t /\ l.depth = Depth(V[t], p) + 1
    BY DEF LatchOf
  <1>4. l.readers = {}
    BY <1>1, <1>3 DEF LatchOf
  <1>5. CASE l.depth > 1
    <2>1. WriteUnlatched(l).owner = t /\ WriteUnlatched(l).depth = l.depth - 1 /\ WriteUnlatched(l).readers = {}
      BY <1>3, <1>4, <1>5 DEF WriteUnlatched, LatchT
    <2> QED
      BY <1>1, <1>2, <1>3, <1>4, <1>5, <2>1 DEF LatchOf
  <1>6. CASE ~(l.depth > 1)
    <2>1. WriteUnlatched(l).owner = Nobody /\ WriteUnlatched(l).depth = 0 /\ WriteUnlatched(l).readers = {}
      BY <1>3, <1>4, <1>6 DEF WriteUnlatched, LatchT
    <2>2. Depth(V[t], p) = 0
      BY <1>1, <1>3, <1>6
    <2> QED
      BY <1>1, <1>2, <1>3, <1>4, <2>1, <2>2 DEF LatchOf
  <1> QED
    BY <1>5, <1>6

\* A reader comes or goes.
LEMMA LatchRead ==
  ASSUME NEW t \in Threads, NEW W \in [Threads -> Thread], NEW V \in [Threads -> Thread], NEW p, NEW l \in LatchT,
         \A u \in Threads : u # t => V[u] = W[u],
         LatchOf(l, W, p), Depth(V[t], p) = Depth(W[t], p)
  PROVE  /\ Reads(V[t], p) /\ l.owner = Nobody => LatchOf(ReadLatched(l, t), V, p)
         /\ ~Reads(V[t], p) => LatchOf(ReadUnlatched(l, t), V, p)
  <1>1. \A u \in Threads : u # t => Depth(V[u], p) = Depth(W[u], p) /\ (Reads(V[u], p) <=> Reads(W[u], p))
    OBVIOUS
  <1>2. ASSUME Reads(V[t], p), l.owner = Nobody PROVE LatchOf(ReadLatched(l, t), V, p)
    <2>1. ReadLatched(l, t).owner = l.owner /\ ReadLatched(l, t).depth = l.depth
          /\ ReadLatched(l, t).readers = l.readers \cup {t}
      BY DEF ReadLatched, LatchT
    <2> QED
      BY <1>1, <1>2, <2>1 DEF LatchOf
  <1>3. ASSUME ~Reads(V[t], p) PROVE LatchOf(ReadUnlatched(l, t), V, p)
    <2>1. ReadUnlatched(l, t).owner = l.owner /\ ReadUnlatched(l, t).depth = l.depth
          /\ ReadUnlatched(l, t).readers = l.readers \ {t}
      BY DEF ReadUnlatched, LatchT
    <2> QED
      BY <1>1, <1>3, <2>1 DEF LatchOf
  <1> QED
    BY <1>2, <1>3

\* A page's latch is held by whom the threads' places say.
LEMMA LatchStep ==
  ASSUME IInv, NEW t \in Threads, NEW T, NEW U, NEW r, ThreadStep(t, T, U, r)
  PROVE  Latches'
  <1> USE DEF IInv, ControlInv
  <1>1. T \in Thread /\ U \in Thread /\ T = th[t] /\ th'[t] = U
    BY Moved
  <1>2. th \in [Threads -> Thread] /\ th' \in [Threads -> Thread] /\ \A u \in Threads : u # t => th'[u] = th[u]
    BY Moved DEF TypeOK
  <1>3. latch \in [PageNos -> LatchT] /\ NoPage \notin PageNos
    BY DEF TypeOK, LatchT, NoPage, PageNos
  <1>4. \A p \in PageNos : LatchOf(latch[p], th, p)
    BY DEF Latches
  <1> DEFINE Same(p) == Depth(U, p) = Depth(T, p) /\ (Reads(U, p) <=> Reads(T, p))
  <1>5. ASSUME NEW p \in PageNos, latch'[p] = latch[p], Same(p) PROVE LatchOf(latch'[p], th', p)
    BY <1>1, <1>2, <1>4, <1>5, LatchKept
  <1>6. ASSUME latch' = latch, \A p \in PageNos : Same(p) PROVE Latches'
    BY <1>5, <1>6 DEF Latches
  <1>7. /\ T.pc = "idle" => T.scan_page = NoPage
        /\ T.scan_page # NoPage => T.pc \in ScanPcs \cup InsertPcs \cup DeletePcs /\ T.stmt \in Scans
        /\ T.pc \in {"ins_latch", "ins_init", "ins_share", "ins_put"} => T.page \in PageNos
        /\ T.pc = "fetch_latch" => T.at \in PageNos /\ T.scan_page = NoPage
    BY <1>1 DEF Phases, Idle
  <1>8. \A X, p : Depth(X, p) \in Nat
    BY DEF Depth, ScanDepth, InsertDepth
  <1>11. CASE Starts(t, T, U)
    BY <1>11, <1>3, <1>6, <1>7 DEF Depth, ScanDepth, InsertDepth, Reads, KeepStmt, KeepPlace, KeepScan,
       locks, Starts, ScanPcs, InsertPcs, DeletePcs
  <1>12. CASE Picks(t, T, U)
    BY <1>12, <1>3, <1>6, <1>7 DEF Depth, ScanDepth, InsertDepth, Reads, KeepStmt, KeepPlace, KeepScan,
       locks, Picks
  <1>13. CASE LatchesPage(t, T, U)
    <2>1. latch' = [latch EXCEPT ![T.page] = WriteLatched(latch[T.page], t)] /\ T.page \in PageNos
          /\ (latch[T.page].owner = t \/ (latch[T.page].owner = Nobody /\ latch[T.page].readers = {}))
      BY <1>13, <1>7 DEF LatchesPage, CanWrite
    <2>2. \A p \in PageNos : p # T.page => Same(p) /\ latch'[p] = latch[p]
      BY <1>13, <1>3, <2>1 DEF LatchesPage, KeepStmt, KeepPlace, KeepScan, Depth, ScanDepth, InsertDepth,
         Reads
    <2>3. Depth(U, T.page) = Depth(T, T.page) + 1 /\ (Reads(U, T.page) <=> Reads(T, T.page))
      BY <1>13 DEF LatchesPage, KeepStmt, KeepPlace, KeepScan, Depth, ScanDepth, InsertDepth, Reads
    <2>4. latch'[T.page] = WriteLatched(latch[T.page], t) /\ latch[T.page] \in LatchT
      BY <1>3, <2>1
    <2>5. LatchOf(WriteLatched(latch[T.page], t), th', T.page)
      BY <1>1, <1>2, <1>4, <2>1, <2>3, <2>4, LatchTaken
    <2> QED
      BY <1>5, <2>2, <2>4, <2>5 DEF Latches
  <1>14. CASE Allocates(t, T, U)
    BY <1>14, <1>3, <1>6, <1>7 DEF Depth, ScanDepth, InsertDepth, Reads, KeepStmt, KeepPlace, KeepScan,
       locks, Allocates
  <1>15. CASE InitsPage(t, T, U)
    <2>1. latch' = [latch EXCEPT ![T.page] = WriteLatched(latch[T.page], t)] /\ T.page \in PageNos
          /\ (latch[T.page].owner = t \/ (latch[T.page].owner = Nobody /\ latch[T.page].readers = {}))
      BY <1>15, <1>7 DEF InitsPage, CanWrite
    <2>2. \A p \in PageNos : p # T.page => Same(p) /\ latch'[p] = latch[p]
      BY <1>15, <1>3, <2>1 DEF InitsPage, KeepStmt, KeepPlace, KeepScan, Depth, ScanDepth, InsertDepth,
         Reads
    <2>3. Depth(U, T.page) = Depth(T, T.page) + 1 /\ (Reads(U, T.page) <=> Reads(T, T.page))
      BY <1>15 DEF InitsPage, KeepStmt, KeepPlace, KeepScan, Depth, ScanDepth, InsertDepth, Reads
    <2>4. latch'[T.page] = WriteLatched(latch[T.page], t) /\ latch[T.page] \in LatchT
      BY <1>3, <2>1
    <2>5. LatchOf(WriteLatched(latch[T.page], t), th', T.page)
      BY <1>1, <1>2, <1>4, <2>1, <2>3, <2>4, LatchTaken
    <2> QED
      BY <1>5, <2>2, <2>4, <2>5 DEF Latches
  <1>16. CASE SharesPage(t, T, U)
    BY <1>16, <1>3, <1>6, <1>7 DEF Depth, ScanDepth, InsertDepth, Reads, KeepStmt, KeepPlace, KeepScan,
       locks, SharesPage
  <1>17. CASE Puts(t, T, U)
    <2>1. latch' = [latch EXCEPT ![T.page] = WriteUnlatched(latch[T.page])] /\ T.page \in PageNos
      BY <1>17, <1>7 DEF Puts
    <2>2. \A p \in PageNos : p # T.page => Same(p) /\ latch'[p] = latch[p]
      BY <1>17, <1>3, <2>1 DEF Puts, KeepStmt, KeepScan, Depth, ScanDepth, InsertDepth, Reads
    <2>3. Depth(T, T.page) = Depth(U, T.page) + 1 /\ (Reads(U, T.page) <=> Reads(T, T.page))
      BY <1>17 DEF Puts, KeepStmt, KeepScan, Depth, ScanDepth, InsertDepth, Reads
    <2>4. latch'[T.page] = WriteUnlatched(latch[T.page]) /\ latch[T.page] \in LatchT
      BY <1>3, <2>1
    <2>5. LatchOf(WriteUnlatched(latch[T.page]), th', T.page)
      BY <1>1, <1>2, <1>4, <1>8, <2>1, <2>3, <2>4, LatchGiven
    <2> QED
      BY <1>5, <2>2, <2>4, <2>5 DEF Latches
  <1>18. CASE InsertEnds(t, T, U)
    BY <1>18, <1>3, <1>6, <1>7 DEF Depth, ScanDepth, InsertDepth, Reads, KeepStmt, KeepPlace, KeepScan,
       locks, InsertEnds
  <1>19. CASE DeletesRecord(t, T, U)
    BY <1>19, <1>3, <1>6, <1>7 DEF Depth, ScanDepth, InsertDepth, Reads, KeepStmt, KeepPlace, KeepScan,
       locks, DeletesRecord
  <1>20. CASE SharesDeleted(t, T, U)
    BY <1>20, <1>3, <1>6, <1>7 DEF Depth, ScanDepth, InsertDepth, Reads, KeepStmt, KeepPlace, KeepScan,
       locks, SharesDeleted
  <1>21. CASE ScanMoves(t, T, U)
    BY <1>21, <1>3, <1>6, <1>7, SMTT(60) DEF Depth, ScanDepth, InsertDepth, Reads, KeepStmt, KeepPlace, KeepScan,
       locks, ScanMoves, ScanPlace
  <1>22. CASE MarksRecord(t, T, U)
    BY <1>22, <1>3, <1>6, <1>7 DEF Depth, ScanDepth, InsertDepth, Reads, KeepStmt, KeepPlace, KeepScan,
       locks, MarksRecord, ScanPlace
  <1>23. CASE LeavesPage(t, T, U)
    <2>1. U.scan_page = NoPage /\ U.stmt = T.stmt /\ U.page = T.page
          /\ T.pc \notin {"ins_share", "ins_put"} /\ U.pc \notin {"ins_share", "ins_put"}
          /\ latch' = Cleanup(latch, t, T.scan_page, T.stmt = "select")
      BY <1>23 DEF LeavesPage, KeepPlace, ScanPlace
    <2>2. CASE T.scan_page = NoPage
      <3>1. latch' = latch
        BY <2>1, <2>2 DEF Cleanup
      <3>2. \A p \in PageNos : Same(p)
        BY <2>1, <2>2 DEF Depth, ScanDepth, InsertDepth, Reads
      <3> QED
        BY <1>6, <3>1, <3>2
    <2>3. CASE T.scan_page # NoPage
      <3>1. T.scan_page \in PageNos
        BY <1>1, <2>3, RecordFileAssumption, SMTT(60) DEF Thread, NoPage, PageNos
      <3>2. \A p \in PageNos : p # T.scan_page => Same(p)
        BY <1>3, <2>1 DEF Depth, ScanDepth, InsertDepth, Reads
      <3>3. latch[T.scan_page] \in LatchT
        BY <1>3, <3>1
      <3>4. CASE T.stmt = "select"
        <4>1. latch' = [latch EXCEPT ![T.scan_page] = ReadUnlatched(latch[T.scan_page], t)]
          BY <2>1, <2>3, <3>4 DEF Cleanup
        <4>2. latch'[T.scan_page] = ReadUnlatched(latch[T.scan_page], t)
              /\ \A p \in PageNos : p # T.scan_page => latch'[p] = latch[p]
          BY <1>3, <3>1, <4>1
        <4>3. Depth(U, T.scan_page) = Depth(T, T.scan_page) /\ ~Reads(U, T.scan_page)
          BY <1>3, <2>1, <2>3, <3>1, <3>4 DEF Depth, ScanDepth, InsertDepth, Reads
        <4>4. LatchOf(ReadUnlatched(latch[T.scan_page], t), th', T.scan_page)
          BY <1>1, <1>2, <1>4, <3>1, <3>3, <4>3, LatchRead
        <4> QED
          BY <1>5, <3>2, <4>2, <4>4 DEF Latches
      <3>5. CASE T.stmt # "select"
        <4>1. latch' = [latch EXCEPT ![T.scan_page] = WriteUnlatched(latch[T.scan_page])]
          BY <2>1, <2>3, <3>5 DEF Cleanup
        <4>2. latch'[T.scan_page] = WriteUnlatched(latch[T.scan_page])
              /\ \A p \in PageNos : p # T.scan_page => latch'[p] = latch[p]
          BY <1>3, <3>1, <4>1
        <4>3. Depth(T, T.scan_page) = Depth(U, T.scan_page) + 1 /\ (Reads(U, T.scan_page) <=> Reads(T, T.scan_page))
          BY <1>3, <2>1, <2>3, <3>1, <3>5 DEF Depth, ScanDepth, InsertDepth, Reads
        <4>4. LatchOf(WriteUnlatched(latch[T.scan_page]), th', T.scan_page)
          BY <1>1, <1>2, <1>4, <1>8, <3>1, <3>3, <4>3, LatchGiven
        <4> QED
          BY <1>5, <3>2, <4>2, <4>4 DEF Latches
      <3> QED
        BY <3>4, <3>5
    <2> QED
      BY <2>2, <2>3
  <1>24. CASE EntersPage(t, T, U)
    <2>1. T.scan_page = NoPage /\ T.at \in PageNos /\ U.scan_page = T.at /\ U.stmt = T.stmt /\ U.page = T.page
          /\ T.pc \notin {"ins_share", "ins_put"} /\ U.pc \notin {"ins_share", "ins_put"}
          /\ latch[T.at] \in LatchT
      BY <1>24, <1>3, <1>7 DEF EntersPage, KeepPlace, KeepStmt
    <2>2. \A p \in PageNos : p # T.at => Same(p)
      BY <1>3, <2>1 DEF Depth, ScanDepth, InsertDepth, Reads
    <2>3. CASE T.stmt = "select"
      <3>1. latch' = [latch EXCEPT ![T.at] = ReadLatched(latch[T.at], t)] /\ latch[T.at].owner = Nobody
        BY <1>24, <2>3 DEF EntersPage, CanRead
      <3>2. latch'[T.at] = ReadLatched(latch[T.at], t) /\ \A p \in PageNos : p # T.at => latch'[p] = latch[p]
        BY <1>3, <2>1, <3>1
      <3>3. Depth(U, T.at) = Depth(T, T.at) /\ Reads(U, T.at)
        BY <1>3, <2>1, <2>3 DEF Depth, ScanDepth, InsertDepth, Reads
      <3>4. LatchOf(ReadLatched(latch[T.at], t), th', T.at)
        BY <1>1, <1>2, <1>4, <2>1, <3>1, <3>3, LatchRead
      <3> QED
        BY <1>5, <2>2, <3>2, <3>4 DEF Latches
    <2>4. CASE T.stmt # "select"
      <3>1. latch' = [latch EXCEPT ![T.at] = WriteLatched(latch[T.at], t)]
            /\ (latch[T.at].owner = t \/ (latch[T.at].owner = Nobody /\ latch[T.at].readers = {}))
        BY <1>24, <2>4 DEF EntersPage, CanWrite
      <3>2. latch'[T.at] = WriteLatched(latch[T.at], t) /\ \A p \in PageNos : p # T.at => latch'[p] = latch[p]
        BY <1>3, <2>1, <3>1
      <3>3. Depth(U, T.at) = Depth(T, T.at) + 1 /\ (Reads(U, T.at) <=> Reads(T, T.at))
        BY <1>3, <2>1, <2>4 DEF Depth, ScanDepth, InsertDepth, Reads
      <3>4. LatchOf(WriteLatched(latch[T.at], t), th', T.at)
        BY <1>1, <1>2, <1>4, <2>1, <3>1, <3>3, LatchTaken
      <3> QED
        BY <1>5, <2>2, <3>2, <3>4 DEF Latches
    <2> QED
      BY <2>3, <2>4
  <1>25. CASE Commits(t, T, U)
    BY <1>25, <1>3, <1>6, <1>7 DEF Depth, ScanDepth, InsertDepth, Reads, KeepStmt, KeepPlace, KeepScan,
       locks, Commits
  <1>26. CASE VisitsRecord(t, T, U, r)
    BY <1>26, <1>3, <1>6, <1>7 DEF Depth, ScanDepth, InsertDepth, Reads, KeepStmt, KeepPlace, KeepScan,
       locks, VisitsRecord
  <1>27. CASE PicksInsertion(t, T, U, r)
    BY <1>27, <1>3, <1>6, <1>7 DEF Depth, ScanDepth, InsertDepth, Reads, KeepStmt, KeepPlace, KeepScan,
       locks, PicksInsertion
  <1>28. CASE Finishes(t, T, U)
    BY <1>28, <1>3, <1>6, <1>7 DEF Depth, ScanDepth, InsertDepth, Reads, KeepStmt, KeepPlace, KeepScan,
       locks, Finishes, Idle, ScanPcs, InsertPcs, DeletePcs, NoPage
  <1> QED
    BY <1>11, <1>12, <1>13, <1>14, <1>15, <1>16, <1>17, <1>18, <1>19, <1>20, <1>21, <1>22, <1>23, <1>24,
       <1>25, <1>26, <1>27, <1>28 DEF ThreadStep, Action

\* Only an allocation makes a page fresh.
LEMMA FreshOnly ==
  ASSUME NEW t, NEW T, NEW U, NEW r, ThreadStep(t, T, U, r), NEW p, Fresh(U, p)
  PROVE  Fresh(T, p) \/ (Allocates(t, T, U) /\ p = page_count)
  <1>1. U.pc \in {"ins_init", "ins_share"} /\ U.page = p
    BY DEF Fresh
  <1>2. CASE Allocates(t, T, U)
    BY <1>1, <1>2 DEF Allocates
  <1>3. CASE InitsPage(t, T, U)
    BY <1>1, <1>3 DEF InitsPage, KeepPlace, Fresh
  <1>4. CASE    \/ Starts(t, T, U) \/ Picks(t, T, U) \/ LatchesPage(t, T, U) \/ SharesPage(t, T, U)
              \/ Puts(t, T, U) \/ InsertEnds(t, T, U) \/ DeletesRecord(t, T, U) \/ SharesDeleted(t, T, U)
    BY <1>1, <1>4 DEF Starts, Picks, LatchesPage, SharesPage, Puts, InsertEnds, DeletesRecord,
       SharesDeleted, Fresh, KeepPlace
  <1>5. CASE \/ ScanMoves(t, T, U) \/ MarksRecord(t, T, U) \/ LeavesPage(t, T, U) \/ EntersPage(t, T, U)
             \/ Commits(t, T, U)
    <2>1. U.pc \notin {"ins_init", "ins_share"}
      BY <1>5 DEF ScanMoves, MarksRecord, LeavesPage, EntersPage, Commits, ScanPlace
    <2> QED
      BY <1>1, <2>1, SMTT(60)
  <1>6. CASE VisitsRecord(t, T, U, r) \/ PicksInsertion(t, T, U, r) \/ Finishes(t, T, U)
    <2>1. U.pc \in {"stamp", "rollback", "del_latch", "idle"}
      BY <1>6 DEF VisitsRecord, PicksInsertion, Finishes, Idle
    <2> QED
      BY <1>1, <2>1
  <1> QED
    BY <1>2, <1>3, <1>4, <1>5, <1>6 DEF ThreadStep, Action

\* A page that is known stays known.
LEMMA KnownKept ==
  ASSUME IInv, NEW t \in Threads, NEW T, NEW U, NEW r, ThreadStep(t, T, U, r), NEW p \in Int, Known(p)
  PROVE  Known(p)'
  <1>1. T = th[t] /\ th'[t] = U /\ \A u \in Threads : u # t => th'[u] = th[u]
    BY Moved DEF IInv, ControlInv
  <1>2. page_count \in Nat /\ page_count' \in Nat /\ page_count <= page_count'
    BY PagesAfter DEF IInv, ControlInv, RecordInv, TypeOK, Allocates
  <1>3. p < page_count /\ \A u \in Threads : ~Fresh(th[u], p)
    BY DEF Known
  <1>4. ~Fresh(U, p)
    BY <1>1, <1>2, <1>3, FreshOnly
  <1>5. \A u \in Threads : ~Fresh(th'[u], p)
    BY <1>1, <1>3, <1>4
  <1>6. p < page_count'
    BY <1>2, <1>3
  <1> QED
    BY <1>5, <1>6 DEF Known, Fresh

\* Records are written on pages everybody knows.
LEMMA WrittenKnown ==
  ASSUME IInv, NEW t \in Threads, NEW T, NEW U, NEW r, ThreadStep(t, T, U, r),
         NEW q \in RidT, NEW new \in Rec, Rewrites(t, T, U, r, q, new)
  PROVE  Known(q[1])
  <1>1. T = th[t] /\ OwnMarksOnly(t, T, U, q, new)
    BY RewriteFacts DEF ThreadStep
  <1>2. q[1] \in PageNos /\ q[2] \in Slots /\ T.tid \in Nat \ {0} /\ At(q) \in Rec
    BY <1>1 DEF RidT, OwnMarksOnly
  <1>3. At(q).begin < 0 \/ At(q).end < 0 => Known(q[1])
    BY DEF IInv, PageInv, KnownPages
  <1>4. CASE Puts(t, T, U) /\ q = U.rid /\ new = T.rec
    BY <1>1, <1>4 DEF Puts, IInv, PageInv, KnownPages
  <1>5. CASE DeletesRecord(t, T, U) /\ q = T.rid /\ new = Empty
    BY <1>1, <1>2, <1>3, <1>5 DEF OwnMarksOnly
  <1>6. CASE MarksRecord(t, T, U) /\ q = T.cur.rid /\ new = [At(q) EXCEPT !.end = -T.tid]
    <2>1. T.pc = "process" /\ T.cur # NoRec
      BY <1>1, <1>6 DEF MarksRecord, IInv, ControlInv, Phases
    <2>2. q[1] < page_count /\ (At(q).begin > 0 \/ At(q).begin = -T.tid)
      BY <1>1, <1>6, <2>1 DEF IInv, RecordInv, InHand, Live, GoingPcs, ScanPcs
    <2>3. At(q) # Empty
      BY <1>2, <2>2 DEF Empty
    <2>4. pages[q[1]] # EmptyPage
      BY <1>2, <2>3 DEF EmptyPage, At
    <2> QED
      BY <1>2, <2>2, <2>4, SMTT(60) DEF Known, IInv, PageInv, FreshPages
  <1>7. CASE VisitsRecord(t, T, U, r) /\ q = r
    <2>1. -T.tid \in {At(q).begin, At(q).end}
      BY <1>1, <1>7 DEF VisitsRecord, IInv, RecordInv, Todo
    <2> QED
      BY <1>2, <1>3, <2>1
  <1> QED
    BY <1>4, <1>5, <1>6, <1>7, Zenon DEF Rewrites

\* A fresh page stays empty and its thread's own.
LEMMA FreshStep ==
  ASSUME IInv, NEW t \in Threads, NEW T, NEW U, NEW r, ThreadStep(t, T, U, r)
  PROVE  FreshPages'
  <1>1. T = th[t] /\ th'[t] = U /\ \A u \in Threads : u # t => th'[u] = th[u]
    BY Moved DEF IInv, ControlInv
  <1>2. page_count \in Nat /\ page_count' \in Nat /\ page_count <= page_count' /\ pages \in [PageNos -> Page]
    BY PagesAfter DEF IInv, ControlInv, RecordInv, TypeOK, Allocates
  <1>3. \A u \in Threads, p \in PageNos :
          Fresh(th[u], p) => /\ p < page_count /\ pages[p] = EmptyPage
                             /\ \A v \in Threads : Fresh(th[v], p) => v = u
    BY DEF IInv, PageInv, FreshPages
  <1>4. ASSUME NEW p \in PageNos, NEW u \in Threads, Fresh(th[u], p) PROVE pages'[p] = EmptyPage /\ p # page_count
    <2>1. p < page_count /\ pages[p] = EmptyPage
      BY <1>3, <1>4
    <2>2. CASE pages' = pages
      BY <1>2, <2>1, <2>2 DEF PageNos
    <2>3. CASE Allocates(t, T, U)
      BY <1>2, <2>1, <2>3 DEF Allocates, PageNos
    <2>4. ASSUME NEW q \in RidT, NEW new \in Rec, Rewrites(t, T, U, r, q, new),
                 \A y \in PageNos : y # q[1] => pages'[y] = pages[y]
          PROVE  pages'[p] = EmptyPage
      <3>1. Known(q[1])
        BY <2>4, WrittenKnown
      <3>2. q[1] # p
        BY <1>4, <3>1 DEF Known
      <3> QED
        BY <2>1, <2>4, <3>2
    <2>5. pages'[p] = EmptyPage
      BY <2>2, <2>3, <2>1, <2>4, PagesAfter DEF IInv, ControlInv, RecordInv
    <2> QED
      BY <1>2, <2>1, <2>5 DEF PageNos
  <1>5. \A p : Fresh(U, p) => Fresh(T, p) \/ (Allocates(t, T, U) /\ p = page_count)
    BY FreshOnly
  <1>6. Allocates(t, T, U) /\ page_count \in PageNos => pages'[page_count] = EmptyPage /\ page_count' = page_count + 1
    BY <1>2 DEF Allocates
  <1>7. ASSUME NEW u \in Threads, NEW p \in PageNos, Fresh(th'[u], p)
        PROVE  /\ p < page_count' /\ pages'[p] = EmptyPage
               /\ \A v \in Threads : Fresh(th'[v], p) => v = u
    <2>1. CASE Allocates(t, T, U) /\ p = page_count
      <3>1. \A v \in Threads : ~Fresh(th[v], p)
        BY <1>4, <2>1
      <3> QED
        BY <1>1, <1>2, <1>6, <1>7, <2>1, <3>1
    <2>2. CASE ~(Allocates(t, T, U) /\ p = page_count)
      <3>1. \A v \in Threads : Fresh(th'[v], p) => Fresh(th[v], p)
        BY <1>1, <1>5, <2>2
      <3>2. Fresh(th[u], p)
        BY <1>7, <3>1
      <3>3. pages'[p] = EmptyPage /\ p < page_count
        BY <1>3, <1>4, <3>2
      <3>4. p < page_count'
        BY <1>2, <3>3 DEF PageNos
      <3> QED
        BY <1>3, <3>1, <3>2, <3>3, <3>4
    <2> QED
      BY <2>1, <2>2
  <1> QED
    BY <1>7 DEF FreshPages, Fresh

\* What several threads can reach is a known page.
LEMMA KnownStep ==
  ASSUME IInv, NEW t \in Threads, NEW T, NEW U, NEW r, ThreadStep(t, T, U, r)
  PROVE  KnownPages'
  <1>1. T \in Thread /\ U \in Thread /\ T = th[t] /\ th'[t] = U
    BY Moved DEF IInv, ControlInv
  <1>2. \A u \in Threads : u # t => th'[u] = th[u]
    BY Moved DEF IInv, ControlInv
  <1>3. TypeOK /\ TypeOK'
    BY TypeStep DEF IInv, ControlInv
  <1> DEFINE K(p) == p < page_count' /\ \A v \in Threads : ~Fresh(th'[v], p)
  <1>4. \A p \in PageNos : Known(p) => K(p)
    <2>1. \A p \in Int : Known(p) => Known(p)'
      BY KnownKept
    <2>2. \A p \in Int : Known(p)' => K(p)
      BY DEF Known
    <2> QED
      BY <2>1, <2>2 DEF PageNos
  <1>5. /\ \A p \in free_pages : Known(p)
        /\ \A u \in Threads : /\ th[u].pc = "ins_latch" => th[u].page \in free_pages
                              /\ th[u].pc = "ins_put" => Known(th[u].page)
                              /\ th[u].pc = "del_share" => Known(th[u].rid[1])
        /\ \A x \in RidT : At(x).begin < 0 \/ At(x).end < 0 => Known(x[1])
    BY DEF IInv, PageInv, KnownPages
  <1>6. \A u \in Threads : /\ th[u].pc \in {"ins_latch", "ins_share", "ins_put"} => th[u].page \in PageNos
                           /\ th[u].pc \in {"del_latch", "del_share"} => th[u].rid \in RidT
    BY DEF IInv, ControlInv, Phases
  <1>7. \A x \in RidT : x[1] \in PageNos /\ x[2] \in Slots
    BY DEF RidT
  <1>8. ASSUME NEW x \in RidT, At(x)'.begin < 0 \/ At(x)'.end < 0 PROVE K(x[1])
    <2>1. CASE pages' = pages
      BY <1>4, <1>5, <1>7, <1>8, <2>1 DEF At
    <2>2. CASE Allocates(t, T, U)
      <3>1. CASE x[1] = page_count
        <4>1. At(x)' = Empty
          BY <1>3, <1>7, <2>2, <3>1 DEF Allocates, At, EmptyPage, TypeOK
        <4> QED
          BY <1>8, <4>1 DEF Empty
      <3>2. CASE x[1] # page_count
        <4>1. At(x)' = At(x)
          BY <1>3, <1>7, <2>2, <3>2 DEF Allocates, At, TypeOK
        <4> QED
          BY <1>4, <1>5, <1>7, <1>8, <4>1
      <3> QED
        BY <3>1, <3>2
    <2>3. ASSUME NEW q \in RidT, NEW new \in Rec, Rewrites(t, T, U, r, q, new), Writes(q, new)
          PROVE  K(x[1])
      <3>1. CASE x = q
        <4>1. Known(q[1])
          BY <2>3, WrittenKnown
        <4> QED
          BY <1>4, <1>7, <3>1, <4>1
      <3>2. CASE x # q
        <4>1. At(x)' = At(x)
          BY <2>3, <3>2 DEF Writes
        <4> QED
          BY <1>4, <1>5, <1>7, <1>8, <4>1
      <3> QED
        BY <3>1, <3>2
    <2> QED
      BY <2>1, <2>2, <2>3, PagesAfter DEF IInv, ControlInv, RecordInv
  <1> HIDE DEF K
  <1>9. ASSUME \A p \in free_pages' : K(p),
               \A u \in Threads : u # t /\ th[u].pc = "ins_latch" => th[u].page \in free_pages',
               /\ U.pc = "ins_latch" => U.page \in free_pages'
               /\ U.pc = "ins_put" => K(U.page)
               /\ U.pc = "del_share" => K(U.rid[1])
        PROVE  KnownPages'
    <2>1. ASSUME NEW u \in Threads
          PROVE  /\ th'[u].pc = "ins_latch" => th'[u].page \in free_pages'
                 /\ th'[u].pc = "ins_put" => K(th'[u].page)
                 /\ th'[u].pc = "del_share" => K(th'[u].rid[1])
      <3>1. CASE u = t
        BY <1>1, <1>9, <3>1
      <3>2. CASE u # t
        BY <1>2, <1>4, <1>5, <1>6, <1>7, <1>9, <3>2
      <3> QED
        BY <3>1, <3>2
    <2> USE DEF K
    <2> QED
      BY <1>8, <1>9, <2>1 DEF KnownPages, Known
  <1>11. CASE Starts(t, T, U)
    BY <1>11, <1>1, <1>3, <1>4, <1>5, <1>6, <1>7, <1>9 DEF KeepStmt, KeepPlace, KeepScan, TypeOK, locks,
       Starts
  <1>12. CASE Picks(t, T, U)
    <2>1. \A u \in Threads : u # t /\ th[u].pc = "ins_latch" => th[u].page \in free_pages'
      BY <1>12, <1>1, <1>5 DEF Picks, IInv, ControlInv, LockHeld
    <2>2. \A p \in free_pages' : K(p)
      BY <1>12, <1>3, <1>4, <1>5 DEF Picks, TypeOK
    <2> QED
      BY <1>12, <1>9, <2>1, <2>2 DEF Picks
  <1>13. CASE LatchesPage(t, T, U)
    BY <1>13, <1>1, <1>3, <1>4, <1>5, <1>6, <1>7, <1>9 DEF KeepStmt, KeepPlace, KeepScan, TypeOK, locks,
       LatchesPage
  <1>14. CASE Allocates(t, T, U)
    BY <1>14, <1>1, <1>3, <1>4, <1>5, <1>6, <1>7, <1>9 DEF KeepStmt, KeepPlace, KeepScan, TypeOK, locks,
       Allocates
  <1>15. CASE InitsPage(t, T, U)
    BY <1>15, <1>1, <1>3, <1>4, <1>5, <1>6, <1>7, <1>9 DEF KeepStmt, KeepPlace, KeepScan, TypeOK, locks,
       InitsPage
  <1>16. CASE SharesPage(t, T, U)
    <2>1. T.pc = "ins_share" /\ T.page \in PageNos /\ U.pc = "ins_put" /\ U.page = T.page
          /\ free_pages' = free_pages \cup {T.page} /\ page_count' = page_count
      BY <1>16, <1>1, <1>6 DEF SharesPage, KeepPlace, file
    <2>2. T.page < page_count /\ \A v \in Threads : Fresh(th[v], T.page) => v = t
      BY <1>1, <2>1 DEF IInv, PageInv, FreshPages, Fresh
    <2>3. ~Fresh(U, T.page)
      BY <2>1 DEF Fresh
    <2>4. K(T.page)
      BY <1>1, <1>2, <2>1, <2>2, <2>3 DEF K
    <2>5. \A p \in free_pages' : K(p)
      BY <1>3, <1>4, <1>5, <2>1, <2>4 DEF TypeOK
    <2> QED
      BY <1>1, <1>5, <1>9, <2>1, <2>4, <2>5
  <1>17. CASE Puts(t, T, U)
    BY <1>17, <1>1, <1>3, <1>4, <1>5, <1>6, <1>7, <1>9 DEF KeepStmt, KeepPlace, KeepScan, TypeOK, locks,
       Puts
  <1>18. CASE InsertEnds(t, T, U)
    BY <1>18, <1>1, <1>3, <1>4, <1>5, <1>6, <1>7, <1>9 DEF KeepStmt, KeepPlace, KeepScan, TypeOK, locks,
       InsertEnds
  <1>19. CASE DeletesRecord(t, T, U)
    <2>1. T.pc = "del_latch" /\ U.pc = "del_share" /\ U.rid = T.rid /\ free_pages' = free_pages
      BY <1>19 DEF DeletesRecord, KeepPlace, locks
    <2>2. At(T.rid).begin = -T.tid /\ T.tid > 0 /\ T.tid \in Nat
      <3>1. T.tid \in Nat /\ clock \in Nat
        BY <1>1, <1>3 DEF Thread, TypeOK
      <3>2. T.tid \in 1..clock - 1
        BY <1>1, <2>1 DEF IInv, RecordInv, Tids
      <3>3. At(T.rid).begin = -T.tid
        BY <1>1, <2>1 DEF IInv, RecordInv, Own
      <3> QED
        BY <3>1, <3>2, <3>3
    <2>3. K(T.rid[1])
      BY <1>1, <1>4, <1>5, <1>6, <1>7, <2>1, <2>2
    <2> QED
      BY <1>3, <1>4, <1>5, <1>9, <2>1, <2>3 DEF TypeOK
  <1>20. CASE SharesDeleted(t, T, U)
    BY <1>20, <1>1, <1>3, <1>4, <1>5, <1>6, <1>7, <1>9 DEF KeepStmt, KeepPlace, KeepScan, TypeOK, locks,
       SharesDeleted
  <1>21. CASE ScanMoves(t, T, U)
    BY <1>21, <1>1, <1>3, <1>4, <1>5, <1>6, <1>7, <1>9, SMTT(60) DEF KeepStmt, KeepPlace, KeepScan, TypeOK, locks,
       ScanMoves, ScanPlace
  <1>22. CASE MarksRecord(t, T, U)
    BY <1>22, <1>1, <1>3, <1>4, <1>5, <1>6, <1>7, <1>9 DEF KeepStmt, KeepPlace, KeepScan, TypeOK, locks,
       MarksRecord, ScanPlace
  <1>23. CASE LeavesPage(t, T, U)
    BY <1>23, <1>1, <1>3, <1>4, <1>5, <1>6, <1>7, <1>9 DEF KeepStmt, KeepPlace, KeepScan, TypeOK, locks,
       LeavesPage, ScanPlace
  <1>24. CASE EntersPage(t, T, U)
    BY <1>24, <1>1, <1>3, <1>4, <1>5, <1>6, <1>7, <1>9 DEF KeepStmt, KeepPlace, KeepScan, TypeOK, locks,
       EntersPage
  <1>25. CASE Commits(t, T, U)
    BY <1>25, <1>1, <1>3, <1>4, <1>5, <1>6, <1>7, <1>9 DEF KeepStmt, KeepPlace, KeepScan, TypeOK, locks,
       Commits
  <1>26. CASE VisitsRecord(t, T, U, r)
    BY <1>26, <1>1, <1>3, <1>4, <1>5, <1>6, <1>7, <1>9 DEF KeepStmt, KeepPlace, KeepScan, TypeOK, locks,
       VisitsRecord
  <1>27. CASE PicksInsertion(t, T, U, r)
    BY <1>27, <1>1, <1>3, <1>4, <1>5, <1>6, <1>7, <1>9 DEF KeepStmt, KeepPlace, KeepScan, TypeOK, locks,
       PicksInsertion
  <1>28. CASE Finishes(t, T, U)
    BY <1>28, <1>1, <1>3, <1>4, <1>5, <1>6, <1>7, <1>9 DEF KeepStmt, KeepPlace, KeepScan, TypeOK, locks,
       Finishes, Idle
  <1> QED
    BY <1>11, <1>12, <1>13, <1>14, <1>15, <1>16, <1>17, <1>18, <1>19, <1>20, <1>21, <1>22, <1>23, <1>24,
       <1>25, <1>26, <1>27, <1>28 DEF ThreadStep, Action

\* The page count keeps up with the pages.
LEMMA PagesStep ==
  ASSUME IInv, NEW t \in Threads, NEW T, NEW U, NEW r, ThreadStep(t, T, U, r)
  PROVE  PagesCounted'
  <1>1. redo' = redo /\ recovered' = recovered
    BY DEF ThreadStep, Action, log, Starts, Picks, LatchesPage, Allocates, InitsPage, SharesPage, Puts,
       InsertEnds,
       DeletesRecord, SharesDeleted, ScanMoves, MarksRecord, LeavesPage, EntersPage, Commits, VisitsRecord,
       PicksInsertion, Finishes
  <1>2. TypeOK /\ PagesCounted
    BY DEF IInv, ControlInv, PageInv
  <1>3. CASE Allocates(t, T, U)
    <2>1. allocated \subseteq PageNos /\ page_count \in Nat
      BY <1>2 DEF TypeOK
    <2>2. IsFiniteSet(PageNos)
      BY FS_Interval, RecordFileAssumption DEF PageNos
    <2>3. IsFiniteSet(allocated)
      BY <2>1, <2>2, FS_Subset
    <2>4. Cardinality(allocated) \in Nat
      BY <2>3, FS_CardinalityType
    <2>5. Cardinality(allocated \cup {page_count}) \in {Cardinality(allocated), Cardinality(allocated) + 1}
      BY <2>3, FS_AddElement
    <2>6. allocated' = allocated \cup {page_count} /\ page_count' = page_count + 1
      BY <1>3 DEF Allocates
    <2>7. Cardinality(allocated') < page_count'
      BY <1>2, <2>1, <2>4, <2>5, <2>6 DEF PagesCounted
    <2>8. redo = <<>>
      BY <1>3 DEF IInv, ControlInv, Phases, ThreadStep, Allocates
    <2> QED
      BY <1>1, <2>7, <2>8 DEF PagesCounted
  <1>4. CASE allocated' = allocated /\ page_count' = page_count
    BY <1>1, <1>2, <1>4 DEF PagesCounted
  <1> QED
    BY <1>3, <1>4, PagesAfter, SMTT(60) DEF IInv, ControlInv, RecordInv

\* Free space stays known.
LEMMA SpaceStep ==
  ASSUME IInv, NEW t \in Threads, NEW T, NEW U, NEW r, ThreadStep(t, T, U, r)
  PROVE  FreeSpaceKnown'
  <1>1. T = th[t] /\ th'[t] = U /\ \A u \in Threads : u # t => th'[u] = th[u]
    BY Moved DEF IInv, ControlInv
  <1>2. recovered' = recovered
    BY DEF ThreadStep, Action, log, Starts, Picks, LatchesPage, Allocates, InitsPage, SharesPage, Puts,
       InsertEnds,
       DeletesRecord, SharesDeleted, ScanMoves, MarksRecord, LeavesPage, EntersPage, Commits, VisitsRecord,
       PicksInsertion, Finishes
  <1>3. TypeOK /\ FreeSpaceKnown
    BY DEF IInv, ControlInv, PageInv
  <1> DEFINE Bound(X, p) == Fresh(X, p) \/ (X.pc = "del_share" /\ X.rid[1] = p)
  <1>4. \A p \in allocated \ recovered : pages[p].num < Capacity =>
          p \in free_pages \/ \E u \in Threads : Bound(th[u], p)
    BY <1>3 DEF FreeSpaceKnown, Fresh
  <1>5. SUFFICES ASSUME NEW p \in allocated' \ recovered, pages'[p].num < Capacity
                 PROVE  p \in free_pages' \/ \E u \in Threads : Bound(th'[u], p)
    BY <1>2 DEF FreeSpaceKnown, Fresh
  <1>6. SUFFICES ASSUME p \notin free_pages', ~Bound(U, p)
                 PROVE  \E u \in Threads : u # t /\ Bound(th[u], p)
    BY <1>1
  <1>7. p \in PageNos
    BY TypeStep DEF TypeOK
  <1>8. p \in allocated /\ pages[p].num < Capacity
    <2>1. CASE Quiet(t, T, U, r) /\ pages' = pages /\ allocated' = allocated
      BY <1>5, <2>1
    <2>2. CASE Allocates(t, T, U)
      <3>1. p # page_count
        BY <1>6, <2>2 DEF Allocates, Fresh
      <3> QED
        BY <1>3, <1>5, <1>7, <2>2, <3>1 DEF Allocates, TypeOK
    <2>3. ASSUME NEW q \in RidT, NEW new \in Rec, Rewrites(t, T, U, r, q, new),
                 allocated' = allocated, \A y \in PageNos : y # q[1] => pages'[y] = pages[y],
                 pages'[q[1]].num = pages[q[1]].num + (IF Puts(t, T, U) THEN 1 ELSE 0)
                                                    - (IF DeletesRecord(t, T, U) THEN 1 ELSE 0)
          PROVE  p \in allocated /\ pages[p].num < Capacity
      <3>1. pages[p].num \in Int /\ Capacity \in Int
        BY <1>3, <1>7, RecordFileAssumption DEF TypeOK, Page
      <3>2. CASE p # q[1]
        BY <1>5, <1>7, <2>3, <3>2
      <3>3. CASE p = q[1] /\ DeletesRecord(t, T, U)
        <4>1. U.pc = "del_share" /\ U.rid = T.rid /\ T.pc = "del_latch"
          BY <3>3 DEF DeletesRecord, KeepPlace
        <4>2. q = T.rid
          BY <2>3, <4>1 DEF Rewrites, Puts, MarksRecord, VisitsRecord
        <4> QED
          BY <1>6, <3>3, <4>1, <4>2
      <3>4. CASE p = q[1] /\ ~DeletesRecord(t, T, U)
        BY <1>5, <2>3, <3>1, <3>4
      <3> QED
        BY <3>2, <3>3, <3>4
    <2> QED
      BY <2>1, <2>2, <2>3, PagesAfter DEF IInv, ControlInv, RecordInv
  <1>9. p \notin free_pages /\ ~Bound(T, p)
    <2>1. CASE Picks(t, T, U)
      <3>1. T.pc \in {"ins_lock", "ins_latch"}
        BY <2>1 DEF Picks
      <3>2. T.pc = "ins_latch" => T.page # p
        BY <1>1, <1>3, <1>8, <2>1, RecordFileAssumption DEF Picks, TypeOK, Page, IInv, ControlInv, Phases
      <3> QED
        BY <1>6, <2>1, <3>1, <3>2 DEF Picks, Fresh
    <2>2. CASE InitsPage(t, T, U) \/ SharesPage(t, T, U) \/ SharesDeleted(t, T, U)
      BY <1>6, <2>2, SMTT(60) DEF InitsPage, SharesPage, SharesDeleted, Fresh, KeepPlace
    <2>3. CASE \/ Starts(t, T, U) \/ LatchesPage(t, T, U) \/ Allocates(t, T, U) \/ Puts(t, T, U)
               \/ InsertEnds(t, T, U) \/ DeletesRecord(t, T, U) \/ ScanMoves(t, T, U)
               \/ MarksRecord(t, T, U) \/ LeavesPage(t, T, U)
      BY <1>6, <2>3 DEF locks, Fresh, Starts, LatchesPage, Allocates, Puts, InsertEnds, DeletesRecord,
         ScanMoves,
         MarksRecord, LeavesPage
    <2>4. CASE \/ EntersPage(t, T, U) \/ Commits(t, T, U)
               \/ VisitsRecord(t, T, U, r) \/ PicksInsertion(t, T, U, r) \/ Finishes(t, T, U)
      BY <1>6, <2>4 DEF locks, Fresh, EntersPage, Commits, VisitsRecord, PicksInsertion, Finishes
    <2> QED
      BY <2>1, <2>2, <2>3, <2>4 DEF ThreadStep, Action
  <1> QED
    BY <1>1, <1>4, <1>5, <1>8, <1>9, SMTT(60)

\* How the record at x may change under a step: not at all, to nothing with its page new,
\* or as one write has it.
LEMMA RecordsAfter ==
  ASSUME IInv, NEW t \in Threads, NEW T, NEW U, NEW r, ThreadStep(t, T, U, r), NEW x \in RidT
  PROVE  \/ At(x)' = At(x)
         \/ x[1] = page_count /\ At(x)' = Empty /\ Allocates(t, T, U)
         \/ \E new \in Rec : At(x)' = new /\ Rewrites(t, T, U, r, x, new) /\ OwnMarksOnly(t, T, U, x, new)
  <1>1. x[1] \in PageNos /\ x[2] \in Slots /\ pages \in [PageNos -> Page]
    BY DEF RidT, IInv, ControlInv, TypeOK
  <1>2. CASE pages' = pages
    BY <1>2 DEF At
  <1>3. CASE Allocates(t, T, U)
    BY <1>1, <1>3 DEF Allocates, At, EmptyPage
  <1>4. ASSUME NEW q \in RidT, NEW new \in Rec, Rewrites(t, T, U, r, q, new), Writes(q, new)
        PROVE  \/ At(x)' = At(x)
               \/ At(x)' = new /\ Rewrites(t, T, U, r, x, new) /\ OwnMarksOnly(t, T, U, x, new)
    <2>1. OwnMarksOnly(t, T, U, q, new)
      BY <1>4, RewriteFacts
    <2>2. CASE x = q
      BY <1>4, <2>1, <2>2 DEF Writes
    <2>3. CASE x # q
      BY <1>4, <2>3 DEF Writes
    <2> QED
      BY <2>2, <2>3
  <1> QED
    BY <1>2, <1>3, <1>4, PagesAfter DEF IInv, ControlInv, RecordInv

\* Records keep the marks of one transaction.
LEMMA MarkStep ==
  ASSUME IInv, NEW t \in Threads, NEW T, NEW U, NEW r, ThreadStep(t, T, U, r)
  PROVE  Marks'
  <1>1. T \in Thread /\ U \in Thread /\ T = th[t] /\ th'[t] = U
    BY Moved DEF IInv, ControlInv
  <1>2. \A u \in Threads : u # t => th'[u] = th[u]
    BY Moved DEF IInv, ControlInv
  <1>3. Marks
    BY DEF IInv, RecordInv
  <1>4. ASSUME NEW x \in RidT
        PROVE  /\ At(x)' = Empty \/ (At(x)'.begin # 0 /\ At(x)'.end # 0)
               /\ At(x)'.begin < 0 => At(x)'.end \in {MaxTrxId, At(x)'.begin}
    <2>1. CASE At(x)' = At(x)
      BY <1>3, <2>1 DEF Marks
    <2>2. CASE At(x)' = Empty
      BY <2>2 DEF Empty
    <2>3. ASSUME NEW new \in Rec, At(x)' = new, new # Empty, OwnMarksOnly(t, T, U, x, new)
          PROVE  /\ new.begin # 0 /\ new.end # 0
                 /\ new.begin < 0 => new.end \in {MaxTrxId, new.begin}
      BY <2>3 DEF OwnMarksOnly
    <2> QED
      BY <2>1, <2>2, <2>3, RecordsAfter
  <1> DEFINE R(X) == X.pc \in InsertPcs \ {"ins_done"} => X.rec.begin = -X.tid /\ X.rec.end = MaxTrxId
  <1>5. \A u \in Threads : R(th[u])
    BY <1>3 DEF Marks
  <1>6. SUFFICES R(U)
    BY <1>1, <1>2, <1>4, <1>5 DEF Marks
  <1>7. R(T)
    BY <1>1, <1>5
  <1>11. CASE Starts(t, T, U)
    BY <1>11, <1>7 DEF InsertPcs, KeepStmt, Starts
  <1>12. CASE Picks(t, T, U)
    BY <1>12, <1>7 DEF InsertPcs, KeepStmt, Picks
  <1>13. CASE LatchesPage(t, T, U)
    BY <1>13, <1>7 DEF InsertPcs, KeepStmt, LatchesPage
  <1>14. CASE Allocates(t, T, U)
    BY <1>14, <1>7 DEF InsertPcs, KeepStmt, Allocates
  <1>15. CASE InitsPage(t, T, U)
    BY <1>15, <1>7 DEF InsertPcs, KeepStmt, InitsPage
  <1>16. CASE SharesPage(t, T, U)
    BY <1>16, <1>7 DEF InsertPcs, KeepStmt, SharesPage
  <1>17. CASE Puts(t, T, U)
    BY <1>17, <1>7 DEF InsertPcs, KeepStmt, Puts
  <1>18. CASE InsertEnds(t, T, U)
    BY <1>18, <1>7 DEF InsertPcs, KeepStmt, InsertEnds
  <1>19. CASE DeletesRecord(t, T, U)
    BY <1>19, <1>7 DEF InsertPcs, KeepStmt, DeletesRecord
  <1>20. CASE SharesDeleted(t, T, U)
    BY <1>20, <1>7 DEF InsertPcs, KeepStmt, SharesDeleted
  <1>21. CASE ScanMoves(t, T, U)
    BY <1>21, <1>7, SMTT(60) DEF InsertPcs, KeepStmt, ScanMoves, ScanPlace
  <1>22. CASE MarksRecord(t, T, U)
    BY <1>22, <1>7 DEF InsertPcs, KeepStmt, MarksRecord, ScanPlace
  <1>23. CASE LeavesPage(t, T, U)
    BY <1>23, <1>7 DEF InsertPcs, KeepStmt, LeavesPage, ScanPlace
  <1>24. CASE EntersPage(t, T, U)
    BY <1>24, <1>7 DEF InsertPcs, KeepStmt, EntersPage
  <1>25. CASE Commits(t, T, U)
    BY <1>25, <1>7 DEF InsertPcs, KeepStmt, Commits
  <1>26. CASE VisitsRecord(t, T, U, r)
    BY <1>26, <1>7 DEF InsertPcs, KeepStmt, VisitsRecord
  <1>27. CASE PicksInsertion(t, T, U, r)
    BY <1>27, <1>7 DEF InsertPcs, KeepStmt, PicksInsertion
  <1>28. CASE Finishes(t, T, U)
    BY <1>28, <1>7 DEF InsertPcs, KeepStmt, Finishes, Idle
  <1> QED
    BY <1>11, <1>12, <1>13, <1>14, <1>15, <1>16, <1>17, <1>18, <1>19, <1>20, <1>21, <1>22, <1>23, <1>24,
       <1>25, <1>26, <1>27, <1>28 DEF ThreadStep, Action

\* A thread's transaction is not another's.
LEMMA OtherTid ==
  ASSUME IInv, NEW t \in Threads, NEW T, NEW U, NEW r, ThreadStep(t, T, U, r), T.pc # "idle",
         NEW u \in Threads, u # t, th[u].pc # "idle"
  PROVE  th[u].tid \in Nat /\ th[u].tid > 0 /\ T.tid \in Nat /\ T.tid > 0 /\ th[u].tid # T.tid
  <1>1. T = th[t] /\ clock \in Nat
    BY DEF ThreadStep, IInv, ControlInv, TypeOK
  <1>2. th[u].tid \in 1..clock - 1 /\ T.tid \in 1..clock - 1 /\ th[u].tid # T.tid
    BY <1>1 DEF IInv, RecordInv, Tids
  <1> QED
    BY <1>1, <1>2

\* A record that is committed or a thread's own stays so while the thread scans or inserts.
LEMMA LiveKept ==
  ASSUME IInv, NEW t \in Threads, NEW T, NEW U, NEW r, ThreadStep(t, T, U, r),
         NEW u \in Threads, th'[u].pc \in ScanPcs \cup InsertPcs,
         NEW x \in RidT, x[1] < page_count, At(x).begin > 0 \/ At(x).begin = -th'[u].tid, th'[u].tid > 0
  PROVE  At(x)'.begin > 0 \/ At(x)'.begin = -th'[u].tid
  <1>1. T = th[t] /\ th'[t] = U /\ (u # t => th'[u] = th[u])
    BY Moved DEF IInv, ControlInv
  <1>2. page_count \in Nat /\ x[1] \in Nat /\ th'[u].tid \in Nat /\ At(x) \in Rec
    <2>1. x[1] \in PageNos /\ x[2] \in Slots /\ pages \in [PageNos -> Page] /\ page_count \in Nat
      BY DEF RidT, IInv, ControlInv, TypeOK
    <2>2. th'[u] \in Thread
      BY Moved DEF IInv, ControlInv
    <2> QED
      BY <2>1, <2>2 DEF PageNos, Thread, At, Page
  <1>3. ASSUME NEW new \in Rec, At(x)' = new, Rewrites(t, T, U, r, x, new), OwnMarksOnly(t, T, U, x, new)
        PROVE  new.begin > 0 \/ new.begin = -th'[u].tid
    <2>1. T.tid \in Nat /\ T.tid > 0 /\ U.tid = T.tid /\ T.pc # "idle"
      BY <1>3 DEF OwnMarksOnly
    <2>2. CASE u = t
      <3>1. new # Empty
        BY <1>1, <1>3, <2>2 DEF OwnMarksOnly, DeletesRecord, ScanPcs, InsertPcs
      <3> QED
        BY <1>1, <1>3, <2>1, <2>2, <3>1 DEF OwnMarksOnly
    <2>3. CASE u # t
      <3>1. th'[u] = th[u] /\ th[u].tid # T.tid
        BY <1>1, <2>1, <2>3, OtherTid DEF ScanPcs, InsertPcs
      <3>2. At(x).begin # -T.tid /\ At(x) # Empty
        BY <1>2, <2>1, <3>1 DEF Rec, Empty
      <3>3. new # Empty /\ new.begin = At(x).begin
        BY <1>3, <3>2 DEF OwnMarksOnly
      <3> QED
        BY <3>3
    <2> QED
      BY <2>2, <2>3
  <1> QED
    BY <1>2, <1>3, RecordsAfter

\* A slot in use under a scan's latch stays in use.
LEMMA SlotKept ==
  ASSUME IInv, NEW t \in Threads, NEW T, NEW U, NEW r, ThreadStep(t, T, U, r),
         NEW u \in Threads, NEW x \in RidT, th[u].scan_page = x[1], th'[u].pc \in GoingPcs, At(x) # Empty
  PROVE  At(x)' # Empty
  <1>1. T = th[t] /\ page_count \in Nat /\ x[1] \in PageNos /\ x[1] < page_count /\ NoPage \notin PageNos
    BY DEF ThreadStep, IInv, ControlInv, TypeOK, RidT, Scanned, NoPage, PageNos
  <1>2. ASSUME DeletesRecord(t, T, U), x = T.rid PROVE FALSE
    <2>1. T.pc = "del_latch" /\ CanWrite(t, x[1])
      BY <1>2 DEF DeletesRecord
    <2>2. u # t
      BY <1>2, Moved DEF DeletesRecord, IInv, ControlInv, GoingPcs, ScanPcs, InsertPcs
    <2>3. LatchOf(latch[x[1]], th, x[1])
      BY <1>1 DEF IInv, ControlInv, Latches
    <2>4. Depth(th[u], x[1]) # 0 \/ Reads(th[u], x[1])
      BY DEF Depth, ScanDepth, InsertDepth, Reads
    <2>5. latch[x[1]].owner = u \/ u \in latch[x[1]].readers
      BY <2>3, <2>4 DEF LatchOf
    <2> QED
      BY <2>1, <2>2, <2>3, <2>5, RecordFileAssumption DEF LatchOf, CanWrite
  <1>3. ASSUME NEW new \in Rec, Rewrites(t, T, U, r, x, new), OwnMarksOnly(t, T, U, x, new) PROVE new # Empty
    <2>1. new = Empty => DeletesRecord(t, T, U)
      BY <1>3 DEF OwnMarksOnly
    <2>2. DeletesRecord(t, T, U) => x = T.rid
      BY <1>3 DEF Rewrites, DeletesRecord, Puts, MarksRecord, VisitsRecord
    <2> QED
      BY <1>2, <2>1, <2>2
  <1> QED
    BY <1>1, <1>3, RecordsAfter

\* What a scan has fetched stays where it is.
LEMMA HandStep ==
  ASSUME IInv, NEW t \in Threads, NEW T, NEW U, NEW r, ThreadStep(t, T, U, r)
  PROVE  InHand'
  <1>1. T \in Thread /\ U \in Thread /\ T = th[t] /\ th'[t] = U /\ th' \in [Threads -> Thread]
    BY Moved DEF IInv, ControlInv
  <1>2. \A u \in Threads : u # t => th'[u] = th[u]
    BY Moved DEF IInv, ControlInv
  <1>3. InHand /\ TypeOK /\ Phases
    BY DEF IInv, RecordInv, ControlInv
  <1>4. page_count \in Nat /\ page_count' \in Nat /\ page_count <= page_count'
    <2>1. page_count \in Nat
      BY <1>3 DEF TypeOK
    <2>2. page_count' \in {page_count, page_count + 1}
      BY PagesAfter DEF IInv, ControlInv, RecordInv, Allocates
    <2> QED
      BY <2>1, <2>2
  <1> DEFINE L(X, y) == y # NoRec => /\ y.rid[1] < page_count'
                                     /\ \/ pages'[y.rid[1]].slots[y.rid[2]].begin > 0
                                        \/ pages'[y.rid[1]].slots[y.rid[2]].begin = -X.tid
             S(X) == X.pc \in GoingPcs /\ X.scan_page # NoPage /\ X.slot # NoSlot => pages'[X.scan_page].slots[X.slot] # Empty
             Moving(X) == X.pc \in GoingPcs
             Held(X) == (Moving(X) => Live(X, X.cur) /\ Live(X, X.next))
             Looked(X) == X.pc \in GoingPcs /\ X.scan_page # NoPage /\ X.slot # NoSlot => At(<<X.scan_page, X.slot>>) # Empty
  <1>5. \A u \in Threads : Held(th[u]) /\ Looked(th[u])
    BY <1>3, SMTT(60) DEF InHand
  <1>6. ASSUME Held(U), Looked(U), U.scan_page \in {NoPage, T.scan_page} \/ pages' = pages
        PROVE  InHand'
    <2>1. \A u \in Threads : Held(th'[u])
      BY <1>1, <1>2, <1>5, <1>6
    <2>2. ASSUME NEW u \in Threads, Moving(th'[u]), NEW y \in Fetched, Live(th'[u], y)
          PROVE  L(th'[u], y)
      <3>1. SUFFICES ASSUME y # NoRec PROVE L(th'[u], y)
        OBVIOUS
      <3>2. y.rid \in RidT /\ y.rid[1] \in Nat
        BY <3>1 DEF Fetched, RidT, PageNos
      <3>3. y.rid[1] < page_count /\ (At(y.rid).begin > 0 \/ At(y.rid).begin = -th'[u].tid)
        BY <2>2, <3>1 DEF Live
      <3>4. th'[u].tid > 0
        <4>1. Tids' /\ TypeOK'
          BY TidStep, TypeStep
        <4>2. th'[u].tid \in 1..clock' - 1 /\ clock' \in Nat
          BY <2>2, <4>1 DEF Tids, TypeOK, GoingPcs, ScanPcs, InsertPcs
        <4> QED
          BY <4>2
      <3>5. At(y.rid)'.begin > 0 \/ At(y.rid)'.begin = -th'[u].tid
        BY <2>2, <3>2, <3>3, <3>4, LiveKept DEF GoingPcs
      <3>6. At(y.rid)' = pages'[y.rid[1]].slots[y.rid[2]]
        BY DEF At
      <3> QED
        BY <1>4, <3>2, <3>3, <3>5, <3>6
    <2>3. \A u \in Threads : Moving(th'[u]) => L(th'[u], th'[u].cur) /\ L(th'[u], th'[u].next)
      <3> HIDE DEF L
      <3>1. \A u \in Threads : th'[u].cur \in Fetched /\ th'[u].next \in Fetched
        BY <1>1 DEF Thread
      <3> QED
        BY <2>1, <2>2, <3>1
    <2>4. ASSUME NEW u \in Threads PROVE S(th'[u])
      <3>1. SUFFICES ASSUME th'[u].pc \in GoingPcs, th'[u].scan_page # NoPage, th'[u].slot # NoSlot PROVE S(th'[u])
        OBVIOUS
      <3>2. th'[u].scan_page \in 0..MaxPage /\ th'[u].slot \in Slots
        BY <1>1, <3>1 DEF Thread
      <3>3. PICK x \in RidT : x = <<th'[u].scan_page, th'[u].slot>>
        <4>1. th'[u].scan_page \in PageNos
          BY <3>1, <3>2, RecordFileAssumption DEF PageNos, NoPage
        <4>2. <<th'[u].scan_page, th'[u].slot>> \in RidT
          BY <3>2, <4>1 DEF RidT
        <4> QED
          BY <4>2
      <3>4. Looked(th'[u]) /\ (th'[u].scan_page = th[u].scan_page \/ pages' = pages)
        BY <1>1, <1>2, <1>5, <1>6, <3>1
      <3>5. At(x) # Empty
        BY <3>1, <3>3, <3>4
      <3>6. At(x)' # Empty
        <4>1. CASE pages' = pages
          BY <3>5, <4>1 DEF At
        <4>2. CASE th'[u].scan_page = th[u].scan_page
          BY <3>1, <3>3, <3>5, <4>2, SlotKept
        <4> QED
          BY <3>4, <4>1, <4>2
      <3>7. At(x)' = pages'[x[1]].slots[x[2]]
        BY DEF At
      <3> QED
        BY <3>3, <3>6, <3>7
    <2> QED
      BY <2>3, <2>4 DEF InHand, Live, At
  <1>7. Held(T) /\ Looked(T) /\ Live(U, NoRec)
    BY <1>1, <1>5 DEF Live
  <1>8. T.scan_page # NoPage => T.pc \in ScanPcs \cup InsertPcs \cup DeletePcs /\ T.stmt \in Scans
    BY <1>1, <1>3 DEF Phases
  <1>11. CASE Starts(t, T, U)
    BY <1>11, <1>6, <1>7, <1>8 DEF GoingPcs, ScanPcs, InsertPcs, DeletePcs, KeepStmt, KeepScan, KeepPlace, Live, Starts, file
  <1>12. CASE Picks(t, T, U)
    BY <1>12, <1>6, <1>7, <1>8 DEF GoingPcs, ScanPcs, InsertPcs, DeletePcs, KeepStmt, KeepScan, KeepPlace, Live, Picks
  <1>13. CASE LatchesPage(t, T, U)
    BY <1>13, <1>6, <1>7, <1>8 DEF GoingPcs, ScanPcs, InsertPcs, DeletePcs, KeepStmt, KeepScan, KeepPlace, Live, LatchesPage
  <1>14. CASE Allocates(t, T, U)
    BY <1>14, <1>6, <1>7, <1>8 DEF GoingPcs, ScanPcs, InsertPcs, DeletePcs, KeepStmt, KeepScan, KeepPlace, Live, Allocates
  <1>15. CASE InitsPage(t, T, U)
    BY <1>15, <1>6, <1>7, <1>8 DEF GoingPcs, ScanPcs, InsertPcs, DeletePcs, KeepStmt, KeepScan, KeepPlace, Live, InitsPage
  <1>16. CASE SharesPage(t, T, U)
    BY <1>16, <1>6, <1>7, <1>8 DEF GoingPcs, ScanPcs, InsertPcs, DeletePcs, KeepStmt, KeepScan, KeepPlace, Live, SharesPage
  <1>17. CASE Puts(t, T, U)
    BY <1>17, <1>6, <1>7, <1>8 DEF GoingPcs, ScanPcs, InsertPcs, DeletePcs, KeepStmt, KeepScan, KeepPlace, Live, Puts
  <1>18. CASE InsertEnds(t, T, U)
    BY <1>18, <1>6, <1>7, <1>8 DEF GoingPcs, ScanPcs, InsertPcs, DeletePcs, KeepStmt, KeepScan, KeepPlace, Live, InsertEnds,
       Scans
  <1>19. CASE DeletesRecord(t, T, U)
    BY <1>19, <1>6, <1>7, <1>8 DEF GoingPcs, ScanPcs, InsertPcs, DeletePcs, KeepStmt, KeepScan, KeepPlace, Live, DeletesRecord
  <1>20. CASE SharesDeleted(t, T, U)
    BY <1>20, <1>6, <1>7, <1>8 DEF GoingPcs, ScanPcs, InsertPcs, DeletePcs, KeepStmt, KeepScan, KeepPlace, Live, SharesDeleted
  <1>21. CASE ScanMoves(t, T, U)
    BY <1>21, <1>6, <1>7, <1>8, SMTT(60) DEF GoingPcs, ScanPcs, InsertPcs, DeletePcs, KeepStmt, KeepScan, KeepPlace, Live, ScanMoves,
       ScanPlace, file
  <1>22. CASE MarksRecord(t, T, U)
    BY <1>22, <1>6, <1>7, <1>8 DEF GoingPcs, ScanPcs, InsertPcs, DeletePcs, KeepStmt, KeepScan, KeepPlace, Live, MarksRecord,
       ScanPlace
  <1>23. CASE LeavesPage(t, T, U)
    BY <1>23, <1>6, <1>7, <1>8 DEF GoingPcs, ScanPcs, InsertPcs, DeletePcs, KeepStmt, KeepScan, KeepPlace, Live, LeavesPage,
       ScanPlace, file
  <1>24. CASE EntersPage(t, T, U)
    BY <1>24, <1>6, <1>7, <1>8 DEF GoingPcs, ScanPcs, InsertPcs, DeletePcs, KeepStmt, KeepScan, KeepPlace, Live, EntersPage, file
  <1>25. CASE Commits(t, T, U)
    BY <1>25, <1>6, <1>7, <1>8 DEF GoingPcs, ScanPcs, InsertPcs, DeletePcs, KeepStmt, KeepScan, KeepPlace, Live, Commits
  <1>26. CASE VisitsRecord(t, T, U, r)
    BY <1>26, <1>6, <1>7, <1>8 DEF GoingPcs, ScanPcs, InsertPcs, DeletePcs, KeepStmt, KeepScan, KeepPlace, Live, VisitsRecord
  <1>27. CASE PicksInsertion(t, T, U, r)
    BY <1>27, <1>6, <1>7, <1>8 DEF GoingPcs, ScanPcs, InsertPcs, DeletePcs, KeepStmt, KeepScan, KeepPlace, Live, PicksInsertion
  <1>28. CASE Finishes(t, T, U)
    BY <1>28, <1>6, <1>7, <1>8 DEF GoingPcs, ScanPcs, InsertPcs, DeletePcs, KeepStmt, KeepScan, KeepPlace, Live, Finishes,
       Idle, file
  <1> QED
    BY <1>11, <1>12, <1>13, <1>14, <1>15, <1>16, <1>17, <1>18, <1>19, <1>20, <1>21, <1>22, <1>23, <1>24,
       <1>25, <1>26, <1>27, <1>28 DEF ThreadStep, Action

\* The marks of another transaction stay.
LEMMA OthersMarks ==
  ASSUME IInv, NEW t \in Threads, NEW T, NEW U, NEW r, ThreadStep(t, T, U, r),
         NEW u \in Threads, u # t, th[u].pc # "idle", NEW x \in RidT, -th[u].tid \in {At(x).begin, At(x).end}
  PROVE  /\ -th[u].tid \in {At(x)'.begin, At(x)'.end}
         /\ At(x).begin = -th[u].tid => At(x)'.begin = -th[u].tid
  <1>1. th[u].tid \in Nat /\ th[u].tid > 0 /\ At(x) \in Rec /\ page_count \in Nat
    <2>1. th[u].tid \in 1..clock - 1 /\ clock \in Nat
      BY DEF IInv, RecordInv, Tids, ControlInv, TypeOK
    <2>2. At(x) \in Rec /\ page_count \in Nat
      BY DEF IInv, ControlInv, TypeOK, RidT, At, Page
    <2> QED
      BY <2>1, <2>2
  <1>2. x[1] < page_count
    <2>1. At(x).begin < 0 \/ At(x).end < 0
      BY <1>1
    <2> QED
      BY <2>1 DEF IInv, PageInv, KnownPages, Known
  <1>3. x[1] # page_count
    BY <1>1, <1>2 DEF RidT, PageNos
  <1>4. At(x).begin < 0 => At(x).end \in {MaxTrxId, At(x).begin}
    BY DEF IInv, RecordInv, Marks
  <1>5. ASSUME NEW new \in Rec, At(x)' = new, OwnMarksOnly(t, T, U, x, new)
        PROVE  /\ -th[u].tid \in {new.begin, new.end}
               /\ At(x).begin = -th[u].tid => new.begin = -th[u].tid
    <2>1. T.pc # "idle" /\ T.tid \in Nat \ {0}
      BY <1>5 DEF OwnMarksOnly
    <2>2. th[u].tid # T.tid
      BY <2>1, OtherTid
    <2>3. CASE At(x).begin = -th[u].tid
      <3>1. At(x).begin # -T.tid /\ At(x) # Empty
        BY <1>1, <2>1, <2>2, <2>3 DEF Empty
      <3>2. new.begin = At(x).begin
        BY <1>5, <3>1 DEF OwnMarksOnly
      <3> QED
        BY <2>3, <3>2
    <2>4. CASE At(x).begin # -th[u].tid
      <3>1. At(x).end = -th[u].tid /\ At(x).end < 0 /\ At(x) # Empty
        BY <1>1, <2>4 DEF Empty
      <3>2. At(x).begin # -T.tid
        BY <1>1, <1>4, <2>1, <2>2, <3>1 DEF MaxTrxId, Rec
      <3>3. new.end = At(x).end
        BY <1>1, <1>5, <2>1, <2>2, <3>1, <3>2 DEF OwnMarksOnly, Rec
      <3> QED
        BY <2>4, <3>1, <3>3
    <2> QED
      BY <2>3, <2>4
  <1> QED
    BY <1>3, <1>5, RecordsAfter

\* A step of a thread leaves its own remaining marks alone.
LEMMA OwnKept ==
  ASSUME IInv, NEW t \in Threads, NEW T, NEW U, NEW r, ThreadStep(t, T, U, r), NEW x \in U.todo,
         T.pc # "idle", -T.tid \in {At(x).begin, At(x).end}
  PROVE  At(x)' = At(x)
  <1>1. x \in RidT /\ T = th[t]
    BY Moved DEF IInv, ControlInv, Thread
  <1>2. T.tid \in Nat /\ T.tid > 0 /\ At(x) \in Rec /\ page_count \in Nat
    <2>1. T.tid \in 1..clock - 1 /\ clock \in Nat
      BY <1>1 DEF IInv, RecordInv, Tids, ControlInv, TypeOK
    <2>2. At(x) \in Rec /\ page_count \in Nat
      BY <1>1 DEF IInv, ControlInv, TypeOK, RidT, At, Page
    <2> QED
      BY <2>1, <2>2
  <1>3. x[1] < page_count
    <2>1. At(x).begin < 0 \/ At(x).end < 0
      BY <1>2
    <2> QED
      BY <1>1, <2>1 DEF IInv, PageInv, KnownPages, Known
  <1>4. x[1] # page_count
    BY <1>1, <1>2, <1>3 DEF RidT, PageNos
  <1>5. \A new : ~OwnMarksOnly(t, T, U, x, new)
    BY DEF OwnMarksOnly
  <1> QED
    BY <1>1, <1>4, <1>5, RecordsAfter

\* What a transaction has left to end carries its mark.
LEMMA TodoStep ==
  ASSUME IInv, NEW t \in Threads, NEW T, NEW U, NEW r, ThreadStep(t, T, U, r)
  PROVE  Todo'
  <1>1. T \in Thread /\ U \in Thread /\ T = th[t] /\ th'[t] = U
    BY Moved DEF IInv, ControlInv
  <1>2. \A u \in Threads : u # t => th'[u] = th[u]
    BY Moved DEF IInv, ControlInv
  <1>3. Todo /\ Phases /\ TypeOK
    BY DEF IInv, RecordInv, ControlInv
  <1>4. ASSUME U.tid = T.tid, T.pc # "idle", \A x \in U.todo : -T.tid \in {At(x).begin, At(x).end} PROVE Todo'
    <2>1. ASSUME NEW u \in Threads, NEW x \in th'[u].todo PROVE -th'[u].tid \in {At(x)'.begin, At(x)'.end}
      <3>1. CASE u = t
        BY <1>1, <1>4, <2>1, <3>1, OwnKept
      <3>2. CASE u # t
        <4>1. x \in th[u].todo /\ th'[u] = th[u] /\ x \in RidT /\ th[u].pc # "idle"
          BY <1>2, <1>3, <2>1, <3>2 DEF TypeOK, Thread, Phases, EndPcs
        <4>2. -th[u].tid \in {At(x).begin, At(x).end}
          BY <1>3, <4>1 DEF Todo
        <4> QED
          BY <3>2, <4>1, <4>2, OthersMarks
      <3> QED
        BY <3>1, <3>2
    <2> QED
      BY <2>1 DEF Todo
  <1>5. (T.todo # {} => T.pc \in EndPcs) /\ \A x \in T.todo : -T.tid \in {At(x).begin, At(x).end}
    BY <1>1, <1>3 DEF Todo, Phases
  <1>6. ASSUME U.todo = {} PROVE Todo'
    <2>1. ASSUME NEW u \in Threads, NEW x \in th'[u].todo PROVE -th'[u].tid \in {At(x)'.begin, At(x)'.end}
      <3>1. u # t
        BY <1>1, <1>6, <2>1
      <3>2. x \in th[u].todo /\ th'[u] = th[u] /\ x \in RidT /\ th[u].pc # "idle"
        BY <1>2, <1>3, <2>1, <3>1 DEF TypeOK, Thread, Phases, EndPcs
      <3>3. -th[u].tid \in {At(x).begin, At(x).end}
        BY <1>3, <3>2 DEF Todo
      <3> QED
        BY <3>1, <3>2, <3>3, OthersMarks
    <2> QED
      BY <2>1 DEF Todo
  <1>11. CASE Starts(t, T, U)
    BY <1>11, <1>1, <1>4, <1>5, <1>6 DEF EndPcs, KeepStmt, Starts
  <1>12. CASE Picks(t, T, U)
    BY <1>12, <1>1, <1>4, <1>5, <1>6 DEF EndPcs, KeepStmt, Picks
  <1>13. CASE LatchesPage(t, T, U)
    BY <1>13, <1>1, <1>4, <1>5, <1>6 DEF EndPcs, KeepStmt, LatchesPage
  <1>14. CASE Allocates(t, T, U)
    BY <1>14, <1>1, <1>4, <1>5, <1>6 DEF EndPcs, KeepStmt, Allocates
  <1>15. CASE InitsPage(t, T, U)
    BY <1>15, <1>1, <1>4, <1>5, <1>6 DEF EndPcs, KeepStmt, InitsPage
  <1>16. CASE SharesPage(t, T, U)
    BY <1>16, <1>1, <1>4, <1>5, <1>6 DEF EndPcs, KeepStmt, SharesPage
  <1>17. CASE Puts(t, T, U)
    BY <1>17, <1>1, <1>4, <1>5, <1>6 DEF EndPcs, KeepStmt, Puts
  <1>18. CASE InsertEnds(t, T, U)
    BY <1>18, <1>1, <1>4, <1>5, <1>6 DEF EndPcs, KeepStmt, InsertEnds
  <1>19. CASE DeletesRecord(t, T, U)
    BY <1>19, <1>1, <1>4, <1>5, <1>6 DEF EndPcs, KeepStmt, DeletesRecord
  <1>20. CASE SharesDeleted(t, T, U)
    BY <1>20, <1>1, <1>4, <1>5, <1>6 DEF EndPcs, KeepStmt, SharesDeleted
  <1>21. CASE ScanMoves(t, T, U)
    BY <1>21, <1>1, <1>4, <1>5, <1>6, SMTT(60) DEF EndPcs, KeepStmt, ScanMoves
  <1>22. CASE MarksRecord(t, T, U)
    BY <1>22, <1>1, <1>4, <1>5, <1>6 DEF EndPcs, KeepStmt, MarksRecord
  <1>23. CASE LeavesPage(t, T, U)
    BY <1>23, <1>1, <1>4, <1>5, <1>6 DEF EndPcs, KeepStmt, LeavesPage, Mine
  <1>24. CASE EntersPage(t, T, U)
    BY <1>24, <1>1, <1>4, <1>5, <1>6 DEF EndPcs, KeepStmt, EntersPage
  <1>25. CASE Commits(t, T, U)
    BY <1>25, <1>1, <1>4, <1>5, <1>6 DEF EndPcs, KeepStmt, Commits, Mine
  <1>26. CASE VisitsRecord(t, T, U, r)
    BY <1>26, <1>1, <1>4, <1>5, <1>6 DEF EndPcs, KeepStmt, VisitsRecord
  <1>27. CASE PicksInsertion(t, T, U, r)
    BY <1>27, <1>1, <1>4, <1>5, <1>6 DEF EndPcs, KeepStmt, PicksInsertion
  <1>28. CASE Finishes(t, T, U)
    BY <1>28, <1>1, <1>4, <1>5, <1>6, SMTT(60) DEF EndPcs, KeepStmt, Finishes, Idle
  <1> QED
    BY <1>11, <1>12, <1>13, <1>14, <1>15, <1>16, <1>17, <1>18, <1>19, <1>20, <1>21, <1>22, <1>23, <1>24,
       <1>25, <1>26, <1>27, <1>28 DEF ThreadStep, Action

\* An insertion that is under way carries its transaction's mark.
LEMMA OwnStep ==
  ASSUME IInv, NEW t \in Threads, NEW T, NEW U, NEW r, ThreadStep(t, T, U, r)
  PROVE  Own'
  <1>1. T \in Thread /\ U \in Thread /\ T = th[t] /\ th'[t] = U
    BY Moved DEF IInv, ControlInv
  <1>2. \A u \in Threads : u # t => th'[u] = th[u]
    BY Moved DEF IInv, ControlInv
  <1>3. Own /\ Phases /\ TypeOK
    BY DEF IInv, RecordInv, ControlInv
  <1> DEFINE O(X) == /\ X.pc \in {"ins_done", "del_latch"} => pages'[X.rid[1]].slots[X.rid[2]].begin = -X.tid
                     /\ X.pc = "del_latch" => X.rid \notin X.todo
  <1>4. ASSUME NEW u \in Threads, u # t PROVE O(th'[u])
    <2>1. SUFFICES ASSUME th[u].pc \in {"ins_done", "del_latch"} PROVE O(th[u])
      BY <1>2, <1>4
    <2>2. PICK x \in RidT : x = th[u].rid
      BY <1>3, <2>1 DEF Phases
    <2>3. At(x).begin = -th[u].tid
      BY <1>3, <2>1, <2>2 DEF Own
    <2>4. At(x)'.begin = -th[u].tid
      BY <1>4, <2>1, <2>3, OthersMarks
    <2>5. At(x)' = pages'[x[1]].slots[x[2]]
      BY DEF At
    <2> QED
      BY <1>3, <2>1, <2>2, <2>4, <2>5 DEF Own
  <1>5. SUFFICES O(U)
    <2> HIDE DEF O
    <2>1. \A u \in Threads : O(th'[u])
      BY <1>1, <1>4, <1>5
    <2> USE DEF O
    <2> QED
      BY <2>1 DEF Own, At
  <1>6. T.pc = "ins_done" => T.todo = {} /\ pages[T.rid[1]].slots[T.rid[2]].begin = -T.tid
    BY <1>1, <1>3 DEF Own, At, Phases, EndPcs
  <1>11. CASE Starts(t, T, U)
    BY <1>11, <1>6 DEF KeepStmt, KeepPlace, Starts
  <1>12. CASE Picks(t, T, U)
    BY <1>12, <1>6 DEF KeepStmt, KeepPlace, Picks
  <1>13. CASE LatchesPage(t, T, U)
    BY <1>13, <1>6 DEF KeepStmt, KeepPlace, LatchesPage
  <1>14. CASE Allocates(t, T, U)
    BY <1>14, <1>6 DEF KeepStmt, KeepPlace, Allocates
  <1>15. CASE InitsPage(t, T, U)
    BY <1>15, <1>6 DEF KeepStmt, KeepPlace, InitsPage
  <1>16. CASE SharesPage(t, T, U)
    BY <1>16, <1>6 DEF KeepStmt, KeepPlace, SharesPage
  <1>17. CASE Puts(t, T, U)
    <2>1. U.pc = "ins_done" /\ U.rid \in RidT /\ U.tid = T.tid /\ T.rec.begin = -T.tid
      BY <1>17, <1>1 DEF Puts, KeepStmt, IInv, RecordInv, Marks, InsertPcs
    <2>2. pages'[U.rid[1]].slots[U.rid[2]] = T.rec
      BY <1>17, <1>3, <2>1 DEF Puts, RidT, TypeOK, Page
    <2> QED
      BY <2>1, <2>2
  <1>18. CASE InsertEnds(t, T, U)
    BY <1>18, <1>6 DEF KeepStmt, KeepPlace, InsertEnds, file
  <1>19. CASE DeletesRecord(t, T, U)
    BY <1>19, <1>6 DEF KeepStmt, KeepPlace, DeletesRecord
  <1>20. CASE SharesDeleted(t, T, U)
    BY <1>20, <1>6 DEF KeepStmt, KeepPlace, SharesDeleted
  <1>21. CASE ScanMoves(t, T, U)
    BY <1>21, <1>6, SMTT(60) DEF KeepStmt, KeepPlace, ScanMoves, ScanPlace
  <1>22. CASE MarksRecord(t, T, U)
    BY <1>22, <1>6 DEF KeepStmt, KeepPlace, MarksRecord, ScanPlace
  <1>23. CASE LeavesPage(t, T, U)
    BY <1>23, <1>6 DEF KeepStmt, KeepPlace, LeavesPage, ScanPlace
  <1>24. CASE EntersPage(t, T, U)
    BY <1>24, <1>6 DEF KeepStmt, KeepPlace, EntersPage
  <1>25. CASE Commits(t, T, U)
    BY <1>25, <1>6 DEF KeepStmt, KeepPlace, Commits
  <1>26. CASE VisitsRecord(t, T, U, r)
    BY <1>26, <1>6 DEF KeepStmt, KeepPlace, VisitsRecord
  <1>27. CASE PicksInsertion(t, T, U, r)
    BY <1>27, <1>6 DEF KeepStmt, KeepPlace, PicksInsertion, file, At
  <1>28. CASE Finishes(t, T, U)
    BY <1>28, <1>6 DEF KeepStmt, KeepPlace, Finishes, Idle
  <1> QED
    BY <1>11, <1>12, <1>13, <1>14, <1>15, <1>16, <1>17, <1>18, <1>19, <1>20, <1>21, <1>22, <1>23, <1>24,
       <1>25, <1>26, <1>27, <1>28 DEF ThreadStep, Action

\* What a write does to a page's record count and to its bitmap.
LEMMA CountAfter ==
  ASSUME IInv, NEW t \in Threads, NEW T, NEW U, NEW r, ThreadStep(t, T, U, r),
         NEW q \in RidT, NEW new \in Rec, Rewrites(t, T, U, r, q, new), Writes(q, new),
         pages'[q[1]].num = pages[q[1]].num + (IF Puts(t, T, U) THEN 1 ELSE 0)
                                            - (IF DeletesRecord(t, T, U) THEN 1 ELSE 0)
  PROVE  pages'[q[1]].num = Cardinality(Set(pages'[q[1]]))
  <1>1. OwnMarksOnly(t, T, U, q, new)
    BY RewriteFacts
  <1>2. q[1] \in PageNos /\ q[2] \in Slots
    BY DEF RidT
  <1>3. PICK S : S = Set(pages[q[1]])
    OBVIOUS
  <1>4. q[2] \in S <=> At(q) # Empty
    BY <1>2, <1>3 DEF Set, At
  <1>5. IsFiniteSet(S)
    <2>1. IsFiniteSet(Slots)
      BY FS_Interval, RecordFileAssumption DEF Slots
    <2> QED
      BY <1>3, <2>1, FS_Subset DEF Set
  <1>6. Cardinality(S) \in Nat /\ pages[q[1]].num = Cardinality(S)
    BY <1>2, <1>3, <1>5, FS_CardinalityType DEF IInv, RecordInv, Counted
  <1>7. PICK S2 : S2 = Set(pages'[q[1]])
    OBVIOUS
  <1>8. new # Empty => S2 = S \cup {q[2]}
    BY <1>3, <1>7, SetAfter DEF Set
  <1>9. new = Empty => S2 = S \ {q[2]}
    BY <1>3, <1>7, SetAfter DEF Set
  <1>10. Puts(t, T, U) => ~DeletesRecord(t, T, U)
    BY DEF Puts, DeletesRecord
  <1>11. Puts(t, T, U) => At(q) = Empty /\ new # Empty
    <2>1. Puts(t, T, U) => q = U.rid
      BY DEF Puts, Rewrites, DeletesRecord, MarksRecord, VisitsRecord
    <2> QED
      BY <1>1, <1>10, <2>1 DEF OwnMarksOnly, Puts
  <1>12. DeletesRecord(t, T, U) => new = Empty
    BY DEF Puts, Rewrites, DeletesRecord, MarksRecord, VisitsRecord
  <1>13. CASE new = Empty
    <2>1. DeletesRecord(t, T, U) /\ At(q).begin = -T.tid /\ T.tid \in Nat \ {0}
      BY <1>1, <1>13 DEF OwnMarksOnly
    <2>2. At(q) # Empty
      BY <2>1 DEF Empty
    <2>3. Cardinality(S2) = Cardinality(S) - 1
      BY <1>4, <1>5, <1>9, <1>13, <2>2, FS_RemoveElement
    <2> QED
      BY <1>6, <1>7, <1>11, <1>13, <2>1, <2>3
  <1>14. CASE new # Empty /\ At(q) = Empty
    <2>1. Puts(t, T, U)
      BY <1>1, <1>14 DEF OwnMarksOnly
    <2>2. Cardinality(S2) = Cardinality(S) + 1
      BY <1>4, <1>5, <1>8, <1>14, FS_AddElement
    <2> QED
      BY <1>6, <1>7, <1>10, <2>1, <2>2
  <1>15. CASE new # Empty /\ At(q) # Empty
    <2>1. S2 = S
      BY <1>4, <1>8, <1>15
    <2> QED
      BY <1>6, <1>7, <1>11, <1>12, <1>15, <2>1
  <1> QED
    BY <1>13, <1>14, <1>15

\* Record counts stay exact, and a page chosen for an insertion keeps room.
LEMMA CountStep ==
  ASSUME IInv, NEW t \in Threads, NEW T, NEW U, NEW r, ThreadStep(t, T, U, r)
  PROVE  Counted'
  <1>1. T \in Thread /\ U \in Thread /\ T = th[t] /\ th'[t] = U
    BY Moved DEF IInv, ControlInv
  <1>2. \A u \in Threads : u # t => th'[u] = th[u]
    BY Moved DEF IInv, ControlInv
  <1>3. Counted /\ Phases /\ TypeOK
    BY DEF IInv, RecordInv, ControlInv
  <1>4. \A p \in PageNos : pages[p].num \in Int /\ Capacity \in Int /\ Capacity > 0
    BY <1>3, RecordFileAssumption DEF TypeOK, Page
  <1>5. Cardinality(Set(EmptyPage)) = 0 /\ EmptyPage.num = 0
    <2>1. Set(EmptyPage) = {}
      BY DEF Set, EmptyPage
    <2> QED
      BY <2>1, FS_EmptySet DEF EmptyPage
  <1>6. ASSUME \A p \in PageNos : pages'[p].num = Cardinality(Set(pages'[p])),
               \A u \in Threads : u # t /\ th[u].pc = "ins_put" => pages'[th[u].page].num < Capacity,
               U.pc = "ins_put" => pages'[U.page].num < Capacity
        PROVE  Counted'
    <2>1. \A u \in Threads : th'[u].pc = "ins_put" => pages'[th'[u].page].num < Capacity
      BY <1>1, <1>2, <1>6
    <2> QED
      BY <1>6, <2>1 DEF Counted
  <1>7. \A u \in Threads : th[u].pc = "ins_put" => th[u].page \in PageNos /\ pages[th[u].page].num < Capacity
    BY <1>3 DEF Counted, Phases
  <1>8. CASE Quiet(t, T, U, r) /\ pages' = pages
    <2>1. U.pc = "ins_put" => pages[U.page].num < Capacity
      <3>1. CASE LatchesPage(t, T, U)
        BY <3>1 DEF LatchesPage, KeepPlace
      <3>2. CASE SharesPage(t, T, U)
        <4>1. Fresh(th[t], T.page) /\ T.page \in PageNos
          BY <1>1, <1>3, <3>2 DEF Fresh, SharesPage, Phases
        <4>2. pages[T.page] = EmptyPage
          BY <4>1 DEF IInv, PageInv, FreshPages
        <4> QED
          BY <1>4, <1>5, <3>2, <4>1, <4>2 DEF SharesPage, KeepPlace
      <3>3. CASE \/ Starts(t, T, U) \/ Picks(t, T, U) \/ InitsPage(t, T, U) \/ InsertEnds(t, T, U)
                 \/ SharesDeleted(t, T, U) \/ ScanMoves(t, T, U) \/ LeavesPage(t, T, U)
        BY <3>3 DEF Starts, Picks, InitsPage, InsertEnds, SharesDeleted, ScanMoves, LeavesPage, ScanPlace
      <3>4. CASE \/ EntersPage(t, T, U) \/ Commits(t, T, U) \/ PicksInsertion(t, T, U, r) \/ Finishes(t, T, U)
        BY <3>4 DEF EntersPage, Commits, PicksInsertion, Finishes, Idle
      <3> QED
        BY <1>8, <3>1, <3>2, <3>3, <3>4 DEF Quiet
    <2> QED
      BY <1>3, <1>6, <1>7, <1>8, <2>1 DEF Counted
  <1>9. CASE Allocates(t, T, U)
    <2>1. pages' = [pages EXCEPT ![page_count] = EmptyPage] /\ U.pc = "ins_init" /\ pages \in [PageNos -> Page]
      BY <1>3, <1>9 DEF Allocates, TypeOK
    <2>2. \A p \in PageNos : pages'[p] = IF p = page_count THEN EmptyPage ELSE pages[p]
      BY <2>1
    <2>3. \A p \in PageNos : pages'[p].num = Cardinality(Set(pages'[p]))
      BY <1>3, <1>5, <2>2 DEF Counted
    <2>4. \A u \in Threads : u # t /\ th[u].pc = "ins_put" => pages'[th[u].page].num < Capacity
      BY <1>4, <1>5, <1>7, <2>2
    <2> QED
      BY <1>6, <2>1, <2>3, <2>4
  <1>10. ASSUME NEW q \in RidT, NEW new \in Rec, Rewrites(t, T, U, r, q, new), Writes(q, new),
                \A y \in PageNos : y # q[1] => pages'[y] = pages[y],
                pages'[q[1]].num = pages[q[1]].num + (IF Puts(t, T, U) THEN 1 ELSE 0)
                                                   - (IF DeletesRecord(t, T, U) THEN 1 ELSE 0)
         PROVE  Counted'
    <2>1. pages'[q[1]].num = Cardinality(Set(pages'[q[1]]))
      BY <1>10, CountAfter
    <2>2. \A p \in PageNos : pages'[p].num = Cardinality(Set(pages'[p]))
      BY <1>3, <1>10, <2>1, SMTT(60) DEF Counted
    <2>3. U.pc # "ins_put"
      BY <1>10 DEF Rewrites, Puts, DeletesRecord, MarksRecord, VisitsRecord, ScanPlace
    <2>4. ASSUME NEW u \in Threads, u # t, th[u].pc = "ins_put" PROVE pages'[th[u].page].num < Capacity
      <3>1. th[u].page \in PageNos /\ pages[th[u].page].num < Capacity
        BY <1>7, <2>4
      <3>2. CASE th[u].page # q[1]
        BY <1>10, <3>1, <3>2
      <3>3. CASE th[u].page = q[1]
        <4>1. ~Puts(t, T, U)
          <5>1. SUFFICES ASSUME Puts(t, T, U) PROVE FALSE
            OBVIOUS
          <5>2. q = U.rid
            BY <1>10, <5>1 DEF Rewrites, Puts, DeletesRecord, MarksRecord, VisitsRecord
          <5>3. T.pc = "ins_put" /\ T.page = q[1]
            BY <5>1, <5>2 DEF Puts
          <5>4. LatchOf(latch[q[1]], th, q[1])
            BY <3>1, <3>3 DEF IInv, ControlInv, Latches
          <5>5. Depth(th[u], q[1]) # 0 /\ Depth(th[t], q[1]) # 0
            BY <1>1, <2>4, <3>3, <5>3 DEF Depth, ScanDepth, InsertDepth
          <5>6. latch[q[1]].owner = u /\ latch[q[1]].owner = t
            BY <5>4, <5>5 DEF LatchOf
          <5> QED
            BY <2>4, <5>6
        <4> QED
          BY <1>4, <1>10, <3>1, <3>3, <4>1
      <3> QED
        BY <3>2, <3>3
    <2> QED
      BY <1>6, <2>2, <2>3, <2>4
  <1> QED
    BY <1>8, <1>9, <1>10, PagesAfter DEF IInv, ControlInv, RecordInv

-----------------------------------------------------------------------------
(* Recovery, the initial state, and the invariant.                         *)

\* Every thread is between statements.
AllIdle == \A u \in Threads : th[u] = Idle

\* Where no thread runs, what the invariant says of threads holds.
LEMMA IdleInv ==
  ASSUME TypeOK, AllIdle, lock = Nobody, latch = [p \in PageNos |-> NoLatch]
  PROVE  /\ Phases /\ Scanned /\ Latches /\ LockHeld /\ FreshPages /\ Tids /\ InHand /\ Todo /\ Own
         /\ \A p : p < page_count => Known(p)
  <1> USE DEF AllIdle
  <1>0. \A u \in Threads : th[u].pc = "idle" /\ th[u].scan_page = NoPage /\ th[u].todo = {}
    BY DEF Idle
  <1>1. Phases
    BY <1>0 DEF Phases, InsertPcs, ScanPcs, EndPcs, DeletePcs
  <1>2. Scanned
    BY DEF Scanned, Idle, TypeOK, NoPage
  <1>3. Latches
    <2>1. ASSUME NEW p \in PageNos PROVE LatchOf(latch[p], th, p)
      <3>1. latch[p] = NoLatch /\ p # NoPage
        BY DEF NoPage, PageNos
      <3>2. \A u \in Threads : Depth(th[u], p) = 0 /\ ~Reads(th[u], p)
        BY <3>1 DEF Depth, ScanDepth, InsertDepth, Reads, Idle
      <3> QED
        BY <3>1, <3>2, RecordFileAssumption DEF LatchOf, NoLatch
    <2> QED
      BY <2>1 DEF Latches
  <1>4. LockHeld
    BY RecordFileAssumption DEF LockHeld, Idle
  <1>5. \A u \in Threads : \A p : ~Fresh(th[u], p)
    BY DEF Fresh, Idle
  <1>6. FreshPages /\ \A p : p < page_count => Known(p)
    BY <1>5 DEF FreshPages, Known
  <1>7. Tids
    BY DEF Tids, Idle
  <1>8. InHand
    BY DEF InHand, Idle, GoingPcs, ScanPcs, InsertPcs
  <1>9. Todo /\ Own
    BY DEF Todo, Own, Idle
  <1> QED
    BY <1>1, <1>2, <1>3, <1>4, <1>6, <1>7, <1>8, <1>9

\* While the log is recovered nobody has anything.
LEMMA NothingHeld ==
  ASSUME ControlInv, redo # <<>>
  PROVE  AllIdle /\ lock = Nobody /\ \A p \in PageNos : latch[p] = NoLatch
  <1>1. AllIdle
    BY DEF AllIdle, ControlInv, Phases
  <1>2. lock = Nobody
    BY <1>1 DEF AllIdle, Idle, ControlInv, LockHeld, TypeOK
  <1>3. ASSUME NEW p \in PageNos PROVE latch[p] = NoLatch
    <2>1. p # NoPage /\ LatchOf(latch[p], th, p) /\ latch[p] \in LatchT
      <3>1. p # NoPage
        BY DEF NoPage, PageNos
      <3>2. LatchOf(latch[p], th, p)
        BY DEF ControlInv, Latches
      <3>3. latch[p] \in LatchT
        BY DEF ControlInv, TypeOK, LatchT
      <3> QED
        BY <3>1, <3>2, <3>3
    <2>2. \A u \in Threads : Depth(th[u], p) = 0 /\ ~Reads(th[u], p)
      BY <1>1, <2>1 DEF AllIdle, Depth, ScanDepth, InsertDepth, Reads, Idle
    <2>3. latch[p].readers = {}
      BY <2>1, <2>2 DEF LatchOf
    <2>4. latch[p].owner = Nobody /\ latch[p].depth = 0
      BY <2>1, <2>2 DEF LatchOf, LatchT
    <2> QED
      BY <2>1, <2>3, <2>4 DEF LatchT, NoLatch
  <1> QED
    BY <1>1, <1>2, <1>3

\* No thread runs, and the pages are as the invariant wants them.
IdlePages ==
  /\ TypeOK /\ AllIdle /\ lock = Nobody /\ latch = [p \in PageNos |-> NoLatch]
  /\ \A p \in free_pages : p < page_count
  /\ \A x \in RidT : /\ At(x) = Empty \/ (At(x).begin # 0 /\ At(x).end # 0)
                     /\ At(x).begin < 0 => At(x).end \in {MaxTrxId, At(x).begin}
                     /\ At(x).begin < 0 \/ At(x).end < 0 => x[1] < page_count
  /\ \A p \in PageNos : pages[p].num = Cardinality(Set(pages[p]))
  /\ PagesCounted
  /\ \A p \in allocated \ recovered : pages[p].num < Capacity => p \in free_pages

\* A state without a running thread is fine if its pages are.
LEMMA IdleFine == IdlePages => IInv
  <1> SUFFICES ASSUME IdlePages PROVE IInv
    OBVIOUS
  <1> USE DEF IdlePages
  <1>1. /\ Phases /\ Scanned /\ Latches /\ LockHeld /\ FreshPages /\ Tids /\ InHand /\ Todo /\ Own
        /\ \A p : p < page_count => Known(p)
    BY IdleInv
  <1>2. \A u \in Threads : th[u].pc = "idle"
    BY DEF AllIdle, Idle
  <1>4. KnownPages
    BY <1>1, <1>2 DEF KnownPages
  <1>5. Marks
    BY <1>2 DEF Marks, InsertPcs
  <1>6. Counted
    BY <1>2 DEF Counted
  <1>7. FreeSpaceKnown
    BY DEF FreeSpaceKnown
  <1> QED
    BY <1>1, <1>4, <1>5, <1>6, <1>7 DEF IInv, ControlInv, PageInv, RecordInv

\* The same of the next state.
LEMMA IdleFineNext == IdlePages' => IInv'
  BY IdleFine, PTL

\* How many numbers there are up to n.
LEMMA UpTo ==
  ASSUME NEW n \in Nat
  PROVE  IsFiniteSet(1..n) /\ Cardinality(1..n) = n
  <1>1. CASE n = 0
    <2>1. 1..n = {} /\ Cardinality({}) = 0 /\ IsFiniteSet({})
      BY <1>1, FS_EmptySet
    <2> QED
      BY <1>1, <2>1
  <1>2. CASE n # 0
    <2>1. 1 \in Int /\ n \in Int /\ ~(1 > n)
      BY <1>2
    <2>2. IsFiniteSet(1..n) /\ Cardinality(1..n) = n - 1 + 1
      BY <2>1, FS_Interval
    <2> QED
      BY <2>2
  <1> QED
    BY <1>1, <1>2

\* The system starts in a state the invariant describes.
LEMMA InitInv == Init => IInv
  <1>1. SUFFICES ASSUME Init PROVE IInv
    OBVIOUS
  <1>2. PICK f \in Files :
          /\ pages = [p \in 1..MaxPage |->
                        IF p > Len(f) THEN EmptyPage
                        ELSE [slots |-> [s \in Slots |-> IF s < f[p] THEN Committed(p, s) ELSE Empty], num |-> f[p]]]
          /\ page_count = Len(f) + 1
          /\ allocated = 1..Len(f)
          /\ free_pages = {p \in 1..Len(f) : f[p] < Capacity}
          /\ redo \in IF f = <<>> THEN RedoLogs ELSE {<<>>}
    BY <1>1 DEF Init
  <1>3. f \in Seq(0..Capacity) /\ Len(f) \in Nat /\ Len(f) <= MaxPage /\ MaxPage \in Nat /\ Capacity \in Nat
    BY RecordFileAssumption
  <1>4. \A p \in 1..Len(f) : f[p] \in 0..Capacity
    BY <1>3
  <1>5. \A p, s : p \in Int /\ s \in Int => Committed(p, s) \in Rec /\ Committed(p, s) # Empty
                                            /\ Committed(p, s).begin = 1 /\ Committed(p, s).end = MaxTrxId
    BY DEF Committed, Version, Rec, Empty, MaxTrxId
  <1>6. Empty \in Rec /\ Empty.begin = 0 /\ Empty.end = 0 /\ EmptyPage \in Page
    BY DEF Empty, Rec, EmptyPage, Page
  <1>7. Slots \subseteq Int
    BY <1>3 DEF Slots
  <1>8. ASSUME NEW p \in PageNos
        PROVE  /\ pages[p] \in Page
               /\ pages[p].num = Cardinality(Set(pages[p]))
               /\ \A s \in Slots : pages[p].slots[s] = Empty
                                   \/ (pages[p].slots[s].begin = 1 /\ pages[p].slots[s].end = MaxTrxId)
    <2>1. CASE p > Len(f)
      <3>1. pages[p] = EmptyPage
        BY <1>2, <2>1 DEF PageNos
      <3>2. Set(EmptyPage) = {} /\ EmptyPage.num = 0
        BY DEF Set, EmptyPage
      <3>3. Cardinality({}) = 0
        BY FS_EmptySet
      <3> QED
        BY <1>6, <3>1, <3>2, <3>3 DEF EmptyPage
    <2>2. CASE ~(p > Len(f))
      <3>1. p \in 1..Len(f) /\ p \in Int
        BY <1>3, <2>2 DEF PageNos
      <3>2. f[p] \in 0..Capacity
        BY <1>4, <3>1
      <3> DEFINE sl == [s \in Slots |-> IF s < f[p] THEN Committed(p, s) ELSE Empty]
      <3>3. pages[p] = [slots |-> sl, num |-> f[p]]
        BY <1>2, <2>2 DEF PageNos
      <3>4. \A s \in Slots : sl[s] = IF s < f[p] THEN Committed(p, s) ELSE Empty
        OBVIOUS
      <3>5. sl \in [Slots -> Rec]
        BY <1>5, <1>6, <1>7, <3>1
      <3> HIDE DEF sl
      <3>6. pages[p] \in Page /\ pages[p].num = f[p] /\ pages[p].slots = sl
        BY <3>2, <3>3, <3>5 DEF Page
      <3>7. Set(pages[p]) = 0..f[p] - 1
        <4>1. \A s \in Slots : sl[s] # Empty <=> s < f[p]
          BY <1>5, <1>7, <3>1, <3>4
        <4>2. \A s : s \in Slots /\ s < f[p] <=> s \in 0..f[p] - 1
          BY <1>3, <3>2 DEF Slots
        <4> QED
          BY <3>6, <4>1, <4>2 DEF Set
      <3>8. Cardinality(0..f[p] - 1) = f[p]
        <4>1. PICK n \in Nat : n = f[p]
          BY <1>3, <3>2
        <4>2. CASE n = 0
          <5>1. 0..n - 1 = {} /\ Cardinality({}) = 0
            BY <4>2, FS_EmptySet
          <5> QED
            BY <4>1, <4>2, <5>1
        <4>3. CASE n # 0
          <5>1. 0 \in Int /\ n - 1 \in Int /\ ~(0 > n - 1)
            BY <4>3
          <5>2. Cardinality(0..(n - 1)) = n - 1 - 0 + 1
            BY <5>1, FS_Interval
          <5> QED
            BY <4>1, <5>2
        <4> QED
          BY <4>2, <4>3
      <3>9. \A s \in Slots : sl[s] = Empty \/ (sl[s].begin = 1 /\ sl[s].end = MaxTrxId)
        BY <1>5, <1>7, <3>1, <3>4
      <3> QED
        BY <3>6, <3>7, <3>8, <3>9
    <2> QED
      BY <2>1, <2>2
  <1>9. TypeOK
    <2>1. pages \in [PageNos -> Page]
      BY <1>2, <1>8 DEF PageNos
    <2>2. page_count \in Nat \ {0} /\ allocated \subseteq PageNos /\ free_pages \subseteq PageNos
      BY <1>2, <1>3 DEF PageNos
    <2>3. lock \in Threads \cup {Nobody} /\ recovered \subseteq PageNos /\ clock \in Nat \ {0}
          /\ ops \in [Threads -> Nat] /\ th \in [Threads -> Thread]
      BY <1>1, IdleTyped DEF Init
    <2>4. latch \in [PageNos -> [owner : Threads \cup {Nobody}, depth : Nat, readers : SUBSET Threads]]
      BY <1>1 DEF Init, NoLatch, PageNos
    <2>5. redo \in Seq(RidT)
      <3>1. RidT = (1..MaxPage) \X (0..Capacity - 1)
        BY DEF RidT, PageNos, Slots
      <3>2. redo \in RedoLogs \/ redo = <<>>
        BY <1>2
      <3>3. <<>> \in Seq(RidT)
        OBVIOUS
      <3> QED
        BY <3>1, <3>2, <3>3, RecordFileAssumption
    <2> QED
      BY <2>1, <2>2, <2>3, <2>4, <2>5 DEF TypeOK
  <1>10. AllIdle /\ lock = Nobody /\ latch = [p \in PageNos |-> NoLatch]
    BY <1>1 DEF Init, AllIdle, PageNos
  <1>11. ASSUME NEW x \in RidT PROVE At(x) = Empty \/ (At(x).begin = 1 /\ At(x).end = MaxTrxId)
    BY <1>8 DEF RidT, At
  <1>12. PagesCounted
    <2>1. Cardinality(1..Len(f)) = Len(f)
      BY <1>3, UpTo
    <2>2. redo # <<>> => allocated = {}
      BY <1>2
    <2> QED
      BY <1>1, <1>2, <1>3, <2>1, <2>2 DEF PagesCounted, Init
  <1>13. \A p \in free_pages : p < page_count
    BY <1>2, <1>3
  <1>14. \A p \in allocated \ recovered : pages[p].num < Capacity => p \in free_pages
    BY <1>2, <1>3 DEF PageNos
  <1>15. \A x \in RidT : /\ At(x) = Empty \/ (At(x).begin # 0 /\ At(x).end # 0)
                         /\ At(x).begin < 0 => At(x).end \in {MaxTrxId, At(x).begin}
                         /\ At(x).begin < 0 \/ At(x).end < 0 => x[1] < page_count
    BY <1>6, <1>11 DEF MaxTrxId
  <1>16. \A p \in PageNos : pages[p].num = Cardinality(Set(pages[p]))
    BY <1>8
  <1> QED
    BY <1>9, <1>10, <1>12, <1>13, <1>14, <1>15, <1>16, IdleFine DEF IdlePages

\* Recovering a record keeps the invariant.
LEMMA RecoverStep ==
  ASSUME IInv, RecoverInsertRecord
  PROVE  IInv'
  <1>1. TypeOK /\ redo # <<>> /\ redo \in Seq(RidT)
    BY DEF RecoverInsertRecord, IInv, ControlInv, TypeOK
  <1>2. AllIdle /\ lock = Nobody /\ \A p \in PageNos : latch[p] = NoLatch
    BY <1>1, NothingHeld DEF IInv
  <1>3. PICK q \in RidT : q = Head(redo)
    BY <1>1
  <1>4. q[1] \in PageNos /\ q[2] \in Slots /\ q = <<q[1], q[2]>> /\ q[1] \in Int /\ q[2] \in Int
    BY RecordFileAssumption DEF RidT, PageNos, Slots
  <1> DEFINE old == pages[q[1]]
             new == Committed(q[1], q[2])
  <1>5. old \in Page /\ old.num \in Int
    BY <1>1, <1>4 DEF TypeOK, Page
  <1>6. new \in Rec /\ new # Empty /\ new.begin = 1 /\ new.end = MaxTrxId
    BY <1>4 DEF Committed, Version, Rec, Empty, MaxTrxId
  <1>7. PICK num \in Int : num = IF q[2] \in Set(old) THEN old.num ELSE old.num + 1
    BY <1>5
  <1>8. pages' = [pages EXCEPT ![q[1]] = [slots |-> [@.slots EXCEPT ![q[2]] = new], num |-> num]]
    BY <1>3, <1>7 DEF RecoverInsertRecord
  <1>9. UNCHANGED <<locks, th, clock, ops>> /\ redo' = Tail(redo)
        /\ recovered' = recovered \cup ({q[1]} \ allocated) /\ RecoverPage(q[1])
    BY <1>3 DEF RecoverInsertRecord
  <1>10. pages \in [PageNos -> Page]
    BY <1>1 DEF TypeOK
  <1> HIDE DEF new
  <1>11. pages' \in [PageNos -> Page]
    BY <1>4, <1>6, <1>8, <1>10, WriteCounted
  <1>12. (\A y \in PageNos : y # q[1] => pages'[y] = pages[y]) /\ pages'[q[1]].num = num
    BY <1>4, <1>6, <1>8, <1>10, WriteCounted
  <1>13. Writes(q, new)
    <2>1. Writes(<<q[1], q[2]>>, new)
      BY <1>4, <1>6, <1>8, <1>10, WriteCounted
    <2> QED
      BY <1>4, <2>1 DEF Writes
  <1>14. PagesCounted /\ recovered = allocated /\ allocated \subseteq PageNos /\ page_count \in Nat \ {0}
    BY <1>1 DEF IInv, PageInv, PagesCounted, TypeOK
  <1>15. IsFiniteSet(allocated) /\ Cardinality(allocated) \in Nat
    <2>1. IsFiniteSet(PageNos)
      BY FS_Interval, RecordFileAssumption DEF PageNos
    <2>2. IsFiniteSet(allocated)
      BY <1>14, <2>1, FS_Subset
    <2> QED
      BY <2>2, FS_CardinalityType
  <1>16. allocated' = allocated \cup {q[1]} /\ recovered' = allocated'
    BY <1>9, <1>14 DEF RecoverPage
  <1>17. Cardinality(allocated') < page_count' /\ page_count' \in Nat \ {0} /\ page_count <= page_count'
    <2>1. CASE q[1] \in allocated
      BY <1>9, <1>14, <2>1 DEF RecoverPage, PagesCounted
    <2>2. CASE q[1] \notin allocated
      <3>1. Cardinality(allocated \cup {q[1]}) = Cardinality(allocated) + 1
        BY <1>15, <2>2, FS_AddElement
      <3>2. page_count' = page_count + 1
        BY <1>9, <2>2 DEF RecoverPage
      <3> QED
        BY <1>14, <1>15, <1>16, <3>1, <3>2 DEF PagesCounted
    <2> QED
      BY <2>1, <2>2
  <1>18. TypeOK'
    <2>1. redo' \in Seq(RidT)
      BY <1>1, <1>9
    <2> QED
      BY <1>1, <1>4, <1>9, <1>11, <1>14, <1>16, <1>17, <2>1 DEF TypeOK, locks
  <1>19. AllIdle' /\ lock' = Nobody /\ latch' = [p \in PageNos |-> NoLatch]
    <2>1. th' = th /\ lock' = lock /\ latch' = latch
      BY <1>9 DEF locks
    <2>2. AllIdle'
      BY <1>2, <2>1 DEF AllIdle
    <2>3. latch' = [p \in PageNos |-> NoLatch]
      BY <1>1, <1>2, <2>1 DEF TypeOK
    <2> QED
      BY <1>2, <2>1, <2>2, <2>3
  <1>20. \A p \in free_pages' : p < page_count'
    BY <1>1, <1>9, <1>17 DEF IInv, PageInv, KnownPages, Known, locks, TypeOK, PageNos
  <1>21. ASSUME NEW x \in RidT
         PROVE  /\ At(x)' = Empty \/ (At(x)'.begin # 0 /\ At(x)'.end # 0)
                /\ At(x)'.begin < 0 => At(x)'.end \in {MaxTrxId, At(x)'.begin}
                /\ At(x)'.begin < 0 \/ At(x)'.end < 0 => x[1] < page_count'
    <2>1. CASE x = q
      BY <1>6, <1>13, <2>1 DEF Writes, MaxTrxId
    <2>2. CASE x # q
      <3>1. At(x)' = At(x)
        BY <1>13, <2>2 DEF Writes
      <3>2. /\ At(x) = Empty \/ (At(x).begin # 0 /\ At(x).end # 0)
            /\ At(x).begin < 0 => At(x).end \in {MaxTrxId, At(x).begin}
        BY DEF IInv, RecordInv, Marks
      <3>3. At(x).begin < 0 \/ At(x).end < 0 => x[1] < page_count
        BY DEF IInv, PageInv, KnownPages, Known
      <3>4. x[1] \in Int
        BY DEF RidT, PageNos
      <3> QED
        BY <1>14, <1>17, <3>1, <3>2, <3>3, <3>4
    <2> QED
      BY <2>1, <2>2
  <1>22. ASSUME NEW p \in PageNos PROVE pages'[p].num = Cardinality(Set(pages'[p]))
    <2>1. pages[p].num = Cardinality(Set(pages[p]))
      BY DEF IInv, RecordInv, Counted
    <2>2. CASE p # q[1]
      BY <1>12, <2>1, <2>2
    <2>3. CASE p = q[1]
      <3>1. PICK S : S = Set(pages[q[1]])
        OBVIOUS
      <3>2. IsFiniteSet(S)
        <4>1. IsFiniteSet(Slots)
          BY FS_Interval, RecordFileAssumption DEF Slots
        <4> QED
          BY <3>1, <4>1, FS_Subset DEF Set
      <3>3. PICK S2 : S2 = Set(pages'[q[1]])
        OBVIOUS
      <3>4. S2 = S \cup {q[2]}
        BY <1>6, <1>13, <3>1, <3>3, SetAfter DEF Set
      <3>5. CASE q[2] \in S
        <4>1. S2 = S
          BY <3>4, <3>5
        <4> QED
          BY <1>7, <1>12, <2>1, <2>3, <3>1, <3>3, <3>5, <4>1
      <3>6. CASE q[2] \notin S
        <4>1. Cardinality(S2) = Cardinality(S) + 1
          BY <3>2, <3>4, <3>6, FS_AddElement
        <4> QED
          BY <1>7, <1>12, <2>1, <2>3, <3>1, <3>3, <3>6, <4>1
      <3> QED
        BY <3>5, <3>6
    <2> QED
      BY <2>2, <2>3
  <1>23. PagesCounted'
    BY <1>16, <1>17 DEF PagesCounted
  <1>24. allocated' \ recovered' = {}
    BY <1>16
  <1> QED
    BY <1>18, <1>19, <1>20, <1>21, <1>22, <1>23, <1>24, IdleFineNext DEF IdlePages

\* A step of nothing keeps the invariant.
LEMMA StutterInv ==
  ASSUME IInv, UNCHANGED vars
  PROVE  IInv'
  <1>1. /\ pages' = pages /\ page_count' = page_count /\ allocated' = allocated
        /\ free_pages' = free_pages /\ lock' = lock /\ latch' = latch /\ redo' = redo
        /\ recovered' = recovered /\ th' = th /\ clock' = clock /\ ops' = ops
    BY DEF vars
  <1>2. \A x : At(x)' = At(x)
    BY <1>1 DEF At
  <1>3. ControlInv'
    BY <1>1 DEF IInv, ControlInv, TypeOK, Phases, Scanned, Latches, LockHeld
  <1>4. \A p : Known(p)' <=> Known(p)
    BY <1>1 DEF Known
  <1>5. FreshPages' /\ KnownPages' /\ PagesCounted' /\ FreeSpaceKnown'
    BY <1>1, <1>2, <1>4 DEF IInv, PageInv, FreshPages, KnownPages, PagesCounted, FreeSpaceKnown
  <1>6. \A T, x : Live(T, x)' <=> Live(T, x)
    BY <1>1, <1>2 DEF Live
  <1>7. Tids' /\ Marks' /\ Todo' /\ Own'
    BY <1>1, <1>2 DEF IInv, RecordInv, Tids, Marks, Todo, Own
  <1>8. InHand'
    BY <1>1, <1>2, <1>6 DEF IInv, RecordInv, InHand
  <1>9. Counted'
    BY <1>1 DEF IInv, RecordInv, Counted
  <1> QED
    BY <1>3, <1>5, <1>7, <1>8, <1>9 DEF IInv, PageInv, RecordInv

\* Every step keeps the invariant.
LEMMA NextInv == IInv /\ [Next]_vars => IInv'
  <1>1. ASSUME IInv, Next PROVE IInv'
    <2>1. CASE RecoverInsertRecord
      BY <1>1, <2>1, RecoverStep
    <2>2. ASSUME NEW t \in Threads, NEW U, NEW r, ThreadStep(t, th[t], U, r) PROVE IInv'
      <3>1. PICK T : T = th[t]
        OBVIOUS
      <3>2. ThreadStep(t, T, U, r)
        BY <2>2, <3>1
      <3>3. ControlInv'
        BY <1>1, <3>2, TypeStep, PhaseStep, ScannedStep, LatchStep, LockStep DEF ControlInv
      <3>4. PageInv'
        BY <1>1, <3>2, FreshStep, KnownStep, PagesStep, SpaceStep DEF PageInv
      <3>5. RecordInv'
        BY <1>1, <3>2, TidStep, MarkStep, HandStep, TodoStep, OwnStep, CountStep DEF RecordInv
      <3> QED
        BY <3>3, <3>4, <3>5 DEF IInv
    <2> QED
      BY <1>1, <2>1, <2>2, EveryStep
  <1> QED
    BY <1>1, StutterInv

\* In every state the program can be in, who holds which latch follows from where
\* each thread stands, and the pages' counts and marks are in order.
THEOREM Invariance == Spec => []IInv
  BY InitInv, NextInv, PTL DEF Spec

\* Pages with room are found again, and the records of a log without gaps are
\* within the page count, whatever the users of free_pages_ do at the same time.
THEOREM SpaceKept == Spec => []SpaceExact
  <1>1. IInv => SpaceExact
    <2> SUFFICES ASSUME IInv PROVE SpaceExact
      OBVIOUS
    <2>1. FreeSpaceKnown /\ Cardinality(allocated) < page_count
      BY DEF IInv, PageInv, PagesCounted
    <2>2. allocated \subseteq PageNos /\ page_count \in Nat
      BY DEF IInv, ControlInv, TypeOK
    <2>3. IsFiniteSet(allocated) /\ Cardinality(allocated) \in Nat
      <3>1. IsFiniteSet(PageNos)
        BY UpTo, RecordFileAssumption DEF PageNos
      <3>2. IsFiniteSet(allocated)
        BY <2>2, <3>1, FS_Subset
      <3> QED
        BY <3>2, FS_CardinalityType
    <2>4. ASSUME NEW p \in allocated, 1..p \subseteq allocated PROVE p < page_count
      <3>1. p \in Nat
        BY <2>2, <2>4 DEF PageNos
      <3>2. Cardinality(1..p) = p
        BY <3>1, UpTo
      <3>3. Cardinality(1..p) <= Cardinality(allocated)
        BY <2>3, <2>4, FS_Subset
      <3> QED
        BY <2>1, <2>2, <2>3, <3>1, <3>2, <3>3
    <2>5. RecoveredReachable
      BY <2>4 DEF RecoveredReachable, Gapless, Rids
    <2> QED
      BY <2>1, <2>5 DEF SpaceExact
  <1> QED
    BY <1>1, Invariance, PTL

-----------------------------------------------------------------------------
(* Who waits for whom.                                                     *)

\* A thread has latched a page: its scan stands on it, or it inserts into it.
Has(T, p) == T.scan_page = p \/ (T.pc \in {"ins_share", "ins_put"} /\ T.page = p)

\* Who is counted as a holder of a latch stands where it has latched the page.
LEMMA HoldersHave ==
  ASSUME ControlInv, NEW p \in PageNos, NEW u \in Holders(p)
  PROVE  /\ u \in Threads /\ Has(th[u], p)
         /\ u \in latch[p].readers \/ u = latch[p].owner
         /\ u \in latch[p].readers => th[u].scan_page = p /\ th[u].stmt = "select"
  <1>1. LatchOf(latch[p], th, p) /\ latch[p] \in LatchT
    BY DEF ControlInv, Latches, TypeOK, LatchT
  <1>2. u \in latch[p].readers \/ (u = latch[p].owner /\ u # Nobody)
    BY DEF Holders
  <1>3. CASE u \in latch[p].readers
    BY <1>1, <1>3 DEF LatchOf, LatchT, Reads, Has
  <1>4. CASE u \notin latch[p].readers
    <2>1. u = latch[p].owner /\ u \in Threads
      BY <1>1, <1>2, <1>4 DEF LatchT
    <2>2. latch[p].depth # 0
      BY <1>1, <1>2, <1>4 DEF LatchOf
    <2>3. Depth(th[u], p) # 0
      BY <1>1, <2>1, <2>2 DEF LatchOf
    <2> QED
      BY <1>4, <2>1, <2>3 DEF Depth, ScanDepth, InsertDepth, Has
  <1> QED
    BY <1>3, <1>4

\* A thread that may not write a page waits for others, unless it reads the page.
LEMMA BlockedBy ==
  ASSUME ControlInv, NEW t \in Threads, NEW p \in PageNos, ~CanWrite(t, p), NEW u \in Holders(p),
         th[t].pc \in {"ins_latch", "ins_init", "del_latch", "fetch_latch", "stamp", "rollback"}
  PROVE  u \in Threads /\ u # t /\ Has(th[u], p)
  <1>1. /\ u \in Threads /\ Has(th[u], p)
        /\ u \in latch[p].readers \/ u = latch[p].owner
        /\ u \in latch[p].readers => th[u].scan_page = p /\ th[u].stmt = "select"
    BY HoldersHave
  <1>2. ASSUME u = t PROVE FALSE
    <2>1. th[t].scan_page = p /\ th[t].stmt = "select" /\ p # NoPage
      BY <1>1, <1>2 DEF CanWrite, NoPage, PageNos
    <2> QED
      BY <2>1 DEF ControlInv, Phases, InsertPcs, ScanPcs, DeletePcs
  <1> QED
    BY <1>1, <1>2

LockPcs == {"ins_lock", "ins_share", "del_share"}
LatchPcs == {"ins_latch", "ins_init", "del_latch", "fetch_latch", "stamp", "rollback"}

\* A thread that waits waits for the holder of lock_, who is about to latch a
\* page; for another thread that has latched a page; or, in a subquery, for the
\* thread that has latched the page its own scan stands on.
LEMMA Waiting ==
  ASSUME ControlInv, NEW t \in Threads, NEW u \in WaitsFor(t)
  PROVE  /\ u \in Threads
         /\ \/ th[t].pc \in LockPcs /\ th[u].pc = "ins_latch"
            \/ /\ th[t].pc \in LatchPcs /\ u # t
               /\ \E p \in PageNos : Has(th[u], p) /\ (th[t].pc = "ins_latch" => p = th[t].page)
            \/ th[t].pc = "subquery" /\ u = t
  <1>0. th[t] \in Thread /\ Phases
    BY DEF ControlInv, TypeOK
  <1>1. CASE th[t].pc \in LockPcs
    <2>1. WaitsFor(t) = {lock} \ {Nobody}
      BY <1>1 DEF WaitsFor, LockPcs
    <2> QED
      BY <1>1, <2>1 DEF ControlInv, LockHeld, TypeOK
  <1>2. CASE th[t].pc \in {"ins_latch", "ins_init"}
    <2>1. WaitsFor(t) = IF CanWrite(t, th[t].page) THEN {} ELSE Holders(th[t].page)
      BY <1>2 DEF WaitsFor
    <2>2. PICK p \in PageNos : p = th[t].page
      BY <1>0, <1>2 DEF Phases
    <2>3. ~CanWrite(t, p) /\ u \in Holders(p)
      BY <2>1, <2>2
    <2>4. u \in Threads /\ u # t /\ Has(th[u], p)
      BY <1>2, <2>3, BlockedBy
    <2> QED
      BY <1>2, <2>2, <2>4 DEF LatchPcs
  <1>3. CASE th[t].pc = "del_latch"
    <2>1. WaitsFor(t) = IF CanWrite(t, th[t].rid[1]) THEN {} ELSE Holders(th[t].rid[1])
      BY <1>3 DEF WaitsFor
    <2>2. PICK p \in PageNos : p = th[t].rid[1]
      BY <1>0, <1>3 DEF Phases, RidT
    <2>3. ~CanWrite(t, p) /\ u \in Holders(p)
      BY <2>1, <2>2
    <2>4. u \in Threads /\ u # t /\ Has(th[u], p)
      BY <1>3, <2>3, BlockedBy
    <2> QED
      BY <1>3, <2>2, <2>4 DEF LatchPcs
  <1>4. CASE th[t].pc = "fetch_latch"
    <2>1. PICK p \in PageNos : p = th[t].at
      BY <1>0, <1>4 DEF Phases
    <2>2. CASE ~ReadOnly(t)
      <3>1. WaitsFor(t) = IF CanWrite(t, th[t].at) THEN {} ELSE Holders(th[t].at)
        BY <1>4, <2>2 DEF WaitsFor
      <3>2. ~CanWrite(t, p) /\ u \in Holders(p)
        BY <2>1, <3>1
      <3>3. u \in Threads /\ u # t /\ Has(th[u], p)
        BY <1>4, <3>2, BlockedBy
      <3> QED
        BY <1>4, <3>3 DEF LatchPcs
    <2>3. CASE ReadOnly(t)
      <3>1. WaitsFor(t) = {latch[th[t].at].owner} \ {Nobody}
        BY <1>4, <2>3 DEF WaitsFor
      <3>2. u \in Holders(p)
        BY <2>1, <3>1 DEF Holders
      <3>3. u \in Threads /\ Has(th[u], p)
        BY <3>2, HoldersHave
      <3>4. u # t
        BY <1>0, <1>4, <3>3 DEF Phases, Has, NoPage, PageNos
      <3> QED
        BY <1>4, <3>3, <3>4 DEF LatchPcs
    <2> QED
      BY <2>2, <2>3
  <1>5. CASE th[t].pc = "subquery"
    <2>1. th[t].scan_page # NoPage
      BY <1>5 DEF WaitsFor
    <2>2. u = latch[th[t].scan_page].owner
      BY <1>5, <2>1 DEF WaitsFor
    <2>3. PICK p \in PageNos : p = th[t].scan_page
      BY <1>0, <2>1 DEF Thread, PageNos, NoPage
    <2>4. th[t].stmt = "delete_sub"
      BY <1>0, <1>5 DEF Phases
    <2>5. LatchOf(latch[p], th, p) /\ Depth(th[t], p) # 0
      BY <1>5, <2>3, <2>4 DEF ControlInv, Latches, Depth, ScanDepth, InsertDepth
    <2>6. latch[p].owner = t
      BY <2>5 DEF LatchOf
    <2> QED
      BY <1>5, <2>2, <2>3, <2>6
  <1>6. CASE th[t].pc \in {"stamp", "rollback"}
    <2>1. WaitsFor(t) = UNION {Holders(r[1]) : r \in {q \in FirstOperation(t) : ~CanWrite(t, q[1])}}
      BY <1>6 DEF WaitsFor
    <2>2. PICK r \in FirstOperation(t) : ~CanWrite(t, r[1]) /\ u \in Holders(r[1])
      BY <2>1
    <2>3. r \in RidT
      BY <1>0, <2>2 DEF FirstOperation, Thread
    <2>4. PICK p \in PageNos : p = r[1]
      BY <2>3 DEF RidT
    <2>5. ~CanWrite(t, p) /\ u \in Holders(p)
      BY <2>2, <2>4
    <2>6. u \in Threads /\ u # t /\ Has(th[u], p)
      BY <1>6, <2>5, BlockedBy
    <2> QED
      BY <1>6, <2>6 DEF LatchPcs
  <1>7. CASE th[t].pc \notin LockPcs \cup LatchPcs \cup {"subquery"}
    <2>1. WaitsFor(t) = {}
      BY <1>7 DEF WaitsFor, LockPcs, LatchPcs
    <2> QED
      BY <2>1
  <1> QED
    BY <1>1, <1>2, <1>3, <1>4, <1>5, <1>6, <1>7 DEF LatchPcs

\* But for an UPDATE, a thread that waits for lock_ or a latch has no page latched,
\* or only the one it is about to put into free_pages_.
LEMMA WaitsWithout ==
  ASSUME ControlInv, NEW t \in Threads, th[t].stmt # "update", NEW p \in PageNos, Has(th[t], p),
         th[t].pc \in LockPcs \cup LatchPcs
  PROVE  th[t].pc = "ins_share" /\ th[t].page = p
  <1>1. p # NoPage /\ Phases
    BY DEF NoPage, PageNos, ControlInv
  <1>2. CASE th[t].pc \in InsertPcs
    <2>1. th[t].stmt = "insert"
      BY <1>1, <1>2 DEF Phases
    <2>2. th[t].scan_page = NoPage
      BY <1>1, <2>1 DEF Phases, Scans
    <2> QED
      BY <1>1, <2>2 DEF Has, LockPcs, LatchPcs
  <1>3. CASE th[t].pc \notin InsertPcs
    <2>1. th[t].scan_page = p
      BY <1>3 DEF Has, InsertPcs
    <2> QED
      BY <1>1, <1>3, <2>1 DEF Phases, LockPcs, LatchPcs, ScanPcs, DeletePcs
  <1> QED
    BY <1>2, <1>3

\* insert_record's two orders do not meet: who has lock_ waits for a page in
\* free_pages_, and who waits for lock_ has a page that is not there yet.
LEMMA OrdersApart ==
  ASSUME IInv, NEW t \in Threads, NEW u \in Threads, th[t].pc = "ins_share", th[u].pc = "ins_latch"
  PROVE  th[t].page # th[u].page
  <1>1. Known(th[u].page) /\ KnownPages
    BY DEF IInv, PageInv, KnownPages
  <1>2. Fresh(th[t], th[t].page)
    BY DEF Fresh
  <1> QED
    BY <1>1, <1>2 DEF Known

\* insert_record, delete_record and the scans never wait for each other in a
\* circle of two, and only a subquery waits for its own statement: the deadlocks
\* are those of an UPDATE that inserts with its scan's page latched.
THEOREM CyclesNeedUpdate == Spec => []DeadlockOnlyInUpdate
  <1>1. IInv => DeadlockOnlyInUpdate
    <2> SUFFICES ASSUME IInv PROVE DeadlockOnlyInUpdate
      OBVIOUS
    <2>0. ControlInv
      BY DEF IInv
    <2>1. ASSUME NEW t \in Threads, t \in WaitsFor(t) PROVE th[t].stmt = "delete_sub"
      <3>1. th[t].pc = "subquery"
        BY <2>0, <2>1, Waiting DEF LockPcs
      <3> QED
        BY <2>0, <3>1 DEF ControlInv, Phases
    <2>2. ASSUME NEW t \in Threads, NEW u \in WaitsFor(t), u # t, t \in WaitsFor(u),
                 th[t].stmt # "update", th[u].stmt # "update"
          PROVE  FALSE
      <3>1. /\ u \in Threads
            /\ \/ th[t].pc \in LockPcs /\ th[u].pc = "ins_latch"
               \/ /\ th[t].pc \in LatchPcs
                  /\ \E p \in PageNos : Has(th[u], p) /\ (th[t].pc = "ins_latch" => p = th[t].page)
        BY <2>0, <2>2, Waiting
      <3>2. \/ th[u].pc \in LockPcs /\ th[t].pc = "ins_latch"
            \/ /\ th[u].pc \in LatchPcs
               /\ \E p \in PageNos : Has(th[t], p) /\ (th[u].pc = "ins_latch" => p = th[u].page)
        BY <2>0, <2>2, <3>1, Waiting
      <3>3. CASE th[t].pc \in LockPcs /\ th[u].pc = "ins_latch"
        <4>1. PICK p \in PageNos : Has(th[t], p) /\ p = th[u].page
          BY <3>2, <3>3 DEF LockPcs
        <4>2. th[t].pc = "ins_share" /\ th[t].page = p
          BY <2>0, <2>2, <3>3, <4>1, WaitsWithout
        <4> QED
          BY <3>1, <3>3, <4>1, <4>2, <2>2, OrdersApart
      <3>4. CASE th[t].pc \in LatchPcs
        <4>1. PICK p \in PageNos : Has(th[u], p) /\ (th[t].pc = "ins_latch" => p = th[t].page)
          BY <3>1, <3>4 DEF LockPcs, LatchPcs
        <4>2. th[u].pc = "ins_share" /\ th[u].page = p
          BY <2>0, <2>2, <3>1, <3>2, <4>1, WaitsWithout
        <4>3. th[t].pc = "ins_latch"
          BY <3>2, <4>2 DEF LatchPcs
        <4> QED
          BY <2>2, <3>1, <4>1, <4>2, <4>3, OrdersApart
      <3> QED
        BY <3>1, <3>3, <3>4
    <2> QED
      BY <2>1, <2>2 DEF DeadlockOnlyInUpdate
  <1> QED
    BY <1>1, Invariance, PTL

-----------------------------------------------------------------------------
(* What a page latch protects.                                             *)

\* On a page that one thread's scan has latched no other thread may write.
LEMMA ScanExcludes ==
  ASSUME ControlInv, NEW t \in Threads, NEW u \in Threads, t # u, NEW p \in PageNos, th[t].scan_page = p
  PROVE  ~CanWrite(u, p) /\ Depth(th[u], p) = 0
  <1>1. LatchOf(latch[p], th, p)
    BY DEF ControlInv, Latches
  <1>2. Depth(th[t], p) # 0 \/ Reads(th[t], p)
    BY DEF Depth, ScanDepth, InsertDepth, Reads
  <1>3. latch[p].owner = t \/ (t \in latch[p].readers /\ latch[p].owner = Nobody)
    BY <1>1, <1>2 DEF LatchOf
  <1> QED
    BY <1>1, <1>3, RecordFileAssumption DEF LatchOf, CanWrite

\* The step that writes a record moves its thread, and is not one of a thread kept
\* out by a scan's latch, unless it marks a record fetched from a page left since.
LEMMA WriterMoves ==
  ASSUME IInv, NEW u \in Threads, NEW T, NEW U, NEW r, ThreadStep(u, T, U, r),
         NEW x \in RidT, NEW new \in Rec, Rewrites(u, T, U, r, x, new), NEW t \in Threads, th[t].scan_page = x[1]
  PROVE  /\ U # T
         /\ t # u => T.pc = "process" /\ T.cur.rid = x /\ T.scan_page # x[1]
  <1>1. T = th[u] /\ x[1] \in PageNos /\ ControlInv
    BY DEF ThreadStep, RidT, IInv
  <1>2. t # u => ~CanWrite(u, x[1]) /\ Depth(T, x[1]) = 0
    BY <1>1, ScanExcludes
  <1>3. CASE Puts(u, T, U) /\ x = U.rid
    <2>1. Depth(T, x[1]) # 0
      BY <1>3 DEF Puts, Depth, ScanDepth, InsertDepth
    <2> QED
      BY <1>2, <1>3, <2>1 DEF Puts
  <1>4. CASE DeletesRecord(u, T, U) /\ x = T.rid
    BY <1>2, <1>4 DEF DeletesRecord
  <1>5. CASE MarksRecord(u, T, U) /\ x = T.cur.rid
    <2>1. T.pc = "process" /\ U.pc # "process" /\ T.stmt # "select"
      BY <1>5 DEF MarksRecord
    <2>2. T.scan_page = x[1] => Depth(T, x[1]) # 0
      BY <2>1 DEF Depth, ScanDepth, InsertDepth
    <2> QED
      BY <1>2, <1>5, <2>1, <2>2, SMTT(60)
  <1>6. CASE VisitsRecord(u, T, U, r) /\ x = r
    BY <1>2, <1>6 DEF VisitsRecord
  <1> QED
    BY <1>3, <1>4, <1>5, <1>6, Zenon DEF Rewrites

\* A record on a page some scan has latched changes by that scan's own thread or
\* by a statement that had the record in hand and has left the page meanwhile.
THEOREM LatchesProtect == Spec => LatchedRecordsKept
  <1>1. ASSUME IInv, Next PROVE LatchKeeps
    <2> SUFFICES ASSUME NEW t \in Threads, NEW s \in Slots, th[t].scan_page # NoPage,
                        pages'[th[t].scan_page].slots[s] # pages[th[t].scan_page].slots[s]
                 PROVE  \/ th'[t] # th[t]
                        \/ \E u \in Threads : /\ th[u].pc = "process" /\ th[u].cur.rid = <<th[t].scan_page, s>>
                                              /\ th[u].scan_page # th[t].scan_page /\ th'[u] # th[u]
      BY Zenon DEF LatchKeeps
    <2>1. PICK p : p = th[t].scan_page
      OBVIOUS
    <2>2. p \in PageNos /\ page_count \in Nat /\ p < page_count
      BY <1>1, <2>1 DEF IInv, ControlInv, TypeOK, Thread, NoPage, PageNos, Scanned
    <2>3. PICK x \in RidT : x = <<p, s>>
      BY <2>2 DEF RidT
    <2>4. At(x)' # At(x) /\ x[1] = p /\ x[1] # page_count
      BY <2>1, <2>2, <2>3 DEF At, PageNos
    <2>5. ~RecoverInsertRecord
      <3>1. ASSUME RecoverInsertRecord PROVE FALSE
        <4>1. redo # <<>> /\ ControlInv
          BY <1>1, <3>1 DEF RecoverInsertRecord, IInv
        <4> QED
          BY <2>1, <4>1, NothingHeld DEF AllIdle, Idle
      <3> QED
        BY <3>1
    <2>6. PICK u \in Threads : \E U, r : ThreadStep(u, th[u], U, r)
      BY <1>1, <2>5, EveryStep
    <2>7. PICK U, r : ThreadStep(u, th[u], U, r)
      BY <2>6
    <2>8. PICK T : T = th[u]
      OBVIOUS
    <2>9. ThreadStep(u, T, U, r)
      BY <2>7, <2>8
    <2>10. PICK new \in Rec : Rewrites(u, T, U, r, x, new)
      BY <1>1, <2>4, <2>9, RecordsAfter
    <2>11. /\ U # T
           /\ t # u => T.pc = "process" /\ T.cur.rid = x /\ T.scan_page # x[1]
      BY <1>1, <2>1, <2>4, <2>9, <2>10, WriterMoves
    <2>12. th'[u] = U
      BY <1>1, <2>9, Moved DEF IInv, ControlInv
    <2> QED
      BY <2>1, <2>3, <2>4, <2>8, <2>11, <2>12
  <1>2. IInv /\ [Next]_vars => [LatchKeeps]_vars
    BY <1>1
  <1>3. []IInv /\ [][Next]_vars => [][LatchKeeps]_vars
    BY <1>2, PTL
  <1> QED
    BY <1>3, Invariance DEF Spec, LatchedRecordsKept
=============================================================================
