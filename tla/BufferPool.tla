------------------------------ MODULE BufferPool ------------------------------
(***************************************************************************)
(* The disk buffer pool of storage/buffer: one DiskBufferPool per file,    *)
(* all of them sharing the frames of one BPFrameManager.  Threads fetch    *)
(* pages (get_this_page), allocate and dispose of them, modify them and    *)
(* unpin them; a miss with no free frame evicts an unpinned page, perhaps  *)
(* of another file.  Three kinds of mutex are taken on the way, and a step *)
(* of the model is what happens between taking one and letting it go:      *)
(*   fm_owner    BPFrameManager::lock_   (the map of frames and the pins)  *)
(*   pool_owner  DiskBufferPool::lock_   (one per file)                    *)
(*   mgr_owner   BufferPoolManager::lock_                                  *)
(*                                                                         *)
(* A page's content is the number of modifications it has seen, a frame    *)
(* that has been mapped and not yet loaded holds Garbage.  The header page *)
(* has a frame, pinned from open_file to close_file and so never evicted;  *)
(* what it holds is kept apart as header.  Files stay open.  Reads and     *)
(* writes of the files succeed.                                            *)
(***************************************************************************)
EXTENDS Integers, FiniteSets

CONSTANTS
  Threads,     \* worker threads
  Files,       \* the files, each with a DiskBufferPool once it is open
  Frames,      \* the frames of the MemPoolSimple
  NoOne,       \* owner of a free mutex, and "no frame"
  NoPage,      \* identifier of a frame that is not mapped
  MaxPageNum,  \* BPFileHeader::MAX_PAGE_NUM
  MaxPages,    \* bound on the pages of all files, headers not counted
  MaxWrites    \* bound on the modifications of a page

ASSUME PoolAssumption ==
  /\ IsFiniteSet(Threads)
  /\ MaxPageNum \in Nat \ {0}
  /\ MaxPages \in Nat
  /\ MaxWrites \in Nat
  /\ NoOne \notin Threads \cup Frames

PageNums == 0 .. MaxPageNum - 1
FrameId == Files \X PageNums

ASSUME NoPageAssumption == NoPage \notin FrameId

Garbage == -1
Content == -1 .. MaxWrites

VARIABLES
  frame,       \* Frame objects: FrameId, pin_count_, dirty_, page data, and as
               \* history whether a change waits unmarked in a clean frame
  disk,        \* the pages in the files
  header,      \* BPFileHeader of each file, and whether the file is open
  fm_owner,
  pool_owner,
  mgr_owner,
  pc,          \* what each thread is doing
  call,        \* its call: the page, whether it is fetched, reused, added or a
               \* header being opened, the frame pinned, the other file's frame
               \* being evicted
  latest       \* history: the content the users of a page have given it

lockVars == <<fm_owner, pool_owner, mgr_owner>>
vars == <<frame, disk, header, lockVars, pc, call, latest>>

Call == [id : FrameId \cup {NoPage}, kind : {"get", "reuse", "extend", "open"},
         frame : Frames \cup {NoOne}, victim : Frames \cup {NoOne}]

NoCall == [id |-> NoPage, kind |-> "get", frame |-> NoOne, victim |-> NoOne]

\* Where a thread stands; from "alloc" to "new" it holds its file's lock_, or,
\* when it opens the file, the manager's.
Steps == {"idle", "get", "miss", "alloc", "purge", "flush_mgr", "flush_pool",
          "load", "new", "using", "modified"}

TypeOK ==
  /\ frame \in [Frames -> [id : FrameId \cup {NoPage}, pin : Nat,
                           dirty : BOOLEAN, stamped : BOOLEAN, data : Content]]
  /\ disk \in [FrameId -> Content]
  /\ header \in [Files -> [page_count : 1 .. MaxPageNum, allocated_pages : Nat,
                           bitmap : SUBSET PageNums, open : BOOLEAN]]
  /\ fm_owner \in Threads \cup {NoOne}
  /\ pool_owner \in [Files -> Threads \cup {NoOne}]
  /\ mgr_owner \in Threads \cup {NoOne}
  /\ pc \in [Threads -> Steps]
  /\ call \in [Threads -> Call]
  /\ latest \in [FrameId -> Content]

\* BufferPoolManager::create_file: the header page only.
Init ==
  /\ frame = [f \in Frames |-> [id |-> NoPage, pin |-> 0, dirty |-> FALSE,
                                stamped |-> FALSE, data |-> Garbage]]
  /\ disk = [i \in FrameId |-> 0]
  /\ header = [d \in Files |-> [page_count |-> 1, allocated_pages |-> 1,
                                bitmap |-> {0}, open |-> FALSE]]
  /\ fm_owner = NoOne
  /\ pool_owner = [d \in Files |-> NoOne]
  /\ mgr_owner = NoOne
  /\ pc = [t \in Threads |-> "idle"]
  /\ call = [t \in Threads |-> NoCall]
  /\ latest = [i \in FrameId |-> 0]

-----------------------------------------------------------------------------
(* BPFrameManager.                                                         *)

FileOf(t) == call[t].id[1]
Mapped(id) == {f \in Frames : frame[f].id = id}
FreeFrames == {f \in Frames : frame[f].id = NoPage}

CanPurge(f) == frame[f].id /= NoPage /\ frame[f].pin = 0

\* The pages of the files, and those being added; only for the bound.
FilePages == {i \in FrameId : i[2] \in 1 .. header[i[1]].page_count - 1}
               \cup {call[t].id : t \in {u \in Threads : call[u].kind = "extend"}}

Goto(t, step) == pc' = [pc EXCEPT ![t] = step]
Unlock(d) == pool_owner' = [pool_owner EXCEPT ![d] = NoOne]

\* get_internal: the frame is pinned for the caller.
Pin(t, f) ==
  /\ frame' = [frame EXCEPT ![f].pin = @ + 1]
  /\ call' = [call EXCEPT ![t].frame = f]

\* alloc: the frame is published, pinned, before its page is loaded.
MapFrame(t, f) ==
  /\ frame' = [frame EXCEPT ![f] = [@ EXCEPT !.id = call[t].id, !.pin = 1,
                                             !.stamped = FALSE, !.data = Garbage]]
  /\ call' = [call EXCEPT ![t].frame = f]

\* free_internal after the page was written if it was dirty.
Evicted(f) == [frame[f] EXCEPT !.id = NoPage, !.pin = 0, !.dirty = FALSE, !.stamped = FALSE]

\* flush_page_internal.
Written(f) == [disk EXCEPT ![frame[f].id] = frame[f].data]

-----------------------------------------------------------------------------
(* DiskBufferPool.                                                         *)

\* BufferPoolManager::open_file: the manager's lock_ is held while
\* DiskBufferPool::open_file asks for a frame for the header page, without the
\* new pool's own lock_.
OpenFile(t, d) ==
  /\ pc[t] = "idle"
  /\ mgr_owner = NoOne
  /\ ~header[d].open
  /\ mgr_owner' = t
  /\ call' = [call EXCEPT ![t] = [NoCall EXCEPT !.id = <<d, 0>>, !.kind = "open"]]
  /\ Goto(t, "alloc")
  /\ UNCHANGED <<frame, disk, header, fm_owner, pool_owner, latest>>

\* The rest of both: the header is loaded and its frame stays pinned.
FinishOpen(t) ==
  /\ pc[t] = "load" /\ call[t].kind = "open"
  /\ frame' = [frame EXCEPT ![call[t].frame].data = disk[call[t].id]]
  /\ header' = [header EXCEPT ![FileOf(t)].open = TRUE]
  /\ mgr_owner' = NoOne
  /\ call' = [call EXCEPT ![t] = NoCall]
  /\ Goto(t, "idle")
  /\ UNCHANGED <<disk, fm_owner, pool_owner, latest>>

\* A thread asks for a page that is allocated.  A page allocated anew is not
\* referred to by anything until its allocator is done with it; only the pages
\* a file is extended by can be met before, by a scan of the bitmap.
GetThisPage(t, id) ==
  /\ pc[t] = "idle"
  /\ header[id[1]].open /\ id[2] \in header[id[1]].bitmap \ {0}
  /\ \A u \in Threads : call[u].id = id => call[u].kind /= "reuse"
  /\ call' = [call EXCEPT ![t] = [NoCall EXCEPT !.id = id]]
  /\ Goto(t, "get")
  /\ UNCHANGED <<frame, disk, header, lockVars, latest>>

\* Mutant: the frame manager's lock is kept while lock_ is taken.
FindPageKeepsLock(t) ==
  /\ pc[t] = "get"
  /\ fm_owner = NoOne
  /\ \/ /\ \E f \in Mapped(call[t].id) : Pin(t, f) /\ Goto(t, "using")
        /\ UNCHANGED fm_owner
     \/ /\ Mapped(call[t].id) = {}
        /\ fm_owner' = t
        /\ Goto(t, "miss")
        /\ UNCHANGED <<frame, call>>
  /\ UNCHANGED <<disk, header, pool_owner, mgr_owner, latest>>

\* get_this_page, without lock_: frame_manager_.get.
FindPage(t) ==
  /\ pc[t] = "get"
  /\ fm_owner = NoOne
  /\ \/ \E f \in Mapped(call[t].id) : Pin(t, f) /\ Goto(t, "using")
     \/ /\ Mapped(call[t].id) = {}
        /\ Goto(t, "miss")
        /\ UNCHANGED <<frame, call>>
  /\ UNCHANGED <<disk, header, lockVars, latest>>

LockPool(t) ==
  /\ pc[t] = "miss"
  /\ pool_owner[FileOf(t)] = NoOne
  /\ pool_owner' = [pool_owner EXCEPT ![FileOf(t)] = t]
  /\ Goto(t, "alloc")
  /\ UNCHANGED <<frame, disk, header, fm_owner, mgr_owner, call, latest>>

\* Mutant: alloc does not look whether the page has been mapped meanwhile.
AllocFrameNoLookup(t) ==
  /\ pc[t] = "alloc"
  /\ fm_owner = NoOne
  /\ \/ /\ \E f \in FreeFrames : MapFrame(t, f)
        /\ Goto(t, IF call[t].kind = "extend" THEN "new" ELSE "load")
     \/ /\ FreeFrames = {}
        /\ Goto(t, "purge")
        /\ UNCHANGED <<frame, call>>
  /\ UNCHANGED <<disk, header, lockVars, latest>>

\* One round of allocate_frame's loop: frame_manager_.alloc.
AllocFrame(t) ==
  /\ pc[t] = "alloc"
  /\ fm_owner = NoOne
  /\ \/ /\ \E f \in Mapped(call[t].id) : Pin(t, f)
        /\ Goto(t, IF call[t].kind = "extend" THEN "new" ELSE "load")
     \/ /\ Mapped(call[t].id) = {}
        /\ \E f \in FreeFrames : MapFrame(t, f)
        /\ Goto(t, IF call[t].kind = "extend" THEN "new" ELSE "load")
     \/ /\ Mapped(call[t].id) = {} /\ FreeFrames = {}
        /\ Goto(t, "purge")
        /\ UNCHANGED <<frame, call>>
  /\ UNCHANGED <<disk, header, lockVars, latest>>

\* frame_manager_.purge_frames up to the purger's flush_page: a page that is
\* clean, or of the thread's own file, is dealt with under the locks held;
\* for another file's page the frame manager's lock is kept and that file's
\* pool is asked to write it.  The code takes the least recently used of the
\* unpinned frames, the model any of them.  With no such frame allocate_frame
\* tries again.
PurgeFrames(t) ==
  /\ pc[t] = "purge"
  /\ fm_owner = NoOne
  /\ UNCHANGED <<header, pool_owner, mgr_owner, latest>>
  /\ \/ \E f \in Frames :
          /\ CanPurge(f)
          /\ ~frame[f].dirty \/ frame[f].id[1] = FileOf(t)
          /\ disk' = IF frame[f].dirty THEN Written(f) ELSE disk
          /\ frame' = [frame EXCEPT ![f] = Evicted(f)]
          /\ Goto(t, "alloc")
          /\ UNCHANGED <<fm_owner, call>>
     \/ \E f \in Frames :
          /\ CanPurge(f)
          /\ frame[f].dirty /\ frame[f].id[1] /= FileOf(t)
          /\ frame' = [frame EXCEPT ![f].pin = 1]
          /\ call' = [call EXCEPT ![t].victim = f]
          /\ fm_owner' = t
          /\ Goto(t, "flush_mgr")
          /\ UNCHANGED disk
     \/ /\ \A f \in Frames : ~CanPurge(f)
        /\ Goto(t, "alloc")
        /\ UNCHANGED <<frame, disk, fm_owner, call>>

\* BufferPoolManager::flush_page takes its own lock ...
LockManager(t) ==
  /\ pc[t] = "flush_mgr"
  /\ mgr_owner = NoOne
  /\ mgr_owner' = t
  /\ Goto(t, "flush_pool")
  /\ UNCHANGED <<frame, disk, header, fm_owner, pool_owner, call, latest>>

\* ... and then that of the other pool, writes the page and lets both go; back
\* in purge_frames the frame is freed and the frame manager's lock released.
FlushVictim(t) ==
  LET f == call[t].victim IN
  /\ pc[t] = "flush_pool"
  /\ pool_owner[frame[f].id[1]] = NoOne
  /\ disk' = Written(f)
  /\ frame' = [frame EXCEPT ![f] = Evicted(f)]
  /\ call' = [call EXCEPT ![t].victim = NoOne]
  /\ fm_owner' = NoOne
  /\ mgr_owner' = NoOne
  /\ Goto(t, "alloc")
  /\ UNCHANGED <<header, pool_owner, latest>>

\* load_page, and the end of get_this_page.
LoadPage(t) ==
  /\ pc[t] = "load" /\ call[t].kind /= "open"
  /\ frame' = [frame EXCEPT ![call[t].frame].data = disk[call[t].id],
                            ![call[t].frame].stamped = FALSE]
  /\ Unlock(FileOf(t))
  /\ Goto(t, "using")
  /\ UNCHANGED <<disk, header, fm_owner, mgr_owner, call, latest>>

\* allocate_page up to allocate_frame: the first page the bitmap has free is
\* fetched like any other, otherwise the file is extended.
AllocatePage(t, d) ==
  LET h    == header[d]
      free == {i \in 0 .. h.page_count - 1 : i \notin h.bitmap}
  IN
  /\ pc[t] = "idle" /\ header[d].open
  /\ pool_owner[d] = NoOne
  /\ UNCHANGED <<frame, disk, fm_owner, mgr_owner, latest>>
  /\ \/ /\ h.allocated_pages < h.page_count
        /\ \E i \in free :
             /\ \A j \in free : i <= j
             /\ header' = [header EXCEPT ![d].allocated_pages = @ + 1,
                                         ![d].bitmap = @ \cup {i}]
             /\ call' = [call EXCEPT ![t] = [NoCall EXCEPT !.id = <<d, i>>,
                                                           !.kind = "reuse"]]
        /\ Goto(t, "get")
        /\ UNCHANGED pool_owner
     \/ /\ h.allocated_pages >= h.page_count \/ free = {}
        /\ h.page_count < MaxPageNum
        /\ Cardinality(FilePages) < MaxPages
        /\ call' = [call EXCEPT ![t] = [NoCall EXCEPT !.id = <<d, h.page_count>>,
                                                      !.kind = "extend"]]
        /\ pool_owner' = [pool_owner EXCEPT ![d] = t]
        /\ Goto(t, "alloc")
        /\ UNCHANGED header

\* The rest of allocate_page: the header, the cleared page, flush_page_internal.
ExtendFile(t) ==
  LET d == FileOf(t)
      f == call[t].frame
  IN
  /\ pc[t] = "new"
  /\ header' = [header EXCEPT ![d].allocated_pages = @ + 1,
                              ![d].page_count = @ + 1,
                              ![d].bitmap = @ \cup {header[d].page_count}]
  /\ frame' = [frame EXCEPT ![f].data = 0, ![f].dirty = FALSE, ![f].stamped = FALSE]
  /\ disk' = [disk EXCEPT ![call[t].id] = 0]
  /\ latest' = [latest EXCEPT ![call[t].id] = 0]
  /\ Unlock(d)
  /\ Goto(t, "using")
  /\ UNCHANGED <<fm_owner, mgr_owner, call>>

\* dispose_page, called by LatchMemo::release for a page nobody refers to any
\* more.  A page that is not in memory is not found and stays allocated.  The
\* frame goes back to the free ones with its dirty flag as it was.
DisposePage(t, id) ==
  /\ pc[t] = "idle" /\ id[2] /= 0
  /\ fm_owner = NoOne /\ pool_owner[id[1]] = NoOne
  /\ \A u \in Threads : call[u].id /= id
  /\ \E f \in Mapped(id) :
       /\ frame[f].pin = 0
       /\ frame' = [frame EXCEPT ![f].id = NoPage]
  /\ header' = [header EXCEPT ![id[1]].allocated_pages = @ - 1,
                              ![id[1]].bitmap = @ \ {id[2]}]
  /\ latest' = [latest EXCEPT ![id] = disk[id]]
  /\ UNCHANGED <<disk, lockVars, pc, call>>

\* flush_all_pages, called by BplusTreeHandler::create through sync while the
\* new index has only its own header page and no other user: find_list pins
\* the file's two frames, and nothing unpins them again.
FlushAllPages(t, d) ==
  /\ pc[t] = "idle"
  /\ fm_owner = NoOne /\ pool_owner[d] = NoOne
  /\ header[d].page_count = 2
  /\ \A u \in Threads : call[u].id \notin {d} \X PageNums
  /\ \E f \in Mapped(<<d, 1>>) :
       /\ frame[f].pin = 0
       /\ disk' = Written(f)
       /\ frame' = [g \in Frames |->
            IF g = f THEN [frame[g] EXCEPT !.pin = @ + 1, !.dirty = FALSE, !.stamped = FALSE]
            ELSE IF frame[g].id = <<d, 0>> THEN [frame[g] EXCEPT !.pin = @ + 1]
            ELSE frame[g]]
  /\ UNCHANGED <<header, lockVars, pc, call, latest>>

-----------------------------------------------------------------------------
(* The users of a page: the record manager and the B+ tree.                *)

\* The page may be changed by t, under the frame's write latch.
CanModify(t) ==
  /\ pc[t] = "using"
  /\ \A u \in Threads : ~(pc[u] = "modified" /\ call[u].frame = call[t].frame)
  /\ latest[call[t].id] < MaxWrites

Changed(c) == IF c = Garbage THEN Garbage ELSE c + 1

\* The page is changed ...
Modify(t) ==
  /\ CanModify(t)
  /\ frame' = [frame EXCEPT ![call[t].frame].data = Changed(@)]
  /\ latest' = [latest EXCEPT ![call[t].id] = @ + 1]
  /\ Goto(t, "modified")
  /\ UNCHANGED <<disk, header, lockVars, call>>

\* Mutant: the modification is not marked.
MarkDirtySkipped(t) ==
  /\ pc[t] = "modified"
  /\ Goto(t, "using")
  /\ UNCHANGED <<frame, disk, header, lockVars, call, latest>>

\* ... and then marked.
MarkDirty(t) ==
  /\ pc[t] = "modified"
  /\ frame' = [frame EXCEPT ![call[t].frame].dirty = TRUE, ![call[t].frame].stamped = FALSE]
  /\ Goto(t, "using")
  /\ UNCHANGED <<disk, header, lockVars, call, latest>>

\* The changes that are not followed by mark_dirty: the begin_xid and end_xid
\* that commit, rollback and redo set through RecordFileHandler::visit_record
\* and delete_record and update_record set in place, and the neighbour's links
\* in BplusTreeHandler::coalesce.  They reach the file with a page that is
\* dirty for another reason.
Stamp(t) ==
  LET f == call[t].frame IN
  /\ CanModify(t)
  /\ frame' = [frame EXCEPT ![f].data = Changed(@), ![f].stamped = @ \/ ~frame[f].dirty]
  /\ latest' = [latest EXCEPT ![call[t].id] = @ + 1]
  /\ UNCHANGED <<disk, header, lockVars, pc, call>>

UnpinPage(t) ==
  /\ pc[t] = "using"
  /\ frame' = [frame EXCEPT ![call[t].frame].pin = @ - 1]
  /\ call' = [call EXCEPT ![t] = NoCall]
  /\ Goto(t, "idle")
  /\ UNCHANGED <<disk, header, lockVars, latest>>

-----------------------------------------------------------------------------
Next ==
  \E t \in Threads :
    \/ \E id \in FrameId : GetThisPage(t, id) \/ DisposePage(t, id)
    \/ \E d \in Files : OpenFile(t, d) \/ AllocatePage(t, d) \/ FlushAllPages(t, d)
    \/ FindPage(t) \/ LockPool(t) \/ AllocFrame(t) \/ PurgeFrames(t)
    \/ LockManager(t) \/ FlushVictim(t) \/ LoadPage(t) \/ FinishOpen(t)
    \/ ExtendFile(t) \/ Modify(t) \/ MarkDirty(t) \/ Stamp(t) \/ UnpinPage(t)

Spec == Init /\ [][Next]_vars

-----------------------------------------------------------------------------
(* Properties.                                                             *)

\* A page has at most one frame, though two threads may miss it at once and
\* both go on to allocate_frame.
OneFramePerPage ==
  \A f, g \in Frames :
    f /= g /\ frame[f].id /= NoPage => frame[f].id /= frame[g].id

\* A frame that a thread has been handed, or is loading, still holds its page:
\* no eviction, whoever runs it, takes a pinned frame (the assertion of
\* free_internal that the pin count is the evictor's own).
PinnedStaysMapped ==
  \A t \in Threads : call[t].frame /= NoOne =>
    /\ frame[call[t].frame].id = call[t].id
    /\ frame[call[t].frame].pin
         >= Cardinality({u \in Threads : call[u].frame = call[t].frame})

\* The header is exact: allocated_pages counts the bitmap, no page beyond
\* page_count is allocated, and a page that is free has no frame unless it is
\* the one its thread is about to extend the file with.
HeaderExact ==
  \A d \in Files :
    /\ header[d].allocated_pages = Cardinality(header[d].bitmap)
    /\ header[d].bitmap \subseteq 0 .. header[d].page_count - 1
    /\ \A f \in Frames :
         frame[f].id /= NoPage /\ frame[f].id[1] = d
           => \/ frame[f].id[2] \in header[d].bitmap
              \/ \E t \in Threads : call[t].kind = "extend" /\ call[t].frame = f

\* The content a reader of the page would be given now.
Visible(id) ==
  IF \E f \in Mapped(id) : frame[f].data /= Garbage
  THEN frame[CHOOSE f \in Mapped(id) : TRUE].data
  ELSE disk[id]

\* A page falls behind its users in three ways only: a thread that missed it
\* loads it over a frame that another thread has loaded meanwhile; a thread
\* modifies a frame it was handed before the page was loaded; or a clean frame
\* is evicted with a change that was not marked.  A marked change survives
\* every eviction, allocation, flush and unpin.
LossesNamed ==
  [][\A id \in FrameId : Visible(id) = latest[id] /\ Visible(id)' /= latest'[id]
       => \/ \E t \in Threads :
               /\ call[t].id = id
               /\ \/ pc[t] = "load" /\ frame[call[t].frame].data /= Garbage
                  \/ pc[t] = "using" /\ frame[call[t].frame].data = Garbage
          \/ \E f \in Mapped(id) :
               /\ CanPurge(f) /\ ~frame[f].dirty /\ frame[f].stamped
               /\ frame'[f].id = NoPage]_vars

\* Thread t waits for a mutex that u holds.
WaitsFor(t, u) ==
  \/ pc[t] \in {"get", "alloc", "purge"} /\ fm_owner = u
  \/ pc[t] = "miss" /\ pool_owner[FileOf(t)] = u
  \/ pc[t] = "flush_mgr" /\ mgr_owner = u
  \/ pc[t] = "flush_pool" /\ pool_owner[frame[call[t].victim].id[1]] = u

\* The mutexes have no common order: allocate_frame takes the frame manager's
\* inside its file's lock_, open_file inside the manager's, and the purger asks
\* for the manager's and then for the lock_ of the victim's file inside the
\* frame manager's.  Every wait cycle of one or two threads is through such a
\* purger: it waits for the file of a thread about to enter the frame manager,
\* or for the manager's lock_ that a thread opening a file has, which may be
\* the purger itself.
CyclesOnlyInPurge ==
  \A t, u \in Threads :
    WaitsFor(t, u) /\ WaitsFor(u, t)
      => \E p \in {t, u} :
           /\ fm_owner = p
           /\ \/ pc[p] = "flush_pool" /\ t /= u
              \/ pc[p] = "flush_mgr" /\ \E o \in {t, u} : mgr_owner = o /\ call[o].kind = "open"

\* The frames and the header agree in every interleaving of allocation,
\* disposal, eviction and pinning.
FramesExact == OneFramePerPage /\ PinnedStaysMapped /\ HeaderExact
=============================================================================
