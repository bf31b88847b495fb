--------------------------- MODULE BufferPoolProofs ---------------------------
(***************************************************************************)
(* The buffer pool for any number of threads, files and frames.            *)
(*                                                                         *)
(* FramesExact is not inductive.  What a thread may do with a frame or a   *)
(* header follows from where it stands in its call (Calls), from the       *)
(* mutexes it has there (Locks) and from the page it is after (Pages); a   *)
(* frame that is being written back for another thread has no user         *)
(* (Victims); a frame has at least as many pins as users (Pins).  What a   *)
(* page's content may be follows from who is loading it (Loading) and from *)
(* whether it has been marked since it was changed (Clean).                *)
(***************************************************************************)
EXTENDS BufferPool, TLAPS, FiniteSetTheorems

\* Where a thread has its file's lock_ or opens the file, where it has pinned a
\* frame, and where it has the frame manager's lock for another file's page.
Locked == {"alloc", "purge", "flush_mgr", "flush_pool", "load", "new"}
Pinning == {"load", "new", "using", "modified"}
Flushing == {"flush_mgr", "flush_pool"}

Users(f) == {t \in Threads : call[t].frame = f}

\* What the control state of a thread says about its call.
Calls ==
  \A t \in Threads :
    /\ pc[t] = "idle" => call[t] = NoCall
    /\ pc[t] /= "idle" => call[t].id \in FrameId
    /\ pc[t] \in Pinning <=> call[t].frame \in Frames
    /\ pc[t] \in Flushing <=> call[t].victim \in Frames
    /\ pc[t] \in {"get", "miss", "load"} => call[t].kind /= "extend"
    /\ pc[t] = "new" => call[t].kind = "extend"
    /\ call[t].kind = "open" => pc[t] \in Locked \ {"new"} /\ call[t].id[2] = 0

\* Who has which mutex.
Locks ==
  \A t \in Threads :
    /\ fm_owner = t <=> pc[t] \in Flushing
    /\ mgr_owner = t <=> (pc[t] = "flush_pool" \/ call[t].kind = "open")
    /\ pc[t] = "flush_pool" => call[t].kind /= "open"
    /\ \A d \in Files :
         pool_owner[d] = t <=> pc[t] \in Locked /\ call[t].kind /= "open" /\ FileOf(t) = d

\* A frame being written back holds another file's page and nobody uses it.
Victims ==
  \A t \in Threads :
    pc[t] \in Flushing => /\ frame[call[t].victim].id \in FrameId
                          /\ frame[call[t].victim].id[1] /= FileOf(t)
                          /\ \A u \in Threads : call[u].frame /= call[t].victim

\* The page of a call is allocated; the one a file is being extended by is the
\* first after its end.
Extending(t) == call[t].kind = "extend" /\ pc[t] \in Locked
Pages ==
  \A t \in Threads :
    pc[t] /= "idle" =>
      /\ Extending(t) => call[t].id[2] = header[FileOf(t)].page_count
      /\ ~Extending(t) => call[t].id[2] \in header[FileOf(t)].bitmap

HeaderCounts ==
  \A d \in Files :
    /\ header[d].allocated_pages = Cardinality(header[d].bitmap)
    /\ header[d].bitmap \subseteq 0 .. header[d].page_count - 1
    /\ 0 \in header[d].bitmap

\* A mapped page is allocated, or its file is being extended by it.
FramesAllocated ==
  \A f \in Frames :
    frame[f].id /= NoPage
      => \/ frame[f].id[2] \in header[frame[f].id[1]].bitmap
         \/ \E t \in Threads : pc[t] = "new" /\ call[t].frame = f

\* The frame of a call holds the page of the call.
Held == \A t \in Threads : call[t].frame \in Frames => frame[call[t].frame].id = call[t].id

Pins == \A f \in Frames : frame[f].pin >= Cardinality(Users(f))

\* No copy of a page is ahead of its users, and files hold no garbage.
Bounded ==
  /\ \A id \in FrameId : disk[id] \in 0 .. latest[id]
  /\ \A f \in Frames : frame[f].id /= NoPage => frame[f].data <= latest[frame[f].id]

\* A mapped frame without content has a thread that is about to give it one.
Loading ==
  \A f \in Frames :
    frame[f].id /= NoPage /\ frame[f].data = Garbage
      => \E t \in Threads : pc[t] \in {"load", "new"} /\ call[t].frame = f

\* A frame that is not marked has the content of the file, a thread that is
\* about to mark it, or a change nobody marks.
Clean ==
  \A f \in Frames :
    frame[f].id /= NoPage /\ frame[f].data /= Garbage /\ ~frame[f].dirty
      => \/ frame[f].data = disk[frame[f].id]
         \/ frame[f].stamped
         \/ \E t \in Threads : pc[t] = "modified" /\ call[t].frame = f

ControlInv == TypeOK /\ Calls /\ Locks
FrameInv == Victims /\ Held /\ Pins /\ OneFramePerPage
HeaderInv == Pages /\ HeaderCounts /\ FramesAllocated
ContentInv == Bounded /\ Loading /\ Clean

IInv == ControlInv /\ FrameInv /\ HeaderInv /\ ContentInv

-----------------------------------------------------------------------------
(* Contents, pages and users.                                              *)

\* Content is a range of numbers from Garbage on.
LEMMA ContentRange == Garbage \in Content /\ 0 \in Content /\ \A n \in Int : n \in Content <=> -1 <= n /\ n <= MaxWrites
  BY PoolAssumption DEF Content, Garbage

\* A file has finitely many pages.
LEMMA BitmapFinite ==
  ASSUME NEW B \in SUBSET PageNums
  PROVE  IsFiniteSet(B) /\ Cardinality(B) \in Nat
  <1>1. IsFiniteSet(PageNums)
    BY FS_Interval, PoolAssumption DEF PageNums
  <1> QED
    BY <1>1, FS_Subset, FS_CardinalityType

\* A frame has finitely many users.
LEMMA UsersFinite ==
  ASSUME NEW f
  PROVE  IsFiniteSet(Users(f)) /\ Cardinality(Users(f)) \in Nat
  <1>1. Users(f) \in SUBSET Threads
    BY DEF Users
  <1> QED
    BY <1>1, FS_Subset, FS_CardinalityType, PoolAssumption

\* A frame without pins has no users, one with a user has a pin.
LEMMA UnpinnedUnused ==
  ASSUME TypeOK, Pins, NEW f \in Frames
  PROVE  frame[f].pin = 0 => \A u \in Threads : call[u].frame /= f
  <1>1. Cardinality(Users(f)) \in Nat /\ frame[f].pin \in Nat /\ frame[f].pin >= Cardinality(Users(f))
    BY UsersFinite DEF TypeOK, Pins
  <1>2. frame[f].pin = 0 => Users(f) = {}
    BY <1>1, UsersFinite, FS_EmptySet
  <1> QED
    BY <1>2 DEF Users

-----------------------------------------------------------------------------
(* The invariant holds initially.                                          *)

\* A set of files with nothing but their header pages satisfies the invariant.
LEMMA InvInit == Init => IInv
  <1> SUFFICES ASSUME Init PROVE IInv
    OBVIOUS
  <1> USE DEF Init
  <1>1. TypeOK
    <2>1. NoCall \in Call
      BY DEF NoCall, Call
    <2>2. 0 \in PageNums /\ 1 \in 1 .. MaxPageNum
      BY PoolAssumption DEF PageNums
    <2>3. "idle" \in Steps
      BY DEF Steps
    <2>4. /\ frame \in [Frames -> [id : FrameId \cup {NoPage}, pin : Nat, dirty : BOOLEAN, stamped : BOOLEAN, data : Content]]
          /\ disk \in [FrameId -> Content] /\ latest \in [FrameId -> Content]
      BY ContentRange
    <2>5. header \in [Files -> [page_count : 1 .. MaxPageNum, allocated_pages : Nat, bitmap : SUBSET PageNums, open : BOOLEAN]]
      BY <2>2
    <2> QED
      BY <2>1, <2>3, <2>4, <2>5 DEF TypeOK
  <1>2. Calls /\ Locks
    BY PoolAssumption DEF Calls, Locks, NoCall, Locked, Pinning, Flushing
  <1>3. \A f \in Frames : Users(f) = {} /\ Cardinality(Users(f)) = 0
    BY PoolAssumption, FS_EmptySet DEF Users, NoCall
  <1>4. FrameInv
    BY <1>3, PoolAssumption DEF FrameInv, Victims, Held, Pins, OneFramePerPage, Flushing, NoCall
  <1>5. HeaderInv
    <2>1. Cardinality({0}) = 1
      BY FS_Singleton
    <2>2. HeaderCounts
      <3> SUFFICES ASSUME NEW d \in Files
                   PROVE  /\ header[d].allocated_pages = Cardinality(header[d].bitmap)
                          /\ header[d].bitmap \subseteq 0 .. header[d].page_count - 1
                          /\ 0 \in header[d].bitmap
        BY DEF HeaderCounts
      <3>1. header[d].allocated_pages = 1 /\ header[d].bitmap = {0} /\ header[d].page_count = 1
        OBVIOUS
      <3>2. {0} \subseteq 0 .. 1 - 1
        OBVIOUS
      <3> HIDE DEF Init
      <3> QED
        BY <2>1, <3>1, <3>2
    <2>3. Pages /\ FramesAllocated
      BY DEF Pages, FramesAllocated
    <2> QED
      BY <2>2, <2>3 DEF HeaderInv
  <1>6. ContentInv
    BY DEF ContentInv, Bounded, Loading, Clean
  <1> QED
    BY <1>1, <1>2, <1>4, <1>5, <1>6 DEF IInv, ControlInv

-----------------------------------------------------------------------------
(* The steps of a thread, one for each outcome.                            *)

\* The type of a frame.
FrameType == [id : FrameId \cup {NoPage}, pin : Nat, dirty : BOOLEAN, stamped : BOOLEAN, data : Content]

\* dispose_page of the page in frame f.
DisposeFrame(t, id, f) ==
  /\ id \in FrameId /\ f \in Frames /\ id[2] /= 0
  /\ pc[t] = "idle" /\ fm_owner = NoOne /\ pool_owner[id[1]] = NoOne
  /\ \A u \in Threads : call[u].id /= id
  /\ frame[f].id = id /\ frame[f].pin = 0
  /\ frame' = [frame EXCEPT ![f].id = NoPage]
  /\ header' = [header EXCEPT ![id[1]].allocated_pages = @ - 1, ![id[1]].bitmap = @ \ {id[2]}]
  /\ latest' = [latest EXCEPT ![id] = disk[id]]
  /\ UNCHANGED <<disk, lockVars, pc, call>>

\* allocate_page takes page i from the bitmap ...
ReusePage(t, d, i) ==
  /\ d \in Files /\ i \in PageNums
  /\ pc[t] = "idle" /\ pool_owner[d] = NoOne
  /\ i \in 0 .. header[d].page_count - 1 /\ i \notin header[d].bitmap
  /\ header' = [header EXCEPT ![d].allocated_pages = @ + 1, ![d].bitmap = @ \cup {i}]
  /\ call' = [call EXCEPT ![t] = [NoCall EXCEPT !.id = <<d, i>>, !.kind = "reuse"]]
  /\ Goto(t, "get")
  /\ UNCHANGED <<frame, disk, lockVars, latest>>

\* ... or goes on to extend the file.
AddPage(t, d) ==
  /\ d \in Files
  /\ pc[t] = "idle" /\ pool_owner[d] = NoOne /\ header[d].page_count < MaxPageNum
  /\ call' = [call EXCEPT ![t] = [NoCall EXCEPT !.id = <<d, header[d].page_count>>, !.kind = "extend"]]
  /\ pool_owner' = [pool_owner EXCEPT ![d] = t]
  /\ Goto(t, "alloc")
  /\ UNCHANGED <<frame, disk, header, fm_owner, mgr_owner, latest>>

\* flush_all_pages of a file whose one page is in frame f.
FlushFrame(t, d, f) ==
  /\ d \in Files /\ f \in Frames
  /\ pc[t] = "idle" /\ fm_owner = NoOne /\ pool_owner[d] = NoOne
  /\ frame[f].id \in FrameId /\ frame[f].pin = 0
  /\ disk' = Written(f)
  /\ frame' \in [Frames -> FrameType]
  /\ \A g \in Frames :
       /\ frame'[g].id = frame[g].id /\ frame'[g].data = frame[g].data
       /\ frame'[g].pin = frame[g].pin \/ frame'[g].pin = frame[g].pin + 1
       /\ g /= f => frame'[g].dirty = frame[g].dirty /\ frame'[g].stamped = frame[g].stamped
  /\ UNCHANGED <<header, lockVars, pc, call, latest>>

\* get_this_page finds its page in frame f, or not.
FoundPage(t, f) ==
  /\ f \in Frames
  /\ pc[t] = "get" /\ fm_owner = NoOne /\ frame[f].id = call[t].id
  /\ Pin(t, f)
  /\ Goto(t, "using")
  /\ UNCHANGED <<disk, header, lockVars, latest>>

MissedPage(t) ==
  /\ pc[t] = "get"
  /\ Goto(t, "miss")
  /\ UNCHANGED <<frame, disk, header, lockVars, call, latest>>

\* alloc finds the page mapped, maps it in a free frame, or finds none.
FoundFrame(t, f) ==
  /\ f \in Frames
  /\ pc[t] = "alloc" /\ fm_owner = NoOne /\ frame[f].id = call[t].id
  /\ Pin(t, f)
  /\ Goto(t, IF call[t].kind = "extend" THEN "new" ELSE "load")
  /\ UNCHANGED <<disk, header, lockVars, latest>>

TakenFrame(t, f) ==
  /\ f \in Frames
  /\ pc[t] = "alloc" /\ fm_owner = NoOne
  /\ frame[f].id = NoPage /\ \A g \in Frames : frame[g].id /= call[t].id
  /\ MapFrame(t, f)
  /\ Goto(t, IF call[t].kind = "extend" THEN "new" ELSE "load")
  /\ UNCHANGED <<disk, header, lockVars, latest>>

NoFrame(t) ==
  /\ pc[t] = "alloc"
  /\ Goto(t, "purge")
  /\ UNCHANGED <<frame, disk, header, lockVars, call, latest>>

\* purge_frames frees frame f itself, has another file's pool write it, or
\* finds none.
PurgedHere(t, f) ==
  /\ f \in Frames
  /\ pc[t] = "purge" /\ fm_owner = NoOne /\ frame[f].id \in FrameId /\ frame[f].pin = 0
  /\ disk' = IF frame[f].dirty THEN Written(f) ELSE disk
  /\ frame' = [frame EXCEPT ![f] = Evicted(f)]
  /\ Goto(t, "alloc")
  /\ UNCHANGED <<header, lockVars, call, latest>>

PurgedThere(t, f) ==
  /\ f \in Frames
  /\ pc[t] = "purge" /\ fm_owner = NoOne /\ frame[f].id \in FrameId /\ frame[f].pin = 0
  /\ frame[f].id[1] /= FileOf(t)
  /\ frame' = [frame EXCEPT ![f].pin = 1]
  /\ call' = [call EXCEPT ![t].victim = f]
  /\ fm_owner' = t
  /\ Goto(t, "flush_mgr")
  /\ UNCHANGED <<disk, header, pool_owner, mgr_owner, latest>>

NothingToPurge(t) ==
  /\ pc[t] = "purge"
  /\ Goto(t, "alloc")
  /\ UNCHANGED <<frame, disk, header, lockVars, call, latest>>

\* A step of thread t.
Action(t, id, d, f, i) ==
  \/ id \in FrameId /\ GetThisPage(t, id)
  \/ DisposeFrame(t, id, f) \/ ReusePage(t, d, i) \/ AddPage(t, d) \/ FlushFrame(t, d, f)
  \/ FoundPage(t, f) \/ MissedPage(t) \/ LockPool(t)
  \/ FoundFrame(t, f) \/ TakenFrame(t, f) \/ NoFrame(t)
  \/ PurgedHere(t, f) \/ PurgedThere(t, f) \/ NothingToPurge(t)
  \/ LockManager(t) \/ FlushVictim(t) \/ LoadPage(t) \/ ExtendFile(t)
  \/ Modify(t) \/ MarkDirty(t) \/ UnpinPage(t)
  \/ d \in Files /\ OpenFile(t, d)
  \/ FinishOpen(t) \/ Stamp(t)

\* Every step of the specification is one of these.
LEMMA NextIsAction ==
  ASSUME TypeOK, Next
  PROVE  \E t \in Threads : \E id, d, f, i : Action(t, id, d, f, i)
  <1> PICK t \in Threads :
        \/ \E id \in FrameId : GetThisPage(t, id) \/ DisposePage(t, id)
        \/ \E d \in Files : OpenFile(t, d) \/ AllocatePage(t, d) \/ FlushAllPages(t, d)
        \/ FindPage(t) \/ LockPool(t) \/ AllocFrame(t) \/ PurgeFrames(t)
        \/ LockManager(t) \/ FlushVictim(t) \/ LoadPage(t) \/ FinishOpen(t)
        \/ ExtendFile(t) \/ Modify(t) \/ MarkDirty(t) \/ Stamp(t) \/ UnpinPage(t)
    BY DEF Next
  <1>1. ASSUME NEW id \in FrameId, GetThisPage(t, id)
        PROVE  \E j, d, f, i : Action(t, j, d, f, i)
    BY <1>1 DEF Action
  <1>2. ASSUME NEW id \in FrameId, DisposePage(t, id)
        PROVE  \E j, d, f, i : Action(t, j, d, f, i)
    <2>1. PICK f \in Frames : frame[f].id = id /\ frame[f].pin = 0 /\ frame' = [frame EXCEPT ![f].id = NoPage]
      BY <1>2 DEF DisposePage, Mapped
    <2>2. DisposeFrame(t, id, f)
      BY <1>2, <2>1 DEF DisposePage, DisposeFrame
    <2> QED
      BY <2>2 DEF Action
  <1>3. ASSUME NEW d \in Files, AllocatePage(t, d)
        PROVE  \E id, c, f, i : Action(t, id, c, f, i)
    <2>1. ASSUME NEW i \in 0 .. header[d].page_count - 1, i \notin header[d].bitmap,
                 header' = [header EXCEPT ![d].allocated_pages = @ + 1, ![d].bitmap = @ \cup {i}],
                 call' = [call EXCEPT ![t] = [NoCall EXCEPT !.id = <<d, i>>, !.kind = "reuse"]],
                 Goto(t, "get"), UNCHANGED pool_owner
          PROVE  i \in PageNums /\ ReusePage(t, d, i)
      <3>1. i \in PageNums
        BY <2>1, PoolAssumption DEF TypeOK, PageNums
      <3> QED
        BY <1>3, <2>1, <3>1 DEF AllocatePage, ReusePage, lockVars
    <2>2. CASE \E i \in {j \in 0 .. header[d].page_count - 1 : j \notin header[d].bitmap} :
                  /\ header' = [header EXCEPT ![d].allocated_pages = @ + 1, ![d].bitmap = @ \cup {i}]
                  /\ call' = [call EXCEPT ![t] = [NoCall EXCEPT !.id = <<d, i>>, !.kind = "reuse"]]
                  /\ Goto(t, "get") /\ UNCHANGED pool_owner
      <3>1. \E i \in PageNums : ReusePage(t, d, i)
        BY <2>1, <2>2
      <3> QED
        BY <3>1 DEF Action
    <2>3. CASE AddPage(t, d)
      BY <2>3 DEF Action
    <2> QED
      BY <1>3, <2>2, <2>3, ZenonT(60) DEF AllocatePage, AddPage
  <1>4. ASSUME NEW d \in Files, FlushAllPages(t, d)
        PROVE  \E id, c, f, i : Action(t, id, c, f, i)
    <2> DEFINE P(f, h) == [g \in Frames |->
                 IF g = f THEN [frame[g] EXCEPT !.pin = @ + 1, !.dirty = FALSE, !.stamped = FALSE]
                 ELSE IF frame[g].id = h THEN [frame[g] EXCEPT !.pin = @ + 1]
                 ELSE frame[g]]
    <2>1. PICK f \in Frames : frame[f].id = <<d, 1>> /\ frame[f].pin = 0 /\ disk' = Written(f)
                              /\ frame' = P(f, <<d, 0>>)
      BY <1>4, Zenon DEF FlushAllPages, Mapped
    <2>5. ASSUME NEW h
          PROVE  /\ P(f, h) \in [Frames -> FrameType]
                 /\ \A g \in Frames :
                      /\ P(f, h)[g].id = frame[g].id /\ P(f, h)[g].data = frame[g].data
                      /\ P(f, h)[g].pin = frame[g].pin \/ P(f, h)[g].pin = frame[g].pin + 1
                      /\ g /= f => P(f, h)[g].dirty = frame[g].dirty /\ P(f, h)[g].stamped = frame[g].stamped
      <3>1. frame \in [Frames -> FrameType]
        BY DEF TypeOK, FrameType
      <3>2. ASSUME NEW g \in Frames
            PROVE  /\ P(f, h)[g] \in FrameType
                   /\ P(f, h)[g].id = frame[g].id /\ P(f, h)[g].data = frame[g].data
                   /\ P(f, h)[g].pin = frame[g].pin \/ P(f, h)[g].pin = frame[g].pin + 1
                   /\ g /= f => P(f, h)[g].dirty = frame[g].dirty /\ P(f, h)[g].stamped = frame[g].stamped
        <4>1. frame[g] \in FrameType
          BY <3>1
        <4>2. CASE g = f
          <5>1. P(f, h)[g] = [frame[g] EXCEPT !.pin = @ + 1, !.dirty = FALSE, !.stamped = FALSE]
            BY <4>2, Zenon
          <5>2. [frame[g] EXCEPT !.pin = @ + 1, !.dirty = FALSE, !.stamped = FALSE] \in FrameType
            <6> DEFINE R == [frame[g] EXCEPT !.pin = @ + 1]
                       S == [R EXCEPT !.dirty = FALSE]
            <6>1. R \in FrameType
              BY ONLY <4>1 DEF FrameType
            <6> HIDE DEF R
            <6>2. S \in FrameType
              BY ONLY <6>1, Zenon DEF FrameType
            <6> HIDE DEF S
            <6>3. [S EXCEPT !.stamped = FALSE] \in FrameType
              BY ONLY <6>2, Zenon DEF FrameType
            <6> QED
              BY ONLY <6>3 DEF R, S
          <5> HIDE DEF P
          <5>3. P(f, h)[g].id = frame[g].id /\ P(f, h)[g].data = frame[g].data /\ P(f, h)[g].pin = frame[g].pin + 1
            BY ONLY <4>1, <5>1 DEF FrameType
          <5> QED
            BY ONLY <4>2, <5>1, <5>2, <5>3
        <4>3. CASE g /= f /\ frame[g].id = h
          <5>1. P(f, h)[g] = [frame[g] EXCEPT !.pin = @ + 1]
            BY <4>3, Zenon
          <5> HIDE DEF P
          <5> QED
            BY ONLY <4>1, <4>3, <5>1 DEF FrameType
        <4>4. CASE g /= f /\ frame[g].id /= h
          <5>1. P(f, h)[g] = frame[g]
            BY <4>4, Zenon
          <5> HIDE DEF P
          <5> QED
            BY ONLY <4>1, <4>4, <5>1 DEF FrameType
        <4> QED
          BY <4>2, <4>3, <4>4, Zenon
      <3>3. P(f, h) = [g \in Frames |-> P(f, h)[g]]
        BY Zenon
      <3> HIDE DEF P
      <3> QED
        BY <3>2, <3>3, Zenon
    <2> HIDE DEF P
    <2>6. frame' \in [Frames -> FrameType] /\ \A g \in Frames :
            /\ frame'[g].id = frame[g].id /\ frame'[g].data = frame[g].data
            /\ frame'[g].pin = frame[g].pin \/ frame'[g].pin = frame[g].pin + 1
            /\ g /= f => frame'[g].dirty = frame[g].dirty /\ frame'[g].stamped = frame[g].stamped
      BY <2>1, <2>5, Zenon
    <2>2. 1 \in PageNums
      <3>1. header[d].page_count = 2 /\ header[d].page_count \in 1 .. MaxPageNum
        BY <1>4 DEF FlushAllPages, TypeOK
      <3> QED
        BY <3>1, PoolAssumption DEF PageNums
    <2>3. frame[f].id \in FrameId
      BY <2>1, <2>2 DEF FrameId
    <2>4. FlushFrame(t, d, f)
      BY <1>4, <2>1, <2>3, <2>6, Zenon DEF FlushAllPages, FlushFrame
    <2> QED
      BY <2>4 DEF Action
  <1>5. CASE FindPage(t)
    <2>1. (\E f \in Frames : FoundPage(t, f)) \/ MissedPage(t)
      BY <1>5 DEF FindPage, FoundPage, MissedPage, Mapped
    <2> QED
      BY <2>1 DEF Action
  <1>6. CASE AllocFrame(t)
    <2>1. (\E f \in Frames : FoundFrame(t, f) \/ TakenFrame(t, f)) \/ NoFrame(t)
      BY <1>6 DEF AllocFrame, FoundFrame, TakenFrame, NoFrame, Mapped, FreeFrames
    <2> QED
      BY <2>1 DEF Action
  <1>7. CASE PurgeFrames(t)
    <2>1. \A f \in Frames : CanPurge(f) => frame[f].id \in FrameId /\ frame[f].pin = 0
      BY DEF CanPurge, TypeOK
    <2>2. (\E f \in Frames : PurgedHere(t, f) \/ PurgedThere(t, f)) \/ NothingToPurge(t)
      BY <1>7, <2>1 DEF PurgeFrames, PurgedHere, PurgedThere, NothingToPurge, lockVars
    <2> QED
      BY <2>2 DEF Action
  <1> QED
    BY <1>1, <1>2, <1>3, <1>4, <1>5, <1>6, <1>7 DEF Action

-----------------------------------------------------------------------------
(* The control state is kept.                                              *)

\* Every step of a thread takes its call to the next place.
LEMMA CallsKept ==
  ASSUME TypeOK, Calls,
         NEW t \in Threads, NEW id, NEW d, NEW f, NEW i, Action(t, id, d, f, i)
  PROVE  Calls'
  <1> USE DEF Goto, Unlock, lockVars, Pin, MapFrame, Evicted
  <1>1. CASE id \in FrameId /\ GetThisPage(t, id)
    BY <1>1, PoolAssumption DEF GetThisPage, TypeOK, Calls, Call, NoCall, Pinning, Flushing, Locked
  <1>2. CASE DisposeFrame(t, id, f)
    BY <1>2, PoolAssumption DEF DisposeFrame, TypeOK, Calls, Call, NoCall, Pinning, Flushing, Locked
  <1>3. CASE ReusePage(t, d, i)
    BY <1>3, PoolAssumption DEF ReusePage, TypeOK, Calls, Call, NoCall, Pinning, Flushing, Locked, FrameId, PageNums
  <1>4. CASE AddPage(t, d)
    BY <1>4, PoolAssumption DEF AddPage, TypeOK, Calls, Call, NoCall, Pinning, Flushing, Locked, FrameId, PageNums
  <1>5. CASE FlushFrame(t, d, f)
    BY <1>5, PoolAssumption DEF FlushFrame, TypeOK, Calls, Call, NoCall, Pinning, Flushing, Locked
  <1>6. CASE FoundPage(t, f)
    BY <1>6, PoolAssumption DEF FoundPage, TypeOK, Calls, Call, NoCall, Pinning, Flushing, Locked
  <1>7. CASE MissedPage(t)
    BY <1>7, PoolAssumption DEF MissedPage, TypeOK, Calls, Call, NoCall, Pinning, Flushing, Locked
  <1>8. CASE LockPool(t)
    BY <1>8, PoolAssumption DEF LockPool, TypeOK, Calls, Call, NoCall, Pinning, Flushing, Locked
  <1>9. CASE FoundFrame(t, f)
    BY <1>9, PoolAssumption DEF FoundFrame, TypeOK, Calls, Call, NoCall, Pinning, Flushing, Locked
  <1>10. CASE TakenFrame(t, f)
    BY <1>10, PoolAssumption DEF TakenFrame, TypeOK, Calls, Call, NoCall, Pinning, Flushing, Locked
  <1>11. CASE NoFrame(t)
    BY <1>11, PoolAssumption DEF NoFrame, TypeOK, Calls, Call, NoCall, Pinning, Flushing, Locked
  <1>12. CASE PurgedHere(t, f)
    BY <1>12, PoolAssumption DEF PurgedHere, TypeOK, Calls, Call, NoCall, Pinning, Flushing, Locked
  <1>13. CASE PurgedThere(t, f)
    BY <1>13, PoolAssumption DEF PurgedThere, TypeOK, Calls, Call, NoCall, Pinning, Flushing, Locked
  <1>14. CASE NothingToPurge(t)
    BY <1>14, PoolAssumption DEF NothingToPurge, TypeOK, Calls, Call, NoCall, Pinning, Flushing, Locked
  <1>15. CASE LockManager(t)
    BY <1>15, PoolAssumption DEF LockManager, TypeOK, Calls, Call, NoCall, Pinning, Flushing, Locked
  <1>16. CASE FlushVictim(t)
    BY <1>16, PoolAssumption DEF FlushVictim, TypeOK, Calls, Call, NoCall, Pinning, Flushing, Locked
  <1>17. CASE LoadPage(t)
    BY <1>17, PoolAssumption DEF LoadPage, TypeOK, Calls, Call, NoCall, Pinning, Flushing, Locked
  <1>18. CASE ExtendFile(t)
    BY <1>18, PoolAssumption DEF ExtendFile, TypeOK, Calls, Call, NoCall, Pinning, Flushing, Locked
  <1>19. CASE Modify(t)
    BY <1>19, PoolAssumption DEF Modify, CanModify, Changed, TypeOK, Calls, Call, NoCall, Pinning, Flushing, Locked
  <1>20. CASE MarkDirty(t)
    BY <1>20, PoolAssumption DEF MarkDirty, TypeOK, Calls, Call, NoCall, Pinning, Flushing, Locked
  <1>21. CASE UnpinPage(t)
    BY <1>21, PoolAssumption DEF UnpinPage, TypeOK, Calls, Call, NoCall, Pinning, Flushing, Locked
  <1>22. CASE d \in Files /\ OpenFile(t, d)
    BY <1>22, PoolAssumption DEF OpenFile, TypeOK, Calls, Call, NoCall, Pinning, Flushing, Locked, FrameId, PageNums
  <1>23. CASE FinishOpen(t)
    BY <1>23, PoolAssumption DEF FinishOpen, TypeOK, Calls, Call, NoCall, Pinning, Flushing, Locked
  <1>24. CASE Stamp(t)
    BY <1>24, PoolAssumption DEF Stamp, CanModify, Changed, TypeOK, Calls, Call, NoCall, Pinning, Flushing, Locked
  <1> QED
    BY <1>1, <1>2, <1>3, <1>4, <1>5, <1>6, <1>7, <1>8, <1>9, <1>10, <1>11,
       <1>12, <1>13, <1>14, <1>15, <1>16, <1>17, <1>18, <1>19, <1>20, <1>21, <1>22, <1>23, <1>24 DEF Action

\* Mutexes are taken and let go as the control state says.
LEMMA LocksKept ==
  ASSUME TypeOK, Calls, Locks,
         NEW t \in Threads, NEW id, NEW d, NEW f, NEW i, Action(t, id, d, f, i)
  PROVE  Locks'
  <1> USE DEF Goto, Unlock, lockVars, Pin, MapFrame, Evicted
  <1>1. CASE id \in FrameId /\ GetThisPage(t, id)
    BY <1>1, PoolAssumption DEF GetThisPage, TypeOK, Calls, Locks, Call, NoCall, FileOf, FrameId, Locked,
       Flushing
  <1>2. CASE DisposeFrame(t, id, f)
    BY <1>2, PoolAssumption DEF DisposeFrame, TypeOK, Calls, Locks, Call, NoCall, FileOf, FrameId,
       Locked, Flushing
  <1>3. CASE ReusePage(t, d, i)
    BY <1>3, PoolAssumption DEF ReusePage, TypeOK, Calls, Locks, Call, NoCall, FileOf, FrameId, Locked,
       Flushing
  <1>4. CASE AddPage(t, d)
    BY <1>4, PoolAssumption DEF AddPage, TypeOK, Calls, Locks, Call, NoCall, FileOf, FrameId, Locked,
       Flushing
  <1>5. CASE FlushFrame(t, d, f)
    BY <1>5, PoolAssumption DEF FlushFrame, TypeOK, Calls, Locks, Call, NoCall, FileOf, FrameId, Locked,
       Flushing
  <1>6. CASE FoundPage(t, f)
    BY <1>6, PoolAssumption DEF FoundPage, TypeOK, Calls, Locks, Call, NoCall, FileOf, FrameId, Locked,
       Flushing
  <1>7. CASE MissedPage(t)
    BY <1>7, PoolAssumption DEF MissedPage, TypeOK, Calls, Locks, Call, NoCall, FileOf, FrameId, Locked,
       Flushing
  <1>8. CASE LockPool(t)
    BY <1>8, PoolAssumption DEF LockPool, TypeOK, Calls, Locks, Call, NoCall, FileOf, FrameId, Locked,
       Flushing
  <1>9. CASE FoundFrame(t, f)
    BY <1>9, PoolAssumption DEF FoundFrame, TypeOK, Calls, Locks, Call, NoCall, FileOf, FrameId, Locked,
       Flushing
  <1>10. CASE TakenFrame(t, f)
    BY <1>10, PoolAssumption DEF TakenFrame, TypeOK, Calls, Locks, Call, NoCall, FileOf, FrameId, Locked,
       Flushing
  <1>11. CASE NoFrame(t)
    BY <1>11, PoolAssumption DEF NoFrame, TypeOK, Calls, Locks, Call, NoCall, FileOf, FrameId, Locked,
       Flushing
  <1>12. CASE PurgedHere(t, f)
    BY <1>12, PoolAssumption DEF PurgedHere, TypeOK, Calls, Locks, Call, NoCall, FileOf, FrameId, Locked,
       Flushing
  <1>13. CASE PurgedThere(t, f)
    BY <1>13, PoolAssumption DEF PurgedThere, TypeOK, Calls, Locks, Call, NoCall, FileOf, FrameId,
       Locked, Flushing
  <1>14. CASE NothingToPurge(t)
    BY <1>14, PoolAssumption DEF NothingToPurge, TypeOK, Calls, Locks, Call, NoCall, FileOf, FrameId,
       Locked, Flushing
  <1>15. CASE LockManager(t)
    BY <1>15, PoolAssumption DEF LockManager, TypeOK, Calls, Locks, Call, NoCall, FileOf, FrameId,
       Locked, Flushing
  <1>16. CASE FlushVictim(t)
    BY <1>16, PoolAssumption DEF FlushVictim, TypeOK, Calls, Locks, Call, NoCall, FileOf, FrameId,
       Locked, Flushing
  <1>17. CASE LoadPage(t)
    BY <1>17, PoolAssumption, SMTT(60) DEF LoadPage, TypeOK, Calls, Locks, Call, NoCall, FileOf, FrameId, Locked,
       Flushing
  <1>18. CASE ExtendFile(t)
    BY <1>18, PoolAssumption DEF ExtendFile, TypeOK, Calls, Locks, Call, NoCall, FileOf, FrameId, Locked,
       Flushing
  <1>19. CASE Modify(t)
    BY <1>19, PoolAssumption DEF Modify, CanModify, Changed, TypeOK, Calls, Locks, Call, NoCall, FileOf, FrameId, Locked,
       Flushing
  <1>20. CASE MarkDirty(t)
    BY <1>20, PoolAssumption DEF MarkDirty, TypeOK, Calls, Locks, Call, NoCall, FileOf, FrameId, Locked,
       Flushing
  <1>21. CASE UnpinPage(t)
    BY <1>21, PoolAssumption DEF UnpinPage, TypeOK, Calls, Locks, Call, NoCall, FileOf, FrameId, Locked,
       Flushing
  <1>22. CASE d \in Files /\ OpenFile(t, d)
    BY <1>22, PoolAssumption DEF OpenFile, TypeOK, Calls, Locks, Call, NoCall, FileOf, FrameId, Locked,
       Flushing
  <1>23. CASE FinishOpen(t)
    BY <1>23, PoolAssumption, SMTT(60) DEF FinishOpen, TypeOK, Calls, Locks, Call, NoCall, FileOf, FrameId, Locked,
       Flushing
  <1>24. CASE Stamp(t)
    BY <1>24, PoolAssumption DEF Stamp, CanModify, Changed, TypeOK, Calls, Locks, Call, NoCall, FileOf, FrameId, Locked,
       Flushing
  <1> QED
    BY <1>1, <1>2, <1>3, <1>4, <1>5, <1>6, <1>7, <1>8, <1>9, <1>10, <1>11,
       <1>12, <1>13, <1>14, <1>15, <1>16, <1>17, <1>18, <1>19, <1>20, <1>21, <1>22, <1>23, <1>24 DEF Action

\* Nobody is handed a frame that is being written back.
LEMMA VictimsKept ==
  ASSUME TypeOK, Calls, Locks, Victims, Held, Pins,
         NEW t \in Threads, NEW id, NEW d, NEW f, NEW i, Action(t, id, d, f, i)
  PROVE  Victims'
  <1> USE DEF Goto, Unlock, lockVars, Pin, MapFrame, Evicted
  <1>1. CASE id \in FrameId /\ GetThisPage(t, id)
    BY <1>1, PoolAssumption, NoPageAssumption, UnpinnedUnused DEF GetThisPage, TypeOK, Calls, Locks,
       Victims, FileOf, Held, NoCall, Flushing, Pinning
  <1>2. CASE DisposeFrame(t, id, f)
    BY <1>2, PoolAssumption, NoPageAssumption, UnpinnedUnused DEF DisposeFrame, TypeOK, Calls, Locks,
       Victims, FileOf, Held, NoCall, Flushing, Pinning
  <1>3. CASE ReusePage(t, d, i)
    BY <1>3, PoolAssumption, NoPageAssumption, UnpinnedUnused DEF ReusePage, TypeOK, Calls, Locks,
       Victims, FileOf, Held, NoCall, Flushing, Pinning
  <1>4. CASE AddPage(t, d)
    BY <1>4, PoolAssumption, NoPageAssumption, UnpinnedUnused DEF AddPage, TypeOK, Calls, Locks, Victims,
       FileOf, Held, NoCall, Flushing, Pinning
  <1>5. CASE FlushFrame(t, d, f)
    BY <1>5, PoolAssumption, NoPageAssumption, UnpinnedUnused DEF FlushFrame, TypeOK, Calls, Locks,
       Victims, FileOf, Held, NoCall, Flushing, Pinning
  <1>6. CASE FoundPage(t, f)
    BY <1>6, PoolAssumption, NoPageAssumption, UnpinnedUnused DEF FoundPage, TypeOK, Calls, Locks,
       Victims, FileOf, Held, NoCall, Flushing, Pinning
  <1>7. CASE MissedPage(t)
    BY <1>7, PoolAssumption, NoPageAssumption, UnpinnedUnused DEF MissedPage, TypeOK, Calls, Locks,
       Victims, FileOf, Held, NoCall, Flushing, Pinning
  <1>8. CASE LockPool(t)
    BY <1>8, PoolAssumption, NoPageAssumption, UnpinnedUnused DEF LockPool, TypeOK, Calls, Locks,
       Victims, FileOf, Held, NoCall, Flushing, Pinning
  <1>9. CASE FoundFrame(t, f)
    BY <1>9, PoolAssumption, NoPageAssumption, UnpinnedUnused DEF FoundFrame, TypeOK, Calls, Locks,
       Victims, FileOf, Held, NoCall, Flushing, Pinning
  <1>10. CASE TakenFrame(t, f)
    BY <1>10, PoolAssumption, NoPageAssumption, UnpinnedUnused DEF TakenFrame, TypeOK, Calls, Locks,
       Victims, FileOf, Held, NoCall, Flushing, Pinning
  <1>11. CASE NoFrame(t)
    BY <1>11, PoolAssumption, NoPageAssumption, UnpinnedUnused DEF NoFrame, TypeOK, Calls, Locks,
       Victims, FileOf, Held, NoCall, Flushing, Pinning
  <1>12. CASE PurgedHere(t, f)
    BY <1>12, PoolAssumption, NoPageAssumption, UnpinnedUnused DEF PurgedHere, TypeOK, Calls, Locks,
       Victims, FileOf, Held, NoCall, Flushing, Pinning
  <1>13. CASE PurgedThere(t, f)
    BY <1>13, PoolAssumption, NoPageAssumption, UnpinnedUnused DEF PurgedThere, TypeOK, Calls, Locks,
       Victims, FileOf, Held, NoCall, Flushing, Pinning
  <1>14. CASE NothingToPurge(t)
    BY <1>14, PoolAssumption, NoPageAssumption, UnpinnedUnused DEF NothingToPurge, TypeOK, Calls, Locks,
       Victims, FileOf, Held, NoCall, Flushing, Pinning
  <1>15. CASE LockManager(t)
    BY <1>15, PoolAssumption, NoPageAssumption, UnpinnedUnused DEF LockManager, TypeOK, Calls, Locks,
       Victims, FileOf, Held, NoCall, Flushing, Pinning
  <1>16. CASE FlushVictim(t)
    BY <1>16, PoolAssumption, NoPageAssumption, UnpinnedUnused DEF FlushVictim, TypeOK, Calls, Locks,
       Victims, FileOf, Held, NoCall, Flushing, Pinning
  <1>17. CASE LoadPage(t)
    BY <1>17, PoolAssumption, NoPageAssumption, UnpinnedUnused, SMTT(60) DEF LoadPage, TypeOK, Calls, Locks,
       Victims, FileOf, Held, NoCall, Flushing, Pinning
  <1>18. CASE ExtendFile(t)
    BY <1>18, PoolAssumption, NoPageAssumption, UnpinnedUnused DEF ExtendFile, TypeOK, Calls, Locks,
       Victims, FileOf, Held, NoCall, Flushing, Pinning
  <1>19. CASE Modify(t)
    BY <1>19, PoolAssumption, NoPageAssumption, UnpinnedUnused DEF Modify, CanModify, Changed, TypeOK, Calls, Locks, Victims,
       FileOf, Held, NoCall, Flushing, Pinning
  <1>20. CASE MarkDirty(t)
    BY <1>20, PoolAssumption, NoPageAssumption, UnpinnedUnused DEF MarkDirty, TypeOK, Calls, Locks,
       Victims, FileOf, Held, NoCall, Flushing, Pinning
  <1>21. CASE UnpinPage(t)
    BY <1>21, PoolAssumption, NoPageAssumption, UnpinnedUnused DEF UnpinPage, TypeOK, Calls, Locks,
       Victims, FileOf, Held, NoCall, Flushing, Pinning
  <1>22. CASE d \in Files /\ OpenFile(t, d)
    BY <1>22, PoolAssumption, NoPageAssumption, UnpinnedUnused DEF OpenFile, TypeOK, Calls, Locks, Victims,
       FileOf, Held, NoCall, Flushing, Pinning
  <1>23. CASE FinishOpen(t)
    BY <1>23, PoolAssumption, NoPageAssumption, UnpinnedUnused, SMTT(60) DEF FinishOpen, TypeOK, Calls, Locks,
       Victims, FileOf, Held, NoCall, Flushing, Pinning
  <1>24. CASE Stamp(t)
    BY <1>24, PoolAssumption, NoPageAssumption, UnpinnedUnused DEF Stamp, CanModify, Changed, TypeOK, Calls, Locks, Victims,
       FileOf, Held, NoCall, Flushing, Pinning
  <1> QED
    BY <1>1, <1>2, <1>3, <1>4, <1>5, <1>6, <1>7, <1>8, <1>9, <1>10, <1>11,
       <1>12, <1>13, <1>14, <1>15, <1>16, <1>17, <1>18, <1>19, <1>20, <1>21, <1>22, <1>23, <1>24 DEF Action

\* A frame in use keeps its page.
LEMMA HeldKept ==
  ASSUME TypeOK, Calls, Victims, Held, Pins,
         NEW t \in Threads, NEW id, NEW d, NEW f, NEW i, Action(t, id, d, f, i)
  PROVE  Held'
  <1> USE DEF Goto, Unlock, lockVars, Pin, MapFrame, Evicted
  <1>1. CASE id \in FrameId /\ GetThisPage(t, id)
    BY <1>1, PoolAssumption, NoPageAssumption, UnpinnedUnused DEF GetThisPage, TypeOK, Calls, Victims,
       Held, NoCall, Flushing, Pinning
  <1>2. CASE DisposeFrame(t, id, f)
    BY <1>2, PoolAssumption, NoPageAssumption, UnpinnedUnused DEF DisposeFrame, TypeOK, Calls, Victims,
       Held, NoCall, Flushing, Pinning
  <1>3. CASE ReusePage(t, d, i)
    BY <1>3, PoolAssumption, NoPageAssumption, UnpinnedUnused DEF ReusePage, TypeOK, Calls, Victims,
       Held, NoCall, Flushing, Pinning
  <1>4. CASE AddPage(t, d)
    BY <1>4, PoolAssumption, NoPageAssumption, UnpinnedUnused DEF AddPage, TypeOK, Calls, Victims, Held,
       NoCall, Flushing, Pinning
  <1>5. CASE FlushFrame(t, d, f)
    BY <1>5, PoolAssumption, NoPageAssumption, UnpinnedUnused DEF FlushFrame, TypeOK, Calls, Victims,
       Held, NoCall, Flushing, Pinning
  <1>6. CASE FoundPage(t, f)
    BY <1>6, PoolAssumption, NoPageAssumption, UnpinnedUnused DEF FoundPage, TypeOK, Calls, Victims,
       Held, NoCall, Flushing, Pinning
  <1>7. CASE MissedPage(t)
    BY <1>7, PoolAssumption, NoPageAssumption, UnpinnedUnused DEF MissedPage, TypeOK, Calls, Victims,
       Held, NoCall, Flushing, Pinning
  <1>8. CASE LockPool(t)
    BY <1>8, PoolAssumption, NoPageAssumption, UnpinnedUnused DEF LockPool, TypeOK, Calls, Victims, Held,
       NoCall, Flushing, Pinning
  <1>9. CASE FoundFrame(t, f)
    BY <1>9, PoolAssumption, NoPageAssumption, UnpinnedUnused DEF FoundFrame, TypeOK, Calls, Victims,
       Held, NoCall, Flushing, Pinning
  <1>10. CASE TakenFrame(t, f)
    BY <1>10, PoolAssumption, NoPageAssumption, UnpinnedUnused DEF TakenFrame, TypeOK, Calls, Victims,
       Held, NoCall, Flushing, Pinning
  <1>11. CASE NoFrame(t)
    BY <1>11, PoolAssumption, NoPageAssumption, UnpinnedUnused DEF NoFrame, TypeOK, Calls, Victims, Held,
       NoCall, Flushing, Pinning
  <1>12. CASE PurgedHere(t, f)
    BY <1>12, PoolAssumption, NoPageAssumption, UnpinnedUnused DEF PurgedHere, TypeOK, Calls, Victims,
       Held, NoCall, Flushing, Pinning
  <1>13. CASE PurgedThere(t, f)
    BY <1>13, PoolAssumption, NoPageAssumption, UnpinnedUnused DEF PurgedThere, TypeOK, Calls, Victims,
       Held, NoCall, Flushing, Pinning
  <1>14. CASE NothingToPurge(t)
    BY <1>14, PoolAssumption, NoPageAssumption, UnpinnedUnused DEF NothingToPurge, TypeOK, Calls,
       Victims, Held, NoCall, Flushing, Pinning
  <1>15. CASE LockManager(t)
    BY <1>15, PoolAssumption, NoPageAssumption, UnpinnedUnused DEF LockManager, TypeOK, Calls, Victims,
       Held, NoCall, Flushing, Pinning
  <1>16. CASE FlushVictim(t)
    BY <1>16, PoolAssumption, NoPageAssumption, UnpinnedUnused DEF FlushVictim, TypeOK, Calls, Victims,
       Held, NoCall, Flushing, Pinning
  <1>17. CASE LoadPage(t)
    BY <1>17, PoolAssumption, NoPageAssumption, UnpinnedUnused DEF LoadPage, TypeOK, Calls, Victims,
       Held, NoCall, Flushing, Pinning
  <1>18. CASE ExtendFile(t)
    BY <1>18, PoolAssumption, NoPageAssumption, UnpinnedUnused DEF ExtendFile, TypeOK, Calls, Victims,
       Held, NoCall, Flushing, Pinning
  <1>19. CASE Modify(t)
    BY <1>19, PoolAssumption, NoPageAssumption, UnpinnedUnused DEF Modify, CanModify, Changed, TypeOK, Calls, Victims, Held,
       NoCall, Flushing, Pinning
  <1>20. CASE MarkDirty(t)
    BY <1>20, PoolAssumption, NoPageAssumption, UnpinnedUnused DEF MarkDirty, TypeOK, Calls, Victims,
       Held, NoCall, Flushing, Pinning
  <1>21. CASE UnpinPage(t)
    BY <1>21, PoolAssumption, NoPageAssumption, UnpinnedUnused DEF UnpinPage, TypeOK, Calls, Victims,
       Held, NoCall, Flushing, Pinning
  <1>22. CASE d \in Files /\ OpenFile(t, d)
    BY <1>22, PoolAssumption, NoPageAssumption, UnpinnedUnused DEF OpenFile, TypeOK, Calls, Victims, Held,
       NoCall, Flushing, Pinning
  <1>23. CASE FinishOpen(t)
    BY <1>23, PoolAssumption, NoPageAssumption, UnpinnedUnused DEF FinishOpen, TypeOK, Calls, Victims,
       Held, NoCall, Flushing, Pinning
  <1>24. CASE Stamp(t)
    BY <1>24, PoolAssumption, NoPageAssumption, UnpinnedUnused DEF Stamp, CanModify, Changed, TypeOK, Calls, Victims, Held,
       NoCall, Flushing, Pinning
  <1> QED
    BY <1>1, <1>2, <1>3, <1>4, <1>5, <1>6, <1>7, <1>8, <1>9, <1>10, <1>11,
       <1>12, <1>13, <1>14, <1>15, <1>16, <1>17, <1>18, <1>19, <1>20, <1>21, <1>22, <1>23, <1>24 DEF Action

\* A page is mapped in at most one frame.
LEMMA OneFrameKept ==
  ASSUME TypeOK, Calls, OneFramePerPage,
         NEW t \in Threads, NEW id, NEW d, NEW f, NEW i, Action(t, id, d, f, i)
  PROVE  OneFramePerPage'
  <1> USE DEF Goto, Unlock, lockVars, Pin, MapFrame, Evicted
  <1>1. CASE id \in FrameId /\ GetThisPage(t, id)
    BY <1>1, PoolAssumption DEF GetThisPage, TypeOK, Calls, OneFramePerPage, Pinning, Flushing
  <1>2. CASE DisposeFrame(t, id, f)
    BY <1>2, PoolAssumption DEF DisposeFrame, TypeOK, Calls, OneFramePerPage, Pinning, Flushing
  <1>3. CASE ReusePage(t, d, i)
    BY <1>3, PoolAssumption DEF ReusePage, TypeOK, Calls, OneFramePerPage, Pinning, Flushing
  <1>4. CASE AddPage(t, d)
    BY <1>4, PoolAssumption DEF AddPage, TypeOK, Calls, OneFramePerPage, Pinning, Flushing
  <1>5. CASE FlushFrame(t, d, f)
    BY <1>5, PoolAssumption DEF FlushFrame, TypeOK, Calls, OneFramePerPage, Pinning, Flushing
  <1>6. CASE FoundPage(t, f)
    BY <1>6, PoolAssumption DEF FoundPage, TypeOK, Calls, OneFramePerPage, Pinning, Flushing
  <1>7. CASE MissedPage(t)
    BY <1>7, PoolAssumption DEF MissedPage, TypeOK, Calls, OneFramePerPage, Pinning, Flushing
  <1>8. CASE LockPool(t)
    BY <1>8, PoolAssumption DEF LockPool, TypeOK, Calls, OneFramePerPage, Pinning, Flushing
  <1>9. CASE FoundFrame(t, f)
    BY <1>9, PoolAssumption DEF FoundFrame, TypeOK, Calls, OneFramePerPage, Pinning, Flushing
  <1>10. CASE TakenFrame(t, f)
    BY <1>10, PoolAssumption DEF TakenFrame, TypeOK, Calls, OneFramePerPage, Pinning, Flushing
  <1>11. CASE NoFrame(t)
    BY <1>11, PoolAssumption DEF NoFrame, TypeOK, Calls, OneFramePerPage, Pinning, Flushing
  <1>12. CASE PurgedHere(t, f)
    BY <1>12, PoolAssumption DEF PurgedHere, TypeOK, Calls, OneFramePerPage, Pinning, Flushing
  <1>13. CASE PurgedThere(t, f)
    BY <1>13, PoolAssumption DEF PurgedThere, TypeOK, Calls, OneFramePerPage, Pinning, Flushing
  <1>14. CASE NothingToPurge(t)
    BY <1>14, PoolAssumption DEF NothingToPurge, TypeOK, Calls, OneFramePerPage, Pinning, Flushing
  <1>15. CASE LockManager(t)
    BY <1>15, PoolAssumption DEF LockManager, TypeOK, Calls, OneFramePerPage, Pinning, Flushing
  <1>16. CASE FlushVictim(t)
    BY <1>16, PoolAssumption DEF FlushVictim, TypeOK, Calls, OneFramePerPage, Pinning, Flushing
  <1>17. CASE LoadPage(t)
    BY <1>17, PoolAssumption DEF LoadPage, TypeOK, Calls, OneFramePerPage, Pinning, Flushing
  <1>18. CASE ExtendFile(t)
    BY <1>18, PoolAssumption DEF ExtendFile, TypeOK, Calls, OneFramePerPage, Pinning, Flushing
  <1>19. CASE Modify(t)
    BY <1>19, PoolAssumption DEF Modify, CanModify, Changed, TypeOK, Calls, OneFramePerPage, Pinning, Flushing
  <1>20. CASE MarkDirty(t)
    BY <1>20, PoolAssumption DEF MarkDirty, TypeOK, Calls, OneFramePerPage, Pinning, Flushing
  <1>21. CASE UnpinPage(t)
    BY <1>21, PoolAssumption DEF UnpinPage, TypeOK, Calls, OneFramePerPage, Pinning, Flushing
  <1>22. CASE d \in Files /\ OpenFile(t, d)
    BY <1>22, PoolAssumption DEF OpenFile, TypeOK, Calls, OneFramePerPage, Pinning, Flushing
  <1>23. CASE FinishOpen(t)
    BY <1>23, PoolAssumption DEF FinishOpen, TypeOK, Calls, OneFramePerPage, Pinning, Flushing
  <1>24. CASE Stamp(t)
    BY <1>24, PoolAssumption DEF Stamp, CanModify, Changed, TypeOK, Calls, OneFramePerPage, Pinning, Flushing
  <1> QED
    BY <1>1, <1>2, <1>3, <1>4, <1>5, <1>6, <1>7, <1>8, <1>9, <1>10, <1>11,
       <1>12, <1>13, <1>14, <1>15, <1>16, <1>17, <1>18, <1>19, <1>20, <1>21, <1>22, <1>23, <1>24 DEF Action

-----------------------------------------------------------------------------
(* The headers are kept.                                                   *)

\* The headers, with a count of pages not yet known to be positive.
HeaderT == [Files -> [page_count : 1 .. MaxPageNum, allocated_pages : Int, bitmap : SUBSET PageNums, open : BOOLEAN]]

\* dispose_page takes one page out of the header of its file.
Disposed(id) ==
  /\ \A e \in Files : header'[e].page_count = header[e].page_count
  /\ \A e \in Files : header'[e].bitmap = IF e = id[1] THEN header[e].bitmap \ {id[2]} ELSE header[e].bitmap
  /\ \A e \in Files : header'[e].allocated_pages
                        = IF e = id[1] THEN header[e].allocated_pages - 1 ELSE header[e].allocated_pages
  /\ header' \in HeaderT

\* What dispose_page makes of the headers.
LEMMA DisposedHeader ==
  ASSUME TypeOK, NEW t, NEW id, NEW f, DisposeFrame(t, id, f)
  PROVE  Disposed(id)
  <1> DEFINE H == [header EXCEPT ![id[1]].allocated_pages = @ - 1]
  <1>1. id[1] \in Files
    BY DEF DisposeFrame, FrameId
  <1>2. header' = [H EXCEPT ![id[1]].bitmap = @ \ {id[2]}]
    BY DEF DisposeFrame
  <1>3. /\ H \in HeaderT
        /\ \A e \in Files : /\ H[e].page_count = header[e].page_count /\ H[e].bitmap = header[e].bitmap
                            /\ H[e].allocated_pages
                                 = IF e = id[1] THEN header[e].allocated_pages - 1 ELSE header[e].allocated_pages
    BY <1>1 DEF TypeOK, HeaderT
  <1> HIDE DEF H
  <1>4. ASSUME NEW e \in Files
        PROVE  /\ header'[e].page_count = H[e].page_count
               /\ header'[e].allocated_pages = H[e].allocated_pages
               /\ header'[e].bitmap = IF e = id[1] THEN H[e].bitmap \ {id[2]} ELSE H[e].bitmap
    <2>1. CASE e = id[1]
      <3>1. header'[e] = [H[e] EXCEPT !.bitmap = H[e].bitmap \ {id[2]}]
        BY <1>2, <1>3, <2>1 DEF HeaderT
      <3> QED
        BY <1>3, <2>1, <3>1 DEF HeaderT
    <2>2. CASE e /= id[1]
      BY <1>2, <1>3, <2>2 DEF HeaderT
    <2> QED
      BY <2>1, <2>2
  <1>5. header' \in HeaderT
    BY <1>1, <1>2, <1>3 DEF HeaderT
  <1>6. \A e \in Files : header'[e].page_count = header[e].page_count
    BY <1>3, <1>4
  <1>7. \A e \in Files : header'[e].bitmap = IF e = id[1] THEN header[e].bitmap \ {id[2]} ELSE header[e].bitmap
    BY <1>3, <1>4, ZenonT(60)
  <1>8. \A e \in Files : header'[e].allocated_pages
                          = IF e = id[1] THEN header[e].allocated_pages - 1 ELSE header[e].allocated_pages
    BY <1>3, <1>4, ZenonT(60)
  <1> QED
    BY <1>5, <1>6, <1>7, <1>8 DEF Disposed

\* The page of a call stays allocated, or stays the one after the end of the
\* file.
LEMMA PagesKept ==
  ASSUME TypeOK, Calls, Locks, Pages, HeaderCounts, FramesAllocated,
         NEW t \in Threads, NEW id, NEW d, NEW f, NEW i, Action(t, id, d, f, i)
  PROVE  Pages'
  <1> USE DEF Goto, Unlock, lockVars, Pin, MapFrame, Evicted
  <1>1. CASE id \in FrameId /\ GetThisPage(t, id)
    BY <1>1, PoolAssumption DEF GetThisPage, TypeOK, Calls, Locks, Pages, Extending, FileOf, FrameId,
       NoCall, Locked, Flushing
  <1>2. CASE DisposeFrame(t, id, f)
    <2>1. id \in FrameId /\ id[1] \in Files
      BY <1>2 DEF DisposeFrame, FrameId
    <2>2. /\ \A e \in Files : header'[e].page_count = header[e].page_count
          /\ \A e \in Files : header'[e].bitmap = IF e = id[1] THEN header[e].bitmap \ {id[2]} ELSE header[e].bitmap
      <3>1. Disposed(id)
        BY ONLY <1>2, TypeOK, DisposedHeader
      <3> QED
        BY ONLY <3>1 DEF Disposed
    <2>3. \A u \in Threads :
            pc[u] /= "idle" => /\ FileOf(u) \in Files
                               /\ FileOf(u) /= id[1] \/ call[u].id[2] /= id[2]
      BY <1>2, <2>1 DEF DisposeFrame, Calls, FrameId, FileOf
    <2>4. pc' = pc /\ call' = call
      BY <1>2 DEF DisposeFrame
    <2> QED
      BY <2>2, <2>3, <2>4 DEF Pages, Extending, FileOf
  <1>3. CASE ReusePage(t, d, i)
    BY <1>3, PoolAssumption DEF ReusePage, TypeOK, Calls, Locks, Pages, Extending, FileOf, FrameId,
       NoCall, Locked, Flushing
  <1>4. CASE AddPage(t, d)
    BY <1>4, PoolAssumption DEF AddPage, TypeOK, Calls, Locks, Pages, Extending, FileOf, FrameId, NoCall,
       Locked, Flushing
  <1>5. CASE FlushFrame(t, d, f)
    BY <1>5, PoolAssumption DEF FlushFrame, TypeOK, Calls, Locks, Pages, Extending, FileOf, FrameId,
       NoCall, Locked, Flushing
  <1>6. CASE FoundPage(t, f)
    BY <1>6, PoolAssumption DEF FoundPage, TypeOK, Calls, Locks, Pages, Extending, FileOf, FrameId,
       NoCall, Locked, Flushing
  <1>7. CASE MissedPage(t)
    BY <1>7, PoolAssumption DEF MissedPage, TypeOK, Calls, Locks, Pages, Extending, FileOf, FrameId,
       NoCall, Locked, Flushing
  <1>8. CASE LockPool(t)
    BY <1>8, PoolAssumption DEF LockPool, TypeOK, Calls, Locks, Pages, Extending, FileOf, FrameId,
       NoCall, Locked, Flushing
  <1>9. CASE FoundFrame(t, f)
    BY <1>9, PoolAssumption DEF FoundFrame, TypeOK, Calls, Locks, Pages, Extending, FileOf, FrameId,
       NoCall, Locked, Flushing
  <1>10. CASE TakenFrame(t, f)
    BY <1>10, PoolAssumption DEF TakenFrame, TypeOK, Calls, Locks, Pages, Extending, FileOf, FrameId,
       NoCall, Locked, Flushing
  <1>11. CASE NoFrame(t)
    BY <1>11, PoolAssumption DEF NoFrame, TypeOK, Calls, Locks, Pages, Extending, FileOf, FrameId,
       NoCall, Locked, Flushing
  <1>12. CASE PurgedHere(t, f)
    BY <1>12, PoolAssumption DEF PurgedHere, TypeOK, Calls, Locks, Pages, Extending, FileOf, FrameId,
       NoCall, Locked, Flushing
  <1>13. CASE PurgedThere(t, f)
    BY <1>13, PoolAssumption DEF PurgedThere, TypeOK, Calls, Locks, Pages, Extending, FileOf, FrameId,
       NoCall, Locked, Flushing
  <1>14. CASE NothingToPurge(t)
    BY <1>14, PoolAssumption DEF NothingToPurge, TypeOK, Calls, Locks, Pages, Extending, FileOf, FrameId,
       NoCall, Locked, Flushing
  <1>15. CASE LockManager(t)
    BY <1>15, PoolAssumption DEF LockManager, TypeOK, Calls, Locks, Pages, Extending, FileOf, FrameId,
       NoCall, Locked, Flushing
  <1>16. CASE FlushVictim(t)
    BY <1>16, PoolAssumption DEF FlushVictim, TypeOK, Calls, Locks, Pages, Extending, FileOf, FrameId,
       NoCall, Locked, Flushing
  <1>17. CASE LoadPage(t)
    BY <1>17, PoolAssumption DEF LoadPage, TypeOK, Calls, Locks, Pages, Extending, FileOf, FrameId,
       NoCall, Locked, Flushing
  <1>18. CASE ExtendFile(t)
    <2> DEFINE c == FileOf(t)
    <2>1. c \in Files /\ call[t].id[2] = header[c].page_count /\ pool_owner[c] = t
      <3>1. pc[t] = "new"
        BY <1>18 DEF ExtendFile
      <3>2. c \in Files
        BY <3>1 DEF Calls, FileOf, FrameId
      <3>3. pc[t] \in Locked /\ Extending(t)
        BY <3>1 DEF Calls, Extending, Locked
      <3>4. call[t].id[2] = header[c].page_count
        BY <3>1, <3>3 DEF Pages
      <3>5. pool_owner[c] = t
        BY <3>2, <3>3 DEF Locks, Extending
      <3> QED
        BY <3>2, <3>4, <3>5
    <2>2. \A e \in Files :
            /\ e /= c => header'[e] = header[e]
            /\ e = c => header'[e].bitmap = header[e].bitmap \cup {header[e].page_count}
      BY <1>18, <2>1 DEF ExtendFile, TypeOK
    <2>3. call' = call /\ \A u \in Threads : pc'[u] = IF u = t THEN "using" ELSE pc[u]
      BY <1>18 DEF ExtendFile, TypeOK
    <2>4. \A u \in Threads : pc[u] /= "idle" => FileOf(u) \in Files
      BY DEF Calls, FileOf, FrameId
    <2>5. \A u \in Threads : u /= t /\ pc[u] /= "idle" /\ Extending(u) => FileOf(u) /= c
      BY <2>1, <2>4 DEF Locks, Extending
    <2> HIDE DEF c
    <2>6. ASSUME NEW u \in Threads, u /= t, pc[u] /= "idle"
          PROVE  /\ Extending(u) => call[u].id[2] = header'[FileOf(u)].page_count
                 /\ ~Extending(u) => call[u].id[2] \in header'[FileOf(u)].bitmap
      BY <2>2, <2>4, <2>5, <2>6 DEF Pages, Extending
    <2>7. call[t].id[2] \in header'[FileOf(t)].bitmap
      BY <2>1, <2>2 DEF c
    <2> QED
      BY <2>3, <2>6, <2>7, SMTT(60) DEF Pages, Extending, FileOf, Locked
  <1>19. CASE Modify(t)
    BY <1>19, PoolAssumption DEF Modify, CanModify, Changed, TypeOK, Calls, Locks, Pages, Extending, FileOf, FrameId, NoCall,
       Locked, Flushing
  <1>20. CASE MarkDirty(t)
    BY <1>20, PoolAssumption DEF MarkDirty, TypeOK, Calls, Locks, Pages, Extending, FileOf, FrameId,
       NoCall, Locked, Flushing
  <1>21. CASE UnpinPage(t)
    BY <1>21, PoolAssumption DEF UnpinPage, TypeOK, Calls, Locks, Pages, Extending, FileOf, FrameId,
       NoCall, Locked, Flushing
  <1>22. CASE d \in Files /\ OpenFile(t, d)
    BY <1>22, PoolAssumption DEF OpenFile, HeaderCounts, TypeOK, Calls, Locks, Pages, Extending, FileOf, FrameId, NoCall,
       Locked, Flushing
  <1>23. CASE FinishOpen(t)
    BY <1>23, PoolAssumption DEF FinishOpen, TypeOK, Calls, Locks, Pages, Extending, FileOf, FrameId,
       NoCall, Locked, Flushing
  <1>24. CASE Stamp(t)
    BY <1>24, PoolAssumption DEF Stamp, CanModify, Changed, TypeOK, Calls, Locks, Pages, Extending, FileOf, FrameId, NoCall,
       Locked, Flushing
  <1> QED
    BY <1>1, <1>2, <1>3, <1>4, <1>5, <1>6, <1>7, <1>8, <1>9, <1>10, <1>11,
       <1>12, <1>13, <1>14, <1>15, <1>16, <1>17, <1>18, <1>19, <1>20, <1>21, <1>22, <1>23, <1>24 DEF Action

\* The page in a frame stays allocated.
LEMMA FramesAllocatedKept ==
  ASSUME TypeOK, Calls, Locks, Pages, Held, OneFramePerPage, FramesAllocated,
         NEW t \in Threads, NEW id, NEW d, NEW f, NEW i, Action(t, id, d, f, i)
  PROVE  FramesAllocated'
  <1> USE DEF Goto, Unlock, lockVars, Pin, MapFrame, Evicted
  <1>1. CASE id \in FrameId /\ GetThisPage(t, id)
    BY <1>1, PoolAssumption, NoPageAssumption DEF GetThisPage, TypeOK, Calls, Pages, Extending, FileOf,
       Held, OneFramePerPage, FramesAllocated, Pinning, Flushing
  <1>2. CASE DisposeFrame(t, id, f)
    <2>1. id \in FrameId /\ id[1] \in Files /\ f \in Frames /\ frame[f].id = id /\ id /= NoPage
      BY <1>2, NoPageAssumption DEF DisposeFrame, FrameId
    <2>2. \A e \in Files : header'[e].bitmap = IF e = id[1] THEN header[e].bitmap \ {id[2]} ELSE header[e].bitmap
      <3> HIDE DEF Goto, Unlock, lockVars, Pin, MapFrame, Evicted
      <3>1. Disposed(id)
        BY ONLY <1>2, TypeOK, DisposedHeader
      <3> QED
        BY ONLY <3>1 DEF Disposed
    <2>3. pc' = pc /\ call' = call /\ \A g \in Frames : frame'[g].id = IF g = f THEN NoPage ELSE frame[g].id
      BY <1>2 DEF DisposeFrame, TypeOK
    <2>4. \A g \in Frames : g /= f => frame[g].id /= id
      BY <2>1 DEF OneFramePerPage
    <2>5. \A g \in Frames :
            g /= f /\ frame[g].id /= NoPage => /\ frame[g].id[1] \in Files
                                               /\ frame[g].id[1] /= id[1] \/ frame[g].id[2] /= id[2]
      BY <2>1, <2>4 DEF TypeOK, FrameId
    <2> SUFFICES ASSUME NEW g \in Frames, g /= f, frame[g].id /= NoPage
                 PROVE  \/ frame[g].id[2] \in header'[frame[g].id[1]].bitmap
                        \/ \E u \in Threads : pc[u] = "new" /\ call[u].frame = g
      BY <2>3 DEF FramesAllocated
    <2>6. header[frame[g].id[1]].bitmap \ {id[2]} \subseteq header'[frame[g].id[1]].bitmap
      BY <2>2, <2>5
    <2> QED
      BY <2>2, <2>5, <2>6 DEF FramesAllocated
  <1>3. CASE ReusePage(t, d, i)
    BY <1>3, PoolAssumption, NoPageAssumption, SMTT(60) DEF ReusePage, TypeOK, Calls, Pages, Extending, FileOf,
       Held, OneFramePerPage, FramesAllocated, Pinning, Flushing
  <1>4. CASE AddPage(t, d)
    BY <1>4, PoolAssumption, NoPageAssumption DEF AddPage, TypeOK, Calls, Pages, Extending, FileOf, Held,
       OneFramePerPage, FramesAllocated, Pinning, Flushing
  <1>5. CASE FlushFrame(t, d, f)
    BY <1>5, PoolAssumption, NoPageAssumption, SMTT(60) DEF FlushFrame, TypeOK, Calls, Pages, Extending, FileOf,
       Held, OneFramePerPage, FramesAllocated, Pinning, Flushing
  <1>6. CASE FoundPage(t, f)
    BY <1>6, PoolAssumption, NoPageAssumption DEF FoundPage, TypeOK, Calls, Pages, Extending, FileOf,
       Held, OneFramePerPage, FramesAllocated, Pinning, Flushing
  <1>7. CASE MissedPage(t)
    BY <1>7, PoolAssumption, NoPageAssumption DEF MissedPage, TypeOK, Calls, Pages, Extending, FileOf,
       Held, OneFramePerPage, FramesAllocated, Pinning, Flushing
  <1>8. CASE LockPool(t)
    BY <1>8, PoolAssumption, NoPageAssumption, SMTT(60) DEF LockPool, TypeOK, Calls, Pages, Extending, FileOf,
       Held, OneFramePerPage, FramesAllocated, Pinning, Flushing
  <1>9. CASE FoundFrame(t, f)
    BY <1>9, PoolAssumption, NoPageAssumption, SMTT(60) DEF FoundFrame, TypeOK, Calls, Pages, Extending, FileOf,
       Held, OneFramePerPage, FramesAllocated, Pinning, Flushing
  <1>10. CASE TakenFrame(t, f)
    BY <1>10, PoolAssumption, NoPageAssumption DEF TakenFrame, TypeOK, Calls, Pages, Extending, FileOf,
       Held, OneFramePerPage, FramesAllocated, Pinning, Flushing
  <1>11. CASE NoFrame(t)
    BY <1>11, PoolAssumption, NoPageAssumption DEF NoFrame, TypeOK, Calls, Pages, Extending, FileOf,
       Held, OneFramePerPage, FramesAllocated, Pinning, Flushing
  <1>12. CASE PurgedHere(t, f)
    BY <1>12, PoolAssumption, NoPageAssumption DEF PurgedHere, TypeOK, Calls, Pages, Extending, FileOf,
       Held, OneFramePerPage, FramesAllocated, Pinning, Flushing
  <1>13. CASE PurgedThere(t, f)
    BY <1>13, PoolAssumption, NoPageAssumption DEF PurgedThere, TypeOK, Calls, Pages, Extending, FileOf,
       Held, OneFramePerPage, FramesAllocated, Pinning, Flushing
  <1>14. CASE NothingToPurge(t)
    BY <1>14, PoolAssumption, NoPageAssumption DEF NothingToPurge, TypeOK, Calls, Pages, Extending,
       FileOf, Held, OneFramePerPage, FramesAllocated, Pinning, Flushing
  <1>15. CASE LockManager(t)
    BY <1>15, PoolAssumption, NoPageAssumption DEF LockManager, TypeOK, Calls, Pages, Extending, FileOf,
       Held, OneFramePerPage, FramesAllocated, Pinning, Flushing
  <1>16. CASE FlushVictim(t)
    BY <1>16, PoolAssumption, NoPageAssumption DEF FlushVictim, TypeOK, Calls, Pages, Extending, FileOf,
       Held, OneFramePerPage, FramesAllocated, Pinning, Flushing
  <1>17. CASE LoadPage(t)
    BY <1>17, PoolAssumption, NoPageAssumption DEF LoadPage, TypeOK, Calls, Pages, Extending, FileOf,
       Held, OneFramePerPage, FramesAllocated, Pinning, Flushing
  <1>18. CASE ExtendFile(t)
    <2> DEFINE c == FileOf(t)
    <2>1. c \in Files /\ call[t].id[2] = header[c].page_count
      BY <1>18 DEF ExtendFile, Calls, Locks, Pages, Extending, FileOf, FrameId, Locked
    <2>2. \A e \in Files :
            /\ e /= c => header'[e] = header[e]
            /\ e = c => header'[e].bitmap = header[e].bitmap \cup {header[e].page_count}
      BY <1>18, <2>1 DEF ExtendFile, TypeOK
    <2>3. call' = call /\ \A u \in Threads : pc'[u] = IF u = t THEN "using" ELSE pc[u]
      BY <1>18 DEF ExtendFile, TypeOK
    <2>4. \A g \in Frames : frame'[g].id = frame[g].id
      BY <1>18 DEF ExtendFile, TypeOK
    <2>5. call[t].frame \in Frames /\ frame[call[t].frame].id = call[t].id
      BY <1>18 DEF ExtendFile, Calls, Held, Pinning
    <2>6. call[t].id[2] \in header'[call[t].id[1]].bitmap
      BY <2>1, <2>2 DEF FileOf
    <2>7. \A g \in Frames : frame[g].id /= NoPage => frame[g].id[1] \in Files
      BY DEF TypeOK, FrameId
    <2> HIDE DEF c
    <2> QED
      BY <2>2, <2>3, <2>4, <2>5, <2>6, <2>7, SMTT(60) DEF FramesAllocated
  <1>19. CASE Modify(t)
    BY <1>19, PoolAssumption, NoPageAssumption, SMTT(60) DEF Modify, CanModify, Changed, TypeOK, Calls, Pages, Extending, FileOf, Held,
       OneFramePerPage, FramesAllocated, Pinning, Flushing
  <1>20. CASE MarkDirty(t)
    BY <1>20, PoolAssumption, NoPageAssumption, SMTT(60) DEF MarkDirty, TypeOK, Calls, Pages, Extending, FileOf,
       Held, OneFramePerPage, FramesAllocated, Pinning, Flushing
  <1>21. CASE UnpinPage(t)
    BY <1>21, PoolAssumption, NoPageAssumption, SMTT(60) DEF UnpinPage, TypeOK, Calls, Pages, Extending, FileOf,
       Held, OneFramePerPage, FramesAllocated, Pinning, Flushing
  <1>22. CASE d \in Files /\ OpenFile(t, d)
    BY <1>22, PoolAssumption, NoPageAssumption DEF OpenFile, TypeOK, Calls, Pages, Extending, FileOf, Held,
       OneFramePerPage, FramesAllocated, Pinning, Flushing
  <1>23. CASE FinishOpen(t)
    BY <1>23, PoolAssumption, NoPageAssumption, SMTT(60) DEF FinishOpen, TypeOK, Calls, Pages, Extending, FileOf,
       Held, OneFramePerPage, FramesAllocated, Pinning, Flushing
  <1>24. CASE Stamp(t)
    BY <1>24, PoolAssumption, NoPageAssumption, SMTT(60) DEF Stamp, CanModify, Changed, TypeOK, Calls, Pages, Extending, FileOf, Held,
       OneFramePerPage, FramesAllocated, Pinning, Flushing
  <1> QED
    BY <1>1, <1>2, <1>3, <1>4, <1>5, <1>6, <1>7, <1>8, <1>9, <1>10, <1>11,
       <1>12, <1>13, <1>14, <1>15, <1>16, <1>17, <1>18, <1>19, <1>20, <1>21, <1>22, <1>23, <1>24 DEF Action

-----------------------------------------------------------------------------
(* The contents are kept.                                                  *)

\* A frame without content keeps its loader.
LEMMA LoadingKept ==
  ASSUME TypeOK, Calls, Victims, Held, Bounded, Loading,
         NEW t \in Threads, NEW id, NEW d, NEW f, NEW i, Action(t, id, d, f, i)
  PROVE  Loading'
  <1> USE DEF Goto, Unlock, lockVars, Pin, MapFrame, Evicted
  <1>1. CASE id \in FrameId /\ GetThisPage(t, id)
    BY <1>1, PoolAssumption DEF GetThisPage, TypeOK, Calls, Victims, Held, Bounded, Loading, Garbage,
       Pinning, Flushing
  <1>2. CASE DisposeFrame(t, id, f)
    BY <1>2, PoolAssumption DEF DisposeFrame, TypeOK, Calls, Victims, Held, Bounded, Loading, Garbage,
       Pinning, Flushing
  <1>3. CASE ReusePage(t, d, i)
    BY <1>3, PoolAssumption DEF ReusePage, TypeOK, Calls, Victims, Held, Bounded, Loading, Garbage,
       Pinning, Flushing
  <1>4. CASE AddPage(t, d)
    BY <1>4, PoolAssumption DEF AddPage, TypeOK, Calls, Victims, Held, Bounded, Loading, Garbage,
       Pinning, Flushing
  <1>5. CASE FlushFrame(t, d, f)
    BY <1>5, PoolAssumption DEF FlushFrame, TypeOK, Calls, Victims, Held, Bounded, Loading, Garbage,
       Pinning, Flushing
  <1>6. CASE FoundPage(t, f)
    BY <1>6, PoolAssumption DEF FoundPage, TypeOK, Calls, Victims, Held, Bounded, Loading, Garbage,
       Pinning, Flushing
  <1>7. CASE MissedPage(t)
    BY <1>7, PoolAssumption DEF MissedPage, TypeOK, Calls, Victims, Held, Bounded, Loading, Garbage,
       Pinning, Flushing
  <1>8. CASE LockPool(t)
    BY <1>8, PoolAssumption DEF LockPool, TypeOK, Calls, Victims, Held, Bounded, Loading, Garbage,
       Pinning, Flushing
  <1>9. CASE FoundFrame(t, f)
    BY <1>9, PoolAssumption DEF FoundFrame, TypeOK, Calls, Victims, Held, Bounded, Loading, Garbage,
       Pinning, Flushing
  <1>10. CASE TakenFrame(t, f)
    BY <1>10, PoolAssumption DEF TakenFrame, TypeOK, Calls, Victims, Held, Bounded, Loading, Garbage,
       Pinning, Flushing
  <1>11. CASE NoFrame(t)
    BY <1>11, PoolAssumption DEF NoFrame, TypeOK, Calls, Victims, Held, Bounded, Loading, Garbage,
       Pinning, Flushing
  <1>12. CASE PurgedHere(t, f)
    BY <1>12, PoolAssumption DEF PurgedHere, TypeOK, Calls, Victims, Held, Bounded, Loading, Garbage,
       Pinning, Flushing
  <1>13. CASE PurgedThere(t, f)
    BY <1>13, PoolAssumption DEF PurgedThere, TypeOK, Calls, Victims, Held, Bounded, Loading, Garbage,
       Pinning, Flushing
  <1>14. CASE NothingToPurge(t)
    BY <1>14, PoolAssumption DEF NothingToPurge, TypeOK, Calls, Victims, Held, Bounded, Loading, Garbage,
       Pinning, Flushing
  <1>15. CASE LockManager(t)
    BY <1>15, PoolAssumption DEF LockManager, TypeOK, Calls, Victims, Held, Bounded, Loading, Garbage,
       Pinning, Flushing
  <1>16. CASE FlushVictim(t)
    BY <1>16, PoolAssumption DEF FlushVictim, TypeOK, Calls, Victims, Held, Bounded, Loading, Garbage,
       Pinning, Flushing
  <1>17. CASE LoadPage(t)
    BY <1>17, PoolAssumption DEF LoadPage, TypeOK, Calls, Victims, Held, Bounded, Loading, Garbage,
       Pinning, Flushing
  <1>18. CASE ExtendFile(t)
    BY <1>18, PoolAssumption DEF ExtendFile, TypeOK, Calls, Victims, Held, Bounded, Loading, Garbage,
       Pinning, Flushing
  <1>19. CASE Modify(t)
    <2>1. call' = call /\ pc[t] = "using" /\ \A u \in Threads : pc'[u] = IF u = t THEN "modified" ELSE pc[u]
      BY <1>19 DEF Modify, CanModify, Changed, TypeOK
    <2>2. \A g \in Frames : frame[g].data \in Int /\ frame[g].data >= -1
      BY PoolAssumption DEF TypeOK, Content
    <2>3. \A g \in Frames : /\ frame'[g].id = frame[g].id
                            /\ \/ frame'[g].data = frame[g].data
                               \/ frame[g].data /= Garbage /\ frame'[g].data = frame[g].data + 1
      BY <1>19 DEF Modify, CanModify, Changed, TypeOK
    <2>4. \A g \in Frames : frame'[g].data = Garbage => frame[g].data = Garbage
      BY <2>2, <2>3 DEF Garbage
    <2> QED
      BY <2>1, <2>3, <2>4 DEF Loading
  <1>20. CASE MarkDirty(t)
    BY <1>20, PoolAssumption DEF MarkDirty, TypeOK, Calls, Victims, Held, Bounded, Loading, Garbage,
       Pinning, Flushing
  <1>21. CASE UnpinPage(t)
    BY <1>21, PoolAssumption DEF UnpinPage, TypeOK, Calls, Victims, Held, Bounded, Loading, Garbage,
       Pinning, Flushing
  <1>22. CASE d \in Files /\ OpenFile(t, d)
    BY <1>22, PoolAssumption DEF OpenFile, TypeOK, Calls, Victims, Held, Bounded, Loading, Garbage,
       Pinning, Flushing
  <1>23. CASE FinishOpen(t)
    BY <1>23, PoolAssumption DEF FinishOpen, TypeOK, Calls, Victims, Held, Bounded, Loading, Garbage,
       Pinning, Flushing
  <1>24. CASE Stamp(t)
    <2>1. call' = call /\ pc' = pc
      BY <1>24 DEF Stamp
    <2>2. \A g \in Frames : frame[g].data \in Int /\ frame[g].data >= -1
      BY PoolAssumption DEF TypeOK, Content
    <2>3. \A g \in Frames : /\ frame'[g].id = frame[g].id
                            /\ \/ frame'[g].data = frame[g].data
                               \/ frame[g].data /= Garbage /\ frame'[g].data = frame[g].data + 1
      BY <1>24 DEF Stamp, CanModify, Changed, TypeOK
    <2>4. \A g \in Frames : frame'[g].data = Garbage => frame[g].data = Garbage
      BY <2>2, <2>3 DEF Garbage
    <2> QED
      BY <2>1, <2>3, <2>4 DEF Loading
  <1> QED
    BY <1>1, <1>2, <1>3, <1>4, <1>5, <1>6, <1>7, <1>8, <1>9, <1>10, <1>11,
       <1>12, <1>13, <1>14, <1>15, <1>16, <1>17, <1>18, <1>19, <1>20, <1>21, <1>22, <1>23, <1>24 DEF Action

\* No copy of a page gets ahead of its users.
LEMMA BoundedKept ==
  ASSUME TypeOK, Calls, Victims, Held, Pins, OneFramePerPage, Bounded, Loading,
         NEW t \in Threads, NEW id, NEW d, NEW f, NEW i, Action(t, id, d, f, i)
  PROVE  Bounded'
  <1> USE DEF Goto, Unlock, lockVars, Pin, MapFrame, Evicted
  <1>1. CASE id \in FrameId /\ GetThisPage(t, id)
    BY <1>1, PoolAssumption, UnpinnedUnused DEF GetThisPage, TypeOK, Calls, Victims, Held,
       OneFramePerPage, Bounded, Loading, Written, Garbage, Pinning, Flushing
  <1>2. CASE DisposeFrame(t, id, f)
    BY <1>2, PoolAssumption, UnpinnedUnused DEF DisposeFrame, TypeOK, Calls, Victims, Held,
       OneFramePerPage, Bounded, Loading, Written, Garbage, Pinning, Flushing
  <1>3. CASE ReusePage(t, d, i)
    BY <1>3, PoolAssumption, UnpinnedUnused DEF ReusePage, TypeOK, Calls, Victims, Held, OneFramePerPage,
       Bounded, Loading, Written, Garbage, Pinning, Flushing
  <1>4. CASE AddPage(t, d)
    BY <1>4, PoolAssumption, UnpinnedUnused DEF AddPage, TypeOK, Calls, Victims, Held, OneFramePerPage,
       Bounded, Loading, Written, Garbage, Pinning, Flushing
  <1>5. CASE FlushFrame(t, d, f)
    <2>1. \A g \in Frames : frame[g].data \in Int /\ frame[g].data >= -1
      BY PoolAssumption DEF TypeOK, Content
    <2>2. \A j \in FrameId : latest[j] \in Int
      BY PoolAssumption DEF TypeOK, Content

    <2>3. /\ f \in Frames /\ frame[f].id \in FrameId
          /\ \A u \in Threads : call[u].frame /= f
      BY <1>5, UnpinnedUnused DEF FlushFrame
    <2>4. frame[f].data \in 0 .. latest[frame[f].id]
      <3>1. frame[f].data /= Garbage /\ frame[f].data <= latest[frame[f].id]
        BY <2>3, NoPageAssumption DEF Loading, Bounded
      <3> QED
        BY <2>1, <2>2, <2>3, <3>1 DEF Garbage
    <2>5. latest' = latest /\ \A j \in FrameId : disk'[j] = disk[j] \/ (j = frame[f].id /\ disk'[j] = frame[f].data)
      BY <1>5, <2>3 DEF FlushFrame, TypeOK, Written
    <2>6. \A g \in Frames : frame'[g].id = frame[g].id /\ frame'[g].data = frame[g].data
      BY <1>5, <2>3 DEF FlushFrame, TypeOK
    <2> QED
      BY <2>4, <2>5, <2>6 DEF Bounded
  <1>6. CASE FoundPage(t, f)
    BY <1>6, PoolAssumption, UnpinnedUnused DEF FoundPage, TypeOK, Calls, Victims, Held, OneFramePerPage,
       Bounded, Loading, Written, Garbage, Pinning, Flushing
  <1>7. CASE MissedPage(t)
    BY <1>7, PoolAssumption, UnpinnedUnused DEF MissedPage, TypeOK, Calls, Victims, Held,
       OneFramePerPage, Bounded, Loading, Written, Garbage, Pinning, Flushing
  <1>8. CASE LockPool(t)
    BY <1>8, PoolAssumption, UnpinnedUnused DEF LockPool, TypeOK, Calls, Victims, Held, OneFramePerPage,
       Bounded, Loading, Written, Garbage, Pinning, Flushing
  <1>9. CASE FoundFrame(t, f)
    BY <1>9, PoolAssumption, UnpinnedUnused DEF FoundFrame, TypeOK, Calls, Victims, Held,
       OneFramePerPage, Bounded, Loading, Written, Garbage, Pinning, Flushing
  <1>10. CASE TakenFrame(t, f)
    <2>1. disk' = disk /\ latest' = latest
      BY <1>10 DEF TakenFrame
    <2>2. call[t].id \in FrameId
      BY <1>10 DEF TakenFrame, Calls
    <2>3. -1 <= latest[call[t].id]
      BY <2>2, PoolAssumption DEF TypeOK, Content
    <2>4. \A g \in Frames : \/ frame'[g] = frame[g]
                            \/ frame'[g].id = call[t].id /\ frame'[g].data = -1
      BY <1>10 DEF TakenFrame, TypeOK, Garbage
    <2> QED
      BY <2>1, <2>3, <2>4 DEF Bounded
  <1>11. CASE NoFrame(t)
    BY <1>11, PoolAssumption, UnpinnedUnused DEF NoFrame, TypeOK, Calls, Victims, Held, OneFramePerPage,
       Bounded, Loading, Written, Garbage, Pinning, Flushing
  <1>12. CASE PurgedHere(t, f)
    <2>1. \A g \in Frames : frame[g].data \in Int /\ frame[g].data >= -1
      BY PoolAssumption DEF TypeOK, Content
    <2>2. \A j \in FrameId : latest[j] \in Int
      BY PoolAssumption DEF TypeOK, Content

    <2>3. /\ f \in Frames /\ frame[f].id \in FrameId
          /\ \A u \in Threads : call[u].frame /= f
      BY <1>12, UnpinnedUnused DEF PurgedHere
    <2>4. frame[f].data \in 0 .. latest[frame[f].id]
      <3>1. frame[f].data /= Garbage /\ frame[f].data <= latest[frame[f].id]
        BY <2>3, NoPageAssumption DEF Loading, Bounded
      <3> QED
        BY <2>1, <2>2, <2>3, <3>1 DEF Garbage
    <2>5. latest' = latest /\ \A j \in FrameId : disk'[j] = disk[j] \/ (j = frame[f].id /\ disk'[j] = frame[f].data)
      BY <1>12, <2>3 DEF PurgedHere, TypeOK, Written
    <2>6. \A g \in Frames : frame'[g].id /= NoPage => frame'[g].id = frame[g].id /\ frame'[g].data = frame[g].data
      BY <1>12, <2>3 DEF PurgedHere, TypeOK
    <2> QED
      BY <2>4, <2>5, <2>6 DEF Bounded
  <1>13. CASE PurgedThere(t, f)
    BY <1>13, PoolAssumption, UnpinnedUnused DEF PurgedThere, TypeOK, Calls, Victims, Held,
       OneFramePerPage, Bounded, Loading, Written, Garbage, Pinning, Flushing
  <1>14. CASE NothingToPurge(t)
    BY <1>14, PoolAssumption, UnpinnedUnused DEF NothingToPurge, TypeOK, Calls, Victims, Held,
       OneFramePerPage, Bounded, Loading, Written, Garbage, Pinning, Flushing
  <1>15. CASE LockManager(t)
    BY <1>15, PoolAssumption, UnpinnedUnused DEF LockManager, TypeOK, Calls, Victims, Held,
       OneFramePerPage, Bounded, Loading, Written, Garbage, Pinning, Flushing
  <1>16. CASE FlushVictim(t)
    <2>1. \A g \in Frames : frame[g].data \in Int /\ frame[g].data >= -1
      BY PoolAssumption DEF TypeOK, Content
    <2>2. \A j \in FrameId : latest[j] \in Int
      BY PoolAssumption DEF TypeOK, Content

    <2>3. /\ call[t].victim \in Frames /\ frame[call[t].victim].id \in FrameId
          /\ \A u \in Threads : call[u].frame /= call[t].victim
      BY <1>16 DEF FlushVictim, Calls, Victims, Flushing
    <2>4. frame[call[t].victim].data \in 0 .. latest[frame[call[t].victim].id]
      <3>1. frame[call[t].victim].data /= Garbage /\ frame[call[t].victim].data <= latest[frame[call[t].victim].id]
        BY <2>3, NoPageAssumption DEF Loading, Bounded
      <3> QED
        BY <2>1, <2>2, <2>3, <3>1 DEF Garbage
    <2>5. latest' = latest /\ \A j \in FrameId : disk'[j] = disk[j] \/ (j = frame[call[t].victim].id /\ disk'[j] = frame[call[t].victim].data)
      BY <1>16, <2>3 DEF FlushVictim, TypeOK, Written
    <2>6. \A g \in Frames : frame'[g].id /= NoPage => frame'[g].id = frame[g].id /\ frame'[g].data = frame[g].data
      BY <1>16, <2>3 DEF FlushVictim, TypeOK
    <2> QED
      BY <2>4, <2>5, <2>6 DEF Bounded
  <1>17. CASE LoadPage(t)
    BY <1>17, PoolAssumption, UnpinnedUnused DEF LoadPage, TypeOK, Calls, Victims, Held, OneFramePerPage,
       Bounded, Loading, Written, Garbage, Pinning, Flushing
  <1>18. CASE ExtendFile(t)
    BY <1>18, PoolAssumption, UnpinnedUnused DEF ExtendFile, TypeOK, Calls, Victims, Held,
       OneFramePerPage, Bounded, Loading, Written, Garbage, Pinning, Flushing
  <1>19. CASE Modify(t)
    <2>1. \A g \in Frames : frame[g].data \in Int /\ frame[g].data >= -1
      BY PoolAssumption DEF TypeOK, Content
    <2>2. \A j \in FrameId : latest[j] \in Int
      BY PoolAssumption DEF TypeOK, Content
    <2>3. call[t].frame \in Frames /\ call[t].id \in FrameId /\ frame[call[t].frame].id = call[t].id /\ call[t].id /= NoPage
      BY <1>19, NoPageAssumption DEF Modify, CanModify, Changed, Calls, Held, Pinning
    <2>4. disk' = disk /\ \A j \in FrameId : latest'[j] = IF j = call[t].id THEN latest[j] + 1 ELSE latest[j]
      BY <1>19 DEF Modify, CanModify, Changed, TypeOK
    <2>5. \A g \in Frames : g /= call[t].frame => frame'[g] = frame[g] /\ frame[g].id /= call[t].id
      BY <1>19, <2>3 DEF Modify, CanModify, Changed, TypeOK, OneFramePerPage
    <2>6. /\ frame'[call[t].frame].id = call[t].id
          /\ \/ frame'[call[t].frame].data = frame[call[t].frame].data
             \/ frame'[call[t].frame].data = frame[call[t].frame].data + 1
      BY <1>19, <2>3 DEF Modify, CanModify, Changed, TypeOK
    <2>7. \A j \in FrameId : disk[j] \in 0 .. latest[j]
      BY DEF Bounded
    <2>8. \A j \in FrameId : disk'[j] \in 0 .. latest'[j]
      BY <2>2, <2>4, <2>7
    <2>9. frame'[call[t].frame].data <= latest'[call[t].id]
      BY <2>1, <2>2, <2>3, <2>4, <2>6 DEF Bounded
    <2>10. \A g \in Frames : g /= call[t].frame /\ frame[g].id /= NoPage => frame[g].data <= latest'[frame[g].id]
      <3>1. \A g \in Frames : frame[g].id \in FrameId \cup {NoPage}
        BY DEF TypeOK
      <3> QED
        BY <2>4, <2>5, <3>1 DEF Bounded
    <2> QED
      BY <2>5, <2>6, <2>8, <2>9, <2>10 DEF Bounded
  <1>20. CASE MarkDirty(t)
    BY <1>20, PoolAssumption, UnpinnedUnused DEF MarkDirty, TypeOK, Calls, Victims, Held,
       OneFramePerPage, Bounded, Loading, Written, Garbage, Pinning, Flushing
  <1>21. CASE UnpinPage(t)
    BY <1>21, PoolAssumption, UnpinnedUnused DEF UnpinPage, TypeOK, Calls, Victims, Held,
       OneFramePerPage, Bounded, Loading, Written, Garbage, Pinning, Flushing
  <1>22. CASE d \in Files /\ OpenFile(t, d)
    BY <1>22, PoolAssumption, UnpinnedUnused DEF OpenFile, TypeOK, Calls, Victims, Held, OneFramePerPage,
       Bounded, Loading, Written, Garbage, Pinning, Flushing
  <1>23. CASE FinishOpen(t)
    BY <1>23, PoolAssumption, UnpinnedUnused DEF FinishOpen, TypeOK, Calls, Victims, Held, OneFramePerPage,
       Bounded, Loading, Written, Garbage, Pinning, Flushing
  <1>24. CASE Stamp(t)
    <2>1. \A g \in Frames : frame[g].data \in Int /\ frame[g].data >= -1
      BY PoolAssumption DEF TypeOK, Content
    <2>2. \A j \in FrameId : latest[j] \in Int
      BY PoolAssumption DEF TypeOK, Content
    <2>3. call[t].frame \in Frames /\ call[t].id \in FrameId /\ frame[call[t].frame].id = call[t].id /\ call[t].id /= NoPage
      BY <1>24, NoPageAssumption DEF Stamp, CanModify, Changed, Calls, Held, Pinning
    <2>4. disk' = disk /\ \A j \in FrameId : latest'[j] = IF j = call[t].id THEN latest[j] + 1 ELSE latest[j]
      BY <1>24 DEF Stamp, CanModify, Changed, TypeOK
    <2>5. \A g \in Frames : g /= call[t].frame => frame'[g] = frame[g] /\ frame[g].id /= call[t].id
      BY <1>24, <2>3 DEF Stamp, CanModify, Changed, TypeOK, OneFramePerPage
    <2>6. /\ frame'[call[t].frame].id = call[t].id
          /\ \/ frame'[call[t].frame].data = frame[call[t].frame].data
             \/ frame'[call[t].frame].data = frame[call[t].frame].data + 1
      BY <1>24, <2>3 DEF Stamp, CanModify, Changed, TypeOK
    <2>7. \A j \in FrameId : disk[j] \in 0 .. latest[j]
      BY DEF Bounded
    <2>8. \A j \in FrameId : disk'[j] \in 0 .. latest'[j]
      BY <2>2, <2>4, <2>7
    <2>9. frame'[call[t].frame].data <= latest'[call[t].id]
      BY <2>1, <2>2, <2>3, <2>4, <2>6 DEF Bounded
    <2>10. \A g \in Frames : g /= call[t].frame /\ frame[g].id /= NoPage => frame[g].data <= latest'[frame[g].id]
      <3>1. \A g \in Frames : frame[g].id \in FrameId \cup {NoPage}
        BY DEF TypeOK
      <3> QED
        BY <2>4, <2>5, <3>1 DEF Bounded
    <2> QED
      BY <2>5, <2>6, <2>8, <2>9, <2>10 DEF Bounded
  <1> QED
    BY <1>1, <1>2, <1>3, <1>4, <1>5, <1>6, <1>7, <1>8, <1>9, <1>10, <1>11,
       <1>12, <1>13, <1>14, <1>15, <1>16, <1>17, <1>18, <1>19, <1>20, <1>21, <1>22, <1>23, <1>24 DEF Action

\* A frame that is not marked agrees with the file until its user marks it.
LEMMA CleanKept ==
  ASSUME TypeOK, Calls, Victims, Held, Pins, OneFramePerPage, Bounded, Loading, Clean,
         NEW t \in Threads, NEW id, NEW d, NEW f, NEW i, Action(t, id, d, f, i)
  PROVE  Clean'
  <1> USE DEF Goto, Unlock, lockVars, Pin, MapFrame, Evicted
  <1>1. CASE id \in FrameId /\ GetThisPage(t, id)
    BY <1>1, PoolAssumption DEF GetThisPage, TypeOK, Calls, Victims, Held, OneFramePerPage, Clean,
       Written, Garbage, Pinning, Flushing
  <1>2. CASE DisposeFrame(t, id, f)
    BY <1>2, PoolAssumption DEF DisposeFrame, TypeOK, Calls, Victims, Held, OneFramePerPage, Clean,
       Written, Garbage, Pinning, Flushing
  <1>3. CASE ReusePage(t, d, i)
    BY <1>3, PoolAssumption DEF ReusePage, TypeOK, Calls, Victims, Held, OneFramePerPage, Clean, Written,
       Garbage, Pinning, Flushing
  <1>4. CASE AddPage(t, d)
    BY <1>4, PoolAssumption DEF AddPage, TypeOK, Calls, Victims, Held, OneFramePerPage, Clean, Written,
       Garbage, Pinning, Flushing
  <1>5. CASE FlushFrame(t, d, f)
    BY <1>5, PoolAssumption, SMTT(60) DEF FlushFrame, TypeOK, Calls, Victims, Held, OneFramePerPage, Clean,
       Written, Garbage, Pinning, Flushing
  <1>6. CASE FoundPage(t, f)
    BY <1>6, PoolAssumption DEF FoundPage, TypeOK, Calls, Victims, Held, OneFramePerPage, Clean, Written,
       Garbage, Pinning, Flushing
  <1>7. CASE MissedPage(t)
    BY <1>7, PoolAssumption DEF MissedPage, TypeOK, Calls, Victims, Held, OneFramePerPage, Clean,
       Written, Garbage, Pinning, Flushing
  <1>8. CASE LockPool(t)
    BY <1>8, PoolAssumption DEF LockPool, TypeOK, Calls, Victims, Held, OneFramePerPage, Clean, Written,
       Garbage, Pinning, Flushing
  <1>9. CASE FoundFrame(t, f)
    BY <1>9, PoolAssumption DEF FoundFrame, TypeOK, Calls, Victims, Held, OneFramePerPage, Clean,
       Written, Garbage, Pinning, Flushing
  <1>10. CASE TakenFrame(t, f)
    BY <1>10, PoolAssumption DEF TakenFrame, TypeOK, Calls, Victims, Held, OneFramePerPage, Clean,
       Written, Garbage, Pinning, Flushing
  <1>11. CASE NoFrame(t)
    BY <1>11, PoolAssumption DEF NoFrame, TypeOK, Calls, Victims, Held, OneFramePerPage, Clean, Written,
       Garbage, Pinning, Flushing
  <1>12. CASE PurgedHere(t, f)
    BY <1>12, PoolAssumption DEF PurgedHere, TypeOK, Calls, Victims, Held, OneFramePerPage, Clean,
       Written, Garbage, Pinning, Flushing
  <1>13. CASE PurgedThere(t, f)
    BY <1>13, PoolAssumption DEF PurgedThere, TypeOK, Calls, Victims, Held, OneFramePerPage, Clean,
       Written, Garbage, Pinning, Flushing
  <1>14. CASE NothingToPurge(t)
    BY <1>14, PoolAssumption DEF NothingToPurge, TypeOK, Calls, Victims, Held, OneFramePerPage, Clean,
       Written, Garbage, Pinning, Flushing
  <1>15. CASE LockManager(t)
    BY <1>15, PoolAssumption DEF LockManager, TypeOK, Calls, Victims, Held, OneFramePerPage, Clean,
       Written, Garbage, Pinning, Flushing
  <1>16. CASE FlushVictim(t)
    BY <1>16, PoolAssumption DEF FlushVictim, TypeOK, Calls, Victims, Held, OneFramePerPage, Clean,
       Written, Garbage, Pinning, Flushing
  <1>17. CASE LoadPage(t)
    BY <1>17, PoolAssumption, SMTT(60) DEF LoadPage, TypeOK, Calls, Victims, Held, OneFramePerPage, Clean, Written,
       Garbage, Pinning, Flushing
  <1>18. CASE ExtendFile(t)
    BY <1>18, PoolAssumption, SMTT(60) DEF ExtendFile, TypeOK, Calls, Victims, Held, OneFramePerPage, Clean,
       Written, Garbage, Pinning, Flushing
  <1>19. CASE Modify(t)
    BY <1>19, PoolAssumption DEF Modify, CanModify, Changed, TypeOK, Calls, Victims, Held, OneFramePerPage, Clean, Written,
       Garbage, Pinning, Flushing
  <1>20. CASE MarkDirty(t)
    BY <1>20, PoolAssumption DEF MarkDirty, TypeOK, Calls, Victims, Held, OneFramePerPage, Clean,
       Written, Garbage, Pinning, Flushing
  <1>21. CASE UnpinPage(t)
    BY <1>21, PoolAssumption DEF UnpinPage, TypeOK, Calls, Victims, Held, OneFramePerPage, Clean,
       Written, Garbage, Pinning, Flushing
  <1>22. CASE d \in Files /\ OpenFile(t, d)
    BY <1>22, PoolAssumption DEF OpenFile, TypeOK, Calls, Victims, Held, OneFramePerPage, Clean, Written,
       Garbage, Pinning, Flushing
  <1>23. CASE FinishOpen(t)
    BY <1>23, PoolAssumption, SMTT(60) DEF FinishOpen, TypeOK, Calls, Victims, Held, OneFramePerPage, Clean, Written,
       Garbage, Pinning, Flushing
  <1>24. CASE Stamp(t)
    BY <1>24, PoolAssumption DEF Stamp, CanModify, Changed, TypeOK, Calls, Victims, Held, OneFramePerPage, Clean, Written,
       Garbage, Pinning, Flushing
  <1> QED
    BY <1>1, <1>2, <1>3, <1>4, <1>5, <1>6, <1>7, <1>8, <1>9, <1>10, <1>11,
       <1>12, <1>13, <1>14, <1>15, <1>16, <1>17, <1>18, <1>19, <1>20, <1>21, <1>22, <1>23, <1>24 DEF Action

-----------------------------------------------------------------------------
(* Pins and counts are kept.                                               *)

\* A step that changes no user's frame and removes no pin.
LEMMA PinsSame ==
  ASSUME TypeOK, Pins, \A u \in Threads : call'[u].frame = call[u].frame,
         \A g \in Frames : frame'[g].pin = frame[g].pin \/ frame'[g].pin = frame[g].pin + 1
  PROVE  Pins'
  <1> SUFFICES ASSUME NEW g \in Frames PROVE frame'[g].pin >= Cardinality(Users(g)')
    BY DEF Pins
  <1>1. Users(g)' = Users(g)
    BY DEF Users
  <1>2. frame[g].pin >= Cardinality(Users(g)) /\ frame[g].pin \in Nat /\ Cardinality(Users(g)) \in Nat
    BY UsersFinite DEF Pins, TypeOK
  <1> QED
    BY <1>1, <1>2

\* A step that hands frame f to thread t and adds a pin.
LEMMA PinsAdded ==
  ASSUME TypeOK, Pins, NEW t \in Threads, NEW f \in Frames, call[t].frame \notin Frames,
         call' = [call EXCEPT ![t].frame = f], \A g \in Frames : g /= f => frame'[g] = frame[g],
         frame'[f].pin >= Cardinality(Users(f)) + 1, frame'[f].pin \in Nat
  PROVE  Pins'
  <1> SUFFICES ASSUME NEW g \in Frames PROVE frame'[g].pin >= Cardinality(Users(g)')
    BY DEF Pins
  <1>1. CASE g = f
    <2>1. Users(f)' = Users(f) \cup {t} /\ t \notin Users(f)
      BY DEF Users, TypeOK, Call
    <2>2. Cardinality(Users(f)') = Cardinality(Users(f)) + 1
      BY <2>1, UsersFinite, FS_AddElement
    <2> QED
      BY <1>1, <2>2
  <1>2. CASE g /= f
    <2>1. Users(g)' = Users(g)
      BY <1>2 DEF Users, TypeOK, Call
    <2> QED
      BY <1>2, <2>1 DEF Pins
  <1> QED
    BY <1>1, <1>2

\* A frame keeps at least a pin for each of its users.
LEMMA PinsKept ==
  ASSUME TypeOK, Calls, Victims, Held, Pins,
         NEW t \in Threads, NEW id, NEW d, NEW f, NEW i, Action(t, id, d, f, i)
  PROVE  Pins'
  <1> USE DEF Goto, Unlock, lockVars, Pin, MapFrame, Evicted
  <1>1. CASE id \in FrameId /\ GetThisPage(t, id)
    <2>1. \A u \in Threads : call'[u].frame = call[u].frame
      BY <1>1 DEF GetThisPage, TypeOK, Calls, Call, NoCall
    <2>2. \A g \in Frames : frame'[g].pin = frame[g].pin \/ frame'[g].pin = frame[g].pin + 1
      BY <1>1 DEF GetThisPage, TypeOK
    <2> QED
      BY <2>1, <2>2, PinsSame
  <1>2. CASE DisposeFrame(t, id, f)
    <2>1. \A u \in Threads : call'[u].frame = call[u].frame
      BY <1>2 DEF DisposeFrame, TypeOK, Calls, Call, NoCall
    <2>2. \A g \in Frames : frame'[g].pin = frame[g].pin \/ frame'[g].pin = frame[g].pin + 1
      BY <1>2 DEF DisposeFrame, TypeOK
    <2> QED
      BY <2>1, <2>2, PinsSame
  <1>3. CASE ReusePage(t, d, i)
    <2>1. \A u \in Threads : call'[u].frame = call[u].frame
      BY <1>3 DEF ReusePage, TypeOK, Calls, Call, NoCall
    <2>2. \A g \in Frames : frame'[g].pin = frame[g].pin \/ frame'[g].pin = frame[g].pin + 1
      BY <1>3 DEF ReusePage, TypeOK
    <2> QED
      BY <2>1, <2>2, PinsSame
  <1>4. CASE AddPage(t, d)
    <2>1. \A u \in Threads : call'[u].frame = call[u].frame
      BY <1>4 DEF AddPage, TypeOK, Calls, Call, NoCall
    <2>2. \A g \in Frames : frame'[g].pin = frame[g].pin \/ frame'[g].pin = frame[g].pin + 1
      BY <1>4 DEF AddPage, TypeOK
    <2> QED
      BY <2>1, <2>2, PinsSame
  <1>5. CASE FlushFrame(t, d, f)
    <2>1. \A u \in Threads : call'[u].frame = call[u].frame
      BY <1>5 DEF FlushFrame
    <2>2. \A g \in Frames : frame'[g].pin = frame[g].pin \/ frame'[g].pin = frame[g].pin + 1
      BY <1>5 DEF FlushFrame
    <2> QED
      BY <2>1, <2>2, PinsSame
  <1>6. CASE FoundPage(t, f)
    <2>1. f \in Frames /\ call[t].frame \notin Frames /\ call' = [call EXCEPT ![t].frame = f]
      BY <1>6 DEF FoundPage, Calls, Pinning
    <2>2. Cardinality(Users(f)) \in Nat /\ frame[f].pin \in Nat /\ frame[f].pin >= Cardinality(Users(f))
      BY <2>1, UsersFinite DEF Pins, TypeOK
    <2>3. frame'[f].pin = frame[f].pin + 1 /\ \A g \in Frames : g /= f => frame'[g] = frame[g]
      BY <1>6, <2>1 DEF FoundPage, TypeOK
    <2>4. frame'[f].pin >= Cardinality(Users(f)) + 1 /\ frame'[f].pin \in Nat
      BY <2>2, <2>3
    <2> QED
      BY ONLY TypeOK, Pins, t \in Threads, <2>1, <2>3, <2>4, PinsAdded
  <1>7. CASE MissedPage(t)
    <2>1. \A u \in Threads : call'[u].frame = call[u].frame
      BY <1>7 DEF MissedPage, TypeOK, Calls, Call, NoCall
    <2>2. \A g \in Frames : frame'[g].pin = frame[g].pin \/ frame'[g].pin = frame[g].pin + 1
      BY <1>7 DEF MissedPage, TypeOK
    <2> QED
      BY <2>1, <2>2, PinsSame
  <1>8. CASE LockPool(t)
    <2>1. \A u \in Threads : call'[u].frame = call[u].frame
      BY <1>8 DEF LockPool, TypeOK, Calls, Call, NoCall
    <2>2. \A g \in Frames : frame'[g].pin = frame[g].pin \/ frame'[g].pin = frame[g].pin + 1
      BY <1>8 DEF LockPool, TypeOK
    <2> QED
      BY <2>1, <2>2, PinsSame
  <1>9. CASE FoundFrame(t, f)
    <2>1. f \in Frames /\ call[t].frame \notin Frames /\ call' = [call EXCEPT ![t].frame = f]
      BY <1>9 DEF FoundFrame, Calls, Pinning
    <2>2. Cardinality(Users(f)) \in Nat /\ frame[f].pin \in Nat /\ frame[f].pin >= Cardinality(Users(f))
      BY <2>1, UsersFinite DEF Pins, TypeOK
    <2>3. frame'[f].pin = frame[f].pin + 1 /\ \A g \in Frames : g /= f => frame'[g] = frame[g]
      BY <1>9, <2>1 DEF FoundFrame, TypeOK
    <2>4. frame'[f].pin >= Cardinality(Users(f)) + 1 /\ frame'[f].pin \in Nat
      BY <2>2, <2>3
    <2> QED
      BY ONLY TypeOK, Pins, t \in Threads, <2>1, <2>3, <2>4, PinsAdded
  <1>10. CASE TakenFrame(t, f)
    <2>1. f \in Frames /\ call[t].frame \notin Frames /\ call' = [call EXCEPT ![t].frame = f]
      BY <1>10 DEF TakenFrame, Calls, Pinning
    <2>2. Users(f) = {}
      BY <1>10, <2>1, NoPageAssumption DEF TakenFrame, Users, Held, Calls, Pinning
    <2>3. Cardinality(Users(f)) = 0
      BY <2>2, FS_EmptySet
    <2>4. frame'[f].pin = 1 /\ \A g \in Frames : g /= f => frame'[g] = frame[g]
      BY <1>10, <2>1 DEF TakenFrame, TypeOK
    <2>5. frame'[f].pin >= Cardinality(Users(f)) + 1 /\ frame'[f].pin \in Nat
      BY <2>3, <2>4
    <2> QED
      BY ONLY TypeOK, Pins, t \in Threads, <2>1, <2>4, <2>5, PinsAdded
  <1>11. CASE NoFrame(t)
    <2>1. \A u \in Threads : call'[u].frame = call[u].frame
      BY <1>11 DEF NoFrame, TypeOK, Calls, Call, NoCall
    <2>2. \A g \in Frames : frame'[g].pin = frame[g].pin \/ frame'[g].pin = frame[g].pin + 1
      BY <1>11 DEF NoFrame, TypeOK
    <2> QED
      BY <2>1, <2>2, PinsSame
  <1>12. CASE PurgedHere(t, f)
    <2>1. \A u \in Threads : call'[u].frame = call[u].frame
      BY <1>12 DEF PurgedHere, TypeOK, Calls, Call, NoCall
    <2>2. \A g \in Frames : frame'[g].pin = frame[g].pin \/ frame'[g].pin = frame[g].pin + 1
      BY <1>12 DEF PurgedHere, TypeOK
    <2> QED
      BY <2>1, <2>2, PinsSame
  <1>13. CASE PurgedThere(t, f)
    <2>1. \A u \in Threads : call'[u].frame = call[u].frame
      BY <1>13 DEF PurgedThere, TypeOK, Calls, Call, NoCall
    <2>2. \A g \in Frames : frame'[g].pin = frame[g].pin \/ frame'[g].pin = frame[g].pin + 1
      BY <1>13 DEF PurgedThere, TypeOK
    <2> QED
      BY <2>1, <2>2, PinsSame
  <1>14. CASE NothingToPurge(t)
    <2>1. \A u \in Threads : call'[u].frame = call[u].frame
      BY <1>14 DEF NothingToPurge, TypeOK, Calls, Call, NoCall
    <2>2. \A g \in Frames : frame'[g].pin = frame[g].pin \/ frame'[g].pin = frame[g].pin + 1
      BY <1>14 DEF NothingToPurge, TypeOK
    <2> QED
      BY <2>1, <2>2, PinsSame
  <1>15. CASE LockManager(t)
    <2>1. \A u \in Threads : call'[u].frame = call[u].frame
      BY <1>15 DEF LockManager, TypeOK, Calls, Call, NoCall
    <2>2. \A g \in Frames : frame'[g].pin = frame[g].pin \/ frame'[g].pin = frame[g].pin + 1
      BY <1>15 DEF LockManager, TypeOK
    <2> QED
      BY <2>1, <2>2, PinsSame
  <1>16. CASE FlushVictim(t)
    <2> DEFINE v == call[t].victim
    <2>1. v \in Frames /\ Users(v) = {}
      BY <1>16 DEF FlushVictim, Calls, Victims, Users, Flushing
    <2>2. \A g \in Frames : Users(g)' = Users(g)
      BY <1>16 DEF FlushVictim, Users, TypeOK, Call
    <2>3. \A g \in Frames : frame'[g].pin = IF g = v THEN 0 ELSE frame[g].pin
      BY <1>16, <2>1 DEF FlushVictim, TypeOK
    <2>4. Cardinality(Users(v)) = 0
      BY <2>1, FS_EmptySet
    <2> HIDE DEF v
    <2> SUFFICES ASSUME NEW g \in Frames PROVE frame'[g].pin >= Cardinality(Users(g)')
      BY DEF Pins
    <2>5. Cardinality(Users(g)') = Cardinality(Users(g))
      BY <2>2
    <2>6. CASE g = v
      BY <2>3, <2>4, <2>5, <2>6
    <2>7. CASE g /= v
      BY <2>3, <2>5, <2>7 DEF Pins
    <2> QED
      BY <2>6, <2>7
  <1>17. CASE LoadPage(t)
    <2>1. \A u \in Threads : call'[u].frame = call[u].frame
      BY <1>17 DEF LoadPage, TypeOK, Calls, Call, NoCall
    <2>2. \A g \in Frames : frame'[g].pin = frame[g].pin \/ frame'[g].pin = frame[g].pin + 1
      BY <1>17 DEF LoadPage, TypeOK
    <2> QED
      BY <2>1, <2>2, PinsSame
  <1>18. CASE ExtendFile(t)
    <2>1. \A u \in Threads : call'[u].frame = call[u].frame
      BY <1>18 DEF ExtendFile, TypeOK, Calls, Call, NoCall
    <2>2. \A g \in Frames : frame'[g].pin = frame[g].pin \/ frame'[g].pin = frame[g].pin + 1
      BY <1>18 DEF ExtendFile, TypeOK
    <2> QED
      BY <2>1, <2>2, PinsSame
  <1>19. CASE Modify(t)
    <2>1. \A u \in Threads : call'[u].frame = call[u].frame
      BY <1>19 DEF Modify, CanModify, Changed, TypeOK, Calls, Call, NoCall
    <2>2. \A g \in Frames : frame'[g].pin = frame[g].pin \/ frame'[g].pin = frame[g].pin + 1
      BY <1>19 DEF Modify, CanModify, Changed, TypeOK
    <2> QED
      BY <2>1, <2>2, PinsSame
  <1>20. CASE MarkDirty(t)
    <2>1. \A u \in Threads : call'[u].frame = call[u].frame
      BY <1>20 DEF MarkDirty, TypeOK, Calls, Call, NoCall
    <2>2. \A g \in Frames : frame'[g].pin = frame[g].pin \/ frame'[g].pin = frame[g].pin + 1
      BY <1>20 DEF MarkDirty, TypeOK
    <2> QED
      BY <2>1, <2>2, PinsSame
  <1>21. CASE UnpinPage(t)
    <2> DEFINE v == call[t].frame
    <2>1. v \in Frames /\ t \in Users(v)
      BY <1>21 DEF UnpinPage, Calls, Users, Pinning
    <2>2. \A g \in Frames : Users(g)' = IF g = v THEN Users(g) \ {t} ELSE Users(g)
      BY <1>21, <2>1, PoolAssumption DEF UnpinPage, Users, TypeOK, Call, NoCall
    <2>3. Cardinality(Users(v) \ {t}) = Cardinality(Users(v)) - 1
      BY <2>1, UsersFinite, FS_RemoveElement
    <2>4. \A g \in Frames : frame'[g].pin = IF g = v THEN frame[g].pin - 1 ELSE frame[g].pin
      BY <1>21, <2>1 DEF UnpinPage, TypeOK
    <2>5. \A g \in Frames : frame[g].pin \in Nat /\ Cardinality(Users(g)) \in Nat
      BY UsersFinite DEF TypeOK
    <2> HIDE DEF v
    <2> SUFFICES ASSUME NEW g \in Frames PROVE frame'[g].pin >= Cardinality(Users(g)')
      BY DEF Pins
    <2> QED
      BY <2>1, <2>2, <2>3, <2>4, <2>5 DEF Pins
  <1>22. CASE d \in Files /\ OpenFile(t, d)
    <2>1. \A u \in Threads : call'[u].frame = call[u].frame
      BY <1>22 DEF OpenFile, TypeOK, Calls, Call, NoCall
    <2>2. \A g \in Frames : frame'[g].pin = frame[g].pin \/ frame'[g].pin = frame[g].pin + 1
      BY <1>22 DEF OpenFile, TypeOK
    <2> QED
      BY <2>1, <2>2, PinsSame
  <1>23. CASE FinishOpen(t)
    <2>1. \A g \in Frames : Users(g)' \subseteq Users(g)
      BY <1>23, PoolAssumption DEF FinishOpen, TypeOK, Call, NoCall, Users
    <2>2. \A g \in Frames : frame'[g].pin = frame[g].pin
      BY <1>23 DEF FinishOpen, TypeOK
    <2> SUFFICES ASSUME NEW g \in Frames PROVE frame'[g].pin >= Cardinality(Users(g)')
      BY DEF Pins
    <2>3. Cardinality(Users(g)') \in Nat /\ Cardinality(Users(g)') <= Cardinality(Users(g))
      BY <2>1, UsersFinite, FS_Subset, FS_CardinalityType
    <2>4. frame[g].pin \in Nat /\ Cardinality(Users(g)) \in Nat /\ frame[g].pin >= Cardinality(Users(g))
      BY UsersFinite DEF Pins, TypeOK
    <2> QED
      BY <2>2, <2>3, <2>4
  <1>24. CASE Stamp(t)
    <2>1. \A u \in Threads : call'[u].frame = call[u].frame
      BY <1>24 DEF Stamp, CanModify, Changed, TypeOK, Calls, Call, NoCall
    <2>2. \A g \in Frames : frame'[g].pin = frame[g].pin \/ frame'[g].pin = frame[g].pin + 1
      BY <1>24 DEF Stamp, CanModify, Changed, TypeOK
    <2> QED
      BY <2>1, <2>2, PinsSame
  <1> QED
    BY <1>1, <1>2, <1>3, <1>4, <1>5, <1>6, <1>7, <1>8, <1>9, <1>10, <1>11,
       <1>12, <1>13, <1>14, <1>15, <1>16, <1>17, <1>18, <1>19, <1>20, <1>21, <1>22, <1>23, <1>24 DEF Action

\* The header's count of allocated pages stays that of its bitmap.
LEMMA HeaderCountsKept ==
  ASSUME TypeOK, Calls, Held, FramesAllocated, HeaderCounts,
         NEW t \in Threads, NEW id, NEW d, NEW f, NEW i, Action(t, id, d, f, i)
  PROVE  HeaderCounts'
  <1> USE DEF Goto, Unlock, lockVars, Pin, MapFrame, Evicted
  <1>1. CASE id \in FrameId /\ GetThisPage(t, id)
    BY <1>1 DEF GetThisPage, HeaderCounts
  <1>2. CASE DisposeFrame(t, id, f)
    <2>1. id \in FrameId /\ id[1] \in Files /\ f \in Frames /\ frame[f].id = id /\ id /= NoPage
      BY <1>2, NoPageAssumption DEF DisposeFrame, FrameId
    <2>2. id[2] \in header[id[1]].bitmap
      <3>1. \A u \in Threads : ~(pc[u] = "new" /\ call[u].frame = f)
        BY <1>2, <2>1 DEF DisposeFrame, Held
      <3> QED
        BY <2>1, <3>1 DEF FramesAllocated
    <2>3. \A e \in Files : header[e].bitmap \in SUBSET PageNums
      BY DEF TypeOK
    <2>4. Cardinality(header[id[1]].bitmap \ {id[2]}) = Cardinality(header[id[1]].bitmap) - 1
      BY <2>1, <2>2, <2>3, BitmapFinite, FS_RemoveElement
    <2>5. /\ \A e \in Files : header'[e].page_count = header[e].page_count
          /\ \A e \in Files : header'[e].bitmap = IF e = id[1] THEN header[e].bitmap \ {id[2]} ELSE header[e].bitmap
          /\ \A e \in Files : header'[e].allocated_pages
                               = IF e = id[1] THEN header[e].allocated_pages - 1 ELSE header[e].allocated_pages
      <3>1. Disposed(id)
        BY ONLY <1>2, TypeOK, DisposedHeader
      <3> QED
        BY ONLY <3>1 DEF Disposed
    <2>6. 0 /= id[2]
      BY <1>2 DEF DisposeFrame
    <2>7. \A e \in Files : 0 \in header'[e].bitmap
      BY <2>5, <2>6 DEF HeaderCounts
    <2> QED
      BY <2>1, <2>4, <2>5, <2>7 DEF HeaderCounts
  <1>3. CASE ReusePage(t, d, i)
    <2>1. d \in Files /\ i \notin header[d].bitmap /\ i \in 0 .. header[d].page_count - 1
      BY <1>3 DEF ReusePage
    <2>2. Cardinality(header[d].bitmap \cup {i}) = Cardinality(header[d].bitmap) + 1
      <3>1. IsFiniteSet(header[d].bitmap)
        BY <2>1, BitmapFinite DEF TypeOK
      <3> QED
        BY <2>1, <3>1, FS_AddElement
    <2>3. \A e \in Files : e /= d => header'[e] = header[e]
      BY <1>3 DEF ReusePage, TypeOK
    <2>4. /\ header'[d].page_count = header[d].page_count
          /\ header'[d].bitmap = header[d].bitmap \cup {i}
          /\ header'[d].allocated_pages = header[d].allocated_pages + 1
      BY <1>3, <2>1 DEF ReusePage, TypeOK
    <2> QED
      BY <2>1, <2>2, <2>3, <2>4 DEF HeaderCounts
  <1>4. CASE AddPage(t, d)
    BY <1>4 DEF AddPage, HeaderCounts
  <1>5. CASE FlushFrame(t, d, f)
    BY <1>5 DEF FlushFrame, HeaderCounts
  <1>6. CASE FoundPage(t, f)
    BY <1>6 DEF FoundPage, HeaderCounts
  <1>7. CASE MissedPage(t)
    BY <1>7 DEF MissedPage, HeaderCounts
  <1>8. CASE LockPool(t)
    BY <1>8 DEF LockPool, HeaderCounts
  <1>9. CASE FoundFrame(t, f)
    BY <1>9 DEF FoundFrame, HeaderCounts
  <1>10. CASE TakenFrame(t, f)
    BY <1>10 DEF TakenFrame, HeaderCounts
  <1>11. CASE NoFrame(t)
    BY <1>11 DEF NoFrame, HeaderCounts
  <1>12. CASE PurgedHere(t, f)
    BY <1>12 DEF PurgedHere, HeaderCounts
  <1>13. CASE PurgedThere(t, f)
    BY <1>13 DEF PurgedThere, HeaderCounts
  <1>14. CASE NothingToPurge(t)
    BY <1>14 DEF NothingToPurge, HeaderCounts
  <1>15. CASE LockManager(t)
    BY <1>15 DEF LockManager, HeaderCounts
  <1>16. CASE FlushVictim(t)
    BY <1>16 DEF FlushVictim, HeaderCounts
  <1>17. CASE LoadPage(t)
    BY <1>17 DEF LoadPage, HeaderCounts
  <1>18. CASE ExtendFile(t)
    <2> DEFINE c == FileOf(t)
               n == header[c].page_count
    <2>1. c \in Files
      BY <1>18 DEF ExtendFile, Calls, FileOf, FrameId
    <2>2. n \in Nat /\ header[c].bitmap \subseteq 0 .. n - 1 /\ header[c].allocated_pages = Cardinality(header[c].bitmap)
      BY <2>1, PoolAssumption DEF TypeOK, HeaderCounts
    <2>3. n \notin header[c].bitmap
      BY <2>2
    <2>4. Cardinality(header[c].bitmap \cup {n}) = Cardinality(header[c].bitmap) + 1
      <3>1. IsFiniteSet(header[c].bitmap)
        BY <2>1, BitmapFinite DEF TypeOK
      <3> QED
        BY <2>3, <3>1, FS_AddElement
    <2>5. \A e \in Files : e /= c => header'[e] = header[e]
      BY <1>18 DEF ExtendFile, TypeOK
    <2>6. /\ header'[c].page_count = n + 1
          /\ header'[c].bitmap = header[c].bitmap \cup {n}
          /\ header'[c].allocated_pages = header[c].allocated_pages + 1
      BY <1>18, <2>1 DEF ExtendFile, TypeOK
    <2> HIDE DEF c, n
    <2>7. header'[c].bitmap \subseteq 0 .. header'[c].page_count - 1
      BY <2>2, <2>6
    <2> QED
      BY <2>1, <2>2, <2>4, <2>5, <2>6, <2>7 DEF HeaderCounts
  <1>19. CASE Modify(t)
    BY <1>19 DEF Modify, CanModify, Changed, HeaderCounts
  <1>20. CASE MarkDirty(t)
    BY <1>20 DEF MarkDirty, HeaderCounts
  <1>21. CASE UnpinPage(t)
    BY <1>21 DEF UnpinPage, HeaderCounts
  <1>22. CASE d \in Files /\ OpenFile(t, d)
    BY <1>22 DEF OpenFile, HeaderCounts
  <1>23. CASE FinishOpen(t)
    BY <1>23 DEF FinishOpen, HeaderCounts
  <1>24. CASE Stamp(t)
    BY <1>24 DEF Stamp, CanModify, Changed, HeaderCounts
  <1> QED
    BY <1>1, <1>2, <1>3, <1>4, <1>5, <1>6, <1>7, <1>8, <1>9, <1>10, <1>11,
       <1>12, <1>13, <1>14, <1>15, <1>16, <1>17, <1>18, <1>19, <1>20, <1>21, <1>22, <1>23, <1>24 DEF Action

-----------------------------------------------------------------------------
(* Types are kept.                                                         *)

\* A frame that has been freed has the type of a frame.
LEMMA EvictedType ==
  ASSUME TypeOK, NEW f \in Frames
  PROVE  [frame EXCEPT ![f] = Evicted(f)] \in [Frames -> FrameType]
  <1>1. frame[f] \in FrameType /\ frame \in [Frames -> FrameType]
    BY DEF TypeOK, FrameType
  <1>2. Evicted(f) \in FrameType
    BY <1>1 DEF Evicted, FrameType
  <1> QED
    BY <1>1, <1>2

\* A call that gets a frame or a victim is a call.
LEMMA CallFields ==
  ASSUME TypeOK, NEW t \in Threads, NEW f \in Frames \cup {NoOne}
  PROVE  /\ [call EXCEPT ![t].frame = f] \in [Threads -> Call]
         /\ [call EXCEPT ![t].victim = f] \in [Threads -> Call]
  <1>1. call[t] \in Call /\ call \in [Threads -> Call]
    BY DEF TypeOK
  <1>2. [call[t] EXCEPT !.frame = f] \in Call /\ [call[t] EXCEPT !.victim = f] \in Call
    BY <1>1 DEF Call
  <1> QED
    BY <1>1, <1>2

\* Every variable keeps its type: counts stay numbers, a page no more than its
\* users have written.
LEMMA TypesKept ==
  ASSUME TypeOK, Calls, Held, Pins, Pages, HeaderCounts, HeaderCounts', Bounded,
         NEW t \in Threads, NEW id, NEW d, NEW f, NEW i, Action(t, id, d, f, i)
  PROVE  TypeOK'
  <1> USE DEF Goto, Unlock, lockVars, Pin, MapFrame, Evicted
  <1>1. CASE id \in FrameId /\ GetThisPage(t, id)
    <2>1. call' \in [Threads -> Call]
      BY <1>1 DEF GetThisPage, TypeOK, Call, NoCall
    <2>2. pc' \in [Threads -> Steps]
      BY <1>1, SMTT(60) DEF GetThisPage, TypeOK, Steps
    <2> QED
      BY <1>1, <2>1, <2>2 DEF GetThisPage, TypeOK, FrameType
  <1>2. CASE DisposeFrame(t, id, f)
    <2>1. frame' \in [Frames -> FrameType]
      BY <1>2, PoolAssumption, SMTT(60) DEF DisposeFrame, TypeOK, FrameType
    <2>2. latest' \in [FrameId -> Content]
      BY <1>2 DEF DisposeFrame, TypeOK
    <2>3. header' \in [Files -> [page_count : 1 .. MaxPageNum, allocated_pages : Int, bitmap : SUBSET PageNums, open : BOOLEAN]]
      <3>1. Disposed(id)
        BY ONLY <1>2, TypeOK, DisposedHeader
      <3> QED
        BY ONLY <3>1 DEF Disposed, HeaderT
    <2>4. \A e \in Files : header'[e].allocated_pages \in Nat
      BY <2>3, BitmapFinite DEF HeaderCounts
    <2>5. header' \in [Files -> [page_count : 1 .. MaxPageNum, allocated_pages : Nat, bitmap : SUBSET PageNums, open : BOOLEAN]]
      BY <2>3, <2>4
    <2> QED
      BY <1>2, <2>1, <2>2, <2>3, <2>4, <2>5 DEF DisposeFrame, TypeOK, FrameType
  <1>3. CASE ReusePage(t, d, i)
    <2>1. header' \in [Files -> [page_count : 1 .. MaxPageNum, allocated_pages : Nat, bitmap : SUBSET PageNums, open : BOOLEAN]]
      BY <1>3 DEF ReusePage, TypeOK
    <2>2. <<d, i>> \in FrameId
      BY <1>3, PoolAssumption DEF ReusePage, TypeOK, FrameId, PageNums
    <2>3. call' \in [Threads -> Call]
      BY <1>3, <2>2 DEF ReusePage, TypeOK, Call, NoCall
    <2>4. pc' \in [Threads -> Steps]
      BY <1>3 DEF ReusePage, TypeOK, Steps
    <2> QED
      BY <1>3, <2>1, <2>2, <2>3, <2>4 DEF ReusePage, TypeOK, FrameType
  <1>4. CASE AddPage(t, d)
    <2>1. pool_owner' \in [Files -> Threads \cup {NoOne}]
      BY <1>4 DEF AddPage, TypeOK
    <2>2. <<d, header[d].page_count>> \in FrameId
      BY <1>4, PoolAssumption DEF AddPage, TypeOK, FrameId, PageNums
    <2>3. call' \in [Threads -> Call]
      BY <1>4, <2>2 DEF AddPage, TypeOK, Call, NoCall
    <2>4. pc' \in [Threads -> Steps]
      BY <1>4 DEF AddPage, TypeOK, Steps
    <2> QED
      BY <1>4, <2>1, <2>2, <2>3, <2>4 DEF AddPage, TypeOK, FrameType
  <1>5. CASE FlushFrame(t, d, f)
    <2>1. frame' \in [Frames -> FrameType]
      BY <1>5 DEF FlushFrame
    <2>2. disk' \in [FrameId -> Content]
      BY <1>5 DEF FlushFrame, TypeOK, Written
    <2> QED
      BY <1>5, <2>1, <2>2 DEF FlushFrame, TypeOK, FrameType
  <1>6. CASE FoundPage(t, f)
    <2>1. frame' \in [Frames -> FrameType]
      BY <1>6, PoolAssumption DEF FoundPage, TypeOK, FrameType
    <2>2. call' \in [Threads -> Call]
      BY <1>6, ZenonT(60) DEF FoundPage, TypeOK, Call
    <2>3. pc' \in [Threads -> Steps]
      BY <1>6 DEF FoundPage, TypeOK, Steps
    <2> QED
      BY <1>6, <2>1, <2>2, <2>3 DEF FoundPage, TypeOK, FrameType
  <1>7. CASE MissedPage(t)
    <2>1. pc' \in [Threads -> Steps]
      BY <1>7 DEF MissedPage, TypeOK, Steps
    <2> QED
      BY <1>7, <2>1 DEF MissedPage, TypeOK, FrameType
  <1>8. CASE LockPool(t)
    <2>1. pool_owner' \in [Files -> Threads \cup {NoOne}]
      BY <1>8 DEF LockPool, TypeOK
    <2>2. pc' \in [Threads -> Steps]
      BY <1>8 DEF LockPool, TypeOK, Steps
    <2> QED
      BY <1>8, <2>1, <2>2 DEF LockPool, TypeOK, FrameType
  <1>9. CASE FoundFrame(t, f)
    <2>1. frame' \in [Frames -> FrameType]
      BY <1>9, PoolAssumption DEF FoundFrame, TypeOK, FrameType
    <2>2. call' \in [Threads -> Call]
      BY <1>9, ZenonT(60) DEF FoundFrame, TypeOK, Call
    <2>3. pc' \in [Threads -> Steps]
      BY <1>9 DEF FoundFrame, TypeOK, Steps
    <2> QED
      BY <1>9, <2>1, <2>2, <2>3 DEF FoundFrame, TypeOK, FrameType
  <1>10. CASE TakenFrame(t, f)
    <2>1. frame' \in [Frames -> FrameType]
      <3>1. f \in Frames /\ call[t].id \in FrameId /\ frame[f] \in FrameType /\ frame \in [Frames -> FrameType]
        BY <1>10 DEF TakenFrame, TypeOK, Calls, FrameType
      <3>2. [frame[f] EXCEPT !.id = call[t].id, !.pin = 1, !.stamped = FALSE, !.data = Garbage] \in FrameType
        BY <3>1, ContentRange DEF FrameType
      <3> QED
        BY <1>10, <3>1, <3>2 DEF TakenFrame
    <2>2. call' \in [Threads -> Call]
      BY <1>10, CallFields DEF TakenFrame
    <2>3. pc' \in [Threads -> Steps]
      BY <1>10 DEF TakenFrame, TypeOK, Steps
    <2> QED
      BY <1>10, <2>1, <2>2, <2>3 DEF TakenFrame, TypeOK, FrameType
  <1>11. CASE NoFrame(t)
    <2>1. pc' \in [Threads -> Steps]
      BY <1>11 DEF NoFrame, TypeOK, Steps
    <2> QED
      BY <1>11, <2>1 DEF NoFrame, TypeOK, FrameType
  <1>12. CASE PurgedHere(t, f)
    <2>1. frame' \in [Frames -> FrameType]
      BY <1>12, EvictedType DEF PurgedHere
    <2>2. disk' \in [FrameId -> Content]
      BY <1>12 DEF PurgedHere, TypeOK, Written, Calls, Flushing
    <2>3. pc' \in [Threads -> Steps]
      BY <1>12 DEF PurgedHere, TypeOK, Steps
    <2> QED
      BY <1>12, <2>1, <2>2, <2>3 DEF PurgedHere, TypeOK, FrameType
  <1>13. CASE PurgedThere(t, f)
    <2>1. frame' \in [Frames -> FrameType]
      <3>1. f \in Frames /\ frame \in [Frames -> FrameType] /\ frame' = [frame EXCEPT ![f].pin = 1]
        BY <1>13 DEF PurgedThere, TypeOK, FrameType
      <3> QED
        BY ONLY <3>1 DEF FrameType
    <2>2. call' \in [Threads -> Call]
      BY <1>13, ZenonT(60) DEF PurgedThere, TypeOK, Call
    <2>3. pc' \in [Threads -> Steps]
      BY <1>13 DEF PurgedThere, TypeOK, Steps
    <2> QED
      BY <1>13, <2>1, <2>2, <2>3 DEF PurgedThere, TypeOK, FrameType
  <1>14. CASE NothingToPurge(t)
    <2>1. pc' \in [Threads -> Steps]
      BY <1>14 DEF NothingToPurge, TypeOK, Steps
    <2> QED
      BY <1>14, <2>1 DEF NothingToPurge, TypeOK, FrameType
  <1>15. CASE LockManager(t)
    <2>1. pc' \in [Threads -> Steps]
      BY <1>15 DEF LockManager, TypeOK, Steps
    <2> QED
      BY <1>15, <2>1 DEF LockManager, TypeOK, FrameType
  <1>16. CASE FlushVictim(t)
    <2>1. frame' \in [Frames -> FrameType]
      BY <1>16, EvictedType DEF FlushVictim, Calls, Flushing
    <2>2. disk' \in [FrameId -> Content]
      BY <1>16 DEF FlushVictim, TypeOK, Written, Calls, Flushing
    <2>3. call' \in [Threads -> Call]
      BY <1>16, CallFields DEF FlushVictim
    <2>4. pc' \in [Threads -> Steps]
      BY <1>16 DEF FlushVictim, TypeOK, Steps
    <2> QED
      BY <1>16, <2>1, <2>2, <2>3, <2>4 DEF FlushVictim, TypeOK, FrameType
  <1>17. CASE LoadPage(t)
    <2>1. frame' \in [Frames -> FrameType]
      <3>1. call[t].frame \in Frames /\ disk[call[t].id] \in Content /\ frame \in [Frames -> FrameType]
        BY <1>17 DEF LoadPage, TypeOK, Calls, Pinning, FrameType
      <3> QED
        BY <1>17, <3>1 DEF LoadPage, FrameType
    <2>2. pool_owner' \in [Files -> Threads \cup {NoOne}]
      BY <1>17 DEF LoadPage, TypeOK
    <2>3. pc' \in [Threads -> Steps]
      BY <1>17 DEF LoadPage, TypeOK, Steps
    <2> QED
      BY <1>17, <2>1, <2>2, <2>3 DEF LoadPage, TypeOK, FrameType
  <1>18. CASE ExtendFile(t)
    <2>1. frame' \in [Frames -> FrameType]
      <3> DEFINE G == [frame EXCEPT ![call[t].frame].data = 0]
                 H == [G EXCEPT ![call[t].frame].dirty = FALSE]
      <3>1. call[t].frame \in Frames /\ frame' = [H EXCEPT ![call[t].frame].stamped = FALSE]
        BY <1>18 DEF ExtendFile, Calls, Pinning
      <3>2. G \in [Frames -> FrameType]
        BY <3>1, ContentRange, ZenonT(60) DEF TypeOK, FrameType
      <3> HIDE DEF G
      <3>3. H \in [Frames -> FrameType]
        BY <3>1, <3>2 DEF FrameType
      <3> HIDE DEF H
      <3> QED
        BY <3>1, <3>3 DEF FrameType
    <2>2. disk' \in [FrameId -> Content] /\ latest' \in [FrameId -> Content]
      BY <1>18, ContentRange DEF ExtendFile, TypeOK
    <2>3. header[FileOf(t)].page_count \in PageNums /\ FileOf(t) \in Files
      BY <1>18 DEF ExtendFile, Calls, Pages, Extending, Locked, FileOf, FrameId
    <2>4. header[FileOf(t)].page_count + 1 \in 1 .. MaxPageNum
      BY <2>3, PoolAssumption DEF PageNums
    <2>5. header' \in [Files -> [page_count : 1 .. MaxPageNum, allocated_pages : Nat, bitmap : SUBSET PageNums, open : BOOLEAN]]
      BY <1>18, <2>3, <2>4 DEF ExtendFile, TypeOK
    <2>6. pool_owner' \in [Files -> Threads \cup {NoOne}]
      BY <1>18 DEF ExtendFile, TypeOK
    <2>7. pc' \in [Threads -> Steps]
      BY <1>18 DEF ExtendFile, TypeOK, Steps
    <2> QED
      BY <1>18, <2>1, <2>2, <2>3, <2>4, <2>5, <2>6, <2>7 DEF ExtendFile, TypeOK, FrameType
  <1>19. CASE Modify(t)
    <2>1. call[t].frame \in Frames /\ call[t].id \in FrameId /\ frame[call[t].frame].id = call[t].id /\ call[t].id /= NoPage
      BY <1>19, NoPageAssumption DEF Modify, CanModify, Changed, Calls, Held, Pinning
    <2>2. /\ latest[call[t].id] \in Int /\ 0 <= latest[call[t].id] /\ latest[call[t].id] < MaxWrites
          /\ frame[call[t].frame].data \in Int /\ -1 <= frame[call[t].frame].data
          /\ frame[call[t].frame].data <= latest[call[t].id]
      <3>1. latest[call[t].id] \in Content /\ frame[call[t].frame].data \in Content
        BY <2>1 DEF TypeOK
      <3>2. disk[call[t].id] \in 0 .. latest[call[t].id] /\ frame[call[t].frame].data <= latest[call[t].id]
        BY <2>1 DEF Bounded
      <3> QED
        BY <1>19, <3>1, <3>2, PoolAssumption DEF Modify, CanModify, Changed, Content
    <2>3. latest[call[t].id] + 1 \in Content /\ (IF frame[call[t].frame].data = Garbage THEN Garbage ELSE frame[call[t].frame].data + 1) \in Content
      BY <2>2, PoolAssumption DEF Content, Garbage
    <2>4. frame' \in [Frames -> FrameType]
      <3> DEFINE F == call[t].frame
                 R == [frame[F] EXCEPT !.data = Changed(@)]
      <3>1. frame \in [Frames -> FrameType] /\ frame[F] \in FrameType /\ F \in Frames
        BY <2>1 DEF TypeOK, FrameType
      <3>2. Changed(frame[F].data) \in Content
        BY <2>3 DEF Changed
      <3>3. R \in FrameType
        BY ONLY <3>1, <3>2 DEF FrameType
      <3>4. frame' = [frame EXCEPT ![F] = R]
        BY <1>19 DEF Modify
      <3> QED
        BY ONLY <3>1, <3>3, <3>4
    <2>5. latest' \in [FrameId -> Content]
      BY <1>19, <2>3 DEF Modify, CanModify, Changed, TypeOK
    <2>6. pc' \in [Threads -> Steps]
      BY <1>19 DEF Modify, CanModify, Changed, TypeOK, Steps
    <2> QED
      BY <1>19, <2>4, <2>5, <2>6 DEF Modify, CanModify, Changed, TypeOK, FrameType
  <1>20. CASE MarkDirty(t)
    <2>1. frame' \in [Frames -> FrameType]
      BY <1>20, PoolAssumption, ZenonT(60) DEF MarkDirty, TypeOK, FrameType
    <2>2. pc' \in [Threads -> Steps]
      BY <1>20 DEF MarkDirty, TypeOK, Steps
    <2> QED
      BY <1>20, <2>1, <2>2 DEF MarkDirty, TypeOK, FrameType
  <1>21. CASE UnpinPage(t)
    <2>1. call[t].frame \in Frames /\ t \in Users(call[t].frame)
      BY <1>21 DEF UnpinPage, Calls, Users, Pinning
    <2>2. frame[call[t].frame].pin \in Nat /\ frame[call[t].frame].pin /= 0
      BY <1>21, <2>1, UnpinnedUnused DEF UnpinPage, TypeOK
    <2>3. frame[call[t].frame].pin - 1 \in Nat
      BY <2>2
    <2>4. frame' \in [Frames -> FrameType]
      BY <1>21, <2>1, <2>3, ZenonT(60) DEF UnpinPage, TypeOK, FrameType
    <2>5. call' \in [Threads -> Call]
      BY <1>21 DEF UnpinPage, TypeOK, Call, NoCall
    <2>6. pc' \in [Threads -> Steps]
      BY <1>21 DEF UnpinPage, TypeOK, Steps
    <2> QED
      BY <1>21, <2>1, <2>2, <2>3, <2>4, <2>5, <2>6 DEF UnpinPage, TypeOK, FrameType
  <1>22. CASE d \in Files /\ OpenFile(t, d)
    <2>1. pool_owner' \in [Files -> Threads \cup {NoOne}]
      BY <1>22 DEF OpenFile, TypeOK
    <2>2. <<d, 0>> \in FrameId
      BY <1>22, PoolAssumption DEF FrameId, PageNums
    <2>3. call' \in [Threads -> Call]
      BY <1>22, <2>2 DEF OpenFile, TypeOK, Call, NoCall
    <2>4. pc' \in [Threads -> Steps]
      BY <1>22 DEF OpenFile, TypeOK, Steps
    <2> QED
      BY <1>22, <2>1, <2>2, <2>3, <2>4 DEF OpenFile, TypeOK, FrameType
  <1>23. CASE FinishOpen(t)
    <2>1. frame' \in [Frames -> FrameType]
      <3>1. call[t].frame \in Frames /\ disk[call[t].id] \in Content /\ frame \in [Frames -> FrameType]
        BY <1>23 DEF FinishOpen, TypeOK, Calls, Pinning, FrameType
      <3> QED
        BY <1>23, <3>1 DEF FinishOpen, FrameType
    <2>2. header' \in [Files -> [page_count : 1 .. MaxPageNum, allocated_pages : Nat,
                                 bitmap : SUBSET PageNums, open : BOOLEAN]]
      BY <1>23 DEF FinishOpen, TypeOK
    <2>3. pc' \in [Threads -> Steps]
      BY <1>23 DEF FinishOpen, TypeOK, Steps
    <2>4. call' \in [Threads -> Call]
      BY <1>23 DEF FinishOpen, TypeOK, Call, NoCall
    <2> QED
      BY <1>23, <2>1, <2>2, <2>3, <2>4 DEF FinishOpen, TypeOK, FrameType
  <1>24. CASE Stamp(t)
    <2>1. call[t].frame \in Frames /\ call[t].id \in FrameId /\ frame[call[t].frame].id = call[t].id /\ call[t].id /= NoPage
      BY <1>24, NoPageAssumption DEF Stamp, CanModify, Changed, Calls, Held, Pinning
    <2>2. /\ latest[call[t].id] \in Int /\ 0 <= latest[call[t].id] /\ latest[call[t].id] < MaxWrites
          /\ frame[call[t].frame].data \in Int /\ -1 <= frame[call[t].frame].data
          /\ frame[call[t].frame].data <= latest[call[t].id]
      <3>1. latest[call[t].id] \in Content /\ frame[call[t].frame].data \in Content
        BY <2>1 DEF TypeOK
      <3>2. disk[call[t].id] \in 0 .. latest[call[t].id] /\ frame[call[t].frame].data <= latest[call[t].id]
        BY <2>1 DEF Bounded
      <3> QED
        BY <1>24, <3>1, <3>2, PoolAssumption DEF Stamp, CanModify, Changed, Content
    <2>3. latest[call[t].id] + 1 \in Content /\ (IF frame[call[t].frame].data = Garbage THEN Garbage ELSE frame[call[t].frame].data + 1) \in Content
      BY <2>2, PoolAssumption DEF Content, Garbage
    <2>4. frame' \in [Frames -> FrameType]
      <3> DEFINE G == [frame EXCEPT ![call[t].frame].data = Changed(@)]
      <3>1. frame' = [G EXCEPT ![call[t].frame].stamped = @ \/ ~frame[call[t].frame].dirty]
        BY <1>24 DEF Stamp
      <3>2. G \in [Frames -> FrameType]
        <4>1. Changed(frame[call[t].frame].data) \in Content
          BY <2>3 DEF Changed
        <4> QED
          BY <2>1, <4>1, SMTT(60) DEF TypeOK, FrameType
      <3> HIDE DEF G
      <3> QED
        BY <2>1, <3>1, <3>2, ZenonT(30) DEF FrameType
    <2>5. latest' \in [FrameId -> Content]
      BY <1>24, <2>3 DEF Stamp, CanModify, Changed, TypeOK
    <2>6. pc' \in [Threads -> Steps]
      BY <1>24 DEF Stamp, CanModify, Changed, TypeOK, Steps
    <2> QED
      BY <1>24, <2>4, <2>5, <2>6 DEF Stamp, CanModify, Changed, TypeOK, FrameType
  <1> QED
    BY <1>1, <1>2, <1>3, <1>4, <1>5, <1>6, <1>7, <1>8, <1>9, <1>10, <1>11,
       <1>12, <1>13, <1>14, <1>15, <1>16, <1>17, <1>18, <1>19, <1>20, <1>21, <1>22, <1>23, <1>24 DEF Action

-----------------------------------------------------------------------------
(* The invariant.                                                          *)

\* A step that changes nothing keeps the invariant.
LEMMA StutterKeeps == IInv /\ UNCHANGED vars => IInv'
  <1> SUFFICES ASSUME IInv, UNCHANGED vars PROVE IInv'
    OBVIOUS
  <1> USE DEF vars, lockVars, IInv, ControlInv, FrameInv, HeaderInv, ContentInv
  <1>1. TypeOK' /\ Calls' /\ Locks'
    BY DEF TypeOK, Calls, Locks, FileOf
  <1>2. Victims' /\ Held' /\ OneFramePerPage'
    BY DEF Victims, Held, OneFramePerPage, FileOf
  <1>3. Pins'
    BY PinsSame
  <1>4. Pages' /\ HeaderCounts' /\ FramesAllocated'
    BY DEF Pages, Extending, FileOf, HeaderCounts, FramesAllocated
  <1>5. Bounded' /\ Loading' /\ Clean'
    BY DEF Bounded, Loading, Clean
  <1> QED
    BY <1>1, <1>2, <1>3, <1>4, <1>5

\* Every step keeps the invariant.
LEMMA NextKeeps == IInv /\ [Next]_vars => IInv'
  <1> SUFFICES ASSUME IInv, Next PROVE IInv'
    BY StutterKeeps
  <1> USE DEF IInv, ControlInv, FrameInv, HeaderInv, ContentInv
  <1>1. PICK t \in Threads : \E id, d, f, i : Action(t, id, d, f, i)
    BY NextIsAction
  <1>2. PICK id, d, f, i : Action(t, id, d, f, i)
    BY <1>1
  <1>3. Calls' /\ Locks'
    BY <1>2, CallsKept, LocksKept
  <1>4. Victims' /\ Held' /\ Pins' /\ OneFramePerPage'
    BY <1>2, VictimsKept, HeldKept, PinsKept, OneFrameKept
  <1>5. Pages' /\ HeaderCounts' /\ FramesAllocated'
    BY <1>2, PagesKept, HeaderCountsKept, FramesAllocatedKept
  <1>6. Bounded' /\ Loading' /\ Clean'
    BY <1>2, BoundedKept, LoadingKept, CleanKept
  <1>7. TypeOK'
    BY <1>2, <1>5, TypesKept
  <1> QED
    BY <1>3, <1>4, <1>5, <1>6, <1>7

\* The inductive invariant holds in every state the threads reach.
THEOREM Invariance == Spec => []IInv
  BY InvInit, NextKeeps, PTL DEF Spec

\* For any number of threads, files and frames a page has at most one frame, a
\* frame in use keeps its page and a pin for each user, and the header's count
\* and bitmap agree with each other and with the frames.
THEOREM FramesSound == Spec => []FramesExact
  <1>1. IInv => FramesExact
    <2> SUFFICES ASSUME IInv PROVE FramesExact
      OBVIOUS
    <2> USE DEF IInv, ControlInv, FrameInv, HeaderInv
    <2>1. PinnedStaysMapped
      <3> SUFFICES ASSUME NEW t \in Threads, call[t].frame /= NoOne
                   PROVE  /\ frame[call[t].frame].id = call[t].id
                          /\ frame[call[t].frame].pin
                               >= Cardinality({u \in Threads : call[u].frame = call[t].frame})
        BY DEF PinnedStaysMapped
      <3>1. call[t].frame \in Frames
        BY DEF TypeOK, Call
      <3> QED
        BY <3>1 DEF Held, Pins, Users
    <2>2. HeaderExact
      <3> SUFFICES ASSUME NEW d \in Files
                   PROVE  \A f \in Frames :
                            frame[f].id /= NoPage /\ frame[f].id[1] = d
                              => \/ frame[f].id[2] \in header[d].bitmap
                                 \/ \E t \in Threads : call[t].kind = "extend" /\ call[t].frame = f
        BY DEF HeaderExact, HeaderCounts
      <3> QED
        BY DEF FramesAllocated, Calls
    <2> QED
      BY <2>1, <2>2 DEF FramesExact
  <1> QED
    BY <1>1, Invariance, PTL

\* Two threads that wait for each other, or one that waits for itself, are
\* always a purger that writes back another file's page inside the frame
\* manager's lock and a thread that wants that lock, or that has the manager's
\* lock_ since it opens a file.
THEOREM CyclesFound == Spec => []CyclesOnlyInPurge
  <1>1. IInv => CyclesOnlyInPurge
    <2> SUFFICES ASSUME IInv, NEW t \in Threads, NEW u \in Threads, WaitsFor(t, u), WaitsFor(u, t)
                 PROVE  \E p \in {t, u} :
                          /\ fm_owner = p
                          /\ \/ pc[p] = "flush_pool" /\ t /= u
                             \/ /\ pc[p] = "flush_mgr"
                                /\ \E o \in {t, u} : mgr_owner = o /\ call[o].kind = "open"
      BY DEF CyclesOnlyInPurge
    <2> USE DEF IInv, ControlInv
    <2>1. \A p \in Threads :
                          /\ fm_owner = p <=> pc[p] \in Flushing
                          /\ mgr_owner = p <=> (pc[p] = "flush_pool" \/ call[p].kind = "open")
                          /\ call[p].kind = "open" => pc[p] \in Locked
      BY DEF Locks, Calls
    <2>2. ASSUME NEW p \in Threads, NEW q \in Threads, pc[p] = "miss", WaitsFor(q, p)
          PROVE  FALSE
      <3>1. \A d \in Files : pool_owner[d] /= p
        BY <2>2 DEF Locks, Locked
      <3>2. fm_owner /= p /\ mgr_owner /= p
        BY <2>1, <2>2 DEF Flushing, Locked
      <3>3. pc[q] = "miss" => FileOf(q) \in Files
        BY DEF Calls, FileOf, FrameId
      <3>4. pc[q] = "flush_pool" => frame[call[q].victim].id[1] \in Files
        BY DEF FrameInv, Victims, Flushing, FrameId
      <3> QED
        BY <2>2, <3>1, <3>2, <3>3, <3>4 DEF WaitsFor
    <2>3. pc[t] /= "miss" /\ pc[u] /= "miss"
      BY <2>2
    <2>4. ASSUME t = u, pc[t] = "flush_pool"
          PROVE  FALSE
      <3>1. pool_owner[frame[call[t].victim].id[1]] = t
        BY <2>4 DEF WaitsFor
      <3>2. frame[call[t].victim].id[1] \in Files /\ frame[call[t].victim].id[1] /= FileOf(t)
        BY <2>4 DEF FrameInv, Victims, Flushing, FrameId
      <3> QED
        BY <3>1, <3>2 DEF Locks
    <2>5. ASSUME NEW p \in Threads, NEW q \in Threads, WaitsFor(p, q), WaitsFor(q, p),
                 pc[p] = "flush_mgr"
          PROVE  fm_owner = p /\ mgr_owner = q /\ call[q].kind = "open"
      BY <2>1, <2>5 DEF WaitsFor, Flushing
    <2>6. ASSUME NEW p \in Threads, NEW q \in Threads, WaitsFor(p, q), pc[p] \in {"get", "alloc", "purge"}
          PROVE  pc[q] \in Flushing
      BY <2>1, <2>6 DEF WaitsFor
    <2>7. CASE pc[t] = "flush_mgr" \/ pc[u] = "flush_mgr"
      BY <2>5, <2>7
    <2>8. CASE pc[t] /= "flush_mgr" /\ pc[u] /= "flush_mgr"
      <3>1. pc[t] = "flush_pool" \/ pc[u] = "flush_pool"
        BY <2>3, <2>6, <2>8 DEF WaitsFor, Flushing
      <3> QED
        BY <2>1, <2>4, <3>1 DEF Flushing
    <2> QED
      BY <2>7, <2>8
  <1> QED
    BY <1>1, Invariance, PTL

-----------------------------------------------------------------------------
(* What a step does to the content of a page.                              *)

\* Visible, as a function of the frames and the files.
Copy(fr, dk, id) ==
  LET M == {f \in Frames : fr[f].id = id}
  IN  IF \E f \in M : fr[f].data /= Garbage THEN fr[CHOOSE f \in M : TRUE].data ELSE dk[id]

\* The content of a page that is in one frame.
LEMMA CopyMapped ==
  ASSUME NEW fr, NEW dk, NEW id, NEW f \in Frames, fr[f].id = id,
         \A g \in Frames : g /= f => fr[g].id /= id
  PROVE  Copy(fr, dk, id) = IF fr[f].data /= Garbage THEN fr[f].data ELSE dk[id]
  <1>1. {g \in Frames : fr[g].id = id} = {f}
    OBVIOUS
  <1>2. (CHOOSE g \in {f} : TRUE) = f
    OBVIOUS
  <1> QED
    BY <1>1, <1>2 DEF Copy

\* The content of a page that is in no frame.
LEMMA CopyUnmapped ==
  ASSUME NEW fr, NEW dk, NEW id, \A g \in Frames : fr[g].id /= id
  PROVE  Copy(fr, dk, id) = dk[id]
  BY DEF Copy

\* A step that changes neither the frame of a page nor the page in the file.
LEMMA CopySame ==
  ASSUME NEW fr, NEW dk, NEW fr2, NEW dk2, NEW id, dk2[id] = dk[id],
         \A g \in Frames : fr[g].id = id \/ fr2[g].id = id => fr2[g].id = fr[g].id /\ fr2[g].data = fr[g].data
  PROVE  Copy(fr2, dk2, id) = Copy(fr, dk, id)
  <1> DEFINE M == {f \in Frames : fr[f].id = id}
  <1>1. {f \in Frames : fr2[f].id = id} = M
    OBVIOUS
  <1>2. (\E f \in M : fr2[f].data /= Garbage) <=> (\E f \in M : fr[f].data /= Garbage)
    OBVIOUS
  <1>3. M /= {} => (CHOOSE f \in M : TRUE) \in M
    OBVIOUS
  <1>4. M /= {} => fr2[CHOOSE f \in M : TRUE].data = fr[CHOOSE f \in M : TRUE].data
    BY <1>3
  <1> HIDE DEF M
  <1>5. /\ Copy(fr, dk, id) = IF \E f \in M : fr[f].data /= Garbage THEN fr[CHOOSE f \in M : TRUE].data ELSE dk[id]
        /\ Copy(fr2, dk2, id) = IF \E f \in M : fr2[f].data /= Garbage THEN fr2[CHOOSE f \in M : TRUE].data ELSE dk2[id]
    BY <1>1 DEF Copy, M
  <1> QED
    BY <1>2, <1>4, <1>5

\* The steps after which a page may have fallen behind its users.
Reloads(t, id) ==
  /\ call[t].id = id
  /\ \/ pc[t] = "load" /\ frame[call[t].frame].data /= Garbage
     \/ pc[t] = "using" /\ frame[call[t].frame].data = Garbage

Unmarked(f, id) ==
  /\ frame[f].id = id /\ CanPurge(f) /\ ~frame[f].dirty /\ frame[f].stamped
  /\ frame'[f].id = NoPage

\* Every other step leaves a page with the content its users have given it.
LEMMA ContentKept ==
  ASSUME IInv, NEW j \in FrameId, Copy(frame, disk, j) = latest[j], \A u \in Threads : ~Reloads(u, j),
         \A g \in Frames : ~Unmarked(g, j),
         NEW t \in Threads, NEW id, NEW d, NEW f, NEW i, Action(t, id, d, f, i)
  PROVE  Copy(frame', disk', j) = latest'[j]
  <1> USE DEF IInv, ControlInv, FrameInv, ContentInv, Goto, Unlock, lockVars, Pin, MapFrame, Evicted
  <1>0. /\ j /= NoPage /\ frame \in [Frames -> FrameType]
        /\ \A f1, f2 \in Frames : f1 /= f2 /\ frame[f1].id = j => frame[f2].id /= j
    BY NoPageAssumption DEF TypeOK, FrameType, OneFramePerPage
  <1>1. CASE id \in FrameId /\ GetThisPage(t, id)
    <2>1. disk' = disk /\ latest' = latest
      BY <1>1 DEF GetThisPage
    <2>2. \A g \in Frames : frame'[g].id = frame[g].id /\ frame'[g].data = frame[g].data
      BY <1>1 DEF GetThisPage, TypeOK
    <2> QED
      BY <2>1, <2>2, CopySame
  <1>2. CASE DisposeFrame(t, id, f)
    <2>1. disk' = disk /\ id \in FrameId /\ f \in Frames /\ frame[f].id = id
      BY <1>2 DEF DisposeFrame
    <2>2. \A g \in Frames : frame'[g].id = IF g = f THEN NoPage ELSE frame[g].id
      BY <1>2 DEF DisposeFrame, TypeOK
    <2>3. \A g \in Frames : frame'[g].data = frame[g].data
      BY <1>2 DEF DisposeFrame, TypeOK
    <2>4. CASE j = id
      <3>1. \A g \in Frames : frame'[g].id /= j
        BY <1>0, <2>1, <2>2, <2>4
      <3>2. latest'[j] = disk'[j]
        BY <1>2, <2>1, <2>4 DEF DisposeFrame, TypeOK
      <3> QED
        BY <3>1, <3>2, CopyUnmapped
    <2>5. CASE j /= id
      <3>1. latest'[j] = latest[j]
        BY <1>2, <2>5 DEF DisposeFrame, TypeOK
      <3>2. \A g \in Frames : frame[g].id = j \/ frame'[g].id = j => frame'[g].id = frame[g].id /\ frame'[g].data = frame[g].data
        BY <1>0, <2>1, <2>2, <2>3, <2>5
      <3>3. Copy(frame', disk', j) = Copy(frame, disk, j)
        BY <2>1, <3>2, CopySame
      <3> QED
        BY <3>1, <3>3
    <2> QED
      BY <2>4, <2>5
  <1>3. CASE ReusePage(t, d, i)
    <2>1. disk' = disk /\ latest' = latest
      BY <1>3 DEF ReusePage
    <2>2. \A g \in Frames : frame'[g].id = frame[g].id /\ frame'[g].data = frame[g].data
      BY <1>3 DEF ReusePage, TypeOK
    <2> QED
      BY <2>1, <2>2, CopySame
  <1>4. CASE AddPage(t, d)
    <2>1. disk' = disk /\ latest' = latest
      BY <1>4 DEF AddPage
    <2>2. \A g \in Frames : frame'[g].id = frame[g].id /\ frame'[g].data = frame[g].data
      BY <1>4 DEF AddPage, TypeOK
    <2> QED
      BY <2>1, <2>2, CopySame
  <1>5. CASE FlushFrame(t, d, f)
    <2>1. latest' = latest /\ f \in Frames /\ frame[f].id \in FrameId /\ \A u \in Threads : call[u].frame /= f
      BY <1>5, UnpinnedUnused DEF FlushFrame
    <2>2. \A g \in Frames : frame'[g].id = frame[g].id /\ frame'[g].data = frame[g].data
      <3>1. \A g \in Frames : frame'[g].id = frame[g].id
        BY <1>5 DEF FlushFrame, TypeOK
      <3>2. \A g \in Frames : frame'[g].data = frame[g].data
        BY <1>5 DEF FlushFrame, TypeOK
      <3> QED
        BY <3>1, <3>2
    <2>3. frame[f].data /= Garbage
      BY <2>1, NoPageAssumption DEF Loading
    <2>4. CASE j = frame[f].id
      <3>1. /\ \A g \in Frames : g /= f => frame[g].id /= j
            /\ \A g \in Frames : g /= f => frame'[g].id /= j
            /\ frame'[f].id = j /\ frame'[f].data = frame[f].data
        BY <1>0, <2>1, <2>2, <2>4
      <3>2. Copy(frame, disk, j) = frame[f].data
        BY ONLY <2>1, <2>3, <2>4, <3>1, CopyMapped
      <3>3. Copy(frame', disk', j) = frame[f].data
        BY ONLY <2>1, <2>3, <2>4, <3>1, CopyMapped
      <3> QED
        BY <2>1, <3>2, <3>3
    <2>5. CASE j /= frame[f].id
      <3>1. disk'[j] = disk[j]
        BY <1>5, <2>5 DEF FlushFrame, Written, TypeOK
      <3>2. Copy(frame', disk', j) = Copy(frame, disk, j)
        BY <2>2, <3>1, CopySame
      <3> QED
        BY <2>1, <3>2
    <2> QED
      BY <2>4, <2>5
  <1>6. CASE FoundPage(t, f)
    <2>1. disk' = disk /\ latest' = latest
      BY <1>6 DEF FoundPage
    <2>2. \A g \in Frames : frame'[g].id = frame[g].id /\ frame'[g].data = frame[g].data
      BY <1>6 DEF FoundPage, TypeOK
    <2> QED
      BY <2>1, <2>2, CopySame
  <1>7. CASE MissedPage(t)
    <2>1. disk' = disk /\ latest' = latest
      BY <1>7 DEF MissedPage
    <2>2. \A g \in Frames : frame'[g].id = frame[g].id /\ frame'[g].data = frame[g].data
      BY <1>7 DEF MissedPage, TypeOK
    <2> QED
      BY <2>1, <2>2, CopySame
  <1>8. CASE LockPool(t)
    <2>1. disk' = disk /\ latest' = latest
      BY <1>8 DEF LockPool
    <2>2. \A g \in Frames : frame'[g].id = frame[g].id /\ frame'[g].data = frame[g].data
      BY <1>8 DEF LockPool, TypeOK
    <2> QED
      BY <2>1, <2>2, CopySame
  <1>9. CASE FoundFrame(t, f)
    <2>1. disk' = disk /\ latest' = latest
      BY <1>9 DEF FoundFrame
    <2>2. \A g \in Frames : frame'[g].id = frame[g].id /\ frame'[g].data = frame[g].data
      BY <1>9 DEF FoundFrame, TypeOK
    <2> QED
      BY <2>1, <2>2, CopySame
  <1>10. CASE TakenFrame(t, f)
    <2>1. disk' = disk /\ latest' = latest /\ f \in Frames /\ frame[f].id = NoPage
      BY <1>10 DEF TakenFrame
    <2>2. \A g \in Frames : g /= f => frame'[g] = frame[g]
      BY <1>10 DEF TakenFrame, TypeOK
    <2>3. frame'[f].id = call[t].id /\ frame'[f].data = Garbage /\ \A g \in Frames : frame[g].id /= call[t].id
      BY <1>10 DEF TakenFrame, TypeOK
    <2>4. CASE j = call[t].id
      <3>1. Copy(frame, disk, j) = disk[j]
        BY <2>3, <2>4, CopyUnmapped
      <3>2. Copy(frame', disk', j) = disk'[j]
        <4>1. \A g \in Frames : g /= f => frame'[g].id /= j
          BY <2>2, <2>3, <2>4
        <4>2. f \in Frames /\ frame'[f].id = j
          BY <2>1, <2>3, <2>4
        <4>3. Copy(frame', disk', j) = IF frame'[f].data /= Garbage THEN frame'[f].data ELSE disk'[j]
          BY ONLY <4>1, <4>2, CopyMapped
        <4> QED
          BY <2>3, <4>3
      <3> QED
        BY <2>1, <3>1, <3>2
    <2>5. CASE j /= call[t].id
      <3>1. \A g \in Frames : frame[g].id = j \/ frame'[g].id = j => frame'[g].id = frame[g].id /\ frame'[g].data = frame[g].data
        BY <1>0, <2>1, <2>2, <2>3, <2>5
      <3>2. Copy(frame', disk', j) = Copy(frame, disk, j)
        BY <2>1, <3>1, CopySame
      <3> QED
        BY <2>1, <3>2
    <2> QED
      BY <2>4, <2>5
  <1>11. CASE NoFrame(t)
    <2>1. disk' = disk /\ latest' = latest
      BY <1>11 DEF NoFrame
    <2>2. \A g \in Frames : frame'[g].id = frame[g].id /\ frame'[g].data = frame[g].data
      BY <1>11 DEF NoFrame, TypeOK
    <2> QED
      BY <2>1, <2>2, CopySame
  <1>12. CASE PurgedHere(t, f)
    <2> DEFINE v == f
    <2>1. latest' = latest /\ v \in Frames /\ frame[v].id \in FrameId /\ \A u \in Threads : call[u].frame /= v
      BY <1>12, UnpinnedUnused DEF PurgedHere
    <2>2. \A g \in Frames : g /= v => frame'[g] = frame[g]
      BY <1>12 DEF PurgedHere, TypeOK
    <2>3. frame'[v].id = NoPage
      BY <1>12, <2>1 DEF PurgedHere, TypeOK
    <2>4. frame[v].data /= Garbage
      BY <2>1, NoPageAssumption DEF Loading
    <2>5. \A k \in FrameId : k /= frame[v].id => disk'[k] = disk[k]
      BY <1>12, <2>1 DEF PurgedHere, Written, TypeOK
    <2>8. j = frame[v].id => disk'[j] = frame[v].data
      <3> SUFFICES ASSUME j = frame[v].id PROVE disk'[j] = frame[v].data
        OBVIOUS
      <3>1. CanPurge(v)
        BY <1>0, <1>12 DEF PurgedHere, CanPurge
      <3>2. frame[v].dirty \/ ~frame[v].stamped
        BY <2>1, <2>3, <3>1 DEF Unmarked
      <3>3. frame[v].dirty \/ frame[v].data = disk[frame[v].id]
        BY <1>0, <2>1, <2>4, <3>2 DEF Clean
      <3> QED
        BY <1>12, <3>3 DEF PurgedHere, Written, TypeOK
    <2> HIDE DEF v
    <2>6. CASE j = frame[v].id
      <3>1. Copy(frame, disk, j) = frame[v].data
        <4>1. \A g \in Frames : g /= v => frame[g].id /= j
          BY <1>0, <2>1, <2>6
        <4> QED
          BY ONLY <2>1, <2>4, <2>6, <4>1, CopyMapped
      <3>2. \A g \in Frames : frame'[g].id /= j
        BY <1>0, <2>1, <2>2, <2>3, <2>6
      <3>3. Copy(frame', disk', j) = disk'[j]
        BY <3>2, CopyUnmapped
      <3> QED
        BY <2>1, <2>6, <2>8, <3>1, <3>3
    <2>7. CASE j /= frame[v].id
      <3>1. \A g \in Frames : frame[g].id = j \/ frame'[g].id = j => frame'[g].id = frame[g].id /\ frame'[g].data = frame[g].data
        BY <1>0, <2>2, <2>3, <2>7
      <3>2. Copy(frame', disk', j) = Copy(frame, disk, j)
        BY <2>5, <2>7, <3>1, CopySame
      <3> QED
        BY <2>1, <3>2
    <2> QED
      BY <2>6, <2>7
  <1>13. CASE PurgedThere(t, f)
    <2>1. disk' = disk /\ latest' = latest
      BY <1>13 DEF PurgedThere
    <2>2. \A g \in Frames : frame'[g].id = frame[g].id /\ frame'[g].data = frame[g].data
      BY <1>13 DEF PurgedThere, TypeOK
    <2> QED
      BY <2>1, <2>2, CopySame
  <1>14. CASE NothingToPurge(t)
    <2>1. disk' = disk /\ latest' = latest
      BY <1>14 DEF NothingToPurge
    <2>2. \A g \in Frames : frame'[g].id = frame[g].id /\ frame'[g].data = frame[g].data
      BY <1>14 DEF NothingToPurge, TypeOK
    <2> QED
      BY <2>1, <2>2, CopySame
  <1>15. CASE LockManager(t)
    <2>1. disk' = disk /\ latest' = latest
      BY <1>15 DEF LockManager
    <2>2. \A g \in Frames : frame'[g].id = frame[g].id /\ frame'[g].data = frame[g].data
      BY <1>15 DEF LockManager, TypeOK
    <2> QED
      BY <2>1, <2>2, CopySame
  <1>16. CASE FlushVictim(t)
    <2> DEFINE v == call[t].victim
    <2>1. latest' = latest /\ v \in Frames /\ frame[v].id \in FrameId /\ \A u \in Threads : call[u].frame /= v
      BY <1>16 DEF FlushVictim, Calls, Victims, Flushing
    <2>2. \A g \in Frames : g /= v => frame'[g] = frame[g]
      BY <1>16 DEF FlushVictim, TypeOK
    <2>3. frame'[v].id = NoPage
      BY <1>16, <2>1 DEF FlushVictim, TypeOK
    <2>4. frame[v].data /= Garbage
      BY <2>1, NoPageAssumption DEF Loading
    <2>5. /\ disk'[frame[v].id] = frame[v].data
          /\ \A k \in FrameId : k /= frame[v].id => disk'[k] = disk[k]
      BY <1>16, <2>1, <2>4 DEF FlushVictim, Written, TypeOK
    <2> HIDE DEF v
    <2>6. CASE j = frame[v].id
      <3>1. Copy(frame, disk, j) = frame[v].data
        <4>1. \A g \in Frames : g /= v => frame[g].id /= j
          BY <1>0, <2>1, <2>6
        <4> QED
          BY ONLY <2>1, <2>4, <2>6, <4>1, CopyMapped
      <3>2. \A g \in Frames : frame'[g].id /= j
        BY <1>0, <2>1, <2>2, <2>3, <2>6
      <3>3. Copy(frame', disk', j) = disk'[j]
        BY <3>2, CopyUnmapped
      <3> QED
        BY <2>1, <2>5, <2>6, <3>1, <3>3
    <2>7. CASE j /= frame[v].id
      <3>1. \A g \in Frames : frame[g].id = j \/ frame'[g].id = j => frame'[g].id = frame[g].id /\ frame'[g].data = frame[g].data
        BY <1>0, <2>2, <2>3, <2>7
      <3>2. Copy(frame', disk', j) = Copy(frame, disk, j)
        BY <2>5, <2>7, <3>1, CopySame
      <3> QED
        BY <2>1, <3>2
    <2> QED
      BY <2>6, <2>7
  <1>17. CASE LoadPage(t)
    <2> DEFINE v == call[t].frame
    <2>1. v \in Frames /\ call[t].id \in FrameId /\ frame[v].id = call[t].id
      BY <1>17 DEF LoadPage, Calls, Held, Pinning
    <2>2. \A g \in Frames : g /= v => frame'[g] = frame[g]
      BY <1>17, <2>1 DEF LoadPage, TypeOK
    <2>3. frame'[v].id = call[t].id
      BY <1>17, <2>1 DEF LoadPage, TypeOK
    <2>4. \A k \in FrameId : k /= call[t].id => disk'[k] = disk[k] /\ latest'[k] = latest[k]
      BY <1>17 DEF LoadPage, TypeOK
    <2>5. CASE j = call[t].id
      <3>1. \A g \in Frames : g /= v => frame[g].id /= j /\ frame'[g].id /= j
        BY <1>0, <2>1, <2>2, <2>5
      <3>2. frame[v].data = Garbage
        BY <1>17, <2>5 DEF LoadPage, Reloads
      <3>3. frame'[v].data = disk[j] /\ disk' = disk /\ latest' = latest
        BY <1>17, <2>1, <2>5 DEF LoadPage, TypeOK
      <3>4. disk[j] /= Garbage
        BY DEF Bounded, Garbage
      <3> HIDE DEF v
      <3>5. Copy(frame, disk, j) = disk[j]
        <4>1. \A g \in Frames : g /= v => frame[g].id /= j
          BY <3>1
        <4>2. Copy(frame, disk, j) = IF frame[v].data /= Garbage THEN frame[v].data ELSE disk[j]
          BY ONLY <2>1, <2>5, <4>1, CopyMapped
        <4> QED
          BY <3>2, <4>2
      <3>6. Copy(frame', disk', j) = disk[j]
        BY <2>1, <2>3, <2>5, <3>1, <3>3, <3>4, CopyMapped
      <3> QED
        BY <3>3, <3>5, <3>6
    <2>6. CASE j /= call[t].id
      <3>1. \A g \in Frames : frame[g].id = j \/ frame'[g].id = j => frame'[g].id = frame[g].id /\ frame'[g].data = frame[g].data
        BY <2>1, <2>2, <2>3, <2>6
      <3>2. Copy(frame', disk', j) = Copy(frame, disk, j)
        BY <2>4, <2>6, <3>1, CopySame
      <3> QED
        BY <2>4, <2>6, <3>2
    <2> QED
      BY <2>5, <2>6
  <1>18. CASE ExtendFile(t)
    <2> DEFINE v == call[t].frame
    <2>1. v \in Frames /\ call[t].id \in FrameId /\ frame[v].id = call[t].id
      BY <1>18 DEF ExtendFile, Calls, Held, Pinning
    <2>2. \A g \in Frames : g /= v => frame'[g] = frame[g]
      BY <1>18, <2>1 DEF ExtendFile, TypeOK
    <2>3. frame'[v].id = call[t].id
      BY <1>18, <2>1 DEF ExtendFile, TypeOK
    <2>4. \A k \in FrameId : k /= call[t].id => disk'[k] = disk[k] /\ latest'[k] = latest[k]
      BY <1>18 DEF ExtendFile, TypeOK
    <2>5. CASE j = call[t].id
      <3>1. \A g \in Frames : g /= v => frame[g].id /= j /\ frame'[g].id /= j
        BY <1>0, <2>1, <2>2, <2>5
      <3>2. frame'[v].data = 0 /\ latest'[j] = 0
        BY <1>18, <2>1, <2>5 DEF ExtendFile, TypeOK
      <3> HIDE DEF v
      <3>3. Copy(frame', disk', j) = 0
        BY ONLY <2>1, <2>3, <2>5, <3>1, <3>2, CopyMapped DEF Garbage
      <3> QED
        BY <3>2, <3>3
    <2>6. CASE j /= call[t].id
      <3>1. \A g \in Frames : frame[g].id = j \/ frame'[g].id = j => frame'[g].id = frame[g].id /\ frame'[g].data = frame[g].data
        BY <2>1, <2>2, <2>3, <2>6
      <3>2. Copy(frame', disk', j) = Copy(frame, disk, j)
        BY <2>4, <2>6, <3>1, CopySame
      <3> QED
        BY <2>4, <2>6, <3>2
    <2> QED
      BY <2>5, <2>6
  <1>19. CASE Modify(t)
    <2> DEFINE v == call[t].frame
    <2>1. v \in Frames /\ call[t].id \in FrameId /\ frame[v].id = call[t].id
      BY <1>19 DEF Modify, CanModify, Changed, Calls, Held, Pinning
    <2>2. \A g \in Frames : g /= v => frame'[g] = frame[g]
      BY <1>19, <2>1 DEF Modify, CanModify, Changed, TypeOK
    <2>3. frame'[v].id = call[t].id
      BY <1>19, <2>1 DEF Modify, CanModify, Changed, TypeOK
    <2>4. \A k \in FrameId : k /= call[t].id => disk'[k] = disk[k] /\ latest'[k] = latest[k]
      BY <1>19 DEF Modify, CanModify, Changed, TypeOK
    <2>5. CASE j = call[t].id
      <3>1. \A g \in Frames : g /= v => frame[g].id /= j /\ frame'[g].id /= j
        BY <1>0, <2>1, <2>2, <2>5
      <3>2. frame[v].data /= Garbage
        BY <1>19, <2>5 DEF Modify, CanModify, Changed, Reloads
      <3>3. frame'[v].data = frame[v].data + 1 /\ latest'[j] = latest[j] + 1 /\ frame[v].data \in Int /\ frame[v].data >= -1
        BY <1>19, <2>1, <2>5, <3>2, PoolAssumption DEF Modify, CanModify, Changed, TypeOK, Content
      <3>4. frame'[v].data /= Garbage
        BY <3>2, <3>3 DEF Garbage
      <3> HIDE DEF v
      <3>5. Copy(frame, disk, j) = frame[v].data
        BY <2>1, <2>5, <3>1, <3>2, CopyMapped
      <3>6. Copy(frame', disk', j) = frame'[v].data
        BY <2>1, <2>3, <2>5, <3>1, <3>4, CopyMapped, SMTT(60)
      <3> QED
        BY <3>3, <3>5, <3>6
    <2>6. CASE j /= call[t].id
      <3>1. \A g \in Frames : frame[g].id = j \/ frame'[g].id = j => frame'[g].id = frame[g].id /\ frame'[g].data = frame[g].data
        BY <2>1, <2>2, <2>3, <2>6
      <3>2. Copy(frame', disk', j) = Copy(frame, disk, j)
        BY <2>4, <2>6, <3>1, CopySame
      <3> QED
        BY <2>4, <2>6, <3>2
    <2> QED
      BY <2>5, <2>6
  <1>20. CASE MarkDirty(t)
    <2>1. disk' = disk /\ latest' = latest
      BY <1>20 DEF MarkDirty
    <2>2. \A g \in Frames : frame'[g].id = frame[g].id /\ frame'[g].data = frame[g].data
      BY <1>20 DEF MarkDirty, TypeOK
    <2> QED
      BY <2>1, <2>2, CopySame
  <1>21. CASE UnpinPage(t)
    <2>1. disk' = disk /\ latest' = latest
      BY <1>21 DEF UnpinPage
    <2>2. \A g \in Frames : frame'[g].id = frame[g].id /\ frame'[g].data = frame[g].data
      BY <1>21 DEF UnpinPage, TypeOK
    <2> QED
      BY <2>1, <2>2, CopySame
  <1>22. CASE d \in Files /\ OpenFile(t, d)
    <2>1. disk' = disk /\ latest' = latest
      BY <1>22 DEF OpenFile
    <2>2. \A g \in Frames : frame'[g].id = frame[g].id /\ frame'[g].data = frame[g].data
      BY <1>22 DEF OpenFile, TypeOK
    <2> QED
      BY <2>1, <2>2, CopySame
  <1>23. CASE FinishOpen(t)
    <2> DEFINE v == call[t].frame
    <2>1. v \in Frames /\ call[t].id \in FrameId /\ frame[v].id = call[t].id
      BY <1>23 DEF FinishOpen, Calls, Held, Pinning
    <2>2. \A g \in Frames : g /= v => frame'[g] = frame[g]
      BY <1>23, <2>1 DEF FinishOpen, TypeOK
    <2>3. frame'[v].id = call[t].id
      BY <1>23, <2>1 DEF FinishOpen, TypeOK
    <2>4. \A k \in FrameId : k /= call[t].id => disk'[k] = disk[k] /\ latest'[k] = latest[k]
      BY <1>23 DEF FinishOpen, TypeOK
    <2>5. CASE j = call[t].id
      <3>1. \A g \in Frames : g /= v => frame[g].id /= j /\ frame'[g].id /= j
        BY <1>0, <2>1, <2>2, <2>5
      <3>2. frame[v].data = Garbage
        BY <1>23, <2>5 DEF FinishOpen, Reloads
      <3>3. frame'[v].data = disk[j] /\ disk' = disk /\ latest' = latest
        BY <1>23, <2>1, <2>5 DEF FinishOpen, TypeOK
      <3>4. disk[j] /= Garbage
        BY DEF Bounded, Garbage
      <3> HIDE DEF v
      <3>5. Copy(frame, disk, j) = disk[j]
        <4>1. \A g \in Frames : g /= v => frame[g].id /= j
          BY <3>1
        <4>2. Copy(frame, disk, j) = IF frame[v].data /= Garbage THEN frame[v].data ELSE disk[j]
          BY ONLY <2>1, <2>5, <4>1, CopyMapped
        <4> QED
          BY <3>2, <4>2
      <3>6. Copy(frame', disk', j) = disk[j]
        BY <2>1, <2>3, <2>5, <3>1, <3>3, <3>4, CopyMapped
      <3> QED
        BY <3>3, <3>5, <3>6
    <2>6. CASE j /= call[t].id
      <3>1. \A g \in Frames : frame[g].id = j \/ frame'[g].id = j => frame'[g].id = frame[g].id /\ frame'[g].data = frame[g].data
        BY <2>1, <2>2, <2>3, <2>6
      <3>2. Copy(frame', disk', j) = Copy(frame, disk, j)
        BY <2>4, <2>6, <3>1, CopySame
      <3> QED
        BY <2>4, <2>6, <3>2
    <2> QED
      BY <2>5, <2>6
  <1>24. CASE Stamp(t)
    <2> DEFINE v == call[t].frame
    <2>1. v \in Frames /\ call[t].id \in FrameId /\ frame[v].id = call[t].id
      BY <1>24 DEF Stamp, CanModify, Changed, Calls, Held, Pinning
    <2>2. \A g \in Frames : g /= v => frame'[g] = frame[g]
      BY <1>24, <2>1 DEF Stamp, CanModify, Changed, TypeOK
    <2>3. frame'[v].id = call[t].id
      BY <1>24, <2>1 DEF Stamp, CanModify, Changed, TypeOK
    <2>4. \A k \in FrameId : k /= call[t].id => disk'[k] = disk[k] /\ latest'[k] = latest[k]
      BY <1>24 DEF Stamp, CanModify, Changed, TypeOK
    <2>5. CASE j = call[t].id
      <3>1. \A g \in Frames : g /= v => frame[g].id /= j /\ frame'[g].id /= j
        BY <1>0, <2>1, <2>2, <2>5
      <3>2. frame[v].data /= Garbage
        BY <1>24, <2>5 DEF Stamp, CanModify, Changed, Reloads
      <3>3. frame'[v].data = frame[v].data + 1 /\ latest'[j] = latest[j] + 1 /\ frame[v].data \in Int /\ frame[v].data >= -1
        BY <1>24, <2>1, <2>5, <3>2, PoolAssumption DEF Stamp, CanModify, Changed, TypeOK, Content
      <3>4. frame'[v].data /= Garbage
        BY <3>2, <3>3 DEF Garbage
      <3> HIDE DEF v
      <3>5. Copy(frame, disk, j) = frame[v].data
        BY <2>1, <2>5, <3>1, <3>2, CopyMapped
      <3>6. Copy(frame', disk', j) = frame'[v].data
        BY <2>1, <2>3, <2>5, <3>1, <3>4, CopyMapped
      <3> QED
        BY <3>3, <3>5, <3>6
    <2>6. CASE j /= call[t].id
      <3>1. \A g \in Frames : frame[g].id = j \/ frame'[g].id = j => frame'[g].id = frame[g].id /\ frame'[g].data = frame[g].data
        BY <2>1, <2>2, <2>3, <2>6
      <3>2. Copy(frame', disk', j) = Copy(frame, disk, j)
        BY <2>4, <2>6, <3>1, CopySame
      <3> QED
        BY <2>4, <2>6, <3>2
    <2> QED
      BY <2>5, <2>6
  <1> QED
    BY <1>1, <1>2, <1>3, <1>4, <1>5, <1>6, <1>7, <1>8, <1>9, <1>10, <1>11,
       <1>12, <1>13, <1>14, <1>15, <1>16, <1>17, <1>18, <1>19, <1>20, <1>21, <1>22, <1>23, <1>24 DEF Action

\* Evictions, allocations, flushes and unpins never lose a marked modification:
\* a page falls behind its users only when a late load_page overwrites a frame
\* loaded meanwhile, when a thread modifies a frame it was handed before it was
\* loaded, or when a frame is evicted with a change nobody marked.
THEOREM ModificationsKept == Spec => LossesNamed
  <1> DEFINE A == \A id \in FrameId : Visible(id) = latest[id] /\ Visible(id)' /= latest'[id]
                    => \/ \E t \in Threads :
                            /\ call[t].id = id
                            /\ \/ pc[t] = "load" /\ frame[call[t].frame].data /= Garbage
                               \/ pc[t] = "using" /\ frame[call[t].frame].data = Garbage
                       \/ \E f \in Mapped(id) :
                            /\ CanPurge(f) /\ ~frame[f].dirty /\ frame[f].stamped
                            /\ frame'[f].id = NoPage
  <1>1. ASSUME IInv, Next PROVE A
    <2> SUFFICES ASSUME NEW j \in FrameId, Visible(j) = latest[j], \A u \in Threads : ~Reloads(u, j),
                        \A g \in Frames : ~Unmarked(g, j)
                 PROVE  Visible(j)' = latest'[j]
      BY DEF Reloads, Unmarked, Mapped
    <2>1. Copy(frame, disk, j) = Visible(j) /\ Copy(frame', disk', j) = Visible(j)'
      BY DEF Copy, Visible, Mapped
    <2>2. PICK t \in Threads : \E id, d, f, i : Action(t, id, d, f, i)
      BY <1>1, NextIsAction DEF IInv, ControlInv
    <2>3. PICK id, d, f, i : Action(t, id, d, f, i)
      BY <2>2
    <2> QED
      BY <1>1, <2>1, <2>3, ContentKept
  <1>2. IInv /\ [Next]_vars => [A]_vars
    BY <1>1
  <1>3. []IInv /\ [][Next]_vars => [][A]_vars
    BY <1>2, PTL
  <1> QED
    BY <1>3, Invariance DEF Spec, LossesNamed
=============================================================================
