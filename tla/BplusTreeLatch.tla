--------------------------- MODULE BplusTreeLatch ---------------------------
(***************************************************************************)
(* The B+ tree used by several threads (built with CONCURRENCY): the root  *)
(* lock, the page latches and the latch memo with which insertions,        *)
(* deletions and scans walk down the tree (latch crabbing).                *)
(*                                                                         *)
(* One step takes one latch, or does at once everything a thread does      *)
(* between two latches.  BplusTree says what a node operation computes;    *)
(* that it is exclusive is LatchedStable.                                  *)
(***************************************************************************)
EXTENDS BplusTree

CONSTANTS Threads,
          CallKeys,     \* keys of the concurrent insertions and deletions
          CallRanges    \* ranges of the concurrent scans

VARIABLE th             \* the threads: program counter, call, latch memo

lvars == <<tree, answer, ops, th>>

RootLock == 0           \* root_lock_ among the pages

Shared == "SHARED"
Exclusive == "EXCLUSIVE"

(* A call in progress: the page it wants to latch next, its latch memo (a  *)
(* sequence of latched pages), and for a scan what it returned so far, the *)
(* entries it must and those it may return.                                *)
Idle == [pc |-> "idle", op |-> "none", key |-> NoKey, range |-> NoKey, want |-> NoPage, memo |-> <<>>,
         scan |-> NoKey, got |-> <<>>, must |-> {}, may |-> {}, rc |-> "SUCCESS"]

-----------------------------------------------------------------------------
(* Latches *)

Latch(p, mode) == [page |-> p, mode |-> mode]
Holds(t, p) == \E i \in DOMAIN th[t].memo : th[t].memo[i].page = p
HoldsExclusive(t, p) == Latch(p, Exclusive) \in ToSet(th[t].memo)

Free(t, p, mode) ==
  \A u \in Threads \ {t} : IF mode = Shared THEN ~HoldsExclusive(u, p) ELSE ~Holds(u, p)

(* release_to(memo_point) after the latch of page p was added: what was    *)
(* taken before it goes.                                                   *)
ReleaseTo(memo) == <<Last(memo)>>

Mode(op) == IF op = "scan" THEN Shared ELSE Exclusive

(* Mutant: a node of minimal size counts as safe for a deletion.           *)
IsSafeAtMin(node, op, is_root) ==
  CASE op = "scan"   -> TRUE
    [] op = "insert" -> SizeOf(node) < MaxSize(node)
    [] op = "delete" -> SizeOf(node) >= MinSize(node)

IsSafe(node, op, is_root) ==
  CASE op = "scan"   -> TRUE
    [] op = "insert" -> SizeOf(node) < MaxSize(node)
    [] op = "delete" -> IF is_root THEN SizeOf(node) > (IF node.leaf THEN 1 ELSE 2)
                        ELSE SizeOf(node) > MinSize(node)

-----------------------------------------------------------------------------
(* Every step that changes the entries of the tree tells the running scans. *)

EntriesOf(t) == UNION {{t.nodes[p].items[i].key : i \in DOMAIN t.nodes[p].items} :
                         p \in {q \in DOMAIN t.nodes : t.nodes[q].leaf}}

Tell(f, newtree) ==
  LET now == EntriesOf(newtree)
  IN  [u \in Threads |-> [f[u] EXCEPT !.must = @ \cap now, !.may = IF f[u].op = "scan" THEN @ \cup now ELSE @]]

Step(t, rec) == th' = [th EXCEPT ![t] = rec]

(* The end of a call that changes the tree: the memo gives back latches    *)
(* and disposed pages, the caller gets its answer.                         *)
Finish(t, newtree, rc) ==
  /\ tree' = Release(newtree)
  /\ answer' = Answer(th[t].op, th[t].key, rc)
  /\ th' = Tell([th EXCEPT ![t] = Idle], Release(newtree))
  /\ UNCHANGED ops

-----------------------------------------------------------------------------
(* Calls *)

LatchInit == Init /\ th = [t \in Threads |-> Idle]

(* insert_entry tests is_empty without a lock and takes the root lock to   *)
(* create a tree only when there is none.                                  *)
StartInsert(t, key) ==
  /\ th[t].pc = "idle" /\ Call
  /\ Step(t, [Idle EXCEPT !.op = "insert", !.key = key, !.want = RootLock,
                          !.pc = IF tree.root = NoPage THEN "create" ELSE "descend"])
  /\ UNCHANGED <<tree, answer>>

StartDelete(t, key) ==
  /\ th[t].pc = "idle" /\ Call
  /\ Step(t, [Idle EXCEPT !.op = "delete", !.key = key, !.want = RootLock, !.pc = "descend"])
  /\ UNCHANGED <<tree, answer>>

StartScan(t, range) ==
  /\ th[t].pc = "idle" /\ Call
  /\ Step(t, [Idle EXCEPT !.op = "scan", !.range = range, !.want = RootLock, !.pc = "descend",
                          !.key = IF range.left = NoBound THEN NoKey ELSE LeftKey(range.left, range.linc),
                          !.must = EntriesOf(tree), !.may = EntriesOf(tree)])
  /\ UNCHANGED <<tree, answer>>

(* The second test for emptiness, inside the root lock: a new tree, or the *)
(* lock is given back and taken again by find_leaf.                        *)
CreateTree(t) ==
  /\ th[t].pc = "create"
  /\ Free(t, RootLock, Exclusive)
  /\ IF tree.root = NoPage THEN Finish(t, CreateNewTree(tree, th[t].key), "SUCCESS")
     ELSE Step(t, [th[t] EXCEPT !.pc = "descend"]) /\ UNCHANGED <<tree, answer, ops>>

(* find_leaf_internal takes the root lock; the tree may be empty by now.   *)
LockRoot(t) ==
  /\ th[t].pc = "descend" /\ th[t].want = RootLock
  /\ Free(t, RootLock, Mode(th[t].op))
  /\ IF tree.root # NoPage
     THEN /\ Step(t, [th[t] EXCEPT !.memo = <<Latch(RootLock, Mode(th[t].op))>>, !.want = tree.root])
          /\ UNCHANGED <<tree, answer, ops>>
     ELSE CASE th[t].op = "insert" -> Finish(t, tree, "EMPTY")
            [] th[t].op = "delete" -> Finish(t, tree, "RECORD_NOT_EXIST")
            [] OTHER -> /\ Step(t, [th[t] EXCEPT !.pc = "scanned", !.rc = IF th[t].range.left = NoBound THEN "EMPTY" ELSE "SUCCESS"])
                        /\ UNCHANGED <<tree, answer, ops>>

(* Mutant: the parent is given back before the child is latched.           *)
FetchPageUncoupled(t) ==
  LET p    == th[t].want
      node == tree.nodes[p]
      child == ValueAt(node, IF th[t].key = NoKey THEN 0 ELSE InternalLookup(node, th[t].key).child)
  IN  /\ th[t].pc = "descend" /\ p # RootLock /\ p \in DOMAIN tree.nodes
      /\ Free(t, p, Mode(th[t].op))
      /\ Step(t, [th[t] EXCEPT !.memo = IF node.leaf THEN <<Latch(p, Mode(th[t].op))>> ELSE <<>>,
                               !.pc = IF node.leaf THEN "leaf" ELSE "descend",
                               !.want = IF node.leaf THEN p ELSE child])
      /\ UNCHANGED <<tree, answer, ops>>

(* crabing_protocal_fetch_page, and the choice of the next child.          *)
FetchPage(t) ==
  LET p    == th[t].want
      node == tree.nodes[p]
      memo == Append(th[t].memo, Latch(p, Mode(th[t].op)))
      held == IF IsSafe(node, th[t].op, p = tree.root) THEN ReleaseTo(memo) ELSE memo
      child == ValueAt(node, IF th[t].key = NoKey THEN 0 ELSE InternalLookup(node, th[t].key).child)
  IN  /\ th[t].pc = "descend" /\ p # RootLock
      /\ Free(t, p, Mode(th[t].op))
      /\ Step(t, [th[t] EXCEPT !.memo = held, !.pc = IF node.leaf THEN "leaf" ELSE "descend",
                               !.want = IF node.leaf THEN p ELSE child])
      /\ UNCHANGED <<tree, answer, ops>>

InsertAtLeaf(t) ==
  LET p == th[t].want
  IN  /\ th[t].pc = "leaf" /\ th[t].op = "insert"
      /\ IF Exists(tree.nodes[p], th[t].key) THEN Finish(t, tree, "RECORD_DUPLICATE_KEY")
         ELSE Finish(t, InsertEntryIntoLeafNode(tree, p, th[t].key), "SUCCESS")

(* delete_entry_internal: the neighbours it needs are latched one by one,  *)
(* each chosen under the latches held so far.                              *)
Needed(t) == SelectSeq(DeleteEntryInternal(tree, th[t].want, th[t].key).tree.latched, LAMBDA p : ~Holds(t, p))

LatchNeighbor(t) ==
  /\ th[t].pc = "leaf" /\ th[t].op = "delete" /\ Needed(t) # <<>>
  /\ Free(t, Head(Needed(t)), Exclusive)
  /\ Step(t, [th[t] EXCEPT !.memo = Append(@, Latch(Head(Needed(t)), Exclusive))])
  /\ UNCHANGED <<tree, answer, ops>>

DeleteAtLeaf(t) ==
  /\ th[t].pc = "leaf" /\ th[t].op = "delete" /\ Needed(t) = <<>>
  /\ LET r == DeleteEntryInternal(tree, th[t].want, th[t].key) IN Finish(t, r.tree, r.rc)

(* BplusTreeScanner::open once the leaf is latched.  When the position is  *)
(* behind the leaf's last entry, the next leaf is latched too, and this    *)
(* latch is waited for.                                                    *)
OpenAtLeaf(t) ==
  LET leaf  == tree.nodes[th[t].want]
      right == IF th[t].range.right = NoBound THEN NoKey ELSE RightKey(th[t].range.right, th[t].range.rinc)
      pos   == IF th[t].key = NoKey THEN 0 ELSE LeafLookup(leaf, th[t].key).pos
  IN  /\ th[t].pc = "leaf" /\ th[t].op = "scan"
      /\ IF pos < SizeOf(leaf)
         THEN Step(t, [th[t] EXCEPT !.pc = "emit", !.scan = Scanner(tree, th[t].want, pos, right)])
         ELSE IF leaf.next = NoPage THEN Step(t, [th[t] EXCEPT !.pc = "scanned", !.memo = <<>>])
         ELSE Step(t, [th[t] EXCEPT !.pc = "open_next", !.want = leaf.next,
                                    !.scan = Scanner(tree, th[t].want, 0, right)])
      /\ UNCHANGED <<tree, answer, ops>>

LatchNext(t) ==
  /\ th[t].pc = "open_next"
  /\ Free(t, th[t].want, Shared)
  /\ Step(t, [th[t] EXCEPT !.pc = "emit", !.memo = Append(@, Latch(th[t].want, Shared)),
                           !.scan = Scanner(tree, th[t].want, 0, @.right)])
  /\ UNCHANGED <<tree, answer, ops>>

(* next_entry within a leaf: everything up to its end or the right bound   *)
(* (the frame cannot change while it is latched).                          *)
EmitLeaf(t) ==
  LET s    == th[t].scan
      rest == SubSeq(s.frame.items, s.index + 1, SizeOf(s.frame))
      fit  == SelectSeq(rest, LAMBDA it : s.right = NoKey \/ Compare(it.key, s.right) <= 0)
      got  == th[t].got \o [i \in DOMAIN fit |-> fit[i].key]
      last == fit # rest \/ s.frame.next = NoPage
  IN  /\ th[t].pc = "emit"
      /\ Step(t, [th[t] EXCEPT !.got = got, !.pc = IF last THEN "scanned" ELSE "next",
                               !.want = s.frame.next])
      /\ UNCHANGED <<tree, answer, ops>>

(* Mutant: the old leaf is given back before the next one is latched.      *)
NextPageUnlatched(t) ==
  /\ th[t].pc = "next"
  /\ IF Free(t, th[t].want, Shared) /\ th[t].want \in DOMAIN tree.nodes
     THEN Step(t, [th[t] EXCEPT !.pc = "emit", !.memo = <<>>, !.scan = Scanner(tree, th[t].want, 0, @.right)])
     ELSE Step(t, [th[t] EXCEPT !.pc = "scanned", !.rc = "LOCKED_NEED_WAIT"])
  /\ UNCHANGED <<tree, answer, ops>>

(* next_entry at the end of a leaf: try_slatch, and the statement fails    *)
(* with LOCKED_NEED_WAIT when another thread has the next leaf.            *)
NextPage(t) ==
  /\ th[t].pc = "next"
  /\ IF Free(t, th[t].want, Shared)
     THEN Step(t, [th[t] EXCEPT !.pc = "emit", !.memo = ReleaseTo(Append(@, Latch(th[t].want, Shared))),
                                !.scan = Scanner(tree, th[t].want, 0, @.right)])
     ELSE Step(t, [th[t] EXCEPT !.pc = "scanned", !.rc = "LOCKED_NEED_WAIT"])
  /\ UNCHANGED <<tree, answer, ops>>

CloseScan(t) ==
  /\ th[t].pc = "scanned"
  /\ Step(t, Idle)
  /\ UNCHANGED <<tree, answer, ops>>

ThreadStep(t) ==
  \/ \E key \in CallKeys : StartInsert(t, key) \/ StartDelete(t, key)
  \/ \E range \in CallRanges : StartScan(t, range)
  \/ CreateTree(t) \/ LockRoot(t) \/ FetchPage(t)
  \/ InsertAtLeaf(t) \/ LatchNeighbor(t) \/ DeleteAtLeaf(t)
  \/ OpenAtLeaf(t) \/ LatchNext(t) \/ EmitLeaf(t) \/ NextPage(t) \/ CloseScan(t)

LatchNextState == \E t \in Threads : ThreadStep(t)

LatchSpec == LatchInit /\ [][LatchNextState]_lvars

-----------------------------------------------------------------------------
(* Properties *)

(* No thread changes the entries of a node, or disposes of a page, that    *)
(* another thread has latched: whatever crabbing gave back early was not   *)
(* needed any more.                                                        *)
LatchedStable ==
  [][\A t \in Threads : \A i \in DOMAIN th[t].memo :
       LET p == th[t].memo[i].page
       IN  th'[t].memo = th[t].memo /\ p # RootLock =>
             /\ p \in DOMAIN tree'.nodes
             /\ tree'.nodes[p].items = tree.nodes[p].items]_lvars

(* A scan that reaches its end has returned every entry of its range that  *)
(* was in the tree all the time, nothing that never was, and in key order, *)
(* whatever splits, merges and redistributions happened around it.         *)
ScanConsistent ==
  \A t \in Threads : th[t].pc = "scanned" /\ th[t].rc = "SUCCESS" =>
    /\ \A key \in th[t].must : InRange(th[t].range, key) => key \in ToSet(th[t].got)
    /\ \A key \in ToSet(th[t].got) : key \in th[t].may /\ InRange(th[t].range, key)
    /\ \A i \in 2..Len(th[t].got) : Compare(th[t].got[i - 1], th[t].got[i]) < 0

(* The page a thread is waiting to latch, or NoPage.                       *)
WaitsFor(t) ==
  CASE th[t].pc \in {"create", "descend", "open_next"} -> th[t].want
    [] th[t].pc = "leaf" /\ th[t].op = "delete" -> IF Needed(t) = <<>> THEN NoPage ELSE Head(Needed(t))
    [] OTHER -> NoPage

WaitMode(t) == IF th[t].op = "scan" THEN Shared ELSE Exclusive

Blocks(u, t) == u # t /\ WaitsFor(t) # NoPage
                /\ IF WaitMode(t) = Shared THEN HoldsExclusive(u, WaitsFor(t)) ELSE Holds(u, WaitsFor(t))

(* Two threads wait for each other in one case only: a scan that opens     *)
(* behind its leaf's last entry waits for the next leaf with its own leaf  *)
(* latched, and a deletion holds that next leaf and wants to merge it with *)
(* the scan's.  All other latches are taken from the root down and, among  *)
(* siblings, under their parent's latch.                                   *)
CyclesOnlyAtOpen ==
  \A t, u \in Threads : Blocks(t, u) /\ Blocks(u, t) => "open_next" \in {th[t].pc, th[u].pc}

(* While calls overlap, the tree is valid between any two steps and every   *)
(* scan answers as if nothing had moved under it.                           *)
TreeAndScansSound == TreeValid /\ ScanConsistent
=============================================================================
