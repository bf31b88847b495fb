----------------------------- MODULE BplusTree -----------------------------
(***************************************************************************)
(* The B+ tree of an index file (storage/index/bplus_tree.cpp), used by one  *)
(* statement at a time: insert_entry, delete_entry, range scans, and the   *)
(* DELETE statement that deletes the entries it is scanning.               *)
(*                                                                         *)
(* A key is the indexed value followed by the record's RID.  User keys of  *)
(* scans are counted in units of 1/Scale of an indexed value: a multiple   *)
(* of Scale is a value that fits the column, any other one is a string     *)
(* longer than the column (Value * Scale + its first extra character).     *)
(***************************************************************************)
EXTENDS Integers, SequencesExt

CONSTANTS LeafMax, InternalMax,  \* leaf_max_size, internal_max_size
          Unique,                \* IndexFileHeader::unique
          Attrs, Rids,           \* indexed values and RIDs, sets of naturals
          Scale,                 \* see above
          Bounds,                \* the user keys of scans
          Builds,                \* insertion orders of the initial trees
          MaxOps                 \* bound: calls after the initial tree

(* The capacities follow from the page size and the key's length; below 4  *)
(* a node can be left with one entry, and coalesce_or_redistribute does    *)
(* not survive that (README, B+ tree).                                     *)
ASSUME TreeAssumption ==
  /\ LeafMax \in Nat /\ LeafMax >= 4
  /\ InternalMax \in Nat /\ InternalMax >= 4
  /\ Unique \in BOOLEAN
  /\ Attrs \subseteq Nat /\ Rids \subseteq Nat \ {0}
  /\ Scale \in Nat \ {0, 1} /\ Bounds \subseteq Nat

VARIABLES tree,      \* the nodes in the buffer pool and the index header
          answer,    \* what the last call returned
          ops        \* number of calls

vars == <<tree, answer, ops>>

-----------------------------------------------------------------------------
(* Keys *)

NoPage == -1
FirstPage == 2          \* page 0 is the file's header, page 1 the index's
RidMin == 0
RidMax == Max(Rids) + 1
Entry == Attrs \X Rids
NoKey == <<>>
NoBound == -1            \* a scan without left or right user key

CompareAttr(k, l) == IF k[1] < l[1] THEN -1 ELSE IF k[1] > l[1] THEN 1 ELSE 0

Compare(k, l) ==
  IF CompareAttr(k, l) # 0 THEN CompareAttr(k, l)
  ELSE IF k[2] < l[2] THEN -1 ELSE IF k[2] > l[2] THEN 1 ELSE 0

(* common::lower_bound on the outcomes of comparing the items with a key;  *)
(* positions count from 0.                                                 *)
RECURSIVE LowerBound(_, _, _)
LowerBound(cmp, first, count) ==
  IF count = 0 THEN [pos |-> first, found |-> FALSE]
  ELSE LET step == count \div 2
           mid  == first + step
       IN  CASE cmp[mid + 1] = 0 -> [pos |-> mid, found |-> TRUE]
             [] cmp[mid + 1] < 0 -> LowerBound(cmp, mid + 1, count - step - 1)
             [] OTHER            -> LowerBound(cmp, first, step)

-----------------------------------------------------------------------------
(* Nodes.  A leaf's items pair keys with RIDs, an internal node's items    *)
(* pair keys with child pages; the first key of an internal node is not    *)
(* used for searching.                                                     *)

Item(key, val) == [key |-> key, val |-> val]
EmptyNode(leaf, parent) == [leaf |-> leaf, parent |-> parent, next |-> NoPage, items |-> <<>>]

SizeOf(node) == Len(node.items)
MaxSize(node) == IF node.leaf THEN LeafMax ELSE InternalMax
MinSize(node) == MaxSize(node) - MaxSize(node) \div 2
KeyAt(node, i) == node.items[i + 1].key
ValueAt(node, i) == node.items[i + 1].val
ValueIndex(node, p) == CHOOSE i \in 0..SizeOf(node) - 1 : ValueAt(node, i) = p

LeafLookup(node, key) ==
  LowerBound([i \in DOMAIN node.items |-> Compare(node.items[i].key, key)], 0, SizeOf(node))

LeafLookupAttr(node, key) ==
  LowerBound([i \in DOMAIN node.items |-> CompareAttr(node.items[i].key, key)], 0, SizeOf(node))

InternalLookup(node, key) ==
  LET size == SizeOf(node)
      ret  == LowerBound([i \in 1..size - 1 |-> Compare(node.items[i + 1].key, key)], 0, size - 1).pos + 1
  IN  [insert |-> ret,
       child  |-> IF ret >= size \/ Compare(key, KeyAt(node, ret)) < 0 THEN ret - 1 ELSE ret]

InsertItem(node, i, item) == [node EXCEPT !.items = InsertAt(@, i + 1, item)]
RemoveItem(node, i) == [node EXCEPT !.items = RemoveAt(@, i + 1)]
InternalInsert(node, key, p) == InsertItem(node, InternalLookup(node, key).insert, Item(key, p))

(* Two neighbours after items moved from one (a) to the other (b).         *)
MoveHalfTo(a, b) ==
  LET half == SizeOf(a) \div 2
  IN  [a |-> [a EXCEPT !.items = SubSeq(@, 1, half)], b |-> [b EXCEPT !.items = SubSeq(a.items, half + 1, SizeOf(a))]]

MoveFirstToEnd(a, b) ==
  [a |-> [a EXCEPT !.items = Tail(@)], b |-> [b EXCEPT !.items = Append(@, Head(a.items))]]

MoveLastToFront(a, b) ==
  [a |-> [a EXCEPT !.items = Front(@)], b |-> [b EXCEPT !.items = <<Last(a.items)>> \o @]]

MoveTo(a, b) ==
  [a |-> [a EXCEPT !.items = <<>>], b |-> [b EXCEPT !.items = @ \o a.items, !.next = a.next]]

-----------------------------------------------------------------------------
(* The tree: nodes by page, the root, pages to dispose when the latch memo *)
(* is released, the neighbours a deletion latched, whether every ASSERT of *)
(* the tree held, and whether no page was disposed under the scanner of    *)
(* the last DELETE (an ASSERT of the pool).                                *)

EmptyTree == [nodes |-> <<>>, root |-> NoPage, disposed |-> {}, latched |-> <<>>,
              ok |-> TRUE, pool_ok |-> TRUE]

PutNode(t, p, node) == [t EXCEPT !.nodes = (p :> node) @@ @]

(* The pool's bitmap hands out the lowest free page.                       *)
AllocatePage(t) == CHOOSE p \in FirstPage..(FirstPage + Cardinality(DOMAIN t.nodes)) :
                     /\ p \notin DOMAIN t.nodes
                     /\ \A q \in FirstPage..p - 1 : q \in DOMAIN t.nodes

(* Mutant: the children that moved keep their old parent.                  *)
AdoptNothing(t, parent, items, leaf) == t

(* copy_from, preappend: the children of moved items get the new parent.   *)
Adopt(t, parent, items, leaf) ==
  IF leaf THEN t
  ELSE LET kids == {items[i].val : i \in DOMAIN items}
       IN  [t EXCEPT !.nodes = [p \in DOMAIN @ |-> IF p \in kids THEN [@[p] EXCEPT !.parent = parent] ELSE @[p]]]

Release(t) == [t EXCEPT !.nodes = Restrict(@, DOMAIN @ \ t.disposed), !.disposed = {}, !.latched = <<>>]

RECURSIVE Descend(_, _, _)
Descend(t, p, key) ==
  IF t.nodes[p].leaf THEN p
  ELSE Descend(t, ValueAt(t.nodes[p], IF key = NoKey THEN 0 ELSE InternalLookup(t.nodes[p], key).child), key)

FindLeaf(t, key) == Descend(t, t.root, key)
LeftMostPage(t) == Descend(t, t.root, NoKey)

-----------------------------------------------------------------------------
(* Insertion *)

CreateNewTree(t, key) ==
  LET p == AllocatePage(t)
  IN  [PutNode(t, p, InsertItem(EmptyNode(TRUE, NoPage), 0, Item(key, key[2]))) EXCEPT !.root = p]

(* split: the upper half moves to a new right node.                        *)
Split(t, p, q) ==
  LET old == t.nodes[p]
      two == MoveHalfTo(old, EmptyNode(old.leaf, old.parent))
  IN  Adopt(PutNode(PutNode(t, q, two.b), p, two.a), q, two.b.items, old.leaf)

CreateNewRoot(t, left, key, right) ==
  LET r    == AllocatePage(t)
      zero == <<0, RidMin>>
      root == [EmptyNode(FALSE, NoPage) EXCEPT !.items = <<Item(zero, left), Item(key, right)>>]
  IN  [Adopt(PutNode(t, r, root), r, root.items, FALSE) EXCEPT !.root = r]

RECURSIVE InsertEntryIntoParent(_, _, _, _)
InsertEntryIntoParent(t, p, q, key) ==
  LET pp     == t.nodes[p].parent
      parent == t.nodes[pp]
      np     == AllocatePage(t)
      halves == Split(t, pp, np)
      target == IF Compare(key, KeyAt(halves.nodes[np], 0)) > 0 THEN np ELSE pp
      Link(tr, at) == PutNode(PutNode(tr, at, InternalInsert(tr.nodes[at], key, q)),
                              q, [tr.nodes[q] EXCEPT !.parent = at])
  IN  CASE pp = NoPage -> CreateNewRoot(t, p, key, q)
        [] pp # NoPage /\ SizeOf(parent) < MaxSize(parent) -> Link(t, pp)
        [] OTHER -> InsertEntryIntoParent(Link(halves, target), pp, np, KeyAt(Link(halves, target).nodes[np], 0))

Exists(leaf, key) == IF Unique THEN LeafLookupAttr(leaf, key).found ELSE LeafLookup(leaf, key).found

InsertEntryIntoLeafNode(t, p, key) ==
  LET leaf  == t.nodes[p]
      pos   == IF Unique THEN LeafLookupAttr(leaf, key).pos ELSE LeafLookup(leaf, key).pos
      q     == AllocatePage(t)
      halved == Split(t, p, q)
      left   == [halved.nodes[p] EXCEPT !.next = q]
      right  == [halved.nodes[q] EXCEPT !.next = leaf.next]
      item   == Item(key, key[2])
      split  == IF pos < SizeOf(left)
                THEN PutNode(PutNode(halved, p, InsertItem(left, pos, item)), q, right)
                ELSE PutNode(PutNode(halved, p, left), q, InsertItem(right, pos - SizeOf(left), item))
  IN  IF SizeOf(leaf) < MaxSize(leaf)
      THEN PutNode(t, p, InsertItem(leaf, pos, item))
      ELSE InsertEntryIntoParent(split, p, q, KeyAt(split.nodes[q], 0))

InsertEntry(t, key) ==
  IF t.root = NoPage THEN [tree |-> CreateNewTree(t, key), rc |-> "SUCCESS"]
  ELSE LET p == FindLeaf(t, key)
       IN  IF Exists(t.nodes[p], key) THEN [tree |-> t, rc |-> "RECORD_DUPLICATE_KEY"]
           ELSE [tree |-> InsertEntryIntoLeafNode(t, p, key), rc |-> "SUCCESS"]

-----------------------------------------------------------------------------
(* Deletion *)

AdjustRoot(t, p) ==
  LET root  == t.nodes[p]
      child == ValueAt(root, 0)
  IN  CASE root.leaf /\ SizeOf(root) > 0 -> t
        [] root.leaf /\ SizeOf(root) = 0 -> [t EXCEPT !.root = NoPage, !.disposed = @ \cup {p}]
        [] OTHER -> [t EXCEPT !.nodes[child].parent = NoPage, !.root = child, !.disposed = @ \cup {p}]

Redistribute(t, neighbor, p, pp, index) ==
  LET from == t.nodes[neighbor]
      two  == IF index = 0 THEN MoveFirstToEnd(from, t.nodes[p]) ELSE MoveLastToFront(from, t.nodes[p])
      moved == IF index = 0 THEN Last(two.b.items) ELSE Head(two.b.items)
      t1   == Adopt(PutNode(PutNode(t, neighbor, two.a), p, two.b), p, <<moved>>, from.leaf)
  IN  IF index = 0 THEN [t1 EXCEPT !.nodes[pp].items[2].key = KeyAt(two.a, 0)]
                   ELSE [t1 EXCEPT !.nodes[pp].items[index + 1].key = moved.key]

(* coalesce: the right one of the two nodes is merged into the left one.   *)
Merge(t, left, right, pp, index) ==
  LET two == MoveTo(t.nodes[right], t.nodes[left])
      t1  == PutNode(PutNode(t, left, two.b), right, two.a)
      t2  == PutNode(t1, pp, RemoveItem(t.nodes[pp], index))
  IN  [Adopt(t2, left, t.nodes[right].items, two.b.leaf) EXCEPT !.disposed = @ \cup {right}]

RECURSIVE CoalesceOrRedistribute(_, _)
CoalesceOrRedistribute(t, p) ==
  LET node   == t.nodes[p]
      pp     == node.parent
      parent == t.nodes[pp]
      index  == InternalLookup(parent, KeyAt(node, SizeOf(node) - 1)).child
      nb     == ValueAt(parent, IF index = 0 THEN 1 ELSE index - 1)
      t1     == [t EXCEPT !.ok = @ /\ ValueAt(parent, index) = p, !.latched = Append(@, nb)]
      merged == IF index = 0 THEN Merge(t1, p, nb, pp, 1) ELSE Merge(t1, nb, p, pp, index)
  IN  CASE SizeOf(node) >= MinSize(node) -> t
        [] SizeOf(node) < MinSize(node) /\ pp = NoPage -> IF SizeOf(node) > 1 THEN t ELSE AdjustRoot(t, p)
        [] OTHER -> IF SizeOf(node) + SizeOf(t.nodes[nb]) > MaxSize(node)
                    THEN Redistribute(t1, nb, p, pp, index)
                    ELSE CoalesceOrRedistribute(merged, pp)

(* delete_entry, before the latch memo gives the disposed pages back.      *)
DeleteEntryInternal(t, p, key) ==
  LET hit == LeafLookup(t.nodes[p], key)
  IN  IF ~hit.found THEN [tree |-> t, rc |-> "RECORD_NOT_EXIST"]
      ELSE [tree |-> CoalesceOrRedistribute(PutNode(t, p, RemoveItem(t.nodes[p], hit.pos)), p), rc |-> "SUCCESS"]

DeleteEntry(t, key) ==
  IF t.root = NoPage THEN [tree |-> t, rc |-> "RECORD_NOT_EXIST"]
  ELSE DeleteEntryInternal(t, FindLeaf(t, key), key)

-----------------------------------------------------------------------------
(* Scans *)

(* fix_user_key: a bound longer than the column becomes an inclusive bound *)
(* on the next value (left) or on its prefix (right).                      *)
FixUserKey(u, want_greater) ==
  [attr |-> u \div Scale + (IF u % Scale # 0 /\ want_greater THEN 1 ELSE 0),
   inclusive |-> u % Scale # 0]

LeftKey(u, inclusive) ==
  LET fix == FixUserKey(u, TRUE)
  IN  <<fix.attr, IF inclusive \/ fix.inclusive THEN RidMin ELSE RidMax>>

RightKey(u, inclusive) ==
  LET fix == FixUserKey(u, FALSE)
  IN  <<fix.attr, IF inclusive \/ fix.inclusive THEN RidMax ELSE RidMin>>

(* A range: user keys (or NoKey) and whether they are included.            *)
InvalidRange(r) ==
  /\ r.left # NoBound /\ r.right # NoBound
  /\ \/ r.left \div Scale > r.right \div Scale
     \/ r.left \div Scale = r.right \div Scale /\ ~(r.linc /\ r.rinc)

(* The scanner: current page, a copy of the frame it has pinned, position, *)
(* whether the first entry was fetched, the right bound.                   *)
Scanner(t, p, i, right) == [page |-> p, frame |-> IF p = NoPage THEN EmptyNode(TRUE, NoPage) ELSE t.nodes[p],
                            index |-> i, emitted |-> FALSE, right |-> right]

TouchEnd(s) == s.right # NoKey /\ Compare(KeyAt(s.frame, s.index), s.right) > 0

OpenScan(t, r) ==
  LET right == IF r.right = NoBound THEN NoKey ELSE RightKey(r.right, r.rinc)
      key   == LeftKey(r.left, r.linc)
      leaf  == FindLeaf(t, key)
      pos   == LeafLookup(t.nodes[leaf], key).pos
      start == IF r.left = NoBound THEN Scanner(t, LeftMostPage(t), 0, right)
               ELSE IF pos < SizeOf(t.nodes[leaf]) THEN Scanner(t, leaf, pos, right)
               ELSE Scanner(t, t.nodes[leaf].next, 0, right)
  IN  CASE InvalidRange(r) -> [rc |-> "INVALID_ARGUMENT", scan |-> Scanner(t, NoPage, 0, NoKey)]
        [] ~InvalidRange(r) /\ t.root = NoPage ->
             [rc |-> IF r.left = NoBound THEN "EMPTY" ELSE "SUCCESS", scan |-> Scanner(t, NoPage, 0, NoKey)]
        [] OTHER -> [rc |-> "SUCCESS",
                     scan |-> IF start.page # NoPage /\ TouchEnd(start) THEN [start EXCEPT !.page = NoPage] ELSE start]

(* next_entry: the scanner afterwards; page NoPage stands for RECORD_EOF.  *)
RECURSIVE NextEntry(_, _, _)
NextEntry(t, s, increase) ==
  LET i    == IF increase THEN s.index + 1 ELSE s.index
      moved == [s EXCEPT !.index = i]
      next == [s EXCEPT !.page = s.frame.next, !.frame = t.nodes[s.frame.next], !.index = -1]
  IN  CASE s.page = NoPage -> s
        [] s.page # NoPage /\ ~s.emitted -> [s EXCEPT !.emitted = TRUE]
        [] s.page # NoPage /\ s.emitted /\ i < SizeOf(s.frame) ->
             IF TouchEnd(moved) THEN [moved EXCEPT !.page = NoPage] ELSE moved
        [] OTHER -> IF s.frame.next = NoPage THEN [s EXCEPT !.page = NoPage] ELSE NextEntry(t, next, TRUE)

RECURSIVE Collect(_, _)
Collect(t, s) ==
  LET n == NextEntry(t, s, TRUE)
  IN  IF n.page = NoPage THEN <<>> ELSE <<ValueAt(n.frame, n.index)>> \o Collect(t, n)

(* get_entry and SELECT: everything from the open scanner.                 *)
ScanAll(t, r) ==
  LET open == OpenScan(t, r)
  IN  [rc |-> open.rc, rids |-> IF open.rc = "SUCCESS" THEN Collect(t, open.scan) ELSE <<>>]

(* Mutant: the scanner moves on after a deletion as after any entry.       *)
IncreaseAlways(deleted) == TRUE

(* set_idx_increase: the position moves on unless its entry was deleted.   *)
IdxIncrease(deleted) == ~deleted

(* DELETE through an index scan (DeletePhysicalOperator over               *)
(* IndexScanPhysicalOperator): every fetched entry whose record satisfies  *)
(* the predicate is deleted before the next one is fetched, and then the   *)
(* position is not advanced.  The scanner keeps its pin: a page disposed   *)
(* under it fails an ASSERT of the pool, and what is in its frame is what  *)
(* the deletion left there.                                                *)
RECURSIVE DeleteLoop(_, _, _, _)
DeleteLoop(t, s, increase, attr) ==
  LET n    == NextEntry(t, s, increase)
      key  == KeyAt(n.frame, n.index)
      del  == DeleteEntry(t, key).tree
      kept == [n EXCEPT !.frame = del.nodes[n.page]]
      t1   == Release([del EXCEPT !.pool_ok = @ /\ n.page \notin del.disposed])
  IN  CASE n.page = NoPage -> t
        [] n.page # NoPage /\ key[1] # attr -> DeleteLoop(t, n, IdxIncrease(FALSE), attr)
        [] OTHER -> DeleteLoop(t1, kept, IdxIncrease(TRUE), attr)

DeleteScan(t, attr) ==
  DeleteLoop(t, OpenScan(t, [left |-> attr * Scale, linc |-> TRUE, right |-> attr * Scale, rinc |-> TRUE]).scan,
             TRUE, attr)

-----------------------------------------------------------------------------
(* The calls that change the tree *)

NoAnswer == [call |-> "none", arg |-> NoKey, rc |-> "SUCCESS"]
Answer(call, arg, rc) == [call |-> call, arg |-> arg, rc |-> rc]

Build(order) == FoldLeft(LAMBDA t, key : InsertEntry(t, key).tree, EmptyTree, order)

Init ==
  /\ \E order \in Builds : tree = Build(order)
  /\ answer = NoAnswer
  /\ ops = 0

Call == ops < MaxOps /\ ops' = ops + 1

Insert(key) ==
  /\ Call
  /\ LET r == InsertEntry(tree, key)
     IN  tree' = r.tree /\ answer' = Answer("insert", key, r.rc)

Delete(key) ==
  /\ Call
  /\ LET r == DeleteEntry(tree, key)
     IN  tree' = Release(r.tree) /\ answer' = Answer("delete", key, r.rc)

DeleteByIndex(attr) ==
  /\ Call
  /\ tree' = DeleteScan([tree EXCEPT !.pool_ok = TRUE], attr)
  /\ answer' = Answer("delete_scan", <<attr>>, "SUCCESS")

Next ==
  \/ \E key \in Entry : Insert(key) \/ Delete(key)
  \/ \E attr \in Attrs : DeleteByIndex(attr)

Spec == Init /\ [][Next]_vars

-----------------------------------------------------------------------------
(* Properties *)

RECURSIVE Leaves(_, _)
Leaves(t, p) ==
  IF t.nodes[p].leaf THEN <<p>>
  ELSE FlattenSeq([i \in DOMAIN t.nodes[p].items |-> Leaves(t, t.nodes[p].items[i].val)])

LeafSeq == IF tree.root = NoPage THEN <<>> ELSE Leaves(tree, tree.root)
Keys(p) == [i \in DOMAIN tree.nodes[p].items |-> tree.nodes[p].items[i].key]
KeySeq == FoldLeft(LAMBDA keys, p : keys \o Keys(p), <<>>, LeafSeq)
Contents == UNION {ToSet(Keys(p)) : p \in {q \in DOMAIN tree.nodes : tree.nodes[q].leaf}}

RECURSIVE Depth(_)
Depth(p) == IF tree.nodes[p].parent = NoPage THEN 0 ELSE 1 + Depth(tree.nodes[p].parent)

(* BplusTreeHandler::validate_tree, the check the code keeps for its own   *)
(* debugging: node order, parents, separators and the chain of leaves.     *)
ValidRoot(n) == n.parent = NoPage => SizeOf(n) >= (IF n.leaf THEN 1 ELSE 2)

(* A node's keys, from its first used one (k), lie between the separators. *)
BetweenSeparators(p, k) ==
  LET n  == tree.nodes[p]
      pn == tree.nodes[n.parent]
      ix == ValueIndex(pn, p)
  IN  n.parent # NoPage =>
        /\ ix # 0 => Compare(KeyAt(n, k), KeyAt(pn, ix)) >= 0
        /\ ix < SizeOf(pn) - 1 => Compare(KeyAt(n, SizeOf(n) - 1), KeyAt(pn, ix + 1)) < 0

ValidLeaf(p) ==
  LET n == tree.nodes[p]
  IN  /\ ValidRoot(n)
      /\ \A i \in 1..SizeOf(n) - 1 : Compare(KeyAt(n, i - 1), KeyAt(n, i)) < 0
      /\ BetweenSeparators(p, 0)

ValidInternal(p) ==
  LET n == tree.nodes[p]
  IN  /\ ValidRoot(n)
      /\ \A i \in 2..SizeOf(n) - 1 : Compare(KeyAt(n, i - 1), KeyAt(n, i)) < 0
      /\ \A i \in DOMAIN n.items : tree.nodes[n.items[i].val].parent = p
      /\ BetweenSeparators(p, 1)

ValidNode(p) == IF tree.nodes[p].leaf THEN ValidLeaf(p) ELSE ValidInternal(p)

ValidLeafLink(leaves) ==
  \A i \in DOMAIN leaves :
    tree.nodes[leaves[i]].next = IF i = Len(leaves) THEN NoPage ELSE leaves[i + 1]

(* After any sequence of insertions and deletions the tree passes          *)
(* validate_tree, no ASSERT of coalesce_or_redistribute failed, every leaf *)
(* has the same depth, no node is empty or above its capacity, and the     *)
(* pages in use are exactly the tree's: none is lost by a merge, a         *)
(* shrinking root or a new tree.                                           *)
TreeValid ==
  LET leaves == LeafSeq
      pages  == DOMAIN tree.nodes
  IN  /\ tree.ok
      /\ \A p \in pages : ValidNode(p) /\ SizeOf(tree.nodes[p]) \in 1..MaxSize(tree.nodes[p])
      /\ ValidLeafLink(leaves)
      /\ \A i \in DOMAIN leaves : Depth(leaves[i]) = Depth(leaves[1])
      /\ {p \in pages : tree.nodes[p].leaf} = ToSet(leaves)
      /\ \A p \in pages : tree.nodes[p].parent = NoPage <=> p = tree.root

ScanRange == {r \in [left : {NoBound} \cup Bounds, linc : BOOLEAN, right : {NoBound} \cup Bounds, rinc : BOOLEAN] :
                (r.left = NoBound => r.linc) /\ (r.right = NoBound => r.rinc)}

InRange(r, key) ==
  /\ r.left # NoBound => (IF r.linc THEN key[1] * Scale >= r.left ELSE key[1] * Scale > r.left)
  /\ r.right # NoBound => (IF r.rinc THEN key[1] * Scale <= r.right ELSE key[1] * Scale < r.right)

(* A scan that opens returns exactly the entries in its range, in key      *)
(* order, for bounds that fit the column and bounds that are longer (the   *)
(* adjustment of fix_user_key); it is refused only when no entry lies in   *)
(* the range or when its bounds agree in the characters the column keeps.  *)
ScansExact ==
  LET keys == KeySeq
  IN  \A r \in ScanRange :
    LET result == ScanAll(tree, r)
        wanted == SelectSeq(keys, LAMBDA key : InRange(r, key))
    IN  IF result.rc = "SUCCESS" THEN result.rids = [i \in DOMAIN wanted |-> wanted[i][2]]
        ELSE wanted = <<>> \/ r.left \div Scale = r.right \div Scale

(* DELETE through the index misses an entry of its range only when a merge *)
(* took the leaf away under its scanner (and then the pool's assertion in  *)
(* dispose_page fails in a debug build); entries outside the range stay.   *)
DeleteMissesOnlyMerged ==
  answer.call = "delete_scan" /\ tree.pool_ok => \A key \in Contents : key[1] # answer.arg[1]

(* Insertions and deletions answer and act like those of a set of entries  *)
(* (OrderedIndex).                                                         *)
Abstract == INSTANCE OrderedIndex WITH entries <- Contents
IndexSpec == Abstract!Spec

(* What a scan of the index can be asked for: the entries of any range, and *)
(* the end of a DELETE that removes what its scanner returns.               *)
ScanAnswers == ScansExact /\ DeleteMissesOnlyMerged
=============================================================================
