------------------------------- MODULE BinHeap -------------------------------
(***************************************************************************)
(* binheap.c: a forest of heap-ordered trees and a pointer to the root     *)
(* with the best key (the greatest in mode "max", the least in "min").     *)
(*                                                                         *)
(* A node is a record of key, value and children; it is named by its path, *)
(* the indexes that lead to it from the list of trees.  The head pointer   *)
(* only ever points to a root and is the root's index, 0 for NULL.  Keys   *)
(* are numbers, compared as in Comparators and near enough to each other   *)
(* for the comparison to be right.                                         *)
(***************************************************************************)
EXTENDS Integers, SequencesExt, BagsExt

CONSTANTS
  Keys,      \* the keys clients insert: a range of numbers
  MaxCount,  \* the most items at a time
  MaxChanged, \* the most items whose key was changed at a time
  Careful    \* whether clients change only keys the heap can follow

VARIABLE heap

None == <<>>
Leaf(k, v) == [key |-> k, value |-> v, kids |-> <<>>]

HAS_PRECEDENCE(mode, k1, k2) == IF mode = "max" THEN k1 >= k2 ELSE k1 <= k2

binheap_create(mode) == [mode |-> mode, trees |-> <<>>, head |-> 0, count |-> 0]

\* The node at path p of the forest, and the forest with t in its place.
RECURSIVE NodeAt(_, _)
NodeAt(trees, p) == IF Len(p) = 1 THEN trees[p[1]] ELSE NodeAt(trees[p[1]].kids, Tail(p))
RECURSIVE PutAt(_, _, _)
PutAt(trees, p, t) ==
  IF Len(p) = 1 THEN [trees EXCEPT ![p[1]] = t]
  ELSE [trees EXCEPT ![p[1]].kids = PutAt(@, Tail(p), t)]

-----------------------------------------------------------------------------
(* Looking for the best and the worst. *)

\* Of equal roots binheap_maxmin takes the last greatest and the first least.
Greatest(ts) == {i \in DOMAIN ts : \A j \in DOMAIN ts : ts[i].key >= ts[j].key}
Least(ts) == {i \in DOMAIN ts : \A j \in DOMAIN ts : ts[i].key <= ts[j].key}
binheap_maxmin(ts, max) == IF max THEN Max(Greatest(ts)) ELSE Min(Least(ts))

\* Of equal children the last.
find_child(ts, max) == IF max THEN Max(Greatest(ts)) ELSE Max(Least(ts))

RECURSIVE ToLeaf(_, _, _)
ToLeaf(trees, p, max) ==
  LET kids == NodeAt(trees, p).kids IN
  IF kids = <<>> THEN p ELSE ToLeaf(trees, Append(p, find_child(kids, max)), max)

\* binheap_get_maximum and binheap_get_minimum: at the mode's own end the
\* head; at the other end a leaf, reached from the root with that end's key by
\* taking that end's child.
binheap_get(h, max) ==
  IF max = (h.mode = "max")
    THEN IF h.head # 0 THEN <<h.head>>
         ELSE IF h.trees = <<>> THEN None ELSE <<binheap_maxmin(h.trees, max)>>
    ELSE IF h.trees = <<>> THEN None
         ELSE ToLeaf(h.trees, <<binheap_maxmin(h.trees, max)>>, max)

UPDATE_HEAD(h) ==
  [h EXCEPT !.head = IF h.trees = <<>> THEN 0 ELSE binheap_maxmin(h.trees, h.mode = "max")]

-----------------------------------------------------------------------------
(* Insertion and deletion. *)

\* binomial_tree_merge: b becomes a child of a.
binomial_tree_merge(a, b) == [a EXCEPT !.kids = Append(@, b)]
Join(mode, a, b) ==
  IF HAS_PRECEDENCE(mode, a.key, b.key) THEN binomial_tree_merge(a, b) ELSE binomial_tree_merge(b, a)

\* The new node takes in the first trees as long as their order is the
\* number of trees taken in before.
RECURSIVE TakeIn(_, _, _, _)
TakeIn(mode, node, trees, order) ==
  IF trees # <<>> /\ Len(trees[1].kids) = order
    THEN TakeIn(mode, Join(mode, node, trees[1]), Tail(trees), order + 1)
    ELSE <<node>> \o trees

Settled(h) == IF h.head = 0 THEN [h EXCEPT !.head = 1] ELSE UPDATE_HEAD(h)
binheap_insert(h, k, v) ==
  Settled([h EXCEPT !.trees = TakeIn(h.mode, Leaf(k, v), @, 0), !.count = @ + 1])

\* The children of a root that is freed go to its best child, which takes the
\* root's place.
Succeed(node, c) == [node.kids[c] EXCEPT !.kids = @ \o RemoveAt(node.kids, c)]
WithoutRoot(h, i, node) ==
  IF node.kids = <<>>
    THEN [h EXCEPT !.trees = RemoveAt(@, i), !.head = IF i < @ THEN @ - 1 ELSE @]
    ELSE [h EXCEPT !.trees[i] = Succeed(node, find_child(node.kids, h.mode = "max"))]
RootDestroy(h, i) ==
  IF i = h.head THEN UPDATE_HEAD(WithoutRoot(h, i, h.trees[i])) ELSE WithoutRoot(h, i, h.trees[i])

\* Those of another node go to its parent.
Adopt(under, j) == [under EXCEPT !.kids = RemoveAt(@, j) \o under.kids[j].kids]

node_destroyKeepingHead(h, p) ==
  LET freed == [h EXCEPT !.count = @ - 1] IN
  IF Len(p) = 1 THEN WithoutRoot(freed, p[1], freed.trees[p[1]])
  ELSE [freed EXCEPT !.trees = PutAt(@, Front(p), Adopt(NodeAt(@, Front(p)), Last(p)))]

binomial_tree_node_destroy(h, p) ==
  LET freed == [h EXCEPT !.count = @ - 1] IN
  IF Len(p) = 1 THEN RootDestroy(freed, p[1])
  ELSE [freed EXCEPT !.trees = PutAt(@, Front(p), Adopt(NodeAt(@, Front(p)), Last(p)))]

\* binheap_delete_maximum and binheap_delete_minimum.
DestroyAt(h, p) == IF p = None THEN h ELSE binomial_tree_node_destroy(h, p)
binheap_delete_end(h, max) == DestroyAt(h, binheap_get(h, max))

\* Of the trees that may hold key, the last of those with the worst root.
MayHold(mode, ts, key) ==
  LET S == {i \in DOMAIN ts : HAS_PRECEDENCE(mode, ts[i].key, key)}
      worst == {i \in S : \A j \in S : HAS_PRECEDENCE(mode, ts[j].key, ts[i].key)}
  IN IF S = {} THEN 0 ELSE Max(worst)

\* The search follows one path only, and may miss a key that is elsewhere.
RECURSIVE Search(_, _, _, _)
Search(mode, ts, key, p) ==
  LET i == MayHold(mode, ts, key) IN
  IF i = 0 THEN None
  ELSE IF ts[i].key = key THEN Append(p, i) ELSE Search(mode, ts[i].kids, key, Append(p, i))

FindKey(h, key) == Search(h.mode, h.trees, key, <<>>)
binheap_delete(h, key) == DestroyAt(h, FindKey(h, key))

-----------------------------------------------------------------------------
(* Changing a key: it moves up as long as it precedes its parent's, never    *)
(* down, and the head stays where it is.                                     *)

RECURSIVE MoveUp(_, _, _, _, _)
MoveUp(mode, trees, p, key, value) ==
  LET node == NodeAt(trees, p)
      parent == NodeAt(trees, Front(p))
      down == [node EXCEPT !.key = parent.key, !.value = parent.value]
  IN IF Len(p) > 1 /\ HAS_PRECEDENCE(mode, key, parent.key)
       THEN MoveUp(mode, PutAt(trees, p, down), Front(p), key, value)
       ELSE PutAt(trees, p, [node EXCEPT !.key = key, !.value = value])

binomial_tree_node_increase_key(h, p, incr) ==
  LET node == NodeAt(h.trees, p) IN
  IF p = None \/ incr = 0 THEN h ELSE [h EXCEPT !.trees = MoveUp(h.mode, @, p, node.key + incr, node.value)]

binheap_change_end(h, max, incr) == binomial_tree_node_increase_key(h, binheap_get(h, max), incr)

-----------------------------------------------------------------------------
(* Merging two heaps. *)

Order(t) == Len(t.kids)
Next1(s) == [s EXCEPT !.n1 = IF s.l1 = <<>> THEN None ELSE s.l1[1], !.l1 = IF @ = <<>> THEN @ ELSE Tail(@)]
Next2(s) == [s EXCEPT !.n2 = IF s.l2 = <<>> THEN None ELSE s.l2[1], !.l2 = IF @ = <<>> THEN @ ELSE Tail(@)]

\* The carry joins a tree of its order, or changes places with a greater one.
Carried(mode, s) ==
  IF s.carry = None THEN s
  ELSE IF s.n1 # None /\ Order(s.n1) = Order(s.carry)
         THEN [s EXCEPT !.n1 = Join(mode, @, s.carry), !.carry = None]
  ELSE IF s.n2 # None /\ Order(s.n2) = Order(s.carry)
         THEN [s EXCEPT !.n2 = Join(mode, @, s.carry), !.carry = None]
  ELSE IF s.n1 # None /\ Order(s.n1) > Order(s.carry) THEN [s EXCEPT !.n1 = s.carry, !.carry = s.n1]
  ELSE IF s.n2 # None /\ Order(s.n2) > Order(s.carry) THEN [s EXCEPT !.n2 = s.carry, !.carry = s.n2]
  ELSE s

\* Two trees of the same order, and the carry when there is one: the code asks
\* for the greater key here when the first tree won, whatever the mode.
WithCarry(two, carry, above) == IF above THEN binomial_tree_merge(two, carry) ELSE binomial_tree_merge(carry, two)
Both(mode, s, two) ==
  IF s.carry = None THEN two
  ELSE WithCarry(two, s.carry, IF HAS_PRECEDENCE(mode, s.n1.key, s.n2.key) THEN two.key >= s.carry.key
                               ELSE HAS_PRECEDENCE(mode, two.key, s.carry.key))

MergeStep(mode, s) ==
  IF s.n2 = None \/ (s.n1 # None /\ Order(s.n1) < Order(s.n2)) THEN Next1([s EXCEPT !.out = Append(@, s.n1)])
  ELSE IF s.n1 = None \/ Order(s.n1) > Order(s.n2) THEN Next2([s EXCEPT !.out = Append(@, s.n2)])
  ELSE Next1(Next2([s EXCEPT !.carry = Both(mode, s, Join(mode, s.n1, s.n2))]))

RECURSIVE MergeLoop(_, _)
MergeLoop(mode, s) ==
  IF s.n1 = None /\ s.n2 = None THEN IF s.carry = None THEN s.out ELSE Append(s.out, s.carry)
  ELSE MergeLoop(mode, MergeStep(mode, Carried(mode, s)))

binheap_merge(h1, h2) ==
  LET start == [n1 |-> None, n2 |-> None, carry |-> None, l1 |-> h1.trees, l2 |-> h2.trees, out |-> <<>>]
  IN [mode |-> h1.mode, trees |-> MergeLoop(h1.mode, Next1(Next2(start))),
      head |-> 0, count |-> h1.count + h2.count]

-----------------------------------------------------------------------------
(* Walking: cb gives the callback's answer for each value.  A node is removed *)
(* after its children were walked, while its parent goes on by index.         *)

RECURSIVE WalkNode(_, _, _)
RECURSIVE WalkKids(_, _, _, _)
Ahead(w, z) == [z EXCEPT !.seen = w.seen \o @]
WalkNode(h, p, cb) ==
  LET node == NodeAt(h.trees, p)
      w == WalkKids([h |-> h, go |-> cb[node.value] \in {-1, 1}, seen |-> <<node.value>>], p, 1, cb)
  IN IF cb[node.value] < 0 THEN [w EXCEPT !.h = binomial_tree_node_destroy(@, p)] ELSE w
WalkKids(w, p, i, cb) ==
  IF ~w.go \/ i > Len(NodeAt(w.h.trees, p).kids) THEN w
  ELSE WalkKids(Ahead(w, WalkNode(w.h, Append(p, i), cb)), p, i + 1, cb)

RECURSIVE WalkTrees(_, _, _)
WalkTrees(w, i, cb) ==
  IF ~w.go \/ i > Len(w.h.trees) THEN w
  ELSE WalkTrees(Ahead(w, WalkNode(w.h, <<i>>, cb)), i + 1, cb)

binheap_walk(h, cb) == WalkTrees([h |-> h, go |-> TRUE, seen |-> <<>>], 1, cb)

-----------------------------------------------------------------------------
(* The items of a heap, a bag of keys with their values. *)

RECURSIVE TreeItems(_)
TreeItems(ts) ==
  IF ts = <<>> THEN EmptyBag
  ELSE SetToBag({<<ts[1].key, ts[1].value>>}) (+) TreeItems(ts[1].kids) (+) TreeItems(Tail(ts))
Items(h) == TreeItems(h.trees)
OneItem(k, v) == SetToBag({<<k, v>>})
ItemAt(h, p) == <<NodeAt(h.trees, p).key, NodeAt(h.trees, p).value>>

-----------------------------------------------------------------------------

Init == \E mode \in {"max", "min"} : heap = binheap_create(mode)

\* A value is the key it was inserted with.
Insert == heap.count < MaxCount /\ \E k \in Keys : heap' = binheap_insert(heap, k, k)
Delete == \E k \in Keys : heap' = binheap_delete(heap, k)
DeleteMinimum == heap' = binheap_delete_end(heap, FALSE)
DeleteMaximum == heap' = binheap_delete_end(heap, TRUE)

\* The heap follows a change that leaves the head's key the best.
Follows(max, incr) ==
  LET p == binheap_get(heap, max)
      new == ItemAt(heap, p)[1] + incr
      others == BagToSet(Items(heap) (-) SetToBag({ItemAt(heap, p)}))
  IN IF p = <<heap.head>> THEN \A x \in others : HAS_PRECEDENCE(heap.mode, new, x[1])
     ELSE HAS_PRECEDENCE(heap.mode, heap.trees[heap.head].key, new)

\* binheap_increase_maximum, binheap_decrease_maximum and the same two for the
\* minimum.
ChangeKey ==
  \E max \in BOOLEAN, incr \in {-1, 0, 1} :
    /\ heap.count > 0
    /\ ItemAt(heap, binheap_get(heap, max))[1] + incr \in Keys
    /\ Careful => Follows(max, incr)
    /\ heap' = binheap_change_end(heap, max, incr)
    /\ BagCardinality([x \in {x \in DOMAIN Items(heap') : x[1] # x[2]} |-> Items(heap')[x]]) <= MaxChanged

Stopping(v, rc) == [x \in Keys |-> IF x = v THEN rc ELSE 1]

\* The callback answers rc for one value and goes on at the others.
Walk == \E v \in Keys, rc \in {-2, -1, 0} : heap' = binheap_walk(heap, Stopping(v, rc)).h

\* binheap_destroy, which deletes the best until none is left, and
\* binheap_create again.
RECURSIVE Emptied(_)
Emptied(h) == IF h.trees = <<>> THEN h ELSE Emptied(binheap_delete_end(h, h.mode = "max"))
Destroy == \E mode \in {"max", "min"} : heap' = [Emptied(heap) EXCEPT !.mode = mode]

Next == Insert \/ Delete \/ DeleteMinimum \/ DeleteMaximum \/ ChangeKey \/ Walk \/ Destroy
Spec == Init /\ [][Next]_heap

-----------------------------------------------------------------------------
(* Properties. *)

IsBest(h, k) == \A x \in BagToSet(Items(h)) : HAS_PRECEDENCE(h.mode, k, x[1])

BestAtHead ==
  /\ heap.head \in (IF heap.trees = <<>> THEN {0} ELSE DOMAIN heap.trees)
  /\ heap.head # 0 => IsBest(heap, heap.trees[heap.head].key)

Less(items, x) == items (-) SetToBag({x})

\* Deleting a key takes out an item with it, or nothing; the best is found.
Deleted(items, rest, k) ==
  \/ rest = items /\ ~(heap.count > 0 /\ IsBest(heap, k) /\ \E x \in BagToSet(items) : x[1] = k)
  \/ \E x \in BagToSet(items) : x[1] = k /\ rest = Less(items, x)

\* Deleting an end takes out that item, changing its key keeps the value.
EndsRight(items, max, x) ==
  /\ Items(binheap_delete_end(heap, max)) = Less(items, x)
  /\ Items(binheap_change_end(heap, max, 1)) = Less(items, x) (+) OneItem(x[1] + 1, x[2])

ItemsRight(items) ==
  /\ heap.count = BagCardinality(items)
  /\ \A k \in Keys :
       /\ Items(binheap_insert(heap, k, k)) = items (+) OneItem(k, k)
       /\ Deleted(items, Items(binheap_delete(heap, k)), k)
  /\ heap.count > 0 => \A max \in BOOLEAN : EndsRight(items, max, ItemAt(heap, binheap_get(heap, max)))

\* Heaps to merge with: those that insertions alone make and, in mode "max",
\* one like this heap.  In mode "min" the comparison in Both puts a greater root
\* on top when a carry meets two smaller trees; two heaps of two items whose
\* trees a deletion left with the same order are enough for that.
RECURSIVE Inserted(_, _)
Inserted(h, ks) == IF ks = <<>> THEN h ELSE Inserted(binheap_insert(h, ks[1], ks[1]), Tail(ks))
Others ==
  {Inserted(binheap_create(heap.mode), ks) : ks \in SeqOf(Keys, 3)}
  \cup {h \in {heap} : h.mode = "max"}

Merged(h, other) ==
  /\ Items(h) = Items(heap) (+) Items(other)
  /\ h.count = BagCardinality(Items(h))
  /\ h.count > 0 => IsBest(h, ItemAt(h, binheap_get(h, h.mode = "max"))[1])

Values(b) == FoldSet(LAMBDA x, c : c (+) [y \in {x[2]} |-> b[x]], EmptyBag, DOMAIN b)
Walked(w, seen, all, v, rc) ==
  /\ seen \sqsubseteq all
  /\ v \notin DOMAIN all => seen = all
  /\ v \in DOMAIN all => Last(w.seen) = v /\ ~Contains(Front(w.seen), v)
  /\ Values(Items(w.h)) = IF v \in DOMAIN all /\ rc = -2 THEN all (-) SetToBag({v}) ELSE all
WalkRight(all) ==
  \A v \in Keys, rc \in {-2, 0} :
    \E w \in {binheap_walk(heap, Stopping(v, rc))} : Walked(w, FoldLeft(BagAdd, EmptyBag, w.seen), all, v, rc)

\* After any insertions, deletions, key changes and walks that remove, the
\* cached head is the best of all the items; the next insertion adds one item,
\* a deletion takes out one with the key asked for, a change of key keeps its
\* value, and count is the number of items; merged with one of Others it holds
\* the items of both and gives their best; and a walk visits each item once
\* until it is stopped, removing just the item it is told to.
HeapRight ==
  /\ BestAtHead
  /\ ItemsRight(Items(heap))
  /\ \A other \in Others : Merged(binheap_merge(heap, other), other)
  /\ WalkRight(Values(Items(heap)))
=============================================================================
