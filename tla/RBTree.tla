-------------------------------- MODULE RBTree -------------------------------
(***************************************************************************)
(* rbtree.c: a binary search tree whose nodes are red or black and know    *)
(* their parents.  Every routine is a function from tree to tree.          *)
(*                                                                         *)
(* No two nodes have the same key, so a node is named by its key, a number *)
(* above 0; 0 is NULL.  When rbt_remove copies a key into another node,    *)
(* that node is renamed.                                                   *)
(***************************************************************************)
EXTENDS Integers, SequencesExt

CONSTANTS
  Keys,       \* the keys clients use
  Versions,   \* the values clients store under a key are <<key, version>>
  MaxNodes,   \* the most nodes at a time
  Careful     \* whether clients remove only nodes the code unlinks correctly

VARIABLE tree

Red == "red"
Black == "black"
Node(v) == [color |-> Red, value |-> v, left |-> 0, right |-> 0, parent |-> 0]

\* prevnext is the static variable of rbt_remove; pristine is history: no
\* node was removed so far.
rbt_create == [root |-> 0, n |-> <<>>, prevnext |-> 0, pristine |-> TRUE]

Nodes(t) == DOMAIN t.n
IS_BLACK(t, x) == x = 0 \/ t.n[x].color = Black
IS_RED(t, x) == x # 0 /\ t.n[x].color = Red
Paint(t, x, c) == IF x = 0 THEN t ELSE [t EXCEPT !.n[x].color = c]
SetParent(t, x, p) == IF x = 0 THEN t ELSE [t EXCEPT !.n[x].parent = p]
Parent(t, x) == t.n[x].parent

\* y takes the place of the child x below p.
Replace(t, p, x, y) ==
  IF p = 0 THEN t
  ELSE IF t.n[p].left = x THEN [t EXCEPT !.n[p].left = y] ELSE [t EXCEPT !.n[p].right = y]

RECURSIVE FindIn(_, _, _)
FindIn(t, x, k) ==
  IF x = 0 \/ x = k THEN x ELSE FindIn(t, IF x > k THEN t.n[x].left ELSE t.n[x].right, k)
rbt_find(t, k) == FindIn(t, t.root, k)

-----------------------------------------------------------------------------
(* Rotations: the child p on one side of x takes x's place and x becomes its *)
(* child on the other side.  Without a child, x becomes the root.            *)

Hung(t, x, p, up) ==
  IF up = 0 THEN [t EXCEPT !.n[p].parent = 0, !.root = p]
  ELSE Replace([t EXCEPT !.n[p].parent = up], up, x, p)

Rotate(t, x, p, side, other) ==
  IF p = 0 THEN [t EXCEPT !.n[x].parent = 0, !.root = x]
  ELSE Hung(SetParent([t EXCEPT !.n[x][side] = t.n[p][other], !.n[p][other] = x, !.n[x].parent = p],
                      t.n[p][other], x), x, p, t.n[x].parent)

rbt_rotate_right(t, x) == Rotate(t, x, t.n[x].left, "left", "right")
rbt_rotate_left(t, x) == Rotate(t, x, t.n[x].right, "right", "left")

-----------------------------------------------------------------------------
(* Adding. *)

\* rbt_add_internal below x: a node with the key is replaced by the new one,
\* which keeps its color; otherwise the new node becomes a red leaf.
RECURSIVE AddBelow(_, _, _, _)
AddBelow(t, x, k, v) ==
  LET side == IF x > k THEN "left" ELSE "right" IN
  IF x = k THEN [t EXCEPT !.n[k].value = v]
  ELSE IF t.n[x][side] # 0 THEN AddBelow(t, t.n[x][side], k, v)
  ELSE [t EXCEPT !.n = [y \in Nodes(t) \union {k} |->
                          IF y = k THEN [Node(v) EXCEPT !.parent = x]
                          ELSE IF y = x THEN [t.n[x] EXCEPT ![side] = k] ELSE t.n[y]]]

rbt_grandparent(t, x) == IF t.n[x].parent = 0 THEN 0 ELSE Parent(t, Parent(t, x))
rbt_uncle(t, x) ==
  LET gp == rbt_grandparent(t, x) IN
  IF gp = 0 THEN 0 ELSE IF t.n[gp].left = Parent(t, x) THEN t.n[gp].right ELSE t.n[gp].left

Case5(t, x, p, gp) ==
  IF x = t.n[p].left THEN rbt_rotate_right(Paint(Paint(t, p, Black), gp, Red), gp)
  ELSE rbt_rotate_left(Paint(Paint(t, p, Black), gp, Red), gp)

\* Case 4 brings the node to the outside; its parent, lowered, is the node to
\* go on with.
Case4(t, x, p, gp) ==
  IF x = t.n[p].right /\ p = t.n[gp].left THEN Case5(rbt_rotate_left(t, p), p, x, gp)
  ELSE IF x = t.n[p].left /\ p = t.n[gp].right THEN Case5(rbt_rotate_right(t, p), p, x, gp)
  ELSE Case5(t, x, p, gp)

\* After a red uncle the code adds the grandparent's key again, which
\* replaces that node by a copy of itself and balances from there.
RECURSIVE rbt_add(_, _, _)
Balance(t, x, p, gp, uncle) ==
  IF IS_BLACK(t, x) THEN t
  ELSE IF p = 0 THEN Paint(t, x, Black)
  ELSE IF IS_BLACK(t, p) THEN t
  ELSE IF IS_RED(t, uncle)
         THEN rbt_add(Paint(Paint(Paint(t, p, Black), uncle, Black), gp, Red), gp, t.n[gp].value)
  ELSE IF gp # 0 THEN Case4(t, x, p, gp) ELSE t
Added(t, x) == Balance(t, x, Parent(t, x), rbt_grandparent(t, x), rbt_uncle(t, x))
rbt_add(t, k, v) ==
  IF t.root = 0 THEN [t EXCEPT !.root = k, !.n = [y \in {k} |-> [Node(v) EXCEPT !.color = Black]]]
  ELSE Added(AddBelow(t, t.root, k, v), k)

-----------------------------------------------------------------------------
(* Removing. *)

rbt_sibling(t, x, p) == IF x = t.n[p].left THEN t.n[p].right ELSE t.n[p].left
RotateTowards(t, x, p) == IF x = t.n[p].left THEN rbt_rotate_left(t, p) ELSE rbt_rotate_right(t, p)

\* Cases 2 to 6 for the node x, its parent p and its sibling s.  The sibling
\* found at the start is used to the end, though case 2 makes another node the
\* sibling.
Delete2(t, x, p, s) ==
  IF IS_RED(t, s) THEN RotateTowards(Paint(Paint(t, p, Red), s, Black), x, p) ELSE t

Delete5(t, s, near, far) ==
  IF s # 0 /\ IS_BLACK(t, s) /\ IS_BLACK(t, t.n[s][far]) /\ IS_RED(t, t.n[s][near])
    THEN IF near = "left" THEN rbt_rotate_right(Paint(Paint(t, s, Red), t.n[s].left, Black), s)
         ELSE rbt_rotate_left(Paint(Paint(t, s, Red), t.n[s].right, Black), s)
    ELSE t

Delete6(t, x, p, s, far) ==
  IF s = 0 THEN RotateTowards(Paint(t, p, Black), x, p)
  ELSE RotateTowards(Paint(Paint(Paint(t, s, t.n[p].color), p, Black), t.n[s][far], Black), x, p)

Delete56(t, x, p, s) ==
  IF x = t.n[p].left THEN Delete6(Delete5(t, s, "left", "right"), x, p, s, "right")
  ELSE Delete6(Delete5(t, s, "right", "left"), x, p, s, "left")

RECURSIVE rbt_paint_onremove(_, _)
Delete3(t, x, p, s) ==
  IF s # 0 /\ IS_BLACK(t, s) /\ IS_BLACK(t, t.n[s].left) /\ IS_BLACK(t, t.n[s].right)
    THEN IF IS_BLACK(t, p) THEN rbt_paint_onremove(Paint(t, s, Red), p)
         ELSE Paint(Paint(t, s, Red), p, Black)
    ELSE Delete56(t, x, p, s)
DeleteBelow(t, x, p, s) == Delete3(Delete2(t, x, p, s), x, p, s)
rbt_paint_onremove(t, x) ==
  IF Parent(t, x) = 0 THEN t ELSE DeleteBelow(t, x, Parent(t, x), rbt_sibling(t, x, Parent(t, x)))

Drop(t, k) == [t EXCEPT !.n = [y \in Nodes(t) \ {k} |-> t.n[y]]]

\* The node k takes over the key and value of m, and m is freed.
TakeOver(t, k, m) ==
  LET ren(y) == IF y = k THEN m ELSE y
      rec(r) == [r EXCEPT !.left = ren(@), !.right = ren(@), !.parent = ren(@)]
  IN [t EXCEPT !.root = ren(@),
               !.n = [y \in Nodes(t) \ {k} |->
                        rec(IF y = m THEN [t.n[k] EXCEPT !.value = t.n[m].value] ELSE t.n[y])]]

RECURSIVE Rightmost(_, _)
Rightmost(t, x) == IF t.n[x].right = 0 THEN x ELSE Rightmost(t, t.n[x].right)
RECURSIVE Leftmost(_, _)
Leftmost(t, x) == IF t.n[x].left = 0 THEN x ELSE Leftmost(t, t.n[x].left)

\* Which of prev and next is taken alternates from call to call.
IsPrev(t) == t.prevnext = 0
Substitute(t, k) == IF IsPrev(t) THEN Rightmost(t, t.n[k].left) ELSE Leftmost(t, t.n[k].right)
OrphanSide(t) == IF IsPrev(t) THEN "left" ELSE "right"

\* The child of the substitute m gets k as its parent wherever it was.
Relinked(t, k, m, child) ==
  TakeOver([SetParent(Replace(t, Parent(t, m), m, child), child, k) EXCEPT !.prevnext = 1 - @], k, m)
RemoveInner(t, k, m) == Relinked(t, k, m, t.n[m][OrphanSide(t)])

\* A node with one child or none.  The root pointer is left alone, even when k
\* is the root.
RemoveOuter(t, k, p, child) ==
  Drop(IF child = 0 \/ IS_RED(t, k) THEN SetParent(Replace(t, p, k, child), child, p)
       ELSE IF IS_RED(t, child) THEN Paint(SetParent(Replace(t, p, k, child), child, p), child, Black)
       ELSE rbt_paint_onremove(SetParent(Replace(t, p, k, child), child, p), child), k)

Child(n) == IF n.right # 0 THEN n.right ELSE n.left
HasBoth(t, k) == t.n[k].left # 0 /\ t.n[k].right # 0

rbt_remove(t, k) ==
  IF rbt_find(t, k) = 0 THEN t
  ELSE [IF HasBoth(t, k) THEN RemoveInner(t, k, Substitute(t, k))
        ELSE RemoveOuter(t, k, Parent(t, k), Child(t.n[k])) EXCEPT !.pristine = FALSE]

-----------------------------------------------------------------------------
(* Walking: cb gives the callback's answer for each key.  In the record of a *)
(* walk, rc is what the call returns, done says that it returns already, and *)
(* seen is history.                                                          *)

Start(t) == [t |-> t, rc |-> 1, done |-> FALSE, seen |-> <<>>]

\* The walk of a child: a zero makes the caller return, with one more.
Took(w, z) ==
  [t |-> z.t, rc |-> w.rc + (IF z.rc = 0 THEN 1 ELSE z.rc), done |-> z.rc = 0, seen |-> w.seen \o z.seen]

RECURSIVE rbt_walk_internal(_, _, _, _)
Below(w, x, sorted, cb) == IF w.done \/ x = 0 THEN w ELSE Took(w, rbt_walk_internal(w.t, x, sorted, cb))
Instead(w, t, x, sorted, cb) ==
  IF x = 0 THEN [w EXCEPT !.rc = 1, !.done = TRUE]
  ELSE [rbt_walk_internal(t, x, sorted, cb) EXCEPT !.seen = w.seen \o @, !.done = TRUE]

Answered(w, x, sorted, cb) ==
  CASE cb[x] = "continue" -> w
    [] cb[x] = "stop" -> [w EXCEPT !.rc = 0, !.done = TRUE]
    [] cb[x] = "delete and stop" -> [w EXCEPT !.t = rbt_remove(@, x), !.rc = 0, !.done = TRUE]
    [] cb[x] = "delete and continue" ->
         IF HasBoth(w.t, x) THEN Instead(w, rbt_remove(w.t, x), Substitute(w.t, x), sorted, cb)
         ELSE Instead(w, w.t, IF w.t.n[x].left # 0 THEN w.t.n[x].left ELSE w.t.n[x].right, sorted, cb)

Visited(w, x, sorted, cb) == IF w.done THEN w ELSE Answered([w EXCEPT !.seen = Append(@, x)], x, sorted, cb)
Right(w, x, sorted, cb) == IF w.done THEN w ELSE Below(w, w.t.n[x].right, sorted, cb)
Left(w, x, now, sorted, cb) == IF w.done \/ ~now THEN w ELSE Below(w, w.t.n[x].left, sorted, cb)
rbt_walk_internal(t, x, sorted, cb) ==
  Right(Left(Visited(Left(Start(t), x, sorted, sorted, cb), x, sorted, cb), x, ~sorted, sorted, cb), x, sorted, cb)

\* rbt_walk and rbt_walk_sorted.
rbt_walk(t, sorted, cb) ==
  IF t.root = 0 THEN [Start(t) EXCEPT !.rc = 0] ELSE rbt_walk_internal(t, t.root, sorted, cb)

-----------------------------------------------------------------------------

\* What rbt_remove unlinks correctly: it forgets to move the root pointer,
\* gives the substitute's child the wrong parent unless the substitute is a
\* child of k, and has nothing to rotate where a sibling is missing.
RECURSIVE FullAbove(_, _)
FullAbove(t, x) ==
  LET p == Parent(t, x) IN
  IF p = 0 THEN TRUE ELSE t.n[p].left # 0 /\ t.n[p].right # 0 /\ FullAbove(t, p)
Removable(t, k) ==
  IF HasBoth(t, k)
    THEN \E m \in {Substitute(t, k)} : IF Parent(t, m) = k THEN TRUE ELSE t.n[m][OrphanSide(t)] = 0
    ELSE /\ Parent(t, k) # 0
         /\ Child(t.n[k]) # 0 /\ IS_BLACK(t, k) /\ IS_BLACK(t, Child(t.n[k])) => FullAbove(t, k)

Answers(k, a) == [x \in Keys |-> IF x = k THEN a ELSE "continue"]

Init == tree = rbt_create
Add ==
  \E k \in Keys, v \in Versions :
    /\ Cardinality(Nodes(tree) \union {k}) <= MaxNodes
    /\ tree' = rbt_add(tree, k, <<k, v>>)
Remove_ ==
  \E k \in Keys :
    /\ Careful /\ k \in Nodes(tree) => Removable(tree, k)
    /\ tree' = rbt_remove(tree, k)

\* The callback asks for one node's removal.
Walk ==
  \E k \in Nodes(tree), sorted \in BOOLEAN, a \in {"delete and stop", "delete and continue"} :
    /\ Careful => Removable(tree, k)
    /\ tree' = rbt_walk(tree, sorted, Answers(k, a)).t

\* rbt_destroy and rbt_create.
Destroy == tree' = [rbt_create EXCEPT !.prevnext = tree.prevnext]

Next == Add \/ Remove_ \/ Walk \/ Destroy
Spec == Init /\ [][Next]_tree

-----------------------------------------------------------------------------
(* Properties. *)

RECURSIVE InOrder(_, _)
InOrder(t, x) == IF x = 0 THEN <<>> ELSE InOrder(t, t.n[x].left) \o <<x>> \o InOrder(t, t.n[x].right)
Kids(t, x) == {t.n[x].left, t.n[x].right} \ {0}

Linked(t) ==
  /\ t.root # 0 => t.root \in Nodes(t) /\ t.n[t.root].parent = 0
  /\ \A x \in Nodes(t) : Kids(t, x) \subseteq Nodes(t) /\ \A y \in Kids(t, x) : t.n[y].parent = x
  /\ InOrder(t, t.root) = SetToSortSeq(Nodes(t), <)

Map(t) == [k \in {k \in Keys : rbt_find(t, k) # 0} |-> t.n[k].value]
AddRight(map) ==
  \A k \in Keys, v \in Versions :
    Map(rbt_add(tree, k, <<k, v>>)) = [y \in DOMAIN map \union {k} |-> IF y = k THEN <<k, v>> ELSE map[y]]
RemoveRight(map) ==
  \A k \in Nodes(tree) :
    Removable(tree, k) => Map(rbt_remove(tree, k)) = [y \in DOMAIN map \ {k} |-> map[y]]

RECURSIVE BlackHeights(_, _)
BlackHeights(t, x) ==
  IF x = 0 THEN {0}
  ELSE {h + (IF IS_BLACK(t, x) THEN 1 ELSE 0) : h \in BlackHeights(t, t.n[x].left) \union BlackHeights(t, t.n[x].right)}
Colored(t) ==
  /\ IS_BLACK(t, t.root)
  /\ \A x \in Nodes(t) : IS_RED(t, x) => IS_BLACK(t, t.n[x].left) /\ IS_BLACK(t, t.n[x].right)
  /\ Cardinality(BlackHeights(t, t.root)) = 1

Complete(w) ==
  w.t = tree /\ w.rc = Len(w.seen) /\ Len(w.seen) = Cardinality(Nodes(tree)) /\ ToSet(w.seen) = Nodes(tree)
WalkRight ==
  /\ Complete(rbt_walk(tree, FALSE, Answers(0, "stop")))
  /\ \E w \in {rbt_walk(tree, TRUE, Answers(0, "stop"))} : Complete(w) /\ w.seen = SetToSortSeq(Nodes(tree), <)

\* After any additions, replacements, removals and walks that remove, every
\* node hangs below the root once, in search order, and knows its parent; the
\* next addition or removal changes that key alone; a walk that goes on visits
\* every node once and returns their number, rbt_walk_sorted in key order.  As
\* long as nothing was removed the colors are those of a red-black tree.
TreeRight ==
  /\ Linked(tree)
  /\ tree.pristine => Colored(tree)
  /\ \E map \in {Map(tree)} : AddRight(map) /\ RemoveRight(map)
  /\ WalkRight
=============================================================================
