------------------------------- MODULE AVLTree -------------------------------
(***************************************************************************)
(* avltree.c: a height-balanced binary search tree whose nodes know their  *)
(* parents and the heights of their subtrees.                              *)
(*                                                                         *)
(* No two nodes have the same key, so a node is named by its key, a number *)
(* above 0; 0 is NULL.  When avlt_remove exchanges the contents of two     *)
(* nodes, the nodes are renamed.                                           *)
(***************************************************************************)
EXTENDS Integers, SequencesExt

CONSTANTS
  Keys,       \* the keys clients use
  MaxNodes    \* the most nodes at a time

VARIABLE tree

Node == [left |-> 0, right |-> 0, parent |-> 0, hl |-> 0, hr |-> 0]
avlt_create == [root |-> 0, n |-> <<>>]

Nodes(t) == DOMAIN t.n
Left(t, x) == t.n[x].left
Right(t, x) == t.n[x].right
Parent(t, x) == t.n[x].parent
Larger(a, b) == IF a > b THEN a ELSE b
\* What the code stores as the height of a subtree.
Height(t, x) == IF x = 0 THEN 0 ELSE Larger(t.n[x].hl, t.n[x].hr) + 1
Factor(t, x) == t.n[x].hl - t.n[x].hr
SetParent(t, x, p) == IF x = 0 THEN t ELSE [t EXCEPT !.n[x].parent = p]

-----------------------------------------------------------------------------
(* Rotations: the child y on one side of x takes x's place.  The root is     *)
(* left to the caller.                                                       *)

Hung(t, x, y, p) ==
  IF p = 0 THEN t
  ELSE IF Left(t, p) = x THEN [t EXCEPT !.n[p].left = y, !.n[p].hl = Height(t, y)]
  ELSE [t EXCEPT !.n[p].right = y, !.n[p].hr = Height(t, y)]

Up(t, x, y, h, p) == Hung([t EXCEPT !.n[y][h] = Height(t, x)], x, y, p)
Rotate(t, x, y, z, side, h, other, g) ==
  Up([SetParent(t, z, x) EXCEPT
        !.n[x] = [t.n[x] EXCEPT ![side] = z, ![h] = Height(t, z), !.parent = y],
        !.n[y] = [t.n[y] EXCEPT ![other] = x, !.parent = Parent(t, x)]], x, y, g, Parent(t, x))

avlt_rotate_left(t, x) ==
  IF Right(t, x) = 0 THEN t
  ELSE Rotate(t, x, Right(t, x), Left(t, Right(t, x)), "right", "hr", "left", "hl")
avlt_rotate_right(t, x) ==
  IF Left(t, x) = 0 THEN t
  ELSE Rotate(t, x, Left(t, x), Right(t, Left(t, x)), "left", "hl", "right", "hr")

-----------------------------------------------------------------------------
(* Balancing, from a node up to the root. *)

Measured(t, x) == [t EXCEPT !.n[x].hl = Height(t, Left(t, x)), !.n[x].hr = Height(t, Right(t, x))]
RerootedNever(t, x) == t
Rerooted(t, x) == IF t.root = x THEN [t EXCEPT !.root = Parent(t, x)] ELSE t

RotateOnce(t, x) ==
  IF Factor(t, x) <= -2
    THEN Rerooted(avlt_rotate_left(IF Factor(t, Right(t, x)) = 1 THEN avlt_rotate_right(t, Right(t, x)) ELSE t, x), x)
    ELSE Rerooted(avlt_rotate_right(IF Factor(t, Left(t, x)) = -1 THEN avlt_rotate_left(t, Left(t, x)) ELSE t, x), x)

RECURSIVE avlt_balance(_, _)
Climb(t, x) == avlt_balance(t, IF Factor(t, x) \in -1 .. 1 THEN Parent(t, x) ELSE x)
Balanced(t, x) == IF Factor(t, x) \in -1 .. 1 THEN avlt_balance(t, Parent(t, x)) ELSE Climb(RotateOnce(t, x), x)
avlt_balance(t, x) == IF x = 0 THEN t ELSE Balanced(Measured(t, x), x)

-----------------------------------------------------------------------------
(* Adding. *)

With(t, k, node) == [t EXCEPT !.n = [x \in Nodes(t) \union {k} |-> IF x = k THEN node ELSE t.n[x]]]

\* The new node takes the place of the child c of cur; c hangs on one side of
\* it and, if its key is beyond k, the inner child z of c on the other.
Swapped(t, cur, c, z, k, side, h, other, g, beyond) ==
  IF beyond
    THEN [With(SetParent(t, z, k), k, [Node EXCEPT !.parent = cur, ![side] = c, ![h] = Height(t, c),
                                                   ![other] = z, ![g] = Height(t, z)])
            EXCEPT !.n[cur][side] = k, !.n[c].parent = k, !.n[c][other] = 0, !.n[c][g] = 0]
    ELSE [With(t, k, [Node EXCEPT !.parent = cur, ![side] = c, ![h] = Height(t, c)])
            EXCEPT !.n[cur][side] = k, !.n[c].parent = k]

RECURSIVE AddBelow(_, _, _)
AddLeft(t, cur, c, k) ==
  IF c = 0 THEN avlt_balance([With(t, k, [Node EXCEPT !.parent = cur]) EXCEPT !.n[cur].left = k, !.n[cur].hl = @ + 1], cur)
  ELSE IF c > k THEN AddBelow(t, c, k)
  ELSE IF c < k /\ Right(t, c) # k
    THEN avlt_balance(Swapped(t, cur, c, Right(t, c), k, "left", "hl", "right", "hr", Right(t, c) > k), c)
  ELSE t
AddRight(t, cur, c, k) ==
  IF c = 0 THEN avlt_balance([With(t, k, [Node EXCEPT !.parent = cur]) EXCEPT !.n[cur].right = k, !.n[cur].hr = @ + 1], cur)
  ELSE IF c < k THEN AddBelow(t, c, k)
  ELSE IF c > k /\ Left(t, c) # k
    THEN avlt_balance(Swapped(t, cur, c, Left(t, c), k, "right", "hr", "left", "hl", Left(t, c) \in 1 .. k - 1), c)
  ELSE t
AddBelow(t, cur, k) ==
  IF k < cur THEN AddLeft(t, cur, Left(t, cur), k)
  ELSE IF k > cur THEN AddRight(t, cur, Right(t, cur), k) ELSE t

avlt_add(t, k) == IF t.root = 0 THEN [With(t, k, Node) EXCEPT !.root = k] ELSE AddBelow(t, t.root, k)

-----------------------------------------------------------------------------
(* Removing. *)

RECURSIVE Leftmost(_, _)
Leftmost(t, x) == IF Left(t, x) = 0 THEN x ELSE Leftmost(t, Left(t, x))
RECURSIVE Rightmost(_, _)
Rightmost(t, x) == IF Right(t, x) = 0 THEN x ELSE Rightmost(t, Right(t, x))
avlt_find_next(t, x) == Leftmost(t, Right(t, x))
avlt_find_prev(t, x) == Rightmost(t, Left(t, x))

\* Nodes a and b exchange key and value, which are their names here.
Exchange(t, a, b) ==
  LET new(x) == IF x = a THEN b ELSE IF x = b THEN a ELSE x
  IN  [root |-> new(t.root),
       n |-> [x \in Nodes(t) |-> [t.n[new(x)] EXCEPT !.left = new(@), !.right = new(@), !.parent = new(@)]]]

Without(t, k) == [t EXCEPT !.n = [x \in Nodes(t) \ {k} |-> t.n[x]]]
Replace(t, p, x, y) == IF Left(t, p) = x THEN [t EXCEPT !.n[p].left = y] ELSE [t EXCEPT !.n[p].right = y]

\* A node with at most one child c goes; its parent p takes the child.
Unlink(t, x, c, p) ==
  Without(IF p = 0 THEN [SetParent(t, c, 0) EXCEPT !.root = c]
          ELSE avlt_balance(SetParent(Replace(t, p, x, c), c, p), p), x)
UnlinkOne(t, x) == Unlink(t, x, IF Left(t, x) # 0 THEN Left(t, x) ELSE Right(t, x), Parent(t, x))

RECURSIVE FindIn(_, _, _)
FindIn(t, x, k) == IF x = 0 \/ x = k THEN x ELSE FindIn(t, IF x < k THEN Right(t, x) ELSE Left(t, x), k)

avlt_remove(t, k) ==
  IF FindIn(t, t.root, k) = 0 THEN t
  ELSE IF Left(t, k) = 0 \/ Right(t, k) = 0 THEN UnlinkOne(t, k)
  ELSE UnlinkOne(Exchange(t, k, IF t.n[k].hl > t.n[k].hr THEN avlt_find_prev(t, k) ELSE avlt_find_next(t, k)), k)

-----------------------------------------------------------------------------
(* Walking. *)

NonNull(s) == SelectSeq(s, LAMBDA x : x # 0)

\* avlt_walk visits nodes in the order of a queue.
RECURSIVE Visits(_, _)
Visits(t, queue) ==
  IF queue = <<>> THEN <<>>
  ELSE <<Head(queue)>> \o Visits(t, Tail(queue) \o NonNull(<<Left(t, Head(queue)), Right(t, Head(queue))>>))
avlt_walk(t) == Visits(t, NonNull(<<t.root>>))

\* avlt_walk_sorted visits them by key.
RECURSIVE InOrder(_, _)
InOrder(t, x) == IF x = 0 THEN <<>> ELSE InOrder(t, Left(t, x)) \o <<x>> \o InOrder(t, Right(t, x))
avlt_walk_sorted(t) == InOrder(t, t.root)

RECURSIVE avlt_destroy(_)
avlt_destroy(t) == IF t.root = 0 THEN t ELSE avlt_destroy(avlt_remove(t, t.root))

-----------------------------------------------------------------------------

Simple(t, x) == IF x = 0 THEN TRUE ELSE Left(t, x) = 0 /\ Right(t, x) = 0

\* Whether a node that takes another's place finds a leaf or nothing between
\* the two.  With a larger subtree there the code leaves nodes on the wrong side
\* or does not notice the key deeper in it.
RECURSIVE Insertable(_, _, _)
Insertable(t, x, k) ==
  LET c == IF k < x THEN Left(t, x) ELSE Right(t, x)
      on == IF k < x THEN c > k ELSE c < k
  IN  IF x \in {0, k} THEN TRUE ELSE IF c \in {0, k} THEN TRUE
      ELSE IF on THEN Insertable(t, c, k) ELSE Simple(t, IF k < x THEN Right(t, c) ELSE Left(t, c))

Init == tree = avlt_create
Add == \E k \in Keys : /\ Cardinality(Nodes(tree) \union {k}) <= MaxNodes
                       /\ Insertable(tree, tree.root, k)
                       /\ tree' = avlt_add(tree, k)
Remove_ == \E k \in Keys : tree' = avlt_remove(tree, k)

\* A walk whose callback asks to remove an item and stop.
Walk == \E k \in ToSet(avlt_walk(tree)) : tree' = avlt_remove(tree, k)
Destroy == tree' = avlt_destroy(tree)
Next == Add \/ Remove_ \/ Walk \/ Destroy
Spec == Init /\ [][Next]_tree

-----------------------------------------------------------------------------

\* A search tree of the given keys: ordered, every link matched by the one back,
\* every height the real one, no node out of balance.
RECURSIVE Depth(_, _)
Depth(t, x) == IF x = 0 THEN 0 ELSE Larger(Depth(t, Left(t, x)), Depth(t, Right(t, x))) + 1
IsAVL(t, keys) ==
  /\ Nodes(t) = keys /\ (t.root = 0 \/ Parent(t, t.root) = 0)
  /\ Len(InOrder(t, t.root)) = Cardinality(keys) /\ ToSet(InOrder(t, t.root)) = keys
  /\ \A i \in 2 .. Len(InOrder(t, t.root)) : InOrder(t, t.root)[i - 1] < InOrder(t, t.root)[i]
  /\ \A x \in keys : /\ \A c \in {Left(t, x), Right(t, x)} \ {0} : Parent(t, c) = x
                     /\ t.n[x].hl = Depth(t, Left(t, x)) /\ t.n[x].hr = Depth(t, Right(t, x))
                     /\ Factor(t, x) \in -1 .. 1

\* After any additions and removals the tree is a balanced search tree whose
\* stored heights are exact; a further addition or removal changes one key; both
\* walks visit every key once, and avlt_destroy removes all.
AVLRight ==
  /\ IsAVL(tree, Nodes(tree))
  /\ \A k \in Keys : /\ Insertable(tree, tree.root, k) => IsAVL(avlt_add(tree, k), Nodes(tree) \union {k})
                     /\ IsAVL(avlt_remove(tree, k), Nodes(tree) \ {k})
  /\ ToSet(avlt_walk(tree)) = Nodes(tree) /\ Len(avlt_walk(tree)) = Cardinality(Nodes(tree))
  /\ avlt_destroy(tree) = avlt_create
=============================================================================
