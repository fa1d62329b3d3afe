---------------------------- MODULE MCContainers ----------------------------
(***************************************************************************)
(* Small instances of the containers that are used by one caller at a      *)
(* time, checked in one run: kind says which instance a behaviour is of.   *)
(***************************************************************************)
EXTENDS Integers, SequencesExt

VARIABLES kind, s, t

vars == <<kind, s, t>>

\* linklist.c: lists of up to three values, without slices; lists of two with
\* up to two slices; and sorting every sequence of up to six of four values.
List == INSTANCE LinkSort WITH Values <- 1 .. 3, MaxLen <- 3, MaxSlices <- 0, Careful <- TRUE, list <- s, slices <- t
Slice == INSTANCE LinkSort WITH Values <- {1}, MaxLen <- 2, MaxSlices <- 2, Careful <- TRUE, list <- s, slices <- t
Long == INSTANCE LinkSort WITH Values <- 1 .. 4, MaxLen <- 6, MaxSlices <- 0, Careful <- TRUE, list <- s, slices <- t

InitLong ==
  \E n \in 0 .. 6 : \E z \in [1 .. n -> 1 .. 4] :
    s = FoldLeft(LAMBDA l, v : Long!PushValue(l, v), Long!EmptyList, z) /\ t = <<>>

\* fbuf.c: sizes scaled down so that contents of up to five bytes pass the
\* minimum, the fast growth and two slow growths.
Buf == INSTANCE FBuf WITH Letter <- "a", Space <- " ", Newline <- "n", Return <- "r", End <- "0", Junk <- "?",
  Texts <- {<<"a">>, <<" ", "a">>, <<"a", "a", "n">>}, Minlen <- 2, Fastgrow <- 3, Slowgrow <- 1, LineEst <- 1,
  Maxlens <- {0, 3}, Minlens <- {1, 2}, MaxUsed <- 4, Careful <- TRUE, fbuf <- s

\* binheap.c: heaps of up to four items, so that trees of all orders up to 2 are
\* merged; pqueue.c: queues of up to four.
Heap == INSTANCE BinHeap WITH Keys <- 0 .. 2, MaxCount <- 4, MaxChanged <- 1, Careful <- TRUE, heap <- s
PQ == INSTANCE PQueue WITH Keys <- 0 .. 2, MaxCount <- 4, MaxChanged <- 0, MaxSize <- 4, Careful <- TRUE, heap <- s

\* rbtree.c and avltree.c: enough keys for double rotations, and in an AVL tree
\* for nodes put between a node and its parent, with a leaf there or without.
RB == INSTANCE RBTree WITH Keys <- 1 .. 5, Versions <- {0}, MaxNodes <- 5, Careful <- TRUE, tree <- s
AVL == INSTANCE AVLTree WITH Keys <- 1 .. 8, MaxNodes <- 8, tree <- s

\* skiplist.c: two layers, where clients may remove, and three.
Skip2 == INSTANCE SkipList WITH Keys <- 1 .. 4, Values <- {0, 1}, Layers <- 2, skl <- s
Skip3 == INSTANCE SkipList WITH Keys <- 1 .. 4, Values <- {0}, Layers <- 3, skl <- s

\* trie.c: a key that is a prefix of others, and branches to prune.
Prefix == INSTANCE Trie WITH Keys <- {<<1>>, <<1, 1, 1>>, <<1, 1, 2>>, <<2, 1, 1>>}, Values <- {1, 2}, trie <- s

\* graph.c: choosers that refuse, and two weights to choose between.
Net == INSTANCE Graph WITH Labels <- {1, 2}, Weights <- {-1, 1, 2}, MaxConns <- 2, graph <- s

\* comparators.h: keys narrower than an int, as wide and wider.
Cmp == INSTANCE Comparators WITH IntBits <- 3, TypeBits <- {2, 3, 5}, call <- s

Init ==
  \/ kind = "list" /\ List!Init
  \/ kind = "slice" /\ Slice!Init
  \/ kind = "long" /\ InitLong
  \/ kind = "buf" /\ Buf!Init /\ t = <<>>
  \/ kind = "heap" /\ Heap!Init /\ t = <<>>
  \/ kind = "pqueue" /\ PQ!Init /\ t = <<>>
  \/ kind = "rbtree" /\ RB!Init /\ t = <<>>
  \/ kind = "avltree" /\ AVL!Init /\ t = <<>>
  \/ kind = "skip2" /\ Skip2!Init /\ t = <<>>
  \/ kind = "skip3" /\ Skip3!Init /\ t = <<>>
  \/ kind = "trie" /\ Prefix!Init /\ t = <<>>
  \/ kind = "graph" /\ Net!Init /\ t = <<>>
  \/ kind = "cmp" /\ Cmp!Init /\ t = <<>>

Next ==
  \/ kind = "list" /\ (List!Next \/ List!Sort) /\ UNCHANGED kind
  \/ kind = "slice" /\ Slice!Next /\ UNCHANGED kind
  \/ kind = "long" /\ Long!Sort /\ UNCHANGED kind
  \/ kind = "buf" /\ Buf!Next /\ UNCHANGED <<kind, t>>
  \/ kind = "heap" /\ Heap!Next /\ UNCHANGED <<kind, t>>
  \/ kind = "pqueue" /\ PQ!PQNext /\ UNCHANGED <<kind, t>>
  \/ kind = "rbtree" /\ RB!Next /\ UNCHANGED <<kind, t>>
  \/ kind = "avltree" /\ AVL!Next /\ UNCHANGED <<kind, t>>
  \/ kind = "skip2" /\ Skip2!Next /\ UNCHANGED <<kind, t>>
  \/ kind = "skip3" /\ Skip3!Next /\ UNCHANGED <<kind, t>>
  \/ kind = "trie" /\ Prefix!Next /\ UNCHANGED <<kind, t>>
  \/ kind = "graph" /\ Net!Next /\ UNCHANGED <<kind, t>>
  \/ kind = "cmp" /\ Cmp!Next /\ UNCHANGED <<kind, t>>

Spec == Init /\ [][Next]_vars

-----------------------------------------------------------------------------

\* linklist.c: links, head, tail, length and the remembered entry describe one
\* list after any calls.
ListOneChain == /\ kind = "list" => List!OneChain
                /\ kind = "slice" => Slice!OneChain

\* linklist.c: picking, inserting, fetching, moving and swapping by position
\* treat the list as a sequence, whatever is remembered.
ListEditsRight == kind = "list" => List!EditsRight

\* linklist.c: list_sort leaves one chain, the same values, in order.
ListSortRight == /\ kind = "list" => List!SortRight
                 /\ kind = "long" => Long!SortRight

\* fbuf.c: sizes, terminator and limit are right after any calls; adding,
\* resizing, removing and trimming do to the content what they say, or nothing.
BufRight == kind = "buf" => Buf!Sound /\ Buf!EditsRight

\* binheap.c and pqueue.c: whatever was inserted, deleted at either end or
\* changed, the heap holds exactly its items with the best at the head; a full
\* queue drops one item and never the best.
HeapsRight == /\ kind = "heap" => Heap!HeapRight
              /\ kind = "pqueue" => PQ!PQueueRight

\* rbtree.c and avltree.c: after any additions and removals the nodes form one
\* search tree with the colours or heights it should have, and every further
\* call changes one key.
TreesRight == /\ kind = "rbtree" => RB!TreeRight
              /\ kind = "avltree" => AVL!AVLRight

\* skiplist.c: whatever the coins, the list is sorted, complete and searchable,
\* and linked to nothing freed.
SkipListRight == /\ kind = "skip2" => Skip2!SkipRight
                 /\ kind = "skip3" => Skip3!SkipRight

\* trie.c: nodes and counts are those of the stored keys; a call changes one
\* key and lets go of exactly its old value.
TrieExact == kind = "trie" => Prefix!TrieRight

\* graph.c: connections lead to nodes of the graph, and the next node is the
\* documented choice.
GraphSound == kind = "graph" => Net!GraphRight

\* comparators.h: keys less than half the range of int apart compare as numbers.
KeysOrdered == kind = "cmp" => Cmp!CmpOrders
=============================================================================
