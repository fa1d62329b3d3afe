------------------------------- MODULE PQueue --------------------------------
(***************************************************************************)
(* pqueue.c: a priority queue of bounded size on top of a binomial heap.   *)
(* Priorities are the heap's keys.  Every routine but pqueue_walk and      *)
(* pqueue_remove holds the queue's lock, so that one call is one step.     *)
(*                                                                         *)
(* A value is named by its priority.                                       *)
(***************************************************************************)
EXTENDS BinHeap

CONSTANT MaxSize   \* the size given to pqueue_create

\* The highest priority is the end the heap orders by, the lowest the other.
Highest(h) == h.mode = "max"
Lowest(h) == h.mode # "max"

\* Items are dropped at the lowest end until the size is back at its maximum.
RECURSIVE pqueue_drop_items(_, _)
pqueue_drop_items(h, max_size) ==
  IF h.count > max_size THEN pqueue_drop_items(binheap_delete_end(h, Lowest(h)), max_size) ELSE h

pqueue_insert(h, prio) == pqueue_drop_items(binheap_insert(h, prio, prio), MaxSize)

\* pqueue_remove compares the value with the heap's items, which are records of
\* its own: none is equal.
pqueue_remove(h) == binheap_walk(h, [x \in Keys |-> 1]).h

PQInsert == \E prio \in Keys : heap' = pqueue_insert(heap, prio)
PullHighest == heap' = binheap_delete_end(heap, Highest(heap))
PullLowest == heap' = binheap_delete_end(heap, Lowest(heap))
PQWalk == \E v \in Keys, rc \in {-2, 0} : heap' = binheap_walk(heap, Stopping(v, rc)).h
PQRemove == heap' = pqueue_remove(heap)

\* pqueue_destroy and pqueue_create.
PQDestroy == \E mode \in {"max", "min"} : heap' = [pqueue_drop_items(heap, 0) EXCEPT !.mode = mode]

PQNext == PQInsert \/ PullHighest \/ PullLowest \/ PQWalk \/ PQRemove \/ PQDestroy
PQSpec == Init /\ [][PQNext]_heap

-----------------------------------------------------------------------------

\* The best of a bag of items, by the heap's mode.
BestOf(h, items) == {x \in BagToSet(items) : \A y \in BagToSet(items) : HAS_PRECEDENCE(h.mode, x[1], y[1])}

\* An insertion into a full queue drops exactly one item and keeps the best.
InsertRight(prio, h, items) ==
  /\ h.count = IF heap.count < MaxSize THEN heap.count + 1 ELSE MaxSize
  /\ BagCardinality(Items(h)) = h.count /\ Items(h) \sqsubseteq items
  /\ MaxSize > 0 => BestOf(h, items) \subseteq BagToSet(Items(h))

\* The queue never holds more than its size; an insertion into a full queue
\* drops exactly one item, never the one of highest priority; and
\* pqueue_pull_highest takes that one, whatever was inserted, dropped, pulled
\* from either end or removed in a walk.
PQueueRight ==
  /\ heap.count <= MaxSize
  /\ BestAtHead
  /\ \A prio \in Keys : InsertRight(prio, pqueue_insert(heap, prio), Items(heap) (+) OneItem(prio, prio))
  /\ heap.count > 0 => ItemAt(heap, binheap_get(heap, Highest(heap))) \in BestOf(heap, Items(heap))
=============================================================================
