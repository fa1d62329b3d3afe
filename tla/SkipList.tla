------------------------------ MODULE SkipList -------------------------------
(***************************************************************************)
(* skiplist.c: a sorted map kept as layers of tail queues.                 *)
(*                                                                         *)
(* An item is named by its key, a number above 0.  <<k, i>> is the wrapper *)
(* of item k for layer i and also the place of that wrapper's tqe_next;    *)
(* <<0, i>> is the place of the first pointer of layer i.                  *)
(***************************************************************************)
EXTENDS Integers, SequencesExt

CONSTANTS
  Keys,      \* the keys clients use
  Values,    \* the values they store
  Layers     \* num_layers

VARIABLE skl

Top == Layers - 1
NULL == <<>>

\* next maps a place to the wrapper it points to, tqe_prev a wrapper to the
\* place that points to it, and tqh_last a layer to its last place.
skiplist_create ==
  [next |-> [p \in {0} \X (0 .. Top) |-> NULL],
   tqe_prev |-> <<>>,
   tqh_last |-> [i \in 0 .. Top |-> <<0, i>>],
   value |-> <<>>,         \* the items' values
   height |-> <<>>,        \* how many layers an item is in: layer_check
   count |-> 0]

-----------------------------------------------------------------------------
(* The tail queues of bsd_queue.h. *)

TAILQ_INSERT_AFTER(s, i, listelm, elm) ==
  [(IF s.next[listelm] # NULL THEN [s EXCEPT !.tqe_prev[s.next[listelm]] = elm]
                              ELSE [s EXCEPT !.tqh_last[i] = elm])
     EXCEPT !.next[elm] = s.next[listelm], !.next[listelm] = elm, !.tqe_prev[elm] = listelm]

TAILQ_INSERT_TAIL(s, i, elm) ==
  [s EXCEPT !.next[elm] = NULL, !.tqe_prev[elm] = s.tqh_last[i],
            !.next[s.tqh_last[i]] = elm, !.tqh_last[i] = elm]

TAILQ_REMOVE(s, i, elm) ==
  [(IF s.next[elm] # NULL THEN [s EXCEPT !.tqe_prev[s.next[elm]] = s.tqe_prev[elm]]
                          ELSE [s EXCEPT !.tqh_last[i] = s.tqe_prev[elm]])
     EXCEPT !.next[s.tqe_prev[elm]] = s.next[elm]]

-----------------------------------------------------------------------------
(* Searching. *)

\* The last wrapper whose key is not above k, from place p on; prev_item if
\* there is none.
RECURSIVE Along(_, _, _, _)
Along(s, k, p, prev_item) ==
  IF s.next[p] = NULL \/ s.next[p][1] > k THEN prev_item ELSE Along(s, k, s.next[p], s.next[p])

\* The path of a search, from the top layer down.  A layer in which there was
\* nothing to pass keeps the wrapper of the layer above; item 0 stands for NULL.
skiplist_search_internal(s, k) ==
  LET path[i \in 0 .. Top] ==
        LET prev_item == IF i = Top THEN <<0, Top>> ELSE path[i + 1]
        IN  Along(s, k, <<prev_item[1], i>>, prev_item)
  IN  path

Found(s, k) == skiplist_search_internal(s, k)[0][1] = k
skiplist_search(s, k) == IF Found(s, k) THEN s.value[k] ELSE NULL

-----------------------------------------------------------------------------
(* Inserting and removing. *)

Link(s, i, prev, elm) ==
  IF prev[1] = 0 THEN TAILQ_INSERT_TAIL(s, i, elm) ELSE TAILQ_INSERT_AFTER(s, i, prev, elm)

\* A new item, its wrappers not linked yet.
Created(s, k, v, height) ==
  [s EXCEPT !.next = [p \in DOMAIN s.next \union {k} \X (0 .. Top) |-> IF p[1] = k THEN NULL ELSE s.next[p]],
            !.tqe_prev = [p \in DOMAIN s.tqe_prev \union {k} \X (0 .. Top) |->
                            IF p[1] = k THEN NULL ELSE s.tqe_prev[p]],
            !.value = [x \in DOMAIN s.value \union {k} |-> IF x = k THEN v ELSE s.value[x]],
            !.height = [x \in DOMAIN s.value \union {k} |-> IF x = k THEN height ELSE s.height[x]]]

\* Coins are tossed until one is lost: height is the number of layers.
skiplist_insert(s, k, v, height) ==
  LET path == skiplist_search_internal(s, k)
  IN  IF path[0][1] = k THEN [s EXCEPT !.value[k] = v]
      ELSE FoldLeft(LAMBDA t, i : Link(t, i, path[i], <<k, i>>),
                    [Link(Created(s, k, v, height), 0, <<path[0][1], 0>>, <<k, 0>>) EXCEPT !.count = @ + 1],
                    [i \in 1 .. height - 1 |-> i])

Freed(s, k) ==
  [s EXCEPT !.next = [p \in {q \in DOMAIN s.next : q[1] # k} |-> s.next[p]],
            !.tqe_prev = [p \in {q \in DOMAIN s.tqe_prev : q[1] # k} |-> s.tqe_prev[p]],
            !.value = [x \in DOMAIN s.value \ {k} |-> s.value[x]],
            !.height = [x \in DOMAIN s.value \ {k} |-> s.height[x]]]

skiplist_remove_internalBottomOnly(s, k) == Freed(TAILQ_REMOVE(s, 0, <<k, 0>>), k)

skiplist_remove_internal(s, k) ==
  Freed(FoldLeft(LAMBDA t, i : TAILQ_REMOVE(t, i - 1, <<k, i - 1>>), s, [i \in 1 .. s.height[k] |-> i]), k)

skiplist_remove(s, k) ==
  IF Found(s, k) THEN [skiplist_remove_internal(s, k) EXCEPT !.count = @ - 1] ELSE s

\* What TAILQ_FOREACH visits in a layer.
RECURSIVE From(_, _)
From(s, p) == IF s.next[p] = NULL THEN <<>> ELSE <<s.next[p]>> \o From(s, s.next[p])
Layer(s, i) == From(s, <<0, i>>)

skiplist_destroy(s) == FoldLeft(LAMBDA t, w : skiplist_remove_internal(t, w[1]), s, Layer(s, 0))

-----------------------------------------------------------------------------

\* Clients insert no key below all the stored ones, since such a key is put at
\* the end of layer 0.  With three layers or more they remove nothing: a wrapper
\* can be linked behind one of another layer, and removing that leaves tqh_last
\* pointing to a freed item.
Insertable(k) == skl.count = 0 \/ \E x \in DOMAIN skl.value : x <= k
Removable == Layers <= 2

Init == skl = skiplist_create
Insert == \E k \in Keys, v \in Values, height \in 1 .. Layers :
            Insertable(k) /\ skl' = skiplist_insert(skl, k, v, height)
Remove_ == Removable /\ \E k \in Keys : skl' = skiplist_remove(skl, k)

\* skiplist_destroy, then a new list; SkipRight says that nothing is left of
\* the old one.
Destroy == skl' = [skiplist_create EXCEPT !.value = skiplist_destroy(skl).value]

Next == Insert \/ Remove_ \/ Destroy
Spec == Init /\ [][Next]_skl

-----------------------------------------------------------------------------

\* Every link forward leads to an item that is still there, layer 0 holds the
\* items in order, each once, and a search finds exactly them.
IsMap(s) ==
  LET bottom == [i \in 1 .. Len(Layer(s, 0)) |-> Layer(s, 0)[i][1]]
  IN  /\ \A p \in DOMAIN s.next : s.next[p] # NULL => s.next[p] \in DOMAIN s.next
      /\ s.count = Len(bottom) /\ ToSet(bottom) = DOMAIN s.value
      /\ \A i \in 2 .. Len(bottom) : bottom[i - 1] < bottom[i]
      /\ \A k \in Keys : Found(s, k) <=> k \in DOMAIN s.value

\* Nor do the tails of the layers and the links back lead to a freed item.
NoneFreed(s) ==
  /\ \A i \in 0 .. Top : s.tqh_last[i] \in DOMAIN s.next
  /\ \A p \in DOMAIN s.tqe_prev : p[2] < s.height[p[1]] => s.tqe_prev[p] \in DOMAIN s.next

\* Whatever the coins and whatever layer a wrapper ended up in, the items are
\* sorted, counted, found and linked to nothing freed; an insertion stores and
\* a removal takes away one key and nothing else, and skiplist_destroy frees
\* every item.
SkipRight ==
  /\ IsMap(skl) /\ NoneFreed(skl)
  /\ \A k \in Keys, v \in Values, height \in 1 .. Layers :
       Insertable(k) => LET s == skiplist_insert(skl, k, v, height) IN
         IsMap(s) /\ s.value = [x \in DOMAIN skl.value \union {k} |-> IF x = k THEN v ELSE skl.value[x]]
  /\ \A k \in Keys :
       LET s == skiplist_remove(skl, k) IN
         IsMap(s) /\ s.value = [x \in DOMAIN skl.value \ {k} |-> skl.value[x]]
  /\ skiplist_destroy(skl).value = <<>>
=============================================================================
