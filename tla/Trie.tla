-------------------------------- MODULE Trie ---------------------------------
(***************************************************************************)
(* trie.c: a map from strings to values kept as a prefix tree.             *)
(*                                                                         *)
(* A node is named by the string that leads to it, a sequence of           *)
(* characters; the root is the empty one.                                  *)
(***************************************************************************)
EXTENDS Integers, SequencesExt

CONSTANTS
  Keys,      \* the keys clients use, sequences of characters
  Values     \* the values clients store, numbers above 0

VARIABLE trie

Root == <<>>
NULL == 0

EmptyNode == [value |-> NULL, is_copy |-> FALSE, num_children |-> 0]

\* released are the values a call passes to free_value_cb, freed the copies it
\* frees, with their keys; between calls both are empty.  The root is not
\* counted in node_count.
trie_create == [node |-> [n \in {Root} |-> EmptyNode], count |-> 0, node_count |-> 0,
                released |-> {}, freed |-> {}]

Nodes(t) == DOMAIN t.node
Below(t, n) == {m \in Nodes(t) : IsPrefix(n, m)}
Quiet(t) == [t EXCEPT !.released = {}, !.freed = {}]

\* The values of some nodes go: copies are freed, others given to the callback.
Drop(t, nodes, callback) ==
  LET going(copy) == {<<n, t.node[n].value>> : n \in {m \in nodes : t.node[m].value # NULL /\ t.node[m].is_copy = copy}}
  IN  [t EXCEPT !.freed = @ \union going(TRUE), !.released = IF callback THEN @ \union going(FALSE) ELSE @]

-----------------------------------------------------------------------------

RECURSIVE KeptToBranch(_, _)
KeptToBranch(t, n) == IF n = Root \/ t.node[n].num_children > 1 THEN n ELSE KeptToBranch(t, Front(n))

\* The closest of n and its ancestors that stays: the root, a node with a value
\* or one with other children.
RECURSIVE Kept(_, _)
Kept(t, n) ==
  IF n = Root \/ t.node[n].value # NULL \/ t.node[n].num_children > 1 THEN n ELSE Kept(t, Front(n))

\* A node is destroyed with all nodes below it and the empty ones above it.
trie_node_destroy(t, n, callback) ==
  LET top == Kept(t, Front(n))
      gone == Below(t, n) \union {m \in Nodes(t) : IsStrictPrefix(top, m) /\ IsStrictPrefix(m, n)}
  IN  [Drop(t, Below(t, n), callback) EXCEPT
         !.node = [m \in Nodes(t) \ gone |->
                     IF m = top THEN [t.node[m] EXCEPT !.num_children = @ - 1] ELSE t.node[m]],
         !.count = @ - Cardinality({m \in Below(t, n) : t.node[m].value # NULL}),
         !.node_count = @ - Cardinality(gone)]

trie_node_set_value(t, n, v, copy) ==
  [Drop(t, {n}, TRUE) EXCEPT !.node[n].value = v, !.node[n].is_copy = copy]

-----------------------------------------------------------------------------

trie_find_internal(t, k) == k \in Nodes(t)
trie_find(t, k) == IF trie_find_internal(t, k) THEN t.node[k].value ELSE NULL

NewNodes(t, k) == Prefixes(k) \ Nodes(t)

\* Missing nodes are added down to the key; the key is counted when there were
\* some.
trie_insert(t, k, v, copy) ==
  LET new == NewNodes(t, k)
      children(n) == IF n \in Nodes(t) THEN t.node[n].num_children ELSE 0
      more(n) == IF \E m \in new : Front(m) = n THEN 1 ELSE 0
  IN  trie_node_set_value(
        [t EXCEPT !.node = [n \in Nodes(t) \union new |->
                     [(IF n \in Nodes(t) THEN t.node[n] ELSE EmptyNode) EXCEPT !.num_children = children(n) + more(n)]],
                  !.count = IF new # {} THEN @ + 1 ELSE @,
                  !.node_count = @ + Cardinality(new)],
        k, v, copy)

\* out says whether the caller takes the value; then the callback is not called.
trie_remove(t, k, out) == IF trie_find_internal(t, k) THEN trie_node_destroy(t, k, ~out) ELSE t

trie_find_or_insert(t, k, v, copy) == IF trie_find_internal(t, k) THEN t ELSE trie_insert(t, k, v, copy)

trie_find_and_insert(t, k, v, copy) ==
  IF trie_find_internal(t, k) THEN trie_node_set_value(t, k, v, copy) ELSE trie_insert(t, k, v, copy)

-----------------------------------------------------------------------------

Stored(t) == {n \in Nodes(t) : t.node[n].value # NULL}

\* Clients do not add or remove a key that is a proper prefix of a stored one:
\* the code does not count the first, and with the second removes all keys it
\* is a prefix of.
Usable(k) == \A s \in Stored(trie) : ~IsStrictPrefix(k, s)

Init == trie = trie_create
Insert == \E k \in Keys, v \in Values, copy \in BOOLEAN : Usable(k) /\ trie' = Quiet(trie_insert(trie, k, v, copy))
FindOrInsert == \E k \in Keys, v \in Values, copy \in BOOLEAN :
                  Usable(k) /\ trie' = Quiet(trie_find_or_insert(trie, k, v, copy))
FindAndInsert == \E k \in Keys, v \in Values, copy \in BOOLEAN :
                   Usable(k) /\ trie' = Quiet(trie_find_and_insert(trie, k, v, copy))
Remove_ == \E k \in Keys, out \in BOOLEAN : Usable(k) /\ trie' = Quiet(trie_remove(trie, k, out))

\* trie_destroy, and trie_create for the next trie.
trie_destroy(t) == Drop(t, Nodes(t), TRUE)
Destroy == trie' = trie_create

Next == Destroy \/ Insert \/ FindOrInsert \/ FindAndInsert \/ Remove_
Spec == Init /\ [][Next]_trie

-----------------------------------------------------------------------------

\* The nodes are the prefixes of the stored keys, and all counts are right.
Exact(t) ==
  /\ Nodes(t) = {Root} \union UNION {Prefixes(k) : k \in Stored(t)}
  /\ t.count = Cardinality(Stored(t)) /\ t.node_count = Cardinality(Nodes(t)) - 1
  /\ \A n \in Nodes(t) : t.node[n].num_children = Cardinality({m \in Nodes(t) : m # Root /\ Front(m) = n})

\* t is the trie with v stored under k, or with nothing there if v is NULL; the
\* other keys are as they were.
Changed(t, k, v) ==
  /\ Exact(t) /\ trie_find(t, k) = v
  /\ \A x \in Keys \ {k} : trie_find(t, x) = trie_find(trie, x)

\* The call that leads to t let go of the value of k, and of nothing else: a
\* copy was freed, another value given to the callback if it was to be.
LetGo(t, k, callback) ==
  LET old == IF trie_find(trie, k) = NULL THEN {} ELSE {<<k, trie_find(trie, k)>>}
      copied == old # {} /\ trie.node[k].is_copy
  IN  /\ t.freed = IF copied THEN old ELSE {}
      /\ t.released = IF ~copied /\ callback THEN old ELSE {}

\* Whatever was inserted and removed, the nodes are those the stored keys need
\* and the counts are exact; inserting and removing change one key and let go
\* of exactly its old value; trie_destroy lets go of all.
TrieRight ==
  /\ Exact(trie)
  /\ \A k \in {x \in Keys : Usable(x)} :
       /\ \A v \in Values, copy \in BOOLEAN :
            \E t \in {trie_insert(trie, k, v, copy)} : Changed(t, k, v) /\ LetGo(t, k, TRUE)
       /\ \A out \in BOOLEAN :
            \E t \in {trie_remove(trie, k, out)} : Changed(t, k, NULL) /\ LetGo(t, k, ~out)
  /\ \A k \in Stored(trie) : <<k, trie_find(trie, k)>> \in trie_destroy(trie).freed \union trie_destroy(trie).released
=============================================================================
