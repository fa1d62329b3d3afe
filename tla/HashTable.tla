----------------------------- MODULE HashTable ------------------------------
(***************************************************************************)
(* hashtable.c: a table of bucket lists shared by threads.  Three kinds of *)
(* lock protect it: the status word (readers count themselves above IDLE;  *)
(* a writer of a new bucket, a growth and a clearing take it alone from    *)
(* IDLE), one spin lock per bucket list, and the mutex iterator_lock over  *)
(* iterator_list, the list of all bucket lists.                            *)
(*                                                                         *)
(* A step is one access to shared memory, or several under a lock that     *)
(* keeps every other thread off them.  The busy loops around a             *)
(* compare-and-swap are steps that wait for the value they need.           *)
(* Allocation never fails, keys are never empty and stored values are      *)
(* never NULL; a key is its hash and its name.                             *)
(***************************************************************************)
EXTENDS Integers, SequencesExt

CONSTANTS
  Threads, Keys, Values, NULL, Absent,
  Hash,       \* the hash of every key
  InitSize,   \* the initial number of buckets (at least HT_SIZE_MIN in the code)
  MaxSize,    \* max_size
  ListIds,    \* addresses of bucket lists, 1 .. n
  Requests,   \* the calls threads make: an operation, a key, a value, a value to match
  Careful     \* whether clients keep a growing call alone and never set an unset key

VARIABLES
  status,         \* the status word
  size,           \* number of buckets
  count,          \* number of items
  items,          \* the buckets: a list or NULL
  lists,          \* what every list address holds
  iterator_list,  \* the lists, in order of creation
  iterator_lock,  \* the thread holding the mutex, or NULL
  lo              \* every thread's place in its call and its locals

vars == <<status, size, count, items, lists, iterator_list, iterator_lock, lo>>

CLEAR == 0
WRITE == 1
GROW == 2
IDLE == 3

Freed == [lock |-> NULL, index |-> -1, items |-> <<>>]
Item == [key : Keys, data : Values \union {NULL}]

SetOps == {"set", "set_if_not_exists"}
IterOps == {"foreach", "get_all_keys"}
NoRequest == [op |-> "none", key |-> NULL, val |-> NULL, match |-> NULL]
AtRest == [pc |-> "rest", call |-> NoRequest, index |-> 0, list |-> NULL,
           size |-> 0, todo |-> <<>>, seen |-> <<>>, found |-> NULL]

-----------------------------------------------------------------------------
(* Bucket lists. *)

\* The item a key comparison along the list stops at, 0 when there is none.
Find(s, k) == SelectInSeq(s, LAMBDA it : it.key = k)

\* What the list holds for the key: its data, NULL included, or Absent.
Stored(s, k) == IF Find(s, k) = 0 THEN Absent ELSE s[Find(s, k)].data

\* ht_set_internal: an item without data is passed over and a new one is added.
Setting(s, r) ==
  LET i == Find(s, r.key) IN
  IF i = 0 \/ s[i].data = NULL
    THEN Append(s, [key |-> r.key, data |-> r.val])
    ELSE IF r.op = "set_if_not_exists" THEN s ELSE [s EXCEPT ![i].data = r.val]

\* The callbacks given to ht_call_internal: what becomes of the data found;
\* Absent when the item is to be removed.
SetIfEqualsHelper(r, data) == IF data = r.match THEN r.val ELSE data

DeleteHelperUnmatched(r, data) == IF r.op = "unset" THEN NULL ELSE Absent

DeleteHelper(r, data) ==
  IF r.match # NULL /\ r.match # data THEN data
  ELSE IF r.op = "unset" THEN NULL ELSE Absent

GetHelper(data) == data

Calling(s, r) ==
  LET i == Find(s, r.key)
      data == CASE r.op = "get" -> GetHelper(s[i].data)
                [] r.op = "set_if_equals" -> SetIfEqualsHelper(r, s[i].data)
                [] OTHER -> DeleteHelper(r, s[i].data)
  IN IF i = 0 THEN s
     ELSE IF data = Absent THEN RemoveAt(s, i) ELSE [s EXCEPT ![i].data = data]

Bucket(k) == Hash[k] % size
Free(l) == lists[l].lock = NULL
Unused == CHOOSE l \in ListIds : lists[l] = Freed /\ \A m \in 1 .. l - 1 : lists[m] # Freed

At(t, pc) == lo[t].pc = pc
Goto(t, pc) == lo' = [lo EXCEPT ![t].pc = pc]

-----------------------------------------------------------------------------
(* Beginning and ending a call. *)

Limit == size + size \div 3
Setters == {t \in Threads : lo[t].call.op \in SetOps}
Crowded(n) == size < MaxSize /\ count + n > Limit
KeyIs(k, ops) == \E t \in Threads : lo[t].call.key = k /\ lo[t].call.op \in ops
HasNoData(k) == \E l \in ListIds : Stored(lists[l].items, k) = NULL

\* The clients' discipline: a call that may grow the table runs alone, and a
\* key whose data was unset is not set again before it is deleted.
Disciplined(t, r) ==
  LET n == Cardinality(Setters)
      alone == \A u \in Threads \ {t} : At(u, "rest")
  IN /\ n > 0 /\ Crowded(n) => alone
     /\ r.op \in SetOps =>
          /\ Crowded(n + 1) => alone
          /\ ~HasNoData(r.key) /\ ~KeyIs(r.key, {"unset"})
     /\ r.op = "unset" => ~KeyIs(r.key, SetOps)

Begin(t, r) ==
  /\ At(t, "rest")
  /\ Careful => Disciplined(t, r)
  /\ lo' = [lo EXCEPT ![t].call = r,
              ![t].pc = CASE r.op = "clear" -> "clear" [] r.op \in IterOps -> "iterate" [] OTHER -> "index"]
  /\ UNCHANGED <<status, size, count, items, lists, iterator_list, iterator_lock>>

Return(t) ==
  /\ At(t, "return")
  /\ lo' = [lo EXCEPT ![t] = AtRest]
  /\ UNCHANGED <<status, size, count, items, lists, iterator_list, iterator_lock>>

-----------------------------------------------------------------------------
(* ht_get_list: find and lock the bucket list of a hash. *)

ReadIndex(t) ==
  /\ At(t, "index")
  /\ lo' = [lo EXCEPT ![t].index = Bucket(lo[t].call.key), ![t].pc = "register"]
  /\ UNCHANGED <<status, size, count, items, lists, iterator_list, iterator_lock>>

\* IDLE becomes one reader, n readers become n + 1; a writer is waited for.
\* The bucket is read at once: nobody replaces it while there are readers.
Register(t) ==
  /\ At(t, "register")
  /\ status >= IDLE
  /\ status' = status + 1
  /\ LET l == items[lo[t].index] IN
     lo' = [lo EXCEPT ![t].list = l, ![t].pc = IF l = NULL THEN "unregister" ELSE "lock"]
  /\ UNCHANGED <<size, count, items, lists, iterator_list, iterator_lock>>

Lock(t) ==
  /\ At(t, "lock")
  /\ Free(lo[t].list)
  /\ lists' = [lists EXCEPT ![lo[t].list].lock = t]
  /\ Goto(t, "unregister")
  /\ UNCHANGED <<status, size, count, items, iterator_list, iterator_lock>>

\* The last reader leaves IDLE behind.  Without a list, ht_set_internal goes on
\* to ht_set_list and ht_call_internal returns -1.
UnregisterTwice(t) ==
  /\ At(t, "unregister")
  /\ status' = IF status - 1 = IDLE + 1 THEN IDLE ELSE status - 1
  /\ lo' = [lo EXCEPT ![t].found = IF lo[t].list = NULL THEN Absent ELSE NULL,
              ![t].pc = CASE lo[t].list # NULL -> "apply"
                          [] lo[t].call.op \in SetOps -> "write"
                          [] OTHER -> "return"]
  /\ UNCHANGED <<size, count, items, lists, iterator_list, iterator_lock>>

Unregister(t) ==
  /\ At(t, "unregister")
  /\ status' = status - 1
  /\ lo' = [lo EXCEPT ![t].found = IF lo[t].list = NULL THEN Absent ELSE NULL,
              ![t].pc = CASE lo[t].list # NULL -> "apply"
                          [] lo[t].call.op \in SetOps -> "write"
                          [] OTHER -> "return"]
  /\ UNCHANGED <<size, count, items, lists, iterator_list, iterator_lock>>

-----------------------------------------------------------------------------
(* ht_set_list: put a new, locked list in an empty bucket. *)

Write(t) ==
  /\ At(t, "write")
  /\ status = IDLE
  /\ status' = WRITE
  /\ Goto(t, "place")
  /\ UNCHANGED <<size, count, items, lists, iterator_list, iterator_lock>>

PlaceOver(t) ==
  LET i == Bucket(lo[t].call.key) IN
  /\ At(t, "place")
  /\ items' = [items EXCEPT ![i] = Unused]
  /\ lists' = [lists EXCEPT ![Unused] = [lock |-> t, index |-> i, items |-> <<>>]]
  /\ status' = IDLE
  /\ lo' = [lo EXCEPT ![t].list = Unused, ![t].pc = "enlist"]
  /\ UNCHANGED <<size, count, iterator_list, iterator_lock>>

\* The index is taken again now that the size cannot change.  A list another
\* thread put there first is used instead.
Place(t) ==
  LET i == Bucket(lo[t].call.key) IN
  /\ At(t, "place")
  /\ \/ /\ items[i] # NULL
        /\ lo' = [lo EXCEPT ![t].list = items[i], ![t].pc = "lock_placed"]
        /\ UNCHANGED <<status, items, lists>>
     \/ /\ items[i] = NULL
        /\ items' = [items EXCEPT ![i] = Unused]
        /\ lists' = [lists EXCEPT ![Unused] = [lock |-> t, index |-> i, items |-> <<>>]]
        /\ status' = IDLE
        /\ lo' = [lo EXCEPT ![t].list = Unused, ![t].pc = "enlist"]
  /\ UNCHANGED <<size, count, iterator_list, iterator_lock>>

LockPlaced(t) ==
  /\ At(t, "lock_placed")
  /\ Free(lo[t].list)
  /\ lists' = [lists EXCEPT ![lo[t].list].lock = t]
  /\ status' = IDLE
  /\ Goto(t, "apply")
  /\ UNCHANGED <<size, count, items, iterator_list, iterator_lock>>

Enlist(t) ==
  /\ At(t, "enlist")
  /\ iterator_lock = NULL
  /\ iterator_list' = Append(iterator_list, lo[t].list)
  /\ Goto(t, "apply")
  /\ UNCHANGED <<status, size, count, items, lists, iterator_lock>>

-----------------------------------------------------------------------------
(* The rest of ht_set_internal and ht_call_internal, with the list locked. *)

Apply(t) ==
  LET l == lo[t].list
      r == lo[t].call
      old == lists[l].items
      new == IF r.op \in SetOps THEN Setting(old, r) ELSE Calling(old, r)
      kept == r.op = "set_if_not_exists" /\ new = old
  IN
  /\ At(t, "apply")
  /\ lists' = [lists EXCEPT ![l].items = new, ![l].lock = NULL]
  /\ count' = count + Len(new) - Len(old)
  /\ lo' = [lo EXCEPT ![t].found = Stored(old, r.key),
              ![t].pc = IF r.op \in SetOps /\ ~kept THEN "size" ELSE "return"]
  /\ UNCHANGED <<status, size, items, iterator_list, iterator_lock>>

ReadSize(t) ==
  /\ At(t, "size")
  /\ lo' = [lo EXCEPT ![t].size = size, ![t].pc = "check"]
  /\ UNCHANGED <<status, size, count, items, lists, iterator_list, iterator_lock>>

CheckLoad(t) ==
  LET n == lo[t].size IN
  /\ At(t, "check")
  /\ Goto(t, IF count > n + n \div 3 /\ n < MaxSize THEN "grow" ELSE "return")
  /\ UNCHANGED <<status, size, count, items, lists, iterator_list, iterator_lock>>

-----------------------------------------------------------------------------
(* ht_grow_table: gives up unless the table is idle. *)

Grow(t) ==
  /\ At(t, "grow")
  /\ IF status = IDLE /\ size < MaxSize
       THEN status' = GROW /\ Goto(t, "swap")
       ELSE UNCHANGED status /\ Goto(t, "return")
  /\ UNCHANGED <<size, count, items, lists, iterator_list, iterator_lock>>

NewSize == IF 2 * size > MaxSize THEN MaxSize ELSE 2 * size

Swap(t) ==
  /\ At(t, "swap")
  /\ iterator_lock = NULL
  /\ iterator_lock' = t
  /\ size' = NewSize
  /\ items' = [i \in 0 .. MaxSize - 1 |-> NULL]
  /\ lo' = [lo EXCEPT ![t].todo = iterator_list, ![t].seen = <<>>, ![t].pc = "move"]
  /\ UNCHANGED <<status, count, lists, iterator_list>>

\* Moves the first item of the list l, as [items, lists, seen]: seen is the new
\* iterator list.
MoveItem(s, it) ==
  LET i == Hash[it.key] % size
      free == CHOOSE l \in ListIds : s.lists[l] = Freed /\ \A m \in 1 .. l - 1 : s.lists[m] # Freed
  IN IF s.items[i] # NULL
       THEN [s EXCEPT !.lists[s.items[i]].items = Append(@, it)]
       ELSE [items |-> [s.items EXCEPT ![i] = free],
             lists |-> [s.lists EXCEPT ![free] = [lock |-> NULL, index |-> i, items |-> <<it>>]],
             seen |-> Append(s.seen, free)]

\* One list of the old table: its items go to the new buckets and it is freed.
Move(t) ==
  LET l == Head(lo[t].todo)
      moved == FoldLeft(MoveItem, [items |-> items, lists |-> lists, seen |-> lo[t].seen], lists[l].items)
  IN
  /\ At(t, "move")
  /\ lo[t].todo # <<>>
  /\ Free(l)
  /\ items' = moved.items
  /\ lists' = [moved.lists EXCEPT ![l] = Freed]
  /\ iterator_list' = Remove(iterator_list, l)
  /\ lo' = [lo EXCEPT ![t].todo = Tail(@), ![t].seen = moved.seen]
  /\ UNCHANGED <<status, size, count, iterator_lock>>

Settle(t) ==
  /\ At(t, "move")
  /\ lo[t].todo = <<>>
  /\ iterator_list' = lo[t].seen
  /\ iterator_lock' = NULL
  /\ status' = IDLE
  /\ lo' = [lo EXCEPT ![t].seen = <<>>, ![t].pc = "return"]
  /\ UNCHANGED <<size, count, items, lists>>

-----------------------------------------------------------------------------
(* ht_clear. *)

Clear(t) ==
  /\ At(t, "clear")
  /\ status = IDLE
  /\ status' = CLEAR
  /\ Goto(t, "clear_lock")
  /\ UNCHANGED <<size, count, items, lists, iterator_list, iterator_lock>>

ClearLock(t) ==
  /\ At(t, "clear_lock")
  /\ iterator_lock = NULL
  /\ iterator_lock' = t
  /\ lo' = [lo EXCEPT ![t].todo = iterator_list, ![t].pc = "wipe"]
  /\ UNCHANGED <<status, size, count, items, lists, iterator_list>>

WipeUncounted(t) ==
  LET l == Head(lo[t].todo) IN
  /\ At(t, "wipe")
  /\ lo[t].todo # <<>>
  /\ Free(l)
  /\ items' = [items EXCEPT ![lists[l].index] = NULL]
  /\ lists' = [lists EXCEPT ![l] = Freed]
  /\ iterator_list' = Remove(iterator_list, l)
  /\ lo' = [lo EXCEPT ![t].todo = Tail(@)]
  /\ UNCHANGED <<status, size, count, iterator_lock>>

WipeLocked(t) ==
  LET l == Head(lo[t].todo) IN
  /\ At(t, "wipe")
  /\ lo[t].todo # <<>>
  /\ items' = [items EXCEPT ![lists[l].index] = NULL]
  /\ lists' = [lists EXCEPT ![l] = Freed]
  /\ count' = count - Len(lists[l].items)
  /\ iterator_list' = Remove(iterator_list, l)
  /\ lo' = [lo EXCEPT ![t].todo = Tail(@)]
  /\ UNCHANGED <<status, size, iterator_lock>>

Wipe(t) ==
  LET l == Head(lo[t].todo) IN
  /\ At(t, "wipe")
  /\ lo[t].todo # <<>>
  /\ Free(l)
  /\ items' = [items EXCEPT ![lists[l].index] = NULL]
  /\ lists' = [lists EXCEPT ![l] = Freed]
  /\ count' = count - Len(lists[l].items)
  /\ iterator_list' = Remove(iterator_list, l)
  /\ lo' = [lo EXCEPT ![t].todo = Tail(@)]
  /\ UNCHANGED <<status, size, iterator_lock>>

Cleared(t) ==
  /\ At(t, "wipe")
  /\ lo[t].todo = <<>>
  /\ iterator_lock' = NULL
  /\ status' = IDLE
  /\ Goto(t, "return")
  /\ UNCHANGED <<size, count, items, lists, iterator_list>>

-----------------------------------------------------------------------------
(* ht_foreach_pair, ht_get_all_keys and ht_get_all_values. *)

Iterate(t) ==
  /\ At(t, "iterate")
  /\ iterator_lock = NULL
  /\ iterator_lock' = t
  /\ lo' = [lo EXCEPT ![t].todo = iterator_list,
              ![t].pc = IF lo[t].call.op = "foreach" THEN "visit" ELSE "gather"]
  /\ UNCHANGED <<status, size, count, items, lists, iterator_list>>

\* One list: the callback sees its items up to the one it stops at, if any, and
\* has some of those it sees removed.
Visit(t) ==
  LET l == Head(lo[t].todo)
      s == lists[l].items
  IN
  /\ At(t, "visit")
  /\ lo[t].todo # <<>>
  /\ Free(l)
  /\ \E stop \in 0 .. Len(s) : \E dropped \in SUBSET (1 .. (IF stop = 0 THEN Len(s) ELSE stop)) :
       /\ lists' = [lists EXCEPT ![l].items =
                      [j \in 1 .. Len(s) - Cardinality(dropped) |->
                         s[CHOOSE i \in DOMAIN s \ dropped : Cardinality((1 .. i) \ dropped) = j]]]
       /\ count' = count - Cardinality(dropped)
       /\ lo' = [lo EXCEPT ![t].todo = IF stop = 0 THEN Tail(@) ELSE <<>>,
                   ![t].seen = @ \o [i \in 1 .. (IF stop = 0 THEN Len(s) ELSE stop) |-> s[i].key]]
  /\ UNCHANGED <<status, size, items, iterator_list, iterator_lock>>

Gather(t) ==
  LET l == Head(lo[t].todo) IN
  /\ At(t, "gather")
  /\ lo[t].todo # <<>>
  /\ Free(l)
  /\ lo' = [lo EXCEPT ![t].todo = Tail(@),
              ![t].seen = @ \o [i \in DOMAIN lists[l].items |-> lists[l].items[i].key]]
  /\ UNCHANGED <<status, size, count, items, lists, iterator_list, iterator_lock>>

Visited(t) ==
  /\ lo[t].pc \in {"visit", "gather"}
  /\ lo[t].todo = <<>>
  /\ iterator_lock' = NULL
  /\ Goto(t, "return")
  /\ UNCHANGED <<status, size, count, items, lists, iterator_list>>

-----------------------------------------------------------------------------

\* ht_init.
Init ==
  /\ status = IDLE
  /\ size = InitSize
  /\ count = 0
  /\ items = [i \in 0 .. MaxSize - 1 |-> NULL]
  /\ lists = [l \in ListIds |-> Freed]
  /\ iterator_list = <<>>
  /\ iterator_lock = NULL
  /\ lo = [t \in Threads |-> AtRest]

\* ht_destroy, once no call is running, and ht_create again: the lists on the
\* iterator list are cleared and freed.
Recreate ==
  /\ \A t \in Threads : At(t, "rest")
  /\ lists' = [l \in ListIds |-> IF l \in Range(iterator_list) THEN Freed ELSE lists[l]]
  /\ size' = InitSize
  /\ count' = 0
  /\ items' = [i \in 0 .. MaxSize - 1 |-> NULL]
  /\ iterator_list' = <<>>
  /\ UNCHANGED <<status, iterator_lock, lo>>

\* What a thread inside a call does next.
Step(t) ==
  \/ Return(t) \/ ReadIndex(t) \/ Register(t) \/ Lock(t) \/ Unregister(t)
  \/ Write(t) \/ Place(t) \/ LockPlaced(t) \/ Enlist(t) \/ Apply(t) \/ ReadSize(t)
  \/ CheckLoad(t) \/ Grow(t) \/ Swap(t) \/ Move(t) \/ Settle(t) \/ Clear(t)
  \/ ClearLock(t) \/ Wipe(t) \/ Cleared(t) \/ Iterate(t) \/ Visit(t) \/ Gather(t) \/ Visited(t)

Next ==
  \/ \E t \in Threads : Step(t) \/ \E r \in Requests : Begin(t, r)
  \/ Recreate

Spec == Init /\ [][Next]_vars

-----------------------------------------------------------------------------
(* Properties. *)

Live == {l \in ListIds : lists[l] # Freed}

\* What is stored can be found: outside a growth, every bucket list that holds
\* items is in the table at its own index, and every item's hash leads there
\* (ht_get_list looks nowhere else).
Findable ==
  status # GROW =>
    \A l \in Live : lists[l].items # <<>> =>
      /\ items[lists[l].index] = l
      /\ \A i \in DOMAIN lists[l].items : Bucket(lists[l].items[i].key) = lists[l].index

\* A thread that waits for a bucket list or works on one has a pointer to a
\* list that was not freed by a growth or a clearing, and works on it alone.
NoStaleList ==
  \A t \in Threads :
    /\ lo[t].pc \in {"lock", "lock_placed", "enlist", "apply"} => lo[t].list \in Live
    /\ lo[t].pc \in {"enlist", "apply"} => lists[lo[t].list].lock = t
    /\ lo[t].pc \in {"move", "wipe", "visit", "gather"} => Range(lo[t].todo) \subseteq Live

\* The three kinds of locks never block each other for good: while some call is
\* running, a step of some running call is possible.
Unblocked == (\E t \in Threads : ~At(t, "rest")) => \E t \in Threads : ENABLED Step(t)

Known ==
  iterator_list \o FoldSet(LAMBDA t, s : IF At(t, "move") THEN s \o lo[t].seen ELSE s, <<>>, Threads)

\* The parts of the table tell one story after every step, whatever mix of
\* setting, deleting, clearing, iterating and growing led there: status counts
\* at most one reader per thread, the counter is the number of stored items,
\* no key is stored twice, a list that holds items is on the iterator list once
\* (or on the one a growth is building), and an iteration reports no key twice.
PartsAgree ==
  /\ status \in CLEAR .. IDLE + Cardinality(Threads)
  /\ count = MapThenSumSet(LAMBDA l : Len(lists[l].items), Live)
  /\ \A l, m \in Live : \A i \in DOMAIN lists[l].items, j \in DOMAIN lists[m].items :
       lists[l].items[i].key = lists[m].items[j].key => l = m /\ i = j
  /\ IsInjective(Known)
  /\ \A l \in Live : lists[l].items # <<>> => l \in Range(Known)
  /\ \A t \in Threads : lo[t].call.op \in IterOps => IsInjective(lo[t].seen)

\* The table's threads are clients of the map of hashtable.h.
Content ==
  [k \in Keys |->
     LET held == {l \in Live : Find(lists[l].items, k) # 0}
     IN IF held = {} THEN Absent ELSE Stored(lists[CHOOSE l \in held : TRUE].items, k)]

Calls ==
  [t \in Threads |->
     IF At(t, "rest") THEN [op |-> "none"]
     ELSE IF lo[t].pc \in {"size", "check", "grow", "swap", "move", "return"}
            THEN [op |-> "return", found |-> lo[t].found]
            ELSE lo[t].call]

Store == INSTANCE KeyStore WITH Clients <- Threads, map <- Content, call <- Calls

\* Every call on a key takes effect at one moment between its beginning and its
\* return and reports what it found at that moment: the table implements the
\* map of hashtable.h.
Linearizable == Store!Spec
=============================================================================
