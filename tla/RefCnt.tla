------------------------------- MODULE RefCnt -------------------------------
(***************************************************************************)
(* The reference counts of src/refcnt.c.  A node counts the references to  *)
(* it; the release that brings the count to zero terminates the node and   *)
(* puts it on the free list, from which gc() frees what it points to and   *)
(* moves the node to the pool that new_node() draws from.                  *)
(*                                                                         *)
(* One step is one access to a count, to an updating flag, to a link or to *)
(* one of the two queues, which are rqueues of their own and are taken for *)
(* queues here: neither fills up at the sizes refcnt_create gives them.    *)
(*                                                                         *)
(* The clients are threads.  Each has a link, a place in shared memory     *)
(* that holds a reference, and may hold references of its own, which it    *)
(* may hand to another thread.                                             *)
(***************************************************************************)
EXTENDS Integers, Sequences, FiniteSets, Functions

CONSTANTS
  Threads,
  Nodes,        \* the addresses calloc may return
  NULL,
  GcThreshold,  \* refcnt_create()'s gc_threshold
  CountMod,     \* 2^32: count is a uint32_t
  MaxHeld,      \* bound on the references to one node that a thread holds
  Owned         \* TRUE: a link is only used by the thread it belongs to

ASSUME RefCntAssumption ==
  /\ NULL \notin Nodes
  /\ GcThreshold \in Nat
  /\ CountMod \in Nat /\ CountMod >= 2
  /\ MaxHeld \in Nat
  /\ Owned \in BOOLEAN

Ref == Nodes \union {NULL}
Link == [node : Ref, mark : BOOLEAN]      \* REFCNT_MARK_ON, REFCNT_MARK_OFF
Unmarked(n) == [node |-> n, mark |-> FALSE]

PC == {"idle",
       "read_link", "read_updating", "read_count", "increment",
       "check", "decrement", "lock", "zero", "terminate", "unlock",
       "length", "collect", "take", "free",
       "load_old", "store", "swap", "swap_inc", "swap_dec"}
Calls == {"none", "deref_link", "deref_link_d", "retain_ref", "release_ref",
          "store_ref", "compare_and_swap_ref"}
Locals == [call : Calls, link : Threads \union {NULL}, ref : Ref, old : Link]
NoCall == [call |-> "none", link |-> NULL, ref |-> NULL, old |-> Unmarked(NULL)]

VARIABLES
  count, updating,       \* the fields of refcnt_node_t
  free_list, node_pool,
  fresh,                 \* addresses calloc has not returned yet
  link,                  \* the links of the clients
  held,                  \* held[t][n]: references to n that t holds
  pc, lo,                \* where a thread is in its call, and its locals
  destroyed              \* refcnt_destroy has run

nodes == <<count, updating>>
lists == <<free_list, node_pool, fresh>>
clients == <<link, held>>
control == <<pc, lo>>
vars == <<nodes, lists, clients, control, destroyed>>

(* refcnt_create *)
Init ==
  /\ count = [n \in Nodes |-> 0] /\ updating = [n \in Nodes |-> 0]
  /\ free_list = <<>> /\ node_pool = <<>> /\ fresh = Nodes
  /\ link = [t \in Threads |-> Unmarked(NULL)]
  /\ held = [t \in Threads |-> [n \in Nodes |-> 0]]
  /\ pc = [t \in Threads |-> "idle"] /\ lo = [t \in Threads |-> NoCall]
  /\ destroyed = FALSE

Goto(t, p) == pc' = [pc EXCEPT ![t] = p]
Call(t, p, l) ==
  /\ pc[t] = "idle" /\ ~destroyed
  /\ Goto(t, p)
  /\ lo' = [lo EXCEPT ![t] = l]
Return(t) ==
  /\ Goto(t, "idle")
  /\ lo' = [lo EXCEPT ![t] = NoCall]
Hold(t, n) == held' = [held EXCEPT ![t][n] = @ + 1]
Drop(t, n) == held' = [held EXCEPT ![t][n] = @ - 1]
MayUse(t, l) == Owned => t = l

Inc(c) == (c + 1) % CountMod
Dec(c) == (c - 1) % CountMod

-----------------------------------------------------------------------------
(* new_node: nobody else knows the node yet, and its caller holds it.      *)
NewNode(t) ==
  /\ pc[t] = "idle" /\ ~destroyed
  /\ \E n \in Nodes :
       /\ IF node_pool # <<>>
          THEN n = Head(node_pool) /\ node_pool' = Tail(node_pool) /\ UNCHANGED fresh
          ELSE n \in fresh /\ fresh' = fresh \ {n} /\ UNCHANGED node_pool
       /\ held[t][n] < MaxHeld
       /\ count' = [count EXCEPT ![n] = 1]
       /\ updating' = [updating EXCEPT ![n] = 0]
       /\ Hold(t, n)
  /\ UNCHANGED <<free_list, link, control, destroyed>>

-----------------------------------------------------------------------------
(* deref_link_internal *)

CallDeref(t, l, call) ==
  /\ MayUse(t, l)
  /\ \A n \in Nodes : held[t][n] < MaxHeld
  /\ Call(t, "read_link", [NoCall EXCEPT !.call = call, !.link = l])
  /\ UNCHANGED <<nodes, lists, clients, destroyed>>

(* retain_ref, of a node the caller holds.                                 *)
CallRetain(t, n) ==
  /\ held[t][n] \in 1 .. MaxHeld - 1
  /\ Call(t, "read_updating", [NoCall EXCEPT !.call = "retain_ref", !.ref = n])
  /\ UNCHANGED <<nodes, lists, clients, destroyed>>

ReadLink(t) ==
  LET l == link[lo[t].link] IN
  /\ pc[t] = "read_link"
  /\ IF l.node = NULL \/ (l.mark /\ lo[t].call = "deref_link")
     THEN Return(t)
     ELSE lo' = [lo EXCEPT ![t].ref = l.node] /\ Goto(t, "read_updating")
  /\ UNCHANGED <<nodes, lists, clients, destroyed>>

(* Slip: store_ref keeps the reference it replaces.                        *)
EndDerefKeepingOld(t) == Return(t)

(* Back from retain_ref, store_ref releases what the link held before.     *)
EndDeref(t) ==
  IF lo[t].call = "store_ref" /\ lo[t].old.node # NULL
  THEN Goto(t, "check") /\ lo' = [lo EXCEPT ![t].ref = lo[t].old.node]
  ELSE Return(t)

ReadUpdating(t) ==
  /\ pc[t] = "read_updating"
  /\ Goto(t, IF updating[lo[t].ref] = 1 THEN "read_count" ELSE "increment")
  /\ UNCHANGED <<nodes, lists, clients, lo, destroyed>>

ReadCount(t) ==
  /\ pc[t] = "read_count"
  /\ IF count[lo[t].ref] = 0
     THEN EndDeref(t)
     ELSE Goto(t, "increment") /\ UNCHANGED lo
  /\ UNCHANGED <<nodes, lists, clients, destroyed>>

(* The reference is the caller's, or the link's in store_ref.              *)
Increment(t) ==
  LET n == lo[t].ref IN
  /\ pc[t] = "increment"
  /\ count' = [count EXCEPT ![n] = Inc(@)]
  /\ IF lo[t].call = "store_ref" THEN UNCHANGED held ELSE Hold(t, n)
  /\ EndDeref(t)
  /\ UNCHANGED <<updating, lists, link, destroyed>>

-----------------------------------------------------------------------------
(* release_ref *)

CallRelease(t, n) ==
  /\ held[t][n] > 0
  /\ Call(t, "check", [NoCall EXCEPT !.call = "release_ref", !.ref = n])
  /\ Drop(t, n)
  /\ UNCHANGED <<nodes, lists, link, destroyed>>

Check(t) ==
  /\ pc[t] = "check"
  /\ Goto(t, IF count[lo[t].ref] > 0 THEN "decrement" ELSE "lock")
  /\ UNCHANGED <<nodes, lists, clients, lo, destroyed>>

Decrement(t) ==
  /\ pc[t] = "decrement"
  /\ count' = [count EXCEPT ![lo[t].ref] = Dec(@)]
  /\ Goto(t, "lock")
  /\ UNCHANGED <<updating, lists, clients, lo, destroyed>>

(* Slip: the outcome of the CAS is not looked at.                          *)
LockNodeAnyway(t) ==
  /\ pc[t] = "lock"
  /\ updating' = [updating EXCEPT ![lo[t].ref] = 1]
  /\ Goto(t, "zero")
  /\ UNCHANGED <<count, lists, clients, lo, destroyed>>

(* ATOMIC_CAS(ref->updating, 0, 1) *)
LockNode(t) ==
  LET n == lo[t].ref IN
  /\ pc[t] = "lock"
  /\ updating' = [updating EXCEPT ![n] = 1]
  /\ Goto(t, IF updating[n] = 0 THEN "zero" ELSE "length")
  /\ UNCHANGED <<count, lists, clients, lo, destroyed>>

(* Slip: the last reference is taken for none.                             *)
ReadZeroEarly(t) ==
  /\ pc[t] = "zero"
  /\ Goto(t, IF count[lo[t].ref] <= 1 THEN "terminate" ELSE "unlock")
  /\ UNCHANGED <<nodes, lists, clients, lo, destroyed>>

ReadZero(t) ==
  /\ pc[t] = "zero"
  /\ Goto(t, IF count[lo[t].ref] = 0 THEN "terminate" ELSE "unlock")
  /\ UNCHANGED <<nodes, lists, clients, lo, destroyed>>

(* terminate_node_cb and the write to the free list                        *)
Terminate(t) ==
  /\ pc[t] = "terminate"
  /\ free_list' = Append(free_list, lo[t].ref)
  /\ Goto(t, "length")
  /\ UNCHANGED <<nodes, node_pool, fresh, clients, lo, destroyed>>

(* ATOMIC_CAS(ref->updating, 1, 0) *)
UnlockNode(t) ==
  /\ pc[t] = "unlock"
  /\ updating' = [updating EXCEPT ![lo[t].ref] = 0]
  /\ Goto(t, "length")
  /\ UNCHANGED <<count, lists, clients, lo, destroyed>>

(* Slip: one node too many is left waiting.                                *)
ReadLengthLate(t) ==
  /\ pc[t] = "length"
  /\ IF Len(free_list) > GcThreshold + 1
     THEN Goto(t, "collect") /\ UNCHANGED lo
     ELSE Return(t)
  /\ UNCHANGED <<nodes, lists, clients, destroyed>>

ReadLength(t) ==
  /\ pc[t] = "length"
  /\ IF Len(free_list) > GcThreshold
     THEN Goto(t, "collect") /\ UNCHANGED lo
     ELSE Return(t)
  /\ UNCHANGED <<nodes, lists, clients, destroyed>>

(* gc: the loop ends at half the threshold, or when another thread was     *)
(* faster.                                                                 *)
Collect(t) ==
  /\ pc[t] = "collect"
  /\ IF Len(free_list) > GcThreshold \div 2
     THEN Goto(t, "take") /\ UNCHANGED lo
     ELSE Return(t)
  /\ UNCHANGED <<nodes, lists, clients, destroyed>>

TakeFree(t) ==
  /\ pc[t] = "take"
  /\ IF free_list = <<>>
     THEN Return(t) /\ UNCHANGED free_list
     ELSE /\ lo' = [lo EXCEPT ![t].ref = Head(free_list)]
          /\ free_list' = Tail(free_list)
          /\ Goto(t, "free")
  /\ UNCHANGED <<nodes, node_pool, fresh, clients, destroyed>>

(* free_node_ptr_cb, and the node goes to the pool.                        *)
FreeNode(t) ==
  /\ pc[t] = "free"
  /\ node_pool' = Append(node_pool, lo[t].ref)
  /\ Goto(t, "collect")
  /\ UNCHANGED <<nodes, free_list, fresh, clients, lo, destroyed>>

-----------------------------------------------------------------------------
(* store_ref *)

CallStore(t, l, n) ==
  /\ MayUse(t, l)
  /\ n # NULL => held[t][n] > 0
  /\ Call(t, "load_old", [NoCall EXCEPT !.call = "store_ref", !.link = l, !.ref = n])
  /\ UNCHANGED <<nodes, lists, clients, destroyed>>

LoadOld(t) ==
  /\ pc[t] = "load_old"
  /\ lo' = [lo EXCEPT ![t].old = link[lo[t].link]]
  /\ Goto(t, "store")
  /\ UNCHANGED <<nodes, lists, clients, destroyed>>

Store(t) ==
  LET l == lo[t].link IN
  /\ pc[t] = "store"
  /\ IF link[l] # lo[t].old
     THEN Goto(t, "load_old") /\ UNCHANGED <<link, lo>>
     ELSE /\ link' = [link EXCEPT ![l] = Unmarked(lo[t].ref)]
          /\ IF lo[t].ref # NULL
             THEN Goto(t, "read_updating") /\ UNCHANGED lo
             ELSE EndDeref(t)
  /\ UNCHANGED <<nodes, lists, held, destroyed>>

-----------------------------------------------------------------------------
(* compare_and_swap_ref, with an old reference that the caller holds: the  *)
(* count of old is not looked at when the link gives it up.                *)

CallCas(t, l, o, n) ==
  /\ MayUse(t, l)
  /\ o # NULL => held[t][o] > 0
  /\ n # NULL => held[t][n] > 0
  /\ Call(t, "swap", [call |-> "compare_and_swap_ref", link |-> l, ref |-> n,
                      old |-> Unmarked(o)])
  /\ UNCHANGED <<nodes, lists, clients, destroyed>>

Swap(t) ==
  LET l == lo[t].link IN
  /\ pc[t] = "swap"
  /\ IF link[l] = lo[t].old
     THEN /\ link' = [link EXCEPT ![l] = Unmarked(lo[t].ref)]
          /\ Goto(t, "swap_inc") /\ UNCHANGED lo
     ELSE Return(t) /\ UNCHANGED link
  /\ UNCHANGED <<nodes, lists, held, destroyed>>

SwapIncrement(t) ==
  LET n == lo[t].ref IN
  /\ pc[t] = "swap_inc"
  /\ count' = IF n = NULL THEN count ELSE [count EXCEPT ![n] = Inc(@)]
  /\ Goto(t, "swap_dec")
  /\ UNCHANGED <<updating, lists, clients, lo, destroyed>>

SwapDecrement(t) ==
  LET n == lo[t].old.node IN
  /\ pc[t] = "swap_dec"
  /\ count' = IF n = NULL THEN count ELSE [count EXCEPT ![n] = Dec(@)]
  /\ Return(t)
  /\ UNCHANGED <<updating, lists, clients, destroyed>>

-----------------------------------------------------------------------------
(* What the clients do on their own *)

(* mark_prev of queue.c: a link is marked by CAS, its reference stays.     *)
MarkLink(t, l) ==
  /\ pc[t] = "idle" /\ MayUse(t, l)
  /\ link[l].node # NULL /\ ~link[l].mark
  /\ link' = [link EXCEPT ![l].mark = TRUE]
  /\ UNCHANGED <<nodes, lists, held, control, destroyed>>

(* A reference changes hands.                                              *)
HandOver(t, u, n) ==
  /\ t # u /\ pc[t] = "idle" /\ pc[u] = "idle"
  /\ held[t][n] > 0 /\ held[u][n] < MaxHeld
  /\ held' = [held EXCEPT ![t] = [held[t] EXCEPT ![n] = @ - 1],
                          ![u] = [held[u] EXCEPT ![n] = @ + 1]]
  /\ UNCHANGED <<nodes, lists, link, control, destroyed>>

(* refcnt_destroy, when nobody is inside a call: gc(refcnt, 1) empties the *)
(* free list, and the two queues are destroyed with the nodes they hold.   *)
Destroy ==
  /\ \A t \in Threads : pc[t] = "idle"
  /\ ~destroyed
  /\ destroyed' = TRUE
  /\ free_list' = <<>> /\ node_pool' = <<>>
  /\ UNCHANGED <<nodes, fresh, clients, control>>

Step(t) ==
  \/ ReadLink(t) \/ ReadUpdating(t) \/ ReadCount(t) \/ Increment(t)
  \/ Check(t) \/ Decrement(t) \/ LockNode(t) \/ ReadZero(t) \/ Terminate(t)
  \/ UnlockNode(t) \/ ReadLength(t) \/ Collect(t) \/ TakeFree(t) \/ FreeNode(t)
  \/ LoadOld(t) \/ Store(t) \/ Swap(t) \/ SwapIncrement(t) \/ SwapDecrement(t)

Begin(t) ==
  \/ NewNode(t)
  \/ \E l \in Threads : CallDeref(t, l, "deref_link") \/ CallDeref(t, l, "deref_link_d")
  \/ \E n \in Nodes : CallRetain(t, n) \/ CallRelease(t, n)
  \/ \E l \in Threads, n \in Ref : CallStore(t, l, n)
  \/ \E l \in Threads, o, n \in Ref : CallCas(t, l, o, n)
  \/ \E l \in Threads : MarkLink(t, l)
  \/ \E u \in Threads, n \in Nodes : HandOver(t, u, n)

Next ==
  \/ \E t \in Threads : Begin(t) \/ Step(t)
  \/ Destroy

Spec == Init /\ [][Next]_vars

-----------------------------------------------------------------------------
(* A thread that works on a link, or on a node, has one.                   *)
Fits(p, x) ==
  /\ p \in {"read_link", "load_old", "store", "swap"} => x.link \in Threads
  /\ p \in {"read_updating", "read_count", "increment", "check", "decrement", "lock",
            "zero", "terminate", "unlock", "free"} => x.ref \in Nodes

MemoryOK ==
  /\ count \in [Nodes -> 0 .. CountMod - 1] /\ updating \in [Nodes -> {0, 1}]
  /\ free_list \in Seq(Nodes) /\ node_pool \in Seq(Nodes) /\ fresh \subseteq Nodes
  /\ link \in [Threads -> Link] /\ held \in [Threads -> [Nodes -> Nat]]
  /\ destroyed \in BOOLEAN
ControlOK ==
  /\ pc \in [Threads -> PC] /\ lo \in [Threads -> Locals]
  /\ \A t \in Threads : Fits(pc[t], lo[t])

(* Type invariant: counts stay in a uint32_t, flags are 0 or 1, and calls  *)
(* have the arguments they work on.                                        *)
TypeOK == MemoryOK /\ ControlOK

In(n, s) == \E i \in 1 .. Len(s) : s[i] = n
NoRepeats(s) == \A i, j \in 1 .. Len(s) : s[i] = s[j] => i = j

(* t won the CAS of n's updating flag and has not given it up.             *)
Locks(t, n) == lo[t].ref = n /\ pc[t] \in {"zero", "terminate", "unlock"}
(* gc in thread t has n in its hands.                                      *)
Frees(t, n) == lo[t].ref = n /\ pc[t] = "free"

(* However its clients race, a node is terminated once: it is in one place *)
(* of the free list, or of the pool, or with one gc, or with one release   *)
(* that has its updating flag, or never allocated.  So it is never freed   *)
(* twice and never given out by new_node to two callers.                   *)
OnePlace ==
  /\ NoRepeats(free_list) /\ NoRepeats(node_pool)
  /\ \A n \in Nodes :
       /\ ~(In(n, free_list) /\ In(n, node_pool))
       /\ n \in fresh => ~In(n, free_list) /\ ~In(n, node_pool)
       /\ \A t \in Threads : Locks(t, n) \/ Frees(t, n) =>
            ~In(n, free_list) /\ ~In(n, node_pool) /\ n \notin fresh
       /\ \A t, u \in Threads :
            (Locks(t, n) \/ Frees(t, n)) /\ (Locks(u, n) \/ Frees(u, n)) => t = u

(* The free list is over its threshold only while some thread is on its    *)
(* way to collect it.                                                      *)
FreeListBounded ==
  Len(free_list) > GcThreshold =>
    \E t \in Threads : pc[t] \in {"length", "collect", "take", "free"}

(* References that are counted though no link and no thread has them any   *)
(* more, and references a link has that are not counted yet.               *)
Owes(t, n) ==
  \/ pc[t] \in {"check", "decrement"} /\ lo[t].ref = n
  \/ /\ lo[t].call = "store_ref" /\ lo[t].old.node = n
     /\ pc[t] \in {"read_updating", "read_count", "increment"}
  \/ pc[t] \in {"swap_inc", "swap_dec"} /\ lo[t].old.node = n
Uncounted(t, n) ==
  \/ /\ lo[t].call = "store_ref" /\ lo[t].ref = n
     /\ pc[t] \in {"read_updating", "read_count", "increment"}
  \/ pc[t] = "swap_inc" /\ lo[t].ref = n

References(n) ==
  FoldFunction(+, 0, [t \in Threads |-> held[t][n]])
    + Cardinality({t \in Threads : link[t].node = n})

(* As long as a link has one user, the count of a node is the number of    *)
(* references to it, corrected for the calls in progress, whichever        *)
(* threads retain, release, store and swap it at the same time.            *)
CountExact ==
  \A n \in Nodes :
    count[n] = References(n) + Cardinality({t \in Threads : Owes(t, n)})
                             - Cardinality({t \in Threads : Uncounted(t, n)})

(* "If this callback is being called, there is no possibility for the node *)
(* to be referenced anymore": a node that gc frees, or that waits for it,  *)
(* or that new_node may give out again, is held by no thread and no link.  *)
FreedUnreferenced ==
  \A n \in Nodes :
    In(n, free_list) \/ In(n, node_pool) \/ (\E t \in Threads : Frees(t, n))
      => References(n) = 0

=============================================================================
