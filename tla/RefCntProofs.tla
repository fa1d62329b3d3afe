---------------------------- MODULE RefCntProofs ----------------------------
(***************************************************************************)
(* Theorems about the reference counts of RefCnt, for every number of      *)
(* threads and nodes, every threshold, and clients that share their links  *)
(* or do not.                                                              *)
(***************************************************************************)
EXTENDS RefCnt, TLAPS

-----------------------------------------------------------------------------
(* Types *)

(* The fields of the locals of a call, and what may be put in them.        *)
LEMMA LocalsFields ==
  ASSUME NEW x \in Locals
  PROVE  /\ x.call \in Calls /\ x.link \in Threads \union {NULL} /\ x.ref \in Ref
         /\ x.old \in Link /\ x.old.node \in Ref
         /\ \A r \in Ref : /\ [x EXCEPT !.ref = r] \in Locals
                          /\ [x EXCEPT !.ref = r].ref = r
                          /\ [x EXCEPT !.ref = r].link = x.link
                          /\ [x EXCEPT !.ref = r].old = x.old
         /\ \A l \in Link : /\ [x EXCEPT !.old = l] \in Locals
                           /\ [x EXCEPT !.old = l].old = l
                           /\ [x EXCEPT !.old = l].ref = x.ref
                           /\ [x EXCEPT !.old = l].link = x.link
  BY DEF Locals, Link

(* The links a client can meet.                                            *)
LEMMA LinkFields ==
  /\ \A r \in Ref : Unmarked(r) \in Link /\ Unmarked(r).node = r
  /\ \A l \in Link : /\ l.node \in Ref /\ l.mark \in BOOLEAN
                    /\ [l EXCEPT !.mark = TRUE] \in Link
                    /\ [l EXCEPT !.mark = TRUE].node = l.node
  /\ NULL \in Ref /\ Nodes \subseteq Ref
  BY DEF Link, Unmarked, Ref

(* The locals outside a call and at the start of each call.                *)
LEMMA NoCallLocals ==
  ASSUME NEW l \in Threads
  PROVE  /\ NoCall \in Locals /\ Fits("idle", NoCall)
         /\ NoCall.ref = NULL /\ NoCall.old.node = NULL
  BY LinkFields DEF Locals, NoCall, Unmarked, Calls, Fits

(* The locals of deref_link as it begins.                                  *)
LEMMA DerefLocals ==
  ASSUME NEW l \in Threads, NEW c \in Calls
  PROVE  LET x == [NoCall EXCEPT !.call = c, !.link = l] IN
         x \in Locals /\ Fits("read_link", x) /\ x.ref = NULL /\ x.old.node = NULL
  BY LinkFields DEF Locals, NoCall, Unmarked, Fits

(* The locals of retain_ref and release_ref as they begin.                 *)
LEMMA NodeLocals ==
  ASSUME NEW c \in Calls, NEW n \in Nodes
  PROVE  LET x == [NoCall EXCEPT !.call = c, !.ref = n] IN
         /\ x \in Locals /\ Fits("read_updating", x) /\ Fits("check", x)
         /\ x.ref = n /\ x.old.node = NULL
  BY LinkFields DEF Locals, NoCall, Unmarked, Fits

(* The locals of store_ref as it begins.                                   *)
LEMMA StoreLocals ==
  ASSUME NEW l \in Threads, NEW r \in Ref
  PROVE  LET x == [NoCall EXCEPT !.call = "store_ref", !.link = l, !.ref = r] IN
         x \in Locals /\ Fits("load_old", x) /\ x.ref = r /\ x.old.node = NULL
  BY LinkFields DEF Locals, NoCall, Unmarked, Calls, Fits

(* The locals of compare_and_swap_ref as it begins.                        *)
LEMMA CasLocals ==
  ASSUME NEW l \in Threads, NEW r \in Ref, NEW k \in Ref
  PROVE  LET x == [call |-> "compare_and_swap_ref", link |-> l, ref |-> r,
                   old |-> Unmarked(k)] IN
         x \in Locals /\ Fits("swap", x) /\ x.ref = r /\ x.old.node = k
  BY LinkFields DEF Locals, Unmarked, Calls, Fits

(* Taking the first node of a list.                                        *)
LEMMA Pop ==
  ASSUME NEW s \in Seq(Nodes), s # <<>>
  PROVE  Head(s) \in Nodes /\ Tail(s) \in Seq(Nodes)
  OBVIOUS

(* What a thread holds of a node may change.                               *)
LEMMA HeldType ==
  ASSUME NEW h \in [Threads -> [Nodes -> Nat]], NEW t \in Threads, NEW n \in Nodes,
         NEW v \in Nat
  PROVE  [h EXCEPT ![t][n] = v] \in [Threads -> [Nodes -> Nat]]
<1>1. [h[t] EXCEPT ![n] = v] \in [Nodes -> Nat]
  OBVIOUS
<1>. QED
  BY <1>1

(* A uint32_t stays one.                                                   *)
LEMMA CountType ==
  \A c \in 0 .. CountMod - 1 : Inc(c) \in 0 .. CountMod - 1 /\ Dec(c) \in 0 .. CountMod - 1
  BY RefCntAssumption DEF Inc, Dec

(* The ways a step moves the control of its thread.                        *)
LEMMA Moves ==
  ASSUME ControlOK, NEW t \in Threads, NEW p \in PC
  PROVE  /\ Goto(t, p) /\ UNCHANGED lo /\ Fits(p, lo[t]) => ControlOK'
         /\ Return(t) => ControlOK'
         /\ \A r \in Ref : Goto(t, p) /\ lo' = [lo EXCEPT ![t].ref = r]
                            /\ Fits(p, [lo[t] EXCEPT !.ref = r]) => ControlOK'
         /\ \A k \in Link : Goto(t, p) /\ lo' = [lo EXCEPT ![t].old = k]
                             /\ Fits(p, [lo[t] EXCEPT !.old = k]) => ControlOK'
         /\ \A x \in Locals : Call(t, p, x) /\ Fits(p, x) => ControlOK'
<1>1. lo[t] \in Locals /\ pc[t] \in PC
  BY DEF ControlOK
<1>2. ASSUME NEW q \in PC, NEW x \in Locals, Fits(q, x),
             pc' = [pc EXCEPT ![t] = q], lo' = [lo EXCEPT ![t] = x]
      PROVE  ControlOK'
  BY <1>2 DEF ControlOK
<1>3. Goto(t, p) /\ UNCHANGED lo /\ Fits(p, lo[t]) => ControlOK'
  BY DEF ControlOK, Goto
<1>4. Return(t) => ControlOK'
  <2>1. NoCall \in Locals /\ "idle" \in PC /\ Fits("idle", NoCall)
    BY NoCallLocals DEF PC
  <2>. QED
    BY <1>2, <2>1 DEF Return, Goto
<1>5. ASSUME NEW r \in Ref, Goto(t, p), lo' = [lo EXCEPT ![t].ref = r],
             Fits(p, [lo[t] EXCEPT !.ref = r])
      PROVE  ControlOK'
  <2> DEFINE x == [lo[t] EXCEPT !.ref = r]
  <2>1. x \in Locals
    BY <1>1, LocalsFields
  <2>2. lo' = [lo EXCEPT ![t] = x]
    BY <1>5
  <2>. QED
    BY <1>2, <1>5, <2>1, <2>2 DEF Goto
<1>6. ASSUME NEW k \in Link, Goto(t, p), lo' = [lo EXCEPT ![t].old = k],
             Fits(p, [lo[t] EXCEPT !.old = k])
      PROVE  ControlOK'
  <2> DEFINE x == [lo[t] EXCEPT !.old = k]
  <2>1. x \in Locals
    BY <1>1, LocalsFields
  <2>2. lo' = [lo EXCEPT ![t] = x]
    BY <1>6
  <2>. QED
    BY <1>2, <1>6, <2>1, <2>2 DEF Goto
<1>7. \A x \in Locals : Call(t, p, x) /\ Fits(p, x) => ControlOK'
  BY <1>2 DEF Call, Goto
<1>. QED
  BY <1>3, <1>4, <1>5, <1>6, <1>7

(* Back from retain_ref, store_ref has a node to release.                  *)
LEMMA EndDerefType ==
  ASSUME ControlOK, NEW t \in Threads, EndDeref(t)
  PROVE  ControlOK'
<1>1. lo[t] \in Locals /\ lo[t].old.node \in Ref
  BY LocalsFields DEF ControlOK
<1>2. lo[t].old.node # NULL => lo[t].old.node \in Nodes
  BY <1>1 DEF Ref
<1>3. lo[t].old.node # NULL => Fits("check", [lo[t] EXCEPT !.ref = lo[t].old.node])
  BY <1>1, <1>2, LocalsFields DEF Fits
<1>4. "check" \in PC /\ "idle" \in PC
  BY DEF PC
<1>. QED
  BY <1>1, <1>3, <1>4, Moves DEF EndDeref

(* Every step of a thread inside a call keeps the types of the memory.     *)
LEMMA StepMemory ==
  ASSUME TypeOK, NEW t \in Threads, Step(t)
  PROVE  MemoryOK'
<1>1. lo[t] \in Locals /\ lo[t].ref \in Ref /\ lo[t].old.node \in Ref
  BY LocalsFields DEF TypeOK, ControlOK
<1>2. lo[t].ref # NULL => lo[t].ref \in Nodes
  BY <1>1 DEF Ref
<1>3. lo[t].old.node # NULL => lo[t].old.node \in Nodes
  BY <1>1 DEF Ref
<1>4. Fits(pc[t], lo[t])
  BY DEF TypeOK, ControlOK
<1> USE DEF TypeOK, MemoryOK
<1>5. CASE ReadLink(t) \/ ReadUpdating(t) \/ ReadCount(t) \/ Check(t)
         \/ ReadZero(t) \/ ReadLength(t) \/ Collect(t) \/ LoadOld(t)
  BY <1>5 DEF ReadLink, ReadUpdating, ReadCount, Check, ReadZero, ReadLength, Collect, LoadOld, nodes, lists, clients
<1>6. CASE Increment(t)
  <2>1. lo[t].ref \in Nodes
    BY <1>6, <1>4 DEF Increment, Fits
  <2>2. count' \in [Nodes -> 0 .. CountMod - 1]
    BY <1>6, <2>1, CountType DEF Increment
  <2>3. held' \in [Threads -> [Nodes -> Nat]]
    <3>1. held \in [Threads -> [Nodes -> Nat]] /\ held[t][lo[t].ref] + 1 \in Nat
      BY <2>1
    <3>2. [held EXCEPT ![t][lo[t].ref] = held[t][lo[t].ref] + 1] \in [Threads -> [Nodes -> Nat]]
      BY <2>1, <3>1, HeldType
    <3>3. held' = held \/ held' = [held EXCEPT ![t][lo[t].ref] = held[t][lo[t].ref] + 1]
      BY <1>6 DEF Increment, Hold
    <3>. QED
      BY <3>1, <3>2, <3>3
  <2>. QED
    BY <1>6, <2>2, <2>3 DEF Increment, lists
<1>7. CASE Decrement(t)
  <2>1. lo[t].ref \in Nodes
    BY <1>7, <1>4 DEF Decrement, Fits
  <2>. QED
    BY <1>7, <2>1, CountType DEF Decrement, lists, clients
<1>8. CASE LockNode(t)
  BY <1>8 DEF LockNode, lists, clients
<1>9. CASE Terminate(t)
  <2>1. lo[t].ref \in Nodes
    BY <1>9, <1>4 DEF Terminate, Fits
  <2>. QED
    BY <1>9, <2>1 DEF Terminate, nodes, clients
<1>10. CASE UnlockNode(t)
  BY <1>10 DEF UnlockNode, lists, clients
<1>11. CASE TakeFree(t)
  <2>1. free_list \in Seq(Nodes)
    BY DEF MemoryOK
  <2>2. free_list' \in Seq(Nodes)
    BY <1>11, <2>1, Pop DEF TakeFree
  <2>. QED
    BY <1>11, <2>2 DEF TakeFree, nodes, clients
<1>12. CASE FreeNode(t)
  <2>1. lo[t].ref \in Nodes
    BY <1>12, <1>4 DEF FreeNode, Fits
  <2>. QED
    BY <1>12, <2>1 DEF FreeNode, nodes, clients
<1>13. CASE Store(t)
  BY <1>13, <1>1, LinkFields DEF Store, nodes, lists
<1>14. CASE Swap(t)
  BY <1>14, <1>1, LinkFields DEF Swap, nodes, lists
<1>15. CASE SwapIncrement(t)
  BY <1>15, <1>2, CountType DEF SwapIncrement, lists, clients
<1>16. CASE SwapDecrement(t)
  BY <1>16, <1>3, CountType DEF SwapDecrement, lists, clients
<1>. QED
  BY <1>5, <1>6, <1>7, <1>8, <1>9, <1>10, <1>11, <1>12, <1>13, <1>14, <1>15, <1>16 DEF Step

(* And it keeps the types of its locals.                                   *)
LEMMA StepControl ==
  ASSUME TypeOK, NEW t \in Threads, Step(t)
  PROVE  ControlOK'
<1>1. /\ ControlOK /\ lo[t] \in Locals /\ Fits(pc[t], lo[t])
      /\ \A l \in Threads : link[l] \in Link
  BY DEF TypeOK, ControlOK, MemoryOK
<1>2. CASE ReadUpdating(t)
  <2>1. "read_count" \in PC /\ Fits("read_count", lo[t]) /\ "increment" \in PC /\ Fits("increment", lo[t])
    BY <1>1, <1>2 DEF PC, Fits, ReadUpdating
  <2>. QED
    BY <1>1, <1>2, <2>1, Moves DEF ReadUpdating
<1>3. CASE Check(t)
  <2>1. "decrement" \in PC /\ Fits("decrement", lo[t]) /\ "lock" \in PC /\ Fits("lock", lo[t])
    BY <1>1, <1>3 DEF PC, Fits, Check
  <2>. QED
    BY <1>1, <1>3, <2>1, Moves DEF Check
<1>4. CASE Decrement(t)
  <2>1. "lock" \in PC /\ Fits("lock", lo[t])
    BY <1>1, <1>4 DEF PC, Fits, Decrement
  <2>. QED
    BY <1>1, <1>4, <2>1, Moves DEF Decrement
<1>5. CASE LockNode(t)
  <2>1. "zero" \in PC /\ Fits("zero", lo[t]) /\ "length" \in PC /\ Fits("length", lo[t])
    BY <1>1, <1>5 DEF PC, Fits, LockNode
  <2>. QED
    BY <1>1, <1>5, <2>1, Moves DEF LockNode
<1>6. CASE ReadZero(t)
  <2>1. "terminate" \in PC /\ Fits("terminate", lo[t]) /\ "unlock" \in PC /\ Fits("unlock", lo[t])
    BY <1>1, <1>6 DEF PC, Fits, ReadZero
  <2>. QED
    BY <1>1, <1>6, <2>1, Moves DEF ReadZero
<1>7. CASE Terminate(t)
  <2>1. "length" \in PC /\ Fits("length", lo[t])
    BY <1>1, <1>7 DEF PC, Fits, Terminate
  <2>. QED
    BY <1>1, <1>7, <2>1, Moves DEF Terminate
<1>8. CASE UnlockNode(t)
  <2>1. "length" \in PC /\ Fits("length", lo[t])
    BY <1>1, <1>8 DEF PC, Fits, UnlockNode
  <2>. QED
    BY <1>1, <1>8, <2>1, Moves DEF UnlockNode
<1>9. CASE FreeNode(t)
  <2>1. "collect" \in PC /\ Fits("collect", lo[t])
    BY <1>1, <1>9 DEF PC, Fits, FreeNode
  <2>. QED
    BY <1>1, <1>9, <2>1, Moves DEF FreeNode
<1>10. CASE SwapIncrement(t)
  <2>1. "swap_dec" \in PC /\ Fits("swap_dec", lo[t])
    BY <1>1, <1>10 DEF PC, Fits, SwapIncrement
  <2>. QED
    BY <1>1, <1>10, <2>1, Moves DEF SwapIncrement
<1>11. CASE ReadLink(t)
  <2>1. lo[t].link \in Threads
    BY <1>1, <1>11 DEF ReadLink, Fits
  <2> DEFINE r == link[lo[t].link].node
  <2>2. r \in Ref /\ (r # NULL => r \in Nodes)
    BY <1>1, <2>1, LinkFields DEF Ref
  <2>3. r # NULL => Fits("read_updating", [lo[t] EXCEPT !.ref = r])
    BY <1>1, <2>2, LocalsFields DEF Fits
  <2>4. "read_updating" \in PC
    BY DEF PC
  <2>. QED
    BY <1>1, <1>11, <2>2, <2>3, <2>4, Moves DEF ReadLink
<1>12. CASE ReadCount(t)
  <2>1. "increment" \in PC /\ Fits("increment", lo[t])
    BY <1>1, <1>12 DEF PC, Fits, ReadCount
  <2>. QED
    BY <1>1, <1>12, <2>1, Moves, EndDerefType DEF ReadCount
<1>13. CASE Increment(t)
  BY <1>1, <1>13, EndDerefType DEF Increment
<1>14. CASE ReadLength(t)
  <2>1. "collect" \in PC /\ Fits("collect", lo[t])
    BY DEF PC, Fits
  <2>. QED
    BY <1>1, <1>14, <2>1, Moves DEF ReadLength
<1>15. CASE Collect(t)
  <2>1. "take" \in PC /\ Fits("take", lo[t])
    BY DEF PC, Fits
  <2>. QED
    BY <1>1, <1>15, <2>1, Moves DEF Collect
<1>16. CASE TakeFree(t)
  <2> DEFINE r == Head(free_list)
  <2>1. free_list # <<>> => r \in Nodes /\ r \in Ref
    BY LinkFields DEF TypeOK, MemoryOK
  <2>2. free_list # <<>> => Fits("free", [lo[t] EXCEPT !.ref = r])
    BY <1>1, <2>1, LocalsFields DEF Fits
  <2>3. "free" \in PC
    BY DEF PC
  <2>. QED
    BY <1>1, <1>16, <2>1, <2>2, <2>3, Moves DEF TakeFree
<1>17. CASE LoadOld(t)
  <2> DEFINE k == link[lo[t].link]
  <2>1. lo[t].link \in Threads /\ k \in Link
    BY <1>1, <1>17 DEF LoadOld, Fits
  <2>2. "store" \in PC /\ Fits("store", [lo[t] EXCEPT !.old = k])
    BY <1>1, <2>1, LocalsFields DEF PC, Fits
  <2>. QED
    BY <1>1, <1>17, <2>1, <2>2, Moves DEF LoadOld
<1>18. CASE Store(t)
  <2>1. "load_old" \in PC /\ Fits("load_old", lo[t])
    BY <1>1, <1>18 DEF PC, Fits, Store
  <2>2. lo[t].ref # NULL => "read_updating" \in PC /\ Fits("read_updating", lo[t])
    BY <1>1, LocalsFields DEF PC, Fits, Ref
  <2>. QED
    BY <1>1, <1>18, <2>1, <2>2, Moves, EndDerefType DEF Store
<1>19. CASE Swap(t)
  <2>1. "swap_inc" \in PC /\ Fits("swap_inc", lo[t])
    BY DEF PC, Fits
  <2>. QED
    BY <1>1, <1>19, <2>1, Moves DEF Swap
<1>20. CASE SwapDecrement(t)
  <2>1. "idle" \in PC
    BY DEF PC
  <2>. QED
    BY <1>1, <1>20, <2>1, Moves DEF SwapDecrement
<1>. QED
  BY <1>2, <1>3, <1>4, <1>5, <1>6, <1>7, <1>8, <1>9, <1>10, <1>11, <1>12, <1>13, <1>14, <1>15, <1>16, <1>17, <1>18, <1>19, <1>20 DEF Step

(* So does every start of a call, and what the clients do on their own.    *)
LEMMA BeginType ==
  ASSUME TypeOK, NEW t \in Threads, Begin(t)
  PROVE  TypeOK'
<1>1. MemoryOK /\ ControlOK /\ (UNCHANGED control => ControlOK')
  BY DEF TypeOK, ControlOK, control
<1>2. UNCHANGED <<nodes, lists, clients, destroyed>> => MemoryOK'
  BY <1>1 DEF MemoryOK, nodes, lists, clients
<1>3. CASE NewNode(t)
  <2>1. PICK n \in Nodes :
          /\ \/ n = Head(node_pool) /\ node_pool' = Tail(node_pool) /\ node_pool # <<>>
                /\ fresh' = fresh
             \/ fresh' = fresh \ {n} /\ node_pool' = node_pool
          /\ count' = [count EXCEPT ![n] = 1] /\ updating' = [updating EXCEPT ![n] = 0]
          /\ held' = [held EXCEPT ![t][n] = @ + 1]
    BY <1>3 DEF NewNode, Hold
  <2>2. node_pool' \in Seq(Nodes) /\ fresh' \subseteq Nodes
    BY <1>1, <2>1, Pop DEF MemoryOK
  <2>3. 1 \in 0 .. CountMod - 1
    BY RefCntAssumption
  <2>4. held' \in [Threads -> [Nodes -> Nat]]
    BY <1>1, <2>1 DEF MemoryOK
  <2>. QED
    BY <1>1, <1>3, <2>1, <2>2, <2>3, <2>4 DEF NewNode, TypeOK, MemoryOK
<1>4. ASSUME NEW l \in Threads, NEW c \in {"deref_link", "deref_link_d"}, CallDeref(t, l, c)
      PROVE  TypeOK'
  <2> DEFINE x == [NoCall EXCEPT !.call = c, !.link = l]
  <2>1. x \in Locals /\ "read_link" \in PC /\ Fits("read_link", x)
    BY DerefLocals DEF Calls, PC
  <2>. QED
    BY <1>1, <1>2, <1>4, <2>1, Moves DEF CallDeref, TypeOK
<1>5. ASSUME NEW n \in Nodes, CallRetain(t, n)
      PROVE  TypeOK'
  <2> DEFINE x == [NoCall EXCEPT !.call = "retain_ref", !.ref = n]
  <2>1. x \in Locals /\ "read_updating" \in PC /\ Fits("read_updating", x)
    BY NodeLocals DEF Calls, PC
  <2>. QED
    BY <1>1, <1>2, <1>5, <2>1, Moves DEF CallRetain, TypeOK
<1>6. ASSUME NEW n \in Nodes, CallRelease(t, n)
      PROVE  TypeOK'
  <2> DEFINE x == [NoCall EXCEPT !.call = "release_ref", !.ref = n]
  <2>1. x \in Locals /\ "check" \in PC /\ Fits("check", x)
    BY NodeLocals DEF Calls, PC
  <2>2. held[t][n] \in Nat /\ held[t][n] - 1 \in Nat
    BY <1>1, <1>6 DEF CallRelease, MemoryOK
  <2>3. held' \in [Threads -> [Nodes -> Nat]]
    BY <1>1, <1>6, <2>2 DEF CallRelease, Drop, MemoryOK
  <2>4. MemoryOK'
    BY <1>1, <1>6, <2>3 DEF CallRelease, MemoryOK, nodes, lists
  <2>. QED
    BY <1>1, <1>6, <2>1, <2>4, Moves DEF CallRelease, TypeOK
<1>7. ASSUME NEW l \in Threads, NEW n \in Ref, CallStore(t, l, n)
      PROVE  TypeOK'
  <2> DEFINE x == [NoCall EXCEPT !.call = "store_ref", !.link = l, !.ref = n]
  <2>1. x \in Locals /\ "load_old" \in PC /\ Fits("load_old", x)
    BY StoreLocals DEF Calls, PC
  <2>. QED
    BY <1>1, <1>2, <1>7, <2>1, Moves DEF CallStore, TypeOK
<1>8. ASSUME NEW l \in Threads, NEW k \in Ref, NEW n \in Ref, CallCas(t, l, k, n)
      PROVE  TypeOK'
  <2> DEFINE x == [call |-> "compare_and_swap_ref", link |-> l, ref |-> n,
                   old |-> Unmarked(k)]
  <2>1. x \in Locals /\ "swap" \in PC /\ Fits("swap", x)
    BY CasLocals DEF Calls, PC
  <2>. QED
    BY <1>1, <1>2, <1>8, <2>1, Moves DEF CallCas, TypeOK
<1>9. ASSUME NEW l \in Threads, MarkLink(t, l)
      PROVE  TypeOK'
  <2>1. link' \in [Threads -> Link]
    BY <1>1, <1>9, LinkFields DEF MarkLink, MemoryOK
  <2>. QED
    BY <1>1, <1>9, <2>1 DEF MarkLink, nodes, lists, TypeOK, MemoryOK
<1>10. ASSUME NEW u \in Threads, NEW n \in Nodes, HandOver(t, u, n)
       PROVE  TypeOK'
  <2>1. /\ held[t][n] - 1 \in Nat /\ held[u][n] + 1 \in Nat
        /\ held[t] \in [Nodes -> Nat] /\ held[u] \in [Nodes -> Nat]
    BY <1>1, <1>10 DEF HandOver, MemoryOK
  <2>2. held' \in [Threads -> [Nodes -> Nat]]
    BY <1>1, <1>10, <2>1 DEF HandOver, MemoryOK
  <2>. QED
    BY <1>1, <1>10, <2>2 DEF HandOver, nodes, lists, TypeOK, MemoryOK
<1>. QED
  BY <1>3, <1>4, <1>5, <1>6, <1>7, <1>8, <1>9, <1>10 DEF Begin

(* refcnt_create makes a well-typed state.                                 *)
LEMMA InitType == Init => TypeOK
<1> SUFFICES ASSUME Init PROVE TypeOK
  OBVIOUS
<1>1. MemoryOK
  <2>1. 0 \in 0 .. CountMod - 1 /\ 0 \in {0, 1} /\ 0 \in Nat
    BY RefCntAssumption
  <2>2. <<>> \in Seq(Nodes) /\ Unmarked(NULL) \in Link
    BY LinkFields
  <2>. QED
    BY <2>1, <2>2 DEF Init, MemoryOK
<1>2. \A t \in Threads : NoCall \in Locals
  BY NoCallLocals
<1>3. ControlOK
  BY <1>2 DEF Init, ControlOK, Fits, PC
<1>. QED
  BY <1>1, <1>3 DEF TypeOK

(* Every step keeps the types.                                             *)
LEMMA NextType == TypeOK /\ [Next]_vars => TypeOK'
<1> SUFFICES ASSUME TypeOK, [Next]_vars PROVE TypeOK'
  OBVIOUS
<1>1. CASE Destroy
  BY <1>1 DEF TypeOK, MemoryOK, ControlOK, Destroy, nodes, clients, control
<1>2. CASE UNCHANGED vars
  BY <1>2 DEF TypeOK, MemoryOK, ControlOK, vars, nodes, lists, clients, control
<1>3. ASSUME NEW t \in Threads, Step(t) PROVE TypeOK'
  BY <1>3, StepMemory, StepControl DEF TypeOK
<1>. QED
  BY <1>1, <1>2, <1>3, BeginType DEF Next

(* The nodes, the lists and the locals of the calls keep their types: in   *)
(* particular a count stays a uint32_t, and a thread that works on a node  *)
(* has one.                                                                *)
THEOREM TypeCorrect == Spec => []TypeOK
  BY InitType, NextType, PTL DEF Spec

-----------------------------------------------------------------------------
(* One place *)

Has(t, n) == Locks(t, n) \/ Frees(t, n)

(* What new_node has not given out is known to nobody.                     *)
Known ==
  \A n \in fresh, t \in Threads :
    held[t][n] = 0 /\ link[t].node # n /\ lo[t].ref # n /\ lo[t].old.node # n

(* updating is set from the CAS of the release that terminates a node to   *)
(* the new_node that gives it out again.                                   *)
Flagged ==
  \A n \in Nodes :
    In(n, free_list) \/ In(n, node_pool) \/ (\E t \in Threads : Has(t, n))
      => updating[n] = 1

Placed == OnePlace /\ Flagged

(* Lists that grow at the end and shrink at the front.                     *)
LEMMA ListFacts ==
  ASSUME NEW s \in Seq(Nodes), NEW m \in Nodes
  PROVE  /\ \A n \in Nodes : In(n, Append(s, m)) <=> In(n, s) \/ n = m
         /\ NoRepeats(s) /\ ~In(m, s) => NoRepeats(Append(s, m))
         /\ s # <<>> /\ NoRepeats(s) =>
              /\ NoRepeats(Tail(s)) /\ In(Head(s), s) /\ ~In(Head(s), Tail(s))
              /\ \A n \in Nodes : In(n, Tail(s)) => In(n, s)
<1>1. ASSUME NEW n \in Nodes PROVE In(n, Append(s, m)) <=> In(n, s) \/ n = m
  <2>1. /\ Len(Append(s, m)) = Len(s) + 1 /\ Append(s, m)[Len(s) + 1] = m
        /\ \A i \in 1 .. Len(s) : Append(s, m)[i] = s[i]
    OBVIOUS
  <2>2. In(n, Append(s, m)) => In(n, s) \/ n = m
    BY <2>1 DEF In
  <2>3. In(n, s) => In(n, Append(s, m))
    BY <2>1 DEF In
  <2>4. n = m => In(n, Append(s, m))
    BY <2>1 DEF In
  <2>. QED
    BY <2>2, <2>3, <2>4
<1>2. NoRepeats(s) /\ ~In(m, s) => NoRepeats(Append(s, m))
  BY DEF In, NoRepeats
<1>3. ASSUME s # <<>>, NoRepeats(s)
      PROVE  /\ NoRepeats(Tail(s)) /\ In(Head(s), s) /\ ~In(Head(s), Tail(s))
             /\ \A n \in Nodes : In(n, Tail(s)) => In(n, s)
  <2>1. /\ Len(s) \in Nat /\ Len(s) > 0 /\ Len(Tail(s)) = Len(s) - 1 /\ Head(s) = s[1]
        /\ \A i \in 1 .. Len(s) - 1 : Tail(s)[i] = s[i + 1]
    BY <1>3
  <2>. QED
    BY <1>3, <2>1 DEF In, NoRepeats
<1>. QED
  BY <1>1, <1>2, <1>3

(* A step that leaves the lists and the flags alone, and takes hold of no  *)
(* node, keeps every node in its place.                                    *)
LEMMA Quiet ==
  ASSUME Placed, UNCHANGED <<free_list, node_pool, fresh, updating>>,
         \A u \in Threads, n \in Nodes : Has(u, n)' => Has(u, n)
  PROVE  Placed'
<1>1. \A n \in Nodes : /\ In(n, free_list)' <=> In(n, free_list)
                       /\ In(n, node_pool)' <=> In(n, node_pool)
  BY DEF In
<1>2. OnePlace'
  BY <1>1 DEF Placed, OnePlace, NoRepeats, Has
<1>3. Flagged'
  BY <1>1 DEF Placed, Flagged
<1>. QED
  BY <1>2, <1>3 DEF Placed

(* A step of one thread does not change what the others have.              *)
LEMMA HasOthers ==
  ASSUME ControlOK, NEW t \in Threads, NEW p,
         pc' = [pc EXCEPT ![t] = p], \A u \in Threads \ {t} : lo'[u] = lo[u]
  PROVE  \A u \in Threads \ {t}, n \in Nodes : Has(u, n)' <=> Has(u, n)
  BY DEF Has, Locks, Frees, ControlOK

(* A step after which its thread has nothing new.                          *)
LEMMA QuietMove ==
  ASSUME TypeOK, Placed, NEW t \in Threads, NEW p,
         pc' = [pc EXCEPT ![t] = p], \A u \in Threads \ {t} : lo'[u] = lo[u],
         UNCHANGED <<free_list, node_pool, fresh, updating>>,
         \/ p \notin {"zero", "terminate", "unlock", "free"}
         \/ pc[t] \in {"zero", "terminate", "unlock"} /\ p # "free" /\ lo' = lo
  PROVE  Placed'
<1>1. \A u \in Threads \ {t}, n \in Nodes : Has(u, n)' <=> Has(u, n)
  BY HasOthers DEF TypeOK
<1>2. \A n \in Nodes : Has(t, n)' => Has(t, n)
  BY DEF Has, Locks, Frees, TypeOK, ControlOK
<1>. QED
  BY <1>1, <1>2, Quiet

(* A step of a thread inside a call keeps every node in its place.         *)
LEMMA StepPlaced ==
  ASSUME TypeOK, Placed, Known, NEW t \in Threads, Step(t)
  PROVE  Placed'
<1>1. /\ lo \in [Threads -> Locals] /\ pc \in [Threads -> PC] /\ Fits(pc[t], lo[t])
      /\ free_list \in Seq(Nodes) /\ node_pool \in Seq(Nodes) /\ fresh \subseteq Nodes
      /\ updating \in [Nodes -> {0, 1}]
  BY DEF TypeOK, MemoryOK, ControlOK
<1>2. CASE ReadLink(t)
  BY <1>1, <1>2, QuietMove DEF ReadLink, Goto, Return, nodes, lists
<1>3. CASE ReadUpdating(t)
  BY <1>1, <1>3, QuietMove DEF ReadUpdating, Goto, nodes, lists
<1>4. CASE ReadCount(t)
  BY <1>1, <1>4, QuietMove DEF ReadCount, Goto, Return, EndDeref, nodes, lists
<1>5. CASE Increment(t)
  BY <1>1, <1>5, QuietMove DEF Increment, Goto, Return, EndDeref, Hold, lists
<1>6. CASE Check(t)
  BY <1>1, <1>6, QuietMove DEF Check, Goto, nodes, lists
<1>7. CASE Decrement(t)
  BY <1>1, <1>7, QuietMove DEF Decrement, Goto, lists
<1>8. CASE ReadZero(t)
  BY <1>1, <1>8, QuietMove DEF ReadZero, Goto, nodes, lists
<1>9. CASE ReadLength(t)
  BY <1>1, <1>9, QuietMove DEF ReadLength, Goto, Return, nodes, lists
<1>10. CASE Collect(t)
  BY <1>1, <1>10, QuietMove DEF Collect, Goto, Return, nodes, lists
<1>11. CASE LoadOld(t)
  BY <1>1, <1>11, QuietMove DEF LoadOld, Goto, nodes, lists
<1>12. CASE Store(t)
  BY <1>1, <1>12, QuietMove DEF Store, Goto, Return, EndDeref, nodes, lists
<1>13. CASE Swap(t)
  BY <1>1, <1>13, QuietMove DEF Swap, Goto, Return, nodes, lists
<1>14. CASE SwapIncrement(t)
  BY <1>1, <1>14, QuietMove DEF SwapIncrement, Goto, lists
<1>15. CASE SwapDecrement(t)
  BY <1>1, <1>15, QuietMove DEF SwapDecrement, Goto, Return, lists
<1>16. CASE LockNode(t)
  <2> DEFINE m == lo[t].ref
  <2>1. m \in Nodes
    BY <1>1, <1>16 DEF LockNode, Fits
  <2>2. \A u \in Threads \ {t}, n \in Nodes : Has(u, n)' <=> Has(u, n)
    BY <1>1, <1>16, HasOthers DEF LockNode, Goto, TypeOK
  <2>3. CASE updating[m] = 1
    <3>1. UNCHANGED updating
      BY <1>1, <1>16, <2>1, <2>3 DEF LockNode
    <3>2. pc' = [pc EXCEPT ![t] = "length"] /\ UNCHANGED <<lo, lists>>
      BY <1>16, <2>3 DEF LockNode, Goto
    <3>. QED
      BY <3>1, <3>2, QuietMove DEF lists
  <2>4. CASE updating[m] = 0
    <3>1. /\ ~In(m, free_list) /\ ~In(m, node_pool) /\ m \notin fresh
          /\ \A u \in Threads : ~Has(u, m)
      BY <1>1, <2>1, <2>4 DEF Placed, Flagged, Known
    <3>2. \A n \in Nodes : Has(t, n)' <=> n = m
      BY <1>1, <1>16, <2>4 DEF LockNode, Goto, Has, Locks, Frees
    <3>3. UNCHANGED <<free_list, node_pool, fresh>> /\ updating' = [updating EXCEPT ![m] = 1]
      BY <1>16 DEF LockNode, lists
    <3>4. \A n \in Nodes : /\ In(n, free_list)' <=> In(n, free_list)
                           /\ In(n, node_pool)' <=> In(n, node_pool)
      BY <3>3 DEF In
    <3> HIDE DEF m
    <3>5. OnePlace'
      BY <2>2, <3>1, <3>2, <3>3, <3>4 DEF Placed, OnePlace, NoRepeats, Has
    <3>6. Flagged'
      BY <1>1, <2>1, <2>2, <3>2, <3>3, <3>4 DEF Placed, Flagged
    <3>. QED
      BY <3>5, <3>6 DEF Placed
  <2>. QED
    BY <1>1, <2>1, <2>3, <2>4
<1>17. CASE Terminate(t)
  <2> DEFINE m == lo[t].ref
  <2>1. m \in Nodes
    BY <1>1, <1>17 DEF Terminate, Fits
  <2>2. \A u \in Threads \ {t}, n \in Nodes : Has(u, n)' <=> Has(u, n)
    BY <1>1, <1>17, HasOthers DEF Terminate, Goto, TypeOK
  <2>3. Has(t, m) /\ \A n \in Nodes : ~Has(t, n)'
    BY <1>1, <1>17 DEF Terminate, Goto, Has, Locks, Frees
  <2>4. free_list' = Append(free_list, m) /\ UNCHANGED <<node_pool, fresh, updating>>
    BY <1>17 DEF Terminate, nodes
  <2>5. /\ ~In(m, free_list) /\ ~In(m, node_pool) /\ m \notin fresh /\ updating[m] = 1
        /\ \A u \in Threads : Has(u, m) => u = t
    BY <2>1, <2>3 DEF Placed, OnePlace, Flagged, Has
  <2> HIDE DEF m
  <2>6. \A n \in Nodes : /\ In(n, free_list)' <=> In(n, free_list) \/ n = m
                         /\ In(n, node_pool)' <=> In(n, node_pool)
    <3>1. \A n \in Nodes : In(n, Append(free_list, m)) <=> In(n, free_list) \/ n = m
      BY <1>1, <2>1, ListFacts
    <3>. QED
      BY <2>4, <3>1 DEF In
  <2>7. NoRepeats(free_list)' /\ NoRepeats(node_pool)'
    <3>1. NoRepeats(free_list) /\ NoRepeats(node_pool)
      BY DEF Placed, OnePlace
    <3>2. NoRepeats(Append(free_list, m))
      BY <1>1, <2>1, <2>5, <3>1, ListFacts
    <3>. QED
      BY <2>4, <3>1, <3>2 DEF NoRepeats
  <2>8. OnePlace'
    <3>1. ASSUME NEW n \in Nodes, NEW u \in Threads, Has(u, n)'
          PROVE  Has(u, n) /\ n # m /\ u # t
      BY <2>2, <2>3, <2>5, <3>1
    <3>2. ASSUME NEW n \in Nodes
          PROVE  /\ ~(In(n, free_list)' /\ In(n, node_pool)')
                 /\ n \in fresh' => ~In(n, free_list)' /\ ~In(n, node_pool)'
      BY <2>4, <2>5, <2>6 DEF Placed, OnePlace
    <3>3. ASSUME NEW n \in Nodes, NEW u \in Threads, Has(u, n)'
          PROVE  ~In(n, free_list)' /\ ~In(n, node_pool)' /\ n \notin fresh'
      BY <2>4, <2>6, <3>1, <3>3 DEF Placed, OnePlace, Has
    <3>4. ASSUME NEW n \in Nodes, NEW u \in Threads, NEW v \in Threads,
                 Has(u, n)', Has(v, n)'
          PROVE  u = v
      BY <3>1, <3>4 DEF Placed, OnePlace, Has
    <3>. QED
      BY <2>7, <3>2, <3>3, <3>4 DEF OnePlace, Has
  <2>9. Flagged'
    BY <2>2, <2>3, <2>4, <2>5, <2>6 DEF Placed, Flagged
  <2>. QED
    BY <2>8, <2>9 DEF Placed
<1>18. CASE UnlockNode(t)
  <2> DEFINE m == lo[t].ref
  <2>1. m \in Nodes
    BY <1>1, <1>18 DEF UnlockNode, Fits
  <2>2. \A u \in Threads \ {t}, n \in Nodes : Has(u, n)' <=> Has(u, n)
    BY <1>1, <1>18, HasOthers DEF UnlockNode, Goto, TypeOK
  <2>3. Has(t, m) /\ \A n \in Nodes : ~Has(t, n)'
    BY <1>1, <1>18 DEF UnlockNode, Goto, Has, Locks, Frees
  <2>4. UNCHANGED <<free_list, node_pool, fresh>> /\ updating' = [updating EXCEPT ![m] = 0]
    BY <1>18 DEF UnlockNode, lists
  <2>5. /\ ~In(m, free_list) /\ ~In(m, node_pool)
        /\ \A u \in Threads : Has(u, m) => u = t
    BY <2>1, <2>3 DEF Placed, OnePlace, Has
  <2> HIDE DEF m
  <2>6. \A n \in Nodes : /\ In(n, free_list)' <=> In(n, free_list)
                         /\ In(n, node_pool)' <=> In(n, node_pool)
    BY <2>4 DEF In
  <2>7. OnePlace'
    BY <2>2, <2>3, <2>4, <2>5, <2>6 DEF Placed, OnePlace, NoRepeats, Has
  <2>8. Flagged'
    BY <1>1, <2>1, <2>2, <2>3, <2>4, <2>5, <2>6 DEF Placed, Flagged
  <2>. QED
    BY <2>7, <2>8 DEF Placed
<1>19. CASE TakeFree(t)
  <2>1. CASE free_list = <<>>
    BY <1>1, <1>19, <2>1, QuietMove DEF TakeFree, Goto, Return, nodes
  <2>2. CASE free_list # <<>>
    <3> DEFINE m == Head(free_list)
    <3>1. m \in Nodes /\ In(m, free_list)
      BY <1>1, <2>2, Pop, ListFacts DEF Placed, OnePlace
    <3>2. \A u \in Threads \ {t}, n \in Nodes : Has(u, n)' <=> Has(u, n)
      BY <1>1, <1>19, <2>2, HasOthers DEF TakeFree, Goto, TypeOK
    <3>3. lo'[t].ref = m /\ pc'[t] = "free" /\ \A n \in Nodes : ~Has(t, n)
      <4>1. lo' = [lo EXCEPT ![t] = [lo[t] EXCEPT !.ref = m]] /\ pc[t] = "take"
            /\ pc' = [pc EXCEPT ![t] = "free"]
        BY <1>19, <2>2 DEF TakeFree, Goto
      <4>2. [lo[t] EXCEPT !.ref = m].ref = m
        BY <1>1, <3>1, LocalsFields, LinkFields
      <4>. QED
        BY <1>1, <4>1, <4>2 DEF Has, Locks, Frees
    <3>4. \A n \in Nodes : Has(t, n)' <=> n = m
      BY <3>3 DEF Has, Locks, Frees
    <3>5. free_list' = Tail(free_list) /\ UNCHANGED <<node_pool, fresh, updating>>
      BY <1>19, <2>2 DEF TakeFree, nodes
    <3>6. /\ ~In(m, node_pool) /\ m \notin fresh /\ updating[m] = 1
          /\ \A u \in Threads : ~Has(u, m)
      BY <3>1 DEF Placed, OnePlace, Flagged, Has
    <3>7. /\ NoRepeats(free_list)' /\ ~In(m, free_list')
          /\ \A n \in Nodes : In(n, free_list)' => In(n, free_list)
      <4>1. /\ NoRepeats(Tail(free_list)) /\ ~In(m, Tail(free_list))
            /\ \A n \in Nodes : In(n, Tail(free_list)) => In(n, free_list)
        BY <1>1, <2>2, <3>1, ListFacts DEF Placed, OnePlace
      <4>. QED
        BY <3>5, <4>1 DEF NoRepeats, In
    <3>8. NoRepeats(node_pool)' /\ \A n \in Nodes : In(n, node_pool)' <=> In(n, node_pool)
      BY <3>5 DEF Placed, OnePlace, NoRepeats, In
    <3> HIDE DEF m
    <3>9. OnePlace'
      BY <3>2, <3>4, <3>5, <3>6, <3>7, <3>8 DEF Placed, OnePlace, Has
    <3>10. Flagged'
      BY <3>2, <3>4, <3>5, <3>6, <3>7, <3>8 DEF Placed, Flagged
    <3>. QED
      BY <3>9, <3>10 DEF Placed
  <2>. QED
    BY <2>1, <2>2
<1>20. CASE FreeNode(t)
  <2> DEFINE m == lo[t].ref
  <2>1. m \in Nodes
    BY <1>1, <1>20 DEF FreeNode, Fits
  <2>2. \A u \in Threads \ {t}, n \in Nodes : Has(u, n)' <=> Has(u, n)
    BY <1>1, <1>20, HasOthers DEF FreeNode, Goto, TypeOK
  <2>3. Has(t, m) /\ \A n \in Nodes : ~Has(t, n)'
    BY <1>1, <1>20 DEF FreeNode, Goto, Has, Locks, Frees
  <2>4. node_pool' = Append(node_pool, m) /\ UNCHANGED <<free_list, fresh, updating>>
    BY <1>20 DEF FreeNode, nodes
  <2>5. /\ ~In(m, free_list) /\ ~In(m, node_pool) /\ m \notin fresh /\ updating[m] = 1
        /\ \A u \in Threads : Has(u, m) => u = t
    BY <2>1, <2>3 DEF Placed, OnePlace, Flagged, Has
  <2> HIDE DEF m
  <2>6. \A n \in Nodes : /\ In(n, node_pool)' <=> In(n, node_pool) \/ n = m
                         /\ In(n, free_list)' <=> In(n, free_list)
    <3>1. \A n \in Nodes : In(n, Append(node_pool, m)) <=> In(n, node_pool) \/ n = m
      BY <1>1, <2>1, ListFacts
    <3>. QED
      BY <2>4, <3>1 DEF In
  <2>7. NoRepeats(free_list)' /\ NoRepeats(node_pool)'
    <3>1. NoRepeats(node_pool) /\ NoRepeats(free_list)
      BY DEF Placed, OnePlace
    <3>2. NoRepeats(Append(node_pool, m))
      BY <1>1, <2>1, <2>5, <3>1, ListFacts
    <3>. QED
      BY <2>4, <3>1, <3>2 DEF NoRepeats
  <2>8. OnePlace'
    <3>1. ASSUME NEW n \in Nodes, NEW u \in Threads, Has(u, n)'
          PROVE  Has(u, n) /\ n # m /\ u # t
      BY <2>2, <2>3, <2>5, <3>1
    <3>2. ASSUME NEW n \in Nodes
          PROVE  /\ ~(In(n, free_list)' /\ In(n, node_pool)')
                 /\ n \in fresh' => ~In(n, free_list)' /\ ~In(n, node_pool)'
      BY <2>4, <2>5, <2>6 DEF Placed, OnePlace
    <3>3. ASSUME NEW n \in Nodes, NEW u \in Threads, Has(u, n)'
          PROVE  ~In(n, free_list)' /\ ~In(n, node_pool)' /\ n \notin fresh'
      BY <2>4, <2>6, <3>1, <3>3 DEF Placed, OnePlace, Has
    <3>4. ASSUME NEW n \in Nodes, NEW u \in Threads, NEW v \in Threads,
                 Has(u, n)', Has(v, n)'
          PROVE  u = v
      BY <3>1, <3>4 DEF Placed, OnePlace, Has
    <3>. QED
      BY <2>7, <3>2, <3>3, <3>4 DEF OnePlace, Has
  <2>9. Flagged'
    BY <2>2, <2>3, <2>4, <2>5, <2>6 DEF Placed, Flagged
  <2>. QED
    BY <2>8, <2>9 DEF Placed
<1>. QED
  BY <1>2, <1>3, <1>4, <1>5, <1>6, <1>7, <1>8, <1>9, <1>10, <1>11, <1>12, <1>13, <1>14, <1>15, <1>16, <1>17, <1>18, <1>19, <1>20 DEF Step

(* So does new_node, and so do the starts of the calls.                    *)
LEMMA BeginPlaced ==
  ASSUME TypeOK, Placed, Known, NEW t \in Threads, Begin(t)
  PROVE  Placed'
<1>1. /\ free_list \in Seq(Nodes) /\ node_pool \in Seq(Nodes) /\ fresh \subseteq Nodes
      /\ updating \in [Nodes -> {0, 1}] /\ lo \in [Threads -> Locals]
  BY DEF TypeOK, MemoryOK, ControlOK
<1>2. UNCHANGED control => \A u \in Threads, n \in Nodes : Has(u, n)' <=> Has(u, n)
  BY DEF control, Has, Locks, Frees
<1>3. CASE NewNode(t)
  <2>1. PICK m \in Nodes :
          /\ \/ m = Head(node_pool) /\ node_pool' = Tail(node_pool) /\ node_pool # <<>>
                /\ fresh' = fresh
             \/ m \in fresh /\ fresh' = fresh \ {m} /\ node_pool' = node_pool
          /\ updating' = [updating EXCEPT ![m] = 0]
          /\ UNCHANGED <<free_list, control>>
    BY <1>3 DEF NewNode
  <2>2. /\ NoRepeats(node_pool') /\ ~In(m, node_pool')
        /\ \A n \in Nodes : In(n, node_pool') => In(n, node_pool)
    <3>1. CASE m = Head(node_pool) /\ node_pool' = Tail(node_pool) /\ node_pool # <<>>
      BY <1>1, <3>1, ListFacts DEF Placed, OnePlace
    <3>2. CASE m \in fresh /\ node_pool' = node_pool
      BY <1>1, <3>2 DEF Placed, OnePlace
    <3>. QED
      BY <2>1, <3>1, <3>2
  <2>3. /\ ~In(m, free_list) /\ m \notin fresh' /\ fresh' \subseteq fresh
        /\ \A u \in Threads : ~Has(u, m)
    <3>1. CASE m = Head(node_pool) /\ node_pool # <<>> /\ fresh' = fresh
      <4>1. In(m, node_pool)
        BY <1>1, <3>1, ListFacts DEF Placed, OnePlace
      <4>. QED
        BY <3>1, <4>1 DEF Placed, OnePlace, Has
    <3>2. CASE m \in fresh /\ fresh' = fresh \ {m}
      BY <3>2 DEF Placed, OnePlace, Has
    <3>. QED
      BY <2>1, <3>1, <3>2
  <2>4. /\ NoRepeats(node_pool)' /\ ~In(m, node_pool)'
        /\ \A n \in Nodes : In(n, node_pool)' => In(n, node_pool)
    BY <2>2 DEF In, NoRepeats
  <2>5. NoRepeats(free_list)' /\ \A n \in Nodes : In(n, free_list)' <=> In(n, free_list)
    BY <2>1 DEF Placed, OnePlace, NoRepeats, In
  <2>6. OnePlace'
    BY <1>2, <2>1, <2>3, <2>4, <2>5 DEF Placed, OnePlace, Has
  <2>7. Flagged'
    BY <1>1, <1>2, <2>1, <2>3, <2>4, <2>5 DEF Placed, Flagged
  <2>. QED
    BY <2>6, <2>7 DEF Placed
<1>4. ASSUME NEW l \in Threads, NEW c \in {"deref_link", "deref_link_d"}, CallDeref(t, l, c)
      PROVE  Placed'
  BY <1>1, <1>4, QuietMove DEF CallDeref, Call, Goto, nodes, lists
<1>5. ASSUME NEW n \in Nodes, CallRetain(t, n)
      PROVE  Placed'
  BY <1>1, <1>5, QuietMove DEF CallRetain, Call, Goto, nodes, lists
<1>6. ASSUME NEW n \in Nodes, CallRelease(t, n)
      PROVE  Placed'
  BY <1>1, <1>6, QuietMove DEF CallRelease, Call, Goto, nodes, lists
<1>7. ASSUME NEW l \in Threads, NEW n \in Ref, CallStore(t, l, n)
      PROVE  Placed'
  BY <1>1, <1>7, QuietMove DEF CallStore, Call, Goto, nodes, lists
<1>8. ASSUME NEW l \in Threads, NEW k \in Ref, NEW n \in Ref, CallCas(t, l, k, n)
      PROVE  Placed'
  BY <1>1, <1>8, QuietMove DEF CallCas, Call, Goto, nodes, lists
<1>9. ASSUME NEW l \in Threads, MarkLink(t, l)
      PROVE  Placed'
  BY <1>2, <1>9, Quiet DEF MarkLink, nodes, lists
<1>10. ASSUME NEW u \in Threads, NEW n \in Nodes, HandOver(t, u, n)
       PROVE  Placed'
  BY <1>2, <1>10, Quiet DEF HandOver, nodes, lists
<1>. QED
  BY <1>3, <1>4, <1>5, <1>6, <1>7, <1>8, <1>9, <1>10 DEF Begin

(* A step of a thread brings no node into play that was not in play.       *)
LEMMA StepKnown ==
  ASSUME TypeOK, Placed, Known, NEW t \in Threads, Step(t)
  PROVE  Known'
<1>1. /\ lo \in [Threads -> Locals] /\ lo[t] \in Locals /\ Fits(pc[t], lo[t])
      /\ \A l \in Threads : link[l] \in Link
      /\ held \in [Threads -> [Nodes -> Nat]] /\ link \in [Threads -> Link]
      /\ fresh \subseteq Nodes /\ NULL \notin fresh
  BY RefCntAssumption DEF TypeOK, MemoryOK, ControlOK
<1>2. fresh' = fresh
  BY DEF Step, ReadLink, ReadUpdating, ReadCount, Increment, Check, Decrement, LockNode, ReadZero, Terminate, UnlockNode, ReadLength, Collect, TakeFree, FreeNode, LoadOld, Store, Swap, SwapIncrement, SwapDecrement, lists
<1>3. ASSUME lo' = lo \/ \E x \in Locals :
                /\ lo' = [lo EXCEPT ![t] = x]
                /\ x.ref \notin fresh /\ x.old.node \notin fresh,
             UNCHANGED clients
      PROVE  Known'
  BY <1>1, <1>2, <1>3 DEF Known, clients
<1>4. NoCall \in Locals /\ NoCall.ref \notin fresh /\ NoCall.old.node \notin fresh
  BY <1>1, NoCallLocals
<1>5. ASSUME NEW r \in Ref, r \notin fresh
      PROVE  LET x == [lo[t] EXCEPT !.ref = r] IN
             x \in Locals /\ x.ref \notin fresh /\ x.old.node \notin fresh
  BY <1>1, <1>5, LocalsFields DEF Known
<1>6. EndDeref(t) =>
        \E x \in Locals : /\ lo' = [lo EXCEPT ![t] = x]
                          /\ x.ref \notin fresh /\ x.old.node \notin fresh
  <2>1. lo[t].old.node \in Ref /\ lo[t].old.node \notin fresh
    BY <1>1, LocalsFields DEF Known
  <2>2. CASE lo' = [lo EXCEPT ![t].ref = lo[t].old.node]
    <3> DEFINE x == [lo[t] EXCEPT !.ref = lo[t].old.node]
    <3>1. lo' = [lo EXCEPT ![t] = x]
      BY <2>2
    <3>2. x \in Locals /\ x.ref \notin fresh /\ x.old.node \notin fresh
      BY <1>5, <2>1
    <3>. QED
      BY <3>1, <3>2
  <2>. QED
    BY <1>4, <2>2 DEF EndDeref, Return
<1>7. CASE \/ ReadUpdating(t) \/ Check(t) \/ Decrement(t) \/ LockNode(t) \/ ReadZero(t)
           \/ Terminate(t) \/ UnlockNode(t) \/ FreeNode(t) \/ SwapIncrement(t)
  BY <1>3, <1>7 DEF ReadUpdating, Check, Decrement, LockNode, ReadZero, Terminate,
       UnlockNode, FreeNode, SwapIncrement
<1>8. CASE ReadLength(t) \/ Collect(t) \/ SwapDecrement(t)
  BY <1>3, <1>4, <1>8 DEF ReadLength, Collect, SwapDecrement, Return
<1>9. CASE ReadCount(t)
  BY <1>3, <1>6, <1>9 DEF ReadCount
<1>10. CASE ReadLink(t)
  <2> DEFINE r == link[lo[t].link].node
  <2>1. r \in Ref /\ r \notin fresh
    BY <1>1, <1>10, LinkFields DEF ReadLink, Fits, Known
  <2>2. CASE lo' = [lo EXCEPT ![t].ref = r]
    <3>1. lo' = [lo EXCEPT ![t] = [lo[t] EXCEPT !.ref = r]]
      BY <2>2
    <3>. QED
      BY <1>3, <1>5, <1>10, <2>1, <3>1 DEF ReadLink
  <2>. QED
    BY <1>3, <1>4, <1>10, <2>2 DEF ReadLink, Return
<1>11. CASE Increment(t)
  <2>1. PICK x \in Locals : /\ lo' = [lo EXCEPT ![t] = x]
                            /\ x.ref \notin fresh /\ x.old.node \notin fresh
    BY <1>6, <1>11 DEF Increment
  <2>2. lo[t].ref \in Nodes /\ lo[t].ref \notin fresh
    BY <1>1, <1>11 DEF Increment, Fits, Known
  <2>3. held' = held \/ held' = [held EXCEPT ![t][lo[t].ref] = held[t][lo[t].ref] + 1]
    BY <1>11 DEF Increment, Hold
  <2>4. \A u \in Threads, n \in fresh : held'[u][n] = 0
    <3>1. CASE held' = held
      BY <3>1 DEF Known
    <3>2. CASE held' = [held EXCEPT ![t][lo[t].ref] = held[t][lo[t].ref] + 1]
      BY <1>1, <2>2, <3>2 DEF Known
    <3>. QED
      BY <2>3, <3>1, <3>2
  <2>. QED
    BY <1>1, <1>2, <1>11, <2>1, <2>4 DEF Increment, Known
<1>12. CASE TakeFree(t)
  <2> DEFINE r == Head(free_list)
  <2>1. free_list # <<>> => r \in Ref /\ r \notin fresh
    BY Pop, ListFacts, LinkFields DEF TypeOK, MemoryOK, Placed, OnePlace
  <2>2. CASE free_list # <<>>
    <3>1. lo' = [lo EXCEPT ![t] = [lo[t] EXCEPT !.ref = r]]
      BY <1>12, <2>2 DEF TakeFree
    <3>. QED
      BY <1>3, <1>5, <1>12, <2>1, <2>2, <3>1 DEF TakeFree
  <2>. QED
    BY <1>3, <1>4, <1>12, <2>2 DEF TakeFree, Return
<1>13. CASE LoadOld(t)
  <2> DEFINE k == link[lo[t].link]
  <2> DEFINE x == [lo[t] EXCEPT !.old = k]
  <2>1. k \in Link /\ k.node \notin fresh /\ lo[t].ref \notin fresh
    BY <1>1, <1>13 DEF LoadOld, Fits, Known
  <2>2. x \in Locals /\ x.ref \notin fresh /\ x.old.node \notin fresh
    BY <1>1, <2>1, LocalsFields
  <2>3. lo' = [lo EXCEPT ![t] = x]
    BY <1>13 DEF LoadOld
  <2>. QED
    BY <1>3, <1>13, <2>2, <2>3 DEF LoadOld
<1>14. CASE Store(t) \/ Swap(t)
  <2>1. lo[t].link \in Threads /\ lo[t].ref \in Ref /\ lo[t].ref \notin fresh
    BY <1>1, <1>14, LocalsFields DEF Store, Swap, Fits, Known
  <2>2. link' = link \/ link' = [link EXCEPT ![lo[t].link] = Unmarked(lo[t].ref)]
    BY <1>14 DEF Store, Swap
  <2>3. \A l \in Threads, n \in fresh : link'[l].node # n
    BY <1>1, <2>1, <2>2, LinkFields DEF Known
  <2>4. lo' = lo \/ \E x \in Locals : /\ lo' = [lo EXCEPT ![t] = x]
                                     /\ x.ref \notin fresh /\ x.old.node \notin fresh
    BY <1>4, <1>6, <1>14 DEF Store, Swap, Return
  <2>5. \A u \in Threads, n \in fresh : lo'[u].ref # n /\ lo'[u].old.node # n
    BY <1>1, <2>4 DEF Known
  <2>6. UNCHANGED held
    BY <1>14 DEF Store, Swap
  <2>. QED
    BY <1>2, <2>3, <2>5, <2>6 DEF Known
<1>. QED
  BY <1>7, <1>8, <1>9, <1>10, <1>11, <1>12, <1>13, <1>14 DEF Step

(* So does every start of a call: what it is given is held already.        *)
LEMMA BeginKnown ==
  ASSUME TypeOK, Placed, Known, NEW t \in Threads, Begin(t)
  PROVE  Known'
<1>1. /\ lo \in [Threads -> Locals] /\ held \in [Threads -> [Nodes -> Nat]]
      /\ link \in [Threads -> Link] /\ \A l \in Threads : link[l] \in Link
      /\ fresh \subseteq Nodes /\ NULL \notin fresh /\ node_pool \in Seq(Nodes)
  BY RefCntAssumption DEF TypeOK, MemoryOK, ControlOK
<1>2. ASSUME NEW x \in Locals, lo' = [lo EXCEPT ![t] = x], x.ref \notin fresh,
             x.old.node \notin fresh, UNCHANGED <<clients, fresh>>
      PROVE  Known'
  BY <1>1, <1>2 DEF Known, clients
<1>3. \A n \in Nodes : held[t][n] > 0 => n \notin fresh
  BY <1>1 DEF Known
<1>4. CASE NewNode(t)
  <2>1. PICK m \in Nodes :
          /\ \/ m = Head(node_pool) /\ node_pool # <<>> /\ fresh' = fresh
             \/ fresh' = fresh \ {m}
          /\ held' = [held EXCEPT ![t][m] = held[t][m] + 1]
          /\ UNCHANGED <<link, control>>
    BY <1>4 DEF NewNode, Hold
  <2>2. m \notin fresh' /\ fresh' \subseteq fresh
    <3>1. CASE m = Head(node_pool) /\ node_pool # <<>> /\ fresh' = fresh
      <4>1. In(m, node_pool)
        BY <1>1, <3>1, ListFacts DEF Placed, OnePlace
      <4>. QED
        BY <3>1, <4>1 DEF Placed, OnePlace
    <3>2. CASE fresh' = fresh \ {m}
      BY <3>2
    <3>. QED
      BY <2>1, <3>1, <3>2
  <2>3. \A u \in Threads, n \in fresh' : held'[u][n] = 0
    BY <1>1, <2>1, <2>2 DEF Known
  <2>. QED
    BY <2>1, <2>2, <2>3 DEF Known, control
<1>5. ASSUME NEW l \in Threads, NEW c \in {"deref_link", "deref_link_d"}, CallDeref(t, l, c)
      PROVE  Known'
  <2> DEFINE x == [NoCall EXCEPT !.call = c, !.link = l]
  <2>1. x \in Locals /\ x.ref = NULL /\ x.old.node = NULL
    BY DerefLocals DEF Calls
  <2>2. lo' = [lo EXCEPT ![t] = x] /\ UNCHANGED <<clients, fresh>>
    BY <1>5 DEF CallDeref, Call, lists
  <2>. QED
    BY <1>1, <1>2, <2>1, <2>2
<1>6. ASSUME NEW n \in Nodes, CallRetain(t, n)
      PROVE  Known'
  <2> DEFINE x == [NoCall EXCEPT !.call = "retain_ref", !.ref = n]
  <2>1. x \in Locals /\ x.ref = n /\ x.old.node = NULL
    BY NodeLocals DEF Calls
  <2>2. lo' = [lo EXCEPT ![t] = x] /\ UNCHANGED <<clients, fresh>>
    BY <1>6 DEF CallRetain, Call, lists
  <2>3. held[t][n] > 0
    BY <1>6, RefCntAssumption DEF CallRetain
  <2>. QED
    BY <1>1, <1>2, <1>3, <2>1, <2>2, <2>3
<1>7. ASSUME NEW n \in Nodes, CallRelease(t, n)
      PROVE  Known'
  <2> DEFINE x == [NoCall EXCEPT !.call = "release_ref", !.ref = n]
  <2>1. x \in Locals /\ x.ref = n /\ x.old.node = NULL
    BY NodeLocals DEF Calls
  <2>2. /\ lo' = [lo EXCEPT ![t] = x] /\ UNCHANGED <<link, fresh>>
        /\ held' = [held EXCEPT ![t][n] = held[t][n] - 1] /\ held[t][n] > 0
    BY <1>7 DEF CallRelease, Call, Drop, lists
  <2>3. n \notin fresh
    BY <1>3, <2>2
  <2>4. \A u \in Threads, k \in fresh : held'[u][k] = 0
    BY <1>1, <2>2, <2>3 DEF Known
  <2>5. \A u \in Threads, k \in fresh : lo'[u].ref # k /\ lo'[u].old.node # k
    BY <1>1, <2>1, <2>2, <2>3 DEF Known
  <2>. QED
    BY <2>2, <2>4, <2>5 DEF Known
<1>8. ASSUME NEW l \in Threads, NEW n \in Ref, CallStore(t, l, n)
      PROVE  Known'
  <2> DEFINE x == [NoCall EXCEPT !.call = "store_ref", !.link = l, !.ref = n]
  <2>1. x \in Locals /\ x.ref = n /\ x.old.node = NULL
    BY StoreLocals
  <2>2. lo' = [lo EXCEPT ![t] = x] /\ UNCHANGED <<clients, fresh>>
    BY <1>8 DEF CallStore, Call, lists
  <2>3. n \notin fresh
    BY <1>1, <1>3, <1>8 DEF CallStore
  <2>. QED
    BY <1>1, <1>2, <2>1, <2>2, <2>3
<1>9. ASSUME NEW l \in Threads, NEW k \in Ref, NEW n \in Ref, CallCas(t, l, k, n)
      PROVE  Known'
  <2> DEFINE x == [call |-> "compare_and_swap_ref", link |-> l, ref |-> n,
                   old |-> Unmarked(k)]
  <2>1. x \in Locals /\ x.ref = n /\ x.old.node = k
    BY CasLocals
  <2>2. lo' = [lo EXCEPT ![t] = x] /\ UNCHANGED <<clients, fresh>>
    BY <1>9 DEF CallCas, Call, lists
  <2>3. n \notin fresh /\ k \notin fresh
    BY <1>1, <1>3, <1>9 DEF CallCas
  <2>. QED
    BY <1>1, <1>2, <2>1, <2>2, <2>3
<1>10. ASSUME NEW l \in Threads, MarkLink(t, l)
       PROVE  Known'
  <2>1. link' = [link EXCEPT ![l] = [link[l] EXCEPT !.mark = TRUE]]
    BY <1>10 DEF MarkLink
  <2>2. \A u \in Threads : link'[u].node = link[u].node
    BY <1>1, <2>1, LinkFields
  <2>. QED
    BY <1>10, <2>2 DEF MarkLink, Known, lists, control
<1>11. ASSUME NEW u \in Threads, NEW n \in Nodes, HandOver(t, u, n)
       PROVE  Known'
  <2>1. n \notin fresh
    BY <1>3, <1>11 DEF HandOver
  <2>2. \A v \in Threads, k \in fresh : held'[v][k] = held[v][k]
    BY <1>1, <1>11, <2>1 DEF HandOver
  <2>. QED
    <3>1. UNCHANGED <<link, lo, fresh>>
      BY <1>11 DEF HandOver, lists, control
    <3>. QED
      BY <2>2, <3>1 DEF Known
<1>. QED
  BY <1>4, <1>5, <1>6, <1>7, <1>8, <1>9, <1>10, <1>11 DEF Begin

(* However many threads race on however many nodes, through links they     *)
(* share or not, a node is in one place: release_ref terminates it once,   *)
(* gc frees it once, and new_node gives it to one caller.                  *)
THEOREM TerminatedOnce == Spec => []OnePlace
<1> DEFINE Inv == TypeOK /\ Placed /\ Known
<1>1. Init => Inv
  <2> SUFFICES ASSUME Init, TypeOK PROVE Placed /\ Known
    BY InitType
  <2>1. \A t \in Threads, n \in Nodes : ~Has(t, n)
    BY DEF Init, Has, Locks, Frees
  <2>2. Len(free_list) = 0 /\ Len(node_pool) = 0
    BY DEF Init
  <2>3. OnePlace
    BY <2>1, <2>2 DEF OnePlace, NoRepeats, In, Has
  <2>4. Flagged
    BY <2>1, <2>2 DEF Flagged, In
  <2>5. Known
    BY NoCallLocals, LinkFields, RefCntAssumption DEF Init, Known
  <2>. QED
    BY <2>3, <2>4, <2>5 DEF Placed
<1>2. Inv /\ [Next]_vars => Inv'
  <2> SUFFICES ASSUME Inv, [Next]_vars PROVE Inv'
    OBVIOUS
  <2>1. TypeOK'
    BY NextType
  <2>2. ASSUME NEW t \in Threads, Begin(t) \/ Step(t) PROVE Placed' /\ Known'
    BY <2>2, StepPlaced, BeginPlaced, StepKnown, BeginKnown
  <2>3. CASE Destroy
    <3>1. /\ free_list' = <<>> /\ node_pool' = <<>>
          /\ UNCHANGED <<updating, fresh, link, held, pc, lo>>
      BY <2>3 DEF Destroy, nodes, clients, control
    <3>2. \A u \in Threads, n \in Nodes : Has(u, n)' <=> Has(u, n)
      BY <3>1 DEF Has, Locks, Frees
    <3>3. /\ NoRepeats(free_list)' /\ NoRepeats(node_pool)'
          /\ \A n \in Nodes : ~In(n, free_list)' /\ ~In(n, node_pool)'
      BY <3>1 DEF NoRepeats, In
    <3>4. OnePlace'
      BY <3>1, <3>2, <3>3 DEF Placed, OnePlace, Has
    <3>5. Flagged'
      BY <3>1, <3>2, <3>3 DEF Placed, Flagged
    <3>. QED
      BY <2>1, <3>1, <3>4, <3>5 DEF Placed, Known
  <2>4. CASE UNCHANGED vars
    <3>1. UNCHANGED <<free_list, node_pool, updating, fresh, link, held, pc, lo>>
      BY <2>4 DEF vars, nodes, lists, clients, control
    <3>2. \A u \in Threads, n \in Nodes : Has(u, n)' <=> Has(u, n)
      BY <3>1 DEF Has, Locks, Frees
    <3>. QED
      BY <2>1, <3>1, <3>2, Quiet DEF Known
  <2>. QED
    BY <2>1, <2>2, <2>3, <2>4 DEF Next
<1>3. Inv => OnePlace
  BY DEF Placed
<1>. QED
  BY <1>1, <1>2, <1>3, PTL DEF Spec
=============================================================================
