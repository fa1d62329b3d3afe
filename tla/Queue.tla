------------------------------- MODULE Queue --------------------------------
(***************************************************************************)
(* queue.c: a lock-free double-ended queue of reference-counted entries    *)
(* between two sentinels.  The routines for the right end are those for    *)
(* the left with prev and next exchanged, so one set of actions, with the  *)
(* side as parameter, models both.                                         *)
(*                                                                         *)
(* One step is one access to a link that other threads can see.  The       *)
(* refcnt.c calls around it are part of the step: RefCnt models their own  *)
(* steps.  An entry whose count reaches zero is on refcnt's free list, and *)
(* its memory may be reused at any time.                                   *)
(***************************************************************************)
EXTENDS Integers, FiniteSets, SequencesExt

CONSTANTS
  Threads,
  Entries,  \* addresses of entries, numbers above 2; 0 is NULL
  Calls,    \* Calls[t]: the operations t calls, <<operation, side>>
  Careful   \* whether concurrent calls are kept to those in Together

VARIABLES
  link,    \* prev and next of every entry: an entry and the deletion mark
  count,   \* the count of the entry's refcnt node; 0 when it was terminated
  length,
  pc, lo,  \* where a thread is in its call, and its locals
  content  \* the values a caller may expect in the queue, from the left

vars == <<link, count, length, pc, lo, content>>

HEAD == 1
TAIL == 2
All == Entries \union {HEAD, TAIL}

To(x) == [to |-> x, mark |-> FALSE]
NULL == To(0)

\* What a side calls its sentinel, the link away from it and the one back.
Near(d) == IF d = "left" THEN HEAD ELSE TAIL
Far(d) == IF d = "left" THEN TAIL ELSE HEAD
fwd(d) == IF d = "left" THEN "next" ELSE "prev"
back(d) == IF d = "left" THEN "prev" ELSE "next"

NoCall == [call |-> <<"none", "left">>, entry |-> 0, other |-> 0]

(* queue_init *)
FreshLinks == [x \in All |-> [prev |-> IF x = TAIL THEN To(HEAD) ELSE NULL,
                              next |-> IF x = HEAD THEN To(TAIL) ELSE NULL]]
FreshCounts == [x \in All |-> IF x \in {HEAD, TAIL} THEN 2 ELSE 0]

Init ==
  /\ link = FreshLinks /\ count = FreshCounts /\ length = 0
  /\ pc = [t \in Threads |-> "idle"] /\ lo = [t \in Threads |-> NoCall]
  /\ content = <<>>

-----------------------------------------------------------------------------
(* refcnt.c, a call a step: retain_ref and deref_link leave a terminated   *)
(* node alone, release_ref stops at zero.                                  *)

Retain(c, x) == IF x = 0 \/ c[x] = 0 THEN c ELSE [c EXCEPT ![x] = @ + 1]
Release(c, x) == IF x = 0 \/ c[x] = 0 THEN c ELSE [c EXCEPT ![x] = @ - 1]
ReleaseAll(c, xs) == FoldLeft(Release, c, xs)

\* What deref_link, and deref_link_d for a marked link, return.
Deref(l) == IF l.mark \/ l.to = 0 \/ count[l.to] = 0 THEN 0 ELSE l.to
DerefD(l) == IF l.to = 0 \/ count[l.to] = 0 THEN 0 ELSE l.to

-----------------------------------------------------------------------------

Goto(t, p) == pc' = [pc EXCEPT ![t] = p]
At(t, p) == pc[t] = p
Side(t) == lo[t].call[2]
Here(t) == Near(Side(t))

Return(t) ==
  /\ Goto(t, "idle")
  /\ lo' = [lo EXCEPT ![t] = NoCall]

Busy == {t \in Threads : ~At(t, "idle")}

\* Pushes at one end with pops at the other, or pushes only.
Together ==
  {{<<"push", "right">>, <<"pop", "left">>, <<"clear", "left">>}, {<<"push", "left">>, <<"pop", "right">>},
   {<<"push", "left">>, <<"push", "right">>}}

MayCall(t, c) ==
  /\ At(t, "idle") /\ c \in Calls[t]
  /\ Careful => \E calls \in Together : {c} \union {lo[u].call : u \in Busy} \subseteq calls

\* create_entry, for a push.
PushBegin(t) ==
  \E d \in {"left", "right"} :
    LET new == {x \in Entries : count[x] = 0} IN
    /\ MayCall(t, <<"push", d>>)
    /\ new # {}
    /\ count' = [count EXCEPT ![Min(new)] = 1]
    /\ link' = [link EXCEPT ![Min(new)] = [prev |-> NULL, next |-> NULL]]
    /\ lo' = [lo EXCEPT ![t] = [call |-> <<"push", d>>, entry |-> Min(new), other |-> 0]]
    /\ Goto(t, "push_deref")
    /\ UNCHANGED <<length, content>>

\* The neighbour of the sentinel; the new entry, still private, is linked to
\* both.
PushDeref(t) ==
  LET d == Side(t)
      x == lo[t].entry
      y == Deref(link[Here(t)][fwd(d)])
  IN /\ At(t, "push_deref")
     /\ y # 0
     /\ count' = Retain(Retain(Retain(count, y), Here(t)), y)
     /\ link' = [link EXCEPT ![x][back(d)] = To(Here(t)), ![x][fwd(d)] = To(y)]
     /\ lo' = [lo EXCEPT ![t].other = y]
     /\ Goto(t, "push_back")
     /\ UNCHANGED <<length, content>>

PushBackUnread(t) ==
  LET d == Side(t)
      x == lo[t].entry
      y == lo[t].other
  IN /\ At(t, "push_back")
     /\ IF link[y][back(d)] = To(Here(t))
          THEN /\ link' = [link EXCEPT ![y][back(d)] = To(x)]
               /\ count' = Retain(Release(count, Here(t)), x)
               /\ Goto(t, "push_fwd")
          ELSE /\ UNCHANGED link
               /\ count' = ReleaseAll(count, <<>>)
               /\ Goto(t, "push_back")
     /\ UNCHANGED <<length, lo, content>>

\* The neighbour's link back is swung first.
PushBack(t) ==
  LET d == Side(t)
      x == lo[t].entry
      y == lo[t].other
  IN /\ At(t, "push_back")
     /\ IF link[y][back(d)] = To(Here(t))
          THEN /\ link' = [link EXCEPT ![y][back(d)] = To(x)]
               /\ count' = Retain(Release(count, Here(t)), x)
               /\ Goto(t, "push_fwd")
          ELSE /\ link' = [link EXCEPT ![x] = [prev |-> NULL, next |-> NULL]]
               /\ count' = ReleaseAll(count, <<y, y, Here(t)>>)
               /\ Goto(t, "push_deref")
     /\ UNCHANGED <<length, lo, content>>

PushFwdOnce(t) ==
  LET d == Side(t)
      x == lo[t].entry
      y == lo[t].other
  IN /\ At(t, "push_fwd")
     /\ IF link[Here(t)][fwd(d)] = To(y)
          THEN /\ link' = [link EXCEPT ![Here(t)][fwd(d)] = To(x)]
               /\ count' = Retain(ReleaseAll(count, <<y, y>>), x)
               /\ content' = IF d = "left" THEN <<x>> \o content ELSE Append(content, x)
               /\ Goto(t, "push_length")
          ELSE /\ count' = Release(count, y)
               /\ Goto(t, "push_length")
               /\ UNCHANGED <<link, content>>
     /\ UNCHANGED <<length, lo>>

\* Then the sentinel's link, to whatever its neighbour has become.
PushFwd(t) ==
  LET d == Side(t)
      x == lo[t].entry
      y == lo[t].other
  IN /\ At(t, "push_fwd")
     /\ IF link[Here(t)][fwd(d)] = To(y)
          THEN /\ link' = [link EXCEPT ![Here(t)][fwd(d)] = To(x)]
               /\ count' = Retain(ReleaseAll(count, <<y, y>>), x)
               /\ content' = IF d = "left" THEN <<x>> \o content ELSE Append(content, x)
               /\ Goto(t, "push_length")
          ELSE /\ count' = Release(count, y)
               /\ Goto(t, "push_again")
               /\ UNCHANGED <<link, content>>
     /\ UNCHANGED <<length, lo>>

PushAgain(t) ==
  LET d == Side(t)
      x == lo[t].entry
      y == Deref(link[Here(t)][fwd(d)])
  IN /\ At(t, "push_again")
     /\ y # 0
     /\ link' = [link EXCEPT ![x][fwd(d)] = To(y)]
     /\ count' = Release(Retain(Retain(count, y), y), link[x][fwd(d)].to)
     /\ lo' = [lo EXCEPT ![t].other = y]
     /\ Goto(t, "push_fwd")
     /\ UNCHANGED <<length, content>>

PushLength(t) ==
  /\ At(t, "push_length")
  /\ length' = length + 1
  /\ Return(t)
  /\ UNCHANGED <<link, count, content>>

-----------------------------------------------------------------------------

\* queue_clear pops from the left until the queue is empty.
PopBegin(t) ==
  \E c \in {<<"pop", "left">>, <<"pop", "right">>, <<"clear", "left">>} :
    /\ MayCall(t, c)
    /\ lo' = [lo EXCEPT ![t] = [call |-> c, entry |-> 0, other |-> 0]]
    /\ Goto(t, "pop_deref")
    /\ UNCHANGED <<link, count, length, content>>

PopDerefUncounted(t) ==
  LET d == Side(t)
      x == Deref(link[Here(t)][fwd(d)])
  IN /\ At(t, "pop_deref")
     /\ IF x \in {0, Far(d)}
          THEN Return(t) /\ UNCHANGED count
          ELSE /\ UNCHANGED count
               /\ lo' = [lo EXCEPT ![t].entry = x]
               /\ Goto(t, "pop_check")
     /\ UNCHANGED <<link, length, content>>

\* The sentinel's neighbour, NULL and the other sentinel mean empty.
PopDeref(t) ==
  LET d == Side(t)
      x == Deref(link[Here(t)][fwd(d)])
  IN /\ At(t, "pop_deref")
     /\ IF x \in {0, Far(d)}
          THEN Return(t) /\ UNCHANGED count
          ELSE /\ count' = Retain(count, x)
               /\ lo' = [lo EXCEPT ![t].entry = x]
               /\ Goto(t, "pop_check")
     /\ UNCHANGED <<link, length, content>>

Retry(t) == count' = Release(count, lo[t].entry) /\ Goto(t, "pop_deref")

PopCheck(t) ==
  /\ At(t, "pop_check")
  /\ IF link[lo[t].entry][back(Side(t))] = To(Here(t))
       THEN Goto(t, "pop_mark") /\ UNCHANGED count
       ELSE Retry(t)
  /\ UNCHANGED <<link, length, lo, content>>

\* The link away from the sentinel is marked: the entry is this thread's.
PopMark(t) ==
  LET x == lo[t].entry
      l == link[x][fwd(Side(t))]
  IN /\ At(t, "pop_mark")
     /\ IF l.to # 0 /\ ~l.mark
          THEN /\ link' = [link EXCEPT ![x][fwd(Side(t))].mark = TRUE]
               /\ Goto(t, "pop_mark_back") /\ UNCHANGED count
          ELSE Retry(t) /\ UNCHANGED link
     /\ UNCHANGED <<length, lo, content>>

\* Then the link back; queue_pop_left waits while it is NULL.
PopMarkBack(t) ==
  LET x == lo[t].entry IN
  /\ At(t, "pop_mark_back")
  /\ Side(t) = "left" => link[x].prev # NULL
  /\ link' = [link EXCEPT ![x][back(Side(t))].mark = TRUE]
  /\ Goto(t, "pop_next")
  /\ UNCHANGED <<count, length, lo, content>>

\* The entry after it.
PopNext(t) ==
  LET y == DerefD(link[lo[t].entry][fwd(Side(t))]) IN
  /\ At(t, "pop_next")
  /\ y # 0
  /\ count' = Retain(count, y)
  /\ lo' = [lo EXCEPT ![t].other = y]
  /\ Goto(t, "pop_back")
  /\ UNCHANGED <<link, length, content>>

PopBackAnyway(t) ==
  LET d == Side(t)
      x == lo[t].entry
      y == lo[t].other
  IN /\ At(t, "pop_back")
     /\ IF link[y][back(d)] = To(x)
          THEN /\ link' = [link EXCEPT ![y][back(d)] = To(Here(t))]
               /\ count' = Retain(Release(count, x), Here(t))
               /\ Goto(t, "pop_fwd")
          ELSE /\ Goto(t, "pop_fwd") /\ UNCHANGED <<link, count>>
     /\ UNCHANGED <<length, lo, content>>

\* That entry's link back is swung to the sentinel.
PopBack(t) ==
  LET d == Side(t)
      x == lo[t].entry
      y == lo[t].other
  IN /\ At(t, "pop_back")
     /\ IF link[y][back(d)] = To(x)
          THEN /\ link' = [link EXCEPT ![y][back(d)] = To(Here(t))]
               /\ count' = Retain(Release(count, x), Here(t))
               /\ Goto(t, "pop_fwd")
          ELSE /\ count' = Release(count, y)
               /\ Goto(t, "pop_next") /\ UNCHANGED link
     /\ UNCHANGED <<length, lo, content>>

Without(s, x) == SelectSeq(s, LAMBDA y : y # x)

\* And the sentinel's link to it, unless that has changed.
PopFwd(t) ==
  LET d == Side(t)
      x == lo[t].entry
      y == lo[t].other
      swung == link[Here(t)][fwd(d)] = To(x)
  IN /\ At(t, "pop_fwd")
     /\ link' = IF swung THEN [link EXCEPT ![Here(t)][fwd(d)] = To(y)] ELSE link
     /\ count' = ReleaseAll(IF swung THEN Retain(Release(count, x), y) ELSE count, <<y, x>>)
     /\ content' = Without(content, x)
     /\ Goto(t, "pop_length")
     /\ UNCHANGED <<length, lo>>

\* The entry's own links and its first reference are given up.
PopLength(t) ==
  LET x == lo[t].entry IN
  /\ At(t, "pop_length")
  /\ length' = length - 1
  /\ count' = ReleaseAll(count, <<link[x].next.to, link[x].prev.to, x>>)
  /\ link' = [link EXCEPT ![x] = [prev |-> NULL, next |-> NULL]]
  /\ IF lo[t].call[1] = "clear" THEN Goto(t, "pop_deref") /\ UNCHANGED lo ELSE Return(t)
  /\ UNCHANGED content

\* queue_destroy of a cleared queue, and queue_create again: the sentinels
\* lose their links and their first references.
Destroy ==
  /\ Busy = {} /\ content = <<>>
  /\ link' = FreshLinks /\ count' = FreshCounts /\ length' = 0
  /\ UNCHANGED <<pc, lo, content>>

\* queue_push_left and queue_push_right; queue_pop_left and queue_pop_right.
Push(t) == PushBegin(t) \/ PushDeref(t) \/ PushBack(t) \/ PushFwd(t) \/ PushAgain(t) \/ PushLength(t)
Pop(t) ==
  \/ PopBegin(t) \/ PopDeref(t) \/ PopCheck(t) \/ PopMark(t) \/ PopMarkBack(t) \/ PopNext(t)
  \/ PopBack(t) \/ PopFwd(t) \/ PopLength(t)

Step(t) == Push(t) \/ Pop(t)

Next == Destroy \/ \E t \in Threads : Step(t)

\* A thread inside the queue goes on.
Fairness == \A t \in Threads : WF_vars(t \in Busy /\ Step(t))

Spec == Init /\ [][Next]_vars /\ Fairness

-----------------------------------------------------------------------------
(* Properties. *)

\* The chain of n links f from x.
Walk(x, f, n) ==
  LET go[i \in 0 .. n] == IF i = 0 THEN <<x>>
                          ELSE LET c == go[i - 1] IN
                               IF Last(c) = 0 THEN c ELSE Append(c, link[Last(c)][f].to)
  IN go[n]

Links(x) == {<<y, f>> \in All \X {"prev", "next"} : link[y][f].to = x}

\* Whenever no call is in progress the links from head to tail and from tail
\* to head both run through exactly the values pushed and not popped, in
\* order, length counts them, every entry's count is the number of links to it
\* and one for its existence, and what was popped is terminated: no push or
\* pop, however often it retried, keeps or drops a reference.
Whole ==
  Busy = {} =>
    /\ length = Len(content)
    /\ Walk(HEAD, "next", Len(content) + 1) = <<HEAD>> \o content \o <<TAIL>>
    /\ Walk(TAIL, "prev", Len(content) + 1) = <<TAIL>> \o Reverse(content) \o <<HEAD>>
    /\ \A x \in All : count[x] = IF x \in {HEAD, TAIL} \union Range(content)
                                   THEN 1 + Cardinality(Links(x)) ELSE 0

\* The entries the thread's next step reads or writes.
Uses(t) == (IF pc[t] \in {"idle", "push_length", "pop_deref"} THEN {} ELSE {lo[t].entry})
           \union (IF pc[t] \in {"push_back", "push_fwd", "pop_back", "pop_fwd"} THEN {lo[t].other} ELSE {})

\* No thread works on an entry that has been terminated: the reference it took
\* with the link, or the one its push began with, keeps it.
NoDangling == \A t \in Threads : \A x \in Uses(t) : count[x] > 0

\* A pop takes the value that has been at its end of the queue longest or
\* shortest, as its side says, and takes no value whose push is not finished.
TakesEnd ==
  \A t \in Threads : At(t, "pop_fwd") =>
    /\ content # <<>>
    /\ lo[t].entry = IF Side(t) = "left" THEN Head(content) ELSE Last(content)

Finishes == \E t \in Threads : ~At(t, "idle") /\ pc'[t] = "idle"

\* However the threads get in each other's way, calls keep finishing: the
\* retry loops of pushes and pops never keep each other going for ever.
LockFree == []<>(Busy = {}) \/ []<><<Finishes>>_vars
=============================================================================
