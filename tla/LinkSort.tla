------------------------------ MODULE LinkSort ------------------------------
(***************************************************************************)
(* list_sort of linklist.c: quicksort on the links themselves.  The        *)
(* partition swaps the values of two entries that are both on the wrong    *)
(* side, and relinks an entry next to the pivot once one side is done.     *)
(* The comparator is the difference; larger values come first.             *)
(***************************************************************************)
EXTENDS LinkList

\* The partition's state: the list, the ends of the part being sorted, the two
\* entries that meet, and whether the pivot's missing list was followed.
Value(s, x) == s.l.e[x].value

RECURSIVE FromLeft(_, _, _, _), FromRight(_, _, _, _), Partition(_, _, _), QuickSort(_, _, _, _, _)

\* p1 passes the values above the pivot's, p2 those below.
FromLeft(s, x, pivot, v) ==
  IF x # 0 /\ x # pivot /\ Value(s, x) > v THEN FromLeft(s, s.l.e[x].next, pivot, v) ELSE x
FromRight(s, x, pivot, v) ==
  IF x # 0 /\ x # pivot /\ Value(s, x) < v THEN FromRight(s, s.l.e[x].prev, pivot, v) ELSE x

\* Entry x is taken out of the links.
TakenOut(l, x) == SetPrev(SetNext(l, l.e[x].prev, l.e[x].next), l.e[x].next, l.e[x].prev)

Between(l, y, x, z) == [SetPrev(SetNext(l, y, x), z, x) EXCEPT !.e[x].prev = y, !.e[x].next = z]

\* Entry x, taken out, is put before or after the pivot.
PutBefore(l, x, pivot) ==
  [Between(l, l.e[pivot].prev, x, pivot) EXCEPT
     !.head = IF l.e[pivot].prev = 0 /\ @ = pivot THEN x ELSE @,
     !.tail = IF @ = x THEN l.e[x].prev ELSE @]
PutAfter(l, x, pivot) ==
  [Between(l, pivot, x, l.e[pivot].next) EXCEPT
     !.tail = IF l.e[pivot].next = 0 /\ @ = pivot THEN x ELSE @,
     !.head = IF @ = x THEN l.e[x].next ELSE @]

RelinkBeforeKeepingHead(s, pivot) ==
  [s EXCEPT !.l = PutBefore(TakenOut(@, s.p2), s.p2, pivot),
            !.tail = IF @ = s.p2 THEN s.l.e[@].prev ELSE @,
            !.p2 = s.l.e[@].prev,
            !.crash = @ \/ ~s.l.e[pivot].linked]

\* p2 is relinked just before the pivot.
RelinkBefore(s, pivot) ==
  [s EXCEPT !.l = PutBefore(TakenOut(@, s.p2), s.p2, pivot),
            !.head = IF @ = pivot THEN s.p2 ELSE @,
            !.tail = IF @ = s.p2 THEN s.l.e[@].prev ELSE @,
            !.p2 = s.l.e[@].prev,
            !.crash = @ \/ ~s.l.e[pivot].linked]

\* p1 is relinked just after the pivot.
RelinkAfter(s, pivot) ==
  [s EXCEPT !.l = PutAfter(TakenOut(@, s.p1), s.p1, pivot),
            !.tail = IF @ = pivot THEN s.p1 ELSE @,
            !.head = IF @ = s.p1 THEN s.l.e[@].next ELSE @,
            !.p1 = s.l.e[@].next,
            !.crash = @ \/ ~s.l.e[pivot].linked]

SwapValuesOf(s) ==
  [s EXCEPT !.l.e[s.p1].value = Value(s, s.p2), !.l.e[s.p2].value = Value(s, s.p1),
            !.p1 = s.l.e[@].next, !.p2 = s.l.e[@].prev]

Exchange(s, pivot) ==
  CASE s.p1 = pivot -> RelinkBefore(s, pivot)
    [] s.p2 = pivot -> RelinkAfter(s, pivot)
    [] OTHER -> SwapValuesOf(s)

Met(s) == s.p1 = s.p2 \/ s.p1 = 0 \/ s.p2 = 0

Advanced(s, pivot, v) ==
  [s EXCEPT !.p1 = FromLeft(s, @, pivot, v), !.p2 = FromRight(s, @, pivot, v)]

\* The loop, entered with p1 and p2 advanced.
Partition(s, pivot, v) ==
  IF Met(s) THEN s ELSE Partition(Advanced(Exchange(s, pivot), pivot, v), pivot, v)

\* How many entries are before the pivot.
Before(s, pivot, c) == SelectInSeq(c, LAMBDA x : x = pivot) - SelectInSeq(c, LAMBDA x : x = s.head)

SortLeft(s, before, l1) ==
  IF l1 > 1 /\ before # 0 /\ s.head # before
    THEN QuickSort([l |-> s.l, crash |-> s.crash], s.head, before, Forward(s.l, s.head, l1 \div 2), l1)
    ELSE [l |-> s.l, crash |-> s.crash]

\* pv2 was chosen before the left part was sorted.
SortRightOf(left, s, after, l2) ==
  IF l2 > 1 /\ after # 0 /\ s.tail # after
    THEN QuickSort(left, after, s.tail, Backward(s.l, s.tail, l2 \div 2), l2)
    ELSE left

Rest(left, s, pivot, l2) == SortRightOf(left, s, left.l.e[pivot].next, l2)
Halves(s, pivot, length, l1) == Rest(SortLeft(s, s.l.e[pivot].prev, l1), s, pivot, length - (l1 + 1))
Recur(s, pivot, length) == Halves(s, pivot, length, Before(s, pivot, Chain(s.l)))

\* list_quick_sort, as the list and whether a NULL list was followed.
QuickSort(r, head, tail, pivot, length) ==
  IF head = 0 \/ tail = 0 \/ pivot = 0 \/ length < 2 THEN r
  ELSE IF length = 2
    THEN IF r.l.e[head].value < r.l.e[tail].value
           THEN [r EXCEPT !.l.e[head].value = r.l.e[tail].value, !.l.e[tail].value = r.l.e[head].value]
           ELSE r
  ELSE LET v == r.l.e[pivot].value
           s == [l |-> r.l, head |-> head, tail |-> tail, p1 |-> head, p2 |-> tail, crash |-> r.crash]
       IN Recur(Partition(Advanced(s, pivot, v), pivot, v), pivot, length)

\* The middle entry, counted from 0 one below half the length, is the pivot;
\* of an empty list and of a single entry there is none.
ListSort(l) ==
  [QuickSort([l |-> l, crash |-> FALSE], l.head, l.tail,
             IF l.length < 2 THEN 0 ELSE EntryAt(l, l.length \div 2 - 1), l.length)
     EXCEPT !.l.cur = 0, !.l.pos = 0]

Sort ==
  /\ \A i \in DOMAIN Content : Content[i] > 0
  /\ \E r \in {ListSort(list)} : ~r.crash /\ Do(r.l)

Occurrences(s, v) == Cardinality({i \in DOMAIN s : s[i] = v})

Sorted(l, c) ==
  /\ Chained(l)
  /\ \A i, j \in DOMAIN c : i < j => c[i] >= c[j]
  /\ \A v \in Values : Occurrences(c, v) = Occurrences(Content, v)

\* From any list whose entries know their list, list_sort follows no NULL
\* pointer and leaves one chain of the same values, the larger ones first,
\* though it moves values and entries both.
SortRight ==
  (\A x \in Range(Chain(list)) : list.e[x].linked /\ list.e[x].value > 0) =>
     \E r \in {ListSort(list)} : ~r.crash /\ Sorted(r.l, Contents(r.l))
=============================================================================
