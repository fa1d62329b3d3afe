------------------------------ MODULE LinkList ------------------------------
(***************************************************************************)
(* linklist.c: a doubly linked list that remembers the last entry it       *)
(* picked (cur) and its position (pos), so that the next pick can start    *)
(* from there.  Every operation is a function from list to list, built     *)
(* from the entry routines the way the code builds it; an action applies   *)
(* one of them to the list.                                                *)
(*                                                                         *)
(* An entry's address is a number, 0 is NULL.  Addresses are only ever     *)
(* compared, so after every operation the entries are renamed in list      *)
(* order.  Calls hold the list's mutex; concurrent callers of the routines *)
(* that take it more than once are not modelled.                           *)
(***************************************************************************)
EXTENDS Integers, SequencesExt

CONSTANTS
  Values,    \* what clients store, numbers above 0; 0 is NULL
  MaxLen,    \* the longest list
  MaxSlices, \* the most slices at a time
  Careful    \* whether clients keep away from the calls that lose memory

VARIABLES
  list,     \* the list and its entries
  slices    \* the slices of the list: offset and length

vars == <<list, slices>>

Addresses == 1 .. MaxLen + 1
Dangling == -1   \* the value of an entry whose tagged value was freed

\* linked: the entry's back pointer to its list is set.
Unallocated == [prev |-> 0, next |-> 0, value |-> -2, linked |-> FALSE]
EmptyList == [head |-> 0, tail |-> 0, cur |-> 0, pos |-> 0, length |-> 0,
              e |-> [x \in Addresses |-> Unallocated]]

-----------------------------------------------------------------------------
(* Entries. *)

SetNext(l, x, y) == IF x = 0 THEN l ELSE [l EXCEPT !.e[x].next = y]
SetPrev(l, x, y) == IF x = 0 THEN l ELSE [l EXCEPT !.e[x].prev = y]

NewEntry(l) == Min({x \in Addresses : l.e[x] = Unallocated})
CreateEntry(l, v) == [l EXCEPT !.e[NewEntry(l)] = [Unallocated EXCEPT !.value = v]]
DestroyEntry(l, x) == IF x = 0 THEN l ELSE [l EXCEPT !.e[x] = Unallocated]

Detached(l, x) ==
  [l EXCEPT !.e[x].prev = 0, !.e[x].next = 0, !.e[x].linked = FALSE]

ForgetIfEmpty(l) == IF l.length = 0 THEN [l EXCEPT !.head = 0, !.tail = 0] ELSE l

PopEntry(l) ==
  LET x == l.tail
      p == l.e[x].prev
      short == SetNext([l EXCEPT !.tail = p, !.length = @ - 1], p, 0)
  IN IF x = 0 THEN l
     ELSE ForgetIfEmpty([Detached(short, x) EXCEPT !.cur = IF @ = x THEN 0 ELSE @])

PushEntry(l, x) ==
  LET linked == IF l.length = 0
                  THEN [l EXCEPT !.head = x, !.tail = x]
                  ELSE [SetNext(l, l.tail, x) EXCEPT
                          !.e[x].prev = l.tail, !.e[x].next = 0, !.tail = x]
  IN [linked EXCEPT !.length = @ + 1, !.e[x].linked = TRUE]

ShiftEntry(l) ==
  LET x == l.head
      n == l.e[x].next
      short == SetPrev([l EXCEPT !.head = n, !.length = @ - 1], n, 0)
  IN IF x = 0 THEN l
     ELSE ForgetIfEmpty([Detached(short, x) EXCEPT
            !.cur = IF @ = x THEN 0 ELSE @,
            !.pos = IF l.cur # x /\ @ > 0 THEN @ - 1 ELSE @])

UnshiftEntry(l, x) ==
  LET linked == IF l.length = 0
                  THEN [l EXCEPT !.head = x, !.tail = x]
                  ELSE [SetPrev(l, l.head, x) EXCEPT
                          !.e[x].prev = 0, !.e[x].next = l.head, !.head = x]
  IN [linked EXCEPT !.length = @ + 1, !.e[x].linked = TRUE,
                    !.pos = IF l.cur # 0 THEN @ + 1 ELSE @]

\* n steps along the links.
Forward(l, x, n) ==
  LET go[i \in 0 .. n] == IF i = 0 THEN x ELSE l.e[go[i - 1]].next IN go[n]
Backward(l, x, n) ==
  LET go[i \in 0 .. n] == IF i = 0 THEN x ELSE l.e[go[i - 1]].prev IN go[n]

Distance(a, b) == IF a > b THEN a - b ELSE b - a

\* The entry at pos: from the remembered entry when that is near, from the
\* nearer end otherwise.
EntryAt(l, pos) ==
  LET half == l.length \div 2 IN
  IF l.length <= pos THEN 0
  ELSE IF l.cur # 0 /\ Distance(l.pos, pos) < half
         THEN IF l.pos <= pos THEN Forward(l, l.cur, pos - l.pos) ELSE Backward(l, l.cur, l.pos - pos)
         ELSE IF pos > half THEN Backward(l, l.tail, l.length - 1 - pos) ELSE Forward(l, l.head, pos)

\* pick_entry also remembers what it found.
Picked(l, pos) ==
  IF EntryAt(l, pos) = 0 THEN l ELSE [l EXCEPT !.pos = pos, !.cur = EntryAt(l, pos)]

\* Positions past the end are filled with entries without value.
Padded(l, pos) ==
  FoldSet(LAMBDA i, m : PushEntry(CreateEntry(m, 0), NewEntry(m)), l, l.length + 1 .. pos)

\* Between two entries the new one is linked both ways; its back pointer to
\* the list is not set.
InsertEntry(l, x, pos) ==
  LET picked == Picked(l, pos - 1)
      p == EntryAt(l, pos - 1)
      n == l.e[p].next
  IN IF pos = 0 THEN UnshiftEntry(l, x)
     ELSE IF pos >= l.length THEN PushEntry(Padded(l, pos), x)
     ELSE [SetPrev(picked, n, x) EXCEPT
             !.e[p].next = x, !.e[x].prev = p, !.e[x].next = n, !.length = @ + 1]

RemoveEntryHalfLinked(l, pos) ==
  LET x == EntryAt(l, pos)
      p == l.e[x].prev
      n == l.e[x].next
      ends == [Picked(l, pos) EXCEPT !.head = IF pos = 0 THEN n ELSE @,
                                     !.tail = IF pos # 0 /\ pos = l.length - 1 THEN p ELSE @]
  IN IF x = 0 THEN l
     ELSE [Detached(SetNext(ends, p, n), x) EXCEPT !.length = @ - 1, !.cur = 0, !.pos = 0]

RemoveEntry(l, pos) ==
  LET x == EntryAt(l, pos)
      p == l.e[x].prev
      n == l.e[x].next
      ends == [Picked(l, pos) EXCEPT !.head = IF pos = 0 THEN n ELSE @,
                                     !.tail = IF pos # 0 /\ pos = l.length - 1 THEN p ELSE @]
  IN IF x = 0 THEN l
     ELSE [Detached(SetPrev(SetNext(ends, p, n), n, p), x) EXCEPT !.length = @ - 1, !.cur = 0, !.pos = 0]

\* fetch_entry: the list without the entry at pos, and that entry.
Fetched(l, pos) ==
  IF pos = 0 THEN [list |-> ShiftEntry(l), entry |-> l.head]
  ELSE IF pos = l.length - 1 THEN [list |-> PopEntry(l), entry |-> l.tail]
  ELSE [list |-> RemoveEntry(l, pos), entry |-> EntryAt(l, pos)]

-----------------------------------------------------------------------------
(* The value interface. *)

PopValue(l) == DestroyEntry(PopEntry(l), l.tail)
ShiftValue(l) == DestroyEntry(ShiftEntry(l), l.head)
PushValue(l, v) == PushEntry(CreateEntry(l, v), NewEntry(l))
UnshiftValue(l, v) == UnshiftEntry(CreateEntry(l, v), NewEntry(l))
InsertValue(l, v, pos) == InsertEntry(CreateEntry(l, v), NewEntry(l), pos)
FetchValue(l, pos) == DestroyEntry(Fetched(l, pos).list, Fetched(l, pos).entry)

\* The value an operation reads at pos, 0 when there is none.
ValueAt(l, pos) == IF EntryAt(l, pos) = 0 THEN 0 ELSE l.e[EntryAt(l, pos)].value

MoveValue(l, src, dst) ==
  LET f == Fetched(l, src) IN
  IF f.entry = 0 THEN f.list ELSE InsertEntry(f.list, f.entry, dst)

SwapValuesUnshifted(l, pos1, pos2) ==
  LET lo == Min({pos1, pos2})
      hi == Max({pos1, pos2})
      f == Fetched(l, hi)
      g == Fetched(InsertEntry(f.list, f.entry, lo), lo)
  IN IF lo = hi THEN l ELSE InsertEntry(g.list, g.entry, hi)

SwapValues(l, pos1, pos2) ==
  LET lo == Min({pos1, pos2})
      hi == Max({pos1, pos2})
      f == Fetched(l, hi)
      g == Fetched(InsertEntry(f.list, f.entry, lo), lo + 1)
  IN IF lo = hi THEN l ELSE InsertEntry(g.list, g.entry, hi)

SubstValue(l, pos, v) ==
  IF EntryAt(l, pos) = 0 THEN l ELSE [Picked(l, pos) EXCEPT !.e[EntryAt(l, pos)].value = v]

SetValue(l, pos, v) ==
  IF EntryAt(l, pos) = 0 THEN InsertValue(l, v, pos) ELSE SubstValue(l, pos, v)

ClearList(l) == FoldSet(LAMBDA i, m : ShiftValue(m), l, 1 .. l.length)

-----------------------------------------------------------------------------
(* The tag interface: a stored value is a tag and its contents. *)

Tag(v) == v % 2

\* The position of the first value with the tag; MaxLen when there is none.
\* Every position up to it is picked on the way.
TagPosition(l, tag) ==
  Min({i \in 0 .. l.length - 1 : ValueAt(l, i) > 0 /\ Tag(ValueAt(l, i)) = tag} \union {MaxLen})
LookFor(l, tag) ==
  FoldLeft(LAMBDA m, i : Picked(m, i - 1), l, [i \in 1 .. Min({TagPosition(l, tag) + 1, l.length}) |-> i])

\* list_set_tagged_value frees the value it has just pushed: the push returns 0.
SetTaggedValue(l, v) ==
  LET i == TagPosition(l, Tag(v)) IN
  IF i < MaxLen THEN SubstValue(LookFor(l, Tag(v)), i, v)
  ELSE PushValue(LookFor(l, Tag(v)), Dangling)

-----------------------------------------------------------------------------
(* Slices and iteration. *)

\* Unlinking the entry x during an iteration.
Unlinked(l, x) ==
  LET p == l.e[x].prev
      n == l.e[x].next
      ends == IF l.head = x /\ l.tail = x THEN [l EXCEPT !.head = 0, !.tail = 0]
              ELSE IF l.head = x THEN [SetPrev(l, n, 0) EXCEPT !.head = n]
              ELSE IF l.tail = x THEN [SetNext(l, p, 0) EXCEPT !.tail = p]
              ELSE SetNext(SetPrev(l, n, p), p, n)
  IN DestroyEntry([ends EXCEPT !.cur = IF @ = x THEN 0 ELSE @, !.length = @ - 1], x)

\* One turn of slice_foreach_value with the handler's answer rc; the state is
\* the list, the entry, the index and the slice's length.
Turn(s, rc) ==
  LET next == s.list.e[s.entry].next IN
  IF s.entry = 0 \/ s.idx >= s.length THEN s
  ELSE CASE rc = 0 -> [s EXCEPT !.idx = @ + 1, !.entry = 0]
         [] rc = 1 -> [s EXCEPT !.idx = @ + 1, !.entry = next]
         [] rc < 0 -> [list |-> Unlinked(s.list, s.entry), idx |-> s.idx + 1,
                       length |-> s.length - 1, entry |-> IF rc = -2 THEN 0 ELSE next]

\* slice_foreach_value with the handler's answers.
Foreach(l, offset, length, answers) ==
  FoldLeft(Turn, [list |-> Picked(l, offset), entry |-> EntryAt(l, offset), idx |-> 0, length |-> length],
           answers)

-----------------------------------------------------------------------------
(* Renaming the entries in list order. *)

\* The entries reached from the head along next, each once.
Chain(l) ==
  LET go[i \in 0 .. MaxLen + 1] ==
        IF i = 0 THEN <<>>
        ELSE LET c == go[i - 1]
                 x == IF c = <<>> THEN l.head ELSE l.e[Last(c)].next
             IN IF x = 0 \/ Contains(c, x) THEN c ELSE Append(c, x)
  IN go[MaxLen + 1]

Renamed(l) ==
  LET chain == Chain(l)
      order == chain \o SetToSortSeq(Addresses \ Range(chain), <)
      new == [x \in 0 .. MaxLen + 1 |-> IF x = 0 THEN 0 ELSE CHOOSE i \in Addresses : order[i] = x]
  IN [l EXCEPT !.head = new[@], !.tail = new[@], !.cur = new[@],
               !.e = [i \in Addresses |-> [l.e[order[i]] EXCEPT !.prev = new[@], !.next = new[@]]]]

-----------------------------------------------------------------------------

Positions == 0 .. MaxLen - 1
Do(l) == list' = Renamed(l) /\ UNCHANGED slices
Room(n) == list.length + n <= MaxLen

Init == list = EmptyList /\ slices = <<>>

Push == Room(1) /\ \E v \in Values : Do(PushValue(list, v))
Pop == Do(PopValue(list))
Unshift == Room(1) /\ \E v \in Values : Do(UnshiftValue(list, v))
Shift == Do(ShiftValue(list))
Insert == Room(1) /\ \E v \in Values, p \in Positions : Do(InsertValue(list, v, p))
Pick == \E p \in Positions : Do(Picked(list, p))
Fetch == \E p \in Positions : Do(FetchValue(list, p))
Move == \E p, q \in Positions : Do(MoveValue(list, p, q))
Swap == \E p, q \in 0 .. list.length - 1 : Do(SwapValues(list, p, q))
Set == Room(1) /\ \E v \in Values, p \in Positions : Do(SetValue(list, p, v))
Subst == \E v \in Values, p \in Positions : Do(SubstValue(list, p, v))
GetTagged == \E t \in {0, 1} : Do(LookFor(list, t))
SetTagged ==
  \E v \in Values :
    /\ Careful => TagPosition(list, Tag(v)) < MaxLen
    /\ Room(1)
    /\ Do(SetTaggedValue(list, v))
Clear == Do(ClearList(list))

SliceCreate ==
  /\ Len(slices) < MaxSlices
  /\ \E o \in Positions, n \in 1 .. MaxLen : slices' = Append(slices, [offset |-> o, length |-> n])
  /\ UNCHANGED list

\* Destroying the last of several slices follows a NULL pointer.
SliceDestroy ==
  \E i \in DOMAIN slices :
    /\ i = Len(slices) => i = 1
    /\ slices' = RemoveAt(slices, i)
    /\ UNCHANGED list

\* What a handler may answer: 1 goes on, -1 removes and goes on, 0 stops, -2
\* removes and stops.
Answers ==
  {a \in [1 .. MaxLen -> {-2, -1, 0, 1}] :
     \A i \in 1 .. MaxLen - 1 : a[i] \in {-2, 0} => a[i + 1] = 0}

SliceForeach ==
  \E i \in DOMAIN slices, answers \in Answers :
    LET s == Foreach(list, slices[i].offset, slices[i].length, answers) IN
    list' = Renamed(s.list) /\ slices' = [slices EXCEPT ![i].length = s.length]

\* list_foreach_value is an iteration over a slice of its own.
ListForeach ==
  \E answers \in Answers : Do(Foreach(list, 0, list.length, answers).list)

\* list_destroy, and list_create again.
Destroy == list' = EmptyList /\ slices' = <<>>

Next ==
  \/ Push \/ Pop \/ Unshift \/ Shift \/ Insert \/ Pick \/ Fetch \/ Move \/ Swap \/ Set \/ Subst
  \/ GetTagged \/ SetTagged \/ Clear \/ SliceCreate \/ SliceDestroy \/ SliceForeach \/ ListForeach
  \/ Destroy

Spec == Init /\ [][Next]_vars

-----------------------------------------------------------------------------
(* Properties. *)

Contents(l) == LET c == Chain(l) IN [i \in DOMAIN c |-> l.e[c[i]].value]
Content == Contents(list)

\* l is one chain: length entries from head to tail, each the prev of its
\* next, and no entry outside it is still allocated.
Chained(l) ==
  LET c == Chain(l) IN
  /\ Len(c) = l.length
  /\ l.head = (IF c = <<>> THEN 0 ELSE c[1])
  /\ l.tail = (IF c = <<>> THEN 0 ELSE Last(c))
  /\ \A i \in DOMAIN c : /\ l.e[c[i]].prev = (IF i = 1 THEN 0 ELSE c[i - 1])
                         /\ l.e[c[i]].next = (IF i = Len(c) THEN 0 ELSE c[i + 1])
  /\ \A x \in Addresses \ Range(c) : l.e[x] = Unallocated

\* The remembered entry is the one at the remembered position.
CacheTrue(l) == l.cur # 0 => l.pos < l.length /\ Chain(l)[l.pos + 1] = l.cur

\* Whatever is pushed, inserted, moved, swapped or removed while iterating,
\* the links in both directions, head, tail and length describe one list, no
\* entry is lost from it, and the entry pick_entry remembered is still the one
\* at the remembered position.
OneChain == Chained(list) /\ CacheTrue(list)

\* s with v put in at position p, after NULLs when that is past the end.
WithValue(s, v, p) ==
  IF p <= Len(s) THEN InsertAt(s, p + 1, v) ELSE s \o [i \in 1 .. p - Len(s) |-> 0] \o <<v>>

\* With any entry remembered, pick_entry reaches every position from it or
\* from either end, and inserting, fetching, moving and swapping by position
\* do to the values what they would do to a sequence, though each is made of
\* several relinkings.
EditsRight ==
  LET c == Content IN
  \A p \in Positions :
    /\ ValueAt(list, p) = (IF p < Len(c) THEN c[p + 1] ELSE 0)
    /\ \A v \in Values : Contents(InsertValue(list, v, p)) = WithValue(c, v, p)
    /\ p < list.length =>
         LET rest == RemoveAt(c, p + 1) IN
         /\ Contents(FetchValue(list, p)) = rest
         /\ \A q \in Positions : Contents(MoveValue(list, p, q)) = WithValue(rest, c[p + 1], q)
         /\ \A q \in 0 .. p : Contents(SwapValues(list, p, q))
                                = [c EXCEPT ![p + 1] = c[q + 1], ![q + 1] = c[p + 1]]
=============================================================================
