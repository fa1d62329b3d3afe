------------------------------- MODULE FBuf ---------------------------------
(***************************************************************************)
(* fbuf.c: a growing byte buffer.  The used bytes start skip bytes into    *)
(* the allocation and are followed by a terminating zero; len is the size  *)
(* the buffer believes it has, Len(data) the size it really has, and an    *)
(* empty data is a NULL pointer.  Every routine is a function from buffer  *)
(* to buffer.                                                              *)
(*                                                                         *)
(* Bytes outside the used ones and their terminator are never read, so     *)
(* after every call they are recorded as Junk.  A careful client does what *)
(* the code needs and does not check: see the actions.                     *)
(***************************************************************************)
EXTENDS Integers, SequencesExt

CONSTANTS
  Letter, Space, Newline, Return, \* the bytes told apart
  End,       \* the terminating zero
  Junk,      \* a byte nobody has written
  Texts,     \* the byte strings clients add
  Minlen, Fastgrow, Slowgrow, LineEst, \* FBUF_MINLEN, _FASTGROWSIZE, _SLOWGROWSIZE, _LINE_EST
  Maxlens, Minlens, \* the limits clients set; 0 is none
  MaxUsed,   \* the longest content
  Careful    \* whether clients are careful

VARIABLE fbuf

Bytes == {Letter, Space, Newline, Return}
isspace(b) == b \in {Space, Newline, Return}

fbuf_create(maxlen) ==
  [data |-> <<>>, len |-> 0, maxlen |-> maxlen, minlen |-> Minlen, fastgrowsize |-> Fastgrow,
   slowgrowsize |-> Slowgrow, used |-> 0, skip |-> 0]

-----------------------------------------------------------------------------
(* Memory. *)

JunkBytes(n) == [i \in 1 .. n |-> Junk]

\* realloc: the allocation cut or lengthened to n bytes.
Realloc(data, n) == SubSeq(data, 1, Min({n, Len(data)})) \o JunkBytes(n - Min({n, Len(data)}))

\* The bytes text written at offset at; what falls outside is lost.
Write(data, at, text) ==
  [i \in DOMAIN data |-> IF i - at \in DOMAIN text THEN text[i - at] ELSE data[i]]

Content(b) == SubSeq(b.data, b.skip + 1, b.skip + b.used)
\* The content with whatever byte follows it.
Terminated(b) == SubSeq(b.data, b.skip + 1, b.skip + b.used + 1)

Terminate(b) == [b EXCEPT !.data = Write(@, b.skip + b.used, <<End>>)]

\* The content moved to the start of the allocation.
ToFront(b) ==
  [b EXCEPT !.data = Write(@, 0, IF b.used > 0 THEN Terminated(b) ELSE <<End>>), !.skip = 0]

-----------------------------------------------------------------------------
(* Growing and shrinking. *)

\* The first size in the growth sequence from len that holds need bytes.
Grown(b, need) ==
  LET next(l) == IF l = 0 THEN b.minlen ELSE IF l < b.fastgrowsize THEN b.fastgrowsize ELSE l + b.slowgrowsize
      grow[l \in Nat] == IF need > l THEN grow[next(l)] ELSE l
      len == grow[b.len]
  IN IF b.maxlen # 0 /\ len > b.maxlen THEN b.maxlen + 1 ELSE len

\* Whether fbuf_extend(newlen) succeeds.
CanExtend(b, newlen) == newlen + 1 <= b.len \/ b.maxlen = 0 \/ newlen <= b.maxlen

\* The buffer after fbuf_extend(newlen).  A buffer with skipped bytes is
\* copied to a new allocation, without its terminator.
fbuf_extend(b, newlen) ==
  LET len == Grown(b, newlen + 1) IN
  IF newlen + 1 <= b.len - b.skip \/ ~CanExtend(b, newlen) THEN b
  ELSE IF b.skip > 0 /\ newlen + 1 <= b.len THEN ToFront(b)
  ELSE IF b.skip > 0 THEN [b EXCEPT !.data = Realloc(Content(b), len), !.skip = 0, !.len = len]
  ELSE [b EXCEPT !.data = IF @ = <<>> THEN Write(Realloc(@, len), 0, <<End>>) ELSE Realloc(@, len),
                 !.len = len]

\* The last size in the shrinking sequence from len that holds the content.
Shrunk(b, from) ==
  LET next(l) == IF l <= b.fastgrowsize THEN l \div 2 ELSE l - b.slowgrowsize
      fit[l \in Nat] == IF l <= b.minlen \/ next(l) < b.used + 1 THEN l ELSE fit[next(l)]
  IN fit[from]

fbuf_shrink(b) ==
  LET c == IF b.skip > 0 THEN ToFront(b) ELSE b
      len == Shrunk(c, IF b.used = 0 THEN 0 ELSE b.len)
  IN IF len = b.len THEN c ELSE [c EXCEPT !.data = Realloc(@, len), !.len = len]

fbuf_clear(b) ==
  [b EXCEPT !.used = 0, !.skip = 0, !.data = IF b.len > 0 THEN Write(@, 0, <<End>>) ELSE @]

\* fbuf_destroy, and what fbuf_detach leaves.
fbuf_destroy(b) == [b EXCEPT !.data = <<>>, !.used = 0, !.len = 0, !.skip = 0]

\* buf is len bytes, the first used of which are text.
fbuf_attach(b, len, text) ==
  LET used == Len(text) IN
  Terminate([b EXCEPT !.data = Realloc(text, Max({len, used + 1})), !.len = len, !.used = used, !.skip = 0])

fbuf_detach(b) == IF b.used = 0 THEN b ELSE fbuf_destroy(b)

-----------------------------------------------------------------------------
(* Adding. *)

fbuf_add_binary(b, text) ==
  LET c == fbuf_extend(b, b.used + Len(text)) IN
  IF Len(text) = 0 \/ ~CanExtend(b, b.used + Len(text)) THEN b
  ELSE Terminate([c EXCEPT !.data = Write(@, c.skip + c.used, text), !.used = @ + Len(text)])

fbuf_prepend_binaryOver(b, text) ==
  LET c == fbuf_extend(b, b.used + Len(text)) IN
  IF Len(text) = 0 THEN b
  ELSE IF b.skip >= Len(text)
    THEN [b EXCEPT !.data = Write(@, b.skip - Len(text), text), !.skip = @ - Len(text), !.used = @ + Len(text)]
  ELSE IF ~CanExtend(b, b.used + Len(text)) THEN b
  ELSE [c EXCEPT !.data = Write(@, c.skip, text), !.used = @ + Len(text)]

fbuf_prepend_binary(b, text) ==
  LET c == fbuf_extend(b, b.used + Len(text)) IN
  IF Len(text) = 0 THEN b
  ELSE IF b.skip >= Len(text)
    THEN [b EXCEPT !.data = Write(@, b.skip - Len(text), text), !.skip = @ - Len(text), !.used = @ + Len(text)]
  ELSE IF ~CanExtend(b, b.used + Len(text)) THEN b
  ELSE [c EXCEPT !.data = Write(@, c.skip, text \o Terminated(c)), !.used = @ + Len(text)]

\* The text is added even when the newline does not fit.
fbuf_add_ln(b, text) == fbuf_add_binary(fbuf_add_binary(b, text), <<Newline>>)

fbuf_concat(b, src) ==
  LET c == fbuf_extend(b, b.used + src.used) IN
  IF src.used = 0 \/ ~CanExtend(b, b.used + src.used) THEN b
  ELSE [c EXCEPT !.data = Write(@, c.skip + c.used, Terminated(src)), !.used = @ + src.used]

fbuf_copy(src, b) ==
  LET c == fbuf_clear(fbuf_extend(b, src.used)) IN
  IF ~CanExtend(b, src.used) THEN b
  ELSE Terminate([c EXCEPT !.data = Write(@, 0, Content(src)), !.used = src.used])

fbuf_set(b, text) ==
  LET c == fbuf_extend(b, Len(text)) IN
  IF ~CanExtend(b, Len(text)) THEN b
  ELSE [c EXCEPT !.data = Write(@, c.skip, text \o <<End>>), !.used = Len(text)]

fbuf_duplicate(b) == fbuf_add_binary(fbuf_create(b.maxlen), Content(b))

\* vsnprintf (external): what fits of text in the allocation from offset at,
\* with a terminator.
Vsnprintf(b, at, text) ==
  Write(b.data, at, SubSeq(text, 1, Min({Len(text), b.len - at - 1})) \o <<End>>)

\* used grows by the length of the whole text, cut or not.
fbuf_nprintf(b, max, text) ==
  LET c == fbuf_extend(b, b.used + max) IN
  IF ~CanExtend(b, b.used + max) THEN b
  ELSE Terminate([c EXCEPT !.data = Vsnprintf(c, c.skip + c.used, text), !.used = @ + Len(text)])

\* A text that did not fit is printed again after a second extension.
fbuf_printf(b, text) ==
  LET c == fbuf_extend(b, b.used + LineEst)
      tried == [c EXCEPT !.data = Vsnprintf(c, c.skip + c.used, text)]
      d == fbuf_extend(tried, b.used + Len(text))
      fits == Len(text) < c.len - (c.skip + c.used)
      printed == IF fits THEN tried ELSE [d EXCEPT !.data = Vsnprintf(d, d.skip + d.used, text)]
  IN IF ~CanExtend(b, b.used + LineEst) THEN b
     ELSE IF ~fits /\ ~CanExtend(tried, b.used + Len(text)) THEN Terminate(tried)
     ELSE Terminate([printed EXCEPT !.used = @ + Len(text)])

\* fbuf_read and fbuf_fread: the descriptor delivers got, at most explen bytes.
fbuf_read(b, explen, got) ==
  LET c == fbuf_extend(b, b.used + explen) IN
  IF ~CanExtend(b, b.used + explen) THEN b
  ELSE Terminate([c EXCEPT !.data = Write(@, c.skip + c.used, got), !.used = @ + Len(got)])

\* fbuf_read_ln and fbuf_fread_ln, a byte at a time from a descriptor that
\* ends after stream.
AtNewline(b) == b.used > 0 /\ Last(Content(b)) = Newline
ReadByte(b, byte) ==
  LET c == fbuf_extend(b, b.used + 1) IN
  IF AtNewline(b) \/ ~CanExtend(b, b.used + 1) THEN b
  ELSE [c EXCEPT !.data = Write(@, c.skip + c.used, <<byte>>), !.used = @ + 1]
Chop(b) == Terminate([b EXCEPT !.used = @ - 1])
fbuf_read_ln(b, stream) ==
  LET c == FoldLeft(ReadByte, b, stream)
      d == Chop(c)
  IN IF ~AtNewline(c) THEN fbuf_extend(c, c.used + 1)
     ELSE IF d.used > 0 /\ Last(Content(d)) = Return THEN Chop(d) ELSE d

-----------------------------------------------------------------------------
(* Removing. *)

fbuf_remove(b, n) ==
  LET c == [b EXCEPT !.skip = @ + n, !.used = @ - n] IN
  IF n >= b.used THEN Terminate([b EXCEPT !.used = 0, !.skip = 0])
  ELSE IF n > 0 /\ c.skip >= b.len \div 2 THEN ToFront(c)
  ELSE c

\* The descriptor takes the first n of the bytes offered.
fbuf_write(b, nbytes, n) ==
  LET offered == IF nbytes = 0 THEN b.used ELSE Min({nbytes, b.used}) IN
  IF Min({n, offered}) = 0 THEN b ELSE fbuf_remove(b, Min({n, offered}))

\* The bytes before the first that is no space, and after the last.
Leading(s) == Max({n \in 0 .. Len(s) : \A i \in 1 .. n : isspace(s[i])})

fbuf_trim(b) == fbuf_remove(b, Leading(Content(b)))
fbuf_rtrim(b) == Terminate([b EXCEPT !.used = @ - Leading(Reverse(Content(b)))])

fbuf_set_used(b, newused) == IF newused < b.used THEN Terminate([b EXCEPT !.used = newused]) ELSE b

-----------------------------------------------------------------------------
(* Limits. *)

fbuf_maxlen(b, len) ==
  LET c == fbuf_shrink([b EXCEPT !.maxlen = len]) IN
  IF b.len <= len THEN [b EXCEPT !.maxlen = len]
  ELSE [c EXCEPT !.data = Write(Realloc(@, len + 1), len, <<End>>), !.len = len + 1,
                 !.used = Min({@, len})]

fbuf_minlen(b, len) ==
  IF len = 0 THEN b
  ELSE IF b.used < len /\ b.len > len
    THEN [b EXCEPT !.minlen = len, !.data = Realloc(@, len), !.len = len]
    ELSE [b EXCEPT !.minlen = len]

fbuf_fastgrowsize(b, size) == IF size = 0 THEN b ELSE [b EXCEPT !.fastgrowsize = size]
fbuf_slowgrowsize(b, size) == IF size = 0 THEN b ELSE [b EXCEPT !.slowgrowsize = size]

-----------------------------------------------------------------------------

\* Other buffers of the program: an empty one and one with skipped bytes.
Others ==
  LET full == fbuf_add_binary(fbuf_create(0), <<Letter, Letter, Letter>>) IN
  {fbuf_create(0), fbuf_remove(full, 1)}

Tidy(b) ==
  [b EXCEPT !.data = [i \in DOMAIN @ |-> IF i - b.skip \in 1 .. b.used + 1 THEN @[i] ELSE Junk]]
Do(b) == b.used <= MaxUsed /\ fbuf' = Tidy(b)

Init == \E maxlen \in Maxlens : fbuf = fbuf_create(maxlen)

Add == \E t \in Texts : Do(fbuf_add_binary(fbuf, t))
AddLn == \E t \in Texts : Do(fbuf_add_ln(fbuf, t))
Set == \E t \in Texts : Do(fbuf_set(fbuf, t))

\* Moving to a new allocation loses the terminator, and only callers that
\* write one themselves restore it: fbuf_prepend does not.
MovesAway(b, newlen) == b.skip > 0 /\ newlen + 1 > b.len /\ CanExtend(b, newlen)

Prepend ==
  \E t \in Texts :
    /\ Careful => fbuf.skip >= Len(t) \/ ~MovesAway(fbuf, fbuf.used + Len(t))
    /\ Do(fbuf_prepend_binary(fbuf, t))

Extend ==
  \E n \in 1 .. MaxUsed :
    /\ Careful => ~MovesAway(fbuf, n)
    /\ Do(fbuf_extend(fbuf, n))

Concat == \E src \in Others : Do(fbuf_concat(fbuf, src))
Copy == \E src \in Others : Do(fbuf_copy(src, fbuf))

\* fbuf_move to this buffer, fbuf_swap.
MoveIn == \E src \in Others : Do(src)
Duplicate == Do(fbuf_duplicate(fbuf))

Printf == \E t \in Texts : Do(fbuf_printf(fbuf, t))
Nprintf ==
  \E t \in Texts, max \in 1 .. 2 :
    /\ Careful => Len(t) <= max
    /\ Do(fbuf_nprintf(fbuf, max, t))

\* A descriptor may deliver less than was asked for, or nothing.
Read == \E t \in Texts \union {<<>>}, n \in 1 .. 2 : Len(t) <= n /\ Do(fbuf_read(fbuf, n, t))

\* A line that does not end, or does not fit, is left without terminator.
ReadLn ==
  \E t \in Texts \union {<<>>}, cr \in {<<>>, <<Return>>}, nl \in {<<>>, <<Newline>>} :
    /\ Careful => AtNewline(FoldLeft(ReadByte, fbuf, t \o cr \o nl))
    /\ Do(fbuf_read_ln(fbuf, t \o cr \o nl))

\* Removing and trimming write the terminator, allocated or not.
RemoveBytes == \E n \in 0 .. MaxUsed + 1 : fbuf.data # <<>> /\ Do(fbuf_remove(fbuf, n))
Trim == fbuf.data # <<>> /\ Do(fbuf_trim(fbuf))
Rtrim == fbuf.data # <<>> /\ Do(fbuf_rtrim(fbuf))
SetUsed == \E n \in 0 .. MaxUsed : Do(fbuf_set_used(fbuf, n))
WriteOut == \E nbytes \in 0 .. 2, n \in 0 .. MaxUsed : Do(fbuf_write(fbuf, nbytes, n))

Shrink == Do(fbuf_shrink(fbuf))
Clear == Do(fbuf_clear(fbuf))
Detach == Do(fbuf_detach(fbuf))
Destroy == Do(fbuf_destroy(fbuf))
Attach ==
  \E t \in Texts, len \in 1 .. 4 :
    /\ Careful => Len(t) < len /\ (fbuf.maxlen # 0 => len <= fbuf.maxlen + 1)
    /\ Do(fbuf_attach(fbuf, len, t))

\* A smaller limit leaves an empty buffer without terminator, and a smaller
\* minimum cuts the allocation without regard to skip.
SetMaxlen ==
  \E len \in Maxlens :
    /\ Careful /\ fbuf.len > len => fbuf.used > 0
    /\ Do(fbuf_maxlen(fbuf, len))
SetMinlen ==
  \E len \in Minlens :
    /\ Careful => fbuf.skip = 0
    /\ Do(fbuf_minlen(fbuf, len))
SetGrowth ==
  \E size \in Minlens : Do(fbuf_fastgrowsize(fbuf, size)) \/ Do(fbuf_slowgrowsize(fbuf, size))

Next ==
  \/ Add \/ AddLn \/ Set \/ Prepend \/ Extend \/ Concat \/ Copy \/ MoveIn \/ Duplicate
  \/ Printf \/ Nprintf \/ Read \/ ReadLn \/ RemoveBytes \/ Trim \/ Rtrim \/ SetUsed \/ WriteOut
  \/ Shrink \/ Clear \/ Detach \/ Destroy \/ Attach \/ SetMaxlen \/ SetMinlen \/ SetGrowth

Spec == Init /\ [][Next]_fbuf

-----------------------------------------------------------------------------
(* Properties. *)

FitsIn(b) ==
  /\ b.data = <<>> => b.len = 0 /\ b.used = 0 /\ b.skip = 0
  /\ b.data # <<>> => b.skip + b.used < Len(b.data) /\ b.len = Len(b.data)

\* len is the size of the allocation, the used bytes and the byte after them
\* lie inside it, that byte is the terminating zero (fbuf.h's "Always
\* \0-terminated"), and a maximum is never passed, whatever was skipped, moved,
\* shrunk, attached or limited.
Sound ==
  /\ FitsIn(fbuf)
  /\ fbuf.data # <<>> => Last(Terminated(fbuf)) = End
  /\ fbuf.maxlen # 0 => fbuf.len <= fbuf.maxlen + 1

\* Whether n bytes are promised a place in b.
Holds(b, n) == b.maxlen = 0 \/ n <= b.maxlen \/ n < b.len

\* The outcome c of adding to b, with the bytes wanted: all of them when there
\* is a place for n, and b's own otherwise.
AllOrNothing(b, c, wanted, n) == FitsIn(c) /\ Content(c) = IF Holds(b, n) THEN wanted ELSE Content(b)

AddsRight ==
  LET c == Content(fbuf)
      u == fbuf.used
  IN /\ \A t \in Texts :
          /\ AllOrNothing(fbuf, fbuf_add_binary(fbuf, t), c \o t, u + Len(t))
          /\ AllOrNothing(fbuf, fbuf_prepend_binary(fbuf, t), t \o c,
                          IF fbuf.skip >= Len(t) THEN 0 ELSE u + Len(t))
          /\ AllOrNothing(fbuf, fbuf_set(fbuf, t), t, Len(t))
          /\ AllOrNothing(fbuf, fbuf_printf(fbuf, t), c \o t, u + Max({LineEst, Len(t)}))
     /\ \A o \in Others :
          /\ AllOrNothing(fbuf, fbuf_concat(fbuf, o), c \o Content(o), u + o.used)
          /\ AllOrNothing(fbuf, fbuf_copy(o, fbuf), Content(o), o.used)

SizesRight ==
  LET c == Content(fbuf)
      d == fbuf_shrink(fbuf)
  IN /\ FitsIn(d) /\ Content(d) = c /\ d.len <= fbuf.len
     /\ fbuf_shrink(d) = d
     /\ \A n \in 1 .. MaxUsed : LET e == fbuf_extend(fbuf, fbuf.used + n) IN
          /\ FitsIn(e) /\ Content(e) = c
          /\ Holds(fbuf, fbuf.used + n) => e.skip + e.used + n < e.len

RemovesRight ==
  LET c == Content(fbuf)
      inner == {i \in DOMAIN c : ~isspace(c[i])}
  IN fbuf.data # <<>> =>
       /\ \A n \in 0 .. MaxUsed : Content(fbuf_remove(fbuf, n)) = SubSeq(c, n + 1, Len(c))
       /\ Content(fbuf_trim(fbuf_rtrim(fbuf))) = IF inner = {} THEN <<>> ELSE SubSeq(c, Min(inner), Max(inner))

\* Data is added completely or not at all, at either end, wherever in the
\* allocation the content lies; shrinking and extending keep the content, and
\* shrinking twice gains nothing; removing and trimming take bytes from the
\* ends and keep the others, whether they skip or move.
EditsRight == AddsRight /\ SizesRight /\ RemovesRight
=============================================================================
