-------------------------------- MODULE RBuf --------------------------------
(***************************************************************************)
(* The ring buffers of octets of src/rbuf.c.  A buffer is a record of the  *)
(* fields of struct _rbuf_s; each function of the file is an operator on   *)
(* that record and an action that applies it to one of the buffers.  rfx   *)
(* and wfx may stand one past the last octet.  What an index past the      *)
(* buffer gives is any octet; a memcpy that writes past it, or one of a    *)
(* negative length, makes the rest of the behaviour undefined (wild).      *)
(***************************************************************************)
EXTENDS Integers, Sequences, FiniteSets

CONSTANTS
  Buffers,   \* the ring buffers, all of the same size
  Octets,    \* the values of u_char
  Size,      \* rbuf_create()'s size
  MaxLen,    \* bound on the sizes the callers pass
  Careful    \* TRUE: callers keep to the disciplines of CarefulTransfer,
             \* CarefulUntil

ASSUME RBufAssumption ==
  /\ Size \in Nat \ {0}
  /\ MaxLen \in Nat
  /\ Octets # {}
  /\ Careful \in BOOLEAN

VARIABLES
  rb,        \* the buffers
  out,       \* the octets the last call handed out
  result,    \* the last call's return value, for rbuf_find
  wild       \* a memcpy has gone out of bounds

vars == <<rb, out, result, wild>>

Cells == 0 .. Size - 1
Min2(m, n) == IF m < n THEN m ELSE n
Max2(m, n) == IF m < n THEN n ELSE m

Inputs == UNION {[1 .. n -> Octets] : n \in 0 .. MaxLen}
Lengths == 0 .. MaxLen

(* memcpy out of, and into, a buffer.                                      *)
Fetch(buf, from, len) == [i \in 1 .. len |-> buf[from + i - 1]]
Place(buf, at, s) ==
  [i \in Cells |-> IF i \in at .. at + Len(s) - 1 THEN s[i - at + 1] ELSE buf[i]]

-----------------------------------------------------------------------------
(* struct _rbuf_s *)
Modes == {"blocking", "overwrite"}
Buffer == [buf : [Cells -> Octets], used : 0 .. Size, rfx : 0 .. Size,
           wfx : 0 .. Size, mode : Modes]

(* rbuf_create: malloc leaves any octets in the buffer.                    *)
Init ==
  /\ rb \in [Buffers -> {x \in Buffer : x.used = 0 /\ x.rfx = 0 /\ x.wfx = 0
                                       /\ x.mode = "blocking"}]
  /\ out = <<>> /\ result = -1 /\ wild = FALSE

(* rbuf_skip *)
Skip(x, n) ==
  IF n >= x.used
  THEN [x EXCEPT !.rfx = x.wfx, !.used = 0]
  ELSE [x EXCEPT !.used = @ - n,
                 !.rfx = IF n > Size - @ THEN n - (Size - @) ELSE @ + n]

(* rbuf_read *)
ReadSize(x, n) == IF n > x.used THEN x.used ELSE n

(* Slip: the two parts of a read that wraps around are swapped.            *)
ReadOutSwapped(x, n) ==
  LET k == ReadSize(x, n)
      to_end == Size - x.rfx
  IN IF k > to_end
     THEN Fetch(x.buf, 0, k - to_end) \o Fetch(x.buf, x.rfx, to_end)
     ELSE Fetch(x.buf, x.rfx, k)

ReadOut(x, n) ==
  LET k == ReadSize(x, n)
      to_end == Size - x.rfx
  IN IF k > to_end
     THEN Fetch(x.buf, x.rfx, to_end) \o Fetch(x.buf, 0, k - to_end)
     ELSE Fetch(x.buf, x.rfx, k)
Read(x, n) ==
  LET k == ReadSize(x, n)
      to_end == Size - x.rfx
  IN [x EXCEPT !.rfx = IF k > to_end THEN k - to_end ELSE @ + k, !.used = @ - k]

(* rbuf_write: the part that makes room in overwrite mode, the part that   *)
(* stores k octets at wfx, and the whole.                                  *)
MakeRoom(x, diff) ==
  [x EXCEPT !.rfx = IF @ + diff >= Size THEN @ + diff - Size ELSE @ + diff,
            !.used = @ - diff]

Store(x, in, k) ==
  LET to_end == Size - x.wfx IN
  IF k > to_end
  THEN [x EXCEPT !.buf = Place(Place(@, x.wfx, SubSeq(in, 1, to_end)), 0,
                               SubSeq(in, to_end + 1, k)),
                 !.wfx = k - to_end, !.used = @ + k]
  ELSE [x EXCEPT !.buf = Place(@, x.wfx, SubSeq(in, 1, k)),
                 !.wfx = @ + k, !.used = @ + k]
Write(x, in) ==
  LET n == Len(in)
      k == Min2(n, Size - x.used)
  IN IF n = 0 THEN x
     ELSE IF k = n \/ x.mode = "blocking" THEN Store(x, in, k)
     ELSE IF n > Size
     THEN [x EXCEPT !.rfx = 0, !.wfx = 0, !.used = Size,
                    !.buf = Place(@, 0, SubSeq(in, n - Size + 1, n))]
     ELSE Store(MakeRoom(x, n - k), in, n)

(* rbuf_clear *)
Clear(x) == [x EXCEPT !.rfx = 0, !.wfx = 0, !.used = 0]

(* The first of the offsets at which an octet was found, or -1.            *)
FirstHit(hits) ==
  IF hits = {} THEN -1 ELSE CHOOSE k \in hits : \A j \in hits : k <= j

(* Slip: the octets from the start of the buffer are not searched.         *)
FindToEnd(x, o, beyond) ==
  LET at(k) == x.buf[x.rfx + k] IN
  IF x.used = 0 THEN -1 ELSE FirstHit({k \in 0 .. Size - 1 - x.rfx : at(k) = o})

(* rbuf_find: beyond is what lies after the buffer.                        *)
Find(x, o, beyond) ==
  LET to_end == Size - x.rfx
      cell(i) == IF i \in Cells THEN x.buf[i] ELSE beyond
      at(k) == cell(IF x.wfx > x.rfx \/ k < to_end THEN x.rfx + k ELSE k - to_end)
      last == IF x.wfx > x.rfx THEN x.wfx - x.rfx ELSE to_end + x.wfx
  IN IF x.used = 0 THEN -1 ELSE FirstHit({k \in 0 .. last : at(k) = o})

(* rbuf_read_until: the octets up to the end of the buffer, then, if o was *)
(* not among them, those from its start.                                   *)
UntilOut(x, o, maxsize) ==
  LET to_end == Min2(Size - x.rfx, maxsize)
      rest == Max2(0, Min2(x.used, maxsize) - to_end)
      high(k) == x.buf[x.rfx + k]
      low(k) == x.buf[k]
      hit == FirstHit({k \in 0 .. to_end - 1 : high(k) = o})
      wrapped == FirstHit({k \in 0 .. rest - 1 : low(k) = o})
  IN IF hit # -1 THEN Fetch(x.buf, x.rfx, hit + 1)
     ELSE Fetch(x.buf, x.rfx, to_end) \o
          Fetch(x.buf, 0, IF wrapped # -1 THEN wrapped + 1 ELSE rest)

(* rbuf_copy_internal: how much is copied, and how much of it fits between *)
(* dst's wfx and the next boundary.                                        *)
ToCopy(s, d, len) == Min2(Min2(Size - d.used, len), s.used)
Contiguous(d) == IF d.wfx > d.rfx THEN Size - d.wfx ELSE d.rfx - d.wfx

(* A memcpy from an offset in src to an offset in dst.                     *)
Chunk(to, from, len) == [to |-> to, from |-> from, len |-> len]

(* Slip: the length of the copy is the size of the buffer.                 *)
ChunksWhole(s, d, k) == <<Chunk(d.wfx, s.rfx, Size)>>

(* The memcpy calls of rbuf_copy, in order.                                *)
Chunks(s, d, k) ==
  LET room == Contiguous(d)
      remainder == k - room
      to_end == Size - s.rfx
      diff == IF to_end > room THEN to_end - room ELSE room - to_end
  IN IF room >= k
     THEN IF s.rfx < s.wfx
          THEN <<Chunk(d.wfx, s.rfx, k)>>
          ELSE <<Chunk(d.wfx, s.rfx, to_end), Chunk(d.wfx + to_end, 0, k - to_end)>>
     ELSE IF s.rfx < s.wfx
     THEN <<Chunk(d.wfx, s.rfx, room), Chunk(0, s.rfx + room, remainder)>>
     ELSE IF to_end > room
     THEN IF diff > remainder
          THEN <<Chunk(d.wfx, d.rfx, room), Chunk(0, d.rfx + room, remainder)>>
          ELSE <<Chunk(d.wfx, d.rfx, room), Chunk(0, d.rfx + room, diff),
                 Chunk(diff, 0, remainder - diff)>>
     ELSE IF diff # 0
     THEN <<Chunk(d.wfx, d.rfx, to_end), Chunk(d.wfx + to_end, 0, diff),
            Chunk(0, diff, remainder)>>
     ELSE <<Chunk(d.wfx, d.rfx, to_end)>>

InBounds(c) == c.len >= 0 /\ c.from + c.len <= Size /\ c.to + c.len <= Size

(* Slip: the read offset of the source is left out.                        *)
CopiedFromStart(s, d, chunks, i) ==
  LET hits == {n \in DOMAIN chunks : i \in chunks[n].to .. chunks[n].to + chunks[n].len - 1} IN
  IF hits = {} THEN d.buf[i] ELSE s.buf[i]

(* The octet that cell i of dst ends up with.                              *)
Copied(s, d, chunks, i) ==
  LET hits == {n \in DOMAIN chunks : i \in chunks[n].to .. chunks[n].to + chunks[n].len - 1}
      c == chunks[CHOOSE n \in hits : \A m \in hits : n >= m]
  IN IF hits = {} THEN d.buf[i] ELSE s.buf[c.from + i - c.to]

CopyWfx(s, d, k) ==
  IF Contiguous(d) < k THEN k - Contiguous(d)
  ELSE IF s.rfx < s.wfx THEN d.wfx + k ELSE d.wfx + (Size - s.rfx) + k

(* Slip: the write offset of the destination stays.                        *)
MoveWfxUnset(d, k) == d.wfx

(* rbuf_move stores what rbuf_read hands out.                              *)
MoveWfx(d, k) == IF Contiguous(d) < k THEN k - Contiguous(d) ELSE d.wfx + k
MoveBuf(s, d, k) ==
  LET octets == ReadOut(s, k)
      room == Min2(Contiguous(d), k)
  IN Place(Place(d.buf, d.wfx, SubSeq(octets, 1, room)), 0, SubSeq(octets, room + 1, k))

-----------------------------------------------------------------------------
(* The calls *)

Quiet == out' = <<>> /\ result' = -1 /\ UNCHANGED wild

DoSkip(b, n) == rb' = [rb EXCEPT ![b] = Skip(@, n)] /\ Quiet

DoRead(b, n) ==
  /\ rb' = [rb EXCEPT ![b] = Read(@, n)]
  /\ out' = ReadOut(rb[b], n)
  /\ result' = -1
  /\ UNCHANGED wild

DoWrite(b, in) == rb' = [rb EXCEPT ![b] = Write(@, in)] /\ Quiet

DoClear(b) == rb' = [rb EXCEPT ![b] = Clear(@)] /\ Quiet

SetMode(b, m) == rb' = [rb EXCEPT ![b].mode = m] /\ Quiet

DoFind(b, o) ==
  /\ \E beyond \in Octets : result' = Find(rb[b], o, beyond)
  /\ out' = <<>>
  /\ UNCHANGED <<rb, wild>>

(* The caller asks for no more than is there.                              *)
CarefulUntil(b, maxsize) == maxsize <= rb[b].used

ReadUntil(b, o, maxsize) ==
  /\ Careful => CarefulUntil(b, maxsize)
  /\ out' = UntilOut(rb[b], o, maxsize)
  /\ rb' = [rb EXCEPT ![b] = Skip(@, Len(UntilOut(@, o, maxsize)))]
  /\ result' = -1
  /\ UNCHANGED wild

(* The destination is as created or cleared; a copy, unlike a move, comes  *)
(* from a buffer that holds something and does not wrap around.            *)
CarefulTransfer(s, d, move) ==
  /\ rb[d].used = 0 /\ rb[d].rfx = 0 /\ rb[d].wfx = 0
  /\ ~move => rb[s].used > 0 /\ (rb[s].rfx < rb[s].wfx \/ rb[s].rfx = 0)

Move(s, d, len) ==
  LET k == ToCopy(rb[s], rb[d], len) IN
  /\ s # d
  /\ Careful => CarefulTransfer(s, d, TRUE)
  /\ rb' = IF len = 0 THEN rb
           ELSE [rb EXCEPT ![s] = Read(@, k),
                           ![d] = [@ EXCEPT !.buf = MoveBuf(rb[s], rb[d], k),
                                            !.wfx = MoveWfx(rb[d], k), !.used = k]]
  /\ Quiet

Copy(s, d, len) ==
  LET k == ToCopy(rb[s], rb[d], len)
      chunks == Chunks(rb[s], rb[d], k)
      wfx == CopyWfx(rb[s], rb[d], k)
  IN /\ s # d
     /\ Careful => CarefulTransfer(s, d, FALSE)
     /\ out' = <<>> /\ result' = -1
     /\ IF len = 0 THEN UNCHANGED <<rb, wild>>
        ELSE IF wfx > Size \/ \E n \in DOMAIN chunks : ~InBounds(chunks[n])
        THEN wild' = TRUE /\ UNCHANGED rb
        ELSE /\ rb' = [rb EXCEPT ![d] =
                         [@ EXCEPT !.buf = [i \in Cells |-> Copied(rb[s], rb[d], chunks, i)],
                                   !.wfx = wfx, !.used = k]]
             /\ UNCHANGED wild

Next ==
  /\ ~wild
  /\ \/ \E b \in Buffers, n \in Lengths : DoSkip(b, n) \/ DoRead(b, n)
     \/ \E b \in Buffers, in \in Inputs : DoWrite(b, in)
     \/ \E b \in Buffers : DoClear(b)
     \/ \E b \in Buffers, m \in Modes : SetMode(b, m)
     \/ \E b \in Buffers, o \in Octets : DoFind(b, o)
     \/ \E b \in Buffers, o \in Octets, n \in Lengths : ReadUntil(b, o, n)
     \/ \E s, d \in Buffers, n \in Lengths : Move(s, d, n) \/ Copy(s, d, n)

Spec == Init /\ [][Next]_vars

-----------------------------------------------------------------------------
(* Type invariant: offsets stay within the buffer.                         *)
TypeOK ==
  /\ rb \in [Buffers -> Buffer]
  /\ result \in -1 .. 2 * Size
  /\ wild \in BOOLEAN

(* used is always the distance from rfx to wfx around the buffer, whatever *)
(* the calls, their sizes and the mode: reads and writes never disagree on *)
(* where the data is.                                                      *)
OffsetsAgree ==
  \A b \in Buffers :
    rb[b].rfx + rb[b].used \in {rb[b].wfx, rb[b].wfx + Size}

(* No memcpy leaves the buffers as long as the callers are careful.        *)
StaysInBounds == Careful => ~wild

(* What a buffer holds, oldest octet first.                                *)
Content(x) == [i \in 1 .. x.used |-> x.buf[(x.rfx + i - 1) % Size]]

(* The buffers implement the queues of octets that rbuf.h describes.       *)
Fifo == INSTANCE ByteFifo
          WITH Capacity <- Size, delivered <- out,
               queue <- [b \in Buffers |-> Content(rb[b])],
               qmode <- [b \in Buffers |-> rb[b].mode]

(* The buffers implement those queues, and a write stores the octets it is *)
(* given, in their order: as many as fit, or in overwrite mode all of them *)
(* or the last ones.                                                       *)
ImplementsByteFifo ==
  /\ Fifo!BSpec
  /\ [][\A b \in Buffers, in \in Inputs : DoWrite(b, in) => Fifo!BWrite(b, in)]_vars

(* A move, or a copy, puts the oldest octets of the source in the          *)
(* destination.                                                            *)
TransferKeepsOctets ==
  [][\A s, d \in Buffers, n \in Lengths :
       /\ Move(s, d, n) => Fifo!BTransfer(s, d, n, TRUE)
       /\ Copy(s, d, n) => Fifo!BTransfer(s, d, n, FALSE)]_vars

(* rbuf_find finds the first occurrence there is: at an offset below the   *)
(* one it returns, and anywhere if it returns -1, there is no other.       *)
FindMissesNothing ==
  [][\A b \in Buffers, o \in Octets : DoFind(b, o) =>
       \A i \in 1 .. rb[b].used :
         Content(rb[b])[i] = o => result' # -1 /\ result' <= i - 1]_vars

=============================================================================
