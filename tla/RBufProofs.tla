----------------------------- MODULE RBufProofs -----------------------------
(***************************************************************************)
(* Proofs about RBuf: used, rfx and wfx agree with each other whatever     *)
(* sequence of calls is made, for every size of the buffers, as long as    *)
(* callers keep to CarefulUntil and CarefulTransfer.                       *)
(***************************************************************************)
EXTENDS RBuf, TLAPS, SequenceTheorems, WellFoundedInduction

USE RBufAssumption

(* What every buffer satisfies on its own. *)
Distance(r, u, w) == r + u = w \/ r + u = w + Size
Agrees(x) == Distance(x.rfx, x.used, x.wfx)
Sound(x) == x \in Buffer /\ Agrees(x)

(* The fields of a buffer, and a buffer built from fields. *)
LEMMA Fields ==
  ASSUME NEW x \in Buffer
  PROVE  /\ x.buf \in [Cells -> Octets]
         /\ x.used \in 0 .. Size /\ x.rfx \in 0 .. Size /\ x.wfx \in 0 .. Size
         /\ x.mode \in Modes
BY DEF Buffer

(* Changing the offsets, or the octets and the write offset, of a buffer. *)
LEMMA ChangeRead ==
  ASSUME NEW x \in Buffer, NEW used \in 0 .. Size, NEW rfx \in 0 .. Size,
         Distance(rfx, used, x.wfx)
  PROVE  Sound([x EXCEPT !.rfx = rfx, !.used = used])
<1> DEFINE y == [x EXCEPT !.rfx = rfx, !.used = used]
<1>1. y \in Buffer
  BY DEF Buffer
<1>2. y.rfx = rfx /\ y.used = used /\ y.wfx = x.wfx
  BY DEF Buffer
<1> QED
  BY <1>1, <1>2 DEF Sound, Agrees

(* A buffer given contents, wfx and used that agree is sound.              *)
LEMMA ChangeWrite ==
  ASSUME NEW x \in Buffer, NEW buf \in [Cells -> Octets], NEW used \in 0 .. Size,
         NEW wfx \in 0 .. Size, Distance(x.rfx, used, wfx)
  PROVE  Sound([x EXCEPT !.buf = buf, !.wfx = wfx, !.used = used])
<1> DEFINE y == [x EXCEPT !.buf = buf, !.wfx = wfx, !.used = used]
<1>1. y \in Buffer
  BY DEF Buffer
<1>2. y.rfx = x.rfx /\ y.used = used /\ y.wfx = wfx
  BY DEF Buffer
<1> QED
  BY <1>1, <1>2 DEF Sound, Agrees

(* The least-number principle: the loops of rbuf_find and rbuf_read_until  *)
(* stop at the first hit, if there is one.                                 *)
LEMMA LeastNat ==
  ASSUME NEW T, T \subseteq Nat, T # {}
  PROVE  \E x \in T : \A y \in T : x <= y
<1>1. PICK R : R = OpToRel(<, Nat)
  OBVIOUS
<1>2. IsWellFoundedOn(R, Nat)
  BY <1>1, NatLessThanWellFounded
<1>3. \A m, n \in Nat : m < n => <<m, n>> \in R
  BY <1>1 DEF OpToRel
<1>4. PICK x \in T : \A y \in T : ~ (<<y, x>> \in R)
  BY <1>2, WFMin
<1>5. \A y \in T : x <= y
  <2> TAKE y \in T
  <2>1. x \in Nat /\ y \in Nat /\ ~ (<<y, x>> \in R)
    BY <1>4
  <2>2. ~(y < x)
    BY <2>1, <1>3
  <2> QED
    BY <2>1, <2>2
<1> QED
  BY <1>5

(* rbuf_skip *)
LEMMA SkipSound ==
  ASSUME NEW x, Sound(x), NEW n \in Nat
  PROVE  Sound(Skip(x, n))
<1>1. x \in Buffer /\ Agrees(x)
  BY DEF Sound
<1>2. CASE n >= x.used
  <2>1. x.wfx \in 0 .. Size /\ 0 \in 0 .. Size /\ Distance(x.wfx, 0, x.wfx)
    BY <1>1, Fields DEF Distance
  <2>2. Sound([x EXCEPT !.rfx = x.wfx, !.used = 0])
    BY <1>1, <2>1, ChangeRead
  <2> QED
    BY <1>2, <2>2 DEF Skip
<1>3. CASE ~(n >= x.used)
  <2> DEFINE rfx == IF n > Size - x.rfx THEN n - (Size - x.rfx) ELSE x.rfx + n
  <2>1. rfx \in 0 .. Size /\ x.used - n \in 0 .. Size
    BY <1>1, <1>3, Fields
  <2>2. Distance(rfx, x.used - n, x.wfx)
    BY <1>1, <1>3, Fields DEF Agrees, Distance
  <2>3. Sound([x EXCEPT !.rfx = rfx, !.used = x.used - n])
    BY <1>1, <2>1, <2>2, ChangeRead
  <2> QED
    BY <1>3, <2>3 DEF Skip
<1> QED
  BY <1>2, <1>3

(* rbuf_read *)
LEMMA ReadSound ==
  ASSUME NEW x, Sound(x), NEW n \in Nat
  PROVE  Sound(Read(x, n))
<1>1. x \in Buffer /\ Agrees(x)
  BY DEF Sound
<1> DEFINE k == ReadSize(x, n)
           rfx == IF k > Size - x.rfx THEN k - (Size - x.rfx) ELSE x.rfx + k
<1>2. k \in 0 .. x.used
  BY <1>1, Fields DEF ReadSize
<1> HIDE DEF k
<1>3. rfx \in 0 .. Size /\ x.used - k \in 0 .. Size
  BY <1>1, <1>2, Fields
<1>4. Distance(rfx, x.used - k, x.wfx)
  BY <1>1, <1>2, Fields DEF Agrees, Distance
<1>5. Sound([x EXCEPT !.rfx = rfx, !.used = x.used - k])
  BY <1>1, <1>3, <1>4, ChangeRead
<1> QED
  BY <1>5 DEF Read, k

(* The arithmetic of rbuf_write: of the new write offset, and of the read  *)
(* offset when diff octets make room for n.  In between, an emptied buffer *)
(* may have rfx = 0 and wfx = Size.                                        *)
MayStore(r, u, w, k) == Distance(r, u, w) \/ (r = 0 /\ u = 0 /\ w = Size /\ k > 0)

(* Offsets after rbuf_write has stored k bytes that fit.                   *)
LEMMA StoreArithmetic ==
  \A r, u, w \in 0 .. Size, k \in Nat :
    u + k <= Size /\ MayStore(r, u, w, k) =>
      /\ k > Size - w => k - (Size - w) \in 0 .. Size /\ Distance(r, u + k, k - (Size - w))
      /\ ~(k > Size - w) => w + k \in 0 .. Size /\ Distance(r, u + k, w + k)
      /\ u + k \in 0 .. Size
BY DEF Distance, MayStore

RoomRfx(r, diff) == IF r + diff >= Size THEN r + diff - Size ELSE r + diff

(* Offsets after an overwriting rbuf_write has made room for n bytes.      *)
LEMMA RoomArithmetic ==
  \A r, u, w \in 0 .. Size, n \in 1 .. Size :
    n > Size - u /\ Distance(r, u, w) =>
      LET diff == n - (Size - u) IN
      /\ RoomRfx(r, diff) \in 0 .. Size /\ u - diff \in 0 .. Size
      /\ MayStore(RoomRfx(r, diff), u - diff, w, n)
      /\ u - diff + n <= Size
BY DEF Distance, MayStore, RoomRfx

(* memcpy into a buffer leaves octets in it. *)
LEMMA PlaceType ==
  ASSUME NEW buf \in [Cells -> Octets], NEW at \in Nat, NEW s \in Seq(Octets)
  PROVE  Place(buf, at, s) \in [Cells -> Octets]
<1>1. Len(s) \in Nat /\ \A j \in 1 .. Len(s) : s[j] \in Octets
  OBVIOUS
<1>2. ASSUME NEW i \in Cells, i \in at .. at + Len(s) - 1
      PROVE  s[i - at + 1] \in Octets
  BY <1>1, <1>2
<1> QED
  BY <1>2 DEF Place

(* The part of rbuf_write that stores k of the input's octets. *)
LEMMA StoreSound ==
  ASSUME NEW x \in Buffer, NEW in \in Seq(Octets), NEW k \in 0 .. Len(in),
         x.used + k <= Size, MayStore(x.rfx, x.used, x.wfx, k)
  PROVE  Sound(Store(x, in, k))
<1> DEFINE to_end == Size - x.wfx
<1>2. /\ x.buf \in [Cells -> Octets] /\ x.wfx \in 0 .. Size /\ x.wfx \in Nat
      /\ x.used \in 0 .. Size /\ x.rfx \in 0 .. Size
      /\ to_end \in 0 .. Size /\ Len(in) \in Nat /\ k \in Nat
  BY Fields
<1>3. \A m \in Nat \ {0}, n \in 0 .. Len(in) : SubSeq(in, m, n) \in Seq(Octets)
  <2> TAKE m \in Nat \ {0}, n \in 0 .. Len(in)
  <2>1. \A i \in m .. n : in[i] \in Octets
    BY <1>2
  <2> QED
    BY <1>2, <2>1, SubSeqProperties
<1>4. CASE k > to_end
  <2> DEFINE buf == Place(Place(x.buf, x.wfx, SubSeq(in, 1, to_end)), 0,
                          SubSeq(in, to_end + 1, k))
  <2>1. SubSeq(in, 1, to_end) \in Seq(Octets) /\ SubSeq(in, to_end + 1, k) \in Seq(Octets)
    BY <1>2, <1>3, <1>4
  <2>2. Place(x.buf, x.wfx, SubSeq(in, 1, to_end)) \in [Cells -> Octets]
    BY <1>2, <2>1, PlaceType
  <2>3. buf \in [Cells -> Octets]
    BY <2>1, <2>2, PlaceType
  <2>4. /\ k - to_end \in 0 .. Size /\ x.used + k \in 0 .. Size
        /\ Distance(x.rfx, x.used + k, k - to_end)
    BY <1>2, <1>4, StoreArithmetic
  <2> HIDE DEF buf
  <2>5. Sound([x EXCEPT !.buf = buf, !.wfx = k - to_end, !.used = x.used + k])
    BY <2>3, <2>4, ChangeWrite
  <2> QED
    BY <1>4, <2>5 DEF Store, buf
<1>5. CASE ~(k > to_end)
  <2> DEFINE buf == Place(x.buf, x.wfx, SubSeq(in, 1, k))
  <2>1. SubSeq(in, 1, k) \in Seq(Octets)
    BY <1>3
  <2>2. buf \in [Cells -> Octets]
    BY <1>2, <2>1, PlaceType
  <2>3. /\ x.wfx + k \in 0 .. Size /\ x.used + k \in 0 .. Size
        /\ Distance(x.rfx, x.used + k, x.wfx + k)
    BY <1>2, <1>5, StoreArithmetic
  <2> HIDE DEF buf
  <2>4. Sound([x EXCEPT !.buf = buf, !.wfx = x.wfx + k, !.used = x.used + k])
    BY <2>2, <2>3, ChangeWrite
  <2> QED
    BY <1>5, <2>4 DEF Store, buf
<1> QED
  BY <1>4, <1>5

(* rbuf_write *)
LEMMA WriteSound ==
  ASSUME NEW x, Sound(x), NEW in \in Seq(Octets)
  PROVE  Sound(Write(x, in))
<1>1. x \in Buffer /\ Agrees(x)
  BY DEF Sound
<1> DEFINE n == Len(in)
           k == Min2(n, Size - x.used)
<1>2. /\ n \in Nat /\ k \in 0 .. n /\ x.used + k <= Size
      /\ k # n => k = Size - x.used /\ n > Size - x.used
  BY <1>1, Fields DEF Min2
<1>3. CASE n = 0
  BY <1>3 DEF Write
<1>4. CASE n # 0 /\ (k = n \/ x.mode = "blocking")
  BY <1>1, <1>2, <1>4, StoreSound DEF Write, Agrees, MayStore
<1>5. CASE n # 0 /\ ~(k = n \/ x.mode = "blocking") /\ n > Size
  <2> DEFINE last == SubSeq(in, n - Size + 1, n)
             buf == Place(x.buf, 0, last)
             y == [x EXCEPT !.rfx = 0, !.wfx = 0, !.used = Size, !.buf = buf]
  <2>1. \A i \in n - Size + 1 .. n : in[i] \in Octets
    BY <1>2, <1>5
  <2>2. last \in Seq(Octets)
    BY <1>2, <2>1, SubSeqProperties
  <2>3. buf \in [Cells -> Octets]
    BY <1>1, <2>2, Fields, PlaceType
  <2> HIDE DEF buf
  <2>4. y \in Buffer
    <3>1. 0 \in 0 .. Size /\ Size \in 0 .. Size
      OBVIOUS
    <3> QED
      BY <1>1, <2>3, <3>1 DEF Buffer
  <2>5. y.rfx = 0 /\ y.wfx = 0 /\ y.used = Size
    BY <1>1 DEF Buffer
  <2>6. Sound(y)
    BY <2>4, <2>5 DEF Sound, Agrees, Distance
  <2> QED
    BY <1>5, <2>6 DEF Write, buf
<1>6. CASE n # 0 /\ ~(k = n \/ x.mode = "blocking") /\ ~(n > Size)
  <2> DEFINE diff == n - (Size - x.used)
             y == [x EXCEPT !.rfx = RoomRfx(x.rfx, diff), !.used = x.used - diff]
  <2>1. /\ x.used \in 0 .. Size /\ x.rfx \in 0 .. Size /\ x.wfx \in 0 .. Size
        /\ n \in 1 .. Size /\ n > Size - x.used /\ k = Size - x.used
    BY <1>1, <1>2, <1>6, Fields
  <2>2. /\ RoomRfx(x.rfx, diff) \in 0 .. Size /\ x.used - diff \in 0 .. Size
        /\ MayStore(RoomRfx(x.rfx, diff), x.used - diff, x.wfx, n)
        /\ x.used - diff + n <= Size
    BY <1>1, <2>1, RoomArithmetic DEF Agrees
  <2> HIDE DEF k, diff
  <2>3. y \in Buffer
    BY <1>1, <2>2 DEF Buffer
  <2>4. y.used = x.used - diff /\ y.rfx = RoomRfx(x.rfx, diff) /\ y.wfx = x.wfx
    BY <1>1 DEF Buffer
  <2>5. n \in 0 .. Len(in)
    BY <1>2
  <2> HIDE DEF y
  <2>6. Sound(Store(y, in, n))
    BY <2>2, <2>3, <2>4, <2>5, StoreSound
  <2>7. MakeRoom(x, diff) = y
    BY DEF MakeRoom, y, RoomRfx
  <2> QED
    BY <1>6, <2>1, <2>6, <2>7 DEF Write, k, diff
<1> QED
  BY <1>3, <1>4, <1>5, <1>6

(* rbuf_clear *)
LEMMA ClearSound ==
  ASSUME NEW x \in Buffer
  PROVE  Sound(Clear(x))
<1> DEFINE y == [x EXCEPT !.rfx = 0, !.wfx = 0, !.used = 0]
<1>1. 0 \in 0 .. Size
  OBVIOUS
<1>2. y \in Buffer
  BY <1>1 DEF Buffer
<1>3. y.rfx = 0 /\ y.wfx = 0 /\ y.used = 0
  BY DEF Buffer
<1> QED
  BY <1>2, <1>3 DEF Sound, Agrees, Distance, Clear

(* rbuf_set_mode *)
LEMMA ModeSound ==
  ASSUME NEW x, Sound(x), NEW m \in Modes
  PROVE  Sound([x EXCEPT !.mode = m])
<1> DEFINE y == [x EXCEPT !.mode = m]
<1>1. y \in Buffer
  BY DEF Sound, Buffer
<1>2. y.rfx = x.rfx /\ y.wfx = x.wfx /\ y.used = x.used
  BY DEF Sound, Buffer
<1> QED
  BY <1>1, <1>2 DEF Sound, Agrees

(* The offset at which a loop over an interval stops. *)
LEMMA HitType ==
  ASSUME NEW m \in Int, NEW T \in SUBSET (0 .. m)
  PROVE  (IF T = {} THEN -1 ELSE CHOOSE k \in T : \A j \in T : k <= j) \in {-1} \union T
<1>1. ASSUME T # {}
      PROVE  \E k \in T : \A j \in T : k <= j
  <2>1. T \subseteq Nat
    OBVIOUS
  <2> QED
    BY <1>1, <2>1, LeastNat
<1> QED
  BY <1>1

(* rbuf_find *)
LEMMA FindType ==
  ASSUME NEW x \in Buffer, NEW o \in Octets, NEW beyond \in Octets
  PROVE  Find(x, o, beyond) \in -1 .. 2 * Size
<1> DEFINE to_end == Size - x.rfx
           cell(i) == IF i \in Cells THEN x.buf[i] ELSE beyond
           at(k) == cell(IF x.wfx > x.rfx \/ k < to_end THEN x.rfx + k ELSE k - to_end)
           last == IF x.wfx > x.rfx THEN x.wfx - x.rfx ELSE to_end + x.wfx
           T == {k \in 0 .. last : at(k) = o}
           hit == IF T = {} THEN -1 ELSE CHOOSE k \in T : \A j \in T : k <= j
<1>1. last \in 0 .. 2 * Size
  BY Fields
<1>2. T \in SUBSET (0 .. last)
  OBVIOUS
<1>3. Find(x, o, beyond) = IF x.used = 0 THEN -1 ELSE hit
  BY DEF Find, FirstHit
<1> HIDE DEF T, last
<1>4. hit \in {-1} \union T
  BY <1>1, <1>2, HitType
<1> HIDE DEF hit
<1> QED
  BY <1>1, <1>2, <1>3, <1>4

(* memcpy out of a buffer gives octets. *)
LEMMA FetchType ==
  ASSUME NEW buf \in [Cells -> Octets], NEW from \in Nat, NEW n \in Nat, from + n <= Size
  PROVE  Fetch(buf, from, n) \in Seq(Octets) /\ Len(Fetch(buf, from, n)) = n
<1>1. \A i \in 1 .. n : from + i - 1 \in Cells
  BY DEF Cells
<1>2. \A i \in 1 .. n : buf[from + i - 1] \in Octets
  BY <1>1
<1>3. Fetch(buf, from, n) \in [1 .. n -> Octets]
  BY <1>2 DEF Fetch
<1> QED
  BY <1>3

(* rbuf_read_until hands out a number of octets. *)
LEMMA UntilLength ==
  ASSUME NEW x \in Buffer, NEW o \in Octets, NEW maxsize \in Nat
  PROVE  Len(UntilOut(x, o, maxsize)) \in Nat
<1> DEFINE to_end == Min2(Size - x.rfx, maxsize)
           rest == Max2(0, Min2(x.used, maxsize) - to_end)
           H == {k \in 0 .. to_end - 1 : x.buf[x.rfx + k] = o}
           L == {k \in 0 .. rest - 1 : x.buf[k] = o}
           hit == IF H = {} THEN -1 ELSE CHOOSE k \in H : \A j \in H : k <= j
           wrapped == IF L = {} THEN -1 ELSE CHOOSE k \in L : \A j \in L : k <= j
           tail == IF wrapped # -1 THEN wrapped + 1 ELSE rest
<1>1. /\ to_end \in Nat /\ x.rfx + to_end <= Size /\ rest \in 0 .. Size
      /\ x.rfx \in Nat /\ x.buf \in [Cells -> Octets]
  BY Fields DEF Min2, Max2
<1>2. /\ UntilOut(x, o, maxsize) =
            IF hit # -1 THEN Fetch(x.buf, x.rfx, hit + 1)
            ELSE Fetch(x.buf, x.rfx, to_end) \o Fetch(x.buf, 0, tail)
  BY DEF UntilOut, FirstHit
<1> HIDE DEF to_end, rest
<1>3. H \in SUBSET (0 .. to_end - 1) /\ L \in SUBSET (0 .. rest - 1)
  OBVIOUS
<1> HIDE DEF H, L
<1>4. hit \in {-1} \union H /\ wrapped \in {-1} \union L
  BY <1>1, <1>3, HitType
<1> HIDE DEF hit, wrapped
<1>5. /\ hit # -1 => hit + 1 \in Nat /\ x.rfx + (hit + 1) <= Size
      /\ tail \in Nat /\ 0 + tail <= Size
  BY <1>1, <1>3, <1>4
<1> HIDE DEF tail
<1>6. CASE hit # -1
  BY <1>1, <1>2, <1>5, <1>6, FetchType
<1>7. CASE hit = -1
  <2>1. Fetch(x.buf, x.rfx, to_end) \in Seq(Octets)
    BY <1>1, FetchType
  <2>2. Fetch(x.buf, 0, tail) \in Seq(Octets)
    BY <1>1, <1>5, FetchType
  <2> QED
    BY <1>2, <1>7, <2>1, <2>2
<1> QED
  BY <1>6, <1>7

(* What rbuf_read hands out: as many octets as it says. *)
LEMMA ReadOutType ==
  ASSUME NEW x \in Buffer, NEW n \in 0 .. x.used
  PROVE  ReadOut(x, n) \in Seq(Octets) /\ Len(ReadOut(x, n)) = n
<1> DEFINE to_end == Size - x.rfx
<1>1. /\ x.rfx \in Nat /\ x.used \in 0 .. Size /\ x.buf \in [Cells -> Octets]
      /\ to_end \in Nat /\ x.rfx + to_end <= Size
  BY Fields
<1>2. ReadSize(x, n) = n
  BY <1>1 DEF ReadSize
<1>3. CASE n > to_end
  <2>1. Fetch(x.buf, x.rfx, to_end) \in Seq(Octets) /\ Len(Fetch(x.buf, x.rfx, to_end)) = to_end
    BY <1>1, FetchType
  <2>2. n - to_end \in Nat /\ 0 + (n - to_end) <= Size
    BY <1>1, <1>3
  <2>3. /\ Fetch(x.buf, 0, n - to_end) \in Seq(Octets)
        /\ Len(Fetch(x.buf, 0, n - to_end)) = n - to_end
    BY <1>1, <2>2, FetchType
  <2>4. ReadOut(x, n) = Fetch(x.buf, x.rfx, to_end) \o Fetch(x.buf, 0, n - to_end)
    BY <1>2, <1>3 DEF ReadOut
  <2>5. \A a, b \in Seq(Octets) : a \o b \in Seq(Octets) /\ Len(a \o b) = Len(a) + Len(b)
    OBVIOUS
  <2>6. to_end + (n - to_end) = n
    BY <1>1
  <2> HIDE DEF to_end
  <2> QED
    BY <2>1, <2>3, <2>4, <2>5, <2>6
<1>4. CASE ~(n > to_end)
  <2>1. n \in Nat /\ x.rfx + n <= Size
    BY <1>1, <1>4
  <2>2. ReadOut(x, n) = Fetch(x.buf, x.rfx, n)
    BY <1>2, <1>4 DEF ReadOut
  <2> QED
    BY <1>1, <2>1, <2>2, FetchType
<1> QED
  BY <1>3, <1>4

Fresh(x) == x.used = 0 /\ x.rfx = 0 /\ x.wfx = 0

(* rbuf_move into a buffer that is as created. *)
LEMMA MoveSound ==
  ASSUME NEW x, Sound(x), NEW y \in Buffer, Fresh(y), NEW len \in Nat
  PROVE  LET k == ToCopy(x, y, len) IN
         /\ k \in Nat
         /\ Sound([y EXCEPT !.buf = MoveBuf(x, y, k), !.wfx = MoveWfx(y, k), !.used = k])
<1> DEFINE k == ToCopy(x, y, len)
<1>1. x \in Buffer /\ k \in 0 .. x.used /\ k \in 0 .. Size
  BY Fields DEF Sound, Fresh, ToCopy, Min2
<1> HIDE DEF k
<1>2. Contiguous(y) = 0
  BY DEF Contiguous, Fresh
<1>3. MoveWfx(y, k) = k
  BY <1>1, <1>2 DEF MoveWfx, Fresh
<1>4. MoveBuf(x, y, k) \in [Cells -> Octets]
  <2> DEFINE octets == ReadOut(x, k)
  <2>1. octets \in Seq(Octets) /\ Len(octets) = k
    BY <1>1, ReadOutType
  <2>2. Min2(Contiguous(y), k) = 0
    BY <1>1, <1>2 DEF Min2
  <2>3. \A i \in 1 .. k : octets[i] \in Octets
    BY <2>1
  <2>4. SubSeq(octets, 1, 0) \in Seq(Octets) /\ SubSeq(octets, 0 + 1, k) \in Seq(Octets)
    BY <1>1, <2>3, SubSeqProperties
  <2> HIDE DEF octets
  <2>5. Place(y.buf, y.wfx, SubSeq(octets, 1, 0)) \in [Cells -> Octets]
    <3>1. y.buf \in [Cells -> Octets] /\ y.wfx \in Nat
      BY Fields
    <3> QED
      BY <2>4, <3>1, PlaceType
  <2>6. Place(Place(y.buf, y.wfx, SubSeq(octets, 1, 0)), 0, SubSeq(octets, 0 + 1, k))
          \in [Cells -> Octets]
    BY <2>4, <2>5, PlaceType
  <2> QED
    BY <2>2, <2>6 DEF MoveBuf, octets
<1>5. Distance(y.rfx, k, k)
  BY <1>1 DEF Distance, Fresh
<1>6. Sound([y EXCEPT !.buf = MoveBuf(x, y, k), !.wfx = MoveWfx(y, k), !.used = k])
  BY <1>1, <1>3, <1>4, <1>5, ChangeWrite
<1> QED
  BY <1>1, <1>6 DEF k

Straight(x) == x.used > 0 /\ (x.rfx < x.wfx \/ x.rfx = 0)

(* A sequence of at most three memcpy calls within bounds copies octets. *)
LEMMA CopiedType ==
  ASSUME NEW x \in Buffer, NEW y \in Buffer, NEW chunks,
         DOMAIN chunks \subseteq 1 .. 3,
         \A n \in DOMAIN chunks : /\ chunks[n].to \in Nat /\ chunks[n].from \in Nat
                                  /\ chunks[n].len \in Nat /\ InBounds(chunks[n]),
         NEW i \in Cells
  PROVE  Copied(x, y, chunks, i) \in Octets
<1> DEFINE hits == {n \in DOMAIN chunks :
                      i \in chunks[n].to .. chunks[n].to + chunks[n].len - 1}
           last == CHOOSE n \in hits : \A m \in hits : n >= m
<1>1. x.buf \in [Cells -> Octets] /\ y.buf \in [Cells -> Octets]
  BY Fields
<1>2. CASE hits = {}
  BY <1>1, <1>2 DEF Copied
<1>3. CASE hits # {}
  <2>1. hits \subseteq {1, 2, 3}
    OBVIOUS
  <2>2. \E n \in hits : \A m \in hits : n >= m
    <3> HIDE DEF hits
    <3>1. CASE 3 \in hits
      BY <2>1, <3>1
    <3>2. CASE 3 \notin hits /\ 2 \in hits
      BY <2>1, <3>2
    <3>3. CASE 3 \notin hits /\ 2 \notin hits
      <4>1. hits = {1}
        BY <1>3, <2>1, <3>3
      <4> QED
        BY <4>1
    <3> QED
      BY <3>1, <3>2, <3>3
  <2>3. last \in hits
    <3> HIDE DEF hits
    <3> QED
      BY <2>2
  <2> DEFINE c == chunks[last]
  <2>4. /\ last \in DOMAIN chunks /\ i \in c.to .. c.to + c.len - 1
    BY <2>3
  <2>5. Copied(x, y, chunks, i) = x.buf[c.from + i - c.to]
    BY <1>3 DEF Copied
  <2> HIDE DEF last, hits
  <2>6. c.to \in Nat /\ c.from \in Nat /\ c.len \in Nat /\ InBounds(c)
    BY <2>4
  <2> HIDE DEF c
  <2>7. c.from + i - c.to \in Cells
    BY <2>4, <2>6 DEF Cells, InBounds
  <2> QED
    BY <1>1, <2>5, <2>7
<1> QED
  BY <1>2, <1>3

(* rbuf_copy of a buffer that does not wrap into one that is as created. *)
LEMMA CopySound ==
  ASSUME NEW x, Sound(x), Straight(x), NEW y \in Buffer, Fresh(y), NEW len \in Nat \ {0}
  PROVE  LET k == ToCopy(x, y, len)
             chunks == Chunks(x, y, k)
         IN /\ ~(CopyWfx(x, y, k) > Size)
            /\ \A n \in DOMAIN chunks : InBounds(chunks[n])
            /\ Sound([y EXCEPT !.buf = [i \in Cells |-> Copied(x, y, chunks, i)],
                               !.wfx = CopyWfx(x, y, k), !.used = k])
<1> DEFINE k == ToCopy(x, y, len)
           chunks == Chunks(x, y, k)
<1>1. x \in Buffer /\ Distance(x.rfx, x.used, x.wfx)
  BY DEF Sound, Agrees
<1>2. /\ x.used \in 1 .. Size /\ x.rfx \in 0 .. Size /\ x.wfx \in 0 .. Size
      /\ x.rfx + x.used = x.wfx \/ x.rfx + x.used = x.wfx + Size
      /\ x.rfx < x.wfx \/ x.rfx = 0
  BY <1>1, Fields DEF Straight, Distance
<1>3. x.rfx + x.used <= Size
  BY <1>2
<1>4. k \in 1 .. x.used /\ k \in 1 .. Size
  BY <1>2 DEF Fresh, ToCopy, Min2
<1> HIDE DEF k
<1>5. Contiguous(y) = 0 /\ y.wfx = 0 /\ y.rfx = 0
  BY DEF Contiguous, Fresh
<1>6. CopyWfx(x, y, k) = k
  BY <1>4, <1>5 DEF CopyWfx
<1>7. \/ chunks = <<Chunk(0, x.rfx, 0), Chunk(0, x.rfx, k)>>
      \/ chunks = <<Chunk(0, 0, 0), Chunk(0, 0, k)>>
      \/ chunks = <<Chunk(0, 0, 0), Chunk(0, 0, Size), Chunk(Size, 0, 0)>>
  <2>1. CASE x.rfx < x.wfx
    <3>1. chunks = <<Chunk(0, x.rfx, 0), Chunk(0, x.rfx + 0, k - 0)>>
      BY <1>4, <1>5, <2>1 DEF Chunks
    <3>2. x.rfx + 0 = x.rfx /\ k - 0 = k
      BY <1>2, <1>4
    <3> QED
      BY <3>1, <3>2
  <2>2. CASE ~(x.rfx < x.wfx)
    <3>1. x.rfx = 0
      BY <1>2, <2>2
    <3>2. chunks = IF Size > k THEN <<Chunk(0, 0, 0), Chunk(0, 0, k)>>
                   ELSE <<Chunk(0, 0, 0), Chunk(0, 0, Size), Chunk(Size, 0, k - Size)>>
      BY <1>4, <1>5, <2>2, <3>1 DEF Chunks
    <3>3. CASE Size > k
      BY <3>2, <3>3
    <3>4. CASE ~(Size > k)
      <4>1. k - Size = 0
        BY <1>4, <3>4
      <4>2. chunks = <<Chunk(0, 0, 0), Chunk(0, 0, Size), Chunk(Size, 0, k - Size)>>
        BY <3>2, <3>4
      <4> QED
        BY <4>1, <4>2
    <3> QED
      BY <3>3, <3>4
  <2> QED
    BY <2>1, <2>2
<1> HIDE DEF chunks
<1>8. /\ DOMAIN chunks \subseteq 1 .. 3
      /\ \A n \in DOMAIN chunks : /\ chunks[n].to \in Nat /\ chunks[n].from \in Nat
                                   /\ chunks[n].len \in Nat /\ InBounds(chunks[n])
  BY <1>2, <1>3, <1>4, <1>7 DEF Chunk, InBounds
<1>9. [i \in Cells |-> Copied(x, y, chunks, i)] \in [Cells -> Octets]
  BY <1>1, <1>8, CopiedType
<1>10. Distance(y.rfx, k, k)
  BY <1>4, <1>5 DEF Distance
<1>11. Sound([y EXCEPT !.buf = [i \in Cells |-> Copied(x, y, chunks, i)],
                       !.wfx = CopyWfx(x, y, k), !.used = k])
  <2> DEFINE buf == [i \in Cells |-> Copied(x, y, chunks, i)]
  <2>1. k \in 0 .. Size /\ buf \in [Cells -> Octets]
    BY <1>4, <1>9
  <2> HIDE DEF buf
  <2>2. Sound([y EXCEPT !.buf = buf, !.wfx = k, !.used = k])
    BY <1>10, <2>1, ChangeWrite
  <2> QED
    BY <1>6, <2>2 DEF buf
<1> QED
  BY <1>4, <1>6, <1>8, <1>11 DEF k, chunks

-----------------------------------------------------------------------------
Inv == TypeOK /\ OffsetsAgree /\ ~wild

(* The invariant says that every buffer is sound. *)
LEMMA InvSound ==
  Inv <=> /\ rb \in [Buffers -> Buffer] /\ \A b \in Buffers : Sound(rb[b])
          /\ result \in -1 .. 2 * Size /\ wild = FALSE
<1>1. \A b \in Buffers :
        rb[b].rfx + rb[b].used \in {rb[b].wfx, rb[b].wfx + Size} <=> Agrees(rb[b])
  BY DEF Agrees, Distance
<1>2. OffsetsAgree <=> \A b \in Buffers : Agrees(rb[b])
  BY <1>1 DEF OffsetsAgree
<1>3. rb \in [Buffers -> Buffer] => \A b \in Buffers : Sound(rb[b]) <=> Agrees(rb[b])
  BY DEF Sound
<1> QED
  BY <1>2, <1>3 DEF Inv, TypeOK

(* A call that leaves every buffer sound keeps the invariant.              *)
LEMMA InvSoundNext ==
  ASSUME rb' \in [Buffers -> Buffer], \A b \in Buffers : Sound(rb'[b]),
         result' \in -1 .. 2 * Size, wild' = FALSE
  PROVE  Inv'
<1>1. \A b \in Buffers :
        rb'[b].rfx + rb'[b].used \in {rb'[b].wfx, rb'[b].wfx + Size}
  BY DEF Sound, Agrees, Distance
<1> QED
  BY <1>1 DEF Inv, TypeOK, OffsetsAgree

(* A step that changes one buffer into a sound one. *)
LEMMA OneChanges ==
  ASSUME Inv, NEW b \in Buffers, NEW y, Sound(y), rb' = [rb EXCEPT ![b] = y],
         result' \in -1 .. 2 * Size, UNCHANGED wild
  PROVE  Inv'
<1>1. /\ rb \in [Buffers -> Buffer] /\ \A c \in Buffers : Sound(rb[c])
      /\ wild = FALSE
  BY InvSound
<1>2. rb' \in [Buffers -> Buffer] /\ \A c \in Buffers : Sound(rb'[c])
  BY <1>1 DEF Sound
<1> QED
  BY <1>1, <1>2, InvSoundNext

(* Freshly created buffers are sound.                                      *)
LEMMA InitInv == Init => Inv
<1> SUFFICES ASSUME Init PROVE Inv
  OBVIOUS
<1>1. rb \in [Buffers -> Buffer]
  BY DEF Init
<1>2. ASSUME NEW b \in Buffers PROVE Sound(rb[b])
  <2>1. rb[b] \in Buffer /\ rb[b].used = 0 /\ rb[b].rfx = 0 /\ rb[b].wfx = 0
    BY DEF Init
  <2> QED
    BY <2>1 DEF Sound, Agrees, Distance
<1>3. result \in -1 .. 2 * Size /\ wild = FALSE
  BY DEF Init
<1> QED
  BY <1>1, <1>2, <1>3, InvSound

(* Every call of a careful caller keeps every buffer sound. *)
LEMMA NextInv ==
  ASSUME Careful, Inv, [Next]_vars
  PROVE  Inv'
<1>1. /\ rb \in [Buffers -> Buffer] /\ \A b \in Buffers : Sound(rb[b])
      /\ result \in -1 .. 2 * Size /\ wild = FALSE
  BY InvSound
<1>2. Lengths \subseteq Nat /\ Inputs \subseteq Seq(Octets) /\ -1 \in -1 .. 2 * Size
  BY DEF Lengths, Inputs
<1>3. ASSUME NEW b \in Buffers, NEW n \in Lengths, DoSkip(b, n)
      PROVE  Inv'
  <2>1. Sound(Skip(rb[b], n))
    BY <1>1, <1>2, SkipSound
  <2> QED
    BY <1>2, <1>3, <2>1, OneChanges DEF DoSkip, Quiet
<1>4. ASSUME NEW b \in Buffers, NEW n \in Lengths, DoRead(b, n)
      PROVE  Inv'
  <2>1. Sound(Read(rb[b], n))
    BY <1>1, <1>2, ReadSound
  <2> QED
    BY <1>2, <1>4, <2>1, OneChanges DEF DoRead
<1>5. ASSUME NEW b \in Buffers, NEW in \in Inputs, DoWrite(b, in)
      PROVE  Inv'
  <2>1. Sound(Write(rb[b], in))
    BY <1>1, <1>2, WriteSound
  <2> QED
    BY <1>2, <1>5, <2>1, OneChanges DEF DoWrite, Quiet
<1>6. ASSUME NEW b \in Buffers, DoClear(b)
      PROVE  Inv'
  <2>1. Sound(Clear(rb[b]))
    BY <1>1, ClearSound
  <2> QED
    BY <1>2, <1>6, <2>1, OneChanges DEF DoClear, Quiet
<1>7. ASSUME NEW b \in Buffers, NEW m \in Modes, SetMode(b, m)
      PROVE  Inv'
  <2>1. Sound([rb[b] EXCEPT !.mode = m])
    BY <1>1, ModeSound
  <2>2. rb' = [rb EXCEPT ![b] = [rb[b] EXCEPT !.mode = m]]
    BY <1>7 DEF SetMode
  <2> QED
    BY <1>2, <1>7, <2>1, <2>2, OneChanges DEF SetMode, Quiet
<1>8. ASSUME NEW b \in Buffers, NEW o \in Octets, DoFind(b, o)
      PROVE  Inv'
  <2>1. PICK beyond \in Octets : result' = Find(rb[b], o, beyond)
    BY <1>8 DEF DoFind
  <2>2. result' \in -1 .. 2 * Size
    BY <1>1, <2>1, FindType
  <2>3. rb' = rb /\ wild' = wild
    BY <1>8 DEF DoFind
  <2> QED
    BY <1>1, <2>2, <2>3, InvSoundNext
<1>9. ASSUME NEW b \in Buffers, NEW o \in Octets, NEW n \in Lengths, ReadUntil(b, o, n)
      PROVE  Inv'
  <2> DEFINE count == Len(UntilOut(rb[b], o, n))
  <2>1. count \in Nat
    BY <1>1, <1>2, UntilLength
  <2>2. rb' = [rb EXCEPT ![b] = Skip(rb[b], count)] /\ result' = -1 /\ wild' = wild
    BY <1>9 DEF ReadUntil
  <2> HIDE DEF count
  <2>3. Sound(Skip(rb[b], count))
    BY <1>1, <2>1, SkipSound
  <2> QED
    BY <1>2, <2>2, <2>3, OneChanges
<1>10. ASSUME NEW s \in Buffers, NEW d \in Buffers, NEW n \in Lengths, Move(s, d, n)
       PROVE  Inv'
  <2> DEFINE k == ToCopy(rb[s], rb[d], n)
             y == [rb[d] EXCEPT !.buf = MoveBuf(rb[s], rb[d], k),
                                !.wfx = MoveWfx(rb[d], k), !.used = k]
  <2>1. s # d /\ Fresh(rb[d]) /\ result' = -1 /\ wild' = wild
    BY <1>10 DEF Move, CarefulTransfer, Fresh, Quiet
  <2>2. k \in Nat /\ Sound(y)
    BY <1>1, <1>2, <2>1, MoveSound
  <2>3. Sound(Read(rb[s], k))
    BY <1>1, <2>2, ReadSound
  <2>4. CASE n = 0
    <3>1. rb' = rb
      BY <1>10, <2>4 DEF Move
    <3> QED
      BY <1>1, <1>2, <2>1, <3>1, InvSoundNext
  <2>5. CASE n # 0
    <3>1. rb' = [rb EXCEPT ![s] = Read(rb[s], k), ![d] = y]
      BY <1>10, <2>1, <2>5 DEF Move
    <3> HIDE DEF k, y
    <3>2. rb' \in [Buffers -> Buffer] /\ \A c \in Buffers : Sound(rb'[c])
      BY <1>1, <2>2, <2>3, <3>1 DEF Sound
    <3> QED
      BY <1>1, <1>2, <2>1, <3>2, InvSoundNext
  <2> QED
    BY <2>4, <2>5
<1>11. ASSUME NEW s \in Buffers, NEW d \in Buffers, NEW n \in Lengths, Copy(s, d, n)
       PROVE  Inv'
  <2> DEFINE k == ToCopy(rb[s], rb[d], n)
             chunks == Chunks(rb[s], rb[d], k)
             wfx == CopyWfx(rb[s], rb[d], k)
             y == [rb[d] EXCEPT !.buf = [i \in Cells |-> Copied(rb[s], rb[d], chunks, i)],
                                !.wfx = wfx, !.used = k]
  <2>1. s # d /\ Fresh(rb[d]) /\ Straight(rb[s]) /\ result' = -1
    BY <1>11 DEF Copy, CarefulTransfer, Fresh, Straight
  <2>2. CASE n = 0
    <3>1. rb' = rb /\ wild' = wild
      BY <1>11, <2>2 DEF Copy
    <3> QED
      BY <1>1, <1>2, <2>1, <3>1, InvSoundNext
  <2>3. CASE n # 0
    <3>1. /\ ~(wfx > Size) /\ \A i \in DOMAIN chunks : InBounds(chunks[i])
          /\ Sound(y)
      BY <1>1, <1>2, <2>1, <2>3, CopySound
    <3>2. rb' = [rb EXCEPT ![d] = y] /\ wild' = wild
      BY <1>11, <2>3, <3>1 DEF Copy
    <3> HIDE DEF y
    <3> QED
      BY <1>2, <2>1, <3>1, <3>2, OneChanges
  <2> QED
    BY <2>2, <2>3
<1>12. CASE UNCHANGED vars
  BY <1>1, <1>12, InvSoundNext DEF vars
<1> QED
  BY <1>3, <1>4, <1>5, <1>6, <1>7, <1>8, <1>9, <1>10, <1>11, <1>12 DEF Next

(* Whatever sequence of careful calls is made, of whatever sizes and in    *)
(* whatever mode, on buffers of whatever size, the offsets of rbuf.c stay  *)
(* within the buffer, used stays the distance between them, and no memcpy  *)
(* leaves a buffer.                                                        *)
THEOREM OffsetsStayInAgreement ==
  ASSUME Careful
  PROVE  Spec => [](TypeOK /\ OffsetsAgree /\ StaysInBounds)
<1>1. Init => Inv
  BY InitInv
<1>2. Inv /\ [Next]_vars => Inv'
  BY NextInv
<1>3. Inv => TypeOK /\ OffsetsAgree /\ StaysInBounds
  BY DEF Inv, StaysInBounds
<1> QED
  BY <1>1, <1>2, <1>3, PTL DEF Spec
=============================================================================
