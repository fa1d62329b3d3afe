---------------------------- MODULE Comparators ------------------------------
(***************************************************************************)
(* comparators.h: comparators of numeric keys for the ordered containers,  *)
(* which compute the difference of two keys and return it as an int.       *)
(*                                                                         *)
(* Widths are scaled down and sizes are counted in bits.  Floating-point   *)
(* keys are left out.                                                      *)
(***************************************************************************)
EXTENDS Integers

CONSTANTS
  IntBits,   \* the width of int
  TypeBits   \* the widths of the key types: below, equal to and above IntBits

VARIABLE call   \* a call of a comparator

\* What a conversion to a signed or an unsigned type of a width keeps of x.
Unsigned(x, bits) == x % 2^bits
Signed(x, bits) == ((x + 2^(bits - 1)) % 2^bits) - 2^(bits - 1)
Convert(x, type) == IF type.signed THEN Signed(x, type.bits) ELSE Unsigned(x, type.bits)

\* Operands narrower than int are promoted to it.
Promoted(type) == IF type.bits < IntBits THEN [bits |-> IntBits, signed |-> TRUE] ELSE type

LIBHL_CMP_KEYS_TYPENarrow(type, k1, k1s, k2, k2s) ==
  IF k1s < type.bits \/ k2s < type.bits \/ k1s # k2s THEN Signed(k1s - k2s, IntBits)
  ELSE Convert(k1 - k2, type)
LIBHL_CMP_KEYS_TYPE(type, k1, k1s, k2, k2s) ==
  IF k1s < type.bits \/ k2s < type.bits \/ k1s # k2s THEN Signed(k1s - k2s, IntBits)
  ELSE Signed(Convert(k1 - k2, Promoted(type)), IntBits)

Types == [bits : TypeBits, signed : BOOLEAN]
Numbers(type) == {Convert(x, type) : x \in 0 .. 2^type.bits - 1}

Init == \E type \in Types : \E k1, k2 \in Numbers(type), k1s, k2s \in TypeBits :
          call = [type |-> type, k1 |-> k1, k2 |-> k2, k1s |-> k1s, k2s |-> k2s]
Next == UNCHANGED call
Spec == Init /\ [][Next]_call

-----------------------------------------------------------------------------

Sign(x) == IF x < 0 THEN -1 ELSE IF x > 0 THEN 1 ELSE 0

\* Two keys of the right size less than half the range of int apart compare as
\* the numbers they are, so that any set of keys that fits in such a span is
\* totally ordered; keys of different sizes compare by size.
CmpOrders ==
  LET distance == call.k1 - call.k2
      result == LIBHL_CMP_KEYS_TYPE(call.type, call.k1, call.k1s, call.k2, call.k2s)
  IN  IF call.k1s # call.k2s THEN Sign(result) = Sign(call.k1s - call.k2s)
      ELSE call.k1s >= call.type.bits /\ distance \in -2^(IntBits - 1) + 1 .. 2^(IntBits - 1) - 1
             => Sign(result) = Sign(distance)
=============================================================================
