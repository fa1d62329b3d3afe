------------------------------ MODULE ByteFifo ------------------------------
(***************************************************************************)
(* What src/rbuf.h promises of ring buffers of octets: what is read is     *)
(* what was written, in order; a write stores what fits and, in overwrite  *)
(* mode, keeps the newest octets.                                          *)
(***************************************************************************)
EXTENDS Naturals, Sequences

CONSTANTS Buffers, Octets, Capacity, MaxLen

VARIABLES queue, qmode, delivered

bvars == <<queue, qmode, delivered>>

Least(m, n) == IF m < n THEN m ELSE n
Most(m, n) == IF m < n THEN n ELSE m
Oldest(s, n) == SubSeq(s, 1, Least(n, Len(s)))
Newest(s, n) == SubSeq(s, 1 + Most(Len(s), n) - n, Len(s))
Without(s, n) == SubSeq(s, 1 + Least(n, Len(s)), Len(s))

Inputs == UNION {[1 .. n -> Octets] : n \in 0 .. MaxLen}
Lengths == 0 .. MaxLen

BInit ==
  /\ queue = [b \in Buffers |-> <<>>]
  /\ qmode = [b \in Buffers |-> "blocking"]
  /\ delivered = <<>>

BWrite(b, in) ==
  /\ queue' = [queue EXCEPT ![b] = IF qmode[b] = "overwrite"
                                   THEN Newest(@ \o in, Capacity)
                                   ELSE Oldest(@ \o in, Capacity)]
  /\ delivered' = <<>>
  /\ UNCHANGED qmode

(* n octets leave buffer b: they are handed out, or skipped.               *)
BRead(b, n) ==
  /\ delivered' = Oldest(queue[b], n)
  /\ queue' = [queue EXCEPT ![b] = Without(@, n)]
  /\ UNCHANGED qmode

BSkip(b, n) ==
  /\ delivered' = <<>>
  /\ queue' = [queue EXCEPT ![b] = Without(@, n)]
  /\ UNCHANGED qmode

(* Octets are handed out up to the first o, o included.                    *)
BReadUntil(b, o, n) ==
  LET part == Oldest(queue[b], n)
      hits == {i \in 1 .. Len(part) : part[i] = o}
      stop == IF hits = {} THEN Len(part) ELSE CHOOSE i \in hits : \A j \in hits : i <= j
  IN BRead(b, stop)

BSetMode(b, m) ==
  /\ qmode' = [qmode EXCEPT ![b] = m]
  /\ delivered' = <<>>
  /\ UNCHANGED queue

(* The oldest octets of s go to d, and leave s if they are moved.          *)
BTransfer(s, d, n, move) ==
  LET part == Oldest(queue[s], Least(n, Capacity - Len(queue[d]))) IN
  /\ queue' = [queue EXCEPT ![d] = @ \o part,
                            ![s] = IF move THEN Without(@, Len(part)) ELSE @]
  /\ delivered' = <<>>
  /\ UNCHANGED qmode

BNext ==
  \/ \E b \in Buffers, in \in Inputs : BWrite(b, in)
  \/ \E b \in Buffers, n \in Lengths : BRead(b, n) \/ BSkip(b, n)
  \/ \E b \in Buffers, o \in Octets, n \in Lengths : BReadUntil(b, o, n)
  \/ \E b \in Buffers, m \in {"blocking", "overwrite"} : BSetMode(b, m)
  \/ \E s, d \in Buffers, n \in Lengths, move \in BOOLEAN : s # d /\ BTransfer(s, d, n, move)

BSpec == BInit /\ [][BNext]_bvars
=============================================================================
