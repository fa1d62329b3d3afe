----------------------------- MODULE FifoQueue ------------------------------
(***************************************************************************)
(* What src/rqueue.h promises of a ring buffer of a given size: values     *)
(* leave in the order they entered, each at most once; in blocking mode    *)
(* nothing is stored beyond size values and nothing is lost; in overwrite  *)
(* mode the oldest value makes room for a new one when the buffer is full. *)
(* The n-th value ever put is called n.                                    *)
(***************************************************************************)
EXTENDS Naturals, Sequences

CONSTANTS Capacity, QueueModes

VARIABLES queue, taken, puts, qmode

qvars == <<queue, taken, puts, qmode>>

QInit == queue = <<>> /\ taken = <<>> /\ puts = 0 /\ qmode \in QueueModes

Put ==
  /\ Len(queue) < Capacity
  /\ queue' = Append(queue, puts + 1)
  /\ puts' = puts + 1
  /\ UNCHANGED <<taken, qmode>>

Take ==
  /\ queue # <<>>
  /\ taken' = Append(taken, Head(queue))
  /\ queue' = Tail(queue)
  /\ UNCHANGED <<puts, qmode>>

(* The oldest value of a full queue is given up for a new one.             *)
DropOldest ==
  /\ qmode = "overwrite"
  /\ Len(queue) = Capacity
  /\ queue' = Tail(queue)
  /\ UNCHANGED <<taken, puts, qmode>>

ChangeMode ==
  /\ qmode' \in QueueModes
  /\ UNCHANGED <<queue, taken, puts>>

QNext == Put \/ Take \/ DropOldest \/ ChangeMode

QSpec == QInit /\ [][QNext]_qvars
=============================================================================
