------------------------------- MODULE RQueue -------------------------------
(***************************************************************************)
(* The ring buffer of src/rqueue.c: a ring of Size + 1 pages, plus one     *)
(* reader page kept outside the ring.  A reader takes the head page out of *)
(* the ring by splicing the reader page in its place.  The next pointer    *)
(* that leads to the head page carries the HEAD flag.  Readers serialise   *)
(* on read_sync, writers on write_sync; a writer in overwrite mode takes   *)
(* both.                                                                   *)
(*                                                                         *)
(* One step is one access to memory that another thread may be using.      *)
(* Accesses to data that only the holder of a lock may touch are merged    *)
(* with the neighbouring step: head, reader, next and prev are written     *)
(* under read_sync only, tail, commit and num_writers under write_sync     *)
(* only.  Memory is sequentially consistent.  The statistics counters and  *)
(* the backoff delays are left out.                                        *)
(***************************************************************************)
EXTENDS Integers, Sequences, FiniteSets

CONSTANTS
  Readers, Writers,     \* threads that call rqueue_read / rqueue_write
  Size,                 \* rqueue_create()'s size, at least RQUEUE_MIN_SIZE
  Modes,                \* the modes rqueue_create and rqueue_set_mode are given
  ReaderMaxRetries,     \* RQUEUE_READER_MAX_RETRIES
  WriterCasMaxRetries,  \* RQUEUE_WRITER_CAS_MAX_RETRIES
  BlockingMaxRetries,   \* RQUEUE_BLOCKING_MAX_RETRIES
  MaxValues,            \* bound on the number of values ever written
  MaxOutstanding,       \* bound on the unread values the clients allow
  Serial                \* TRUE: the clients never let reads and writes overlap

ASSUME RQueueAssumption ==
  /\ Size \in Nat /\ Size >= 2
  /\ Modes \subseteq {"blocking", "overwrite"} /\ Modes # {}
  /\ ReaderMaxRetries \in Nat \ {0}
  /\ WriterCasMaxRetries \in Nat
  /\ BlockingMaxRetries \in Nat
  /\ MaxValues \in Nat
  /\ MaxOutstanding \in Nat
  /\ Serial \in BOOLEAN

NULL == 0
Page == 0 .. Size + 1

(* A next pointer: the page it leads to, and whether the HEAD flag is set  *)
(* in it (RQUEUE_FLAG_ON and RQUEUE_FLAG_OFF).                             *)
Link == [to : Page, head : BOOLEAN]
FlagOn(p) == [to |-> p, head |-> TRUE]
FlagOff(p) == [to |-> p, head |-> FALSE]

ReaderPC == {"idle", "lock", "check", "validate", "link", "swap", "head",
             "take", "clear", "snap_tail", "recheck_tail", "set_empty"}
WriterPC == {"idle", "lock", "relock", "load", "read_head", "check_flag",
             "check_empty", "full", "overwrite", "backoff", "recheck_flag",
             "cas_tail", "store", "not_empty", "commit"}

ReaderLocals ==
  [i : Nat, head : Page, commit : Page, next : Link, old_next : Link, v : Nat]
WriterLocals ==
  [retries : Nat, temp : Page, commit : Page, next : Page, head : Page]
NewRead ==
  [i |-> 0, head |-> 0, commit |-> 0, next |-> FlagOff(0), old_next |-> FlagOff(0),
   v |-> NULL]
NewWrite == [retries |-> 0, temp |-> 0, commit |-> 0, next |-> 0, head |-> 0]

VARIABLES
  head, tail, commit, reader,         \* page pointers of struct _rqueue_s
  next, prev, value,                  \* the fields of rqueue_page_t
  read_sync, write_sync, num_writers,
  is_empty, mode, writes, reads,
  rpc, rd,                            \* rqueue_read: control point, locals
  wpc, wr,                            \* rqueue_write: control point, locals
  stored,                             \* history: values put in a page so far
  received,                           \* history: values rqueue_read returned
  dropped,                            \* history: what overwrites moved head past, NULL included
  freed,                              \* history: values given to free_value_cb
  destroyed,                          \* rqueue_destroy has run
  wild                                \* head was given a flagged pointer

pages == <<next, prev, value>>
ring == <<head, tail, commit, reader, pages>>
status == <<is_empty, mode, writes, reads>>
sync == <<read_sync, write_sync, num_writers>>
readLocals == <<rpc, rd>>
writeLocals == <<wpc, wr>>
history == <<stored, received, dropped, freed>>
life == <<destroyed, wild>>
vars == <<ring, status, sync, readLocals, writeLocals, history, life>>

Reading == {r \in Readers : rpc[r] # "idle"}
Writing == {w \in Writers : wpc[w] # "idle"}
Idle == Reading = {} /\ Writing = {}

-----------------------------------------------------------------------------
(* rqueue_create *)
Init ==
  /\ head = 0 /\ tail = 0 /\ commit = 0 /\ reader = Size + 1
  /\ next = [p \in Page |-> IF p < Size THEN FlagOff(p + 1)
                            ELSE IF p = Size THEN FlagOn(0) ELSE FlagOff(0)]
  /\ prev = [p \in Page |-> IF p \in {0, Size + 1} THEN Size ELSE p - 1]
  /\ value = [p \in Page |-> NULL]
  /\ read_sync = 0 /\ write_sync = 0 /\ num_writers = 0
  /\ is_empty = 1 /\ mode \in Modes /\ writes = 0 /\ reads = 0
  /\ rpc = [r \in Readers |-> "idle"] /\ rd = [r \in Readers |-> NewRead]
  /\ wpc = [w \in Writers |-> "idle"] /\ wr = [w \in Writers |-> NewWrite]
  /\ stored = 0 /\ received = <<>> /\ dropped = {} /\ freed = {}
  /\ destroyed = FALSE /\ wild = FALSE

-----------------------------------------------------------------------------
(* rqueue_read *)

ReadGoto(r, pc) == rpc' = [rpc EXCEPT ![r] = pc]

(* Slip: the loop has no bound.                                            *)
NextTurnForever(r) ==
  ReadGoto(r, "lock") /\ rd' = [rd EXCEPT ![r] = NewRead]

(* A turn of the for loop ends without a value: take another one, or       *)
(* return NULL after RQUEUE_READER_MAX_RETRIES of them.                    *)
NextTurn(r) ==
  IF rd[r].i + 1 < ReaderMaxRetries
  THEN ReadGoto(r, "lock") /\ rd' = [rd EXCEPT ![r] = [NewRead EXCEPT !.i = rd[r].i + 1]]
  ELSE ReadGoto(r, "idle") /\ rd' = [rd EXCEPT ![r] = NewRead]

EndTurn(r) == read_sync' = 0 /\ NextTurn(r)

ReadReturn(r) ==
  /\ read_sync' = 0
  /\ ReadGoto(r, "idle")
  /\ rd' = [rd EXCEPT ![r] = NewRead]

CallRead(r) ==
  /\ rpc[r] = "idle"
  /\ ~destroyed
  /\ Serial => Writing = {}
  /\ ReadGoto(r, "lock")
  /\ UNCHANGED <<ring, status, sync, rd, writeLocals, history, life>>

Snapshot(i) ==
  [i |-> i, head |-> head, commit |-> commit, next |-> next[head],
   old_next |-> next[reader], v |-> NULL]

(* ATOMIC_CAS(rb->read_sync, 0, 1) and the snapshot of the topology.       *)
LockRead(r) ==
  /\ rpc[r] = "lock"
  /\ read_sync = 0
  /\ read_sync' = 1
  /\ rd' = [rd EXCEPT ![r] = Snapshot(rd[r].i)]
  /\ ReadGoto(r, "check")
  /\ UNCHANGED <<ring, status, write_sync, num_writers, writeLocals, history, life>>

LockReadBusy(r) ==
  /\ rpc[r] = "lock"
  /\ read_sync = 1
  /\ NextTurn(r)
  /\ UNCHANGED <<ring, status, sync, writeLocals, history, life>>

NothingToRead(r) == reader = rd[r].commit \/ is_empty = 1

CheckEmpty(r) ==
  /\ rpc[r] = "check"
  /\ IF NothingToRead(r)
     THEN EndTurn(r)
     ELSE ReadGoto(r, "validate") /\ UNCHANGED <<rd, read_sync>>
  /\ UNCHANGED <<ring, status, write_sync, num_writers, writeLocals, history, life>>

(* rqueue_validate_reader_snapshot *)
ReaderSnapshotValid(r) ==
  /\ head = rd[r].head
  /\ commit = rd[r].commit
  /\ next[head] = rd[r].next

(* VALIDATION POINT 1 *)
Validate(r) ==
  /\ rpc[r] = "validate"
  /\ IF ReaderSnapshotValid(r)
     THEN ReadGoto(r, "link") /\ UNCHANGED <<rd, read_sync>>
     ELSE EndTurn(r)
  /\ UNCHANGED <<ring, status, write_sync, num_writers, writeLocals, history, life>>

(* Slip: the reader page's next does not carry the HEAD flag.              *)
LinkReaderUnflagged(r) ==
  /\ rpc[r] = "link"
  /\ prev' = [prev EXCEPT ![reader] = prev[rd[r].head]]
  /\ next' = [next EXCEPT ![reader] = rd[r].next]
  /\ ReadGoto(r, "swap")
  /\ UNCHANGED <<head, tail, commit, reader, value, status, sync, rd, writeLocals,
                 history, life>>

(* The CAS that connects the reader page to the page after the head, the   *)
(* store of its prev, and VALIDATION POINT 2, which restores its next.     *)
LinkReader(r) ==
  /\ rpc[r] = "link"
  /\ IF next[reader] # rd[r].old_next
     THEN EndTurn(r) /\ UNCHANGED <<next, prev>>
     ELSE /\ prev' = [prev EXCEPT ![reader] = prev[rd[r].head]]
          /\ IF head # rd[r].head
             THEN EndTurn(r) /\ UNCHANGED next
             ELSE /\ next' = [next EXCEPT ![reader] = FlagOn(rd[r].next.to)]
                  /\ ReadGoto(r, "swap")
                  /\ UNCHANGED <<rd, read_sync>>
  /\ UNCHANGED <<head, tail, commit, reader, value, status, write_sync,
                 num_writers, writeLocals, history, life>>

(* ATOMIC_CAS(head->prev->next, head | HEAD, reader); if it fails, the     *)
(* reader page's next is put back.                                         *)
SwapHead(r) ==
  LET p == prev[rd[r].head] IN
  /\ rpc[r] = "swap"
  /\ IF next[p] = FlagOn(rd[r].head)
     THEN /\ next' = [next EXCEPT ![p] = FlagOff(reader)]
          /\ ReadGoto(r, "head")
          /\ UNCHANGED <<rd, read_sync>>
     ELSE /\ next' = [next EXCEPT ![reader] = rd[r].old_next]
          /\ EndTurn(r)
  /\ UNCHANGED <<head, tail, commit, reader, prev, value, status, write_sync,
                 num_writers, writeLocals, history, life>>

(* head takes over the pointer as it was read, a HEAD flag in it included. *)
AdvanceHead(r) ==
  /\ rpc[r] = "head"
  /\ head' = IF head = rd[r].head THEN rd[r].next.to ELSE head
  /\ wild' = (wild \/ (head = rd[r].head /\ rd[r].next.head))
  /\ ReadGoto(r, "take")
  /\ UNCHANGED <<tail, commit, reader, pages, status, sync, rd, writeLocals, history,
                 destroyed>>

(* Slip: the page that was taken does not become the reader page.          *)
TakeNoPage(r) ==
  /\ rpc[r] = "take"
  /\ prev' = [prev EXCEPT ![rd[r].next.to] = reader]
  /\ rd' = [rd EXCEPT ![r].v = value[rd[r].head]]
  /\ ReadGoto(r, "clear")
  /\ UNCHANGED <<head, tail, commit, reader, next, value, status, sync, writeLocals,
                 history, life>>

(* Slip: the value is read from the page after the one that was taken.     *)
TakeNextValue(r) ==
  /\ rpc[r] = "take"
  /\ prev' = [prev EXCEPT ![rd[r].next.to] = reader]
  /\ reader' = rd[r].head
  /\ IF value[rd[r].next.to] = NULL
     THEN EndTurn(r)
     ELSE /\ rd' = [rd EXCEPT ![r].v = value[rd[r].next.to]]
          /\ ReadGoto(r, "clear")
          /\ UNCHANGED read_sync
  /\ UNCHANGED <<head, tail, commit, next, value, status, write_sync,
                 num_writers, writeLocals, history, life>>

(* The old head page becomes the reader page and its value is read.        *)
TakePage(r) ==
  /\ rpc[r] = "take"
  /\ prev' = [prev EXCEPT ![rd[r].next.to] = reader]
  /\ reader' = rd[r].head
  /\ IF value[rd[r].head] = NULL
     THEN EndTurn(r)
     ELSE /\ rd' = [rd EXCEPT ![r].v = value[rd[r].head]]
          /\ ReadGoto(r, "clear")
          /\ UNCHANGED read_sync
  /\ UNCHANGED <<head, tail, commit, next, value, status, write_sync,
                 num_writers, writeLocals, history, life>>

(* Slip: the value stays in the page that was read.                        *)
KeepValue(r) ==
  /\ rpc[r] = "clear"
  /\ reads' = reads + 1
  /\ received' = Append(received, rd[r].v)
  /\ ReadGoto(r, "snap_tail")
  /\ UNCHANGED <<ring, is_empty, mode, writes, sync, rd, writeLocals, stored, dropped,
                 freed, life>>

ClearValue(r) ==
  /\ rpc[r] = "clear"
  /\ value' = [value EXCEPT ![reader] = IF @ = rd[r].v THEN NULL ELSE @]
  /\ reads' = reads + 1
  /\ received' = Append(received, rd[r].v)
  /\ ReadGoto(r, "snap_tail")
  /\ UNCHANGED <<head, tail, commit, reader, next, prev, is_empty, mode,
                 writes, sync, rd, writeLocals, stored, dropped, freed, life>>

(* Was that the last value?  tail is compared with head twice before       *)
(* is_empty is set.                                                        *)
SnapTail(r) ==
  /\ rpc[r] = "snap_tail"
  /\ IF head = tail
     THEN ReadGoto(r, "recheck_tail") /\ UNCHANGED <<rd, read_sync>>
     ELSE ReadReturn(r)
  /\ UNCHANGED <<ring, status, write_sync, num_writers, writeLocals, history, life>>

RecheckTail(r) ==
  /\ rpc[r] = "recheck_tail"
  /\ IF head = tail
     THEN ReadGoto(r, "set_empty") /\ UNCHANGED <<rd, read_sync>>
     ELSE ReadReturn(r)
  /\ UNCHANGED <<ring, status, write_sync, num_writers, writeLocals, history, life>>

SetEmpty(r) ==
  /\ rpc[r] = "set_empty"
  /\ is_empty' = 1
  /\ ReadReturn(r)
  /\ UNCHANGED <<ring, mode, writes, reads, write_sync, num_writers, writeLocals,
                 history, life>>

ReadStep(r) ==
  \/ LockRead(r) \/ LockReadBusy(r) \/ CheckEmpty(r) \/ Validate(r)
  \/ LinkReader(r) \/ SwapHead(r) \/ AdvanceHead(r) \/ TakePage(r)
  \/ ClearValue(r) \/ SnapTail(r) \/ RecheckTail(r) \/ SetEmpty(r)

-----------------------------------------------------------------------------
(* rqueue_write *)

WriteGoto(w, pc) == wpc' = [wpc EXCEPT ![w] = pc]

TakeWriteSync ==
  /\ write_sync = 0
  /\ write_sync' = 1
  /\ num_writers' = num_writers + 1

DropWriteSync ==
  /\ write_sync' = 0
  /\ num_writers' = num_writers - 1

(* The ends of a call: 0 from CommitWrite, -1 from LoopCondition, -2 from  *)
(* Backoff.                                                                *)
WriteReturn(w) ==
  /\ DropWriteSync
  /\ WriteGoto(w, "idle")
  /\ wr' = [wr EXCEPT ![w] = NewWrite]

(* "continue", or the end of the loop body, with tail not moved: the       *)
(* do-while condition counts a retry, or the write gives up.               *)
LoopCondition(w) ==
  IF wr[w].retries < WriterCasMaxRetries
  THEN /\ WriteGoto(w, "load")
       /\ wr' = [wr EXCEPT ![w] = [NewWrite EXCEPT !.retries = wr[w].retries + 1]]
       /\ UNCHANGED <<write_sync, num_writers>>
  ELSE WriteReturn(w)

(* Slip: the writer goes on counting as active while it waits.             *)
WaitCounted(w) ==
  /\ write_sync' = 0
  /\ UNCHANGED num_writers
  /\ WriteGoto(w, "relock")
  /\ wr' = [wr EXCEPT ![w] = [NewWrite EXCEPT !.retries = wr[w].retries + 1]]

(* Count a retry and let go of write_sync for a while.                     *)
Wait(w) ==
  /\ DropWriteSync
  /\ WriteGoto(w, "relock")
  /\ wr' = [wr EXCEPT ![w] = [NewWrite EXCEPT !.retries = wr[w].retries + 1]]

CallWrite(w) ==
  LET promised == stored + Cardinality(Writing) IN
  /\ wpc[w] = "idle"
  /\ ~destroyed
  /\ promised < MaxValues
  /\ promised - Len(received) < MaxOutstanding
  /\ Serial => Reading = {}
  /\ WriteGoto(w, "lock")
  /\ UNCHANGED <<ring, status, sync, readLocals, wr, history, life>>

LockWrite(w) ==
  /\ wpc[w] = "lock"
  /\ TakeWriteSync
  /\ WriteGoto(w, "load")
  /\ UNCHANGED <<ring, status, read_sync, readLocals, wr, history, life>>

(* write_sync is taken again after a wait, and "continue" follows.         *)
RelockWrite(w) ==
  /\ wpc[w] = "relock"
  /\ write_sync = 0
  /\ IF wr[w].retries < WriterCasMaxRetries
     THEN /\ TakeWriteSync
          /\ WriteGoto(w, "load")
          /\ wr' = [wr EXCEPT ![w].retries = @ + 1]
     ELSE /\ WriteGoto(w, "idle")
          /\ wr' = [wr EXCEPT ![w] = NewWrite]
          /\ UNCHANGED <<write_sync, num_writers>>
  /\ UNCHANGED <<ring, status, read_sync, readLocals, history, life>>

LoadTail(w) ==
  /\ wpc[w] = "load"
  /\ wr' = [wr EXCEPT ![w] = [retries |-> wr[w].retries, temp |-> tail,
                              commit |-> commit, next |-> next[tail].to, head |-> 0]]
  /\ WriteGoto(w, "read_head")
  /\ UNCHANGED <<ring, status, sync, readLocals, history, life>>

(* VALIDATION POINTS 3 and 4 *)
WriterSnapshotValid(w) == commit = wr[w].commit /\ tail = wr[w].temp

(* Blocking mode, and tail stands on the committed page away from head.    *)
TailOnCommit(w) ==
  /\ mode = "blocking"
  /\ wr[w].commit = wr[w].temp
  /\ wr[w].temp # head
  /\ wr[w].next # head

(* tail is moved past the committed page, and the writer waits.            *)
SkipPage(w) ==
  IF wr[w].retries < BlockingMaxRetries
  THEN tail' = wr[w].next /\ Wait(w)
  ELSE UNCHANGED tail /\ WriteReturn(w)

ReadHead(w) ==
  /\ wpc[w] = "read_head"
  /\ IF ~WriterSnapshotValid(w)
     THEN LoopCondition(w) /\ UNCHANGED tail
     ELSE IF TailOnCommit(w)
     THEN SkipPage(w)
     ELSE /\ wr' = [wr EXCEPT ![w].head = head]
          /\ WriteGoto(w, "check_flag")
          /\ UNCHANGED <<tail, write_sync, num_writers>>
  /\ UNCHANGED <<head, commit, reader, pages, status, read_sync, readLocals, history, life>>

(* Slip: the HEAD flag is looked for one page too far.                     *)
CheckFlagOfNext(w) ==
  /\ wpc[w] = "check_flag"
  /\ WriteGoto(w, IF next[wr[w].next].head THEN "full"
                  ELSE IF wr[w].next = wr[w].head THEN "check_empty"
                  ELSE "recheck_flag")
  /\ UNCHANGED <<ring, status, sync, readLocals, wr, history, life>>

(* The queue is full if the page at tail leads to the head page.           *)
CheckFlag(w) ==
  /\ wpc[w] = "check_flag"
  /\ WriteGoto(w, IF next[wr[w].temp].head THEN "full"
                  ELSE IF wr[w].next = wr[w].head THEN "check_empty"
                  ELSE "recheck_flag")
  /\ UNCHANGED <<ring, status, sync, readLocals, wr, history, life>>

CheckNotEmpty(w) ==
  /\ wpc[w] = "check_empty"
  /\ WriteGoto(w, IF is_empty = 0 THEN "full" ELSE "recheck_flag")
  /\ UNCHANGED <<ring, status, sync, readLocals, wr, history, life>>

(* Slip: the mode is not looked at.                                        *)
FullInAnyMode(w) ==
  /\ wpc[w] = "full"
  /\ WriteGoto(w, IF next[wr[w].commit] = FlagOff(wr[w].temp)
                  THEN "overwrite" ELSE "backoff")
  /\ UNCHANGED <<ring, status, sync, readLocals, wr, history, life>>

(* Overwrite the oldest value if the mode says so and the page before tail *)
(* is committed; otherwise wait.                                           *)
Full(w) ==
  /\ wpc[w] = "full"
  /\ WriteGoto(w, IF mode = "overwrite" /\ next[wr[w].commit] = FlagOff(wr[w].temp)
                  THEN "overwrite" ELSE "backoff")
  /\ UNCHANGED <<ring, status, sync, readLocals, wr, history, life>>

OverwriteBusy(w) ==
  /\ wpc[w] = "overwrite"
  /\ read_sync = 1
  /\ WriteGoto(w, "backoff")
  /\ UNCHANGED <<ring, status, sync, readLocals, wr, history, life>>

(* Slip: the overwrite does not wait for read_sync.                        *)
OverwriteUnsynced(w) ==
  /\ wpc[w] = "overwrite"
  /\ next' = [next EXCEPT ![head] = FlagOn(@.to), ![wr[w].temp] = FlagOff(@.to)]
  /\ head' = next[head].to
  /\ dropped' = dropped \union {value[head]}
  /\ LoopCondition(w)
  /\ UNCHANGED <<tail, commit, reader, prev, value, status, read_sync, readLocals,
                 stored, received, freed, life>>

(* With read_sync taken too, no other thread can look at the ring: taking  *)
(* it, VALIDATION POINTS 5 and 6, moving the HEAD flag and head one page   *)
(* on and releasing it are one step.                                       *)
Overwrite(w) ==
  LET t == wr[w].temp IN
  /\ wpc[w] = "overwrite"
  /\ read_sync = 0
  /\ IF head = wr[w].head /\ commit = wr[w].commit /\ ~next[head].head
     THEN /\ next' = [next EXCEPT ![head] = FlagOn(@.to),
                                  ![t] = IF @ = FlagOn(head) THEN FlagOff(head) ELSE @]
          /\ head' = next[head].to
          /\ dropped' = dropped \union {value[head]}
     ELSE UNCHANGED <<next, head, dropped>>
  /\ LoopCondition(w)
  /\ UNCHANGED <<tail, commit, reader, prev, value, status, read_sync, readLocals,
                 stored, received, freed, life>>

Backoff(w) ==
  /\ wpc[w] = "backoff"
  /\ IF wr[w].retries < WriterCasMaxRetries THEN Wait(w) ELSE WriteReturn(w)
  /\ UNCHANGED <<ring, status, read_sync, readLocals, history, life>>

RecheckFlag(w) ==
  /\ wpc[w] = "recheck_flag"
  /\ IF next[wr[w].temp].head
     THEN LoopCondition(w)
     ELSE WriteGoto(w, "cas_tail") /\ UNCHANGED <<wr, write_sync, num_writers>>
  /\ UNCHANGED <<ring, status, read_sync, readLocals, history, life>>

(* The CAS cannot fail (SnapshotsHold), so the local tail is NULL whenever *)
(* the do-while condition is reached without a write.                      *)
CasTail(w) ==
  /\ wpc[w] = "cas_tail"
  /\ IF tail = wr[w].temp
     THEN /\ tail' = wr[w].next
          /\ WriteGoto(w, "store")
          /\ UNCHANGED <<wr, write_sync, num_writers>>
     ELSE LoopCondition(w) /\ UNCHANGED tail
  /\ UNCHANGED <<head, commit, reader, pages, status, read_sync, readLocals, history, life>>

(* rqueue_update_value.  The n-th value put in a page is called n.         *)
StoreValue(w) ==
  LET p == wr[w].temp IN
  /\ wpc[w] = "store"
  /\ stored' = stored + 1
  /\ value' = [value EXCEPT ![p] = stored + 1]
  /\ freed' = freed \union ({value[p]} \ {NULL})
  /\ WriteGoto(w, "not_empty")
  /\ UNCHANGED <<head, tail, commit, reader, next, prev, status, sync,
                 readLocals, wr, received, dropped, life>>

(* Slip: is_empty is not reset.                                            *)
KeepEmpty(w) ==
  /\ wpc[w] = "not_empty"
  /\ writes' = writes + 1
  /\ WriteGoto(w, "commit")
  /\ UNCHANGED <<ring, is_empty, mode, reads, sync, readLocals, wr, history, life>>

SetNotEmpty(w) ==
  /\ wpc[w] = "not_empty"
  /\ writes' = writes + 1
  /\ is_empty' = 0
  /\ WriteGoto(w, "commit")
  /\ UNCHANGED <<ring, mode, reads, sync, readLocals, wr, history, life>>

(* Slip: commit is moved to the new tail, not to the page just written.    *)
CommitTail(w) ==
  /\ wpc[w] = "commit"
  /\ commit' = IF num_writers = 1 THEN tail ELSE commit
  /\ WriteReturn(w)
  /\ UNCHANGED <<head, tail, reader, pages, status, read_sync, readLocals, history, life>>

(* Only a writer that is alone moves commit.                               *)
CommitWrite(w) ==
  /\ wpc[w] = "commit"
  /\ commit' = IF num_writers = 1 THEN wr[w].temp ELSE commit
  /\ WriteReturn(w)
  /\ UNCHANGED <<head, tail, reader, pages, status, read_sync, readLocals, history, life>>

WriteStep(w) ==
  \/ LockWrite(w) \/ RelockWrite(w) \/ LoadTail(w) \/ ReadHead(w)
  \/ CheckFlag(w) \/ CheckNotEmpty(w) \/ Full(w) \/ OverwriteBusy(w)
  \/ Overwrite(w) \/ Backoff(w) \/ RecheckFlag(w) \/ CasTail(w)
  \/ StoreValue(w) \/ SetNotEmpty(w) \/ CommitWrite(w)

-----------------------------------------------------------------------------
(* The rest of the interface *)

(* rqueue_set_mode: a plain store, taken up by writers at their next test. *)
SetMode(m) ==
  /\ ~destroyed
  /\ mode # m
  /\ Serial => Idle
  /\ mode' = m
  /\ UNCHANGED <<ring, is_empty, writes, reads, sync, readLocals, writeLocals,
                 history, life>>

(* The pages met by following next from the head page.                     *)
Walk[n \in Nat] == IF n = 0 THEN head ELSE next[Walk[n - 1]].to
RingLength ==
  CHOOSE n \in 1 .. Size + 2 : Walk[n] = head /\ \A m \in 1 .. n - 1 : Walk[m] # head

(* Slip: the walk stops one page early.                                    *)
DestroyOneShort ==
  LET released == {p \in Page : p = reader \/ \E n \in 0 .. RingLength - 2 : Walk[n] = p} IN
  /\ Idle
  /\ ~destroyed
  /\ destroyed' = TRUE
  /\ freed' = freed \union ({value[p] : p \in released} \ {NULL})
  /\ UNCHANGED <<ring, status, sync, readLocals, writeLocals, stored, received,
                 dropped, wild>>

(* rqueue_destroy releases the pages of the ring and the reader page, each *)
(* with the value it still holds.  Nobody may be using the queue.          *)
Destroy ==
  LET released == {p \in Page : p = reader \/ \E n \in 0 .. RingLength - 1 : Walk[n] = p} IN
  /\ Idle
  /\ ~destroyed
  /\ destroyed' = TRUE
  /\ freed' = freed \union ({value[p] : p \in released} \ {NULL})
  /\ UNCHANGED <<ring, status, sync, readLocals, writeLocals, stored, received,
                 dropped, wild>>

(* Once head is a flagged pointer, an address inside a page, nothing is    *)
(* said of the program any more.                                           *)
Next ==
  /\ ~wild
  /\ \/ \E r \in Readers : CallRead(r) \/ ReadStep(r)
     \/ \E w \in Writers : CallWrite(w) \/ WriteStep(w)
     \/ \E m \in Modes : SetMode(m)
     \/ Destroy

Spec == Init /\ [][Next]_vars

(* Every thread inside a call keeps running: the scheduler is fair.        *)
FairSpec ==
  /\ Spec
  /\ \A r \in Readers : WF_vars(ReadStep(r))
  /\ \A w \in Writers : WF_vars(WriteStep(w))

-----------------------------------------------------------------------------
(* Type invariant: pointers are pages, counters and flags keep their range.*)
TypeOK ==
  /\ head \in Page /\ tail \in Page /\ commit \in Page /\ reader \in Page
  /\ next \in [Page -> Link] /\ prev \in [Page -> Page] /\ value \in [Page -> Nat]
  /\ read_sync \in {0, 1} /\ write_sync \in {0, 1} /\ num_writers \in Int
  /\ is_empty \in {0, 1} /\ mode \in Modes /\ writes \in Nat /\ reads \in Nat
  /\ rpc \in [Readers -> ReaderPC] /\ rd \in [Readers -> ReaderLocals]
  /\ wpc \in [Writers -> WriterPC] /\ wr \in [Writers -> WriterLocals]
  /\ stored \in Nat /\ received \in Seq(Nat)
  /\ dropped \subseteq Nat /\ freed \subseteq Nat
  /\ destroyed \in BOOLEAN /\ wild \in BOOLEAN

HoldsRead(r) == rpc[r] \notin {"idle", "lock"}
HoldsWrite(w) == wpc[w] \notin {"idle", "lock", "relock"}

(* Locking: read_sync and write_sync are taken exactly while one reader,   *)
(* one writer, is past them, and num_writers counts that writer.           *)
LockDiscipline ==
  /\ \A r, q \in Readers : HoldsRead(r) /\ HoldsRead(q) => r = q
  /\ \A w, x \in Writers : HoldsWrite(w) /\ HoldsWrite(x) => w = x
  /\ read_sync = IF \E r \in Readers : HoldsRead(r) THEN 1 ELSE 0
  /\ write_sync = IF \E w \in Writers : HoldsWrite(w) THEN 1 ELSE 0
  /\ num_writers = write_sync

(* A reader's snapshot of head stays true until it moves head itself, a    *)
(* writer's of tail and commit until it moves tail: VALIDATION POINTS 2, 3 *)
(* and 4 and the CAS of tail cannot fail, and commit always advances.      *)
SnapshotsHold ==
  /\ \A r \in Readers : rpc[r] \in {"check", "validate", "link", "swap", "head"} =>
       /\ head = rd[r].head
       /\ rpc[r] # "swap" /\ rpc[r] # "head" => next[reader] = rd[r].old_next
  /\ \A w \in Writers : HoldsWrite(w) /\ wpc[w] # "load" =>
       /\ commit = wr[w].commit
       /\ wpc[w] \notin {"store", "not_empty", "commit"} => tail = wr[w].temp
       /\ num_writers = 1

(* The branch at rqueue.c:488 for a tail that stands on the committed page *)
(* is never taken: tail leaves commit with the first write for good.       *)
TailLeavesCommit ==
  \A w \in Writers : wpc[w] = "read_head" => ~TailOnCommit(w)

(* Until a page is overwritten, between reads the pages other than the    *)
(* reader page form one ring, and the HEAD flag sits on the pointer to     *)
(* head and nowhere else: also while writers meet a full queue.            *)
RingIntact ==
  read_sync = 0 /\ dropped = {} =>
    /\ {Walk[n] : n \in 0 .. Size} = Page \ {reader}
    /\ Walk[Size + 1] = head
    /\ \A p \in Page \ {reader} : next[p].head <=> next[p].to = head
    /\ next[prev[head]].to = head

Spliced(r) == rpc[r] \in {"head", "take"}
PermutesAllBut(x) ==
  /\ \A p \in Page \ {x} : next[p].to \in Page \ {x}
  /\ \A p, q \in Page \ {x} : next[p].to = next[q].to => p = q

(* At every moment, in every mode, next permutes all the pages but one, no *)
(* page leading to itself: the page left out is the reader page or, from   *)
(* the splice at rqueue.c:361 on, the old head page that will replace it.  *)
RingPermutation ==
  /\ \A r \in Readers : Spliced(r) => PermutesAllBut(rd[r].head)
  /\ (\A r \in Readers : ~Spliced(r)) => PermutesAllBut(reader)
  /\ \A p \in Page : next[p].to # p

Unread == SelectSeq([i \in 1 .. stored |-> i],
                    LAMBDA v : v \notin dropped /\ \A i \in DOMAIN received : received[i] # v)

(* The ring buffer implements the bounded FIFO queue it documents.         *)
Fifo == INSTANCE FifoQueue
          WITH Capacity <- Size, QueueModes <- Modes, queue <- Unread,
               taken <- received, puts <- stored, qmode <- mode
ImplementsFifo == Fifo!QSpec

(* When nobody is inside a call, is_empty says that there is nothing left. *)
EmptyFlagHonest == Idle /\ is_empty = 1 => Unread = <<>>

(* A value goes to free_value_cb only when it was overwritten or when the  *)
(* queue is destroyed; it is never one that a reader was given.            *)
FreedOnlyIfDropped ==
  /\ ~destroyed => freed \subseteq dropped
  /\ \A i \in DOMAIN received : received[i] \notin freed

(* rqueue_destroy leaks nothing: every value was read or is freed by then. *)
NothingLeaks ==
  destroyed => 1 .. stored = freed \union {received[i] : i \in DOMAIN received}

(* A write is turned away only by a full queue in blocking mode.           *)
TurnedAwayOnlyWhenFull ==
  \A w \in Writers : wpc[w] = "backoff" => mode = "blocking" /\ Len(Unread) = Size

(* Every call ends: "All code paths above release read_sync in bounded     *)
(* time", and so for write_sync.                                           *)
CallsEnd ==
  /\ \A r \in Readers : rpc[r] # "idle" ~> rpc[r] = "idle"
  /\ \A w \in Writers : wpc[w] # "idle" ~> wpc[w] = "idle"
=============================================================================
