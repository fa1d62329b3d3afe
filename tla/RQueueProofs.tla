---------------------------- MODULE RQueueProofs ----------------------------
(***************************************************************************)
(* Theorems about the ring buffer of RQueue, for every Size, every number  *)
(* of readers and writers, every mode and every retry limit.               *)
(***************************************************************************)
EXTENDS RQueue, TLAPS

-----------------------------------------------------------------------------
(* Types *)

(* A pointer to a page, flagged or not, is a next pointer.                 *)
LEMMA LinkType ==
  /\ 0 \in Page /\ 0 \in Nat
  /\ \A p \in Page : FlagOn(p) \in Link /\ FlagOff(p) \in Link
  /\ \A l \in Link : l.to \in Page /\ l.head \in BOOLEAN
  BY RQueueAssumption DEF Page, Link, FlagOn, FlagOff

(* The locals of rqueue_read at the start of a turn and after a snapshot.  *)
LEMMA ReadLocalsType ==
  ASSUME NEW i \in Nat, NEW h \in Page, NEW c \in Page, NEW n \in Link,
         NEW o \in Link, NEW v \in Nat
  PROVE  /\ [NewRead EXCEPT !.i = i] \in ReaderLocals
         /\ [i |-> i, head |-> h, commit |-> c, next |-> n, old_next |-> o, v |-> v]
              \in ReaderLocals
  BY LinkType DEF ReaderLocals, NewRead, NULL

(* The locals of a read and of a write that begin.                         *)
LEMMA NewLocals == NewRead \in ReaderLocals /\ NewWrite \in WriterLocals
  BY LinkType DEF ReaderLocals, NewRead, WriterLocals, NewWrite, NULL

(* The locals of rqueue_read, field by field.                              *)
LEMMA ReadLocalsFields ==
  ASSUME NEW x \in ReaderLocals
  PROVE  /\ x.i \in Nat /\ x.head \in Page /\ x.commit \in Page
         /\ x.next \in Link /\ x.old_next \in Link /\ x.v \in Nat
         /\ \A v \in Nat : [x EXCEPT !.v = v] \in ReaderLocals
  BY DEF ReaderLocals

(* The locals of rqueue_write likewise.                                    *)
LEMMA WriteLocalsType ==
  ASSUME NEW k \in Nat, NEW t \in Page, NEW c \in Page, NEW n \in Page, NEW h \in Page
  PROVE  /\ [NewWrite EXCEPT !.retries = k] \in WriterLocals
         /\ [retries |-> k, temp |-> t, commit |-> c, next |-> n, head |-> h]
              \in WriterLocals
  BY LinkType DEF WriterLocals, NewWrite

(* The locals of rqueue_write, field by field.                             *)
LEMMA WriteLocalsFields ==
  ASSUME NEW x \in WriterLocals
  PROVE  /\ x.retries \in Nat /\ x.temp \in Page /\ x.commit \in Page
         /\ x.next \in Page /\ x.head \in Page
         /\ \A k \in Nat : [x EXCEPT !.retries = k] \in WriterLocals
         /\ \A h \in Page : [x EXCEPT !.head = h] \in WriterLocals
  BY DEF WriterLocals

(* The end of a turn of rqueue_read leaves the locals typed.               *)
LEMMA NextTurnType ==
  ASSUME TypeOK, NEW r \in Readers, NextTurn(r)
  PROVE  rpc' \in [Readers -> ReaderPC] /\ rd' \in [Readers -> ReaderLocals]
<1>1. rd[r].i \in Nat /\ rd[r].i + 1 \in Nat
  BY ReadLocalsFields DEF TypeOK
<1>2. [NewRead EXCEPT !.i = rd[r].i + 1] \in ReaderLocals /\ NewRead \in ReaderLocals
  BY <1>1, ReadLocalsType, NewLocals, LinkType
<1>. QED
  BY <1>2 DEF TypeOK, NextTurn, ReadGoto, ReaderPC

(* The three ways out of a turn of rqueue_write leave the locals typed.    *)
LEMMA WriteExitType ==
  ASSUME TypeOK, NEW w \in Writers, LoopCondition(w) \/ Wait(w) \/ WriteReturn(w)
  PROVE  /\ wpc' \in [Writers -> WriterPC] /\ wr' \in [Writers -> WriterLocals]
         /\ write_sync' \in {0, 1} /\ num_writers' \in Int
<1>1. wr[w].retries \in Nat /\ wr[w].retries + 1 \in Nat
  BY WriteLocalsFields DEF TypeOK
<1>2. /\ [NewWrite EXCEPT !.retries = wr[w].retries + 1] \in WriterLocals
      /\ NewWrite \in WriterLocals
  BY <1>1, WriteLocalsType, NewLocals, LinkType
<1> USE DEF TypeOK, DropWriteSync, WriteGoto, WriterPC
<1>3. CASE WriteReturn(w)
  BY <1>2, <1>3 DEF WriteReturn
<1>4. CASE Wait(w)
  BY <1>2, <1>4 DEF Wait
<1>5. CASE LoopCondition(w)
  BY <1>2, <1>3, <1>5 DEF LoopCondition
<1>. QED
  BY <1>3, <1>4, <1>5

(* rqueue_create makes a well-typed queue.                                 *)
LEMMA TypeOKInit == Init => TypeOK
<1> SUFFICES ASSUME Init PROVE TypeOK
  OBVIOUS
<1>1. next \in [Page -> Link]
  <2> SUFFICES ASSUME NEW p \in Page PROVE next[p] \in Link
    BY DEF Init
  <2>1. CASE p < Size
    BY <2>1, LinkType, RQueueAssumption DEF Init, Page
  <2>2. CASE ~(p < Size)
    BY <2>2, LinkType DEF Init
  <2>. QED
    BY <2>1, <2>2
<1>2. prev \in [Page -> Page] /\ value \in [Page -> Nat] /\ reader \in Page
  BY RQueueAssumption DEF Init, Page, NULL
<1>3. /\ rpc \in [Readers -> ReaderPC] /\ rd \in [Readers -> ReaderLocals]
      /\ wpc \in [Writers -> WriterPC] /\ wr \in [Writers -> WriterLocals]
  BY NewLocals DEF Init, ReaderPC, WriterPC
<1>4. head \in Page /\ tail \in Page /\ commit \in Page
  BY LinkType DEF Init
<1>5. received \in Seq(Nat) /\ dropped \subseteq Nat /\ freed \subseteq Nat
  BY DEF Init
<1>6. /\ read_sync \in {0, 1} /\ write_sync \in {0, 1} /\ num_writers \in Int
      /\ is_empty \in {0, 1} /\ mode \in Modes
      /\ writes \in Nat /\ reads \in Nat /\ stored \in Nat
  BY DEF Init
<1>7. destroyed \in BOOLEAN /\ wild \in BOOLEAN
  BY DEF Init
<1>. QED
  BY <1>1, <1>2, <1>3, <1>4, <1>5, <1>6, <1>7 DEF TypeOK

(* Every step of a reader or a writer keeps the types.                     *)
LEMMA TypeOKStep == TypeOK /\ [Next]_vars => TypeOK'
<1> SUFFICES ASSUME TypeOK, [Next]_vars PROVE TypeOK'
  OBVIOUS
<1> USE DEF TypeOK, pages, ring, status, sync, readLocals, writeLocals, history, life
<1>1. ASSUME NEW r \in Readers, CallRead(r) PROVE TypeOK'
  BY <1>1 DEF CallRead, ReadGoto, ReaderPC
<1>2. ASSUME NEW r \in Readers, LockRead(r) PROVE TypeOK'
  <2>1. Snapshot(rd[r].i) \in ReaderLocals
    BY ReadLocalsType, ReadLocalsFields, LinkType DEF Snapshot, NULL
  <2>. QED
    BY <1>2, <2>1 DEF LockRead, ReadGoto, ReaderPC
<1>3. ASSUME NEW r \in Readers, LockReadBusy(r) PROVE TypeOK'
  BY <1>3, NextTurnType DEF LockReadBusy
<1>4. ASSUME NEW r \in Readers, CheckEmpty(r) PROVE TypeOK'
  BY <1>4, NextTurnType DEF CheckEmpty, EndTurn, ReadGoto, ReaderPC
<1>5. ASSUME NEW r \in Readers, Validate(r) PROVE TypeOK'
  BY <1>5, NextTurnType DEF Validate, EndTurn, ReadGoto, ReaderPC
<1>6. ASSUME NEW r \in Readers, LinkReader(r) PROVE TypeOK'
  <2>1. FlagOn(rd[r].next.to) \in Link /\ prev[rd[r].head] \in Page
    BY ReadLocalsFields, LinkType
  <2>2. next' \in [Page -> Link] /\ prev' \in [Page -> Page]
    BY <1>6, <2>1 DEF LinkReader
  <2>3. /\ rpc' \in [Readers -> ReaderPC] /\ rd' \in [Readers -> ReaderLocals]
        /\ read_sync' \in {0, 1}
    BY <1>6, NextTurnType DEF LinkReader, EndTurn, ReadGoto, ReaderPC
  <2>. QED
    BY <1>6, <2>2, <2>3 DEF LinkReader
<1>7. ASSUME NEW r \in Readers, SwapHead(r) PROVE TypeOK'
  <2>1. FlagOff(reader) \in Link /\ rd[r].old_next \in Link
    BY ReadLocalsFields, LinkType
  <2>2. next' \in [Page -> Link]
    BY <1>7, <2>1 DEF SwapHead
  <2>3. /\ rpc' \in [Readers -> ReaderPC] /\ rd' \in [Readers -> ReaderLocals]
        /\ read_sync' \in {0, 1}
    BY <1>7, NextTurnType DEF SwapHead, EndTurn, ReadGoto, ReaderPC
  <2>. QED
    BY <1>7, <2>2, <2>3 DEF SwapHead
<1>8. ASSUME NEW r \in Readers, AdvanceHead(r) PROVE TypeOK'
  <2>1. rd[r].next.to \in Page /\ rd[r].next.head \in BOOLEAN
    BY ReadLocalsFields, LinkType
  <2>. QED
    BY <1>8, <2>1 DEF AdvanceHead, ReadGoto, ReaderPC
<1>9. ASSUME NEW r \in Readers, TakePage(r) PROVE TypeOK'
  <2>1. rd[r].head \in Page /\ value[rd[r].head] \in Nat
    BY ReadLocalsFields
  <2>2. [rd[r] EXCEPT !.v = value[rd[r].head]] \in ReaderLocals
    BY <2>1, ReadLocalsFields
  <2>3. /\ rpc' \in [Readers -> ReaderPC] /\ rd' \in [Readers -> ReaderLocals]
        /\ read_sync' \in {0, 1}
    BY <1>9, <2>2, NextTurnType DEF TakePage, EndTurn, ReadGoto, ReaderPC
  <2>. QED
    BY <1>9, <2>1, <2>3 DEF TakePage
<1>10. ASSUME NEW r \in Readers, ClearValue(r) PROVE TypeOK'
  <2>1. rd[r].v \in Nat
    BY ReadLocalsFields
  <2>. QED
    BY <1>10, <2>1 DEF ClearValue, ReadGoto, ReaderPC, NULL
<1>11. ASSUME NEW r \in Readers, SnapTail(r) \/ RecheckTail(r) \/ SetEmpty(r)
       PROVE  TypeOK'
  <2>1. CASE SnapTail(r)
    BY <2>1, NewLocals DEF SnapTail, ReadReturn, ReadGoto, ReaderPC
  <2>2. CASE RecheckTail(r)
    BY <2>2, NewLocals DEF RecheckTail, ReadReturn, ReadGoto, ReaderPC
  <2>3. CASE SetEmpty(r)
    BY <2>3, NewLocals DEF SetEmpty, ReadReturn, ReadGoto, ReaderPC
  <2>. QED
    BY <1>11, <2>1, <2>2, <2>3
<1>12. ASSUME NEW w \in Writers, CallWrite(w) PROVE TypeOK'
  BY <1>12 DEF CallWrite, WriteGoto, WriterPC
<1>13. ASSUME NEW w \in Writers, LockWrite(w) PROVE TypeOK'
  BY <1>13 DEF LockWrite, TakeWriteSync, WriteGoto, WriterPC
<1>14. ASSUME NEW w \in Writers, RelockWrite(w) PROVE TypeOK'
  <2>1. wr[w].retries + 1 \in Nat
    BY WriteLocalsFields
  <2>2. [wr[w] EXCEPT !.retries = wr[w].retries + 1] \in WriterLocals
    BY <2>1, WriteLocalsFields
  <2>3. CASE wr[w].retries < WriterCasMaxRetries
    <3>1. wr' \in [Writers -> WriterLocals]
      BY <1>14, <2>2, <2>3 DEF RelockWrite
    <3>2. write_sync' \in {0, 1} /\ num_writers' \in Int
      BY <1>14, <2>3 DEF RelockWrite, TakeWriteSync
    <3>3. wpc' \in [Writers -> WriterPC]
      BY <1>14, <2>3 DEF RelockWrite, WriteGoto, WriterPC
    <3>. QED
      BY <1>14, <3>1, <3>2, <3>3 DEF RelockWrite
  <2>4. CASE ~(wr[w].retries < WriterCasMaxRetries)
    BY <1>14, <2>4, NewLocals DEF RelockWrite, WriteGoto, WriterPC
  <2>. QED
    BY <2>3, <2>4
<1>15. ASSUME NEW w \in Writers, LoadTail(w) PROVE TypeOK'
  <2>1. [retries |-> wr[w].retries, temp |-> tail, commit |-> commit,
         next |-> next[tail].to, head |-> 0] \in WriterLocals
    BY WriteLocalsType, WriteLocalsFields, LinkType
  <2>. QED
    BY <1>15, <2>1 DEF LoadTail, WriteGoto, WriterPC
<1>16. ASSUME NEW w \in Writers, ReadHead(w) PROVE TypeOK'
  <2>1. wr[w].next \in Page /\ [wr[w] EXCEPT !.head = head] \in WriterLocals
    BY WriteLocalsFields
  <2>2. tail' \in Page
    BY <1>16, <2>1 DEF ReadHead, SkipPage
  <2>3. /\ wpc' \in [Writers -> WriterPC] /\ wr' \in [Writers -> WriterLocals]
        /\ write_sync' \in {0, 1} /\ num_writers' \in Int
    BY <1>16, <2>1, WriteExitType DEF ReadHead, SkipPage, WriteGoto, WriterPC
  <2>. QED
    BY <1>16, <2>2, <2>3 DEF ReadHead
<1>17. ASSUME NEW w \in Writers,
              CheckFlag(w) \/ CheckNotEmpty(w) \/ Full(w) \/ OverwriteBusy(w)
       PROVE  TypeOK'
  BY <1>17 DEF CheckFlag, CheckNotEmpty, Full, OverwriteBusy, WriteGoto, WriterPC
<1>18. ASSUME NEW w \in Writers, Overwrite(w) PROVE TypeOK'
  <2>1. /\ next[head].to \in Page /\ FlagOn(next[head].to) \in Link
        /\ FlagOff(head) \in Link /\ value[head] \in Nat
    BY LinkType
  <2>2. next' \in [Page -> Link] /\ head' \in Page /\ dropped' \subseteq Nat
    BY <1>18, <2>1 DEF Overwrite
  <2>. QED
    BY <1>18, <2>2, WriteExitType DEF Overwrite
<1>19. ASSUME NEW w \in Writers, Backoff(w) PROVE TypeOK'
  BY <1>19, WriteExitType DEF Backoff
<1>20. ASSUME NEW w \in Writers, RecheckFlag(w) PROVE TypeOK'
  BY <1>20, WriteExitType DEF RecheckFlag, WriteGoto, WriterPC
<1>21. ASSUME NEW w \in Writers, CasTail(w) PROVE TypeOK'
  <2>1. wr[w].next \in Page
    BY WriteLocalsFields
  <2>. QED
    BY <1>21, <2>1, WriteExitType DEF CasTail, WriteGoto, WriterPC
<1>22. ASSUME NEW w \in Writers, StoreValue(w) PROVE TypeOK'
  <2>1. wr[w].temp \in Page
    BY WriteLocalsFields
  <2>2. value' \in [Page -> Nat] /\ stored' \in Nat
    BY <1>22, <2>1 DEF StoreValue
  <2>3. freed' \subseteq Nat
    BY <1>22, <2>1 DEF StoreValue
  <2>4. wpc' \in [Writers -> WriterPC]
    BY <1>22 DEF StoreValue, WriteGoto, WriterPC
  <2>. QED
    BY <1>22, <2>2, <2>3, <2>4 DEF StoreValue
<1>23. ASSUME NEW w \in Writers, SetNotEmpty(w) PROVE TypeOK'
  BY <1>23 DEF SetNotEmpty, WriteGoto, WriterPC
<1>24. ASSUME NEW w \in Writers, CommitWrite(w) PROVE TypeOK'
  <2>1. wr[w].temp \in Page
    BY WriteLocalsFields
  <2>. QED
    BY <1>24, <2>1, WriteExitType DEF CommitWrite
<1>25. ASSUME NEW m \in Modes, SetMode(m) PROVE TypeOK'
  BY <1>25 DEF SetMode
<1>26. CASE Destroy
  <2>1. freed' \subseteq Nat
    BY <1>26 DEF Destroy
  <2>. QED
    BY <1>26, <2>1 DEF Destroy
<1>27. CASE UNCHANGED vars
  BY <1>27 DEF vars
<1>. QED
  BY <1>1, <1>2, <1>3, <1>4, <1>5, <1>6, <1>7, <1>8, <1>9, <1>10, <1>11, <1>12, <1>13,
     <1>14, <1>15, <1>16, <1>17, <1>18, <1>19, <1>20, <1>21, <1>22, <1>23, <1>24, <1>25,
     <1>26, <1>27 DEF Next, ReadStep, WriteStep

(* Types: the variables of the ring buffer keep their ranges.              *)
THEOREM TypeCorrect == Spec => []TypeOK
  BY TypeOKInit, TypeOKStep, PTL DEF Spec

-----------------------------------------------------------------------------
(* Locks *)

(* The readers' half of LockDiscipline and the writers'.                   *)
ReadLocks ==
  /\ \A r, q \in Readers : HoldsRead(r) /\ HoldsRead(q) => r = q
  /\ read_sync = IF \E r \in Readers : HoldsRead(r) THEN 1 ELSE 0
WriteLocks ==
  /\ \A w, x \in Writers : HoldsWrite(w) /\ HoldsWrite(x) => w = x
  /\ write_sync = IF \E w \in Writers : HoldsWrite(w) THEN 1 ELSE 0
  /\ num_writers = write_sync

(* A reader that keeps, drops or does not touch read_sync.                 *)
LEMMA ReaderMoves ==
  ASSUME TypeOK, ReadLocks, NEW r \in Readers, NEW pc \in ReaderPC, ReadGoto(r, pc),
         \/ HoldsRead(r) /\ pc \notin {"idle", "lock"} /\ read_sync' = read_sync
         \/ HoldsRead(r) /\ pc \in {"idle", "lock"} /\ read_sync' = 0
         \/ ~HoldsRead(r) /\ pc \in {"idle", "lock"} /\ read_sync' = read_sync
         \/ read_sync = 0 /\ pc \notin {"idle", "lock"} /\ read_sync' = 1
  PROVE  ReadLocks'
<1>1. \A q \in Readers : rpc'[q] = IF q = r THEN pc ELSE rpc[q]
  BY DEF ReadGoto, TypeOK
<1>2. \A q \in Readers : q # r => HoldsRead(q)' = HoldsRead(q)
  BY <1>1 DEF HoldsRead
<1>3. HoldsRead(r)' = (pc \notin {"idle", "lock"})
  BY <1>1 DEF HoldsRead
<1>4. CASE HoldsRead(r) /\ pc \notin {"idle", "lock"} /\ read_sync' = read_sync
  BY <1>2, <1>3, <1>4 DEF ReadLocks
<1>5. CASE HoldsRead(r) /\ pc \in {"idle", "lock"} /\ read_sync' = 0
  BY <1>2, <1>3, <1>5 DEF ReadLocks
<1>6. CASE ~HoldsRead(r) /\ pc \in {"idle", "lock"} /\ read_sync' = read_sync
  BY <1>2, <1>3, <1>6 DEF ReadLocks
<1>7. CASE read_sync = 0 /\ pc \notin {"idle", "lock"} /\ read_sync' = 1
  <2>1. \A q \in Readers : ~HoldsRead(q)
    BY <1>7 DEF ReadLocks
  <2>2. HoldsRead(r)' /\ \A q \in Readers : q # r => ~HoldsRead(q)'
    BY <1>2, <1>3, <1>7, <2>1
  <2>. QED
    BY <1>7, <2>2 DEF ReadLocks
<1>. QED
  BY <1>4, <1>5, <1>6, <1>7

(* A writer likewise, with num_writers moving along.                       *)
LEMMA WriterMoves ==
  ASSUME TypeOK, WriteLocks, NEW w \in Writers, NEW pc \in WriterPC, WriteGoto(w, pc),
         \/ /\ HoldsWrite(w) /\ pc \notin {"idle", "lock", "relock"}
            /\ UNCHANGED <<write_sync, num_writers>>
         \/ HoldsWrite(w) /\ pc \in {"idle", "lock", "relock"} /\ DropWriteSync
         \/ /\ ~HoldsWrite(w) /\ pc \in {"idle", "lock", "relock"}
            /\ UNCHANGED <<write_sync, num_writers>>
         \/ pc \notin {"idle", "lock", "relock"} /\ TakeWriteSync
  PROVE  WriteLocks'
<1>1. \A x \in Writers : wpc'[x] = IF x = w THEN pc ELSE wpc[x]
  BY DEF WriteGoto, TypeOK
<1>2. \A x \in Writers : x # w => HoldsWrite(x)' = HoldsWrite(x)
  BY <1>1 DEF HoldsWrite
<1>3. HoldsWrite(w)' = (pc \notin {"idle", "lock", "relock"})
  BY <1>1 DEF HoldsWrite
<1>4. CASE /\ HoldsWrite(w) /\ pc \notin {"idle", "lock", "relock"}
           /\ UNCHANGED <<write_sync, num_writers>>
  BY <1>2, <1>3, <1>4 DEF WriteLocks
<1>5. CASE HoldsWrite(w) /\ pc \in {"idle", "lock", "relock"} /\ DropWriteSync
  <2>1. \A x \in Writers : ~HoldsWrite(x)'
    BY <1>2, <1>3, <1>5 DEF WriteLocks
  <2>2. write_sync = 1 /\ num_writers = 1
    BY <1>5 DEF WriteLocks
  <2>3. write_sync' = 0 /\ num_writers' = 0
    BY <1>5, <2>2 DEF DropWriteSync
  <2>. QED
    BY <2>1, <2>3 DEF WriteLocks
<1>6. CASE /\ ~HoldsWrite(w) /\ pc \in {"idle", "lock", "relock"}
           /\ UNCHANGED <<write_sync, num_writers>>
  BY <1>2, <1>3, <1>6 DEF WriteLocks
<1>7. CASE pc \notin {"idle", "lock", "relock"} /\ TakeWriteSync
  <2>1. \A x \in Writers : ~HoldsWrite(x)
    BY <1>7 DEF WriteLocks, TakeWriteSync
  <2>2. HoldsWrite(w)' /\ \A x \in Writers : x # w => ~HoldsWrite(x)'
    BY <1>2, <1>3, <1>7, <2>1
  <2>3. write_sync' = 1 /\ num_writers' = 1
    BY <1>7 DEF WriteLocks, TakeWriteSync
  <2>. QED
    BY <2>2, <2>3 DEF WriteLocks
<1>. QED
  BY <1>4, <1>5, <1>6, <1>7

(* A step of a reader keeps both locks exclusive.                          *)
LEMMA ReadLocksStep ==
  ASSUME TypeOK, ReadLocks, NEW r \in Readers, CallRead(r) \/ ReadStep(r)
  PROVE  ReadLocks'
<1> USE DEF HoldsRead, ReaderPC, TypeOK
<1>1. ASSUME ReadReturn(r), HoldsRead(r) PROVE ReadLocks'
  BY <1>1, ReaderMoves DEF ReadReturn
<1>2. ASSUME EndTurn(r), HoldsRead(r) PROVE ReadLocks'
  BY <1>2, ReaderMoves DEF EndTurn, NextTurn
<1>3. CASE CallRead(r)
  BY <1>3, ReaderMoves DEF CallRead, sync
<1>4. CASE LockRead(r)
  BY <1>4, ReaderMoves DEF LockRead
<1>5. CASE LockReadBusy(r)
  BY <1>5, ReaderMoves DEF LockReadBusy, NextTurn, sync
<1>6. CASE CheckEmpty(r)
  BY <1>2, <1>6, ReaderMoves DEF CheckEmpty
<1>7. CASE Validate(r)
  BY <1>2, <1>7, ReaderMoves DEF Validate
<1>8. CASE LinkReader(r)
  BY <1>2, <1>8, ReaderMoves DEF LinkReader
<1>9. CASE SwapHead(r)
  BY <1>2, <1>9, ReaderMoves DEF SwapHead
<1>10. CASE AdvanceHead(r)
  BY <1>10, ReaderMoves DEF AdvanceHead, sync
<1>11. CASE TakePage(r)
  BY <1>2, <1>11, ReaderMoves DEF TakePage
<1>12. CASE ClearValue(r)
  BY <1>12, ReaderMoves DEF ClearValue, sync
<1>13. CASE SnapTail(r)
  BY <1>1, <1>13, ReaderMoves DEF SnapTail
<1>14. CASE RecheckTail(r)
  BY <1>1, <1>14, ReaderMoves DEF RecheckTail
<1>15. CASE SetEmpty(r)
  BY <1>1, <1>15 DEF SetEmpty
<1>. QED
  BY <1>3, <1>4, <1>5, <1>6, <1>7, <1>8, <1>9, <1>10, <1>11, <1>12, <1>13, <1>14, <1>15
     DEF ReadStep

(* A step of a writer keeps both locks exclusive.                          *)
LEMMA WriteLocksStep ==
  ASSUME TypeOK, WriteLocks, NEW w \in Writers, CallWrite(w) \/ WriteStep(w)
  PROVE  WriteLocks'
<1> USE DEF HoldsWrite, WriterPC, TypeOK
<1>1. ASSUME WriteReturn(w), HoldsWrite(w) PROVE WriteLocks'
  BY <1>1, WriterMoves DEF WriteReturn
<1>2. ASSUME Wait(w), HoldsWrite(w) PROVE WriteLocks'
  BY <1>2, WriterMoves DEF Wait
<1>3. ASSUME LoopCondition(w), HoldsWrite(w) PROVE WriteLocks'
  BY <1>1, <1>3, WriterMoves DEF LoopCondition
<1>4. CASE CallWrite(w)
  BY <1>4, WriterMoves DEF CallWrite, sync
<1>5. CASE LockWrite(w)
  BY <1>5, WriterMoves DEF LockWrite
<1>6. CASE RelockWrite(w)
  BY <1>6, WriterMoves DEF RelockWrite
<1>7. CASE LoadTail(w)
  BY <1>7, WriterMoves DEF LoadTail, sync
<1>8. CASE ReadHead(w)
  BY <1>1, <1>2, <1>3, <1>8, WriterMoves DEF ReadHead, SkipPage
<1>9. CASE CheckFlag(w)
  BY <1>9, WriterMoves DEF CheckFlag, sync
<1>10. CASE CheckNotEmpty(w)
  BY <1>10, WriterMoves DEF CheckNotEmpty, sync
<1>11. CASE Full(w)
  BY <1>11, WriterMoves DEF Full, sync
<1>12. CASE OverwriteBusy(w)
  BY <1>12, WriterMoves DEF OverwriteBusy, sync
<1>13. CASE Overwrite(w)
  BY <1>3, <1>13 DEF Overwrite
<1>14. CASE Backoff(w)
  BY <1>1, <1>2, <1>14 DEF Backoff
<1>15. CASE RecheckFlag(w)
  BY <1>3, <1>15, WriterMoves DEF RecheckFlag
<1>16. CASE CasTail(w)
  BY <1>3, <1>16, WriterMoves DEF CasTail
<1>17. CASE StoreValue(w)
  BY <1>17, WriterMoves DEF StoreValue, sync
<1>18. CASE SetNotEmpty(w)
  BY <1>18, WriterMoves DEF SetNotEmpty, sync
<1>19. CASE CommitWrite(w)
  BY <1>1, <1>19 DEF CommitWrite
<1>. QED
  BY <1>4, <1>5, <1>6, <1>7, <1>8, <1>9, <1>10, <1>11, <1>12, <1>13, <1>14, <1>15,
     <1>16, <1>17, <1>18, <1>19 DEF WriteStep

(* A step of one side leaves the other side's control and lock alone.      *)
LEMMA SidesApart ==
  /\ \A r \in Readers : CallRead(r) \/ ReadStep(r)
       => UNCHANGED <<wpc, wr, write_sync, num_writers, tail, commit>>
  /\ \A w \in Writers : CallWrite(w) \/ WriteStep(w)
       => UNCHANGED <<rpc, rd, read_sync, reader, prev>>
<1> USE DEF pages, ring, status, sync, readLocals, writeLocals, history, life
<1>1. ASSUME NEW r \in Readers, CallRead(r) \/ ReadStep(r)
      PROVE  UNCHANGED <<wpc, wr, write_sync, num_writers, tail, commit>>
  BY <1>1 DEF ReadStep, CallRead, LockRead, LockReadBusy, CheckEmpty, Validate,
     LinkReader, SwapHead, AdvanceHead, TakePage, ClearValue, SnapTail, RecheckTail,
     SetEmpty
<1>2. ASSUME NEW w \in Writers, CallWrite(w) \/ WriteStep(w)
      PROVE  UNCHANGED <<rpc, rd, read_sync, reader, prev>>
  BY <1>2 DEF WriteStep, CallWrite, LockWrite, RelockWrite, LoadTail, ReadHead,
     CheckFlag, CheckNotEmpty, Full, OverwriteBusy, Overwrite, Backoff, RecheckFlag,
     CasTail, StoreValue, SetNotEmpty, CommitWrite
<1>. QED
  BY <1>1, <1>2

(* Every step keeps both locks exclusive.                                  *)
LEMMA LocksStep == TypeOK /\ LockDiscipline /\ [Next]_vars => LockDiscipline'
<1> SUFFICES ASSUME TypeOK, LockDiscipline, [Next]_vars PROVE LockDiscipline'
  OBVIOUS
<1>1. ReadLocks /\ WriteLocks
  BY DEF LockDiscipline, ReadLocks, WriteLocks
<1>2. ASSUME UNCHANGED <<rpc, read_sync>> PROVE ReadLocks'
  BY <1>1, <1>2 DEF ReadLocks, HoldsRead
<1>3. ASSUME UNCHANGED <<wpc, write_sync, num_writers>> PROVE WriteLocks'
  BY <1>1, <1>3 DEF WriteLocks, HoldsWrite
<1>4. ASSUME NEW r \in Readers, CallRead(r) \/ ReadStep(r) PROVE ReadLocks' /\ WriteLocks'
  BY <1>1, <1>3, <1>4, ReadLocksStep, SidesApart
<1>5. ASSUME NEW w \in Writers, CallWrite(w) \/ WriteStep(w) PROVE ReadLocks' /\ WriteLocks'
  BY <1>1, <1>2, <1>5, WriteLocksStep, SidesApart
<1>6. ASSUME UNCHANGED <<sync, readLocals, writeLocals>> PROVE ReadLocks' /\ WriteLocks'
  BY <1>2, <1>3, <1>6 DEF sync, readLocals, writeLocals
<1>7. ReadLocks' /\ WriteLocks'
  BY <1>4, <1>5, <1>6 DEF Next, SetMode, Destroy, vars
<1>. QED
  BY <1>7 DEF LockDiscipline, ReadLocks, WriteLocks

(* A new queue has its locks free.                                         *)
LEMMA LocksInit == Init => LockDiscipline
  BY DEF Init, LockDiscipline, HoldsRead, HoldsWrite

(* Locking: for any number of readers and writers, read_sync and           *)
(* write_sync are held by at most one thread each and num_writers counts   *)
(* the holder of write_sync.                                               *)
THEOREM Locking == Spec => []LockDiscipline
<1>1. Init => TypeOK /\ LockDiscipline
  BY TypeOKInit, LocksInit
<1>2. TypeOK /\ LockDiscipline /\ [Next]_vars => (TypeOK /\ LockDiscipline)'
  BY TypeOKStep, LocksStep
<1>. QED
  BY <1>1, <1>2, PTL DEF Spec

-----------------------------------------------------------------------------
(* Snapshots and the ring *)

(* What the reader in the critical section knows of head, of the reader    *)
(* page and of the page after the head.                                    *)
ViewOf(r) ==
  /\ rpc[r] \in {"check", "validate", "link", "swap", "head"} =>
       head = rd[r].head /\ next[rd[r].head] = rd[r].next
  /\ rpc[r] \in {"check", "validate", "link"} => next[reader] = rd[r].old_next
  /\ rpc[r] \in {"check", "validate", "link", "swap"} => rd[r].old_next.to # reader
  /\ rpc[r] = "swap" => next[reader].to = rd[r].next.to
  /\ rpc[r] = "take" => head # rd[r].head

(* The inductive invariant behind RingPermutation: the head page is in the *)
(* ring and the reader's view of it is right.                              *)
Topology ==
  /\ \A r \in Readers : ViewOf(r)
  /\ RingPermutation
  /\ (\A r \in Readers : ~Spliced(r)) => head # reader

(* rqueue_create closes the pages into a ring.                             *)
LEMMA TopologyInit == Init => Topology
<1> SUFFICES ASSUME Init PROVE Topology
  OBVIOUS
<1>1. \A p \in Page : next[p].to = IF p < Size THEN p + 1 ELSE 0
  <2> SUFFICES ASSUME NEW p \in Page
               PROVE  next[p].to = IF p < Size THEN p + 1 ELSE 0
    OBVIOUS
  <2>. QED
    BY DEF Init, FlagOn, FlagOff
<1>2. PermutesAllBut(reader)
  BY <1>1, RQueueAssumption DEF Init, PermutesAllBut, Page
<1>3. \A p \in Page : next[p].to # p
  BY <1>1, RQueueAssumption DEF Page
<1>4. \A r \in Readers : rpc[r] = "idle"
  BY DEF Init
<1>5. head # reader
  BY RQueueAssumption DEF Init
<1>6. \A r \in Readers : ~Spliced(r) /\ ViewOf(r)
  BY <1>4 DEF Spliced, ViewOf
<1>. QED
  BY <1>2, <1>3, <1>5, <1>6 DEF Topology, RingPermutation

(* The HEAD flag does not change where a pointer leads.                    *)
LEMMA FlagTo == \A p : FlagOn(p).to = p /\ FlagOff(p).to = p
  BY DEF FlagOn, FlagOff

(* What rqueue_read remembers of the ring.                                 *)
LEMMA SnapshotFields ==
  \A i : /\ Snapshot(i).head = head /\ Snapshot(i).next = next[head]
         /\ Snapshot(i).old_next = next[reader]
  BY DEF Snapshot

(* While one reader is past read_sync, or nobody is, the others wait.      *)
LEMMA OthersOut ==
  ASSUME TypeOK, LockDiscipline, NEW r \in Readers, HoldsRead(r) \/ read_sync = 0,
         NEW pc \in ReaderPC, ReadGoto(r, pc)
  PROVE  /\ \A q \in Readers \ {r} : ~HoldsRead(q) /\ rpc'[q] = rpc[q] /\ ~HoldsRead(q)'
         /\ \A q \in Readers \ {r} : ViewOf(q)' /\ ~Spliced(q) /\ ~Spliced(q)'
         /\ rpc'[r] = pc
<1>1. rpc'[r] = pc /\ \A q \in Readers \ {r} : rpc'[q] = rpc[q]
  BY DEF ReadGoto, TypeOK
<1>2. \A q \in Readers \ {r} : ~HoldsRead(q)
  BY DEF LockDiscipline
<1>. QED
  BY <1>1, <1>2 DEF HoldsRead, ViewOf, Spliced

(* Pointers that lead where they led permute the pages as they did.        *)
LEMMA SamePermutation ==
  ASSUME PermutesAllBut(reader), UNCHANGED reader,
         \A p \in Page \ {reader} : next'[p].to = next[p].to
  PROVE  PermutesAllBut(reader)'
  BY DEF PermutesAllBut

(* The reader gives up read_sync without having touched the ring.          *)
LEMMA GiveUp ==
  ASSUME TypeOK, LockDiscipline, Topology, NEW r \in Readers, ~Spliced(r),
         HoldsRead(r), NEW pc \in {"idle", "lock"}, ReadGoto(r, pc),
         UNCHANGED <<head, reader>>,
         \A p \in Page \ {reader} : next'[p] = next[p],
         next'[reader].to # reader
  PROVE  Topology'
<1>1. pc \in ReaderPC
  BY DEF ReaderPC
<1>2. \A q \in Readers : ViewOf(q)' /\ ~Spliced(q)'
  <2>1. rpc'[r] = pc /\ \A q \in Readers \ {r} : ViewOf(q)' /\ ~Spliced(q)'
    BY <1>1, OthersOut
  <2>2. ViewOf(r)' /\ ~Spliced(r)'
    BY <2>1 DEF ViewOf, Spliced
  <2>. QED
    BY <2>1, <2>2
<1>3. \A q \in Readers : ~Spliced(q)
  BY <1>1, OthersOut
<1>4. PermutesAllBut(reader)' /\ \A p \in Page : next'[p].to # p
  <2>1. PermutesAllBut(reader) /\ \A p \in Page : next[p].to # p
    BY <1>3 DEF Topology, RingPermutation
  <2>2. reader' = reader /\ \A p \in Page \ {reader} : next'[p].to = next[p].to
    OBVIOUS
  <2>3. PermutesAllBut(reader)'
    BY <2>1, <2>2, SamePermutation
  <2>. QED
    BY <2>1, <2>2, <2>3
<1>. QED
  BY <1>2, <1>3, <1>4 DEF Topology, RingPermutation

(* The reader moves on inside the critical section, head, next and reader  *)
(* unchanged.                                                              *)
LEMMA MoveOn ==
  ASSUME TypeOK, LockDiscipline, Topology, NEW r \in Readers, ~Spliced(r), HoldsRead(r),
         NEW pc \in ReaderPC, ReadGoto(r, pc), pc \notin {"head", "take"},
         UNCHANGED <<head, reader, next>>, ViewOf(r)'
  PROVE  Topology'
<1>1. \A q \in Readers : ViewOf(q)' /\ ~Spliced(q)' /\ ~Spliced(q)
  BY OthersOut DEF Spliced
<1>2. PermutesAllBut(reader)' /\ (\A p \in Page : next'[p].to # p) /\ head # reader
  BY <1>1 DEF Topology, RingPermutation, PermutesAllBut
<1>. QED
  BY <1>1, <1>2 DEF Topology, RingPermutation

(* The splice: the page before the head is led to the reader page, which   *)
(* already leads to the page after the head.                               *)
LEMMA Splice ==
  ASSUME NEW h \in Page, NEW x \in Page, NEW p \in Page, h # x,
         next \in [Page -> Link], PermutesAllBut(x), \A q \in Page : next[q].to # q,
         next[x].to = next[h].to, next[p].to = h,
         next' = [next EXCEPT ![p] = FlagOff(x)]
  PROVE  /\ \A q \in Page \ {h} : next'[q].to \in Page \ {h}
         /\ \A q, s \in Page \ {h} : next'[q].to = next'[s].to => q = s
         /\ \A q \in Page : next'[q].to # q
         /\ next'[h] = next[h]
<1>1. p # x /\ p # h
  OBVIOUS
<1>2. \A q \in Page : next'[q].to = IF q = p THEN x ELSE next[q].to
  BY DEF FlagOff
<1>3. \A q \in Page \ {h} : next'[q].to \in Page \ {h}
  <2> SUFFICES ASSUME NEW q \in Page \ {h} PROVE next'[q].to \in Page \ {h}
    OBVIOUS
  <2>1. next[h].to \in Page \ {x}
    BY DEF PermutesAllBut
  <2>2. CASE q = p
    BY <1>2, <2>2
  <2>3. CASE q = x
    BY <1>1, <1>2, <2>1, <2>3
  <2>4. CASE q # p /\ q # x
    BY <1>1, <1>2, <2>4 DEF PermutesAllBut
  <2>. QED
    BY <2>2, <2>3, <2>4
<1>4. \A q, s \in Page \ {h} : next'[q].to = next'[s].to => q = s
  <2>1. \A q \in Page \ {h} : next'[q].to = x => q = p
    BY <1>1, <1>2 DEF PermutesAllBut
  <2>2. \A q \in Page \ {h} : q # x /\ q # p => next'[q].to # next'[x].to
    BY <1>1, <1>2 DEF PermutesAllBut
  <2>3. \A q, s \in Page \ {h, x, p} : next'[q].to = next'[s].to => q = s
    BY <1>2 DEF PermutesAllBut
  <2>4. next'[p].to = x
    BY <1>2
  <2>. QED
    BY <2>1, <2>2, <2>3, <2>4
<1>5. next'[h] = next[h]
  BY <1>1
<1>. QED
  BY <1>1, <1>2, <1>3, <1>4, <1>5 DEF PermutesAllBut

(* A reader that exchanges its page for the head keeps the ring.           *)
LEMMA ReaderTopology ==
  ASSUME TypeOK, LockDiscipline, Topology, NEW r \in Readers, CallRead(r) \/ ReadStep(r)
  PROVE  Topology'
<1> USE DEF pages, ring
<1>1. ASSUME CallRead(r) \/ LockReadBusy(r) PROVE Topology'
  <2>1. UNCHANGED <<head, reader, next>>
    BY <1>1 DEF CallRead, LockReadBusy
  <2>2. PICK pc \in {"idle", "lock"} : ReadGoto(r, pc)
    BY <1>1 DEF CallRead, LockReadBusy, NextTurn
  <2>3. rpc[r] \in {"idle", "lock"} /\ rpc'[r] \in {"idle", "lock"}
    BY <1>1, <2>2 DEF CallRead, LockReadBusy, ReadGoto, TypeOK
  <2>4. \A q \in Readers \ {r} : rpc'[q] = rpc[q] /\ rd'[q] = rd[q]
    BY <1>1, <2>2 DEF CallRead, LockReadBusy, NextTurn, ReadGoto, TypeOK
  <2>5. \A q \in Readers : (Spliced(q)' <=> Spliced(q)) /\ (Spliced(q) => rd'[q] = rd[q])
    BY <2>3, <2>4 DEF Spliced
  <2>6. \A q \in Readers : ViewOf(q)'
    <3>1. ViewOf(r)'
      BY <2>3 DEF ViewOf
    <3>2. ASSUME NEW q \in Readers \ {r} PROVE ViewOf(q)'
      <4>1. ViewOf(q) /\ rpc'[q] = rpc[q] /\ rd'[q] = rd[q]
        BY <2>4 DEF Topology
      <4>. QED
        BY <2>1, <4>1 DEF ViewOf
    <3>. QED
      BY <3>1, <3>2
  <2>. QED
    BY <2>1, <2>5, <2>6 DEF Topology, RingPermutation, PermutesAllBut
<1>2. CASE LockRead(r)
  <2>1. ReadGoto(r, "check") /\ "check" \in ReaderPC /\ read_sync = 0
    BY <1>2 DEF LockRead, ReaderPC
  <2>2. UNCHANGED <<head, reader, next>> /\ rd'[r] = Snapshot(rd[r].i)
    BY <1>2 DEF LockRead, TypeOK
  <2>3. ViewOf(r)'
    <3>1. rpc'[r] = "check"
      BY <2>1, OthersOut
    <3>2. /\ rd'[r].head = head /\ rd'[r].next = next[head]
          /\ rd'[r].old_next = next[reader]
      BY <2>2, SnapshotFields
    <3>3. next[reader].to # reader
      BY DEF Topology, RingPermutation, TypeOK
    <3>. QED
      BY <2>2, <3>1, <3>2, <3>3 DEF ViewOf
  <2>4. \A q \in Readers : ViewOf(q)' /\ ~Spliced(q)' /\ ~Spliced(q)
    BY <1>2, <2>1, <2>3, OthersOut DEF Spliced, LockRead
  <2>. QED
    BY <2>2, <2>4 DEF Topology, RingPermutation, PermutesAllBut
<1>3. ASSUME EndTurn(r) \/ ReadReturn(r), HoldsRead(r), ~Spliced(r),
             UNCHANGED <<head, reader, next>>
      PROVE  Topology'
  <2>1. PICK pc \in {"idle", "lock"} : ReadGoto(r, pc)
    BY <1>3 DEF EndTurn, NextTurn, ReadReturn
  <2>2. next'[reader].to # reader
    BY <1>3 DEF Topology, RingPermutation, TypeOK
  <2>. QED
    BY <1>3, <2>1, <2>2, GiveUp
<1>4. CASE CheckEmpty(r)
  <2>1. HoldsRead(r) /\ ~Spliced(r) /\ UNCHANGED <<head, reader, next>>
    BY <1>4 DEF CheckEmpty, HoldsRead, Spliced
  <2>2. CASE ReadGoto(r, "validate") /\ UNCHANGED rd
    <3>1. ViewOf(r)'
      BY <1>4, <2>1, <2>2 DEF CheckEmpty, ReadGoto, ViewOf, Topology, TypeOK
    <3>. QED
      BY <2>1, <2>2, <3>1, MoveOn DEF ReaderPC
  <2>. QED
    BY <1>3, <1>4, <2>1, <2>2 DEF CheckEmpty
<1>5. CASE Validate(r)
  <2>1. HoldsRead(r) /\ ~Spliced(r) /\ UNCHANGED <<head, reader, next>>
    BY <1>5 DEF Validate, HoldsRead, Spliced
  <2>2. CASE ReadGoto(r, "link") /\ UNCHANGED rd
    <3>1. ViewOf(r)'
      BY <1>5, <2>1, <2>2 DEF Validate, ReadGoto, ViewOf, Topology, TypeOK
    <3>. QED
      BY <2>1, <2>2, <3>1, MoveOn DEF ReaderPC
  <2>. QED
    BY <1>3, <1>5, <2>1, <2>2 DEF Validate
<1>6. CASE LinkReader(r)
  <2>1. HoldsRead(r) /\ ~Spliced(r) /\ rpc[r] = "link" /\ UNCHANGED <<head, reader>>
    BY <1>6 DEF LinkReader, HoldsRead, Spliced
  <2>2. CASE EndTurn(r) /\ UNCHANGED next
    BY <1>3, <2>1, <2>2
  <2>3. CASE /\ next' = [next EXCEPT ![reader] = FlagOn(rd[r].next.to)]
             /\ ReadGoto(r, "swap")
             /\ UNCHANGED rd
    <3>1. "swap" \in ReaderPC
      BY DEF ReaderPC
    <3>2. \A q \in Readers : ~Spliced(q) /\ ~Spliced(q)'
      BY <2>1, <2>3, <3>1, OthersOut DEF Spliced
    <3>3. /\ head = rd[r].head /\ next[head] = rd[r].next /\ head # reader
          /\ rd[r].old_next.to # reader
      BY <2>1, <3>2 DEF Topology, ViewOf
    <3>4. rd[r].next.to \in Page \ {reader}
      BY <3>2, <3>3 DEF Topology, RingPermutation, PermutesAllBut, TypeOK
    <3>5. /\ next'[reader].to = rd[r].next.to
          /\ \A p \in Page \ {reader} : next'[p] = next[p]
      BY <2>3, <3>4 DEF TypeOK, FlagOn
    <3>6. ViewOf(r)'
      <4>1. rpc'[r] = "swap"
        BY <2>1, <2>3, <3>1, OthersOut
      <4>2. head \in Page /\ next'[head] = next[head]
        BY <3>3, <3>5 DEF TypeOK
      <4>. QED
        BY <2>1, <2>3, <3>3, <3>5, <4>1, <4>2 DEF ViewOf
    <3>7. \A q \in Readers : ViewOf(q)'
      BY <2>1, <2>3, <3>1, <3>6, OthersOut
    <3>8. PermutesAllBut(reader)' /\ \A p \in Page : next'[p].to # p
      <4>1. PermutesAllBut(reader) /\ \A p \in Page : next[p].to # p
        BY <3>2 DEF Topology, RingPermutation
      <4>2. PermutesAllBut(reader)'
        <5>1. reader' = reader /\ \A p \in Page \ {reader} : next'[p].to = next[p].to
          BY <2>1, <3>5
        <5>. QED
          BY <4>1, <5>1, SamePermutation
      <4>. QED
        BY <3>4, <3>5, <4>1, <4>2
    <3>. QED
      BY <2>1, <3>2, <3>3, <3>7, <3>8 DEF Topology, RingPermutation
  <2>. QED
    BY <1>6, <2>2, <2>3 DEF LinkReader
<1>7. CASE SwapHead(r)
  <2> DEFINE h == rd[r].head
             p == prev[h]
  <2>1. /\ HoldsRead(r) /\ ~Spliced(r) /\ rpc[r] = "swap" /\ UNCHANGED <<head, reader>>
        /\ h \in Page /\ p \in Page /\ reader \in Page
    BY <1>7, ReadLocalsFields DEF SwapHead, HoldsRead, Spliced, TypeOK
  <2>2. PICK pc \in ReaderPC : ReadGoto(r, pc)
    BY <1>7 DEF SwapHead, EndTurn, NextTurn, ReaderPC
  <2>3. \A q \in Readers : ~Spliced(q)
    BY <2>1, <2>2, OthersOut
  <2>4. /\ PermutesAllBut(reader) /\ head # reader /\ \A q \in Page : next[q].to # q
        /\ head = h /\ next[h] = rd[r].next /\ next[reader].to = next[h].to
        /\ rd[r].old_next.to # reader
    BY <2>1, <2>3 DEF Topology, ViewOf, RingPermutation
  <2>5. CASE next[p] = FlagOn(h)
    <3>1. /\ next' = [next EXCEPT ![p] = FlagOff(reader)]
          /\ ReadGoto(r, "head") /\ UNCHANGED rd
      BY <1>7, <2>5 DEF SwapHead
    <3>2. /\ \A q \in Page \ {h} : next'[q].to \in Page \ {h}
          /\ \A q, s \in Page \ {h} : next'[q].to = next'[s].to => q = s
          /\ \A q \in Page : next'[q].to # q
          /\ next'[h] = next[h]
      <4>1. next[p].to = h /\ h # reader /\ next \in [Page -> Link]
        <5>1. next[p].to = h
          BY <2>5, FlagTo
        <5>. QED
          BY <2>4, <5>1 DEF TypeOK
      <4>. HIDE DEF h, p
      <4>. QED
        BY <2>1, <2>4, <3>1, <4>1, Splice
    <3>3. /\ rpc'[r] = "head"
          /\ \A q \in Readers \ {r} : ViewOf(q)' /\ ~Spliced(q)'
      BY <2>1, <3>1, OthersOut DEF ReaderPC
    <3>4. ViewOf(r)' /\ Spliced(r)'
      BY <2>1, <2>4, <3>1, <3>2, <3>3 DEF ViewOf, Spliced
    <3>5. PermutesAllBut(rd[r].head)'
      BY <3>1, <3>2 DEF PermutesAllBut
    <3>. QED
      BY <3>1, <3>2, <3>3, <3>4, <3>5 DEF Topology, RingPermutation
  <2>6. CASE next[p] # FlagOn(h)
    <3>1. next' = [next EXCEPT ![reader] = rd[r].old_next] /\ EndTurn(r)
      BY <1>7, <2>6 DEF SwapHead
    <3>2. PICK k \in {"idle", "lock"} : ReadGoto(r, k)
      BY <3>1 DEF EndTurn, NextTurn
    <3>3. /\ \A q \in Page \ {reader} : next'[q] = next[q]
          /\ next'[reader].to # reader
      BY <2>1, <2>4, <3>1 DEF TypeOK
    <3>. QED
      BY <2>1, <3>2, <3>3, GiveUp
  <2>. QED
    BY <2>5, <2>6
<1>8. CASE AdvanceHead(r)
  <2>1. /\ HoldsRead(r) /\ Spliced(r) /\ ReadGoto(r, "take") /\ "take" \in ReaderPC
        /\ UNCHANGED <<reader, next, rd>> /\ rpc[r] = "head"
        /\ head' = IF head = rd[r].head THEN rd[r].next.to ELSE head
    BY <1>8 DEF AdvanceHead, HoldsRead, Spliced, ReaderPC
  <2>2. head' = next[rd[r].head].to /\ head' # rd[r].head
    BY <2>1, ReadLocalsFields DEF Topology, ViewOf, RingPermutation, TypeOK
  <2>3. rpc'[r] = "take" /\ \A q \in Readers \ {r} : ViewOf(q)' /\ ~Spliced(q)'
    BY <2>1, OthersOut
  <2>4. ViewOf(r)' /\ Spliced(r)'
    BY <2>1, <2>2, <2>3 DEF ViewOf, Spliced
  <2>. QED
    <3>1. /\ PermutesAllBut(rd[r].head) /\ \A p \in Page : next[p].to # p
      BY <2>1 DEF Topology, RingPermutation
    <3>2. PermutesAllBut(rd[r].head)' /\ \A p \in Page : next'[p].to # p
      BY <2>1, <3>1 DEF PermutesAllBut
    <3>3. (\A q \in Readers : ViewOf(q)') /\ \A q \in Readers : Spliced(q)' => q = r
      BY <2>3, <2>4
    <3>. QED
      BY <2>4, <3>2, <3>3 DEF Topology, RingPermutation
<1>9. CASE TakePage(r)
  <2>1. /\ HoldsRead(r) /\ Spliced(r) /\ rpc[r] = "take"
        /\ reader' = rd[r].head /\ UNCHANGED <<head, next>>
    BY <1>9 DEF TakePage, HoldsRead, Spliced
  <2>2. PICK pc \in {"idle", "lock", "clear"} : ReadGoto(r, pc)
    BY <1>9 DEF TakePage, EndTurn, NextTurn
  <2>3. pc \in ReaderPC
    BY DEF ReaderPC
  <2>4. \A q \in Readers : ViewOf(q)' /\ ~Spliced(q)'
    BY <2>1, <2>2, <2>3, OthersOut DEF ViewOf, Spliced
  <2>5. /\ PermutesAllBut(rd[r].head) /\ head # rd[r].head
        /\ \A q \in Page : next[q].to # q
    BY <2>1 DEF Topology, RingPermutation, ViewOf
  <2>. QED
    BY <2>1, <2>4, <2>5 DEF Topology, RingPermutation, PermutesAllBut
<1>10. ASSUME ClearValue(r) \/ SnapTail(r) \/ RecheckTail(r) \/ SetEmpty(r)
       PROVE  Topology'
  <2>1. /\ HoldsRead(r) /\ ~Spliced(r) /\ UNCHANGED <<head, reader, next>>
    BY <1>10 DEF ClearValue, SnapTail, RecheckTail, SetEmpty, HoldsRead, Spliced
  <2>2. CASE \E pc \in {"snap_tail", "recheck_tail", "set_empty"} : ReadGoto(r, pc)
    <3>1. PICK pc \in {"snap_tail", "recheck_tail", "set_empty"} : ReadGoto(r, pc)
      BY <2>2
    <3>2. pc \in ReaderPC
      BY DEF ReaderPC
    <3>3. ViewOf(r)'
      BY <2>1, <3>1, <3>2, OthersOut DEF ViewOf
    <3>. QED
      BY <2>1, <3>1, <3>2, <3>3, MoveOn
  <2>. QED
    BY <1>3, <1>10, <2>1, <2>2 DEF ClearValue, SnapTail, RecheckTail, SetEmpty
<1>. QED
  BY <1>1, <1>2, <1>4, <1>5, <1>6, <1>7, <1>8, <1>9, <1>10 DEF ReadStep

(* A writer keeps the ring, overwriting the head page or not.              *)
LEMMA WriterTopology ==
  ASSUME TypeOK, LockDiscipline, Topology, NEW w \in Writers, CallWrite(w) \/ WriteStep(w)
  PROVE  Topology'
<1>1. UNCHANGED <<rpc, rd, reader>>
  BY SidesApart
<1>2. CASE UNCHANGED <<head, next>>
  BY <1>1, <1>2 DEF Topology, ViewOf, RingPermutation, Spliced, PermutesAllBut
<1>3. CASE Overwrite(w)
  <2>1. \A r \in Readers : ~HoldsRead(r)
    <3>1. read_sync = 0
      BY <1>3 DEF Overwrite
    <3>. QED
      BY <3>1 DEF LockDiscipline
  <2>2. \A r \in Readers : ViewOf(r)' /\ ~Spliced(r) /\ ~Spliced(r)'
    BY <1>1, <2>1 DEF HoldsRead, ViewOf, Spliced
  <2>3. PermutesAllBut(reader) /\ head # reader /\ head \in Page
    BY <2>2 DEF Topology, RingPermutation, TypeOK
  <2>4. next[head].to \in Page \ {reader}
    BY <2>3 DEF PermutesAllBut
  <2>5. head' \in {head, next[head].to}
    BY <1>3 DEF Overwrite
  <2>6. \A p \in Page : next'[p].to = next[p].to
    <3>1. CASE UNCHANGED next
      BY <3>1
    <3>2. CASE next' = [next EXCEPT ![head] = FlagOn(@.to),
                          ![wr[w].temp] = IF @ = FlagOn(head) THEN FlagOff(head) ELSE @]
      <4>1. wr[w].temp \in Page
        BY WriteLocalsFields DEF TypeOK
      <4>2. FlagOn(head).to = head /\ FlagOff(head).to = head
            /\ FlagOn(next[head].to).to = next[head].to
        BY DEF FlagOn, FlagOff
      <4>. QED
        BY <2>3, <3>2, <4>1, <4>2 DEF TypeOK
    <3>. QED
      BY <1>3, <3>1, <3>2 DEF Overwrite
  <2>7. PermutesAllBut(reader)' /\ \A p \in Page : next'[p].to # p
    BY <1>1, <2>3, <2>6 DEF PermutesAllBut, Topology, RingPermutation
  <2>. QED
    BY <1>1, <2>2, <2>3, <2>4, <2>5, <2>7 DEF Topology, RingPermutation
<1>. QED
  BY <1>2, <1>3 DEF WriteStep, CallWrite, LockWrite, RelockWrite, LoadTail, ReadHead,
     CheckFlag, CheckNotEmpty, Full, OverwriteBusy, Backoff, RecheckFlag, CasTail,
     StoreValue, SetNotEmpty, CommitWrite, pages, ring

(* Every step keeps the ring.                                              *)
LEMMA TopologyStep ==
  TypeOK /\ LockDiscipline /\ Topology /\ [Next]_vars => Topology'
<1> SUFFICES ASSUME TypeOK, LockDiscipline, Topology, [Next]_vars PROVE Topology'
  OBVIOUS
<1>1. ASSUME UNCHANGED <<ring, readLocals>> PROVE Topology'
  BY <1>1 DEF ring, pages, readLocals, Topology, ViewOf, RingPermutation, Spliced,
     PermutesAllBut
<1>. QED
  BY <1>1, ReaderTopology, WriterTopology DEF Next, SetMode, Destroy, vars

(* The ring: whatever readers and writers do, in both modes and for any    *)
(* Size, no page is lost from the ring and none enters it twice.           *)
THEOREM RingPreserved == Spec => []RingPermutation
<1>1. Init => TypeOK /\ LockDiscipline /\ Topology
  BY TypeOKInit, LocksInit, TopologyInit
<1>2. /\ TypeOK /\ LockDiscipline /\ Topology /\ [Next]_vars
      => (TypeOK /\ LockDiscipline /\ Topology)'
  BY TypeOKStep, LocksStep, TopologyStep
<1>3. Topology => RingPermutation
  BY DEF Topology
<1>. QED
  BY <1>1, <1>2, <1>3, PTL DEF Spec

-----------------------------------------------------------------------------
(* The writers' snapshots and the skip at rqueue.c:488 *)

Moved(w) == wpc[w] \in {"store", "not_empty", "commit"}

(* What the writer in the critical section knows of commit and tail.       *)
WriteViewOf(w) ==
  HoldsWrite(w) /\ wpc[w] # "load" =>
    /\ commit = wr[w].commit
    /\ wr[w].next # wr[w].temp
    /\ tail = IF Moved(w) THEN wr[w].next ELSE wr[w].temp

(* Before the first write: nothing to read, nobody reading, not full.      *)
Untouched ==
  /\ head = tail /\ is_empty = 1 /\ ~next[tail].head
  /\ \A r \in Readers : rpc[r] \in {"idle", "lock", "check"}
  /\ \A w \in Writers : wpc[w] \notin {"check_empty", "full", "overwrite", "backoff"}
  /\ \A w \in Writers : wpc[w] = "check_flag" => wr[w].head = head

(* The inductive invariant: commit stands on tail only before the first    *)
(* write.                                                                  *)
WriterSide ==
  /\ \A w \in Writers : WriteViewOf(w)
  /\ (\A w \in Writers : ~Moved(w)) /\ commit = tail => Untouched

(* In a new queue no write is under way.                                   *)
LEMMA WriterSideInit == Init => WriterSide
<1> SUFFICES ASSUME Init PROVE WriterSide
  OBVIOUS
<1>1. ~next[tail].head
  BY RQueueAssumption DEF Init, Page, FlagOff
<1>. QED
  BY <1>1 DEF Init, WriterSide, WriteViewOf, HoldsWrite, Untouched

(* A step of a reader leaves what writers know true.                       *)
LEMMA WriterSideReader ==
  ASSUME TypeOK, WriterSide, NEW r \in Readers, CallRead(r) \/ ReadStep(r)
  PROVE  WriterSide'
<1>1. UNCHANGED <<wpc, wr, tail, commit>>
  BY SidesApart
<1>2. \A w \in Writers : WriteViewOf(w)' /\ (Moved(w)' <=> Moved(w))
  BY <1>1 DEF WriterSide, WriteViewOf, HoldsWrite, Moved
<1>3. ASSUME Untouched PROVE Untouched'
  <2>1. rpc[r] \in {"idle", "lock", "check"} /\ is_empty = 1
    BY <1>3 DEF Untouched
  <2>2. CallRead(r) \/ LockRead(r) \/ LockReadBusy(r) \/ CheckEmpty(r)
    BY <2>1 DEF ReadStep, Validate, LinkReader, SwapHead, AdvanceHead, TakePage,
       ClearValue, SnapTail, RecheckTail, SetEmpty
  <2>3. UNCHANGED <<head, next, is_empty>>
    BY <2>2 DEF CallRead, LockRead, LockReadBusy, CheckEmpty, ring, pages, status
  <2>4. \E pc \in {"idle", "lock", "check"} : ReadGoto(r, pc)
    BY <2>1, <2>2 DEF CallRead, LockRead, LockReadBusy, CheckEmpty, NothingToRead,
       EndTurn, NextTurn
  <2>5. \A q \in Readers : rpc'[q] \in {"idle", "lock", "check"}
    BY <1>3, <2>4 DEF Untouched, ReadGoto, TypeOK
  <2>. QED
    BY <1>1, <1>3, <2>3, <2>5 DEF Untouched
<1>. QED
  BY <1>1, <1>2, <1>3 DEF WriterSide

(* While one writer holds write_sync the others are not past it.           *)
LEMMA OthersAway ==
  ASSUME TypeOK, LockDiscipline, NEW w \in Writers, HoldsWrite(w),
         NEW pc \in WriterPC, WriteGoto(w, pc)
  PROVE  /\ \A x \in Writers \ {w} : /\ wpc'[x] = wpc[x]
                                    /\ wpc[x] \in {"idle", "lock", "relock"}
                                    /\ WriteViewOf(x)' /\ ~Moved(x) /\ ~Moved(x)'
         /\ wpc'[w] = pc
<1>1. wpc'[w] = pc /\ \A x \in Writers \ {w} : wpc'[x] = wpc[x]
  BY DEF WriteGoto, TypeOK
<1>2. \A x \in Writers \ {w} : ~HoldsWrite(x)
  BY DEF LockDiscipline
<1>. QED
  BY <1>1, <1>2 DEF HoldsWrite, WriteViewOf, Moved

(* A writer that has not moved tail takes a step that leaves tail and      *)
(* commit alone.                                                           *)
LEMMA WriterStays ==
  ASSUME TypeOK, LockDiscipline, WriterSide, NEW w \in Writers, HoldsWrite(w), ~Moved(w),
         NEW pc \in WriterPC, WriteGoto(w, pc), UNCHANGED <<rpc, tail, commit>>,
         WriteViewOf(w)', pc \notin {"store", "not_empty", "commit"},
         Untouched => /\ UNCHANGED <<head, next, is_empty>>
                      /\ pc \notin {"check_empty", "full", "overwrite", "backoff"}
                      /\ pc = "check_flag" => wr'[w].head = head
  PROVE  WriterSide'
<1>1. /\ \A x \in Writers : WriteViewOf(x)' /\ ~Moved(x) /\ ~Moved(x)'
      /\ wpc'[w] = pc
      /\ \A x \in Writers \ {w} : wpc'[x] \in {"idle", "lock", "relock"}
  BY OthersAway DEF Moved
<1>2. Untouched => Untouched'
  BY <1>1 DEF Untouched
<1>. QED
  BY <1>1, <1>2 DEF WriterSide

(* A writer outside the critical section, or entering it.                  *)
LEMMA WriterOutside ==
  ASSUME TypeOK, WriterSide, NEW w \in Writers, ~HoldsWrite(w),
         NEW pc \in {"idle", "lock", "relock", "load"}, WriteGoto(w, pc),
         UNCHANGED <<ring, is_empty, rpc>>,
         \A x \in Writers \ {w} : wr'[x] = wr[x]
  PROVE  WriterSide'
<1>1. wpc'[w] = pc /\ \A x \in Writers \ {w} : wpc'[x] = wpc[x]
  BY DEF WriteGoto, TypeOK
<1>2. \A x \in Writers : WriteViewOf(x)' /\ (Moved(x)' <=> Moved(x))
  BY <1>1 DEF WriterSide, WriteViewOf, HoldsWrite, Moved, ring
<1>3. Untouched => Untouched'
  BY <1>1 DEF Untouched, ring, pages
<1>. QED
  BY <1>2, <1>3 DEF WriterSide, ring

(* A step of a writer keeps what all the writers know true.                *)
LEMMA WriterSideWriter ==
  ASSUME TypeOK, LockDiscipline, Topology, WriterSide,
         NEW w \in Writers, CallWrite(w) \/ WriteStep(w)
  PROVE  WriterSide'
<1> USE DEF pages, ring, status, sync, readLocals
<1>1. ASSUME LoopCondition(w) \/ Wait(w) \/ WriteReturn(w), HoldsWrite(w), ~Moved(w),
             UNCHANGED <<rpc, tail, commit>>,
             Untouched => UNCHANGED <<head, next, is_empty>>
      PROVE  WriterSide'
  <2>1. PICK pc \in {"idle", "relock", "load"} : WriteGoto(w, pc)
    BY <1>1 DEF LoopCondition, Wait, WriteReturn
  <2>2. pc \in WriterPC /\ pc \notin {"store", "not_empty", "commit"}
    BY DEF WriterPC
  <2>3. WriteViewOf(w)'
    BY <2>1 DEF WriteGoto, TypeOK, WriteViewOf, HoldsWrite
  <2>. QED
    BY <1>1, <2>1, <2>2, <2>3, WriterStays
<1>2. CASE CallWrite(w)
  BY <1>2, WriterOutside DEF CallWrite, HoldsWrite
<1>3. CASE LockWrite(w)
  BY <1>3, WriterOutside DEF LockWrite, HoldsWrite
<1>4. CASE RelockWrite(w)
  <2>1. PICK pc \in {"idle", "load"} : WriteGoto(w, pc)
    BY <1>4 DEF RelockWrite
  <2>2. \A x \in Writers \ {w} : wr'[x] = wr[x]
    BY <1>4 DEF RelockWrite, TypeOK
  <2>. QED
    BY <1>4, <2>1, <2>2, WriterOutside DEF RelockWrite, HoldsWrite
<1>5. CASE LoadTail(w)
  <2>1. /\ HoldsWrite(w) /\ ~Moved(w) /\ WriteGoto(w, "read_head") /\ "read_head" \in WriterPC
        /\ UNCHANGED <<head, next, is_empty, rpc, tail, commit>>
    BY <1>5 DEF LoadTail, HoldsWrite, Moved, WriterPC
  <2>2. wr'[w].temp = tail /\ wr'[w].commit = commit /\ wr'[w].next = next[tail].to
    BY <1>5 DEF LoadTail, TypeOK
  <2>3. next[tail].to # tail
    BY DEF Topology, RingPermutation, TypeOK
  <2>4. WriteViewOf(w)'
    BY <2>1, <2>2, <2>3, OthersAway DEF WriteViewOf, Moved
  <2>. QED
    BY <2>1, <2>4, WriterStays
<1>6. CASE ReadHead(w)
  <2>1. /\ HoldsWrite(w) /\ ~Moved(w) /\ wpc[w] = "read_head"
        /\ UNCHANGED <<head, next, is_empty, rpc, commit>>
    BY <1>6 DEF ReadHead, HoldsWrite, Moved
  <2>2. commit = wr[w].commit /\ tail = wr[w].temp /\ wr[w].next # wr[w].temp
    BY <2>1 DEF WriterSide, WriteViewOf
  <2>3. \A x \in Writers : ~Moved(x)
    BY <2>1 DEF LockDiscipline, HoldsWrite, Moved
  <2>4. ~TailOnCommit(w)
    BY <2>2, <2>3 DEF TailOnCommit, WriterSide, Untouched
  <2>5. /\ wr' = [wr EXCEPT ![w].head = head]
        /\ WriteGoto(w, "check_flag")
        /\ UNCHANGED tail
    BY <1>6, <2>2, <2>4 DEF ReadHead, WriterSnapshotValid
  <2>6. /\ wr'[w].temp = wr[w].temp /\ wr'[w].commit = wr[w].commit
        /\ wr'[w].next = wr[w].next /\ wr'[w].head = head
    BY <2>5 DEF TypeOK, WriterLocals
  <2>7. WriteViewOf(w)' /\ "check_flag" \in WriterPC
    BY <2>1, <2>2, <2>5, <2>6, OthersAway DEF WriteViewOf, Moved, WriterPC
  <2>. QED
    BY <2>1, <2>5, <2>6, <2>7, WriterStays
<1>7. ASSUME NEW pc \in {"check_empty", "full", "overwrite", "backoff", "recheck_flag",
                         "cas_tail"},
             WriteGoto(w, pc), HoldsWrite(w), ~Moved(w), wpc[w] # "load",
             Untouched => pc \in {"recheck_flag", "cas_tail"},
             UNCHANGED <<head, next, is_empty, rpc, tail, commit, wr>>
      PROVE  WriterSide'
  <2>1. pc \in WriterPC /\ pc \notin {"store", "not_empty", "commit"}
    BY DEF WriterPC
  <2>2. WriteViewOf(w)'
    BY <1>7, <2>1, OthersAway DEF WriterSide, WriteViewOf, Moved
  <2>. QED
    BY <1>7, <2>1, <2>2, WriterStays
<1>8. CASE CheckFlag(w)
  <2>1. /\ HoldsWrite(w) /\ ~Moved(w) /\ wpc[w] = "check_flag"
        /\ UNCHANGED <<head, next, is_empty, rpc, tail, commit, wr>>
    BY <1>8 DEF CheckFlag, HoldsWrite, Moved
  <2>2. PICK pc \in {"full", "check_empty", "recheck_flag"} : WriteGoto(w, pc)
    BY <1>8 DEF CheckFlag
  <2>3. ASSUME Untouched PROVE pc = "recheck_flag"
    <3>1. ~next[wr[w].temp].head /\ wr[w].next # wr[w].head
      BY <2>1, <2>3 DEF Untouched, WriterSide, WriteViewOf
    <3>2. WriteGoto(w, "recheck_flag")
      BY <1>8, <3>1 DEF CheckFlag
    <3>. QED
      BY <2>2, <3>2 DEF WriteGoto, TypeOK
  <2>. QED
    BY <1>7, <2>1, <2>2, <2>3
<1>9. CASE CheckNotEmpty(w)
  <2>1. PICK pc \in {"full", "recheck_flag"} : WriteGoto(w, pc)
    BY <1>9 DEF CheckNotEmpty
  <2>. QED
    BY <1>7, <1>9, <2>1 DEF CheckNotEmpty, HoldsWrite, Moved, Untouched
<1>10. CASE Full(w)
  <2>1. PICK pc \in {"overwrite", "backoff"} : WriteGoto(w, pc)
    BY <1>10 DEF Full
  <2>. QED
    BY <1>7, <1>10, <2>1 DEF Full, HoldsWrite, Moved, Untouched
<1>11. CASE OverwriteBusy(w)
  BY <1>7, <1>11 DEF OverwriteBusy, HoldsWrite, Moved, Untouched
<1>12. CASE Overwrite(w)
  BY <1>1, <1>12 DEF Overwrite, HoldsWrite, Moved, Untouched
<1>13. CASE Backoff(w)
  BY <1>1, <1>13 DEF Backoff, HoldsWrite, Moved
<1>14. CASE RecheckFlag(w)
  BY <1>1, <1>7, <1>14 DEF RecheckFlag, HoldsWrite, Moved
<1>15. CASE CasTail(w)
  <2>1. HoldsWrite(w) /\ wpc[w] = "cas_tail" /\ ~Moved(w)
    BY <1>15 DEF CasTail, HoldsWrite, Moved
  <2>2. tail = wr[w].temp /\ commit = wr[w].commit /\ wr[w].next # wr[w].temp
    BY <2>1 DEF WriterSide, WriteViewOf, Moved
  <2>3. tail' = wr[w].next /\ WriteGoto(w, "store") /\ UNCHANGED <<wr, commit>>
    BY <1>15, <2>2 DEF CasTail
  <2>4. Moved(w)' /\ \A x \in Writers \ {w} : WriteViewOf(x)'
    BY <2>1, <2>3, OthersAway DEF Moved, WriterPC
  <2>5. WriteViewOf(w)'
    BY <2>2, <2>3, <2>4 DEF WriteViewOf
  <2>. QED
    BY <2>4, <2>5 DEF WriterSide
<1>16. ASSUME StoreValue(w) \/ SetNotEmpty(w) PROVE WriterSide'
  <2>1. HoldsWrite(w) /\ Moved(w) /\ wpc[w] # "load" /\ UNCHANGED <<wr, tail, commit>>
    BY <1>16 DEF StoreValue, SetNotEmpty, HoldsWrite, Moved
  <2>2. PICK pc \in {"not_empty", "commit"} : WriteGoto(w, pc)
    BY <1>16 DEF StoreValue, SetNotEmpty
  <2>3. pc \in WriterPC
    BY DEF WriterPC
  <2>4. Moved(w)' /\ \A x \in Writers \ {w} : WriteViewOf(x)'
    BY <2>1, <2>2, <2>3, OthersAway DEF Moved
  <2>5. WriteViewOf(w)'
    BY <2>1, <2>4 DEF WriterSide, WriteViewOf
  <2>. QED
    BY <2>4, <2>5 DEF WriterSide
<1>17. CASE CommitWrite(w)
  <2>1. HoldsWrite(w) /\ Moved(w) /\ wpc[w] # "load" /\ WriteGoto(w, "idle") /\ UNCHANGED tail
    BY <1>17 DEF CommitWrite, WriteReturn, HoldsWrite, Moved
  <2>2. tail = wr[w].next /\ wr[w].next # wr[w].temp
    BY <2>1 DEF WriterSide, WriteViewOf
  <2>3. num_writers = 1
    BY <2>1 DEF LockDiscipline
  <2>4. commit' # tail'
    BY <1>17, <2>1, <2>2, <2>3 DEF CommitWrite
  <2>5. wpc'[w] = "idle" /\ \A x \in Writers \ {w} : WriteViewOf(x)'
    BY <2>1, OthersAway DEF WriterPC
  <2>6. WriteViewOf(w)'
    BY <2>5 DEF WriteViewOf, HoldsWrite
  <2>. QED
    BY <2>4, <2>5, <2>6 DEF WriterSide
<1>. QED
  BY <1>2, <1>3, <1>4, <1>5, <1>6, <1>8, <1>9, <1>10, <1>11, <1>12, <1>13, <1>14, <1>15,
     <1>16, <1>17 DEF WriteStep

(* The inductive invariant of the ring buffer.                             *)
Inv == TypeOK /\ LockDiscipline /\ Topology /\ WriterSide

(* The inductive invariant is preserved by every step.                     *)
LEMMA InvStep == Inv /\ [Next]_vars => Inv'
<1> SUFFICES ASSUME Inv, [Next]_vars PROVE Inv'
  OBVIOUS
<1>1. TypeOK' /\ LockDiscipline' /\ Topology'
  BY TypeOKStep, LocksStep, TopologyStep DEF Inv
<1>2. ASSUME UNCHANGED <<ring, is_empty, readLocals, writeLocals>> PROVE WriterSide'
  BY <1>2 DEF Inv, ring, pages, readLocals, writeLocals, WriterSide, WriteViewOf,
     HoldsWrite, Moved, Untouched
<1>3. WriterSide'
  BY <1>2, WriterSideReader, WriterSideWriter
     DEF Inv, Next, SetMode, Destroy, vars, status
<1>. QED
  BY <1>1, <1>3 DEF Inv

(* The inductive invariant holds in every reachable state of rqueue.c's    *)
(* reads and writes.                                                       *)
THEOREM Invariance == Spec => []Inv
<1>1. Init => Inv
  BY TypeOKInit, LocksInit, TopologyInit, WriterSideInit DEF Inv
<1>. QED
  BY <1>1, InvStep, PTL DEF Spec

(* Snapshots: what a reader read of head and the reader page, and a writer *)
(* of tail and commit, is still true when it is used; so VALIDATION POINTS *)
(* 2, 3 and 4 of rqueue.c and the CAS of tail never fail.                  *)
THEOREM SnapshotsStayTrue == Spec => []SnapshotsHold
<1>1. Inv => SnapshotsHold
  <2> SUFFICES ASSUME Inv PROVE SnapshotsHold
    OBVIOUS
  <2>1. ASSUME NEW r \in Readers,
               rpc[r] \in {"check", "validate", "link", "swap", "head"}
        PROVE  /\ head = rd[r].head
               /\ rpc[r] # "swap" /\ rpc[r] # "head" => next[reader] = rd[r].old_next
    BY <2>1 DEF Inv, Topology, ViewOf
  <2>2. ASSUME NEW w \in Writers, HoldsWrite(w), wpc[w] # "load"
        PROVE  /\ commit = wr[w].commit
               /\ wpc[w] \notin {"store", "not_empty", "commit"} => tail = wr[w].temp
               /\ num_writers = 1
    BY <2>2 DEF Inv, WriterSide, WriteViewOf, Moved, LockDiscipline
  <2>. QED
    BY <2>1, <2>2 DEF SnapshotsHold
<1>. QED
  BY <1>1, Invariance, PTL

(* The skip at rqueue.c:488, and the -2 it may lead to, are never reached: *)
(* from the first write on, tail and commit stand on different pages.      *)
THEOREM SkipUnreachable == Spec => []TailLeavesCommit
<1>1. Inv => TailLeavesCommit
  <2> SUFFICES ASSUME Inv, NEW w \in Writers, wpc[w] = "read_head", TailOnCommit(w)
               PROVE  FALSE
    BY DEF TailLeavesCommit
  <2>1. HoldsWrite(w) /\ commit = wr[w].commit /\ tail = wr[w].temp
    BY DEF Inv, WriterSide, WriteViewOf, HoldsWrite, Moved
  <2>2. \A x \in Writers : ~Moved(x)
    BY <2>1 DEF Inv, LockDiscipline, HoldsWrite, Moved
  <2>. QED
    BY <2>1, <2>2 DEF Inv, WriterSide, Untouched, TailOnCommit
<1>. QED
  BY <1>1, Invariance, PTL

=============================================================================
