CONSTANTS
  Readers = {r1, r2}
  Writers = {w1, w2}
  Size = 2
  Modes = {"blocking", "overwrite"}
  ReaderMaxRetries = 1
  WriterCasMaxRetries = 2
  BlockingMaxRetries = 3
  MaxValues = 6
  MaxOutstanding = 9
  Serial = FALSE
SPECIFICATION Spec
SYMMETRY Threads
INVARIANTS
  LockDiscipline
  SnapshotsHold
  TailLeavesCommit
  RingPermutation
  RingIntact
CHECK_DEADLOCK FALSE
