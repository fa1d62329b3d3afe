CONSTANTS
  Readers = {r1, r2}
  Writers = {w1, w2}
  Size = 2
  Modes = {"blocking"}
  ReaderMaxRetries = 2
  WriterCasMaxRetries = 2
  BlockingMaxRetries = 3
  MaxValues = 5
  MaxOutstanding = 2
  Serial = FALSE
SPECIFICATION Spec
SYMMETRY Threads
INVARIANTS
  FreedOnlyIfDropped
PROPERTIES
  ImplementsFifo
CHECK_DEADLOCK FALSE
