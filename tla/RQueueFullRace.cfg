CONSTANTS
  Readers = {r1}
  Writers = {w1}
  Size = 2
  Modes = {"blocking"}
  ReaderMaxRetries = 1
  WriterCasMaxRetries = 2
  BlockingMaxRetries = 3
  MaxValues = 6
  MaxOutstanding = 9
  Serial = FALSE
SPECIFICATION Spec
SYMMETRY Threads
INVARIANTS
  FreedOnlyIfDropped
CHECK_DEADLOCK FALSE
