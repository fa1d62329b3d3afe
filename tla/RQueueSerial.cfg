CONSTANTS
  Readers = {r1, r2}
  Writers = {w1, w2}
  Size = 2
  Modes = {"blocking", "overwrite"}
  ReaderMaxRetries = 1
  WriterCasMaxRetries = 2
  BlockingMaxRetries = 3
  MaxValues = 5
  MaxOutstanding = 9
  Serial = TRUE
SPECIFICATION Spec
SYMMETRY Threads
INVARIANTS
  EmptyFlagHonest
  NothingLeaks
  TurnedAwayOnlyWhenFull
PROPERTIES
  ImplementsFifo
CHECK_DEADLOCK FALSE
