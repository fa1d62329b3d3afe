CONSTANTS
  Readers = {r1, r2}
  Writers = {w1}
  Size = 2
  Modes = {"blocking", "overwrite"}
  ReaderMaxRetries = 2
  WriterCasMaxRetries = 2
  BlockingMaxRetries = 3
  MaxValues = 3
  MaxOutstanding = 9
  Serial = FALSE
SPECIFICATION FairSpec
PROPERTIES
  CallsEnd
CHECK_DEADLOCK FALSE
