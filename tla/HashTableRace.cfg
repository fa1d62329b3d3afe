CONSTANTS
  Threads = {t1, t2}
  a = a
  b = b
  Keys = {a, b}
  Values = {v}
  NULL = NULL
  Absent = Absent
  Hash <- MCHash
  Requests <- MCRequests
  InitSize = 1
  MaxSize = 2
  ListIds = {1, 2, 3, 4}
  Careful = FALSE
SPECIFICATION Spec
SYMMETRY Alike
INVARIANT Findable
