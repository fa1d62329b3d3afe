SPECIFICATION Spec
INVARIANTS
  ListOneChain
  
  ListSortRight
  BufRight
  HeapsRight
  TreesRight
  SkipListRight
  
  GraphSound
  KeysOrdered
