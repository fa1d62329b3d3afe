CONSTANTS
  Buffers = {b1, b2}
  Octets = {x, y}
  Size = 2
  MaxLen = 3
  Careful = TRUE
SPECIFICATION Spec
SYMMETRY Alike
INVARIANTS
  OffsetsAgree
  
PROPERTIES
  TransferKeepsOctets
