CONSTANTS
  Buffers = {b1}
  Octets = {x, y}
  Size = 3
  MaxLen = 5
  Careful = TRUE
SPECIFICATION Spec
SYMMETRY Alike
PROPERTIES
  ImplementsByteFifo
  FindMissesNothing
