SPECIFICATION Spec
CONSTANTS
  Fds = {d1, d2}
  BlockSize = 2
  Direct = 2
  Indirect = 2
  NBlocks = 5
  BitsPerSector = 2
  Word = 32
  Counts = {0, 1, 3}
  MaxRestarts = 1
  Offsets <- MCOffsets
INVARIANTS FileAsserts
PROPERTIES IsByteFile
SYMMETRY Interchangeable
CHECK_DEADLOCK FALSE
