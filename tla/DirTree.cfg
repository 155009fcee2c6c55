SPECIFICATION Spec
CONSTANTS
  Names = {a, b, c}
  NInodes = 4
  NBlocks = 6
  PerBlock = 2
  Direct = 1
  Indirect = 2
  ByteValues = 256
  NSlots = 1
  MaxBlocks = 1
  MaxOpen = 2
SYMMETRY Symmetry
CHECK_DEADLOCK FALSE
INVARIANTS TreeExact BlocksExact  OpenFileKept 
