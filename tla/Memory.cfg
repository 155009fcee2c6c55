SPECIFICATION Spec
CONSTANTS
  Procs = {p1, p2}
  Init1 = p1
  NFrames = 2
  ByteBits = 2
  NBytes = 3
  Blocks = 2
  MaxLarge = 2
  MaxSegment = 2
  None = None
CHECK_DEADLOCK FALSE
INVARIANTS PagesExact  OnlyTaintedFail ScanExact
