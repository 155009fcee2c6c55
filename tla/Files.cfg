SPECIFICATION Spec
CONSTANTS
  Procs = {p1, p2}
  First = p1
  Files = {f1, f2}
  Mem = {m1, m2}
  Page = Page
  Null = Null
  MaxOpen = 5
  MaxFds = 5
  MaxCnts = 2
  Uses = {"both", "pipes"}
  Std = {0}
INVARIANTS InodeAlive OpenListExact PipeAlive
SYMMETRY Interchangeable
CHECK_DEADLOCK FALSE
