SPECIFICATION Spec
CONSTANTS
  Procs = {p1, p2}
  First = p1
  Files = {f1}
  Mem = {m1}
  Page = Page
  Null = Null
  MaxOpen = 5
  MaxFds = 5
  MaxCnts = 3
  Uses = {"files"}
  Std = {}
INVARIANTS FdUsable
