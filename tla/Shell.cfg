SPECIFICATION ShellSpec
CONSTANTS
  Procs = {p1, p2, p3}
  First = p1
  Files = {}
  Mem = {}
  Page = Page
  Null = Null
  MaxOpen = 5
  MaxFds = 5
  MaxCnts = 2
  Uses = {"pipes"}
  Std = {0, 1}
  Keys <- MCKeys
  LineLen = 4
  QueueLen = 1
INVARIANTS LineAsTyped PromptClean
PROPERTIES PromptReturns
CHECK_DEADLOCK FALSE
