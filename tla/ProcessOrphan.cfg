SPECIFICATION FairSpec
CONSTANTS
  Threads = {main, init, p1, p2, p3, idle}
  Main = main
  InitThread = init
  Idle = idle
  Priority <- NoTick
  MaxPid = 5
  Sleepers = {}
PROPERTIES OrphanReaped
