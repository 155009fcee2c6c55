SPECIFICATION FairSpec
CONSTANTS
  Threads = {main, init, p1, p2, idle}
  Main = main
  InitThread = init
  Idle = idle
  Priority <- NoTick
  MaxPid = 5
  Sleepers = {main, p1, p2}
INVARIANTS PidsUnique ParentAlive WaiterHasNoZombie
PROPERTIES UsesScheduler WaitReturns
