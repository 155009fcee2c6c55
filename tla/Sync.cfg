SPECIFICATION FairSpec
CONSTANTS
  Threads = {main, init, p1, idle}
  Main = main
  InitThread = init
  Idle = idle
  Priority <- OneTick
  SysThreads = {p1}
  Locks = {l1}
  NoThread = NoThread
  MaxRepeat = 2
INVARIANTS TypeOK ReadyListExact NoPanic MutualExclusion LockExact WaitersExact NoLostWakeup
PROPERTIES UsesScheduler WaiterWoken ReadyRuns
