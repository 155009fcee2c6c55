SPECIFICATION IdeFairSpec
CONSTANTS
  Threads = {main, init, idle}
  Main = main
  InitThread = init
  Idle = idle
  Priority <- NoTick
  Locks = {channel}
  NoThread = NoThread
  SysThreads = {init}
  MaxRepeat = 1
  MaxCmds = 2
INVARIANTS TransferMatches AnswerComing
PROPERTIES  DiskServed
