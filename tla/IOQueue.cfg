SPECIFICATION IOFairSpec
CONSTANTS
  Threads = {main, init, p1, idle}
  Main = main
  InitThread = init
  Idle = idle
  Priority <- NoTick
  Locks = {qlock}
  NoThread = NoThread
  SysThreads = {init, p1}
  Readers = {init}
  MaxRepeat = 1
  Chars = {a, b}
  BufSize = 3
  MaxCount = 3
INVARIANTS WaiterSlotExact PipeReadNeverWaits
PROPERTIES IsFifo ReaderServed
