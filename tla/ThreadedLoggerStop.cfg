SPECIFICATION FairSpec
CONSTANTS
  NoOwner = nobody
  Threads = {main, t1}
  Main = main
  Worker = worker
  Levels = {1}
  MaxCalls = 1
  DirectCalls = FALSE
CHECK_DEADLOCK FALSE
PROPERTY StopReturns
