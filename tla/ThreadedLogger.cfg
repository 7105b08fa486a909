SPECIFICATION Spec
CONSTANTS
  NoOwner = nobody
  Threads = {main, t1}
  Main = main
  Worker = worker
  Levels = {1, 2}
  MaxCalls = 2
  DirectCalls = FALSE
CHECK_DEADLOCK FALSE
INVARIANTS
  QueueIsFifo
  NoLostWakeup
  FlushedOnExit
  DrainNeverBlocks
  WholeLines
  CallerOrder
PROPERTY ImplementsLogChannel
