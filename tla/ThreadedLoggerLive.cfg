SPECIFICATION FairSpec
CONSTANTS
  NoOwner = nobody
  Threads = {main, t1}
  Main = main
  Worker = worker
  Levels = {1}
  MaxCalls = 2
  DirectCalls = TRUE
CHECK_DEADLOCK FALSE
PROPERTIES
  Delivery
  StopHangsOnlyOnEmptyQueue
