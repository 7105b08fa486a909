SPECIFICATION FairSpec
CONSTANTS
  Peers = {c1, c2}
  Fds = {1, 2}
  Scarce = FALSE
  MaxRoutines = 2
  ReadTimeout = 1
  WriteTimeout = 1
  RespLen = 2
  FileLen = 1
  Room = 1
  MaxConnects = 1
  MaxRequests = 2
  HangUps = {}
  EraseInLoop = {"continue", "stop"}
CHECK_DEADLOCK FALSE
INVARIANTS
  OwnRoutine
  SweepMeetsTimedOut

  
  
