SPECIFICATION FairSpec
CONSTANTS
  Peers = {c1}
  Fds = {1}
  Scarce = FALSE
  MaxRoutines = 2
  ReadTimeout = 2
  WriteTimeout = 2
  RespLen = 1
  FileLen = 0
  Room = 1
  MaxConnects = 1
  MaxRequests = 1
  HangUps = {"fin"}
  EraseInLoop = {"continue", "stop"}
CHECK_DEADLOCK FALSE
PROPERTY RoutineReleased
