SPECIFICATION Spec
CONSTANTS
  Peers = {c1, c2}
  Fds = {1, 2}
  Scarce = TRUE
  MaxRoutines = 2
  ReadTimeout = 1
  WriteTimeout = 2
  RespLen = 2
  FileLen = 1
  Room = 1
  MaxConnects = 2
  MaxRequests = 1
  HangUps = {"fin", "rst"}
  EraseInLoop = {"continue", "stop", "abort"}
SYMMETRY PeerSymmetry
CHECK_DEADLOCK FALSE
INVARIANTS
  NoLeakedFd
  PoolConsistent
  FlagsSound
