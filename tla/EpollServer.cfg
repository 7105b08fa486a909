SPECIFICATION FairSpec
CONSTANTS
  Peers = {c1, c2, c3}
  LongAddr = {c3}
  Fds = {1, 2}
  Callbacks = {"echo", "other"}
  Full = 2
  Room = 1
  MaxConnects = 1
  MaxUnread = 2
  MaxCalls = 2
  MaxInits = 1
CHECK_DEADLOCK FALSE
INVARIANTS
  SocketsOwned
  EchoStaysUp
PROPERTY HangUpCleansUp
