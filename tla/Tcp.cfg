SPECIFICATION FairSpec
CONSTANTS
  Programs = {"objects", "echo"}
  Objects = {o1, o2, o3}
  Fds = {1, 2, 3, 4}
  Length = 2
  MaxGarbage = 3
  MaxMessages = 4
  MaxTimeouts = 5
CHECK_DEADLOCK FALSE
INVARIANTS
  SocketsHeld
  InSync
PROPERTY AnsweredOrOver
