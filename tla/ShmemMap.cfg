SPECIFICATION FairSpec
CONSTANTS
  Procs = {p1, p2}
  Owner = p1
  Header = 1
  Size = 4
  Counts = {1, 2}
  NodeLen = 1
  Keys = {k1}
CHECK_DEADLOCK FALSE
INVARIANTS
  BlocksDisjoint
  OvershootBounded
  MapSemaphoreIsLock
  NodesLive
  AbortNeedsOvershoot
PROPERTY
  MapCallReturns
