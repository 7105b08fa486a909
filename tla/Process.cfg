SPECIFICATION FairSpec
CONSTANTS
  Objects = {o1, o2}
  Length = 1
  Capacity = 1
  MaxChildren = 2
  MaxFrames = 2
CHECK_DEADLOCK FALSE
INVARIANT ChildrenOwned
PROPERTIES
  ExchangeReturns
  ClosedStdinEnds
