SPECIFICATION FairSpec
CONSTANTS
  Limits = {0, 1, 3}
  MaxThreads = 2
  MaxArrivals = 2
CHECK_DEADLOCK FALSE
INVARIANTS
  
  RefusedNeverOk
  RequestRead
PROPERTY ShutdownEnds
