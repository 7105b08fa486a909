SPECIFICATION FairSpec
CONSTANTS
  DataKeys = {1, 2, 3, 5}
  Queries = {0, 1, 2, 3, 4, 5, 6}
  MaxEntries = 5
  PartitionSizes = {1, 2, 3, 4}
  Page = 2
  WindowPages = 1
  MaxStarts = 2
CHECK_DEADLOCK FALSE
INVARIANTS
  NoWildRead
  MergeSorts
  AnswersRight
  AnswersFromCache
PROPERTY SearchReturns
