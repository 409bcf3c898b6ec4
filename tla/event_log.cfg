SPECIFICATION FairSpec
CHECK_DEADLOCK FALSE
CONSTANTS
  NumPartitions = 3
  Consumers = {c1, c2}
  Keys = {k}
  Hash <- ToLast
  MaxRecords = 2
  MaxMoves = 4
  MaxTrims = 1
INVARIANTS EveryPartitionOwned AtLeastOnce
PROPERTIES ResumesFromCommitted EveryRecordHandled
