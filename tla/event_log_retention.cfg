SPECIFICATION Spec
CHECK_DEADLOCK FALSE
CONSTANTS
  NumPartitions = 1
  Consumers = {c1}
  Keys = {k}
  Hash <- ToLast
  MaxRecords = 2
  MaxMoves = 1
  MaxTrims = 1
INVARIANT NothingSkipped
