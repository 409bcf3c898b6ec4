SPECIFICATION FallSpec
CONSTANTS
  NumNodes = 5
  BaseTimeout = 2
  Overrun = 0
  Commands = {x}
  Restartable <- NoNode
  Partitions <- Splits
  MaxTerm = 4
  MaxLog = 4
  MaxFaults = 5
PROPERTY CommitFallsOnlyWithLoss
CHECK_DEADLOCK FALSE
