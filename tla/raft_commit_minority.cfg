SPECIFICATION CrashStopSpec
CONSTANTS
  NumNodes = 3
  BaseTimeout = 2
  Overrun = 0
  Commands = {x}
  Restartable <- NoNode
  Partitions <- AllSplits
  MaxTerm = 2
  MaxLog = 1
  MaxFaults = 2
INVARIANT CommittedOnMajority
