SPECIFICATION Spec
CONSTANTS
  NumNodes = 3
  BaseTimeout = 2
  Overrun = 0
  Commands = {x}
  Restartable = {1, 2, 3}
  Partitions <- AllSplits
  MaxTerm = 2
  MaxLog = 0
  MaxFaults = 3
INVARIANT ElectionSafety
