SPECIFICATION MCSpec
CONSTANTS
  NumNodes = 3
  BaseTimeout = 2
  Overrun = 0
  Commands = {x}
  Restartable = {1}
  Partitions <- EdgeSplits
  MaxTerm = 3
  MaxLog = 1
  MaxFaults = 2
  MaxCalm = 8
INVARIANT HealthyClusterRecovers
