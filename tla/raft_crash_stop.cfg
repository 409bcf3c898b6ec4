SPECIFICATION CrashStopSpec
CONSTANTS
  NumNodes = 3
  BaseTimeout = 1
  Overrun = 1
  Commands = {x}
  Restartable <- NoNode
  Partitions <- EdgeSplits
  MaxTerm = 2
  MaxLog = 2
  MaxFaults = 2
INVARIANTS TypeOK ElectionSafety LeaderHasQuorum LogMatching
PROPERTIES VoteIsFinal MinorityIsPowerless
