SPECIFICATION Spec
CONSTANTS
  Messages = {1, 2}
  Consumers = {a, b}
  None = None
  MaxRetries <- Retries
  VisibilityTimeout = 4
  BackoffBase = 1
  MaxFaults = 2
INVARIANTS NothingLost RetryBudget
PROPERTY EveryMessageSettles
