SPECIFICATION Spec
CONSTANTS
  Messages = {1}
  Consumers = {a, b}
  None = None
  MaxRetries <- RetriesTwice
  VisibilityTimeout = 4
  BackoffBase = 1
  MaxFaults = 2
INVARIANT OneConsumerWithinLease
