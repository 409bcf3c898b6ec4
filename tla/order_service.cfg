SPECIFICATION FairSpec
CONSTANTS
  FailureThreshold = 2
  ResetTimeout = 2
  SuccessThreshold = 2
  Urls = {u1, u2}
  HeartbeatTimeout = 2
  NoUrl = none
  Requests = {r1, r2}
  BeatEvery = 1
  CheckEvery = 2
  MaxFaults = 1
INVARIANTS OneTestCall CountersMatchState RegistryInOrder
PROPERTY BreakerRecovers
