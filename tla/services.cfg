SPECIFICATION ServicesSpec
CONSTANTS
  N = 3
  Orders <- OrderIds
  Skus = {"p", "q"}
  Request <- TwoOrThree
  Seed <- ThreeOfP
  NoSaga = NoSaga
  MaxOrders = 3
  MaxDeaths = 2
  Tasks = {t1, t2}
  Titles = {a, b}
  Writers = {w1}
  NoTitle = NoTitle
  NoAggregate = NoAggregate
  MaxEvents = 4
  ValidKeys = {"k1", "k2"}
  Scripts <- Traffic
  Window = 2
  MaxPerWindow = 2
  Timeout = 1
  Horizon = 3
  HookTasks = {"t1", "t2"}
  HookSeeds <- DoneSeed
  Urls = {"u1", "u2"}
  ReceiverOf <- OneReceiver
  NotSent = NotSent
  MaxFired = 2
  LiveIds = {i1, i2}
  SeedIds = {i1}
  WideId = i2
  Watchers = {c1}
  MaxPushes = 3
  Sockets = {s1, s2}
  Names = {"a"}
  MaxSaid = 4
  Texts = {"a", "b"}
  Absent = Absent
  MaxCalls = 4
INVARIANTS TypeOK Agreement EffectsAddUp HistoryIsLegal ViewsMatchAggregates GatewayPromises PushesTellWhatHappens StreamsFollowStore ApisAgree
PROPERTIES ImplementsAtomicCommit InDoubtWaits DecisionReachesAll SagaIsAtomic OutboxDelivers
CHECK_DEADLOCK FALSE
