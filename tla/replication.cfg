SPECIFICATION ReplicationSpec
CONSTANTS
  CapNodes = {A, B, C, D}
  MaxCapWrites = 2
  NumCopies = 3
  Clients = {c1, c2}
  MaxRegisterWrites = 4
  CausalNodes = {N1, N2, N3}
  CausalValues = {1, 2}
  MaxCausalWrites = 3
  Nodes = {A, B}
  Elements = {x, y}
  Amounts = {1, 3}
  MaxOps = 3
  MaxCopies = 3
  ClockNodes = {N1, N2, N3}
  MaxStamps = 4
  MaxSnapshots = 2
  Replicas = {R1, R2, R3}
  Readers = {c1, c2}
  MaxVersion = 3
  Keys = {1, 2, 3, 4, 5}
  Values = {a, b}
  Missing = Missing
  MaxUpdates = 2
  Sites = {n1, n2, n3}
  Rows = {1}
  Data = {1, 2}
  MaxWrites = 2
  MaxFailures = 1
  MaxRestarts = 1
INVARIANTS ModesKeepPromises CausalOrder ValueIsOfKnownOps ClocksTellCausality NothingForgotten
PROPERTIES ReplicasReconcile ConvergesOnceAllReached
CHECK_DEADLOCK FALSE
