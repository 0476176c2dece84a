SPECIFICATION Spec
CONSTANTS
  Ids = {m1}
  Jobs = {j1, j2, j3}
  Workers = {w1, w2}
  Clients = {c1}
  NoRow = NoRow
  NoJob = NoJob
  NoRequest = NoRequest
  NoWorker = NoWorker
  Attempts = 1
  MaxStalled = 1
  MaxClock = 1
  Workload <- CreateAndReplace
  Offset <- SameClock
SYMMETRY Symmetric
CHECK_DEADLOCK FALSE
PROPERTY ImplementsRegister
