SPECIFICATION Spec
CONSTANTS
  Ids = {m1}
  Jobs = {j1, j2, j3}
  Workers = {w1}
  Clients = {c1}
  NoRow = NoRow
  NoJob = NoJob
  NoRequest = NoRequest
  NoWorker = NoWorker
  Attempts = 2
  MaxStalled = 0
  MaxClock = 2
  Workload <- CreateAndUpdate
  Offset <- SameClock
SYMMETRY Symmetric
CHECK_DEADLOCK FALSE
INVARIANT LastWriteOfColumnWins
