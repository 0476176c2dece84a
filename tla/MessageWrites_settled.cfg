SPECIFICATION FairSpec
CONSTANTS
  Ids = {m1}
  Jobs = {j1, j2}
  Workers = {w1, w2}
  Clients = {c1}
  NoRow = NoRow
  NoJob = NoJob
  NoRequest = NoRequest
  NoWorker = NoWorker
  Attempts = 2
  MaxStalled = 1
  MaxClock = 0
  Workload <- CreateAndReplace
  Offset <- SameClock
CHECK_DEADLOCK FALSE
PROPERTY EveryJobIsSettled
