SPECIFICATION FairListSpec
CONSTANTS
  Ids = {m1}
  Jobs = {j1, j2}
  Workers = {w1}
  Clients = {c1}
  Readers = {r1}
  NoRow = NoRow
  NoJob = NoJob
  NoRequest = NoRequest
  NoWorker = NoWorker
  NoPage = NoPage
  Ttl = 2
  Attempts = 2
  MaxStalled = 0
  MaxClock = 1
  Workload <- EveryRequest
  Offset <- SameClock
PROPERTY EventuallyFresh
INVARIANT StalePageHasACause
