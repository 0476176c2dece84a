SPECIFICATION GeneratorsSpec
CONSTANTS
  user = user
  superUser = superUser
  Probe = Probe
  ProbeItem = ProbeItem
  Entities = {user, superUser, Probe, ProbeItem}
  EndsIn <- LikeNames
  Idle = Idle
  MaxRuns = 2
INVARIANT EveryEntryIsImported
CHECK_DEADLOCK FALSE
