SPECIFICATION FairSpec
CONSTANTS
  Callers = {c1, c2, c3}
  Nobody = Nobody
  LockTtl = 2
  MaxWait = 2
  EntryTtl = 3
  MaxHold = 1
  Faults <- EveryFault
INVARIANT
  OneResolverAtATime
PROPERTIES
  OnlyHolderReleases
  EveryCallReturns
  LockIsFreed
