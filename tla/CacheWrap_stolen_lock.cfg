SPECIFICATION Spec
CONSTANTS
  Callers = {c1, c2, c3}
  Nobody = Nobody
  LockTtl = 4
  MaxWait = 3
  EntryTtl = 4
  MaxHold = 2
  Faults <- OnlySlow
SYMMETRY Symmetric
INVARIANT LeaseExcludesOthers
