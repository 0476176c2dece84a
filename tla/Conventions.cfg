SPECIFICATION ConventionsSpec
CONSTANTS
  Statements <- SomeStatements
  MaxStatements = 3
  Functions = {f, g}
  Deps = {d, e}
  Nothing = Nothing
  MaxRefs = 4
  ModuleNames = {m, n}
  Shared = Shared
  Requests = {1, 2}
  Models = {0, 1, 2}
  NoSql = NoSql
  MaxTime = 2
  user = user
  superUser = superUser
  Probe = Probe
  ProbeItem = ProbeItem
  Entities = {user, superUser, Probe, ProbeItem}
  EndsIn <- LikeNames
  Idle = Idle
  MaxRuns = 4
INVARIANTS
  ConventionsTypeOK
  ReportedReadsAreOnOnePath
  EveryDuplicateIsReported
  NoCheckIsReplaced
  
  
  MainReproducesItsSchema
  ProductionHasTheSchema
  NothingDangles
  NothingIsHalfGenerated
  WhatIsWiredIsThere
PROPERTIES
  EditsKeepWhatIsUsed
  ReportsComeToAnEnd
  MigrationsAreAppendOnly
CHECK_DEADLOCK FALSE
