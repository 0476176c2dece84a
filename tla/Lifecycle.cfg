SPECIFICATION FairSpec
CONSTANTS
  Plugins = {"env", "prisma", "redis", "gcpStorage", "bullmq", "messageQueue", "awilix", "cache", "rateLimit"}
  MaxRequests = 1
INVARIANTS
  DecoratorsAreThere
  TasksHaveTheirConnections
  CleanExitCutsNothing
PROPERTIES
  ShutdownEnds
