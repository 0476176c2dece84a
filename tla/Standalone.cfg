SPECIFICATION StandaloneSpec
CONSTANTS
  MaxId = 4
  Limit = 2
  MaxCached = 1
  NoPage = NoPage
  MaxKey = 5
  PageSize = 2
  Requests = {r1, r2}
  MaxAttempts = 3
  Window = 3
  BanTtl = 4
  MaxProbes = 6
  RedisMayFail = TRUE
  Tokens <- SomeTokens
  RouteRequests <- SomeRouteRequests
  QueryNames <- SomeQueryNames
  Absent = Absent
INVARIANTS
  StandaloneTypeOK
  ListedInOrder
  NoRowIsSkipped
  NothingIsPassedOver
  TwoWindowsAtMost
  AnsweredAlike
PROPERTIES
  WalkEnds
  DeleteFolderEnds
  BanIsEarned
  BanRunsOut
