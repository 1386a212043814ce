SPECIFICATION MCSpec
CONSTANTS
  Calls = {c1, c2}
  MaxCopies = 2
  None = None
  BusCall = {1, 2}
  Routers <- SomeRouters
  Handlers <- SomeHandlers
  Commands <- SomeCommands
  PoolSize = 1
  Workers = 1
  BusFaults = 1
  Proxies = 2
  ApiNode = {1}
  Gateway = {1}
  ApiContract = {7}
  MaxTries = 3
  ApiFaults = 2
  ApiChanges = 2
  BatchDl = {d1, d2}
  BatchContracts = 3
  Configs <- SomeConfigs
  RobotNode = {1, 2, 3}
  MaxRetries = 2
  RobotFaults = 2
  d1 = d1
  d2 = d2
  n1 = n1
  w1 = w1
  w2 = w2
  NoData = NoData
  NoDl = NoDl
  NoNode = NoNode
INVARIANTS
  Registered
  Routed
  Honest
  AskedFor
  RecordsRight
  NothingLeftBehind
PROPERTIES
  VersionStep
  RetriesRight
  EachEnds
CHECK_DEADLOCK FALSE
