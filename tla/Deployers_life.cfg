SPECIFICATION MCSpec
CONSTANTS
  Node = {1, 2, 3}
  Kind <- NetKind
  LastOctet = 4
  MaxIds = 2
  MaxCalls = 3
  MaxFaults = 1
  Gateway = {"a", "b", "f"}
  FqdnKind = {"f"}
  Project <- SomeProjects
  GwName = {"x", "y"}
  GwData = {"x"}
  GwNode = {1, 2}
  PublicNode = {1}
  GwIds = 7
  GwCalls = 3
  GwFaults = 1
  Cluster = {"c"}
  ClusterNode = {1, 2, 3}
  HiddenNode = {1, 2}
  Gate = 3
  Asks <- SomeAsks
  LastHost = 4
  ClusterIds = 6
  ClusterCalls = 5
  ClusterFaults = 1
INVARIANTS
  Connected
  DeployedRight
  NothingOutOfSight
PROPERTIES
  SubnetsDistinct
  HeldUntilCancelled
  ReadsBack
CHECK_DEADLOCK FALSE
