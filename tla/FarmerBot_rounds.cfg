SPECIFICATION FairSpec
CONSTANTS
  n1 = n1
  n2 = n2
  n3 = n3
  Node <- NodesTwo
  Excluded = {}
  Included = {}
  NeverShutDown = {}
  Leavers = {n1}
  Rentable = {n2}
  Tenancies = {"rented"}
  ContinueOnErr = TRUE
  Loop = loop
  Handler = {h1}
  Requests = {"poweroff", "poweron"}
  StatusFails = FALSE
  MaxRequests = 1
  MaxClaims = 0
  MaxFaults = 0
  None = None
PROPERTIES
  RequestServed
  FarmFollowed
