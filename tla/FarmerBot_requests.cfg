SPECIFICATION Spec
CONSTANTS
  n1 = n1
  n2 = n2
  n3 = n3
  Node <- NodesThree
  Excluded = {n3}
  Included = {}
  NeverShutDown = {}
  Leavers = {}
  Rentable = {}
  Tenancies = {"rented"}
  ContinueOnErr = TRUE
  Loop = loop
  Handler = {h1}
  Requests = {"findnode", "includenode", "poweroff", "poweron"}
  StatusFails = FALSE
  MaxRequests = 2
  MaxClaims = 1
  MaxFaults = 0
  None = None
INVARIANTS
  CopiesBounded
PROPERTIES
  ExcludedLeftAlone
