SPECIFICATION Spec
CONSTANTS
  Configs <- ConfigsDef
  Node = {1, 2, 3}
  MaxRetries = 1
  MaxFaults = 1
PROPERTIES
  Recovers
CHECK_DEADLOCK FALSE
