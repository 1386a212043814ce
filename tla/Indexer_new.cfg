SPECIFICATION FairSpec
CONSTANTS
  MaxTwin = 2
  Registered = {1}
  Worker = {w1}
  BatchSize = 1
  Answers = {"good"}
  IsHealth = FALSE
  InOrder = TRUE
  MaxRestarts = 1
  None = None
INVARIANTS
  NoneSkipped
PROPERTIES
  NewNodesAsked
