SPECIFICATION FairSpec
CONSTANTS
  MaxTwin = 1
  Registered = {1}
  Worker = {w1, w2}
  BatchSize = 2
  Answers = {"good", "none"}
  IsHealth = TRUE
  InOrder = TRUE
  MaxRestarts = 0
  None = None
PROPERTIES
  RoundEnds
  TableFollows
