SPECIFICATION FairSpec
CONSTANTS
  Relay = {r1}
  Sender = {s1, s2}
  MayCancel = TRUE
  BadFrames = TRUE
  MaxFrames = 2
  MaxBreaks = 1
  Output = output
  None = None
INVARIANTS
  HandledInOrder
PROPERTIES
  NoneStuck
CHECK_DEADLOCK FALSE
