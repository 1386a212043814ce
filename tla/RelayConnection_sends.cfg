SPECIFICATION Spec
CONSTANTS
  Relay = {r1, r2}
  Sender = {s1}
  MayCancel = TRUE
  BadFrames = TRUE
  MaxFrames = 1
  MaxBreaks = 1
  Output = output
  None = None
INVARIANTS
  SendTruthful
CHECK_DEADLOCK FALSE
