SPECIFICATION Spec
CONSTANTS
  Relay = {r1}
  Sender = {s1}
  MayCancel = FALSE
  BadFrames = FALSE
  MaxFrames = 1
  MaxBreaks = 1
  Output = output
  None = None
INVARIANTS
  Survives
CHECK_DEADLOCK FALSE
