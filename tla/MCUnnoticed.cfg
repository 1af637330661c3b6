CONSTANTS
  Ids = {1, 2, 3}
  Wants = {w1, w2}
  Unknown = {}
  Ports = {p1, p2}
  Wait = "none"
  MaxStarts = 1
  MaxCrashes = 1
  MaxBreaks = 1
  MaxPanics = 0
  None = None
SPECIFICATION Spec
CHECK_DEADLOCK FALSE
PROPERTY LossDetected
