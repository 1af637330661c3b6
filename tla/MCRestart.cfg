\* The documented wait on one port, without a fault of network or server.
CONSTANTS
  Ids = {1, 2, 3}
  Wants = {w1, w2}
  Unknown = {}
  Ports = {p1}
  Wait = "documented"
  MaxStarts = 2
  MaxCrashes = 0
  MaxBreaks = 0
  MaxPanics = 0
  None = None
SPECIFICATION Spec
CHECK_DEADLOCK FALSE
PROPERTY OldStreamEnds
