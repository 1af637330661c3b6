\* The record of a ping, compared with what its comment says of it.
CONSTANTS
  MAX_PING_LOGS = 2
  MaxTimestamp = 4
SPECIFICATION Spec
INVARIANT
  PongRecorded
