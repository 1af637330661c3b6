\* The constants of the code in quarters of a second; the losses, the jitter
\* and the delays are the largest the timeouts allow.  Other datagrams come or not.
CONSTANTS
  MAX_PING_TIMEOUT = 20
  ReadTimeout = 4
  BASE_PING_DELAY = 8
  MaxJitter = 1
  MaxDelay = 2
  MaxLost = 1
  MaxFirst = 49
SPECIFICATION FairSpec
CHECK_DEADLOCK FALSE
INVARIANTS
  TypeOK
  NoFalseTimeout
  DetectedInTime
PROPERTY
  StoppedIsNoticed
