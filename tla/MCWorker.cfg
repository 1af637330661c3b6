\* Fair threads and network, a ring of two records and four pings in flight.
CONSTANTS
  MAX_PING_LOGS = 2
  MaxTimestamp = 4
SPECIFICATION FairSpec
INVARIANTS
  TypeOK
  RingIsWindow
  RttIsEarned
  ExitIsClean
PROPERTIES
  CtrlCExits
  DeadServerNoticed
