CONSTANTS
  Inputs <- MCInputs
  Configured <- MCConfigured
  Ips = {"127.0.0.1"}
  Ports = {"8091"}
  Ip = "127.0.0.1"
  Port = "8091"
  MAX_MSG_LEN = 16
  None = None
SPECIFICATION Spec
INVARIANTS TypeOK FrameIntegrity AckIsExact NamesAreCut NeverBothWait
PROPERTY AttemptEnds
