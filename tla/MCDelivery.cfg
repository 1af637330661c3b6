\* One ticker, an unknown one, deeper channels and distinguishable quotes.
CONSTANTS
  Conn = {c1, c2}
  Ticker = {AAPL}
  Unknown = {XXXX}
  MaxRequests = 2
  MaxQueue = 2
  Wrap = 3
SPECIFICATION Spec
SYMMETRY Symmetry
INVARIANTS
  TypeOK
  GapFree
  CleanupComplete
  JoinNeverWaits
