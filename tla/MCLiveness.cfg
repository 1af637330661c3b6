\* Fair scheduling, one ticker, two clients.
CONSTANTS
  Conn = {c1, c2}
  Ticker = {AAPL}
  Unknown = {}
  MaxRequests = 2
  MaxQueue = 1
  Wrap = 1
SPECIFICATION FairSpec
PROPERTIES
  CommandsFinish
  SignalledIsForgotten
  PanickedIsReaped
