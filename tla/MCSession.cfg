\* Two starts on two ports, two lists of tickers the server knows and one it does
\* not know; a crash, a broken connection and a panic.
CONSTANTS
  Ids = {1, 2, 3}
  Wants = {w1, w2, unknown}
  Unknown = {unknown}
  Ports = {p1, p2}
  Wait = "full"
  MaxStarts = 2
  MaxCrashes = 1
  MaxBreaks = 1
  MaxPanics = 1
  None = None
SPECIFICATION Spec
CHECK_DEADLOCK FALSE
INVARIANTS TypeOK OwnQuotes
PROPERTIES StraysExpire AckEventually
