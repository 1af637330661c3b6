\* Two clients that subscribe to any of two tickers: every interleaving of
\* the two maps' locks, with cleanups by streaming and by ticker threads.
CONSTANTS
  Conn = {c1, c2}
  Ticker = {AAPL, MSFT}
  Unknown = {}
  MaxRequests = 2
  MaxQueue = 1
  Wrap = 1
SPECIFICATION Spec
SYMMETRY Symmetry
INVARIANTS
  RegistryConsistent
  StreamingIsFed
  NoMisdelivery
PROPERTY
  PubSubSpec
