\* A thread of each kind, and a second one for the readers.
CONSTANTS
  Handlers = {h1}
  Streams = {s1}
  Tickers = {t1, t2}
SPECIFICATION Spec
INVARIANT
  NoCircularWait
  NobodyStuck
PROPERTY
  EveryoneEnters
