CONSTANTS
  Lines <- MCLines
  MIN_PRICE = 3
  MAX_START_PRICE = 5
  ChangeNum = 1
  ChangeDen = 3
  MaxPrice = 6
  MaxTime = 1
  NoQuote = NoQuote
SPECIFICATION Spec
INVARIANTS TypeOK StoredIsQuoted
PROPERTY PriceWalkSpec
CHECK_DEADLOCK FALSE
