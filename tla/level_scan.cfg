CONSTANTS
  PriceMod = 8
  NoPrice = NoPrice
SPECIFICATION FairRefreshSpec
INVARIANTS StaysInside RestoresBest
PROPERTIES ScanEnds
CHECK_DEADLOCK FALSE
