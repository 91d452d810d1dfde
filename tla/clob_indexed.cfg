CONSTANTS
  MaxOrders = 2
  OrderIds = {1, 2, 5, 6}
  MinPrice = 1
  MaxPrice = 2
  InputPrices = {1, 2}
  InputQtys = {1, 2}
  QtyMod = 4
  NullIndex = NullIndex
  NoPrice = NoPrice
  Hash <- MCHash
  Garbage = {1}
  Junk = {0}
SPECIFICATION FairSpec
INVARIANTS TableMatchesPool
PROPERTIES ImplementsFixedClob SubmitReturns
VIEW MCView
