CONSTANTS
  MaxOrders = 3
  OrderIds = {a, b, c, d}
  MinPrice = 1
  MaxPrice = 2
  InputPrices = {1, 2}
  InputQtys = {1, 2, 3}
  QtyMod = 4
  NullIndex = NullIndex
  NoPrice = NoPrice
SPECIFICATION LedgerSpec
SYMMETRY MCSymmetry
VIEW LedgerView
INVARIANTS NotCrossed LedgerAgrees
PROPERTIES SubmitAllOrNothing TradesWithinLimits
