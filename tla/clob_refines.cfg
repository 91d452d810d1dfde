CONSTANTS
  MaxOrders = 3
  OrderIds = {a, b, c, d}
  MinPrice = 1
  MaxPrice = 2
  InputPrices = {1, 2, 3}
  InputQtys = {0, 1, 2}
  QtyMod = 4
  NullIndex = NullIndex
  NoPrice = NoPrice
SPECIFICATION SpecWithBook
SYMMETRY MCSymmetry
VIEW MCView
INVARIANTS ObserversAgree
PROPERTIES ImplementsOrderBook
