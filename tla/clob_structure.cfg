CONSTANTS
  MaxOrders = 3
  OrderIds = {a, b, c, d}
  MinPrice = 1
  MaxPrice = 3
  InputPrices = {1, 2, 3}
  InputQtys = {1, 2}
  QtyMod = 4
  NullIndex = NullIndex
  NoPrice = NoPrice
SPECIFICATION Spec
SYMMETRY MCSymmetry
VIEW MCView
INVARIANTS IInv PoolPartition LevelChains LevelTotals BestIsExtreme
