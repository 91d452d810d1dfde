CONSTANTS
  Programs <- MCPrograms
  MaxOrders = 101
  MinPrice = 8000
  MaxPrice = 12000
  QtyMod = 8192
  NullIndex = NullIndex
  NoPrice = NoPrice
SPECIFICATION Spec
INVARIANTS SinkFits EndsAsChecked
