CONSTANTS
  Programs <- MCPrograms
  Blank = Blank
  Capacity = 4
  WordMod = 8
  MaxBatch = 3
  MaxOrders = 4
  MinPrice = 9926
  MaxPrice = 10075
  QtyMod = 16
  NullIndex = NullIndex
  NoPrice = NoPrice
SPECIFICATION FairSpec
INVARIANTS CommandsInOrder BufferFits NothingRefused RunsExact
PROPERTIES Completes ImplementsDrivers
