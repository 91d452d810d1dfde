CONSTANTS
  Items = {a, b}
  Blank = Blank
  Capacity = 4
  WordMod = 8
  MaxBatch = 3
SPECIFICATION Spec
INVARIANTS RingTypeOK NoRace RingInv

PROPERTIES ImplementsFifo
