CONSTANTS
  Capacity = 4
  OrderIds = {1, 2, 5, 6, 9}
  Values = {v1, v2}
  Hash <- FastHash
  Garbage = {1, 2, 5, 6, 9}
  Junk = {v0}
  NoValue = NoValue
SPECIFICATION Spec
INVARIANTS TableTypeOK KeysUnique ProbesUnbroken SizeCounts
PROPERTIES ImplementsOrderMap
VIEW LookedAt
