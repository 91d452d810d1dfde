CONSTANTS
  Items = {a}
  Blank = Blank
  Capacity = 4
  WordMod = 8
  MaxBatch = 3
SPECIFICATION FairCachedSpec
INVARIANT SnapshotsLag
PROPERTIES ImplementsSpscRing NeverStuck
