SPECIFICATION FairSpec
CONSTANTS
  f1 = f1
  f2 = f2
  zero = zero
  v1 = v1
  null = null
  Files <- OneFile
  Values <- MCValues
  Zero <- zero
  Null <- null
  MaxPages = 4
  MaxCount = 2
  SegmentPages = 2
  MaxCache = 2
  GrowthAtEnd = TRUE
INVARIANTS
  DiskIsPending
  NeverHangs
PROPERTIES
  ImplementsPagedFile
  EveryCallReturns
