SPECIFICATION Spec
CONSTANTS
  f1 = f1
  f2 = f2
  zero = zero
  v1 = v1
  null = null
  Files <- TwoFiles
  Values <- MCValues
  Zero <- zero
  Null <- null
  MaxPages = 2
  MaxCount = 2
  SegmentPages = 1
  MaxCache = 2
  GrowthAtEnd = TRUE
INVARIANTS
  CleanMatchesDisk
  CacheConsistent
