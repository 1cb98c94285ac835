SPECIFICATION FairSpec
CONSTANTS
  zero = zero
  v1 = v1
  UnitSize = 16
  InitUnits = 2
  ExtendUnits = 1
  MaxUnits = 3
  MaxUsed = 20
  Sizes <- MCSizesLarge
  Values <- MCValues
  Zero <- zero
  KeepFirst = TRUE
  EnoughRoom = TRUE
INVARIANTS
  NothingShared
PROPERTIES
  EveryCallReturns
