SPECIFICATION Spec
CONSTANTS
  zero = zero
  v1 = v1
  UnitSize = 16
  InitUnits = 3
  ExtendUnits = 2
  MaxUnits = 5
  MaxUsed = 32767
  Sizes <- MCSizes
  Values <- MCValues
  Zero <- zero
  KeepFirst = TRUE
  EnoughRoom = TRUE
INVARIANTS
  StoreConsistent
PROPERTIES
  ImplementsBlockStore
