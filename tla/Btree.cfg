SPECIFICATION Spec
CONSTANTS
  MaxKey = 4
  Values = {v, w}
  NodeNumber = 2
  MaxBlocks = 11
  SafeReopen = TRUE
  KnownStart = TRUE
INVARIANTS
  WellFormed
  SearchFindsAll
PROPERTIES
  ImplementsOrderedMap
