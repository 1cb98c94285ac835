SPECIFICATION Spec
CONSTANTS
  MaxKey = 4
  Values = {v}
  NodeNumber = 2
  MaxBlocks = 8
  SafeReopen = FALSE
  KnownStart = TRUE
PROPERTY ImplementsOrderedMap
