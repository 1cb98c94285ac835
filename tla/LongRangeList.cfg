SPECIFICATION ListSpec
CONSTANTS
  MaxNumber = 8
  RemoveInside = TRUE
INVARIANTS
  Canonical
  AddRangeIsUnion
  RemoveRangeIsDifference
  ReloadedIsSame
