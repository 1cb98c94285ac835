SPECIFICATION Spec
CONSTANTS
  Codec <- MCCodec
  Factory <- MCFactory
  MaxList = 3
  MaxByte = 2
INVARIANTS
  SizeIsExact
  ReadRestores
  IdSurvives
  CopyIsSame
CHECK_DEADLOCK FALSE
