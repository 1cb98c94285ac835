SPECIFICATION Spec
CONSTANTS
  a1 = a1
  a2 = a2
  b1 = b1
  b2 = b2
  b3 = b3
  c1 = c1
  t1 = t1
  t2 = t2
  t3 = t3
  NoHeader = NoHeader
  Headers <- MCHeaders
  Trxs <- MCTrxs
  Parent <- MCParent
  Height <- MCHeight
  Body <- MCBody
  Owned <- MCOwned
  Spends <- MCSpends
  Timestamp <- MCTimestamp
  BeforeHeight = 1
  Scenarios <- MCScenarios
  MaxList = 2
INVARIANTS
  StoresConsistent
  SpinsAtGapsOnly
  SpentNotOffered
  Layered
PROPERTIES
  OnlySiblingsRemoved
