SPECIFICATION Spec
CONSTANTS
  t1 = t1
  t2 = t2
  t3 = t3
  Group = 2
  MaxCrashes = 2
  MaxFailures = 2
  Trxs <- MCTrxs
  Pays <- MCPays
  Spends <- MCSpends
  Strict <- MCStrict
INVARIANTS
  AccountConsistent
  AddressesRecovered
  SpentStaysSpent
PROPERTIES
  SettingsKept
  PaymentsFound
