SPECIFICATION Spec
CONSTANTS
  Amounts = {2, 3}
  Payments = {1, 8}
  FeeRates = {0, 1}
  BaseSize = 1
  RefSize = 1
  OutputSize = 2
  Groups = {2}
  MaxCoins = 3
  MaxDests = 2
  MaxCalls = 4
INVARIANTS
  BooksBalance
  EveryCoinInTurn
  DestinationsPaid
  ChangeRotates
PROPERTIES
  CallsEnd
CHECK_DEADLOCK FALSE
