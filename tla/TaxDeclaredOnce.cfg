SPECIFICATION Spec
CONSTANTS
  LastPeriod = 2
  Assessments = {patente}
  Documents <- BooksDocuments
  Amounts = {2}
  MaxReturns = 2
  MaxPaid = 2
  Unlockable = {1}
CHECK_DEADLOCK FALSE
INVARIANT FactDeclaredOnce
