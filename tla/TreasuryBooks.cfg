SPECIFICATION Spec
CONSTANTS
  g1 = g1
  g2 = g2
  other = other
  Accounts = {a1, a2}
  CashLedger = {g1, g2}
  OtherLedger = {other}
  Transactions = {t1, t2}
  Transfers = {x1}
  LineSets <- BooksLines
  Amounts = {1}
CHECK_DEADLOCK FALSE
INVARIANTS TypeOK ReportAgreesWithLedger CashIsReceiptsLessPayments
