SPECIFICATION BankSpec
CONSTANTS
  Clients = {c1, c2}
  BankAccounts = {b1}
  Lines = {l1}
  Sessions = {s1, s2}
  Documents = {d1, d2}
  TypedAmounts = {1, 2}
  CsvAmounts <- FileAmounts
  None = None
CHECK_DEADLOCK FALSE
SYMMETRY Symmetry
INVARIANTS NeverOverMatched ReconciledAgrees
PROPERTIES CompletedStays
