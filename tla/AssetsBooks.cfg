SPECIFICATION Spec
CONSTANTS
  Assets = {a1}
  Runs = {r1, r2, r3}
  LastDate = 4
  MonthOf <- Calendar
  Terms <- BooksTerms
CHECK_DEADLOCK FALSE
SYMMETRY Symmetry
INVARIANTS TypeOK FullyDepreciatedIsSpent ExcessNeedsOverlap WholeLifeSpends
PROPERTIES DisposalClears
