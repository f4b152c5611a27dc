SPECIFICATION Spec
CONSTANTS
  Sessions = {s1}
  Entries = {e1, e2, e3}
  Periods = {p1, p2}
  Years = {y1}
  y1 = y1
  p1 = p1
  p2 = p2
  YearOf <- OneYear
  Payloads <- Amounts
  Inputs <- SaleAndLopsided
  Balanced <- BalancedAmounts
  Mirror <- Negation
  SequenceEdits <- NoEdits
  MaxNumber = 3
  Nil = Nil
CHECK_DEADLOCK FALSE
SYMMETRY Symmetry
INVARIANTS ReversalMirrorsSource SequenceAhead
PROPERTIES ImplementsBook
