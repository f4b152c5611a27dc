SPECIFICATION Spec
CONSTANTS
  Sessions = {s1, s2}
  Entries = {e1, e2}
  Periods = {p1}
  Years = {y1}
  y1 = y1
  p1 = p1
  p2 = p2
  YearOf <- OneYear
  Payloads <- Amounts
  Inputs <- SaleOnly
  Balanced <- BalancedAmounts
  Mirror <- Negation
  SequenceEdits <- AnyEdit
  MaxNumber = 2
  Nil = Nil
CHECK_DEADLOCK FALSE
SYMMETRY Symmetry
PROPERTIES OnlyOvertakenBreakBook SequenceFallsBehind YearClosesLast
