SPECIFICATION Spec
CONSTANTS
  Orders = {o1}
  Bills = {b1, b2}
  Payments = {p1}
  Notes = {n1}
  Codes = {vat}
  Clients = {c1, c2}
  Amounts = {2}
  Discounts = {1}
  Rate <- FullRate
  MaxDocuments = 2
  Nil = Nil
CHECK_DEADLOCK FALSE
SYMMETRY Symmetry
INVARIANTS BilledTwiceWhenInterrupted ConversionTraced InputTaxAgrees EntriesBalance ControlAgrees
