SPECIFICATION Spec
CONSTANTS
  Invoices = {i1, i2}
  Receipts = {r1, r2}
  Notes = {n1}
  MaxAmount = 2
  Nil = Nil
CHECK_DEADLOCK FALSE
SYMMETRY Symmetry
INVARIANTS AllocationsNamePosted PaymentStatusAgrees ControlAgrees EntriesBalance
