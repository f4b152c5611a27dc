SPECIFICATION Spec
CONSTANTS
  Invoices = {i1}
  Receipts = {r1, r2}
  Notes = {}
  MaxAmount = 2
  Nil = Nil
CHECK_DEADLOCK FALSE
INVARIANTS NotOverAllocated
