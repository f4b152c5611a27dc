SPECIFICATION Spec
CONSTANTS
  Sessions = {s1}
  Docs = {d1, d2, d3}
  MaxQuantity = 2
  Costs = {150, 950}
  Dates = {1, 2}
  Methods = {"weighted_average", "fifo", "standard_cost"}
  Idle = Idle
CHECK_DEADLOCK FALSE
SYMMETRY Symmetry
INVARIANTS TypeOK BalanceMatchesEntries LayersHoldStock FifoBooksAtLayerCost
PROPERTIES LayersOnlyShrink
