SPECIFICATION LoopSpec
CONSTANTS
  Commands <- MCCommands
  MonthsPerYear = 3
  Grain = 2
  Drift = 1
CHECK_DEADLOCK FALSE
INVARIANTS NeverBeyondBase SpendsBase
PROPERTIES ChargesKeepDirection
