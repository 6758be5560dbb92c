SPECIFICATION Spec
CONSTANTS
  MaxTurn = 1
  MaxScanPages = 1
INVARIANT EndsWithAReport
CHECK_DEADLOCK FALSE
