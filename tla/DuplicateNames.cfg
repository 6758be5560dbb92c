SPECIFICATION Spec
CONSTANTS
  Thread = {a, b, c}
  PageSize = 1
  MaxScanPages = 3
INVARIANT StopsOnDuplicates
CHECK_DEADLOCK FALSE
