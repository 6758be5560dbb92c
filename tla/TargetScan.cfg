SPECIFICATION Spec
CONSTANTS
  Thread = {a, b, c}
  PageSize = 1
  MaxScanPages = 3
INVARIANTS TypeOK ResolvesToTheOne RefusesForCause
CHECK_DEADLOCK FALSE
