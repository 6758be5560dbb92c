SPECIFICATION TextSpec
CONSTANTS
  MaxStderr = 6
  MaxChars = 5
INVARIANT KeepsLimit
CHECK_DEADLOCK FALSE
