SPECIFICATION TextSpec
CONSTANTS
  MaxStderr = 6
  MaxChars = 5
INVARIANTS TextTypeOK KeepsThePrefix
CHECK_DEADLOCK FALSE
