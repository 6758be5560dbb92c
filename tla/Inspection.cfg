SPECIFICATION Spec
CONSTANTS
  Thread = {a, b, c}
  GoalStatus = {active}
  Runtime = {idle, busy}
  Limit = 2
  MaxChanges = 2
INVARIANTS TypeOK PartsWereTrue CompleteUnlessTruncated
CHECK_DEADLOCK FALSE
