SPECIFICATION Spec
CONSTANTS
  MaxCalls = 3
  MaxStream = 3
  MaxJunk = 2
INVARIANTS TypeOK EveryWaitIsBounded ReturnsOnlyAnswers ExitsClean
PROPERTIES ImplementsCalls ProvidesConnection Terminates
CHECK_DEADLOCK FALSE
