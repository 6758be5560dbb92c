SPECIFICATION Spec
CONSTANTS
  Short = 1
  Wide = 2
  MaxLine = 3
  MaxHandshake = 4
  MaxChunk = 12
  MaxBuffer = 15
  MaxParts = 2
INVARIANTS TypeOK NothingStuck Bounded
PROPERTY ImplementsMessages
CHECK_DEADLOCK FALSE
