SPECIFICATION Spec
CONSTANT MaxTurn = 1
INVARIANTS TypeOK AbandonsNothing NothingLingers
PROPERTIES ImplementsDelivery SettlesAndLetsGo
CHECK_DEADLOCK FALSE
