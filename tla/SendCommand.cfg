SPECIFICATION Spec
CONSTANTS
  MaxTurn = 2
  MaxScanPages = 2
INVARIANTS TypeOK FallbackIsExclusive ExitIsHonest Ledger
PROPERTIES ImplementsDelivery UsesConnection Terminates
CHECK_DEADLOCK FALSE
