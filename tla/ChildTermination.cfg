SPECIFICATION ChildSpec
CONSTANT Owner = {proxy, queue}
INVARIANTS ChildTypeOK CleanedUp NoSurvivor
PROPERTIES SparesTheEnded LetsGo
CHECK_DEADLOCK FALSE
