SPECIFICATION ThreadsSpec
CONSTANT MaxWrites = 3
INVARIANTS
  NotTorn
PROPERTIES
  LastValueRead
  ImplementsRegister
  UnauthorisedStops
CHECK_DEADLOCK FALSE
