SPECIFICATION HandSpec
CONSTANTS
  MaxAsks = 2
  MaxHandUpsets = 1
  MaxHandEvents = 2
  Upsets = {"link", "session", "stop", "drop", "authority"}
INVARIANTS
  
  
  OkIsTrue
PROPERTY
  NoMoveWhileHeld
CHECK_DEADLOCK FALSE
