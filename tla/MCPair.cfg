SPECIFICATION Spec
CONSTANTS
  Left = l
  Right = r
  MaxPair = 2
  MaxTrouble = 1
  MaxEvents = 1
  MaxQueue = 2
INVARIANTS
  ClearedIsOver
PROPERTY
  NoLateStart
CHECK_DEADLOCK FALSE
