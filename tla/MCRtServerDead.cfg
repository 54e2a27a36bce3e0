SPECIFICATION Spec
CONSTANTS
  MaxGen = 2
  MaxDisarm = 2
  MaxSession = 1
  MaxSeq = 0
  MaxFault = 1
  ConfirmedStop = TRUE
INVARIANTS
  DeadPlantLatched
CHECK_DEADLOCK FALSE
