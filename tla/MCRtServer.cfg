SPECIFICATION Spec
CONSTANTS
  MaxGen = 2
  MaxDisarm = 1
  MaxSession = 2
  MaxSeq = 1
  MaxFault = 2
  ConfirmedStop = FALSE
INVARIANTS
  LatchCoherent
  NoticesTrue
  CommandsScoped
  PlantSessionScoped
CHECK_DEADLOCK FALSE
