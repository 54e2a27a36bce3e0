SPECIFICATION Spec
CONSTANTS
  MaxGen = 2
  MaxDisarm = 2
  MaxSession = 1
  MaxSeq = 0
  MaxFault = 2
  ConfirmedStop = TRUE

  
PROPERTIES
  DisarmConfirmed
  FaultDelivered
CHECK_DEADLOCK FALSE
