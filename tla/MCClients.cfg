SPECIFICATION ClientsSpec
CONSTANTS
  FeedbackTimeout = 0
  LeaderTimeout = 1
  TrackHold = 0
  JogTimeout = 0
  CollisionEvery = 2
  JogQueue = 1
  MaxUpsets = 1
  L = l
  R = r
INVARIANTS
  BlindAtMostOnce
PROPERTIES
  DeadmanStops
  
  SilenceStops
  PairEnds
  LoneLegStopped
CHECK_DEADLOCK FALSE
