SPECIFICATION Spec
CONSTANTS
 MaxRefs = 2
 MaxRev = 1
 MaxCommits = 2
 MaxCancels = 1
 MaxModes = 0
 MaxEpochs = 1
 MaxSess = 1
 Earlier = 1
 MaxGroups = 2
 Me = me
 Peers = {p}
 MaxOdd = 1
INVARIANTS StartTogether
PROPERTIES  PeerStops
CHECK_DEADLOCK FALSE
