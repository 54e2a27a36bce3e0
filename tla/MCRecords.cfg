SPECIFICATION RecordsSpec
CONSTANTS
  MaxGen = 2
  MaxSeq = 2
  MaxTicks = 3
  MaxStall = 1
  FirstSeq = 7
  SeqMod = 8
  ReadTries = 2
  MaxWrites = 2
  MaxKills = 1
  MaxRefs = 2
  MaxRev = 2
  MaxCommits = 2
  MaxCancels = 4
  MaxModes = 1
  MaxEpochs = 1
  MaxSess = 1
INVARIANTS
  
  
  SlotOpen
  WithdrawnStops
PROPERTIES
  FaultCloses
CHECK_DEADLOCK FALSE
