SPECIFICATION Spec
CONSTANTS
  Sessions = {s1}
  NoOwner = NoOwner
  MaxExec = 2
  MaxArm = 1
  MaxInbox = 1
  Paced = FALSE
  Scenes <- LedgerScenes
  SeqMod = 8
INVARIANTS
  LedgerLegal
  PlanTracked
  AppliedMeansTaken
CHECK_DEADLOCK FALSE
