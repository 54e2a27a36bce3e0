SPECIFICATION Spec
CONSTANTS
  Sessions = {s1, s2}
  NoOwner = NoOwner
  MaxExec = 1
  MaxArm = 2
  MaxInbox = 1
  Paced = FALSE
  Scenes <- AuthorityScenes
  SeqMod = 8
SYMMETRY Symmetry
INVARIANTS
  NoOwnerNoMotion
  OneMotionSource
  DisarmWins
CHECK_DEADLOCK FALSE
