SPECIFICATION FairSpec
CONSTANTS
  Sessions = {s1}
  NoOwner = NoOwner
  MaxExec = 1
  MaxArm = 1
  MaxInbox = 1
  Paced = TRUE
  Scenes <- LiveScenes
  SeqMod = 8
PROPERTIES
  CompletionJudged
  AuthorityAnswered
  FaultStopsMotion
CHECK_DEADLOCK FALSE
