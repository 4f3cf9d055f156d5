SPECIFICATION FairSpec
CONSTANTS
  NumNodes = 3
  NumProjects = 2
  NumUsers = 3
  LinusId = 1
  Degrees = 2
  BlockSize = 1
  Tables <- SmallTables
CHECK_DEADLOCK FALSE
INVARIANTS IndInv DegreesOfLinus
PROPERTIES PutOnce Termination
