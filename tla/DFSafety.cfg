SPECIFICATION FairSpec
CONSTANTS
  NumNodes = 3
  BlockSize = 2
  CacheSize = 1
  Builder = 0
  DfHome = 1
  Width = 2
  Scripts <- WithColumns
  Modes = {"map", "local_map"}
CHECK_DEADLOCK FALSE
INVARIANTS RowCount ReadsBack EachRowOnce LocalMapStaysLocal CacheSound
PROPERTY AllFinish
