SPECIFICATION FairSpec
CONSTANTS
  Chars = {"a", "b", " "}
  Spaces = {" "}
  Files <- SmallFiles
  BufSize = 3
  Slack = 2
  Nul = "0"
  Junk = "?"
  NumNodes = 2
  BlockSize = 1
  Capacity = 2
  Hash <- FirstLetter
CHECK_DEADLOCK FALSE
INVARIANTS ReaderSound WordsOfFile CountsAddUp DifferentWords
PROPERTIES Termination
