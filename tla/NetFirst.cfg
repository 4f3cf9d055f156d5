SPECIFICATION Spec
CONSTANTS
  NumNodes = 3
  Server = 0
  Ip <- HostEach
  Port <- Same
  Targets <- Everyone
  Big = {}
  MaxSends = 1
  NoAddr = NoAddr
CHECK_DEADLOCK FALSE
INVARIANT FirstIsDirectory
