SPECIFICATION FairSpec
CONSTANTS
  NumNodes = 3
  Server = 2
  Ip <- HostEach
  Port <- Same
  Targets <- WithServer
  Big = {"Put", "Reply"}
  MaxSends = 1
  NoAddr = NoAddr
CHECK_DEADLOCK FALSE
INVARIANT StartupSafe
PROPERTIES ImplementsInbox SendsReturn StartupCompletes
