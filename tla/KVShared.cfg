SPECIFICATION FairSpec
CONSTANTS
  k1 = k1
  k2 = k2
  NumNodes = 3
  Server = 0
  Keys <- Keys1
  Home <- HomeServer
  Writers <- TwoPutK1
  Readers <- AllOfK1
  GetModes = {TRUE}
  MaxOps = 2
  NoKey = NoKey
  NoValue = NoValue
CHECK_DEADLOCK FALSE
INVARIANT SessionOrder
PROPERTIES ImplementsSharedStore RemotelyServed TeardownCompletes
