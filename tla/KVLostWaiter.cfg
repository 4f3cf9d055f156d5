SPECIFICATION FairSpec
CONSTANTS
  k1 = k1
  k2 = k2
  NumNodes = 2
  Server = 0
  Keys <- Keys1
  Home <- HomeServer
  Writers <- ServerPutsK1
  Readers <- ClientsGetK1
  GetModes = {TRUE}
  MaxOps = 1
  NoKey = NoKey
  NoValue = NoValue
CHECK_DEADLOCK FALSE
PROPERTY WaitersServed
