SPECIFICATION Spec
CONSTANTS
  k1 = k1
  k2 = k2
  NumNodes = 2
  Server = 0
  Keys <- Keys2
  Home <- HomeBoth
  Writers <- AllNodes
  Readers <- AllNodes
  GetModes = {TRUE, FALSE}
  MaxOps = 2
  NoKey = NoKey
  NoValue = NoValue
CHECK_DEADLOCK FALSE
INVARIANTS CastsHold OneReplyPerGet NoEarlyTeardown TeardownClean IndInv
