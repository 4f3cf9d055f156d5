SPECIFICATION Spec
CONSTANTS
  StrLen <- StrLens
  Junk = Junk
  Nodes = {0, 1}
  Messages <- AllKinds
  Objects <- AllObjects
  InitSize = 64
  MaxSends = 3
CHECK_DEADLOCK FALSE
INVARIANTS BufferSound WholePackets Faithful ObjectsReadBack
