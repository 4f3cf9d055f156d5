SPECIFICATION Spec
CONSTANTS
  Keys = {"a", "b"}
  Capacity = 2
  Threads = {"app", "rt"}
  Uses <- BothWrite
  MaxPuts = 2
INVARIANT NoEntryLost
