SPECIFICATION FairSpec
CONSTANTS
  Keys = {"a", "b", "c"}
  Capacity = 2
  Threads = {"app", "rt"}
  Uses <- AloneOrLocked
  MaxPuts = 3
INVARIANTS NoEntryLost SizeExact NoDangling GetRegular
PROPERTY WaitReturns
