SPECIFICATION Spec
CONSTANTS
  t1 = t1
  t2 = t2
  Paths <- MCPaths
  Keys = {"x", "y"}
  Vals = {1}
  Threads <- MCThreads
  SlotOf <- MCSlotOf
  SeedFile <- MCSeedFile
  SeedName <- MCSeedName
  MaxOps = 2
  MaxHard = 1
  Crashes = TRUE
  AbortEvery = 1
SYMMETRY Symmetry
INVARIANTS  NothingLeftOver  CycleOnlyByMultiLock
CHECK_DEADLOCK FALSE
