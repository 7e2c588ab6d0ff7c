SPECIFICATION Spec
CONSTANTS
  t1 = t1
  t2 = t2
  Paths <- MCFewPaths
  Keys = {"x"}
  Vals = {1}
  Threads <- MCThreads
  SlotOf <- MCSlotOf
  SeedFile <- MCSeedFile
  SeedName <- MCSeedName
  MaxOps = 3
  MaxHard = 1
  Crashes = FALSE
  AbortEvery = 1
SYMMETRY Symmetry
INVARIANT NoLockCycle
CHECK_DEADLOCK FALSE
