SPECIFICATION Spec
CONSTANTS
  Calls = {w1, w2, w3}
  Kinds = {"write", "truncate", "merge"}
  IovLists <- TwoIovs
  NewSizes = {1, 3}
  MaxPos = 4
  MaxSlots = 4
  MaxData = 9
  BaseLen = 2
  MaxFaults = 1
  MaxCrashes = 1
  NoCall = NoCall
SYMMETRY Symmetry
INVARIANTS NewestWins LoadRecoversAcked
PROPERTIES MergeCopiesLog
