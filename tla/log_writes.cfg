SPECIFICATION Spec
CONSTANTS
  Calls = {w1, w2, w3}
  Kinds = {"write", "read"}
  IovLists <- SomeIovs
  NewSizes = {}
  MaxPos = 3
  MaxSlots = 6
  MaxData = 9
  BaseLen = 1
  MaxFaults = 1
  MaxCrashes = 1
  NoCall = NoCall
SYMMETRY Symmetry
INVARIANTS  ReadsRight
