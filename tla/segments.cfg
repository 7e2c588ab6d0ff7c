CONSTANTS
  NDev = 2
  Chunk = 2
  MaxBlock = 4
  Shift = 1
  Excess = 1
  LSlots = {s1, s2}
  Vectors <- LunIovs
  Values = {1}
  MaxSize = 12
  StartSizes = {0, 12}
  TruncSizes <- LunTruncs
  BadDevs = {{}, {1}}
  Placements <- LunPlacements
  LunModes <- LunFlags
  MaxLunOps = 3
  MaxLunFaults = 1
  MaxRemaps = 1
  MaxSlot = 3
  NExcess = 1
  NVectors <- LinIovs
  NValues = {1}
  NMaxSize = 6
  NTruncSizes <- LinTruncs
  NCalls = {c1, c2}
  MaxLinOps = 3
  MaxLinFaults = 1
  NData = 3
  NParity = 2
  MaxStripes = 1
  Data = {x1, x2}
  Zero = Zero
  Junk = Junk
  NoMagic = NoMagic
  OldMagic = OldMagic
  Blacklist = FALSE
  Modes <- JeModes
  FailSets <- JeFailSets
  Faulty = {0}
  MaxWrites = 1
  MaxFaults = 1
  MaxInspects = 1
  MaxLoops = 2
  Half = 2
  SrcLens = {0, 1, 2, 3, 5}
  DestLens = {0, 3, 6}
  MaxCopyFaults = 1
  PpSize = 3
  PpCount = 2
  PpBytes = 9
  PpRanges <- SmallRanges
  PpCuts = {4}
  PpCalls = {q1, q2}
  MaxPpOps = 3
SPECIFICATION MCSpec
INVARIANTS   CopyExact SmallWritesKept
   
SYMMETRY Sym
CHECK_DEADLOCK FALSE
