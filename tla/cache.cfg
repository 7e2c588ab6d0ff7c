SPECIFICATION Spec
CONSTANTS
  u1 = u1
  u2 = u2
  d1 = d1
  Users <- MCUsers
  Daemons <- MCDaemons
  NPages = 2
  MaxPages = 1
  OverflowPages = 2
  Reads <- MCReads
  Writes <- MCWrites
  ChildPages = 1
  ChildFails = TRUE
  MaxOps = 3
SYMMETRY Symmetry
INVARIANTS NewestKept ReadsFresh FlushReachesChildUnlessCopied
