CONSTANTS
  Lists = {l1, l2}
  Depots = {d1}
  Dynamic = TRUE
  Draws = {0, 1}
  MaxClock = 2
  MaxEdits = 1
  MaxFlips = 1
  MaxLoss = 1
  r1 = r1
  r2 = r2
  r3 = r3
  r4 = r4
  gone = gone
  Lost = Lost
  NoVal = NoVal
  RSlots <- PSlots
  RAttr <- PAttr
  RQueries <- PQueries
  RLocals <- PLocals
  RRows <- PRows
  MaxRounds = 3
  Mount = {f1, f2}
  Tools = {x1}
  Names = {a, b}
  Hidden = Hidden
  NoName = NoName
  MaxObj = 2
  MaxNsOps = 3
  MaxNsFaults = 1
SPECIFICATION MCSpec
INVARIANTS VersionCovered NamedDataKept  
PROPERTIES ClientsCatchUp PlacementSound
CHECK_DEADLOCK FALSE
