SPECIFICATION MCFairSpec
CONSTANTS
  Opens = {1, 2, 3, 4}
  Objects = {o1}
  Holes = {h1, h2}
  NoHole = NoHole
  Modes = {"read_immediate", "write_immediate", "read_blocking", "write_blocking"}
INVARIANTS CountsMatchActive ExclusionUnlessRaced
PROPERTIES GrantIsFinal SleepersServed
CHECK_DEADLOCK FALSE
