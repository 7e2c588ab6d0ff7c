SPECIFICATION Spec
CONSTANTS
  Opens = {t1, t2, t3, t4}
  Objects = {o1}
  Holes = {h1, h2}
  NoHole = NoHole
  Modes = {"read_blocking", "write_blocking"}
SYMMETRY Symmetry
INVARIANT MutualExclusion
CHECK_DEADLOCK FALSE
