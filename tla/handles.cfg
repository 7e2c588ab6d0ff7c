SPECIFICATION Spec
CONSTANTS
  a = a
  b = b
  c = c
  Threads <- MCThreads
  Fails = TRUE
  MaxOps = 5
SYMMETRY Symmetry
INVARIANTS RefCounted OpenFdsLive LoadedOnce StoredUnlessRaced
