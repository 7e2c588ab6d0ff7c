--------------------------- MODULE MCOsFileLocks ---------------------------
(* OsFileLocks for TLC: opens, objects and holes are interchangeable.      *)
EXTENDS OsFileLocks, TLC

(* Which opener has which mode does not matter: with numbered openers only *)
(* the ordered assignments are needed.  Modes never change.                *)
Rank(m) == CASE m = READ_IMMEDIATE -> 1 [] m = WRITE_IMMEDIATE -> 2
             [] m = READ_BLOCKING -> 3 [] m = WRITE_BLOCKING -> 4
ModesOrdered == \A t, u \in Opens : t < u => Rank(mode[t]) <= Rank(mode[u])
MCInit == Init /\ ModesOrdered
MCFairSpec == MCInit /\ [][Next]_vars /\ Fairness

Symmetry == Permutations(Opens) \cup Permutations(Holes) \cup Permutations(Objects)
=============================================================================
