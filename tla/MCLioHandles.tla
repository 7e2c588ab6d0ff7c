----------------------------- MODULE MCLioHandles -----------------------------
(* Small instances of the shared file handles.                             *)
EXTENDS LioHandles, TLC

CONSTANTS a, b, c
MCThreads == {a, b, c}
Symmetry == Permutations(MCThreads)
===============================================================================
