---------------------------- MODULE MCOsNamespace ----------------------------
(* Small instances of the object service's namespace. *)
EXTENDS OsNamespace, TLC

CONSTANTS t1, t2

(* Three lock slots: collisions happen and the orders differ.              *)
MCSlotOf(x) ==
  IF x[1] = "obj" THEN Len(x[2]) % 3 ELSE IF x[1] = "hard" THEN 1 ELSE 2
MCPaths == {<<>>, <<"a">>, <<"b">>, <<"a", "a">>, <<"b", "a">>}
MCSeedFile == <<"a", "a">>
MCSeedName == <<"b">>
MCFewPaths == {<<>>, <<"a">>, <<"b">>, <<"a", "a">>}
MCThreads == {t1, t2}
Symmetry == Permutations(MCThreads)
==============================================================================
