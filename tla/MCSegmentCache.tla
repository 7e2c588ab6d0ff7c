----------------------------- MODULE MCSegmentCache -----------------------------
(* Small instances of the page cache.                                      *)
EXTENDS SegmentCache, TLC

CONSTANTS u1, u2, d1
MCUsers == {u1, u2}
MCDaemons == {d1}
MCReads == {<<0, {0, 1}>>}
MCReadsBoth == {<<0, {0, 1}>>, <<1, {1}>>}
MCWrites == {<<0, {0}>>, <<1, {0, 1}>>}
MCWritesLive == {<<0, {0}>>, <<0, {0, 1}>>, <<1, {1}>>}
Symmetry == Permutations(MCUsers)
================================================================================
