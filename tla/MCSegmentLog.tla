--------------------------- MODULE MCSegmentLog ----------------------------
(* Small instances of SegmentLog for TLC. *)
EXTENDS SegmentLog

Symmetry == Permutations(Calls)

Iov(o, n) == [offset |-> o, len |-> n]

\* Writes that overlap, contain, adjoin and miss each other, one of two iovs.
SomeIovs == {<<Iov(0, 3)>>, <<Iov(1, 1)>>, <<Iov(2, 1), Iov(0, 1)>>}
TwoIovs  == {<<Iov(0, 2)>>, <<Iov(1, 2)>>}
=============================================================================
