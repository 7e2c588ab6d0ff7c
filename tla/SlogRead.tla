------------------------------ MODULE SlogRead -----------------------------
(***************************************************************************)
(* How seglog_read_func splits a read of lo..hi over the data segment and  *)
(* the base segment: a sequence of pieces that fill the buffer one after   *)
(* the other.                                                              *)
(***************************************************************************)
EXTENDS SlogRanges, Sequences
LOCAL Ext == INSTANCE SequencesExt

Piece(seg, offset, len) == [seg |-> seg, offset |-> offset, len |-> len]

NonePrev == -1

\* prev_end before a range: "Have a hole" sets it to lo, the first byte of
\* the hole.
PrevEnd(acc, ir, lo) ==
  IF acc.prev_end # NonePrev THEN acc.prev_end
  ELSE IF ir.lo > lo THEN lo ELSE ir.lo - 1

\* One turn of the loop over the ranges that overlap lo..hi.
ReadStep(acc, ir, lo, hi) ==
  LET hole  == PrevEnd(acc, ir, lo) # ir.lo - 1
      start == IF hole THEN ir.lo ELSE acc.pos
      len   == (IF ir.hi > hi THEN hi ELSE ir.hi) - start + 1
      skip  == IF ir.lo < lo THEN lo - ir.lo ELSE 0
  IN  [pos      |-> start + len,
       prev_end |-> ir.hi,
       plan     |-> acc.plan
                     \o (IF hole THEN <<Piece("base", acc.pos, ir.lo - acc.pos)>>
                                 ELSE <<>>)
                     \o <<Piece("data", ir.data_offset + skip, len)>>]

ReadTail_Forgotten(acc, lo, hi) ==
  IF acc.prev_end = NonePrev THEN <<Piece("base", lo, hi - lo + 1)>> ELSE <<>>

\* What the base has to supply behind the last range.
ReadTail(acc, lo, hi) ==
  IF acc.prev_end = NonePrev THEN <<Piece("base", lo, hi - lo + 1)>>
  ELSE IF acc.prev_end < hi THEN <<Piece("base", acc.pos, hi - acc.prev_end)>>
  ELSE <<>>

ReadPlan(m, lo, hi) ==
  LET hits == Ext!SetToSortSeq(Hits(m, lo, hi), LAMBDA a, b : a.lo < b.lo)
      acc  == Ext!FoldLeft(LAMBDA a, ir : ReadStep(a, ir, lo, hi),
                           [pos |-> lo, prev_end |-> NonePrev, plan |-> <<>>], hits)
  IN  acc.plan \o ReadTail(acc, lo, hi)

\* The segment and offset that each byte of the buffer is read from.
Sources(plan) ==
  Ext!FoldLeft(LAMBDA buf, x :
                 buf \o [k \in 1..x.len |-> [seg |-> x.seg, offset |-> x.offset + k - 1]],
               <<>>, plan)

\* The read starts exactly one byte before the first range it meets.
OneByteHole(m, lo, hi) == \E ir \in Lowest(Hits(m, lo, hi)) : ir.lo = lo + 1
=============================================================================
