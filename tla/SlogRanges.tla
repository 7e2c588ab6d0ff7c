---------------------------- MODULE SlogRanges -----------------------------
(***************************************************************************)
(* The range table of a log segment (segment_log.c).                       *)
(*                                                                         *)
(* s->mapping is an interval skip list of slog_range_t: file bytes lo..hi  *)
(* are found at data_offset of the data segment.  Here it is the set of    *)
(* those ranges.  _slog_insert_range lays a new range over the old ones,   *)
(* _slog_truncate_range cuts the table at a new end of file.               *)
(***************************************************************************)
EXTENDS Integers, FiniteSets

Ranges == [lo : Int, hi : Int, data_offset : Int]

\* Which ranges iter_search_interval_skiplist(lo, hi) returns.
Overlaps(ir, lo, hi) == ir.lo <= hi /\ lo <= ir.hi

Hits(m, lo, hi) == {ir \in m : Overlaps(ir, lo, hi)}

\* The range an iterator returns first: the one that starts lowest.
Lowest(s) == {ir \in s : \A x \in s : ir.lo <= x.lo}

\* What is left of ir before and behind r.
Before(ir, r) == [lo |-> ir.lo, hi |-> r.lo - 1, data_offset |-> ir.data_offset]
Behind(ir, r)  == [lo |-> r.hi + 1, hi |-> ir.hi,
                 data_offset |-> ir.data_offset + (r.hi + 1 - ir.lo)]

Cut_KeepsContained(m, r) ==
  LET hit == Hits(m, r.lo, r.hi)
  IN  (m \ {x \in hit : x.lo < r.lo \/ x.hi > r.hi})
        \cup {Before(ir, r) : ir \in {x \in hit : x.lo < r.lo}}
        \cup {Behind(ir, r) : ir \in {x \in hit : x.hi > r.hi}}

\* _slog_insert_range: the loop that clears the bytes of r in the table.
Cut(m, r) ==
  LET hit == Hits(m, r.lo, r.hi)
  IN  (m \ hit)
        \cup {Before(ir, r) : ir \in {x \in hit : x.lo < r.lo}}
        \cup {Behind(ir, r) : ir \in {x \in hit : x.hi > r.hi}}

\* The range in front of r whose data ends where the data of r begins.
Adjoins(ir, r) ==
  /\ Overlaps(ir, r.lo - 1, r.hi)
  /\ ir.data_offset + (ir.hi - ir.lo + 1) = r.data_offset

Join(ir, r) == [lo |-> ir.lo, hi |-> r.hi, data_offset |-> ir.data_offset]

\* _slog_insert_range: "Check if this range can be combined with the previous".
Combine(m, r) ==
  IF \E ir \in m : Adjoins(ir, r)
  THEN LET ir == CHOOSE x \in m : Adjoins(x, r)
       IN  (m \ {ir}) \cup {Join(ir, r)}
  ELSE m \cup {r}

InsertRange(m, r) == Combine(Cut(m, r), r)

InsertSize(size, r) == IF r.hi >= size THEN r.hi + 1 ELSE size

\* _slog_truncate_range: ranges are dropped in batches of bufmax.
bufmax == 100

\* _slog_truncate_range.  A range that straddles the new end is cut, and the
\* iterator restarted; the range it returns next is not put in r_table, so it
\* stays, unless a full batch makes the iterator start over.
TruncateRange(m, hi, size) ==
  LET hit      == Hits(m, hi + 1, size)
      straddle == {ir \in hit : ir.lo <= hi}
      past     == hit \ straddle
      missed   == IF straddle # {} /\ Cardinality(past) <= bufmax
                  THEN Lowest(past) ELSE {}
      cut      == {[lo |-> ir.lo, hi |-> hi, data_offset |-> ir.data_offset] :
                     ir \in straddle}
  IN  (m \ hit) \cup cut \cup missed

-----------------------------------------------------------------------------
\* Where the table says byte p is: offsets in the data segment.
Offsets(m, p) ==
  {ir.data_offset + (p - ir.lo) : ir \in {x \in m : x.lo <= p /\ p <= x.hi}}

\* No byte of the file is claimed by two ranges and no range is empty.
Disjoint(m) ==
  /\ \A ir \in m : ir.lo <= ir.hi
  /\ \A a, b \in m : a # b => ~Overlaps(a, b.lo, b.hi)

=============================================================================
