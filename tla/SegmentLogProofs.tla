-------------------------- MODULE SegmentLogProofs --------------------------
(***************************************************************************)
(* LogInv is an invariant of a log segment that is not truncated, with any *)
(* number of writes, reads and merges in flight, failures and crashes; it  *)
(* implies OnePlace.  MergeInv, with truncates too, is what a merge needs. *)
(* AckInv follows the bytes of acknowledged writes from the reservation to *)
(* the table, the data segment and the mapping, and from there through     *)
(* merges, crashes and loads: it implies NewestWins and LoadRecoversAcked. *)
(* All rest on what _slog_insert_range does to the range table.            *)
(***************************************************************************)
EXTENDS SegmentLog, SequenceTheorems, FiniteSetTheorems, TLAPS

(* The range table: what _slog_insert_range and _slog_truncate_range do to *)
(* it, for every table and every range.                                    *)

\* The bounds of the ranges are integers; data offsets need no type here.
Bounded(m) == \A ir \in m : ir.lo \in Int /\ ir.hi \in Int

Covers(ir, p) == ir.lo <= p /\ p <= ir.hi

-----------------------------------------------------------------------------
\* Clearing the bytes of r leaves ranges that do not overlap each other.
LEMMA CutDisjoint ==
  ASSUME NEW m, Bounded(m), Disjoint(m),
         NEW r, r.lo \in Int, r.hi \in Int, r.lo <= r.hi
  PROVE  Bounded(Cut(m, r)) /\ Disjoint(Cut(m, r))
<1> DEFINE hit == Hits(m, r.lo, r.hi)
           A == m \ hit
           B == {Before(ir, r) : ir \in {x \in hit : x.lo < r.lo}}
           C == {Behind(ir, r) : ir \in {x \in hit : x.hi > r.hi}}
<1>0. Cut(m, r) = A \cup B \cup C
  BY DEF Cut
<1>1. \A x \in A : x \in m /\ x.lo \in Int /\ x.hi \in Int /\ x.lo <= x.hi
                     /\ (x.hi < r.lo \/ r.hi < x.lo)
  BY DEF Hits, Overlaps, Bounded, Disjoint
<1>2. \A x \in B : \E ir \in m : /\ x.lo = ir.lo /\ x.hi = r.lo - 1 /\ x = Before(ir, r)
                                 /\ ir.lo \in Int /\ ir.hi \in Int
                                 /\ ir.lo < r.lo /\ r.lo <= ir.hi
  BY DEF Hits, Overlaps, Bounded, Before
<1>3. \A x \in C : \E ir \in m : /\ x.lo = r.hi + 1 /\ x.hi = ir.hi /\ x = Behind(ir, r)
                                 /\ ir.lo \in Int /\ ir.hi \in Int
                                 /\ ir.lo <= r.hi /\ r.hi < ir.hi
  BY DEF Hits, Overlaps, Bounded, Behind
<1>4. \A a, b \in m : a # b => a.hi < b.lo \/ b.hi < a.lo
  BY DEF Disjoint, Overlaps, Bounded
<1> HIDE DEF A, B, C
<1>5. Bounded(A \cup B \cup C)
  BY <1>1, <1>2, <1>3 DEF Bounded
<1>6. \A x \in A \cup B \cup C : x.lo <= x.hi
  BY <1>1, <1>2, <1>3
<1>7. \A a \in A, b \in A : a # b => a.hi < b.lo \/ b.hi < a.lo
  BY <1>1, <1>4
<1>8. \A a \in A, b \in B : a.hi < b.lo \/ b.hi < a.lo
  BY <1>1, <1>2, <1>4
<1>9. \A a \in A, b \in C : a.hi < b.lo \/ b.hi < a.lo
  BY <1>1, <1>3, <1>4
<1>10. \A a \in B, b \in B : a = b
  <2> SUFFICES ASSUME NEW a \in B, NEW b \in B PROVE a = b
    OBVIOUS
  <2>1. PICK x \in m : a = Before(x, r) /\ x.lo \in Int /\ x.hi \in Int
                         /\ x.lo < r.lo /\ r.lo <= x.hi
    BY <1>2
  <2>2. PICK y \in m : b = Before(y, r) /\ y.lo \in Int /\ y.hi \in Int
                         /\ y.lo < r.lo /\ r.lo <= y.hi
    BY <1>2
  <2>3. x = y
    BY <2>1, <2>2, <1>4
  <2> QED BY <2>1, <2>2, <2>3
<1>11. \A a \in C, b \in C : a = b
  <2> SUFFICES ASSUME NEW a \in C, NEW b \in C PROVE a = b
    OBVIOUS
  <2>1. PICK x \in m : a = Behind(x, r) /\ x.lo \in Int /\ x.hi \in Int
                         /\ x.lo <= r.hi /\ r.hi < x.hi
    BY <1>3
  <2>2. PICK y \in m : b = Behind(y, r) /\ y.lo \in Int /\ y.hi \in Int
                         /\ y.lo <= r.hi /\ r.hi < y.hi
    BY <1>3
  <2>3. x = y
    BY <2>1, <2>2, <1>4
  <2> QED BY <2>1, <2>2, <2>3
<1>12. \A a \in B, b \in C : a.hi < b.lo
  BY <1>2, <1>3
<1>13. \A a, b \in A \cup B \cup C : a # b => a.hi < b.lo \/ b.hi < a.lo
  <2> SUFFICES ASSUME NEW a \in A \cup B \cup C, NEW b \in A \cup B \cup C, a # b
               PROVE  a.hi < b.lo \/ b.hi < a.lo
    OBVIOUS
  <2>1. CASE a \in A
    BY <2>1, <1>7, <1>8, <1>9
  <2>2. CASE a \in B
    BY <2>2, <1>8, <1>10, <1>12
  <2>3. CASE a \in C
    BY <2>3, <1>9, <1>11, <1>12
  <2> QED BY <2>1, <2>2, <2>3
<1> QED
  BY <1>0, <1>5, <1>6, <1>13 DEF Disjoint, Overlaps, Bounded

\* ... and none of them overlaps r.
LEMMA CutClears ==
  ASSUME NEW m, Bounded(m), NEW r, r.lo \in Int, r.hi \in Int, r.lo <= r.hi
  PROVE  \A x \in Cut(m, r) : x.hi < r.lo \/ r.hi < x.lo
<1> DEFINE hit == Hits(m, r.lo, r.hi)
<1>1. \A x \in m \ hit : x.hi < r.lo \/ r.hi < x.lo
  BY DEF Hits, Overlaps, Bounded
<1>2. \A x \in {Before(ir, r) : ir \in {y \in hit : y.lo < r.lo}} : x.hi < r.lo
  BY DEF Before
<1>3. \A x \in {Behind(ir, r) : ir \in {y \in hit : y.hi > r.hi}} : r.hi < x.lo
  BY DEF Behind
<1> QED
  BY <1>1, <1>2, <1>3 DEF Cut

\* Entering a range keeps the table free of overlaps.
THEOREM InsertDisjoint ==
  ASSUME NEW m, Bounded(m), Disjoint(m),
         NEW r, r.lo \in Int, r.hi \in Int, r.lo <= r.hi
  PROVE  Bounded(InsertRange(m, r)) /\ Disjoint(InsertRange(m, r))
<1> DEFINE c == Cut(m, r)
<1>1. Bounded(c) /\ Disjoint(c)
  BY CutDisjoint
<1>2. \A x \in c : x.hi < r.lo \/ r.hi < x.lo
  BY CutClears
<1>3. InsertRange(m, r) = Combine(c, r)
  BY DEF InsertRange
<1> HIDE DEF c
<1>4. \A a, b \in c : a # b => a.hi < b.lo \/ b.hi < a.lo
  BY <1>1 DEF Disjoint, Overlaps, Bounded
<1>5. \A x \in c : x.lo \in Int /\ x.hi \in Int /\ x.lo <= x.hi
  BY <1>1 DEF Bounded, Disjoint
<1>6. CASE \E ir \in c : Adjoins(ir, r)
  <2> DEFINE ir == CHOOSE x \in c : Adjoins(x, r)
  <2>1. ir \in c /\ Adjoins(ir, r)
    BY <1>6
  <2>2. Combine(c, r) = (c \ {ir}) \cup {Join(ir, r)}
    BY <1>6 DEF Combine
  <2> HIDE DEF ir
  <2>3. ir.lo <= r.hi /\ r.lo - 1 <= ir.hi
    BY <2>1 DEF Adjoins, Overlaps
  <2>4. ir.hi = r.lo - 1 /\ ir.lo <= ir.hi
    BY <2>1, <2>3, <1>2, <1>5
  <2>5. \A x \in c \ {ir} : x.hi < ir.lo \/ r.hi < x.lo
    BY <2>1, <2>4, <1>2, <1>4, <1>5
  <2>6. Join(ir, r).lo = ir.lo /\ Join(ir, r).hi = r.hi
    BY DEF Join
  <2>7. \A x \in (c \ {ir}) \cup {Join(ir, r)} :
          x.lo \in Int /\ x.hi \in Int /\ x.lo <= x.hi
    BY <2>1, <2>4, <2>6, <1>5
  <2>8. \A a, b \in (c \ {ir}) \cup {Join(ir, r)} :
          a # b => a.hi < b.lo \/ b.hi < a.lo
    BY <2>5, <2>6, <1>4
  <2> QED
    BY <2>2, <2>7, <2>8, <1>3 DEF Bounded, Disjoint, Overlaps
<1>7. CASE ~ \E ir \in c : Adjoins(ir, r)
  <2>1. Combine(c, r) = c \cup {r}
    BY <1>7 DEF Combine
  <2>2. \A x \in c \cup {r} : x.lo \in Int /\ x.hi \in Int /\ x.lo <= x.hi
    BY <1>5
  <2>3. \A a, b \in c \cup {r} : a # b => a.hi < b.lo \/ b.hi < a.lo
    BY <1>2, <1>4
  <2> QED
    BY <2>1, <2>2, <2>3, <1>3 DEF Bounded, Disjoint, Overlaps
<1> QED
  BY <1>6, <1>7

-----------------------------------------------------------------------------
\* A byte of a table without overlaps has at most one place.
LEMMA OneCover ==
  ASSUME NEW m, Bounded(m), Disjoint(m), NEW p \in Int,
         NEW a \in m, NEW b \in m, Covers(a, p), Covers(b, p)
  PROVE  a = b
BY DEF Bounded, Disjoint, Overlaps, Covers

LEMMA OffsetsOf ==
  ASSUME NEW m, Bounded(m), Disjoint(m), NEW p \in Int,
         NEW a \in m, Covers(a, p)
  PROVE  Offsets(m, p) = {a.data_offset + (p - a.lo)}
<1>1. {x \in m : x.lo <= p /\ p <= x.hi} = {a}
  BY OneCover DEF Covers
<1> QED
  BY <1>1 DEF Offsets

LEMMA OffsetsNone ==
  ASSUME NEW m, NEW p, \A x \in m : ~Covers(x, p)
  PROVE  Offsets(m, p) = {}
BY DEF Offsets, Covers

LEMMA OffsetsAtMostOne ==
  ASSUME NEW m, Bounded(m), Disjoint(m), NEW p \in Int
  PROVE  Cardinality(Offsets(m, p)) <= 1
<1>1. CASE \E a \in m : Covers(a, p)
  <2>1. PICK a \in m : Covers(a, p)
    BY <1>1
  <2>2. PICK o : Offsets(m, p) = {o}
    BY <2>1, OffsetsOf
  <2>3. Cardinality({o}) = 1
    BY FS_Singleton
  <2> QED
    BY <2>2, <2>3
<1>2. CASE ~ \E a \in m : Covers(a, p)
  <2>1. Offsets(m, p) = {}
    BY <1>2, OffsetsNone
  <2> QED
    BY <2>1, FS_EmptySet
<1> QED
  BY <1>1, <1>2

\* Clearing the bytes of r moves no other byte.
LEMMA CutKeepsOthers ==
  ASSUME NEW m, m \subseteq Ranges, Disjoint(m),
         NEW r \in Ranges, r.lo <= r.hi,
         NEW p \in Int, ~Covers(r, p)
  PROVE  Offsets(Cut(m, r), p) = Offsets(m, p)
<1> DEFINE hit == Hits(m, r.lo, r.hi)
<1>0. Bounded(m) /\ r.lo \in Int /\ r.hi \in Int /\ r.data_offset \in Int
  BY DEF Bounded, Ranges
<1>1. Bounded(Cut(m, r)) /\ Disjoint(Cut(m, r))
  BY <1>0, CutDisjoint
<1>2. CASE \E a \in m : Covers(a, p)
  <2>1. PICK a \in m : Covers(a, p)
    BY <1>2
  <2>2. Offsets(m, p) = {a.data_offset + (p - a.lo)}
    BY <2>1, <1>0, OffsetsOf
  <2>3. a.lo \in Int /\ a.hi \in Int /\ a.data_offset \in Int
    BY DEF Ranges
  <2>4. CASE a \notin hit
    <3>1. a \in Cut(m, r)
      BY <2>4 DEF Cut
    <3> QED
      BY <3>1, <2>1, <2>2, <1>1, OffsetsOf
  <2>5. CASE a \in hit /\ p < r.lo
    <3>1. a.lo < r.lo
      BY <2>1, <2>3, <2>5, <1>0 DEF Covers
    <3>2. PICK b \in Cut(m, r) : b = Before(a, r)
      BY <2>5, <3>1 DEF Cut
    <3>3. Covers(b, p) /\ b.data_offset + (p - b.lo) = a.data_offset + (p - a.lo)
      BY <2>1, <2>3, <2>5, <3>2, <1>0 DEF Covers, Before
    <3> QED
      BY <3>3, <2>2, <1>1, OffsetsOf
  <2>6. CASE a \in hit /\ r.hi < p
    <3>1. a.hi > r.hi
      BY <2>1, <2>3, <2>6, <1>0 DEF Covers
    <3>2. PICK b \in Cut(m, r) : b = Behind(a, r)
      BY <2>6, <3>1 DEF Cut
    <3>3. Covers(b, p) /\ b.data_offset + (p - b.lo) = a.data_offset + (p - a.lo)
      BY <2>1, <2>3, <2>6, <3>2, <1>0 DEF Covers, Behind
    <3> QED
      BY <3>3, <2>2, <1>1, OffsetsOf
  <2> QED
    BY <2>4, <2>5, <2>6, <1>0 DEF Covers
<1>3. CASE ~ \E a \in m : Covers(a, p)
  <2>1. \A x \in m : x.lo \in Int /\ x.hi \in Int
    BY DEF Ranges
  <2>2. \A x \in m \ hit : ~Covers(x, p)
    BY <1>3
  <2>3. \A x \in {Before(ir, r) : ir \in {y \in hit : y.lo < r.lo}} : ~Covers(x, p)
    BY <1>3, <2>1, <1>0 DEF Before, Covers, Hits, Overlaps
  <2>4. \A x \in {Behind(ir, r) : ir \in {y \in hit : y.hi > r.hi}} : ~Covers(x, p)
    BY <1>3, <2>1, <1>0 DEF Behind, Covers, Hits, Overlaps
  <2>5. \A x \in Cut(m, r) : ~Covers(x, p)
    BY <2>2, <2>3, <2>4 DEF Cut
  <2> QED
    BY <2>5, <1>3, OffsetsNone
<1> QED
  BY <1>2, <1>3

LEMMA CutInRanges ==
  ASSUME NEW m, m \subseteq Ranges, NEW r \in Ranges
  PROVE  Cut(m, r) \subseteq Ranges
BY DEF Cut, Hits, Before, Behind, Ranges

\* _slog_insert_range lays r over the table: the bytes of r are found where r
\* says, every other byte where it was found before, whatever was split,
\* trimmed, dropped or combined on the way.
THEOREM InsertOverlays ==
  ASSUME NEW m, m \subseteq Ranges, Disjoint(m),
         NEW r \in Ranges, r.lo <= r.hi, NEW p \in Int
  PROVE  Offsets(InsertRange(m, r), p) =
           IF r.lo <= p /\ p <= r.hi THEN {r.data_offset + (p - r.lo)}
           ELSE Offsets(m, p)
<1> DEFINE c == Cut(m, r)
<1>0. Bounded(m) /\ r.lo \in Int /\ r.hi \in Int /\ r.data_offset \in Int
  BY DEF Bounded, Ranges
<1>1. Bounded(c) /\ Disjoint(c) /\ c \subseteq Ranges
  BY <1>0, CutDisjoint, CutInRanges
<1>2. \A x \in c : x.hi < r.lo \/ r.hi < x.lo
  BY <1>0, CutClears
<1>3. ~Covers(r, p) => Offsets(c, p) = Offsets(m, p)
  BY CutKeepsOthers
<1>4. /\ InsertRange(m, r) = Combine(c, r)
      /\ Bounded(Combine(c, r)) /\ Disjoint(Combine(c, r))
  BY <1>0, InsertDisjoint DEF InsertRange
<1> HIDE DEF c
<1>5. CASE \E ir \in c : Adjoins(ir, r)
  <2> DEFINE ir == CHOOSE x \in c : Adjoins(x, r)
             j  == Join(ir, r)
  <2>1. ir \in c /\ Adjoins(ir, r)
    BY <1>5
  <2>2. Combine(c, r) = (c \ {ir}) \cup {j}
    BY <1>5 DEF Combine
  <2>3. ir.lo \in Int /\ ir.hi \in Int /\ ir.data_offset \in Int /\ ir.lo <= ir.hi
    BY <2>1, <1>1 DEF Ranges, Disjoint
  <2> HIDE DEF ir
  <2>4. /\ ir.hi = r.lo - 1
        /\ r.data_offset = ir.data_offset + (ir.hi - ir.lo + 1)
    BY <2>1, <2>3, <1>0, <1>2 DEF Adjoins, Overlaps
  <2>5. j.lo = ir.lo /\ j.hi = r.hi /\ j.data_offset = ir.data_offset
    BY DEF Join
  <2> HIDE DEF j
  <2>6. CASE Covers(r, p)
    <3>1. Covers(j, p)
      BY <2>3, <2>4, <2>5, <2>6, <1>0 DEF Covers
    <3>2. Offsets(Combine(c, r), p) = {j.data_offset + (p - j.lo)}
      BY <2>2, <3>1, <1>4, OffsetsOf
    <3> QED
      BY <2>3, <2>4, <2>5, <2>6, <3>2, <1>0, <1>4 DEF Covers
  <2>7. CASE Covers(ir, p)
    <3>1. Covers(j, p) /\ ~Covers(r, p)
      BY <2>3, <2>4, <2>5, <2>7, <1>0 DEF Covers
    <3>2. Offsets(Combine(c, r), p) = {j.data_offset + (p - j.lo)}
      BY <2>2, <3>1, <1>4, OffsetsOf
    <3>3. Offsets(c, p) = {ir.data_offset + (p - ir.lo)}
      BY <2>1, <2>7, <1>1, OffsetsOf
    <3> QED
      BY <2>5, <3>1, <3>2, <3>3, <1>3, <1>4 DEF Covers
  <2>8. CASE ~Covers(r, p) /\ ~Covers(ir, p)
    <3>1. ~Covers(j, p)
      BY <2>3, <2>4, <2>5, <2>8, <1>0 DEF Covers
    <3>2. {x \in Combine(c, r) : x.lo <= p /\ p <= x.hi}
            = {x \in c : x.lo <= p /\ p <= x.hi}
      BY <2>1, <2>2, <2>8, <3>1 DEF Covers
    <3>3. Offsets(Combine(c, r), p) = Offsets(c, p)
      BY <3>2 DEF Offsets
    <3> QED
      BY <3>3, <2>8, <1>3, <1>4 DEF Covers
  <2> QED
    BY <2>6, <2>7, <2>8
<1>6. CASE ~ \E ir \in c : Adjoins(ir, r)
  <2>1. Combine(c, r) = c \cup {r}
    BY <1>6 DEF Combine
  <2>2. CASE Covers(r, p)
    <3>1. Offsets(Combine(c, r), p) = {r.data_offset + (p - r.lo)}
      BY <2>1, <2>2, <1>4, OffsetsOf
    <3> QED
      BY <3>1, <2>2, <1>4 DEF Covers
  <2>3. CASE ~Covers(r, p)
    <3>1. {x \in c \cup {r} : x.lo <= p /\ p <= x.hi}
            = {x \in c : x.lo <= p /\ p <= x.hi}
      BY <2>3 DEF Covers
    <3>2. Offsets(Combine(c, r), p) = Offsets(c, p)
      BY <2>1, <3>1 DEF Offsets
    <3> QED
      BY <3>2, <2>3, <1>3, <1>4 DEF Covers
  <2> QED
    BY <2>2, <2>3
<1> QED
  BY <1>5, <1>6

-----------------------------------------------------------------------------
\* Cutting the table at an end of file keeps it free of overlaps.
THEOREM TruncateDisjoint ==
  ASSUME NEW m, Bounded(m), Disjoint(m), NEW hi \in Int, NEW size
  PROVE  Bounded(TruncateRange(m, hi, size)) /\ Disjoint(TruncateRange(m, hi, size))
<1> DEFINE hit == Hits(m, hi + 1, size)
           straddle == {ir \in hit : ir.lo <= hi}
           past == hit \ straddle
           missed == IF straddle # {} /\ Cardinality(past) <= bufmax
                     THEN Lowest(past) ELSE {}
           cut == {[lo |-> ir.lo, hi |-> hi, data_offset |-> ir.data_offset] :
                     ir \in straddle}
           kept == (m \ hit) \cup missed
<1>0. TruncateRange(m, hi, size) = kept \cup cut
  BY DEF TruncateRange
<1>1. \A x \in m : x.lo \in Int /\ x.hi \in Int /\ x.lo <= x.hi
  BY DEF Bounded, Disjoint
<1>2. \A a, b \in m : a # b => a.hi < b.lo \/ b.hi < a.lo
  BY <1>1 DEF Disjoint, Overlaps
<1>3. kept \subseteq m /\ \A x \in kept : x \notin straddle
  BY DEF Hits, Lowest
<1>4. \A x \in cut : \E ir \in m : /\ ir \in straddle
                                   /\ x = [lo |-> ir.lo, hi |-> hi, data_offset |-> ir.data_offset]
                                   /\ x.lo = ir.lo /\ x.hi = hi
                                   /\ ir.lo <= hi /\ hi + 1 <= ir.hi
  BY DEF Hits, Overlaps
<1> HIDE DEF kept, cut, straddle
<1>5. \A x \in kept \cup cut : x.lo \in Int /\ x.hi \in Int /\ x.lo <= x.hi
  BY <1>1, <1>3, <1>4
<1>6. \A a \in kept, b \in kept : a # b => a.hi < b.lo \/ b.hi < a.lo
  BY <1>2, <1>3
<1>7. \A a \in kept, b \in cut : a.hi < b.lo \/ b.hi < a.lo
  <2> SUFFICES ASSUME NEW a \in kept, NEW b \in cut
               PROVE  a.hi < b.lo \/ b.hi < a.lo
    OBVIOUS
  <2>1. PICK ir \in m : /\ ir \in straddle /\ b.lo = ir.lo /\ b.hi = hi
                        /\ ir.lo <= hi /\ hi + 1 <= ir.hi
    BY <1>4
  <2>2. a \in m /\ a # ir
    BY <2>1, <1>3
  <2>3. a.hi < ir.lo \/ ir.hi < a.lo
    BY <2>2, <1>2
  <2> QED
    BY <2>1, <2>2, <2>3, <1>1
<1>8. \A a \in cut, b \in cut : a = b
  <2> SUFFICES ASSUME NEW a \in cut, NEW b \in cut PROVE a = b
    OBVIOUS
  <2>1. PICK x \in m : /\ a = [lo |-> x.lo, hi |-> hi, data_offset |-> x.data_offset]
                       /\ x.lo <= hi /\ hi + 1 <= x.hi
    BY <1>4
  <2>2. PICK y \in m : /\ b = [lo |-> y.lo, hi |-> hi, data_offset |-> y.data_offset]
                       /\ y.lo <= hi /\ hi + 1 <= y.hi
    BY <1>4
  <2>3. x = y
    BY <2>1, <2>2, <1>1, <1>2
  <2> QED
    BY <2>1, <2>2, <2>3
<1>9. \A a, b \in kept \cup cut : a # b => a.hi < b.lo \/ b.hi < a.lo
  BY <1>6, <1>7, <1>8
<1> QED
  BY <1>0, <1>5, <1>9 DEF Bounded, Disjoint, Overlaps

-----------------------------------------------------------------------------
(* Finite sets, for the merges of the log *)

\* What a function takes a finite set to is finite.
LEMMA FiniteRange ==
  ASSUME NEW S, IsFiniteSet(S), NEW f, DOMAIN f = S
  PROVE  IsFiniteSet({f[x] : x \in S})
<1> DEFINE T == {f[x] : x \in S}
           g == [x \in S |-> f[x]]
<1>1. g \in Surjection(S, T)
  BY DEF Surjection
<1> HIDE DEF g, T
<1>2. IsFiniteSet(T)
  BY <1>1, FS_Surjection
<1> QED BY <1>2 DEF T

\* A finite set of integers has a greatest element: the one that the fewest
\* others exceed.
LEMMA GreatestInt ==
  ASSUME NEW S, S \subseteq Int, IsFiniteSet(S), S # {}
  PROVE  \E x \in S : \A y \in S : x >= y
<1> DEFINE Above(x) == {y \in S : y > x}
           T == {Cardinality(Above(x)) : x \in S}
<1>1. \A x \in S : IsFiniteSet(Above(x)) /\ Cardinality(Above(x)) \in Nat
  BY FS_Subset, FS_CardinalityType
<1>2. T \subseteq Nat /\ T # {}
  BY <1>1
<1>3. PICK n \in T : \A m \in T : ~(m < n)
  <2> HIDE DEF T
  <2>1. PICK n \in T : \A m \in T : <<m, n>> \notin OpToRel(<, Nat)
    BY <1>2, WFMin, NatLessThanWellFounded, Zenon
  <2>2. \A m \in T : ~(m < n)
    BY <1>2, <2>1, Zenon DEF OpToRel
  <2> QED BY <2>2
<1>4. PICK x \in S : n = Cardinality(Above(x))
  BY <1>3
<1>5. SUFFICES ASSUME NEW y \in S, y > x PROVE FALSE
  BY <1>4
<1>6. Above(y) \subseteq Above(x) /\ y \in Above(x) /\ y \notin Above(y)
  <2>1. ASSUME NEW z \in Above(y) PROVE z \in Above(x)
    <3>1. z \in S /\ z > y /\ z \in Int /\ y \in Int /\ x \in Int
      BY <2>1
    <3>2. z > x
      BY <1>5, <3>1
    <3> QED BY <3>1, <3>2
  <2>2. y \in Above(x)
    BY <1>5
  <2>3. y \notin Above(y)
    OBVIOUS
  <2> QED BY <2>1, <2>2, <2>3
<1>7. PICK A, B : A = Above(x) /\ B = Above(y)
  OBVIOUS
<1>8. IsFiniteSet(A) /\ B \in SUBSET A /\ A # B
  BY <1>1, <1>6, <1>7
<1>9. Cardinality(B) \in Nat /\ Cardinality(A) \in Nat /\ Cardinality(B) <= Cardinality(A)
      /\ Cardinality(B) # Cardinality(A)
  BY <1>8, FS_Subset, FS_CardinalityType
<1>10. Cardinality(B) < n /\ n \in Nat
  BY <1>4, <1>7, <1>9
<1>11. Cardinality(B) \in T
  BY <1>7
<1> HIDE DEF T
<1> QED BY <1>3, <1>9, <1>10, <1>11

-----------------------------------------------------------------------------
(* The log.                                                                *)

LEMMA GoodInMemory ==
  ASSUME NEW r, GoodRecord(r)
  PROVE  GoodRange(InMemory(r))
BY DEF GoodRecord, GoodRange, InMemory

LEMMA SeqIsSeq ==
  ASSUME NEW S, NEW s \in Seq(S)
  PROVE  IsSeq(s)
<1> DEFINE E == {s[k] : k \in DOMAIN s}
<1>1. Len(s) \in Nat /\ s \in [1..Len(s) -> S] /\ DOMAIN s = 1..Len(s)
  BY LenProperties
<1>2. s \in [1..Len(s) -> E]
  BY <1>1
<1>3. s \in Seq(E)
  BY <1>1, <1>2, SeqDef
<1> QED
  BY <1>3 DEF IsSeq

LEMMA TailGood ==
  ASSUME NEW s, IsSeq(s), s # <<>>, Tail(s) # <<>>,
         \A k \in 1..Len(s) : GoodRange(s[k])
  PROVE  /\ IsSeq(Tail(s))
         /\ \A k \in 1..Len(Tail(s)) : GoodRange(Tail(s)[k])
<1> DEFINE S == {s[k] : k \in DOMAIN s}
<1>1. s \in Seq(S)
  BY DEF IsSeq
<1>2. Tail(s) \in Seq(S) /\ Len(Tail(s)) = Len(s) - 1
  BY <1>1
<1>3. \A k \in 1..Len(Tail(s)) : Tail(s)[k] = s[k + 1]
  BY <1>1
<1>4. \A k \in 1..Len(Tail(s)) : k + 1 \in 1..Len(s)
  BY <1>1, <1>2
<1>5. IsSeq(Tail(s))
  BY <1>2, SeqIsSeq
<1> QED
  BY <1>3, <1>4, <1>5

LEMMA InitLogInv == Init => LogInv
BY LogAssumption DEF Init, LogInv, PCs, Disjoint

\* Steps that enter one more range.
LEMMA EnterKeeps ==
  ASSUME LogInv, NEW r, GoodRange(r), mapping' = InsertRange(mapping, r)
  PROVE  Disjoint(mapping') /\ \A ir \in mapping' : ir.lo \in Int /\ ir.hi \in Int
<1>1. Bounded(mapping) /\ Disjoint(mapping)
  BY DEF LogInv, Bounded
<1>2. r.lo \in Int /\ r.hi \in Int /\ r.lo <= r.hi
  BY DEF GoodRange
<1> QED
  BY <1>1, <1>2, InsertDisjoint DEF Bounded

LEMMA WriteReserveKeeps ==
  ASSUME LogInv, NEW t \in Calls, NEW v \in IovLists, WriteReserve(t, v)
  PROVE  LogInv'
<1>1. v \in Seq([offset : Nat, len : Nat \ {0}]) /\ v # <<>>
  BY LogAssumption
<1>2. Len(v) \in Nat /\ Len(v) > 0 /\ \A k \in 1..Len(v) : v[k].offset \in Nat /\ v[k].len \in Nat \ {0}
  <2>1. Len(v) \in Nat /\ v \in [1..Len(v) -> [offset : Nat, len : Nat \ {0}]]
    BY <1>1, LenProperties
  <2>2. Len(v) > 0
    BY <1>1, <2>1
  <2> QED
    BY <2>1, <2>2
<1> DEFINE sum == SumLen(v)
           F == [k \in 1..Len(v) |-> [lo |-> v[k].offset, hi |-> v[k].len,
                                      data_offset |-> data_size + sum[k - 1]]]
<1> HIDE DEF sum
<1>3. IsSeq(F) /\ Len(F) = Len(v) /\ \A k \in 1..Len(v) : GoodRecord(F[k])
  BY <1>2 DEF IsSeq, GoodRecord
<1>4. /\ pc' = [pc EXCEPT ![t] = "write"]
      /\ recs' = [recs EXCEPT ![t] = F]
      /\ slot' = [slot EXCEPT ![t] = log_size]
      /\ log_size' = log_size + Len(v) /\ log_size + Len(v) <= MaxSlots
      /\ UNCHANGED <<mapping, load_i, table, table_len, todo>>
  BY DEF WriteReserve, sum, storage
<1> HIDE DEF F
<1>5. F # <<>>
  BY <1>2, <1>3
<1>6. RecsInv(t)'
  BY <1>2, <1>3, <1>4, <1>5 DEF RecsInv, LogInv
<1>7. \A u \in Calls : u # t /\ pc'[u] = "write" => RecsInv(u)'
  BY <1>4 DEF LogInv, RecsInv
<1>8. \A u \in Calls : pc'[u] = "insert" => TodoInv(u)'
  BY <1>4 DEF LogInv, TodoInv
<1>9. log_size' \in 0..MaxSlots
  BY <1>2, <1>4, LogAssumption DEF LogInv
<1> QED
  BY <1>4, <1>6, <1>7, <1>8, <1>9 DEF LogInv, PCs

LEMMA ChildWriteKeeps ==
  ASSUME LogInv, NEW t \in Calls, NEW c, NEW ok \in BOOLEAN, NEW landed \in BOOLEAN,
         ChildWrite(t, c, ok, landed)
  PROVE  LogInv'
<1>1. pc[t] = "write" /\ RecsInv(t)
  BY DEF ChildWrite, LogInv, PCs
<1>2. UNCHANGED <<pc, slot, recs, todo, log_size, load_i, mapping>>
  BY DEF ChildWrite, memory
<1>3. Len(recs[t]) \in Nat /\ slot[t] \in Nat /\ slot[t] + Len(recs[t]) <= MaxSlots
  BY <1>1 DEF RecsInv, IsSeq, LogInv
<1>4. /\ \A s \in 0..(MaxSlots - 1) : table'[s] = Blank \/ GoodRecord(table'[s])
      /\ table_len' \in 0..MaxSlots
  <2>1. CASE landed /\ c = "table"
    <3>1. table' = [s \in 0..(MaxSlots - 1) |-> IF s - slot[t] + 1 \in 1..Len(recs[t])
                                        THEN recs[t][s - slot[t] + 1] ELSE table[s]]
      BY <2>1 DEF ChildWrite
    <3>2. table_len' = Larger(table_len, slot[t] + Len(recs[t]))
      BY <2>1 DEF ChildWrite
    <3>3. \A k \in 1..Len(recs[t]) : GoodRecord(recs[t][k])
      BY <1>1 DEF RecsInv
    <3>4. \A s \in 0..(MaxSlots - 1) : table'[s] = Blank \/ GoodRecord(table'[s])
      BY <3>1, <3>3 DEF LogInv
    <3>5. table_len' \in 0..MaxSlots
      BY <3>2, <1>3, LogAssumption DEF Larger, LogInv
    <3> QED
      BY <3>4, <3>5
  <2>2. CASE ~(landed /\ c = "table")
    BY <2>2 DEF ChildWrite, LogInv
  <2> QED
    BY <2>1, <2>2
<1> QED
  BY <1>2, <1>4 DEF LogInv, RecsInv, TodoInv

LEMMA WriteDoneKeeps ==
  ASSUME LogInv, NEW t \in Calls, WriteDone(t)
  PROVE  LogInv'
<1>1. pc[t] = "write" /\ RecsInv(t)
  BY DEF WriteDone, LogInv
<1>2. UNCHANGED <<mapping, log_size, load_i, table, table_len, recs, slot>>
  BY DEF WriteDone, storage
<1>3. CASE bad[t]
  <2>1. pc' = [pc EXCEPT ![t] = "failed"] /\ todo' = todo
    BY <1>3 DEF WriteDone
  <2> QED
    BY <1>2, <2>1 DEF LogInv, RecsInv, TodoInv, PCs
<1>4. CASE ~bad[t]
  <2> DEFINE G == [k \in 1..Len(recs[t]) |-> InMemory(recs[t][k])]
  <2>1. pc' = [pc EXCEPT ![t] = "insert"] /\ todo' = [todo EXCEPT ![t] = G]
    BY <1>4 DEF WriteDone
  <2>2. Len(recs[t]) \in Nat /\ Len(recs[t]) > 0
    BY <1>1 DEF RecsInv, IsSeq
  <2>3. \A k \in 1..Len(recs[t]) : GoodRange(InMemory(recs[t][k]))
    BY <1>1, GoodInMemory DEF RecsInv
  <2>4. IsSeq(G) /\ Len(G) = Len(recs[t])
    BY <2>2 DEF IsSeq
  <2>5. \A k \in 1..Len(G) : GoodRange(G[k])
    BY <2>3, <2>4
  <2> HIDE DEF G
  <2>6. G # <<>>
    BY <2>2, <2>4
  <2>7. TodoInv(t)'
    BY <2>1, <2>4, <2>5, <2>6 DEF TodoInv, LogInv
  <2>8. \A u \in Calls : u # t /\ pc'[u] = "insert" => TodoInv(u)'
    BY <2>1 DEF LogInv, TodoInv
  <2>9. \A u \in Calls : pc'[u] = "write" => RecsInv(u)'
    BY <2>1, <1>2 DEF LogInv, RecsInv
  <2> QED
    BY <1>2, <2>1, <2>7, <2>8, <2>9 DEF LogInv, PCs
<1> QED
  BY <1>3, <1>4

LEMMA WriteInsertKeeps ==
  ASSUME LogInv, NEW t \in Calls, WriteInsert(t)
  PROVE  LogInv'
<1>1. pc[t] = "insert" /\ TodoInv(t)
  BY DEF WriteInsert, LogInv
<1>2. UNCHANGED <<log_size, load_i, table, table_len, recs, slot>>
  BY DEF WriteInsert, storage
<1>3. GoodRange(Head(todo[t]))
  <2>1. PICK s : s = todo[t]
    OBVIOUS
  <2>2. IsSeq(s) /\ s # <<>> /\ \A k \in 1..Len(s) : GoodRange(s[k])
    BY <1>1, <2>1 DEF TodoInv
  <2>3. Head(s) = s[1] /\ 1 \in 1..Len(s)
    BY <2>2 DEF IsSeq
  <2> QED
    BY <2>1, <2>2, <2>3
<1>4. mapping' = InsertRange(mapping, Head(todo[t])) /\ todo' = [todo EXCEPT ![t] = Tail(@)]
  BY DEF WriteInsert
<1>5. Disjoint(mapping') /\ \A ir \in mapping' : ir.lo \in Int /\ ir.hi \in Int
  <2>1. PICK r : r = Head(todo[t])
    OBVIOUS
  <2> QED
    BY <2>1, <1>3, <1>4, EnterKeeps
<1>6. /\ pc' \in [Calls -> PCs \ {"truncate"}]
      /\ \A u \in Calls : u # t => pc'[u] = pc[u]
      /\ pc'[t] = "insert" => Tail(todo[t]) # <<>>
      /\ pc'[t] # "write"
  BY <1>1 DEF WriteInsert, LogInv, PCs
<1>7. pc'[t] = "insert" => TodoInv(t)'
  <2> SUFFICES ASSUME Tail(todo[t]) # <<>> PROVE TodoInv(t)'
    BY <1>6
  <2>1. PICK s : s = todo[t]
    OBVIOUS
  <2>2. IsSeq(Tail(s)) /\ \A k \in 1..Len(Tail(s)) : GoodRange(Tail(s)[k])
    BY <1>1, <2>1, TailGood DEF TodoInv
  <2>3. todo'[t] = Tail(s)
    BY <2>1, <1>4 DEF LogInv
  <2> QED
    BY <2>1, <2>2, <2>3 DEF TodoInv
<1>8. \A u \in Calls : u # t /\ pc'[u] = "insert" => TodoInv(u)'
  BY <1>4, <1>6 DEF LogInv, TodoInv
<1>9. \A u \in Calls : pc'[u] = "write" => RecsInv(u)'
  BY <1>2, <1>6 DEF LogInv, RecsInv
<1> QED
  BY <1>2, <1>4, <1>5, <1>6, <1>7, <1>8, <1>9 DEF LogInv

LEMMA LoadRecordKeeps ==
  ASSUME LogInv, NEW ok \in BOOLEAN, LoadRecord(ok)
  PROVE  LogInv'
<1>1. UNCHANGED <<pc, slot, recs, todo, log_size, table, table_len>>
  BY DEF LoadRecord, storage, call
<1>2. load_i \in 0..(MaxSlots - 1) /\ load_i' = load_i + 1
  BY LogAssumption DEF LoadRecord, LogInv
<1>3. Disjoint(mapping') /\ \A ir \in mapping' : ir.lo \in Int /\ ir.hi \in Int
  <2>1. PICK r : r = table[load_i]
    OBVIOUS
  <2>2. CASE ok /\ ~BlankRecord(r)
    <3>1. GoodRecord(r)
      BY <1>2, <2>1, <2>2 DEF LogInv, BlankRecord
    <3>2. GoodRange(InMemory(r)) /\ InMemory(r).lo # -1
      BY <3>1, GoodInMemory DEF GoodRange
    <3>3. mapping' = InsertRange(mapping, InMemory(r))
      BY <2>1, <2>2, <3>2 DEF LoadRecord, EnterRange
    <3>4. PICK q : q = InMemory(r)
      OBVIOUS
    <3> QED
      BY <3>2, <3>3, <3>4, EnterKeeps
  <2>3. CASE ~(ok /\ ~BlankRecord(r))
    BY <2>1, <2>3 DEF LoadRecord, LogInv
  <2> QED
    BY <2>2, <2>3
<1> QED
  BY <1>1, <1>2, <1>3 DEF LogInv, RecsInv, TodoInv

LEMMA MergeCopyKeeps ==
  ASSUME LogInv, NEW t \in Calls, MergeCopy(t)
  PROVE  LogInv'
<1>1. UNCHANGED <<slot, recs, todo, log_size, table, table_len, load_i>>
  BY DEF MergeCopy
<1>2. /\ pc' \in [Calls -> PCs \ {"truncate"}]
      /\ \A u \in Calls : u # t => pc'[u] = pc[u]
      /\ pc'[t] \notin {"write", "insert"}
  BY DEF MergeCopy, LogInv, PCs
<1>3. Disjoint(mapping') /\ \A ir \in mapping' : ir.lo \in Int /\ ir.hi \in Int
  <2>1. CASE arg[t].trunc
    <3>1. mapping' = TruncateRange(mapping, -1, file_size)
      BY <2>1 DEF MergeCopy
    <3>2. Bounded(mapping) /\ Disjoint(mapping)
      BY DEF LogInv, Bounded
    <3>3. PICK m, f : m = mapping /\ f = file_size
      OBVIOUS
    <3>4. Bounded(TruncateRange(m, -1, f)) /\ Disjoint(TruncateRange(m, -1, f))
      BY <3>2, <3>3, TruncateDisjoint
    <3> QED
      BY <3>1, <3>3, <3>4 DEF Bounded
  <2>2. CASE ~arg[t].trunc
    BY <2>2 DEF MergeCopy, LogInv
  <2> QED
    BY <2>1, <2>2
<1> QED
  BY <1>1, <1>2, <1>3 DEF LogInv, RecsInv, TodoInv

\* Steps of a call that end it or put it in a state LogInv says nothing about.
LEMMA PcStepKeeps ==
  ASSUME LogInv, NEW t \in Calls,
         \E x \in PCs \ {"write", "insert", "truncate"} : pc' = [pc EXCEPT ![t] = x],
         UNCHANGED <<slot, recs, log_size, table, table_len, load_i, mapping>>,
         \A u \in Calls : u # t => todo'[u] = todo[u],
         DOMAIN todo' = Calls
  PROVE  LogInv'
BY DEF LogInv, RecsInv, TodoInv

LEMMA DieKeeps ==
  ASSUME LogInv, Die
  PROVE  LogInv'
<1>1. UNCHANGED <<slot, recs, todo, log_size, table, table_len, load_i, mapping>>
  BY DEF Die, storage
<1>2. /\ pc' \in [Calls -> PCs \ {"truncate"}]
      /\ \A t \in Calls : pc'[t] \in {"write", "insert"} => pc'[t] = pc[t]
  BY DEF Die, LogInv, PCs
<1> QED
  BY <1>1, <1>2 DEF LogInv, RecsInv, TodoInv

LEMMA NextLogInv ==
  ASSUME "truncate" \notin Kinds, LogInv, [Next]_vars
  PROVE  LogInv'
<1>1. ASSUME NEW t \in Calls, NEW v \in IovLists, WriteReserve(t, v) PROVE LogInv'
  BY <1>1, WriteReserveKeeps
<1>2. ASSUME NEW t \in Calls, NEW c, NEW ok \in BOOLEAN, NEW landed \in BOOLEAN,
             ChildWrite(t, c, ok, landed)
      PROVE  LogInv'
  BY <1>2, ChildWriteKeeps
<1>3. ASSUME NEW t \in Calls, WriteDone(t) PROVE LogInv'
  BY <1>3, WriteDoneKeeps
<1>4. ASSUME NEW t \in Calls, WriteInsert(t) PROVE LogInv'
  BY <1>4, WriteInsertKeeps
<1>5. ASSUME NEW t \in Calls, NEW n, TruncateStart(t, n) PROVE LogInv'
  BY <1>5 DEF TruncateStart
<1>6. ASSUME NEW t \in Calls, TruncateDone(t) PROVE LogInv'
  BY <1>6 DEF TruncateDone, LogInv
<1>7. ASSUME NEW t \in Calls, NEW lo, NEW hi, ReadStart(t, lo, hi) PROVE LogInv'
  <2>1. \E x \in PCs \ {"write", "insert", "truncate"} : pc' = [pc EXCEPT ![t] = x]
    BY <1>7 DEF ReadStart, PCs
  <2>2. /\ UNCHANGED <<slot, recs, log_size, table, table_len, load_i, mapping>>
        /\ \A u \in Calls : u # t => todo'[u] = todo[u]
        /\ DOMAIN todo' = Calls
    BY <1>7 DEF ReadStart, LogInv, memory, storage
  <2> QED BY <2>1, <2>2, PcStepKeeps
<1>8. ASSUME NEW t \in Calls, NEW ok \in BOOLEAN, ReadDone(t, ok) PROVE LogInv'
  <2>1. \E x \in PCs \ {"write", "insert", "truncate"} : pc' = [pc EXCEPT ![t] = x]
    BY <1>8 DEF ReadDone, PCs
  <2>2. UNCHANGED <<slot, recs, todo, log_size, table, table_len, load_i, mapping>>
    BY <1>8 DEF ReadDone, memory, storage
  <2> QED BY <2>1, <2>2, PcStepKeeps DEF LogInv
<1>9. ASSUME NEW t \in Calls, NEW trunc, MergeCount(t, trunc) PROVE LogInv'
  <2>1. \E x \in PCs \ {"write", "insert", "truncate"} : pc' = [pc EXCEPT ![t] = x]
    BY <1>9 DEF MergeCount, PCs
  <2>2. UNCHANGED <<slot, recs, todo, log_size, table, table_len, load_i, mapping>>
    BY <1>9 DEF MergeCount, memory, storage
  <2> QED BY <2>1, <2>2, PcStepKeeps DEF LogInv
<1>10. ASSUME NEW t \in Calls, MergeCopy(t) PROVE LogInv'
  BY <1>10, MergeCopyKeeps
<1>11. ASSUME NEW t \in Calls, NEW k, MergeFails(t, k) PROVE LogInv'
  <2>1. \E x \in PCs \ {"write", "insert", "truncate"} : pc' = [pc EXCEPT ![t] = x]
    BY <1>11 DEF MergeFails, PCs
  <2>2. UNCHANGED <<slot, recs, todo, log_size, table, table_len, load_i, mapping>>
    BY <1>11 DEF MergeFails, memory
  <2> QED BY <2>1, <2>2, PcStepKeeps DEF LogInv
<1>12. ASSUME NEW t \in Calls, NEW c, NEW ok \in BOOLEAN, MergeTrunc(t, c, ok) PROVE LogInv'
  <2>1. UNCHANGED <<pc, slot, recs, todo, log_size, load_i, mapping>>
    BY <1>12 DEF MergeTrunc, memory
  <2>2. /\ \A s \in 0..(MaxSlots - 1) : table'[s] = Blank \/ GoodRecord(table'[s])
        /\ table_len' \in 0..MaxSlots
    BY <1>12, LogAssumption DEF MergeTrunc, LogInv
  <2> QED BY <2>1, <2>2 DEF LogInv, RecsInv, TodoInv
<1>13. ASSUME NEW t \in Calls, MergeDone(t) PROVE LogInv'
  <2>1. /\ UNCHANGED <<slot, recs, todo, load_i, mapping, table, table_len>>
        /\ log_size' \in 0..MaxSlots
    BY <1>13, LogAssumption DEF MergeDone, storage
  <2>2. /\ pc' \in [Calls -> PCs \ {"truncate"}]
        /\ \A u \in Calls : pc'[u] \in {"write", "insert"} => pc'[u] = pc[u]
    BY <1>13 DEF MergeDone, LogInv, PCs
  <2> QED BY <2>1, <2>2 DEF LogInv, RecsInv, TodoInv
<1>14. ASSUME NEW t \in Calls, MergeNull(t) PROVE LogInv'
  BY <1>14, DieKeeps DEF MergeNull
<1>15. ASSUME Crash PROVE LogInv'
  BY <1>15, DieKeeps DEF Crash
<1>16. ASSUME LoadStart PROVE LogInv'
  <2>1. /\ UNCHANGED <<pc, slot, recs, todo, table, table_len>>
        /\ mapping' = {} /\ load_i' = 0 /\ log_size' = table_len
    BY <1>16 DEF LoadStart, storage, call
  <2> QED BY <2>1 DEF LogInv, RecsInv, TodoInv, Disjoint
<1>17. ASSUME NEW ok \in BOOLEAN, LoadRecord(ok) PROVE LogInv'
  BY <1>17, LoadRecordKeeps
<1>18. CASE LoadDone \/ Finished \/ UNCHANGED vars
  <2>1. UNCHANGED <<pc, slot, recs, todo, log_size, table, table_len, load_i, mapping>>
    BY <1>18 DEF LoadDone, Finished, vars, memory, storage, call
  <2> QED BY <2>1 DEF LogInv, RecsInv, TodoInv
<1> QED
  BY <1>1, <1>2, <1>3, <1>4, <1>5, <1>6, <1>7, <1>8, <1>9, <1>10, <1>11, <1>12, <1>13,
     <1>14, <1>15, <1>16, <1>17, <1>18
  DEF Next

LEMMA LogInvOnePlace == LogInv => OnePlace
<1> SUFFICES ASSUME LogInv, NEW p \in Pos
             PROVE  Cardinality(Offsets(mapping, p)) <= 1
  BY DEF OnePlace
<1>1. PICK m : m = mapping
  OBVIOUS
<1>2. Bounded(m) /\ Disjoint(m) /\ p \in Int
  BY <1>1 DEF LogInv, Bounded, Pos
<1> QED
  BY <1>1, <1>2, OffsetsAtMostOne

\* Whatever writes, reads and merges are in flight, whatever fails and
\* wherever the process crashes, no byte of a log segment that is not
\* truncated ever has two places in the data segment.
THEOREM LogOnePlace ==
  ASSUME "truncate" \notin Kinds
  PROVE  Spec => []OnePlace
<1>1. Init => LogInv
  BY InitLogInv
<1>2. LogInv /\ [Next]_vars => LogInv'
  BY NextLogInv
<1>3. LogInv => OnePlace
  BY LogInvOnePlace
<1> QED
  BY <1>1, <1>2, <1>3, PTL DEF Spec

-----------------------------------------------------------------------------
(* Merges.  The mapping is finite and its ranges have integers for ends,   *)
(* truncates included; what lies behind the end of the base is blank.      *)

IntEnds(r) == r.lo \in Int /\ r.hi \in Int
IntRecs(s) == IsSeq(s) /\ s # <<>> /\ \A k \in 1..Len(s) : IntEnds(s[k])

MapInv == IsFiniteSet(mapping) /\ file_size \in Int /\ \A ir \in mapping : IntEnds(ir)
BaseInv == base_len \in Int /\ \A p \in Pos : base_len <= p => base[p] = Zero
CallInv(t) ==
  /\ pc[t] \in {"write", "truncate"} => IntRecs(recs[t]) /\ slot[t] + Len(recs[t]) <= MaxSlots
  /\ pc[t] = "insert" => IntRecs(todo[t])
TableInv ==
  /\ log_size \in 0..MaxSlots /\ table_len \in 0..MaxSlots /\ load_i \in Nat
  /\ \A s \in 0..(MaxSlots - 1) : IntEnds(table[s])
FuncInv == DOMAIN pc = Calls /\ DOMAIN recs = Calls /\ DOMAIN todo = Calls /\ slot \in [Calls -> Nat]
MergeInv == FuncInv /\ TableInv /\ MapInv /\ BaseInv /\ \A t \in Calls : CallInv(t)

\* Entering a range in a finite table leaves a finite one.
LEMMA InsertFinite ==
  ASSUME NEW m, IsFiniteSet(m), \A ir \in m : IntEnds(ir), NEW r, IntEnds(r)
  PROVE  IsFiniteSet(InsertRange(m, r)) /\ \A ir \in InsertRange(m, r) : IntEnds(ir)
<1> DEFINE hit == Hits(m, r.lo, r.hi)
           L == {x \in hit : x.lo < r.lo}
           R == {x \in hit : x.hi > r.hi}
           f == [x \in L |-> Before(x, r)]
           g == [x \in R |-> Behind(x, r)]
           c == Cut(m, r)
<1>1. hit \in SUBSET m /\ L \in SUBSET m /\ R \in SUBSET m /\ (m \ hit) \in SUBSET m
  BY DEF Hits
<1>2. IsFiniteSet(L) /\ IsFiniteSet(R) /\ IsFiniteSet(m \ hit)
  BY <1>1, FS_Subset
<1>3. IsFiniteSet({f[x] : x \in L}) /\ IsFiniteSet({g[x] : x \in R})
  BY <1>2, FiniteRange
<1>4. c = ((m \ hit) \cup {f[x] : x \in L}) \cup {g[x] : x \in R}
  BY DEF Cut
<1>5. IsFiniteSet((m \ hit) \cup {f[x] : x \in L})
  BY <1>2, <1>3, FS_Union
<1>6. IsFiniteSet(c)
  <2>1. PICK A, B : A = (m \ hit) \cup {f[x] : x \in L} /\ B = {g[x] : x \in R}
    OBVIOUS
  <2>2. IsFiniteSet(A) /\ IsFiniteSet(B) /\ c = A \cup B
    BY <1>3, <1>4, <1>5, <2>1
  <2> HIDE DEF c
  <2> QED BY <2>2, FS_Union
<1>7. \A ir \in c : IntEnds(ir)
  BY DEF Cut, Before, Behind, Hits, IntEnds
<1> HIDE DEF c
<1>8. InsertRange(m, r) = Combine(c, r)
  BY DEF InsertRange, c
<1>9. CASE \E ir \in c : Adjoins(ir, r)
  <2>1. PICK j \in c : Combine(c, r) = (c \ {j}) \cup {Join(j, r)}
    BY <1>9 DEF Combine
  <2>2. IsFiniteSet(c \ {j})
    BY <1>6, FS_RemoveElement
  <2>3. IsFiniteSet((c \ {j}) \cup {Join(j, r)})
    BY <2>2, FS_AddElement
  <2>4. IntEnds(Join(j, r))
    BY <1>7 DEF Join, IntEnds
  <2> QED BY <1>7, <1>8, <2>1, <2>3, <2>4
<1>10. CASE ~ \E ir \in c : Adjoins(ir, r)
  <2>1. Combine(c, r) = c \cup {r}
    BY <1>10 DEF Combine
  <2>2. IsFiniteSet(c \cup {r})
    BY <1>6, FS_AddElement
  <2> QED BY <1>7, <1>8, <2>1, <2>2
<1> QED BY <1>9, <1>10

\* So does a truncate.
LEMMA TruncateFinite ==
  ASSUME NEW m, IsFiniteSet(m), \A ir \in m : IntEnds(ir), NEW hi \in Int, NEW size \in Int
  PROVE  IsFiniteSet(TruncateRange(m, hi, size)) /\ \A ir \in TruncateRange(m, hi, size) : IntEnds(ir)
<1> DEFINE hit == Hits(m, hi + 1, size)
           X == {ir \in hit : ir.lo <= hi}
           f == [ir \in X |-> [lo |-> ir.lo, hi |-> hi, data_offset |-> ir.data_offset]]
<1>1. hit \in SUBSET m /\ X \in SUBSET m /\ (m \ hit) \in SUBSET m
  BY DEF Hits
<1>2. PICK W \in SUBSET m : TruncateRange(m, hi, size) = ((m \ hit) \cup {f[ir] : ir \in X}) \cup W
  <2>1. Lowest(hit \ X) \in SUBSET m /\ {} \in SUBSET m
    BY <1>1 DEF Lowest
  <2> QED BY <2>1 DEF TruncateRange
<1>3. IsFiniteSet(X) /\ IsFiniteSet(m \ hit) /\ IsFiniteSet(W)
  BY <1>1, FS_Subset
<1>4. IsFiniteSet({f[ir] : ir \in X})
  <2>1. DOMAIN f = X
    OBVIOUS
  <2> HIDE DEF f, X
  <2> QED BY <1>3, <2>1, FiniteRange
<1>5. PICK A, B : A = m \ hit /\ B = {f[ir] : ir \in X}
  OBVIOUS
<1>6. IsFiniteSet(A \cup B)
  BY <1>3, <1>4, <1>5, FS_Union
<1>7. IsFiniteSet((A \cup B) \cup W)
  BY <1>3, <1>6, FS_Union
<1>8. \A ir \in B : IntEnds(ir)
  <2>1. ASSUME NEW x \in X PROVE IntEnds(f[x])
    <3>1. f[x].lo = x.lo /\ f[x].hi = hi
      OBVIOUS
    <3>2. x.lo \in Int
      BY <1>1 DEF IntEnds
    <3> HIDE DEF f
    <3> QED BY <3>1, <3>2 DEF IntEnds
  <2> HIDE DEF f, X
  <2> QED BY <1>5, <2>1
<1>9. TruncateRange(m, hi, size) = (A \cup B) \cup W /\ A \subseteq m
  BY <1>2, <1>5
<1> QED BY <1>7, <1>8, <1>9

\* _slog_insert_range, of a write, a truncate or a record that is loaded.
LEMMA EnterFinite ==
  ASSUME MapInv, NEW r, IntEnds(r), EnterRange(r)
  PROVE  MapInv'
<1>1. PICK m, f : m = mapping /\ f = file_size
  OBVIOUS
<1>2. IsFiniteSet(m) /\ f \in Int /\ \A ir \in m : IntEnds(ir)
  BY <1>1 DEF MapInv
<1>3. CASE r.lo = -1
  <2>1. mapping' = TruncateRange(m, r.hi, f) /\ file_size' = r.hi + 1 /\ r.hi \in Int
    BY <1>1, <1>3 DEF EnterRange, IntEnds
  <2> QED BY <1>2, <2>1, TruncateFinite DEF MapInv, IntEnds
<1>4. CASE r.lo # -1
  <2>1. mapping' = InsertRange(m, r) /\ file_size' = InsertSize(f, r)
    BY <1>1, <1>4 DEF EnterRange
  <2>2. file_size' \in Int
    BY <1>2, <2>1 DEF InsertSize, IntEnds
  <2>3. IsFiniteSet(InsertRange(m, r)) /\ \A ir \in InsertRange(m, r) : IntEnds(ir)
    BY <1>2, InsertFinite
  <2> QED BY <2>1, <2>2, <2>3 DEF MapInv
<1> QED BY <1>3, <1>4

\* The ranges that a merge of k ranges copies all end before the base ends.
LEMMA CopyReaches ==
  ASSUME MapInv, BaseInv, NEW k, CopyRanges(k)
  PROVE  /\ base_len' \in Int /\ base_len' >= base_len
         /\ \A ir \in LowestRanges(k) : ir.hi < base_len'
<1> DEFINE m == LowestRanges(k)
           f == [ir \in m |-> ir.hi + 1]
           his == {ir.hi + 1 : ir \in m} \cup {base_len}
<1>1. m \in SUBSET mapping
  BY DEF LowestRanges
<1>2. IsFiniteSet(m) /\ \A ir \in m : ir.hi \in Int
  BY <1>1, FS_Subset DEF MapInv, IntEnds
<1>3. IsFiniteSet({f[ir] : ir \in m})
  BY <1>2, FiniteRange
<1>4. his = {f[ir] : ir \in m} \cup {base_len}
  OBVIOUS
<1>5. IsFiniteSet(his) /\ his # {} /\ his \subseteq Int
  BY <1>2, <1>3, <1>4, FS_AddElement DEF BaseInv
<1>6. \E x \in his : \A y \in his : x >= y
  BY <1>5, GreatestInt
<1>7. base_len' \in his /\ \A y \in his : base_len' >= y
  BY <1>6 DEF CopyRanges
<1>8. \A ir \in m : base_len' >= ir.hi + 1
  BY <1>7
<1> QED BY <1>2, <1>5, <1>7, <1>8

\* Behind the new end of the base there is still nothing.
LEMMA CopyKeepsBase ==
  ASSUME MapInv, BaseInv, NEW k, CopyRanges(k)
  PROVE  BaseInv'
<1>1. /\ base_len' \in Int /\ base_len' >= base_len /\ base_len \in Int
      /\ \A ir \in LowestRanges(k) : ir.hi < base_len' /\ ir.hi \in Int
  BY CopyReaches DEF BaseInv, MapInv, LowestRanges, IntEnds
<1>2. ASSUME NEW p \in Pos, base_len' <= p
      PROVE  base'[p] = Zero
  <2>1. p \in Int /\ \A ir \in LowestRanges(k) : ~(p <= ir.hi)
    BY <1>1, <1>2, LogAssumption DEF Pos
  <2>2. Offsets(LowestRanges(k), p) = {}
    BY <2>1 DEF Offsets
  <2>3. base'[p] = base[p]
    BY <2>2 DEF CopyRanges
  <2>4. base_len <= p
    BY <1>1, <1>2, <2>1
  <2> QED BY <2>3, <2>4 DEF BaseInv
<1> QED BY <1>1, <1>2 DEF BaseInv

\* As many of the lowest ranges as there are ranges are all of them.
LEMMA AllRanges ==
  ASSUME MapInv
  PROVE  LowestRanges(Cardinality(mapping)) = mapping
<1> SUFFICES ASSUME NEW ir \in mapping
             PROVE  Cardinality({x \in mapping : x.lo < ir.lo}) < Cardinality(mapping)
  BY DEF LowestRanges
<1> DEFINE T == {x \in mapping : x.lo < ir.lo}
<1>1. T \in SUBSET mapping /\ T # mapping /\ IsFiniteSet(mapping)
  BY DEF MapInv, IntEnds
<1>2. /\ Cardinality(T) <= Cardinality(mapping) /\ Cardinality(T) # Cardinality(mapping)
      /\ IsFiniteSet(T)
  BY <1>1, FS_Subset
<1>3. Cardinality(T) \in Nat /\ Cardinality(mapping) \in Nat
  BY <1>1, <1>2, FS_CardinalityType
<1> QED BY <1>2, <1>3

\* Copying all ranges leaves in the base what a reader of the log sees.
LEMMA CopyAll ==
  ASSUME MapInv, BaseInv, CopyRanges(Cardinality(mapping)), NEW p \in Pos
  PROVE  BaseAt(p)' = Read(p)
<1>1. PICK n : n = Cardinality(mapping)
  OBVIOUS
<1>2. LowestRanges(n) = mapping /\ CopyRanges(n)
  BY <1>1, AllRanges
<1>3. /\ base_len' \in Int /\ base_len' >= base_len /\ base_len \in Int
      /\ \A ir \in mapping : ir.hi < base_len' /\ ir.hi \in Int
  BY <1>2, CopyReaches DEF BaseInv, MapInv, IntEnds
<1>4. base'[p] = IF Offsets(mapping, p) # {} THEN ReadIn(mapping, data, p) ELSE base[p]
  BY <1>2 DEF CopyRanges
<1>5. p \in Int
  BY LogAssumption DEF Pos
<1>6. CASE Offsets(mapping, p) # {}
  <2>1. PICK ir \in mapping : ir.lo <= p /\ p <= ir.hi
    BY <1>6 DEF Offsets
  <2>2. p < base_len'
    BY <1>3, <1>5, <2>1
  <2> QED BY <1>4, <1>6, <2>2 DEF BaseAt, Read
<1>7. CASE Offsets(mapping, p) = {}
  <2>1. base'[p] = base[p] /\ Read(p) = BaseAt(p)
    BY <1>4, <1>7 DEF Read, ReadIn
  <2>2. CASE p < base_len
    BY <1>3, <1>5, <2>1, <2>2 DEF BaseAt
  <2>3. CASE ~(p < base_len)
    <3>1. base[p] = Zero
      BY <1>3, <1>5, <2>3 DEF BaseInv
    <3> QED BY <2>1, <2>3, <3>1 DEF BaseAt
  <2> QED BY <2>2, <2>3
<1> QED BY <1>6, <1>7

\* The ranges behind the first one are as good.
LEMMA TailInts ==
  ASSUME NEW s, IntRecs(s)
  PROVE  IntEnds(Head(s)) /\ (Tail(s) # <<>> => IntRecs(Tail(s)))
<1> DEFINE S == {s[k] : k \in DOMAIN s}
<1>1. s \in Seq(S) /\ s # <<>> /\ \A k \in 1..Len(s) : IntEnds(s[k])
  BY DEF IntRecs, IsSeq
<1>2. /\ Tail(s) \in Seq(S) /\ Len(Tail(s)) = Len(s) - 1 /\ Len(s) \in Nat \ {0} /\ Head(s) = s[1]
      /\ \A k \in 1..Len(Tail(s)) : Tail(s)[k] = s[k + 1]
  BY <1>1
<1>3. \A k \in 1..Len(Tail(s)) : k + 1 \in 1..Len(s)
  BY <1>2
<1>4. IsSeq(Tail(s))
  BY <1>2, SeqIsSeq
<1>5. IntEnds(Head(s))
  BY <1>1, <1>2
<1> QED BY <1>1, <1>2, <1>3, <1>4, <1>5 DEF IntRecs

\* A step that leaves what a call has reserved alone.
LEMMA CallsSame ==
  ASSUME MergeInv, DOMAIN pc' = Calls, UNCHANGED <<recs, todo, slot>>,
         \A t \in Calls : pc'[t] \in {"write", "truncate", "insert"} => pc'[t] = pc[t]
  PROVE  FuncInv' /\ \A t \in Calls : CallInv(t)'
BY DEF MergeInv, FuncInv, CallInv

\* Reserving records, for a write or for a truncate.
LEMMA ReserveKeeps ==
  ASSUME MergeInv, NEW t \in Calls, NEW s, IntRecs(s), NEW x \in {"write", "truncate"},
         log_size + Len(s) <= MaxSlots, log_size' = log_size + Len(s),
         pc' = [pc EXCEPT ![t] = x], recs' = [recs EXCEPT ![t] = s],
         slot' = [slot EXCEPT ![t] = log_size],
         UNCHANGED <<mapping, file_size, load_i, table, table_len, base, base_len, todo>>
  PROVE  MergeInv'
<1>1. Len(s) \in Nat
  BY DEF IntRecs, IsSeq
<1>2. log_size' \in 0..MaxSlots /\ log_size \in Nat
  BY <1>1, LogAssumption DEF MergeInv, TableInv
<1>3. TableInv' /\ MapInv' /\ BaseInv'
  BY <1>2 DEF MergeInv, TableInv, MapInv, BaseInv
<1>4. FuncInv'
  BY <1>2 DEF MergeInv, FuncInv
<1>5. ASSUME NEW u \in Calls PROVE CallInv(u)'
  <2>1. CASE u = t
    BY <2>1 DEF MergeInv, FuncInv, CallInv
  <2>2. CASE u # t
    BY <2>2 DEF MergeInv, FuncInv, CallInv
  <2> QED BY <2>1, <2>2
<1> QED BY <1>3, <1>4, <1>5 DEF MergeInv

\* seglog_write_func reserves one record per iov element, all within the table.
LEMMA MergeWriteReserve ==
  ASSUME MergeInv, NEW t \in Calls, NEW v \in IovLists, WriteReserve(t, v)
  PROVE  MergeInv'
<1>1. v \in Seq([offset : Nat, len : Nat \ {0}]) /\ v # <<>>
  BY LogAssumption
<1>2. Len(v) \in Nat /\ Len(v) > 0 /\ \A k \in 1..Len(v) : v[k].offset \in Int /\ v[k].len \in Int
  <2>1. Len(v) \in Nat /\ v \in [1..Len(v) -> [offset : Nat, len : Nat \ {0}]]
    BY <1>1, LenProperties
  <2>2. Len(v) > 0
    BY <1>1, <2>1
  <2> QED BY <2>1, <2>2
<1> DEFINE sum == SumLen(v)
           F == [k \in 1..Len(v) |-> [lo |-> v[k].offset, hi |-> v[k].len,
                                      data_offset |-> data_size + sum[k - 1]]]
<1> HIDE DEF sum
<1>3. IsSeq(F) /\ Len(F) = Len(v) /\ \A k \in 1..Len(v) : IntEnds(F[k])
  BY <1>2 DEF IsSeq, IntEnds
<1>4. /\ pc' = [pc EXCEPT ![t] = "write"]
      /\ recs' = [recs EXCEPT ![t] = F]
      /\ slot' = [slot EXCEPT ![t] = log_size]
      /\ log_size' = log_size + Len(v) /\ log_size + Len(v) <= MaxSlots
      /\ UNCHANGED <<mapping, file_size, load_i, table, table_len, base, base_len, todo>>
  BY DEF WriteReserve, sum, storage
<1> HIDE DEF F
<1>5. F # <<>>
  BY <1>2, <1>3
<1>6. IntRecs(F)
  BY <1>3, <1>5 DEF IntRecs
<1>7. PICK s : s = F
  OBVIOUS
<1>8. /\ IntRecs(s) /\ log_size + Len(s) <= MaxSlots /\ log_size' = log_size + Len(s)
      /\ recs' = [recs EXCEPT ![t] = s]
  BY <1>3, <1>4, <1>6, <1>7
<1> QED BY <1>4, <1>8, ReserveKeeps

\* seglog_truncate_func reserves a record for a shrink or a grow.
LEMMA MergeTruncateStart ==
  ASSUME MergeInv, NEW t \in Calls, NEW n \in NewSizes, TruncateStart(t, n)
  PROVE  MergeInv'
<1>1. n \in Nat /\ file_size \in Int
  BY LogAssumption DEF MergeInv, MapInv
<1>2. UNCHANGED <<mapping, file_size, load_i, table, table_len, base, base_len, todo>>
  BY DEF TruncateStart, storage
<1>3. CASE n = file_size
  <2>1. pc' = [pc EXCEPT ![t] = "done"] /\ UNCHANGED <<recs, slot, log_size>>
    BY <1>3 DEF TruncateStart
  <2>2. FuncInv' /\ \A u \in Calls : CallInv(u)'
    BY <1>2, <2>1, CallsSame DEF MergeInv, FuncInv
  <2> QED BY <1>2, <2>1, <2>2 DEF MergeInv, TableInv, MapInv, BaseInv
<1>4. CASE n # file_size
  <2>1. PICK r : /\ recs' = [recs EXCEPT ![t] = <<r>>] /\ r.lo \in Int /\ r.hi \in Int
    <3>1. CASE n < file_size
      <4>1. PICK r : r = [lo |-> -1, hi |-> n - 1, data_offset |-> -1]
        OBVIOUS
      <4>2. recs' = [recs EXCEPT ![t] = <<r>>]
        BY <1>4, <3>1, <4>1 DEF TruncateStart
      <4>3. r.lo \in Int /\ r.hi \in Int
        BY <1>1, <4>1
      <4> QED BY <4>2, <4>3, Zenon
    <3>2. CASE ~(n < file_size)
      <4>1. PICK r : r = [lo |-> file_size - 1, hi |-> n - file_size, data_offset |-> data_size]
        OBVIOUS
      <4>2. recs' = [recs EXCEPT ![t] = <<r>>]
        BY <1>4, <3>2, <4>1 DEF TruncateStart
      <4>3. r.lo \in Int /\ r.hi \in Int
        BY <1>1, <4>1
      <4> QED BY <4>2, <4>3, Zenon
    <3> QED BY <3>1, <3>2
  <2>2. PICK s : s = <<r>>
    OBVIOUS
  <2>3. IntRecs(s) /\ Len(s) = 1
    BY <2>1, <2>2 DEF IntRecs, IsSeq, IntEnds
  <2>4. /\ pc' = [pc EXCEPT ![t] = "truncate"] /\ slot' = [slot EXCEPT ![t] = log_size]
        /\ log_size + 1 <= MaxSlots /\ log_size' = log_size + 1
    BY <1>4 DEF TruncateStart
  <2> QED BY <1>2, <2>1, <2>2, <2>3, <2>4, ReserveKeeps
<1> QED BY <1>3, <1>4

\* The table holds whole records of the calls, landed or not.
LEMMA MergeChildWrite ==
  ASSUME MergeInv, NEW t \in Calls, NEW c, NEW ok \in BOOLEAN, NEW landed \in BOOLEAN,
         ChildWrite(t, c, ok, landed)
  PROVE  MergeInv'
<1>1. IntRecs(recs[t]) /\ slot[t] + Len(recs[t]) <= MaxSlots /\ slot[t] \in Nat
  BY DEF ChildWrite, MergeInv, CallInv, FuncInv
<1>2. UNCHANGED <<pc, slot, recs, todo, log_size, load_i, mapping, file_size, base, base_len>>
  BY DEF ChildWrite, memory
<1>3. PICK s : s = recs[t]
  OBVIOUS
<1>4. Len(s) \in Nat /\ \A k \in 1..Len(s) : IntEnds(s[k])
  BY <1>1, <1>3 DEF IntRecs, IsSeq
<1>5. /\ \A i \in 0..(MaxSlots - 1) : IntEnds(table'[i])
      /\ table_len' \in 0..MaxSlots
  <2>1. CASE landed /\ c = "table"
    <3>1. table' = [i \in 0..(MaxSlots - 1) |-> IF i - slot[t] + 1 \in 1..Len(s)
                                           THEN s[i - slot[t] + 1] ELSE table[i]]
      BY <1>3, <2>1 DEF ChildWrite
    <3>2. table_len' = Larger(table_len, slot[t] + Len(s))
      BY <1>3, <2>1 DEF ChildWrite
    <3>3. \A i \in 0..(MaxSlots - 1) : IntEnds(table'[i])
      BY <1>4, <3>1 DEF MergeInv, TableInv
    <3>4. table_len' \in 0..MaxSlots
      BY <1>1, <1>3, <1>4, <3>2, LogAssumption DEF Larger, MergeInv, TableInv
    <3> QED BY <3>3, <3>4
  <2>2. CASE ~(landed /\ c = "table")
    BY <2>2 DEF ChildWrite, MergeInv, TableInv
  <2> QED BY <2>1, <2>2
<1> QED BY <1>2, <1>5 DEF MergeInv, FuncInv, TableInv, MapInv, BaseInv, CallInv

\* The records of a write become the ranges it has to enter.
LEMMA MergeWriteDone ==
  ASSUME MergeInv, NEW t \in Calls, WriteDone(t)
  PROVE  MergeInv'
<1>1. UNCHANGED <<mapping, file_size, log_size, load_i, table, table_len, recs, slot, base, base_len>>
  BY DEF WriteDone, storage
<1>2. pc[t] = "write" /\ IntRecs(recs[t])
  BY DEF WriteDone, MergeInv, CallInv
<1>3. TableInv' /\ MapInv' /\ BaseInv'
  BY <1>1 DEF MergeInv, TableInv, MapInv, BaseInv
<1>4. CASE bad[t]
  <2>1. pc' = [pc EXCEPT ![t] = "failed"] /\ todo' = todo
    BY <1>4 DEF WriteDone
  <2>2. FuncInv' /\ \A u \in Calls : CallInv(u)'
    BY <1>1, <2>1, CallsSame DEF MergeInv, FuncInv
  <2> QED BY <1>3, <2>2 DEF MergeInv
<1>5. CASE ~bad[t]
  <2> DEFINE G == [k \in 1..Len(recs[t]) |-> InMemory(recs[t][k])]
  <2>1. pc' = [pc EXCEPT ![t] = "insert"] /\ todo' = [todo EXCEPT ![t] = G]
    BY <1>5 DEF WriteDone
  <2>2. Len(recs[t]) \in Nat /\ Len(recs[t]) > 0
    BY <1>2 DEF IntRecs, IsSeq
  <2>3. \A k \in 1..Len(recs[t]) : IntEnds(InMemory(recs[t][k]))
    BY <1>2 DEF IntRecs, IntEnds, InMemory
  <2>4. IsSeq(G) /\ Len(G) = Len(recs[t])
    BY <2>2 DEF IsSeq
  <2>5. \A k \in 1..Len(G) : IntEnds(G[k])
    BY <2>3, <2>4
  <2> HIDE DEF G
  <2>6. IntRecs(G)
    BY <2>2, <2>4, <2>5 DEF IntRecs
  <2>7. FuncInv'
    BY <1>1, <2>1 DEF MergeInv, FuncInv
  <2>8. ASSUME NEW u \in Calls PROVE CallInv(u)'
    BY <1>1, <2>1, <2>6 DEF MergeInv, FuncInv, CallInv
  <2> QED BY <1>3, <2>7, <2>8 DEF MergeInv
<1> QED BY <1>4, <1>5

\* Entering one range of a write.
LEMMA MergeWriteInsert ==
  ASSUME MergeInv, NEW t \in Calls, WriteInsert(t)
  PROVE  MergeInv'
<1>1. UNCHANGED <<log_size, load_i, table, table_len, recs, slot, base, base_len>>
  BY DEF WriteInsert, storage
<1>2. pc[t] = "insert" /\ IntRecs(todo[t])
  BY DEF WriteInsert, MergeInv, CallInv
<1>3. PICK s : s = todo[t]
  OBVIOUS
<1>4. IntEnds(Head(s)) /\ (Tail(s) # <<>> => IntRecs(Tail(s)))
  BY <1>2, <1>3, TailInts
<1>5. MapInv'
  <2>1. PICK m, f, r : m = mapping /\ f = file_size /\ r = Head(s)
    OBVIOUS
  <2>2. mapping' = InsertRange(m, r) /\ file_size' = InsertSize(f, r)
    BY <1>3, <2>1 DEF WriteInsert
  <2>3. IsFiniteSet(m) /\ f \in Int /\ (\A ir \in m : IntEnds(ir)) /\ IntEnds(r)
    BY <1>4, <2>1 DEF MergeInv, MapInv
  <2>4. file_size' \in Int
    BY <2>2, <2>3 DEF InsertSize, IntEnds
  <2>5. IsFiniteSet(InsertRange(m, r)) /\ \A ir \in InsertRange(m, r) : IntEnds(ir)
    BY <2>3, InsertFinite
  <2> QED BY <2>2, <2>4, <2>5 DEF MapInv
<1>6. /\ DOMAIN pc' = Calls /\ todo' = [todo EXCEPT ![t] = Tail(s)]
      /\ \A u \in Calls : u # t => pc'[u] = pc[u]
      /\ pc'[t] \in {"insert", "done"} /\ (pc'[t] = "insert" => Tail(s) # <<>>)
  BY <1>2, <1>3 DEF WriteInsert, MergeInv, FuncInv
<1>7. TableInv' /\ BaseInv' /\ FuncInv'
  BY <1>1, <1>6 DEF MergeInv, TableInv, BaseInv, FuncInv
<1>8. ASSUME NEW u \in Calls PROVE CallInv(u)'
  BY <1>1, <1>4, <1>6 DEF MergeInv, FuncInv, CallInv
<1> QED BY <1>5, <1>7, <1>8 DEF MergeInv

\* The second critical section of a truncate.
LEMMA MergeTruncateDone ==
  ASSUME MergeInv, NEW t \in Calls, TruncateDone(t)
  PROVE  MergeInv'
<1>1. UNCHANGED <<log_size, load_i, table, table_len, recs, slot, todo, base, base_len>>
  BY DEF TruncateDone, storage
<1>2. IntEnds(recs[t][1])
  <2>1. IntRecs(recs[t])
    BY DEF TruncateDone, MergeInv, CallInv
  <2>2. PICK s : s = recs[t]
    OBVIOUS
  <2>3. 1 \in 1..Len(s)
    BY <2>1, <2>2 DEF IntRecs, IsSeq
  <2> QED BY <2>1, <2>2, <2>3 DEF IntRecs
<1>3. IntEnds(InMemory(recs[t][1]))
  BY <1>2 DEF IntEnds, InMemory
<1>4. MapInv'
  <2>1. PICK r : IntEnds(r) /\ (EnterRange(r) \/ UNCHANGED <<mapping, file_size>>)
    BY <1>2, <1>3 DEF TruncateDone
  <2> QED BY <2>1, EnterFinite DEF MergeInv, MapInv
<1>5. DOMAIN pc' = Calls /\ \A u \in Calls : pc'[u] \in {"write", "truncate", "insert"} => pc'[u] = pc[u]
  BY DEF TruncateDone, MergeInv, FuncInv
<1>6. FuncInv' /\ \A u \in Calls : CallInv(u)'
  BY <1>1, <1>5, CallsSame
<1> QED BY <1>1, <1>4, <1>6 DEF MergeInv, TableInv, BaseInv

\* The copying of a merge, with or without emptying the log.
LEMMA MergeMergeCopy ==
  ASSUME MergeInv, NEW t \in Calls, MergeCopy(t)
  PROVE  MergeInv'
<1>1. UNCHANGED <<log_size, load_i, table, table_len, recs, slot, todo>>
  BY DEF MergeCopy
<1>2. PICK k : CopyRanges(k)
  BY DEF MergeCopy
<1>3. BaseInv'
  BY <1>2, CopyKeepsBase DEF MergeInv
<1>4. MapInv'
  <2>1. PICK m, f : m = mapping /\ f = file_size
    OBVIOUS
  <2>2. IsFiniteSet(m) /\ f \in Int /\ \A ir \in m : IntEnds(ir)
    BY <2>1 DEF MergeInv, MapInv
  <2>3. \/ mapping' = TruncateRange(m, -1, f) /\ file_size' = 0
        \/ UNCHANGED <<mapping, file_size>>
    BY <2>1 DEF MergeCopy
  <2>4. IsFiniteSet(TruncateRange(m, -1, f)) /\ \A ir \in TruncateRange(m, -1, f) : IntEnds(ir)
    BY <2>2, TruncateFinite
  <2> QED BY <2>3, <2>4 DEF MergeInv, MapInv
<1>5. DOMAIN pc' = Calls /\ \A u \in Calls : pc'[u] \in {"write", "truncate", "insert"} => pc'[u] = pc[u]
  BY DEF MergeCopy, MergeInv, FuncInv
<1>6. FuncInv' /\ \A u \in Calls : CallInv(u)'
  BY <1>1, <1>5, CallsSame
<1> QED BY <1>1, <1>3, <1>4, <1>6 DEF MergeInv, TableInv

\* _slog_load enters one record of the table.
LEMMA MergeLoadRecord ==
  ASSUME MergeInv, NEW ok \in BOOLEAN, LoadRecord(ok)
  PROVE  MergeInv'
<1>1. UNCHANGED <<pc, slot, recs, todo, log_size, table, table_len, base, base_len>>
  BY DEF LoadRecord, storage, call
<1>2. load_i \in 0..(MaxSlots - 1) /\ load_i' = load_i + 1
  BY LogAssumption DEF LoadRecord, MergeInv, TableInv
<1>3. MapInv'
  <2>1. IntEnds(InMemory(table[load_i]))
    BY <1>2 DEF MergeInv, TableInv, IntEnds, InMemory
  <2>2. PICK r : r = InMemory(table[load_i])
    OBVIOUS
  <2>3. EnterRange(r) \/ UNCHANGED <<mapping, file_size>>
    BY <2>2 DEF LoadRecord
  <2> QED BY <2>1, <2>2, <2>3, EnterFinite DEF MergeInv, MapInv
<1> QED BY <1>1, <1>2, <1>3 DEF MergeInv, FuncInv, TableInv, BaseInv, CallInv

\* Steps after which a call has no record or range to enter.
LEMMA MergeOther ==
  ASSUME MergeInv, UNCHANGED <<mapping, file_size, load_i, recs, slot, base, base_len>>,
         log_size' \in 0..MaxSlots, table_len' \in 0..MaxSlots,
         \A s \in 0..(MaxSlots - 1) : IntEnds(table'[s]),
         DOMAIN pc' = Calls, DOMAIN todo' = Calls,
         \A t \in Calls : pc'[t] \in {"write", "truncate", "insert"} => pc'[t] = pc[t] /\ todo'[t] = todo[t]
  PROVE  MergeInv'
BY DEF MergeInv, FuncInv, TableInv, MapInv, BaseInv, CallInv

\* Every step keeps the mapping finite and the base blank behind its end.
LEMMA MergeStep == MergeInv /\ [Next]_vars => MergeInv'
<1> SUFFICES ASSUME MergeInv, [Next]_vars PROVE MergeInv'
  OBVIOUS
<1>0. /\ DOMAIN pc = Calls /\ DOMAIN todo = Calls /\ log_size \in 0..MaxSlots /\ table_len \in 0..MaxSlots
      /\ \A s \in 0..(MaxSlots - 1) : IntEnds(table[s])
  BY DEF MergeInv, FuncInv, TableInv
<1>1. ASSUME NEW t \in Calls,
             \/ \E v \in IovLists : WriteReserve(t, v)
             \/ \E c \in {"table", "data"}, ok, landed \in BOOLEAN : ChildWrite(t, c, ok, landed)
             \/ WriteDone(t) \/ WriteInsert(t)
             \/ \E n \in NewSizes : TruncateStart(t, n)
             \/ TruncateDone(t) \/ MergeCopy(t)
      PROVE  MergeInv'
  BY <1>1, MergeWriteReserve, MergeChildWrite, MergeWriteDone, MergeWriteInsert, MergeTruncateStart,
     MergeTruncateDone, MergeMergeCopy
<1>2. ASSUME NEW t \in Calls, NEW lo, NEW hi, ReadStart(t, lo, hi) PROVE MergeInv'
  <2>1. pc' = [pc EXCEPT ![t] = "read"] /\ todo' = [todo EXCEPT ![t] = ReadPlan(mapping, lo, hi)]
    BY <1>2 DEF ReadStart
  <2>2. UNCHANGED <<mapping, file_size, load_i, recs, slot, base, base_len, log_size, table, table_len>>
    BY <1>2 DEF ReadStart, memory, storage
  <2>3. \A u \in Calls : pc'[u] \in {"write", "truncate", "insert"} => pc'[u] = pc[u] /\ todo'[u] = todo[u]
    BY <1>0, <2>1
  <2> QED BY <1>0, <2>1, <2>2, <2>3, MergeOther
<1>3. ASSUME NEW t \in Calls,
             \/ \E ok \in BOOLEAN : ReadDone(t, ok)
             \/ \E trunc \in BOOLEAN : MergeCount(t, trunc)
      PROVE  MergeInv'
  <2>1. UNCHANGED <<mapping, file_size, load_i, recs, slot, base, base_len, log_size, table, table_len, todo>>
    BY <1>3 DEF ReadDone, MergeCount, memory, storage
  <2>2. DOMAIN pc' = Calls /\ \A u \in Calls : pc'[u] \in {"write", "truncate", "insert"} => pc'[u] = pc[u]
    BY <1>0, <1>3 DEF ReadDone, MergeCount
  <2> QED BY <1>0, <2>1, <2>2, MergeOther
<1>4. ASSUME NEW t \in Calls, NEW k, MergeFails(t, k) PROVE MergeInv'
  <2>1. UNCHANGED <<mapping, file_size, load_i, recs, slot, log_size, table, table_len, todo>>
    BY <1>4 DEF MergeFails, memory
  <2>2. DOMAIN pc' = Calls /\ \A u \in Calls : pc'[u] \in {"write", "truncate", "insert"} => pc'[u] = pc[u]
    BY <1>0, <1>4 DEF MergeFails
  <2>3. BaseInv'
    BY <1>4, CopyKeepsBase DEF MergeFails, MergeInv
  <2>4. FuncInv' /\ \A u \in Calls : CallInv(u)'
    BY <2>1, <2>2, CallsSame
  <2> QED BY <2>1, <2>3, <2>4 DEF MergeInv, TableInv, MapInv
<1>5. ASSUME NEW t \in Calls, NEW c, NEW ok \in BOOLEAN, MergeTrunc(t, c, ok) PROVE MergeInv'
  <2>1. UNCHANGED <<pc, slot, recs, todo, log_size, load_i, mapping, file_size, base, base_len>>
    BY <1>5 DEF MergeTrunc, memory
  <2>2. /\ \A s \in 0..(MaxSlots - 1) : IntEnds(table'[s])
        /\ table_len' \in 0..MaxSlots
    BY <1>0, <1>5, LogAssumption DEF MergeTrunc, IntEnds, Blank
  <2> QED BY <1>0, <2>1, <2>2, MergeOther
<1>6. ASSUME NEW t \in Calls, MergeDone(t) PROVE MergeInv'
  <2>1. /\ UNCHANGED <<slot, recs, todo, load_i, mapping, file_size, table, table_len, base, base_len>>
        /\ log_size' \in 0..MaxSlots
    BY <1>6, LogAssumption DEF MergeDone, storage
  <2>2. DOMAIN pc' = Calls /\ \A u \in Calls : pc'[u] \in {"write", "truncate", "insert"} => pc'[u] = pc[u]
    BY <1>0, <1>6 DEF MergeDone
  <2> QED BY <1>0, <2>1, <2>2, MergeOther
<1>7. CASE Die
  <2>1. UNCHANGED <<slot, recs, todo, log_size, load_i, mapping, file_size, table, table_len, base, base_len>>
    BY <1>7 DEF Die, storage
  <2>2. DOMAIN pc' = Calls /\ \A u \in Calls : pc'[u] \in {"write", "truncate", "insert"} => pc'[u] = pc[u]
    BY <1>0, <1>7 DEF Die
  <2> QED BY <1>0, <2>1, <2>2, MergeOther
<1>8. CASE LoadStart
  <2>1. /\ UNCHANGED <<pc, slot, recs, todo, table, table_len, base, base_len>>
        /\ mapping' = {} /\ load_i' = 0 /\ log_size' = table_len /\ file_size' = base_len
    BY <1>8 DEF LoadStart, storage, call
  <2>2. IsFiniteSet({})
    BY FS_EmptySet
  <2> QED BY <1>0, <2>1, <2>2 DEF MergeInv, FuncInv, TableInv, MapInv, BaseInv, CallInv
<1>9. ASSUME NEW ok \in BOOLEAN, LoadRecord(ok) PROVE MergeInv'
  BY <1>9, MergeLoadRecord
<1>10. CASE LoadDone \/ Finished \/ UNCHANGED vars
  <2>1. UNCHANGED <<pc, slot, recs, todo, log_size, table, table_len, load_i, mapping, file_size, base, base_len>>
    BY <1>10 DEF LoadDone, Finished, vars, memory, storage, call
  <2> QED BY <1>0, <2>1, MergeOther
<1> QED
  BY <1>1, <1>2, <1>3, <1>4, <1>5, <1>6, <1>7, <1>8, <1>9, <1>10 DEF Next, MergeNull, Crash

LEMMA InitMergeInv == Init => MergeInv
<1> SUFFICES ASSUME Init PROVE MergeInv
  OBVIOUS
<1>1. IsFiniteSet({})
  BY FS_EmptySet
<1>2. MapInv /\ TableInv
  BY <1>1, LogAssumption DEF Init, MapInv, TableInv, IntEnds, Blank
<1>3. BaseInv
  BY LogAssumption DEF Init, BaseInv, Pos
<1> QED BY <1>2, <1>3, LogAssumption DEF Init, MergeInv, FuncInv, CallInv

\* seglog_merge_with_base_func, whatever was written, truncated, cut off by a
\* crash and loaded before: a merge that succeeds leaves in the base, byte by
\* byte, what a reader of the log sees, holes and the bytes behind the old end
\* of the base included, if no range was entered after it counted them.
THEOREM MergesCopyLog == Spec => MergeCopiesLog
<1>2. MergeInv /\ [Next]_vars =>
        [\A t \in Calls :
           /\ pc[t] = "merge" /\ pc'[t] \in {"done", "copied"}
           /\ arg[t].n = Cardinality(mapping)
           => \A p \in Pos : BaseAt(p)' = Read(p)]_vars
  <2> SUFFICES ASSUME MergeInv, Next, NEW t \in Calls, pc[t] = "merge", pc'[t] \in {"done", "copied"},
                      arg[t].n = Cardinality(mapping), NEW p \in Pos
               PROVE  BaseAt(p)' = Read(p)
    OBVIOUS
  <2>0. DOMAIN pc = Calls
    BY DEF MergeInv, FuncInv
  <2>1. MergeCopy(t)
    <3>1. ASSUME NEW u \in Calls,
             \/ \E v \in IovLists : WriteReserve(u, v)
             \/ \E c \in {"table", "data"}, ok, landed \in BOOLEAN : ChildWrite(u, c, ok, landed)
             \/ WriteDone(u) \/ WriteInsert(u)
             \/ \E n \in NewSizes : TruncateStart(u, n)
             \/ TruncateDone(u)
             \/ \E lo, hi \in Pos : lo <= hi /\ ReadStart(u, lo, hi)
             \/ \E ok \in BOOLEAN : ReadDone(u, ok)
             \/ \E trunc \in BOOLEAN : MergeCount(u, trunc)
          PROVE  FALSE
      BY <2>0, <3>1 DEF WriteReserve, ChildWrite, WriteDone, WriteInsert, TruncateStart, TruncateDone,
         ReadStart, ReadDone, MergeCount
    <3>2. ASSUME NEW u \in Calls,
             \/ \E k \in 0..Cardinality(mapping) : MergeFails(u, k)
             \/ \E c \in {"table", "data"}, ok \in BOOLEAN : MergeTrunc(u, c, ok)
             \/ MergeDone(u)
          PROVE  FALSE
      BY <2>0, <3>2 DEF MergeFails, MergeTrunc, MergeDone
    <3>3. ~Die
      BY <2>0 DEF Die
    <3>4. ~(LoadStart \/ LoadDone \/ Finished \/ \E ok \in BOOLEAN : LoadRecord(ok))
      BY DEF LoadStart, LoadDone, Finished, LoadRecord, call, vars
    <3>5. ASSUME NEW u \in Calls, MergeCopy(u) PROVE u = t
      BY <2>0, <3>5 DEF MergeCopy
    <3> QED BY <3>1, <3>2, <3>3, <3>4, <3>5 DEF Next, MergeNull, Crash
  <2>2. CopyRanges(Cardinality(mapping))
    BY <2>1 DEF MergeCopy
  <2> QED BY <2>2, CopyAll DEF MergeInv
<1> QED BY <1>2, InitMergeInv, MergeStep, PTL DEF Spec, MergeCopiesLog

-----------------------------------------------------------------------------
(* Acknowledged writes.  What a reader finds at a byte, and what a load    *)
(* would find there, is followed from the reservation of a write to the    *)
(* table and the data segment and to the mapping.                          *)

LEMMA LeastNat ==
  ASSUME NEW S, S \subseteq Nat, S # {}
  PROVE  \E n \in S : \A m \in S : n <= m
<1>1. PICK n \in S : \A m \in S : <<m, n>> \notin OpToRel(<, Nat)
  BY WFMin, NatLessThanWellFounded, Zenon
<1>2. \A m \in S : ~(m < n)
  BY <1>1, Zenon DEF OpToRel
<1>3. n \in Nat /\ \A m \in S : m \in Nat
  BY <1>1
<1>4. \A m \in S : n <= m
  BY <1>2, <1>3
<1> QED BY <1>1, <1>4

Lens(v) == v \in Seq([offset : Nat, len : Nat \ {0}]) /\ v # <<>>
Sums(v, n, f) == f = [k \in 0..n |-> IF k = 0 THEN 0 ELSE f[k - 1] + v[k].len]

LEMMA LensSays ==
  ASSUME NEW v, Lens(v)
  PROVE  /\ Len(v) \in Nat /\ Len(v) > 0
         /\ \A k \in 1..Len(v) : v[k].offset \in Nat /\ v[k].len \in Nat /\ v[k].len > 0
<1>1. Len(v) \in Nat /\ v \in [1..Len(v) -> [offset : Nat, len : Nat \ {0}]]
  BY LenProperties DEF Lens
<1>2. Len(v) > 0
  BY <1>1 DEF Lens
<1> QED BY <1>1, <1>2

LEMMA SumsExtend ==
  ASSUME NEW v, NEW n \in Nat, n > 0, NEW f, Sums(v, n - 1, f)
  PROVE  \E g : Sums(v, n, g)
<1> DEFINE g == [k \in 0..n |-> IF k = n THEN f[n - 1] + v[n].len ELSE f[k]]
<1>1. \A k \in 0..(n - 1) : g[k] = f[k]
  OBVIOUS
<1>2. \A k \in 0..n : g[k] = IF k = 0 THEN 0 ELSE g[k - 1] + v[k].len
  <2> SUFFICES ASSUME NEW k \in 0..n PROVE g[k] = IF k = 0 THEN 0 ELSE g[k - 1] + v[k].len
    OBVIOUS
  <2>1. CASE k = n
    <3>1. g[n] = f[n - 1] + v[n].len /\ g[n - 1] = f[n - 1]
      BY <1>1
    <3> QED BY <2>1, <3>1
  <2>2. CASE k < n /\ k > 0
    <3>1. f[k] = f[k - 1] + v[k].len
      BY <2>2 DEF Sums
    <3>2. g[k] = f[k] /\ g[k - 1] = f[k - 1]
      BY <1>1, <2>2
    <3> QED BY <2>2, <3>1, <3>2
  <2>3. CASE k = 0
    <3>1. f[0] = 0
      BY DEF Sums
    <3> QED BY <1>1, <2>3, <3>1
  <2> QED BY <2>1, <2>2, <2>3
<1>3. Sums(v, n, g)
  <2>1. DOMAIN g = 0..n /\ g = [k \in 0..n |-> g[k]]
    OBVIOUS
  <2> HIDE DEF g
  <2> QED BY <1>2, <2>1 DEF Sums
<1> QED BY <1>3

LEMMA SumsExist ==
  ASSUME NEW v, NEW n \in Nat
  PROVE  \E f : Sums(v, n, f)
<1> DEFINE S == {m \in Nat : ~ \E f : Sums(v, m, f)}
<1> SUFFICES ASSUME S # {} PROVE FALSE
  OBVIOUS
<1>1. PICK m \in S : \A x \in S : m <= x
  BY LeastNat
<1>2. m \in Nat /\ ~ \E f : Sums(v, m, f)
  BY <1>1
<1>3. CASE m = 0
  <2> DEFINE f == [k \in 0..0 |-> 0]
  <2>1. f = [k \in 0..0 |-> IF k = 0 THEN 0 ELSE f[k - 1] + v[k].len]
    OBVIOUS
  <2>2. Sums(v, 0, f)
    BY <2>1 DEF Sums
  <2> QED BY <1>2, <1>3, <2>2
<1>4. CASE m > 0
  <2>1. m - 1 \in Nat /\ m - 1 \notin S
    BY <1>1, <1>2, <1>4
  <2>2. PICK f : Sums(v, m - 1, f)
    BY <2>1
  <2> QED BY <1>2, <1>4, <2>2, SumsExtend
<1> QED BY <1>2, <1>3, <1>4

LEMMA SumIsSums ==
  ASSUME NEW v, Lens(v)
  PROVE  Sums(v, Len(v), SumLen(v))
<1>1. Len(v) \in Nat
  BY LensSays
<1>2. \E f : Sums(v, Len(v), f)
  BY <1>1, SumsExist
<1> QED BY <1>2 DEF Sums, SumLen

(* The lengths add up.                                                     *)
LEMMA SumSays ==
  ASSUME NEW v, Lens(v)
  PROVE  /\ SumLen(v)[0] = 0
         /\ \A k \in 1..Len(v) : SumLen(v)[k] = SumLen(v)[k - 1] + v[k].len
BY SumIsSums, LensSays DEF Sums

LEMMA SumGrows ==
  ASSUME NEW v, Lens(v)
  PROVE  \A k \in 0..Len(v) : SumLen(v)[k] \in Nat /\ \A j \in 0..k : SumLen(v)[j] <= SumLen(v)[k]
<1> DEFINE s == SumLen(v)
           P(k) == s[k] \in Nat /\ \A j \in 0..k : s[j] \in Nat /\ s[j] <= s[k]
           S == {k \in 0..Len(v) : ~P(k)}
<1>1. Len(v) \in Nat /\ s[0] = 0 /\ \A k \in 1..Len(v) : s[k] = s[k - 1] + v[k].len /\ v[k].len \in Nat
  BY LensSays, SumSays
<1> HIDE DEF s
<1> SUFFICES ASSUME S # {} PROVE FALSE
  BY DEF s
<1>2. PICK m \in S : \A x \in S : m <= x
  <2>1. S \subseteq Nat
    BY <1>1
  <2> HIDE DEF S
  <2> QED BY <2>1, LeastNat
<1>3. m \in 0..Len(v) /\ ~P(m)
  BY <1>2
<1>4. m # 0
  BY <1>1, <1>3
<1>5. m - 1 \in 0..Len(v) /\ m - 1 \notin S
  BY <1>1, <1>2, <1>3, <1>4
<1>6. P(m - 1)
  BY <1>5
<1>7. s[m] = s[m - 1] + v[m].len /\ v[m].len \in Nat
  BY <1>1, <1>3, <1>4
<1>8. \A j \in 0..m : j = m \/ j \in 0..(m - 1)
  BY <1>1, <1>3
<1>9. s[m] \in Nat /\ s[m - 1] \in Nat /\ s[m - 1] <= s[m]
  BY <1>6, <1>7
<1>10. ASSUME NEW j \in 0..m PROVE s[j] \in Nat /\ s[j] <= s[m]
  BY <1>6, <1>8, <1>9
<1> QED BY <1>3, <1>9, <1>10

-----------------------------------------------------------------------------
(* Byte p of a table record, and where its data is.                        *)
Tells(r, p) == r.lo <= p /\ p < r.lo + r.hi
Place(r, p) == r.data_offset + (p - r.lo)

Slots == 0..(MaxSlots - 1)
Bytes == 0..(MaxData - 1)
End(t) == off[t] + SumLen(arg[t].iov)[Len(arg[t].iov)]
Holds(R, b, s) == b <= s /\ s < b + Len(R)
Mine(t, s) == Writing(t) /\ Holds(recs[t], slot[t], s)

(* What a write has reserved: records R for the iovs v in the slots from b *)
(* on, data from lo to e, each record a part of its own.                   *)
RoomOf(v, R, b, lo, e) ==
  /\ v \in IovLists /\ R \in Seq(Ranges) /\ Len(R) = Len(v)
  /\ b \in Nat /\ lo \in Nat /\ e \in Nat /\ lo < e
  /\ \A k \in 1..Len(R) :
       /\ R[k].lo = v[k].offset /\ R[k].hi = v[k].len
       /\ lo <= R[k].data_offset /\ R[k].data_offset + R[k].hi <= e
  /\ \A i, j \in 1..Len(R) : i < j => R[i].data_offset + R[i].hi <= R[j].data_offset
OwnSlots(R, b, tab) == \A s \in Slots : Holds(R, b, s) => tab[s] = Blank \/ tab[s] = R[s - b + 1]
TableIn(R, b, tab, tl) == b + Len(R) <= tl /\ \A k \in 1..Len(R) : tab[b + k - 1] = R[k]
InData(t, p, o, d, dl) == o \in Bytes /\ o < dl /\ d[o] = Byte(t, p)
DataIn(t, R, d, dl) == \A k \in 1..Len(R), p \in Int : Tells(R[k], p) => InData(t, p, Place(R[k], p), d, dl)
CleanIn(C, R, b, tab) == \A p \in C, s \in Slots : Tells(tab[s], p) /\ b <= s => Holds(R, b, s)
(* The first n records are in the mapping.                                 *)
EnteredAt(t, p, m, vw, d, lo, e) ==
  /\ vw[p] = Byte(t, p)
  /\ \E o \in Bytes : Offsets(m, p) = {o} /\ lo <= o /\ o < e /\ d[o] = Byte(t, p)
Entered(t, R, n, m, vw, d, lo, e) ==
  \A k \in 1..n, p \in Pos : Tells(R[k], p) => EnteredAt(t, p, m, vw, d, lo, e)
ToEnter(R, T) ==
  /\ T \in Seq(Ranges) /\ T # <<>> /\ Len(T) <= Len(R)
  /\ \A k \in 1..Len(T) : T[k] = InMemory(R[Len(R) - Len(T) + k])

CallOK(t) ==
  /\ RoomOf(arg[t].iov, recs[t], slot[t], off[t], End(t))
  /\ slot[t] + Len(recs[t]) <= log_size /\ End(t) <= data_size
  /\ OwnSlots(recs[t], slot[t], table)
  /\ pc[t] = "insert" \/ ("table" \notin pend[t] /\ ~bad[t]) => TableIn(recs[t], slot[t], table, table_len)
  /\ pc[t] = "insert" \/ ("data" \notin pend[t] /\ ~bad[t]) => DataIn(t, recs[t], data, data_len)
  /\ clean[t] \subseteq IovBytes(arg[t].iov) /\ CleanIn(clean[t], recs[t], slot[t], table)
  /\ pc[t] = "insert" => /\ lock = t /\ ToEnter(recs[t], todo[t])
                         /\ Entered(t, recs[t], Len(recs[t]) - Len(todo[t]), mapping, view, data, off[t], End(t))
Apart(t, u) ==
  /\ slot[t] + Len(recs[t]) <= slot[u] \/ slot[u] + Len(recs[u]) <= slot[t]
  /\ End(t) <= off[u] \/ End(u) <= off[t]
  /\ clean[t] \cap IovBytes(arg[u].iov) = {}
CallsOK == \A t \in Calls : Writing(t) => mode = "up" /\ CallOK(t) /\ \A u \in Calls : Writing(u) /\ u # t => Apart(t, u)

(* What a reader finds at byte p, at a place no write in flight will use.  *)
Foreign(o) == \A u \in Calls : pc[u] = "write" => o < off[u] \/ End(u) <= o
Shown(p) ==
  \/ Offsets(mapping, p) = {} /\ BaseAt(p) = view[p]
  \/ \E o \in Bytes : Offsets(mapping, p) = {o} /\ data[o] = view[p] /\ o < data_size /\ Foreign(o)
LiveOK == mode = "up" => \A p \in Pos \ torn : Shown(p)

(* What a load would find at byte p: the records of p of calls that are    *)
(* over, and the last of them.                                             *)
Counts(s, p) == s \in Slots /\ Tells(table[s], p) /\ \A t \in Calls : ~Mine(t, s)
Newest(s, p) == Counts(s, p) /\ \A x \in Slots : Counts(x, p) => x <= s
Busy(p) == \E t \in Calls : pc[t] = "insert" /\ p \in IovBytes(arg[t].iov)
Found(p, o) ==
  /\ o \in Bytes /\ o < data_len /\ o < data_size /\ Foreign(o)
  /\ p \notin raced /\ ~Busy(p) => data[o] = view[p]
Intact == \A t \in Calls : pc[t] = "copied" => "data" \in pend[t]
RecordsFound == \A p \in Pos \ torn, s \in Slots : Newest(s, p) => \E o \in Bytes : o = Place(table[s], p) /\ Found(p, o)
RestInBase == \A p \in Pos \ torn : ~Busy(p) /\ (\A s \in Slots : ~Counts(s, p)) => BaseAt(p) = view[p]
TableOK ==
  /\ \A s \in Slots : table_len <= s => table[s] = Blank
  /\ mode # "down" => table_len <= log_size
  /\ Intact => RecordsFound
  /\ RestInBase

(* A merge that empties the log is alone with it.                          *)
MergeOK(t) ==
  /\ mode = "up" /\ lock = t /\ mapping = {} /\ \A u \in Calls : ~Writing(u) /\ (pc[u] = "copied" => u = t)
  /\ \A p \in Pos \ torn : BaseAt(p) = view[p]
  /\ "table" \notin pend[t] /\ ~bad[t] => table_len = 0
  /\ pend[t] \subseteq {"table", "data"}
Merging == \A t \in Calls : pc[t] = "copied" => MergeOK(t)

(* A load has entered the records before load_i.                           *)
LoadedTo(n, p, m, tab) ==
  \/ Offsets(m, p) = {} /\ \A s \in 0..(n - 1) : ~Tells(tab[s], p)
  \/ \E s \in 0..(n - 1) : /\ Tells(tab[s], p) /\ Offsets(m, p) = {Place(tab[s], p)}
                           /\ \A x \in 0..(n - 1) : Tells(tab[x], p) => x <= s
Loading ==
  mode = "loading" => /\ log_size = table_len /\ data_size = data_len /\ load_i <= log_size
                      /\ \A p \in Pos \ torn : LoadedTo(load_i, p, mapping, table)

AckTypes ==
  /\ mapping \subseteq Ranges /\ data_size \in Nat /\ data_size <= MaxData /\ data_len \in Nat /\ data_len <= MaxData
  /\ \A p \in Int : Offsets(mapping, p) # {} => 0 <= p /\ p < file_size
  /\ \A s \in Slots : table[s] \in Ranges
  /\ DOMAIN arg = Calls /\ DOMAIN off = Calls /\ DOMAIN pend = Calls /\ DOMAIN bad = Calls /\ DOMAIN clean = Calls
  /\ DOMAIN data = Bytes /\ mode \in {"up", "down", "loading"}
  /\ \A t \in Calls : DOMAIN arg[t] = {"iov", "n", "trunc"}
AckOK == AckTypes /\ CallsOK /\ LiveOK /\ TableOK /\ Merging /\ Loading
AckInv == ~spoiled => AckOK

-----------------------------------------------------------------------------
(* Facts about reservations and records.                                   *)

LEMMA RoomSays ==
  ASSUME NEW v, NEW R, NEW b, NEW lo, NEW e, RoomOf(v, R, b, lo, e)
  PROVE  /\ Len(R) \in Nat /\ Len(R) > 0
         /\ \A k \in 1..Len(R) : R[k] \in Ranges /\ GoodRecord(R[k])
<1>1. Lens(v)
  BY LogAssumption DEF RoomOf, Lens
<1>2. /\ Len(v) \in Nat /\ Len(v) > 0
      /\ \A k \in 1..Len(v) : v[k].offset \in Nat /\ v[k].len \in Nat /\ v[k].len > 0
  BY <1>1, LensSays
<1>3. R \in Seq(Ranges) /\ Len(R) = Len(v)
  BY DEF RoomOf
<1>4. \A k \in 1..Len(R) : R[k] \in Ranges
  BY <1>3, <1>2
<1> QED BY <1>2, <1>3, <1>4 DEF RoomOf, GoodRecord

LEMMA RoomTells ==
  ASSUME NEW v, NEW R, NEW b, NEW lo, NEW e, RoomOf(v, R, b, lo, e),
         NEW k \in 1..Len(R), NEW p \in Int, Tells(R[k], p)
  PROVE  /\ lo <= Place(R[k], p) /\ Place(R[k], p) < e /\ Place(R[k], p) \in Nat
         /\ p \in Pos => p \in IovBytes(v)
<1>1. R[k] \in Ranges /\ GoodRecord(R[k]) /\ lo \in Nat /\ e \in Nat /\ Len(R) = Len(v)
  BY RoomSays DEF RoomOf
<1>2. /\ R[k].lo = v[k].offset /\ R[k].hi = v[k].len
      /\ lo <= R[k].data_offset /\ R[k].data_offset + R[k].hi <= e
  BY DEF RoomOf
<1>3. R[k].data_offset \in Int /\ R[k].lo \in Int /\ R[k].hi \in Int
  BY <1>1 DEF Ranges
<1>4. lo <= Place(R[k], p) /\ Place(R[k], p) < e /\ Place(R[k], p) \in Nat
  <2>1. R[k].lo <= p /\ p < R[k].lo + R[k].hi
    BY DEF Tells
  <2>2. Place(R[k], p) = R[k].data_offset + (p - R[k].lo)
    BY DEF Place
  <2> QED BY <1>1, <1>2, <1>3, <2>1, <2>2
<1>5. p \in Pos => p \in IovBytes(v)
  <2>1. v[k].offset <= p /\ p < v[k].offset + v[k].len /\ k \in 1..Len(v)
    BY <1>1, <1>2 DEF Tells
  <2> QED BY <2>1 DEF IovBytes
<1> QED BY <1>4, <1>5

LEMMA RoomBytes ==
  ASSUME NEW v, NEW R, NEW b, NEW lo, NEW e, RoomOf(v, R, b, lo, e), NEW p \in IovBytes(v)
  PROVE  p \in Pos /\ \E k \in 1..Len(R) : Tells(R[k], p)
<1>1. PICK k \in 1..Len(v) : p \in Pos /\ v[k].offset <= p /\ p < v[k].offset + v[k].len
  BY DEF IovBytes
<1>2. k \in 1..Len(R) /\ R[k].lo = v[k].offset /\ R[k].hi = v[k].len
  BY DEF RoomOf
<1> QED BY <1>1, <1>2 DEF Tells

LEMMA PosInt == \A p \in Pos : p \in Int
BY LogAssumption DEF Pos

LEMMA SameRange ==
  ASSUME NEW r \in Ranges, GoodRecord(r)
  PROVE  /\ InMemory(r) \in Ranges /\ InMemory(r).lo <= InMemory(r).hi
         /\ \A p \in Int : /\ Tells(r, p) <=> InMemory(r).lo <= p /\ p <= InMemory(r).hi
                           /\ Place(r, p) = InMemory(r).data_offset + (p - InMemory(r).lo)
BY DEF InMemory, Ranges, GoodRecord, Tells, Place

LEMMA InsertInRanges ==
  ASSUME NEW m, m \subseteq Ranges, NEW r \in Ranges
  PROVE  InsertRange(m, r) \subseteq Ranges
<1> DEFINE c == Cut(m, r)
<1>1. c \subseteq Ranges
  BY CutInRanges
<1> HIDE DEF c
<1>2. \A ir \in c : Join(ir, r) \in Ranges
  BY <1>1 DEF Join, Ranges
<1>3. Combine(c, r) \subseteq Ranges
  BY <1>1, <1>2 DEF Combine
<1> QED BY <1>3 DEF InsertRange, c

(* Entering a record: its bytes are found where it says.                   *)
Overlay(m, r, M) ==
  /\ M \subseteq Ranges
  /\ \A p \in Int : Offsets(M, p) = IF Tells(r, p) THEN {Place(r, p)} ELSE Offsets(m, p)
LEMMA EnterRecord ==
  ASSUME NEW m, m \subseteq Ranges, Disjoint(m), NEW r \in Ranges, GoodRecord(r)
  PROVE  Overlay(m, r, InsertRange(m, InMemory(r)))
<1>1. PICK q : q = InMemory(r)
  OBVIOUS
<1>2. q \in Ranges /\ q.lo <= q.hi
  BY <1>1, SameRange
<1>3. InsertRange(m, q) \subseteq Ranges
  BY <1>2, InsertInRanges
<1>4. ASSUME NEW p \in Int
      PROVE  Offsets(InsertRange(m, q), p) = IF Tells(r, p) THEN {Place(r, p)} ELSE Offsets(m, p)
  <2>1. Offsets(InsertRange(m, q), p) =
           IF q.lo <= p /\ p <= q.hi THEN {q.data_offset + (p - q.lo)} ELSE Offsets(m, p)
    BY <1>2, InsertOverlays
  <2>2. (Tells(r, p) <=> q.lo <= p /\ p <= q.hi) /\ Place(r, p) = q.data_offset + (p - q.lo)
    BY <1>1, SameRange
  <2> QED BY <2>1, <2>2
<1> QED BY <1>1, <1>3, <1>4 DEF Overlay

LEMMA ReadOne ==
  ASSUME NEW m, NEW d, NEW p, NEW o, Offsets(m, p) = {o}
  PROVE  ReadIn(m, d, p) = DataAt(d, o)
BY DEF ReadIn

LEMMA BlankTells ==
  ASSUME NEW p \in Int
  PROVE  ~Tells(Blank, p)
BY DEF Blank, Tells

-----------------------------------------------------------------------------
(* A call that another call's step leaves alone.                           *)

Kept(u) ==
  /\ pc'[u] = pc[u] /\ arg'[u] = arg[u] /\ recs'[u] = recs[u] /\ slot'[u] = slot[u] /\ off'[u] = off[u]
  /\ pend'[u] = pend[u] /\ bad'[u] = bad[u] /\ todo'[u] = todo[u]
Grows == log_size <= log_size' /\ data_size <= data_size' /\ table_len <= table_len' /\ data_len <= data_len'
Spared(u) ==
  /\ Grows
  /\ \A s \in Slots : Holds(recs[u], slot[u], s) => table'[s] = table[s]
  /\ \A o \in Bytes : off[u] <= o /\ o < End(u) => data'[o] = data[o]
  /\ clean'[u] \subseteq clean[u]
  /\ CleanIn(clean'[u], recs[u], slot[u], table')
  /\ pc[u] = "insert" => lock' = lock /\ mapping' = mapping /\ view' = view
Typed == LogInv /\ AckTypes

LEMMA TypedSays ==
  ASSUME Typed
  PROVE  /\ log_size \in Nat /\ data_size \in Nat /\ table_len \in Nat /\ data_len \in Nat /\ load_i \in Nat
         /\ log_size <= MaxSlots /\ table_len <= MaxSlots /\ MaxSlots \in Nat /\ MaxData \in Nat
         /\ \A u \in Calls : slot[u] \in Nat
         /\ mapping \subseteq Ranges /\ Disjoint(mapping)
BY LogAssumption DEF Typed, LogInv, AckTypes

LEMMA KeptOwn ==
  ASSUME NEW R, NEW b, NEW tab, NEW tab2, OwnSlots(R, b, tab), \A s \in Slots : Holds(R, b, s) => tab2[s] = tab[s]
  PROVE  OwnSlots(R, b, tab2)
BY DEF OwnSlots
LEMMA KeptTable ==
  ASSUME NEW R, NEW b, NEW tab, NEW tab2, NEW tl \in Nat, NEW tl2 \in Nat, TableIn(R, b, tab, tl),
         b \in Nat, Len(R) \in Nat, tl <= tl2, tl <= MaxSlots, MaxSlots \in Nat,
         \A s \in Slots : Holds(R, b, s) => tab2[s] = tab[s]
  PROVE  TableIn(R, b, tab2, tl2)
<1>1. b + Len(R) <= tl2
  BY DEF TableIn
<1>2. ASSUME NEW k \in 1..Len(R) PROVE tab2[b + k - 1] = R[k]
  <2>1. b + k - 1 \in Slots /\ Holds(R, b, b + k - 1)
    BY DEF Slots, Holds, TableIn
  <2> QED BY <2>1 DEF TableIn
<1> QED BY <1>1, <1>2 DEF TableIn
LEMMA KeptData ==
  ASSUME NEW t, NEW v, NEW R, NEW b, NEW lo, NEW e, RoomOf(v, R, b, lo, e), NEW d, NEW d2, NEW dl \in Nat, NEW dl2 \in Nat,
         DataIn(t, R, d, dl), dl <= dl2, \A o \in Bytes : lo <= o /\ o < e => d2[o] = d[o]
  PROVE  DataIn(t, R, d2, dl2)
<1> SUFFICES ASSUME NEW k \in 1..Len(R), NEW p \in Int, Tells(R[k], p)
             PROVE  InData(t, p, Place(R[k], p), d2, dl2)
  BY DEF DataIn
<1>1. PICK o : o = Place(R[k], p)
  OBVIOUS
<1>2. lo <= o /\ o < e /\ o \in Nat
  BY <1>1, RoomTells
<1>3. InData(t, p, o, d, dl)
  BY <1>1 DEF DataIn
<1> QED BY <1>1, <1>2, <1>3 DEF InData
LEMMA KeptEntered ==
  ASSUME NEW t, NEW R, NEW n, NEW m, NEW vw, NEW d, NEW d2, NEW lo, NEW e, Entered(t, R, n, m, vw, d, lo, e),
         \A o \in Bytes : lo <= o /\ o < e => d2[o] = d[o]
  PROVE  Entered(t, R, n, m, vw, d2, lo, e)
<1> SUFFICES ASSUME NEW k \in 1..n, NEW p \in Pos, Tells(R[k], p)
             PROVE  EnteredAt(t, p, m, vw, d2, lo, e)
  BY DEF Entered
<1>1. EnteredAt(t, p, m, vw, d, lo, e)
  BY DEF Entered
<1> QED BY <1>1 DEF EnteredAt

LEMMA CallKept ==
  ASSUME Typed, Typed', NEW u \in Calls, Writing(u), CallOK(u), Kept(u), Spared(u)
  PROVE  CallOK(u)' /\ Writing(u)'
<1>1. /\ pc'[u] = pc[u] /\ arg'[u] = arg[u] /\ recs'[u] = recs[u] /\ slot'[u] = slot[u] /\ off'[u] = off[u]
      /\ pend'[u] = pend[u] /\ bad'[u] = bad[u] /\ todo'[u] = todo[u] /\ End(u)' = End(u)
  BY DEF Kept, End
<1>2. /\ \A s \in Slots : Holds(recs[u], slot[u], s) => table'[s] = table[s]
      /\ \A o \in Bytes : off[u] <= o /\ o < End(u) => data'[o] = data[o]
      /\ Grows
  BY DEF Spared
<1>3. RoomOf(arg[u].iov, recs[u], slot[u], off[u], End(u))
  BY DEF CallOK
<1>4. Len(recs[u]) \in Nat /\ slot[u] \in Nat /\ End(u) \in Nat
  BY <1>3, RoomSays DEF RoomOf
<1>5. RoomOf(arg[u].iov, recs[u], slot[u], off[u], End(u))'
  BY <1>1, <1>3
<1>6. (slot[u] + Len(recs[u]) <= log_size /\ End(u) <= data_size)'
  <2>1. log_size \in Nat /\ data_size \in Nat
    BY TypedSays
  <2>2. (log_size \in Nat /\ data_size \in Nat)'
    BY LogAssumption DEF Typed, LogInv, AckTypes
  <2>3. slot[u] + Len(recs[u]) <= log_size /\ End(u) <= data_size
    BY DEF CallOK
  <2>4. log_size <= log_size' /\ data_size <= data_size'
    BY <1>2 DEF Grows
  <2> QED BY <1>1, <1>4, <2>1, <2>2, <2>3, <2>4
<1>7. OwnSlots(recs[u], slot[u], table)'
  BY <1>1, <1>2, KeptOwn DEF CallOK
<1>8. (pc[u] = "insert" \/ ("table" \notin pend[u] /\ ~bad[u]) => TableIn(recs[u], slot[u], table, table_len))'
  <2> SUFFICES ASSUME pc[u] = "insert" \/ ("table" \notin pend[u] /\ ~bad[u])
               PROVE  TableIn(recs[u], slot[u], table', table_len')
    BY <1>1
  <2>1. TableIn(recs[u], slot[u], table, table_len)
    BY DEF CallOK
  <2>2. table_len \in Nat /\ table_len' \in Nat /\ table_len <= table_len' /\ table_len <= MaxSlots /\ MaxSlots \in Nat
    BY <1>2, LogAssumption DEF Grows, Typed, LogInv
  <2> QED BY <1>2, <1>4, <2>1, <2>2, KeptTable
<1>9. (pc[u] = "insert" \/ ("data" \notin pend[u] /\ ~bad[u]) => DataIn(u, recs[u], data, data_len))'
  <2> SUFFICES ASSUME pc[u] = "insert" \/ ("data" \notin pend[u] /\ ~bad[u])
               PROVE  DataIn(u, recs[u], data', data_len')
    BY <1>1
  <2>1. DataIn(u, recs[u], data, data_len)
    BY DEF CallOK
  <2>2. data_len \in Nat /\ data_len' \in Nat /\ data_len <= data_len'
    BY <1>2 DEF Grows, Typed, AckTypes
  <2> QED BY <1>2, <1>3, <2>1, <2>2, KeptData
<1>10. (clean[u] \subseteq IovBytes(arg[u].iov) /\ CleanIn(clean[u], recs[u], slot[u], table))'
  BY <1>1 DEF Spared, CallOK, IovBytes
<1>11. (pc[u] = "insert" => /\ lock = u /\ ToEnter(recs[u], todo[u])
                         /\ Entered(u, recs[u], Len(recs[u]) - Len(todo[u]), mapping, view, data, off[u], End(u)))'
  <2> SUFFICES ASSUME pc[u] = "insert"
               PROVE  /\ lock' = u /\ ToEnter(recs[u], todo[u])
                      /\ Entered(u, recs[u], Len(recs[u]) - Len(todo[u]), mapping', view', data', off[u], End(u))
    BY <1>1
  <2>1. /\ lock = u /\ ToEnter(recs[u], todo[u])
        /\ Entered(u, recs[u], Len(recs[u]) - Len(todo[u]), mapping, view, data, off[u], End(u))
        /\ lock' = lock /\ mapping' = mapping /\ view' = view
    BY DEF CallOK, Spared
  <2>2. Entered(u, recs[u], Len(recs[u]) - Len(todo[u]), mapping, view, data', off[u], End(u))
    BY <1>2, <2>1, KeptEntered
  <2> QED BY <2>1, <2>2
<1>12. Writing(u)'
  BY <1>1 DEF Writing
<1> QED BY <1>5, <1>6, <1>7, <1>8, <1>9, <1>10, <1>11, <1>12 DEF CallOK

LEMMA ApartKept ==
  ASSUME NEW t \in Calls, NEW u \in Calls, Apart(t, u), Kept(t), Kept(u), clean'[t] \subseteq clean[t]
  PROVE  Apart(t, u)'
<1>1. End(t)' = End(t) /\ End(u)' = End(u) /\ IovBytes(arg[u].iov)' = IovBytes(arg[u].iov)
  BY DEF Kept, End, IovBytes
<1> QED BY <1>1 DEF Apart, Kept

-----------------------------------------------------------------------------
(* Bytes whose records, data and readers a step leaves alone.              *)

SameCounts(p) == \A s \in Slots : (Counts(s, p)' <=> Counts(s, p)) /\ (Counts(s, p) => table'[s] = table[s])

LEMMA NewestSame ==
  ASSUME NEW p, SameCounts(p), NEW s \in Slots
  PROVE  Newest(s, p)' <=> Newest(s, p)
BY DEF Newest, SameCounts

LEMMA RecordsKept ==
  ASSUME RecordsFound, torn \subseteq torn',
         \A p \in Pos \ torn' : SameCounts(p) /\ \A o : Found(p, o) => Found(p, o)'
  PROVE  RecordsFound'
<1> SUFFICES ASSUME NEW p \in Pos \ torn', NEW s \in Slots, Newest(s, p)'
             PROVE  \E o \in Bytes : o = Place(table'[s], p) /\ Found(p, o)'
  BY DEF RecordsFound
<1>1. SameCounts(p) /\ Newest(s, p) /\ p \in Pos \ torn
  BY NewestSame
<1>2. table'[s] = table[s]
  BY <1>1 DEF SameCounts, Newest
<1>3. PICK o \in Bytes : o = Place(table[s], p) /\ Found(p, o)
  BY <1>1 DEF RecordsFound
<1>4. Found(p, o)'
  BY <1>3
<1> QED BY <1>2, <1>3, <1>4

LEMMA RestKept ==
  ASSUME RestInBase, torn \subseteq torn',
         \A p \in Pos \ torn' : /\ SameCounts(p) /\ BaseAt(p)' = BaseAt(p)
                                /\ ~Busy(p)' => ~Busy(p) /\ view'[p] = view[p]
  PROVE  RestInBase'
<1> SUFFICES ASSUME NEW p \in Pos \ torn', ~Busy(p)', \A s \in Slots : ~Counts(s, p)'
             PROVE  BaseAt(p)' = view'[p]
  BY DEF RestInBase
<1>1. SameCounts(p) /\ BaseAt(p)' = BaseAt(p) /\ ~Busy(p) /\ view'[p] = view[p] /\ p \in Pos \ torn
  OBVIOUS
<1>2. \A s \in Slots : ~Counts(s, p)
  BY <1>1 DEF SameCounts
<1>3. BaseAt(p) = view[p]
  BY <1>1, <1>2 DEF RestInBase
<1> QED BY <1>1, <1>3

(* The writes in flight are the same, or use room that was free.           *)
SameWriters == \A u \in Calls : pc'[u] = "write" => (pc[u] = "write" /\ off'[u] = off[u] /\ arg'[u] = arg[u]) \/ off'[u] = data_size

LEMMA ForeignKept ==
  ASSUME SameWriters, data_size \in Nat, NEW o \in Bytes, o < data_size, Foreign(o)
  PROVE  Foreign(o)'
<1> SUFFICES ASSUME NEW u \in Calls, pc'[u] = "write" PROVE o < off'[u] \/ End(u)' <= o
  BY DEF Foreign
<1>1. CASE pc[u] = "write" /\ off'[u] = off[u] /\ arg'[u] = arg[u]
  <2>1. End(u)' = End(u) /\ off'[u] = off[u]
    BY <1>1 DEF End
  <2> QED BY <1>1, <2>1 DEF Foreign
<1>2. CASE off'[u] = data_size
  BY <1>2
<1> QED BY <1>1, <1>2 DEF SameWriters

LEMMA FoundKept ==
  ASSUME SameWriters, Grows, Typed, Typed', NEW p, NEW o, Found(p, o),
         p \in raced => p \in raced', ~Busy(p)' => ~Busy(p) /\ view'[p] = view[p],
         Foreign(o) => data'[o] = data[o]
  PROVE  Found(p, o)'
<1>1. o \in Bytes /\ o \in Nat /\ o < data_len /\ o < data_size /\ Foreign(o)
  BY LogAssumption DEF Found, Bytes
<1>2. o < data_len' /\ o < data_size'
  BY <1>1 DEF Grows, Typed, AckTypes
<1>3. Foreign(o)'
  BY <1>1, ForeignKept DEF Typed, AckTypes
<1> QED BY <1>1, <1>2, <1>3 DEF Found

LEMMA ShownKept ==
  ASSUME SameWriters, Grows, Typed, Typed', NEW p, Shown(p), Offsets(mapping', p) = Offsets(mapping, p),
         Offsets(mapping, p) = {} => BaseAt(p)' = BaseAt(p), view'[p] = view[p],
         \A o \in Bytes : Foreign(o) => data'[o] = data[o]
  PROVE  Shown(p)'
<1>1. CASE Offsets(mapping, p) = {} /\ BaseAt(p) = view[p]
  BY <1>1 DEF Shown
<1>2. CASE \E o \in Bytes : Offsets(mapping, p) = {o} /\ data[o] = view[p] /\ o < data_size /\ Foreign(o)
  <2>1. PICK o \in Bytes : Offsets(mapping, p) = {o} /\ data[o] = view[p] /\ o < data_size /\ Foreign(o)
    BY <1>2
  <2>2. Foreign(o)'
    BY <2>1, ForeignKept DEF Typed, AckTypes
  <2>3. o < data_size' /\ data'[o] = view'[p]
    <3>1. o \in Nat
      BY LogAssumption DEF Bytes
    <3> QED BY <2>1, <3>1 DEF Grows, Typed, AckTypes
  <2> QED BY <2>1, <2>2, <2>3 DEF Shown
<1> QED BY <1>1, <1>2 DEF Shown

-----------------------------------------------------------------------------
(* Reserving room.                                                         *)

Records(v, F, ds) ==
  F = [k \in 1..Len(v) |-> [lo |-> v[k].offset, hi |-> v[k].len, data_offset |-> ds + SumLen(v)[k - 1]]]
LEMMA ReserveRoom ==
  ASSUME NEW v \in IovLists, NEW ds \in Nat, NEW b \in Nat, NEW F, Records(v, F, ds)
  PROVE  RoomOf(v, F, b, ds, ds + SumLen(v)[Len(v)])
<1> DEFINE s == SumLen(v)
           n == Len(v)
<1>1. Lens(v)
  BY LogAssumption DEF Lens
<1>2. n \in Nat /\ n > 0 /\ \A k \in 1..n : v[k].offset \in Nat /\ v[k].len \in Nat /\ v[k].len > 0
  BY <1>1, LensSays
<1>3. s[0] = 0 /\ \A k \in 1..n : s[k] = s[k - 1] + v[k].len
  BY <1>1, SumSays
<1>4. \A k \in 0..n : s[k] \in Nat /\ \A j \in 0..k : s[j] <= s[k]
  BY <1>1, SumGrows
<1> HIDE DEF s
<1>5. F = [k \in 1..n |-> [lo |-> v[k].offset, hi |-> v[k].len, data_offset |-> ds + s[k - 1]]]
  BY DEF Records, s
<1> HIDE DEF n
<1>6. \A k \in 1..n : k - 1 \in 0..n /\ k \in 0..n /\ s[k - 1] \in Nat /\ s[k] \in Nat
  BY <1>2, <1>4
<1>7. \A k \in 1..n : F[k] = [lo |-> v[k].offset, hi |-> v[k].len, data_offset |-> ds + s[k - 1]]
  BY <1>5
<1>8. ASSUME NEW k \in 1..n
      PROVE  F[k] \in Ranges /\ F[k].lo = v[k].offset /\ F[k].hi = v[k].len /\ F[k].data_offset = ds + s[k - 1]
  <2>1. F[k] = [lo |-> v[k].offset, hi |-> v[k].len, data_offset |-> ds + s[k - 1]]
    BY <1>7
  <2>2. PICK x, y, z : x = v[k].offset /\ y = v[k].len /\ z = ds + s[k - 1]
    OBVIOUS
  <2>3. F[k] = [lo |-> x, hi |-> y, data_offset |-> z]
    BY <2>1, <2>2
  <2>4. x \in Int /\ y \in Int /\ z \in Int
    BY <1>2, <1>6, <2>2
  <2>5. F[k].lo = x /\ F[k].hi = y /\ F[k].data_offset = z /\ F[k] \in Ranges
    BY ONLY <2>3, <2>4 DEF Ranges
  <2> QED BY ONLY <2>2, <2>5
<1>9. F \in Seq(Ranges) /\ Len(F) = n
  <2>1. \A k \in 1..n : F[k] \in Ranges
    BY <1>8
  <2>2. DOMAIN F = 1..n /\ F = [k \in 1..n |-> F[k]]
    BY <1>5
  <2> QED BY ONLY <1>2, <2>1, <2>2
<1>10. ASSUME NEW k \in 1..n
       PROVE  /\ F[k].lo = v[k].offset /\ F[k].hi = v[k].len
              /\ ds <= F[k].data_offset /\ F[k].data_offset + F[k].hi <= ds + s[n]
  <2>1. s[k - 1] \in Nat /\ s[k] = s[k - 1] + v[k].len /\ s[k] <= s[n] /\ s[n] \in Nat /\ v[k].len \in Nat
    BY <1>2, <1>3, <1>4, <1>6
  <2>2. F[k].lo = v[k].offset /\ F[k].hi = v[k].len /\ F[k].data_offset = ds + s[k - 1]
    BY <1>8
  <2> QED BY <2>1, <2>2
<1>11. ASSUME NEW i \in 1..n, NEW j \in 1..n, i < j
       PROVE  F[i].data_offset + F[i].hi <= F[j].data_offset
  <2>1. i \in 0..(j - 1) /\ j - 1 \in 0..n
    BY <1>2, <1>11
  <2>2. s[i] <= s[j - 1] /\ s[i] = s[i - 1] + v[i].len /\ s[i] \in Nat /\ s[j - 1] \in Nat /\ s[i - 1] \in Nat /\ v[i].len \in Nat
    BY <1>2, <1>3, <1>4, <1>6, <2>1
  <2>3. F[i].hi = v[i].len /\ F[i].data_offset = ds + s[i - 1] /\ F[j].data_offset = ds + s[j - 1]
    BY <1>8
  <2> QED BY <2>2, <2>3
<1>12. ds + s[n] \in Nat /\ ds < ds + s[n]
  <2>1. s[1] = s[0] + v[1].len /\ s[1] <= s[n] /\ s[n] \in Nat /\ v[1].len \in Nat /\ v[1].len > 0
    BY <1>2, <1>3, <1>4
  <2> QED BY <1>3, <2>1
<1> QED BY <1>9, <1>10, <1>11, <1>12 DEF RoomOf, s, n

-----------------------------------------------------------------------------
(* What a step of one call leaves alone.                                   *)

Good == LogInv /\ MergeInv /\ AckOK
Pre == Good /\ LogInv'
OthersKept(t) == \A u \in Calls : u # t => Kept(u)

LEMMA PreSays ==
  ASSUME Pre
  PROVE  /\ Typed /\ CallsOK /\ LiveOK /\ TableOK /\ Merging /\ Loading
         /\ AckTypes' => Typed'
BY DEF Pre, Good, AckOK, Typed

LEMMA CountsSame ==
  ASSUME NEW p, UNCHANGED table,
         \A s \in Slots : Tells(table[s], p) => ((\E u \in Calls : Mine(u, s)') <=> (\E u \in Calls : Mine(u, s)))
  PROVE  SameCounts(p)
BY DEF SameCounts, Counts

LEMMA MineKept ==
  ASSUME NEW u \in Calls, Kept(u), NEW s
  PROVE  Mine(u, s)' <=> Mine(u, s)
BY DEF Kept, Mine, Writing, Holds

(* The other calls keep what they have, and the call that moved has its    *)
(* own reservation.                                                        *)
LEMMA CallsKept ==
  ASSUME Typed, Typed', CallsOK, mode' = "up", NEW t \in Calls, OthersKept(t),
         \A u \in Calls : u # t /\ Writing(u) => Spared(u),
         Writing(t)' => /\ CallOK(t)'
                        /\ \A u \in Calls : u # t /\ Writing(u) => Apart(t, u)' /\ Apart(u, t)'
  PROVE  CallsOK'
<1> SUFFICES ASSUME NEW u \in Calls, Writing(u)'
             PROVE  CallOK(u)' /\ \A w \in Calls : Writing(w)' /\ w # u => Apart(u, w)'
  BY DEF CallsOK
<1>1. \A w \in Calls : w # t /\ Writing(w)' => Writing(w) /\ Kept(w) /\ CallOK(w) /\ Spared(w)
  BY DEF OthersKept, Kept, Writing, CallsOK
<1>2. CASE u = t
  BY <1>1, <1>2
<1>3. CASE u # t
  <2>1. CallOK(u)'
    BY <1>1, <1>3, CallKept
  <2>2. ASSUME NEW w \in Calls, Writing(w)', w # u
        PROVE  Apart(u, w)'
    <3>1. CASE w = t
      BY <1>1, <1>3, <2>2, <3>1
    <3>2. CASE w # t
      <4>1. Apart(u, w) /\ Kept(u) /\ Kept(w) /\ clean'[u] \subseteq clean[u]
        BY <1>1, <1>3, <2>2, <3>2 DEF CallsOK, Spared
      <4> QED BY <4>1, ApartKept
    <3> QED BY <3>1, <3>2
  <2> QED BY <2>1, <2>2
<1> QED BY <1>2, <1>3

LEMMA SparedSame ==
  ASSUME Typed, NEW u \in Calls, Writing(u), CallOK(u),
         UNCHANGED <<mapping, log_size, data_size, lock, table, table_len, data, data_len, view, clean>>
  PROVE  Spared(u)
BY TypedSays DEF Spared, Grows, CallOK

(* A step of a call that neither writes nor empties the log.               *)
QuietFor(t) ==
  /\ OthersKept(t)
  /\ pc[t] \notin {"write", "insert", "copied"} /\ pc'[t] \notin {"write", "insert", "copied"}
  /\ UNCHANGED <<mode, mapping, file_size, log_size, data_size, lock, load_i, table, table_len, data, data_len,
                 base, base_len, view, clean, torn, raced>>

LEMMA QuietMine ==
  ASSUME NEW t \in Calls, QuietFor(t)
  PROVE  /\ \A u \in Calls : \A s : Mine(u, s)' <=> Mine(u, s)
         /\ \A p : SameCounts(p) /\ (Busy(p)' <=> Busy(p)) /\ BaseAt(p)' = BaseAt(p)
         /\ SameWriters
<1>1. ASSUME NEW u \in Calls, NEW s PROVE Mine(u, s)' <=> Mine(u, s)
  <2>1. CASE u = t
    BY <2>1 DEF QuietFor, Mine, Writing
  <2>2. CASE u # t
    BY <2>2, MineKept DEF QuietFor, OthersKept
  <2> QED BY <2>1, <2>2
<1>2. \A p : SameCounts(p)
  BY <1>1, CountsSame DEF QuietFor
<1>3. ASSUME NEW p PROVE Busy(p)' <=> Busy(p)
  <2>1. \A u \in Calls : pc[u] = "insert" \/ pc'[u] = "insert" => pc'[u] = pc[u] /\ arg'[u] = arg[u]
    BY DEF QuietFor, OthersKept, Kept
  <2>2. \A u \in Calls : pc[u] = "insert" \/ pc'[u] = "insert" => IovBytes(arg[u].iov)' = IovBytes(arg[u].iov)
    BY <2>1 DEF IovBytes
  <2> QED BY <2>1, <2>2 DEF Busy
<1>4. \A p : BaseAt(p)' = BaseAt(p)
  BY DEF BaseAt, QuietFor
<1>5. SameWriters
  BY DEF SameWriters, QuietFor, OthersKept, Kept
<1> QED BY <1>1, <1>2, <1>3, <1>4, <1>5

LEMMA QuietStep ==
  ASSUME Pre, AckTypes', mode = "up", NEW t \in Calls, QuietFor(t)
  PROVE  AckOK'
<1>1. Typed /\ Typed' /\ CallsOK /\ LiveOK /\ TableOK /\ Merging /\ Loading
  BY PreSays
<1>2. Grows
  BY <1>1, TypedSays DEF Grows, QuietFor
<1>3. CallsOK'
  <2>1. \A u \in Calls : u # t /\ Writing(u) => Spared(u)
    BY <1>1, SparedSame DEF QuietFor, CallsOK
  <2>2. ~Writing(t)' /\ mode' = "up" /\ OthersKept(t)
    BY DEF QuietFor, Writing
  <2> QED BY <1>1, <2>1, <2>2, CallsKept
<1>4. LiveOK'
  <2> SUFFICES ASSUME NEW p \in Pos \ torn PROVE Shown(p)'
    BY DEF LiveOK, QuietFor
  <2>1. Shown(p)
    BY <1>1 DEF LiveOK
  <2> QED BY <1>1, <1>2, <2>1, QuietMine, ShownKept DEF QuietFor
<1>5. TableOK'
  <2>1. RecordsFound => RecordsFound'
    <3> SUFFICES ASSUME RecordsFound PROVE RecordsFound'
      OBVIOUS
    <3>1. ASSUME NEW p \in Pos \ torn', NEW o, Found(p, o) PROVE Found(p, o)'
      BY <1>1, <1>2, <3>1, QuietMine, FoundKept DEF QuietFor
    <3> QED BY <3>1, QuietMine, RecordsKept DEF QuietFor
  <2>2. RestInBase'
    BY <1>1, QuietMine, RestKept DEF TableOK, QuietFor
  <2>3. Intact' => Intact
    BY DEF Intact, QuietFor, OthersKept, Kept
  <2> QED BY <1>1, <2>1, <2>2, <2>3 DEF TableOK, QuietFor
<1>6. Merging'
  <2> SUFFICES ASSUME NEW u \in Calls, pc'[u] = "copied" PROVE MergeOK(u)'
    BY DEF Merging
  <2>1. u # t /\ Kept(u) /\ pc[u] = "copied"
    BY DEF QuietFor, OthersKept, Kept
  <2>2. MergeOK(u)
    BY <1>1, <2>1 DEF Merging
  <2>3. \A w \in Calls : ~Writing(w)' /\ (pc'[w] = "copied" => w = u)
    BY <2>1, <2>2 DEF MergeOK, QuietFor, OthersKept, Kept, Writing
  <2>4. \A p \in Pos \ torn' : BaseAt(p)' = view'[p]
    BY <2>2, QuietMine DEF MergeOK, QuietFor
  <2> QED BY <2>1, <2>2, <2>3, <2>4 DEF MergeOK, QuietFor, Kept
<1>7. Loading'
  BY DEF Loading, QuietFor
<1> QED BY <1>3, <1>4, <1>5, <1>6, <1>7 DEF AckOK

(* The records that a load would enter are as good as before.              *)
ByteKept(p) ==
  /\ SameCounts(p) /\ BaseAt(p)' = BaseAt(p)
  /\ ~Busy(p)' => ~Busy(p) /\ view'[p] = view[p]
  /\ p \in raced => p \in raced'
LEMMA LogKept ==
  ASSUME Typed, Typed', Grows, SameWriters, torn \subseteq torn', RestInBase,
         \A p \in Pos \ torn' : ByteKept(p),
         \A o \in Bytes : Foreign(o) => data'[o] = data[o]
  PROVE  (RecordsFound => RecordsFound') /\ RestInBase'
<1>1. ASSUME RecordsFound PROVE RecordsFound'
  <2>1. ASSUME NEW p \in Pos \ torn', NEW o, Found(p, o) PROVE Found(p, o)'
    <3>1. o \in Bytes
      BY <2>1 DEF Found
    <3> QED BY <2>1, <3>1, FoundKept DEF ByteKept
  <2> QED BY <1>1, <2>1, RecordsKept DEF ByteKept
<1>2. RestInBase'
  BY RestKept DEF ByteKept
<1> QED BY <1>1, <1>2

(* A call whose reservation ends.                                          *)
LEMMA OwnTells ==
  ASSUME NEW t \in Calls, Writing(t), CallOK(t), NEW s \in Slots, Holds(recs[t], slot[t], s),
         NEW p \in Pos, Tells(table[s], p)
  PROVE  p \in IovBytes(arg[t].iov) /\ table[s] = recs[t][s - slot[t] + 1] /\ s - slot[t] + 1 \in 1..Len(recs[t])
<1>1. RoomOf(arg[t].iov, recs[t], slot[t], off[t], End(t)) /\ p \in Int
  BY PosInt DEF CallOK
<1>2. Len(recs[t]) \in Nat /\ slot[t] \in Nat /\ s \in Int
  BY <1>1, RoomSays, LogAssumption DEF RoomOf, Slots
<1>3. s - slot[t] + 1 \in 1..Len(recs[t])
  BY <1>2 DEF Holds
<1>4. table[s] = recs[t][s - slot[t] + 1]
  BY <1>1, BlankTells DEF CallOK, OwnSlots
<1> QED BY <1>1, <1>3, <1>4, RoomTells

LEMMA NoneEntering ==
  ASSUME CallsOK, lock = NoCall
  PROVE  \A u \in Calls : pc[u] # "insert"
BY LogAssumption DEF CallsOK, CallOK, Writing

LEMMA NoneEmptying ==
  ASSUME Merging, lock = NoCall
  PROVE  \A u \in Calls : pc[u] # "copied"
BY LogAssumption DEF Merging, MergeOK

LEMMA WriteFailsAck ==
  ASSUME Pre, NEW t \in Calls, WriteDone(t), bad[t]
  PROVE  AckOK'
<1>1. Typed /\ CallsOK /\ LiveOK /\ TableOK /\ Merging /\ Loading /\ DOMAIN pc = Calls
  BY PreSays DEF Typed, LogInv
<1>2. /\ mode = "up" /\ lock = NoCall /\ pc[t] = "write" /\ pc' = [pc EXCEPT ![t] = "failed"]
      /\ torn' = torn \cup Touched(t)
      /\ UNCHANGED <<lock, todo, mode, mapping, file_size, log_size, data_size, load_i, table, table_len, data,
                     data_len, base, base_len, arg, recs, slot, off, pend, bad, view, clean, raced>>
  BY DEF WriteDone, Free, storage
<1>3. AckTypes' /\ Typed'
  BY <1>1, <1>2, PreSays DEF Typed, AckTypes
<1>4. Grows /\ OthersKept(t) /\ pc'[t] = "failed"
  BY <1>1, <1>2, TypedSays DEF Grows, OthersKept, Kept
<1>5. Touched(t) = IovBytes(arg[t].iov) /\ CallOK(t) /\ Writing(t) /\ ~Writing(t)'
  BY <1>1, <1>2, <1>4 DEF Touched, Writing, CallsOK
<1>6. SameWriters
  BY <1>4 DEF SameWriters, OthersKept, Kept
<1>7. ASSUME NEW p \in Pos \ torn' PROVE ByteKept(p)
  <2>1. p \notin IovBytes(arg[t].iov)
    BY <1>2, <1>5
  <2>2. ASSUME NEW s \in Slots, Tells(table[s], p)
        PROVE  (\E u \in Calls : Mine(u, s)') <=> (\E u \in Calls : Mine(u, s))
    <3>1. ~Mine(t, s) /\ ~Mine(t, s)'
      BY <1>5, <2>1, <2>2, OwnTells DEF Mine
    <3>2. \A u \in Calls : u # t => (Mine(u, s)' <=> Mine(u, s))
      BY <1>4, MineKept DEF OthersKept
    <3> QED BY <3>1, <3>2
  <2>3. SameCounts(p)
    BY <1>2, <2>2, CountsSame
  <2>4. Busy(p)' <=> Busy(p)
    BY <1>2, <1>4 DEF Busy, OthersKept, Kept, IovBytes
  <2>5. BaseAt(p)' = BaseAt(p)
    BY <1>2 DEF BaseAt
  <2> QED BY <1>2, <2>3, <2>4, <2>5 DEF ByteKept
<1>8. CallsOK'
  <2>1. \A u \in Calls : u # t /\ Writing(u) => Spared(u)
    BY <1>1, <1>2, SparedSame DEF CallsOK
  <2> QED BY <1>1, <1>2, <1>3, <1>4, <1>5, <2>1, CallsKept
<1>9. LiveOK'
  <2> SUFFICES ASSUME NEW p \in Pos \ torn' PROVE Shown(p)'
    BY DEF LiveOK
  <2>1. Shown(p)
    BY <1>1, <1>2 DEF LiveOK
  <2>2. BaseAt(p)' = BaseAt(p)
    BY <1>2 DEF BaseAt
  <2> QED BY <1>1, <1>2, <1>3, <1>4, <1>6, <2>1, <2>2, ShownKept
<1>10. TableOK'
  <2>1. (RecordsFound => RecordsFound') /\ RestInBase'
    BY <1>1, <1>2, <1>3, <1>4, <1>6, <1>7, LogKept DEF TableOK
  <2>2. Intact' => Intact
    BY <1>2, <1>4 DEF Intact, OthersKept, Kept
  <2> QED BY <1>1, <1>2, <2>1, <2>2 DEF TableOK
<1>11. Merging'
  BY <1>1, <1>2, <1>4, NoneEmptying DEF Merging, OthersKept, Kept
<1>12. Loading'
  BY <1>2 DEF Loading
<1> QED BY <1>3, <1>8, <1>9, <1>10, <1>11, <1>12 DEF AckOK

LEMMA WriteEntersAck ==
  ASSUME Pre, NEW t \in Calls, WriteDone(t), ~bad[t]
  PROVE  AckOK'
<1> DEFINE T == [k \in 1..Len(recs[t]) |-> InMemory(recs[t][k])]
<1>1. Typed /\ CallsOK /\ LiveOK /\ TableOK /\ Merging /\ Loading /\ DOMAIN pc = Calls /\ DOMAIN todo = Calls
  BY PreSays DEF Typed, LogInv
<1>2. /\ mode = "up" /\ lock = NoCall /\ pc[t] = "write" /\ pend[t] = {} /\ pc' = [pc EXCEPT ![t] = "insert"]
      /\ lock' = t /\ todo' = [todo EXCEPT ![t] = T]
      /\ UNCHANGED <<torn, mode, mapping, file_size, log_size, data_size, load_i, table, table_len, data,
                     data_len, base, base_len, arg, recs, slot, off, pend, bad, view, clean, raced>>
  BY DEF WriteDone, Free, storage
<1> HIDE DEF T
<1>3. AckTypes' /\ Typed'
  BY <1>1, <1>2, PreSays DEF Typed, AckTypes
<1>4. Grows /\ OthersKept(t) /\ pc'[t] = "insert" /\ todo'[t] = T
  BY <1>1, <1>2, TypedSays DEF Grows, OthersKept, Kept
<1>5. CallOK(t) /\ Writing(t) /\ Writing(t)'
  BY <1>1, <1>2, <1>4 DEF Writing, CallsOK
<1>6. SameWriters
  BY <1>4 DEF SameWriters, OthersKept, Kept
<1>7. ASSUME NEW p \in Pos \ torn' PROVE ByteKept(p)
  <2>1. ASSUME NEW s \in Slots
        PROVE  (\E u \in Calls : Mine(u, s)') <=> (\E u \in Calls : Mine(u, s))
    <3>1. Mine(t, s)' <=> Mine(t, s)
      BY <1>2, <1>5 DEF Mine, Holds
    <3>2. \A u \in Calls : u # t => (Mine(u, s)' <=> Mine(u, s))
      BY <1>4, MineKept DEF OthersKept
    <3> QED BY <3>1, <3>2
  <2>2. SameCounts(p)
    BY <1>2, <2>1, CountsSame
  <2>3. ~Busy(p)' => ~Busy(p)
    BY <1>2, <1>4 DEF Busy, OthersKept, Kept, IovBytes
  <2>4. BaseAt(p)' = BaseAt(p)
    BY <1>2 DEF BaseAt
  <2> QED BY <1>2, <2>2, <2>3, <2>4 DEF ByteKept
<1>8. CallsOK'
  <2>1. \A u \in Calls : u # t /\ Writing(u) => Spared(u)
    <3> SUFFICES ASSUME NEW u \in Calls, u # t, Writing(u) PROVE Spared(u)
      OBVIOUS
    <3>1. pc[u] # "insert" /\ CallOK(u)
      BY <1>1, <1>2, NoneEntering DEF CallsOK
    <3> QED BY <1>1, <1>2, <1>4, <3>1 DEF Spared, CallOK
  <2>2. CallOK(t)'
    <3>1. End(t)' = End(t)
      BY <1>2 DEF End
    <3>2. RoomOf(arg[t].iov, recs[t], slot[t], off[t], End(t))
      BY <1>5 DEF CallOK
    <3>3. Len(recs[t]) \in Nat /\ Len(recs[t]) > 0 /\ \A k \in 1..Len(recs[t]) : recs[t][k] \in Ranges /\ GoodRecord(recs[t][k])
      BY <3>2, RoomSays
    <3>4. \A k \in 1..Len(recs[t]) : InMemory(recs[t][k]) \in Ranges
      BY <3>3, SameRange
    <3>5. Len(T) = Len(recs[t]) /\ T \in Seq(Ranges) /\ \A k \in 1..Len(T) : T[k] = InMemory(recs[t][k])
      BY <3>3, <3>4 DEF T
    <3>6. ToEnter(recs[t], T)
      BY <3>3, <3>5 DEF ToEnter
    <3>7. Entered(t, recs[t], 0, mapping, view, data, off[t], End(t))
      BY DEF Entered
    <3>8. Len(recs[t]) - Len(T) = 0
      BY <3>3, <3>5
    <3>9. Entered(t, recs[t], Len(recs[t]) - Len(T), mapping, view, data, off[t], End(t))
      BY <3>7, <3>8
    <3>10. TableIn(recs[t], slot[t], table, table_len) /\ DataIn(t, recs[t], data, data_len)
      BY <1>2, <1>5 DEF CallOK
    <3>11. IovBytes(arg[t].iov)' = IovBytes(arg[t].iov)
      BY <1>2 DEF IovBytes
    <3> HIDE DEF T
    <3> QED BY <1>2, <1>4, <1>5, <3>1, <3>2, <3>6, <3>9, <3>10, <3>11 DEF CallOK
  <2>3. \A u \in Calls : u # t /\ Writing(u) => Apart(t, u)' /\ Apart(u, t)'
    <3> SUFFICES ASSUME NEW u \in Calls, u # t, Writing(u) PROVE Apart(t, u)' /\ Apart(u, t)'
      OBVIOUS
    <3>1. Apart(t, u) /\ Apart(u, t)
      BY <1>1, <1>5 DEF CallsOK
    <3>2. End(t)' = End(t) /\ End(u)' = End(u) /\ IovBytes(arg[t].iov)' = IovBytes(arg[t].iov) /\ IovBytes(arg[u].iov)' = IovBytes(arg[u].iov)
      BY <1>2 DEF End, IovBytes
    <3> QED BY <1>2, <3>1, <3>2 DEF Apart
  <2> QED BY <1>1, <1>2, <1>3, <1>4, <2>1, <2>2, <2>3, CallsKept
<1>9. LiveOK'
  <2> SUFFICES ASSUME NEW p \in Pos \ torn' PROVE Shown(p)'
    BY DEF LiveOK
  <2>1. Shown(p)
    BY <1>1, <1>2 DEF LiveOK
  <2>2. BaseAt(p)' = BaseAt(p)
    BY <1>2 DEF BaseAt
  <2> QED BY <1>1, <1>2, <1>3, <1>4, <1>6, <2>1, <2>2, ShownKept
<1>10. TableOK'
  <2>1. (RecordsFound => RecordsFound') /\ RestInBase'
    BY <1>1, <1>2, <1>3, <1>4, <1>6, <1>7, LogKept DEF TableOK
  <2>2. Intact' => Intact
    BY <1>2, <1>4 DEF Intact, OthersKept, Kept
  <2> QED BY <1>1, <1>2, <2>1, <2>2 DEF TableOK
<1>11. Merging'
  BY <1>1, <1>2, <1>4, NoneEmptying DEF Merging, OthersKept, Kept
<1>12. Loading'
  BY <1>2 DEF Loading
<1> QED BY <1>3, <1>8, <1>9, <1>10, <1>11, <1>12 DEF AckOK

LEMMA ReserveAck ==
  ASSUME Pre, NEW t \in Calls, NEW v \in IovLists, WriteReserve(t, v)
  PROVE  AckOK'
<1> DEFINE F == [k \in 1..Len(v) |-> [lo |-> v[k].offset, hi |-> v[k].len, data_offset |-> data_size + SumLen(v)[k - 1]]]
           E == data_size + SumLen(v)[Len(v)]
           C == IovBytes(v) \ UNION {Touched(w) : w \in Calls}
<1>1. /\ Typed /\ CallsOK /\ LiveOK /\ TableOK /\ Merging /\ Loading
      /\ DOMAIN pc = Calls /\ DOMAIN recs = Calls /\ DOMAIN slot = Calls
  BY PreSays DEF Typed, LogInv
<1>2. /\ mode = "up" /\ lock = NoCall /\ pc[t] = "idle" /\ pc' = [pc EXCEPT ![t] = "write"]
      /\ log_size + Len(v) <= MaxSlots /\ E <= MaxData
      /\ arg' = [arg EXCEPT ![t].iov = v] /\ recs' = [recs EXCEPT ![t] = F]
      /\ slot' = [slot EXCEPT ![t] = log_size] /\ off' = [off EXCEPT ![t] = data_size]
      /\ log_size' = log_size + Len(v) /\ data_size' = E
      /\ pend' = [pend EXCEPT ![t] = {"table", "data"}]
      /\ UNCHANGED <<torn, mode, mapping, file_size, lock, load_i, table, table_len, data,
                     data_len, base, base_len, todo, bad, view, raced>>
  BY DEF WriteReserve, Free, storage
<1>3. /\ DOMAIN clean' = Calls /\ clean'[t] \subseteq C
      /\ \A u \in Calls : u # t => clean'[u] = clean[u] \ IovBytes(v)
  BY DEF WriteReserve
<1>4. RoomOf(v, F, log_size, data_size, E)
  BY <1>1, TypedSays, ReserveRoom DEF Records
<1>5. Len(F) \in Nat /\ Len(F) > 0 /\ Len(F) = Len(v) /\ E \in Nat /\ data_size < E /\ \A k \in 1..Len(F) : GoodRecord(F[k])
  BY <1>4, RoomSays DEF RoomOf
<1> HIDE DEF F, E, C
<1>6. /\ DOMAIN arg = Calls /\ DOMAIN off = Calls /\ DOMAIN pend = Calls /\ DOMAIN arg[t] = {"iov", "n", "trunc"}
  BY <1>1 DEF Typed, AckTypes
<1>7. /\ pc'[t] = "write" /\ recs'[t] = F /\ slot'[t] = log_size /\ off'[t] = data_size /\ pend'[t] = {"table", "data"}
      /\ arg'[t].iov = v /\ DOMAIN arg'[t] = {"iov", "n", "trunc"} /\ \A u \in Calls : u # t => arg'[u] = arg[u]
  BY <1>1, <1>2, <1>6
<1>8. End(t)' = E
  BY <1>7 DEF End, E
<1>9. AckTypes' /\ Typed'
  BY <1>1, <1>2, <1>3, <1>5, <1>7, PreSays DEF Typed, AckTypes
<1>10. Grows
  BY <1>1, <1>2, <1>5, TypedSays DEF Grows
<1>11. OthersKept(t)
  BY <1>1, <1>2, <1>6, <1>7 DEF OthersKept, Kept
<1>12. SameWriters
  BY <1>7, <1>11 DEF SameWriters, OthersKept, Kept
<1>13. \A s \in Slots : log_size <= s => table[s] = Blank
  <2>1. table_len <= log_size /\ \A s \in Slots : table_len <= s => table[s] = Blank
    BY <1>1, <1>2 DEF TableOK
  <2>2. \A s \in Slots : s \in Int
    BY LogAssumption DEF Slots
  <2> QED BY <1>1, <2>1, <2>2, TypedSays
<1>14. ASSUME NEW p \in Pos \ torn' PROVE ByteKept(p)
  <2>1. ASSUME NEW s \in Slots, Tells(table[s], p)
        PROVE  (\E u \in Calls : Mine(u, s)') <=> (\E u \in Calls : Mine(u, s))
    <3>1. ~Mine(t, s)
      BY <1>2 DEF Mine, Writing
    <3>2. ~Mine(t, s)'
      BY <1>7, <1>13, <2>1, BlankTells, PosInt DEF Mine, Holds
    <3>3. \A u \in Calls : u # t => (Mine(u, s)' <=> Mine(u, s))
      BY <1>11, MineKept DEF OthersKept
    <3> QED BY <3>1, <3>2, <3>3
  <2>2. SameCounts(p)
    BY <1>2, <2>1, CountsSame
  <2>3. ~Busy(p)' => ~Busy(p)
    BY <1>2, <1>11 DEF Busy, OthersKept, Kept, IovBytes
  <2>4. BaseAt(p)' = BaseAt(p)
    BY <1>2 DEF BaseAt
  <2> QED BY <1>2, <2>2, <2>3, <2>4 DEF ByteKept
<1>15. CallsOK'
  <2>1. \A u \in Calls : u # t /\ Writing(u) => Spared(u)
    <3> SUFFICES ASSUME NEW u \in Calls, u # t, Writing(u) PROVE Spared(u)
      OBVIOUS
    <3>1. CleanIn(clean'[u], recs[u], slot[u], table)
      BY <1>1, <1>3 DEF CallsOK, CallOK, CleanIn
    <3> QED BY <1>2, <1>3, <1>10, <3>1 DEF Spared
  <2>2. CallOK(t)'
    <3>1. ASSUME NEW s \in Slots, Holds(F, log_size, s) PROVE table[s] = Blank
      BY <1>13, <3>1 DEF Holds
    <3>2. OwnSlots(F, log_size, table)
      BY <3>1 DEF OwnSlots
    <3>3. CleanIn(clean'[t], F, log_size, table)
      <4>1. C \subseteq Pos
        BY DEF C, IovBytes
      <4> QED BY <1>3, <1>13, <4>1, BlankTells, PosInt DEF CleanIn
    <3>4. clean'[t] \subseteq IovBytes(v) /\ IovBytes(arg[t].iov)' = IovBytes(v)
      BY <1>3, <1>7 DEF C, IovBytes
    <3>5. log_size + Len(F) <= log_size' /\ E <= data_size'
      BY <1>1, <1>2, <1>5, TypedSays
    <3> QED BY <1>2, <1>4, <1>7, <1>8, <3>2, <3>3, <3>4, <3>5 DEF CallOK
  <2>3. \A u \in Calls : u # t /\ Writing(u) => Apart(t, u)' /\ Apart(u, t)'
    <3> SUFFICES ASSUME NEW u \in Calls, u # t, Writing(u) PROVE Apart(t, u)' /\ Apart(u, t)'
      OBVIOUS
    <3>1. slot[u] + Len(recs[u]) <= log_size /\ End(u) <= data_size /\ Kept(u)
      BY <1>1, <1>11 DEF CallsOK, CallOK, OthersKept
    <3>2. End(u)' = End(u) /\ slot'[u] = slot[u] /\ recs'[u] = recs[u] /\ off'[u] = off[u]
      BY <3>1 DEF End, Kept
    <3>3. IovBytes(arg[u].iov)' = IovBytes(arg[u].iov) /\ IovBytes(arg[t].iov)' = IovBytes(v)
      BY <1>7 DEF IovBytes
    <3>4. IovBytes(arg[u].iov) = Touched(u)
      BY DEF Touched
    <3>5. clean'[t] \cap IovBytes(arg[u].iov) = {}
      BY <1>3, <3>4 DEF C
    <3>6. clean'[u] \cap IovBytes(v) = {}
      BY <1>3
    <3> QED BY <1>7, <1>8, <3>1, <3>2, <3>3, <3>5, <3>6 DEF Apart
  <2> QED BY <1>1, <1>2, <1>9, <1>11, <2>1, <2>2, <2>3, CallsKept
<1>16. LiveOK'
  <2> SUFFICES ASSUME NEW p \in Pos \ torn' PROVE Shown(p)'
    BY DEF LiveOK
  <2>1. Shown(p)
    BY <1>1, <1>2 DEF LiveOK
  <2>2. BaseAt(p)' = BaseAt(p)
    BY <1>2 DEF BaseAt
  <2> QED BY <1>1, <1>2, <1>9, <1>10, <1>12, <2>1, <2>2, ShownKept
<1>17. TableOK'
  <2>1. (RecordsFound => RecordsFound') /\ RestInBase'
    BY <1>1, <1>2, <1>9, <1>10, <1>12, <1>14, LogKept DEF TableOK
  <2>2. Intact' => Intact
    BY <1>2, <1>7, <1>11 DEF Intact, OthersKept, Kept
  <2>3. table_len' <= log_size'
    BY <1>1, <1>2, <1>5, TypedSays DEF TableOK
  <2> QED BY <1>1, <1>2, <2>1, <2>2, <2>3 DEF TableOK
<1>18. Merging'
  BY <1>1, <1>2, <1>7, <1>11, NoneEmptying DEF Merging, OthersKept, Kept
<1>19. Loading'
  BY <1>2 DEF Loading
<1> QED BY <1>9, <1>15, <1>16, <1>17, <1>18, <1>19 DEF AckOK

(* A child write ends, and put its bytes in place or not.                  *)
ChildEnds(t, c, ok) ==
  /\ mode = "up" /\ pc[t] = "write" /\ c \in pend[t]
  /\ pend' = [pend EXCEPT ![t] = @ \ {c}]
  /\ bad' = [bad EXCEPT ![t] = @ \/ ~ok]
  /\ UNCHANGED <<mode, mapping, file_size, log_size, data_size, lock, load_i, base, base_len,
                 pc, arg, recs, slot, off, todo, view, clean, torn, raced>>
TableLands(t) ==
  /\ table' = [s \in 0..(MaxSlots - 1) |-> IF s - slot[t] + 1 \in 1..Len(recs[t]) THEN recs[t][s - slot[t] + 1] ELSE table[s]]
  /\ table_len' = Larger(table_len, slot[t] + Len(recs[t]))
  /\ UNCHANGED <<data, data_len>>
DataLands(t) ==
  /\ \E d : /\ d = DataOf(t)
            /\ data' = [o \in 0..(MaxData - 1) |-> IF o \in DOMAIN d THEN d[o] ELSE data[o]]
            /\ data_len' = Larger(data_len, 1 + CHOOSE o \in DOMAIN d : o + 1 \notin DOMAIN d)
  /\ UNCHANGED <<table, table_len>>
NothingLands == UNCHANGED <<table, table_len, data, data_len>>

LEMMA ChildCases ==
  ASSUME Pre, NEW t \in Calls, NEW c \in {"table", "data"}, NEW ok \in BOOLEAN, NEW landed \in BOOLEAN,
         ChildWrite(t, c, ok, landed)
  PROVE  /\ ChildEnds(t, c, ok)
         /\ (c = "table" /\ TableLands(t)) \/ (c = "data" /\ DataLands(t)) \/ (~ok /\ NothingLands)
<1>1. pc[t] # "truncate"
  BY DEF Pre, Good, LogInv
<1>2. ChildEnds(t, c, ok)
  BY <1>1 DEF ChildWrite, ChildEnds, memory, history
<1>3. (c = "table" /\ TableLands(t)) \/ (c = "data" /\ DataLands(t)) \/ (~ok /\ NothingLands)
  <2>1. CASE ~landed
    BY <2>1 DEF ChildWrite, NothingLands
  <2>2. CASE landed /\ c = "table"
    BY <2>2 DEF ChildWrite, TableLands
  <2>3. CASE landed /\ c = "data"
    BY <2>3 DEF ChildWrite, DataLands
  <2> QED BY <2>1, <2>2, <2>3
<1> QED BY <1>2, <1>3

(* What is left of the step when the bytes in place are known.             *)
LEMMA ChildFrame ==
  ASSUME Pre, NEW t \in Calls, NEW c \in {"table", "data"}, NEW ok \in BOOLEAN, ChildEnds(t, c, ok),
         AckTypes', Grows,
         \A p \in Pos : SameCounts(p),
         \A u \in Calls : u # t /\ Writing(u) => Spared(u),
         CallOK(t)',
         \A o \in Bytes : Foreign(o) => data'[o] = data[o],
         \A s \in Slots : table_len' <= s => table'[s] = Blank, table_len' <= log_size
  PROVE  AckOK'
<1>1. Typed /\ Typed' /\ CallsOK /\ LiveOK /\ TableOK /\ Merging /\ Loading /\ DOMAIN pend = Calls /\ DOMAIN bad = Calls
  BY PreSays DEF Typed, AckTypes
<1>2. /\ mode = "up" /\ pc[t] = "write" /\ OthersKept(t)
      /\ UNCHANGED <<mode, mapping, file_size, log_size, data_size, lock, load_i, base, base_len,
                     pc, arg, recs, slot, off, todo, view, clean, torn, raced>>
  BY <1>1 DEF ChildEnds, OthersKept, Kept
<1>3. SameWriters
  BY <1>2 DEF SameWriters
<1>4. CallsOK'
  <2>1. \A u \in Calls : u # t /\ Writing(u) => Apart(t, u)' /\ Apart(u, t)'
    <3> SUFFICES ASSUME NEW u \in Calls, u # t, Writing(u) PROVE Apart(t, u)' /\ Apart(u, t)'
      OBVIOUS
    <3>1. Apart(t, u) /\ Apart(u, t)
      BY <1>1, <1>2 DEF CallsOK, Writing
    <3>2. End(t)' = End(t) /\ End(u)' = End(u) /\ IovBytes(arg[t].iov)' = IovBytes(arg[t].iov) /\ IovBytes(arg[u].iov)' = IovBytes(arg[u].iov)
      BY <1>2 DEF End, IovBytes
    <3> QED BY <1>2, <3>1, <3>2 DEF Apart
  <2> QED BY <1>1, <1>2, <2>1, CallsKept
<1>5. ASSUME NEW p \in Pos PROVE ByteKept(p)
  <2>1. Busy(p)' <=> Busy(p)
    BY <1>2 DEF Busy, IovBytes
  <2>2. BaseAt(p)' = BaseAt(p)
    BY <1>2 DEF BaseAt
  <2> QED BY <1>2, <2>1, <2>2 DEF ByteKept
<1>6. LiveOK'
  <2> SUFFICES ASSUME NEW p \in Pos \ torn' PROVE Shown(p)'
    BY DEF LiveOK
  <2>1. Shown(p)
    BY <1>1, <1>2 DEF LiveOK
  <2>2. BaseAt(p)' = BaseAt(p)
    BY <1>2 DEF BaseAt
  <2> QED BY <1>1, <1>2, <1>3, <2>1, <2>2, ShownKept
<1>7. TableOK'
  <2>1. (RecordsFound => RecordsFound') /\ RestInBase'
    BY <1>1, <1>2, <1>3, <1>5, LogKept DEF TableOK
  <2>2. Intact' => Intact
    BY <1>2 DEF Intact, OthersKept, Kept
  <2> QED BY <1>1, <1>2, <2>1, <2>2 DEF TableOK
<1>8. Merging'
  <2>1. \A u \in Calls : pc[u] # "copied"
    BY <1>1, <1>2 DEF Merging, MergeOK, Writing
  <2> QED BY <1>2, <2>1 DEF Merging
<1>9. Loading'
  BY <1>2 DEF Loading
<1> QED BY <1>1, <1>4, <1>6, <1>7, <1>8, <1>9 DEF AckOK

LEMMA ChildNothing ==
  ASSUME Pre, NEW t \in Calls, NEW c \in {"table", "data"}, NEW ok \in BOOLEAN, ChildEnds(t, c, ok), ~ok, NothingLands
  PROVE  AckOK'
<1>1. Typed /\ CallsOK /\ TableOK /\ DOMAIN pend = Calls /\ DOMAIN bad = Calls
  BY PreSays DEF Typed, AckTypes
<1>2. /\ mode = "up" /\ pc[t] = "write" /\ OthersKept(t) /\ bad'[t]
      /\ UNCHANGED <<mode, mapping, file_size, log_size, data_size, lock, load_i, base, base_len, table, table_len,
                     data, data_len, pc, arg, recs, slot, off, todo, view, clean, torn, raced>>
  BY <1>1 DEF ChildEnds, OthersKept, Kept, NothingLands
<1>3. AckTypes'
  BY <1>1, <1>2 DEF Typed, AckTypes, ChildEnds
<1>4. Grows
  BY <1>1, <1>2, TypedSays DEF Grows
<1>5. ASSUME NEW p \in Pos PROVE SameCounts(p)
  <2>1. \A u \in Calls : \A s : Mine(u, s)' <=> Mine(u, s)
    BY <1>2 DEF Mine, Writing, Holds
  <2> QED BY <1>2, <2>1, CountsSame
<1>6. \A u \in Calls : u # t /\ Writing(u) => Spared(u)
  BY <1>1, <1>2, SparedSame DEF CallsOK
<1>7. CallOK(t)'
  <2>1. CallOK(t)
    BY <1>1, <1>2 DEF CallsOK, Writing
  <2>2. End(t)' = End(t) /\ IovBytes(arg[t].iov)' = IovBytes(arg[t].iov)
    BY <1>2 DEF End, IovBytes
  <2> QED BY <1>2, <2>1, <2>2 DEF CallOK
<1>8. (\A s \in Slots : table_len' <= s => table'[s] = Blank) /\ table_len' <= log_size
  BY <1>1, <1>2 DEF TableOK
<1>9. \A o \in Bytes : Foreign(o) => data'[o] = data[o]
  BY <1>2
<1> QED BY <1>3, <1>4, <1>5, <1>6, <1>7, <1>8, <1>9, ChildFrame

LEMMA ChildTable ==
  ASSUME Pre, NEW t \in Calls, NEW ok \in BOOLEAN, ChildEnds(t, "table", ok), TableLands(t)
  PROVE  AckOK'
<1> DEFINE R == recs[t]
           b == slot[t]
<1>1. Typed /\ CallsOK /\ TableOK /\ DOMAIN pend = Calls /\ DOMAIN bad = Calls
  BY PreSays DEF Typed, AckTypes
<1>2. /\ mode = "up" /\ pc[t] = "write" /\ OthersKept(t) /\ pend'[t] \subseteq pend[t] /\ (~bad'[t] => ~bad[t])
      /\ ("data" \notin pend'[t] => "data" \notin pend[t])
      /\ UNCHANGED <<mode, mapping, file_size, log_size, data_size, lock, load_i, base, base_len,
                     data, data_len, pc, arg, recs, slot, off, todo, view, clean, torn, raced>>
  BY <1>1 DEF ChildEnds, OthersKept, Kept, TableLands
<1>3. Writing(t) /\ CallOK(t) /\ RoomOf(arg[t].iov, R, b, off[t], End(t))
  BY <1>1, <1>2 DEF CallsOK, CallOK, Writing
<1>4. Len(R) \in Nat /\ Len(R) > 0 /\ b \in Nat /\ b + Len(R) <= log_size /\ \A k \in 1..Len(R) : R[k] \in Ranges
  BY <1>3, RoomSays DEF RoomOf, CallOK
<1>5. log_size \in Nat /\ log_size <= MaxSlots /\ table_len \in Nat /\ MaxSlots \in Nat /\ table_len <= log_size
  BY <1>1, <1>2, TypedSays DEF TableOK
<1>6. /\ table_len' \in Nat /\ table_len <= table_len' /\ b + Len(R) <= table_len' /\ table_len' <= log_size
  BY <1>4, <1>5 DEF TableLands, Larger
<1>7. \A s \in Slots : s \in Int /\ (Holds(R, b, s) <=> s - b + 1 \in 1..Len(R))
  BY <1>4, <1>5 DEF Slots, Holds
<1>8. \A s \in Slots : table'[s] = IF Holds(R, b, s) THEN R[s - b + 1] ELSE table[s]
  BY <1>7 DEF TableLands, Slots
<1> HIDE DEF R, b
<1>9. \A s \in Slots : table'[s] \in Ranges
  BY <1>1, <1>4, <1>7, <1>8 DEF Typed, AckTypes
<1>10. AckTypes'
  BY <1>1, <1>2, <1>9 DEF Typed, AckTypes, ChildEnds
<1>11. Grows
  BY <1>1, <1>2, <1>6, TypedSays DEF Grows
<1>12. ASSUME NEW p \in Pos PROVE SameCounts(p)
  <2>1. \A u \in Calls : \A s : Mine(u, s)' <=> Mine(u, s)
    BY <1>2 DEF Mine, Writing, Holds
  <2>2. ASSUME NEW s \in Slots PROVE (Counts(s, p)' <=> Counts(s, p)) /\ (Counts(s, p) => table'[s] = table[s])
    <3>1. CASE Holds(R, b, s)
      <4>1. Mine(t, s)
        BY <1>3, <3>1 DEF Mine, R, b
      <4> QED BY <2>1, <4>1 DEF Counts
    <3>2. CASE ~Holds(R, b, s)
      BY <1>8, <2>1, <3>2 DEF Counts
    <3> QED BY <3>1, <3>2
  <2> QED BY <2>2 DEF SameCounts
<1>13. ASSUME NEW u \in Calls, u # t, Writing(u) PROVE Spared(u)
  <2>1. CallOK(u) /\ Apart(u, t)
    BY <1>1, <1>3, <1>13 DEF CallsOK
  <2>2. RoomOf(arg[u].iov, recs[u], slot[u], off[u], End(u))
    BY <2>1 DEF CallOK
  <2>3. Len(recs[u]) \in Nat /\ slot[u] \in Nat
    BY <2>2, RoomSays DEF RoomOf
  <2>4. ASSUME NEW s \in Slots, Holds(recs[u], slot[u], s) PROVE table'[s] = table[s]
    <3>1. ~Holds(R, b, s)
      BY <1>4, <1>7, <2>1, <2>3, <2>4 DEF Apart, Holds, R, b
    <3> QED BY <1>8, <3>1
  <2>5. ASSUME NEW p \in clean[u], NEW s \in Slots, Tells(table'[s], p), slot[u] <= s
        PROVE  Holds(recs[u], slot[u], s)
    <3>1. p \in Pos /\ p \in Int
      BY <2>1, PosInt DEF CallOK, IovBytes
    <3>2. CASE Holds(R, b, s)
      <4>1. p \in IovBytes(arg[t].iov)
        BY <1>3, <1>7, <1>8, <2>5, <3>1, <3>2, RoomTells
      <4> QED BY <2>1, <4>1 DEF Apart
    <3>3. CASE ~Holds(R, b, s)
      BY <1>8, <2>1, <2>5, <3>3 DEF CallOK, CleanIn
    <3> QED BY <3>2, <3>3
  <2>6. CleanIn(clean'[u], recs[u], slot[u], table')
    BY <1>2, <2>5 DEF CleanIn
  <2> QED BY <1>2, <1>11, <2>4, <2>6 DEF Spared
<1>14. CallOK(t)'
  <2>1. End(t)' = End(t) /\ IovBytes(arg[t].iov)' = IovBytes(arg[t].iov)
    BY <1>2 DEF End, IovBytes
  <2>2. OwnSlots(R, b, table')
    BY <1>8 DEF OwnSlots
  <2>3. TableIn(R, b, table', table_len')
    <3>1. ASSUME NEW k \in 1..Len(R) PROVE table'[b + k - 1] = R[k]
      <4>1. b + k - 1 \in Slots /\ Holds(R, b, b + k - 1) /\ (b + k - 1) - b + 1 = k
        BY <1>4, <1>5 DEF Slots, Holds
      <4> QED BY <1>8, <4>1
    <3> QED BY <1>6, <3>1 DEF TableIn
  <2>4. CleanIn(clean[t], R, b, table')
    BY <1>3, <1>8 DEF CallOK, CleanIn, R, b
  <2>5. "data" \notin pend'[t] /\ ~bad'[t] => DataIn(t, R, data, data_len)
    BY <1>2, <1>3 DEF CallOK, R
  <2> QED BY <1>2, <1>3, <2>1, <2>2, <2>3, <2>4, <2>5 DEF CallOK, R, b
<1>15. ASSUME NEW s \in Slots, table_len' <= s PROVE table'[s] = Blank
  <2>1. ~Holds(R, b, s) /\ table_len <= s
    BY <1>4, <1>5, <1>6, <1>7, <1>15 DEF Holds
  <2> QED BY <1>1, <1>8, <2>1 DEF TableOK
<1>16. \A o \in Bytes : Foreign(o) => data'[o] = data[o]
  BY <1>2
<1> QED BY <1>6, <1>10, <1>11, <1>12, <1>13, <1>14, <1>15, <1>16, ChildFrame

(* The bytes that a write puts in the data segment.                        *)
Holder(R, o, k) == k \in 1..Len(R) /\ R[k].data_offset <= o /\ o < R[k].data_offset + R[k].hi

LEMMA OneHolder ==
  ASSUME NEW v, NEW R, NEW b, NEW lo, NEW e, RoomOf(v, R, b, lo, e), NEW o \in Int,
         NEW i, Holder(R, o, i), NEW j, Holder(R, o, j)
  PROVE  i = j
<1>1. \A k \in 1..Len(R) : R[k].data_offset \in Int /\ R[k].hi \in Int
  BY RoomSays DEF Ranges
<1>2. Len(R) \in Nat
  BY RoomSays
<1>3. i \in 1..Len(R) /\ j \in 1..Len(R)
  BY DEF Holder
<1>4. CASE i < j
  <2>1. R[i].data_offset + R[i].hi <= R[j].data_offset
    BY <1>3, <1>4 DEF RoomOf
  <2> QED BY <1>1, <1>3, <2>1 DEF Holder
<1>5. CASE j < i
  <2>1. R[j].data_offset + R[j].hi <= R[i].data_offset
    BY <1>3, <1>5 DEF RoomOf
  <2> QED BY <1>1, <1>3, <2>1 DEF Holder
<1> QED BY <1>2, <1>3, <1>4, <1>5

LEMMA HolderTells ==
  ASSUME NEW r \in Ranges, NEW p \in Int, Tells(r, p)
  PROVE  r.data_offset <= Place(r, p) /\ Place(r, p) < r.data_offset + r.hi /\ r.lo + (Place(r, p) - r.data_offset) = p
BY DEF Tells, Place, Ranges

LEMMA DataBytes ==
  ASSUME NEW t \in Calls, pc[t] = "write", CallOK(t), NEW d, d = DataOf(t)
  PROVE  /\ DOMAIN d = off[t]..(End(t) - 1)
         /\ \A k \in 1..Len(recs[t]), p \in Int : Tells(recs[t][k], p) => d[Place(recs[t][k], p)] = Byte(t, p)
<1> DEFINE R == recs[t]
           Q(o) == {r \in {R[k] : k \in 1..Len(R)} : r.data_offset <= o /\ o < r.data_offset + r.hi}
           rec(o) == CHOOSE r \in {R[k] : k \in 1..Len(R)} : r.data_offset <= o /\ o < r.data_offset + r.hi
<1>1. d = [o \in off[t]..(End(t) - 1) |-> Byte(t, rec(o).lo + (o - rec(o).data_offset))]
  <2>1. pc[t] # "truncate"
    OBVIOUS
  <2>2. DataOf(t) = [o \in off[t]..(off[t] + SumLen(arg[t].iov)[Len(arg[t].iov)] - 1) |->
                        Byte(t, rec(o).lo + (o - rec(o).data_offset))]
    BY ONLY <2>1, Zenon DEF DataOf
  <2>3. PICK x : x = SumLen(arg[t].iov)[Len(arg[t].iov)]
    OBVIOUS
  <2>4. x \in Int /\ off[t] \in Int
    <3>1. Lens(arg[t].iov) /\ off[t] \in Nat
      BY LogAssumption DEF CallOK, RoomOf, Lens
    <3>2. Len(arg[t].iov) \in 0..Len(arg[t].iov)
      BY <3>1, LensSays
    <3> QED BY <2>3, <3>1, <3>2, SumGrows
  <2>5. End(t) - 1 = off[t] + x - 1
    BY <2>3, <2>4 DEF End
  <2> HIDE DEF rec
  <2> QED BY <2>2, <2>3, <2>5, Zenon
<1>2. RoomOf(arg[t].iov, R, slot[t], off[t], End(t))
  BY DEF CallOK
<1>3. off[t] \in Nat /\ End(t) \in Nat /\ \A k \in 1..Len(R) : R[k] \in Ranges
  BY <1>2, RoomSays DEF RoomOf
<1>4. ASSUME NEW k \in 1..Len(R), NEW p \in Int, Tells(R[k], p)
      PROVE  d[Place(R[k], p)] = Byte(t, p)
  <2>1. PICK o : o = Place(R[k], p)
    OBVIOUS
  <2>2. off[t] <= o /\ o < End(t) /\ o \in Nat
    BY <1>2, <1>4, <2>1, RoomTells
  <2>3. o \in off[t]..(End(t) - 1)
    BY <1>3, <2>2
  <2>4. R[k].data_offset <= o /\ o < R[k].data_offset + R[k].hi /\ R[k].lo + (o - R[k].data_offset) = p
    BY <1>3, <1>4, <2>1, HolderTells
  <2>5. rec(o) \in {R[j] : j \in 1..Len(R)} /\ rec(o).data_offset <= o /\ o < rec(o).data_offset + rec(o).hi
    BY <2>4
  <2>6. d[o] = Byte(t, rec(o).lo + (o - rec(o).data_offset))
    BY <1>1, <2>3
  <2> HIDE DEF rec
  <2>7. PICK j \in 1..Len(R) : rec(o) = R[j]
    BY <2>5
  <2>8. Holder(R, o, j) /\ Holder(R, o, k)
    BY <2>4, <2>5, <2>7 DEF Holder
  <2>9. j = k
    <3> HIDE DEF R
    <3>1. o \in Int
      BY <2>2
    <3> QED BY ONLY <1>2, <2>8, <3>1, OneHolder
  <2> QED BY <2>1, <2>4, <2>6, <2>7, <2>9
<1>5. DOMAIN d = off[t]..(End(t) - 1)
  BY <1>1
<1> QED BY <1>4, <1>5

LEMMA LastOf ==
  ASSUME NEW lo \in Nat, NEW e \in Nat, lo < e
  PROVE  (CHOOSE o \in lo..(e - 1) : o + 1 \notin lo..(e - 1)) = e - 1
<1>1. \A o \in lo..(e - 1) : o + 1 \notin lo..(e - 1) <=> o = e - 1
  OBVIOUS
<1>2. e - 1 \in lo..(e - 1)
  OBVIOUS
<1>3. \E o \in lo..(e - 1) : o + 1 \notin lo..(e - 1)
  BY <1>1, <1>2
<1> QED BY <1>1, <1>3

LEMMA ChildData ==
  ASSUME Pre, NEW t \in Calls, NEW ok \in BOOLEAN, ChildEnds(t, "data", ok), DataLands(t)
  PROVE  AckOK'
<1> DEFINE R == recs[t]
<1>1. Typed /\ CallsOK /\ TableOK /\ DOMAIN pend = Calls /\ DOMAIN bad = Calls
  BY PreSays DEF Typed, AckTypes
<1>2. /\ mode = "up" /\ pc[t] = "write" /\ OthersKept(t) /\ pend'[t] \subseteq pend[t] /\ (~bad'[t] => ~bad[t])
      /\ ("table" \notin pend'[t] => "table" \notin pend[t])
      /\ UNCHANGED <<mode, mapping, file_size, log_size, data_size, lock, load_i, base, base_len,
                     table, table_len, pc, arg, recs, slot, off, todo, view, clean, torn, raced>>
  BY <1>1 DEF ChildEnds, OthersKept, Kept, DataLands
<1>3. Writing(t) /\ CallOK(t) /\ RoomOf(arg[t].iov, R, slot[t], off[t], End(t)) /\ End(t) <= data_size
  BY <1>1, <1>2 DEF CallsOK, CallOK, Writing
<1>4. off[t] \in Nat /\ End(t) \in Nat /\ off[t] < End(t)
  BY <1>3 DEF RoomOf
<1>5. data_size \in Nat /\ data_size <= MaxData /\ data_len \in Nat /\ data_len <= MaxData /\ MaxData \in Nat
  BY <1>1, LogAssumption DEF Typed, AckTypes
<1>6. PICK d : /\ d = DataOf(t)
               /\ data' = [o \in 0..(MaxData - 1) |-> IF o \in DOMAIN d THEN d[o] ELSE data[o]]
               /\ data_len' = Larger(data_len, 1 + CHOOSE o \in DOMAIN d : o + 1 \notin DOMAIN d)
  BY DEF DataLands
<1>7. /\ DOMAIN d = off[t]..(End(t) - 1)
      /\ \A k \in 1..Len(R), p \in Int : Tells(R[k], p) => d[Place(R[k], p)] = Byte(t, p)
  BY <1>2, <1>3, <1>6, DataBytes
<1>8. (CHOOSE o \in DOMAIN d : o + 1 \notin DOMAIN d) = End(t) - 1
  BY <1>4, <1>7, LastOf
<1>9. data_len' \in Nat /\ data_len <= data_len' /\ End(t) <= data_len' /\ data_len' <= MaxData
  <2>1. PICK x : x = CHOOSE o \in DOMAIN d : o + 1 \notin DOMAIN d
    OBVIOUS
  <2>2. x = End(t) - 1 /\ data_len' = Larger(data_len, 1 + x)
    BY <1>6, <1>8, <2>1
  <2> QED BY ONLY <1>3, <1>4, <1>5, <2>2 DEF Larger
<1>10. \A o \in Bytes : o \in Int /\ data'[o] = IF off[t] <= o /\ o < End(t) THEN d[o] ELSE data[o]
  BY <1>4, <1>5, <1>6, <1>7 DEF Bytes
<1> HIDE DEF R
<1>11. AckTypes'
  BY <1>1, <1>2, <1>6, <1>9 DEF Typed, AckTypes, ChildEnds, Bytes
<1>12. Grows
  BY <1>1, <1>2, <1>9, TypedSays DEF Grows
<1>13. ASSUME NEW p \in Pos PROVE SameCounts(p)
  <2>1. \A u \in Calls : \A s : Mine(u, s)' <=> Mine(u, s)
    BY <1>2 DEF Mine, Writing, Holds
  <2> QED BY <1>2, <2>1, CountsSame
<1>14. ASSUME NEW u \in Calls, u # t, Writing(u) PROVE Spared(u)
  <2>1. CallOK(u) /\ Apart(u, t)
    BY <1>1, <1>3, <1>14 DEF CallsOK
  <2>2. off[u] \in Nat /\ End(u) \in Nat
    BY <2>1 DEF CallOK, RoomOf
  <2>3. ASSUME NEW o \in Bytes, off[u] <= o, o < End(u) PROVE data'[o] = data[o]
    BY <1>4, <1>10, <2>1, <2>2, <2>3 DEF Apart
  <2>4. CleanIn(clean'[u], recs[u], slot[u], table')
    BY <1>2, <2>1 DEF CallOK
  <2> QED BY <1>2, <1>12, <2>3, <2>4 DEF Spared
<1>15. CallOK(t)'
  <2>1. End(t)' = End(t) /\ IovBytes(arg[t].iov)' = IovBytes(arg[t].iov)
    BY <1>2 DEF End, IovBytes
  <2>2. DataIn(t, R, data', data_len')
    <3> SUFFICES ASSUME NEW k \in 1..Len(R), NEW p \in Int, Tells(R[k], p)
                 PROVE  InData(t, p, Place(R[k], p), data', data_len')
      BY DEF DataIn
    <3>1. PICK o : o = Place(R[k], p)
      OBVIOUS
    <3>2. off[t] <= o /\ o < End(t) /\ o \in Nat
      BY <1>3, <3>1, RoomTells
    <3>3. o \in Bytes /\ o < data_len'
      BY <1>3, <1>4, <1>5, <1>9, <3>2 DEF Bytes
    <3>4. data'[o] = Byte(t, p)
      BY <1>7, <1>10, <3>1, <3>2, <3>3
    <3> QED BY <3>1, <3>3, <3>4 DEF InData
  <2>3. "table" \notin pend'[t] /\ ~bad'[t] => TableIn(R, slot[t], table, table_len)
    BY <1>2, <1>3 DEF CallOK, R
  <2> QED BY <1>2, <1>3, <2>1, <2>2, <2>3 DEF CallOK, R
<1>16. (\A s \in Slots : table_len' <= s => table'[s] = Blank) /\ table_len' <= log_size
  BY <1>1, <1>2 DEF TableOK
<1>17. ASSUME NEW o \in Bytes, Foreign(o) PROVE data'[o] = data[o]
  BY <1>2, <1>4, <1>10, <1>17 DEF Foreign
<1> QED BY <1>11, <1>12, <1>13, <1>14, <1>15, <1>16, <1>17, ChildFrame

LEMMA ChildAck ==
  ASSUME Pre, NEW t \in Calls, NEW c \in {"table", "data"}, NEW ok \in BOOLEAN, NEW landed \in BOOLEAN,
         ChildWrite(t, c, ok, landed)
  PROVE  AckOK'
BY ChildCases, ChildNothing, ChildTable, ChildData

-----------------------------------------------------------------------------
(* Entering a range in the mapping.                                        *)

LEMMA NoneLeft ==
  ASSUME NEW S, NEW q \in Seq(S)
  PROVE  q = <<>> <=> Len(q) = 0
OBVIOUS

LEMMA HeadEntered ==
  ASSUME NEW R, NEW T, ToEnter(R, T), Len(R) \in Nat
  PROVE  LET n == Len(R) - Len(T)
         IN  /\ n \in Nat /\ n + 1 \in 1..Len(R) /\ Head(T) = InMemory(R[n + 1])
             /\ Tail(T) # <<>> => ToEnter(R, Tail(T)) /\ Len(R) - Len(Tail(T)) = n + 1
             /\ Tail(T) = <<>> => n + 1 = Len(R)
<1>1. T \in Seq(Ranges) /\ T # <<>> /\ Len(T) <= Len(R) /\ \A k \in 1..Len(T) : T[k] = InMemory(R[Len(R) - Len(T) + k])
  BY DEF ToEnter
<1>2. Len(T) \in Nat /\ Len(T) > 0
  BY <1>1
<1>3. Head(T) = T[1] /\ Tail(T) \in Seq(Ranges) /\ Len(Tail(T)) = Len(T) - 1
      /\ \A k \in 1..Len(Tail(T)) : Tail(T)[k] = T[k + 1]
  BY <1>1, <1>2
<1>4. Tail(T) = <<>> <=> Len(T) = 1
  <2>1. Tail(T) = <<>> <=> Len(Tail(T)) = 0
    BY <1>3, NoneLeft
  <2> QED BY <1>2, <1>3, <2>1
<1>5. Head(T) = InMemory(R[Len(R) - Len(T) + 1])
  BY <1>1, <1>2, <1>3
<1>6. ASSUME Tail(T) # <<>>
      PROVE  ToEnter(R, Tail(T))
  <2>1. ASSUME NEW k \in 1..Len(Tail(T)) PROVE Tail(T)[k] = InMemory(R[Len(R) - Len(Tail(T)) + k])
    <3>1. k + 1 \in 1..Len(T) /\ Len(R) - Len(T) + (k + 1) = Len(R) - Len(Tail(T)) + k
      BY <1>2, <1>3
    <3> QED BY <1>1, <1>3, <3>1
  <2>2. Len(Tail(T)) <= Len(R)
    BY <1>1, <1>2, <1>3
  <2> QED BY <1>3, <1>6, <2>1, <2>2 DEF ToEnter
<1> QED BY <1>1, <1>2, <1>3, <1>4, <1>5, <1>6

LEMMA EnteredNext ==
  ASSUME NEW t, NEW v, NEW R, NEW b, NEW lo, NEW e, RoomOf(v, R, b, lo, e), NEW n \in Nat, n + 1 \in 1..Len(R),
         NEW m, NEW M, NEW vw, NEW w, NEW d, NEW dl, Entered(t, R, n, m, vw, d, lo, e), DataIn(t, R, d, dl),
         Overlay(m, R[n + 1], M),
         \A p \in Pos : w[p] = IF Tells(R[n + 1], p) THEN Byte(t, p) ELSE vw[p]
  PROVE  Entered(t, R, n + 1, M, w, d, lo, e)
<1> SUFFICES ASSUME NEW k \in 1..(n + 1), NEW p \in Pos, Tells(R[k], p)
             PROVE  EnteredAt(t, p, M, w, d, lo, e)
  BY DEF Entered
<1>1. p \in Int /\ k \in Int
  BY PosInt
<1>2. CASE Tells(R[n + 1], p)
  <2>1. PICK o : o = Place(R[n + 1], p)
    OBVIOUS
  <2>2. lo <= o /\ o < e
    BY <1>1, <1>2, <2>1, RoomTells
  <2>3. InData(t, p, o, d, dl)
    BY <1>1, <1>2, <2>1 DEF DataIn
  <2>4. Offsets(M, p) = {o} /\ w[p] = Byte(t, p)
    BY <1>1, <1>2, <2>1 DEF Overlay
  <2> QED BY <2>2, <2>3, <2>4 DEF EnteredAt, InData
<1>3. CASE ~Tells(R[n + 1], p)
  <2>1. k \in 1..n
    BY <1>1, <1>3
  <2>2. EnteredAt(t, p, m, vw, d, lo, e)
    BY <2>1 DEF Entered
  <2>3. Offsets(M, p) = Offsets(m, p) /\ w[p] = vw[p]
    BY <1>1, <1>3 DEF Overlay
  <2> QED BY <2>2, <2>3 DEF EnteredAt
<1> QED BY <1>2, <1>3

(* What one turn of the loop does.                                         *)
Enters(t, n) ==
  /\ mode = "up" /\ lock = t /\ pc[t] = "insert" /\ Writing(t) /\ CallOK(t)
  /\ n \in Nat /\ n + 1 \in 1..Len(recs[t])
  /\ Overlay(mapping, recs[t][n + 1], mapping')
  /\ \A p \in Pos : view'[p] = IF Tells(recs[t][n + 1], p) THEN Byte(t, p) ELSE view[p]
  /\ Entered(t, recs[t], n + 1, mapping', view', data, off[t], End(t))
  /\ OthersKept(t)
  /\ UNCHANGED <<mode, log_size, data_size, load_i, table, table_len, data, data_len, base, base_len,
                 arg, recs, slot, off, pend, bad, clean>>
EntersMore(t, n) ==
  /\ ToEnter(recs[t], todo'[t]) /\ Len(recs[t]) - Len(todo'[t]) = n + 1
  /\ UNCHANGED <<lock, pc, torn, raced>>
EntersLast(t, n) ==
  /\ n + 1 = Len(recs[t]) /\ lock' = NoCall /\ pc' = [pc EXCEPT ![t] = "done"]
  /\ torn' = torn \ clean[t]
  /\ raced' = (raced \ clean[t]) \cup (IovBytes(arg[t].iov) \ clean[t])

LEMMA InsertCases ==
  ASSUME Pre, NEW t \in Calls, WriteInsert(t)
  PROVE  AckTypes' /\ Typed' /\ \E n \in Nat : Enters(t, n) /\ (EntersMore(t, n) \/ EntersLast(t, n))
<1> DEFINE R == recs[t]
           T == todo[t]
           n == Len(R) - Len(T)
           r == R[n + 1]
<1>1. Typed /\ CallsOK /\ DOMAIN pc = Calls /\ DOMAIN todo = Calls
  BY PreSays DEF Typed, LogInv
<1>2. /\ mode = "up" /\ lock = t /\ pc[t] = "insert"
      /\ mapping' = InsertRange(mapping, Head(T)) /\ file_size' = InsertSize(file_size, Head(T))
      /\ todo' = [todo EXCEPT ![t] = Tail(@)]
      /\ view' = [p \in Pos |-> IF Head(T).lo <= p /\ p <= Head(T).hi THEN Byte(t, p) ELSE view[p]]
      /\ UNCHANGED <<mode, log_size, data_size, load_i, table, table_len, data, data_len, base, base_len,
                     arg, recs, slot, off, pend, bad, clean>>
  BY DEF WriteInsert, storage
<1>3. Writing(t) /\ CallOK(t)
  BY <1>1, <1>2 DEF Writing, CallsOK
<1>4. /\ RoomOf(arg[t].iov, R, slot[t], off[t], End(t)) /\ ToEnter(R, T)
      /\ DataIn(t, R, data, data_len) /\ Entered(t, R, n, mapping, view, data, off[t], End(t))
  BY <1>2, <1>3 DEF CallOK
<1>5. Len(R) \in Nat /\ \A k \in 1..Len(R) : R[k] \in Ranges /\ GoodRecord(R[k])
  BY <1>4, RoomSays
<1> HIDE DEF R, T, n, r
<1>6. /\ n \in Nat /\ n + 1 \in 1..Len(R) /\ Head(T) = InMemory(r)
      /\ Tail(T) # <<>> => ToEnter(R, Tail(T)) /\ Len(R) - Len(Tail(T)) = n + 1
      /\ Tail(T) = <<>> => n + 1 = Len(R)
  BY <1>4, <1>5, HeadEntered DEF n, r
<1>7. r \in Ranges /\ GoodRecord(r) /\ mapping \subseteq Ranges /\ Disjoint(mapping)
  BY <1>1, <1>5, <1>6, TypedSays DEF r
<1>8. Overlay(mapping, r, mapping')
  BY <1>2, <1>6, <1>7, EnterRecord
<1>9. ASSUME NEW p \in Pos PROVE view'[p] = IF Tells(r, p) THEN Byte(t, p) ELSE view[p]
  <2>1. view'[p] = IF Head(T).lo <= p /\ p <= Head(T).hi THEN Byte(t, p) ELSE view[p]
    BY <1>2
  <2>2. Tells(r, p) <=> Head(T).lo <= p /\ p <= Head(T).hi
    BY <1>6, <1>7, SameRange, PosInt
  <2> QED BY <2>1, <2>2
<1>10. Entered(t, R, n + 1, mapping', view', data, off[t], End(t))
  BY <1>4, <1>6, <1>8, <1>9, EnteredNext DEF r
<1>11. OthersKept(t)
  BY <1>1, <1>2 DEF OthersKept, Kept, WriteInsert
<1>12. todo'[t] = Tail(T)
  BY <1>1, <1>2 DEF T
<1>13. Enters(t, n)
  BY <1>2, <1>3, <1>6, <1>8, <1>9, <1>10, <1>11 DEF Enters, R, r
<1>14. ASSUME Tail(T) # <<>> PROVE EntersMore(t, n)
  <2>1. UNCHANGED <<lock, pc, torn, raced>>
    BY <1>14 DEF WriteInsert, T
  <2> QED BY <1>6, <1>12, <1>14, <2>1 DEF EntersMore, R
<1>15. ASSUME Tail(T) = <<>> PROVE EntersLast(t, n)
  BY <1>3, <1>6, <1>15 DEF EntersLast, WriteInsert, R, T, Touched
<1>16. AckTypes' /\ Typed'
  <2>1. file_size \in Int
    BY DEF Pre, Good, MergeInv, MapInv
  <2>2. \A p \in Int : Offsets(mapping', p) # {} => 0 <= p /\ p < file_size'
    <3> SUFFICES ASSUME NEW p \in Int, Offsets(mapping', p) # {} PROVE 0 <= p /\ p < file_size'
      OBVIOUS
    <3>1. file_size' \in Int /\ file_size <= file_size' /\ Head(T).hi < file_size' /\ Head(T).hi = r.lo + r.hi - 1
      BY <1>2, <1>6, <1>7, <2>1 DEF InsertSize, InMemory, Ranges
    <3>2. CASE Tells(r, p)
      BY <1>7, <3>1, <3>2 DEF Tells, GoodRecord
    <3>3. CASE ~Tells(r, p)
      <4>1. Offsets(mapping, p) # {}
        BY <1>8, <3>3 DEF Overlay
      <4> QED BY <1>1, <2>1, <3>1, <4>1 DEF Typed, AckTypes
    <3> QED BY <3>2, <3>3
  <2>3. mapping' \subseteq Ranges
    BY <1>8 DEF Overlay
  <2> QED BY <1>1, <1>2, <2>2, <2>3, PreSays DEF Typed, AckTypes
<1> QED BY <1>6, <1>13, <1>14, <1>15, <1>16

(* The loop has turns left.                                                *)
LEMMA EntersSays ==
  ASSUME NEW t \in Calls, NEW n, Enters(t, n), NEW p \in Pos, p \notin IovBytes(arg[t].iov)
  PROVE  view'[p] = view[p] /\ Offsets(mapping', p) = Offsets(mapping, p)
<1>1. RoomOf(arg[t].iov, recs[t], slot[t], off[t], End(t)) /\ p \in Int /\ n + 1 \in 1..Len(recs[t])
  BY PosInt DEF Enters, CallOK
<1>2. ~Tells(recs[t][n + 1], p)
  BY <1>1, RoomTells
<1> QED BY <1>1, <1>2 DEF Enters, Overlay

LEMMA EntersMine ==
  ASSUME Pre, NEW t \in Calls, NEW n, Enters(t, n), NEW p
  PROVE  /\ \A u \in Calls : u # t => pc[u] # "insert" /\ pc[u] # "copied" /\ (Writing(u) => Spared(u))
         /\ BaseAt(p)' = BaseAt(p) /\ Grows
<1>1. Typed /\ CallsOK /\ Merging
  BY PreSays
<1>2. \A u \in Calls : u # t => pc[u] # "insert" /\ pc[u] # "copied"
  BY <1>1 DEF CallsOK, CallOK, Writing, Merging, MergeOK, Enters
<1>3. Grows
  BY <1>1, TypedSays DEF Grows, Enters
<1>4. ASSUME NEW u \in Calls, u # t, Writing(u) PROVE Spared(u)
  <2>1. CallOK(u)
    BY <1>1, <1>4 DEF CallsOK
  <2> QED BY <1>2, <1>3, <1>4, <2>1 DEF Spared, CallOK, Enters
<1>5. BaseAt(p)' = BaseAt(p)
  BY DEF BaseAt, Enters
<1> QED BY <1>2, <1>3, <1>4, <1>5

(* A byte the call has entered is found where it put it.                   *)
LEMMA EnteredShown ==
  ASSUME Pre, AckTypes', NEW t \in Calls, NEW n, Enters(t, n), NEW k \in 1..(n + 1), NEW p \in Pos, Tells(recs[t][k], p),
         \A u \in Calls : pc'[u] = "write" => u # t
  PROVE  Shown(p)' /\ view'[p] = Byte(t, p)
<1>1. EnteredAt(t, p, mapping', view', data, off[t], End(t))
  BY DEF Enters, Entered
<1>2. PICK o \in Bytes : Offsets(mapping', p) = {o} /\ off[t] <= o /\ o < End(t) /\ data[o] = Byte(t, p)
  BY <1>1 DEF EnteredAt
<1>3. view'[p] = Byte(t, p) /\ data'[o] = view'[p]
  BY <1>1, <1>2 DEF EnteredAt, Enters
<1>4. o \in Int /\ End(t) \in Nat /\ off[t] \in Nat /\ End(t) <= data_size /\ data_size' = data_size /\ data_size \in Nat
  BY LogAssumption, PreSays, TypedSays DEF Bytes, Enters, CallOK, RoomOf
<1>5. ASSUME NEW u \in Calls, pc'[u] = "write" PROVE o < off'[u] \/ End(u)' <= o
  <2>1. u # t
    BY <1>5
  <2>2. Kept(u) /\ pc[u] = "write"
    BY <1>5, <2>1 DEF Enters, OthersKept, Kept
  <2>3. Writing(u)
    BY <2>2 DEF Writing
  <2>4. CallOK(u) /\ Apart(t, u)
    BY <2>1, <2>3, PreSays DEF CallsOK, Enters
  <2>5. off[u] \in Nat /\ End(u) \in Nat /\ off'[u] = off[u] /\ End(u)' = End(u)
    BY <2>2, <2>4 DEF CallOK, RoomOf, Kept, End
  <2>6. End(t) <= off[u] \/ End(u) <= off[t]
    BY <2>4 DEF Apart
  <2> QED BY <1>2, <1>4, <2>5, <2>6
<1>6. Foreign(o)' /\ o < data_size'
  BY <1>2, <1>4, <1>5 DEF Foreign
<1> QED BY <1>2, <1>3, <1>6 DEF Shown

LEMMA MoreAck ==
  ASSUME Pre, AckTypes', NEW t \in Calls, NEW n, Enters(t, n), EntersMore(t, n)
  PROVE  AckOK'
<1>1. Typed /\ Typed' /\ CallsOK /\ LiveOK /\ TableOK /\ Merging /\ Loading
  BY PreSays
<1>2. /\ mode = "up" /\ pc[t] = "insert" /\ Writing(t) /\ CallOK(t) /\ OthersKept(t) /\ Grows
      /\ UNCHANGED <<mode, log_size, data_size, load_i, table, table_len, data, data_len, base, base_len,
                     arg, recs, slot, off, pend, bad, clean, lock, pc, torn, raced>>
  BY EntersMine DEF Enters, EntersMore
<1>3. SameWriters
  BY <1>2 DEF SameWriters
<1>4. ASSUME NEW p \in Pos \ torn' PROVE ByteKept(p)
  <2>1. \A u \in Calls : \A s : Mine(u, s)' <=> Mine(u, s)
    BY <1>2 DEF Mine, Writing, Holds
  <2>2. SameCounts(p)
    BY <1>2, <2>1, CountsSame
  <2>3. Busy(p)' <=> Busy(p)
    BY <1>2 DEF Busy, IovBytes
  <2>4. ~Busy(p) => p \notin IovBytes(arg[t].iov)
    BY <1>2 DEF Busy
  <2>5. ~Busy(p)' => ~Busy(p) /\ view'[p] = view[p]
    BY <2>3, <2>4, EntersSays
  <2> QED BY <1>2, <2>2, <2>5, EntersMine DEF ByteKept
<1>5. CallsOK'
  <2>1. \A u \in Calls : u # t /\ Writing(u) => Spared(u)
    BY EntersMine
  <2>2. CallOK(t)'
    <3>1. End(t)' = End(t) /\ IovBytes(arg[t].iov)' = IovBytes(arg[t].iov)
      BY <1>2 DEF End, IovBytes
    <3>2. Entered(t, recs[t], Len(recs[t]) - Len(todo'[t]), mapping', view', data, off[t], End(t))
      BY DEF Enters, EntersMore
    <3> QED BY <1>2, <3>1, <3>2 DEF CallOK, EntersMore, Enters
  <2>3. \A u \in Calls : u # t /\ Writing(u) => Apart(t, u)' /\ Apart(u, t)'
    <3> SUFFICES ASSUME NEW u \in Calls, u # t, Writing(u) PROVE Apart(t, u)' /\ Apart(u, t)'
      OBVIOUS
    <3>1. Apart(t, u) /\ Apart(u, t)
      BY <1>1, <1>2 DEF CallsOK
    <3>2. End(t)' = End(t) /\ End(u)' = End(u) /\ IovBytes(arg[t].iov)' = IovBytes(arg[t].iov) /\ IovBytes(arg[u].iov)' = IovBytes(arg[u].iov)
      BY <1>2 DEF End, IovBytes
    <3> QED BY <1>2, <3>1, <3>2 DEF Apart
  <2> QED BY <1>1, <1>2, <2>1, <2>2, <2>3, CallsKept
<1>6. LiveOK'
  <2> SUFFICES ASSUME NEW p \in Pos \ torn' PROVE Shown(p)'
    BY DEF LiveOK
  <2>1. CASE Tells(recs[t][n + 1], p)
    <3>1. n + 1 \in 1..(n + 1) /\ \A u \in Calls : pc'[u] = "write" => u # t
      BY <1>2 DEF Enters
    <3> QED BY <2>1, <3>1, EnteredShown
  <2>2. CASE ~Tells(recs[t][n + 1], p)
    <3>1. Shown(p)
      BY <1>1, <1>2 DEF LiveOK
    <3>2. Offsets(mapping', p) = Offsets(mapping, p) /\ view'[p] = view[p]
      BY <2>2, PosInt DEF Enters, Overlay
    <3> QED BY <1>1, <1>2, <1>3, <3>1, <3>2, EntersMine, ShownKept
  <2> QED BY <2>1, <2>2
<1>7. TableOK'
  <2>1. (RecordsFound => RecordsFound') /\ RestInBase'
    BY <1>1, <1>2, <1>3, <1>4, LogKept DEF TableOK
  <2>2. Intact' => Intact
    BY <1>2 DEF Intact
  <2> QED BY <1>1, <1>2, <2>1, <2>2 DEF TableOK
<1>8. Merging'
  BY <1>2, EntersMine DEF Merging
<1>9. Loading'
  BY <1>2 DEF Loading
<1> QED BY <1>5, <1>6, <1>7, <1>8, <1>9 DEF AckOK

(* The call is over: its records are records of a finished call.           *)
LEMMA LastCounts ==
  ASSUME Pre, NEW t \in Calls, NEW n, Enters(t, n), EntersLast(t, n), NEW s \in Slots, NEW p
  PROVE  Counts(s, p)' <=> Counts(s, p) \/ (Tells(table[s], p) /\ Holds(recs[t], slot[t], s))
<1>1. DOMAIN pc = Calls /\ CallsOK /\ pc'[t] = "done" /\ table' = table /\ Writing(t)
  BY PreSays DEF Pre, Good, LogInv, EntersLast, Enters
<1>2. ~Mine(t, s)'
  BY <1>1 DEF Mine, Writing
<1>3. \A u \in Calls : u # t => (Mine(u, s)' <=> Mine(u, s))
  BY MineKept DEF Enters, OthersKept
<1>4. Mine(t, s) <=> Holds(recs[t], slot[t], s)
  BY <1>1 DEF Mine
<1>5. ASSUME Holds(recs[t], slot[t], s), NEW u \in Calls, u # t PROVE ~Mine(u, s)
  <2> SUFFICES ASSUME Mine(u, s) PROVE FALSE
    OBVIOUS
  <2>1. Writing(u) /\ Holds(recs[u], slot[u], s)
    BY DEF Mine
  <2>2. CallOK(u) /\ Apart(t, u) /\ CallOK(t)
    BY <1>1, <1>5, <2>1 DEF CallsOK
  <2>3. Len(recs[u]) \in Nat /\ slot[u] \in Nat /\ Len(recs[t]) \in Nat /\ slot[t] \in Nat /\ s \in Int
    <3>1. RoomOf(arg[t].iov, recs[t], slot[t], off[t], End(t)) /\ RoomOf(arg[u].iov, recs[u], slot[u], off[u], End(u))
      BY <2>2 DEF CallOK
    <3>2. slot[u] \in Nat /\ slot[t] \in Nat /\ s \in Int
      BY <3>1, LogAssumption DEF RoomOf, Slots
    <3> QED BY <3>1, <3>2, RoomSays
  <2> QED BY <1>5, <2>1, <2>2, <2>3 DEF Apart, Holds
<1> QED BY <1>1, <1>2, <1>3, <1>4, <1>5 DEF Counts

LEMMA LastOwn ==
  ASSUME Pre, NEW t \in Calls, NEW n, Enters(t, n), EntersLast(t, n), NEW p \in IovBytes(arg[t].iov)
  PROVE  /\ p \in Pos /\ p \in Int
         /\ \E k \in 1..(n + 1) : Tells(recs[t][k], p)
         /\ \E s \in Slots : Counts(s, p)' /\ slot[t] <= s
<1>1. CallOK(t) /\ RoomOf(arg[t].iov, recs[t], slot[t], off[t], End(t)) /\ n + 1 = Len(recs[t]) /\ pc[t] = "insert"
  BY DEF Enters, EntersLast, CallOK
<1>2. p \in Pos /\ p \in Int
  BY <1>1, RoomBytes, PosInt
<1>3. PICK k \in 1..Len(recs[t]) : Tells(recs[t][k], p)
  BY <1>1, RoomBytes
<1>4. TableIn(recs[t], slot[t], table, table_len) /\ table_len \in Nat /\ table_len <= MaxSlots /\ MaxSlots \in Nat
  BY <1>1, PreSays, TypedSays DEF CallOK
<1>5. slot[t] \in Nat /\ Len(recs[t]) \in Nat
  BY <1>1, RoomSays DEF RoomOf
<1>6. PICK s : s = slot[t] + k - 1
  OBVIOUS
<1>7. s \in Slots /\ Holds(recs[t], slot[t], s) /\ slot[t] <= s
  BY <1>4, <1>5, <1>6 DEF TableIn, Slots, Holds
<1>8. table[s] = recs[t][k]
  BY <1>4, <1>6 DEF TableIn
<1>9. Counts(s, p)'
  BY <1>3, <1>7, <1>8, LastCounts
<1> QED BY <1>1, <1>2, <1>3, <1>7, <1>9

LEMMA LastRecords ==
  ASSUME Pre, AckTypes', NEW t \in Calls, NEW n, Enters(t, n), EntersLast(t, n), SameWriters
  PROVE  RecordsFound'
<1>1. Typed /\ Typed' /\ CallsOK /\ TableOK /\ Merging /\ DOMAIN pc = Calls
  BY PreSays DEF Pre, Good, LogInv
<1>2. /\ mode = "up" /\ pc[t] = "insert" /\ Writing(t) /\ CallOK(t) /\ OthersKept(t) /\ Grows /\ pc'[t] = "done"
      /\ UNCHANGED <<mode, log_size, data_size, load_i, table, table_len, data, data_len, base, base_len,
                     arg, recs, slot, off, pend, bad, clean>>
      /\ n + 1 = Len(recs[t]) /\ torn' = torn \ clean[t]
      /\ raced' = (raced \ clean[t]) \cup (IovBytes(arg[t].iov) \ clean[t])
  BY <1>1, EntersMine DEF Enters, EntersLast
<1>3. RecordsFound
  <2>1. Intact
    BY <1>2, EntersMine DEF Intact
  <2> QED BY <1>1, <2>1 DEF TableOK
<1> SUFFICES ASSUME NEW p \in Pos \ torn', NEW s \in Slots, Newest(s, p)'
             PROVE  \E o \in Bytes : o = Place(table'[s], p) /\ Found(p, o)'
  BY DEF RecordsFound
<1>4. Counts(s, p)' /\ Tells(table[s], p) /\ p \in Int
  BY <1>2, PosInt DEF Newest, Counts
<1>5. CASE Holds(recs[t], slot[t], s)
  <2>1. PICK k : k = s - slot[t] + 1
    OBVIOUS
  <2>2. table[s] = recs[t][k] /\ k \in 1..Len(recs[t])
    BY <1>2, <1>4, <1>5, <2>1, OwnTells
  <2>3. PICK o : o = Place(recs[t][k], p)
    OBVIOUS
  <2>4. InData(t, p, o, data, data_len) /\ RoomOf(arg[t].iov, recs[t], slot[t], off[t], End(t)) /\ End(t) <= data_size
    BY <1>2, <1>4, <2>2, <2>3 DEF CallOK, DataIn
  <2>5. o \in Bytes /\ o < data_len /\ data[o] = Byte(t, p)
    BY <2>4 DEF InData
  <2>6. off[t] <= o /\ o < End(t) /\ off[t] \in Nat /\ End(t) \in Nat /\ o \in Nat
    BY <1>4, <2>2, <2>3, <2>4, RoomTells DEF RoomOf
  <2>7. view'[p] = Byte(t, p)
    BY <1>2, <1>4, <2>2, EnteredShown
  <2>8. ASSUME NEW u \in Calls, pc'[u] = "write" PROVE o < off'[u] \/ End(u)' <= o
    <3>1. u # t
      BY <1>2, <2>8
    <3>2. Kept(u) /\ pc[u] = "write"
      BY <1>2, <2>8, <3>1 DEF OthersKept, Kept
    <3>3. CallOK(u) /\ Apart(t, u)
      BY <1>1, <1>2, <3>1, <3>2 DEF CallsOK, Writing
    <3>4. off[u] \in Nat /\ End(u) \in Nat /\ off'[u] = off[u] /\ End(u)' = End(u)
      BY <3>2, <3>3 DEF CallOK, RoomOf, Kept, End
    <3>5. End(t) <= off[u] \/ End(u) <= off[t]
      BY <3>3 DEF Apart
    <3> QED BY <2>6, <3>4, <3>5
  <2>9. Foreign(o)'
    BY <2>8 DEF Foreign
  <2>10. o < data_size
    BY <1>1, <2>4, <2>6, TypedSays
  <2>11. Found(p, o)'
    BY <1>2, <2>5, <2>7, <2>9, <2>10 DEF Found
  <2> QED BY <1>2, <2>2, <2>3, <2>5, <2>11
<1>6. CASE ~Holds(recs[t], slot[t], s)
  <2>1. Counts(s, p)
    BY <1>4, <1>6, LastCounts
  <2>2. p \notin clean[t]
    <3> SUFFICES ASSUME p \in clean[t] PROVE FALSE
      OBVIOUS
    <3>1. p \in IovBytes(arg[t].iov) /\ CleanIn(clean[t], recs[t], slot[t], table)
      BY <1>2 DEF CallOK
    <3>2. PICK x \in Slots : Counts(x, p)' /\ slot[t] <= x
      BY <3>1, LastOwn
    <3>3. x <= s
      BY <3>2 DEF Newest
    <3>4. slot[t] <= s
      <4>1. x \in Int /\ s \in Int
        BY LogAssumption DEF Slots
      <4> QED BY <1>1, <3>2, <3>3, <4>1, TypedSays
    <3> QED BY <1>4, <1>6, <3>1, <3>4 DEF CleanIn
  <2>3. p \in Pos \ torn
    BY <1>2, <2>2
  <2>4. Newest(s, p)
    BY <2>1, LastCounts DEF Newest
  <2>5. PICK o \in Bytes : o = Place(table[s], p) /\ Found(p, o)
    BY <1>3, <2>3, <2>4 DEF RecordsFound
  <2>6. Foreign(o)'
    BY <1>1, <2>5, ForeignKept, TypedSays DEF Found
  <2>7. p \notin raced' => p \notin raced /\ p \notin IovBytes(arg[t].iov)
    BY <1>2, <2>2
  <2>8. p \notin IovBytes(arg[t].iov) => ~Busy(p) /\ view'[p] = view[p]
    BY EntersMine, EntersSays DEF Busy
  <2>9. Found(p, o)'
    BY <1>2, <2>5, <2>6, <2>7, <2>8 DEF Found
  <2> QED BY <1>2, <2>5, <2>9
<1> QED BY <1>5, <1>6

LEMMA LastAck ==
  ASSUME Pre, AckTypes', NEW t \in Calls, NEW n, Enters(t, n), EntersLast(t, n)
  PROVE  AckOK'
<1>1. Typed /\ Typed' /\ CallsOK /\ LiveOK /\ TableOK /\ Merging /\ Loading /\ DOMAIN pc = Calls
  BY PreSays DEF Pre, Good, LogInv
<1>2. /\ mode = "up" /\ pc[t] = "insert" /\ Writing(t) /\ CallOK(t) /\ OthersKept(t) /\ Grows /\ pc'[t] = "done"
      /\ UNCHANGED <<mode, log_size, data_size, load_i, table, table_len, data, data_len, base, base_len,
                     arg, recs, slot, off, pend, bad, clean>>
      /\ n + 1 = Len(recs[t]) /\ torn' = torn \ clean[t]
  BY <1>1, EntersMine DEF Enters, EntersLast
<1>3. SameWriters
  BY <1>2 DEF SameWriters, OthersKept, Kept
<1>4. clean[t] \subseteq IovBytes(arg[t].iov)
  BY <1>2 DEF CallOK
<1>5. CallsOK'
  BY <1>1, <1>2, EntersMine, CallsKept DEF Writing
<1>6. LiveOK'
  <2> SUFFICES ASSUME NEW p \in Pos \ torn' PROVE Shown(p)'
    BY DEF LiveOK
  <2>1. CASE p \in IovBytes(arg[t].iov)
    <3>1. PICK k \in 1..(n + 1) : Tells(recs[t][k], p)
      BY <2>1, LastOwn
    <3> QED BY <1>2, <3>1, EnteredShown
  <2>2. CASE p \notin IovBytes(arg[t].iov)
    <3>1. Shown(p)
      BY <1>1, <1>2, <1>4, <2>2 DEF LiveOK
    <3> QED BY <1>1, <1>2, <1>3, <2>2, <3>1, EntersSays, EntersMine, ShownKept
  <2> QED BY <2>1, <2>2
<1>7. RestInBase'
  <2> SUFFICES ASSUME NEW p \in Pos \ torn', ~Busy(p)', \A s \in Slots : ~Counts(s, p)'
               PROVE  BaseAt(p)' = view'[p]
    BY DEF RestInBase
  <2>1. p \notin IovBytes(arg[t].iov)
    BY LastOwn
  <2>2. p \in Pos \ torn /\ \A s \in Slots : ~Counts(s, p)
    BY <1>2, <1>4, <2>1, LastCounts
  <2>3. ~Busy(p)
    BY <2>1, EntersMine DEF Busy
  <2>4. BaseAt(p) = view[p]
    BY <1>1, <2>2, <2>3 DEF TableOK, RestInBase
  <2> QED BY <2>1, <2>4, EntersSays, EntersMine
<1>8. TableOK'
  BY <1>1, <1>2, <1>3, <1>7, LastRecords DEF TableOK
<1>9. Merging'
  BY <1>2, EntersMine DEF Merging, OthersKept, Kept
<1>10. Loading'
  BY <1>2 DEF Loading
<1> QED BY <1>5, <1>6, <1>8, <1>9, <1>10 DEF AckOK

LEMMA InsertAck ==
  ASSUME Pre, NEW t \in Calls, WriteInsert(t)
  PROVE  AckOK'
BY InsertCases, MoreAck, LastAck

-----------------------------------------------------------------------------
(* Merges.                                                                 *)

LEMMA ShownRead ==
  ASSUME NEW p, Shown(p), DOMAIN data = Bytes
  PROVE  Read(p) = view[p]
<1>1. CASE Offsets(mapping, p) = {} /\ BaseAt(p) = view[p]
  BY <1>1 DEF Read, ReadIn
<1>2. CASE \E o \in Bytes : Offsets(mapping, p) = {o} /\ data[o] = view[p] /\ o < data_size /\ Foreign(o)
  <2>1. PICK o \in Bytes : Offsets(mapping, p) = {o} /\ data[o] = view[p]
    BY <1>2
  <2>2. Read(p) = DataAt(data, o)
    BY <2>1, ReadOne DEF Read
  <2> QED BY <2>1, <2>2 DEF DataAt
<1> QED BY <1>1, <1>2 DEF Shown

(* Copying ranges changes a byte of the base only to what a reader sees.   *)
LEMMA CopyTells ==
  ASSUME Typed, MapInv, BaseInv, NEW k, CopyRanges(k), NEW p \in Pos
  PROVE  /\ Offsets(mapping, p) = {} => BaseAt(p)' = BaseAt(p)
         /\ BaseAt(p)' = BaseAt(p) \/ BaseAt(p)' = Read(p)
<1> DEFINE m == LowestRanges(k)
<1>1. m \subseteq mapping /\ p \in Int
  BY PosInt DEF LowestRanges
<1>2. base'[p] = IF Offsets(m, p) # {} THEN ReadIn(m, data, p) ELSE base[p]
  BY DEF CopyRanges
<1>3. base_len' \in Int /\ base_len' >= base_len /\ base_len \in Int /\ \A ir \in m : ir.hi < base_len'
  BY CopyReaches DEF BaseInv
<1> HIDE DEF m
<1>4. CASE Offsets(m, p) = {}
  <2>1. base_len <= p => base[p] = Zero
    BY DEF BaseInv
  <2>2. base'[p] = base[p]
    BY <1>2, <1>4
  <2>3. BaseAt(p)' = BaseAt(p)
    BY <1>1, <1>3, <2>1, <2>2 DEF BaseAt
  <2> QED BY <2>3
<1>5. CASE Offsets(m, p) # {}
  <2>1. Bounded(m) /\ Bounded(mapping) /\ Disjoint(m) /\ Disjoint(mapping)
    BY <1>1, TypedSays DEF MapInv, IntEnds, Bounded, Disjoint
  <2>2. PICK ir \in m : Covers(ir, p)
    BY <1>5, OffsetsNone
  <2>3. PICK o : o = ir.data_offset + (p - ir.lo)
    OBVIOUS
  <2>4. Offsets(m, p) = {o} /\ Offsets(mapping, p) = {o}
    BY <1>1, <2>1, <2>2, <2>3, OffsetsOf
  <2>5. ReadIn(m, data, p) = DataAt(data, o) /\ Read(p) = DataAt(data, o)
    BY <2>4, ReadOne DEF Read
  <2>6. p < base_len'
    BY <1>1, <1>3, <2>1, <2>2 DEF Covers, Bounded
  <2>7. BaseAt(p)' = Read(p)
    BY <1>2, <1>5, <2>5, <2>6 DEF BaseAt
  <2> QED BY <2>4, <2>7
<1> QED BY <1>4, <1>5

LEMMA CopyAck ==
  ASSUME Pre, NEW t \in Calls, NEW k, Free, pc[t] = "merge", CopyRanges(k), pc'[t] \in {"done", "failed"},
         OthersKept(t), AckTypes',
         UNCHANGED <<mode, mapping, file_size, log_size, data_size, lock, load_i, table, table_len, data, data_len,
                     view, clean, torn, raced>>
  PROVE  AckOK'
<1>1. Typed /\ Typed' /\ CallsOK /\ LiveOK /\ TableOK /\ Merging /\ Loading /\ MapInv /\ BaseInv /\ DOMAIN data = Bytes
  BY PreSays DEF Pre, Good, MergeInv, Typed, AckTypes
<1>2. mode = "up" /\ lock = NoCall /\ Grows
  BY <1>1, TypedSays DEF Free, Grows
<1>3. SameWriters
  BY DEF SameWriters, OthersKept, Kept
<1>4. ASSUME NEW p \in Pos \ torn
      PROVE  /\ Shown(p) /\ (Offsets(mapping, p) = {} => BaseAt(p)' = BaseAt(p))
             /\ BaseAt(p)' = BaseAt(p) \/ BaseAt(p)' = view[p]
  <2>1. Shown(p)
    BY <1>1, <1>2 DEF LiveOK
  <2> QED BY <1>1, <2>1, ShownRead, CopyTells
<1>5. ASSUME NEW u \in Calls, NEW s PROVE Mine(u, s)' <=> Mine(u, s)
  <2>1. CASE u = t
    BY <2>1 DEF Mine, Writing
  <2>2. CASE u # t
    BY <2>2, MineKept DEF OthersKept
  <2> QED BY <2>1, <2>2
<1>6. \A p : SameCounts(p)
  BY <1>5, CountsSame
<1>7. ASSUME NEW p PROVE Busy(p)' <=> Busy(p)
  BY DEF Busy, OthersKept, Kept, IovBytes
<1>8. CallsOK'
  <2>1. \A u \in Calls : u # t /\ Writing(u) => Spared(u)
    BY <1>1, SparedSame DEF CallsOK
  <2>2. ~Writing(t)' /\ mode' = "up"
    BY <1>2 DEF Writing
  <2> QED BY <1>1, <2>1, <2>2, CallsKept
<1>9. LiveOK'
  <2> SUFFICES ASSUME NEW p \in Pos \ torn PROVE Shown(p)'
    BY DEF LiveOK
  <2> QED BY <1>1, <1>2, <1>3, <1>4, ShownKept
<1>10. TableOK'
  <2>1. RecordsFound => RecordsFound'
    <3> SUFFICES ASSUME RecordsFound PROVE RecordsFound'
      OBVIOUS
    <3>1. ASSUME NEW p \in Pos \ torn', NEW o, Found(p, o) PROVE Found(p, o)'
      BY <1>1, <1>2, <1>3, <1>7, <3>1, FoundKept
    <3> QED BY <1>6, <3>1, RecordsKept
  <2>2. RestInBase'
    <3> SUFFICES ASSUME NEW p \in Pos \ torn', ~Busy(p)', \A s \in Slots : ~Counts(s, p)'
                 PROVE  BaseAt(p)' = view'[p]
      BY DEF RestInBase
    <3>1. \A s \in Slots : ~Counts(s, p)
      BY <1>6 DEF SameCounts
    <3>2. BaseAt(p) = view[p]
      BY <1>1, <1>7, <3>1 DEF TableOK, RestInBase
    <3> QED BY <1>4, <3>2
  <2>3. Intact
    BY <1>1, <1>2, NoneEmptying DEF Intact
  <2> QED BY <1>1, <2>1, <2>2, <2>3 DEF TableOK
<1>11. Merging'
  BY <1>1, <1>2, NoneEmptying DEF Merging, OthersKept, Kept
<1>12. Loading'
  BY <1>2 DEF Loading
<1> QED BY <1>8, <1>9, <1>10, <1>11, <1>12 DEF AckOK

(* Cutting the file at its start empties the mapping.                      *)
LEMMA CutAll ==
  ASSUME NEW m, m \subseteq Ranges, Disjoint(m), NEW size \in Int,
         \A p \in Int : Offsets(m, p) # {} => 0 <= p /\ p < size
  PROVE  TruncateRange(m, -1, size) = {}
<1> DEFINE hit == Hits(m, 0, size)
           straddle == {ir \in hit : ir.lo <= -1}
           past == hit \ straddle
           missed == IF straddle # {} /\ Cardinality(past) <= bufmax THEN Lowest(past) ELSE {}
           cut == {[lo |-> ir.lo, hi |-> -1, data_offset |-> ir.data_offset] : ir \in straddle}
<1>1. ASSUME NEW ir \in m PROVE 0 <= ir.lo /\ ir.lo < size /\ ir.lo <= ir.hi
  <2>1. ir.lo \in Int /\ ir.hi \in Int /\ ir.lo <= ir.hi
    BY DEF Ranges, Disjoint
  <2>2. ir.data_offset + (ir.lo - ir.lo) \in Offsets(m, ir.lo)
    BY <2>1 DEF Offsets
  <2> QED BY <2>1, <2>2
<1>2. \A ir \in m : ir \in hit
  <2> SUFFICES ASSUME NEW ir \in m PROVE Overlaps(ir, 0, size)
    BY DEF Hits
  <2>1. ir.lo \in Int /\ ir.hi \in Int
    BY DEF Ranges
  <2> QED BY <1>1, <2>1 DEF Overlaps
<1>3. hit = m
  BY <1>2 DEF Hits
<1>4. straddle = {}
  <2> HIDE DEF hit
  <2> SUFFICES ASSUME NEW ir \in m, ir.lo <= -1 PROVE FALSE
    BY <1>3
  <2>1. ir.lo \in Int
    BY DEF Ranges
  <2> QED BY <1>1, <2>1
<1>5. missed = {} /\ cut = {}
  <2> HIDE DEF straddle, past
  <2> QED BY <1>4
<1>6. TruncateRange(m, -1, size) = (m \ hit) \cup cut \cup missed
  <2>1. -1 + 1 = 0
    OBVIOUS
  <2> QED BY <2>1, Zenon DEF TruncateRange
<1> HIDE DEF hit, cut, missed
<1> QED BY <1>3, <1>5, <1>6

LEMMA EmptiesAck ==
  ASSUME Pre, NEW t \in Calls, MergeCopy(t), arg[t].trunc, ~spoiled'
  PROVE  AckOK'
<1>1. /\ Typed /\ CallsOK /\ LiveOK /\ TableOK /\ Merging /\ Loading /\ MapInv /\ BaseInv /\ DOMAIN data = Bytes
      /\ DOMAIN pc = Calls /\ DOMAIN pend = Calls /\ DOMAIN pend = Calls /\ file_size \in Int
  BY PreSays DEF Pre, Good, MergeInv, MapInv, Typed, AckTypes, LogInv
<1>2. /\ mode = "up" /\ lock = NoCall /\ pc[t] = "merge" /\ CopyRanges(arg[t].n)
      /\ mapping' = TruncateRange(mapping, -1, file_size) /\ lock' = t
      /\ pc' = [pc EXCEPT ![t] = "copied"] /\ pend' = [pend EXCEPT ![t] = {"table", "data"}]
      /\ arg[t].n = Cardinality(mapping)
      /\ \A u \in Calls \ {t} : pc[u] \notin {"write", "insert", "truncate", "read"}
      /\ UNCHANGED <<mode, log_size, data_size, load_i, table, table_len, data, data_len,
                     arg, recs, slot, off, bad, todo, view, clean, torn, raced>>
  BY DEF MergeCopy, Free
<1>3. mapping' = {}
  BY <1>1, <1>2, CutAll, TypedSays DEF Typed, AckTypes
<1>4. \A p : Offsets(mapping', p) = {}
  BY <1>3 DEF Offsets
<1>5. AckTypes' /\ Typed'
  BY <1>1, <1>2, <1>3, <1>4, PreSays DEF Typed, AckTypes
<1>6. \A u \in Calls : ~Writing(u) /\ ~Writing(u)' /\ (pc'[u] = "copied" => u = t)
  BY <1>1, <1>2, NoneEmptying DEF Writing
<1>7. ASSUME NEW p \in Pos \ torn PROVE BaseAt(p)' = view[p]
  <2>1. Shown(p)
    BY <1>1, <1>2 DEF LiveOK
  <2> QED BY <1>1, <1>2, <2>1, ShownRead, CopyAll
<1>8. CallsOK'
  BY <1>6 DEF CallsOK
<1>9. LiveOK'
  BY <1>2, <1>4, <1>7 DEF LiveOK, Shown
<1>10. ASSUME NEW p PROVE SameCounts(p) /\ ~Busy(p) /\ ~Busy(p)'
  <2>1. \A u \in Calls : \A s : ~Mine(u, s) /\ ~Mine(u, s)'
    BY <1>6 DEF Mine
  <2>2. SameCounts(p)
    BY <1>2, <2>1, CountsSame
  <2> QED BY <1>6, <2>2 DEF Busy, Writing
<1>11. TableOK'
  <2>1. SameWriters /\ Grows
    BY <1>1, <1>2, <1>6, TypedSays DEF SameWriters, Writing, Grows
  <2>2. RecordsFound => RecordsFound'
    <3> SUFFICES ASSUME RecordsFound PROVE RecordsFound'
      OBVIOUS
    <3>1. ASSUME NEW p \in Pos \ torn', NEW o, Found(p, o) PROVE Found(p, o)'
      BY <1>1, <1>2, <1>5, <1>10, <2>1, <3>1, FoundKept
    <3> QED BY <1>2, <1>10, <3>1, RecordsKept
  <2>3. RestInBase'
    BY <1>2, <1>7 DEF RestInBase
  <2>4. Intact
    BY <1>1, <1>2, NoneEmptying DEF Intact
  <2> QED BY <1>1, <1>2, <2>2, <2>3, <2>4 DEF TableOK
<1>12. Merging'
  <2> SUFFICES ASSUME NEW u \in Calls, pc'[u] = "copied" PROVE MergeOK(u)'
    BY DEF Merging
  <2>1. u = t /\ pend'[t] = {"table", "data"}
    BY <1>1, <1>2, <1>6
  <2> QED BY <1>2, <1>3, <1>6, <1>7, <2>1 DEF MergeOK
<1>13. Loading'
  BY <1>2 DEF Loading
<1> QED BY <1>5, <1>8, <1>9, <1>11, <1>12, <1>13 DEF AckOK

LEMMA MergeCopyAck ==
  ASSUME Pre, NEW t \in Calls, MergeCopy(t), ~spoiled'
  PROVE  AckOK'
<1>1. CASE arg[t].trunc
  BY <1>1, EmptiesAck
<1>2. CASE ~arg[t].trunc
  <2>1. Typed /\ DOMAIN pc = Calls
    BY PreSays DEF Pre, Good, LogInv
  <2>2. /\ Free /\ pc[t] = "merge" /\ CopyRanges(arg[t].n) /\ pc' = [pc EXCEPT ![t] = "done"]
        /\ UNCHANGED <<mode, mapping, file_size, log_size, data_size, lock, load_i, table, table_len, data, data_len,
                       arg, recs, slot, off, pend, bad, todo, view, clean, torn, raced>>
    BY <1>2 DEF MergeCopy
  <2>3. OthersKept(t) /\ pc'[t] = "done"
    BY <2>1, <2>2 DEF OthersKept, Kept
  <2>4. AckTypes'
    BY <2>1, <2>2 DEF Typed, AckTypes
  <2> QED BY <2>2, <2>3, <2>4, CopyAck
<1> QED BY <1>1, <1>2

LEMMA MergeFailsAck ==
  ASSUME Pre, NEW t \in Calls, NEW k, MergeFails(t, k)
  PROVE  AckOK'
<1>1. Typed /\ DOMAIN pc = Calls
  BY PreSays DEF Pre, Good, LogInv
<1>2. /\ Free /\ pc[t] = "merge" /\ CopyRanges(k) /\ pc' = [pc EXCEPT ![t] = "failed"]
      /\ UNCHANGED <<mode, mapping, file_size, log_size, data_size, lock, load_i, table, table_len, data, data_len,
                     arg, recs, slot, off, pend, bad, todo, view, clean, torn, raced>>
  BY DEF MergeFails, memory, history
<1>3. OthersKept(t) /\ pc'[t] = "failed"
  BY <1>1, <1>2 DEF OthersKept, Kept
<1>4. AckTypes'
  BY <1>1, <1>2 DEF Typed, AckTypes
<1> QED BY <1>2, <1>3, <1>4, CopyAck

(* The log is emptied.                                                     *)
LEMMA BlankCounts ==
  ASSUME NEW p \in Pos, NEW s, table[s] = Blank
  PROVE  ~Counts(s, p)
BY BlankTells, PosInt DEF Counts

LEMMA MergeTruncAck ==
  ASSUME Pre, NEW t \in Calls, NEW c \in {"table", "data"}, NEW ok \in BOOLEAN, MergeTrunc(t, c, ok)
  PROVE  AckOK'
<1>1. /\ Typed /\ CallsOK /\ TableOK /\ Merging /\ Loading /\ DOMAIN data = Bytes
      /\ DOMAIN pend = Calls /\ DOMAIN bad = Calls
  BY PreSays DEF Pre, Good, Typed, AckTypes
<1>2. /\ mode = "up" /\ pc[t] = "copied" /\ pend' = [pend EXCEPT ![t] = @ \ {c}] /\ bad' = [bad EXCEPT ![t] = @ \/ ~ok]
      /\ UNCHANGED <<mode, mapping, file_size, log_size, data_size, lock, load_i, base, base_len,
                     pc, arg, recs, slot, off, todo, view, clean, torn, raced>>
  BY DEF MergeTrunc, memory, history
<1>3. MergeOK(t)
  BY <1>1, <1>2 DEF Merging
<1>4. pend'[t] = pend[t] \ {c} /\ (bad'[t] <=> bad[t] \/ ~ok)
  BY <1>1, <1>2
<1>6. /\ ok /\ c = "table" => table' = [s \in Slots |-> Blank] /\ table_len' = 0
      /\ ~(ok /\ c = "table") => UNCHANGED <<table, table_len>>
      /\ ok /\ c = "data" => data' = [o \in Bytes |-> Zero] /\ data_len' = 0
      /\ ~(ok /\ c = "data") => UNCHANGED <<data, data_len>>
  BY DEF MergeTrunc, Slots, Bytes
<1>7. log_size \in Nat /\ table_len \in Nat /\ data_len \in Nat /\ MaxSlots \in Nat /\ MaxData \in Nat /\ table_len <= log_size
  BY <1>1, <1>2, TypedSays DEF TableOK
<1>8. Blank \in Ranges
  BY DEF Blank, Ranges
<1>9. AckTypes' /\ Typed'
  <2>1. \A s \in Slots : table'[s] \in Ranges
    BY <1>1, <1>6, <1>8 DEF Typed, AckTypes
  <2>2. DOMAIN data' = Bytes /\ data_len' \in Nat /\ data_len' <= MaxData
    BY <1>1, <1>6, <1>7 DEF Typed, AckTypes
  <2> QED BY <1>1, <1>2, <2>1, <2>2, PreSays DEF Typed, AckTypes
<1>10. \A u \in Calls : ~Writing(u) /\ ~Writing(u)' /\ (pc'[u] = "copied" => u = t)
  BY <1>2, <1>3 DEF MergeOK, Writing
<1>11. ASSUME NEW p \in Pos \ torn PROVE BaseAt(p)' = view[p]
  BY <1>2, <1>3 DEF MergeOK, BaseAt
<1>12. mapping' = {} /\ \A p : Offsets(mapping', p) = {}
  BY <1>2, <1>3 DEF MergeOK, Offsets
<1>13. CallsOK'
  BY <1>10 DEF CallsOK
<1>14. LiveOK'
  BY <1>2, <1>11, <1>12 DEF LiveOK, Shown
<1>15. TableOK'
  <2>1. RestInBase'
    BY <1>2, <1>11 DEF RestInBase
  <2>2. table_len' <= log_size' /\ \A s \in Slots : table_len' <= s => table'[s] = Blank
    BY <1>1, <1>2, <1>6, <1>7 DEF TableOK
  <2>3. ASSUME Intact' PROVE RecordsFound'
    <3>1. c = "table"
      BY <1>2, <1>4, <2>3 DEF Intact
    <3>2. CASE ok
      <4>1. \A s \in Slots : table'[s] = Blank
        BY <1>6, <3>1, <3>2
      <4>2. \A p \in Pos, s \in Slots : ~Counts(s, p)'
        BY <4>1, BlankTells, PosInt DEF Counts
      <4> QED BY <4>2 DEF RecordsFound, Newest
    <3>3. CASE ~ok
      <4>1. UNCHANGED <<table, table_len, data, data_len>>
        BY <1>6, <3>3
      <4>2. Intact
        BY <1>1, <1>2, <1>4, <1>10, <2>3 DEF Intact
      <4>3. RecordsFound
        BY <1>1, <4>2 DEF TableOK
      <4>4. SameWriters /\ Grows
        BY <1>1, <1>2, <4>1, TypedSays DEF SameWriters, Grows
      <4>5. \A u \in Calls : \A s : ~Mine(u, s) /\ ~Mine(u, s)'
        BY <1>10 DEF Mine
      <4>6. \A p : SameCounts(p)
        BY <4>1, <4>5, CountsSame
      <4>7. \A p : ~Busy(p) /\ ~Busy(p)'
        BY <1>10 DEF Busy, Writing
      <4>8. ASSUME NEW p \in Pos \ torn', NEW o, Found(p, o) PROVE Found(p, o)'
        BY <1>1, <1>2, <1>9, <4>1, <4>4, <4>7, <4>8, FoundKept
      <4> QED BY <1>2, <4>3, <4>6, <4>8, RecordsKept
    <3> QED BY <3>2, <3>3
  <2> QED BY <2>1, <2>2, <2>3 DEF TableOK
<1>16. Merging'
  <2> SUFFICES ASSUME NEW u \in Calls, pc'[u] = "copied" PROVE MergeOK(u)'
    BY DEF Merging
  <2>1. u = t
    BY <1>10
  <2>2. "table" \notin pend'[t] /\ ~bad'[t] => table_len' = 0
    <3>1. CASE c = "table"
      BY <1>4, <1>6, <3>1
    <3>2. CASE c = "data"
      BY <1>3, <1>4, <1>6, <3>2 DEF MergeOK
    <3> QED BY <3>1, <3>2
  <2>3. pend'[t] \subseteq {"table", "data"}
    BY <1>3, <1>4 DEF MergeOK
  <2> QED BY <1>2, <1>3, <1>10, <1>11, <1>12, <2>1, <2>2, <2>3 DEF MergeOK
<1>17. Loading'
  BY <1>2 DEF Loading
<1> QED BY <1>9, <1>13, <1>14, <1>15, <1>16, <1>17 DEF AckOK

LEMMA MergeDoneAck ==
  ASSUME Pre, NEW t \in Calls, MergeDone(t), ~spoiled'
  PROVE  AckOK'
<1>1. Typed /\ CallsOK /\ TableOK /\ Merging /\ Loading /\ DOMAIN pc = Calls
  BY PreSays DEF Pre, Good, Typed, AckTypes, LogInv
<1>2. /\ mode = "up" /\ pc[t] = "copied" /\ pend[t] = {} /\ ~bad[t] /\ pc' = [pc EXCEPT ![t] = "done"]
      /\ log_size' = 0 /\ data_size' = 0
      /\ UNCHANGED <<mode, mapping, file_size, load_i, table, table_len, data, data_len, base, base_len,
                     arg, recs, slot, off, pend, bad, todo, view, clean, torn, raced>>
  BY DEF MergeDone, storage
<1>3. MergeOK(t)
  BY <1>1, <1>2 DEF Merging
<1>4. table_len = 0
  BY <1>2, <1>3 DEF MergeOK
<1>5. \A s \in Slots : table[s] = Blank
  <2>1. \A s \in Slots : 0 <= s
    BY LogAssumption DEF Slots
  <2> QED BY <1>1, <1>4, <2>1 DEF TableOK
<1>6. AckTypes'
  BY <1>1, <1>2, LogAssumption DEF Typed, AckTypes
<1>7. \A u \in Calls : ~Writing(u)' /\ pc'[u] # "copied"
  BY <1>1, <1>2, <1>3 DEF MergeOK, Writing
<1>8. ASSUME NEW p \in Pos \ torn PROVE BaseAt(p)' = view[p]
  BY <1>2, <1>3 DEF MergeOK, BaseAt
<1>9. \A p : Offsets(mapping', p) = {}
  BY <1>2, <1>3 DEF MergeOK, Offsets
<1>10. CallsOK'
  BY <1>7 DEF CallsOK
<1>11. LiveOK'
  BY <1>2, <1>8, <1>9 DEF LiveOK, Shown
<1>12. TableOK'
  <2>1. RestInBase'
    BY <1>2, <1>8 DEF RestInBase
  <2>2. RecordsFound'
    <3>1. \A p \in Pos, s \in Slots : ~Counts(s, p)'
      BY <1>2, <1>5, BlankTells, PosInt DEF Counts
    <3> QED BY <3>1 DEF RecordsFound, Newest
  <2> QED BY <1>2, <1>4, <1>5, <2>1, <2>2 DEF TableOK
<1>13. Merging'
  BY <1>7 DEF Merging
<1>14. Loading'
  BY <1>2 DEF Loading
<1> QED BY <1>6, <1>10, <1>11, <1>12, <1>13, <1>14 DEF AckOK

-----------------------------------------------------------------------------
(* Crashes and loads.                                                      *)

LEMMA DieAck ==
  ASSUME Pre, Die, ~spoiled'
  PROVE  AckOK'
<1>1. Typed /\ CallsOK /\ TableOK /\ Merging /\ pc \in [Calls -> PCs \ {"truncate"}]
  BY PreSays DEF Pre, Good, LogInv
<1>2. /\ mode' = "down" /\ lock' = NoCall /\ pc' = [t \in Calls |-> IF Open(t) THEN "dead" ELSE pc[t]]
      /\ torn' = torn \cup UNION {Touched(t) : t \in Calls}
      /\ ~ \E t \in Calls : pc[t] = "copied" /\ (pend[t] = {"table"} \/ bad[t])
      /\ UNCHANGED <<mapping, file_size, log_size, data_size, load_i, table, table_len, data, data_len, base, base_len,
                     arg, recs, slot, off, pend, bad, todo, view, clean, raced>>
  <2>1. ~ \E t \in Calls : pc[t] = "truncate"
    BY <1>1
  <2> QED BY <2>1 DEF Die, storage
<1>3. \A u \in Calls : ~Writing(u)' /\ pc'[u] # "copied" /\ pc'[u] # "write" /\ pc'[u] # "insert"
  BY <1>1, <1>2 DEF Writing, Open, PCs
<1>4. AckTypes' /\ Typed'
  BY <1>1, <1>2, PreSays DEF Typed, AckTypes
<1>5. ASSUME NEW p \in Pos \ torn' PROVE ByteKept(p)
  <2>1. \A u \in Calls : p \notin Touched(u)
    BY <1>2
  <2>2. ASSUME NEW s \in Slots, Tells(table[s], p)
        PROVE  (\E u \in Calls : Mine(u, s)') <=> (\E u \in Calls : Mine(u, s))
    <3>1. ASSUME NEW u \in Calls, Mine(u, s) PROVE FALSE
      <4>1. Writing(u) /\ Holds(recs[u], slot[u], s) /\ CallOK(u)
        BY <1>1, <3>1 DEF Mine, CallsOK
      <4>2. p \in IovBytes(arg[u].iov)
        BY <2>2, <4>1, OwnTells
      <4> QED BY <2>1, <4>1, <4>2 DEF Touched
    <3>2. \A u \in Calls : ~Mine(u, s)'
      BY <1>3 DEF Mine
    <3> QED BY <3>1, <3>2
  <2>3. SameCounts(p)
    BY <1>2, <2>2, CountsSame
  <2>4. ~Busy(p)
    BY <2>1 DEF Busy, Touched, Writing
  <2>5. BaseAt(p)' = BaseAt(p)
    BY <1>2 DEF BaseAt
  <2> QED BY <1>2, <2>3, <2>4, <2>5 DEF ByteKept
<1>6. SameWriters /\ Grows
  BY <1>1, <1>2, <1>3, TypedSays DEF SameWriters, Grows
<1>7. TableOK'
  <2>1. (RecordsFound => RecordsFound') /\ RestInBase'
    BY <1>1, <1>2, <1>4, <1>5, <1>6, LogKept DEF TableOK
  <2>2. RecordsFound
    <3>1. CASE Intact
      BY <1>1, <3>1 DEF TableOK
    <3>2. CASE ~Intact
      <4>1. PICK t \in Calls : pc[t] = "copied" /\ "data" \notin pend[t]
        BY <3>2 DEF Intact
      <4>2. MergeOK(t) /\ ~bad[t] /\ pend[t] # {"table"}
        BY <1>1, <1>2, <4>1 DEF Merging
      <4>3. pend[t] \subseteq {"table", "data"}
        BY <4>2 DEF MergeOK
      <4>4. "table" \notin pend[t]
        BY <4>1, <4>2, <4>3
      <4>5. table_len = 0
        BY <4>2, <4>4 DEF MergeOK
      <4>6. \A s \in Slots : 0 <= s
        BY LogAssumption DEF Slots
      <4>7. \A s \in Slots : table[s] = Blank
        BY <1>1, <4>5, <4>6 DEF TableOK
      <4>8. \A p \in Pos, s \in Slots : ~Counts(s, p)
        BY <4>7, BlankCounts
      <4> QED BY <4>8 DEF RecordsFound, Newest
    <3> QED BY <3>1, <3>2
  <2> QED BY <1>1, <1>2, <2>1, <2>2 DEF TableOK
<1> QED BY <1>2, <1>3, <1>4, <1>7 DEF AckOK, CallsOK, LiveOK, Merging, Loading

(* While the log is down or loading nobody uses it.                        *)
LEMMA Alone ==
  ASSUME Good, mode # "up"
  PROVE  /\ \A u \in Calls : ~Writing(u) /\ pc[u] # "copied" /\ pc[u] # "write" /\ pc[u] # "insert"
         /\ Intact /\ RecordsFound /\ RestInBase
         /\ \A s \in Slots : \A p : Counts(s, p) <=> Tells(table[s], p)
         /\ \A p : ~Busy(p)
<1>1. CallsOK /\ TableOK /\ Merging
  BY DEF Good, AckOK
<1>2. \A u \in Calls : ~Writing(u) /\ pc[u] # "copied"
  BY <1>1 DEF CallsOK, Merging, MergeOK
<1>3. \A u \in Calls : pc[u] # "write" /\ pc[u] # "insert"
  BY <1>2 DEF Writing
<1>4. Intact /\ RecordsFound /\ RestInBase
  BY <1>1, <1>2 DEF Intact, TableOK
<1>5. \A s \in Slots : \A p : Counts(s, p) <=> Tells(table[s], p)
  BY <1>2 DEF Counts, Mine
<1>6. \A p : ~Busy(p)
  BY <1>3 DEF Busy
<1> QED BY <1>2, <1>3, <1>4, <1>5, <1>6

LEMMA LoadStartAck ==
  ASSUME Pre, LoadStart
  PROVE  AckOK'
<1>1. Typed /\ TableOK
  BY PreSays
<1>2. /\ mode = "down" /\ mode' = "loading" /\ mapping' = {} /\ log_size' = table_len /\ data_size' = data_len /\ load_i' = 0
      /\ UNCHANGED <<lock, table, table_len, data, data_len, base, base_len, pc, arg, recs, slot, off, pend, bad, todo,
                     view, clean, torn, raced>>
  BY DEF LoadStart, storage, call, history
<1>3. /\ \A u \in Calls : ~Writing(u) /\ pc[u] # "copied" /\ pc[u] # "write" /\ pc[u] # "insert"
      /\ Intact /\ RecordsFound /\ RestInBase
  BY <1>2, Alone DEF Pre
<1>4. \A p : Offsets(mapping', p) = {}
  BY <1>2 DEF Offsets
<1>5. AckTypes'
  BY <1>1, <1>2, <1>4 DEF Typed, AckTypes
<1>6. \A u \in Calls : ~Writing(u)' /\ pc'[u] # "copied" /\ pc'[u] # "write" /\ pc'[u] # "insert"
  BY <1>2, <1>3 DEF Writing
<1>7. ASSUME NEW p PROVE SameCounts(p)
  <2>1. \A u \in Calls : \A s : ~Mine(u, s) /\ ~Mine(u, s)'
    BY <1>3, <1>6 DEF Mine
  <2> QED BY <1>2, <2>1, CountsSame
<1>8. ASSUME NEW p PROVE ~Busy(p) /\ ~Busy(p)' /\ BaseAt(p)' = BaseAt(p)
  BY <1>2, <1>3, <1>6 DEF Busy, BaseAt
<1>9. TableOK'
  <2>1. RecordsFound'
    <3>1. ASSUME NEW p \in Pos \ torn', NEW o, Found(p, o) PROVE Found(p, o)'
      <4>1. Foreign(o)'
        BY <1>6 DEF Foreign
      <4> QED BY <1>2, <1>8, <3>1, <4>1 DEF Found
    <3> QED BY <1>2, <1>3, <1>7, <3>1, RecordsKept
  <2>2. RestInBase'
    BY <1>2, <1>3, <1>7, <1>8, RestKept
  <2>3. table_len' <= log_size'
    BY <1>1, <1>2, TypedSays
  <2> QED BY <1>1, <1>2, <2>1, <2>2, <2>3 DEF TableOK
<1>10. Loading'
  <2>1. ASSUME NEW p PROVE LoadedTo(0, p, mapping', table')
    <3>1. 0..(0 - 1) = {}
      OBVIOUS
    <3> QED BY <1>4, <3>1 DEF LoadedTo
  <2>2. load_i' <= log_size'
    BY <1>1, <1>2, TypedSays
  <2> QED BY <1>2, <2>1, <2>2 DEF Loading
<1> QED BY <1>2, <1>5, <1>6, <1>9, <1>10 DEF AckOK, CallsOK, LiveOK, Merging

LEMMA LoadedSkip ==
  ASSUME NEW n \in Nat, NEW p, NEW m, NEW tab, LoadedTo(n, p, m, tab), ~Tells(tab[n], p)
  PROVE  LoadedTo(n + 1, p, m, tab)
<1>1. \A x \in 0..((n + 1) - 1) : x = n \/ x \in 0..(n - 1)
  OBVIOUS
<1>2. \A x \in 0..(n - 1) : x \in 0..((n + 1) - 1)
  OBVIOUS
<1>3. CASE Offsets(m, p) = {} /\ \A s \in 0..(n - 1) : ~Tells(tab[s], p)
  BY <1>1, <1>3 DEF LoadedTo
<1>4. CASE \E s \in 0..(n - 1) : /\ Tells(tab[s], p) /\ Offsets(m, p) = {Place(tab[s], p)}
                                 /\ \A x \in 0..(n - 1) : Tells(tab[x], p) => x <= s
  <2>1. PICK s \in 0..(n - 1) : /\ Tells(tab[s], p) /\ Offsets(m, p) = {Place(tab[s], p)}
                                /\ \A x \in 0..(n - 1) : Tells(tab[x], p) => x <= s
    BY <1>4
  <2>2. \A x \in 0..((n + 1) - 1) : Tells(tab[x], p) => x <= s
    BY <1>1, <2>1
  <2> QED BY <1>2, <2>1, <2>2 DEF LoadedTo
<1> QED BY <1>3, <1>4 DEF LoadedTo

LEMMA LoadedEnter ==
  ASSUME NEW n \in Nat, NEW p, NEW m, NEW tab, Tells(tab[n], p), Offsets(m, p) = {Place(tab[n], p)}
  PROVE  LoadedTo(n + 1, p, m, tab)
<1>1. n \in 0..((n + 1) - 1) /\ \A x \in 0..((n + 1) - 1) : x <= n
  OBVIOUS
<1> QED BY <1>1 DEF LoadedTo

LEMMA LoadedSame ==
  ASSUME NEW n, NEW p, NEW m, NEW M, NEW tab, LoadedTo(n, p, m, tab), Offsets(M, p) = Offsets(m, p)
  PROVE  LoadedTo(n, p, M, tab)
BY DEF LoadedTo

LEMMA LoadRecordAck ==
  ASSUME Pre, NEW ok \in BOOLEAN, LoadRecord(ok)
  PROVE  AckOK'
<1> DEFINE r == table[load_i]
<1>1. Typed /\ TableOK /\ Loading /\ file_size \in Int
  BY PreSays DEF Pre, Good, MergeInv, MapInv
<1>2. /\ mode = "loading" /\ load_i < log_size /\ load_i' = load_i + 1
      /\ UNCHANGED <<mode, log_size, data_size, lock, table, table_len, data, data_len, base, base_len,
                     pc, arg, recs, slot, off, pend, bad, todo, view, clean>>
  BY DEF LoadRecord, storage, call
<1>3. load_i \in Slots /\ load_i \in Nat /\ log_size \in Nat
  BY <1>1, <1>2, TypedSays DEF Slots
<1>4. r \in Ranges /\ (r = Blank \/ GoodRecord(r))
  BY <1>1, <1>3 DEF Typed, AckTypes, LogInv, Slots
<1> HIDE DEF r
<1>5. r.lo # -1 /\ (r = Blank <=> BlankRecord(r)) /\ (r # Blank => GoodRecord(r))
  BY <1>4 DEF Blank, GoodRecord, BlankRecord
<1>6. /\ raced' = raced /\ torn \subseteq torn'
      /\ ~ok => \A p \in Pos : Tells(r, p) => p \in torn'
      /\ ~(ok /\ ~BlankRecord(r)) => UNCHANGED <<mapping, file_size>>
  <2>1. raced' = raced
    BY <1>5 DEF LoadRecord, r
  <2>2. torn' = CASE ok -> torn
                  [] r.lo = -1 -> Pos
                  [] OTHER -> torn \cup {p \in Pos : r.lo <= p /\ p < r.lo + r.hi}
    BY DEF LoadRecord, r
  <2>3. CASE ok
    <3>1. torn' = torn
      BY <1>5, <2>2, <2>3
    <3> QED BY <2>1, <2>3, <3>1 DEF LoadRecord, r
  <2>4. CASE ~ok
    <3>1. torn' = torn \cup {p \in Pos : r.lo <= p /\ p < r.lo + r.hi}
      BY <1>5, <2>2, <2>4
    <3>2. UNCHANGED <<mapping, file_size>>
      BY <2>4 DEF LoadRecord, r
    <3> QED BY <2>1, <2>4, <3>1, <3>2 DEF Tells
  <2> QED BY <2>3, <2>4
<1>7. ASSUME ok, ~BlankRecord(r)
      PROVE  /\ Overlay(mapping, r, mapping') /\ file_size' \in Int /\ file_size <= file_size'
             /\ GoodRecord(r) /\ r.lo + r.hi <= file_size'
  <2>1. EnterRange(InMemory(r))
    BY <1>7 DEF LoadRecord, r
  <2>2. InMemory(r).lo = r.lo /\ InMemory(r).hi = r.lo + r.hi - 1
    BY DEF InMemory
  <2>3. GoodRecord(r) /\ mapping \subseteq Ranges /\ Disjoint(mapping)
    BY <1>1, <1>5, <1>7, TypedSays
  <2>4. mapping' = InsertRange(mapping, InMemory(r)) /\ file_size' = InsertSize(file_size, InMemory(r))
    BY <1>5, <2>1, <2>2 DEF EnterRange
  <2>5. Overlay(mapping, r, mapping')
    BY <1>4, <2>3, <2>4, EnterRecord
  <2>6. file_size' = IF r.lo + r.hi - 1 >= file_size THEN r.lo + r.hi - 1 + 1 ELSE file_size
    BY <2>2, <2>4 DEF InsertSize
  <2>7. file_size' \in Int /\ file_size <= file_size' /\ r.lo + r.hi <= file_size'
    BY <1>1, <1>4, <2>6 DEF Ranges
  <2> QED BY <2>3, <2>5, <2>7
<1>8. AckTypes' /\ Typed'
  <2>1. mapping' \subseteq Ranges
    BY <1>1, <1>6, <1>7, TypedSays DEF Overlay
  <2>2. ASSUME NEW p \in Int, Offsets(mapping', p) # {} PROVE 0 <= p /\ p < file_size'
    <3>1. CASE ok /\ ~BlankRecord(r)
      <4>1. CASE Tells(r, p)
        BY <1>4, <1>7, <3>1, <4>1 DEF Tells, GoodRecord
      <4>2. CASE ~Tells(r, p)
        <5>1. Offsets(mapping, p) # {}
          BY <1>7, <2>2, <3>1, <4>2 DEF Overlay
        <5>2. 0 <= p /\ p < file_size
          BY <1>1, <5>1 DEF Typed, AckTypes
        <5> QED BY <1>1, <1>7, <3>1, <5>2
      <4> QED BY <4>1, <4>2
    <3>2. CASE ~(ok /\ ~BlankRecord(r))
      BY <1>1, <1>6, <2>2, <3>2 DEF Typed, AckTypes
    <3> QED BY <3>1, <3>2
  <2> QED BY <1>1, <1>2, <2>1, <2>2, PreSays DEF Typed, AckTypes
<1>9. /\ \A u \in Calls : ~Writing(u) /\ pc[u] # "copied" /\ pc[u] # "write" /\ pc[u] # "insert"
      /\ Intact /\ RecordsFound /\ RestInBase
  BY <1>2, Alone DEF Pre
<1>10. \A u \in Calls : ~Writing(u)' /\ pc'[u] # "copied"
  BY <1>2, <1>9 DEF Writing
<1>11. ASSUME NEW p PROVE ByteKept(p)
  <2>1. \A u \in Calls : \A s : ~Mine(u, s) /\ ~Mine(u, s)'
    BY <1>9, <1>10 DEF Mine
  <2>2. SameCounts(p)
    BY <1>2, <2>1, CountsSame
  <2>3. ~Busy(p) /\ BaseAt(p)' = BaseAt(p)
    BY <1>2, <1>9 DEF Busy, BaseAt
  <2> QED BY <1>2, <1>6, <2>2, <2>3 DEF ByteKept
<1>12. TableOK'
  <2>1. SameWriters /\ Grows
    BY <1>1, <1>2, TypedSays DEF SameWriters, Grows
  <2>2. RecordsFound' /\ RestInBase'
    BY <1>1, <1>2, <1>6, <1>8, <1>9, <1>11, <2>1, LogKept
  <2> QED BY <1>1, <1>2, <2>2 DEF TableOK
<1>13. Loading'
  <2>1. ASSUME NEW p \in Pos \ torn' PROVE LoadedTo(load_i + 1, p, mapping', table)
    <3>1. LoadedTo(load_i, p, mapping, table) /\ p \in Int
      BY <1>1, <1>2, <1>6, PosInt DEF Loading
    <3>2. CASE ok /\ ~BlankRecord(r)
      <4>1. Offsets(mapping', p) = IF Tells(r, p) THEN {Place(r, p)} ELSE Offsets(mapping, p)
        BY <1>7, <3>1, <3>2 DEF Overlay
      <4>2. CASE Tells(r, p)
        BY <1>3, <4>1, <4>2, LoadedEnter DEF r
      <4>3. CASE ~Tells(r, p)
        <5>1. LoadedTo(load_i, p, mapping', table)
          BY <3>1, <4>1, <4>3, LoadedSame
        <5> QED BY <1>3, <4>3, <5>1, LoadedSkip DEF r
      <4> QED BY <4>2, <4>3
    <3>3. CASE ~(ok /\ ~BlankRecord(r))
      <4>1. ~Tells(r, p)
        BY <1>5, <1>6, <3>1, <3>3, BlankTells
      <4>2. mapping' = mapping
        BY <1>6, <3>3
      <4> QED BY <1>3, <3>1, <4>1, <4>2, LoadedSkip DEF r
    <3> QED BY <3>2, <3>3
  <2>2. load_i' <= log_size'
    BY <1>2, <1>3
  <2> QED BY <1>1, <1>2, <2>1, <2>2 DEF Loading
<1> QED BY <1>2, <1>8, <1>10, <1>12, <1>13 DEF AckOK, CallsOK, LiveOK, Merging

(* What a finished load reads.                                             *)
LEMMA LoadedReads ==
  ASSUME Good, mode = "loading", load_i = log_size, NEW p \in Pos \ torn
  PROVE  \/ /\ Offsets(mapping, p) = {} /\ Read(p) = BaseAt(p) /\ BaseAt(p) = view[p]
            /\ \A s \in Slots : ~Counts(s, p)
         \/ \E s \in Slots, o \in Bytes :
              Newest(s, p) /\ o = Place(table[s], p) /\ Found(p, o) /\ Offsets(mapping, p) = {o} /\ Read(p) = data[o]
<1>1. Typed /\ TableOK /\ Loading /\ DOMAIN data = Bytes
  BY DEF Good, AckOK, Typed, AckTypes
<1>2. RecordsFound /\ RestInBase /\ (\A s \in Slots : Counts(s, p) <=> Tells(table[s], p)) /\ ~Busy(p)
  BY Alone
<1>3. LoadedTo(load_i, p, mapping, table) /\ load_i = table_len /\ load_i \in Nat /\ p \in Int /\ load_i <= MaxSlots /\ MaxSlots \in Nat
  BY <1>1, PosInt, TypedSays DEF Loading
<1>4. ASSUME NEW s \in Slots, Tells(table[s], p) PROVE s \in 0..(load_i - 1)
  <2>1. s \in Int /\ 0 <= s
    BY <1>3 DEF Slots
  <2>2. ~(table_len <= s)
    BY <1>1, <1>3, <1>4, BlankTells DEF TableOK
  <2> QED BY <1>3, <2>1, <2>2
<1>5. CASE Offsets(mapping, p) = {} /\ \A s \in 0..(load_i - 1) : ~Tells(table[s], p)
  <2>1. \A s \in Slots : ~Counts(s, p)
    BY <1>2, <1>4, <1>5
  <2>2. BaseAt(p) = view[p]
    BY <1>2, <2>1 DEF RestInBase
  <2>3. Read(p) = BaseAt(p)
    BY <1>5 DEF Read, ReadIn
  <2> QED BY <1>5, <2>1, <2>2, <2>3
<1>6. CASE \E s \in 0..(load_i - 1) : /\ Tells(table[s], p) /\ Offsets(mapping, p) = {Place(table[s], p)}
                                      /\ \A x \in 0..(load_i - 1) : Tells(table[x], p) => x <= s
  <2>1. PICK s \in 0..(load_i - 1) : /\ Tells(table[s], p) /\ Offsets(mapping, p) = {Place(table[s], p)}
                                     /\ \A x \in 0..(load_i - 1) : Tells(table[x], p) => x <= s
    BY <1>6
  <2>2. s \in Slots
    BY <1>3 DEF Slots
  <2>3. Newest(s, p)
    BY <1>2, <1>4, <2>1, <2>2 DEF Newest
  <2>4. PICK o \in Bytes : o = Place(table[s], p) /\ Found(p, o)
    BY <1>2, <2>2, <2>3 DEF RecordsFound
  <2>5. Read(p) = DataAt(data, o)
    BY <2>1, <2>4, ReadOne DEF Read
  <2>6. Read(p) = data[o]
    BY <1>1, <2>5 DEF DataAt
  <2> QED BY <2>1, <2>2, <2>3, <2>4, <2>6
<1> QED BY <1>3, <1>5, <1>6 DEF LoadedTo

LEMMA LoadDoneAck ==
  ASSUME Pre, LoadDone
  PROVE  AckOK'
<1>1. Typed /\ TableOK /\ Loading
  BY PreSays
<1>2. /\ mode = "loading" /\ load_i = log_size /\ mode' = "up" /\ view' = [p \in Pos |-> Read(p)]
      /\ UNCHANGED <<mapping, file_size, log_size, data_size, lock, load_i, table, table_len, data, data_len, base, base_len,
                     pc, arg, recs, slot, off, pend, bad, todo, clean, torn, raced>>
  BY DEF LoadDone, storage, call
<1>3. AckTypes' /\ Typed'
  BY <1>1, <1>2, PreSays DEF Typed, AckTypes
<1>4. /\ \A u \in Calls : ~Writing(u) /\ pc[u] # "copied" /\ pc[u] # "write" /\ pc[u] # "insert"
      /\ Intact /\ RecordsFound /\ RestInBase
  BY <1>2, Alone DEF Pre
<1>5. \A u \in Calls : ~Writing(u)' /\ pc'[u] # "copied" /\ pc'[u] # "write"
  BY <1>2, <1>4 DEF Writing
<1>6. ASSUME NEW p PROVE SameCounts(p) /\ BaseAt(p)' = BaseAt(p)
  <2>1. \A u \in Calls : \A s : ~Mine(u, s) /\ ~Mine(u, s)'
    BY <1>4, <1>5 DEF Mine
  <2> QED BY <1>2, <2>1, CountsSame DEF BaseAt
<1>7. LiveOK'
  <2> SUFFICES ASSUME NEW p \in Pos \ torn PROVE Shown(p)'
    BY <1>2 DEF LiveOK
  <2>1. view'[p] = Read(p)
    BY <1>2
  <2>2. CASE Offsets(mapping, p) = {} /\ Read(p) = BaseAt(p)
    BY <1>2, <1>6, <2>1, <2>2 DEF Shown
  <2>3. CASE \E o \in Bytes : Found(p, o) /\ Offsets(mapping, p) = {o} /\ Read(p) = data[o]
    <3>1. PICK o \in Bytes : Found(p, o) /\ Offsets(mapping, p) = {o} /\ Read(p) = data[o]
      BY <2>3
    <3>2. Foreign(o)' /\ o < data_size'
      BY <1>2, <1>5, <3>1 DEF Foreign, Found
    <3> QED BY <1>2, <2>1, <3>1, <3>2 DEF Shown
  <2> QED BY <1>2, <2>2, <2>3, LoadedReads DEF Pre
<1>8. RecordsFound'
  <2> SUFFICES ASSUME NEW p \in Pos \ torn, NEW s \in Slots, Newest(s, p)'
               PROVE  \E o \in Bytes : o = Place(table'[s], p) /\ Found(p, o)'
    BY <1>2 DEF RecordsFound
  <2>1. Newest(s, p) /\ Counts(s, p)
    BY <1>6, NewestSame DEF Newest
  <2>2. PICK x \in Slots, o \in Bytes :
              Newest(x, p) /\ o = Place(table[x], p) /\ Found(p, o) /\ Offsets(mapping, p) = {o} /\ Read(p) = data[o]
    BY <1>2, <2>1, LoadedReads DEF Pre
  <2>3. x = s
    <3>1. x \in Int /\ s \in Int
      BY LogAssumption DEF Slots
    <3>2. x <= s /\ s <= x
      BY <2>1, <2>2 DEF Newest
    <3> QED BY <3>1, <3>2
  <2>4. Foreign(o)'
    BY <1>5 DEF Foreign
  <2>5. view'[p] = data[o]
    BY <1>2, <2>2
  <2>6. Found(p, o)'
    BY <1>2, <2>2, <2>4, <2>5 DEF Found
  <2> QED BY <1>2, <2>2, <2>3, <2>6
<1>9. RestInBase'
  <2> SUFFICES ASSUME NEW p \in Pos \ torn, \A s \in Slots : ~Counts(s, p)'
               PROVE  BaseAt(p)' = view'[p]
    BY <1>2 DEF RestInBase
  <2>1. \A s \in Slots : ~Counts(s, p)
    BY <1>6 DEF SameCounts
  <2>2. Read(p) = BaseAt(p)
    BY <1>2, <2>1, LoadedReads DEF Pre, Newest
  <2> QED BY <1>2, <1>6, <2>2
<1>10. TableOK'
  BY <1>1, <1>2, <1>8, <1>9 DEF TableOK
<1> QED BY <1>2, <1>3, <1>5, <1>7, <1>10 DEF AckOK, CallsOK, Merging, Loading

-----------------------------------------------------------------------------
(* Every step.                                                             *)

LEMMA StutterAck ==
  ASSUME AckOK, UNCHANGED vars
  PROVE  AckOK'
<1> USE DEF vars, memory, storage, call, limits, history
<1>1. AckTypes'
  BY DEF AckOK, AckTypes
<1>2. \A t : End(t)' = End(t) /\ IovBytes(arg[t].iov)' = IovBytes(arg[t].iov) /\ Writing(t)' = Writing(t)
  BY DEF End, IovBytes, Writing
<1>3. CallsOK'
  <2>1. \A t \in Calls : CallOK(t) => CallOK(t)'
    BY <1>2 DEF CallOK
  <2>2. \A t, u \in Calls : Apart(t, u) => Apart(t, u)'
    BY <1>2 DEF Apart
  <2> QED BY <1>2, <2>1, <2>2 DEF AckOK, CallsOK
<1>4. \A o : Foreign(o)' <=> Foreign(o)
  BY <1>2 DEF Foreign
<1>5. \A p : BaseAt(p)' = BaseAt(p) /\ (Busy(p)' <=> Busy(p))
  BY <1>2 DEF BaseAt, Busy
<1>6. LiveOK'
  <2>1. \A p : Shown(p) => Shown(p)'
    BY <1>4, <1>5 DEF Shown
  <2> QED BY <2>1 DEF AckOK, LiveOK
<1>7. \A s, p : (Counts(s, p)' <=> Counts(s, p)) /\ (Newest(s, p)' <=> Newest(s, p))
  <2>1. \A s, p : Counts(s, p)' <=> Counts(s, p)
    BY <1>2 DEF Counts, Mine
  <2> QED BY <2>1 DEF Newest
<1>8. \A p, o : Found(p, o) => Found(p, o)'
  BY <1>4, <1>5 DEF Found
<1>9. TableOK'
  <2>1. RecordsFound => RecordsFound'
    BY <1>7, <1>8 DEF RecordsFound
  <2>2. RestInBase => RestInBase'
    BY <1>5, <1>7 DEF RestInBase
  <2>3. Intact' <=> Intact
    BY DEF Intact
  <2> QED BY <2>1, <2>2, <2>3 DEF AckOK, TableOK
<1>10. Merging'
  <2>1. \A t \in Calls : MergeOK(t) => MergeOK(t)'
    BY <1>2, <1>5 DEF MergeOK
  <2> QED BY <2>1 DEF AckOK, Merging
<1>11. Loading'
  BY DEF AckOK, Loading
<1> QED BY <1>1, <1>3, <1>6, <1>9, <1>10, <1>11 DEF AckOK

LEMMA InitAck == Init => AckInv
<1> SUFFICES ASSUME Init PROVE AckOK
  BY DEF AckInv
<1>1. /\ mode = "up" /\ mapping = {} /\ log_size = 0 /\ data_size = 0 /\ table_len = 0 /\ data_len = 0 /\ torn = {}
      /\ table = [s \in Slots |-> Blank] /\ data = [o \in Bytes |-> Zero] /\ view = base
      /\ base = [p \in Pos |-> IF p < BaseLen THEN Byte("base", p) ELSE Zero] /\ base_len = BaseLen
      /\ pc = [t \in Calls |-> "idle"] /\ arg = [t \in Calls |-> NoArg]
      /\ DOMAIN off = Calls /\ DOMAIN pend = Calls /\ DOMAIN bad = Calls /\ DOMAIN clean = Calls
  BY DEF Init, Slots, Bytes
<1>2. \A p : Offsets(mapping, p) = {}
  BY <1>1 DEF Offsets
<1>3. Blank \in Ranges
  BY DEF Blank, Ranges
<1>4. AckTypes
  <2>1. \A t \in Calls : DOMAIN arg[t] = {"iov", "n", "trunc"}
    BY <1>1 DEF NoArg
  <2> QED BY <1>1, <1>2, <1>3, <2>1, LogAssumption DEF AckTypes
<1>5. \A t \in Calls : ~Writing(t) /\ pc[t] # "copied" /\ pc[t] # "insert"
  BY <1>1 DEF Writing
<1>6. \A p \in Pos : BaseAt(p) = view[p]
  BY <1>1 DEF BaseAt
<1>7. \A p \in Pos, s \in Slots : ~Counts(s, p)
  BY <1>1, BlankCounts
<1>8. TableOK
  BY <1>1, <1>6, <1>7 DEF TableOK, RecordsFound, RestInBase, Newest
<1>9. LiveOK
  BY <1>2, <1>6 DEF LiveOK, Shown
<1> QED BY <1>1, <1>4, <1>5, <1>8, <1>9 DEF AckOK, CallsOK, Merging, Loading

LEMMA ReadStartAck ==
  ASSUME Pre, NEW t \in Calls, NEW lo, NEW hi, ReadStart(t, lo, hi)
  PROVE  AckOK'
<1>1. Typed /\ DOMAIN pc = Calls /\ DOMAIN todo = Calls
  BY PreSays DEF Pre, Good, LogInv
<1>2. /\ mode = "up" /\ pc[t] = "idle" /\ pc' = [pc EXCEPT ![t] = "read"]
      /\ todo' = [todo EXCEPT ![t] = ReadPlan(mapping, lo, hi)]
      /\ UNCHANGED <<mode, mapping, file_size, log_size, data_size, lock, load_i, table, table_len, data, data_len,
                     base, base_len, arg, recs, slot, off, pend, bad, view, clean, torn, raced>>
  BY DEF ReadStart, Free, memory, storage
<1>3. OthersKept(t) /\ pc'[t] = "read"
  BY <1>1, <1>2 DEF OthersKept, Kept
<1>4. AckTypes'
  BY <1>1, <1>2 DEF Typed, AckTypes
<1>5. QuietFor(t)
  BY <1>2, <1>3 DEF QuietFor
<1> QED BY <1>2, <1>4, <1>5, QuietStep

LEMMA ReadDoneAck ==
  ASSUME Pre, NEW t \in Calls, NEW ok \in BOOLEAN, ReadDone(t, ok)
  PROVE  AckOK'
<1>1. Typed /\ DOMAIN pc = Calls
  BY PreSays DEF Pre, Good, LogInv
<1>2. /\ mode = "up" /\ pc[t] = "read" /\ pc' = [pc EXCEPT ![t] = IF ok THEN "done" ELSE "failed"]
      /\ UNCHANGED <<mode, mapping, file_size, log_size, data_size, lock, load_i, table, table_len, data, data_len,
                     base, base_len, arg, recs, slot, off, pend, bad, todo, view, clean, torn, raced>>
  BY DEF ReadDone, Free, memory, storage
<1>3. OthersKept(t) /\ pc'[t] \in {"done", "failed"}
  BY <1>1, <1>2 DEF OthersKept, Kept
<1>4. AckTypes'
  BY <1>1, <1>2 DEF Typed, AckTypes
<1>5. QuietFor(t)
  BY <1>2, <1>3 DEF QuietFor
<1> QED BY <1>2, <1>4, <1>5, QuietStep

LEMMA MergeCountAck ==
  ASSUME Pre, NEW t \in Calls, NEW trunc, MergeCount(t, trunc)
  PROVE  AckOK'
<1>1. Typed /\ DOMAIN pc = Calls /\ DOMAIN arg = Calls
  BY PreSays DEF Pre, Good, LogInv, Typed, AckTypes
<1>2. /\ mode = "up" /\ pc[t] = "idle" /\ pc' = [pc EXCEPT ![t] = "merge"]
      /\ arg' = [arg EXCEPT ![t] = [iov |-> <<>>, n |-> Cardinality(mapping), trunc |-> trunc]]
      /\ UNCHANGED <<mode, mapping, file_size, log_size, data_size, lock, load_i, table, table_len, data, data_len,
                     base, base_len, recs, slot, off, pend, bad, todo, view, clean, torn, raced>>
  BY DEF MergeCount, memory, storage, history
<1>3. OthersKept(t) /\ pc'[t] = "merge"
  BY <1>1, <1>2 DEF OthersKept, Kept
<1>4. AckTypes'
  <2>1. DOMAIN arg' = Calls /\ \A u \in Calls : DOMAIN arg'[u] = {"iov", "n", "trunc"}
    BY <1>1, <1>2 DEF Typed, AckTypes
  <2> QED BY <1>1, <1>2, <2>1 DEF Typed, AckTypes
<1>5. QuietFor(t)
  BY <1>2, <1>3 DEF QuietFor
<1> QED BY <1>2, <1>4, <1>5, QuietStep

LEMMA NextAck ==
  ASSUME "truncate" \notin Kinds, LogInv, LogInv', MergeInv, AckInv, [Next]_vars
  PROVE  AckInv'
<1> SUFFICES ASSUME ~spoiled' PROVE AckOK'
  BY DEF AckInv
<1>1. ASSUME ~spoiled PROVE Pre
  BY <1>1 DEF Pre, Good, AckInv
<1>2. CASE UNCHANGED vars
  <2>1. ~spoiled
    BY <1>2 DEF vars, history
  <2> QED BY <1>1, <1>2, <2>1, StutterAck DEF Pre, Good
<1>3. ASSUME NEW t \in Calls, NEW v \in IovLists, WriteReserve(t, v) PROVE AckOK'
  BY <1>1, <1>3, ReserveAck DEF WriteReserve
<1>4. ASSUME NEW t \in Calls, NEW c \in {"table", "data"}, NEW ok \in BOOLEAN, NEW landed \in BOOLEAN, ChildWrite(t, c, ok, landed)
      PROVE AckOK'
  <2>1. ~spoiled
    BY <1>4 DEF ChildWrite, history
  <2> QED BY <1>1, <1>4, <2>1, ChildAck
<1>5. ASSUME NEW t \in Calls, WriteDone(t) PROVE AckOK'
  <2>1. ~spoiled
    BY <1>5 DEF WriteDone
  <2> QED BY <1>1, <1>5, <2>1, WriteFailsAck, WriteEntersAck
<1>6. ASSUME NEW t \in Calls, WriteInsert(t) PROVE AckOK'
  <2>1. ~spoiled
    BY <1>6 DEF WriteInsert
  <2> QED BY <1>1, <1>6, <2>1, InsertAck
<1>7. ASSUME NEW t \in Calls, NEW n \in NewSizes, TruncateStart(t, n) PROVE AckOK'
  BY <1>7 DEF TruncateStart
<1>8. ASSUME NEW t \in Calls, TruncateDone(t) PROVE AckOK'
  BY <1>8 DEF TruncateDone, LogInv
<1>9. ASSUME NEW t \in Calls, NEW lo \in Pos, NEW hi \in Pos, ReadStart(t, lo, hi) PROVE AckOK'
  <2>1. ~spoiled
    BY <1>9 DEF ReadStart
  <2> QED BY <1>1, <1>9, <2>1, ReadStartAck
<1>10. ASSUME NEW t \in Calls, NEW ok \in BOOLEAN, ReadDone(t, ok) PROVE AckOK'
  <2>1. ~spoiled
    BY <1>10 DEF ReadDone
  <2> QED BY <1>1, <1>10, <2>1, ReadDoneAck
<1>11. ASSUME NEW t \in Calls, NEW trunc \in BOOLEAN, MergeCount(t, trunc) PROVE AckOK'
  <2>1. ~spoiled
    BY <1>11 DEF MergeCount, history
  <2> QED BY <1>1, <1>11, <2>1, MergeCountAck
<1>12. ASSUME NEW t \in Calls, MergeCopy(t) PROVE AckOK'
  <2>1. ~spoiled
    BY <1>12 DEF MergeCopy
  <2> QED BY <1>1, <1>12, <2>1, MergeCopyAck
<1>13. ASSUME NEW t \in Calls, NEW k \in 0..Cardinality(mapping), MergeFails(t, k) PROVE AckOK'
  <2>1. ~spoiled
    BY <1>13 DEF MergeFails, history
  <2> QED BY <1>1, <1>13, <2>1, MergeFailsAck
<1>14. ASSUME NEW t \in Calls, NEW c \in {"table", "data"}, NEW ok \in BOOLEAN, MergeTrunc(t, c, ok) PROVE AckOK'
  <2>1. ~spoiled
    BY <1>14 DEF MergeTrunc, history
  <2> QED BY <1>1, <1>14, <2>1, MergeTruncAck
<1>15. ASSUME NEW t \in Calls, MergeDone(t) PROVE AckOK'
  <2>1. ~spoiled
    BY <1>15 DEF MergeDone
  <2> QED BY <1>1, <1>15, <2>1, MergeDoneAck
<1>16. ASSUME Die PROVE AckOK'
  <2>1. ~spoiled
    BY <1>16 DEF Die
  <2> QED BY <1>1, <1>16, <2>1, DieAck
<1>17. CASE LoadStart
  <2>1. ~spoiled
    BY <1>17 DEF LoadStart, history
  <2> QED BY <1>1, <1>17, <2>1, LoadStartAck
<1>18. ASSUME NEW ok \in BOOLEAN, LoadRecord(ok) PROVE AckOK'
  <2>1. ~spoiled
    BY <1>18 DEF LoadRecord
  <2> QED BY <1>1, <1>18, <2>1, LoadRecordAck
<1>19. CASE LoadDone
  <2>1. ~spoiled
    BY <1>19 DEF LoadDone
  <2> QED BY <1>1, <1>19, <2>1, LoadDoneAck
<1>20. CASE Finished
  BY <1>2, <1>20 DEF Finished
<1> QED BY <1>2, <1>3, <1>4, <1>5, <1>6, <1>7, <1>8, <1>9, <1>10, <1>11, <1>12, <1>13, <1>14, <1>15,
           <1>16, <1>17, <1>18, <1>19, <1>20 DEF Next, Crash, MergeNull

AckCarries == LogInv /\ MergeInv /\ AckInv
LEMMA AckHolds ==
  ASSUME "truncate" \notin Kinds
  PROVE  Spec => []AckCarries
<1>1. Init => AckCarries
  BY InitLogInv, InitMergeInv, InitAck DEF AckCarries
<1>2. AckCarries /\ [Next]_vars => AckCarries'
  BY NextLogInv, MergeStep, NextAck DEF AckCarries
<1> QED BY <1>1, <1>2, PTL DEF Spec

\* seglog_write_func and seglog_merge_with_base_func on a log that is not
\* truncated, for any number of calls and any iov lists: whatever ranges
\* _slog_insert_range cut, split and joined, while other writes hold
\* reservations, fail or are cut off by a crash, a reader finds at a byte what
\* the last write that returned success put there.
THEOREM LogNewestWins ==
  ASSUME "truncate" \notin Kinds
  PROVE  Spec => []NewestWins
<1>1. AckCarries => NewestWins
  <2> SUFFICES ASSUME AckCarries, mode = "up", ~spoiled, NEW p \in Pos \ torn PROVE Read(p) = view[p]
    BY DEF NewestWins
  <2>1. Shown(p) /\ DOMAIN data = Bytes
    BY DEF AckCarries, AckInv, AckOK, LiveOK, AckTypes
  <2> QED BY <2>1, ShownRead
<1> QED BY <1>1, AckHolds, PTL

\* _slog_load on such a log: it enters the records in the order in which they
\* were reserved, the writers entered them in the order in which they finished,
\* and still every byte of a write that returned success comes back, wherever
\* the crash fell, if no other call was writing that byte at the same time.
THEOREM LogRecoversAcked ==
  ASSUME "truncate" \notin Kinds
  PROVE  Spec => []LoadRecoversAcked
<1>1. AckCarries => LoadRecoversAcked
  <2> SUFFICES ASSUME AckCarries, mode = "loading", load_i = log_size, ~spoiled, NEW p \in Pos \ (torn \cup raced)
               PROVE  Read(p) = view[p]
    BY DEF LoadRecoversAcked
  <2>1. Good
    BY DEF AckCarries, AckInv, Good
  <2>2. ~Busy(p)
    BY <2>1, Alone
  <2>3. CASE Read(p) = BaseAt(p) /\ BaseAt(p) = view[p]
    BY <2>3
  <2>4. CASE \E o \in Bytes : Found(p, o) /\ Read(p) = data[o]
    BY <2>2, <2>4 DEF Found
  <2> QED BY <2>1, <2>3, <2>4, LoadedReads
<1> QED BY <1>1, AckHolds, PTL
=============================================================================
