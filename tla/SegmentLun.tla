------------------------------ MODULE SegmentLun -------------------------------
(***************************************************************************)
(* segment_lun.c: a file striped over the devices of a list of rows.  A    *)
(* row holds one allocation per device; chunk by chunk the bytes of the    *)
(* row go round the devices, shifted by n_shift from stripe to stripe.     *)
(* The segment's lock covers the row list; the I/O on the allocations runs *)
(* outside it.  An allocation is the sequence of its bytes, empty if the   *)
(* depot does not answer for it.  Which resource an allocation lives on is *)
(* the resource service's matter: placement, blacklisting and depot        *)
(* failures are choices of the environment, from the sets given.           *)
(***************************************************************************)
EXTENDS Integers, Sequences, FiniteSets, SequencesExt, FiniteSetsExt

CONSTANTS NDev, Chunk, MaxBlock, Shift, Excess,
          LSlots,       \* calls in progress at once
          Vectors, Values, MaxSize,
          StartSizes,   \* sizes the file may have at first
          TruncSizes,   \* arguments of truncate; a negative one reserves
          BadDevs,      \* sets of devices that fail one step
          Placements,   \* what the placement check may say of the devices
          LunModes,     \* inspection options
          MaxLunOps, MaxLunFaults, MaxRemaps

ASSUME LunAssumption == /\ {NDev, Chunk, MaxBlock} \subseteq Nat \ {0}
                        /\ MaxBlock % Chunk = 0 /\ Shift \in Nat /\ Excess \in Nat \ {0}

VARIABLES lrows, ltotal, lused, lio, lmap, lreply, lhist, lcount
lvars == <<lrows, ltotal, lused, lio, lmap, lreply, lhist, lcount>>

LunDevs == 0 .. NDev - 1
Stripe == NDev * Chunk
MaxRow == NDev * MaxBlock
Zeros(n) == [k \in 1..n |-> 0]
LLost == -1
LStamp(v, k) == 16 * v + k

RowLen(r) == NDev * r.blen
SegEnd(r) == r.off + RowLen(r) - 1
Overlapping(lo, hi) == {r \in lrows : r.off <= hi /\ SegEnd(r) >= lo}
InOrder(rows) == SetToSortSeq(rows, LAMBDA a, b : a.off < b.off)
Block(bytes) == [data |-> bytes, err |-> {}]
NewRow(off, blen) == [off |-> off, blen |-> blen, blk |-> [i \in LunDevs |-> Block(Zeros(blen))]]

NoIo == [pc |-> "idle", kind |-> "none", iov |-> << >>, val |-> 0, skip |-> {},
         maxpos |-> 0, cmds |-> {}, raced |-> FALSE, old |-> FALSE]

RoundUp(n) == IF n % Stripe > 0 THEN (n \div Stripe) * Stripe + Stripe ELSE n

-----------------------------------------------------------------------------
(* Checks and fixes of a row.  A status is 0 (good), 1 (missing), 2 (made  *)
(* longer, to be padded), -2 (could not be made longer), 3 (not padded).   *)

(* slun_row_size_check: short allocations are lengthened, in any mode. *)
RowSizeCheck(r, bad) ==
  [i \in LunDevs |-> LET n == Len(r.blk[i].data) IN
     IF n >= r.blen THEN 0 ELSE IF n = 0 THEN 1 ELSE IF i \in bad THEN -2 ELSE 2]
Lengthened(r, st) ==
  [r EXCEPT !.blk = [i \in LunDevs |-> IF st[i] = 2
     THEN [@[i] EXCEPT !.data = @ \o Zeros(r.blen - Len(@))] ELSE @[i]]]
(* Its count leaves out the ones it lengthened. *)
SizeLost_Size(st) == Cardinality({i \in LunDevs : st[i] = -2})
SizeLost(st) == Cardinality({i \in LunDevs : st[i] \in {1, -2}})

RowPadFix(st, bad) ==
  [i \in LunDevs |-> IF st[i] = -2 \/ (st[i] = 2 /\ i \in bad) THEN 3
                  ELSE IF st[i] = 2 THEN 0 ELSE st[i]]
Unpadded(st) == Cardinality({i \in LunDevs : st[i] = 3})
Flagged(st) == {i \in LunDevs : st[i] # 0}

(* slun_row_replace_fix: every flagged block becomes a new one; the ones   *)
(* no allocation is found for stay without, and flagged.                   *)
RowReplaceFix(r, st, bad) ==
  [r EXCEPT !.blk = [i \in LunDevs |-> IF st[i] = 0 THEN @[i]
                       ELSE IF i \in bad THEN Block(<< >>) ELSE Block(Zeros(r.blen))]]
AfterFix(st, bad) == [i \in LunDevs |-> IF i \in bad THEN st[i] ELSE 0]

(* slun_row_placement_fix: a flagged block is copied to a new allocation,  *)
(* which takes its place if the copy succeeds.                             *)
CopyFails(r, bad) == bad \cup {i \in LunDevs : Len(r.blk[i].data) < r.blen}
RowPlacementFix(r, st, bad) ==
  [r EXCEPT !.blk = [i \in LunDevs |-> IF st[i] = 0 \/ i \in CopyFails(r, bad) THEN @[i]
                       ELSE [@[i] EXCEPT !.data = SubSeq(@, 1, r.blen)]]]

-----------------------------------------------------------------------------
(* Truncation. *)

LastRow == InOrder(Overlapping(ltotal - 1, ltotal))[1]

(* The last row is made longer, up to a full one; if an allocation that    *)
(* was lengthened cannot be padded the row keeps its old length.           *)
GrowLast(b, new, bad) ==
  LET d    == (new - b.off) \div NDev
      blen == Min({d + (d % Chunk), MaxBlock})
      long == [b EXCEPT !.blen = blen]
      st   == RowSizeCheck(long, bad)
      pad  == RowPadFix(st, bad)
      r    == Lengthened(long, st)
  IN IF (\E i \in LunDevs : st[i] = 2) /\ Unpadded(pad) > 0 THEN [r EXCEPT !.blen = b.blen] ELSE r

(* The rows a grow adds from lo on. *)
NewRows(lo, new) ==
  {NewRow(off, Min({MaxRow, new - off}) \div NDev) :
     off \in {o \in lo .. new - 1 : (o - lo) % MaxRow = 0}}

(* _seglun_grow.  A row that gets no allocations ends it: the rows before  *)
(* stay in the list although the size does not change.                     *)
Grow(arg, bad, fail) ==
  LET new  == RoundUp(IF arg < 0 THEN -arg ELSE arg)
      old  == IF ltotal = 0 THEN {} ELSE {LastRow}
      last == {IF RowLen(b) < MaxRow THEN GrowLast(b, new, bad) ELSE b : b \in old}
      lo   == IF old = {} THEN 0 ELSE SegEnd(CHOOSE b \in last : TRUE) + 1
      add  == NewRows(lo, new)
      kept == IF fail THEN {r \in add : \E q \in add : q.off > r.off} ELSE add
      done == ~fail \/ add = {}
  IN [rows  |-> (lrows \ old) \cup last \cup kept,
      total |-> IF done THEN new ELSE ltotal,
      used  |-> IF done /\ arg >= 0 THEN new ELSE lused,
      half  |-> ~done /\ kept # {}, ok |-> done]

(* _seglun_shrink: the first row may be cut, the later ones go. *)
Shrink(arg) ==
  LET new  == RoundUp(arg)
      over == Overlapping(new, ltotal)
      cut  == {r \in over : r.off < new}
  IN [rows  |-> (lrows \ over) \cup
                  {LET n == (new - r.off) \div NDev
                   IN [r EXCEPT !.blen = n,
                         !.blk = [i \in LunDevs |-> [@[i] EXCEPT !.data = SubSeq(@, 1, Min({n, Len(@)}))]]]
                     : r \in cut},
      total |-> new, used |-> new, half |-> FALSE, ok |-> TRUE]

(* _slun_truncate *)
Truncated(arg, bad, fail) ==
  LET same == [rows |-> lrows, total |-> ltotal, used |-> lused, half |-> FALSE, ok |-> TRUE]
  IN CASE arg < 0 /\ -arg < ltotal -> same
       [] arg >= 0 /\ ltotal > arg -> Shrink(arg)
       [] arg = ltotal             -> same
       [] OTHER                    -> Grow(arg, bad, fail)

(* A row that goes while a call's commands run on its allocations leaves   *)
(* them with freed blocks.                                                 *)
Resized(t) ==
  /\ lrows' = t.rows /\ ltotal' = t.total /\ lused' = t.used
  /\ lhist' = [lhist EXCEPT !.half = @ \/ t.half,
        !.undef = @ \/ \E s \in LSlots : \E c \in lio[s].cmds :
                         /\ lio[s].pc = "submitted"
                         /\ ~\E r \in t.rows : r.off = c.off]

(* The calls whose commands run on rows that change under them; if the     *)
(* blocks are replaced they go on with the old ones.                       *)
Racing(rows, replaced) == [s \in LSlots |->
  IF lio[s].pc = "submitted" /\ \E c \in lio[s].cmds : c.off \in rows
  THEN [lio[s] EXCEPT !.raced = TRUE, !.old = @ \/ replaced] ELSE lio[s]]

(* seglun_truncate_func *)
LunTruncate == \E arg \in TruncSizes, bad \in BadDevs, fail \in BOOLEAN :
  /\ lcount.ops < MaxLunOps
  /\ LET n == (IF bad # {} THEN 1 ELSE 0) + (IF fail THEN 1 ELSE 0) IN
     /\ lcount.faults + n <= MaxLunFaults
     /\ lcount' = [lcount EXCEPT !.ops = @ + 1, !.faults = @ + n]
  /\ Resized(Truncated(arg, bad, fail))
  /\ lio' = Racing({r.off : r \in {q \in lrows : SegEnd(q) >= ltotal'}}, FALSE)
  /\ UNCHANGED <<lmap, lreply>>

-----------------------------------------------------------------------------
(* Reads and writes. *)

ChunkOff(i, ss) == ss * Stripe + ((i + ss * Shift) % NDev) * Chunk
Touched(i, lo, hi) == {ss \in lo \div Stripe .. hi \div Stripe :
                         ChunkOff(i, ss) + Chunk - 1 >= lo /\ ChunkOff(i, ss) <= hi}
Begin(i, ss, lo) == IF ChunkOff(i, ss) < lo THEN lo - ChunkOff(i, ss) ELSE 0
End(i, ss, hi) == IF ChunkOff(i, ss) + Chunk - 1 > hi THEN hi - ChunkOff(i, ss) ELSE Chunk - 1

RowDecompose_ChunkStart(i, lo, hi, bpos) ==
  LET used   == SetToSortSeq(Touched(i, lo, hi), <)
      piece(ss) == [k \in 1 .. End(i, ss, hi) - Begin(i, ss, lo) + 1 |->
                      bpos + ChunkOff(i, ss) + Begin(i, ss, lo) - lo + k - 1]
      buf    == FlattenSeq([j \in DOMAIN used |-> piece(used[j])])
  IN IF used = << >> THEN << >>
     ELSE [o \in used[1] * Chunk .. used[1] * Chunk + Len(buf) - 1 |-> buf[o - used[1] * Chunk + 1]]

(* lun_row_decompose: the bytes lo..hi of a row that device i holds, as    *)
(* one extent of the allocation: its offsets, each with the place in the   *)
(* caller's buffer, where the row's part starts at bpos.                   *)
RowDecompose(i, lo, hi, bpos) ==
  LET used   == SetToSortSeq(Touched(i, lo, hi), <)
      piece(ss) == [k \in 1 .. End(i, ss, hi) - Begin(i, ss, lo) + 1 |->
                      bpos + ChunkOff(i, ss) + Begin(i, ss, lo) - lo + k - 1]
      buf    == FlattenSeq([j \in DOMAIN used |-> piece(used[j])])
      offset == used[1] * Chunk + Begin(i, used[1], lo)
  IN IF used = << >> THEN << >>
     ELSE [o \in offset .. offset + Len(buf) - 1 |-> buf[o - offset + 1]]

(* The rows under each range of the vector, in order, with the part of the *)
(* row that is meant and where the part starts in the buffer.              *)
Parts(iov) ==
  LET one(j) == LET rs == InOrder(Overlapping(iov[j][1], iov[j][2]))
                IN [k \in DOMAIN rs |->
                      LET lo == IF iov[j][1] <= rs[k].off THEN 0 ELSE iov[j][1] - rs[k].off
                          hi == IF iov[j][2] >= SegEnd(rs[k]) THEN RowLen(rs[k]) - 1
                                ELSE iov[j][2] - rs[k].off
                      IN [off |-> rs[k].off, lo |-> lo, hi |-> hi]]
  IN FlattenSeq([j \in DOMAIN iov |-> one(j)])
BufPos(ps, k) == FoldSeq(LAMBDA p, n : n + p.hi - p.lo + 1, 0, SubSeq(ps, 1, k - 1))

(* One command per row and device, the extents of several ranges together. *)
Commands(iov) ==
  LET ps == Parts(iov)
      of(off, i) == FoldLeft(LAMBDA f, k : RowDecompose(i, ps[k].lo, ps[k].hi, BufPos(ps, k)) @@ f,
                             << >>, SetToSortSeq({k \in DOMAIN ps : ps[k].off = off}, <))
  IN {c \in {[off |-> ps[k].off, dev |-> i, map |-> of(ps[k].off, i)] : k \in DOMAIN ps, i \in LunDevs} :
        DOMAIN c.map # {}}

(* seglun_rw_func, the bounds check: a write past the end grows the file,  *)
(* a read there fails.                                                     *)
LunStart(s) == \E kind \in {"read", "write"}, iov \in Vectors, v \in Values,
                  bad \in BadDevs, fail \in BOOLEAN, skip \in BadDevs :
  LET maxpos == Max({iov[j][2] : j \in DOMAIN iov})
      past   == maxpos >= ltotal
      grows  == past /\ kind = "write"
      t      == Truncated(maxpos + NDev * Excess, bad, fail)
      n      == (IF bad # {} THEN 1 ELSE 0) + (IF fail THEN 1 ELSE 0) + Cardinality(skip)
  IN /\ lio[s].pc = "idle" /\ lcount.ops < MaxLunOps
     /\ kind = "read" => v = Max(Values)
     /\ ~grows => bad = {} /\ ~fail
     /\ lcount.faults + n <= MaxLunFaults
     /\ lcount' = [lcount EXCEPT !.ops = @ + 1, !.faults = @ + n]
     /\ IF grows THEN Resized(t) ELSE UNCHANGED <<lrows, ltotal, lused, lhist>>
     /\ lio' = IF past /\ ~(grows /\ t.ok) THEN lio
               ELSE [lio EXCEPT ![s] = [NoIo EXCEPT !.pc = "bounded", !.kind = kind, !.iov = iov,
                                         !.val = v, !.maxpos = maxpos, !.skip = skip]]
     /\ UNCHANGED <<lmap, lreply>>

InProgress == {s \in LSlots : lio[s].pc \in {"submitted", "ran"}}

(* seglun_rw_op under the lock: a changed resource map is taken over once  *)
(* no call is in progress, then the commands are put together.  More bytes *)
(* than the buffer has, from rows that overlap, run past its end; fewer,   *)
(* after a cut since the bounds check, shift the rest and go unnoticed.    *)
LunSubmit(s) ==
  /\ lio[s].pc = "bounded"
  /\ lmap.seen # lmap.now => InProgress = {}
  /\ lmap' = [lmap EXCEPT !.seen = lmap.now]
  /\ LET cmds == Commands(lio[s].iov)
         ps   == Parts(lio[s].iov)
         want == FoldSeq(LAMBDA r, n : n + r[2] - r[1] + 1, 0, lio[s].iov)
     IN /\ lio' = [lio EXCEPT ![s].pc = "submitted", ![s].cmds = cmds,
                             ![s].raced = lio[s].maxpos >= ltotal]
        /\ lhist' = [lhist EXCEPT !.undef = @ \/ BufPos(ps, Len(ps) + 1) > want]
  /\ UNCHANGED <<lrows, ltotal, lused, lreply, lcount>>

RowAt(off) == CHOOSE r \in lrows : r.off = off
(* A command fails on a device that fails or is skipped as blacklisted,    *)
(* and on an allocation that does not reach that far.                      *)
CmdFails(c, bad) == \/ c.dev \in bad
                    \/ \E o \in DOMAIN c.map : o >= Len(RowAt(c.off).blk[c.dev].data)

LunStored(r, cmds, v) ==
  [r EXCEPT !.blk = [i \in LunDevs |->
     [@[i] EXCEPT !.data = [k \in DOMAIN @ |->
        LET c == {d \in cmds : d.off = r.off /\ d.dev = i /\ k - 1 \in DOMAIN d.map}
        IN IF c = {} THEN @[k] ELSE LStamp(v, (CHOOSE d \in c : TRUE).map[k - 1] + 1)]]]]
WithErrors(r, failed, kind) ==
  [r EXCEPT !.blk = [i \in LunDevs |->
     IF \E c \in failed : c.off = r.off /\ c.dev = i THEN [@[i] EXCEPT !.err = @ \cup {kind}] ELSE @[i]]]

(* The commands run on the allocations, outside the lock.  A call whose    *)
(* blocks an inspection replaced meanwhile still works on the old ones.    *)
LunRun(s) == \E bad \in BadDevs :
  LET io     == lio[s]
      failed == {c \in io.cmds : CmdFails(c, bad \cup io.skip)}
      good   == IF io.old THEN {} ELSE io.cmds \ failed
      ok     == failed = {} /\ io.cmds # {}
      bytes  == UNION {{<<c.map[o], RowAt(c.off).blk[c.dev].data[o + 1]>> : o \in DOMAIN c.map}
                         : c \in io.cmds}
  IN /\ io.pc = "submitted"
     /\ lcount.faults + Cardinality(bad) <= MaxLunFaults
     /\ lcount' = [lcount EXCEPT !.faults = @ + Cardinality(bad)]
     /\ lrows' = {WithErrors(IF io.kind = "write" THEN LunStored(r, good, io.val) ELSE r, failed, io.kind)
                    : r \in lrows}
     /\ lreply' = [op |-> io.kind, sure |-> ok /\ ~io.raced,
                   got |-> IF io.kind = "read" /\ ok
                           THEN [k \in 1..Cardinality(bytes) |-> (CHOOSE b \in bytes : b[1] = k - 1)[2]]
                           ELSE << >>]
     /\ lio' = [lio EXCEPT ![s].pc = "ran", ![s].cmds = {}]
     /\ UNCHANGED <<ltotal, lused, lmap, lhist>>

(* The end of seglun_rw_op and seglun_rw_func: a write raises the size in  *)
(* use, whether it worked or not.                                          *)
LunFinish(s) ==
  /\ lio[s].pc = "ran"
  /\ lused' = IF lio[s].kind = "write" /\ lused <= lio[s].maxpos THEN lio[s].maxpos + 1 ELSE lused
  /\ lhist' = [lhist EXCEPT !.cut = @ \/ lio[s].maxpos >= ltotal]
  /\ lio' = [lio EXCEPT ![s] = NoIo]
  /\ UNCHANGED <<lrows, ltotal, lmap, lreply, lcount>>

-----------------------------------------------------------------------------
(* Inspection, migration, reload. *)

(* Blocks with recorded errors count as bad if the option says so; the     *)
(* code adds 4 for reads and 8 for writes.                                 *)
WithErrorStatus(r, st, flags) ==
  [i \in LunDevs |-> st[i] + (IF "read" \in r.blk[i].err \cap flags THEN 4 ELSE 0)
                        + (IF "write" \in r.blk[i].err \cap flags THEN 8 ELSE 0)]

(* slun_row_placement_check: a soft failure is flagged but not counted     *)
(* unless the caller asks; "shuffle" is a block a rebalance wants moved.   *)
PlacementStatus(pl) == [i \in LunDevs |-> CASE pl[i] = "ok" -> 0 [] pl[i] = "shuffle" -> -103 [] OTHER -> -100]
PlacementBad(pl, flags) ==
  Cardinality({i \in LunDevs : pl[i] \in {"bad", "shuffle"} \/ (pl[i] = "soft" /\ "softfail" \in flags)})

(* The body of seglun_inspect_func for one row: the row afterwards, what   *)
(* is still owed and whether its blocks were changed.                      *)
InspectRow(r, flags, bad, pl) ==
  LET repair == "repair" \in flags
      st1  == RowSizeCheck(r, bad)
      r1   == Lengthened(r, st1)
      st2  == WithErrorStatus(r1, st1, flags)
      lost == SizeLost(st1) + Cardinality({i \in LunDevs : st1[i] = 0 /\ st2[i] # 0})
      fix  == repair /\ lost > 0
      st3  == IF fix THEN RowPadFix(st2, bad) ELSE st2
      r2   == IF fix THEN RowReplaceFix(r1, st3, bad) ELSE r1
      st4  == IF fix THEN AfterFix(st3, bad) ELSE st2
      owed1 == IF fix THEN Cardinality(Flagged(st3) \cap bad) ELSE lost
      pst  == PlacementStatus(pl)
      nbad == PlacementBad(pl, flags)
      move == repair /\ nbad > 0
      cf   == CopyFails(r2, bad)
      left == Flagged(pst) \cap cf
      moved == nbad - Cardinality(left)
      shuf == Cardinality({i \in left : pst[i] = -103})
  IN IF Flagged(st4) # {} THEN [row |-> r2, owed |-> owed1, touched |-> fix]
     ELSE IF ~move THEN [row |-> r2, owed |-> owed1 + nbad, touched |-> fix]
     ELSE IF "force" \in flags
          THEN [row |-> RowReplaceFix(r2, pst, bad),
                owed |-> owed1 + Cardinality(Flagged(pst) \cap bad), touched |-> TRUE]
          ELSE [row |-> RowPlacementFix(r2, pst, bad), owed |-> owed1 + nbad - shuf - moved, touched |-> TRUE]

(* seglun_inspect_func: all rows under the lock. *)
LunInspect == \E flags \in LunModes, bad \in BadDevs, pl \in Placements :
  LET done == [r \in lrows |-> InspectRow(r, flags, bad, pl)]
  IN /\ lcount.ops < MaxLunOps
     /\ lcount.faults + Cardinality(bad) <= MaxLunFaults
     /\ lcount' = [lcount EXCEPT !.ops = @ + 1, !.faults = @ + Cardinality(bad)]
     /\ lrows' = {done[r].row : r \in lrows}
     /\ lio' = Racing({r.off : r \in {q \in lrows : done[q].touched}}, TRUE)
     /\ lreply' = [op |-> IF flags \cap {"force", "read", "write"} # {} THEN "rebuild" ELSE "inspect",
                   sure |-> /\ FoldSet(LAMBDA r, n : n + done[r].owed, 0, lrows) = 0
                            /\ "repair" \in flags,
                   got |-> << >>]
     /\ UNCHANGED <<ltotal, lused, lmap, lhist>>

(* seglun_migrate_func: the flagged blocks of each row are moved. *)
LunMigrate == \E bad \in BadDevs, pl \in Placements :
  /\ lcount.ops < MaxLunOps /\ PlacementBad(pl, {}) > 0
  /\ lcount.faults + Cardinality(bad) <= MaxLunFaults
  /\ lcount' = [lcount EXCEPT !.ops = @ + 1, !.faults = @ + Cardinality(bad)]
  /\ lrows' = {RowPlacementFix(r, PlacementStatus(pl), bad) : r \in lrows}
  /\ lio' = Racing({r.off : r \in lrows}, TRUE)
  /\ UNCHANGED <<ltotal, lused, lmap, lreply, lhist>>

(* seglun_serialize and seglun_deserialize: the row list comes back from   *)
(* the exnode, the error counts do not, and the size in use is cut.        *)
LunReload ==
  /\ \A s \in LSlots : lio[s].pc = "idle"
  /\ lrows' = {[r EXCEPT !.blk = [i \in LunDevs |-> Block(@[i].data)]] : r \in lrows}
  /\ lused' = Min({lused, ltotal})
  /\ lhist' = [lhist EXCEPT !.cut = FALSE]
  /\ lmap' = [lmap EXCEPT !.seen = -1]
  /\ UNCHANGED <<ltotal, lio, lreply, lcount>>

-----------------------------------------------------------------------------
(* The environment: an allocation is lost, the resource map changes. *)
LunLose == \E r \in lrows, i \in LunDevs :
  /\ lcount.faults < MaxLunFaults
  /\ lcount' = [lcount EXCEPT !.faults = @ + 1]
  /\ lrows' = (lrows \ {r}) \cup {[r EXCEPT !.blk[i].data = << >>]}
  /\ UNCHANGED <<ltotal, lused, lio, lmap, lreply, lhist>>

MapChange == /\ lmap.now < MaxRemaps
             /\ lmap' = [lmap EXCEPT !.now = @ + 1]
             /\ UNCHANGED <<lrows, ltotal, lused, lio, lreply, lhist, lcount>>

(* A new segment, or one that has been grown before. *)
LunInit == /\ ltotal \in {RoundUp(n) : n \in StartSizes}
           /\ lrows = NewRows(0, ltotal)
           /\ lused = ltotal
           /\ lio = [s \in LSlots |-> NoIo]
           /\ lmap = [seen |-> -1, now |-> 0]
           /\ lreply = [op |-> "none", sure |-> TRUE, got |-> << >>]
           /\ lhist = [half |-> FALSE, undef |-> FALSE, cut |-> FALSE]
           /\ lcount = [ops |-> 0, faults |-> 0]

LunNext == /\ ~lhist.undef
           /\ \/ LunTruncate \/ LunInspect \/ LunMigrate \/ LunReload \/ LunLose \/ MapChange
              \/ \E s \in LSlots : LunStart(s) \/ LunSubmit(s) \/ LunRun(s) \/ LunFinish(s)

-----------------------------------------------------------------------------
(* The byte at offset p by the striping rule itself: chunk c of stripe ss  *)
(* is on the device whose index, shifted by ss * n_shift, is c.            *)
ByteAt(p) ==
  LET r  == CHOOSE q \in lrows : q.off <= p /\ p <= SegEnd(q)
      q  == p - r.off
      ss == q \div Stripe
      b  == r.blk[((q % Stripe) \div Chunk - ss * Shift) % NDev].data
      o  == ss * Chunk + (q % Chunk)
  IN IF o < Len(b) THEN b[o + 1] ELSE LLost
LunContent == [p \in 1..ltotal |-> ByteAt(p - 1)]

Flat == INSTANCE FlatFile WITH content <- LunContent, reply <- lreply

(* The LUN segment is a flat file: whatever the striping, the growth of    *)
(* the last row, moved, lost and replaced allocations and racing calls,    *)
(* a successful read returns and a successful write changes exactly the    *)
(* bytes it names (lun_row_decompose, seglun_rw_op, _seglun_grow,          *)
(* _seglun_shrink, seglun_inspect_func).                                   *)
LunIsFlat == Flat!FlatSpec

(* An inspection that repairs and reports success leaves every row whole:  *)
(* its sum of lost, repaired, flagged and migrated blocks comes to zero    *)
(* for no other reason (seglun_inspect_func).                              *)
RepairWhole == [][(lreply'.op \in {"inspect", "rebuild"} /\ lreply'.sure /\ lreply' # lreply)
                   => \A r \in lrows' : \A i \in LunDevs : Len(r.blk[i].data) >= r.blen]_lvars
=============================================================================
