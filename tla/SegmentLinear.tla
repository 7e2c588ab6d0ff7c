----------------------------- MODULE SegmentLinear -----------------------------
(***************************************************************************)
(* segment_linear.c: a file laid end to end over a list of allocations,    *)
(* each at most MaxSlot long.  As in the LUN segment the lock covers the   *)
(* list and the I/O runs outside it.  A slot is where it starts and the    *)
(* bytes of its allocation; len is how many of them the segment uses.      *)
(***************************************************************************)
EXTENDS Integers, Sequences, FiniteSets, SequencesExt, FiniteSetsExt

CONSTANTS MaxSlot, NExcess, NVectors, NValues, NMaxSize,
          NTruncSizes,  \* arguments of truncate; a negative one reserves
          NCalls,       \* calls in progress at once
          MaxLinOps, MaxLinFaults

ASSUME LinAssumption == MaxSlot \in Nat \ {0} /\ NExcess \in Nat \ {0}

VARIABLES nslots, ntotal, nused, ncall, nreply, nundef, ncount
nvars == <<nslots, ntotal, nused, ncall, nreply, nundef, ncount>>

SlotEnd(b) == b.off + b.len - 1
SlotsOver(lo, hi) == SetToSortSeq({b \in nslots : b.off <= hi /\ SlotEnd(b) >= lo},
                                  LAMBDA a, b : a.off < b.off)
Zeroed(n) == [k \in 1..n |-> 0]
NewSlot(off, n) == [off |-> off, len |-> n, data |-> Zeroed(n)]
NoCall == [pc |-> "idle", kind |-> "none", iov |-> << >>, val |-> 0, maxpos |-> 0,
           ops |-> {}, raced |-> FALSE]

Longer(b, n) == [b EXCEPT !.len = n, !.data = @ \o Zeroed(Max({0, n - Len(@)}))]
NewSlots(lo, new) == {NewSlot(off, Min({MaxSlot, new - off})) :
                        off \in {o \in lo .. new - 1 : (o - lo) % MaxSlot = 0}}

LinGrow_Overlap(new, fail) ==
  LET last == IF ntotal = 0 THEN {} ELSE {SlotsOver(ntotal - 1, ntotal)[1]}
      full == {Longer(b, Min({new - b.off, MaxSlot})) : b \in last}
  IN [slots |-> (nslots \ last) \cup full \cup NewSlots(ntotal, new), total |-> new]

(* _sl_grow: the last allocation is made longer and new ones are asked     *)
(* for, at the same time; if either fails the list stays as it was, though *)
(* the allocation may be longer.                                           *)
LinGrow(new, fail) ==
  LET last == IF ntotal = 0 THEN {} ELSE {SlotsOver(ntotal - 1, ntotal)[1]}
      full == {IF b.len < MaxSlot THEN Longer(b, Min({new - b.off, MaxSlot})) ELSE b : b \in last}
      lo   == IF last = {} THEN ntotal ELSE SlotEnd(CHOOSE b \in full : TRUE) + 1
  IN IF fail
     THEN [slots |-> (nslots \ last) \cup {[b EXCEPT !.data = Longer(b, Min({new - b.off, MaxSlot})).data] : b \in last}, total |-> ntotal]
     ELSE [slots |-> (nslots \ last) \cup full \cup NewSlots(lo, new), total |-> new]

(* _sl_shrink: the first slot may be cut, the later ones go. *)
LinShrink(new) ==
  LET over == {b \in nslots : SlotEnd(b) >= new}
  IN [slots |-> (nslots \ over) \cup
                  {[b EXCEPT !.len = new - b.off, !.data = SubSeq(@, 1, Min({new - b.off, Len(@)}))]
                     : b \in {c \in over : c.off < new}},
      total |-> new]

(* A reservation of what is there already waits for nothing, a null call,  *)
(* if the last slot is full.                                               *)
NothingToWaitFor(arg) == /\ arg < 0 /\ -arg = ntotal
                         /\ ntotal > 0 => SlotsOver(ntotal - 1, ntotal)[1].len = MaxSlot

(* seglin_truncate_func.  Growing leaves the size in use as it is. *)
LinTruncate == \E arg \in NTruncSizes, fail \in BOOLEAN :
  LET new == IF arg < 0 THEN -arg ELSE arg
      t   == IF arg >= 0 /\ ntotal > arg THEN LinShrink(arg)
             ELSE IF ntotal < new THEN LinGrow(new, fail) ELSE [slots |-> nslots, total |-> ntotal]
  IN /\ ncount.ops < MaxLinOps
     /\ fail => ntotal < new /\ ncount.faults < MaxLinFaults
     /\ ncount' = [ops |-> ncount.ops + 1, faults |-> ncount.faults + IF fail THEN 1 ELSE 0]
     /\ nslots' = t.slots /\ ntotal' = t.total
     /\ nused' = IF arg >= 0 /\ ntotal > arg THEN arg ELSE nused
     /\ nundef' = \/ NothingToWaitFor(arg)
                  \/ \E s \in NCalls : \E c \in ncall[s].ops : ~\E b \in t.slots : b.off = c.off
     /\ ncall' = [s \in NCalls |-> [ncall[s] EXCEPT !.raced = @ \/ \E c \in ncall[s].ops : c.off + c.hi >= t.total]]
     /\ UNCHANGED nreply

-----------------------------------------------------------------------------
(* The allocations under each range, in order, with the bytes meant and    *)
(* the place in the buffer.                                                *)
LinParts(iov) ==
  LET one(j) == LET bs == SlotsOver(iov[j][1], iov[j][2])
                IN [k \in DOMAIN bs |->
                     [off |-> bs[k].off, more |-> k < Len(bs),
                      lo |-> IF iov[j][1] <= bs[k].off THEN 0 ELSE iov[j][1] - bs[k].off,
                      hi |-> IF iov[j][2] >= SlotEnd(bs[k]) THEN bs[k].len - 1 ELSE iov[j][2] - bs[k].off]]
  IN FlattenSeq([j \in DOMAIN iov |-> one(j)])

(* The commands that are run.  A queue is made at the first range that     *)
(* goes on to a second allocation; without one only the last command is    *)
(* waited for, and with one the commands before it are left out.           *)
LinOps(iov) ==
  LET ps    == LinParts(iov)
      queue == {k \in DOMAIN ps : ps[k].more}
      run   == IF queue = {} THEN {Len(ps)} \ {0} ELSE Min(queue) .. Len(ps)
      at(k) == FoldSeq(LAMBDA p, n : n + p.hi - p.lo + 1, 0, SubSeq(ps, 1, k - 1))
  IN {[off |-> ps[k].off, lo |-> ps[k].lo, hi |-> ps[k].hi, buf |-> at(k), n |-> k] : k \in run}

WantedBytes(iov) == FoldSeq(LAMBDA r, n : n + r[2] - r[1] + 1, 0, iov)
RunBytes(ops) == FoldSet(LAMBDA c, n : n + c.hi - c.lo + 1, 0, ops)

(* seglin_write_func grows the file first and does not look at how that    *)
(* went; seglin_read_func has no bounds check.                             *)
LinStart(s) == \E kind \in {"read", "write"}, iov \in NVectors, v \in NValues, fail \in BOOLEAN :
  LET maxpos == Max({iov[j][2] : j \in DOMAIN iov})
      grows  == kind = "write" /\ maxpos >= ntotal
      t      == IF grows THEN LinGrow(maxpos + NExcess, fail) ELSE [slots |-> nslots, total |-> ntotal]
  IN /\ ncall[s].pc = "idle" /\ ncount.ops < MaxLinOps
     /\ kind = "read" => v = Max(NValues)
     /\ fail => grows /\ ncount.faults < MaxLinFaults
     /\ ncount' = [ops |-> ncount.ops + 1, faults |-> ncount.faults + IF fail THEN 1 ELSE 0]
     /\ nslots' = t.slots /\ ntotal' = t.total
     /\ ncall' = [ncall EXCEPT ![s] = [NoCall EXCEPT !.pc = "bounded", !.kind = kind, !.iov = iov,
                                         !.val = v, !.maxpos = maxpos]]
     /\ UNCHANGED <<nused, nreply, nundef>>

(* seglin_write_op and the first half of seglin_read_func. *)
LinSubmit(s) ==
  /\ ncall[s].pc = "bounded"
  /\ ncall' = [ncall EXCEPT ![s].pc = "submitted", ![s].ops = LinOps(ncall[s].iov)]
  /\ UNCHANGED <<nslots, ntotal, nused, nreply, nundef, ncount>>

SlotAt(off) == CHOOSE b \in nslots : b.off = off
LinStamp(v, k) == 16 * v + k
PutBytes(b, ops, v) ==
  [b EXCEPT !.data = [k \in DOMAIN @ |->
     LET c == {d \in ops : d.off = b.off /\ d.lo <= k - 1 /\ k - 1 <= d.hi}
         d == CHOOSE e \in c : \A f \in c : f.n <= e.n
     IN IF c = {} THEN @[k] ELSE LinStamp(v, d.buf + k - d.lo)]]

(* The commands run.  The read reports success whatever they say and the   *)
(* write whether those that were run succeeded; the reply is sure only if  *)
(* all that was asked for was run, and succeeded.                          *)
LinRun(s) == \E fail \in BOOLEAN :
  LET io    == ncall[s]
      short == {c \in io.ops : Len(SlotAt(c.off).data) <= c.hi}
      all   == RunBytes(io.ops) = WantedBytes(io.iov)
      bytes == UNION {{<<c.buf + k - c.lo + 1, SlotAt(c.off).data[k + 1]>> : k \in c.lo .. c.hi} : c \in io.ops}
      sure  == ~fail /\ short = {} /\ all /\ ~io.raced
  IN /\ io.pc = "submitted"
     /\ fail => ncount.faults < MaxLinFaults
     /\ ncount' = [ncount EXCEPT !.faults = @ + IF fail THEN 1 ELSE 0]
     /\ nslots' = IF io.kind = "read" THEN nslots
                  ELSE {PutBytes(b, IF fail THEN {} ELSE io.ops \ short, io.val) : b \in nslots}
     /\ nreply' = [op |-> io.kind, sure |-> sure,
                   got |-> IF io.kind = "read" /\ sure
                           THEN [k \in 1..WantedBytes(io.iov) |-> (CHOOSE b \in bytes : b[1] = k)[2]]
                           ELSE << >>]
     /\ ncall' = [ncall EXCEPT ![s].pc = "ran", ![s].ops = {}]
     /\ UNCHANGED <<ntotal, nused, nundef>>

(* The end of seglin_write_func. *)
LinFinish(s) ==
  /\ ncall[s].pc = "ran"
  /\ nused' = IF ncall[s].kind = "write" /\ nused <= ncall[s].maxpos THEN ncall[s].maxpos + 1 ELSE nused
  /\ ncall' = [ncall EXCEPT ![s] = NoCall]
  /\ UNCHANGED <<nslots, ntotal, nreply, nundef, ncount>>

(* seglin_inspect_op and _seglin_probe_cb: is every allocation as long as  *)
(* the segment takes it to be?                                             *)
LinInspect ==
  /\ ncount.ops < MaxLinOps
  /\ ncount' = [ncount EXCEPT !.ops = @ + 1]
  /\ nreply' = [op |-> "inspect", sure |-> \A b \in nslots : Len(b.data) >= b.len, got |-> << >>]
  /\ UNCHANGED <<nslots, ntotal, nused, ncall, nundef>>

LinInit == /\ ntotal \in 0..NMaxSize
           /\ nslots = NewSlots(0, ntotal)
           /\ nused = 0
           /\ ncall = [s \in NCalls |-> NoCall]
           /\ nreply = [op |-> "none", sure |-> TRUE, got |-> << >>]
           /\ nundef = FALSE
           /\ ncount = [ops |-> 0, faults |-> 0]

LinNext == /\ ~nundef
           /\ \/ LinTruncate \/ LinInspect
              \/ \E s \in NCalls : LinStart(s) \/ LinSubmit(s) \/ LinRun(s) \/ LinFinish(s)

LinContent == [p \in 1..ntotal |->
                 LET b == CHOOSE c \in nslots : c.off <= p - 1 /\ p - 1 <= SlotEnd(c)
                 IN b.data[p - b.off]]

NFlat == INSTANCE FlatFile WITH content <- LinContent, reply <- nreply,
           Vectors <- NVectors, Values <- NValues, MaxSize <- NMaxSize

(* The linear segment is a flat file: growing the last allocation, adding  *)
(* and cutting ones and calls that race keep every byte where it is, and a *)
(* call that ran all it was asked for read or wrote exactly the bytes it   *)
(* names (_sl_grow, _sl_shrink, seglin_write_op, seglin_read_func).        *)
LinIsFlat == NFlat!FlatSpec
=============================================================================
