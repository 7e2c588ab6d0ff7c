------------------------------ MODULE CachePpages ------------------------------
(***************************************************************************)
(* Partial pages of the cache segment (segment_cache.c): writes that do    *)
(* not cover a page are collected in a few buffers, with the ranges of     *)
(* each page that were written, and go to the page cache when the page is  *)
(* complete, when the buffers run out, or when a read needs what they do   *)
(* not hold.  A flush takes the pages out of the table and writes them     *)
(* without the cache's lock; ppages_flushing keeps everyone else away.     *)
(*                                                                         *)
(* Abstracted: what is below, the page cache and its child, is one array   *)
(* of bytes that a call reads or writes in one step (SegmentCache shows    *)
(* how); a call has one range; a byte is the number of the write it comes  *)
(* from.                                                                   *)
(***************************************************************************)
EXTENDS Integers, Sequences, FiniteSets, SequencesExt

CONSTANTS
  PpSize,       \* page_size
  PpCount,      \* n_ppages
  PpBytes,      \* bound: bytes of the file
  PpRanges,     \* ranges <<lo, hi>> of reads and writes
  PpCuts,       \* sizes to truncate to
  PpCalls,      \* calls at work at once
  MaxPpOps      \* bound: calls made

(* With one buffer a write that needs one flushes for a second forever.    *)
ASSUME PpagesAssumption ==
  /\ PpSize \in Nat \ {0} /\ PpCount \in Nat \ {0, 1} /\ PpBytes % PpSize = 0
  /\ PpCuts \subseteq 0 .. PpBytes /\ IsFiniteSet(PpCalls) /\ MaxPpOps \in Nat
  /\ \A r \in PpRanges : 0 <= r[1] /\ r[1] <= r[2] /\ r[2] < PpBytes

VARIABLES
  pps,       \* partial_pages: the ranges, data and flags of each page
  flushing,  \* ppages_flushing
  ppmax,     \* ppage_max: the last byte in a partial page
  ptotal,    \* total_size
  pfile,     \* the bytes in the pages of the cache and in the child
  pcall,     \* the calls
  pops,      \* how many were made
  pknow      \* history: what the callers may take for granted

ppvars == <<pps, flushing, ppmax, ptotal, pfile, pcall, pops, pknow>>

FileBytes == 0 .. PpBytes - 1
PageNos == 0 .. (PpBytes \div PpSize) - 1
PageOf(b) == b \div PpSize
InPage(b) == b % PpSize
LargerOf(a, b) == IF a > b THEN a ELSE b
SmallerOf(a, b) == IF a < b THEN a ELSE b

Stale == -1     \* what is left in a buffer
Unmapped == [rngs |-> <<>>, full |-> FALSE, data |-> [o \in 0 .. PpSize - 1 |-> Stale]]
Used(t) == {p \in PageNos : t[p] # Unmapped}

-----------------------------------------------------------------------------
(* Ranges of a page, in order.                                             *)

WholePage(rs) == Len(rs) = 1 /\ rs[1] = <<0, PpSize - 1>>

(* _cache_ppages_range_collapse: range k was extended and takes in the     *)
(* ones it reaches now.                                                    *)
Reached(rs, k) == {j \in k + 1 .. Len(rs) : rs[j][1] <= rs[k][2] + 1}
Collapse(rs, k) ==
  LET n == k + Cardinality(Reached(rs, k))
  IN  SubSeq(rs, 1, k - 1) \o << <<rs[k][1], LargerOf(rs[k][2], rs[n][2])>> >> \o SubSeq(rs, n + 1, Len(rs))

(* _cache_ppages_range_merge.  That a page is complete goes unnoticed when *)
(* a range is extended downwards only.                                     *)
Merge(pg, lo, hi) ==
  LET rs == pg.rngs
      k  == 1 + Cardinality({j \in DOMAIN rs : rs[j][1] < lo})
      With(new, checked) == [pg EXCEPT !.rngs = new, !.full = @ \/ (checked /\ WholePage(new))]
  IN  IF rs = <<>> THEN IF lo = 0 /\ hi = PpSize - 1 THEN [pg EXCEPT !.full = TRUE]
                                                     ELSE With(<< <<lo, hi>> >>, FALSE)
      ELSE IF k > 1 /\ lo <= rs[k - 1][2] + 1
      THEN IF rs[k - 1][2] < hi THEN With(Collapse([rs EXCEPT ![k - 1][2] = hi], k - 1), TRUE) ELSE pg
      ELSE IF k <= Len(rs) /\ rs[k][1] <= hi + 1
      THEN IF rs[k][2] < hi THEN With(Collapse([rs EXCEPT ![k] = <<lo, hi>>], k), TRUE)
                            ELSE With([rs EXCEPT ![k][1] = lo], FALSE)
      ELSE With(InsertAt(rs, k, <<lo, hi>>), FALSE)

(* The part of a call's range that is in page p is copied and entered.     *)
Store(pg, p, lo, hi, v) ==
  LET l == LargerOf(lo - p * PpSize, 0)
      h == SmallerOf(hi - p * PpSize, PpSize - 1)
  IN  Merge([pg EXCEPT !.data = [o \in DOMAIN @ |-> IF l <= o /\ o <= h THEN v ELSE @[o]]], l, h)

(* The bytes a partial page holds.                                         *)
HeldIn(pg, o) == pg.full \/ \E j \in DOMAIN pg.rngs : pg.rngs[j][1] <= o /\ o <= pg.rngs[j][2]
Held(t) == {b \in FileBytes : t[PageOf(b)] # Unmapped /\ HeldIn(t[PageOf(b)], InPage(b))}
ByteIn(t, b) == t[PageOf(b)].data[InPage(b)]

(* segcache_size.                                                          *)
FileSize == LargerOf(ptotal, ppmax + 1)

-----------------------------------------------------------------------------
(* Calls.  What a caller may reckon with is kept with them: a write may be *)
(* seen as soon as it is made and, once it returned, what was there before *)
(* it may not, but for writes that were under way with it.                 *)

NoBytes == [b \in {} |-> 0]
PIdle == [op |-> "-", pc |-> "idle", lo |-> 0, hi |-> 0, v |-> 0, loMapped |-> FALSE, hiMapped |-> FALSE,
          rest |-> <<0, 0>>, handled |-> 0, iov |-> NoBytes, then |-> "-",
          got |-> NoBytes, ok |-> TRUE, may |-> NoBytes, size |-> 0]

Calls(op) == {i \in PpCalls : pcall[i].op = op}
RangeOf(r) == DOMAIN r.may   \* of a write: its range, of which lo .. hi is what is left

PpInit ==
  /\ pps = [p \in PageNos |-> Unmapped] /\ flushing = FALSE /\ ppmax = -1
  /\ ptotal \in {0, PpBytes} /\ pfile = [b \in FileBytes |-> 0]
  /\ pcall = [i \in PpCalls |-> PIdle] /\ pops = 0
  /\ pknow = [may |-> [b \in FileBytes |-> {0}], size |-> ptotal, sure |-> TRUE, torn |-> {}]

PpBegin(i) ==
  /\ pcall[i] = PIdle /\ pops < MaxPpOps /\ pops' = pops + 1
  /\ UNCHANGED <<pps, flushing, ppmax, ptotal, pfile>>

(* A truncate and a write past its size at the same time leave those bytes *)
(* and the size open.                                                      *)
CutPoints == {pcall[j].lo : j \in Calls("cut")}
Beyond(bs) == {b \in bs : \E n \in CutPoints : b >= n}
InTheMaking(b) == {pcall[j].v : j \in {x \in Calls("write") : b \in RangeOf(pcall[x])}}
Also(m, bs, v) == [b \in DOMAIN m |-> m[b] \cup IF b \in bs THEN {v} ELSE {}]

StartWrite(i, lo, hi) ==
  LET bs == lo .. hi IN
  /\ PpBegin(i)
  /\ pcall' = [j \in PpCalls |->
       IF j = i THEN [PIdle EXCEPT !.op = "write", !.pc = "handle", !.lo = lo, !.hi = hi, !.v = pops + 1,
                                   !.may = [b \in bs |-> pknow.may[b] \ InTheMaking(b)]]
       ELSE IF pcall[j].op = "read" THEN [pcall[j] EXCEPT !.may = Also(@, bs, pops + 1)]
       ELSE pcall[j]]
  /\ pknow' = [pknow EXCEPT !.may = Also(@, bs, pops + 1), !.torn = @ \cup Beyond(bs),
                            !.sure = @ /\ Beyond(bs) = {}]
StartRead(i, lo, hi) ==
  /\ PpBegin(i)
  /\ pcall' = [pcall EXCEPT ![i] = [PIdle EXCEPT !.op = "read", !.pc = "handle", !.lo = lo, !.hi = hi,
                 !.size = IF CutPoints = {} /\ pknow.sure THEN pknow.size ELSE 0,
                 !.may = [b \in (lo .. hi) \ (pknow.torn \cup Beyond(lo .. hi)) |-> pknow.may[b]]]]
  /\ UNCHANGED pknow
StartCut(i, n) ==
  LET wr == UNION {RangeOf(pcall[j]) : j \in Calls("write")} IN
  /\ PpBegin(i) /\ Calls("cut") = {}
  /\ pcall' = [j \in PpCalls |->
       IF j = i THEN [PIdle EXCEPT !.op = "cut", !.pc = "flush", !.lo = n, !.hi = PpBytes - 1]
       ELSE IF pcall[j].op = "read"
       THEN [pcall[j] EXCEPT !.size = 0, !.may = [b \in {x \in DOMAIN @ : x < n} |-> @[b]]]
       ELSE pcall[j]]
  /\ pknow' = [pknow EXCEPT !.torn = @ \cup {b \in wr : b >= n}, !.sure = @ /\ \A b \in wr : b < n]
StartAdvise(i) ==
  /\ PpBegin(i) /\ UNCHANGED pknow
  /\ pcall' = [pcall EXCEPT ![i] = [PIdle EXCEPT !.op = "advise", !.pc = "flush"]]

-----------------------------------------------------------------------------
(* Flushes.                                                                *)

(* _cache_ppages_wait_for_flush_to_complete.                               *)
FlushOver_Ignored == TRUE
FlushOver == ~flushing

(* _cache_ppages_flush_list: the buffers are free for others as soon as    *)
(* the list of what to write is made.                                      *)
FlushList(i, t, ps, r) ==
  /\ pps' = [p \in PageNos |-> IF p \in ps THEN Unmapped ELSE t[p]]
  /\ flushing' = TRUE
  /\ pcall' = [pcall EXCEPT ![i] = [r EXCEPT !.pc = "rw",
                 !.iov = [b \in {x \in Held(t) : PageOf(x) \in ps} |-> ByteIn(t, b)]]]

(* cache_rw_func with skip_ppages.  new_size is one more than the last     *)
(* byte written, unless that is byte 0.                                    *)
NewSize(hi) == IF hi > 0 THEN hi + 1 ELSE 0
Highest(bs) == CHOOSE b \in bs : \A x \in bs : x <= b
FlushRw(i) ==
  LET iov == pcall[i].iov IN
  /\ pcall[i].pc = "rw"
  /\ pfile' = [b \in FileBytes |-> IF b \in DOMAIN iov THEN iov[b] ELSE pfile[b]]
  /\ ptotal' = LargerOf(ptotal, NewSize(Highest(DOMAIN iov)))
  /\ pcall' = [pcall EXCEPT ![i].pc = "flushed"]
  /\ UNCHANGED <<pps, flushing, ppmax, pops, pknow>>

(* "Update the ppage_max".                                                 *)
LastHeld(t) == IF Held(t) = {} THEN -1 ELSE Highest(Held(t))

-----------------------------------------------------------------------------
(* cache_ppages_handle.                                                    *)

Lp(r) == PageOf(r.lo)
Hp(r) == PageOf(r.hi)
NPages(r) == Hp(r) - Lp(r) + 1
PpOverlap(r) == Used(pps) \cap (Lp(r) .. Hp(r))
EndIn(p, r) == SmallerOf(r.hi, p * PpSize + PpSize - 1)
Furthest(m, ps, r) == IF ps = {} THEN m ELSE LargerOf(m, EndIn(Highest(ps), r))

(* lo_new and hi_new, when the ends in ps are dealt with.                  *)
Rest(r, rest, ps) ==
  <<IF Lp(r) \in ps THEN EndIn(Lp(r), r) + 1 ELSE rest[1],
    IF Hp(r) \in ps /\ Lp(r) # Hp(r) THEN Hp(r) * PpSize - 1 ELSE rest[2]>>

(* The return: whether the normal path has something to do.                *)
HandleReturn(r) == [r EXCEPT !.pc = IF r.handled = NPages(r) THEN "done" ELSE "rest", !.iov = NoBytes]

(* The ends that no partial page holds get one, if there are two for them; *)
(* a range in a single page asks for two as well.                          *)
Enough(t, r) ==
  PpCount - Cardinality(Used(t)) >= 2 - (IF r.loMapped THEN 1 ELSE 0) - (IF r.hiMapped THEN 1 ELSE 0)
HandleEnds(i, t, r, m) ==
  IF r.handled = NPages(r)
  THEN /\ pcall' = [pcall EXCEPT ![i] = HandleReturn(r)]
       /\ pps' = t /\ flushing' = FALSE /\ ppmax' = m
  ELSE IF ~Enough(t, r)
  THEN FlushList(i, t, Used(t), [r EXCEPT !.then = "again"]) /\ ppmax' = m
  ELSE LET new  == {p \in {Lp(r), Hp(r)} : ~(p = Lp(r) /\ r.loMapped) /\ ~(p = Hp(r) /\ r.hiMapped)}
           t2   == [p \in PageNos |-> IF p \in new THEN Store(Unmapped, p, r.lo, r.hi, r.v) ELSE t[p]]
           r2   == [r EXCEPT !.handled = @ + Cardinality(new), !.rest = Rest(r, @, new)]
           full == {p \in new : t2[p].full}
       IN /\ ppmax' = Furthest(m, new, r)
          /\ IF full # {} THEN FlushList(i, t2, full, [r2 EXCEPT !.then = "return"])
             ELSE pcall' = [pcall EXCEPT ![i] = HandleReturn(r2)] /\ pps' = t2 /\ flushing' = FALSE

(* A write first goes to the partial pages there are; what it fills is     *)
(* flushed.                                                                *)
HandleWrite(i) ==
  LET r    == pcall[i]
      hit  == PpOverlap(r)
      ends == hit \cap {Lp(r), Hp(r)}
      t    == [p \in PageNos |->
                 IF p \in ends THEN Store(pps[p], p, r.lo, r.hi, r.v)
                 ELSE IF p \in hit THEN [pps[p] EXCEPT !.full = TRUE, !.data = [o \in DOMAIN @ |-> r.v]]
                 ELSE pps[p]]
      r2   == [r EXCEPT !.loMapped = Lp(r) \in hit, !.hiMapped = Hp(r) \in hit,
                        !.handled = Cardinality(hit), !.rest = Rest(r, <<r.lo, r.hi>>, ends)]
      full == {p \in hit : t[p].full}
      m    == Furthest(ppmax, ends, r)
  IN /\ r.op = "write" /\ r.pc = "handle" /\ FlushOver
     /\ IF full # {} THEN FlushList(i, t, full, [r2 EXCEPT !.then = "ends"]) /\ ppmax' = m
        ELSE HandleEnds(i, t, r2, m)
     /\ UNCHANGED <<ptotal, pfile, pops, pknow>>

(* A read takes an end from a partial page if one range of it has all that *)
(* is asked of the page; the pages that cannot serve it are flushed.       *)
Serves(p, r) ==
  LET rs == pps[p].rngs
      l  == LargerOf(r.lo - p * PpSize, 0)
      h  == EndIn(p, r) - p * PpSize
  IN  CASE p = Lp(r) /\ p = Hp(r) -> \E j \in DOMAIN rs : rs[j][1] <= l /\ l <= rs[j][2] /\ rs[j][2] >= h
        [] p = Lp(r) /\ p # Hp(r) -> Last(rs)[1] <= l /\ Last(rs)[2] = PpSize - 1
        [] p # Lp(r) /\ p = Hp(r) -> Head(rs)[1] = 0 /\ Head(rs)[2] >= h
        [] OTHER -> FALSE
HandleRead(i) ==
  LET r    == pcall[i]
      hit  == PpOverlap(r)
      good == {p \in hit : Serves(p, r)}
      r2   == [r EXCEPT !.handled = Cardinality(good), !.rest = Rest(r, <<r.lo, r.hi>>, good),
                        !.got = [b \in {x \in r.lo .. r.hi : PageOf(x) \in good} |-> ByteIn(pps, b)],
                        !.then = "return"]
  IN /\ r.op = "read" /\ r.pc = "handle" /\ FlushOver
     /\ IF hit # good THEN FlushList(i, pps, hit \ good, r2)
        ELSE pcall' = [pcall EXCEPT ![i] = HandleReturn(r2)] /\ UNCHANGED <<pps, flushing>>
     /\ UNCHANGED <<ppmax, ptotal, pfile, pops, pknow>>

(* _cache_ppages_flush for a truncate or cache_advise: with no page in the *)
(* table it does not wait for the flush that took the last one out.        *)
FlushAll(i) ==
  LET r == [pcall[i] EXCEPT !.then = pcall[i].op] IN
  /\ r.pc = "flush" /\ Used(pps) # {} /\ FlushOver
  /\ FlushList(i, pps, Used(pps), r)
  /\ UNCHANGED <<ppmax, ptotal, pfile, pops, pknow>>
FlushNone(i) ==
  LET r    == pcall[i]
      late == {b \in UNION {DOMAIN pcall[j].iov : j \in {x \in PpCalls : pcall[x].pc = "rw"}} : b >= r.lo}
  IN /\ r.pc = "flush" /\ Used(pps) = {}
     /\ pcall' = [pcall EXCEPT ![i].pc = IF r.op = "cut" THEN "drop" ELSE "done", ![i].size = ptotal]
     /\ ptotal' = IF r.op = "cut" THEN r.lo ELSE ptotal
     /\ pknow' = IF r.op = "cut" THEN [pknow EXCEPT !.torn = @ \cup late, !.sure = @ /\ late = {}] ELSE pknow
     /\ UNCHANGED <<pps, flushing, ppmax, pfile, pops>>

(* The end of a flush, and what its caller does next with the lock it took *)
(* back: the second half of cache_ppages_handle, the same call again with  *)
(* what is left, or the new size of a truncate.                            *)
FlushEnd(i) ==
  LET r == [pcall[i] EXCEPT !.iov = NoBytes]
      m == LastHeld(pps)
  IN /\ r.pc = "flushed"
     /\ IF r.then = "ends" THEN HandleEnds(i, pps, r, m) /\ UNCHANGED ptotal
        ELSE /\ flushing' = FALSE /\ ppmax' = m /\ UNCHANGED pps
             /\ pcall' = [pcall EXCEPT ![i] =
                  CASE r.then = "return" -> HandleReturn(r)
                    [] r.then = "again" -> [r EXCEPT !.pc = "handle", !.lo = r.rest[1], !.hi = r.rest[2]]
                    [] r.then = "cut" -> [r EXCEPT !.pc = "drop", !.size = ptotal]
                    [] r.then = "advise" -> [r EXCEPT !.pc = "done"]]
             /\ ptotal' = IF r.then = "cut" THEN r.lo ELSE ptotal
     /\ UNCHANGED <<pfile, pops, pknow>>

-----------------------------------------------------------------------------
(* The rest of a call.                                                     *)

(* cache_rw_func: the pages.                                               *)
WriteRest(i) ==
  LET r == pcall[i] IN
  /\ r.op = "write" /\ r.pc = "rest"
  /\ pfile' = [b \in FileBytes |-> IF b \in r.rest[1] .. r.rest[2] THEN r.v ELSE pfile[b]]
  /\ ptotal' = LargerOf(ptotal, NewSize(r.rest[2]))
  /\ pcall' = [pcall EXCEPT ![i].pc = "done"]
  /\ UNCHANGED <<pps, flushing, ppmax, pops, pknow>>
ReadRest(i) ==
  LET r == pcall[i]
      ok == NewSize(r.rest[2]) <= FileSize
      bs == DOMAIN r.got \cup (r.rest[1] .. r.rest[2])
  IN /\ r.op = "read" /\ r.pc = "rest"
     /\ pcall' = [pcall EXCEPT ![i].pc = "done", ![i].ok = ok,
                    ![i].got = IF ~ok THEN NoBytes
                               ELSE [b \in bs |-> IF b \in DOMAIN r.got THEN r.got[b] ELSE pfile[b]]]
     /\ UNCHANGED <<pps, flushing, ppmax, ptotal, pfile, pops, pknow>>

(* segcache_truncate_func: a shrinking file loses the pages behind the one *)
(* the new size is in.  That one keeps its old tail as long as it is in    *)
(* the cache; the child's is cut.                                          *)
CutDrop(i, kept) ==
  LET r == pcall[i]
      Gone(b) == b >= r.lo /\ r.lo < r.size /\ ~(kept /\ PageOf(b) * PpSize < r.lo)
  IN /\ r.pc = "drop"
     /\ pfile' = [b \in FileBytes |-> IF Gone(b) THEN 0 ELSE pfile[b]]
     /\ pcall' = [pcall EXCEPT ![i].pc = "done"]
     /\ UNCHANGED <<pps, flushing, ppmax, ptotal, pops, pknow>>

Known(r) ==
  CASE r.op = "write" -> [pknow EXCEPT !.may = [b \in FileBytes |-> IF b \in DOMAIN r.may THEN @[b] \ r.may[b] ELSE @[b]],
                                       !.size = LargerOf(@, 1 + Highest(RangeOf(r)))]
    [] r.op = "cut" -> [pknow EXCEPT !.may = [b \in FileBytes |-> IF b < r.lo THEN @[b]
                                                 ELSE IF PageOf(b) * PpSize < r.lo THEN @[b] \cup {0} ELSE {0}],
                                     !.size = r.lo]
    [] OTHER -> pknow
Return(i) ==
  /\ pcall[i].pc = "done"
  /\ pknow' = Known(pcall[i]) /\ pcall' = [pcall EXCEPT ![i] = PIdle]
  /\ UNCHANGED <<pps, flushing, ppmax, ptotal, pfile, pops>>

PpNext == \E i \in PpCalls :
  \/ \E r \in PpRanges : StartWrite(i, r[1], r[2]) \/ StartRead(i, r[1], r[2])
  \/ \E n \in PpCuts : StartCut(i, n)
  \/ StartAdvise(i)
  \/ HandleWrite(i) \/ HandleRead(i) \/ FlushAll(i) \/ FlushNone(i)
  \/ FlushRw(i) \/ FlushEnd(i) \/ WriteRest(i) \/ ReadRest(i)
  \/ \E kept \in BOOLEAN : CutDrop(i, kept)
  \/ Return(i)

-----------------------------------------------------------------------------
(* The file as it stands, partial pages over pages.                        *)
View(b) == IF b \in Held(pps) THEN ByteIn(pps, b) ELSE pfile[b]

(* Writes collected in partial pages are kept: between calls the file      *)
(* holds at every byte a write that may be the last there, and its size    *)
(* is what the writes and truncates made it; a read returns such bytes and *)
(* is not refused within the file.  Excepted: bytes and sizes past a       *)
(* truncate that ran together with a write of them, or overtook a flush of *)
(* them, and the size of a file of one byte, which counts as empty once    *)
(* that byte is flushed (cache_ppages_handle, _cache_ppages_flush_list).   *)
SmallWritesKept ==
  /\ \A i \in PpCalls : pcall[i].op = "read" /\ pcall[i].pc = "done" =>
       IF pcall[i].ok THEN \A b \in DOMAIN pcall[i].may : pcall[i].got[b] \in pcall[i].may[b]
       ELSE pcall[i].hi >= pcall[i].size
  /\ (\A i \in PpCalls : pcall[i] = PIdle) =>
       /\ \A b \in 0 .. pknow.size - 1 : b \notin pknow.torn => View(b) \in pknow.may[b]
       /\ pknow.sure => FileSize = pknow.size \/ (pknow.size = 1 /\ FileSize = 0)
=============================================================================
