--------------------------- MODULE SegmentCacheProofs ---------------------------
(***************************************************************************)
(* The page cache of segment_cache.c and cache_amp.c loses no write, reads *)
(* nothing stale and flushes what it says, for any number of pages,        *)
(* threads and requests, any amount of memory and any child failures.      *)
(*                                                                         *)
(* CacheInv is inductive.  Its parts: who holds a page and how the         *)
(* counters tell (PCounts), who may change which copy of a page (POwn),    *)
(* where the newest bytes are (PData), how far the child reaches           *)
(* (ChildOK, SizeOK), the order of the versions (VersionOK, SettledOK) and *)
(* what a flush under way still has to do or to wait for (StackOK,         *)
(* CopiesOK, DebtOK).                                                      *)
(***************************************************************************)
EXTENDS SegmentCache, FiniteSetTheorems, WellFoundedInduction, TLAPS

-----------------------------------------------------------------------------
(* Types.                                                                  *)

Val == [Slots -> Nat]
Buf == Val \cup {NULL}
PageType == [in : BOOLEAN, empty : BOOLEAN, dirty : BOOLEAN, torel : BOOLEAN,
             rd : Nat, wr : Nat, fl : Nat, cur : {0, 1},
             data : [{0, 1} -> Buf], use : [{0, 1} -> Int]]

ReadPcs == {"rget", "rwait", "radvise", "rcopy", "rrel"}
WritePcs == {"wget", "wwait", "whold", "wcopy", "wrel", "wend"}
ForcePcs == {"force", "fwait", "mem", "mwait", "load"}
StackPcs == {"fscan", "dwait", "fio", "fw1"}
FlushPcs == StackPcs \cup {"fstart", "fw2"}
PcNames == {"idle", "done"} \cup ReadPcs \cup WritePcs \cup ForcePcs \cup FlushPcs

ThreadType == [op : {"idle", "read", "write", "flush"}, pc : PcNames, page : Pages,
               bytes : SUBSET Slots, block : BOOLEAN, slot : {0, 1}, lo : Int, hi : Int,
               held : SUBSET (Pages \X {0, 1}), wrote : SUBSET Pages,
               ret : {"", "load", "mem", "wend", "wget", "force"}, wait : SUBSET Threads,
               need : [Pages -> Val], old : SUBSET Pages, got : [Slots -> Nat]]

(* What a thread's pc says about its other fields.                         *)
ThreadOK(f) ==
  /\ f.pc \in ReadPcs => f.op = "read"
  /\ f.pc \in WritePcs => f.op = "write"
  /\ f.pc \in ForcePcs => f.op \in {"read", "write"}
  /\ f.pc \in FlushPcs => \/ f.op = "flush" /\ f.ret = ""
                          \/ f.op = "read" /\ f.ret \in {"load", "mem"}
                          \/ f.op = "write" /\ f.ret = "mem"
  /\ f.pc = "whold" => f.ret \in {"wend", "wget", "force", "load"} /\ f.lo \in Pages /\ f.lo # f.page
  /\ f.pc = "dwait" => f.lo \in Pages
  /\ f.held # {} => f.pc = "fio"
  /\ \A q \in Pages : ~(<<q, 0>> \in f.held /\ <<q, 1>> \in f.held)
  /\ f.op = "write" => f.bytes # {}
  /\ f.pc = "fstart" => (f.hi = -1 => f.lo = 0) /\ (f.ret = "load" => f.hi = -1)
  /\ f.pc = "wget" => f.slot = 0

ThreadsOK(T) == T \in [Threads -> ThreadType] /\ \A t \in Threads : ThreadOK(T[t])

-----------------------------------------------------------------------------
(* The threads that hold page q with a read, a write or a flush.           *)

Rd(f, q) ==
  \/ /\ f.page = q
     /\ \/ f.pc \in {"rwait", "fwait", "wwait", "rcopy", "rrel"}
        \/ f.op = "read" /\ f.pc = "load"
        \/ f.pc \in FlushPcs /\ f.ret = "load"
  \/ f.pc = "whold" /\ f.lo = q
Wr(f, q) ==
  /\ f.op = "write" /\ f.page = q
  /\ f.pc \in {"wcopy", "wrel", "load"} \/ (f.pc = "whold" /\ f.ret = "load")
Fl(f, q) == (f.pc = "dwait" /\ f.lo = q) \/ (\E i \in {0, 1} : <<q, i>> \in f.held)

RdBy(T, q) == {t \in Threads : Rd(T[t], q)}
WrBy(T, q) == {t \in Threads : Wr(T[t], q)}
FlBy(T, q) == {t \in Threads : Fl(T[t], q)}

(* access_pending counts them.                                             *)
PCounts(p, q, T) ==
  /\ p.rd = Cardinality(RdBy(T, q))
  /\ p.wr = Cardinality(WrBy(T, q))
  /\ p.fl = Cardinality(FlBy(T, q)) /\ p.fl <= 1

(* A thread that is about to load page q, or to fill it with a write.      *)
Loads(f, q) ==
  /\ f.page = q
  /\ f.pc = "load" \/ (f.pc \in FlushPcs \cup {"whold"} /\ f.ret = "load")
Fills(f, q) == Loads(f, q) \/ (f.page = q /\ f.pc \in {"wcopy", "wrel"})

(* An empty page has one thread that fills it; who holds a copy for        *)
(* reading or writing holds the current one; a flush holds a dirty page,   *)
(* whose current copy, if the flush has that, nobody writes.               *)
OwnBy(f, p, q) ==
  /\ Loads(f, q) => /\ p.in /\ p.empty /\ (f.op = "read" => ~p.dirty)
                    /\ f.pc # "whold" => f.slot = 0
  /\ f.page = q /\ f.pc \in {"rcopy", "rrel"} => ~p.empty
  /\ f.page = q /\ f.pc \in {"rcopy", "rrel", "wcopy", "wrel"} => f.slot = p.cur
  /\ f.pc = "whold" /\ f.lo = q => f.slot = p.cur
  /\ f.pc = "dwait" /\ f.lo = q => p.in /\ p.dirty
  /\ \A i \in {0, 1} : <<q, i>> \in f.held =>
       p.in /\ ~p.empty /\ p.dirty /\ (i = p.cur => p.wr = 0)
POwn(p, q, T) ==
  /\ ~p.in => p = Absent
  /\ p.in /\ p.empty => /\ p.cur = 0
                        /\ \E t \in Threads : Fills(T[t], q)
                        /\ \A t, u \in Threads : Fills(T[t], q) /\ Fills(T[u], q) => t = u
  /\ \A t \in Threads : OwnBy(T[t], p, q)

(* Where the newest bytes of page q are: new is what they are, disk what   *)
(* the child has, bad the pages with a failed child request.               *)
DataBy(f, p, q, new, disk) ==
  /\ Loads(f, q) => disk = new
  /\ f.page = q /\ f.pc = "wcopy" /\ p.empty =>
       disk = new /\ (f.bytes = Slots \/ p.data[p.cur] = new)
  /\ f.page = q /\ f.pc = "wrel" => p.data[p.cur] = new
  /\ \A i \in {0, 1} : <<q, i>> \in f.held =>
       p.data[i] # NULL /\ (q \in f.wrote => disk = p.data[i])
PData(p, q, T, new, disk, bad) ==
  q \notin bad =>
    /\ p.in /\ ~p.empty => p.data[p.cur] = new
    /\ ~p.in => disk = new
    /\ p.in /\ ~p.empty /\ ~p.dirty /\ p.wr = 0 => p.data[p.cur] = disk
    /\ \A t \in Threads : DataBy(T[t], p, q, new, disk)

PageInv(p, q, T, new, disk, bad) ==
  p \in PageType /\ PCounts(p, q, T) /\ POwn(p, q, T) /\ PData(p, q, T, new, disk, bad)

-----------------------------------------------------------------------------
(* Counting the holders.                                                   *)

LEMMA CountStep ==
  ASSUME NEW S, IsFiniteSet(S), NEW t
  PROVE  /\ Cardinality(S) \in Nat
         /\ Cardinality(S \cup {t}) = Cardinality(S) + 1 - (IF t \in S THEN 1 ELSE 0)
         /\ Cardinality(S \ {t}) = Cardinality(S) - (IF t \in S THEN 1 ELSE 0)
<1>1. Cardinality(S) \in Nat
  BY FS_CardinalityType
<1>2. CASE t \notin S
  <2>1. S \ {t} = S
    BY <1>2
  <2>2. Cardinality(S \cup {t}) = Cardinality(S) + 1
    BY <1>2, FS_AddElement
  <2>3. Cardinality(S \ {t}) = Cardinality(S)
    BY <2>1, Zenon
  <2> QED BY <1>1, <1>2, <2>2, <2>3
<1>3. CASE t \in S
  <2>1. S \cup {t} = S
    BY <1>3
  <2>2. Cardinality(S \ {t}) = Cardinality(S) - 1
    BY <1>3, FS_RemoveElement
  <2>3. Cardinality(S \cup {t}) = Cardinality(S)
    BY <2>1, Zenon
  <2> QED BY <1>1, <1>3, <2>2, <2>3
<1> QED BY <1>2, <1>3

LEMMA ThreadsFinite == IsFiniteSet(Threads)
BY CacheAssumption DEF CacheAssumption, Threads

LEMMA ByFinite ==
  ASSUME NEW T, NEW q
  PROVE  IsFiniteSet(RdBy(T, q)) /\ IsFiniteSet(WrBy(T, q)) /\ IsFiniteSet(FlBy(T, q))
<1>1. RdBy(T, q) \subseteq Threads /\ WrBy(T, q) \subseteq Threads /\ FlBy(T, q) \subseteq Threads
  BY DEF RdBy, WrBy, FlBy
<1> QED BY <1>1, ThreadsFinite, FS_Subset

(* Thread t goes on as f.                                                  *)
Goes(T, t, f, U) == DOMAIN T = Threads /\ U = [T EXCEPT ![t] = f]

LEMMA GoesSays ==
  ASSUME NEW T, NEW t \in Threads, NEW f, NEW U, Goes(T, t, f, U)
  PROVE  U[t] = f /\ DOMAIN U = Threads /\ \A u \in Threads \ {t} : U[u] = T[u]
BY DEF Goes

LEMMA ByStep ==
  ASSUME NEW T, NEW t \in Threads, NEW f, NEW q, NEW U, Goes(T, t, f, U)
  PROVE  /\ Cardinality(RdBy(U, q)) = Cardinality(RdBy(T, q)) + (IF Rd(f, q) THEN 1 ELSE 0) - (IF Rd(T[t], q) THEN 1 ELSE 0)
         /\ Cardinality(WrBy(U, q)) = Cardinality(WrBy(T, q)) + (IF Wr(f, q) THEN 1 ELSE 0) - (IF Wr(T[t], q) THEN 1 ELSE 0)
         /\ Cardinality(FlBy(U, q)) = Cardinality(FlBy(T, q)) + (IF Fl(f, q) THEN 1 ELSE 0) - (IF Fl(T[t], q) THEN 1 ELSE 0)
         /\ Cardinality(RdBy(T, q)) \in Nat /\ Cardinality(WrBy(T, q)) \in Nat /\ Cardinality(FlBy(T, q)) \in Nat
<1>0. /\ U[t] = f /\ \A u \in Threads \ {t} : U[u] = T[u]
  BY DEF Goes
<1>2. /\ RdBy(U, q) = IF Rd(f, q) THEN RdBy(T, q) \cup {t} ELSE RdBy(T, q) \ {t}
      /\ WrBy(U, q) = IF Wr(f, q) THEN WrBy(T, q) \cup {t} ELSE WrBy(T, q) \ {t}
      /\ FlBy(U, q) = IF Fl(f, q) THEN FlBy(T, q) \cup {t} ELSE FlBy(T, q) \ {t}
  BY <1>0 DEF RdBy, WrBy, FlBy
<1>3. /\ t \in RdBy(T, q) <=> Rd(T[t], q)
      /\ t \in WrBy(T, q) <=> Wr(T[t], q)
      /\ t \in FlBy(T, q) <=> Fl(T[t], q)
  BY DEF RdBy, WrBy, FlBy
<1>4. /\ Cardinality(RdBy(U, q)) = Cardinality(RdBy(T, q)) + (IF Rd(f, q) THEN 1 ELSE 0) - (IF Rd(T[t], q) THEN 1 ELSE 0)
      /\ Cardinality(RdBy(T, q)) \in Nat
  <2>1. IsFiniteSet(RdBy(T, q))
    BY ByFinite
  <2>2. /\ Cardinality(RdBy(T, q)) \in Nat
        /\ Cardinality(RdBy(T, q) \cup {t}) = Cardinality(RdBy(T, q)) + 1 - (IF t \in RdBy(T, q) THEN 1 ELSE 0)
        /\ Cardinality(RdBy(T, q) \ {t}) = Cardinality(RdBy(T, q)) - (IF t \in RdBy(T, q) THEN 1 ELSE 0)
    BY <2>1, CountStep
  <2> QED BY <1>2, <1>3, <2>2
<1>5. /\ Cardinality(WrBy(U, q)) = Cardinality(WrBy(T, q)) + (IF Wr(f, q) THEN 1 ELSE 0) - (IF Wr(T[t], q) THEN 1 ELSE 0)
      /\ Cardinality(WrBy(T, q)) \in Nat
  <2>1. IsFiniteSet(WrBy(T, q))
    BY ByFinite
  <2>2. /\ Cardinality(WrBy(T, q)) \in Nat
        /\ Cardinality(WrBy(T, q) \cup {t}) = Cardinality(WrBy(T, q)) + 1 - (IF t \in WrBy(T, q) THEN 1 ELSE 0)
        /\ Cardinality(WrBy(T, q) \ {t}) = Cardinality(WrBy(T, q)) - (IF t \in WrBy(T, q) THEN 1 ELSE 0)
    BY <2>1, CountStep
  <2> QED BY <1>2, <1>3, <2>2
<1>6. /\ Cardinality(FlBy(U, q)) = Cardinality(FlBy(T, q)) + (IF Fl(f, q) THEN 1 ELSE 0) - (IF Fl(T[t], q) THEN 1 ELSE 0)
      /\ Cardinality(FlBy(T, q)) \in Nat
  <2>1. IsFiniteSet(FlBy(T, q))
    BY ByFinite
  <2>2. /\ Cardinality(FlBy(T, q)) \in Nat
        /\ Cardinality(FlBy(T, q) \cup {t}) = Cardinality(FlBy(T, q)) + 1 - (IF t \in FlBy(T, q) THEN 1 ELSE 0)
        /\ Cardinality(FlBy(T, q) \ {t}) = Cardinality(FlBy(T, q)) - (IF t \in FlBy(T, q) THEN 1 ELSE 0)
    BY <2>1, CountStep
  <2> QED BY <1>2, <1>3, <2>2
<1> QED BY <1>4, <1>5, <1>6

(* What a counter says about the holders.                                  *)
LEMMA CountSays ==
  ASSUME NEW S, IsFiniteSet(S)
  PROVE  /\ Cardinality(S) = 0 <=> S = {}
         /\ \A t \in S : Cardinality(S) >= 1
         /\ \A t, u \in S : Cardinality(S) <= 1 => t = u
<1>1. Cardinality(S) = 0 <=> S = {}
  BY FS_EmptySet
<1>2. ASSUME NEW t \in S PROVE Cardinality(S) >= 1 /\ \A u \in S : Cardinality(S) <= 1 => t = u
  <2>1. Cardinality(S) \in Nat
    BY FS_CardinalityType
  <2>2. Cardinality(S \ {t}) = Cardinality(S) - 1 /\ IsFiniteSet(S \ {t})
    BY FS_RemoveElement
  <2>3. Cardinality(S \ {t}) \in Nat
    BY <2>2, FS_CardinalityType
  <2>4. Cardinality(S \ {t}) = 0 => S \ {t} = {}
    BY <2>2, FS_EmptySet
  <2> QED BY <2>1, <2>2, <2>3, <2>4
<1> QED BY <1>1, <1>2

LEMMA Holders ==
  ASSUME NEW p, NEW q, NEW T, PCounts(p, q, T)
  PROVE  /\ p.rd \in Nat /\ p.wr \in Nat /\ p.fl \in Nat
         /\ p.rd = 0 => \A u \in Threads : ~Rd(T[u], q)
         /\ p.wr = 0 => \A u \in Threads : ~Wr(T[u], q)
         /\ p.fl = 0 => \A u \in Threads : ~Fl(T[u], q)
         /\ p.fl # 0 => \E u \in Threads : Fl(T[u], q)
         /\ \A t, u \in Threads : Fl(T[t], q) /\ Fl(T[u], q) => t = u
         /\ \A t, u \in Threads : Rd(T[t], q) /\ Rd(T[u], q) /\ p.rd <= 1 => t = u
<1>1. /\ Cardinality(RdBy(T, q)) \in Nat /\ Cardinality(WrBy(T, q)) \in Nat /\ Cardinality(FlBy(T, q)) \in Nat
  BY ByFinite, FS_CardinalityType
<1>2. /\ Cardinality(RdBy(T, q)) = 0 <=> RdBy(T, q) = {}
      /\ Cardinality(WrBy(T, q)) = 0 <=> WrBy(T, q) = {}
      /\ Cardinality(FlBy(T, q)) = 0 <=> FlBy(T, q) = {}
      /\ \A t, u \in FlBy(T, q) : Cardinality(FlBy(T, q)) <= 1 => t = u
      /\ \A t, u \in RdBy(T, q) : Cardinality(RdBy(T, q)) <= 1 => t = u
  BY ByFinite, CountSays
<1> QED BY <1>1, <1>2 DEF PCounts, RdBy, WrBy, FlBy

-----------------------------------------------------------------------------
(* Steps of a thread that leave a page alone.                              *)

Away(f, q) == ~Rd(f, q) /\ ~Wr(f, q) /\ ~Fl(f, q)

(* A thread that neither fills page p, number q, nor flushes a copy of it, *)
(* and whose copy, if it has one, is the current one.                      *)
Fits(f, p, q) ==
  /\ ~Fills(f, q)
  /\ f.page = q /\ f.pc \in {"rcopy", "rrel"} => ~p.empty /\ f.slot = p.cur
  /\ f.pc = "whold" /\ f.lo = q => f.slot = p.cur
  /\ ~(f.pc = "dwait" /\ f.lo = q)
  /\ \A i \in {0, 1} : <<q, i>> \notin f.held

LEMMA AwayFits ==
  ASSUME NEW f, ThreadOK(f), NEW q, Away(f, q)
  PROVE  ~Fills(f, q) /\ \A p : Fits(f, p, q)
BY Zenon DEF Fits, Away, ThreadOK, Rd, Wr, Fl, Loads, Fills, ReadPcs, WritePcs, ForcePcs, FlushPcs, StackPcs

LEMMA WrFills ==
  ASSUME NEW f, NEW q, ~Fills(f, q)
  PROVE  ~Wr(f, q) /\ ~Loads(f, q)
BY DEF Wr, Fills, Loads

(* The counters after a step of thread t, in terms of those before.        *)
LEMMA CountsNow ==
  ASSUME NEW T, NEW t \in Threads, NEW f, NEW p, NEW q, PCounts(p, q, T),
         NEW U, Goes(T, t, f, U)
  PROVE  /\ Cardinality(RdBy(U, q)) = p.rd + (IF Rd(f, q) THEN 1 ELSE 0) - (IF Rd(T[t], q) THEN 1 ELSE 0)
         /\ Cardinality(WrBy(U, q)) = p.wr + (IF Wr(f, q) THEN 1 ELSE 0) - (IF Wr(T[t], q) THEN 1 ELSE 0)
         /\ Cardinality(FlBy(U, q)) = p.fl + (IF Fl(f, q) THEN 1 ELSE 0) - (IF Fl(T[t], q) THEN 1 ELSE 0)
         /\ p.rd \in Nat /\ p.wr \in Nat /\ p.fl \in Nat /\ p.fl <= 1
<1>2. /\ Cardinality(RdBy(U, q)) = Cardinality(RdBy(T, q)) + (IF Rd(f, q) THEN 1 ELSE 0) - (IF Rd(T[t], q) THEN 1 ELSE 0)
      /\ Cardinality(WrBy(U, q)) = Cardinality(WrBy(T, q)) + (IF Wr(f, q) THEN 1 ELSE 0) - (IF Wr(T[t], q) THEN 1 ELSE 0)
      /\ Cardinality(FlBy(U, q)) = Cardinality(FlBy(T, q)) + (IF Fl(f, q) THEN 1 ELSE 0) - (IF Fl(T[t], q) THEN 1 ELSE 0)
      /\ Cardinality(RdBy(T, q)) \in Nat /\ Cardinality(WrBy(T, q)) \in Nat /\ Cardinality(FlBy(T, q)) \in Nat
  BY ByStep
<1> QED BY <1>2 DEF PCounts

(* Only threads that fill nothing come or go, and the counters follow.     *)
Alike(p, p2) ==
  /\ p2.in = p.in /\ p2.empty = p.empty /\ p2.dirty = p.dirty /\ p2.wr = p.wr
  /\ p2.cur = p.cur /\ p2.data = p.data

LEMMA LightStep ==
  ASSUME NEW T, NEW t \in Threads, NEW f, NEW p, NEW q,
         NEW new, NEW disk, NEW bad, PageInv(p, q, T, new, disk, bad), NEW U, Goes(T, t, f, U),
         NEW p2 \in PageType, PCounts(p2, q, U), ~Fills(T[t], q), Fits(f, p, q), Alike(p, p2), p.in \/ p2 = p
  PROVE  PageInv(p2, q, U, new, disk, bad)
<1>1. U[t] = f /\ \A u \in Threads \ {t} : U[u] = T[u]
  BY GoesSays
<1>2. ~Loads(f, q) /\ ~Loads(T[t], q) /\ ~Fills(f, q)
  BY WrFills DEF Fits
<1>3. POwn(p2, q, U)
  BY <1>1, <1>2 DEF PageInv, POwn, OwnBy, Fits, Alike, Fills
<1>4. PData(p2, q, U, new, disk, bad)
  BY <1>1, <1>2 DEF PageInv, PData, DataBy, Fits, Alike, Fills
<1> QED BY <1>3, <1>4 DEF PageInv

(* The page keeps its holders.                                             *)
LEMMA AwayStep ==
  ASSUME NEW T, ThreadsOK(T), NEW t \in Threads, NEW f, ThreadOK(f), NEW p, NEW q,
         NEW new, NEW disk, NEW bad, PageInv(p, q, T, new, disk, bad),
         Away(T[t], q), Away(f, q), NEW U, Goes(T, t, f, U)
  PROVE  PageInv(p, q, U, new, disk, bad)
<1>1. Fits(f, p, q) /\ ~Fills(T[t], q)
  BY AwayFits DEF ThreadsOK
<1>2. PCounts(p, q, U)
  BY CountsNow DEF PCounts, PageInv, Away
<1>3. Alike(p, p) /\ p \in PageType
  BY DEF Alike, PageInv
<1> QED BY <1>1, <1>2, <1>3, LightStep

(* A page changes in a field that no property looks at.                    *)
LEMMA UseStep ==
  ASSUME NEW T, NEW p, NEW q,
         NEW new, NEW disk, NEW bad, PageInv(p, q, T, new, disk, bad), p.in,
         NEW p2 \in PageType, Alike(p, p2), p2.rd = p.rd, p2.fl = p.fl
  PROVE  PageInv(p2, q, T, new, disk, bad)
<1>1. PCounts(p2, q, T)
  BY DEF PageInv, PCounts, Alike
<1>2. POwn(p2, q, T)
  BY DEF PageInv, POwn, OwnBy, Alike
<1>3. PData(p2, q, T, new, disk, bad)
  BY DEF PageInv, PData, DataBy, Alike
<1> QED BY <1>1, <1>2, <1>3 DEF PageInv

(* A thread takes a read hold of the page, or gives one up.                *)
LEMMA RdUp ==
  ASSUME NEW T, ThreadsOK(T), NEW t \in Threads, NEW f, NEW p, NEW q,
         NEW new, NEW disk, NEW bad, PageInv(p, q, T, new, disk, bad),
         NEW U, Goes(T, t, f, U), p.in, Away(T[t], q), Rd(f, q), Fits(f, p, q), ~Fl(f, q),
         NEW p2 \in PageType, Alike(p, p2), p2.rd = p.rd + 1, p2.fl = p.fl
  PROVE  PageInv(p2, q, U, new, disk, bad)
<1>1. ~Fills(T[t], q)
  BY AwayFits DEF ThreadsOK
<1>2. ~Wr(f, q)
  BY WrFills DEF Fits
<1>3. PCounts(p2, q, U)
  BY <1>2, CountsNow DEF PCounts, PageInv, Away, Alike
<1> QED BY <1>1, <1>3, LightStep

LEMMA RdDown ==
  ASSUME NEW T, ThreadsOK(T), NEW t \in Threads, NEW f, ThreadOK(f), NEW p, NEW q,
         NEW new, NEW disk, NEW bad, PageInv(p, q, T, new, disk, bad),
         NEW U, Goes(T, t, f, U), Rd(T[t], q), ~Fills(T[t], q), ~Fl(T[t], q), Away(f, q),
         NEW p2
  PROVE  p.rd \in Nat /\ p.rd # 0 /\ p.in /\ (p2 \in PageType /\ Alike(p, p2) /\ p2.rd = p.rd - 1 /\ p2.fl = p.fl => PageInv(p2, q, U, new, disk, bad))
<1>1. Fits(f, p, q)
  BY AwayFits
<1>2. ~Wr(T[t], q)
  BY WrFills
<1>3. p.rd \in Nat /\ p.rd # 0
  BY Holders DEF PageInv
<1>4. p.in
  BY <1>3 DEF PageInv, POwn, OwnBy, Absent, Blank
<1>5. ASSUME p2 \in PageType, Alike(p, p2), p2.rd = p.rd - 1, p2.fl = p.fl
      PROVE  PageInv(p2, q, U, new, disk, bad)
  <2>1. PCounts(p2, q, U)
    BY <1>2, <1>5, CountsNow DEF PCounts, PageInv, Away, Alike
  <2> QED BY <1>1, <1>4, <1>5, <2>1, LightStep
<1> QED BY <1>3, <1>4, <1>5

-----------------------------------------------------------------------------
(* The other steps of a thread on a page.                                  *)

(* A dirty page stays dirty until the child has its newest bytes, and the  *)
(* copies that flushes hold stay as they are.                              *)
PTidy(p, p2, q, U, new, disk, bad) ==
  /\ p.in /\ p.dirty /\ q \notin bad => (p2.in /\ p2.dirty) \/ disk = new
  /\ q \notin bad => \A u \in Threads, i \in {0, 1} : <<q, i>> \in U[u].held => p2.data[i] = p.data[i]
StepOK(p, p2, q, U, new, disk, bad) ==
  PageInv(p2, q, U, new, disk, bad) /\ PTidy(p, p2, q, U, new, disk, bad)

LEMMA AlikeTidy ==
  ASSUME NEW p, NEW p2, NEW q, NEW U, NEW new, NEW disk, NEW bad,
         Alike(p, p2), PageInv(p2, q, U, new, disk, bad)
  PROVE  StepOK(p, p2, q, U, new, disk, bad)
BY DEF Alike, StepOK, PTidy

(* A thread that stays the same to page q: it neither copies nor comes or  *)
(* goes there.                                                             *)
Direct == {"rcopy", "rrel", "wcopy", "wrel", "whold"}
Same(g, f, q) ==
  /\ g.pc \notin Direct /\ f.pc \notin Direct
  /\ Rd(f, q) = Rd(g, q) /\ Wr(f, q) = Wr(g, q) /\ Fl(f, q) = Fl(g, q)
  /\ Loads(f, q) = Loads(g, q) /\ f.op = g.op /\ f.slot = g.slot
  /\ f.pc = "dwait" /\ f.lo = q => g.pc = "dwait" /\ g.lo = q
  /\ (\A i \in {0, 1} : <<q, i>> \in f.held => <<q, i>> \in g.held) /\ (q \in f.wrote => q \in g.wrote)

LEMMA SameStep ==
  ASSUME NEW T, NEW t \in Threads, NEW f, NEW p, NEW q,
         NEW new, NEW disk, NEW bad, PageInv(p, q, T, new, disk, bad),
         Same(T[t], f, q), NEW U, Goes(T, t, f, U)
  PROVE  PageInv(p, q, U, new, disk, bad)
<1>1. U[t] = f /\ \A u \in Threads \ {t} : U[u] = T[u]
  BY GoesSays
<1>2. PCounts(p, q, U)
  <2>1. (Rd(f, q) <=> Rd(T[t], q)) /\ (Wr(f, q) <=> Wr(T[t], q)) /\ (Fl(f, q) <=> Fl(T[t], q))
    BY DEF Same
  <2> QED BY <2>1, CountsNow DEF PCounts, PageInv
<1>3. POwn(p, q, U)
  <2>1. /\ Fills(f, q) <=> Fills(T[t], q)
        /\ Loads(f, q) <=> Loads(T[t], q)
    BY DEF Same, Fills, Direct
  <2> QED BY <1>1, <2>1 DEF PageInv, POwn, OwnBy, Same, Direct
<1>4. PData(p, q, U, new, disk, bad)
  BY <1>1 DEF PageInv, PData, DataBy, Same, Direct
<1> QED BY <1>2, <1>3, <1>4 DEF PageInv

(* A page of which nothing changes.                                        *)
Quiet(g, f, q) == Same(g, f, q) \/ (Away(g, q) /\ Away(f, q))
LEMMA QuietStep ==
  ASSUME NEW T, ThreadsOK(T), NEW t \in Threads, NEW f, ThreadOK(f), NEW p, NEW q,
         NEW new, NEW disk, NEW bad, PageInv(p, q, T, new, disk, bad), Quiet(T[t], f, q),
         NEW U, Goes(T, t, f, U), NEW bad2, bad \subseteq bad2
  PROVE  StepOK(p, p, q, U, new, disk, bad2)
<1>1. PageInv(p, q, U, new, disk, bad)
  BY SameStep, AwayStep DEF Quiet
<1>2. PageInv(p, q, U, new, disk, bad2)
  BY <1>1 DEF PageInv, PData, DataBy
<1> QED BY <1>2, AlikeTidy DEF Alike

(* A dirty page that nobody writes is filled.                              *)
LEMMA FillsHold ==
  ASSUME NEW f, ThreadOK(f), NEW q, Fills(f, q)
  PROVE  Rd(f, q) \/ Wr(f, q)
BY Zenon DEF ThreadOK, Fills, Loads, Rd, Wr, FlushPcs, StackPcs, ForcePcs, WritePcs, ReadPcs

LEMMA DirtyFilled ==
  ASSUME NEW T, ThreadsOK(T), NEW p, NEW q, NEW new, NEW disk, NEW bad,
         PageInv(p, q, T, new, disk, bad), p.in, p.wr = 0
  PROVE  /\ p.dirty => ~p.empty
         /\ p.rd = 0 => ~p.empty
<1>1. \A u \in Threads : ~Wr(T[u], q)
  BY Holders DEF PageInv
<1>2. p.rd = 0 => \A u \in Threads : ~Rd(T[u], q)
  BY Holders DEF PageInv
<1>3. ASSUME p.empty PROVE ~p.dirty /\ p.rd # 0
  <2>1. PICK u \in Threads : Fills(T[u], q)
    BY <1>3 DEF PageInv, POwn, OwnBy
  <2>2. Rd(T[u], q) /\ ThreadOK(T[u])
    BY <1>1, <2>1, FillsHold DEF ThreadsOK
  <2>3. Loads(T[u], q) /\ T[u].op = "read"
    BY <1>1, <2>1, <2>2, Zenon DEF ThreadOK, Fills, Loads, Rd, Wr, FlushPcs, StackPcs, ForcePcs, WritePcs, ReadPcs
  <2> QED BY <1>2, <2>2, <2>3 DEF PageInv, POwn, OwnBy
<1> QED BY <1>3

(* A clean page that nobody uses is evicted or released.                   *)
LEMMA BlankType ==
  /\ Blank \in PageType /\ Blank.data[0] = Zero
  /\ Blank.in /\ Blank.empty /\ ~Blank.dirty /\ ~Blank.torel
  /\ Blank.rd = 0 /\ Blank.wr = 0 /\ Blank.fl = 0 /\ Blank.cur = 0
<1>1. Zero \in Buf /\ NULL \in Buf
  BY DEF Buf, Val, Zero, Slots
<1> DEFINE d == [i \in {0, 1} |-> IF i = 0 THEN Zero ELSE NULL]
           e == [i \in {0, 1} |-> 0]
<1>2. d \in [{0, 1} -> Buf] /\ e \in [{0, 1} -> Int] /\ d[0] = Zero
  BY <1>1
<1>3. Blank = [in |-> TRUE, empty |-> TRUE, dirty |-> FALSE, torel |-> FALSE,
               rd |-> 0, wr |-> 0, fl |-> 0, cur |-> 0, data |-> d, use |-> e]
  BY Zenon DEF Blank
<1> HIDE DEF d, e
<1> QED BY <1>2, <1>3 DEF PageType

LEMMA AbsentType == Absent \in PageType /\ ~Absent.in /\ Absent.rd = 0 /\ Absent.wr = 0 /\ Absent.fl = 0
<1> DEFINE d == [i \in {0, 1} |-> NULL]
<1>1. d \in [{0, 1} -> Buf]
  BY DEF Buf
<1>2. Absent = [Blank EXCEPT !.in = FALSE, !.data = d]
  BY DEF Absent
<1> HIDE DEF d
<1> QED BY <1>1, <1>2, BlankType DEF PageType

LEMMA EvictStep ==
  ASSUME NEW T, ThreadsOK(T), NEW p, NEW q, NEW new, NEW disk, NEW bad,
         PageInv(p, q, T, new, disk, bad), p.in, Pending(p) = 0, ~p.dirty
  PROVE  StepOK(p, Absent, q, T, new, disk, bad)
<1>0. p.rd \in Nat /\ p.wr \in Nat /\ p.fl \in Nat
  BY Holders DEF PageInv
<1>1. p.rd = 0 /\ p.wr = 0 /\ p.fl = 0
  BY <1>0 DEF Pending
<1>2. ~p.empty
  BY <1>1, DirtyFilled
<1>3. \A u \in Threads : Away(T[u], q) /\ ThreadOK(T[u])
  BY <1>1, Holders DEF Away, PageInv, ThreadsOK
<1>4. \A u \in Threads : ~Fills(T[u], q) /\ Fits(T[u], Absent, q)
  BY <1>3, AwayFits
<1>5. PCounts(Absent, q, T)
  BY <1>1, AbsentType DEF PageInv, PCounts
<1>6. POwn(Absent, q, T)
  BY <1>4, AbsentType DEF POwn, OwnBy, Fits, Fills
<1>7. PData(Absent, q, T, new, disk, bad)
  BY <1>1, <1>2, <1>4, AbsentType DEF PageInv, PData, DataBy, Fits, Fills
<1>8. PTidy(p, Absent, q, T, new, disk, bad)
  BY <1>4 DEF PTidy, Fits
<1> QED BY <1>5, <1>6, <1>7, <1>8, AbsentType DEF StepOK, PageInv

-----------------------------------------------------------------------------
(* Steps of a flush on a page.                                             *)

FKin(g, f) ==
  /\ g.pc \in FlushPcs /\ f.pc \in FlushPcs
  /\ f.op = g.op /\ f.page = g.page /\ f.ret = g.ret /\ f.slot = g.slot

LEMMA FKinSays ==
  ASSUME NEW g, NEW f, FKin(g, f), NEW q
  PROVE  /\ Rd(f, q) <=> Rd(g, q)
         /\ ~Wr(f, q) /\ ~Wr(g, q)
         /\ Loads(f, q) <=> Loads(g, q)
         /\ Fills(f, q) <=> Loads(g, q)
         /\ Fills(g, q) <=> Loads(g, q)
         /\ f.pc \notin Direct /\ g.pc \notin Direct
         /\ f.op = g.op /\ f.slot = g.slot
BY DEF FKin, Rd, Wr, Loads, Fills, Direct, FlushPcs, StackPcs

LEMMA FKinSame ==
  ASSUME NEW g, NEW f, FKin(g, f), NEW q,
         f.pc = "dwait" /\ f.lo = q <=> g.pc = "dwait" /\ g.lo = q,
         \A i \in {0, 1} : <<q, i>> \in f.held <=> <<q, i>> \in g.held,
         q \in f.wrote => q \in g.wrote
  PROVE  Quiet(g, f, q)
<1>1. Fl(f, q) = Fl(g, q)
  BY DEF Fl
<1>2. Rd(f, q) = Rd(g, q) /\ Wr(f, q) = Wr(g, q) /\ Loads(f, q) = Loads(g, q)
  <2>1. Rd(f, q) \in BOOLEAN /\ Rd(g, q) \in BOOLEAN /\ Wr(f, q) \in BOOLEAN /\ Wr(g, q) \in BOOLEAN
        /\ Loads(f, q) \in BOOLEAN /\ Loads(g, q) \in BOOLEAN
    BY DEF Rd, Wr, Loads
  <2> QED BY <2>1, FKinSays
<1> QED BY <1>1, <1>2, FKinSays DEF Quiet, Same

(* A flush waits for the writers of a dirty page.                          *)
LEMMA FlushWaits ==
  ASSUME NEW T, ThreadsOK(T), NEW t \in Threads, NEW f, ThreadOK(f), NEW p, NEW q \in Pages,
         NEW new, NEW disk, NEW bad, PageInv(p, q, T, new, disk, bad), NEW U, Goes(T, t, f, U),
         p.in, p.dirty, p.fl = 0, FKin(T[t], f), f.pc = "dwait", f.lo = q,
         NEW p2 \in PageType, Alike(p, p2), p2.rd = p.rd, p2.fl = p.fl + 1
  PROVE  StepOK(p, p2, q, U, new, disk, bad)
<1>1. U[t] = f /\ \A u \in Threads \ {t} : U[u] = T[u]
  BY GoesSays
<1>2. /\ (Rd(f, q) <=> Rd(T[t], q)) /\ (Wr(f, q) <=> Wr(T[t], q)) /\ Fl(f, q) /\ ~Fl(T[t], q)
      /\ (Loads(f, q) <=> Loads(T[t], q)) /\ (Fills(f, q) <=> Fills(T[t], q))
  BY FKinSays, Holders DEF Fl, PageInv
<1>3. PCounts(p2, q, U)
  <2>1. PCounts(p, q, T)
    BY DEF PageInv
  <2>2. /\ Cardinality(RdBy(U, q)) = p.rd /\ Cardinality(WrBy(U, q)) = p.wr
        /\ Cardinality(FlBy(U, q)) = p.fl + 1
    BY <1>2, <2>1, CountsNow
  <2> QED BY <2>2 DEF PCounts, Alike
<1>4. f.held = {}
  BY Zenon DEF ThreadOK
<1>5. f.pc \notin Direct /\ T[t].pc \notin Direct /\ f.op = T[t].op /\ f.slot = T[t].slot
  BY FKinSays
<1>6. POwn(p2, q, U)
  BY <1>1, <1>2, <1>4, <1>5 DEF PageInv, POwn, OwnBy, Alike, Direct
<1>7. PData(p2, q, U, new, disk, bad)
  BY <1>1, <1>2, <1>4, <1>5 DEF PageInv, PData, DataBy, Alike, Direct
<1> QED BY <1>3, <1>6, <1>7, AlikeTidy DEF PageInv

LEMMA FlCounts ==
  ASSUME NEW T, NEW t \in Threads, NEW f, NEW p, NEW q, PCounts(p, q, T), NEW U, Goes(T, t, f, U),
         Rd(f, q) <=> Rd(T[t], q), Wr(f, q) <=> Wr(T[t], q), Fl(f, q), p.fl = 0 \/ Fl(T[t], q),
         NEW p2, p2.rd = p.rd, p2.wr = p.wr, p2.fl = 1
  PROVE  PCounts(p2, q, U)
<1>1. (p.fl = 0 <=> ~Fl(T[t], q)) /\ p.fl \in Nat /\ p.fl <= 1
  BY Holders DEF PCounts
<1>2. /\ Cardinality(RdBy(U, q)) = p.rd /\ Cardinality(WrBy(U, q)) = p.wr
      /\ Cardinality(FlBy(U, q)) = 1
  BY <1>1, CountsNow
<1> QED BY <1>2 DEF PCounts

(* A flush takes the current copy of a dirty page nobody writes, at once   *)
(* or after it waited for it.                                              *)
LEMMA FlushTakes ==
  ASSUME NEW T, ThreadsOK(T), NEW t \in Threads, NEW f, ThreadOK(f), NEW p, NEW q \in Pages,
         NEW new \in Val, NEW disk, NEW bad, PageInv(p, q, T, new, disk, bad), NEW U, Goes(T, t, f, U),
         p.in, p.dirty, p.wr = 0, p.fl = 0 \/ Fl(T[t], q), FKin(T[t], f),
         f.pc = "fio", <<q, p.cur>> \in f.held, q \notin f.wrote,
         NEW p2 \in PageType, Alike(p, p2), p2.rd = p.rd, p2.fl = 1
  PROVE  StepOK(p, p2, q, U, new, disk, bad)
<1>1. U[t] = f /\ \A u \in Threads \ {t} : U[u] = T[u]
  BY GoesSays
<1>0. p.cur \in {0, 1}
  BY DEF PageInv, PageType
<1>2. /\ (Rd(f, q) <=> Rd(T[t], q)) /\ (Wr(f, q) <=> Wr(T[t], q)) /\ Fl(f, q)
      /\ (Loads(f, q) <=> Loads(T[t], q)) /\ (Fills(f, q) <=> Fills(T[t], q))
  BY <1>0, FKinSays DEF Fl
<1>3. PCounts(p2, q, U)
  <2>1. PCounts(p, q, T)
    BY DEF PageInv
  <2>2. p2.rd = p.rd /\ p2.wr = p.wr
    BY DEF Alike
  <2> QED BY <1>2, <2>1, <2>2, FlCounts
<1>4. \A i \in {0, 1} : <<q, i>> \in f.held => i = p.cur
  BY <1>0, Zenon DEF ThreadOK
<1>5. f.pc \notin Direct /\ T[t].pc \notin Direct /\ f.op = T[t].op /\ f.slot = T[t].slot
  BY FKinSays
<1>6. ~p.empty
  BY DirtyFilled
<1>7. POwn(p2, q, U)
  BY <1>1, <1>2, <1>4, <1>5, <1>6 DEF PageInv, POwn, OwnBy, Alike, Direct
<1>8. new # NULL
  BY DEF Val, NULL, Slots
<1>9. PData(p2, q, U, new, disk, bad)
  BY <1>1, <1>2, <1>4, <1>5, <1>6, <1>8 DEF PageInv, PData, DataBy, Alike, Direct
<1> QED BY <1>3, <1>7, <1>9, AlikeTidy DEF PageInv

(* The child write of a held copy ended.                                   *)
WritesCopy(T, t, f, U, p, p2, q, i, new, disk, bad, disk2, bad2) ==
  /\ ThreadsOK(T) /\ t \in Threads /\ ThreadOK(f) /\ q \in Pages /\ i \in {0, 1} /\ new \in Val
  /\ PageInv(p, q, T, new, disk, bad) /\ Goes(T, t, f, U) /\ FKin(T[t], f) /\ f.pc = "fio" /\ T[t].pc = "fio"
  /\ f.held = T[t].held /\ f.wrote = T[t].wrote \cup {q} /\ <<q, i>> \in T[t].held
  /\ p2 \in PageType /\ Alike(p, p2) /\ p2.rd = p.rd /\ p2.fl = p.fl
  /\ bad \subseteq bad2 /\ (q \notin bad2 /\ p.data[i] # NULL => disk2 = p.data[i])
LEMMA FlushWrites ==
  ASSUME NEW T, NEW t, NEW f, NEW U, NEW p, NEW p2, NEW q, NEW i, NEW new, NEW disk, NEW bad, NEW disk2, NEW bad2,
         WritesCopy(T, t, f, U, p, p2, q, i, new, disk, bad, disk2, bad2)
  PROVE  StepOK(p, p2, q, U, new, disk2, bad2) /\ p.in /\ p.dirty /\ ~p.empty /\ (q \notin bad2 => p.data[i] # NULL)
<1> SUFFICES ASSUME ThreadsOK(T), t \in Threads, ThreadOK(f), q \in Pages, i \in {0, 1}, new \in Val,
                    PageInv(p, q, T, new, disk, bad), Goes(T, t, f, U), FKin(T[t], f), f.pc = "fio", T[t].pc = "fio",
                    f.held = T[t].held, f.wrote = T[t].wrote \cup {q}, <<q, i>> \in T[t].held,
                    p2 \in PageType, Alike(p, p2), p2.rd = p.rd, p2.fl = p.fl,
                    bad \subseteq bad2, q \notin bad2 /\ p.data[i] # NULL => disk2 = p.data[i]
             PROVE  StepOK(p, p2, q, U, new, disk2, bad2) /\ p.in /\ p.dirty /\ ~p.empty /\ (q \notin bad2 => p.data[i] # NULL)
  BY DEF WritesCopy
<1>1. U[t] = f /\ \A u \in Threads \ {t} : U[u] = T[u]
  BY GoesSays
<1>2. /\ (Rd(f, q) <=> Rd(T[t], q)) /\ (Wr(f, q) <=> Wr(T[t], q)) /\ (Fl(f, q) <=> Fl(T[t], q)) /\ Fl(T[t], q)
      /\ (Loads(f, q) <=> Loads(T[t], q)) /\ (Fills(f, q) <=> Fills(T[t], q))
  BY FKinSays DEF Fl
<1>3. PCounts(p2, q, U)
  BY <1>2, CountsNow DEF PCounts, PageInv, Alike
<1>4. \A j \in {0, 1} : <<q, j>> \in f.held => j = i
  <2>1. <<q, i>> \in f.held
    OBVIOUS
  <2>2. ~(<<q, 0>> \in f.held /\ <<q, 1>> \in f.held)
    BY Zenon DEF ThreadOK
  <2> QED BY <2>1, <2>2
<1>5. f.pc \notin Direct /\ T[t].pc \notin Direct /\ f.op = T[t].op /\ f.slot = T[t].slot
  BY FKinSays
<1>6. p.in /\ p.dirty /\ ~p.empty /\ (q \notin bad2 => p.data[i] # NULL)
  BY DEF PageInv, POwn, OwnBy, PData, DataBy
<1>7. POwn(p2, q, U)
  BY <1>1, <1>2, <1>5, <1>6 DEF PageInv, POwn, OwnBy, Alike, Direct
<1>8. \A u \in Threads \ {t}, j \in {0, 1} : <<q, j>> \notin T[u].held
  <2>1. \A u \in Threads \ {t} : ~Fl(T[u], q)
    BY <1>2, Holders DEF PageInv
  <2> QED BY <2>1 DEF Fl
<1>9. \A u \in Threads : ~Loads(T[u], q)
  BY <1>6 DEF PageInv, POwn, OwnBy
<1>10. PData(p2, q, U, new, disk2, bad2)
  <2> SUFFICES ASSUME q \notin bad2 PROVE PData(p2, q, U, new, disk2, bad2)
    BY DEF PData, DataBy
  <2>1. p.data[p.cur] = new /\ disk2 = p.data[i]
    BY <1>6 DEF PageInv, PData, DataBy
  <2>2. \A u \in Threads : ~Loads(U[u], q)
    BY <1>1, <1>2, <1>9
  <2>3. \A u \in Threads, j \in {0, 1} : <<q, j>> \in U[u].held => j = i
    BY <1>1, <1>4, <1>8
  <2> QED BY <1>6, <2>1, <2>2, <2>3 DEF PData, DataBy, Alike
<1> QED BY <1>3, <1>6, <1>7, <1>10, AlikeTidy DEF PageInv

(* A written copy is given back: the page is clean if it was the current   *)
(* copy, and the copy may be freed if it was not.                          *)
GivesCopy(T, t, f, U, p, p2, q, i, new, disk, bad) ==
  /\ ThreadsOK(T) /\ t \in Threads /\ ThreadOK(f) /\ q \in Pages /\ i \in {0, 1} /\ new \in Val
  /\ PageInv(p, q, T, new, disk, bad) /\ Goes(T, t, f, U) /\ FKin(T[t], f) /\ T[t].pc = "fio" /\ f.pc \in {"fio", "fscan"}
  /\ f.wrote = T[t].wrote /\ <<q, i>> \in T[t].held /\ q \in T[t].wrote /\ f.held = T[t].held \ {<<q, i>>}
  /\ p2 \in PageType /\ p2.in = p.in /\ p2.empty = p.empty /\ p2.rd = p.rd /\ p2.wr = p.wr
  /\ p2.fl = p.fl - 1 /\ p2.cur = p.cur /\ p2.data[p.cur] = p.data[p.cur]
  /\ p2.dirty = (IF i = p.cur THEN ~p.dirty ELSE p.dirty)
LEMMA FlushGivesBack ==
  ASSUME NEW T, NEW t, NEW f, NEW U, NEW p, NEW p2, NEW q, NEW i, NEW new, NEW disk, NEW bad,
         GivesCopy(T, t, f, U, p, p2, q, i, new, disk, bad)
  PROVE  StepOK(p, p2, q, U, new, disk, bad)
<1> SUFFICES ASSUME ThreadsOK(T), t \in Threads, ThreadOK(f), q \in Pages, i \in {0, 1}, new \in Val,
                    PageInv(p, q, T, new, disk, bad), Goes(T, t, f, U), FKin(T[t], f), T[t].pc = "fio", f.pc \in {"fio", "fscan"},
                    f.wrote = T[t].wrote, <<q, i>> \in T[t].held, q \in T[t].wrote, f.held = T[t].held \ {<<q, i>>},
                    p2 \in PageType, p2.in = p.in, p2.empty = p.empty, p2.rd = p.rd, p2.wr = p.wr,
                    p2.fl = p.fl - 1, p2.cur = p.cur, p2.data[p.cur] = p.data[p.cur],
                    p2.dirty = (IF i = p.cur THEN ~p.dirty ELSE p.dirty)
             PROVE  StepOK(p, p2, q, U, new, disk, bad)
  BY DEF GivesCopy
<1>1. U[t] = f /\ \A u \in Threads \ {t} : U[u] = T[u]
  BY GoesSays
<1>2. \A j \in {0, 1} : <<q, j>> \notin f.held
  <2>1. ~(<<q, 0>> \in T[t].held /\ <<q, 1>> \in T[t].held)
    BY Zenon DEF ThreadsOK, ThreadOK
  <2> QED BY <2>1
<1>3. /\ (Rd(f, q) <=> Rd(T[t], q)) /\ (Wr(f, q) <=> Wr(T[t], q)) /\ ~Fl(f, q) /\ Fl(T[t], q)
      /\ (Loads(f, q) <=> Loads(T[t], q)) /\ (Fills(f, q) <=> Fills(T[t], q))
  BY <1>2, FKinSays DEF Fl
<1>4. PCounts(p2, q, U)
  <2>1. PCounts(p, q, T)
    BY DEF PageInv
  <2>2. p.fl \in Nat /\ p.fl <= 1
    BY <2>1, Holders DEF PCounts
  <2>3. /\ Cardinality(RdBy(U, q)) = p.rd /\ Cardinality(WrBy(U, q)) = p.wr
        /\ Cardinality(FlBy(U, q)) = p.fl - 1
    BY <1>3, <2>1, CountsNow
  <2> QED BY <2>2, <2>3 DEF PCounts
<1>5. f.pc \notin Direct /\ f.pc # "dwait"
  BY FKinSays
<1>6. p.in /\ p.dirty /\ ~p.empty /\ (i = p.cur => p.wr = 0)
  BY DEF PageInv, POwn, OwnBy
<1>7. \A u \in Threads : ~Fl(U[u], q)
  <2>1. \A u \in Threads \ {t} : ~Fl(T[u], q)
    BY <1>3, Holders DEF PageInv
  <2> QED BY <1>1, <1>3, <2>1
<1>8. \A u \in Threads : ~Loads(U[u], q)
  BY <1>1, <1>3, <1>6 DEF PageInv, POwn, OwnBy
<1>9. POwn(p2, q, U)
  <2>1. \A u \in Threads \ {t} : OwnBy(T[u], p, q)
    BY DEF PageInv, POwn
  <2>2. ASSUME NEW u \in Threads PROVE OwnBy(U[u], p2, q)
    BY <1>1, <1>5, <1>6, <1>7, <1>8, <2>1 DEF OwnBy, Fl, Direct
  <2> QED BY <1>6, <2>2 DEF POwn
<1>10. ASSUME q \notin bad PROVE p.data[p.cur] = new /\ disk = p.data[i]
  BY <1>6, <1>10 DEF PageInv, PData, DataBy
<1>11. PData(p2, q, U, new, disk, bad)
  <2> SUFFICES ASSUME q \notin bad PROVE PData(p2, q, U, new, disk, bad)
    BY DEF PData
  <2>1. \A u \in Threads \ {t} : DataBy(T[u], p, q, new, disk)
    BY DEF PageInv, PData
  <2>2. ASSUME NEW u \in Threads PROVE DataBy(U[u], p2, q, new, disk)
    BY <1>1, <1>5, <1>6, <1>7, <1>8, <2>1 DEF DataBy, Fl, Direct
  <2> QED BY <1>6, <1>10, <2>2 DEF PData
<1>12. PTidy(p, p2, q, U, new, disk, bad)
  BY <1>6, <1>7, <1>10 DEF PTidy, Fl
<1> QED BY <1>4, <1>9, <1>11, <1>12 DEF StepOK, PageInv

(* Two steps in one.                                                       *)
LEMMA TidyThen ==
  ASSUME NEW p, NEW p2, NEW p3, NEW q, NEW U, NEW new, NEW disk, NEW bad,
         PTidy(p, p2, q, U, new, disk, bad), StepOK(p2, p3, q, U, new, disk, bad)
  PROVE  StepOK(p, p3, q, U, new, disk, bad)
BY DEF PTidy, StepOK

-----------------------------------------------------------------------------
(* Steps of reads and writes on a page.                                    *)

(* A page changes where no property looks while a thread leaves it alone.  *)
LEMMA AlikeQuiet ==
  ASSUME NEW T, ThreadsOK(T), NEW t \in Threads, NEW f, ThreadOK(f), NEW p, NEW q,
         NEW new, NEW disk, NEW bad, PageInv(p, q, T, new, disk, bad), Quiet(T[t], f, q),
         NEW U, Goes(T, t, f, U), p.in, NEW p2 \in PageType, Alike(p, p2), p2.rd = p.rd, p2.fl = p.fl
  PROVE  StepOK(p, p2, q, U, new, disk, bad)
<1>1. PageInv(p2, q, T, new, disk, bad)
  BY UseStep
<1>2. StepOK(p2, p2, q, U, new, disk, bad)
  BY <1>1, QuietStep
<1> QED BY <1>2, AlikeTidy DEF StepOK

(* The copy made for a write while a flush has the page.                   *)
LEMMA CowStep ==
  ASSUME NEW T, ThreadsOK(T), NEW p, NEW q,
         NEW new, NEW disk, NEW bad, PageInv(p, q, T, new, disk, bad),
         p.in, ~p.empty, p.rd = 0, p.wr = 0, p.data[1 - p.cur] = NULL,
         NEW p2 \in PageType, p2.in, ~p2.empty, p2.dirty = p.dirty, p2.rd = p.rd, p2.wr = p.wr, p2.fl = p.fl,
         p2.cur = 1 - p.cur, p2.data[1 - p.cur] = p.data[p.cur], p2.data[p.cur] = p.data[p.cur]
  PROVE  StepOK(p, p2, q, T, new, disk, bad)
<1>1. p.cur \in {0, 1}
  BY DEF PageInv, PageType
<1>2. PCounts(p2, q, T)
  BY DEF PageInv, PCounts
<1>3. \A u \in Threads : ~Rd(T[u], q) /\ ~Wr(T[u], q) /\ ThreadOK(T[u]) /\ ~Loads(T[u], q)
  <2>1. \A u \in Threads : OwnBy(T[u], p, q)
    BY DEF PageInv, POwn
  <2> QED BY <2>1, Holders DEF PageInv, ThreadsOK, OwnBy
<1>4. \A u \in Threads : OwnBy(T[u], p2, q)
  <2> TAKE u \in Threads
  <2>1. OwnBy(T[u], p, q) /\ ~Rd(T[u], q) /\ ~Wr(T[u], q) /\ ThreadOK(T[u]) /\ ~Loads(T[u], q)
    BY <1>3 DEF PageInv, POwn
  <2> QED BY <2>1, Zenon DEF OwnBy, Rd, Wr, ThreadOK, ReadPcs, WritePcs
<1>5. POwn(p2, q, T)
  BY <1>4 DEF POwn
<1>6. ASSUME q \notin bad, NEW u \in Threads, NEW i \in {0, 1}, <<q, i>> \in T[u].held
      PROVE  i = p.cur
  <2>1. p.data[i] # NULL
    BY <1>6 DEF PageInv, PData, DataBy
  <2> QED BY <1>1, <2>1
<1>7. PData(p2, q, T, new, disk, bad)
  <2> SUFFICES ASSUME q \notin bad PROVE PData(p2, q, T, new, disk, bad)
    BY DEF PData
  <2>1. ASSUME NEW u \in Threads PROVE DataBy(T[u], p2, q, new, disk)
    <3>1. DataBy(T[u], p, q, new, disk) /\ ~Rd(T[u], q) /\ ~Wr(T[u], q) /\ ThreadOK(T[u]) /\ ~Loads(T[u], q)
      BY <1>3 DEF PageInv, PData
    <3> QED BY <1>6, <3>1, ZenonT(60) DEF DataBy, Rd, Wr, ThreadOK, ReadPcs, WritePcs
  <2> QED BY <2>1 DEF PageInv, PData
<1>8. PTidy(p, p2, q, T, new, disk, bad)
  BY <1>6 DEF PTidy
<1> QED BY <1>2, <1>5, <1>7, <1>8 DEF StepOK, PageInv

(* A page is made by the one thread that has to do with it.                *)
LEMMA CreateStep ==
  ASSUME NEW T, ThreadsOK(T), NEW t \in Threads, NEW f, ThreadOK(f), NEW p, NEW q,
         NEW new, NEW disk, NEW bad, PageInv(p, q, T, new, disk, bad), NEW U, Goes(T, t, f, U), ~p.in,
         NEW p2 \in PageType, p2.in, p2.cur = 0, p2.fl = 0,
         p2.rd = (IF Rd(f, q) THEN 1 ELSE 0), p2.wr = (IF Wr(f, q) THEN 1 ELSE 0), ~Fl(f, q),
         p2.empty => Fills(f, q), OwnBy(f, p2, q),
         NEW new2, q \notin bad => /\ ~p2.empty => p2.data[0] = new2
                                   /\ ~p2.empty /\ ~p2.dirty /\ p2.wr = 0 => p2.data[0] = disk
                                   /\ DataBy(f, p2, q, new2, disk)
  PROVE  StepOK(p, p2, q, U, new2, disk, bad)
<1>1. U[t] = f /\ \A u \in Threads \ {t} : U[u] = T[u]
  BY DEF Goes
<1>2. p.rd = 0 /\ p.wr = 0 /\ p.fl = 0
  BY AbsentType DEF PageInv, POwn
<1>3. \A u \in Threads : Away(T[u], q) /\ ThreadOK(T[u])
  BY <1>2, Holders DEF PageInv, Away, ThreadsOK
<1>4. \A u \in Threads : ~Fills(T[u], q) /\ Fits(T[u], p2, q)
  BY <1>3, AwayFits
<1>5. PCounts(p2, q, U)
  <2>1. PCounts(p, q, T)
    BY DEF PageInv
  <2>2. ~Rd(T[t], q) /\ ~Wr(T[t], q) /\ ~Fl(T[t], q)
    BY <1>3 DEF Away
  <2>3. /\ Cardinality(RdBy(U, q)) = (IF Rd(f, q) THEN 1 ELSE 0)
        /\ Cardinality(WrBy(U, q)) = (IF Wr(f, q) THEN 1 ELSE 0)
        /\ Cardinality(FlBy(U, q)) = 0
    BY <1>2, <2>1, <2>2, CountsNow
  <2> QED BY <2>3 DEF PCounts
<1>6. \A u \in Threads : OwnBy(U[u], p2, q)
  BY <1>1, <1>4 DEF OwnBy, Fits, Fills
<1>7. POwn(p2, q, U)
  BY <1>1, <1>4, <1>6 DEF POwn
<1>8. PData(p2, q, U, new2, disk, bad)
  <2> SUFFICES ASSUME q \notin bad PROVE PData(p2, q, U, new2, disk, bad)
    BY DEF PData
  <2>1. \A u \in Threads : DataBy(U[u], p2, q, new2, disk)
    BY <1>1, <1>4 DEF DataBy, Fits, Fills
  <2> QED BY <2>1 DEF PData
<1>9. PTidy(p, p2, q, U, new2, disk, bad)
  <2>1. ASSUME NEW u \in Threads, NEW i \in {0, 1} PROVE <<q, i>> \notin U[u].held
    BY <1>1, <1>4, <2>1 DEF Fits, Fl
  <2> QED BY <2>1 DEF PTidy
<1> QED BY <1>5, <1>7, <1>8, <1>9 DEF StepOK, PageInv

(* A thread takes a filled page to copy from or into it; into it only      *)
(* when no flush has the page.                                             *)
LEMMA TakeStep ==
  ASSUME NEW T, ThreadsOK(T), NEW t \in Threads, NEW f, ThreadOK(f), NEW p, NEW q,
         NEW new, NEW disk, NEW bad, PageInv(p, q, T, new, disk, bad), NEW U, Goes(T, t, f, U),
         p.in, ~p.empty, ~Fills(T[t], q), ~Fl(T[t], q), f.page = q, f.slot = p.cur,
         f.pc = "rcopy" \/ (f.pc = "wcopy" /\ p.fl = 0),
         NEW p2 \in PageType, p2.in, ~p2.empty, p2.dirty = p.dirty, p2.cur = p.cur, p2.data = p.data, p2.fl = p.fl,
         p2.rd = p.rd + (IF Rd(f, q) THEN 1 ELSE 0) - (IF Rd(T[t], q) THEN 1 ELSE 0),
         p2.wr = p.wr + (IF Wr(f, q) THEN 1 ELSE 0)
  PROVE  StepOK(p, p2, q, U, new, disk, bad)
<1>1. U[t] = f /\ \A u \in Threads \ {t} : U[u] = T[u]
  BY GoesSays
<1>2. ~Wr(T[t], q)
  BY WrFills
<1>3. f.held = {} /\ ~Fl(f, q) /\ ~Loads(f, q)
  BY Zenon DEF ThreadOK, Fl, Loads, FlushPcs, StackPcs
<1>4. PCounts(p2, q, U)
  <2>1. PCounts(p, q, T)
    BY DEF PageInv
  <2>2. /\ Cardinality(RdBy(U, q)) = p.rd + (IF Rd(f, q) THEN 1 ELSE 0) - (IF Rd(T[t], q) THEN 1 ELSE 0)
        /\ Cardinality(WrBy(U, q)) = p.wr + (IF Wr(f, q) THEN 1 ELSE 0)
        /\ Cardinality(FlBy(U, q)) = p.fl /\ p.fl <= 1
    BY <1>2, <1>3, <2>1, CountsNow
  <2> QED BY <2>2 DEF PCounts
<1>5. p.fl = 0 => \A u \in Threads : ~Fl(T[u], q)
  BY Holders DEF PageInv
<1>6. f.pc = "rcopy" => ~Wr(f, q)
  BY DEF Wr
<1>7. p.wr \in Nat
  BY Holders DEF PageInv
<1>8. \A u \in Threads : OwnBy(U[u], p2, q)
  <2>1. \A u \in Threads \ {t} : OwnBy(T[u], p, q)
    BY DEF PageInv, POwn
  <2>2. ASSUME NEW u \in Threads \ {t} PROVE OwnBy(T[u], p2, q)
    <3>1. CASE p.fl = 0
      BY <1>5, <2>1, <3>1 DEF OwnBy, Fl
    <3>2. CASE p.fl # 0
      <4>1. p2.wr = p.wr
        BY <1>6, <1>7, <3>2
      <4> QED BY <2>1, <4>1 DEF OwnBy
    <3> QED BY <3>1, <3>2
  <2> QED BY <1>1, <1>3, <2>2 DEF OwnBy
<1>9. POwn(p2, q, U)
  BY <1>8 DEF POwn
<1>10. p2.wr = 0 => p.wr = 0
  BY <1>7
<1>11. PData(p2, q, U, new, disk, bad)
  <2> SUFFICES ASSUME q \notin bad PROVE PData(p2, q, U, new, disk, bad)
    BY DEF PData
  <2>1. \A u \in Threads \ {t} : DataBy(T[u], p, q, new, disk)
    BY DEF PageInv, PData
  <2>2. \A u \in Threads : DataBy(U[u], p2, q, new, disk)
    BY <1>1, <1>3, <2>1 DEF DataBy
  <2> QED BY <1>10, <2>2 DEF PageInv, PData
<1>12. PTidy(p, p2, q, U, new, disk, bad)
  BY DEF PTidy
<1> QED BY <1>4, <1>9, <1>11, <1>12 DEF StepOK, PageInv

(* A write goes into a filled page under the lock.                         *)
LEMMA HitStep ==
  ASSUME NEW T, ThreadsOK(T), NEW t \in Threads, NEW f, ThreadOK(f), NEW p, NEW q,
         NEW new, NEW disk, NEW bad, PageInv(p, q, T, new, disk, bad), NEW U, Goes(T, t, f, U),
         p.in, ~p.empty, ~Fills(T[t], q), ~Fl(T[t], q), Away(f, q),
         q \notin bad => \A u \in Threads : <<q, p.cur>> \notin T[u].held,
         NEW B, NEW v, NEW p2 \in PageType, p2.in, ~p2.empty, p2.dirty, p2.cur = p.cur, p2.wr = p.wr, p2.fl = p.fl,
         p2.rd = p.rd - (IF Rd(T[t], q) THEN 1 ELSE 0),
         p2.data[p.cur] = CopyIn(p.data[p.cur], B, v), p2.data[1 - p.cur] = p.data[1 - p.cur]
  PROVE  StepOK(p, p2, q, U, CopyIn(new, B, v), disk, bad)
<1>1. U[t] = f /\ \A u \in Threads \ {t} : U[u] = T[u]
  BY GoesSays
<1>0. p.cur \in {0, 1}
  BY DEF PageInv, PageType
<1>2. ~Wr(T[t], q) /\ ~Fills(f, q) /\ Fits(f, p, q)
  BY WrFills, AwayFits
<1>3. PCounts(p2, q, U)
  <2>1. PCounts(p, q, T) /\ ~Rd(f, q) /\ ~Wr(f, q) /\ ~Fl(f, q)
    BY DEF PageInv, Away
  <2>2. /\ Cardinality(RdBy(U, q)) = p.rd - (IF Rd(T[t], q) THEN 1 ELSE 0)
        /\ Cardinality(WrBy(U, q)) = p.wr
        /\ Cardinality(FlBy(U, q)) = p.fl /\ p.fl <= 1
    BY <1>2, <2>1, CountsNow
  <2> QED BY <2>2 DEF PCounts
<1>4. \A u \in Threads : OwnBy(U[u], p2, q)
  <2>1. \A u \in Threads \ {t} : OwnBy(T[u], p, q)
    BY DEF PageInv, POwn
  <2> QED BY <1>1, <1>2, <2>1 DEF OwnBy, Fits, Fills
<1>5. POwn(p2, q, U)
  BY <1>4 DEF POwn
<1>6. PData(p2, q, U, CopyIn(new, B, v), disk, bad)
  <2> SUFFICES ASSUME q \notin bad PROVE PData(p2, q, U, CopyIn(new, B, v), disk, bad)
    BY DEF PData
  <2>0. p.data[p.cur] = new
    BY DEF PageInv, PData
  <2>1. \A u \in Threads \ {t} : DataBy(T[u], p, q, new, disk) /\ OwnBy(T[u], p, q)
    BY DEF PageInv, PData, POwn
  <2>2. ASSUME NEW u \in Threads \ {t} PROVE DataBy(T[u], p2, q, CopyIn(new, B, v), disk)
    BY <1>0, <2>0, <2>1 DEF DataBy, OwnBy
  <2>3. DataBy(f, p2, q, CopyIn(new, B, v), disk)
    BY <1>2 DEF DataBy, Fits, Fills
  <2> QED BY <1>1, <2>0, <2>2, <2>3 DEF PData
<1>7. PTidy(p, p2, q, U, CopyIn(new, B, v), disk, bad)
  <2>1. \A i \in {0, 1} : <<q, i>> \notin f.held
    BY <1>2 DEF Fits
  <2> QED BY <1>0, <1>1, <2>1 DEF PTidy
<1> QED BY <1>3, <1>5, <1>6, <1>7 DEF StepOK, PageInv

(* The bytes go into the copy a writer holds.                              *)
LEMMA PutStep ==
  ASSUME NEW T, ThreadsOK(T), NEW t \in Threads, NEW f, ThreadOK(f), NEW p, NEW q,
         NEW new, NEW disk, NEW bad, PageInv(p, q, T, new, disk, bad), NEW U, Goes(T, t, f, U),
         T[t].pc = "wcopy", T[t].page = q, f.pc = "wrel", f.page = q, f.op = T[t].op, f.slot = T[t].slot,
         NEW v, NEW p2 \in PageType, p2.in = p.in, p2.empty = p.empty, p2.dirty = p.dirty, p2.cur = p.cur,
         p2.wr = p.wr, p2.fl = p.fl, p2.rd = p.rd,
         p2.data[p.cur] = CopyIn(p.data[p.cur], T[t].bytes, v), p2.data[1 - p.cur] = p.data[1 - p.cur]
  PROVE  StepOK(p, p2, q, U, CopyIn(new, T[t].bytes, v), disk, bad) /\ p.in
<1>1. U[t] = f /\ \A u \in Threads \ {t} : U[u] = T[u]
  BY DEF Goes
<1>0. p.cur \in {0, 1}
  BY DEF PageInv, PageType
<1>2. /\ T[t].op = "write" /\ T[t].held = {} /\ f.held = {}
      /\ ~Rd(T[t], q) /\ ~Rd(f, q) /\ Wr(T[t], q) /\ Wr(f, q) /\ ~Fl(T[t], q) /\ ~Fl(f, q)
      /\ ~Loads(T[t], q) /\ ~Loads(f, q) /\ Fills(T[t], q) /\ Fills(f, q)
  BY Zenon DEF ThreadsOK, ThreadOK, WritePcs, Rd, Wr, Fl, Loads, Fills, FlushPcs, StackPcs
<1>3. PCounts(p2, q, U)
  <2>1. PCounts(p, q, T)
    BY DEF PageInv
  <2>2. /\ Cardinality(RdBy(U, q)) = p.rd /\ Cardinality(WrBy(U, q)) = p.wr
        /\ Cardinality(FlBy(U, q)) = p.fl /\ p.fl <= 1
    BY <1>2, <2>1, CountsNow
  <2> QED BY <2>2 DEF PCounts
<1>4. p.wr # 0
  BY <1>2, Holders DEF PageInv
<1>5. p.in
  BY <1>4, AbsentType DEF PageInv, POwn
<1>6. \A u \in Threads \ {t} : ~(p.empty /\ Fills(T[u], q)) /\ OwnBy(T[u], p, q)
  BY <1>2, <1>5 DEF PageInv, POwn
<1>7. \A u \in Threads : OwnBy(U[u], p2, q)
  <2>1. OwnBy(T[t], p, q)
    BY DEF PageInv, POwn
  <2> QED BY <1>1, <1>2, <1>6, <2>1 DEF OwnBy
<1>8. POwn(p2, q, U)
  <2>1. \A u \in Threads : Fills(U[u], q) <=> Fills(T[u], q)
    BY <1>1, <1>2
  <2>2. p.empty => /\ p.cur = 0
                   /\ \E x \in Threads : Fills(T[x], q)
                   /\ \A x, u \in Threads : Fills(T[x], q) /\ Fills(T[u], q) => x = u
    BY <1>5 DEF PageInv, POwn
  <2> QED BY <1>5, <1>7, <2>1, <2>2 DEF POwn
<1>9. ASSUME NEW u \in Threads, NEW i \in {0, 1}, <<q, i>> \in T[u].held
      PROVE  i = 1 - p.cur /\ u # t
  BY <1>0, <1>2, <1>4, <1>9 DEF PageInv, POwn, OwnBy
<1>10. CopyIn(p.data[p.cur], T[t].bytes, v) = CopyIn(new, T[t].bytes, v) \/ q \in bad
  <2>1. q \in bad \/ p.data[p.cur] = new \/ T[t].bytes = Slots
    BY <1>5 DEF PageInv, PData, DataBy
  <2>2. T[t].bytes = Slots => CopyIn(p.data[p.cur], T[t].bytes, v) = CopyIn(new, T[t].bytes, v)
    BY DEF CopyIn
  <2> QED BY <2>1, <2>2
<1>11. PData(p2, q, U, CopyIn(new, T[t].bytes, v), disk, bad)
  <2> SUFFICES ASSUME q \notin bad PROVE PData(p2, q, U, CopyIn(new, T[t].bytes, v), disk, bad)
    BY DEF PData
  <2> DEFINE n == CopyIn(new, T[t].bytes, v)
  <2>0. p2.data[p2.cur] = n
    BY <1>10
  <2>1. \A u \in Threads \ {t} : DataBy(T[u], p, q, new, disk)
    BY DEF PageInv, PData
  <2> HIDE DEF n
  <2>2. ASSUME NEW u \in Threads \ {t} PROVE DataBy(T[u], p2, q, n, disk)
    <3>1. DataBy(T[u], p, q, new, disk) /\ OwnBy(T[u], p, q) /\ ~(p.empty /\ Fills(T[u], q))
      BY <1>6, <2>1
    <3> QED BY <1>0, <1>9, <2>0, <3>1 DEF DataBy, OwnBy, Fills
  <2>3. DataBy(f, p2, q, n, disk)
    BY <1>2, <2>0 DEF DataBy
  <2>4. PData(p2, q, U, n, disk, bad)
    BY <1>1, <1>4, <1>5, <2>0, <2>2, <2>3 DEF PData
  <2> QED BY <2>4 DEF n
<1>12. PTidy(p, p2, q, U, CopyIn(new, T[t].bytes, v), disk, bad)
  <2>1. ASSUME NEW u \in Threads, NEW i \in {0, 1}, <<q, i>> \in U[u].held PROVE p2.data[i] = p.data[i]
    BY <1>1, <1>2, <1>9, <2>1
  <2> QED BY <2>1 DEF PTidy
<1> QED BY <1>3, <1>5, <1>8, <1>11, <1>12 DEF StepOK, PageInv

(* A writer gives its page back, filled and dirty.                         *)
LEMMA WriteGivesBack ==
  ASSUME NEW T, ThreadsOK(T), NEW t \in Threads, NEW f, ThreadOK(f), NEW p, NEW q,
         NEW new, NEW disk, NEW bad, PageInv(p, q, T, new, disk, bad), NEW U, Goes(T, t, f, U),
         T[t].pc = "wrel", T[t].page = q, Away(f, q),
         NEW p2 \in PageType, p2.in = p.in, ~p2.empty, p2.dirty, p2.cur = p.cur,
         p2.wr = p.wr - 1, p2.fl = p.fl, p2.rd = p.rd, p2.data = p.data
  PROVE  StepOK(p, p2, q, U, new, disk, bad) /\ p.in
<1>1. U[t] = f /\ \A u \in Threads \ {t} : U[u] = T[u]
  BY DEF Goes
<1>2. /\ T[t].op = "write" /\ T[t].held = {}
      /\ ~Rd(T[t], q) /\ Wr(T[t], q) /\ ~Fl(T[t], q) /\ ~Loads(T[t], q) /\ Fills(T[t], q)
  BY Zenon DEF ThreadsOK, ThreadOK, WritePcs, Rd, Wr, Fl, Loads, Fills, FlushPcs, StackPcs
<1>3. PCounts(p2, q, U)
  <2>1. PCounts(p, q, T) /\ ~Rd(f, q) /\ ~Wr(f, q) /\ ~Fl(f, q)
    BY DEF PageInv, Away
  <2>2. /\ Cardinality(RdBy(U, q)) = p.rd /\ Cardinality(WrBy(U, q)) = p.wr - 1
        /\ Cardinality(FlBy(U, q)) = p.fl /\ p.fl <= 1
    BY <1>2, <2>1, CountsNow
  <2> QED BY <2>2 DEF PCounts
<1>4. p.wr # 0
  BY <1>2, Holders DEF PageInv
<1>5. p.in
  BY <1>4, AbsentType DEF PageInv, POwn
<1>6. \A u \in Threads \ {t} : ~(p.empty /\ Fills(T[u], q)) /\ OwnBy(T[u], p, q)
  BY <1>2, <1>5 DEF PageInv, POwn
<1>7. Fits(f, p2, q) /\ ~Fills(f, q)
  BY AwayFits
<1>8. \A u \in Threads : OwnBy(U[u], p2, q)
  BY <1>1, <1>4, <1>5, <1>6, <1>7 DEF OwnBy, Fits, Fills
<1>9. POwn(p2, q, U)
  BY <1>5, <1>8 DEF POwn
<1>10. PData(p2, q, U, new, disk, bad)
  <2> SUFFICES ASSUME q \notin bad PROVE PData(p2, q, U, new, disk, bad)
    BY DEF PData
  <2>1. \A u \in Threads : DataBy(T[u], p, q, new, disk)
    BY DEF PageInv, PData
  <2>2. p.data[p.cur] = new
    BY <2>1 DEF DataBy
  <2>3. \A u \in Threads \ {t} : DataBy(T[u], p2, q, new, disk)
    BY <1>6, <2>1 DEF DataBy, OwnBy, Fills
  <2>4. DataBy(f, p2, q, new, disk)
    BY <1>7 DEF DataBy, Fits, Fills
  <2> QED BY <1>1, <1>5, <2>2, <2>3, <2>4 DEF PData
<1>11. PTidy(p, p2, q, U, new, disk, bad)
  BY <1>5 DEF PTidy
<1> QED BY <1>3, <1>5, <1>9, <1>10, <1>11 DEF StepOK, PageInv

(* The child read of a page ended.                                         *)
LEMMA LoadStep ==
  ASSUME NEW T, ThreadsOK(T), NEW t \in Threads, NEW f, ThreadOK(f), NEW p, NEW q,
         NEW new, NEW disk, NEW bad, PageInv(p, q, T, new, disk, bad), NEW U, Goes(T, t, f, U),
         T[t].pc = "load", T[t].page = q, f.page = q, f.op = T[t].op, f.slot = T[t].slot,
         f.pc = (IF T[t].op = "read" THEN "rcopy" ELSE "wcopy"),
         NEW bad2, bad \subseteq bad2,
         NEW p2 \in PageType, p2.in = p.in, ~p2.empty, p2.dirty = p.dirty, p2.cur = p.cur,
         p2.wr = p.wr, p2.fl = p.fl, p2.rd = p.rd, q \notin bad2 => p2.data[T[t].slot] = disk
  PROVE  StepOK(p, p2, q, U, new, disk, bad2) /\ p.in
<1>1. U[t] = f /\ \A u \in Threads \ {t} : U[u] = T[u]
  BY DEF Goes
<1>2. /\ T[t].op \in {"read", "write"} /\ T[t].held = {} /\ f.held = {}
      /\ (Rd(T[t], q) <=> Rd(f, q)) /\ (Wr(T[t], q) <=> Wr(f, q)) /\ ~Fl(T[t], q) /\ ~Fl(f, q)
      /\ Loads(T[t], q) /\ ~Loads(f, q) /\ Fills(T[t], q)
  BY Zenon DEF ThreadsOK, ThreadOK, ForcePcs, ReadPcs, WritePcs, Rd, Wr, Fl, Loads, Fills, FlushPcs, StackPcs
<1>3. PCounts(p2, q, U)
  <2>1. PCounts(p, q, T)
    BY DEF PageInv
  <2>2. /\ Cardinality(RdBy(U, q)) = p.rd /\ Cardinality(WrBy(U, q)) = p.wr
        /\ Cardinality(FlBy(U, q)) = p.fl /\ p.fl <= 1
    BY <1>2, <2>1, CountsNow
  <2> QED BY <2>2 DEF PCounts
<1>5. p.in /\ p.empty /\ p.cur = 0 /\ T[t].slot = 0
  BY <1>2 DEF PageInv, POwn, OwnBy
<1>6. \A u \in Threads \ {t} : ~Fills(T[u], q) /\ OwnBy(T[u], p, q)
  BY <1>2, <1>5 DEF PageInv, POwn
<1>7. \A u \in Threads : OwnBy(U[u], p2, q)
  BY <1>1, <1>2, <1>5, <1>6 DEF OwnBy, Fills
<1>8. POwn(p2, q, U)
  BY <1>5, <1>7 DEF POwn
<1>9. \A u \in Threads, i \in {0, 1} : <<q, i>> \notin U[u].held
  BY <1>1, <1>2, <1>5, <1>6 DEF OwnBy
<1>10. PData(p2, q, U, new, disk, bad2)
  <2> SUFFICES ASSUME q \notin bad2 PROVE PData(p2, q, U, new, disk, bad2)
    BY DEF PData
  <2>1. disk = new
    BY <1>2 DEF PageInv, PData, DataBy
  <2>2. \A u \in Threads \ {t} : DataBy(T[u], p2, q, new, disk)
    BY <1>1, <1>6, <1>9 DEF DataBy, Fills
  <2>4. DataBy(f, p2, q, new, disk)
    BY <1>2 DEF DataBy
  <2> QED BY <1>1, <1>5, <2>1, <2>2, <2>4 DEF PData
<1>11. PTidy(p, p2, q, U, new, disk, bad2)
  BY <1>5, <1>9 DEF PTidy
<1> QED BY <1>3, <1>5, <1>8, <1>10, <1>11 DEF StepOK, PageInv

(* A copy was read: the thread keeps its hold.                             *)
LEMMA CopiedStep ==
  ASSUME NEW T, ThreadsOK(T), NEW t \in Threads, NEW f, ThreadOK(f), NEW p, NEW q,
         NEW new, NEW disk, NEW bad, PageInv(p, q, T, new, disk, bad), NEW U, Goes(T, t, f, U),
         T[t].pc = "rcopy", T[t].page = q, f.pc = "rrel", f.page = q, f.op = T[t].op, f.slot = T[t].slot
  PROVE  StepOK(p, p, q, U, new, disk, bad)
<1>1. OwnBy(T[t], p, q)
  BY DEF PageInv, POwn
<1>2. T[t].held = {} /\ f.held = {} /\ ~Fills(T[t], q) /\ ~Fills(f, q)
  BY Zenon DEF ThreadsOK, ThreadOK, Fills, Loads, FlushPcs, StackPcs
<1>3. Fits(f, p, q)
  BY <1>1, <1>2 DEF OwnBy, Fits
<1>4. Rd(T[t], q) /\ Rd(f, q) /\ ~Wr(T[t], q) /\ ~Wr(f, q) /\ ~Fl(T[t], q) /\ ~Fl(f, q)
  BY <1>2 DEF Rd, Wr, Fl
<1>5. PCounts(p, q, U)
  BY <1>4, CountsNow DEF PCounts, PageInv
<1>6. Alike(p, p) /\ p \in PageType
  BY DEF Alike, PageInv
<1>7. PageInv(p, q, U, new, disk, bad)
  BY <1>2, <1>3, <1>5, <1>6, LightStep
<1> QED BY <1>6, <1>7, AlikeTidy

(* The page after a write was released: the load of the write's page goes  *)
(* on.                                                                     *)
LEMMA HoldEnds ==
  ASSUME NEW T, ThreadsOK(T), NEW t \in Threads, NEW f, ThreadOK(f), NEW p, NEW q,
         NEW new, NEW disk, NEW bad, PageInv(p, q, T, new, disk, bad), NEW U, Goes(T, t, f, U),
         T[t].pc = "whold", T[t].ret = "load", T[t].page = q,
         f.pc = "load", f.page = q, f.op = T[t].op, f.slot = 0
  PROVE  StepOK(p, p, q, U, new, disk, bad)
<1>1. U[t] = f /\ \A u \in Threads \ {t} : U[u] = T[u]
  BY DEF Goes
<1>2. T[t].held = {} /\ f.held = {} /\ Loads(T[t], q) /\ Loads(f, q) /\ Fills(T[t], q) /\ Fills(f, q) /\ f.op = "write"
  BY Zenon DEF ThreadsOK, ThreadOK, Fills, Loads, FlushPcs, StackPcs, WritePcs
<1>4. ~Rd(T[t], q) /\ ~Rd(f, q) /\ Wr(T[t], q) /\ Wr(f, q) /\ ~Fl(T[t], q) /\ ~Fl(f, q)
  BY <1>2, Zenon DEF Rd, Wr, Fl, ThreadsOK, ThreadOK, FlushPcs, StackPcs, WritePcs
<1>5. PCounts(p, q, U)
  BY <1>4, CountsNow DEF PCounts, PageInv
<1>6. POwn(p, q, U)
  <2>1. \A u \in Threads : OwnBy(U[u], p, q)
    BY <1>1, <1>2 DEF PageInv, POwn, OwnBy
  <2>2. \A u \in Threads : Fills(U[u], q) <=> Fills(T[u], q)
    BY <1>1, <1>2
  <2> QED BY <2>1, <2>2 DEF PageInv, POwn
<1>7. PData(p, q, U, new, disk, bad)
  BY <1>1, <1>2 DEF PageInv, PData, DataBy
<1> QED BY <1>5, <1>6, <1>7, AlikeTidy DEF PageInv, Alike

(* A page not touched by the write is copied on the way.                   *)
LEMMA CowAway ==
  ASSUME NEW T, ThreadsOK(T), NEW t \in Threads, NEW f, ThreadOK(f), NEW p, NEW p2, NEW q,
         NEW new, NEW disk, NEW bad, NEW U, Goes(T, t, f, U), Away(T[t], q), Away(f, q),
         StepOK(p, p2, q, T, new, disk, bad)
  PROVE  StepOK(p, p2, q, U, new, disk, bad)
<1>1. U[t] = f /\ \A u \in Threads \ {t} : U[u] = T[u]
  BY GoesSays
<1>2. PageInv(p2, q, U, new, disk, bad)
  BY AwayStep DEF StepOK
<1>3. \A i \in {0, 1} : <<q, i>> \notin f.held
  BY DEF Away, Fl
<1> QED BY <1>1, <1>2, <1>3 DEF StepOK, PTidy

-----------------------------------------------------------------------------
(* The page table, and what the model's operators do to it.                *)

CacheOK(k) == "pg" \in DOMAIN k /\ k.pg \in [Pages -> PageType]

(* k2 is k with page q changed into page.                                  *)
Edit(k, k2, q, page) ==
  /\ CacheOK(k2) /\ k2.pg[q] = page
  /\ \A r \in Pages \ {q} : k2.pg[r] = k.pg[r]

LEMMA EditPage ==
  ASSUME NEW k, CacheOK(k), NEW q \in Pages, NEW page \in PageType,
         NEW k2, "pg" \in DOMAIN k2, k2.pg = [k.pg EXCEPT ![q] = page]
  PROVE  Edit(k, k2, q, page)
BY DEF CacheOK, Edit

LEMMA AddPageSays ==
  ASSUME NEW k, CacheOK(k), NEW q \in Pages, NEW page \in PageType
  PROVE  Edit(k, AddPage(k, q, page), q, page)
<1>1. "pg" \in DOMAIN AddPage(k, q, page) /\ AddPage(k, q, page).pg = [k.pg EXCEPT ![q] = page]
  BY DEF AddPage, CacheOK
<1> QED BY <1>1, EditPage

LEMMA MarkDirtySays ==
  ASSUME NEW k, CacheOK(k), NEW q \in Pages
  PROVE  Edit(k, MarkDirty(k, q), q, [k.pg[q] EXCEPT !.dirty = TRUE])
<1>1. /\ "pg" \in DOMAIN MarkDirty(k, q)
      /\ MarkDirty(k, q).pg = [k.pg EXCEPT ![q] = [k.pg[q] EXCEPT !.dirty = TRUE]]
  BY DEF MarkDirty, CacheOK
<1>2. [k.pg[q] EXCEPT !.dirty = TRUE] \in PageType
  BY DEF CacheOK, PageType
<1> QED BY <1>1, <1>2, EditPage

LEMMA CopyInType ==
  ASSUME NEW d \in Val, NEW B, NEW v \in Nat
  PROVE  CopyIn(d, B, v) \in Val
BY DEF Val, CopyIn

LEMMA WriteInSays ==
  ASSUME NEW k, CacheOK(k), NEW q \in Pages, NEW i \in {0, 1}, NEW B, NEW v \in Nat, k.pg[q].data[i] # NULL
  PROVE  Edit(k, WriteIn(k, q, i, B, v), q,
              [k.pg[q] EXCEPT !.data = [k.pg[q].data EXCEPT ![i] = CopyIn(k.pg[q].data[i], B, v)]])
<1> DEFINE d == k.pg[q].data
           e == [d EXCEPT ![i] = CopyIn(d[i], B, v)]
<1>1. d \in [{0, 1} -> Buf] /\ d[i] \in Val
  BY DEF CacheOK, PageType, Buf
<1>2. CopyIn(d[i], B, v) \in Buf
  BY <1>1, CopyInType DEF Buf
<1>3. e \in [{0, 1} -> Buf]
  BY <1>1, <1>2
<1>4. /\ "pg" \in DOMAIN WriteIn(k, q, i, B, v)
      /\ WriteIn(k, q, i, B, v).pg = [k.pg EXCEPT ![q] = [k.pg[q] EXCEPT !.data = e]]
  BY DEF WriteIn, CacheOK
<1> HIDE DEF d
<1>5. [k.pg[q] EXCEPT !.data = e] \in PageType
  BY <1>3 DEF CacheOK, PageType
<1> QED BY <1>4, <1>5, EditPage DEF d

LEMMA CowSays ==
  ASSUME NEW k, CacheOK(k), NEW q \in Pages
  PROVE  /\ CacheOK(Cow(k, q))
         /\ \A r \in Pages \ {q} : Cow(k, q).pg[r] = k.pg[r]
         /\ LET p == k.pg[q]
                p2 == Cow(k, q).pg[q]
            IN /\ p2 \in PageType
               /\ p2.in = p.in /\ p2.empty = p.empty /\ p2.dirty = p.dirty /\ p2.rd = p.rd /\ p2.wr = p.wr
               /\ p2.fl = p.fl /\ p2.torel = p.torel
               /\ p2.cur = 1 - p.cur /\ p2.data[1 - p.cur] = p.data[p.cur] /\ p2.data[p.cur] = p.data[p.cur]
<1> DEFINE p == k.pg[q]
           d == [p.data EXCEPT ![1 - p.cur] = p.data[p.cur]]
           p2 == [p EXCEPT !.data = d, !.cur = 1 - p.cur]
<1>1. p \in PageType /\ p.cur \in {0, 1} /\ 1 - p.cur \in {0, 1} /\ p.data \in [{0, 1} -> Buf]
  BY DEF CacheOK, PageType
<1>2. d \in [{0, 1} -> Buf] /\ d[1 - p.cur] = p.data[p.cur] /\ d[p.cur] = p.data[p.cur]
  BY <1>1
<1>3. "pg" \in DOMAIN Cow(k, q) /\ Cow(k, q).pg = [k.pg EXCEPT ![q] = p2]
  BY DEF Cow, CacheOK
<1> HIDE DEF p, d
<1>4. /\ p2 \in PageType
      /\ p2.in = p.in /\ p2.empty = p.empty /\ p2.dirty = p.dirty /\ p2.rd = p.rd /\ p2.wr = p.wr
      /\ p2.fl = p.fl /\ p2.torel = p.torel
      /\ p2.cur = 1 - p.cur /\ p2.data[1 - p.cur] = p.data[p.cur] /\ p2.data[p.cur] = p.data[p.cur]
  BY <1>1, <1>2 DEF PageType
<1> HIDE DEF p2
<1>5. Edit(k, Cow(k, q), q, p2)
  BY <1>3, <1>4, EditPage
<1> QED BY <1>4, <1>5 DEF Edit, p

LEMMA HoldSays ==
  ASSUME NEW k, CacheOK(k), NEW q \in Pages
  PROVE  /\ CacheOK(Hold(k, q))
         /\ \A r \in Pages \ {q} : Hold(k, q).pg[r] = k.pg[r]
         /\ Hold(k, q).pg[q] \in PageType /\ Alike(k.pg[q], Hold(k, q).pg[q])
         /\ Hold(k, q).pg[q].rd = k.pg[q].rd + 1 /\ Hold(k, q).pg[q].fl = k.pg[q].fl
<1> DEFINE p == k.pg[q]
           e == [p.use EXCEPT ![p.cur] = @ + 1]
           p2 == [p EXCEPT !.rd = p.rd + 1, !.use = e]
<1>0. q # -1
  BY CacheAssumption DEF Pages
<1>1. p \in PageType /\ p.cur \in {0, 1} /\ p.use \in [{0, 1} -> Int] /\ p.rd \in Nat
  BY DEF CacheOK, PageType
<1>2. e \in [{0, 1} -> Int] /\ p.rd + 1 \in Nat
  BY <1>1
<1>3. "pg" \in DOMAIN Hold(k, q) /\ Hold(k, q).pg = [k.pg EXCEPT ![q] = p2]
  BY <1>0 DEF Hold, CacheOK
<1> HIDE DEF p, e
<1>4. p2 \in PageType /\ Alike(p, p2) /\ p2.rd = p.rd + 1 /\ p2.fl = p.fl
  BY <1>1, <1>2 DEF PageType, Alike
<1> HIDE DEF p2
<1>5. Edit(k, Hold(k, q), q, p2)
  BY <1>3, <1>4, EditPage
<1> QED BY <1>4, <1>5 DEF Edit, p

(* Making room leaves each page as it is, or evicts one that nobody uses.  *)
LEMMA RoomsSay ==
  ASSUME NEW k, CacheOK(k), NEW k2 \in Rooms(k)
  PROVE  /\ CacheOK(k2)
         /\ \A r \in Pages : \/ k2.pg[r] = k.pg[r]
                             \/ k2.pg[r] = Absent /\ k.pg[r].in /\ ~k.pg[r].dirty /\ Pending(k.pg[r]) = 0
<1>1. CASE k2 = k
  BY <1>1
<1>2. CASE k2 = DropOrphan(k)
  BY <1>2 DEF DropOrphan, CacheOK
<1>3. ASSUME NEW q \in Evictable(k), k2 = Evict(k, q)
      PROVE  /\ CacheOK(k2)
             /\ \A r \in Pages : \/ k2.pg[r] = k.pg[r]
                                 \/ k2.pg[r] = Absent /\ k.pg[r].in /\ ~k.pg[r].dirty /\ Pending(k.pg[r]) = 0
  <2>1. q \in Pages /\ k.pg[q].in /\ ~k.pg[q].dirty /\ Pending(k.pg[q]) = 0
    BY DEF Evictable, Linked
  <2>2. "pg" \in DOMAIN k2 /\ k2.pg = [k.pg EXCEPT ![q] = Absent]
    BY <1>3, <2>1 DEF Evict, CacheOK
  <2>3. Edit(k, k2, q, Absent)
    BY <2>1, <2>2, AbsentType, EditPage
  <2> QED BY <2>1, <2>3 DEF Edit
<1> QED BY <1>1, <1>2, <1>3 DEF Rooms, Freed

(* The page after a handle on it was given back and its bits were set.     *)
Back(p, p2, i, mode) ==
  /\ p2 \in PageType /\ p2.in = p.in /\ p2.cur = p.cur
  /\ p2.rd = (IF mode = "read" THEN p.rd - 1 ELSE p.rd)
  /\ p2.wr = (IF mode = "write" THEN p.wr - 1 ELSE p.wr)
  /\ p2.fl = (IF mode = "flush" THEN p.fl - 1 ELSE p.fl)
  /\ p2.empty = (IF mode = "write" THEN FALSE ELSE p.empty)
  /\ p2.dirty = (IF mode = "write" THEN TRUE ELSE IF mode = "flush" /\ i = p.cur THEN ~p.dirty ELSE p.dirty)
  /\ p2.data[p.cur] = p.data[p.cur] /\ (i = p.cur => p2.data = p.data)

LEMMA GiveBackSays ==
  ASSUME NEW k, CacheOK(k), NEW q \in Pages, NEW i \in {0, 1}, NEW mode \in {"read", "write", "flush"},
         mode = "read" => k.pg[q].rd # 0, mode = "write" => k.pg[q].wr # 0, mode = "flush" => k.pg[q].fl # 0
  PROVE  LET k2 == GiveBack(k, q, i, mode)
             p == k.pg[q]
             p2 == k2.pg[q]
         IN /\ Edit(k, k2, q, p2) /\ p2 \in PageType
            /\ p2.in = p.in /\ p2.cur = p.cur /\ p2.empty = p.empty /\ p2.dirty = p.dirty
            /\ p2.rd = (IF mode = "read" THEN p.rd - 1 ELSE p.rd)
            /\ p2.wr = (IF mode = "write" THEN p.wr - 1 ELSE p.wr)
            /\ p2.fl = (IF mode = "flush" THEN p.fl - 1 ELSE p.fl)
            /\ p2.data[p.cur] = p.data[p.cur] /\ (i = p.cur => p2.data = p.data)
<1> DEFINE p == k.pg[q]
           free == i # p.cur /\ p.use[i] - 1 <= 0
           d == [p.data EXCEPT ![i] = IF free THEN NULL ELSE p.data[i]]
           e == [p.use EXCEPT ![i] = p.use[i] - 1]
           rd == IF mode = "read" THEN p.rd - 1 ELSE p.rd
           wr == IF mode = "write" THEN p.wr - 1 ELSE p.wr
           fl == IF mode = "flush" THEN p.fl - 1 ELSE p.fl
           p2 == [p EXCEPT !.rd = rd, !.wr = wr, !.fl = fl, !.use = e, !.data = d]
<1>1. /\ p \in PageType /\ p.cur \in {0, 1} /\ p.use \in [{0, 1} -> Int] /\ p.data \in [{0, 1} -> Buf]
      /\ p.rd \in Nat /\ p.wr \in Nat /\ p.fl \in Nat
  BY DEF CacheOK, PageType
<1>2. /\ e \in [{0, 1} -> Int] /\ d \in [{0, 1} -> Buf]
      /\ d[p.cur] = p.data[p.cur] /\ (i = p.cur => d = p.data)
  BY <1>1 DEF Buf
<1>3. rd \in Nat /\ wr \in Nat /\ fl \in Nat
  BY <1>1
<1>4. "pg" \in DOMAIN GiveBack(k, q, i, mode) /\ GiveBack(k, q, i, mode).pg = [k.pg EXCEPT ![q] = p2]
  BY DEF GiveBack, CacheOK
<1> HIDE DEF p, d, e, rd, wr, fl
<1>5. /\ p2 \in PageType
      /\ p2.in = p.in /\ p2.cur = p.cur /\ p2.empty = p.empty /\ p2.dirty = p.dirty
      /\ p2.rd = rd /\ p2.wr = wr /\ p2.fl = fl /\ p2.data = d
  BY <1>1, <1>2, <1>3 DEF PageType
<1> HIDE DEF p2
<1>6. Edit(k, GiveBack(k, q, i, mode), q, p2)
  BY <1>4, <1>5, EditPage
<1>7. GiveBack(k, q, i, mode).pg[q] = p2
  BY <1>6 DEF Edit
<1> QED BY <1>2, <1>5, <1>6, <1>7 DEF p, rd, wr, fl

Bits(p, p2, i, mode) ==
  /\ p2 \in PageType
  /\ p2.in = p.in /\ p2.cur = p.cur /\ p2.rd = p.rd /\ p2.wr = p.wr /\ p2.fl = p.fl /\ p2.data = p.data
  /\ p2.empty = (IF mode = "write" THEN FALSE ELSE p.empty)
  /\ p2.dirty = (IF mode = "write" THEN TRUE ELSE IF mode = "flush" /\ i = p.cur THEN ~p.dirty ELSE p.dirty)

LEMMA SetBitsSays ==
  ASSUME NEW k, CacheOK(k), NEW q \in Pages, NEW i \in {0, 1}, NEW mode \in {"read", "write", "flush"}
  PROVE  /\ Edit(k, SetBits(k, q, i, mode), q, SetBits(k, q, i, mode).pg[q])
         /\ Bits(k.pg[q], SetBits(k, q, i, mode).pg[q], i, mode)
<1> DEFINE p == k.pg[q]
           em == IF mode = "write" THEN FALSE ELSE p.empty
           di == IF mode = "write" THEN TRUE ELSE IF mode = "flush" /\ i = p.cur THEN ~p.dirty ELSE p.dirty
           p2 == [p EXCEPT !.empty = em, !.dirty = di]
<1>1. p \in PageType /\ p.empty \in BOOLEAN /\ p.dirty \in BOOLEAN
  BY DEF CacheOK, PageType
<1>2. em \in BOOLEAN /\ di \in BOOLEAN
  BY <1>1
<1>3. "pg" \in DOMAIN SetBits(k, q, i, mode) /\ SetBits(k, q, i, mode).pg = [k.pg EXCEPT ![q] = p2]
  <2>1. CASE mode = "write"
    <3>1. SetBits(k, q, i, mode) = MarkDirty([k EXCEPT !.pg[q].empty = FALSE], q)
      BY <2>1 DEF SetBits
    <3>2. p2 = [p EXCEPT !.empty = FALSE, !.dirty = TRUE]
      BY <2>1
    <3> DEFINE k1 == [k EXCEPT !.pg[q].empty = FALSE]
    <3>3. "pg" \in DOMAIN k1 /\ k1.pg = [k.pg EXCEPT ![q] = [p EXCEPT !.empty = FALSE]]
      BY DEF CacheOK
    <3> HIDE DEF k1
    <3>4. "pg" \in DOMAIN MarkDirty(k1, q) /\ MarkDirty(k1, q).pg = [k1.pg EXCEPT ![q] = [k1.pg[q] EXCEPT !.dirty = TRUE]]
      BY <3>3 DEF MarkDirty
    <3>5. MarkDirty(k1, q).pg = [k.pg EXCEPT ![q] = p2]
      BY <3>2, <3>3, <3>4 DEF CacheOK
    <3> QED BY <3>1, <3>4, <3>5 DEF k1
  <2>2. CASE mode = "flush" /\ i = p.cur
    <3>1. SetBits(k, q, i, mode) = [k EXCEPT !.dirty = @ - 1, !.pg[q].dirty = ~@]
      BY <2>2 DEF SetBits
    <3>2. p2 = [p EXCEPT !.dirty = ~p.dirty]
      BY <1>1, <2>2 DEF PageType
    <3>3. SetBits(k, q, i, mode).pg = [k.pg EXCEPT ![q] = [k.pg[q] EXCEPT !.dirty = ~k.pg[q].dirty]]
      BY <3>1 DEF CacheOK
    <3>4. "pg" \in DOMAIN SetBits(k, q, i, mode)
      BY <3>1 DEF CacheOK
    <3> QED BY <3>2, <3>3, <3>4
  <2>3. CASE mode # "write" /\ ~(mode = "flush" /\ i = p.cur)
    <3>1. SetBits(k, q, i, mode) = k
      BY <2>3 DEF SetBits
    <3>2. p2 = p
      BY <1>1, <2>3 DEF PageType
    <3> QED BY <3>1, <3>2 DEF CacheOK
  <2> QED BY <2>1, <2>2, <2>3
<1> HIDE DEF p, em, di
<1>4. /\ p2 \in PageType /\ p2.in = p.in /\ p2.cur = p.cur /\ p2.rd = p.rd /\ p2.wr = p.wr /\ p2.fl = p.fl
      /\ p2.data = p.data /\ p2.empty = em /\ p2.dirty = di
  BY <1>1, <1>2 DEF PageType
<1> HIDE DEF p2
<1>5. Edit(k, SetBits(k, q, i, mode), q, p2)
  BY <1>3, <1>4, EditPage
<1>6. SetBits(k, q, i, mode).pg[q] = p2
  BY <1>5 DEF Edit
<1>7. Bits(p, p2, i, mode)
  BY <1>4 DEF Bits, em, di
<1> QED BY <1>5, <1>6, <1>7 DEF p

LEMMA LetGoSays ==
  ASSUME NEW k, CacheOK(k), NEW q \in Pages, NEW heard \in BOOLEAN
  PROVE  /\ CacheOK(LetGo(k, q, heard))
         /\ \A r \in Pages \ {q} : LetGo(k, q, heard).pg[r] = k.pg[r]
         /\ \/ LetGo(k, q, heard).pg[q] = k.pg[q]
            \/ LetGo(k, q, heard).pg[q] = Absent /\ ~k.pg[q].dirty /\ Pending(k.pg[q]) = 0
<1>1. CASE heard \/ ~k.pg[q].torel \/ Pending(k.pg[q]) > 0
  <2>1. LetGo(k, q, heard) = k
    BY <1>1 DEF LetGo
  <2> QED BY <2>1
<1>2. CASE ~(heard \/ ~k.pg[q].torel \/ Pending(k.pg[q]) > 0) /\ k.pg[q].dirty
  <2>1. LetGo(k, q, heard) = [k EXCEPT !.spawn = @ \cup {q}]
    BY <1>2 DEF LetGo
  <2> QED BY <2>1 DEF CacheOK
<1>3. CASE ~(heard \/ ~k.pg[q].torel \/ Pending(k.pg[q]) > 0) /\ ~k.pg[q].dirty
  <2>1. LetGo(k, q, heard) = PageRelease(k, q)
    BY <1>3 DEF LetGo
  <2>2. "pg" \in DOMAIN PageRelease(k, q) /\ PageRelease(k, q).pg = [k.pg EXCEPT ![q] = Absent]
    BY DEF PageRelease, CacheOK
  <2>3. Edit(k, LetGo(k, q, heard), q, Absent)
    BY <2>1, <2>2, AbsentType, EditPage
  <2>4. k.pg[q].rd \in Nat /\ k.pg[q].wr \in Nat /\ k.pg[q].fl \in Nat
    BY DEF CacheOK, PageType
  <2>5. Pending(k.pg[q]) \in Nat
    BY <2>4 DEF Pending
  <2>6. Pending(k.pg[q]) = 0
    BY <1>3, <2>5
  <2> QED BY <1>3, <2>3, <2>6 DEF Edit
<1> QED BY <1>1, <1>2, <1>3

LEMMA ReleaseSays ==
  ASSUME NEW k, CacheOK(k), NEW q \in Pages, NEW i \in {0, 1}, NEW mode \in {"read", "write", "flush"}, NEW heard \in BOOLEAN,
         mode = "read" => k.pg[q].rd # 0, mode = "write" => k.pg[q].wr # 0, mode = "flush" => k.pg[q].fl # 0
  PROVE  LET k2 == Release(k, q, i, mode, heard)
         IN /\ CacheOK(k2) /\ \A r \in Pages \ {q} : k2.pg[r] = k.pg[r]
            /\ \E p2 : Back(k.pg[q], p2, i, mode) /\ (k2.pg[q] = p2 \/ (k2.pg[q] = Absent /\ ~p2.dirty /\ Pending(p2) = 0))
<1> DEFINE a == GiveBack(k, q, i, mode)
           b == SetBits(a, q, i, mode)
           z == LetGo(b, q, heard)
           p == k.pg[q]
           pa == a.pg[q]
           pb == b.pg[q]
<1>1. /\ Edit(k, a, q, pa) /\ pa \in PageType
      /\ pa.in = p.in /\ pa.cur = p.cur /\ pa.empty = p.empty /\ pa.dirty = p.dirty
      /\ pa.rd = (IF mode = "read" THEN p.rd - 1 ELSE p.rd)
      /\ pa.wr = (IF mode = "write" THEN p.wr - 1 ELSE p.wr)
      /\ pa.fl = (IF mode = "flush" THEN p.fl - 1 ELSE p.fl)
      /\ pa.data[p.cur] = p.data[p.cur] /\ (i = p.cur => pa.data = p.data)
  BY GiveBackSays
<1>2. CacheOK(a)
  BY <1>1 DEF Edit
<1> HIDE DEF a
<1>3. Edit(a, b, q, pb) /\ Bits(pa, pb, i, mode)
  BY <1>2, SetBitsSays
<1>4. CacheOK(b)
  BY <1>3 DEF Edit
<1> HIDE DEF b
<1>5. /\ CacheOK(z) /\ \A r \in Pages \ {q} : z.pg[r] = b.pg[r]
      /\ z.pg[q] = pb \/ (z.pg[q] = Absent /\ ~pb.dirty /\ Pending(pb) = 0)
  BY <1>4, LetGoSays
<1>6. Release(k, q, i, mode, heard) = z
  BY DEF Release, a, b
<1> HIDE DEF z, p, pa, pb
<1>7. Back(p, pb, i, mode)
  BY <1>1, <1>3 DEF Back, Bits
<1>8. \A r \in Pages \ {q} : z.pg[r] = k.pg[r]
  BY <1>1, <1>3, <1>5 DEF Edit
<1> QED BY <1>5, <1>6, <1>7, <1>8 DEF p

-----------------------------------------------------------------------------
(* Least and greatest elements.                                            *)

LEMMA LeastSays ==
  ASSUME NEW S, S \subseteq Nat, S # {}
  PROVE  Least(S) \in S /\ \A r \in S : Least(S) <= r
<1>1. PICK x \in S : \A y \in S : ~(<<y, x>> \in OpToRel(<, Nat))
  BY NatLessThanWellFounded, WFMin, Zenon
<1>2. \A y \in S : x <= y
  <2> TAKE y \in S
  <2>1. x \in Nat /\ y \in Nat /\ <<y, x>> \in Nat \X Nat
    OBVIOUS
  <2>2. y < x => <<y, x>> \in OpToRel(<, Nat)
    BY <2>1 DEF OpToRel
  <2>3. ~(y < x)
    BY <1>1, <2>2, Zenon
  <2> QED BY <2>1, <2>3
<1> QED BY <1>2 DEF Least

LEMMA GreatestSays ==
  ASSUME NEW S, S \subseteq Nat, S # {}, NEW b \in Nat, \A r \in S : r <= b
  PROVE  Greatest(S) \in S /\ \A r \in S : r <= Greatest(S)
<1> DEFINE D == {b - r : r \in S}
<1>0. \A r \in S : r \in Nat /\ b - r \in Nat
  OBVIOUS
<1>1. D \subseteq Nat /\ D # {}
  BY <1>0
<1>2. Least(D) \in D /\ \A r \in D : Least(D) <= r
  BY <1>1, LeastSays
<1>3. PICK x \in S : Least(D) = b - x
  BY <1>2
<1>4. \A r \in S : r <= x
  <2> TAKE r \in S
  <2>1. b - r \in D
    OBVIOUS
  <2>2. Least(D) <= b - r
    BY <1>2, <2>1
  <2> QED BY <1>0, <1>3, <2>2
<1> QED BY <1>4 DEF Greatest

-----------------------------------------------------------------------------
(* The state invariant.                                                    *)

FlushEntry == [t : Threads, lo : Int, hi : Int]
TypesOK ==
  /\ CacheOK(c) /\ fstack \in Seq(FlushEntry)
  /\ child \in [Pages -> Val] /\ latest \in [Pages -> Val] /\ acked \in [Pages -> Val]
  /\ childLast \in Int /\ childEnd \in Int /\ size \in Nat /\ taint \subseteq Pages

PagesOK == \A q \in Pages : PageInv(c.pg[q], q, th, latest[q], child[q], taint)

(* How far the child reaches: a page is only loaded if the child has it or *)
(* the write that should have put it there failed.                         *)
Loading(f) == f.pc = "load" \/ (f.pc = "whold" /\ f.ret = "load")
ChildBy(f, last, bad) ==
  /\ Loading(f) => f.page <= last \/ \E r \in bad : r >= f.page
  /\ \A q \in Pages, i \in {0, 1} : <<q, i>> \in f.held /\ q \in f.wrote => q <= last \/ q \in bad
ChildOK ==
  /\ ChildPages - 1 <= childEnd /\ childEnd <= childLast
  /\ childEnd < childLast => childLast \in taint
  /\ \A q \in Pages : q > childEnd => child[q] = Zero
  /\ \A t \in Threads : ChildBy(th[t], childLast, taint)

(* The file's size comes from the child or from a write that returned, and *)
(* a read begins inside it.                                                *)
SizeBy(f) ==
  f.op = "read" =>
    f.page < ChildPages \/ \E r \in Pages, s \in Slots : f.page <= r /\ f.need[r][s] > 0
SizeOK ==
  /\ 2 * ChildPages <= size
  /\ \A q \in Pages, s \in Slots : acked[q][s] > 0 => 2 * q < size
  /\ size <= 2 * ChildPages \/ \E r \in Pages, s \in Slots : acked[r][s] > 0 /\ Pos(r, s) + 1 >= size
  /\ \A t \in Threads : SizeBy(th[t])

(* Versions: what a thread needs has returned, what has returned is in the *)
(* newest bytes, and a read that has its bytes has what it needs.          *)
AtLeast(d, e) == \A s \in Slots : d[s] >= e[s]
Copied(f) == f.pc \in {"wrel", "wend"} \/ (f.pc = "whold" /\ f.ret = "wend")
Ended(f) == f.pc = "wend" \/ (f.pc = "whold" /\ f.ret = "wend")
VersionBy(f, new, done, bad) ==
  /\ \A q \in Pages : AtLeast(done[q], f.need[q])
  /\ Copied(f) => AtLeast(new[f.page], f.got) /\ f.got[MaxByte(f.bytes)] > 0
  /\ f.op = "read" /\ f.pc \in {"rrel", "done"} /\ f.page \notin bad => AtLeast(f.got, f.need[f.page])
Bounded(new) == \E b \in Nat : \A q \in Pages, s \in Slots : new[q][s] <= b
VersionOK ==
  /\ Bounded(latest)
  /\ \A q \in Pages : AtLeast(latest[q], acked[q])
  /\ \A t \in Threads : VersionBy(th[t], latest, acked, taint)

(* With no dirty page, what has returned is in the child.                  *)
SettledOK ==
  \A q \in Pages \ taint : ~(c.pg[q].in /\ c.pg[q].dirty) =>
    /\ AtLeast(child[q], acked[q])
    /\ \A t \in Threads : Ended(th[t]) /\ th[t].page = q => AtLeast(child[q], th[t].got)

(* The flush stack: one entry per flush that scans or writes, with the     *)
(* range of what it may hold and of what it has to bring to the child.     *)
StackBy(e, f) ==
  /\ f.pc \in StackPcs /\ e.hi = f.hi /\ e.lo <= f.lo
  /\ f.pc = "dwait" => f.lo <= e.hi
  /\ \A q \in Pages, i \in {0, 1} : <<q, i>> \in f.held => e.lo <= q /\ q <= e.hi
  /\ f.op = "flush" \/ f.ret = "load" =>
       \A q \in Pages, s \in Slots : f.need[q][s] > 0 => e.lo <= q /\ q <= e.hi
StackOK ==
  /\ \A n, m \in 1 .. Len(fstack) : fstack[n].t = fstack[m].t => n = m
  /\ \A t \in Threads : th[t].pc \in StackPcs => \E n \in 1 .. Len(fstack) : fstack[n].t = t
  /\ \A n \in 1 .. Len(fstack) : StackBy(fstack[n], th[fstack[n].t])

(* A flush finds what it needs in the copies that others hold.             *)
InFlush(f) == f.pc \in StackPcs \cup {"fw2", "done"}
CopiesOK ==
  \A t, u \in Threads : InFlush(th[t]) /\ th[t].op = "flush" =>
    \A q \in Pages \ (taint \cup th[t].old), i \in {0, 1} :
      <<q, i>> \in th[u].held => AtLeast(c.pg[q].data[i], th[t].need[q])

(* What a flush needs is in the child, or is still to come: from itself,   *)
(* or from a flush that it will wait for.                                  *)
Serves(f, q) == (f.pc = "dwait" /\ f.lo = q) \/ (\E i \in {0, 1} : <<q, i>> \in f.held /\ q \notin f.wrote)
Open(T, t, q) ==
  \/ T[t].pc \in {"fscan", "dwait", "fio"} /\ T[t].lo <= q
  \/ T[t].pc # "done" /\ \E u \in Threads : Serves(T[u], q) /\ (T[t].pc = "fw2" => u \in T[t].wait)
Owes(T, t, q, disk, last) ==
  /\ T[t].op = "flush" /\ q \notin T[t].old => AtLeast(disk[q], T[t].need[q]) \/ Open(T, t, q)
  /\ T[t].pc # "done" /\ T[t].ret = "load" /\ (\E s \in Slots : T[t].need[q][s] > 0) => q <= last \/ Open(T, t, q)
DebtOK == \A t \in Threads : InFlush(th[t]) => \A q \in Pages \ taint : Owes(th, t, q, child, childLast)

CacheInv ==
  /\ TypesOK /\ ThreadsOK(th) /\ PagesOK
  /\ ChildOK /\ SizeOK /\ VersionOK /\ SettledOK /\ StackOK /\ CopiesOK /\ DebtOK

-----------------------------------------------------------------------------
(* Steps on the state as a whole.                                          *)

PagesMove == \A q \in Pages : StepOK(c.pg[q], c'.pg[q], q, th', latest'[q], child'[q], taint')

LEMMA PagesMoveSays ==
  ASSUME PagesMove
  PROVE  PagesOK'
BY DEF PagesMove, PagesOK, StepOK

LEMMA PagesHere == 0 \in Pages /\ \A q \in Pages : q \in Nat
BY CacheAssumption DEF Pages, CacheAssumption

LEMMA VersionSays ==
  ASSUME TypesOK, VersionOK
  PROVE  /\ Version \in Nat /\ Version > 0
         /\ \A q \in Pages, s \in Slots : latest[q][s] \in Nat /\ latest[q][s] < Version
<1> DEFINE S == {latest[q][s] : q \in Pages, s \in Slots}
<1>1. \A q \in Pages, s \in Slots : latest[q][s] \in Nat
  BY DEF TypesOK, Val
<1>2. PICK b \in Nat : \A q \in Pages, s \in Slots : latest[q][s] <= b
  BY DEF VersionOK, Bounded
<1>3. S \subseteq Nat /\ \A r \in S : r <= b
  BY <1>1, <1>2
<1>4. latest[0][0] \in S
  BY PagesHere DEF Slots
<1> HIDE DEF S
<1> DEFINE m == Greatest(S)
<1>5. m \in S /\ \A r \in S : r <= m
  BY <1>3, <1>4, GreatestSays
<1>6. m \in Nat
  BY <1>3, <1>5
<1>7. Version = 1 + m
  BY DEF Version, S
<1>8. \A q \in Pages, s \in Slots : latest[q][s] <= m
  BY <1>5 DEF S
<1> HIDE DEF m
<1> QED BY <1>1, <1>6, <1>7, <1>8

LEMMA ChildStep ==
  ASSUME ChildOK, UNCHANGED <<child, childLast, childEnd>>, taint \subseteq taint',
         NEW t \in Threads, NEW f, Goes(th, t, f, th'), ChildBy(f, childLast, taint')
  PROVE  ChildOK'
<1>1. th'[t] = f /\ \A u \in Threads \ {t} : th'[u] = th[u]
  BY GoesSays
<1>2. \A u \in Threads : ChildBy(th'[u], childLast, taint')
  BY <1>1 DEF ChildOK, ChildBy
<1> QED BY <1>2 DEF ChildOK

LEMMA SizeStep ==
  ASSUME SizeOK, UNCHANGED <<size, acked>>,
         NEW t \in Threads, NEW f, Goes(th, t, f, th'), SizeBy(f)
  PROVE  SizeOK'
<1>1. th'[t] = f /\ \A u \in Threads \ {t} : th'[u] = th[u]
  BY GoesSays
<1>2. \A u \in Threads : SizeBy(th'[u])
  BY <1>1 DEF SizeOK
<1> QED BY <1>2 DEF SizeOK

LEMMA AtLeastThen ==
  ASSUME NEW d \in Val, NEW e \in Val, NEW g \in Val, AtLeast(d, e), AtLeast(e, g)
  PROVE  AtLeast(d, g)
BY DEF AtLeast, Val

LEMMA VersionNew ==
  ASSUME TypesOK, TypesOK', ThreadsOK(th), VersionOK, UNCHANGED acked, taint \subseteq taint',
         NEW t \in Threads, NEW f, Goes(th, t, f, th'),
         \A q \in Pages : AtLeast(latest'[q], latest[q]), Bounded(latest'),
         VersionBy(f, latest', acked, taint')
  PROVE  VersionOK'
<1>1. th'[t] = f /\ \A u \in Threads \ {t} : th'[u] = th[u]
  BY GoesSays
<1>2. \A q \in Pages : latest[q] \in Val /\ latest'[q] \in Val /\ acked[q] \in Val
  BY DEF TypesOK
<1>3. \A q \in Pages : AtLeast(latest'[q], acked[q])
  BY <1>2, AtLeastThen DEF VersionOK
<1>4. ASSUME NEW u \in Threads \ {t} PROVE VersionBy(th[u], latest', acked, taint')
  <2>1. th[u].got \in Val /\ th[u].page \in Pages
    BY Zenon DEF ThreadsOK, ThreadType, Val
  <2>2. VersionBy(th[u], latest, acked, taint)
    BY DEF VersionOK
  <2>3. AtLeast(latest[th[u].page], th[u].got) => AtLeast(latest'[th[u].page], th[u].got)
    BY <1>2, <2>1, AtLeastThen
  <2> QED BY <2>2, <2>3 DEF VersionBy
<1> QED BY <1>1, <1>3, <1>4 DEF VersionOK

LEMMA AtLeastSelf == ASSUME NEW d \in Val PROVE AtLeast(d, d) /\ AtLeast(d, Zero)
BY DEF AtLeast, Val, Zero

LEMMA VersionStep ==
  ASSUME TypesOK, TypesOK', ThreadsOK(th), VersionOK, UNCHANGED <<latest, acked>>, taint \subseteq taint',
         NEW t \in Threads, NEW f, Goes(th, t, f, th'), VersionBy(f, latest, acked, taint')
  PROVE  VersionOK'
<1>1. \A q \in Pages : AtLeast(latest'[q], latest[q])
  BY AtLeastSelf DEF TypesOK
<1>2. Bounded(latest')
  BY DEF VersionOK
<1> QED BY <1>1, <1>2, VersionNew

LEMMA SettledStep ==
  ASSUME TypesOK', ThreadsOK(th'), VersionOK', SettledOK, PagesMove, taint \subseteq taint', UNCHANGED acked,
         NEW t \in Threads, NEW f, Goes(th, t, f, th'),
         \A q \in Pages : child'[q] = child[q] \/ (c.pg[q].in /\ c.pg[q].dirty),
         Ended(f) => \/ Ended(th[t]) /\ f.page = th[t].page /\ f.got = th[t].got
                     \/ c'.pg[f.page].in /\ c'.pg[f.page].dirty
  PROVE  SettledOK'
<1>1. th'[t] = f /\ \A u \in Threads \ {t} : th'[u] = th[u]
  BY GoesSays
<1> SUFFICES ASSUME NEW q \in Pages \ taint', ~(c'.pg[q].in /\ c'.pg[q].dirty)
             PROVE  /\ AtLeast(child'[q], acked'[q])
                    /\ \A u \in Threads : Ended(th'[u]) /\ th'[u].page = q => AtLeast(child'[q], th'[u].got)
  BY DEF SettledOK
<1>2. CASE c.pg[q].in /\ c.pg[q].dirty
  <2>1. child'[q] = latest'[q]
    BY <1>2 DEF PagesMove, StepOK, PTidy
  <2>2. \A u \in Threads : VersionBy(th'[u], latest', acked', taint')
    BY DEF VersionOK
  <2>3. \A u \in Threads : Ended(th'[u]) => Copied(th'[u])
    BY DEF Ended, Copied
  <2> QED BY <2>1, <2>2, <2>3 DEF VersionOK, VersionBy
<1>3. CASE ~(c.pg[q].in /\ c.pg[q].dirty)
  <2>1. child'[q] = child[q] /\ q \in Pages \ taint
    BY <1>3
  <2>2. /\ AtLeast(child[q], acked[q])
        /\ \A u \in Threads : Ended(th[u]) /\ th[u].page = q => AtLeast(child[q], th[u].got)
    BY <1>3, <2>1 DEF SettledOK
  <2> QED BY <1>1, <2>1, <2>2
<1> QED BY <1>2, <1>3

(* A step of a thread outside its flush.                                   *)
LEMMA FlushPlain ==
  ASSUME ThreadsOK(th), ThreadsOK(th'), StackOK, CopiesOK, DebtOK, fstack \in Seq(FlushEntry),
         UNCHANGED <<fstack, child, childLast>>, taint \subseteq taint', PagesMove,
         NEW t \in Threads, NEW f, Goes(th, t, f, th'),
         th[t].pc \notin StackPcs, f.pc \notin StackPcs \cup {"fw2"}, ~(f.pc = "done" /\ f.op = "flush")
  PROVE  StackOK' /\ CopiesOK' /\ DebtOK'
<1>1. th'[t] = f /\ \A u \in Threads \ {t} : th'[u] = th[u]
  BY GoesSays
<1>2. th[t].held = {} /\ f.held = {} /\ \A q : ~Serves(th[t], q) /\ ~Serves(f, q)
  <2>1. ThreadOK(th[t]) /\ ThreadOK(f)
    BY <1>1 DEF ThreadsOK
  <2> QED BY <2>1, Zenon DEF ThreadOK, Serves, StackPcs
<1>3. StackOK'
  <2>1. \A n \in 1 .. Len(fstack) : fstack[n].t \in Threads \ {t}
    <3> TAKE n \in 1 .. Len(fstack)
    <3>1. fstack[n] \in FlushEntry
      OBVIOUS
    <3> QED BY <3>1 DEF StackOK, StackBy, FlushEntry
  <2>2. \A n \in 1 .. Len(fstack) : StackBy(fstack[n], th'[fstack[n].t])
    BY <1>1, <2>1 DEF StackOK
  <2>3. \A u \in Threads : th'[u].pc \in StackPcs => \E n \in 1 .. Len(fstack) : fstack[n].t = u
    BY <1>1 DEF StackOK
  <2> QED BY <2>2, <2>3 DEF StackOK
<1>4. CopiesOK'
  <2> SUFFICES ASSUME NEW v \in Threads, NEW u \in Threads, InFlush(th'[v]), th'[v].op = "flush",
                      NEW q \in Pages \ (taint' \cup th'[v].old), NEW i \in {0, 1}, <<q, i>> \in th'[u].held
               PROVE  AtLeast(c'.pg[q].data[i], th'[v].need[q])
    BY DEF CopiesOK
  <2>1. u # t /\ v # t
    BY <1>1, <1>2 DEF InFlush, StackPcs
  <2>2. c'.pg[q].data[i] = c.pg[q].data[i]
    BY DEF PagesMove, StepOK, PTidy
  <2>3. q \in Pages \ (taint \cup th[v].old)
    BY <1>1, <2>1
  <2> QED BY <1>1, <2>1, <2>2, <2>3 DEF CopiesOK
<1>5. DebtOK'
  <2>1. ASSUME NEW v \in Threads \ {t}, NEW q, Open(th, v, q) PROVE Open(th', v, q)
    <3>1. \A u \in Threads : Serves(th[u], q) => Serves(th'[u], q)
      BY <1>1, <1>2
    <3>2. th'[v] = th[v]
      BY <1>1
    <3> QED BY <2>1, <3>1, <3>2 DEF Open
  <2> SUFFICES ASSUME NEW v \in Threads, InFlush(th'[v]), NEW q \in Pages \ taint'
               PROVE  Owes(th', v, q, child', childLast')
    BY DEF DebtOK
  <2>2. CASE v = t
    BY <1>1, <2>2 DEF InFlush, Owes
  <2>3. CASE v # t
    <3>1. th'[v] = th[v] /\ q \in Pages \ taint
      BY <1>1, <2>3
    <3>2. Owes(th, v, q, child, childLast)
      BY <3>1 DEF DebtOK
    <3> QED BY <2>1, <2>3, <3>1, <3>2 DEF Owes
  <2> QED BY <2>2, <2>3
<1> QED BY <1>3, <1>4, <1>5

(* A step that touches neither the child nor the versions.                 *)
Still == UNCHANGED <<fstack, child, childLast, childEnd, size, latest, acked, taint>>
LEMMA CalmStep ==
  ASSUME CacheInv, CacheOK(c'), ThreadsOK(th'), PagesMove, Still,
         NEW t \in Threads, NEW f, Goes(th, t, f, th'),
         th[t].pc \notin StackPcs, f.pc \notin StackPcs \cup {"fw2"}, ~(f.pc = "done" /\ f.op = "flush"),
         ChildBy(f, childLast, taint), SizeBy(f), VersionBy(f, latest, acked, taint),
         Ended(f) => \/ Ended(th[t]) /\ f.page = th[t].page /\ f.got = th[t].got
                     \/ c'.pg[f.page].in /\ c'.pg[f.page].dirty
  PROVE  CacheInv'
<1>1. TypesOK'
  BY DEF CacheInv, TypesOK, Still
<1>2. PagesOK'
  BY PagesMoveSays
<1>3. ChildOK'
  BY ChildStep DEF CacheInv, Still
<1>4. SizeOK'
  BY SizeStep DEF CacheInv, Still
<1>5. VersionOK'
  BY <1>1, VersionStep DEF CacheInv, Still
<1>6. SettledOK'
  BY <1>1, <1>5, SettledStep DEF CacheInv, Still
<1>7. StackOK' /\ CopiesOK' /\ DebtOK'
  BY FlushPlain DEF CacheInv, Still, TypesOK
<1> QED BY <1>1, <1>2, <1>3, <1>4, <1>5, <1>6, <1>7 DEF CacheInv

(* What a thread keeps through most of its steps.                          *)
Kin(g, f) == f.op = g.op /\ f.page = g.page /\ f.bytes = g.bytes /\ f.need = g.need /\ f.got = g.got

LEMMA KinStep ==
  ASSUME CacheInv, CacheOK(c'), ThreadsOK(th'), PagesMove, Still,
         NEW t \in Threads, NEW f, Goes(th, t, f, th'), Kin(th[t], f),
         th[t].pc \notin StackPcs, f.pc \notin StackPcs \cup {"fw2"}, ~(f.pc = "done" /\ f.op = "flush"),
         Loading(f) => Loading(th[t]) \/ f.page <= childLast \/ \E r \in taint : r >= f.page,
         Copied(f) => Copied(th[t]),
         f.op = "read" /\ f.pc \in {"rrel", "done"} => th[t].pc \in {"rrel", "done"},
         Ended(f) => Ended(th[t]) \/ (c'.pg[f.page].in /\ c'.pg[f.page].dirty)
  PROVE  CacheInv'
<1>1. ThreadOK(f) /\ f.held = {}
  <2>1. th'[t] = f
    BY GoesSays
  <2> QED BY <2>1, Zenon DEF ThreadsOK, ThreadOK, StackPcs
<1>2. ChildBy(f, childLast, taint)
  BY <1>1 DEF CacheInv, ChildOK, ChildBy, Kin
<1>3. SizeBy(f)
  BY DEF CacheInv, SizeOK, SizeBy, Kin
<1>4. VersionBy(f, latest, acked, taint)
  BY DEF CacheInv, VersionOK, VersionBy, Kin
<1> QED BY <1>2, <1>3, <1>4, CalmStep DEF Kin

-----------------------------------------------------------------------------
(* Which pages a thread has nothing to do with, by its pc.                 *)

FreePcs == {"idle", "done", "rget", "radvise", "wget", "force", "mem", "mwait", "wend"}
PagePcs == {"rwait", "fwait", "wwait", "rcopy", "rrel", "wcopy", "wrel", "load"}

LEMMA AwayFrom ==
  ASSUME NEW g, ThreadOK(g)
  PROVE  /\ g.pc \in FreePcs => \A q : Away(g, q)
         /\ g.pc \in {"fstart", "fscan", "fw1", "fw2"} /\ g.ret # "load" => \A q : Away(g, q)
         /\ g.pc \in PagePcs => \A q : q # g.page => Away(g, q)
         /\ g.pc = "whold" => \A q : q # g.page /\ q # g.lo => Away(g, q)
         /\ g.pc = "whold" /\ g.ret # "load" => \A q : q # g.lo => Away(g, q)
         /\ g.pc \in PagePcs => \A q : ~Fl(g, q)
         /\ g.pc = "whold" => \A q : ~Fl(g, q)
<1>1. g.pc # "fio" => g.held = {}
  BY Zenon DEF ThreadOK
<1> QED BY <1>1, Zenon DEF ThreadOK, Away, Rd, Wr, Fl, FreePcs, PagePcs, FlushPcs, StackPcs, ReadPcs, WritePcs, ForcePcs

LEMMA ThreadsMove ==
  ASSUME ThreadsOK(th), NEW t \in Threads, NEW f \in ThreadType, ThreadOK(f), th' = [th EXCEPT ![t] = f]
  PROVE  /\ ThreadsOK(th') /\ Goes(th, t, f, th')
         /\ th[t] \in ThreadType /\ ThreadOK(th[t])
BY DEF ThreadsOK, Goes

(* A step on one page, or on none.                                         *)
LEMMA OneMove ==
  ASSUME CacheInv, NEW t \in Threads, NEW f, ThreadOK(f), Goes(th, t, f, th'), NEW q \in Pages,
         \A r \in Pages \ {q} : /\ c'.pg[r] = c.pg[r] /\ Quiet(th[t], f, r)
                                /\ latest'[r] = latest[r] /\ child'[r] = child[r],
         taint \subseteq taint', StepOK(c.pg[q], c'.pg[q], q, th', latest'[q], child'[q], taint')
  PROVE  PagesMove
<1> SUFFICES ASSUME NEW r \in Pages \ {q}
             PROVE  StepOK(c.pg[r], c'.pg[r], r, th', latest'[r], child'[r], taint')
  BY DEF PagesMove
<1>1. ThreadsOK(th) /\ PageInv(c.pg[r], r, th, latest[r], child[r], taint)
  BY DEF CacheInv, PagesOK
<1>2. StepOK(c.pg[r], c.pg[r], r, th', latest[r], child[r], taint')
  BY <1>1, QuietStep
<1> QED BY <1>2

LEMMA NoMove ==
  ASSUME CacheInv, NEW t \in Threads, NEW f, ThreadOK(f), Goes(th, t, f, th'),
         \A r \in Pages : /\ c'.pg[r] = c.pg[r] /\ Quiet(th[t], f, r)
                          /\ latest'[r] = latest[r] /\ child'[r] = child[r],
         taint \subseteq taint'
  PROVE  PagesMove
<1> SUFFICES ASSUME NEW r \in Pages
             PROVE  StepOK(c.pg[r], c'.pg[r], r, th', latest'[r], child'[r], taint')
  BY DEF PagesMove
<1>1. ThreadsOK(th) /\ PageInv(c.pg[r], r, th, latest[r], child[r], taint)
  BY DEF CacheInv, PagesOK
<1>2. StepOK(c.pg[r], c.pg[r], r, th', latest[r], child[r], taint')
  BY <1>1, QuietStep
<1> QED BY <1>2

(* A thread that holds nothing goes on without touching a page.            *)
LEMMA FreeMove ==
  ASSUME CacheInv, CacheOK(c'), c'.pg = c.pg, Still,
         NEW t \in Threads, NEW f \in ThreadType, ThreadOK(f), th' = [th EXCEPT ![t] = f],
         \A r \in Pages : Away(th[t], r) /\ Away(f, r)
  PROVE  PagesMove /\ ThreadsOK(th') /\ Goes(th, t, f, th')
<1>1. ThreadsOK(th') /\ Goes(th, t, f, th')
  BY ThreadsMove DEF CacheInv
<1> QED BY <1>1, NoMove DEF Still, Quiet

LEMMA FreeKin ==
  ASSUME CacheInv, CacheOK(c'), c'.pg = c.pg, Still,
         NEW t \in Threads, NEW f \in ThreadType, ThreadOK(f), th' = [th EXCEPT ![t] = f],
         Kin(th[t], f), th[t].pc \in FreePcs, f.pc \in {"rget", "radvise", "wget", "force", "mem", "mwait"}
  PROVE  CacheInv'
<1>1. ThreadOK(th[t])
  BY DEF CacheInv, ThreadsOK
<1>2. \A r \in Pages : Away(th[t], r) /\ Away(f, r)
  BY <1>1, AwayFrom DEF FreePcs
<1>3. PagesMove /\ ThreadsOK(th') /\ Goes(th, t, f, th')
  BY <1>2, FreeMove
<1>4. f.pc \notin StackPcs \cup {"fw2"} /\ f.pc # "done" /\ ~Loading(f) /\ ~Copied(f) /\ ~Ended(f)
      /\ f.pc \notin {"rrel", "done"} /\ th[t].pc \notin StackPcs
  BY DEF StackPcs, Loading, Copied, Ended, FreePcs
<1> QED BY <1>3, <1>4, KinStep

(* A step of a thread that reads, waits or holds, on one page.             *)
LEMMA PageKin ==
  ASSUME CacheInv, CacheOK(c'), Still,
         NEW t \in Threads, NEW f \in ThreadType, ThreadOK(f), th' = [th EXCEPT ![t] = f],
         Kin(th[t], f), NEW q \in Pages,
         \A r \in Pages \ {q} : c'.pg[r] = c.pg[r] /\ Quiet(th[t], f, r),
         StepOK(c.pg[q], c'.pg[q], q, th', latest[q], child[q], taint),
         th[t].pc \notin StackPcs, f.pc \notin StackPcs \cup {"fw2"}, ~(f.pc = "done" /\ f.op = "flush"),
         Loading(f) => Loading(th[t]) \/ f.page <= childLast \/ \E r \in taint : r >= f.page,
         Copied(f) => Copied(th[t]),
         f.op = "read" /\ f.pc \in {"rrel", "done"} => th[t].pc \in {"rrel", "done"},
         Ended(f) => Ended(th[t]) \/ (c'.pg[f.page].in /\ c'.pg[f.page].dirty)
  PROVE  CacheInv'
<1>1. ThreadsOK(th') /\ Goes(th, t, f, th')
  BY ThreadsMove DEF CacheInv
<1>2. PagesMove
  BY <1>1, OneMove DEF Still
<1> QED BY <1>1, <1>2, KinStep

(* Steps that change nothing the invariant looks at.                       *)
LEMMA Idles ==
  ASSUME CacheInv, UNCHANGED <<c, th, fstack, child, childLast, childEnd, size, latest, acked, taint>>
  PROVE  CacheInv'
<1>1. TypesOK' /\ ThreadsOK(th') /\ PagesOK'
  BY DEF CacheInv, TypesOK, PagesOK
<1>2. ChildOK' /\ SizeOK' /\ VersionOK' /\ SettledOK'
  BY DEF CacheInv, ChildOK, SizeOK, VersionOK, SettledOK
<1>3. StackOK' /\ CopiesOK' /\ DebtOK'
  BY DEF CacheInv, StackOK, CopiesOK, DebtOK
<1> QED BY <1>1, <1>2, <1>3 DEF CacheInv

-----------------------------------------------------------------------------
(* The actions, one by one.                                                *)

LEMMA Here ==
  ASSUME CacheInv, NEW t \in Threads
  PROVE  /\ th[t] \in ThreadType /\ ThreadOK(th[t]) /\ ThreadsOK(th) /\ CacheOK(c)
         /\ th[t].page \in Pages /\ th[t].slot \in {0, 1}
         /\ \A q \in Pages : c.pg[q] \in PageType /\ PageInv(c.pg[q], q, th, latest[q], child[q], taint)
         /\ \A q \in Pages : latest[q] \in Val /\ child[q] \in Val /\ acked[q] \in Val
BY Zenon DEF CacheInv, ThreadsOK, TypesOK, PagesOK, PageInv, ThreadType

(* A thread that only moves on.                                            *)
LEMMA Repc ==
  ASSUME NEW g \in ThreadType, NEW pc \in PcNames, NEW f, f = [g EXCEPT !.pc = pc]
  PROVE  /\ f \in ThreadType /\ Kin(g, f) /\ f.pc = pc
         /\ f.block = g.block /\ f.slot = g.slot /\ f.lo = g.lo /\ f.hi = g.hi /\ f.held = g.held
         /\ f.wrote = g.wrote /\ f.ret = g.ret /\ f.wait = g.wait /\ f.old = g.old
BY Zenon DEF ThreadType, Kin

(* Waiting on a page and moving between the steps of a request.            *)
LEMMA Waits ==
  ASSUME CacheInv, NEW t \in Threads, NEW pc \in {"rwait", "fwait", "wwait"},
         th[t].pc \in FreePcs, c.pg[th[t].page].in,
         pc = "rwait" => th[t].op = "read", pc = "wwait" => th[t].op = "write", th[t].op \in {"read", "write"},
         c' = [c EXCEPT !.pg[th[t].page].rd = @ + 1], Goto(t, pc), Still
  PROVE  CacheInv'
<1> DEFINE g == th[t]
           q == g.page
           p == c.pg[q]
           f == [g EXCEPT !.pc = pc]
           p2 == [p EXCEPT !.rd = p.rd + 1]
<1>1. /\ g \in ThreadType /\ ThreadOK(g) /\ ThreadsOK(th) /\ CacheOK(c) /\ q \in Pages
      /\ p \in PageType /\ PageInv(p, q, th, latest[q], child[q], taint)
  BY Here
<1>2. th' = [th EXCEPT ![t] = f]
  BY DEF Goto, CacheInv, ThreadsOK
<1>3. p2 \in PageType /\ Alike(p, p2) /\ p2.rd = p.rd + 1 /\ p2.fl = p.fl
  <2>1. p.rd \in Nat /\ p.rd + 1 \in Nat
    BY <1>1 DEF PageType
  <2> HIDE DEF p
  <2> QED BY <1>1, <2>1 DEF PageType, Alike
<1>4. Edit(c, c', q, p2)
  <2>1. "pg" \in DOMAIN c' /\ c'.pg = [c.pg EXCEPT ![q] = p2]
    BY <1>1 DEF CacheOK
  <2> QED BY <1>1, <1>3, <2>1, EditPage
<1>5. /\ f \in ThreadType /\ Kin(g, f) /\ f.pc = pc /\ f.held = g.held /\ f.ret = g.ret /\ f.lo = g.lo
      /\ f.slot = g.slot
  <2>1. pc \in PcNames
    BY DEF PcNames, ReadPcs, WritePcs, ForcePcs
  <2> QED BY <1>1, <2>1, Repc
<1> HIDE DEF f, p2
<1>6. ThreadOK(f)
  BY <1>1, <1>5, Zenon DEF ThreadOK, Kin, FreePcs, ReadPcs, WritePcs, ForcePcs, FlushPcs, StackPcs
<1>7. ThreadsOK(th') /\ Goes(th, t, f, th')
  BY <1>1, <1>2, <1>5, <1>6, ThreadsMove
<1>8. (\A r \in Pages : Away(g, r)) /\ (\A r \in Pages \ {q} : Away(f, r))
  BY <1>1, <1>5, <1>6, AwayFrom DEF Kin, PagePcs
<1>9. StepOK(p, c'.pg[q], q, th', latest[q], child[q], taint)
  <2>1. Rd(f, q) /\ ~Fl(f, q) /\ Fits(f, p, q)
    BY <1>1, <1>5, <1>6, Zenon DEF Rd, Fl, Fits, Fills, Loads, Kin, ThreadOK, FlushPcs, StackPcs
  <2>2. PageInv(p2, q, th', latest[q], child[q], taint)
    BY <1>1, <1>3, <1>7, <1>8, <2>1, RdUp
  <2> QED BY <1>3, <1>4, <2>2, AlikeTidy DEF Edit
<1>10. f.pc \notin StackPcs \cup {"fw2"} /\ ~Loading(f) /\ ~Copied(f) /\ ~Ended(f)
       /\ f.pc \notin {"rrel", "done"} /\ g.pc \notin StackPcs
  BY <1>5 DEF StackPcs, Loading, Copied, Ended, FreePcs
<1>11. CacheOK(c') /\ \A r \in Pages \ {q} : c'.pg[r] = c.pg[r] /\ Quiet(g, f, r)
  BY <1>4, <1>8 DEF Edit, Quiet
<1> QED BY <1>1, <1>2, <1>5, <1>6, <1>9, <1>10, <1>11, PageKin, Zenon

LEMMA Moves ==
  ASSUME CacheInv, NEW t \in Threads, NEW pc \in {"radvise", "force", "mem", "mwait"},
         th[t].pc \in FreePcs, pc = "radvise" => th[t].op = "read", th[t].op \in {"read", "write"},
         UNCHANGED c, Goto(t, pc), Still
  PROVE  CacheInv'
<1> DEFINE g == th[t]
           f == [g EXCEPT !.pc = pc]
<1>1. g \in ThreadType /\ ThreadOK(g) /\ ThreadsOK(th) /\ CacheOK(c)
  BY Here
<1>2. th' = [th EXCEPT ![t] = f]
  BY DEF Goto, CacheInv, ThreadsOK
<1>5. f \in ThreadType /\ Kin(g, f) /\ f.pc = pc /\ f.held = g.held /\ f.ret = g.ret /\ f.lo = g.lo
  <2>1. pc \in PcNames
    BY DEF PcNames, ReadPcs, WritePcs, ForcePcs
  <2> QED BY <1>1, <2>1, Repc
<1> HIDE DEF f
<1>6. ThreadOK(f)
  BY <1>1, <1>5, Zenon DEF ThreadOK, Kin, FreePcs, ReadPcs, WritePcs, ForcePcs, FlushPcs, StackPcs
<1> QED BY <1>1, <1>2, <1>5, <1>6, FreeKin

LEMMA Blocks ==
  ASSUME CacheInv, NEW t \in Threads, th[t].pc \in {"rget", "wget"},
         UNCHANGED c, Set(t, [th[t] EXCEPT !.block = TRUE]), Still
  PROVE  CacheInv'
<1> DEFINE g == th[t]
           f == [g EXCEPT !.block = TRUE]
<1>1. g \in ThreadType /\ ThreadOK(g) /\ ThreadsOK(th) /\ CacheOK(c)
  BY Here
<1>2. th' = [th EXCEPT ![t] = f]
  BY DEF Set
<1>5. f \in ThreadType /\ Kin(g, f) /\ f.pc = g.pc /\ f.held = g.held /\ f.ret = g.ret /\ f.lo = g.lo /\ f.slot = g.slot
  BY <1>1, Zenon DEF ThreadType, Kin
<1> HIDE DEF f
<1>6. ThreadOK(f)
  BY <1>1, <1>5, Zenon DEF ThreadOK, Kin, ReadPcs, WritePcs, ForcePcs, FlushPcs, StackPcs
<1>7. g.pc \in FreePcs
  BY DEF FreePcs
<1> QED BY <1>1, <1>2, <1>5, <1>6, <1>7, FreeKin

(* A read takes the bytes of a filled page.                                *)
LEMMA Fresh ==
  ASSUME CacheInv, NEW t \in Threads, NEW f, f.page = th[t].page, f.need = th[t].need, f.pc \in {"rrel", "done"},
         c.pg[th[t].page].in, ~c.pg[th[t].page].empty,
         f.got = c.pg[th[t].page].data[c.pg[th[t].page].cur]
  PROVE  VersionBy(f, latest, acked, taint)
<1> DEFINE q == th[t].page
<1>1. /\ q \in Pages /\ th[t].need[q] \in Val /\ acked[q] \in Val /\ latest[q] \in Val
      /\ PageInv(c.pg[q], q, th, latest[q], child[q], taint)
  <2>1. th[t] \in ThreadType
    BY Here
  <2> QED BY <2>1, Here, Zenon DEF ThreadType
<1>2. (\A r \in Pages : AtLeast(acked[r], th[t].need[r])) /\ AtLeast(latest[q], acked[q])
  BY <1>1 DEF CacheInv, VersionOK, VersionBy
<1>3. AtLeast(latest[q], th[t].need[q])
  BY <1>1, <1>2, AtLeastThen
<1>4. q \notin taint => f.got = latest[q]
  BY <1>1 DEF PageInv, PData
<1>5. ~Copied(f)
  BY DEF Copied
<1> QED BY <1>2, <1>3, <1>4, <1>5 DEF VersionBy

(* The thread of a read that has its bytes.                                *)
Got(g, f, pc, d) == f = [g EXCEPT !.pc = pc, !.got = d]
LEMMA GotThread ==
  ASSUME NEW g \in ThreadType, ThreadOK(g), g.op = "read", g.pc \in {"rget", "rwait", "rcopy"}, NEW d \in Val,
         NEW pc \in {"done", "rrel"}, NEW f, Got(g, f, pc, d)
  PROVE  /\ f \in ThreadType /\ ThreadOK(f) /\ f.pc = pc /\ f.op = g.op /\ f.page = g.page /\ f.need = g.need
         /\ f.slot = g.slot /\ f.got = d
         /\ SizeBy(g) => SizeBy(f)
         /\ \A last, bad : ChildBy(f, last, bad)
         /\ ~Ended(f) /\ g.pc \notin StackPcs /\ f.pc \notin StackPcs \cup {"fw2"} /\ ~(f.pc = "done" /\ f.op = "flush")
<1>1. pc \in PcNames
  BY DEF PcNames, ReadPcs
<1>2. /\ f \in ThreadType /\ f.pc = pc /\ f.op = g.op /\ f.page = g.page /\ f.need = g.need
      /\ f.slot = g.slot /\ f.got = d /\ f.held = g.held /\ f.bytes = g.bytes
  BY <1>1, Zenon DEF ThreadType, Val, Got
<1>3. g.held = {}
  BY DEF ThreadOK
<1>4. ThreadOK(f)
  BY <1>2, <1>3 DEF ThreadOK, ReadPcs, WritePcs, ForcePcs, FlushPcs, StackPcs
<1> QED BY <1>2, <1>3, <1>4 DEF SizeBy, ChildBy, Loading, Ended, StackPcs

LEMMA BufVal == ASSUME NEW p \in PageType, NEW i \in {0, 1}, p.data[i] # NULL PROVE p.data[i] \in Val
BY DEF PageType, Buf

LEMMA ReadHitInv ==
  ASSUME CacheInv, NEW t \in Threads, th[t].pc = "rget", c.pg[th[t].page].in, ~c.pg[th[t].page].empty, ReadHit(t)
  PROVE  CacheInv'
<1> DEFINE g == th[t]
           q == g.page
           p == c.pg[q]
           d == p.data[p.cur]
           f == [g EXCEPT !.pc = "done", !.got = d]
           e == [p.use EXCEPT ![p.cur] = p.use[p.cur] + 1]
           p2 == [p EXCEPT !.use = e]
<1>1. /\ g \in ThreadType /\ ThreadOK(g) /\ ThreadsOK(th) /\ CacheOK(c) /\ q \in Pages
      /\ p \in PageType /\ PageInv(p, q, th, latest[q], child[q], taint)
  BY Here
<1>2. CASE d = NULL
  BY <1>2, Idles DEF ReadHit, Halt
<1>3. CASE d # NULL
  <2>1. /\ c' = [c EXCEPT !.pg[q].use[p.cur] = @ + 1] /\ th' = [th EXCEPT ![t] = f] /\ Still
    BY <1>3 DEF ReadHit, Set, Still, OthersSame, ChildSame
  <2>2. p.cur \in {0, 1} /\ e \in [{0, 1} -> Int] /\ d \in Val /\ g.op = "read"
    <3>1. p.cur \in {0, 1} /\ p.use \in [{0, 1} -> Int]
      BY <1>1 DEF PageType
    <3>2. d \in Val
      BY <1>1, <1>3, <3>1, BufVal
    <3>3. g.op = "read"
      BY <1>1, Zenon DEF ThreadOK, ReadPcs
    <3> QED BY <3>1, <3>2, <3>3
  <2>3. "pg" \in DOMAIN c' /\ c'.pg = [c.pg EXCEPT ![q] = p2]
    BY <1>1, <2>1 DEF CacheOK
  <2> HIDE DEF e
  <2>4. p2 \in PageType /\ Alike(p, p2) /\ p2.rd = p.rd /\ p2.fl = p.fl
    <3> HIDE DEF p
    <3> QED BY <1>1, <2>2 DEF PageType, Alike
  <2> HIDE DEF p2
  <2>5. Edit(c, c', q, p2)
    BY <1>1, <2>3, <2>4, EditPage
  <2>6. /\ f \in ThreadType /\ ThreadOK(f) /\ f.pc = "done" /\ f.op = g.op /\ f.page = g.page /\ f.need = g.need
        /\ f.got = d /\ (SizeBy(g) => SizeBy(f)) /\ ChildBy(f, childLast, taint)
        /\ ~Ended(f) /\ g.pc \notin StackPcs /\ f.pc \notin StackPcs \cup {"fw2"} /\ ~(f.pc = "done" /\ f.op = "flush")
    <3>1. Got(g, f, "done", d)
      BY DEF Got
    <3> HIDE DEF f, d
    <3> QED BY <1>1, <2>2, <3>1, GotThread
  <2> HIDE DEF f
  <2>7. ThreadsOK(th') /\ Goes(th, t, f, th')
    BY <1>1, <2>1, <2>6, ThreadsMove
  <2>8. \A r \in Pages : Quiet(g, f, r)
    BY <1>1, <2>6, AwayFrom DEF FreePcs, Quiet
  <2>9. StepOK(p, p2, q, th', latest[q], child[q], taint)
    BY <1>1, <2>4, <2>6, <2>7, <2>8, AlikeQuiet
  <2>10. CacheOK(c') /\ c'.pg[q] = p2 /\ \A r \in Pages \ {q} : c'.pg[r] = c.pg[r]
    BY <2>5 DEF Edit
  <2>11. PagesMove
    <3>1. latest' = latest /\ child' = child /\ taint' = taint
      BY <2>1 DEF Still
    <3> QED BY <1>1, <2>6, <2>7, <2>8, <2>9, <2>10, <3>1, OneMove
  <2>12. VersionBy(f, latest, acked, taint)
    BY <2>6, Fresh
  <2>13. SizeBy(f)
    BY <2>6 DEF CacheInv, SizeOK
  <2> QED BY <2>1, <2>6, <2>7, <2>10, <2>11, <2>12, <2>13, CalmStep, Zenon
<1> QED BY <1>2, <1>3

(* cache_read_pages_get.                                                   *)
LEMMA ReadGetInv ==
  ASSUME CacheInv, NEW t \in Threads, ReadGet(t)
  PROVE  CacheInv'
<1> DEFINE q == th[t].page
           p == c.pg[q]
<1>1. th[t].pc = "rget" /\ th[t].op = "read" /\ th[t].pc \in FreePcs
  <2>1. ThreadOK(th[t])
    BY Here
  <2> QED BY <2>1, Zenon DEF ReadGet, At, ThreadOK, ReadPcs, FreePcs
<1>2. CASE p.in /\ ~p.empty /\ ~p.torel /\ ReadHit(t)
  BY <1>1, <1>2, ReadHitInv
<1>3. CASE UNCHANGED c /\ Set(t, [th[t] EXCEPT !.block = TRUE]) /\ Still
  BY <1>1, <1>3, Blocks
<1>4. CASE p.in /\ c' = [c EXCEPT !.pg[q].rd = @ + 1] /\ Goto(t, "rwait") /\ Still
  BY <1>1, <1>4, Waits
<1>5. CASE UNCHANGED c /\ Goto(t, "radvise") /\ Still
  BY <1>1, <1>5, Moves
<1> QED BY <1>2, <1>3, <1>4, <1>5 DEF ReadGet, Still, OthersSame, ChildSame, HistorySame

(* A thread that waits on a page holds it.                                 *)
LEMMA Waited ==
  ASSUME CacheInv, NEW t \in Threads, th[t].pc \in {"rwait", "fwait", "wwait"}
  PROVE  LET g == th[t]
             q == g.page
         IN /\ Rd(g, q) /\ ~Fills(g, q) /\ ~Fl(g, q) /\ \A r : r # q => Away(g, r)
            /\ c.pg[q].rd \in Nat /\ c.pg[q].rd # 0 /\ c.pg[q].in
            /\ g.pc \notin StackPcs
<1> DEFINE g == th[t]
           q == g.page
           p == c.pg[q]
<1>1. ThreadOK(g) /\ q \in Pages /\ PageInv(p, q, th, latest[q], child[q], taint)
  BY Here
<1>2. Rd(g, q) /\ ~Fills(g, q) /\ g.pc \notin StackPcs
  BY DEF Rd, Fills, Loads, FlushPcs, StackPcs
<1>3. ~Fl(g, q) /\ \A r : r # q => Away(g, r)
  BY <1>1, AwayFrom DEF PagePcs
<1>4. p.rd \in Nat /\ p.rd # 0
  BY <1>1, <1>2, Holders DEF PageInv
<1>5. p.in
  BY <1>1, <1>4, AbsentType DEF PageInv, POwn
<1> QED BY <1>2, <1>3, <1>4, <1>5

(* The wait of a thread ends and it goes on without the page.              *)
LEMMA Unwaits ==
  ASSUME CacheInv, NEW t \in Threads, th[t].pc \in {"rwait", "fwait", "wwait"},
         NEW pc \in {"radvise", "force"}, pc = "radvise" => th[t].op = "read", th[t].op \in {"read", "write"},
         c' = [c EXCEPT !.pg[th[t].page].rd = @ - 1], Goto(t, pc), Still
  PROVE  CacheInv'
<1> DEFINE g == th[t]
           q == g.page
           p == c.pg[q]
           f == [g EXCEPT !.pc = pc]
           p2 == [p EXCEPT !.rd = p.rd - 1]
<1>1. /\ g \in ThreadType /\ ThreadOK(g) /\ ThreadsOK(th) /\ CacheOK(c) /\ q \in Pages
      /\ p \in PageType /\ PageInv(p, q, th, latest[q], child[q], taint)
  BY Here
<1>2. th' = [th EXCEPT ![t] = f]
  BY DEF Goto, CacheInv, ThreadsOK
<1>3. /\ Rd(g, q) /\ ~Fills(g, q) /\ ~Fl(g, q) /\ (\A r : r # q => Away(g, r))
      /\ p.rd \in Nat /\ p.rd # 0 /\ p.in /\ g.pc \notin StackPcs
  BY Waited
<1>4. p2 \in PageType /\ Alike(p, p2) /\ p2.rd = p.rd - 1 /\ p2.fl = p.fl
  <2>1. p.rd - 1 \in Nat
    BY <1>3
  <2> HIDE DEF p
  <2> QED BY <1>1, <2>1 DEF PageType, Alike
<1>5. Edit(c, c', q, p2)
  <2>1. "pg" \in DOMAIN c' /\ c'.pg = [c.pg EXCEPT ![q] = p2]
    BY <1>1 DEF CacheOK
  <2> QED BY <1>1, <1>4, <2>1, EditPage
<1>6. f \in ThreadType /\ Kin(g, f) /\ f.pc = pc /\ f.held = g.held /\ f.ret = g.ret /\ f.lo = g.lo
  <2>1. pc \in PcNames
    BY DEF PcNames, ReadPcs, WritePcs, ForcePcs
  <2> QED BY <1>1, <2>1, Repc
<1> HIDE DEF f, p2
<1>7. ThreadOK(f)
  BY <1>1, <1>6, Zenon DEF ThreadOK, Kin, ReadPcs, WritePcs, ForcePcs, FlushPcs, StackPcs
<1>8. ThreadsOK(th') /\ Goes(th, t, f, th')
  BY <1>1, <1>2, <1>6, <1>7, ThreadsMove
<1>9. \A r \in Pages : Away(f, r)
  BY <1>6, <1>7, AwayFrom DEF FreePcs
<1>10. StepOK(p, c'.pg[q], q, th', latest[q], child[q], taint)
  <2>1. PageInv(p2, q, th', latest[q], child[q], taint)
    BY <1>1, <1>3, <1>4, <1>7, <1>8, <1>9, RdDown
  <2> QED BY <1>4, <1>5, <2>1, AlikeTidy DEF Edit
<1>11. f.pc \notin StackPcs \cup {"fw2"} /\ ~Loading(f) /\ ~Copied(f) /\ ~Ended(f) /\ f.pc \notin {"rrel", "done"}
  BY <1>6 DEF StackPcs, Loading, Copied, Ended
<1>12. CacheOK(c') /\ \A r \in Pages \ {q} : c'.pg[r] = c.pg[r] /\ Quiet(g, f, r)
  BY <1>3, <1>5, <1>9 DEF Edit, Quiet
<1> QED BY <1>1, <1>2, <1>3, <1>6, <1>7, <1>10, <1>11, <1>12, PageKin, Zenon

(* _cache_wait_for_page of a read.                                         *)
LEMMA ReadWakeInv ==
  ASSUME CacheInv, NEW t \in Threads, ReadWake(t)
  PROVE  CacheInv'
<1> DEFINE g == th[t]
           q == g.page
           p == c.pg[q]
           d == p.data[p.cur]
           k == [c EXCEPT !.pg[q].rd = @ - 1]
<1>1. /\ g \in ThreadType /\ ThreadOK(g) /\ ThreadsOK(th) /\ CacheOK(c) /\ q \in Pages
      /\ p \in PageType /\ PageInv(p, q, th, latest[q], child[q], taint)
  BY Here
<1>2. g.pc = "rwait" /\ g.op = "read"
  BY <1>1, Zenon DEF ReadWake, At, ThreadOK, ReadPcs
<1>3. /\ Rd(g, q) /\ ~Fills(g, q) /\ ~Fl(g, q) /\ (\A r : r # q => Away(g, r))
      /\ p.rd \in Nat /\ p.rd # 0 /\ p.in /\ g.pc \notin StackPcs
  BY <1>2, Waited
<1>4. CASE Sleep(t) \/ Halt
  BY <1>4, Idles DEF Sleep, Halt
<1>5. CASE c' = k /\ Goto(t, "radvise") /\ Still
  BY <1>2, <1>5, Unwaits
<1>6. CASE /\ ~p.empty /\ d # NULL /\ c' = [k EXCEPT !.pg[q].use[p.cur] = @ + 1]
           /\ Set(t, [g EXCEPT !.pc = "done", !.got = d]) /\ Still
  <2> DEFINE f == [g EXCEPT !.pc = "done", !.got = d]
             e == [p.use EXCEPT ![p.cur] = p.use[p.cur] + 1]
             p2 == [p EXCEPT !.rd = p.rd - 1, !.use = e]
  <2>1. th' = [th EXCEPT ![t] = f]
    BY <1>6, Zenon DEF Set
  <2>2. p.cur \in {0, 1} /\ e \in [{0, 1} -> Int] /\ d \in Val
    <3>1. p.cur \in {0, 1} /\ p.use \in [{0, 1} -> Int]
      BY <1>1 DEF PageType
    <3>2. d \in Val
      BY <1>1, <1>6, <3>1, BufVal, Zenon
    <3> QED BY <3>1, <3>2
  <2>3. "pg" \in DOMAIN c' /\ c'.pg = [c.pg EXCEPT ![q] = p2]
    BY <1>1, <1>6, Zenon DEF CacheOK
  <2>4. p2 \in PageType /\ Alike(p, p2) /\ p2.rd = p.rd - 1 /\ p2.fl = p.fl
    <3>1. p.rd - 1 \in Nat
      BY <1>3
    <3> HIDE DEF p, e
    <3> QED BY <1>1, <2>2, <3>1 DEF PageType, Alike
  <2> HIDE DEF p2
  <2>5. CacheOK(c') /\ c'.pg[q] = p2 /\ \A r \in Pages \ {q} : c'.pg[r] = c.pg[r]
    BY <1>1, <2>3, <2>4, EditPage DEF Edit
  <2>6. /\ f \in ThreadType /\ ThreadOK(f) /\ f.pc = "done" /\ f.op = g.op /\ f.page = g.page /\ f.need = g.need
        /\ f.got = d /\ (SizeBy(g) => SizeBy(f)) /\ ChildBy(f, childLast, taint)
        /\ ~Ended(f) /\ g.pc \notin StackPcs /\ f.pc \notin StackPcs \cup {"fw2"} /\ ~(f.pc = "done" /\ f.op = "flush")
    <3>1. Got(g, f, "done", d)
      BY DEF Got
    <3> HIDE DEF f, d
    <3> QED BY <1>1, <1>2, <2>2, <3>1, GotThread
  <2> HIDE DEF f
  <2>7. ThreadsOK(th') /\ Goes(th, t, f, th')
    BY <1>1, <2>1, <2>6, ThreadsMove
  <2>8. (\A r \in Pages : Away(f, r)) /\ (\A r \in Pages \ {q} : Quiet(g, f, r))
    BY <1>3, <2>6, AwayFrom DEF FreePcs, Quiet
  <2>9. StepOK(p, p2, q, th', latest[q], child[q], taint)
    <3>1. PageInv(p2, q, th', latest[q], child[q], taint)
      BY <1>1, <1>3, <2>4, <2>6, <2>7, <2>8, RdDown
    <3> QED BY <2>4, <3>1, AlikeTidy
  <2>11. PagesMove
    <3>1. latest' = latest /\ child' = child /\ taint' = taint
      BY <1>6, Zenon DEF Still
    <3> QED BY <1>1, <2>6, <2>7, <2>8, <2>9, <2>5, <3>1, OneMove
  <2>12. VersionBy(f, latest, acked, taint)
    BY <1>3, <1>6, <2>6, Fresh, Zenon
  <2>13. SizeBy(f)
    BY <2>6 DEF CacheInv, SizeOK
  <2> QED BY <1>6, <2>5, <2>6, <2>7, <2>11, <2>12, <2>13, CalmStep, Zenon
<1> QED BY <1>4, <1>5, <1>6, Zenon DEF ReadWake, Still, OthersSame, ChildSame, HistorySame

-----------------------------------------------------------------------------
(* Steps that make room first.                                             *)

Roomy(k, k2, r) ==
  \/ k2.pg[r] = k.pg[r]
  \/ k2.pg[r] = Absent /\ k.pg[r].in /\ ~k.pg[r].dirty /\ Pending(k.pg[r]) = 0

LEMMA RoomMove ==
  ASSUME CacheInv, NEW t \in Threads, NEW f, ThreadOK(f), Goes(th, t, f, th'), NEW q \in Pages,
         \A r \in Pages \ {q} : /\ Roomy(c, c', r) /\ Away(th[t], r) /\ Away(f, r)
                                /\ latest'[r] = latest[r] /\ child'[r] = child[r],
         taint' = taint, StepOK(c.pg[q], c'.pg[q], q, th', latest'[q], child'[q], taint)
  PROVE  PagesMove
<1> SUFFICES ASSUME NEW r \in Pages \ {q}
             PROVE  StepOK(c.pg[r], c'.pg[r], r, th', latest[r], child[r], taint)
  BY DEF PagesMove
<1>1. ThreadsOK(th) /\ PageInv(c.pg[r], r, th, latest[r], child[r], taint)
  BY DEF CacheInv, PagesOK
<1>2. CASE c'.pg[r] = c.pg[r]
  BY <1>1, <1>2, QuietStep DEF Quiet
<1>3. CASE c'.pg[r] = Absent /\ c.pg[r].in /\ ~c.pg[r].dirty /\ Pending(c.pg[r]) = 0
  <2>1. StepOK(c.pg[r], Absent, r, th, latest[r], child[r], taint)
    BY <1>1, <1>3, EvictStep
  <2> QED BY <1>1, <1>3, <2>1, CowAway
<1> QED BY <1>2, <1>3 DEF Roomy

LEMMA RoomKin ==
  ASSUME CacheInv, CacheOK(c'), Still,
         NEW t \in Threads, NEW f \in ThreadType, ThreadOK(f), th' = [th EXCEPT ![t] = f],
         Kin(th[t], f), NEW q \in Pages,
         \A r \in Pages \ {q} : Roomy(c, c', r) /\ Away(th[t], r) /\ Away(f, r),
         StepOK(c.pg[q], c'.pg[q], q, th', latest[q], child[q], taint),
         th[t].pc \notin StackPcs, f.pc \notin StackPcs \cup {"fw2"}, ~(f.pc = "done" /\ f.op = "flush"),
         Loading(f) => Loading(th[t]) \/ f.page <= childLast \/ \E r \in taint : r >= f.page,
         Copied(f) => Copied(th[t]),
         f.op = "read" /\ f.pc \in {"rrel", "done"} => th[t].pc \in {"rrel", "done"},
         Ended(f) => Ended(th[t]) \/ (c'.pg[f.page].in /\ c'.pg[f.page].dirty)
  PROVE  CacheInv'
<1>1. ThreadsOK(th') /\ Goes(th, t, f, th')
  BY ThreadsMove DEF CacheInv
<1>2. PagesMove
  BY <1>1, RoomMove DEF Still
<1> QED BY <1>1, <1>2, KinStep

(* A page was evicted to be made anew.                                     *)
LEMMA EvictTidy ==
  ASSUME NEW T, ThreadsOK(T), NEW t \in Threads, NEW f, f.held = {}, NEW U, Goes(T, t, f, U),
         NEW p, NEW q, NEW new, NEW disk, NEW bad, PageInv(p, q, T, new, disk, bad),
         ~p.dirty, Pending(p) = 0, p.in, NEW new2
  PROVE  PTidy(p, Absent, q, U, new2, disk, bad)
<1>1. U[t] = f /\ \A u \in Threads \ {t} : U[u] = T[u]
  BY GoesSays
<1>2. p.rd \in Nat /\ p.wr \in Nat /\ p.fl \in Nat
  BY Holders DEF PageInv
<1>3. p.fl = 0
  BY <1>2 DEF Pending
<1>4. \A u \in Threads : ~Fl(T[u], q)
  BY <1>3, Holders DEF PageInv
<1> QED BY <1>1, <1>4 DEF PTidy, Fl

(* Waiting for a page, with room made or not.                              *)
LEMMA ForceWaitInv ==
  ASSUME CacheInv, NEW t \in Threads, th[t].pc \in FreePcs, th[t].op \in {"read", "write"},
         NEW k, CacheOK(k), k.pg[th[t].page] = c.pg[th[t].page], c.pg[th[t].page].in,
         \A r \in Pages : Roomy(c, k, r), ForceWait(t, k), Still
  PROVE  CacheInv'
<1> DEFINE g == th[t]
           q == g.page
           p == c.pg[q]
           f == [g EXCEPT !.pc = "fwait"]
           p2 == [p EXCEPT !.rd = p.rd + 1]
<1>1. /\ g \in ThreadType /\ ThreadOK(g) /\ ThreadsOK(th) /\ CacheOK(c) /\ q \in Pages
      /\ p \in PageType /\ PageInv(p, q, th, latest[q], child[q], taint)
  BY Here
<1>2. th' = [th EXCEPT ![t] = f]
  BY DEF ForceWait, Goto, CacheInv, ThreadsOK
<1>3. p2 \in PageType /\ Alike(p, p2) /\ p2.rd = p.rd + 1 /\ p2.fl = p.fl
  <2>1. p.rd \in Nat /\ p.rd + 1 \in Nat
    BY <1>1 DEF PageType
  <2> HIDE DEF p
  <2> QED BY <1>1, <2>1 DEF PageType, Alike
<1>4. Edit(k, c', q, p2)
  <2>1. "pg" \in DOMAIN c' /\ c'.pg = [k.pg EXCEPT ![q] = p2]
    BY <1>1 DEF CacheOK, ForceWait
  <2> QED BY <1>1, <1>3, <2>1, EditPage
<1>5. f \in ThreadType /\ Kin(g, f) /\ f.pc = "fwait" /\ f.held = g.held /\ f.ret = g.ret /\ f.lo = g.lo
  <2>1. "fwait" \in PcNames
    BY DEF PcNames, ForcePcs
  <2> QED BY <1>1, <2>1, Repc
<1> HIDE DEF f, p2
<1>6. ThreadOK(f)
  BY <1>1, <1>5, Zenon DEF ThreadOK, Kin, FreePcs, ReadPcs, WritePcs, ForcePcs, FlushPcs, StackPcs
<1>7. ThreadsOK(th') /\ Goes(th, t, f, th')
  BY <1>1, <1>2, <1>5, <1>6, ThreadsMove
<1>8. (\A r \in Pages : Away(g, r)) /\ (\A r \in Pages \ {q} : Away(f, r))
  BY <1>1, <1>5, <1>6, AwayFrom DEF Kin, PagePcs
<1>9. StepOK(p, c'.pg[q], q, th', latest[q], child[q], taint)
  <2>1. Rd(f, q) /\ ~Fl(f, q) /\ Fits(f, p, q)
    BY <1>1, <1>5, <1>6, Zenon DEF Rd, Fl, Fits, Fills, Loads, Kin, ThreadOK, FlushPcs, StackPcs
  <2>2. PageInv(p2, q, th', latest[q], child[q], taint)
    BY <1>1, <1>3, <1>7, <1>8, <2>1, RdUp
  <2> QED BY <1>3, <1>4, <2>2, AlikeTidy DEF Edit
<1>10. f.pc \notin StackPcs \cup {"fw2"} /\ ~Loading(f) /\ ~Copied(f) /\ ~Ended(f)
       /\ f.pc \notin {"rrel", "done"} /\ g.pc \notin StackPcs
  BY <1>5 DEF StackPcs, Loading, Copied, Ended, FreePcs
<1>11. CacheOK(c') /\ \A r \in Pages \ {q} : Roomy(c, c', r) /\ Away(g, r) /\ Away(f, r)
  BY <1>4, <1>8 DEF Edit, Roomy
<1> QED BY <1>1, <1>2, <1>5, <1>6, <1>9, <1>10, <1>11, RoomKin

(* The thread that takes a page.                                           *)
Took(g, f, i) == f = [g EXCEPT !.slot = i, !.pc = IF g.op = "write" THEN "wcopy" ELSE "rcopy"]
LEMMA TookThread ==
  ASSUME NEW g \in ThreadType, ThreadOK(g), g.op \in {"read", "write"}, g.pc \in FreePcs \cup {"fwait"},
         NEW i \in {0, 1}, NEW f, Took(g, f, i)
  PROVE  /\ f \in ThreadType /\ ThreadOK(f) /\ Kin(g, f) /\ f.slot = i /\ f.held = {}
         /\ f.pc = (IF g.op = "write" THEN "wcopy" ELSE "rcopy")
         /\ ~Loading(f) /\ ~Copied(f) /\ ~Ended(f) /\ f.pc \notin {"rrel", "done"}
         /\ g.pc \notin StackPcs /\ f.pc \notin StackPcs \cup {"fw2"}
         /\ (Rd(f, f.page) <=> g.op = "read") /\ (Wr(f, f.page) <=> g.op = "write")
         /\ \A r : r # f.page => Away(f, r)
<1>1. (IF g.op = "write" THEN "wcopy" ELSE "rcopy") \in PcNames
  BY DEF PcNames, ReadPcs, WritePcs
<1>2. /\ f \in ThreadType /\ Kin(g, f) /\ f.slot = i /\ f.held = g.held /\ f.lo = g.lo /\ f.hi = g.hi
      /\ f.pc = (IF g.op = "write" THEN "wcopy" ELSE "rcopy")
  BY <1>1, Zenon DEF ThreadType, Took, Kin
<1>3. g.held = {}
  BY Zenon DEF ThreadOK, FreePcs
<1>4. ThreadOK(f)
  BY <1>2, <1>3, Zenon DEF ThreadOK, Kin, ReadPcs, WritePcs, ForcePcs, FlushPcs, StackPcs
<1>5. \A r : r # f.page => Away(f, r)
  BY <1>2, <1>4, AwayFrom DEF PagePcs
<1>6. (Rd(f, f.page) <=> g.op = "read") /\ (Wr(f, f.page) <=> g.op = "write")
  BY <1>2 DEF Rd, Wr, Kin, FlushPcs, StackPcs
<1> QED BY <1>2, <1>3, <1>4, <1>5, <1>6 DEF Loading, Copied, Ended, StackPcs, FreePcs

LEMMA TakenInv ==
  ASSUME CacheInv, NEW t \in Threads, th[t].pc \in FreePcs \cup {"fwait"}, th[t].op \in {"read", "write"},
         c.pg[th[t].page].in, Ready(c.pg[th[t].page], th[t].op),
         NEW f, Took(th[t], f, c.pg[th[t].page].cur), th' = [th EXCEPT ![t] = f], Still, CacheOK(c'),
         \A r \in Pages \ {th[t].page} : Roomy(c, c', r),
         NEW p2 \in PageType, c'.pg[th[t].page] = p2,
         p2.in, ~p2.empty, p2.dirty = c.pg[th[t].page].dirty, p2.cur = c.pg[th[t].page].cur,
         p2.data = c.pg[th[t].page].data, p2.fl = c.pg[th[t].page].fl,
         p2.rd = c.pg[th[t].page].rd + (IF th[t].op = "read" THEN 1 ELSE 0) - (IF th[t].pc = "fwait" THEN 1 ELSE 0),
         p2.wr = c.pg[th[t].page].wr + (IF th[t].op = "write" THEN 1 ELSE 0)
  PROVE  CacheInv'
<1> DEFINE g == th[t]
           q == g.page
           p == c.pg[q]
<1>1. /\ g \in ThreadType /\ ThreadOK(g) /\ ThreadsOK(th) /\ CacheOK(c) /\ q \in Pages
      /\ p \in PageType /\ PageInv(p, q, th, latest[q], child[q], taint)
  BY Here
<1>2. p.cur \in {0, 1}
  BY <1>1 DEF PageType
<1>3. /\ f \in ThreadType /\ ThreadOK(f) /\ Kin(g, f) /\ f.slot = p.cur /\ f.held = {}
      /\ f.pc = (IF g.op = "write" THEN "wcopy" ELSE "rcopy")
      /\ ~Loading(f) /\ ~Copied(f) /\ ~Ended(f) /\ f.pc \notin {"rrel", "done"}
      /\ g.pc \notin StackPcs /\ f.pc \notin StackPcs \cup {"fw2"}
      /\ (Rd(f, f.page) <=> g.op = "read") /\ (Wr(f, f.page) <=> g.op = "write")
      /\ \A r : r # f.page => Away(f, r)
  BY <1>1, <1>2, TookThread
<1>4. f.page = q
  BY <1>3 DEF Kin
<1>5. ThreadsOK(th') /\ Goes(th, t, f, th')
  BY <1>1, <1>3, ThreadsMove
<1>6. /\ ~Fills(g, q) /\ ~Fl(g, q) /\ (Rd(g, q) <=> g.pc = "fwait")
      /\ \A r : r # q => Away(g, r)
  <2>1. CASE g.pc \in FreePcs
    <3>1. g.pc # "fwait"
      BY <2>1 DEF FreePcs
    <3> QED BY <1>1, <2>1, <3>1, AwayFrom, AwayFits DEF Away
  <2>2. CASE g.pc = "fwait"
    BY <2>2, Waited
  <2> QED BY <2>1, <2>2
<1>7. StepOK(p, c'.pg[q], q, th', latest[q], child[q], taint)
  <2>1. ~p.empty /\ (g.op = "write" => p.fl = 0)
    BY DEF Ready
  <2>2. f.pc = "rcopy" \/ (f.pc = "wcopy" /\ p.fl = 0)
    BY <1>3, <2>1
  <2>3. /\ p2.rd = p.rd + (IF Rd(f, q) THEN 1 ELSE 0) - (IF Rd(g, q) THEN 1 ELSE 0)
        /\ p2.wr = p.wr + (IF Wr(f, q) THEN 1 ELSE 0)
    BY <1>3, <1>4, <1>6
  <2> HIDE DEF p
  <2> QED BY <1>1, <1>3, <1>4, <1>5, <1>6, <2>1, <2>2, <2>3, TakeStep DEF p
<1>8. \A r \in Pages \ {q} : Roomy(c, c', r) /\ Away(g, r) /\ Away(f, r)
  BY <1>3, <1>4, <1>6
<1> QED BY <1>1, <1>3, <1>7, <1>8, RoomKin

(* The page a ForceTake leaves.                                            *)
Takes(p, p2, op) ==
  /\ p2 \in PageType
  /\ p2.in = p.in /\ p2.empty = p.empty /\ p2.dirty = p.dirty /\ p2.cur = p.cur /\ p2.data = p.data
  /\ p2.fl = p.fl /\ p2.rd = (IF op = "write" THEN p.rd ELSE p.rd + 1) /\ p2.wr = (IF op = "write" THEN p.wr + 1 ELSE p.wr)
Taking(k, q, op) ==
  [k EXCEPT !.pg[q] = [k.pg[q] EXCEPT !.rd = IF op = "write" THEN @ ELSE @ + 1,
                                      !.wr = IF op = "write" THEN @ + 1 ELSE @,
                                      !.use[k.pg[q].cur] = @ + 1]]
LEMMA TakePage ==
  ASSUME NEW k, CacheOK(k), NEW q \in Pages, NEW op, NEW k2, k2 = Taking(k, q, op)
  PROVE  Edit(k, k2, q, k2.pg[q]) /\ Takes(k.pg[q], k2.pg[q], op)
<1> DEFINE p == k.pg[q]
           rd == IF op = "write" THEN p.rd ELSE p.rd + 1
           wr == IF op = "write" THEN p.wr + 1 ELSE p.wr
           e == [p.use EXCEPT ![p.cur] = p.use[p.cur] + 1]
           p2 == [p EXCEPT !.rd = rd, !.wr = wr, !.use = e]
<1>1. p \in PageType /\ p.cur \in {0, 1} /\ p.use \in [{0, 1} -> Int] /\ p.rd \in Nat /\ p.wr \in Nat
  BY DEF CacheOK, PageType
<1>2. rd \in Nat /\ wr \in Nat /\ e \in [{0, 1} -> Int]
  BY <1>1
<1>3. "pg" \in DOMAIN k2 /\ k2.pg = [k.pg EXCEPT ![q] = p2]
  BY DEF CacheOK, Taking
<1> HIDE DEF p, rd, wr, e
<1>4. /\ p2 \in PageType /\ p2.in = p.in /\ p2.empty = p.empty /\ p2.dirty = p.dirty /\ p2.cur = p.cur /\ p2.data = p.data
      /\ p2.fl = p.fl /\ p2.rd = rd /\ p2.wr = wr
  BY <1>1, <1>2 DEF PageType
<1> HIDE DEF p2
<1>5. Edit(k, k2, q, p2)
  BY <1>3, <1>4, EditPage
<1>6. k2.pg[q] = p2
  BY <1>5 DEF Edit
<1>7. Takes(p, p2, op)
  BY <1>4 DEF Takes, rd, wr
<1> QED BY <1>5, <1>6, <1>7 DEF p

LEMMA ForceGetInv ==
  ASSUME CacheInv, NEW t \in Threads, th[t].pc \in FreePcs, th[t].op \in {"read", "write"},
         NEW k, CacheOK(k), k.pg[th[t].page] = c.pg[th[t].page], c.pg[th[t].page].in,
         \A r \in Pages : Roomy(c, k, r), ForceGet(t, k), Still
  PROVE  CacheInv'
<1> DEFINE g == th[t]
           q == g.page
           p == c.pg[q]
           p2 == c'.pg[q]
           f == [g EXCEPT !.slot = p.cur, !.pc = IF g.op = "write" THEN "wcopy" ELSE "rcopy"]
<1>0. q \in Pages /\ p \in PageType /\ p.rd \in Nat /\ p.wr \in Nat
  <2>1. q \in Pages /\ p \in PageType
    BY Here
  <2> QED BY <2>1 DEF PageType
<1>1. CASE ~Ready(p, g.op)
  BY <1>1, ForceWaitInv DEF ForceGet
<1>2. CASE Ready(p, g.op)
  <2>1. ForceTake(t, k)
    BY <1>2 DEF ForceGet
  <2>2. th' = [th EXCEPT ![t] = f] /\ Took(g, f, p.cur)
    BY <2>1 DEF ForceTake, Set, Took
  <2>3. c' = Taking(k, q, g.op)
    BY <2>1 DEF ForceTake, Taking
  <2> HIDE DEF f
  <2>5. /\ Edit(k, c', q, p2) /\ p2 \in PageType
        /\ p2.in = p.in /\ p2.empty = p.empty /\ p2.dirty = p.dirty /\ p2.cur = p.cur /\ p2.data = p.data
        /\ p2.fl = p.fl /\ p2.rd = (IF g.op = "write" THEN p.rd ELSE p.rd + 1) /\ p2.wr = (IF g.op = "write" THEN p.wr + 1 ELSE p.wr)
    <3>1. Edit(k, c', q, c'.pg[q]) /\ Takes(k.pg[q], c'.pg[q], g.op)
      BY <1>0, <2>3, TakePage
    <3>2. Takes(p, p2, g.op)
      BY <3>1
    <3> HIDE DEF p, p2
    <3> QED BY <3>1, <3>2 DEF Takes, p2
  <2>6. CacheOK(c') /\ \A r \in Pages \ {q} : Roomy(c, c', r)
    BY <2>5 DEF Edit, Roomy
  <2>7. g.pc # "fwait"
    BY DEF FreePcs
  <2>8. /\ p2.rd = p.rd + (IF g.op = "read" THEN 1 ELSE 0) - (IF g.pc = "fwait" THEN 1 ELSE 0)
        /\ p2.wr = p.wr + (IF g.op = "write" THEN 1 ELSE 0)
    BY <1>0, <2>5, <2>7
  <2>9. p2.in /\ ~p2.empty
    BY <1>2, <2>5 DEF Ready
  <2> HIDE DEF p2
  <2> QED BY <1>2, <2>2, <2>5, <2>6, <2>8, <2>9, TakenInv, Zenon DEF p2
<1> QED BY <1>1, <1>2

(* cache_page_force_get.                                                   *)
LEMMA ForceStartInv ==
  ASSUME CacheInv, NEW t \in Threads, ForceStart(t)
  PROVE  CacheInv'
<1>1. th[t].pc = "force" /\ th[t].op \in {"read", "write"} /\ th[t].pc \in FreePcs /\ CacheOK(c) /\ Still
  <2>1. ThreadOK(th[t]) /\ CacheOK(c)
    BY Here
  <2> QED BY <2>1, Zenon DEF ForceStart, At, ThreadOK, ForcePcs, FreePcs, Still, OthersSame, ChildSame, HistorySame
<1>2. CASE c.pg[th[t].page].in
  <2>1. \A r \in Pages : Roomy(c, c, r)
    BY DEF Roomy
  <2> QED BY <1>1, <1>2, <2>1, ForceGetInv DEF ForceStart
<1>3. CASE ~c.pg[th[t].page].in
  BY <1>1, <1>3, Moves DEF ForceStart
<1> QED BY <1>2, <1>3

LEMMA ForceWakeInv ==
  ASSUME CacheInv, NEW t \in Threads, ForceWake(t)
  PROVE  CacheInv'
<1> DEFINE g == th[t]
           q == g.page
           p == c.pg[q]
           p1 == [p EXCEPT !.rd = p.rd - 1]
           k == [c EXCEPT !.pg[q].rd = @ - 1]
           p2 == c'.pg[q]
           f == [g EXCEPT !.slot = p.cur, !.pc = IF g.op = "write" THEN "wcopy" ELSE "rcopy"]
<1>1. /\ g \in ThreadType /\ ThreadOK(g) /\ ThreadsOK(th) /\ CacheOK(c) /\ q \in Pages
      /\ p \in PageType /\ PageInv(p, q, th, latest[q], child[q], taint)
  BY Here
<1>2. g.pc = "fwait" /\ g.op \in {"read", "write"}
  BY <1>1, Zenon DEF ForceWake, At, ThreadOK, ForcePcs
<1>3. p.rd \in Nat /\ p.rd # 0 /\ p.in /\ p.wr \in Nat
  BY <1>1, <1>2, Waited DEF PageType
<1>4. CASE ~Ready(p, g.op)
  <2>1. Sleep(t)
    BY <1>4 DEF ForceWake
  <2> QED BY <2>1, Idles DEF Sleep
<1>5. CASE Ready(p, g.op)
  <2>1. ForceTake(t, k) /\ Still
    BY <1>5 DEF ForceWake, Still, OthersSame, ChildSame, HistorySame
  <2>2. p1 \in PageType /\ p1.in = p.in /\ p1.empty = p.empty /\ p1.dirty = p.dirty /\ p1.cur = p.cur
        /\ p1.data = p.data /\ p1.fl = p.fl /\ p1.rd = p.rd - 1 /\ p1.wr = p.wr
    <3>1. p.rd - 1 \in Nat
      BY <1>3
    <3> HIDE DEF p
    <3> QED BY <1>1, <3>1 DEF PageType
  <2>3. Edit(c, k, q, p1)
    <3>1. "pg" \in DOMAIN k /\ k.pg = [c.pg EXCEPT ![q] = p1]
      BY <1>1 DEF CacheOK
    <3> HIDE DEF k, p1
    <3> QED BY <1>1, <2>2, <3>1, EditPage
  <2> HIDE DEF p1, k
  <2>4. CacheOK(k) /\ k.pg[q] = p1
    BY <2>3 DEF Edit
  <2>5. th' = [th EXCEPT ![t] = f] /\ Took(g, f, p.cur)
    BY <2>1, <2>2, <2>4 DEF ForceTake, Set, Took
  <2>6. c' = Taking(k, q, g.op)
    BY <2>1 DEF ForceTake, Taking
  <2> HIDE DEF f
  <2>8. /\ Edit(k, c', q, p2) /\ p2 \in PageType
        /\ p2.in = p1.in /\ p2.empty = p1.empty /\ p2.dirty = p1.dirty /\ p2.cur = p1.cur /\ p2.data = p1.data
        /\ p2.fl = p1.fl /\ p2.rd = (IF g.op = "write" THEN p1.rd ELSE p1.rd + 1) /\ p2.wr = (IF g.op = "write" THEN p1.wr + 1 ELSE p1.wr)
    <3>1. Edit(k, c', q, c'.pg[q]) /\ Takes(k.pg[q], c'.pg[q], g.op)
      BY <1>1, <2>4, <2>6, TakePage
    <3> QED BY <2>4, <3>1 DEF Takes
  <2>9. CacheOK(c') /\ \A r \in Pages \ {q} : Roomy(c, c', r)
    BY <2>3, <2>8 DEF Edit, Roomy
  <2>10. /\ p2.rd = p.rd + (IF g.op = "read" THEN 1 ELSE 0) - (IF g.pc = "fwait" THEN 1 ELSE 0)
         /\ p2.wr = p.wr + (IF g.op = "write" THEN 1 ELSE 0)
    BY <1>2, <1>3, <2>2, <2>8
  <2>11. /\ p2.in /\ ~p2.empty /\ p2.dirty = p.dirty /\ p2.cur = p.cur /\ p2.data = p.data /\ p2.fl = p.fl
    BY <1>3, <1>5, <2>2, <2>8 DEF Ready
  <2> HIDE DEF p2
  <2> QED BY <1>2, <1>3, <1>5, <2>1, <2>5, <2>8, <2>9, <2>10, <2>11, TakenInv, Zenon DEF p2
<1> QED BY <1>4, <1>5

(* A page is made where there is none, or where one was just evicted.      *)
Vacant(p) == ~p.in \/ (p.in /\ ~p.dirty /\ Pending(p) = 0)

LEMMA VacantSays ==
  ASSUME NEW T, ThreadsOK(T), NEW p, NEW q, NEW new, NEW disk, NEW bad, PageInv(p, q, T, new, disk, bad), Vacant(p)
  PROVE  PageInv(Absent, q, T, new, disk, bad) /\ (q \notin bad => disk = new)
<1>1. CASE ~p.in
  BY <1>1 DEF PageInv, POwn, PData
<1>2. CASE p.in
  <2>1. PageInv(Absent, q, T, new, disk, bad)
    BY <1>2, EvictStep DEF Vacant, StepOK
  <2> QED BY <2>1, AbsentType DEF PageInv, PData
<1> QED BY <1>1, <1>2

LEMMA MakeStep ==
  ASSUME NEW T, ThreadsOK(T), NEW t \in Threads, NEW f, ThreadOK(f), f.held = {}, NEW p, NEW q,
         NEW new, NEW disk, NEW bad, PageInv(p, q, T, new, disk, bad), NEW U, Goes(T, t, f, U), Vacant(p),
         NEW p2 \in PageType, p2.in, p2.cur = 0, p2.fl = 0,
         p2.rd = (IF Rd(f, q) THEN 1 ELSE 0), p2.wr = (IF Wr(f, q) THEN 1 ELSE 0), ~Fl(f, q),
         p2.empty => Fills(f, q), OwnBy(f, p2, q),
         NEW new2, q \notin bad => /\ ~p2.empty => p2.data[0] = new2
                                   /\ ~p2.empty /\ ~p2.dirty /\ p2.wr = 0 => p2.data[0] = disk
                                   /\ DataBy(f, p2, q, new2, disk)
  PROVE  StepOK(p, p2, q, U, new2, disk, bad)
<1>1. PageInv(Absent, q, T, new, disk, bad)
  BY VacantSays
<1>2. StepOK(Absent, p2, q, U, new2, disk, bad)
  BY <1>1, AbsentType, CreateStep
<1>3. CASE ~p.in
  BY <1>2, <1>3 DEF PageInv, POwn
<1>4. CASE p.in
  <2>1. PTidy(p, Absent, q, U, new2, disk, bad)
    BY <1>4, EvictTidy DEF Vacant
  <2> QED BY <1>2, <2>1, TidyThen
<1> QED BY <1>3, <1>4

Made(p2, rd, wr) ==
  /\ p2 \in PageType /\ p2.in /\ ~p2.torel /\ ~p2.dirty /\ p2.rd = rd /\ p2.wr = wr /\ p2.fl = 0 /\ p2.cur = 0
  /\ p2.data[0] = Zero
LEMMA MadeSays ==
  /\ Made([Blank EXCEPT !.rd = 1, !.use[0] = 1], 1, 0) /\ [Blank EXCEPT !.rd = 1, !.use[0] = 1].empty
  /\ Made([Blank EXCEPT !.wr = 1, !.use[0] = 1], 0, 1) /\ [Blank EXCEPT !.wr = 1, !.use[0] = 1].empty
  /\ \A em \in BOOLEAN : /\ Made([Blank EXCEPT !.rd = 1, !.use[0] = 1, !.empty = em], 1, 0)
                         /\ [Blank EXCEPT !.rd = 1, !.use[0] = 1, !.empty = em].empty = em
  /\ Made([Blank EXCEPT !.empty = FALSE, !.use[0] = 1], 0, 0) /\ ~[Blank EXCEPT !.empty = FALSE, !.use[0] = 1].empty
<1> DEFINE B == Blank
           e == [B.use EXCEPT ![0] = 1]
<1>1. /\ B \in PageType /\ B.data[0] = Zero
      /\ B.in /\ B.empty /\ ~B.dirty /\ ~B.torel
      /\ B.rd = 0 /\ B.wr = 0 /\ B.fl = 0 /\ B.cur = 0
  BY BlankType
<1>2. e \in [{0, 1} -> Int]
  <2>1. B.use \in [{0, 1} -> Int]
    BY <1>1 DEF PageType
  <2> QED BY <2>1
<1> HIDE DEF B, e
<1>3. Made([B EXCEPT !.rd = 1, !.use = e], 1, 0) /\ [B EXCEPT !.rd = 1, !.use = e].empty
  BY <1>1, <1>2 DEF PageType, Made
<1>4. Made([B EXCEPT !.wr = 1, !.use = e], 0, 1) /\ [B EXCEPT !.wr = 1, !.use = e].empty
  BY <1>1, <1>2 DEF PageType, Made
<1>5. ASSUME NEW em \in BOOLEAN
      PROVE  /\ Made([B EXCEPT !.rd = 1, !.use = e, !.empty = em], 1, 0)
             /\ [B EXCEPT !.rd = 1, !.use = e, !.empty = em].empty = em
  BY <1>1, <1>2 DEF PageType, Made
<1>6. Made([B EXCEPT !.empty = FALSE, !.use = e], 0, 0) /\ ~[B EXCEPT !.empty = FALSE, !.use = e].empty
  BY <1>1, <1>2 DEF PageType, Made
<1>7. /\ [Blank EXCEPT !.rd = 1, !.use[0] = 1] = [B EXCEPT !.rd = 1, !.use = e]
      /\ [Blank EXCEPT !.wr = 1, !.use[0] = 1] = [B EXCEPT !.wr = 1, !.use = e]
      /\ \A em \in BOOLEAN : [Blank EXCEPT !.rd = 1, !.use[0] = 1, !.empty = em] = [B EXCEPT !.rd = 1, !.use = e, !.empty = em]
      /\ [Blank EXCEPT !.empty = FALSE, !.use[0] = 1] = [B EXCEPT !.empty = FALSE, !.use = e]
  BY DEF B, e
<1> QED BY <1>3, <1>4, <1>5, <1>6, <1>7, Zenon

(* The thread that makes a page.                                           *)
Makes(g, f, pc) == f = [g EXCEPT !.slot = 0, !.pc = pc]
LEMMA MakesThread ==
  ASSUME NEW g \in ThreadType, ThreadOK(g), g.op \in {"read", "write"}, g.pc \in FreePcs,
         NEW pc \in {"load", "rcopy", "wcopy"}, pc = "rcopy" => g.op = "read", pc = "wcopy" => g.op = "write",
         NEW f, Makes(g, f, pc)
  PROVE  /\ f \in ThreadType /\ ThreadOK(f) /\ Kin(g, f) /\ f.slot = 0 /\ f.held = {} /\ f.pc = pc
         /\ ~Copied(f) /\ ~Ended(f) /\ (Loading(f) <=> pc = "load")
         /\ g.pc \notin StackPcs /\ f.pc \notin StackPcs \cup {"fw2"} /\ f.pc \notin {"rrel", "done"}
         /\ (Rd(f, f.page) <=> g.op = "read") /\ (Wr(f, f.page) <=> g.op = "write") /\ ~Fl(f, f.page)
         /\ \A r : r # f.page => Away(f, r)
         /\ (Loads(f, f.page) <=> pc = "load") /\ (Fills(f, f.page) <=> pc # "rcopy")
<1>1. pc \in PcNames
  BY DEF PcNames, ReadPcs, WritePcs, ForcePcs
<1>2. /\ f \in ThreadType /\ Kin(g, f) /\ f.slot = 0 /\ f.held = g.held /\ f.lo = g.lo /\ f.hi = g.hi
      /\ f.pc = pc
  BY <1>1, Zenon DEF ThreadType, Makes, Kin
<1>3. g.held = {}
  BY Zenon DEF ThreadOK, FreePcs
<1>4. ThreadOK(f)
  BY <1>2, <1>3, Zenon DEF ThreadOK, Kin, ReadPcs, WritePcs, ForcePcs, FlushPcs, StackPcs
<1>5. (\A r : r # f.page => Away(f, r)) /\ ~Fl(f, f.page)
  BY <1>2, <1>4, AwayFrom DEF PagePcs
<1>6. (Rd(f, f.page) <=> g.op = "read") /\ (Wr(f, f.page) <=> g.op = "write")
  BY <1>2 DEF Rd, Wr, Kin, FlushPcs, StackPcs
<1>7. (Loads(f, f.page) <=> pc = "load") /\ (Fills(f, f.page) <=> pc # "rcopy")
  BY <1>2 DEF Loads, Fills, FlushPcs, StackPcs
<1> QED BY <1>2, <1>3, <1>4, <1>5, <1>6, <1>7 DEF Loading, Copied, Ended, StackPcs, FreePcs

(* A page the child does not have is blank.                                *)
LEMMA Beyond ==
  ASSUME CacheInv, NEW q \in Pages, ~OnDisk(q)
  PROVE  child[q] = Zero
<1>1. q \in Int /\ childLast \in Int /\ childEnd \in Int
  BY PagesHere DEF CacheInv, TypesOK
<1>2. childEnd <= childLast
  BY DEF CacheInv, ChildOK
<1>3. q > childEnd
  BY <1>1, <1>2 DEF OnDisk
<1> QED BY <1>3 DEF CacheInv, ChildOK

(* A page is made, to be loaded or filled, or blank.                       *)
LEMMA MakePage ==
  ASSUME CacheInv, NEW t \in Threads, th[t].pc \in FreePcs, th[t].op \in {"read", "write"},
         NEW k, CacheOK(k), ~k.pg[th[t].page].in, \A r \in Pages : Roomy(c, k, r),
         NEW rd, rd = (IF th[t].op = "read" THEN 1 ELSE 0), NEW wr, wr = (IF th[t].op = "write" THEN 1 ELSE 0),
         NEW p2, Made(p2, rd, wr),
         NEW pc \in {"load", "rcopy", "wcopy"}, pc = "rcopy" => th[t].op = "read", pc = "wcopy" => th[t].op = "write",
         p2.empty \/ pc = "rcopy", pc = "rcopy" => ~p2.empty,
         pc = "load" => th[t].page <= childLast \/ \E r \in taint : r >= th[t].page,
         pc = "rcopy" => ~OnDisk(th[t].page), pc = "wcopy" => ~OnDisk(th[t].page) \/ th[t].bytes = Slots,
         NEW f, Makes(th[t], f, pc), th' = [th EXCEPT ![t] = f], c' = AddPage(k, th[t].page, p2), Still
  PROVE  CacheInv'
<1> DEFINE g == th[t]
           q == g.page
           p == c.pg[q]
<1>1. /\ g \in ThreadType /\ ThreadOK(g) /\ ThreadsOK(th) /\ CacheOK(c) /\ q \in Pages
      /\ p \in PageType /\ PageInv(p, q, th, latest[q], child[q], taint)
  BY Here
<1>2. /\ p2 \in PageType /\ p2.in /\ ~p2.dirty /\ p2.fl = 0 /\ p2.cur = 0 /\ p2.data[0] = Zero
      /\ p2.rd = (IF g.op = "read" THEN 1 ELSE 0) /\ p2.wr = (IF g.op = "write" THEN 1 ELSE 0)
  BY DEF Made
<1>3. /\ f \in ThreadType /\ ThreadOK(f) /\ Kin(g, f) /\ f.slot = 0 /\ f.held = {} /\ f.pc = pc
      /\ ~Copied(f) /\ ~Ended(f) /\ (Loading(f) <=> pc = "load")
      /\ g.pc \notin StackPcs /\ f.pc \notin StackPcs \cup {"fw2"} /\ f.pc \notin {"rrel", "done"}
      /\ (Rd(f, f.page) <=> g.op = "read") /\ (Wr(f, f.page) <=> g.op = "write") /\ ~Fl(f, f.page)
      /\ (\A r : r # f.page => Away(f, r))
      /\ (Loads(f, f.page) <=> pc = "load") /\ (Fills(f, f.page) <=> pc # "rcopy")
  BY <1>1, MakesThread
<1>4. f.page = q /\ f.bytes = g.bytes
  BY <1>3 DEF Kin
<1>5. ThreadsOK(th') /\ Goes(th, t, f, th')
  BY <1>1, <1>3, ThreadsMove
<1>6. Vacant(p)
  BY <1>1 DEF Roomy, Vacant
<1>7. Edit(k, c', q, p2)
  BY <1>1, <1>2, AddPageSays
<1>8. q \notin taint => child[q] = latest[q] /\ (~OnDisk(q) => latest[q] = Zero)
  BY <1>1, <1>6, VacantSays, Beyond
<1>9. OwnBy(f, p2, q)
  BY <1>2, <1>3, <1>4 DEF OwnBy
<1>10. q \notin taint => DataBy(f, p2, q, latest[q], child[q])
  BY <1>2, <1>3, <1>4, <1>8 DEF DataBy
<1>11. StepOK(p, p2, q, th', latest[q], child[q], taint)
  <2>1. /\ p2.rd = (IF Rd(f, q) THEN 1 ELSE 0) /\ p2.wr = (IF Wr(f, q) THEN 1 ELSE 0)
        /\ ~Fl(f, q) /\ (p2.empty => Fills(f, q))
    BY <1>2, <1>3, <1>4
  <2>2. q \notin taint => /\ ~p2.empty => p2.data[0] = latest[q]
                          /\ ~p2.empty /\ ~p2.dirty /\ p2.wr = 0 => p2.data[0] = child[q]
                          /\ DataBy(f, p2, q, latest[q], child[q])
    BY <1>2, <1>8, <1>10
  <2> QED BY <1>1, <1>2, <1>3, <1>5, <1>6, <1>9, <2>1, <2>2, MakeStep
<1>12. CacheOK(c') /\ c'.pg[q] = p2 /\ \A r \in Pages \ {q} : Roomy(c, c', r)
  BY <1>7 DEF Edit, Roomy
<1>13. \A r \in Pages \ {q} : Away(g, r) /\ Away(f, r)
  BY <1>1, <1>3, <1>4, AwayFrom
<1>14. Loading(f) => f.page <= childLast \/ \E r \in taint : r >= f.page
  BY <1>3, <1>4
<1>15. \A r \in Pages \ {q} : Roomy(c, c', r) /\ Away(g, r) /\ Away(f, r)
  BY <1>12, <1>13
<1>16. StepOK(c.pg[q], c'.pg[q], q, th', latest[q], child[q], taint)
  BY <1>11, <1>12
<1> QED BY <1>1, <1>3, <1>12, <1>14, <1>15, <1>16, RoomKin

LEMMA ForceCreateInv ==
  ASSUME CacheInv, NEW t \in Threads, ForceCreate(t)
  PROVE  CacheInv'
<1> DEFINE g == th[t]
           q == g.page
           read == g.op = "read"
           load == OnDisk(q) /\ (read \/ ~Full(t))
           page == IF read THEN [Blank EXCEPT !.rd = 1, !.use[0] = 1, !.empty = OnDisk(q)]
                           ELSE [Blank EXCEPT !.wr = 1, !.use[0] = 1]
           next == IF load THEN "load" ELSE IF read THEN "rcopy" ELSE "wcopy"
           f == [g EXCEPT !.slot = 0, !.pc = next]
           rd == IF g.op = "read" THEN 1 ELSE 0
           wr == IF g.op = "write" THEN 1 ELSE 0
<1>1. g.pc = "mem" /\ g.op \in {"read", "write"} /\ g.pc \in FreePcs /\ CacheOK(c) /\ Still /\ q \in Pages
  <2>1. ThreadOK(g) /\ CacheOK(c) /\ q \in Pages
    BY Here
  <2> QED BY <2>1, Zenon DEF ForceCreate, At, ThreadOK, ForcePcs, FreePcs, Still, OthersSame, ChildSame, HistorySame
<1>2. PICK k \in Rooms(c) : IF k.pg[q].in THEN ForceGet(t, k) ELSE c' = AddPage(k, q, page) /\ Set(t, f)
  BY DEF ForceCreate
<1>3. CacheOK(k) /\ \A r \in Pages : Roomy(c, k, r)
  BY <1>1, RoomsSay DEF Roomy
<1>4. CASE k.pg[q].in
  <2>1. k.pg[q] = c.pg[q]
    BY <1>1, <1>3, <1>4, AbsentType DEF Roomy
  <2> QED BY <1>1, <1>2, <1>3, <1>4, <2>1, ForceGetInv
<1>5. CASE ~k.pg[q].in
  <2>1. c' = AddPage(k, q, page) /\ th' = [th EXCEPT ![t] = f] /\ Makes(g, f, next)
    BY <1>2, <1>5 DEF Set, Makes
  <2>2. Made(page, rd, wr) /\ page.empty = (read => OnDisk(q))
    <3>1. OnDisk(q) \in BOOLEAN
      BY DEF OnDisk
    <3>2. CASE read
      <4>1. page = [Blank EXCEPT !.rd = 1, !.use[0] = 1, !.empty = OnDisk(q)]
        BY <3>2
      <4>2. Made(page, 1, 0) /\ page.empty = OnDisk(q)
        BY <3>1, <4>1, MadeSays, Zenon
      <4> HIDE DEF page
      <4> QED BY <3>1, <3>2, <4>2
    <3>3. CASE ~read
      <4>1. page = [Blank EXCEPT !.wr = 1, !.use[0] = 1]
        BY <3>3
      <4>2. Made(page, 0, 1) /\ page.empty
        BY <4>1, MadeSays, Zenon
      <4>3. page.empty \in BOOLEAN
        BY <4>2 DEF Made, PageType
      <4> HIDE DEF page
      <4> QED BY <1>1, <3>3, <4>2, <4>3
    <3> QED BY <3>2, <3>3
  <2>3. /\ next \in {"load", "rcopy", "wcopy"} /\ (next = "rcopy" => read /\ ~OnDisk(q))
        /\ (next = "wcopy" => g.op = "write" /\ (~OnDisk(q) \/ g.bytes = Slots))
        /\ (next = "load" => OnDisk(q)) /\ (read /\ next # "rcopy" => OnDisk(q))
    BY <1>1 DEF Full
  <2>4. OnDisk(q) => q <= childLast
    <3>1. q \in Int /\ childLast \in Int
      BY <1>1, PagesHere DEF CacheInv, TypesOK
    <3> QED BY <3>1 DEF OnDisk
  <2>5. (page.empty \/ next = "rcopy") /\ (next = "rcopy" => ~page.empty)
    <3> HIDE DEF page, next
    <3> QED BY <2>2, <2>3
  <2>6. rd = (IF g.op = "read" THEN 1 ELSE 0) /\ wr = (IF g.op = "write" THEN 1 ELSE 0)
    OBVIOUS
  <2> HIDE DEF page, next, f, rd, wr
  <2>7. /\ next = "rcopy" => g.op = "read"
        /\ next = "wcopy" => g.op = "write"
        /\ next = "load" => q <= childLast \/ \E r \in taint : r >= q
        /\ next = "rcopy" => ~OnDisk(q)
        /\ next = "wcopy" => ~OnDisk(q) \/ g.bytes = Slots
    BY <2>3, <2>4
  <2>8. next \in {"load", "rcopy", "wcopy"} /\ Made(page, rd, wr)
    BY <2>2, <2>3
  <2> QED BY <1>1, <1>3, <1>5, <2>1, <2>5, <2>6, <2>7, <2>8, MakePage
<1> QED BY <1>4, <1>5

(* What a read needs lies inside the child when the child is as long as    *)
(* the file.                                                               *)
LEMMA Inside ==
  ASSUME CacheInv, NEW t \in Threads, th[t].op = "read", ~(2 * (childEnd + 1) < size)
  PROVE  th[t].page <= childLast
<1> DEFINE g == th[t]
           q == g.page
<1>1. /\ q \in Int /\ childLast \in Int /\ childEnd \in Int /\ size \in Nat /\ ChildPages \in Int
      /\ ChildPages - 1 <= childEnd /\ childEnd <= childLast
  <2>1. q \in Pages
    BY Here
  <2> QED BY <2>1, PagesHere, CacheAssumption DEF CacheInv, TypesOK, ChildOK, CacheAssumption
<1>2. CASE q < ChildPages
  BY <1>1, <1>2
<1>3. CASE ~(q < ChildPages)
  <2>1. PICK r \in Pages, s \in Slots : q <= r /\ g.need[r][s] > 0
    BY <1>3 DEF CacheInv, SizeOK, SizeBy
  <2>2. acked[r][s] >= g.need[r][s]
    BY DEF CacheInv, VersionOK, VersionBy, AtLeast
  <2>3. acked[r][s] \in Nat /\ g.need[r][s] \in Nat /\ r \in Int
    <3>1. g \in ThreadType /\ acked[r] \in Val
      BY Here
    <3>2. g.need[r] \in Val
      BY <3>1, Zenon DEF ThreadType
    <3> QED BY <3>1, <3>2, PagesHere DEF Val
  <2>4. 2 * r < size
    BY <2>1, <2>2, <2>3 DEF CacheInv, SizeOK
  <2> QED BY <1>1, <2>1, <2>3, <2>4
<1> QED BY <1>2, <1>3

Ranges(g, f, lo, hi) == f = [g EXCEPT !.lo = lo, !.hi = hi]
LEMMA Ranged ==
  ASSUME NEW g \in ThreadType, NEW lo \in Int, NEW hi \in Int, NEW f, Ranges(g, f, lo, hi)
  PROVE  /\ f \in ThreadType /\ Kin(g, f) /\ f.slot = g.slot /\ f.held = g.held
         /\ f.pc = g.pc /\ f.ret = g.ret /\ f.lo = lo /\ f.hi = hi
BY Zenon DEF ThreadType, Kin, Ranges

(* cache_advise flushes first: the flush's thread holds the page it will   *)
(* load.                                                                   *)
Advised(g, f) == f = [g EXCEPT !.slot = 0, !.pc = "fstart", !.ret = "load", !.lo = 0, !.hi = -1]
LEMMA AdvisedThread ==
  ASSUME NEW g \in ThreadType, ThreadOK(g), g.op = "read", g.pc = "radvise", NEW f, Advised(g, f)
  PROVE  /\ f \in ThreadType /\ ThreadOK(f) /\ Kin(g, f) /\ f.slot = 0 /\ f.held = {}
         /\ ~Copied(f) /\ ~Ended(f) /\ ~Loading(f)
         /\ f.pc \notin StackPcs \cup {"fw2"} /\ f.pc \notin {"rrel", "done"}
         /\ Rd(f, g.page) /\ ~Wr(f, g.page) /\ ~Fl(f, g.page) /\ Loads(f, g.page) /\ Fills(f, g.page)
         /\ f.pc = "fstart" /\ f.pc \notin Direct /\ \A r : r # g.page => Away(f, r)
<1>1. "fstart" \in PcNames
  BY DEF PcNames, FlushPcs
<1>2. /\ f \in ThreadType /\ Kin(g, f) /\ f.slot = 0 /\ f.held = g.held /\ f.lo = 0 /\ f.hi = -1
      /\ f.pc = "fstart" /\ f.ret = "load"
  <2> DEFINE g1 == [g EXCEPT !.slot = 0, !.pc = "fstart", !.ret = "load"]
             n == -1
  <2>1. /\ g1 \in ThreadType /\ Kin(g, g1) /\ g1.slot = 0 /\ g1.held = g.held
        /\ g1.pc = "fstart" /\ g1.ret = "load"
    BY <1>1, Zenon DEF ThreadType, Kin
  <2>2. Ranges(g1, f, 0, n)
    BY Zenon DEF Advised, ThreadType, Ranges
  <2>3. n \in Int
    OBVIOUS
  <2> HIDE DEF g1, n
  <2>4. /\ f \in ThreadType /\ f.op = g1.op /\ f.page = g1.page /\ f.bytes = g1.bytes /\ f.need = g1.need /\ f.got = g1.got
        /\ f.slot = g1.slot /\ f.held = g1.held
    BY <2>1, <2>2, <2>3, Ranged DEF Kin
  <2>5. f.lo = 0 /\ f.hi = n /\ f.pc = g1.pc /\ f.ret = g1.ret
    BY <2>1, <2>2, <2>3, Ranged
  <2> QED BY <2>1, <2>4, <2>5 DEF n, Kin
<1>3. g.held = {}
  BY DEF ThreadOK
<1>4. ThreadOK(f)
  BY <1>2, <1>3 DEF ThreadOK, Kin, ReadPcs, WritePcs, ForcePcs, FlushPcs, StackPcs
<1>5. Rd(f, g.page) /\ ~Wr(f, g.page) /\ ~Fl(f, g.page) /\ Loads(f, g.page) /\ Fills(f, g.page)
      /\ \A r : r # g.page => Away(f, r)
  BY <1>2, <1>3 DEF Rd, Wr, Fl, Loads, Fills, Away, Kin, FlushPcs
<1> QED BY <1>2, <1>3, <1>4, <1>5 DEF Loading, Copied, Ended, StackPcs, Direct

LEMMA AdviseInv ==
  ASSUME CacheInv, NEW t \in Threads, Advise(t)
  PROVE  CacheInv'
<1> DEFINE g == th[t]
           q == g.page
           p == c.pg[q]
           page == [Blank EXCEPT !.rd = 1, !.use[0] = 1]
           f1 == [g EXCEPT !.slot = 0, !.pc = "fstart", !.ret = "load", !.lo = 0, !.hi = -1]
           f2 == [g EXCEPT !.slot = 0, !.pc = "load"]
<1>1. /\ g \in ThreadType /\ ThreadOK(g) /\ ThreadsOK(th) /\ CacheOK(c) /\ q \in Pages
      /\ p \in PageType /\ PageInv(p, q, th, latest[q], child[q], taint)
  BY Here
<1>2. g.pc = "radvise" /\ g.op = "read" /\ g.pc \in FreePcs /\ Still
  BY <1>1, Zenon DEF Advise, At, ThreadOK, ReadPcs, FreePcs, Still, OthersSame, ChildSame, HistorySame
<1>3. CASE Goto(t, "force") /\ UNCHANGED c
  BY <1>2, <1>3, Moves
<1>4. ASSUME NEW k \in Rooms(c), ~p.in, c' = AddPage(k, q, page),
             IF 2 * (childEnd + 1) < size THEN Set(t, f1) ELSE Set(t, f2)
      PROVE  CacheInv'
  <2>1. CacheOK(k) /\ \A r \in Pages : Roomy(c, k, r)
    BY <1>1, RoomsSay DEF Roomy
  <2>2. ~k.pg[q].in
    BY <1>1, <1>4, <2>1, AbsentType DEF Roomy
  <2>3. Made(page, 1, 0) /\ page.empty
    BY MadeSays, Zenon
  <2> HIDE DEF page
  <2>4. CASE 2 * (childEnd + 1) < size
    <3>1. th' = [th EXCEPT ![t] = f1] /\ Advised(g, f1)
      BY <1>4, <2>4 DEF Set, Advised
    <3> HIDE DEF f1
    <3>2. /\ f1 \in ThreadType /\ ThreadOK(f1) /\ Kin(g, f1) /\ f1.slot = 0 /\ f1.held = {}
          /\ ~Copied(f1) /\ ~Ended(f1) /\ ~Loading(f1)
          /\ f1.pc \notin StackPcs \cup {"fw2"} /\ f1.pc \notin {"rrel", "done"}
          /\ Rd(f1, q) /\ ~Wr(f1, q) /\ ~Fl(f1, q) /\ Loads(f1, q) /\ Fills(f1, q)
          /\ f1.pc = "fstart" /\ f1.pc \notin Direct /\ \A r : r # q => Away(f1, r)
      BY <1>1, <1>2, <3>1, AdvisedThread
    <3>3. ThreadsOK(th') /\ Goes(th, t, f1, th')
      BY <1>1, <3>1, <3>2, ThreadsMove
    <3>4. /\ page \in PageType /\ page.in /\ ~page.dirty /\ page.fl = 0 /\ page.cur = 0
          /\ page.rd = 1 /\ page.wr = 0
      BY <2>3 DEF Made
    <3>5. Vacant(p)
      BY <1>4 DEF Vacant
    <3>6. OwnBy(f1, page, q)
      BY <2>3, <3>2, <3>4 DEF OwnBy, Direct
    <3>7. q \notin taint => DataBy(f1, page, q, latest[q], child[q])
      <4>1. q \notin taint => child[q] = latest[q]
        BY <1>1, <3>5, VacantSays
      <4> QED BY <3>2, <4>1 DEF DataBy, Direct
    <3>8. StepOK(p, page, q, th', latest[q], child[q], taint)
      <4>1. /\ page.rd = (IF Rd(f1, q) THEN 1 ELSE 0) /\ page.wr = (IF Wr(f1, q) THEN 1 ELSE 0)
            /\ (page.empty => Fills(f1, q))
        BY <3>2, <3>4
      <4>2. q \notin taint => /\ ~page.empty => page.data[0] = latest[q]
                              /\ ~page.empty /\ ~page.dirty /\ page.wr = 0 => page.data[0] = child[q]
                              /\ DataBy(f1, page, q, latest[q], child[q])
        BY <2>3, <3>7
      <4> QED BY <1>1, <3>2, <3>3, <3>4, <3>5, <3>6, <4>1, <4>2, MakeStep
    <3>9. Edit(k, c', q, page)
      BY <1>1, <1>4, <2>1, <3>4, AddPageSays
    <3>10. CacheOK(c') /\ c'.pg[q] = page /\ \A r \in Pages \ {q} : Roomy(c, c', r)
      BY <2>1, <3>9 DEF Edit, Roomy
    <3>11. \A r \in Pages \ {q} : Roomy(c, c', r) /\ Away(g, r) /\ Away(f1, r)
      BY <1>1, <1>2, <3>2, <3>10, AwayFrom
    <3>12. StepOK(c.pg[q], c'.pg[q], q, th', latest[q], child[q], taint)
      BY <3>8, <3>10
    <3>13. g.pc \notin StackPcs
      BY <1>2 DEF StackPcs
    <3> QED BY <1>1, <1>2, <3>1, <3>2, <3>10, <3>11, <3>12, <3>13, RoomKin
  <2>5. CASE ~(2 * (childEnd + 1) < size)
    <3>1. th' = [th EXCEPT ![t] = f2] /\ Makes(g, f2, "load")
      BY <1>4, <2>5 DEF Set, Makes
    <3>2. q <= childLast
      BY <1>2, <2>5, Inside
    <3>3. 1 = (IF g.op = "read" THEN 1 ELSE 0) /\ 0 = (IF g.op = "write" THEN 1 ELSE 0)
      BY <1>2
    <3> HIDE DEF f2
    <3> QED BY <1>2, <1>4, <2>1, <2>2, <2>3, <3>1, <3>2, <3>3, MakePage
  <2> QED BY <2>4, <2>5
<1> QED BY <1>3, <1>4 DEF Advise

(* A thread that copies or has copied holds the page it copies.            *)
LEMMA Copying ==
  ASSUME CacheInv, NEW t \in Threads, th[t].pc \in {"rcopy", "rrel"}
  PROVE  LET g == th[t]
             q == g.page
             p == c.pg[q]
         IN /\ g.op = "read" /\ g.held = {} /\ Rd(g, q) /\ ~Fills(g, q) /\ ~Fl(g, q)
            /\ (\A r : r # q => Away(g, r)) /\ g.pc \notin StackPcs
            /\ p.in /\ ~p.empty /\ g.slot = p.cur /\ p.rd \in Nat /\ p.rd # 0
<1> DEFINE g == th[t]
           q == g.page
           p == c.pg[q]
<1>1. ThreadOK(g) /\ q \in Pages /\ PageInv(p, q, th, latest[q], child[q], taint)
  BY Here
<1>2. Rd(g, q) /\ ~Fills(g, q) /\ g.pc \notin StackPcs /\ g.op = "read" /\ g.held = {}
  BY <1>1, Zenon DEF Rd, Fills, Loads, FlushPcs, StackPcs, ThreadOK, ReadPcs
<1>3. ~Fl(g, q) /\ \A r : r # q => Away(g, r)
  BY <1>1, AwayFrom DEF PagePcs
<1>4. p.rd \in Nat /\ p.rd # 0
  BY <1>1, <1>2, Holders DEF PageInv
<1>5. p.in
  BY <1>1, <1>4, AbsentType DEF PageInv, POwn
<1>6. ~p.empty /\ g.slot = p.cur
  BY <1>1 DEF PageInv, POwn, OwnBy
<1> QED BY <1>2, <1>3, <1>4, <1>5, <1>6

LEMMA ReadCopyInv ==
  ASSUME CacheInv, NEW t \in Threads, ReadCopy(t)
  PROVE  CacheInv'
<1> DEFINE g == th[t]
           q == g.page
           p == c.pg[q]
           d == p.data[g.slot]
           f == [g EXCEPT !.pc = "rrel", !.got = d]
<1>1. /\ g \in ThreadType /\ ThreadOK(g) /\ ThreadsOK(th) /\ CacheOK(c) /\ q \in Pages /\ g.slot \in {0, 1}
      /\ p \in PageType /\ PageInv(p, q, th, latest[q], child[q], taint)
  BY Here
<1>2. g.pc = "rcopy"
  BY DEF ReadCopy, At
<1>3. CASE d = NULL
  BY <1>3, Idles DEF ReadCopy, Halt
<1>4. CASE d # NULL
  <2>1. th' = [th EXCEPT ![t] = f] /\ UNCHANGED c /\ Still
    BY <1>4 DEF ReadCopy, Set, Still, OthersSame, ChildSame, HistorySame
  <2>2. /\ g.op = "read" /\ g.pc \notin StackPcs /\ (\A r : r # q => Away(g, r)) /\ p.in /\ ~p.empty /\ g.slot = p.cur
    BY <1>2, Copying
  <2>3. d \in Val
    BY <1>1, <1>4, BufVal
  <2>4. /\ f \in ThreadType /\ ThreadOK(f) /\ f.pc = "rrel" /\ f.op = g.op /\ f.page = g.page /\ f.need = g.need
        /\ f.slot = g.slot /\ f.got = d /\ (SizeBy(g) => SizeBy(f)) /\ ChildBy(f, childLast, taint)
        /\ ~Ended(f) /\ g.pc \notin StackPcs /\ f.pc \notin StackPcs \cup {"fw2"} /\ ~(f.pc = "done" /\ f.op = "flush")
    <3>1. Got(g, f, "rrel", d)
      BY DEF Got
    <3> HIDE DEF f, d
    <3> QED BY <1>1, <1>2, <2>2, <2>3, <3>1, GotThread
  <2> HIDE DEF f
  <2>5. ThreadsOK(th') /\ Goes(th, t, f, th')
    BY <1>1, <2>1, <2>4, ThreadsMove
  <2>6. \A r : r # q => Away(f, r)
    BY <2>4, AwayFrom DEF PagePcs
  <2>7. StepOK(p, p, q, th', latest[q], child[q], taint)
    BY <1>1, <1>2, <2>4, <2>5, CopiedStep
  <2>8. PagesMove
    <3>1. latest' = latest /\ child' = child /\ taint' = taint /\ c' = c
      BY <2>1 DEF Still
    <3>2. \A r \in Pages \ {q} : Quiet(g, f, r)
      BY <2>2, <2>6 DEF Quiet
    <3> QED BY <1>1, <2>4, <2>5, <2>7, <3>1, <3>2, OneMove
  <2>9. VersionBy(f, latest, acked, taint)
    BY <2>2, <2>4, Fresh
  <2>10. SizeBy(f)
    BY <2>4 DEF CacheInv, SizeOK
  <2>11. CacheOK(c')
    BY <1>1, <2>1
  <2> QED BY <2>1, <2>4, <2>5, <2>8, <2>9, <2>10, <2>11, CalmStep
<1> QED BY <1>3, <1>4

(* A read handle is given back; the page may go with it.                   *)
LEMMA ReadGivesBack ==
  ASSUME CacheInv, NEW t \in Threads, NEW f, ThreadOK(f), ThreadsOK(th'), Goes(th, t, f, th'), NEW q \in Pages,
         Rd(th[t], q), ~Fills(th[t], q), ~Fl(th[t], q), Away(f, q), NEW i, i = c.pg[q].cur,
         NEW heard \in BOOLEAN, c' = Release(c, q, i, "read", heard)
  PROVE  /\ CacheOK(c') /\ \A r \in Pages \ {q} : c'.pg[r] = c.pg[r]
         /\ StepOK(c.pg[q], c'.pg[q], q, th', latest[q], child[q], taint)
<1> DEFINE p == c.pg[q]
<1>1. /\ ThreadsOK(th) /\ CacheOK(c)
      /\ p \in PageType /\ PageInv(p, q, th, latest[q], child[q], taint)
  BY Here
<1>2. i \in {0, 1} /\ p.rd # 0 /\ p.in
  <2>1. p.cur \in {0, 1}
    BY <1>1 DEF PageType
  <2> QED BY <1>1, <2>1, RdDown
<1>3. /\ CacheOK(c') /\ (\A r \in Pages \ {q} : c'.pg[r] = c.pg[r])
      /\ \E p2 : Back(p, p2, i, "read") /\ (c'.pg[q] = p2 \/ (c'.pg[q] = Absent /\ ~p2.dirty /\ Pending(p2) = 0))
  <2>1. "read" \in {"read", "write", "flush"}
    OBVIOUS
  <2> QED BY <1>1, <1>2, <2>1, ReleaseSays
<1>4. PICK p2 : Back(p, p2, i, "read") /\ (c'.pg[q] = p2 \/ (c'.pg[q] = Absent /\ ~p2.dirty /\ Pending(p2) = 0))
  BY <1>3
<1>5. p2 \in PageType /\ Alike(p, p2) /\ p2.rd = p.rd - 1 /\ p2.fl = p.fl /\ p2.in
  BY <1>2, <1>4 DEF Back, Alike
<1>6. PageInv(p2, q, th', latest[q], child[q], taint)
  BY <1>1, <1>5, RdDown
<1>7. StepOK(p, p2, q, th', latest[q], child[q], taint)
  BY <1>5, <1>6, AlikeTidy
<1>8. CASE c'.pg[q] = p2
  BY <1>3, <1>7, <1>8
<1>9. CASE c'.pg[q] = Absent /\ ~p2.dirty /\ Pending(p2) = 0
  <2>1. StepOK(p2, Absent, q, th', latest[q], child[q], taint)
    BY <1>5, <1>6, <1>9, EvictStep
  <2>2. StepOK(p, Absent, q, th', latest[q], child[q], taint)
    BY <1>7, <2>1, TidyThen DEF StepOK
  <2> QED BY <1>3, <1>9, <2>2
<1> QED BY <1>4, <1>8, <1>9

LEMMA ReadReleaseInv ==
  ASSUME CacheInv, NEW t \in Threads, ReadRelease(t)
  PROVE  CacheInv'
<1> DEFINE g == th[t]
           q == g.page
           heard == Listeners(q) \ {t} # {}
           f == [g EXCEPT !.pc = "done"]
<1>1. g \in ThreadType /\ ThreadOK(g) /\ ThreadsOK(th) /\ q \in Pages
  BY Here
<1>2. g.pc = "rrel" /\ Still /\ th' = [th EXCEPT ![t] = f] /\ c' = Release(c, q, g.slot, "read", heard)
  BY DEF ReadRelease, DoRelease, Set, At, Still, OthersSame, ChildSame, HistorySame
<1>3. /\ g.op = "read" /\ g.held = {} /\ Rd(g, q) /\ ~Fills(g, q) /\ ~Fl(g, q)
      /\ (\A r : r # q => Away(g, r)) /\ g.pc \notin StackPcs /\ g.slot = c.pg[q].cur
  BY <1>2, Copying
<1>4. f \in ThreadType /\ Kin(g, f) /\ f.pc = "done" /\ f.held = g.held /\ f.ret = g.ret /\ f.lo = g.lo
  <2>1. "done" \in PcNames
    BY DEF PcNames
  <2> QED BY <1>1, <2>1, Repc
<1> HIDE DEF f
<1>5. ThreadOK(f)
  BY <1>1, <1>3, <1>4 DEF ThreadOK, Kin, ReadPcs, WritePcs, ForcePcs, FlushPcs, StackPcs
<1>6. ThreadsOK(th') /\ Goes(th, t, f, th')
  BY <1>1, <1>2, <1>4, <1>5, ThreadsMove
<1>7. \A r : Away(f, r)
  BY <1>4, <1>5, AwayFrom DEF FreePcs
<1>8. heard \in BOOLEAN
  OBVIOUS
<1> HIDE DEF heard
<1>9. /\ CacheOK(c') /\ (\A r \in Pages \ {q} : c'.pg[r] = c.pg[r])
      /\ StepOK(c.pg[q], c'.pg[q], q, th', latest[q], child[q], taint)
  BY <1>1, <1>2, <1>3, <1>5, <1>6, <1>7, <1>8, ReadGivesBack, Zenon
<1>10. \A r \in Pages \ {q} : c'.pg[r] = c.pg[r] /\ Quiet(g, f, r)
  BY <1>3, <1>7, <1>9 DEF Quiet
<1>11. f.op = "read" /\ ~Loading(f) /\ ~Copied(f) /\ ~Ended(f) /\ f.pc \notin StackPcs \cup {"fw2"}
  BY <1>3, <1>4 DEF Loading, Copied, Ended, StackPcs, Kin
<1> QED BY <1>1, <1>2, <1>3, <1>4, <1>5, <1>9, <1>10, <1>11, PageKin, Zenon

(* _amp_attempt_free_mem marks a page.                                     *)
LEMMA MemMarkInv ==
  ASSUME CacheInv, NEW t \in Threads, MemMark(t)
  PROVE  CacheInv'
<1> DEFINE g == th[t]
<1>1. g \in ThreadType /\ ThreadOK(g) /\ ThreadsOK(th) /\ CacheOK(c)
  BY Here
<1>2. g.pc = "mem" /\ g.op \in {"read", "write"} /\ Still
  BY <1>1, Zenon DEF MemMark, At, ThreadOK, ForcePcs, Still, OthersSame, ChildSame, HistorySame
<1>3. PICK q \in Linked(c) \ Evictable(c) :
        /\ c' = [c EXCEPT !.pg[q].torel = TRUE, !.limbo = @ + 1]
        /\ IF c.pg[q].dirty /\ c.pg[q].fl = 0
             THEN \E whole \in BOOLEAN :
                    Set(t, [th[t] EXCEPT !.pc = "fstart", !.ret = "mem",
                                         !.lo = IF whole THEN 0 ELSE q,
                                         !.hi = IF whole THEN -1 ELSE NPages - 1])
             ELSE UNCHANGED th
  BY Zenon DEF MemMark
<1> DEFINE p == c.pg[q]
           p2 == [p EXCEPT !.torel = TRUE]
<1>4. q \in Pages /\ p.in
  BY DEF Linked
<1>5. p \in PageType /\ PageInv(p, q, th, latest[q], child[q], taint)
  BY <1>4, Here
<1>6. p2 \in PageType /\ Alike(p, p2) /\ p2.rd = p.rd /\ p2.fl = p.fl
  <2> HIDE DEF p
  <2> QED BY <1>5 DEF PageType, Alike
<1>7. Edit(c, c', q, p2)
  <2>1. "pg" \in DOMAIN c' /\ c'.pg = [c.pg EXCEPT ![q] = p2]
    BY <1>1, <1>3, Zenon DEF CacheOK
  <2> QED BY <1>1, <1>4, <1>6, <2>1, EditPage
<1> HIDE DEF p2
<1>8. PICK f \in ThreadType : /\ th' = [th EXCEPT ![t] = f] /\ ThreadOK(f) /\ Kin(g, f)
                              /\ f.pc = "mem" \/ (f.pc = "fstart" /\ f.ret = "mem")
  <2>1. CASE UNCHANGED th
    <3>1. th' = [th EXCEPT ![t] = g]
      BY <1>1, <2>1 DEF ThreadsOK
    <3> QED BY <1>1, <1>2, <3>1 DEF Kin
  <2>2. ASSUME NEW lo \in Int, NEW hi \in Int, hi = -1 => lo = 0,
               Set(t, [g EXCEPT !.pc = "fstart", !.ret = "mem", !.lo = lo, !.hi = hi])
        PROVE  \E f \in ThreadType : /\ th' = [th EXCEPT ![t] = f] /\ ThreadOK(f) /\ Kin(g, f)
                                     /\ f.pc = "mem" \/ (f.pc = "fstart" /\ f.ret = "mem")
    <3> DEFINE g1 == [g EXCEPT !.pc = "fstart", !.ret = "mem"]
               f == [g EXCEPT !.pc = "fstart", !.ret = "mem", !.lo = lo, !.hi = hi]
    <3>1. "fstart" \in PcNames
      BY DEF PcNames, FlushPcs
    <3>2. g1 \in ThreadType /\ Kin(g, g1) /\ g1.pc = "fstart" /\ g1.ret = "mem" /\ g1.held = g.held
      BY <1>1, <3>1, Zenon DEF ThreadType, Kin
    <3>3. Ranges(g1, f, lo, hi)
      BY <1>1, Zenon DEF Ranges, ThreadType
    <3>4. th' = [th EXCEPT ![t] = f]
      BY <2>2 DEF Set
    <3> HIDE DEF g1, f
    <3>5. f \in ThreadType /\ Kin(g1, f) /\ f.held = g1.held /\ f.pc = g1.pc /\ f.ret = g1.ret /\ f.lo = lo /\ f.hi = hi
      BY <3>2, <3>3, Ranged
    <3>6. ThreadOK(f) /\ Kin(g, f)
      BY <1>1, <1>2, <2>2, <3>2, <3>5 DEF ThreadOK, Kin, ReadPcs, WritePcs, ForcePcs, FlushPcs, StackPcs
    <3> QED BY <3>2, <3>4, <3>5, <3>6
  <2>3. ASSUME NEW whole \in BOOLEAN,
               Set(t, [g EXCEPT !.pc = "fstart", !.ret = "mem", !.lo = IF whole THEN 0 ELSE q,
                                !.hi = IF whole THEN -1 ELSE NPages - 1])
        PROVE  \E f \in ThreadType : /\ th' = [th EXCEPT ![t] = f] /\ ThreadOK(f) /\ Kin(g, f)
                                     /\ f.pc = "mem" \/ (f.pc = "fstart" /\ f.ret = "mem")
    <3> DEFINE lo == IF whole THEN 0 ELSE q
               hi == IF whole THEN -1 ELSE NPages - 1
    <3>1. lo \in Int /\ hi \in Int /\ (hi = -1 => lo = 0)
      BY <1>4, PagesHere, CacheAssumption DEF CacheAssumption
    <3>2. Set(t, [g EXCEPT !.pc = "fstart", !.ret = "mem", !.lo = lo, !.hi = hi])
      BY <2>3
    <3> HIDE DEF lo, hi
    <3> QED BY <2>2, <3>1, <3>2, Zenon
  <2> QED BY <1>3, <2>1, <2>3, Zenon
<1>9. \A r \in Pages : Quiet(g, f, r)
  <2>1. (\A r : Away(g, r)) /\ (\A r : Away(f, r))
    BY <1>1, <1>2, <1>8, AwayFrom DEF FreePcs
  <2> QED BY <2>1 DEF Quiet
<1>10. ThreadsOK(th') /\ Goes(th, t, f, th')
  BY <1>1, <1>8, ThreadsMove
<1>11. StepOK(p, p2, q, th', latest[q], child[q], taint)
  BY <1>1, <1>4, <1>5, <1>6, <1>8, <1>9, <1>10, AlikeQuiet
<1>12. CacheOK(c') /\ c'.pg[q] = p2 /\ \A r \in Pages \ {q} : c'.pg[r] = c.pg[r] /\ Quiet(g, f, r)
  BY <1>7, <1>9 DEF Edit
<1>13. /\ g.pc \notin StackPcs /\ f.pc \notin StackPcs \cup {"fw2"} /\ f.pc \notin {"rrel", "done"}
       /\ ~Loading(f) /\ ~Copied(f) /\ ~Ended(f)
  BY <1>2, <1>8 DEF StackPcs, Loading, Copied, Ended
<1> QED BY <1>2, <1>4, <1>8, <1>11, <1>12, <1>13, PageKin

LEMMA MemInv ==
  ASSUME CacheInv, NEW t \in Threads, MemWait(t) \/ MemWake(t)
  PROVE  CacheInv'
<1>1. ThreadOK(th[t])
  BY Here
<1>2. CASE MemWait(t)
  <2>1. th[t].pc \in FreePcs /\ th[t].op \in {"read", "write"} /\ UNCHANGED c /\ Goto(t, "mwait") /\ Still
    BY <1>1, <1>2, Zenon DEF MemWait, At, FreePcs, ThreadOK, ForcePcs, Still, OthersSame, ChildSame, HistorySame
  <2> QED BY <2>1, Moves
<1>3. CASE MemWake(t)
  <2>1. th[t].pc \in FreePcs /\ th[t].op \in {"read", "write"} /\ UNCHANGED c /\ Goto(t, "mem") /\ Still
    BY <1>1, <1>3, Zenon DEF MemWake, At, FreePcs, ThreadOK, ForcePcs, Still, OthersSame, ChildSame, HistorySame
  <2> QED BY <2>1, Moves
<1> QED BY <1>2, <1>3

Places(g, f, lo, slot) == f = [g EXCEPT !.lo = lo, !.slot = slot]
LEMMA Placed ==
  ASSUME NEW g \in ThreadType, NEW lo \in Int, NEW slot \in {0, 1}, NEW f, Places(g, f, lo, slot)
  PROVE  /\ f \in ThreadType /\ Kin(g, f) /\ f.slot = slot /\ f.held = g.held /\ f.block = g.block
         /\ f.pc = g.pc /\ f.ret = g.ret /\ f.lo = lo /\ f.hi = g.hi
<1>1. f \in ThreadType
  BY Zenon DEF Places, ThreadType
<1>2. Kin(g, f) /\ f.slot = slot /\ f.held = g.held /\ f.block = g.block
  BY Zenon DEF Places, ThreadType, Kin
<1>3. f.pc = g.pc /\ f.ret = g.ret /\ f.lo = lo /\ f.hi = g.hi
  BY Zenon DEF Places, ThreadType
<1> QED BY <1>1, <1>2, <1>3

(* The page a write held behind itself is released.                        *)
Unheld(g, f) == f = [g EXCEPT !.pc = g.ret, !.ret = "", !.lo = 0, !.slot = 0]
LEMMA UnheldSays ==
  ASSUME NEW g \in ThreadType, NEW f, Unheld(g, f), g.ret \in PcNames
  PROVE  f \in ThreadType /\ Kin(g, f) /\ f.pc = g.ret /\ f.held = g.held /\ f.ret = "" /\ f.slot = 0
<1> DEFINE r == g.ret
           g1 == [g EXCEPT !.pc = r, !.ret = ""]
<1>1. g1 \in ThreadType /\ Kin(g, g1) /\ g1.pc = r /\ g1.held = g.held /\ g1.ret = ""
  BY Zenon DEF ThreadType, Kin
<1>2. Places(g1, f, 0, 0)
  BY DEF Unheld, Places
<1> HIDE DEF g1, r
<1>3. f \in ThreadType /\ f.pc = g1.pc /\ f.ret = g1.ret /\ f.slot = 0 /\ f.held = g1.held /\ Kin(g1, f)
  <2>1. \A x : x = 0 => x \in Int /\ x \in {0, 1}
    OBVIOUS
  <2>2. PICK x : x = 0
    OBVIOUS
  <2>3. Places(g1, f, x, x)
    BY <1>2, <2>2
  <2>4. x \in Int /\ x \in {0, 1}
    BY <2>1, <2>2
  <2>5. g1 \in ThreadType
    BY <1>1, Zenon
  <2>6. f \in ThreadType /\ Kin(g1, f) /\ f.slot = x /\ f.held = g1.held /\ f.pc = g1.pc /\ f.ret = g1.ret
    BY ONLY <2>3, <2>4, <2>5, Placed
  <2> QED BY <2>2, <2>6
<1> QED BY <1>1, <1>3, Zenon DEF Kin, r

LEMMA WriteHoldInv ==
  ASSUME CacheInv, NEW t \in Threads, WriteHold(t)
  PROVE  CacheInv'
<1> DEFINE g == th[t]
           q == g.lo
           y == g.page
           heard == Listeners(q) \ {t} # {}
           f == [g EXCEPT !.pc = g.ret, !.ret = "", !.lo = 0, !.slot = 0]
<1>1. g \in ThreadType /\ ThreadOK(g) /\ ThreadsOK(th) /\ y \in Pages
  BY Here
<1>2. g.pc = "whold" /\ Still /\ th' = [th EXCEPT ![t] = f] /\ c' = Release(c, q, g.slot, "read", heard) /\ Unheld(g, f)
  BY DEF WriteHold, DoRelease, Set, At, Still, OthersSame, ChildSame, HistorySame, Unheld
<1>3. g.ret \in {"wend", "wget", "force", "load"} /\ q \in Pages /\ q # y /\ g.op = "write" /\ g.held = {}
  BY <1>1, <1>2, Zenon DEF ThreadOK, WritePcs
<1> HIDE DEF f
<1>4. f \in ThreadType /\ Kin(g, f) /\ f.pc = g.ret /\ f.held = g.held /\ f.ret = "" /\ f.slot = 0
  <2>1. g.ret \in PcNames
    BY <1>3 DEF PcNames, WritePcs, ForcePcs
  <2> QED BY <1>1, <1>2, <2>1, UnheldSays, Zenon
<1>5. ThreadOK(f)
  BY <1>1, <1>3, <1>4, Zenon DEF ThreadOK, Kin, ReadPcs, WritePcs, ForcePcs, FlushPcs, StackPcs
<1>6. ThreadsOK(th') /\ Goes(th, t, f, th')
  BY <1>1, <1>2, <1>4, <1>5, ThreadsMove, Zenon
<1>7. (f.pc # "load" => \A r : Away(f, r)) /\ (\A r : r # y => Away(f, r))
  BY <1>3, <1>4, <1>5, AwayFrom, Zenon DEF FreePcs, PagePcs, Kin
<1>8. Rd(g, q) /\ ~Fills(g, q) /\ ~Fl(g, q)
  BY <1>2, <1>3 DEF Rd, Fl, Fills, Loads
<1>9. \A r : (r # q /\ r # y) \/ (r # q /\ f.pc # "load") => Away(g, r)
  BY <1>1, <1>2, <1>4, AwayFrom, Zenon
<1>10. g.slot = c.pg[q].cur
  <2>1. PageInv(c.pg[q], q, th, latest[q], child[q], taint)
    BY <1>3, Here
  <2> QED BY <1>2, <2>1 DEF PageInv, POwn, OwnBy
<1>11. heard \in BOOLEAN
  OBVIOUS
<1> HIDE DEF heard
<1>12. /\ CacheOK(c') /\ (\A r \in Pages \ {q} : c'.pg[r] = c.pg[r])
       /\ StepOK(c.pg[q], c'.pg[q], q, th', latest[q], child[q], taint)
  BY <1>2, <1>3, <1>5, <1>6, <1>7, <1>8, <1>10, <1>11, ReadGivesBack, Zenon
<1>13. PagesMove
  <2>1. ASSUME NEW r \in Pages \ {q} PROVE StepOK(c.pg[r], c.pg[r], r, th', latest[r], child[r], taint)
    <3>1. PageInv(c.pg[r], r, th, latest[r], child[r], taint)
      BY Here
    <3>2. CASE Away(g, r) /\ Away(f, r)
      BY <1>1, <1>5, <1>6, <3>1, <3>2, QuietStep DEF Quiet
    <3>3. CASE r = y /\ f.pc = "load"
      <4>1. g.ret = "load" /\ f.page = r /\ f.op = g.op /\ g.page = r
        BY <1>4, <3>3, Zenon DEF Kin
      <4> QED BY <1>1, <1>2, <1>4, <1>5, <1>6, <3>1, <3>3, <4>1, HoldEnds, Zenon
    <3> QED BY <1>7, <1>9, <3>2, <3>3
  <2> QED BY <1>2, <1>12, <2>1 DEF PagesMove, Still
<1>14. /\ (Loading(f) => Loading(g)) /\ (Copied(f) => Copied(g)) /\ (Ended(f) => Ended(g))
       /\ g.pc \notin StackPcs /\ f.pc \notin StackPcs \cup {"fw2"} /\ f.pc \notin {"rrel", "done"}
  BY <1>2, <1>3, <1>4, Zenon DEF Loading, Copied, Ended, StackPcs
<1> QED BY <1>2, <1>4, <1>6, <1>12, <1>13, <1>14, KinStep, Zenon

(* A writer's page is released.                                            *)
WroteBack(k, k2, q) ==
  LET p == k.pg[q]
      p2 == k2.pg[q]
  IN /\ CacheOK(k2) /\ \A r \in Pages \ {q} : k2.pg[r] = k.pg[r]
     /\ p2 \in PageType /\ p2.in = p.in /\ ~p2.empty /\ p2.dirty /\ p2.cur = p.cur
     /\ p2.wr = p.wr - 1 /\ p2.fl = p.fl /\ p2.rd = p.rd /\ p2.data = p.data
LEMMA ReleaseWrite ==
  ASSUME NEW k, CacheOK(k), NEW q \in Pages, NEW i, i = k.pg[q].cur, NEW heard \in BOOLEAN, k.pg[q].wr # 0
  PROVE  WroteBack(k, Release(k, q, i, "write", heard), q)
<1> DEFINE k2 == Release(k, q, i, "write", heard)
<1> DEFINE p == k.pg[q]
<1>1. i \in {0, 1} /\ "write" \in {"read", "write", "flush"}
  BY DEF CacheOK, PageType
<1>2. /\ CacheOK(k2) /\ (\A r \in Pages \ {q} : k2.pg[r] = k.pg[r])
      /\ \E p2 : Back(p, p2, i, "write") /\ (k2.pg[q] = p2 \/ (k2.pg[q] = Absent /\ ~p2.dirty /\ Pending(p2) = 0))
  BY <1>1, ReleaseSays
<1> HIDE DEF k2
<1>3. PICK p2 : Back(p, p2, i, "write") /\ (k2.pg[q] = p2 \/ (k2.pg[q] = Absent /\ ~p2.dirty /\ Pending(p2) = 0))
  BY <1>2
<1>4. /\ p2 \in PageType /\ p2.in = p.in /\ ~p2.empty /\ p2.dirty /\ p2.cur = p.cur
      /\ p2.wr = p.wr - 1 /\ p2.fl = p.fl /\ p2.rd = p.rd /\ p2.data = p.data
  BY <1>3 DEF Back
<1>5. k2.pg[q] = p2
  BY <1>3, <1>4
<1> QED BY <1>2, <1>4, <1>5 DEF WroteBack, k2

LEMMA WriteReleaseInv ==
  ASSUME CacheInv, NEW t \in Threads, WriteRelease(t)
  PROVE  CacheInv'
<1> DEFINE g == th[t]
           q == g.page
           p == c.pg[q]
           heard == Listeners(q) \ {t} # {}
           f == [g EXCEPT !.pc = "wend"]
<1>1. /\ g \in ThreadType /\ ThreadOK(g) /\ ThreadsOK(th) /\ CacheOK(c) /\ q \in Pages /\ g.slot \in {0, 1}
      /\ p \in PageType /\ PageInv(p, q, th, latest[q], child[q], taint)
  BY Here
<1>2. g.pc = "wrel" /\ Still /\ th' = [th EXCEPT ![t] = f] /\ c' = Release(c, q, g.slot, "write", heard)
  BY DEF WriteRelease, DoRelease, Set, At, Still, OthersSame, ChildSame, HistorySame
<1>3. g.op = "write" /\ g.held = {} /\ Wr(g, q) /\ g.pc \notin StackPcs /\ (\A r : r # q => Away(g, r))
  BY <1>1, <1>2, AwayFrom, Zenon DEF ThreadOK, WritePcs, Wr, StackPcs, PagePcs
<1>4. f \in ThreadType /\ Kin(g, f) /\ f.pc = "wend" /\ f.held = g.held /\ f.ret = g.ret /\ f.lo = g.lo
  <2>1. "wend" \in PcNames
    BY DEF PcNames, WritePcs
  <2> QED BY <1>1, <2>1, Repc
<1> HIDE DEF f
<1>5. ThreadOK(f)
  BY <1>1, <1>3, <1>4 DEF ThreadOK, Kin, ReadPcs, WritePcs, ForcePcs, FlushPcs, StackPcs
<1>6. ThreadsOK(th') /\ Goes(th, t, f, th')
  BY <1>1, <1>2, <1>4, <1>5, ThreadsMove
<1>7. \A r : Away(f, r)
  BY <1>4, <1>5, AwayFrom DEF FreePcs
<1>8. heard \in BOOLEAN
  OBVIOUS
<1>9. p.wr # 0 /\ g.slot = p.cur
  BY <1>1, <1>2, <1>3, Holders DEF PageInv, POwn, OwnBy
<1> HIDE DEF heard
<1> DEFINE i == g.slot
           p2 == c'.pg[q]
<1>10. /\ CacheOK(c') /\ (\A r \in Pages \ {q} : c'.pg[r] = c.pg[r])
       /\ p2 \in PageType /\ p2.in = p.in /\ ~p2.empty /\ p2.dirty /\ p2.cur = p.cur
       /\ p2.wr = p.wr - 1 /\ p2.fl = p.fl /\ p2.rd = p.rd /\ p2.data = p.data
  <2>1. c' = Release(c, q, i, "write", heard) /\ i = p.cur
    BY <1>2, <1>9
  <2> HIDE DEF i
  <2>2. WroteBack(c, c', q)
    BY <1>1, <1>8, <1>9, <2>1, ReleaseWrite
  <2> QED BY <2>2 DEF WroteBack
<1> HIDE DEF p2
<1>14. StepOK(p, p2, q, th', latest[q], child[q], taint) /\ p.in
  BY <1>1, <1>2, <1>5, <1>6, <1>7, <1>10, WriteGivesBack
<1>15. \A r \in Pages \ {q} : c'.pg[r] = c.pg[r] /\ Quiet(g, f, r)
  BY <1>3, <1>7, <1>10 DEF Quiet
<1>16. /\ f.pc \notin StackPcs \cup {"fw2"} /\ f.pc \notin {"rrel", "done"} /\ ~Loading(f) /\ Copied(g) /\ f.page = q
  BY <1>2, <1>4 DEF StackPcs, Loading, Copied, Kin
<1>17. c'.pg[f.page].in /\ c'.pg[f.page].dirty /\ StepOK(c.pg[q], c'.pg[q], q, th', latest[q], child[q], taint)
  BY <1>10, <1>14, <1>16 DEF p2
<1> QED BY <1>1, <1>2, <1>3, <1>4, <1>5, <1>10, <1>15, <1>16, <1>17, PageKin, Zenon

-----------------------------------------------------------------------------
(* A step outside a flush that may spoil pages and add bytes.              *)
LEMMA PlainStep ==
  ASSUME CacheInv, CacheOK(c'), ThreadsOK(th'), PagesMove,
         UNCHANGED <<fstack, child, childLast, childEnd, size, acked>>, taint \subseteq taint', taint' \subseteq Pages,
         latest' \in [Pages -> Val], \A q \in Pages : AtLeast(latest'[q], latest[q]), Bounded(latest'),
         NEW t \in Threads, NEW f, Goes(th, t, f, th'),
         th[t].pc \notin StackPcs, f.pc \notin StackPcs \cup {"fw2"}, ~(f.pc = "done" /\ f.op = "flush"),
         ChildBy(f, childLast, taint'), SizeBy(f), VersionBy(f, latest', acked, taint'),
         Ended(f) => \/ Ended(th[t]) /\ f.page = th[t].page /\ f.got = th[t].got
                     \/ c'.pg[f.page].in /\ c'.pg[f.page].dirty
  PROVE  CacheInv'
<1>1. TypesOK'
  BY DEF CacheInv, TypesOK
<1>2. PagesOK'
  BY PagesMoveSays
<1>3. ChildOK'
  BY ChildStep DEF CacheInv
<1>4. SizeOK'
  BY SizeStep DEF CacheInv
<1>5. VersionOK'
  BY <1>1, VersionNew DEF CacheInv
<1>6. SettledOK'
  BY <1>1, <1>5, SettledStep DEF CacheInv
<1>7. StackOK' /\ CopiesOK' /\ DebtOK'
  BY FlushPlain DEF CacheInv, TypesOK
<1> QED BY <1>1, <1>2, <1>3, <1>4, <1>5, <1>6, <1>7 DEF CacheInv

(* The page a load leaves.                                                 *)
Loaded(k, k2, q, i, v) ==
  LET p == k.pg[q]
      p2 == k2.pg[q]
  IN /\ CacheOK(k2) /\ \A r \in Pages \ {q} : k2.pg[r] = k.pg[r]
     /\ p2 \in PageType /\ p2.in = p.in /\ ~p2.empty /\ p2.dirty = p.dirty /\ p2.cur = p.cur
     /\ p2.wr = p.wr /\ p2.fl = p.fl /\ p2.rd = p.rd /\ p2.data[i] = v
LEMMA LoadPage ==
  ASSUME NEW k, CacheOK(k), NEW q \in Pages, NEW i \in {0, 1}, NEW v \in Buf,
         NEW k2, k2 = [k EXCEPT !.pg[q].data[i] = v, !.pg[q].empty = FALSE]
  PROVE  Loaded(k, k2, q, i, v)
<1> DEFINE p == k.pg[q]
           e == [p.data EXCEPT ![i] = v]
           p2 == [p EXCEPT !.data = e, !.empty = FALSE]
<1>1. p \in PageType /\ p.data \in [{0, 1} -> Buf]
  BY DEF CacheOK, PageType
<1>2. e \in [{0, 1} -> Buf] /\ e[i] = v
  BY <1>1
<1>3. "pg" \in DOMAIN k2 /\ k2.pg = [k.pg EXCEPT ![q] = p2]
  BY <1>1 DEF CacheOK, PageType
<1> HIDE DEF p, e
<1>4. /\ p2 \in PageType /\ p2.in = p.in /\ ~p2.empty /\ p2.dirty = p.dirty /\ p2.cur = p.cur
      /\ p2.wr = p.wr /\ p2.fl = p.fl /\ p2.rd = p.rd /\ p2.data = e
  BY <1>1, <1>2 DEF PageType
<1> HIDE DEF p2
<1>5. Edit(k, k2, q, p2)
  BY <1>3, <1>4, EditPage
<1>6. k2.pg[q] = p2
  BY <1>5 DEF Edit
<1> QED BY <1>2, <1>4, <1>5, <1>6 DEF Edit, Loaded, p

(* cache_rw_pages in CACHE_READ: a read that failed on a page the child    *)
(* should have spoils the page.                                            *)
LEMMA LoadFails ==
  ASSUME CacheInv, NEW t \in Threads, th[t].pc = "load",
         th[t].page > childEnd, \A r \in taint : ~(r > th[t].page)
  PROVE  th[t].page \in taint
<1> DEFINE q == th[t].page
<1>1. q \in Pages /\ q \in Int /\ childEnd \in Int /\ childLast \in Int /\ \A r \in taint : r \in Int
  BY Here, PagesHere DEF CacheInv, TypesOK
<1>2. q <= childLast \/ \E r \in taint : r >= q
  BY DEF CacheInv, ChildOK, ChildBy, Loading
<1>3. childEnd < childLast => childLast \in taint
  BY DEF CacheInv, ChildOK
<1> HIDE DEF q
<1>4. \E r \in taint : r >= q
  BY <1>1, <1>2, <1>3 DEF q
<1>5. PICK r \in taint : r >= q
  BY <1>4
<1>6. ~(r > q)
  BY DEF q
<1> QED BY <1>1, <1>5, <1>6 DEF q

LEMMA LoadInv ==
  ASSUME CacheInv, NEW t \in Threads, Load(t)
  PROVE  CacheInv'
<1> DEFINE g == th[t]
           q == g.page
           i == g.slot
           p == c.pg[q]
           pc == IF g.op = "read" THEN "rcopy" ELSE "wcopy"
           f == [g EXCEPT !.pc = pc]
<1>1. /\ g \in ThreadType /\ ThreadOK(g) /\ ThreadsOK(th) /\ CacheOK(c) /\ q \in Pages /\ i \in {0, 1}
      /\ p \in PageType /\ PageInv(p, q, th, latest[q], child[q], taint) /\ child[q] \in Val
  BY Here
<1>2. g.pc = "load" /\ th' = [th EXCEPT ![t] = f] /\ UNCHANGED <<fstack, child, childLast, childEnd, latest, size, acked>>
  BY DEF Load, At, Goto, HistorySame
<1>3. PICK ok \in BOOLEAN : /\ ok => q <= childEnd
                            /\ c' = [c EXCEPT !.pg[q].data[i] = IF ok THEN child[q] ELSE NULL, !.pg[q].empty = FALSE]
                            /\ taint' = IF ~ok /\ (q <= childEnd \/ \E r \in taint : r > q) THEN taint \cup {q} ELSE taint
  BY Zenon DEF Load
<1>4. g.op \in {"read", "write"} /\ g.held = {} /\ pc \in PcNames
  BY <1>1, <1>2, Zenon DEF ThreadOK, ForcePcs, PcNames, ReadPcs, WritePcs
<1>5. f \in ThreadType /\ Kin(g, f) /\ f.pc = pc /\ f.held = {} /\ f.slot = g.slot
  <2> HIDE DEF pc, f
  <2>1. f = [g EXCEPT !.pc = pc]
    BY DEF f
  <2> QED BY <1>1, <1>4, <2>1, Repc
<1> HIDE DEF f
<1>6. ThreadOK(f)
  BY <1>1, <1>4, <1>5, Zenon DEF ThreadOK, Kin, ReadPcs, WritePcs, ForcePcs, FlushPcs, StackPcs
<1>7. ThreadsOK(th') /\ Goes(th, t, f, th')
  BY <1>1, <1>2, <1>5, <1>6, ThreadsMove
<1>8. \A r : r # q => Away(g, r) /\ Away(f, r)
  BY <1>1, <1>2, <1>5, <1>6, AwayFrom DEF PagePcs, Kin
<1> DEFINE v == IF ok THEN child[q] ELSE NULL
<1>9. v \in Buf /\ taint \subseteq taint' /\ taint' \subseteq Pages
  BY <1>1, <1>3 DEF Buf, CacheInv, TypesOK
<1>10. Loaded(c, c', q, i, v)
  <2>1. c' = [c EXCEPT !.pg[q].data[i] = v, !.pg[q].empty = FALSE]
    BY <1>3
  <2> HIDE DEF v, q, i
  <2> QED BY <1>1, <1>9, <2>1, LoadPage, Zenon
<1>11. q \notin taint' => v = child[q]
  <2> SUFFICES ASSUME q \notin taint', ~ok PROVE FALSE
    OBVIOUS
  <2>1. q \notin taint /\ ~(q <= childEnd) /\ \A r \in taint : ~(r > q)
    BY <1>3
  <2>2. q > childEnd
    BY <1>1, <2>1, PagesHere DEF CacheInv, TypesOK
  <2> QED BY <1>2, <2>1, <2>2, LoadFails
<1> HIDE DEF v
<1> DEFINE p2 == c'.pg[q]
<1>12. /\ CacheOK(c') /\ (\A r \in Pages \ {q} : c'.pg[r] = c.pg[r])
       /\ p2 \in PageType /\ p2.in = p.in /\ ~p2.empty /\ p2.dirty = p.dirty /\ p2.cur = p.cur
       /\ p2.wr = p.wr /\ p2.fl = p.fl /\ p2.rd = p.rd /\ p2.data[i] = v
  BY <1>10 DEF Loaded
<1> HIDE DEF p2
<1>13. StepOK(p, p2, q, th', latest[q], child[q], taint')
  <2>1. f.page = q /\ f.op = g.op /\ f.slot = g.slot /\ f.pc = pc /\ (q \notin taint' => p2.data[g.slot] = child[q])
    BY <1>5, <1>11, <1>12 DEF Kin
  <2> QED BY <1>1, <1>2, <1>6, <1>7, <1>9, <1>12, <2>1, LoadStep
<1>14. PagesMove
  <2>1. \A r \in Pages \ {q} : c'.pg[r] = c.pg[r] /\ Quiet(g, f, r) /\ latest'[r] = latest[r] /\ child'[r] = child[r]
    BY <1>2, <1>8, <1>12 DEF Quiet
  <2>2. StepOK(c.pg[q], c'.pg[q], q, th', latest'[q], child'[q], taint')
    BY <1>2, <1>13 DEF p2
  <2> QED BY <1>1, <1>6, <1>7, <1>9, <2>1, <2>2, OneMove
<1>15. f.pc \notin StackPcs \cup {"fw2"} /\ g.pc \notin StackPcs /\ f.pc # "done" /\ ~Ended(f) /\ ~Copied(f) /\ ~Loading(f) /\ f.pc # "rrel"
  BY <1>2, <1>5 DEF StackPcs, Ended, Copied, Loading
<1>16. ChildBy(f, childLast, taint') /\ SizeBy(f)
  BY <1>5, <1>15 DEF ChildBy, CacheInv, SizeOK, SizeBy, Kin
<1>17. VersionBy(f, latest', acked, taint')
  BY <1>5, <1>15 DEF VersionBy, CacheInv, VersionOK, Kin
<1>18. latest' \in [Pages -> Val] /\ Bounded(latest')
  BY <1>2 DEF CacheInv, TypesOK, VersionOK, Bounded
<1>19. \A r \in Pages : AtLeast(latest'[r], latest[r])
  BY <1>2, Here, AtLeastSelf
<1> QED BY <1>2, <1>7, <1>9, <1>12, <1>14, <1>15, <1>16, <1>17, <1>18, <1>19, PlainStep

-----------------------------------------------------------------------------
(* A write's bytes become the newest.                                      *)
LEMMA StampSays ==
  ASSUME CacheInv, NEW q \in Pages, NEW B, B \subseteq Slots, latest' = Stamp(q, B, Version)
  PROVE  /\ latest' \in [Pages -> Val] /\ latest'[q] = CopyIn(latest[q], B, Version)
         /\ \A r \in Pages \ {q} : latest'[r] = latest[r]
         /\ \A r \in Pages : AtLeast(latest'[r], latest[r])
         /\ Bounded(latest')
         /\ CopyIn(Zero, B, Version) \in Val /\ AtLeast(latest'[q], CopyIn(Zero, B, Version))
         /\ B # {} => CopyIn(Zero, B, Version)[MaxByte(B)] > 0
<1> DEFINE v == Version
<1>1. TypesOK /\ VersionOK /\ latest \in [Pages -> Val]
  BY DEF CacheInv, TypesOK
<1>2. v \in Nat /\ v > 0 /\ \A r \in Pages, s \in Slots : latest[r][s] \in Nat /\ latest[r][s] < v
  BY <1>1, VersionSays
<1> HIDE DEF v
<1>3. latest[q] \in Val /\ Zero \in Val
  BY <1>1 DEF Val, Zero
<1>4. CopyIn(latest[q], B, v) \in Val /\ CopyIn(Zero, B, v) \in Val
  BY <1>2, <1>3, CopyInType
<1>5. latest' = [latest EXCEPT ![q] = CopyIn(latest[q], B, v)]
  BY DEF Stamp, v
<1>6. latest' \in [Pages -> Val] /\ latest'[q] = CopyIn(latest[q], B, v) /\ \A r \in Pages \ {q} : latest'[r] = latest[r]
  BY <1>1, <1>4, <1>5
<1>7. \A s \in Slots : CopyIn(latest[q], B, v)[s] = (IF s \in B THEN v ELSE latest[q][s]) /\ CopyIn(Zero, B, v)[s] = (IF s \in B THEN v ELSE 0)
  BY DEF CopyIn, Zero
<1>8. \A s \in Slots : latest[q][s] \in Nat /\ latest[q][s] < v
  BY <1>2
<1>9. AtLeast(CopyIn(latest[q], B, v), latest[q])
  BY <1>2, <1>7, <1>8 DEF AtLeast
<1>10. AtLeast(CopyIn(latest[q], B, v), CopyIn(Zero, B, v))
  BY <1>2, <1>7, <1>8 DEF AtLeast
<1>11. \A r \in Pages : AtLeast(latest'[r], latest[r])
  <2> SUFFICES ASSUME NEW r \in Pages PROVE AtLeast(latest'[r], latest[r])
    OBVIOUS
  <2>1. CASE r = q
    BY <1>6, <1>9, <2>1
  <2>2. CASE r # q
    BY <1>1, <1>6, <2>2, AtLeastSelf
  <2> QED BY <2>1, <2>2
<1>12. \A r \in Pages, s \in Slots : latest'[r][s] <= v
  <2> SUFFICES ASSUME NEW r \in Pages, NEW s \in Slots PROVE latest'[r][s] <= v
    OBVIOUS
  <2>1. CASE r = q
    BY <1>2, <1>6, <1>7, <1>8, <2>1
  <2>2. CASE r # q
    BY <1>2, <1>6, <2>2
  <2> QED BY <2>1, <2>2
<1>13. Bounded(latest')
  BY <1>2, <1>12 DEF Bounded
<1>14. B # {} => CopyIn(Zero, B, v)[MaxByte(B)] > 0
  <2>1. B # {} => MaxByte(B) \in B /\ MaxByte(B) \in Slots
    BY DEF MaxByte, Slots
  <2> QED BY <1>2, <1>7, <2>1
<1> QED BY <1>4, <1>6, <1>10, <1>11, <1>13, <1>14 DEF v

(* The thread of a write whose bytes are in the page it holds.             *)
LEMMA PutThread ==
  ASSUME NEW g \in ThreadType, ThreadOK(g), g.pc = "wcopy", NEW d \in Val, NEW f, Got(g, f, "wrel", d)
  PROVE  /\ f \in ThreadType /\ ThreadOK(f) /\ f.pc = "wrel" /\ f.op = g.op /\ f.page = g.page /\ f.need = g.need
         /\ f.slot = g.slot /\ f.got = d /\ f.bytes = g.bytes /\ f.held = {} /\ f.op = "write" /\ f.bytes # {}
<1>1. g.op = "write" /\ g.held = {} /\ g.bytes # {}
  BY Zenon DEF ThreadOK, WritePcs
<1>2. f \in ThreadType
  BY Zenon DEF Got, ThreadType, Val, PcNames, WritePcs
<1>3. f.pc = "wrel" /\ f.op = g.op /\ f.page = g.page /\ f.need = g.need /\ f.slot = g.slot
  BY Zenon DEF Got, ThreadType
<1>4. f.got = d /\ f.bytes = g.bytes /\ f.held = g.held
  BY Zenon DEF Got, ThreadType
<1>5. ThreadOK(f)
  BY <1>1, <1>3, <1>4 DEF ThreadOK, ReadPcs, WritePcs, ForcePcs, FlushPcs, StackPcs
<1> QED BY <1>1, <1>2, <1>3, <1>4, <1>5

(* The page after the bytes went into it.                                  *)
Put(k, k2, q, i, B, v) ==
  LET p == k.pg[q]
      p2 == k2.pg[q]
  IN /\ CacheOK(k2) /\ \A r \in Pages \ {q} : k2.pg[r] = k.pg[r]
     /\ p2 \in PageType /\ p2.in = p.in /\ p2.empty = p.empty /\ p2.torel = p.torel /\ p2.cur = p.cur
     /\ p2.wr = p.wr /\ p2.fl = p.fl /\ p2.rd = p.rd
     /\ p2.data[i] = CopyIn(p.data[i], B, v) /\ p2.data[1 - i] = p.data[1 - i]
Uses(k, k2, q, i) == k2 = [k EXCEPT !.pg[q].use[i] = @ + 1]
LEMMA UsePage ==
  ASSUME NEW k, CacheOK(k), NEW q \in Pages, NEW i \in {0, 1}, NEW k2, Uses(k, k2, q, i)
  PROVE  /\ Edit(k, k2, q, k2.pg[q]) /\ k2.pg[q] \in PageType
         /\ Alike(k.pg[q], k2.pg[q]) /\ k2.pg[q].rd = k.pg[q].rd /\ k2.pg[q].fl = k.pg[q].fl /\ k2.pg[q].torel = k.pg[q].torel
<1> DEFINE p == k.pg[q]
           e == [p.use EXCEPT ![i] = p.use[i] + 1]
           p2 == [p EXCEPT !.use = e]
<1>1. p \in PageType /\ p.use \in [{0, 1} -> Int]
  BY DEF CacheOK, PageType
<1>2. e \in [{0, 1} -> Int]
  BY <1>1
<1>3. "pg" \in DOMAIN k2 /\ k2.pg = [k.pg EXCEPT ![q] = p2]
  BY <1>1 DEF CacheOK, PageType, Uses
<1> HIDE DEF p, e
<1>4. p2 \in PageType /\ Alike(p, p2) /\ p2.rd = p.rd /\ p2.fl = p.fl /\ p2.torel = p.torel
  BY <1>1, <1>2 DEF PageType, Alike
<1> HIDE DEF p2
<1>5. Edit(k, k2, q, p2)
  BY <1>3, <1>4, EditPage
<1>6. k2.pg[q] = p2
  BY <1>5 DEF Edit
<1> QED BY <1>4, <1>5, <1>6 DEF p

LEMMA WriteInPage ==
  ASSUME NEW k, CacheOK(k), NEW q \in Pages, NEW i \in {0, 1}, NEW B, NEW v \in Nat, k.pg[q].data[i] # NULL,
         NEW k2, k2 = WriteIn(k, q, i, B, v)
  PROVE  Put(k, k2, q, i, B, v) /\ k2.pg[q].dirty = k.pg[q].dirty
<1> DEFINE p == k.pg[q]
           e == [p.data EXCEPT ![i] = CopyIn(p.data[i], B, v)]
           p2 == [p EXCEPT !.data = e]
<1>1. p \in PageType /\ p.data \in [{0, 1} -> Buf]
  BY DEF CacheOK, PageType
<1>2. Edit(k, k2, q, p2)
  BY WriteInSays
<1>3. e[i] = CopyIn(p.data[i], B, v) /\ e[1 - i] = p.data[1 - i]
  BY <1>1
<1> HIDE DEF p, e
<1>4. /\ p2.in = p.in /\ p2.empty = p.empty /\ p2.torel = p.torel /\ p2.cur = p.cur /\ p2.dirty = p.dirty
      /\ p2.wr = p.wr /\ p2.fl = p.fl /\ p2.rd = p.rd /\ p2.data = e
  BY <1>1 DEF PageType
<1> HIDE DEF p2
<1>5. k2.pg[q] = p2 /\ CacheOK(k2) /\ \A r \in Pages \ {q} : k2.pg[r] = k.pg[r]
  BY <1>2 DEF Edit
<1>6. p2 \in PageType
  BY <1>5 DEF CacheOK
<1> QED BY <1>3, <1>4, <1>5, <1>6 DEF Put, p

LEMMA WriteCopyInv ==
  ASSUME CacheInv, NEW t \in Threads, WriteCopy(t)
  PROVE  CacheInv'
<1> DEFINE g == th[t]
           q == g.page
           i == g.slot
           B == g.bytes
           p == c.pg[q]
           v == Version
           d == CopyIn(Zero, B, v)
           f == [g EXCEPT !.pc = "wrel", !.got = d]
           k == [c EXCEPT !.pg[q].use[i] = @ + 1]
<1>1. /\ g \in ThreadType /\ ThreadOK(g) /\ ThreadsOK(th) /\ CacheOK(c) /\ q \in Pages /\ i \in {0, 1}
      /\ p \in PageType /\ PageInv(p, q, th, latest[q], child[q], taint) /\ child[q] \in Val
  BY Here
<1>2. g.pc = "wcopy" /\ B \subseteq Slots
  BY <1>1, Zenon DEF WriteCopy, At, ThreadType
<1>3. CASE p.data[i] = NULL
  BY <1>3, Idles DEF WriteCopy, Halt
<1>4. CASE p.data[i] # NULL
  <2>1. /\ c' = WriteIn(k, q, i, B, v) /\ th' = [th EXCEPT ![t] = f] /\ latest' = Stamp(q, B, v)
        /\ UNCHANGED <<fstack, child, childLast, childEnd, size, acked, taint>>
    BY <1>4 DEF WriteCopy, Set, OthersSame, ChildSame
  <2>2. v \in Nat
    BY VersionSays DEF CacheInv
  <2>3. /\ latest' \in [Pages -> Val] /\ latest'[q] = CopyIn(latest[q], B, v)
        /\ (\A r \in Pages \ {q} : latest'[r] = latest[r]) /\ (\A r \in Pages : AtLeast(latest'[r], latest[r]))
        /\ Bounded(latest') /\ d \in Val /\ AtLeast(latest'[q], d) /\ (B # {} => d[MaxByte(B)] > 0)
    BY <1>1, <1>2, <2>1, StampSays
  <2>4. Got(g, f, "wrel", d)
    BY DEF Got
  <2> HIDE DEF f, d, v
  <2>5. /\ f \in ThreadType /\ ThreadOK(f) /\ f.pc = "wrel" /\ f.op = g.op /\ f.page = g.page /\ f.need = g.need
        /\ f.slot = g.slot /\ f.got = d /\ f.bytes = g.bytes /\ f.held = {} /\ f.op = "write" /\ f.bytes # {}
    BY <1>1, <1>2, <2>3, <2>4, PutThread
  <2>6. ThreadsOK(th') /\ Goes(th, t, f, th')
    BY <1>1, <2>1, <2>5, ThreadsMove
  <2>7. \A r : r # q => Away(g, r) /\ Away(f, r)
    BY <1>1, <1>2, <2>5, AwayFrom DEF PagePcs
  <2>8. i = p.cur
    BY <1>1, <1>2 DEF PageInv, POwn, OwnBy
  <2>9. /\ CacheOK(k) /\ (\A r \in Pages \ {q} : k.pg[r] = c.pg[r]) /\ k.pg[q] \in PageType
        /\ Alike(p, k.pg[q]) /\ k.pg[q].rd = p.rd /\ k.pg[q].fl = p.fl
    <3>1. /\ Edit(c, k, q, k.pg[q]) /\ k.pg[q] \in PageType
          /\ Alike(c.pg[q], k.pg[q]) /\ k.pg[q].rd = c.pg[q].rd /\ k.pg[q].fl = c.pg[q].fl
      <4>1. Uses(c, k, q, i)
        BY DEF Uses
      <4> HIDE DEF q, i, k
      <4> QED BY <1>1, <4>1, UsePage
    <3> QED BY <3>1, Zenon DEF Edit
  <2> HIDE DEF k
  <2>10. Put(k, c', q, i, B, v) /\ c'.pg[q].dirty = k.pg[q].dirty
    <3>1. k.pg[q].data[i] # NULL
      BY <1>4, <2>9 DEF Alike
    <3> HIDE DEF q, i, B
    <3> QED BY <1>1, <2>1, <2>2, <2>9, <3>1, WriteInPage
  <2> DEFINE p2 == c'.pg[q]
  <2>11. /\ CacheOK(c') /\ (\A r \in Pages \ {q} : c'.pg[r] = c.pg[r])
         /\ p2 \in PageType /\ p2.in = p.in /\ p2.empty = p.empty /\ p2.cur = p.cur /\ p2.dirty = p.dirty
         /\ p2.wr = p.wr /\ p2.fl = p.fl /\ p2.rd = p.rd
         /\ p2.data[p.cur] = CopyIn(p.data[p.cur], B, v) /\ p2.data[1 - p.cur] = p.data[1 - p.cur]
    BY <2>8, <2>9, <2>10, Zenon DEF Put, Alike
  <2> HIDE DEF p2
  <2>12. StepOK(p, p2, q, th', CopyIn(latest[q], B, v), child[q], taint)
    BY <1>1, <1>2, <2>2, <2>5, <2>6, <2>11, PutStep
  <2>17. taint \subseteq taint' /\ taint' \subseteq Pages
    BY <2>1 DEF CacheInv, TypesOK
  <2>13. PagesMove
    <3>1. \A r \in Pages \ {q} : c'.pg[r] = c.pg[r] /\ Quiet(g, f, r) /\ latest'[r] = latest[r] /\ child'[r] = child[r]
      BY <2>1, <2>3, <2>7, <2>11 DEF Quiet
    <3>2. StepOK(c.pg[q], c'.pg[q], q, th', latest'[q], child'[q], taint')
      BY <2>1, <2>3, <2>12 DEF p2
    <3>3. q \in Pages /\ ThreadOK(f) /\ Goes(th, t, f, th') /\ taint \subseteq taint'
      BY <1>1, <2>5, <2>6, <2>17
    <3> HIDE DEF q
    <3> QED BY <3>1, <3>2, <3>3, OneMove
  <2>14. f.pc \notin StackPcs \cup {"fw2"} /\ g.pc \notin StackPcs /\ f.pc # "done" /\ ~Ended(f) /\ ~Loading(f)
    BY <1>2, <2>5 DEF StackPcs, Ended, Loading
  <2>15. ChildBy(f, childLast, taint') /\ SizeBy(f)
    BY <2>5, <2>14 DEF ChildBy, SizeBy
  <2>16. VersionBy(f, latest', acked, taint')
    BY <2>3, <2>5, <2>14 DEF VersionBy, CacheInv, VersionOK
  <2> QED BY <2>1, <2>3, <2>6, <2>11, <2>13, <2>14, <2>15, <2>16, <2>17, PlainStep, Zenon
<1> QED BY <1>3, <1>4

-----------------------------------------------------------------------------
(* A write goes into a filled page under the lock.                         *)
LEMMA NextSays ==
  ASSUME NEW k, NEW q \in Pages
  PROVE  NextPage(k, q) = -1 \/ (NextPage(k, q) \in Pages /\ NextPage(k, q) > q /\ k.pg[NextPage(k, q)].in)
<1> DEFINE A == {r \in Pages : r > q /\ k.pg[r].in}
<1>1. CASE A = {}
  BY <1>1 DEF NextPage
<1>2. CASE A # {}
  <2>1. A \subseteq Nat
    BY PagesHere
  <2>2. NextPage(k, q) = Least(A)
    BY <1>2 DEF NextPage, Least
  <2> HIDE DEF A
  <2>3. Least(A) \in A
    BY <1>2, <2>1, LeastSays
  <2> QED BY <2>2, <2>3 DEF A
<1> QED BY <1>1, <1>2

(* What a copy on write, a hold and a write under the lock make of a page. *)
Cowed(p, p2) ==
  /\ p.in /\ ~p.empty /\ p.rd = 0 /\ p.wr = 0 /\ p.data[1 - p.cur] = NULL
  /\ p2 \in PageType /\ p2.in /\ ~p2.empty /\ p2.dirty = p.dirty /\ p2.rd = p.rd /\ p2.wr = p.wr /\ p2.fl = p.fl
  /\ p2.cur = 1 - p.cur /\ p2.data[1 - p.cur] = p.data[p.cur] /\ p2.data[p.cur] = p.data[p.cur]
HeldUp(p, p2) == p2 \in PageType /\ Alike(p, p2) /\ p2.rd = p.rd + 1 /\ p2.fl = p.fl
Wrote(p, p2, B, v) ==
  /\ p2 \in PageType /\ p2.in = p.in /\ p2.empty = p.empty /\ p2.dirty /\ p2.cur = p.cur /\ p2.wr = p.wr /\ p2.fl = p.fl
  /\ p2.rd = p.rd
  /\ p2.data[p.cur] = CopyIn(p.data[p.cur], B, v) /\ p2.data[1 - p.cur] = p.data[1 - p.cur]

(* The page of cache k before the write: as it was, without the wait of    *)
(* the writer, or copied because a flush has it.                           *)
Before(p, pk, waits) ==
  \/ /\ p.in /\ ~p.empty /\ p.fl = 0 /\ Alike(p, pk) /\ pk.fl = p.fl
     /\ pk.rd = p.rd - (IF waits THEN 1 ELSE 0)
  \/ ~waits /\ Cowed(p, pk)

LEMMA HitPage ==
  ASSUME NEW T, ThreadsOK(T), NEW t \in Threads, NEW f, ThreadOK(f), f.held = {}, NEW p, NEW q \in Pages,
         NEW new, NEW disk, NEW bad, PageInv(p, q, T, new, disk, bad), NEW U, Goes(T, t, f, U),
         ~Fills(T[t], q), ~Fl(T[t], q), Away(f, q),
         NEW waits, waits = Rd(T[t], q), NEW pk, Before(p, pk, waits), NEW B, NEW v, NEW p2, Wrote(pk, p2, B, v)
  PROVE  StepOK(p, p2, q, U, CopyIn(new, B, v), disk, bad)
<1>0. p \in PageType /\ p.cur \in {0, 1} /\ p.rd \in Nat
  BY DEF PageInv, PageType
<1>1. CASE Cowed(p, pk) /\ ~waits
  <2>1. StepOK(p, pk, q, T, new, disk, bad)
    BY <1>1, CowStep DEF Cowed
  <2>2. PageInv(pk, q, T, new, disk, bad) /\ PTidy(p, pk, q, T, new, disk, bad)
    BY <2>1 DEF StepOK
  <2>3. q \notin bad => \A u \in Threads : <<q, pk.cur>> \notin T[u].held
    <3> SUFFICES ASSUME q \notin bad, NEW u \in Threads, <<q, pk.cur>> \in T[u].held PROVE FALSE
      OBVIOUS
    <3>1. 1 - p.cur \in {0, 1} /\ pk.cur = 1 - p.cur
      BY <1>0, <1>1 DEF Cowed
    <3>2. p.data[1 - p.cur] # NULL
      BY <3>1 DEF PageInv, PData, DataBy
    <3> QED BY <1>1, <3>2 DEF Cowed
  <2>4. StepOK(pk, p2, q, U, CopyIn(new, B, v), disk, bad)
    <3>1. /\ p2 \in PageType /\ p2.in /\ ~p2.empty /\ p2.dirty /\ p2.cur = pk.cur /\ p2.wr = pk.wr /\ p2.fl = pk.fl
          /\ p2.data[pk.cur] = CopyIn(pk.data[pk.cur], B, v) /\ p2.data[1 - pk.cur] = pk.data[1 - pk.cur]
          /\ pk.in /\ ~pk.empty
      BY <1>1 DEF Wrote, Cowed
    <3>2. p2.rd = pk.rd - (IF Rd(T[t], q) THEN 1 ELSE 0)
      <4>1. ~Rd(T[t], q)
        BY <1>1
      <4>2. p2.rd = pk.rd /\ pk.rd = p.rd
        BY <1>1 DEF Wrote, Cowed
      <4> QED BY <1>0, <4>1, <4>2
    <3> QED BY <2>2, <2>3, <3>1, <3>2, HitStep
  <2>5. PTidy(p, pk, q, U, CopyIn(new, B, v), disk, bad)
    <3>1. \A u \in Threads, i \in {0, 1} : <<q, i>> \in U[u].held => <<q, i>> \in T[u].held
      BY DEF Goes
    <3> QED BY <1>1, <2>2, <3>1 DEF PTidy, Cowed
  <2> QED BY <2>4, <2>5, TidyThen
<1>2. CASE /\ p.in /\ ~p.empty /\ p.fl = 0 /\ Alike(p, pk) /\ pk.fl = p.fl
           /\ pk.rd = p.rd - (IF waits THEN 1 ELSE 0)
  <2>1. q \notin bad => \A u \in Threads : <<q, p.cur>> \notin T[u].held
    BY <1>0, <1>2, Holders DEF PageInv, Fl
  <2>2. /\ p2 \in PageType /\ p2.in /\ ~p2.empty /\ p2.dirty /\ p2.cur = p.cur /\ p2.wr = p.wr /\ p2.fl = p.fl
        /\ p2.rd = p.rd - (IF Rd(T[t], q) THEN 1 ELSE 0)
        /\ p2.data[p.cur] = CopyIn(p.data[p.cur], B, v) /\ p2.data[1 - p.cur] = p.data[1 - p.cur]
    BY <1>2 DEF Wrote, Alike
  <2> QED BY <1>2, <2>1, <2>2, HitStep
<1> QED BY <1>1, <1>2 DEF Before

(* The cache after the write: the scan went on to the next pages.          *)
CowBy(k, k2, r) == Cowed(k.pg[r], k2.pg[r])
LEMMA CowIfSays ==
  ASSUME NEW k, CacheOK(k), NEW r
  PROVE  /\ CacheOK(CowIfPossible(k, r))
         /\ \A x \in Pages : CowIfPossible(k, r).pg[x] = k.pg[x] \/ (x = r /\ CowBy(k, CowIfPossible(k, r), x))
<1>1. CASE r \in Pages /\ CanCow(k, r)
  <2>1. CowIfPossible(k, r) = Cow(k, r)
    BY <1>1 DEF CowIfPossible
  <2>2. k.pg[r].in /\ ~k.pg[r].empty /\ k.pg[r].rd = 0 /\ k.pg[r].wr = 0 /\ k.pg[r].data[1 - k.pg[r].cur] = NULL
    BY <1>1 DEF CanCow
  <2>3. CacheOK(Cow(k, r)) /\ \A x \in Pages \ {r} : Cow(k, r).pg[x] = k.pg[x]
    BY <1>1, CowSays
  <2>4. CowBy(k, Cow(k, r), r)
    BY <1>1, <2>2, CowSays DEF Cowed, CowBy
  <2> QED BY <2>1, <2>3, <2>4
<1>2. CASE ~(r \in Pages /\ CanCow(k, r))
  BY <1>2 DEF CowIfPossible
<1> QED BY <1>1, <1>2

Hit(k, k2, q, hold, B, v) ==
  /\ CacheOK(k2) /\ Wrote(k.pg[q], k2.pg[q], B, v)
  /\ \A r \in Pages \ {q} : \/ r # hold /\ k2.pg[r] = k.pg[r]
                            \/ r # hold /\ Cowed(k.pg[r], k2.pg[r])
                            \/ r = hold /\ HeldUp(k.pg[r], k2.pg[r])
Hits(k, k2, q, i, B, v, hold) ==
  k2 = Hold(CowIfPossible(WriteIn(MarkDirty([k EXCEPT !.pg[q].use[i] = @ + 1], q), q, i, B, v), q + 1), hold)
LEMMA HitCache ==
  ASSUME NEW k, CacheOK(k), NEW q \in Pages, NEW i, i = k.pg[q].cur, k.pg[q].data[i] # NULL, NEW B, NEW v \in Nat,
         NEW hold, hold = -1 \/ (hold \in Pages /\ hold > q + 1),
         NEW k2, Hits(k, k2, q, i, B, v, hold)
  PROVE  Hit(k, k2, q, hold, B, v)
<1> DEFINE ka == [k EXCEPT !.pg[q].use[i] = @ + 1]
           kb == MarkDirty(ka, q)
           kc == WriteIn(kb, q, i, B, v)
           kd == CowIfPossible(kc, q + 1)
<1>1. i \in {0, 1} /\ q \in Int
  BY PagesHere DEF CacheOK, PageType
<1>2. Uses(k, ka, q, i)
  BY DEF Uses
<1>3. k2 = Hold(kd, hold)
  BY DEF Hits
<1> HIDE DEF ka
<1>4. /\ CacheOK(ka) /\ (\A r \in Pages \ {q} : ka.pg[r] = k.pg[r]) /\ ka.pg[q] \in PageType
      /\ Alike(k.pg[q], ka.pg[q]) /\ ka.pg[q].rd = k.pg[q].rd /\ ka.pg[q].fl = k.pg[q].fl
  BY <1>1, <1>2, UsePage DEF Edit
<1>5. Edit(ka, kb, q, [ka.pg[q] EXCEPT !.dirty = TRUE])
  BY <1>4, MarkDirtySays
<1> HIDE DEF kb
<1>6. /\ CacheOK(kb) /\ (\A r \in Pages \ {q} : kb.pg[r] = ka.pg[r]) /\ kb.pg[q] = [ka.pg[q] EXCEPT !.dirty = TRUE]
  BY <1>5 DEF Edit
<1>7. /\ kb.pg[q].in = k.pg[q].in /\ kb.pg[q].empty = k.pg[q].empty /\ kb.pg[q].dirty /\ kb.pg[q].cur = k.pg[q].cur
      /\ kb.pg[q].wr = k.pg[q].wr /\ kb.pg[q].fl = k.pg[q].fl /\ kb.pg[q].rd = k.pg[q].rd /\ kb.pg[q].data = k.pg[q].data
  BY <1>4, <1>6 DEF Alike, PageType
<1>8. Put(kb, kc, q, i, B, v) /\ kc.pg[q].dirty = kb.pg[q].dirty
  <2>1. kb.pg[q].data[i] # NULL
    BY <1>7
  <2>2. kc = WriteIn(kb, q, i, B, v)
    OBVIOUS
  <2>3. CacheOK(kb) /\ i \in {0, 1}
    BY <1>1, <1>6
  <2> HIDE DEF kc
  <2> QED BY <2>1, <2>2, <2>3, WriteInPage
<1> HIDE DEF kc
<1>9. CacheOK(kc) /\ Wrote(k.pg[q], kc.pg[q], B, v) /\ \A r \in Pages \ {q} : kc.pg[r] = k.pg[r]
  BY <1>4, <1>6, <1>7, <1>8 DEF Put, Wrote
<1>10. CacheOK(kd) /\ \A x \in Pages : kd.pg[x] = kc.pg[x] \/ (x = q + 1 /\ CowBy(kc, kd, x))
  BY <1>9, CowIfSays
<1> HIDE DEF kd
<1>11. q # q + 1
  BY <1>1
<1>12. kd.pg[q] = kc.pg[q]
  BY <1>10, <1>11
<1>13. \A r \in Pages \ {q} : kd.pg[r] = k.pg[r] \/ (r = q + 1 /\ Cowed(k.pg[r], kd.pg[r]))
  BY <1>9, <1>10 DEF CowBy
<1>14. CASE hold = -1
  <2>1. k2 = kd
    BY <1>3, <1>14 DEF Hold
  <2>2. \A r \in Pages : r # hold
    BY <1>14, PagesHere
  <2> QED BY <1>9, <1>10, <1>12, <1>13, <2>1, <2>2 DEF Hit
<1>15. CASE hold \in Pages /\ hold > q + 1
  <2>1. hold # q /\ hold # q + 1
    BY <1>1, <1>15, PagesHere
  <2>2. /\ CacheOK(k2) /\ (\A r \in Pages \ {hold} : k2.pg[r] = kd.pg[r]) /\ HeldUp(kd.pg[hold], k2.pg[hold])
    <3>1. /\ CacheOK(Hold(kd, hold)) /\ (\A r \in Pages \ {hold} : Hold(kd, hold).pg[r] = kd.pg[r])
          /\ Hold(kd, hold).pg[hold] \in PageType /\ Alike(kd.pg[hold], Hold(kd, hold).pg[hold])
          /\ Hold(kd, hold).pg[hold].rd = kd.pg[hold].rd + 1 /\ Hold(kd, hold).pg[hold].fl = kd.pg[hold].fl
      BY <1>10, <1>15, HoldSays
    <3> QED BY <1>3, <3>1 DEF HeldUp
  <2>3. k2.pg[q] = kc.pg[q]
    BY <1>12, <2>1, <2>2
  <2>4. kd.pg[hold] = k.pg[hold]
    BY <1>13, <1>15, <2>1
  <2>5. \A r \in Pages \ {q} : r # hold => k2.pg[r] = kd.pg[r]
    BY <2>2
  <2>6. HeldUp(k.pg[hold], k2.pg[hold])
    BY <2>2, <2>4
  <2> QED BY <1>9, <1>13, <2>2, <2>3, <2>5, <2>6 DEF Hit
<1> QED BY <1>14, <1>15

(* The thread after a write that may hold the page behind.                 *)
Afters(g, f, pc, r, slot) ==
  f = IF r = -1 THEN [g EXCEPT !.pc = pc, !.block = @ \/ pc = "wget"]
      ELSE [g EXCEPT !.pc = "whold", !.ret = pc, !.lo = r, !.slot = slot, !.block = @ \/ pc = "wget"]
AfterOK(g, f, pc, r, slot) ==
  /\ f \in ThreadType /\ ThreadOK(f) /\ Kin(g, f) /\ f.held = {}
  /\ r = -1 => f.pc = pc /\ f.slot = g.slot
  /\ r # -1 => f.pc = "whold" /\ f.ret = pc /\ f.lo = r /\ f.slot = slot
Reblocks(g, f, pc, b) == f = [g EXCEPT !.pc = pc, !.block = b]
LEMMA Reblock ==
  ASSUME NEW g \in ThreadType, NEW pc \in PcNames, NEW b \in BOOLEAN, NEW f, Reblocks(g, f, pc, b)
  PROVE  f \in ThreadType /\ Kin(g, f) /\ f.pc = pc /\ f.held = g.held /\ f.slot = g.slot /\ f.ret = g.ret /\ f.lo = g.lo
BY Zenon DEF Reblocks, ThreadType, Kin
LEMMA Reret ==
  ASSUME NEW g \in ThreadType, NEW pc \in {"wend", "wget", "force", "load"}, NEW f, f = [g EXCEPT !.ret = pc]
  PROVE  f \in ThreadType /\ Kin(g, f) /\ f.pc = g.pc /\ f.held = g.held /\ f.slot = g.slot /\ f.ret = pc /\ f.lo = g.lo
BY Zenon DEF ThreadType, Kin
LEMMA AfterThread ==
  ASSUME NEW g \in ThreadType, ThreadOK(g), g.op = "write", g.held = {}, NEW pc \in {"wend", "wget", "force", "load"},
         pc = "wget" => g.slot = 0, NEW r, r = -1 \/ (r \in Pages /\ r # g.page), NEW slot \in {0, 1},
         NEW f, Afters(g, f, pc, r, slot)
  PROVE  AfterOK(g, f, pc, r, slot)
<1> DEFINE b == g.block \/ pc = "wget"
<1>1. b \in BOOLEAN /\ pc \in PcNames /\ "whold" \in PcNames
  BY DEF PcNames, WritePcs, ForcePcs
<1>2. CASE r = -1
  <2>1. Reblocks(g, f, pc, b)
    BY <1>2 DEF Afters, Reblocks
  <2> HIDE DEF b
  <2>2. f \in ThreadType /\ Kin(g, f) /\ f.pc = pc /\ f.held = g.held /\ f.slot = g.slot /\ f.ret = g.ret /\ f.lo = g.lo
    BY <1>1, <2>1, Reblock
  <2>3. ThreadOK(f)
    BY <2>2 DEF ThreadOK, Kin, ReadPcs, WritePcs, ForcePcs, FlushPcs, StackPcs
  <2> QED BY <1>2, <2>2, <2>3 DEF AfterOK
<1>3. CASE r # -1
  <2> DEFINE g1 == [g EXCEPT !.pc = "whold", !.block = b]
             g2 == [g1 EXCEPT !.ret = pc]
  <2>1. f = [g2 EXCEPT !.lo = r, !.slot = slot]
    BY <1>3 DEF Afters
  <2> HIDE DEF b
  <2>2. g1 \in ThreadType /\ Kin(g, g1) /\ g1.pc = "whold" /\ g1.held = g.held
    <3>1. Reblocks(g, g1, "whold", b)
      BY DEF Reblocks
    <3> HIDE DEF g1
    <3> QED BY <1>1, <3>1, Reblock
  <2> HIDE DEF g1
  <2>3. g2 \in ThreadType /\ Kin(g1, g2) /\ g2.pc = g1.pc /\ g2.held = g1.held /\ g2.ret = pc
    BY <2>2, Reret
  <2> HIDE DEF g2
  <2>4. Places(g2, f, r, slot) /\ r \in Int
    BY <1>3, <2>1, PagesHere DEF Places
  <2>5. f \in ThreadType /\ Kin(g2, f) /\ f.slot = slot /\ f.held = g2.held /\ f.pc = g2.pc /\ f.ret = g2.ret /\ f.lo = r
    BY <2>3, <2>4, Placed
  <2>6. Kin(g, f) /\ f.pc = "whold" /\ f.held = {} /\ f.ret = pc
    BY <2>2, <2>3, <2>5 DEF Kin
  <2>7. ThreadOK(f)
    BY <1>3, <2>5, <2>6 DEF ThreadOK, Kin, ReadPcs, WritePcs, ForcePcs, FlushPcs, StackPcs
  <2> QED BY <1>3, <2>5, <2>6, <2>7 DEF AfterOK
<1> QED BY <1>2, <1>3
LEMMA Regot ==
  ASSUME NEW g \in ThreadType, ThreadOK(g), NEW d \in Val, NEW f, f = [g EXCEPT !.got = d]
  PROVE  /\ f \in ThreadType /\ ThreadOK(f) /\ f.pc = g.pc /\ f.op = g.op /\ f.page = g.page /\ f.bytes = g.bytes
         /\ f.need = g.need /\ f.slot = g.slot /\ f.ret = g.ret /\ f.lo = g.lo /\ f.held = g.held /\ f.got = d
<1>1. f \in ThreadType
  BY Zenon DEF ThreadType, Val
<1>2. f.pc = g.pc /\ f.op = g.op /\ f.page = g.page /\ f.bytes = g.bytes /\ f.held = g.held /\ f.hi = g.hi
  BY Zenon DEF ThreadType
<1>3. f.need = g.need /\ f.slot = g.slot /\ f.ret = g.ret /\ f.lo = g.lo /\ f.got = d
  BY Zenon DEF ThreadType
<1>4. ThreadOK(f)
  BY <1>2, <1>3, Zenon DEF ThreadOK
<1> QED BY <1>1, <1>2, <1>3, <1>4

(* The other pages, when one of them may be held or copied.                *)
LEMMA NearStep ==
  ASSUME CacheInv, NEW t \in Threads, NEW f, ThreadOK(f), Goes(th, t, f, th'), NEW r \in Pages, Away(th[t], r), NEW p2,
         \/ Away(f, r) /\ p2 = c.pg[r]
         \/ Away(f, r) /\ Cowed(c.pg[r], p2)
         \/ Away(f, r) /\ p2 = Absent /\ c.pg[r].in /\ ~c.pg[r].dirty /\ Pending(c.pg[r]) = 0
         \/ Rd(f, r) /\ ~Fl(f, r) /\ Fits(f, c.pg[r], r) /\ c.pg[r].in /\ HeldUp(c.pg[r], p2)
  PROVE  StepOK(c.pg[r], p2, r, th', latest[r], child[r], taint)
<1>1. ThreadsOK(th) /\ PageInv(c.pg[r], r, th, latest[r], child[r], taint)
  BY DEF CacheInv, PagesOK
<1>2. CASE Away(f, r) /\ p2 = c.pg[r]
  BY <1>1, <1>2, QuietStep DEF Quiet
<1>3. CASE Away(f, r) /\ Cowed(c.pg[r], p2)
  <2>1. StepOK(c.pg[r], p2, r, th, latest[r], child[r], taint)
    BY <1>1, <1>3, CowStep DEF Cowed
  <2> QED BY <1>1, <1>3, <2>1, CowAway
<1>4. CASE Away(f, r) /\ p2 = Absent /\ c.pg[r].in /\ ~c.pg[r].dirty /\ Pending(c.pg[r]) = 0
  <2>1. StepOK(c.pg[r], Absent, r, th, latest[r], child[r], taint)
    BY <1>1, <1>4, EvictStep
  <2> QED BY <1>1, <1>4, <2>1, CowAway
<1>5. CASE Rd(f, r) /\ ~Fl(f, r) /\ Fits(f, c.pg[r], r) /\ c.pg[r].in /\ HeldUp(c.pg[r], p2)
  <2>1. p2 \in PageType /\ Alike(c.pg[r], p2) /\ p2.rd = c.pg[r].rd + 1 /\ p2.fl = c.pg[r].fl
    BY <1>5 DEF HeldUp
  <2>2. PageInv(p2, r, th', latest[r], child[r], taint)
    BY <1>1, <1>5, <2>1, RdUp
  <2> QED BY <2>1, <2>2, AlikeTidy
<1> QED BY <1>2, <1>3, <1>4, <1>5

(* A thread behind a write: which pages it holds.                          *)
LEMMA AfterHolds ==
  ASSUME NEW g, NEW f, NEW pc \in {"wend", "wget", "force", "load"}, NEW hold, NEW slot, f.op = "write",
         ThreadOK(f), f.held = {}, hold = -1 => f.pc = pc,
         hold # -1 => f.pc = "whold" /\ f.ret = pc /\ f.lo = hold /\ f.slot = slot
  PROVE  /\ \A r : r # hold /\ r # f.page => Away(f, r)
         /\ pc # "load" => \A r : r # hold => Away(f, r)
         /\ hold # -1 => \A p : p.cur = slot => Rd(f, hold) /\ ~Fl(f, hold) /\ Fits(f, p, hold)
         /\ f.pc \notin StackPcs \cup {"fw2", "rrel", "done"}
         /\ (Loading(f) <=> pc = "load") /\ (Copied(f) <=> pc = "wend") /\ (Ended(f) <=> pc = "wend")
<1>1. CASE hold = -1
  <2>1. f.pc = pc
    BY <1>1
  <2>2. \A r : r # f.page => Away(f, r)
    BY <2>1, AwayFrom DEF FreePcs, PagePcs
  <2>3. pc # "load" => \A r : Away(f, r)
    BY <2>1, AwayFrom DEF FreePcs, PagePcs
  <2> QED BY <1>1, <2>1, <2>2, <2>3 DEF StackPcs, Loading, Copied, Ended
<1>2. CASE hold # -1
  <2>1. f.pc = "whold" /\ f.ret = pc /\ f.lo = hold /\ f.slot = slot /\ f.lo # f.page
    BY <1>2 DEF ThreadOK
  <2>2. /\ \A r : r # hold /\ r # f.page => Away(f, r)
        /\ pc # "load" => \A r : r # hold => Away(f, r)
    BY <2>1, AwayFrom
  <2>3. Rd(f, hold) /\ ~Fl(f, hold) /\ ~Fills(f, hold)
    BY <2>1 DEF Rd, Fl, Fills, Loads
  <2>4. \A p : p.cur = slot => Fits(f, p, hold)
    BY <2>1, <2>3 DEF Fits
  <2> QED BY <1>2, <2>1, <2>2, <2>3, <2>4 DEF StackPcs, Loading, Copied, Ended
<1> QED BY <1>1, <1>2

LEMMA WriteHitInv ==
  ASSUME CacheInv, NEW t \in Threads, th[t].pc \in {"wget", "wwait"}, NEW k, CacheOK(k),
         \A r \in Pages \ {th[t].page} : k.pg[r] = c.pg[r],
         NEW waits \in BOOLEAN, waits <=> th[t].pc = "wwait", Before(c.pg[th[t].page], k.pg[th[t].page], waits), WriteHit(t, k)
  PROVE  CacheInv'
<1> DEFINE g == th[t]
           q == g.page
           i == k.pg[q].cur
           p == c.pg[q]
           B == g.bytes
           v == Version
           d == CopyIn(Zero, B, v)
           next == NextPage(k, q)
           hold == IF next > q + 1 THEN next ELSE -1
           slot == IF hold = -1 THEN 0 ELSE k.pg[hold].cur
           h == After(t, "wend", k, hold)
           f == [h EXCEPT !.got = d]
<1>1. /\ g \in ThreadType /\ ThreadOK(g) /\ ThreadsOK(th) /\ CacheOK(c) /\ q \in Pages /\ B \subseteq Slots
      /\ p \in PageType /\ PageInv(p, q, th, latest[q], child[q], taint) /\ child[q] \in Val
  BY Here, Zenon DEF ThreadType
<1>2. /\ k.pg[q].data[i] # NULL /\ Hits(k, c', q, i, B, v, hold) /\ th' = [th EXCEPT ![t] = f] /\ latest' = Stamp(q, B, v)
      /\ UNCHANGED <<fstack, child, childLast, childEnd, size, acked, taint>>
  BY Zenon DEF WriteHit, Set, OthersSame, ChildSame, Hits
<1>3. g.op = "write" /\ g.held = {} /\ B # {} /\ (waits <=> Rd(g, q)) /\ ~Fills(g, q) /\ ~Fl(g, q) /\ \A r : r # q => Away(g, r)
  BY <1>1, AwayFrom, Zenon DEF ThreadOK, WritePcs, Rd, Fills, Loads, Fl, FlushPcs, StackPcs, FreePcs, PagePcs
<1>4. next = -1 \/ (next \in Pages /\ next > q /\ k.pg[next].in)
  BY <1>1, NextSays
<1> HIDE DEF next
<1>5. q \in Int /\ (hold = -1 \/ (hold \in Pages /\ hold > q + 1 /\ hold # q /\ k.pg[hold].in))
  BY <1>1, <1>4, PagesHere
<1>6. slot \in {0, 1} /\ i \in {0, 1}
  BY <1>1, <1>5 DEF CacheOK, PageType
<1>7. Afters(g, h, "wend", hold, slot)
  BY DEF After, Afters
<1> HIDE DEF hold, h
<1>8. v \in Nat
  BY VersionSays DEF CacheInv
<1>9. /\ latest' \in [Pages -> Val] /\ latest'[q] = CopyIn(latest[q], B, v)
      /\ (\A r \in Pages \ {q} : latest'[r] = latest[r]) /\ (\A r \in Pages : AtLeast(latest'[r], latest[r]))
      /\ Bounded(latest') /\ d \in Val /\ AtLeast(latest'[q], d) /\ (B # {} => d[MaxByte(B)] > 0)
  BY <1>1, <1>2, StampSays
<1> HIDE DEF v, d
<1>10. AfterOK(g, h, "wend", hold, slot)
  <2> HIDE DEF slot, q
  <2>1. hold = -1 \/ (hold \in Pages /\ hold # g.page)
    BY <1>5 DEF q
  <2> QED BY <1>1, <1>3, <1>6, <1>7, <2>1, AfterThread
<1>11. /\ h \in ThreadType /\ ThreadOK(h) /\ h.op = "write" /\ h.page = q /\ h.bytes = B /\ h.need = g.need /\ h.held = {}
       /\ (hold = -1 => h.pc = "wend")
       /\ (hold # -1 => h.pc = "whold" /\ h.ret = "wend" /\ h.lo = hold /\ h.slot = slot)
  BY <1>3, <1>10 DEF AfterOK, Kin
<1> HIDE DEF f
<1>12. /\ f \in ThreadType /\ ThreadOK(f) /\ f.op = "write" /\ f.page = q /\ f.bytes = B /\ f.need = g.need /\ f.held = {}
       /\ (hold = -1 => f.pc = "wend") /\ f.got = d
       /\ (hold # -1 => f.pc = "whold" /\ f.ret = "wend" /\ f.lo = hold /\ f.slot = slot)
  <2>1. f = [h EXCEPT !.got = d]
    BY DEF f
  <2>2. /\ f \in ThreadType /\ ThreadOK(f) /\ f.pc = h.pc /\ f.op = h.op /\ f.page = h.page /\ f.bytes = h.bytes
         /\ f.need = h.need /\ f.slot = h.slot /\ f.ret = h.ret /\ f.lo = h.lo /\ f.held = h.held /\ f.got = d
    BY <1>9, <1>11, <2>1, Regot
  <2> QED BY <1>11, <2>2
<1> HIDE DEF slot
<1>13. /\ (\A r : r # hold => Away(f, r))
       /\ (hold # -1 => \A x : x.cur = slot => Rd(f, hold) /\ ~Fl(f, hold) /\ Fits(f, x, hold))
       /\ f.pc \notin StackPcs \cup {"fw2", "rrel", "done"} /\ ~Loading(f) /\ Ended(f)
  <2>1. "wend" \in {"wend", "wget", "force", "load"} /\ "wend" # "load"
    OBVIOUS
  <2> QED BY <1>12, <2>1, AfterHolds
<1>14. ThreadsOK(th') /\ Goes(th, t, f, th')
  BY <1>1, <1>2, <1>12, ThreadsMove
<1>15. Hit(k, c', q, hold, B, v)
  <2>1. hold = -1 \/ (hold \in Pages /\ hold > q + 1)
    BY <1>5
  <2>2. q \in Pages /\ i = k.pg[q].cur /\ Hits(k, c', q, i, B, v, hold) /\ k.pg[q].data[i] # NULL
    BY <1>1, <1>2
  <2> HIDE DEF q, i, B
  <2> QED BY <1>8, <2>1, <2>2, HitCache
<1> DEFINE p2 == c'.pg[q]
<1>16. CacheOK(c') /\ Wrote(k.pg[q], p2, B, v)
  BY <1>15 DEF Hit
<1>17. StepOK(p, p2, q, th', latest'[q], child'[q], taint')
  <2>1. q # hold
    BY <1>5, PagesHere, <1>1
  <2>2. Away(f, q)
    BY <1>13, <2>1
  <2> DEFINE pk == k.pg[q]
             w == Rd(g, q)
  <2>3. Before(p, pk, w)
    BY <1>3 DEF Before
  <2>4. Wrote(pk, p2, B, v) /\ w = Rd(g, q)
    BY <1>16
  <2> HIDE DEF w, pk, p2
  <2>5. StepOK(p, p2, q, th', CopyIn(latest[q], B, v), child[q], taint)
    BY <1>1, <1>3, <1>12, <1>14, <2>2, <2>3, <2>4, HitPage
  <2> QED BY <1>2, <1>9, <2>5
<1>18. ASSUME NEW r \in Pages \ {q} PROVE StepOK(c.pg[r], c'.pg[r], r, th', latest'[r], child'[r], taint')
  <2>1. k.pg[r] = c.pg[r] /\ Away(g, r) /\ latest'[r] = latest[r] /\ child' = child /\ taint' = taint
    BY <1>2, <1>3, <1>9
  <2>2. \/ r # hold /\ c'.pg[r] = c.pg[r]
        \/ r # hold /\ Cowed(c.pg[r], c'.pg[r])
        \/ r = hold /\ HeldUp(c.pg[r], c'.pg[r])
    BY <1>15, <2>1 DEF Hit
  <2>3. r # hold => Away(f, r)
    BY <1>13
  <2>4. r = hold => Rd(f, r) /\ ~Fl(f, r) /\ Fits(f, c.pg[r], r) /\ c.pg[r].in
    <3> SUFFICES ASSUME r = hold PROVE Rd(f, r) /\ ~Fl(f, r) /\ Fits(f, c.pg[r], r) /\ c.pg[r].in
      OBVIOUS
    <3>1. hold # -1
      BY PagesHere
    <3>2. c.pg[r].cur = slot /\ c.pg[r].in
      BY <1>5, <2>1, <3>1 DEF slot
    <3> QED BY <1>13, <3>1, <3>2
  <2> DEFINE y == c'.pg[r]
  <2> HIDE DEF y
  <2>5. \/ Away(f, r) /\ y = c.pg[r]
        \/ Away(f, r) /\ Cowed(c.pg[r], y)
        \/ Rd(f, r) /\ ~Fl(f, r) /\ Fits(f, c.pg[r], r) /\ c.pg[r].in /\ HeldUp(c.pg[r], y)
    BY <2>2, <2>3, <2>4 DEF y
  <2>6. StepOK(c.pg[r], y, r, th', latest[r], child[r], taint)
    BY <1>12, <1>14, <2>1, <2>5, NearStep
  <2> QED BY <2>1, <2>6 DEF y
<1>19. PagesMove
  BY <1>17, <1>18 DEF PagesMove
<1>20. ChildBy(f, childLast, taint') /\ SizeBy(f)
  BY <1>12, <1>13 DEF ChildBy, SizeBy
<1>21. VersionBy(f, latest', acked, taint')
  BY <1>3, <1>9, <1>12, <1>13 DEF VersionBy, CacheInv, VersionOK
<1>22. taint \subseteq taint' /\ taint' \subseteq Pages /\ g.pc \notin StackPcs
  BY <1>2 DEF CacheInv, TypesOK, StackPcs
<1>23. c'.pg[f.page].in /\ c'.pg[f.page].dirty
  BY <1>12, <1>16, Zenon DEF Wrote, Before, Cowed, Alike
<1> QED BY <1>2, <1>9, <1>12, <1>13, <1>14, <1>16, <1>19, <1>20, <1>21, <1>22, <1>23, PlainStep, Zenon

(* cache_write_pages_get on a page that exists.                            *)
LEMMA WritePresentInv ==
  ASSUME CacheInv, NEW t \in Threads, WritePresent(t)
  PROVE  CacheInv'
<1> DEFINE g == th[t]
           q == g.page
           p == c.pg[q]
           busy == p.empty \/ p.torel \/ p.rd > 0
<1>1. /\ g \in ThreadType /\ ThreadOK(g) /\ CacheOK(c) /\ q \in Pages /\ p \in PageType /\ p.rd \in Nat /\ p.fl \in Nat
  BY Here DEF PageType
<1>2. g.pc = "wget" /\ p.in /\ g.op = "write" /\ g.pc \in FreePcs
  BY <1>1, Zenon DEF WritePresent, At, ThreadOK, WritePcs, FreePcs
<1>3. CASE ~busy /\ p.fl = 0 /\ WriteHit(t, c)
  <2>1. Before(p, p, FALSE)
    BY <1>1, <1>2, <1>3 DEF Before, Alike
  <2> QED BY <1>1, <1>2, <1>3, <2>1, WriteHitInv
<1>4. CASE CanCow(c, q) /\ WriteHit(t, Cow(c, q))
  <2> DEFINE k == Cow(c, q)
  <2>1. CacheOK(k) /\ \A r \in Pages \ {q} : k.pg[r] = c.pg[r]
    BY <1>1, CowSays
  <2>2. /\ p.in /\ ~p.empty /\ p.rd = 0 /\ p.wr = 0 /\ p.data[1 - p.cur] = NULL
    BY <1>4 DEF CanCow
  <2>3. Cowed(p, k.pg[q])
    <3>1. CowIfPossible(c, q) = k
      BY <1>1, <1>4 DEF CowIfPossible
    <3>2. k.pg[q] = p \/ CowBy(c, k, q)
      BY <1>1, <3>1, CowIfSays
    <3>3. k.pg[q].cur = 1 - p.cur /\ p.cur \in {0, 1}
      BY <1>1, CowSays DEF PageType
    <3>4. k.pg[q] # p
      BY <3>3
    <3> QED BY <3>2, <3>4 DEF CowBy
  <2>4. Before(p, k.pg[q], FALSE) /\ WriteHit(t, k)
    BY <1>4, <2>3 DEF Before
  <2> HIDE DEF k
  <2> QED BY <1>1, <1>2, <2>1, <2>4, WriteHitInv
<1>5. CASE Halt
  BY <1>5, Idles DEF Halt
<1>6. CASE /\ IF ~g.block THEN Set(t, [g EXCEPT !.block = TRUE]) /\ UNCHANGED c
              ELSE IF busy THEN Goto(t, "force") /\ UNCHANGED c
              ELSE Goto(t, "wwait") /\ c' = [c EXCEPT !.pg[q].rd = @ + 1]
           /\ OthersSame /\ HistorySame
  <2>1. Still
    BY <1>6 DEF Still, OthersSame, ChildSame, HistorySame
  <2>2. CASE ~g.block
    BY <1>2, <1>6, <2>1, <2>2, Blocks
  <2>3. CASE g.block /\ busy
    BY <1>2, <1>6, <2>1, <2>3, Moves
  <2>4. CASE g.block /\ ~busy
    BY <1>2, <1>6, <2>1, <2>4, Waits
  <2> QED BY <2>2, <2>3, <2>4
<1> QED BY <1>3, <1>4, <1>5, <1>6 DEF WritePresent

(* _cache_wait_for_page of a write.                                        *)
Unholds(k, k2, q) == k2 = [k EXCEPT !.pg[q].rd = @ - 1]
LEMMA UnwaitPage ==
  ASSUME NEW k, CacheOK(k), NEW q \in Pages, k.pg[q].rd # 0, NEW k2, Unholds(k, k2, q)
  PROVE  /\ CacheOK(k2) /\ (\A r \in Pages \ {q} : k2.pg[r] = k.pg[r]) /\ Alike(k.pg[q], k2.pg[q])
         /\ k2.pg[q].fl = k.pg[q].fl /\ k2.pg[q].rd = k.pg[q].rd - 1
<1> DEFINE p == k.pg[q]
           n == p.rd - 1
           p2 == [p EXCEPT !.rd = n]
<1>0. p \in PageType
  BY DEF CacheOK
<1>1. p \in PageType /\ n \in Nat
  <2>1. p.rd \in Nat /\ p.rd # 0
    BY <1>0 DEF PageType
  <2> QED BY <1>0, <2>1
<1>2. "pg" \in DOMAIN k2 /\ k2.pg = [k.pg EXCEPT ![q] = p2]
  BY <1>1 DEF CacheOK, PageType, Unholds
<1> HIDE DEF p, n
<1>3. p2 \in PageType /\ Alike(p, p2) /\ p2.rd = n /\ p2.fl = p.fl
  BY <1>1 DEF PageType, Alike
<1> HIDE DEF p2
<1>4. Edit(k, k2, q, p2)
  BY <1>2, <1>3, EditPage
<1>5. k2.pg[q] = p2 /\ CacheOK(k2) /\ (\A r \in Pages \ {q} : k2.pg[r] = k.pg[r])
  BY <1>4 DEF Edit
<1> QED BY <1>3, <1>5 DEF p, n

LEMMA WriteWakeInv ==
  ASSUME CacheInv, NEW t \in Threads, WriteWake(t)
  PROVE  CacheInv'
<1> DEFINE g == th[t]
           q == g.page
           p == c.pg[q]
           k == [c EXCEPT !.pg[q].rd = @ - 1]
<1>1. /\ g \in ThreadType /\ ThreadOK(g) /\ CacheOK(c) /\ q \in Pages /\ p \in PageType
  BY Here
<1>2. g.pc = "wwait" /\ g.op = "write"
  BY <1>1, Zenon DEF WriteWake, At, ThreadOK, WritePcs
<1>3. p.rd \in Nat /\ p.rd # 0 /\ p.in
  BY <1>2, Waited
<1>4. CASE Sleep(t) \/ Halt
  BY <1>4, Idles DEF Sleep, Halt
<1>5. CASE Ready(p, "write") /\ WriteHit(t, k)
  <2>0. ~p.empty /\ p.fl = 0
    BY <1>5 DEF Ready
  <2>1. /\ CacheOK(k) /\ (\A r \in Pages \ {q} : k.pg[r] = c.pg[r]) /\ Alike(p, k.pg[q])
        /\ k.pg[q].fl = p.fl /\ k.pg[q].rd = p.rd - 1
    <3>1. Unholds(c, k, q)
      BY DEF Unholds
    <3> HIDE DEF k, q
    <3> QED BY <1>1, <1>3, <3>1, UnwaitPage
  <2>2. WriteHit(t, k)
    BY <1>5
  <2> HIDE DEF k
  <2>3. Before(p, k.pg[q], TRUE)
    BY <1>3, <2>0, <2>1 DEF Before
  <2> QED BY <1>2, <2>1, <2>2, <2>3, WriteHitInv
<1>6. CASE c' = k /\ Goto(t, "force") /\ OthersSame /\ HistorySame
  <2>1. Still
    BY <1>6 DEF Still, OthersSame, ChildSame, HistorySame
  <2> QED BY <1>2, <1>6, <2>1, Unwaits
<1> QED BY <1>4, <1>5, <1>6 DEF WriteWake

-----------------------------------------------------------------------------
(* A write to a page that does not exist.                                  *)
Behind(q, next) == next = -1 \/ (next \in Pages /\ next > q /\ c.pg[next].in)
Around(k, q, next) ==
  \A r \in Pages \ {q} : (r = next /\ HeldUp(c.pg[r], k.pg[r])) \/ (r # next /\ Roomy(c, k, r))
LEMMA AroundSame ==
  ASSUME NEW k, NEW k2, NEW q, NEW next, Around(k, q, next), \A r \in Pages \ {q} : k2.pg[r] = k.pg[r]
  PROVE  Around(k2, q, next)
BY Zenon DEF Around, Roomy

LEMMA HoldAround ==
  ASSUME CacheOK(c), NEW q \in Pages, NEW next, Behind(q, next), NEW k, k = Hold(c, next)
  PROVE  CacheOK(k) /\ Around(k, q, next) /\ k.pg[q] = c.pg[q]
<1>1. q # next
  BY PagesHere DEF Behind
<1>2. CASE next = -1
  <2>1. k = c
    BY <1>2 DEF Hold
  <2>2. \A r \in Pages : r # next
    BY <1>2, PagesHere
  <2> QED BY <2>1, <2>2 DEF Around, Roomy
<1>3. CASE next \in Pages
  <2>1. /\ CacheOK(Hold(c, next)) /\ (\A r \in Pages \ {next} : Hold(c, next).pg[r] = c.pg[r])
        /\ Hold(c, next).pg[next] \in PageType /\ Alike(c.pg[next], Hold(c, next).pg[next])
        /\ Hold(c, next).pg[next].rd = c.pg[next].rd + 1 /\ Hold(c, next).pg[next].fl = c.pg[next].fl
    BY <1>3, HoldSays
  <2>2. CacheOK(k) /\ (\A r \in Pages \ {next} : k.pg[r] = c.pg[r]) /\ HeldUp(c.pg[next], k.pg[next])
    BY <2>1 DEF HeldUp
  <2> QED BY <1>1, <2>2 DEF Around, Roomy
<1> QED BY <1>2, <1>3 DEF Behind
LEMMA HeldBusy ==
  ASSUME NEW p \in PageType, NEW p2, HeldUp(p, p2)
  PROVE  Pending(p2) # 0
<1>1. p2.rd \in Nat /\ p2.wr \in Nat /\ p2.fl \in Nat /\ p.rd \in Nat /\ p2.rd = p.rd + 1
  BY DEF HeldUp, PageType
<1> QED BY <1>1 DEF Pending
LEMMA RoomAround ==
  ASSUME CacheOK(c), NEW q \in Pages, ~c.pg[q].in, NEW next, Behind(q, next), NEW h, CacheOK(h), Around(h, q, next), h.pg[q] = c.pg[q],
         NEW k \in Rooms(h)
  PROVE  CacheOK(k) /\ Around(k, q, next) /\ k.pg[q] = c.pg[q]
<1>1. CacheOK(k)
  BY RoomsSay
<1>2. ASSUME NEW r \in Pages
      PROVE  k.pg[r] = h.pg[r] \/ (k.pg[r] = Absent /\ h.pg[r].in /\ ~h.pg[r].dirty /\ Pending(h.pg[r]) = 0)
  BY RoomsSay
<1>3. k.pg[q] = c.pg[q]
  BY <1>2
<1>4. Around(k, q, next)
  <2> SUFFICES ASSUME NEW r \in Pages \ {q} PROVE (r = next /\ HeldUp(c.pg[r], k.pg[r])) \/ (r # next /\ Roomy(c, k, r))
    BY DEF Around
  <2>1. CASE r = next /\ HeldUp(c.pg[r], h.pg[r])
    <3>1. c.pg[r] \in PageType
      BY DEF CacheOK
    <3>2. Pending(h.pg[r]) # 0
      BY <2>1, <3>1, HeldBusy
    <3> QED BY <1>2, <2>1, <3>2
  <2>2. CASE r # next /\ Roomy(c, h, r)
    <3>1. ~Absent.in
      BY AbsentType
    <3> QED BY <1>2, <2>2, <3>1 DEF Roomy
  <2> QED BY <2>1, <2>2 DEF Around
<1> QED BY <1>1, <1>3, <1>4

(* What the three outcomes have in common.                                 *)
Follows(g, f, q, pc, next, slot) ==
  /\ f \in ThreadType /\ ThreadOK(f) /\ f.op = "write" /\ f.page = q /\ f.need = g.need /\ f.held = {}
  /\ next = -1 => f.pc = pc
  /\ next # -1 => f.pc = "whold" /\ f.ret = pc /\ f.lo = next /\ f.slot = slot
NewBytes(q) ==
  /\ UNCHANGED <<fstack, child, childLast, childEnd, size, acked, taint>>
  /\ latest' \in [Pages -> Val] /\ (\A r \in Pages : AtLeast(latest'[r], latest[r])) /\ Bounded(latest')
  /\ \A r \in Pages \ {q} : latest'[r] = latest[r]
LEMMA AbsentStep ==
  ASSUME CacheInv, NEW t \in Threads, th[t].pc = "wget", NEW q, q = th[t].page, NEW next, Behind(q, next),
         CacheOK(c'), Around(c', q, next), NEW pc \in {"wend", "wget", "force", "load"}, NEW slot,
         next # -1 => slot = c.pg[next].cur, NEW f, Follows(th[t], f, q, pc, next, slot),
         th' = [th EXCEPT ![t] = f], NewBytes(q),
         StepOK(c.pg[q], c'.pg[q], q, th', latest'[q], child[q], taint),
         pc = "load" => q <= childLast,
         pc = "wend" => AtLeast(latest'[q], f.got) /\ f.got[MaxByte(f.bytes)] > 0 /\ c'.pg[q].in /\ c'.pg[q].dirty
  PROVE  CacheInv'
<1> DEFINE g == th[t]
<1>1. ThreadsOK(th) /\ ThreadOK(g) /\ q \in Pages
  BY Here
<1>0. /\ f \in ThreadType /\ ThreadOK(f) /\ f.op = "write" /\ f.page = q /\ f.need = g.need /\ f.held = {}
      /\ (next = -1 => f.pc = pc) /\ (next # -1 => f.pc = "whold" /\ f.ret = pc /\ f.lo = next /\ f.slot = slot)
  BY DEF Follows
<1>11. /\ UNCHANGED <<fstack, child, childLast, childEnd, size, acked, taint>>
       /\ latest' \in [Pages -> Val] /\ (\A r \in Pages : AtLeast(latest'[r], latest[r])) /\ Bounded(latest')
       /\ \A r \in Pages \ {q} : latest'[r] = latest[r]
  BY DEF NewBytes
<1>2. \A r : Away(g, r)
  BY <1>1, AwayFrom DEF FreePcs
<1>3. /\ (\A r : r # next /\ r # q => Away(f, r))
      /\ (next # -1 => \A x : x.cur = slot => Rd(f, next) /\ ~Fl(f, next) /\ Fits(f, x, next))
      /\ f.pc \notin StackPcs \cup {"fw2", "rrel", "done"} /\ (Loading(f) <=> pc = "load")
      /\ (Copied(f) <=> pc = "wend") /\ (Ended(f) <=> pc = "wend")
  BY <1>0, AfterHolds
<1>4. ThreadsOK(th') /\ Goes(th, t, f, th')
  BY <1>0, <1>1, ThreadsMove
<1>5. ASSUME NEW r \in Pages \ {q} PROVE StepOK(c.pg[r], c'.pg[r], r, th', latest'[r], child'[r], taint')
  <2>1. Away(g, r) /\ latest'[r] = latest[r] /\ child' = child /\ taint' = taint
    BY <1>2, <1>11
  <2>2. r = next => Rd(f, r) /\ ~Fl(f, r) /\ Fits(f, c.pg[r], r) /\ c.pg[r].in
    <3> SUFFICES ASSUME r = next PROVE Rd(f, r) /\ ~Fl(f, r) /\ Fits(f, c.pg[r], r) /\ c.pg[r].in
      OBVIOUS
    <3>1. next # -1
      BY PagesHere
    <3>2. c.pg[r].cur = slot /\ c.pg[r].in
      BY <3>1 DEF Behind
    <3> QED BY <1>3, <3>1, <3>2
  <2> DEFINE y == c'.pg[r]
  <2> HIDE DEF y
  <2>3. \/ r = next /\ HeldUp(c.pg[r], y)
        \/ r # next /\ y = c.pg[r]
        \/ r # next /\ y = Absent /\ c.pg[r].in /\ ~c.pg[r].dirty /\ Pending(c.pg[r]) = 0
    BY DEF Around, Roomy, y
  <2>4. \/ Away(f, r) /\ y = c.pg[r]
        \/ Away(f, r) /\ y = Absent /\ c.pg[r].in /\ ~c.pg[r].dirty /\ Pending(c.pg[r]) = 0
        \/ Rd(f, r) /\ ~Fl(f, r) /\ Fits(f, c.pg[r], r) /\ c.pg[r].in /\ HeldUp(c.pg[r], y)
    BY <1>3, <2>2, <2>3
  <2>5. StepOK(c.pg[r], y, r, th', latest[r], child[r], taint)
    BY <1>0, <1>4, <2>1, <2>4, NearStep
  <2> QED BY <2>1, <2>5 DEF y
<1>6. PagesMove
  BY <1>5, <1>11 DEF PagesMove
<1>7. ChildBy(f, childLast, taint') /\ SizeBy(f)
  BY <1>0, <1>3, <1>11 DEF ChildBy, SizeBy
<1>8. VersionBy(f, latest', acked, taint')
  BY <1>0, <1>3, <1>11 DEF VersionBy, CacheInv, VersionOK
<1>9. taint \subseteq taint' /\ taint' \subseteq Pages /\ g.pc \notin StackPcs
  BY <1>11 DEF CacheInv, TypesOK, StackPcs
<1>10. Ended(f) => c'.pg[f.page].in /\ c'.pg[f.page].dirty
  BY <1>0, <1>3
<1> QED BY <1>0, <1>3, <1>4, <1>6, <1>7, <1>8, <1>9, <1>10, <1>11, PlainStep

(* A page is added dirty.                                                  *)
MadeDirty(p2, wr) ==
  /\ p2 \in PageType /\ p2.in /\ p2.dirty /\ p2.rd = 0 /\ p2.wr = wr /\ p2.fl = 0 /\ p2.cur = 0
  /\ p2.data[0] = Zero
Adds(k, k2, q, page) == k2 = MarkDirty(AddPage(k, q, page), q)
LEMMA AddDirty ==
  ASSUME NEW k, CacheOK(k), NEW q \in Pages, NEW page, NEW wr, Made(page, 0, wr), NEW k2, Adds(k, k2, q, page)
  PROVE  /\ CacheOK(k2) /\ (\A r \in Pages \ {q} : k2.pg[r] = k.pg[r])
         /\ MadeDirty(k2.pg[q], wr) /\ k2.pg[q].empty = page.empty
<1> DEFINE ka == AddPage(k, q, page)
<1>1. page \in PageType
  BY DEF Made
<1>2. Edit(k, ka, q, page)
  BY <1>1, AddPageSays
<1>3. CacheOK(ka) /\ ka.pg[q] = page /\ (\A r \in Pages \ {q} : ka.pg[r] = k.pg[r])
  BY <1>2 DEF Edit
<1>4. k2 = MarkDirty(ka, q)
  BY DEF Adds
<1> HIDE DEF ka
<1>5. Edit(ka, k2, q, [ka.pg[q] EXCEPT !.dirty = TRUE])
  BY <1>3, <1>4, MarkDirtySays
<1>6. CacheOK(k2) /\ k2.pg[q] = [page EXCEPT !.dirty = TRUE] /\ (\A r \in Pages \ {q} : k2.pg[r] = k.pg[r])
  BY <1>3, <1>5 DEF Edit
<1>7. k2.pg[q] \in PageType
  BY <1>6 DEF CacheOK
<1>8. MadeDirty(k2.pg[q], wr) /\ k2.pg[q].empty = page.empty
  BY <1>1, <1>6, <1>7 DEF PageType, Made, MadeDirty
<1> QED BY <1>6, <1>8

(* The page of a write that found none: left absent, made to be loaded, or *)
(* made with the write's bytes.                                            *)
LEMMA AbsentPlain ==
  ASSUME CacheInv, NEW t \in Threads, th[t].pc = "wget", NEW q, q = th[t].page, ~c.pg[q].in, NEW next, Behind(q, next),
         CacheOK(c'), Around(c', q, next), c'.pg[q] = c.pg[q], NEW pc \in {"wget", "force"},
         NEW slot \in {0, 1}, next # -1 => slot = c.pg[next].cur,
         NEW f, Afters(th[t], f, pc, next, slot), th' = [th EXCEPT ![t] = f], Still
  PROVE  CacheInv'
<1> DEFINE g == th[t]
<1>1. g \in ThreadType /\ ThreadOK(g) /\ ThreadsOK(th) /\ q \in Pages
  BY Here
<1>2. g.op = "write" /\ g.held = {} /\ g.slot = 0 /\ next # q
  <2>1. next # q
    BY <1>1, PagesHere DEF Behind
  <2> QED BY <1>1, <2>1, Zenon DEF ThreadOK, WritePcs
<1>3. AfterOK(g, f, pc, next, slot)
  <2>1. next = -1 \/ (next \in Pages /\ next # g.page)
    BY <1>2 DEF Behind
  <2>2. pc \in {"wend", "wget", "force", "load"} /\ (pc = "wget" => g.slot = 0)
    BY <1>2
  <2> QED BY <1>1, <1>2, <2>1, <2>2, AfterThread
<1>4. /\ f \in ThreadType /\ ThreadOK(f) /\ f.op = "write" /\ f.page = q /\ f.need = g.need /\ f.held = {}
      /\ (next = -1 => f.pc = pc) /\ (next # -1 => f.pc = "whold" /\ f.ret = pc /\ f.lo = next /\ f.slot = slot)
  BY <1>2, <1>3 DEF AfterOK, Kin
<1>5. Away(g, q) /\ Away(f, q)
  <2>1. \A r : r # next => Away(f, r)
    BY <1>4, AfterHolds
  <2>2. Away(g, q)
    BY <1>1, AwayFrom DEF FreePcs
  <2> QED BY <1>2, <2>1, <2>2
<1>6. ThreadsOK(th') /\ Goes(th, t, f, th')
  BY <1>1, <1>4, ThreadsMove
<1>7. StepOK(c.pg[q], c'.pg[q], q, th', latest'[q], child[q], taint)
  <2>1. StepOK(c.pg[q], c.pg[q], q, th', latest[q], child[q], taint)
    BY <1>1, <1>4, <1>5, <1>6, NearStep
  <2> QED BY <2>1 DEF Still
<1>8. /\ UNCHANGED <<fstack, child, childLast, childEnd, size, acked, taint>> /\ latest' = latest
      /\ latest \in [Pages -> Val] /\ Bounded(latest)
  BY DEF Still, CacheInv, TypesOK, VersionOK
<1>9. \A r \in Pages : AtLeast(latest'[r], latest[r])
  BY <1>8, AtLeastSelf
<1>10. latest' \in [Pages -> Val] /\ Bounded(latest') /\ \A r \in Pages \ {q} : latest'[r] = latest[r]
  BY <1>8
<1>11. pc \in {"wend", "wget", "force", "load"} /\ pc # "load" /\ pc # "wend"
  OBVIOUS
<1>12. NewBytes(q) /\ Follows(g, f, q, pc, next, slot)
  BY <1>4, <1>8, <1>9, <1>10 DEF NewBytes, Follows
<1> QED BY <1>7, <1>11, <1>12, AbsentStep

LEMMA AbsentLoad ==
  ASSUME CacheInv, NEW t \in Threads, th[t].pc = "wget", NEW q, q = th[t].page, ~c.pg[q].in, NEW next, Behind(q, next),
         CacheOK(c'), Around(c', q, next), MadeDirty(c'.pg[q], 1), c'.pg[q].empty, OnDisk(q),
         NEW slot \in {0, 1}, next # -1 => slot = c.pg[next].cur,
         NEW f, Afters(th[t], f, "load", next, slot), th' = [th EXCEPT ![t] = f], Still
  PROVE  CacheInv'
<1> DEFINE g == th[t]
           p2 == c'.pg[q]
           pc == "load"
<1>1. /\ g \in ThreadType /\ ThreadOK(g) /\ ThreadsOK(th) /\ q \in Pages
      /\ PageInv(c.pg[q], q, th, latest[q], child[q], taint)
  BY Here
<1>2. g.op = "write" /\ g.held = {} /\ g.slot = 0 /\ next # q
  <2>1. next # q
    BY <1>1, PagesHere DEF Behind
  <2> QED BY <1>1, <2>1, Zenon DEF ThreadOK, WritePcs
<1>0. pc \in {"wend", "wget", "force", "load"} /\ pc # "wget" /\ pc # "wend" /\ Afters(g, f, pc, next, slot)
  OBVIOUS
<1>3. AfterOK(g, f, pc, next, slot)
  <2>1. next = -1 \/ (next \in Pages /\ next # g.page)
    BY <1>2 DEF Behind
  <2> HIDE DEF pc
  <2> QED BY <1>0, <1>1, <1>2, <2>1, AfterThread
<1>4. /\ f \in ThreadType /\ ThreadOK(f) /\ f.op = "write" /\ f.page = q /\ f.need = g.need /\ f.held = {}
      /\ (next = -1 => f.pc = pc /\ f.slot = 0) /\ (next # -1 => f.pc = "whold" /\ f.ret = pc /\ f.lo = next /\ f.slot = slot)
  BY <1>2, <1>3 DEF AfterOK, Kin
<1>5. Wr(f, q) /\ ~Rd(f, q) /\ ~Fl(f, q) /\ Loads(f, q) /\ Fills(f, q) /\ f.op = "write"
  BY <1>2, <1>4 DEF Wr, Rd, Fl, Loads, Fills, FlushPcs, StackPcs
<1>6. ThreadsOK(th') /\ Goes(th, t, f, th')
  BY <1>1, <1>4, ThreadsMove
<1>7. /\ p2 \in PageType /\ p2.in /\ p2.cur = 0 /\ p2.fl = 0 /\ p2.rd = 0 /\ p2.wr = 1 /\ p2.empty
  BY DEF MadeDirty
<1> HIDE DEF p2, pc
<1>8. OwnBy(f, p2, q)
  <2>1. f.pc \in {"load", "whold"} /\ (f.pc = "load" => f.slot = 0) /\ (f.pc = "whold" => f.lo # q)
    BY <1>2, <1>4 DEF pc
  <2> QED BY <1>4, <1>7, <2>1 DEF OwnBy
<1>9. Vacant(c.pg[q]) /\ (q \notin taint => child[q] = latest[q])
  BY <1>1, VacantSays DEF Vacant
<1>10. q \notin taint => DataBy(f, p2, q, latest[q], child[q])
  <2>1. f.pc \in {"load", "whold"}
    BY <1>4 DEF pc
  <2> QED BY <1>4, <1>9, <2>1 DEF DataBy
<1>11. StepOK(c.pg[q], p2, q, th', latest[q], child[q], taint)
  <2>1. p2.rd = (IF Rd(f, q) THEN 1 ELSE 0) /\ p2.wr = (IF Wr(f, q) THEN 1 ELSE 0)
    BY <1>5, <1>7
  <2> QED BY <1>1, <1>4, <1>5, <1>6, <1>7, <1>8, <1>9, <1>10, <2>1, MakeStep
<1>12. /\ UNCHANGED <<fstack, child, childLast, childEnd, size, acked, taint>> /\ latest' = latest
      /\ latest \in [Pages -> Val] /\ Bounded(latest)
  BY DEF Still, CacheInv, TypesOK, VersionOK
<1>13. \A r \in Pages : AtLeast(latest'[r], latest[r])
  BY <1>12, AtLeastSelf
<1>14. latest' \in [Pages -> Val] /\ Bounded(latest') /\ \A r \in Pages \ {q} : latest'[r] = latest[r]
  BY <1>12
<1>15. StepOK(c.pg[q], c'.pg[q], q, th', latest'[q], child[q], taint)
  BY <1>11, <1>12 DEF p2
<1>16. q <= childLast
  BY <1>1, PagesHere DEF OnDisk, CacheInv, TypesOK
<1>17. NewBytes(q) /\ Follows(g, f, q, pc, next, slot)
  BY <1>4, <1>12, <1>13, <1>14 DEF NewBytes, Follows
<1> QED BY <1>0, <1>15, <1>16, <1>17, AbsentStep

LEMMA AbsentFill ==
  ASSUME CacheInv, NEW t \in Threads, th[t].pc = "wget", NEW q, q = th[t].page, ~c.pg[q].in, NEW next, Behind(q, next),
         NEW k, CacheOK(k), Around(k, q, next), MadeDirty(k.pg[q], 0), ~k.pg[q].empty, ~OnDisk(q) \/ th[t].bytes = Slots,
         c' = WriteIn(k, q, 0, th[t].bytes, Version), latest' = Stamp(q, th[t].bytes, Version),
         NEW slot \in {0, 1}, next # -1 => slot = c.pg[next].cur,
         NEW h, Afters(th[t], h, "wend", next, slot), NEW f, f = [h EXCEPT !.got = CopyIn(Zero, th[t].bytes, Version)],
         th' = [th EXCEPT ![t] = f], UNCHANGED <<fstack, child, childLast, childEnd, size, acked, taint>>
  PROVE  CacheInv'
<1> DEFINE g == th[t]
           B == g.bytes
           v == Version
           d == CopyIn(Zero, B, v)
           pc == "wend"
           p2 == c'.pg[q]
<1>1. /\ g \in ThreadType /\ ThreadOK(g) /\ ThreadsOK(th) /\ q \in Pages /\ B \subseteq Slots
      /\ PageInv(c.pg[q], q, th, latest[q], child[q], taint) /\ latest[q] \in Val
  BY Here, Zenon DEF ThreadType
<1>2. g.op = "write" /\ g.held = {} /\ g.slot = 0 /\ next # q /\ B # {}
  <2>1. next # q
    BY <1>1, PagesHere DEF Behind
  <2> QED BY <1>1, <2>1, Zenon DEF ThreadOK, WritePcs
<1>3. v \in Nat
  BY VersionSays DEF CacheInv
<1>4. /\ latest' \in [Pages -> Val] /\ latest'[q] = CopyIn(latest[q], B, v)
      /\ (\A r \in Pages \ {q} : latest'[r] = latest[r]) /\ (\A r \in Pages : AtLeast(latest'[r], latest[r]))
      /\ Bounded(latest') /\ d \in Val /\ AtLeast(latest'[q], d) /\ (B # {} => d[MaxByte(B)] > 0)
  BY <1>1, StampSays
<1>5. f = [h EXCEPT !.got = d] /\ c' = WriteIn(k, q, 0, B, v)
  OBVIOUS
<1>6. pc \in {"wend", "wget", "force", "load"} /\ pc # "wget" /\ pc # "load" /\ Afters(g, h, pc, next, slot)
  OBVIOUS
<1> HIDE DEF v, d, pc
<1>7. AfterOK(g, h, pc, next, slot)
  <2>1. next = -1 \/ (next \in Pages /\ next # g.page)
    BY <1>2 DEF Behind
  <2> QED BY <1>1, <1>2, <1>6, <2>1, AfterThread
<1>8. /\ h \in ThreadType /\ ThreadOK(h) /\ h.op = "write" /\ h.page = q /\ h.bytes = B /\ h.need = g.need /\ h.held = {}
      /\ (next = -1 => h.pc = pc) /\ (next # -1 => h.pc = "whold" /\ h.ret = pc /\ h.lo = next /\ h.slot = slot)
  BY <1>2, <1>7 DEF AfterOK, Kin
<1>9. Follows(g, f, q, pc, next, slot) /\ f.got = d /\ f.bytes = B /\ f.op = "write" /\ f.held = {}
  <2>1. /\ f \in ThreadType /\ ThreadOK(f) /\ f.pc = h.pc /\ f.op = h.op /\ f.page = h.page /\ f.bytes = h.bytes
        /\ f.need = h.need /\ f.slot = h.slot /\ f.ret = h.ret /\ f.lo = h.lo /\ f.held = h.held /\ f.got = d
    <3>1. h \in ThreadType /\ ThreadOK(h) /\ d \in Val
      BY <1>4, <1>8
    <3>2. f = [h EXCEPT !.got = d]
      BY <1>5
    <3> QED BY ONLY <3>1, <3>2, Regot
  <2> QED BY <1>8, <2>1 DEF Follows
<1>10. f \in ThreadType /\ ThreadOK(f) /\ \A r : r # next => Away(f, r)
  BY <1>6, <1>9, AfterHolds DEF Follows
<1>11. ThreadsOK(th') /\ Goes(th, t, f, th')
  BY <1>1, <1>10, ThreadsMove
<1>12. Put(k, c', q, 0, B, v) /\ c'.pg[q].dirty = k.pg[q].dirty /\ k.pg[q].cur = 0 /\ k.pg[q].data[0] = Zero
  <2>1. k.pg[q].data[0] # NULL /\ k.pg[q].cur = 0 /\ k.pg[q].data[0] = Zero
    BY DEF MadeDirty, Zero, NULL, Slots
  <2> QED BY <1>1, <1>3, <1>5, <2>1, WriteInPage
<1>13. /\ CacheOK(c') /\ (\A r \in Pages \ {q} : c'.pg[r] = k.pg[r])
       /\ p2 \in PageType /\ p2.in /\ p2.dirty /\ ~p2.empty /\ p2.cur = 0 /\ p2.rd = 0 /\ p2.wr = 0 /\ p2.fl = 0
       /\ p2.data[0] = d
  BY <1>12, Zenon DEF Put, MadeDirty, d
<1>14. Around(c', q, next)
  <2>1. Around(k, q, next) /\ \A r \in Pages \ {q} : c'.pg[r] = k.pg[r]
    BY <1>13
  <2> HIDE DEF p2
  <2> QED BY <2>1, AroundSame
<1> HIDE DEF p2
<1>15. Vacant(c.pg[q]) /\ (q \notin taint => child[q] = latest[q])
  BY <1>1, VacantSays DEF Vacant
<1>16. q \notin taint => d = CopyIn(latest[q], B, v)
  <2> SUFFICES ASSUME q \notin taint PROVE d = CopyIn(latest[q], B, v)
    OBVIOUS
  <2>1. CASE ~OnDisk(q)
    BY <1>1, <1>15, <2>1, Beyond DEF d
  <2>2. CASE B = Slots
    BY <2>2 DEF d, CopyIn
  <2> QED BY <2>1, <2>2
<1>17. StepOK(c.pg[q], p2, q, th', latest'[q], child[q], taint)
  <2>1. Away(f, q) /\ ~Fills(f, q) /\ Fits(f, p2, q)
    BY <1>2, <1>10, AwayFits
  <2>2. ~Rd(f, q) /\ ~Wr(f, q) /\ ~Fl(f, q)
    BY <2>1 DEF Away
  <2>3. OwnBy(f, p2, q) /\ DataBy(f, p2, q, latest'[q], child[q])
    BY <1>9, <2>1 DEF OwnBy, DataBy, Fits, Fills
  <2>4. p2.rd = (IF Rd(f, q) THEN 1 ELSE 0) /\ p2.wr = (IF Wr(f, q) THEN 1 ELSE 0)
    BY <1>13, <2>2
  <2>5. q \notin taint => p2.data[0] = latest'[q]
    BY <1>4, <1>13, <1>16
  <2> QED BY <1>1, <1>9, <1>10, <1>11, <1>13, <1>15, <2>2, <2>3, <2>4, <2>5, MakeStep
<1>18. NewBytes(q)
  BY <1>4 DEF NewBytes
<1>19. /\ AtLeast(latest'[q], f.got) /\ f.got[MaxByte(f.bytes)] > 0 /\ c'.pg[q].in /\ c'.pg[q].dirty
       /\ StepOK(c.pg[q], c'.pg[q], q, th', latest'[q], child[q], taint)
  BY <1>2, <1>4, <1>9, <1>13, <1>17, Zenon DEF p2
<1>20. CacheOK(c')
  BY <1>13
<1> QED BY <1>6, <1>9, <1>14, <1>18, <1>19, <1>20, AbsentStep, ZenonT(60)

LEMMA WriteAbsentInv ==
  ASSUME CacheInv, NEW t \in Threads, WriteAbsent(t)
  PROVE  CacheInv'
<1> DEFINE g == th[t]
           q == g.page
           B == g.bytes
           next == NextPage(c, q)
           held == Hold(c, next)
           again == IF g.block THEN "force" ELSE "wget"
           load == ~Full(t) /\ OnDisk(q)
           slot == IF next = -1 THEN 0 ELSE c.pg[next].cur
           pageL == [Blank EXCEPT !.wr = 1, !.use[0] = 1]
           pageF == [Blank EXCEPT !.empty = FALSE, !.use[0] = 1]
<1>1. /\ g \in ThreadType /\ ThreadOK(g) /\ CacheOK(c) /\ q \in Pages
  BY Here
<1>2. g.pc = "wget" /\ ~c.pg[q].in /\ UNCHANGED <<fstack, child, childLast, childEnd, size, acked, taint>>
  BY Zenon DEF WriteAbsent, At, OthersSame, ChildSame
<1>3. \/ c' = held /\ Set(t, After(t, again, c, next)) /\ UNCHANGED latest
      \/ \E k \in Rooms(held) :
           \/ /\ c' = [k EXCEPT !.orphans = @ + 1, !.used = @ + 1]
              /\ Set(t, After(t, again, c, next)) /\ UNCHANGED latest
           \/ /\ load /\ c' = MarkDirty(AddPage(k, q, pageL), q)
              /\ Set(t, After(t, "load", c, next)) /\ UNCHANGED latest
           \/ /\ ~load /\ c' = WriteIn(MarkDirty(AddPage(k, q, pageF), q), q, 0, B, Version)
              /\ Set(t, [After(t, "wend", c, next) EXCEPT !.got = CopyIn(Zero, B, Version)])
              /\ latest' = Stamp(q, B, Version)
  <2>1. \/ c.used = MaxPages /\ c' = held /\ Set(t, After(t, again, c, next)) /\ UNCHANGED latest
        \/ \E k \in Rooms(held) :
              CASE B = {0} ->
                     /\ c' = [k EXCEPT !.orphans = @ + 1, !.used = @ + 1]
                     /\ Set(t, After(t, again, c, next)) /\ UNCHANGED latest
                [] B # {0} /\ load ->
                     /\ c' = MarkDirty(AddPage(k, q, pageL), q)
                     /\ Set(t, After(t, "load", c, next)) /\ UNCHANGED latest
                [] OTHER ->
                     /\ c' = WriteIn(MarkDirty(AddPage(k, q, pageF), q), q, 0, B, Version)
                     /\ Set(t, [After(t, "wend", c, next) EXCEPT !.got = CopyIn(Zero, B, Version)])
                     /\ latest' = Stamp(q, B, Version)
    BY Zenon DEF WriteAbsent
  <2> HIDE DEF held, again, load, pageL, pageF, next, q, B
  <2> QED BY <2>1, Zenon
<1>4. Behind(q, next)
  BY <1>1, NextSays DEF Behind
<1>5. CacheOK(held) /\ Around(held, q, next) /\ held.pg[q] = c.pg[q]
  <2> HIDE DEF next, q
  <2> QED BY <1>1, <1>4, HoldAround
<1>6. slot \in {0, 1} /\ (next # -1 => slot = c.pg[next].cur)
  BY <1>1, <1>4 DEF Behind, CacheOK, PageType
<1>7. \A pc : Afters(g, After(t, pc, c, next), pc, next, slot)
  BY DEF After, Afters
<1>8. again \in {"wget", "force"}
  OBVIOUS
<1> HIDE DEF held, again, next, slot
<1>9. ASSUME CacheOK(c'), Around(c', q, next), c'.pg[q] = c.pg[q], Set(t, After(t, again, c, next)), UNCHANGED latest
      PROVE  CacheInv'
  <2> DEFINE f == After(t, again, c, next)
  <2>1. Afters(g, f, again, next, slot) /\ th' = [th EXCEPT ![t] = f] /\ Still
    BY <1>2, <1>7, <1>9 DEF Set, Still
  <2>2. q = th[t].page
    OBVIOUS
  <2>3. CacheOK(c') /\ Around(c', q, next) /\ c'.pg[q] = c.pg[q] /\ ~c.pg[q].in /\ th[t].pc = "wget"
    BY <1>2, <1>9
  <2> HIDE DEF f, q
  <2>4. CASE again = "wget"
    <3>1. "wget" \in {"wget", "force"} /\ Afters(th[t], f, "wget", next, slot)
      BY <2>1, <2>4
    <3>2. slot \in {0, 1} /\ (next # -1 => slot = c.pg[next].cur) /\ th' = [th EXCEPT ![t] = f] /\ Still
      BY <1>6, <2>1
    <3> QED BY <1>4, <2>2, <2>3, <3>1, <3>2, AbsentPlain
  <2>5. CASE again = "force"
    <3>1. "force" \in {"wget", "force"} /\ Afters(th[t], f, "force", next, slot)
      BY <2>1, <2>5
    <3>2. slot \in {0, 1} /\ (next # -1 => slot = c.pg[next].cur) /\ th' = [th EXCEPT ![t] = f] /\ Still
      BY <1>6, <2>1
    <3> QED BY <1>4, <2>2, <2>3, <3>1, <3>2, AbsentPlain
  <2> QED BY <1>8, <2>4, <2>5
<1>10. CASE c' = held /\ Set(t, After(t, again, c, next)) /\ UNCHANGED latest
  BY <1>5, <1>9, <1>10
<1>11. ASSUME NEW k \in Rooms(held),
              \/ /\ c' = [k EXCEPT !.orphans = @ + 1, !.used = @ + 1]
                 /\ Set(t, After(t, again, c, next)) /\ UNCHANGED latest
              \/ /\ load /\ c' = MarkDirty(AddPage(k, q, pageL), q)
                 /\ Set(t, After(t, "load", c, next)) /\ UNCHANGED latest
              \/ /\ ~load /\ c' = WriteIn(MarkDirty(AddPage(k, q, pageF), q), q, 0, B, Version)
                 /\ Set(t, [After(t, "wend", c, next) EXCEPT !.got = CopyIn(Zero, B, Version)])
                 /\ latest' = Stamp(q, B, Version)
       PROVE  CacheInv'
  <2>1. CacheOK(k) /\ Around(k, q, next) /\ k.pg[q] = c.pg[q]
    <3> HIDE DEF q
    <3> QED BY <1>1, <1>2, <1>4, <1>5, <1>11, RoomAround
  <2>2. ASSUME c' = [k EXCEPT !.orphans = @ + 1, !.used = @ + 1], Set(t, After(t, again, c, next)), UNCHANGED latest
        PROVE  CacheInv'
    <3>1. CacheOK(c') /\ c'.pg = k.pg
      BY <2>1, <2>2 DEF CacheOK
    <3>2. Around(c', q, next) /\ c'.pg[q] = c.pg[q]
      BY <2>1, <3>1 DEF Around, Roomy
    <3> QED BY <1>9, <2>2, <3>1, <3>2
  <2>3. ASSUME load, c' = MarkDirty(AddPage(k, q, pageL), q), Set(t, After(t, "load", c, next)), UNCHANGED latest
        PROVE  CacheInv'
    <3> DEFINE f == After(t, "load", c, next)
    <3>1. Made(pageL, 0, 1) /\ pageL.empty
      BY MadeSays, Zenon
    <3>2. Adds(k, c', q, pageL) /\ Afters(g, f, "load", next, slot) /\ th' = [th EXCEPT ![t] = f] /\ Still /\ OnDisk(q)
      BY <1>2, <1>7, <2>3 DEF Adds, Set, Still
    <3>3. q = th[t].page
      OBVIOUS
    <3> HIDE DEF pageL, f, q
    <3>4. /\ CacheOK(c') /\ (\A r \in Pages \ {q} : c'.pg[r] = k.pg[r])
          /\ MadeDirty(c'.pg[q], 1) /\ c'.pg[q].empty
      BY <1>1, <2>1, <3>1, <3>2, AddDirty
    <3>5. Around(c', q, next)
      BY <2>1, <3>4 DEF Around, Roomy
    <3> QED BY <1>2, <1>4, <1>6, <3>2, <3>3, <3>4, <3>5, AbsentLoad
  <2>4. ASSUME ~load, c' = WriteIn(MarkDirty(AddPage(k, q, pageF), q), q, 0, B, Version),
               Set(t, [After(t, "wend", c, next) EXCEPT !.got = CopyIn(Zero, B, Version)]),
               latest' = Stamp(q, B, Version)
        PROVE  CacheInv'
    <3> DEFINE h == After(t, "wend", c, next)
               f == [h EXCEPT !.got = CopyIn(Zero, B, Version)]
               ka == MarkDirty(AddPage(k, q, pageF), q)
    <3>1. Made(pageF, 0, 0) /\ ~pageF.empty
      BY MadeSays, Zenon
    <3>2. /\ Adds(k, ka, q, pageF) /\ Afters(g, h, "wend", next, slot) /\ th' = [th EXCEPT ![t] = f]
          /\ f = [h EXCEPT !.got = CopyIn(Zero, th[t].bytes, Version)]
          /\ c' = WriteIn(ka, q, 0, th[t].bytes, Version) /\ latest' = Stamp(q, th[t].bytes, Version)
      BY <1>7, <2>4 DEF Adds, Set
    <3>3. q = th[t].page /\ (~OnDisk(q) \/ th[t].bytes = Slots)
      BY <2>4 DEF Full
    <3> HIDE DEF pageF, f, q, ka, h
    <3>4. /\ CacheOK(ka) /\ (\A r \in Pages \ {q} : ka.pg[r] = k.pg[r])
          /\ MadeDirty(ka.pg[q], 0) /\ ~ka.pg[q].empty
      BY <1>1, <2>1, <3>1, <3>2, AddDirty
    <3>5. Around(ka, q, next)
      BY <2>1, <3>4 DEF Around, Roomy
    <3> QED BY <1>2, <1>4, <1>6, <3>2, <3>3, <3>4, <3>5, AbsentFill
  <2> QED BY <1>11, <2>2, <2>3, <2>4
<1> QED BY <1>3, <1>10, <1>11, Zenon

-----------------------------------------------------------------------------
(* Requests begin and end.                                                 *)
LEMMA IdleType ==
  /\ Idle \in ThreadType /\ ThreadOK(Idle) /\ Idle.op = "idle" /\ Idle.pc = "idle" /\ Idle.held = {} /\ Idle.ret = ""
  /\ Idle.need = NoNeed /\ Idle.lo = 0 /\ Idle.slot = 0 /\ Idle.hi = 0 /\ NoNeed \in [Pages -> Val] /\ \A q \in Pages : NoNeed[q] = Zero
<1>1. NoNeed \in [Pages -> Val] /\ \A q \in Pages : NoNeed[q] = Zero
  BY DEF NoNeed, Zero, Val
<1>2. Zero \in [Slots -> Nat] /\ 0 \in Pages
  BY PagesHere DEF Zero
<1>3. Idle \in ThreadType
  BY <1>1, <1>2 DEF Idle, ThreadType, PcNames
<1>4. /\ Idle.op = "idle" /\ Idle.pc = "idle" /\ Idle.held = {} /\ Idle.ret = ""
      /\ Idle.need = NoNeed /\ Idle.lo = 0 /\ Idle.slot = 0 /\ Idle.hi = 0
  BY DEF Idle
<1>5. ThreadOK(Idle)
  BY <1>4, Zenon DEF ThreadOK, ReadPcs, WritePcs, ForcePcs, FlushPcs, StackPcs
<1> QED BY <1>1, <1>3, <1>4, <1>5, Zenon

LEMMA Starting ==
  ASSUME CacheInv, CacheOK(c'), c'.pg = c.pg, Still, NEW t \in Threads, th[t].pc \in {"idle", "done"},
         NEW f \in ThreadType, ThreadOK(f), f.pc \in {"idle", "rget", "wget", "fstart"}, f.ret = "",
         th' = [th EXCEPT ![t] = f], \A q \in Pages : AtLeast(acked[q], f.need[q]), SizeBy(f)
  PROVE  CacheInv'
<1> DEFINE g == th[t]
<1>1. g \in ThreadType /\ ThreadOK(g)
  BY Here, Zenon
<1>2. \A r \in Pages : Away(g, r) /\ Away(f, r)
  BY <1>1, AwayFrom, Zenon DEF FreePcs
<1>3. PagesMove /\ ThreadsOK(th') /\ Goes(th, t, f, th')
  BY <1>2, FreeMove, Zenon
<1>4. /\ g.pc \notin StackPcs /\ f.pc \notin StackPcs \cup {"fw2"} /\ f.pc # "done" /\ f.held = {}
      /\ ~Loading(f) /\ ~Copied(f) /\ ~Ended(f)
  BY Zenon DEF StackPcs, Loading, Copied, Ended, ThreadOK
<1>5. ChildBy(f, childLast, taint)
  BY <1>4, Zenon DEF ChildBy
<1>6. VersionBy(f, latest, acked, taint)
  BY <1>4, Zenon DEF VersionBy
<1> QED BY <1>3, <1>4, <1>5, <1>6, CalmStep, Zenon

LEMMA NeedsNothing ==
  ASSUME CacheInv, NEW f, f.need = NoNeed
  PROVE  \A q \in Pages : AtLeast(acked[q], f.need[q])
BY IdleType, AtLeastSelf, Zenon DEF CacheInv, TypesOK

LEMMA ReturnInv ==
  ASSUME CacheInv, NEW t \in Threads, Return(t)
  PROVE  CacheInv'
<1>1. th[t].pc = "done" /\ c' = c /\ Still /\ th' = [th EXCEPT ![t] = Idle]
  BY DEF Return, At, Set, Still, OthersSame, ChildSame, HistorySame
<1>2. CacheOK(c') /\ c'.pg = c.pg
  BY <1>1 DEF CacheInv, TypesOK
<1>3. SizeBy(Idle)
  BY IdleType, Zenon DEF SizeBy
<1>4. \A q \in Pages : AtLeast(acked[q], Idle.need[q])
  BY IdleType, NeedsNothing, Zenon
<1> QED BY <1>1, <1>2, <1>3, <1>4, IdleType, Starting, Zenon

(* The thread of a request that begins.                                    *)
ReadRequest(f, q, B) ==
  /\ f = [Idle EXCEPT !.op = "read", !.pc = "rget", !.page = q, !.bytes = B]
  /\ q \in Pages /\ B \subseteq Slots /\ B # {}
ReadBegun(f, q) ==
  /\ f \in ThreadType /\ ThreadOK(f) /\ f.op = "read" /\ f.pc = "rget" /\ f.page = q /\ f.ret = "" /\ f.need = NoNeed
LEMMA ReadRequestThread ==
  ASSUME NEW q, NEW B, NEW f, ReadRequest(f, q, B)
  PROVE  ReadBegun(f, q)
<1>1. "rget" \in PcNames
  BY DEF PcNames, ReadPcs, WritePcs
<1>2. f \in ThreadType
  BY <1>1, IdleType, Zenon DEF ReadRequest, ThreadType
<1>3. f.op = "read" /\ f.pc = "rget" /\ f.page = q /\ f.ret = "" /\ f.need = NoNeed /\ f.bytes = B /\ f.held = {} /\ f.slot = 0
  BY IdleType, Zenon DEF ReadRequest, ThreadType
<1>4. ThreadOK(f)
  BY <1>3, Zenon DEF ReadRequest, ThreadOK, ReadPcs, WritePcs, ForcePcs, FlushPcs, StackPcs
<1> QED BY <1>2, <1>3, <1>4, Zenon DEF ReadBegun
WriteRequest(f, q, B) ==
  /\ f = [Idle EXCEPT !.op = "write", !.pc = "wget", !.page = q, !.bytes = B]
  /\ q \in Pages /\ B \subseteq Slots /\ B # {}
WriteBegun(f, q) ==
  /\ f \in ThreadType /\ ThreadOK(f) /\ f.op = "write" /\ f.pc = "wget" /\ f.page = q /\ f.ret = "" /\ f.need = NoNeed
LEMMA WriteRequestThread ==
  ASSUME NEW q, NEW B, NEW f, WriteRequest(f, q, B)
  PROVE  WriteBegun(f, q)
<1>1. "wget" \in PcNames
  BY DEF PcNames, ReadPcs, WritePcs
<1>2. f \in ThreadType
  BY <1>1, IdleType, Zenon DEF WriteRequest, ThreadType
<1>3. f.op = "write" /\ f.pc = "wget" /\ f.page = q /\ f.ret = "" /\ f.need = NoNeed /\ f.bytes = B /\ f.held = {} /\ f.slot = 0
  BY IdleType, Zenon DEF WriteRequest, ThreadType
<1>4. ThreadOK(f)
  BY <1>3, Zenon DEF WriteRequest, ThreadOK, ReadPcs, WritePcs, ForcePcs, FlushPcs, StackPcs
<1> QED BY <1>2, <1>3, <1>4, Zenon DEF WriteBegun
Needs(g, f, n) == f = [g EXCEPT !.need = n]
LEMMA Reneed ==
  ASSUME NEW g \in ThreadType, ThreadOK(g), NEW n \in [Pages -> Val], NEW f, Needs(g, f, n)
  PROVE  f \in ThreadType /\ ThreadOK(f) /\ f.op = g.op /\ f.pc = g.pc /\ f.page = g.page /\ f.ret = g.ret /\ f.need = n
<1>1. f \in ThreadType
  BY Zenon DEF Needs, ThreadType
<1>2. /\ f.op = g.op /\ f.pc = g.pc /\ f.page = g.page /\ f.ret = g.ret /\ f.bytes = g.bytes /\ f.held = g.held
      /\ f.slot = g.slot /\ f.lo = g.lo /\ f.hi = g.hi /\ f.need = n
  BY Zenon DEF Needs, ThreadType
<1>3. ThreadOK(f)
  BY <1>2, Zenon DEF ThreadOK
<1> QED BY <1>1, <1>2, <1>3

LEMMA WriteBegins ==
  ASSUME CacheInv, CacheOK(c'), c'.pg = c.pg, Still, NEW t \in Threads, th[t].pc = "idle",
         NEW q, NEW B, NEW f, WriteRequest(f, q, B), th' = [th EXCEPT ![t] = f]
  PROVE  CacheInv'
<1>1. f \in ThreadType /\ ThreadOK(f) /\ f.op = "write" /\ f.pc = "wget" /\ f.ret = "" /\ f.need = NoNeed
  <2>1. WriteBegun(f, q)
    BY WriteRequestThread
  <2> QED BY <2>1, Zenon DEF WriteBegun
<1>2. SizeBy(f)
  BY <1>1, Zenon DEF SizeBy
<1>3. \A r \in Pages : AtLeast(acked[r], f.need[r])
  BY <1>1, NeedsNothing, Zenon
<1> QED BY <1>1, <1>2, <1>3, Starting, Zenon
LEMMA WriteStartInv ==
  ASSUME CacheInv, NEW t \in Threads, NEW q \in Pages, NEW B, B \subseteq Slots, B # {}, WriteStart(t, q, B)
  PROVE  CacheInv'
<1> DEFINE f == [Idle EXCEPT !.op = "write", !.pc = "wget", !.page = q, !.bytes = B]
<1>1. th[t].pc = "idle" /\ c' = c /\ Still /\ th' = [th EXCEPT ![t] = f]
  BY DEF WriteStart, At, Set, Still, OthersSame, ChildSame
<1>2. CacheOK(c') /\ c'.pg = c.pg
  BY <1>1 DEF CacheInv, TypesOK
<1>3. WriteRequest(f, q, B)
  BY DEF WriteRequest
<1> HIDE DEF f
<1> QED BY <1>1, <1>2, <1>3, WriteBegins

(* A read begins inside the file.                                          *)
LEMMA BeginsInside ==
  ASSUME CacheInv, NEW q \in Pages, NEW m \in {0, 1}, Pos(q, m) > 0 => Pos(q, m) + 1 <= size
  PROVE  q < ChildPages \/ \E r \in Pages, s \in Slots : q <= r /\ acked[r][s] > 0
<1>1. q \in Nat /\ size \in Nat /\ ChildPages \in Nat /\ ChildPages >= 1
  BY PagesHere, CacheAssumption DEF CacheInv, TypesOK
<1>2. CASE 2 * q + m = 0
  BY <1>1, <1>2
<1>3. CASE 2 * q + m > 0
  <2>1. 2 * q + m + 1 <= size
    BY <1>3 DEF Pos
  <2>2. CASE size <= 2 * ChildPages
    BY <1>1, <2>1, <2>2
  <2>3. CASE \E r \in Pages, s \in Slots : acked[r][s] > 0 /\ Pos(r, s) + 1 >= size
    <3>1. PICK r \in Pages, s \in Slots : acked[r][s] > 0 /\ 2 * r + s + 1 >= size
      BY <2>3 DEF Pos
    <3>2. r \in Nat /\ s \in {0, 1}
      BY PagesHere DEF Slots
    <3>3. q <= r
      BY <1>1, <2>1, <3>1, <3>2
    <3> QED BY <3>1, <3>3
  <2> QED BY <2>2, <2>3 DEF CacheInv, SizeOK
<1> QED BY <1>1, <1>2, <1>3

LEMMA ReadBegins ==
  ASSUME CacheInv, CacheOK(c'), c'.pg = c.pg, Still, NEW t \in Threads, th[t].pc = "idle",
         NEW q, NEW B, NEW g, ReadRequest(g, q, B), Pos(q, MaxByte(B)) > 0 => Pos(q, MaxByte(B)) + 1 <= size,
         NEW f, f = [g EXCEPT !.need = acked], th' = [th EXCEPT ![t] = f]
  PROVE  CacheInv'
<1>1. g \in ThreadType /\ ThreadOK(g) /\ g.op = "read" /\ g.pc = "rget" /\ g.ret = "" /\ g.page = q
  <2>1. ReadBegun(g, q)
    BY ReadRequestThread
  <2> QED BY <2>1, Zenon DEF ReadBegun
<1>2. acked \in [Pages -> Val] /\ MaxByte(B) \in {0, 1} /\ q \in Pages
  BY DEF CacheInv, TypesOK, MaxByte, ReadRequest
<1>3. f \in ThreadType /\ ThreadOK(f) /\ f.op = g.op /\ f.pc = g.pc /\ f.page = g.page /\ f.ret = g.ret /\ f.need = acked
  <2>1. g \in ThreadType /\ ThreadOK(g) /\ acked \in [Pages -> Val] /\ Needs(g, f, acked)
    BY <1>1, <1>2, Zenon DEF Needs
  <2> QED BY ONLY <2>1, Reneed
<1>4. SizeBy(f)
  <2>1. q < ChildPages \/ \E r \in Pages, s \in Slots : q <= r /\ acked[r][s] > 0
    BY <1>2, BeginsInside
  <2> QED BY <2>1, <1>1, <1>3, Zenon DEF SizeBy
<1>5. \A r \in Pages : AtLeast(acked[r], f.need[r])
  BY <1>2, <1>3, AtLeastSelf
<1> QED BY <1>1, <1>3, <1>4, <1>5, Starting, Zenon
LEMMA ReadStartInv ==
  ASSUME CacheInv, NEW t \in Threads, NEW q \in Pages, NEW B, B \subseteq Slots, B # {}, ReadStart(t, q, B)
  PROVE  CacheInv'
<1> DEFINE g == [Idle EXCEPT !.op = "read", !.pc = "rget", !.page = q, !.bytes = B]
           f == [g EXCEPT !.need = acked]
           m == MaxByte(B)
<1>1. /\ th[t].pc = "idle" /\ c' = c /\ Still /\ th' = [th EXCEPT ![t] = f] /\ (Pos(q, m) > 0 => Pos(q, m) + 1 <= size)
  BY DEF ReadStart, At, Set, Still, OthersSame, ChildSame
<1>2. CacheOK(c') /\ c'.pg = c.pg
  BY <1>1 DEF CacheInv, TypesOK
<1>3. ReadRequest(g, q, B)
  BY DEF ReadRequest
<1>4. f = [g EXCEPT !.need = acked]
  OBVIOUS
<1> HIDE DEF g, f
<1> QED BY <1>1, <1>2, <1>3, <1>4, ReadBegins

(* A flush begins.                                                         *)
Flushes(f, lo, hi) == f = [Idle EXCEPT !.op = "flush", !.pc = "fstart", !.lo = lo, !.hi = hi]
LEMMA FlushThread ==
  ASSUME NEW lo \in Int, NEW hi \in Int, hi = -1 => lo = 0, NEW f, Flushes(f, lo, hi)
  PROVE  f \in ThreadType /\ ThreadOK(f) /\ f.op = "flush" /\ f.pc = "fstart" /\ f.ret = "" /\ f.need = NoNeed
<1>1. "fstart" \in PcNames
  BY DEF PcNames, FlushPcs
<1>2. f \in ThreadType
  BY <1>1, IdleType, Zenon DEF Flushes, ThreadType
<1>3. f.op = "flush" /\ f.pc = "fstart" /\ f.ret = "" /\ f.need = NoNeed /\ f.held = {} /\ f.lo = lo /\ f.hi = hi
  BY IdleType, Zenon DEF Flushes, ThreadType
<1>4. ThreadOK(f)
  BY <1>3, Zenon DEF ThreadOK, ReadPcs, WritePcs, ForcePcs, FlushPcs, StackPcs
<1> QED BY <1>2, <1>3, <1>4, Zenon
LEMMA FlushBegins ==
  ASSUME CacheInv, CacheOK(c'), c'.pg = c.pg, Still, NEW t \in Threads, th[t].pc = "idle",
         NEW lo \in Int, NEW hi \in Int, hi = -1 => lo = 0, NEW f, Flushes(f, lo, hi), th' = [th EXCEPT ![t] = f]
  PROVE  CacheInv'
<1>1. f \in ThreadType /\ ThreadOK(f) /\ f.op = "flush" /\ f.pc = "fstart" /\ f.ret = "" /\ f.need = NoNeed
  <2>1. lo \in Int /\ hi \in Int /\ (hi = -1 => lo = 0) /\ Flushes(f, lo, hi)
    OBVIOUS
  <2> QED BY ONLY <2>1, FlushThread, Zenon
<1>2. SizeBy(f)
  BY <1>1, Zenon DEF SizeBy
<1>3. \A q \in Pages : AtLeast(acked[q], f.need[q])
  BY <1>1, NeedsNothing, Zenon
<1> QED BY <1>1, <1>2, <1>3, Starting, Zenon
LEMMA FlushStartInv ==
  ASSUME CacheInv, NEW t \in Threads, FlushStart(t) \/ DirtyThread(t)
  PROVE  CacheInv'
<1> DEFINE f == [Idle EXCEPT !.op = "flush", !.pc = "fstart", !.hi = -1]
<1>1. th[t].pc = "idle" /\ c' = c /\ Still /\ th' = [th EXCEPT ![t] = f]
  BY DEF FlushStart, DirtyThread, At, Set, Still, OthersSame, ChildSame, HistorySame
<1>2. CacheOK(c') /\ c'.pg = c.pg
  BY <1>1 DEF CacheInv, TypesOK
<1>3. Flushes(f, 0, -1)
  BY IdleType, Zenon DEF Flushes, Idle
<1>4. 0 \in Int /\ -1 \in Int
  OBVIOUS
<1> HIDE DEF f
<1> QED BY <1>1, <1>2, <1>3, <1>4, FlushBegins
LEMMA SpawnStartInv ==
  ASSUME CacheInv, NEW t \in Threads, NEW q \in Pages, SpawnStart(t, q)
  PROVE  CacheInv'
<1> DEFINE f == [Idle EXCEPT !.op = "flush", !.pc = "fstart", !.lo = q, !.hi = q]
<1>1. th[t].pc = "idle" /\ c' = [c EXCEPT !.spawn = @ \ {q}] /\ Still /\ th' = [th EXCEPT ![t] = f]
  BY DEF SpawnStart, At, Set, Still, OthersSame, ChildSame, HistorySame
<1>2. CacheOK(c') /\ c'.pg = c.pg
  BY <1>1 DEF CacheInv, TypesOK, CacheOK
<1>3. Flushes(f, q, q) /\ q \in Int /\ q # -1
  BY PagesHere DEF Flushes
<1> HIDE DEF f
<1> QED BY <1>1, <1>2, <1>3, FlushBegins

-----------------------------------------------------------------------------
(* A write returns.                                                        *)
Larger(d, e) == [s \in Slots |-> IF d[s] < e[s] THEN e[s] ELSE d[s]]
LEMMA LargerSays ==
  ASSUME NEW d \in Val, NEW e \in Val
  PROVE  /\ Larger(d, e) \in Val /\ AtLeast(Larger(d, e), d) /\ AtLeast(Larger(d, e), e)
         /\ \A s \in Slots : Larger(d, e)[s] = d[s] \/ Larger(d, e)[s] = e[s]
         /\ \A b \in Val : AtLeast(b, d) /\ AtLeast(b, e) => AtLeast(b, Larger(d, e))
BY DEF Larger, Val, AtLeast

(* What has returned grows, on page q, by the bytes that were written.     *)
Returns(q, d) ==
  /\ acked' \in [Pages -> Val] /\ acked'[q] = Larger(acked[q], d)
  /\ \A r \in Pages \ {q} : acked'[r] = acked[r]
LEMMA ReturnsSay ==
  ASSUME CacheInv, NEW q \in Pages, NEW d \in Val, Returns(q, d)
  PROVE  /\ AtLeast(acked'[q], d)
         /\ \A r \in Pages : AtLeast(acked'[r], acked[r]) /\ acked[r] \in Val /\ acked'[r] \in Val
         /\ \A b \in Val : AtLeast(b, acked[q]) /\ AtLeast(b, d) => AtLeast(b, acked'[q])
<1>1. acked \in [Pages -> Val]
  BY DEF CacheInv, TypesOK
<1>2. acked[q] \in Val /\ acked'[q] = Larger(acked[q], d)
  BY <1>1 DEF Returns
<1>3. AtLeast(acked'[q], d) /\ AtLeast(acked'[q], acked[q]) /\ \A b \in Val : AtLeast(b, acked[q]) /\ AtLeast(b, d) => AtLeast(b, acked'[q])
  BY <1>2, LargerSays
<1>4. \A r \in Pages : AtLeast(acked[r], acked[r])
  BY <1>1, AtLeastSelf
<1>5. \A r \in Pages : AtLeast(acked'[r], acked[r])
  BY <1>3, <1>4 DEF Returns
<1> QED BY <1>1, <1>3, <1>5 DEF Returns

Grows(q, m) == LET hi == Pos(q, m)
                   new == IF hi > 0 THEN hi + 1 ELSE 0
               IN size' = IF size < new THEN new ELSE size
LEMMA GrowsSays ==
  ASSUME CacheInv, NEW q \in Pages, NEW m \in Slots, Grows(q, m)
  PROVE  /\ size' \in Nat /\ size <= size' /\ 2 * q < size' /\ 2 * ChildPages <= size'
         /\ size' = size \/ size' <= Pos(q, m) + 1
<1>1. q \in Nat /\ m \in {0, 1} /\ size \in Nat /\ ChildPages \in Nat /\ ChildPages >= 1 /\ 2 * ChildPages <= size
  BY PagesHere, CacheAssumption DEF CacheInv, TypesOK, SizeOK, Slots
<1> QED BY <1>1 DEF Grows, Pos

LEMMA SizeReturns ==
  ASSUME CacheInv, NEW q \in Pages, NEW d \in Val, NEW m \in Slots, Returns(q, d), Grows(q, m), d[m] > 0,
         \A t \in Threads : SizeBy(th'[t])
  PROVE  SizeOK'
<1>1. /\ size \in Nat /\ size' \in Nat /\ size <= size' /\ 2 * q < size' /\ 2 * ChildPages <= size'
      /\ size' = size \/ size' <= Pos(q, m) + 1
  BY GrowsSays DEF CacheInv, TypesOK
<1>2. \A r \in Pages, s \in Slots : acked[r][s] \in Nat /\ acked'[r][s] \in Nat /\ acked'[r][s] >= acked[r][s]
  BY ReturnsSay DEF AtLeast, Val
<1>3. ASSUME NEW r \in Pages, NEW s \in Slots, acked'[r][s] > 0
      PROVE  2 * r < size'
  <2>1. CASE r = q
    BY <1>1, <2>1
  <2>2. CASE r # q
    <3>1. acked[r][s] > 0
      BY <1>3, <2>2 DEF Returns
    <3>2. 2 * r < size /\ r \in Nat
      BY <3>1, PagesHere DEF CacheInv, SizeOK
    <3> QED BY <1>1, <3>2
  <2> QED BY <2>1, <2>2
<1>4. size' <= 2 * ChildPages \/ \E r \in Pages, s \in Slots : acked'[r][s] > 0 /\ Pos(r, s) + 1 >= size'
  <2>1. CASE size' = size
    <3>1. CASE size <= 2 * ChildPages
      BY <2>1, <3>1
    <3>2. CASE \E r \in Pages, s \in Slots : acked[r][s] > 0 /\ Pos(r, s) + 1 >= size
      <4>1. PICK r \in Pages, s \in Slots : acked[r][s] > 0 /\ Pos(r, s) + 1 >= size
        BY <3>2
      <4>2. acked'[r][s] > 0
        <5>1. acked[r][s] \in Nat /\ acked'[r][s] \in Nat /\ acked'[r][s] >= acked[r][s]
          BY <1>2
        <5> QED BY <4>1, <5>1
      <4> QED BY <2>1, <4>1, <4>2
    <3> QED BY <3>1, <3>2 DEF CacheInv, SizeOK
  <2>2. CASE size' <= Pos(q, m) + 1
    <3>1. d[m] \in Nat /\ acked'[q][m] \in Nat /\ acked'[q][m] >= d[m]
      BY <1>2, ReturnsSay DEF AtLeast, Val
    <3>2. acked'[q][m] > 0
      BY <3>1
    <3>3. Pos(q, m) + 1 >= size'
      <4>1. Pos(q, m) \in Nat
        BY PagesHere DEF Pos, Slots
      <4> QED BY <1>1, <2>2, <4>1
    <3> QED BY <3>2, <3>3
  <2> QED BY <1>1, <2>1, <2>2
<1> QED BY <1>1, <1>3, <1>4 DEF SizeOK

LEMMA SizeByIdle == SizeBy(Idle) /\ ~Copied(Idle) /\ ~Ended(Idle) /\ ~Loading(Idle)
BY IdleType, Zenon DEF SizeBy, Copied, Ended, Loading

LEMMA VersionReturns ==
  ASSUME CacheInv, ThreadsOK(th'), NEW t \in Threads, Goes(th, t, Idle, th'), NEW q \in Pages, NEW d \in Val, Returns(q, d),
         AtLeast(latest[q], d), UNCHANGED <<latest, taint>>
  PROVE  VersionOK'
<1>0. th'[t] = Idle /\ \A u \in Threads \ {t} : th'[u] = th[u]
  BY GoesSays
<1>1. /\ \A r \in Pages : AtLeast(acked'[r], acked[r]) /\ acked[r] \in Val /\ acked'[r] \in Val
      /\ \A b \in Val : AtLeast(b, acked[q]) /\ AtLeast(b, d) => AtLeast(b, acked'[q])
  BY ReturnsSay
<1>2. \A r \in Pages : latest[r] \in Val /\ AtLeast(latest[r], acked[r])
  BY DEF CacheInv, TypesOK, VersionOK
<1>3. \A r \in Pages : AtLeast(latest[r], acked'[r])
  <2> TAKE r \in Pages
  <2>1. CASE r = q
    BY <1>1, <1>2, <2>1
  <2>2. CASE r # q
    BY <1>2, <2>2 DEF Returns
  <2> QED BY <2>1, <2>2
<1>4. ASSUME NEW u \in Threads PROVE VersionBy(th'[u], latest, acked', taint)
  <2>1. CASE u = t
    <3>1. th'[u] = Idle
      BY <1>0, <2>1
    <3>2. \A r \in Pages : AtLeast(acked'[r], Idle.need[r])
      BY <1>1, IdleType, AtLeastSelf, Zenon
    <3> QED BY <3>1, <3>2, SizeByIdle, IdleType, Zenon DEF VersionBy
  <2>2. CASE u # t
    <3>1. th'[u] = th[u]
      BY <2>2, GoesSays
    <3>2. VersionBy(th[u], latest, acked, taint)
      BY DEF CacheInv, VersionOK
    <3>3. \A r \in Pages : th[u].need[r] \in Val
      <4>1. th[u] \in ThreadType
        BY Here
      <4> QED BY <4>1, Zenon DEF ThreadType
    <3>4. \A r \in Pages : AtLeast(acked'[r], th[u].need[r])
      BY <1>1, <3>2, <3>3, AtLeastThen DEF VersionBy
    <3> QED BY <3>1, <3>2, <3>4 DEF VersionBy
  <2> QED BY <2>1, <2>2
<1> QED BY <1>3, <1>4 DEF VersionOK, CacheInv

LEMMA SettledReturns ==
  ASSUME CacheInv, NEW t \in Threads, Goes(th, t, Idle, th'), Ended(th[t]), NEW q \in Pages, q = th[t].page,
         NEW d \in Val, d = th[t].got, Returns(q, d), UNCHANGED <<c, child, taint>>
  PROVE  SettledOK'
<1>1. th'[t] = Idle /\ \A u \in Threads \ {t} : th'[u] = th[u]
  BY GoesSays
<1> SUFFICES ASSUME NEW r \in Pages \ taint, ~(c.pg[r].in /\ c.pg[r].dirty)
             PROVE  /\ AtLeast(child[r], acked'[r])
                    /\ \A u \in Threads : Ended(th'[u]) /\ th'[u].page = r => AtLeast(child[r], th'[u].got)
  BY DEF SettledOK
<1>2. /\ AtLeast(child[r], acked[r])
      /\ \A u \in Threads : Ended(th[u]) /\ th[u].page = r => AtLeast(child[r], th[u].got)
  BY DEF CacheInv, SettledOK
<1>3. AtLeast(child[r], acked'[r])
  <2>1. CASE r = q
    <3>1. child[r] \in Val
      BY DEF CacheInv, TypesOK
    <3>2. AtLeast(child[r], d)
      BY <1>2, <2>1
    <3> QED BY <1>2, <2>1, <3>1, <3>2, ReturnsSay
  <2>2. CASE r # q
    BY <1>2, <2>2 DEF Returns
  <2> QED BY <2>1, <2>2
<1> QED BY <1>1, <1>2, <1>3, SizeByIdle

LEMMA WriteEndInv ==
  ASSUME CacheInv, NEW t \in Threads, WriteEnd(t)
  PROVE  CacheInv'
<1> DEFINE g == th[t]
           q == g.page
           m == MaxByte(g.bytes)
<1>1. g \in ThreadType /\ ThreadOK(g) /\ q \in Pages /\ g.got \in Val /\ m \in Slots /\ ThreadsOK(th)
  BY Here, Zenon DEF ThreadType, Val, MaxByte, Slots
<1>2. /\ g.pc = "wend" /\ c' = c /\ th' = [th EXCEPT ![t] = Idle]
      /\ UNCHANGED <<fstack, child, childLast, childEnd, latest, taint>>
  BY DEF WriteEnd, At, Set, OthersSame, ChildSame
<1>3. Grows(q, m)
  BY DEF WriteEnd, Grows
<1>4. Returns(q, g.got)
  <2>1. acked \in [Pages -> Val] /\ acked[q] \in Val
    BY <1>1 DEF CacheInv, TypesOK
  <2>2. acked' = [acked EXCEPT ![q] = Larger(acked[q], g.got)]
    BY DEF WriteEnd, Larger
  <2>3. Larger(acked[q], g.got) \in Val
    BY <1>1, <2>1, LargerSays
  <2> HIDE DEF q, g
  <2> QED BY <1>1, <2>1, <2>2, <2>3 DEF Returns
<1>5. Ended(g) /\ Copied(g) /\ \A r \in Pages : Away(g, r) /\ Away(Idle, r)
  BY <1>1, <1>2, AwayFrom, IdleType, Zenon DEF Ended, Copied, FreePcs
<1>6. AtLeast(latest[q], g.got) /\ g.got[m] > 0
  BY <1>5 DEF CacheInv, VersionOK, VersionBy
<1> HIDE DEF q, m
<1>7. ThreadsOK(th') /\ Goes(th, t, Idle, th')
  BY <1>1, <1>2, IdleType, ThreadsMove, Zenon
<1>8. PagesMove
  <2>1. \A r \in Pages : /\ c'.pg[r] = c.pg[r] /\ Quiet(th[t], Idle, r)
                         /\ latest'[r] = latest[r] /\ child'[r] = child[r]
    BY <1>2, <1>5 DEF Quiet
  <2>2. taint \subseteq taint' /\ ThreadOK(Idle)
    BY <1>2, IdleType, Zenon
  <2> QED BY <1>7, <2>1, <2>2, NoMove
<1>9. TypesOK'
  <2>1. size' \in Nat
    BY <1>1, <1>3, GrowsSays
  <2>2. acked' \in [Pages -> Val]
    BY <1>4 DEF Returns
  <2> QED BY <1>2, <2>1, <2>2 DEF CacheInv, TypesOK
<1>10. \A u \in Threads : SizeBy(th'[u])
  <2>1. \A u \in Threads : SizeBy(th[u])
    BY DEF CacheInv, SizeOK
  <2> QED BY <1>7, <2>1, SizeByIdle, GoesSays
<1>11. SizeOK'
  BY <1>1, <1>3, <1>4, <1>6, <1>10, SizeReturns
<1>12. VersionOK'
  BY <1>1, <1>2, <1>4, <1>6, <1>7, VersionReturns
<1>13. SettledOK'
  BY <1>1, <1>2, <1>4, <1>5, <1>7, SettledReturns DEF q
<1>14. ChildOK'
  <2>1. ChildBy(Idle, childLast, taint')
    BY SizeByIdle, IdleType, Zenon DEF ChildBy
  <2>2. taint \subseteq taint'
    BY <1>2
  <2> QED BY <1>2, <1>7, <2>1, <2>2, ChildStep DEF CacheInv
<1>15. StackOK' /\ CopiesOK' /\ DebtOK'
  <2>1. g.pc \notin StackPcs /\ Idle.pc \notin StackPcs \cup {"fw2"} /\ ~(Idle.pc = "done" /\ Idle.op = "flush")
    BY <1>2, IdleType, Zenon DEF StackPcs
  <2>2. fstack \in Seq(FlushEntry) /\ taint \subseteq taint'
    BY <1>2 DEF CacheInv, TypesOK
  <2> QED BY <1>1, <1>2, <1>7, <1>8, <2>1, <2>2, FlushPlain DEF CacheInv
<1>16. PagesOK'
  BY <1>8, PagesMoveSays
<1> QED BY <1>7, <1>9, <1>11, <1>12, <1>13, <1>14, <1>15, <1>16 DEF CacheInv

-----------------------------------------------------------------------------
(* The steps of a flush.                                                   *)
LEMMA FlushCore ==
  ASSUME CacheInv, TypesOK', ThreadsOK(th'), PagesMove, UNCHANGED <<size, latest, acked>>, taint \subseteq taint',
         NEW t \in Threads, NEW f, Goes(th, t, f, th'),
         f.pc \in FlushPcs \/ (f.pc = "done" /\ f.op = "flush"),
         \A q \in Pages : AtLeast(acked[q], f.need[q]), SizeBy(f), ChildOK',
         \A q \in Pages : child'[q] = child[q] \/ (c.pg[q].in /\ c.pg[q].dirty),
         StackOK', CopiesOK', DebtOK'
  PROVE  CacheInv'
<1>1. ~Copied(f) /\ ~Ended(f) /\ ~(f.op = "read" /\ f.pc \in {"rrel", "done"})
  BY DEF Copied, Ended, FlushPcs, StackPcs
<1>2. VersionBy(f, latest, acked, taint')
  BY <1>1 DEF VersionBy
<1>3. VersionOK'
  BY <1>2, VersionStep DEF CacheInv
<1>4. SizeOK'
  BY SizeStep DEF CacheInv
<1>5. SettledOK'
  BY <1>1, <1>3, SettledStep DEF CacheInv
<1>6. PagesOK'
  BY PagesMoveSays
<1> QED BY <1>3, <1>4, <1>5, <1>6 DEF CacheInv

LEMMA EntryHere ==
  ASSUME CacheInv, NEW n \in 1 .. Len(fstack)
  PROVE  fstack[n] \in FlushEntry /\ fstack[n].t \in Threads /\ fstack[n].lo \in Int /\ fstack[n].hi \in Int
<1>1. fstack \in Seq(FlushEntry)
  BY DEF CacheInv, TypesOK
<1>2. fstack[n] \in FlushEntry
  BY <1>1
<1> QED BY <1>2 DEF FlushEntry

(* What a flush keeps until it ends.                                       *)
FlushKin(g, f) ==
  /\ Kin(g, f) /\ FKin(g, f) /\ f.old = g.old /\ f.hi = g.hi
  /\ g.pc \in StackPcs /\ f.pc \in StackPcs
LEMMA StackStep ==
  ASSUME CacheInv, UNCHANGED fstack, NEW t \in Threads, NEW f, Goes(th, t, f, th'), FlushKin(th[t], f),
         \A e \in FlushEntry : StackBy(e, th[t]) => StackBy(e, f)
  PROVE  StackOK'
<1>1. th'[t] = f /\ \A u \in Threads \ {t} : th'[u] = th[u]
  BY GoesSays
<1>2. \A n \in 1 .. Len(fstack) : fstack[n] \in FlushEntry /\ fstack[n].t \in Threads
  BY EntryHere
<1>3. \A n \in 1 .. Len(fstack) : StackBy(fstack[n], th'[fstack[n].t])
  BY <1>1, <1>2 DEF CacheInv, StackOK
<1>4. \A u \in Threads : th'[u].pc \in StackPcs => \E n \in 1 .. Len(fstack) : fstack[n].t = u
  BY <1>1 DEF CacheInv, StackOK, FlushKin
<1> QED BY <1>3, <1>4 DEF CacheInv, StackOK

(* A flush takes only current copies.                                      *)
LEMMA NeedsLatest ==
  ASSUME CacheInv, NEW v \in Threads, NEW q \in Pages
  PROVE  AtLeast(latest[q], th[v].need[q]) /\ AtLeast(acked[q], th[v].need[q]) /\ th[v].need[q] \in Val
<1>1. th[v] \in ThreadType /\ latest[q] \in Val /\ acked[q] \in Val
  BY Here
<1>2. th[v].need[q] \in Val
  BY <1>1, Zenon DEF ThreadType
<1>3. AtLeast(latest[q], acked[q]) /\ AtLeast(acked[q], th[v].need[q])
  BY DEF CacheInv, VersionOK, VersionBy
<1> QED BY <1>1, <1>2, <1>3, AtLeastThen
TakesNew(g, f, k, new, bad) ==
  \A q \in Pages \ bad, i \in {0, 1} : <<q, i>> \in f.held => <<q, i>> \in g.held \/ k.pg[q].data[i] = new[q]
LEMMA CopiesStep ==
  ASSUME CacheInv, PagesMove, taint \subseteq taint', UNCHANGED latest,
         NEW t \in Threads, NEW f, Goes(th, t, f, th'), FlushKin(th[t], f),
         TakesNew(th[t], f, c', latest, taint')
  PROVE  CopiesOK'
<1>1. th'[t] = f /\ \A u \in Threads \ {t} : th'[u] = th[u]
  BY GoesSays
<1> SUFFICES ASSUME NEW v \in Threads, NEW u \in Threads, InFlush(th'[v]), th'[v].op = "flush",
                    NEW q \in Pages \ (taint' \cup th'[v].old), NEW i \in {0, 1}, <<q, i>> \in th'[u].held
             PROVE  AtLeast(c'.pg[q].data[i], th'[v].need[q])
  BY DEF CopiesOK
<1>2. InFlush(th[v]) /\ th[v].op = "flush" /\ th'[v].need = th[v].need /\ th'[v].old = th[v].old
  BY <1>1 DEF FlushKin, Kin, InFlush
<1>3. CASE <<q, i>> \in th[u].held
  <2>1. AtLeast(c.pg[q].data[i], th[v].need[q])
    BY <1>2, <1>3 DEF CacheInv, CopiesOK
  <2>2. c'.pg[q].data[i] = c.pg[q].data[i]
    BY DEF PagesMove, StepOK, PTidy
  <2> QED BY <1>2, <2>1, <2>2
<1>4. CASE <<q, i>> \notin th[u].held
  <2>1. c'.pg[q].data[i] = latest[q]
    BY <1>1, <1>4 DEF TakesNew
  <2> QED BY <1>2, <2>1, NeedsLatest
<1> QED BY <1>3, <1>4

(* The other flushes' debts: what was served is served, or has come.       *)
LEMMA DebtOther ==
  ASSUME CacheInv, taint \subseteq taint', NEW t \in Threads, NEW f, Goes(th, t, f, th'),
         childLast \in Int, childLast' \in Int, childLast <= childLast',
         \A q \in Pages \ taint' : Serves(th[t], q) => Serves(f, q) \/ q <= childLast',
         \A v \in Threads \ {t}, q \in Pages \ taint' :
           InFlush(th[v]) /\ th[v].op = "flush" /\ q \notin th[v].old =>
             /\ Serves(th[t], q) => Serves(f, q) \/ AtLeast(child'[q], th[v].need[q])
             /\ AtLeast(child[q], th[v].need[q]) => AtLeast(child'[q], th[v].need[q]),
         NEW v \in Threads \ {t}, InFlush(th'[v]), NEW q \in Pages \ taint'
  PROVE  Owes(th', v, q, child', childLast')
<1>1. th'[t] = f /\ \A u \in Threads \ {t} : th'[u] = th[u]
  BY GoesSays
<1>2. th'[v] = th[v] /\ InFlush(th[v]) /\ q \in Pages \ taint
  BY <1>1
<1>3. Owes(th, v, q, child, childLast)
  BY <1>2 DEF CacheInv, DebtOK
<1>4. Open(th, v, q) => Open(th', v, q) \/ (Serves(th[t], q) /\ ~Serves(f, q))
  <2>1. \A u \in Threads : Serves(th[u], q) => Serves(th'[u], q) \/ (Serves(th[t], q) /\ ~Serves(f, q))
    BY <1>1
  <2> QED BY <1>2, <2>1 DEF Open
<1>5. th[v].op = "flush" /\ q \notin th[v].old => AtLeast(child'[q], th[v].need[q]) \/ Open(th', v, q)
  BY <1>2, <1>3, <1>4 DEF Owes
<1>6. th[v].pc # "done" /\ th[v].ret = "load" /\ (\E s \in Slots : th[v].need[q][s] > 0) => q <= childLast' \/ Open(th', v, q)
  <2>1. q \in Int
    BY PagesHere
  <2>2. q <= childLast => q <= childLast'
    BY <2>1
  <2> QED BY <1>2, <1>3, <1>4, <2>2 DEF Owes
<1> QED BY <1>2, <1>5, <1>6 DEF Owes

-----------------------------------------------------------------------------
(* A flush puts itself on the stack.                                       *)
Scans(g, f, hi) == f = [g EXCEPT !.pc = "fscan", !.block = FALSE, !.hi = hi]
Requires(g, f, n, o) == f = [g EXCEPT !.need = n, !.old = o]
LEMMA ScansThread ==
  ASSUME NEW g \in ThreadType, ThreadOK(g), g.pc = "fstart", NEW hi \in Int, NEW f, Scans(g, f, hi)
  PROVE  /\ f \in ThreadType /\ ThreadOK(f) /\ Kin(g, f) /\ FKin(g, f) /\ f.pc = "fscan" /\ f.held = {} /\ g.held = {}
         /\ f.lo = g.lo /\ f.hi = hi /\ f.ret = g.ret /\ f.old = g.old /\ f.wrote = g.wrote
<1>1. "fscan" \in PcNames
  BY DEF PcNames, FlushPcs, StackPcs
<1>2. f \in ThreadType
  BY <1>1, Zenon DEF Scans, ThreadType
<1>3. /\ Kin(g, f) /\ f.pc = "fscan" /\ f.slot = g.slot /\ f.held = g.held
      /\ f.lo = g.lo /\ f.hi = hi /\ f.ret = g.ret /\ f.old = g.old /\ f.wrote = g.wrote
  BY Zenon DEF Scans, ThreadType, Kin
<1>4. FKin(g, f) /\ g.held = {}
  BY <1>3, Zenon DEF FKin, FlushPcs, StackPcs, Kin, ThreadOK
<1>5. ThreadOK(f)
  BY <1>3, <1>4, Zenon DEF ThreadOK, Kin, ReadPcs, WritePcs, ForcePcs, FlushPcs, StackPcs
<1> QED BY <1>2, <1>3, <1>4, <1>5
LEMMA RequiresThread ==
  ASSUME NEW g \in ThreadType, ThreadOK(g), NEW n \in [Pages -> Val], NEW o \in SUBSET Pages, NEW f, Requires(g, f, n, o)
  PROVE  /\ f \in ThreadType /\ ThreadOK(f) /\ f.pc = g.pc /\ f.op = g.op /\ f.page = g.page /\ f.held = g.held /\ f.slot = g.slot
         /\ f.lo = g.lo /\ f.hi = g.hi /\ f.ret = g.ret /\ f.need = n /\ f.old = o /\ f.wrote = g.wrote
<1>1. f \in ThreadType
  BY Zenon DEF Requires, ThreadType
<1>2. /\ f.pc = g.pc /\ f.op = g.op /\ f.page = g.page /\ f.held = g.held /\ f.slot = g.slot /\ f.bytes = g.bytes
      /\ f.lo = g.lo /\ f.hi = g.hi /\ f.ret = g.ret /\ f.need = n /\ f.old = o /\ f.wrote = g.wrote
  BY Zenon DEF Requires, ThreadType
<1>3. ThreadOK(f)
  BY <1>2, Zenon DEF ThreadOK
<1> QED BY <1>1, <1>2, <1>3

(* The thread of a flush on the stack, in terms of the one before.         *)
Pushed(g, f, hi) ==
  /\ f \in ThreadType /\ ThreadOK(f) /\ FKin(g, f) /\ f.pc = "fscan" /\ f.held = {} /\ g.held = {} /\ g.pc = "fstart"
  /\ f.lo = g.lo /\ f.hi = hi /\ f.wrote = g.wrote
LEMMA PushMoves ==
  ASSUME CacheInv, NEW t \in Threads, NEW f, NEW hi, Pushed(th[t], f, hi), th' = [th EXCEPT ![t] = f],
         UNCHANGED <<c, latest, child, taint>>
  PROVE  PagesMove /\ ThreadsOK(th') /\ Goes(th, t, f, th')
<1>1. ThreadsOK(th)
  BY Here
<1>2. ThreadsOK(th') /\ Goes(th, t, f, th')
  BY <1>1, ThreadsMove DEF Pushed
<1>3. \A r \in Pages : Quiet(th[t], f, r)
  <2> TAKE r \in Pages
  <2>1. FKin(th[t], f) /\ (f.pc = "dwait" /\ f.lo = r <=> th[t].pc = "dwait" /\ th[t].lo = r)
        /\ (r \in f.wrote => r \in th[t].wrote)
    BY DEF Pushed
  <2>2. \A i \in {0, 1} : <<r, i>> \in f.held <=> <<r, i>> \in th[t].held
    BY DEF Pushed
  <2> QED BY <2>1, <2>2, FKinSame
<1>4. PagesMove
  <2>1. \A r \in Pages : /\ c'.pg[r] = c.pg[r] /\ Quiet(th[t], f, r)
                         /\ latest'[r] = latest[r] /\ child'[r] = child[r]
    BY <1>3
  <2>2. ThreadOK(f) /\ taint \subseteq taint'
    BY DEF Pushed
  <2> QED BY <1>2, <2>1, <2>2, NoMove
<1> QED BY <1>2, <1>4

LEMMA PushStack ==
  ASSUME CacheInv, NEW t \in Threads, th[t].pc = "fstart", NEW f, Goes(th, t, f, th'), NEW e \in FlushEntry, e.t = t, StackBy(e, f),
         fstack' = Append(fstack, e)
  PROVE  StackOK' /\ fstack' \in Seq(FlushEntry)
<1>1. th'[t] = f /\ \A u \in Threads \ {t} : th'[u] = th[u]
  BY GoesSays
<1>2. fstack \in Seq(FlushEntry)
  BY DEF CacheInv, TypesOK
<1> DEFINE n == Len(fstack)
<1>3. /\ n \in Nat /\ Len(fstack') = n + 1 /\ fstack'[n + 1] = e /\ \A m \in 1 .. n : fstack'[m] = fstack[m]
      /\ fstack' \in Seq(FlushEntry)
  BY <1>2
<1> HIDE DEF n
<1>4. \A m \in 1 .. n : fstack[m].t \in Threads /\ fstack[m].t # t /\ StackBy(fstack[m], th[fstack[m].t])
  <2> TAKE m \in 1 .. n
  <2>1. fstack[m].t \in Threads
    BY EntryHere DEF n
  <2>2. StackBy(fstack[m], th[fstack[m].t])
    BY DEF CacheInv, StackOK, n
  <2> QED BY <2>1, <2>2 DEF StackBy, StackPcs
<1>5. \A m \in 1 .. n + 1 : m \in 1 .. n \/ m = n + 1
  BY <1>3
<1>6. \A m \in 1 .. Len(fstack') : StackBy(fstack'[m], th'[fstack'[m].t])
  <2> TAKE m \in 1 .. Len(fstack')
  <2>1. CASE m \in 1 .. n
    BY <1>1, <1>3, <1>4, <2>1
  <2>2. CASE m = n + 1
    BY <1>1, <1>3, <2>2
  <2> QED BY <1>3, <1>5, <2>1, <2>2
<1>7. \A m, l \in 1 .. Len(fstack') : fstack'[m].t = fstack'[l].t => m = l
  <2>1. \A m, l \in 1 .. n : fstack[m].t = fstack[l].t => m = l
    BY DEF CacheInv, StackOK, n
  <2> QED BY <1>3, <1>4, <1>5, <2>1
<1>8. \A u \in Threads : th'[u].pc \in StackPcs => \E m \in 1 .. Len(fstack') : fstack'[m].t = u
  <2> SUFFICES ASSUME NEW u \in Threads, th'[u].pc \in StackPcs
               PROVE  \E m \in 1 .. Len(fstack') : fstack'[m].t = u
    OBVIOUS
  <2>1. CASE u = t
    <3>1. n + 1 \in 1 .. Len(fstack') /\ fstack'[n + 1].t = t
      BY <1>3
    <3> QED BY <2>1, <3>1
  <2>2. CASE u # t
    <3>1. PICK m \in 1 .. n : fstack[m].t = u
      BY <1>1, <2>2 DEF CacheInv, StackOK, n
    <3>2. m \in 1 .. Len(fstack') /\ fstack'[m].t = u
      BY <1>3, <3>1
    <3> QED BY <3>2
  <2> QED BY <2>1, <2>2
<1> QED BY <1>3, <1>6, <1>7, <1>8 DEF StackOK

(* What a flush needs lies in its range.                                   *)
InRange(f, lo, hi) == \A q \in Pages, s \in Slots : f.need[q][s] > 0 => lo <= q /\ q <= hi
LEMMA WholeRange ==
  ASSUME CacheInv, NEW n \in [Pages -> Val], \A q \in Pages : AtLeast(acked[q], n[q]), NEW q \in Pages, NEW s \in Slots, n[q][s] > 0
  PROVE  0 <= q /\ q <= (size - 1) \div 2
<1>1. n[q] \in Val /\ acked[q] \in Val /\ AtLeast(acked[q], n[q]) /\ q \in Nat /\ size \in Nat
  BY PagesHere DEF CacheInv, TypesOK
<1>2. acked[q][s] > 0
  <2>1. n[q][s] \in Nat /\ acked[q][s] \in Nat /\ acked[q][s] >= n[q][s]
    BY <1>1 DEF Val, AtLeast
  <2> QED BY <2>1
<1>3. 2 * q < size
  BY <1>2 DEF CacheInv, SizeOK
<1>4. 2 * q <= size - 1 /\ size - 1 \in Nat
  BY <1>1, <1>3
<1>5. (size - 1) \div 2 \in Nat /\ 2 * ((size - 1) \div 2) + 1 >= size - 1
  BY <1>4
<1> QED BY <1>1, <1>4, <1>5

(* A page's copy that is held and is not outdated is the newest.           *)
LEMMA HeldCurrent ==
  ASSUME CacheInv, NEW q \in Pages \ taint, NEW u \in Threads, NEW i \in {0, 1}, <<q, i>> \in th[u].held
  PROVE  /\ c.pg[q].in /\ ~c.pg[q].empty /\ c.pg[q].dirty /\ c.pg[q].data[i] # NULL
         /\ i = c.pg[q].cur => c.pg[q].data[i] = latest[q]
         /\ q \in th[u].wrote => child[q] = c.pg[q].data[i]
<1>1. PageInv(c.pg[q], q, th, latest[q], child[q], taint)
  BY Here
<1>2. OwnBy(th[u], c.pg[q], q)
  BY <1>1 DEF PageInv, POwn
<1>3. c.pg[q].in /\ ~c.pg[q].empty /\ c.pg[q].dirty
  BY <1>2 DEF OwnBy
<1>4. DataBy(th[u], c.pg[q], q, latest[q], child[q])
  BY <1>1 DEF PageInv, PData
<1>5. c.pg[q].data[i] # NULL /\ (q \in th[u].wrote => child[q] = c.pg[q].data[i])
  BY <1>4 DEF DataBy
<1>6. c.pg[q].data[c.pg[q].cur] = latest[q]
  BY <1>1, <1>3 DEF PageInv, PData
<1> QED BY <1>3, <1>5, <1>6

LEMMA HeldLatest ==
  CacheInv => \A q \in Pages \ taint, u \in Threads, i \in {0, 1} :
                <<q, i>> \in th[u].held /\ i = c.pg[q].cur => c.pg[q].data[i] = latest[q]
<1> SUFFICES ASSUME CacheInv, NEW q \in Pages \ taint, NEW u \in Threads, NEW i \in {0, 1},
                    <<q, i>> \in th[u].held, i = c.pg[q].cur
             PROVE  c.pg[q].data[i] = latest[q]
  OBVIOUS
<1>1. PageInv(c.pg[q], q, th, latest[q], child[q], taint)
  BY Here
<1>2. c.pg[q].in /\ ~c.pg[q].empty
  BY <1>1 DEF PageInv, POwn, OwnBy
<1> QED BY <1>1, <1>2 DEF PageInv, PData

LEMMA PushCopies ==
  ASSUME CacheInv, NEW t \in Threads, th[t].pc = "fstart", NEW f, Goes(th, t, f, th'), f.held = {}, th[t].held = {},
         f.op = "flush" => f.old = InFlightOld, \A q \in Pages : AtLeast(acked[q], f.need[q]), f \in ThreadType,
         UNCHANGED <<c, taint>>
  PROVE  CopiesOK'
<1>1. th'[t] = f /\ \A u \in Threads \ {t} : th'[u] = th[u]
  BY GoesSays
<1> SUFFICES ASSUME NEW v \in Threads, NEW u \in Threads, InFlush(th'[v]), th'[v].op = "flush",
                    NEW q \in Pages \ (taint \cup th'[v].old), NEW i \in {0, 1}, <<q, i>> \in th'[u].held
             PROVE  AtLeast(c.pg[q].data[i], th'[v].need[q])
  BY DEF CopiesOK
<1>2. <<q, i>> \in th[u].held
  BY <1>1
<1>3. CASE v # t
  BY <1>1, <1>2, <1>3 DEF CacheInv, CopiesOK
<1>4. CASE v = t
  <2>1. q \notin InFlightOld
    BY <1>1, <1>4
  <2>2. i = c.pg[q].cur
    BY <1>2, <2>1 DEF InFlightOld
  <2>3. c.pg[q].data[i] = latest[q]
    <3>1. q \in Pages \ taint
      OBVIOUS
    <3> QED BY <1>2, <2>2, <3>1, HeldLatest
  <2>4. AtLeast(latest[q], acked[q]) /\ latest[q] \in Val /\ acked[q] \in Val
    BY DEF CacheInv, VersionOK, TypesOK
  <2>5. f.need[q] \in Val /\ AtLeast(acked[q], f.need[q])
    BY Zenon DEF ThreadType
  <2>6. AtLeast(latest[q], f.need[q])
    BY <2>4, <2>5, AtLeastThen
  <2> QED BY <1>1, <1>4, <2>3, <2>6
<1> QED BY <1>3, <1>4

LEMMA NoServe ==
  ASSUME NEW g, ThreadOK(g), g.pc \notin {"dwait", "fio"}
  PROVE  g.held = {} /\ \A q : ~Serves(g, q)
BY Zenon DEF ThreadOK, Serves
LEMMA NoNeedMet ==
  ASSUME NEW d \in Val, NEW e \in Val, ~\E s \in Slots : e[s] > 0
  PROVE  AtLeast(d, e)
BY DEF Val, AtLeast
LEMMA PushDebt ==
  ASSUME CacheInv, NEW t \in Threads, th[t].pc = "fstart", NEW f \in ThreadType, ThreadOK(f), Goes(th, t, f, th'), f.pc = "fscan",
         f.op = "flush" \/ f.ret = "load" => InRange(f, f.lo, f.hi), UNCHANGED <<child, childLast, taint>>
  PROVE  DebtOK'
<1>1. th'[t] = f /\ \A u \in Threads \ {t} : th'[u] = th[u]
  BY GoesSays
<1>2. \A q : ~Serves(th[t], q) /\ ~Serves(f, q)
  BY Here, NoServe
<1> SUFFICES ASSUME NEW v \in Threads, InFlush(th'[v]), NEW q \in Pages \ taint'
             PROVE  Owes(th', v, q, child', childLast')
  BY DEF DebtOK
<1>3. CASE v = t
  <2>1. CASE \E s \in Slots : f.need[q][s] > 0
    <3>1. f.op = "flush" \/ f.ret = "load" => f.lo <= q
      BY <2>1 DEF InRange
    <3>2. f.op = "flush" \/ f.ret = "load" => Open(th', t, q)
      BY <1>1, <3>1 DEF Open
    <3> QED BY <1>1, <1>3, <3>2 DEF Owes
  <2>2. CASE ~\E s \in Slots : f.need[q][s] > 0
    <3>1. f.need[q] \in Val /\ child[q] \in Val
      BY Zenon DEF ThreadType, CacheInv, TypesOK
    <3>2. AtLeast(child[q], f.need[q])
      BY <2>2, <3>1, NoNeedMet
    <3> QED BY <1>1, <1>3, <2>2, <3>2 DEF Owes
  <2> QED BY <2>1, <2>2
<1>4. CASE v # t
  <2>1. childLast \in Int /\ childLast' \in Int /\ childLast <= childLast' /\ taint \subseteq taint'
    BY DEF CacheInv, TypesOK
  <2>2. v \in Threads \ {t}
    BY <1>4
  <2> QED BY <1>2, <2>1, <2>2, DebtOther
<1> QED BY <1>3, <1>4

(* What a flush sets out to bring to the child.                            *)
Sought(g, hi) == [q \in Pages |-> IF g.hi = -1 \/ q \in g.lo .. hi THEN acked[q] ELSE Zero]
LEMMA SoughtSays ==
  ASSUME CacheInv, NEW g \in ThreadType, ThreadOK(g), g.pc = "fstart",
         NEW hi, hi = (IF g.hi = -1 THEN (size - 1) \div 2 ELSE g.hi),
         NEW n, n = (IF g.op = "flush" THEN Sought(g, hi) ELSE g.need), \A q \in Pages : AtLeast(acked[q], g.need[q])
  PROVE  /\ hi \in Int /\ n \in [Pages -> Val] /\ \A q \in Pages : AtLeast(acked[q], n[q])
         /\ g.op = "flush" \/ g.ret = "load" => \A q \in Pages, s \in Slots : n[q][s] > 0 => g.lo <= q /\ q <= hi
<1>1. acked \in [Pages -> Val] /\ Zero \in Val /\ size \in Nat /\ g.lo \in Int /\ g.hi \in Int /\ g.need \in [Pages -> Val]
  BY Zenon DEF CacheInv, TypesOK, Zero, Val, ThreadType
<1>2. hi \in Int
  BY <1>1
<1>3. Sought(g, hi) \in [Pages -> Val]
  BY <1>1 DEF Sought
<1>4. \A q \in Pages : AtLeast(acked[q], acked[q]) /\ AtLeast(acked[q], Zero)
  BY <1>1, AtLeastSelf
<1>5. n \in [Pages -> Val] /\ \A q \in Pages : AtLeast(acked[q], n[q])
  <2>1. CASE g.op = "flush"
    <3>1. \A q \in Pages : AtLeast(acked[q], Sought(g, hi)[q])
      BY <1>4 DEF Sought
    <3> QED BY <1>3, <2>1, <3>1
  <2>2. CASE g.op # "flush"
    BY <1>1, <2>2
  <2> QED BY <2>1, <2>2
<1>6. ASSUME g.op = "flush" \/ g.ret = "load", NEW q \in Pages, NEW s \in Slots, n[q][s] > 0
      PROVE  g.lo <= q /\ q <= hi
  <2>1. CASE g.hi = -1
    <3>1. g.lo = 0 /\ hi = (size - 1) \div 2
      BY <2>1, Zenon DEF ThreadOK
    <3>2. 0 <= q /\ q <= (size - 1) \div 2
      BY <1>5, <1>6, WholeRange
    <3> QED BY <3>1, <3>2
  <2>2. CASE g.hi # -1
    <3>1. g.op = "flush"
      BY <1>6, <2>2, Zenon DEF ThreadOK
    <3>2. n[q] = IF q \in g.lo .. hi THEN acked[q] ELSE Zero
      BY <2>2, <3>1 DEF Sought
    <3>3. q \in g.lo .. hi
      <4>1. Zero[s] = 0
        BY DEF Zero
      <4> QED BY <1>6, <3>2, <4>1
    <3> QED BY <1>1, <1>2, <3>3
  <2> QED BY <2>1, <2>2
<1> QED BY <1>2, <1>5, <1>6

LEMMA FlushPushInv ==
  ASSUME CacheInv, NEW t \in Threads, FlushPush(t)
  PROVE  CacheInv'
<1> DEFINE g == th[t]
           hi == IF g.hi = -1 THEN (size - 1) \div 2 ELSE g.hi
           n == IF g.op = "flush" THEN Sought(g, hi) ELSE g.need
           o == IF g.op = "flush" THEN InFlightOld ELSE g.old
           f1 == [g EXCEPT !.pc = "fscan", !.block = FALSE, !.hi = hi]
           f == [f1 EXCEPT !.need = n, !.old = o]
           e == [t |-> t, lo |-> g.lo, hi |-> hi]
<1>1. g \in ThreadType /\ ThreadOK(g) /\ ThreadsOK(th)
  BY Here
<1>2. /\ g.pc = "fstart" /\ fstack' = Append(fstack, e)
      /\ UNCHANGED <<c, child, childLast, childEnd, taint, latest, acked, size>>
  BY DEF FlushPush, At, ChildSame
<1>3. th' = [th EXCEPT ![t] = f]
  BY <1>1, Zenon DEF FlushPush, Set, Sought, ThreadType
<1>4. \A q \in Pages : AtLeast(acked[q], g.need[q])
  BY NeedsLatest
<1>5. hi = (IF g.hi = -1 THEN (size - 1) \div 2 ELSE g.hi) /\ n = (IF g.op = "flush" THEN Sought(g, hi) ELSE g.need)
  OBVIOUS
<1>6. o \in SUBSET Pages
  BY <1>1, Zenon DEF InFlightOld, ThreadType
<1>7. g.op = "flush" => o = InFlightOld
  OBVIOUS
<1>8. Scans(g, f1, hi) /\ Requires(f1, f, n, o)
  BY DEF Scans, Requires
<1>9. e.t = t /\ e.lo = g.lo /\ e.hi = hi /\ (hi \in Int => e \in FlushEntry)
  BY <1>1, Zenon DEF FlushEntry, ThreadType
<1> HIDE DEF n, o, f1, f, e, hi
<1>10. /\ hi \in Int /\ n \in [Pages -> Val] /\ (\A q \in Pages : AtLeast(acked[q], n[q]))
       /\ g.op = "flush" \/ g.ret = "load" => \A q \in Pages, s \in Slots : n[q][s] > 0 => g.lo <= q /\ q <= hi
  <2> HIDE DEF g
  <2> QED BY <1>1, <1>2, <1>4, <1>5, SoughtSays DEF g
<1>11. /\ f1 \in ThreadType /\ ThreadOK(f1) /\ Kin(g, f1) /\ FKin(g, f1) /\ f1.pc = "fscan" /\ f1.held = {} /\ g.held = {}
       /\ f1.lo = g.lo /\ f1.hi = hi /\ f1.ret = g.ret /\ f1.old = g.old /\ f1.wrote = g.wrote
  BY <1>1, <1>2, <1>8, <1>10, ScansThread
<1>12. /\ f \in ThreadType /\ ThreadOK(f) /\ f.pc = f1.pc /\ f.op = f1.op /\ f.page = f1.page /\ f.held = f1.held /\ f.slot = f1.slot
       /\ f.lo = f1.lo /\ f.hi = f1.hi /\ f.ret = f1.ret /\ f.need = n /\ f.old = o /\ f.wrote = f1.wrote
  BY <1>6, <1>8, <1>10, <1>11, RequiresThread
<1>13. Pushed(g, f, hi) /\ f.op = g.op /\ f.ret = g.ret
  BY <1>2, <1>11, <1>12 DEF Pushed, FKin, Kin
<1>14. PagesMove /\ ThreadsOK(th') /\ Goes(th, t, f, th')
  BY <1>2, <1>3, <1>13, PushMoves
<1>15. f.op = "flush" \/ f.ret = "load" => InRange(f, f.lo, f.hi)
  BY <1>10, <1>11, <1>12, <1>13 DEF InRange
<1>16. StackBy(e, f)
  <2>1. e.lo <= f.lo
    <3>1. g.lo \in Int
      BY <1>1, Zenon DEF ThreadType
    <3>2. e.lo = g.lo /\ f.lo = g.lo
      BY <1>9, <1>11, <1>12
    <3> HIDE DEF g
    <3> QED BY <3>1, <3>2
  <2> QED BY <1>9, <1>11, <1>12, <1>15, <2>1 DEF StackBy, InRange, StackPcs
<1>17. StackOK' /\ fstack' \in Seq(FlushEntry)
  BY <1>2, <1>9, <1>10, <1>14, <1>16, PushStack
<1>18. \A q \in Pages : AtLeast(acked[q], f.need[q])
  BY <1>10, <1>12
<1>19. CopiesOK'
  BY <1>2, <1>7, <1>11, <1>12, <1>13, <1>14, <1>18, PushCopies
<1>20. DebtOK'
  BY <1>2, <1>11, <1>12, <1>14, <1>15, PushDebt
<1>21. TypesOK'
  BY <1>2, <1>17 DEF CacheInv, TypesOK
<1>22. ChildOK'
  <2>1. ChildBy(f, childLast, taint')
    BY <1>11, <1>12 DEF ChildBy, Loading
  <2>2. taint \subseteq taint'
    BY <1>2
  <2> QED BY <1>2, <1>14, <2>1, <2>2, ChildStep DEF CacheInv
<1>23. SizeBy(f)
  <2>1. SizeBy(g)
    BY DEF CacheInv, SizeOK
  <2>2. g.op = "read" => f.need = g.need
    BY <1>5, <1>12
  <2>3. f.page = g.page
    BY <1>11, <1>12 DEF Kin
  <2> QED BY <1>13, <2>1, <2>2, <2>3 DEF SizeBy
<1>24. f.pc \in FlushPcs /\ taint \subseteq taint' /\ \A q \in Pages : child'[q] = child[q]
  BY <1>2, <1>11, <1>12 DEF FlushPcs, StackPcs
<1> QED BY <1>2, <1>14, <1>17, <1>18, <1>19, <1>20, <1>21, <1>22, <1>23, <1>24, FlushCore

-----------------------------------------------------------------------------
(* A flush scans for dirty pages.                                          *)
(* The pages that a scan takes, waits for or leaves for later.             *)
Due(t, q) ==
  /\ c.pg[q].in /\ c.pg[q].dirty
  /\ c.pg[q].fl = 0 \/ (th[t].pc = "dwait" /\ th[t].lo = q)
Served(t, q) == \E u \in Threads \ {t} : Serves(th[u], q)
(* What a scan passes by is in the child or is being flushed by another.   *)
LEMMA Swept ==
  ASSUME CacheInv, NEW t \in Threads, th[t].pc \in {"fscan", "dwait"}, NEW q \in Pages \ taint, ~Due(t, q)
  PROVE  /\ th[t].op = "flush" /\ q \notin th[t].old => AtLeast(child[q], th[t].need[q]) \/ Served(t, q)
         /\ (\E s \in Slots : th[t].need[q][s] > 0) => q <= childLast \/ Served(t, q)
<1>1. AtLeast(acked[q], th[t].need[q]) /\ th[t].need[q] \in Val /\ acked[q] \in Val /\ child[q] \in Val
  BY NeedsLatest, Here
<1>2. CASE ~(c.pg[q].in /\ c.pg[q].dirty)
  <2>1. AtLeast(child[q], acked[q])
    BY <1>2 DEF CacheInv, SettledOK
  <2>2. AtLeast(child[q], th[t].need[q])
    BY <1>1, <2>1, AtLeastThen
  <2>3. ASSUME NEW s \in Slots, th[t].need[q][s] > 0 PROVE q <= childLast
    <3>1. child[q][s] > 0
      <4>1. child[q][s] \in Nat /\ th[t].need[q][s] \in Nat /\ child[q][s] >= th[t].need[q][s]
        BY <1>1, <2>2 DEF Val, AtLeast
      <4> QED BY <2>3, <4>1
    <3>2. child[q] # Zero
      BY <3>1 DEF Zero
    <3>3. childEnd <= childLast /\ childEnd \in Int /\ childLast \in Int /\ q \in Int /\ ~(q > childEnd)
      BY <3>2, PagesHere DEF CacheInv, TypesOK, ChildOK
    <3> QED BY <3>3
  <2> QED BY <2>2, <2>3
<1>3. CASE c.pg[q].in /\ c.pg[q].dirty
  <2>1. c.pg[q].fl # 0 /\ ~(th[t].pc = "dwait" /\ th[t].lo = q)
    BY <1>3 DEF Due
  <2>2. PageInv(c.pg[q], q, th, latest[q], child[q], taint)
    BY Here
  <2>3. PICK u \in Threads : Fl(th[u], q)
    BY <2>1, <2>2, Holders DEF PageInv
  <2>4. u # t
    <3>1. th[t].held = {}
      <4>1. ThreadOK(th[t])
        BY Here
      <4> QED BY <4>1, Zenon DEF ThreadOK
    <3> QED BY <2>1, <2>3, <3>1 DEF Fl
  <2>5. CASE Serves(th[u], q)
    BY <2>4, <2>5 DEF Served
  <2>6. CASE ~Serves(th[u], q)
    <3>1. PICK i \in {0, 1} : <<q, i>> \in th[u].held
      BY <2>3, <2>6 DEF Fl, Serves
    <3>2. q \in th[u].wrote
      BY <2>6, <3>1 DEF Serves
    <3>3. child[q] = c.pg[q].data[i]
      BY <3>1, <3>2, HeldCurrent
    <3>4. InFlush(th[t])
      BY DEF InFlush, StackPcs
    <3>5. th[t].op = "flush" /\ q \notin th[t].old => AtLeast(c.pg[q].data[i], th[t].need[q])
      BY <3>1, <3>4 DEF CacheInv, CopiesOK
    <3>6. q <= childLast
      BY <3>1, <3>2 DEF CacheInv, ChildOK, ChildBy
    <3> QED BY <3>3, <3>5, <3>6
  <2> QED BY <2>5, <2>6
<1> QED BY <1>2, <1>3

(* A scan in whose range nothing gets lost.                                *)
LEMMA ScanDebt ==
  ASSUME CacheInv, NEW t \in Threads, th[t].pc \in {"fscan", "dwait"}, NEW f, Goes(th, t, f, th'),
         FlushKin(th[t], f), UNCHANGED <<child, childLast, taint>>,
         \A q \in Pages : Serves(th[t], q) => Serves(f, q),
         \A q \in Pages : th[t].lo <= q /\ q <= th[t].hi /\ Due(t, q) =>
           Serves(f, q) \/ (f.pc \in {"fscan", "dwait", "fio"} /\ f.lo <= q)
  PROVE  DebtOK'
<1>1. th'[t] = f /\ \A u \in Threads \ {t} : th'[u] = th[u]
  BY GoesSays
<1>2. f.need = th[t].need /\ f.op = th[t].op /\ f.ret = th[t].ret /\ f.old = th[t].old /\ f.pc # "done" /\ f.pc # "fw2"
  BY DEF FlushKin, Kin, FKin, StackPcs
<1> SUFFICES ASSUME NEW v \in Threads, InFlush(th'[v]), NEW q \in Pages \ taint'
             PROVE  Owes(th', v, q, child', childLast')
  BY DEF DebtOK
<1>3. CASE v = t
  <2>1. Owes(th, t, q, child, childLast)
    <3>1. InFlush(th[t])
      BY DEF InFlush, StackPcs
    <3> QED BY <3>1 DEF CacheInv, DebtOK
  <2>2. Served(t, q) => Open(th', t, q)
    BY <1>1, <1>2 DEF Served, Open
  <2>3. Serves(f, q) \/ (f.pc \in {"fscan", "dwait", "fio"} /\ f.lo <= q) => Open(th', t, q)
    BY <1>1, <1>2 DEF Open
  <2>4. Open(th, t, q) => Served(t, q) \/ Open(th', t, q) \/ th[t].lo <= q
    BY <2>3 DEF Open, Served
  <2>5. ASSUME th[t].lo <= q, ~Open(th', t, q), NEW s \in Slots, th[t].need[q][s] > 0, th[t].op = "flush" \/ th[t].ret = "load"
        PROVE  ~Due(t, q)
    <3>1. PICK n \in 1 .. Len(fstack) : fstack[n].t = t
      BY DEF CacheInv, StackOK, StackPcs
    <3>2. StackBy(fstack[n], th[t])
      BY <3>1 DEF CacheInv, StackOK
    <3>3. q <= th[t].hi
      BY <2>5, <3>2 DEF StackBy
    <3> QED BY <2>3, <2>5, <3>3
  <2>6. CASE ~\E s \in Slots : th[t].need[q][s] > 0
    <3>1. AtLeast(child[q], th[t].need[q])
      BY <2>6, NeedsLatest, Here, NoNeedMet
    <3> QED BY <1>1, <1>2, <1>3, <2>6, <3>1 DEF Owes
  <2>7. CASE \E s \in Slots : th[t].need[q][s] > 0
    <3>1. th[t].op = "flush" /\ q \notin th[t].old => AtLeast(child[q], th[t].need[q]) \/ Open(th', t, q)
      BY <2>1, <2>2, <2>4, <2>5, <2>7, Swept DEF Owes
    <3>2. th[t].ret = "load" => q <= childLast \/ Open(th', t, q)
      BY <2>1, <2>2, <2>4, <2>5, <2>7, Swept DEF Owes
    <3> QED BY <1>1, <1>2, <1>3, <3>1, <3>2 DEF Owes
  <2> QED BY <2>6, <2>7
<1>4. CASE v # t
  <2>1. childLast \in Int /\ childLast' \in Int /\ childLast <= childLast' /\ taint \subseteq taint'
    BY DEF CacheInv, TypesOK
  <2>2. v \in Threads \ {t}
    BY <1>4
  <2> QED BY <2>1, <2>2, DebtOther
<1> QED BY <1>3, <1>4

(* A step of a scan on pages of the cache.                                 *)
LEMMA ScanStep ==
  ASSUME CacheInv, CacheOK(c'), Still, NEW t \in Threads, th[t].pc \in {"fscan", "dwait"},
         NEW f \in ThreadType, ThreadOK(f), th' = [th EXCEPT ![t] = f], PagesMove, FlushKin(th[t], f),
         \A e \in FlushEntry : StackBy(e, th[t]) => StackBy(e, f),
         \A q \in Pages \ taint, i \in {0, 1} : <<q, i>> \in f.held => c'.pg[q].data[i] = latest[q],
         \A q \in Pages, i \in {0, 1} : <<q, i>> \in f.held => q \notin f.wrote,
         \A q \in Pages : Serves(th[t], q) => Serves(f, q),
         \A q \in Pages : th[t].lo <= q /\ q <= th[t].hi /\ Due(t, q) =>
           Serves(f, q) \/ (f.pc \in {"fscan", "dwait", "fio"} /\ f.lo <= q)
  PROVE  CacheInv'
<1>1. ThreadsOK(th') /\ Goes(th, t, f, th')
  BY Here, ThreadsMove
<1>2. UNCHANGED <<fstack, child, childLast, childEnd, size, latest, acked, taint>> /\ taint \subseteq taint'
  BY DEF Still
<1>3. StackOK'
  BY <1>1, <1>2, StackStep
<1>4. CopiesOK'
  <2>1. TakesNew(th[t], f, c', latest, taint')
    BY <1>2 DEF TakesNew
  <2>2. taint \subseteq taint' /\ UNCHANGED latest
    BY <1>2
  <2> QED BY <1>1, <2>1, <2>2, CopiesStep
<1>5. DebtOK'
  BY <1>1, <1>2, ScanDebt
<1>6. TypesOK'
  BY <1>2 DEF CacheInv, TypesOK
<1>7. ~Loading(f) /\ f.pc \in FlushPcs /\ f.need = th[t].need /\ f.op = th[t].op /\ f.page = th[t].page
  BY DEF FlushKin, FKin, Kin, Loading, FlushPcs, StackPcs
<1>8. ChildOK'
  <2>1. ChildBy(f, childLast, taint')
    BY <1>7 DEF ChildBy
  <2> QED BY <1>1, <1>2, <2>1, ChildStep DEF CacheInv
<1>9. SizeBy(f) /\ \A q \in Pages : AtLeast(acked[q], f.need[q])
  <2>1. SizeBy(th[t])
    BY DEF CacheInv, SizeOK
  <2>2. SizeBy(f)
    BY <1>7, <2>1 DEF SizeBy
  <2> QED BY <1>7, <2>2, NeedsLatest
<1>10. \A q \in Pages : child'[q] = child[q]
  BY <1>2
<1> QED BY <1>1, <1>2, <1>3, <1>4, <1>5, <1>6, <1>7, <1>8, <1>9, <1>10, FlushCore

(* The pages a flush takes.                                                *)
TakePg(k, take) ==
  [q \in Pages |-> IF q \in take THEN [k.pg[q] EXCEPT !.fl = @ + 1, !.use[k.pg[q].cur] = @ + 1] ELSE k.pg[q]]
TakesPages(k, k2, take) == k2 = [k EXCEPT !.pg = TakePg(k, take)]
TookPages(k, k2, take) ==
  /\ CacheOK(k2) /\ \A q \in Pages \ take : k2.pg[q] = k.pg[q]
  /\ \A q \in Pages : q \in take =>
       k2.pg[q] \in PageType /\ Alike(k.pg[q], k2.pg[q]) /\ k2.pg[q].rd = k.pg[q].rd /\ k2.pg[q].fl = k.pg[q].fl + 1
LEMMA TakePages ==
  ASSUME NEW k, CacheOK(k), NEW take, NEW k2, TakesPages(k, k2, take)
  PROVE  TookPages(k, k2, take)
<1>1. "pg" \in DOMAIN k2 /\ k2.pg = TakePg(k, take)
  BY DEF CacheOK, TakesPages
<1>2. ASSUME NEW q \in Pages
      PROVE  LET p == k.pg[q]
                 p2 == [p EXCEPT !.fl = @ + 1, !.use[p.cur] = @ + 1]
             IN p \in PageType /\ p2 \in PageType /\ Alike(p, p2) /\ p2.rd = p.rd /\ p2.fl = p.fl + 1
  <2> DEFINE p == k.pg[q]
             p1 == [p EXCEPT !.use[p.cur] = @ + 1]
             p2 == [p EXCEPT !.fl = @ + 1, !.use[p.cur] = @ + 1]
  <2>1. p \in PageType
    BY DEF CacheOK
  <2> HIDE DEF p
  <2>2. p.cur \in {0, 1} /\ p.use[p.cur] + 1 \in Int /\ p.fl + 1 \in Nat
    BY <2>1 DEF PageType
  <2>3. p2 \in PageType
    BY <2>1, <2>2 DEF PageType
  <2>4. Alike(p, p2) /\ p2.rd = p.rd /\ p2.fl = p.fl + 1
    BY <2>1, <2>2 DEF PageType, Alike
  <2> QED BY <2>1, <2>3, <2>4 DEF p
<1>3. \A q \in Pages : k2.pg[q] = IF q \in take THEN [k.pg[q] EXCEPT !.fl = @ + 1, !.use[k.pg[q].cur] = @ + 1] ELSE k.pg[q]
  BY <1>1, Zenon DEF TakePg
<1>4. k2.pg \in [Pages -> PageType]
  BY <1>1, <1>2, Zenon DEF TakePg
<1> QED BY <1>1, <1>2, <1>3, <1>4, Zenon DEF CacheOK, TookPages

(* The thread of a flush that took pages.                                  *)
Passes(g, f, lo) == f = [g EXCEPT !.pc = "fio", !.lo = lo]
Carries(g, f, H) == f = [g EXCEPT !.held = H, !.wrote = {}]
LEMMA CarriesThread ==
  ASSUME NEW g \in ThreadType, ThreadOK(g), g.pc \in {"fscan", "dwait"}, NEW lo \in Int, NEW f1, Passes(g, f1, lo),
         NEW H, H \subseteq Pages \X {0, 1}, \A q \in Pages : ~(<<q, 0>> \in H /\ <<q, 1>> \in H), NEW f, Carries(f1, f, H)
  PROVE  /\ f \in ThreadType /\ ThreadOK(f) /\ FlushKin(g, f) /\ f.pc = "fio" /\ f.lo = lo /\ f.held = H /\ f.wrote = {}
<1>1. "fio" \in PcNames
  BY DEF PcNames, FlushPcs, StackPcs
<1>2. f1 \in ThreadType
  BY <1>1, Zenon DEF Passes, ThreadType
<1>3. /\ Kin(g, f1) /\ f1.pc = "fio" /\ f1.lo = lo /\ f1.slot = g.slot /\ f1.ret = g.ret /\ f1.old = g.old /\ f1.hi = g.hi
  BY Zenon DEF Passes, ThreadType, Kin
<1>4. f \in ThreadType
  BY <1>2, Zenon DEF Carries, ThreadType
<1>5. /\ Kin(f1, f) /\ f.pc = f1.pc /\ f.lo = f1.lo /\ f.slot = f1.slot /\ f.ret = f1.ret /\ f.old = f1.old /\ f.hi = f1.hi
      /\ f.held = H /\ f.wrote = {}
  BY <1>2, Zenon DEF Carries, ThreadType, Kin
<1>6. FlushKin(g, f) /\ f.pc = "fio" /\ f.lo = lo
  BY <1>3, <1>5 DEF FlushKin, FKin, Kin, FlushPcs, StackPcs
<1>7. ThreadOK(f)
  BY <1>3, <1>5, Zenon DEF ThreadOK, Kin, ReadPcs, WritePcs, ForcePcs, FlushPcs, StackPcs
<1> QED BY <1>4, <1>5, <1>6, <1>7

(* The cache in which the waiting flush has left its page.                 *)
Unflushed(t, k) ==
  /\ CacheOK(k)
  /\ \A q \in Pages : Alike(c.pg[q], k.pg[q]) /\ k.pg[q].rd = c.pg[q].rd /\ (Due(t, q) => k.pg[q].fl = 0)
  /\ \A q \in Pages : ~(th[t].pc = "dwait" /\ th[t].lo = q) => k.pg[q] = c.pg[q]
Picks(t, cand, take) ==
  /\ take \subseteq cand /\ \A q \in take : c.pg[q].wr = 0
  /\ \A q \in Pages : q \in cand <=> th[t].lo <= q /\ q <= th[t].hi /\ Due(t, q)
  /\ th[t].pc = "dwait" => th[t].lo \in take
LEMMA TakeMoves ==
  ASSUME CacheInv, NEW t \in Threads, th[t].pc \in {"fscan", "dwait"}, NEW k, Unflushed(t, k), NEW cand, NEW take, take \subseteq Pages,
         Picks(t, cand, take), TakesPages(k, c', take), NEW f, ThreadOK(f), FlushKin(th[t], f), f.pc = "fio", f.wrote = {},
         Goes(th, t, f, th'), f.held = {<<q, k.pg[q].cur>> : q \in take}, UNCHANGED <<latest, child, taint>>
  PROVE  /\ PagesMove /\ CacheOK(c')
         /\ \A q \in Pages, i \in {0, 1} : <<q, i>> \in f.held <=> q \in take /\ i = c.pg[q].cur
         /\ \A q \in Pages : c'.pg[q].data = c.pg[q].data
<1> DEFINE g == th[t]
<1>1. /\ CacheOK(c') /\ (\A q \in Pages \ take : c'.pg[q] = k.pg[q])
      /\ \A q \in Pages : q \in take =>
           c'.pg[q] \in PageType /\ Alike(k.pg[q], c'.pg[q]) /\ c'.pg[q].rd = k.pg[q].rd /\ c'.pg[q].fl = k.pg[q].fl + 1
  <2>1. TookPages(k, c', take)
    BY TakePages DEF Unflushed
  <2> QED BY <2>1 DEF TookPages
<1>2. ThreadsOK(th) /\ ThreadOK(g) /\ g.held = {}
  BY Here, Zenon DEF ThreadOK
<1>3. \A q \in Pages : k.pg[q].cur = c.pg[q].cur /\ k.pg[q].data = c.pg[q].data
  BY DEF Unflushed, Alike
<1>4. \A q \in Pages, i \in {0, 1} : <<q, i>> \in f.held <=> q \in take /\ i = c.pg[q].cur
  BY <1>3
<1>5. \A q \in Pages : c'.pg[q].data = c.pg[q].data
  BY <1>1, <1>3 DEF Alike
<1>6. ASSUME NEW q \in Pages, q \in take
      PROVE  StepOK(c.pg[q], c'.pg[q], q, th', latest'[q], child'[q], taint')
  <2> DEFINE p == c.pg[q]
             p2 == c'.pg[q]
  <2>1. Due(t, q) /\ p.wr = 0
    BY <1>6 DEF Picks
  <2>2. p2 \in PageType /\ Alike(p, p2) /\ p2.rd = p.rd /\ p2.fl = 1
    BY <1>1, <1>6, <2>1 DEF Unflushed, Alike
  <2>3. p.in /\ p.dirty /\ (p.fl = 0 \/ Fl(g, q))
    BY <2>1 DEF Due, Fl
  <2>4. <<q, p.cur>> \in f.held /\ q \notin f.wrote
    BY <1>3, <1>6
  <2>5. PageInv(p, q, th, latest[q], child[q], taint) /\ latest[q] \in Val
    BY Here
  <2>6. FKin(g, f)
    BY DEF FlushKin
  <2> HIDE DEF p, p2
  <2>7. StepOK(p, p2, q, th', latest[q], child[q], taint)
    BY <1>2, <2>1, <2>2, <2>3, <2>4, <2>5, <2>6, FlushTakes
  <2> QED BY <2>7 DEF p, p2
<1>7. ASSUME NEW q \in Pages, q \notin take
      PROVE  StepOK(c.pg[q], c'.pg[q], q, th', latest'[q], child'[q], taint')
  <2>1. ~(g.pc = "dwait" /\ g.lo = q)
    BY <1>7 DEF Picks
  <2>2. c'.pg[q] = c.pg[q]
    BY <1>1, <1>7, <2>1 DEF Unflushed
  <2>3. Quiet(g, f, q)
    <3>1. \A i \in {0, 1} : <<q, i>> \in f.held <=> <<q, i>> \in g.held
      BY <1>2, <1>4, <1>7
    <3>2. FKin(g, f) /\ (f.pc = "dwait" /\ f.lo = q <=> g.pc = "dwait" /\ g.lo = q) /\ (q \in f.wrote => q \in g.wrote)
      BY <2>1 DEF FlushKin
    <3> QED BY <3>1, <3>2, FKinSame
  <2>4. PageInv(c.pg[q], q, th, latest[q], child[q], taint)
    BY Here
  <2>5. StepOK(c.pg[q], c.pg[q], q, th', latest[q], child[q], taint)
    BY <1>2, <2>3, <2>4, QuietStep
  <2> QED BY <2>2, <2>5
<1> QED BY <1>1, <1>4, <1>5, <1>6, <1>7 DEF PagesMove

(* Where the scan goes on.                                                 *)
From(k, cand, take, lo) ==
  /\ lo = (IF cand \ take # {} THEN Least(cand \ take) ELSE 1 + Greatest({q \in Pages : k.pg[q].in}))
  /\ cand \subseteq Pages /\ cand # {} /\ \A q \in cand : k.pg[q].in
To(cand, take, a, lo) == lo \in Int /\ a <= lo /\ \A q \in cand \ take : lo <= q
LEMMA PassesTo ==
  ASSUME NEW k, NEW cand, NEW take, NEW a \in Int, \A q \in cand : a <= q, NEW lo, From(k, cand, take, lo)
  PROVE  To(cand, take, a, lo)
<1>1. cand \subseteq Nat /\ \A q \in Pages : q \in Nat /\ q <= NPages
  BY PagesHere, CacheAssumption DEF Pages, From
<1>2. CASE cand \ take # {}
  <2>1. lo = Least(cand \ take) /\ cand \ take \subseteq Nat
    BY <1>1, <1>2 DEF From
  <2>2. lo \in cand \ take /\ \A q \in cand \ take : lo <= q
    BY <1>2, <2>1, LeastSays
  <2>3. lo \in Int /\ a <= lo
    BY <1>1, <2>2
  <2> QED BY <2>2, <2>3 DEF To
<1>3. CASE cand \ take = {}
  <2> DEFINE S == {q \in Pages : k.pg[q].in}
  <2>1. S \subseteq Nat /\ S # {} /\ (\A q \in S : q <= NPages) /\ NPages \in Nat
    BY <1>1, CacheAssumption DEF From
  <2>2. lo = 1 + Greatest(S)
    BY <1>3 DEF From
  <2> HIDE DEF S
  <2>3. Greatest(S) \in S /\ \A q \in S : q <= Greatest(S)
    BY <2>1, GreatestSays
  <2>4. PICK q \in cand : TRUE
    BY DEF From
  <2>5. q \in S /\ a <= q /\ q \in Nat
    BY <1>1, <2>4 DEF S, From
  <2>6. Greatest(S) \in Nat /\ q <= Greatest(S)
    BY <2>1, <2>3, <2>5
  <2>7. lo \in Int /\ a <= lo
    BY <2>2, <2>5, <2>6
  <2> QED BY <1>3, <2>7 DEF To
<1> QED BY <1>2, <1>3

LEMMA FlushTakeInv ==
  ASSUME CacheInv, NEW t \in Threads, th[t].pc \in {"fscan", "dwait"}, NEW k, Unflushed(t, k), NEW cand, cand \subseteq Pages, cand # {},
         \A q \in Pages : q \in cand <=> th[t].lo <= q /\ q <= th[t].hi /\ Due(t, q),
         th[t].pc = "dwait" => th[t].lo \in cand /\ c.pg[th[t].lo].wr = 0,
         FlushTake(t, k, cand), Still
  PROVE  CacheInv'
<1> DEFINE g == th[t]
           take == {q \in cand : \A r \in cand : r <= q => k.pg[r].wr = 0}
           lo == IF cand \ take # {} THEN Least(cand \ take) ELSE 1 + Greatest({q \in Pages : k.pg[q].in})
           H == {<<q, k.pg[q].cur>> : q \in take}
           f1 == [g EXCEPT !.pc = "fio", !.lo = lo]
           f == [f1 EXCEPT !.held = H, !.wrote = {}]
<1>1. g \in ThreadType /\ ThreadOK(g) /\ ThreadsOK(th) /\ g.lo \in Int /\ g.hi \in Int
  BY Here, Zenon DEF ThreadType
<1>2. c' = [k EXCEPT !.pg = TakePg(k, take)]
  <2>1. c' = [k EXCEPT !.pg = [q \in Pages |->
                IF q \in take THEN [k.pg[q] EXCEPT !.fl = @ + 1, !.use[k.pg[q].cur] = @ + 1] ELSE k.pg[q]]]
    BY Zenon DEF FlushTake
  <2> HIDE DEF take
  <2> QED BY <2>1, Zenon DEF TakePg
<1>3. th' = [th EXCEPT ![t] = f]
  BY <1>1, Zenon DEF FlushTake, Set, ThreadType
<1>4. take \subseteq cand /\ take \subseteq Pages
  OBVIOUS
<1>5. \A q \in Pages : k.pg[q].wr = c.pg[q].wr /\ k.pg[q].in = c.pg[q].in /\ k.pg[q].cur = c.pg[q].cur /\ k.pg[q].cur \in {0, 1}
  <2>1. \A q \in Pages : c.pg[q] \in PageType
    BY Here
  <2>2. \A q \in Pages : Alike(c.pg[q], k.pg[q])
    BY DEF Unflushed
  <2> QED BY <2>1, <2>2 DEF Alike, PageType
<1>6. \A q \in take : c.pg[q].wr = 0
  <2> SUFFICES ASSUME NEW q \in take PROVE c.pg[q].wr = 0
    OBVIOUS
  <2>1. q \in cand /\ q \in Pages /\ q <= q
    BY PagesHere
  <2>2. k.pg[q].wr = 0
    BY <2>1
  <2> QED BY <1>5, <2>1, <2>2
<1>7. g.pc = "dwait" => g.lo \in take
  <2> SUFFICES ASSUME g.pc = "dwait" PROVE g.lo \in take
    OBVIOUS
  <2>1. g.lo \in cand /\ k.pg[g.lo].wr = 0
    BY <1>5
  <2>2. \A r \in cand : r <= g.lo => r = g.lo
    BY <1>1, PagesHere
  <2> QED BY <2>1, <2>2
<1>8. Picks(t, cand, take)
  <2> HIDE DEF take
  <2> QED BY <1>4, <1>6, <1>7 DEF Picks
<1>9. H \subseteq Pages \X {0, 1} /\ \A q \in Pages : ~(<<q, 0>> \in H /\ <<q, 1>> \in H)
  <2> HIDE DEF take
  <2> QED BY <1>4, <1>5
<1>10. lo \in Int /\ g.lo <= lo /\ \A q \in cand \ take : lo <= q
  <2>1. (\A q \in cand : k.pg[q].in) /\ (\A q \in cand : g.lo <= q)
    BY <1>5 DEF Due
  <2>2. lo = (IF cand \ take # {} THEN Least(cand \ take) ELSE 1 + Greatest({q \in Pages : k.pg[q].in}))
    OBVIOUS
  <2> HIDE DEF take, lo
  <2>3. From(k, cand, take, lo)
    BY <2>1, <2>2 DEF From
  <2>4. To(cand, take, g.lo, lo)
    BY <1>1, <2>1, <2>3, PassesTo
  <2> QED BY <2>4 DEF To
<1>11. Passes(g, f1, lo) /\ Carries(f1, f, H)
  BY DEF Passes, Carries
<1> HIDE DEF take, lo, f1, f, H
<1>12. /\ f \in ThreadType /\ ThreadOK(f) /\ FlushKin(g, f) /\ f.pc = "fio" /\ f.lo = lo /\ f.held = H /\ f.wrote = {}
  BY <1>1, <1>9, <1>10, <1>11, CarriesThread, ZenonT(60)
<1>13. ThreadsOK(th') /\ Goes(th, t, f, th')
  BY <1>1, <1>3, <1>12, ThreadsMove
<1>14. /\ PagesMove /\ CacheOK(c')
       /\ \A q \in Pages, i \in {0, 1} : <<q, i>> \in f.held <=> q \in take /\ i = c.pg[q].cur
       /\ \A q \in Pages : c'.pg[q].data = c.pg[q].data
  <2>1. TakesPages(k, c', take)
    BY <1>2 DEF TakesPages
  <2>2. UNCHANGED <<latest, child, taint>>
    BY DEF Still
  <2>3. f.held = {<<q, k.pg[q].cur>> : q \in take}
    BY <1>12 DEF H
  <2> QED BY <1>4, <1>8, <1>12, <1>13, <2>1, <2>2, <2>3, TakeMoves
<1>15. ASSUME NEW e \in FlushEntry, StackBy(e, g) PROVE StackBy(e, f)
  <2>1. e.lo \in Int /\ e.hi = g.hi /\ e.lo <= g.lo
    BY <1>15 DEF StackBy, FlushEntry
  <2>2. e.lo <= f.lo
    BY <1>1, <1>10, <1>12, <2>1
  <2>3. \A q \in Pages, i \in {0, 1} : <<q, i>> \in f.held => e.lo <= q /\ q <= e.hi
    <3> SUFFICES ASSUME NEW q \in Pages, NEW i \in {0, 1}, <<q, i>> \in f.held PROVE e.lo <= q /\ q <= e.hi
      OBVIOUS
    <3>1. q \in cand
      BY <1>4, <1>14
    <3>2. g.lo <= q /\ q <= g.hi /\ q \in Int
      BY <3>1, PagesHere
    <3> QED BY <1>1, <2>1, <3>2
  <2>4. f.hi = g.hi /\ f.op = g.op /\ f.ret = g.ret /\ f.need = g.need /\ f.pc \in StackPcs
    BY <1>12 DEF FlushKin, FKin, Kin
  <2> QED BY <1>12, <1>15, <2>1, <2>2, <2>3, <2>4 DEF StackBy
<1>16. \A q \in Pages \ taint, i \in {0, 1} : <<q, i>> \in f.held => c'.pg[q].data[i] = latest[q]
  <2> SUFFICES ASSUME NEW q \in Pages \ taint, NEW i \in {0, 1}, <<q, i>> \in f.held PROVE c'.pg[q].data[i] = latest[q]
    OBVIOUS
  <2>1. q \in take /\ i = c.pg[q].cur /\ c'.pg[q].data = c.pg[q].data
    BY <1>14
  <2>2. Due(t, q) /\ c.pg[q].wr = 0
    BY <1>4, <1>6, <2>1
  <2>3. PageInv(c.pg[q], q, th, latest[q], child[q], taint)
    BY Here
  <2>4. c.pg[q].in /\ ~c.pg[q].empty
    BY <1>1, <2>2, <2>3, DirtyFilled DEF Due
  <2> QED BY <2>1, <2>3, <2>4 DEF PageInv, PData
<1>17. \A q \in take : Serves(f, q)
  <2> SUFFICES ASSUME NEW q \in take PROVE Serves(f, q)
    OBVIOUS
  <2>1. q \in Pages /\ c.pg[q].cur \in {0, 1}
    BY <1>4, <1>5
  <2>2. <<q, c.pg[q].cur>> \in f.held
    BY <1>14, <2>1
  <2> QED BY <1>12, <2>1, <2>2 DEF Serves
<1>18. \A q \in Pages : Serves(g, q) => Serves(f, q)
  <2>1. g.held = {}
    BY <1>1, Zenon DEF ThreadOK
  <2> QED BY <1>7, <1>17, <2>1 DEF Serves
<1>19. \A q \in Pages : g.lo <= q /\ q <= g.hi /\ Due(t, q) =>
         Serves(f, q) \/ (f.pc \in {"fscan", "dwait", "fio"} /\ f.lo <= q)
  BY <1>10, <1>12, <1>17
<1>20. \A q \in Pages, i \in {0, 1} : <<q, i>> \in f.held => q \notin f.wrote
  BY <1>12
<1> QED BY <1>3, <1>12, <1>14, <1>15, <1>16, <1>18, <1>19, <1>20, ScanStep

LEMMA CandidatesDue ==
  ASSUME CacheInv, NEW t \in Threads, th[t].pc = "fscan"
  PROVE  \A q \in Pages : q \in Candidates(c, th[t].lo, th[t].hi) <=> th[t].lo <= q /\ q <= th[t].hi /\ Due(t, q)
BY DEF Candidates, Due

(* A scan that takes nothing.                                              *)
LEMMA ScanOn ==
  ASSUME CacheInv, c' = c, Still, NEW t \in Threads, th[t].pc = "fscan",
         NEW f \in ThreadType, ThreadOK(f), th' = [th EXCEPT ![t] = f], FlushKin(th[t], f),
         f.lo = th[t].lo, f.held = th[t].held, f.wrote = th[t].wrote, f.pc \in {"fscan", "fw1"},
         f.pc = "fw1" => \A q \in Pages : ~(th[t].lo <= q /\ q <= th[t].hi /\ Due(t, q))
  PROVE  CacheInv'
<1>1. ThreadsOK(th') /\ Goes(th, t, f, th') /\ CacheOK(c')
  BY Here, ThreadsMove
<1>2. \A q : ~Serves(th[t], q)
  BY Here, NoServe
<1>3. th[t].held = {}
  BY Here, NoServe
<1>4. \A r \in Pages : Quiet(th[t], f, r)
  <2> TAKE r \in Pages
  <2>1. FKin(th[t], f) /\ (f.pc = "dwait" /\ f.lo = r <=> th[t].pc = "dwait" /\ th[t].lo = r)
        /\ (r \in f.wrote => r \in th[t].wrote)
    BY DEF FlushKin
  <2>2. \A i \in {0, 1} : <<r, i>> \in f.held <=> <<r, i>> \in th[t].held
    OBVIOUS
  <2> QED BY <2>1, <2>2, FKinSame
<1>5. PagesMove
  <2>1. \A r \in Pages : /\ c'.pg[r] = c.pg[r] /\ Quiet(th[t], f, r)
                         /\ latest'[r] = latest[r] /\ child'[r] = child[r]
    BY <1>4 DEF Still
  <2>2. taint \subseteq taint'
    BY DEF Still
  <2> QED BY <1>1, <2>1, <2>2, NoMove
<1>6. \A e \in FlushEntry : StackBy(e, th[t]) => StackBy(e, f)
  BY DEF StackBy, FlushKin, FKin, Kin
<1>7. \A q \in Pages : th[t].lo <= q /\ q <= th[t].hi /\ Due(t, q) =>
        Serves(f, q) \/ (f.pc \in {"fscan", "dwait", "fio"} /\ f.lo <= q)
  OBVIOUS
<1>8. \A q \in Pages, i \in {0, 1} : <<q, i>> \notin f.held
  BY <1>3
<1> QED BY <1>1, <1>2, <1>5, <1>6, <1>7, <1>8, ScanStep

LEMMA ScansAgain ==
  ASSUME NEW g \in ThreadType, ThreadOK(g), g.pc = "fscan", NEW f, f = [g EXCEPT !.block = TRUE]
  PROVE  f \in ThreadType /\ ThreadOK(f) /\ FlushKin(g, f) /\ f.lo = g.lo /\ f.held = g.held /\ f.wrote = g.wrote /\ f.pc = "fscan"
<1>1. f \in ThreadType
  BY Zenon DEF ThreadType
<1>2. /\ Kin(g, f) /\ f.lo = g.lo /\ f.held = g.held /\ f.wrote = g.wrote /\ f.pc = "fscan"
      /\ f.slot = g.slot /\ f.ret = g.ret /\ f.old = g.old /\ f.hi = g.hi
  BY Zenon DEF ThreadType, Kin
<1>3. FlushKin(g, f)
  BY <1>2 DEF FlushKin, FKin, Kin, FlushPcs, StackPcs
<1>4. ThreadOK(f)
  BY <1>2, Zenon DEF ThreadOK, Kin
<1> QED BY <1>1, <1>2, <1>3, <1>4
LEMMA Advances ==
  ASSUME NEW g \in ThreadType, ThreadOK(g), g.pc = "fscan", NEW f, f = [g EXCEPT !.pc = "fw1"]
  PROVE  f \in ThreadType /\ ThreadOK(f) /\ FlushKin(g, f) /\ f.lo = g.lo /\ f.held = g.held /\ f.wrote = g.wrote /\ f.pc = "fw1"
<1>1. "fw1" \in PcNames
  BY DEF PcNames, FlushPcs, StackPcs
<1>2. f \in ThreadType
  BY <1>1, Zenon DEF ThreadType
<1>3. /\ Kin(g, f) /\ f.lo = g.lo /\ f.held = g.held /\ f.wrote = g.wrote /\ f.pc = "fw1"
      /\ f.slot = g.slot /\ f.ret = g.ret /\ f.old = g.old /\ f.hi = g.hi
  BY Zenon DEF ThreadType, Kin
<1>4. FlushKin(g, f)
  BY <1>3 DEF FlushKin, FKin, Kin, FlushPcs, StackPcs
<1>5. ThreadOK(f)
  BY <1>3, Zenon DEF ThreadOK, Kin, ReadPcs, WritePcs, ForcePcs, FlushPcs, StackPcs
<1> QED BY <1>2, <1>3, <1>4, <1>5
Awaits(g, f, q) == f = [g EXCEPT !.pc = "dwait", !.lo = q]
LEMMA AwaitsThread ==
  ASSUME NEW g \in ThreadType, ThreadOK(g), g.pc = "fscan", NEW q \in Pages, NEW f, Awaits(g, f, q)
  PROVE  f \in ThreadType /\ ThreadOK(f) /\ FlushKin(g, f) /\ f.lo = q /\ f.held = {} /\ f.wrote = g.wrote /\ f.pc = "dwait"
<1>1. "dwait" \in PcNames /\ q \in Int
  BY PagesHere DEF PcNames, FlushPcs, StackPcs
<1>2. f \in ThreadType
  BY <1>1, Zenon DEF Awaits, ThreadType
<1>3. /\ Kin(g, f) /\ f.lo = q /\ f.held = g.held /\ f.wrote = g.wrote /\ f.pc = "dwait"
      /\ f.slot = g.slot /\ f.ret = g.ret /\ f.old = g.old /\ f.hi = g.hi
  BY Zenon DEF Awaits, ThreadType, Kin
<1>4. FlushKin(g, f) /\ g.held = {}
  BY <1>3, Zenon DEF FlushKin, FKin, Kin, FlushPcs, StackPcs, ThreadOK
<1>5. ThreadOK(f)
  BY <1>3, Zenon DEF ThreadOK, Kin, ReadPcs, WritePcs, ForcePcs, FlushPcs, StackPcs
<1> QED BY <1>2, <1>3, <1>4, <1>5

(* The scan stops at a page that is being written.                         *)
LEMMA ScanWaits ==
  ASSUME CacheInv, Still, NEW t \in Threads, th[t].pc = "fscan", NEW q \in Pages, th[t].lo <= q, q <= th[t].hi, Due(t, q),
         \A r \in Pages : th[t].lo <= r /\ r <= th[t].hi /\ Due(t, r) => q <= r,
         c' = [c EXCEPT !.pg[q].fl = @ + 1], NEW f, Awaits(th[t], f, q), th' = [th EXCEPT ![t] = f]
  PROVE  CacheInv'
<1> DEFINE g == th[t]
           p == c.pg[q]
           p2 == [p EXCEPT !.fl = @ + 1]
<1>1. g \in ThreadType /\ ThreadOK(g) /\ ThreadsOK(th) /\ CacheOK(c) /\ g.lo \in Int /\ g.hi \in Int /\ g.held = {}
  BY Here, NoServe, Zenon DEF ThreadType
<1>2. p \in PageType /\ PageInv(p, q, th, latest[q], child[q], taint)
  BY Here
<1>3. f \in ThreadType /\ ThreadOK(f) /\ FlushKin(g, f) /\ f.lo = q /\ f.held = {} /\ f.wrote = g.wrote /\ f.pc = "dwait"
  BY <1>1, AwaitsThread
<1>4. p.in /\ p.dirty /\ p.fl = 0
  BY DEF Due
<1>5. p2 \in PageType /\ Alike(p, p2) /\ p2.rd = p.rd /\ p2.fl = p.fl + 1
  <2> HIDE DEF p
  <2> QED BY <1>2 DEF PageType, Alike
<1>6. Edit(c, c', q, p2)
  <2>1. "pg" \in DOMAIN c' /\ c'.pg = [c.pg EXCEPT ![q] = p2]
    BY <1>1 DEF CacheOK
  <2> QED BY <1>1, <1>5, <2>1, EditPage
<1>7. ThreadsOK(th') /\ Goes(th, t, f, th') /\ CacheOK(c') /\ c'.pg[q] = p2 /\ FKin(g, f)
  BY <1>1, <1>3, <1>6, ThreadsMove DEF Edit, FlushKin
<1> HIDE DEF p, p2
<1>8. StepOK(p, p2, q, th', latest[q], child[q], taint)
  BY <1>1, <1>2, <1>3, <1>4, <1>5, <1>7, FlushWaits
<1>9. \A r \in Pages \ {q} : Quiet(g, f, r)
  <2> TAKE r \in Pages \ {q}
  <2>1. FKin(g, f) /\ (f.pc = "dwait" /\ f.lo = r <=> g.pc = "dwait" /\ g.lo = r) /\ (r \in f.wrote => r \in g.wrote)
    BY <1>3, <1>7
  <2>2. \A i \in {0, 1} : <<r, i>> \in f.held <=> <<r, i>> \in g.held
    BY <1>1, <1>3
  <2> QED BY <2>1, <2>2, FKinSame
<1>10. PagesMove
  <2>1. \A r \in Pages \ {q} : /\ c'.pg[r] = c.pg[r] /\ Quiet(th[t], f, r)
                               /\ latest'[r] = latest[r] /\ child'[r] = child[r]
    BY <1>6, <1>9 DEF Still, Edit
  <2>2. taint \subseteq taint' /\ StepOK(c.pg[q], c'.pg[q], q, th', latest'[q], child'[q], taint')
    BY <1>7, <1>8 DEF Still, p
  <2> QED BY <1>3, <1>7, <2>1, <2>2, OneMove
<1>11. ASSUME NEW e \in FlushEntry, StackBy(e, g) PROVE StackBy(e, f)
  <2>1. e.lo \in Int /\ e.hi = g.hi /\ e.lo <= g.lo /\ q \in Int
    BY <1>11, PagesHere DEF StackBy, FlushEntry
  <2>2. e.lo <= f.lo /\ f.lo <= e.hi
    BY <1>1, <1>3, <2>1
  <2>3. \A r \in Pages, i \in {0, 1} : <<r, i>> \notin f.held
    BY <1>3
  <2>4. f.hi = g.hi /\ f.op = g.op /\ f.ret = g.ret /\ f.need = g.need /\ f.pc \in StackPcs
    BY <1>3 DEF FlushKin, FKin, Kin
  <2> QED BY <1>11, <2>1, <2>2, <2>3, <2>4 DEF StackBy
<1>12. \A r \in Pages, i \in {0, 1} : <<r, i>> \notin f.held
  BY <1>3
<1>13. \A r \in Pages : ~Serves(g, r)
  BY <1>1, NoServe
<1>14. \A r \in Pages : g.lo <= r /\ r <= g.hi /\ Due(t, r) => Serves(f, r) \/ (f.pc \in {"fscan", "dwait", "fio"} /\ f.lo <= r)
  BY <1>3
<1> QED BY <1>3, <1>7, <1>10, <1>11, <1>12, <1>13, <1>14, ScanStep

LEMMA FlushScanInv ==
  ASSUME CacheInv, NEW t \in Threads, FlushScan(t)
  PROVE  CacheInv'
<1> DEFINE g == th[t]
           cand == Candidates(c, g.lo, g.hi)
           busy == cand # {} /\ c.pg[Least(cand)].wr > 0
<1>1. g \in ThreadType /\ ThreadOK(g) /\ ThreadsOK(th) /\ CacheOK(c)
  BY Here
<1>2. g.pc = "fscan" /\ Still
  BY DEF FlushScan, At, Still, OthersSame, ChildSame, HistorySame
<1>3. \/ cand = {} /\ Goto(t, "fw1") /\ UNCHANGED c
      \/ Set(t, [g EXCEPT !.block = TRUE]) /\ UNCHANGED c
      \/ /\ cand # {} /\ c' = [c EXCEPT !.pg[Least(cand)].fl = @ + 1]
         /\ Set(t, [g EXCEPT !.pc = "dwait", !.lo = Least(cand)])
      \/ cand # {} /\ ~busy /\ FlushTake(t, c, cand)
  BY DEF FlushScan
<1>4. cand \subseteq Pages /\ \A q \in Pages : q \in cand <=> g.lo <= q /\ q <= g.hi /\ Due(t, q)
  <2>1. cand \subseteq Pages
    BY DEF Candidates
  <2> QED BY <1>2, <2>1, CandidatesDue
<1> HIDE DEF cand
<1>5. CASE cand = {} /\ Goto(t, "fw1") /\ UNCHANGED c
  <2> DEFINE f == [g EXCEPT !.pc = "fw1"]
  <2>1. th' = [th EXCEPT ![t] = f]
    BY <1>1, <1>5 DEF Goto, ThreadsOK
  <2>2. f \in ThreadType /\ ThreadOK(f) /\ FlushKin(g, f) /\ f.lo = g.lo /\ f.held = g.held /\ f.wrote = g.wrote /\ f.pc = "fw1"
    BY <1>1, <1>2, Advances
  <2>3. \A q \in Pages : ~(g.lo <= q /\ q <= g.hi /\ Due(t, q))
    BY <1>4, <1>5
  <2> HIDE DEF f
  <2> QED BY <1>2, <1>5, <2>1, <2>2, <2>3, ScanOn
<1>6. CASE Set(t, [g EXCEPT !.block = TRUE]) /\ UNCHANGED c
  <2> DEFINE f == [g EXCEPT !.block = TRUE]
  <2>1. th' = [th EXCEPT ![t] = f]
    BY <1>6 DEF Set
  <2>2. f \in ThreadType /\ ThreadOK(f) /\ FlushKin(g, f) /\ f.lo = g.lo /\ f.held = g.held /\ f.wrote = g.wrote /\ f.pc = "fscan"
    BY <1>1, <1>2, ScansAgain
  <2> HIDE DEF f
  <2> QED BY <1>2, <1>6, <2>1, <2>2, ScanOn
<1>7. CASE /\ cand # {} /\ c' = [c EXCEPT !.pg[Least(cand)].fl = @ + 1]
           /\ Set(t, [g EXCEPT !.pc = "dwait", !.lo = Least(cand)])
  <2> DEFINE q == Least(cand)
             f == [g EXCEPT !.pc = "dwait", !.lo = q]
  <2>1. th' = [th EXCEPT ![t] = f] /\ Awaits(g, f, q)
    BY <1>7 DEF Set, Awaits
  <2>2. c' = [c EXCEPT !.pg[q].fl = @ + 1]
    BY <1>7
  <2>3. q \in cand /\ \A r \in cand : q <= r
    <3>1. cand \subseteq Nat
      BY <1>4, PagesHere
    <3> QED BY <1>7, <3>1, LeastSays
  <2> HIDE DEF q, f
  <2>4. q \in Pages /\ g.lo <= q /\ q <= g.hi /\ Due(t, q)
        /\ \A r \in Pages : g.lo <= r /\ r <= g.hi /\ Due(t, r) => q <= r
    BY <1>4, <2>3
  <2> QED BY <1>2, <2>1, <2>2, <2>4, ScanWaits
<1>8. CASE cand # {} /\ FlushTake(t, c, cand)
  <2>1. Unflushed(t, c)
    BY <1>1, <1>2 DEF Unflushed, Alike, Due
  <2> QED BY <1>2, <1>4, <1>8, <2>1, FlushTakeInv
<1> QED BY <1>3, <1>5, <1>6, <1>7, <1>8

LEMMA DirtyWakeInv ==
  ASSUME CacheInv, NEW t \in Threads, DirtyWake(t)
  PROVE  CacheInv'
<1> DEFINE g == th[t]
           q == g.lo
           k == [c EXCEPT !.pg[q].fl = @ - 1]
           p == c.pg[q]
           p2 == [p EXCEPT !.fl = @ - 1]
           cand == {q} \cup Candidates(k, q, g.hi)
<1>1. g \in ThreadType /\ ThreadOK(g) /\ ThreadsOK(th) /\ CacheOK(c)
  BY Here
<1>2. g.pc = "dwait"
  BY DEF DirtyWake, At
<1>3. CASE Sleep(t)
  BY <1>3, Idles DEF Sleep
<1>4. CASE /\ FlushTake(t, k, cand) /\ Still /\ c.pg[q].wr = 0
  <2>1. q \in Pages
    BY <1>1, <1>2, Zenon DEF ThreadOK
  <2>2. p \in PageType /\ PageInv(p, q, th, latest[q], child[q], taint)
    BY <2>1, Here
  <2>3. p.in /\ p.dirty
    BY <1>2, <2>2 DEF PageInv, POwn, OwnBy
  <2>4. p.fl = 1
    <3>1. Fl(g, q)
      BY <1>2 DEF Fl
    <3>2. p.fl # 0 /\ p.fl \in Nat /\ p.fl <= 1
      BY <2>2, <3>1, Holders DEF PageInv, PCounts
    <3> QED BY <3>2
  <2>5. p2 \in PageType /\ Alike(p, p2) /\ p2.rd = p.rd /\ p2.fl = 0
    <3> HIDE DEF p
    <3> QED BY <2>2, <2>4 DEF PageType, Alike
  <2>6. Edit(c, k, q, p2)
    <3>1. "pg" \in DOMAIN k /\ k.pg = [c.pg EXCEPT ![q] = p2]
      BY <1>1 DEF CacheOK
    <3> HIDE DEF k, p2
    <3> QED BY <1>1, <2>1, <2>5, <3>1, EditPage
  <2> HIDE DEF k, p2
  <2>7. Unflushed(t, k)
    <3>1. CacheOK(k) /\ k.pg[q] = p2 /\ \A r \in Pages \ {q} : k.pg[r] = c.pg[r]
      BY <2>6 DEF Edit
    <3>2. ASSUME NEW r \in Pages
          PROVE  Alike(c.pg[r], k.pg[r]) /\ k.pg[r].rd = c.pg[r].rd /\ (Due(t, r) => k.pg[r].fl = 0)
      <4>1. CASE r = q
        BY <2>5, <3>1, <4>1
      <4>2. CASE r # q
        BY <3>1, <4>2 DEF Alike, Due
      <4> QED BY <4>1, <4>2
    <3>3. \A r \in Pages : ~(g.pc = "dwait" /\ g.lo = r) => k.pg[r] = c.pg[r]
      BY <1>2, <3>1
    <3> QED BY <3>1, <3>2, <3>3 DEF Unflushed
  <2>8. q <= g.hi /\ q <= q
    <3>1. PICK n \in 1 .. Len(fstack) : fstack[n].t = t
      BY <1>2 DEF CacheInv, StackOK, StackPcs
    <3>2. StackBy(fstack[n], g)
      BY <3>1 DEF CacheInv, StackOK
    <3> QED BY <1>2, <2>1, <3>2, PagesHere DEF StackBy
  <2>9. Due(t, q)
    BY <1>2, <2>3 DEF Due
  <2>10. \A r \in Pages : r \in cand <=> g.lo <= r /\ r <= g.hi /\ Due(t, r)
    <3> TAKE r \in Pages
    <3>1. CASE r = q
      BY <2>8, <2>9, <3>1
    <3>2. CASE r # q
      <4>1. k.pg[r] = c.pg[r]
        BY <2>6, <3>2 DEF Edit
      <4> QED BY <3>2, <4>1 DEF Candidates, Due
    <3> QED BY <3>1, <3>2
  <2>11. cand \subseteq Pages /\ cand # {} /\ q \in cand
    BY <2>1 DEF Candidates
  <2> HIDE DEF cand
  <2> QED BY <1>2, <1>4, <2>7, <2>10, <2>11, FlushTakeInv
<1>5. Sleep(t) \/ (FlushTake(t, k, cand) /\ Still /\ ~(c.pg[q].wr > 0))
  BY DEF DirtyWake, Still, OthersSame, ChildSame, HistorySame
<1>6. ~(c.pg[q].wr > 0) => c.pg[q].wr = 0
  <2>1. q \in Pages
    BY <1>1, <1>2, Zenon DEF ThreadOK
  <2>2. p \in PageType
    BY <2>1, Here
  <2>3. p.wr \in Nat
    BY <2>2 DEF PageType
  <2> QED BY <2>3
<1> QED BY <1>3, <1>4, <1>5, <1>6

-----------------------------------------------------------------------------
(* A child write ends.                                                     *)
ChildTakes(q, d, ok) ==
  /\ child' = [child EXCEPT ![q] = IF ok /\ d # NULL THEN d ELSE @]
  /\ childEnd' = IF ok /\ d # NULL /\ q > childEnd THEN q ELSE childEnd
  /\ childLast' = IF d # NULL /\ q > childLast THEN q ELSE childLast
  /\ taint' = IF ok THEN taint ELSE taint \cup {q}
LEMMA ChildTakesSays ==
  ASSUME CacheInv, NEW q \in Pages, NEW d \in Buf, NEW ok \in BOOLEAN, ChildTakes(q, d, ok)
  PROVE  /\ child' \in [Pages -> Val] /\ childLast' \in Int /\ childEnd' \in Int /\ taint \subseteq taint' /\ taint' \subseteq Pages
         /\ \A r \in Pages \ {q} : child'[r] = child[r]
         /\ ok /\ d # NULL => child'[q] = d
         /\ q \notin taint' => ok
         /\ childLast <= childLast' /\ (d # NULL => q <= childLast')
<1>1. child \in [Pages -> Val] /\ childEnd \in Int /\ childLast \in Int /\ taint \subseteq Pages /\ q \in Int
  BY PagesHere DEF CacheInv, TypesOK
<1>2. d # NULL => d \in Val
  BY DEF Buf
<1>3. child' \in [Pages -> Val]
  BY <1>1, <1>2 DEF ChildTakes
<1>4. /\ \A r \in Pages \ {q} : child'[r] = child[r]
      /\ ok /\ d # NULL => child'[q] = d
  BY <1>1 DEF ChildTakes
<1>5. /\ childLast' \in Int /\ childEnd' \in Int /\ taint \subseteq taint' /\ taint' \subseteq Pages
      /\ (q \notin taint' => ok)
  BY <1>1 DEF ChildTakes
<1>6. childLast <= childLast' /\ (d # NULL => q <= childLast')
  BY <1>1 DEF ChildTakes
<1> QED BY <1>3, <1>4, <1>5, <1>6

LEMMA ChildReach ==
  ASSUME CacheInv, NEW q \in Pages, NEW d \in Buf, NEW ok \in BOOLEAN, ChildTakes(q, d, ok),
         \A u \in Threads : ChildBy(th'[u], childLast', taint')
  PROVE  ChildOK'
<1>1. childEnd \in Int /\ childLast \in Int /\ q \in Int /\ ChildPages \in Int /\ child \in [Pages -> Val]
  BY PagesHere, CacheAssumption DEF CacheInv, TypesOK
<1>2. /\ ChildPages - 1 <= childEnd /\ childEnd <= childLast
      /\ childEnd < childLast => childLast \in taint
      /\ \A r \in Pages : r > childEnd => child[r] = Zero
  BY DEF CacheInv, ChildOK
<1>3. ChildPages - 1 <= childEnd' /\ childEnd' <= childLast'
  BY <1>1, <1>2 DEF ChildTakes
<1>4. childEnd' < childLast' => childLast' \in taint'
  <2>1. CASE d = NULL
    BY <1>1, <1>2, <2>1 DEF ChildTakes
  <2>2. CASE d # NULL /\ ok
    <3>1. childEnd' = (IF q > childEnd THEN q ELSE childEnd) /\ childLast' = (IF q > childLast THEN q ELSE childLast) /\ taint' = taint
      BY <2>2 DEF ChildTakes
    <3> QED BY <1>1, <1>2, <3>1
  <2>3. CASE d # NULL /\ ~ok
    <3>1. childEnd' = childEnd /\ childLast' = (IF q > childLast THEN q ELSE childLast) /\ taint' = taint \cup {q}
      BY <2>3 DEF ChildTakes
    <3> QED BY <1>1, <1>2, <3>1
  <2> QED BY <2>1, <2>2, <2>3
<1>5. \A r \in Pages : r > childEnd' => child'[r] = Zero
  <2> SUFFICES ASSUME NEW r \in Pages, r > childEnd' PROVE child'[r] = Zero
    OBVIOUS
  <2>1. r \in Int /\ childEnd <= childEnd' /\ childEnd' \in Int
    BY <1>1, PagesHere DEF ChildTakes
  <2>2. child[r] = Zero
    BY <1>1, <1>2, <2>1
  <2>3. CASE r = q
    <3>1. ~(ok /\ d # NULL)
      BY <1>1, <2>1, <2>3 DEF ChildTakes
    <3> QED BY <1>1, <2>2, <2>3, <3>1 DEF ChildTakes
  <2>4. CASE r # q
    BY <1>1, <2>2, <2>4 DEF ChildTakes
  <2> QED BY <2>3, <2>4
<1> QED BY <1>3, <1>4, <1>5 DEF ChildOK

(* The thread of a flush that wrote a page.                                *)
Records(g, f, q) == f = [g EXCEPT !.wrote = @ \cup {q}]
LEMMA RecordsThread ==
  ASSUME NEW g \in ThreadType, ThreadOK(g), g.pc = "fio", NEW q \in Pages, NEW f, Records(g, f, q)
  PROVE  f \in ThreadType /\ ThreadOK(f) /\ FlushKin(g, f) /\ f.lo = g.lo /\ f.held = g.held /\ f.wrote = g.wrote \cup {q} /\ f.pc = "fio"
<1>1. f \in ThreadType
  BY Zenon DEF Records, ThreadType
<1>2. /\ Kin(g, f) /\ f.lo = g.lo /\ f.held = g.held /\ f.wrote = g.wrote \cup {q} /\ f.pc = "fio"
      /\ f.slot = g.slot /\ f.ret = g.ret /\ f.old = g.old /\ f.hi = g.hi
  BY Zenon DEF Records, ThreadType, Kin
<1>3. FlushKin(g, f)
  BY <1>2 DEF FlushKin, FKin, Kin, FlushPcs, StackPcs
<1>4. ThreadOK(f)
  BY <1>2, Zenon DEF ThreadOK, Kin
<1> QED BY <1>1, <1>2, <1>3, <1>4

LEMMA ChildByMore ==
  ASSUME NEW f \in ThreadType, NEW last \in Int, NEW last2 \in Int, last <= last2, NEW bad, NEW bad2, bad \subseteq bad2, ChildBy(f, last, bad)
  PROVE  ChildBy(f, last2, bad2)
<1>1. \A q \in Pages : q \in Int /\ (q <= last => q <= last2)
  BY PagesHere
<1>2. f.page \in Pages
  BY Zenon DEF ThreadType
<1> QED BY <1>1, <1>2 DEF ChildBy

(* What the write of a held copy does to the page, the child and the       *)
(* other flushes' needs.                                                   *)
LEMMA FlushWrote ==
  ASSUME CacheInv, NEW t \in Threads, th[t].pc = "fio", NEW q \in Pages, NEW i \in {0, 1}, <<q, i>> \in th[t].held,
         NEW ok \in BOOLEAN, NEW d, d = c.pg[q].data[i], ChildTakes(q, d, ok), c' = [c EXCEPT !.pg[q].empty = FALSE],
         NEW f, Records(th[t], f, q), th' = [th EXCEPT ![t] = f], UNCHANGED <<fstack, size, latest, acked>>
  PROVE  CacheInv'
<1> DEFINE g == th[t]
           p == c.pg[q]
           p2 == [p EXCEPT !.empty = FALSE]
<1>1. g \in ThreadType /\ ThreadOK(g) /\ ThreadsOK(th) /\ CacheOK(c)
  BY Here
<1>2. p \in PageType /\ PageInv(p, q, th, latest[q], child[q], taint) /\ latest[q] \in Val
  BY Here
<1>3. d \in Buf
  <2> HIDE DEF p
  <2>1. d = p.data[i]
    BY DEF p
  <2> QED BY <1>2, <2>1 DEF PageType
<1>4. /\ child' \in [Pages -> Val] /\ childLast' \in Int /\ childEnd' \in Int /\ taint \subseteq taint' /\ taint' \subseteq Pages
      /\ (\A r \in Pages \ {q} : child'[r] = child[r])
      /\ (ok /\ d # NULL => child'[q] = d)
      /\ (q \notin taint' => ok)
      /\ childLast <= childLast' /\ (d # NULL => q <= childLast')
  BY <1>3, ChildTakesSays
<1>5. f \in ThreadType /\ ThreadOK(f) /\ FlushKin(g, f) /\ f.lo = g.lo /\ f.held = g.held /\ f.wrote = g.wrote \cup {q} /\ f.pc = "fio"
  BY <1>1, RecordsThread
<1>6. p.in /\ p.dirty /\ ~p.empty
  BY <1>2 DEF PageInv, POwn, OwnBy
<1>7. p2 \in PageType /\ Alike(p, p2) /\ p2.rd = p.rd /\ p2.fl = p.fl
  <2> HIDE DEF p
  <2> QED BY <1>2, <1>6 DEF PageType, Alike
<1>8. Edit(c, c', q, p2)
  <2>1. "pg" \in DOMAIN c' /\ c'.pg = [c.pg EXCEPT ![q] = p2]
    BY <1>1 DEF CacheOK
  <2> QED BY <1>1, <1>7, <2>1, EditPage
<1>9. ThreadsOK(th') /\ Goes(th, t, f, th') /\ CacheOK(c') /\ c'.pg[q] = p2 /\ FKin(g, f) /\ d = p.data[i]
  BY <1>1, <1>5, <1>8, ThreadsMove DEF Edit, FlushKin
<1>99. th'[t] = f /\ \A u \in Threads \ {t} : th'[u] = th[u]
  BY ONLY <1>9, GoesSays, t \in Threads
<1> HIDE DEF p, p2
<1>10. StepOK(p, p2, q, th', latest[q], child'[q], taint') /\ (q \notin taint' => d # NULL)
  <2> DEFINE disk2 == child'[q]
             bad2 == taint'
  <2>1. q \notin bad2 /\ p.data[i] # NULL => disk2 = p.data[i]
    BY <1>4, <1>9
  <2>2. taint \subseteq bad2
    BY <1>4
  <2> HIDE DEF disk2, bad2
  <2>3. StepOK(p, p2, q, th', latest[q], disk2, bad2) /\ (q \notin bad2 => p.data[i] # NULL)
    <3>1. /\ ThreadsOK(th) /\ ThreadOK(f) /\ PageInv(p, q, th, latest[q], child[q], taint) /\ Goes(th, t, f, th')
          /\ latest[q] \in Val /\ p2 \in PageType /\ Alike(p, p2) /\ p2.rd = p.rd /\ p2.fl = p.fl
      BY <1>1, <1>2, <1>5, <1>7, <1>9
    <3>2. /\ FKin(th[t], f) /\ f.pc = "fio" /\ th[t].pc = "fio" /\ f.held = th[t].held /\ f.wrote = th[t].wrote \cup {q}
          /\ <<q, i>> \in th[t].held
      BY <1>5, <1>9
    <3>3. WritesCopy(th, t, f, th', p, p2, q, i, latest[q], child[q], taint, disk2, bad2)
      BY <2>1, <2>2, <3>1, <3>2 DEF WritesCopy
    <3> QED BY ONLY <3>3, FlushWrites
  <2> QED BY <1>9, <2>3 DEF disk2, bad2
<1>11. \A r \in Pages \ {q} : Quiet(g, f, r)
  <2> TAKE r \in Pages \ {q}
  <2>1. FKin(g, f) /\ (f.pc = "dwait" /\ f.lo = r <=> g.pc = "dwait" /\ g.lo = r) /\ (r \in f.wrote => r \in g.wrote)
    BY <1>5, <1>9
  <2>2. \A j \in {0, 1} : <<r, j>> \in f.held <=> <<r, j>> \in g.held
    BY <1>5
  <2> QED BY <2>1, <2>2, FKinSame
<1>12. PagesMove
  <2>1. \A r \in Pages \ {q} : /\ c'.pg[r] = c.pg[r] /\ Quiet(th[t], f, r)
                               /\ latest'[r] = latest[r] /\ child'[r] = child[r]
    BY <1>4, <1>8, <1>11 DEF Edit
  <2>2. taint \subseteq taint' /\ StepOK(c.pg[q], c'.pg[q], q, th', latest'[q], child'[q], taint')
    BY <1>4, <1>9, <1>10 DEF p
  <2> QED BY <1>5, <1>9, <2>1, <2>2, OneMove
<1>13. TypesOK'
  BY <1>4, <1>9 DEF CacheInv, TypesOK
<1>14. childLast \in Int
  BY DEF CacheInv, TypesOK
<1>15. ChildOK'
  <2>1. ASSUME NEW u \in Threads PROVE ChildBy(th'[u], childLast', taint')
    <3>1. ChildBy(th[u], childLast, taint) /\ th[u] \in ThreadType
      BY Here DEF CacheInv, ChildOK
    <3>2. ChildBy(th[u], childLast', taint')
      BY <1>4, <1>14, <3>1, ChildByMore
    <3>3. CASE u # t
      <4>1. th'[u] = th[u]
        BY <1>99, <3>3
      <4> QED BY <3>2, <4>1
    <3>4. CASE u = t
      <4>1. th'[u] = f
        BY <1>99, <3>4
      <4>2. ~Loading(f)
        BY <1>5 DEF Loading
      <4>3. \A r \in Pages, j \in {0, 1} : <<r, j>> \in f.held /\ r \in f.wrote => r <= childLast' \/ r \in taint'
        <5> SUFFICES ASSUME NEW r \in Pages, NEW j \in {0, 1}, <<r, j>> \in f.held, r \in f.wrote
                     PROVE  r <= childLast' \/ r \in taint'
          OBVIOUS
        <5>1. CASE r = q
          BY <1>4, <1>10, <5>1
        <5>2. CASE r # q
          BY <1>5, <3>2, <3>4, <5>2 DEF ChildBy
        <5> QED BY <5>1, <5>2
      <4> QED BY <4>1, <4>2, <4>3 DEF ChildBy
    <3> QED BY <3>3, <3>4
  <2> QED BY <1>3, <2>1, ChildReach
<1>16. StackOK'
  <2>1. \A e \in FlushEntry : StackBy(e, g) => StackBy(e, f)
    BY <1>5 DEF StackBy, FlushKin, FKin, Kin
  <2> QED BY <1>5, <1>9, <2>1, StackStep
<1>17. CopiesOK'
  <2>1. TakesNew(g, f, c', latest, taint')
    BY <1>5 DEF TakesNew
  <2> QED BY <1>4, <1>5, <1>9, <1>12, <2>1, CopiesStep
<1>18. \A r \in Pages : r # q /\ Serves(g, r) => Serves(f, r)
  BY <1>5 DEF Serves
<1>19. ASSUME NEW v \in Threads, NEW r \in Pages \ taint', InFlush(th[v]), th[v].op = "flush", r \notin th[v].old
       PROVE  /\ r = q => AtLeast(child'[r], th[v].need[r])
              /\ AtLeast(child[r], th[v].need[r]) => AtLeast(child'[r], th[v].need[r])
  <2>1. CASE r = q
    <3>1. child'[r] = c.pg[q].data[i]
      BY <1>4, <1>10, <2>1
    <3>2. AtLeast(c.pg[q].data[i], th[v].need[q])
      BY <1>4, <1>19, <2>1 DEF CacheInv, CopiesOK
    <3> QED BY <2>1, <3>1, <3>2
  <2>2. CASE r # q
    BY <1>4, <2>2
  <2> QED BY <2>1, <2>2
<1>20. \A r \in Pages \ taint' : r = q => r <= childLast'
  BY <1>4, <1>10
<1>21. DebtOK'
  <2>1. ASSUME NEW v \in Threads \ {t}, InFlush(th'[v]), NEW r \in Pages \ taint' PROVE Owes(th', v, r, child', childLast')
    <3>1. \A x \in Pages \ taint' : Serves(th[t], x) => Serves(f, x) \/ x <= childLast'
      BY <1>18, <1>20
    <3>2. \A w \in Threads \ {t}, x \in Pages \ taint' :
            InFlush(th[w]) /\ th[w].op = "flush" /\ x \notin th[w].old =>
              /\ Serves(th[t], x) => Serves(f, x) \/ AtLeast(child'[x], th[w].need[x])
              /\ AtLeast(child[x], th[w].need[x]) => AtLeast(child'[x], th[w].need[x])
      BY <1>18, <1>19
    <3> QED BY <1>4, <1>9, <1>14, <2>1, <3>1, <3>2, DebtOther
  <2>2. ASSUME InFlush(th'[t]), NEW r \in Pages \ taint' PROVE Owes(th', t, r, child', childLast')
    <3>1. th'[t] = f /\ \A u \in Threads \ {t} : th'[u] = th[u]
      BY <1>99
    <3>2. f.need = g.need /\ f.op = g.op /\ f.ret = g.ret /\ f.old = g.old /\ f.pc = g.pc /\ f.lo = g.lo
      BY <1>5 DEF FlushKin, Kin, FKin
    <3>3. InFlush(g) /\ r \in Pages \ taint
      BY <1>4 DEF InFlush, StackPcs
    <3>4. Owes(th, t, r, child, childLast)
      BY <3>3 DEF CacheInv, DebtOK
    <3>5. r # q /\ Open(th, t, r) => Open(th', t, r)
      <4>1. \A u \in Threads : r # q /\ Serves(th[u], r) => Serves(th'[u], r)
        BY <1>18, <3>1
      <4> QED BY <3>1, <3>2, <4>1 DEF Open
    <3>6. g.op = "flush" /\ r \notin g.old => AtLeast(child'[r], g.need[r]) \/ Open(th', t, r)
      BY <1>19, <3>3, <3>4, <3>5 DEF Owes
    <3>7. r <= childLast => r <= childLast'
      <4>1. r \in Int
        BY PagesHere
      <4> QED BY <1>4, <1>14, <4>1
    <3>8. g.pc # "done" /\ g.ret = "load" /\ (\E s \in Slots : g.need[r][s] > 0) => r <= childLast' \/ Open(th', t, r)
      BY <1>20, <3>4, <3>5, <3>7 DEF Owes
    <3> QED BY <3>1, <3>2, <3>6, <3>8 DEF Owes
  <2> QED BY <2>1, <2>2 DEF DebtOK
<1>22. SizeBy(f) /\ (\A r \in Pages : AtLeast(acked[r], f.need[r])) /\ f.pc \in FlushPcs
  <2>1. f.need = g.need /\ f.op = g.op /\ f.page = g.page /\ f.pc \in FlushPcs
    BY <1>5 DEF FlushKin, Kin, FKin
  <2>2. SizeBy(g)
    BY DEF CacheInv, SizeOK
  <2>3. SizeBy(f)
    BY <2>1, <2>2 DEF SizeBy
  <2> QED BY <2>1, <2>3, NeedsLatest
<1>23. \A r \in Pages : child'[r] = child[r] \/ (c.pg[r].in /\ c.pg[r].dirty)
  BY <1>4, <1>6 DEF p
<1> QED BY <1>4, <1>9, <1>12, <1>13, <1>15, <1>16, <1>17, <1>21, <1>22, <1>23, FlushCore

LEMMA FlushWriteInv ==
  ASSUME CacheInv, NEW t \in Threads, FlushWrite(t)
  PROVE  CacheInv'
<1> DEFINE g == th[t]
<1>1. g \in ThreadType /\ g.pc = "fio" /\ UNCHANGED <<fstack, size, latest, acked>>
  BY Here DEF FlushWrite, At, HistorySame
<1>2. PICK h \in g.held, ok \in BOOLEAN :
        LET q == h[1]
            d == c.pg[q].data[h[2]]
            written == ok /\ d # NULL
        IN /\ child' = [child EXCEPT ![q] = IF written THEN d ELSE @]
           /\ childEnd' = IF written /\ q > childEnd THEN q ELSE childEnd
           /\ childLast' = IF d # NULL /\ q > childLast THEN q ELSE childLast
           /\ taint' = IF ok THEN taint ELSE taint \cup {q}
           /\ c' = [c EXCEPT !.pg[q].empty = FALSE]
           /\ Set(t, [g EXCEPT !.wrote = @ \cup {q}])
  BY DEF FlushWrite
<1> DEFINE q == h[1]
           i == h[2]
           d == c.pg[q].data[i]
           f == [g EXCEPT !.wrote = @ \cup {q}]
<1>3. q \in Pages /\ i \in {0, 1} /\ <<q, i>> \in g.held
  <2>1. g.held \subseteq Pages \X {0, 1}
    BY <1>1, Zenon DEF ThreadType
  <2>2. h \in Pages \X {0, 1}
    BY <2>1
  <2>3. h = <<q, i>> /\ q \in Pages /\ i \in {0, 1}
    BY <2>2
  <2> QED BY <2>3
<1>4. ChildTakes(q, d, ok)
  BY <1>2 DEF ChildTakes
<1>5. c' = [c EXCEPT !.pg[q].empty = FALSE] /\ Records(g, f, q) /\ th' = [th EXCEPT ![t] = f]
  BY <1>2 DEF Set, Records
<1>6. d = c.pg[q].data[i]
  OBVIOUS
<1> HIDE DEF q, i, d, f
<1> QED BY <1>1, <1>3, <1>4, <1>5, <1>6, FlushWrote

-----------------------------------------------------------------------------
(* A flush gives a written copy back.                                      *)
Drops(g, f, h) == f = [g EXCEPT !.held = @ \ {h}, !.pc = IF g.held = {h} THEN "fscan" ELSE @]
Dropped(g, f, h) ==
  /\ f \in ThreadType /\ ThreadOK(f) /\ FlushKin(g, f) /\ f.lo = g.lo /\ f.held = g.held \ {h} /\ f.wrote = g.wrote
  /\ f.pc \in {"fio", "fscan"}
LEMMA DropsThread ==
  ASSUME NEW g \in ThreadType, ThreadOK(g), g.pc = "fio", NEW h \in g.held, NEW f, Drops(g, f, h)
  PROVE  Dropped(g, f, h)
<1>1. f \in ThreadType
  BY ZenonT(60) DEF Drops, ThreadType, PcNames, FlushPcs, StackPcs
<1>2. /\ Kin(g, f) /\ f.lo = g.lo /\ f.held = g.held \ {h} /\ f.wrote = g.wrote
      /\ f.slot = g.slot /\ f.ret = g.ret /\ f.old = g.old /\ f.hi = g.hi
      /\ f.pc = (IF g.held = {h} THEN "fscan" ELSE "fio")
  BY Zenon DEF Drops, ThreadType, Kin
<1>3. f.pc \in {"fio", "fscan"} /\ (f.held # {} => f.pc = "fio")
  <2>1. f.held # {} => g.held # {h}
    BY <1>2
  <2> QED BY <1>2, <2>1
<1>4. FlushKin(g, f)
  BY <1>2, <1>3 DEF FlushKin, FKin, Kin, FlushPcs, StackPcs
<1>5. f.op = g.op /\ f.bytes = g.bytes /\ \A x : x \in f.held => x \in g.held
  BY <1>2 DEF Kin
<1>6. ThreadOK(f)
  <2>1. f.pc \in FlushPcs => \/ f.op = "flush" /\ f.ret = ""
                             \/ f.op = "read" /\ f.ret \in {"load", "mem"}
                             \/ f.op = "write" /\ f.ret = "mem"
    BY <1>2, <1>5, Zenon DEF ThreadOK, FlushPcs, StackPcs
  <2>2. \A q \in Pages : ~(<<q, 0>> \in f.held /\ <<q, 1>> \in f.held)
    BY <1>5, Zenon DEF ThreadOK
  <2>3. f.op = "write" => f.bytes # {}
    BY <1>5 DEF ThreadOK
  <2> QED BY <1>3, <2>1, <2>2, <2>3, Zenon DEF ThreadOK, ReadPcs, WritePcs, ForcePcs
<1> QED BY <1>1, <1>2, <1>3, <1>4, <1>6 DEF Dropped

(* The page of which a copy is given back.                                 *)
LEMMA FlushHandsBack ==
  ASSUME CacheInv, NEW t \in Threads, th[t].pc = "fio", NEW q \in Pages, NEW i \in {0, 1}, NEW h, h = <<q, i>>, h \in th[t].held,
         q \in th[t].wrote, NEW f, Dropped(th[t], f, h), ThreadsOK(th'), Goes(th, t, f, th'),
         NEW heard \in BOOLEAN, c' = Release(c, q, i, "flush", heard)
  PROVE  /\ CacheOK(c') /\ \A r \in Pages \ {q} : c'.pg[r] = c.pg[r]
         /\ StepOK(c.pg[q], c'.pg[q], q, th', latest[q], child[q], taint)
<1> DEFINE p == c.pg[q]
<1>1. /\ ThreadsOK(th) /\ CacheOK(c) /\ latest[q] \in Val
      /\ p \in PageType /\ PageInv(p, q, th, latest[q], child[q], taint)
  BY Here
<1>2. p.fl # 0 /\ p.in
  <2>1. Fl(th[t], q)
    BY DEF Fl
  <2>2. PCounts(p, q, th)
    BY <1>1 DEF PageInv
  <2>3. p.in
    BY <1>1 DEF PageInv, POwn, OwnBy
  <2> HIDE DEF p
  <2> QED BY <2>1, <2>2, <2>3, Holders
<1>3. /\ CacheOK(c') /\ (\A r \in Pages \ {q} : c'.pg[r] = c.pg[r])
      /\ \E p2 : Back(p, p2, i, "flush") /\ (c'.pg[q] = p2 \/ (c'.pg[q] = Absent /\ ~p2.dirty /\ Pending(p2) = 0))
  <2>1. "flush" \in {"read", "write", "flush"}
    OBVIOUS
  <2> QED BY <1>1, <1>2, <2>1, ReleaseSays
<1>4. PICK p2 : Back(p, p2, i, "flush") /\ (c'.pg[q] = p2 \/ (c'.pg[q] = Absent /\ ~p2.dirty /\ Pending(p2) = 0))
  BY <1>3
<1> HIDE DEF p
<1>5. /\ p2 \in PageType /\ p2.in = p.in /\ p2.empty = p.empty /\ p2.rd = p.rd /\ p2.wr = p.wr
      /\ p2.fl = p.fl - 1 /\ p2.cur = p.cur /\ p2.data[p.cur] = p.data[p.cur]
      /\ p2.dirty = (IF i = p.cur THEN ~p.dirty ELSE p.dirty)
  BY <1>4 DEF Back
<1>6. GivesCopy(th, t, f, th', p, p2, q, i, latest[q], child[q], taint)
  <2>1. /\ ThreadOK(f) /\ FKin(th[t], f) /\ th[t].pc = "fio" /\ f.pc \in {"fio", "fscan"}
        /\ f.wrote = th[t].wrote /\ <<q, i>> \in th[t].held /\ q \in th[t].wrote /\ f.held = th[t].held \ {<<q, i>>}
    BY DEF Dropped, FlushKin
  <2> QED BY <1>1, <1>5, <2>1 DEF GivesCopy
<1>7. StepOK(p, p2, q, th', latest[q], child[q], taint)
  BY ONLY <1>6, FlushGivesBack
<1>8. CASE c'.pg[q] = p2
  BY <1>3, <1>7, <1>8 DEF p
<1>9. CASE c'.pg[q] = Absent /\ ~p2.dirty /\ Pending(p2) = 0
  <2>1. StepOK(p2, Absent, q, th', latest[q], child[q], taint)
    <3>1. PageInv(p2, q, th', latest[q], child[q], taint) /\ p2.in
      BY <1>2, <1>5, <1>7 DEF StepOK
    <3> QED BY <1>9, <3>1, EvictStep
  <2>2. StepOK(p, Absent, q, th', latest[q], child[q], taint)
    BY <1>7, <2>1, TidyThen DEF StepOK
  <2> QED BY <1>3, <1>9, <2>2 DEF p
<1> QED BY <1>4, <1>8, <1>9

LEMMA FlushDrops ==
  ASSUME CacheInv, Still, NEW t \in Threads, th[t].pc = "fio", NEW q \in Pages, NEW i \in {0, 1}, NEW h, h = <<q, i>>, h \in th[t].held,
         q \in th[t].wrote, NEW f, Drops(th[t], f, h), th' = [th EXCEPT ![t] = f],
         NEW heard \in BOOLEAN, c' = Release(c, q, i, "flush", heard)
  PROVE  CacheInv'
<1> DEFINE g == th[t]
<1>1. g \in ThreadType /\ ThreadOK(g) /\ ThreadsOK(th) /\ CacheOK(c)
  BY Here
<1>2. Dropped(g, f, h)
  BY <1>1, DropsThread
<1>3. /\ f \in ThreadType /\ ThreadOK(f) /\ FlushKin(g, f) /\ FKin(g, f) /\ f.lo = g.lo /\ f.held = g.held \ {h} /\ f.wrote = g.wrote
      /\ f.pc \in {"fio", "fscan"}
  BY <1>2 DEF Dropped, FlushKin
<1>4. ThreadsOK(th') /\ Goes(th, t, f, th')
  BY <1>1, <1>3, ThreadsMove
<1>5. th'[t] = f /\ \A u \in Threads \ {t} : th'[u] = th[u]
  BY ONLY <1>4, GoesSays, t \in Threads
<1>6. /\ CacheOK(c') /\ (\A r \in Pages \ {q} : c'.pg[r] = c.pg[r])
      /\ StepOK(c.pg[q], c'.pg[q], q, th', latest[q], child[q], taint)
  BY <1>2, <1>4, FlushHandsBack
<1>7. \A r \in Pages \ {q} : Quiet(g, f, r)
  <2> TAKE r \in Pages \ {q}
  <2>1. FKin(g, f) /\ (f.pc = "dwait" /\ f.lo = r <=> g.pc = "dwait" /\ g.lo = r) /\ (r \in f.wrote => r \in g.wrote)
    BY <1>3
  <2>2. \A j \in {0, 1} : <<r, j>> \in f.held <=> <<r, j>> \in g.held
    <3> TAKE j \in {0, 1}
    <3>1. <<r, j>> # h
      OBVIOUS
    <3> QED BY <1>3, <3>1
  <2> QED BY <2>1, <2>2, FKinSame
<1>8. taint' = taint /\ latest' = latest /\ child' = child /\ childLast' = childLast /\ UNCHANGED <<fstack, childEnd, size, acked>>
  BY DEF Still
<1>9. PagesMove
  <2>1. \A r \in Pages \ {q} : /\ c'.pg[r] = c.pg[r] /\ Quiet(th[t], f, r)
                               /\ latest'[r] = latest[r] /\ child'[r] = child[r]
    BY <1>6, <1>7, <1>8
  <2>2. taint \subseteq taint' /\ StepOK(c.pg[q], c'.pg[q], q, th', latest'[q], child'[q], taint')
    BY <1>6, <1>8
  <2> QED BY <1>3, <1>4, <2>1, <2>2, OneMove
<1>10. TypesOK'
  BY <1>6, <1>8 DEF CacheInv, TypesOK
<1>11. childLast \in Int
  BY DEF CacheInv, TypesOK
<1>12. \A x : x \in f.held => x \in g.held
  BY <1>3
<1>13. ChildOK'
  <2>1. ChildBy(g, childLast, taint)
    BY DEF CacheInv, ChildOK
  <2>2. ~Loading(f)
    BY <1>3 DEF Loading
  <2>3. ChildBy(f, childLast, taint')
    BY <1>3, <1>8, <1>12, <2>1, <2>2 DEF ChildBy
  <2> QED BY <1>4, <1>8, <2>3, ChildStep DEF CacheInv
<1>14. StackOK'
  <2>1. \A e \in FlushEntry : StackBy(e, g) => StackBy(e, f)
    <3>1. f.hi = g.hi /\ f.need = g.need /\ f.op = g.op /\ f.ret = g.ret /\ f.pc \in StackPcs /\ f.pc # "dwait"
      BY <1>3 DEF FlushKin, Kin, FKin
    <3> QED BY <1>3, <1>12, <3>1 DEF StackBy
  <2> QED BY <1>3, <1>4, <1>8, <2>1, StackStep
<1>15. CopiesOK'
  <2>1. TakesNew(g, f, c', latest, taint')
    BY <1>12 DEF TakesNew
  <2> QED BY <1>3, <1>4, <1>8, <1>9, <2>1, CopiesStep
<1>16. \A r \in Pages : Serves(g, r) <=> Serves(f, r)
  <2> TAKE r \in Pages
  <2>1. \A j \in {0, 1} : (<<r, j>> \in f.held /\ r \notin f.wrote) <=> (<<r, j>> \in g.held /\ r \notin g.wrote)
    <3> TAKE j \in {0, 1}
    <3>1. <<r, j>> = h => r \in g.wrote
      OBVIOUS
    <3> QED BY <1>3, <3>1
  <2> QED BY <1>3, <2>1 DEF Serves
<1>17. DebtOK'
  <2>1. ASSUME NEW v \in Threads \ {t}, InFlush(th'[v]), NEW r \in Pages \ taint' PROVE Owes(th', v, r, child', childLast')
    <3>1. \A x \in Pages \ taint' : Serves(th[t], x) => Serves(f, x) \/ x <= childLast'
      BY <1>16
    <3>2. \A w \in Threads \ {t}, x \in Pages \ taint' :
            InFlush(th[w]) /\ th[w].op = "flush" /\ x \notin th[w].old =>
              /\ Serves(th[t], x) => Serves(f, x) \/ AtLeast(child'[x], th[w].need[x])
              /\ AtLeast(child[x], th[w].need[x]) => AtLeast(child'[x], th[w].need[x])
      BY <1>8, <1>16
    <3>3. taint \subseteq taint' /\ childLast' \in Int /\ childLast <= childLast'
      BY <1>8, <1>11
    <3> QED BY <1>4, <1>11, <2>1, <3>1, <3>2, <3>3, DebtOther
  <2>2. ASSUME InFlush(th'[t]), NEW r \in Pages \ taint' PROVE Owes(th', t, r, child', childLast')
    <3>2. f.need = g.need /\ f.op = g.op /\ f.ret = g.ret /\ f.old = g.old /\ f.lo = g.lo
      BY <1>3 DEF FlushKin, Kin, FKin
    <3>3. InFlush(g) /\ r \in Pages \ taint
      BY <1>8 DEF InFlush, StackPcs
    <3>4. Owes(th, t, r, child, childLast)
      BY <3>3 DEF CacheInv, DebtOK
    <3>5. Open(th, t, r) => Open(th', t, r)
      <4>1. \A u \in Threads : Serves(th[u], r) => Serves(th'[u], r)
        BY <1>5, <1>16
      <4> QED BY <1>3, <1>5, <3>2, <4>1 DEF Open
    <3> QED BY <1>3, <1>5, <1>8, <3>2, <3>4, <3>5 DEF Owes
  <2> QED BY <2>1, <2>2 DEF DebtOK
<1>18. SizeBy(f) /\ (\A r \in Pages : AtLeast(acked[r], f.need[r])) /\ f.pc \in FlushPcs
  <2>1. f.need = g.need /\ f.op = g.op /\ f.page = g.page /\ f.pc \in FlushPcs
    BY <1>3 DEF FlushKin, Kin, FKin
  <2>2. SizeBy(g)
    BY DEF CacheInv, SizeOK
  <2>3. SizeBy(f)
    BY <2>1, <2>2 DEF SizeBy
  <2> QED BY <2>1, <2>3, NeedsLatest
<1> QED BY <1>4, <1>8, <1>9, <1>10, <1>13, <1>14, <1>15, <1>17, <1>18, FlushCore

LEMMA FlushReleaseInv ==
  ASSUME CacheInv, NEW t \in Threads, FlushRelease(t)
  PROVE  CacheInv'
<1> DEFINE g == th[t]
<1>1. g \in ThreadType /\ g.pc = "fio" /\ Still
  BY Here DEF FlushRelease, At, HistorySame, OthersSame, ChildSame, Still
<1>2. PICK h \in g.held : h[1] \in g.wrote /\ DoRelease(t, h[1], h[2], "flush",
                  [g EXCEPT !.held = @ \ {h}, !.pc = IF g.held = {h} THEN "fscan" ELSE @])
  BY Zenon DEF FlushRelease
<1> DEFINE q == h[1]
           i == h[2]
           f == [g EXCEPT !.held = @ \ {h}, !.pc = IF g.held = {h} THEN "fscan" ELSE @]
           heard == Listeners(q) \ {t} # {}
<1>3. q \in Pages /\ i \in {0, 1} /\ h = <<q, i>>
  <2>1. g.held \subseteq Pages \X {0, 1}
    BY <1>1, Zenon DEF ThreadType
  <2>2. h \in Pages \X {0, 1}
    BY <2>1
  <2> QED BY <2>2
<1>4. c' = Release(c, q, i, "flush", heard) /\ Drops(g, f, h) /\ th' = [th EXCEPT ![t] = f] /\ heard \in BOOLEAN /\ q \in g.wrote
  BY <1>2 DEF DoRelease, Set, Drops
<1> HIDE DEF q, i, f, heard
<1> QED BY <1>1, <1>2, <1>3, <1>4, FlushDrops

-----------------------------------------------------------------------------
(* A flush leaves the stack: its thread and those that wait for it change  *)
(* in nothing that a page, the child or a version looks at.                *)
Alters(g, f) ==
  /\ f.op = g.op /\ f.page = g.page /\ f.bytes = g.bytes /\ f.slot = g.slot /\ f.lo = g.lo /\ f.hi = g.hi
  /\ f.held = g.held /\ f.wrote = g.wrote /\ f.ret = g.ret /\ f.need = g.need /\ f.old = g.old /\ f.got = g.got
  /\ f.pc = g.pc \/ (g.pc = "fw1" /\ f.pc = "fw2")
AllAlter(T, U) == \A u \in Threads : Alters(T[u], U[u])
LEMMA AltersPc ==
  ASSUME NEW g, NEW f, Alters(g, f)
  PROVE  /\ f.pc \in FlushPcs <=> g.pc \in FlushPcs
         /\ InFlush(f) <=> InFlush(g)
         /\ \A x \in ReadPcs \cup WritePcs \cup ForcePcs \cup {"idle", "done", "fstart", "fscan", "dwait", "fio"} : f.pc = x <=> g.pc = x
BY DEF Alters, FlushPcs, StackPcs, InFlush, ReadPcs, WritePcs, ForcePcs
LEMMA AltersHolds ==
  ASSUME NEW g, NEW f, Alters(g, f), NEW q
  PROVE  /\ Rd(f, q) <=> Rd(g, q)
         /\ Wr(f, q) <=> Wr(g, q)
         /\ Fl(f, q) <=> Fl(g, q)
         /\ Loads(f, q) <=> Loads(g, q)
         /\ Fills(f, q) <=> Fills(g, q)
         /\ Serves(f, q) <=> Serves(g, q)
<1>1. Rd(f, q) <=> Rd(g, q)
  BY DEF Alters, Rd, FlushPcs, StackPcs
<1>2. Wr(f, q) <=> Wr(g, q)
  BY DEF Alters, Wr
<1>3. Fl(f, q) <=> Fl(g, q)
  BY DEF Alters, Fl
<1>4. Loads(f, q) <=> Loads(g, q)
  BY DEF Alters, Loads, FlushPcs, StackPcs
<1>5. Fills(f, q) <=> Fills(g, q)
  BY <1>4 DEF Alters, Fills
<1>6. Serves(f, q) <=> Serves(g, q)
  BY DEF Alters, Serves
<1> QED BY <1>1, <1>2, <1>3, <1>4, <1>5, <1>6

LEMMA AltersOwn ==
  ASSUME NEW g, NEW f, Alters(g, f), NEW p, NEW q, OwnBy(g, p, q)
  PROVE  OwnBy(f, p, q)
<1>1. Loads(f, q) <=> Loads(g, q)
  BY AltersHolds
<1> QED BY <1>1 DEF OwnBy, Alters
LEMMA AltersData ==
  ASSUME NEW g, NEW f, Alters(g, f), NEW p, NEW q, NEW new, NEW disk, DataBy(g, p, q, new, disk)
  PROVE  DataBy(f, p, q, new, disk)
<1>1. Loads(f, q) <=> Loads(g, q)
  BY AltersHolds
<1> QED BY <1>1 DEF DataBy, Alters

LEMMA AltersBy ==
  ASSUME NEW T, NEW U, AllAlter(T, U), NEW q
  PROVE  RdBy(U, q) = RdBy(T, q) /\ WrBy(U, q) = WrBy(T, q) /\ FlBy(U, q) = FlBy(T, q)
<1>1. \A u \in Threads : /\ Rd(U[u], q) <=> Rd(T[u], q)
                         /\ Wr(U[u], q) <=> Wr(T[u], q)
                         /\ Fl(U[u], q) <=> Fl(T[u], q)
  BY AltersHolds DEF AllAlter
<1>2. RdBy(U, q) = RdBy(T, q)
  BY <1>1, Zenon DEF RdBy
<1>3. WrBy(U, q) = WrBy(T, q)
  BY <1>1, Zenon DEF WrBy
<1>4. FlBy(U, q) = FlBy(T, q)
  BY <1>1, Zenon DEF FlBy
<1> QED BY <1>2, <1>3, <1>4

LEMMA AltersPage ==
  ASSUME NEW T, NEW U, AllAlter(T, U), NEW p, NEW q, NEW new, NEW disk, NEW bad, PageInv(p, q, T, new, disk, bad)
  PROVE  PageInv(p, q, U, new, disk, bad)
<1>1. PCounts(p, q, U)
  BY AltersBy DEF PageInv, PCounts
<1>2. \A u \in Threads : Fills(U[u], q) <=> Fills(T[u], q)
  BY AltersHolds DEF AllAlter
<1>3. POwn(p, q, U)
  <2>1. \A u \in Threads : OwnBy(U[u], p, q)
    BY AltersOwn DEF AllAlter, PageInv, POwn
  <2>2. POwn(p, q, T)
    BY DEF PageInv
  <2> QED BY <1>2, <2>1, <2>2 DEF POwn
<1>4. PData(p, q, U, new, disk, bad)
  <2> SUFFICES ASSUME q \notin bad PROVE PData(p, q, U, new, disk, bad)
    BY DEF PData
  <2>1. \A u \in Threads : DataBy(U[u], p, q, new, disk)
    BY AltersData DEF AllAlter, PageInv, PData
  <2> QED BY <2>1 DEF PageInv, PData
<1> QED BY <1>1, <1>3, <1>4 DEF PageInv

LEMMA AltersThread ==
  ASSUME NEW g, ThreadOK(g), NEW f, Alters(g, f)
  PROVE  ThreadOK(f)
<1>1. f.pc = g.pc \/ (g.pc = "fw1" /\ f.pc = "fw2")
  BY DEF Alters
<1>2. CASE f.pc = g.pc
  BY <1>2, Zenon DEF Alters, ThreadOK
<1>3. CASE g.pc = "fw1" /\ f.pc = "fw2"
  BY <1>3, Zenon DEF Alters, ThreadOK, ReadPcs, WritePcs, ForcePcs, FlushPcs, StackPcs
<1> QED BY <1>1, <1>2, <1>3

LEMMA AltersSays ==
  ASSUME NEW g, NEW f, Alters(g, f)
  PROVE  /\ \A last, bad : ChildBy(g, last, bad) => ChildBy(f, last, bad)
         /\ SizeBy(g) => SizeBy(f)
         /\ \A new, done, bad : VersionBy(g, new, done, bad) => VersionBy(f, new, done, bad)
         /\ Ended(f) => Ended(g)
<1>1. Loading(f) => Loading(g)
  BY DEF Alters, Loading
<1>2. \A last, bad : ChildBy(g, last, bad) => ChildBy(f, last, bad)
  BY <1>1 DEF Alters, ChildBy
<1>3. SizeBy(g) => SizeBy(f)
  BY DEF Alters, SizeBy
<1>4. Copied(f) => Copied(g)
  BY DEF Alters, Copied
<1>5. \A new, done, bad : VersionBy(g, new, done, bad) => VersionBy(f, new, done, bad)
  BY <1>4 DEF Alters, VersionBy
<1>6. Ended(f) => Ended(g)
  BY DEF Alters, Ended
<1> QED BY <1>2, <1>3, <1>5, <1>6

(* The flush stack without one entry.                                      *)
Popped(s, s2, n) == s2 = [m \in 1 .. Len(s) - 1 |-> s[IF m < n THEN m ELSE m + 1]]
LEMMA PoppedSays ==
  ASSUME NEW s \in Seq(FlushEntry), NEW n \in 1 .. Len(s), NEW s2, Popped(s, s2, n)
  PROVE  /\ s2 \in Seq(FlushEntry) /\ Len(s2) = Len(s) - 1
         /\ \A m \in 1 .. Len(s2) : \E k \in 1 .. Len(s) : k # n /\ k = (IF m < n THEN m ELSE m + 1) /\ s2[m] = s[k]
         /\ \A k \in 1 .. Len(s) : k # n => \E m \in 1 .. Len(s2) : s2[m] = s[k]
<1>1. Len(s) \in Nat /\ Len(s) >= 1 /\ n \in Nat
  OBVIOUS
<1>2. \A m \in 1 .. Len(s) - 1 : (IF m < n THEN m ELSE m + 1) \in 1 .. Len(s)
  BY <1>1
<1>3. \A m \in 1 .. Len(s) - 1 : s2[m] = s[IF m < n THEN m ELSE m + 1]
  BY DEF Popped
<1>4. \A k \in 1 .. Len(s) : s[k] \in FlushEntry
  OBVIOUS
<1>5. s2 \in [1 .. Len(s) - 1 -> FlushEntry]
  BY <1>2, <1>4 DEF Popped
<1>6. s2 \in Seq(FlushEntry) /\ Len(s2) = Len(s) - 1
  <2>1. Len(s) - 1 \in Nat
    BY <1>1
  <2> QED BY <1>5, <2>1
<1>7. \A m \in 1 .. Len(s2) : \E k \in 1 .. Len(s) : k # n /\ k = (IF m < n THEN m ELSE m + 1) /\ s2[m] = s[k]
  <2> TAKE m \in 1 .. Len(s2)
  <2> DEFINE k == IF m < n THEN m ELSE m + 1
  <2>1. k \in 1 .. Len(s) /\ k # n /\ s2[m] = s[k]
    BY <1>1, <1>2, <1>3, <1>6
  <2> QED BY <2>1
<1>8. \A k \in 1 .. Len(s) : k # n => \E m \in 1 .. Len(s2) : s2[m] = s[k]
  <2> SUFFICES ASSUME NEW k \in 1 .. Len(s), k # n PROVE \E m \in 1 .. Len(s2) : s2[m] = s[k]
    OBVIOUS
  <2> DEFINE m == IF k < n THEN k ELSE k - 1
  <2>1. m \in 1 .. Len(s) - 1 /\ (IF m < n THEN m ELSE m + 1) = k
    BY <1>1
  <2>2. s2[m] = s[IF m < n THEN m ELSE m + 1]
    BY <1>3, <2>1
  <2> HIDE DEF m
  <2> QED BY <1>6, <2>1, <2>2
<1> QED BY <1>6, <1>7, <1>8

LEMMA PopStack ==
  ASSUME CacheInv, NEW t \in Threads, NEW n \in 1 .. Len(fstack), fstack[n].t = t, Popped(fstack, fstack', n),
         AllAlter(th, th'), th'[t].pc = "fw2", \A u \in Threads \ {t} : th'[u].pc = th[u].pc
  PROVE  StackOK' /\ fstack' \in Seq(FlushEntry)
<1>1. fstack \in Seq(FlushEntry)
  BY DEF CacheInv, TypesOK
<1>2. /\ fstack' \in Seq(FlushEntry) /\ Len(fstack') = Len(fstack) - 1
      /\ \A m \in 1 .. Len(fstack') : \E k \in 1 .. Len(fstack) : k # n /\ k = (IF m < n THEN m ELSE m + 1) /\ fstack'[m] = fstack[k]
      /\ \A k \in 1 .. Len(fstack) : k # n => \E m \in 1 .. Len(fstack') : fstack'[m] = fstack[k]
  BY <1>1, PoppedSays
<1>3. /\ \A k, m \in 1 .. Len(fstack) : fstack[k].t = fstack[m].t => k = m
      /\ \A u \in Threads : th[u].pc \in StackPcs => \E k \in 1 .. Len(fstack) : fstack[k].t = u
      /\ \A k \in 1 .. Len(fstack) : StackBy(fstack[k], th[fstack[k].t])
  BY DEF CacheInv, StackOK
<1>4. ASSUME NEW k \in 1 .. Len(fstack'), NEW m \in 1 .. Len(fstack'), fstack'[k].t = fstack'[m].t PROVE k = m
  <2>1. PICK a \in 1 .. Len(fstack) : a = (IF k < n THEN k ELSE k + 1) /\ fstack'[k] = fstack[a]
    BY <1>2
  <2>2. PICK b \in 1 .. Len(fstack) : b = (IF m < n THEN m ELSE m + 1) /\ fstack'[m] = fstack[b]
    BY <1>2
  <2>3. a = b
    BY <1>3, <1>4, <2>1, <2>2
  <2>4. k \in Int /\ m \in Int /\ n \in Int
    OBVIOUS
  <2> QED BY <2>1, <2>2, <2>3, <2>4
<1>5. ASSUME NEW u \in Threads, th'[u].pc \in StackPcs PROVE \E m \in 1 .. Len(fstack') : fstack'[m].t = u
  <2>1. u # t
    BY <1>5 DEF StackPcs
  <2>2. th[u].pc \in StackPcs
    BY <1>5, <2>1
  <2>3. PICK k \in 1 .. Len(fstack) : fstack[k].t = u
    BY <1>3, <2>2
  <2>4. k # n
    BY <2>1, <2>3
  <2> QED BY <1>2, <2>3, <2>4
<1>6. ASSUME NEW m \in 1 .. Len(fstack') PROVE StackBy(fstack'[m], th'[fstack'[m].t])
  <2>1. PICK k \in 1 .. Len(fstack) : k # n /\ fstack'[m] = fstack[k]
    BY <1>2
  <2> DEFINE u == fstack[k].t
             e == fstack[k]
  <2>2. u \in Threads /\ u # t
    BY <1>3, <2>1, EntryHere
  <2>3. StackBy(e, th[u]) /\ th'[u].pc = th[u].pc /\ Alters(th[u], th'[u])
    BY <1>3, <2>2 DEF AllAlter
  <2> HIDE DEF u, e
  <2>4. StackBy(e, th'[u])
    BY <2>3 DEF StackBy, Alters
  <2> QED BY <2>1, <2>4 DEF u, e
<1> QED BY <1>2, <1>4, <1>5, <1>6 DEF StackOK

(* Whom a flush waits for once it is off the stack: everybody who has a    *)
(* page that it needs.                                                     *)
LEMMA PopWaits ==
  ASSUME CacheInv, NEW t \in Threads, th[t].pc = "fw1", NEW u \in Threads, NEW q \in Pages, Serves(th[u], q),
         th[t].op = "flush" \/ th[t].ret = "load", NEW s \in Slots, th[t].need[q][s] > 0
  PROVE  \E f \in {fstack[n] : n \in 1 .. Len(fstack)} : f.t = u /\ u # t /\ Overlap(f, Entry(t))
<1>1. ThreadOK(th[t]) /\ ThreadOK(th[u])
  BY Here
<1>2. u # t
  BY <1>1, NoServe
<1>3. th[u].pc \in StackPcs /\ th[t].pc \in StackPcs
  BY <1>1, NoServe DEF StackPcs
<1>4. PICK n \in 1 .. Len(fstack) : fstack[n].t = u
  BY <1>3 DEF CacheInv, StackOK
<1>5. PICK m \in 1 .. Len(fstack) : fstack[m].t = t
  BY <1>3 DEF CacheInv, StackOK
<1>6. PICK k \in 1 .. Len(fstack) : Entry(t) = fstack[k] /\ fstack[k].t = t
  <2> DEFINE S == {fstack[x] : x \in 1 .. Len(fstack)}
  <2>1. \E f \in S : f.t = t
    BY <1>5
  <2> HIDE DEF S
  <2>2. (CHOOSE f \in S : f.t = t) \in S /\ (CHOOSE f \in S : f.t = t).t = t
    BY <2>1
  <2> QED BY <2>2 DEF S, Entry
<1>7. StackBy(fstack[n], th[u]) /\ StackBy(fstack[k], th[t])
  BY <1>4, <1>6 DEF CacheInv, StackOK
<1>8. fstack[n].lo \in Int /\ fstack[n].hi \in Int /\ fstack[k].lo \in Int /\ fstack[k].hi \in Int /\ q \in Int
  BY EntryHere, PagesHere
<1>9. fstack[k].lo <= q /\ q <= fstack[k].hi
  BY <1>7 DEF StackBy
<1>10. fstack[n].lo <= q /\ q <= fstack[n].hi
  <2>1. CASE th[u].pc = "dwait" /\ th[u].lo = q
    BY <1>7, <2>1 DEF StackBy
  <2>2. CASE \E i \in {0, 1} : <<q, i>> \in th[u].held
    BY <1>7, <2>2 DEF StackBy
  <2> QED BY <2>1, <2>2 DEF Serves
<1>11. Overlap(fstack[n], fstack[k])
  BY <1>8, <1>9, <1>10 DEF Overlap
<1> QED BY <1>2, <1>4, <1>6, <1>11

LEMMA PopDebt ==
  ASSUME CacheInv, NEW t \in Threads, th[t].pc = "fw1", AllAlter(th, th'), th'[t].pc = "fw2",
         \A u \in Threads \ {t} : th'[u].pc = th[u].pc,
         \A u \in Threads \ {t} : th'[u].wait = th[u].wait \ {t},
         \A f \in {fstack[n] : n \in 1 .. Len(fstack)} : f.t # t /\ Overlap(f, Entry(t)) => f.t \in th'[t].wait,
         UNCHANGED <<child, childLast, taint>>
  PROVE  DebtOK'
<1>1. \A u \in Threads, q \in Pages : Serves(th[u], q) => Serves(th'[u], q) /\ u # t
  <2>1. ThreadOK(th[t])
    BY Here
  <2>2. \A q : ~Serves(th[t], q)
    BY <2>1, NoServe
  <2> QED BY <2>2, AltersHolds DEF AllAlter
<1>2. ASSUME NEW v \in Threads, InFlush(th'[v]), NEW q \in Pages \ taint' PROVE Owes(th', v, q, child', childLast')
  <2>1. Alters(th[v], th'[v])
    BY DEF AllAlter
  <2>2. InFlush(th[v])
    BY <1>2, <2>1, AltersPc
  <2>3. Owes(th, v, q, child, childLast)
    BY <2>2 DEF CacheInv, DebtOK
  <2>4. th'[v].op = th[v].op /\ th'[v].old = th[v].old /\ th'[v].need = th[v].need /\ th'[v].ret = th[v].ret /\ th'[v].lo = th[v].lo
    BY <2>1 DEF Alters
  <2>5. CASE v # t
    <3>1. th'[v].pc = th[v].pc /\ th'[v].wait = th[v].wait \ {t}
      BY <2>5
    <3>2. Open(th, v, q) => Open(th', v, q)
      BY <1>1, <2>4, <3>1 DEF Open
    <3> QED BY <2>3, <2>4, <3>1, <3>2 DEF Owes
  <2>6. CASE v = t
    <3>1. child[q] \in Val /\ th[t].need[q] \in Val
      BY Here, NeedsLatest
    <3>2. ASSUME NEW s \in Slots, th[t].need[q][s] > 0, th[t].op = "flush" \/ th[t].ret = "load", Open(th, t, q) PROVE Open(th', t, q)
      <4>1. PICK u \in Threads : Serves(th[u], q)
        BY <3>2 DEF Open
      <4>2. u \in th'[t].wait
        BY <3>2, <4>1, PopWaits
      <4> QED BY <1>1, <4>1, <4>2 DEF Open
    <3>3. th[t].op = "flush" /\ q \notin th[t].old => AtLeast(child[q], th[t].need[q]) \/ Open(th', t, q)
      <4>1. CASE \E s \in Slots : th[t].need[q][s] > 0
        BY <2>3, <2>6, <3>2, <4>1 DEF Owes
      <4>2. CASE ~\E s \in Slots : th[t].need[q][s] > 0
        BY <3>1, <4>2, NoNeedMet
      <4> QED BY <4>1, <4>2
    <3>4. th[t].ret = "load" /\ (\E s \in Slots : th[t].need[q][s] > 0) => q <= childLast \/ Open(th', t, q)
      BY <2>3, <2>6, <3>2 DEF Owes
    <3> QED BY <2>4, <2>6, <3>3, <3>4 DEF Owes
  <2> QED BY <2>5, <2>6
<1> QED BY <1>2 DEF DebtOK

(* Everything but the stack and the debts.                                 *)
LEMMA AltersInv ==
  ASSUME CacheInv, AllAlter(th, th'), th' \in [Threads -> ThreadType], fstack' \in Seq(FlushEntry), StackOK', DebtOK',
         UNCHANGED <<c, child, childLast, childEnd, size, latest, acked, taint>>
  PROVE  CacheInv'
<1>1. TypesOK'
  BY DEF CacheInv, TypesOK
<1>2. ThreadsOK(th')
  <2>1. \A u \in Threads : ThreadOK(th[u])
    BY DEF CacheInv, ThreadsOK
  <2>2. \A u \in Threads : ThreadOK(th'[u])
    BY <2>1, AltersThread DEF AllAlter
  <2> QED BY <2>2 DEF ThreadsOK
<1>3. PagesOK'
  <2>1. \A q \in Pages : PageInv(c.pg[q], q, th', latest[q], child[q], taint)
    BY AltersPage DEF CacheInv, PagesOK
  <2> QED BY <2>1 DEF PagesOK
<1>4. ChildOK'
  <2>1. \A u \in Threads : ChildBy(th'[u], childLast, taint)
    BY AltersSays DEF AllAlter, CacheInv, ChildOK
  <2> QED BY <2>1 DEF CacheInv, ChildOK
<1>5. SizeOK'
  <2>1. \A u \in Threads : SizeBy(th'[u])
    BY AltersSays DEF AllAlter, CacheInv, SizeOK
  <2> QED BY <2>1 DEF CacheInv, SizeOK
<1>6. VersionOK'
  <2>1. \A u \in Threads : VersionBy(th'[u], latest, acked, taint)
    BY AltersSays DEF AllAlter, CacheInv, VersionOK
  <2> QED BY <2>1 DEF CacheInv, VersionOK
<1>7. SettledOK'
  <2>1. \A u \in Threads : (Ended(th'[u]) => Ended(th[u])) /\ th'[u].page = th[u].page /\ th'[u].got = th[u].got
    BY AltersSays DEF AllAlter, Alters
  <2> QED BY <2>1 DEF CacheInv, SettledOK
<1>8. CopiesOK'
  <2>1. \A u \in Threads : /\ InFlush(th'[u]) => InFlush(th[u])
                           /\ th'[u].op = th[u].op /\ th'[u].old = th[u].old /\ th'[u].need = th[u].need /\ th'[u].held = th[u].held
    BY AltersPc DEF AllAlter, Alters
  <2> QED BY <2>1 DEF CacheInv, CopiesOK
<1> QED BY <1>1, <1>2, <1>3, <1>4, <1>5, <1>6, <1>7, <1>8 DEF CacheInv

Rewaits(g, f, W) == f = [g EXCEPT !.wait = W]
LEMMA RewaitThread ==
  ASSUME NEW g \in ThreadType, NEW W \in SUBSET Threads, NEW f, Rewaits(g, f, W)
  PROVE  f \in ThreadType /\ Alters(g, f) /\ f.pc = g.pc /\ f.wait = W
BY Zenon DEF ThreadType, Alters, Rewaits
Offs(g, f, W) == f = [g EXCEPT !.pc = "fw2", !.wait = W]
LEMMA OffsThread ==
  ASSUME NEW g \in ThreadType, g.pc = "fw1", NEW W \in SUBSET Threads, NEW f, Offs(g, f, W)
  PROVE  f \in ThreadType /\ Alters(g, f) /\ f.pc = "fw2" /\ f.wait = W
<1>1. f \in ThreadType
  BY Zenon DEF Offs, ThreadType, PcNames, FlushPcs
<1>2. f.pc = "fw2"
  BY Zenon DEF Offs, ThreadType
<1>3. f.wait = W
  BY Zenon DEF Offs, ThreadType
<1>4. f.op = g.op /\ f.page = g.page /\ f.bytes = g.bytes /\ f.slot = g.slot /\ f.lo = g.lo /\ f.hi = g.hi
  BY Zenon DEF Offs, ThreadType
<1>5. f.held = g.held /\ f.wrote = g.wrote /\ f.ret = g.ret /\ f.need = g.need /\ f.old = g.old /\ f.got = g.got
  BY Zenon DEF Offs, ThreadType
<1>6. Alters(g, f)
  BY <1>2, <1>4, <1>5 DEF Alters
<1> QED BY ONLY <1>1, <1>2, <1>3, <1>6

LEMMA FlushPopInv ==
  ASSUME CacheInv, NEW t \in Threads, FlushPop(t)
  PROVE  CacheInv'
<1> DEFINE others == {f \in {fstack[n] : n \in 1 .. Len(fstack)} : f.t # t /\ Overlap(f, Entry(t))}
           W == {f.t : f \in others}
           n0 == CHOOSE n \in 1 .. Len(fstack) : fstack[n].t = t
<1>1. /\ th[t].pc = "fw1" /\ UNCHANGED <<c, child, childLast, childEnd, size, latest, acked, taint>>
      /\ fstack' = [m \in 1 .. Len(fstack) - 1 |-> fstack[IF m < n0 THEN m ELSE m + 1]]
      /\ th' = [u \in Threads |-> IF u = t THEN [th[t] EXCEPT !.pc = "fw2", !.wait = W] ELSE [th[u] EXCEPT !.wait = @ \ {t}]]
  BY Zenon DEF FlushPop, At, HistorySame, ChildSame
<1>2. W \subseteq Threads /\ \A f \in {fstack[n] : n \in 1 .. Len(fstack)} : f.t # t /\ Overlap(f, Entry(t)) => f.t \in W
  BY EntryHere
<1>3. n0 \in 1 .. Len(fstack) /\ fstack[n0].t = t
  <2>1. \E n \in 1 .. Len(fstack) : fstack[n].t = t
    BY <1>1, Zenon DEF CacheInv, StackOK, StackPcs
  <2> QED BY <2>1
<1> HIDE DEF W, n0
<1>4. \A u \in Threads : th[u] \in ThreadType /\ th[u].wait \subseteq Threads
  BY Here, Zenon DEF ThreadType
<1>5. th'[t] \in ThreadType /\ Alters(th[t], th'[t]) /\ th'[t].pc = "fw2" /\ th'[t].wait = W
  <2> DEFINE f == th'[t]
  <2>1. f = [th[t] EXCEPT !.pc = "fw2", !.wait = W]
    BY <1>1
  <2> HIDE DEF f
  <2>2. Offs(th[t], f, W)
    BY <2>1 DEF Offs
  <2>3. f \in ThreadType /\ Alters(th[t], f) /\ f.pc = "fw2" /\ f.wait = W
    BY <1>1, <1>2, <1>4, <2>2, OffsThread
  <2> QED BY <2>3 DEF f
<1>6. ASSUME NEW u \in Threads \ {t} PROVE th'[u] \in ThreadType /\ Alters(th[u], th'[u]) /\ th'[u].pc = th[u].pc /\ th'[u].wait = th[u].wait \ {t}
  <2> DEFINE f == th'[u]
             V == th[u].wait \ {t}
  <2>1. Rewaits(th[u], f, V) /\ V \in SUBSET Threads
    BY <1>1, <1>4 DEF Rewaits
  <2> HIDE DEF f, V
  <2>2. f \in ThreadType /\ Alters(th[u], f) /\ f.pc = th[u].pc /\ f.wait = V
    BY <1>4, <2>1, RewaitThread
  <2> QED BY <2>2 DEF f, V
<1>7. AllAlter(th, th')
  BY <1>5, <1>6 DEF AllAlter
<1>8. th' \in [Threads -> ThreadType]
  <2>1. \A u \in Threads : th'[u] \in ThreadType
    BY <1>5, <1>6
  <2>2. th' = [u \in Threads |-> th'[u]]
    BY <1>1
  <2> QED BY <2>1, <2>2
<1>9. StackOK' /\ fstack' \in Seq(FlushEntry)
  <2>1. Popped(fstack, fstack', n0)
    BY <1>1 DEF Popped
  <2> QED BY <1>3, <1>5, <1>6, <1>7, <2>1, PopStack
<1>10. DebtOK'
  BY <1>1, <1>2, <1>5, <1>6, <1>7, PopDebt
<1> QED BY <1>1, <1>7, <1>8, <1>9, <1>10, AltersInv

-----------------------------------------------------------------------------
(* A flush ends: what it needed is in the child.                           *)
Ends(g, f, pc, x) == f = [g EXCEPT !.pc = pc, !.ret = "", !.lo = x, !.hi = x]
Finishes(g, f, pc) == f = [g EXCEPT !.pc = pc, !.ret = ""]
Bounds(g, f, x) == f = [g EXCEPT !.lo = x, !.hi = x]
EndedAs(g, f, pc) ==
  /\ f \in ThreadType /\ Kin(g, f) /\ f.pc = pc /\ f.held = g.held /\ f.ret = "" /\ f.slot = g.slot
  /\ f.old = g.old /\ f.wrote = g.wrote
LEMMA FinishesThread ==
  ASSUME NEW g \in ThreadType, NEW pc \in PcNames, NEW f, Finishes(g, f, pc)
  PROVE  EndedAs(g, f, pc)
<1>1. f \in ThreadType
  BY Zenon DEF ThreadType, Finishes
<1> QED BY <1>1, Zenon DEF ThreadType, Finishes, EndedAs, Kin
LEMMA BoundsThread ==
  ASSUME NEW g \in ThreadType, NEW x \in Int, NEW f, Bounds(g, f, x), g.ret = ""
  PROVE  EndedAs(g, f, g.pc)
<1>1. f \in ThreadType
  BY Zenon DEF ThreadType, Bounds
<1> QED BY <1>1, Zenon DEF ThreadType, Bounds, EndedAs, Kin
LEMMA EndsThread ==
  ASSUME NEW g \in ThreadType, NEW pc \in PcNames, NEW x \in Int, NEW f, Ends(g, f, pc, x)
  PROVE  EndedAs(g, f, pc)
<1> DEFINE g1 == [g EXCEPT !.pc = pc, !.ret = ""]
<1>1. Finishes(g, g1, pc) /\ Bounds(g1, f, x)
  BY DEF Ends, Finishes, Bounds
<1> HIDE DEF g1
<1>2. EndedAs(g, g1, pc)
  BY <1>1, FinishesThread
<1>3. g1 \in ThreadType /\ g1.ret = "" /\ g1.pc = pc
  BY <1>2, Zenon DEF EndedAs
<1>4. EndedAs(g1, f, g1.pc)
  BY <1>1, <1>3, BoundsThread, Zenon
<1> QED BY <1>2, <1>3, <1>4, Zenon DEF EndedAs, Kin

LEMMA WaitOver ==
  ASSUME NEW T, NEW t, T[t].pc = "fw2", T[t].wait = {}, NEW q
  PROVE  ~Open(T, t, q)
BY DEF Open

(* A flush for its own sake.                                               *)
LEMMA FlushDone ==
  ASSUME CacheInv, Still, c' = c, NEW t \in Threads, th[t].pc = "fw2", th[t].wait = {}, th[t].op = "flush",
         NEW f, EndedAs(th[t], f, "done"), th' = [th EXCEPT ![t] = f]
  PROVE  CacheInv'
<1> DEFINE g == th[t]
<1>1. g \in ThreadType /\ ThreadOK(g) /\ ThreadsOK(th) /\ CacheOK(c)
  BY Here
<1>2. g.held = {} /\ (\A q : ~Serves(g, q)) /\ g.ret = "" /\ g.pc \notin StackPcs
  <2>1. g.pc \notin {"dwait", "fio"} /\ g.pc \in FlushPcs /\ g.pc \notin StackPcs
    BY DEF FlushPcs, StackPcs
  <2>2. g.ret = ""
    BY <1>1, <2>1, Zenon DEF ThreadOK
  <2> QED BY <1>1, <2>1, <2>2, NoServe, Zenon
<1>3. /\ f \in ThreadType /\ f.op = "flush" /\ f.need = g.need /\ f.old = g.old /\ f.pc = "done" /\ f.held = {} /\ f.page = g.page
      /\ f.bytes = g.bytes
  BY <1>2, Zenon DEF EndedAs, Kin
<1>4. ThreadOK(f)
  BY <1>3 DEF ThreadOK, ReadPcs, WritePcs, ForcePcs, FlushPcs, StackPcs
<1>5. \A r \in Pages : Away(g, r) /\ Away(f, r)
  <2>1. g.pc \in {"fstart", "fscan", "fw1", "fw2"} /\ g.ret # "load" /\ f.pc \in FreePcs
    BY <1>2, <1>3, Zenon DEF FreePcs
  <2> QED BY <1>1, <1>4, <2>1, AwayFrom
<1>6. PagesMove /\ ThreadsOK(th') /\ Goes(th, t, f, th')
  <2>1. CacheOK(c') /\ c'.pg = c.pg
    BY <1>1
  <2> QED BY <1>3, <1>4, <1>5, <2>1, FreeMove
<1>7. th'[t] = f /\ \A u \in Threads \ {t} : th'[u] = th[u]
  BY ONLY <1>6, GoesSays, t \in Threads
<1>8. taint' = taint /\ latest' = latest /\ child' = child /\ childLast' = childLast /\ UNCHANGED <<fstack, childEnd, size, acked>>
  BY DEF Still
<1>9. TypesOK'
  BY <1>8 DEF CacheInv, TypesOK
<1>10. ChildOK'
  <2>1. ChildBy(f, childLast, taint')
    BY <1>3 DEF ChildBy, Loading
  <2> QED BY <1>6, <1>8, <2>1, ChildStep DEF CacheInv
<1>11. StackOK'
  <2>1. \A n \in 1 .. Len(fstack) : fstack[n].t \in Threads \ {t}
    <3> TAKE n \in 1 .. Len(fstack)
    <3>1. fstack[n].t \in Threads
      BY EntryHere
    <3> QED BY <1>2, <3>1, Zenon DEF CacheInv, StackOK, StackBy
  <2>2. \A n \in 1 .. Len(fstack) : StackBy(fstack[n], th'[fstack[n].t])
    BY <1>7, <2>1 DEF CacheInv, StackOK
  <2>3. \A u \in Threads : th'[u].pc \in StackPcs => \E n \in 1 .. Len(fstack) : fstack[n].t = u
    BY <1>3, <1>7 DEF CacheInv, StackOK, StackPcs
  <2> QED BY <1>8, <2>2, <2>3 DEF CacheInv, StackOK
<1>12. \A u \in Threads : /\ th'[u].held = th[u].held /\ th'[u].op = th[u].op /\ th'[u].need = th[u].need /\ th'[u].old = th[u].old
                          /\ InFlush(th'[u]) => InFlush(th[u])
  <2>1. InFlush(g)
    BY DEF InFlush
  <2> QED BY <1>2, <1>3, <1>7, <2>1, Zenon
<1>13. CopiesOK'
  BY <1>8, <1>12, ZenonT(60) DEF CacheInv, CopiesOK
<1>14. childLast \in Int
  BY DEF CacheInv, TypesOK
<1>15. DebtOK'
  <2>1. ASSUME NEW v \in Threads \ {t}, InFlush(th'[v]), NEW r \in Pages \ taint' PROVE Owes(th', v, r, child', childLast')
    <3>1. \A x \in Pages \ taint' : Serves(th[t], x) => Serves(f, x) \/ x <= childLast'
      BY <1>2, Zenon
    <3>2. \A w \in Threads \ {t}, x \in Pages \ taint' :
            InFlush(th[w]) /\ th[w].op = "flush" /\ x \notin th[w].old =>
              /\ Serves(th[t], x) => Serves(f, x) \/ AtLeast(child'[x], th[w].need[x])
              /\ AtLeast(child[x], th[w].need[x]) => AtLeast(child'[x], th[w].need[x])
      BY <1>2, <1>8, Zenon
    <3>3. taint \subseteq taint' /\ childLast' \in Int /\ childLast <= childLast'
      BY <1>8, <1>14
    <3> QED BY <1>6, <1>14, <2>1, <3>1, <3>2, <3>3, DebtOther
  <2>2. ASSUME NEW r \in Pages \ taint' PROVE Owes(th', t, r, child', childLast')
    <3>1. Owes(th, t, r, child, childLast)
      <4>1. InFlush(g) /\ r \in Pages \ taint
        BY <1>8 DEF InFlush
      <4> QED BY <4>1 DEF CacheInv, DebtOK
    <3>2. ~Open(th, t, r)
      BY WaitOver
    <3> QED BY <1>3, <1>7, <1>8, <3>1, <3>2 DEF Owes
  <2> QED BY <2>1, <2>2 DEF DebtOK
<1>16. SizeBy(f) /\ (\A r \in Pages : AtLeast(acked[r], f.need[r]))
  <2>1. SizeBy(f)
    BY <1>3 DEF SizeBy
  <2> QED BY <1>3, <2>1, NeedsLatest
<1> QED BY <1>3, <1>6, <1>8, <1>9, <1>10, <1>11, <1>13, <1>15, <1>16, FlushCore

(* The page that a read loads after its flush is in the child.             *)
LEMMA Flushed ==
  ASSUME CacheInv, NEW t \in Threads, th[t].pc = "fw2", th[t].wait = {}, th[t].op = "read", th[t].ret = "load"
  PROVE  th[t].page <= childLast \/ \E r \in taint : r >= th[t].page
<1>1. th[t].page \in Int /\ childEnd \in Int /\ childLast \in Int /\ ChildPages \in Int
  BY Here, PagesHere, CacheAssumption DEF CacheInv, TypesOK
<1>2. SizeBy(th[t])
  BY DEF CacheInv, SizeOK
<1>3. CASE th[t].page < ChildPages
  <2>1. ChildPages - 1 <= childEnd /\ childEnd <= childLast
    BY DEF CacheInv, ChildOK
  <2> QED BY <1>1, <1>3, <2>1
<1>4. CASE \E r \in Pages, s \in Slots : th[t].page <= r /\ th[t].need[r][s] > 0
  <2>1. PICK r \in Pages, s \in Slots : th[t].page <= r /\ th[t].need[r][s] > 0
    BY <1>4
  <2>2. r \in Int
    BY PagesHere
  <2>3. CASE r \in taint
    BY <1>1, <2>1, <2>2, <2>3
  <2>4. CASE r \notin taint
    <3>1. Owes(th, t, r, child, childLast)
      BY <2>4 DEF CacheInv, DebtOK, InFlush
    <3>2. ~Open(th, t, r)
      BY WaitOver
    <3>3. r <= childLast
      BY <2>1, <3>1, <3>2 DEF Owes
    <3> QED BY <1>1, <2>1, <2>2, <3>3
  <2> QED BY <2>3, <2>4
<1> QED BY <1>2, <1>3, <1>4 DEF SizeBy

(* A flush inside a read or a write.                                       *)
LEMMA FlushBack ==
  ASSUME CacheInv, Still, c' = c, NEW t \in Threads, th[t].pc = "fw2", th[t].wait = {}, th[t].op # "flush",
         NEW f, EndedAs(th[t], f, th[t].ret), th' = [th EXCEPT ![t] = f]
  PROVE  CacheInv'
<1> DEFINE g == th[t]
<1>1. g \in ThreadType /\ ThreadOK(g) /\ ThreadsOK(th) /\ CacheOK(c)
  BY Here
<1>2. /\ g.held = {} /\ g.pc \notin StackPcs
      /\ (g.op = "read" /\ g.ret \in {"load", "mem"}) \/ (g.op = "write" /\ g.ret = "mem")
  <2>1. g.pc \notin {"dwait", "fio"} /\ g.pc \in FlushPcs /\ g.pc \notin StackPcs
    BY DEF FlushPcs, StackPcs
  <2>2. (g.op = "read" /\ g.ret \in {"load", "mem"}) \/ (g.op = "write" /\ g.ret = "mem")
    BY <1>1, <2>1, Zenon DEF ThreadOK
  <2> QED BY <1>1, <2>1, <2>2, NoServe
<1>3. /\ f \in ThreadType /\ Kin(g, f) /\ f.op = g.op /\ f.pc = g.ret /\ f.held = {} /\ f.page = g.page /\ f.slot = g.slot
      /\ f.bytes = g.bytes /\ f.wrote = g.wrote
  BY <1>2, Zenon DEF EndedAs, Kin
<1>4. ThreadOK(f)
  <2>1. f.op = "write" => f.bytes # {}
    BY <1>1, <1>3 DEF ThreadOK
  <2> QED BY <1>2, <1>3, <2>1, Zenon DEF ThreadOK, ReadPcs, WritePcs, ForcePcs, FlushPcs, StackPcs
<1>5. ThreadsOK(th') /\ Goes(th, t, f, th')
  BY <1>1, <1>3, <1>4, ThreadsMove
<1>6. ASSUME NEW r \in Pages PROVE Quiet(g, f, r)
  <2>1. CASE g.ret = "mem"
    <3>1. g.pc \in {"fstart", "fscan", "fw1", "fw2"} /\ g.ret # "load" /\ f.pc \in FreePcs
      BY <1>3, <2>1 DEF FreePcs
    <3>2. Away(g, r) /\ Away(f, r)
      BY <1>1, <1>4, <3>1, AwayFrom
    <3> QED BY <3>2 DEF Quiet
  <2>2. CASE g.ret = "load"
    <3>1. g.op = "read" /\ f.op = "read" /\ f.pc = "load" /\ g.pc = "fw2" /\ f.page = g.page
      BY <1>2, <1>3, <2>2
    <3>2. Rd(f, r) = (f.page = r) /\ Rd(g, r) = (g.page = r)
      BY <2>2, <3>1 DEF Rd, FlushPcs
    <3>3. Loads(f, r) = (f.page = r) /\ Loads(g, r) = (g.page = r)
      BY <2>2, <3>1 DEF Loads, FlushPcs
    <3>4. Wr(f, r) = FALSE /\ Wr(g, r) = FALSE
      BY <3>1 DEF Wr
    <3>5. Fl(f, r) = FALSE /\ Fl(g, r) = FALSE
      BY <1>2, <1>3, <3>1 DEF Fl
    <3>6. g.pc \notin Direct /\ f.pc \notin Direct
      BY <3>1 DEF Direct
    <3>7. Same(g, f, r)
      BY <1>3, <3>1, <3>2, <3>3, <3>4, <3>5, <3>6 DEF Same
    <3> QED BY <3>7 DEF Quiet
  <2> QED BY <1>2, <2>1, <2>2
<1>7. PagesMove
  <2>1. \A r \in Pages : /\ c'.pg[r] = c.pg[r] /\ Quiet(th[t], f, r)
                         /\ latest'[r] = latest[r] /\ child'[r] = child[r]
    BY <1>6 DEF Still
  <2>2. taint \subseteq taint'
    BY DEF Still
  <2> QED BY <1>4, <1>5, <2>1, <2>2, NoMove
<1>8. f.pc \notin StackPcs \cup {"fw2", "rrel", "done"} /\ ~Copied(f) /\ ~Ended(f)
  BY <1>2, <1>3 DEF StackPcs, Copied, Ended
<1>9. Loading(f) => f.page <= childLast \/ \E r \in taint : r >= f.page
  <2> SUFFICES ASSUME Loading(f) PROVE f.page <= childLast \/ \E r \in taint : r >= f.page
    OBVIOUS
  <2>1. g.ret = "load" /\ g.op = "read"
    BY <1>2, <1>3 DEF Loading
  <2> QED BY <1>3, <2>1, Flushed
<1>10. CacheOK(c')
  BY <1>1
<1> QED BY <1>2, <1>3, <1>5, <1>7, <1>8, <1>9, <1>10, KinStep

LEMMA FlushEndInv ==
  ASSUME CacheInv, NEW t \in Threads, FlushEnd(t)
  PROVE  CacheInv'
<1> DEFINE g == th[t]
           pc == IF g.op = "flush" THEN "done" ELSE g.ret
           f == [g EXCEPT !.pc = pc, !.ret = "", !.lo = 0, !.hi = 0]
<1>1. g.pc = "fw2" /\ g.wait = {} /\ c' = c /\ Still /\ th' = [th EXCEPT ![t] = f]
  BY DEF FlushEnd, At, Set, HistorySame, OthersSame, ChildSame, Still
<1>2. g \in ThreadType /\ ThreadOK(g)
  BY Here
<1>3. pc \in PcNames
  <2>1. g.op # "flush" => g.ret \in {"load", "mem"}
    BY <1>1, <1>2, Zenon DEF ThreadOK, FlushPcs
  <2> QED BY <2>1 DEF PcNames, ForcePcs
<1>4. EndedAs(g, f, pc)
  <2> HIDE DEF pc
  <2>1. PICK x : x = 0
    OBVIOUS
  <2>2. x \in Int /\ Ends(g, f, pc, x)
    BY <2>1 DEF Ends
  <2> HIDE DEF f
  <2> QED BY <1>2, <1>3, <2>2, EndsThread
<1> HIDE DEF f
<1>5. CASE g.op = "flush"
  <2>1. EndedAs(th[t], f, "done")
    BY <1>4, <1>5
  <2> QED BY <1>1, <1>5, <2>1, FlushDone
<1>6. CASE g.op # "flush"
  <2>1. EndedAs(th[t], f, th[t].ret)
    BY <1>4, <1>6
  <2> QED BY <1>1, <1>6, <2>1, FlushBack
<1> QED BY <1>5, <1>6

-----------------------------------------------------------------------------
(* The invariant holds initially.                                          *)
LEMMA FreshPage ==
  ASSUME NEW T, \A t \in Threads : T[t] = Idle, NEW q
  PROVE  PageInv(Absent, q, T, Zero, Zero, {})
<1>1. Away(Idle, q) /\ ~Fills(Idle, q) /\ ~Loads(Idle, q)
  <2>1. ThreadOK(Idle) /\ Idle.pc \in FreePcs
    BY IdleType, Zenon DEF FreePcs
  <2>2. Away(Idle, q)
    BY <2>1, AwayFrom
  <2>3. ~Fills(Idle, q)
    BY <2>1, <2>2, AwayFits
  <2> QED BY <2>2, <2>3, WrFills
<1>2. RdBy(T, q) = {} /\ WrBy(T, q) = {} /\ FlBy(T, q) = {}
  BY <1>1 DEF RdBy, WrBy, FlBy, Away
<1>3. PCounts(Absent, q, T)
  BY <1>2, AbsentType, FS_EmptySet DEF PCounts
<1>4. Idle.pc = "idle" /\ Idle.held = {}
  BY IdleType, Zenon
<1>5. \A p : OwnBy(Idle, p, q)
  BY <1>1, <1>4 DEF OwnBy
<1>6. POwn(Absent, q, T)
  BY <1>5, AbsentType DEF POwn
<1>7. \A p : DataBy(Idle, p, q, Zero, Zero)
  BY <1>1, <1>4 DEF DataBy
<1>8. PData(Absent, q, T, Zero, Zero, {})
  BY <1>7, AbsentType DEF PData
<1> QED BY <1>3, <1>6, <1>8, AbsentType DEF PageInv

LEMMA ZeroSays == Zero \in Val /\ (\A s \in Slots : Zero[s] = 0) /\ AtLeast(Zero, Zero)
<1>1. Zero \in Val /\ \A s \in Slots : Zero[s] = 0
  BY DEF Zero, Val
<1> QED BY <1>1, AtLeastSelf

LEMMA InitInv ==
  ASSUME Init
  PROVE  CacheInv
<1>1. /\ \A t \in Threads : th[t] = Idle
      /\ th \in [Threads -> ThreadType]
      /\ fstack = <<>> /\ taint = {} /\ size = 2 * ChildPages /\ childLast = ChildPages - 1 /\ childEnd = ChildPages - 1
      /\ child = NoNeed /\ latest = NoNeed /\ acked = NoNeed
  BY IdleType, Zenon DEF Init
<1>2. NoNeed \in [Pages -> Val] /\ \A q \in Pages : NoNeed[q] = Zero
  BY IdleType, Zenon
<1>3. CacheOK(c) /\ \A q \in Pages : c.pg[q] = Absent
  BY AbsentType DEF Init, CacheOK
<1>4. ChildPages \in Nat /\ ChildPages >= 1
  BY CacheAssumption
<1>5. TypesOK
  BY <1>1, <1>2, <1>3, <1>4 DEF TypesOK
<1>6. ThreadsOK(th)
  BY <1>1, IdleType, Zenon DEF ThreadsOK
<1>7. PagesOK
  <2>1. \A q \in Pages : PageInv(Absent, q, th, Zero, Zero, {})
    BY <1>1, FreshPage
  <2> QED BY <1>1, <1>2, <1>3, <2>1 DEF PagesOK
<1>8. Idle.pc = "idle" /\ Idle.held = {} /\ Idle.op = "idle" /\ Idle.need = NoNeed
  BY IdleType, Zenon
<1>9. ChildOK
  <2>1. \A last, bad : ChildBy(Idle, last, bad)
    BY <1>8 DEF ChildBy, Loading
  <2> QED BY <1>1, <1>2, <1>4, <2>1 DEF ChildOK
<1>10. SizeOK
  <2>1. \A q \in Pages, s \in Slots : acked[q][s] = 0
    BY <1>1, <1>2, ZeroSays
  <2> QED BY <1>1, <1>4, <2>1, SizeByIdle DEF SizeOK
<1>11. VersionOK
  <2>1. Bounded(latest)
    <3>1. \A q \in Pages, s \in Slots : latest[q][s] <= 0
      BY <1>1, <1>2, ZeroSays
    <3> QED BY <3>1 DEF Bounded
  <2>2. \A q \in Pages : AtLeast(latest[q], acked[q]) /\ AtLeast(acked[q], Idle.need[q])
    BY <1>1, <1>2, <1>8, ZeroSays
  <2>3. VersionBy(Idle, latest, acked, taint)
    BY <1>8, <2>2, SizeByIdle DEF VersionBy
  <2> QED BY <1>1, <2>1, <2>2, <2>3 DEF VersionOK
<1>12. SettledOK
  BY <1>1, <1>2, ZeroSays, SizeByIdle DEF SettledOK
<1>13. StackOK
  <2>1. 1 .. Len(fstack) = {}
    BY <1>1
  <2>2. \A t \in Threads : th[t].pc \notin StackPcs
    BY <1>1, <1>8 DEF StackPcs
  <2> QED BY <2>1, <2>2 DEF StackOK
<1>14. \A t \in Threads : ~InFlush(th[t])
  BY <1>1, <1>8 DEF InFlush, StackPcs
<1>15. CopiesOK /\ DebtOK
  BY <1>14 DEF CopiesOK, DebtOK
<1> QED BY <1>5, <1>6, <1>7, <1>9, <1>10, <1>11, <1>12, <1>13, <1>15 DEF CacheInv

(* Every step keeps it.                                                    *)
LEMMA StartInv ==
  ASSUME CacheInv, NEW t \in Threads, Start(t)
  PROVE  CacheInv'
<1>1. ASSUME NEW r \in Reads \cup Writes PROVE r[1] \in Pages /\ r[2] \subseteq Slots /\ r[2] # {}
  <2>1. r \in Pages \X ((SUBSET Slots) \ {{}})
    BY CacheAssumption DEF Pages, Slots
  <2> QED BY <2>1
<1>2. CASE \E r \in Reads : ReadStart(t, r[1], r[2])
  <2>1. PICK r \in Reads : ReadStart(t, r[1], r[2])
    BY <1>2
  <2>2. r[1] \in Pages /\ r[2] \subseteq Slots /\ r[2] # {}
    BY <1>1
  <2> QED BY <2>1, <2>2, ReadStartInv
<1>3. CASE \E w \in Writes : WriteStart(t, w[1], w[2])
  <2>1. PICK w \in Writes : WriteStart(t, w[1], w[2])
    BY <1>3
  <2>2. w[1] \in Pages /\ w[2] \subseteq Slots /\ w[2] # {}
    BY <1>1
  <2> QED BY <2>1, <2>2, WriteStartInv
<1>4. CASE FlushStart(t) \/ DirtyThread(t)
  BY <1>4, FlushStartInv
<1> QED BY <1>2, <1>3, <1>4 DEF Start

LEMMA StepInv ==
  ASSUME CacheInv, NEW t \in Threads, Step(t)
  PROVE  CacheInv'
<1>1. CASE ReadGet(t) \/ ReadWake(t) \/ Advise(t) \/ ReadCopy(t) \/ ReadRelease(t)
  BY <1>1, ReadGetInv, ReadWakeInv, AdviseInv, ReadCopyInv, ReadReleaseInv
<1>2. CASE ForceStart(t) \/ ForceWake(t) \/ ForceCreate(t)
  BY <1>2, ForceStartInv, ForceWakeInv, ForceCreateInv
<1>3. CASE MemMark(t) \/ MemWait(t) \/ MemWake(t) \/ Load(t)
  BY <1>3, MemMarkInv, MemInv, LoadInv
<1>4. CASE WritePresent(t) \/ WriteWake(t) \/ WriteAbsent(t) \/ WriteHold(t)
  BY <1>4, WritePresentInv, WriteWakeInv, WriteAbsentInv, WriteHoldInv
<1>5. CASE WriteCopy(t) \/ WriteRelease(t) \/ WriteEnd(t)
  BY <1>5, WriteCopyInv, WriteReleaseInv, WriteEndInv
<1>6. CASE FlushPush(t) \/ FlushScan(t) \/ DirtyWake(t) \/ FlushWrite(t) \/ FlushRelease(t)
  BY <1>6, FlushPushInv, FlushScanInv, DirtyWakeInv, FlushWriteInv, FlushReleaseInv
<1>7. CASE FlushPop(t) \/ FlushEnd(t) \/ Return(t)
  BY <1>7, FlushPopInv, FlushEndInv, ReturnInv
<1> QED BY <1>1, <1>2, <1>3, <1>4, <1>5, <1>6, <1>7 DEF Step

LEMMA NextInv ==
  ASSUME CacheInv, [Next]_vars
  PROVE  CacheInv'
<1>1. CASE UNCHANGED vars
  BY <1>1, Idles DEF vars
<1>2. CASE Halted
  BY <1>2, Idles DEF Halted, vars
<1>3. CASE Spawned
  <2>1. PICK d \in Daemons, q \in Pages : SpawnStart(d, q)
    BY <1>3 DEF Spawned
  <2>2. d \in Threads
    BY DEF Threads
  <2> QED BY <2>1, <2>2, SpawnStartInv
<1>4. CASE \E t \in Threads : Start(t) \/ Step(t)
  BY <1>4, StartInv, StepInv
<1> QED BY <1>1, <1>2, <1>3, <1>4 DEF Next

(* The page cache keeps CacheInv, with any number of threads, pages and    *)
(* requests, any memory limit and any child failures.                      *)
THEOREM CacheInvariant == Spec => []CacheInv
<1>1. Init => CacheInv
  BY InitInv
<1>2. CacheInv /\ [Next]_vars => CacheInv'
  BY NextInv
<1> QED BY <1>1, <1>2, PTL DEF Spec

(* No write is lost between cache and child, whatever loads, flushes,      *)
(* copies on write and evictions overlap: the newest bytes of a page are   *)
(* in its current copy or, with no page, in the child, and what            *)
(* _amp_free_mem may evict equals the child.                               *)
THEOREM NewestIsKept == Spec => []NewestKept
<1>1. CacheInv => NewestKept
  BY DEF CacheInv, PagesOK, PageInv, PData, NewestKept
<1> QED BY <1>1, CacheInvariant, PTL

(* cache_rw_func: a read returns no byte older than a write that had       *)
(* returned when the read began.                                           *)
THEOREM ReadsAreFresh == Spec => []ReadsFresh
<1>1. CacheInv => ReadsFresh
  <2> SUFFICES ASSUME CacheInv, NEW t \in Threads, th[t].pc = "done", th[t].op = "read", NEW s \in th[t].bytes,
                      th[t].page \notin taint
               PROVE  th[t].got[s] >= th[t].need[th[t].page][s]
    BY DEF ReadsFresh
  <2>1. th[t].bytes \subseteq Slots
    BY Here, Zenon DEF ThreadType
  <2>2. AtLeast(th[t].got, th[t].need[th[t].page])
    BY DEF CacheInv, VersionOK, VersionBy
  <2> QED BY <2>1, <2>2 DEF AtLeast
<1> QED BY <1>1, CacheInvariant, PTL

(* cache_flush_range_func: when a flush returns, every write that had      *)
(* returned when it began is in the child, those on pages that other       *)
(* flushes were writing too, for which flush_wait makes it wait.           *)
THEOREM FlushesReachChild == Spec => []FlushReachesChildUnlessCopied
<1>1. CacheInv => FlushReachesChildUnlessCopied
  <2> SUFFICES ASSUME CacheInv, NEW t \in Threads, th[t].pc = "done", th[t].op = "flush",
                      NEW q \in Pages \ (taint \cup th[t].old), NEW s \in Slots
               PROVE  child[q][s] >= th[t].need[q][s]
    BY DEF FlushReachesChildUnlessCopied
  <2>1. Owes(th, t, q, child, childLast)
    BY DEF CacheInv, DebtOK, InFlush
  <2>2. ~Open(th, t, q)
    BY DEF Open
  <2> QED BY <2>1, <2>2 DEF Owes, AtLeast
<1> QED BY <1>1, CacheInvariant, PTL
================================================================================
