------------------------------ MODULE SegmentCache ------------------------------
(***************************************************************************)
(* The page cache in front of a segment: segment_cache.c, with the AMP     *)
(* cache manager of cache_amp.c supplying and evicting pages.  Threads     *)
(* read, write and flush; a page is loaded from, and flushed to, the child *)
(* segment outside the cache lock, so the page's bits and access_pending   *)
(* counters are what keeps loads, flushes, copy-on-write, evictions and    *)
(* accesses apart.  One action is one hold of the cache lock.              *)
(*                                                                         *)
(* Abstracted: a page has two bytes; a request touches bytes of one page   *)
(* (the splitting of longer requests is left out); a byte's value is the   *)
(* number of the write that stored it (0: the initial zero); sizes are in  *)
(* bytes, the memory counters in pages.  The LRU order and AMP's streams   *)
(* only decide WHICH page goes next, so any linked page may be the victim. *)
(* Partial pages are off (n_ppages = 0).                                   *)
(***************************************************************************)
EXTENDS Integers, Sequences, FiniteSets

CONSTANTS
  NPages,        \* pages of the file
  Users,         \* threads that read, write and flush
  Daemons,       \* threads that run the dirty thread's and spawned flushes
  MaxPages,      \* cp->max_bytes, in pages
  OverflowPages, \* write_temp_overflow_size, in pages
  ChildPages,    \* pages of the child segment when the cache is opened
  ChildFails,    \* may a child read or write fail?
  Reads, Writes, \* the requests made: <<page, set of bytes>>
  MaxOps         \* bound: user operations started

ASSUME CacheAssumption ==
  /\ NPages \in Nat \ {0}
  /\ MaxPages \in Nat \ {0}
  /\ OverflowPages \in Nat
  /\ ChildPages \in 1 .. NPages
  /\ ChildFails \in BOOLEAN
  /\ Reads \cup Writes \subseteq (0 .. NPages - 1) \X ((SUBSET {0, 1}) \ {{}})
  /\ MaxOps \in Nat
  /\ IsFiniteSet(Users \cup Daemons)
  /\ Users \cap Daemons = {}

VARIABLES
  c,         \* the cache: its page table, memory counters, queued flushes
  th,        \* th[t]: what thread t is doing
  woken,     \* waiting threads that were signalled
  fstack,    \* s->flush_stack, oldest flush first
  child,     \* the child segment's content
  childLast, \* s->child_last_page, in pages (-1: none)
  childEnd,  \* the child segment's last page
  size,      \* s->total_size
  ops,       \* operations started
  latest,    \* history: per byte, the newest write copied in
  acked,     \* history: per byte, the newest write that returned
  taint,     \* history: pages whose child read or write failed
  halted     \* a NULL page buffer was used

vars == <<c, th, woken, fstack, child, childLast, childEnd, size, ops, latest, acked, taint, halted>>

Threads == Users \cup Daemons
Pages == 0 .. NPages - 1
Slots == {0, 1}
Zero == [s \in Slots |-> 0]
NULL == [s \in Slots |-> -1]
Pos(p, s) == 2 * p + s
MaxByte(B) == IF 1 \in B THEN 1 ELSE 0
Least(S) == CHOOSE q \in S : \A r \in S : q <= r
Greatest(S) == CHOOSE q \in S : \A r \in S : r <= q

-----------------------------------------------------------------------------
(* Pages and the memory manager.                                           *)

(* _amp_new_page + s_cache_page_init: cleared memory, the C_EMPTY bit.     *)
Blank == [in |-> TRUE, empty |-> TRUE, dirty |-> FALSE, torel |-> FALSE,
          rd |-> 0, wr |-> 0, fl |-> 0, cur |-> 0,
          data |-> [i \in {0, 1} |-> IF i = 0 THEN Zero ELSE NULL],
          use |-> [i \in {0, 1} |-> 0]]
Absent == [Blank EXCEPT !.in = FALSE, !.data = [i \in {0, 1} |-> NULL]]

Pending(p) == p.rd + p.wr + p.fl

(* A page on the LRU stack: in the table and not unlinked into limbo.      *)
Linked(k) == {q \in Pages : k.pg[q].in /\ ~k.pg[q].torel}

(* Pages _amp_free_mem and _amp_attempt_free_mem release at once.          *)
Evictable_Dirty(k) == {q \in Linked(k) : Pending(k.pg[q]) = 0}
Evictable(k) == {q \in Linked(k) : Pending(k.pg[q]) = 0 /\ ~k.pg[q].dirty}
Evict(k, q) == [k EXCEPT !.pg[q] = Absent, !.used = @ - 1]
DropOrphan(k) == [k EXCEPT !.orphans = @ - 1, !.used = @ - 1]

(* The caches with room for a page that can be made without waiting.       *)
Freed(k) == {Evict(k, q) : q \in Evictable(k)}
              \cup (IF k.orphans > 0 THEN {DropOrphan(k)} ELSE {})
Rooms(k) == IF k.used < MaxPages THEN {k} ELSE Freed(k)

(* create_empty_page followed by s_cache_page_init at page q.              *)
AddPage(k, q, page) == [k EXCEPT !.pg[q] = page, !.used = @ + 1]

(* The bytes B of page q's current copy take write v.                      *)
CopyIn(d, B, v) == [s \in Slots |-> IF s \in B THEN v ELSE d[s]]
WriteIn(k, q, i, B, v) == [k EXCEPT !.pg[q].data[i] = CopyIn(@, B, v)]

(* A page turns dirty: C_ISDIRTY and adjust_dirty.                         *)
MarkDirty(k, q) ==
  [k EXCEPT !.dirty = IF k.pg[q].dirty THEN @ ELSE @ + 1, !.pg[q].dirty = TRUE]

(* Copy-on-write: a write may leave the copy being flushed alone.          *)
CanCow(k, q) ==
  LET p == k.pg[q] IN
  /\ p.in /\ ~p.empty /\ ~p.torel /\ p.rd = 0 /\ p.fl > 0 /\ p.wr = 0
  /\ k.over + 1 < OverflowPages
  /\ p.data[1 - p.cur] = NULL
Cow(k, q) ==
  LET p == k.pg[q] IN
  [k EXCEPT !.over = @ + 1,
            !.pg[q] = [p EXCEPT !.data[1 - p.cur] = p.data[p.cur], !.cur = 1 - p.cur]]
CowIfPossible(k, q) == IF q \in Pages /\ CanCow(k, q) THEN Cow(k, q) ELSE k

(* _amp_pages_release of a page marked C_TORELEASE.                        *)
PageRelease(k, q) ==
  [k EXCEPT !.pg[q] = Absent, !.used = @ - 1, !.limbo = @ - 1]

(* cache_release_pages for one page, in steps: the handle on copy i of     *)
(* page q is given back, freeing a copy that was replaced; a write leaves  *)
(* the page filled and dirty, a flush of the current copy toggles          *)
(* C_ISDIRTY; a page marked C_TORELEASE that nobody listens to or holds    *)
(* goes, after a spawned flush if it is dirty.                             *)
GiveBack(k, q, i, mode) ==
  LET p == k.pg[q]
      freeCopy == i # p.cur /\ p.use[i] - 1 <= 0
  IN [k EXCEPT !.over = IF freeCopy THEN @ - 1 ELSE @,
               !.pg[q] = [p EXCEPT !.rd = IF mode = "read" THEN @ - 1 ELSE @,
                                   !.wr = IF mode = "write" THEN @ - 1 ELSE @,
                                   !.fl = IF mode = "flush" THEN @ - 1 ELSE @,
                                   !.use[i] = @ - 1,
                                   !.data[i] = IF freeCopy THEN NULL ELSE @]]
SetBits_CowCleans(k, q, i, mode) ==
  CASE mode = "write" -> MarkDirty([k EXCEPT !.pg[q].empty = FALSE], q)
    [] mode = "flush" -> [k EXCEPT !.dirty = @ - 1, !.pg[q].dirty = ~@]
    [] OTHER -> k
SetBits(k, q, i, mode) ==
  CASE mode = "write" -> MarkDirty([k EXCEPT !.pg[q].empty = FALSE], q)
    [] mode = "flush" /\ i = k.pg[q].cur ->
         [k EXCEPT !.dirty = @ - 1, !.pg[q].dirty = ~@]
    [] OTHER -> k
LetGo(k, q, heard) ==
  LET p == k.pg[q] IN
  IF heard \/ ~p.torel \/ Pending(p) > 0 THEN k
  ELSE IF p.dirty THEN [k EXCEPT !.spawn = @ \cup {q}]
  ELSE PageRelease(k, q)
Release(k, q, i, mode, heard) ==
  LetGo(SetBits(GiveBack(k, q, i, mode), q, i, mode), q, heard)

-----------------------------------------------------------------------------
(* Threads.                                                                *)

NoNeed == [q \in Pages |-> Zero]
Idle == [op |-> "idle", pc |-> "idle", page |-> 0, bytes |-> {}, block |-> FALSE,
         slot |-> 0, lo |-> 0, hi |-> 0, held |-> {}, wrote |-> {}, ret |-> "",
         wait |-> {}, need |-> NoNeed, old |-> {}, got |-> Zero]

Init ==
  /\ c = [pg |-> [q \in Pages |-> Absent], used |-> 0, dirty |-> 0, over |-> 0,
          orphans |-> 0, limbo |-> 0, spawn |-> {}]
  /\ th = [t \in Threads |-> Idle]
  /\ woken = {} /\ fstack = <<>>
  /\ child = NoNeed /\ childLast = ChildPages - 1 /\ childEnd = ChildPages - 1
  /\ size = 2 * ChildPages
  /\ ops = 0 /\ latest = NoNeed /\ acked = NoNeed /\ taint = {} /\ halted = FALSE

(* Threads asleep on page q's condition variable, and on memory.           *)
PageWait == {"rwait", "wwait", "fwait", "dwait"}
WaitsOn(t) == IF th[t].pc = "dwait" THEN th[t].lo ELSE th[t].page
Listeners(q) == {t \in Threads : th[t].pc \in PageWait /\ WaitsOn(t) = q}
MemWaiters == {t \in Threads : th[t].pc = "mwait"}

At(t, pc) == ~halted /\ th[t].pc = pc
Goto(t, pc) == th' = [th EXCEPT ![t].pc = pc]
Set(t, f) == th' = [th EXCEPT ![t] = f]

ChildSame == UNCHANGED <<child, childLast, childEnd, taint>>
HistorySame == UNCHANGED <<ops, latest, acked, size, halted>>
OthersSame == UNCHANGED <<fstack, halted>> /\ ChildSame

(* Who a release wakes: the page's listeners and, once a page is gone,     *)
(* everybody waiting for memory (_amp_process_waiters).                    *)
Signalled_NoMemory(t, q, k) == Listeners(q) \ {t}
Signalled(t, q, k) == (Listeners(q) \ {t}) \cup (IF k.used < c.used THEN MemWaiters ELSE {})

(* Thread t releases its handle and goes on as f.                          *)
DoRelease(t, q, i, mode, f) ==
  LET k == Release(c, q, i, mode, Listeners(q) \ {t} # {})
  IN /\ c' = k
     /\ Set(t, f)
     /\ woken' = woken \cup Signalled(t, q, k)

(* A waiter runs again: its own predicate decides if it goes back to sleep.*)
Sleep(t) ==
  /\ woken' = woken \ {t}
  /\ UNCHANGED <<c, th, fstack, child, childLast, childEnd, size, ops, latest, acked, taint, halted>>

(* Using a page whose load failed: its buffer is NULL.                     *)
Halt == halted' = TRUE /\ UNCHANGED <<c, th, woken, fstack, child, childLast, childEnd, size, ops, latest, acked, taint>>

-----------------------------------------------------------------------------
(* Reads: cache_rw_func in CACHE_READ with cache_read_pages_get.           *)

ReadStart(t, q, B) ==
  /\ At(t, "idle") /\ t \in Users /\ ops < MaxOps
  /\ LET new == IF Pos(q, MaxByte(B)) > 0 THEN Pos(q, MaxByte(B)) + 1 ELSE 0
     IN new <= size                        \* otherwise refused: beyond EOF
  /\ Set(t, [Idle EXCEPT !.op = "read", !.pc = "rget", !.page = q, !.bytes = B,
                         !.need = acked])
  /\ ops' = ops + 1
  /\ UNCHANGED <<c, woken, latest, acked, size>> /\ OthersSame

(* A hit copies under the lock and never gives its usage_count back.       *)
ReadHit(t) ==
  LET q == th[t].page
      p == c.pg[q]
  IN IF p.data[p.cur] = NULL THEN Halt
     ELSE /\ c' = [c EXCEPT !.pg[q].use[p.cur] = @ + 1]
          /\ Set(t, [th[t] EXCEPT !.pc = "done", !.got = p.data[p.cur]])
          /\ UNCHANGED <<woken, ops, latest, acked, size>> /\ OthersSame

ReadGet(t) ==
  /\ At(t, "rget")
  /\ LET q == th[t].page
         p == c.pg[q]
     IN \/ p.in /\ ~p.empty /\ ~p.torel /\ ReadHit(t)
        \/ /\ ~p.in \/ p.empty \/ p.torel
           /\ ~th[t].block                  \* no progress: try again, blocking
           /\ Set(t, [th[t] EXCEPT !.block = TRUE])
           /\ UNCHANGED <<c, woken>> /\ OthersSame /\ HistorySame
        \/ /\ th[t].block /\ p.in /\ p.empty
           /\ c' = [c EXCEPT !.pg[q].rd = @ + 1]
           /\ Goto(t, "rwait")
           /\ UNCHANGED woken /\ OthersSame /\ HistorySame
        \/ /\ th[t].block /\ (~p.in \/ (p.torel /\ ~p.empty))
           /\ Goto(t, "radvise")
           /\ UNCHANGED <<c, woken>> /\ OthersSame /\ HistorySame

ReadWake(t) ==
  /\ At(t, "rwait") /\ t \in woken
  /\ LET q == th[t].page
         p == c.pg[q]
         k == [c EXCEPT !.pg[q].rd = @ - 1]
     IN \/ p.empty /\ Sleep(t)
        \/ ~p.empty /\ ~p.torel /\ p.data[p.cur] = NULL /\ Halt
        \/ /\ ~p.empty /\ ~p.torel /\ p.data[p.cur] # NULL
           /\ c' = [k EXCEPT !.pg[q].use[p.cur] = @ + 1]
           /\ Set(t, [th[t] EXCEPT !.pc = "done", !.got = p.data[p.cur]])
           /\ woken' = woken \ {t}
           /\ OthersSame /\ HistorySame
        \/ /\ ~p.empty /\ p.torel
           /\ c' = k
           /\ Goto(t, "radvise")
           /\ woken' = woken \ {t}
           /\ OthersSame /\ HistorySame

(* cache_advise: load the page if it can be had without waiting, after a   *)
(* flush when the child is shorter than the file; otherwise force it.      *)
Advise(t) ==
  /\ At(t, "radvise")
  /\ LET q == th[t].page IN
     \/ /\ c.pg[q].in \/ c.used = MaxPages
        /\ Goto(t, "force")
        /\ UNCHANGED <<c, woken>> /\ OthersSame /\ HistorySame
     \/ \E k \in Rooms(c) :
        /\ ~c.pg[q].in
        /\ c' = AddPage(k, q, [Blank EXCEPT !.rd = 1, !.use[0] = 1])
        /\ IF 2 * (childEnd + 1) < size
             THEN Set(t, [th[t] EXCEPT !.slot = 0, !.pc = "fstart", !.ret = "load",
                                       !.lo = 0, !.hi = -1])
             ELSE Set(t, [th[t] EXCEPT !.slot = 0, !.pc = "load"])
        /\ UNCHANGED woken /\ OthersSame /\ HistorySame

(* The caller copies from the handle it got back, then releases it.        *)
ReadCopy(t) ==
  /\ At(t, "rcopy")
  /\ LET d == c.pg[th[t].page].data[th[t].slot] IN
     IF d = NULL THEN Halt
     ELSE /\ Set(t, [th[t] EXCEPT !.pc = "rrel", !.got = d])
          /\ UNCHANGED <<c, woken>> /\ OthersSame /\ HistorySame

ReadRelease(t) ==
  /\ At(t, "rrel")
  /\ DoRelease(t, th[t].page, th[t].slot, "read", [th[t] EXCEPT !.pc = "done"])
  /\ OthersSame /\ HistorySame

-----------------------------------------------------------------------------
(* cache_page_force_get: wait for the page, or make it, waiting for memory *)
(* if need be; op is the access wanted.                                    *)

(* Does the child hold data of page q?                                     *)
OnDisk(q) == childLast >= q
Full(t) == th[t].bytes = Slots              \* full_page_overlap

(* _cache_wait_for_page: a write also waits for flushes to end.            *)
Ready(p, op) == ~p.empty /\ (op = "write" => p.fl = 0)

(* The page of cache k is taken for t's access, or t sleeps holding it     *)
(* with a read.                                                            *)
ForceTake(t, k) ==
  LET q == th[t].page
      p == k.pg[q]
      write == th[t].op = "write"
  IN /\ c' = [k EXCEPT !.pg[q] = [p EXCEPT !.rd = IF write THEN @ ELSE @ + 1,
                                           !.wr = IF write THEN @ + 1 ELSE @,
                                           !.use[p.cur] = @ + 1]]
     /\ Set(t, [th[t] EXCEPT !.slot = p.cur, !.pc = IF write THEN "wcopy" ELSE "rcopy"])
ForceWait(t, k) ==
  /\ c' = [k EXCEPT !.pg[th[t].page].rd = @ + 1]
  /\ Goto(t, "fwait")
ForceGet(t, k) ==
  IF Ready(k.pg[th[t].page], th[t].op) THEN ForceTake(t, k) ELSE ForceWait(t, k)

ForceStart(t) ==
  /\ At(t, "force")
  /\ IF c.pg[th[t].page].in THEN ForceGet(t, c) ELSE Goto(t, "mem") /\ UNCHANGED c
  /\ UNCHANGED woken /\ OthersSame /\ HistorySame

ForceWake(t) ==
  /\ At(t, "fwait") /\ t \in woken
  /\ IF ~Ready(c.pg[th[t].page], th[t].op) THEN Sleep(t)
     ELSE /\ ForceTake(t, [c EXCEPT !.pg[th[t].page].rd = @ - 1])
          /\ woken' = woken \ {t}
          /\ OthersSame /\ HistorySame

(* create_empty_page(.., 1) returned; somebody may have added the page.    *)
ForceCreate(t) ==
  /\ At(t, "mem")
  /\ LET q == th[t].page
         read == th[t].op = "read"
         load == OnDisk(q) /\ (read \/ ~Full(t))
         page == IF read THEN [Blank EXCEPT !.rd = 1, !.use[0] = 1, !.empty = OnDisk(q)]
                         ELSE [Blank EXCEPT !.wr = 1, !.use[0] = 1]
         next == IF load THEN "load" ELSE IF read THEN "rcopy" ELSE "wcopy"
     IN \E k \in Rooms(c) :
        IF k.pg[q].in THEN ForceGet(t, k)     \* my page is destroyed
        ELSE /\ c' = AddPage(k, q, page)
             /\ Set(t, [th[t] EXCEPT !.slot = 0, !.pc = next])
  /\ UNCHANGED woken /\ OthersSame /\ HistorySame

(* _amp_attempt_free_mem on a page it cannot free at once: marked for      *)
(* release and unlinked, and flushed if it is dirty and nobody does.       *)
MemMark(t) ==
  /\ At(t, "mem") /\ c.used = MaxPages
  /\ \E q \in Linked(c) \ Evictable(c) :
     /\ c' = [c EXCEPT !.pg[q].torel = TRUE, !.limbo = @ + 1]
     /\ IF c.pg[q].dirty /\ c.pg[q].fl = 0
          THEN \E whole \in BOOLEAN :         \* dirty_bytes_trigger: the whole file
                 Set(t, [th[t] EXCEPT !.pc = "fstart", !.ret = "mem",
                                      !.lo = IF whole THEN 0 ELSE q,
                                      !.hi = IF whole THEN -1 ELSE NPages - 1])
          ELSE UNCHANGED th
  /\ UNCHANGED woken /\ OthersSame /\ HistorySame

(* Nothing left to free or mark: wait for a page to be released.           *)
MemWait(t) ==
  /\ At(t, "mem") /\ c.used = MaxPages /\ Linked(c) = {} /\ c.orphans = 0
  /\ Goto(t, "mwait")
  /\ UNCHANGED <<c, woken>> /\ OthersSame /\ HistorySame

MemWake(t) ==
  /\ At(t, "mwait") /\ t \in woken
  /\ Goto(t, "mem")
  /\ woken' = woken \ {t}
  /\ UNCHANGED c /\ OthersSame /\ HistorySame

(* cache_rw_pages in CACHE_READ: the child read ends, C_EMPTY is cleared   *)
(* and the page's waiters are woken; an error leaves a NULL buffer.  Past  *)
(* the child's end the read fails: that page only counts as failed if a    *)
(* later one did, whose write would have put it inside the child.          *)
Load(t) ==
  /\ At(t, "load")
  /\ LET q == th[t].page
         i == th[t].slot
     IN \E ok \in BOOLEAN :
        /\ ok => q <= childEnd
        /\ ~ok => ChildFails \/ q > childEnd
        /\ c' = [c EXCEPT !.pg[q].data[i] = IF ok THEN child[q] ELSE NULL,
                          !.pg[q].empty = FALSE]
        /\ taint' = IF ~ok /\ (q <= childEnd \/ \E r \in taint : r > q) THEN taint \cup {q} ELSE taint
        /\ woken' = woken \cup Listeners(q)
  /\ Goto(t, IF th[t].op = "read" THEN "rcopy" ELSE "wcopy")
  /\ UNCHANGED <<fstack, child, childLast, childEnd>> /\ HistorySame

-----------------------------------------------------------------------------
(* Writes: cache_rw_func in CACHE_WRITE with cache_write_pages_get.        *)

(* Writes are numbered in the order their bytes reach a page.              *)
Version == 1 + Greatest({latest[q][s] : q \in Pages, s \in Slots})
Stamp(q, B, v) == [latest EXCEPT ![q] = CopyIn(@, B, v)]
NextPage(k, q) ==
  LET A == {r \in Pages : r > q /\ k.pg[r].in}
  IN IF A = {} THEN -1 ELSE CHOOSE r \in A : \A x \in A : r <= x

WriteStart(t, q, B) ==
  /\ At(t, "idle") /\ t \in Users /\ ops < MaxOps
  /\ Set(t, [Idle EXCEPT !.op = "write", !.pc = "wget", !.page = q, !.bytes = B])
  /\ ops' = ops + 1
  /\ UNCHANGED <<c, woken, latest, acked, size>> /\ OthersSame

(* The page after the request is held with a read (pcheck) when there is a *)
(* hole before it, and formally released after the lock was dropped.       *)
Hold(k, r) == IF r = -1 THEN k
              ELSE [k EXCEPT !.pg[r].rd = @ + 1, !.pg[r].use[k.pg[r].cur] = @ + 1]
After(t, pc, k, r) ==
  IF r = -1 THEN [th[t] EXCEPT !.pc = pc, !.block = @ \/ pc = "wget"]
  ELSE [th[t] EXCEPT !.pc = "whold", !.ret = pc, !.lo = r, !.slot = k.pg[r].cur,
                     !.block = @ \/ pc = "wget"]

(* The page of cache k takes the write under the lock.  The scan then      *)
(* looks at the next page: one that follows directly and is being flushed  *)
(* gets a copy, one behind a hole is held.                                 *)
WriteHit(t, k) ==
  LET q == th[t].page
      i == k.pg[q].cur
      next == NextPage(k, q)
      hold == IF next > q + 1 THEN next ELSE -1
      k1 == WriteIn(MarkDirty([k EXCEPT !.pg[q].use[i] = @ + 1], q), q, i, th[t].bytes, Version)
  IN /\ k.pg[q].data[i] # NULL
     /\ c' = Hold(CowIfPossible(k1, q + 1), hold)
     /\ Set(t, [After(t, "wend", k, hold) EXCEPT !.got = CopyIn(Zero, th[t].bytes, Version)])
     /\ latest' = Stamp(q, th[t].bytes, Version)
     /\ UNCHANGED <<ops, acked, size>> /\ OthersSame

(* The page exists: write it now, copying it first if a flush has it, or   *)
(* come back blocking.                                                     *)
WritePresent(t) ==
  /\ At(t, "wget")
  /\ LET q == th[t].page
         p == c.pg[q]
         busy == p.empty \/ p.torel \/ p.rd > 0
     IN /\ p.in
        /\ UNCHANGED woken
        /\ \/ ~busy /\ p.fl = 0 /\ WriteHit(t, c)
           \/ CanCow(c, q) /\ WriteHit(t, Cow(c, q))
           \/ ~busy /\ (p.fl = 0 \/ CanCow(c, q)) /\ p.data[p.cur] = NULL /\ Halt
           \/ /\ busy \/ (p.fl > 0 /\ ~CanCow(c, q))
              /\ IF ~th[t].block THEN Set(t, [th[t] EXCEPT !.block = TRUE]) /\ UNCHANGED c
                 ELSE IF busy THEN Goto(t, "force") /\ UNCHANGED c
                 ELSE Goto(t, "wwait") /\ c' = [c EXCEPT !.pg[q].rd = @ + 1]
              /\ OthersSame /\ HistorySame

WriteWake(t) ==
  /\ At(t, "wwait") /\ t \in woken
  /\ LET q == th[t].page
         p == c.pg[q]
         k == [c EXCEPT !.pg[q].rd = @ - 1]
     IN \/ ~Ready(p, "write") /\ Sleep(t)
        \/ Ready(p, "write") /\ ~p.torel /\ p.rd = 1 /\ p.data[p.cur] = NULL /\ Halt
        \/ /\ Ready(p, "write") /\ ~p.torel /\ p.rd = 1
           /\ WriteHit(t, k) /\ woken' = woken \ {t}
        \/ /\ Ready(p, "write") /\ (p.torel \/ p.rd > 1)
           /\ c' = k /\ Goto(t, "force") /\ woken' = woken \ {t}
           /\ OthersSame /\ HistorySame

(* The page does not exist: make a blank one if that needs no waiting and  *)
(* the request reaches past its first byte; if the write leaves bytes the  *)
(* child has, they are loaded first.  The page after it is held meanwhile. *)
WriteAbsent(t) ==
  /\ At(t, "wget") /\ ~c.pg[th[t].page].in
  /\ LET q == th[t].page
         B == th[t].bytes
         next == NextPage(c, q)
         held == Hold(c, next)
         again == IF th[t].block THEN "force" ELSE "wget"
         load == ~Full(t) /\ OnDisk(q)
         after(pc) == After(t, pc, c, next)
     IN /\ \/ /\ c.used = MaxPages             \* no page to be had
              /\ c' = held /\ Set(t, after(again)) /\ UNCHANGED latest
           \/ \E k \in Rooms(held) :
              CASE B = {0} -> \* the new page is left behind, unused
                     /\ c' = [k EXCEPT !.orphans = @ + 1, !.used = @ + 1]
                     /\ Set(t, after(again)) /\ UNCHANGED latest
                [] B # {0} /\ load ->
                     /\ c' = MarkDirty(AddPage(k, q, [Blank EXCEPT !.wr = 1, !.use[0] = 1]), q)
                     /\ Set(t, after("load")) /\ UNCHANGED latest
                [] OTHER ->
                     /\ c' = WriteIn(MarkDirty(AddPage(k, q, [Blank EXCEPT !.empty = FALSE, !.use[0] = 1]), q),
                                     q, 0, B, Version)
                     /\ Set(t, [after("wend") EXCEPT !.got = CopyIn(Zero, B, Version)])
                     /\ latest' = Stamp(q, B, Version)
        /\ UNCHANGED <<woken, ops, acked, size>> /\ OthersSame

(* The held page's formal release.                                         *)
WriteHold(t) ==
  /\ At(t, "whold")
  /\ DoRelease(t, th[t].lo, th[t].slot, "read",
               [th[t] EXCEPT !.pc = th[t].ret, !.ret = "", !.lo = 0, !.slot = 0])
  /\ OthersSame /\ HistorySame

(* The bytes go into the page held for writing, outside the lock.          *)
WriteCopy(t) ==
  /\ At(t, "wcopy")
  /\ LET q == th[t].page
         i == th[t].slot
         B == th[t].bytes
     IN IF c.pg[q].data[i] = NULL THEN Halt
        ELSE /\ c' = WriteIn([c EXCEPT !.pg[q].use[i] = @ + 1], q, i, B, Version)
             /\ Set(t, [th[t] EXCEPT !.pc = "wrel", !.got = CopyIn(Zero, B, Version)])
             /\ latest' = Stamp(q, B, Version)
             /\ UNCHANGED <<woken, ops, acked, size>> /\ OthersSame

WriteRelease(t) ==
  /\ At(t, "wrel")
  /\ DoRelease(t, th[t].page, th[t].slot, "write", [th[t] EXCEPT !.pc = "wend"])
  /\ OthersSame /\ HistorySame

(* The end of cache_rw_func: the size, and the write returns.              *)
WriteEnd(t) ==
  /\ At(t, "wend")
  /\ LET q == th[t].page
         hi == Pos(q, MaxByte(th[t].bytes))
         new == IF hi > 0 THEN hi + 1 ELSE 0
     IN /\ size' = IF size < new THEN new ELSE size
        /\ acked' = [acked EXCEPT ![q] = [s \in Slots |-> IF @[s] < th[t].got[s] THEN th[t].got[s] ELSE @[s]]]
  /\ Set(t, Idle)
  /\ UNCHANGED <<c, woken, ops, latest>> /\ OthersSame

-----------------------------------------------------------------------------
(* Flushes: cache_flush_range_func.  A flush starts as an operation, inside*)
(* another one (ret says where that goes on), or on a daemon.              *)

Overlap(f, g) == f.lo <= g.hi /\ g.lo <= f.hi
Entry(t) == CHOOSE f \in {fstack[n] : n \in 1 .. Len(fstack)} : f.t = t
Older(t) == {fstack[n] : n \in {m \in 1 .. Len(fstack) : \E l \in 1 .. Len(fstack) : m < l /\ fstack[l].t = t}}

FlushStart(t) ==
  /\ At(t, "idle") /\ t \in Users /\ ops < MaxOps
  /\ Set(t, [Idle EXCEPT !.op = "flush", !.pc = "fstart", !.hi = -1])
  /\ ops' = ops + 1
  /\ UNCHANGED <<c, woken, latest, acked, size>> /\ OthersSame

(* amp_dirty_thread: flush everything, on its timer or when triggered.     *)
DirtyThread(d) ==
  /\ At(d, "idle") /\ d \in Daemons
  /\ Set(d, [Idle EXCEPT !.op = "flush", !.pc = "fstart", !.hi = -1])
  /\ UNCHANGED <<c, woken>> /\ OthersSame /\ HistorySame

(* The flush a release asked for runs as a task of its own.                *)
SpawnStart(d, q) ==
  /\ At(d, "idle") /\ d \in Daemons /\ q \in c.spawn
  /\ c' = [c EXCEPT !.spawn = @ \ {q}]
  /\ Set(d, [Idle EXCEPT !.op = "flush", !.pc = "fstart", !.lo = q, !.hi = q])
  /\ UNCHANGED woken /\ OthersSame /\ HistorySame

(* Pages a flush finds being flushed from a copy that is no longer current.*)
InFlightOld == {q \in Pages : \E u \in Threads, i \in {0, 1} : <<q, i>> \in th[u].held /\ i # c.pg[q].cur}

FlushPush(t) ==
  /\ At(t, "fstart")
  /\ LET whole == th[t].hi = -1
         hi == IF whole THEN (size - 1) \div 2 ELSE th[t].hi
         need == [q \in Pages |-> IF whole \/ q \in th[t].lo .. hi THEN acked[q] ELSE Zero]
     IN /\ fstack' = Append(fstack, [t |-> t, lo |-> th[t].lo, hi |-> hi])
        /\ Set(t, [th[t] EXCEPT !.pc = "fscan", !.block = FALSE, !.hi = hi,
                                !.need = IF th[t].op = "flush" THEN need ELSE @,
                                !.old = IF th[t].op = "flush" THEN InFlightOld ELSE @])
  /\ UNCHANGED <<c, woken, halted>> /\ ChildSame /\ UNCHANGED <<ops, latest, acked, size>>

(* cache_dirty_pages_get takes, from the first candidate on, the dirty     *)
(* pages nobody flushes, up to one that is being written.                  *)
Candidates(k, lo, hi) == {q \in Pages : lo <= q /\ q <= hi /\ k.pg[q].in /\ k.pg[q].dirty /\ k.pg[q].fl = 0}

FlushTake(t, k, cand) ==
  LET take == {q \in cand : \A r \in cand : r <= q => k.pg[r].wr = 0}
      rest == cand \ take
  IN /\ c' = [k EXCEPT !.pg = [q \in Pages |->
                IF q \in take THEN [k.pg[q] EXCEPT !.fl = @ + 1, !.use[k.pg[q].cur] = @ + 1]
                ELSE k.pg[q]]]
     /\ Set(t, [th[t] EXCEPT !.pc = "fio", !.held = {<<q, k.pg[q].cur>> : q \in take}, !.wrote = {},
                             !.lo = IF rest # {} THEN Least(rest)
                                    ELSE 1 + Greatest({q \in Pages : k.pg[q].in})])

FlushScan(t) ==
  /\ At(t, "fscan")
  /\ LET cand == Candidates(c, th[t].lo, th[t].hi)
         busy == cand # {} /\ c.pg[Least(cand)].wr > 0
     IN \/ cand = {} /\ Goto(t, "fw1") /\ UNCHANGED c
        \/ busy /\ ~th[t].block /\ Set(t, [th[t] EXCEPT !.block = TRUE]) /\ UNCHANGED c
        \/ /\ busy /\ th[t].block
           /\ c' = [c EXCEPT !.pg[Least(cand)].fl = @ + 1]
           /\ Set(t, [th[t] EXCEPT !.pc = "dwait", !.lo = Least(cand)])
        \/ cand # {} /\ ~busy /\ FlushTake(t, c, cand)
  /\ UNCHANGED woken /\ OthersSame /\ HistorySame

(* The writers are gone: the page is taken as it is now.                   *)
DirtyWake(t) ==
  /\ At(t, "dwait") /\ t \in woken
  /\ LET q == th[t].lo
         k == [c EXCEPT !.pg[q].fl = @ - 1]
     IN IF c.pg[q].wr > 0 \/ c.pg[q].empty THEN Sleep(t)
        ELSE /\ FlushTake(t, k, {q} \cup Candidates(k, q, th[t].hi))
             /\ woken' = woken \ {t} /\ OthersSame /\ HistorySame

(* cache_rw_pages in CACHE_FLUSH: a child write ended.  An error is not    *)
(* counted; child_last_page moves either way; a NULL buffer is skipped.    *)
FlushWrite(t) ==
  /\ At(t, "fio")
  /\ \E h \in th[t].held, ok \in BOOLEAN :
     LET q == h[1]
         d == c.pg[q].data[h[2]]
         written == ok /\ d # NULL
     IN /\ q \notin th[t].wrote
        /\ ok \/ ChildFails
        /\ child' = [child EXCEPT ![q] = IF written THEN d ELSE @]
        /\ childEnd' = IF written /\ q > childEnd THEN q ELSE childEnd
        /\ childLast' = IF d # NULL /\ q > childLast THEN q ELSE childLast
        /\ taint' = IF ok THEN taint ELSE taint \cup {q}
        /\ c' = [c EXCEPT !.pg[q].empty = FALSE]
        /\ Set(t, [th[t] EXCEPT !.wrote = @ \cup {q}])
        /\ woken' = woken \cup Listeners(q)
  /\ UNCHANGED fstack /\ HistorySame

FlushRelease(t) ==
  /\ At(t, "fio")
  /\ \E h \in th[t].held :
     /\ h[1] \in th[t].wrote
     /\ DoRelease(t, h[1], h[2], "flush",
                  [th[t] EXCEPT !.held = @ \ {h},
                                !.pc = IF th[t].held = {h} THEN "fscan" ELSE @])
  /\ OthersSame /\ HistorySame

(* flush_wait, twice: for the older flushes, and, once off the stack, for  *)
(* all that are on it.                                                     *)
MayPop(t) == \A f \in Older(t) : ~Overlap(f, Entry(t))
FlushPop(t) ==
  /\ At(t, "fw1")
  /\ MayPop(t)
  /\ fstack' = LET n == CHOOSE n \in 1 .. Len(fstack) : fstack[n].t = t
               IN  [m \in 1 .. Len(fstack) - 1 |-> fstack[IF m < n THEN m ELSE m + 1]]
  /\ LET others == {f \in {fstack[n] : n \in 1 .. Len(fstack)} : f.t # t /\ Overlap(f, Entry(t))}
     IN th' = [u \in Threads |->
                IF u = t THEN [th[t] EXCEPT !.pc = "fw2", !.wait = {f.t : f \in others}]
                ELSE [th[u] EXCEPT !.wait = @ \ {t}]]
  /\ UNCHANGED <<c, woken>> /\ ChildSame /\ HistorySame

FlushEnd_NoSecondWait(t) ==
  /\ At(t, "fw2")
  /\ Set(t, [th[t] EXCEPT !.pc = IF th[t].op = "flush" THEN "done" ELSE th[t].ret,
                          !.ret = "", !.lo = 0, !.hi = 0])
  /\ UNCHANGED <<c, woken>> /\ OthersSame /\ HistorySame
FlushEnd(t) ==
  /\ At(t, "fw2") /\ th[t].wait = {}
  /\ Set(t, [th[t] EXCEPT !.pc = IF th[t].op = "flush" THEN "done" ELSE th[t].ret,
                          !.ret = "", !.lo = 0, !.hi = 0])
  /\ UNCHANGED <<c, woken>> /\ OthersSame /\ HistorySame

Return(t) ==
  /\ At(t, "done") /\ Set(t, Idle)
  /\ UNCHANGED <<c, woken>> /\ OthersSame /\ HistorySame

-----------------------------------------------------------------------------
Step(t) ==
  \/ ReadGet(t) \/ ReadWake(t) \/ Advise(t) \/ ReadCopy(t) \/ ReadRelease(t)
  \/ ForceStart(t) \/ ForceWake(t) \/ ForceCreate(t)
  \/ MemMark(t) \/ MemWait(t) \/ MemWake(t) \/ Load(t)
  \/ WritePresent(t) \/ WriteWake(t) \/ WriteAbsent(t) \/ WriteHold(t)
  \/ WriteCopy(t) \/ WriteRelease(t) \/ WriteEnd(t)
  \/ FlushPush(t) \/ FlushScan(t) \/ DirtyWake(t) \/ FlushWrite(t) \/ FlushRelease(t)
  \/ FlushPop(t) \/ FlushEnd(t) \/ Return(t)

Start(t) ==
  \/ \E r \in Reads : ReadStart(t, r[1], r[2])
  \/ \E w \in Writes : WriteStart(t, w[1], w[2])
  \/ FlushStart(t) \/ DirtyThread(t)

Spawned == \E d \in Daemons, q \in Pages : SpawnStart(d, q)

(* The process died on a NULL buffer.                                      *)
Halted == halted /\ UNCHANGED vars

Next == Spawned \/ Halted \/ \E t \in Threads : Start(t) \/ Step(t)

Spec == Init /\ [][Next]_vars

(* Every thread runs on, child requests end, the thread pool finds a       *)
(* thread for a spawned flush, and the dirty thread's timer expires.       *)
Fairness ==
  /\ SF_vars(Spawned)
  /\ \A t \in Threads : WF_vars(Step(t)) /\ WF_vars(DirtyThread(t))
FairSpec == Spec /\ Fairness

-----------------------------------------------------------------------------
(* No write is lost between cache and child, whatever loads, flushes,      *)
(* copies and evictions overlap: the newest bytes are in the page's        *)
(* current copy or, with no page, in the child, and a page that could be   *)
(* evicted (_amp_free_mem) equals the child.  Pages with a failed child    *)
(* request are excepted: cache_rw_pages drops the error.                   *)
NewestKept ==
  \A q \in Pages \ taint :
    LET p == c.pg[q] IN
    /\ p.in /\ ~p.empty => p.data[p.cur] = latest[q]
    /\ ~p.in => child[q] = latest[q]
    /\ p.in /\ ~p.empty /\ ~p.dirty /\ p.wr = 0 => p.data[p.cur] = child[q]

(* cache_rw_func: a read never returns a byte older than a write that had  *)
(* returned when the read began.                                           *)
ReadsFresh ==
  \A t \in Threads : th[t].pc = "done" /\ th[t].op = "read" =>
    \A s \in th[t].bytes : th[t].page \in taint \/ th[t].got[s] >= th[t].need[th[t].page][s]

(* cache_flush_range_func "flushes the given segment's byte range to disk":*)
(* when it returns, every write that had returned when it began is in the  *)
(* child segment, flush_wait making up for the pages that other flushes    *)
(* hold; except for pages that another flush held in an outdated copy when *)
(* this one began, and pages with a failed child request.                  *)
FlushReachesChildUnlessCopied ==
  \A t \in Threads : th[t].pc = "done" /\ th[t].op = "flush" =>
    \A q \in Pages \ (taint \cup th[t].old) :
      \A s \in Slots : child[q][s] >= th[t].need[q][s]

(* Every operation returns: no waiter on a page (_cache_wait_for_page), on *)
(* memory (_amp_wait_for_page) or on a flush (flush_wait) is forgotten.    *)
OpsReturn == \A t \in Threads : th[t].pc # "idle" ~> th[t].pc = "idle" \/ halted
================================================================================
