--------------------------- MODULE OsNamespaceProofs ---------------------------
(***************************************************************************)
(* The order of the object locks of os_file.c, for any number of threads   *)
(* and paths, any hash and any size of the lock table: threads that wait   *)
(* for each other in a circle include one that osf_multi_lock has made     *)
(* wait for a slot below one it holds.                                     *)
(***************************************************************************)
EXTENDS OsNamespace, WellFoundedInduction, TLAPS

(* The states of an operation in which its thread may hold a lock.         *)
Holding == {"create_attr", "rm_proxy", "rm_link", "rm_attr", "rm_purge", "rm_dir", "hard_lock",
            "hard_name", "hard_attr", "attr_lock", "attr_set", "copy", "copy_set"}
Hardlinking == {"hardlink", "conv_attr", "conv_link", "conv_move", "conv_name", "hard_find", "hard_lock"}

(* A thread that takes the locks L by slot holds none, or the lower of two.*)
Ascending(L, held) == held = {} \/ \E a, b \in Nat : a < b /\ L = {a, b} /\ held = {a}

(* What osf_multi_lock still has to take is not what it holds.             *)
Listed(locks, held) ==
  \/ held = {} /\ locks \in Seq(Nat) /\ Len(locks) = 1
  \/ held = {} /\ locks \in Seq(Nat) /\ Len(locks) = 2 /\ locks[1] # locks[2]
  \/ locks \in Seq(Nat) /\ Len(locks) = 1 /\ \E a \in Nat : held = {a} /\ a # locks[1]

(* The inductive invariant, for the record of one thread.                  *)
Fields == {"pc", "op", "p", "q", "h", "held", "locks"}
Orderly(r) ==
  /\ Fields \subseteq DOMAIN r
  /\ r.held # {} => r.pc \in Holding
  /\ r.pc \in {"attr", "copy"} => r.p \in Paths
  /\ r.pc \in Hardlinking \cup {"copy"} => r.q \in Paths
  /\ r.pc = "hard_lock" => r.h \in 1 .. MaxHard
  /\ r.pc = "attr_lock" => Listed(r.locks, r.held)
  /\ r.pc = "copy" => Ascending({Lock(r.p), Lock(r.q)}, r.held)
  /\ r.pc = "hard_lock" => Ascending({SlotOf(<<"hard", r.h>>), SlotOf(<<"full", r.q>>)}, r.held)
LocksOrderly == DOMAIN th = Threads /\ \A t \in Threads : Orderly(th[t])

-----------------------------------------------------------------------------
(* A set of natural numbers that is not empty has a least element.         *)
LEMMA LeastNat ==
  ASSUME NEW T, T \subseteq Nat, T # {}
  PROVE  \E x \in T : \A y \in T : x <= y
<1>1. PICK x \in T : \A y \in T : ~ (<<y, x>> \in OpToRel(<, Nat))
  BY WFMin, NatLessThanWellFounded
<1>2. \A y \in T : ~(y < x)
  BY <1>1 DEF OpToRel
<1> QED BY <1>2

(* Lowest picks the smaller of two slots.                                  *)
LEMMA LowestOfTwo ==
  ASSUME NEW a \in Nat, NEW b \in Nat
  PROVE  Lowest({a, b}) \in {a, b} /\ Lowest({a, b}) <= a /\ Lowest({a, b}) <= b
<1>1. \E s \in {a, b} : \A u \in {a, b} : s <= u
  <2>1. CASE a <= b
    BY <2>1
  <2>2. CASE b <= a
    BY <2>2
  <2> QED BY <2>1, <2>2
<1> QED BY <1>1 DEF Lowest

(* ... and the only slot that is left.                                     *)
LEMMA LowestOfOne ==
  ASSUME NEW a \in Nat
  PROVE  Lowest({a}) = a
BY LowestOfTwo

(* Taking the lowest lock that is missing: either all are held then, or    *)
(* the lower of two is.                                                    *)
LEMMA TakeLowest ==
  ASSUME NEW a \in Nat, NEW b \in Nat, NEW held, Ascending({a, b}, held),
         NEW s, s = Lowest({a, b} \ held), ~({a, b} \subseteq held \cup {s})
  PROVE  Ascending({a, b}, held \cup {s})
<1>1. CASE held = {}
  <2>1. {a, b} \ held = {a, b} /\ held \cup {s} = {s}
    BY <1>1
  <2>2. s \in {a, b} /\ s <= a /\ s <= b
    BY <2>1, LowestOfTwo
  <2>3. a # b
    BY <2>1, <2>2
  <2>4. CASE s = a
    BY <2>1, <2>2, <2>3, <2>4 DEF Ascending
  <2>5. CASE s = b
    BY <2>1, <2>2, <2>3, <2>5 DEF Ascending
  <2> QED BY <2>2, <2>4, <2>5
<1>2. CASE held # {}
  <2>1. PICK x, y \in Nat : x < y /\ {a, b} = {x, y} /\ held = {x}
    BY <1>2 DEF Ascending
  <2>2. {a, b} \ held = {y}
    BY <2>1
  <2>3. s = y
    BY <2>1, <2>2, LowestOfOne
  <2> QED BY <2>1, <2>3
<1> QED BY <1>1, <1>2

(* A thread that holds the lower of two locks waits for the higher one.    *)
LEMMA WaitsUpwards ==
  ASSUME NEW a \in Nat, NEW b \in Nat, NEW held, Ascending({a, b}, held), NEW x \in held
  PROVE  x \in Nat /\ Lowest({a, b} \ held) \in Nat /\ x < Lowest({a, b} \ held)
<1>1. PICK c, d \in Nat : c < d /\ {a, b} = {c, d} /\ held = {c}
  BY DEF Ascending
<1>2. {a, b} \ held = {d}
  BY <1>1
<1> QED BY <1>1, <1>2, LowestOfOne

-----------------------------------------------------------------------------
(* A step that gives one thread an orderly record keeps all orderly.       *)
LEMMA StepOrderly ==
  ASSUME LocksOrderly, NEW t \in Threads, NEW f, NEW r, Step(t, f, r), Orderly(r)
  PROVE  LocksOrderly'
BY DEF LocksOrderly, Step, Orderly, Lock

(* An idle thread holds nothing.                                           *)
LEMMA IdleOrderly == Orderly(Idle)
BY DEF Orderly, Idle, Fields, Holding, Hardlinking

(* The end of an operation gives its locks back.                           *)
LEMMA FinishOrderly ==
  ASSUME LocksOrderly, NEW t \in Threads, NEW f, NEW ok, Finish(t, f, ok)
  PROVE  LocksOrderly'
<1>1. Fields \subseteq DOMAIN th[t]
  BY DEF LocksOrderly, Orderly
<1>2. CASE th[t].tree # NoPath /\ th[t].op = "remove"
  <2> DEFINE r == [th[t] EXCEPT !.pc = "next", !.op = "remove_regex", !.held = {}, !.ok = th[t].ok /\ ok]
  <2>1. Step(t, f, r)
    BY <1>2 DEF Finish
  <2>2. Orderly(r)
    BY <1>1 DEF Orderly, Fields, Hardlinking
  <2> HIDE DEF r
  <2> QED BY <2>1, <2>2, StepOrderly
<1>3. CASE ~(th[t].tree # NoPath /\ th[t].op = "remove")
  <2>1. th' = [th EXCEPT ![t] = Idle]
    BY <1>3 DEF Finish
  <2> QED BY <2>1, IdleOrderly DEF LocksOrderly, Orderly, Lock
<1> QED BY <1>2, <1>3

(* An operation starts without a lock and changes no other thread's.       *)
LEMMA StartOrderly ==
  ASSUME LocksOrderly, NEW t \in Threads, NEW r, Start(t, r), Orderly(r)
  PROVE  LocksOrderly'
<1> DEFINE mine == [r EXCEPT !.alone = Busy = {}, !.quirk = Known(fs, r), !.was = IF Busy = {} THEN View(fs) ELSE <<>>]
           other(u) == [th[u] EXCEPT !.alone = FALSE, !.was = <<>>]
<1>1. th' = [u \in Threads |-> IF u = t THEN mine ELSE IF u \in Busy THEN other(u) ELSE th[u]]
  BY DEF Start
<1>2. Orderly(mine)
  BY DEF Orderly, Fields
<1>3. \A u \in Threads : Orderly(other(u))
  BY DEF LocksOrderly, Orderly, Fields
<1> HIDE DEF mine, other
<1>4. \A u \in Threads : Orderly(th'[u])
  BY <1>1, <1>2, <1>3 DEF LocksOrderly
<1> QED BY <1>1, <1>4 DEF LocksOrderly, Orderly, Lock

-----------------------------------------------------------------------------
(* A record whose operation is past its locks, or has none, is orderly.    *)
Plain(r) ==
  /\ Fields \subseteq DOMAIN r
  /\ r.pc \notin Hardlinking \cup {"attr", "attr_lock", "copy"}
  /\ r.held # {} => r.pc \in Holding
LEMMA PlainOrderly == ASSUME NEW r, Plain(r) PROVE Orderly(r)
BY DEF Plain, Orderly, Hardlinking

(* The requests start orderly.                                             *)
LEMMA CallOrderly ==
  ASSUME LocksOrderly, NEW t \in Threads, Call(t)
  PROVE  LocksOrderly'
<1> USE DEF Idle, Fields, Holding, Hardlinking
<1>1. ASSUME NEW p \in Paths, NEW op \in {"create", "mkdir"},
             Start(t, [Idle EXCEPT !.op = op, !.pc = "create", !.p = p])
      PROVE  LocksOrderly'
  <2>1. Orderly([Idle EXCEPT !.op = op, !.pc = "create", !.p = p])
    BY DEF Orderly
  <2> QED BY <1>1, <2>1, StartOrderly
<1>2. ASSUME NEW p \in Paths, Start(t, [Idle EXCEPT !.op = "remove", !.pc = "remove", !.p = p])
      PROVE  LocksOrderly'
  <2>1. Orderly([Idle EXCEPT !.op = "remove", !.pc = "remove", !.p = p])
    BY DEF Orderly
  <2> QED BY <1>2, <2>1, StartOrderly
<1>3. ASSUME NEW p \in Paths, NEW k \in Keys, NEW v \in Vals,
             Start(t, [Idle EXCEPT !.op = "set_regex", !.pc = "next_set", !.p = p, !.tree = p, !.left = Walk(p),
                                   !.k = k, !.v = <<"val", v>>])
      PROVE  LocksOrderly'
  <2> DEFINE r == [Idle EXCEPT !.op = "set_regex", !.pc = "next_set", !.p = p, !.tree = p, !.left = Walk(p),
                               !.k = k, !.v = <<"val", v>>]
  <2>1. Orderly(r)
    BY DEF Orderly
  <2> QED BY <1>3, <2>1, StartOrderly
<1>4. ASSUME NEW p \in Paths,
             Start(t, [Idle EXCEPT !.op = "remove_regex", !.pc = "next", !.p = p, !.tree = p, !.left = Walk(p)])
      PROVE  LocksOrderly'
  <2> DEFINE r == [Idle EXCEPT !.op = "remove_regex", !.pc = "next", !.p = p, !.tree = p, !.left = Walk(p)]
  <2>1. Orderly(r)
    BY DEF Orderly
  <2> QED BY <1>4, <2>1, StartOrderly
<1>5. ASSUME NEW p \in Paths, NEW q \in Paths, NEW op, NEW pc, pc \in {"create", "hardlink", "move"},
             Start(t, [Idle EXCEPT !.op = op, !.pc = pc, !.p = p, !.q = q])
      PROVE  LocksOrderly'
  <2>1. Orderly([Idle EXCEPT !.op = op, !.pc = pc, !.p = p, !.q = q])
    BY <1>5 DEF Orderly
  <2> QED BY <1>5, <2>1, StartOrderly
<1> HIDE DEF Idle, Fields, Holding, Hardlinking
<1> QED BY <1>1, <1>2, <1>3, <1>4, <1>5 DEF Call

(* ... as do the requests on attributes.                                   *)
LEMMA AttrCallOrderly ==
  ASSUME LocksOrderly, NEW t \in Threads, AttrCall(t)
  PROVE  LocksOrderly'
<1>1. ASSUME NEW r, Orderly(r), OpenFor(t, r), r.pc \in {"attr", "copy", "attr_link", "attr_move"}
      PROVE  LocksOrderly'
  <2>1. Start(t, [r EXCEPT !.type = FType(fs, r.p)])
    BY <1>1 DEF OpenFor
  <2>2. Orderly([r EXCEPT !.type = FType(fs, r.p)])
    BY <1>1 DEF Orderly, Fields
  <2> QED BY <2>1, <2>2, StartOrderly
<1>2. PICK p \in Paths, k \in Keys :
        LET r == [Idle EXCEPT !.p = p, !.k = k] IN
        \/ \E v \in Vals, op \in {"set", "stamp"} : OpenFor(t, [r EXCEPT !.op = op, !.pc = "attr", !.v = <<"val", v>>])
        \/ \E op \in {"set", "append"} : OpenFor(t, [r EXCEPT !.op = op, !.pc = "attr"])
        \/ \E q \in Paths \ {Root} :
             \/ OpenFor(t, [r EXCEPT !.op = "copy_attr", !.pc = "copy", !.q = q])
             \/ \E k2 \in Keys : OpenFor(t, [r EXCEPT !.op = "link_attr", !.pc = "attr_link", !.q = q, !.k2 = k2])
        \/ \E k2 \in Keys \ {k} : OpenFor(t, [r EXCEPT !.op = "move_attr", !.pc = "attr_move", !.k2 = k2])
  BY DEF AttrCall
<1> DEFINE r == [Idle EXCEPT !.p = p, !.k = k]
<1>3. /\ DOMAIN r = DOMAIN Idle /\ r.p = p /\ r.held = {}
      /\ Fields \cup {"k", "k2", "v"} \subseteq DOMAIN r
  BY DEF Idle, Fields
<1> HIDE DEF r
<1>4. ASSUME NEW op, NEW v PROVE Orderly([r EXCEPT !.op = op, !.pc = "attr", !.v = <<"val", v>>])
  BY <1>3 DEF Orderly, Fields, Hardlinking
<1>5. ASSUME NEW op PROVE Orderly([r EXCEPT !.op = op, !.pc = "attr"])
  BY <1>3 DEF Orderly, Fields, Hardlinking
<1>6. ASSUME NEW q \in Paths PROVE Orderly([r EXCEPT !.op = "copy_attr", !.pc = "copy", !.q = q])
  BY <1>3 DEF Orderly, Fields, Hardlinking, Ascending
<1>7. ASSUME NEW q, NEW k2 PROVE Orderly([r EXCEPT !.op = "link_attr", !.pc = "attr_link", !.q = q, !.k2 = k2])
  BY <1>3 DEF Orderly, Fields, Hardlinking
<1>8. ASSUME NEW k2 PROVE Orderly([r EXCEPT !.op = "move_attr", !.pc = "attr_move", !.k2 = k2])
  BY <1>3 DEF Orderly, Fields, Hardlinking
<1>9. "pc" \in DOMAIN r
  BY <1>3 DEF Fields
<1>10. ASSUME NEW v \in Vals, NEW op, OpenFor(t, [r EXCEPT !.op = op, !.pc = "attr", !.v = <<"val", v>>])
       PROVE  LocksOrderly'
  BY <1>10, <1>4, <1>1, <1>9
<1>11. ASSUME NEW op, OpenFor(t, [r EXCEPT !.op = op, !.pc = "attr"])
       PROVE  LocksOrderly'
  BY <1>11, <1>5, <1>1, <1>9
<1>12. ASSUME NEW q \in Paths, OpenFor(t, [r EXCEPT !.op = "copy_attr", !.pc = "copy", !.q = q])
       PROVE  LocksOrderly'
  BY <1>12, <1>6, <1>1, <1>9
<1>13. ASSUME NEW q, NEW k2, OpenFor(t, [r EXCEPT !.op = "link_attr", !.pc = "attr_link", !.q = q, !.k2 = k2])
       PROVE  LocksOrderly'
  BY <1>13, <1>7, <1>1, <1>9
<1>14. ASSUME NEW k2, OpenFor(t, [r EXCEPT !.op = "move_attr", !.pc = "attr_move", !.k2 = k2])
       PROVE  LocksOrderly'
  BY <1>14, <1>8, <1>1, <1>9
<1> QED BY <1>2, <1>10, <1>11, <1>12, <1>13, <1>14 DEF r

-----------------------------------------------------------------------------
(* Operations with at most one lock.                                       *)
LEMMA SingleLockOrderly ==
  ASSUME LocksOrderly, NEW t \in Threads,
         \/ CreateProxy(t) \/ CreateAttrDir(t) \/ SymlinkRemove(t) \/ SymlinkMake(t)
         \/ RemoveCheck(t) \/ RemoveProxy(t) \/ RemoveAttrDir(t) \/ RemoveDirPurge(t) \/ RemoveDir(t)
         \/ RemoveRegexNext(t) \/ MoveProxy(t) \/ MoveAttrDir(t)
         \/ SetAttrs(t) \/ SetRegexNext(t) \/ CopyAttrs(t) \/ SymlinkAttrs(t) \/ MoveAttrs(t)
  PROVE  LocksOrderly'
<1>1. Orderly(th[t])
  BY DEF LocksOrderly
<1>2. ASSUME NEW f, NEW r, Step(t, f, r), Plain(r) PROVE LocksOrderly'
  BY <1>2, StepOrderly, PlainOrderly
<1>3. ASSUME NEW f, NEW ok, Finish(t, f, ok) PROVE LocksOrderly'
  BY <1>3, FinishOrderly
<1>4. ASSUME NEW pc \in Holding \ {"hard_lock", "attr_lock", "copy"}, NEW s
      PROVE  Plain(Locking(t, s, pc)) /\ Plain(Goto(t, pc)) /\ \A h : Plain([Goto(t, pc) EXCEPT !.h = h])
  BY <1>1 DEF Orderly, Plain, Locking, Goto, Fields, Holding, Hardlinking
<1>5. ASSUME CreateProxy(t) PROVE LocksOrderly'
  <2>1. "create_attr" \in Holding \ {"hard_lock", "attr_lock", "copy"}
    BY DEF Holding
  <2> QED BY <1>5, <1>2, <1>3, <1>4, <2>1 DEF CreateProxy
<1>6. ASSUME CreateAttrDir(t) PROVE LocksOrderly'
  <2>1. Plain([Goto(t, "sym_remove") EXCEPT !.held = {}])
    BY <1>1 DEF Orderly, Plain, Goto, Fields, Hardlinking
  <2> QED BY <1>6, <1>2, <1>3, <2>1 DEF CreateAttrDir
<1>7. ASSUME SymlinkRemove(t) PROVE LocksOrderly'
  <2>1. Plain(Goto(t, "sym_link"))
    BY <1>1, <1>7 DEF SymlinkRemove, At, Orderly, Plain, Goto, Fields, Hardlinking, Holding
  <2> QED BY <1>7, <1>2, <2>1 DEF SymlinkRemove
<1>8. ASSUME RemoveCheck(t) PROVE LocksOrderly'
  <2>1. {"rm_proxy", "rm_purge"} \subseteq Holding \ {"hard_lock", "attr_lock", "copy"}
    BY DEF Holding
  <2> QED BY <1>8, <1>2, <1>3, <1>4, <2>1 DEF RemoveCheck
<1>9. ASSUME RemoveProxy(t) PROVE LocksOrderly'
  <2>1. {"rm_link", "rm_attr"} \subseteq Holding \ {"hard_lock", "attr_lock", "copy"}
    BY DEF Holding
  <2> QED BY <1>9, <1>2, <1>4, <2>1 DEF RemoveProxy
<1>10. ASSUME RemoveDirPurge(t) PROVE LocksOrderly'
  <2>1. "rm_dir" \in Holding \ {"hard_lock", "attr_lock", "copy"}
    BY DEF Holding
  <2> QED BY <1>10, <1>2, <1>4, <2>1 DEF RemoveDirPurge
<1>11. ASSUME RemoveRegexNext(t) PROVE LocksOrderly'
  <2>1. \A p : Plain([th[t] EXCEPT !.pc = "remove", !.op = "remove", !.p = p, !.left = th[t].left \ {p},
                                   !.count = th[t].count + 1])
    BY <1>1, <1>11 DEF RemoveRegexNext, At, Orderly, Plain, Fields, Hardlinking, Holding
  <2> QED BY <1>11, <1>2, <1>3, <2>1 DEF RemoveRegexNext
<1>12. ASSUME MoveProxy(t) PROVE LocksOrderly'
  <2>1. Plain(Goto(t, "move_attr"))
    BY <1>1, <1>12 DEF MoveProxy, At, Orderly, Plain, Goto, Fields, Hardlinking, Holding
  <2> QED BY <1>12, <1>2, <1>3, <2>1 DEF MoveProxy
<1>13. ASSUME SetRegexNext(t) PROVE LocksOrderly'
  <2>1. ASSUME NEW left, NEW ok PROVE Plain([th[t] EXCEPT !.left = left, !.ok = ok])
    BY <1>1, <1>13 DEF SetRegexNext, At, Orderly, Plain, Fields, Hardlinking, Holding
  <2> QED BY <1>13, <1>2, <1>3, <2>1 DEF SetRegexNext
<1>14. ASSUME SymlinkMake(t) \/ RemoveAttrDir(t) \/ RemoveDir(t) \/ MoveAttrDir(t) \/ SetAttrs(t)
              \/ CopyAttrs(t) \/ SymlinkAttrs(t) \/ MoveAttrs(t)
       PROVE  LocksOrderly'
  BY <1>14, <1>3 DEF SymlinkMake, RemoveAttrDir, RemoveDir, MoveAttrDir, SetAttrs, CopyAttrs, SymlinkAttrs, MoveAttrs
<1> QED BY <1>5, <1>6, <1>7, <1>8, <1>9, <1>10, <1>11, <1>12, <1>13, <1>14

(* Attributes: the object's lock and the one of the links, as listed.      *)
LEMMA MultiLockOrderly ==
  ASSUME LocksOrderly, NEW t \in Threads, MultiGather(t) \/ MultiLock(t)
  PROVE  LocksOrderly'
<1>1. Orderly(th[t])
  BY DEF LocksOrderly
<1>2. CASE MultiGather(t)
  <2> DEFINE r == [Goto(t, "attr_lock") EXCEPT !.locks = MultiLocks(t)]
  <2>1. Step(t, fs, r) /\ th[t].pc = "attr" /\ th[t].p \in Paths /\ th[t].held = {}
    BY <1>1, <1>2 DEF MultiGather, At, Orderly, Holding
  <2>2. Lock(th[t].p) \in Nat /\ Lock(Root) \in Nat
    BY <2>1, NamespaceAssumption DEF Lock, Root
  <2>3. Listed(MultiLocks(t), {})
    <3>1. ASSUME NEW a \in Nat, NEW b \in Nat
          PROVE  Listed(<<a>>, {}) /\ (a # b => Listed(<<a, b>>, {}))
      <4>1. <<a>> \in Seq(Nat) /\ Len(<<a>>) = 1
        OBVIOUS
      <4>2. <<a, b>> \in Seq(Nat) /\ Len(<<a, b>>) = 2 /\ <<a, b>>[1] = a /\ <<a, b>>[2] = b
        OBVIOUS
      <4> QED BY <4>1, <4>2 DEF Listed
    <3> QED BY <3>1, <2>2 DEF MultiLocks
  <2>4. Orderly(r)
    BY <1>1, <2>1, <2>3 DEF Orderly, Goto, Fields, Hardlinking, Holding
  <2> HIDE DEF r
  <2> QED BY <2>1, <2>4, StepOrderly
<1>3. CASE MultiLock(t)
  <2> DEFINE want == th[t].locks
             pc == IF Len(want) = 1 THEN "attr_set" ELSE "attr_lock"
             r == [Locking(t, want[1], pc) EXCEPT !.locks = Tail(want)]
  <2>1. Step(t, fs, r) /\ th[t].pc = "attr_lock" /\ Listed(want, th[t].held)
    BY <1>1, <1>3 DEF MultiLock, At, Orderly
  <2>2. CASE Len(want) = 1
    <3>1. Plain(r)
      BY <1>1, <2>2 DEF Orderly, Plain, Locking, Fields, Hardlinking, Holding
    <3> HIDE DEF r
    <3> QED BY <2>1, <3>1, StepOrderly, PlainOrderly
  <2>3. CASE Len(want) # 1
    <3>1. th[t].held = {} /\ want \in Seq(Nat) /\ Len(want) = 2 /\ want[1] # want[2]
      BY <2>1, <2>3 DEF Listed
    <3>2. Tail(want) \in Seq(Nat) /\ Len(Tail(want)) = 1 /\ Tail(want)[1] = want[2] /\ want[1] \in Nat
      BY <3>1
    <3> HIDE DEF want
    <3>3. Listed(Tail(want), {want[1]})
      BY <3>1, <3>2 DEF Listed
    <3>4. Orderly(r)
      BY <1>1, <2>3, <3>1, <3>3 DEF Orderly, Locking, Fields, Hardlinking, Holding
    <3> HIDE DEF r
    <3> QED BY <2>1, <3>4, StepOrderly
  <2> QED BY <2>2, <2>3
<1> QED BY <1>2, <1>3

(* A copy takes its two locks by slot.                                     *)
LEMMA CopyLockOrderly ==
  ASSUME LocksOrderly, NEW t \in Threads, CopyLock(t)
  PROVE  LocksOrderly'
<1> DEFINE a == Lock(th[t].p)
           b == Lock(th[t].q)
           s == NextCopyLock(t)
           all == CopyLocks(t) \subseteq th[t].held \cup {s}
           r == Locking(t, s, IF all THEN "copy_set" ELSE "copy")
<1>1. Orderly(th[t])
  BY DEF LocksOrderly
<1>2. Step(t, fs, r) /\ th[t].pc = "copy"
  BY DEF CopyLock, At
<1>3. a \in Nat /\ b \in Nat /\ Ascending({a, b}, th[t].held)
  BY <1>1, <1>2, NamespaceAssumption DEF Orderly, Lock
<1>4. CopyLocks(t) = {a, b} /\ s = Lowest({a, b} \ th[t].held)
  BY DEF CopyLocks, NextCopyLock
<1>5. CASE all
  <2>1. Plain(r)
    BY <1>1, <1>5 DEF Orderly, Plain, Locking, Fields, Hardlinking, Holding
  <2> HIDE DEF r
  <2> QED BY <1>2, <2>1, StepOrderly, PlainOrderly
<1>6. CASE ~all
  <2> HIDE DEF a, b, s
  <2>1. Ascending({a, b}, th[t].held \cup {s})
    BY <1>3, <1>4, <1>6, TakeLowest
  <2>2. /\ r.pc = "copy" /\ r.p = th[t].p /\ r.q = th[t].q /\ r.held = th[t].held \cup {s}
        /\ Fields \subseteq DOMAIN r
    BY <1>1, <1>6 DEF Locking, Orderly, Fields
  <2> HIDE DEF r, all
  <2>3. Orderly(r)
    BY <1>1, <1>2, <2>1, <2>2 DEF Orderly, a, b, Hardlinking, Holding
  <2> QED BY <1>2, <2>3, StepOrderly
<1> QED BY <1>5, <1>6

(* So does a hard link, once it has found or made the hard-link proxy.     *)
LEMMA HardlinkOrderly ==
  ASSUME LocksOrderly, NEW t \in Threads,
         HardlinkType(t) \/ HardlinkConvert(t) \/ HardlinkFind(t) \/ HardlinkName(t) \/ HardlinkAttr(t)
  PROVE  LocksOrderly'
<1>1. Orderly(th[t])
  BY DEF LocksOrderly
<1>2. ASSUME NEW f, NEW ok, Finish(t, f, ok) PROVE LocksOrderly'
  BY <1>2, FinishOrderly
<1>3. ASSUME NEW pc \in {"hard_find", "conv_attr", "conv_link", "conv_move", "conv_name"},
             th[t].pc \in Hardlinking \ {"hard_lock"}
      PROVE  Orderly(Goto(t, pc)) /\ \A h : Orderly([Goto(t, pc) EXCEPT !.h = h])
  BY <1>1, <1>3 DEF Orderly, Goto, Fields, Hardlinking, Holding
<1>4. CASE HardlinkType(t)
  <2>1. th[t].pc \in Hardlinking \ {"hard_lock"}
    BY <1>4 DEF HardlinkType, At, Hardlinking
  <2> QED BY <1>2, <1>3, <1>4, <2>1, StepOrderly DEF HardlinkType
<1>5. CASE HardlinkConvert(t)
  <2>1. th[t].pc \in {"conv_attr", "conv_link", "conv_move", "conv_name"}
        /\ AfterConversion[th[t].pc] \in {"hard_find", "conv_link", "conv_move", "conv_name"}
    BY <1>5 DEF HardlinkConvert, AfterConversion
  <2>2. th[t].pc \in Hardlinking \ {"hard_lock"}
    BY <2>1 DEF Hardlinking
  <2>3. Orderly(Goto(t, AfterConversion[th[t].pc]))
    BY <1>3, <2>1, <2>2
  <2> QED BY <1>2, <1>5, <2>3, StepOrderly DEF HardlinkConvert
<1>6. CASE HardlinkFind(t)
  <2>1. ASSUME NEW h \in 1 .. MaxHard PROVE Orderly([Goto(t, "hard_lock") EXCEPT !.h = h])
    BY <1>1, <1>6 DEF HardlinkFind, At, Orderly, Goto, Fields, Hardlinking, Holding, Ascending
  <2> QED BY <1>2, <1>6, <2>1, StepOrderly DEF HardlinkFind
<1>7. CASE HardlinkName(t)
  <2>1. Plain(Goto(t, "hard_attr"))
    BY <1>1 DEF Orderly, Plain, Goto, Fields, Hardlinking, Holding
  <2> QED BY <1>2, <1>7, <2>1, StepOrderly, PlainOrderly DEF HardlinkName
<1>8. CASE HardlinkAttr(t)
  BY <1>2, <1>8 DEF HardlinkAttr
<1> QED BY <1>4, <1>5, <1>6, <1>7, <1>8

LEMMA HardlinkLockOrderly ==
  ASSUME LocksOrderly, NEW t \in Threads, HardlinkLock(t)
  PROVE  LocksOrderly'
<1> DEFINE a == SlotOf(<<"hard", th[t].h>>)
           b == SlotOf(<<"full", th[t].q>>)
           s == Lowest(HardLocks(t) \ th[t].held)
           all == HardLocks(t) \subseteq th[t].held \cup {s}
           r == Locking(t, s, IF all THEN "hard_name" ELSE "hard_lock")
<1>1. Orderly(th[t])
  BY DEF LocksOrderly
<1>2. Step(t, fs, r) /\ th[t].pc = "hard_lock"
  BY DEF HardlinkLock, At
<1>3. a \in Nat /\ b \in Nat /\ Ascending({a, b}, th[t].held)
  BY <1>1, <1>2, NamespaceAssumption DEF Orderly, Hardlinking
<1>4. HardLocks(t) = {a, b} /\ s = Lowest({a, b} \ th[t].held)
  BY DEF HardLocks
<1>5. CASE all
  <2>1. Plain(r)
    BY <1>1, <1>5 DEF Orderly, Plain, Locking, Fields, Hardlinking, Holding
  <2> HIDE DEF r
  <2> QED BY <1>2, <2>1, StepOrderly, PlainOrderly
<1>6. CASE ~all
  <2> HIDE DEF a, b, s
  <2>1. Ascending({a, b}, th[t].held \cup {s})
    BY <1>3, <1>4, <1>6, TakeLowest
  <2>2. /\ r.pc = "hard_lock" /\ r.h = th[t].h /\ r.q = th[t].q /\ r.held = th[t].held \cup {s}
        /\ Fields \subseteq DOMAIN r
    BY <1>1, <1>6 DEF Locking, Orderly, Fields
  <2> HIDE DEF r, all
  <2>3. Orderly(r)
    BY <1>1, <1>2, <2>1, <2>2 DEF Orderly, a, b, Hardlinking, Holding
  <2> QED BY <1>2, <2>3, StepOrderly
<1> QED BY <1>5, <1>6

-----------------------------------------------------------------------------
(* Every step keeps the order of the locks.                                *)
LEMMA OrderKept == LocksOrderly /\ [Next]_vars => LocksOrderly'
<1> SUFFICES ASSUME LocksOrderly, [Next]_vars PROVE LocksOrderly'
  OBVIOUS
<1>1. ASSUME NEW t \in Threads, Call(t) \/ AttrCall(t) PROVE LocksOrderly'
  BY <1>1, CallOrderly, AttrCallOrderly
<1>2. ASSUME NEW t \in Threads, Run(t) PROVE LocksOrderly'
  BY <1>2, SingleLockOrderly, MultiLockOrderly, CopyLockOrderly, HardlinkOrderly, HardlinkLockOrderly DEF Run
<1>3. ASSUME NEW d, NEW fix, Fsck(d, fix) PROVE LocksOrderly'
  BY <1>3 DEF Fsck, LocksOrderly, Orderly, Lock
<1>4. ASSUME Crash PROVE LocksOrderly'
  BY <1>4, IdleOrderly DEF Crash, LocksOrderly, Orderly, Lock
<1>5. CASE UNCHANGED vars
  BY <1>5 DEF vars, LocksOrderly, Orderly, Lock
<1> QED BY <1>1, <1>2, <1>3, <1>4, <1>5 DEF Next

(* A thread that holds a lock and waits for another, and is not out of     *)
(* order in osf_multi_lock, waits for a slot above all it holds.           *)
LEMMA WaitsAbove ==
  ASSUME LocksOrderly, NEW t \in Threads, ~OutOfOrder(t),
         NEW x \in th[t].held, NEW w \in Wanted(t)
  PROVE  x \in Nat /\ w \in Nat /\ x < w
<1>1. Orderly(th[t]) /\ th[t].pc \in Holding
  BY DEF LocksOrderly, Orderly
<1>2. \/ th[t].pc = "attr_lock" /\ w = th[t].locks[1]
      \/ th[t].pc = "copy" /\ w = NextCopyLock(t)
      \/ th[t].pc = "hard_lock" /\ w = Lowest(HardLocks(t) \ th[t].held)
  BY <1>1 DEF Wanted, At, Holding
<1>3. CASE th[t].pc = "attr_lock" /\ w = th[t].locks[1]
  <2>1. Listed(th[t].locks, th[t].held)
    BY <1>1, <1>3 DEF Orderly
  <2>2. x \in Nat /\ x # w /\ w \in Nat
    BY <1>3, <2>1 DEF Listed
  <2>3. ~(x > w)
    BY <1>3 DEF OutOfOrder, At
  <2> QED BY <2>2, <2>3
<1>4. CASE th[t].pc = "copy" /\ w = NextCopyLock(t)
  <2>1. /\ Lock(th[t].p) \in Nat /\ Lock(th[t].q) \in Nat
        /\ Ascending({Lock(th[t].p), Lock(th[t].q)}, th[t].held)
    BY <1>1, <1>4, NamespaceAssumption DEF Orderly, Lock
  <2> QED BY <1>4, <2>1, WaitsUpwards DEF NextCopyLock, CopyLocks
<1>5. CASE th[t].pc = "hard_lock" /\ w = Lowest(HardLocks(t) \ th[t].held)
  <2>1. /\ SlotOf(<<"hard", th[t].h>>) \in Nat /\ SlotOf(<<"full", th[t].q>>) \in Nat
        /\ Ascending({SlotOf(<<"hard", th[t].h>>), SlotOf(<<"full", th[t].q>>)}, th[t].held)
    BY <1>1, <1>5, NamespaceAssumption DEF Orderly, Hardlinking
  <2> QED BY <1>5, <2>1, WaitsUpwards DEF HardLocks
<1> QED BY <1>2, <1>3, <1>4, <1>5

(* In a circle without such a thread the lowest slot that is waited for    *)
(* would be held by a thread that waits for a lower one.                   *)
LEMMA NoOrderlyCircle ==
  ASSUME LocksOrderly, NEW S \in SUBSET Threads, Circle(S), \A t \in S : ~OutOfOrder(t)
  PROVE  FALSE
<1> DEFINE W == UNION {Wanted(t) : t \in S}
<1>1. \A t \in S : th[t].held # {} /\ Wanted(t) # {}
  BY DEF Circle, WaitsFor
<1>2. W \subseteq Nat
  BY <1>1, WaitsAbove
<1>3. W # {}
  BY <1>1 DEF Circle
<1>4. PICK w \in W : \A x \in W : w <= x
  <2> HIDE DEF W
  <2> QED BY <1>2, <1>3, LeastNat
<1>5. PICK t \in S : w \in Wanted(t)
  BY <1>4
<1>6. PICK u \in S : WaitsFor(u, t)
  BY DEF Circle
<1>7. PICK x \in Wanted(u) : x \in th[t].held
  BY <1>6 DEF WaitsFor
<1>8. x \in Nat /\ w \in Nat /\ x < w
  BY <1>5, <1>7, WaitsAbove
<1>9. w <= x
  BY <1>4, <1>6, <1>7
<1> QED BY <1>8, <1>9

(* For any number of threads, paths and lock slots: threads of the object  *)
(* service that wait for each other's locks in a circle include one in     *)
(* osf_multi_lock that waits for a slot below one it holds.  Copies, hard  *)
(* links, creations and removals alone never deadlock.                     *)
THEOREM LockOrder == Spec => []CycleOnlyByMultiLock
<1>1. Init => LocksOrderly
  BY IdleOrderly DEF Init, LocksOrderly
<1>2. LocksOrderly => CycleOnlyByMultiLock
  BY NoOrderlyCircle DEF CycleOnlyByMultiLock
<1> QED BY <1>1, <1>2, OrderKept, PTL DEF Spec
================================================================================
