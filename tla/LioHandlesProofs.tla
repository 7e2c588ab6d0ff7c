---------------------------- MODULE LioHandlesProofs ----------------------------
(***************************************************************************)
(* Proofs about the shared file handles of lio_core_io.c, for any number   *)
(* of threads and calls, with or without failing calls.                    *)
(***************************************************************************)
EXTENDS LioHandles, FiniteSetTheorems, SequenceTheorems, TLAPS

(* The invariant that is inductive: the count bounds who may tear down, a  *)
(* single live handle in the index makes the teardown hit that one.        *)
HandlesInv == TypeOK /\ RefCounted /\ OpenFdsLive /\ LoadedOnce

NoHandle == {"idle", "create", "attrs", "load", "lock"}

\* The holders of a handle are a finite set.
LEMMA HoldersFinite ==
  ASSUME NEW h
  PROVE  /\ IsFiniteSet(Holders(h)) /\ Cardinality(Holders(h)) \in Nat
         /\ Cardinality(Holders(h)) = 0 <=> Holders(h) = {}
<1>1. Holders(h) \in SUBSET Threads
  BY DEF Holders
<1>2. IsFiniteSet(Holders(h))
  BY <1>1, FS_Subset, HandlesAssumption
<1> QED
  BY <1>2, FS_CardinalityType, FS_EmptySet

\* Storing a handle record keeps the table of handles well typed.
LEMMA PutType ==
  ASSUME fh \in Seq(Handle), NEW h \in 1 .. Len(fh), NEW r \in Handle, Put(h, r)
  PROVE  /\ fh' \in Seq(Handle) /\ Len(fh') = Len(fh)
         /\ \A k \in 1 .. Len(fh) : fh'[k] = IF k = h THEN r ELSE fh[k]
BY DEF Put

\* A thread that moves on with a well-typed record keeps the types.
LEMMA SetType ==
  ASSUME th \in [Threads -> Thread], NEW t \in Threads, NEW r \in Thread, Set(t, r)
  PROVE  /\ th' \in [Threads -> Thread]
         /\ th'[t] = r /\ \A u \in Threads \ {t} : th'[u] = th[u]
BY DEF Set

\* The record of a thread that is in no call.
LEMMA IdleType == Idle \in Thread /\ Idle.pc = "idle" /\ Idle.h = 0
<1>1. <<>> \in Seq(Nat)
  OBVIOUS
<1> QED
  BY <1>1 DEF Idle, Thread

\* A cut or extended content is a content, and its writes are numbers.
LEMMA ContentType ==
  ASSUME NEW d \in Seq(Nat), NEW n \in Nat
  PROVE  Resize(d, n) \in Seq(Nat) /\ Writes(d) \subseteq Nat
<1>1. Resize(d, n) \in [1 .. n -> Nat]
  BY DEF Resize
<1>2. Resize(d, n) \in Seq(Nat)
  BY <1>1
<1>3. Writes(d) \subseteq Nat
  BY DEF Writes
<1> QED
  BY <1>2, <1>3

\* The next write's number.
LEMMA NewWriteType == NewWrite \in Nat
<1> DEFINE S == {w \in 1 .. MaxOps : \E h \in 1 .. Len(fh) : \E v \in Writes(fh[h].data) \cup stored : w <= v}
<1>1. S \in SUBSET (1 .. MaxOps)
  OBVIOUS
<1>2. IsFiniteSet(1 .. MaxOps)
  BY FS_Interval, HandlesAssumption
<1>3. Cardinality(S) \in Nat
  BY <1>1, <1>2, FS_Subset, FS_CardinalityType
<1> QED
  BY <1>3 DEF NewWrite

\* Who is past the lookup of an open refers to an allocated handle.
LEMMA InUse ==
  ASSUME TypeOK, NEW t \in Threads, th[t].pc \notin NoHandle
  PROVE  th[t].h \in 1 .. Len(fh)
<1>1. th[t].h \in 0 .. Len(fh) /\ Len(fh) \in Nat
  BY DEF TypeOK
<1>2. th[t].h # 0
  BY DEF TypeOK, NoHandle
<1> QED
  BY <1>1, <1>2

\* A step that neither counts, frees, allocates nor moves a descriptor in
\* or out of use preserves the three facts about handles.
LEMMA QuietStep ==
  ASSUME HandlesInv, TypeOK', index' = index, Len(fh') = Len(fh), races \subseteq races',
         \A h \in 1 .. Len(fh) : fh'[h].ref = fh[h].ref /\ fh'[h].freed = fh[h].freed,
         \A t \in Threads : \/ th'[t].h = th[t].h /\ (th'[t].pc \in Holding <=> th[t].pc \in Holding)
                            \/ th[t].pc \notin Holding /\ th'[t].pc \notin Holding
  PROVE  HandlesInv'
<1>1. RefCounted'
  <2> SUFFICES ASSUME NEW h \in 1 .. Len(fh), ~fh[h].freed
               PROVE  fh'[h].ref = Cardinality(Holders(h)')
    BY DEF RefCounted
  <2>1. Holders(h)' = Holders(h)
    BY DEF Holders
  <2> QED
    BY <2>1 DEF HandlesInv, RefCounted
<1>2. LoadedOnce'
  BY DEF HandlesInv, LoadedOnce
<1>3. OpenFdsLive'
  <2> SUFFICES ASSUME NEW t \in Threads, th'[t].pc \in Holding, "badopen" \notin races'
               PROVE  ~fh'[th'[t].h].freed /\ index' = th'[t].h
    BY DEF OpenFdsLive, H
  <2>1. th'[t].h = th[t].h /\ th[t].pc \in Holding
    OBVIOUS
  <2>2. ~fh[th[t].h].freed /\ index = th[t].h
    BY <2>1 DEF HandlesInv, OpenFdsLive, H
  <2>3. th[t].h \in 1 .. Len(fh)
    BY <2>1, InUse DEF HandlesInv, Holding, NoHandle
  <2> QED
    BY <2>1, <2>2, <2>3
<1> QED
  BY <1>1, <1>2, <1>3 DEF HandlesInv

-----------------------------------------------------------------------------
\* Initially there is no handle.
LEMMA InitHandles == Init => HandlesInv
<1> SUFFICES ASSUME Init PROVE HandlesInv
  OBVIOUS
<1>1. TypeOK
  <2>1. exnode \in Seq(Nat) /\ fh \in Seq(Handle) /\ Len(fh) = 0
    BY DEF Init
  <2>2. th \in [Threads -> Thread] /\ \A t \in Threads : th[t].h = 0 /\ th[t].pc = "idle"
    BY IdleType DEF Init
  <2> QED
    BY <2>1, <2>2 DEF Init, TypeOK
<1>2. RefCounted /\ LoadedOnce
  BY DEF Init, RefCounted, LoadedOnce
<1>3. OpenFdsLive
  BY DEF Init, OpenFdsLive, Idle, Holding
<1> QED
  BY <1>1, <1>2, <1>3 DEF HandlesInv

\* Steps of a thread without a handle, before lio_lock is taken.
LEMMA BeforeLock ==
  ASSUME HandlesInv, NEW t \in Threads,
         \/ \E write, trunc \in BOOLEAN : OpenStart(t, write, trunc)
         \/ CreateObject(t) \/ CreateAttrs(t) \/ LoadAttrs(t)
  PROVE  HandlesInv'
<1> DEFINE Moved == /\ th' \in [Threads -> Thread] /\ \A u \in Threads \ {t} : th'[u] = th[u]
                    /\ th'[t].pc \in NoHandle /\ th'[t].h = 0
<1>1. Moved
  <2>1. th \in [Threads -> Thread] /\ th[t] \in Thread /\ exnode \in Seq(Nat)
    BY DEF HandlesInv, TypeOK
  <2>2. th[t].h = 0
    BY DEF OpenStart, CreateObject, CreateAttrs, LoadAttrs, At, HandlesInv, TypeOK
  <2>3. CASE \E write, trunc \in BOOLEAN : OpenStart(t, write, trunc)
    <3>1. PICK write, trunc \in BOOLEAN : OpenStart(t, write, trunc)
      BY <2>3
    <3>2. CASE obj = "none"
      <4> DEFINE q == [Idle EXCEPT !.write = write, !.trunc = trunc, !.pc = "create"]
      <4>1. Set(t, q) /\ q \in Thread /\ q.pc = "create" /\ q.h = 0
        BY <3>1, <3>2, IdleType DEF OpenStart, Thread
      <4> QED
        BY <2>1, <4>1, SetType DEF NoHandle
    <3>3. CASE obj # "none"
      <4> DEFINE q == [Idle EXCEPT !.write = write, !.trunc = trunc, !.pc = "load"]
      <4>1. Set(t, q) /\ q \in Thread /\ q.pc = "load" /\ q.h = 0
        BY <3>1, <3>3, IdleType DEF OpenStart, Thread
      <4> QED
        BY <2>1, <4>1, SetType DEF NoHandle
    <3> QED
      BY <3>2, <3>3
  <2>4. CASE Set(t, Idle)
    BY <2>1, <2>4, IdleType, SetType DEF NoHandle
  <2>5. ASSUME NEW pc \in {"attrs", "load"}, Goto(t, pc)
        PROVE  Moved
    BY <2>1, <2>2, <2>5 DEF Goto, Thread, NoHandle
  <2>6. CASE Set(t, [th[t] EXCEPT !.pc = "lock", !.seen = exnode])
    BY <2>1, <2>2, <2>6 DEF Set, Thread, NoHandle
  <2> QED
    BY <2>3, <2>4, <2>5, <2>6 DEF CreateObject, CreateAttrs, LoadAttrs
<1>2. th[t].pc \in NoHandle
  BY DEF OpenStart, CreateObject, CreateAttrs, LoadAttrs, At, NoHandle
<1>3. UNCHANGED <<fh, index, stored, races>>
  BY DEF OpenStart, CreateObject, CreateAttrs, LoadAttrs, HandleSame, RestSame
<1>4. obj' \in {"none", "bare", "file"} /\ exnode' \in Seq(Nat)
  <2>1. obj \in {"none", "bare", "file"} /\ exnode \in Seq(Nat) /\ <<>> \in Seq(Nat)
    BY DEF HandlesInv, TypeOK
  <2> QED
    BY <2>1 DEF OpenStart, CreateObject, CreateAttrs, LoadAttrs, ObjSame
<1>5. TypeOK'
  BY <1>1, <1>3, <1>4 DEF HandlesInv, TypeOK, NoHandle
<1> QED
  BY <1>1, <1>2, <1>3, <1>5, QuietStep DEF Holding, NoHandle

-----------------------------------------------------------------------------
Later == {"trunc", "open", "wseg", "size", "cut", "flushed", "store", "check"}

\* Moving on within a call keeps the thread's record well typed.
LEMMA GotoType ==
  ASSUME th \in [Threads -> Thread], NEW t \in Threads, NEW pc \in Later, Goto(t, pc)
  PROVE  /\ th' \in [Threads -> Thread] /\ \A u \in Threads \ {t} : th'[u] = th[u]
         /\ th'[t].pc = pc /\ th'[t].h = th[t].h
BY DEF Goto, Thread, Later

\* A step of a thread with a handle that changes at most the content and
\* the modified flag of that handle.
LEMMA WithHandle ==
  ASSUME HandlesInv, NEW t \in Threads, th[t].pc \in Later,
         th' \in [Threads -> Thread], \A u \in Threads \ {t} : th'[u] = th[u],
         th'[t].h = th[t].h, th'[t].pc \in Later,
         th'[t].pc \in Holding <=> th[t].pc \in Holding,
         fh' \in Seq(Handle), Len(fh') = Len(fh),
         \A h \in 1 .. Len(fh) : fh'[h].ref = fh[h].ref /\ fh'[h].freed = fh[h].freed,
         UNCHANGED <<index, obj>>, exnode' \in Seq(Nat), stored' \subseteq Nat,
         races \subseteq races', races' \subseteq {"reopen", "stale", "unsaved", "badopen"}
  PROVE  HandlesInv'
<1>1. TypeOK'
  <2>1. \A u \in Threads : /\ th'[u].h \in 0 .. Len(fh')
                           /\ (th'[u].h = 0) <=> (th'[u].pc \in NoHandle)
    <3> SUFFICES ASSUME NEW u \in Threads
                 PROVE  /\ th'[u].h \in 0 .. Len(fh')
                        /\ (th'[u].h = 0) <=> (th'[u].pc \in NoHandle)
      OBVIOUS
    <3>1. /\ th[u].h \in 0 .. Len(fh)
          /\ (th[u].h = 0) <=> (th[u].pc \in NoHandle)
      BY DEF HandlesInv, TypeOK, NoHandle
    <3>2. th'[t].pc \notin NoHandle /\ th[t].pc \notin NoHandle
      BY DEF Later, NoHandle
    <3> QED
      BY <3>1, <3>2
  <2> QED
    BY <2>1 DEF HandlesInv, TypeOK, NoHandle
<1>2. \A u \in Threads : th'[u].h = th[u].h /\ (th'[u].pc \in Holding <=> th[u].pc \in Holding)
  OBVIOUS
<1> QED
  BY <1>1, <1>2, QuietStep

\* The content of a handle after a truncation, and what remains owed.
LEMMA TruncateToType ==
  ASSUME HandlesInv, NEW t \in Threads, th[t].pc \in Later, NEW n \in Nat, TruncateTo(t, n)
  PROVE  /\ fh' \in Seq(Handle) /\ Len(fh') = Len(fh)
         /\ \A h \in 1 .. Len(fh) : fh'[h].ref = fh[h].ref /\ fh'[h].freed = fh[h].freed
         /\ stored' \subseteq Nat
<1> DEFINE k == th[t].h
           d == Resize(fh[k].data, n)
           r == [fh[k] EXCEPT !.modified = @ \/ Len(fh[k].data) # n,
                              !.data = d, !.kept = @ \cap Writes(d)]
<1>1. k \in 1 .. Len(fh) /\ fh \in Seq(Handle) /\ fh[k] \in Handle
  BY InUse DEF HandlesInv, TypeOK, Later, NoHandle
<1>2. d \in Seq(Nat)
  BY <1>1, ContentType DEF Handle
<1>3. r \in Handle /\ r.ref = fh[k].ref /\ r.freed = fh[k].freed
  BY <1>1, <1>2 DEF Handle
<1>4. Put(k, r)
  BY DEF TruncateTo, H
<1>5. stored' \subseteq Nat
  BY DEF TruncateTo, HandlesInv, TypeOK
<1> HIDE DEF r, d
<1> QED
  BY <1>1, <1>3, <1>4, <1>5, PutType

\* lio_write_ex_fn, lio_truncate_fn and the truncation of an open that works.
LEMMA UseStep ==
  ASSUME HandlesInv, NEW t \in Threads,
         WriteFlag(t) \/ WriteSegment(t) \/ Truncate(t)
  PROVE  HandlesInv'
<1> DEFINE k == th[t].h
<1>0. /\ th[t].pc \in Later /\ th \in [Threads -> Thread] /\ fh \in Seq(Handle)
      /\ exnode \in Seq(Nat) /\ stored \subseteq Nat
      /\ races \subseteq {"reopen", "stale", "unsaved", "badopen"}
  BY DEF WriteFlag, WriteSegment, Truncate, At, Later, HandlesInv, TypeOK
<1>1. k \in 1 .. Len(fh) /\ fh[k] \in Handle
  BY <1>0, InUse DEF HandlesInv, Later, NoHandle
<1>2. ASSUME NEW r \in Handle, Put(k, r), r.ref = fh[k].ref, r.freed = fh[k].freed
      PROVE  /\ fh' \in Seq(Handle) /\ Len(fh') = Len(fh)
             /\ \A h \in 1 .. Len(fh) : fh'[h].ref = fh[h].ref /\ fh'[h].freed = fh[h].freed
  BY <1>0, <1>1, <1>2, PutType
<1>3. CASE WriteFlag(t)
  <2> DEFINE r == [fh[k] EXCEPT !.modified = TRUE]
  <2>1. r \in Handle /\ r.ref = fh[k].ref /\ r.freed = fh[k].freed /\ Put(k, r)
    BY <1>1, <1>3 DEF Handle, WriteFlag, H
  <2>2. Goto(t, "wseg") /\ th[t].pc = "open" /\ UNCHANGED <<index, obj, exnode, stored, races>>
    BY <1>3 DEF WriteFlag, At, ObjSame
  <2> HIDE DEF r
  <2> QED
    BY <1>0, <1>2, <2>1, <2>2, GotoType, WithHandle DEF Later, Holding
<1>4. CASE WriteSegment(t)
  <2>1. Goto(t, "open") /\ th[t].pc = "wseg" /\ UNCHANGED <<index, obj, exnode, races>>
    BY <1>4 DEF WriteSegment, At, ObjSame
  <2>2. CASE UNCHANGED <<fh, stored>>
    BY <1>0, <2>1, <2>2, GotoType, WithHandle DEF Later, Holding
  <2>3. CASE stored' = stored \cup {NewWrite}
              /\ Put(k, [fh[k] EXCEPT !.data = Append(@, NewWrite), !.kept = @ \cup {NewWrite}])
    <3> DEFINE r == [fh[k] EXCEPT !.data = Append(@, NewWrite), !.kept = @ \cup {NewWrite}]
    <3>0. Append(fh[k].data, NewWrite) \in Seq(Nat) /\ stored' \subseteq Nat
      BY <1>0, <1>1, <2>3, NewWriteType DEF Handle
    <3>1. r \in Handle /\ r.ref = fh[k].ref /\ r.freed = fh[k].freed /\ Put(k, r)
      BY <1>1, <2>3, <3>0, NewWriteType DEF Handle
    <3> HIDE DEF r
    <3> QED
      BY <1>0, <1>2, <2>1, <3>0, <3>1, GotoType, WithHandle DEF Later, Holding
  <2> QED
    BY <1>4, <2>2, <2>3 DEF WriteSegment, H
<1>5. CASE Truncate(t)
  <2>1. UNCHANGED <<th, index, obj, exnode, races>>
    BY <1>5 DEF Truncate, ObjSame
  <2>2. CASE TruncateTo(t, 0)
    BY <1>0, <2>1, <2>2, TruncateToType, WithHandle
  <2>3. CASE Put(k, [fh[k] EXCEPT !.modified = TRUE]) /\ UNCHANGED stored
    <3> DEFINE r == [fh[k] EXCEPT !.modified = TRUE]
    <3>1. r \in Handle /\ r.ref = fh[k].ref /\ r.freed = fh[k].freed /\ Put(k, r)
      BY <1>1, <2>3 DEF Handle
    <3> HIDE DEF r
    <3> QED
      BY <1>0, <1>2, <2>1, <2>3, <3>1, WithHandle
  <2> QED
    BY <1>5, <2>2, <2>3 DEF Truncate, H
<1> QED
  BY <1>3, <1>4, <1>5

-----------------------------------------------------------------------------
\* lio_myclose_fn between its two critical sections.
LEMMA CloseStep ==
  ASSUME HandlesInv, NEW t \in Threads,
         CloseSize(t) \/ CloseTruncate(t) \/ CloseSerialize(t) \/ CloseStore(t)
  PROVE  HandlesInv'
<1> DEFINE k == th[t].h
<1>0. /\ th[t].pc \in Later \ Holding /\ th \in [Threads -> Thread] /\ fh \in Seq(Handle)
      /\ exnode \in Seq(Nat) /\ stored \subseteq Nat
      /\ races \subseteq {"reopen", "stale", "unsaved", "badopen"}
  BY DEF CloseSize, CloseTruncate, CloseSerialize, CloseStore, At, Later, Holding, HandlesInv, TypeOK
<1>1. k \in 1 .. Len(fh) /\ fh[k] \in Handle /\ fh[k].data \in Seq(Nat)
  <2>1. k \in 1 .. Len(fh) /\ fh[k] \in Handle
    BY <1>0, InUse DEF HandlesInv, Later, NoHandle
  <2> QED
    BY <2>1 DEF Handle
<1>2. th[t] \in Thread /\ th[t].size \in Nat /\ th[t].seen \in Seq(Nat) /\ <<>> \in Seq(Nat)
  BY <1>0 DEF Thread
<1>3. CASE CloseSize(t)
  <2> DEFINE r == [th[t] EXCEPT !.pc = "cut", !.size = Len(fh[k].data)]
  <2>1. Set(t, r) /\ UNCHANGED <<fh, index, obj, exnode, stored, races>>
    BY <1>3 DEF CloseSize, H, ObjSame, HandleSame, RestSame
  <2>2. Len(fh[k].data) \in Nat
    BY <1>1
  <2>3. r \in Thread /\ r.pc = "cut" /\ r.h = k
    BY <1>2, <2>2 DEF Thread
  <2> HIDE DEF r
  <2> QED
    BY <1>0, <2>1, <2>3, SetType, WithHandle DEF Later, Holding
<1>4. CASE CloseTruncate(t)
  <2> DEFINE r == [fh[k] EXCEPT !.data = Resize(@, th[t].size)]
  <2>1. Put(k, r) /\ Goto(t, "flushed") /\ UNCHANGED <<index, obj, exnode, stored, races>>
    BY <1>4 DEF CloseTruncate, H, ObjSame, RestSame
  <2>2. Resize(fh[k].data, th[t].size) \in Seq(Nat)
    BY <1>1, <1>2, ContentType
  <2>3. r \in Handle /\ r.ref = fh[k].ref /\ r.freed = fh[k].freed
    BY <1>1, <2>2 DEF Handle
  <2> HIDE DEF r
  <2>4. /\ fh' \in Seq(Handle) /\ Len(fh') = Len(fh)
        /\ \A h \in 1 .. Len(fh) : fh'[h].ref = fh[h].ref /\ fh'[h].freed = fh[h].freed
    BY <1>0, <1>1, <2>1, <2>3, PutType
  <2> QED
    BY <1>0, <2>1, <2>4, GotoType, WithHandle DEF Later, Holding
<1>5. CASE CloseSerialize(t)
  <2>1. UNCHANGED <<fh, index, obj, exnode, stored, races>>
    BY <1>5 DEF CloseSerialize, ObjSame, HandleSame, RestSame
  <2>2. CASE Goto(t, "check")
    BY <1>0, <2>1, <2>2, GotoType, WithHandle DEF Later, Holding
  <2>3. CASE Set(t, [th[t] EXCEPT !.pc = "store", !.seen = fh[k].data])
    <3> DEFINE r == [th[t] EXCEPT !.pc = "store", !.seen = fh[k].data]
    <3>1. r \in Thread /\ r.pc = "store" /\ r.h = k
      BY <1>1, <1>2 DEF Thread
    <3> HIDE DEF r
    <3>2. Set(t, r)
      BY <2>3 DEF r
    <3> QED
      BY <1>0, <2>1, <3>1, <3>2, SetType, WithHandle DEF Later, Holding
  <2> QED
    BY <1>5, <2>2, <2>3 DEF CloseSerialize, H
<1>6. CASE CloseStore(t)
  <2> DEFINE r == [th[t] EXCEPT !.pc = "check", !.seen = <<>>]
  <2>1. r \in Thread /\ r.pc = "check" /\ r.h = k
    BY <1>2 DEF Thread
  <2>2. Set(t, r) /\ UNCHANGED <<fh, index, obj, stored>>
    BY <1>6 DEF CloseStore, HandleSame
  <2>3. exnode' \in Seq(Nat) /\ races \subseteq races'
        /\ races' \subseteq {"reopen", "stale", "unsaved", "badopen"}
    BY <1>0, <1>2, <1>6 DEF CloseStore
  <2> HIDE DEF r
  <2> QED
    BY <1>0, <2>1, <2>2, <2>3, SetType, WithHandle DEF Later, Holding
<1> QED
  BY <1>3, <1>4, <1>5, <1>6

\* A handle is freed: by the close that finds its count at zero, or by the
\* failed truncation of an open.
LEMMA FreeStep ==
  ASSUME HandlesInv, NEW t \in Threads, th[t].pc \in Later, ~fh[th[t].h].freed,
         Put(th[t].h, [fh[th[t].h] EXCEPT !.freed = TRUE]), Set(t, Idle),
         UNCHANGED <<obj, exnode, stored>>, races \subseteq races',
         races' \subseteq {"reopen", "stale", "unsaved", "badopen"},
         \/ index' = 0 /\ fh[th[t].h].ref = 0
         \/ index' = index /\ "badopen" \in races'
  PROVE  HandlesInv'
<1> DEFINE k == th[t].h
           r == [fh[k] EXCEPT !.freed = TRUE]
<1>1. k \in 1 .. Len(fh) /\ fh \in Seq(Handle) /\ fh[k] \in Handle
  BY InUse DEF HandlesInv, TypeOK, Later, NoHandle
<1>2. r \in Handle /\ r.freed /\ Put(k, r)
  BY <1>1 DEF Handle
<1> HIDE DEF r
<1>3. /\ fh' \in Seq(Handle) /\ Len(fh') = Len(fh) /\ fh'[k].freed
      /\ \A h \in 1 .. Len(fh) : h # k => fh'[h] = fh[h]
  BY <1>1, <1>2, PutType
<1>4. /\ th' \in [Threads -> Thread] /\ th'[t] = Idle
      /\ \A u \in Threads \ {t} : th'[u] = th[u]
  BY IdleType, SetType DEF HandlesInv, TypeOK
<1>5. index = k
  BY <1>1 DEF HandlesInv, LoadedOnce
<1>6. TypeOK'
  <2>1. \A u \in Threads : /\ th'[u].h \in 0 .. Len(fh)
                           /\ (th'[u].h = 0) <=> (th'[u].pc \in NoHandle)
    <3> SUFFICES ASSUME NEW u \in Threads
                 PROVE  /\ th'[u].h \in 0 .. Len(fh)
                        /\ (th'[u].h = 0) <=> (th'[u].pc \in NoHandle)
      OBVIOUS
    <3>1. CASE u = t
      BY <1>1, <1>4, <3>1, IdleType DEF NoHandle
    <3>2. CASE u # t
      BY <1>4, <3>2 DEF HandlesInv, TypeOK, NoHandle
    <3> QED
      BY <3>1, <3>2
  <2>2. index' \in 0 .. Len(fh)
    BY DEF HandlesInv, TypeOK
  <2> QED
    BY <1>3, <1>4, <2>1, <2>2 DEF HandlesInv, TypeOK, NoHandle
<1>7. RefCounted'
  <2> SUFFICES ASSUME NEW h \in 1 .. Len(fh), h # k, ~fh[h].freed
               PROVE  fh'[h].ref = Cardinality(Holders(h)')
    BY <1>3 DEF RefCounted
  <2>1. Holders(h)' = Holders(h)
    BY <1>4, IdleType DEF Holders, Holding
  <2> QED
    BY <1>3, <2>1 DEF HandlesInv, RefCounted
<1>8. LoadedOnce'
  BY <1>3, <1>5 DEF HandlesInv, LoadedOnce
<1>9. OpenFdsLive'
  <2> SUFFICES ASSUME NEW u \in Threads, th'[u].pc \in Holding, "badopen" \notin races'
               PROVE  FALSE
    BY DEF OpenFdsLive
  <2>1. u # t /\ th[u].pc \in Holding
    BY <1>4, IdleType DEF Holding
  <2>2. th[u].h = k
    BY <1>5, <2>1 DEF HandlesInv, OpenFdsLive
  <2>3. u \in Holders(k)
    BY <2>1, <2>2 DEF Holders
  <2>4. Cardinality(Holders(k)) = 0
    BY <1>1 DEF HandlesInv, RefCounted
  <2> QED
    BY <2>3, <2>4, HoldersFinite
<1> QED
  BY <1>6, <1>7, <1>8, <1>9 DEF HandlesInv

\* The truncation of an open, successful or not.
LEMMA OpenTruncateStep ==
  ASSUME HandlesInv, NEW t \in Threads, OpenTruncate(t)
  PROVE  HandlesInv'
<1>0. /\ th[t].pc \in Later /\ th[t].pc = "trunc" /\ ~fh[th[t].h].freed
      /\ th \in [Threads -> Thread] /\ exnode \in Seq(Nat)
      /\ races \subseteq {"reopen", "stale", "unsaved", "badopen"}
  BY DEF OpenTruncate, At, H, Later, HandlesInv, TypeOK
<1>1. UNCHANGED <<obj, exnode, index>>
  BY DEF OpenTruncate, ObjSame
<1>2. CASE TruncateTo(t, 0) /\ Goto(t, "open") /\ UNCHANGED races
  BY <1>0, <1>1, <1>2, TruncateToType, GotoType, WithHandle DEF Later, Holding
<1>3. CASE /\ Put(th[t].h, [H(t) EXCEPT !.freed = TRUE])
           /\ Set(t, Idle) /\ races' = races \cup {"badopen"} /\ UNCHANGED stored
  BY <1>0, <1>1, <1>3, FreeStep DEF H
<1> QED
  BY <1>2, <1>3 DEF OpenTruncate

\* The second critical section of lio_myclose_fn.
LEMMA TeardownStep ==
  ASSUME HandlesInv, NEW t \in Threads, CloseTeardown(t)
  PROVE  HandlesInv'
<1>0. /\ th[t].pc \in Later /\ th[t].pc = "check" /\ ~fh[th[t].h].freed
      /\ th \in [Threads -> Thread] /\ Set(t, Idle)
      /\ UNCHANGED <<obj, exnode, stored, races>>
      /\ races \subseteq {"reopen", "stale", "unsaved", "badopen"}
  BY DEF CloseTeardown, At, H, Later, HandlesInv, TypeOK, ObjSame, RestSame
<1>1. fh[th[t].h].ref \in Nat
  <2>1. th[t].h \in 1 .. Len(fh) /\ fh \in Seq(Handle)
    BY <1>0, InUse DEF HandlesInv, TypeOK, NoHandle
  <2>2. fh[th[t].h] \in Handle
    BY <2>1
  <2> QED
    BY <2>2 DEF Handle
<1>2. CASE fh[th[t].h].ref > 0
  <2>1. UNCHANGED <<fh, index>>
    BY <1>2 DEF CloseTeardown, H, HandleSame
  <2>2. /\ th' \in [Threads -> Thread] /\ th'[t] = Idle
        /\ \A u \in Threads \ {t} : th'[u] = th[u]
    BY <1>0, IdleType, SetType
  <2>3. TypeOK'
    <3>1. ASSUME NEW u \in Threads
          PROVE  /\ th'[u].h \in 0 .. Len(fh)
                 /\ (th'[u].h = 0) <=> (th'[u].pc \in NoHandle)
      <4>0. Len(fh) \in Nat
        BY DEF HandlesInv, TypeOK
      <4>1. CASE u = t
        BY <2>2, <4>0, <4>1, IdleType DEF NoHandle
      <4>2. CASE u # t
        BY <2>2, <4>2 DEF HandlesInv, TypeOK, NoHandle
      <4> QED
        BY <4>1, <4>2
    <3> QED
      BY <1>0, <2>1, <2>2, <3>1 DEF HandlesInv, TypeOK, NoHandle
  <2>4. \A u \in Threads : \/ th'[u].h = th[u].h /\ (th'[u].pc \in Holding <=> th[u].pc \in Holding)
                           \/ th[u].pc \notin Holding /\ th'[u].pc \notin Holding
    BY <1>0, <2>2, IdleType DEF Holding
  <2> QED
    BY <1>0, <2>1, <2>3, <2>4, QuietStep
<1>3. CASE fh[th[t].h].ref = 0
  BY <1>0, <1>3, FreeStep DEF CloseTeardown, H
<1> QED
  BY <1>1, <1>2, <1>3

\* The first critical section of lio_myclose_fn: one holder less.
LEMMA CloseCountStep ==
  ASSUME HandlesInv, NEW t \in Threads, CloseCount(t)
  PROVE  HandlesInv'
<1> DEFINE k == th[t].h
           r == [fh[k] EXCEPT !.ref = @ - 1]
<1>0. /\ th[t].pc = "open" /\ ~fh[k].freed /\ Put(k, r)
      /\ th \in [Threads -> Thread] /\ fh \in Seq(Handle)
      /\ UNCHANGED <<obj, exnode, index, stored, races>>
  BY DEF CloseCount, At, H, HandlesInv, TypeOK, ObjSame, RestSame
<1>1. k \in 1 .. Len(fh)
  BY <1>0, InUse DEF HandlesInv, NoHandle
<1>2. fh[k] \in Handle /\ fh[k].ref \in Nat
  <2>1. fh[k] \in Handle
    BY <1>0, <1>1
  <2> QED
    BY <2>1 DEF Handle
<1>3. t \in Holders(k)
  BY <1>0 DEF Holders, Holding
<1>4. /\ fh[k].ref = Cardinality(Holders(k))
      /\ Cardinality(Holders(k) \ {t}) = fh[k].ref - 1
  <2>1. fh[k].ref = Cardinality(Holders(k))
    BY <1>0, <1>1 DEF HandlesInv, RefCounted
  <2>2. IsFiniteSet(Holders(k))
    BY HoldersFinite
  <2>3. Cardinality(Holders(k) \ {t}) = Cardinality(Holders(k)) - 1
    BY <1>3, <2>2, FS_RemoveElement
  <2> QED
    BY <2>1, <2>3
<1>5. fh[k].ref # 0
  BY <1>3, <1>4, HoldersFinite
<1>6. r \in Handle /\ r.ref = fh[k].ref - 1 /\ r.freed = fh[k].freed
  BY <1>2, <1>5 DEF Handle
<1> HIDE DEF r
<1>7. /\ fh' \in Seq(Handle) /\ Len(fh') = Len(fh) /\ fh'[k] = r
      /\ \A h \in 1 .. Len(fh) : h # k => fh'[h] = fh[h]
  BY <1>0, <1>1, <1>6, PutType
<1>8. /\ th' \in [Threads -> Thread] /\ \A u \in Threads \ {t} : th'[u] = th[u]
      /\ \/ th'[t] = Idle
         \/ th'[t].pc = "size" /\ th'[t].h = k
  <2>1. CASE Set(t, Idle)
    BY <1>0, <2>1, IdleType, SetType
  <2>2. CASE Goto(t, "size")
    BY <1>0, <2>2, GotoType DEF Later
  <2> QED
    BY <2>1, <2>2 DEF CloseCount
<1>9. th'[t].pc \notin Holding
  BY <1>8, IdleType DEF Holding
<1>10. TypeOK'
  <2>1. ASSUME NEW u \in Threads
        PROVE  /\ th'[u].h \in 0 .. Len(fh)
               /\ (th'[u].h = 0) <=> (th'[u].pc \in NoHandle)
    <3>1. CASE u = t
      BY <1>0, <1>1, <1>8, <3>1, IdleType DEF NoHandle
    <3>2. CASE u # t
      BY <1>8, <3>2 DEF HandlesInv, TypeOK, NoHandle
    <3> QED
      BY <3>1, <3>2
  <2> QED
    BY <1>0, <1>7, <1>8, <2>1 DEF HandlesInv, TypeOK, NoHandle
<1>11. RefCounted'
  <2> SUFFICES ASSUME NEW h \in 1 .. Len(fh), ~fh'[h].freed
               PROVE  fh'[h].ref = Cardinality(Holders(h)')
    BY <1>7 DEF RefCounted
  <2>1. CASE h = k
    <3>1. Holders(h)' = Holders(h) \ {t}
      BY <1>8, <1>9 DEF Holders
    <3> QED
      BY <1>4, <1>6, <1>7, <2>1, <3>1
  <2>2. CASE h # k
    <3>1. Holders(h)' = Holders(h)
      BY <1>8, <1>9, <2>2 DEF Holders
    <3> QED
      BY <1>7, <2>2, <3>1 DEF HandlesInv, RefCounted
  <2> QED
    BY <2>1, <2>2
<1>12. LoadedOnce'
  BY <1>0, <1>6, <1>7 DEF HandlesInv, LoadedOnce
<1>13. OpenFdsLive'
  <2> SUFFICES ASSUME NEW u \in Threads, th'[u].pc \in Holding, "badopen" \notin races'
               PROVE  ~fh'[th'[u].h].freed /\ index' = th'[u].h
    BY DEF OpenFdsLive, H
  <2>1. u # t /\ th'[u] = th[u]
    BY <1>8, <1>9
  <2>2. ~fh[th[u].h].freed /\ index = th[u].h
    BY <1>0, <2>1 DEF HandlesInv, OpenFdsLive, H
  <2>3. th[u].h \in 1 .. Len(fh)
    BY <2>1, InUse DEF HandlesInv, Holding, NoHandle
  <2> QED
    BY <1>0, <1>6, <1>7, <2>1, <2>2, <2>3
<1> QED
  BY <1>10, <1>11, <1>12, <1>13 DEF HandlesInv

-----------------------------------------------------------------------------
\* An open that finds the file open: one holder more, of the handle in the
\* index, even if a close has taken its count to zero.
LEMMA ShareStep ==
  ASSUME HandlesInv, NEW t \in Threads, th[t].pc = "lock", ~fh[index].freed, Share(t),
         UNCHANGED <<obj, exnode, stored>>
  PROVE  HandlesInv'
<1> DEFINE r == [fh[index] EXCEPT !.ref = @ + 1]
           q == [Opened(t, index) EXCEPT !.pc = "open"]
<1>0. /\ th \in [Threads -> Thread] /\ fh \in Seq(Handle) /\ index \in 1 .. Len(fh)
      /\ index' = index /\ Put(index, r) /\ Set(t, q)
  BY DEF Share, HandlesInv, TypeOK
<1>1. fh[index] \in Handle /\ th[t] \in Thread /\ index \in Nat /\ <<>> \in Seq(Nat)
  BY <1>0
<1>2. r \in Handle /\ r.ref = fh[index].ref + 1 /\ ~r.freed
  BY <1>1 DEF Handle
<1>3. q \in Thread /\ q.pc = "open" /\ q.h = index
  BY <1>1 DEF Opened, Thread
<1> HIDE DEF r, q
<1>4. /\ fh' \in Seq(Handle) /\ Len(fh') = Len(fh) /\ fh'[index] = r
      /\ \A h \in 1 .. Len(fh) : h # index => fh'[h] = fh[h]
  BY <1>0, <1>2, PutType
<1>5. /\ th' \in [Threads -> Thread] /\ th'[t] = q
      /\ \A u \in Threads \ {t} : th'[u] = th[u]
  BY <1>0, <1>3, SetType
<1>6. races \subseteq races' /\ races' \subseteq {"reopen", "stale", "unsaved", "badopen"}
  BY DEF Share, HandlesInv, TypeOK
<1>7. TypeOK'
  <2>1. ASSUME NEW u \in Threads
        PROVE  /\ th'[u].h \in 0 .. Len(fh)
               /\ (th'[u].h = 0) <=> (th'[u].pc \in NoHandle)
    <3>1. CASE u = t
      BY <1>0, <1>3, <1>5, <3>1 DEF NoHandle
    <3>2. CASE u # t
      BY <1>5, <3>2 DEF HandlesInv, TypeOK, NoHandle
    <3> QED
      BY <3>1, <3>2
  <2> QED
    BY <1>0, <1>4, <1>5, <1>6, <2>1 DEF HandlesInv, TypeOK, NoHandle
<1>8. RefCounted'
  <2> SUFFICES ASSUME NEW h \in 1 .. Len(fh), ~fh'[h].freed
               PROVE  fh'[h].ref = Cardinality(Holders(h)')
    BY <1>4 DEF RefCounted
  <2>1. CASE h = index
    <3>1. Holders(h)' = Holders(h) \cup {t} /\ t \notin Holders(h)
      BY <1>3, <1>5, <2>1 DEF Holders, Holding
    <3>2. IsFiniteSet(Holders(h)) /\ fh[h].ref = Cardinality(Holders(h))
      BY <2>1, HoldersFinite DEF HandlesInv, RefCounted
    <3>3. Cardinality(Holders(h) \cup {t}) = Cardinality(Holders(h)) + 1
      BY <3>1, <3>2, FS_AddElement
    <3> QED
      BY <1>2, <1>4, <2>1, <3>1, <3>2, <3>3
  <2>2. CASE h # index
    <3>1. Holders(h)' = Holders(h)
      BY <1>3, <1>5, <2>2 DEF Holders, Holding
    <3> QED
      BY <1>4, <2>2, <3>1 DEF HandlesInv, RefCounted
  <2> QED
    BY <2>1, <2>2
<1>9. LoadedOnce'
  BY <1>0, <1>2, <1>4 DEF HandlesInv, LoadedOnce
<1>10. OpenFdsLive'
  <2> SUFFICES ASSUME NEW u \in Threads, th'[u].pc \in Holding, "badopen" \notin races'
               PROVE  ~fh'[th'[u].h].freed /\ index' = th'[u].h
    BY DEF OpenFdsLive, H
  <2>1. CASE u = t
    BY <1>0, <1>2, <1>3, <1>4, <1>5, <2>1
  <2>2. CASE u # t
    <3>1. index = th[u].h /\ th'[u].h = th[u].h
      BY <1>5, <1>6, <2>2 DEF HandlesInv, OpenFdsLive
    <3> QED
      BY <1>0, <1>2, <1>4, <3>1
  <2> QED
    BY <2>1, <2>2
<1> QED
  BY <1>7, <1>8, <1>9, <1>10 DEF HandlesInv

\* An open that finds no handle: all older ones were freed, and the new one
\* has the opener as its only holder.
LEMMA LoadStep ==
  ASSUME HandlesInv, NEW t \in Threads, th[t].pc = "lock", LoadHandle(t),
         UNCHANGED <<obj, exnode, stored>>
  PROVE  HandlesInv'
<1>0. /\ th \in [Threads -> Thread] /\ th[t] \in Thread /\ fh \in Seq(Handle) /\ Len(fh) \in Nat
      /\ index = 0 /\ index' = Len(fh) + 1
  BY DEF LoadHandle, HandlesInv, TypeOK
<1> DEFINE r == [ref |-> 1, modified |-> FALSE, data |-> th[t].seen, kept |-> {}, freed |-> FALSE]
<1>1. PICK n \in Nat : n = Len(fh) + 1
  BY <1>0
<1>2. r \in Handle /\ r.ref = 1 /\ ~r.freed /\ fh' = Append(fh, r)
  <2>1. th[t].seen \in Seq(Nat)
    BY <1>0 DEF Thread
  <2> QED
    BY <2>1 DEF Handle, LoadHandle
<1> HIDE DEF r
<1>3. /\ fh' \in Seq(Handle) /\ Len(fh') = n /\ fh'[n] = r
      /\ \A h \in 1 .. Len(fh) : fh'[h] = fh[h]
  BY <1>0, <1>1, <1>2
<1>4. /\ th' \in [Threads -> Thread] /\ th'[t].h = n /\ th'[t].pc \in {"trunc", "open"}
      /\ \A u \in Threads \ {t} : th'[u] = th[u]
  <2>1. PICK pc \in {"trunc", "open"} : Set(t, [Opened(t, Len(fh) + 1) EXCEPT !.pc = pc])
    BY DEF LoadHandle
  <2> DEFINE q == [Opened(t, Len(fh) + 1) EXCEPT !.pc = pc]
  <2>2. q \in Thread /\ q.pc = pc /\ q.h = n
    <3>1. <<>> \in Seq(Nat)
      OBVIOUS
    <3> QED
      BY <1>0, <1>1, <3>1 DEF Opened, Thread
  <2>3. Set(t, q)
    BY <2>1
  <2> HIDE DEF q
  <2> QED
    BY <1>0, <2>1, <2>2, <2>3, SetType
<1>5. races \subseteq races' /\ races' \subseteq {"reopen", "stale", "unsaved", "badopen"}
  BY DEF LoadHandle, HandlesInv, TypeOK
<1>6. \A h \in 1 .. Len(fh) : fh[h].freed
  BY <1>0 DEF HandlesInv, LoadedOnce
<1>7. TypeOK'
  <2>1. ASSUME NEW u \in Threads
        PROVE  /\ th'[u].h \in 0 .. n
               /\ (th'[u].h = 0) <=> (th'[u].pc \in NoHandle)
    <3>1. CASE u = t
      BY <1>0, <1>1, <1>4, <3>1 DEF NoHandle
    <3>2. CASE u # t
      <4>1. /\ th[u].h \in 0 .. Len(fh)
            /\ (th[u].h = 0) <=> (th[u].pc \in NoHandle)
        BY DEF HandlesInv, TypeOK, NoHandle
      <4> QED
        BY <1>0, <1>1, <1>4, <3>2, <4>1
    <3> QED
      BY <3>1, <3>2
  <2> QED
    BY <1>0, <1>1, <1>3, <1>4, <1>5, <2>1 DEF HandlesInv, TypeOK, NoHandle
<1>8. RefCounted'
  <2> SUFFICES ASSUME NEW h \in 1 .. n, ~fh'[h].freed
               PROVE  fh'[h].ref = Cardinality(Holders(h)')
    BY <1>3 DEF RefCounted
  <2>1. h = n
    BY <1>0, <1>1, <1>3, <1>6
  <2>2. \A u \in Threads \ {t} : th'[u].h # n
    BY <1>0, <1>1, <1>4 DEF HandlesInv, TypeOK
  <2>3. Holders(h)' = {t}
    BY <1>4, <2>1, <2>2 DEF Holders, Holding
  <2>4. Cardinality({t}) = 1
    BY FS_Singleton
  <2> QED
    BY <1>2, <1>3, <2>1, <2>3, <2>4
<1>9. LoadedOnce'
  <2> SUFFICES ASSUME NEW h \in 1 .. n, ~fh'[h].freed
               PROVE  h = index'
    BY <1>3 DEF LoadedOnce
  <2> QED
    BY <1>0, <1>1, <1>3, <1>6
<1>10. OpenFdsLive'
  <2> SUFFICES ASSUME NEW u \in Threads, th'[u].pc \in Holding, "badopen" \notin races'
               PROVE  ~fh'[th'[u].h].freed /\ index' = th'[u].h
    BY DEF OpenFdsLive, H
  <2>1. CASE u = t
    BY <1>0, <1>1, <1>2, <1>3, <1>4, <2>1
  <2>2. CASE u # t
    <3>1. index = th[u].h /\ th[u].pc \in Holding
      BY <1>4, <1>5, <2>2 DEF HandlesInv, OpenFdsLive
    <3>2. th[u].h \in 1 .. Len(fh)
      BY <3>1, InUse DEF HandlesInv, Holding, NoHandle
    <3> QED
      BY <1>0, <3>1, <3>2
  <2> QED
    BY <2>1, <2>2
<1> QED
  BY <1>7, <1>8, <1>9, <1>10 DEF HandlesInv

\* lio_myopen_fn under lio_lock.
LEMMA OpenLockStep ==
  ASSUME HandlesInv, NEW t \in Threads, OpenLock(t)
  PROVE  HandlesInv'
<1>0. th[t].pc = "lock" /\ UNCHANGED <<obj, exnode, stored>>
  BY DEF OpenLock, At, ObjSame
<1>1. CASE UNCHANGED <<fh, index, th, races>>
  <2>1. TypeOK'
    BY <1>0, <1>1 DEF HandlesInv, TypeOK
  <2> QED
    BY <1>1, <2>1, QuietStep
<1>2. CASE LoadFails(t)
  <2>1. UNCHANGED <<fh, index, races>> /\ Set(t, Idle)
    BY <1>2 DEF LoadFails, HandleSame
  <2>2. /\ th' \in [Threads -> Thread] /\ th'[t] = Idle
        /\ \A u \in Threads \ {t} : th'[u] = th[u]
    BY <2>1, IdleType, SetType DEF HandlesInv, TypeOK
  <2>3. th[t].h = 0
    BY <1>0 DEF HandlesInv, TypeOK
  <2>4. TypeOK'
    BY <1>0, <2>1, <2>2, <2>3, IdleType DEF HandlesInv, TypeOK
  <2>5. \A u \in Threads : \/ th'[u].h = th[u].h /\ (th'[u].pc \in Holding <=> th[u].pc \in Holding)
                           \/ th[u].pc \notin Holding /\ th'[u].pc \notin Holding
    BY <1>0, <2>2, IdleType DEF Holding
  <2> QED
    BY <2>1, <2>4, <2>5, QuietStep
<1>3. CASE Share(t) /\ ~fh[index].freed
  BY <1>0, <1>3, ShareStep
<1>4. CASE LoadHandle(t)
  BY <1>0, <1>4, LoadStep
<1> QED
  BY <1>1, <1>2, <1>3, <1>4 DEF OpenLock, HandleSame, Share

\* Every step keeps the invariant.
LEMMA NextHandles == HandlesInv /\ [Next]_vars => HandlesInv'
<1> SUFFICES ASSUME HandlesInv, [Next]_vars PROVE HandlesInv'
  OBVIOUS
<1>1. ASSUME UNCHANGED <<obj, exnode, fh, index, th, stored, races>>
      PROVE  HandlesInv'
  <2>1. TypeOK'
    BY <1>1 DEF HandlesInv, TypeOK
  <2> QED
    BY <1>1, <2>1, QuietStep
<1>2. ASSUME NEW t \in Threads, Call(t) PROVE HandlesInv'
  BY <1>2, BeforeLock, UseStep, CloseCountStep DEF Call
<1>3. ASSUME NEW t \in Threads, Step(t) PROVE HandlesInv'
  BY <1>3, BeforeLock, OpenLockStep, OpenTruncateStep, UseStep, CloseStep, TeardownStep DEF Step
<1>4. CASE UNCHANGED vars
  BY <1>1, <1>4 DEF vars
<1>5. ASSUME NEW t \in Threads, UseFreed(t) PROVE HandlesInv'
  BY <1>1, <1>5 DEF UseFreed
<1> QED
  BY <1>2, <1>3, <1>4, <1>5 DEF Next, Over

\* lio_myopen_fn and lio_myclose_fn keep ref_count equal to the number of
\* descriptors in use, whatever opens, closes and failures interleave.
THEOREM RefCountExact == Spec => []RefCounted
<1>1. HandlesInv => RefCounted
  BY DEF HandlesInv
<1> QED
  BY InitHandles, NextHandles, <1>1, PTL DEF Spec

\* The re-check under lio_lock in lio_myclose_fn suffices for those who hold
\* a descriptor: their handle is live and is the one in the open table,
\* unless the truncation of an open failed.
THEOREM HeldHandlesLive == Spec => []OpenFdsLive
<1>1. HandlesInv => OpenFdsLive
  BY DEF HandlesInv
<1> QED
  BY InitHandles, NextHandles, <1>1, PTL DEF Spec

\* The exnode is never loaded into two live handles.
THEOREM ExnodeLoadedOnce == Spec => []LoadedOnce
<1>1. HandlesInv => LoadedOnce
  BY DEF HandlesInv
<1> QED
  BY InitHandles, NextHandles, <1>1, PTL DEF Spec

-----------------------------------------------------------------------------
(* What a close stores.  Nothing is owed before the object is made, and    *)
(* one thread makes it.                                                    *)
Making ==
  /\ obj # "file" => index = 0 /\ stored = {}
                     /\ \A t \in Threads : th[t].pc \in {"idle", "create", "attrs", "load"}
  /\ \A t \in Threads : th[t].pc = "attrs" => obj = "bare" /\ \A u \in Threads : th[u].pc = "attrs" => u = t

(* While nobody has the file open, what is owed is in the exnode ...       *)
Shut == index = 0 => stored \subseteq Writes(exnode) /\ \A t \in Threads : th[t].h = 0

(* ... and otherwise in the one handle, which differs from the exnode only *)
(* if it is flagged.                                                       *)
Shared == index # 0 =>
  /\ ~fh[index].freed /\ stored \subseteq Writes(fh[index].data)
  /\ ~fh[index].modified => fh[index].data = exnode
  /\ \E t \in Threads : th[t].h # 0
  /\ \A t \in Threads : th[t].h # 0 => th[t].h = index

(* A close that nobody fell into is alone with the handle, so what it read *)
(* of it still holds.                                                      *)
Closing == {"size", "cut", "flushed", "store", "check"}
Alone(t) ==
  /\ th[t].pc = "wseg" => fh[index].modified
  /\ th[t].pc \in Closing => \A u \in Threads : th[u].h # 0 => u = t
  /\ th[t].pc = "cut" => th[t].size = Len(fh[index].data)
  /\ th[t].pc = "store" => th[t].seen = fh[index].data
  /\ th[t].pc = "check" => fh[index].data = exnode
Owed == Making /\ Shut /\ Shared /\ \A t \in Threads : Alone(t)
StoreInv == races = {} /\ ~halted => Owed


\* What the types say of a thread: it refers to a handle from the lookup on.
LEMMA ThreadFacts ==
  ASSUME HandlesInv, NEW t \in Threads
  PROVE  /\ th[t].pc \in NoHandle \cup Holding \cup Closing /\ th[t].h \in Nat
         /\ th[t].h = 0 <=> th[t].pc \in NoHandle
<1>1. th[t] \in Thread /\ (th[t].h = 0 <=> th[t].pc \in NoHandle)
  BY DEF HandlesInv, TypeOK, NoHandle
<1> QED BY <1>1 DEF Thread, NoHandle, Holding, Closing

\* With an open handle, the object was made and nobody makes it.
LEMMA Made ==
  ASSUME HandlesInv, Owed, index # 0
  PROVE  /\ obj = "file" /\ \A u \in Threads : th[u].pc # "attrs"
         /\ index \in 1 .. Len(fh) /\ fh[index] \in Handle
<1>1. obj = "file"
  BY DEF Owed, Making
<1>2. index \in 1 .. Len(fh) /\ fh \in Seq(Handle)
  BY DEF HandlesInv, TypeOK
<1> QED BY <1>1, <1>2 DEF Owed, Making

\* Whoever has a handle has the one in the index.
LEMMA HasIndex ==
  ASSUME HandlesInv, Owed, NEW t \in Threads, th[t].h # 0
  PROVE  index # 0 /\ th[t].h = index
BY DEF Owed, Shut, Shared

\* A thread that has no handle before and after goes on with its open.
LEMMA OwedBefore ==
  ASSUME HandlesInv, HandlesInv', Owed, NEW t \in Threads,
         \/ \E write, trunc \in BOOLEAN : OpenStart(t, write, trunc)
         \/ CreateObject(t) \/ CreateAttrs(t) \/ LoadAttrs(t)
         \/ At(t, "lock") /\ LoadFails(t) /\ UNCHANGED <<obj, exnode, stored>>
  PROVE  Owed'
<1>1. /\ DOMAIN th = Threads /\ th[t].h = 0 /\ th[t].pc \in NoHandle
      /\ \A u \in Threads : th[u].h = 0 <=> th[u].pc \in NoHandle
  BY DEF OpenStart, CreateObject, CreateAttrs, LoadAttrs, At, HandlesInv, TypeOK, NoHandle
<1>2. UNCHANGED <<fh, index, stored>>
  BY DEF OpenStart, CreateObject, CreateAttrs, LoadAttrs, LoadFails, HandleSame, RestSame
<1>3. /\ \A u \in Threads \ {t} : th'[u] = th[u]
      /\ th'[t].pc \in NoHandle
      /\ th'[t].pc = "attrs" => th[t].pc = "create" /\ obj = "none" /\ obj' = "bare"
      /\ th'[t].pc = "lock" => obj = "file"
      /\ obj' # obj => \/ obj = "none" /\ obj' = "bare" /\ th'[t].pc = "attrs"
                       \/ th[t].pc = "attrs" /\ th'[t].pc # "attrs" /\ obj' \in {"file", "none"}
      /\ exnode' # exnode => th[t].pc = "attrs"
  <2>1. ASSUME NEW r, Set(t, r) PROVE (\A u \in Threads \ {t} : th'[u] = th[u]) /\ th'[t] = r
    BY <1>1, <2>1 DEF Set
  <2>2. ASSUME NEW pc, Goto(t, pc) PROVE (\A u \in Threads \ {t} : th'[u] = th[u]) /\ th'[t].pc = pc
    BY <1>1, <2>2 DEF Goto, HandlesInv, TypeOK, Thread
  <2>3. ASSUME NEW write \in BOOLEAN, NEW trunc \in BOOLEAN, OpenStart(t, write, trunc)
        PROVE  th'[t].pc \in {"create", "load"} /\ (\A u \in Threads \ {t} : th'[u] = th[u]) /\ ObjSame
    <3>1. PICK pc \in {"create", "load"} :
            Set(t, [Idle EXCEPT !.write = write, !.trunc = trunc, !.pc = pc])
      BY <2>3 DEF OpenStart
    <3>2. [Idle EXCEPT !.write = write, !.trunc = trunc, !.pc = pc].pc = pc
      BY DEF Idle
    <3> QED BY <2>1, <2>3, <3>1, <3>2 DEF OpenStart
  <2>4. ASSUME Set(t, Idle) PROVE th'[t].pc = "idle" /\ \A u \in Threads \ {t} : th'[u] = th[u]
    BY <2>1, <2>4, IdleType
  <2>5. CASE \E write, trunc \in BOOLEAN : OpenStart(t, write, trunc)
    BY <2>3, <2>5 DEF ObjSame, NoHandle
  <2>6. CASE CreateObject(t)
    <3>1. th[t].pc = "create" /\ exnode' = exnode
      BY <2>6 DEF CreateObject, At
    <3>2. CASE obj = "none" /\ obj' = "bare" /\ Goto(t, "attrs")
      BY <2>2, <3>1, <3>2 DEF NoHandle
    <3>3. CASE Set(t, Idle) /\ UNCHANGED obj
      BY <2>4, <3>1, <3>3 DEF NoHandle
    <3> QED BY <2>6, <3>2, <3>3 DEF CreateObject
  <2>7. CASE CreateAttrs(t)
    <3>1. th[t].pc = "attrs"
      BY <2>7 DEF CreateAttrs, At
    <3>2. CASE obj' = "file" /\ Goto(t, "load")
      BY <2>2, <3>1, <3>2 DEF NoHandle
    <3>3. CASE obj' = "none" /\ Set(t, Idle)
      BY <2>4, <3>1, <3>3 DEF NoHandle
    <3> QED BY <2>7, <3>2, <3>3 DEF CreateAttrs
  <2>8. CASE LoadAttrs(t)
    <3>1. ObjSame
      BY <2>8 DEF LoadAttrs
    <3>2. CASE obj = "file" /\ Set(t, [th[t] EXCEPT !.pc = "lock", !.seen = exnode])
      <4>1. [th[t] EXCEPT !.pc = "lock", !.seen = exnode].pc = "lock"
        BY DEF HandlesInv, TypeOK, Thread
      <4> QED BY <2>1, <3>1, <3>2, <4>1 DEF NoHandle, ObjSame
    <3>3. CASE Set(t, Idle)
      BY <2>4, <3>1, <3>3 DEF NoHandle, ObjSame
    <3> QED BY <2>8, <3>2, <3>3 DEF LoadAttrs
  <2>9. CASE LoadFails(t) /\ UNCHANGED <<obj, exnode, stored>>
    BY <2>4, <2>9 DEF LoadFails, NoHandle
  <2> QED BY <2>5, <2>6, <2>7, <2>8, <2>9
<1>4. \A u \in Threads : th'[u].h = th[u].h
  BY <1>1, <1>3 DEF HandlesInv, TypeOK, NoHandle
<1>6. Making'
  <2>1. obj' # "file" => index' = 0 /\ stored' = {}
    BY <1>2, <1>3 DEF Owed, Making
  <2>2. ASSUME obj' # "file", NEW u \in Threads
        PROVE  th'[u].pc \in {"idle", "create", "attrs", "load"}
    <3>1. obj # "file"
      BY <1>3, <2>2 DEF Owed, Making
    <3>2. th[u].pc \in {"idle", "create", "attrs", "load"}
      BY <3>1 DEF Owed, Making
    <3> QED BY <1>3, <3>1, <3>2 DEF NoHandle
  <2>3. ASSUME NEW u \in Threads, th'[u].pc = "attrs", NEW w \in Threads, th'[w].pc = "attrs"
        PROVE  obj' = "bare" /\ w = u
    <3>1. CASE th'[t].pc = "attrs"
      <4>1. \A v \in Threads : th[v].pc # "attrs"
        BY <1>3, <3>1 DEF Owed, Making
      <4> QED BY <1>3, <2>3, <3>1, <4>1
    <3>2. CASE th'[t].pc # "attrs"
      <4>1. th[u].pc = "attrs" /\ th[w].pc = "attrs" /\ u # t
        BY <1>3, <2>3, <3>2
      <4>2. obj = "bare" /\ w = u /\ th[t].pc # "attrs"
        BY <4>1 DEF Owed, Making
      <4> QED BY <1>3, <3>2, <4>2
    <3> QED BY <3>1, <3>2
  <2> QED BY <2>1, <2>2, <2>3 DEF Making
<1>7. exnode' = exnode \/ (index = 0 /\ stored = {})
  BY <1>3 DEF Owed, Making
<1>8. Shut'
  BY <1>2, <1>4, <1>7 DEF Owed, Shut
<1>9. Shared'
  BY <1>2, <1>4, <1>7 DEF Owed, Shared
<1>10. ASSUME NEW u \in Threads PROVE Alone(u)'
  <2>1. CASE u = t
    BY <1>3, <2>1 DEF Alone, NoHandle, Closing
  <2>2. CASE u # t /\ th[u].pc \in NoHandle
    BY <1>3, <2>2 DEF Alone, NoHandle, Closing
  <2>3. CASE u # t /\ th[u].pc \notin NoHandle
    <3>1. index # 0
      BY <1>1, <2>3, HasIndex
    <3>2. exnode' = exnode /\ th'[u] = th[u] /\ Alone(u)
      BY <1>3, <1>7, <2>3, <3>1 DEF Owed
    <3> QED BY <1>2, <1>4, <3>2 DEF Alone
  <2> QED BY <2>1, <2>2, <2>3
<1> QED BY <1>6, <1>8, <1>9, <1>10 DEF Owed

\* A holder writes or truncates: nobody closes, and the handle is flagged.
LEMMA OwedWritten ==
  ASSUME HandlesInv, HandlesInv', Owed, NEW t \in Threads, th[t].pc \in Holding, NEW r,
         fh' = [fh EXCEPT ![index] = r], ~r.freed, stored' \subseteq Writes(r.data),
         r.modified \/ (~fh[index].modified /\ r.data = fh[index].data),
         fh[index].modified => r.modified, th'[t].pc = "wseg" => r.modified,
         \A u \in Threads \ {t} : th'[u] = th[u], th'[t].h = th[t].h, th'[t].pc \in Holding,
         UNCHANGED <<obj, exnode, index>>
  PROVE  Owed'
<1>1. th[t].h # 0 /\ index # 0
  BY ThreadFacts, HasIndex DEF Holding, NoHandle
<1>2. /\ obj = "file" /\ \A u \in Threads : th[u].pc # "attrs"
      /\ index \in 1 .. Len(fh) /\ fh[index] \in Handle /\ DOMAIN fh = 1 .. Len(fh)
  BY <1>1, Made DEF HandlesInv, TypeOK
<1>3. fh'[index] = r
  BY <1>2
<1>4. Making' /\ Shut'
  BY <1>1, <1>2 DEF Making, Shut, Holding
<1>5. Shared'
  BY <1>1, <1>3 DEF Owed, Shared
<1>6. ASSUME NEW u \in Threads PROVE Alone(u)'
  <2>1. th[u].pc \notin Closing
    BY <1>1 DEF Owed, Alone, Closing, Holding
  <2>2. th'[u].pc \notin Closing
    BY <2>1 DEF Closing, Holding
  <2>3. th'[u].pc = "wseg" => r.modified
    BY DEF Owed, Alone
  <2> QED BY <1>3, <2>2, <2>3 DEF Alone, Closing
<1> QED BY <1>4, <1>5, <1>6 DEF Owed


\* The number of a write is not that of a hole.
LEMMA NewWriteMore == NewWrite \in Nat \ {0}
<1> DEFINE S == {w \in 1 .. MaxOps : \E h \in 1 .. Len(fh) : \E v \in Writes(fh[h].data) \cup stored : w <= v}
<1>1. IsFiniteSet(S)
  <2>1. S \in SUBSET (1 .. MaxOps) /\ IsFiniteSet(1 .. MaxOps)
    BY FS_Interval, HandlesAssumption
  <2> QED BY <2>1, FS_Subset
<1>2. Cardinality(S) \in Nat
  BY <1>1, FS_CardinalityType
<1> QED BY <1>2 DEF NewWrite

\* The writes of a content that was cut, or that got one more.
LEMMA WritesAppend ==
  ASSUME NEW d \in Seq(Nat), NEW w \in Nat \ {0}
  PROVE  Writes(d) \cup {w} \subseteq Writes(Append(d, w))
<1>1. /\ Len(Append(d, w)) = Len(d) + 1 /\ Append(d, w)[Len(d) + 1] = w /\ Len(d) \in Nat
      /\ \A n \in 1 .. Len(d) : Append(d, w)[n] = d[n]
  OBVIOUS
<1>2. \A n \in 1 .. Len(d) : n \in 1 .. Len(d) + 1
  BY <1>1
<1>3. Len(d) + 1 \in 1 .. Len(d) + 1
  BY <1>1
<1> QED BY <1>1, <1>2, <1>3 DEF Writes

\* A content cut to the length it has is unchanged.
LEMMA ResizeSame == ASSUME NEW d \in Seq(Nat) PROVE Resize(d, Len(d)) = d
BY DEF Resize

\* lio_truncate_fn leaves owed what it leaves in the file.
LEMMA OwedTruncated ==
  ASSUME HandlesInv, Owed, NEW t \in Threads, th[t].pc \in Holding, TruncateTo(t, 0)
  PROVE  \E r : /\ fh' = [fh EXCEPT ![index] = r] /\ r.freed = fh[index].freed /\ stored' \subseteq Writes(r.data)
                /\ r.modified \/ (~fh[index].modified /\ r.data = fh[index].data)
                /\ fh[index].modified => r.modified
<1>1. th[t].h = index /\ index # 0
  BY ThreadFacts, HasIndex DEF Holding, NoHandle
<1>2. fh[index] \in Handle /\ stored \subseteq Writes(fh[index].data)
  BY <1>1, Made DEF Owed, Shared
<1>3. fh[index].data \in Seq(Nat) /\ fh[index].modified \in BOOLEAN
  BY <1>2 DEF Handle
<1>4. Len(fh[index].data) = 0 => Resize(fh[index].data, 0) = fh[index].data
  BY <1>3, ResizeSame
<1> DEFINE d == Resize(fh[index].data, 0)
           r == [fh[index] EXCEPT !.modified = @ \/ Len(fh[index].data) # 0, !.data = d, !.kept = @ \cap Writes(d)]
<1>5. fh' = [fh EXCEPT ![index] = r] /\ stored' \subseteq Writes(d)
  BY <1>1, <1>2 DEF TruncateTo, Put, H
<1>6. /\ r.freed = fh[index].freed /\ r.data = d
      /\ r.modified = (fh[index].modified \/ Len(fh[index].data) # 0)
  BY <1>2 DEF Handle
<1> HIDE DEF r, d
<1>7. r.modified \/ (~fh[index].modified /\ r.data = fh[index].data)
  BY <1>3, <1>4, <1>6 DEF d
<1> QED BY <1>5, <1>6, <1>7

\* lio_write_ex_fn, lio_truncate_fn and the truncation of an open.
LEMMA OwedUse ==
  ASSUME HandlesInv, HandlesInv', Owed, races' = {}, NEW t \in Threads,
         WriteFlag(t) \/ WriteSegment(t) \/ Truncate(t) \/ OpenTruncate(t)
  PROVE  Owed'
<1>1. th[t].pc \in Holding /\ ~H(t).freed /\ UNCHANGED <<obj, exnode, index>>
  BY DEF WriteFlag, WriteSegment, Truncate, OpenTruncate, At, Holding, ObjSame
<1>2. th[t].h = index /\ index # 0 /\ H(t) = fh[index]
  BY <1>1, ThreadFacts, HasIndex DEF Holding, NoHandle, H
<1>3. fh[index] \in Handle /\ stored \subseteq Writes(fh[index].data)
  BY <1>2, Made DEF Owed, Shared
<1>4. /\ fh[index].data \in Seq(Nat) /\ fh[index].modified \in BOOLEAN
      /\ DOMAIN fh = 1 .. Len(fh) /\ index \in 1 .. Len(fh) /\ fh \in Seq(Handle)
  <2>1. fh[index].data \in Seq(Nat) /\ fh[index].modified \in BOOLEAN
    BY <1>3 DEF Handle
  <2>2. fh \in Seq(Handle) /\ index \in 1 .. Len(fh)
    BY <1>2, Made DEF HandlesInv, TypeOK
  <2> QED BY <2>1, <2>2
<1>5. ASSUME NEW pc, Goto(t, pc)
      PROVE  /\ \A u \in Threads \ {t} : th'[u] = th[u]
             /\ th'[t].h = th[t].h /\ th'[t].pc = pc
  BY <1>5 DEF Goto, HandlesInv, TypeOK, Thread
<1>6. CASE WriteFlag(t)
  <2>1. PICK r : r = [fh[index] EXCEPT !.modified = TRUE]
    OBVIOUS
  <2>2. r.modified /\ r.data = fh[index].data /\ ~r.freed
    BY <1>1, <1>2, <1>3, <2>1 DEF Handle
  <2>3. fh' = [fh EXCEPT ![index] = r] /\ stored' = stored /\ Goto(t, "wseg")
    BY <1>2, <1>6, <2>1 DEF WriteFlag, Put
  <2>4. stored' \subseteq Writes(r.data)
    BY <1>3, <2>2, <2>3
  <2>5. /\ \A u \in Threads \ {t} : th'[u] = th[u]
        /\ th'[t].h = th[t].h /\ th'[t].pc \in Holding
    BY <1>5, <2>3 DEF Holding
  <2> QED BY <1>1, <2>2, <2>3, <2>4, <2>5, OwedWritten
<1>7. CASE WriteSegment(t)
  <2>1. Goto(t, "open") /\ fh[index].modified
    BY <1>2, <1>7 DEF WriteSegment, At, Owed, Alone
  <2>2. CASE UNCHANGED <<fh, stored>>
    <3>1. fh' = [fh EXCEPT ![index] = fh[index]]
      BY <1>4, <2>2
    <3> QED BY <1>1, <1>2, <1>3, <1>5, <2>1, <2>2, <3>1, OwedWritten DEF Holding
  <2>3. CASE /\ Put(th[t].h, [H(t) EXCEPT !.data = Append(@, NewWrite), !.kept = @ \cup {NewWrite}])
             /\ stored' = stored \cup {NewWrite}
    <3>1. PICK r : r = [fh[index] EXCEPT !.data = Append(@, NewWrite), !.kept = @ \cup {NewWrite}]
      OBVIOUS
    <3>2. r.modified /\ r.data = Append(fh[index].data, NewWrite) /\ ~r.freed
      BY <1>1, <1>2, <1>3, <2>1, <3>1 DEF Handle
    <3>3. NewWrite \in Nat \ {0}
      BY NewWriteMore
    <3>4. fh' = [fh EXCEPT ![index] = r]
      BY <1>2, <2>3, <3>1 DEF Put
    <3>5. stored' \subseteq Writes(r.data)
      BY <1>3, <1>4, <2>3, <3>2, <3>3, WritesAppend
    <3> QED BY <1>1, <1>2, <1>5, <2>1, <3>2, <3>4, <3>5, OwedWritten DEF Holding
  <2> QED BY <1>7, <2>2, <2>3 DEF WriteSegment
<1>8. CASE TruncateTo(t, 0) /\ (Truncate(t) \/ OpenTruncate(t))
  <2>1. PICK r : /\ fh' = [fh EXCEPT ![index] = r] /\ r.freed = fh[index].freed /\ stored' \subseteq Writes(r.data)
                 /\ r.modified \/ (~fh[index].modified /\ r.data = fh[index].data)
                 /\ fh[index].modified => r.modified
    BY <1>1, <1>8, OwedTruncated
  <2>2. Goto(t, "open") \/ (th' = th /\ th[t].pc = "open")
    BY <1>8 DEF Truncate, OpenTruncate, At
  <2>3. /\ \A u \in Threads \ {t} : th'[u] = th[u]
        /\ th'[t].h = th[t].h /\ th'[t].pc = "open"
    BY <1>5, <2>2
  <2> QED BY <1>1, <1>2, <2>1, <2>3, OwedWritten DEF Holding
<1>9. CASE Truncate(t) /\ Put(th[t].h, [H(t) EXCEPT !.modified = TRUE]) /\ UNCHANGED stored
  <2>1. PICK r : r = [fh[index] EXCEPT !.modified = TRUE]
    OBVIOUS
  <2>2. r.modified /\ r.data = fh[index].data /\ ~r.freed
    BY <1>1, <1>2, <1>3, <2>1 DEF Handle
  <2>3. fh' = [fh EXCEPT ![index] = r] /\ stored' = stored /\ th' = th
    BY <1>2, <1>9, <2>1 DEF Truncate, Put
  <2>4. stored' \subseteq Writes(r.data)
    BY <1>3, <2>2, <2>3
  <2> QED BY <1>1, <2>2, <2>3, <2>4, OwedWritten
<1> QED BY <1>6, <1>7, <1>8, <1>9 DEF Truncate, OpenTruncate


\* The first critical section of a close: others hold the handle, or the
\* closer is alone with it.
LEMMA OwedCount ==
  ASSUME HandlesInv, HandlesInv', Owed, NEW t \in Threads, CloseCount(t)
  PROVE  Owed'
<1>1. /\ th[t].pc = "open" /\ UNCHANGED <<obj, exnode, index, stored>>
      /\ Put(th[t].h, [H(t) EXCEPT !.ref = @ - 1])
  BY DEF CloseCount, At, ObjSame, RestSame
<1>2. th[t].h = index /\ index # 0 /\ th[t].h # 0
  BY <1>1, ThreadFacts, HasIndex DEF NoHandle
<1>3. /\ obj = "file" /\ \A u \in Threads : th[u].pc # "attrs"
      /\ index \in 1 .. Len(fh) /\ fh[index] \in Handle /\ DOMAIN fh = 1 .. Len(fh)
  BY <1>2, Made DEF HandlesInv, TypeOK
<1>4. /\ fh'[index].data = fh[index].data /\ fh'[index].modified = fh[index].modified
      /\ fh'[index].freed = fh[index].freed
  BY <1>1, <1>2, <1>3 DEF Put, H, Handle
<1>5. \A u \in Threads : th[u].pc \notin Closing
  BY <1>1, <1>2 DEF Owed, Alone, Closing
<1>6. fh[index].ref = Cardinality(Holders(index)) /\ t \in Holders(index)
  BY <1>1, <1>2, <1>3 DEF HandlesInv, RefCounted, Owed, Shared, Holders, Holding
<1>7. \A u \in Threads : th[u].h # 0 => u \in Holders(index)
  BY <1>5, ThreadFacts, HasIndex DEF Holders
<1>8. Cardinality(Holders(index) \ {t}) = fh[index].ref - 1 /\ IsFiniteSet(Holders(index) \ {t})
  BY <1>6, HoldersFinite, FS_RemoveElement
<1>9. CASE H(t).ref > 1
  <2>1. Set(t, Idle)
    BY <1>9 DEF CloseCount
  <2>2. /\ \A u \in Threads \ {t} : th'[u] = th[u]
        /\ th'[t].h = 0 /\ th'[t].pc = "idle"
    BY <2>1, IdleType DEF Set, HandlesInv, TypeOK
  <2>3. Holders(index) \ {t} # {}
    <3>1. fh[index].ref \in Nat /\ fh[index].ref > 1
      BY <1>2, <1>3, <1>9 DEF H, Handle
    <3>2. Cardinality(Holders(index) \ {t}) # 0
      BY <1>8, <3>1
    <3> QED BY <3>2, FS_EmptySet
  <2>4. PICK w \in Threads : w # t /\ th[w].h = index
    BY <2>3 DEF Holders
  <2>5. th'[w].h # 0
    BY <1>2, <2>2, <2>4
  <2>6. Making' /\ Shut'
    BY <1>1, <1>2, <1>3, <2>2 DEF Making, Shut
  <2>7. Shared'
    BY <1>1, <1>2, <1>4, <2>2, <2>5 DEF Owed, Shared
  <2>8. ASSUME NEW u \in Threads PROVE Alone(u)'
    <3>1. th'[u].pc \notin Closing /\ (th'[u].pc = "wseg" => th[u].pc = "wseg")
      BY <1>5, <2>2 DEF Closing
    <3> QED BY <1>1, <1>4, <3>1 DEF Owed, Alone, Closing
  <2> QED BY <2>6, <2>7, <2>8 DEF Owed
<1>10. CASE ~(H(t).ref > 1)
  <2>1. Goto(t, "size")
    BY <1>10 DEF CloseCount
  <2>2. /\ \A u \in Threads \ {t} : th'[u] = th[u]
        /\ th'[t].h = th[t].h /\ th'[t].pc = "size"
    BY <2>1 DEF Goto, HandlesInv, TypeOK, Thread
  <2>3. fh[index].ref \in Nat
    BY <1>3 DEF Handle
  <2>4. Cardinality(Holders(index) \ {t}) = 0
    BY <1>2, <1>8, <1>10, <2>3, FS_CardinalityType DEF H
  <2>5. Holders(index) \ {t} = {}
    BY <1>8, <2>4, FS_EmptySet
  <2>6. \A u \in Threads : th[u].h # 0 => u = t
    BY <1>7, <2>5
  <2>7. Making' /\ Shut'
    BY <1>1, <1>2, <1>3, <2>2 DEF Making, Shut
  <2>8. Shared'
    BY <1>1, <1>2, <1>4, <2>2 DEF Owed, Shared
  <2>9. ASSUME NEW u \in Threads PROVE Alone(u)'
    <3>1. CASE u = t
      BY <2>2, <2>6, <3>1 DEF Alone, Closing
    <3>2. CASE u # t
      <4>1. th[u].h = 0
        BY <2>6, <3>2
      <4>2. th'[u].pc \in NoHandle
        BY <2>2, <3>2, <4>1, ThreadFacts
      <4> QED BY <4>2 DEF Alone, NoHandle, Closing
    <3> QED BY <3>1, <3>2
  <2> QED BY <2>7, <2>8, <2>9 DEF Owed
<1> QED BY <1>9, <1>10

\* A close between its two critical sections: nobody else has the handle.
LEMMA OwedClose ==
  ASSUME HandlesInv, HandlesInv', Owed, races' = {}, NEW t \in Threads,
         CloseSize(t) \/ CloseTruncate(t) \/ CloseSerialize(t) \/ CloseStore(t)
  PROVE  Owed'
<1>1. th[t].pc \in Closing /\ UNCHANGED <<obj, index, stored>>
  BY DEF CloseSize, CloseTruncate, CloseSerialize, CloseStore, At, Closing, ObjSame, HandleSame, RestSame
<1>2. th[t].h = index /\ index # 0 /\ th[t].h # 0 /\ H(t) = fh[index]
  BY <1>1, ThreadFacts, HasIndex DEF NoHandle, Closing, H
<1>3. /\ obj = "file" /\ \A u \in Threads : th[u].pc # "attrs"
      /\ index \in 1 .. Len(fh) /\ fh[index] \in Handle /\ DOMAIN fh = 1 .. Len(fh)
  BY <1>2, Made DEF HandlesInv, TypeOK
<1>4. fh[index].data \in Seq(Nat) /\ fh[index].modified \in BOOLEAN
  BY <1>3 DEF Handle
<1>5. Alone(t) /\ \A u \in Threads : th[u].h # 0 => u = t
  BY <1>1 DEF Owed, Alone
<1>6. th[t] \in Thread /\ DOMAIN th = Threads
  BY DEF HandlesInv, TypeOK
<1>7. /\ fh'[index].data = fh[index].data /\ fh'[index].modified = fh[index].modified
      /\ fh'[index].freed = fh[index].freed
  <2>1. CASE CloseTruncate(t)
    <3>1. th[t].size = Len(fh[index].data)
      BY <1>5, <2>1 DEF CloseTruncate, At, Alone
    <3>2. Resize(fh[index].data, th[t].size) = fh[index].data
      BY <1>4, <3>1, ResizeSame
    <3>3. fh' = [fh EXCEPT ![index] = [fh[index] EXCEPT !.data = Resize(@, th[t].size)]]
      BY <1>2, <2>1 DEF CloseTruncate, Put
    <3> QED BY <1>3, <3>2, <3>3 DEF Handle
  <2>2. CASE fh' = fh
    BY <2>2
  <2> QED BY <2>1, <2>2 DEF CloseSize, CloseSerialize, CloseStore, HandleSame
<1>8. /\ \A u \in Threads \ {t} : th'[u] = th[u]
      /\ th'[t].h = th[t].h /\ th'[t].pc \in Closing
      /\ th'[t].pc = "cut" => th'[t].size = Len(fh[index].data)
      /\ th'[t].pc = "store" => th'[t].seen = fh[index].data
      /\ th'[t].pc = "check" => fh[index].data = exnode'
      /\ exnode' \in {exnode, fh[index].data}
  <2>1. CASE CloseSize(t)
    BY <1>2, <1>6, <2>1 DEF CloseSize, Set, ObjSame, Thread, Closing
  <2>2. CASE CloseTruncate(t)
    BY <1>6, <2>2 DEF CloseTruncate, Goto, ObjSame, Thread, Closing
  <2>3. CASE CloseSerialize(t)
    <3>1. ~fh[index].modified => fh[index].data = exnode
      BY <1>2 DEF Owed, Shared
    <3>2. CASE fh[index].modified
      <4>1. th' = [th EXCEPT ![t] = [th[t] EXCEPT !.pc = "store", !.seen = fh[index].data]] /\ exnode' = exnode
        BY <1>2, <2>3, <3>2 DEF CloseSerialize, Set, ObjSame
      <4> QED BY <1>6, <4>1 DEF Thread, Closing
    <3>3. CASE ~fh[index].modified
      BY <1>2, <1>6, <2>3, <3>1, <3>3 DEF CloseSerialize, Goto, ObjSame, Thread, Closing
    <3> QED BY <3>2, <3>3
  <2>4. CASE CloseStore(t)
    <3>1. th[t].pc = "store" /\ th[t].seen = fh[index].data /\ exnode' = th[t].seen
      BY <1>5, <2>4 DEF CloseStore, At, Alone
    <3> QED BY <1>6, <2>4, <3>1 DEF CloseStore, Set, Thread, Closing
  <2> QED BY <2>1, <2>2, <2>3, <2>4
<1>9. Making' /\ Shut'
  BY <1>1, <1>2, <1>3, <1>8 DEF Making, Shut, Closing
<1>10. Shared'
  BY <1>1, <1>2, <1>7, <1>8 DEF Owed, Shared
<1>11. ASSUME NEW u \in Threads PROVE Alone(u)'
  <2>1. CASE u = t
    BY <1>1, <1>5, <1>7, <1>8, <2>1 DEF Alone, Closing
  <2>2. CASE u # t
    <3>1. th'[u].pc \in NoHandle
      BY <1>5, <1>8, <2>2, ThreadFacts
    <3> QED BY <3>1 DEF Alone, NoHandle, Closing
  <2> QED BY <2>1, <2>2
<1> QED BY <1>9, <1>10, <1>11 DEF Owed

\* The second critical section of a close: what is owed is in the exnode.
LEMMA OwedTeardown ==
  ASSUME HandlesInv, HandlesInv', Owed, NEW t \in Threads, CloseTeardown(t)
  PROVE  Owed'
<1>1. th[t].pc = "check" /\ UNCHANGED <<obj, exnode, stored>> /\ Set(t, Idle)
  BY DEF CloseTeardown, At, ObjSame, RestSame
<1>2. th[t].h = index /\ index # 0
  BY <1>1, ThreadFacts, HasIndex DEF NoHandle
<1>3. obj = "file" /\ (\A u \in Threads : th[u].pc # "attrs") /\ index \in 1 .. Len(fh)
  BY <1>2, Made
<1>4. \A u \in Threads : th[u].h # 0 => u = t
  BY <1>1 DEF Owed, Alone, Closing
<1>5. Holders(index) = {}
  BY <1>1, <1>2, <1>4 DEF Holders, Holding
<1>6. fh[index].ref = 0
  BY <1>2, <1>3, <1>5, FS_EmptySet DEF HandlesInv, RefCounted, Owed, Shared
<1>7. index' = 0
  BY <1>2, <1>6 DEF CloseTeardown, H
<1>8. \A u \in Threads : th'[u].h = 0 /\ (u # t => th'[u] = th[u]) /\ (u = t => th'[u].pc = "idle")
  BY <1>1, <1>4, IdleType DEF Set, HandlesInv, TypeOK
<1>9. stored \subseteq Writes(exnode)
  BY <1>1, <1>2 DEF Owed, Shared, Alone
<1>10. Making' /\ Shut' /\ Shared'
  BY <1>1, <1>3, <1>7, <1>8, <1>9 DEF Making, Shut, Shared
<1>11. ASSUME NEW u \in Threads PROVE Alone(u)'
  <2>1. th'[u].pc \in NoHandle
    BY <1>8 DEF HandlesInv, TypeOK, NoHandle
  <2> QED BY <2>1 DEF Alone, NoHandle, Closing
<1> QED BY <1>10, <1>11 DEF Owed

\* An open that shares the handle, and falls into no close.
LEMMA OwedShare ==
  ASSUME HandlesInv, HandlesInv', Owed, races' = {}, NEW t \in Threads, th[t].pc = "lock", Share(t),
         UNCHANGED <<obj, exnode, stored>>
  PROVE  Owed'
<1>1. index # 0 /\ index' = index
  BY DEF Share
<1>2. /\ obj = "file" /\ \A u \in Threads : th[u].pc # "attrs"
      /\ index \in 1 .. Len(fh) /\ fh[index] \in Handle /\ DOMAIN fh = 1 .. Len(fh)
  BY <1>1, Made DEF HandlesInv, TypeOK
<1>3. Cardinality(Holders(index)) # 0
  BY <1>1, <1>2 DEF Share, HandlesInv, RefCounted, Owed, Shared
<1>4. PICK w \in Threads : th[w].h = index /\ th[w].pc \in Holding
  BY <1>3, HoldersFinite DEF Holders
<1>5. \A u \in Threads : th[u].pc \notin Closing
  BY <1>1, <1>4 DEF Owed, Alone, Closing, Holding
<1>6. /\ fh'[index].data = fh[index].data /\ fh'[index].modified = fh[index].modified
      /\ fh'[index].freed = fh[index].freed
  BY <1>2 DEF Share, Put, Handle
<1>7. /\ \A u \in Threads \ {t} : th'[u] = th[u]
      /\ th'[t].h = index /\ th'[t].pc = "open"
  BY DEF Share, Set, Opened, HandlesInv, TypeOK, Thread
<1>8. Making' /\ Shut'
  BY <1>1, <1>2, <1>7 DEF Making, Shut
<1>9. Shared'
  BY <1>1, <1>6, <1>7 DEF Owed, Shared
<1>10. ASSUME NEW u \in Threads PROVE Alone(u)'
  <2>1. th'[u].pc \notin Closing /\ (th'[u].pc = "wseg" => th[u].pc = "wseg")
    BY <1>5, <1>7 DEF Closing
  <2> QED BY <1>1, <1>6, <2>1 DEF Owed, Alone, Closing
<1> QED BY <1>8, <1>9, <1>10 DEF Owed

\* An open that loads the exnode as it is stored.
LEMMA OwedLoad ==
  ASSUME HandlesInv, HandlesInv', Owed, races' = {}, NEW t \in Threads, th[t].pc = "lock", LoadHandle(t),
         UNCHANGED <<obj, exnode, stored>>
  PROVE  Owed'
<1>1. index = 0 /\ index' = Len(fh) + 1 /\ th[t].seen = exnode /\ Len(fh) \in Nat /\ fh \in Seq(Handle)
  <2>1. index = 0 /\ index' = Len(fh) + 1 /\ th[t].seen = exnode
    BY DEF LoadHandle
  <2>2. fh \in Seq(Handle)
    BY DEF HandlesInv, TypeOK
  <2> QED BY <2>1, <2>2
<1>2. obj = "file" /\ \A u \in Threads : th[u].pc # "attrs"
  BY DEF Owed, Making
<1>3. stored \subseteq Writes(exnode) /\ \A u \in Threads : th[u].h = 0
  BY <1>1 DEF Owed, Shut
<1>4. PICK r : r = [ref |-> 1, modified |-> FALSE, data |-> th[t].seen, kept |-> {}, freed |-> FALSE]
  OBVIOUS
<1>5. fh'[Len(fh) + 1] = r
  BY <1>1, <1>4 DEF LoadHandle
<1>6. fh'[index'].data = exnode /\ ~fh'[index'].freed
  BY <1>1, <1>4, <1>5
<1>7. /\ \A u \in Threads \ {t} : th'[u] = th[u]
      /\ th'[t].h = Len(fh) + 1 /\ th'[t].pc \in {"trunc", "open"}
  <2>1. PICK pc \in {"trunc", "open"} : Set(t, [Opened(t, Len(fh) + 1) EXCEPT !.pc = pc])
    BY DEF LoadHandle
  <2> QED BY <2>1 DEF Set, Opened, HandlesInv, TypeOK, Thread
<1>8. Making' /\ Shut'
  BY <1>1, <1>2, <1>7 DEF Making, Shut
<1>9. Shared'
  BY <1>1, <1>3, <1>6, <1>7 DEF Shared
<1>10. ASSUME NEW u \in Threads PROVE Alone(u)'
  <2>1. th'[u].pc \in NoHandle \cup {"trunc", "open"}
    BY <1>3, <1>7, ThreadFacts
  <2> QED BY <2>1 DEF Alone, NoHandle, Closing
<1> QED BY <1>8, <1>9, <1>10 DEF Owed

\* No step loses what is owed, unless it is one of the races.
LEMMA StoreStep == HandlesInv /\ HandlesInv' /\ StoreInv /\ [Next]_vars => StoreInv'
<1> SUFFICES ASSUME HandlesInv, HandlesInv', StoreInv, [Next]_vars, races' = {}, ~halted'
             PROVE  Owed'
  BY DEF StoreInv
<1>1. CASE UNCHANGED vars
  BY <1>1 DEF vars, StoreInv, Owed, Making, Shut, Shared, Alone
<1>2. ASSUME NEW t \in Threads, Call(t) \/ Step(t)
      PROVE  Owed'
  <2>1. races = {} /\ ~halted
    BY <1>2 DEF Call, Step, OpenStart, WriteFlag, Truncate, CloseCount, CreateObject, CreateAttrs, LoadAttrs,
       OpenLock, Share, LoadHandle, LoadFails, OpenTruncate, WriteSegment, CloseSize, CloseTruncate,
       CloseSerialize, CloseStore, CloseTeardown, At, RestSame
  <2>2. Owed
    BY <2>1 DEF StoreInv
  <2>3. CASE OpenLock(t)
    <3>1. UNCHANGED <<obj, exnode, stored>> /\ th[t].pc = "lock" /\ At(t, "lock")
      BY <2>3 DEF OpenLock, ObjSame, At
    <3>2. Share(t) \/ LoadHandle(t) \/ LoadFails(t)
      BY <2>3 DEF OpenLock
    <3> QED BY <2>2, <3>1, <3>2, OwedShare, OwedLoad, OwedBefore
  <2> QED BY <1>2, <2>2, <2>3, OwedBefore, OwedUse, OwedCount, OwedClose, OwedTeardown DEF Call, Step
<1>3. ASSUME NEW t \in Threads, UseFreed(t) PROVE FALSE
  BY <1>3 DEF UseFreed
<1> QED BY <1>1, <1>2, <1>3 DEF Next, Over

\* What was written through any descriptor and not truncated is in the exnode
\* that the last close of lio_myclose_fn stored, and in the shared handle as
\* long as the file is open, for any number of threads and calls, unless an
\* open fell into a close or a call of the object service failed.
THEOREM ClosesStoreWrites == Spec => []StoredUnlessRaced
<1>1. Init => StoreInv
  <2> SUFFICES ASSUME Init PROVE Owed
    BY DEF StoreInv
  <2>1. \A t \in Threads : th[t].pc = "idle" /\ th[t].h = 0
    BY IdleType DEF Init
  <2> QED BY <2>1 DEF Init, Owed, Making, Shut, Shared, Alone, Closing
<1>2. HandlesInv /\ StoreInv => StoredUnlessRaced
  <2> SUFFICES ASSUME HandlesInv, Owed
               PROVE  /\ Quiet => stored \subseteq Writes(exnode)
                      /\ index # 0 => stored \subseteq Writes(fh[index].data)
    BY DEF StoreInv, StoredUnlessRaced
  <2> QED BY DEF Owed, Shut, Shared, Quiet
<1> QED BY InitHandles, NextHandles, StoreStep, <1>1, <1>2, PTL DEF Spec
================================================================================
