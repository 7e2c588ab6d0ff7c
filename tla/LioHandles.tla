------------------------------- MODULE LioHandles -------------------------------
(***************************************************************************)
(* Shared file handles of the lio layer (lio_core_io.c): every open of a   *)
(* file in a process shares one lio_file_handle_t, found in lc->open_index *)
(* and counted by ref_count; the last close flushes, stores the exnode and *)
(* tears the handle down.  lio_lock covers the counting, the lookup and    *)
(* the teardown, not the flush and the store between them, so opens,       *)
(* writes and further closes fall into the middle of a close.              *)
(*                                                                         *)
(* Abstracted: one file; its content, which is also what its exnode        *)
(* describes, is the sequence of the writes in it (a write extends the     *)
(* file; 0 is a hole), its size the length; object-service calls are       *)
(* atomic (external), cached pages are the cache segment's matter.         *)
(***************************************************************************)
EXTENDS Integers, Sequences, FiniteSets, SequencesExt

CONSTANTS
  Threads,
  Fails,      \* may an object-service or segment call fail?
  MaxOps      \* bound: opens, writes and truncates started

ASSUME HandlesAssumption ==
  /\ IsFiniteSet(Threads)
  /\ Fails \in BOOLEAN
  /\ MaxOps \in Nat

VARIABLES
  obj,     \* the object: "none", "bare" (no attributes yet) or "file"
  exnode,  \* content described by the stored system.exnode attribute
  fh,      \* fh[h]: the allocated file handles
  index,   \* lc->open_index: the handle of the file, 0 for none
  th,      \* th[t]: the call thread t is in, and its descriptor
  ops,     \* calls started
  stored,  \* history: writes that returned and were not truncated since
  races,   \* history: what fell into the middle of an open or a close
  halted   \* a freed handle was used

vars == <<obj, exnode, fh, index, th, ops, stored, races, halted>>

Writes(d) == {d[n] : n \in 1 .. Len(d)} \ {0}
Resize(d, n) == [i \in 1 .. n |-> IF i <= Len(d) THEN d[i] ELSE 0]

Idle == [pc |-> "idle", h |-> 0, seen |-> <<>>, size |-> 0, trunc |-> FALSE, write |-> FALSE]

At(t, pc) == ~halted /\ th[t].pc = pc
Goto(t, pc) == th' = [th EXCEPT ![t].pc = pc]
Set(t, r) == th' = [th EXCEPT ![t] = r]
H(t) == fh[th[t].h]
Put(h, r) == fh' = [fh EXCEPT ![h] = r]

ObjSame == UNCHANGED <<obj, exnode>>
HandleSame == UNCHANGED <<fh, index>>
RestSame == UNCHANGED <<ops, stored, races, halted>>

Init ==
  /\ obj \in {"none", "file"} /\ exnode = <<>>
  /\ fh = <<>> /\ index = 0
  /\ th = [t \in Threads |-> Idle]
  /\ ops = 0 /\ stored = {} /\ races = {} /\ halted = FALSE

(* A handle that was freed is dereferenced: anything may happen.           *)
UseFreed(t) ==
  /\ th[t].h # 0 /\ H(t).freed
  /\ halted' = TRUE
  /\ UNCHANGED <<obj, exnode, fh, index, th, ops, stored, races>>

-----------------------------------------------------------------------------
(* lio_myopen_fn.                                                          *)

(* The object is looked up; opening for writing creates it.                *)
OpenStart(t, write, trunc) ==
  /\ At(t, "idle") /\ ops < MaxOps
  /\ obj # "none" \/ write                      \* otherwise refused
  /\ Set(t, [Idle EXCEPT !.write = write, !.trunc = trunc,
                         !.pc = IF obj = "none" THEN "create" ELSE "load"])
  /\ ops' = ops + 1
  /\ ObjSame /\ HandleSame /\ UNCHANGED <<stored, races, halted>>

(* lio_create_object_fn: the entry first, its attributes later; a creation *)
(* that fails half way removes the entry.                                  *)
CreateObject(t) ==
  /\ At(t, "create")
  /\ \/ obj = "none" /\ obj' = "bare" /\ Goto(t, "attrs")
     \/ (obj # "none" \/ Fails) /\ Set(t, Idle) /\ UNCHANGED obj   \* or somebody else did
  /\ UNCHANGED exnode /\ HandleSame /\ RestSame

CreateAttrs(t) ==
  /\ At(t, "attrs")
  /\ \/ obj' = "file" /\ exnode' = <<>> /\ Goto(t, "load")
     \/ Fails /\ obj' = "none" /\ UNCHANGED exnode /\ Set(t, Idle)
  /\ HandleSame /\ RestSame

(* The stored exnode is read before the lock; none yet: the open fails.    *)
LoadAttrs(t) ==
  /\ At(t, "load")
  /\ \/ obj = "file" /\ Set(t, [th[t] EXCEPT !.pc = "lock", !.seen = exnode])
     \/ (obj # "file" \/ Fails) /\ Set(t, Idle)
  /\ ObjSame /\ HandleSame /\ RestSame

(* Under lio_lock: share the open handle, or load the exnode into a new one*)
Opened(t, h) == [th[t] EXCEPT !.h = h, !.seen = <<>>]
Share_NoCount(t) ==
  /\ index # 0 /\ Put(index, fh[index])
  /\ Set(t, [Opened(t, index) EXCEPT !.pc = "open"])
  /\ races' = IF fh[index].ref = 0 THEN races \cup {"reopen"} ELSE races
  /\ UNCHANGED index
Share(t) ==
  /\ index # 0
  /\ Put(index, [fh[index] EXCEPT !.ref = @ + 1])
  /\ Set(t, [Opened(t, index) EXCEPT !.pc = "open"])
  /\ races' = IF fh[index].ref = 0 THEN races \cup {"reopen"} ELSE races
  /\ UNCHANGED index
LoadHandle_Again(t) ==
  /\ fh' = Append(fh, [ref |-> 1, modified |-> FALSE, data |-> th[t].seen, kept |-> {}, freed |-> FALSE])
  /\ index' = Len(fh) + 1
  /\ Set(t, [Opened(t, Len(fh) + 1) EXCEPT !.pc = IF th[t].write /\ th[t].trunc THEN "trunc" ELSE "open"])
  /\ UNCHANGED races
LoadHandle(t) ==
  /\ index = 0
  /\ fh' = Append(fh, [ref |-> 1, modified |-> FALSE, data |-> th[t].seen, kept |-> {}, freed |-> FALSE])
  /\ index' = Len(fh) + 1
  /\ Set(t, [Opened(t, Len(fh) + 1) EXCEPT !.pc = IF th[t].write /\ th[t].trunc THEN "trunc" ELSE "open"])
  /\ races' = IF th[t].seen # exnode THEN races \cup {"stale"} ELSE races
LoadFails(t) == Fails /\ index = 0 /\ HandleSame /\ Set(t, Idle) /\ UNCHANGED races
OpenLock(t) ==
  /\ At(t, "lock")
  /\ IF index # 0 /\ fh[index].freed THEN halted' = TRUE /\ HandleSame /\ UNCHANGED <<th, races>>
     ELSE (Share(t) \/ LoadHandle(t) \/ LoadFails(t)) /\ UNCHANGED halted
  /\ ObjSame /\ UNCHANGED <<ops, stored>>

(* lio_truncate_fn to n bytes: what it cuts is no longer owed to anybody.  *)
TruncateTo(t, n) ==
  LET d == Resize(H(t).data, n) IN
  /\ Put(th[t].h, [H(t) EXCEPT !.modified = @ \/ Len(H(t).data) # n,
                               !.data = d, !.kept = @ \cap Writes(d)])
  /\ stored' = stored \ (Writes(H(t).data) \ Writes(d))

(* O_TRUNC on a handle just loaded; if that fails the handle is freed,     *)
(* although it is in the index and others may share it.                    *)
OpenTruncate(t) ==
  /\ At(t, "trunc") /\ ~H(t).freed
  /\ \/ TruncateTo(t, 0) /\ Goto(t, "open") /\ UNCHANGED races
     \/ /\ Fails /\ Len(H(t).data) # 0
        /\ Put(th[t].h, [H(t) EXCEPT !.freed = TRUE])
        /\ Set(t, Idle) /\ races' = races \cup {"badopen"}
        /\ UNCHANGED stored
  /\ ObjSame /\ UNCHANGED <<index, ops, halted>>

-----------------------------------------------------------------------------
(* I/O on an open descriptor.                                              *)

(* lio_write_ex_fn: the handle is flagged, then the segment is written.    *)
WriteFlag(t) ==
  /\ At(t, "open") /\ th[t].write /\ ops < MaxOps /\ ~H(t).freed
  /\ Put(th[t].h, [H(t) EXCEPT !.modified = TRUE])
  /\ Goto(t, "wseg")
  /\ ops' = ops + 1
  /\ ObjSame /\ UNCHANGED <<index, stored, races, halted>>

NewWrite == 1 + Cardinality({w \in 1 .. MaxOps : \E h \in 1 .. Len(fh) : \E v \in Writes(fh[h].data) \cup stored : w <= v})
WriteSegment(t) ==
  /\ At(t, "wseg") /\ ~H(t).freed
  /\ Goto(t, "open")
  /\ \/ /\ Put(th[t].h, [H(t) EXCEPT !.data = Append(@, NewWrite), !.kept = @ \cup {NewWrite}])
        /\ stored' = stored \cup {NewWrite}
     \/ Fails /\ UNCHANGED <<fh, stored>>
  /\ ObjSame /\ UNCHANGED <<index, ops, races, halted>>

Truncate(t) ==
  /\ At(t, "open") /\ ops < MaxOps /\ ~H(t).freed
  /\ \/ TruncateTo(t, 0)
     \/ /\ Fails /\ Len(H(t).data) # 0
        /\ Put(th[t].h, [H(t) EXCEPT !.modified = TRUE]) /\ UNCHANGED stored
  /\ ops' = ops + 1
  /\ ObjSame /\ UNCHANGED <<index, th, races, halted>>

-----------------------------------------------------------------------------
(* lio_myclose_fn.                                                         *)

CloseCount(t) ==
  /\ At(t, "open") /\ ~H(t).freed
  /\ Put(th[t].h, [H(t) EXCEPT !.ref = @ - 1])
  /\ IF H(t).ref > 1 THEN Set(t, Idle) ELSE Goto(t, "size")
  /\ ObjSame /\ UNCHANGED index /\ RestSame

CloseSize(t) ==
  /\ At(t, "size") /\ ~H(t).freed
  /\ Set(t, [th[t] EXCEPT !.pc = "cut", !.size = Len(H(t).data)])
  /\ ObjSame /\ HandleSame /\ RestSame

(* segment_truncate to the size found before, and segment_flush.           *)
CloseTruncate(t) ==
  /\ At(t, "cut") /\ ~H(t).freed
  /\ Put(th[t].h, [H(t) EXCEPT !.data = Resize(@, th[t].size)])
  /\ Goto(t, "flushed")
  /\ ObjSame /\ UNCHANGED index /\ RestSame

(* lio_update_exnode_attrs: serialise, then set the attributes; a failure  *)
(* to set them is only logged.                                             *)
CloseSerialize_Skip(t) ==
  /\ At(t, "flushed") /\ ~H(t).freed
  /\ Goto(t, "check")
  /\ ObjSame /\ HandleSame /\ RestSame
CloseSerialize(t) ==
  /\ At(t, "flushed") /\ ~H(t).freed
  /\ IF H(t).modified THEN Set(t, [th[t] EXCEPT !.pc = "store", !.seen = H(t).data])
     ELSE Goto(t, "check")
  /\ ObjSame /\ HandleSame /\ RestSame

CloseStore(t) ==
  /\ At(t, "store") /\ ~H(t).freed
  /\ \/ exnode' = th[t].seen /\ UNCHANGED races
     \/ Fails /\ races' = races \cup {"unsaved"} /\ UNCHANGED exnode
  /\ Set(t, [th[t] EXCEPT !.pc = "check", !.seen = <<>>])
  /\ UNCHANGED obj /\ HandleSame /\ UNCHANGED <<ops, stored, halted>>

(* Under lio_lock: unless somebody opened it meanwhile, the exnode is      *)
(* destroyed and the handle leaves the index and is freed.                 *)
CloseTeardown_Unchecked(t) ==
  /\ At(t, "check") /\ ~H(t).freed
  /\ Put(th[t].h, [H(t) EXCEPT !.freed = TRUE]) /\ index' = 0
  /\ Set(t, Idle)
  /\ ObjSame /\ RestSame
CloseTeardown(t) ==
  /\ At(t, "check") /\ ~H(t).freed
  /\ IF H(t).ref > 0 THEN HandleSame
     ELSE Put(th[t].h, [H(t) EXCEPT !.freed = TRUE]) /\ index' = 0
  /\ Set(t, Idle)
  /\ ObjSame /\ RestSame

-----------------------------------------------------------------------------
Step(t) ==
  \/ CreateObject(t) \/ CreateAttrs(t) \/ LoadAttrs(t) \/ OpenLock(t) \/ OpenTruncate(t)
  \/ WriteSegment(t)
  \/ CloseSize(t) \/ CloseTruncate(t) \/ CloseSerialize(t) \/ CloseStore(t) \/ CloseTeardown(t)

Call(t) ==
  \/ \E write, trunc \in BOOLEAN : (trunc => write) /\ OpenStart(t, write, trunc)
  \/ WriteFlag(t) \/ Truncate(t) \/ CloseCount(t)

(* The process died, or every call of the bound was made.                  *)
Over ==
  /\ halted \/ (\A t \in Threads : th[t].pc = "idle" /\ ops = MaxOps)
  /\ UNCHANGED vars

Next == Over \/ \E t \in Threads : Call(t) \/ Step(t) \/ (~halted /\ UseFreed(t))

Spec == Init /\ [][Next]_vars

-----------------------------------------------------------------------------
Holding == {"trunc", "open", "wseg"}
Holders(h) == {t \in Threads : th[t].h = h /\ th[t].pc \in Holding}

Handle == [ref : Nat, modified : BOOLEAN, data : Seq(Nat), kept : SUBSET Nat, freed : BOOLEAN]
Thread == [pc : {"idle", "create", "attrs", "load", "lock", "trunc", "open", "wseg",
                 "size", "cut", "flushed", "store", "check"},
           h : Nat, seen : Seq(Nat), size : Nat, trunc : BOOLEAN, write : BOOLEAN]

(* A thread refers to an allocated handle from the lookup of an open to    *)
(* the end of a close.                                                     *)
TypeOK ==
  /\ obj \in {"none", "bare", "file"} /\ exnode \in Seq(Nat)
  /\ fh \in Seq(Handle) /\ index \in 0 .. Len(fh)
  /\ th \in [Threads -> Thread]
  /\ \A t \in Threads : /\ th[t].h \in 0 .. Len(fh)
                        /\ (th[t].h = 0) <=> (th[t].pc \in {"idle", "create", "attrs", "load", "lock"})
  /\ stored \subseteq Nat /\ races \subseteq {"reopen", "stale", "unsaved", "badopen"}

(* ref_count is the number of descriptors not yet closed, however opens    *)
(* that share and closes that pass zero (lio_myclose_fn) interleave.       *)
RefCounted == \A h \in 1 .. Len(fh) : ~fh[h].freed => fh[h].ref = Cardinality(Holders(h))

(* A descriptor the user still holds has a live handle, the one new opens  *)
(* find: the check under the lock protects those who open during a close.  *)
(* The failed truncation of lio_myopen_fn is excepted.                     *)
OpenFdsLive ==
  \A t \in Threads :
    th[t].pc \in Holding /\ "badopen" \notin races => ~H(t).freed /\ index = th[t].h

(* "to make sure the exnode isn't loaded twice": all handles but the one   *)
(* in the index were destroyed.                                            *)
LoadedOnce == \A h \in 1 .. Len(fh) : ~fh[h].freed => h = index

(* What was written and not truncated is in the exnode stored when the     *)
(* last close returned, and in the handle while the file is open, unless   *)
(* an open fell into a close or a call failed.                             *)
Quiet == \A t \in Threads : th[t].h = 0
StoredUnlessRaced ==
  races = {} /\ ~halted =>
    /\ Quiet => stored \subseteq Writes(exnode)
    /\ index # 0 /\ Holders(index) # {} => stored \subseteq Writes(fh[index].data)

=================================================================================
