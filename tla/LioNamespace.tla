----------------------------- MODULE LioNamespace -----------------------------
(***************************************************************************)
(* lio_core_os.c and the namespace calls of lio_fuse_core.c: files, their  *)
(* exnodes and the data of these, worked on by the threads of one FUSE     *)
(* mount and by tools that call lio directly.  An operation of the object  *)
(* service is one step (OsNamespace has its parts); an operation of lio is *)
(* several.  libfuse, external, lets an unlink or a rename wait for the    *)
(* other calls on the same name and renames an open file that is unlinked  *)
(* to Hidden, unless it was mounted with hard_remove.                      *)
(* A file is an object with attributes: owner, exnode and whether the      *)
(* exnode has allocations.  Hard links share the object, a symbolic link   *)
(* has an object of its own whose exnode is the one of its target.         *)
(***************************************************************************)
EXTENDS Integers, FiniteSets, FiniteSetsExt

CONSTANTS Mount,        \* threads of the FUSE mount
          Tools,        \* threads of tools
          Names, Hidden, NoName,
          MaxObj,       \* objects ever made
          MaxNsOps, MaxNsFaults

ASSUME LioAssumption ==
  /\ IsFiniteSet(Mount) /\ IsFiniteSet(Names) /\ Mount \cap Tools = {}
  /\ Hidden \notin Names /\ NoName \notin Names \cup {Hidden} \cup Mount \cup Tools
  /\ MaxObj \in Nat \ {0} /\ MaxNsOps \in Nat /\ MaxNsFaults \in Nat

VARIABLES
  ent,      \* the object of a name, 0 if there is none
  to,       \* the target of a name that is a symbolic link
  obj,      \* attributes of the objects
  data,     \* exnodes whose data is allocated
  fops,     \* lfs->open_files: users and remove_on_close of a name
  flock,    \* who has lfs->lock
  fd,       \* what a thread has open: exnode and the name libfuse knows
  marked,   \* exnodes whose handle has remove_on_close
  act,      \* what a thread is doing
  hard,     \* mounted with hard_remove
  nhist     \* history: objects made, operations, faults and lost races
nsvars == <<ent, to, obj, data, fops, flock, fd, marked, act, hard, nhist>>

NsThreads == Mount \cup Tools
AllNames == Names \cup {Hidden}
Objs == 1 .. MaxObj
NoObj == [own |-> FALSE, ex |-> 0, alloc |-> FALSE]
Unread == [o |-> 0, links |-> 0, ex |-> 0]
NoOp == [pc |-> "idle", p |-> NoName, q |-> NoName, typ |-> "none", ex |-> 0, o |-> 0,
         al |-> FALSE, del |-> FALSE, known |-> FALSE, was |-> Unread]
Closed == [ex |-> 0, name |-> NoName]
NoFop == [ref |-> 0, rm |-> FALSE]

(* A file or none, with data or without, with one name or several. *)
NsInit == \E named \in SUBSET Names, alloc \in BOOLEAN :
  /\ named = {} => ~alloc
  /\ ent = [n \in AllNames |-> IF n \in named THEN 1 ELSE 0] /\ to = [n \in AllNames |-> NoName]
  /\ obj = [o \in Objs |-> IF o = 1 /\ named # {} THEN [own |-> TRUE, ex |-> 1, alloc |-> alloc] ELSE NoObj]
  /\ data = IF alloc THEN {1} ELSE {}
  /\ fops = [n \in AllNames |-> NoFop] /\ flock = NoName
  /\ fd = [t \in Mount |-> Closed] /\ marked = {}
  /\ act = [t \in NsThreads |-> NoOp] /\ hard \in BOOLEAN
  /\ nhist = [made |-> 1, ops |-> 0, faults |-> 0, raced |-> FALSE]

-----------------------------------------------------------------------------
InStep(t, pc) == act[t].pc = pc
NsGoto(t, pc) == act' = [act EXCEPT ![t].pc = pc]
(* The end of a call; a close that removes gives the lock back as well. *)
NsReturn(t) == /\ act' = [act EXCEPT ![t] = NoOp]
               /\ flock' = IF flock = t THEN NoName ELSE flock
Races(b) == nhist' = [nhist EXCEPT !.raced = @ \/ b]
Fault == nhist.faults < MaxNsFaults
Faulty == nhist' = [nhist EXCEPT !.faults = @ + 1]

Links(o) == Cardinality({n \in AllNames : ent[n] = o})
(* os_exists *)
TypeOf(n) == IF ent[n] = 0 THEN "none" ELSE IF to[n] # NoName THEN "sym"
             ELSE IF Links(ent[n]) > 1 THEN "hard" ELSE "file"
(* lio_get_attr, lio_get_multiple_attrs: open, get, close; of a symbolic   *)
(* link the exnode of its target.  Links lead to files: one that leads to  *)
(* another link, or in a circle, finds nothing.                            *)
Followed(n) == IF ent[n] = 0 THEN 0 ELSE IF to[n] = NoName THEN ent[n]
               ELSE IF to[to[n]] = NoName THEN ent[to[n]] ELSE 0
ExnodeOf(n) == IF Followed(n) = 0 THEN 0 ELSE obj[Followed(n)].ex
(* History: what a name stands for. *)
Meaning(n) == [o |-> ent[n], links |-> Links(ent[n]), ex |-> ExnodeOf(n)]
AllocOf(n) == Followed(n) # 0 /\ obj[Followed(n)].alloc

-----------------------------------------------------------------------------
(* libfuse: calls on a name wait for its unlink or rename and the other    *)
(* way round.                                                              *)
Uses(t) == {act[t].p, act[t].q} \ {NoName}
MayCall(t, ns) == t \in Mount => \A u \in Mount \ {t} : Uses(u) \cap ns = {}
CallStart(t, pc, p, q) ==
  /\ act[t] = NoOp /\ nhist.ops < MaxNsOps /\ MayCall(t, {p, q})
  /\ act' = [act EXCEPT ![t] = [NoOp EXCEPT !.pc = pc, !.p = p, !.q = q]]
  /\ nhist' = [nhist EXCEPT !.ops = @ + 1]
  /\ UNCHANGED <<ent, to, obj, data, fops, flock, fd, marked, hard>>

IsOpen(p) == \E u \in Mount : fd[u].name = p
CallMount(t) == \E p \in Names :
  \/ CallStart(t, "exists", p, NoName)                       \* lfs_mknod
  \/ fd[t] = Closed /\ CallStart(t, "open", p, NoName)       \* lfs_open
  \/ (hard \/ ~IsOpen(p)) /\ CallStart(t, "unlink", p, NoName)  \* lfs_unlink
  \/ \E q \in Names \ {p} :
       \/ ent[q] = 0 /\ CallStart(t, "rename", p, q)         \* lfs_rename
       \/ CallStart(t, "hardlink", p, q)                     \* lfs_hardlink
       \/ CallStart(t, "symlink", p, q)                      \* lfs_symlink
  \/ ~hard /\ IsOpen(p) /\ ent[Hidden] = 0 /\ CallStart(t, "rename", p, Hidden)

(* Tools remove and move one file; those that walk over many, to remove    *)
(* them by pattern (lio_remove_regex_object_fn) or to check them           *)
(* (lio_next_fsck), have read the type and the attributes before.          *)
CallKnown(t, pc, p, del) ==
  /\ ent[p] # 0 /\ act[t] = NoOp /\ nhist.ops < MaxNsOps
  /\ act' = [act EXCEPT ![t] = [NoOp EXCEPT !.pc = pc, !.p = p, !.typ = TypeOf(p), !.ex = ExnodeOf(p),
                                  !.al = AllocOf(p), !.o = ent[p], !.del = del, !.known = TRUE,
                                  !.was = Meaning(p)]]
  /\ nhist' = [nhist EXCEPT !.ops = @ + 1]
  /\ UNCHANGED <<ent, to, obj, data, fops, flock, fd, marked, hard>>

RemoveRegex(t) == \E p \in Names : CallKnown(t, "rm_attr", p, FALSE)
FsckNext(t) == \E p \in Names, del \in BOOLEAN : CallKnown(t, "fsck_owner", p, del)
CallTool(t) == \E p \in Names :
  \/ CallStart(t, "rm_type", p, NoName)
  \/ \E q \in Names \ {p} : ent[q] = 0 /\ CallStart(t, "move", p, q)

-----------------------------------------------------------------------------
(* lfs_object_create *)
LfsCreate(t) ==
  /\ InStep(t, "exists")
  /\ IF ent[act[t].p] # 0 THEN NsReturn(t) ELSE NsGoto(t, "create") /\ UNCHANGED flock
  /\ UNCHANGED <<ent, to, obj, data, fops, fd, marked, hard, nhist>>

(* lio_create_object_fn: os_create_object; over an object that is there    *)
(* the object service loses that one's entry.                              *)
CreateEntry(t) ==
  LET p == act[t].p
      o == nhist.made + 1
  IN /\ InStep(t, "create")
     /\ \/ /\ ent[p] = 0 /\ o \in Objs
           /\ ent' = [ent EXCEPT ![p] = o] /\ to' = [to EXCEPT ![p] = NoName]
           /\ nhist' = [nhist EXCEPT !.made = o]
           /\ act' = [act EXCEPT ![t].pc = "attrs", ![t].o = o] /\ UNCHANGED flock
        \/ ent[p] # 0 /\ Races(TRUE) /\ NsReturn(t) /\ UNCHANGED <<ent, to>>
        \/ Fault /\ Faulty /\ NsReturn(t) /\ UNCHANGED <<ent, to>>
     /\ UNCHANGED <<obj, data, fops, fd, marked, hard>>

(* The clone of the parent's exnode and the other attributes are put on    *)
(* whatever has the name now, or on the target of a link that has it; if   *)
(* that fails, what has the name is removed.                               *)
CreateAttrs(t) ==
  LET p == act[t].p IN
  /\ InStep(t, "attrs")
  /\ \/ /\ ent[p] # 0
        /\ obj' = [obj EXCEPT ![ent[p]] = [own |-> TRUE, ex |-> act[t].o, alloc |-> FALSE]]
        /\ Races(obj[ent[p]].alloc \/ to[p] # NoName) /\ UNCHANGED <<ent, to>>
     \/ /\ ent[p] = 0 \/ Fault
        /\ Races(ent[p] \notin {0, act[t].o} \/ (ent[p] # 0 /\ ExnodeOf(p) \in data))
        /\ ent' = [ent EXCEPT ![p] = 0] /\ to' = [to EXCEPT ![p] = NoName]
        /\ UNCHANGED obj
  /\ NsReturn(t)
  /\ UNCHANGED <<data, fops, fd, marked, hard>>

-----------------------------------------------------------------------------
(* lio_remove_object_fn: type, link count and exnode are read before the   *)
(* entry is removed, the data goes last.                                   *)
RemoveType(t) ==
  /\ InStep(t, "rm_type")
  /\ act' = [act EXCEPT ![t].pc = "rm_attr", ![t].typ = TypeOf(act[t].p),
                        ![t].was = Meaning(act[t].p)]
  /\ UNCHANGED <<ent, to, obj, data, fops, flock, fd, marked, hard, nhist>>

RemoveAttrs_AnyLink(t) ==
  LET a == act[t] IN
  /\ InStep(t, "rm_attr")
  /\ act' = [act EXCEPT ![t].pc = "rm_entry", ![t].ex = IF a.typ = "sym" THEN 0 ELSE ExnodeOf(a.p),
                        ![t].al = AllocOf(a.p)]
  /\ UNCHANGED <<ent, to, obj, data, fops, flock, fd, marked, hard, nhist>>

RemoveAttrs_NoFetch(t) ==
  LET a    == act[t]
      keep == a.typ = "sym" \/ (a.typ = "hard" /\ Links(ent[a.p]) > 1)
      have == a.known /\ a.ex # 0
  IN /\ InStep(t, "rm_attr")
     /\ IF a.typ = "hard" /\ ent[a.p] = 0 THEN NsReturn(t)
        ELSE /\ act' = [act EXCEPT ![t].pc = "rm_entry",
                          ![t].ex = IF keep THEN 0 ELSE IF have THEN @ ELSE 0,
                          ![t].al = IF keep THEN FALSE ELSE IF have THEN @ ELSE FALSE]
             /\ UNCHANGED flock
     /\ Races(a.was # Meaning(a.p))
     /\ UNCHANGED <<ent, to, obj, data, fops, fd, marked, hard>>

RemoveAttrs(t) ==
  LET a    == act[t]
      keep == a.typ = "sym" \/ (a.typ = "hard" /\ Links(ent[a.p]) > 1)
      have == a.known /\ a.ex # 0
  IN /\ InStep(t, "rm_attr")
     /\ IF a.typ = "hard" /\ ent[a.p] = 0 THEN NsReturn(t)
        ELSE /\ act' = [act EXCEPT ![t].pc = "rm_entry",
                          ![t].ex = IF keep THEN 0 ELSE IF have THEN @ ELSE ExnodeOf(a.p),
                          ![t].al = IF keep THEN FALSE ELSE IF have THEN @ ELSE AllocOf(a.p)]
             /\ UNCHANGED flock
     /\ Races(a.was # Meaning(a.p))
     /\ UNCHANGED <<ent, to, obj, data, fops, fd, marked, hard>>

(* Somebody got between the reads and the removal if the name does not     *)
(* stand for the same object, exnode or number of links.                   *)
RemoveEntry(t) ==
  LET p == act[t].p IN
     /\ InStep(t, "rm_entry")
     /\ \/ /\ ent[p] # 0
           /\ ent' = [ent EXCEPT ![p] = 0] /\ to' = [to EXCEPT ![p] = NoName]
           /\ Races(act[t].was # Meaning(p))
           /\ NsGoto(t, "rm_data") /\ UNCHANGED flock
        \/ /\ ent[p] = 0 \/ Fault
           /\ IF ent[p] = 0 THEN UNCHANGED nhist ELSE Faulty
           /\ NsReturn(t) /\ UNCHANGED <<ent, to>>
     /\ UNCHANGED <<obj, data, fops, fd, marked, hard>>

(* exnode_remove of the exnode that was read: what it does not name, or    *)
(* what cannot be removed, stays allocated for good.                       *)
RemoveData(t) ==
  LET x == act[t].ex IN
  /\ InStep(t, "rm_data")
  /\ \/ act[t].al /\ data' = data \ {x} /\ UNCHANGED nhist
     \/ (~act[t].al \/ (x \in data /\ Fault)) /\ Races(x \in data) /\ UNCHANGED data
  /\ NsReturn(t)
  /\ UNCHANGED <<ent, to, obj, fops, fd, marked, hard>>

-----------------------------------------------------------------------------
(* lio_link_object_fn, a hard link, which os_hardlink_object refuses over  *)
(* an object; of a symbolic link it is one to the target.                  *)
LioHardlink(t) ==
  LET p == act[t].p
      q == act[t].q
  IN /\ InStep(t, "hardlink")
     /\ IF ent[p] # 0 /\ ent[q] = 0 /\ to[p] = NoName
        THEN ent' = [ent EXCEPT ![q] = ent[p]] ELSE UNCHANGED ent
     /\ NsReturn(t)
     /\ UNCHANGED <<to, obj, data, fops, fd, marked, hard, nhist>>

(* A symbolic link: the object, then its attributes.  If they fail the     *)
(* object stays without them.                                              *)
LioSymlink(t) ==
  LET q == act[t].q
      o == nhist.made + 1
  IN /\ InStep(t, "symlink")
     /\ IF ent[q] = 0 /\ o \in Objs
        THEN /\ ent' = [ent EXCEPT ![q] = o] /\ to' = [to EXCEPT ![q] = act[t].p]
             /\ nhist' = [nhist EXCEPT !.made = o] /\ NsGoto(t, "sym_attrs") /\ UNCHANGED flock
        ELSE NsReturn(t) /\ UNCHANGED <<ent, to, nhist>>
     /\ UNCHANGED <<obj, data, fops, fd, marked, hard>>

LinkAttrs(t) ==
  LET o == ent[act[t].q] IN
  /\ InStep(t, "sym_attrs")
  /\ \/ obj' = [x \in Objs |-> IF x = o THEN [obj[x] EXCEPT !.own = TRUE] ELSE obj[x]] /\ UNCHANGED nhist
     \/ Fault /\ Faulty /\ UNCHANGED obj
  /\ NsReturn(t)
  /\ UNCHANGED <<ent, to, data, fops, fd, marked, hard>>

-----------------------------------------------------------------------------
(* lfs_open: the file is opened, then it is entered into the table. *)
LfsOpen(t) ==
  LET ex == ExnodeOf(act[t].p) IN
  /\ InStep(t, "open")
  /\ IF ex = 0 THEN NsReturn(t) /\ UNCHANGED fd
     ELSE fd' = [fd EXCEPT ![t].ex = ex] /\ NsGoto(t, "enter") /\ UNCHANGED flock
  /\ UNCHANGED <<ent, to, obj, data, fops, marked, hard, nhist>>

LfsOpenEnter(t) ==
  LET p == act[t].p IN
  /\ InStep(t, "enter") /\ flock = NoName
  /\ fops' = [fops EXCEPT ![p].ref = @ + 1]
  /\ fd' = [fd EXCEPT ![t].name = p]
  /\ NsReturn(t)
  /\ UNCHANGED <<ent, to, obj, data, marked, hard, nhist>>

(* lfs_write: the first write allocates.  LioHandles has the rest. *)
LfsWrite(t) ==
  /\ act[t] = NoOp /\ fd[t].name # NoName /\ fd[t].ex \notin data
  /\ data' = data \cup {fd[t].ex}
  /\ UNCHANGED <<ent, to, obj, fops, flock, fd, marked, act, hard, nhist>>

(* lfs_release: the table, the mark on the handle and the close are under  *)
(* the lock; the close of the last user stores the exnode under the name   *)
(* the file has now and removes a marked file.                             *)
LfsRelease(t) ==
  LET n    == fd[t].name
      x    == fd[t].ex
      mark == marked \cup (IF fops[n].rm THEN {x} ELSE {})
      last == \A u \in Mount \ {t} : fd[u].ex # x
      o    == Followed(n)
      left == IF fops[n].ref <= 1 THEN NoFop ELSE [fops[n] EXCEPT !.ref = @ - 1]
  IN /\ act[t] = NoOp /\ fd[t] # Closed /\ flock = NoName /\ MayCall(t, {n})
     /\ fops' = [fops EXCEPT ![n] = left]
     /\ fd' = [fd EXCEPT ![t] = Closed]
     /\ marked' = IF last THEN mark \ {x} ELSE mark
     /\ obj' = IF last /\ x \in data /\ o # 0 THEN [obj EXCEPT ![o].ex = x, ![o].alloc = TRUE] ELSE obj
     /\ Races(last /\ x \in data /\ (o = 0 \/ ExnodeOf(n) # x))
     /\ IF last /\ x \in mark
        THEN flock' = t /\ act' = [act EXCEPT ![t] = [NoOp EXCEPT !.pc = "rm_type", !.p = n]]
        ELSE IF n = Hidden /\ \A u \in Mount \ {t} : fd[u].name # Hidden   \* libfuse unlinks it
        THEN act' = [act EXCEPT ![t] = [NoOp EXCEPT !.pc = "unlink", !.p = n]] /\ UNCHANGED flock
        ELSE UNCHANGED <<act, flock>>
     /\ UNCHANGED <<ent, to, data, hard>>

(* lfs_object_remove: a file in the table is only marked, and the lock is  *)
(* not given back.                                                         *)
LfsUnlink(t) ==
  LET p == act[t].p IN
  /\ InStep(t, "unlink") /\ flock = NoName
  /\ IF fops[p].ref > 0
     THEN /\ fops' = [fops EXCEPT ![p].rm = TRUE]
          /\ flock' = Hidden /\ act' = [act EXCEPT ![t] = NoOp]
     ELSE NsGoto(t, "rm_type") /\ UNCHANGED <<fops, flock>>
  /\ UNCHANGED <<ent, to, obj, data, fd, marked, hard, nhist>>

(* lfs_rename: the table first, then the object.  The entry of an open     *)
(* file whose object a tool took away under that name is overwritten.      *)
LfsRename_Skip(t) ==
  /\ InStep(t, "rename") /\ flock = NoName
  /\ NsGoto(t, "move")
  /\ UNCHANGED <<ent, to, obj, data, fops, flock, fd, marked, hard, nhist>>

LfsRename(t) ==
  LET p == act[t].p
      q == act[t].q
  IN /\ InStep(t, "rename") /\ flock = NoName
     /\ fops' = IF fops[p].ref = 0 THEN fops ELSE [fops EXCEPT ![q] = fops[p], ![p] = NoFop]
     /\ Races(fops[p].ref > 0 /\ fops[q].ref > 0)
     /\ NsGoto(t, "move")
     /\ UNCHANGED <<ent, to, obj, data, flock, fd, marked, hard>>

(* os_move_object; what it does over an object that is there is a matter   *)
(* of OsNamespace.  libfuse follows if it succeeds.                        *)
LioMove(t) ==
  LET p  == act[t].p
      q  == act[t].q
      ok == ent[p] # 0 /\ ent[q] = 0
  IN /\ InStep(t, "move")
     /\ IF ok THEN /\ ent' = [ent EXCEPT ![q] = ent[p], ![p] = 0]
                   /\ to' = [to EXCEPT ![q] = to[p], ![p] = NoName]
                   /\ fd' = [u \in Mount |-> IF t \in Mount /\ fd[u].name = p
                                             THEN [fd[u] EXCEPT !.name = q] ELSE fd[u]]
                   /\ UNCHANGED nhist
        ELSE /\ Races(ent[q] # 0 \/ (t \in Mount /\ fops[q].ref > 0))
             /\ UNCHANGED <<ent, to, fd>>
     /\ NsReturn(t)
     /\ UNCHANGED <<obj, data, fops, marked, hard>>

-----------------------------------------------------------------------------
(* lio_fsck_check_object with the attributes its iterator read: a missing  *)
(* owner or exnode is put in, under the name, or the object is removed.    *)
(* The exnode of a link is put on its target.                              *)
FsckOwner(t) ==
  LET a == act[t]
      n == ent[a.p]
  IN /\ InStep(t, "fsck_owner")
     /\ IF obj[a.o].own THEN NsGoto(t, "fsck_exnode") /\ UNCHANGED obj
        ELSE IF a.del THEN NsGoto(t, "rm_attr") /\ UNCHANGED obj
        ELSE /\ obj' = IF n = 0 THEN obj ELSE [obj EXCEPT ![n].own = TRUE]
             /\ NsGoto(t, "fsck_exnode")
     /\ UNCHANGED <<ent, to, data, fops, flock, fd, marked, hard, nhist>>

FsckExnode(t) ==
  LET a == act[t]
      n == Followed(a.p)
      x == nhist.made + 1
  IN /\ InStep(t, "fsck_exnode")
     /\ IF a.ex # 0 \/ (~a.del /\ (n = 0 \/ x \notin Objs)) THEN NsReturn(t) /\ UNCHANGED <<obj, nhist>>
        ELSE IF a.del THEN NsGoto(t, "rm_attr") /\ UNCHANGED <<obj, nhist, flock>>
        ELSE /\ obj' = [obj EXCEPT ![n].ex = x, ![n].alloc = FALSE]
             /\ nhist' = [nhist EXCEPT !.made = x, !.raced = @ \/ obj[n].ex # 0]
             /\ NsReturn(t)
     /\ UNCHANGED <<ent, to, data, fops, fd, marked, hard>>

-----------------------------------------------------------------------------
NsStep(t) ==
  \/ CreateEntry(t) \/ CreateAttrs(t) \/ LfsCreate(t)
  \/ RemoveType(t) \/ RemoveAttrs(t) \/ RemoveEntry(t) \/ RemoveData(t)
  \/ LioHardlink(t) \/ LioSymlink(t) \/ LinkAttrs(t) \/ LioMove(t)
  \/ FsckOwner(t) \/ FsckExnode(t)
MountStep(t) ==
  \/ CallMount(t) \/ LfsOpen(t) \/ LfsOpenEnter(t) \/ LfsWrite(t) \/ LfsRelease(t) \/ LfsUnlink(t) \/ LfsRename(t)
NsNext ==
  /\ ~nhist.raced
  /\ (\E t \in NsThreads : NsStep(t)) \/ (\E t \in Mount : MountStep(t)) \/ (\E t \in Tools : CallTool(t) \/ RemoveRegex(t) \/ FsckNext(t))

-----------------------------------------------------------------------------
(* The data of a file that has a name is never removed: not by a remove of *)
(* another name of the file, not by one that fails half way, not by a      *)
(* close that removes; unless somebody got between the reads and the       *)
(* removal (lio_remove_object_fn, lfs_release).                            *)
NamedDataKept ==
  nhist.raced \/ \A n \in AllNames :
     ent[n] # 0 /\ obj[ent[n]].alloc => obj[ent[n]].ex \in data

(* When nobody is at work and nothing is open, all data is that of a file  *)
(* with a name, and no file that was unlinked while it was open is left    *)
(* (lio_remove_object_fn, lfs_object_remove).                              *)
NothingOrphaned ==
  (~nhist.raced /\ \A t \in NsThreads : act[t] = NoOp /\ (t \in Mount => fd[t] = Closed)) =>
     \A x \in data : \E n \in AllNames : ent[n] # 0 /\ obj[ent[n]].ex = x

(* The table of open files counts the open files of each name through      *)
(* opens, renames, failed renames and releases of all threads, as long as  *)
(* the lock is not left held by an unlink (lfs_open, lfs_rename).          *)
TableTracksOpens ==
  nhist.raced \/ \A n \in AllNames :
    (\A t \in Mount : act[t].pc = "idle" \/ n \notin Uses(t)) =>
       fops[n].ref = Cardinality({t \in Mount : fd[t].name = n})
=============================================================================
