------------------------------ MODULE OsTimecache ------------------------------
(***************************************************************************)
(* The time cache (os_timecache.c): an object service that keeps attribute *)
(* values of a child object service for a while.  Every call runs in a     *)
(* thread of a pool; it asks the child and updates the cache in two steps, *)
(* and only the second holds the cache's lock.  A compaction thread drops  *)
(* what expired.  A descriptor of a cached object is opened in the child   *)
(* when it is first needed.                                                *)
(*                                                                         *)
(* Two names are modelled: Dir in the root, and File in Dir.  A value is a *)
(* model value, None, or <<object, key>> for an attribute that links to    *)
(* another one.  Abstracted: buffers and sizes, links of objects, links to *)
(* links, and lists of keys (a call has one).                              *)
(***************************************************************************)
EXTENDS Naturals, FiniteSets

CONSTANTS
  Dir, File,    \* /dir and /dir/file
  Keys, Inode,  \* attributes; system.inode is what a walk caches of each name
  Vals, None,
  CacheFds, CacheSlots,
  MaxCalls      \* bound: calls made

Objs == {Dir, File}
AllKeys == Keys \cup {Inode}
Places == Objs \X AllKeys

ASSUME TimecacheAssumption ==
  /\ Dir # File /\ Inode \notin Keys /\ None \notin Vals /\ Vals # {} /\ Keys # {}
  /\ (Vals \cup {None}) \cap Places = {}      \* a value is not a link
  /\ 0 \notin CacheFds \cup CacheSlots         \* 0 stands for none
  /\ IsFiniteSet(Keys) /\ IsFiniteSet(CacheFds) /\ IsFiniteSet(CacheSlots) /\ MaxCalls \in Nat

VARIABLES
  there,    \* the child's objects
  store,    \* the child's attributes
  cfds,     \* descriptors open in the child
  tree,     \* objects in the cache
  cache,    \* cached attributes: a value, and whether it has expired
  fd,       \* ostc_fd_t: "closed", "delayed" (fd_child is NULL) or "open"
  tcall,    \* the calls on their way
  calls,    \* how many were made
  undef,    \* a step with undefined behaviour was taken
  down,     \* ostc->shutdown
  suspect   \* history: places whose cached value a race, or a change the
            \* cache was not told of, may have left behind the child's

tcvars == <<there, store, cfds, tree, cache, fd, tcall, calls, undef, down, suspect>>

NoEntry == [v |-> None, old |-> FALSE, in |-> FALSE]
Entry(v) == [v |-> v, old |-> FALSE, in |-> TRUE]
IsLink(v) == v \in Places
NoAttrs == [k \in AllKeys |-> None]
Uncached == [k \in AllKeys |-> NoEntry]
Made == [NoAttrs EXCEPT ![Inode] = CHOOSE v \in Vals : TRUE]

TcIdle == [op |-> "-", pc |-> "idle", o |-> Dir, k |-> Inode, f |-> 0, o2 |-> Dir, k2 |-> Inode, f2 |-> 0,
           v |-> None, got |-> None, at |-> "-", opens |-> 0, pl |-> {}, raced |-> FALSE]

(* Just started, or after everything was read once.                        *)
TcInit ==
  /\ there = Objs /\ cfds = 0
  /\ store = [o \in Objs |-> [Made EXCEPT ![CHOOSE k \in Keys : TRUE] = CHOOSE v \in Vals : TRUE]]
  /\ \/ tree = {} /\ cache = [o \in Objs |-> Uncached]
     \/ tree = Objs /\ cache = [o \in Objs |-> [k \in AllKeys |-> Entry(store[o][k])]]
  /\ fd = [f \in CacheFds |-> [st |-> "closed", o |-> Dir]]
  /\ tcall = [i \in CacheSlots |-> TcIdle] /\ calls = 0
  /\ undef = FALSE /\ down = FALSE /\ suspect = {}

-----------------------------------------------------------------------------
(* Walks of the cache.                                                     *)

(* _ostc_cache_tree_walk: a name is found if every name on the path is.    *)
Path(o) == IF o = File THEN {Dir, File} ELSE {Dir}
Walk(o) == Path(o) \subseteq tree
FirstMissing(o) == IF Dir \notin tree THEN Dir ELSE o

(* With a type to add, the last name of the path is made, if the walk came *)
(* that far.                                                               *)
CanPut(o, ftype) == Walk(o) \/ (ftype /\ Path(o) \ {o} \subseteq tree)

(* _ostcdb_resolve_attr_link.                                              *)
Target(o, k) ==
  LET v == cache[o][k].v
  IN  IF ~IsLink(v) THEN <<o, k>> ELSE v
Resolved(o, k) ==
  /\ Walk(o) /\ cache[o][k].in
  /\ Walk(Target(o, k)[1]) /\ cache[Target(o, k)[1]][Target(o, k)[2]].in

(* The child: an attribute through its link.                               *)
Place(o, k) == IF IsLink(store[o][k]) THEN store[o][k] ELSE <<o, k>>
Value(o, k) == store[Place(o, k)[1]][Place(o, k)[2]]
With(s, p, v) == [s EXCEPT ![p[1]][p[2]] = v]

(* free_ostcdb_object with what is below it; an entry that goes is no      *)
(* longer behind.                                                          *)
Drop(c, os) == [o \in Objs |-> IF o \in os THEN Uncached ELSE c[o]]
Below(o) == IF o = Dir THEN Objs ELSE {File}
StillCached(c, ps) == {p \in ps : c[p[1]][p[2]].in}

-----------------------------------------------------------------------------
(* Calls.  A step in the child marks the calls it overtakes: those that    *)
(* have been to the child for the same place and not yet to the cache.     *)

InCache == {"put", "update", "drop_attr", "move_attr", "drop_object", "move_object", "prefix_put", "purge"}
Overlaps(i, j, ps) == j # i /\ tcall[j].pc \in InCache /\ tcall[j].pl \cap ps # {}
Overtake(i, ps) ==
  [j \in CacheSlots |-> IF Overlaps(i, j, ps) THEN [tcall[j] EXCEPT !.raced = TRUE] ELSE tcall[j]]
Overtakes(i, ps) == \E j \in CacheSlots : Overlaps(i, j, ps)
(* A read overtakes only a rename, which moves whatever is then cached.    *)
OvertakeRename(i, ps) ==
  [j \in CacheSlots |-> IF tcall[j].pc = "move_attr" THEN Overtake(i, ps)[j] ELSE tcall[j]]
Goes(i, pc) == tcall' = [tcall EXCEPT ![i].pc = pc]
End(i) == tcall' = [tcall EXCEPT ![i] = TcIdle]
At(i, pc) == tcall[i].pc = pc /\ ~undef

Child(i, s, ps, pc) ==
  /\ store' = s
  /\ tcall' = [Overtake(i, ps) EXCEPT ![i].pc = pc, ![i].pl = ps \cup {<<tcall[i].o, tcall[i].k>>}, ![i].raced = FALSE]
Cached(c, t) == cache' = c /\ tree' = t
Behind(ps) == suspect' = StillCached(cache', ps)

(* ostc_get_attrs, ostc_set_attrs and the others make a pool task; a call  *)
(* on descriptors works on the objects they name.                          *)
TcFree(i) == tcall[i] = TcIdle /\ ~undef /\ ~down /\ calls < MaxCalls /\ calls' = calls + 1
Start(i, r) ==
  /\ TcFree(i) /\ tcall' = [tcall EXCEPT ![i] = r]
  /\ UNCHANGED <<there, store, cfds, tree, cache, fd, undef, down, suspect>>
OnFd(op, pc, f, k) == [TcIdle EXCEPT !.op = op, !.pc = pc, !.f = f, !.o = fd[f].o, !.k = k,
                                   !.o2 = fd[f].o, !.k2 = k]

GetAttr(i, f, k) == fd[f].st # "closed" /\ Start(i, OnFd("get", "fetch", f, k))
SetAttr(i, f, k, v) == fd[f].st # "closed" /\ Start(i, [OnFd("set", "open", f, k) EXCEPT !.v = v])
CopyAttr(i, f, k, f2, k2) ==
  /\ fd[f].st # "closed" /\ fd[f2].st # "closed" /\ <<fd[f].o, k>> # <<fd[f2].o, k2>>
  /\ Start(i, [OnFd("copy", "open", f, k) EXCEPT !.f2 = f2, !.o2 = fd[f2].o, !.k2 = k2])
SymlinkAttr(i, o, k, f2, k2) ==
  /\ fd[f2].st # "closed" /\ <<o, k>> # <<fd[f2].o, k2>>
  /\ Start(i, [OnFd("symlink", "open", f2, k2) EXCEPT !.o2 = o, !.k2 = k])
MoveAttr(i, f, k, k2) ==
  /\ fd[f].st # "closed" /\ k # k2 /\ Start(i, [OnFd("rename", "open", f, k) EXCEPT !.k2 = k2])
CacheAttrIter(i, f) == fd[f].st # "closed" /\ Start(i, OnFd("attr_iter", "open", f, Inode))
OnPath(op, pc, o, k) == [TcIdle EXCEPT !.op = op, !.pc = pc, !.o = o, !.k = k, !.o2 = o, !.k2 = k]
RemoveObject(i, o) == Start(i, OnPath("remove", "child", o, Inode))
MoveObject(i, o) == Start(i, OnPath("move", "child", o, Inode))
CacheNextObject(i, o, k) == o \in there /\ Start(i, OnPath("list", "child", o, k))
RemoveRegex(i, o) == Start(i, OnPath("remove_regex", "child", o, Inode))

-----------------------------------------------------------------------------
(* ostc_cache_fetch.  Whether the entry expired is not looked at.          *)
Fetch(i) ==
  LET r == tcall[i] IN
  /\ At(i, "fetch")
  /\ IF Resolved(r.o, r.k) THEN End(i) ELSE Goes(i, "prefix")
  /\ UNCHANGED <<there, store, cfds, tree, cache, fd, calls, undef, down, suspect>>

(* _ostc_cache_populate_prefix: the first name missing is opened and read  *)
(* in the child, put in the cache, and so on with the next; a name that is *)
(* missing again ends it.                                                  *)
PopulatePrefix(i) ==
  LET r == tcall[i]
      m == FirstMissing(r.o)
      more == ~Walk(r.o) /\ m \in there /\ r.at # m
  IN  /\ At(i, "prefix")
      /\ tcall' = IF more
                 THEN [tcall EXCEPT ![i].pc = "prefix_put", ![i].at = m, ![i].o2 = m,
                                   ![i].got = store[m][Inode], ![i].pl = {<<m, Inode>>}, ![i].raced = FALSE]
                 ELSE [tcall EXCEPT ![i].pc = "open", ![i].o2 = r.o]
      /\ UNCHANGED <<there, store, cfds, tree, cache, fd, calls, undef, down, suspect>>

(* ostc_cache_process_attrs.  An entry that is there keeps its time.  A    *)
(* linked attribute is stored with the target, if that is cached.          *)
NewEntry(o, k, v) == IF cache[o][k].in THEN [cache[o][k] EXCEPT !.v = v] ELSE Entry(v)
Processed(o, k, v, link) ==
  IF ~IsLink(link) THEN [cache EXCEPT ![o][k] = NewEntry(o, k, v)]
  ELSE IF Walk(link[1]) /\ cache[link[1]][link[2]].in
  THEN [cache EXCEPT ![link[1]][link[2]].v = v, ![o][k] = NewEntry(o, k, link)]
  ELSE cache

Process(i, o, k, v, link, ftype) ==
  LET r == tcall[i]
      skipped == IsLink(link) /\ ~(Walk(link[1]) /\ cache[link[1]][link[2]].in)
  IN
  IF CanPut(o, ftype)
  THEN /\ Cached(Processed(o, k, v, link), tree \cup {o})
       /\ Behind(IF r.raced THEN suspect \cup r.pl ELSE IF skipped THEN suspect ELSE suspect \ r.pl)
  ELSE UNCHANGED <<cache, tree, suspect>>

PrefixPut(i) ==
  LET r == tcall[i] IN
  /\ At(i, "prefix_put")
  /\ Process(i, r.o2, Inode, r.got, None, TRUE)
  /\ Goes(i, "prefix")
  /\ UNCHANGED <<there, store, cfds, fd, calls, undef, down>>

(* ostc_delayed_open_object, for the first descriptor of the call that has *)
(* none in the child: one thread opens, and closes again what another one  *)
(* was faster with.                                                        *)
NeedsOpen(r) == {f \in {r.f, r.f2} \cap CacheFds : fd[f].st = "delayed"}
FirstOpen(r) == IF r.f \in NeedsOpen(r) THEN r.f ELSE r.f2
DelayedOpen(i) ==
  LET r == tcall[i]
      f == FirstOpen(r)
  IN  /\ At(i, "open")
      /\ IF NeedsOpen(r) = {} THEN Goes(i, "child") /\ UNCHANGED cfds
         ELSE IF fd[f].o \in there
         THEN tcall' = [tcall EXCEPT ![i].pc = "install", ![i].opens = f] /\ cfds' = cfds + 1
         ELSE End(i) /\ UNCHANGED cfds
      /\ UNCHANGED <<there, store, tree, cache, fd, calls, undef, down, suspect>>

InstallChildFd(i) ==
  LET f == tcall[i].opens IN
  /\ At(i, "install")
  /\ IF fd[f].st = "delayed" THEN fd' = [fd EXCEPT ![f].st = "open"] /\ cfds' = cfds
     ELSE cfds' = cfds - 1 /\ UNCHANGED fd
  /\ tcall' = [tcall EXCEPT ![i].pc = "open", ![i].opens = 0]
  /\ UNCHANGED <<there, store, tree, cache, calls, undef, down, suspect>>

(* ostc_get_attrs_fn and ostc_next_object: what the child returns is put   *)
(* in the cache.                                                           *)
GetChild(i) ==
  LET r == tcall[i] IN
  /\ At(i, "child") /\ r.op \in {"get", "list"}
  /\ tcall' = [OvertakeRename(i, {<<r.o, r.k>>, Place(r.o, r.k)}) EXCEPT ![i].pc = "put", ![i].got = Value(r.o, r.k), ![i].v = store[r.o][r.k],
                          ![i].at = IF r.o \in there THEN "found" ELSE "-",
                          ![i].pl = {<<r.o, r.k>>, Place(r.o, r.k)}, ![i].raced = FALSE]
  /\ UNCHANGED <<there, store, cfds, tree, cache, fd, calls, undef, down, suspect>>

GetPut(i) ==
  LET r == tcall[i]
      link == IF IsLink(r.v) THEN r.v ELSE None
  IN  /\ At(i, "put")
      /\ Process(i, r.o, r.k, r.got, link, r.at = "found")
      /\ End(i)
      /\ UNCHANGED <<there, store, cfds, fd, calls, undef, down>>

(* ostc_set_attrs_fn: a value goes through the link, None removes the      *)
(* attribute itself; a call that fails in the child leaves the cache alone.*)
SetChild(i) ==
  LET r == tcall[i]
      p == IF r.v = None THEN <<r.o, r.k>> ELSE Place(r.o, r.k)
  IN  /\ At(i, "child") /\ r.op = "set"
      /\ IF {r.o, p[1]} \subseteq there THEN Child(i, With(store, p, r.v), {p}, "update")
         ELSE End(i) /\ UNCHANGED store
      /\ UNCHANGED <<there, cfds, tree, cache, fd, calls, undef, down, suspect>>

(* ostc_cache_update_attrs: only what is cached is updated, and keeps its  *)
(* time.  The size of a removed attribute is -1 and used as a length.      *)
SetUpdate_NotExpired(i) ==
  LET r == tcall[i]
      q == Target(r.o, r.k)
  IN  /\ At(i, "update")
      /\ Cached(IF Resolved(r.o, r.k) /\ ~cache[q[1]][q[2]].old THEN With(cache, q, Entry(r.v)) ELSE cache, tree)
      /\ Behind(suspect)
      /\ End(i)
      /\ UNCHANGED <<there, store, cfds, fd, calls, undef, down>>
SetUpdate(i) ==
  LET r == tcall[i]
      q == Target(r.o, r.k)
      told == ~r.raced /\ Resolved(r.o, r.k) /\ q \in r.pl /\ r.pl \subseteq {<<r.o, r.k>>, q}
  IN  /\ At(i, "update")
      /\ IF Resolved(r.o, r.k)
         THEN /\ Cached([cache EXCEPT ![q[1]][q[2]].v = r.v], tree)
              /\ undef' = (r.v = None)
         ELSE UNCHANGED <<cache, tree, undef>>
      /\ Behind(IF told THEN suspect ELSE suspect \cup r.pl \cup {q})
      /\ End(i)
      /\ UNCHANGED <<there, store, cfds, fd, calls, down>>

(* ostc_copy_attrs_fn and ostc_symlink_attrs_fn: the destination is taken  *)
(* out of the cache (ostc_cache_remove_attrs) and left to a later fetch.   *)
CopyChild(i) ==
  LET r == tcall[i]
      p == Place(r.o2, r.k2)
  IN  /\ At(i, "child") /\ r.op = "copy"
      /\ IF {r.o, r.o2, p[1]} \subseteq there THEN Child(i, With(store, p, Value(r.o, r.k)), {p}, "drop_attr")
         ELSE End(i) /\ UNCHANGED store
      /\ UNCHANGED <<there, cfds, tree, cache, fd, calls, undef, down, suspect>>

SymlinkChild(i) ==
  LET r == tcall[i]
      p == <<r.o, r.k>>
      ok == {r.o, r.o2} \subseteq there /\ store[r.o][r.k] = None /\ ~IsLink(store[r.o2][r.k2])
            /\ \A q \in Places : store[q[1]][q[2]] # p
  IN  /\ At(i, "child") /\ r.op = "symlink"
      /\ IF ok THEN Child(i, With(store, p, <<r.o2, r.k2>>), {p}, "drop_attr") ELSE End(i) /\ UNCHANGED store
      /\ UNCHANGED <<there, cfds, tree, cache, fd, calls, undef, down, suspect>>

DropAttr(i) ==
  LET r == tcall[i]
      d == IF r.op = "copy" THEN <<r.o2, r.k2>> ELSE <<r.o, r.k>>
  IN  /\ At(i, "drop_attr")
      /\ Cached(IF Walk(d[1]) THEN [cache EXCEPT ![d[1]][d[2]] = NoEntry] ELSE cache, tree)
      /\ Behind(suspect \cup (r.pl \ {<<r.o, r.k>>}))
      /\ End(i)
      /\ UNCHANGED <<there, store, cfds, fd, calls, undef, down>>

(* ostc_move_attrs_fn and ostc_cache_move_attrs.  What is linked to is not *)
(* moved, nor a link to a place that is linked to.                         *)
Unlinked(o, k, k2) ==
  \A q \in Places : /\ store[q[1]][q[2]] # <<o, k>>
                    /\ IsLink(store[o][k]) => store[q[1]][q[2]] # <<o, k2>>
Renamed(o, k, k2) == [store EXCEPT ![o][k2] = store[o][k], ![o][k] = None]
RenameChild(i) ==
  LET r == tcall[i]
      ps == {<<r.o, r.k>>, <<r.o, r.k2>>}
  IN  /\ At(i, "child") /\ r.op = "rename"
      /\ IF r.o \in there /\ store[r.o][r.k] # None /\ Unlinked(r.o, r.k, r.k2)
         THEN /\ store' = Renamed(r.o, r.k, r.k2)
              /\ tcall' = [Overtake(i, ps) EXCEPT ![i].pc = "move_attr", ![i].pl = ps, ![i].raced = Overtakes(i, ps)]
         ELSE End(i) /\ UNCHANGED store
      /\ UNCHANGED <<there, cfds, tree, cache, fd, calls, undef, down, suspect>>

RenameMove(i) ==
  LET r == tcall[i]
      moves == Walk(r.o) /\ cache[r.o][r.k].in
  IN  /\ At(i, "move_attr")
      /\ Cached(IF moves THEN [cache EXCEPT ![r.o][r.k2] = cache[r.o][r.k], ![r.o][r.k] = NoEntry] ELSE cache, tree)
      /\ Behind(suspect \cup IF r.raced \/ ~moves \/ <<r.o, r.k>> \in suspect THEN r.pl ELSE {})
      /\ End(i)
      /\ UNCHANGED <<there, store, cfds, fd, calls, undef, down>>

(* ostc_remove_object_fn: a directory has to be empty.                     *)
RemoveChild(i) ==
  LET r == tcall[i]
      ok == r.o \in there /\ (r.o = Dir => File \notin there)
  IN  /\ At(i, "child") /\ r.op \in {"remove", "move"}
      /\ IF ok THEN /\ Child(i, [store EXCEPT ![r.o] = NoAttrs], {r.o} \X AllKeys,
                             IF r.op = "move" THEN "move_object" ELSE "drop_object")
                    /\ there' = there \ {r.o}
         ELSE End(i) /\ UNCHANGED <<store, there>>
      /\ UNCHANGED <<cfds, tree, cache, fd, calls, undef, down, suspect>>

DropObject(i) ==
  LET r == tcall[i] IN
  /\ At(i, "drop_object")
  /\ IF Walk(r.o) THEN Cached(Drop(cache, Below(r.o)), tree \ Below(r.o)) ELSE UNCHANGED <<cache, tree>>
  /\ Behind(suspect) /\ End(i)
  /\ UNCHANGED <<there, store, cfds, fd, calls, undef, down>>

(* ostc_cache_move_object puts the object in its own place, and frees what *)
(* it replaced: a freed object stays in the table, where the next walk or  *)
(* compaction uses it.  (A name outside this instance is moved to.)        *)
MoveCached(i) ==
  LET r == tcall[i] IN
  /\ At(i, "move_object")
  /\ undef' = Walk(r.o) /\ End(i)
  /\ UNCHANGED <<there, store, cfds, tree, cache, fd, calls, down, suspect>>

(* ostc_remove_regex_object_fn: _ostc_cleanup of everything.               *)
RegexChild(i) ==
  LET r == tcall[i]
      gone == {r.o} \cap there
      ok == r.o = File \/ File \notin there
  IN  /\ At(i, "child") /\ r.op = "remove_regex"
      /\ IF ok THEN /\ Child(i, [store EXCEPT ![r.o] = NoAttrs], {r.o} \X AllKeys, "purge")
                    /\ there' = there \ gone
         ELSE End(i) /\ UNCHANGED <<store, there>>
      /\ UNCHANGED <<cfds, tree, cache, fd, calls, undef, down, suspect>>

RegexPurge(i) ==
  /\ At(i, "purge")
  /\ Cached(Drop(cache, Objs), {}) /\ Behind({}) /\ End(i)
  /\ UNCHANGED <<there, store, cfds, fd, calls, undef, down>>

AttrIterChild(i) ==
  /\ At(i, "child") /\ tcall[i].op = "attr_iter" /\ End(i)
  /\ UNCHANGED <<there, store, cfds, tree, cache, fd, calls, undef, down, suspect>>

-----------------------------------------------------------------------------
(* Calls the cache passes on: the child changes, the cache does not.       *)
RegexSetAttrs(o, k, v) ==
  /\ ~undef /\ ~down /\ calls < MaxCalls /\ calls' = calls + 1
  /\ {o, Place(o, k)[1]} \subseteq there
  /\ store' = With(store, Place(o, k), v)
  /\ tcall' = Overtake(0, {Place(o, k)})
  /\ suspect' = StillCached(cache, suspect \cup {Place(o, k)})
  /\ UNCHANGED <<there, cfds, tree, cache, fd, undef, down>>

CreateObject(o) ==
  /\ ~undef /\ ~down /\ calls < MaxCalls /\ calls' = calls + 1
  /\ o \notin there /\ Path(o) \ {o} \subseteq there
  /\ there' = there \cup {o} /\ store' = [store EXCEPT ![o] = Made]
  /\ tcall' = Overtake(0, {o} \X AllKeys)
  /\ UNCHANGED <<cfds, tree, cache, fd, undef, down, suspect>>

(* ostc_open_object_fn: a reader of a cached object does not go to the     *)
(* child yet.                                                              *)
OpenObject(f, o, reader) ==
  /\ ~undef /\ ~down /\ fd[f].st = "closed"
  /\ IF reader /\ Walk(o) THEN fd' = [fd EXCEPT ![f] = [st |-> "delayed", o |-> o]] /\ UNCHANGED cfds
     ELSE /\ o \in there
          /\ fd' = [fd EXCEPT ![f] = [st |-> "open", o |-> o]] /\ cfds' = cfds + 1
  /\ UNCHANGED <<there, store, tree, cache, tcall, calls, undef, down, suspect>>

(* ostc_close_object_fn; no call of the owner's is on its way.             *)
CloseObject(f) ==
  /\ ~undef /\ fd[f].st # "closed" /\ \A i \in CacheSlots : f \notin {tcall[i].f, tcall[i].f2}
  /\ cfds' = IF fd[f].st = "open" THEN cfds - 1 ELSE cfds
  /\ fd' = [fd EXCEPT ![f] = [st |-> "closed", o |-> Dir]]
  /\ UNCHANGED <<there, store, tree, cache, tcall, calls, undef, down, suspect>>

(* Time passes; ostc_cache_compact_thread drops what expired               *)
(* (_ostc_cleanup), and objects of which nothing is kept.                  *)
Expire ==
  /\ ~undef /\ ~down
  /\ cache' = [o \in Objs |-> [k \in AllKeys |-> [cache[o][k] EXCEPT !.old = cache[o][k].in]]]
  /\ UNCHANGED <<there, store, cfds, tree, fd, tcall, calls, undef, down, suspect>>

Kept_Swapped(e) == IF e.old THEN e ELSE NoEntry
Kept(e) == IF e.old THEN NoEntry ELSE e
Cleanup ==
  LET c == [o \in Objs |-> [k \in AllKeys |-> Kept(cache[o][k])]]
      holds(o) == \E k \in AllKeys : c[o][k].in
  IN  /\ ~undef /\ ~down
      /\ Cached(c, {o \in tree : \E q \in Below(o) \cap tree : holds(q)})
      /\ Behind(suspect)
      /\ UNCHANGED <<there, store, cfds, fd, tcall, calls, undef, down>>

(* ostc_destroy.                                                           *)
Destroy ==
  /\ ~undef /\ ~down /\ calls = MaxCalls
  /\ \A i \in CacheSlots : tcall[i] = TcIdle
  /\ \A f \in CacheFds : fd[f].st = "closed"
  /\ down' = TRUE /\ Cached(Drop(cache, Objs), {}) /\ Behind({})
  /\ UNCHANGED <<there, store, cfds, fd, tcall, calls, undef>>

Calls(i) ==
  \/ \E f \in CacheFds, k \in Keys : GetAttr(i, f, k)
  \/ \E f \in CacheFds, k \in Keys, v \in Vals \cup {None} : SetAttr(i, f, k, v)
  \/ \E f, f2 \in CacheFds, k, k2 \in Keys : CopyAttr(i, f, k, f2, k2)
  \/ \E o \in Objs, f2 \in CacheFds, k, k2 \in Keys : SymlinkAttr(i, o, k, f2, k2)
  \/ \E f \in CacheFds, k, k2 \in Keys : MoveAttr(i, f, k, k2)
  \/ \E f \in CacheFds : CacheAttrIter(i, f)
  \/ \E o \in Objs : RemoveObject(i, o) \/ MoveObject(i, o) \/ RemoveRegex(i, o)
  \/ \E o \in Objs, k \in Keys : CacheNextObject(i, o, k)

Steps(i) ==
  \/ Fetch(i) \/ PopulatePrefix(i) \/ PrefixPut(i) \/ DelayedOpen(i) \/ InstallChildFd(i)
  \/ GetChild(i) \/ GetPut(i) \/ SetChild(i) \/ SetUpdate(i)
  \/ CopyChild(i) \/ SymlinkChild(i) \/ DropAttr(i) \/ RenameChild(i) \/ RenameMove(i)
  \/ RemoveChild(i) \/ DropObject(i) \/ MoveCached(i) \/ RegexChild(i) \/ RegexPurge(i) \/ AttrIterChild(i)

TcNext ==
  \/ \E i \in CacheSlots : Calls(i) \/ Steps(i)
  \/ \E o \in Objs, k \in Keys, v \in Vals : RegexSetAttrs(o, k, v)
  \/ \E o \in Objs : CreateObject(o)
  \/ \E f \in CacheFds, o \in Objs, reader \in BOOLEAN : OpenObject(f, o, reader)
  \/ \E f \in CacheFds : CloseObject(f)
  \/ Expire \/ Cleanup \/ Destroy

(* The clock runs, and the compaction thread wakes every cleanup_interval. *)
TcFairness == WF_tcvars(Expire) /\ WF_tcvars(Cleanup)

-----------------------------------------------------------------------------
InFlight(p) == \E i \in CacheSlots : tcall[i].pc \in InCache /\ p \in tcall[i].pl

(* What the cache knows of the child is so.  A value it answers is the     *)
(* child's, unless a change in the child overtook another call between its *)
(* two steps, or was made in a way the cache is not told of: with the      *)
(* regex operation, or through an attribute link it has not cached.  And   *)
(* the descriptors it holds in the child are those of its callers: a       *)
(* delayed open that two calls make at once leaves none behind             *)
(* (ostc_get_attrs_fn, ostc_set_attrs_fn, ostc_cache_remove_attrs,         *)
(* ostc_cache_move_attrs, ostc_cache_process_attrs,                        *)
(* ostc_delayed_open_object).                                              *)
ChildFds == Cardinality({f \in CacheFds : fd[f].st = "open"}) + Cardinality({i \in CacheSlots : tcall[i].pc = "install"})
CoherentUnlessRaced ==
  /\ cfds = ChildFds
  /\ ~undef => \A p \in Places :
       LET e == cache[p[1]][p[2]] IN
       e.in /\ p \notin suspect /\ ~InFlight(p) => store[p[1]][p[2]] = e.v

(* Values that fell behind the child's do not stay: no entry's time is     *)
(* renewed, and the compaction thread takes it (_ostc_cleanup).            *)
StaleEntriesGo == (suspect # {}) ~> (suspect = {} \/ undef)
=============================================================================
