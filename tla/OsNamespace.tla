------------------------------ MODULE OsNamespace ------------------------------
(***************************************************************************)
(* Namespace and attributes of the file object service (os_file.c).  An    *)
(* object is a proxy in the local file system and a directory of           *)
(* attributes: of a file or link p it is an entry of the parent's          *)
(* attribute directory, of a directory p it lies inside p.  Hard-linked    *)
(* names share a proxy and an attribute directory kept in a separate hard  *)
(* link area.  An operation of a thread of the pool is several system      *)
(* calls; the lock of an object is one of a table, chosen by a hash of its *)
(* path.  Threads interleave between system calls and the service may      *)
(* crash between any two; fsck is what repairs the tree.                   *)
(*                                                                         *)
(* Abstracted: authorisation (it grants everything), the buffers of the    *)
(* callers, names through symlinked directories; the object locks held by  *)
(* open descriptors are the module OsFileLocks.                            *)
(***************************************************************************)
EXTENDS Integers, Sequences, FiniteSets, SequencesExt, FiniteSetsExt, TLC

CONSTANTS
  Paths,        \* the paths of the tree, sequences of names: the root <<>> and two levels
  Keys,         \* attribute names
  Vals,         \* attribute values
  Threads,
  SlotOf(_),    \* osf_retrieve_lock: the slot of a path's hash
  SeedFile, SeedName,   \* paths of a file, and of its second name, in an initial tree
  MaxOps,       \* bound: operations started
  MaxHard,      \* bound: hard-link proxies made
  Crashes,      \* may the service crash?
  AbortEvery    \* a bulk operation polls its abort flag that often (20 in the code)

ASSUME NamespaceAssumption ==
  /\ <<>> \in Paths /\ IsFiniteSet(Paths) /\ IsFiniteSet(Keys) /\ IsFiniteSet(Vals)
  /\ \A p \in Paths : SlotOf(<<"obj", p>>) \in Nat /\ SlotOf(<<"full", p>>) \in Nat
  /\ \A h \in 1 .. MaxHard : SlotOf(<<"hard", h>>) \in Nat
  /\ MaxOps \in Nat /\ MaxHard \in Nat /\ AbortEvery \in Nat \ {0} /\ Crashes \in BOOLEAN

VARIABLES
  fs,       \* the local file system below osf->base_path
  th,       \* th[t]: the operation thread t is in
  ops,      \* operations started
  done,     \* history: the operation that just finished, with the view it started from
  tainted,  \* history: related operations overlapped, a crash, or a known defect
  checked   \* history: the directory fsck has just repaired, and how often

vars == <<fs, th, ops, done, tainted, checked>>

Root == <<>>
Up(p) == Front(p)
Under(d) == {p \in Paths : IsPrefix(d, p)}
Children(d) == {p \in Under(d) : Len(p) = Len(d) + 1}
Rebase(p, d, e) == e \o SubSeq(p, Len(d) + 1, Len(p))
NoPath == <<"-", "-", "-">>
Unchecked == [dir |-> NoPath, passes |-> 0]

None == <<"none">>
Dir == <<"dir">>
NoAttrs == [k \in Keys |-> None]
Bare == <<"dir", NoAttrs>>            \* an attribute directory just made

-----------------------------------------------------------------------------
(* The local file system: entries of the tree (node), the attribute        *)
(* directories of files (fa) and of directories (da), the hard-link area.  *)

NLink(f, i) ==
  Cardinality({p \in Paths : f.node[p] = <<"file", i>>})
  + Cardinality({h \in 1 .. MaxHard : f.hard[h].node = <<"file", i>>})
FreshInode(f) == CHOOSE i \in 1 .. Cardinality(Paths) + MaxHard : NLink(f, i) = 0
FreshHard(f) == {h \in 1 .. MaxHard : f.hard[h].node = None /\ f.hard[h].fa = None}

IsDir(f, p) == f.node[p] = Dir
IsLink(f, p) == f.node[p][1] = "link"
Hop(f, p) == IF p # NoPath /\ IsLink(f, p) THEN f.node[p][2] ELSE p
Target(f, p) == LET q == Hop(f, Hop(f, Hop(f, p))) IN IF IsLink(f, q) THEN NoPath ELSE q

FaRoom(f, p) == IsDir(f, Up(p)) /\ f.da[Up(p)] # None

(* os_local_filetype.                                                      *)
KindBits(f, n) == CASE n = Dir -> {"dir"}
                    [] n[1] = "file" -> {"file"} \cup IF NLink(f, n[2]) > 1 THEN {"hard"} ELSE {}
                    [] OTHER -> {"file", "broken"}
LinkBits(f, q) == {"sym"} \cup IF q = NoPath THEN {"file", "broken"} ELSE KindBits(f, f.node[q])
FType(f, p) ==
  IF f.node[p] = None THEN {}
  ELSE IF IsLink(f, p) THEN LinkBits(f, Target(f, p)) ELSE KindBits(f, f.node[p])

(* fopen for writing: an existing file is opened, a dangling link followed.*)
Fopen(f, p) ==
  LET q == Target(f, p)
      ok == q # NoPath /\ q # Root /\ IsDir(f, Up(q)) /\ ~IsDir(f, q)
  IN  [ok |-> ok, f |-> IF ok /\ f.node[q] = None
                        THEN [f EXCEPT !.node[q] = <<"file", FreshInode(f)>>] ELSE f]

(* remove: a file, a link, or a directory with nothing left in it.         *)
Unlink(f, p) ==
  IF IsDir(f, p) /\ (f.da[p] # None \/ \E c \in Children(p) : f.node[c] # None)
  THEN f ELSE [f EXCEPT !.node[p] = None]

(* rename of a file or of a directory with all it holds.                   *)
Movable(f, p, q) ==
  /\ f.node[p] # None /\ IsDir(f, Up(q))
  /\ IF IsDir(f, p)
     THEN /\ ~IsPrefix(p, q)
          /\ \/ f.node[q] = None
             \/ IsDir(f, q) /\ f.da[q] = None /\ \A c \in Children(q) : f.node[c] = None
     ELSE ~IsDir(f, q)
MoveTree(f, p, q) ==
  LET gone(r) == IsPrefix(p, r)
      came(r) == IsPrefix(q, r) /\ Rebase(r, q, p) \in Paths
      moved(m, r, whole) == IF came(r) /\ (whole \/ r # q) THEN m[Rebase(r, q, p)]
                            ELSE IF gone(r) /\ (whole \/ r # p) THEN None ELSE m[r]
  IN  [f EXCEPT !.node = [r \in Paths |-> moved(f.node, r, TRUE)],
                !.da = [r \in Paths |-> moved(f.da, r, TRUE)],
                !.fa = [r \in Paths |-> moved(f.fa, r, FALSE)]]
RenameNode(f, p, q) ==
  IF IsDir(f, p) THEN MoveTree(f, p, q)
  ELSE IF f.node[p] = f.node[q] THEN f          \* two names of one file: nothing is done
  ELSE [f EXCEPT !.node[q] = f.node[p], !.node[p] = None]

(* rename of a file's attribute directory: onto a full directory or from a *)
(* directory to a link and back it fails.                                  *)
FaMovable(f, p, q) ==
  /\ f.fa[p] # None /\ FaRoom(f, q)
  /\ \/ f.fa[q] = None
     \/ f.fa[q] = Bare /\ f.fa[p][1] = "dir"
     \/ f.fa[q][1] = "hard" /\ f.fa[p][1] = "hard"

-----------------------------------------------------------------------------
(* Attributes.                                                             *)

(* object_attr_dir: where the attributes of an object of this type are.    *)
AttrDir(p, type) == IF type \cap {"file", "sym"} # {} THEN <<"fa", p>> ELSE <<"da", p>>

Holder(f, l) ==
  IF l[1] = "da" THEN f.da[l[2]]
  ELSE IF l[2] # Root /\ FaRoom(f, l[2])
  THEN LET a == f.fa[l[2]] IN IF a[1] = "hard" THEN f.hard[a[2]].fa ELSE a
  ELSE None

Entry(a, k) == IF a = None THEN None ELSE a[2][k]
Raw(f, l, k) == Entry(Holder(f, l), k)
Put(f, l, k, v) ==
  IF l[1] = "da" THEN [f EXCEPT !.da[l[2]][2][k] = v]
  ELSE IF f.fa[l[2]][1] = "hard" THEN [f EXCEPT !.hard[f.fa[l[2]][2]].fa[2][k] = v]
  ELSE [f EXCEPT !.fa[l[2]][2][k] = v]

(* osf_resolve_attr_path: an attribute that is a link names an object and  *)
(* a key; a second link is looked for as if its object were a file.        *)
HopTo(f, x, v, type) ==
  IF type = {} THEN [x EXCEPT !.bad = TRUE]
  ELSE IF Raw(f, AttrDir(v[2], type), v[3])[1] = "link" THEN [x EXCEPT !.l = <<"fa", v[2]>>, !.k = v[3]]
  ELSE [x EXCEPT !.l = AttrDir(v[2], type), !.k = v[3]]
AttrHop(f, x) ==
  LET v == Raw(f, x.l, x.k) IN IF x.bad \/ v[1] # "link" THEN x ELSE HopTo(f, x, v, FType(f, v[2]))
ResolveAttr(f, p, k, type) ==
  AttrHop(f, AttrHop(f, AttrHop(f, [l |-> AttrDir(p, type), k |-> k, bad |-> FALSE])))

(* osf_get_attr.                                                           *)
GetAt(f, x) ==
  LET v == Raw(f, x.l, x.k) IN IF x.bad \/ v[1] = "link" THEN None ELSE v
GetAttr(f, p, k, type) == GetAt(f, ResolveAttr(f, p, k, type))

(* osf_get_multiple_attr_fn: the keys one by one; one that is missing does *)
(* not fail the others.                                                    *)
GetAttrs(f, p, type) == [k \in Keys |-> GetAttr(f, p, k, type)]

(* osf_set_attr with a value: through links, opening the file that holds it*)
SetAt(f, x, v) ==
  LET ok == ~x.bad /\ Holder(f, x.l) # None /\ Raw(f, x.l, x.k)[1] # "link"
  IN  [ok |-> ok, f |-> IF ok THEN Put(f, x.l, x.k, v) ELSE f]
SetAttr(f, p, k, type, v) == SetAt(f, ResolveAttr(f, p, k, type), v)

(* ... and without one: the link itself is removed.                        *)
RemoveAttr(f, p, k, type) ==
  LET l == AttrDir(p, type)
  IN  [ok |-> TRUE, f |-> IF Holder(f, l) # None THEN Put(f, l, k, None) ELSE f]

(* Virtual attributes: os.type, os.link, os.link_count, os.attr_type.*,    *)
(* os.attr_link.*, and the setters os.timestamp.* and os.append.*; the     *)
(* latter writes an uninitialised buffer after the value.                  *)
VaType(f, p) == FType(f, p) \ {"hard"}
VaLink(f, p) == IF IsLink(f, p) THEN f.node[p][2] ELSE NoPath
VaLinkCount(f, p) ==
  LET n == f.node[p] IN
  IF n[1] = "file" /\ NLink(f, n[2]) > 1 THEN NLink(f, n[2]) - 1 ELSE 1
VaAttrType(f, p, k) == Raw(f, AttrDir(p, FType(f, p)), k)[1]
VaAttrLink(f, p, k) ==
  LET v == Raw(f, AttrDir(p, FType(f, p)), k) IN IF v[1] = "link" THEN Tail(v) ELSE <<>>
VaTimestamp(v) == <<"val", v, "stamped">>
VaAppend(old) == <<"val", old, "junk">>

(* What a client sees of the tree: each name with its type, its link's     *)
(* target, the names of the same file, and its attributes.                 *)
Same(f, p) == IF f.node[p][1] = "file" THEN {q \in Paths : f.node[q] = f.node[p]} ELSE {p}
View(f) ==
  [p \in {q \in Paths : f.node[q] # None} |->
     [type |-> IF IsLink(f, p) THEN {"sym"} ELSE VaType(f, p), to |-> VaLink(f, p), same |-> Same(f, p),
      at |-> [k \in Keys |-> IF VaAttrType(f, p, k) = "link" THEN <<"link">> \o VaAttrLink(f, p, k)
                             ELSE GetAttrs(f, p, FType(f, p))[k]]]]

-----------------------------------------------------------------------------
(* Every proxy has its attribute directory and every attribute directory   *)
(* its proxy; names of one file share theirs.                              *)

Paired(f, p) ==
  CASE f.node[p] = None -> f.fa[p] = None /\ f.da[p] = None
    [] f.node[p] = Dir -> f.da[p] # None /\ f.fa[p] = None
    [] OTHER -> f.fa[p] # None /\ f.da[p] = None
WellFormedUnder(f, d) == \A p \in Under(d) : Paired(f, p)

HardPaired(f) ==
  \A h \in 1 .. MaxHard :
    LET names == {p \in Paths : f.fa[p] = <<"hard", h>>}
    IN  /\ (f.hard[h].node = None) <=> (f.hard[h].fa = None)
        /\ (f.hard[h].node # None) <=> (names # {})
        /\ \A p \in Paths : (f.node[p] = f.hard[h].node /\ f.node[p] # None) <=> p \in names
WellFormed(f) == WellFormedUnder(f, Root) /\ HardPaired(f)

-----------------------------------------------------------------------------
(* Threads.                                                                *)

Idle == [pc |-> "idle", op |-> "", p |-> NoPath, q |-> NoPath, type |-> {}, k |-> "", k2 |-> "", v |-> None,
         h |-> 0, held |-> {}, alone |-> TRUE, quirk |-> FALSE, was |-> <<>>,
         locks |-> <<>>, tree |-> NoPath, left |-> {}, count |-> 0, ok |-> TRUE]

At(t, pc) == th[t].pc = pc
Busy == {t \in Threads : th[t].pc # "idle"}
Lock(p) == SlotOf(<<"obj", p>>)
Free(s) == \A t \in Threads : s \notin th[t].held
Step(t, f, r) == fs' = f /\ th' = [th EXCEPT ![t] = r] /\ UNCHANGED <<ops, done, tainted, checked>>

(* The lock of an object is one mutex of a table.                          *)
Goto(t, pc) == [th[t] EXCEPT !.pc = pc]
Locking(t, s, pc) == [th[t] EXCEPT !.pc = pc, !.held = th[t].held \cup {s}]

(* An operation ends: its locks are released and its result is known; a    *)
(* bulk removal goes on with its next object.                              *)
Finish(t, f, ok) ==
  IF th[t].tree # NoPath /\ th[t].op = "remove"
  THEN Step(t, f, [th[t] EXCEPT !.pc = "next", !.op = "remove_regex", !.held = {}, !.ok = th[t].ok /\ ok])
  ELSE /\ fs' = f
       /\ th' = [th EXCEPT ![t] = Idle]
       /\ done' = IF th[t].alone THEN {[th[t] EXCEPT !.ok = ok]} ELSE {}
       /\ tainted' = (tainted \/ th[t].quirk)
       /\ UNCHANGED <<ops, checked>>

(* Two operations are related when a path of one is a path of the other,   *)
(* or above it, or they share a hard-linked file.                          *)
Touches(f, r) ==
  LET ps == {r.p, r.q, r.tree} \ {NoPath}
  IN  ps \cup {p \in Paths : \E a \in ps : f.node[a] = f.node[p] /\ f.node[a][1] = "file"}
Related(f, r, s) == \E a \in Touches(f, r), b \in Touches(f, s) : IsPrefix(a, b) \/ IsPrefix(b, a)

(* Requests the code is known to treat badly, excluded from the claims     *)
(* below: a create over an existing file or link removes its proxy, a move *)
(* over one leaves the old attributes, a symbolic link to a hard-linked    *)
(* file keeps its attributes when removed, a hard link of a symbolic link. *)
Known(f, r) ==
  \/ r.op \in {"create", "symlink"} /\ f.node[IF r.op = "create" THEN r.p ELSE r.q][1] \in {"file", "link"}
  \/ r.op = "move" /\ f.node[r.q] # None
  \/ r.op = "remove" /\ {"sym", "hard"} \subseteq FType(f, r.p)
  \/ r.op = "hardlink" /\ "sym" \in FType(f, r.p)
  \/ r.op = "remove_regex" /\ \E p \in Under(r.p) : {"sym", "hard"} \subseteq FType(f, p)

Start(t, r) ==
  LET related == {u \in Busy : Related(fs, r, th[u])}
      mine == [r EXCEPT !.alone = Busy = {}, !.quirk = Known(fs, r),
                        !.was = IF Busy = {} THEN View(fs) ELSE <<>>]
  IN  /\ At(t, "idle") /\ ops < MaxOps
      /\ ops' = ops + 1
      /\ th' = [u \in Threads |-> IF u = t THEN mine
                                  ELSE IF u \in Busy THEN [th[u] EXCEPT !.alone = FALSE, !.was = <<>>]
                                  ELSE th[u]]
      /\ tainted' = (tainted \/ related # {})
      /\ done' = {} /\ checked' = Unchecked
      /\ UNCHANGED fs

-----------------------------------------------------------------------------
(* osfile_create_object_fn: the proxy, then its attribute directory; when  *)
(* that cannot be made the proxy goes again.                               *)
CreateProxy(t) ==
  LET r == th[t]
      p == IF r.op = "symlink" THEN r.q ELSE r.p
      made == IF r.op # "mkdir" THEN Fopen(fs, p)
              ELSE [ok |-> IsDir(fs, Up(p)) /\ fs.node[p] = None, f |-> [fs EXCEPT !.node[p] = Dir]]
  IN  /\ At(t, "create") /\ Free(Lock(p))
      /\ IF made.ok THEN Step(t, made.f, Locking(t, Lock(p), "create_attr"))
         ELSE Finish(t, fs, FALSE)

CreateAttrDir(t) ==
  LET r == th[t]
      p == IF r.op = "symlink" THEN r.q ELSE r.p
      ok == IF r.op = "mkdir" THEN IsDir(fs, p) /\ fs.da[p] = None
            ELSE FaRoom(fs, p) /\ fs.fa[p] = None
      made == IF r.op = "mkdir" THEN [fs EXCEPT !.da[p] = Bare] ELSE [fs EXCEPT !.fa[p] = Bare]
  IN  /\ At(t, "create_attr")
      /\ IF ~ok THEN Finish(t, Unlink(fs, p), FALSE)
         ELSE IF r.op = "symlink" THEN Step(t, made, [Goto(t, "sym_remove") EXCEPT !.held = {}])
         ELSE Finish(t, made, TRUE)

(* osfile_symlink_object_fn: the placeholder made by the create is removed *)
(* and the link put in its place, both without the lock.                   *)
SymlinkRemove(t) ==
  At(t, "sym_remove") /\ Step(t, Unlink(fs, th[t].q), Goto(t, "sym_link"))

SymlinkMake(t) ==
  LET r == th[t]
      ok == IsDir(fs, Up(r.q)) /\ fs.node[r.q] = None
  IN  /\ At(t, "sym_link")
      /\ Finish(t, IF ok THEN [fs EXCEPT !.node[r.q] = <<"link", r.p>>] ELSE fs, ok)

-----------------------------------------------------------------------------
(* osfile_remove_object_fn and osf_object_remove.                          *)
IsEmpty(f, p) == \A c \in Children(p) : f.node[c] = None

RemoveCheck(t) ==
  LET p == th[t].p
      type == FType(fs, p)
  IN  /\ At(t, "remove") /\ Free(Lock(p))
      /\ IF type \cap {"file", "sym"} # {} THEN Step(t, fs, Locking(t, Lock(p), "rm_proxy"))
         ELSE IF type = {"dir"} /\ IsEmpty(fs, p) THEN Step(t, fs, Locking(t, Lock(p), "rm_purge"))
         ELSE Finish(t, fs, FALSE)

(* The last of several names of a file takes the hard-link proxy with it.  *)
LastName_OffByOne(f, p, type) ==
  "hard" \in type /\ f.node[p][1] = "file" /\ NLink(f, f.node[p][2]) <= 3
LastName(f, p, type) ==
  LET q == Target(f, p) IN
  "hard" \in type /\ q # NoPath /\ f.node[q][1] = "file" /\ NLink(f, f.node[q][2]) <= 2

RemoveProxy(t) ==
  LET p == th[t].p
      type == FType(fs, p)
      h == IF LastName(fs, p, type) /\ fs.fa[p][1] = "hard" THEN fs.fa[p][2] ELSE 0
  IN  /\ At(t, "rm_proxy")
      /\ Step(t, Unlink(fs, p), [Goto(t, IF "hard" \in type THEN "rm_link" ELSE "rm_attr") EXCEPT !.h = h])

(* osf_purge_dir on the attributes (through a link, if that is what is     *)
(* there), then the directory or the link itself; only the link goes, or   *)
(* an empty directory, when the name was one of several.                   *)
RemoveAttrDir_KeepsFull(t) ==
  LET r == th[t]
      kept == fs.fa[r.p][1] = "dir" /\ fs.fa[r.p] # Bare
      swept == IF kept THEN fs ELSE [fs EXCEPT !.fa[r.p] = None]
  IN  /\ r.pc \in {"rm_attr", "rm_link"}
      /\ Finish(t, IF r.h = 0 THEN swept ELSE [swept EXCEPT !.hard[r.h] = [node |-> None, fa |-> None]], TRUE)
RemoveAttrDir(t) ==
  LET r == th[t]
      a == fs.fa[r.p]
      purged == IF r.pc = "rm_link" \/ a[1] # "hard" THEN fs
                ELSE [fs EXCEPT !.hard[a[2]].fa = IF fs.hard[a[2]].fa = None THEN None ELSE Bare]
      kept == r.pc = "rm_link" /\ a[1] = "dir" /\ a # Bare
      swept == IF kept THEN fs ELSE [purged EXCEPT !.fa[r.p] = None]
  IN  /\ r.pc \in {"rm_attr", "rm_link"}
      /\ Finish(t, IF r.h = 0 THEN swept ELSE [swept EXCEPT !.hard[r.h] = [node |-> None, fa |-> None]], TRUE)

(* A directory: the files in it and everything in its attribute directory, *)
(* then the directory, which stays when something was made in it meanwhile *)
(* and is reported removed all the same.                                   *)
RemoveDirPurge(t) ==
  LET p == th[t].p
      inside == Children(p)
  IN  /\ At(t, "rm_purge")
      /\ Step(t, [fs EXCEPT !.node = [q \in Paths |-> IF q \in inside /\ ~IsDir(fs, q) THEN None ELSE fs.node[q]],
                            !.fa = [q \in Paths |-> IF q \in inside THEN None ELSE fs.fa[q]],
                            !.da[p] = None],
                 Goto(t, "rm_dir"))

RemoveDir(t) == At(t, "rm_dir") /\ Finish(t, Unlink(fs, th[t].p), TRUE)

(* osf_next_object: what is in a directory comes before the directory; the *)
(* walk sees entries as they are when it gets to them.                     *)
Walk(d) == Under(d)
Pending(f, d, left) ==
  {p \in left : f.node[p] # None /\ \A c \in Under(p) \ {p} : c \notin left \/ f.node[c] = None}

(* osfile_remove_regex_fn: removes the objects of a tree one by one; the   *)
(* abort flag it polls was never initialised.                              *)
RemoveRegexNext(t) ==
  LET r == th[t] IN
  /\ At(t, "next")
  /\ \/ \E p \in Pending(fs, r.tree, r.left) :
          Step(t, fs, [r EXCEPT !.pc = "remove", !.op = "remove", !.p = p, !.left = r.left \ {p}, !.count = r.count + 1])
     \/ Pending(fs, r.tree, r.left) = {} /\ Finish(t, fs, r.ok)
     \/ r.count >= AbortEvery /\ r.left # {} /\ Finish(t, fs, FALSE)

-----------------------------------------------------------------------------
(* osfile_move_object_fn: proxy and attributes in two renames, no lock.    *)
MoveProxy(t) ==
  LET r == th[t]
      file == FType(fs, r.p) \cap {"file", "sym"} # {}
  IN  /\ At(t, "move")
      /\ IF ~Movable(fs, r.p, r.q) THEN Finish(t, fs, FALSE)
         ELSE IF file THEN Step(t, RenameNode(fs, r.p, r.q), Goto(t, "move_attr"))
         ELSE Finish(t, RenameNode(fs, r.p, r.q), TRUE)

MoveAttrDir(t) ==
  LET r == th[t] IN
  /\ At(t, "move_attr")
  /\ IF FaMovable(fs, r.p, r.q)
     THEN Finish(t, [fs EXCEPT !.fa[r.q] = fs.fa[r.p], !.fa[r.p] = None], TRUE)
     ELSE Finish(t, fs, FALSE)

-----------------------------------------------------------------------------
(* osf_file2hardlink: four calls turn a file into a hard link; each may    *)
(* fail, none is undone.                                                   *)
Conversion(f, r) ==
  CASE r.pc = "conv_attr" -> [ok |-> FaRoom(f, r.p) /\ f.fa[r.p][1] = "dir" /\ f.hard[r.h].fa = None,
                              f |-> [f EXCEPT !.hard[r.h].fa = f.fa[r.p], !.fa[r.p] = None]]
    [] r.pc = "conv_link" -> [ok |-> FaRoom(f, r.p) /\ f.fa[r.p] = None,
                              f |-> [f EXCEPT !.fa[r.p] = <<"hard", r.h>>]]
    [] r.pc = "conv_move" -> [ok |-> f.node[r.p] # None /\ f.node[r.p] # Dir,
                              f |-> [f EXCEPT !.hard[r.h].node = f.node[r.p], !.node[r.p] = None]]
    [] r.pc = "conv_name" -> [ok |-> IsDir(f, Up(r.p)) /\ f.node[r.p] = None,
                              f |-> [f EXCEPT !.node[r.p] = f.hard[r.h].node]]
AfterConversion ==
  [pc \in {"conv_attr", "conv_link", "conv_move", "conv_name"} |->
     CASE pc = "conv_attr" -> "conv_link" [] pc = "conv_link" -> "conv_move"
       [] pc = "conv_move" -> "conv_name" [] OTHER -> "hard_find"]

HardlinkConvert(t) ==
  LET c == Conversion(fs, th[t]) IN
  /\ th[t].pc \in DOMAIN AfterConversion
  /\ IF c.ok THEN Step(t, c.f, Goto(t, AfterConversion[th[t].pc])) ELSE Finish(t, fs, FALSE)

(* osfile_hardlink_object_fn; resolve_hardlink reads the proxy off the     *)
(* attribute link.                                                         *)
HardlinkType(t) ==
  LET r == th[t]
      type == FType(fs, r.p)
  IN  /\ At(t, "hardlink")
      /\ IF type = {} THEN Finish(t, fs, FALSE)
         ELSE IF "hard" \in type THEN Step(t, fs, Goto(t, "hard_find"))
         ELSE \E h \in FreshHard(fs) : Step(t, fs, [Goto(t, "conv_attr") EXCEPT !.h = h])

HardlinkFind(t) ==
  LET a == fs.fa[th[t].p] IN
  /\ At(t, "hard_find")
  /\ \/ \E h \in 1 .. MaxHard : a = <<"hard", h>> /\ Step(t, fs, [Goto(t, "hard_lock") EXCEPT !.h = h])
     \/ a[1] # "hard" /\ Finish(t, fs, FALSE)

(* The two locks in the order of their slots; the one of the new name is   *)
(* taken by its full local path, which no other operation uses.            *)
HardLocks(t) == {SlotOf(<<"hard", th[t].h>>), SlotOf(<<"full", th[t].q>>)}
Lowest(S) == CHOOSE s \in S : \A u \in S : s <= u

HardlinkLock(t) ==
  LET s == Lowest(HardLocks(t) \ th[t].held) IN
  /\ At(t, "hard_lock") /\ Free(s)
  /\ Step(t, fs, Locking(t, s, IF HardLocks(t) \subseteq th[t].held \cup {s} THEN "hard_name" ELSE "hard_lock"))

HardlinkName(t) ==
  LET r == th[t] IN
  /\ At(t, "hard_name")
  /\ IF fs.hard[r.h].node # None /\ IsDir(fs, Up(r.q)) /\ fs.node[r.q] = None
     THEN Step(t, [fs EXCEPT !.node[r.q] = fs.hard[r.h].node], Goto(t, "hard_attr"))
     ELSE Finish(t, fs, FALSE)

HardlinkAttr(t) ==
  LET r == th[t] IN
  /\ At(t, "hard_attr")
  /\ IF FaRoom(fs, r.q) /\ fs.fa[r.q] = None
     THEN Finish(t, [fs EXCEPT !.fa[r.q] = <<"hard", r.h>>], TRUE)
     ELSE Finish(t, Unlink(fs, r.q), FALSE)

-----------------------------------------------------------------------------
(* Attribute operations work through a descriptor: osfile_open_object_fn   *)
(* keeps the path and the type the object had then, and is refused when    *)
(* there is none; osfile_close_object_fn drops it.                         *)
OpenFor(t, r) == FType(fs, r.p) # {} /\ Start(t, [r EXCEPT !.type = FType(fs, r.p)])

(* osf_multi_lock: the object's lock, then one for every attribute that is *)
(* a link.  The path of a link's object is cut at a newline it never has,  *)
(* so all of these are the lock of the empty path.                         *)
MultiLocks(t) ==
  LET r == th[t]
      linked == Raw(fs, AttrDir(r.p, r.type), r.k)[1] = "link"
  IN  IF linked /\ Lock(Root) # Lock(r.p) THEN <<Lock(r.p), Lock(Root)>> ELSE <<Lock(r.p)>>

MultiGather(t) == At(t, "attr") /\ Step(t, fs, [Goto(t, "attr_lock") EXCEPT !.locks = MultiLocks(t)])

(* The list was made without a lock.  The loop that should take the        *)
(* smallest slot next compares the wrong index: they are taken in list     *)
(* order.                                                                  *)
MultiLock(t) ==
  LET want == th[t].locks IN
  /\ At(t, "attr_lock") /\ Free(want[1])
  /\ Step(t, fs, [Locking(t, want[1], IF Len(want) = 1 THEN "attr_set" ELSE "attr_lock")
                    EXCEPT !.locks = Tail(want)])

(* osf_set_multiple_attr_fn, plain, or through os.timestamp and os.append. *)
SetTo(r) ==
  CASE r.op = "stamp" -> VaTimestamp(r.v)
    [] r.op = "append" -> VaAppend(GetAttr(fs, r.p, r.k, r.type))
    [] OTHER -> r.v
SetOne(r) ==
  IF r.v = None /\ r.op = "set" THEN RemoveAttr(fs, r.p, r.k, r.type) ELSE SetAttr(fs, r.p, r.k, r.type, SetTo(r))
SetAttrs(t) == At(t, "attr_set") /\ \E s \in {SetOne(th[t])} : Finish(t, s.f, s.ok)

(* osfile_regex_object_set_multiple_attrs_fn: the same for every object of *)
(* a tree, each opened, set and closed; what fails is counted.             *)
SetRegexNext(t) ==
  LET r == th[t] IN
  /\ At(t, "next_set")
  /\ \/ \E p \in Pending(fs, r.tree, r.left) :
          /\ Free(Lock(p))
          /\ \E s \in {SetAttr(fs, p, r.k, FType(fs, p), r.v)} :
               Step(t, s.f, [r EXCEPT !.left = r.left \ {p}, !.ok = r.ok /\ s.ok])
     \/ Pending(fs, r.tree, r.left) = {} /\ Finish(t, fs, r.ok)

(* osfile_copy_multiple_attrs_fn: both locks in the order of their slots.  *)
CopyLocks(t) == {Lock(th[t].p), Lock(th[t].q)}
NextCopyLock_SourceFirst(t) == IF Lock(th[t].p) \in th[t].held THEN Lock(th[t].q) ELSE Lock(th[t].p)
NextCopyLock(t) == Lowest(CopyLocks(t) \ th[t].held)
CopyLock(t) ==
  LET s == NextCopyLock(t) IN
  /\ At(t, "copy") /\ Free(s)
  /\ Step(t, fs, Locking(t, s, IF CopyLocks(t) \subseteq th[t].held \cup {s} THEN "copy_set" ELSE "copy"))

CopyTo(f, p, k, type, v) ==
  IF v = None \/ type = {} THEN [ok |-> FALSE, f |-> f] ELSE SetAttr(f, p, k, type, v)
CopyAttrs(t) ==
  LET r == th[t] IN
  /\ At(t, "copy_set")
  /\ \E s \in {CopyTo(fs, r.q, r.k, FType(fs, r.q), GetAttr(fs, r.p, r.k, r.type))} : Finish(t, s.f, s.ok)

(* osfile_symlink_multiple_attrs_fn: an attribute that names another.      *)
SymlinkAttrs(t) ==
  LET r == th[t]
      l == AttrDir(th[t].p, th[t].type)
      ok == Holder(fs, l) # None /\ Raw(fs, l, r.k) = None
  IN  /\ At(t, "attr_link") /\ Free(Lock(th[t].p))
      /\ Finish(t, IF ok THEN Put(fs, l, r.k, <<"link", r.q, r.k2>>) ELSE fs, ok)

(* osfile_move_multiple_attrs_fn: the attribute file is renamed.           *)
MoveAttrs(t) ==
  LET r == th[t]
      l == AttrDir(th[t].p, th[t].type)
      ok == Raw(fs, l, r.k) # None
  IN  /\ At(t, "attr_move") /\ Free(Lock(th[t].p))
      /\ Finish(t, IF ok THEN Put(Put(fs, l, r.k2, Raw(fs, l, r.k)), l, r.k, None) ELSE fs, ok)

-----------------------------------------------------------------------------
(* fsck, while nothing else runs: the walk visits the objects below a      *)
(* directory, the directory, and the names its attribute directories hold. *)

(* osf_object_remove of an object as it stands.                            *)
RemoveNow(f, p) ==
  LET u == Unlink(f, p) IN
  IF f.fa[p][1] = "hard" /\ f.hard[f.fa[p][2]].fa # None
  THEN [u EXCEPT !.fa[p] = None, !.hard[f.fa[p][2]].fa = Bare]
  ELSE [u EXCEPT !.fa[p] = None]

(* osf_fsck_check_file.                                                    *)
FsckFile_ProxyOnly(f, p, fix) == IF f.node[p] = None /\ fix = "repair" THEN Fopen(f, p).f ELSE f
FsckFileAttrs(f, p, fix) ==
  IF f.fa[p] # None /\ ~(f.fa[p][1] = "hard" /\ f.hard[f.fa[p][2]].fa = None) THEN f
  ELSE IF fix = "remove" THEN RemoveNow(f, p)
  ELSE IF f.fa[p] = None /\ FaRoom(f, p) THEN [f EXCEPT !.fa[p] = Bare] ELSE f
FsckFile(f, p, fix) ==
  IF f.node[p] = None /\ fix = "remove" THEN RemoveNow(f, p)
  ELSE FsckFileAttrs(IF f.node[p] = None THEN Fopen(f, p).f ELSE f, p, fix)

(* osf_fsck_check_dir: the removal is given a path without the prefix of   *)
(* the tree and finds nothing.                                             *)
FsckDir(f, p, fix) ==
  IF f.da[p] # None \/ fix = "remove" THEN f ELSE [f EXCEPT !.da[p] = Bare]

(* osf_next_fsck: objects of the walk, directories with what is in them    *)
(* first, then the entries of their attribute directories.                 *)
FsckOne(f, p, fix) ==
  IF IsDir(f, p) THEN FsckDir(f, p, fix)
  ELSE IF f.node[p] # None \/ f.fa[p] # None THEN FsckFile(f, p, fix) ELSE f
FsckEntries(f, d, fix) ==
  FoldSet(LAMBDA p, g : IF ~IsDir(g, p) /\ g.fa[p] # None THEN FsckFile(g, p, fix) ELSE g, f, Children(d))
FsckWalk(f, d, fix) ==
  LET below == FoldSet(LAMBDA p, g : IF g.node[p] # None THEN FsckOne(g, p, fix) ELSE g, f, Under(d) \ {d})
      dirs == {p \in Under(d) : IsDir(below, p)}
      self == FsckDir(below, d, fix)
  IN  FoldSet(LAMBDA p, g : FsckEntries(g, p, fix), self, dirs)

Fsck(d, fix) ==
  /\ Busy = {} /\ d # Root /\ IsDir(fs, d) /\ tainted
  /\ checked.passes < 2 /\ checked.dir \in {NoPath, d}
  /\ fs' = FsckWalk(fs, d, fix)
  /\ checked' = IF fix = "repair" THEN [dir |-> d, passes |-> checked.passes + 1] ELSE Unchecked
  /\ done' = {} /\ UNCHANGED <<th, ops, tainted>>

(* The process dies: threads, locks and descriptors are gone.              *)
Crash ==
  /\ Crashes /\ Busy # {}
  /\ th' = [t \in Threads |-> Idle]
  /\ tainted' = TRUE /\ done' = {} /\ checked' = Unchecked
  /\ UNCHANGED <<fs, ops>>

-----------------------------------------------------------------------------
Clean ==
  [node |-> [p \in Paths |-> IF p = Root THEN Dir ELSE None],
   fa |-> [p \in Paths |-> None],
   da |-> [p \in Paths |-> IF p = Root THEN Bare ELSE None],
   hard |-> [h \in 1 .. MaxHard |-> [node |-> None, fa |-> None]]]

(* The service starts on an empty tree, on one with a file in a directory, *)
(* or on one where that file has a second name.                            *)
Seeded(p, q) ==
  LET at == <<"dir", [k \in Keys |-> <<"val", CHOOSE v \in Vals : TRUE>>]>>
      one == [Clean EXCEPT !.node[Up(p)] = Dir, !.da[Up(p)] = Bare, !.node[p] = <<"file", 1>>, !.fa[p] = at]
  IN  {one, [one EXCEPT !.node[q] = <<"file", 1>>, !.fa[p] = <<"hard", 1>>, !.fa[q] = <<"hard", 1>>,
                        !.hard[1] = [node |-> <<"file", 1>>, fa |-> at]]}

Init ==
  /\ fs \in {Clean} \cup Seeded(SeedFile, SeedName)
  /\ th = [t \in Threads |-> Idle]
  /\ ops = 0 /\ done = {} /\ tainted = FALSE /\ checked = Unchecked

Named(p) == p # Root /\ IsDir(fs, Up(p))
Call(t) ==
  \/ \E p \in Paths : Named(p) /\
       \/ \E op \in {"create", "mkdir"} : Start(t, [Idle EXCEPT !.op = op, !.pc = "create", !.p = p])
       \/ Start(t, [Idle EXCEPT !.op = "remove", !.pc = "remove", !.p = p])
       \/ /\ IsDir(fs, p)
          /\ \/ \E k \in Keys, v \in Vals :
                  Start(t, [Idle EXCEPT !.op = "set_regex", !.pc = "next_set", !.p = p, !.tree = p, !.left = Walk(p),
                                        !.k = k, !.v = <<"val", v>>])
             \/ Start(t, [Idle EXCEPT !.op = "remove_regex", !.pc = "next", !.p = p, !.tree = p, !.left = Walk(p)])
       \/ \E q \in Paths \ {p} : Named(q) /\
            \/ Start(t, [Idle EXCEPT !.op = "symlink", !.pc = "create", !.p = p, !.q = q])
            \/ Start(t, [Idle EXCEPT !.op = "hardlink", !.pc = "hardlink", !.p = p, !.q = q])
            \/ /\ \A r \in Under(p) : fs.node[r] # None => Rebase(r, p, q) \in Paths
               /\ Start(t, [Idle EXCEPT !.op = "move", !.pc = "move", !.p = p, !.q = q])
AttrCall(t) ==
  \E p \in Paths, k \in Keys :
    LET r == [Idle EXCEPT !.p = p, !.k = k] IN
    \/ \E v \in Vals, op \in {"set", "stamp"} : OpenFor(t, [r EXCEPT !.op = op, !.pc = "attr", !.v = <<"val", v>>])
    \/ \E op \in {"set", "append"} : OpenFor(t, [r EXCEPT !.op = op, !.pc = "attr"])
    \/ \E q \in Paths \ {Root} :
         \/ OpenFor(t, [r EXCEPT !.op = "copy_attr", !.pc = "copy", !.q = q])
         \/ \E k2 \in Keys : OpenFor(t, [r EXCEPT !.op = "link_attr", !.pc = "attr_link", !.q = q, !.k2 = k2])
    \/ \E k2 \in Keys \ {k} : OpenFor(t, [r EXCEPT !.op = "move_attr", !.pc = "attr_move", !.k2 = k2])

Run(t) ==
  \/ CreateProxy(t) \/ CreateAttrDir(t) \/ SymlinkRemove(t) \/ SymlinkMake(t)
  \/ RemoveCheck(t) \/ RemoveProxy(t) \/ RemoveAttrDir(t) \/ RemoveDirPurge(t) \/ RemoveDir(t)
  \/ RemoveRegexNext(t) \/ MoveProxy(t) \/ MoveAttrDir(t)
  \/ HardlinkType(t) \/ HardlinkConvert(t) \/ HardlinkFind(t) \/ HardlinkLock(t)
  \/ HardlinkName(t) \/ HardlinkAttr(t)
  \/ MultiGather(t) \/ MultiLock(t) \/ SetAttrs(t) \/ SetRegexNext(t) \/ CopyLock(t) \/ CopyAttrs(t) \/ SymlinkAttrs(t) \/ MoveAttrs(t)

Next ==
  \/ \E t \in Threads : Call(t) \/ AttrCall(t) \/ Run(t)
  \/ \E d \in Paths, fix \in {"remove", "repair"} : Fsck(d, fix)
  \/ Crash

Spec == Init /\ [][Next]_vars

-----------------------------------------------------------------------------
(* Operations that have nothing to do with each other may interleave in    *)
(* any way: unless related ones overlapped, the service crashed or a known *)
(* defect was met, whenever the service is idle each object has its        *)
(* attributes, no attributes are left over, hard links share theirs and    *)
(* the hard-link area holds what is linked and no more.                    *)
NothingLeftOver == (Busy = {} /\ ~tainted) => WellFormed(fs)

(* What an operation is meant to do to the tree in one step.               *)
Object(type, to, p) == [type |-> {type}, to |-> to, same |-> {p}, at |-> NoAttrs]
Without(w, S) == [p \in DOMAIN w \ S |-> [w[p] EXCEPT !.same = w[p].same \ S]]
Renamed(w, p, q) ==
  LET new(r) == IF IsPrefix(p, r) THEN Rebase(r, p, q) ELSE r
  IN  [r \in {new(x) : x \in DOMAIN w} |->
         LET x == CHOOSE y \in DOMAIN w : new(y) = r IN [w[x] EXCEPT !.same = {new(y) : y \in w[x].same}]]
Aliased(w, p, q) ==
  [r \in DOMAIN w \cup {q} |-> IF r \in w[p].same \cup {q} THEN [w[p] EXCEPT !.same = w[p].same \cup {q}] ELSE w[r]]
WithAttr(w, p, k, v) == [r \in DOMAIN w |-> IF r \in w[p].same THEN [w[r] EXCEPT !.at[k] = v] ELSE w[r]]
Value(w, p, k) == LET v == w[p].at[k] IN
  IF v[1] # "link" THEN v ELSE IF v[2] \in DOMAIN w THEN w[v[2]].at[v[3]] ELSE None
Linked(w, p, k) == p \notin DOMAIN w \/ w[p].at[k][1] = "link"

Meant(d) ==
  LET w == d.was IN
  CASE d.op = "create" -> w @@ (d.p :> Object("file", NoPath, d.p))
    [] d.op = "mkdir" -> w @@ (d.p :> Object("dir", NoPath, d.p))
    [] d.op = "symlink" -> w @@ (d.q :> Object("sym", d.p, d.q))
    [] d.op = "hardlink" -> Aliased(w, d.p, d.q)
    [] d.op = "move" -> Renamed(w, d.p, d.q)
    [] d.op = "remove" -> Without(w, {d.p})
    [] d.op = "remove_regex" -> Without(w, Under(d.tree))
    [] d.op = "set" /\ (d.v = None \/ ~Linked(w, d.p, d.k)) -> WithAttr(w, d.p, d.k, d.v)
    [] d.op = "stamp" /\ ~Linked(w, d.p, d.k) -> WithAttr(w, d.p, d.k, VaTimestamp(d.v))
    [] d.op = "copy_attr" /\ ~Linked(w, d.q, d.k) -> WithAttr(w, d.q, d.k, Value(w, d.p, d.k))
    [] d.op = "set_regex" /\ (\A p \in DOMAIN w : ~Linked(w, p, d.k)) ->
         [p \in DOMAIN w |-> IF p \in UNION {w[q].same : q \in DOMAIN w \cap Under(d.tree)}
                            THEN [w[p] EXCEPT !.at[d.k] = d.v] ELSE w[p]]
    [] d.op = "link_attr" -> WithAttr(w, d.p, d.k, <<"link", d.q, d.k2>>)
    [] d.op = "move_attr" -> WithAttr(WithAttr(w, d.p, d.k2, w[d.p].at[d.k]), d.p, d.k, None)
    [] OTHER -> View(fs)

(* An operation that ran by itself did all of what it is meant to do or,   *)
(* reporting failure, nothing that a client could see; the link count      *)
(* shown is the number of names.                                           *)
AllOrNothing ==
  \A d \in done : ~tainted =>
    /\ View(fs) = IF d.ok THEN Meant(d) ELSE IF d.op = "remove_regex" THEN View(fs) ELSE d.was
    /\ \A p \in DOMAIN View(fs) : VaLinkCount(fs, p) = Cardinality(Same(fs, p))

(* A crash in the middle of any operation leaves nothing that fsck does    *)
(* not put right: after two repairing passes over a directory (the walk    *)
(* meets files before the directory whose attribute directory theirs need) *)
(* every object below has its attributes and no attributes lack an object. *)
(* All it cannot mend is an attribute link whose hard-link area is gone.   *)
Whole(f, p) ==
  CASE f.node[p] = None -> f.fa[p] = None
    [] f.node[p] = Dir -> f.da[p] # None
    [] OTHER -> Holder(f, <<"fa", p>>) # None \/ f.fa[p][1] = "hard"
FsckRepairs == checked.passes = 2 => \A p \in Under(checked.dir) \ {checked.dir} : Whole(fs, p)

(* The lock a thread sleeps on when it is taken.                           *)
Wanted(t) ==
  CASE At(t, "attr_lock") -> {th[t].locks[1]}
    [] At(t, "copy") -> {NextCopyLock(t)}
    [] At(t, "hard_lock") -> {Lowest(HardLocks(t) \ th[t].held)}
    [] At(t, "create") -> {Lock(IF th[t].op = "symlink" THEN th[t].q ELSE th[t].p)}
    [] At(t, "remove") -> {Lock(th[t].p)}
    [] At(t, "attr_link") \/ At(t, "attr_move") -> {Lock(th[t].p)}
    [] OTHER -> {}
WaitsFor(t, u) == Wanted(t) \cap th[u].held # {}

(* Threads that wait for each other in a circle, for ever.                 *)
Circle(S) ==
  /\ S # {}
  /\ \A t \in S : \E u \in S : WaitsFor(t, u)
  /\ \A t \in S : \E u \in S : WaitsFor(u, t)

(* osf_multi_lock: "Now acquire them in order from smallest->largest" and  *)
(* osfile_copy_multiple_attrs_fn: "Lock the individual objects based on    *)
(* their slot positions to avoid a deadlock".                              *)
NoLockCycle == \A S \in SUBSET Threads : ~Circle(S)

(* Copies, hard links and all operations with a single lock can never be   *)
(* the whole of a circle: it goes through a thread in osf_multi_lock that  *)
(* waits for a slot below one it holds.                                    *)
OutOfOrder(t) == At(t, "attr_lock") /\ \E s \in th[t].held : s > th[t].locks[1]
CycleOnlyByMultiLock == \A S \in SUBSET Threads : Circle(S) => \E t \in S : OutOfOrder(t)
================================================================================
