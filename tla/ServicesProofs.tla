---------------------------- MODULE ServicesProofs -----------------------------
(***************************************************************************)
(* What the clients of the resource service and of lio can rely on, for    *)
(* every number of depots, lists, threads, names and objects: a version    *)
(* covers its table, the data of a named file is kept, no data is left     *)
(* without a file, and the table of open files counts them.                *)
(***************************************************************************)
EXTENDS ResourceService, LioNamespace, FiniteSetTheorems, TLAPS

RsSpec == RsInit /\ [][RsNext]_rvars
LioSpec == NsInit /\ [][NsNext]_nsvars

-----------------------------------------------------------------------------
(* Versions.  Every number that travels with a version is one the server's *)
(* table has reached, and an answer under way is at least as new as the    *)
(* version it carries.                                                     *)
SeqInv ==
  /\ srs.seq \in Nat /\ note.seq \in Nat /\ mon.my.seq \in Nat /\ mon.seq \in Nat
  /\ rq.rver.seq \in Nat /\ rq.seq \in Nat /\ cver.seq \in Nat /\ cfile.seq \in Nat
  /\ note.seq <= srs.seq /\ mon.my.seq <= srs.seq
  /\ mon.pc = "send" => mon.my.seq <= mon.seq
  /\ rq.pc = "version" => rq.rver.seq <= srs.seq
  /\ rq.pc = "reply" => rq.rver.seq <= rq.seq
  /\ {"tab", "mtime", "cur", "seq", "pc", "tell", "change"} \subseteq DOMAIN srs
  /\ {"pc", "my", "all", "tab", "seq"} \subseteq DOMAIN mon
  /\ {"pc", "ver", "due", "wake", "rver", "tab", "seq"} \subseteq DOMAIN rq
  /\ {"edits", "flips", "loss", "miss"} \subseteq DOMAIN rhist
  /\ {"tab", "mtime", "stop"} \subseteq DOMAIN crs
VersionInv == SeqInv /\ VersionCovered

(* The server's numbers only grow, whatever the depots answer. *)
LEMMA RefreshGrows ==
  ASSUME SeqInv
  PROVE  /\ Refresh(srs).seq \in Nat /\ Refresh(srs).seq >= srs.seq
         /\ {"tab", "mtime", "cur", "seq", "pc", "tell", "change"} \subseteq DOMAIN Refresh(srs)
  BY DEF SeqInv, Refresh

(* No step of the server, the network or the client gives a client a       *)
(* version that is ahead of its table.                                     *)
LEMMA VersionStep == VersionInv /\ [RsNext]_rvars => VersionInv'
<1> SUFFICES ASSUME VersionInv, [RsNext]_rvars PROVE VersionInv'
  OBVIOUS
<1> USE DEF VersionInv, SeqInv, VersionCovered
<1>1. CASE EditFile \/ DepotFlip
  BY <1>1 DEF EditFile, DepotFlip
<1>2. CASE RequestRefresh
  BY <1>2, RefreshGrows DEF RequestRefresh
<1>3. CASE CheckTop
  <2>1. srs'.seq = Refresh(srs).seq
    BY <1>3, RefreshGrows DEF CheckTop
  <2>2. {"tab", "mtime", "cur", "seq", "pc", "tell", "change"} \subseteq DOMAIN srs'
    BY <1>3, RefreshGrows DEF CheckTop
  <2> QED BY <1>3, <2>1, <2>2, RefreshGrows DEF CheckTop
<1>4. CASE PerformCheck
  <2>1. srs'.seq \in Nat /\ srs'.seq >= srs.seq
    BY <1>4 DEF PerformCheck
  <2>2. DOMAIN srs' = DOMAIN srs
    BY <1>4 DEF PerformCheck
  <2> QED BY <1>4, <2>1, <2>2 DEF PerformCheck
<1>5. CASE MappingNotify
  <2>1. PICK draw \in Draws : MappingNotify!2!(draw)
    BY <1>5 DEF MappingNotify
  <2>2. note'.seq = note.seq \/ note'.seq = srs.seq
    BY <2>1 DEF Ver
  <2>3. srs'.seq = srs.seq /\ DOMAIN srs' = DOMAIN srs
    BY <1>5 DEF MappingNotify
  <2>4. DOMAIN rhist' = DOMAIN rhist /\ (rhist.miss => rhist'.miss)
    BY <2>1
  <2> QED BY <1>5, <2>2, <2>3, <2>4 DEF MappingNotify
<1>6. CASE Monitor
  BY <1>6 DEF Monitor
<1>7. CASE NotifyRead
  BY <1>7 DEF NotifyRead
<1>8. CASE NotifySend
  <2>1. PICK skipped \in BOOLEAN : NotifySend!(skipped)
    BY <1>8 DEF NotifySend
  <2>2. DOMAIN mon' = DOMAIN mon /\ DOMAIN rhist' = DOMAIN rhist
    BY <2>1
  <2>3. mon'.my = mon.my /\ mon'.pc = "sleep" /\ mon'.seq = 0 /\ rhist'.miss = rhist.miss
    BY <2>1
  <2>4. CASE rq' = rq
    BY <2>1, <2>2, <2>3, <2>4
  <2>5. CASE rq' = [rq EXCEPT !.wake = FALSE]
    BY <2>1, <2>2, <2>3, <2>5
  <2>6. CASE rq' = [NoRq EXCEPT !.pc = "reply", !.rver = mon.my, !.tab = mon.tab, !.seq = mon.seq]
    <3>1. rq'.seq = mon.seq /\ rq'.rver = mon.my /\ rq'.pc = "reply"
          /\ DOMAIN rq' = {"pc", "ver", "due", "wake", "rver", "tab", "seq"}
      BY <2>6 DEF NoRq
    <3> QED BY <2>1, <2>2, <2>3, <3>1
  <2> QED BY <2>1, <2>4, <2>5, <2>6
<1>9. CASE Handler \/ ReplyTime
  <2>1. CASE ConfigRequest
    BY <2>1 DEF ConfigRequest, NoRq, Ver
  <2>2. CASE UpdateRegister \/ ReplyTime
    BY <2>2 DEF UpdateRegister, ReplyTime
  <2>3. CASE ConfigVersion
    BY <2>3 DEF ConfigVersion
  <2>4. CASE ConfigTable
    BY <2>4 DEF ConfigTable
  <2> QED BY <1>9, <2>1, <2>2, <2>3, <2>4 DEF Handler
<1>10. CASE Lose \/ UpdateConfigOp \/ ClientTimeout \/ AbortRequest
  <2>1. CASE Lose
    BY <2>1 DEF Lose, NoRq, Ver
  <2>2. CASE UpdateConfigOp
    BY <2>2 DEF UpdateConfigOp, NoRq, Ver
  <2>3. CASE ClientTimeout \/ AbortRequest
    BY <2>3 DEF ClientTimeout, AbortRequest, NoRq, Ver
  <2> QED BY <1>10, <2>1, <2>2, <2>3
<1>11. CASE ResponseGetConfig
  BY <1>11 DEF ResponseGetConfig, NoRq, Ver
<1>12. CASE ClientRefresh \/ ClientDestroy
  BY <1>12 DEF ClientRefresh, ClientDestroy
<1>13. CASE UNCHANGED rvars
  BY <1>13 DEF rvars
<1> QED
  BY <1>1, <1>2, <1>3, <1>4, <1>5, <1>6, <1>7, <1>8, <1>9, <1>10, <1>11, <1>12, <1>13
  DEF RsNext, Threads, Server, Client

(* A client's table is never older than the version it holds, through the  *)
(* separate critical sections of the answers, lost messages and reloads.   *)
THEOREM VersionsCovered == RsSpec => []VersionCovered
<1>1. RsInit => VersionInv
  BY DEF RsInit, VersionInv, SeqInv, VersionCovered, NoRq, Ver
<1>2. VersionInv => VersionCovered
  BY DEF VersionInv
<1> QED BY <1>1, <1>2, VersionStep, PTL DEF RsSpec


-----------------------------------------------------------------------------
(* Files and their data.  The shape of the state: a thread at work has a   *)
(* name, and a second one where its call takes two.                        *)
OpFields == {"pc", "p", "q", "typ", "ex", "o", "al", "del", "known", "was"}
TwoNames == {"hardlink", "symlink", "sym_attrs", "rename", "move"}
OpShape(t) ==
  /\ OpFields \subseteq DOMAIN act[t]
  /\ act[t].ex \in Nat /\ act[t].o \in Nat
  /\ act[t].pc # "idle" => act[t].p \in AllNames
  /\ act[t].pc \in TwoNames => act[t].q \in AllNames /\ act[t].p # act[t].q
FdShape(u) ==
  /\ {"ex", "name"} \subseteq DOMAIN fd[u]
  /\ fd[u].ex \in Nat /\ fd[u].name \in AllNames \cup {NoName}
  /\ fd[u].name # NoName => fd[u].ex # 0
  /\ act[u].pc = "open" => fd[u] = Closed
  /\ act[u].pc = "enter" => fd[u].ex # 0
  /\ act[u].pc # "enter" => fd[u] = Closed \/ fd[u].name # NoName
ObjShape(o) == {"own", "ex", "alloc"} \subseteq DOMAIN obj[o] /\ obj[o].ex \in Nat
Shape ==
  /\ ent \in [AllNames -> Nat] /\ to \in [AllNames -> AllNames \cup {NoName}]
  /\ DOMAIN obj = Objs /\ (\A o \in Objs : ObjShape(o))
  /\ DOMAIN act = NsThreads /\ (\A t \in NsThreads : OpShape(t))
  /\ DOMAIN fd = Mount /\ (\A u \in Mount : FdShape(u))
  /\ {"made", "ops", "faults", "raced"} \subseteq DOMAIN nhist
  /\ nhist.made \in Objs

(* Objects and exnodes have their own numbers, a link has no exnode of its *)
(* own, and an exnode is that of one object.                               *)
Numbered ==
  /\ \A n \in AllNames : ent[n] <= nhist.made
  /\ \A o \in Objs : obj[o].ex <= nhist.made
  /\ \A o \in Objs : o > nhist.made => obj[o].ex = 0
  /\ \A u \in Mount : fd[u].ex <= nhist.made
  /\ data \subseteq 1 .. nhist.made
Kinds ==
  /\ \A n \in AllNames : ent[n] = 0 => to[n] = NoName
  /\ \A n \in AllNames : ent[n] # 0 /\ to[n] # NoName => obj[ent[n]].ex = 0
  /\ \A n, m \in AllNames : ent[n] # 0 /\ ent[n] = ent[m] /\ to[n] = NoName => to[m] = NoName
OneExnode ==
  /\ \A o \in Objs : obj[o].alloc => obj[o].ex # 0
  /\ \A o, w \in Objs : o # w /\ obj[o].ex # 0 => obj[o].ex # obj[w].ex

(* The exnode of a file that is being made is on no object yet. *)
Pending(t) == act[t].pc = "attrs" =>
  /\ act[t].o \in 1 .. nhist.made
  /\ \A o \in Objs : obj[o].ex # act[t].o
  /\ \A u \in NsThreads : u # t /\ act[u].pc = "attrs" => act[u].o # act[t].o
  /\ \A u \in NsThreads : act[u].pc = "rm_data" /\ act[u].al => act[u].ex # act[t].o

(* What a remove has read still holds if the name means what it meant. *)
ReadOf(a) ==
  /\ a.was.o \in 0 .. nhist.made
  /\ a.typ \in {"none", "file", "hard", "sym"}
  /\ a.typ = "none" => a.was.o = 0 /\ ~a.known
  /\ a.typ = "file" => a.was.o # 0 /\ a.was.links = 1
                       /\ \A n \in AllNames : ent[n] = a.was.o => to[n] = NoName
  /\ a.typ = "hard" => a.was.links # 1 /\ a.was.links > 1
  /\ a.typ = "sym" => a.was.o # 0 /\ \A n \in AllNames : ent[n] = a.was.o => to[n] # NoName
Remover(t) ==
  /\ act[t].pc \in {"unlink", "rm_type"} => ~act[t].known
  /\ act[t].pc \in {"rm_attr", "fsck_owner", "fsck_exnode"} =>
       ReadOf(act[t]) /\ (act[t].known /\ act[t].ex # 0 => act[t].ex = act[t].was.ex)
  /\ act[t].pc = "rm_entry" =>
       /\ ReadOf(act[t])
       /\ act[t].typ = "file" => act[t].ex = act[t].was.ex
       /\ act[t].al => act[t].typ = "file" /\ act[t].ex # 0
  /\ act[t].pc = "rm_data" =>
       /\ act[t].al => /\ act[t].ex \in 1 .. nhist.made
                       /\ \A n \in AllNames : ent[n] # 0 => obj[ent[n]].ex # act[t].ex

(* Data belongs to a named file that says so, to an open file, or to one   *)
(* that is being removed.                                                  *)
HasFile(x) == \E n \in AllNames : ent[n] # 0 /\ obj[ent[n]].ex = x /\ obj[ent[n]].alloc
HasUser(x) == \E u \in Mount : fd[u].ex = x
HasRemover(x) == \E t \in NsThreads : act[t].pc = "rm_data" /\ act[t].ex = x
Kept == \A n \in AllNames : ent[n] # 0 /\ obj[ent[n]].alloc => obj[ent[n]].ex \in data
Owned == \A x \in data : HasFile(x) \/ HasUser(x) \/ HasRemover(x)

World == Numbered /\ Kinds /\ OneExnode /\ Kept /\ Owned
DataInv == Shape /\ World /\ \A t \in NsThreads : Pending(t) /\ Remover(t)


-----------------------------------------------------------------------------
(* A step of a thread that has read nothing yet and puts nothing on an     *)
(* object: the world stays as it is but for fops, handles and counters.    *)
LEMMA ActOnly ==
  ASSUME DataInv, NEW t \in NsThreads, DOMAIN act' = NsThreads,
         \A u \in NsThreads : u # t => act'[u] = act[u], UNCHANGED <<ent, to, obj, data>>,
         nhist'.made = nhist.made, DOMAIN nhist' = DOMAIN nhist,
         OpShape(t)', Pending(t)', Remover(t)', act'[t].pc # "rm_data",
         act[t].pc = "rm_data" => act[t].ex \notin data,
         DOMAIN fd' = Mount, \A u \in Mount : FdShape(u)',
         \A u \in Mount : fd'[u].ex <= nhist.made,
         \A x \in data : HasUser(x) => HasUser(x)'
  PROVE  DataInv'
<1> USE DEF DataInv, World
<1>1. \A u \in NsThreads : u # t => act'[u] = act[u]
  OBVIOUS
<1>2. Shape'
  BY <1>1 DEF Shape, OpShape, ObjShape, Objs
<1>3. Numbered' /\ Kinds' /\ OneExnode' /\ Kept'
  BY DEF Numbered, Kinds, OneExnode, Kept, Objs
<1>4. Owned'
  BY <1>1 DEF Owned, HasFile, HasRemover
<1>5. \A u \in NsThreads : u # t => Pending(u)'
  BY <1>1 DEF Pending, Shape
<1>6. \A u \in NsThreads : u # t => Remover(u)'
  BY <1>1 DEF Remover, ReadOf, Shape
<1> QED BY <1>2, <1>3, <1>4, <1>5, <1>6


(* The same with the handles left alone too. *)
LEMMA Calm ==
  ASSUME DataInv, NEW t \in NsThreads,
         act' = [act EXCEPT ![t] = act'[t]], UNCHANGED <<ent, to, obj, data, fd>>,
         nhist'.made = nhist.made, DOMAIN nhist' = DOMAIN nhist,
         OpShape(t)', Pending(t)', Remover(t)', act'[t].pc # "rm_data",
         act[t].pc = "rm_data" => act[t].ex \notin data,
         act[t].pc # "enter", act'[t].pc # "enter", t \in Mount /\ act'[t].pc = "open" => fd[t] = Closed
  PROVE  DataInv'
<1>1. \A u \in NsThreads : u # t => act'[u] = act[u]
  BY DEF DataInv, Shape
<1>2. DOMAIN fd' = Mount /\ \A u \in Mount : FdShape(u)'
  BY <1>1 DEF DataInv, Shape, FdShape, NsThreads
<1>3. \A u \in Mount : fd'[u].ex <= nhist.made
  BY DEF DataInv, World, Numbered
<1>4. \A x \in data : HasUser(x) => HasUser(x)'
  BY DEF HasUser
<1>5. DOMAIN act' = NsThreads
  BY DEF DataInv, Shape
<1> QED BY ONLY <1>1, <1>2, <1>3, <1>4, <1>5, ActOnly, DataInv, t \in NsThreads, UNCHANGED <<ent, to, obj, data, fd>>,
         nhist'.made = nhist.made, DOMAIN nhist' = DOMAIN nhist,
         OpShape(t)', Pending(t)', Remover(t)', act'[t].pc # "rm_data",
         act[t].pc = "rm_data" => act[t].ex \notin data

(* A thread without a call has nothing to answer for. *)
LEMMA IdleOK ==
  ASSUME NEW t, act'[t] = NoOp
  PROVE  OpShape(t)' /\ Pending(t)' /\ Remover(t)' /\ act'[t].pc = "idle"
  BY DEF NoOp, OpShape, OpFields, TwoNames, Pending, Remover

(* The shape is kept by a step of one thread that leaves the handles alone. *)
LEMMA ShapeKept ==
  ASSUME DataInv, NEW t \in NsThreads, act' = [act EXCEPT ![t] = act'[t]], OpShape(t)',
         act[t].pc # "enter", act'[t].pc \notin {"open", "enter"}, UNCHANGED fd,
         ent' \in [AllNames -> Nat], to' \in [AllNames -> AllNames \cup {NoName}],
         DOMAIN obj' = Objs, \A o \in Objs : ObjShape(o)',
         DOMAIN nhist' = DOMAIN nhist, nhist'.made \in Objs
  PROVE  Shape'
<1>1. \A u \in NsThreads : u # t => act'[u] = act[u]
  BY DEF DataInv, Shape
<1>2. DOMAIN act' = NsThreads /\ \A u \in NsThreads : OpShape(u)'
  BY <1>1 DEF DataInv, Shape, OpShape
<1>3. DOMAIN fd' = Mount /\ \A u \in Mount : FdShape(u)'
  BY <1>1 DEF DataInv, Shape, FdShape, NsThreads
<1> QED BY <1>2, <1>3 DEF DataInv, Shape, Objs

(* NsReturn leaves the thread without a call. *)
LEMMA Returned ==
  ASSUME DataInv, NEW t \in NsThreads, NsReturn(t)
  PROVE  act' = [act EXCEPT ![t] = act'[t]] /\ act'[t] = NoOp
  BY DEF NsReturn, DataInv, Shape

(* A call that returns without having done anything. *)
LEMMA CalmReturn ==
  ASSUME DataInv, NEW t \in NsThreads, NsReturn(t), UNCHANGED <<ent, to, obj, data, fd>>,
         nhist'.made = nhist.made, DOMAIN nhist' = DOMAIN nhist,
         act[t].pc = "rm_data" => act[t].ex \notin data, act[t].pc # "enter"
  PROVE  DataInv'
  BY Returned, IdleOK, Calm

(* NsGoto to a step that owes nothing yet. *)
LEMMA CalmGoto ==
  ASSUME DataInv, NEW t \in NsThreads, NEW pc, NsGoto(t, pc),
         UNCHANGED <<ent, to, obj, data, fd>>,
         nhist'.made = nhist.made, DOMAIN nhist' = DOMAIN nhist,
         act[t].pc \notin {"rm_data", "enter", "idle"},
         pc \notin {"attrs", "rm_data", "rm_entry", "open", "enter"},
         pc \in TwoNames => act[t].pc \in TwoNames,
         pc \in {"unlink", "rm_type"} => act[t].pc \in {"unlink", "rm_type"},
         pc \in {"rm_attr", "fsck_owner", "fsck_exnode"} =>
           act[t].pc \in {"rm_attr", "fsck_owner", "fsck_exnode"}
  PROVE  DataInv'
<1>1. act' = [act EXCEPT ![t] = act'[t]] /\ act'[t] = [act[t] EXCEPT !.pc = pc]
  BY DEF NsGoto, DataInv, Shape
<1>2. OpShape(t)
  BY DEF DataInv, Shape
<1>3. OpShape(t)'
  BY <1>1, <1>2 DEF OpShape, OpFields
<1>4. act'[t].pc = pc /\ \A f \in OpFields \ {"pc"} : act'[t][f] = act[t][f]
  BY <1>1, <1>2 DEF OpShape, OpFields
<1>5. Pending(t)'
  BY <1>4 DEF Pending
<1>6. Remover(t)'
  BY <1>1, <1>2, <1>4 DEF DataInv, Remover, ReadOf, OpShape, OpFields
<1> QED BY <1>1, <1>3, <1>4, <1>5, <1>6, Calm


-----------------------------------------------------------------------------
(* The calls that come in from libfuse or from a tool. *)
StartPcs == {"exists", "open", "unlink", "rename", "hardlink", "symlink", "rm_type", "move"}
LEMMA CallStartOK ==
  ASSUME DataInv, NEW t \in NsThreads, NEW pc \in StartPcs, NEW p \in AllNames, NEW q,
         CallStart(t, pc, p, q), pc \in TwoNames => q \in AllNames /\ p # q,
         t \in Mount /\ pc = "open" => fd[t] = Closed
  PROVE  DataInv'
<1>1. act' = [act EXCEPT ![t] = act'[t]] /\ act'[t] = [NoOp EXCEPT !.pc = pc, !.p = p, !.q = q]
  BY DEF CallStart, DataInv, Shape
<1>2. act'[t].pc = pc /\ act'[t].p = p /\ act'[t].q = q /\ act'[t].ex = 0 /\ act'[t].o = 0
      /\ ~act'[t].known /\ OpFields \subseteq DOMAIN act'[t]
  BY <1>1 DEF NoOp, OpFields
<1>3. OpShape(t)' /\ Pending(t)' /\ Remover(t)'
  BY <1>2 DEF StartPcs, TwoNames, OpShape, Pending, Remover
<1>4. act[t].pc = "idle"
  BY DEF CallStart, NoOp
<1>5. nhist'.made = nhist.made /\ DOMAIN nhist' = DOMAIN nhist
  BY DEF CallStart, DataInv, Shape
<1>6. UNCHANGED <<ent, to, obj, data, fd>>
  BY DEF CallStart
<1>7. act'[t].pc # "rm_data" /\ act'[t].pc # "enter"
  BY <1>2 DEF StartPcs
<1> QED BY <1>1, <1>2, <1>3, <1>4, <1>5, <1>6, <1>7, Calm

(* A name leads to nothing or to a file that has a name itself, and its    *)
(* exnode is that file's; if it is no link the file is its own.            *)
LEMMA FollowedOK ==
  ASSUME DataInv, NEW p \in AllNames
  PROVE  /\ Followed(p) = 0 \/ (Followed(p) \in Objs /\ \E n \in AllNames :
                                   ent[n] = Followed(p) /\ to[n] = NoName)
         /\ ExnodeOf(p) \in 0 .. nhist.made
         /\ Followed(p) # 0 => ExnodeOf(p) = obj[Followed(p)].ex
         /\ to[p] = NoName => Followed(p) = ent[p]
         /\ ent[p] # 0 => ent[p] \in Objs
<1>1. \A n \in AllNames : ent[n] # 0 => ent[n] \in Objs
  BY LioAssumption DEF DataInv, Shape, World, Numbered, Objs
<1>2. Followed(p) = 0 \/ \E n \in AllNames : ent[n] = Followed(p) /\ to[n] = NoName
  BY DEF DataInv, Shape, Followed
<1>3. Followed(p) = 0 \/ Followed(p) \in Objs
  BY <1>1, <1>2
<1>4. ExnodeOf(p) \in 0 .. nhist.made
  BY <1>3 DEF ExnodeOf, DataInv, World, Numbered, Shape, ObjShape, Objs
<1> QED BY <1>1, <1>2, <1>3, <1>4 DEF Followed, ExnodeOf

(* What a name means, read at once, is what ReadOf keeps. *)
LEMMA ReadNow ==
  ASSUME DataInv, NEW p \in AllNames, NEW a, a.typ = TypeOf(p), a.was = Meaning(p),
         a.typ = "none" => ~a.known
  PROVE  ReadOf(a)
<1>1. ent[p] \in 0 .. nhist.made /\ a.was.o = ent[p] /\ a.was.links = Links(ent[p])
  BY DEF DataInv, Shape, World, Numbered, Meaning, Objs
<1>2. IsFiniteSet({n \in AllNames : ent[n] = ent[p]})
  BY LioAssumption, FS_Subset, FS_AddElement DEF AllNames
<1>3. Links(ent[p]) \in Nat /\ Links(ent[p]) # 0
  BY <1>2, FS_EmptySet, FS_CardinalityType DEF Links
<1>4. \A n \in AllNames : ent[p] # 0 /\ ent[n] = ent[p] => (to[n] = NoName <=> to[p] = NoName)
  BY DEF DataInv, World, Kinds
<1> QED BY <1>1, <1>3, <1>4 DEF ReadOf, TypeOf

(* A tool starts on a name whose attributes its iterator has read. *)
LEMMA CallKnownOK ==
  ASSUME DataInv, NEW t \in NsThreads, NEW pc \in {"rm_attr", "fsck_owner"}, NEW p \in AllNames,
         NEW del, CallKnown(t, pc, p, del)
  PROVE  DataInv'
<1> DEFINE a == [NoOp EXCEPT !.pc = pc, !.p = p, !.typ = TypeOf(p), !.ex = ExnodeOf(p),
                             !.al = AllocOf(p), !.o = ent[p], !.del = del, !.known = TRUE,
                             !.was = Meaning(p)]
<1>1. act' = [act EXCEPT ![t] = act'[t]] /\ act'[t] = a
  BY DEF CallKnown, DataInv, Shape
<1>2. a.pc = pc /\ a.p = p /\ a.typ = TypeOf(p) /\ a.ex = ExnodeOf(p) /\ a.o = ent[p]
      /\ a.was = Meaning(p) /\ OpFields \subseteq DOMAIN a
  BY DEF NoOp, OpFields
<1> HIDE DEF a
<1>3. ent[p] # 0 /\ act[t].pc = "idle"
  BY DEF CallKnown, NoOp
<1>4. a.was.ex = a.ex
  BY <1>2 DEF Meaning
<1>6. ExnodeOf(p) \in Nat
  BY FollowedOK
<1>7. OpShape(t)'
  BY <1>1, <1>2, <1>3, <1>6 DEF OpShape, TwoNames, DataInv, Shape
<1>8. ReadOf(a)
  <2>1. a.typ # "none"
    BY <1>2, <1>3 DEF TypeOf
  <2> QED BY <1>2, <2>1, ReadNow
<1>9. nhist'.made = nhist.made /\ DOMAIN nhist' = DOMAIN nhist /\ UNCHANGED <<ent, to, obj, data, fd>>
  BY DEF CallKnown, DataInv, Shape
<1>11. Pending(t)'
  BY <1>1, <1>2 DEF Pending
<1>12. Remover(t)'
  BY <1>1, <1>2, <1>4, <1>8, <1>9 DEF Remover, ReadOf
<1> QED BY <1>1, <1>2, <1>3, <1>7, <1>9, <1>11, <1>12, Calm


-----------------------------------------------------------------------------
(* lio_remove_object_fn reads the type. *)
LEMMA RemoveTypeOK ==
  ASSUME DataInv, NEW t \in NsThreads, RemoveType(t)
  PROVE  DataInv'
<1>1. act' = [act EXCEPT ![t] = act'[t]] /\ act[t].pc = "rm_type" /\ OpShape(t)
      /\ act'[t] = [act[t] EXCEPT !.pc = "rm_attr", !.typ = TypeOf(act[t].p), !.was = Meaning(act[t].p)]
  BY DEF RemoveType, InStep, DataInv, Shape
<1>2. act'[t].pc = "rm_attr" /\ act'[t].p = act[t].p /\ act'[t].typ = TypeOf(act[t].p)
      /\ act'[t].was = Meaning(act[t].p) /\ act'[t].ex = act[t].ex /\ act'[t].o = act[t].o
      /\ act'[t].known = act[t].known /\ DOMAIN act'[t] = DOMAIN act[t]
  BY <1>1 DEF OpShape, OpFields
<1>3. UNCHANGED <<ent, to, obj, data, fd, nhist>>
  BY DEF RemoveType
<1>4. OpShape(t)' /\ Pending(t)'
  BY <1>1, <1>2 DEF OpShape, TwoNames, Pending
<1>5. ~act[t].known
  BY <1>1 DEF DataInv, Remover
<1>6. act[t].p \in AllNames
  BY <1>1 DEF OpShape
<1>7. ReadOf(act'[t])
  BY <1>2, <1>5, <1>6, ReadNow
<1>8. Remover(t)'
  BY <1>2, <1>3, <1>5, <1>7 DEF Remover, ReadOf
<1> QED BY <1>1, <1>2, <1>3, <1>4, <1>8, Calm


(* It reads the link count and the exnode: they are those of the name it   *)
(* read the type of, unless somebody got between.                          *)
LEMMA RemoveAttrsOK ==
  ASSUME DataInv, NEW t \in NsThreads, RemoveAttrs(t)
  PROVE  nhist'.raced \/ DataInv'
<1> DEFINE a    == act[t]
           keep == a.typ = "sym" \/ (a.typ = "hard" /\ Links(ent[a.p]) > 1)
           have == a.known /\ a.ex # 0
<1> SUFFICES ASSUME ~nhist'.raced PROVE DataInv'
  OBVIOUS
<1>1. a.pc = "rm_attr" /\ OpShape(t) /\ Remover(t) /\ ReadOf(a) /\ a.p \in AllNames
  BY DEF RemoveAttrs, InStep, DataInv, Shape, Remover, OpShape
<1>2. nhist'.made = nhist.made /\ DOMAIN nhist' = DOMAIN nhist /\ a.was = Meaning(a.p)
  BY DEF RemoveAttrs, Races, DataInv, Shape
<1>3. UNCHANGED <<ent, to, obj, data, fd>>
  BY DEF RemoveAttrs
<1>4. a.was.o = ent[a.p] /\ a.was.links = Links(ent[a.p]) /\ a.was.ex = ExnodeOf(a.p)
  BY <1>2 DEF Meaning
<1>5. CASE a.typ = "hard" /\ ent[a.p] = 0
  BY <1>1, <1>2, <1>3, <1>5, CalmReturn DEF RemoveAttrs
<1>6. CASE ~(a.typ = "hard" /\ ent[a.p] = 0)
  <2> DEFINE ex == IF keep THEN 0 ELSE IF have THEN a.ex ELSE ExnodeOf(a.p)
             al == IF keep THEN FALSE ELSE IF have THEN a.al ELSE AllocOf(a.p)
  <2>1. act' = [act EXCEPT ![t].pc = "rm_entry", ![t].ex = ex, ![t].al = al]
    BY <1>6 DEF RemoveAttrs
  <2>2. act' = [act EXCEPT ![t] = act'[t]]
        /\ act'[t] = [a EXCEPT !.pc = "rm_entry", !.ex = ex, !.al = al]
    BY <2>1 DEF DataInv, Shape
  <2>3. act'[t].pc = "rm_entry" /\ act'[t].p = a.p /\ act'[t].q = a.q /\ act'[t].typ = a.typ
        /\ act'[t].was = a.was /\ act'[t].ex = ex /\ act'[t].al = al /\ act'[t].o = a.o
        /\ DOMAIN act'[t] = DOMAIN a /\ act'[t].known = a.known
    BY <1>1, <2>2 DEF OpShape, OpFields
  <2>4. ex \in Nat
    BY <1>1, FollowedOK DEF OpShape
  <2>5. a.typ = "file" => ex = a.was.ex
    BY <1>1, <1>4 DEF Remover
  <2>6. al => a.typ = "file" /\ ex # 0
    <3>1. CASE a.typ = "hard"
      BY <1>1, <1>4, <3>1 DEF ReadOf
    <3>2. CASE a.typ = "none"
      BY <1>1, <1>4, <3>2 DEF ReadOf, AllocOf, Followed
    <3>3. CASE a.typ = "file"
      BY <1>1, <3>3, FollowedOK DEF AllocOf, DataInv, World, OneExnode
    <3> QED BY <1>1, <3>1, <3>2, <3>3 DEF ReadOf
  <2> HIDE DEF ex, al
  <2>7. OpShape(t)' /\ Pending(t)'
    BY <1>1, <2>3, <2>4 DEF OpShape, TwoNames, Pending
  <2>8. ReadOf(act[t])'
    BY <1>1, <1>2, <1>3, <2>3 DEF ReadOf
  <2>9. Remover(t)'
    BY <2>3, <2>5, <2>6, <2>8 DEF Remover
  <2> QED BY <1>1, <1>2, <1>3, <2>2, <2>3, <2>7, <2>9, Calm
<1> QED BY <1>5, <1>6

(* The data is removed last: by then no name has it. *)
LEMMA RemoveDataOK ==
  ASSUME DataInv, NEW t \in NsThreads, RemoveData(t)
  PROVE  nhist'.raced \/ DataInv'
<1> DEFINE x == act[t].ex
<1> SUFFICES ASSUME ~nhist'.raced PROVE DataInv'
  OBVIOUS
<1>1. act[t].pc = "rm_data" /\ Remover(t) /\ NsReturn(t) /\ UNCHANGED <<ent, to, obj, fd>>
  BY DEF RemoveData, InStep, DataInv
<1>2. CASE act[t].al /\ data' = data \ {x} /\ UNCHANGED nhist
  <2>1. act' = [act EXCEPT ![t] = act'[t]] /\ act'[t] = NoOp
    BY <1>1, Returned
  <2>2. OpShape(t)' /\ Pending(t)' /\ Remover(t)' /\ act'[t].pc = "idle"
    BY <2>1, IdleOK
  <2>3. \A u \in NsThreads : u # t => act'[u] = act[u]
    BY <2>1 DEF DataInv, Shape
  <2>4. Shape'
    BY <1>1, <1>2, <2>1, <2>2, ShapeKept DEF DataInv, Shape, ObjShape, Objs
  <2>5. Numbered' /\ Kinds' /\ OneExnode'
    BY <1>1, <1>2 DEF DataInv, World, Numbered, Kinds, OneExnode, Objs
  <2>6. Kept'
    BY <1>1, <1>2 DEF DataInv, World, Kept, Remover
  <2>7. Owned'
    <3> SUFFICES ASSUME NEW y \in data, y # x PROVE (HasFile(y) \/ HasUser(y) \/ HasRemover(y))'
      BY <1>2 DEF Owned
    <3>1. HasFile(y) => HasFile(y)'
      BY <1>1 DEF HasFile
    <3>2. HasUser(y) => HasUser(y)'
      BY <1>1 DEF HasUser
    <3>3. HasRemover(y) => HasRemover(y)'
      BY <2>3 DEF HasRemover
    <3> QED BY <3>1, <3>2, <3>3 DEF DataInv, World, Owned
  <2>8. \A u \in NsThreads : u # t => Pending(u)' /\ Remover(u)'
    <3> SUFFICES ASSUME NEW u \in NsThreads, u # t PROVE Pending(u)' /\ Remover(u)'
      OBVIOUS
    <3>1. Pending(u)'
      BY <1>1, <1>2, <2>2, <2>3 DEF DataInv, Pending
    <3>2. Remover(u)'
      BY <1>1, <1>2, <2>3 DEF DataInv, Remover, ReadOf, Shape
    <3> QED BY <3>1, <3>2
  <2> QED BY <2>2, <2>4, <2>5, <2>6, <2>7, <2>8 DEF DataInv, World
<1>3. CASE Races(x \in data) /\ UNCHANGED data
  BY <1>1, <1>3, CalmReturn DEF Races, DataInv, Shape
<1> QED BY <1>2, <1>3 DEF RemoveData


-----------------------------------------------------------------------------
(* A name that goes takes nothing from the others. *)
LEMMA NameLost ==
  ASSUME DataInv, NEW p \in AllNames,
         ent' = [ent EXCEPT ![p] = 0], to' = [to EXCEPT ![p] = NoName],
         UNCHANGED <<obj, data, fd>>, nhist'.made = nhist.made
  PROVE  /\ ent' \in [AllNames -> Nat] /\ to' \in [AllNames -> AllNames \cup {NoName}]
         /\ Numbered' /\ Kinds' /\ OneExnode' /\ Kept'
         /\ \A u \in NsThreads : act'[u] = act[u] => Remover(u)'
         /\ \A x \in data : HasFile(x) => HasFile(x)' \/ obj[ent[p]].ex = x
<1>1. ent' \in [AllNames -> Nat] /\ to' \in [AllNames -> AllNames \cup {NoName}]
  BY DEF DataInv, Shape
<1>2. \A n \in AllNames : n # p => ent'[n] = ent[n] /\ to'[n] = to[n]
  BY DEF DataInv, Shape
<1>3. ent'[p] = 0 /\ to'[p] = NoName
  BY DEF DataInv, Shape
<1>4. Numbered'
  BY <1>2, <1>3 DEF DataInv, World, Numbered, Shape, Objs
<1>5. Kinds'
  BY <1>2, <1>3 DEF DataInv, World, Kinds
<1>6. OneExnode'
  BY DEF DataInv, World, OneExnode, Objs
<1>7. Kept'
  BY <1>2, <1>3 DEF DataInv, World, Kept
<1>8. ASSUME NEW u \in NsThreads, act'[u] = act[u] PROVE Remover(u)'
  <2>1. Remover(u)
    BY DEF DataInv
  <2>2. ReadOf(act[u]) => ReadOf(act[u])'
    BY <1>2, <1>3, <1>8 DEF ReadOf
  <2> QED BY <1>2, <1>3, <1>8, <2>1, <2>2 DEF Remover
<1>9. ASSUME NEW x \in data, HasFile(x) PROVE HasFile(x)' \/ obj[ent[p]].ex = x
  BY <1>2, <1>9 DEF HasFile
<1> QED BY <1>1, <1>4, <1>5, <1>6, <1>7, <1>8, <1>9

(* A file with one name has that one. *)
LEMMA OnlyName ==
  ASSUME NEW p \in AllNames
  PROVE  Links(ent[p]) = 1 <=> \A n \in AllNames : ent[n] = ent[p] => n = p
<1> DEFINE S == {n \in AllNames : ent[n] = ent[p]}
<1>1. IsFiniteSet(S)
  BY LioAssumption, FS_Subset, FS_AddElement DEF AllNames
<1>2. Cardinality(S) = 1 <=> \E n : S = {n}
  BY <1>1, FS_Singleton
<1> QED BY <1>2 DEF Links

(* The entry goes: the data is then this remover's, or it has another name. *)
LEMMA RemoveEntryOK ==
  ASSUME DataInv, NEW t \in NsThreads, RemoveEntry(t)
  PROVE  nhist'.raced \/ DataInv'
<1> DEFINE p == act[t].p
<1> SUFFICES ASSUME ~nhist'.raced PROVE DataInv'
  OBVIOUS
<1>1. act[t].pc = "rm_entry" /\ OpShape(t) /\ Remover(t) /\ ReadOf(act[t]) /\ p \in AllNames
      /\ UNCHANGED <<obj, data, fd>>
  BY DEF RemoveEntry, InStep, DataInv, Shape, Remover, OpShape
<1>2. CASE NsReturn(t) /\ UNCHANGED <<ent, to>> /\ (IF ent[p] = 0 THEN UNCHANGED nhist ELSE Faulty)
  <2>1. nhist'.made = nhist.made /\ DOMAIN nhist' = DOMAIN nhist
    BY <1>2 DEF Faulty, DataInv, Shape
  <2> QED BY <1>1, <1>2, <2>1, CalmReturn
<1>3. CASE /\ ent[p] # 0
           /\ ent' = [ent EXCEPT ![p] = 0] /\ to' = [to EXCEPT ![p] = NoName]
           /\ Races(act[t].was # Meaning(p)) /\ NsGoto(t, "rm_data")
  <2> DEFINE x == act[t].ex
  <2>1. nhist'.made = nhist.made /\ DOMAIN nhist' = DOMAIN nhist /\ act[t].was = Meaning(p)
    BY <1>3 DEF Races, DataInv, Shape
  <2>2. act[t].was.o = ent[p] /\ act[t].was.links = Links(ent[p]) /\ act[t].was.ex = ExnodeOf(p)
    BY <2>1 DEF Meaning
  <2>3. act' = [act EXCEPT ![t] = act'[t]] /\ act'[t] = [act[t] EXCEPT !.pc = "rm_data"]
    BY <1>3 DEF NsGoto, DataInv, Shape
  <2>4. act'[t].pc = "rm_data" /\ act'[t].p = p /\ act'[t].q = act[t].q /\ act'[t].ex = x
        /\ act'[t].al = act[t].al /\ act'[t].o = act[t].o /\ DOMAIN act'[t] = DOMAIN act[t]
    BY <1>1, <2>3 DEF OpShape, OpFields
  <2>5. \A u \in NsThreads : u # t => act'[u] = act[u]
    BY <2>3 DEF DataInv, Shape
  <2>6. OpShape(t)'
    BY <1>1, <2>4 DEF OpShape, TwoNames
  <2>7. Shape'
    BY <1>1, <1>3, <2>1, <2>3, <2>4, <2>6, ShapeKept, NameLost DEF DataInv, Shape, ObjShape, Objs
  <2>8. act[t].typ = "file" => to[p] = NoName /\ ent[p] \in Objs /\ x = obj[ent[p]].ex
                               /\ \A n \in AllNames : ent[n] = ent[p] => n = p
    BY <1>1, <1>3, <2>2, FollowedOK, OnlyName DEF ReadOf, Remover
  <2>9. act[t].typ # "file" => obj[ent[p]].ex \notin data
                               \/ \E n \in AllNames : n # p /\ ent[n] = ent[p]
    <3>1. CASE act[t].typ = "sym"
      BY <1>1, <1>3, <2>2, <3>1 DEF ReadOf, DataInv, World, Kinds, Numbered
    <3>2. CASE act[t].typ = "hard"
      BY <1>1, <2>2, <3>2, OnlyName DEF ReadOf
    <3>3. act[t].typ # "none"
      BY <1>1, <1>3, <2>2 DEF ReadOf
    <3> QED BY <1>1, <3>1, <3>2, <3>3 DEF ReadOf
  <2>10. \A n \in AllNames : n # p => ent'[n] = ent[n]
    BY <1>3 DEF DataInv, Shape
  <2>11. Owned'
    <3> SUFFICES ASSUME NEW y \in data PROVE (HasFile(y) \/ HasUser(y) \/ HasRemover(y))'
      BY <1>1 DEF Owned
    <3>1. HasUser(y) => HasUser(y)'
      BY <1>1 DEF HasUser
    <3>2. HasRemover(y) => HasRemover(y)'
      BY <1>1, <2>5 DEF HasRemover
    <3>3. CASE HasFile(y) /\ obj[ent[p]].ex # y
      BY <1>1, <1>3, <2>1, <3>3, NameLost
    <3>4. CASE HasFile(y) /\ obj[ent[p]].ex = y
      <4>1. CASE act[t].typ = "file"
        BY <2>4, <2>8, <3>4, <4>1 DEF HasRemover
      <4>2. CASE act[t].typ # "file"
        <5>1. PICK n \in AllNames : n # p /\ ent[n] = ent[p]
          BY <2>9, <3>4, <4>2
        <5>2. PICK m \in AllNames : ent[m] # 0 /\ obj[ent[m]].ex = y /\ obj[ent[m]].alloc
          BY <3>4 DEF HasFile
        <5>3. ent[m] = ent[p]
          <6>1. ent[m] \in Objs /\ ent[p] \in Objs /\ y # 0
            BY <1>1, <1>3, <5>2, FollowedOK DEF DataInv, World, Numbered
          <6> QED BY <3>4, <5>2, <6>1 DEF DataInv, World, OneExnode
        <5>4. ent'[n] = ent[m] /\ obj'[ent[m]] = obj[ent[m]]
          BY <1>1, <2>10, <5>1, <5>3
        <5> QED BY <1>1, <5>2, <5>4 DEF HasFile
      <4> QED BY <4>1, <4>2
    <3> QED BY <3>1, <3>2, <3>3, <3>4 DEF DataInv, World, Owned
  <2>12. World'
    BY <1>1, <1>3, <2>1, <2>11, NameLost DEF World
  <2>13. Remover(t)'
    <3>1. act[t].al => act[t].typ = "file" /\ x # 0
      BY <1>1 DEF Remover
    <3>2. ASSUME act[t].al, NEW n \in AllNames, ent'[n] # 0 PROVE obj'[ent'[n]].ex # x
      <4>1. n # p /\ ent'[n] = ent[n]
        BY <1>3, <2>10, <3>2 DEF DataInv, Shape
      <4>2. ent[n] # ent[p] /\ ent[n] \in Objs /\ ent[p] \in Objs
        BY <2>8, <3>1, <3>2, <4>1, FollowedOK
      <4> QED BY <1>1, <2>8, <3>1, <3>2, <4>1, <4>2 DEF DataInv, World, OneExnode
    <3>3. act[t].al => x \in 1 .. nhist.made
      BY <1>1, <2>8, <3>1 DEF DataInv, World, Numbered, OpShape, Shape, Objs
    <3> QED BY <2>1, <2>4, <3>1, <3>2, <3>3 DEF Remover
  <2>14. ASSUME NEW u \in NsThreads PROVE Pending(u)'
    <3>1. CASE u = t
      BY <2>4, <3>1 DEF Pending
    <3>2. CASE u # t /\ act[u].pc = "attrs"
      <4>1. Pending(u) /\ act'[u] = act[u]
        BY <2>5, <3>2 DEF DataInv
      <4>2. act[t].al => x # act[u].o
        BY <1>1, <2>8, <3>2, <4>1 DEF Pending, Remover
      <4>3. ASSUME NEW v \in NsThreads, v # u, act'[v].pc = "attrs" PROVE act'[v].o # act'[u].o
        BY <2>4, <2>5, <3>2, <4>1, <4>3 DEF Pending
      <4>4. ASSUME NEW v \in NsThreads, act'[v].pc = "rm_data", act'[v].al PROVE act'[v].ex # act'[u].o
        BY <2>4, <2>5, <3>2, <4>1, <4>2, <4>4 DEF Pending
      <4> QED BY <1>1, <2>1, <3>2, <4>1, <4>3, <4>4 DEF Pending
    <3>3. CASE u # t /\ act[u].pc # "attrs"
      BY <2>5, <3>3 DEF Pending
    <3> QED BY <3>1, <3>2, <3>3
  <2> QED BY <1>1, <1>3, <2>1, <2>5, <2>7, <2>12, <2>13, <2>14, NameLost DEF DataInv
<1> QED BY <1>2, <1>3 DEF RemoveEntry


-----------------------------------------------------------------------------
(* A new object gets a free name: nothing that was there changes. *)
LEMMA NameAdded ==
  ASSUME DataInv, NEW t \in NsThreads, NEW p \in AllNames, NEW k \in AllNames \cup {NoName},
         ent[p] = 0, nhist.made + 1 \in Objs,
         ent' = [ent EXCEPT ![p] = nhist.made + 1], to' = [to EXCEPT ![p] = k],
         UNCHANGED <<obj, data, fd>>, nhist'.made = nhist.made + 1, DOMAIN nhist' = DOMAIN nhist,
         act' = [act EXCEPT ![t] = act'[t]], OpShape(t)', Remover(t)',
         act'[t].pc = "attrs" => act'[t].o = nhist.made + 1,
         act'[t].pc \notin {"rm_data", "open", "enter"}, act[t].pc \notin {"rm_data", "enter"}
  PROVE  DataInv'
<1> DEFINE w == nhist.made + 1
<1>0. nhist.made \in Nat /\ w \in Nat
  BY LioAssumption DEF DataInv, Shape, Objs
<1>1. ent' \in [AllNames -> Nat] /\ to' \in [AllNames -> AllNames \cup {NoName}]
  BY <1>0 DEF DataInv, Shape
<1>2. \A n \in AllNames : n # p => ent'[n] = ent[n] /\ to'[n] = to[n]
  BY DEF DataInv, Shape
<1>3. ent'[p] = w /\ to'[p] = k /\ nhist.made \in Nat
  BY <1>0 DEF DataInv, Shape
<1>4. obj[w].ex = 0 /\ ~obj[w].alloc
  BY <1>3 DEF DataInv, World, Numbered, OneExnode
<1>5. Shape'
  BY <1>1, ShapeKept DEF DataInv, Shape, ObjShape, Objs
<1>6. Numbered'
  BY <1>2, <1>3 DEF DataInv, World, Numbered, Shape, ObjShape, FdShape, Objs
<1>7. \A n \in AllNames : ent[n] # w
  BY <1>3 DEF DataInv, World, Numbered, Shape
<1>8. Kinds'
  BY <1>2, <1>3, <1>4, <1>7 DEF DataInv, World, Kinds
<1>9. OneExnode'
  BY DEF DataInv, World, OneExnode, Objs
<1>10. Kept'
  BY <1>2, <1>3, <1>4 DEF DataInv, World, Kept
<1>11. \A u \in NsThreads : u # t => act'[u] = act[u]
  BY DEF DataInv, Shape
<1>12. Owned'
  <2> SUFFICES ASSUME NEW y \in data PROVE (HasFile(y) \/ HasUser(y) \/ HasRemover(y))'
    BY DEF Owned
  <2>1. HasFile(y) => HasFile(y)'
    BY <1>2 DEF HasFile
  <2>2. HasUser(y) => HasUser(y)'
    BY DEF HasUser
  <2>3. HasRemover(y) => HasRemover(y)'
    BY <1>11 DEF HasRemover
  <2> QED BY <2>1, <2>2, <2>3 DEF DataInv, World, Owned
<1>13. ASSUME NEW u \in NsThreads, u # t PROVE Remover(u)'
  <2>1. Remover(u) /\ act'[u] = act[u]
    BY <1>11, <1>13 DEF DataInv
  <2>2. ReadOf(act[u]) => ReadOf(act[u])'
    BY <1>2, <1>3, <2>1 DEF ReadOf
  <2>3. act[u].pc = "rm_data" /\ act[u].al =>
          \A n \in AllNames : ent'[n] # 0 => obj'[ent'[n]].ex # act[u].ex
    BY <1>2, <1>3, <1>4, <2>1 DEF Remover
  <2> QED BY <1>3, <2>1, <2>2, <2>3 DEF Remover
<1>14. ASSUME NEW u \in NsThreads PROVE Pending(u)'
  <2>1. CASE u = t
    <3>1. ASSUME NEW o \in Objs PROVE obj[o].ex # w
      BY <1>3 DEF DataInv, World, Numbered, Shape, ObjShape
    <3>2. ASSUME NEW v \in NsThreads, v # t, act[v].pc = "attrs" PROVE act[v].o # w
      BY <1>3, <3>2 DEF DataInv, Pending
    <3>3. ASSUME NEW v \in NsThreads, act[v].pc = "rm_data", act[v].al PROVE act[v].ex # w
      BY <1>3, <3>3 DEF DataInv, Remover
    <3> QED BY <1>3, <1>11, <2>1, <3>1, <3>2, <3>3 DEF Pending
  <2>2. CASE u # t
    <3>1. Pending(u) /\ act'[u] = act[u]
      BY <1>11, <2>2 DEF DataInv
    <3> QED BY <1>3, <1>11, <2>2, <3>1 DEF Pending
  <2> QED BY <2>1, <2>2
<1> QED BY <1>5, <1>6, <1>8, <1>9, <1>10, <1>12, <1>13, <1>14 DEF DataInv, World

(* os_create_object *)
LEMMA CreateEntryOK ==
  ASSUME DataInv, NEW t \in NsThreads, CreateEntry(t)
  PROVE  nhist'.raced \/ DataInv'
<1> DEFINE p == act[t].p
           o == nhist.made + 1
<1>1. act[t].pc = "create" /\ OpShape(t) /\ p \in AllNames /\ UNCHANGED <<obj, data, fd>>
  BY DEF CreateEntry, InStep, DataInv, Shape, OpShape
<1>2. CASE /\ ent[p] = 0 /\ o \in Objs
           /\ ent' = [ent EXCEPT ![p] = o] /\ to' = [to EXCEPT ![p] = NoName]
           /\ nhist' = [nhist EXCEPT !.made = o]
           /\ act' = [act EXCEPT ![t].pc = "attrs", ![t].o = o]
  <2>1. nhist'.made = o /\ DOMAIN nhist' = DOMAIN nhist
    BY <1>2 DEF DataInv, Shape
  <2>2. act' = [act EXCEPT ![t] = act'[t]] /\ act'[t] = [act[t] EXCEPT !.pc = "attrs", !.o = o]
    BY <1>2 DEF DataInv, Shape
  <2>3. act'[t].pc = "attrs" /\ act'[t].o = o /\ act'[t].p = p /\ act'[t].ex = act[t].ex
        /\ DOMAIN act'[t] = DOMAIN act[t]
    BY <1>1, <2>2 DEF OpShape, OpFields
  <2>4. o \in Nat
    BY <1>2, LioAssumption DEF Objs
  <2>5. OpShape(t)'
    BY <1>1, <2>3, <2>4 DEF OpShape, TwoNames
  <2>6. Remover(t)'
    BY <2>3 DEF Remover
  <2> QED BY <1>1, <1>2, <2>1, <2>2, <2>3, <2>5, <2>6, NameAdded
<1>3. CASE Races(TRUE)
  BY <1>3 DEF Races, DataInv, Shape
<1>4. CASE Faulty /\ NsReturn(t) /\ UNCHANGED <<ent, to>>
  BY <1>1, <1>4, CalmReturn DEF Faulty, DataInv, Shape
<1> QED BY <1>2, <1>3, <1>4 DEF CreateEntry

(* lio_link_object_fn, a symbolic link *)
LEMMA LioSymlinkOK ==
  ASSUME DataInv, NEW t \in NsThreads, LioSymlink(t)
  PROVE  DataInv'
<1> DEFINE q == act[t].q
           o == nhist.made + 1
<1>1. act[t].pc = "symlink" /\ OpShape(t) /\ act[t].p \in AllNames /\ q \in AllNames
      /\ UNCHANGED <<obj, data, fd>>
  BY DEF LioSymlink, InStep, DataInv, Shape, OpShape, TwoNames
<1>2. CASE ent[q] = 0 /\ o \in Objs
  <2>1. nhist'.made = o /\ DOMAIN nhist' = DOMAIN nhist
    BY <1>2 DEF LioSymlink, DataInv, Shape
  <2>2. act' = [act EXCEPT ![t] = act'[t]] /\ act'[t] = [act[t] EXCEPT !.pc = "sym_attrs"]
    BY <1>2 DEF LioSymlink, NsGoto, DataInv, Shape
  <2>3. act'[t].pc = "sym_attrs" /\ act'[t].p = act[t].p /\ act'[t].q = q /\ act'[t].o = act[t].o
        /\ act'[t].ex = act[t].ex /\ DOMAIN act'[t] = DOMAIN act[t]
    BY <1>1, <2>2 DEF OpShape, OpFields
  <2>4. OpShape(t)' /\ Remover(t)'
    BY <1>1, <2>3 DEF OpShape, TwoNames, Remover
  <2>5. ent' = [ent EXCEPT ![q] = o] /\ to' = [to EXCEPT ![q] = act[t].p]
    BY <1>2 DEF LioSymlink
  <2> QED BY <1>1, <1>2, <2>1, <2>2, <2>3, <2>4, <2>5, NameAdded
<1>3. CASE ~(ent[q] = 0 /\ o \in Objs)
  BY <1>1, <1>3, CalmReturn DEF LioSymlink
<1> QED BY <1>2, <1>3


-----------------------------------------------------------------------------
(* A new exnode is put on a file that says it has no data. *)
PutsExnode(t, w) ==
  /\ w <= nhist.made /\ ~obj[w].alloc /\ \A n \in AllNames : ent[n] = w => to[n] = NoName
  /\ DOMAIN obj' = Objs /\ \A o \in Objs : o # w => obj'[o] = obj[o]
  /\ {"own", "ex", "alloc"} \subseteq DOMAIN obj'[w] /\ ~obj'[w].alloc
  /\ obj'[w].ex \in Nat /\ obj'[w].ex # 0 /\ obj'[w].ex <= nhist'.made
  /\ \A o \in Objs : obj[o].ex # obj'[w].ex
  /\ \A u \in NsThreads : u # t /\ act[u].pc = "attrs" => act[u].o # obj'[w].ex
  /\ \A u \in NsThreads : act[u].pc = "rm_data" /\ act[u].al => act[u].ex # obj'[w].ex
  /\ act' = [act EXCEPT ![t] = NoOp] /\ act[t].pc \notin {"rm_data", "enter"}
  /\ ent' = ent /\ to' = to /\ data' = data /\ fd' = fd
  /\ nhist'.made \in Objs /\ nhist'.made >= nhist.made /\ DOMAIN nhist' = DOMAIN nhist

(* It is that of no other file, and nobody loses data by it. *)
LEMMA ExnodePut ==
  ASSUME DataInv, NEW t \in NsThreads, NEW w \in Objs, PutsExnode(t, w)
  PROVE  DataInv'
<1> USE DEF PutsExnode
<1>0. nhist.made \in Nat /\ nhist'.made \in Nat /\ w \in Nat
  BY LioAssumption DEF DataInv, Shape, Objs
<1>1. act' = [act EXCEPT ![t] = act'[t]] /\ act'[t] = NoOp
      /\ \A u \in NsThreads : u # t => act'[u] = act[u]
  BY DEF DataInv, Shape
<1>2. OpShape(t)' /\ Pending(t)' /\ Remover(t)' /\ act'[t].pc = "idle"
  BY <1>1, IdleOK
<1>3. \A o \in Objs : ObjShape(o)'
  BY DEF DataInv, Shape, ObjShape
<1>4. Shape'
  BY <1>1, <1>2, <1>3, ShapeKept DEF DataInv, Shape
<1>5. \A o \in Objs : obj[o].ex \in Nat /\ obj'[o].ex \in Nat
  BY <1>3 DEF DataInv, Shape, ObjShape
<1>6. \A n \in AllNames : ent[n] # 0 => ent[n] \in Objs
  BY FollowedOK
<1>7. Numbered'
  <2>1. \A n \in AllNames : ent'[n] <= nhist'.made
    BY <1>0 DEF DataInv, World, Numbered, Shape
  <2>2. \A o \in Objs : obj'[o].ex <= nhist'.made
    BY <1>0, <1>5 DEF DataInv, World, Numbered
  <2>3. \A o \in Objs : o > nhist'.made => obj'[o].ex = 0
    BY <1>0, LioAssumption DEF DataInv, World, Numbered, Objs
  <2>4. \A u \in Mount : fd'[u].ex <= nhist'.made
    BY <1>0 DEF DataInv, World, Numbered, Shape, FdShape
  <2>5. data' \subseteq 1 .. nhist'.made
    BY <1>0 DEF DataInv, World, Numbered
  <2> QED BY <2>1, <2>2, <2>3, <2>4, <2>5 DEF Numbered
<1>8. Kinds'
  BY <1>6 DEF DataInv, World, Kinds
<1>9. OneExnode'
  BY DEF DataInv, World, OneExnode
<1>10. Kept'
  BY <1>6 DEF DataInv, World, Kept
<1>11. Owned'
  <2> SUFFICES ASSUME NEW y \in data PROVE (HasFile(y) \/ HasUser(y) \/ HasRemover(y))'
    BY DEF Owned
  <2>1. HasFile(y) => HasFile(y)'
    BY <1>6 DEF HasFile
  <2>2. HasUser(y) => HasUser(y)'
    BY DEF HasUser
  <2>3. HasRemover(y) => HasRemover(y)'
    BY <1>1 DEF HasRemover
  <2> QED BY <2>1, <2>2, <2>3 DEF DataInv, World, Owned
<1>12. ASSUME NEW u \in NsThreads, u # t PROVE Remover(u)' /\ Pending(u)'
  <2>1. Remover(u) /\ Pending(u) /\ act'[u] = act[u]
    BY <1>1, <1>12 DEF DataInv
  <2>2. ReadOf(act[u]) => ReadOf(act[u])'
    BY <1>0, <2>1 DEF ReadOf
  <2>3. act[u].pc = "rm_data" /\ act[u].al =>
          \A n \in AllNames : ent'[n] # 0 => obj'[ent'[n]].ex # act[u].ex
    BY <1>6, <2>1 DEF Remover
  <2>4. Remover(u)'
    BY <1>0, <2>1, <2>2, <2>3 DEF Remover
  <2>5. act[u].pc = "attrs" => act[u].o \in 1 .. nhist'.made /\ \A o \in Objs : obj'[o].ex # act[u].o
    BY <1>0, <1>12, <2>1 DEF Pending
  <2>6. Pending(u)'
    BY <1>1, <1>2, <2>1, <2>5 DEF Pending
  <2> QED BY <2>4, <2>6
<1> QED BY <1>2, <1>4, <1>7, <1>8, <1>9, <1>10, <1>11, <1>12 DEF DataInv, World

(* lio_create_object_fn puts the attributes on, or takes the name away. *)
LEMMA CreateAttrsOK ==
  ASSUME DataInv, NEW t \in NsThreads, CreateAttrs(t)
  PROVE  nhist'.raced \/ DataInv'
<1> DEFINE p == act[t].p
<1> SUFFICES ASSUME ~nhist'.raced PROVE DataInv'
  OBVIOUS
<1>1. act[t].pc = "attrs" /\ OpShape(t) /\ Pending(t) /\ p \in AllNames /\ UNCHANGED <<data, fd>>
      /\ NsReturn(t)
  BY DEF CreateAttrs, InStep, DataInv, Shape, OpShape
<1>2. nhist'.made = nhist.made /\ DOMAIN nhist' = DOMAIN nhist
  BY DEF CreateAttrs, Races, DataInv, Shape
<1>3. act' = [act EXCEPT ![t] = NoOp] /\ act' = [act EXCEPT ![t] = act'[t]] /\ act'[t] = NoOp
  BY <1>1, Returned DEF NsReturn
<1>4. CASE /\ ent[p] # 0
           /\ obj' = [obj EXCEPT ![ent[p]] = [own |-> TRUE, ex |-> act[t].o, alloc |-> FALSE]]
           /\ Races(obj[ent[p]].alloc \/ to[p] # NoName) /\ UNCHANGED <<ent, to>>
  <2>0. PICK w \in Objs : w = ent[p]
    BY <1>1, <1>4, FollowedOK
  <2>9. PICK x : x = act[t].o
    OBVIOUS
  <2>1. w \in Objs /\ w <= nhist.made
    BY <1>1, <2>0 DEF DataInv, World, Numbered
  <2>2. ~obj[w].alloc /\ to[p] = NoName
    BY <1>4, <2>0 DEF Races, DataInv, Shape
  <2>3. \A n \in AllNames : ent[n] = w => to[n] = NoName
    BY <1>1, <1>4, <2>0, <2>2 DEF DataInv, World, Kinds
  <2>4. DOMAIN obj' = Objs /\ (\A o \in Objs : o # w => obj'[o] = obj[o])
        /\ obj'[w] = [own |-> TRUE, ex |-> x, alloc |-> FALSE]
    BY <1>4, <2>0, <2>9, <2>1 DEF DataInv, Shape
  <2>5. x \in Nat /\ x # 0 /\ x <= nhist.made
    BY <1>1, <2>9 DEF Pending, OpShape
  <2>6. {"own", "ex", "alloc"} \subseteq DOMAIN obj'[w] /\ obj'[w].ex = x /\ ~obj'[w].alloc
    BY <2>4
  <2>7. nhist.made \in Objs /\ nhist.made >= nhist.made
    BY LioAssumption DEF DataInv, Shape, Objs
  <2>8. /\ \A o \in Objs : obj[o].ex # obj'[w].ex
        /\ \A u \in NsThreads : u # t /\ act[u].pc = "attrs" => act[u].o # obj'[w].ex
        /\ \A u \in NsThreads : act[u].pc = "rm_data" /\ act[u].al => act[u].ex # obj'[w].ex
    BY <1>1, <2>6, <2>9 DEF Pending
  <2>10. obj'[w].ex <= nhist'.made /\ nhist'.made \in Objs /\ nhist'.made >= nhist.made
    BY <1>2, <2>5, <2>6, <2>7
  <2>11. act[t].pc \notin {"rm_data", "enter"} /\ UNCHANGED <<ent, to, data, fd>>
    BY <1>1, <1>4
  <2>12. DOMAIN obj' = Objs /\ \A o \in Objs : o # w => obj'[o] = obj[o]
    BY <2>4
  <2>13. PutsExnode(t, w)
    BY ONLY <1>2, <1>3, <2>1, <2>2, <2>3, <2>5, <2>6, <2>8, <2>10, <2>11, <2>12 DEF PutsExnode
  <2> QED BY <2>13, ExnodePut
<1>5. CASE /\ Races(ent[p] \notin {0, act[t].o} \/ (ent[p] # 0 /\ ExnodeOf(p) \in data))
           /\ ent' = [ent EXCEPT ![p] = 0] /\ to' = [to EXCEPT ![p] = NoName]
           /\ UNCHANGED obj
  <2>1. ent[p] = 0 \/ ExnodeOf(p) \notin data
    BY <1>5 DEF Races, DataInv, Shape
  <2>2. OpShape(t)' /\ Pending(t)' /\ Remover(t)' /\ act'[t].pc = "idle"
    BY <1>3, IdleOK
  <2>3. Shape'
    BY <1>1, <1>2, <1>3, <1>5, <2>2, ShapeKept, NameLost DEF DataInv, Shape, ObjShape, Objs
  <2>4. \A u \in NsThreads : u # t => act'[u] = act[u]
    BY <1>3 DEF DataInv, Shape
  <2>5. ent[p] = 0 \/ obj[ent[p]].ex \notin data
    <3>1. CASE to[p] = NoName
      BY <1>1, <2>1, <3>1, FollowedOK
    <3>2. CASE to[p] # NoName
      BY <1>1, <3>2 DEF DataInv, World, Kinds, Numbered
    <3> QED BY <3>1, <3>2
  <2>6. Owned'
    <3> SUFFICES ASSUME NEW y \in data PROVE (HasFile(y) \/ HasUser(y) \/ HasRemover(y))'
      BY <1>1 DEF Owned
    <3>1. HasFile(y) => HasFile(y)'
      <4>1. CASE ent[p] = 0
        <5>1. ent' = ent
          BY <1>1, <1>5, <4>1 DEF DataInv, Shape
        <5> QED BY <1>5, <5>1 DEF HasFile
      <4>2. CASE ent[p] # 0
        BY <1>1, <1>2, <1>5, <2>5, <4>2, NameLost
      <4> QED BY <4>1, <4>2
    <3>2. HasUser(y) => HasUser(y)'
      BY <1>1 DEF HasUser
    <3>3. HasRemover(y) => HasRemover(y)'
      BY <1>1, <2>4 DEF HasRemover
    <3> QED BY <3>1, <3>2, <3>3 DEF DataInv, World, Owned
  <2>7. World'
    BY <1>1, <1>2, <1>5, <2>6, NameLost DEF World
  <2>8. ASSUME NEW u \in NsThreads, u # t PROVE Pending(u)'
    BY <1>2, <1>5, <2>2, <2>4, <2>8 DEF DataInv, Pending
  <2> QED BY <1>1, <1>2, <1>5, <2>2, <2>3, <2>4, <2>7, <2>8, NameLost DEF DataInv
<1> QED BY <1>4, <1>5 DEF CreateAttrs


-----------------------------------------------------------------------------
(* A step that gives objects an owner leaves exnodes and data alone. *)
LEMMA OwnPut ==
  ASSUME DataInv, NEW t \in NsThreads, act' = [act EXCEPT ![t] = act'[t]],
         UNCHANGED <<ent, to, data, fd, nhist>>, DOMAIN obj' = Objs,
         \A o \in Objs : {"own", "ex", "alloc"} \subseteq DOMAIN obj'[o]
                         /\ obj'[o].ex = obj[o].ex /\ obj'[o].alloc = obj[o].alloc,
         OpShape(t)', Remover(t)', act'[t].pc \notin {"rm_data", "attrs", "open", "enter"},
         act[t].pc \notin {"rm_data", "enter"}
  PROVE  DataInv'
<1>1. \A u \in NsThreads : u # t => act'[u] = act[u]
  BY DEF DataInv, Shape
<1>2. \A n \in AllNames : ent[n] # 0 => ent[n] \in Objs
  BY FollowedOK
<1>3. Shape'
  BY ShapeKept DEF DataInv, Shape, ObjShape
<1>4. Numbered' /\ Kinds' /\ OneExnode' /\ Kept'
  <2>1. Numbered'
    BY DEF DataInv, World, Numbered
  <2>2. Kinds'
    BY <1>2 DEF DataInv, World, Kinds
  <2>3. OneExnode'
    BY DEF DataInv, World, OneExnode
  <2>4. Kept'
    BY <1>2 DEF DataInv, World, Kept
  <2> QED BY <2>1, <2>2, <2>3, <2>4
<1>5. Owned'
  <2> SUFFICES ASSUME NEW y \in data PROVE (HasFile(y) \/ HasUser(y) \/ HasRemover(y))'
    BY DEF Owned
  <2>1. HasFile(y) => HasFile(y)'
    BY <1>2 DEF HasFile
  <2>2. HasUser(y) => HasUser(y)'
    BY DEF HasUser
  <2>3. HasRemover(y) => HasRemover(y)'
    BY <1>1 DEF HasRemover
  <2> QED BY <2>1, <2>2, <2>3 DEF DataInv, World, Owned
<1>6. ASSUME NEW u \in NsThreads, u # t PROVE Remover(u)' /\ Pending(u)'
  <2>1. Remover(u) /\ Pending(u) /\ act'[u] = act[u]
    BY <1>1, <1>6 DEF DataInv
  <2>2. Remover(u)'
    BY <1>2, <2>1 DEF Remover, ReadOf
  <2>3. Pending(u)'
    BY <1>1, <2>1 DEF Pending
  <2> QED BY <2>2, <2>3
<1>7. Pending(t)'
  BY DEF Pending
<1> QED BY <1>3, <1>4, <1>5, <1>6, <1>7 DEF DataInv, World

(* The attributes of a symbolic link. *)
LEMMA LinkAttrsOK ==
  ASSUME DataInv, NEW t \in NsThreads, LinkAttrs(t)
  PROVE  DataInv'
<1>1. act[t].pc = "sym_attrs" /\ NsReturn(t) /\ UNCHANGED <<ent, to, data, fd>>
  BY DEF LinkAttrs, InStep
<1>2. CASE Faulty /\ UNCHANGED obj
  BY <1>1, <1>2, CalmReturn DEF Faulty, DataInv, Shape
<1>3. CASE UNCHANGED nhist /\ obj' = [x \in Objs |-> IF x = ent[act[t].q]
                                          THEN [obj[x] EXCEPT !.own = TRUE] ELSE obj[x]]
  <2>1. DOMAIN obj' = Objs /\ \A o \in Objs : {"own", "ex", "alloc"} \subseteq DOMAIN obj'[o]
                         /\ obj'[o].ex = obj[o].ex /\ obj'[o].alloc = obj[o].alloc
    BY <1>3 DEF DataInv, Shape, ObjShape
  <2> QED BY <1>1, <1>3, <2>1, Returned, IdleOK, OwnPut
<1> QED BY <1>2, <1>3 DEF LinkAttrs

(* lio_fsck_check_object puts an owner in. *)
LEMMA FsckOwnerOK ==
  ASSUME DataInv, NEW t \in NsThreads, FsckOwner(t)
  PROVE  DataInv'
<1> DEFINE n == ent[act[t].p]
<1>1. act[t].pc = "fsck_owner" /\ OpShape(t) /\ Remover(t) /\ act[t].p \in AllNames
      /\ UNCHANGED <<ent, to, data, fd, nhist>>
  BY DEF FsckOwner, InStep, DataInv, Shape, OpShape
<1>2. CASE NsGoto(t, "rm_attr") /\ UNCHANGED obj
  BY <1>1, <1>2, CalmGoto DEF TwoNames
<1>3. CASE NsGoto(t, "fsck_exnode") /\ UNCHANGED obj
  BY <1>1, <1>3, CalmGoto DEF TwoNames
<1>4. CASE NsGoto(t, "fsck_exnode") /\ n # 0 /\ obj' = [obj EXCEPT ![n].own = TRUE]
  <2>1. n \in Objs
    BY <1>1, <1>4, FollowedOK
  <2>2. DOMAIN obj' = Objs /\ \A o \in Objs : {"own", "ex", "alloc"} \subseteq DOMAIN obj'[o]
                         /\ obj'[o].ex = obj[o].ex /\ obj'[o].alloc = obj[o].alloc
    BY <1>4, <2>1 DEF DataInv, Shape, ObjShape
  <2>3. act' = [act EXCEPT ![t] = act'[t]] /\ act'[t] = [act[t] EXCEPT !.pc = "fsck_exnode"]
    BY <1>4 DEF NsGoto, DataInv, Shape
  <2>4. act'[t].pc = "fsck_exnode" /\ act'[t].p = act[t].p /\ act'[t].o = act[t].o
        /\ act'[t].ex = act[t].ex /\ act'[t].was = act[t].was /\ act'[t].typ = act[t].typ
        /\ act'[t].known = act[t].known /\ DOMAIN act'[t] = DOMAIN act[t]
    BY <1>1, <2>3 DEF OpShape, OpFields
  <2>5. OpShape(t)' /\ Remover(t)'
    BY <1>1, <2>4 DEF OpShape, TwoNames, Remover, ReadOf
  <2> QED BY <1>1, <2>2, <2>3, <2>4, <2>5, OwnPut
<1> QED BY <1>2, <1>3, <1>4 DEF FsckOwner

(* lio_fsck_check_object puts an exnode on a file that has none. *)
LEMMA FsckExnodeOK ==
  ASSUME DataInv, NEW t \in NsThreads, FsckExnode(t)
  PROVE  nhist'.raced \/ DataInv'
<1> DEFINE a == act[t]
           n == Followed(a.p)
           x == nhist.made + 1
<1> SUFFICES ASSUME ~nhist'.raced PROVE DataInv'
  OBVIOUS
<1>1. a.pc = "fsck_exnode" /\ OpShape(t) /\ Remover(t) /\ a.p \in AllNames
      /\ UNCHANGED <<ent, to, data, fd>>
  BY DEF FsckExnode, InStep, DataInv, Shape, OpShape
<1>2. CASE NsReturn(t) /\ UNCHANGED <<obj, nhist>>
  BY <1>1, <1>2, CalmReturn
<1>3. CASE NsGoto(t, "rm_attr") /\ UNCHANGED <<obj, nhist>>
  BY <1>1, <1>3, CalmGoto DEF TwoNames
<1>4. CASE /\ n # 0 /\ x \in Objs /\ NsReturn(t)
           /\ obj' = [obj EXCEPT ![n].ex = x, ![n].alloc = FALSE]
           /\ nhist' = [nhist EXCEPT !.made = x, !.raced = @ \/ obj[n].ex # 0]
  <2>1. nhist'.made = x /\ DOMAIN nhist' = DOMAIN nhist /\ obj[n].ex = 0
    BY <1>4 DEF DataInv, Shape
  <2>2. x \in Nat /\ nhist.made \in Nat
    BY <1>4, LioAssumption DEF DataInv, Shape, Objs
  <2>3. act' = [act EXCEPT ![t] = NoOp] /\ act' = [act EXCEPT ![t] = act'[t]] /\ act'[t] = NoOp
    BY <1>4, Returned DEF NsReturn
  <2>4. PICK w \in Objs : w = n
    BY <1>1, <1>4, FollowedOK
  <2>5. DOMAIN obj' = Objs /\ (\A o \in Objs : o # w => obj'[o] = obj[o])
        /\ obj'[w] = [obj[w] EXCEPT !.ex = x, !.alloc = FALSE]
    BY <1>4, <2>4 DEF DataInv, Shape
  <2>6. {"own", "ex", "alloc"} \subseteq DOMAIN obj'[w] /\ obj'[w].ex = x /\ ~obj'[w].alloc
    BY <2>5 DEF DataInv, Shape, ObjShape
  <2>7. ~obj[w].alloc
    BY <1>4, <2>1, <2>4 DEF DataInv, World, OneExnode
  <2>8. PICK m \in AllNames : ent[m] = w /\ to[m] = NoName
    BY <1>1, <1>4, <2>4, FollowedOK
  <2>9. w <= nhist.made /\ \A k \in AllNames : ent[k] = w => to[k] = NoName
    BY <1>4, <2>4, <2>8 DEF DataInv, World, Numbered, Kinds
  <2>10. /\ \A o \in Objs : obj[o].ex # obj'[w].ex
         /\ \A u \in NsThreads : u # t /\ act[u].pc = "attrs" => act[u].o # obj'[w].ex
         /\ \A u \in NsThreads : act[u].pc = "rm_data" /\ act[u].al => act[u].ex # obj'[w].ex
    <3>1. \A o \in Objs : obj[o].ex # x
      BY <2>2 DEF DataInv, World, Numbered, Shape, ObjShape
    <3>2. \A u \in NsThreads : act[u].pc = "attrs" => act[u].o # x
      BY <2>2 DEF DataInv, Pending
    <3>3. \A u \in NsThreads : act[u].pc = "rm_data" /\ act[u].al => act[u].ex # x
      BY <2>2 DEF DataInv, Remover
    <3> QED BY <2>6, <3>1, <3>2, <3>3
  <2>11. nhist'.made \in Objs /\ nhist'.made >= nhist.made /\ obj'[w].ex \in Nat
        /\ obj'[w].ex # 0 /\ obj'[w].ex <= nhist'.made
    BY <1>4, <2>1, <2>2, <2>6
  <2>12. act[t].pc \notin {"rm_data", "enter"} /\ UNCHANGED <<ent, to, data, fd>>
         /\ DOMAIN nhist' = DOMAIN nhist
    BY <1>1, <2>1
  <2>13. DOMAIN obj' = Objs /\ \A o \in Objs : o # w => obj'[o] = obj[o]
    BY <2>5
  <2>14. {"own", "ex", "alloc"} \subseteq DOMAIN obj'[w] /\ ~obj'[w].alloc
    BY <2>6
  <2>15. PutsExnode(t, w)
    BY ONLY <2>3, <2>7, <2>9, <2>10, <2>11, <2>12, <2>13, <2>14 DEF PutsExnode
  <2> QED BY <2>15, ExnodePut
<1> QED BY <1>2, <1>3, <1>4 DEF FsckExnode


-----------------------------------------------------------------------------
(* lio_link_object_fn, a hard link: the file has one name more. *)
LEMMA LioHardlinkOK ==
  ASSUME DataInv, NEW t \in NsThreads, LioHardlink(t)
  PROVE  DataInv'
<1> DEFINE p == act[t].p
           q == act[t].q
<1>1. act[t].pc = "hardlink" /\ p \in AllNames /\ q \in AllNames /\ p # q /\ NsReturn(t)
      /\ UNCHANGED <<to, obj, data, fd, nhist>>
  BY DEF LioHardlink, InStep, DataInv, Shape, OpShape, TwoNames
<1>2. act' = [act EXCEPT ![t] = act'[t]] /\ act'[t] = NoOp
  BY <1>1, Returned
<1>3. OpShape(t)' /\ Pending(t)' /\ Remover(t)' /\ act'[t].pc = "idle"
  BY <1>2, IdleOK
<1>4. CASE UNCHANGED ent
  BY <1>1, <1>4, CalmReturn
<1>5. CASE ent[p] # 0 /\ ent[q] = 0 /\ to[p] = NoName /\ ent' = [ent EXCEPT ![q] = ent[p]]
  <2>1. \A n \in AllNames : n # q => ent'[n] = ent[n]
    BY <1>5 DEF DataInv, Shape
  <2>2. ent'[q] = ent[p] /\ to[q] = NoName /\ ent' \in [AllNames -> Nat]
    BY <1>1, <1>5 DEF DataInv, Shape, World, Kinds
  <2>3. Shape'
    BY <1>1, <1>2, <1>3, <2>2, ShapeKept DEF DataInv, Shape, ObjShape, Objs
  <2>4. \A n \in AllNames : \E m \in AllNames : ent'[n] = ent[m] /\ to'[n] = to[m]
    BY <1>1, <1>5, <2>1, <2>2
  <2>5. Numbered'
    BY <1>1, <2>4 DEF DataInv, World, Numbered, Objs
  <2>6. Kinds'
    BY <1>1, <1>5, <2>1, <2>2 DEF DataInv, World, Kinds
  <2>7. OneExnode'
    BY <1>1 DEF DataInv, World, OneExnode, Objs
  <2>8. Kept'
    BY <1>1, <2>4 DEF DataInv, World, Kept
  <2>9. \A u \in NsThreads : u # t => act'[u] = act[u]
    BY <1>2 DEF DataInv, Shape
  <2>10. Owned'
    <3> SUFFICES ASSUME NEW y \in data PROVE (HasFile(y) \/ HasUser(y) \/ HasRemover(y))'
      BY <1>1 DEF Owned
    <3>1. HasFile(y) => HasFile(y)'
      BY <1>1, <1>5, <2>1 DEF HasFile
    <3>2. HasUser(y) => HasUser(y)'
      BY <1>1 DEF HasUser
    <3>3. HasRemover(y) => HasRemover(y)'
      BY <1>1, <2>9 DEF HasRemover
    <3> QED BY <3>1, <3>2, <3>3 DEF DataInv, World, Owned
  <2>11. ASSUME NEW u \in NsThreads, u # t PROVE Remover(u)' /\ Pending(u)'
    <3>1. Remover(u) /\ Pending(u) /\ act'[u] = act[u]
      BY <2>9, <2>11 DEF DataInv
    <3>2. ReadOf(act[u]) => ReadOf(act[u])'
      BY <1>1, <2>4, <3>1 DEF ReadOf
    <3>3. Remover(u)'
      BY <1>1, <2>4, <3>1, <3>2 DEF Remover
    <3>4. Pending(u)'
      BY <1>1, <1>3, <2>9, <3>1 DEF Pending
    <3> QED BY <3>3, <3>4
  <2> QED BY <1>3, <2>3, <2>5, <2>6, <2>7, <2>8, <2>10, <2>11 DEF DataInv, World
<1> QED BY <1>4, <1>5 DEF LioHardlink

(* os_move_object: the file has another name. *)
LEMMA LioMoveOK ==
  ASSUME DataInv, NEW t \in NsThreads, LioMove(t)
  PROVE  DataInv'
<1> DEFINE p == act[t].p
           q == act[t].q
           ok == ent[p] # 0 /\ ent[q] = 0
<1>1. act[t].pc = "move" /\ p \in AllNames /\ q \in AllNames /\ p # q /\ NsReturn(t)
      /\ UNCHANGED <<obj, data>>
  BY DEF LioMove, InStep, DataInv, Shape, OpShape, TwoNames
<1>2. act' = [act EXCEPT ![t] = act'[t]] /\ act'[t] = NoOp
  BY <1>1, Returned
<1>3. OpShape(t)' /\ Pending(t)' /\ Remover(t)' /\ act'[t].pc = "idle"
  BY <1>2, IdleOK
<1>4. CASE ~ok
  <2>1. nhist'.made = nhist.made /\ DOMAIN nhist' = DOMAIN nhist
    BY <1>4 DEF LioMove, Races, DataInv, Shape
  <2>2. UNCHANGED <<ent, to, fd>>
    BY <1>4 DEF LioMove
  <2> QED BY <1>1, <2>1, <2>2, CalmReturn
<1>5. CASE ok
  <2>0. /\ ent' = [ent EXCEPT ![q] = ent[p], ![p] = 0]
        /\ to' = [to EXCEPT ![q] = to[p], ![p] = NoName]
        /\ fd' = [u \in Mount |-> IF t \in Mount /\ fd[u].name = p
                                  THEN [fd[u] EXCEPT !.name = q] ELSE fd[u]]
        /\ UNCHANGED nhist
    BY <1>5 DEF LioMove
  <2>1. \A n \in AllNames : n # q /\ n # p => ent'[n] = ent[n] /\ to'[n] = to[n]
    BY <2>0 DEF DataInv, Shape
  <2>2. ent'[q] = ent[p] /\ to'[q] = to[p] /\ ent'[p] = 0 /\ to'[p] = NoName
    BY <1>1, <2>0 DEF DataInv, Shape
  <2>3. ent' \in [AllNames -> Nat] /\ to' \in [AllNames -> AllNames \cup {NoName}]
    BY <1>1, <2>0 DEF DataInv, Shape
  <2>4. \A n \in AllNames : ent'[n] # 0 => \E m \in AllNames : ent'[n] = ent[m] /\ to'[n] = to[m]
    BY <1>1, <2>1, <2>2
  <2>5. \A m \in AllNames : ent[m] # 0 => \E n \in AllNames : ent'[n] = ent[m]
    BY <1>1, <1>5, <2>1, <2>2
  <2>6. \A u \in NsThreads : u # t => act'[u] = act[u]
    BY <1>2 DEF DataInv, Shape
  <2>7. \A u \in Mount : fd'[u].ex = fd[u].ex /\ FdShape(u)'
    <3> SUFFICES ASSUME NEW u \in Mount PROVE fd'[u].ex = fd[u].ex /\ FdShape(u)'
      OBVIOUS
    <3>1. FdShape(u) /\ u \in NsThreads
      BY DEF DataInv, Shape, NsThreads
    <3>2. CASE fd'[u] = fd[u]
      BY <1>1, <1>3, <2>6, <3>1, <3>2 DEF FdShape
    <3>3. CASE fd[u].name = p /\ fd'[u] = [fd[u] EXCEPT !.name = q]
      <4>1. fd'[u].ex = fd[u].ex /\ fd'[u].name = q /\ DOMAIN fd'[u] = DOMAIN fd[u]
        BY <3>1, <3>3 DEF FdShape
      <4>2. p # NoName /\ q # NoName
        BY <1>1, LioAssumption DEF AllNames
      <4>3. act[u].pc # "open"
        BY <3>1, <3>3, <4>2 DEF FdShape, Closed
      <4>4. act'[u].pc # "open" /\ (act'[u].pc = "enter" => act[u].pc = "enter")
        BY <1>3, <2>6, <3>1, <4>3
      <4> QED BY <1>1, <3>1, <3>3, <4>1, <4>2, <4>4 DEF FdShape
    <3> QED BY <2>0, <3>2, <3>3
  <2>8. Shape'
    <3>1. DOMAIN fd' = Mount
      BY <2>0
    <3>2. DOMAIN act' = NsThreads /\ \A u \in NsThreads : OpShape(u)'
      BY <1>2, <1>3, <2>6 DEF DataInv, Shape, OpShape
    <3> QED BY <1>1, <2>0, <2>3, <2>7, <3>1, <3>2 DEF DataInv, Shape, ObjShape, Objs
  <2>9. Numbered'
    <3>1. \A n \in AllNames : ent'[n] <= nhist'.made
      BY <2>0, <2>3, <2>4, LioAssumption DEF DataInv, World, Numbered, Shape, Objs
    <3> QED BY <1>1, <2>0, <2>7, <3>1 DEF DataInv, World, Numbered, Objs
  <2>10. Kinds'
    <3>1. \A n, m \in AllNames : ent'[n] # 0 /\ ent'[n] = ent'[m] /\ to'[n] = NoName => to'[m] = NoName
      BY <2>4 DEF DataInv, World, Kinds
    <3>2. \A n \in AllNames : ent'[n] # 0 /\ to'[n] # NoName => obj'[ent'[n]].ex = 0
      BY <1>1, <2>4 DEF DataInv, World, Kinds
    <3>3. \A n \in AllNames : ent'[n] = 0 => to'[n] = NoName
      BY <1>1, <1>5, <2>1, <2>2 DEF DataInv, World, Kinds
    <3> QED BY <3>1, <3>2, <3>3 DEF Kinds
  <2>11. OneExnode'
    BY <1>1 DEF DataInv, World, OneExnode, Objs
  <2>12. Kept'
    BY <1>1, <2>4 DEF DataInv, World, Kept
  <2>13. Owned'
    <3> SUFFICES ASSUME NEW y \in data PROVE (HasFile(y) \/ HasUser(y) \/ HasRemover(y))'
      BY <1>1 DEF Owned
    <3>1. HasFile(y) => HasFile(y)'
      BY <1>1, <2>5 DEF HasFile
    <3>2. HasUser(y) => HasUser(y)'
      BY <2>7 DEF HasUser
    <3>3. HasRemover(y) => HasRemover(y)'
      BY <1>1, <2>6 DEF HasRemover
    <3> QED BY <3>1, <3>2, <3>3 DEF DataInv, World, Owned
  <2>14. ASSUME NEW u \in NsThreads, u # t PROVE Remover(u)' /\ Pending(u)'
    <3>1. Remover(u) /\ Pending(u) /\ act'[u] = act[u]
      BY <2>6, <2>14 DEF DataInv
    <3>2. ReadOf(act[u]) => ReadOf(act[u])'
      <4> SUFFICES ASSUME ReadOf(act[u]) PROVE ReadOf(act[u])'
        OBVIOUS
      <4>1. act[u].was.o # 0 /\ (\A n \in AllNames : ent[n] = act[u].was.o => to[n] = NoName)
              => \A n \in AllNames : ent'[n] = act[u].was.o => to'[n] = NoName
        BY <2>4
      <4>2. act[u].was.o # 0 /\ (\A n \in AllNames : ent[n] = act[u].was.o => to[n] # NoName)
              => \A n \in AllNames : ent'[n] = act[u].was.o => to'[n] # NoName
        BY <2>4
      <4> QED BY <2>0, <3>1, <4>1, <4>2 DEF ReadOf
    <3>3. Remover(u)'
      <4>1. act[u].pc = "rm_data" /\ act[u].al =>
              \A n \in AllNames : ent'[n] # 0 => obj'[ent'[n]].ex # act[u].ex
        BY <1>1, <2>4, <3>1 DEF Remover
      <4> QED BY <2>0, <3>1, <3>2, <4>1 DEF Remover
    <3>4. Pending(u)'
      BY <1>1, <1>3, <2>0, <2>6, <3>1 DEF Pending
    <3> QED BY <3>3, <3>4
  <2> QED BY <1>3, <2>8, <2>9, <2>10, <2>11, <2>12, <2>13, <2>14 DEF DataInv, World
<1> QED BY <1>4, <1>5


-----------------------------------------------------------------------------
(* lfs_open *)
LEMMA LfsOpenOK ==
  ASSUME DataInv, NEW t \in Mount, LfsOpen(t)
  PROVE  DataInv'
<1> DEFINE x == ExnodeOf(act[t].p)
<1>0. t \in NsThreads
  BY DEF NsThreads
<1>1. act[t].pc = "open" /\ OpShape(t) /\ FdShape(t) /\ act[t].p \in AllNames
      /\ UNCHANGED <<ent, to, obj, data, nhist>>
  BY <1>0 DEF LfsOpen, InStep, DataInv, Shape, OpShape
<1>2. CASE x = 0
  BY <1>0, <1>1, <1>2, CalmReturn DEF LfsOpen
<1>3. CASE x # 0
  <2>1. act' = [act EXCEPT ![t] = act'[t]] /\ act'[t] = [act[t] EXCEPT !.pc = "enter"]
    BY <1>0, <1>3 DEF LfsOpen, NsGoto, DataInv, Shape
  <2>2. act'[t].pc = "enter" /\ act'[t].p = act[t].p /\ act'[t].o = act[t].o /\ act'[t].ex = act[t].ex
        /\ DOMAIN act'[t] = DOMAIN act[t]
    BY <1>1, <2>1 DEF OpShape, OpFields
  <2>3. OpShape(t)' /\ Pending(t)' /\ Remover(t)'
    BY <1>1, <2>2 DEF OpShape, TwoNames, Pending, Remover
  <2>4. DOMAIN fd' = Mount /\ (\A u \in Mount : u # t => fd'[u] = fd[u])
        /\ fd'[t] = [fd[t] EXCEPT !.ex = x]
    BY <1>3 DEF LfsOpen, DataInv, Shape
  <2>5. fd[t] = Closed /\ x \in 0 .. nhist.made
    BY <1>1, FollowedOK DEF FdShape
  <2>6. fd'[t].ex = x /\ fd'[t].name = NoName /\ {"ex", "name"} \subseteq DOMAIN fd'[t]
    BY <2>4, <2>5 DEF Closed
  <2>7. \A u \in NsThreads : u # t => act'[u] = act[u]
    BY <2>1 DEF DataInv, Shape
  <2>8. ASSUME NEW u \in Mount PROVE FdShape(u)' /\ fd'[u].ex <= nhist.made
    <3>1. CASE u = t
      BY <1>3, <2>2, <2>5, <2>6, <3>1 DEF FdShape
    <3>2. CASE u # t
      BY <2>4, <2>7, <3>2 DEF DataInv, Shape, FdShape, World, Numbered, NsThreads
    <3> QED BY <3>1, <3>2
  <2>9. \A y \in data : HasUser(y) => HasUser(y)'
    <3>1. fd[t].ex = 0 /\ 0 \notin data
      BY <2>5 DEF Closed, DataInv, World, Numbered
    <3> QED BY <2>4, <3>1 DEF HasUser
  <2>10. DOMAIN act' = NsThreads
    BY <2>1 DEF DataInv, Shape
  <2> QED BY <1>0, <1>1, <2>2, <2>3, <2>4, <2>7, <2>8, <2>9, <2>10, ActOnly
<1> QED BY <1>2, <1>3

(* The file is entered into the table. *)
LEMMA LfsOpenEnterOK ==
  ASSUME DataInv, NEW t \in Mount, LfsOpenEnter(t)
  PROVE  DataInv'
<1>0. t \in NsThreads
  BY DEF NsThreads
<1>1. act[t].pc = "enter" /\ FdShape(t) /\ act[t].p \in AllNames /\ NsReturn(t)
      /\ UNCHANGED <<ent, to, obj, data, nhist>>
  BY <1>0 DEF LfsOpenEnter, InStep, DataInv, Shape, OpShape
<1>2. act' = [act EXCEPT ![t] = act'[t]] /\ act'[t] = NoOp
  BY <1>0, <1>1, Returned
<1>3. OpShape(t)' /\ Pending(t)' /\ Remover(t)' /\ act'[t].pc = "idle"
  BY <1>2, IdleOK
<1>4. DOMAIN fd' = Mount /\ (\A u \in Mount : u # t => fd'[u] = fd[u])
      /\ fd'[t] = [fd[t] EXCEPT !.name = act[t].p]
  BY DEF LfsOpenEnter, DataInv, Shape
<1>5. fd'[t].ex = fd[t].ex /\ fd'[t].name = act[t].p /\ DOMAIN fd'[t] = DOMAIN fd[t]
  BY <1>1, <1>4 DEF FdShape
<1>6. \A u \in NsThreads : u # t => act'[u] = act[u]
  BY <1>2 DEF DataInv, Shape
<1>7. ASSUME NEW u \in Mount PROVE FdShape(u)' /\ fd'[u].ex = fd[u].ex
  <2>1. CASE u = t
    <3>1. act[t].p # NoName
      BY <1>1, LioAssumption DEF AllNames
    <3> QED BY <1>1, <1>3, <1>5, <2>1, <3>1 DEF FdShape
  <2>2. CASE u # t
    BY <1>4, <1>6, <2>2 DEF DataInv, Shape, FdShape, NsThreads
  <2> QED BY <2>1, <2>2
<1>8. \A u \in Mount : fd'[u].ex <= nhist.made
  BY <1>7 DEF DataInv, World, Numbered
<1>9. \A y \in data : HasUser(y) => HasUser(y)'
  BY <1>7 DEF HasUser
<1>10. DOMAIN act' = NsThreads
  BY <1>2 DEF DataInv, Shape
<1> QED BY <1>0, <1>1, <1>3, <1>4, <1>6, <1>7, <1>8, <1>9, <1>10, ActOnly

(* lfs_write: what is allocated belongs to an open file. *)
LEMMA LfsWriteOK ==
  ASSUME DataInv, NEW t \in Mount, LfsWrite(t)
  PROVE  DataInv'
<1>1. UNCHANGED <<ent, to, obj, fd, act, nhist>> /\ data' = data \cup {fd[t].ex} /\ fd[t].name # NoName
  BY DEF LfsWrite
<1>2. fd[t].ex \in 1 .. nhist.made
  BY <1>1, LioAssumption DEF DataInv, Shape, FdShape, World, Numbered, Objs
<1>3. Shape'
  BY <1>1 DEF DataInv, Shape, OpShape, FdShape, ObjShape, Objs
<1>4. Numbered' /\ Kinds' /\ OneExnode' /\ Kept'
  BY <1>1, <1>2 DEF DataInv, World, Numbered, Kinds, OneExnode, Kept, Objs
<1>5. Owned'
  BY <1>1 DEF DataInv, World, Owned, HasFile, HasUser, HasRemover
<1>6. \A u \in NsThreads : Pending(u)' /\ Remover(u)'
  BY <1>1 DEF DataInv, Pending, Remover, ReadOf
<1> QED BY <1>3, <1>4, <1>5, <1>6 DEF DataInv, World

(* lfs_object_create, lfs_object_remove and lfs_rename touch no file yet. *)
LEMMA LfsQuietOK ==
  ASSUME DataInv, NEW t \in NsThreads, LfsCreate(t) \/ LfsUnlink(t) \/ LfsRename(t)
  PROVE  DataInv'
<1>1. UNCHANGED <<ent, to, obj, data, fd>> /\ nhist'.made = nhist.made /\ DOMAIN nhist' = DOMAIN nhist
  BY DEF LfsCreate, LfsUnlink, LfsRename, Races, DataInv, Shape
<1>2. act[t].pc \in {"exists", "unlink", "rename"}
  BY DEF LfsCreate, LfsUnlink, LfsRename, InStep
<1>3. CASE NsReturn(t)
  BY <1>1, <1>2, <1>3, CalmReturn
<1>4. CASE act[t].pc = "exists" /\ NsGoto(t, "create")
  BY <1>1, <1>4, CalmGoto DEF TwoNames
<1>5. CASE act[t].pc = "unlink" /\ NsGoto(t, "rm_type")
  BY <1>1, <1>5, CalmGoto DEF TwoNames
<1>6. CASE act[t].pc = "rename" /\ NsGoto(t, "move")
  BY <1>1, <1>6, CalmGoto DEF TwoNames
<1>7. CASE act' = [act EXCEPT ![t] = NoOp]
  <2>1. act' = [act EXCEPT ![t] = act'[t]] /\ act'[t] = NoOp
    BY <1>7 DEF DataInv, Shape
  <2> QED BY <1>1, <1>2, <2>1, IdleOK, Calm
<1> QED BY <1>3, <1>4, <1>5, <1>6, <1>7 DEF LfsCreate, LfsUnlink, LfsRename, InStep


(* lfs_release: the last user of a file with data stores that it has them; *)
(* it was not last, or the file still has its name.                        *)
LEMMA LfsReleaseOK ==
  ASSUME DataInv, NEW t \in Mount, LfsRelease(t)
  PROVE  nhist'.raced \/ DataInv'
<1> DEFINE n    == fd[t].name
           x    == fd[t].ex
           last == \A u \in Mount \ {t} : fd[u].ex # x
           o    == Followed(n)
<1> SUFFICES ASSUME ~nhist'.raced PROVE DataInv'
  OBVIOUS
<1>0. t \in NsThreads
  BY DEF NsThreads
<1>1. act[t] = NoOp /\ act[t].pc = "idle" /\ fd[t] # Closed /\ FdShape(t)
      /\ UNCHANGED <<ent, to, data>>
  BY DEF LfsRelease, NoOp, DataInv, Shape
<1>2. n \in AllNames /\ x \in Nat /\ x # 0
  BY <1>1 DEF FdShape
<1>3. nhist'.made = nhist.made /\ DOMAIN nhist' = DOMAIN nhist
      /\ (last /\ x \in data => o # 0 /\ ExnodeOf(n) = x)
  BY DEF LfsRelease, Races, DataInv, Shape
<1>4. DOMAIN fd' = Mount /\ fd'[t] = Closed /\ \A u \in Mount : u # t => fd'[u] = fd[u]
  BY DEF LfsRelease, DataInv, Shape
<1>5. DOMAIN act' = NsThreads /\ (\A u \in NsThreads : u # t => act'[u] = act[u])
      /\ OpShape(t)' /\ Pending(t)' /\ Remover(t)' /\ act'[t].pc \in {"idle", "rm_type", "unlink"}
  <2>1. CASE act' = act
    <3>1. DOMAIN act' = NsThreads /\ \A u \in NsThreads : u # t => act'[u] = act[u]
      BY <2>1 DEF DataInv, Shape
    <3>2. act'[t] = NoOp
      BY <1>1, <2>1
    <3> QED BY <3>1, <3>2, IdleOK
  <2>2. CASE \E pc \in {"rm_type", "unlink"} : act' = [act EXCEPT ![t] = [NoOp EXCEPT !.pc = pc, !.p = n]]
    <3>0. PICK pc \in {"rm_type", "unlink"} : act' = [act EXCEPT ![t] = [NoOp EXCEPT !.pc = pc, !.p = n]]
      BY <2>2
    <3>1. DOMAIN act' = NsThreads /\ (\A u \in NsThreads : u # t => act'[u] = act[u])
          /\ act'[t] = [NoOp EXCEPT !.pc = pc, !.p = n]
      BY <1>0, <3>0 DEF DataInv, Shape
    <3>2. act'[t].pc = pc /\ act'[t].p = n /\ act'[t].ex = 0 /\ act'[t].o = 0 /\ ~act'[t].known
          /\ OpFields \subseteq DOMAIN act'[t]
      BY <3>1 DEF NoOp, OpFields
    <3>3. OpShape(t)' /\ Pending(t)' /\ Remover(t)'
      BY <1>2, <3>2 DEF OpShape, TwoNames, Pending, Remover
    <3> QED BY <3>1, <3>2, <3>3
  <2> QED BY <2>1, <2>2 DEF LfsRelease
<1>6. \A u \in NsThreads : u # t => act'[u] = act[u]
  BY <1>5
<1>7. ASSUME NEW u \in Mount PROVE FdShape(u)' /\ fd'[u].ex <= nhist.made
  <2>1. CASE u = t
    BY <1>3, <1>4, <1>5, <2>1, LioAssumption DEF FdShape, Closed, DataInv, Shape, Objs
  <2>2. CASE u # t
    BY <1>4, <1>6, <2>2 DEF DataInv, Shape, FdShape, World, Numbered, NsThreads
  <2> QED BY <2>1, <2>2
<1>8. CASE ~(last /\ x \in data)
  <2>1. UNCHANGED obj
    BY <1>8 DEF LfsRelease
  <2>2. ASSUME NEW y \in data, HasUser(y) PROVE HasUser(y)'
    <3>1. PICK u \in Mount : fd[u].ex = y
      BY <2>2 DEF HasUser
    <3>2. \E v \in Mount \ {t} : fd[v].ex = y
      BY <1>8, <3>1
    <3> QED BY <1>4, <3>2 DEF HasUser
  <2> QED BY <1>0, <1>1, <1>3, <1>4, <1>5, <1>6, <1>7, <2>1, <2>2, ActOnly
<1>9. CASE last /\ x \in data
  <2>1. PICK w \in Objs : w = o
    BY <1>2, <1>3, <1>9, FollowedOK
  <2>2. obj' = [obj EXCEPT ![w].ex = x, ![w].alloc = TRUE] /\ obj[w].ex = x
    BY <1>2, <1>3, <1>9, <2>1, FollowedOK DEF LfsRelease
  <2>3. DOMAIN obj' = Objs /\ (\A k \in Objs : k # w => obj'[k] = obj[k])
        /\ obj'[w].ex = x /\ obj'[w].alloc /\ {"own", "ex", "alloc"} \subseteq DOMAIN obj'[w]
    BY <2>2 DEF DataInv, Shape, ObjShape
  <2>4. \A k \in Objs : obj'[k].ex = obj[k].ex /\ (obj[k].alloc => obj'[k].alloc)
                        /\ (obj'[k].alloc => obj[k].alloc \/ obj'[k].ex = x) /\ ObjShape(k)'
    BY <1>2, <2>2, <2>3 DEF DataInv, Shape, ObjShape
  <2>5. \A m \in AllNames : ent[m] # 0 => ent[m] \in Objs
    BY FollowedOK
  <2>6. Shape'
    <3>1. DOMAIN act' = NsThreads /\ \A u \in NsThreads : OpShape(u)'
      BY <1>5, <1>6 DEF DataInv, Shape, OpShape
    <3> QED BY <1>1, <1>3, <1>4, <1>7, <2>3, <2>4, <3>1 DEF DataInv, Shape
  <2>7. Numbered'
    BY <1>1, <1>3, <1>7, <2>4 DEF DataInv, World, Numbered
  <2>8. Kinds'
    BY <1>1, <2>4, <2>5 DEF DataInv, World, Kinds
  <2>9. OneExnode'
    BY <1>2, <2>4 DEF DataInv, World, OneExnode
  <2>10. Kept'
    BY <1>1, <1>9, <2>4, <2>5 DEF DataInv, World, Kept
  <2>11. Owned'
    <3> SUFFICES ASSUME NEW y \in data PROVE (HasFile(y) \/ HasUser(y) \/ HasRemover(y))'
      BY <1>1 DEF Owned
    <3>1. HasFile(y) => HasFile(y)'
      BY <1>1, <2>4, <2>5 DEF HasFile
    <3>2. CASE y = x
      <4>1. PICK m \in AllNames : ent[m] = w
        BY <1>2, <1>3, <1>9, <2>1, FollowedOK
      <4>2. w # 0
        BY LioAssumption DEF Objs
      <4> QED BY <1>1, <2>3, <3>2, <4>1, <4>2 DEF HasFile
    <3>3. y # x /\ HasUser(y) => HasUser(y)'
      BY <1>4 DEF HasUser
    <3>4. HasRemover(y) => HasRemover(y)'
      BY <1>1, <1>6 DEF HasRemover
    <3> QED BY <3>1, <3>2, <3>3, <3>4 DEF DataInv, World, Owned
  <2>12. ASSUME NEW u \in NsThreads, u # t PROVE Remover(u)' /\ Pending(u)'
    <3>1. Remover(u) /\ Pending(u) /\ act'[u] = act[u]
      BY <1>6, <2>12 DEF DataInv
    <3>2. act[u].pc = "rm_data" /\ act[u].al =>
            \A m \in AllNames : ent'[m] # 0 => obj'[ent'[m]].ex # act[u].ex
      BY <1>1, <2>4, <2>5, <3>1 DEF Remover
    <3>3. ReadOf(act[u]) => ReadOf(act[u])'
      BY <1>1, <1>3, <3>1 DEF ReadOf
    <3>4. Remover(u)'
      BY <1>3, <3>1, <3>2, <3>3 DEF Remover
    <3>5. Pending(u)'
      BY <1>3, <1>5, <1>6, <2>4, <3>1 DEF Pending
    <3> QED BY <3>4, <3>5
  <2> QED BY <1>5, <2>6, <2>7, <2>8, <2>9, <2>10, <2>11, <2>12 DEF DataInv, World
<1> QED BY <1>8, <1>9

-----------------------------------------------------------------------------
(* Every step of the mount, the tools and lio keeps the invariant, or      *)
(* somebody got between the parts of an operation.                         *)
LEMMA DataStep == DataInv /\ NsNext => nhist'.raced \/ DataInv'
<1> SUFFICES ASSUME DataInv, NsNext PROVE nhist'.raced \/ DataInv'
  OBVIOUS
<1>1. ASSUME NEW t \in NsThreads, NsStep(t) PROVE nhist'.raced \/ DataInv'
  BY <1>1, CreateEntryOK, CreateAttrsOK, LfsQuietOK, RemoveTypeOK, RemoveAttrsOK, RemoveEntryOK,
     RemoveDataOK, LioHardlinkOK, LioSymlinkOK, LinkAttrsOK, LioMoveOK, FsckOwnerOK, FsckExnodeOK
  DEF NsStep
<1>2. ASSUME NEW t \in Mount, CallMount(t) PROVE DataInv'
  <2>0. t \in NsThreads /\ Names \subseteq AllNames /\ Hidden \in AllNames
    BY DEF NsThreads, AllNames
  <2>1. PICK p \in Names : CallMount(t)!(p)
    BY <1>2 DEF CallMount
  <2>2. CASE CallStart(t, "exists", p, NoName)
    BY <2>0, <2>2, CallStartOK DEF StartPcs, TwoNames
  <2>3. CASE fd[t] = Closed /\ CallStart(t, "open", p, NoName)
    BY <2>0, <2>3, CallStartOK DEF StartPcs, TwoNames
  <2>4. CASE CallStart(t, "unlink", p, NoName)
    BY <2>0, <2>4, CallStartOK DEF StartPcs, TwoNames
  <2>5. ASSUME NEW q \in Names \ {p}, CallStart(t, "rename", p, q) PROVE DataInv'
    BY <2>0, <2>5, CallStartOK DEF StartPcs, TwoNames
  <2>6. ASSUME NEW q \in Names \ {p}, CallStart(t, "hardlink", p, q) PROVE DataInv'
    BY <2>0, <2>6, CallStartOK DEF StartPcs, TwoNames
  <2>7. ASSUME NEW q \in Names \ {p}, CallStart(t, "symlink", p, q) PROVE DataInv'
    BY <2>0, <2>7, CallStartOK DEF StartPcs, TwoNames
  <2>8. CASE CallStart(t, "rename", p, Hidden)
    BY <2>0, <2>8, CallStartOK, LioAssumption DEF StartPcs, TwoNames
  <2> QED BY <2>1, <2>2, <2>3, <2>4, <2>5, <2>6, <2>7, <2>8
<1>3. ASSUME NEW t \in Mount, MountStep(t) PROVE nhist'.raced \/ DataInv'
  <2>1. t \in NsThreads
    BY DEF NsThreads
  <2> QED BY <1>2, <1>3, <2>1, LfsOpenOK, LfsOpenEnterOK, LfsWriteOK, LfsReleaseOK, LfsQuietOK DEF MountStep
<1>4. ASSUME NEW t \in Tools, CallTool(t) \/ RemoveRegex(t) \/ FsckNext(t) PROVE DataInv'
  <2>0. t \in NsThreads /\ t \notin Mount /\ Names \subseteq AllNames
    BY LioAssumption DEF NsThreads, AllNames
  <2>1. CASE CallTool(t)
    <3>1. PICK p \in Names : CallTool(t)!(p)
      BY <2>1 DEF CallTool
    <3>2. CASE CallStart(t, "rm_type", p, NoName)
      BY <2>0, <3>2, CallStartOK DEF StartPcs, TwoNames
    <3>3. ASSUME NEW q \in Names \ {p}, CallStart(t, "move", p, q) PROVE DataInv'
      BY <2>0, <3>3, CallStartOK DEF StartPcs, TwoNames
    <3> QED BY <3>1, <3>2, <3>3
  <2>2. CASE RemoveRegex(t)
    BY <2>0, <2>2, CallKnownOK DEF RemoveRegex
  <2>3. CASE FsckNext(t)
    BY <2>0, <2>3, CallKnownOK DEF FsckNext
  <2> QED BY <1>4, <2>1, <2>2, <2>3
<1> QED BY <1>1, <1>3, <1>4 DEF NsNext


(* At the start there is a file or none, and nobody is at work. *)
LEMMA DataInit == NsInit => DataInv
<1> SUFFICES ASSUME NsInit PROVE DataInv
  OBVIOUS
<1>1. PICK named \in SUBSET Names, alloc \in BOOLEAN : NsInit!(named, alloc)
  BY DEF NsInit
<1>2. \A t \in NsThreads : OpShape(t) /\ Pending(t) /\ Remover(t)
  BY <1>1 DEF NoOp, OpShape, OpFields, TwoNames, Pending, Remover
<1>3. \A u \in Mount : FdShape(u) /\ fd[u].ex = 0
  BY <1>1 DEF FdShape, Closed, NoOp, NsThreads
<1>4. 1 \in Objs
  BY LioAssumption DEF Objs
<1>5. \A o \in Objs : ObjShape(o)
  BY <1>1 DEF ObjShape, NoObj
<1>6. Shape
  BY <1>1, <1>2, <1>3, <1>4, <1>5 DEF Shape
<1>7. \A o \in Objs : (o # 1 => obj[o].ex = 0 /\ ~obj[o].alloc)
                      /\ (o = 1 /\ named # {} => obj[o].ex = 1 /\ obj[o].alloc = alloc)
                      /\ (named = {} => obj[o].ex = 0 /\ ~obj[o].alloc)
  BY <1>1 DEF NoObj
<1>8. \A n \in AllNames : to[n] = NoName /\ ent[n] \in {0, 1} /\ (ent[n] = 1 => named # {})
  BY <1>1
<1>9. nhist.made = 1 /\ (named = {} => ~alloc)
  BY <1>1
<1>10. data = IF alloc THEN {1} ELSE {}
  BY <1>1
<1>11. Numbered
  BY <1>3, <1>7, <1>8, <1>9, <1>10, LioAssumption DEF Numbered, Objs
<1>12. Kinds
  BY <1>8 DEF Kinds
<1>13. OneExnode
  BY <1>4, <1>7 DEF OneExnode
<1>14. Kept
  BY <1>4, <1>7, <1>8, <1>10 DEF Kept
<1>15. Owned
  <2> SUFFICES ASSUME NEW y \in data PROVE HasFile(y)
    BY DEF Owned
  <2>1. alloc /\ y = 1 /\ named # {}
    BY <1>9, <1>10
  <2>2. PICK n \in named : TRUE
    BY <2>1
  <2>3. n \in AllNames /\ ent[n] = 1
    BY <1>1, <2>2 DEF AllNames
  <2>4. obj[1].ex = 1 /\ obj[1].alloc
    BY <1>4, <1>7, <2>1
  <2> QED BY <2>1, <2>3, <2>4 DEF HasFile
<1> QED BY <1>2, <1>6, <1>11, <1>12, <1>13, <1>14, <1>15 DEF DataInv, World

(* The invariant holds until somebody gets between. *)
LEMMA DataAlways == LioSpec => [](nhist.raced \/ DataInv)
<1>1. (nhist.raced \/ DataInv) /\ [NsNext]_nsvars => (nhist.raced \/ DataInv)'
  <2> SUFFICES ASSUME nhist.raced \/ DataInv, [NsNext]_nsvars PROVE nhist'.raced \/ DataInv'
    OBVIOUS
  <2>1. CASE NsNext
    BY <2>1, DataStep DEF NsNext
  <2>2. CASE UNCHANGED nsvars
    <3>1. nhist.raced => nhist'.raced
      BY <2>2 DEF nsvars
    <3>2. Shape => Shape'
      BY <2>2 DEF nsvars, Shape, OpShape, FdShape, ObjShape, Objs
    <3>3. Numbered /\ Kinds => Numbered' /\ Kinds'
      BY <2>2 DEF nsvars, Numbered, Kinds, Objs
    <3>4. OneExnode /\ Kept /\ Owned => OneExnode' /\ Kept' /\ Owned'
      BY <2>2 DEF nsvars, OneExnode, Kept, Owned, HasFile, HasUser, HasRemover, Objs
    <3>5. \A t \in NsThreads : Pending(t) /\ Remover(t) => Pending(t)' /\ Remover(t)'
      BY <2>2 DEF nsvars, Pending, Remover, ReadOf, Objs
    <3> QED BY <3>1, <3>2, <3>3, <3>4, <3>5 DEF DataInv, World
  <2> QED BY <2>1, <2>2
<1> QED BY <1>1, DataInit, PTL DEF LioSpec

(* lio_remove_object_fn never takes the data of a file that has a name,    *)
(* for any number of threads, names and objects.                           *)
THEOREM NamedFilesKeepData == LioSpec => []NamedDataKept
<1>1. nhist.raced \/ DataInv => NamedDataKept
  BY DEF DataInv, World, Kept, NamedDataKept
<1> QED BY <1>1, DataAlways, PTL

(* When all is quiet, no data is left that no file has.                    *)
THEOREM NoDataOrphaned == LioSpec => []NothingOrphaned
<1>1. nhist.raced \/ DataInv => NothingOrphaned
  <2> SUFFICES ASSUME DataInv, \A t \in NsThreads : act[t] = NoOp /\ (t \in Mount => fd[t] = Closed),
                      NEW x \in data
               PROVE  \E n \in AllNames : ent[n] # 0 /\ obj[ent[n]].ex = x
    BY DEF NothingOrphaned
  <2>1. ~HasUser(x)
    BY DEF HasUser, Closed, NsThreads, DataInv, World, Numbered
  <2>2. ~HasRemover(x)
    BY DEF HasRemover, NoOp
  <2> QED BY <2>1, <2>2 DEF DataInv, World, Owned, HasFile
<1> QED BY <1>1, DataAlways, PTL


-----------------------------------------------------------------------------
(* The table of open files.  libfuse keeps the names of the calls of the   *)
(* mount apart; a rename under way has moved the users of the table and    *)
(* not those of libfuse.                                                   *)
UsersOf(n) == {t \in Mount : fd[t].name = n}
InMove(t) == act[t].pc = "move"
TabShape == DOMAIN fops = AllNames
  /\ \A n \in AllNames : {"ref", "rm"} \subseteq DOMAIN fops[n] /\ fops[n].ref \in Nat
Apart == \A t, u \in Mount : t # u => Uses(t) \cap Uses(u) = {}
Counted == \A n \in AllNames :
  (\A t \in Mount : InMove(t) => n # act[t].p /\ n # act[t].q) => fops[n].ref = Cardinality(UsersOf(n))
Moving(t) == InMove(t) =>
  /\ fops[act[t].p].ref = 0
  /\ \/ UsersOf(act[t].p) = {} /\ fops[act[t].q].ref = Cardinality(UsersOf(act[t].q))
     \/ UsersOf(act[t].q) = {} /\ fops[act[t].q].ref = Cardinality(UsersOf(act[t].p))
AtRest(t) == /\ act[t].pc = "idle" => act[t].p = NoName /\ act[t].q = NoName
             /\ act[t].pc = "enter" => fd[t].name = NoName
TableInv == TabShape /\ Apart /\ Counted /\ \A t \in Mount : Moving(t) /\ AtRest(t)


(* The users of a name are finitely many. *)
LEMMA UsersFinite ==
  ASSUME NEW n
  PROVE  IsFiniteSet(UsersOf(n)) /\ Cardinality(UsersOf(n)) \in Nat
         /\ (Cardinality(UsersOf(n)) = 0 <=> UsersOf(n) = {})
<1>1. IsFiniteSet(UsersOf(n))
  BY LioAssumption, FS_Subset DEF UsersOf
<1> QED BY <1>1, FS_EmptySet, FS_CardinalityType

(* A thread of the mount leaves the table, libfuse's names and its own     *)
(* names alone, or it is done.                                             *)
LEMMA TableQuiet ==
  ASSUME DataInv, TableInv, UNCHANGED fops,
         \A u \in Mount : fd'[u].name = fd[u].name,
         \A u \in Mount : act[u].pc = "move" <=> act'[u].pc = "move",
         \A u \in Mount : act'[u] = NoOp \/ (act'[u].p = act[u].p /\ act'[u].q = act[u].q),
         \A u \in Mount : AtRest(u)'
  PROVE  TableInv'
<1>1. \A n : UsersOf(n)' = UsersOf(n)
  BY DEF UsersOf
<1>2. TabShape'
  BY DEF TableInv, TabShape
<1>3. \A u \in Mount : Uses(u)' \subseteq Uses(u)
  BY DEF Uses, NoOp
<1>4. Apart'
  BY <1>3 DEF TableInv, Apart
<1>5. \A u \in Mount : InMove(u)' <=> InMove(u)
  BY DEF InMove
<1>6. \A u \in Mount : InMove(u) => act'[u].p = act[u].p /\ act'[u].q = act[u].q
  BY DEF InMove, NoOp
<1>7. Counted'
  BY <1>1, <1>5, <1>6 DEF TableInv, Counted
<1>8. \A u \in Mount : Moving(u)'
  BY <1>1, <1>5, <1>6 DEF TableInv, Moving
<1> QED BY <1>2, <1>4, <1>7, <1>8 DEF TableInv

(* What a step of lio that is not a move does to the thread that takes it. *)
LEMMA PlainStep ==
  ASSUME DataInv, NEW t \in NsThreads, NsStep(t), ~LioMove(t)
  PROVE  /\ UNCHANGED <<fops, fd>> /\ act[t].pc \notin {"move", "enter"}
         /\ \A u \in NsThreads : u # t => act'[u] = act[u]
         /\ \/ act'[t] = NoOp
            \/ /\ act'[t].p = act[t].p /\ act'[t].q = act[t].q
               /\ act'[t].pc \notin {"idle", "move", "enter"}
<1>0. OpShape(t) /\ DOMAIN act = NsThreads
  BY DEF DataInv, Shape
<1>1. CASE NsReturn(t)
  <2>1. act' = [act EXCEPT ![t] = NoOp]
    BY <1>1 DEF NsReturn
  <2> QED BY <1>0, <2>1 DEF NsStep, CreateEntry, CreateAttrs, LfsCreate, RemoveType, RemoveAttrs,
       RemoveEntry, RemoveData, LioHardlink, LioSymlink, LinkAttrs, FsckOwner, FsckExnode, InStep
<1>2. ASSUME NEW pc, NsGoto(t, pc), pc \notin {"idle", "move", "enter"}
      PROVE  /\ \A u \in NsThreads : u # t => act'[u] = act[u]
             /\ act'[t].p = act[t].p /\ act'[t].q = act[t].q /\ act'[t].pc = pc
  BY <1>0, <1>2 DEF NsGoto, OpShape, OpFields
<1>3. CASE LfsCreate(t) \/ FsckOwner(t) \/ FsckExnode(t)
  BY <1>1, <1>2, <1>3 DEF LfsCreate, FsckOwner, FsckExnode, InStep
<1>4. CASE CreateEntry(t)
  BY <1>0, <1>1, <1>4 DEF CreateEntry, InStep, OpShape, OpFields
<1>5. CASE RemoveType(t)
  BY <1>0, <1>5 DEF RemoveType, InStep, OpShape, OpFields
<1>6. CASE RemoveAttrs(t)
  <2>1. CASE ~NsReturn(t)
    <3>1. PICK ex, al : act' = [act EXCEPT ![t].pc = "rm_entry", ![t].ex = ex, ![t].al = al]
      BY <1>6, <2>1 DEF RemoveAttrs
    <3>2. act'[t].p = act[t].p /\ act'[t].q = act[t].q /\ act'[t].pc = "rm_entry"
          /\ \A u \in NsThreads : u # t => act'[u] = act[u]
      BY <1>0, <3>1 DEF OpShape, OpFields
    <3> QED BY <1>6, <3>2 DEF RemoveAttrs, InStep
  <2> QED BY <1>1, <2>1
<1>7. CASE RemoveEntry(t)
  BY <1>1, <1>2, <1>7 DEF RemoveEntry, InStep
<1>8. CASE LioSymlink(t)
  BY <1>1, <1>2, <1>8 DEF LioSymlink, InStep
<1> QED BY <1>1, <1>3, <1>4, <1>5, <1>6, <1>7, <1>8
  DEF NsStep, CreateAttrs, RemoveData, LioHardlink, LinkAttrs

(* Tools do not work on the table. *)
LEMMA ToolTable ==
  ASSUME DataInv, TableInv, NEW t \in Tools,
         NsStep(t) \/ CallTool(t) \/ RemoveRegex(t) \/ FsckNext(t)
  PROVE  TableInv'
<1>0. t \in NsThreads /\ t \notin Mount /\ Mount \subseteq NsThreads
  BY LioAssumption DEF NsThreads
<1>1. CASE NsStep(t) /\ ~LioMove(t)
  <2>1. UNCHANGED <<fops, fd>> /\ \A u \in NsThreads : u # t => act'[u] = act[u]
    BY <1>0, <1>1, PlainStep
  <2> QED BY <1>0, <2>1, TableQuiet DEF TableInv, AtRest
<1>2. CASE LioMove(t)
  <2>1. UNCHANGED fops /\ \A u \in Mount : fd'[u] = fd[u] /\ act'[u] = act[u]
    BY <1>0, <1>2 DEF LioMove, NsReturn, DataInv, Shape
  <2> QED BY <1>0, <2>1, TableQuiet DEF TableInv, AtRest
<1>3. CASE CallTool(t) \/ RemoveRegex(t) \/ FsckNext(t)
  <2>1. UNCHANGED <<fops, fd>> /\ \A u \in Mount : act'[u] = act[u]
    BY <1>0, <1>3 DEF CallTool, RemoveRegex, FsckNext, CallStart, CallKnown, DataInv, Shape
  <2> QED BY <1>0, <2>1, TableQuiet DEF TableInv, AtRest
<1> QED BY <1>1, <1>2, <1>3


(* libfuse lets a call start only on names no other call of the mount uses. *)
LEMMA CallTable ==
  ASSUME DataInv, TableInv, NEW t \in Mount, CallMount(t)
  PROVE  TableInv'
<1>0. t \in NsThreads /\ Mount \subseteq NsThreads
  BY DEF NsThreads
<1>1. PICK pc, p, q : CallStart(t, pc, p, q) /\ pc \in StartPcs \ {"move"}
  BY DEF CallMount, StartPcs
<1>2. UNCHANGED <<fops, fd>> /\ act[t] = NoOp /\ MayCall(t, {p, q})
      /\ \A u \in NsThreads : u # t => act'[u] = act[u]
  BY <1>0, <1>1 DEF CallStart, DataInv, Shape
<1>3. act'[t] = [NoOp EXCEPT !.pc = pc, !.p = p, !.q = q]
  BY <1>0, <1>1 DEF CallStart, DataInv, Shape
<1>4. act'[t].pc = pc /\ act'[t].p = p /\ act'[t].q = q
  BY <1>3 DEF NoOp
<1>5. pc \notin {"idle", "move", "enter"} /\ act[t].pc = "idle"
  BY <1>1, <1>2 DEF StartPcs, NoOp
<1>6. \A n : UsersOf(n)' = UsersOf(n)
  BY <1>2 DEF UsersOf
<1>7. \A u \in Mount : InMove(u)' <=> InMove(u)
  BY <1>0, <1>2, <1>4, <1>5 DEF InMove
<1>8. \A u \in Mount : InMove(u) => u # t /\ act'[u] = act[u]
  BY <1>0, <1>2, <1>5 DEF InMove
<1>9. TabShape'
  BY <1>2 DEF TableInv, TabShape
<1>10. Counted'
  BY <1>2, <1>6, <1>7, <1>8 DEF TableInv, Counted
<1>11. \A u \in Mount : Moving(u)' /\ AtRest(u)'
  <2>1. \A u \in Mount : Moving(u)'
    BY <1>2, <1>6, <1>7, <1>8 DEF TableInv, Moving
  <2>2. \A u \in Mount : AtRest(u)'
    BY <1>0, <1>2, <1>4, <1>5 DEF TableInv, AtRest
  <2> QED BY <2>1, <2>2
<1>12. Apart'
  <2>1. Uses(t)' \subseteq {p, q}
    BY <1>4 DEF Uses
  <2>2. \A u \in Mount : u # t => Uses(u)' = Uses(u) /\ Uses(u) \cap {p, q} = {}
    BY <1>0, <1>2 DEF Uses, MayCall
  <2> QED BY <2>1, <2>2 DEF TableInv, Apart
<1> QED BY <1>9, <1>10, <1>11, <1>12 DEF TableInv

(* lfs_open up to the table *)
LEMMA OpenTable ==
  ASSUME DataInv, TableInv, NEW t \in Mount, LfsOpen(t)
  PROVE  TableInv'
<1>0. t \in NsThreads /\ Mount \subseteq NsThreads /\ OpShape(t) /\ FdShape(t) /\ act[t].pc = "open"
  BY DEF NsThreads, DataInv, Shape, LfsOpen, InStep
<1>1. UNCHANGED fops /\ \A u \in Mount : u # t => fd'[u] = fd[u] /\ act'[u] = act[u]
  BY <1>0 DEF LfsOpen, NsReturn, NsGoto, DataInv, Shape
<1>2. fd'[t].name = fd[t].name /\ fd[t].name = NoName
  BY <1>0 DEF LfsOpen, DataInv, Shape, FdShape, Closed
<1>3. act'[t] = NoOp \/ (act'[t].p = act[t].p /\ act'[t].q = act[t].q /\ act'[t].pc = "enter")
  BY <1>0 DEF LfsOpen, NsReturn, NsGoto, DataInv, Shape, OpShape, OpFields
<1>4. \A u \in Mount : AtRest(u)'
  BY <1>1, <1>2, <1>3 DEF TableInv, AtRest, NoOp
<1>5. \A u \in Mount : act[u].pc = "move" <=> act'[u].pc = "move"
  BY <1>0, <1>1, <1>3 DEF NoOp
<1>7. \A u \in Mount : act'[u] = NoOp \/ (act'[u].p = act[u].p /\ act'[u].q = act[u].q)
  BY <1>1, <1>3
<1>6. \A u \in Mount : fd'[u].name = fd[u].name
  BY <1>1, <1>2
<1> QED BY <1>1, <1>4, <1>5, <1>6, <1>7, TableQuiet

(* lfs_open enters the file, under the lock. *)
LEMMA EnterTable ==
  ASSUME DataInv, TableInv, NEW t \in Mount, LfsOpenEnter(t)
  PROVE  TableInv'
<1>13. PICK p : p = act[t].p
  OBVIOUS
<1>0. t \in NsThreads /\ Mount \subseteq NsThreads /\ OpShape(t) /\ FdShape(t) /\ act[t].pc = "enter"
      /\ p \in AllNames /\ fd[t].name = NoName /\ p # NoName
  BY <1>13, LioAssumption DEF NsThreads, DataInv, Shape, LfsOpenEnter, InStep, OpShape, TableInv, AtRest, AllNames
<1>1. \A u \in Mount : u # t => fd'[u] = fd[u] /\ act'[u] = act[u]
  BY <1>0 DEF LfsOpenEnter, NsReturn, DataInv, Shape
<1>2. fd'[t].name = p /\ act'[t] = NoOp
  BY <1>13, <1>0 DEF LfsOpenEnter, NsReturn, DataInv, Shape, FdShape
<1>3. DOMAIN fops' = AllNames /\ (\A n \in AllNames : n # p => fops'[n] = fops[n])
      /\ fops'[p] = [fops[p] EXCEPT !.ref = @ + 1]
  BY <1>13, <1>0 DEF LfsOpenEnter, TableInv, TabShape
<1>4. fops'[p].ref = fops[p].ref + 1 /\ TabShape'
  BY <1>0, <1>3 DEF TableInv, TabShape
<1>5. \A n : n # p /\ n # NoName => UsersOf(n)' = UsersOf(n)
  BY <1>0, <1>1, <1>2 DEF UsersOf
<1>6. UsersOf(p)' = UsersOf(p) \cup {t} /\ t \notin UsersOf(p)
  BY <1>0, <1>1, <1>2 DEF UsersOf
<1>7. Cardinality(UsersOf(p)') = Cardinality(UsersOf(p)) + 1
  BY <1>6, UsersFinite, FS_AddElement
<1>8. \A u \in Mount : InMove(u)' <=> InMove(u)
  BY <1>0, <1>1, <1>2 DEF InMove, NoOp
<1>9. \A u \in Mount : InMove(u) => u # t /\ act'[u] = act[u] /\ act[u].p # p /\ act[u].q # p
  <2> SUFFICES ASSUME NEW u \in Mount, InMove(u)
               PROVE  u # t /\ act'[u] = act[u] /\ act[u].p # p /\ act[u].q # p
    OBVIOUS
  <2>1. u # t
    BY <1>0 DEF InMove
  <2>2. Uses(u) \cap Uses(t) = {} /\ p \in Uses(t)
    BY <1>13, <1>0, <2>1 DEF TableInv, Apart, Uses
  <2> QED BY <1>0, <1>1, <2>1, <2>2 DEF Uses
<1>10. Counted'
  <2> SUFFICES ASSUME NEW n \in AllNames,
                      \A u \in Mount : InMove(u)' => n # act'[u].p /\ n # act'[u].q
               PROVE  fops'[n].ref = Cardinality(UsersOf(n)')
    BY DEF Counted
  <2>1. fops[n].ref = Cardinality(UsersOf(n))
    BY <1>8, <1>9 DEF TableInv, Counted
  <2>2. n # NoName
    BY LioAssumption DEF AllNames
  <2> QED BY <1>3, <1>4, <1>5, <1>7, <2>1, <2>2
<1>11. ASSUME NEW u \in Mount PROVE Moving(u)' /\ AtRest(u)'
  <2>1. Moving(u)'
    <3> SUFFICES ASSUME InMove(u)' PROVE Moving(u)'
      BY DEF Moving
    <3>1. Moving(u) /\ InMove(u) /\ u # t /\ act'[u] = act[u] /\ act[u].p # p /\ act[u].q # p
      BY <1>8, <1>9 DEF TableInv
    <3>2. act[u].p \in AllNames /\ act[u].q \in AllNames
      BY <1>0, <3>1 DEF DataInv, Shape, OpShape, TwoNames, InMove
    <3>3. act[u].p # NoName /\ act[u].q # NoName
      BY <3>2, LioAssumption DEF AllNames
    <3>4. UsersOf(act[u].p)' = UsersOf(act[u].p) /\ UsersOf(act[u].q)' = UsersOf(act[u].q)
      BY <1>0, <1>1, <1>2, <3>1, <3>3 DEF UsersOf
    <3> QED BY <1>3, <3>1, <3>2, <3>4 DEF Moving
  <2>2. AtRest(u)'
    BY <1>0, <1>1, <1>2 DEF TableInv, AtRest, NoOp
  <2> QED BY <2>1, <2>2
<1>12. Apart'
  <2>1. \A u \in Mount : Uses(u)' \subseteq Uses(u)
    BY <1>1, <1>2 DEF Uses, NoOp
  <2> QED BY <2>1 DEF TableInv, Apart
<1> QED BY <1>4, <1>10, <1>11, <1>12 DEF TableInv


(* The steps of lio that a thread of the mount takes, but for the move. *)
LEMMA PlainTable ==
  ASSUME DataInv, TableInv, NEW t \in Mount, (NsStep(t) /\ ~LioMove(t)) \/ LfsWrite(t)
  PROVE  TableInv'
<1>0. t \in NsThreads /\ Mount \subseteq NsThreads
  BY DEF NsThreads
<1>1. CASE LfsWrite(t)
  <2>1. UNCHANGED <<fops, fd, act>>
    BY <1>1 DEF LfsWrite
  <2> QED BY <2>1, TableQuiet DEF TableInv, AtRest
<1>2. CASE NsStep(t) /\ ~LioMove(t)
  <2>1. UNCHANGED <<fops, fd>> /\ act[t].pc \notin {"move", "enter"}
        /\ \A u \in NsThreads : u # t => act'[u] = act[u]
    BY <1>0, <1>2, PlainStep
  <2>2. \/ act'[t] = NoOp
        \/ /\ act'[t].p = act[t].p /\ act'[t].q = act[t].q
           /\ act'[t].pc \notin {"idle", "move", "enter"}
    BY <1>0, <1>2, PlainStep
  <2>3. \A u \in Mount : act[u].pc = "move" <=> act'[u].pc = "move"
    BY <1>0, <2>1, <2>2 DEF NoOp
  <2>4. \A u \in Mount : act'[u] = NoOp \/ (act'[u].p = act[u].p /\ act'[u].q = act[u].q)
    BY <1>0, <2>1, <2>2
  <2>5. \A u \in Mount : AtRest(u)'
    BY <1>0, <2>1, <2>2 DEF TableInv, AtRest, NoOp
  <2> QED BY <2>1, <2>3, <2>4, <2>5, TableQuiet
<1> QED BY <1>1, <1>2

(* lfs_object_remove marks the entry of an open file. *)
LEMMA UnlinkTable ==
  ASSUME DataInv, TableInv, NEW t \in Mount, LfsUnlink(t)
  PROVE  TableInv'
<1>0. t \in NsThreads /\ Mount \subseteq NsThreads /\ OpShape(t) /\ act[t].pc = "unlink"
      /\ act[t].p \in AllNames
  BY DEF NsThreads, DataInv, Shape, LfsUnlink, InStep, OpShape
<1>1. UNCHANGED fd /\ (\A u \in Mount : u # t => act'[u] = act[u])
      /\ (act'[t] = NoOp \/ (act'[t].p = act[t].p /\ act'[t].q = act[t].q /\ act'[t].pc = "rm_type"))
  BY <1>0 DEF LfsUnlink, NsGoto, DataInv, Shape, OpShape, OpFields
<1>2. DOMAIN fops' = AllNames
      /\ \A n \in AllNames : fops'[n].ref = fops[n].ref /\ {"ref", "rm"} \subseteq DOMAIN fops'[n]
  BY <1>0 DEF LfsUnlink, TableInv, TabShape
<1>3. TabShape'
  BY <1>2 DEF TableInv, TabShape
<1>4. \A n : UsersOf(n)' = UsersOf(n)
  BY <1>1 DEF UsersOf
<1>5. \A u \in Mount : InMove(u)' <=> InMove(u)
  BY <1>0, <1>1 DEF InMove, NoOp
<1>6. \A u \in Mount : InMove(u) => u # t /\ act'[u] = act[u]
  BY <1>0, <1>1 DEF InMove
<1>7. Counted'
  BY <1>2, <1>4, <1>5, <1>6 DEF TableInv, Counted
<1>8. \A u \in Mount : Moving(u)'
  <2> SUFFICES ASSUME NEW u \in Mount, InMove(u)' PROVE Moving(u)'
    BY DEF Moving
  <2>1. InMove(u) /\ act'[u] = act[u] /\ Moving(u)
    BY <1>5, <1>6 DEF TableInv
  <2>2. act[u].p \in AllNames /\ act[u].q \in AllNames
    BY <1>0, <2>1 DEF DataInv, Shape, OpShape, TwoNames, InMove
  <2> QED BY <1>2, <1>4, <2>1, <2>2 DEF Moving
<1>9. \A u \in Mount : AtRest(u)'
  BY <1>0, <1>1 DEF TableInv, AtRest, NoOp
<1>10. Apart'
  <2>1. \A u \in Mount : Uses(u)' \subseteq Uses(u)
    BY <1>1 DEF Uses, NoOp
  <2> QED BY <2>1 DEF TableInv, Apart
<1> QED BY <1>3, <1>7, <1>8, <1>9, <1>10 DEF TableInv

(* lfs_rename: the users of the old name are those of the new one in the   *)
(* table; one of the two had none.                                         *)
LEMMA RenameTable ==
  ASSUME DataInv, TableInv, NEW t \in Mount, LfsRename(t)
  PROVE  nhist'.raced \/ TableInv'
<1> SUFFICES ASSUME ~nhist'.raced PROVE TableInv'
  OBVIOUS
<1>0. PICK p, q : p = act[t].p /\ q = act[t].q
  OBVIOUS
<1>1. t \in NsThreads /\ Mount \subseteq NsThreads /\ OpShape(t) /\ act[t].pc = "rename"
      /\ p \in AllNames /\ q \in AllNames /\ p # q /\ UNCHANGED fd
  BY <1>0 DEF NsThreads, DataInv, Shape, LfsRename, InStep, OpShape, TwoNames
<1>2. (\A u \in Mount : u # t => act'[u] = act[u])
      /\ act'[t].p = p /\ act'[t].q = q /\ act'[t].pc = "move"
  BY <1>0, <1>1 DEF LfsRename, NsGoto, DataInv, Shape, OpShape, OpFields
<1>3. p # NoName /\ q # NoName
  BY <1>1, LioAssumption DEF AllNames
<1>4. \A u \in Mount : u # t => p \notin Uses(u) /\ q \notin Uses(u)
  BY <1>0, <1>1, <1>3 DEF TableInv, Apart, Uses
<1>5. \A u \in Mount : InMove(u) => u # t /\ InMove(u)' /\ act[u].p \in AllNames /\ act[u].q \in AllNames
  BY <1>1, <1>2 DEF InMove, DataInv, Shape, OpShape, TwoNames
<1>6. \A u \in Mount : InMove(u) => act[u].p \notin {p, q} /\ act[u].q \notin {p, q}
  BY <1>4, <1>5, LioAssumption DEF Uses, AllNames
<1>7. fops[p].ref = Cardinality(UsersOf(p)) /\ fops[q].ref = Cardinality(UsersOf(q))
      /\ fops[p].ref \in Nat /\ fops[q].ref \in Nat
  BY <1>1, <1>6 DEF TableInv, Counted, TabShape
<1>8. fops[p].ref = 0 \/ fops[q].ref = 0
  <2>1. ~(fops[p].ref > 0 /\ fops[q].ref > 0)
    BY <1>0 DEF LfsRename, Races, DataInv, Shape
  <2> QED BY <1>7, <2>1
<1>9. DOMAIN fops' = AllNames /\ (\A n \in AllNames : n \notin {p, q} => fops'[n] = fops[n])
      /\ (fops[p].ref = 0 => fops' = fops)
      /\ (fops[p].ref # 0 => fops'[q] = fops[p] /\ fops'[p] = NoFop)
  BY <1>0, <1>1 DEF LfsRename, TableInv, TabShape
<1>10. TabShape'
  BY <1>1, <1>9 DEF TableInv, TabShape, NoFop
<1>11. \A n : UsersOf(n)' = UsersOf(n)
  BY <1>1 DEF UsersOf
<1>12. Moving(t)'
  <2>1. fops'[p].ref = 0
    BY <1>9 DEF NoFop
  <2>2. CASE fops[p].ref = 0
    BY <1>2, <1>7, <1>9, <1>11, <2>1, <2>2, UsersFinite DEF Moving
  <2>3. CASE fops[p].ref # 0
    BY <1>2, <1>7, <1>8, <1>9, <1>11, <2>1, <2>3, UsersFinite DEF Moving
  <2> QED BY <2>2, <2>3
<1>13. ASSUME NEW u \in Mount, u # t PROVE Moving(u)'
  <2> SUFFICES ASSUME InMove(u)' PROVE Moving(u)'
    BY DEF Moving
  <2>1. InMove(u) /\ act'[u] = act[u] /\ Moving(u)
    BY <1>2, <1>13 DEF TableInv, InMove
  <2> QED BY <1>5, <1>6, <1>9, <1>11, <2>1 DEF Moving
<1>14. Counted'
  <2> SUFFICES ASSUME NEW n \in AllNames,
                      \A u \in Mount : InMove(u)' => n # act'[u].p /\ n # act'[u].q
               PROVE  fops'[n].ref = Cardinality(UsersOf(n)')
    BY DEF Counted
  <2>1. n \notin {p, q}
    BY <1>2 DEF InMove
  <2>2. \A u \in Mount : InMove(u) => n # act[u].p /\ n # act[u].q
    BY <1>2, <1>5
  <2> QED BY <1>9, <1>11, <2>1, <2>2 DEF TableInv, Counted
<1>15. \A u \in Mount : AtRest(u)'
  BY <1>1, <1>2 DEF TableInv, AtRest
<1>16. Apart'
  <2>1. \A u \in Mount : Uses(u)' \subseteq Uses(u)
    BY <1>0, <1>2 DEF Uses
  <2> QED BY <2>1 DEF TableInv, Apart
<1> QED BY <1>10, <1>12, <1>13, <1>14, <1>15, <1>16 DEF TableInv


(* os_move_object: if it succeeds libfuse follows the table; if it fails   *)
(* the table and libfuse agree only if the file was not open.              *)
LEMMA MoveTable ==
  ASSUME DataInv, TableInv, NEW t \in Mount, LioMove(t)
  PROVE  nhist'.raced \/ TableInv'
<1> SUFFICES ASSUME ~nhist'.raced PROVE TableInv'
  OBVIOUS
<1>0. PICK p, q : p = act[t].p /\ q = act[t].q
  OBVIOUS
<1>1. t \in NsThreads /\ Mount \subseteq NsThreads /\ InMove(t) /\ UNCHANGED fops
      /\ p \in AllNames /\ q \in AllNames /\ p # q
  BY <1>0 DEF NsThreads, DataInv, Shape, LioMove, InStep, OpShape, TwoNames, InMove
<1>2. (\A u \in Mount : u # t => act'[u] = act[u]) /\ act'[t] = NoOp
  BY <1>1 DEF LioMove, NsReturn, DataInv, Shape
<1>3. p # NoName /\ q # NoName
  BY <1>1, LioAssumption DEF AllNames
<1>4. \A u \in Mount : u # t => p \notin Uses(u) /\ q \notin Uses(u)
  BY <1>0, <1>1, <1>3 DEF TableInv, Apart, Uses
<1>5. \A u \in Mount : InMove(u)' => u # t /\ InMove(u) /\ act'[u] = act[u]
                                     /\ act[u].p \in AllNames /\ act[u].q \in AllNames
  BY <1>1, <1>2 DEF InMove, NoOp, DataInv, Shape, OpShape, TwoNames
<1>6. \A u \in Mount : InMove(u)' => act[u].p \notin {p, q} /\ act[u].q \notin {p, q}
  BY <1>4, <1>5, LioAssumption DEF Uses, AllNames
<1>7. fops[p].ref = 0
      /\ (\/ UsersOf(p) = {} /\ fops[q].ref = Cardinality(UsersOf(q))
          \/ UsersOf(q) = {} /\ fops[q].ref = Cardinality(UsersOf(p)))
  BY <1>0, <1>1 DEF TableInv, Moving
<1>8. (\A n : n \notin {p, q} => UsersOf(n)' = UsersOf(n))
      /\ fops[p].ref = Cardinality(UsersOf(p)') /\ fops[q].ref = Cardinality(UsersOf(q)')
  <2>1. CASE ent[p] # 0 /\ ent[q] = 0
    <3>1. \A u \in Mount : fd'[u] = IF fd[u].name = p THEN [fd[u] EXCEPT !.name = q] ELSE fd[u]
      BY <1>0, <2>1 DEF LioMove
    <3>2. \A u \in Mount : fd'[u].name = IF fd[u].name = p THEN q ELSE fd[u].name
      BY <3>1 DEF DataInv, Shape, FdShape
    <3>3. UsersOf(p)' = {} /\ UsersOf(q)' = UsersOf(p) \cup UsersOf(q)
      BY <1>1, <3>2 DEF UsersOf
    <3>4. \A n : n \notin {p, q} => UsersOf(n)' = UsersOf(n)
      BY <3>2 DEF UsersOf
    <3>5. UsersOf(q)' = UsersOf(q) \/ UsersOf(q)' = UsersOf(p)
      BY <1>7, <3>3
    <3> QED BY <1>7, <3>3, <3>4, <3>5, FS_EmptySet
  <2>2. CASE ~(ent[p] # 0 /\ ent[q] = 0)
    <3>1. UNCHANGED fd /\ ~(fops[q].ref > 0)
      BY <1>0, <2>2 DEF LioMove, Races, DataInv, Shape
    <3>2. fops[q].ref = 0
      BY <1>1, <3>1 DEF TableInv, TabShape
    <3>3. UsersOf(p) = {} /\ UsersOf(q) = {}
      BY <1>7, <3>2, UsersFinite
    <3>4. \A n : UsersOf(n)' = UsersOf(n)
      BY <3>1 DEF UsersOf
    <3> QED BY <1>7, <3>2, <3>3, <3>4, FS_EmptySet
  <2> QED BY <2>1, <2>2
<1>9. TabShape'
  BY <1>1 DEF TableInv, TabShape
<1>10. Counted'
  <2> SUFFICES ASSUME NEW n \in AllNames, n \notin {p, q},
                      \A u \in Mount : InMove(u)' => n # act'[u].p /\ n # act'[u].q
               PROVE  fops[n].ref = Cardinality(UsersOf(n)')
    BY <1>1, <1>8 DEF Counted
  <2>1. \A u \in Mount : InMove(u) => n # act[u].p /\ n # act[u].q
    <3> SUFFICES ASSUME NEW u \in Mount, InMove(u) PROVE n # act[u].p /\ n # act[u].q
      OBVIOUS
    <3>1. CASE u = t
      BY <1>0, <3>1
    <3>2. CASE u # t
      BY <1>2, <3>2 DEF InMove
    <3> QED BY <3>1, <3>2
  <2> QED BY <1>8, <2>1 DEF TableInv, Counted
<1>11. ASSUME NEW u \in Mount PROVE Moving(u)'
  <2> SUFFICES ASSUME InMove(u)' PROVE Moving(u)'
    BY DEF Moving
  <2>1. Moving(u) /\ InMove(u) /\ act'[u] = act[u]
    BY <1>5 DEF TableInv
  <2>3. PICK a, b : a = act[u].p /\ b = act[u].q
    OBVIOUS
  <2>4. UsersOf(a)' = UsersOf(a) /\ UsersOf(b)' = UsersOf(b)
    BY <1>6, <1>8, <2>3
  <2>5. act'[u].p = a /\ act'[u].q = b
    BY <2>1, <2>3
  <2>6. fops[a].ref = 0 /\ \/ UsersOf(a) = {} /\ fops[b].ref = Cardinality(UsersOf(b))
                           \/ UsersOf(b) = {} /\ fops[b].ref = Cardinality(UsersOf(a))
    BY <2>1, <2>3 DEF Moving
  <2> QED BY <1>1, <2>4, <2>5, <2>6 DEF Moving
<1>12. \A u \in Mount : AtRest(u)'
  <2>1. UsersOf(NoName)' = UsersOf(NoName)
    BY <1>3, <1>8
  <2>2. \A u \in Mount : fd[u].name = NoName => fd'[u].name = NoName
    BY <2>1 DEF UsersOf
  <2> QED BY <1>2, <2>2 DEF TableInv, AtRest, NoOp
<1>13. Apart'
  <2>1. \A u \in Mount : Uses(u)' \subseteq Uses(u)
    BY <1>2 DEF Uses, NoOp
  <2> QED BY <2>1 DEF TableInv, Apart
<1> QED BY <1>9, <1>10, <1>11, <1>12, <1>13 DEF TableInv


(* lfs_release takes its user out of the table.  No other call of the      *)
(* mount works on that name; the unlink or the remove that follows does.   *)
LEMMA ReleaseTable ==
  ASSUME DataInv, TableInv, NEW t \in Mount, LfsRelease(t)
  PROVE  TableInv'
<1>0. PICK n : n = fd[t].name
  OBVIOUS
<1>1. t \in NsThreads /\ Mount \subseteq NsThreads /\ act[t] = NoOp /\ act[t].pc = "idle"
  BY DEF NsThreads, LfsRelease, NoOp
<1>2. n \in AllNames /\ n # NoName
  <2>1. FdShape(t) /\ fd[t] # Closed
    BY DEF DataInv, Shape, LfsRelease
  <2> QED BY <1>0, <1>1, <2>1 DEF FdShape
<1>3. fd'[t] = Closed /\ \A u \in Mount : u # t => fd'[u] = fd[u]
  BY DEF LfsRelease, DataInv, Shape
<1>4. \A u \in Mount : u # t => act'[u] = act[u] /\ n \notin Uses(u)
  BY <1>0, <1>1 DEF LfsRelease, MayCall, DataInv, Shape
<1>5. act'[t] = act[t] \/ act'[t] = [NoOp EXCEPT !.pc = "rm_type", !.p = n]
      \/ act'[t] = [NoOp EXCEPT !.pc = "unlink", !.p = n]
  BY <1>0, <1>1 DEF LfsRelease, DataInv, Shape
<1>6. act'[t] = NoOp
      \/ (act'[t].pc \in {"rm_type", "unlink"} /\ act'[t].p = n /\ act'[t].q = NoName)
  BY <1>1, <1>5 DEF NoOp
<1>7. \A u \in Mount : InMove(u)' <=> InMove(u)
  BY <1>1, <1>4, <1>6 DEF InMove, NoOp
<1>8. \A u \in Mount : InMove(u) => u # t /\ act'[u] = act[u] /\ act[u].p # n /\ act[u].q # n
  BY <1>1, <1>2, <1>4 DEF InMove, Uses
<1>9. \A m : m # n /\ m # NoName => UsersOf(m)' = UsersOf(m)
  BY <1>0, <1>3 DEF UsersOf, Closed
<1>10. UsersOf(n)' = UsersOf(n) \ {t} /\ t \in UsersOf(n)
  BY <1>0, <1>2, <1>3 DEF UsersOf, Closed
<1>11. Cardinality(UsersOf(n)') = Cardinality(UsersOf(n)) - 1
  BY <1>10, UsersFinite, FS_RemoveElement
<1>12. fops[n].ref = Cardinality(UsersOf(n)) /\ Cardinality(UsersOf(n)) \in Nat \ {0}
  BY <1>2, <1>8, <1>10, UsersFinite DEF TableInv, Counted
<1>13. DOMAIN fops' = AllNames /\ (\A m \in AllNames : m # n => fops'[m] = fops[m])
       /\ fops'[n] = IF fops[n].ref <= 1 THEN NoFop ELSE [fops[n] EXCEPT !.ref = @ - 1]
  BY <1>0, <1>2 DEF LfsRelease, TableInv, TabShape
<1>14. fops'[n].ref = fops[n].ref - 1 /\ {"ref", "rm"} \subseteq DOMAIN fops'[n]
  <2>1. {"ref", "rm"} \subseteq DOMAIN fops[n]
    BY <1>2 DEF TableInv, TabShape
  <2> QED BY <1>12, <1>13, <2>1 DEF NoFop
<1>15. TabShape'
  BY <1>2, <1>12, <1>13, <1>14 DEF TableInv, TabShape
<1>16. Counted'
  <2> SUFFICES ASSUME NEW m \in AllNames,
                      \A u \in Mount : InMove(u)' => m # act'[u].p /\ m # act'[u].q
               PROVE  fops'[m].ref = Cardinality(UsersOf(m)')
    BY DEF Counted
  <2>1. fops[m].ref = Cardinality(UsersOf(m))
    BY <1>7, <1>8 DEF TableInv, Counted
  <2>2. m # NoName
    BY LioAssumption DEF AllNames
  <2> QED BY <1>9, <1>11, <1>12, <1>13, <1>14, <2>1, <2>2
<1>17. ASSUME NEW u \in Mount PROVE Moving(u)'
  <2> SUFFICES ASSUME InMove(u)' PROVE Moving(u)'
    BY DEF Moving
  <2>1. Moving(u) /\ InMove(u) /\ act'[u] = act[u]
    BY <1>7, <1>8 DEF TableInv
  <2>2. PICK a, b : a = act[u].p /\ b = act[u].q
    OBVIOUS
  <2>3. a \in AllNames /\ b \in AllNames /\ a # n /\ b # n /\ a # NoName /\ b # NoName
    BY <1>1, <1>8, <2>1, <2>2, LioAssumption DEF InMove, DataInv, Shape, OpShape, TwoNames, AllNames
  <2>4. UsersOf(a)' = UsersOf(a) /\ UsersOf(b)' = UsersOf(b) /\ fops'[a] = fops[a] /\ fops'[b] = fops[b]
    BY <1>9, <1>13, <2>3
  <2>5. act'[u].p = a /\ act'[u].q = b
    BY <2>1, <2>2
  <2>6. fops[a].ref = 0 /\ \/ UsersOf(a) = {} /\ fops[b].ref = Cardinality(UsersOf(b))
                           \/ UsersOf(b) = {} /\ fops[b].ref = Cardinality(UsersOf(a))
    BY <2>1, <2>2 DEF Moving
  <2> QED BY <2>4, <2>5, <2>6 DEF Moving
<1>18. \A u \in Mount : AtRest(u)'
  BY <1>3, <1>4, <1>6 DEF TableInv, AtRest, NoOp
<1>19. Apart'
  <2>1. Uses(t)' \subseteq {n}
    BY <1>6 DEF Uses, NoOp
  <2>2. \A u \in Mount : u # t => Uses(u)' = Uses(u) /\ n \notin Uses(u)
    BY <1>4 DEF Uses
  <2> QED BY <2>1, <2>2 DEF TableInv, Apart
<1> QED BY <1>15, <1>16, <1>17, <1>18, <1>19 DEF TableInv

(* Nothing is open at the start. *)
LEMMA TableInit == NsInit => TableInv
<1> SUFFICES ASSUME NsInit PROVE TableInv
  OBVIOUS
<1>1. fops = [n \in AllNames |-> NoFop] /\ fd = [t \in Mount |-> Closed] /\ act = [t \in NsThreads |-> NoOp]
  BY DEF NsInit
<1>2. \A u \in Mount : act[u] = NoOp /\ fd[u] = Closed
  BY <1>1 DEF NsThreads
<1>3. TabShape
  BY <1>1 DEF TabShape, NoFop
<1>4. \A n \in AllNames : UsersOf(n) = {}
  BY <1>2, LioAssumption DEF UsersOf, Closed, AllNames
<1>5. Counted
  BY <1>1, <1>4, FS_EmptySet DEF Counted, NoFop
<1>6. Apart /\ \A u \in Mount : Moving(u) /\ AtRest(u)
  BY <1>2 DEF Apart, Uses, Moving, InMove, AtRest, NoOp
<1> QED BY <1>3, <1>5, <1>6 DEF TableInv

(* Every step keeps the table and libfuse in agreement. *)
LEMMA TableStep == DataInv /\ TableInv /\ NsNext => nhist'.raced \/ TableInv'
<1> SUFFICES ASSUME DataInv, TableInv, NsNext PROVE nhist'.raced \/ TableInv'
  OBVIOUS
<1>1. ASSUME NEW t \in NsThreads, NsStep(t) PROVE nhist'.raced \/ TableInv'
  BY <1>1, ToolTable, PlainTable, MoveTable DEF NsThreads
<1>2. ASSUME NEW t \in Mount, MountStep(t) PROVE nhist'.raced \/ TableInv'
  BY <1>2, CallTable, OpenTable, EnterTable, PlainTable, ReleaseTable, UnlinkTable, RenameTable DEF MountStep
<1>3. ASSUME NEW t \in Tools, CallTool(t) \/ RemoveRegex(t) \/ FsckNext(t) PROVE TableInv'
  BY <1>3, ToolTable
<1> QED BY <1>1, <1>2, <1>3 DEF NsNext

(* lfs_open, lfs_rename and lfs_release keep the table of open files and   *)
(* the open files of libfuse the same, for any number of threads and names. *)
THEOREM TableCountsOpens == LioSpec => []TableTracksOpens
<1>1. (nhist.raced \/ DataInv) /\ (nhist.raced \/ TableInv) /\ [NsNext]_nsvars => (nhist.raced \/ TableInv)'
  <2> SUFFICES ASSUME nhist.raced \/ (DataInv /\ TableInv), [NsNext]_nsvars PROVE nhist'.raced \/ TableInv'
    OBVIOUS
  <2>1. CASE NsNext
    BY <2>1, TableStep DEF NsNext
  <2>2. CASE UNCHANGED nsvars
    BY <2>2 DEF nsvars, TableInv, TabShape, Apart, Uses, Counted, Moving, AtRest, InMove, UsersOf
  <2> QED BY <2>1, <2>2
<1>2. nhist.raced \/ (DataInv /\ TableInv) => TableTracksOpens
  <2> SUFFICES ASSUME DataInv, TableInv, NEW n \in AllNames,
                      \A t \in Mount : act[t].pc = "idle" \/ n \notin Uses(t)
               PROVE  fops[n].ref = Cardinality(UsersOf(n))
    BY DEF TableTracksOpens, UsersOf
  <2>1. n # NoName
    BY LioAssumption DEF AllNames
  <2>2. \A t \in Mount : InMove(t) => n # act[t].p /\ n # act[t].q
    BY <2>1 DEF InMove, Uses
  <2> QED BY <2>2 DEF TableInv, Counted
<1> QED BY <1>1, <1>2, DataAlways, TableInit, PTL DEF LioSpec
================================================================================
