---------------------------- MODULE OsClientsProofs ----------------------------
(***************************************************************************)
(* Proofs about the remote object service (os_remote_client.c,             *)
(* os_remote_server.c) and the time cache (os_timecache.c), for any number *)
(* of clients, attributes, descriptors, calls and entries of a listing.    *)
(***************************************************************************)
EXTENDS OsRemote, OsRemoteStream, OsTimecache, FiniteSetTheorems, TLAPS

-----------------------------------------------------------------------------
(* Descriptors in use.                                                     *)

CallFields == {"h", "cmd", "at", "waiting", "fd", "to", "of"}

(* A call is only ever at work on descriptors that are registered and open *)
(* for its host; one that is being opened or closed is not registered.     *)
CallOK(c) ==
  /\ CallFields \subseteq DOMAIN c
  /\ c.at # "loose"
  /\ c.at = "request" /\ c.cmd # "copy_attrs" => c.to = NoFd
  /\ c.at \in {"half", "held"} => c.fd \in ongoing /\ child[c.fd] = c.h
  /\ c.at = "held" /\ c.to # NoFd => c.to \in ongoing /\ child[c.to] = c.h
  /\ c.at \in {"opened", "closing"} => c.fd \in Fds /\ c.fd \notin ongoing

(* Descriptors between the child and the ongoing table have one owner.     *)
InTransit(c) == c.at \in {"opened", "closing"}
OneOwner ==
  \A i, j \in Slots : i # j /\ InTransit(call[i]) /\ InTransit(call[j]) => call[i].fd # call[j].fd

DescriptorInv ==
  /\ DOMAIN child = Fds /\ ongoing \subseteq Fds /\ DOMAIN call = Slots
  /\ \A i \in Slots : CallOK(call[i])
  /\ OneOwner

(* A new call, and the ways a call ends, are sound.                        *)
LEMMA IdleSound == CallOK(Idle) /\ ~InTransit(Idle)
BY DEF CallOK, CallFields, Idle, InTransit

LEMMA NewSound ==
  ASSUME NEW h, NEW cmd
  PROVE  /\ CallFields \subseteq DOMAIN New(h, cmd)
         /\ New(h, cmd).at = "request" /\ New(h, cmd).to = NoFd /\ New(h, cmd).cmd = cmd
         /\ CallOK(New(h, cmd)) /\ ~InTransit(New(h, cmd))
BY DEF CallOK, CallFields, New, Idle, InTransit

LEMMA UnheardSound == ASSUME NEW c PROVE CallOK(Unheard(c)) /\ ~InTransit(Unheard(c))
<1>1. CallOK([New(c.h, "status") EXCEPT !.at = "lost"]) /\ ~InTransit([New(c.h, "status") EXCEPT !.at = "lost"])
  BY NewSound DEF CallOK, CallFields, InTransit
<1> QED BY <1>1, IdleSound DEF Unheard

LEMMA AnsweredSound ==
  ASSUME NEW c, CallOK(c), NEW granted
  PROVE  CallOK(Answered(c, granted)) /\ ~InTransit(Answered(c, granted))
<1>1. CallOK([New(c.h, "status") EXCEPT !.at = "response"]) /\ ~InTransit([New(c.h, "status") EXCEPT !.at = "response"])
  BY NewSound DEF CallOK, CallFields, InTransit
<1>2. CallOK([c EXCEPT !.at = "response"]) /\ ~InTransit([c EXCEPT !.at = "response"])
  BY DEF CallOK, CallFields, InTransit
<1> QED BY <1>1, <1>2, IdleSound DEF Answered

(* Several calls end, start or lose their caller at once.                  *)
LEMMA CallsStaySound ==
  ASSUME DescriptorInv, UNCHANGED <<child, ongoing>>, DOMAIN call' = Slots,
         \A j \in Slots : \/ call'[j] = call[j]
                          \/ CallOK(call'[j]) /\ ~InTransit(call'[j])
                          \/ CallOK(call'[j]) /\ call'[j].at = call[j].at /\ call'[j].fd = call[j].fd
  PROVE  DescriptorInv'
<1>1. \A j \in Slots : CallOK(call[j])'
  BY DEF DescriptorInv, CallOK
<1>2. OneOwner'
  BY DEF DescriptorInv, OneOwner, InTransit
<1> QED BY <1>1, <1>2 DEF DescriptorInv

(* A step that replaces one call by a sound one, descriptors as they were. *)
LEMMA ReplaceCall ==
  ASSUME DescriptorInv, NEW i \in Slots, NEW c, call' = [call EXCEPT ![i] = c],
         UNCHANGED <<child, ongoing>>, CallOK(c), ~InTransit(c)
  PROVE  DescriptorInv'
<1>1. DOMAIN call' = Slots /\ \A j \in Slots : call'[j] = IF j = i THEN c ELSE call[j]
  BY DEF DescriptorInv
<1> QED BY <1>1, CallsStaySound

(* A stage that says nothing of descriptors.                               *)
LEMMA StageSound ==
  ASSUME DescriptorInv, NEW i \in Slots, NEW at, Stage(i, at), UNCHANGED <<child, ongoing>>,
         at \in {"opening", "bulk", "registered", "ended", "aborted"}
  PROVE  DescriptorInv'
<1> DEFINE c == [call[i] EXCEPT !.at = at]
<1>1. call' = [call EXCEPT ![i] = c]
  BY DEF Stage
<1>2. CallOK(c) /\ ~InTransit(c)
  BY DEF DescriptorInv, CallOK, CallFields, InTransit
<1> HIDE DEF c
<1> QED BY <1>1, <1>2, ReplaceCall

LEMMA AnswerSound ==
  ASSUME DescriptorInv, NEW i \in Slots, NEW granted, Answer(i, granted), UNCHANGED <<child, ongoing>>
  PROVE  DescriptorInv'
<1>1. call' = [call EXCEPT ![i] = Answered(call[i], granted)]
  BY DEF Answer
<1>2. CallOK(Answered(call[i], granted)) /\ ~InTransit(Answered(call[i], granted))
  BY AnsweredSound DEF DescriptorInv
<1> QED BY <1>1, <1>2, ReplaceCall

(* The callers.                                                            *)
LEMMA SendSound ==
  ASSUME DescriptorInv, NEW i \in Slots, NEW c, Send(i, c), CallOK(c), ~InTransit(c)
  PROVE  DescriptorInv'
BY ReplaceCall DEF Send

LEMMA ClientSound ==
  ASSUME DescriptorInv, NEW i \in Slots, Client(i)
  PROVE  DescriptorInv'
<1>1. ASSUME NEW h, NEW cmd, Send(i, New(h, cmd)) PROVE DescriptorInv'
  BY <1>1, NewSound, SendSound
<1>2. ASSUME NEW h, NEW cmd, NEW f PROVE LET c == [New(h, cmd) EXCEPT !.fd = f] IN CallOK(c) /\ ~InTransit(c)
  BY NewSound DEF CallOK, CallFields, InTransit
<1>3. ASSUME NEW h, NEW cmd, NEW f, CallOnFd(i, h, cmd, f) PROVE DescriptorInv'
  BY <1>2, <1>3, SendSound DEF CallOnFd
<1>4. ASSUME NEW h, NEW cmd, NEW j, NEW what, CallAbort(i, h, j, what, cmd) PROVE DescriptorInv'
  <2>1. LET c == [New(h, cmd) EXCEPT !.of = {j}] IN CallOK(c) /\ ~InTransit(c)
    BY NewSound DEF CallOK, CallFields, InTransit
  <2> QED BY <1>4, <2>1, SendSound DEF CallAbort
<1>5. ASSUME NEW h, NEW f, CallClose(i, h, f) PROVE DescriptorInv'
  BY <1>2, <1>5, ReplaceCall DEF CallClose
<1>6. ASSUME NEW h, NEW f, NEW g, CallCopyAttrs(i, h, f, g) PROVE DescriptorInv'
  <2>1. LET c == [New(h, "copy_attrs") EXCEPT !.fd = f, !.to = g] IN CallOK(c) /\ ~InTransit(c)
    BY NewSound DEF CallOK, CallFields, InTransit
  <2> QED BY <1>6, <2>1, SendSound DEF CallCopyAttrs
<1>7. ASSUME Timeout(i) PROVE DescriptorInv'
  <2>1. /\ DOMAIN call' = Slots /\ UNCHANGED <<child, ongoing>>
        /\ \A j \in Slots : call'[j] = IF j = i THEN Settled(call[i]) ELSE call[j]
    BY <1>7 DEF Timeout, DescriptorInv
  <2>2. CASE Settled(call[i]) = Idle
    BY <2>1, <2>2, IdleSound, CallsStaySound
  <2>3. CASE Settled(call[i]) = [call[i] EXCEPT !.waiting = FALSE]
    <3>1. LET c == [call[i] EXCEPT !.waiting = FALSE]
          IN  CallOK(c) /\ c.at = call[i].at /\ c.fd = call[i].fd
      BY DEF DescriptorInv, CallOK, CallFields
    <3> QED BY <2>1, <2>3, <3>1, CallsStaySound
  <2> QED BY <2>2, <2>3 DEF Settled
<1>8. ASSUME ResponseOpen(i) \/ ResponseStatus(i) PROVE DescriptorInv'
  BY <1>8, IdleSound, ReplaceCall DEF ResponseOpen, ResponseStatus
<1>9. ASSUME NEW h, NEW cmd, CallPlain(i, h, cmd) PROVE DescriptorInv'
  BY <1>1, <1>9 DEF CallPlain
<1> QED BY <1>1, <1>3, <1>4, <1>5, <1>6, <1>7, <1>8, <1>9
        DEF Client, CallOpen, CallGetAttrs, CallSetAttrs, CallMoveAttrs, CallSymlinkAttrs, CallAttrIter,
            CallExists, CallCreate, CallRemove, CallMove, CallSymlink, CallHardlink, CallFsckObject,
            CallRemoveRegex, CallRegexSet, CallAbortOpen, CallAbortRemoveRegex, CallAbortRegexSet

(* A client dies with what it waited for.                                  *)
LEMMA ClientDiesSound ==
  ASSUME DescriptorInv, NEW h, ClientDies(h)
  PROVE  DescriptorInv'
<1>1. /\ DOMAIN call' = Slots /\ UNCHANGED <<child, ongoing>>
      /\ \A j \in Slots : call'[j] = Dead(call[j], h)
  BY DEF ClientDies
<1>2. ASSUME NEW j \in Slots
      PROVE  \/ Dead(call[j], h) = call[j] \/ Dead(call[j], h) = Idle
             \/ LET c == Dead(call[j], h) IN CallOK(c) /\ c.at = call[j].at /\ c.fd = call[j].fd
  <2>1. LET c == [call[j] EXCEPT !.waiting = FALSE]
        IN  CallOK(c) /\ c.at = call[j].at /\ c.fd = call[j].fd
    BY DEF DescriptorInv, CallOK, CallFields
  <2> QED BY <2>1 DEF Dead, Settled
<1> QED BY <1>1, <1>2, IdleSound, CallsStaySound

-----------------------------------------------------------------------------
(* The callbacks that open, register and close.                            *)
LEMMA OpenGrantedSound ==
  ASSUME DescriptorInv, NEW i \in Slots, OpenGranted(i)
  PROVE  DescriptorInv'
<1>1. PICK f \in Fds : /\ Unreferenced(f)
                       /\ call' = [call EXCEPT ![i].at = "opened", ![i].fd = f]
                       /\ child' = [child EXCEPT ![f] = call[i].h]
  BY DEF OpenGranted
<1> DEFINE c == [call[i] EXCEPT !.at = "opened", !.fd = f]
<1>2. /\ DOMAIN call' = Slots /\ ongoing' = ongoing /\ DOMAIN child' = Fds
      /\ \A j \in Slots : call'[j] = IF j = i THEN c ELSE call[j]
      /\ \A g \in Fds : g # f => child'[g] = child[g]
  BY <1>1 DEF OpenGranted, DescriptorInv
<1>3. f \notin ongoing /\ \A j \in Slots : f # call[j].fd
  BY <1>1 DEF Unreferenced
<1>4. CallFields \subseteq DOMAIN c /\ c.at = "opened" /\ c.fd = f
  BY DEF DescriptorInv, CallOK, CallFields
<1> HIDE DEF c
<1>5. ASSUME NEW j \in Slots PROVE CallOK(call[j])'
  <2>1. CASE j = i
    BY <1>2, <1>3, <1>4, <2>1 DEF CallOK
  <2>2. CASE j # i
    BY <1>2, <1>3, <2>2 DEF CallOK, DescriptorInv
  <2> QED BY <2>1, <2>2
<1>6. OneOwner'
  BY <1>2, <1>3, <1>4 DEF OneOwner, InTransit, DescriptorInv
<1> QED BY <1>2, <1>5, <1>6 DEF DescriptorInv

LEMMA OpenAnswerSound ==
  ASSUME DescriptorInv, NEW i \in Slots, OpenAnswer(i)
  PROVE  DescriptorInv'
<1> DEFINE c == Answered(call[i], TRUE)
<1>1. /\ DOMAIN call' = Slots /\ child' = child /\ ongoing' = ongoing \cup {call[i].fd}
      /\ \A j \in Slots : call'[j] = IF j = i THEN c ELSE call[j]
      /\ call[i].at = "opened" /\ call[i].fd \in Fds
  BY DEF OpenAnswer, Answer, DescriptorInv, CallOK
<1>2. CallOK(c) /\ ~InTransit(c)
  BY AnsweredSound DEF DescriptorInv
<1> HIDE DEF c
<1>3. ASSUME NEW j \in Slots PROVE CallOK(call[j])'
  <2>1. CASE j = i
    BY <1>1, <1>2, <2>1 DEF CallOK, InTransit
  <2>2. CASE j # i
    BY <1>1, <2>2 DEF CallOK, DescriptorInv, OneOwner, InTransit
  <2> QED BY <2>1, <2>2
<1>4. OneOwner'
  BY <1>1, <1>2 DEF OneOwner, DescriptorInv
<1> QED BY <1>1, <1>3, <1>4 DEF DescriptorInv

LEMMA CloseTakeSound ==
  ASSUME DescriptorInv, NEW i \in Slots, CloseTake(i)
  PROVE  DescriptorInv'
<1> DEFINE f == call[i].fd
           c == [call[i] EXCEPT !.at = "closing"]
<1>1. /\ DOMAIN call' = Slots /\ child' = child /\ ongoing' = ongoing \ {f}
      /\ \A j \in Slots : call'[j] = IF j = i THEN c ELSE call[j]
      /\ f \in ongoing /\ Held(f) = {}
  BY DEF CloseTake, Stage, Takes, Gettable, DescriptorInv
<1>2. CallFields \subseteq DOMAIN c /\ c.at = "closing" /\ c.fd = f
  BY DEF DescriptorInv, CallOK, CallFields
<1> HIDE DEF c
<1>3. ASSUME NEW j \in Slots PROVE CallOK(call[j])'
  <2>1. CASE j = i
    BY <1>1, <1>2, <2>1 DEF CallOK, DescriptorInv
  <2>2. CASE j # i
    <3>1. /\ call[j].at \in {"half", "held"} => f # call[j].fd
          /\ call[j].at = "held" => f # call[j].to
      BY <1>1 DEF Held
    <3> QED BY <1>1, <2>2, <3>1 DEF CallOK, DescriptorInv
  <2> QED BY <2>1, <2>2
<1>4. \A j \in Slots : InTransit(call[j]) => call[j].fd # f
  BY <1>1 DEF DescriptorInv, CallOK, InTransit
<1>5. OneOwner'
  BY <1>1, <1>2, <1>4 DEF OneOwner, DescriptorInv
<1> QED BY <1>1, <1>3, <1>5 DEF DescriptorInv

LEMMA CloseChildSound ==
  ASSUME DescriptorInv, NEW i \in Slots, CloseChild(i)
  PROVE  DescriptorInv'
<1> DEFINE f == call[i].fd
           c == Answered(call[i], FALSE)
<1>1. /\ DOMAIN call' = Slots /\ ongoing' = ongoing /\ DOMAIN child' = Fds
      /\ \A j \in Slots : call'[j] = IF j = i THEN c ELSE call[j]
      /\ f \notin ongoing /\ \A g \in Fds : g # f => child'[g] = child[g]
  BY DEF CloseChild, ChildClose, Answer, DescriptorInv, CallOK
<1>2. CallOK(c) /\ ~InTransit(c)
  BY AnsweredSound DEF DescriptorInv
<1>3. ~(c.at \in {"half", "held"})
  BY NewSound DEF Answered, Idle, DescriptorInv, CallOK, CallFields
<1> HIDE DEF c
<1>4. ASSUME NEW j \in Slots PROVE CallOK(call[j])'
  <2>1. CASE j = i
    BY <1>1, <1>2, <1>3, <2>1 DEF CallOK, InTransit
  <2>2. CASE j # i
    BY <1>1, <2>2 DEF CallOK, DescriptorInv
  <2> QED BY <2>1, <2>2
<1>5. OneOwner'
  BY <1>1, <1>2 DEF OneOwner, DescriptorInv
<1> QED BY <1>1, <1>4, <1>5 DEF DescriptorInv

LEMMA ExpireSound ==
  ASSUME DescriptorInv, NEW f \in Fds, OngoingExpire(f)
  PROVE  DescriptorInv'
<1>1. /\ call' = call /\ ongoing' = ongoing \ {f} /\ DOMAIN child' = Fds
      /\ f \in ongoing /\ Held(f) = {} /\ \A g \in Fds : g # f => child'[g] = child[g]
  BY DEF OngoingExpire, ChildClose, DescriptorInv
<1>2. ASSUME NEW j \in Slots PROVE CallOK(call[j])'
  <2>1. /\ call[j].at \in {"half", "held"} => f # call[j].fd
        /\ call[j].at = "held" => f # call[j].to
    BY <1>1 DEF Held
  <2> QED BY <1>1, <2>1 DEF CallOK, DescriptorInv
<1>3. OneOwner'
  BY <1>1 DEF OneOwner, InTransit, DescriptorInv
<1> QED BY <1>1, <1>2, <1>3 DEF DescriptorInv

-----------------------------------------------------------------------------
(* The callbacks that use a descriptor, and the others.                    *)
LEMMA GetsSound ==
  ASSUME DescriptorInv, NEW i \in Slots, NEW cmd, NEW at, Gets(i, cmd, at),
         at = "half" \/ (at = "held" /\ cmd # "copy_attrs")
  PROVE  DescriptorInv'
<1> DEFINE c == [call[i] EXCEPT !.at = at, !.cmd = "attrs"]
<1>1. /\ call' = [call EXCEPT ![i] = c] /\ UNCHANGED <<child, ongoing>>
      /\ call[i].at = "request" /\ call[i].cmd = cmd
      /\ call[i].fd \in ongoing /\ child[call[i].fd] = call[i].h
  BY DEF Gets, Starts, Gettable
<1>2. /\ CallFields \subseteq DOMAIN c /\ c.at = at /\ c.cmd = "attrs"
      /\ c.fd = call[i].fd /\ c.to = call[i].to /\ c.h = call[i].h
  BY DEF DescriptorInv, CallOK, CallFields
<1>3. at = "held" => call[i].to = NoFd
  BY <1>1 DEF DescriptorInv, CallOK
<1> HIDE DEF c
<1>4. CallOK(c) /\ ~InTransit(c)
  BY <1>1, <1>2, <1>3 DEF CallOK, InTransit
<1> QED BY <1>1, <1>4, ReplaceCall

LEMMA CopyDestSound ==
  ASSUME DescriptorInv, NEW i \in Slots, CopyAttrsDest(i)
  PROVE  DescriptorInv'
<1>1. UNCHANGED <<child, ongoing>> /\ call[i].at = "half" /\ call[i].fd \in ongoing /\ child[call[i].fd] = call[i].h
  BY DEF CopyAttrsDest, DescriptorInv, CallOK
<1>2. CASE Gettable(i, call[i].to) /\ Stage(i, "held")
  <2> DEFINE c == [call[i] EXCEPT !.at = "held"]
  <2>1. call' = [call EXCEPT ![i] = c] /\ call[i].to \in ongoing /\ child[call[i].to] = call[i].h
    BY <1>2 DEF Stage, Gettable
  <2>2. CallOK(c) /\ ~InTransit(c)
    BY <1>1, <2>1 DEF DescriptorInv, CallOK, CallFields, InTransit
  <2> HIDE DEF c
  <2> QED BY <1>1, <2>1, <2>2, ReplaceCall
<1>3. CASE Answer(i, FALSE)
  BY <1>1, <1>3, AnswerSound
<1> QED BY <1>2, <1>3 DEF CopyAttrsDest

(* An abort marks an open that waits, or a bulk operation, as ended.       *)
LEMMA AbortSound ==
  ASSUME DescriptorInv, NEW i \in Slots, AbortOpen(i) \/ AbortRemoveRegex(i) \/ AbortRegexSet(i)
  PROVE  DescriptorInv'
<1>1. ASSUME NEW j \in Slots, NEW at, at \in {"aborted", "ended"}
      PROVE  LET c == [call[j] EXCEPT !.at = at] IN CallOK(c) /\ ~InTransit(c)
  BY <1>1 DEF DescriptorInv, CallOK, CallFields, InTransit
<1>2. CASE AbortOpen(i)
  <2>1. /\ DOMAIN call' = Slots /\ UNCHANGED <<child, ongoing>>
        /\ \A j \in Slots : \/ call'[j] = call[j]
                            \/ j = i /\ call'[j] = Answered(call[i], FALSE)
                            \/ call'[j] = [call[j] EXCEPT !.at = "aborted"]
    BY <1>2 DEF AbortOpen
  <2>2. CallOK(Answered(call[i], FALSE)) /\ ~InTransit(Answered(call[i], FALSE))
    BY AnsweredSound DEF DescriptorInv
  <2> QED BY <1>1, <2>1, <2>2, CallsStaySound
<1>3. ASSUME NEW cmd, AbortBulk(i, cmd) PROVE DescriptorInv'
  <2>1. /\ DOMAIN call' = Slots /\ UNCHANGED <<child, ongoing>>
        /\ \A j \in Slots : \/ call'[j] = call[j]
                            \/ call'[j] = Unheard(call[i])
                            \/ call'[j] = [call[j] EXCEPT !.at = "ended"]
    BY <1>3 DEF AbortBulk
  <2> QED BY <1>1, <2>1, UnheardSound, CallsStaySound
<1> QED BY <1>2, <1>3 DEF AbortRemoveRegex, AbortRegexSet

LEMMA ServerSound ==
  ASSUME DescriptorInv, NEW i \in Slots, Server(i)
  PROVE  DescriptorInv'
<1>1. ASSUME OpenStart(i) \/ RemoveRegexStart(i) \/ RegexSetStart(i) \/ RegexSetRun(i) \/ BulkPoll(i)
      PROVE  DescriptorInv'
  BY <1>1, StageSound DEF OpenStart, RemoveRegexStart, RegexSetStart, RegexSetRun, BulkPoll, BulkEnds
<1>2. ASSUME OpenRefused(i) \/ CloseUnknown(i) \/ AttrsUnknown(i) \/ AttrsDone(i) \/ BulkAnswer(i)
      PROVE  DescriptorInv'
  BY <1>2, AnswerSound DEF OpenRefused, CloseUnknown, AttrsUnknown, AttrsDone, BulkAnswer, Gives
<1>3. ASSUME NEW cmd, NameCb(i, cmd) PROVE DescriptorInv'
  BY <1>3, AnswerSound DEF NameCb
<1>4. ASSUME ExistsCb(i) \/ CreateCb(i) \/ RemoveCb(i) \/ MoveCb(i) \/ SymlinkCb(i) \/ HardlinkCb(i) \/ FsckObjectCb(i)
      PROVE  DescriptorInv'
  BY <1>3, <1>4 DEF ExistsCb, CreateCb, RemoveCb, MoveCb, SymlinkCb, HardlinkCb, FsckObjectCb
<1>5. ASSUME GetAttrs(i) \/ SetAttrs(i) \/ MoveAttrs(i) \/ SymlinkAttrs(i) \/ AttrIter(i) \/ CopyAttrs(i)
      PROVE  DescriptorInv'
  BY <1>5, GetsSound DEF GetAttrs, SetAttrs, MoveAttrs, SymlinkAttrs, AttrIter, CopyAttrs
<1> QED BY <1>1, <1>2, <1>4, <1>5, OpenGrantedSound, OpenAnswerSound, CloseTakeSound, CloseChildSound,
           CopyDestSound, AbortSound DEF Server

LEMMA NextDescriptorInv == DescriptorInv /\ [Next]_vars => DescriptorInv'
<1> SUFFICES ASSUME DescriptorInv, [Next]_vars PROVE DescriptorInv'
  OBVIOUS
<1>1. ASSUME NEW i \in Slots, BulkEnds(i) PROVE DescriptorInv'
  BY <1>1, StageSound DEF BulkEnds
<1>2. ASSUME NEW i \in Slots, MessageLost(i) PROVE DescriptorInv'
  BY <1>2, UnheardSound, ReplaceCall DEF MessageLost
<1>3. ASSUME NEW i \in Slots, SpinHeartbeat(i) \/ SpinLapse(i) PROVE DescriptorInv'
  BY <1>3 DEF SpinHeartbeat, SpinLapse, DescriptorInv, CallOK, OneOwner, InTransit
<1>4. CASE UNCHANGED vars
  BY <1>4 DEF vars, DescriptorInv, CallOK, OneOwner, InTransit
<1> QED BY <1>1, <1>2, <1>3, <1>4, ClientSound, ServerSound, ExpireSound, ClientDiesSound DEF Next

(* For any number of clients, calls and descriptors, whatever messages are *)
(* lost and whoever dies: while a callback of os_remote_server.c works on  *)
(* a descriptor, neither a close nor the ongoing monitor closes it.        *)
THEOREM HeldDescriptorsOpen == Spec => []HeldStaysOpen
<1>1. Init => DescriptorInv
  <2> SUFFICES ASSUME Init PROVE DescriptorInv
    OBVIOUS
  <2>1. DOMAIN child = Fds /\ ongoing \subseteq Fds /\ DOMAIN call = Slots /\ \A i \in Slots : call[i] = Idle
    BY DEF Init
  <2> QED BY <2>1, IdleSound DEF DescriptorInv, OneOwner
<1>2. DescriptorInv => HeldStaysOpen
  BY DEF DescriptorInv, CallOK, HeldStaysOpen
<1> QED BY <1>1, <1>2, NextDescriptorInv, PTL DEF Spec

-----------------------------------------------------------------------------
(* The time cache.                                                         *)

TcFields == {"op", "pc", "o", "k", "f", "o2", "k2", "f2", "v", "got", "at", "opens", "pl", "raced"}
AttrOps == {"get", "list", "set", "copy", "symlink", "rename"}
StoreVals == Vals \cup {None} \cup (Objs \X Keys)
St(p) == store[p[1]][p[2]]
Ca(p) == cache[p[1]][p[2]]

(* Places where a call has changed the child and not yet the cache.        *)
Changed(r) ==
  IF r.pc = "update" THEN {p \in r.pl : p = <<r.o, r.k>> => r.pl = {<<r.o, r.k>>}}
  ELSE IF r.pc = "drop_attr"
  THEN IF r.op = "symlink" THEN {<<r.o, r.k>>} ELSE {p \in r.pl : p # <<r.o, r.k>>}
  ELSE IF r.pc \in {"move_attr", "drop_object", "move_object", "purge"} THEN r.pl ELSE {}

(* Places to which it may bring a value that it trusts.                    *)
Fills(r) ==
  IF r.pc \in {"put", "prefix_put", "move_attr"} THEN r.pl
  ELSE IF r.pc = "update" THEN Changed(r) ELSE {}

(* What a call carries, whatever the others do.                            *)
CallShape(r) ==
  /\ TcFields \subseteq DOMAIN r
  /\ r.o \in Objs /\ r.o2 \in Objs /\ r.k \in AllKeys /\ r.k2 \in AllKeys
  /\ r.op \in AttrOps => r.k \in Keys /\ r.k2 \in Keys
  /\ r.op = "set" => r.v \in Vals \cup {None}
  /\ r.op \in {"copy", "symlink"} => <<r.o, r.k>> # <<r.o2, r.k2>>
  /\ r.op = "rename" => r.k # r.k2
  /\ r.pc \in {"fetch", "prefix", "prefix_put"} => r.op = "get"
  /\ r.pc = "put" => /\ r.op \in {"get", "list"} /\ r.v \in StoreVals /\ r.got \in StoreVals
                     /\ r.pl = {<<r.o, r.k>>, IF IsLink(r.v) THEN r.v ELSE <<r.o, r.k>>}
  /\ r.pc = "prefix_put" => r.pl = {<<r.o2, Inode>>} /\ r.got \in StoreVals
  /\ r.pc = "update" => r.op = "set" /\ \E p \in Objs \X Keys : r.pl = {p, <<r.o, r.k>>}
  /\ r.pc = "drop_attr" => r.op \in {"copy", "symlink"} /\ <<r.o, r.k>> \in r.pl
  /\ r.pc = "move_attr" => r.op = "rename" /\ r.pl = {<<r.o, r.k>>, <<r.o, r.k2>>}
  /\ r.pc \in {"drop_object", "move_object"} => r.pl = {r.o} \X AllKeys
  /\ r.pc = "install" => r.opens \in CacheFds

(* What it learned from the child, or did there, is still so if no other   *)
(* call overtook it.                                                       *)
CallTrue(r) ==
  ~r.raced =>
    /\ r.pc = "put" => r.v = store[r.o][r.k] /\ r.got = Value(r.o, r.k)
    /\ r.pc = "prefix_put" => r.got = store[r.o2][Inode] /\ r.o2 \in there
    /\ r.pc = "update" => \A p \in Changed(r) : St(p) = r.v
    /\ r.pc = "move_attr" /\ cache[r.o][r.k].in /\ <<r.o, r.k>> \notin suspect =>
         cache[r.o][r.k].v = store[r.o][r.k2]

(* A rename that nobody overtook is alone with its two attributes.         *)
MovesAlone ==
  \A i, j \in CacheSlots : i # j /\ tcall[j].pc = "move_attr" /\ ~tcall[j].raced =>
    Fills(tcall[i]) \cap tcall[j].pl = {}

StoreShape ==
  /\ DOMAIN store = Objs /\ \A o \in Objs : DOMAIN store[o] = AllKeys
  /\ \A p \in Places : /\ St(p) \in StoreVals
                       /\ IsLink(St(p)) => ~IsLink(St(St(p)))
                       /\ p[1] \notin there => St(p) = None
CacheShape ==
  /\ DOMAIN cache = Objs /\ \A o \in Objs : DOMAIN cache[o] = AllKeys
  /\ \A p \in Places : /\ {"v", "old", "in"} \subseteq DOMAIN Ca(p)
                       /\ Ca(p).v \in StoreVals
                       /\ Ca(p).in => Walk(p[1])

(* An entry is right unless it is marked or on its way.                    *)
Right(p) == Ca(p).in => St(p) = Ca(p).v /\ (p[2] = Inode => p[1] \in there)
CacheRight == \A p \in Places : p \notin suspect /\ (\A i \in CacheSlots : p \notin Changed(tcall[i])) => Right(p)
TcInv ==
  /\ DOMAIN tcall = CacheSlots /\ StoreShape /\ CacheShape /\ MovesAlone /\ CacheRight
  /\ \A i \in CacheSlots : CallShape(tcall[i]) /\ CallTrue(tcall[i])

\* The parts of a place.
LEMMA PlaceParts ==
  /\ \A p \in Places : p[1] \in Objs /\ p[2] \in AllKeys /\ p = <<p[1], p[2]>>
  /\ \A o \in Objs, k \in AllKeys : <<o, k>> \in Places /\ <<o, k>>[1] = o /\ <<o, k>>[2] = k
  /\ \A p \in Objs \X Keys : p \in Places /\ p[2] \in Keys /\ p[2] # Inode
BY TimecacheAssumption DEF Places, AllKeys

\* A stored value is a value, None, or a link to an attribute that is not
\* system.inode.
LEMMA LinkParts ==
  ASSUME NEW v \in StoreVals, IsLink(v)
  PROVE  v \in Objs \X Keys /\ v \in Places /\ v[2] # Inode
BY PlaceParts, TimecacheAssumption DEF StoreVals, IsLink

\* A value is no link.
LEMMA NoLinks == \A v \in Vals \cup {None} : ~IsLink(v) /\ v \in StoreVals
BY TimecacheAssumption DEF IsLink, StoreVals

\* Changing one place of the child's attributes, or of the cache.
LEMMA WithAt ==
  ASSUME NEW s, DOMAIN s = Objs, \A o \in Objs : DOMAIN s[o] = AllKeys, NEW p \in Places, NEW v
  PROVE  /\ DOMAIN With(s, p, v) = Objs /\ \A o \in Objs : DOMAIN With(s, p, v)[o] = AllKeys
         /\ With(s, p, v)[p[1]][p[2]] = v
         /\ \A q \in Places : q # p => With(s, p, v)[q[1]][q[2]] = s[q[1]][q[2]]
<1>1. p[1] \in Objs /\ p[2] \in AllKeys
  BY PlaceParts
<1>2. /\ DOMAIN With(s, p, v) = Objs /\ \A o \in Objs : DOMAIN With(s, p, v)[o] = AllKeys
      /\ With(s, p, v)[p[1]][p[2]] = v
  BY <1>1 DEF With
<1>3. ASSUME NEW q \in Places, q # p PROVE With(s, p, v)[q[1]][q[2]] = s[q[1]][q[2]]
  <2>1. q[1] \in Objs /\ q[2] \in AllKeys /\ (q[1] # p[1] \/ q[2] # p[2])
    BY <1>3, PlaceParts
  <2> QED BY <1>1, <2>1 DEF With
<1> QED BY <1>2, <1>3

\* A thread between calls.
LEMMA TcIdleShape ==
  CallShape(TcIdle) /\ TcIdle.pc = "idle" /\ Changed(TcIdle) = {} /\ Fills(TcIdle) = {}
BY DEF TcIdle, CallShape, Changed, Fills, TcFields, Objs, AllKeys, AttrOps

\* Outside its visit to the cache a call has nothing on its way.
LEMMA NothingOnItsWay ==
  ASSUME NEW r, r.pc \notin InCache
  PROVE  Changed(r) = {} /\ Fills(r) = {}
BY DEF Changed, Fills, InCache

\* Being marked changes nothing else of a call.
LEMMA MarkedShape ==
  ASSUME NEW r, CallShape(r)
  PROVE  LET m == [r EXCEPT !.raced = TRUE] IN
         /\ CallShape(m) /\ Changed(m) = Changed(r) /\ Fills(m) = Fills(r)
         /\ m.pc = r.pc /\ m.pl = r.pl /\ m.raced
<1>1. PICK m : m = [r EXCEPT !.raced = TRUE]
  OBVIOUS
<1>2. /\ TcFields \subseteq DOMAIN m /\ m.raced
      /\ m.op = r.op /\ m.pc = r.pc /\ m.o = r.o /\ m.k = r.k /\ m.f = r.f /\ m.o2 = r.o2 /\ m.k2 = r.k2
      /\ m.f2 = r.f2 /\ m.v = r.v /\ m.got = r.got /\ m.at = r.at /\ m.opens = r.opens /\ m.pl = r.pl
  BY <1>1 DEF CallShape, TcFields
<1>3. Changed(m) = Changed(r)
  BY <1>2 DEF Changed
<1>4. Fills(m) = Fills(r)
  BY <1>2, <1>3 DEF Fills
<1>5. CallShape(m)
  BY <1>2 DEF CallShape
<1> QED BY <1>1, <1>2, <1>3, <1>4, <1>5

\* A call's places of either kind are among those it is marked for.
LEMMA OnItsWay ==
  ASSUME NEW r, CallShape(r)
  PROVE  Changed(r) \cup Fills(r) \subseteq r.pl /\ (Changed(r) \cup Fills(r) # {} => r.pc \in InCache)
BY DEF Changed, Fills, InCache, CallShape

Marked(r) == [r EXCEPT !.raced = TRUE]

(* What every step does that leaves the cache alone: call i, or one that   *)
(* the cache passes on, changes the child at ps, marks the calls it        *)
(* overtakes, and answers for ps until the cache is told.                  *)
ChildStep(i, ps) ==
  /\ ps \subseteq Places /\ StoreShape' /\ cache' = cache /\ tree' = tree
  /\ (\A p \in suspect : Ca(p).in => p \in suspect') /\ DOMAIN tcall' = CacheSlots
  /\ \A p \in Places \ ps : store'[p[1]][p[2]] = store[p[1]][p[2]]
  /\ \A o \in there : <<o, Inode>> \notin ps => o \in there'
  /\ \A j \in CacheSlots \ {i} :
       /\ tcall'[j] = tcall[j] \/ tcall'[j] = Marked(tcall[j])
       /\ Overlaps(i, j, ps) => tcall'[j] = Marked(tcall[j])
  /\ i \in CacheSlots =>
       /\ tcall[i].pc \notin InCache /\ CallShape(tcall'[i]) /\ CallTrue(tcall[i])'
       /\ \A j \in CacheSlots \ {i} :
            /\ tcall[j].pc = "move_attr" /\ tcall[j].pl \cap Fills(tcall'[i]) # {} => tcall'[j] = Marked(tcall[j])
            /\ tcall'[i].pc = "move_attr" /\ ~tcall'[i].raced => Fills(tcall[j]) \cap tcall'[i].pl = {}
  /\ \A p \in ps : \/ p \in suspect' \/ \E j \in CacheSlots : p \in Changed(tcall'[j])
                   \/ Right(p) => Right(p)'

\* Such a step keeps the invariant.
LEMMA ChildKeeps ==
  ASSUME NEW i, NEW ps, TcInv, ChildStep(i, ps)
  PROVE  TcInv'
<1> USE DEF Marked
<1>1. \A j \in CacheSlots : CallShape(tcall[j]) /\ CallTrue(tcall[j])
  BY DEF TcInv
<1>2. ASSUME NEW j \in CacheSlots, j # i
      PROVE  /\ CallShape(tcall'[j]) /\ Changed(tcall'[j]) = Changed(tcall[j]) /\ Fills(tcall'[j]) = Fills(tcall[j])
             /\ tcall'[j].pc = tcall[j].pc /\ tcall'[j].pl = tcall[j].pl
             /\ ~tcall'[j].raced => tcall'[j] = tcall[j] /\ ~Overlaps(i, j, ps)
  <2>1. CallShape(tcall[j])
    BY <1>1
  <2>2. LET m == Marked(tcall[j]) IN
         /\ CallShape(m) /\ Changed(m) = Changed(tcall[j]) /\ Fills(m) = Fills(tcall[j])
         /\ m.pc = tcall[j].pc /\ m.pl = tcall[j].pl /\ m.raced
    BY <2>1, MarkedShape
  <2>3. /\ tcall'[j] = tcall[j] \/ tcall'[j] = Marked(tcall[j])
        /\ Overlaps(i, j, ps) => tcall'[j] = Marked(tcall[j])
    BY <1>2 DEF ChildStep
  <2> HIDE DEF Marked
  <2> QED BY <2>1, <2>2, <2>3
<1> HIDE DEF Marked
<1>3. \A j \in CacheSlots : CallShape(tcall'[j])
  BY <1>2 DEF ChildStep
<1>4. CacheShape'
  <2>1. CacheShape /\ cache' = cache /\ tree' = tree
    BY DEF TcInv, ChildStep
  <2> QED BY <2>1 DEF CacheShape, Ca, Walk
<1>5. ASSUME NEW j \in CacheSlots, j # i, ~tcall'[j].raced PROVE CallTrue(tcall[j])'
  <2>1. PICK r : r = tcall[j]
    OBVIOUS
  <2>2. /\ tcall'[j] = r /\ ~r.raced /\ CallShape(r) /\ CallTrue(r)
        /\ r.pc \in InCache => r.pl \cap ps = {}
    BY <1>1, <1>2, <1>5, <2>1 DEF Overlaps
  <2>3. /\ \A p \in Places \ ps : store'[p[1]][p[2]] = store[p[1]][p[2]]
        /\ \A o \in there : <<o, Inode>> \notin ps => o \in there'
        /\ cache' = cache /\ \A p \in suspect : Ca(p).in => p \in suspect'
    BY DEF ChildStep
  <2>4. CASE r.pc = "put"
    <3>1. /\ r.o \in Objs /\ r.k \in AllKeys /\ r.pl = {<<r.o, r.k>>, IF IsLink(r.v) THEN r.v ELSE <<r.o, r.k>>}
          /\ r.v = store[r.o][r.k] /\ r.got = Value(r.o, r.k) /\ r.pl \cap ps = {}
      BY <2>2, <2>4 DEF CallShape, CallTrue, InCache
    <3>2. <<r.o, r.k>> \in Places \ ps /\ store'[r.o][r.k] = store[r.o][r.k]
      BY <2>3, <3>1, PlaceParts
    <3>3. Value(r.o, r.k)' = Value(r.o, r.k)
      <4>1. CASE IsLink(r.v)
        <5>1. r.v \in Places \ ps
          BY <3>1, <4>1 DEF IsLink
        <5> QED BY <2>3, <3>1, <3>2, <4>1, <5>1, Zenon DEF Value, Place, IsLink
      <4>2. CASE ~IsLink(r.v)
        BY <3>1, <3>2, <4>2 DEF Value, Place, IsLink
      <4> QED BY <4>1, <4>2
    <3>4. r.v = store'[r.o][r.k] /\ r.got = Value(r.o, r.k)'
      BY <3>1, <3>2, <3>3
    <3> QED BY <2>2, <2>4, <3>4 DEF CallTrue
  <2>5. CASE r.pc = "prefix_put"
    <3>1. r.pl = {<<r.o2, Inode>>} /\ r.o2 \in Objs /\ r.got = store[r.o2][Inode] /\ r.o2 \in there /\ r.pl \cap ps = {}
      BY <2>2, <2>5 DEF CallShape, CallTrue, InCache
    <3>2. <<r.o2, Inode>> \in Places \ ps
      BY <3>1, PlaceParts DEF AllKeys
    <3>3. r.got = store'[r.o2][Inode] /\ r.o2 \in there'
      BY <2>3, <3>1, <3>2, PlaceParts
    <3> QED BY <2>2, <2>5, <3>3 DEF CallTrue
  <2>6. CASE r.pc = "update"
    <3>1. /\ \A p \in Changed(r) : St(p) = r.v /\ p \in r.pl
          /\ \E p \in Objs \X Keys : r.pl = {p, <<r.o, r.k>>}
          /\ r.o \in Objs /\ r.k \in AllKeys /\ r.pl \cap ps = {}
      BY <2>2, <2>6, OnItsWay DEF CallShape, CallTrue, InCache
    <3>2. \A p \in Changed(r) : p \in Places \ ps
      BY <3>1, PlaceParts
    <3>3. \A p \in Changed(r) : store'[p[1]][p[2]] = r.v
      BY <2>3, <3>1, <3>2 DEF St
    <3> QED BY <2>2, <2>6, <3>3 DEF CallTrue, St
  <2>7. CASE r.pc = "move_attr"
    <3>1. r.pl = {<<r.o, r.k>>, <<r.o, r.k2>>} /\ r.o \in Objs /\ r.k2 \in AllKeys /\ r.pl \cap ps = {}
      BY <2>2, <2>7 DEF CallShape, InCache
    <3>2. store'[r.o][r.k2] = store[r.o][r.k2]
      <4>1. <<r.o, r.k2>> \in Places /\ <<r.o, r.k2>> \notin ps
        BY <3>1, PlaceParts
      <4> QED BY <2>3, <3>1, <4>1, PlaceParts
    <3>3. cache'[r.o][r.k].in /\ <<r.o, r.k>> \notin suspect' => <<r.o, r.k>> \notin suspect
      BY <2>3 DEF Ca
    <3> QED BY <2>2, <2>3, <2>7, <3>2, <3>3 DEF CallTrue
  <2> QED BY <2>2, <2>4, <2>5, <2>6, <2>7 DEF CallTrue
<1>6. \A j \in CacheSlots : CallTrue(tcall[j])'
  <2>1. ASSUME NEW j \in CacheSlots, j # i, tcall'[j].raced PROVE CallTrue(tcall[j])'
    BY <2>1 DEF CallTrue
  <2> QED BY <1>5, <2>1 DEF ChildStep
<1>7. MovesAlone'
  <2> SUFFICES ASSUME NEW a \in CacheSlots, NEW b \in CacheSlots, a # b, tcall'[b].pc = "move_attr", ~tcall'[b].raced
               PROVE  Fills(tcall'[a]) \cap tcall'[b].pl = {}
    BY DEF MovesAlone
  <2>1. CASE b = i
    BY <2>1, <1>2 DEF ChildStep
  <2>2. CASE b # i /\ a = i
    <3>1. tcall'[b] = tcall[b] /\ tcall[b].pc = "move_attr" /\ CallShape(tcall[b])
      BY <1>1, <1>2, <2>2
    <3>2. Marked(tcall[b]).raced
      BY <3>1, MarkedShape DEF Marked
    <3> QED BY <2>2, <3>1, <3>2 DEF ChildStep
  <2>3. CASE b # i /\ a # i
    BY <1>2, <2>3 DEF TcInv, MovesAlone
  <2> QED BY <2>1, <2>2, <2>3
<1>8. CacheRight'
  <2> SUFFICES ASSUME NEW p \in Places, p \notin suspect', \A j \in CacheSlots : p \notin Changed(tcall'[j])
               PROVE  Right(p)'
    BY DEF CacheRight
  <2> SUFFICES ASSUME Ca(p).in PROVE Right(p)'
    BY DEF Right, ChildStep, Ca
  <2>1. \A j \in CacheSlots : p \notin Changed(tcall[j])
    <3>1. i \in CacheSlots => Changed(tcall[i]) = {}
      BY NothingOnItsWay DEF ChildStep
    <3> QED BY <1>2, <3>1
  <2>2. Right(p)
    BY <2>1 DEF TcInv, CacheRight, ChildStep
  <2>3. CASE p \in ps
    BY <2>2, <2>3 DEF ChildStep
  <2>4. CASE p \notin ps
    <3>1. store'[p[1]][p[2]] = store[p[1]][p[2]] /\ cache' = cache /\ p = <<p[1], p[2]>>
      BY <2>4, PlaceParts DEF ChildStep
    <3>2. p[2] = Inode /\ p[1] \in there => p[1] \in there'
      BY <2>4, <3>1 DEF ChildStep
    <3> QED BY <2>2, <3>1, <3>2 DEF Right, Ca, St
  <2> QED BY <2>3, <2>4
<1> QED BY <1>3, <1>4, <1>6, <1>7, <1>8 DEF TcInv, ChildStep

(* No call but i moves on, and i opens no descriptor.                      *)
NoOpens(i) == \A j \in CacheSlots : IF j = i THEN tcall'[j].pc # "install" ELSE tcall'[j].pc = tcall[j].pc

\* Being overtaken does not move a call on.
LEMMA ChildStepOpens ==
  ASSUME NEW i, NEW ps, TcInv, ChildStep(i, ps), i \in CacheSlots => tcall'[i].pc # "install"
  PROVE  NoOpens(i)
<1>1. \A j \in CacheSlots : Marked(tcall[j]).pc = tcall[j].pc
  BY MarkedShape DEF TcInv, Marked
<1>2. \A j \in CacheSlots \ {i} : tcall'[j] = tcall[j] \/ tcall'[j] = Marked(tcall[j])
  BY DEF ChildStep
<1> QED BY <1>1, <1>2 DEF NoOpens

(* What every step does that leaves the child alone: call i, or the        *)
(* compaction thread, writes in the cache at w, and is done with what it   *)
(* had on its way.                                                         *)
CacheStep(i, w) ==
  /\ w \subseteq Places /\ store' = store /\ there' = there /\ CacheShape'
  /\ DOMAIN tcall' = CacheSlots /\ \A j \in CacheSlots \ {i} : tcall'[j] = tcall[j]
  /\ i \in CacheSlots => tcall'[i].pc \notin InCache /\ CallShape(tcall'[i])
  /\ \A p \in Places \ w : Ca(p)'.in => /\ Ca(p).in /\ Ca(p)'.v = Ca(p).v
                                        /\ p \notin suspect' => p \notin suspect
  /\ \A p \in w : Ca(p)'.in /\ p \notin suspect' => Right(p)' /\ i \in CacheSlots /\ p \in Fills(tcall[i])
  /\ i \in CacheSlots => \A p \in Places : p \in Changed(tcall[i]) /\ Ca(p)'.in /\ p \notin suspect' => Right(p)'

\* Such a step keeps the invariant.
LEMMA CacheKeeps ==
  ASSUME NEW i, NEW w, TcInv, CacheStep(i, w)
  PROVE  TcInv'
<1>1. \A j \in CacheSlots : CallShape(tcall[j]) /\ CallTrue(tcall[j])
  BY DEF TcInv
<1>2. \A j \in CacheSlots : CallShape(tcall'[j])
  BY <1>1 DEF CacheStep
<1>3. StoreShape'
  <2>1. StoreShape /\ store' = store /\ there' = there
    BY DEF TcInv, CacheStep
  <2> QED BY <2>1 DEF StoreShape, St
<1>4. ASSUME NEW j \in CacheSlots, j # i PROVE CallTrue(tcall[j])'
  <2>1. PICK r : r = tcall[j]
    OBVIOUS
  <2>2. tcall'[j] = r /\ CallShape(r) /\ CallTrue(r) /\ store' = store /\ there' = there
    BY <1>1, <1>4, <2>1 DEF CacheStep
  <2>3. CASE r.pc = "move_attr" /\ ~r.raced
    <3>1. ASSUME cache'[r.o][r.k].in, <<r.o, r.k>> \notin suspect'
          PROVE  cache'[r.o][r.k].v = store[r.o][r.k2]
      <4>1. PICK p : p = <<r.o, r.k>>
        OBVIOUS
      <4>2. p \in Places /\ p[1] = r.o /\ p[2] = r.k /\ p \in r.pl
        BY <2>2, <2>3, <4>1, PlaceParts DEF CallShape
      <4>3. i \in CacheSlots => p \notin Fills(tcall[i])
        BY <1>4, <2>1, <2>3, <4>2 DEF TcInv, MovesAlone
      <4>4. Ca(p)'.in /\ p \notin suspect'
        BY <3>1, <4>1, <4>2 DEF Ca
      <4>5. Ca(p).in /\ Ca(p)'.v = Ca(p).v /\ p \notin suspect
        BY <4>2, <4>3, <4>4 DEF CacheStep
      <4> QED BY <2>2, <2>3, <4>1, <4>2, <4>5 DEF CallTrue, Ca
    <3> QED BY <2>2, <2>3, <3>1 DEF CallTrue
  <2>4. CASE ~(r.pc = "move_attr" /\ ~r.raced)
    BY <2>2, <2>4, Zenon DEF CallTrue, Value, Place, St
  <2> QED BY <2>3, <2>4
<1>5. i \in CacheSlots => CallTrue(tcall[i])'
  BY DEF CacheStep, CallTrue, InCache
<1>6. MovesAlone'
  <2> SUFFICES ASSUME NEW a \in CacheSlots, NEW b \in CacheSlots, a # b, tcall'[b].pc = "move_attr", ~tcall'[b].raced
               PROVE  Fills(tcall'[a]) \cap tcall'[b].pl = {}
    BY DEF MovesAlone
  <2>1. b # i /\ tcall'[b] = tcall[b]
    BY DEF CacheStep, InCache
  <2>2. CASE a = i
    <3>1. Fills(tcall'[a]) = {}
      BY <2>2, NothingOnItsWay DEF CacheStep
    <3> QED BY <3>1
  <2>3. CASE a # i
    BY <2>1, <2>3 DEF TcInv, MovesAlone, CacheStep
  <2> QED BY <2>2, <2>3
<1>7. CacheRight'
  <2> SUFFICES ASSUME NEW p \in Places, p \notin suspect', \A j \in CacheSlots : p \notin Changed(tcall'[j]), Ca(p)'.in
               PROVE  Right(p)'
    BY DEF CacheRight, Right
  <2>1. CASE p \in w \/ (i \in CacheSlots /\ p \in Changed(tcall[i]))
    BY <2>1 DEF CacheStep
  <2>2. CASE p \notin w /\ ~(i \in CacheSlots /\ p \in Changed(tcall[i]))
    <3>1. Ca(p).in /\ Ca(p)'.v = Ca(p).v /\ p \notin suspect
      BY <2>2 DEF CacheStep
    <3>2. \A j \in CacheSlots : p \notin Changed(tcall[j])
      BY <2>2 DEF CacheStep
    <3>3. Right(p)
      BY <3>1, <3>2 DEF TcInv, CacheRight
    <3> QED BY <3>1, <3>3 DEF Right, CacheStep, St
  <2> QED BY <2>1, <2>2
<1> QED BY <1>2, <1>3, <1>4, <1>5, <1>6, <1>7 DEF TcInv, CacheStep

\* What is marked is cached; what was marked and is cached stays marked.
LEMMA BehindIs ==
  ASSUME NEW ps, Behind(ps)
  PROVE  \A p : p \in suspect' <=> p \in ps /\ Ca(p)'.in
BY DEF Behind, StillCached, Ca

\* A call that ends.
LEMMA EndKeeps ==
  ASSUME NEW i \in CacheSlots, TcInv, End(i)
  PROVE  /\ DOMAIN tcall' = CacheSlots /\ \A j \in CacheSlots \ {i} : tcall'[j] = tcall[j]
         /\ tcall'[i] = TcIdle /\ tcall'[i].pc \notin InCache /\ CallShape(tcall'[i])
<1>1. DOMAIN tcall = CacheSlots /\ tcall' = [tcall EXCEPT ![i] = TcIdle]
  BY DEF TcInv, End
<1>2. DOMAIN tcall' = CacheSlots /\ tcall'[i] = TcIdle /\ \A j \in CacheSlots \ {i} : tcall'[j] = tcall[j]
  BY <1>1
<1> QED BY <1>2, TcIdleShape DEF InCache

\* What is cached of an object is found there.
LEMMA CachedParts ==
  ASSUME TcInv, NEW o \in Objs, NEW k \in AllKeys
  PROVE  /\ DOMAIN cache = Objs /\ DOMAIN cache[o] = AllKeys
         /\ {"v", "old", "in"} \subseteq DOMAIN cache[o][k] /\ cache[o][k].v \in StoreVals
         /\ cache[o][k].in => Walk(o)
<1>1. <<o, k>> \in Places /\ <<o, k>>[1] = o /\ <<o, k>>[2] = k
  BY PlaceParts
<1> QED BY <1>1 DEF TcInv, CacheShape, Ca

\* The cache as a table of entries, before and after.
LEMMA CacheShapeBy ==
  ASSUME DOMAIN cache' = Objs, \A o \in Objs : DOMAIN cache'[o] = AllKeys,
         \A o \in Objs, k \in AllKeys :
            /\ {"v", "old", "in"} \subseteq DOMAIN cache'[o][k] /\ cache'[o][k].v \in StoreVals
            /\ cache'[o][k].in => Path(o) \subseteq tree'
  PROVE  CacheShape'
BY PlaceParts DEF CacheShape, Ca, Walk

\* No entry is left.
LEMMA EmptiedKeeps ==
  ASSUME NEW i, TcInv, cache' = Drop(cache, Objs), Behind({}), store' = store, there' = there,
         DOMAIN tcall' = CacheSlots, \A j \in CacheSlots \ {i} : tcall'[j] = tcall[j],
         i \in CacheSlots => tcall'[i].pc \notin InCache /\ CallShape(tcall'[i])
  PROVE  TcInv'
<1>1. cache' = [o \in Objs |-> [k \in AllKeys |-> NoEntry]]
  BY DEF Drop, Uncached
<1>2. None \in StoreVals /\ ~NoEntry.in /\ {"v", "old", "in"} \subseteq DOMAIN NoEntry /\ NoEntry.v = None
  BY NoLinks DEF NoEntry
<1>3. CacheShape'
  BY <1>1, <1>2, CacheShapeBy
<1>4. \A p \in Places : ~Ca(p)'.in
  BY <1>1, <1>2, PlaceParts DEF Ca
<1> QED BY <1>3, <1>4, CacheKeeps DEF CacheStep

\* ostc_cache_remove_attrs.
LEMMA DropAttrKeeps ==
  ASSUME NEW i \in CacheSlots, TcInv, DropAttr(i)
  PROVE  TcInv'
<1>1. PICK r : r = tcall[i]
  OBVIOUS
<1>2. PICK d : d = IF r.op = "copy" THEN <<r.o2, r.k2>> ELSE <<r.o, r.k>>
  OBVIOUS
<1>3. /\ r.pc = "drop_attr" /\ End(i) /\ store' = store /\ there' = there /\ tree' = tree
      /\ cache' = IF Walk(d[1]) THEN [cache EXCEPT ![d[1]][d[2]] = NoEntry] ELSE cache
      /\ Behind(suspect \cup (r.pl \ {<<r.o, r.k>>}))
  BY <1>1, <1>2 DEF DropAttr, At, Cached
<1>4. CallShape(r) /\ r.op \in {"copy", "symlink"} /\ r.o \in Objs /\ r.k \in AllKeys /\ r.o2 \in Objs /\ r.k2 \in AllKeys
  BY <1>1, <1>3 DEF TcInv, CallShape
<1>5. d[1] \in Objs /\ d[2] \in AllKeys /\ (r.op = "symlink" => d = <<r.o, r.k>>)
  BY <1>2, <1>4
<1>6. \A o \in Objs, k \in AllKeys :
        /\ cache'[o][k] = IF <<o, k>> = d /\ Walk(o) THEN NoEntry ELSE cache[o][k]
        /\ DOMAIN cache' = Objs /\ DOMAIN cache'[o] = AllKeys
  <2>1. DOMAIN cache = Objs /\ \A o \in Objs : DOMAIN cache[o] = AllKeys
    BY DEF TcInv, CacheShape
  <2>2. d = <<d[1], d[2]>>
    BY <1>2
  <2> QED BY <1>3, <1>5, <2>1, <2>2
<1>7. {"v", "old", "in"} \subseteq DOMAIN NoEntry /\ NoEntry.v \in StoreVals /\ ~NoEntry.in
  BY NoLinks DEF NoEntry
<1>8. CacheShape'
  <2>1. Inode \in AllKeys
    BY DEF AllKeys
  <2> QED BY <1>3, <1>6, <1>7, <2>1, CachedParts, CacheShapeBy DEF Walk, Objs
<1>9. \A p \in Places : Ca(p)'.in => Ca(p)' = Ca(p) /\ p # d
  <2> SUFFICES ASSUME NEW p \in Places, Ca(p)'.in PROVE Ca(p)' = Ca(p) /\ p # d
    OBVIOUS
  <2>1. p = <<p[1], p[2]>> /\ p[1] \in Objs /\ p[2] \in AllKeys
    BY PlaceParts
  <2>2. Ca(p).in => Walk(p[1])
    BY <2>1, CachedParts DEF Ca
  <2> QED BY <1>6, <1>7, <2>1, <2>2 DEF Ca
<1>10. \A p : p \in suspect' <=> p \in suspect \cup (r.pl \ {<<r.o, r.k>>}) /\ Ca(p)'.in
  BY <1>3, BehindIs
<1>11. ASSUME NEW p \in Places, p \in Changed(r), Ca(p)'.in PROVE p \in suspect'
  BY <1>3, <1>4, <1>5, <1>9, <1>10, <1>11 DEF Changed
<1>12. CacheStep(i, {})
  BY <1>1, <1>3, <1>8, <1>9, <1>10, <1>11, EndKeeps DEF CacheStep
<1> QED BY <1>12, CacheKeeps

\* ostc_cache_move_attrs.
LEMMA RenameMoveKeeps ==
  ASSUME NEW i \in CacheSlots, TcInv, RenameMove(i)
  PROVE  TcInv'
<1>1. PICK r : r = tcall[i]
  OBVIOUS
<1>2. PICK moves \in BOOLEAN : moves = (Walk(r.o) /\ cache[r.o][r.k].in)
  OBVIOUS
<1>3. /\ r.pc = "move_attr" /\ End(i) /\ store' = store /\ there' = there /\ tree' = tree
      /\ cache' = IF moves THEN [cache EXCEPT ![r.o][r.k2] = cache[r.o][r.k], ![r.o][r.k] = NoEntry] ELSE cache
      /\ Behind(suspect \cup IF r.raced \/ ~moves \/ <<r.o, r.k>> \in suspect THEN r.pl ELSE {})
  BY <1>1, <1>2, Zenon DEF RenameMove, At, Cached
<1>4. /\ CallShape(r) /\ CallTrue(r) /\ r.pl = {<<r.o, r.k>>, <<r.o, r.k2>>}
      /\ r.o \in Objs /\ r.k \in Keys /\ r.k2 \in Keys /\ r.k \in AllKeys /\ r.k2 \in AllKeys /\ r.k # r.k2
  BY <1>1, <1>3 DEF TcInv, CallShape, AttrOps
<1>5. \A o \in Objs, k \in AllKeys :
        /\ cache'[o][k] = IF ~moves THEN cache[o][k]
                          ELSE IF <<o, k>> = <<r.o, r.k>> THEN NoEntry
                          ELSE IF <<o, k>> = <<r.o, r.k2>> THEN cache[r.o][r.k]
                          ELSE cache[o][k]
        /\ DOMAIN cache' = Objs /\ DOMAIN cache'[o] = AllKeys
  <2>1. DOMAIN cache = Objs /\ \A o \in Objs : DOMAIN cache[o] = AllKeys
    BY DEF TcInv, CacheShape
  <2> QED BY <1>3, <1>4, <2>1
<1>6. {"v", "old", "in"} \subseteq DOMAIN NoEntry /\ NoEntry.v \in StoreVals /\ ~NoEntry.in
  BY NoLinks DEF NoEntry
<1>7. CacheShape'
  <2>1. Inode \in AllKeys
    BY DEF AllKeys
  <2>2. moves => Walk(r.o)
    BY <1>2
  <2>3. DOMAIN cache' = Objs /\ \A o \in Objs : DOMAIN cache'[o] = AllKeys
    BY <1>4, <1>5, <2>1
  <2>4. ASSUME NEW o \in Objs, NEW k \in AllKeys
        PROVE  /\ {"v", "old", "in"} \subseteq DOMAIN cache'[o][k] /\ cache'[o][k].v \in StoreVals
               /\ cache'[o][k].in => Path(o) \subseteq tree'
    <3>1. /\ {"v", "old", "in"} \subseteq DOMAIN cache[o][k] /\ cache[o][k].v \in StoreVals
          /\ cache[o][k].in => Walk(o)
      BY CachedParts
    <3>2. {"v", "old", "in"} \subseteq DOMAIN cache[r.o][r.k] /\ cache[r.o][r.k].v \in StoreVals
      BY <1>4, CachedParts
    <3>3. tree' = tree /\ cache'[o][k] \in {cache[o][k], NoEntry, cache[r.o][r.k]}
          /\ (cache'[o][k] = cache[o][k] \/ cache'[o][k] = NoEntry \/ (o = r.o /\ moves))
      BY <1>3, <1>5
    <3> QED BY <1>6, <2>2, <3>1, <3>2, <3>3 DEF Walk
  <2> QED BY <2>3, <2>4, CacheShapeBy
<1>8. \A p : p \in suspect' <=>
        p \in suspect \cup (IF r.raced \/ ~moves \/ <<r.o, r.k>> \in suspect THEN r.pl ELSE {}) /\ Ca(p)'.in
  BY <1>3, BehindIs
<1>9. \A p \in Places \ {<<r.o, r.k2>>} : Ca(p)'.in => Ca(p)' = Ca(p) /\ (moves => p # <<r.o, r.k>>)
  BY <1>5, <1>6, PlaceParts DEF Ca
<1>10. <<r.o, r.k2>> \in Places /\ <<r.o, r.k2>>[1] = r.o /\ <<r.o, r.k2>>[2] = r.k2 /\ r.k2 # Inode
  BY <1>4, PlaceParts, TimecacheAssumption
<1>11. <<r.o, r.k2>> \notin suspect' /\ Ca(<<r.o, r.k2>>)'.in => Right(<<r.o, r.k2>>)'
  <2> SUFFICES ASSUME <<r.o, r.k2>> \notin suspect', Ca(<<r.o, r.k2>>)'.in
               PROVE  store[r.o][r.k2] = cache'[r.o][r.k2].v
    BY <1>3, <1>10 DEF Right, Ca, St
  <2>1. ~r.raced /\ moves /\ <<r.o, r.k>> \notin suspect
    BY <1>4, <1>8
  <2>2. cache'[r.o][r.k2] = cache[r.o][r.k]
    BY <1>4, <1>5, <2>1
  <2> QED BY <1>2, <1>3, <1>4, <2>1, <2>2, Zenon DEF CallTrue
<1>12. Fills(r) = r.pl /\ Changed(r) = r.pl
  BY <1>3 DEF Fills, Changed
<1>13. ASSUME NEW p \in Places, p \in Changed(r), Ca(p)'.in, p \notin suspect' PROVE Right(p)'
  <2>1. CASE p = <<r.o, r.k2>>
    BY <1>11, <1>13, <2>1
  <2>2. CASE p = <<r.o, r.k>> /\ p # <<r.o, r.k2>>
    BY <1>8, <1>9, <1>12, <1>13, <2>2
  <2> QED BY <1>4, <1>12, <1>13, <2>1, <2>2
<1>14. CacheStep(i, {<<r.o, r.k2>>})
  BY <1>1, <1>3, <1>4, <1>7, <1>8, <1>9, <1>10, <1>11, <1>12, <1>13, EndKeeps DEF CacheStep
<1> QED BY <1>14, CacheKeeps

\* ostc_cache_remove_object.
LEMMA DropObjectKeeps ==
  ASSUME NEW i \in CacheSlots, TcInv, DropObject(i)
  PROVE  TcInv'
<1>1. PICK r : r = tcall[i]
  OBVIOUS
<1>2. /\ r.pc = "drop_object" /\ End(i) /\ store' = store /\ there' = there
      /\ IF Walk(r.o) THEN cache' = Drop(cache, Below(r.o)) /\ tree' = tree \ Below(r.o) ELSE cache' = cache /\ tree' = tree
      /\ Behind(suspect)
  BY <1>1 DEF DropObject, At, Cached
<1>3. CallShape(r) /\ r.pl = {r.o} \X AllKeys /\ r.o \in Objs
  BY <1>1, <1>2 DEF TcInv, CallShape
<1>4. \A o \in Objs, k \in AllKeys :
        /\ cache'[o][k] = IF Walk(r.o) /\ o \in Below(r.o) THEN NoEntry ELSE cache[o][k]
        /\ DOMAIN cache' = Objs /\ DOMAIN cache'[o] = AllKeys
  <2>1. DOMAIN cache = Objs /\ \A o \in Objs : DOMAIN cache[o] = AllKeys
    BY DEF TcInv, CacheShape
  <2> QED BY <1>2, <2>1 DEF Drop, Uncached
<1>5. {"v", "old", "in"} \subseteq DOMAIN NoEntry /\ NoEntry.v \in StoreVals /\ ~NoEntry.in
  BY NoLinks DEF NoEntry
<1>6. ASSUME NEW o \in Objs, Walk(o), ~(Walk(r.o) /\ o \in Below(r.o)) PROVE Path(o) \subseteq tree'
  BY <1>2, <1>3, <1>6, TimecacheAssumption DEF Walk, Path, Below, Objs
<1>7. CacheShape'
  <2>1. Inode \in AllKeys
    BY DEF AllKeys
  <2> QED BY <1>4, <1>5, <1>6, <2>1, CachedParts, CacheShapeBy DEF Objs
<1>8. ASSUME NEW p \in Places, Ca(p)'.in PROVE Ca(p)' = Ca(p) /\ p[1] # r.o
  <2>1. p[1] \in Objs /\ p[2] \in AllKeys
    BY PlaceParts
  <2>2. Ca(p).in => Walk(p[1])
    BY <2>1, CachedParts DEF Ca
  <2>3. r.o \in Below(r.o)
    BY <1>3 DEF Below, Objs
  <2> QED BY <1>4, <1>5, <1>8, <2>1, <2>2, <2>3 DEF Ca
<1>9. \A p : p \in suspect' <=> p \in suspect /\ Ca(p)'.in
  BY <1>2, BehindIs
<1>10. \A p \in Changed(r) : p[1] = r.o
  BY <1>2, <1>3 DEF Changed
<1>11. CacheStep(i, {})
  BY <1>1, <1>2, <1>7, <1>8, <1>9, <1>10, EndKeeps DEF CacheStep
<1> QED BY <1>11, CacheKeeps

\* ostc_cache_move_object, where it finds nothing to move.
LEMMA MoveCachedKeeps ==
  ASSUME NEW i \in CacheSlots, TcInv, MoveCached(i), ~undef'
  PROVE  TcInv'
<1>1. PICK r : r = tcall[i]
  OBVIOUS
<1>2. /\ r.pc = "move_object" /\ End(i) /\ ~Walk(r.o) /\ store' = store /\ there' = there
      /\ cache' = cache /\ tree' = tree /\ suspect' = suspect
  BY <1>1 DEF MoveCached, At
<1>3. CallShape(r) /\ r.pl = {r.o} \X AllKeys /\ r.o \in Objs /\ Changed(r) = r.pl
  BY <1>1, <1>2 DEF TcInv, CallShape, Changed
<1>4. CacheShape'
  <2>1. CacheShape
    BY DEF TcInv
  <2> QED BY <1>2, <2>1 DEF CacheShape, Ca, Walk
<1>5. ASSUME NEW p \in Places, p \in Changed(r), Ca(p)'.in PROVE FALSE
  <2>1. p[1] = r.o /\ Ca(p).in /\ p[1] \in Objs /\ p[2] \in AllKeys
    BY <1>2, <1>3, <1>5, PlaceParts DEF Ca
  <2> QED BY <1>2, <2>1, CachedParts DEF Ca
<1>6. \A p : Ca(p)' = Ca(p)
  BY <1>2 DEF Ca
<1>7. CacheStep(i, {})
  BY <1>1, <1>2, <1>4, <1>5, <1>6, EndKeeps DEF CacheStep
<1> QED BY <1>7, CacheKeeps

\* ostc_cache_update_attrs.
LEMMA SetUpdateKeeps ==
  ASSUME NEW i \in CacheSlots, TcInv, SetUpdate(i)
  PROVE  TcInv'
<1>1. PICK r : r = tcall[i]
  OBVIOUS
<1>2. PICK q : q = Target(r.o, r.k)
  OBVIOUS
<1>3. PICK told \in BOOLEAN :
        told = (~r.raced /\ Resolved(r.o, r.k) /\ q \in r.pl /\ r.pl \subseteq {<<r.o, r.k>>, q})
  OBVIOUS
<1>4. /\ r.pc = "update" /\ End(i) /\ store' = store /\ there' = there /\ tree' = tree
      /\ cache' = IF Resolved(r.o, r.k) THEN [cache EXCEPT ![q[1]][q[2]].v = r.v] ELSE cache
      /\ Behind(IF told THEN suspect ELSE suspect \cup r.pl \cup {q})
  BY <1>1, <1>2, <1>3, Zenon DEF SetUpdate, At, Cached
<1>5. /\ CallShape(r) /\ CallTrue(r) /\ r.o \in Objs /\ r.k \in Keys /\ r.k \in AllKeys /\ r.v \in StoreVals
      /\ \E p \in Objs \X Keys : r.pl = {p, <<r.o, r.k>>}
  BY <1>1, <1>4, NoLinks DEF TcInv, CallShape, AttrOps
<1>6. q \in Places /\ q[1] \in Objs /\ q[2] \in AllKeys /\ q = <<q[1], q[2]>>
  BY <1>2, <1>5, PlaceParts DEF Target, IsLink
<1>7. \A o \in Objs, k \in AllKeys :
        /\ cache'[o][k] = IF Resolved(r.o, r.k) /\ <<o, k>> = q THEN [cache[o][k] EXCEPT !.v = r.v] ELSE cache[o][k]
        /\ DOMAIN cache' = Objs /\ DOMAIN cache'[o] = AllKeys
  <2>1. DOMAIN cache = Objs /\ \A o \in Objs : DOMAIN cache[o] = AllKeys
    BY DEF TcInv, CacheShape
  <2> QED BY <1>4, <1>6, <2>1
<1>8. ASSUME NEW o \in Objs, NEW k \in AllKeys
      PROVE  /\ {"v", "old", "in"} \subseteq DOMAIN cache'[o][k] /\ cache'[o][k].in = cache[o][k].in
             /\ cache'[o][k].v = IF Resolved(r.o, r.k) /\ <<o, k>> = q THEN r.v ELSE cache[o][k].v
  <2>1. {"v", "old", "in"} \subseteq DOMAIN cache[o][k]
    BY CachedParts
  <2>2. PICK e : e = cache[o][k]
    OBVIOUS
  <2>3. cache'[o][k] = e \/ cache'[o][k] = [e EXCEPT !.v = r.v]
    BY <1>7, <2>2
  <2> QED BY <1>7, <2>1, <2>2, <2>3
<1>9. CacheShape'
  <2>1. DOMAIN cache' = Objs /\ \A o \in Objs : DOMAIN cache'[o] = AllKeys
    BY <1>4, <1>6, CachedParts
  <2>2. ASSUME NEW o \in Objs, NEW k \in AllKeys
        PROVE  /\ {"v", "old", "in"} \subseteq DOMAIN cache'[o][k] /\ cache'[o][k].v \in StoreVals
               /\ cache'[o][k].in => Path(o) \subseteq tree'
    <3>1. cache[o][k].v \in StoreVals /\ (cache[o][k].in => Walk(o))
      BY CachedParts
    <3>2. r.v \in StoreVals /\ tree' = tree
      BY <1>4, <1>5
    <3> QED BY <1>8, <3>1, <3>2 DEF Walk
  <2> QED BY <2>1, <2>2, CacheShapeBy
<1>10. \A p : p \in suspect' <=> p \in (IF told THEN suspect ELSE suspect \cup r.pl \cup {q}) /\ Ca(p)'.in
  BY <1>4, BehindIs
<1>11. \A p \in Places : /\ Ca(p)'.in = Ca(p).in
                         /\ Ca(p)'.v = IF Resolved(r.o, r.k) /\ p = q THEN r.v ELSE Ca(p).v
  BY <1>8, PlaceParts DEF Ca
<1>12. ASSUME told PROVE Changed(r) = {q} /\ St(q) = r.v /\ q[2] # Inode /\ Resolved(r.o, r.k)
  <2>1. ~r.raced /\ q \in r.pl /\ r.pl \subseteq {<<r.o, r.k>>, q} /\ <<r.o, r.k>> \in r.pl /\ Resolved(r.o, r.k)
    BY <1>3, <1>5, <1>12
  <2>2. Changed(r) = {p \in r.pl : p = <<r.o, r.k>> => r.pl = {<<r.o, r.k>>}}
    BY <1>4 DEF Changed
  <2>3. Changed(r) = {q}
    BY <2>1, <2>2
  <2>4. q \in Objs \X Keys
    BY <1>5, <2>1
  <2> QED BY <1>4, <1>5, <2>1, <2>3, <2>4, PlaceParts DEF CallTrue
<1>13. Fills(r) = Changed(r) /\ Changed(r) \subseteq r.pl
  BY <1>4 DEF Fills, Changed
<1>14. ASSUME NEW p \in Places, p \in Changed(r) \/ p = q, Ca(p)'.in, p \notin suspect'
       PROVE  Right(p)' /\ p \in Fills(r)
  <2>1. told /\ p = q
    BY <1>10, <1>12, <1>13, <1>14
  <2>2. Ca(p)'.v = r.v /\ St(p)' = r.v /\ p[2] # Inode /\ p \in Fills(r)
    BY <1>4, <1>11, <1>12, <1>13, <2>1 DEF St
  <2> QED BY <2>2 DEF Right
<1>15. \A p \in Places \ {q} : Ca(p)'.in => Ca(p).in /\ Ca(p)'.v = Ca(p).v /\ (p \notin suspect' => p \notin suspect)
  BY <1>10, <1>11
<1>16. CacheStep(i, {q})
  BY <1>1, <1>4, <1>6, <1>9, <1>14, <1>15, EndKeeps DEF CacheStep
<1> QED BY <1>16, CacheKeeps

\* Time passes.
LEMMA ExpireKeeps ==
  ASSUME TcInv, Expire
  PROVE  TcInv'
<1>1. /\ cache' = [o \in Objs |-> [k \in AllKeys |-> [cache[o][k] EXCEPT !.old = cache[o][k].in]]]
      /\ store' = store /\ there' = there /\ tree' = tree /\ tcall' = tcall /\ suspect' = suspect
  BY DEF Expire
<1>2. ASSUME NEW o \in Objs, NEW k \in AllKeys
      PROVE  /\ {"v", "old", "in"} \subseteq DOMAIN cache'[o][k]
             /\ cache'[o][k].in = cache[o][k].in /\ cache'[o][k].v = cache[o][k].v
  <2>1. PICK e : e = cache[o][k]
    OBVIOUS
  <2>2. {"v", "old", "in"} \subseteq DOMAIN e /\ cache'[o][k] = [e EXCEPT !.old = e.in]
    BY <1>1, <2>1, CachedParts
  <2> QED BY <2>1, <2>2
<1>3. CacheShape'
  <2>1. Inode \in AllKeys
    BY DEF AllKeys
  <2>2. DOMAIN cache' = Objs /\ \A o \in Objs : DOMAIN cache'[o] = AllKeys
    BY <1>1
  <2> QED BY <1>1, <1>2, <2>1, <2>2, CachedParts, CacheShapeBy DEF Walk, Objs
<1>4. \A p \in Places : Ca(p)'.in = Ca(p).in /\ Ca(p)'.v = Ca(p).v
  BY <1>2, PlaceParts DEF Ca
<1>5. DOMAIN tcall = CacheSlots /\ 0 \notin CacheSlots
  BY TimecacheAssumption DEF TcInv
<1>6. CacheStep(0, {})
  BY <1>1, <1>3, <1>4, <1>5 DEF CacheStep
<1> QED BY <1>6, CacheKeeps

\* _ostc_cleanup by the compaction thread.
LEMMA CleanupKeeps ==
  ASSUME TcInv, Cleanup
  PROVE  TcInv'
<1>1. PICK c : c = [o \in Objs |-> [k \in AllKeys |-> Kept(cache[o][k])]]
  OBVIOUS
<1>2. /\ cache' = c /\ store' = store /\ there' = there /\ tcall' = tcall /\ Behind(suspect)
      /\ tree' = {o \in tree : \E q \in Below(o) \cap tree : \E k \in AllKeys : c[q][k].in}
  BY <1>1 DEF Cleanup, Cached
<1>3. \A o \in Objs, k \in AllKeys : cache'[o][k] = Kept(cache[o][k])
  BY <1>1, <1>2
<1>4. {"v", "old", "in"} \subseteq DOMAIN NoEntry /\ NoEntry.v \in StoreVals /\ ~NoEntry.in
  BY NoLinks DEF NoEntry
<1>5. ASSUME NEW o \in Objs, NEW k \in AllKeys
      PROVE  /\ {"v", "old", "in"} \subseteq DOMAIN cache'[o][k] /\ cache'[o][k].v \in StoreVals
             /\ cache'[o][k].in => cache[o][k].in /\ cache'[o][k] = cache[o][k]
  BY <1>3, <1>4, CachedParts DEF Kept
<1>6. ASSUME NEW o \in Objs, NEW k \in AllKeys, cache'[o][k].in PROVE Path(o) \subseteq tree'
  <2>1. Walk(o) /\ c[o][k].in
    BY <1>2, <1>5, <1>6, CachedParts
  <2>2. Path(o) \subseteq tree /\ o \in tree
    BY <2>1 DEF Walk, Path, Objs
  <2>3. \A q \in Path(o) : o \in Below(q)
    BY DEF Path, Below, Objs
  <2> QED BY <1>2, <2>1, <2>2, <2>3
<1>7. CacheShape'
  <2>1. DOMAIN cache' = Objs /\ \A o \in Objs : DOMAIN cache'[o] = AllKeys
    BY <1>1, <1>2
  <2> QED BY <1>5, <1>6, <2>1, CacheShapeBy
<1>8. \A p \in Places : Ca(p)'.in => Ca(p).in /\ Ca(p)' = Ca(p)
  BY <1>5, PlaceParts DEF Ca
<1>9. \A p : p \in suspect' <=> p \in suspect /\ Ca(p)'.in
  BY <1>2, BehindIs
<1>10. DOMAIN tcall = CacheSlots /\ 0 \notin CacheSlots
  BY TimecacheAssumption DEF TcInv
<1>11. CacheStep(0, {})
  BY <1>2, <1>7, <1>8, <1>9, <1>10 DEF CacheStep
<1> QED BY <1>11, CacheKeeps

\* A value put in an entry.
LEMMA NewEntryIs ==
  ASSUME TcInv, NEW o \in Objs, NEW k \in AllKeys, NEW v
  PROVE  {"v", "old", "in"} \subseteq DOMAIN NewEntry(o, k, v) /\ NewEntry(o, k, v).v = v /\ NewEntry(o, k, v).in
<1>1. {"v", "old", "in"} \subseteq DOMAIN Entry(v) /\ Entry(v).v = v /\ Entry(v).in
  BY DEF Entry
<1>2. ASSUME cache[o][k].in
      PROVE  LET e == [cache[o][k] EXCEPT !.v = v] IN {"v", "old", "in"} \subseteq DOMAIN e /\ e.v = v /\ e.in
  <2>1. PICK c : c = cache[o][k]
    OBVIOUS
  <2>2. {"v", "old", "in"} \subseteq DOMAIN c /\ c.in
    BY <1>2, <2>1, CachedParts
  <2>3. LET e == [c EXCEPT !.v = v] IN {"v", "old", "in"} \subseteq DOMAIN e /\ e.v = v /\ e.in
    BY <2>2
  <2> QED BY <2>1, <2>3
<1> QED BY <1>1, <1>2 DEF NewEntry

(* The cache c after values were written at w.                             *)
Wrote(c, w, o, k, v, link) ==
  /\ DOMAIN c = Objs /\ \A q \in Objs : DOMAIN c[q] = AllKeys
  /\ \A q \in Objs, m \in AllKeys : <<q, m>> \notin w => c[q][m] = cache[q][m]
  /\ \A p \in w : /\ {"v", "old", "in"} \subseteq DOMAIN c[p[1]][p[2]] /\ c[p[1]][p[2]].in
                  /\ c[p[1]][p[2]].v = IF IsLink(link) /\ p = <<o, k>> THEN link ELSE v

\* ostc_cache_process_attrs writes the attribute and what it links to.
LEMMA ProcessedIs ==
  ASSUME TcInv, NEW o \in Objs, NEW k \in AllKeys, NEW v \in StoreVals, NEW link, NEW w,
         w = {<<o, k>>} \cup (IF IsLink(link) THEN {link} ELSE {}),
         IsLink(link) => link \in StoreVals /\ Walk(link[1]) /\ cache[link[1]][link[2]].in
  PROVE  Wrote(Processed(o, k, v, link), w, o, k, v, link)
<1> USE DEF Wrote
<1>1. DOMAIN cache = Objs /\ \A q \in Objs : DOMAIN cache[q] = AllKeys
  BY DEF TcInv, CacheShape
<1>2. CASE ~IsLink(link)
  <2>1. Processed(o, k, v, link) = [cache EXCEPT ![o][k] = NewEntry(o, k, v)]
    BY <1>2 DEF Processed
  <2>2. PICK e : e = NewEntry(o, k, v)
    OBVIOUS
  <2>3. {"v", "old", "in"} \subseteq DOMAIN e /\ e.v = v /\ e.in
    BY <2>2, NewEntryIs
  <2>4. PICK c : c = [cache EXCEPT ![o][k] = e]
    OBVIOUS
  <2>5. /\ DOMAIN c = Objs /\ \A q \in Objs : DOMAIN c[q] = AllKeys
        /\ \A q \in Objs, m \in AllKeys : <<q, m>> # <<o, k>> => c[q][m] = cache[q][m]
        /\ c[o][k] = e
    BY <1>1, <2>4
  <2>6. Processed(o, k, v, link) = c
    BY <2>1, <2>2, <2>4
  <2> QED BY <1>2, <2>3, <2>5, <2>6
<1>3. CASE IsLink(link)
  <2>1. link \in Places /\ link[1] \in Objs /\ link[2] \in AllKeys /\ link = <<link[1], link[2]>>
    BY <1>3, PlaceParts DEF IsLink
  <2>2. PICK a, b : a = link[1] /\ b = link[2]
    OBVIOUS
  <2>3. PICK e : e = NewEntry(o, k, link)
    OBVIOUS
  <2>4. {"v", "old", "in"} \subseteq DOMAIN e /\ e.v = link /\ e.in
    BY <2>3, NewEntryIs
  <2>5. PICK t : t = [cache[a][b] EXCEPT !.v = v]
    OBVIOUS
  <2>6. {"v", "old", "in"} \subseteq DOMAIN t /\ t.v = v /\ t.in
    <3>1. PICK u : u = cache[a][b]
      OBVIOUS
    <3>2. {"v", "old", "in"} \subseteq DOMAIN u /\ u.in /\ t = [u EXCEPT !.v = v]
      BY <1>3, <2>1, <2>2, <2>5, <3>1, CachedParts
    <3> QED BY <3>2
  <2>7. PICK c : c = [[cache EXCEPT ![a][b] = t] EXCEPT ![o][k] = e]
    OBVIOUS
  <2>8. Processed(o, k, v, link) = c
    <3>1. Walk(link[1]) /\ cache[link[1]][link[2]].in
      BY <1>3
    <3>2. Processed(o, k, v, link) = [cache EXCEPT ![link[1]][link[2]].v = v, ![o][k] = NewEntry(o, k, link)]
      BY <1>3, <3>1 DEF Processed
    <3> QED BY <2>2, <2>3, <2>5, <2>7, <3>2
  <2>9. PICK d : d = [cache EXCEPT ![a][b] = t]
    OBVIOUS
  <2>10. /\ DOMAIN d = Objs /\ \A q \in Objs : DOMAIN d[q] = AllKeys
         /\ \A q \in Objs, m \in AllKeys : <<q, m>> # <<a, b>> => d[q][m] = cache[q][m]
         /\ d[a][b] = t
    BY <1>1, <2>1, <2>2, <2>9
  <2>11. /\ DOMAIN c = Objs /\ \A q \in Objs : DOMAIN c[q] = AllKeys
         /\ \A q \in Objs, m \in AllKeys : <<q, m>> # <<o, k>> => c[q][m] = d[q][m]
         /\ c[o][k] = e
    BY <2>7, <2>9, <2>10
  <2>12. /\ \A q \in Objs, m \in AllKeys : <<q, m>> # <<o, k>> /\ <<q, m>> # link => c[q][m] = cache[q][m]
         /\ link # <<o, k>> => c[a][b] = t
    BY <2>1, <2>2, <2>10, <2>11
  <2>13. ASSUME NEW p \in {<<o, k>>, link}
         PROVE  /\ {"v", "old", "in"} \subseteq DOMAIN c[p[1]][p[2]] /\ c[p[1]][p[2]].in
                /\ c[p[1]][p[2]].v = IF IsLink(link) /\ p = <<o, k>> THEN link ELSE v
    <3>1. CASE p = <<o, k>>
      BY <1>3, <2>4, <2>11, <3>1
    <3>2. CASE p # <<o, k>>
      BY <2>2, <2>6, <2>12, <2>13, <3>2
    <3> QED BY <3>1, <3>2
  <2> QED BY <1>3, <2>8, <2>11, <2>12, <2>13
<1> QED BY <1>2, <1>3

\* What a call brings from the child is right unless it was overtaken.
LEMMA ProcessKeeps ==
  ASSUME TcInv, NEW i \in CacheSlots, NEW o \in Objs, NEW k \in AllKeys, NEW v \in StoreVals, NEW link, NEW ftype,
         Process(i, o, k, v, link, ftype), store' = store, there' = there,
         DOMAIN tcall' = CacheSlots, \A j \in CacheSlots \ {i} : tcall'[j] = tcall[j],
         tcall'[i].pc \notin InCache, CallShape(tcall'[i]),
         IsLink(link) => link \in StoreVals,
         tcall[i].pl = {<<o, k>>} \cup (IF IsLink(link) THEN {link} ELSE {}),
         Fills(tcall[i]) = tcall[i].pl, Changed(tcall[i]) = {},
         ~tcall[i].raced =>
           IF IsLink(link) THEN store[o][k] = link /\ St(link) = v /\ k # Inode /\ link # <<o, k>>
           ELSE store[o][k] = v /\ (k = Inode => o \in there)
  PROVE  TcInv'
<1>1. PICK skipped \in BOOLEAN : skipped = (IsLink(link) /\ ~(Walk(link[1]) /\ cache[link[1]][link[2]].in))
  OBVIOUS
<1>2. PICK r : r = tcall[i]
  OBVIOUS
<1>3. ASSUME NEW p \in Places, UNCHANGED <<cache>> PROVE Ca(p)' = Ca(p)
  BY <1>3 DEF Ca
<1>4. CASE ~CanPut(o, ftype)
  <2>1. cache' = cache /\ tree' = tree /\ suspect' = suspect
    BY <1>4 DEF Process
  <2>2. CacheShape'
    <3>1. CacheShape
      BY DEF TcInv
    <3> QED BY <2>1, <3>1 DEF CacheShape, Ca, Walk
  <2>3. CacheStep(i, {})
    BY <1>3, <2>1, <2>2 DEF CacheStep
  <2> QED BY <2>3, CacheKeeps
<1>5. CASE CanPut(o, ftype)
  <2>1. /\ cache' = Processed(o, k, v, link) /\ tree' = tree \cup {o}
        /\ Behind(IF r.raced THEN suspect \cup r.pl ELSE IF skipped THEN suspect ELSE suspect \ r.pl)
    BY <1>1, <1>2, <1>5 DEF Process, Cached
  <2>2. \A p : p \in suspect' <=>
          p \in (IF r.raced THEN suspect \cup r.pl ELSE IF skipped THEN suspect ELSE suspect \ r.pl) /\ Ca(p)'.in
    BY <2>1, BehindIs
  <2>3. \A q \in Objs : Walk(q) => Path(q) \subseteq tree'
    BY <2>1 DEF Walk
  <2>4. Path(o) \subseteq tree'
    BY <1>5, <2>1 DEF CanPut, Walk
  <2>5. CASE skipped
    <3>1. cache' = cache
      BY <1>1, <2>1, <2>5 DEF Processed
    <3>2. CacheShape'
      <4>1. CacheShape
        BY DEF TcInv
      <4> QED BY <2>3, <3>1, <4>1, PlaceParts DEF CacheShape, Ca, Walk
    <3>3. CacheStep(i, {})
      BY <1>3, <2>2, <2>5, <3>1, <3>2 DEF CacheStep
    <3> QED BY <3>3, CacheKeeps
  <2>6. CASE ~skipped
    <3>1. PICK w : w = {<<o, k>>} \cup (IF IsLink(link) THEN {link} ELSE {})
      OBVIOUS
    <3>2. /\ DOMAIN cache' = Objs /\ \A q \in Objs : DOMAIN cache'[q] = AllKeys
          /\ \A q \in Objs, m \in AllKeys : <<q, m>> \notin w => cache'[q][m] = cache[q][m]
          /\ \A p \in w : /\ {"v", "old", "in"} \subseteq DOMAIN Ca(p)' /\ Ca(p)'.in
                          /\ Ca(p)'.v = IF IsLink(link) /\ p = <<o, k>> THEN link ELSE v
      <4>1. IsLink(link) => link \in StoreVals /\ Walk(link[1]) /\ cache[link[1]][link[2]].in
        BY <1>1, <2>6
      <4>2. PICK c : c = Processed(o, k, v, link)
        OBVIOUS
      <4>3. Wrote(c, w, o, k, v, link)
        BY <3>1, <4>1, <4>2, ProcessedIs
      <4>4. cache' = c
        BY <2>1, <4>2
      <4> QED BY <4>3, <4>4 DEF Ca, Wrote
    <3>3. w \subseteq Places /\ w = r.pl
      BY <1>2, <3>1, PlaceParts DEF IsLink
    <3>4. \A p \in w : Path(p[1]) \subseteq tree'
      <4>1. Path(<<o, k>>[1]) \subseteq tree'
        BY <2>4
      <4>2. IsLink(link) => Walk(link[1]) /\ link[1] \in Objs
        BY <1>1, <2>6, PlaceParts DEF IsLink
      <4> QED BY <2>3, <3>1, <4>1, <4>2
    <3>5. CacheShape'
      <4> SUFFICES ASSUME NEW q \in Objs, NEW m \in AllKeys
                   PROVE  /\ {"v", "old", "in"} \subseteq DOMAIN cache'[q][m] /\ cache'[q][m].v \in StoreVals
                          /\ cache'[q][m].in => Path(q) \subseteq tree'
        BY <3>2, CacheShapeBy
      <4>1. CASE <<q, m>> \in w
        <5>1. Ca(<<q, m>>)' = cache'[q][m] /\ <<q, m>>[1] = q
          BY DEF Ca
        <5> QED BY <3>2, <3>4, <4>1, <5>1
      <4>2. CASE <<q, m>> \notin w
        BY <2>3, <3>2, <4>2, CachedParts
      <4> QED BY <4>1, <4>2
    <3>6. \A p \in Places \ w : Ca(p)' = Ca(p) /\ (Ca(p)'.in /\ p \notin suspect' => p \notin suspect)
      BY <2>2, <3>2, <3>3, PlaceParts DEF Ca
    <3>7. ASSUME NEW p \in w, p \notin suspect' PROVE Right(p)'
      <4>1. ~r.raced
        BY <2>2, <3>2, <3>3, <3>7
      <4>2. CASE ~IsLink(link)
        <5>1. p = <<o, k>> /\ Ca(p)'.v = v
          BY <3>1, <3>2, <3>7, <4>2
        <5> QED BY <1>2, <4>1, <4>2, <5>1 DEF Right, St
      <4>3. CASE IsLink(link)
        <5>1. store[o][k] = link /\ St(link) = v /\ k # Inode /\ link # <<o, k>> /\ link[2] # Inode
          BY <1>2, <4>1, <4>3, LinkParts
        <5>2. CASE p = <<o, k>>
          <6>1. Ca(p)'.v = link /\ St(p)' = link /\ p[2] # Inode
            BY <3>2, <3>7, <4>3, <5>1, <5>2 DEF St
          <6> QED BY <6>1 DEF Right
        <5>3. CASE p # <<o, k>>
          <6>1. p = link /\ Ca(p)'.v = v /\ St(p)' = v /\ p[2] # Inode
            BY <3>1, <3>2, <3>7, <4>3, <5>1, <5>3 DEF St
          <6> QED BY <6>1 DEF Right
        <5> QED BY <5>2, <5>3
      <4> QED BY <4>2, <4>3
    <3>8. CacheStep(i, w)
      BY <1>2, <3>3, <3>5, <3>6, <3>7 DEF CacheStep
    <3> QED BY <3>8, CacheKeeps
  <2> QED BY <2>5, <2>6
<1> QED BY <1>4, <1>5

\* What the child answered is put in the cache.
LEMMA GetPutKeeps ==
  ASSUME NEW i \in CacheSlots, TcInv, GetPut(i)
  PROVE  TcInv'
<1>1. PICK r : r = tcall[i]
  OBVIOUS
<1>2. PICK link : link = IF IsLink(r.v) THEN r.v ELSE None
  OBVIOUS
<1>3. /\ r.pc = "put" /\ End(i) /\ store' = store /\ there' = there
      /\ Process(i, r.o, r.k, r.got, link, r.at = "found")
  BY <1>1, <1>2 DEF GetPut, At
<1>4. /\ CallShape(r) /\ CallTrue(r) /\ r.o \in Objs /\ r.k \in Keys /\ r.k \in AllKeys
      /\ r.v \in StoreVals /\ r.got \in StoreVals
      /\ r.pl = {<<r.o, r.k>>, IF IsLink(r.v) THEN r.v ELSE <<r.o, r.k>>}
  BY <1>1, <1>3 DEF TcInv, CallShape, AttrOps
<1>5. (IsLink(link) <=> IsLink(r.v)) /\ (IsLink(link) => link = r.v /\ link \in StoreVals)
  BY <1>2, <1>4, NoLinks
<1>6. r.pl = {<<r.o, r.k>>} \cup (IF IsLink(link) THEN {link} ELSE {})
  BY <1>4, <1>5
<1>7. Fills(r) = r.pl /\ Changed(r) = {}
  BY <1>3 DEF Fills, Changed
<1>8. r.k # Inode
  BY <1>4, TimecacheAssumption
<1>9. ASSUME ~r.raced
      PROVE  IF IsLink(link) THEN store[r.o][r.k] = link /\ St(link) = r.got /\ r.k # Inode /\ link # <<r.o, r.k>>
             ELSE store[r.o][r.k] = r.got /\ (r.k = Inode => r.o \in there)
  <2>1. r.v = store[r.o][r.k] /\ r.got = Value(r.o, r.k)
    BY <1>3, <1>4, <1>9 DEF CallTrue
  <2>2. CASE ~IsLink(r.v)
    BY <1>5, <1>8, <2>1, <2>2 DEF Value, Place
  <2>3. CASE IsLink(r.v)
    <3>1. r.got = St(r.v)
      BY <2>1, <2>3 DEF Value, Place, St
    <3>2. <<r.o, r.k>> \in Places /\ St(<<r.o, r.k>>) = r.v
      BY <1>4, <2>1, PlaceParts DEF St
    <3>3. ~IsLink(St(r.v))
      BY <2>3, <3>2 DEF TcInv, StoreShape
    <3>4. r.v # <<r.o, r.k>>
      BY <2>3, <3>2, <3>3
    <3> QED BY <1>5, <1>8, <2>1, <2>3, <3>1, <3>4
  <2> QED BY <2>2, <2>3
<1> QED BY <1>1, <1>3, <1>4, <1>5, <1>6, <1>7, <1>9, EndKeeps, ProcessKeeps

\* A call that goes on, with nothing else of it changed.
LEMMA GoesKeeps ==
  ASSUME NEW i \in CacheSlots, TcInv, NEW pc, Goes(i, pc), pc \notin InCache, pc \in {"child", "prefix"},
         pc = "prefix" => tcall[i].op = "get"
  PROVE  /\ DOMAIN tcall' = CacheSlots /\ \A j \in CacheSlots \ {i} : tcall'[j] = tcall[j]
         /\ tcall'[i].pc = pc /\ CallShape(tcall'[i])
<1>1. PICK r : r = tcall[i]
  OBVIOUS
<1>2. DOMAIN tcall = CacheSlots /\ CallShape(r) /\ tcall' = [tcall EXCEPT ![i].pc = pc]
  BY <1>1 DEF TcInv, Goes
<1>3. PICK m : m = [r EXCEPT !.pc = pc]
  OBVIOUS
<1>4. DOMAIN tcall' = CacheSlots /\ tcall'[i] = m /\ \A j \in CacheSlots \ {i} : tcall'[j] = tcall[j]
  BY <1>1, <1>2, <1>3
<1>5. /\ TcFields \subseteq DOMAIN m /\ m.pc = pc /\ m.op = r.op /\ m.o = r.o /\ m.k = r.k /\ m.o2 = r.o2 /\ m.k2 = r.k2
      /\ m.v = r.v
  BY <1>2, <1>3 DEF CallShape, TcFields
<1>6. CallShape(m)
  BY <1>1, <1>2, <1>5 DEF CallShape, InCache
<1> QED BY <1>4, <1>5, <1>6

\* A name of the path is put in the cache.
LEMMA PrefixPutKeeps ==
  ASSUME NEW i \in CacheSlots, TcInv, PrefixPut(i)
  PROVE  TcInv'
<1>1. PICK r : r = tcall[i]
  OBVIOUS
<1>2. /\ r.pc = "prefix_put" /\ Goes(i, "prefix") /\ store' = store /\ there' = there
      /\ Process(i, r.o2, Inode, r.got, None, TRUE)
  BY <1>1 DEF PrefixPut, At
<1>3. /\ CallShape(r) /\ CallTrue(r) /\ r.op = "get" /\ r.o2 \in Objs /\ Inode \in AllKeys
      /\ r.got \in StoreVals /\ r.pl = {<<r.o2, Inode>>}
  BY <1>1, <1>2 DEF TcInv, CallShape, AllKeys
<1>4. ~IsLink(None)
  BY NoLinks
<1>5. Fills(r) = r.pl /\ Changed(r) = {}
  BY <1>2 DEF Fills, Changed
<1>6. ~r.raced => store[r.o2][Inode] = r.got /\ r.o2 \in there
  BY <1>2, <1>3 DEF CallTrue
<1>7. /\ DOMAIN tcall' = CacheSlots /\ \A j \in CacheSlots \ {i} : tcall'[j] = tcall[j]
      /\ tcall'[i].pc \notin InCache /\ CallShape(tcall'[i])
  BY <1>1, <1>2, <1>3, GoesKeeps DEF InCache
<1> QED BY <1>1, <1>2, <1>3, <1>4, <1>5, <1>6, <1>7, ProcessKeeps

\* A step of call i with which nothing changes but the call.
LEMMA QuietKeeps ==
  ASSUME NEW i \in CacheSlots, TcInv, NEW r, tcall' = [tcall EXCEPT ![i] = r], tcall[i].pc \notin InCache,
         CallShape(r), CallTrue(r), r.pc \in InCache => r.pc = "prefix_put",
         store' = store, there' = there, cache' = cache, tree' = tree, suspect' = suspect
  PROVE  TcInv' /\ (r.pc # "install" => NoOpens(i))
<1>1. DOMAIN tcall' = CacheSlots /\ tcall'[i] = r /\ \A j \in CacheSlots \ {i} : tcall'[j] = tcall[j]
  BY DEF TcInv
<1>2. StoreShape'
  <2>1. StoreShape
    BY DEF TcInv
  <2> QED BY <2>1 DEF StoreShape, St
<1>3. CallTrue(tcall[i])'
  BY <1>1, Zenon DEF CallTrue, Value, Place, St
<1>4. ASSUME NEW j \in CacheSlots, tcall[j].pc = "move_attr" PROVE tcall[j].pl \cap Fills(r) = {}
  <2>1. CASE r.pc \notin InCache
    BY <2>1, NothingOnItsWay
  <2>2. CASE r.pc \in InCache
    <3>1. Fills(r) = {<<r.o2, Inode>>}
      BY <2>2 DEF Fills, CallShape
    <3>2. /\ CallShape(tcall[j]) /\ tcall[j].k \in Keys /\ tcall[j].k2 \in Keys
          /\ tcall[j].pl = {<<tcall[j].o, tcall[j].k>>, <<tcall[j].o, tcall[j].k2>>}
      BY <1>4 DEF TcInv, CallShape, AttrOps
    <3> QED BY <3>1, <3>2, TimecacheAssumption
  <2> QED BY <2>1, <2>2
<1>5. \A j : ~Overlaps(i, j, {})
  BY DEF Overlaps
<1>6. r.pc # "move_attr"
  BY DEF InCache
<1>7. ChildStep(i, {})
  BY <1>1, <1>2, <1>3, <1>4, <1>5, <1>6 DEF ChildStep
<1> QED BY <1>1, <1>7, ChildKeeps, ChildStepOpens

\* A call that ends without having been to the cache.
LEMMA EndsKeep ==
  ASSUME NEW i \in CacheSlots, TcInv, End(i), tcall[i].pc \notin InCache,
         store' = store, there' = there, cache' = cache, tree' = tree, suspect' = suspect
  PROVE  TcInv' /\ NoOpens(i)
<1>1. CallTrue(TcIdle)
  BY TcIdleShape DEF CallTrue
<1> QED BY <1>1, TcIdleShape, QuietKeeps DEF End, InCache

\* No step of a call.
LEMMA OthersKeep ==
  ASSUME TcInv, store' = store, there' = there, cache' = cache, tree' = tree, suspect' = suspect, tcall' = tcall
  PROVE  TcInv'
<1>1. StoreShape'
  <2>1. StoreShape
    BY DEF TcInv
  <2> QED BY <2>1 DEF StoreShape, St
<1>2. DOMAIN tcall = CacheSlots /\ 0 \notin CacheSlots /\ \A j : ~Overlaps(0, j, {})
  BY TimecacheAssumption DEF TcInv, Overlaps
<1>3. ChildStep(0, {})
  BY <1>1, <1>2 DEF ChildStep
<1> QED BY <1>3, ChildKeeps

\* One attribute of the child changes.
LEMMA WithShape ==
  ASSUME StoreShape, NEW p \in Places, p[1] \in there, NEW v \in StoreVals, store' = With(store, p, v), there' = there,
         IsLink(v) => v # p /\ ~IsLink(St(v)) /\ \A q \in Places : St(q) # p
  PROVE  /\ StoreShape' /\ store'[p[1]][p[2]] = v
         /\ \A q \in Places \ {p} : store'[q[1]][q[2]] = store[q[1]][q[2]]
<1>1. DOMAIN store = Objs /\ \A o \in Objs : DOMAIN store[o] = AllKeys
  BY DEF StoreShape
<1>2. /\ DOMAIN store' = Objs /\ \A o \in Objs : DOMAIN store'[o] = AllKeys
      /\ store'[p[1]][p[2]] = v
      /\ \A q \in Places : q # p => store'[q[1]][q[2]] = store[q[1]][q[2]]
  BY <1>1, WithAt
<1>3. \A q \in Places : St(q)' = IF q = p THEN v ELSE St(q)
  BY <1>2 DEF St
<1>4. \A q \in Places : /\ St(q) \in StoreVals
                        /\ IsLink(St(q)) => ~IsLink(St(St(q)))
                        /\ q[1] \notin there => St(q) = None
  BY DEF StoreShape
<1>5. ASSUME NEW q \in Places, IsLink(St(q)') PROVE ~IsLink(St(St(q))')
  <2>1. PICK x : x = St(q)'
    OBVIOUS
  <2>2. x \in Places
    BY <1>5, <2>1 DEF IsLink
  <2>3. St(St(q))' = St(x)'
    BY <2>1 DEF St
  <2>4. CASE q = p
    <3>1. x = v /\ x # p /\ ~IsLink(St(x))
      BY <1>3, <1>5, <2>1, <2>4
    <3> QED BY <1>3, <2>2, <2>3, <3>1
  <2>5. CASE q # p
    <3>1. x = St(q) /\ ~IsLink(St(x))
      BY <1>3, <1>4, <1>5, <2>1, <2>5
    <3> QED BY <1>3, <2>2, <2>3, <3>1
  <2> QED BY <2>4, <2>5
<1>6. \A q \in Places : St(q)' \in StoreVals /\ (q[1] \notin there => St(q)' = None)
  BY <1>3, <1>4
<1> QED BY <1>2, <1>5, <1>6 DEF StoreShape

\* The calls after one has been to the child for ps.
LEMMA ChildCalls ==
  ASSUME NEW i \in CacheSlots, TcInv, NEW s, NEW ps, NEW pc, Child(i, s, ps, pc)
  PROVE  /\ store' = s /\ DOMAIN tcall' = CacheSlots
         /\ \A j \in CacheSlots \ {i} : tcall'[j] = IF Overlaps(i, j, ps) THEN Marked(tcall[j]) ELSE tcall[j]
         /\ TcFields \subseteq DOMAIN tcall'[i] /\ tcall'[i].pc = pc /\ ~tcall'[i].raced
         /\ tcall'[i].pl = ps \cup {<<tcall[i].o, tcall[i].k>>}
         /\ tcall'[i].op = tcall[i].op /\ tcall'[i].o = tcall[i].o /\ tcall'[i].k = tcall[i].k
         /\ tcall'[i].o2 = tcall[i].o2 /\ tcall'[i].k2 = tcall[i].k2 /\ tcall'[i].v = tcall[i].v
<1>1. PICK r : r = tcall[i]
  OBVIOUS
<1>2. PICK t : t = Overtake(i, ps)
  OBVIOUS
<1>3. DOMAIN t = CacheSlots /\ t[i] = r
      /\ \A j \in CacheSlots \ {i} : t[j] = IF Overlaps(i, j, ps) THEN Marked(tcall[j]) ELSE tcall[j]
  BY <1>1, <1>2 DEF Overtake, Overlaps, Marked
<1>4. PICK m : m = [r EXCEPT !.pc = pc, !.pl = ps \cup {<<r.o, r.k>>}, !.raced = FALSE]
  OBVIOUS
<1>5. store' = s /\ tcall' = [t EXCEPT ![i].pc = pc, ![i].pl = ps \cup {<<r.o, r.k>>}, ![i].raced = FALSE]
  BY <1>1, <1>2 DEF Child
<1>6. DOMAIN tcall' = CacheSlots /\ tcall'[i] = m /\ \A j \in CacheSlots \ {i} : tcall'[j] = t[j]
  BY <1>3, <1>4, <1>5
<1>7. CallShape(r)
  BY <1>1 DEF TcInv
<1>8. /\ TcFields \subseteq DOMAIN m /\ m.pc = pc /\ ~m.raced /\ m.pl = ps \cup {<<r.o, r.k>>}
      /\ m.op = r.op /\ m.o = r.o /\ m.k = r.k /\ m.o2 = r.o2 /\ m.k2 = r.k2 /\ m.v = r.v
  BY <1>4, <1>7 DEF CallShape, TcFields
<1> QED BY <1>1, <1>3, <1>5, <1>6, <1>8

\* What such a step needs to keep the invariant.
LEMMA ChildCallKeeps ==
  ASSUME NEW i \in CacheSlots, TcInv, NEW s, NEW ps, ps \subseteq Places, NEW pc, Child(i, s, ps, pc),
         tcall[i].pc = "child", cache' = cache, tree' = tree, suspect' = suspect, StoreShape',
         \A p \in Places \ ps : store'[p[1]][p[2]] = store[p[1]][p[2]],
         \A o \in there : <<o, Inode>> \notin ps => o \in there',
         pc \in {"update", "drop_attr", "drop_object", "move_object", "purge"}, CallShape(tcall'[i]),
         pc = "update" => Changed(tcall'[i]) \subseteq ps /\ \A p \in ps : St(p)' = tcall[i].v,
         \A p \in ps : p \in Changed(tcall'[i]) \/ (Right(p) => Right(p)')
  PROVE  TcInv' /\ NoOpens(i)
<1>1. /\ DOMAIN tcall' = CacheSlots /\ tcall'[i].pc = pc /\ tcall'[i].v = tcall[i].v
      /\ \A j \in CacheSlots \ {i} : tcall'[j] = IF Overlaps(i, j, ps) THEN Marked(tcall[j]) ELSE tcall[j]
  BY ChildCalls
<1>2. CallTrue(tcall[i])'
  BY <1>1 DEF CallTrue
<1>3. Fills(tcall'[i]) \subseteq ps
  BY <1>1 DEF Fills
<1>4. \A j \in CacheSlots \ {i} : tcall[j].pc = "move_attr" /\ tcall[j].pl \cap ps # {} => Overlaps(i, j, ps)
  BY DEF Overlaps, InCache
<1>5. tcall[i].pc \notin InCache
  BY DEF InCache
<1>6. \A j \in CacheSlots \ {i} : tcall[j].pc = "move_attr" /\ tcall[j].pl \cap Fills(tcall'[i]) # {} => tcall'[j] = Marked(tcall[j])
  BY <1>1, <1>3, <1>4
<1>7. ChildStep(i, ps)
  BY <1>1, <1>2, <1>5, <1>6 DEF ChildStep
<1> QED BY <1>1, <1>7, ChildKeeps, ChildStepOpens

\* ostc_set_attrs_fn in the child.
LEMMA SetChildKeeps ==
  ASSUME NEW i \in CacheSlots, TcInv, SetChild(i)
  PROVE  TcInv' /\ NoOpens(i)
<1>1. PICK r : r = tcall[i]
  OBVIOUS
<1>2. PICK p : p = IF r.v = None THEN <<r.o, r.k>> ELSE Place(r.o, r.k)
  OBVIOUS
<1>3. /\ r.pc = "child" /\ r.op = "set" /\ there' = there /\ cache' = cache /\ tree' = tree /\ suspect' = suspect
      /\ IF {r.o, p[1]} \subseteq there THEN Child(i, With(store, p, r.v), {p}, "update") ELSE End(i) /\ store' = store
  BY <1>1, <1>2 DEF SetChild, At
<1>4. CallShape(r) /\ r.o \in Objs /\ r.k \in Keys /\ r.k \in AllKeys /\ r.v \in Vals \cup {None} /\ r.v \in StoreVals
  BY <1>1, <1>3, NoLinks DEF TcInv, CallShape, AttrOps
<1>5. p \in Objs \X Keys /\ p \in Places
  <2>1. <<r.o, r.k>> \in Places /\ store[r.o][r.k] \in StoreVals
    BY <1>4, PlaceParts DEF TcInv, StoreShape, St
  <2> QED BY <1>2, <1>4, <2>1, LinkParts DEF Place
<1>6. CASE ~({r.o, p[1]} \subseteq there)
  BY <1>1, <1>3, <1>6, EndsKeep DEF InCache
<1>7. CASE {r.o, p[1]} \subseteq there
  <2>1. Child(i, With(store, p, r.v), {p}, "update")
    BY <1>3, <1>7
  <2>2. PICK m : m = tcall'[i]
    OBVIOUS
  <2>3. /\ store' = With(store, p, r.v) /\ TcFields \subseteq DOMAIN m /\ m.pc = "update" /\ m.op = "set"
        /\ m.pl = {p} \cup {<<r.o, r.k>>} /\ m.o = r.o /\ m.k = r.k /\ m.o2 = r.o2 /\ m.k2 = r.k2 /\ m.v = r.v
    BY <1>1, <1>3, <2>1, <2>2, ChildCalls
  <2>4. /\ StoreShape' /\ store'[p[1]][p[2]] = r.v
        /\ \A q \in Places \ {p} : store'[q[1]][q[2]] = store[q[1]][q[2]]
    BY <1>3, <1>4, <1>5, <1>7, <2>3, NoLinks, WithShape DEF TcInv
  <2>5. CallShape(m)
    <3>1. \E q \in Objs \X Keys : m.pl = {q, <<m.o, m.k>>}
      BY <1>5, <2>3
    <3>2. /\ m.o \in Objs /\ m.k \in Keys /\ m.k \in AllKeys /\ m.v \in Vals \cup {None}
          /\ m.o2 \in Objs /\ m.k2 \in Keys /\ m.k2 \in AllKeys
      BY <1>3, <1>4, <2>3 DEF CallShape, AttrOps
    <3> QED BY <2>3, <3>1, <3>2 DEF CallShape
  <2>6. Changed(m) = {p}
    BY <2>3 DEF Changed
  <2>7. \A q \in {p} : St(q)' = r.v
    BY <2>4 DEF St
  <2> QED BY <1>1, <1>3, <1>5, <2>1, <2>2, <2>4, <2>5, <2>6, <2>7, ChildCallKeeps
<1> QED BY <1>6, <1>7

\* ostc_copy_attrs_fn in the child.
LEMMA CopyChildKeeps ==
  ASSUME NEW i \in CacheSlots, TcInv, CopyChild(i)
  PROVE  TcInv' /\ NoOpens(i)
<1>1. PICK r : r = tcall[i]
  OBVIOUS
<1>2. PICK p : p = Place(r.o2, r.k2)
  OBVIOUS
<1>3. PICK v : v = Value(r.o, r.k)
  OBVIOUS
<1>4. /\ r.pc = "child" /\ r.op = "copy" /\ there' = there /\ cache' = cache /\ tree' = tree /\ suspect' = suspect
      /\ IF {r.o, r.o2, p[1]} \subseteq there THEN Child(i, With(store, p, v), {p}, "drop_attr")
         ELSE End(i) /\ store' = store
  BY <1>1, <1>2, <1>3 DEF CopyChild, At
<1>5. /\ CallShape(r) /\ r.o \in Objs /\ r.k \in Keys /\ r.k \in AllKeys
      /\ r.o2 \in Objs /\ r.k2 \in Keys /\ r.k2 \in AllKeys /\ <<r.o, r.k>> # <<r.o2, r.k2>>
  BY <1>1, <1>4 DEF TcInv, CallShape, AttrOps
<1>6. \A q \in Places : St(q) \in StoreVals /\ (IsLink(St(q)) => ~IsLink(St(St(q))))
  BY DEF TcInv, StoreShape
<1>7. <<r.o, r.k>> \in Places /\ <<r.o2, r.k2>> \in Places /\ St(<<r.o, r.k>>) = store[r.o][r.k] /\ St(<<r.o2, r.k2>>) = store[r.o2][r.k2]
  BY <1>5, PlaceParts DEF St
<1>8. p \in Objs \X Keys /\ p \in Places
  BY <1>2, <1>5, <1>6, <1>7, LinkParts DEF Place
<1>9. v \in StoreVals /\ ~IsLink(v)
  <2>1. v = IF IsLink(St(<<r.o, r.k>>)) THEN St(St(<<r.o, r.k>>)) ELSE St(<<r.o, r.k>>)
    BY <1>3, <1>7 DEF Value, Place, St
  <2>2. IsLink(St(<<r.o, r.k>>)) => St(<<r.o, r.k>>) \in Places
    BY DEF IsLink
  <2> QED BY <1>6, <1>7, <2>1, <2>2
<1>10. CASE ~({r.o, r.o2, p[1]} \subseteq there)
  BY <1>1, <1>4, <1>10, EndsKeep DEF InCache
<1>11. CASE {r.o, r.o2, p[1]} \subseteq there
  <2>1. Child(i, With(store, p, v), {p}, "drop_attr")
    BY <1>4, <1>11
  <2>2. PICK m : m = tcall'[i]
    OBVIOUS
  <2>3. /\ store' = With(store, p, v) /\ TcFields \subseteq DOMAIN m /\ m.pc = "drop_attr" /\ m.op = "copy"
        /\ m.pl = {p} \cup {<<r.o, r.k>>} /\ m.o = r.o /\ m.k = r.k /\ m.o2 = r.o2 /\ m.k2 = r.k2 /\ m.v = r.v
    BY <1>1, <1>4, <2>1, <2>2, ChildCalls
  <2>4. /\ StoreShape' /\ store'[p[1]][p[2]] = v
        /\ \A q \in Places \ {p} : store'[q[1]][q[2]] = store[q[1]][q[2]]
    BY <1>4, <1>8, <1>9, <1>11, <2>3, WithShape DEF TcInv
  <2>5. CallShape(m)
    BY <1>5, <2>3 DEF CallShape
  <2>6. p \in Changed(m) \/ (Right(p) => Right(p)')
    <3>1. CASE p # <<r.o, r.k>>
      BY <2>3, <3>1 DEF Changed
    <3>2. CASE p = <<r.o, r.k>>
      <4>1. IsLink(St(<<r.o2, r.k2>>)) /\ St(<<r.o2, r.k2>>) = p
        BY <1>2, <1>5, <1>7, <3>2 DEF Place
      <4>2. ~IsLink(St(p))
        BY <1>6, <1>7, <4>1
      <4>3. v = St(p)
        BY <1>3, <1>7, <3>2, <4>2 DEF Value, Place, St
      <4>4. St(p)' = St(p) /\ Ca(p)' = Ca(p) /\ there' = there
        BY <1>4, <2>4, <4>3 DEF St, Ca
      <4> QED BY <4>4 DEF Right
    <3> QED BY <3>1, <3>2
  <2>7. \A o \in there : o \in there'
    BY <1>4
  <2> QED BY <1>1, <1>4, <1>8, <2>1, <2>2, <2>4, <2>5, <2>6, <2>7, ChildCallKeeps
<1> QED BY <1>10, <1>11

\* ostc_symlink_attrs_fn in the child.
LEMMA SymlinkChildKeeps ==
  ASSUME NEW i \in CacheSlots, TcInv, SymlinkChild(i)
  PROVE  TcInv' /\ NoOpens(i)
<1>1. PICK r : r = tcall[i]
  OBVIOUS
<1>2. PICK p : p = <<r.o, r.k>>
  OBVIOUS
<1>3. PICK ok \in BOOLEAN :
        ok = ({r.o, r.o2} \subseteq there /\ store[r.o][r.k] = None /\ ~IsLink(store[r.o2][r.k2])
              /\ \A q \in Places : store[q[1]][q[2]] # p)
  OBVIOUS
<1>4. PICK v : v = <<r.o2, r.k2>>
  OBVIOUS
<1>5. /\ r.pc = "child" /\ r.op = "symlink" /\ there' = there /\ cache' = cache /\ tree' = tree /\ suspect' = suspect
      /\ IF ok THEN Child(i, With(store, p, v), {p}, "drop_attr") ELSE End(i) /\ store' = store
  BY <1>1, <1>2, <1>3, <1>4 DEF SymlinkChild, At
<1>6. /\ CallShape(r) /\ r.o \in Objs /\ r.k \in Keys /\ r.k \in AllKeys
      /\ r.o2 \in Objs /\ r.k2 \in Keys /\ r.k2 \in AllKeys /\ <<r.o, r.k>> # <<r.o2, r.k2>>
  BY <1>1, <1>5 DEF TcInv, CallShape, AttrOps
<1>7. CASE ~ok
  BY <1>1, <1>5, <1>7, EndsKeep DEF InCache
<1>8. CASE ok
  <2>1. Child(i, With(store, p, v), {p}, "drop_attr")
    BY <1>5, <1>8
  <2>2. PICK m : m = tcall'[i]
    OBVIOUS
  <2>3. /\ store' = With(store, p, v) /\ TcFields \subseteq DOMAIN m /\ m.pc = "drop_attr" /\ m.op = "symlink"
        /\ m.pl = {p} \cup {<<r.o, r.k>>} /\ m.o = r.o /\ m.k = r.k /\ m.o2 = r.o2 /\ m.k2 = r.k2 /\ m.v = r.v
    BY <1>1, <1>5, <2>1, <2>2, ChildCalls
  <2>4. p \in Places /\ p[1] \in there /\ v \in StoreVals
    BY <1>2, <1>3, <1>4, <1>6, <1>8, PlaceParts DEF StoreVals
  <2>5. v # p /\ ~IsLink(St(v)) /\ \A q \in Places : St(q) # p
    BY <1>2, <1>3, <1>4, <1>6, <1>8 DEF St
  <2>6. /\ StoreShape' /\ store'[p[1]][p[2]] = v
        /\ \A q \in Places \ {p} : store'[q[1]][q[2]] = store[q[1]][q[2]]
    BY <1>5, <2>3, <2>4, <2>5, WithShape DEF TcInv
  <2>7. CallShape(m)
    BY <1>6, <2>3 DEF CallShape
  <2>8. p \in Changed(m)
    BY <1>2, <2>3 DEF Changed
  <2>9. \A o \in there : o \in there'
    BY <1>5
  <2> QED BY <1>1, <1>5, <2>1, <2>2, <2>4, <2>6, <2>7, <2>8, <2>9, ChildCallKeeps
<1> QED BY <1>7, <1>8

\* ostc_move_attrs_fn in the child: no link to a link comes about.
LEMMA RenamedShape ==
  ASSUME StoreShape, NEW o \in Objs, NEW k \in AllKeys, NEW k2 \in AllKeys, k # k2, o \in there, there' = there,
         store' = Renamed(o, k, k2), Unlinked(o, k, k2)
  PROVE  /\ StoreShape' /\ store'[o][k2] = store[o][k]
         /\ \A q \in Places \ {<<o, k>>, <<o, k2>>} : store'[q[1]][q[2]] = store[q[1]][q[2]]
<1>1. DOMAIN store = Objs /\ \A q \in Objs : DOMAIN store[q] = AllKeys
  BY DEF StoreShape
<1>2. /\ DOMAIN store' = Objs /\ \A q \in Objs : DOMAIN store'[q] = AllKeys
      /\ store'[o][k2] = store[o][k] /\ store'[o][k] = None
      /\ \A q \in Objs, m \in AllKeys : <<q, m>> # <<o, k>> /\ <<q, m>> # <<o, k2>> => store'[q][m] = store[q][m]
  BY <1>1 DEF Renamed
<1>3. PICK a, b : a = <<o, k>> /\ b = <<o, k2>>
  OBVIOUS
<1>4. a \in Places /\ b \in Places /\ a # b /\ a[1] = o /\ b[1] = o /\ St(a) = store[o][k]
  BY <1>3, PlaceParts DEF St
<1>5. \A q \in Places : St(q)' = IF q = a THEN None ELSE IF q = b THEN St(a) ELSE St(q)
  BY <1>2, <1>3, <1>4, PlaceParts DEF St
<1>6. \A q \in Places : /\ St(q) \in StoreVals
                        /\ IsLink(St(q)) => ~IsLink(St(St(q)))
                        /\ q[1] \notin there => St(q) = None
  BY DEF StoreShape
<1>7. \A q \in Places : St(q) # a /\ (IsLink(St(a)) => St(q) # b)
  BY <1>3, <1>4 DEF St, Unlinked
<1>8. ASSUME NEW q \in Places, IsLink(St(q)') PROVE ~IsLink(St(St(q))')
  <2>1. PICK x : x = St(q)'
    OBVIOUS
  <2>2. x \in Places /\ St(St(q))' = St(x)'
    BY <1>8, <2>1 DEF IsLink, St
  <2>3. q # a
    BY <1>5, <1>8, NoLinks
  <2>4. PICK y \in {q, a} : y \in Places /\ x = St(y) /\ IsLink(St(y)) /\ (q = b => y = a)
    BY <1>4, <1>5, <1>8, <2>1, <2>3
  <2>5. ~IsLink(St(x)) /\ x # a /\ (IsLink(St(a)) => x # b)
    BY <1>6, <1>7, <2>4
  <2> QED BY <1>5, <2>2, <2>5
<1>9. \A q \in Places : St(q)' \in StoreVals /\ (q[1] \notin there => St(q)' = None)
  BY <1>4, <1>5, <1>6, NoLinks
<1>10. \A q \in Places \ {a, b} : store'[q[1]][q[2]] = store[q[1]][q[2]]
  BY <1>5 DEF St
<1> QED BY <1>2, <1>3, <1>8, <1>9, <1>10 DEF StoreShape

\* ostc_move_attrs_fn.
LEMMA RenameChildKeeps ==
  ASSUME NEW i \in CacheSlots, TcInv, RenameChild(i)
  PROVE  TcInv' /\ NoOpens(i)
<1>1. PICK r : r = tcall[i]
  OBVIOUS
<1>2. PICK ps : ps = {<<r.o, r.k>>, <<r.o, r.k2>>}
  OBVIOUS
<1> DEFINE ok == r.o \in there /\ store[r.o][r.k] # None /\ Unlinked(r.o, r.k, r.k2)
           moved == [Overtake(i, ps) EXCEPT ![i].pc = "move_attr", ![i].pl = ps,
                                            ![i].raced = Overtakes(i, ps)]
<1>3. /\ r.pc = "child" /\ r.op = "rename" /\ there' = there /\ cache' = cache /\ tree' = tree /\ suspect' = suspect
      /\ IF ok THEN store' = Renamed(r.o, r.k, r.k2) /\ tcall' = moved ELSE End(i) /\ store' = store
  BY <1>1, <1>2 DEF RenameChild, At
<1>4. PICK over \in BOOLEAN : over = Overtakes(i, ps)
  BY DEF Overtakes
<1>5. /\ CallShape(r) /\ r.o \in Objs /\ r.k \in Keys /\ r.k \in AllKeys /\ r.o2 \in Objs
      /\ r.k2 \in Keys /\ r.k2 \in AllKeys /\ r.k # r.k2
  BY <1>1, <1>3 DEF TcInv, CallShape, AttrOps
<1>6. CASE ~ok
  BY <1>1, <1>3, <1>6, EndsKeep DEF InCache
<1>7. CASE ok
  <2>1. StoreShape' /\ store'[r.o][r.k2] = store[r.o][r.k]
        /\ \A q \in Places \ ps : store'[q[1]][q[2]] = store[q[1]][q[2]]
    <3>1. r.o \in there /\ store' = Renamed(r.o, r.k, r.k2) /\ Unlinked(r.o, r.k, r.k2)
      BY <1>3, <1>7
    <3>2. StoreShape /\ there' = there
      BY <1>3 DEF TcInv
    <3> QED BY <1>2, <1>5, <3>1, <3>2, RenamedShape
  <2>3. PICK t : t = Overtake(i, ps)
    OBVIOUS
  <2>4. DOMAIN t = CacheSlots /\ t[i] = r
        /\ \A j \in CacheSlots \ {i} : t[j] = IF Overlaps(i, j, ps) THEN Marked(tcall[j]) ELSE tcall[j]
    BY <1>1, <2>3 DEF Overtake, Overlaps, Marked
  <2>5. PICK m : m = [r EXCEPT !.pc = "move_attr", !.pl = ps, !.raced = over]
    OBVIOUS
  <2>6. DOMAIN tcall' = CacheSlots /\ tcall'[i] = m /\ \A j \in CacheSlots \ {i} : tcall'[j] = t[j]
    <3>1. tcall' = [t EXCEPT ![i].pc = "move_attr", ![i].pl = ps, ![i].raced = over]
      BY <1>3, <1>4, <1>7, <2>3
    <3> QED BY <2>4, <2>5, <3>1
  <2>7. /\ TcFields \subseteq DOMAIN m /\ m.pc = "move_attr" /\ m.pl = ps /\ m.raced = over
        /\ m.op = "rename" /\ m.o = r.o /\ m.k = r.k /\ m.o2 = r.o2 /\ m.k2 = r.k2 /\ m.v = r.v
    BY <1>3, <1>5, <2>5 DEF CallShape, TcFields
  <2>8. CallShape(m)
    BY <1>2, <1>5, <2>7 DEF CallShape
  <2>9. ASSUME ~over, NEW j \in CacheSlots \ {i} PROVE ps \cap (Changed(tcall[j]) \cup Fills(tcall[j])) = {}
    <3>1. ~Overlaps(i, j, ps) /\ CallShape(tcall[j])
      BY <1>4, <2>9 DEF TcInv, Overtakes
    <3> QED BY <3>1, OnItsWay DEF Overlaps
  <2>10. CallTrue(tcall[i])'
    <3> SUFFICES ASSUME ~over, cache[r.o][r.k].in, <<r.o, r.k>> \notin suspect
                 PROVE  cache[r.o][r.k].v = store'[r.o][r.k2]
      BY <1>3, <2>6, <2>7 DEF CallTrue
    <3>1. PICK p : p = <<r.o, r.k>>
      OBVIOUS
    <3>2. p \in Places /\ p \in ps /\ St(p) = store[r.o][r.k] /\ Ca(p) = cache[r.o][r.k]
      BY <1>2, <1>5, <3>1, PlaceParts DEF St, Ca
    <3>3. Changed(tcall[i]) = {}
      BY <1>1, <1>3, NothingOnItsWay DEF InCache
    <3>4. \A j \in CacheSlots : p \notin Changed(tcall[j])
      BY <2>9, <3>2, <3>3
    <3>5. Right(p)
      BY <3>1, <3>2, <3>4 DEF TcInv, CacheRight
    <3> QED BY <2>1, <3>2, <3>5 DEF Right
  <2>11. Fills(m) = ps /\ Changed(m) = ps /\ ps \subseteq Places
    BY <1>2, <1>5, <2>7, PlaceParts DEF Fills, Changed
  <2>12. \A j \in CacheSlots \ {i} :
            /\ tcall[j].pc = "move_attr" /\ tcall[j].pl \cap ps # {} => tcall'[j] = Marked(tcall[j])
            /\ ~over => Fills(tcall[j]) \cap ps = {}
    BY <2>4, <2>6, <2>9 DEF Overlaps, InCache
  <2>13. tcall[i].pc \notin InCache
    BY <1>1, <1>3 DEF InCache
  <2>14. ChildStep(i, ps)
    BY <1>3, <2>1, <2>4, <2>6, <2>7, <2>8, <2>10, <2>11, <2>12, <2>13 DEF ChildStep
  <2> QED BY <2>6, <2>7, <2>14, ChildKeeps, ChildStepOpens
<1> QED BY <1>6, <1>7

\* An object of the child goes.
LEMMA GoneShape ==
  ASSUME StoreShape, NEW o \in Objs, store' = [store EXCEPT ![o] = NoAttrs], there' = there \ {o}
  PROVE  /\ StoreShape' /\ \A p \in Places \ ({o} \X AllKeys) : store'[p[1]][p[2]] = store[p[1]][p[2]]
<1>1. DOMAIN store = Objs /\ \A q \in Objs : DOMAIN store[q] = AllKeys
  BY DEF StoreShape
<1>2. /\ DOMAIN store' = Objs /\ \A q \in Objs : DOMAIN store'[q] = AllKeys
      /\ \A q \in Objs, k \in AllKeys : store'[q][k] = IF q = o THEN None ELSE store[q][k]
  BY <1>1 DEF NoAttrs
<1>3. \A p \in Places : St(p)' = IF p[1] = o THEN None ELSE St(p)
  BY <1>2, PlaceParts DEF St
<1>4. \A q \in Places : /\ St(q) \in StoreVals
                        /\ IsLink(St(q)) => ~IsLink(St(St(q)))
                        /\ q[1] \notin there => St(q) = None
  BY DEF StoreShape
<1>5. ASSUME NEW q \in Places, IsLink(St(q)') PROVE ~IsLink(St(St(q))')
  <2>1. St(q)' = St(q) /\ IsLink(St(q)) /\ St(q) \in Places
    BY <1>3, <1>5, NoLinks DEF IsLink
  <2>2. St(St(q))' = St(St(q)) \/ St(St(q))' = None
    <3>1. PICK x : x = St(q)
      OBVIOUS
    <3>2. St(x)' = St(x) \/ St(x)' = None
      BY <1>3, <2>1, <3>1
    <3>3. St(St(q))' = St(x)' /\ St(St(q)) = St(x)
      BY <2>1, <3>1, Zenon DEF St
    <3> QED BY <3>2, <3>3
  <2> QED BY <1>4, <2>1, <2>2, NoLinks
<1>6. \A q \in Places : St(q)' \in StoreVals /\ (q[1] \notin there' => St(q)' = None)
  BY <1>3, <1>4, NoLinks
<1>7. \A p \in Places \ ({o} \X AllKeys) : St(p)' = St(p)
  BY <1>3, PlaceParts
<1> QED BY <1>2, <1>5, <1>6, <1>7, Zenon DEF StoreShape, St

\* ostc_remove_object_fn, ostc_move_object_fn and ostc_remove_regex_object_fn in the child.
LEMMA GoneKeeps ==
  ASSUME NEW i \in CacheSlots, TcInv, NEW o \in Objs, o = tcall[i].o, NEW pc \in {"drop_object", "move_object", "purge"},
         Child(i, [store EXCEPT ![o] = NoAttrs], {o} \X AllKeys, pc), there' = there \ {o},
         tcall[i].pc = "child", tcall[i].op \in {"remove", "move", "remove_regex"},
         cache' = cache, tree' = tree, suspect' = suspect
  PROVE  TcInv' /\ NoOpens(i)
<1>1. PICK r : r = tcall[i]
  OBVIOUS
<1>2. PICK m : m = tcall'[i]
  OBVIOUS
<1>3. CallShape(r) /\ r.k \in AllKeys
  BY <1>1 DEF TcInv, CallShape
<1>4. /\ store' = [store EXCEPT ![o] = NoAttrs] /\ TcFields \subseteq DOMAIN m /\ m.pc = pc /\ m.op = r.op
      /\ m.pl = {o} \X AllKeys \cup {<<r.o, r.k>>} /\ m.o = r.o /\ m.k = r.k /\ m.o2 = r.o2 /\ m.k2 = r.k2 /\ m.v = r.v
  BY <1>1, <1>2, ChildCalls
<1>5. m.pl = {o} \X AllKeys /\ m.o = o /\ {o} \X AllKeys \subseteq Places
  BY <1>1, <1>3, <1>4 DEF Places
<1>6. StoreShape' /\ \A p \in Places \ ({o} \X AllKeys) : store'[p[1]][p[2]] = store[p[1]][p[2]]
  BY <1>4, GoneShape DEF TcInv
<1>7. CallShape(m)
  BY <1>1, <1>3, <1>4, <1>5 DEF CallShape
<1>8. Changed(m) = {o} \X AllKeys
  BY <1>4, <1>5 DEF Changed
<1>9. \A q \in there : <<q, Inode>> \notin {o} \X AllKeys => q \in there'
  BY DEF AllKeys
<1>10. pc \in {"update", "drop_attr", "drop_object", "move_object", "purge"} /\ pc # "update"
  OBVIOUS
<1> QED BY <1>2, <1>5, <1>6, <1>7, <1>8, <1>9, <1>10, ChildCallKeeps

\* ostc_remove_object_fn and ostc_move_object_fn.
LEMMA RemoveChildKeeps ==
  ASSUME NEW i \in CacheSlots, TcInv, RemoveChild(i)
  PROVE  TcInv' /\ NoOpens(i)
<1>1. PICK r : r = tcall[i]
  OBVIOUS
<1>2. PICK pc \in {"drop_object", "move_object"} : pc = IF r.op = "move" THEN "move_object" ELSE "drop_object"
  OBVIOUS
<1>3. /\ r.pc = "child" /\ r.op \in {"remove", "move"} /\ cache' = cache /\ tree' = tree /\ suspect' = suspect
      /\ \/ /\ Child(i, [store EXCEPT ![r.o] = NoAttrs], {r.o} \X AllKeys, pc) /\ there' = there \ {r.o}
         \/ End(i) /\ store' = store /\ there' = there
  BY <1>1, <1>2 DEF RemoveChild, At
<1>4. r.o \in Objs
  BY <1>1 DEF TcInv, CallShape
<1>5. CASE End(i) /\ store' = store /\ there' = there
  BY <1>1, <1>3, <1>5, EndsKeep DEF InCache
<1>6. CASE Child(i, [store EXCEPT ![r.o] = NoAttrs], {r.o} \X AllKeys, pc) /\ there' = there \ {r.o}
  <2>1. PICK o \in Objs : o = r.o
    BY <1>4
  <2>2. Child(i, [store EXCEPT ![o] = NoAttrs], {o} \X AllKeys, pc) /\ there' = there \ {o}
    BY <1>6, <2>1
  <2> QED BY <1>1, <1>3, <2>1, <2>2, GoneKeeps
<1> QED BY <1>3, <1>5, <1>6

\* ostc_remove_regex_object_fn.
LEMMA RegexChildKeeps ==
  ASSUME NEW i \in CacheSlots, TcInv, RegexChild(i)
  PROVE  TcInv' /\ NoOpens(i)
<1>1. PICK r : r = tcall[i]
  OBVIOUS
<1>2. /\ r.pc = "child" /\ r.op = "remove_regex" /\ cache' = cache /\ tree' = tree /\ suspect' = suspect
      /\ \/ /\ Child(i, [store EXCEPT ![r.o] = NoAttrs], {r.o} \X AllKeys, "purge") /\ there' = there \ {r.o}
         \/ End(i) /\ store' = store /\ there' = there
  <2>1. there \ ({r.o} \cap there) = there \ {r.o}
    OBVIOUS
  <2> QED BY <1>1, <2>1 DEF RegexChild, At
<1>3. r.o \in Objs
  BY <1>1 DEF TcInv, CallShape
<1>4. CASE End(i) /\ store' = store /\ there' = there
  BY <1>1, <1>2, <1>4, EndsKeep DEF InCache
<1>5. CASE Child(i, [store EXCEPT ![r.o] = NoAttrs], {r.o} \X AllKeys, "purge") /\ there' = there \ {r.o}
  <2>1. PICK o \in Objs : o = r.o
    BY <1>3
  <2>2. Child(i, [store EXCEPT ![o] = NoAttrs], {o} \X AllKeys, "purge") /\ there' = there \ {o}
    BY <1>5, <2>1
  <2> QED BY <1>1, <1>2, <2>1, <2>2, GoneKeeps
<1> QED BY <1>2, <1>4, <1>5

\* What a call that the cache passes on does to the others.
LEMMA PassedOnMarks ==
  ASSUME TcInv, NEW ps, tcall' = Overtake(0, ps)
  PROVE  /\ 0 \notin CacheSlots /\ DOMAIN tcall' = CacheSlots
         /\ \A j \in CacheSlots : tcall'[j] = IF Overlaps(0, j, ps) THEN Marked(tcall[j]) ELSE tcall[j]
BY TimecacheAssumption DEF Overtake, Marked

\* ostc_regex_object_set_multiple_attrs.
LEMMA RegexSetKeeps ==
  ASSUME TcInv, NEW o \in Objs, NEW k \in Keys, NEW v \in Vals, RegexSetAttrs(o, k, v)
  PROVE  TcInv' /\ NoOpens(0)
<1>1. PICK p : p = Place(o, k)
  OBVIOUS
<1>2. /\ p[1] \in there /\ store' = With(store, p, v) /\ tcall' = Overtake(0, {p})
      /\ suspect' = StillCached(cache, suspect \cup {p}) /\ there' = there /\ tree' = tree /\ cache' = cache
  BY <1>1 DEF RegexSetAttrs
<1>3. p \in Places
  BY <1>1, PlaceParts DEF Place, IsLink, AllKeys
<1>4. v \in StoreVals /\ ~IsLink(v)
  BY NoLinks
<1>5. StoreShape' /\ \A q \in Places \ {p} : store'[q[1]][q[2]] = store[q[1]][q[2]]
  BY <1>2, <1>3, <1>4, WithShape DEF TcInv
<1>6. \A q : q \in suspect' <=> q \in suspect \cup {p} /\ Ca(q).in
  BY <1>2 DEF StillCached, Ca
<1>7. p \in suspect' \/ Right(p)'
  BY <1>2, <1>6 DEF Right, Ca
<1>8. /\ 0 \notin CacheSlots /\ DOMAIN tcall' = CacheSlots
      /\ \A j \in CacheSlots : tcall'[j] = IF Overlaps(0, j, {p}) THEN Marked(tcall[j]) ELSE tcall[j]
  BY <1>2, PassedOnMarks
<1>9. ChildStep(0, {p})
  BY <1>2, <1>3, <1>5, <1>6, <1>7, <1>8 DEF ChildStep
<1> QED BY <1>8, <1>9, ChildKeeps, ChildStepOpens

\* ostc_create_object.
LEMMA CreateKeeps ==
  ASSUME TcInv, NEW o \in Objs, CreateObject(o)
  PROVE  TcInv' /\ NoOpens(0)
<1>1. PICK ps : ps = {o} \X AllKeys
  OBVIOUS
<1>2. /\ o \notin there /\ there' = there \cup {o} /\ store' = [store EXCEPT ![o] = Made]
      /\ tcall' = Overtake(0, ps) /\ cache' = cache /\ tree' = tree /\ suspect' = suspect
  BY <1>1 DEF CreateObject
<1>3. PICK w \in Vals : Made = [k \in AllKeys |-> IF k = Inode THEN w ELSE None]
  BY TimecacheAssumption DEF Made, NoAttrs, AllKeys
<1>4. DOMAIN store = Objs /\ \A q \in Objs : DOMAIN store[q] = AllKeys
  BY DEF TcInv, StoreShape
<1>5. /\ DOMAIN store' = Objs /\ \A q \in Objs : DOMAIN store'[q] = AllKeys
      /\ \A q \in Objs, k \in AllKeys : store'[q][k] = IF q # o THEN store[q][k] ELSE IF k = Inode THEN w ELSE None
  BY <1>2, <1>3, <1>4
<1>6. \A p \in Places : /\ St(p) \in StoreVals
                        /\ IsLink(St(p)) => ~IsLink(St(St(p)))
                        /\ p[1] \notin there => St(p) = None
  BY DEF TcInv, StoreShape
<1>7. \A p \in Places : St(p)' = IF p = <<o, Inode>> THEN w ELSE St(p)
  <2> SUFFICES ASSUME NEW p \in Places PROVE St(p)' = IF p = <<o, Inode>> THEN w ELSE St(p)
    OBVIOUS
  <2>1. p[1] \in Objs /\ p[2] \in AllKeys /\ p = <<p[1], p[2]>>
    BY PlaceParts
  <2>2. p[1] = o => St(p) = None
    BY <1>2, <1>6
  <2> QED BY <1>5, <2>1, <2>2 DEF St
<1>8. StoreShape'
  <2>1. ASSUME NEW q \in Places, IsLink(St(q)') PROVE ~IsLink(St(St(q))')
    <3>1. PICK x : x = St(q)
      OBVIOUS
    <3>2. St(q)' = x /\ IsLink(x) /\ x \in Places /\ ~IsLink(St(x))
      BY <1>6, <1>7, <2>1, <3>1, NoLinks DEF IsLink
    <3>3. St(St(q))' = St(x)'
      BY <3>2 DEF St
    <3>4. ~IsLink(St(x)')
      BY <1>7, <3>2, NoLinks
    <3> QED BY <3>3, <3>4
  <2>2. \A q \in Places : St(q)' \in StoreVals /\ (q[1] \notin there' => St(q)' = None)
    BY <1>2, <1>6, <1>7, NoLinks, PlaceParts
  <2> QED BY <1>5, <2>1, <2>2 DEF StoreShape
<1>9. ASSUME NEW p \in ps, Right(p) PROVE Right(p)'
  <2>1. p \in Places /\ p[1] = o /\ p[2] \in AllKeys /\ p = <<p[1], p[2]>>
    BY <1>1, <1>9 DEF Places
  <2>2. CASE p[2] = Inode
    BY <1>2, <1>9, <2>1, <2>2 DEF Right, Ca
  <2>3. CASE p[2] # Inode
    <3>1. St(p)' = St(p) /\ Ca(p)' = Ca(p)
      BY <1>2, <1>7, <2>1, <2>3 DEF Ca
    <3> QED BY <1>9, <2>3, <3>1 DEF Right
  <2> QED BY <2>2, <2>3
<1>10. \A p \in Places \ ps : store'[p[1]][p[2]] = store[p[1]][p[2]]
  BY <1>1, <1>5, PlaceParts
<1>11. /\ 0 \notin CacheSlots /\ DOMAIN tcall' = CacheSlots
       /\ \A j \in CacheSlots : tcall'[j] = IF Overlaps(0, j, ps) THEN Marked(tcall[j]) ELSE tcall[j]
  BY <1>2, PassedOnMarks
<1>12. ps \subseteq Places
  BY <1>1 DEF Places
<1>13. ChildStep(0, ps)
  BY <1>2, <1>8, <1>9, <1>10, <1>11, <1>12 DEF ChildStep
<1> QED BY <1>11, <1>13, ChildKeeps, ChildStepOpens

\* The child answers a call.
LEMMA GetChildKeeps ==
  ASSUME NEW i \in CacheSlots, TcInv, GetChild(i)
  PROVE  TcInv' /\ NoOpens(i)
<1>1. PICK r : r = tcall[i]
  OBVIOUS
<1>2. PICK ps : ps = {<<r.o, r.k>>, Place(r.o, r.k)}
  OBVIOUS
<1>3. PICK at, v, got : at = (IF r.o \in there THEN "found" ELSE "-") /\ v = store[r.o][r.k] /\ got = Value(r.o, r.k)
  OBVIOUS
<1>4. PICK t : t = OvertakeRename(i, ps)
  OBVIOUS
<1>5. /\ r.pc = "child" /\ r.op \in {"get", "list"}
      /\ tcall' = [t EXCEPT ![i].pc = "put", ![i].got = got, ![i].v = v, ![i].at = at, ![i].pl = ps, ![i].raced = FALSE]
      /\ store' = store /\ there' = there /\ cache' = cache /\ tree' = tree /\ suspect' = suspect
  BY <1>1, <1>2, <1>3, <1>4, Zenon DEF GetChild, At
<1>6. DOMAIN t = CacheSlots /\ t[i] = r
      /\ \A j \in CacheSlots \ {i} :
           t[j] = IF tcall[j].pc = "move_attr" /\ Overlaps(i, j, ps) THEN Marked(tcall[j]) ELSE tcall[j]
  BY <1>1, <1>4 DEF OvertakeRename, Overtake, Overlaps, Marked
<1>7. PICK m : m = [r EXCEPT !.pc = "put", !.got = got, !.v = v, !.at = at, !.pl = ps, !.raced = FALSE]
  OBVIOUS
<1>8. DOMAIN tcall' = CacheSlots /\ tcall'[i] = m /\ \A j \in CacheSlots \ {i} : tcall'[j] = t[j]
  BY <1>5, <1>6, <1>7
<1>9. CallShape(r) /\ r.o \in Objs /\ r.k \in Keys /\ r.k \in AllKeys /\ r.o2 \in Objs /\ r.k2 \in Keys /\ r.k2 \in AllKeys
  BY <1>1, <1>5 DEF TcInv, CallShape, AttrOps
<1>10. /\ TcFields \subseteq DOMAIN m /\ m.pc = "put" /\ m.got = got /\ m.v = v /\ m.pl = ps /\ ~m.raced
       /\ m.op = r.op /\ m.o = r.o /\ m.k = r.k /\ m.o2 = r.o2 /\ m.k2 = r.k2
  BY <1>7, <1>9 DEF CallShape, TcFields
<1>11. v \in StoreVals /\ got \in StoreVals
  <2>1. \A q \in Places : St(q) \in StoreVals
    BY DEF TcInv, StoreShape
  <2>2. Place(r.o, r.k) \in Places /\ <<r.o, r.k>> \in Places
    BY <1>9, PlaceParts DEF Place, IsLink
  <2>3. got = St(Place(r.o, r.k)) /\ v = St(<<r.o, r.k>>)
    BY <1>3 DEF Value, St
  <2> QED BY <2>1, <2>2, <2>3
<1>12. ps = {<<m.o, m.k>>, IF IsLink(m.v) THEN m.v ELSE <<m.o, m.k>>}
  BY <1>2, <1>3, <1>10 DEF Place
<1>13. CallShape(m)
  BY <1>5, <1>9, <1>10, <1>11, <1>12 DEF CallShape
<1>14. StoreShape'
  <2>1. StoreShape
    BY DEF TcInv
  <2> QED BY <1>5, <2>1, Zenon DEF StoreShape, St
<1>15. CallTrue(tcall[i])'
  <2>1. v = store'[m.o][m.k] /\ got = Value(m.o, m.k)'
    BY <1>3, <1>5, <1>10, Zenon DEF Value, Place
  <2> QED BY <1>8, <1>10, <2>1 DEF CallTrue
<1>16. Fills(m) = ps
  BY <1>10 DEF Fills
<1>17. \A j \in CacheSlots \ {i} : tcall[j].pc = "move_attr" /\ tcall[j].pl \cap ps # {} => tcall'[j] = Marked(tcall[j])
  BY <1>6, <1>8 DEF Overlaps, InCache
<1>18. tcall[i].pc \notin InCache /\ \A j : ~Overlaps(i, j, {})
  BY <1>1, <1>5 DEF InCache, Overlaps
<1>19. \A j \in CacheSlots \ {i} : tcall'[j] = tcall[j] \/ tcall'[j] = Marked(tcall[j])
  BY <1>6, <1>8
<1>20. tcall'[i] = m /\ DOMAIN tcall' = CacheSlots /\ m.pc # "move_attr"
  BY <1>8, <1>10
<1>21. store' = store /\ there' = there /\ cache' = cache /\ tree' = tree /\ suspect' = suspect
  BY <1>5
<1>22. ChildStep(i, {})
  BY <1>13, <1>14, <1>15, <1>16, <1>17, <1>18, <1>19, <1>20, <1>21 DEF ChildStep
<1> QED BY <1>8, <1>10, <1>22, ChildKeeps, ChildStepOpens

FdShape ==
  /\ DOMAIN fd = CacheFds
  /\ \A f \in CacheFds : {"st", "o"} \subseteq DOMAIN fd[f] /\ fd[f].o \in Objs

\* A call that is made.
LEMMA StartKeeps ==
  ASSUME NEW i \in CacheSlots, TcInv, NEW r, Start(i, r), TcFields \subseteq DOMAIN r,
         r.o \in Objs, r.o2 \in Objs, r.k \in AllKeys, r.k2 \in AllKeys,
         r.op \in AttrOps => r.k \in Keys /\ r.k2 \in Keys,
         r.op = "set" => r.v \in Vals \cup {None},
         r.op \in {"copy", "symlink"} => <<r.o, r.k>> # <<r.o2, r.k2>>,
         r.op = "rename" => r.k # r.k2,
         r.pc \in {"open", "child"} \/ (r.pc = "fetch" /\ r.op = "get")
  PROVE  TcInv' /\ NoOpens(i)
<1>1. CallShape(r)
  BY DEF CallShape
<1>2. CallTrue(r) /\ r.pc \notin InCache
  BY DEF CallTrue, InCache
<1>3. /\ tcall' = [tcall EXCEPT ![i] = r] /\ tcall[i] = TcIdle
      /\ store' = store /\ there' = there /\ cache' = cache /\ tree' = tree /\ suspect' = suspect
  BY DEF Start, TcFree
<1>4. tcall[i].pc \notin InCache
  BY <1>3, TcIdleShape DEF InCache
<1> QED BY <1>1, <1>2, <1>3, <1>4, QuietKeeps

\* The calls that can be made, on descriptors and on names.
LEMMA CallsKeep ==
  ASSUME NEW i \in CacheSlots, TcInv, FdShape, Calls(i)
  PROVE  TcInv' /\ NoOpens(i)
<1>0. Keys \subseteq AllKeys /\ Inode \in AllKeys /\ \A f \in CacheFds : fd[f].o \in Objs
  BY DEF AllKeys, FdShape
<1> USE DEF OnFd, OnPath, TcIdle, TcFields, AttrOps
<1>1. ASSUME NEW f \in CacheFds, NEW k \in Keys, GetAttr(i, f, k) PROVE TcInv' /\ NoOpens(i)
  <2>1. PICK r : r = OnFd("get", "fetch", f, k)
    OBVIOUS
  <2>2. Start(i, r)
    BY <1>1, <2>1 DEF GetAttr
  <2>3. TcFields \subseteq DOMAIN r /\ r.o = fd[f].o /\ r.o2 = fd[f].o /\ r.k = k /\ r.k2 = k /\ r.op = "get" /\ r.pc = "fetch"
    BY <2>1
  <2> QED BY <1>0, <2>2, <2>3, StartKeeps
<1>2. ASSUME NEW f \in CacheFds, NEW k \in Keys, NEW v \in Vals \cup {None}, SetAttr(i, f, k, v) PROVE TcInv' /\ NoOpens(i)
  <2>1. PICK r : r = [OnFd("set", "open", f, k) EXCEPT !.v = v]
    OBVIOUS
  <2>2. Start(i, r)
    BY <1>2, <2>1 DEF SetAttr
  <2>3. /\ TcFields \subseteq DOMAIN r /\ r.o = fd[f].o /\ r.o2 = fd[f].o /\ r.k = k /\ r.k2 = k /\ r.op = "set"
        /\ r.pc = "open" /\ r.v = v
    BY <2>1
  <2> QED BY <1>0, <2>2, <2>3, StartKeeps
<1>3. ASSUME NEW f \in CacheFds, NEW f2 \in CacheFds, NEW k \in Keys, NEW k2 \in Keys, CopyAttr(i, f, k, f2, k2) PROVE TcInv' /\ NoOpens(i)
  <2>1. PICK r : r = [OnFd("copy", "open", f, k) EXCEPT !.f2 = f2, !.o2 = fd[f2].o, !.k2 = k2]
    OBVIOUS
  <2>2. Start(i, r) /\ <<fd[f].o, k>> # <<fd[f2].o, k2>>
    BY <1>3, <2>1 DEF CopyAttr
  <2>3. /\ TcFields \subseteq DOMAIN r /\ r.o = fd[f].o /\ r.o2 = fd[f2].o /\ r.k = k /\ r.k2 = k2 /\ r.op = "copy"
        /\ r.pc = "open"
    BY <2>1
  <2> QED BY <1>0, <2>2, <2>3, StartKeeps
<1>4. ASSUME NEW o \in Objs, NEW f2 \in CacheFds, NEW k \in Keys, NEW k2 \in Keys, SymlinkAttr(i, o, k, f2, k2) PROVE TcInv' /\ NoOpens(i)
  <2>1. PICK r : r = [OnFd("symlink", "open", f2, k2) EXCEPT !.o2 = o, !.k2 = k]
    OBVIOUS
  <2>2. Start(i, r) /\ <<o, k>> # <<fd[f2].o, k2>>
    BY <1>4, <2>1 DEF SymlinkAttr
  <2>3. /\ TcFields \subseteq DOMAIN r /\ r.o = fd[f2].o /\ r.o2 = o /\ r.k = k2 /\ r.k2 = k /\ r.op = "symlink"
        /\ r.pc = "open"
    BY <2>1
  <2> QED BY <1>0, <2>2, <2>3, StartKeeps
<1>5. ASSUME NEW f \in CacheFds, NEW k \in Keys, NEW k2 \in Keys, MoveAttr(i, f, k, k2) PROVE TcInv' /\ NoOpens(i)
  <2>1. PICK r : r = [OnFd("rename", "open", f, k) EXCEPT !.k2 = k2]
    OBVIOUS
  <2>2. Start(i, r) /\ k # k2
    BY <1>5, <2>1 DEF MoveAttr
  <2>3. /\ TcFields \subseteq DOMAIN r /\ r.o = fd[f].o /\ r.o2 = fd[f].o /\ r.k = k /\ r.k2 = k2 /\ r.op = "rename"
        /\ r.pc = "open"
    BY <2>1
  <2> QED BY <1>0, <2>2, <2>3, StartKeeps
<1>6. ASSUME NEW f \in CacheFds, CacheAttrIter(i, f) PROVE TcInv' /\ NoOpens(i)
  <2>1. PICK r : r = OnFd("attr_iter", "open", f, Inode)
    OBVIOUS
  <2>2. Start(i, r)
    BY <1>6, <2>1 DEF CacheAttrIter
  <2>3. /\ TcFields \subseteq DOMAIN r /\ r.o = fd[f].o /\ r.o2 = fd[f].o /\ r.k = Inode /\ r.k2 = Inode
        /\ r.op = "attr_iter" /\ r.pc = "open"
    BY <2>1
  <2> QED BY <1>0, <2>2, <2>3, StartKeeps
<1>7. ASSUME NEW o \in Objs, RemoveObject(i, o) \/ MoveObject(i, o) \/ RemoveRegex(i, o) PROVE TcInv' /\ NoOpens(i)
  <2>1. PICK op \in {"remove", "move", "remove_regex"} : Start(i, OnPath(op, "child", o, Inode))
    BY <1>7 DEF RemoveObject, MoveObject, RemoveRegex
  <2>2. PICK r : r = OnPath(op, "child", o, Inode)
    OBVIOUS
  <2>3. /\ TcFields \subseteq DOMAIN r /\ r.o = o /\ r.o2 = o /\ r.k = Inode /\ r.k2 = Inode /\ r.op = op /\ r.pc = "child"
    BY <2>2
  <2>4. Start(i, r)
    BY <2>1, <2>2
  <2> QED BY <1>0, <2>3, <2>4, StartKeeps
<1>8. ASSUME NEW o \in Objs, NEW k \in Keys, CacheNextObject(i, o, k) PROVE TcInv' /\ NoOpens(i)
  <2>1. PICK r : r = OnPath("list", "child", o, k)
    OBVIOUS
  <2>2. Start(i, r)
    BY <1>8, <2>1 DEF CacheNextObject
  <2>3. TcFields \subseteq DOMAIN r /\ r.o = o /\ r.o2 = o /\ r.k = k /\ r.k2 = k /\ r.op = "list" /\ r.pc = "child"
    BY <2>1
  <2> QED BY <1>0, <2>2, <2>3, StartKeeps
<1> HIDE DEF OnFd, OnPath, TcIdle, TcFields, AttrOps
<1> QED BY <1>1, <1>2, <1>3, <1>4, <1>5, <1>6, <1>7, <1>8 DEF Calls

\* ostc_cache_fetch.
LEMMA FetchKeeps ==
  ASSUME NEW i \in CacheSlots, TcInv, Fetch(i)
  PROVE  TcInv' /\ NoOpens(i)
<1>1. /\ End(i) \/ Goes(i, "prefix")
      /\ store' = store /\ there' = there /\ cache' = cache /\ tree' = tree /\ suspect' = suspect
  BY DEF Fetch, At
<1>2. tcall[i].pc = "fetch"
  BY DEF Fetch, At
<1>3. CASE End(i)
  BY <1>1, <1>2, <1>3, EndsKeep DEF InCache
<1>4. CASE Goes(i, "prefix")
  <2>1. PICK m : m = tcall'[i]
    OBVIOUS
  <2>2. tcall[i].op = "get"
    BY <1>2 DEF TcInv, CallShape
  <2>3. m.pc = "prefix" /\ CallShape(m)
    BY <1>4, <2>1, <2>2, GoesKeeps DEF InCache
  <2>4. CallTrue(m)
    BY <2>3 DEF CallTrue
  <2>5. tcall' = [tcall EXCEPT ![i] = m]
    <3>1. DOMAIN tcall = CacheSlots
      BY DEF TcInv
    <3> QED BY <1>4, <2>1, <3>1 DEF Goes
  <2>6. m.pc \notin InCache /\ tcall[i].pc \notin InCache /\ m.pc # "install"
    BY <1>2, <2>3 DEF InCache
  <2> QED BY <1>1, <2>3, <2>4, <2>5, <2>6, QuietKeeps
<1> QED BY <1>1, <1>3, <1>4

\* _ostc_cache_populate_prefix asks the child for a name.
LEMMA PopulateKeeps ==
  ASSUME NEW i \in CacheSlots, TcInv, PopulatePrefix(i)
  PROVE  TcInv' /\ NoOpens(i)
<1>1. PICK r : r = tcall[i]
  OBVIOUS
<1>2. PICK n : n = FirstMissing(r.o)
  OBVIOUS
<1>3. /\ r.pc = "prefix"
      /\ store' = store /\ there' = there /\ cache' = cache /\ tree' = tree /\ suspect' = suspect
      /\ \/ n \in there /\ tcall' = [tcall EXCEPT ![i].pc = "prefix_put", ![i].at = n, ![i].o2 = n,
                                   ![i].got = store[n][Inode], ![i].pl = {<<n, Inode>>}, ![i].raced = FALSE]
         \/ tcall' = [tcall EXCEPT ![i].pc = "open", ![i].o2 = r.o]
  BY <1>1, <1>2 DEF PopulatePrefix, At
<1>4. CallShape(r) /\ r.op = "get" /\ r.o \in Objs /\ r.k \in Keys /\ r.k \in AllKeys /\ r.k2 \in Keys /\ r.k2 \in AllKeys
  BY <1>1, <1>3 DEF TcInv, CallShape, AttrOps
<1>5. n \in Objs
  BY <1>2, <1>4 DEF FirstMissing, Objs
<1>6. tcall[i].pc \notin InCache /\ DOMAIN tcall = CacheSlots
  BY <1>1, <1>3 DEF InCache, TcInv
<1>7. CASE n \in there /\ tcall' = [tcall EXCEPT ![i].pc = "prefix_put", ![i].at = n, ![i].o2 = n,
                                   ![i].got = store[n][Inode], ![i].pl = {<<n, Inode>>}, ![i].raced = FALSE]
  <2>1. PICK m : m = [r EXCEPT !.pc = "prefix_put", !.at = n, !.o2 = n, !.got = store[n][Inode],
                               !.pl = {<<n, Inode>>}, !.raced = FALSE]
    OBVIOUS
  <2>2. tcall' = [tcall EXCEPT ![i] = m]
    BY <1>1, <1>6, <1>7, <2>1
  <2>3. /\ TcFields \subseteq DOMAIN m /\ m.pc = "prefix_put" /\ m.o2 = n /\ m.got = store[n][Inode] /\ m.pl = {<<n, Inode>>}
        /\ m.op = r.op /\ m.o = r.o /\ m.k = r.k /\ m.k2 = r.k2
    BY <1>4, <2>1 DEF CallShape, TcFields
  <2>4. store[n][Inode] \in StoreVals
    <3>1. <<n, Inode>> \in Places /\ St(<<n, Inode>>) = store[n][Inode]
      BY <1>5, PlaceParts DEF St, AllKeys
    <3> QED BY <3>1 DEF TcInv, StoreShape
  <2>5. CallShape(m) /\ CallTrue(m)
    BY <1>4, <1>5, <1>7, <2>3, <2>4 DEF CallShape, CallTrue
  <2>6. m.pc # "install"
    BY <2>3
  <2> QED BY <1>3, <1>6, <2>2, <2>3, <2>5, <2>6, QuietKeeps
<1>8. CASE tcall' = [tcall EXCEPT ![i].pc = "open", ![i].o2 = r.o]
  <2>1. PICK m : m = [r EXCEPT !.pc = "open", !.o2 = r.o]
    OBVIOUS
  <2>2. tcall' = [tcall EXCEPT ![i] = m]
    BY <1>1, <1>6, <1>8, <2>1
  <2>3. /\ TcFields \subseteq DOMAIN m /\ m.pc = "open" /\ m.o2 = r.o
        /\ m.op = r.op /\ m.o = r.o /\ m.k = r.k /\ m.k2 = r.k2
    BY <1>4, <2>1 DEF CallShape, TcFields
  <2>4. CallShape(m) /\ CallTrue(m) /\ m.pc \notin InCache
    BY <1>4, <2>3 DEF CallShape, CallTrue, InCache
  <2>5. m.pc # "install"
    BY <2>3
  <2> QED BY <1>3, <1>6, <2>2, <2>4, <2>5, QuietKeeps
<1> QED BY <1>3, <1>7, <1>8

\* ostc_delayed_open_object.
LEMMA OpenKeeps ==
  ASSUME NEW i \in CacheSlots, TcInv, DelayedOpen(i) \/ InstallChildFd(i)
  PROVE  TcInv'
<1>1. PICK r : r = tcall[i]
  OBVIOUS
<1>2. PICK f : f = FirstOpen(r)
  OBVIOUS
<1>3. /\ r.pc \in {"open", "install"}
      /\ store' = store /\ there' = there /\ cache' = cache /\ tree' = tree /\ suspect' = suspect
      /\ \/ Goes(i, "child") \/ End(i)
         \/ f \in CacheFds /\ tcall' = [tcall EXCEPT ![i].pc = "install", ![i].opens = f]
         \/ tcall' = [tcall EXCEPT ![i].pc = "open", ![i].opens = 0]
  <2>1. NeedsOpen(r) # {} => f \in CacheFds
    BY <1>2 DEF FirstOpen, NeedsOpen
  <2>2. CASE DelayedOpen(i)
    BY <1>1, <1>2, <2>1, <2>2 DEF DelayedOpen, At
  <2>3. CASE InstallChildFd(i)
    BY <1>1, <2>3 DEF InstallChildFd, At
  <2> QED BY <2>2, <2>3
<1>4. tcall[i].pc \notin InCache /\ DOMAIN tcall = CacheSlots /\ CallShape(r)
  BY <1>1, <1>3 DEF InCache, TcInv
<1>5. CASE End(i)
  BY <1>3, <1>4, <1>5, EndsKeep
<1>6. CASE Goes(i, "child")
  <2>1. PICK m : m = tcall'[i]
    OBVIOUS
  <2>2. m.pc = "child" /\ CallShape(m)
    BY <1>6, <2>1, GoesKeeps DEF InCache
  <2>3. CallTrue(m) /\ m.pc \notin InCache
    BY <2>2 DEF CallTrue, InCache
  <2>4. tcall' = [tcall EXCEPT ![i] = m]
    BY <1>4, <1>6, <2>1 DEF Goes
  <2> QED BY <1>3, <1>4, <2>2, <2>3, <2>4, QuietKeeps
<1>7. ASSUME NEW pc \in {"install", "open"}, NEW g, pc = "install" => g \in CacheFds,
             tcall' = [tcall EXCEPT ![i].pc = pc, ![i].opens = g]
      PROVE  TcInv'
  <2>1. PICK m : m = [r EXCEPT !.pc = pc, !.opens = g]
    OBVIOUS
  <2>2. tcall' = [tcall EXCEPT ![i] = m]
    BY <1>1, <1>4, <1>7, <2>1
  <2>3. /\ TcFields \subseteq DOMAIN m /\ m.pc = pc /\ m.opens = g
        /\ m.op = r.op /\ m.o = r.o /\ m.k = r.k /\ m.o2 = r.o2 /\ m.k2 = r.k2 /\ m.v = r.v
    BY <1>4, <2>1 DEF CallShape, TcFields
  <2>4. CallShape(m) /\ CallTrue(m) /\ m.pc \notin InCache
    BY <1>4, <1>7, <2>3 DEF CallShape, CallTrue, InCache
  <2> QED BY <1>3, <1>4, <2>2, <2>4, QuietKeeps
<1> QED BY <1>3, <1>5, <1>6, <1>7

\* The steps of a call.
LEMMA StepsKeep ==
  ASSUME NEW i \in CacheSlots, TcInv, Steps(i), ~undef'
  PROVE  TcInv'
<1>1. CASE RegexPurge(i)
  <2>1. cache' = Drop(cache, Objs) /\ Behind({}) /\ store' = store /\ there' = there /\ End(i)
    BY <1>1 DEF RegexPurge, Cached
  <2> QED BY <2>1, EndKeeps, EmptiedKeeps
<1>2. CASE AttrIterChild(i)
  BY <1>2, EndsKeep DEF AttrIterChild, At, InCache
<1> QED BY <1>1, <1>2, FetchKeeps, PopulateKeeps, PrefixPutKeeps, OpenKeeps, GetChildKeeps, GetPutKeeps, SetChildKeeps,
           SetUpdateKeeps, CopyChildKeeps, SymlinkChildKeeps, DropAttrKeeps, RenameChildKeeps, RenameMoveKeeps,
           RemoveChildKeeps, DropObjectKeeps, MoveCachedKeeps, RegexChildKeeps DEF Steps

\* Every step keeps the invariant as long as nothing undefined happens.
LEMMA TcNextKeeps ==
  ASSUME TcInv, FdShape, TcNext, ~undef'
  PROVE  TcInv'
<1>1. ASSUME NEW f \in CacheFds, CloseObject(f) \/ \E o \in Objs, reader \in BOOLEAN : OpenObject(f, o, reader)
      PROVE  TcInv'
  BY <1>1, OthersKeep DEF OpenObject, CloseObject
<1>2. CASE Destroy
  <2>1. cache' = Drop(cache, Objs) /\ Behind({}) /\ store' = store /\ there' = there /\ tcall' = tcall
    BY <1>2 DEF Destroy, Cached
  <2>2. DOMAIN tcall = CacheSlots /\ 0 \notin CacheSlots
    BY TimecacheAssumption DEF TcInv
  <2> QED BY <2>1, <2>2, EmptiedKeeps
<1> QED BY <1>1, <1>2, CallsKeep, StepsKeep, RegexSetKeeps, CreateKeeps, ExpireKeeps, CleanupKeeps DEF TcNext

(* Descriptors that are open in the child, and calls that open one.        *)
OpenFds == {f \in CacheFds : fd[f].st = "open"}
Opening == {i \in CacheSlots : tcall[i].pc = "install"}

\* A step in which no descriptor changes and no call opens one.
LEMMA CountKept ==
  ASSUME cfds = ChildFds, fd' = fd, cfds' = cfds,
         NEW i, NoOpens(i), i \in CacheSlots => tcall[i].pc # "install"
  PROVE  cfds' = ChildFds'
<1>1. \A j \in CacheSlots : (tcall'[j].pc = "install") <=> (tcall[j].pc = "install")
  BY DEF NoOpens
<1>2. OpenFds' = OpenFds /\ Opening' = Opening
  BY <1>1 DEF OpenFds, Opening
<1> QED BY <1>2 DEF ChildFds, OpenFds, Opening


FdInv == FdShape /\ cfds = ChildFds

\* A step of a call that opens no descriptor.
LEMMA FdKeptByCall ==
  ASSUME NEW i \in CacheSlots, TcInv, FdInv, Calls(i) \/ Steps(i), ~DelayedOpen(i), ~InstallChildFd(i)
  PROVE  FdInv'
<1>1. ASSUME fd' = fd, cfds' = cfds, NoOpens(i), tcall[i].pc # "install" PROVE FdInv'
  BY <1>1, CountKept DEF FdInv, FdShape
<1>2. FdShape
  BY DEF FdInv
<1>3. CASE Calls(i)
  <2>1. PICK r : Start(i, r)
    BY <1>3, Zenon DEF Calls, GetAttr, SetAttr, CopyAttr, SymlinkAttr, MoveAttr, CacheAttrIter, RemoveObject, MoveObject,
                RemoveRegex, CacheNextObject
  <2>2. tcall[i].pc # "install" /\ fd' = fd /\ cfds' = cfds
    BY <2>1, TcIdleShape DEF Start, TcFree
  <2> QED BY <1>1, <1>2, <1>3, <2>2, CallsKeep
<1>4. CASE Fetch(i) \/ PopulatePrefix(i)
  <2>1. tcall[i].pc # "install" /\ fd' = fd /\ cfds' = cfds
    BY <1>4 DEF Fetch, PopulatePrefix, At
  <2> QED BY <1>1, <1>4, <2>1, FetchKeeps, PopulateKeeps
<1>5. CASE PrefixPut(i)
  <2>1. tcall[i].pc = "prefix_put" /\ fd' = fd /\ cfds' = cfds /\ Goes(i, "prefix")
    BY <1>5 DEF PrefixPut, At
  <2>2. tcall[i].op = "get"
    BY <2>1 DEF TcInv, CallShape
  <2>3. NoOpens(i)
    BY <2>1, <2>2, GoesKeeps DEF NoOpens, InCache
  <2> QED BY <1>1, <2>1, <2>3
<1>6. CASE GetChild(i) \/ RenameChild(i) \/ SetChild(i) \/ CopyChild(i) \/ SymlinkChild(i) \/ RemoveChild(i) \/ RegexChild(i)
  <2>1. tcall[i].pc = "child" /\ fd' = fd /\ cfds' = cfds
    BY <1>6, Zenon DEF GetChild, RenameChild, SetChild, CopyChild, SymlinkChild, RemoveChild, RegexChild, At
  <2> QED BY <1>1, <1>6, <2>1, GetChildKeeps, RenameChildKeeps, SetChildKeeps, CopyChildKeeps, SymlinkChildKeeps,
             RemoveChildKeeps, RegexChildKeeps
<1>7. CASE \/ GetPut(i) \/ SetUpdate(i) \/ DropAttr(i) \/ RenameMove(i) \/ DropObject(i) \/ MoveCached(i)
           \/ RegexPurge(i) \/ AttrIterChild(i)
  <2>1. tcall[i].pc # "install" /\ fd' = fd /\ cfds' = cfds /\ End(i)
    BY <1>7, Zenon DEF GetPut, SetUpdate, DropAttr, RenameMove, DropObject, MoveCached, RegexPurge, AttrIterChild, At
  <2>2. NoOpens(i)
    BY <2>1, EndKeeps, TcIdleShape DEF NoOpens
  <2> QED BY <1>1, <2>1, <2>2
<1> QED BY <1>3, <1>4, <1>5, <1>6, <1>7 DEF Steps

\* ostc_delayed_open_object opens one and says so, or closes its own again.
LEMMA FdKeptByOpen ==
  ASSUME NEW i \in CacheSlots, TcInv, FdInv, DelayedOpen(i) \/ InstallChildFd(i)
  PROVE  FdInv'
<1>1. IsFiniteSet(CacheFds) /\ IsFiniteSet(CacheSlots)
  BY TimecacheAssumption
<1>2. IsFiniteSet(OpenFds) /\ IsFiniteSet(Opening)
  BY <1>1, FS_Subset DEF OpenFds, Opening
<1>3. Cardinality(OpenFds) \in Nat /\ Cardinality(Opening) \in Nat /\ cfds = Cardinality(OpenFds) + Cardinality(Opening)
  BY <1>2, FS_CardinalityType DEF FdInv, ChildFds, OpenFds, Opening
<1>4. ASSUME cfds' = Cardinality(OpenFds') + Cardinality(Opening') PROVE cfds' = ChildFds'
  BY <1>4 DEF ChildFds, OpenFds, Opening
<1>5. DOMAIN tcall = CacheSlots /\ TcFields \subseteq DOMAIN tcall[i] /\ FdShape
  BY DEF TcInv, CallShape, FdInv
<1>6. CASE DelayedOpen(i)
  <2>1. tcall[i].pc = "open" /\ fd' = fd
    BY <1>6 DEF DelayedOpen, At
  <2>2. FdShape'
    BY <1>5, <2>1 DEF FdShape
  <2>3. CASE cfds' = cfds /\ Goes(i, "child")
    <3>1. NoOpens(i)
      BY <2>3, GoesKeeps DEF NoOpens, InCache
    <3> QED BY <2>1, <2>2, <2>3, <3>1, CountKept DEF FdInv
  <2>4. CASE cfds' = cfds /\ End(i)
    <3>1. NoOpens(i)
      BY <2>4, EndKeeps, TcIdleShape DEF NoOpens
    <3> QED BY <2>1, <2>2, <2>4, <3>1, CountKept DEF FdInv
  <2>5. CASE cfds' = cfds + 1 /\ \E f : tcall' = [tcall EXCEPT ![i].pc = "install", ![i].opens = f]
    <3>1. tcall'[i].pc = "install" /\ \A j \in CacheSlots \ {i} : tcall'[j] = tcall[j]
      BY <1>5, <2>5 DEF TcFields
    <3>2. Opening' = Opening \cup {i} /\ i \notin Opening /\ OpenFds' = OpenFds
      BY <2>1, <3>1 DEF Opening, OpenFds
    <3>3. Cardinality(Opening \cup {i}) = Cardinality(Opening) + 1
      BY <1>2, <3>2, FS_AddElement
    <3> QED BY <1>3, <1>4, <2>2, <2>5, <3>2, <3>3 DEF FdInv
  <2> QED BY <1>6, <2>3, <2>4, <2>5 DEF DelayedOpen
<1>7. CASE InstallChildFd(i)
  <2>1. PICK f : f = tcall[i].opens
    OBVIOUS
  <2>2. /\ tcall[i].pc = "install" /\ tcall' = [tcall EXCEPT ![i].pc = "open", ![i].opens = 0]
        /\ \/ fd[f].st = "delayed" /\ fd' = [fd EXCEPT ![f].st = "open"] /\ cfds' = cfds
           \/ cfds' = cfds - 1 /\ fd' = fd
    BY <1>7, <2>1 DEF InstallChildFd, At
  <2>3. f \in CacheFds
    BY <2>1, <2>2 DEF TcInv, CallShape
  <2>4. tcall'[i].pc = "open" /\ \A j \in CacheSlots \ {i} : tcall'[j] = tcall[j]
    BY <1>5, <2>2 DEF TcFields
  <2>5. Opening' = Opening \ {i} /\ i \in Opening
    BY <2>2, <2>4 DEF Opening
  <2>6. Cardinality(Opening \ {i}) = Cardinality(Opening) - 1
    BY <1>2, <2>5, FS_RemoveElement
  <2>7. CASE cfds' = cfds - 1 /\ fd' = fd
    <3>1. OpenFds' = OpenFds /\ FdShape'
      BY <1>5, <2>7 DEF OpenFds, FdShape
    <3> QED BY <1>3, <1>4, <2>5, <2>6, <2>7, <3>1 DEF FdInv
  <2>8. CASE fd[f].st = "delayed" /\ fd' = [fd EXCEPT ![f].st = "open"] /\ cfds' = cfds
    <3>1. DOMAIN fd = CacheFds /\ {"st", "o"} \subseteq DOMAIN fd[f] /\ fd[f].o \in Objs
      BY <1>5, <2>3 DEF FdShape
    <3>2. /\ DOMAIN fd' = CacheFds /\ {"st", "o"} \subseteq DOMAIN fd'[f] /\ fd'[f].o = fd[f].o /\ fd'[f].st = "open"
          /\ \A g \in CacheFds \ {f} : fd'[g] = fd[g]
      BY <2>3, <2>8, <3>1
    <3>3. FdShape'
      BY <1>5, <3>1, <3>2 DEF FdShape
    <3>4. OpenFds' = OpenFds \cup {f} /\ f \notin OpenFds
      BY <2>3, <2>8, <3>2 DEF OpenFds
    <3>5. Cardinality(OpenFds \cup {f}) = Cardinality(OpenFds) + 1
      BY <1>2, <3>4, FS_AddElement
    <3> QED BY <1>3, <1>4, <2>5, <2>6, <2>8, <3>3, <3>4, <3>5 DEF FdInv
  <2> QED BY <2>2, <2>7, <2>8
<1> QED BY <1>6, <1>7

\* The descriptors in the child are those of the callers, after every step.
LEMMA FdNext ==
  ASSUME TcInv, FdInv, TcNext
  PROVE  FdInv'
<1>1. IsFiniteSet(CacheFds) /\ IsFiniteSet(CacheSlots)
  BY TimecacheAssumption
<1>2. IsFiniteSet(OpenFds) /\ IsFiniteSet(Opening)
  BY <1>1, FS_Subset DEF OpenFds, Opening
<1>3. Cardinality(OpenFds) \in Nat /\ Cardinality(Opening) \in Nat /\ cfds = Cardinality(OpenFds) + Cardinality(Opening)
  BY <1>2, FS_CardinalityType DEF FdInv, ChildFds, OpenFds, Opening
<1>4. ASSUME cfds' = Cardinality(OpenFds') + Cardinality(Opening') PROVE cfds' = ChildFds'
  BY <1>4 DEF ChildFds, OpenFds, Opening
<1>5. FdShape /\ 0 \notin CacheSlots
  BY TimecacheAssumption DEF FdInv
<1>6. ASSUME fd' = fd, cfds' = cfds, NoOpens(0) PROVE FdInv'
  BY <1>5, <1>6, CountKept DEF FdInv, FdShape
<1>7. tcall' = tcall => NoOpens(0)
  BY <1>5 DEF NoOpens
<1>8. ASSUME NEW f \in CacheFds, NEW e, {"st", "o"} \subseteq DOMAIN e, e.o \in Objs, fd' = [fd EXCEPT ![f] = e]
      PROVE  FdShape' /\ fd'[f] = e /\ \A g \in CacheFds \ {f} : fd'[g] = fd[g]
  <2>1. DOMAIN fd' = CacheFds /\ fd'[f] = e /\ \A g \in CacheFds \ {f} : fd'[g] = fd[g]
    BY <1>5, <1>8 DEF FdShape
  <2> QED BY <1>5, <1>8, <2>1 DEF FdShape
<1>9. ASSUME NEW f \in CacheFds, NEW o \in Objs, NEW reader \in BOOLEAN, OpenObject(f, o, reader) PROVE FdInv'
  <2>1. /\ fd[f].st = "closed" /\ tcall' = tcall
        /\ \/ fd' = [fd EXCEPT ![f] = [st |-> "delayed", o |-> o]] /\ cfds' = cfds
           \/ fd' = [fd EXCEPT ![f] = [st |-> "open", o |-> o]] /\ cfds' = cfds + 1
    BY <1>9 DEF OpenObject
  <2>2. Opening' = Opening
    BY <2>1 DEF Opening
  <2>3. CASE fd' = [fd EXCEPT ![f] = [st |-> "delayed", o |-> o]] /\ cfds' = cfds
    <3>1. PICK e : e = [st |-> "delayed", o |-> o]
      OBVIOUS
    <3>2. {"st", "o"} \subseteq DOMAIN e /\ e.o = o /\ e.st = "delayed"
      BY <3>1
    <3>3. FdShape' /\ fd'[f] = e /\ \A g \in CacheFds \ {f} : fd'[g] = fd[g]
      BY <1>8, <2>3, <3>1, <3>2
    <3>4. OpenFds' = OpenFds
      BY <2>1, <3>2, <3>3 DEF OpenFds
    <3> QED BY <1>3, <1>4, <2>2, <2>3, <3>3, <3>4 DEF FdInv
  <2>4. CASE fd' = [fd EXCEPT ![f] = [st |-> "open", o |-> o]] /\ cfds' = cfds + 1
    <3>1. PICK e : e = [st |-> "open", o |-> o]
      OBVIOUS
    <3>2. {"st", "o"} \subseteq DOMAIN e /\ e.o = o /\ e.st = "open"
      BY <3>1
    <3>3. FdShape' /\ fd'[f] = e /\ \A g \in CacheFds \ {f} : fd'[g] = fd[g]
      BY <1>8, <2>4, <3>1, <3>2
    <3>4. OpenFds' = OpenFds \cup {f} /\ f \notin OpenFds
      BY <2>1, <3>2, <3>3 DEF OpenFds
    <3>5. Cardinality(OpenFds \cup {f}) = Cardinality(OpenFds) + 1
      BY <1>2, <3>4, FS_AddElement
    <3> QED BY <1>3, <1>4, <2>2, <2>4, <3>3, <3>4, <3>5 DEF FdInv
  <2> QED BY <2>1, <2>3, <2>4
<1>10. ASSUME NEW f \in CacheFds, CloseObject(f) PROVE FdInv'
  <2>1. /\ tcall' = tcall /\ fd' = [fd EXCEPT ![f] = [st |-> "closed", o |-> Dir]]
        /\ cfds' = IF fd[f].st = "open" THEN cfds - 1 ELSE cfds
    BY <1>10 DEF CloseObject
  <2>2. Opening' = Opening
    BY <2>1 DEF Opening
  <2>3. PICK e : e = [st |-> "closed", o |-> Dir]
    OBVIOUS
  <2>4. {"st", "o"} \subseteq DOMAIN e /\ e.o \in Objs /\ e.st = "closed"
    BY <2>3 DEF Objs
  <2>5. FdShape' /\ fd'[f] = e /\ \A g \in CacheFds \ {f} : fd'[g] = fd[g]
    BY <1>8, <2>1, <2>3, <2>4
  <2>6. CASE fd[f].st = "open"
    <3>1. OpenFds' = OpenFds \ {f} /\ f \in OpenFds
      BY <2>4, <2>5, <2>6 DEF OpenFds
    <3>2. Cardinality(OpenFds \ {f}) = Cardinality(OpenFds) - 1
      BY <1>2, <3>1, FS_RemoveElement
    <3> QED BY <1>3, <1>4, <2>1, <2>2, <2>5, <2>6, <3>1, <3>2 DEF FdInv
  <2>7. CASE fd[f].st # "open"
    <3>1. OpenFds' = OpenFds
      BY <2>4, <2>5, <2>7 DEF OpenFds
    <3> QED BY <1>3, <1>4, <2>1, <2>2, <2>5, <2>7, <3>1 DEF FdInv
  <2> QED BY <2>6, <2>7
<1>11. ASSUME NEW o \in Objs, NEW k \in Keys, NEW v \in Vals, RegexSetAttrs(o, k, v) PROVE FdInv'
  <2>1. fd' = fd /\ cfds' = cfds
    BY <1>11 DEF RegexSetAttrs
  <2> QED BY <1>6, <1>11, <2>1, RegexSetKeeps
<1>12. ASSUME NEW o \in Objs, CreateObject(o) PROVE FdInv'
  <2>1. fd' = fd /\ cfds' = cfds
    BY <1>12 DEF CreateObject
  <2> QED BY <1>6, <1>12, <2>1, CreateKeeps
<1>13. CASE Expire \/ Cleanup \/ Destroy
  <2>1. fd' = fd /\ cfds' = cfds /\ tcall' = tcall
    BY <1>13 DEF Expire, Cleanup, Destroy
  <2> QED BY <1>6, <1>7, <2>1
<1>14. ASSUME NEW i \in CacheSlots, Calls(i) \/ Steps(i) PROVE FdInv'
  BY <1>14, FdKeptByCall, FdKeptByOpen
<1> QED BY <1>9, <1>10, <1>11, <1>12, <1>13, <1>14 DEF TcNext

\* Just started, or after everything was read once.
LEMMA TcStarts ==
  ASSUME TcInit
  PROVE  TcInv /\ FdInv
<1>1. PICK w \in Vals : w = CHOOSE v \in Vals : TRUE
  BY TimecacheAssumption
<1>2. PICK kk \in Keys : kk = CHOOSE k \in Keys : TRUE
  BY TimecacheAssumption
<1>3. Made = [k \in AllKeys |-> IF k = Inode THEN w ELSE None]
  BY <1>1 DEF Made, NoAttrs, AllKeys
<1>4. store = [o \in Objs |-> [k \in AllKeys |-> IF k = Inode \/ k = kk THEN w ELSE None]]
  <2>1. store = [o \in Objs |-> [Made EXCEPT ![kk] = w]]
    BY <1>1, <1>2 DEF TcInit
  <2>2. [Made EXCEPT ![kk] = w] = [k \in AllKeys |-> IF k = Inode \/ k = kk THEN w ELSE None]
    BY <1>3
  <2> QED BY <2>1, <2>2
<1>5. StoreShape
  <2>1. \A p \in Places : St(p) \in Vals \cup {None}
    BY <1>4, PlaceParts DEF St
  <2>2. DOMAIN store = Objs /\ \A o \in Objs : DOMAIN store[o] = AllKeys
    BY <1>4
  <2>3. there = Objs
    BY DEF TcInit
  <2> QED BY <2>1, <2>2, <2>3, NoLinks, PlaceParts DEF StoreShape
<1>6. CacheShape /\ \A p \in Places : Right(p)
  <2>1. CASE tree = {} /\ cache = [o \in Objs |-> Uncached]
    <3>1. /\ DOMAIN cache = Objs /\ \A o \in Objs : DOMAIN cache[o] = AllKeys
          /\ \A p \in Places : Ca(p) = NoEntry
      BY <2>1, PlaceParts DEF Uncached, Ca
    <3>2. {"v", "old", "in"} \subseteq DOMAIN NoEntry /\ NoEntry.v \in StoreVals /\ ~NoEntry.in
      BY NoLinks DEF NoEntry
    <3> QED BY <3>1, <3>2 DEF CacheShape, Right
  <2>2. CASE tree = Objs /\ cache = [o \in Objs |-> [k \in AllKeys |-> Entry(store[o][k])]]
    <3>1. /\ DOMAIN cache = Objs /\ \A o \in Objs : DOMAIN cache[o] = AllKeys
          /\ \A p \in Places : Ca(p) = Entry(St(p))
      BY <2>2, PlaceParts DEF Ca, St
    <3>2. \A v : {"v", "old", "in"} \subseteq DOMAIN Entry(v) /\ Entry(v).v = v /\ Entry(v).in
      BY DEF Entry
    <3>3. \A p \in Places : St(p) \in StoreVals
      BY <1>5 DEF StoreShape
    <3>4. \A o \in Objs : Walk(o) /\ o \in there
      BY <2>2 DEF Walk, Path, Objs, TcInit
    <3> QED BY <3>1, <3>2, <3>3, <3>4, PlaceParts DEF CacheShape, Right
  <2> QED BY <2>1, <2>2 DEF TcInit
<1>7. tcall = [i \in CacheSlots |-> TcIdle]
  BY DEF TcInit
<1>8. \A i \in CacheSlots : CallShape(tcall[i]) /\ CallTrue(tcall[i]) /\ tcall[i].pc = "idle"
  <2>1. CallTrue(TcIdle)
    BY TcIdleShape DEF CallTrue
  <2> QED BY <1>7, <2>1, TcIdleShape
<1>9. TcInv
  BY <1>5, <1>6, <1>7, <1>8 DEF TcInv, MovesAlone, CacheRight
<1>10. FdShape /\ OpenFds = {} /\ Opening = {}
  <2>1. fd = [f \in CacheFds |-> [st |-> "closed", o |-> Dir]]
    BY DEF TcInit
  <2>2. \A f \in CacheFds : {"st", "o"} \subseteq DOMAIN fd[f] /\ fd[f].o = Dir /\ fd[f].st = "closed"
    BY <2>1
  <2>3. DOMAIN fd = CacheFds
    BY <2>1
  <2> QED BY <1>8, <2>2, <2>3 DEF FdShape, OpenFds, Opening, Objs
<1>11. cfds = ChildFds
  <2>1. ChildFds = Cardinality(OpenFds) + Cardinality(Opening)
    BY DEF ChildFds, OpenFds, Opening
  <2>2. Cardinality({}) = 0 /\ cfds = 0
    BY FS_EmptySet DEF TcInit
  <2> QED BY <1>10, <2>1, <2>2
<1> QED BY <1>9, <1>10, <1>11 DEF FdInv

\* The model ends where the behaviour is undefined.
LEMMA NothingAfterUndef == TcNext => ~undef
<1>1. ASSUME NEW i \in CacheSlots, Calls(i) PROVE ~undef
  <2>1. PICK r : Start(i, r)
    BY <1>1, Zenon DEF Calls, GetAttr, SetAttr, CopyAttr, SymlinkAttr, MoveAttr, CacheAttrIter, RemoveObject, MoveObject,
                RemoveRegex, CacheNextObject
  <2> QED BY <2>1 DEF Start, TcFree
<1>2. ASSUME NEW i \in CacheSlots, Steps(i) PROVE ~undef
  <2>1. PICK pc : At(i, pc)
    <3>1. CASE Fetch(i) \/ PopulatePrefix(i) \/ PrefixPut(i) \/ DelayedOpen(i) \/ InstallChildFd(i) \/ GetChild(i)
      BY <3>1, Zenon DEF Fetch, PopulatePrefix, PrefixPut, DelayedOpen, InstallChildFd, GetChild
    <3>2. CASE GetPut(i) \/ SetChild(i) \/ SetUpdate(i) \/ CopyChild(i) \/ SymlinkChild(i) \/ DropAttr(i) \/ RenameChild(i)
      BY <3>2, Zenon DEF GetPut, SetChild, SetUpdate, CopyChild, SymlinkChild, DropAttr, RenameChild
    <3>3. CASE RenameMove(i) \/ RemoveChild(i) \/ DropObject(i) \/ MoveCached(i) \/ RegexChild(i) \/ RegexPurge(i) \/ AttrIterChild(i)
      BY <3>3 DEF RenameMove, RemoveChild, DropObject, MoveCached, RegexChild, RegexPurge, AttrIterChild
    <3> QED BY <1>2, <3>1, <3>2, <3>3 DEF Steps
  <2> QED BY <2>1 DEF At
<1>3. ASSUME NEW o \in Objs, CreateObject(o) \/ \E k \in Keys, v \in Vals : RegexSetAttrs(o, k, v) PROVE ~undef
  BY <1>3 DEF CreateObject, RegexSetAttrs
<1>4. ASSUME NEW f \in CacheFds, CloseObject(f) \/ \E o \in Objs, reader \in BOOLEAN : OpenObject(f, o, reader) PROVE ~undef
  BY <1>4 DEF CloseObject, OpenObject
<1>5. Expire \/ Cleanup \/ Destroy => ~undef
  BY DEF Expire, Cleanup, Destroy
<1> QED BY <1>1, <1>2, <1>3, <1>4, <1>5 DEF TcNext

\* A value the time cache answers is the child's unless a change in the child
\* overtook another call between its two steps, or was made in a way the cache
\* is not told of; and its descriptors in the child are its callers', however
\* many calls are on their way (ostc_get_attrs_fn, ostc_set_attrs_fn,
\* ostc_cache_process_attrs, ostc_delayed_open_object).
THEOREM CacheIsCoherent == TcInit /\ [][TcNext]_tcvars => []CoherentUnlessRaced
<1> DEFINE Inv == FdInv /\ (~undef => TcInv)
<1>1. TcInit => Inv
  BY TcStarts
<1>2. Inv /\ [TcNext]_tcvars => Inv'
  <2> SUFFICES ASSUME Inv, [TcNext]_tcvars PROVE Inv'
    OBVIOUS
  <2>1. CASE TcNext
    <3>1. ~undef
      BY <2>1, NothingAfterUndef
    <3>2. FdShape
      BY DEF FdInv
    <3> QED BY <2>1, <3>1, <3>2, FdNext, TcNextKeeps
  <2>2. CASE UNCHANGED tcvars
    <3>1. ~undef => TcInv'
      BY <2>2, OthersKeep DEF tcvars
    <3>2. FdInv' /\ undef' = undef
      BY <2>2 DEF tcvars, FdInv, FdShape, ChildFds
    <3> QED BY <3>1, <3>2
  <2> QED BY <2>1, <2>2
<1>3. Inv => CoherentUnlessRaced
  <2> SUFFICES ASSUME Inv PROVE CoherentUnlessRaced
    OBVIOUS
  <2>1. ASSUME ~undef, NEW p \in Places, cache[p[1]][p[2]].in, p \notin suspect, ~InFlight(p)
        PROVE  store[p[1]][p[2]] = cache[p[1]][p[2]].v
    <3>1. TcInv
      BY <2>1
    <3>2. \A i \in CacheSlots : p \notin Changed(tcall[i])
      BY <2>1, <3>1, OnItsWay DEF InFlight, TcInv
    <3>3. Right(p)
      BY <2>1, <3>1, <3>2 DEF TcInv, CacheRight
    <3> QED BY <2>1, <3>3 DEF Right, Ca, St
  <2> QED BY <2>1 DEF CoherentUnlessRaced, FdInv
<1> QED BY <1>1, <1>2, <1>3, PTL

-----------------------------------------------------------------------------
(* Listings read back over the network.                                    *)

(* The types of the iterators, the streams and the server's handlers.      *)
Tags == {"status", "obj", "attr", "bad", "null"}
Items == Tags \X Nat
Iters == [kind : Kinds \cup {"none"}, read : Nat, more : BOOLEAN, over : BOOLEAN, crashed : BOOLEAN,
          got : Seq(Items), end : {"no", "wait", "end", "error"}]
Pipes == [out : Seq(Items), broken : BOOLEAN]
Serves == [at : {"idle", "request", "list"}, sent : Nat]
StreamTyped ==
  iter \in [Clients -> Iters] /\ pipe \in [Clients -> Pipes] /\ serve \in [Clients -> Serves]

(* The attributes that follow an entry of an alist iterator, and the item  *)
(* that opens an entry of each kind of iterator.                           *)
Width(kind) == IF kind = "alist" THEN MaxAttrs ELSE 0
Tag(kind) == CASE kind = "attrs" -> "attr" [] kind = "fsck" -> "bad" [] OTHER -> "obj"

(* After r items of the stream the reader stands between two entries, k of *)
(* them behind it: the next item opens entry k + 1, whose attributes are   *)
(* all sent, or is the null that ends the stream, or has not been sent.    *)
Boundary(kind, p, s, r, k) ==
  /\ r \in 1 .. Len(p.out)
  /\ r = Len(p.out) => k = s.sent /\ (s.at = "idle" => p.broken)
  /\ r < Len(p.out) =>
       \/ p.out[r + 1] = <<Tag(kind), k + 1>> /\ r + 1 + Width(kind) <= Len(p.out)
       \/ p.out[r + 1] = Null /\ Len(p.out) = r + 1 /\ k = s.sent /\ s.at = "idle"

(* After r items the reader is within entry k of an aregex iterator, whose *)
(* attributes end with a null of their own.                                *)
Inside(kind, p, s, r, k) ==
  /\ r \in 2 .. Len(p.out) - 1
  /\ \/ p.out[r + 1] = <<"attr", k>>
     \/ p.out[r + 1] = Null /\ Boundary(kind, p, s, r + 1, k)

(* Every item of the stream leaves the reader at the place the next one    *)
(* needs.                                                                  *)
Flow(kind, p, s) ==
  /\ Boundary(kind, p, s, 1, 0)
  /\ \A j \in 2 .. Len(p.out) :
       IF kind = "aregex"
       THEN p.out[j][1] \in {"obj", "attr"} => Inside(kind, p, s, j, p.out[j][2])
       ELSE p.out[j][1] = Tag(kind) => Boundary(kind, p, s, j + Width(kind), p.out[j][2])

(* What the server has sent: nothing, a failure, or a stream that flows.   *)
Sending(kind, p, s, end) ==
  /\ p.out = <<>> => s.sent = 0 /\ end = "wait" /\ (~p.broken => s.at = "request")
  /\ s.at = "request" => p.out = <<>>
  /\ p.out # <<>> => \/ p.out[1] = <<"status", 0>> /\ s.at = "idle" /\ end = "wait"
                     \/ p.out[1] = <<"status", 1>> /\ Flow(kind, p, s)

(* What the client has read: where the last entry it was given left it.    *)
AtEntry(i, p, s) == Boundary(i.kind, p, s, i.read, LastNum(i.got))
AtAttr(i, p, s) == i.got # <<>> /\ Inside(i.kind, p, s, i.read, LastNum(i.got))
Reading(i, p, s) ==
  /\ i.end = "wait" => i.read = 0 /\ i.got = <<>> /\ i.more = (i.kind = "attrs")
  /\ i.end = "no" /\ i.kind = "aregex" =>
       IF i.more THEN AtAttr(i, p, s) ELSE AtEntry(i, p, s) \/ (p.broken /\ i.read = Len(p.out))
  /\ i.end = "no" /\ i.kind # "aregex" => AtEntry(i, p, s) \/ (i.kind = "attrs" /\ ~i.more)
  /\ i.end = "end" /\ ~p.broken => LastNum(i.got) = s.sent /\ s.at = "idle"
  /\ InOrder(i.kind, i.got)

(* The inductive invariant.                                                *)
ClientOK(i, p, s) ==
  IF i.kind = "none" THEN i = NoIter ELSE Sending(i.kind, p, s, i.end) /\ Reading(i, p, s)
StreamInv == StreamTyped /\ \A c \in Clients : ClientOK(iter[c], pipe[c], serve[c])

-----------------------------------------------------------------------------

LEMMA ItemsAre ==
  /\ Null \in Items /\ <<"status", 0>> \in Items /\ <<"status", 1>> \in Items
  /\ \A t \in Tags, k \in Nat : <<t, k>> \in Items
  /\ \A x \in Items : x[1] \in Tags /\ x[2] \in Nat /\ x = <<x[1], x[2]>>
  /\ MaxAttrs \in Nat
BY StreamAssumption DEF Items, Tags, Null

LEMMA KindsAre ==
  ASSUME NEW kind \in Kinds
  PROVE  Width(kind) \in Nat /\ Tag(kind) \in {"obj", "attr", "bad"}
BY ItemsAre DEF Width, Tag, Kinds

LEMMA FlowKept ==
  ASSUME NEW kind \in Kinds, NEW p \in Pipes, NEW q \in Pipes, NEW s \in Serves, NEW u \in Serves,
         q.out = p.out, u.sent = s.sent, p.broken => q.broken,
         u.at = "idle" /\ s.at # "idle" => q.broken, s.at = "idle" => u.at = "idle"
  PROVE  /\ \A r, k : Boundary(kind, p, s, r, k) => Boundary(kind, q, u, r, k)
         /\ \A r, k : Inside(kind, p, s, r, k) => Inside(kind, q, u, r, k)
         /\ Flow(kind, p, s) => Flow(kind, q, u)
<1>1. \A r, k : Boundary(kind, p, s, r, k) => Boundary(kind, q, u, r, k)
  BY DEF Boundary
<1>2. \A r, k : Inside(kind, p, s, r, k) => Inside(kind, q, u, r, k)
  BY <1>1 DEF Inside
<1> QED BY <1>1, <1>2 DEF Flow

LEMMA Joined ==
  ASSUME NEW a \in Seq(Items), NEW b \in Seq(Items)
  PROVE  /\ a \o b \in Seq(Items) /\ Len(a \o b) = Len(a) + Len(b)
         /\ \A j \in 1 .. Len(a) : (a \o b)[j] = a[j]
         /\ \A j \in 1 .. Len(b) : (a \o b)[Len(a) + j] = b[j]
OBVIOUS

LEMMA FlowEnds ==
  ASSUME NEW kind \in Kinds, NEW p \in Pipes, NEW q \in Pipes, NEW s \in Serves, NEW u \in Serves,
         q.out = p.out \o <<Null>>, u.sent = s.sent, s.at = "list", u.at = "idle"
  PROVE  /\ \A r, k : Boundary(kind, p, s, r, k) => Boundary(kind, q, u, r, k)
         /\ \A r, k : Inside(kind, p, s, r, k) => Inside(kind, q, u, r, k)
         /\ Flow(kind, p, s) => Flow(kind, q, u)
<1>0. /\ <<Null>> \in Seq(Items) /\ Len(q.out) = Len(p.out) + 1 /\ p.out \in Seq(Items)
      /\ q.out[Len(p.out) + 1] = Null /\ \A j \in 1 .. Len(p.out) : q.out[j] = p.out[j]
  BY ItemsAre DEF Pipes
<1>1. ASSUME NEW r, NEW k, Boundary(kind, p, s, r, k) PROVE Boundary(kind, q, u, r, k)
  BY <1>0, <1>1, KindsAre DEF Boundary
<1>2. ASSUME NEW r, NEW k, Inside(kind, p, s, r, k) PROVE Inside(kind, q, u, r, k)
  <2>1. r \in 2 .. Len(p.out) - 1
    BY <1>2 DEF Inside
  <2>2. Len(p.out) \in Nat
    BY <1>0
  <2>3. r + 1 \in 1 .. Len(p.out) /\ r \in 2 .. Len(q.out) - 1
    BY <1>0, <2>1, <2>2
  <2>4. q.out[r + 1] = p.out[r + 1]
    BY <1>0, <2>3
  <2> QED BY <1>1, <1>2, <2>3, <2>4 DEF Inside
<1>3. ASSUME Flow(kind, p, s) PROVE Flow(kind, q, u)
  <2>1. Null[1] \notin {"obj", "attr", "bad"} /\ Tag(kind) \in {"obj", "attr", "bad"}
    BY KindsAre DEF Null
  <2>2. \A j \in 2 .. Len(q.out) : q.out[j][1] \in {"obj", "attr", "bad"} => j \in 2 .. Len(p.out) /\ q.out[j] = p.out[j]
    BY <1>0, <2>1
  <2> QED BY <1>1, <1>2, <1>3, <2>1, <2>2 DEF Flow
<1> QED BY <1>1, <1>2, <1>3

(* What one item adds to a stream.                                         *)
Grown(kind, o, o2, n) ==
  /\ Len(o) + 1 + Width(kind) <= Len(o2)
  /\ \A j \in 1 .. Len(o) : o2[j] = o[j]
  /\ o2[Len(o) + 1] = <<Tag(kind), n + 1>>
  /\ IF kind = "aregex"
     THEN /\ Len(o) + 1 < Len(o2) /\ o2[Len(o2)] = Null
          /\ \A j \in Len(o) + 2 .. Len(o2) - 1 : o2[j] = <<"attr", n + 1>>
     ELSE /\ Len(o2) = Len(o) + 1 + Width(kind)
          /\ \A j \in Len(o) + 2 .. Len(o2) : o2[j][1] # Tag(kind)

LEMMA FlowGrows ==
  ASSUME NEW kind \in Kinds, NEW p \in Pipes, NEW q \in Pipes, NEW s \in Serves, NEW u \in Serves,
         Grown(kind, p.out, q.out, s.sent), u.sent = s.sent + 1, s.at = "list", u.at = "list"
  PROVE  /\ \A r, k : Boundary(kind, p, s, r, k) => Boundary(kind, q, u, r, k)
         /\ \A r, k : Inside(kind, p, s, r, k) => Inside(kind, q, u, r, k)
         /\ Flow(kind, p, s) => Flow(kind, q, u)
<1>0. Len(p.out) \in Nat /\ Len(q.out) \in Nat /\ Width(kind) \in Nat /\ s.sent \in Nat
  BY KindsAre DEF Pipes, Serves
<1> DEFINE o == p.out
           o2 == q.out
           L == Len(o)
           M == Len(o2)
<1>g. /\ L + 1 + Width(kind) <= M
      /\ \A j \in 1 .. L : o2[j] = o[j]
      /\ o2[L + 1] = <<Tag(kind), s.sent + 1>>
  BY DEF Grown
<1>1. ASSUME NEW r, NEW k, Boundary(kind, p, s, r, k) PROVE Boundary(kind, q, u, r, k)
  <2>1. r \in 1 .. L
    BY <1>1 DEF Boundary
  <2>2. CASE r = L
    BY <1>0, <1>g, <1>1, <2>1, <2>2 DEF Boundary
  <2>3. CASE r < L
    <3>1. o[r + 1] = <<Tag(kind), k + 1>> /\ r + 1 + Width(kind) <= L
      BY <1>1, <2>3 DEF Boundary
    <3>2. r + 1 \in 1 .. L
      BY <1>0, <2>1, <2>3
    <3>3. o2[r + 1] = o[r + 1]
      BY <1>g, <3>2
    <3> QED BY <1>0, <1>g, <2>1, <2>3, <3>1, <3>3 DEF Boundary
  <2> QED BY <1>0, <2>1, <2>2, <2>3
<1>2. ASSUME NEW r, NEW k, Inside(kind, p, s, r, k) PROVE Inside(kind, q, u, r, k)
  <2>1. r \in 2 .. L - 1
    BY <1>2 DEF Inside
  <2>2. r + 1 \in 1 .. L /\ r \in 2 .. M - 1
    BY <1>0, <1>g, <2>1
  <2>3. o2[r + 1] = o[r + 1]
    BY <1>g, <2>2
  <2> QED BY <1>1, <1>2, <2>2, <2>3 DEF Inside
<1>3. ASSUME Flow(kind, p, s) PROVE Flow(kind, q, u)
  <2>0. L >= 1
    BY <1>0, <1>3 DEF Flow, Boundary
  <2>1. Boundary(kind, q, u, 1, 0)
    BY <1>1, <1>3 DEF Flow
  <2>2. Boundary(kind, q, u, M, s.sent + 1)
    BY <1>0, <1>g, <2>0 DEF Boundary
  <2>3. ASSUME NEW j \in L + 1 .. M, kind = "aregex", o2[j][1] \in {"obj", "attr"}
        PROVE  Inside(kind, q, u, j, o2[j][2])
    <3>1. /\ o2[M] = Null /\ L + 1 < M
          /\ \A x \in L + 2 .. M - 1 : o2[x] = <<"attr", s.sent + 1>>
      BY <2>3 DEF Grown
    <3>2. j # M
      BY <2>3, <3>1 DEF Null
    <3>3. o2[j][2] = s.sent + 1
      <4>1. CASE j = L + 1
        BY <4>1, <1>g
      <4>2. CASE j # L + 1
        <5>1. j \in L + 2 .. M - 1
          BY <4>2, <3>2, <1>0
        <5> QED BY <5>1, <3>1
      <4> QED BY <4>1, <4>2
    <3>4. (o2[j + 1] = Null /\ j + 1 = M) \/ o2[j + 1] = <<"attr", s.sent + 1>>
      <4>1. CASE j + 1 = M
        BY <4>1, <3>1
      <4>2. CASE j + 1 # M
        <5>1. j + 1 \in L + 2 .. M - 1
          BY <4>2, <3>2, <1>0
        <5> QED BY <5>1, <3>1
      <4> QED BY <4>1, <4>2
    <3>5. j \in 2 .. M - 1
      BY <1>0, <2>0, <3>2
    <3> QED BY <2>2, <3>3, <3>4, <3>5 DEF Inside
  <2>4. ASSUME NEW j \in L + 1 .. M, kind # "aregex", o2[j][1] = Tag(kind)
        PROVE  Boundary(kind, q, u, j + Width(kind), o2[j][2])
    <3>1. M = L + 1 + Width(kind) /\ \A x \in L + 2 .. M : o2[x][1] # Tag(kind)
      BY <2>4 DEF Grown
    <3>2. j = L + 1
      BY <1>0, <2>4, <3>1
    <3>3. j + Width(kind) = M /\ o2[j][2] = s.sent + 1
      BY <1>0, <1>g, <3>1, <3>2
    <3> QED BY <2>2, <3>3
  <2>5. ASSUME NEW j \in 2 .. L
        PROVE  IF kind = "aregex"
               THEN o2[j][1] \in {"obj", "attr"} => Inside(kind, q, u, j, o2[j][2])
               ELSE o2[j][1] = Tag(kind) => Boundary(kind, q, u, j + Width(kind), o2[j][2])
    <3>1. o2[j] = o[j]
      BY <1>0, <1>g
    <3> QED BY <1>1, <1>2, <1>3, <3>1 DEF Flow
  <2>6. \A j \in 2 .. M : j \in 2 .. L \/ j \in L + 1 .. M
    BY <1>0
  <2> QED BY <2>1, <2>3, <2>4, <2>5, <2>6 DEF Flow
<1> QED BY <1>1, <1>2, <1>3

LEMMA ItemGrows ==
  ASSUME NEW kind \in Kinds, NEW o \in Seq(Items), NEW x \in Seq(Items), NEW n \in Nat,
         Len(x) >= 1 + Width(kind), x[1] = <<Tag(kind), n + 1>>,
         IF kind = "aregex"
         THEN Len(x) > 1 /\ x[Len(x)] = Null /\ \A j \in 2 .. Len(x) - 1 : x[j] = <<"attr", n + 1>>
         ELSE Len(x) = 1 + Width(kind) /\ \A j \in 2 .. Len(x) : x[j][1] # Tag(kind)
  PROVE  Grown(kind, o, o \o x, n) /\ o \o x \in Seq(Items)
<1> DEFINE o2 == o \o x
           L == Len(o)
           M == Len(o2)
<1>1. L \in Nat /\ Len(x) \in Nat /\ Width(kind) \in Nat /\ M = L + Len(x) /\ o2 \in Seq(Items)
  BY KindsAre, Joined
<1>2. (\A j \in 1 .. L : o2[j] = o[j]) /\ \A j \in 1 .. Len(x) : o2[L + j] = x[j]
  BY Joined
<1> HIDE DEF o2, L, M
<1>3. \A j \in L + 1 .. M : j - L \in 1 .. Len(x) /\ o2[j] = x[j - L]
  <2> TAKE j \in L + 1 .. M
  <2>1. j - L \in 1 .. Len(x) /\ L + (j - L) = j
    BY <1>1
  <2> QED BY <1>2, <2>1
<1>4. o2[L + 1] = <<Tag(kind), n + 1>>
  <2>1. 1 \in 1 .. Len(x)
    BY <1>1
  <2> QED BY <2>1, <1>2
<1>5. ASSUME kind = "aregex"
      PROVE  /\ L + 1 < M /\ o2[M] = Null
             /\ \A j \in L + 2 .. M - 1 : o2[j] = <<"attr", n + 1>>
  <2>1. L + 1 < M /\ M - L = Len(x) /\ M \in L + 1 .. M
    BY <1>1, <1>5
  <2>2. o2[M] = Null
    BY <1>3, <1>5, <2>1
  <2>3. ASSUME NEW j \in L + 2 .. M - 1 PROVE o2[j] = <<"attr", n + 1>>
    <3>1. j \in L + 1 .. M /\ j - L \in 2 .. Len(x) - 1
      BY <1>1, <2>1
    <3> QED BY <1>3, <1>5, <3>1
  <2> QED BY <2>1, <2>2, <2>3
<1>6. ASSUME kind # "aregex"
      PROVE  M = L + 1 + Width(kind) /\ \A j \in L + 2 .. M : o2[j][1] # Tag(kind)
  <2>0. Len(x) = 1 + Width(kind)
    BY <1>6
  <2>1. M = L + 1 + Width(kind)
    BY <1>1, <2>0
  <2>2. ASSUME NEW j \in L + 2 .. M PROVE o2[j][1] # Tag(kind)
    <3>1. j \in L + 1 .. M /\ j - L \in 2 .. Len(x)
      BY <1>1
    <3> QED BY <1>3, <1>6, <3>1
  <2> QED BY <2>1, <2>2
<1>7. L + 1 + Width(kind) <= M
  BY <1>1
<1>8. Grown(kind, o, o2, n)
  BY <1>2, <1>4, <1>5, <1>6, <1>7 DEF Grown, L, M
<1> QED BY <1>1, <1>8 DEF o2

(* A step of the server, or a break, as the client sees it.                *)
LEMMA ReadingKept ==
  ASSUME NEW i \in Iters, NEW p \in Pipes, NEW q \in Pipes, NEW s \in Serves, NEW u \in Serves,
         \A r, k : Boundary(i.kind, p, s, r, k) => Boundary(i.kind, q, u, r, k),
         \A r, k : Inside(i.kind, p, s, r, k) => Inside(i.kind, q, u, r, k),
         p.broken => q.broken /\ q.out = p.out,
         s.at # "list" \/ q.broken => u.sent = s.sent /\ (s.at = "idle" => u.at = "idle"),
         Reading(i, p, s)
  PROVE  Reading(i, q, u)
<1>1. AtEntry(i, p, s) => AtEntry(i, q, u)
  BY DEF AtEntry
<1>2. AtAttr(i, p, s) => AtAttr(i, q, u)
  BY DEF AtAttr
<1>3. i.end = "end" /\ ~q.broken => LastNum(i.got) = u.sent /\ u.at = "idle"
  BY DEF Reading
<1>4. p.broken /\ i.read = Len(p.out) => q.broken /\ i.read = Len(q.out)
  OBVIOUS
<1> QED BY <1>1, <1>2, <1>3, <1>4 DEF Reading

LEMMA OneClient ==
  ASSUME StreamInv, NEW c \in Clients, NEW i \in Iters, NEW p \in Pipes, NEW s \in Serves,
         iter' = [iter EXCEPT ![c] = i], pipe' = [pipe EXCEPT ![c] = p], serve' = [serve EXCEPT ![c] = s],
         ClientOK(i, p, s)
  PROVE  StreamInv'
<1>1. StreamTyped'
  BY DEF StreamInv, StreamTyped
<1>2. ASSUME NEW d \in Clients PROVE ClientOK(iter'[d], pipe'[d], serve'[d])
  <2>1. CASE d = c
    BY <2>1 DEF StreamInv, StreamTyped
  <2>2. CASE d # c
    BY <2>2 DEF StreamInv, StreamTyped
  <2> QED BY <2>1, <2>2
<1> QED BY <1>1, <1>2 DEF StreamInv

LEMMA StreamTypes ==
  ASSUME StreamInv, NEW c \in Clients
  PROVE  /\ iter[c] \in Iters /\ pipe[c] \in Pipes /\ serve[c] \in Serves
         /\ ClientOK(iter[c], pipe[c], serve[c])
         /\ iter = [iter EXCEPT ![c] = iter[c]] /\ pipe = [pipe EXCEPT ![c] = pipe[c]]
         /\ serve = [serve EXCEPT ![c] = serve[c]]
BY DEF StreamInv, StreamTyped

LEMMA NoIterOK == NoIter \in Iters /\ NoIter.kind = "none" /\ \A p, s : ClientOK(NoIter, p, s)
<1>1. <<>> \in Seq(Items)
  OBVIOUS
<1> QED BY <1>1 DEF NoIter, Iters, ClientOK

-----------------------------------------------------------------------------
(* The server.                                                             *)

LEMMA ServeStartInv ==
  ASSUME StreamInv, NEW c \in Clients, ServeStart(c)
  PROVE  StreamInv'
<1> DEFINE i == iter[c]
           p == pipe[c]
           s == serve[c]
<1>1. PICK ok \in BOOLEAN : Write(c, <<<<"status", IF ok THEN 1 ELSE 0>>>>)
                            /\ serve' = [serve EXCEPT ![c].at = IF ok THEN "list" ELSE "idle"]
  BY DEF ServeStart
<1>2. s.at = "request" /\ UNCHANGED iter
  BY DEF ServeStart
<1>3. /\ i \in Iters /\ p \in Pipes /\ s \in Serves /\ ClientOK(i, p, s)
      /\ iter' = [iter EXCEPT ![c] = i]
  BY <1>2, StreamTypes
<1> DEFINE x == <<"status", IF ok THEN 1 ELSE 0>>
           q == [p EXCEPT !.out = IF p.broken THEN p.out ELSE p.out \o <<x>>]
           u == [s EXCEPT !.at = IF ok THEN "list" ELSE "idle"]
<1>4. pipe' = [pipe EXCEPT ![c] = q] /\ serve' = [serve EXCEPT ![c] = u]
  BY <1>1 DEF Write
<1>5. x \in Items /\ p.out \in Seq(Items) /\ <<x>> \in Seq(Items)
  BY <1>3, ItemsAre DEF Pipes
<1>6. q \in Pipes /\ u \in Serves /\ u.sent = s.sent /\ q.broken = p.broken
      /\ u.at = IF ok THEN "list" ELSE "idle"
  <2>1. p.out \o <<x>> \in Seq(Items)
    BY <1>5, Joined
  <2>2. q \in Pipes /\ q.broken = p.broken
    BY <1>3, <1>5, <2>1 DEF Pipes
  <2> QED BY <1>3, <2>2 DEF Serves
<1>7. CASE i.kind = "none"
  <2>1. i = NoIter
    BY <1>3, <1>7 DEF ClientOK
  <2> QED BY <1>3, <1>4, <1>6, <2>1, OneClient, NoIterOK
<1>8. CASE i.kind # "none"
  <2>1. Sending(i.kind, p, s, i.end) /\ Reading(i, p, s) /\ i.kind \in Kinds
    BY <1>3, <1>8 DEF ClientOK, Iters
  <2>2. p.out = <<>> /\ s.sent = 0 /\ i.end = "wait"
    BY <1>2, <2>1 DEF Sending
  <2>3. Reading(i, q, u)
    BY <2>1, <2>2 DEF Reading
  <2>4. CASE p.broken
    <3>1. q.out = <<>>
      BY <1>3, <2>2, <2>4 DEF Pipes
    <3>2. Sending(i.kind, q, u, i.end)
      BY <1>6, <2>2, <2>4, <3>1 DEF Sending
    <3> QED BY <1>3, <1>4, <1>6, <1>8, <2>3, <3>2, OneClient DEF ClientOK
  <2>5. CASE ~p.broken
    <3>1. q.out = <<x>>
      BY <1>3, <1>5, <2>2, <2>5 DEF Pipes
    <3>2. Len(q.out) = 1 /\ q.out[1] = x /\ q.out # <<>>
      BY <3>1
    <3>3. ok => Flow(i.kind, q, u)
      BY <1>6, <2>2, <3>2 DEF Flow, Boundary
    <3>4. Sending(i.kind, q, u, i.end)
      BY <1>6, <2>2, <3>2, <3>3 DEF Sending
    <3> QED BY <1>3, <1>4, <1>6, <1>8, <2>3, <3>4, OneClient DEF ClientOK
  <2> QED BY <2>4, <2>5
<1> QED BY <1>7, <1>8

LEMMA ServeItemInv ==
  ASSUME StreamInv, NEW c \in Clients, NEW x \in Seq(Items), iter[c].kind \in Kinds,
         ServeItem(c, x), Len(x) >= 1 + Width(iter[c].kind), x[1] = <<Tag(iter[c].kind), serve[c].sent + 1>>,
         IF iter[c].kind = "aregex"
         THEN Len(x) > 1 /\ x[Len(x)] = Null /\ \A j \in 2 .. Len(x) - 1 : x[j] = <<"attr", serve[c].sent + 1>>
         ELSE Len(x) = 1 + Width(iter[c].kind) /\ \A j \in 2 .. Len(x) : x[j][1] # Tag(iter[c].kind)
  PROVE  StreamInv'
<1> DEFINE i == iter[c]
           p == pipe[c]
           s == serve[c]
           q == [p EXCEPT !.out = p.out \o x]
           u == [s EXCEPT !.sent = s.sent + 1]
<1>1. s.at = "list" /\ ~p.broken /\ UNCHANGED iter
  BY DEF ServeItem
<1>2. pipe' = [pipe EXCEPT ![c] = q] /\ serve' = [serve EXCEPT ![c] = u]
  BY <1>1 DEF ServeItem, Write
<1>3. /\ i \in Iters /\ p \in Pipes /\ s \in Serves /\ ClientOK(i, p, s)
      /\ iter' = [iter EXCEPT ![c] = i]
  BY <1>1, StreamTypes
<1>4. p.out \in Seq(Items) /\ s.sent \in Nat
  BY <1>3 DEF Pipes, Serves
<1>5. Grown(i.kind, p.out, p.out \o x, s.sent) /\ p.out \o x \in Seq(Items)
  BY <1>4, ItemGrows
<1>6. /\ q \in Pipes /\ u \in Serves /\ q.out = p.out \o x /\ q.broken = p.broken
      /\ u.sent = s.sent + 1 /\ u.at = s.at
  <2>1. q \in Pipes /\ q.out = p.out \o x /\ q.broken = p.broken
    BY <1>3, <1>5 DEF Pipes
  <2>2. u \in Serves /\ u.sent = s.sent + 1 /\ u.at = s.at
    BY <1>3, <1>4 DEF Serves
  <2> QED BY <2>1, <2>2
<1>7. Sending(i.kind, p, s, i.end) /\ Reading(i, p, s)
  BY <1>3 DEF ClientOK, Kinds
<1>8. p.out # <<>> /\ p.out[1] = <<"status", 1>> /\ Flow(i.kind, p, s)
  BY <1>1, <1>7 DEF Sending
<1> HIDE DEF i, p, s, q, u
<1>9. /\ \A r, k : Boundary(i.kind, p, s, r, k) => Boundary(i.kind, q, u, r, k)
      /\ \A r, k : Inside(i.kind, p, s, r, k) => Inside(i.kind, q, u, r, k)
      /\ Flow(i.kind, q, u)
  <2>1. i.kind \in Kinds
    BY DEF i
  <2> QED BY <1>1, <1>3, <1>5, <1>6, <1>8, <2>1, FlowGrows
<1>10. Reading(i, q, u)
  BY <1>1, <1>3, <1>6, <1>7, <1>9, ReadingKept
<1>11. q.out # <<>> /\ q.out[1] = p.out[1]
  <2>1. Len(p.out) >= 1
    BY <1>4, <1>8
  <2> QED BY <1>4, <1>5, <1>6, <2>1 DEF Grown
<1>12. Sending(i.kind, q, u, i.end)
  BY <1>1, <1>6, <1>8, <1>9, <1>11 DEF Sending
<1>13. ClientOK(i, q, u)
  BY <1>7, <1>10, <1>12, NoIterOK, <1>3 DEF ClientOK, i, Kinds
<1> QED BY <1>2, <1>3, <1>6, <1>13, OneClient

LEMMA ServeEndInv ==
  ASSUME StreamInv, NEW c \in Clients, ServeEnd(c)
  PROVE  StreamInv'
<1> DEFINE i == iter[c]
           p == pipe[c]
           s == serve[c]
           q == [p EXCEPT !.out = IF p.broken THEN p.out ELSE p.out \o <<Null>>]
           u == [s EXCEPT !.at = "idle"]
<1>1. s.at = "list" /\ UNCHANGED iter
  BY DEF ServeEnd
<1>2. pipe' = [pipe EXCEPT ![c] = q] /\ serve' = [serve EXCEPT ![c] = u]
  BY <1>1 DEF ServeEnd, Write
<1>3. /\ i \in Iters /\ p \in Pipes /\ s \in Serves /\ ClientOK(i, p, s)
      /\ iter' = [iter EXCEPT ![c] = i]
  BY <1>1, StreamTypes
<1>4. p.out \in Seq(Items) /\ <<Null>> \in Seq(Items)
  BY <1>3, ItemsAre DEF Pipes
<1>5. p.out \o <<Null>> \in Seq(Items)
  BY <1>4, Joined
<1>6. /\ q \in Pipes /\ u \in Serves /\ q.broken = p.broken
      /\ q.out = IF p.broken THEN p.out ELSE p.out \o <<Null>>
      /\ u.sent = s.sent /\ u.at = "idle"
  BY <1>3, <1>5 DEF Pipes, Serves
<1> HIDE DEF i, p, s, q, u
<1>7. CASE i.kind = "none"
  <2>1. i = NoIter
    BY <1>3, <1>7 DEF ClientOK
  <2> QED BY <1>2, <1>3, <1>6, <2>1, OneClient, NoIterOK
<1>8. CASE i.kind # "none"
  <2>1. Sending(i.kind, p, s, i.end) /\ Reading(i, p, s) /\ i.kind \in Kinds
    BY <1>3, <1>8 DEF ClientOK, Iters
  <2>2. /\ \A r, k : Boundary(i.kind, p, s, r, k) => Boundary(i.kind, q, u, r, k)
        /\ \A r, k : Inside(i.kind, p, s, r, k) => Inside(i.kind, q, u, r, k)
        /\ Flow(i.kind, p, s) => Flow(i.kind, q, u)
    <3>1. CASE p.broken
      BY <1>1, <1>3, <1>6, <2>1, <3>1, FlowKept
    <3>2. CASE ~p.broken
      BY <1>1, <1>3, <1>6, <2>1, <3>2, FlowEnds
    <3> QED BY <3>1, <3>2
  <2>3. Reading(i, q, u)
    BY <1>1, <1>3, <1>6, <2>1, <2>2, ReadingKept
  <2>4. p.out = <<>> => q.out = <<>>
    BY <1>1, <1>6, <2>1 DEF Sending
  <2>5. p.out # <<>> => q.out # <<>> /\ q.out[1] = p.out[1]
    <3>1. p.out # <<>> => Len(p.out) >= 1
      BY <1>4
    <3> QED BY <1>4, <1>6, <3>1, Joined
  <2>6. Sending(i.kind, q, u, i.end)
    BY <1>1, <1>6, <2>1, <2>2, <2>4, <2>5 DEF Sending
  <2> QED BY <1>2, <1>3, <1>6, <1>8, <2>3, <2>6, OneClient DEF ClientOK
<1> QED BY <1>7, <1>8

LEMMA StreamBreaksInv ==
  ASSUME StreamInv, NEW c \in Clients, StreamBreaks(c)
  PROVE  StreamInv'
<1> DEFINE i == iter[c]
           p == pipe[c]
           s == serve[c]
           q == [p EXCEPT !.broken = TRUE]
<1>1. i.kind # "none" /\ pipe' = [pipe EXCEPT ![c] = q] /\ UNCHANGED <<iter, serve>>
  BY DEF StreamBreaks
<1>2. /\ i \in Iters /\ p \in Pipes /\ s \in Serves /\ ClientOK(i, p, s)
      /\ iter' = [iter EXCEPT ![c] = i] /\ serve' = [serve EXCEPT ![c] = s]
  BY <1>1, StreamTypes
<1>3. q \in Pipes /\ q.out = p.out /\ q.broken
  BY <1>2 DEF Pipes
<1> HIDE DEF i, p, s, q
<1>4. Sending(i.kind, p, s, i.end) /\ Reading(i, p, s) /\ i.kind \in Kinds
  BY <1>1, <1>2 DEF ClientOK, Iters
<1>5. /\ \A r, k : Boundary(i.kind, p, s, r, k) => Boundary(i.kind, q, s, r, k)
      /\ \A r, k : Inside(i.kind, p, s, r, k) => Inside(i.kind, q, s, r, k)
      /\ Flow(i.kind, p, s) => Flow(i.kind, q, s)
  BY <1>2, <1>3, <1>4, FlowKept
<1>6. Reading(i, q, s)
  BY <1>2, <1>3, <1>4, <1>5, ReadingKept
<1>7. Sending(i.kind, q, s, i.end)
  BY <1>3, <1>4, <1>5 DEF Sending
<1> QED BY <1>1, <1>2, <1>3, <1>6, <1>7, OneClient DEF ClientOK

(* The items of each kind of listing.                                      *)
LEMMA ValuesAre ==
  ASSUME NEW k \in Nat, NEW n \in Nat
  PROVE  /\ Values(k, n) \in Seq(Items) /\ Len(Values(k, n)) = n
         /\ \A j \in 1 .. n : Values(k, n)[j] = <<"attr", k>>
<1> DEFINE e == <<"attr", k>>
<1>1. e \in Items
  BY ItemsAre DEF Tags
<1>2. Values(k, n) = [j \in 1 .. n |-> e]
  BY DEF Values
<1> HIDE DEF e
<1>3. Values(k, n) \in Seq(Items) /\ Len(Values(k, n)) = n /\ \A j \in 1 .. n : Values(k, n)[j] = e
  BY <1>1, <1>2
<1> QED BY <1>3 DEF e

LEMMA EntryItem ==
  ASSUME NEW t \in Tags, NEW k \in Nat, NEW v \in Seq(Items)
  PROVE  LET x == <<<<t, k>>>> \o v
         IN  /\ x \in Seq(Items) /\ Len(x) = 1 + Len(v) /\ x[1] = <<t, k>>
             /\ \A j \in 2 .. Len(x) : j - 1 \in 1 .. Len(v) /\ x[j] = v[j - 1]
<1> DEFINE e == <<t, k>>
           x == <<e>> \o v
<1>1. e \in Items
  BY ItemsAre
<1> HIDE DEF e
<1>2. <<e>> \in Seq(Items) /\ Len(<<e>>) = 1 /\ <<e>>[1] = e
  BY <1>1
<1>3. x \in Seq(Items) /\ Len(x) = 1 + Len(v) /\ x[1] = e /\ \A j \in 1 .. Len(v) : x[1 + j] = v[j]
  BY <1>2, Joined
<1> HIDE DEF x
<1>4. ASSUME NEW j \in 2 .. Len(x) PROVE j - 1 \in 1 .. Len(v) /\ x[j] = v[j - 1]
  <2>1. j - 1 \in 1 .. Len(v) /\ 1 + (j - 1) = j
    BY <1>3
  <2> QED BY <1>3, <2>1
<1> QED BY <1>3, <1>4 DEF x, e

LEMMA ServeItemsInv ==
  ASSUME StreamInv, NEW c \in Clients,
         ServeAlist(c) \/ ServeAregex(c) \/ ServePlain(c) \/ ServeAttr(c) \/ ServeFsck(c)
  PROVE  StreamInv'
<1> DEFINE k == serve[c].sent + 1
<1>1. k \in Nat /\ MaxAttrs \in Nat
  BY StreamTypes, StreamAssumption DEF Serves
<1>2. ASSUME NEW t \in Tags
      PROVE  <<<<t, k>>>> \in Seq(Items) /\ Len(<<<<t, k>>>>) = 1 /\ <<<<t, k>>>>[1] = <<t, k>>
  <2>1. <<t, k>> \in Items
    BY <1>1, ItemsAre
  <2> QED BY <2>1
<1>3. CASE ServePlain(c)
  <2>1. iter[c].kind = "plain" /\ ServeItem(c, <<<<"obj", k>>>>)
    BY <1>3 DEF ServePlain
  <2>2. iter[c].kind \in Kinds /\ Width(iter[c].kind) = 0 /\ Tag(iter[c].kind) = "obj" /\ iter[c].kind # "aregex"
    BY <2>1 DEF Kinds, Width, Tag
  <2> DEFINE x == <<<<Tag(iter[c].kind), k>>>>
  <2>3. x \in Seq(Items) /\ Len(x) = 1 /\ x[1] = <<Tag(iter[c].kind), k>> /\ ServeItem(c, x)
    BY <1>2, <2>1, <2>2 DEF Tags
  <2> HIDE DEF x
  <2>4. Len(x) >= 1 + Width(iter[c].kind) /\ Len(x) = 1 + Width(iter[c].kind)
        /\ \A j \in 2 .. Len(x) : x[j][1] # Tag(iter[c].kind)
    BY <2>2, <2>3
  <2> QED BY <2>2, <2>3, <2>4, ServeItemInv
<1>4. CASE ServeAttr(c)
  <2>1. iter[c].kind = "attrs" /\ ServeItem(c, <<<<"attr", k>>>>)
    BY <1>4 DEF ServeAttr
  <2>2. iter[c].kind \in Kinds /\ Width(iter[c].kind) = 0 /\ Tag(iter[c].kind) = "attr" /\ iter[c].kind # "aregex"
    BY <2>1 DEF Kinds, Width, Tag
  <2> DEFINE x == <<<<Tag(iter[c].kind), k>>>>
  <2>3. x \in Seq(Items) /\ Len(x) = 1 /\ x[1] = <<Tag(iter[c].kind), k>> /\ ServeItem(c, x)
    BY <1>2, <2>1, <2>2 DEF Tags
  <2> HIDE DEF x
  <2>4. Len(x) >= 1 + Width(iter[c].kind) /\ Len(x) = 1 + Width(iter[c].kind)
        /\ \A j \in 2 .. Len(x) : x[j][1] # Tag(iter[c].kind)
    BY <2>2, <2>3
  <2> QED BY <2>2, <2>3, <2>4, ServeItemInv
<1>5. CASE ServeFsck(c)
  <2>1. iter[c].kind = "fsck" /\ ServeItem(c, <<<<"bad", k>>>>)
    BY <1>5 DEF ServeFsck
  <2>2. iter[c].kind \in Kinds /\ Width(iter[c].kind) = 0 /\ Tag(iter[c].kind) = "bad" /\ iter[c].kind # "aregex"
    BY <2>1 DEF Kinds, Width, Tag
  <2> DEFINE x == <<<<Tag(iter[c].kind), k>>>>
  <2>3. x \in Seq(Items) /\ Len(x) = 1 /\ x[1] = <<Tag(iter[c].kind), k>> /\ ServeItem(c, x)
    BY <1>2, <2>1, <2>2 DEF Tags
  <2> HIDE DEF x
  <2>4. Len(x) >= 1 + Width(iter[c].kind) /\ Len(x) = 1 + Width(iter[c].kind)
        /\ \A j \in 2 .. Len(x) : x[j][1] # Tag(iter[c].kind)
    BY <2>2, <2>3
  <2> QED BY <2>2, <2>3, <2>4, ServeItemInv
<1>6. CASE ServeAlist(c)
  <2> DEFINE x == <<<<"obj", k>>>> \o Values(k, MaxAttrs)
  <2>1. iter[c].kind = "alist" /\ ServeItem(c, x)
    BY <1>6 DEF ServeAlist
  <2>2. x \in Seq(Items) /\ Len(x) = 1 + MaxAttrs /\ x[1] = <<"obj", k>>
    <3>1. Values(k, MaxAttrs) \in Seq(Items) /\ Len(Values(k, MaxAttrs)) = MaxAttrs /\ "obj" \in Tags
      BY <1>1, ValuesAre DEF Tags
    <3> QED BY <1>1, <3>1, EntryItem
  <2>3. ASSUME NEW j \in 2 .. Len(x) PROVE x[j][1] # "obj"
    <3>1. j - 1 \in 1 .. MaxAttrs
      BY <1>1, <2>2
    <3>2. x[j] = Values(k, MaxAttrs)[j - 1]
      BY <1>1, ValuesAre, EntryItem DEF Tags
    <3>3. Values(k, MaxAttrs)[j - 1] = <<"attr", k>>
      BY <1>1, <3>1, ValuesAre
    <3> QED BY <3>2, <3>3
  <2>4. iter[c].kind \in Kinds /\ Width(iter[c].kind) = MaxAttrs /\ Tag(iter[c].kind) = "obj" /\ iter[c].kind # "aregex"
    BY <2>1 DEF Kinds, Width, Tag
  <2> HIDE DEF x
  <2>5. Len(x) >= 1 + Width(iter[c].kind)
    BY <1>1, <2>2, <2>4
  <2> QED BY <2>1, <2>2, <2>3, <2>4, <2>5, ServeItemInv
<1>7. CASE ServeAregex(c)
  <2>0. PICK n \in 0 .. MaxAttrs : ServeItem(c, <<<<"obj", k>>>> \o Values(k, n) \o <<Null>>)
    BY <1>7 DEF ServeAregex
  <2> DEFINE y == <<<<"obj", k>>>> \o Values(k, n)
             x == y \o <<Null>>
  <2>1. iter[c].kind = "aregex" /\ ServeItem(c, x) /\ n \in Nat
    BY <1>1, <1>7, <2>0 DEF ServeAregex
  <2>2. y \in Seq(Items) /\ Len(y) = 1 + n /\ y[1] = <<"obj", k>>
    <3>1. Values(k, n) \in Seq(Items) /\ Len(Values(k, n)) = n /\ "obj" \in Tags
      BY <1>1, <2>1, ValuesAre DEF Tags
    <3> QED BY <1>1, <3>1, EntryItem
  <2>3. ASSUME NEW j \in 2 .. 1 + n PROVE y[j] = <<"attr", k>>
    <3>1. j - 1 \in 1 .. n /\ j \in 2 .. Len(y)
      BY <2>1, <2>2
    <3>2. y[j] = Values(k, n)[j - 1]
      BY <1>1, <2>1, <3>1, ValuesAre, EntryItem DEF Tags
    <3> QED BY <1>1, <2>1, <3>1, <3>2, ValuesAre
  <2>4. <<Null>> \in Seq(Items) /\ Len(<<Null>>) = 1 /\ <<Null>>[1] = Null
    BY ItemsAre
  <2> HIDE DEF y
  <2>5. x \in Seq(Items) /\ Len(x) = 2 + n /\ x[2 + n] = Null /\ \A j \in 1 .. 1 + n : x[j] = y[j]
    BY <2>1, <2>2, <2>4, Joined
  <2> HIDE DEF x
  <2>6. x[1] = <<"obj", k>> /\ \A j \in 2 .. Len(x) - 1 : x[j] = <<"attr", k>>
    BY <2>1, <2>2, <2>3, <2>5
  <2>7. iter[c].kind \in Kinds /\ Width(iter[c].kind) = 0 /\ Tag(iter[c].kind) = "obj"
    BY <2>1 DEF Kinds, Width, Tag
  <2>8. Len(x) > 1 /\ Len(x) >= 1 + Width(iter[c].kind) /\ x[Len(x)] = Null
    BY <2>1, <2>5, <2>7
  <2> QED BY <2>1, <2>5, <2>6, <2>7, <2>8, ServeItemInv
<1> QED BY <1>3, <1>4, <1>5, <1>6, <1>7

-----------------------------------------------------------------------------
(* The client.                                                             *)

LEMMA UnreadIs ==
  ASSUME NEW c, iter[c].read \in Nat, pipe[c].out \in Seq(Items)
  PROVE  /\ \A n \in Nat : Readable(c, n) /\ n > 0 => iter[c].read + n <= Len(pipe[c].out)
         /\ Readable(c, 1) => Unread(c)[1] = pipe[c].out[iter[c].read + 1]
         /\ Unread(c) = <<>> => iter[c].read >= Len(pipe[c].out)
<1> DEFINE o == pipe[c].out
           r == iter[c].read
<1> HIDE DEF o, r
<1>1. o \in Seq(Items) /\ r \in Nat /\ Len(o) \in Nat
  BY DEF o, r
<1>2. Len(SubSeq(o, r + 1, Len(o))) = (IF r < Len(o) THEN Len(o) - r ELSE 0)
  BY <1>1
<1>3. r < Len(o) => SubSeq(o, r + 1, Len(o))[1] = o[r + 1]
  BY <1>1
<1>4. Unread(c) = SubSeq(o, r + 1, Len(o))
  BY DEF Unread, o, r
<1>5. Unread(c) = <<>> => Len(Unread(c)) = 0
  OBVIOUS
<1> HIDE DEF Unread
<1>6. \A n \in Nat : Readable(c, n) /\ n > 0 => r + n <= Len(o)
  BY <1>1, <1>2, <1>4 DEF Readable
<1>7. Readable(c, 1) => Unread(c)[1] = o[r + 1]
  BY <1>1, <1>2, <1>3, <1>4 DEF Readable
<1>8. Unread(c) = <<>> => r >= Len(o)
  BY <1>1, <1>2, <1>4, <1>5
<1> QED BY <1>6, <1>7, <1>8 DEF o, r

LEMMA Taken ==
  ASSUME NEW kind, NEW got \in Seq(Items), NEW x \in Items, InOrder(kind, got),
         IF OfEntry(kind, x) THEN got # <<>> /\ x[2] = LastNum(got) ELSE x[2] = 1 + LastNum(got)
  PROVE  /\ Append(got, x) \in Seq(Items) /\ Append(got, x) # <<>>
         /\ LastNum(Append(got, x)) = x[2]
         /\ InOrder(kind, Append(got, x))
<1> DEFINE g == Append(got, x)
           n == Len(got)
<1>1. /\ n \in Nat /\ g \in Seq(Items) /\ Len(g) = n + 1 /\ g[n + 1] = x /\ g # <<>>
      /\ \A i \in 1 .. n : g[i] = got[i]
      /\ (got = <<>>) <=> (n = 0)
  OBVIOUS
<1> HIDE DEF g, n
<1>2. LastNum(g) = x[2]
  BY <1>1 DEF LastNum
<1>3. n > 0 => LastNum(got) = g[n][2] /\ g[n] = got[n]
  BY <1>1 DEF LastNum, n
<1>4. n = 0 => LastNum(got) = 0
  BY <1>1 DEF LastNum
<1>5. ASSUME NEW i \in 1 .. n + 1
      PROVE  IF OfEntry(kind, g[i]) THEN i > 1 /\ g[i][2] = g[i - 1][2]
             ELSE g[i][2] = 1 + (IF i = 1 THEN 0 ELSE g[i - 1][2])
  <2>1. CASE i = n + 1
    <3>1. g[i] = x /\ i - 1 = n
      BY <1>1, <2>1
    <3> QED BY <1>1, <1>3, <1>4, <2>1, <3>1
  <2>2. CASE i # n + 1
    <3>1. i \in 1 .. n /\ g[i] = got[i] /\ (i # 1 => g[i - 1] = got[i - 1])
      BY <1>1, <2>2
    <3>2. IF OfEntry(kind, got[i]) THEN i > 1 /\ got[i][2] = got[i - 1][2]
          ELSE got[i][2] = 1 + (IF i = 1 THEN 0 ELSE got[i - 1][2])
      BY <3>1 DEF InOrder, n
    <3> QED BY <1>1, <3>1, <3>2
  <2> QED BY <2>1, <2>2
<1>6. InOrder(kind, g)
  BY <1>1, <1>5 DEF InOrder
<1> QED BY <1>1, <1>2, <1>6 DEF g

(* A step of the client alone.                                             *)
LEMMA ClientSteps ==
  ASSUME StreamInv, NEW c \in Clients, NEW i \in Iters, iter' = [iter EXCEPT ![c] = i],
         UNCHANGED <<pipe, serve>>, iter[c].kind # "none", i.kind = iter[c].kind,
         iter[c].end # "wait", i.end # "wait", Reading(i, pipe[c], serve[c])
  PROVE  StreamInv'
<1>1. /\ iter[c] \in Iters /\ pipe[c] \in Pipes /\ serve[c] \in Serves
      /\ Sending(i.kind, pipe[c], serve[c], iter[c].end)
      /\ pipe' = [pipe EXCEPT ![c] = pipe[c]] /\ serve' = [serve EXCEPT ![c] = serve[c]]
  BY StreamTypes DEF ClientOK
<1>2. Sending(i.kind, pipe[c], serve[c], i.end)
  BY <1>1 DEF Sending
<1>3. ClientOK(i, pipe[c], serve[c])
  BY <1>2 DEF ClientOK
<1> QED BY <1>1, <1>3, OneClient

LEMMA CreateIterInv ==
  ASSUME StreamInv, NEW c \in Clients, NEW kind \in Kinds, CreateIter(c, kind)
  PROVE  StreamInv'
<1> DEFINE i == [NoIter EXCEPT !.kind = kind, !.end = "wait", !.more = (kind = "attrs")]
           u == [at |-> "request", sent |-> 0]
<1>1. iter' = [iter EXCEPT ![c] = i] /\ pipe' = [pipe EXCEPT ![c] = NoPipe] /\ serve' = [serve EXCEPT ![c] = u]
  BY DEF CreateIter
<1>2. <<>> \in Seq(Items)
  OBVIOUS
<1>3. /\ i.kind = kind /\ i.end = "wait" /\ i.more = (kind = "attrs") /\ i.read = 0 /\ i.got = <<>> /\ i \in Iters
      /\ NoPipe \in Pipes /\ u \in Serves /\ NoPipe.out = <<>> /\ u.sent = 0 /\ u.at = "request"
  BY <1>2 DEF NoIter, NoPipe, Iters, Pipes, Serves
<1> HIDE DEF i, u
<1>4. InOrder(kind, <<>>)
  BY DEF InOrder
<1>5. Reading(i, NoPipe, u) /\ Sending(kind, NoPipe, u, i.end)
  BY <1>3, <1>4 DEF Reading, Sending
<1>6. ClientOK(i, NoPipe, u)
  BY <1>3, <1>5 DEF ClientOK, Kinds
<1> QED BY <1>1, <1>3, <1>6, OneClient

(* The client has no iterator any more.                                    *)
LEMMA ForgetsInv ==
  ASSUME StreamInv, NEW c \in Clients, NEW p \in Pipes,
         iter' = [iter EXCEPT ![c] = NoIter], pipe' = [pipe EXCEPT ![c] = p], UNCHANGED serve
  PROVE  StreamInv'
BY StreamTypes, NoIterOK, OneClient

LEMMA DestroyIterInv ==
  ASSUME StreamInv, NEW c \in Clients, DestroyIter(c)
  PROVE  StreamInv'
<1> DEFINE p == [pipe[c] EXCEPT !.broken = TRUE, !.out = <<>>]
<1>1. <<>> \in Seq(Items)
  OBVIOUS
<1>2. p \in Pipes
  BY <1>1, StreamTypes DEF Pipes
<1>3. pipe' = [pipe EXCEPT ![c] = p] /\ iter' = [iter EXCEPT ![c] = NoIter] /\ UNCHANGED serve
  BY StreamTypes DEF DestroyIter, StreamInv, StreamTyped
<1> QED BY <1>2, <1>3, ForgetsInv

LEMMA IterCreatedInv ==
  ASSUME StreamInv, NEW c \in Clients, IterCreated(c)
  PROVE  StreamInv'
<1> DEFINE i == iter[c]
           p == pipe[c]
           s == serve[c]
           j == [i EXCEPT !.read = 1, !.end = "no"]
<1>1. /\ i \in Iters /\ p \in Pipes /\ s \in Serves /\ ClientOK(i, p, s)
      /\ pipe' = [pipe EXCEPT ![c] = p] /\ serve' = [serve EXCEPT ![c] = s] /\ UNCHANGED <<pipe, serve>>
  BY StreamTypes DEF IterCreated
<1>2. i.end = "wait" /\ i.kind # "none"
  BY <1>1 DEF IterCreated, ClientOK, NoIter
<1>3. CASE iter' = [iter EXCEPT ![c] = NoIter]
  BY <1>1, <1>3, ForgetsInv
<1>4. CASE iter' # [iter EXCEPT ![c] = NoIter]
  <2>1. Readable(c, 1) /\ Unread(c)[1][2] = 1 /\ iter' = [iter EXCEPT ![c] = j]
    BY <1>4 DEF IterCreated
  <2>2. Sending(i.kind, p, s, i.end) /\ Reading(i, p, s) /\ i.kind \in Kinds
    BY <1>1, <1>2 DEF ClientOK, Iters
  <2>3. i.read = 0 /\ i.got = <<>> /\ i.more = (i.kind = "attrs") /\ i.read \in Nat /\ p.out \in Seq(Items)
    BY <1>1, <1>2, <2>2 DEF Reading, Pipes
  <2>4. p.out[1][2] = 1 /\ Len(p.out) >= 1
    BY <2>1, <2>3, UnreadIs
  <2>5. p.out # <<>>
    BY <2>4
  <2>6. p.out[1] = <<"status", 1>> /\ Flow(i.kind, p, s)
    BY <2>2, <2>4, <2>5 DEF Sending
  <2>7. /\ j \in Iters /\ j.kind = i.kind /\ j.read = 1 /\ j.end = "no" /\ j.got = i.got
        /\ j.more = (i.kind = "attrs")
    BY <1>1, <2>3 DEF Iters
  <2> HIDE DEF i, p, s, j
  <2>8. AtEntry(j, p, s)
    BY <2>3, <2>6, <2>7 DEF AtEntry, Flow, LastNum
  <2>9. Reading(j, p, s)
    BY <2>2, <2>7, <2>8 DEF Reading
  <2>10. Sending(j.kind, p, s, j.end)
    BY <2>2, <2>5, <2>6, <2>7 DEF Sending
  <2>11. ClientOK(j, p, s)
    BY <1>2, <2>7, <2>9, <2>10 DEF ClientOK
  <2> QED BY <1>1, <2>1, <2>7, <2>11, OneClient
<1> QED BY <1>3, <1>4

LEMMA EntryNext ==
  ASSUME NEW kind \in Kinds, NEW p \in Pipes, NEW s \in Serves, NEW r \in Nat, NEW k \in Nat,
         Flow(kind, p, s), Boundary(kind, p, s, r, k), r < Len(p.out)
  PROVE  \/ p.out[r + 1] = Null /\ k = s.sent /\ s.at = "idle"
         \/ /\ p.out[r + 1] = <<Tag(kind), k + 1>>
            /\ IF kind = "aregex" THEN Inside(kind, p, s, r + 1, k + 1)
               ELSE Boundary(kind, p, s, r + 1 + Width(kind), k + 1)
<1>1. r + 1 \in 2 .. Len(p.out)
  BY DEF Boundary, Pipes
<1>2. CASE p.out[r + 1] = <<Tag(kind), k + 1>>
  <2>1. p.out[r + 1][1] = Tag(kind) /\ p.out[r + 1][2] = k + 1
    BY <1>2
  <2>2. kind = "aregex" => Tag(kind) = "obj"
    BY DEF Tag
  <2> QED BY <1>1, <1>2, <2>1, <2>2 DEF Flow
<1> QED BY <1>2 DEF Boundary

LEMMA AttrNext ==
  ASSUME NEW p \in Pipes, NEW s \in Serves, NEW r \in Nat, NEW k \in Nat,
         Flow("aregex", p, s), Inside("aregex", p, s, r, k)
  PROVE  /\ r < Len(p.out)
         /\ \/ p.out[r + 1] = Null /\ Boundary("aregex", p, s, r + 1, k)
            \/ p.out[r + 1] = <<"attr", k>> /\ Inside("aregex", p, s, r + 1, k)
<1>1. r + 1 \in 2 .. Len(p.out) /\ r < Len(p.out)
  BY DEF Inside, Pipes
<1>2. CASE p.out[r + 1] = <<"attr", k>>
  <2>1. p.out[r + 1][1] = "attr" /\ p.out[r + 1][2] = k
    BY <1>2
  <2> QED BY <1>1, <1>2, <2>1 DEF Flow
<1> QED BY <1>1, <1>2 DEF Inside

(* What is known of a client between two items.                            *)
LEMMA ReadyIs ==
  ASSUME StreamInv, NEW c \in Clients, NEW kinds \in SUBSET Kinds, Ready(c, kinds)
  PROVE  /\ iter[c] \in Iters /\ pipe[c] \in Pipes /\ serve[c] \in Serves
         /\ iter[c].kind \in kinds /\ iter[c].kind \in Kinds /\ iter[c].kind # "none" /\ iter[c].end = "no"
         /\ Reading(iter[c], pipe[c], serve[c]) /\ Flow(iter[c].kind, pipe[c], serve[c])
         /\ iter[c].read \in Nat /\ iter[c].got \in Seq(Items) /\ LastNum(iter[c].got) \in Nat
         /\ pipe[c].out \in Seq(Items) /\ iter[c].more \in BOOLEAN /\ pipe[c].broken \in BOOLEAN
         /\ InOrder(iter[c].kind, iter[c].got)
<1>1. /\ iter[c] \in Iters /\ pipe[c] \in Pipes /\ serve[c] \in Serves /\ ClientOK(iter[c], pipe[c], serve[c])
  BY StreamTypes
<1>2. iter[c].kind \in kinds /\ iter[c].kind \in Kinds /\ iter[c].kind # "none" /\ iter[c].end = "no"
  BY DEF Ready, Kinds
<1>3. Reading(iter[c], pipe[c], serve[c]) /\ Flow(iter[c].kind, pipe[c], serve[c])
  BY <1>1, <1>2 DEF ClientOK, Sending
<1>4. /\ iter[c].read \in Nat /\ iter[c].got \in Seq(Items) /\ pipe[c].out \in Seq(Items)
      /\ iter[c].more \in BOOLEAN /\ pipe[c].broken \in BOOLEAN
  BY <1>1 DEF Iters, Pipes
<1>5. LastNum(iter[c].got) \in Nat
  <2>1. iter[c].got # <<>> => iter[c].got[Len(iter[c].got)] \in Items
    BY <1>4
  <2> QED BY <2>1, ItemsAre DEF LastNum
<1> QED BY <1>1, <1>2, <1>3, <1>4, <1>5 DEF Reading

LEMMA NextFsckInv ==
  ASSUME StreamInv, NEW c \in Clients, NextFsck(c)
  PROVE  StreamInv'
<1> DEFINE i == iter[c]
           p == pipe[c]
           s == serve[c]
           r == i.read
           k == LastNum(i.got)
           x == p.out[r + 1]
<1>1. Ready(c, {"fsck"}) /\ UNCHANGED <<pipe, serve>>
  BY DEF NextFsck
<1>2. {"fsck"} \in SUBSET Kinds
  BY DEF Kinds
<1>3. /\ i \in Iters /\ p \in Pipes /\ s \in Serves /\ i.kind = "fsck" /\ i.kind \in Kinds
      /\ i.kind # "none" /\ i.end = "no"
      /\ Reading(i, p, s) /\ Flow(i.kind, p, s) /\ r \in Nat /\ i.got \in Seq(Items) /\ k \in Nat
      /\ p.out \in Seq(Items) /\ p.broken \in BOOLEAN /\ InOrder(i.kind, i.got)
  BY <1>1, <1>2, ReadyIs
<1>4. Boundary(i.kind, p, s, r, k)
  BY <1>3 DEF Reading, AtEntry
<1>5. CASE Fails(c) /\ iter' = [iter EXCEPT ![c].over = TRUE, ![c].end = "error"]
  <2> DEFINE j == [i EXCEPT !.over = TRUE, !.end = "error"]
  <2>1. iter' = [iter EXCEPT ![c] = j]
    BY <1>5 DEF StreamInv, StreamTyped
  <2>2. j \in Iters /\ j.kind = i.kind /\ j.end = "error" /\ j.got = i.got
    BY <1>3 DEF Iters
  <2>3. Reading(j, p, s)
    BY <1>3, <2>2 DEF Reading
  <2> QED BY <1>1, <1>3, <2>1, <2>2, <2>3, ClientSteps
<1>6. CASE Readable(c, 1) /\ iter' = [iter EXCEPT ![c] =
                 IF Unread(c)[1][1] = "null" THEN [i EXCEPT !.read = r + 1, !.over = TRUE, !.end = "end"]
                 ELSE [i EXCEPT !.read = r + 1, !.got = Append(i.got, <<"bad", Unread(c)[1][2]>>)]]
  <2>1. Unread(c)[1] = x /\ r < Len(p.out)
    BY <1>3, <1>6, UnreadIs
  <2>2. \/ x = Null /\ k = s.sent /\ s.at = "idle"
        \/ x = <<"bad", k + 1>> /\ Boundary(i.kind, p, s, r + 1, k + 1)
    BY <1>3, <1>4, <2>1, EntryNext DEF Tag, Width
  <2>3. CASE x[1] = "null" /\ iter' = [iter EXCEPT ![c] = [i EXCEPT !.read = r + 1, !.over = TRUE, !.end = "end"]]
    <3> DEFINE j == [i EXCEPT !.read = r + 1, !.over = TRUE, !.end = "end"]
    <3>1. k = s.sent /\ s.at = "idle"
      BY <2>2, <2>3
    <3>0. r + 1 \in Nat
      BY <1>3
    <3>2. j \in Iters /\ j.kind = i.kind /\ j.end = "end" /\ j.got = i.got
      BY <1>3, <3>0 DEF Iters
    <3>3. Reading(j, p, s)
      BY <1>3, <3>1, <3>2 DEF Reading
    <3> QED BY <1>1, <1>3, <2>3, <3>2, <3>3, ClientSteps
  <2>4. CASE x[1] # "null" /\ iter' = [iter EXCEPT ![c] = [i EXCEPT !.read = r + 1, !.got = Append(i.got, x)]]
    <3> DEFINE j == [i EXCEPT !.read = r + 1, !.got = Append(i.got, x)]
    <3>1. x[2] = 1 + k /\ x \in Items /\ Boundary(i.kind, p, s, r + 1, k + 1)
      <4>1. x = <<"bad", k + 1>> /\ Boundary(i.kind, p, s, r + 1, k + 1)
        <5>1. Null[1] = "null"
          BY DEF Null
        <5>2. x # Null
          BY <2>4, <5>1
        <5> QED BY <2>2, <5>2
      <4>2. <<"bad", k + 1>> \in Items
        <5>1. k + 1 \in Nat /\ "bad" \in Tags
          BY <1>3 DEF Tags
        <5> QED BY <5>1, ItemsAre
      <4>3. <<"bad", k + 1>>[2] = 1 + k
        BY <1>3
      <4> QED BY <4>1, <4>2, <4>3
    <3>2. ~OfEntry(i.kind, x)
      BY <1>3 DEF OfEntry
    <3>3. /\ Append(i.got, x) \in Seq(Items) /\ LastNum(Append(i.got, x)) = x[2]
          /\ InOrder(i.kind, Append(i.got, x))
      BY <1>3, <3>1, <3>2, Taken
    <3>4. j \in Iters /\ j.kind = i.kind /\ j.end = "no" /\ j.got = Append(i.got, x) /\ j.read = r + 1
      <4>1. r + 1 \in Nat
        BY <1>3
      <4> QED BY <1>3, <3>3, <4>1 DEF Iters
    <3> HIDE DEF j, i, p, s, x, r
    <3>5. Reading(j, p, s)
      BY <1>3, <3>1, <3>3, <3>4 DEF Reading, AtEntry
    <3> QED BY <1>1, <1>3, <2>4, <3>4, <3>5, ClientSteps DEF i, p, s, j
  <2>5. x[1] # "null" => <<"bad", x[2]>> = x
    <3>1. Null[1] = "null"
      BY DEF Null
    <3>2. <<"bad", k + 1>>[2] = k + 1
      OBVIOUS
    <3> QED BY <2>2, <3>1, <3>2
  <2>6. CASE x[1] # "null"
    <3>1. iter' = [iter EXCEPT ![c] = [i EXCEPT !.read = r + 1, !.got = Append(i.got, <<"bad", x[2]>>)]]
      BY <1>6, <2>1, <2>6
    <3> QED BY <2>4, <2>5, <2>6, <3>1
  <2>7. CASE x[1] = "null"
    BY <1>6, <2>1, <2>3, <2>7
  <2> QED BY <2>6, <2>7
<1>7. \/ Readable(c, 1) /\ iter' = [iter EXCEPT ![c] =
              IF Unread(c)[1][1] = "null" THEN [i EXCEPT !.read = r + 1, !.over = TRUE, !.end = "end"]
              ELSE [i EXCEPT !.read = r + 1, !.got = Append(i.got, <<"bad", Unread(c)[1][2]>>)]]
      \/ Fails(c) /\ iter' = [iter EXCEPT ![c].over = TRUE, ![c].end = "error"]
  BY DEF NextFsck
<1> QED BY <1>5, <1>6, <1>7

(* The client takes the item it is at: j is the iterator after that.       *)
TakesOne(i, j, p, s, x) ==
  /\ i \in Iters /\ x \in Items /\ i.end = "no" /\ InOrder(i.kind, i.got)
  /\ j.end = "no" /\ j.kind = i.kind /\ j.got = Append(i.got, x)
  /\ IF OfEntry(i.kind, x) THEN i.got # <<>> /\ x[2] = LastNum(i.got) ELSE x[2] = 1 + LastNum(i.got)
  /\ i.kind = "aregex" => j.more /\ Inside(i.kind, p, s, j.read, x[2])
  /\ i.kind # "aregex" => Boundary(i.kind, p, s, j.read, x[2])

LEMMA TakesItem ==
  ASSUME NEW i, NEW j, NEW p, NEW s, NEW x, TakesOne(i, j, p, s, x)
  PROVE  Reading(j, p, s)
<1>1. i.got \in Seq(Items) /\ x \in Items /\ InOrder(i.kind, i.got)
  BY DEF Iters, TakesOne
<1>2. IF OfEntry(i.kind, x) THEN i.got # <<>> /\ x[2] = LastNum(i.got) ELSE x[2] = 1 + LastNum(i.got)
  BY DEF TakesOne
<1>3. /\ Append(i.got, x) # <<>>
      /\ LastNum(Append(i.got, x)) = x[2] /\ InOrder(i.kind, Append(i.got, x))
  BY <1>1, <1>2, Taken
<1> QED BY <1>3 DEF Reading, AtEntry, AtAttr, TakesOne

LEMMA NextObjectInv ==
  ASSUME StreamInv, NEW c \in Clients, NextObject(c)
  PROVE  StreamInv'
<1> DEFINE i == iter[c]
           p == pipe[c]
           s == serve[c]
           r == i.read
           k == LastNum(i.got)
           x == p.out[r + 1]
           n == IF i.kind = "alist" THEN MaxAttrs ELSE 0
<1>1. Ready(c, {"alist", "aregex", "plain"}) /\ UNCHANGED <<pipe, serve>>
  BY DEF NextObject
<1>2. {"alist", "aregex", "plain"} \in SUBSET Kinds
  BY DEF Kinds
<1>3. /\ i \in Iters /\ p \in Pipes /\ s \in Serves /\ i.kind \in {"alist", "aregex", "plain"} /\ i.kind \in Kinds
      /\ i.kind # "none" /\ i.end = "no"
      /\ Reading(i, p, s) /\ Flow(i.kind, p, s) /\ r \in Nat /\ i.got \in Seq(Items) /\ k \in Nat
      /\ p.out \in Seq(Items) /\ p.broken \in BOOLEAN /\ i.more \in BOOLEAN /\ InOrder(i.kind, i.got)
  BY <1>1, <1>2, ReadyIs
<1>4. ~i.more => \/ Boundary(i.kind, p, s, r, k)
                 \/ p.broken /\ r = Len(p.out)
  BY <1>3 DEF Reading, AtEntry
<1>5. n \in Nat /\ n = Width(i.kind) /\ Tag(i.kind) = "obj"
  BY <1>3, ItemsAre DEF Width, Tag
<1>6. \/ i.more /\ iter' = [iter EXCEPT ![c].crashed = TRUE]
      \/ /\ ~i.more /\ Readable(c, 1)
         /\ iter' = [iter EXCEPT ![c] =
              IF Unread(c)[1][1] = "null" THEN [i EXCEPT !.read = r + 1, !.end = "end"]
              ELSE [i EXCEPT !.read = r + 1 + n, !.more = MoreAfter(c),
                             !.got = Append(i.got, <<"obj", Unread(c)[1][2]>>)]]
      \/ ~i.more /\ Fails(c) /\ iter' = [iter EXCEPT ![c].end = "end"]
  BY DEF NextObject
<1>7. CASE i.more /\ iter' = [iter EXCEPT ![c].crashed = TRUE]
  <2> DEFINE j == [i EXCEPT !.crashed = TRUE]
  <2>1. iter' = [iter EXCEPT ![c] = j]
    BY <1>7
  <2>2. j \in Iters /\ j.kind = i.kind /\ j.end = i.end /\ j.got = i.got /\ j.read = i.read /\ j.more = i.more
    BY <1>3 DEF Iters
  <2>3. Reading(j, p, s)
    BY <1>3, <2>2 DEF Reading, AtEntry, AtAttr
  <2> QED BY <1>1, <1>3, <2>1, <2>2, <2>3, ClientSteps
<1>8. CASE ~i.more /\ Fails(c) /\ iter' = [iter EXCEPT ![c].end = "end"]
  <2> DEFINE j == [i EXCEPT !.end = "end"]
  <2>1. iter' = [iter EXCEPT ![c] = j]
    BY <1>8
  <2>2. j \in Iters /\ j.kind = i.kind /\ j.end = "end" /\ j.got = i.got
    BY <1>3 DEF Iters
  <2>3. p.broken
    <3>1. SUFFICES ASSUME ~p.broken PROVE FALSE
      OBVIOUS
    <3>2. Unread(c) = <<>> /\ s.at = "idle"
      BY <1>8, <3>1 DEF Fails
    <3>3. r >= Len(p.out) /\ Boundary(i.kind, p, s, r, k)
      BY <1>3, <1>4, <1>8, <3>1, <3>2, UnreadIs
    <3> QED BY <1>3, <3>1, <3>2, <3>3 DEF Boundary
  <2>4. Reading(j, p, s)
    BY <1>3, <2>2, <2>3 DEF Reading
  <2> QED BY <1>1, <1>3, <2>1, <2>2, <2>4, ClientSteps
<1>9. CASE /\ ~i.more /\ Readable(c, 1)
           /\ iter' = [iter EXCEPT ![c] =
                IF Unread(c)[1][1] = "null" THEN [i EXCEPT !.read = r + 1, !.end = "end"]
                ELSE [i EXCEPT !.read = r + 1 + n, !.more = MoreAfter(c),
                             !.got = Append(i.got, <<"obj", Unread(c)[1][2]>>)]]
  <2>1. Unread(c)[1] = x /\ r < Len(p.out) /\ r + 1 \in 1 .. Len(p.out)
    BY <1>3, <1>9, UnreadIs
  <2>2. x \in Items /\ r + 1 \in Nat /\ r + 1 + n \in Nat
    BY <1>3, <1>5, <2>1
  <2>3. Null[1] = "null"
    BY DEF Null
  <2>4. \/ x = Null /\ (p.broken \/ (k = s.sent /\ s.at = "idle"))
        \/ /\ x = <<"obj", k + 1>>
           /\ IF i.kind = "aregex" THEN Inside(i.kind, p, s, r + 1, k + 1) ELSE Boundary(i.kind, p, s, r + 1 + n, k + 1)
    <3>1. Boundary(i.kind, p, s, r, k)
      <4>1. r # Len(p.out)
        BY <1>3, <2>1
      <4> QED BY <1>4, <1>9, <4>1
    <3> HIDE DEF i, p, s, r, k, n
    <3> QED BY <1>3, <1>5, <2>1, <3>1, EntryNext DEF x
  <2>5. CASE x[1] = "null"
    <3> DEFINE j == [i EXCEPT !.read = r + 1, !.end = "end"]
    <3>1. iter' = [iter EXCEPT ![c] = j]
      BY <1>9, <2>1, <2>5
    <3>2. j \in Iters /\ j.kind = i.kind /\ j.end = "end" /\ j.got = i.got
      BY <1>3, <2>2 DEF Iters
    <3>3. p.broken \/ (k = s.sent /\ s.at = "idle")
      BY <2>4, <2>5
    <3>4. Reading(j, p, s)
      BY <1>3, <3>2, <3>3 DEF Reading
    <3> QED BY <1>1, <1>3, <3>1, <3>2, <3>4, ClientSteps
  <2>6. CASE x[1] # "null"
    <3> DEFINE m == r + 1 + n
               j == [i EXCEPT !.read = m, !.more = MoreAfter(c), !.got = Append(i.got, x)]
    <3>1. iter' = [iter EXCEPT ![c] = j]
      <4>1. <<"obj", x[2]>> = x
        <5>1. <<"obj", k + 1>>[2] = k + 1
          OBVIOUS
        <5> QED BY <2>3, <2>4, <2>6, <5>1
      <4>2. iter' = [iter EXCEPT ![c] = [i EXCEPT !.read = m, !.more = MoreAfter(c),
                                                  !.got = Append(i.got, <<"obj", x[2]>>)]]
        BY <1>9, <2>1, <2>6
      <4> QED BY <4>1, <4>2
    <3>2. MoreAfter(c) \in BOOLEAN /\ (i.kind = "aregex" => MoreAfter(c) /\ m = r + 1)
      BY <1>3 DEF MoreAfter
    <3>3. x # Null
      BY <2>3, <2>6
    <3>4. IF OfEntry(i.kind, x) THEN i.got # <<>> /\ x[2] = k ELSE x[2] = 1 + k
      <4>1. x = <<"obj", k + 1>>
        BY <2>4, <3>3
      <4> QED BY <1>3, <4>1 DEF OfEntry
    <3>5. IF i.kind = "aregex" THEN Inside(i.kind, p, s, m, x[2]) ELSE Boundary(i.kind, p, s, m, x[2])
      <4>1. /\ x = <<"obj", k + 1>>
            /\ IF i.kind = "aregex" THEN Inside(i.kind, p, s, r + 1, k + 1)
               ELSE Boundary(i.kind, p, s, r + 1 + n, k + 1)
        BY <2>4, <3>3
      <4>2. x[2] = k + 1
        BY <4>1
      <4> QED BY <3>2, <4>1, <4>2
    <3>6. Append(i.got, x) \in Seq(Items) /\ m \in Nat
      BY <1>3, <2>2
    <3>7. /\ j \in Iters /\ j.kind = i.kind /\ j.end = "no" /\ j.got = Append(i.got, x) /\ j.read = m
          /\ (i.kind = "aregex" => j.more)
      BY <1>3, <3>2, <3>6 DEF Iters
    <3>8. IF i.kind = "aregex" THEN j.more /\ Inside(i.kind, p, s, j.read, x[2])
          ELSE Boundary(i.kind, p, s, j.read, x[2])
      BY <3>5, <3>7
    <3> HIDE DEF j
    <3>9. Reading(j, p, s)
      <4> HIDE DEF i, p, s, r, x
      <4>1. TakesOne(i, j, p, s, x)
        BY <1>3, <2>2, <3>4, <3>7, <3>8 DEF TakesOne
      <4> QED BY <4>1, TakesItem
    <3> QED BY <1>1, <1>3, <3>1, <3>7, <3>9, ClientSteps
  <2> QED BY <2>5, <2>6
<1> QED BY <1>6, <1>7, <1>8, <1>9

LEMMA NextAttrInv ==
  ASSUME StreamInv, NEW c \in Clients, NextAttr(c)
  PROVE  StreamInv'
<1> DEFINE i == iter[c]
           p == pipe[c]
           s == serve[c]
           r == i.read
           k == LastNum(i.got)
           x == p.out[r + 1]
<1>1. Ready(c, {"aregex", "attrs"}) /\ i.more /\ UNCHANGED <<pipe, serve>>
  BY DEF NextAttr
<1>2. {"aregex", "attrs"} \in SUBSET Kinds
  BY DEF Kinds
<1>3. /\ i \in Iters /\ p \in Pipes /\ s \in Serves /\ i.kind \in {"aregex", "attrs"} /\ i.kind \in Kinds
      /\ i.kind # "none" /\ i.end = "no"
      /\ Reading(i, p, s) /\ Flow(i.kind, p, s) /\ r \in Nat /\ i.got \in Seq(Items) /\ k \in Nat
      /\ p.out \in Seq(Items) /\ p.broken \in BOOLEAN /\ InOrder(i.kind, i.got)
  BY <1>1, <1>2, ReadyIs
<1>4. IF i.kind = "aregex" THEN i.got # <<>> /\ Inside(i.kind, p, s, r, k) ELSE Boundary(i.kind, p, s, r, k)
  BY <1>1, <1>3 DEF Reading, AtEntry, AtAttr
<1>5. \/ /\ Readable(c, 1)
         /\ iter' = [iter EXCEPT ![c] =
              IF Unread(c)[1][1] = "null" THEN [i EXCEPT !.read = r + 1, !.more = FALSE]
              ELSE [i EXCEPT !.read = r + 1, !.got = Append(i.got, <<"attr", Unread(c)[1][2]>>)]]
      \/ Fails(c) /\ iter' = [iter EXCEPT ![c].more = FALSE, ![c].read = Len(p.out)]
  BY DEF NextAttr
<1>6. CASE Fails(c) /\ iter' = [iter EXCEPT ![c].more = FALSE, ![c].read = Len(p.out)]
  <2> DEFINE j == [i EXCEPT !.more = FALSE, !.read = Len(p.out)]
  <2>1. iter' = [iter EXCEPT ![c] = j]
    BY <1>6
  <2>2. j \in Iters /\ j.kind = i.kind /\ j.end = "no" /\ j.got = i.got /\ j.read = Len(p.out) /\ ~j.more
    <3>1. Len(p.out) \in Nat
      BY <1>3
    <3> QED BY <1>3, <3>1 DEF Iters
  <2>3. i.kind = "aregex" => p.broken
    <3>1. SUFFICES ASSUME i.kind = "aregex", ~p.broken PROVE FALSE
      OBVIOUS
    <3>2. Unread(c) = <<>>
      BY <1>6, <3>1 DEF Fails
    <3>3. r >= Len(p.out) /\ Inside(i.kind, p, s, r, k)
      BY <1>3, <1>4, <3>1, <3>2, UnreadIs
    <3> QED BY <1>3, <3>3 DEF Inside
  <2>4. Reading(j, p, s)
    BY <1>3, <2>2, <2>3 DEF Reading
  <2> QED BY <1>1, <1>3, <2>1, <2>2, <2>4, ClientSteps
<1>7. CASE /\ Readable(c, 1)
           /\ iter' = [iter EXCEPT ![c] =
                IF Unread(c)[1][1] = "null" THEN [i EXCEPT !.read = r + 1, !.more = FALSE]
                ELSE [i EXCEPT !.read = r + 1, !.got = Append(i.got, <<"attr", Unread(c)[1][2]>>)]]
  <2>1. Unread(c)[1] = x /\ r < Len(p.out) /\ r + 1 \in 1 .. Len(p.out)
    BY <1>3, <1>7, UnreadIs
  <2>2. x \in Items /\ r + 1 \in Nat
    BY <1>3, <2>1
  <2>3. Null[1] = "null"
    BY DEF Null
  <2>4. \/ x = Null /\ (i.kind = "aregex" => Boundary(i.kind, p, s, r + 1, k))
        \/ x = <<"attr", k + 1>> /\ i.kind = "attrs" /\ Boundary(i.kind, p, s, r + 1, k + 1)
        \/ x = <<"attr", k>> /\ i.kind = "aregex" /\ i.got # <<>> /\ Inside(i.kind, p, s, r + 1, k)
    <3>1. CASE i.kind = "attrs"
      <4>1. Tag(i.kind) = "attr" /\ Width(i.kind) = 0
        BY <3>1 DEF Tag, Width
      <4> HIDE DEF i, p, s, r, k
      <4>2. r + 1 + 0 = r + 1
        BY <1>3
      <4> QED BY <1>3, <1>4, <2>1, <3>1, <4>1, <4>2, EntryNext DEF x
    <3>2. CASE i.kind = "aregex"
      <4> HIDE DEF i, p, s, r, k
      <4> QED BY <1>3, <1>4, <3>2, AttrNext DEF x
    <3> QED BY <1>3, <3>1, <3>2
  <2>5. CASE x[1] = "null"
    <3> DEFINE j == [i EXCEPT !.read = r + 1, !.more = FALSE]
    <3>1. iter' = [iter EXCEPT ![c] = j]
      BY <1>7, <2>1, <2>5
    <3>2. j \in Iters /\ j.kind = i.kind /\ j.end = "no" /\ j.got = i.got /\ j.read = r + 1 /\ ~j.more
      BY <1>3, <2>2 DEF Iters
    <3>3. i.kind = "aregex" => Boundary(i.kind, p, s, r + 1, k)
      BY <2>4, <2>5
    <3>4. Reading(j, p, s)
      BY <1>3, <3>2, <3>3 DEF Reading, AtEntry
    <3> QED BY <1>1, <1>3, <3>1, <3>2, <3>4, ClientSteps
  <2>6. CASE x[1] # "null"
    <3> DEFINE j == [i EXCEPT !.read = r + 1, !.got = Append(i.got, x), !.more = TRUE]
    <3>1. iter' = [iter EXCEPT ![c] = j]
      <4>1. [i EXCEPT !.read = r + 1, !.got = Append(i.got, x)] = j
        BY <1>1, <1>3 DEF Iters
      <4>2. <<"attr", x[2]>> = x
        <5>1. <<"attr", k + 1>>[2] = k + 1 /\ <<"attr", k>>[2] = k
          OBVIOUS
        <5> QED BY <2>3, <2>4, <2>6, <5>1
      <4>3. iter' = [iter EXCEPT ![c] = [i EXCEPT !.read = r + 1, !.got = Append(i.got, <<"attr", x[2]>>)]]
        BY <1>7, <2>1, <2>6
      <4> QED BY <4>1, <4>2, <4>3
    <3>2. x # Null
      BY <2>3, <2>6
    <3>3. IF OfEntry(i.kind, x) THEN i.got # <<>> /\ x[2] = k ELSE x[2] = 1 + k
      <4>1. CASE x = <<"attr", k + 1>> /\ i.kind = "attrs"
        BY <1>3, <4>1 DEF OfEntry
      <4>2. CASE x = <<"attr", k>> /\ i.kind = "aregex" /\ i.got # <<>>
        BY <4>2 DEF OfEntry
      <4> QED BY <2>4, <3>2, <4>1, <4>2
    <3>4. IF i.kind = "aregex" THEN Inside(i.kind, p, s, r + 1, x[2]) ELSE Boundary(i.kind, p, s, r + 1, x[2])
      <4>1. CASE x = <<"attr", k + 1>> /\ i.kind = "attrs" /\ Boundary(i.kind, p, s, r + 1, k + 1)
        <5>1. x[2] = k + 1
          BY <4>1
        <5> QED BY <4>1, <5>1
      <4>2. CASE x = <<"attr", k>> /\ i.kind = "aregex" /\ Inside(i.kind, p, s, r + 1, k)
        <5>1. x[2] = k
          BY <4>2
        <5> QED BY <4>2, <5>1
      <4> QED BY <2>4, <3>2, <4>1, <4>2
    <3>5. Append(i.got, x) \in Seq(Items) /\ r + 1 \in Nat
      BY <1>3, <2>2
    <3>6. /\ j \in Iters /\ j.kind = i.kind /\ j.end = "no" /\ j.got = Append(i.got, x) /\ j.read = r + 1
          /\ (i.kind = "aregex" => j.more)
      BY <1>3, <3>5 DEF Iters
    <3>7. IF i.kind = "aregex" THEN j.more /\ Inside(i.kind, p, s, j.read, x[2])
          ELSE Boundary(i.kind, p, s, j.read, x[2])
      BY <3>4, <3>6
    <3> HIDE DEF j
    <3>8. Reading(j, p, s)
      <4> HIDE DEF i, p, s, r, x
      <4>1. TakesOne(i, j, p, s, x)
        BY <1>3, <2>2, <3>3, <3>6, <3>7 DEF TakesOne
      <4> QED BY <4>1, TakesItem
    <3> QED BY <1>1, <1>3, <3>1, <3>6, <3>8, ClientSteps
  <2> QED BY <2>5, <2>6
<1> QED BY <1>5, <1>6, <1>7

LEMMA StreamStep ==
  ASSUME StreamInv, [NextStream]_svars
  PROVE  StreamInv'
<1>1. CASE UNCHANGED svars
  BY <1>1 DEF svars, StreamInv, StreamTyped
<1>2. ASSUME NEW h \in Others, OtherServed(h) PROVE StreamInv'
  BY <1>2 DEF OtherServed, StreamInv, StreamTyped
<1>3. ASSUME NEW c \in Clients, NEW kind \in Kinds, CreateIter(c, kind) PROVE StreamInv'
  BY <1>3, CreateIterInv
<1>4. ASSUME NEW c \in Clients,
             IterCreated(c) \/ NextObject(c) \/ NextAttr(c) \/ NextFsck(c) \/ DestroyIter(c) \/ StreamBreaks(c)
      PROVE  StreamInv'
  BY <1>4, IterCreatedInv, NextObjectInv, NextAttrInv, NextFsckInv, DestroyIterInv, StreamBreaksInv
<1>5. ASSUME NEW c \in Clients,
             \/ ServeStart(c) \/ ServeEnd(c)
             \/ ServeAlist(c) \/ ServeAregex(c) \/ ServePlain(c) \/ ServeAttr(c) \/ ServeFsck(c)
      PROVE  StreamInv'
  BY <1>5, ServeStartInv, ServeEndInv, ServeItemsInv
<1> QED BY <1>1, <1>2, <1>3, <1>4, <1>5 DEF NextStream

\* The caller of a remote iterator gets the entries of the child's iterator in
\* order with none missing, each attribute under the object it belongs to, and
\* a listing that ends on an unbroken stream is complete, whatever the number
\* of entries and attributes and wherever the stream breaks (osrc_next_object,
\* osrc_next_attr, osrc_next_fsck against osrs_object_iter_aregex_cb and the
\* other handlers that write the stream).
THEOREM ListingsAreFaithful == InitStream /\ [][NextStream]_svars => []ListingFaithful
<1>1. InitStream => StreamInv
  <2> SUFFICES ASSUME InitStream PROVE StreamInv
    OBVIOUS
  <2>1. NoPipe \in Pipes /\ NoServe \in Serves
    <3>1. <<>> \in Seq(Items)
      OBVIOUS
    <3> QED BY <3>1 DEF NoPipe, NoServe, Pipes, Serves
  <2> QED BY <2>1, NoIterOK DEF InitStream, StreamInv, StreamTyped
<1>2. StreamInv /\ [NextStream]_svars => StreamInv'
  BY StreamStep
<1>3. StreamInv => ListingFaithful
  <2> SUFFICES ASSUME StreamInv, NEW c \in Clients
               PROVE  /\ InOrder(iter[c].kind, iter[c].got)
                      /\ iter[c].end = "end" /\ ~pipe[c].broken => LastNum(iter[c].got) = serve[c].sent
    BY DEF ListingFaithful
  <2>1. ClientOK(iter[c], pipe[c], serve[c])
    BY StreamTypes
  <2>2. CASE iter[c].kind = "none"
    <3>1. iter[c] = NoIter
      BY <2>1, <2>2 DEF ClientOK
    <3>2. iter[c].end = "no" /\ iter[c].got = <<>>
      BY <3>1 DEF NoIter
    <3> QED BY <3>2 DEF InOrder
  <2>3. CASE iter[c].kind # "none"
    BY <2>1, <2>3 DEF ClientOK, Reading
  <2> QED BY <2>2, <2>3
<1> QED BY <1>1, <1>2, <1>3, PTL

================================================================================
