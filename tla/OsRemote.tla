------------------------------- MODULE OsRemote --------------------------------
(***************************************************************************)
(* The remote object service: clients (os_remote_client.c) send a message  *)
(* per operation, the server (os_remote_server.c) runs a callback for each *)
(* on the object service it wraps.  Requests and responses may be lost and *)
(* a caller stops waiting after a timeout, so that callbacks of one client *)
(* overlap; clients may die.  Descriptors the server opened for a host are *)
(* registered with the ongoing monitor of the message queue, which closes  *)
(* them when the heartbeat of the host stops.  A bulk operation is kept    *)
(* alive by spin heartbeats of its caller.                                 *)
(*                                                                         *)
(* Abstracted: the frames and their encoding, the credentials (they are    *)
(* never NULL), attribute values; the streams are the module               *)
(* OsRemoteStream.                                                         *)
(***************************************************************************)
EXTENDS Naturals, FiniteSets

CONSTANTS
  Hosts,        \* client processes
  Fds,          \* descriptors of the child, each with its key in the ongoing table
  Slots,        \* bound: calls on their way at once
  NoHost, NoFd

ASSUME RemoteAssumption ==
  /\ IsFiniteSet(Hosts) /\ NoHost \notin Hosts
  /\ IsFiniteSet(Fds) /\ Fds \subseteq Nat /\ NoFd \notin Fds
  /\ IsFiniteSet(Slots) /\ Slots \subseteq Nat

VARIABLES
  up,       \* the client processes that run
  beats,    \* hosts the client sends heartbeats for (osrc->ongoing)
  known,    \* known[h]: descriptors the callers of h hold (osrc_object_fd_t)
  call,     \* call[i]: a call, its messages and its callback
  child,    \* the child's open descriptors: the host they were opened for
  ongoing,  \* osrs->ongoing: the descriptors registered
  aborts,   \* osrs->abort: the opens that may be aborted
  spin      \* osrs->spin: the bulk operations, and whether their heartbeat is fresh

vars == <<up, beats, known, call, child, ongoing, aborts, spin>>

FdCmds == {"get_attrs", "set_attrs", "copy_attrs", "move_attrs", "symlink_attrs", "attr_iter"}

Idle == [h |-> NoHost, cmd |-> "-", at |-> "idle", waiting |-> FALSE,
         fd |-> NoFd, to |-> NoFd, of |-> {}]
New(h, cmd) == [Idle EXCEPT !.h = h, !.cmd = cmd, !.at = "request", !.waiting = TRUE]

Init ==
  /\ up = Hosts /\ beats = {} /\ known = [h \in Hosts |-> {}]
  /\ call = [i \in Slots |-> Idle]
  /\ child = [f \in Fds |-> NoHost] /\ ongoing = {}
  /\ aborts = {} /\ spin = [i \in Slots |-> "none"]

-----------------------------------------------------------------------------
(* The callers.  A client has one call waiting, except that it may abort   *)
(* an open or a bulk operation that waits.                                 *)

Waiting(h) == {i \in Slots : call[i].h = h /\ call[i].waiting}
Free(i) == call[i] = Idle /\ \A j \in Slots : call[j] = Idle => i <= j
Send(i, c) ==
  /\ c.h \in up /\ Free(i)
  /\ call' = [call EXCEPT ![i] = c]
  /\ UNCHANGED <<up, beats, known, child, ongoing, aborts, spin>>

(* osrc_open_object; osrc_close_object, which takes the descriptor away    *)
(* from the caller.                                                        *)
CallOpen(i, h) == Waiting(h) = {} /\ Send(i, New(h, "open"))
CallClose(i, h, f) ==
  /\ Waiting(h) = {} /\ f \in known[h] /\ h \in up /\ Free(i)
  /\ call' = [call EXCEPT ![i] = [New(h, "close") EXCEPT !.fd = f]]
  /\ known' = [known EXCEPT ![h] = @ \ {f}]
  /\ UNCHANGED <<up, beats, child, ongoing, aborts, spin>>

(* Operations on a descriptor; a copy names two.                           *)
CallOnFd(i, h, cmd, f) == Waiting(h) = {} /\ f \in known[h] /\ Send(i, [New(h, cmd) EXCEPT !.fd = f])
CallGetAttrs(i, h, f) == CallOnFd(i, h, "get_attrs", f)
CallSetAttrs(i, h, f) == CallOnFd(i, h, "set_attrs", f)
CallMoveAttrs(i, h, f) == CallOnFd(i, h, "move_attrs", f)
CallSymlinkAttrs(i, h, f) == CallOnFd(i, h, "symlink_attrs", f)
CallAttrIter(i, h, f) == CallOnFd(i, h, "attr_iter", f)
CallCopyAttrs(i, h, f, g) ==
  /\ Waiting(h) = {} /\ {f, g} \subseteq known[h]
  /\ Send(i, [New(h, "copy_attrs") EXCEPT !.fd = f, !.to = g])

(* Operations on names, and the bulk operations.                           *)
CallPlain(i, h, cmd) == Waiting(h) = {} /\ Send(i, New(h, cmd))
CallExists(i, h) == CallPlain(i, h, "exists")
CallCreate(i, h) == CallPlain(i, h, "create")
CallRemove(i, h) == CallPlain(i, h, "remove")
CallMove(i, h) == CallPlain(i, h, "move")
CallSymlink(i, h) == CallPlain(i, h, "symlink")
CallHardlink(i, h) == CallPlain(i, h, "hardlink")
CallFsckObject(i, h) == CallPlain(i, h, "fsck")
CallRemoveRegex(i, h) == CallPlain(i, h, "remove_regex")
CallRegexSet(i, h) == CallPlain(i, h, "regex_set")

(* osrc_abort_open_object sends the handle of the open;                    *)
(* osrc_abort_remove_regex_object and osrc_abort_regex_object_set_multiple *)
(* _attrs send the spin identifier behind its length.                      *)
CallAbort(i, h, j, what, cmd) ==
  Waiting(h) = {j} /\ call[j].cmd = what /\ Send(i, [New(h, cmd) EXCEPT !.of = {j}])
CallAbortOpen(i, h, j) == CallAbort(i, h, j, "open", "abort_open")
CallAbortRemoveRegex(i, h, j) == CallAbort(i, h, j, "remove_regex", "abort_remove_regex")
CallAbortRegexSet(i, h, j) == CallAbort(i, h, j, "regex_set", "abort_regex_set")

(* A caller that will never hear of its call.                              *)
Unheard(c) == IF c.waiting THEN [New(c.h, "status") EXCEPT !.at = "lost"] ELSE Idle

(* The caller gives up after osrc->timeout.                                *)
Settled(c) == IF c.at \in {"lost", "response"} THEN Idle ELSE [c EXCEPT !.waiting = FALSE]
Timeout(i) ==
  /\ call[i].waiting /\ call[i].h \in up
  /\ call' = [call EXCEPT ![i] = Settled(@)]
  /\ UNCHANGED <<up, beats, known, child, ongoing, aborts, spin>>

(* The answers: osrc_response_open keeps the descriptor and starts the     *)
(* heartbeat of the host; a refusal, like the other answers, is a status.  *)
(* osrc_response_close_object stops a heartbeat under the descriptor's     *)
(* key, which none was started under, so that the one of the host goes on. *)
ResponseOpen(i) ==
  /\ call[i].at = "response" /\ call[i].h \in up /\ call[i].cmd = "open"
  /\ call' = [call EXCEPT ![i] = Idle]
  /\ known' = [known EXCEPT ![call[i].h] = @ \cup {call[i].fd}]
  /\ beats' = beats \cup {call[i].h}
  /\ UNCHANGED <<up, child, ongoing, aborts, spin>>
ResponseStatus(i) ==
  /\ call[i].at = "response" /\ call[i].h \in up /\ call[i].cmd # "open"
  /\ call' = [call EXCEPT ![i] = Idle]
  /\ UNCHANGED <<up, beats, known, child, ongoing, aborts, spin>>

Dead(c, h) == IF c.h # h THEN c ELSE Settled(c)
ClientDies(h) ==
  /\ h \in up /\ up' = up \ {h} /\ beats' = beats \ {h}
  /\ known' = [known EXCEPT ![h] = {}]
  /\ call' = [i \in Slots |-> Dead(call[i], h)]
  /\ UNCHANGED <<child, ongoing, aborts, spin>>

MessageLost(i) ==
  /\ call[i].at \in {"request", "response"}
  /\ call' = [call EXCEPT ![i] = Unheard(@)]
  /\ UNCHANGED <<up, beats, known, child, ongoing, aborts, spin>>

-----------------------------------------------------------------------------
(* The server.  A callback answers once; nobody reads the answer of a call *)
(* its caller gave up.  A descriptor comes with the answer to an open that *)
(* was granted; any other answer is a status.                              *)

Starts(i, cmd) == call[i].at = "request" /\ call[i].cmd = cmd
Answered(c, granted) ==
  IF ~c.waiting THEN Idle
  ELSE IF granted THEN [c EXCEPT !.at = "response"] ELSE [New(c.h, "status") EXCEPT !.at = "response"]
Answer(i, granted) == call' = [call EXCEPT ![i] = Answered(@, granted)]
Stage(i, at) == call' = [call EXCEPT ![i].at = at]

(* mq_ongoing_get and mq_ongoing_release: a descriptor is in use while a   *)
(* callback holds it, and only one not in use is removed.                  *)
Held(f) == {i \in Slots : \/ call[i].at \in {"half", "held"} /\ f = call[i].fd
                          \/ call[i].at = "held" /\ f = call[i].to}
Gettable(i, f) == f \in ongoing /\ child[f] = call[i].h
Unreferenced(f) ==
  /\ child[f] = NoHost /\ f \notin ongoing
  /\ \A h \in Hosts : f \notin known[h]
  /\ \A i \in Slots : f \notin {call[i].fd, call[i].to}

ChildClose(f) == child' = [child EXCEPT ![f] = NoHost]

(* osrs_open_object_cb: the child's open is entered in the abort table and *)
(* awaited; what it opened is registered under the client's host.  The key *)
(* is sent back.                                                           *)
OpenStart(i) ==
  /\ Starts(i, "open") /\ Stage(i, "opening")
  /\ aborts' = aborts \cup {i}
  /\ UNCHANGED <<up, beats, known, child, ongoing, spin>>
OpenGranted(i) ==
  /\ call[i].at = "opening"
  /\ \E f \in Fds :
       /\ Unreferenced(f) /\ \A e \in Fds : Unreferenced(e) => f <= e
       /\ call' = [call EXCEPT ![i].at = "opened", ![i].fd = f]
       /\ child' = [child EXCEPT ![f] = call[i].h]
  /\ UNCHANGED <<up, beats, known, ongoing, aborts, spin>>
OpenRefused(i) ==
  /\ call[i].at \in {"opening", "aborted"} /\ Answer(i, FALSE)
  /\ aborts' = aborts \ {i}
  /\ UNCHANGED <<up, beats, known, child, ongoing, spin>>
OpenAnswer_Unregistered(i) ==
  /\ call[i].at = "opened" /\ aborts' = aborts \ {i} /\ Answer(i, TRUE)
  /\ UNCHANGED <<up, beats, known, child, ongoing, spin>>
OpenAnswer(i) ==
  /\ call[i].at = "opened" /\ aborts' = aborts \ {i}
  /\ ongoing' = ongoing \cup {call[i].fd}
  /\ Answer(i, TRUE)
  /\ UNCHANGED <<up, beats, known, child, spin>>

(* osrs_abort_open_object_cb, osrs_perform_abort_handle: an open that still*)
(* waits ends, one the child has granted is left as it is.                 *)
PerformAbort(j) == j \in aborts /\ call[j].at = "opening"
AbortOpen(i) ==
  /\ Starts(i, "abort_open")
  /\ LET hit == {j \in call[i].of : PerformAbort(j)} IN
       call' = [j \in Slots |-> IF j = i THEN Answered(call[i], FALSE)
                                ELSE IF j \in hit
                                THEN [call[j] EXCEPT !.at = "aborted"] ELSE call[j]]
  /\ UNCHANGED <<up, beats, known, child, ongoing, aborts, spin>>

(* osrs_close_object_cb: only the callback that takes the descriptor out   *)
(* of the ongoing table closes it.                                         *)
Takes(i, f) == Gettable(i, f) /\ Held(f) = {}
CloseTake(i) ==
  /\ Starts(i, "close") /\ Takes(i, call[i].fd)
  /\ ongoing' = ongoing \ {call[i].fd} /\ Stage(i, "closing")
  /\ UNCHANGED <<up, beats, known, child, aborts, spin>>
CloseUnknown(i) ==
  /\ Starts(i, "close") /\ ~Gettable(i, call[i].fd)
  /\ Answer(i, FALSE)
  /\ UNCHANGED <<up, beats, known, child, ongoing, aborts, spin>>
CloseChild(i) ==
  /\ call[i].at = "closing" /\ ChildClose(call[i].fd)
  /\ Answer(i, FALSE)
  /\ UNCHANGED <<up, beats, known, ongoing, aborts, spin>>

(* The ongoing monitor: the heartbeat of a host was missed, the failure    *)
(* routine given to mq_ongoing_add is the child's close_object.            *)
OngoingExpire(f) ==
  /\ f \in ongoing /\ Held(f) = {}
  /\ ongoing' = ongoing \ {f} /\ ChildClose(f)
  /\ UNCHANGED <<up, beats, known, call, aborts, spin>>

(* The callbacks on a descriptor: it is looked up, used by the child's     *)
(* operation and released.  osrs_copy_mult_attr_cb looks up two.           *)
Gets(i, cmd, at) ==
  /\ Starts(i, cmd) /\ Gettable(i, call[i].fd)
  /\ call' = [call EXCEPT ![i].at = at, ![i].cmd = "attrs"]
  /\ UNCHANGED <<up, beats, known, child, ongoing, aborts, spin>>
Gives(i) ==
  /\ Answer(i, FALSE)
  /\ UNCHANGED <<up, beats, known, child, ongoing, aborts, spin>>

GetAttrs(i) == Gets(i, "get_attrs", "held")
SetAttrs_NotHeld(i) == Gets(i, "set_attrs", "loose")
SetAttrs(i) == Gets(i, "set_attrs", "held")
MoveAttrs(i) == Gets(i, "move_attrs", "held")
SymlinkAttrs(i) == Gets(i, "symlink_attrs", "held")
AttrIter(i) == Gets(i, "attr_iter", "held")
CopyAttrs(i) == Gets(i, "copy_attrs", "half")
CopyAttrsDest(i) ==
  /\ call[i].at = "half"
  /\ IF Gettable(i, call[i].to) THEN Stage(i, "held") ELSE Answer(i, FALSE)
  /\ UNCHANGED <<up, beats, known, child, ongoing, aborts, spin>>
AttrsUnknown(i) ==
  /\ call[i].at = "request" /\ call[i].cmd \in FdCmds
  /\ ~Gettable(i, call[i].fd) /\ Gives(i)
AttrsDone(i) == call[i].at \in {"held", "loose"} /\ Gives(i)

-----------------------------------------------------------------------------
(* The callbacks on names run the child's operation, wait for it and       *)
(* answer its status: what the names are is the child's (OsNamespace).     *)

NameCb(i, cmd) ==
  /\ Starts(i, cmd) /\ Answer(i, FALSE)
  /\ UNCHANGED <<up, beats, known, child, ongoing, aborts, spin>>
ExistsCb(i) == NameCb(i, "exists")
CreateCb(i) == NameCb(i, "create")
RemoveCb(i) == NameCb(i, "remove")
MoveCb(i) == NameCb(i, "move")
SymlinkCb(i) == NameCb(i, "symlink")
HardlinkCb(i) == NameCb(i, "hardlink")
FsckObjectCb(i) == NameCb(i, "fsck")

-----------------------------------------------------------------------------
(* Bulk operations: registered in the spin table, run on the child and     *)
(* polled once a second; ended when their spin heartbeat is too old.       *)

RemoveRegexStart(i) ==
  /\ Starts(i, "remove_regex") /\ Stage(i, "bulk") /\ spin' = [spin EXCEPT ![i] = "fresh"]
  /\ UNCHANGED <<up, beats, known, child, ongoing, aborts>>
RegexSetStart(i) ==
  /\ Starts(i, "regex_set") /\ Stage(i, "registered") /\ spin' = [spin EXCEPT ![i] = "fresh"]
  /\ UNCHANGED <<up, beats, known, child, ongoing, aborts>>
RegexSetRun(i) ==
  /\ call[i].at = "registered" /\ Stage(i, "bulk")
  /\ UNCHANGED <<up, beats, known, child, ongoing, aborts, spin>>

BulkEnds(i) ==
  /\ call[i].at = "bulk" /\ Stage(i, "ended")
  /\ UNCHANGED <<up, beats, known, child, ongoing, aborts, spin>>
Expired_Never(i) == FALSE
Expired(i) == spin[i] = "stale"
BulkPoll(i) == Expired(i) /\ BulkEnds(i)
BulkAnswer(i) ==
  /\ call[i].at = "ended" /\ spin' = [spin EXCEPT ![i] = "none"]
  /\ Answer(i, FALSE)
  /\ UNCHANGED <<up, beats, known, child, ongoing, aborts>>

(* The caller's heartbeat and osrs_spin_hb_cb; time passing without one.   *)
SpinHeartbeat(i) ==
  /\ spin[i] # "none" /\ call[i].waiting /\ call[i].h \in up
  /\ spin' = [spin EXCEPT ![i] = "fresh"]
  /\ UNCHANGED <<up, beats, known, call, child, ongoing, aborts>>
SpinLapse(i) ==
  /\ spin[i] = "fresh" /\ spin' = [spin EXCEPT ![i] = "stale"]
  /\ UNCHANGED <<up, beats, known, call, child, ongoing, aborts>>

(* osrs_abort_remove_regex_object_cb, osrs_abort_regex_set_mult_attr_cb:   *)
(* the frame is compared, length and all, with the keys of the table.  The *)
(* answer bears the host for its identifier: no caller recognises it.      *)
SpinKey(j) == <<j>>
AbortKey(j) == <<"length", j>>
AbortBulk(i, cmd) ==
  /\ Starts(i, cmd)
  /\ LET hit == {j \in Slots : spin[j] # "none" /\ \E k \in call[i].of : AbortKey(k) = SpinKey(j)}
     IN  call' = [j \in Slots |-> IF j = i THEN Unheard(call[i])
                                  ELSE IF j \in hit /\ call[j].at = "bulk"
                                  THEN [call[j] EXCEPT !.at = "ended"] ELSE call[j]]
  /\ UNCHANGED <<up, beats, known, child, ongoing, aborts, spin>>
AbortRemoveRegex(i) == AbortBulk(i, "abort_remove_regex")
AbortRegexSet(i) == AbortBulk(i, "abort_regex_set")

-----------------------------------------------------------------------------
Client(i) ==
  \/ \E h \in Hosts :
       \/ CallOpen(i, h)
       \/ \E f \in Fds :
            \/ CallClose(i, h, f)
            \/ CallGetAttrs(i, h, f)
            \/ CallSetAttrs(i, h, f)
            \/ CallMoveAttrs(i, h, f)
            \/ CallSymlinkAttrs(i, h, f)
            \/ CallAttrIter(i, h, f)
            \/ \E g \in Fds : CallCopyAttrs(i, h, f, g)
       \/ CallExists(i, h)
       \/ CallCreate(i, h)
       \/ CallRemove(i, h)
       \/ CallMove(i, h)
       \/ CallSymlink(i, h)
       \/ CallHardlink(i, h)
       \/ CallFsckObject(i, h)
       \/ CallRemoveRegex(i, h)
       \/ CallRegexSet(i, h)
       \/ \E j \in Slots : \/ CallAbortOpen(i, h, j)
                           \/ CallAbortRemoveRegex(i, h, j)
                           \/ CallAbortRegexSet(i, h, j)
  \/ Timeout(i)
  \/ ResponseOpen(i)
  \/ ResponseStatus(i)

Server(i) ==
  \/ OpenStart(i)
  \/ OpenGranted(i)
  \/ OpenRefused(i)
  \/ OpenAnswer(i)
  \/ AbortOpen(i)
  \/ CloseTake(i)
  \/ CloseUnknown(i)
  \/ CloseChild(i)
  \/ GetAttrs(i)
  \/ SetAttrs(i)
  \/ CopyAttrs(i)
  \/ CopyAttrsDest(i)
  \/ MoveAttrs(i)
  \/ SymlinkAttrs(i)
  \/ AttrIter(i)
  \/ AttrsUnknown(i)
  \/ AttrsDone(i)
  \/ ExistsCb(i)
  \/ CreateCb(i)
  \/ RemoveCb(i)
  \/ MoveCb(i)
  \/ SymlinkCb(i)
  \/ HardlinkCb(i)
  \/ FsckObjectCb(i)
  \/ RemoveRegexStart(i)
  \/ RegexSetStart(i)
  \/ RegexSetRun(i)
  \/ BulkPoll(i)
  \/ BulkAnswer(i)
  \/ AbortRemoveRegex(i)
  \/ AbortRegexSet(i)

Next ==
  \/ \E i \in Slots : \/ Client(i) \/ Server(i) \/ BulkEnds(i)
                      \/ SpinHeartbeat(i) \/ SpinLapse(i) \/ MessageLost(i)
  \/ \E f \in Fds : OngoingExpire(f)
  \/ \E h \in Hosts : ClientDies(h)

(* The callbacks run to their end, the monitor wakes up every              *)
(* ongoing_interval, time passes for a bulk operation nobody waits for.    *)
Fairness ==
  /\ \A i \in Slots : WF_vars(Server(i)) /\ WF_vars(~call[i].waiting /\ SpinLapse(i))
  /\ \A f \in Fds : WF_vars(child[f] \notin beats /\ OngoingExpire(f))

Spec == Init /\ [][Next]_vars /\ Fairness

-----------------------------------------------------------------------------
(* A callback never works on a descriptor that was closed under it, be it  *)
(* by a close of a caller that gave up waiting or by the monitor           *)
(* (mq_ongoing_get and mq_ongoing_release around the child's operation).   *)
HeldStaysOpen ==
  \A i \in Slots :
    /\ call[i].at \in {"half", "held", "loose"} => child[call[i].fd] = call[i].h
    /\ call[i].at = "held" /\ call[i].to # NoFd => child[call[i].to] = call[i].h

(* A descriptor of a client that died, or that never learned it has one,   *)
(* is closed in the end, and so its lock freed (the ongoing monitor).      *)
OrphansClosed ==
  \A f \in Fds : (child[f] # NoHost /\ child[f] \notin beats)
                   ~> (child[f] = NoHost \/ child[f] \in beats)

(* A bulk operation whose caller died or stopped waiting is ended by its   *)
(* callback, however long the child would go on (the spin heartbeat).      *)
AbandonedBulkEnds ==
  \A i \in Slots : (call[i].at = "bulk" /\ ~call[i].waiting) ~> (call[i].at # "bulk")
=============================================================================
