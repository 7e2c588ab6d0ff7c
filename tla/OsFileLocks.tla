---------------------------- MODULE OsFileLocks ----------------------------
(***************************************************************************)
(* The object locks of the file-backed object service (os_file.c).         *)
(*                                                                         *)
(* osfile_open_object with a blocking mode takes a whole-object lock that  *)
(* is shared between readers and exclusive for a writer; osfile_close      *)
(* gives it back.  A lock (fobj_lock_t, "fol") is taken from a pigeon coop *)
(* the first time an object is opened and returned when nobody holds it or *)
(* waits for it.  Openers that must wait queue on fol->stack and sleep on  *)
(* a condition variable with a timeout; whoever lets them in pops them     *)
(* from the queue and clears handle->abort, and they count themselves in   *)
(* once they have osf->fobj_lock again.                                    *)
(*                                                                         *)
(* Every action is one critical section under osf->fobj_lock.  An element  *)
(* of Opens is one osfile_open_object call together with the fd it makes.  *)
(***************************************************************************)
EXTENDS Naturals, Sequences, FiniteSets

CONSTANTS Opens,    \* open calls, each with its fd and uuid
          Objects,  \* object names
          Holes,    \* slots of the fobj_pc pigeon coop
          Modes,    \* the open modes that are used
          NoHole    \* NULL result of list_search(osf->fobj_table)

READ_IMMEDIATE  == "read_immediate"
WRITE_IMMEDIATE == "write_immediate"
READ_BLOCKING   == "read_blocking"
WRITE_BLOCKING  == "write_blocking"
AllModes == {READ_IMMEDIATE, WRITE_IMMEDIATE, READ_BLOCKING, WRITE_BLOCKING}

ASSUME OpensAssumption == IsFiniteSet(Opens)
ASSUME ModesAssumption == Modes \subseteq AllModes
ASSUME HolesAssumption == NoHole \notin Holes

VARIABLES
  mode,         \* fd->mode, chosen by the caller
  name,         \* fd->object_name
  pc,           \* where the open call is
  abort,        \* handle->abort of a sleeping opener
  hole,         \* the fol that the opener found or created
  table,        \* osf->fobj_table: object name -> fol
  free,         \* unreserved holes of osf->fobj_pc
  stack,        \* fol->stack: sleeping openers, oldest first
  active,       \* fol->active_stack: the fds that hold the lock
  read_count,   \* fol->read_count
  write_count,  \* fol->write_count
  halted,       \* what became of the thread that left fobj_lock locked
  raced         \* history: someone was let in past a woken opener

request == <<mode, name>>
opener  == <<pc, abort, hole>>
fol     == <<stack, active, read_count, write_count>>
vars    == <<request, opener, table, free, fol, halted, raced>>

PCs == {"idle", "waiting", "aborted", "open", "failed", "closed"}

TypeOK ==
  /\ mode \in [Opens -> Modes]
  /\ name \in [Opens -> Objects]
  /\ pc \in [Opens -> PCs]
  /\ abort \in [Opens -> BOOLEAN]
  /\ hole \in [Opens -> Holes \cup {NoHole}]
  /\ table \in [Objects -> Holes \cup {NoHole}]
  /\ free \in SUBSET Holes
  /\ stack \in [Holes -> Seq(Opens)]
  /\ active \in [Holes -> SUBSET Opens]
  /\ read_count \in [Holes -> Nat]
  /\ write_count \in [Holes -> Nat]
  /\ halted \in {"no", "mutex_kept", "null_fol"}
  /\ raced \in BOOLEAN

Init ==
  /\ mode \in [Opens -> Modes]
  /\ name \in [Opens -> Objects]
  /\ pc = [t \in Opens |-> "idle"]
  /\ abort = [t \in Opens |-> FALSE]
  /\ hole = [t \in Opens |-> NoHole]
  /\ table = [o \in Objects |-> NoHole]
  /\ free = Holes
  /\ stack = [h \in Holes |-> <<>>]
  /\ active = [h \in Holes |-> {}]
  /\ read_count = [h \in Holes |-> 0]
  /\ write_count = [h \in Holes |-> 0]
  /\ halted = "no"
  /\ raced = FALSE

-----------------------------------------------------------------------------
IsReader(t) == mode[t] = READ_BLOCKING
IsLocked(t) == mode[t] # READ_IMMEDIATE
IsWriter(t) == mode[t] \in {WRITE_BLOCKING, WRITE_IMMEDIATE}

Conflict(t, u) == IsWriter(t) \/ IsWriter(u)

\* Openers that were popped from the queue and have not run since.
Granted(h) == {t \in Opens : pc[t] = "waiting" /\ ~abort[t] /\ hole[t] = h}

\* Remove the entry of t, if any, from a queue.
Without(s, t) ==
  IF \E i \in 1..Len(s) : s[i] = t
  THEN LET k == CHOOSE i \in 1..Len(s) : s[i] = t
       IN  [i \in 1..(Len(s) - 1) |-> IF i < k THEN s[i] ELSE s[i + 1]]
  ELSE s

\* (Operators named X_Y are plausible mistakes in X; no specification uses
\* them.)
MustWait_ForgetsReaders(t, h) ==
  \/ write_count[h] # 0
  \/ stack[h] # <<>> /\ (IsReader(t) => mode[Head(stack[h])] = WRITE_BLOCKING)

\* full_object_lock: the tests that send an opener to fobj_wait.
MustWait(t, h) ==
  \/ write_count[h] # 0
  \/ IF IsReader(t)
     THEN stack[h] # <<>> /\ mode[Head(stack[h])] = WRITE_BLOCKING
     ELSE read_count[h] # 0 \/ stack[h] # <<>>

\* full_object_lock: the fol in the table, or else a hole of the pigeon coop,
\* which keeps the counts and the lists its last user left in it.
Lookup(o) == IF table[o] # NoHole THEN {table[o]} ELSE free

CountIn_ByBlockingMode(t, h) ==
  /\ pc' = [pc EXCEPT ![t] = "open"]
  /\ active' = [active EXCEPT ![h] = @ \cup {t}]
  /\ IF mode[t] # WRITE_BLOCKING
     THEN /\ read_count' = [read_count EXCEPT ![h] = @ + 1]
          /\ UNCHANGED write_count
     ELSE /\ write_count' = [write_count EXCEPT ![h] = @ + 1]
          /\ UNCHANGED read_count

\* The end of full_object_lock: count myself in and join the active list.
CountIn(t, h) ==
  /\ pc' = [pc EXCEPT ![t] = "open"]
  /\ active' = [active EXCEPT ![h] = @ \cup {t}]
  /\ IF IsReader(t)
     THEN /\ read_count' = [read_count EXCEPT ![h] = @ + 1]
          /\ UNCHANGED write_count
     ELSE /\ write_count' = [write_count EXCEPT ![h] = @ + 1]
          /\ UNCHANGED read_count

\* READ_IMMEDIATE opens take no lock at all.
OpenImmediate(t) ==
  /\ pc[t] = "idle"
  /\ ~IsLocked(t)
  /\ pc' = [pc EXCEPT ![t] = "open"]
  /\ UNCHANGED <<request, abort, hole, table, free, fol, halted, raced>>

\* The object does not exist or the caller has no access to it.
OpenRefused(t) ==
  /\ pc[t] = "idle"
  /\ pc' = [pc EXCEPT ![t] = "failed"]
  /\ UNCHANGED <<request, abort, hole, table, free, fol, halted, raced>>

\* full_object_lock that does not have to sleep.
LockNow(t) ==
  /\ halted = "no"
  /\ pc[t] = "idle"
  /\ IsLocked(t)
  /\ \E h \in Lookup(name[t]) :
       /\ ~MustWait(t, h)
       /\ table' = [table EXCEPT ![name[t]] = h]
       /\ free' = free \ {h}
       /\ hole' = [hole EXCEPT ![t] = h]
       /\ CountIn(t, h)
       /\ raced' = (raced \/ \E u \in Granted(h) : Conflict(t, u))
  /\ UNCHANGED <<request, abort, stack, halted>>

\* full_object_lock that goes to sleep in fobj_wait.
LockWait(t) ==
  /\ halted = "no"
  /\ pc[t] = "idle"
  /\ IsLocked(t)
  /\ \E h \in Lookup(name[t]) :
       /\ MustWait(t, h)
       /\ table' = [table EXCEPT ![name[t]] = h]
       /\ free' = free \ {h}
       /\ hole' = [hole EXCEPT ![t] = h]
       /\ stack' = [stack EXCEPT ![h] = Append(@, t)]
  /\ pc' = [pc EXCEPT ![t] = "waiting"]
  /\ abort' = [abort EXCEPT ![t] = TRUE]
  /\ UNCHANGED <<request, active, read_count, write_count, halted, raced>>

Wake_AbortKept(h) ==
  /\ stack' = [stack EXCEPT ![h] = Tail(@)]
  /\ UNCHANGED abort

\* Pop the queue and let its head in: it runs when it gets fobj_lock.
Wake(h) ==
  /\ stack' = [stack EXCEPT ![h] = Tail(@)]
  /\ abort' = [abort EXCEPT ![Head(stack[h])] = FALSE]

\* fobj_wait returns to an opener that was let in.  A reader passes the
\* wakeup on to a reader behind it, then the opener counts itself in.
WakeGranted(t) ==
  LET h == hole[t] IN
  /\ halted = "no"
  /\ pc[t] = "waiting"
  /\ ~abort[t]
  /\ IF IsReader(t) /\ stack[h] # <<>> /\ IsReader(Head(stack[h]))
     THEN Wake(h)
     ELSE UNCHANGED <<stack, abort>>
  /\ CountIn(t, h)
  /\ UNCHANGED <<request, hole, table, free, halted, raced>>

WakeAborted_LateTimeout(t) ==
  /\ halted = "no"
  /\ pc[t] \in {"waiting", "aborted"}
  /\ stack' = [stack EXCEPT ![hole[t]] = Without(@, t)]
  /\ pc' = [pc EXCEPT ![t] = "failed"]
  /\ UNCHANGED <<request, abort, hole, table, free, active, read_count,
                 write_count, halted, raced>>

\* fobj_wait returns to an opener that nobody let in: a timeout, an abort
\* or a spurious wakeup, which the code does not tell apart.
WakeAborted(t) ==
  /\ halted = "no"
  /\ pc[t] \in {"waiting", "aborted"}
  /\ abort[t]
  /\ stack' = [stack EXCEPT ![hole[t]] = Without(@, t)]
  /\ pc' = [pc EXCEPT ![t] = "failed"]
  /\ UNCHANGED <<request, abort, hole, table, free, active, read_count,
                 write_count, halted, raced>>

\* osfile_abort_open_object_fn on a pending open, which is aborted once.  The
\* result of list_search is used without a NULL test.  An opener that was let
\* in is no longer in the queue: the abort fails and changes nothing.
AbortOpen(t) ==
  LET h == table[name[t]] IN
  /\ halted = "no"
  /\ pc[t] = "waiting"
  /\ IF h = NoHole
     THEN halted' = "null_fol" /\ UNCHANGED <<stack, pc>>
     ELSE /\ \E i \in 1..Len(stack[h]) : stack[h][i] = t
          /\ stack' = [stack EXCEPT ![h] = Without(@, t)]
          /\ pc' = [pc EXCEPT ![t] = "aborted"]
          /\ UNCHANGED halted
  /\ UNCHANGED <<request, abort, hole, table, free, active, read_count,
                 write_count, raced>>

\* full_object_unlock: may the head of the queue go in?
MayWake(h, rc, wc) ==
  /\ stack[h] # <<>>
  /\ wc = 0
  /\ \/ mode[Head(stack[h])] = READ_BLOCKING
     \/ mode[Head(stack[h])] = WRITE_BLOCKING /\ rc = 0

\* full_object_unlock: "No one else is waiting so remove the entry".
Unused(h, rc, wc) == stack[h] = <<>> /\ rc = 0 /\ wc = 0

\* full_object_unlock once the fd is off the active list: drop an unused
\* fol, or let the next opener in.
HandOn(t, h, rc, wc) ==
  /\ IF Unused(h, rc, wc)
     THEN /\ table' = [table EXCEPT ![name[t]] = NoHole]
          /\ free' = free \cup {h}
     ELSE UNCHANGED <<table, free>>
  /\ IF MayWake(h, rc, wc) THEN Wake(h) ELSE UNCHANGED <<stack, abort>>
  /\ raced' = \/ raced
              \/ Unused(h, rc, wc) /\ Granted(h) # {}
              \/ /\ MayWake(h, rc, wc)
                 /\ \E u \in Granted(h) : Conflict(Head(stack[h]), u)

\* osfile_close_object_fn of an fd that holds the lock of its object.
Unlock(t) ==
  LET h  == table[name[t]]
      rc == IF IsReader(t) THEN read_count[h] - 1 ELSE read_count[h]
      wc == IF IsReader(t) THEN write_count[h] ELSE write_count[h] - 1
  IN
  /\ halted = "no"
  /\ pc[t] = "open"
  /\ IsLocked(t)
  /\ h # NoHole
  /\ t \in active[h]
  /\ active' = [active EXCEPT ![h] = @ \ {t}]
  /\ read_count' = [read_count EXCEPT ![h] = rc]
  /\ write_count' = [write_count EXCEPT ![h] = wc]
  /\ HandOn(t, h, rc, wc)
  /\ pc' = [pc EXCEPT ![t] = "closed"]
  /\ UNCHANGED <<request, hole, halted>>

\* osfile_close_object_fn of an fd without a lock, or one that is not on the
\* active list of the fol now in the table.
CloseUnlocked(t) ==
  LET h == table[name[t]] IN
  /\ pc[t] = "open"
  /\ ~IsLocked(t) \/ (halted = "no" /\ h # NoHole /\ t \notin active[h])
  /\ pc' = [pc EXCEPT ![t] = "closed"]
  /\ UNCHANGED <<request, abort, hole, table, free, fol, halted, raced>>

\* full_object_unlock of an object with no fol returns with fobj_lock held.
CloseKeepsMutex(t) ==
  /\ halted = "no"
  /\ pc[t] = "open"
  /\ IsLocked(t)
  /\ table[name[t]] = NoHole
  /\ pc' = [pc EXCEPT ![t] = "closed"]
  /\ halted' = "mutex_kept"
  /\ UNCHANGED <<request, abort, hole, table, free, fol, raced>>

Next ==
  \E t \in Opens :
    \/ OpenImmediate(t) \/ OpenRefused(t)
    \/ LockNow(t) \/ LockWait(t)
    \/ WakeGranted(t) \/ WakeAborted(t) \/ AbortOpen(t)
    \/ Unlock(t) \/ CloseUnlocked(t) \/ CloseKeepsMutex(t)

Spec == Init /\ [][Next]_vars

\* A woken or aborted opener runs, and a user closes what it opened.  Nothing obliges an
\* opener to time out: a lost wakeup must not be papered over by max_wait.
Fairness ==
  \A t \in Opens : /\ WF_vars(WakeGranted(t))
                   /\ WF_vars(pc[t] = "aborted" /\ WakeAborted(t))
                   /\ WF_vars(Unlock(t) \/ CloseUnlocked(t) \/ CloseKeepsMutex(t))

FairSpec == Spec /\ Fairness

-----------------------------------------------------------------------------
\* The counts the decisions are taken on are the sizes of the active list,
\* whatever holes were recycled: no close is counted twice or lost.
CountsMatchActive ==
  \A h \in Holes :
    /\ read_count[h]  = Cardinality({t \in active[h] : IsReader(t)})
    /\ write_count[h] = Cardinality({t \in active[h] : ~IsReader(t)})

\* full_object_lock: "Make sure no one else is doing anything".
MutualExclusion ==
  \A t, u \in Opens :
    (/\ t # u /\ name[t] = name[u]
     /\ pc[t] = "open" /\ IsLocked(t)
     /\ pc[u] = "open" /\ IsLocked(u)) => ~Conflict(t, u)

\* Exclusion is lost only when somebody is let in, or the fol is dropped,
\* between the wakeup of a conflicting opener and its run (raced).
ExclusionUnlessRaced == raced \/ MutualExclusion

\* The NULL dereference and the kept mutex have the same single cause.
HaltsOnlyIfRaced == raced \/ halted = "no"

\* With infinite patience a sleeping opener is let in, or gives up, or the
\* lock has been broken by a race; as long as nobody opens in WRITE_IMMEDIATE
\* mode, in which full_object_lock sleeps and full_object_unlock wakes no one.
SleepersServed ==
  \A t \in Opens : (pc[t] = "waiting" /\ \A u \in Opens : mode[u] # WRITE_IMMEDIATE)
                     ~> (pc[t] \in {"open", "failed", "closed"} \/ raced)

\* A woken opener does not find its turn taken away: once let in, nothing but
\* its own run changes its state (a late timeout or abort has no effect).
GrantIsFinal ==
  [][\A t \in Opens : (pc[t] = "waiting" /\ ~abort[t]) =>
        \/ pc'[t] = "open"
        \/ pc'[t] = "waiting" /\ ~abort'[t]]_vars

-----------------------------------------------------------------------------
\* Only fds that were opened are on an active list: needed for the counts.
ActiveStarted ==
  \A h \in Holes : \A t \in active[h] : pc[t] \in {"open", "closed"}

\* A sleeping opener sleeps on some fol.
SleepersHaveHole ==
  \A t \in Opens : pc[t] \in {"waiting", "aborted"} => hole[t] \in Holes

CountInv ==
  /\ TypeOK
  /\ CountsMatchActive
  /\ ActiveStarted
  /\ SleepersHaveHole

\* The inductive strengthening of ExclusionUnlessRaced and HaltsOnlyIfRaced.

\* Holes in the table are reserved, and by one object each.
TableInjective ==
  \A o \in Objects : table[o] # NoHole =>
    /\ table[o] \notin free
    /\ \A p \in Objects : table[p] = table[o] => p = o

\* Openers in a queue are asleep, unanswered, and queue once.
QueueConsistent ==
  \A h \in Holes : \A i \in 1..Len(stack[h]) :
    /\ pc[stack[h][i]] = "waiting"
    /\ abort[stack[h][i]]
    /\ hole[stack[h][i]] = h
    /\ table[name[stack[h][i]]] = h
    /\ IsLocked(stack[h][i])
    /\ \A j \in 1..Len(stack[h]) : stack[h][i] = stack[h][j] => i = j

\* An opener that is asleep and was neither let in nor aborted is queued.
SleepersQueued ==
  \A t \in Opens : pc[t] = "waiting" /\ abort[t] =>
    \E i \in 1..Len(stack[hole[t]]) : stack[hole[t]][i] = t

\* The owners of a fol: the fds on its active list and the woken openers.
Owners(h) == active[h] \cup Granted(h)

OwnersConsistent ==
  /\ \A h \in Holes : \A t \in active[h] : pc[t] = "open" /\ hole[t] = h
  /\ \A h \in Holes : \A t \in Owners(h) : table[name[t]] = h /\ IsLocked(t)
  /\ \A t \in Opens : pc[t] = "open" /\ IsLocked(t) =>
       hole[t] \in Holes /\ t \in active[hole[t]]
  /\ \A t \in Opens : pc[t] = "aborted" => abort[t]

OwnersExclusive ==
  \A h \in Holes : \A t, u \in Owners(h) : t # u => ~Conflict(t, u)

LockInv ==
  \/ raced
  \/ /\ halted = "no"
     /\ TableInjective
     /\ QueueConsistent
     /\ SleepersQueued
     /\ OwnersConsistent
     /\ OwnersExclusive
=============================================================================
