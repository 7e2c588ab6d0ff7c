---------------------------- MODULE ResourceService ----------------------------
(***************************************************************************)
(* rs_simple.c, rs_remote_server.c and rs_remote_client.c.  A server reads *)
(* the table of resources from a file, asks the depots for their state and *)
(* numbers the versions of the table; a client keeps one request for a     *)
(* newer version open, writes the answer to a file of its own, and its     *)
(* rs_simple reads that file.  Lists of resources are model values of      *)
(* Lists, a table is a list and the set of its resources that are down.    *)
(* seq numbers the tables of the server; it is history: versions and files *)
(* carry the number of the table they stand for.                           *)
(***************************************************************************)
EXTENDS Integers, Sequences, FiniteSets, SequencesExt, FiniteSetsExt

CONSTANTS Lists, Depots,
          Dynamic,      \* dynamic_mapping
          Draws,        \* random numbers drawn for a status version
          MaxClock, MaxEdits, MaxFlips, MaxLoss

VARIABLES
  clock,    \* seconds: the resolution of a file's modification time
  sfile,    \* the server's file
  down,     \* the depots that do not answer
  srs,      \* rs_simple on the server and its check thread
  note,     \* the version the check thread gave out
  mon,      \* the monitor thread of the remote server
  rq,       \* the client's open request
  cver,     \* the version the client has
  cfile,    \* the client's file
  crs,      \* rs_simple on the client
  rhist     \* history: faults so far and the ways an update goes missing
rvars == <<clock, sfile, down, srs, note, mon, rq, cver, cfile, crs, rhist>>

Ver(m, s, n) == [map |-> m, st |-> s, seq |-> n]
SameVersion(v, w) == v.map = w.map /\ v.st = w.st
NoRq == [pc |-> "idle", ver |-> Ver(0, 0, 0), due |-> FALSE, wake |-> FALSE,
         rver |-> Ver(0, 0, 0), tab |-> {}, seq |-> 0]
Table(list, off) == [list |-> list, off |-> off]

(* rs_simple_create on both sides, the client after its first fetch. *)
RsInit == LET l == CHOOSE l \in Lists : TRUE IN
  /\ clock = 1 /\ down = {}
  /\ sfile = [list |-> l, mtime |-> 1]
  /\ srs = [tab |-> Table(l, {}), mtime |-> 1, cur |-> 0, seq |-> 1,
            pc |-> "top", tell |-> FALSE, change |-> FALSE]
  /\ note = Ver(0, 0, 0)
  /\ mon = [pc |-> "sleep", my |-> Ver(0, 0, 0), all |-> FALSE, tab |-> {}, seq |-> 0]
  /\ rq = NoRq /\ cver = Ver(0, 0, 0)
  /\ cfile = [tab |-> Table(l, {}), mtime |-> 0, seq |-> 1]
  /\ crs = [tab |-> Table(l, {}), mtime |-> 0, stop |-> FALSE]
  /\ rhist = [edits |-> 0, flips |-> 0, loss |-> 0, miss |-> FALSE]

-----------------------------------------------------------------------------
(* The environment, while there is a client to tell.  Time is seen only    *)
(* when a file is written: Now is when that happens.                       *)
Now == clock .. (IF clock < MaxClock THEN clock + 1 ELSE clock)

(* The administrator's change goes unseen if the time does not change. *)
EditFile == \E l \in Lists \ {sfile.list}, now \in Now :
  /\ rhist.edits < MaxEdits /\ ~crs.stop
  /\ clock' = now
  /\ sfile' = [list |-> l, mtime |-> now]
  /\ rhist' = [rhist EXCEPT !.edits = @ + 1, !.miss = @ \/ srs.mtime = now]
  /\ UNCHANGED <<down, srs, note, mon, rq, cver, cfile, crs>>

DepotFlip == \E d \in Depots :
  /\ rhist.flips < MaxFlips /\ ~crs.stop
  /\ down' = IF d \in down THEN down \ {d} ELSE down \cup {d}
  /\ rhist' = [rhist EXCEPT !.flips = @ + 1]
  /\ UNCHANGED <<clock, sfile, srs, note, mon, rq, cver, cfile, crs>>

-----------------------------------------------------------------------------
(* rs_simple on the server. *)

(* _rs_simple_load *)
Loaded(list) == Table(list, {})
(* rss_get_rid_config: the table as it is now, with the states. *)
RidConfig == srs.tab

(* _rs_simple_refresh: a file of another time is loaded, all resources up. *)
Refresh(s) == IF s.mtime = sfile.mtime THEN s
              ELSE [s EXCEPT !.tab = Loaded(sfile.list), !.mtime = sfile.mtime, !.seq = @ + 1]

(* rs_simple_request by any thread starts with a refresh. *)
RequestRefresh ==
  /\ srs.mtime # sfile.mtime
  /\ srs' = Refresh(srs)
  /\ UNCHANGED <<clock, sfile, down, note, mon, rq, cver, cfile, crs, rhist>>

(* rss_check_thread, the part under the lock. *)
CheckTop ==
  /\ srs.pc = "top"
  /\ LET s == Refresh(srs) IN
     srs' = [s EXCEPT !.pc = "inquire", !.tell = s.cur # s.mtime, !.cur = s.mtime]
  /\ UNCHANGED <<clock, sfile, down, note, mon, rq, cver, cfile, crs, rhist>>

(* rss_perform_check: the depots' answers are used unless the file was     *)
(* loaded again while they were awaited.                                   *)
PerformCheck ==
  /\ srs.pc = "inquire"
  /\ LET used    == srs.mtime = srs.cur
         changed == used /\ srs.tab.off # down
     IN srs' = [srs EXCEPT !.pc = IF srs.tell \/ changed THEN "notify" ELSE "top", !.change = changed,
                           !.tab.off = IF used THEN down ELSE @,
                           !.seq = IF changed THEN @ + 1 ELSE @]
  /\ UNCHANGED <<clock, sfile, down, note, mon, rq, cver, cfile, crs, rhist>>

(* rss_mapping_notify: the map version is the time of the file, the status *)
(* version a random number, which is not stored if it is 0.                *)
MappingNotify ==
  /\ srs.pc = "notify"
  /\ \E draw \in Draws :
       LET st == IF srs.change /\ draw > 0 THEN draw ELSE note.st
           v  == Ver(srs.cur, st, srs.seq)
           tells == (srs.tell /\ Dynamic) \/ srs.change
       IN /\ ~srs.change => draw = 0
          /\ note' = IF tells THEN v ELSE note
          /\ rhist' = [rhist EXCEPT !.miss = @ \/ (tells /\ SameVersion(v, note))
                                               \/ (srs.tell /\ ~tells)]
  /\ srs' = [srs EXCEPT !.pc = "top", !.tell = FALSE, !.change = FALSE]
  /\ UNCHANGED <<clock, sfile, down, mon, rq, cver, cfile, crs>>

-----------------------------------------------------------------------------
(* The remote server. *)

(* rsrs_monitor_thread: a new version is taken over and told to everyone;  *)
(* otherwise the requests about to expire are answered.                    *)
Monitor ==
  /\ mon.pc = "sleep"
  /\ LET changed == ~SameVersion(mon.my, note) IN
     /\ changed \/ (rq.pc = "pending" /\ rq.due /\ rq.wake)
     /\ mon' = [mon EXCEPT !.pc = "read", !.my = IF changed THEN note ELSE @, !.all = changed]
  /\ UNCHANGED <<clock, sfile, down, srs, note, rq, cver, cfile, crs, rhist>>

(* rsrs_client_notify: the table is read first, then the requests are      *)
(* answered under the lock.  The walk leaves out the request behind one it *)
(* answers, and its time is then not among those waited for.               *)
NotifyRead ==
  /\ mon.pc = "read"
  /\ mon' = [mon EXCEPT !.pc = "send", !.tab = RidConfig, !.seq = srs.seq]
  /\ UNCHANGED <<clock, sfile, down, srs, note, rq, cver, cfile, crs, rhist>>

NotifySend_Latest == \E skipped \in BOOLEAN :
  /\ mon.pc = "send"
  /\ skipped => rhist.loss < MaxLoss /\ rq.pc = "pending"
  /\ rhist' = [rhist EXCEPT !.loss = @ + IF skipped THEN 1 ELSE 0]
  /\ mon' = [mon EXCEPT !.pc = "sleep", !.all = FALSE, !.tab = {}, !.seq = 0]
  /\ rq' = IF rq.pc # "pending" THEN rq
           ELSE IF skipped THEN [rq EXCEPT !.wake = FALSE]
           ELSE IF mon.all \/ rq.due
           THEN [NoRq EXCEPT !.pc = "reply", !.rver = note, !.tab = mon.tab, !.seq = mon.seq]
           ELSE rq
  /\ UNCHANGED <<clock, sfile, down, srs, note, cver, cfile, crs>>

NotifySend_NoExpiry == \E skipped \in BOOLEAN :
  /\ mon.pc = "send"
  /\ skipped => rhist.loss < MaxLoss /\ rq.pc = "pending"
  /\ rhist' = [rhist EXCEPT !.loss = @ + IF skipped THEN 1 ELSE 0]
  /\ mon' = [mon EXCEPT !.pc = "sleep", !.all = FALSE, !.tab = {}, !.seq = 0]
  /\ rq' = IF rq.pc # "pending" THEN rq
           ELSE IF skipped THEN [rq EXCEPT !.wake = FALSE]
           ELSE IF mon.all
           THEN [NoRq EXCEPT !.pc = "reply", !.rver = mon.my, !.tab = mon.tab, !.seq = mon.seq]
           ELSE rq
  /\ UNCHANGED <<clock, sfile, down, srs, note, cver, cfile, crs>>

NotifySend == \E skipped \in BOOLEAN :
  /\ mon.pc = "send"
  /\ skipped => rhist.loss < MaxLoss /\ rq.pc = "pending"
  /\ rhist' = [rhist EXCEPT !.loss = @ + IF skipped THEN 1 ELSE 0]
  /\ mon' = [mon EXCEPT !.pc = "sleep", !.all = FALSE, !.tab = {}, !.seq = 0]
  /\ rq' = IF rq.pc # "pending" THEN rq
           ELSE IF skipped THEN [rq EXCEPT !.wake = FALSE]
           ELSE IF mon.all \/ rq.due
           THEN [NoRq EXCEPT !.pc = "reply", !.rver = mon.my, !.tab = mon.tab, !.seq = mon.seq]
           ELSE rq
  /\ UNCHANGED <<clock, sfile, down, srs, note, cver, cfile, crs>>

(* rsrs_rid_config_cb: an old version is answered at once, by              *)
(* rsrs_config_send; the current one is left pending.  The comparison, the *)
(* version, the table and the registration are separate critical sections. *)
ConfigRequest ==
  /\ rq.pc = "sent"
  /\ rq' = [NoRq EXCEPT !.pc = IF SameVersion(rq.ver, mon.my) THEN "register" ELSE "config"]
  /\ UNCHANGED <<clock, sfile, down, srs, note, mon, cver, cfile, crs, rhist>>

UpdateRegister ==
  /\ rq.pc = "register"
  /\ rq' = [rq EXCEPT !.pc = "pending", !.wake = TRUE]
  /\ UNCHANGED <<clock, sfile, down, srs, note, mon, cver, cfile, crs, rhist>>

ConfigVersion ==
  /\ rq.pc = "config"
  /\ rq' = [rq EXCEPT !.pc = "version", !.rver = mon.my]
  /\ UNCHANGED <<clock, sfile, down, srs, note, mon, cver, cfile, crs, rhist>>

ConfigTable ==
  /\ rq.pc = "version"
  /\ rq' = [rq EXCEPT !.pc = "reply", !.tab = RidConfig, !.seq = srs.seq]
  /\ UNCHANGED <<clock, sfile, down, srs, note, mon, cver, cfile, crs, rhist>>

(* The reply time set by rsrs_update_register, ten seconds before the      *)
(* client's own, comes.                                                    *)
ReplyTime ==
  /\ rq.pc = "pending" /\ ~rq.due
  /\ rq' = [rq EXCEPT !.due = TRUE]
  /\ UNCHANGED <<clock, sfile, down, srs, note, mon, cver, cfile, crs, rhist>>

(* rsrs_abort_cb: the pending request of a client that shuts down is       *)
(* answered with an empty version, which the client takes for a failure.   *)
AbortRequest ==
  /\ crs.stop /\ rq.pc = "pending"
  /\ rq' = NoRq
  /\ UNCHANGED <<clock, sfile, down, srs, note, mon, cver, cfile, crs, rhist>>

-----------------------------------------------------------------------------
(* The network and the client. *)

Lose == /\ rq.pc \in {"sent", "reply"} /\ rhist.loss < MaxLoss
        /\ rq' = [NoRq EXCEPT !.pc = "lost"]
        /\ rhist' = [rhist EXCEPT !.loss = @ + 1]
        /\ UNCHANGED <<clock, sfile, down, srs, note, mon, cver, cfile, crs>>

(* The client's wait is longer than any of the server's: it ends only for  *)
(* a request that will not be answered.  Late answers find no one.         *)
ClientTimeout ==
  /\ rq.pc = "lost" \/ (rq.pc = "pending" /\ ~rq.wake /\ mon.pc = "sleep")
  /\ rq' = NoRq
  /\ UNCHANGED <<clock, sfile, down, srs, note, mon, cver, cfile, crs, rhist>>

(* rsrc_check_thread, rsrc_update_config_op *)
UpdateConfigOp ==
  /\ rq.pc = "idle" /\ ~crs.stop
  /\ rq' = [NoRq EXCEPT !.pc = "sent", !.ver = cver]
  /\ UNCHANGED <<clock, sfile, down, srs, note, mon, cver, cfile, crs, rhist>>

(* rsrc_response_get_config: the version is stored first; then the table   *)
(* goes to a temporary file that is renamed, which may fail.               *)
ResponseGetConfig == \E fail \in BOOLEAN, now \in Now :
  /\ rq.pc = "reply"
  /\ clock' = now
  /\ fail => rhist.loss < MaxLoss
  /\ cver' = rq.rver
  /\ cfile' = IF fail THEN cfile ELSE [tab |-> rq.tab, mtime |-> now, seq |-> rq.seq]
  /\ rhist' = [rhist EXCEPT !.loss = @ + IF fail THEN 1 ELSE 0,
                            !.miss = @ \/ fail \/ (crs.mtime = now /\ crs.tab # rq.tab)]
  /\ rq' = NoRq
  /\ UNCHANGED <<sfile, down, srs, note, mon, crs>>

(* The client's rs_simple reads the file. *)
ClientRefresh ==
  /\ crs.mtime # cfile.mtime
  /\ crs' = [crs EXCEPT !.tab = cfile.tab, !.mtime = cfile.mtime]
  /\ UNCHANGED <<clock, sfile, down, srs, note, mon, rq, cver, cfile, rhist>>

(* rs_remote_client_destroy *)
ClientDestroy ==
  /\ ~crs.stop /\ rhist.loss < MaxLoss
  /\ crs' = [crs EXCEPT !.stop = TRUE]
  /\ rhist' = [rhist EXCEPT !.loss = @ + 1]
  /\ UNCHANGED <<clock, sfile, down, srs, note, mon, rq, cver, cfile>>

(* The three threads, the callbacks and the network make progress; nobody  *)
(* is obliged to edit files, flip depots, lose messages or stop.           *)
Threads == \/ CheckTop \/ PerformCheck \/ MappingNotify
Server == \/ Monitor \/ NotifyRead \/ NotifySend
Handler == ConfigRequest \/ UpdateRegister \/ ConfigVersion \/ ConfigTable
Client == UpdateConfigOp \/ ResponseGetConfig \/ ClientTimeout \/ AbortRequest
RsNext ==
  /\ ~rhist.miss
  /\ \/ EditFile \/ DepotFlip \/ RequestRefresh \/ Threads \/ Server \/ Handler
     \/ ReplyTime \/ Lose \/ Client \/ ClientRefresh \/ ClientDestroy

(* The check, monitor and client threads are loops around a bounded sleep; *)
(* callbacks run when a message comes; reply times come.                   *)
RsFairness == /\ WF_rvars(Threads) /\ WF_rvars(Server) /\ WF_rvars(Handler)
              /\ WF_rvars(Client) /\ WF_rvars(ClientRefresh) /\ WF_rvars(ReplyTime)

-----------------------------------------------------------------------------
(* A client that has a version has at least the table the version was      *)
(* given out for, in spite of the four critical sections that put an       *)
(* answer together (rsrs_config_send, rsrs_client_notify): otherwise it    *)
(* would not ask again and keep the old one.  Unless its file could not be *)
(* renamed.                                                                *)
VersionCovered == cver.seq <= cfile.seq \/ rhist.miss

(* A client that goes on running comes to have the server's table: no      *)
(* wakeup lost between comparison and registration, no message lost and no *)
(* request skipped keeps it behind for good, unless a random version was   *)
(* drawn twice, a file changed twice within a second or could not be       *)
(* renamed (rss_check_thread, rsrs_monitor_thread, rsrc_check_thread).     *)
ClientsCatchUp == <>[](crs.tab = srs.tab \/ rhist.miss \/ crs.stop)
=============================================================================
