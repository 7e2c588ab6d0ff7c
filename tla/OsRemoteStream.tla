---------------------------- MODULE OsRemoteStream -----------------------------
(***************************************************************************)
(* Iterators of the remote object service.  The server walks the child's   *)
(* iterator and writes what it finds on a stream with nothing between the  *)
(* items but their own lengths; the client reads it item by item as its    *)
(* caller asks, objects and their attributes from the one stream.  The     *)
(* stream may break at any time.  The server keeps a table of the hosts it *)
(* served last.                                                            *)
(*                                                                         *)
(* Abstracted: what a name or a value is, the packets of the stream.       *)
(***************************************************************************)
EXTENDS Naturals, Sequences, FiniteSets, SequencesExt

CONSTANTS
  Clients,      \* hosts with an iterator each
  Others,       \* hosts that only have other callbacks served
  MaxObjs,      \* bound: entries of a listing
  MaxAttrs,     \* bound: attributes of an entry that match
  MaxActive     \* osrs->max_active

ASSUME StreamAssumption ==
  /\ IsFiniteSet(Clients) /\ IsFiniteSet(Others) /\ MaxObjs \in Nat /\ MaxAttrs \in Nat
  /\ MaxActive \in Nat \ {0}

VARIABLES
  iter,     \* iter[c]: the client's iterator
  pipe,     \* pipe[c]: the stream: what was written, whether it broke
  serve,    \* serve[c]: the server's callback
  active    \* osrs->active_lru, the host served last first

svars == <<iter, pipe, serve, active>>

Kinds == {"alist", "aregex", "plain", "attrs", "fsck"}
NoIter == [kind |-> "none", read |-> 0, more |-> FALSE, over |-> FALSE, crashed |-> FALSE,
           got |-> <<>>, end |-> "no"]
NoServe == [at |-> "idle", sent |-> 0]
NoPipe == [out |-> <<>>, broken |-> FALSE]

InitStream ==
  /\ iter = [c \in Clients |-> NoIter] /\ pipe = [c \in Clients |-> NoPipe]
  /\ serve = [c \in Clients |-> NoServe] /\ active = <<>>

-----------------------------------------------------------------------------
(* osrs_update_active_table: a new host takes the place of the one served  *)
(* longest ago, and a host just served goes to the front.                  *)
Evicted(a) == IF Len(a) >= MaxActive THEN Front(a) ELSE a
UpdateActive(c) ==
  active' = <<c>> \o (IF c \in ToSet(active) THEN SelectSeq(active, LAMBDA x : x # c)
                      ELSE Evicted(active))

(* osrs_get_mult_attr_cb and the loop of a bulk operation serve a host too.*)
OtherServed(h) == UpdateActive(h) /\ UNCHANGED <<iter, pipe, serve>>

Write(c, items) == pipe' = [pipe EXCEPT ![c].out = IF pipe[c].broken THEN @ ELSE @ \o items]

(* A callback creates the child's iterator and writes the status.          *)
ServeStart(c) ==
  /\ serve[c].at = "request"
  /\ \E ok \in BOOLEAN :
       /\ Write(c, <<<<"status", IF ok THEN 1 ELSE 0>>>>)
       /\ serve' = [serve EXCEPT ![c].at = IF ok THEN "list" ELSE "idle"]
  /\ UpdateActive(c) /\ UNCHANGED iter

(* An item with what belongs to it: a fixed list of attribute values, the  *)
(* attributes that match and a null, a key and its value, a bad object.    *)
Values(k, n) == [j \in 1 .. n |-> <<"attr", k>>]
Null == <<"null", 0>>
ServeItem(c, items) ==
  /\ serve[c].at = "list" /\ serve[c].sent < MaxObjs /\ ~pipe[c].broken
  /\ Write(c, items) /\ serve' = [serve EXCEPT ![c].sent = @ + 1]
  /\ UpdateActive(c) /\ UNCHANGED iter
ServeAlist(c) ==
  /\ iter[c].kind = "alist"
  /\ ServeItem(c, <<<<"obj", serve[c].sent + 1>>>> \o Values(serve[c].sent + 1, MaxAttrs))
ServeAregex(c) ==
  /\ iter[c].kind = "aregex"
  /\ \E n \in 0 .. MaxAttrs :
       ServeItem(c, <<<<"obj", serve[c].sent + 1>>>> \o Values(serve[c].sent + 1, n) \o <<Null>>)
ServePlain(c) == iter[c].kind = "plain" /\ ServeItem(c, <<<<"obj", serve[c].sent + 1>>>>)
ServeAttr(c) == iter[c].kind = "attrs" /\ ServeItem(c, <<<<"attr", serve[c].sent + 1>>>>)
ServeFsck(c) == iter[c].kind = "fsck" /\ ServeItem(c, <<<<"bad", serve[c].sent + 1>>>>)

(* No more items, or an item could not be written: the last null, and the  *)
(* stream is flushed.                                                      *)
ServeEnd(c) ==
  /\ serve[c].at = "list" /\ Write(c, <<Null>>)
  /\ serve' = [serve EXCEPT ![c].at = "idle"]
  /\ UNCHANGED <<iter, active>>

StreamBreaks(c) ==
  /\ iter[c].kind # "none" /\ ~pipe[c].broken
  /\ pipe' = [pipe EXCEPT ![c].broken = TRUE]
  /\ UNCHANGED <<iter, serve, active>>

-----------------------------------------------------------------------------
(* The client.  Reading waits for data and fails when the stream is broken *)
(* (or, after the last null, because there is no more to come).            *)
Unread(c) == SubSeq(pipe[c].out, iter[c].read + 1, Len(pipe[c].out))
Fails(c) == pipe[c].broken \/ (Unread(c) = <<>> /\ serve[c].at = "idle")
Readable(c, n) == Len(Unread(c)) >= n

(* osrc_create_object_iter, osrc_create_object_iter_alist,                 *)
(* osrc_create_attr_iter, osrc_create_fsck_iter; the iterator of the       *)
(* attributes of an object shares the stream and has nothing to give yet.  *)
CreateIter(c, kind) ==
  /\ iter[c].kind = "none"
  /\ iter' = [iter EXCEPT ![c] = [NoIter EXCEPT !.kind = kind, !.end = "wait",
                                                !.more = (kind = "attrs")]]
  /\ serve' = [serve EXCEPT ![c] = [at |-> "request", sent |-> 0]]
  /\ pipe' = [pipe EXCEPT ![c] = NoPipe] /\ UNCHANGED active

(* osrc_response_object_iter, osrc_response_attr_iter,                     *)
(* osrc_response_fsck_iter: a failure to read the status is a failure.     *)
IterCreated(c) ==
  /\ iter[c].end = "wait"
  /\ \/ /\ Readable(c, 1)
        /\ iter' = [iter EXCEPT ![c] = IF Unread(c)[1][2] = 1
                                       THEN [iter[c] EXCEPT !.read = 1, !.end = "no"] ELSE NoIter]
     \/ Fails(c) /\ iter' = [iter EXCEPT ![c] = NoIter]
  /\ UNCHANGED <<pipe, serve, active>>

Ready(c, kinds) == iter[c].kind \in kinds /\ iter[c].end = "no" /\ ~iter[c].crashed

(* osrc_next_object: the attributes the caller left are to be dropped by   *)
(* osrc_next_attr, which is given no place for the size of the value; a    *)
(* failure to read ends the listing like its last null.                    *)
MoreAfter_NotReset(c) == FALSE
MoreAfter(c) == iter[c].kind = "aregex"
NextObject(c) ==
  /\ Ready(c, {"alist", "aregex", "plain"})
  /\ \/ /\ iter[c].more /\ iter' = [iter EXCEPT ![c].crashed = TRUE]
     \/ LET n == IF iter[c].kind = "alist" THEN MaxAttrs ELSE 0
            x == Unread(c)[1]
        IN  /\ ~iter[c].more /\ Readable(c, 1) /\ (x[1] # "null" => Readable(c, 1 + n))
            /\ iter' = [iter EXCEPT
                 ![c] = IF x[1] = "null" THEN [iter[c] EXCEPT !.read = @ + 1, !.end = "end"]
                        ELSE [iter[c] EXCEPT !.read = @ + 1 + n,
                                             !.got = Append(@, <<"obj", x[2]>>),
                                             !.more = MoreAfter(c)]]
     \/ ~iter[c].more /\ Fails(c) /\ iter' = [iter EXCEPT ![c].end = "end"]
  /\ UNCHANGED <<pipe, serve, active>>

(* osrc_next_attr: of an object, or of an iterator of its own.  A stream   *)
(* that failed once gives nothing more (external).                         *)
NextAttr(c) ==
  /\ Ready(c, {"aregex", "attrs"}) /\ iter[c].more
  /\ \/ /\ Readable(c, 1)
        /\ LET x == Unread(c)[1] IN
             iter' = [iter EXCEPT ![c] =
                        IF x[1] = "null" THEN [iter[c] EXCEPT !.read = @ + 1, !.more = FALSE]
                        ELSE [iter[c] EXCEPT !.read = @ + 1, !.got = Append(@, <<"attr", x[2]>>)]]
     \/ /\ Fails(c)
        /\ iter' = [iter EXCEPT ![c].more = FALSE, ![c].read = Len(pipe[c].out)]
  /\ UNCHANGED <<pipe, serve, active>>

(* osrc_next_fsck: an error ends the iterator, and is told apart.          *)
NextFsck(c) ==
  /\ Ready(c, {"fsck"}) /\ ~iter[c].over
  /\ \/ /\ Readable(c, 1)
        /\ LET x == Unread(c)[1] IN
             iter' = [iter EXCEPT ![c] =
                        IF x[1] = "null" THEN [iter[c] EXCEPT !.read = @ + 1, !.over = TRUE, !.end = "end"]
                        ELSE [iter[c] EXCEPT !.read = @ + 1, !.got = Append(@, <<"bad", x[2]>>)]]
     \/ Fails(c) /\ iter' = [iter EXCEPT ![c].over = TRUE, ![c].end = "error"]
  /\ UNCHANGED <<pipe, serve, active>>

(* osrc_destroy_object_iter, osrc_destroy_attr_iter, osrc_destroy_fsck_iter*)
DestroyIter(c) ==
  /\ iter[c].kind # "none" /\ iter[c].end # "wait" /\ ~iter[c].crashed
  /\ iter' = [iter EXCEPT ![c] = NoIter]
  /\ pipe' = [pipe EXCEPT ![c].broken = TRUE, ![c].out = <<>>]
  /\ UNCHANGED <<serve, active>>

NextStream ==
  \/ \E h \in Others : OtherServed(h)
  \/ \E c \in Clients :
       \/ (serve[c].at = "idle" /\ \E kind \in Kinds : CreateIter(c, kind))
       \/ IterCreated(c)
       \/ NextObject(c)
       \/ NextAttr(c)
       \/ NextFsck(c)
       \/ DestroyIter(c)
       \/ StreamBreaks(c)
       \/ ServeStart(c)
       \/ ServeAlist(c)
       \/ ServeAregex(c)
       \/ ServePlain(c)
       \/ ServeAttr(c)
       \/ ServeFsck(c)
       \/ ServeEnd(c)

-----------------------------------------------------------------------------
(* The number of the entry an item of a listing belongs to.                *)
LastNum(got) == IF got = <<>> THEN 0 ELSE got[Len(got)][2]
OfEntry(kind, x) == kind = "aregex" /\ x[1] = "attr"
InOrder(kind, got) ==
  \A i \in 1 .. Len(got) :
    IF OfEntry(kind, got[i]) THEN i > 1 /\ got[i][2] = got[i - 1][2]
    ELSE got[i][2] = 1 + (IF i = 1 THEN 0 ELSE got[i - 1][2])

(* The client takes every item for what the server wrote: the caller gets  *)
(* the entries in the order of the child's iterator with none missing,     *)
(* each attribute under the object it belongs to, and a listing that ends  *)
(* on a whole stream is complete (osrc_next_object, osrc_next_attr against *)
(* osrs_object_iter_aregex_cb and the like).                               *)
ListingFaithful ==
  \A c \in Clients :
    /\ InOrder(iter[c].kind, iter[c].got)
    /\ iter[c].end = "end" /\ ~pipe[c].broken => LastNum(iter[c].got) = serve[c].sent
=============================================================================
