---------------------------- MODULE SegmentLog -----------------------------
(***************************************************************************)
(* A log segment (segment_log.c): writes go to a data segment, a table     *)
(* segment records which file bytes they are, and reads see them on top of *)
(* a base segment.                                                         *)
(*                                                                         *)
(* A call reserves room in the table and the data segment under the        *)
(* segment lock, lets go of it, writes both segments at the same time, and *)
(* takes the lock again to enter its ranges in the mapping.  So ranges are *)
(* entered in the order in which calls finish, while _slog_load enters the *)
(* records of the table in the order in which they were reserved.          *)
(*                                                                         *)
(* An element of Calls is one seglog_write, seglog_truncate, seglog_read   *)
(* or slog_merge_with_base call.  A file byte is a record of who wrote it  *)
(* and for which position, so that misplaced bytes are told apart.         *)
(***************************************************************************)
EXTENDS SlogRead, TLC

CONSTANTS Calls,       \* the calls that are made
          Kinds,       \* which operations they may be
          IovLists,    \* the iov arrays of writes: sequences of [offset, len]
          NewSizes,    \* the sizes truncate is asked for
          MaxPos,      \* bound: file bytes 0..MaxPos-1 are observed
          MaxSlots,    \* bound: records in the table segment
          MaxData,     \* bound: bytes in the data segment
          BaseLen,     \* size of the base segment at the start
          MaxFaults,   \* bound: child operations that fail
          MaxCrashes,  \* bound: crashes of the process
          NoCall       \* the segment lock is free

ASSUME LogAssumption ==
  /\ Kinds \subseteq {"write", "truncate", "read", "merge"}
  /\ NewSizes \subseteq Nat
  /\ {MaxPos, MaxSlots, MaxData, BaseLen, MaxFaults, MaxCrashes} \subseteq Nat
  /\ BaseLen <= MaxPos
  /\ \A v \in IovLists : v \in Seq([offset : Nat, len : Nat \ {0}]) /\ v # <<>>
  /\ NoCall \notin Calls

Pos   == 0..(MaxPos - 1)
Blank == [lo |-> 0, hi |-> 0, data_offset |-> 0]

NoRead == [hole |-> FALSE, sure |-> {}, want |-> <<>>, has |-> <<>>]
NoArg == [iov |-> <<>>, n |-> 0, trunc |-> FALSE]

Byte(who, p) == [who |-> who, pos |-> p]
Zero         == Byte("zero", 0)

VARIABLES
  mode,       \* "up", "down" after a crash, "loading" in _slog_load
  mapping,    \* s->mapping
  file_size,  \* s->file_size
  log_size,   \* s->log_size, in records
  data_size,  \* s->data_size
  lock,       \* the call that holds the segment lock over several steps
  table,      \* the records of the table segment
  table_len,  \* its size
  data,       \* the bytes of the data segment
  data_len,   \* its size
  base,       \* the bytes of the base segment
  base_len,   \* its size
  pc,         \* where each call is
  arg,        \* iov of a write, new_size or n_iov, truncate_old_log
  recs,       \* the records a call writes to the table, hi being a length
  slot,       \* table_offset
  off,        \* data_offset
  pend,       \* child operations not finished yet
  bad,        \* one of them failed
  todo,       \* ranges left to enter in the mapping, or plan of a read
  load_i,     \* next record to load
  faults,     \* child operations that failed so far
  crashes,    \* crashes so far
  view,       \* history: what each byte was when the last call finished
  clean,      \* history: bytes of a write no other open call wrote meanwhile
  torn,       \* history: bytes written by a call that failed or was cut off
  raced,      \* history: bytes written by two calls at the same time
  serial,     \* history: calls came one after the other and none failed
  spoiled,    \* history: a merge emptied the log under another call, or halfway
  got         \* history: what a read should have, and has, returned

memory  == <<mode, mapping, file_size, log_size, data_size, lock, load_i>>
storage == <<table, table_len, data, data_len, base, base_len>>
call    == <<pc, arg, recs, slot, off, pend, bad, todo>>
limits  == <<faults, crashes>>
history == <<view, clean, torn, raced, serial, spoiled, got>>
vars    == <<memory, storage, call, limits, history>>

PCs == {"idle", "write", "truncate", "insert", "read", "merge", "copied",
        "done", "failed", "dead"}

\* Only one integer-valued bound is not implied by the code: table and data
\* are arrays of MaxSlots records and MaxData bytes.
TypeOK ==
  /\ mode \in {"up", "down", "loading"}
  /\ mapping \subseteq Ranges /\ IsFiniteSet(mapping)
  /\ file_size \in Int /\ log_size \in 0..MaxSlots /\ data_size \in 0..MaxData
  /\ lock \in Calls \cup {NoCall}
  /\ table_len \in 0..MaxSlots /\ data_len \in 0..MaxData
  /\ DOMAIN table = 0..(MaxSlots - 1) /\ DOMAIN data = 0..(MaxData - 1)
  /\ DOMAIN base = Pos /\ base_len \in 0..MaxPos
  /\ pc \in [Calls -> PCs]
  /\ pend \in [Calls -> SUBSET {"table", "data"}]
  /\ torn \subseteq Pos /\ raced \subseteq Pos

-----------------------------------------------------------------------------
SumLen(iov) ==
  LET sum[k \in 0..Len(iov)] == IF k = 0 THEN 0 ELSE sum[k - 1] + iov[k].len
  IN  sum

IovBytes(iov) ==
  UNION {{p \in Pos : iov[k].offset <= p /\ p < iov[k].offset + iov[k].len} :
         k \in 1..Len(iov)}

Writing(t) == pc[t] \in {"write", "insert"}
InFlight(t) == pc[t] \in {"write", "insert", "truncate"}

\* The file bytes that the call t is writing.
Touched(t) == IF Writing(t) THEN IovBytes(arg[t].iov) ELSE {}

DataAt(d, o) == IF o \in DOMAIN d THEN d[o] ELSE Zero
BaseAt(p)    == IF p \in Pos /\ p < base_len THEN base[p] ELSE Zero

At(seg, o) == IF seg = "base" THEN BaseAt(o) ELSE DataAt(data, o)

\* What the buffer holds after the pieces of a read were fetched.
Fetch(plan) ==
  LET src == Sources(plan)
  IN  [k \in 1..Len(src) |-> At(src[k].seg, src[k].offset)]

\* What a reader finds at byte p.
ReadIn(m, d, p) ==
  IF Offsets(m, p) = {} THEN BaseAt(p)
  ELSE DataAt(d, CHOOSE o \in Offsets(m, p) : TRUE)

Read(p) == ReadIn(mapping, data, p)

Larger(a, b) == IF a >= b THEN a ELSE b

CanFault == faults < MaxFaults

Init ==
  /\ mode = "up" /\ mapping = {} /\ file_size = BaseLen
  /\ log_size = 0 /\ data_size = 0 /\ lock = NoCall /\ load_i = 0
  /\ table = [s \in 0..(MaxSlots - 1) |-> Blank] /\ table_len = 0
  /\ data = [o \in 0..(MaxData - 1) |-> Zero] /\ data_len = 0
  /\ base = [p \in Pos |-> IF p < BaseLen THEN Byte("base", p) ELSE Zero]
  /\ base_len = BaseLen
  /\ pc = [t \in Calls |-> "idle"]
  /\ arg = [t \in Calls |-> NoArg] /\ recs = [t \in Calls |-> <<>>]
  /\ slot = [t \in Calls |-> 0] /\ off = [t \in Calls |-> 0]
  /\ pend = [t \in Calls |-> {}] /\ bad = [t \in Calls |-> FALSE]
  /\ todo = [t \in Calls |-> <<>>]
  /\ faults = 0 /\ crashes = 0
  /\ view = base /\ clean = [t \in Calls |-> {}]
  /\ torn = {} /\ raced = {} /\ serial = TRUE /\ spoiled = FALSE
  /\ got = [t \in Calls |-> NoRead]

Free == mode = "up" /\ lock = NoCall

-----------------------------------------------------------------------------
(* seglog_write_func *)

\* Reserve the space in the table and data segments.
WriteReserve(t, v) ==
  LET sum == SumLen(v)
  IN  /\ Free /\ pc[t] = "idle" /\ "write" \in Kinds
      /\ log_size + Len(v) <= MaxSlots /\ data_size + sum[Len(v)] <= MaxData
      /\ pc' = [pc EXCEPT ![t] = "write"]
      /\ arg' = [arg EXCEPT ![t].iov = v]
      /\ recs' = [recs EXCEPT ![t] =
                    [k \in 1..Len(v) |-> [lo |-> v[k].offset, hi |-> v[k].len,
                                          data_offset |-> data_size + sum[k - 1]]]]
      /\ slot' = [slot EXCEPT ![t] = log_size]
      /\ off' = [off EXCEPT ![t] = data_size]
      /\ log_size' = log_size + Len(v)
      /\ data_size' = data_size + sum[Len(v)]
      /\ pend' = [pend EXCEPT ![t] = {"table", "data"}]
      /\ clean' = [u \in Calls |->
                     IF u # t THEN clean[u] \ IovBytes(v)
                     ELSE IF \E w \in Calls : pc[w] = "truncate" THEN {}
                     ELSE IovBytes(v) \ UNION {Touched(w) : w \in Calls}]
      /\ serial' = (serial /\ \A w \in Calls : ~InFlight(w))
      /\ UNCHANGED <<mode, mapping, file_size, lock, load_i, storage, bad, todo,
                     limits, view, torn, raced, spoiled, got>>

\* The bytes a write or a growing truncate puts in the data segment, by offset.
DataOf(t) ==
  IF pc[t] = "truncate"
  THEN (off[t] + recs[t][1].hi - 1) :> Zero
  ELSE [o \in off[t]..(off[t] + SumLen(arg[t].iov)[Len(arg[t].iov)] - 1) |->
          LET r == CHOOSE r \in {recs[t][k] : k \in 1..Len(recs[t])} :
                     r.data_offset <= o /\ o < r.data_offset + r.hi
          IN  Byte(t, r.lo + (o - r.data_offset))]

\* One of the two segment_write operations of the call ends.  One that fails
\* may have stored its bytes all the same.
ChildWrite(t, c, ok, landed) ==
  /\ mode = "up" /\ pc[t] \in {"write", "truncate"} /\ c \in pend[t]
  /\ ok => landed
  /\ ok \/ CanFault
  /\ pend' = [pend EXCEPT ![t] = @ \ {c}]
  /\ bad' = [bad EXCEPT ![t] = @ \/ ~ok]
  /\ faults' = IF ok THEN faults ELSE faults + 1
  /\ IF landed /\ c = "table"
     THEN /\ table' = [s \in 0..(MaxSlots - 1) |-> IF s - slot[t] + 1 \in 1..Len(recs[t])
                                              THEN recs[t][s - slot[t] + 1] ELSE table[s]]
          /\ table_len' = Larger(table_len, slot[t] + Len(recs[t]))
     ELSE UNCHANGED <<table, table_len>>
  /\ IF landed /\ c = "data"
     THEN LET d == DataOf(t)
          IN  /\ data' = [o \in 0..(MaxData - 1) |-> IF o \in DOMAIN d THEN d[o] ELSE data[o]]
              /\ data_len' = Larger(data_len, 1 + CHOOSE o \in DOMAIN d : o + 1 \notin DOMAIN d)
     ELSE UNCHANGED <<data, data_len>>
  /\ UNCHANGED <<memory, base, base_len, pc, arg, recs, slot, off, todo, crashes,
                 history>>

\* On disk hi is a length, in the mapping the last byte.
InMemory(r) == [lo |-> r.lo, hi |-> r.lo + r.hi - 1, data_offset |-> r.data_offset]

WriteDone(t) ==
  /\ Free /\ pc[t] = "write" /\ pend[t] = {}
  /\ IF bad[t]
     THEN /\ pc' = [pc EXCEPT ![t] = "failed"]
          /\ torn' = torn \cup Touched(t)
          /\ serial' = FALSE
          /\ UNCHANGED <<lock, todo>>
     ELSE /\ pc' = [pc EXCEPT ![t] = "insert"]
          /\ lock' = t
          /\ todo' = [todo EXCEPT ![t] = [k \in 1..Len(recs[t]) |-> InMemory(recs[t][k])]]
          /\ UNCHANGED <<torn, serial>>
  /\ UNCHANGED <<mode, mapping, file_size, log_size, data_size, load_i, storage, arg,
                 recs, slot, off, pend, bad, limits, view, clean, raced, spoiled, got>>

\* Update the mappings, the lock being held over the loop.
WriteInsert(t) ==
  LET r == Head(todo[t])
  IN  /\ mode = "up" /\ lock = t /\ pc[t] = "insert"
      /\ mapping' = InsertRange(mapping, r)
      /\ file_size' = InsertSize(file_size, r)
      /\ todo' = [todo EXCEPT ![t] = Tail(@)]
      /\ view' = [p \in Pos |-> IF r.lo <= p /\ p <= r.hi THEN Byte(t, p) ELSE view[p]]
      /\ IF Tail(todo[t]) = <<>>
         THEN /\ lock' = NoCall
              /\ pc' = [pc EXCEPT ![t] = "done"]
              /\ torn' = torn \ clean[t]
              /\ raced' = (raced \ clean[t]) \cup (Touched(t) \ clean[t])
         ELSE UNCHANGED <<lock, pc, torn, raced>>
      /\ UNCHANGED <<mode, log_size, data_size, load_i, storage, arg, recs, slot, off,
                     pend, bad, limits, clean, serial, spoiled, got>>

-----------------------------------------------------------------------------
(* seglog_truncate_func *)

\* The first critical section: a record for a shrink, a record and the last
\* byte of the blanks for a grow, nothing when the size is right already.
TruncateStart(t, n) ==
  LET shrink == n < file_size
      len    == n - file_size
  IN  /\ Free /\ pc[t] = "idle" /\ "truncate" \in Kinds
      /\ arg' = [arg EXCEPT ![t].n = n]
      /\ IF n = file_size
         THEN /\ pc' = [pc EXCEPT ![t] = "done"]
              /\ UNCHANGED <<recs, slot, off, pend, log_size, data_size, clean, serial>>
         ELSE /\ log_size + 1 <= MaxSlots
              /\ ~shrink => data_size + len <= MaxData
              /\ pc' = [pc EXCEPT ![t] = "truncate"]
              /\ recs' = [recs EXCEPT ![t] =
                   IF shrink
                   THEN <<[lo |-> -1, hi |-> n - 1, data_offset |-> -1]>>
                   ELSE <<[lo |-> file_size - 1, hi |-> len, data_offset |-> data_size]>>]
              /\ slot' = [slot EXCEPT ![t] = log_size]
              /\ off' = [off EXCEPT ![t] = data_size]
              /\ log_size' = log_size + 1
              /\ data_size' = IF shrink THEN data_size ELSE data_size + len
              /\ pend' = [pend EXCEPT ![t] = IF shrink THEN {"table"} ELSE {"table", "data"}]
              /\ clean' = [u \in Calls |-> {}]
              /\ serial' = (serial /\ \A w \in Calls : ~InFlight(w))
      /\ UNCHANGED <<mode, mapping, file_size, lock, load_i, storage, bad, todo, limits,
                     view, torn, raced, spoiled, got>>

\* _slog_insert_range: a range with lo = -1 is a truncate.
EnterRange(r) ==
  IF r.lo = -1
  THEN /\ mapping' = TruncateRange(mapping, r.hi, file_size)
       /\ file_size' = r.hi + 1
  ELSE /\ mapping' = InsertRange(mapping, r)
       /\ file_size' = InsertSize(file_size, r)

\* The test before _slog_insert_range compares with the size the file has by
\* now, and takes a shrink for a grow.
TruncateDone(t) ==
  LET r      == recs[t][1]
      shrink == arg[t].n < file_size
  IN  /\ Free /\ pc[t] = "truncate" /\ pend[t] = {}
      /\ pc' = [pc EXCEPT ![t] = IF bad[t] THEN "failed" ELSE "done"]
      /\ IF bad[t]
         THEN /\ torn' = Pos
              /\ serial' = FALSE
              /\ UNCHANGED <<mapping, file_size, view, raced>>
         ELSE /\ EnterRange(IF shrink THEN InMemory(r) ELSE r)
              /\ view' = [p \in Pos |-> ReadIn(mapping', data, p)]
              /\ raced' = IF serial THEN raced ELSE Pos
              /\ torn' = IF shrink THEN torn ELSE Pos
              /\ serial' = (serial /\ shrink)
      /\ UNCHANGED <<mode, log_size, data_size, lock, load_i, storage, arg, recs, slot,
                     off, pend, bad, todo, limits, clean, spoiled, got>>

-----------------------------------------------------------------------------
(* seglog_read_func *)

\* Map the bytes to segments, under the lock.
ReadStart(t, lo, hi) ==
  /\ Free /\ pc[t] = "idle" /\ "read" \in Kinds
  /\ pc' = [pc EXCEPT ![t] = "read"]
  /\ todo' = [todo EXCEPT ![t] = ReadPlan(mapping, lo, hi)]
  /\ got' = [got EXCEPT ![t] = [hole |-> OneByteHole(mapping, lo, hi),
                                sure |-> {k \in 1..(hi - lo + 1) : lo + k - 1 \notin torn},
                                want |-> [k \in 1..(hi - lo + 1) |-> Read(lo + k - 1)],
                                has  |-> <<>>]]
  /\ UNCHANGED <<memory, storage, arg, recs, slot, off, pend, bad, limits, view, clean,
                 torn, raced, serial, spoiled>>

\* The reads of the pieces end.
ReadDone(t, ok) ==
  /\ Free /\ pc[t] = "read"
  /\ ok \/ CanFault
  /\ pc' = [pc EXCEPT ![t] = IF ok THEN "done" ELSE "failed"]
  /\ faults' = IF ok THEN faults ELSE faults + 1
  /\ got' = IF ok THEN [got EXCEPT ![t].has = Fetch(todo[t])] ELSE got
  /\ UNCHANGED <<memory, storage, arg, recs, slot, off, pend, bad, todo, crashes, view,
                 clean, torn, raced, serial, spoiled>>

-----------------------------------------------------------------------------
(* seglog_merge_with_base_func, for ranges that fit in its buffer *)

\* n_iov is read before the lock is taken.
MergeCount(t, trunc) ==
  /\ mode = "up" /\ pc[t] = "idle" /\ "merge" \in Kinds
  /\ pc' = [pc EXCEPT ![t] = "merge"]
  /\ arg' = [arg EXCEPT ![t] = [iov |-> <<>>, n |-> Cardinality(mapping), trunc |-> trunc]]
  /\ UNCHANGED <<memory, storage, recs, slot, off, pend, bad, todo, limits, history>>

LowestRanges_MissesLast(k) ==
  {ir \in mapping : Cardinality({x \in mapping : x.lo < ir.lo}) < k - 1}

\* The k lowest ranges of the mapping.
LowestRanges(k) ==
  {ir \in mapping : Cardinality({x \in mapping : x.lo < ir.lo}) < k}

\* The k lowest ranges are written to the base.
CopyRanges(k) ==
  LET m == LowestRanges(k)
  IN  /\ base' = [p \in Pos |-> IF Offsets(m, p) # {} THEN ReadIn(m, data, p) ELSE base[p]]
      /\ base_len' = LET his == {ir.hi + 1 : ir \in m} \cup {base_len}
                     IN  CHOOSE x \in his : \A y \in his : x >= y

\* Copy the ranges and, if asked to, forget them.  With fewer ranges than were
\* counted the iterator returns NULL and the process dies: see MergeNull.
MergeCopy(t) ==
  LET others == \E u \in Calls \ {t} : pc[u] \in {"write", "insert", "truncate", "read"}
  IN  /\ Free /\ pc[t] = "merge" /\ arg[t].n <= Cardinality(mapping)
      /\ CopyRanges(arg[t].n)
      /\ IF arg[t].trunc
         THEN /\ mapping' = TruncateRange(mapping, -1, file_size)
              /\ file_size' = 0
              /\ lock' = t
              /\ pc' = [pc EXCEPT ![t] = "copied"]
              /\ pend' = [pend EXCEPT ![t] = {"table", "data"}]
              /\ spoiled' = (spoiled \/ others \/ arg[t].n # Cardinality(mapping))
         ELSE /\ pc' = [pc EXCEPT ![t] = "done"]
              /\ UNCHANGED <<mapping, file_size, lock, pend, spoiled>>
      /\ UNCHANGED <<mode, log_size, data_size, load_i, table, table_len, data, data_len,
                     arg, recs, slot, off, bad, todo, limits, view, clean, torn, raced,
                     serial, got>>

\* A read or a write fails after k ranges were copied.
MergeFails(t, k) ==
  /\ Free /\ pc[t] = "merge" /\ 0 < arg[t].n /\ k <= arg[t].n
  /\ arg[t].n <= Cardinality(mapping)
  /\ CanFault
  /\ CopyRanges(k)
  /\ pc' = [pc EXCEPT ![t] = "failed"]
  /\ faults' = faults + 1
  /\ UNCHANGED <<memory, table, table_len, data, data_len, arg, recs, slot, off, pend,
                 bad, todo, crashes, history>>

\* The truncates of the table and of the data segment, at the same time.
MergeTrunc(t, c, ok) ==
  /\ mode = "up" /\ pc[t] = "copied" /\ c \in pend[t]
  /\ ok \/ CanFault
  /\ pend' = [pend EXCEPT ![t] = @ \ {c}]
  /\ bad' = [bad EXCEPT ![t] = @ \/ ~ok]
  /\ faults' = IF ok THEN faults ELSE faults + 1
  /\ IF ok /\ c = "table"
     THEN table' = [s \in 0..(MaxSlots - 1) |-> Blank] /\ table_len' = 0
     ELSE UNCHANGED <<table, table_len>>
  /\ IF ok /\ c = "data"
     THEN data' = [o \in 0..(MaxData - 1) |-> Zero] /\ data_len' = 0
     ELSE UNCHANGED <<data, data_len>>
  /\ UNCHANGED <<memory, base, base_len, pc, arg, recs, slot, off, todo, crashes, history>>

MergeDone(t) ==
  /\ mode = "up" /\ pc[t] = "copied" /\ pend[t] = {}
  /\ pc' = [pc EXCEPT ![t] = IF bad[t] THEN "failed" ELSE "done"]
  /\ log_size' = 0 /\ data_size' = 0
  /\ lock' = NoCall
  /\ spoiled' = (spoiled \/ bad[t])
  /\ UNCHANGED <<mode, mapping, file_size, load_i, storage, arg, recs, slot, off, pend,
                 bad, todo, limits, view, clean, torn, raced, serial, got>>

-----------------------------------------------------------------------------
(* Crash of the process, and _slog_load when the segment is opened again *)

Open(t) == pc[t] \notin {"idle", "done", "failed", "dead"}

Die ==
  /\ mode' = "down"
  /\ lock' = NoCall
  /\ pc' = [t \in Calls |-> IF Open(t) THEN "dead" ELSE pc[t]]
  /\ torn' = IF \E t \in Calls : pc[t] = "truncate" THEN Pos
             ELSE torn \cup UNION {Touched(t) : t \in Calls}
  /\ serial' = (serial /\ \A t \in Calls : ~InFlight(t))
  /\ spoiled' = (spoiled \/ \E t \in Calls :
                         pc[t] = "copied" /\ (pend[t] = {"table"} \/ bad[t]))
  /\ UNCHANGED <<mapping, file_size, log_size, data_size, load_i, storage, arg, recs, slot,
                 off, pend, bad, todo, faults, view, clean, raced, got>>

Crash ==
  /\ mode # "down" /\ crashes < MaxCrashes
  /\ crashes' = crashes + 1
  /\ Die

\* seglog_merge_with_base_func: r is NULL.
MergeNull(t) ==
  /\ Free /\ pc[t] = "merge" /\ arg[t].n > Cardinality(mapping)
  /\ Die
  /\ UNCHANGED crashes

LoadStart ==
  /\ mode = "down"
  /\ mode' = "loading"
  /\ mapping' = {}
  /\ file_size' = base_len /\ log_size' = table_len /\ data_size' = data_len
  /\ load_i' = 0
  /\ UNCHANGED <<lock, storage, call, limits, history>>

BlankRecord_ByOffset(r) == r.lo = 0

BlankRecord(r) == r = Blank \/ (r.hi = 0 /\ r.lo # -1)

\* One turn of the loop: the record is entered, or ignored because it is blank
\* or could not be read.
LoadRecord(ok) ==
  LET r == table[load_i]
  IN  /\ mode = "loading" /\ load_i < log_size
      /\ ok \/ CanFault
      /\ load_i' = load_i + 1
      /\ faults' = IF ok THEN faults ELSE faults + 1
      /\ IF ok /\ ~BlankRecord(r)
         THEN EnterRange(InMemory(r))
         ELSE UNCHANGED <<mapping, file_size>>
      /\ torn' = CASE ok -> torn
                   [] r.lo = -1 -> Pos
                   [] OTHER -> torn \cup {p \in Pos : r.lo <= p /\ p < r.lo + r.hi}
      /\ raced' = IF ok /\ r.lo = -1 /\ ~serial THEN Pos ELSE raced
      /\ serial' = (serial /\ ok)
      /\ UNCHANGED <<mode, log_size, data_size, lock, storage, call, crashes, view, clean,
                     spoiled, got>>

LoadDone ==
  /\ mode = "loading" /\ load_i = log_size
  /\ mode' = "up"
  /\ view' = [p \in Pos |-> Read(p)]
  /\ UNCHANGED <<mapping, file_size, log_size, data_size, lock, load_i, storage, call,
                 limits, clean, torn, raced, serial, spoiled, got>>

\* All calls have returned.
Finished ==
  /\ mode = "up" /\ \A t \in Calls : ~Open(t)
  /\ UNCHANGED vars

Next ==
  \/ \E t \in Calls :
       \/ \E v \in IovLists : WriteReserve(t, v)
       \/ \E c \in {"table", "data"}, ok, landed \in BOOLEAN : ChildWrite(t, c, ok, landed)
       \/ WriteDone(t)
       \/ WriteInsert(t)
       \/ \E n \in NewSizes : TruncateStart(t, n)
       \/ TruncateDone(t)
       \/ \E lo, hi \in Pos : lo <= hi /\ ReadStart(t, lo, hi)
       \/ \E ok \in BOOLEAN : ReadDone(t, ok)
       \/ \E trunc \in BOOLEAN : MergeCount(t, trunc)
       \/ MergeCopy(t)
       \/ \E k \in 0..Cardinality(mapping) : MergeFails(t, k)
       \/ \E c \in {"table", "data"}, ok \in BOOLEAN : MergeTrunc(t, c, ok)
       \/ MergeDone(t)
       \/ MergeNull(t)
  \/ Crash
  \/ LoadStart
  \/ \E ok \in BOOLEAN : LoadRecord(ok)
  \/ LoadDone
  \/ Finished

Spec == Init /\ [][Next]_vars

-----------------------------------------------------------------------------
(* Properties *)

\* A byte of the file is never mapped to two places of the data segment,
\* whatever ranges _slog_insert_range and _slog_truncate_range cut, split and
\* joined before, live or in a replay.
OnePlace == \A p \in Pos : Cardinality(Offsets(mapping, p)) <= 1

\* A reader of a byte finds what the last write that returned success put
\* there: ranges laid over each other, split and combined while other writes
\* are in flight never make a byte point at someone else's data.  Bytes of
\* failed or cut-off calls are excepted, and logs emptied by a merge under a
\* call in flight.
NewestWins ==
  mode = "up" /\ ~spoiled => \A p \in Pos \ torn : Read(p) = view[p]

\* _slog_load brings back every byte that was written by a call which returned
\* success, with no other call writing that byte at the same time, wherever the
\* crash fell and however many other writes failed or were cut off.
LoadRecoversAcked ==
  mode = "loading" /\ load_i = log_size /\ ~spoiled
    => \A p \in Pos \ (torn \cup raced) : Read(p) = view[p]

\* A read returns the bytes the file held when the read took the lock, although
\* the segments are read after it let go of it.  Reads that start one byte in
\* front of a range are excepted, and bytes of failed or cut-off calls.
ReadsRight ==
  \A t \in Calls : got[t].want # <<>> /\ pc[t] = "done" /\ ~spoiled /\ ~got[t].hole
    => /\ Len(got[t].has) = Len(got[t].want)
       /\ \A k \in got[t].sure : got[t].has[k] = got[t].want[k]

\* A successful merge leaves in the base what a reader of the log sees, if no
\* write was entered between the count and the lock.
MergeCopiesLog ==
  [][\A t \in Calls :
       /\ pc[t] = "merge" /\ pc'[t] \in {"done", "copied"}
       /\ arg[t].n = Cardinality(mapping)
       => \A p \in Pos : BaseAt(p)' = Read(p)]_vars

-----------------------------------------------------------------------------
(* The inductive invariant behind OnePlace, for logs that are not truncated *)

IsSeq(s) == s \in Seq({s[k] : k \in DOMAIN s})

GoodRecord(r) == r.lo \in Nat /\ r.hi \in Nat \ {0}
GoodRange(r)  == r.lo \in Nat /\ r.hi \in Int /\ r.lo <= r.hi

\* The records a write has reserved room for.
RecsInv(t) ==
  /\ IsSeq(recs[t]) /\ recs[t] # <<>>
  /\ slot[t] + Len(recs[t]) <= MaxSlots
  /\ \A k \in 1..Len(recs[t]) : GoodRecord(recs[t][k])

\* The ranges a write still has to enter.
TodoInv(t) ==
  /\ IsSeq(todo[t]) /\ todo[t] # <<>>
  /\ \A k \in 1..Len(todo[t]) : GoodRange(todo[t][k])

\* The table in memory has no overlaps, and neither has what may still be
\* entered in it: every record of a call in flight and every record that a
\* later _slog_load can find is a proper range.
LogInv ==
  /\ pc \in [Calls -> PCs \ {"truncate"}]
  /\ slot \in [Calls -> Nat]
  /\ DOMAIN recs = Calls /\ DOMAIN todo = Calls
  /\ log_size \in 0..MaxSlots /\ table_len \in 0..MaxSlots /\ load_i \in Nat
  /\ \A t \in Calls : pc[t] = "write" => RecsInv(t)
  /\ \A t \in Calls : pc[t] = "insert" => TodoInv(t)
  /\ \A s \in 0..(MaxSlots - 1) : table[s] = Blank \/ GoodRecord(table[s])
  /\ \A ir \in mapping : ir.lo \in Int /\ ir.hi \in Int
  /\ Disjoint(mapping)

=============================================================================
