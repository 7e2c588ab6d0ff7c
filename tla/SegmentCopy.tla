------------------------------ MODULE SegmentCopy ------------------------------
(***************************************************************************)
(* segment_copy, segment_get and segment_put of segment_base.c, as the     *)
(* copies of lio_core_io.c and the clone of segment_log.c call them: a     *)
(* buffer in two halves, one filled from the source while the other is     *)
(* written to the destination.  A transfer is a step, so that the two of a *)
(* round come in either order.  Sources and destinations are sequences of  *)
(* bytes; segments fail a read past their end, local files cut it short.   *)
(***************************************************************************)
EXTENDS Integers, Sequences, FiniteSetsExt

CONSTANTS Half,         \* bytes in half of the buffer
          SrcLens,      \* sizes of sources
          DestLens,     \* sizes of destinations
          MaxCopyFaults

ASSUME CopyAssumption ==
  Half \in Nat \ {0} /\ SrcLens \subseteq Nat /\ DestLens \subseteq Nat /\ MaxCopyFaults \in Nat

VARIABLES csrc, cdest, cp, chist
cvars == <<csrc, cdest, cp, chist>>

Old == 0                               \* what the destination held before
Bytes(n) == [i \in 1 .. n |-> i]
Least(x, y) == IF x < y THEN x ELSE y

(* Segments, external: bytes put in place; a truncate to a negative size   *)
(* reserves space, which changes no content.                               *)
Overlay(d, pos, s) ==
  [i \in 1 .. (IF Len(d) < pos + Len(s) /\ s # <<>> THEN pos + Len(s) ELSE Len(d)) |->
     IF pos < i /\ i <= pos + Len(s) THEN s[i - pos] ELSE IF i <= Len(d) THEN d[i] ELSE Old]
Cut(d, size) == IF size < 0 THEN d ELSE [i \in 1 .. size |-> IF i <= Len(d) THEN d[i] ELSE Old]

NoCopy == [pc |-> "idle", kind |-> "none", cut |-> FALSE, nbytes |-> 0, rpos |-> 0, wpos |-> 0,
           rlen |-> 0, wlen |-> 0, buf |-> [h \in 1 .. 2 |-> [i \in 1 .. Half |-> Old]], rb |-> 1,
           todo |-> {}, bad |-> {}, ok |-> TRUE]

CopyInit == \E n \in SrcLens, d \in DestLens :
  /\ csrc = Bytes(n) /\ cdest = [i \in 1 .. d |-> Old]
  /\ cp = NoCopy
  /\ chist = [src |-> Bytes(n), faults |-> 0, cut |-> FALSE]

CopyFault == chist.faults < MaxCopyFaults
Counts(b) == chist' = [chist EXCEPT !.faults = @ + IF b THEN 1 ELSE 0]

(* How much the next read asks for; a negative count has no end. *)
ReadLen(nbytes) == IF nbytes < 0 THEN Half ELSE Least(nbytes, Half)

-----------------------------------------------------------------------------
(* The calls.  All copy from the start to the start. *)
CopyCall(kind, nbytes, cut) ==
  /\ cp.pc = "idle"
  /\ cp' = [NoCopy EXCEPT !.pc = "reserve", !.kind = kind, !.nbytes = nbytes, !.cut = cut]
  /\ UNCHANGED <<csrc, cdest, chist>>

CpLocal2Lio == CopyCall("put", -1, TRUE)
CpLio2Local == cdest = <<>> /\ CopyCall("get", Len(csrc), FALSE)
CpLio2Lio == CopyCall("copy", Len(csrc), TRUE)
SlogCloneCopy == cdest = <<>> /\ CopyCall("copy", Len(csrc), FALSE)

(* The space in the destination; whether that works is not looked at.  A   *)
(* put of all there is counts to minus one, which is no reservation.       *)
CopyReserve == \E fail \in BOOLEAN :
  /\ cp.pc = "reserve"
  /\ fail => CopyFault
  /\ cdest' = IF fail \/ cp.kind = "get" THEN cdest ELSE Cut(cdest, -cp.nbytes)
  /\ Counts(fail)
  /\ cp' = [cp EXCEPT !.pc = "read", !.rlen = ReadLen(cp.nbytes)]
  /\ UNCHANGED csrc

(* What a read of n bytes gets, and whether it fails. *)
Got(n) == SubSeq(csrc, cp.rpos + 1, Least(cp.rpos + n, Len(csrc)))
ReadFails(n) == cp.kind # "put" /\ cp.rpos + n > Len(csrc)

(* The first block: a put that gets nothing is over. *)
FirstRead == \E fail \in BOOLEAN :
  LET n   == cp.rlen
      got == Got(n)
  IN /\ cp.pc = "read"
     /\ IF ReadFails(n) THEN fail ELSE fail => CopyFault
     /\ Counts(fail /\ ~ReadFails(n))
     /\ cp' = IF fail THEN [cp EXCEPT !.pc = "done", !.ok = FALSE]
              ELSE IF cp.kind = "put" /\ got = <<>> THEN [cp EXCEPT !.pc = "done"]
              ELSE [cp EXCEPT !.pc = "swap", !.buf[cp.rb] = Overlay(@, 0, got), !.rlen = Len(got),
                              !.rpos = @ + Len(got), !.nbytes = @ - n]
     /\ UNCHANGED <<csrc, cdest>>

(* A round: the halves change places; the full one is written, the other   *)
(* filled again if there is more to read.                                  *)
Swap_OneHalf ==
  /\ cp.pc = "swap"
  /\ LET n == ReadLen(cp.nbytes) IN
     cp' = [cp EXCEPT !.pc = "round", !.wlen = cp.rlen, !.rlen = n,
                      !.todo = IF n > 0 THEN {"read", "write"} ELSE {"write"}]
  /\ UNCHANGED <<csrc, cdest, chist>>

Swap ==
  /\ cp.pc = "swap"
  /\ LET n == ReadLen(cp.nbytes) IN
     cp' = [cp EXCEPT !.pc = "round", !.rb = 3 - @, !.wlen = cp.rlen, !.rlen = n,
                      !.todo = IF n > 0 THEN {"read", "write"} ELSE {"write"}]
  /\ UNCHANGED <<csrc, cdest, chist>>

RoundWrite == \E fail \in BOOLEAN :
  /\ cp.pc = "round" /\ "write" \in cp.todo
  /\ fail => CopyFault
  /\ Counts(fail)
  /\ cdest' = IF fail THEN cdest ELSE Overlay(cdest, cp.wpos, SubSeq(cp.buf[3 - cp.rb], 1, cp.wlen))
  /\ cp' = [cp EXCEPT !.todo = @ \ {"write"}, !.wpos = @ + cp.wlen,
                      !.bad = IF fail THEN @ \cup {"write"} ELSE @]
  /\ UNCHANGED csrc

RoundRead == \E fail \in BOOLEAN :
  LET n   == cp.rlen
      got == Got(n)
  IN /\ cp.pc = "round" /\ "read" \in cp.todo
     /\ IF ReadFails(n) THEN fail ELSE fail => CopyFault
     /\ Counts(fail /\ ~ReadFails(n))
     /\ cp' = IF fail THEN [cp EXCEPT !.todo = @ \ {"read"}, !.bad = @ \cup {"read"}]
              ELSE [cp EXCEPT !.todo = @ \ {"read"}, !.buf[cp.rb] = Overlay(@, 0, got), !.rlen = Len(got),
                              !.rpos = @ + Len(got), !.nbytes = @ - Len(got)]
     /\ UNCHANGED <<csrc, cdest>>

(* The end of a round waits for both.  A get whose last write fails waits  *)
(* for a read that is not there: undefined.                                *)
RoundEnd ==
  /\ cp.pc = "round" /\ cp.todo = {}
  /\ cp' = IF cp.bad # {}
           THEN [cp EXCEPT !.pc = IF cp.kind = "get" /\ cp.rlen = 0 THEN "undef" ELSE "done", !.ok = FALSE]
           ELSE [cp EXCEPT !.pc = IF cp.rlen > 0 THEN "swap" ELSE "end"]
  /\ UNCHANGED <<csrc, cdest, chist>>

(* The destination ends where the copy does, if that is wanted; whether it *)
(* works is not looked at.                                                 *)
CopyEnd == \E fail \in BOOLEAN :
  /\ cp.pc = "end"
  /\ fail => CopyFault /\ cp.cut
  /\ chist' = [chist EXCEPT !.faults = @ + IF fail THEN 1 ELSE 0, !.cut = fail]
  /\ cdest' = IF cp.cut /\ ~fail THEN Cut(cdest, cp.wpos) ELSE cdest
  /\ cp' = [cp EXCEPT !.pc = "done"]
  /\ UNCHANGED csrc

(* Somebody else truncates the source segment. *)
SrcShrink == \E n \in SrcLens :
  /\ cp.pc \notin {"idle", "done", "undef"} /\ cp.kind # "put" /\ n < Len(csrc) /\ CopyFault
  /\ csrc' = SubSeq(csrc, 1, n)
  /\ Counts(TRUE)
  /\ UNCHANGED <<cdest, cp>>

CopyNext ==
  \/ CpLocal2Lio \/ CpLio2Local \/ CpLio2Lio \/ SlogCloneCopy
  \/ CopyReserve \/ FirstRead \/ Swap \/ RoundWrite \/ RoundRead \/ RoundEnd \/ CopyEnd \/ SrcShrink

-----------------------------------------------------------------------------
(* A copy that reports success left in the destination the source as it    *)
(* was when it began, all of it, each byte in its place and nothing behind *)
(* it, whichever order the transfers of a round came in; unless an         *)
(* ignored truncate failed, or a local file was empty (segment_copy_func,  *)
(* segment_get_func, segment_put_func).                                    *)
CopyExact ==
  cp.pc = "done" /\ cp.ok =>
    \/ cp.kind = "put" /\ chist.src = <<>>
    \/ cp.cut /\ chist.cut /\ SubSeq(cdest, 1, Len(chist.src)) = chist.src
    \/ cdest = chist.src
=============================================================================
