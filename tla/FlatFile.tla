------------------------------- MODULE FlatFile --------------------------------
(***************************************************************************)
(* What a segment promises to the layer above it: an array of bytes that   *)
(* can be read, written and resized.  A byte whose storage is gone reads   *)
(* as Lost until an inspection puts a blank one in its place.  A byte that *)
(* a write stored is named by the write's value and by its place in the    *)
(* caller's buffer, so that a byte put in the wrong place shows.           *)
(***************************************************************************)
EXTENDS Integers, Sequences, SequencesExt

CONSTANTS Vectors,      \* the lists of <<lo, hi>> ranges (iov) a call may name
          Values,       \* the values a write may put down
          MaxSize

VARIABLES content,      \* sequence of bytes; byte p is content[p + 1]
          reply         \* the last answer of a read or a write

Lost == -1
Stamp(v, k) == 16 * v + k

(* The bytes a vector names, in the order of the caller's buffer. *)
BytesOf(iov) == FlattenSeq([j \in DOMAIN iov |->
                   [k \in 1..(iov[j][2] - iov[j][1] + 1) |-> iov[j][1] + k - 1]])

FlatInit == /\ content \in UNION {[1..n -> {0}] : n \in 0..MaxSize}
            /\ reply = [op |-> "none", sure |-> TRUE, got |-> << >>]

(* A write that is sure of its success put every byte in place; another    *)
(* may have stored any bytes of its buffer in any of the places.           *)
Write(iov, v) ==
  LET bytes == BytesOf(iov) IN
  /\ reply' = [op |-> "write", sure |-> reply'.sure, got |-> << >>]
  /\ Len(content') = Len(content)
  /\ \A p \in 1..Len(content) :
       LET new == {Stamp(v, k) : k \in {j \in DOMAIN bytes : bytes[j] = p - 1}} IN
       content'[p] \in IF new = {} THEN {content[p]}
                       ELSE IF reply'.sure THEN new
                       ELSE {content[p]} \cup {Stamp(v, k) : k \in DOMAIN bytes}

(* A read that reports success returns the bytes of the file. *)
Read(iov) ==
  /\ reply' = [op |-> "read", sure |-> reply'.sure, got |-> reply'.got]
  /\ reply'.sure => /\ \A k \in DOMAIN BytesOf(iov) : BytesOf(iov)[k] < Len(content)
                    /\ reply'.got = [k \in DOMAIN BytesOf(iov) |->
                                       content[BytesOf(iov)[k] + 1]]
  /\ UNCHANGED content

(* A resize keeps the common prefix; what it adds is blank or has no storage. *)
Resize == /\ \A p \in 1..Len(content') : IF p <= Len(content) THEN content'[p] = content[p]
                                         ELSE content'[p] \in {0, Lost}
          /\ UNCHANGED reply

Lose == /\ Len(content') = Len(content)
        /\ \A p \in 1..Len(content) : content'[p] \in {content[p], Lost}
        /\ UNCHANGED reply

(* A repair blanks bytes that were lost; one told to reconstruct, or to    *)
(* replace what had errors, also others, for the layer above to fill in.   *)
Repair(forced) ==
  /\ Len(content') = Len(content)
  /\ \A p \in 1..Len(content) :
       content'[p] \in {content[p]} \cup (IF content[p] = Lost \/ forced THEN {0, Lost} ELSE {})
  /\ reply' = [op |-> IF forced THEN "rebuild" ELSE "inspect", sure |-> reply'.sure, got |-> << >>]

FlatNext == \/ \E iov \in Vectors, v \in Values : Write(iov, v)
            \/ \E iov \in Vectors : Read(iov)
            \/ Resize \/ Lose
            \/ \E forced \in BOOLEAN : Repair(forced)

FlatSpec == FlatInit /\ [][FlatNext]_<<content, reply>>
=============================================================================
