---------------------------- MODULE SegmentsProofs -----------------------------
(***************************************************************************)
(* Proofs about the segments: the double-buffered copy (SegmentCopy).      *)
(***************************************************************************)
EXTENDS SegmentCopy, SequenceTheorems, TLAPS

CopySpec == CopyInit /\ [][CopyNext]_cvars

-----------------------------------------------------------------------------
(* Sequences of bytes: what Overlay, Cut and a read give.                  *)

(* A sequence given by its length and its bytes. *)
LEMMA ByteSeq ==
  ASSUME NEW n \in Nat, NEW f, DOMAIN f = 1 .. n, f = [i \in 1 .. n |-> f[i]],
         \A i \in 1 .. n : f[i] \in Nat
  PROVE  f \in Seq(Nat) /\ Len(f) = n
<1>1. f \in [1 .. n -> Nat]
  OBVIOUS
<1>2. f \in Seq(Nat)
  BY <1>1, SeqDef
<1>3. DOMAIN f = 1 .. Len(f) /\ Len(f) \in Nat
  BY <1>2
<1>4. Len(f) = n
  BY <1>3
<1> QED BY <1>2, <1>4

(* Bytes put where the sequence ends or before. *)
LEMMA OverlaySeq ==
  ASSUME NEW d \in Seq(Nat), NEW s \in Seq(Nat), NEW pos \in Nat, pos <= Len(d)
  PROVE  /\ Overlay(d, pos, s) \in Seq(Nat)
         /\ Len(Overlay(d, pos, s)) = IF Len(d) < pos + Len(s) THEN pos + Len(s) ELSE Len(d)
         /\ \A i \in 1 .. Len(s) : Overlay(d, pos, s)[pos + i] = s[i]
         /\ \A i \in 1 .. pos : Overlay(d, pos, s)[i] = d[i]
<1>1. PICK n : n = IF Len(d) < pos + Len(s) THEN pos + Len(s) ELSE Len(d)
  OBVIOUS
<1>2. PICK f : f = Overlay(d, pos, s)
  OBVIOUS
<1>3. n = IF Len(d) < pos + Len(s) /\ s # <<>> THEN pos + Len(s) ELSE Len(d)
  BY <1>1, EmptySeq
<1>4. f = [i \in 1 .. n |-> IF pos < i /\ i <= pos + Len(s) THEN s[i - pos] ELSE IF i <= Len(d) THEN d[i] ELSE Old]
  BY <1>2, <1>3 DEF Overlay
<1>5. n \in Nat /\ pos <= n /\ pos + Len(s) <= n
  BY <1>1
<1>6. \A i \in 1 .. n : f[i] \in Nat
  BY <1>1, <1>4, <1>5 DEF Old
<1>7. f \in Seq(Nat) /\ Len(f) = n
  BY <1>4, <1>5, <1>6, ByteSeq
<1>8. \A i \in 1 .. Len(s) : f[pos + i] = s[i]
  BY <1>4, <1>5
<1>9. \A i \in 1 .. pos : f[i] = d[i]
  BY <1>4, <1>5
<1> QED BY <1>1, <1>2, <1>7, <1>8, <1>9

(* A truncate, or a reservation. *)
LEMMA CutSeq ==
  ASSUME NEW d \in Seq(Nat), NEW size \in Int
  PROVE  /\ Cut(d, size) \in Seq(Nat)
         /\ size < 0 => Cut(d, size) = d
         /\ size >= 0 => Len(Cut(d, size)) = size
         /\ \A i \in 1 .. size : i <= Len(d) => Cut(d, size)[i] = d[i]
<1>1. CASE size < 0
  BY <1>1 DEF Cut
<1>2. CASE size >= 0
  <2>1. PICK f : f = Cut(d, size)
    OBVIOUS
  <2>2. f = [i \in 1 .. size |-> IF i <= Len(d) THEN d[i] ELSE Old]
    BY <1>2, <2>1 DEF Cut
  <2>3. \A i \in 1 .. size : f[i] \in Nat
    BY <1>2, <2>2 DEF Old
  <2>4. f \in Seq(Nat) /\ Len(f) = size
    BY <1>2, <2>2, <2>3, ByteSeq
  <2> QED BY <1>2, <2>1, <2>2, <2>4
<1> QED BY <1>1, <1>2


-----------------------------------------------------------------------------
(* The copy.  The destination has what was written, the half that was      *)
(* filled has the bytes behind it, and the count says what is left.        *)
CpFields == {"pc", "kind", "cut", "nbytes", "rpos", "wpos", "rlen", "wlen", "buf", "rb", "todo", "bad", "ok"}
Total == Len(chist.src)
SrcShape ==
  /\ csrc \in Seq(Nat) /\ chist.src \in Seq(Nat) /\ {"src", "faults", "cut"} \subseteq DOMAIN chist
  /\ Len(csrc) <= Total /\ (\A i \in 1 .. Len(csrc) : csrc[i] = chist.src[i])
  /\ cp.pc = "idle" \/ cp.kind = "put" => Len(csrc) = Total
BufShape ==
  /\ CpFields \subseteq DOMAIN cp /\ (cp.kind = "put" => cp.cut)
  /\ cp.nbytes \in Int /\ cp.rpos \in Nat /\ cp.wpos \in Nat
  /\ cp.rlen \in 0 .. Half /\ cp.wlen \in 0 .. Half /\ cp.rb \in {1, 2}
  /\ DOMAIN cp.buf = {1, 2} /\ \A h \in {1, 2} : cp.buf[h] \in Seq(Nat) /\ Len(cp.buf[h]) = Half
CopyShape == SrcShape /\ BufShape /\ cdest \in Seq(Nat)

CountLeft(pos) ==
  IF cp.kind = "put" THEN cp.nbytes < 0 ELSE cp.nbytes = Total - pos
InBuf(h, off, n) == \A i \in 1 .. n : cp.buf[h][i] = chist.src[off + i]
DestHas(n) == /\ n <= Len(cdest) /\ (~cp.cut => Len(cdest) = n)
              /\ \A i \in 1 .. n : cdest[i] = chist.src[i]

AtStart == cp.pc \in {"reserve", "read"} =>
  /\ cp.rpos = 0 /\ cp.wpos = 0 /\ cp.bad = {} /\ DestHas(0) /\ CountLeft(0)
  /\ cp.pc = "read" => cp.rlen = ReadLen(cp.nbytes)
AtSwap == cp.pc = "swap" =>
  /\ cp.bad = {} /\ cp.rpos = cp.wpos + cp.rlen /\ cp.rpos <= Total
  /\ InBuf(cp.rb, cp.wpos, cp.rlen) /\ DestHas(cp.wpos) /\ CountLeft(cp.rpos)
Due == IF "write" \in cp.todo THEN cp.wpos + cp.wlen ELSE cp.wpos
WriteHalf ==
  /\ cp.wpos \in 0 .. Total /\ Due <= Total /\ DestHas(cp.wpos)
  /\ "write" \in cp.todo => InBuf(3 - cp.rb, cp.wpos, cp.wlen)
ReadHalf ==
  /\ cp.rpos <= Total /\ CountLeft(cp.rpos)
  /\ "read" \in cp.todo => cp.rpos = Due /\ cp.rlen = ReadLen(cp.nbytes) /\ cp.rlen > 0
  /\ "read" \notin cp.todo => /\ cp.rpos = Due + cp.rlen /\ InBuf(cp.rb, Due, cp.rlen)
                              /\ cp.rlen = 0 => cp.rpos = Total
AtRound == cp.pc = "round" =>
  /\ cp.todo \cap cp.bad = {} /\ cp.bad \subseteq {"read", "write"} /\ cp.todo \subseteq {"read", "write"}
  /\ "write" \notin cp.bad => WriteHalf
  /\ "read" \notin cp.bad => ReadHalf
AtEnd == cp.pc = "end" => cp.wpos = Total /\ DestHas(Total)
CopyPcs == {"idle", "reserve", "read", "swap", "round", "end", "done", "undef"}
CopyInv ==
  /\ CopyShape /\ AtStart /\ AtSwap /\ AtRound /\ AtEnd
  /\ cp.pc \in CopyPcs /\ CopyExact



(* Facts about the state that most steps need. *)
LEMMA ShapeFacts ==
  ASSUME CopyShape
  PROVE  /\ CpFields \subseteq DOMAIN cp /\ Total \in Nat /\ Half \in Nat \ {0}
         /\ cp.nbytes \in Int /\ cp.rpos \in Nat /\ cp.wpos \in Nat
         /\ cp.rlen \in 0 .. Half /\ cp.wlen \in 0 .. Half /\ cp.rb \in {1, 2}
         /\ DOMAIN cp.buf = {1, 2} /\ (\A h \in {1, 2} : cp.buf[h] \in Seq(Nat) /\ Len(cp.buf[h]) = Half)
<1>1. Total \in Nat
  BY DEF CopyShape, SrcShape, Total
<1>2. BufShape
  BY DEF CopyShape
<1> QED BY <1>1, <1>2, CopyAssumption DEF BufShape

(* Every step leaves the history of the source alone. *)
LEMMA SrcHistory ==
  ASSUME CopyShape, NEW b, Counts(b)
  PROVE  chist'.src = chist.src /\ {"src", "faults", "cut"} \subseteq DOMAIN chist' /\ Total' = Total
  BY DEF CopyShape, SrcShape, Counts, Total

(* Part of a sequence that begins like another one. *)
LEMMA PartOf ==
  ASSUME NEW C \in Seq(Nat), NEW S \in Seq(Nat), \A i \in 1 .. Len(C) : C[i] = S[i],
         NEW r \in Nat, NEW m \in Int, m <= Len(C)
  PROVE  /\ SubSeq(C, r + 1, m) \in Seq(Nat)
         /\ Len(SubSeq(C, r + 1, m)) = (IF r < m THEN m - r ELSE 0)
         /\ \A i \in 1 .. Len(SubSeq(C, r + 1, m)) : SubSeq(C, r + 1, m)[i] = S[r + i]
<1>1. PICK g : g = SubSeq(C, r + 1, m)
  OBVIOUS
<1>2. Len(C) \in Nat /\ r + 1 \in Int
  OBVIOUS
<1>3. \A i \in r + 1 .. m : i \in 1 .. Len(C)
  BY <1>2
<1>4. \A i \in r + 1 .. m : C[i] \in Nat
  BY <1>3, ElementOfSeq
<1>5. /\ g \in Seq(Nat) /\ Len(g) = (IF r + 1 <= m THEN m - (r + 1) + 1 ELSE 0)
      /\ \A i \in 1 .. m - (r + 1) + 1 : g[i] = C[r + 1 + i - 1]
  BY <1>1, <1>2, <1>4, SubSeqProperties
<1>6. Len(g) = IF r < m THEN m - r ELSE 0
  BY <1>5
<1>7. ASSUME NEW i \in 1 .. Len(g) PROVE g[i] = S[r + i]
  <2>1. i \in 1 .. m - (r + 1) + 1 /\ r + 1 + i - 1 = r + i /\ r + i \in r + 1 .. m
    BY <1>6
  <2>2. g[i] = C[r + i]
    BY <1>5, <2>1
  <2> QED BY <1>3, <2>1, <2>2
<1> QED BY <1>1, <1>5, <1>6, <1>7

(* A read gives the bytes of the source behind rpos; one that is not cut   *)
(* short gives all that was asked for.                                     *)
LEMMA GotBytes ==
  ASSUME CopyShape, NEW n \in Nat
  PROVE  /\ Got(n) \in Seq(Nat) /\ Len(Got(n)) \in 0 .. n
         /\ \A i \in 1 .. Len(Got(n)) : Got(n)[i] = chist.src[cp.rpos + i]
         /\ cp.rpos <= Total => cp.rpos + Len(Got(n)) <= Total
         /\ cp.kind # "put" /\ ~ReadFails(n) => Len(Got(n)) = n
         /\ cp.kind = "put" /\ n > 0 /\ Len(Got(n)) = 0 => cp.rpos >= Total
<1>1. PICK m, r, S : m = Least(cp.rpos + n, Len(csrc)) /\ r = cp.rpos /\ S = chist.src
  OBVIOUS
<1>2. r \in Nat /\ Len(csrc) \in Nat /\ Total \in Nat /\ Len(csrc) <= Total /\ csrc \in Seq(Nat)
      /\ S \in Seq(Nat) /\ \A i \in 1 .. Len(csrc) : csrc[i] = S[i]
  BY <1>1 DEF CopyShape, SrcShape, BufShape, Total
<1>3. m \in Int /\ m <= r + n /\ m <= Len(csrc) /\ (m = r + n \/ m = Len(csrc))
  BY <1>1, <1>2 DEF Least
<1>4. Got(n) = SubSeq(csrc, r + 1, m)
  BY <1>1 DEF Got
<1>5. /\ Got(n) \in Seq(Nat)
      /\ Len(Got(n)) = (IF r < m THEN m - r ELSE 0)
      /\ \A i \in 1 .. Len(Got(n)) : Got(n)[i] = S[r + i]
  <2>1. /\ SubSeq(csrc, r + 1, m) \in Seq(Nat)
        /\ Len(SubSeq(csrc, r + 1, m)) = (IF r < m THEN m - r ELSE 0)
        /\ \A i \in 1 .. Len(SubSeq(csrc, r + 1, m)) : SubSeq(csrc, r + 1, m)[i] = S[r + i]
    BY <1>2, <1>3, PartOf
  <2> QED BY <1>4, <2>1, Zenon
<1>6. ~ReadFails(n) /\ cp.kind # "put" => r + n <= Len(csrc)
  BY <1>1, <1>2 DEF ReadFails
<1>7. cp.kind = "put" => Len(csrc) = Total
  BY DEF CopyShape, SrcShape
<1>8. \A i \in 1 .. Len(Got(n)) : Got(n)[i] = chist.src[cp.rpos + i]
  BY <1>1, <1>5
<1>9. PICK k : k = Len(Got(n)) /\ k = IF r < m THEN m - r ELSE 0
  BY <1>5
<1>10. k \in 0 .. n /\ (r <= Total => r + k <= Total) /\ (cp.kind # "put" /\ ~ReadFails(n) => k = n)
       /\ (cp.kind = "put" /\ n > 0 /\ k = 0 => r >= Total)
  BY <1>2, <1>3, <1>6, <1>7, <1>9
<1> QED BY <1>1, <1>5, <1>8, <1>9, <1>10

(* A half of the buffer that bytes are put into. *)
LEMMA BufFilled ==
  ASSUME NEW b \in Seq(Nat), NEW g \in Seq(Nat), Len(b) = Half, Len(g) <= Half
  PROVE  /\ Overlay(b, 0, g) \in Seq(Nat) /\ Len(Overlay(b, 0, g)) = Half
         /\ \A i \in 1 .. Len(g) : Overlay(b, 0, g)[i] = g[i]
<1>1. 0 <= Len(b) /\ Len(g) \in Nat /\ Half \in Nat
  BY CopyAssumption
<1>2. Len(Overlay(b, 0, g)) = IF Len(b) < 0 + Len(g) THEN 0 + Len(g) ELSE Len(b)
  BY <1>1, OverlaySeq
<1>3. \A i \in 1 .. Len(g) : Overlay(b, 0, g)[0 + i] = g[i]
  BY <1>1, OverlaySeq
<1> QED BY <1>1, <1>2, <1>3, OverlaySeq

(* The length of a read fits in a half. *)
LEMMA ReadLenFits ==
  ASSUME NEW n \in Int
  PROVE  ReadLen(n) \in 0 .. Half /\ (n < 0 => ReadLen(n) = Half) /\ (n >= 0 => ReadLen(n) <= n)
         /\ (ReadLen(n) = 0 => n = 0)
  BY CopyAssumption DEF ReadLen, Least

(* A call of lio or of a clone. *)
LEMMA CallOK ==
  ASSUME CopyInv, NEW kind, NEW nbytes, NEW cut, CopyCall(kind, nbytes, cut),
         IF kind = "put" THEN nbytes = -1 ELSE nbytes = Len(csrc),
         ~cut => cdest = <<>>, kind = "put" => cut
  PROVE  CopyInv'
<1>1. nbytes = (IF kind = "put" THEN -1 ELSE Len(csrc)) /\ (~cut => cdest = <<>>) /\ (kind = "put" => cut)
  OBVIOUS
<1>2. cp' = [NoCopy EXCEPT !.pc = "reserve", !.kind = kind, !.nbytes = nbytes, !.cut = cut]
      /\ cp.pc = "idle" /\ UNCHANGED <<csrc, cdest, chist>>
  BY DEF CopyCall
<1>3. /\ cp'.pc = "reserve" /\ cp'.kind = kind /\ cp'.nbytes = nbytes /\ cp'.cut = cut
      /\ cp'.rpos = 0 /\ cp'.wpos = 0 /\ cp'.rlen = 0 /\ cp'.wlen = 0 /\ cp'.rb = 1 /\ cp'.bad = {}
      /\ CpFields \subseteq DOMAIN cp'
  BY <1>2 DEF NoCopy, CpFields
<1>4. cp'.buf = [h \in 1 .. 2 |-> [i \in 1 .. Half |-> Old]]
  BY <1>2 DEF NoCopy
<1>5. [i \in 1 .. Half |-> Old] \in Seq(Nat) /\ Len([i \in 1 .. Half |-> Old]) = Half
  BY CopyAssumption, ByteSeq DEF Old
<1>6. SrcShape' /\ cdest' \in Seq(Nat) /\ Len(csrc) = Total /\ Total' = Total /\ Total \in Nat
  BY <1>2 DEF CopyInv, CopyShape, SrcShape, Total
<1>7. BufShape'
  <2>1. DOMAIN cp'.buf = {1, 2} /\ cp'.buf[1] = [i \in 1 .. Half |-> Old] /\ cp'.buf[2] = [i \in 1 .. Half |-> Old]
    BY <1>4
  <2>2. nbytes \in Int /\ 0 \in 0 .. Half
    BY <1>1, <1>6, CopyAssumption
  <2>3. \A h \in {1, 2} : cp'.buf[h] \in Seq(Nat) /\ Len(cp'.buf[h]) = Half
    BY <1>5, <2>1
  <2>4. cp'.nbytes \in Int /\ cp'.rlen \in 0 .. Half /\ cp'.wlen \in 0 .. Half /\ cp'.rb \in {1, 2}
        /\ cp'.rpos \in Nat /\ cp'.wpos \in Nat
    BY <1>3, <2>2
  <2> QED BY <1>1, <1>3, <2>1, <2>3, <2>4 DEF BufShape
<1>8. AtStart'
  BY <1>1, <1>2, <1>3, <1>6, EmptySeq DEF AtStart, DestHas, CountLeft, CopyInv, CopyShape
<1> QED BY <1>3, <1>6, <1>7, <1>8
  DEF CopyInv, CopyShape, AtSwap, AtRound, AtEnd, CopyPcs, CopyExact

(* The calls there are. *)
LEMMA CallsOK ==
  ASSUME CopyInv, CpLocal2Lio \/ CpLio2Local \/ CpLio2Lio \/ SlogCloneCopy
  PROVE  CopyInv'
<1>1. CASE CpLocal2Lio
  BY <1>1, CallOK DEF CpLocal2Lio
<1>2. CASE CpLio2Local
  BY <1>2, CallOK DEF CpLio2Local
<1>3. CASE CpLio2Lio
  BY <1>3, CallOK DEF CpLio2Lio
<1>4. CASE SlogCloneCopy
  BY <1>4, CallOK DEF SlogCloneCopy
<1> QED BY <1>1, <1>2, <1>3, <1>4

(* The reservation. *)
LEMMA CopyReserveOK == ASSUME CopyInv, CopyReserve PROVE CopyInv'
<1>1. PICK fail \in BOOLEAN :
        /\ cdest' = IF fail \/ cp.kind = "get" THEN cdest ELSE Cut(cdest, -cp.nbytes)
        /\ Counts(fail)
  BY DEF CopyReserve
<1>2. cp.pc = "reserve" /\ cp' = [cp EXCEPT !.pc = "read", !.rlen = ReadLen(cp.nbytes)] /\ UNCHANGED csrc
  BY DEF CopyReserve
<1>3. CopyShape /\ cp.nbytes \in Int /\ CpFields \subseteq DOMAIN cp
  BY DEF CopyInv, CopyShape, BufShape
<1>4. /\ cp'.pc = "read" /\ cp'.rlen = ReadLen(cp.nbytes) /\ cp'.kind = cp.kind /\ cp'.nbytes = cp.nbytes
      /\ cp'.cut = cp.cut /\ cp'.rpos = cp.rpos /\ cp'.wpos = cp.wpos /\ cp'.wlen = cp.wlen
      /\ cp'.rb = cp.rb /\ cp'.buf = cp.buf /\ cp'.bad = cp.bad /\ CpFields \subseteq DOMAIN cp'
  BY <1>2, <1>3 DEF CpFields
<1>5. chist'.src = chist.src /\ {"src", "faults", "cut"} \subseteq DOMAIN chist' /\ Total' = Total
  BY <1>1, <1>3, SrcHistory
<1>6. SrcShape' /\ BufShape'
  <2>1. SrcShape'
    BY <1>2, <1>3, <1>4, <1>5 DEF CopyShape, SrcShape
  <2>2. BufShape'
    BY <1>3, <1>4, ReadLenFits DEF CopyShape, BufShape
  <2> QED BY <2>1, <2>2
<1>7. cdest' \in Seq(Nat) /\ (Len(cdest) = 0 => Len(cdest') = 0 \/ cp.kind = "put")
  <2>0. cdest \in Seq(Nat) /\ -cp.nbytes \in Int
    BY <1>3 DEF CopyShape
  <2>1. CountLeft(0) /\ Total \in Nat
    BY <1>2, <1>3 DEF CopyInv, AtStart, CopyShape, SrcShape, Total
  <2>2. cp.kind # "put" => -cp.nbytes <= 0
    BY <2>1 DEF CountLeft
  <2>3. Cut(cdest, -cp.nbytes) \in Seq(Nat)
        /\ (-cp.nbytes < 0 => Cut(cdest, -cp.nbytes) = cdest)
        /\ (-cp.nbytes >= 0 => Len(Cut(cdest, -cp.nbytes)) = -cp.nbytes)
    BY <2>0, CutSeq
  <2> QED BY <1>1, <2>0, <2>2, <2>3
<1>8. cp.kind = "put" => cp.cut
  BY <1>3 DEF CopyShape, BufShape
<1>9. AtStart'
  BY <1>2, <1>4, <1>5, <1>7, <1>8 DEF AtStart, DestHas, CountLeft, CopyInv
<1> QED BY <1>4, <1>6, <1>7, <1>9
  DEF CopyInv, CopyShape, AtSwap, AtRound, AtEnd, CopyPcs, CopyExact


(* What stays of a copy in a step that ends without success. *)
LEMMA CopyOver ==
  ASSUME CopyInv, UNCHANGED <<csrc, cdest>>, NEW b, Counts(b) \/ UNCHANGED chist,
         NEW pc \in {"done", "undef"}, cp' = [cp EXCEPT !.pc = pc, !.ok = FALSE]
  PROVE  CopyInv'
<1>1. CopyShape /\ CpFields \subseteq DOMAIN cp
  BY DEF CopyInv, CopyShape, BufShape
<1>2. /\ cp'.pc = pc /\ ~cp'.ok /\ cp'.rlen = cp.rlen /\ cp'.kind = cp.kind /\ cp'.nbytes = cp.nbytes
      /\ cp'.cut = cp.cut /\ cp'.rpos = cp.rpos /\ cp'.wpos = cp.wpos /\ cp'.wlen = cp.wlen
      /\ cp'.rb = cp.rb /\ cp'.buf = cp.buf /\ CpFields \subseteq DOMAIN cp'
  BY <1>1 DEF CpFields
<1>3. chist'.src = chist.src /\ {"src", "faults", "cut"} \subseteq DOMAIN chist' /\ Total' = Total
  <2>1. CASE UNCHANGED chist
    BY <1>1, <2>1 DEF CopyShape, SrcShape, Total
  <2>2. CASE Counts(b)
    BY <1>1, <2>2, SrcHistory
  <2> QED BY <2>1, <2>2
<1>4. SrcShape' /\ BufShape'
  <2>1. SrcShape'
    BY <1>1, <1>2, <1>3 DEF CopyShape, SrcShape
  <2>2. BufShape'
    BY <1>1, <1>2 DEF CopyShape, BufShape
  <2> QED BY <2>1, <2>2
<1> QED BY <1>1, <1>2, <1>4
  DEF CopyInv, CopyShape, AtStart, AtSwap, AtRound, AtEnd, CopyPcs, CopyExact

(* The first block is read. *)
LEMMA FirstReadOK == ASSUME CopyInv, FirstRead PROVE CopyInv'
<1>0. PICK n, got : n = cp.rlen /\ got = Got(n)
  OBVIOUS
<1>1. PICK fail \in BOOLEAN :
        /\ cp.pc = "read"
        /\ IF ReadFails(n) THEN fail ELSE fail => CopyFault
        /\ Counts(fail /\ ~ReadFails(n))
        /\ cp' = IF fail THEN [cp EXCEPT !.pc = "done", !.ok = FALSE]
                 ELSE IF cp.kind = "put" /\ got = <<>> THEN [cp EXCEPT !.pc = "done"]
                 ELSE [cp EXCEPT !.pc = "swap", !.buf[cp.rb] = Overlay(@, 0, got), !.rlen = Len(got),
                                 !.rpos = @ + Len(got), !.nbytes = @ - n]
        /\ UNCHANGED <<csrc, cdest>>
  BY <1>0 DEF FirstRead
<1>2. CopyShape /\ CpFields \subseteq DOMAIN cp /\ n \in 0 .. Half /\ n \in Nat /\ Half \in Nat \ {0}
      /\ cp.rpos = 0 /\ cp.wpos = 0 /\ cp.nbytes \in Int /\ n = ReadLen(cp.nbytes) /\ CountLeft(0) /\ cp.bad = {}
      /\ Total \in Nat /\ DestHas(0)
  BY <1>0, <1>1, CopyAssumption DEF CopyInv, CopyShape, BufShape, SrcShape, AtStart, Total
<1>3. chist'.src = chist.src /\ {"src", "faults", "cut"} \subseteq DOMAIN chist' /\ Total' = Total
  BY <1>1, <1>2, SrcHistory
<1>4. /\ got \in Seq(Nat) /\ Len(got) \in 0 .. n
      /\ \A i \in 1 .. Len(got) : got[i] = chist.src[0 + i]
      /\ 0 + Len(got) <= Total
      /\ cp.kind # "put" /\ ~ReadFails(n) => Len(got) = n
      /\ cp.kind = "put" /\ n > 0 /\ Len(got) = 0 => 0 >= Total
  <2>1. /\ got \in Seq(Nat) /\ Len(got) \in 0 .. n
        /\ \A i \in 1 .. Len(got) : got[i] = chist.src[cp.rpos + i]
        /\ cp.rpos <= Total => cp.rpos + Len(got) <= Total
        /\ cp.kind # "put" /\ ~ReadFails(n) => Len(got) = n
        /\ cp.kind = "put" /\ n > 0 /\ Len(got) = 0 => cp.rpos >= Total
    BY <1>0, <1>2, GotBytes, Zenon
  <2> QED BY <1>2, <2>1
<1>5. CASE fail
  BY <1>1, <1>5, CopyOver
<1>6. CASE ~fail /\ cp.kind = "put" /\ got = <<>>
  <2>1. cp' = [cp EXCEPT !.pc = "done"]
    BY <1>1, <1>6
  <2>2. /\ cp'.pc = "done" /\ cp'.rlen = cp.rlen /\ cp'.kind = cp.kind /\ cp'.nbytes = cp.nbytes
        /\ cp'.cut = cp.cut /\ cp'.rpos = cp.rpos /\ cp'.wpos = cp.wpos /\ cp'.wlen = cp.wlen
        /\ cp'.rb = cp.rb /\ cp'.buf = cp.buf /\ CpFields \subseteq DOMAIN cp'
    BY <1>2, <2>1 DEF CpFields
  <2>3. n > 0
    BY <1>2, <1>6, ReadLenFits DEF CountLeft
  <2>4. Total = 0
    BY <1>2, <1>4, <1>6, <2>3, EmptySeq
  <2>5. chist'.src = <<>>
    BY <1>2, <1>3, <2>4, EmptySeq DEF CopyShape, SrcShape, Total
  <2>6. SrcShape' /\ BufShape'
    <3>1. SrcShape'
      BY <1>1, <1>2, <1>3, <2>2 DEF CopyShape, SrcShape
    <3>2. BufShape'
      BY <1>2, <2>2 DEF CopyShape, BufShape
    <3> QED BY <3>1, <3>2
  <2> QED BY <1>1, <1>2, <1>6, <2>2, <2>5, <2>6
    DEF CopyInv, CopyShape, AtStart, AtSwap, AtRound, AtEnd, CopyPcs, CopyExact
<1>7. CASE ~fail /\ ~(cp.kind = "put" /\ got = <<>>)
  <2>1. cp' = [cp EXCEPT !.pc = "swap", !.buf[cp.rb] = Overlay(@, 0, got), !.rlen = Len(got),
                         !.rpos = @ + Len(got), !.nbytes = @ - n]
    BY <1>1, <1>7
  <2>2. /\ cp'.pc = "swap" /\ cp'.rlen = Len(got) /\ cp'.kind = cp.kind /\ cp'.nbytes = cp.nbytes - n
        /\ cp'.cut = cp.cut /\ cp'.rpos = cp.rpos + Len(got) /\ cp'.wpos = cp.wpos /\ cp'.wlen = cp.wlen
        /\ cp'.rb = cp.rb /\ cp'.bad = cp.bad /\ CpFields \subseteq DOMAIN cp'
        /\ cp'.buf = [cp.buf EXCEPT ![cp.rb] = Overlay(@, 0, got)]
    BY <1>2, <2>1 DEF CpFields
  <2>3. cp.rb \in {1, 2} /\ DOMAIN cp.buf = {1, 2} /\ cp.wlen \in 0 .. Half
        /\ \A h \in {1, 2} : cp.buf[h] \in Seq(Nat) /\ Len(cp.buf[h]) = Half
    BY <1>2 DEF CopyShape, BufShape
  <2>4. /\ Overlay(cp.buf[cp.rb], 0, got) \in Seq(Nat) /\ Len(Overlay(cp.buf[cp.rb], 0, got)) = Half
        /\ \A i \in 1 .. Len(got) : Overlay(cp.buf[cp.rb], 0, got)[i] = got[i]
    <3>1. PICK b : b = cp.buf[cp.rb]
      OBVIOUS
    <3>2. b \in Seq(Nat) /\ Len(b) = Half /\ Len(got) <= Half
      <4>1. b \in Seq(Nat) /\ Len(b) = Half
        BY <2>3, <3>1, Zenon
      <4>2. n \in 0 .. Half /\ Len(got) \in 0 .. n /\ Half \in Nat
        BY <1>2, <1>4
      <4>3. Len(got) <= Half
        BY <4>2
      <4> QED BY <4>1, <4>3
    <3> QED BY <1>4, <3>1, <3>2, BufFilled
  <2>5. DOMAIN cp'.buf = {1, 2} /\ cp'.buf[cp.rb] = Overlay(cp.buf[cp.rb], 0, got)
        /\ \A h \in {1, 2} : cp'.buf[h] \in Seq(Nat) /\ Len(cp'.buf[h]) = Half
    BY <2>2, <2>3, <2>4
  <2>6. SrcShape'
    BY <1>1, <1>2, <1>3, <2>2 DEF CopyShape, SrcShape
  <2>7. BufShape'
    <3>1. cp'.rlen \in 0 .. Half /\ cp'.nbytes \in Int /\ cp'.rpos \in Nat /\ cp'.wpos \in Nat
      BY <1>2, <1>4, <2>2
    <3>2. cp.kind = "put" => cp.cut
      BY <1>2 DEF CopyShape, BufShape
    <3> QED BY <2>2, <2>3, <2>5, <3>1, <3>2 DEF BufShape
  <2>8. InBuf(cp.rb, cp.wpos, cp.rlen)'
    <3>1. PICK b : b = cp'.buf[cp'.rb]
      OBVIOUS
    <3>2. \A i \in 1 .. Len(got) : b[i] = chist'.src[0 + i]
      BY <1>3, <1>4, <2>2, <2>4, <2>5, <3>1
    <3> QED BY <1>2, <2>2, <3>1, <3>2 DEF InBuf
  <2>9. CountLeft(cp.rpos)'
    <3>1. CASE cp.kind = "put"
      BY <1>2, <2>2, <3>1 DEF CountLeft
    <3>2. CASE cp.kind # "put"
      BY <1>1, <1>2, <1>3, <1>4, <1>7, <2>2, <3>2 DEF CountLeft
    <3> QED BY <3>1, <3>2
  <2>10. DestHas(cp.wpos)'
    BY <1>1, <1>2, <1>3, <2>2 DEF DestHas
  <2>11. AtSwap'
    BY <1>2, <1>3, <1>4, <2>2, <2>8, <2>9, <2>10 DEF AtSwap
  <2> QED BY <1>1, <1>2, <2>2, <2>6, <2>7, <2>11
    DEF CopyInv, CopyShape, AtStart, AtRound, AtEnd, CopyPcs, CopyExact
<1> QED BY <1>5, <1>6, <1>7

(* The halves change places. *)
LEMMA SwapOK == ASSUME CopyInv, Swap PROVE CopyInv'
<1>0. PICK n : n = ReadLen(cp.nbytes)
  OBVIOUS
<1>1. cp.pc = "swap" /\ UNCHANGED <<csrc, cdest, chist>>
      /\ cp' = [cp EXCEPT !.pc = "round", !.rb = 3 - @, !.wlen = cp.rlen, !.rlen = n,
                          !.todo = IF n > 0 THEN {"read", "write"} ELSE {"write"}]
  BY <1>0 DEF Swap
<1>2. CopyShape /\ CpFields \subseteq DOMAIN cp /\ cp.nbytes \in Int /\ cp.rlen \in 0 .. Half /\ cp.rb \in {1, 2}
      /\ Total \in Nat /\ cp.wpos \in Nat /\ cp.rpos \in Nat
  BY ShapeFacts DEF CopyInv
<1>3. /\ cp'.pc = "round" /\ cp'.rlen = n /\ cp'.kind = cp.kind /\ cp'.nbytes = cp.nbytes
      /\ cp'.cut = cp.cut /\ cp'.rpos = cp.rpos /\ cp'.wpos = cp.wpos /\ cp'.wlen = cp.rlen
      /\ cp'.rb = 3 - cp.rb /\ cp'.buf = cp.buf /\ CpFields \subseteq DOMAIN cp' /\ cp'.bad = cp.bad
      /\ cp'.todo = IF n > 0 THEN {"read", "write"} ELSE {"write"}
  BY <1>1, <1>2 DEF CpFields
<1>4. n \in 0 .. Half /\ (cp.nbytes < 0 => n = Half) /\ (n = 0 => cp.nbytes = 0)
  BY <1>0, <1>2, ReadLenFits
<1>5. cp'.rb \in {1, 2} /\ 3 - cp'.rb = cp.rb
  BY <1>2, <1>3
<1>6. SrcShape'
  BY <1>1, <1>2, <1>3 DEF CopyShape, SrcShape, Total
<1>7. BufShape'
  BY <1>2, <1>3, <1>4, <1>5 DEF CopyShape, BufShape
<1>8. /\ cp.bad = {} /\ cp.rpos = cp.wpos + cp.rlen /\ cp.rpos <= Total
      /\ InBuf(cp.rb, cp.wpos, cp.rlen) /\ DestHas(cp.wpos) /\ CountLeft(cp.rpos)
  BY <1>1 DEF CopyInv, AtSwap
<1>9. Total' = Total /\ "write" \in cp'.todo /\ Due' = cp.rpos
  BY <1>1, <1>3, <1>8 DEF Total, Due
<1>10. WriteHalf'
  <2>1. DestHas(cp.wpos)'
    BY <1>1, <1>3, <1>8 DEF DestHas
  <2>2. InBuf(3 - cp.rb, cp.wpos, cp.wlen)'
    BY <1>1, <1>3, <1>5, <1>8 DEF InBuf
  <2>3. cp'.wpos \in 0 .. Total' /\ Due' <= Total'
    BY <1>2, <1>3, <1>8, <1>9
  <2> QED BY <2>1, <2>2, <2>3 DEF WriteHalf
<1>11. ReadHalf'
  <2>1. CountLeft(cp.rpos)'
    BY <1>3, <1>8, <1>9 DEF CountLeft
  <2>2. CASE n > 0
    BY <1>0, <1>3, <1>8, <1>9, <2>1, <2>2 DEF ReadHalf
  <2>3. CASE ~(n > 0)
    <3>1. n = 0 /\ "read" \notin cp'.todo
      BY <1>3, <1>4, <2>3
    <3>2. cp.rpos = Total
      BY <1>2, <1>4, <1>8, <3>1 DEF CountLeft
    <3>3. InBuf(cp.rb, Due, 0)'
      BY DEF InBuf
    <3> QED BY <1>2, <1>3, <1>8, <1>9, <2>1, <3>1, <3>2, <3>3 DEF ReadHalf
  <2> QED BY <2>2, <2>3
<1>12. AtRound'
  BY <1>3, <1>8, <1>10, <1>11 DEF AtRound
<1> QED BY <1>1, <1>2, <1>3, <1>6, <1>7, <1>12
  DEF CopyInv, CopyShape, AtStart, AtSwap, AtEnd, CopyPcs, CopyExact


(* The write of a round; it may come before or after the read. *)
LEMMA RoundWriteOK == ASSUME CopyInv, RoundWrite PROVE CopyInv'
<1>0. PICK s : s = SubSeq(cp.buf[3 - cp.rb], 1, cp.wlen)
  OBVIOUS
<1>1. PICK fail \in BOOLEAN :
        /\ cp.pc = "round" /\ "write" \in cp.todo
        /\ Counts(fail)
        /\ cdest' = IF fail THEN cdest ELSE Overlay(cdest, cp.wpos, s)
        /\ cp' = [cp EXCEPT !.todo = @ \ {"write"}, !.wpos = @ + cp.wlen,
                            !.bad = IF fail THEN @ \cup {"write"} ELSE @]
        /\ UNCHANGED csrc
  BY <1>0 DEF RoundWrite
<1>2. CopyShape /\ CpFields \subseteq DOMAIN cp /\ Total \in Nat /\ cp.wpos \in Nat /\ cp.rpos \in Nat
      /\ cp.wlen \in 0 .. Half /\ cp.rlen \in 0 .. Half /\ cp.rb \in {1, 2} /\ Half \in Nat
      /\ cdest \in Seq(Nat)
  BY ShapeFacts DEF CopyInv, CopyShape
<1>3. /\ cp'.pc = "round" /\ cp'.rlen = cp.rlen /\ cp'.kind = cp.kind /\ cp'.nbytes = cp.nbytes
      /\ cp'.cut = cp.cut /\ cp'.rpos = cp.rpos /\ cp'.wpos = cp.wpos + cp.wlen /\ cp'.wlen = cp.wlen
      /\ cp'.rb = cp.rb /\ cp'.buf = cp.buf /\ CpFields \subseteq DOMAIN cp' /\ cp'.todo = cp.todo \ {"write"}
      /\ cp'.bad = IF fail THEN cp.bad \cup {"write"} ELSE cp.bad
  BY <1>1, <1>2 DEF CpFields
<1>4. chist'.src = chist.src /\ {"src", "faults", "cut"} \subseteq DOMAIN chist' /\ Total' = Total
  BY <1>1, <1>2, SrcHistory
<1>5. /\ cp.todo \cap cp.bad = {} /\ cp.bad \subseteq {"read", "write"} /\ cp.todo \subseteq {"read", "write"}
      /\ WriteHalf /\ ("read" \notin cp.bad => ReadHalf)
  BY <1>1 DEF CopyInv, AtRound
<1>6. Due = cp.wpos + cp.wlen /\ Due' = Due
  BY <1>1, <1>3 DEF Due
<1>7. /\ s \in Seq(Nat) /\ Len(s) = cp.wlen
      /\ \A i \in 1 .. cp.wlen : s[i] = chist.src[cp.wpos + i]
  <2>1. PICK b : b = cp.buf[3 - cp.rb]
    OBVIOUS
  <2>2. 3 - cp.rb \in {1, 2}
    BY <1>2
  <2>3. b \in Seq(Nat) /\ Len(b) = Half
    BY <1>2, <2>1, <2>2, ShapeFacts
  <2>4. \A i \in 1 .. cp.wlen : b[i] = chist.src[cp.wpos + i]
    BY <1>1, <1>5, <2>1 DEF WriteHalf, InBuf
  <2>5. PICK w : w = cp.wlen /\ w \in 0 .. Half /\ w \in Int /\ w <= Len(b)
    BY <1>2, <2>3
  <2>6. /\ SubSeq(b, 0 + 1, w) \in Seq(Nat) /\ Len(SubSeq(b, 0 + 1, w)) = (IF 0 < w THEN w - 0 ELSE 0)
        /\ \A i \in 1 .. Len(SubSeq(b, 0 + 1, w)) : SubSeq(b, 0 + 1, w)[i] = b[0 + i]
    BY <2>3, <2>5, PartOf
  <2>7. s = SubSeq(b, 0 + 1, w)
    BY <1>0, <2>1, <2>5
  <2>8. Len(s) = w
    BY <2>5, <2>6, <2>7
  <2>9. \A i \in 1 .. w : s[i] = b[i]
    BY <2>5, <2>6, <2>7, <2>8
  <2> QED BY <2>4, <2>5, <2>6, <2>7, <2>8, <2>9
<1>8. cp.wpos <= Len(cdest) /\ (~cp.cut => Len(cdest) = cp.wpos)
      /\ \A i \in 1 .. cp.wpos : cdest[i] = chist.src[i]
  BY <1>5 DEF WriteHalf, DestHas
<1>9. PICK d : d = Overlay(cdest, cp.wpos, s)
  OBVIOUS
<1>10. /\ d \in Seq(Nat)
       /\ Len(d) = IF Len(cdest) < cp.wpos + cp.wlen THEN cp.wpos + cp.wlen ELSE Len(cdest)
       /\ \A i \in 1 .. cp.wlen : d[cp.wpos + i] = s[i]
       /\ \A i \in 1 .. cp.wpos : d[i] = cdest[i]
  <2>1. PICK e, w : e = cdest /\ w = cp.wpos
    OBVIOUS
  <2>2. e \in Seq(Nat) /\ w \in Nat /\ w <= Len(e) /\ s \in Seq(Nat) /\ d = Overlay(e, w, s)
    BY <1>2, <1>7, <1>8, <1>9, <2>1
  <2>3. /\ d \in Seq(Nat)
        /\ Len(d) = IF Len(e) < w + Len(s) THEN w + Len(s) ELSE Len(e)
        /\ \A i \in 1 .. Len(s) : d[w + i] = s[i]
        /\ \A i \in 1 .. w : d[i] = e[i]
    BY <2>2, OverlaySeq
  <2> QED BY <1>7, <2>1, <2>3
<1>11. cdest' \in Seq(Nat)
  BY <1>1, <1>2, <1>9, <1>10
<1>12. SrcShape'
  BY <1>1, <1>2, <1>3, <1>4 DEF CopyShape, SrcShape
<1>13. BufShape'
  BY <1>2, <1>3 DEF CopyShape, BufShape
<1>14. "read" \notin cp'.bad => ReadHalf'
  <2> SUFFICES ASSUME "read" \notin cp'.bad PROVE ReadHalf'
    OBVIOUS
  <2>1. ReadHalf /\ ("read" \in cp'.todo <=> "read" \in cp.todo)
    BY <1>3, <1>5
  <2>2. CountLeft(cp.rpos)'
    BY <1>3, <1>4, <2>1 DEF ReadHalf, CountLeft
  <2>3. "read" \notin cp.todo => InBuf(cp.rb, Due, cp.rlen)'
    BY <1>3, <1>4, <1>6, <2>1 DEF ReadHalf, InBuf
  <2> QED BY <1>3, <1>4, <1>6, <2>1, <2>2, <2>3 DEF ReadHalf
<1>15. "write" \notin cp'.bad => WriteHalf'
  <2> SUFFICES ASSUME "write" \notin cp'.bad PROVE WriteHalf'
    OBVIOUS
  <2>1. ~fail /\ cdest' = d /\ "write" \notin cp'.todo
    BY <1>1, <1>3, <1>9
  <2>2. cp'.wpos \in 0 .. Total' /\ Due' <= Total'
    BY <1>2, <1>3, <1>4, <1>5, <1>6 DEF WriteHalf
  <2>3. cp'.wpos <= Len(d) /\ (~cp'.cut => Len(d) = cp'.wpos)
    BY <1>2, <1>3, <1>8, <1>10
  <2>4. ASSUME NEW i \in 1 .. cp'.wpos PROVE d[i] = chist.src[i]
    <3>1. CASE i \in 1 .. cp.wpos
      BY <1>8, <1>10, <3>1
    <3>2. CASE i \notin 1 .. cp.wpos
      <4>1. PICK j : j = i - cp.wpos
        OBVIOUS
      <4>2. j \in 1 .. cp.wlen /\ cp.wpos + j = i
        BY <1>2, <1>3, <3>2, <4>1
      <4> QED BY <1>7, <1>10, <4>2
    <3> QED BY <3>1, <3>2
  <2>5. DestHas(cp.wpos)'
    BY <1>4, <2>1, <2>3, <2>4 DEF DestHas
  <2> QED BY <2>1, <2>2, <2>5 DEF WriteHalf
<1>16. AtRound'
  <2>1. cp'.todo \cap cp'.bad = {} /\ cp'.bad \subseteq {"read", "write"} /\ cp'.todo \subseteq {"read", "write"}
    BY <1>3, <1>5
  <2> QED BY <1>14, <1>15, <2>1 DEF AtRound
<1> QED BY <1>3, <1>11, <1>12, <1>13, <1>16
  DEF CopyInv, CopyShape, AtStart, AtSwap, AtEnd, CopyPcs, CopyExact

(* The read of a round. *)
LEMMA RoundReadOK == ASSUME CopyInv, RoundRead PROVE CopyInv'
<1>0. PICK n, got : n = cp.rlen /\ got = Got(n)
  OBVIOUS
<1>1. PICK fail \in BOOLEAN :
        /\ cp.pc = "round" /\ "read" \in cp.todo
        /\ IF ReadFails(n) THEN fail ELSE fail => CopyFault
        /\ Counts(fail /\ ~ReadFails(n))
        /\ cp' = IF fail THEN [cp EXCEPT !.todo = @ \ {"read"}, !.bad = @ \cup {"read"}]
                 ELSE [cp EXCEPT !.todo = @ \ {"read"}, !.buf[cp.rb] = Overlay(@, 0, got), !.rlen = Len(got),
                                 !.rpos = @ + Len(got), !.nbytes = @ - Len(got)]
        /\ UNCHANGED <<csrc, cdest>>
  BY <1>0 DEF RoundRead
<1>2. CopyShape /\ CpFields \subseteq DOMAIN cp /\ Total \in Nat /\ cp.wpos \in Nat /\ cp.rpos \in Nat
      /\ cp.wlen \in 0 .. Half /\ n \in 0 .. Half /\ n \in Nat /\ cp.rb \in {1, 2} /\ Half \in Nat
      /\ cp.nbytes \in Int
  BY <1>0, ShapeFacts DEF CopyInv, CopyShape
<1>3. chist'.src = chist.src /\ {"src", "faults", "cut"} \subseteq DOMAIN chist' /\ Total' = Total
  BY <1>1, <1>2, SrcHistory
<1>4. /\ got \in Seq(Nat) /\ Len(got) \in 0 .. n
      /\ \A i \in 1 .. Len(got) : got[i] = chist.src[cp.rpos + i]
      /\ cp.rpos <= Total => cp.rpos + Len(got) <= Total
      /\ cp.kind # "put" /\ ~ReadFails(n) => Len(got) = n
      /\ cp.kind = "put" /\ n > 0 /\ Len(got) = 0 => cp.rpos >= Total
  BY <1>0, <1>2, GotBytes, Zenon
<1>5. /\ cp.todo \cap cp.bad = {} /\ cp.bad \subseteq {"read", "write"} /\ cp.todo \subseteq {"read", "write"}
      /\ ReadHalf /\ ("write" \notin cp.bad => WriteHalf)
  BY <1>1 DEF CopyInv, AtRound
<1>6. /\ cp'.pc = "round" /\ cp'.kind = cp.kind /\ cp'.cut = cp.cut /\ cp'.wpos = cp.wpos /\ cp'.wlen = cp.wlen
      /\ cp'.rb = cp.rb /\ CpFields \subseteq DOMAIN cp' /\ cp'.todo = cp.todo \ {"read"}
      /\ cp'.bad = (IF fail THEN cp.bad \cup {"read"} ELSE cp.bad)
      /\ fail => cp'.buf = cp.buf /\ cp'.rlen = cp.rlen /\ cp'.rpos = cp.rpos /\ cp'.nbytes = cp.nbytes
      /\ ~fail => /\ cp'.buf = [cp.buf EXCEPT ![cp.rb] = Overlay(@, 0, got)]
                  /\ cp'.rlen = Len(got) /\ cp'.rpos = cp.rpos + Len(got) /\ cp'.nbytes = cp.nbytes - Len(got)
  BY <1>1, <1>2 DEF CpFields
<1>7. PICK b, c : b = cp.buf[cp.rb] /\ c = Overlay(b, 0, got)
  OBVIOUS
<1>8. c \in Seq(Nat) /\ Len(c) = Half /\ \A i \in 1 .. Len(got) : c[i] = got[i]
  <2>1. b \in Seq(Nat) /\ Len(b) = Half /\ Len(got) <= Half
    BY <1>2, <1>4, <1>7, ShapeFacts
  <2> QED BY <1>4, <1>7, <2>1, BufFilled
<1>9. /\ DOMAIN cp'.buf = {1, 2} /\ (\A h \in {1, 2} : cp'.buf[h] \in Seq(Nat) /\ Len(cp'.buf[h]) = Half)
      /\ cp'.buf[3 - cp.rb] = cp.buf[3 - cp.rb] /\ (~fail => cp'.buf[cp.rb] = c)
  <2>1. DOMAIN cp.buf = {1, 2} /\ (\A h \in {1, 2} : cp.buf[h] \in Seq(Nat) /\ Len(cp.buf[h]) = Half)
        /\ 3 - cp.rb \in {1, 2} \ {cp.rb}
    BY <1>2, ShapeFacts
  <2> QED BY <1>2, <1>6, <1>7, <1>8, <2>1
<1>10. SrcShape'
  BY <1>1, <1>2, <1>3, <1>6 DEF CopyShape, SrcShape
<1>11. BufShape'
  <2>1. cp'.rlen \in 0 .. Half /\ cp'.nbytes \in Int /\ cp'.rpos \in Nat
    BY <1>0, <1>2, <1>4, <1>6
  <2>2. cp.kind = "put" => cp.cut
    BY <1>2 DEF CopyShape, BufShape
  <2> QED BY <1>2, <1>6, <1>9, <2>1, <2>2 DEF BufShape
<1>12. Due' = Due /\ Due = cp.rpos
  BY <1>1, <1>5, <1>6 DEF Due, ReadHalf
<1>13. "write" \notin cp'.bad => WriteHalf'
  <2> SUFFICES ASSUME "write" \notin cp'.bad PROVE WriteHalf'
    OBVIOUS
  <2>1. WriteHalf /\ ("write" \in cp'.todo <=> "write" \in cp.todo)
    BY <1>5, <1>6
  <2>2. DestHas(cp.wpos)'
    BY <1>1, <1>3, <1>6, <2>1 DEF WriteHalf, DestHas
  <2>3. "write" \in cp.todo => InBuf(3 - cp.rb, cp.wpos, cp.wlen)'
    BY <1>3, <1>6, <1>9, <2>1 DEF WriteHalf, InBuf
  <2> QED BY <1>3, <1>6, <1>12, <2>1, <2>2, <2>3 DEF WriteHalf
<1>14. "read" \notin cp'.bad => ReadHalf'
  <2> SUFFICES ASSUME "read" \notin cp'.bad PROVE ReadHalf'
    OBVIOUS
  <2>1. ~fail /\ ~ReadFails(n) /\ "read" \notin cp'.todo
    BY <1>1, <1>6
  <2>2. n > 0 /\ cp.rpos <= Total /\ CountLeft(cp.rpos)
    BY <1>0, <1>1, <1>5 DEF ReadHalf
  <2>3. CountLeft(cp.rpos)'
    <3>1. CASE cp.kind = "put"
      BY <1>2, <1>4, <1>6, <2>1, <2>2, <3>1 DEF CountLeft
    <3>2. CASE cp.kind # "put"
      BY <1>2, <1>3, <1>4, <1>6, <2>1, <2>2, <3>2 DEF CountLeft
    <3> QED BY <3>1, <3>2
  <2>4. InBuf(cp.rb, Due, cp.rlen)'
    <3>1. \A i \in 1 .. Len(got) : c[i] = chist'.src[cp.rpos + i]
      BY <1>3, <1>4, <1>8
    <3> QED BY <1>6, <1>9, <1>12, <2>1, <3>1 DEF InBuf
  <2>5. cp'.rpos <= Total' /\ cp'.rpos = Due' + cp'.rlen /\ (cp'.rlen = 0 => cp'.rpos = Total')
    BY <1>2, <1>3, <1>4, <1>6, <1>12, <2>1, <2>2
  <2> QED BY <2>1, <2>3, <2>4, <2>5 DEF ReadHalf
<1>15. AtRound'
  <2>1. cp'.todo \cap cp'.bad = {} /\ cp'.bad \subseteq {"read", "write"} /\ cp'.todo \subseteq {"read", "write"}
    BY <1>5, <1>6
  <2> QED BY <1>13, <1>14, <2>1 DEF AtRound
<1>16. cdest' \in Seq(Nat)
  BY <1>1, <1>2 DEF CopyShape
<1> QED BY <1>6, <1>10, <1>11, <1>15, <1>16
  DEF CopyInv, CopyShape, AtStart, AtSwap, AtEnd, CopyPcs, CopyExact


(* The end of a round. *)
LEMMA RoundEndOK == ASSUME CopyInv, RoundEnd PROVE CopyInv'
<1>1. cp.pc = "round" /\ cp.todo = {} /\ UNCHANGED <<csrc, cdest, chist>>
  BY DEF RoundEnd
<1>2. CASE cp.bad # {}
  <2>1. PICK pc \in {"done", "undef"} : cp' = [cp EXCEPT !.pc = pc, !.ok = FALSE]
    BY <1>2 DEF RoundEnd
  <2> QED BY <1>1, <2>1, CopyOver
<1>3. CASE cp.bad = {}
  <2>1. PICK pc : pc = (IF cp.rlen > 0 THEN "swap" ELSE "end") /\ cp' = [cp EXCEPT !.pc = pc]
    BY <1>3 DEF RoundEnd
  <2>2. CopyShape /\ CpFields \subseteq DOMAIN cp /\ Total \in Nat /\ cp.wpos \in Nat /\ cp.rpos \in Nat
        /\ cp.rlen \in 0 .. Half /\ Half \in Nat
    BY ShapeFacts DEF CopyInv, CopyShape
  <2>3. /\ cp'.pc = pc /\ cp'.rlen = cp.rlen /\ cp'.kind = cp.kind /\ cp'.nbytes = cp.nbytes
        /\ cp'.cut = cp.cut /\ cp'.rpos = cp.rpos /\ cp'.wpos = cp.wpos /\ cp'.wlen = cp.wlen
        /\ cp'.rb = cp.rb /\ cp'.buf = cp.buf /\ CpFields \subseteq DOMAIN cp' /\ cp'.bad = cp.bad
    BY <2>1, <2>2 DEF CpFields
  <2>4. WriteHalf /\ ReadHalf /\ Due = cp.wpos
    BY <1>1, <1>3 DEF CopyInv, AtRound, Due
  <2>5. /\ DestHas(cp.wpos) /\ cp.rpos <= Total /\ CountLeft(cp.rpos) /\ cp.rpos = cp.wpos + cp.rlen
        /\ InBuf(cp.rb, cp.wpos, cp.rlen) /\ (cp.rlen = 0 => cp.rpos = Total)
    BY <1>1, <2>4 DEF WriteHalf, ReadHalf
  <2>6. Total' = Total
    BY <1>1 DEF Total
  <2>7. DestHas(cp.wpos)' /\ CountLeft(cp.rpos)' /\ InBuf(cp.rb, cp.wpos, cp.rlen)'
    BY <1>1, <2>3, <2>5, <2>6 DEF DestHas, CountLeft, InBuf
  <2>8. AtSwap'
    BY <1>3, <2>3, <2>5, <2>6, <2>7 DEF AtSwap
  <2>9. AtEnd'
    <3> SUFFICES ASSUME cp'.pc = "end" PROVE cp'.wpos = Total' /\ DestHas(Total)'
      BY DEF AtEnd
    <3>1. cp.wpos = Total
      BY <2>1, <2>2, <2>3, <2>5
    <3> QED BY <1>1, <2>3, <2>5, <2>6, <3>1 DEF DestHas
  <2>10. SrcShape'
    BY <1>1, <2>1, <2>2, <2>3, <2>6 DEF CopyShape, SrcShape
  <2>11. BufShape'
    BY <2>2, <2>3 DEF CopyShape, BufShape
  <2> QED BY <1>1, <2>1, <2>2, <2>3, <2>8, <2>9, <2>10, <2>11
    DEF CopyInv, CopyShape, AtStart, AtRound, CopyPcs, CopyExact
<1> QED BY <1>2, <1>3

(* The destination ends where the copy does. *)
LEMMA CopyEndOK == ASSUME CopyInv, CopyEnd PROVE CopyInv'
<1>1. PICK fail \in BOOLEAN :
        /\ cp.pc = "end" /\ (fail => cp.cut)
        /\ chist' = [chist EXCEPT !.faults = @ + IF fail THEN 1 ELSE 0, !.cut = fail]
        /\ cdest' = IF cp.cut /\ ~fail THEN Cut(cdest, cp.wpos) ELSE cdest
        /\ cp' = [cp EXCEPT !.pc = "done"] /\ UNCHANGED csrc
  BY DEF CopyEnd
<1>2. CopyShape /\ CpFields \subseteq DOMAIN cp /\ Total \in Nat /\ cdest \in Seq(Nat) /\ chist.src \in Seq(Nat)
      /\ {"src", "faults", "cut"} \subseteq DOMAIN chist
  BY ShapeFacts DEF CopyInv, CopyShape, SrcShape
<1>3. /\ cp'.pc = "done" /\ cp'.rlen = cp.rlen /\ cp'.kind = cp.kind /\ cp'.nbytes = cp.nbytes
      /\ cp'.cut = cp.cut /\ cp'.rpos = cp.rpos /\ cp'.wpos = cp.wpos /\ cp'.wlen = cp.wlen
      /\ cp'.rb = cp.rb /\ cp'.buf = cp.buf /\ CpFields \subseteq DOMAIN cp' /\ cp'.bad = cp.bad
  BY <1>1, <1>2 DEF CpFields
<1>4. chist'.src = chist.src /\ {"src", "faults", "cut"} \subseteq DOMAIN chist' /\ chist'.cut = fail
  BY <1>1, <1>2
<1>5. Total' = Total
  BY <1>4 DEF Total
<1>6. cp.wpos = Total /\ Total <= Len(cdest) /\ (~cp.cut => Len(cdest) = Total)
      /\ \A i \in 1 .. Total : cdest[i] = chist.src[i]
  BY <1>1 DEF CopyInv, AtEnd, DestHas
<1>7. PICK d, S, k : d = cdest /\ S = chist.src /\ k = Total
  OBVIOUS
<1>8. d \in Seq(Nat) /\ S \in Seq(Nat) /\ k \in Nat /\ Len(S) = k /\ k <= Len(d)
      /\ \A i \in 1 .. k : d[i] = S[i]
  BY <1>2, <1>6, <1>7 DEF Total
<1>9. cdest' \in Seq(Nat) /\ CopyExact'
  <2>1. CASE cp.cut /\ ~fail
    <3>1. cdest' = Cut(d, k)
      BY <1>1, <1>6, <1>7, <2>1
    <3>2. Cut(d, k) \in Seq(Nat) /\ Len(Cut(d, k)) = k /\ \A i \in 1 .. k : i <= Len(d) => Cut(d, k)[i] = d[i]
      BY <1>8, CutSeq
    <3>3. \A i \in 1 .. k : Cut(d, k)[i] = S[i]
      BY <1>8, <3>2
    <3>4. Cut(d, k) = S
      BY <1>8, <3>2, <3>3, SeqEqual
    <3> QED BY <1>4, <1>7, <3>1, <3>2, <3>4 DEF CopyExact
  <2>2. CASE ~cp.cut
    <3>1. Len(d) = k
      BY <1>6, <1>7, <2>2
    <3>2. d = S
      BY <1>8, <3>1, SeqEqual
    <3> QED BY <1>1, <1>2, <1>4, <1>7, <2>2, <3>2 DEF CopyExact
  <2>3. CASE fail
    <3>1. cdest' = d /\ cp'.cut /\ chist'.cut
      BY <1>1, <1>3, <1>4, <1>7, <2>3
    <3>2. PICK g : g = SubSeq(d, 0 + 1, k)
      OBVIOUS
    <3>3. g \in Seq(Nat) /\ Len(g) = (IF 0 < k THEN k - 0 ELSE 0) /\ \A i \in 1 .. Len(g) : g[i] = d[0 + i]
      BY <1>8, <3>2, PartOf
    <3>4. Len(g) = k
      BY <1>8, <3>3
    <3>5. \A i \in 1 .. k : g[i] = S[i]
      BY <1>8, <3>3, <3>4
    <3>6. g = S
      BY <1>8, <3>3, <3>4, <3>5, SeqEqual
    <3>7. SubSeq(d, 1, k) = S
      BY <3>2, <3>6
    <3> QED BY <1>4, <1>7, <1>8, <3>1, <3>7 DEF CopyExact
  <2> QED BY <2>1, <2>2, <2>3
<1>10. SrcShape'
  BY <1>1, <1>2, <1>3, <1>4, <1>5 DEF CopyShape, SrcShape
<1>11. BufShape'
  BY <1>2, <1>3 DEF CopyShape, BufShape
<1> QED BY <1>3, <1>9, <1>10, <1>11
  DEF CopyInv, CopyShape, AtStart, AtSwap, AtRound, AtEnd, CopyPcs

(* Somebody truncates the source. *)
LEMMA SrcShrinkOK == ASSUME CopyInv, SrcShrink PROVE CopyInv'
<1>1. PICK n \in SrcLens : /\ cp.pc \notin {"idle", "done", "undef"} /\ cp.kind # "put" /\ n < Len(csrc)
                           /\ csrc' = SubSeq(csrc, 1, n) /\ Counts(TRUE) /\ UNCHANGED <<cdest, cp>>
  BY DEF SrcShrink
<1>2. CopyShape /\ Total \in Nat /\ csrc \in Seq(Nat) /\ n \in Nat /\ chist.src \in Seq(Nat) /\ Len(csrc) <= Total
      /\ \A i \in 1 .. Len(csrc) : csrc[i] = chist.src[i]
  BY ShapeFacts, CopyAssumption DEF CopyInv, CopyShape, SrcShape
<1>3. chist'.src = chist.src /\ {"src", "faults", "cut"} \subseteq DOMAIN chist' /\ Total' = Total
  BY <1>1, <1>2, SrcHistory
<1>4. csrc' \in Seq(Nat) /\ Len(csrc') = n /\ \A i \in 1 .. n : csrc'[i] = chist'.src[i]
  <2>1. PICK C, S : C = csrc /\ S = chist.src
    OBVIOUS
  <2>2. PICK g : g = SubSeq(C, 0 + 1, n)
    OBVIOUS
  <2>3. C \in Seq(Nat) /\ S \in Seq(Nat) /\ (\A i \in 1 .. Len(C) : C[i] = S[i]) /\ n \in Int /\ n <= Len(C)
    BY <1>1, <1>2, <2>1
  <2>4. g \in Seq(Nat) /\ Len(g) = (IF 0 < n THEN n - 0 ELSE 0) /\ \A i \in 1 .. Len(g) : g[i] = S[0 + i]
    BY <2>2, <2>3, PartOf
  <2>5. csrc' = g
    BY <1>1, <2>1, <2>2
  <2>6. Len(g) = n
    BY <1>2, <2>4
  <2>7. \A i \in 1 .. n : g[i] = S[i]
    BY <2>4, <2>6
  <2> QED BY <1>3, <2>1, <2>4, <2>5, <2>6, <2>7
<1>5. SrcShape'
  BY <1>1, <1>2, <1>3, <1>4 DEF SrcShape
<1>6. BufShape' /\ cdest' \in Seq(Nat)
  BY <1>1, <1>2 DEF CopyShape, BufShape
<1>7. AtStart' /\ AtSwap' /\ AtEnd'
  <2>1. AtStart'
    BY <1>1, <1>3 DEF CopyInv, AtStart, DestHas, CountLeft
  <2>2. AtSwap'
    BY <1>1, <1>3 DEF CopyInv, AtSwap, DestHas, CountLeft, InBuf
  <2>3. AtEnd'
    BY <1>1, <1>3 DEF CopyInv, AtEnd, DestHas
  <2> QED BY <2>1, <2>2, <2>3
<1>8. AtRound'
  <2>1. WriteHalf => WriteHalf'
    BY <1>1, <1>3 DEF WriteHalf, DestHas, InBuf, Due
  <2>2. ReadHalf => ReadHalf'
    BY <1>1, <1>3 DEF ReadHalf, CountLeft, InBuf, Due
  <2> QED BY <1>1, <2>1, <2>2 DEF CopyInv, AtRound
<1> QED BY <1>1, <1>5, <1>6, <1>7, <1>8 DEF CopyInv, CopyShape, CopyExact

(* Before a copy begins. *)
LEMMA CopyInitOK == CopyInit => CopyInv
<1> SUFFICES ASSUME CopyInit PROVE CopyInv
  OBVIOUS
<1>1. PICK n \in SrcLens, d \in DestLens :
        /\ csrc = Bytes(n) /\ cdest = [i \in 1 .. d |-> Old] /\ cp = NoCopy
        /\ chist = [src |-> Bytes(n), faults |-> 0, cut |-> FALSE]
  BY DEF CopyInit
<1>2. n \in Nat /\ d \in Nat /\ Half \in Nat
  BY CopyAssumption
<1>3. Bytes(n) \in Seq(Nat) /\ Len(Bytes(n)) = n
  BY <1>2, ByteSeq DEF Bytes
<1>4. cdest \in Seq(Nat)
  BY <1>1, <1>2, ByteSeq DEF Old
<1>5. [i \in 1 .. Half |-> Old] \in Seq(Nat) /\ Len([i \in 1 .. Half |-> Old]) = Half
  BY <1>2, ByteSeq DEF Old
<1>6. SrcShape
  BY <1>1, <1>2, <1>3 DEF SrcShape, Total
<1>7. BufShape
  <2>1. cp.buf = [h \in 1 .. 2 |-> [i \in 1 .. Half |-> Old]] /\ DOMAIN cp.buf = {1, 2}
    BY <1>1 DEF NoCopy
  <2>2. \A h \in {1, 2} : cp.buf[h] = [i \in 1 .. Half |-> Old]
    BY <2>1
  <2>3. \A h \in {1, 2} : cp.buf[h] \in Seq(Nat) /\ Len(cp.buf[h]) = Half
    BY <1>5, <2>2
  <2>4. /\ CpFields \subseteq DOMAIN cp /\ cp.kind = "none" /\ cp.nbytes = 0 /\ cp.rpos = 0 /\ cp.wpos = 0
        /\ cp.rlen = 0 /\ cp.wlen = 0 /\ cp.rb = 1
    BY <1>1 DEF NoCopy, CpFields
  <2> QED BY <1>2, <2>1, <2>3, <2>4 DEF BufShape
<1>8. cp.pc = "idle"
  BY <1>1 DEF NoCopy
<1> QED BY <1>4, <1>6, <1>7, <1>8
  DEF CopyInv, CopyShape, AtStart, AtSwap, AtRound, AtEnd, CopyPcs, CopyExact

(* A copy that reports success has copied the whole source, whatever the   *)
(* sizes, the buffer, and the order of the transfers.                      *)
THEOREM CopiesAreExact == CopySpec => []CopyExact
<1>1. CopyInv /\ [CopyNext]_cvars => CopyInv'
  <2> SUFFICES ASSUME CopyInv, [CopyNext]_cvars PROVE CopyInv'
    OBVIOUS
  <2>1. CASE CopyNext
    BY <2>1, CallsOK, CopyReserveOK, FirstReadOK, SwapOK, RoundWriteOK, RoundReadOK, RoundEndOK, CopyEndOK,
       SrcShrinkOK DEF CopyNext
  <2>2. CASE UNCHANGED cvars
    <3>1. CopyShape'
      BY <2>2 DEF cvars, CopyInv, CopyShape, SrcShape, BufShape, Total
    <3>2. AtStart' /\ AtSwap' /\ AtEnd'
      BY <2>2 DEF cvars, CopyInv, AtStart, AtSwap, AtEnd, DestHas, CountLeft, InBuf, Total
    <3>3. AtRound'
      BY <2>2 DEF cvars, CopyInv, AtRound, WriteHalf, ReadHalf, DestHas, CountLeft, InBuf, Total, Due
    <3> QED BY <2>2, <3>1, <3>2, <3>3 DEF cvars, CopyInv, CopyExact
  <2> QED BY <2>1, <2>2
<1>2. CopyInv => CopyExact
  BY DEF CopyInv
<1> QED BY <1>1, <1>2, CopyInitOK, PTL DEF CopySpec
================================================================================
