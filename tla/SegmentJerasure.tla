---------------------------- MODULE SegmentJerasure ----------------------------
(***************************************************************************)
(* The erasure coded segment (segment_jerasure.c).  A stripe is NData      *)
(* chunks of data and NParity chunks of parity, one on each device of the  *)
(* child LUN, each preceded by a magic, the checksum of the whole stripe;  *)
(* reads and repairs look for the magic most devices agree on.  Files of   *)
(* an older format (magic_cksum = 0) have magics that are no checksums.    *)
(*                                                                         *)
(* The child fails an operation on any set of devices; a chunk that could  *)
(* not be read arrives as zeros.  Abstracted: a chunk is named by the word *)
(* it is a chunk of (the words differ on every device, and any NData       *)
(* chunks of a word determine it), a checksum is as good as the stripe it  *)
(* is taken of, an operation is on one stripe, the parity buffer holds     *)
(* what is in flight, and the counters of soft and hard errors are left    *)
(* out.                                                                    *)
(***************************************************************************)
EXTENDS Naturals, FiniteSets, FiniteSetsExt

CONSTANTS
  NData, NParity,
  MaxStripes,   \* stripes of the largest file
  Data,         \* the words the client writes
  Zero, Junk,   \* the word of zeros, and chunks of no word
  NoMagic, OldMagic, \* zeros, as where nothing was written; and no checksum
  Blacklist,    \* whether slow devices are skipped at first (s->blacklist)
  Modes,        \* bound: the inspections asked for
  FailSets,     \* bound: sets of devices that fail an operation together
  Faulty,       \* bound: devices that are lost or corrupted
  MaxWrites,    \* bound: writes made
  MaxFaults,    \* bound: devices lost and chunks corrupted
  MaxInspects,  \* bound: inspections
  MaxLoops      \* passes of a full inspection (max_loops, 10 in the code)

Devs == 0..(NData + NParity - 1)
DataDevs == 0..(NData - 1)
Stripes == 1..MaxStripes
Words == Data \cup {Zero}

(* Two magics that NData devices each agree on do not fit in a stripe only *)
(* if parity is the minority.                                              *)
ASSUME JerasureAssumption ==
  /\ {NData, NParity, MaxStripes, MaxWrites, MaxFaults, MaxInspects, MaxLoops} \subseteq Nat
  /\ NParity < NData /\ FailSets \subseteq SUBSET Devs /\ Faulty \subseteq Devs /\ Blacklist \in BOOLEAN
  /\ Cardinality({Zero, Junk, NoMagic, OldMagic}) = 4 /\ {Zero, Junk, NoMagic, OldMagic} \cap Data = {}

VARIABLES
  jstore,     \* per stripe and device: the magic and the chunk
  jlen,       \* stripes of the file
  jdown,      \* devices whose allocations are lost
  jflags,     \* magic_cksum, write_errors and paranoid_check of the segment
  jsaved,     \* magic_cksum and write_errors in the stored exnode
  jwrite,     \* the write each stripe is in: its word and attempt
  jinsp,      \* the inspection
  jobs,       \* what the last step, if it ended a read or an inspection, told
  jmay,       \* history: the words a read of each stripe may return
  jcount      \* history: writes and faults so far

jvars == <<jstore, jlen, jdown, jflags, jsaved, jwrite, jinsp, jobs, jmay, jcount>>

-----------------------------------------------------------------------------
(* Magics, decoding and the search for the devices that are wrong.         *)

(* The word all of D's chunks are of, and plan->encode_block.              *)
WordOf(arr, D) ==
  LET x == arr[CHOOSE d \in D : TRUE] IN IF x \in Words /\ \A d \in D : arr[d] = x THEN x ELSE Junk
Encode(x) == [d \in Devs |-> x]
Cksum(arr) == WordOf(arr, Devs)

Blank == [m |-> NoMagic, c |-> Zero]
BlankStripe == [d \in Devs |-> Blank]
Written(x) == [d \in Devs |-> [m |-> Cksum(Encode(x)), c |-> Encode(x)[d]]]

(* plan->decode_block: the chunks in E are computed from the first NData   *)
(* others, in place; more erasures than parity are refused.                *)
Survivors == [E \in SUBSET Devs |-> {d \in Devs \ E : Cardinality({e \in Devs \ E : e < d}) < NData}]
Decode(arr, E) ==
  LET x == WordOf(arr, Survivors[E])
  IN IF E = {} \/ Cardinality(E) > NParity THEN arr ELSE [d \in Devs |-> IF d \in E THEN x ELSE arr[d]]

(* With a checksum the decoded stripe is compared with it; without one,    *)
(* chunks that are taken to be good are computed from the others.          *)
ControlCheck(arr, bad, cksum, magic) ==
  IF cksum THEN Cksum(Decode(arr, bad)) = magic
  ELSE Cardinality(bad) >= NParity \/ WordOf(arr, Devs \ bad) # Junk

(* jerase_brute_recurse tries sets of k devices in lexicographic order.    *)
Before(A, B) == MapThenSumSet(LAMBDA d : 2^(NData + NParity - d), A)
                  > MapThenSumSet(LAMBDA d : 2^(NData + NParity - d), B)
Failures == [k \in 1..NParity |-> kSubset(k, Devs)]
BruteRecurse(arr, k, cksum, magic) == {B \in Failures[k] : ControlCheck(arr, B, cksum, magic)}

(* The first guess is decoded in place; then one failed device is tried,   *)
(* then two, keeping one as a control when there is no checksum.           *)
Hits(arr, cksum, magic) ==
  UNION {BruteRecurse(arr, k, cksum, magic) : k \in 1..(IF cksum THEN NParity ELSE NParity - 1)}
FirstHit(hits) ==
  CHOOSE B \in hits : \A A \in hits \ {B} :
    Cardinality(B) < Cardinality(A) \/ (Cardinality(B) = Cardinality(A) /\ Before(B, A))
DecodeHit(arr, B, brute) == [ok |-> TRUE, brute |-> brute, bad |-> B, arr |-> Decode(arr, B)]
BruteForce(arr, hits) ==
  IF hits = {} THEN [ok |-> FALSE, brute |-> TRUE, bad |-> {}, arr |-> arr] ELSE DecodeHit(arr, FirstHit(hits), TRUE)
BruteFrom(arr, cksum, magic) == BruteForce(arr, Hits(arr, cksum, magic))
BruteRecovery(arr, guess, cksum, magic) ==
  IF ControlCheck(arr, guess, cksum, magic) THEN DecodeHit(arr, guess, TRUE)
  ELSE BruteFrom(Decode(arr, guess), cksum, magic)

(* The magic most devices have, of the first device that has it on a tie.  *)
Quorum(st) ==
  LET votes(d) == Cardinality({e \in Devs : st[e].m = st[d].m})
      top == CHOOSE d \in Devs : \A e \in Devs : votes(d) > votes(e) \/ (votes(d) = votes(e) /\ d <= e)
  IN [m |-> st[top].m, devs |-> {d \in Devs : st[d].m = st[top].m}]

(* A stripe is checked with the devices of other magics as the bad ones,   *)
(* and by brute force, from the last guess that worked, if that fails.     *)
Judge(arr, q, guess, cksum) ==
  LET bad == Devs \ q.devs IN
  IF ControlCheck(arr, bad, cksum, q.m) THEN DecodeHit(arr, bad, FALSE)
  ELSE BruteRecovery(Decode(arr, bad), IF guess = {} THEN bad ELSE guess, cksum, q.m)
Chunks(st) == [d \in Devs |-> st[d].c]
Recover(st, q, guess, cksum) == Judge(Chunks(st), q, guess, cksum)

(* The devices an operation of the child fails on.                         *)
Fails == {F \cup jdown : F \in FailSets}

(* What the child returns of a stripe: zeros for chunks it cannot read.    *)
ChildRead(s, F) == [d \in Devs |-> IF d \in F THEN Blank ELSE jstore[s][d]]

-----------------------------------------------------------------------------
Observed(kind, s, ok, val, note) == [kind |-> kind, s |-> s, ok |-> ok, val |-> val, note |-> note]
JeNothing == Observed("none", 0, FALSE, Zero, {})
NoInsp == [pc |-> "idle", opt |-> "quick", rep |-> FALSE, force |-> FALSE, fix |-> FALSE, st |-> TRUE,
           cnt |-> 0, max |-> 0, loop |-> 0, rng |-> {}, buf |-> [s \in {} |-> {}], puts |-> {},
           failed |-> FALSE, rerr |-> FALSE, seen |-> [s \in {} |-> {}], note |-> {}]
NoWrite == [on |-> FALSE, val |-> Zero, try |-> 0]

(* A new file, a written one, or one of the older format.                  *)
JeInit ==
  /\ \E old \in BOOLEAN, w \in Words :
       /\ old => w # Zero
       /\ jstore = [s \in Stripes |->
            IF w = Zero THEN BlankStripe
            ELSE IF old THEN [d \in Devs |-> [m |-> OldMagic, c |-> w]] ELSE Written(w)]
       /\ jmay = [s \in Stripes |-> {w}]
       /\ jflags = [cksum |-> ~old, werr |-> FALSE, paranoid |-> FALSE]
       /\ jsaved = [cksum |-> ~old, werr |-> FALSE]
  /\ jlen = MaxStripes /\ jdown = {} /\ jobs = JeNothing /\ jinsp = NoInsp
  /\ jwrite = [s \in Stripes |-> NoWrite] /\ jcount = [w |-> 0, f |-> 0, i |-> 0]

-----------------------------------------------------------------------------
(* Reads.  The whole magic table is built and judged before data is used.  *)

ReadStripe(st, q, F, careful) ==
  LET got(r) == [ok |-> r.ok, val |-> WordOf(r.arr, DataDevs), careful |-> careful] IN
  IF q.devs = Devs /\ q.m = NoMagic THEN got([ok |-> Cardinality(F) < NParity, arr |-> Encode(Zero)])
  ELSE IF DataDevs \subseteq q.devs /\ ~careful THEN got([ok |-> TRUE, arr |-> Chunks(st)])
  ELSE IF Cardinality(q.devs) < NData THEN got([ok |-> FALSE, arr |-> Chunks(st)])
  ELSE got(Recover(st, q, {}, jflags.cksum))
JudgeRead(st, F) == ReadStripe(st, Quorum(st), F, F # {} \/ jflags.paranoid)
JeReadFunc(s, F) == JudgeRead(ChildRead(s, F), F)

(* A hard error is tried again with no device skipped.                     *)
JeRead(s) ==
  /\ s <= jlen /\ ~jwrite[s].on
  /\ \E F0 \in Fails : \E r0 \in {JeReadFunc(s, F0)} :
     \E r \in IF ~r0.ok /\ Blacklist THEN {JeReadFunc(s, F) : F \in Fails} ELSE {r0} :
       jobs' = Observed("read", s, r.ok, r.val, IF r.careful THEN {"careful"} ELSE {})
  /\ UNCHANGED <<jstore, jlen, jdown, jflags, jsaved, jwrite, jinsp, jmay, jcount>>

-----------------------------------------------------------------------------
(* Writes.                                                                 *)

JeWrite(s, v) ==
  /\ s <= jlen /\ ~jwrite[s].on /\ jcount.w < MaxWrites
  /\ jwrite' = [jwrite EXCEPT ![s] = [on |-> TRUE, val |-> v, try |-> 0]]
  /\ jmay' = [jmay EXCEPT ![s] = @ \cup {v}]
  /\ jcount' = [jcount EXCEPT !.w = @ + 1]
  /\ jobs' = JeNothing
  /\ UNCHANGED <<jstore, jlen, jdown, jflags, jsaved, jinsp>>

Stored(s, v, ds) == [jstore EXCEPT ![s] = [d \in Devs |-> IF d \in ds THEN Written(v)[d] ELSE @[d]]]

(* Mutant: one error more is still soft.                                   *)
JeWriteFunc_Lenient(s, F) ==
  /\ jwrite[s].on
  /\ jstore' = Stored(s, jwrite[s].val, Devs \ F)
  /\ jwrite' = [jwrite EXCEPT ![s] = NoWrite]
  /\ jmay' = IF Cardinality(F) > NParity + 1 THEN jmay ELSE [jmay EXCEPT ![s] = {jwrite[s].val}]
  /\ jobs' = JeNothing
  /\ UNCHANGED <<jlen, jdown, jsaved, jcount, jinsp, jflags>>

(* The stripe is encoded, its magic computed and all of it sent.  Errors   *)
(* on up to NParity devices are soft: the write succeeds and is remembered.*)
JeWriteFunc(s, F) ==
  /\ jwrite[s].on
  /\ jstore' = Stored(s, jwrite[s].val, Devs \ F)
  /\ LET hard == Cardinality(F) > NParity IN
     IF hard /\ Blacklist /\ jwrite[s].try = 0
     THEN /\ jwrite' = [jwrite EXCEPT ![s].try = 1]
          /\ UNCHANGED <<jmay, jflags>>
     ELSE /\ jwrite' = [jwrite EXCEPT ![s] = NoWrite]
          /\ jmay' = IF hard THEN jmay ELSE [jmay EXCEPT ![s] = {jwrite[s].val}]
          /\ jflags' = IF F = {} THEN jflags ELSE [jflags EXCEPT !.werr = TRUE, !.paranoid = TRUE]
  /\ jinsp' = IF jinsp.pc = "write" THEN [jinsp EXCEPT !.note = @ \cup {"raced"}] ELSE jinsp
  /\ jobs' = JeNothing
  /\ UNCHANGED <<jlen, jdown, jsaved, jcount>>

(* Sizes are rounded up to whole stripes, and an empty file gets checksums.*)
StripesOf(size) == (size + NData - 1) \div NData

JeTruncate(size) ==
  /\ \A s \in Stripes : ~jwrite[s].on
  /\ jinsp.pc = "idle" /\ StripesOf(size) # jlen
  /\ jlen' = StripesOf(size)
  /\ jstore' = [s \in Stripes |-> IF s > jlen' THEN BlankStripe ELSE jstore[s]]
  /\ jmay' = [s \in Stripes |-> IF s > jlen' THEN {Zero} ELSE jmay[s]]
  /\ jflags' = IF size = 0 THEN [jflags EXCEPT !.cksum = TRUE] ELSE jflags
  /\ jobs' = JeNothing
  /\ UNCHANGED <<jdown, jsaved, jwrite, jinsp, jcount>>

-----------------------------------------------------------------------------
(* The exnode, and a client that stops: what it was writing reached some   *)
(* of the devices, and what it knew is what it stored.                     *)

JeSerialize ==
  /\ jsaved # [cksum |-> jflags.cksum, werr |-> jflags.werr]
  /\ jsaved' = [cksum |-> jflags.cksum, werr |-> jflags.werr]
  /\ jobs' = JeNothing
  /\ UNCHANGED <<jstore, jlen, jdown, jflags, jwrite, jinsp, jmay, jcount>>

JeDeserialize == [cksum |-> jsaved.cksum \/ jlen = 0, werr |-> jsaved.werr, paranoid |-> jsaved.werr]

JeRestart(W) ==
  /\ IF \E s \in Stripes : jwrite[s].on THEN TRUE ELSE W = Devs /\ (jflags # JeDeserialize \/ jinsp.pc # "idle")
  /\ jstore' = [s \in Stripes |-> IF jwrite[s].on THEN Stored(s, jwrite[s].val, W \ jdown)[s] ELSE jstore[s]]
  /\ jflags' = JeDeserialize
  /\ jwrite' = [s \in Stripes |-> NoWrite] /\ jinsp' = NoInsp /\ jobs' = JeNothing
  /\ UNCHANGED <<jlen, jdown, jsaved, jmay, jcount>>

-----------------------------------------------------------------------------
(* Faults of the child.                                                    *)

JeFault == jcount.f < MaxFaults /\ jcount' = [jcount EXCEPT !.f = @ + 1] /\ jobs' = JeNothing

LoseDevice(d) ==
  /\ JeFault /\ d \notin jdown
  /\ jdown' = jdown \cup {d}
  /\ UNCHANGED <<jstore, jlen, jflags, jsaved, jwrite, jinsp, jmay>>

(* One that comes while a repair stores what it read is not its matter.    *)
Corrupt(s, d) ==
  /\ JeFault /\ jinsp.pc # "write" /\ jstore[s][d].m # NoMagic /\ jstore[s][d].c # Junk
  /\ jstore' = [jstore EXCEPT ![s][d].c = Junk]
  /\ UNCHANGED <<jlen, jdown, jflags, jsaved, jwrite, jinsp, jmay>>

-----------------------------------------------------------------------------
(* Inspection: of the child first, which replaces lost devices by blank    *)
(* ones when it repairs; then of the stripes.                              *)

JeInspect(m) ==
  /\ jinsp.pc = "idle" /\ jcount.i < MaxInspects
  /\ jcount' = [jcount EXCEPT !.i = @ + 1]
  /\ jinsp' = [NoInsp EXCEPT !.pc = "child", !.opt = m[1], !.rep = "repair" \in m[2], !.force = "force" \in m[2], !.fix = "fix" \in m[2]]
  /\ jobs' = JeNothing
  /\ UNCHANGED <<jstore, jlen, jdown, jflags, jsaved, jwrite, jmay>>

(* The verdict.  A check or repair of all bytes that succeeded clears the  *)
(* memory of write errors, and a repair has made every magic a checksum.   *)
Finish(i, st) ==
  LET ok == st /\ i.max <= NData /\ ~(i.cnt > 0 /\ ~i.force)
      notes == i.note \cup {i.opt} \cup (IF i.rep THEN {"repair"} ELSE {})
  IN /\ jinsp' = NoInsp
     /\ jobs' = Observed("inspect", 0, ok, Zero, notes)
     /\ jflags' = IF i.opt = "full" /\ st
                  THEN [jflags EXCEPT !.werr = FALSE, !.cksum = @ \/ i.rep] ELSE jflags

Goto(i) == jinsp' = i /\ jobs' = JeNothing /\ UNCHANGED jflags

(* A quick repair becomes a full one when something was replaced, or may   *)
(* be wrong.                                                               *)
AfterChild(i, n, ok) ==
  LET more == i.opt = "quick" /\ i.rep /\ (n > 0 \/ ~jflags.cksum \/ jflags.werr)
      j == [i EXCEPT !.opt = IF more THEN "full" ELSE @, !.max = n, !.cnt = n, !.rng = 1..jlen]
  IN IF ~ok /\ n > NParity THEN Finish([j EXCEPT !.opt = "quick"], FALSE)
     ELSE CASE j.opt = "quick" -> Finish(j, ok)
            [] j.opt = "scan" -> Goto([j EXCEPT !.pc = "scan"])
            [] j.opt = "full" -> Goto([j EXCEPT !.pc = "read", !.cnt = 0, !.loop = 1])

(* After a pass with errors of the child, its inspection comes again.      *)
AgainAfterChild(i, n, ok) ==
  LET j == [i EXCEPT !.cnt = n, !.max = IF n > @ THEN n ELSE @]
  IN IF ~ok \/ n > NParity THEN Finish(j, FALSE) ELSE Goto([j EXCEPT !.pc = "read"])

InspectChild(R) ==
  /\ jinsp.pc = "child" /\ R \subseteq jdown /\ (~jinsp.rep => R = {})
  /\ jdown' = jdown \ R
  /\ jstore' = [s \in Stripes |-> [d \in Devs |-> IF d \in R THEN Blank ELSE jstore[s][d]]]
  /\ LET n == Cardinality(jdown) IN
     IF jinsp.loop = 0 THEN AfterChild(jinsp, n, R = jdown) ELSE AgainAfterChild(jinsp, n, R = jdown)
  /\ UNCHANGED <<jlen, jsaved, jwrite, jmay, jcount>>

(* A scan compares the magics only; the stripes that differ are repaired.  *)
InspectScan(F) ==
  /\ jinsp.pc = "scan"
  /\ LET bad == {s \in 1..jlen : Quorum(ChildRead(s, F)).devs # Devs} IN
     IF jinsp.rep /\ bad # {} THEN Goto([jinsp EXCEPT !.pc = "read", !.rng = bad])
     ELSE Finish(jinsp, bad = {})
  /\ UNCHANGED <<jstore, jlen, jdown, jsaved, jwrite, jmay, jcount>>

(* What is found of one stripe, given the last brute force guess: the      *)
(* buffer as it is left, and the chunks to store.                          *)
Found(kind, buf, puts, guess, note) == [kind |-> kind, buf |-> buf, puts |-> puts, guess |-> guess, note |-> note]
(* A stripe that could be decoded; without checksums all its chunks are    *)
(* stored again, under the checksum of what was found.                     *)
Mended(st, q, r, magic, guess, cksum) ==
  LET buf == [d \in Devs |-> IF d \in r.bad \/ ~cksum THEN [m |-> magic, c |-> r.arr[d]] ELSE st[d]]
      puts == r.bad \cup (IF cksum THEN {} ELSE Devs)
  IN IF r.brute THEN Found("bad", buf, puts, r.bad, IF q.devs # Devs THEN {"mixed"} ELSE {})
     ELSE Found(IF q.devs = Devs THEN "good" ELSE "bad", buf, puts, guess,
                IF ~cksum /\ Cardinality(r.bad) >= NParity THEN {"uncontrolled"} ELSE {})
(* One that could not is left as the last attempt at decoding left it.     *)
Mend(st, q, r, guess, cksum) ==
  IF r.ok THEN Mended(st, q, r, IF cksum THEN q.m ELSE Cksum(r.arr), guess, cksum)
  ELSE Found("lost", [d \in Devs |-> [m |-> st[d].m, c |-> r.arr[d]]], IF cksum THEN {} ELSE Devs, guess, {})
FindStripe(st, q, guess, cksum) ==
  IF q.m # NoMagic /\ Cardinality(q.devs) >= NData THEN Mend(st, q, Recover(st, q, guess, cksum), guess, cksum)
  ELSE Found(IF q.m = NoMagic /\ q.devs = Devs THEN "empty" ELSE "lost", st, IF cksum THEN {} ELSE Devs, guess, {})
InspectStripe(st, guess, cksum) == FindStripe(st, Quorum(st), guess, cksum)

(* Mutant: a failed store is not an error of the repair.                   *)
EndPass_NoWrite(i, failed, werr) == Finish(i, ~i.failed)

(* A pass over the bytes: errors left, and whether to go round again.      *)
EndPass(i, failed, werr) ==
  LET again == failed /\ i.opt = "full" /\ i.loop < MaxLoops /\ i.fix /\ (i.rerr \/ werr)
  IN IF again THEN Goto([i EXCEPT !.pc = "child", !.loop = @ + 1, !.rerr = FALSE, !.puts = {},
                                  !.buf = NoInsp.buf, !.seen = NoInsp.seen])
     ELSE Finish(i, ~failed)

(* The stripes are read at once and judged in order.                       *)
InspectStripes(in, cksum) ==
  LET at[s \in 0..MaxStripes] ==
        IF s = 0 THEN Found("empty", BlankStripe, {}, {}, {})
        ELSE IF s \in DOMAIN in THEN InspectStripe(in[s], at[s - 1].guess, cksum) ELSE at[s - 1]
  IN [s \in DOMAIN in |-> at[s]]
(* A repair goes on to store what it has to store.                         *)
EndRead(i, at, puts, kinds) ==
  IF puts = {} THEN EndPass(i, "lost" \in kinds \/ ("bad" \in kinds /\ ~i.rep), FALSE)
  ELSE Goto([i EXCEPT !.pc = "write", !.puts = puts, !.buf = [s \in i.rng |-> at[s].buf],
                      !.seen = [s \in i.rng |-> jmay[s]]])
Judged(at, F) ==
  LET kinds == {at[s].kind : s \in jinsp.rng}
      puts == {<<s, d>> \in jinsp.rng \X Devs : jinsp.rep /\ d \in at[s].puts}
      blind == IF "empty" \in kinds /\ F # {} THEN {"blind"} ELSE {}
      i == [jinsp EXCEPT !.rerr = F # {}, !.failed = "lost" \in kinds,
                         !.note = @ \cup blind \cup UNION {at[s].note : s \in jinsp.rng}]
  IN EndRead(i, at, puts, kinds)

InspectFullRead(F) ==
  /\ jinsp.pc = "read"
  /\ \E at \in {InspectStripes([s \in jinsp.rng |-> ChildRead(s, F)], jflags.cksum)} : Judged(at, F)
  /\ UNCHANGED <<jstore, jlen, jdown, jsaved, jwrite, jmay, jcount>>

(* The mended chunks are stored, over whatever was written meanwhile.      *)
InspectFullWrite(F) ==
  /\ jinsp.pc = "write"
  /\ jstore' = [s \in Stripes |-> [d \in Devs |->
                  IF <<s, d>> \in jinsp.puts /\ d \notin F THEN jinsp.buf[s][d] ELSE jstore[s][d]]]
  /\ jmay' = [s \in Stripes |-> jmay[s] \cup (IF s \in jinsp.rng THEN jinsp.seen[s] ELSE {})
                                        \cup (IF "uncontrolled" \in jinsp.note THEN {Junk} ELSE {})]
  /\ LET werr == \E p \in jinsp.puts : p[2] \in F
     IN EndPass(jinsp, jinsp.failed \/ werr, werr)
  /\ UNCHANGED <<jlen, jdown, jsaved, jwrite, jcount>>

-----------------------------------------------------------------------------
JeNext ==
  \/ \E s \in Stripes :
       \/ JeRead(s)
       \/ \E v \in Data : JeWrite(s, v)
       \/ \E F \in Fails : JeWriteFunc(s, F)
       \/ \E d \in Faulty : Corrupt(s, d)
  \/ \E n \in 0..(MaxStripes * NData) : JeTruncate(n)
  \/ JeSerialize
  \/ \E F \in FailSets : JeRestart(Devs \ F)
  \/ \E d \in Faulty : LoseDevice(d)
  \/ \E m \in Modes : JeInspect(m)
  \/ \E R \in SUBSET jdown : InspectChild(R)
  \/ \E F \in Fails : InspectScan(F) \/ InspectFullRead(F) \/ InspectFullWrite(F)

-----------------------------------------------------------------------------
Whole(s) == jstore[s] = BlankStripe \/ Junk \in jmay[s] \/ \E x \in jmay[s] : jstore[s] = Written(x)
Blanks(s) == {d \in Devs : jstore[s][d].m = NoMagic}
Sound(s) == \A d \in Devs : jstore[s][d].c # Junk

(* A read that succeeds returns the last word acknowledged for its stripe, *)
(* or one of a write that failed or stopped since, whichever devices fail  *)
(* it; zeros if more devices than parity were replaced.  A corrupt chunk   *)
(* is noticed when the read is careful (segjerase_read_func).              *)
ReadsRight ==
  jobs.kind = "read" /\ jobs.ok /\ jflags.cksum /\ (Sound(jobs.s) \/ "careful" \in jobs.note) =>
    \/ jobs.val \in jmay[jobs.s]
    \/ jobs.val = Zero /\ Cardinality(Blanks(jobs.s)) > NParity

(* A full repair that succeeds leaves every stripe as one write would have *)
(* left it, on all devices (segjerase_inspect_full_func).                  *)
RepairRestores ==
  jobs.kind = "inspect" /\ jobs.ok /\ {"full", "repair"} \subseteq jobs.note
    /\ {"raced", "blind", "mixed", "uncontrolled"} \cap jobs.note = {} =>
    \A s \in 1..jlen : Whole(s) \/ jwrite[s].on
=============================================================================
