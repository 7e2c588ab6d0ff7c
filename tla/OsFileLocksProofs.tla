------------------------- MODULE OsFileLocksProofs -------------------------
(***************************************************************************)
(* Proofs about the object locks of os_file.c, for any number of opens,    *)
(* objects and holes of the pigeon coop.                                   *)
(***************************************************************************)
EXTENDS OsFileLocks, FiniteSetTheorems, SequenceTheorems, TLAPS

Readers(h) == {t \in active[h] : IsReader(t)}
Others(h)  == {t \in active[h] : ~IsReader(t)}

\* The two parts of an active list are finite sets.
LEMMA ActiveFinite ==
  ASSUME TypeOK, NEW h \in Holes
  PROVE  /\ IsFiniteSet(Readers(h)) /\ Cardinality(Readers(h)) \in Nat
         /\ IsFiniteSet(Others(h))  /\ Cardinality(Others(h)) \in Nat
<1>1. Readers(h) \in SUBSET Opens /\ Others(h) \in SUBSET Opens
  BY DEF TypeOK, Readers, Others
<1>2. IsFiniteSet(Readers(h)) /\ IsFiniteSet(Others(h))
  BY <1>1, FS_Subset, OpensAssumption
<1> QED
  BY <1>2, FS_CardinalityType

\* full_object_lock: counting myself in keeps the counts exact.
LEMMA CountInKeepsCounts ==
  ASSUME CountInv, NEW t \in Opens, NEW h \in Holes, CountIn(t, h),
         pc[t] \in {"idle", "waiting"}, mode' = mode
  PROVE  /\ pc' \in [Opens -> PCs]
         /\ active' \in [Holes -> SUBSET Opens]
         /\ read_count' \in [Holes -> Nat]
         /\ write_count' \in [Holes -> Nat]
         /\ CountsMatchActive'
         /\ ActiveStarted'
<1>1. /\ pc' \in [Opens -> PCs]
      /\ active' \in [Holes -> SUBSET Opens]
      /\ read_count' \in [Holes -> Nat]
      /\ write_count' \in [Holes -> Nat]
  BY DEF CountInv, TypeOK, CountIn, PCs
<1>2. ActiveStarted'
  BY DEF CountInv, TypeOK, CountIn, ActiveStarted
<1>3. CountsMatchActive'
  <2> SUFFICES ASSUME NEW k \in Holes
               PROVE  /\ read_count'[k] = Cardinality(Readers(k)')
                      /\ write_count'[k] = Cardinality(Others(k)')
    BY DEF CountsMatchActive, Readers, Others, IsReader
  <2>1. /\ read_count[k] = Cardinality(Readers(k))
        /\ write_count[k] = Cardinality(Others(k))
    BY DEF CountInv, CountsMatchActive, Readers, Others
  <2>2. t \notin active[k]
    BY DEF CountInv, ActiveStarted
  <2>3. CASE k # h
    BY <2>1, <2>3 DEF CountIn, Readers, Others, IsReader, CountInv, TypeOK
  <2>4. CASE k = h /\ IsReader(t)
    <3>1. Readers(k)' = Readers(k) \cup {t} /\ Others(k)' = Others(k)
      BY <2>4 DEF CountIn, Readers, Others, IsReader, CountInv, TypeOK
    <3>2. read_count'[k] = read_count[k] + 1 /\ write_count'[k] = write_count[k]
      BY <2>4 DEF CountIn, CountInv, TypeOK
    <3>3. Cardinality(Readers(k) \cup {t}) = Cardinality(Readers(k)) + 1
      BY <2>2, FS_AddElement, ActiveFinite DEF Readers, CountInv
    <3> QED
      BY <2>1, <3>1, <3>2, <3>3
  <2>5. CASE k = h /\ ~IsReader(t)
    <3>1. Readers(k)' = Readers(k) /\ Others(k)' = Others(k) \cup {t}
      BY <2>5 DEF CountIn, Readers, Others, IsReader, CountInv, TypeOK
    <3>2. read_count'[k] = read_count[k] /\ write_count'[k] = write_count[k] + 1
      BY <2>5 DEF CountIn, CountInv, TypeOK
    <3>3. Cardinality(Others(k) \cup {t}) = Cardinality(Others(k)) + 1
      BY <2>2, FS_AddElement, ActiveFinite DEF Others, CountInv
    <3> QED
      BY <2>1, <3>1, <3>2, <3>3
  <2> QED
    BY <2>3, <2>4, <2>5
<1> QED
  BY <1>1, <1>2, <1>3

\* full_object_unlock: the close of an fd on the active list takes exactly
\* one from the count of its kind, which is not zero.
LEMMA UnlockKeepsCounts ==
  ASSUME CountInv, NEW t \in Opens, Unlock(t)
  PROVE  /\ read_count' \in [Holes -> Nat]
         /\ write_count' \in [Holes -> Nat]
         /\ CountsMatchActive'
<1> DEFINE h == table[name[t]]
<1>1. h \in Holes /\ t \in active[h] /\ mode' = mode
  BY DEF Unlock, CountInv, TypeOK, request
<1>2. ASSUME NEW k \in Holes
      PROVE  /\ read_count'[k] \in Nat /\ write_count'[k] \in Nat
             /\ read_count'[k] = Cardinality(Readers(k)')
             /\ write_count'[k] = Cardinality(Others(k)')
  <2>1. /\ read_count[k] = Cardinality(Readers(k))
        /\ write_count[k] = Cardinality(Others(k))
    BY DEF CountInv, CountsMatchActive, Readers, Others
  <2>2. CASE k # h
    BY <1>1, <2>1, <2>2 DEF Unlock, Readers, Others, IsReader, CountInv, TypeOK
  <2>3. CASE k = h /\ IsReader(t)
    <3>1. Readers(k)' = Readers(k) \ {t} /\ Others(k)' = Others(k)
      BY <1>1, <2>3 DEF Unlock, Readers, Others, IsReader, CountInv, TypeOK
    <3>2. read_count'[k] = read_count[k] - 1 /\ write_count'[k] = write_count[k]
      BY <1>1, <2>3 DEF Unlock, CountInv, TypeOK
    <3>3. t \in Readers(k)
      BY <1>1, <2>3 DEF Readers
    <3>4. Cardinality(Readers(k) \ {t}) = Cardinality(Readers(k)) - 1
      BY <3>3, FS_RemoveElement, ActiveFinite DEF CountInv
    <3>5. Cardinality(Readers(k) \ {t}) \in Nat
      BY FS_RemoveElement, FS_CardinalityType, ActiveFinite DEF CountInv
    <3> QED
      BY <2>1, <3>1, <3>2, <3>4, <3>5 DEF CountInv, TypeOK
  <2>4. CASE k = h /\ ~IsReader(t)
    <3>1. Readers(k)' = Readers(k) /\ Others(k)' = Others(k) \ {t}
      BY <1>1, <2>4 DEF Unlock, Readers, Others, IsReader, CountInv, TypeOK
    <3>2. read_count'[k] = read_count[k] /\ write_count'[k] = write_count[k] - 1
      BY <1>1, <2>4 DEF Unlock, CountInv, TypeOK
    <3>3. t \in Others(k)
      BY <1>1, <2>4 DEF Others
    <3>4. Cardinality(Others(k) \ {t}) = Cardinality(Others(k)) - 1
      BY <3>3, FS_RemoveElement, ActiveFinite DEF CountInv
    <3>5. Cardinality(Others(k) \ {t}) \in Nat
      BY FS_RemoveElement, FS_CardinalityType, ActiveFinite DEF CountInv
    <3> QED
      BY <2>1, <3>1, <3>2, <3>4, <3>5 DEF CountInv, TypeOK
  <2> QED
    BY <2>2, <2>3, <2>4
<1>3. /\ read_count' = [read_count EXCEPT ![h] = read_count'[h]]
      /\ write_count' = [write_count EXCEPT ![h] = write_count'[h]]
  BY <1>1 DEF Unlock, CountInv, TypeOK
<1>4. read_count' \in [Holes -> Nat] /\ write_count' \in [Holes -> Nat]
  BY <1>1, <1>2, <1>3 DEF CountInv, TypeOK
<1>5. CountsMatchActive'
  BY <1>2 DEF CountsMatchActive, Readers, Others, IsReader
<1> QED
  BY <1>4, <1>5

\* Removing an opener from a queue leaves a queue of openers.
LEMMA WithoutType ==
  ASSUME NEW S, NEW s \in Seq(S), NEW t
  PROVE  Without(s, t) \in Seq(S)
<1>1. CASE \E i \in 1..Len(s) : s[i] = t
  <2> DEFINE k == CHOOSE i \in 1..Len(s) : s[i] = t
             r == [i \in 1..(Len(s) - 1) |-> IF i < k THEN s[i] ELSE s[i + 1]]
  <2>1. k \in 1..Len(s) /\ Len(s) \in Nat
    BY <1>1
  <2>2. \A i \in 1..(Len(s) - 1) : r[i] \in S
    BY <2>1
  <2>3. Len(s) - 1 \in Nat /\ r \in [1..(Len(s) - 1) -> S]
    BY <2>1, <2>2
  <2>4. r \in Seq(S)
    BY <2>3
  <2> QED
    BY <1>1, <2>4 DEF Without
<1>2. CASE ~ \E i \in 1..Len(s) : s[i] = t
  BY <1>2 DEF Without
<1> QED
  BY <1>1, <1>2

\* The initial state has empty lists and zero counts.
LEMMA InitCountInv == Init => CountInv
<1> SUFFICES ASSUME Init PROVE CountInv
  OBVIOUS
<1>1. TypeOK
  <2>1. stack \in [Holes -> Seq(Opens)]
    BY DEF Init
  <2>2. /\ read_count \in [Holes -> Nat] /\ write_count \in [Holes -> Nat]
        /\ active \in [Holes -> SUBSET Opens] /\ free \in SUBSET Holes
        /\ halted \in {"no", "mutex_kept", "null_fol"} /\ raced \in BOOLEAN
    BY DEF Init
  <2>3. /\ pc \in [Opens -> PCs] /\ abort \in [Opens -> BOOLEAN]
        /\ hole \in [Opens -> Holes \cup {NoHole}]
        /\ table \in [Objects -> Holes \cup {NoHole}]
        /\ mode \in [Opens -> Modes] /\ name \in [Opens -> Objects]
    BY DEF Init, PCs
  <2> QED
    BY <2>1, <2>2, <2>3 DEF TypeOK
<1>2. CountsMatchActive
  <2> SUFFICES ASSUME NEW h \in Holes
               PROVE  /\ Cardinality({t \in active[h] : IsReader(t)}) = 0
                      /\ Cardinality({t \in active[h] : ~IsReader(t)}) = 0
    BY DEF CountsMatchActive, Init
  <2>1. /\ {t \in active[h] : IsReader(t)} = {}
        /\ {t \in active[h] : ~IsReader(t)} = {}
    BY DEF Init
  <2> QED
    BY <2>1, FS_EmptySet
<1>3. ActiveStarted /\ SleepersHaveHole
  BY DEF Init, ActiveStarted, SleepersHaveHole
<1> QED
  BY <1>1, <1>2, <1>3 DEF CountInv

\* Every critical section under fobj_lock keeps the types and the counts.
LEMMA NextCountInv == CountInv /\ [Next]_vars => CountInv'
<1> SUFFICES ASSUME CountInv, [Next]_vars PROVE CountInv'
  OBVIOUS
<1> USE DEF CountInv
<1>1. ASSUME NEW t \in Opens, OpenImmediate(t) \/ OpenRefused(t) PROVE CountInv'
  <2>1. TypeOK'
    BY <1>1 DEF OpenImmediate, OpenRefused, TypeOK, PCs, request, fol
  <2>2. CountsMatchActive'
    BY <1>1 DEF OpenImmediate, OpenRefused, CountsMatchActive, IsReader, request, fol
  <2>3. ActiveStarted' /\ SleepersHaveHole'
    BY <1>1 DEF OpenImmediate, OpenRefused, ActiveStarted, SleepersHaveHole, TypeOK, fol
  <2> QED
    BY <2>1, <2>2, <2>3
<1>2. ASSUME NEW t \in Opens, LockNow(t) PROVE CountInv'
  <2>1. PICK h \in Lookup(name[t]) :
          /\ table' = [table EXCEPT ![name[t]] = h]
          /\ free' = free \ {h}
          /\ hole' = [hole EXCEPT ![t] = h]
          /\ CountIn(t, h)
          /\ raced' = (raced \/ \E u \in Granted(h) : Conflict(t, u))
    BY <1>2 DEF LockNow
  <2>2. h \in Holes
    BY <2>1 DEF Lookup, TypeOK
  <2>3. pc[t] \in {"idle", "waiting"} /\ mode' = mode
    BY <1>2 DEF LockNow, request
  <2>4. /\ pc' \in [Opens -> PCs]
        /\ active' \in [Holes -> SUBSET Opens]
        /\ read_count' \in [Holes -> Nat]
        /\ write_count' \in [Holes -> Nat]
        /\ CountsMatchActive'
        /\ ActiveStarted'
    BY <2>1, <2>2, <2>3, CountInKeepsCounts
  <2>5. TypeOK'
    BY <1>2, <2>1, <2>2, <2>4 DEF LockNow, TypeOK, request
  <2>6. SleepersHaveHole'
    BY <2>1, <2>2 DEF CountIn, SleepersHaveHole, TypeOK
  <2> QED
    BY <2>4, <2>5, <2>6
<1>3. ASSUME NEW t \in Opens, LockWait(t) PROVE CountInv'
  <2>1. PICK h \in Lookup(name[t]) :
          /\ table' = [table EXCEPT ![name[t]] = h]
          /\ free' = free \ {h}
          /\ hole' = [hole EXCEPT ![t] = h]
          /\ stack' = [stack EXCEPT ![h] = Append(@, t)]
    BY <1>3 DEF LockWait
  <2>2. h \in Holes
    BY <2>1 DEF Lookup, TypeOK
  <2>3. TypeOK'
    <3>1. stack' \in [Holes -> Seq(Opens)]
      BY <2>1, <2>2 DEF TypeOK
    <3> QED
      BY <1>3, <2>1, <2>2, <3>1 DEF LockWait, TypeOK, request, PCs
  <2>4. CountsMatchActive'
    <3>1. UNCHANGED <<mode, active, read_count, write_count>>
      BY <1>3 DEF LockWait, request
    <3> QED
      BY <3>1 DEF CountsMatchActive, IsReader
  <2>5. ActiveStarted' /\ SleepersHaveHole'
    BY <1>3, <2>1, <2>2 DEF LockWait, ActiveStarted, SleepersHaveHole, TypeOK
  <2> QED
    BY <2>3, <2>4, <2>5
<1>4. ASSUME NEW t \in Opens, WakeGranted(t) PROVE CountInv'
  <2>1. PICK h \in Holes : h = hole[t]
    BY <1>4 DEF WakeGranted, SleepersHaveHole
  <2>2. CountIn(t, h) /\ pc[t] \in {"idle", "waiting"} /\ mode' = mode
    BY <1>4, <2>1 DEF WakeGranted, request
  <2>3. /\ pc' \in [Opens -> PCs]
        /\ active' \in [Holes -> SUBSET Opens]
        /\ read_count' \in [Holes -> Nat]
        /\ write_count' \in [Holes -> Nat]
        /\ CountsMatchActive'
        /\ ActiveStarted'
    BY <2>2, CountInKeepsCounts
  <2>4. stack' \in [Holes -> Seq(Opens)] /\ abort' \in [Opens -> BOOLEAN]
    <3>1. CASE stack' = stack /\ abort' = abort
      BY <3>1 DEF TypeOK
    <3>2. CASE stack[h] # <<>> /\ Wake(h)
      BY <2>1, <3>2 DEF Wake, TypeOK
    <3> QED
      BY <1>4, <2>1, <3>1, <3>2 DEF WakeGranted
  <2>5. TypeOK'
    BY <1>4, <2>3, <2>4 DEF WakeGranted, TypeOK, request
  <2>6. SleepersHaveHole'
    BY <1>4, <2>2 DEF WakeGranted, CountIn, SleepersHaveHole, TypeOK
  <2> QED
    BY <2>3, <2>5, <2>6
<1>5. ASSUME NEW t \in Opens, WakeAborted(t) \/ AbortOpen(t) PROVE CountInv'
  <2>1. stack' \in [Holes -> Seq(Opens)]
    <3>1. PICK h \in Holes : \/ stack' = [stack EXCEPT ![h] = Without(stack[h], t)]
                             \/ stack' = stack
      BY <1>5 DEF WakeAborted, AbortOpen, TypeOK, SleepersHaveHole
    <3>2. Without(stack[h], t) \in Seq(Opens)
      BY WithoutType DEF TypeOK
    <3> QED
      BY <3>1, <3>2 DEF TypeOK
  <2>2. TypeOK'
    BY <1>5, <2>1 DEF WakeAborted, AbortOpen, TypeOK, PCs, request
  <2>3. CountsMatchActive'
    BY <1>5 DEF WakeAborted, AbortOpen, CountsMatchActive, IsReader, request
  <2>4. ActiveStarted' /\ SleepersHaveHole'
    BY <1>5 DEF WakeAborted, AbortOpen, ActiveStarted, SleepersHaveHole, TypeOK
  <2> QED
    BY <2>2, <2>3, <2>4
<1>6. ASSUME NEW t \in Opens, Unlock(t) PROVE CountInv'
  <2>1. /\ read_count' \in [Holes -> Nat]
        /\ write_count' \in [Holes -> Nat]
        /\ CountsMatchActive'
    BY <1>6, UnlockKeepsCounts
  <2>2. PICK h \in Holes : h = table[name[t]]
    BY <1>6 DEF Unlock, TypeOK
  <2>3. PICK rc, wc : HandOn(t, h, rc, wc)
    BY <1>6, <2>2 DEF Unlock
  <2>4. stack' \in [Holes -> Seq(Opens)] /\ abort' \in [Opens -> BOOLEAN]
    <3>1. CASE stack' = stack /\ abort' = abort
      BY <3>1 DEF TypeOK
    <3>2. CASE stack[h] # <<>> /\ Wake(h)
      BY <2>2, <3>2 DEF Wake, TypeOK
    <3> QED
      BY <2>3, <3>1, <3>2 DEF HandOn, MayWake
  <2>5. /\ table' \in [Objects -> Holes \cup {NoHole}]
        /\ free' \in SUBSET Holes
        /\ raced' \in BOOLEAN
    BY <2>2, <2>3 DEF HandOn, TypeOK
  <2>6. TypeOK'
    BY <1>6, <2>1, <2>2, <2>4, <2>5 DEF Unlock, TypeOK, PCs, request
  <2>7. ActiveStarted' /\ SleepersHaveHole'
    BY <1>6, <2>2 DEF Unlock, ActiveStarted, SleepersHaveHole, TypeOK
  <2> QED
    BY <2>1, <2>6, <2>7
<1>7. ASSUME NEW t \in Opens, CloseUnlocked(t) \/ CloseKeepsMutex(t) PROVE CountInv'
  <2>1. TypeOK'
    BY <1>7 DEF CloseUnlocked, CloseKeepsMutex, TypeOK, PCs, request, fol
  <2>2. CountsMatchActive'
    BY <1>7 DEF CloseUnlocked, CloseKeepsMutex, CountsMatchActive, IsReader, request, fol
  <2>3. ActiveStarted' /\ SleepersHaveHole'
    BY <1>7 DEF CloseUnlocked, CloseKeepsMutex, ActiveStarted, SleepersHaveHole, TypeOK, fol
  <2> QED
    BY <2>1, <2>2, <2>3
<1>8. CASE UNCHANGED vars
  BY <1>8 DEF vars, request, opener, fol, TypeOK, CountsMatchActive, ActiveStarted,
              SleepersHaveHole, IsReader
<1> QED
  BY <1>1, <1>2, <1>3, <1>4, <1>5, <1>6, <1>7, <1>8 DEF Next

\* The read and write counts that full_object_lock and full_object_unlock
\* decide on are always the numbers of readers and writers on the active
\* list, even for recycled holes.
THEOREM CountsAreExact == Spec => [](TypeOK /\ CountsMatchActive)
<1>1. CountInv => TypeOK /\ CountsMatchActive
  BY DEF CountInv
<1> QED
  BY InitCountInv, NextCountInv, <1>1, PTL DEF Spec

-----------------------------------------------------------------------------
\* A zero count means that nobody of that kind is on the active list.
LEMMA ZeroCount ==
  ASSUME CountInv, NEW h \in Holes
  PROVE  /\ read_count[h] = 0 => \A t \in active[h] : ~IsReader(t)
         /\ write_count[h] = 0 => \A t \in active[h] : IsReader(t)
<1>1. /\ read_count[h] = Cardinality(Readers(h))
      /\ write_count[h] = Cardinality(Others(h))
  BY DEF CountInv, CountsMatchActive, Readers, Others
<1>2. /\ Cardinality(Readers(h)) = 0 => Readers(h) = {}
      /\ Cardinality(Others(h)) = 0 => Others(h) = {}
  BY ActiveFinite, FS_EmptySet DEF CountInv
<1> QED
  BY <1>1, <1>2 DEF Readers, Others

\* A set of openers of size zero is empty.
LEMMA EmptyPart ==
  ASSUME NEW B \in SUBSET Opens, Cardinality(B) = 0
  PROVE  B = {}
BY OpensAssumption, FS_Subset, FS_EmptySet

\* Removing an opener from a queue without duplicates leaves the others.
LEMMA WithoutElements ==
  ASSUME NEW S, NEW s \in Seq(S), NEW t, NEW w, w = Without(s, t),
         \A i, j \in 1..Len(s) : s[i] = s[j] => i = j
  PROVE  /\ \A i \in 1..Len(w) : w[i] # t /\ \E j \in 1..Len(s) : w[i] = s[j]
         /\ \A i, j \in 1..Len(w) : w[i] = w[j] => i = j
         /\ \A j \in 1..Len(s) : s[j] # t => \E i \in 1..Len(w) : w[i] = s[j]
<1>1. CASE \E i \in 1..Len(s) : s[i] = t
  <2> DEFINE k == CHOOSE i \in 1..Len(s) : s[i] = t
             r == [i \in 1..(Len(s) - 1) |-> IF i < k THEN s[i] ELSE s[i + 1]]
  <2>1. k \in 1..Len(s) /\ s[k] = t /\ Len(s) \in Nat
    BY <1>1
  <2>2. Without(s, t) = r
    BY <1>1 DEF Without
  <2> HIDE DEF k
  <2>3. DOMAIN r = 1..(Len(s) - 1) /\ Len(s) - 1 \in Nat
    BY <2>1
  <2>4. \A i \in 1..(Len(s) - 1) : r[i] = IF i < k THEN s[i] ELSE s[i + 1]
    OBVIOUS
  <2>5. r \in Seq(S)
    BY <2>2, WithoutType
  <2> HIDE DEF r
  <2>6. Len(r) = Len(s) - 1
    BY <2>3, <2>5, LenProperties
  <2>7. ASSUME NEW i \in 1..(Len(s) - 1)
        PROVE  r[i] # t /\ \E j \in 1..Len(s) : r[i] = s[j]
    <3>1. CASE i < k
      BY <2>1, <2>4, <3>1
    <3>2. CASE ~(i < k)
      BY <2>1, <2>4, <3>2
    <3> QED
      BY <3>1, <3>2
  <2>8. ASSUME NEW i \in 1..(Len(s) - 1), NEW j \in 1..(Len(s) - 1), r[i] = r[j]
        PROVE  i = j
    BY <2>1, <2>4, <2>8
  <2>9. ASSUME NEW j \in 1..Len(s), s[j] # t
        PROVE  \E i \in 1..(Len(s) - 1) : r[i] = s[j]
    <3>1. CASE j < k
      <4>1. j \in 1..(Len(s) - 1) /\ r[j] = s[j]
        BY <2>1, <2>4, <3>1
      <4> QED
        BY <4>1
    <3>2. CASE j > k
      <4>1. j - 1 \in 1..(Len(s) - 1) /\ ~(j - 1 < k) /\ (j - 1) + 1 = j
        BY <2>1, <3>2
      <4>2. r[j - 1] = s[j]
        BY <2>4, <4>1
      <4> QED
        BY <4>1, <4>2
    <3> QED
      BY <2>1, <2>9, <3>1, <3>2
  <2> QED
    BY <2>2, <2>6, <2>7, <2>8, <2>9
<1>2. CASE ~ \E i \in 1..Len(s) : s[i] = t
  BY <1>2 DEF Without
<1> QED
  BY <1>1, <1>2

LockParts ==
  /\ halted = "no"
  /\ TableInjective
  /\ QueueConsistent
  /\ SleepersQueued
  /\ OwnersConsistent
  /\ OwnersExclusive

\* Every object is free at the start.
LEMMA InitLockInv == Init => LockInv
<1> SUFFICES ASSUME Init PROVE LockParts
  BY DEF LockInv, LockParts
<1>1. TableInjective
  BY DEF Init, TableInjective
<1>2. QueueConsistent /\ SleepersQueued
  BY DEF Init, QueueConsistent, SleepersQueued
<1>3. \A h \in Holes : Owners(h) = {}
  BY DEF Init, Owners, Granted
<1>4. OwnersConsistent /\ OwnersExclusive
  BY <1>3 DEF Init, OwnersConsistent, OwnersExclusive
<1> QED
  BY <1>1, <1>2, <1>4 DEF LockParts, Init

\* An open that takes no lock, or is refused, disturbs nobody.
LEMMA OpenKeepsLockParts ==
  ASSUME CountInv, LockParts, NEW t \in Opens,
         OpenImmediate(t) \/ OpenRefused(t)
  PROVE  LockParts'
<1>1. /\ UNCHANGED <<mode, name, abort, hole, table, free, stack, active, halted>>
      /\ pc[t] = "idle"
      /\ \A u \in Opens : u # t => pc'[u] = pc[u]
      /\ pc'[t] = "failed" \/ (pc'[t] = "open" /\ ~IsLocked(t))
  BY DEF OpenImmediate, OpenRefused, request, fol, CountInv, TypeOK
<1> USE <1>1
<1>2. TableInjective'
  BY DEF TableInjective, LockParts
<1>3. QueueConsistent'
  <2>1. \A h \in Holes : \A i \in 1..Len(stack[h]) : stack[h][i] # t
    BY DEF QueueConsistent, LockParts
  <2>2. \A h \in Holes : \A i \in 1..Len(stack[h]) : stack[h][i] \in Opens
    BY DEF CountInv, TypeOK
  <2> QED
    BY <2>1, <2>2 DEF QueueConsistent, LockParts, IsLocked
<1>7. SleepersQueued'
  BY DEF SleepersQueued, LockParts
<1>4. \A h \in Holes : Owners(h)' = Owners(h)
  BY DEF Owners, Granted
<1>5. OwnersConsistent'
  BY <1>4 DEF OwnersConsistent, LockParts, IsLocked, CountInv, TypeOK
<1>6. OwnersExclusive'
  BY <1>4 DEF OwnersExclusive, LockParts, Conflict, IsWriter
<1> QED
  BY <1>2, <1>3, <1>5, <1>6, <1>7 DEF LockParts

\* An opener that is neither asleep nor open is in no queue and owns nothing.
LEMMA IdleUnknown ==
  ASSUME CountInv, LockParts, NEW t \in Opens, pc[t] = "idle"
  PROVE  /\ \A h \in Holes : t \notin Owners(h)
         /\ \A h \in Holes : \A i \in 1..Len(stack[h]) : stack[h][i] # t
BY DEF LockParts, OwnersConsistent, Owners, Granted, QueueConsistent

\* The members of the queues are openers.
LEMMA QueueMembers ==
  ASSUME TypeOK, NEW h \in Holes, NEW i \in 1..Len(stack[h])
  PROVE  stack[h][i] \in Opens
BY DEF TypeOK

\* full_object_lock finds a fol that belongs to this object alone.
LEMMA LookupKeepsTable ==
  ASSUME CountInv, LockParts, NEW t \in Opens, NEW h \in Lookup(name[t]),
         table' = [table EXCEPT ![name[t]] = h], free' = free \ {h},
         name' = name
  PROVE  /\ h \in Holes
         /\ TableInjective'
         /\ table'[name[t]] = h
         /\ \A u \in Opens : table[name[u]] \in Holes => table'[name[u]] = table[name[u]]
         /\ table[name[t]] # h => h \in free /\ Owners(h) = {}
<1>1. h \in Holes /\ name[t] \in Objects
  BY DEF Lookup, CountInv, TypeOK
<1>2. table[name[t]] = h \/ (table[name[t]] = NoHole /\ h \in free)
  BY DEF Lookup
<1>3. TableInjective'
  BY <1>1, <1>2 DEF TableInjective, LockParts, CountInv, TypeOK
<1>4. /\ table'[name[t]] = h
      /\ \A u \in Opens : table[name[u]] \in Holes => table'[name[u]] = table[name[u]]
  BY <1>1, <1>2, HolesAssumption DEF CountInv, TypeOK
<1>5. h \in free => Owners(h) = {}
  <2> SUFFICES ASSUME h \in free, NEW u \in Owners(h) PROVE FALSE
    OBVIOUS
  <2>1. u \in Opens
    BY <1>1 DEF Owners, Granted, CountInv, TypeOK
  <2>2. table[name[u]] = h
    BY <1>1 DEF LockParts, OwnersConsistent
  <2> QED
    BY <1>1, <2>1, <2>2, HolesAssumption DEF TableInjective, LockParts, CountInv, TypeOK
<1> QED
  BY <1>1, <1>2, <1>3, <1>4, <1>5

\* An opener that is let in at once conflicts with no owner, unless it
\* overtakes one that was woken and has not run.
LEMMA LockNowKeepsLockParts ==
  ASSUME CountInv, LockParts, NEW t \in Opens, LockNow(t), ~raced'
  PROVE  LockParts'
<1>1. PICK h \in Lookup(name[t]) :
        /\ ~MustWait(t, h)
        /\ table' = [table EXCEPT ![name[t]] = h]
        /\ free' = free \ {h}
        /\ hole' = [hole EXCEPT ![t] = h]
        /\ CountIn(t, h)
        /\ raced' = (raced \/ \E u \in Granted(h) : Conflict(t, u))
  BY DEF LockNow
<1>2. /\ UNCHANGED <<mode, name, abort, stack, halted>>
      /\ pc[t] = "idle" /\ IsLocked(t)
  BY DEF LockNow, request
<1>3. /\ h \in Holes
      /\ TableInjective'
      /\ table'[name[t]] = h
      /\ \A u \in Opens : table[name[u]] \in Holes => table'[name[u]] = table[name[u]]
      /\ table[name[t]] # h => h \in free /\ Owners(h) = {}
  BY <1>1, <1>2, LookupKeepsTable
<1>4. /\ \A k \in Holes : t \notin Owners(k)
      /\ \A k \in Holes : \A i \in 1..Len(stack[k]) : stack[k][i] # t
  BY <1>2, IdleUnknown
<1>5. /\ \A u \in Opens : u # t => pc'[u] = pc[u] /\ hole'[u] = hole[u]
      /\ pc'[t] = "open" /\ hole'[t] = h
      /\ active'[h] = active[h] \cup {t}
      /\ \A k \in Holes : k # h => active'[k] = active[k]
  BY <1>1, <1>3 DEF CountIn, CountInv, TypeOK
<1>6. /\ Owners(h)' = Owners(h) \cup {t}
      /\ \A k \in Holes : k # h => Owners(k)' = Owners(k)
  BY <1>2, <1>3, <1>5 DEF Owners, Granted
<1>7. QueueConsistent'
  <2> SUFFICES ASSUME NEW k \in Holes, NEW i \in 1..Len(stack[k])
               PROVE  /\ pc'[stack[k][i]] = "waiting"
                      /\ hole'[stack[k][i]] = k
                      /\ table'[name[stack[k][i]]] = k
    BY <1>2 DEF QueueConsistent, LockParts, IsLocked
  <2>1. stack[k][i] \in Opens /\ stack[k][i] # t
    BY <1>4, QueueMembers DEF CountInv
  <2> QED
    BY <1>3, <1>5, <2>1 DEF QueueConsistent, LockParts
<1>8. OwnersConsistent'
  <2>1. \A k \in Holes : \A u \in active'[k] : pc'[u] = "open" /\ hole'[u] = k
    <3> SUFFICES ASSUME NEW k \in Holes, NEW u \in active'[k]
                 PROVE  pc'[u] = "open" /\ hole'[u] = k
      OBVIOUS
    <3>1. CASE u = t
      BY <1>4, <1>5, <3>1 DEF Owners
    <3>2. CASE u # t
      <4>1. u \in active[k] /\ u \in Opens
        BY <1>3, <1>5, <3>2 DEF CountInv, TypeOK
      <4> QED
        BY <1>5, <3>2, <4>1 DEF OwnersConsistent, LockParts
    <3> QED
      BY <3>1, <3>2
  <2>2. \A k \in Holes : \A u \in Owners(k)' : table'[name[u]] = k /\ IsLocked(u)
    <3> SUFFICES ASSUME NEW k \in Holes, NEW u \in Owners(k)'
                 PROVE  table'[name[u]] = k /\ IsLocked(u)
      OBVIOUS
    <3>1. CASE u = t
      BY <1>2, <1>3, <1>4, <1>6, <3>1
    <3>2. CASE u # t
      <4>1. u \in Owners(k) /\ u \in Opens
        BY <1>6, <3>2 DEF Owners, Granted, CountInv, TypeOK
      <4> QED
        BY <1>3, <4>1 DEF OwnersConsistent, LockParts
    <3> QED
      BY <3>1, <3>2
  <2>3. \A u \in Opens : pc'[u] = "open" /\ IsLocked(u) =>
           hole'[u] \in Holes /\ u \in active'[hole'[u]]
    BY <1>3, <1>5 DEF OwnersConsistent, LockParts
  <2>4. \A u \in Opens : pc'[u] = "aborted" => abort[u]
    BY <1>5 DEF OwnersConsistent, LockParts
  <2> QED
    BY <1>2, <2>1, <2>2, <2>3, <2>4 DEF OwnersConsistent, IsLocked
<1>9. OwnersExclusive'
  <2>1. \A u \in Owners(h) : ~Conflict(t, u)
    <3> SUFFICES ASSUME NEW u \in Owners(h) PROVE ~Conflict(t, u)
      OBVIOUS
    <3>1. CASE u \in Granted(h)
      BY <1>1, <3>1
    <3>2. CASE u \in active[h]
      <4>1. write_count[h] = 0 /\ (~IsReader(t) => read_count[h] = 0)
        BY <1>1 DEF MustWait
      <4>2. IsReader(u) /\ (~IsReader(t) => ~IsReader(u))
        BY <1>3, <3>2, <4>1, ZeroCount
      <4> QED
        BY <4>2 DEF IsReader, Conflict, IsWriter, READ_BLOCKING, WRITE_BLOCKING, WRITE_IMMEDIATE
    <3> QED
      BY <3>1, <3>2 DEF Owners
  <2> QED
    BY <1>2, <1>3, <1>6, <2>1 DEF OwnersExclusive, LockParts, Conflict, IsWriter
<1>10. SleepersQueued'
  BY <1>2, <1>5 DEF SleepersQueued, LockParts
<1> QED
  BY <1>2, <1>3, <1>7, <1>8, <1>9, <1>10 DEF LockParts

\* An opener that goes to sleep joins the end of the queue of its own fol.
LEMMA LockWaitKeepsLockParts ==
  ASSUME CountInv, LockParts, NEW t \in Opens, LockWait(t)
  PROVE  LockParts'
<1>1. PICK h \in Lookup(name[t]) :
        /\ table' = [table EXCEPT ![name[t]] = h]
        /\ free' = free \ {h}
        /\ hole' = [hole EXCEPT ![t] = h]
        /\ stack' = [stack EXCEPT ![h] = Append(@, t)]
  BY DEF LockWait
<1>2. /\ UNCHANGED <<mode, name, active, halted>>
      /\ pc[t] = "idle" /\ IsLocked(t)
      /\ pc' = [pc EXCEPT ![t] = "waiting"]
      /\ abort' = [abort EXCEPT ![t] = TRUE]
  BY DEF LockWait, request
<1>3. /\ h \in Holes
      /\ TableInjective'
      /\ table'[name[t]] = h
      /\ \A u \in Opens : table[name[u]] \in Holes => table'[name[u]] = table[name[u]]
  BY <1>1, <1>2, LookupKeepsTable
<1>4. /\ \A k \in Holes : t \notin Owners(k)
      /\ \A k \in Holes : \A i \in 1..Len(stack[k]) : stack[k][i] # t
  BY <1>2, IdleUnknown
<1>5. /\ \A u \in Opens : u # t => /\ pc'[u] = pc[u] /\ hole'[u] = hole[u]
                                   /\ abort'[u] = abort[u]
      /\ pc'[t] = "waiting" /\ hole'[t] = h /\ abort'[t]
  BY <1>1, <1>2 DEF CountInv, TypeOK
<1>6. \A k \in Holes : Owners(k)' = Owners(k)
  BY <1>2, <1>4, <1>5 DEF Owners, Granted
<1>7. QueueConsistent'
  <2>1. ASSUME NEW k \in Holes, NEW i \in 1..Len(stack[k])
        PROVE  /\ pc'[stack[k][i]] = "waiting" /\ abort'[stack[k][i]]
               /\ hole'[stack[k][i]] = k /\ table'[name[stack[k][i]]] = k
               /\ IsLocked(stack[k][i])
    <3>1. stack[k][i] \in Opens /\ stack[k][i] # t
      BY <1>4, QueueMembers DEF CountInv
    <3> QED
      BY <1>3, <1>5, <3>1 DEF QueueConsistent, LockParts
  <2>2. /\ Len(stack'[h]) = Len(stack[h]) + 1 /\ Len(stack[h]) \in Nat
        /\ stack'[h][Len(stack[h]) + 1] = t
        /\ \A i \in 1..Len(stack[h]) : stack'[h][i] = stack[h][i]
        /\ \A k \in Holes : k # h => stack'[k] = stack[k]
    BY <1>1, <1>3 DEF CountInv, TypeOK
  <2>3. \A k \in Holes : \A i, j \in 1..Len(stack[k]) : stack[k][i] = stack[k][j] => i = j
    BY DEF QueueConsistent, LockParts
  <2> SUFFICES ASSUME NEW k \in Holes, NEW i \in 1..Len(stack'[k])
               PROVE  /\ pc'[stack'[k][i]] = "waiting" /\ abort'[stack'[k][i]]
                      /\ hole'[stack'[k][i]] = k /\ table'[name[stack'[k][i]]] = k
                      /\ IsLocked(stack'[k][i])
                      /\ \A j \in 1..Len(stack'[k]) : stack'[k][i] = stack'[k][j] => i = j
    BY <1>2 DEF QueueConsistent, IsLocked
  <2>4. CASE k # h
    BY <2>1, <2>2, <2>3, <2>4
  <2>5. CASE k = h /\ i = Len(stack[h]) + 1
    <3>1. stack'[k][i] = t
      BY <2>2, <2>5
    <3>2. \A j \in 1..Len(stack'[k]) : stack'[k][j] = t => j = i
      BY <1>3, <1>4, <2>2, <2>5
    <3> QED
      BY <1>2, <1>3, <1>5, <2>5, <3>1, <3>2
  <2>6. CASE k = h /\ i \in 1..Len(stack[h])
    <3>1. stack'[k][i] = stack[k][i] /\ stack[k][i] # t
      BY <1>3, <1>4, <2>2, <2>6
    <3>2. \A j \in 1..Len(stack'[k]) : stack'[k][i] = stack'[k][j] => i = j
      BY <2>2, <2>3, <2>6, <3>1
    <3> QED
      BY <2>1, <2>6, <3>1, <3>2
  <2> QED
    BY <2>2, <2>4, <2>5, <2>6
<1>8. OwnersConsistent'
  <2>1. \A k \in Holes : \A u \in active[k] : pc'[u] = "open" /\ hole'[u] = k
    BY <1>2, <1>5 DEF OwnersConsistent, LockParts, CountInv, TypeOK
  <2>2. \A k \in Holes : \A u \in Owners(k) : table'[name[u]] = k /\ IsLocked(u)
    BY <1>3 DEF OwnersConsistent, LockParts, Owners, Granted, CountInv, TypeOK
  <2>3. \A u \in Opens : pc'[u] = "open" /\ IsLocked(u) =>
           hole'[u] \in Holes /\ u \in active[hole'[u]]
    BY <1>5 DEF OwnersConsistent, LockParts
  <2>4. \A u \in Opens : pc'[u] = "aborted" => abort'[u]
    BY <1>5 DEF OwnersConsistent, LockParts
  <2> QED
    BY <1>2, <1>6, <2>1, <2>2, <2>3, <2>4 DEF OwnersConsistent, IsLocked
<1>9. OwnersExclusive'
  BY <1>2, <1>6 DEF OwnersExclusive, LockParts, Conflict, IsWriter
<1>10. SleepersQueued'
  <2>1. /\ Len(stack'[h]) = Len(stack[h]) + 1 /\ Len(stack[h]) \in Nat
        /\ stack'[h][Len(stack[h]) + 1] = t
        /\ \A i \in 1..Len(stack[h]) : stack'[h][i] = stack[h][i]
        /\ \A k \in Holes : k # h => stack'[k] = stack[k]
    BY <1>1, <1>3 DEF CountInv, TypeOK
  <2> SUFFICES ASSUME NEW u \in Opens, pc'[u] = "waiting", abort'[u]
               PROVE  \E i \in 1..Len(stack'[hole'[u]]) : stack'[hole'[u]][i] = u
    BY DEF SleepersQueued
  <2>2. CASE u = t
    BY <1>5, <2>1, <2>2
  <2>3. CASE u # t
    <3>1. hole'[u] = hole[u] /\ hole[u] \in Holes
      BY <1>5, <2>3 DEF CountInv, SleepersHaveHole
    <3>2. PICK i \in 1..Len(stack[hole[u]]) : stack[hole[u]][i] = u
      BY <1>5, <2>3 DEF LockParts, SleepersQueued
    <3> QED
      BY <2>1, <3>1, <3>2
  <2> QED
    BY <2>2, <2>3
<1> QED
  BY <1>2, <1>3, <1>7, <1>8, <1>9, <1>10 DEF LockParts

\* What a step that takes the openers X from the queues does to them.
OnlyOldMembers(X) ==
  \A k \in Holes : \A i \in 1..Len(stack'[k]) :
    stack'[k][i] \notin X /\ \E j \in 1..Len(stack[k]) : stack'[k][i] = stack[k][j]
MembersDistinct ==
  \A k \in Holes : \A i, j \in 1..Len(stack'[k]) : stack'[k][i] = stack'[k][j] => i = j
OthersStay(X) ==
  \A k \in Holes : \A j \in 1..Len(stack[k]) :
    stack[k][j] \notin X => \E i \in 1..Len(stack'[k]) : stack'[k][i] = stack[k][j]

\* A step that only takes openers from the queues keeps them consistent.
LEMMA ShorterQueues ==
  ASSUME CountInv, LockParts, mode' = mode, name' = name, NEW X,
         OnlyOldMembers(X), MembersDistinct, OthersStay(X),
         \A u \in X : ~(pc'[u] = "waiting" /\ abort'[u]),
         \A u \in Opens \ X : /\ pc'[u] = pc[u] /\ abort'[u] = abort[u]
                              /\ hole'[u] = hole[u]
                              /\ table'[name[u]] = table[name[u]]
  PROVE  QueueConsistent' /\ SleepersQueued'
<1>1. QueueConsistent'
  <2> SUFFICES ASSUME NEW k \in Holes, NEW i \in 1..Len(stack'[k])
               PROVE  /\ pc'[stack'[k][i]] = "waiting" /\ abort'[stack'[k][i]]
                      /\ hole'[stack'[k][i]] = k /\ table'[name[stack'[k][i]]] = k
                      /\ IsLocked(stack'[k][i])
    BY DEF QueueConsistent, IsLocked, MembersDistinct
  <2>1. PICK j \in 1..Len(stack[k]) : stack'[k][i] = stack[k][j]
    BY Zenon DEF OnlyOldMembers
  <2>2. stack[k][j] \in Opens /\ stack[k][j] \notin X
    BY <2>1, QueueMembers DEF CountInv, OnlyOldMembers
  <2> QED
    BY <2>1, <2>2 DEF QueueConsistent, LockParts
<1>2. SleepersQueued'
  <2> SUFFICES ASSUME NEW u \in Opens, pc'[u] = "waiting", abort'[u]
               PROVE  \E i \in 1..Len(stack'[hole'[u]]) : stack'[hole'[u]][i] = u
    BY DEF SleepersQueued
  <2>1. u \notin X /\ hole'[u] = hole[u] /\ hole[u] \in Holes
    BY DEF CountInv, SleepersHaveHole
  <2>2. PICK j \in 1..Len(stack[hole[u]]) : stack[hole[u]][j] = u
    BY <2>1 DEF LockParts, SleepersQueued
  <2> QED
    BY <2>1, <2>2 DEF OthersStay
<1> QED
  BY <1>1, <1>2

\* Whoever pops the queue of a fol lets in an opener that was asleep on it.
LEMMA WakeEffect ==
  ASSUME CountInv, LockParts, NEW h \in Holes, stack[h] # <<>>, Wake(h),
         NEW u, u = Head(stack[h])
  PROVE  /\ u \in Opens /\ pc[u] = "waiting" /\ abort[u] /\ hole[u] = h
         /\ table[name[u]] = h /\ IsLocked(u)
         /\ ~abort'[u] /\ \A v \in Opens : v # u => abort'[v] = abort[v]
         /\ OnlyOldMembers({u}) /\ MembersDistinct /\ OthersStay({u})
<1>1. /\ stack[h] \in Seq(Opens) /\ Len(stack[h]) \in Nat /\ Len(stack[h]) > 0
      /\ u = stack[h][1]
  BY DEF CountInv, TypeOK
<1>2. u \in Opens /\ 1 \in 1..Len(stack[h])
  BY <1>1
<1>3. /\ pc[u] = "waiting" /\ abort[u] /\ hole[u] = h
      /\ table[name[u]] = h /\ IsLocked(u)
  BY <1>1, <1>2 DEF LockParts, QueueConsistent
<1>4. ~abort'[u] /\ \A v \in Opens : v # u => abort'[v] = abort[v]
  BY <1>2 DEF Wake, CountInv, TypeOK
<1>5. /\ Len(stack'[h]) = Len(stack[h]) - 1
      /\ \A i \in 1..Len(stack'[h]) : stack'[h][i] = stack[h][i + 1]
      /\ \A k \in Holes : k # h => stack'[k] = stack[k]
  BY <1>1 DEF Wake, CountInv, TypeOK
<1>6. \A k \in Holes : \A i, j \in 1..Len(stack[k]) : stack[k][i] = stack[k][j] => i = j
  BY DEF LockParts, QueueConsistent
<1>7. ASSUME NEW k \in Holes, NEW i \in 1..Len(stack'[k])
      PROVE  /\ stack'[k][i] # u
             /\ \E j \in 1..Len(stack[k]) : stack'[k][i] = stack[k][j]
             /\ \A j \in 1..Len(stack'[k]) : stack'[k][i] = stack'[k][j] => i = j
  <2>1. CASE k = h
    <3>1. i + 1 \in 1..Len(stack[h]) /\ i + 1 # 1
      BY <1>1, <1>5, <2>1
    <3>2. stack'[h][i] # u
      BY <1>1, <1>2, <1>5, <1>6, <2>1, <3>1
    <3>3. \A j \in 1..Len(stack'[h]) : j + 1 \in 1..Len(stack[h])
      BY <1>1, <1>5
    <3>4. \A j \in 1..Len(stack'[h]) : stack'[h][i] = stack'[h][j] => i = j
      BY <1>5, <1>6, <2>1, <3>1, <3>3
    <3> QED
      BY <1>5, <2>1, <3>1, <3>2, <3>4
  <2>2. CASE k # h
    BY <1>3, <1>5, <1>6, <2>2 DEF LockParts, QueueConsistent
  <2> QED
    BY <2>1, <2>2
<1>8. ASSUME NEW k \in Holes, NEW j \in 1..Len(stack[k]), stack[k][j] # u
      PROVE  \E i \in 1..Len(stack'[k]) : stack'[k][i] = stack[k][j]
  <2>1. CASE k = h
    <3>1. j # 1
      BY <1>1, <1>8, <2>1
    <3>2. j - 1 \in 1..Len(stack'[h]) /\ (j - 1) + 1 = j
      BY <1>1, <1>5, <2>1, <3>1
    <3> QED
      BY <1>5, <2>1, <3>2
  <2>2. CASE k # h
    BY <1>5, <2>2
  <2> QED
    BY <2>1, <2>2
<1> QED
  BY <1>2, <1>3, <1>4, <1>7, <1>8 DEF OnlyOldMembers, MembersDistinct, OthersStay

\* An opener that gives up leaves the queue; it owned nothing.
LEMMA AbortedKeepsLockParts ==
  ASSUME CountInv, LockParts, NEW t \in Opens, WakeAborted(t) \/ AbortOpen(t)
  PROVE  LockParts'
<1>1. /\ UNCHANGED <<mode, name, abort, hole, table, free, active>>
      /\ pc[t] \in {"waiting", "aborted"}
  BY DEF WakeAborted, AbortOpen, request
<1>2. PICK h \in Holes : h = hole[t]
  BY <1>1 DEF CountInv, SleepersHaveHole
<1>3. pc[t] = "waiting" => table[name[t]] = h
  <2>1. CASE pc[t] = "waiting" /\ abort[t]
    BY <1>2, <2>1 DEF LockParts, SleepersQueued, QueueConsistent
  <2>2. CASE pc[t] = "waiting" /\ ~abort[t]
    <3>1. t \in Owners(h)
      BY <1>2, <2>2 DEF Owners, Granted
    <3> QED
      BY <3>1 DEF LockParts, OwnersConsistent
  <2> QED
    BY <2>1, <2>2
<1>4. /\ abort[t] /\ halted' = halted
      /\ stack' = [stack EXCEPT ![h] = Without(stack[h], t)]
      /\ pc' = [pc EXCEPT ![t] = "failed"] \/ pc' = [pc EXCEPT ![t] = "aborted"]
  <2>1. CASE WakeAborted(t)
    BY <1>2, <2>1 DEF WakeAborted
  <2>2. CASE AbortOpen(t)
    <3>1. table[name[t]] = h /\ h # NoHole
      BY <1>3, <2>2, HolesAssumption DEF AbortOpen
    <3>2. \E i \in 1..Len(stack[h]) : stack[h][i] = t
      BY <2>2, <3>1 DEF AbortOpen
    <3>3. abort[t]
      BY <3>2 DEF LockParts, QueueConsistent
    <3> QED
      BY <2>2, <3>1, <3>3 DEF AbortOpen
  <2> QED
    BY <2>1, <2>2
<1>5. /\ \A u \in Opens : u # t => pc'[u] = pc[u]
      /\ pc'[t] \in {"failed", "aborted"}
  BY <1>4 DEF CountInv, TypeOK
<1>6. QueueConsistent' /\ SleepersQueued'
  <2>1. \A k \in Holes : \A i, j \in 1..Len(stack[k]) : stack[k][i] = stack[k][j] => i = j
    BY DEF LockParts, QueueConsistent
  <2>2. stack[h] \in Seq(Opens)
    BY DEF CountInv, TypeOK
  <2>3. /\ stack'[h] = Without(stack[h], t)
        /\ \A k \in Holes : k # h => stack'[k] = stack[k]
    BY <1>4 DEF CountInv, TypeOK
  <2>4. PICK w : w = Without(stack[h], t)
    OBVIOUS
  <2>5. /\ \A i \in 1..Len(w) : w[i] # t /\ \E j \in 1..Len(stack[h]) : w[i] = stack[h][j]
        /\ \A i, j \in 1..Len(w) : w[i] = w[j] => i = j
        /\ \A j \in 1..Len(stack[h]) : stack[h][j] # t => \E i \in 1..Len(w) : w[i] = stack[h][j]
    <3>1. PICK s \in Seq(Opens) : s = stack[h]
      BY <2>2
    <3>2. \A i, j \in 1..Len(s) : s[i] = s[j] => i = j
      BY <2>1, <3>1
    <3>3. w = Without(s, t)
      BY <2>4, <3>1
    <3>4. /\ \A i \in 1..Len(w) : w[i] # t /\ \E j \in 1..Len(s) : w[i] = s[j]
          /\ \A i, j \in 1..Len(w) : w[i] = w[j] => i = j
          /\ \A j \in 1..Len(s) : s[j] # t => \E i \in 1..Len(w) : w[i] = s[j]
      BY <3>2, <3>3, WithoutElements
    <3> QED
      BY <3>1, <3>4
  <2>6. \A k \in Holes : k # h => \A i \in 1..Len(stack[k]) : stack[k][i] # t
    BY <1>2 DEF LockParts, QueueConsistent
  <2>7. OnlyOldMembers({t}) /\ MembersDistinct
    <3>1. ASSUME NEW k \in Holes, NEW i \in 1..Len(stack'[k])
          PROVE  /\ stack'[k][i] \notin {t}
                 /\ \E j \in 1..Len(stack[k]) : stack'[k][i] = stack[k][j]
                 /\ \A j \in 1..Len(stack'[k]) : stack'[k][i] = stack'[k][j] => i = j
      <4>1. CASE k = h
        BY <2>3, <2>4, <2>5, <4>1
      <4>2. CASE k # h
        BY <2>1, <2>3, <2>6, <4>2
      <4> QED
        BY <4>1, <4>2
    <3> QED
      BY <3>1 DEF OnlyOldMembers, MembersDistinct
  <2>8. OthersStay({t})
    BY <2>3, <2>4, <2>5 DEF OthersStay
  <2>9. \A u \in {t} : ~(pc'[u] = "waiting" /\ abort'[u])
    BY <1>5
  <2>10. \A u \in Opens \ {t} : /\ pc'[u] = pc[u] /\ abort'[u] = abort[u]
                                /\ hole'[u] = hole[u]
                                /\ table'[name[u]] = table[name[u]]
    BY <1>1, <1>5
  <2> QED
    BY <1>1, <2>7, <2>8, <2>9, <2>10, ShorterQueues
<1>7. \A k \in Holes : Owners(k)' = Owners(k)
  BY <1>1, <1>4, <1>5 DEF Owners, Granted
<1>8. OwnersConsistent'
  <2>1. \A k \in Holes : \A u \in active[k] : pc'[u] = "open" /\ hole[u] = k
    BY <1>1, <1>5 DEF OwnersConsistent, LockParts, CountInv, TypeOK
  <2>2. \A u \in Opens : pc'[u] = "open" /\ IsLocked(u) =>
           hole[u] \in Holes /\ u \in active[hole[u]]
    BY <1>5 DEF OwnersConsistent, LockParts
  <2>3. \A u \in Opens : pc'[u] = "aborted" => abort[u]
    BY <1>4, <1>5 DEF OwnersConsistent, LockParts
  <2> QED
    BY <1>1, <1>7, <2>1, <2>2, <2>3 DEF OwnersConsistent, LockParts, IsLocked
<1>9. OwnersExclusive'
  BY <1>1, <1>7 DEF OwnersExclusive, LockParts, Conflict, IsWriter
<1>10. TableInjective'
  BY <1>1 DEF TableInjective, LockParts
<1> QED
  BY <1>4, <1>6, <1>8, <1>9, <1>10 DEF LockParts

\* A woken opener moves from the granted to the active owners; the reader it
\* may let in joins a group of readers.
LEMMA WakeGrantedKeepsLockParts ==
  ASSUME CountInv, LockParts, NEW t \in Opens, WakeGranted(t)
  PROVE  LockParts'
<1>1. PICK h \in Holes : h = hole[t]
  BY DEF WakeGranted, CountInv, SleepersHaveHole
<1>2. /\ UNCHANGED <<mode, name, hole, table, free, halted>>
      /\ pc[t] = "waiting" /\ ~abort[t] /\ CountIn(t, h)
  BY <1>1 DEF WakeGranted, request
<1>3. /\ \A u \in Opens : u # t => pc'[u] = pc[u]
      /\ pc'[t] = "open"
      /\ active'[h] = active[h] \cup {t}
      /\ \A k \in Holes : k # h => active'[k] = active[k]
  BY <1>2 DEF CountIn, CountInv, TypeOK
<1>4. t \in Owners(h) /\ table[name[t]] = h /\ IsLocked(t)
  BY <1>1, <1>2 DEF Owners, Granted, LockParts, OwnersConsistent
<1>5. \A k \in Holes : \A i \in 1..Len(stack[k]) : stack[k][i] # t
  BY <1>2 DEF LockParts, QueueConsistent
<1>6. TableInjective'
  BY <1>2 DEF TableInjective, LockParts
<1>7. (/\ \A u \in Opens : pc'[u] = "aborted" => abort'[u]
       /\ \A k \in Holes : \A u \in Owners(k)' : table[name[u]] = k /\ IsLocked(u)) =>
      OwnersConsistent'
  <2>1. \A k \in Holes : \A u \in active'[k] : pc'[u] = "open" /\ hole[u] = k
    <3> SUFFICES ASSUME NEW k \in Holes, NEW u \in active'[k]
                 PROVE  pc'[u] = "open" /\ hole[u] = k
      OBVIOUS
    <3>1. (u = t /\ k = h) \/ (u \in active[k] /\ u \in Opens)
      BY <1>3 DEF CountInv, TypeOK
    <3> QED
      BY <1>1, <1>3, <3>1 DEF OwnersConsistent, LockParts
  <2>2. \A u \in Opens : pc'[u] = "open" /\ IsLocked(u) =>
           hole[u] \in Holes /\ u \in active'[hole[u]]
    BY <1>1, <1>3 DEF OwnersConsistent, LockParts
  <2> QED
    BY <1>2, <2>1, <2>2 DEF OwnersConsistent, IsLocked
<1>8. CASE UNCHANGED <<stack, abort>>
  <2>1. QueueConsistent' /\ SleepersQueued'
    <3>1. SleepersQueued'
      BY <1>2, <1>3, <1>8 DEF SleepersQueued, LockParts
    <3>2. QueueConsistent'
      <4> SUFFICES ASSUME NEW k \in Holes, NEW i \in 1..Len(stack[k])
                   PROVE  pc'[stack[k][i]] = "waiting"
        BY <1>2, <1>8 DEF QueueConsistent, LockParts, IsLocked
      <4>1. stack[k][i] \in Opens
        BY QueueMembers DEF CountInv
      <4> QED
        BY <1>3, <1>5, <4>1 DEF QueueConsistent, LockParts
    <3> QED
      BY <3>1, <3>2
  <2>2. \A k \in Holes : Owners(k)' = Owners(k)
    BY <1>1, <1>2, <1>3, <1>4, <1>8 DEF Owners, Granted
  <2>3. OwnersConsistent'
    BY <1>3, <1>7, <1>8, <2>2 DEF OwnersConsistent, LockParts
  <2>4. OwnersExclusive'
    BY <1>2, <2>2 DEF OwnersExclusive, LockParts, Conflict, IsWriter
  <2> QED
    BY <1>2, <1>6, <2>1, <2>3, <2>4 DEF LockParts
<1>9. CASE IsReader(t) /\ stack[h] # <<>> /\ IsReader(Head(stack[h])) /\ Wake(h)
  <2>1. PICK u : u = Head(stack[h])
    OBVIOUS
  <2>2. /\ u \in Opens /\ pc[u] = "waiting" /\ abort[u] /\ hole[u] = h
        /\ table[name[u]] = h /\ IsLocked(u)
        /\ ~abort'[u] /\ \A v \in Opens : v # u => abort'[v] = abort[v]
        /\ OnlyOldMembers({u}) /\ MembersDistinct /\ OthersStay({u})
    BY <1>9, <2>1, WakeEffect
  <2>3. u # t
    BY <1>2, <2>2
  <2>4. QueueConsistent' /\ SleepersQueued'
    <3>1. OnlyOldMembers({u, t})
      <4> SUFFICES ASSUME NEW k \in Holes, NEW i \in 1..Len(stack'[k])
                   PROVE  /\ stack'[k][i] \notin {u, t}
                          /\ \E j \in 1..Len(stack[k]) : stack'[k][i] = stack[k][j]
        BY DEF OnlyOldMembers
      <4>1. stack'[k][i] # u /\ \E j \in 1..Len(stack[k]) : stack'[k][i] = stack[k][j]
        BY <2>2, Zenon DEF OnlyOldMembers
      <4>2. stack'[k][i] # t
        BY <1>5, <4>1
      <4> QED
        BY <4>1, <4>2
    <3>2. OthersStay({u, t})
      BY <2>2 DEF OthersStay
    <3>3. \A v \in {u, t} : ~(pc'[v] = "waiting" /\ abort'[v])
      BY <1>3, <2>2
    <3>4. \A v \in Opens \ {u, t} : /\ pc'[v] = pc[v] /\ abort'[v] = abort[v]
                                    /\ hole'[v] = hole[v]
                                    /\ table'[name[v]] = table[name[v]]
      BY <1>2, <1>3, <2>2
    <3> QED
      BY <1>2, <2>2, <3>1, <3>2, <3>3, <3>4, ShorterQueues
  <2>5. /\ Owners(h)' = Owners(h) \cup {u}
        /\ \A k \in Holes : k # h => Owners(k)' = Owners(k)
    BY <1>1, <1>2, <1>3, <1>4, <2>2, <2>3 DEF Owners, Granted
  <2>6. OwnersConsistent'
    <3>1. \A v \in Opens : pc'[v] = "aborted" => abort'[v]
      BY <1>3, <2>2 DEF OwnersConsistent, LockParts
    <3>2. \A k \in Holes : \A v \in Owners(k)' : table[name[v]] = k /\ IsLocked(v)
      BY <2>2, <2>5 DEF OwnersConsistent, LockParts
    <3> QED
      BY <1>7, <3>1, <3>2
  <2>7. OwnersExclusive'
    <3>1. ~IsWriter(u) /\ ~IsWriter(t)
      BY <1>9, <2>1 DEF IsReader, IsWriter, READ_BLOCKING, WRITE_BLOCKING, WRITE_IMMEDIATE
    <3>2. \A v \in Owners(h) : ~IsWriter(v)
      BY <1>4, <3>1 DEF OwnersExclusive, LockParts, Conflict
    <3> QED
      BY <1>2, <2>5, <3>1, <3>2 DEF OwnersExclusive, LockParts, Conflict, IsWriter
  <2> QED
    BY <1>2, <1>6, <2>4, <2>6, <2>7 DEF LockParts
<1> QED
  BY <1>1, <1>8, <1>9 DEF WakeGranted

\* A close hands the lock on to somebody who conflicts with no remaining
\* owner, or drops a fol that has none, unless a woken opener is overlooked.
LEMMA UnlockKeepsLockParts ==
  ASSUME CountInv, CountInv', LockParts, NEW t \in Opens, Unlock(t), ~raced'
  PROVE  LockParts'
<1>1. PICK h \in Holes : h = table[name[t]]
  BY DEF Unlock, CountInv, TypeOK
<1>2. /\ UNCHANGED <<mode, name, hole, halted>>
      /\ pc[t] = "open" /\ IsLocked(t) /\ t \in active[h]
      /\ HandOn(t, h, read_count'[h], write_count'[h])
  BY <1>1 DEF Unlock, request, CountInv, TypeOK
<1>3. /\ \A u \in Opens : u # t => pc'[u] = pc[u]
      /\ pc'[t] = "closed"
      /\ active'[h] = active[h] \ {t}
      /\ \A k \in Holes : k # h => active'[k] = active[k]
  BY <1>1 DEF Unlock, CountInv, TypeOK
<1>4. \A k \in Holes : k # h => t \notin active[k]
  BY <1>2 DEF LockParts, OwnersConsistent
<1>5. \A k \in Holes : \A i \in 1..Len(stack[k]) : stack[k][i] # t
  BY <1>2 DEF LockParts, QueueConsistent
<1>6. (/\ \A u \in Opens : pc'[u] = "aborted" => abort'[u]
       /\ \A k \in Holes : \A u \in Owners(k)' : table'[name[u]] = k /\ IsLocked(u)) =>
      OwnersConsistent'
  <2>1. \A k \in Holes : \A u \in active'[k] : pc'[u] = "open" /\ hole[u] = k
    <3> SUFFICES ASSUME NEW k \in Holes, NEW u \in active'[k]
                 PROVE  pc'[u] = "open" /\ hole[u] = k
      OBVIOUS
    <3>1. u # t /\ u \in active[k] /\ u \in Opens
      BY <1>3, <1>4 DEF CountInv, TypeOK
    <3> QED
      BY <1>3, <3>1 DEF OwnersConsistent, LockParts
  <2>2. \A u \in Opens : pc'[u] = "open" /\ IsLocked(u) =>
           hole[u] \in Holes /\ u \in active'[hole[u]]
    BY <1>3 DEF OwnersConsistent, LockParts
  <2> QED
    BY <1>2, <2>1, <2>2 DEF OwnersConsistent, IsLocked
<1>7. CASE MayWake(h, read_count'[h], write_count'[h])
  <2>1. stack[h] # <<>> /\ Wake(h) /\ UNCHANGED <<table, free>>
    BY <1>2, <1>7 DEF MayWake, HandOn, Unused
  <2>2. PICK u : u = Head(stack[h])
    OBVIOUS
  <2>3. /\ u \in Opens /\ pc[u] = "waiting" /\ abort[u] /\ hole[u] = h
        /\ table[name[u]] = h /\ IsLocked(u)
        /\ ~abort'[u] /\ \A v \in Opens : v # u => abort'[v] = abort[v]
        /\ OnlyOldMembers({u}) /\ MembersDistinct /\ OthersStay({u})
    BY <2>1, <2>2, WakeEffect
  <2>4. u # t
    BY <1>2, <2>3
  <2>5. QueueConsistent' /\ SleepersQueued'
    <3>1. OnlyOldMembers({u, t})
      BY <1>5, <2>3 DEF OnlyOldMembers
    <3>2. OthersStay({u, t})
      BY <2>3 DEF OthersStay
    <3>3. \A v \in {u, t} : ~(pc'[v] = "waiting" /\ abort'[v])
      BY <1>3, <2>3
    <3>4. \A v \in Opens \ {u, t} : /\ pc'[v] = pc[v] /\ abort'[v] = abort[v]
                                    /\ hole'[v] = hole[v]
                                    /\ table'[name[v]] = table[name[v]]
      BY <1>2, <1>3, <2>1, <2>3
    <3> QED
      BY <1>2, <2>3, <3>1, <3>2, <3>3, <3>4, ShorterQueues
  <2>6. /\ Owners(h)' = (Owners(h) \ {t}) \cup {u}
        /\ \A k \in Holes : k # h => Owners(k)' = Owners(k)
    BY <1>2, <1>3, <2>3, <2>4 DEF Owners, Granted
  <2>7. OwnersConsistent'
    <3>1. \A v \in Opens : pc'[v] = "aborted" => abort'[v]
      BY <1>3, <2>3 DEF OwnersConsistent, LockParts
    <3>2. \A k \in Holes : \A v \in Owners(k)' : table'[name[v]] = k /\ IsLocked(v)
      BY <2>1, <2>3, <2>6 DEF OwnersConsistent, LockParts
    <3> QED
      BY <1>6, <3>1, <3>2
  <2>8. OwnersExclusive'
    <3>1. \A v \in Owners(h) \ {t} : ~Conflict(u, v)
      <4> SUFFICES ASSUME NEW v \in Owners(h) \ {t} PROVE ~Conflict(u, v)
        OBVIOUS
      <4>1. CASE v \in Granted(h)
        BY <1>2, <1>7, <2>2, <4>1 DEF HandOn
      <4>2. CASE v \in active'[h]
        <5>1. /\ write_count'[h] = 0
              /\ IsReader(u) \/ (~IsReader(u) /\ read_count'[h] = 0)
          BY <1>7, <2>2 DEF MayWake, IsReader, READ_BLOCKING, WRITE_BLOCKING
        <5>2. /\ read_count'[h] = 0 => \A x \in active'[h] : ~IsReader(x)'
              /\ write_count'[h] = 0 => \A x \in active'[h] : IsReader(x)'
          <6>1. /\ read_count'[h] = Cardinality({x \in active'[h] : IsReader(x)'})
                /\ write_count'[h] = Cardinality({x \in active'[h] : ~IsReader(x)'})
                /\ active'[h] \in SUBSET Opens
            BY DEF CountInv, CountsMatchActive, TypeOK
          <6>2. /\ {x \in active'[h] : IsReader(x)'} \in SUBSET Opens
                /\ {x \in active'[h] : ~IsReader(x)'} \in SUBSET Opens
            BY <6>1
          <6> QED
            BY <6>1, <6>2, EmptyPart
        <5>3. IsReader(v) /\ IsReader(u)
          BY <1>2, <4>2, <5>1, <5>2 DEF IsReader
        <5> QED
          BY <5>3 DEF IsReader, Conflict, IsWriter, READ_BLOCKING, WRITE_BLOCKING, WRITE_IMMEDIATE
      <4> QED
        BY <1>3, <4>1, <4>2 DEF Owners
    <3> QED
      BY <1>2, <2>6, <3>1 DEF OwnersExclusive, LockParts, Conflict, IsWriter
  <2>9. TableInjective'
    BY <2>1 DEF TableInjective, LockParts
  <2> QED
    BY <1>2, <2>5, <2>7, <2>8, <2>9 DEF LockParts
<1>8. CASE ~MayWake(h, read_count'[h], write_count'[h])
  <2>1. UNCHANGED <<stack, abort>>
    BY <1>2, <1>8 DEF HandOn
  <2>2. /\ Owners(h)' = Owners(h) \ {t}
        /\ \A k \in Holes : k # h => Owners(k)' = Owners(k)
    BY <1>2, <1>3, <2>1 DEF Owners, Granted
  <2>3. OwnersExclusive'
    BY <1>2, <2>2 DEF OwnersExclusive, LockParts, Conflict, IsWriter
  <2>4. SleepersQueued'
    BY <1>2, <1>3, <2>1 DEF SleepersQueued, LockParts
  <2>5. \A v \in Opens : pc'[v] = "aborted" => abort'[v]
    BY <1>3, <2>1 DEF OwnersConsistent, LockParts
  <2>6. \A k \in Holes : \A v \in Owners(k)' :
           v \in Opens /\ table[name[v]] = k /\ IsLocked(v)
    <3>1. \A k \in Holes : Owners(k) \subseteq Opens /\ Owners(k)' \subseteq Owners(k)
      BY <2>2 DEF Owners, Granted, CountInv, TypeOK
    <3> QED
      BY <3>1 DEF OwnersConsistent, LockParts
  <2>7. \A k \in Holes : \A i \in 1..Len(stack[k]) :
           /\ stack[k][i] \in Opens /\ stack[k][i] # t
           /\ pc'[stack[k][i]] = "waiting" /\ table[name[stack[k][i]]] = k
    BY <1>3, <1>5, QueueMembers DEF QueueConsistent, LockParts, CountInv
  <2>8. CASE UNCHANGED <<table, free>>
    <3>1. TableInjective'
      BY <2>8 DEF TableInjective, LockParts
    <3>2. QueueConsistent'
      BY <1>2, <2>1, <2>7, <2>8 DEF QueueConsistent, LockParts, IsLocked
    <3>3. OwnersConsistent'
      BY <1>6, <2>5, <2>6, <2>8
    <3> QED
      BY <1>2, <2>3, <2>4, <3>1, <3>2, <3>3 DEF LockParts
  <2>9. CASE /\ stack[h] = <<>> /\ read_count'[h] = 0 /\ write_count'[h] = 0
             /\ table' = [table EXCEPT ![name[t]] = NoHole]
             /\ free' = free \cup {h}
    <3>1. Granted(h) = {}
      BY <1>2, <2>9 DEF HandOn, Unused
    <3>2. active'[h] = {}
      <4>1. /\ read_count'[h] = Cardinality({x \in active'[h] : IsReader(x)'})
            /\ write_count'[h] = Cardinality({x \in active'[h] : ~IsReader(x)'})
            /\ active'[h] \in SUBSET Opens
        BY DEF CountInv, CountsMatchActive, TypeOK
      <4>2. /\ {x \in active'[h] : IsReader(x)'} \in SUBSET Opens
            /\ {x \in active'[h] : ~IsReader(x)'} \in SUBSET Opens
        BY <4>1
      <4>3. /\ {x \in active'[h] : IsReader(x)'} = {}
            /\ {x \in active'[h] : ~IsReader(x)'} = {}
        BY <2>9, <4>1, <4>2, EmptyPart
      <4> QED
        BY <4>3
    <3>3. Owners(h)' = {}
      BY <1>2, <1>3, <2>1, <3>1, <3>2 DEF Owners, Granted
    <3>4. \A o \in Objects : (o # name[t] => table[o] # h) /\ (o # name[t] => table'[o] = table[o])
      BY <1>1, <2>9, HolesAssumption DEF TableInjective, LockParts, CountInv, TypeOK
    <3>5. table'[name[t]] = NoHole /\ name[t] \in Objects
      BY <2>9 DEF CountInv, TypeOK
    <3>6. TableInjective'
      BY <1>1, <2>9, <3>4, <3>5, HolesAssumption DEF TableInjective, LockParts
    <3>7. \A v \in Opens : \A k \in Holes : table[name[v]] = k /\ k # h => table'[name[v]] = k
      BY <1>1, <3>4 DEF CountInv, TypeOK
    <3>8. QueueConsistent'
      <4>1. \A k \in Holes : \A i \in 1..Len(stack[k]) : table'[name[stack[k][i]]] = k
        BY <2>7, <2>9, <3>7
      <4> QED
        BY <1>2, <2>1, <2>7, <4>1 DEF QueueConsistent, LockParts, IsLocked
    <3>9. \A k \in Holes : \A v \in Owners(k)' : table'[name[v]] = k /\ IsLocked(v)
      BY <2>6, <3>3, <3>7
    <3>10. OwnersConsistent'
      BY <1>6, <2>5, <3>9
    <3> QED
      BY <1>2, <2>3, <2>4, <3>6, <3>8, <3>10 DEF LockParts
  <2> QED
    BY <1>2, <2>8, <2>9 DEF HandOn, Unused
<1> QED
  BY <1>7, <1>8

\* An fd that is not on an active list takes no lock, and the object of an fd
\* that holds one is in the table: the service is not left locked.
LEMMA CloseKeepsLockParts ==
  ASSUME CountInv, LockParts, NEW t \in Opens, CloseUnlocked(t) \/ CloseKeepsMutex(t)
  PROVE  LockParts'
<1>1. ~IsLocked(t)
  <2> SUFFICES ASSUME IsLocked(t) PROVE FALSE
    OBVIOUS
  <2>1. pc[t] = "open"
    BY DEF CloseUnlocked, CloseKeepsMutex
  <2>2. hole[t] \in Holes /\ t \in active[hole[t]]
    BY <2>1 DEF LockParts, OwnersConsistent
  <2>3. table[name[t]] = hole[t]
    BY <2>2 DEF LockParts, OwnersConsistent, Owners
  <2> QED
    BY <2>2, <2>3, HolesAssumption DEF CloseUnlocked, CloseKeepsMutex
<1>2. /\ UNCHANGED <<mode, name, abort, hole, table, free, stack, active, halted>>
      /\ pc[t] = "open" /\ pc'[t] = "closed"
      /\ \A u \in Opens : u # t => pc'[u] = pc[u]
  BY <1>1 DEF CloseUnlocked, CloseKeepsMutex, request, fol, CountInv, TypeOK
<1>3. \A k \in Holes : t \notin Owners(k)
  BY <1>1 DEF LockParts, OwnersConsistent
<1>4. TableInjective'
  BY <1>2 DEF TableInjective, LockParts
<1>5. QueueConsistent' /\ SleepersQueued'
  <2>1. \A h \in Holes : \A i \in 1..Len(stack[h]) : stack[h][i] # t /\ stack[h][i] \in Opens
    BY <1>2, QueueMembers DEF QueueConsistent, LockParts, CountInv
  <2>2. QueueConsistent'
    BY <1>2, <2>1 DEF QueueConsistent, LockParts, IsLocked
  <2>3. SleepersQueued'
    BY <1>2 DEF SleepersQueued, LockParts
  <2> QED
    BY <2>2, <2>3
<1>6. \A h \in Holes : Owners(h)' = Owners(h)
  BY <1>2 DEF Owners, Granted
<1>7. OwnersConsistent'
  <2>1. \A k \in Holes : \A u \in active[k] : pc'[u] = "open" /\ hole[u] = k
    BY <1>2, <1>3 DEF OwnersConsistent, LockParts, Owners, CountInv, TypeOK
  <2>2. /\ \A u \in Opens : pc'[u] = "open" /\ IsLocked(u) =>
             hole[u] \in Holes /\ u \in active[hole[u]]
        /\ \A u \in Opens : pc'[u] = "aborted" => abort[u]
    BY <1>2 DEF OwnersConsistent, LockParts
  <2> QED
    BY <1>2, <1>6, <2>1, <2>2 DEF OwnersConsistent, LockParts, IsLocked
<1>8. OwnersExclusive'
  BY <1>2, <1>6 DEF OwnersExclusive, LockParts, Conflict, IsWriter
<1> QED
  BY <1>2, <1>4, <1>5, <1>7, <1>8 DEF LockParts

\* Every critical section keeps the lock invariant.
LEMMA NextLockInv == CountInv /\ CountInv' /\ LockInv /\ [Next]_vars => LockInv'
<1> SUFFICES ASSUME CountInv, CountInv', LockInv, [Next]_vars, ~raced'
             PROVE  LockParts'
  BY DEF LockInv, LockParts
<1>1. CASE UNCHANGED vars
  <2>1. LockParts
    BY <1>1 DEF vars, LockInv, LockParts
  <2>2. UNCHANGED <<mode, name, pc, abort, hole, table, free, stack, active, halted>>
    BY <1>1 DEF vars, request, opener, fol
  <2>3. TableInjective' /\ QueueConsistent' /\ SleepersQueued'
    BY <2>1, <2>2 DEF LockParts, TableInjective, QueueConsistent, SleepersQueued, IsLocked
  <2>4. \A h \in Holes : Owners(h)' = Owners(h)
    BY <2>2 DEF Owners, Granted
  <2>5. OwnersConsistent' /\ OwnersExclusive'
    BY <2>1, <2>2, <2>4 DEF LockParts, OwnersConsistent, OwnersExclusive, IsLocked,
                            Conflict, IsWriter
  <2> QED
    BY <2>1, <2>2, <2>3, <2>5 DEF LockParts
<1>2. CASE Next
  <2>1. ~raced
    <3> SUFFICES ASSUME raced PROVE raced'
      OBVIOUS
    <3>1. ASSUME NEW t \in Opens, LockNow(t) PROVE raced'
      BY <3>1 DEF LockNow
    <3>2. ASSUME NEW t \in Opens, Unlock(t) PROVE raced'
      BY <3>2 DEF Unlock, HandOn
    <3>3. ASSUME NEW t \in Opens,
                 \/ OpenImmediate(t) \/ OpenRefused(t) \/ LockWait(t) \/ WakeGranted(t)
                 \/ WakeAborted(t) \/ AbortOpen(t) \/ CloseUnlocked(t) \/ CloseKeepsMutex(t)
          PROVE raced'
      BY <3>3 DEF OpenImmediate, OpenRefused, LockWait, WakeGranted, WakeAborted,
                  AbortOpen, CloseUnlocked, CloseKeepsMutex
    <3> QED
      BY <1>2, <3>1, <3>2, <3>3 DEF Next
  <2>2. LockParts
    BY <2>1 DEF LockInv, LockParts
  <2> QED
    BY <1>2, <2>2, OpenKeepsLockParts, LockNowKeepsLockParts, LockWaitKeepsLockParts,
       WakeGrantedKeepsLockParts, AbortedKeepsLockParts, UnlockKeepsLockParts,
       CloseKeepsLockParts DEF Next
<1> QED
  BY <1>1, <1>2

\* The exclusive owners of the fols make the opens of one object exclusive.
LEMMA LockInvExcludes ==
  ASSUME CountInv, LockInv
  PROVE  ExclusionUnlessRaced /\ HaltsOnlyIfRaced
<1> SUFFICES ASSUME ~raced, LockParts PROVE MutualExclusion /\ halted = "no"
  BY DEF LockInv, LockParts, ExclusionUnlessRaced, HaltsOnlyIfRaced
<1>1. \A t \in Opens : pc[t] = "open" /\ IsLocked(t) =>
         table[name[t]] \in Holes /\ t \in Owners(table[name[t]])
  BY DEF LockParts, OwnersConsistent, Owners
<1>2. MutualExclusion
  BY <1>1 DEF MutualExclusion, LockParts, OwnersExclusive
<1> QED
  BY <1>2 DEF LockParts

\* Readers and writers of an object exclude each other, and the service keeps
\* running, as long as nobody is let in, and no fol is dropped, between the
\* wakeup of a conflicting opener and its run.
THEOREM ExclusionTheorem == Spec => [](ExclusionUnlessRaced /\ HaltsOnlyIfRaced)
<1>1. Init => CountInv /\ LockInv
  BY InitCountInv, InitLockInv
<1>2. CountInv /\ LockInv /\ [Next]_vars => (CountInv /\ LockInv)'
  BY NextCountInv, NextLockInv
<1>3. CountInv /\ LockInv => ExclusionUnlessRaced /\ HaltsOnlyIfRaced
  BY LockInvExcludes
<1> QED
  BY <1>1, <1>2, <1>3, PTL DEF Spec

-----------------------------------------------------------------------------
\* What is true of the queues whatever was raced: whoever is in one is asleep
\* on that fol, unanswered, and there once.
QueueSound ==
  \A h \in Holes : \A i \in 1..Len(stack[h]) :
    /\ pc[stack[h][i]] = "waiting"
    /\ abort[stack[h][i]]
    /\ hole[stack[h][i]] = h
    /\ \A j \in 1..Len(stack[h]) : stack[h][i] = stack[h][j] => i = j

\* A step that only takes the openers X from the queues keeps them sound.
LEMMA ShorterQueuesSound ==
  ASSUME TypeOK, QueueSound, NEW X, OnlyOldMembers(X), MembersDistinct,
         \A u \in Opens \ X : pc'[u] = pc[u] /\ abort'[u] = abort[u] /\ hole'[u] = hole[u]
  PROVE  QueueSound'
<1> SUFFICES ASSUME NEW k \in Holes, NEW i \in 1..Len(stack'[k])
             PROVE  /\ pc'[stack'[k][i]] = "waiting" /\ abort'[stack'[k][i]]
                    /\ hole'[stack'[k][i]] = k
  BY DEF QueueSound, MembersDistinct
<1>1. PICK j \in 1..Len(stack[k]) : stack'[k][i] = stack[k][j]
  BY Zenon DEF OnlyOldMembers
<1>2. stack[k][j] \in Opens /\ stack[k][j] \notin X
  BY <1>1 DEF TypeOK, OnlyOldMembers
<1> QED
  BY <1>1, <1>2 DEF QueueSound

\* Nobody who was in no queue is in one when a step only takes some away.
LEMMA OldMembersWithout ==
  ASSUME NEW u, NEW t, OnlyOldMembers({u}),
         \A k \in Holes : \A i \in 1..Len(stack[k]) : stack[k][i] # t
  PROVE  OnlyOldMembers({u, t})
<1> SUFFICES ASSUME NEW k \in Holes, NEW i \in 1..Len(stack'[k])
             PROVE  stack'[k][i] \notin {u, t} /\ \E j \in 1..Len(stack[k]) : stack'[k][i] = stack[k][j]
  BY DEF OnlyOldMembers
<1>1. stack'[k][i] # u
  BY DEF OnlyOldMembers
<1>2. PICK j \in 1..Len(stack[k]) : stack'[k][i] = stack[k][j]
  BY Zenon DEF OnlyOldMembers
<1> QED
  BY <1>1, <1>2

\* Popping a queue takes its head away, and answers it.
LEMMA WakeSound ==
  ASSUME TypeOK, QueueSound, NEW h \in Holes, stack[h] # <<>>, Wake(h),
         NEW u, u = Head(stack[h])
  PROVE  /\ u \in Opens /\ pc[u] = "waiting" /\ abort[u]
         /\ \A v \in Opens : v # u => abort'[v] = abort[v]
         /\ ~abort'[u]
         /\ OnlyOldMembers({u}) /\ MembersDistinct
<1>1. /\ stack[h] \in Seq(Opens) /\ Len(stack[h]) \in Nat /\ Len(stack[h]) > 0
      /\ u = stack[h][1]
  BY DEF TypeOK
<1>2. u \in Opens /\ 1 \in 1..Len(stack[h])
  BY <1>1
<1>3. pc[u] = "waiting" /\ abort[u] /\ hole[u] = h
  BY <1>1, <1>2 DEF QueueSound
<1>4. ~abort'[u] /\ \A v \in Opens : v # u => abort'[v] = abort[v]
  BY <1>2 DEF Wake, TypeOK
<1>5. /\ Len(stack'[h]) = Len(stack[h]) - 1
      /\ \A i \in 1..Len(stack'[h]) : stack'[h][i] = stack[h][i + 1]
      /\ \A k \in Holes : k # h => stack'[k] = stack[k]
  BY <1>1 DEF Wake, TypeOK
<1>6. \A k \in Holes : \A i, j \in 1..Len(stack[k]) : stack[k][i] = stack[k][j] => i = j
  BY DEF QueueSound
<1>7. ASSUME NEW k \in Holes, NEW i \in 1..Len(stack'[k])
      PROVE  /\ stack'[k][i] # u
             /\ \E j \in 1..Len(stack[k]) : stack'[k][i] = stack[k][j]
             /\ \A j \in 1..Len(stack'[k]) : stack'[k][i] = stack'[k][j] => i = j
  <2>1. CASE k = h
    <3>1. i + 1 \in 1..Len(stack[h]) /\ i + 1 # 1
      BY <1>1, <1>5, <2>1
    <3>2. stack'[h][i] # u
      BY <1>1, <1>2, <1>5, <1>6, <2>1, <3>1
    <3>3. \A j \in 1..Len(stack'[h]) : j + 1 \in 1..Len(stack[h])
      BY <1>1, <1>5
    <3>4. \A j \in 1..Len(stack'[h]) : stack'[h][i] = stack'[h][j] => i = j
      BY <1>5, <1>6, <2>1, <3>1, <3>3
    <3> QED
      BY <1>5, <2>1, <3>1, <3>2, <3>4
  <2>2. CASE k # h
    BY <1>3, <1>5, <1>6, <2>2 DEF QueueSound
  <2> QED
    BY <2>1, <2>2
<1> QED
  BY <1>2, <1>3, <1>4, <1>7 DEF OnlyOldMembers, MembersDistinct

\* Leaving the queue one sleeps on takes nobody else away.
LEMMA LeaveSound ==
  ASSUME TypeOK, QueueSound, NEW t \in Opens, NEW h \in Holes,
         stack' = [stack EXCEPT ![h] = Without(stack[h], t)],
         \A k \in Holes : k # h => \A i \in 1..Len(stack[k]) : stack[k][i] # t
  PROVE  OnlyOldMembers({t}) /\ MembersDistinct
<1>1. \A k \in Holes : \A i, j \in 1..Len(stack[k]) : stack[k][i] = stack[k][j] => i = j
  BY DEF QueueSound
<1>2. /\ stack'[h] = Without(stack[h], t)
      /\ \A k \in Holes : k # h => stack'[k] = stack[k]
  BY DEF TypeOK
<1>3. PICK s \in Seq(Opens) : s = stack[h]
  BY DEF TypeOK
<1>4. PICK w : w = Without(s, t)
  OBVIOUS
<1>5. \A i, j \in 1..Len(s) : s[i] = s[j] => i = j
  BY <1>1, <1>3
<1>6. /\ \A i \in 1..Len(w) : w[i] # t /\ \E j \in 1..Len(s) : w[i] = s[j]
      /\ \A i, j \in 1..Len(w) : w[i] = w[j] => i = j
  BY <1>4, <1>5, WithoutElements
<1>7. ASSUME NEW k \in Holes, NEW i \in 1..Len(stack'[k])
      PROVE  /\ stack'[k][i] \notin {t}
             /\ \E j \in 1..Len(stack[k]) : stack'[k][i] = stack[k][j]
             /\ \A j \in 1..Len(stack'[k]) : stack'[k][i] = stack'[k][j] => i = j
  <2>1. CASE k = h
    <3>1. stack'[k] = w /\ stack[k] = s
      BY <1>2, <1>3, <1>4, <2>1
    <3>2. i \in 1..Len(w)
      BY <3>1
    <3>3. w[i] # t /\ \E j \in 1..Len(s) : w[i] = s[j]
      BY <1>6, <3>2
    <3>4. \A j \in 1..Len(w) : w[i] = w[j] => i = j
      BY <1>6, <3>2
    <3> QED
      BY <3>1, <3>3, <3>4, Zenon
  <2>2. CASE k # h
    BY <1>1, <1>2, <2>2
  <2> QED
    BY <2>1, <2>2
<1> QED
  BY <1>7 DEF OnlyOldMembers, MembersDistinct

\* What one step does to the queues, to an opener that was let in, and to the
\* rest.
Granting == \A t \in Opens : (pc[t] = "waiting" /\ ~abort[t]) =>
              \/ pc'[t] = "open"
              \/ pc'[t] = "waiting" /\ ~abort'[t]

LEMMA NextQueueSound == CountInv /\ QueueSound /\ [Next]_vars => QueueSound' /\ Granting
<1> SUFFICES ASSUME CountInv, QueueSound, [Next]_vars PROVE QueueSound' /\ Granting
  OBVIOUS
<1>1. TypeOK
  BY DEF CountInv
<1>2. ASSUME NEW t \in Opens, OpenImmediate(t) \/ OpenRefused(t) \/ LockNow(t)
      PROVE  QueueSound' /\ Granting
  <2>1. /\ UNCHANGED <<stack, abort>> /\ pc[t] = "idle"
        /\ \A u \in Opens \ {t} : pc'[u] = pc[u] /\ hole'[u] = hole[u]
    BY <1>1, <1>2 DEF OpenImmediate, OpenRefused, LockNow, CountIn, fol, TypeOK
  <2>2. OnlyOldMembers({t}) /\ MembersDistinct
    BY <2>1 DEF QueueSound, OnlyOldMembers, MembersDistinct
  <2>3. QueueSound'
    BY <1>1, <2>1, <2>2, ShorterQueuesSound
  <2> QED
    BY <2>1, <2>3 DEF Granting
<1>3. ASSUME NEW t \in Opens, LockWait(t) PROVE QueueSound' /\ Granting
  <2>1. PICK h \in Holes : /\ hole' = [hole EXCEPT ![t] = h]
                           /\ stack' = [stack EXCEPT ![h] = Append(stack[h], t)]
    BY <1>1, <1>3 DEF LockWait, Lookup, TypeOK
  <2>2. /\ pc[t] = "idle" /\ pc' = [pc EXCEPT ![t] = "waiting"]
        /\ abort' = [abort EXCEPT ![t] = TRUE]
    BY <1>3 DEF LockWait
  <2>3. \A k \in Holes : \A i \in 1..Len(stack[k]) : stack[k][i] # t /\ stack[k][i] \in Opens
    BY <1>1, <2>2 DEF QueueSound, TypeOK
  <2>4. /\ pc'[t] = "waiting" /\ abort'[t] /\ hole'[t] = h
        /\ \A u \in Opens \ {t} : pc'[u] = pc[u] /\ hole'[u] = hole[u] /\ abort'[u] = abort[u]
    BY <1>1, <2>1, <2>2 DEF TypeOK
  <2>5. /\ Len(stack'[h]) = Len(stack[h]) + 1 /\ stack'[h][Len(stack[h]) + 1] = t
        /\ \A i \in 1..Len(stack[h]) : stack'[h][i] = stack[h][i]
        /\ \A k \in Holes : k # h => stack'[k] = stack[k]
        /\ Len(stack[h]) \in Nat
    BY <1>1, <2>1 DEF TypeOK
  <2>6. ASSUME NEW k \in Holes, NEW i \in 1..Len(stack'[k])
        PROVE  /\ pc'[stack'[k][i]] = "waiting" /\ abort'[stack'[k][i]] /\ hole'[stack'[k][i]] = k
               /\ \A j \in 1..Len(stack'[k]) : stack'[k][i] = stack'[k][j] => i = j
    <3>1. CASE k = h /\ i = Len(stack[h]) + 1
      BY <2>3, <2>4, <2>5, <3>1
    <3>2. CASE k = h /\ i # Len(stack[h]) + 1
      <4>1. i \in 1..Len(stack[h]) /\ stack'[h][i] = stack[h][i]
        BY <2>5, <3>2
      <4> QED
        BY <2>3, <2>4, <2>5, <3>2, <4>1 DEF QueueSound
    <3>3. CASE k # h
      BY <2>3, <2>4, <2>5, <3>3 DEF QueueSound
    <3> QED
      BY <3>1, <3>2, <3>3
  <2>7. QueueSound'
    BY <2>6 DEF QueueSound
  <2> QED
    BY <2>2, <2>4, <2>7 DEF Granting
<1>4. ASSUME NEW t \in Opens, WakeGranted(t) PROVE QueueSound' /\ Granting
  <2>1. /\ pc[t] = "waiting" /\ ~abort[t] /\ hole' = hole
        /\ pc' = [pc EXCEPT ![t] = "open"]
    BY <1>4 DEF WakeGranted, CountIn
  <2>2. PICK h \in Holes : h = hole[t]
    BY <2>1 DEF CountInv, SleepersHaveHole
  <2>3. pc'[t] = "open" /\ \A u \in Opens \ {t} : pc'[u] = pc[u]
    BY <1>1, <2>1 DEF TypeOK
  <2>4. \A k \in Holes : \A i \in 1..Len(stack[k]) : stack[k][i] # t
    BY <2>1 DEF QueueSound
  <2>5. CASE stack[h] # <<>> /\ Wake(h)
    <3>1. PICK u : u = Head(stack[h])
      OBVIOUS
    <3>2. /\ u \in Opens /\ pc[u] = "waiting" /\ abort[u]
          /\ \A v \in Opens : v # u => abort'[v] = abort[v]
          /\ ~abort'[u]
          /\ OnlyOldMembers({u}) /\ MembersDistinct
      BY <1>1, <2>5, <3>1, WakeSound
    <3>3. OnlyOldMembers({u, t})
      BY <2>4, <3>2, OldMembersWithout
    <3>4. \A v \in Opens \ {u, t} : pc'[v] = pc[v] /\ abort'[v] = abort[v] /\ hole'[v] = hole[v]
      BY <2>1, <2>3, <3>2
    <3>5. QueueSound'
      BY <1>1, <3>2, <3>3, <3>4, ShorterQueuesSound
    <3> QED
      BY <2>3, <3>2, <3>5 DEF Granting
  <2>6. CASE UNCHANGED <<stack, abort>>
    <3>1. OnlyOldMembers({t}) /\ MembersDistinct
      BY <2>4, <2>6 DEF QueueSound, OnlyOldMembers, MembersDistinct
    <3>2. \A v \in Opens \ {t} : pc'[v] = pc[v] /\ abort'[v] = abort[v] /\ hole'[v] = hole[v]
      BY <2>1, <2>3, <2>6
    <3>3. QueueSound'
      BY <1>1, <3>1, <3>2, ShorterQueuesSound
    <3> QED
      BY <2>3, <2>6, <3>3 DEF Granting
  <2> QED
    BY <1>4, <2>2, <2>5, <2>6 DEF WakeGranted
<1>5. ASSUME NEW t \in Opens, WakeAborted(t) \/ AbortOpen(t) PROVE QueueSound' /\ Granting
  <2>1. /\ UNCHANGED <<abort, hole>> /\ pc[t] \in {"waiting", "aborted"}
    BY <1>5 DEF WakeAborted, AbortOpen
  <2>2. CASE UNCHANGED <<stack, pc>>
    BY <2>1, <2>2 DEF QueueSound, Granting
  <2>3. CASE ~UNCHANGED <<stack, pc>>
    <3>1. PICK h \in Holes : h = hole[t]
      BY <2>1 DEF CountInv, SleepersHaveHole
    <3>2. \A k \in Holes : k # h => \A i \in 1..Len(stack[k]) : stack[k][i] # t
      BY <3>1 DEF QueueSound
    <3>3. /\ abort[t] /\ stack' = [stack EXCEPT ![h] = Without(stack[h], t)]
          /\ \A u \in Opens \ {t} : pc'[u] = pc[u]
      <4>1. CASE WakeAborted(t)
        BY <1>1, <3>1, <4>1 DEF WakeAborted, TypeOK
      <4>2. CASE AbortOpen(t)
        <5>1. PICK k : k = table[name[t]]
          OBVIOUS
        <5>2. /\ k # NoHole /\ \E i \in 1..Len(stack[k]) : stack[k][i] = t
              /\ stack' = [stack EXCEPT ![k] = Without(stack[k], t)]
              /\ pc' = [pc EXCEPT ![t] = "aborted"]
          BY <2>3, <4>2, <5>1 DEF AbortOpen
        <5>3. k \in Holes
          BY <1>1, <5>1, <5>2 DEF TypeOK
        <5>4. k = h /\ abort[t]
          BY <3>1, <5>2, <5>3 DEF QueueSound
        <5> QED
          BY <1>1, <5>2, <5>4 DEF TypeOK
      <4> QED
        BY <1>5, <4>1, <4>2
    <3>4. OnlyOldMembers({t}) /\ MembersDistinct
      BY <1>1, <3>2, <3>3, LeaveSound
    <3>5. \A v \in Opens \ {t} : pc'[v] = pc[v] /\ abort'[v] = abort[v] /\ hole'[v] = hole[v]
      BY <2>1, <3>3
    <3>6. QueueSound'
      BY <1>1, <3>4, <3>5, ShorterQueuesSound
    <3> QED
      BY <2>1, <3>3, <3>6 DEF Granting
  <2> QED
    BY <2>2, <2>3
<1>6. ASSUME NEW t \in Opens, Unlock(t) PROVE QueueSound' /\ Granting
  <2>1. /\ pc[t] = "open" /\ hole' = hole /\ pc' = [pc EXCEPT ![t] = "closed"]
    BY <1>6 DEF Unlock
  <2>2. \A u \in Opens \ {t} : pc'[u] = pc[u]
    BY <1>1, <2>1 DEF TypeOK
  <2>3. PICK h : h = table[name[t]]
    OBVIOUS
  <2>4. h \in Holes /\ (UNCHANGED <<stack, abort>> \/ (stack[h] # <<>> /\ Wake(h)))
    BY <1>1, <1>6, <2>3 DEF Unlock, HandOn, MayWake, TypeOK
  <2>5. \A k \in Holes : \A i \in 1..Len(stack[k]) : stack[k][i] # t
    BY <2>1 DEF QueueSound
  <2>6. CASE stack[h] # <<>> /\ Wake(h)
    <3>1. PICK u : u = Head(stack[h])
      OBVIOUS
    <3>2. /\ u \in Opens /\ pc[u] = "waiting" /\ abort[u]
          /\ \A v \in Opens : v # u => abort'[v] = abort[v]
          /\ ~abort'[u]
          /\ OnlyOldMembers({u}) /\ MembersDistinct
      BY <1>1, <2>4, <2>6, <3>1, WakeSound
    <3>3. OnlyOldMembers({u, t})
      BY <2>5, <3>2, OldMembersWithout
    <3>4. \A v \in Opens \ {u, t} : pc'[v] = pc[v] /\ abort'[v] = abort[v] /\ hole'[v] = hole[v]
      BY <2>1, <2>2, <3>2
    <3>5. QueueSound'
      BY <1>1, <3>2, <3>3, <3>4, ShorterQueuesSound
    <3> QED
      BY <2>1, <2>2, <3>2, <3>5 DEF Granting
  <2>7. CASE UNCHANGED <<stack, abort>>
    <3>1. OnlyOldMembers({t}) /\ MembersDistinct
      BY <2>5, <2>7 DEF QueueSound, OnlyOldMembers, MembersDistinct
    <3>2. \A v \in Opens \ {t} : pc'[v] = pc[v] /\ abort'[v] = abort[v] /\ hole'[v] = hole[v]
      BY <2>1, <2>2, <2>7
    <3>3. QueueSound'
      BY <1>1, <3>1, <3>2, ShorterQueuesSound
    <3> QED
      BY <2>1, <2>2, <2>7, <3>3 DEF Granting
  <2> QED
    BY <2>4, <2>6, <2>7
<1>7. ASSUME NEW t \in Opens, CloseUnlocked(t) \/ CloseKeepsMutex(t) PROVE QueueSound' /\ Granting
  <2>1. /\ UNCHANGED <<stack, abort, hole>> /\ pc[t] = "open"
        /\ \A u \in Opens \ {t} : pc'[u] = pc[u]
    BY <1>1, <1>7 DEF CloseUnlocked, CloseKeepsMutex, fol, TypeOK
  <2>2. OnlyOldMembers({t}) /\ MembersDistinct
    BY <2>1 DEF QueueSound, OnlyOldMembers, MembersDistinct
  <2>3. QueueSound'
    BY <1>1, <2>1, <2>2, ShorterQueuesSound
  <2> QED
    BY <2>1, <2>3 DEF Granting
<1>8. CASE UNCHANGED vars
  BY <1>8 DEF vars, opener, fol, QueueSound, Granting
<1> QED
  BY <1>2, <1>3, <1>4, <1>5, <1>6, <1>7, <1>8 DEF Next

\* Once an opener has been let in, nothing takes its turn away: a timeout or
\* an abort that comes late has no effect, whatever else was raced.
THEOREM GrantsAreFinal == Spec => GrantIsFinal
<1>1. Init => CountInv /\ QueueSound
  <2>1. Init => QueueSound
    BY DEF Init, QueueSound
  <2> QED
    BY <2>1, InitCountInv
<1>2. CountInv /\ QueueSound /\ [Next]_vars => (CountInv /\ QueueSound)' /\ Granting
  BY NextCountInv, NextQueueSound
<1>3. CountInv /\ QueueSound /\ [Next]_vars => [Granting]_vars
  BY <1>2
<1> QED
  BY <1>1, <1>2, <1>3, PTL DEF Spec, GrantIsFinal, Granting
=============================================================================
