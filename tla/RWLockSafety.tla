---------------------------- MODULE RWLockSafety ----------------------------
(***************************************************************************)
(* Why kern/lock.c is a readers/writer lock, for every number of threads   *)
(* and every depth of recursion.  The lock keeps two bits and two counts   *)
(* only; the invariant says what they stand for.  It needs one restriction *)
(* on callers: no recursive read is improved to a write (UpdateNested).    *)
(***************************************************************************)
EXTENDS RWLock, FiniteSetTheorems, SequenceTheorems, TLAPS

\* The bounds leave read_count at least one value.
LEMMA CountModPositive == CountMod \in Nat /\ CountMod > 0
  BY ThreadsAssumption, BoundsAssumption, FS_CardinalityType

\* read_count stays in its 16-bit field, whatever is added or taken back.
LEMMA CountTypes ==
  ASSUME NEW n \in 0 .. CountMod - 1
  PROVE  Inc(n) \in 0 .. CountMod - 1 /\ Dec(n) \in 0 .. CountMod - 1
  BY CountModPositive DEF Inc, Dec

\* The type invariant is inductive as it stands.  The one-bit fields go
\* first: they are a matter of propositional reasoning.
LEMMA BitsStep == BitsOK /\ [Next]_vars => BitsOK'
<1> SUFFICES ASSUME BitsOK, [Next]_vars PROVE BitsOK'
  OBVIOUS
<1> USE DEF BitsOK
<1>1. CASE UNCHANGED vars
  BY <1>1 DEF vars
<1>2. CASE lock_sleepable
  BY <1>2 DEF lock_sleepable
<1> SUFFICES ASSUME NEW t \in Threads, Wait(t) \/ Call(t) PROVE BitsOK'
  BY <1>1, <1>2 DEF Next
<1>3. CASE Wait(t)
  BY <1>3 DEF Wait, WriteWant, WriteDrain, ReadWait, UpgradeDrain, SleepOn,
              ClaimWrite
<1>4. CASE lock_write(t) \/ lock_try_write(t)
  BY <1>4 DEF lock_write, lock_try_write, NestWrite, ClaimWrite, lockVars
<1>5. CASE lock_read(t) \/ lock_try_read(t)
  BY <1>5 DEF lock_read, lock_try_read, NestRead, lockVars
<1>6. CASE lock_done(t)
  BY <1>6 DEF lock_done, DropHold, DropWrite, WakeWaiters
<1>7. CASE lock_read_to_write(t)
  BY <1>7 DEF lock_read_to_write, NestUpgrade, WakeWaiters
<1>8. CASE lock_try_read_to_write(t)
  BY <1>8 DEF lock_try_read_to_write, NestUpgrade
<1>9. CASE lock_write_to_read(t)
  BY <1>9 DEF lock_write_to_read, DropWrite, WakeWaiters
<1>10. CASE lock_set_recursive(t) \/ lock_clear_recursive(t)
  BY <1>10 DEF lock_set_recursive, lock_clear_recursive
<1> QED
  BY <1>3, <1>4, <1>5, <1>6, <1>7, <1>8, <1>9, <1>10 DEF Call

\* The counts, the recursive holder and the threads' own state.
LEMMA FieldsStep == FieldsOK /\ [Next]_vars => FieldsOK'
<1> SUFFICES ASSUME FieldsOK, [Next]_vars PROVE FieldsOK'
  OBVIOUS
<1> USE DEF FieldsOK, Loops
<1>1. CASE UNCHANGED vars
  BY <1>1 DEF vars
<1>2. CASE lock_sleepable
  BY <1>2 DEF lock_sleepable
<1> SUFFICES ASSUME NEW t \in Threads, Wait(t) \/ Call(t) PROVE FieldsOK'
  BY <1>1, <1>2 DEF Next
<1>c. /\ Inc(read_count) \in 0 .. CountMod - 1
      /\ Dec(read_count) \in 0 .. CountMod - 1
  BY CountTypes
<1>3. CASE Wait(t)
  BY <1>3, <1>c DEF Wait, WriteWant, WriteDrain, ReadWait, UpgradeDrain,
                    SleepOn, Awake, Draining
<1>4. CASE lock_write(t)
  BY <1>4 DEF lock_write, NestWrite, lockVars
<1>5. CASE lock_try_write(t)
  BY <1>5 DEF lock_try_write, NestWrite
<1>6. CASE lock_read(t)
  BY <1>6, <1>c DEF lock_read, NestRead, lockVars
<1>7. CASE lock_try_read(t)
  BY <1>7, <1>c DEF lock_try_read, NestRead
<1>8. CASE lock_done(t)
  <2>1. recursion_depth' \in Nat
    BY <1>8 DEF lock_done, DropHold, DropWrite
  <2>2. read_count' \in 0 .. CountMod - 1
    BY <1>8, <1>c DEF lock_done, DropHold, DropWrite
  <2> QED
    BY <1>8, <2>1, <2>2 DEF lock_done, WakeWaiters
<1>9. CASE lock_read_to_write(t)
  <2>1. recursion_depth' \in Nat
    BY <1>9 DEF lock_read_to_write, NestUpgrade
  <2>2. read_count' \in 0 .. CountMod - 1
    BY <1>9, <1>c DEF lock_read_to_write, NestUpgrade
  <2> QED
    BY <1>9, <2>1, <2>2 DEF lock_read_to_write, NestUpgrade, WakeWaiters
<1>10. CASE lock_try_read_to_write(t)
  <2>1. recursion_depth' \in Nat
    BY <1>10 DEF lock_try_read_to_write, NestUpgrade
  <2>2. read_count' \in 0 .. CountMod - 1
    BY <1>10, <1>c DEF lock_try_read_to_write, NestUpgrade
  <2> QED
    BY <1>10, <2>1, <2>2 DEF lock_try_read_to_write, NestUpgrade
<1>11. CASE lock_write_to_read(t)
  <2>1. recursion_depth' \in Nat
    BY <1>11 DEF lock_write_to_read, DropWrite
  <2> QED
    BY <1>11, <1>c, <2>1 DEF lock_write_to_read, WakeWaiters
<1>12. CASE lock_set_recursive(t) \/ lock_clear_recursive(t)
  BY <1>12 DEF lock_set_recursive, lock_clear_recursive
<1> QED
  BY <1>3, <1>4, <1>5, <1>6, <1>7, <1>8, <1>9, <1>10, <1>11, <1>12 DEF Call

\* The nested holds stay a sequence of reads and writes.
LEMMA NestStep == NestOK /\ [Next]_vars => NestOK'
<1> SUFFICES ASSUME NestOK, [Next]_vars PROVE NestOK'
  OBVIOUS
<1> USE DEF NestOK
<1>1. CASE UNCHANGED vars
  BY <1>1 DEF vars
<1>2. CASE lock_sleepable
  BY <1>2 DEF lock_sleepable
<1> SUFFICES ASSUME NEW t \in Threads, Wait(t) \/ Call(t) PROVE NestOK'
  BY <1>1, <1>2 DEF Next
<1>3. CASE Wait(t)
  BY <1>3 DEF Wait, WriteWant, WriteDrain, ReadWait, UpgradeDrain, SleepOn,
              Awake, Draining
<1>4. CASE lock_write(t) \/ lock_try_write(t)
  BY <1>4 DEF lock_write, lock_try_write, NestWrite, lockVars
<1>5. CASE lock_read(t) \/ lock_try_read(t)
  BY <1>5 DEF lock_read, lock_try_read, NestRead, lockVars
<1>6. CASE lock_done(t)
  BY <1>6 DEF lock_done, MayRelease, DropHold, DropWrite, WakeWaiters
<1>7. CASE lock_read_to_write(t)
  BY <1>7 DEF lock_read_to_write, NestUpgrade, MayUpgrade, WakeWaiters
<1>8. CASE lock_try_read_to_write(t)
  BY <1>8 DEF lock_try_read_to_write, NestUpgrade, MayUpgrade
<1>9. CASE lock_write_to_read(t)
  BY <1>9 DEF lock_write_to_read, DropWrite, WakeWaiters
<1>10. CASE lock_set_recursive(t) \/ lock_clear_recursive(t)
  BY <1>10 DEF lock_set_recursive, lock_clear_recursive
<1> QED
  BY <1>3, <1>4, <1>5, <1>6, <1>7, <1>8, <1>9, <1>10 DEF Call

\* In every execution the lock's fields keep their types: read_count never
\* leaves its field and recursion_depth is never decremented below zero by
\* lock_done or lock_write_to_read.
THEOREM TypeCorrect == Spec => []TypeOK
<1>1. Init => BitsOK
  BY DEF Init, BitsOK
<1>2. Init => FieldsOK
  BY CountModPositive DEF Init, FieldsOK, Loops
<1>3. Init => NestOK
  BY DEF Init, NestOK
<1> QED
  BY <1>1, <1>2, <1>3, BitsStep, FieldsStep, NestStep, PTL DEF Spec, TypeOK

-----------------------------------------------------------------------------
(* What the two bits and the two counts stand for.                         *)
\* Where the nested holds of the recursive holder are writes.
Ws(s) == {i \in DOMAIN s : s[i] = "w"}

\* A thread in a waiting loop holds what the loop starts from, and each bit
\* stands for the claim of one thread.
LoopsOK ==
    \A t \in Threads :
        /\ pc[t] \in {"write_want", "write_drain", "read_wait"} => held[t] = "none"
        /\ pc[t] \in Draining => held[t] = "read"

ClaimsOK ==
    /\ \A t, u \in Writers : t = u
    /\ \A t, u \in Upgraders : t = u
    /\ want_write <=> Writers # {}
    /\ want_upgrade <=> Upgraders # {}

\* The recursive holder has the lock; lock_done may have taken a read hold
\* where the caller gave back a write, never the other way round.
RecursionOK ==
    /\ thread = NoThread => nest = <<>>
    /\ \A t \in Threads : thread = t =>
          /\ pc[t] = "run" /\ held[t] # "none"
          /\ held[t] = "read" => recursion_depth = 0
    /\ Len(nest) <= MaxNest
    /\ Cardinality(Ws(nest)) <= recursion_depth

CountOK ==
    /\ read_count + recursion_depth = Cardinality(Readers) + Len(nest)
    /\ Cardinality(Readers) <= read_count

LockInv == TypeOK /\ LoopsOK /\ ClaimsOK /\ RecursionOK /\ CountOK /\ Exclusion

-----------------------------------------------------------------------------
\* Counting the members of a set of threads.
LEMMA Counting ==
    ASSUME NEW S \in SUBSET Threads
    PROVE  /\ IsFiniteSet(S) /\ Cardinality(S) \in Nat
           /\ Cardinality(S) <= Cardinality(Threads)
           /\ S = {} <=> Cardinality(S) = 0
           /\ \A t \in Threads \ S : Cardinality(S \cup {t}) = Cardinality(S) + 1
           /\ \A t \in S : Cardinality(S \ {t}) = Cardinality(S) - 1
<1>1. IsFiniteSet(S) /\ Cardinality(S) <= Cardinality(Threads)
  BY ThreadsAssumption, FS_Subset
<1>2. Cardinality(S) \in Nat
  BY <1>1, FS_CardinalityType
<1>3. S = {} <=> Cardinality(S) = 0
  BY <1>1, FS_EmptySet
<1>4. \A t \in Threads \ S : Cardinality(S \cup {t}) = Cardinality(S) + 1
  BY <1>1, FS_AddElement
<1>5. \A t \in S : Cardinality(S \ {t}) = Cardinality(S) - 1
  BY <1>1, FS_RemoveElement
<1> QED
  BY <1>1, <1>2, <1>3, <1>4, <1>5

\* The nested writes when a hold is added, given back, or turned into a read.
LEMMA NestedWrites ==
    ASSUME NEW s \in Seq({"r", "w"})
    PROVE  /\ Cardinality(Ws(s)) \in Nat /\ Cardinality(Ws(s)) <= Len(s)
           /\ Cardinality(Ws(Append(s, "r"))) = Cardinality(Ws(s))
           /\ Cardinality(Ws(Append(s, "w"))) = Cardinality(Ws(s)) + 1
           /\ s # <<>> => Cardinality(Ws(SubSeq(s, 1, Len(s) - 1))) <= Cardinality(Ws(s))
           /\ s # <<>> /\ s[Len(s)] = "w" =>
                 /\ Cardinality(Ws(s)) > 0
                 /\ Cardinality(Ws([s EXCEPT ![Len(s)] = "r"])) = Cardinality(Ws(s)) - 1
<1>1. /\ IsFiniteSet(1 .. Len(s)) /\ Cardinality(1 .. Len(s)) = Len(s)
      /\ Len(s) \in Nat /\ DOMAIN s = 1 .. Len(s)
  BY FS_Interval
<1>2. IsFiniteSet(Ws(s)) /\ Cardinality(Ws(s)) <= Len(s) /\ Cardinality(Ws(s)) \in Nat
  BY <1>1, FS_Subset, FS_CardinalityType DEF Ws
<1>3. Ws(Append(s, "r")) = Ws(s)
  BY <1>1 DEF Ws
<1>4. Ws(Append(s, "w")) = Ws(s) \cup {Len(s) + 1} /\ Len(s) + 1 \notin Ws(s)
  BY <1>1 DEF Ws
<1>5. Cardinality(Ws(Append(s, "w"))) = Cardinality(Ws(s)) + 1
  BY <1>2, <1>4, FS_AddElement
<1>6. s # <<>> => Cardinality(Ws(SubSeq(s, 1, Len(s) - 1))) <= Cardinality(Ws(s))
  <2> SUFFICES ASSUME s # <<>> PROVE Ws(SubSeq(s, 1, Len(s) - 1)) \subseteq Ws(s)
    BY <1>2, FS_Subset
  <2> QED
    BY <1>1 DEF Ws
<1>7. ASSUME s # <<>>, s[Len(s)] = "w"
      PROVE  /\ Cardinality(Ws(s)) > 0
             /\ Cardinality(Ws([s EXCEPT ![Len(s)] = "r"])) = Cardinality(Ws(s)) - 1
  <2>1. Len(s) \in Ws(s)
    BY <1>1, <1>7 DEF Ws
  <2>2. Ws([s EXCEPT ![Len(s)] = "r"]) = Ws(s) \ {Len(s)}
    BY <1>1, <1>7 DEF Ws
  <2>3. Cardinality(Ws(s)) # 0
    BY <1>2, <2>1, FS_EmptySet
  <2>4. Cardinality(Ws(s) \ {Len(s)}) = Cardinality(Ws(s)) - 1
    BY <1>2, <2>1, FS_RemoveElement
  <2>5. Cardinality(Ws(s)) > 0
    BY <1>2, <2>3
  <2>6. Cardinality(Ws([s EXCEPT ![Len(s)] = "r"])) = Cardinality(Ws(s)) - 1
    BY <2>2, <2>4, Zenon
  <2> QED
    BY <2>5, <2>6
<1> QED
  BY <1>2, <1>3, <1>5, <1>6, <1>7

\* lock_done by the recursive holder leaves one nested hold fewer.
LEMMA OneFewer ==
    ASSUME NEW s \in Seq({"r", "w"}), s # <<>>
    PROVE  /\ SubSeq(s, 1, Len(s) - 1) \in Seq({"r", "w"})
           /\ Len(SubSeq(s, 1, Len(s) - 1)) = Len(s) - 1
<1> DEFINE n == Len(s) - 1
<1>1. n \in Nat /\ \A i \in 1 .. n : s[i] \in {"r", "w"}
  OBVIOUS
<1> HIDE DEF n
<1>2. (IF 1 <= n THEN n - 1 + 1 ELSE 0) = n
  BY <1>1
<1>3. n \in Int /\ 1 \in Int
  BY <1>1
<1>4. SubSeq(s, 1, n) \in Seq({"r", "w"})
  BY <1>1, <1>3, SubSeqProperties
<1>5. Len(SubSeq(s, 1, n)) = n
  BY <1>1, <1>2, <1>3, SubSeqProperties
<1>6. SubSeq(s, 1, n) \in Seq({"r", "w"}) /\ Len(SubSeq(s, 1, n)) = n
  BY <1>4, <1>5, Zenon
<1> USE DEF n
<1> QED
  BY <1>6, Zenon

-----------------------------------------------------------------------------
\* What the numbers say about the holds.
LEMMA Numbers ==
    ASSUME LockInv
    PROVE  /\ read_count \in Nat /\ recursion_depth \in Nat /\ Len(nest) \in Nat
           /\ nest = <<>> <=> Len(nest) = 0
           /\ Readers \in SUBSET Threads /\ Cardinality(Readers) \in Nat
           /\ read_count = 0 => Readers = {}
<1>1. /\ read_count \in Nat /\ recursion_depth \in Nat
  BY CountModPositive DEF LockInv, TypeOK, FieldsOK
<1>2. Len(nest) \in Nat /\ (nest = <<>> <=> Len(nest) = 0)
  BY DEF LockInv, TypeOK, NestOK
<1>3. Readers \in SUBSET Threads
  BY DEF Readers
<1>4. Cardinality(Readers) \in Nat /\ (Readers = {} <=> Cardinality(Readers) = 0)
  BY <1>3, Counting
<1> QED
  BY <1>1, <1>2, <1>3, <1>4 DEF LockInv, CountOK

\* A reader that gives its hold back finds it in read_count.
LEMMA ReaderCounted ==
    ASSUME LockInv, NEW t \in Threads, pc[t] = "run", held[t] = "read"
    PROVE  t \in Readers /\ read_count # 0
  BY Numbers DEF Readers, Draining

\* While a thread has write access no read is counted but its nested ones.
LEMMA WriterAlone ==
    ASSUME LockInv, NEW t \in Threads, held[t] \in {"write", "upgrade"}
    PROVE  /\ Readers = {}
           /\ thread \in {t, NoThread}
           /\ thread # t \/ nest = <<>> =>
                 nest = <<>> /\ read_count = 0 /\ recursion_depth = 0
           /\ held[t] = "write" => want_write /\ ~want_upgrade
           /\ held[t] = "upgrade" => want_upgrade
<1>1. Readers = {}
  BY DEF LockInv, Exclusion, Readers
<1>2. thread \in {t, NoThread}
  BY DEF LockInv, Exclusion, RecursionOK, TypeOK, FieldsOK
<1>3. thread # t \/ nest = <<>> => nest = <<>>
  BY <1>2 DEF LockInv, RecursionOK
<1>4. Cardinality(Readers) = 0
  BY <1>1, FS_EmptySet
<1>5. nest = <<>> => read_count = 0 /\ recursion_depth = 0
  BY <1>4, Numbers DEF LockInv, CountOK
<1>6. held[t] = "write" => want_write /\ ~want_upgrade
  BY DEF LockInv, ClaimsOK, LoopsOK, Exclusion, Writers, Upgraders
<1>7. held[t] = "upgrade" => want_upgrade
  BY DEF LockInv, ClaimsOK, Upgraders
<1> QED
  BY <1>1, <1>2, <1>3, <1>5, <1>6, <1>7

\* A nested hold is found in one of the two counts, a nested write in
\* recursion_depth.
LEMMA NestCounted ==
    ASSUME LockInv, nest # <<>>
    PROVE  /\ read_count # 0 \/ recursion_depth # 0
           /\ nest[Len(nest)] = "w" => recursion_depth # 0
<1>1. Len(nest) > 0
  BY Numbers
<1>2. nest \in Seq({"r", "w"})
  BY DEF LockInv, TypeOK, NestOK
<1>w. Cardinality(Ws(nest)) \in Nat /\ (nest[Len(nest)] = "w" => Cardinality(Ws(nest)) > 0)
  BY <1>2, NestedWrites
<1>3. nest[Len(nest)] = "w" => recursion_depth # 0
  BY <1>w, Numbers DEF LockInv, RecursionOK
<1> QED
  BY <1>1, <1>3, Numbers DEF LockInv, CountOK

-----------------------------------------------------------------------------
\* The holds, the loops and the bits, when nothing of them changes.
LEMMA HoldsKept ==
    ASSUME LoopsOK, ClaimsOK, Exclusion,
           UNCHANGED <<pc, held, want_write, want_upgrade>>
    PROVE  (LoopsOK /\ ClaimsOK /\ Exclusion)'
  BY DEF LoopsOK, ClaimsOK, Exclusion, Writers, Upgraders

\* A waiting loop is left or gone round: the step that grants the lock
\* sees that nobody else has it.
LEMMA LoopHolds ==
    ASSUME LockInv, NEW t \in Threads, Wait(t)
    PROVE  (LoopsOK /\ ClaimsOK /\ Exclusion)'
<1> USE DEF LoopsOK, ClaimsOK, Exclusion, Writers, Upgraders, Draining, Awake
<1>0. /\ LoopsOK /\ ClaimsOK /\ Exclusion
      /\ pc \in [Threads -> Loops \cup {"run"}]
      /\ held \in [Threads -> {"none", "read", "write", "upgrade"}]
  BY DEF LockInv, TypeOK, FieldsOK
<1>1. read_count = 0 => \A u \in Threads : held[u] = "read" => pc[u] \in Draining
  BY Numbers DEF Readers
<1>2. CASE WriteWant(t)
  BY <1>0, <1>2 DEF WriteWant, ClaimWrite
<1>3. CASE WriteDrain(t)
  BY <1>0, <1>1, <1>3 DEF WriteDrain, WriteBlocked
<1>4. CASE ReadWait(t)
  BY <1>0, <1>4 DEF ReadWait, ReadBlocked
<1>5. CASE UpgradeDrain(t)
  BY <1>0, <1>1, <1>5 DEF UpgradeDrain
<1> QED
  BY <1>2, <1>3, <1>4, <1>5 DEF Wait

\* The same for the calls: a release clears the bit of the hold that the
\* caller really has.
LEMMA CallHolds ==
    ASSUME LockInv, UpdateNested = FALSE, NEW t \in Threads, Call(t)
    PROVE  (LoopsOK /\ ClaimsOK /\ Exclusion)'
<1>0. /\ LoopsOK /\ ClaimsOK /\ Exclusion
      /\ pc \in [Threads -> Loops \cup {"run"}]
      /\ held \in [Threads -> {"none", "read", "write", "upgrade"}]
  BY DEF LockInv, TypeOK, FieldsOK
<1>1. read_count = 0 => \A u \in Threads : held[u] = "read" => pc[u] \in Draining
  BY Numbers DEF Readers
<1>2. CASE lock_write(t) \/ lock_read(t)
  <2>1. CASE UNCHANGED <<pc, held, want_write, want_upgrade>>
    BY <1>0, <2>1, HoldsKept
  <2>2. CASE /\ Running(t) /\ held[t] = "none"
             /\ \E l \in {"write_want", "read_wait"} : pc' = [pc EXCEPT ![t] = l]
             /\ UNCHANGED <<lockVars, held>>
    BY <1>0, <2>2 DEF LoopsOK, ClaimsOK, Exclusion, Writers, Upgraders, Draining, Running, lockVars
  <2> QED
    BY <1>2, <2>1, <2>2 DEF lock_write, lock_read, NestWrite, NestRead, MayAcquire
<1>3. CASE lock_try_write(t) \/ lock_try_read(t)
  <2>1. CASE UNCHANGED <<pc, held, want_write, want_upgrade>>
    BY <1>0, <2>1, HoldsKept
  <2>2. CASE lock_try_write(t) /\ thread # t
    BY <1>0, <1>1, <2>2 DEF lock_try_write, ClaimWrite, MayAcquire, Running, LoopsOK,
          ClaimsOK, Exclusion, Writers, Upgraders, Draining, NestWrite
  <2>3. CASE lock_try_read(t) /\ thread # t
    BY <1>0, <2>3 DEF lock_try_read, ReadBlocked, MayAcquire, Running, LoopsOK,
          ClaimsOK, Exclusion, Writers, Upgraders, Draining, NestRead
  <2> QED
    BY <1>3, <2>1, <2>2, <2>3 DEF lock_try_write, lock_try_read, NestWrite, NestRead
<1>4. CASE lock_done(t)
  <2>1. CASE thread = t
    <3>1. UNCHANGED <<pc, held, want_write, want_upgrade>>
      BY <1>4, <2>1, NestCounted DEF lock_done, MayRelease, DropHold, DropWrite
    <3> QED
      BY <1>0, <3>1, HoldsKept
  <2>2. CASE thread # t /\ held[t] = "read"
    <3>1. UNCHANGED <<pc, want_write, want_upgrade>> /\ held' = [held EXCEPT ![t] = "none"]
      BY <1>4, <2>2, ReaderCounted DEF lock_done, MayRelease, Running, DropHold
    <3> QED
      BY <1>0, <1>4, <2>2, <3>1 DEF lock_done, MayRelease, Running, LoopsOK, ClaimsOK,
            Exclusion, Writers, Upgraders, Draining
  <2>3. CASE thread # t /\ held[t] \in {"write", "upgrade"}
    <3>1. /\ UNCHANGED pc /\ held' = [held EXCEPT ![t] = "none"]
          /\ held[t] = "write" => want_write' = FALSE /\ UNCHANGED want_upgrade
          /\ held[t] = "upgrade" => want_upgrade' = FALSE /\ UNCHANGED want_write
      BY <1>4, <2>3, WriterAlone DEF lock_done, DropHold, DropWrite
    <3> QED
      BY <1>0, <1>4, <2>3, <3>1 DEF lock_done, MayRelease, Running, LoopsOK, ClaimsOK,
            Exclusion, Writers, Upgraders, Draining
  <2> QED
    BY <1>0, <1>4, <2>1, <2>2, <2>3 DEF lock_done, MayRelease
<1>5. CASE lock_read_to_write(t) \/ lock_try_read_to_write(t)
  <2>1. thread # t /\ held[t] = "read" /\ pc[t] = "run" /\ UNCHANGED want_write
    BY <1>5 DEF lock_read_to_write, lock_try_read_to_write, MayUpgrade, NestUpgrade, Running
  <2>2. \/ UNCHANGED <<pc, want_upgrade>> /\ held' = [held EXCEPT ![t] = "none"]
        \/ /\ ~want_upgrade /\ want_upgrade' = TRUE /\ UNCHANGED held
           /\ \E l \in Draining : pc' = [pc EXCEPT ![t] = l]
    BY <1>5, <2>1 DEF lock_read_to_write, lock_try_read_to_write, NestUpgrade,
          UpgradeTaken, Draining
  <2> QED
    BY <1>0, <2>1, <2>2 DEF LoopsOK, ClaimsOK, Exclusion, Writers, Upgraders, Draining
<1>6. CASE lock_write_to_read(t)
  <2>1. CASE thread = t /\ nest # <<>>
    <3>1. UNCHANGED <<pc, held, want_write, want_upgrade>>
      BY <1>6, <2>1, NestCounted DEF lock_write_to_read, MayDowngrade, DropWrite
    <3> QED
      BY <1>0, <3>1, HoldsKept
  <2>2. CASE thread # t \/ nest = <<>>
    <3>1. /\ UNCHANGED pc /\ held' = [held EXCEPT ![t] = "read"]
          /\ held[t] = "write" => want_write' = FALSE /\ UNCHANGED want_upgrade
          /\ held[t] = "upgrade" => want_upgrade' = FALSE /\ UNCHANGED want_write
      BY <1>6, <2>2, WriterAlone DEF lock_write_to_read, MayDowngrade, DropWrite
    <3> QED
      BY <1>0, <1>6, <3>1 DEF lock_write_to_read, MayDowngrade, Running, LoopsOK, ClaimsOK,
            Exclusion, Writers, Upgraders, Draining
  <2> QED
    BY <2>1, <2>2
<1>7. CASE lock_set_recursive(t) \/ lock_clear_recursive(t)
  BY <1>0, <1>7, HoldsKept DEF lock_set_recursive, lock_clear_recursive
<1> QED
  BY <1>2, <1>3, <1>4, <1>5, <1>6, <1>7 DEF Call

-----------------------------------------------------------------------------
\* read_count is wide enough for one more reader.
LEMMA RoomForReader ==
    ASSUME LockInv, NEW t \in Threads \ Readers
    PROVE  /\ Inc(read_count) = read_count + 1
           /\ Cardinality(Readers \cup {t}) = Cardinality(Readers) + 1
<1>1. Readers \cup {t} \in SUBSET Threads
  BY Numbers
<1>2. Cardinality(Readers \cup {t}) = Cardinality(Readers) + 1
  BY Numbers, Counting
<1>3. Cardinality(Readers \cup {t}) <= Cardinality(Threads)
  BY <1>1, Counting
<1>4. Cardinality(Threads) \in Nat
  BY ThreadsAssumption, FS_CardinalityType
<1>5. read_count + 1 < CountMod
  BY <1>2, <1>3, <1>4, Numbers, BoundsAssumption DEF LockInv, CountOK, RecursionOK
<1> QED
  BY <1>2, <1>5, Numbers, BoundsAssumption DEF Inc

\* So it is for one more nested read, or a nested write turned into a read.
LEMMA RoomForNested ==
    ASSUME LockInv, Len(nest) < MaxNest \/ recursion_depth # 0
    PROVE  Inc(read_count) = read_count + 1
<1>1. Cardinality(Readers) <= Cardinality(Threads)
  BY Numbers, Counting
<1>2. Cardinality(Threads) \in Nat
  BY ThreadsAssumption, FS_CardinalityType
<1>3. read_count + 1 < CountMod
  BY <1>1, <1>2, Numbers, BoundsAssumption DEF LockInv, CountOK, RecursionOK
<1> QED
  BY <1>3, Numbers, BoundsAssumption DEF Inc

\* The counts through the waiting loops: only a granted read changes them.
LEMMA LoopCounts ==
    ASSUME LockInv, NEW t \in Threads, Wait(t)
    PROVE  (RecursionOK /\ CountOK)'
<1>0. /\ LoopsOK
      /\ pc \in [Threads -> Loops \cup {"run"}]
      /\ held \in [Threads -> {"none", "read", "write", "upgrade"}]
  BY DEF LockInv, TypeOK, FieldsOK
<1>1. UNCHANGED <<thread, recursion_depth, nest>> /\ pc[t] # "run"
  BY DEF Wait, WriteWant, WriteDrain, ReadWait, UpgradeDrain, Awake, Draining
<1>2. \A u \in Threads \ {t} : pc'[u] = pc[u] /\ held'[u] = held[u]
  BY <1>0 DEF Wait, WriteWant, WriteDrain, ReadWait, UpgradeDrain
<1>3. RecursionOK'
  BY <1>1, <1>2 DEF LockInv, RecursionOK, Ws
<1>4. \/ Readers' = Readers /\ read_count' = read_count
      \/ t \notin Readers /\ Readers' = Readers \cup {t} /\ read_count' = Inc(read_count)
  <2>1. CASE WriteWant(t) \/ WriteDrain(t) \/ UpgradeDrain(t)
    BY <1>0, <2>1 DEF WriteWant, WriteDrain, UpgradeDrain, Awake, Draining, Readers, LoopsOK
  <2>2. CASE ReadWait(t)
    BY <1>0, <2>2 DEF ReadWait, Awake, Draining, Readers, LoopsOK
  <2> QED
    BY <2>1, <2>2 DEF Wait
<1>5. CountOK'
  BY <1>1, <1>4, RoomForReader, Numbers DEF LockInv, CountOK
<1> QED
  BY <1>3, <1>5

\* The counts through the calls.
LEMMA CallCounts ==
    ASSUME LockInv, UpdateNested = FALSE, NEW t \in Threads, Call(t)
    PROVE  (RecursionOK /\ CountOK)'
<1>0. /\ LoopsOK /\ RecursionOK /\ CountOK /\ nest \in Seq({"r", "w"})
      /\ pc \in [Threads -> Loops \cup {"run"}]
      /\ held \in [Threads -> {"none", "read", "write", "upgrade"}]
      /\ thread \in Threads \cup {NoThread}
  BY DEF LockInv, TypeOK, FieldsOK, NestOK
<1>c. /\ read_count + recursion_depth = Cardinality(Readers) + Len(nest)
      /\ Cardinality(Readers) <= read_count
      /\ read_count \in Nat /\ recursion_depth \in Nat /\ Len(nest) \in Nat
      /\ Cardinality(Readers) \in Nat
  BY Numbers DEF LockInv, CountOK
<1>1. CASE NestRead(t) /\ Len(nest) < MaxNest /\ thread = t
  <2>1. /\ UNCHANGED <<pc, held, thread, recursion_depth>> /\ Readers' = Readers
        /\ nest' = Append(nest, "r") /\ read_count' = read_count + 1
    BY <1>1, RoomForNested DEF NestRead, Readers
  <2>2. /\ Cardinality(Ws(nest')) = Cardinality(Ws(nest)) /\ Len(nest') = Len(nest) + 1
        /\ Cardinality(Ws(nest)) \in Nat
    <3>1. /\ Cardinality(Ws(Append(nest, "r"))) = Cardinality(Ws(nest))
          /\ Cardinality(Ws(nest)) \in Nat
      BY <1>0, NestedWrites
    <3>2. Len(Append(nest, "r")) = Len(nest) + 1
      BY <1>0
    <3> QED
      BY <2>1, <3>1, <3>2, Zenon
  <2>3. RecursionOK'
    BY <1>0, <1>1, <2>1, <2>2, ThreadsAssumption, BoundsAssumption, Numbers DEF RecursionOK
  <2> QED
    <3>1. Cardinality(Readers)' = Cardinality(Readers)
      BY <2>1, Zenon
    <3>2. UNCHANGED recursion_depth /\ read_count' = read_count + 1
      BY <2>1
    <3>3. CountOK'
      BY <1>c, <2>2, <3>1, <3>2 DEF CountOK
    <3> QED
      BY <2>3, <3>3
<1>2. CASE NestWrite(t) /\ Len(nest) < MaxNest /\ thread = t /\ held[t] # "read"
  <2>1. /\ UNCHANGED <<pc, held, thread, read_count>> /\ Readers' = Readers
        /\ nest' = Append(nest, "w") /\ recursion_depth' = recursion_depth + 1
    BY <1>2 DEF NestWrite, Readers
  <2>2. /\ Cardinality(Ws(nest')) = Cardinality(Ws(nest)) + 1 /\ Len(nest') = Len(nest) + 1
        /\ Cardinality(Ws(nest)) \in Nat
    <3>1. /\ Cardinality(Ws(Append(nest, "w"))) = Cardinality(Ws(nest)) + 1
          /\ Cardinality(Ws(nest)) \in Nat
      BY <1>0, NestedWrites
    <3>2. Len(Append(nest, "w")) = Len(nest) + 1
      BY <1>0
    <3> QED
      BY <2>1, <3>1, <3>2, Zenon
  <2>3. RecursionOK'
    BY <1>0, <1>2, <2>1, <2>2, ThreadsAssumption, BoundsAssumption, Numbers DEF RecursionOK
  <2> QED
    <3>1. Cardinality(Readers)' = Cardinality(Readers)
      BY <2>1, Zenon
    <3>2. UNCHANGED read_count /\ recursion_depth' = recursion_depth + 1
      BY <2>1
    <3>3. CountOK'
      BY <1>c, <2>2, <3>1, <3>2 DEF CountOK
    <3> QED
      BY <2>3, <3>3
<1>3. CASE lock_write(t) \/ lock_read(t)
  <2>1. CASE thread = t
    BY <1>1, <1>2, <1>3, <2>1, <1>0 DEF lock_write, lock_read, MayAcquire, MayWrite, RecursionOK
  <2>2. CASE thread # t
    <3>1. /\ UNCHANGED <<held, thread, recursion_depth, nest, read_count>>
          /\ held[t] = "none" /\ \A u \in Threads \ {t} : pc'[u] = pc[u]
      BY <1>0, <1>3, <2>2 DEF lock_write, lock_read, MayAcquire, lockVars
    <3>2. Readers' = Readers
      BY <1>0, <3>1 DEF Readers
    <3>3. RecursionOK'
      BY <1>0, <2>2, <3>1 DEF RecursionOK, Ws
    <3> QED
      BY <1>0, <3>1, <3>2, <3>3 DEF CountOK
  <2> QED
    BY <2>1, <2>2
<1>4. CASE lock_try_write(t) \/ lock_try_read(t)
  <2>1. CASE thread = t
    BY <1>1, <1>2, <1>4, <2>1, <1>0 DEF lock_try_write, lock_try_read, MayAcquire, MayWrite, RecursionOK
  <2>2. CASE thread # t
    <3>1. /\ UNCHANGED <<pc, thread, recursion_depth, nest>>
          /\ held[t] = "none" /\ \A u \in Threads \ {t} : held'[u] = held[u]
      BY <1>0, <1>4, <2>2 DEF lock_try_write, lock_try_read, MayAcquire, NestWrite, NestRead
    <3>2. \/ Readers' = Readers /\ read_count' = read_count
          \/ t \notin Readers /\ Readers' = Readers \cup {t} /\ read_count' = Inc(read_count)
      BY <1>0, <1>4, <2>2, <3>1 DEF lock_try_write, lock_try_read, MayAcquire, Running,
            Readers, Draining
    <3>3. RecursionOK'
      BY <1>0, <2>2, <3>1 DEF RecursionOK, Ws
    <3>4. CountOK'
      <4>1. \/ Cardinality(Readers)' = Cardinality(Readers) /\ read_count' = read_count
            \/ /\ Cardinality(Readers)' = Cardinality(Readers) + 1
               /\ read_count' = read_count + 1
        BY <3>2, RoomForReader
      <4> QED
        BY <1>0, <3>1, <4>1, Numbers DEF CountOK
    <3> QED
      BY <3>3, <3>4
  <2> QED
    BY <2>1, <2>2
<1>5. CASE lock_done(t)
  <2>1. CASE thread = t
    <3>1. /\ UNCHANGED <<pc, held, thread>> /\ Readers' = Readers /\ nest # <<>>
          /\ nest' = SubSeq(nest, 1, Len(nest) - 1)
      BY <1>5, <2>1 DEF lock_done, MayRelease, Readers
    <3>2. /\ Len(nest') = Len(nest) - 1 /\ Len(nest) > 0
          /\ nest' \in Seq({"r", "w"})
          /\ Cardinality(Ws(nest')) <= Cardinality(Ws(nest))
          /\ Cardinality(Ws(nest')) <= Len(nest')
          /\ Cardinality(Ws(nest')) \in Nat /\ Cardinality(Ws(nest)) \in Nat
      <4> DEFINE s == SubSeq(nest, 1, Len(nest) - 1)
      <4>1. Len(nest) > 0
        BY <3>1, Numbers
      <4>2. s \in Seq({"r", "w"}) /\ Len(s) = Len(nest) - 1
        BY <1>0, <3>1, OneFewer
      <4>3. /\ Cardinality(Ws(s)) <= Cardinality(Ws(nest)) /\ Cardinality(Ws(nest)) \in Nat
        BY <1>0, <3>1, NestedWrites
      <4>4. Cardinality(Ws(s)) <= Len(s) /\ Cardinality(Ws(s)) \in Nat
        BY <4>2, NestedWrites
      <4> QED
        BY <3>1, <4>1, <4>2, <4>3, <4>4, Zenon
    <3>3. held[t] \in {"write", "upgrade"} => Cardinality(Readers) = 0
      BY WriterAlone, FS_EmptySet
    <3>4. CASE read_count # 0 /\ read_count' = Dec(read_count) /\ UNCHANGED recursion_depth
      <4>1. read_count' = read_count - 1
        BY <3>4 DEF Dec
      <4>2. Cardinality(Readers) < read_count
        BY <1>0, <2>1, <3>2, <3>3, <3>4, Numbers DEF RecursionOK, CountOK
      <4>3. RecursionOK'
        BY <1>0, <2>1, <3>1, <3>2, <3>4, ThreadsAssumption, BoundsAssumption, Numbers DEF RecursionOK
      <4> QED
        BY <1>0, <3>1, <3>2, <3>4, <4>1, <4>2, <4>3, Numbers DEF CountOK
    <3>5. CASE read_count = 0 /\ UNCHANGED read_count /\ recursion_depth' = recursion_depth - 1
      <4>1. Cardinality(Readers) = 0
        BY <1>0, <3>5, Numbers DEF CountOK
      <4>2. recursion_depth = Len(nest)
        BY <1>0, <3>5, <4>1, Numbers DEF CountOK
      <4>3. held[t] # "read"
        BY <1>0, <2>1, <3>2, <4>2, Numbers DEF RecursionOK
      <4>4. RecursionOK'
        BY <1>0, <2>1, <3>1, <3>2, <3>5, <4>2, <4>3, ThreadsAssumption, BoundsAssumption, Numbers
           DEF RecursionOK
      <4> QED
        BY <1>0, <3>1, <3>2, <3>5, <4>1, <4>2, <4>4, Numbers DEF CountOK
    <3> QED
      BY <1>5, <3>1, <3>4, <3>5, NestCounted DEF lock_done, DropHold, DropWrite
  <2>2. CASE thread # t
    <3>1. /\ UNCHANGED <<pc, thread, nest>> /\ held' = [held EXCEPT ![t] = "none"]
          /\ pc[t] = "run" /\ held[t] # "none"
      BY <1>5, <2>2 DEF lock_done, MayRelease, Running
    <3>2. CASE held[t] = "read"
      <4>1. t \in Readers /\ read_count # 0
        BY <3>1, <3>2, ReaderCounted
      <4>2. read_count' = read_count - 1 /\ UNCHANGED recursion_depth
        BY <1>5, <4>1 DEF lock_done, DropHold, Dec
      <4>3. Readers' = Readers \ {t}
        BY <1>0, <3>1 DEF Readers
      <4>4. Cardinality(Readers \ {t}) = Cardinality(Readers) - 1
        BY <4>1, Numbers, Counting
      <4>5. RecursionOK'
        BY <1>0, <2>2, <3>1, <4>2 DEF RecursionOK, Ws
      <4> QED
        BY <1>0, <3>1, <4>2, <4>3, <4>4, <4>5, Numbers DEF CountOK
    <3>3. CASE held[t] \in {"write", "upgrade"}
      <4>1. read_count = 0 /\ recursion_depth = 0
        BY <2>2, <3>3, WriterAlone
      <4>2. UNCHANGED <<read_count, recursion_depth>>
        BY <1>5, <4>1 DEF lock_done, DropHold, DropWrite
      <4>3. Readers' = Readers
        BY <1>0, <3>1, <3>3 DEF Readers
      <4>4. RecursionOK'
        BY <1>0, <2>2, <3>1, <4>2 DEF RecursionOK, Ws
      <4> QED
        BY <1>0, <3>1, <4>2, <4>3, <4>4 DEF CountOK
    <3> QED
      BY <1>0, <3>1, <3>2, <3>3
  <2> QED
    BY <2>1, <2>2
<1>6. CASE lock_read_to_write(t) \/ lock_try_read_to_write(t)
  <2>1. thread # t /\ held[t] = "read" /\ pc[t] = "run" /\ UNCHANGED <<thread, recursion_depth, nest>>
    BY <1>6 DEF lock_read_to_write, lock_try_read_to_write, MayUpgrade, NestUpgrade, Running
  <2>2. /\ \A u \in Threads \ {t} : pc'[u] = pc[u] /\ held'[u] = held[u]
        /\ held'[t] = "none" \/ pc'[t] \in Draining
        /\ read_count' = Dec(read_count)
    BY <1>0, <1>6, <2>1 DEF lock_read_to_write, lock_try_read_to_write, NestUpgrade, Draining
  <2>3. Readers' = Readers \ {t}
    BY <1>0, <2>2 DEF Readers
  <2>4. t \in Readers /\ read_count' = read_count - 1
    BY <2>1, <2>2, ReaderCounted DEF Dec
  <2>5. Cardinality(Readers \ {t}) = Cardinality(Readers) - 1
    BY <2>4, Numbers, Counting
  <2>6. RecursionOK'
    BY <1>0, <2>1, <2>2 DEF RecursionOK, Ws
  <2> QED
    BY <1>0, <2>1, <2>3, <2>4, <2>5, <2>6, Numbers DEF CountOK
<1>7. CASE lock_write_to_read(t)
  <2>0. /\ UNCHANGED <<pc, thread>> /\ pc[t] = "run" /\ held[t] \in {"write", "upgrade"}
        /\ read_count' = Inc(read_count)
    BY <1>7 DEF lock_write_to_read, MayDowngrade, Running
  <2>1. CASE thread = t /\ nest # <<>>
    <3>1. /\ UNCHANGED held /\ Readers' = Readers /\ nest[Len(nest)] = "w"
          /\ nest' = [nest EXCEPT ![Len(nest)] = "r"]
      BY <1>7, <2>0, <2>1 DEF lock_write_to_read, MayDowngrade, Readers
    <3>2. /\ recursion_depth # 0 /\ recursion_depth' = recursion_depth - 1
          /\ read_count' = read_count + 1
      BY <1>7, <2>0, <2>1, <3>1, NestCounted, RoomForNested DEF lock_write_to_read, DropWrite
    <3>3. /\ Len(nest') = Len(nest)
          /\ Cardinality(Ws(nest')) = Cardinality(Ws(nest)) - 1 /\ Cardinality(Ws(nest)) \in Nat
      <4>1. /\ Cardinality(Ws([nest EXCEPT ![Len(nest)] = "r"])) = Cardinality(Ws(nest)) - 1
            /\ Cardinality(Ws(nest)) \in Nat
        BY <1>0, <2>1, <3>1, NestedWrites
      <4>2. Len([nest EXCEPT ![Len(nest)] = "r"]) = Len(nest)
        BY <1>0
      <4> QED
        BY <3>1, <4>1, <4>2, Zenon
    <3>4. RecursionOK'
      BY <1>0, <2>0, <2>1, <3>1, <3>2, <3>3, ThreadsAssumption, BoundsAssumption, Numbers DEF RecursionOK
    <3> QED
      <4>1. Cardinality(Readers)' = Cardinality(Readers)
        BY <3>1, Zenon
      <4>2. CountOK'
        BY <1>0, <3>2, <3>3, <4>1, Numbers DEF CountOK
      <4> QED
        BY <3>4, <4>2
  <2>2. CASE thread # t \/ nest = <<>>
    <3>1. UNCHANGED nest /\ held' = [held EXCEPT ![t] = "read"]
      BY <1>7, <2>2 DEF lock_write_to_read
    <3>2. nest = <<>> /\ recursion_depth = 0 /\ UNCHANGED recursion_depth
      BY <1>7, <2>0, <2>2, WriterAlone DEF lock_write_to_read, DropWrite
    <3>3. t \notin Readers /\ Readers' = Readers \cup {t}
      BY <1>0, <2>0, <3>1 DEF Readers, Draining
    <3>4. RecursionOK'
      BY <1>0, <2>0, <3>1, <3>2 DEF RecursionOK, Ws
    <3> QED
      BY <1>0, <2>0, <3>1, <3>2, <3>3, <3>4, RoomForReader, Numbers DEF CountOK
  <2> QED
    BY <2>1, <2>2
<1>8. CASE lock_set_recursive(t) \/ lock_clear_recursive(t)
  <2>1. UNCHANGED <<pc, held, recursion_depth, nest, read_count>> /\ pc[t] = "run"
    BY <1>8 DEF lock_set_recursive, lock_clear_recursive, Running
  <2>2. Readers' = Readers
    BY <2>1 DEF Readers
  <2>3. RecursionOK'
    <3>1. CASE lock_set_recursive(t)
      <4>1. nest = <<>> /\ recursion_depth = 0 /\ held[t] \in {"write", "upgrade"}
        BY <3>1, WriterAlone DEF lock_set_recursive
      <4> QED
        BY <1>0, <2>1, <3>1, <4>1 DEF lock_set_recursive, RecursionOK, Ws
    <3>2. CASE lock_clear_recursive(t)
      BY <1>0, <2>1, <3>2, ThreadsAssumption DEF lock_clear_recursive, RecursionOK, Ws
    <3> QED
      BY <1>8, <3>1, <3>2
  <2> QED
    BY <1>0, <2>1, <2>2, <2>3 DEF CountOK
<1> QED
  BY <1>3, <1>4, <1>5, <1>6, <1>7, <1>8 DEF Call

-----------------------------------------------------------------------------
\* A step outside the lock leaves the invariant alone.
LEMMA OthersKeep ==
    ASSUME LockInv, UNCHANGED vars \/ lock_sleepable
    PROVE  (LoopsOK /\ ClaimsOK /\ RecursionOK /\ CountOK /\ Exclusion)'
<1>1. /\ UNCHANGED <<pc, held, want_write, want_upgrade>>
      /\ UNCHANGED <<thread, recursion_depth, nest, read_count>>
  BY DEF vars, lock_sleepable
<1>2. (LoopsOK /\ ClaimsOK /\ Exclusion)'
  BY <1>1, HoldsKept DEF LockInv
<1>3. RecursionOK'
  BY <1>1 DEF LockInv, RecursionOK, Ws
<1>4. CountOK'
  BY <1>1 DEF LockInv, CountOK, Readers
<1> QED
  BY <1>2, <1>3, <1>4

\* In lock_init's state nobody holds, waits or claims.
LEMMA InitLock == Init => LockInv
<1> SUFFICES ASSUME Init PROVE LockInv
  OBVIOUS
<1>1. TypeOK
  <2>1. BitsOK
    BY DEF Init, BitsOK
  <2>2. FieldsOK
    BY CountModPositive DEF Init, FieldsOK, Loops
  <2> QED
    BY <2>1, <2>2 DEF Init, TypeOK, NestOK
<1>2. LoopsOK /\ ClaimsOK /\ Exclusion
  BY DEF Init, LoopsOK, ClaimsOK, Exclusion, Writers, Upgraders, Draining
<1>3. Readers = {} /\ Ws(nest) = {} /\ Len(nest) = 0
  BY DEF Init, Readers, Ws
<1>4. Cardinality(Readers) = 0 /\ Cardinality(Ws(nest)) = 0
  BY <1>3, FS_EmptySet
<1>5. RecursionOK
  BY <1>3, <1>4, ThreadsAssumption, BoundsAssumption DEF Init, RecursionOK
<1>6. CountOK
  BY <1>3, <1>4 DEF Init, CountOK
<1> QED
  BY <1>1, <1>2, <1>5, <1>6 DEF LockInv

\* The invariant is inductive.
LEMMA LockStep ==
    ASSUME UpdateNested = FALSE, LockInv, [Next]_vars
    PROVE  LockInv'
<1>1. TypeOK'
  BY BitsStep, FieldsStep, NestStep DEF LockInv, TypeOK
<1>2. (LoopsOK /\ ClaimsOK /\ RecursionOK /\ CountOK /\ Exclusion)'
  <2>1. CASE UNCHANGED vars \/ lock_sleepable
    BY <2>1, OthersKeep
  <2>2. ASSUME NEW t \in Threads, Wait(t)
        PROVE  (LoopsOK /\ ClaimsOK /\ RecursionOK /\ CountOK /\ Exclusion)'
    BY <2>2, LoopHolds, LoopCounts
  <2>3. ASSUME NEW t \in Threads, Call(t)
        PROVE  (LoopsOK /\ ClaimsOK /\ RecursionOK /\ CountOK /\ Exclusion)'
    BY <2>3, CallHolds, CallCounts
  <2> QED
    BY <2>1, <2>2, <2>3 DEF Next
<1> QED
  BY <1>1, <1>2 DEF LockInv

\* Every reachable state satisfies the invariant.
THEOREM Invariant == ASSUME UpdateNested = FALSE PROVE Spec => []LockInv
<1>1. LockInv /\ [Next]_vars => LockInv'
  BY LockStep
<1> QED
  BY <1>1, InitLock, PTL DEF Spec

\* Mutual exclusion: while a thread has write access, by lock_write or by an
\* upgrade, no other thread holds the lock.
THEOREM MutualExclusion == ASSUME UpdateNested = FALSE PROVE Spec => []Exclusion
<1>1. LockInv => Exclusion
  BY DEF LockInv
<1> QED
  BY <1>1, Invariant, PTL

\* read_count, recursion_depth and the two bits are exactly the holds and
\* claims of the threads: nothing leaks through lock_done's guess which kind
\* of hold it gives back.
THEOREM NothingLeaks == ASSUME UpdateNested = FALSE PROVE Spec => []CountsAgree
<1>1. ASSUME LockInv PROVE CountsAgree
  <2>1. thread = NoThread => Len(nest) = 0
    BY <1>1, Numbers DEF LockInv, RecursionOK
  <2>2. want_write = (Writers # {}) /\ want_upgrade = (Upgraders # {})
    BY <1>1 DEF LockInv, ClaimsOK, TypeOK, BitsOK
  <2>3. /\ read_count + recursion_depth = Cardinality(Readers) + Len(nest)
        /\ read_count >= Cardinality(Readers)
    BY <1>1, Numbers DEF LockInv, CountOK
  <2> QED
    BY <2>1, <2>2, <2>3 DEF CountsAgree
<1>2. LockInv => CountsAgree
  BY <1>1
<1> QED
  BY <1>2, Invariant, PTL

\* lock_set_recursive panics for no thread that took the lock with
\* lock_write or lock_try_write.
THEOREM RecursionNeverPanics ==
    ASSUME UpdateNested = FALSE, UpgradedRecurses = FALSE
    PROVE  Spec => []NoPanic
<1>1. Init => NoPanic
  BY DEF Init, NoPanic
<1>2. ASSUME LockInv, NoPanic, [Next]_vars PROVE NoPanic'
  <2> USE DEF NoPanic
  <2>1. CASE UNCHANGED vars
    BY <1>2, <2>1 DEF vars
  <2>2. CASE lock_sleepable
    BY <1>2, <2>2 DEF lock_sleepable
  <2>3. ASSUME NEW t \in Threads, Wait(t) PROVE NoPanic'
    BY <1>2, <2>3 DEF Wait, WriteWant, WriteDrain, ReadWait, UpgradeDrain
  <2>4. ASSUME NEW t \in Threads, lock_set_recursive(t) PROVE NoPanic'
    BY <1>2, <2>4, WriterAlone DEF lock_set_recursive
  <2>5. ASSUME NEW t \in Threads, Call(t), ~lock_set_recursive(t) PROVE NoPanic'
    BY <1>2, <2>5 DEF Call, lock_write, lock_read, lock_done, lock_read_to_write,
          lock_write_to_read, lock_try_write, lock_try_read, lock_try_read_to_write,
          lock_clear_recursive, NestRead, NestWrite, NestUpgrade, lockVars
  <2> QED
    BY <1>2, <2>1, <2>2, <2>3, <2>4, <2>5 DEF Next
<1>3. LockInv /\ NoPanic /\ [Next]_vars => NoPanic'
  BY <1>2
<1> QED
  BY <1>1, <1>3, Invariant, PTL DEF Spec

-----------------------------------------------------------------------------
\* No thread sleeps through the release it waits for: the condition of every
\* sleeper's loop is still false and the waiting bit makes the next release
\* call thread_wakeup.
THEOREM NoLostWakeup == ASSUME UpdateNested = FALSE PROVE Spec => []SleepersHaveCause
<1>1. Init => SleepersHaveCause
  BY DEF Init, SleepersHaveCause
<1>2. ASSUME LockInv, SleepersHaveCause, [Next]_vars PROVE SleepersHaveCause'
  <2>0. /\ asleep \in SUBSET Threads /\ want_write \in BOOLEAN /\ want_upgrade \in BOOLEAN
        /\ pc \in [Threads -> Loops \cup {"run"}]
    BY <1>2 DEF LockInv, TypeOK, FieldsOK, BitsOK
  <2>1. CASE UNCHANGED vars \/ lock_sleepable
    BY <1>2, <2>1 DEF vars, lock_sleepable, SleepersHaveCause
  <2>2. ASSUME NEW t \in Threads, Wait(t) PROVE SleepersHaveCause'
    <3>1. read_count' # read_count => read_count' # 0
      <4>1. CASE ReadWait(t) /\ read_count' = Inc(read_count)
        <5>1. t \notin Readers
          BY <1>2, <4>1 DEF ReadWait, Awake, LockInv, LoopsOK, Readers
        <5>2. Inc(read_count) = read_count + 1
          BY <1>2, <5>1, RoomForReader
        <5> QED
          BY <1>2, <4>1, <5>2, Numbers
      <4> QED
        BY <2>2, <4>1 DEF Wait, WriteWant, WriteDrain, ReadWait, UpgradeDrain
    <3>2. CASE WriteWant(t)
      BY <1>2, <2>0, <3>2 DEF WriteWant, Awake, SleepOn, ClaimWrite, SleepersHaveCause, Draining
    <3>3. CASE WriteDrain(t)
      BY <1>2, <2>0, <3>3 DEF WriteDrain, Awake, SleepOn, WriteBlocked, SleepersHaveCause, Draining
    <3>4. CASE ReadWait(t)
      BY <1>2, <2>0, <3>1, <3>4 DEF ReadWait, Awake, SleepOn, ReadBlocked, SleepersHaveCause, Draining
    <3>5. CASE UpgradeDrain(t)
      BY <1>2, <2>0, <3>5 DEF UpgradeDrain, Awake, SleepOn, SleepersHaveCause, Draining
    <3> QED
      BY <2>2, <3>2, <3>3, <3>4, <3>5 DEF Wait
  <2>3. ASSUME NEW t \in Threads, Call(t) PROVE SleepersHaveCause'
    <3>1. CASE lock_done(t) \/ lock_write_to_read(t)
      <4>1. asleep' = {}
        BY <1>2, <3>1 DEF lock_done, lock_write_to_read, WakeWaiters, SleepersHaveCause
      <4> QED
        BY <4>1 DEF SleepersHaveCause
    <3>2. CASE lock_read_to_write(t) \/ lock_try_read_to_write(t)
      <4>1. CASE WakeWaiters
        <5>1. asleep' = {}
          BY <1>2, <4>1 DEF WakeWaiters, SleepersHaveCause
        <5> QED
          BY <5>1 DEF SleepersHaveCause
      <4>2. CASE /\ ~want_upgrade /\ want_upgrade' = TRUE /\ UNCHANGED <<want_write, waiting, asleep>>
                 /\ pc[t] = "run" /\ \E l \in Draining : pc' = [pc EXCEPT ![t] = l]
        <5>1. t \notin asleep /\ \A u \in asleep : pc[u] \notin Draining
          BY <1>2, <2>0, <4>2 DEF SleepersHaveCause, LockInv, ClaimsOK, Upgraders
        <5> QED
          BY <1>2, <2>0, <4>2, <5>1 DEF SleepersHaveCause
      <4> QED
        BY <3>2, <4>1, <4>2 DEF lock_read_to_write, lock_try_read_to_write, MayUpgrade,
              Running, NestUpgrade, UpgradeTaken, Draining
    <3>3. CASE /\ lock_write(t) \/ lock_read(t) \/ lock_try_write(t) \/ lock_try_read(t)
      <4>1. read_count' # read_count => read_count' # 0
        <5>1. CASE thread = t
          BY <1>2, <3>3, <5>1, RoomForNested, Numbers DEF lock_write, lock_read, lock_try_write,
                lock_try_read, NestRead, NestWrite, MayAcquire, LockInv, RecursionOK
        <5>2. CASE thread # t /\ lock_try_read(t)
          <6>1. t \notin Readers
            BY <5>2 DEF lock_try_read, MayAcquire, Readers
          <6>2. Inc(read_count) = read_count + 1
            BY <1>2, <6>1, RoomForReader
          <6>3. read_count' = Inc(read_count)
            BY <5>2 DEF lock_try_read
          <6> QED
            BY <1>2, <6>2, <6>3, Numbers
        <5> QED
          BY <3>3, <5>1, <5>2 DEF lock_write, lock_read, lock_try_write, lockVars
      <4>2. /\ UNCHANGED <<waiting, asleep, want_upgrade>> /\ pc[t] = "run"
            /\ want_write => want_write'
            /\ \A u \in Threads \ {t} : pc'[u] = pc[u]
        BY <2>0, <3>3 DEF lock_write, lock_read, lock_try_write, lock_try_read, NestRead,
              NestWrite, MayAcquire, Running, ClaimWrite, lockVars
      <4>3. t \notin asleep
        BY <1>2, <4>2 DEF SleepersHaveCause
      <4>4. read_count # 0 => read_count' # 0
        BY <4>1
      <4>5. \A u \in asleep : pc'[u] = pc[u]
        BY <2>0, <4>2, <4>3
      <4>6. waiting' = waiting /\ asleep' = asleep /\ want_upgrade' = want_upgrade
        BY <4>2
      <4>7. want_write => want_write'
        BY <4>2
      <4> QED
        BY <1>2, <4>4, <4>5, <4>6, <4>7 DEF SleepersHaveCause
    <3>4. CASE lock_set_recursive(t) \/ lock_clear_recursive(t)
      BY <1>2, <3>4 DEF lock_set_recursive, lock_clear_recursive, SleepersHaveCause
    <3> QED
      BY <2>3, <3>1, <3>2, <3>3, <3>4 DEF Call
  <2> QED
    BY <1>2, <2>1, <2>2, <2>3 DEF Next
<1>3. LockInv /\ SleepersHaveCause /\ [Next]_vars => SleepersHaveCause'
  BY <1>2
<1> QED
  BY <1>1, <1>3, Invariant, PTL DEF Spec

-----------------------------------------------------------------------------
\* How one step may change what a thread holds.
Moves ==
    {<<"none", "read">>, <<"none", "write">>, <<"read", "upgrade">>,
     <<"write", "read">>, <<"upgrade", "read">>,
     <<"read", "none">>, <<"write", "none">>, <<"upgrade", "none">>}

\* A step changes the hold of one thread at most, and in one of these ways.
LEMMA HeldStep ==
    ASSUME UpdateNested = FALSE, LockInv, [Next]_vars
    PROVE  \/ UNCHANGED held
           \/ \E t \in Threads : \E h \in {"none", "read", "write", "upgrade"} :
                 held' = [held EXCEPT ![t] = h] /\ <<held[t], h>> \in Moves
<1> USE DEF Moves
<1>0. /\ LoopsOK /\ RecursionOK /\ thread \in Threads \cup {NoThread}
      /\ held \in [Threads -> {"none", "read", "write", "upgrade"}]
  BY DEF LockInv, TypeOK, FieldsOK
<1>1. CASE UNCHANGED vars \/ lock_sleepable
  BY <1>1 DEF vars, lock_sleepable
<1>2. ASSUME NEW t \in Threads, Wait(t)
      PROVE  \/ UNCHANGED held
             \/ \E h \in {"none", "read", "write", "upgrade"} :
                   held' = [held EXCEPT ![t] = h] /\ <<held[t], h>> \in Moves
  BY <1>0, <1>2 DEF Wait, WriteWant, WriteDrain, ReadWait, UpgradeDrain, Awake,
        Draining, LoopsOK
<1>3. ASSUME NEW t \in Threads, Call(t)
      PROVE  \/ UNCHANGED held
             \/ \E h \in {"none", "read", "write", "upgrade"} :
                   held' = [held EXCEPT ![t] = h] /\ <<held[t], h>> \in Moves
  <2>1. CASE lock_write(t) \/ lock_read(t) \/ lock_try_write(t) \/ lock_try_read(t)
    BY <1>0, <2>1 DEF lock_write, lock_read, lock_try_write, lock_try_read, NestRead,
          NestWrite, MayAcquire
  <2>2. CASE lock_done(t) \/ lock_write_to_read(t)
    BY <1>0, <2>2 DEF lock_done, lock_write_to_read, MayRelease, MayDowngrade
  <2>3. CASE lock_read_to_write(t) \/ lock_try_read_to_write(t)
    BY <1>0, <2>3 DEF lock_read_to_write, lock_try_read_to_write, MayUpgrade, NestUpgrade
  <2>4. CASE lock_set_recursive(t) \/ lock_clear_recursive(t)
    BY <2>4 DEF lock_set_recursive, lock_clear_recursive
  <2> QED
    BY <1>3, <2>1, <2>2, <2>3, <2>4 DEF Call
<1> QED
  BY <1>1, <1>2, <1>3 DEF Next

\* What the abstract lock sees of the holds.
Mode == [t \in Threads |-> IF held[t] = "upgrade" THEN "write" ELSE held[t]]

\* Every step of lock.c is a step of the abstract lock or invisible to it:
\* Exclusion after the step is the guard of the abstract one.
LEMMA AbstractStep ==
    ASSUME UpdateNested = FALSE, LockInv, [Next]_vars
    PROVE  Abs!Next \/ UNCHANGED Mode
<1>0. held \in [Threads -> {"none", "read", "write", "upgrade"}]
  BY DEF LockInv, TypeOK, FieldsOK
<1>1. CASE UNCHANGED held
  BY <1>1 DEF Mode
<1>2. ASSUME NEW t \in Threads, NEW h \in {"none", "read", "write", "upgrade"},
             held' = [held EXCEPT ![t] = h], <<held[t], h>> \in Moves
      PROVE  Abs!Next
  <2>1. Exclusion'
    BY LockStep DEF LockInv
  <2>2. /\ held'[t] = h
        /\ \A u \in Threads \ {t} : held'[u] = held[u]
    BY <1>0, <1>2
  <2>3. Mode' = [Mode EXCEPT ![t] = IF h = "upgrade" THEN "write" ELSE h]
    BY <1>0, <1>2 DEF Mode
  <2>4. /\ Mode[t] = IF held[t] = "upgrade" THEN "write" ELSE held[t]
        /\ h \in {"write", "upgrade"} => \A u \in Threads \ {t} : Mode[u] = "none"
        /\ h = "read" => \A u \in Threads \ {t} : Mode[u] # "write"
    BY <2>1, <2>2 DEF Exclusion, Mode
  <2>5. CASE held[t] = "none" /\ h = "read"
    <3>1. Abs!GrantRead(t)
      BY <2>3, <2>4, <2>5 DEF Abs!GrantRead, Abs!NoWriter, Mode
    <3> QED
      BY <3>1 DEF Abs!Next
  <2>6. CASE held[t] = "none" /\ h = "write"
    <3>1. Abs!GrantWrite(t)
      BY <2>3, <2>4, <2>6 DEF Abs!GrantWrite, Abs!Alone, Mode
    <3> QED
      BY <3>1 DEF Abs!Next
  <2>7. CASE held[t] = "read" /\ h = "upgrade"
    <3>1. Abs!Upgrade(t)
      BY <2>3, <2>4, <2>7 DEF Abs!Upgrade, Abs!Alone, Mode
    <3> QED
      BY <3>1 DEF Abs!Next
  <2>8. CASE held[t] \in {"write", "upgrade"} /\ h = "read"
    <3>1. Abs!Downgrade(t)
      BY <2>3, <2>4, <2>8 DEF Abs!Downgrade, Mode
    <3> QED
      BY <3>1 DEF Abs!Next
  <2>9. CASE held[t] # "none" /\ h = "none"
    <3>1. Abs!Release(t)
      BY <2>3, <2>4, <2>9 DEF Abs!Release, Mode
    <3> QED
      BY <3>1 DEF Abs!Next
  <2> QED
    BY <1>2, <2>5, <2>6, <2>7, <2>8, <2>9 DEF Moves
<1> QED
  BY <1>1, <1>2, HeldStep

\* lock.c implements the abstract readers/writer lock: in particular a
\* granted upgrade was never preceded by another thread's write.
THEOREM LockRefines == ASSUME UpdateNested = FALSE PROVE Spec => ImplementsAbstractLock
<1>1. Init => Abs!Init
  BY DEF Init, Abs!Init
<1>2. LockInv /\ [Next]_vars => [Abs!Next]_Mode
  BY AbstractStep
<1>3. LockInv /\ [Next]_vars =>
         [Abs!Next]_[t \in Threads |-> IF held[t] = "upgrade" THEN "write" ELSE held[t]]
  BY <1>2 DEF Mode
<1> QED
  BY <1>1, <1>3, Invariant, PTL DEF Spec, ImplementsAbstractLock, Abs!Spec
=============================================================================
