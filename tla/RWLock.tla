------------------------------- MODULE RWLock -------------------------------
(***************************************************************************)
(* The multiple-readers / single-writer sleep lock of kern/lock.c.         *)
(*                                                                         *)
(* Every routine works under the lock's interlock, so one action is one    *)
(* interlock hold.  A routine that has to wait gives the interlock up,     *)
(* either to spin (lock_wait_time) or to sleep on the lock's address, and  *)
(* re-examines the lock when it has the interlock again: pc[t] says which  *)
(* loop thread t is in, and asleep which threads are blocked in            *)
(* thread_sleep.  A spin changes nothing, so it is not an action.          *)
(*                                                                         *)
(* held and nest are what the callers believe they hold; the code keeps    *)
(* only counts and bits, and the properties compare the two.  A waiting    *)
(* upgrade still counts as a read hold: its caller relies on nobody        *)
(* writing before it is granted.                                           *)
(***************************************************************************)
EXTENDS Integers, Sequences, FiniteSets

CONSTANTS
    Threads,          \* the threads that use the lock
    NoThread,         \* the "no recursive holder" value of the thread field
    CountMod,         \* read_count holds values below this (2^16 in lock.h)
    MaxNest,          \* bound on the recursive acquisitions of one holder
    UpdateNested,     \* may a recursive read be improved to a write?
    UpgradedRecurses  \* may lock_set_recursive follow an upgrade?

ASSUME ThreadsAssumption == IsFiniteSet(Threads) /\ NoThread \notin Threads
ASSUME BoundsAssumption ==
    /\ MaxNest \in Nat
    /\ CountMod \in Nat
    /\ Cardinality(Threads) + MaxNest < CountMod
ASSUME CallersAssumption == UpdateNested \in BOOLEAN /\ UpgradedRecurses \in BOOLEAN

VARIABLES
    read_count, want_upgrade, want_write, waiting, can_sleep,
    thread,           \* the recursive holder, or NoThread
    recursion_depth,
    panicked,         \* a panic() was reached
    pc,               \* pc[t]: the waiting loop t is in, or "run"
    asleep,           \* the threads blocked in thread_sleep on this lock
    held,             \* held[t]: "none", "read", "write" or "upgrade"
    nest              \* the recursive holder's further holds, oldest first

lockVars == <<read_count, want_upgrade, want_write, waiting, can_sleep,
              thread, recursion_depth, panicked>>
vars == <<read_count, want_upgrade, want_write, waiting, can_sleep, thread,
          recursion_depth, panicked, pc, asleep, held, nest>>

Loops == {"write_want", "write_drain", "read_wait", "upgrade", "try_upgrade"}
Draining == {"upgrade", "try_upgrade"}

\* read_count is a 16-bit field: it wraps.
Inc(n) == IF n = CountMod - 1 THEN 0 ELSE n + 1
Dec(n) == IF n = 0 THEN CountMod - 1 ELSE n - 1

\* Thread t is in the kernel, awake, and not in one of the waiting loops.
Running(t) == pc[t] = "run"
Awake(t, loop) == pc[t] = loop /\ t \notin asleep

\* if (l->waiting) { l->waiting = FALSE; thread_wakeup((int) l); }
WakeWaiters_One ==
    /\ waiting' = FALSE
    /\ asleep' = IF waiting THEN asleep \ {CHOOSE t \in asleep : TRUE} ELSE asleep

WakeWaiters ==
    /\ waiting' = FALSE
    /\ asleep' = IF waiting THEN {} ELSE asleep

\* if (l->can_sleep ...) { l->waiting = TRUE; thread_sleep(...); }
SleepOn(t) ==
    /\ waiting' = TRUE
    /\ asleep' = asleep \cup {t}

\* What lock_read waits for the end of, and what lock_write does once it
\* has the want_write bit.
ReadBlocked_Writer == want_write
ReadBlocked_Upgrade == want_upgrade
ReadBlocked == want_write \/ want_upgrade

WriteBlocked_Readers == read_count # 0
WriteBlocked == read_count # 0 \/ want_upgrade

ClaimWrite == want_write' = TRUE

-----------------------------------------------------------------------------
(* lock_init; the caller's choice of can_sleep is arbitrary. *)
Init ==
    /\ read_count = 0 /\ want_upgrade = FALSE /\ want_write = FALSE
    /\ waiting = FALSE /\ can_sleep \in BOOLEAN
    /\ thread = NoThread /\ recursion_depth = 0
    /\ panicked = FALSE
    /\ pc = [t \in Threads |-> "run"]
    /\ asleep = {}
    /\ held = [t \in Threads |-> "none"]
    /\ nest = <<>>

lock_sleepable ==
    /\ can_sleep' = ~can_sleep
    /\ UNCHANGED <<read_count, want_upgrade, want_write, waiting, thread,
                   recursion_depth, panicked, pc, asleep, held, nest>>

\* A caller asks for the lock when it holds nothing, or, once it is the
\* recursive holder, again and again.
MayAcquire(t) ==
    /\ Running(t)
    /\ \/ held[t] = "none"
       \/ thread = t /\ Len(nest) < MaxNest

\* A recursive holder that went back to read access no longer "has a lock
\* for write", so it takes further read locks only.
MayWrite(t) == thread = t => held[t] # "read"

\* The recursive branch of the acquiring routines.
NestRead(t) ==
    /\ read_count' = Inc(read_count)
    /\ nest' = Append(nest, "r")
    /\ UNCHANGED <<want_upgrade, want_write, waiting, can_sleep, thread,
                   recursion_depth, panicked, pc, asleep, held>>

NestWrite(t) ==
    /\ recursion_depth' = recursion_depth + 1
    /\ nest' = Append(nest, "w")
    /\ UNCHANGED <<read_count, want_upgrade, want_write, waiting, can_sleep,
                   thread, panicked, pc, asleep, held>>

\* lock_write, up to its first loop.
lock_write(t) ==
    /\ MayAcquire(t) /\ MayWrite(t)
    /\ \/ thread = t /\ NestWrite(t)
       \/ /\ thread # t
          /\ pc' = [pc EXCEPT ![t] = "write_want"]
          /\ UNCHANGED <<lockVars, asleep, held, nest>>

\* "Try to acquire the want_write bit."
WriteWant(t) ==
    /\ Awake(t, "write_want")
    /\ \/ /\ want_write /\ can_sleep
          /\ SleepOn(t)
          /\ UNCHANGED <<want_write, pc>>
       \/ /\ ~want_write
          /\ ClaimWrite
          /\ pc' = [pc EXCEPT ![t] = "write_drain"]
          /\ UNCHANGED <<waiting, asleep>>
    /\ UNCHANGED <<read_count, want_upgrade, can_sleep, thread,
                   recursion_depth, panicked, held, nest>>

\* "Wait for readers (and upgrades) to finish."
WriteDrain(t) ==
    /\ Awake(t, "write_drain")
    /\ \/ /\ WriteBlocked /\ can_sleep
          /\ SleepOn(t)
          /\ UNCHANGED <<pc, held>>
       \/ /\ ~WriteBlocked
          /\ pc' = [pc EXCEPT ![t] = "run"]
          /\ held' = [held EXCEPT ![t] = "write"]
          /\ UNCHANGED <<waiting, asleep>>
    /\ UNCHANGED <<read_count, want_upgrade, want_write, can_sleep, thread,
                   recursion_depth, panicked, nest>>

\* lock_read, up to its loop.
lock_read(t) ==
    /\ MayAcquire(t)
    /\ \/ thread = t /\ NestRead(t)
       \/ /\ thread # t
          /\ pc' = [pc EXCEPT ![t] = "read_wait"]
          /\ UNCHANGED <<lockVars, asleep, held, nest>>

ReadWait(t) ==
    /\ Awake(t, "read_wait")
    /\ \/ /\ ReadBlocked /\ can_sleep
          /\ SleepOn(t)
          /\ UNCHANGED <<read_count, pc, held>>
       \/ /\ ~ReadBlocked
          /\ read_count' = Inc(read_count)
          /\ pc' = [pc EXCEPT ![t] = "run"]
          /\ held' = [held EXCEPT ![t] = "read"]
          /\ UNCHANGED <<waiting, asleep>>
    /\ UNCHANGED <<want_upgrade, want_write, can_sleep, thread,
                   recursion_depth, panicked, nest>>

\* A caller gives back its most recent hold.  The recursive holder calls
\* lock_clear_recursive before it gives back the last one.
MayRelease(t) ==
    /\ Running(t) /\ held[t] # "none"
    /\ thread = t => nest # <<>>

DropWrite ==
    \/ /\ recursion_depth # 0
       /\ recursion_depth' = recursion_depth - 1
       /\ UNCHANGED <<want_upgrade, want_write>>
    \/ /\ recursion_depth = 0 /\ want_upgrade
       /\ want_upgrade' = FALSE
       /\ UNCHANGED <<recursion_depth, want_write>>
    \/ /\ recursion_depth = 0 /\ ~want_upgrade
       /\ want_write' = FALSE
       /\ UNCHANGED <<recursion_depth, want_upgrade>>

\* lock_done has no argument to say which: it takes back a read hold if
\* there is any.
DropHold_WriteFirst ==
    \/ want_write /\ DropWrite /\ UNCHANGED read_count
    \/ /\ ~want_write
       /\ read_count' = Dec(read_count)
       /\ UNCHANGED <<recursion_depth, want_upgrade, want_write>>

DropHold ==
    \/ /\ read_count # 0
       /\ read_count' = Dec(read_count)
       /\ UNCHANGED <<recursion_depth, want_upgrade, want_write>>
    \/ read_count = 0 /\ DropWrite /\ UNCHANGED read_count

lock_done(t) ==
    /\ MayRelease(t)
    /\ DropHold
    /\ WakeWaiters
    /\ \/ /\ thread = t
          /\ nest' = SubSeq(nest, 1, Len(nest) - 1)
          /\ UNCHANGED held
       \/ /\ thread # t
          /\ held' = [held EXCEPT ![t] = "none"]
          /\ UNCHANGED nest
    /\ UNCHANGED <<can_sleep, thread, panicked, pc>>

\* The caller's most recent hold is a read that it may improve: its only
\* hold, or (UpdateNested) the last of a writer's recursive ones.
MayUpgrade(t) ==
    /\ Running(t)
    /\ \/ thread # t /\ held[t] = "read"
       \/ /\ UpdateNested
          /\ thread = t /\ held[t] # "read"
          /\ nest # <<>> /\ nest[Len(nest)] = "r"

\* The recursive branch of lock_read_to_write and lock_try_read_to_write.
NestUpgrade(t) ==
    /\ thread = t
    /\ read_count' = Dec(read_count)
    /\ recursion_depth' = recursion_depth + 1
    /\ nest' = [nest EXCEPT ![Len(nest)] = "w"]
    /\ UNCHANGED <<want_upgrade, want_write, waiting, can_sleep, thread,
                   panicked, pc, asleep, held>>

\* Another reader's upgrade came first.
UpgradeTaken_Unseen == FALSE
UpgradeTaken == want_upgrade

\* lock_read_to_write: the read lock is given up whatever happens next.
lock_read_to_write(t) ==
    /\ MayUpgrade(t)
    /\ \/ NestUpgrade(t)
       \/ /\ thread # t
          /\ read_count' = Dec(read_count)
          /\ \/ /\ UpgradeTaken
                /\ WakeWaiters
                /\ held' = [held EXCEPT ![t] = "none"]
                /\ UNCHANGED <<want_upgrade, pc>>
             \/ /\ ~UpgradeTaken
                /\ want_upgrade' = TRUE
                /\ pc' = [pc EXCEPT ![t] = "upgrade"]
                /\ UNCHANGED <<waiting, asleep, held>>
          /\ UNCHANGED <<want_write, can_sleep, thread, recursion_depth,
                         panicked, nest>>

\* Wait for the remaining readers; lock_try_read_to_write sleeps here
\* whatever can_sleep says.
UpgradeDrain(t) ==
    /\ \E loop \in Draining : Awake(t, loop)
    /\ \/ /\ read_count # 0
          /\ can_sleep \/ pc[t] = "try_upgrade"
          /\ SleepOn(t)
          /\ UNCHANGED <<pc, held>>
       \/ /\ read_count = 0
          /\ pc' = [pc EXCEPT ![t] = "run"]
          /\ held' = [held EXCEPT ![t] = "upgrade"]
          /\ UNCHANGED <<waiting, asleep>>
    /\ UNCHANGED <<read_count, want_upgrade, want_write, can_sleep, thread,
                   recursion_depth, panicked, nest>>

\* The writer becomes a reader; a recursive one turns its last write hold.
MayDowngrade(t) ==
    /\ Running(t)
    /\ held[t] \in {"write", "upgrade"}
    /\ thread = t /\ nest # <<>> => nest[Len(nest)] = "w"

lock_write_to_read(t) ==
    /\ MayDowngrade(t)
    /\ read_count' = Inc(read_count)
    /\ DropWrite
    /\ WakeWaiters
    /\ \/ /\ thread = t /\ nest # <<>>
          /\ nest' = [nest EXCEPT ![Len(nest)] = "r"]
          /\ UNCHANGED held
       \/ /\ thread # t \/ nest = <<>>
          /\ held' = [held EXCEPT ![t] = "read"]
          /\ UNCHANGED nest
    /\ UNCHANGED <<can_sleep, thread, panicked, pc>>

\* The lock_try routines: a refusal changes nothing.
lock_try_write(t) ==
    /\ MayAcquire(t) /\ MayWrite(t)
    /\ \/ thread = t /\ NestWrite(t)
       \/ /\ thread # t
          /\ ~want_write /\ ~want_upgrade /\ read_count = 0
          /\ ClaimWrite
          /\ held' = [held EXCEPT ![t] = "write"]
          /\ UNCHANGED <<read_count, want_upgrade, waiting, can_sleep, thread,
                         recursion_depth, panicked, pc, asleep, nest>>

lock_try_read(t) ==
    /\ MayAcquire(t)
    /\ \/ thread = t /\ NestRead(t)
       \/ /\ thread # t
          /\ ~ReadBlocked
          /\ read_count' = Inc(read_count)
          /\ held' = [held EXCEPT ![t] = "read"]
          /\ UNCHANGED <<want_upgrade, want_write, waiting, can_sleep, thread,
                         recursion_depth, panicked, pc, asleep, nest>>

lock_try_read_to_write(t) ==
    /\ MayUpgrade(t)
    /\ \/ NestUpgrade(t)
       \/ /\ thread # t
          /\ ~UpgradeTaken
          /\ want_upgrade' = TRUE
          /\ read_count' = Dec(read_count)
          /\ pc' = [pc EXCEPT ![t] = "try_upgrade"]
          /\ UNCHANGED <<want_write, waiting, can_sleep, thread,
                         recursion_depth, panicked, asleep, held, nest>>

\* "Allow a process that has a lock for write to acquire it recursively":
\* it panics unless the want_write bit is on.
lock_set_recursive(t) ==
    /\ Running(t) /\ thread # t
    /\ held[t] = "write" \/ (UpgradedRecurses /\ held[t] = "upgrade")
    /\ \/ want_write /\ thread' = t /\ UNCHANGED panicked
       \/ ~want_write /\ panicked' = TRUE /\ UNCHANGED thread
    /\ UNCHANGED <<read_count, want_upgrade, want_write, waiting, can_sleep,
                   recursion_depth, pc, asleep, held, nest>>

\* Called by the recursive holder, once it is back to its first hold.
lock_clear_recursive(t) ==
    /\ Running(t) /\ thread = t /\ nest = <<>>
    /\ thread' = IF recursion_depth = 0 THEN NoThread ELSE thread
    /\ UNCHANGED <<read_count, want_upgrade, want_write, waiting, can_sleep,
                   recursion_depth, panicked, pc, asleep, held, nest>>

\* The steps of t inside the waiting loops.
Wait(t) == WriteWant(t) \/ WriteDrain(t) \/ ReadWait(t) \/ UpgradeDrain(t)

Call(t) ==
    \/ lock_write(t) \/ lock_read(t) \/ lock_done(t)
    \/ lock_read_to_write(t) \/ lock_write_to_read(t)
    \/ lock_try_write(t) \/ lock_try_read(t) \/ lock_try_read_to_write(t)
    \/ lock_set_recursive(t) \/ lock_clear_recursive(t)

Next ==
    /\ ~panicked
    /\ lock_sleepable \/ \E t \in Threads : Wait(t) \/ Call(t)

Spec == Init /\ [][Next]_vars

-----------------------------------------------------------------------------
(* Fairness: a thread in a waiting loop keeps re-examining the lock once   *)
(* it is awake, and every critical section ends: a holder eventually makes *)
(* the lock_done that gives its first hold back, whatever it does before,  *)
(* and the recursive one gives its further holds back and clears recursion.*)
LastRelease(t) == lock_done(t) /\ thread # t
NestedRelease(n) == \E t \in Threads : thread = t /\ Len(nest) = n /\ lock_done(t)

FairSpec ==
    /\ Spec
    /\ \A t \in Threads :
          /\ WF_vars(Wait(t))
          /\ WF_vars(lock_done(t))
          /\ SF_vars(LastRelease(t))
    /\ \A n \in 1 .. MaxNest : SF_vars(NestedRelease(n))
    /\ SF_vars(\E t \in Threads : lock_clear_recursive(t))

-----------------------------------------------------------------------------
BitsOK ==
    /\ want_upgrade \in BOOLEAN /\ want_write \in BOOLEAN
    /\ waiting \in BOOLEAN /\ can_sleep \in BOOLEAN
    /\ panicked \in BOOLEAN

FieldsOK ==
    /\ read_count \in 0 .. CountMod - 1
    /\ thread \in Threads \cup {NoThread}
    /\ recursion_depth \in Nat
    /\ pc \in [Threads -> Loops \cup {"run"}]
    /\ asleep \in SUBSET Threads
    /\ held \in [Threads -> {"none", "read", "write", "upgrade"}]

NestOK == nest \in Seq({"r", "w"})

(* The state kept by the lock, and what its callers believe, has its type. *)
TypeOK == BitsOK /\ FieldsOK /\ NestOK

\* The threads whose read hold is counted in read_count: a waiting upgrade
\* has already taken its own out.
Readers == {t \in Threads : held[t] = "read" /\ pc[t] \notin Draining}

\* The threads that want_write, or want_upgrade, stands for.
Writers == {t \in Threads : held[t] = "write" \/ pc[t] = "write_drain"}
Upgraders == {t \in Threads : held[t] = "upgrade" \/ pc[t] \in Draining}

(* Mutual exclusion (lock.c: "Provide reader/writer sychronization"): while *)
(* a thread has write access no other thread holds the lock in any way, not *)
(* even as a reader whose lock_read_to_write is waiting.                    *)
Exclusion ==
    \A t \in Threads :
        held[t] \in {"write", "upgrade"} =>
            \A u \in Threads \ {t} : held[u] = "none"

(* No lost wakeup: a thread sleeps on the lock only while the condition its *)
(* loop waits for is still false and the waiting bit is on, so the release  *)
(* that makes the condition true is bound to call thread_wakeup.            *)
SleepersHaveCause ==
    \A t \in asleep :
        /\ waiting
        /\ pc[t] = "write_want"  => want_write
        /\ pc[t] = "write_drain" => read_count # 0 \/ want_upgrade
        /\ pc[t] = "read_wait"   => want_write \/ want_upgrade
        /\ pc[t] \in Draining    => read_count # 0
        /\ pc[t] # "run"

(* Nothing leaks: the counts and bits are exactly the holds and claims of   *)
(* the threads, so once every thread has given back what it took, in any    *)
(* order of recursive reads and writes, the lock is free again.             *)
CountsAgree ==
    LET nested == IF thread = NoThread THEN 0 ELSE Len(nest)
    IN  /\ read_count + recursion_depth = Cardinality(Readers) + nested
        /\ read_count >= Cardinality(Readers)
        /\ want_write = (Writers # {})
        /\ want_upgrade = (Upgraders # {})

(* lock_set_recursive's panic ("don't have write lock") is never reached by *)
(* a thread that has the lock for write.                                    *)
NoPanic == ~panicked

(* The lock implements the abstract readers/writer lock; "upgrade" is how   *)
(* the code remembers a write hold that began as a read hold.               *)
Abs == INSTANCE AbstractRWLock WITH
    mode <- [t \in Threads |-> IF held[t] = "upgrade" THEN "write" ELSE held[t]]

ImplementsAbstractLock == Abs!Spec

(* lock.c: "Writers hold the interlock (thus preventing further readers),   *)
(* and wait for already-accepted readers to go away."  A writer that has    *)
(* the want_write bit gets the lock, whatever readers keep arriving.        *)
WriterGetsIn ==
    \A t \in Threads : pc[t] = "write_drain" ~> held[t] = "write"

(* An upgrade that was accepted is granted: neither readers that arrive     *)
(* later nor a waiting writer can overtake it for ever.                     *)
UpgradeGranted ==
    \A t \in Threads : pc[t] \in Draining ~> held[t] = "upgrade"

=============================================================================
