--------------------------- MODULE AbstractRWLock ---------------------------
(***************************************************************************)
(* What kern/lock.c promises its callers: a many-readers / one-writer lock *)
(* on which a reader may become the writer, and the writer a reader,       *)
(* without any other thread having written in between.  No counters, no    *)
(* bits, no sleeping: only who holds the lock and how.                     *)
(***************************************************************************)

CONSTANTS Threads   \* the threads that use the lock

VARIABLES mode      \* mode[t]: "none", "read" or "write"

Init == mode = [t \in Threads |-> "none"]

\* Nobody but t holds the lock at all.
Alone(t) == \A u \in Threads \ {t} : mode[u] = "none"

\* Nobody holds the lock for writing.
NoWriter == \A u \in Threads : mode[u] # "write"

GrantRead(t) ==
    /\ mode[t] = "none"
    /\ NoWriter
    /\ mode' = [mode EXCEPT ![t] = "read"]

GrantWrite(t) ==
    /\ mode[t] = "none"
    /\ Alone(t)
    /\ mode' = [mode EXCEPT ![t] = "write"]

Upgrade(t) ==
    /\ mode[t] = "read"
    /\ Alone(t)
    /\ mode' = [mode EXCEPT ![t] = "write"]

Downgrade(t) ==
    /\ mode[t] = "write"
    /\ mode' = [mode EXCEPT ![t] = "read"]

Release(t) ==
    /\ mode[t] # "none"
    /\ mode' = [mode EXCEPT ![t] = "none"]

Next ==
    \E t \in Threads :
        GrantRead(t) \/ GrantWrite(t) \/ Upgrade(t) \/ Downgrade(t) \/ Release(t)

Spec == Init /\ [][Next]_mode

=============================================================================
