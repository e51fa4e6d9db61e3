\* Three checks at once on three ports.
CONSTANTS
    Threads = {t1, t2, t3}
    Ports = {p1, p2, p3}
    Null = Null
    Other = Other
    Free = Free
SPECIFICATION Spec
SYMMETRY Symmetry
CHECK_DEADLOCK FALSE
INVARIANTS
    NoCircle
    NoDeadlock
    NoLockLeaked
    AssertionsHold
PROPERTY RefusedForCause
