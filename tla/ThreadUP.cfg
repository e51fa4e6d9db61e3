\* Two threads of a uniprocessor make every call on each other.
CONSTANTS
    Threads = {t1, t2}
    Events = {e1}
    Null = Null
    Ops = {"wait", "ipc", "timeout", "suspend", "resume", "get_state", "abort", "terminate"}
    MaxStops = 1
    Multiprocessor = FALSE
SPECIFICATION Spec
SYMMETRY Symmetry
\* Every thread may end up suspended or halted, with nobody to resume it.
CHECK_DEADLOCK FALSE
INVARIANTS
    NoThreadLost
    WaitersWait
    NoPanic
PROPERTIES
    NoStaleTimeout
