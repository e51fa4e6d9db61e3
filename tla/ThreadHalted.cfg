\* Three threads of a uniprocessor abort and terminate each other.
CONSTANTS
    Threads = {t1, t2, t3}
    Events = {e1}
    Null = Null
    Ops = {"wait", "ipc", "abort", "terminate"}
    MaxStops = 1
    Multiprocessor = FALSE
SPECIFICATION Spec
SYMMETRY Symmetry
\* Every thread may end up suspended or halted, with nobody to resume it.
CHECK_DEADLOCK FALSE
INVARIANTS
    HaltHolds
