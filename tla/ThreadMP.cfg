\* Three threads on several processors stop each other to read registers.
CONSTANTS
    Threads = {t1, t2, t3}
    Events = {e1}
    Null = Null
    Ops = {"wait", "suspend", "get_state"}
    MaxStops = 1
    Multiprocessor = TRUE
SPECIFICATION Spec
SYMMETRY Symmetry
\* Every thread may end up suspended or halted, with nobody to resume it.
CHECK_DEADLOCK FALSE
INVARIANTS
    StoppedWhileRead
    StopNoticed
