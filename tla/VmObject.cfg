\* Two maps that share, copy and write two pages of memory while they are paged.
CONSTANTS
    m1 = m1
    m2 = m2
    x1 = x1
    x2 = x2
    S = S
    Map = {m1, m2}
    Page = {x1, x2}
    None = None
    Object = {S, o1, o2, o3}
    File = S
    Value = {0, 1}
    Zero = 0
    Max <- Bounds
    MaxCall = 6
    MaxWrite = 1
    MaxEvict = 1
    MaxAbort = 1
    Windows = {}
SPECIFICATION Spec
SYMMETRY Symmetry
CHECK_DEADLOCK FALSE
INVARIANTS
    ContentsKept
    WriterAlone
    CountsExact
    NoPanic
    BusyOwned
