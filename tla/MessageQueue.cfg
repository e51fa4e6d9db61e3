\* One port: three threads that send and receive, limits, timeouts, port death.
CONSTANTS
    Senders = {t1, t2, t3}
    Receivers = {t1, t2, t3}
    Ports = {p1}
    Psets = {}
    Null = Null
    Options = {"none", "timeout", "poll", "always"}
    Sizes = {1}
    Qlimits = {0, 2}
    MaxCount = 2
    SeqnoMod = 3
    Multiprocessor = TRUE
    Backups = {}
SPECIFICATION Spec
SYMMETRY Symmetry
INVARIANTS
    MsgcountExact
    NoSenderStranded
