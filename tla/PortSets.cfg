\* Two ports and two sets: messages move between queues.
CONSTANTS
    Senders = {t1}
    Receivers = {t2}
    Ports = {p1, p2}
    Psets = {s1, s2}
    Null = Null
    Options = {"none", "always"}
    Sizes = {1}
    Qlimits = {}
    MaxCount = 2
    SeqnoMod = 3
    Multiprocessor = TRUE
    Backups = {}
SPECIFICATION Spec
SYMMETRY Symmetry
INVARIANTS
    FifoOrder
    QueuesConsistent
