\* A uniprocessor: senders that wait without a timeout, one of them receiving
\* too, and messages too large for some receivers; fair.
CONSTANTS
    Senders = {t1, t2}
    Receivers = {t2, t3}
    Ports = {p1}
    Psets = {}
    Null = Null
    Options = {"none"}
    Sizes = {1, 2}
    Qlimits = {}
    MaxCount = 0
    SeqnoMod = 3
    Multiprocessor = FALSE
    Backups = {}
SPECIFICATION FairSpec
INVARIANTS
    NoStrangeWakeup
    NoOrphanWaiter
PROPERTY SenderReleased
