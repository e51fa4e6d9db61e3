\* Three threads; the recursive holder nests up to three further holds.
CONSTANTS
    Threads = {t1, t2, t3}
    NoThread = NoThread
    CountMod = 65536
    MaxNest = 3
    UpdateNested = FALSE
    UpgradedRecurses = FALSE
SPECIFICATION FairSpec
INVARIANTS
    Exclusion
    SleepersHaveCause
    CountsAgree
PROPERTIES
    ImplementsAbstractLock
    WriterGetsIn
    UpgradeGranted
