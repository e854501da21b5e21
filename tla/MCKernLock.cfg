SPECIFICATION FairSpec
CONSTANTS
    Threads = {t1, t2, t3}
    NoThread = NoThread
    MaxNest = 3
INVARIANTS
    CountsAreRight
    WriterExcludesAll
    SleepersAreWoken
PROPERTIES
    ImplementsRWLock
    WaitersGetIn
