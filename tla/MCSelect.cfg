SPECIFICATION FairSpec
CONSTANTS
    t1 = t1
    t2 = t2
    d1 = d1
    d2 = d2
    f1 = f1
    None = None
    Threads = {t1, t2}
    Fds = {d1, d2}
    Files = {f1}
    OpenMax = 2
    Calls <- SomeCalls
    HalfCloses = TRUE
INVARIANTS
    CountsAreRight
    WakeupIsNotLost
    EntriesAreOwned
PROPERTIES
    ReadyIsReported
    TimedCallEnds
