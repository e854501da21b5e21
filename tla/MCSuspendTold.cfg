SPECIFICATION PostedSpec
CONSTANTS
    Threads = {t1, t2}
    Chans = {c1}
    NoEvent = NoEvent
    Posters = {}
    Softclock = Softclock
    Catches = {TRUE, FALSE}
    Timos = {FALSE}
    Signals = {}
    Suspenders = {t1, t2}
    MaxStop = 1
    Resumes = FALSE
    OffMaster = FALSE
PROPERTIES
    SuspendReturns
CHECK_DEADLOCK FALSE
