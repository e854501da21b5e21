SPECIFICATION Spec
CONSTANTS
    Threads = {t1, t2}
    Chans = {c1}
    NoEvent = NoEvent
    Posters = {p1}
    Softclock = Softclock
    Catches = {TRUE}
    Timos = {FALSE}
    Signals = {"signal"}
    Suspenders = {t1, t2}
    MaxStop = 1
    Resumes = TRUE
    OffMaster = TRUE
SYMMETRY Symmetry
INVARIANTS
    StateIsConsistent
    StopWillBeTold
PROPERTIES
    StaysStopped
