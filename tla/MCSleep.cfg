SPECIFICATION FairSpec
CONSTANTS
    Threads = {t1}
    Chans = {c1, c2}
    NoEvent = NoEvent
    Posters = {p1}
    Softclock = Softclock
    Catches = {TRUE, FALSE}
    Timos = {TRUE, FALSE}
    Signals = {"signal", "kill"}
    Suspenders = {}
    MaxStop = 0
    Resumes = FALSE
    OffMaster = FALSE
INVARIANTS
    SignalIsNotMissed
    TimeoutIsNotLost
    CalloutsAreBounded
PROPERTIES
    SleepsEnd
