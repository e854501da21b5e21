SPECIFICATION FairSpec
CONSTANTS
    t1 = t1
    t2 = t2
    v1 = v1
    i1 = i1
    None = None
    Threads = {t1, t2}
    Vnodes = {v1}
    Inos = {i1}
    Errors = TRUE
PROPERTIES
    WaitsEnd
CHECK_DEADLOCK FALSE
