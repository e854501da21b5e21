SPECIFICATION HSpec
CONSTANTS
    t1 = t1
    t2 = t2
    v1 = v1
    v2 = v2
    i1 = i1
    i2 = i2
    None = None
    Threads = {t1, t2}
    Vnodes = {v1}
    Inos = {i1, i2}
    Errors = TRUE
INVARIANTS
    HeldUntilTaken
    NameUntilTaken
SYMMETRY Interchangeable
CHECK_DEADLOCK FALSE
