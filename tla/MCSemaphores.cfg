SPECIFICATION Spec
CONSTANTS
    p1 = p1
    p2 = p2
    p3 = p3
    Procs = {p1, p2, p3}
    Ids = {0}
    Nsems = 2
    MaxVal = 1
    MaxAdj = 1
    MaxUndo = 2
    Lists <- SomeLists
INVARIANTS
    CountsAreRight
    SleepersAreBlocked
PROPERTIES
    ImplementsAtomicSemaphores
SYMMETRY Interchangeable
CHECK_DEADLOCK FALSE
