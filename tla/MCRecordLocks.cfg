\* A circle of waits can make deadflck loop with the locks held: the system
\* may really stop.
SPECIFICATION Spec
CONSTANTS
    p1 = p1
    p2 = p2
    p3 = p3
    r1 = r1
    r2 = r2
    Local = {p1}
    Remote = {r1, r2}
    Size = 2
    Splits = FALSE
    WaitsToDowngrade = FALSE
    MaxSleep = 2
    IOTypes = {"read"}
    MaxChain = 4
INVARIANTS
    ChainIsRight
    BlockersAreKnown
    SleepersAreTold
PROPERTIES
    ImplementsByteLocks
SYMMETRY Interchangeable
CHECK_DEADLOCK FALSE
