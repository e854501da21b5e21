\* Who is asleep may be in a circle, and deadflck may then never end.
SPECIFICATION Spec
CONSTANTS
    p1 = p1
    p2 = p2
    p3 = p3
    r1 = r1
    r2 = r2
    Local = {p1, p2, p3}
    Remote = {}
    Size = 2
    Splits = FALSE
    WaitsToDowngrade = FALSE
    MaxSleep = 2
    IOTypes = {}
    MaxChain = 4
INVARIANTS
    NoTwoWaitForEachOther
SYMMETRY Interchangeable
CHECK_DEADLOCK FALSE
