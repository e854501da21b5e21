SPECIFICATION Spec
CONSTANTS
    p1 = p1
    p2 = p2
    p3 = p3
    r1 = r1
    r2 = r2
    Local = {p1, p2, p3}
    Remote = {}
    Size = 3
    Splits = TRUE
    WaitsToDowngrade = FALSE
    MaxSleep = 2
    IOTypes = {}
    MaxChain = 4
INVARIANTS
    Exclusion
SYMMETRY Interchangeable
CHECK_DEADLOCK FALSE
