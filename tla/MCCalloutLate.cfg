SPECIFICATION Spec
CONSTANTS
    r1 = r1
    a1 = a1
    NoCall = NoCall
    Calls = {r1, a1}
    Absolute = {a1}
    Cancelled = {r1}
    Times = {0, 2, 3}
    Shifts <- SetEitherWay
    NCallout = 3
    MaxLate = 2
    MaxLeft = 4
INVARIANTS
    DueComeFirst
