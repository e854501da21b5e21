SPECIFICATION Spec
CONSTANTS
    Threads = {t1, t2}
    Interrupts = {i1}
    Bufs = {f1, f2}
    Blocks = {b1, b2}
    Values = {v1, v2}
    Flushers = {t1, t2}
    Invalidators = {t1, t2}
    Failures = {"read", "write"}
    NoBlock = NoBlock
    NoBuf = NoBuf
    Nobody = Nobody
    Driver = Driver
    Junk = Junk
SYMMETRY Symmetry
INVARIANTS
    ListsAreRight
    OneBufferPerBlock
    TransfersAreExclusive
    ReadersHaveTheBlock
PROPERTIES
    ImplementsBlockStore
CHECK_DEADLOCK FALSE
