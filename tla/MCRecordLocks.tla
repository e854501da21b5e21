--------------------------- MODULE MCRecordLocks ---------------------------
\* Small instances of RecordLocks.
EXTENDS RecordLocks, TLC

CONSTANTS p1, p2, p3, r1, r2

Interchangeable == Permutations(Local) \union Permutations(Remote)
=============================================================================
