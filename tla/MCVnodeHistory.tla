--------------------------- MODULE MCVnodeHistory ---------------------------
\* Small instances of VnodeHistory.
EXTENDS VnodeHistory, TLC

CONSTANTS t1, t2, v1, v2, i1, i2

Interchangeable == Permutations(Threads) \union Permutations(Vnodes) \union Permutations(Inos)
=============================================================================
