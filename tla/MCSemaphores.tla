--------------------------- MODULE MCSemaphores ---------------------------
\* Small instances of Semaphores.
EXTENDS Semaphores, TLC

CONSTANTS p1, p2, p3

O(n, k, u) == [num |-> n, op |-> k, undo |-> u, nowait |-> FALSE]
N(n, k, u) == [O(n, k, u) EXCEPT !.nowait = TRUE]

\* A lock taken with SEM_UNDO, its release, two locks taken in both orders, in one of
\* them also without waiting for the second, and a wait for zero after another
\* operation.
SomeLists == { <<O(0, -1, TRUE)>>, <<O(0, 1, FALSE)>>,
               <<O(0, -1, TRUE), O(1, -1, TRUE)>>, <<O(0, -1, TRUE), N(1, -1, TRUE)>>,
               <<O(1, -1, FALSE), O(0, -1, FALSE)>>,
               <<O(1, 1, TRUE), O(0, 0, FALSE)>> }

Interchangeable == Permutations(Procs)
=============================================================================
