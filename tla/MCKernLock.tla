----------------------------- MODULE MCKernLock -----------------------------
(* Instances of KernLock for TLC: the threads are interchangeable.          *)
EXTENDS KernLock, TLC

Symmetry == Permutations(Threads)
=============================================================================
