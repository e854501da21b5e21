---------------------------- MODULE MCSchedPrim ----------------------------
(* Instances of SchedPrim for TLC.  The threads are interchangeable where   *)
(* all or none of them may suspend others, and so are the posters.          *)
EXTENDS SchedPrim, TLC

Symmetry == Permutations(Threads) \union Permutations(Posters)
=============================================================================
