---------------------------- MODULE MCBufCache -----------------------------
(* Model checking of BufCache: threads, buffers and blocks are alike. *)
EXTENDS BufCache, TLC

Symmetry == Permutations(Threads) \union Permutations(Bufs) \union Permutations(Blocks)
            \union Permutations(Values)
=============================================================================
