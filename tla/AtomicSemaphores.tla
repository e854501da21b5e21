------------------------- MODULE AtomicSemaphores -------------------------
\* What sets of semaphores promise: the operations of one call are done all
\* together, when all can be done one after the other, or not at all; and a
\* process that exits gives back what it did with SEM_UNDO since the semaphore
\* was last set.
EXTENDS Integers, Sequences, FiniteSetsExt

CONSTANTS Procs, Ids, Nums,   \* processes, sets, numbers of semaphores
          MaxVal,             \* semvmx
          Lists               \* the lists of operations

VARIABLES live,   \* the sets that exist
          val,    \* val[id][n]
          adj     \* adj[p][id][n]: the adjust-on-exit value

vars == <<live, val, adj>>

TypeOK == /\ live \subseteq Ids
          /\ val \in [Ids -> [Nums -> 0 .. MaxVal]]
          /\ adj \in [Procs -> [Ids -> [Nums -> Int]]]

Zero == [n \in Nums |-> 0]

Init == /\ live = {}
        /\ val = [id \in Ids |-> Zero]
        /\ adj = [p \in Procs |-> [id \in Ids |-> Zero]]

Create(id) == /\ live' = live \union {id}
              /\ UNCHANGED <<val, adj>>

\* The sum of the first k operations of list on semaphore n; only those that
\* are to be undone, if undo.
Sum(list, k, n, undo) ==
  MapThenSumSet(LAMBDA j : list[j].op,
                {j \in 1 .. k : list[j].num = n /\ (undo => list[j].undo)})

Possible(list, v) ==
  \A i \in DOMAIN list :
     LET before == v[list[i].num] + Sum(list, i - 1, list[i].num, FALSE)
         op     == list[i].op
     IN  IF op = 0 THEN before = 0 ELSE before + op \in 0 .. MaxVal

SemOp(p, id, list) ==
  /\ id \in live /\ Possible(list, val[id])
  /\ val' = [val EXCEPT ![id] = [n \in Nums |-> @[n] + Sum(list, Len(list), n, FALSE)]]
  /\ adj' = [adj EXCEPT ![p][id] = [n \in Nums |-> @[n] - Sum(list, Len(list), n, TRUE)]]
  /\ UNCHANGED live

Forget(id, S) ==
  adj' = [p \in Procs |-> [adj[p] EXCEPT ![id] = [n \in Nums |-> IF n \in S THEN 0 ELSE @[n]]]]

\* SETVAL and SETALL, for the semaphores in S.
Set(id, S) ==
  /\ id \in live
  /\ \E v \in [Nums -> 0 .. MaxVal] :
       /\ \A n \in Nums \ S : v[n] = val[id][n]
       /\ val' = [val EXCEPT ![id] = v]
  /\ Forget(id, S)
  /\ UNCHANGED live

Remove(id) ==
  /\ id \in live
  /\ live' = live \ {id}
  /\ val' = [val EXCEPT ![id] = Zero]
  /\ Forget(id, Nums)

\* An adjustment that would leave the range of values is not made.
Exit(p) ==
  /\ val' = [id \in Ids |-> [n \in Nums |->
               LET v == val[id][n] + adj[p][id][n]
               IN  IF id \in live /\ v \in 0 .. MaxVal THEN v ELSE val[id][n]]]
  /\ adj' = [adj EXCEPT ![p] = [id \in Ids |-> Zero]]
  /\ UNCHANGED live

Next ==
  \/ \E id \in Ids : \/ Create(id) \/ Remove(id)
                     \/ \E S \in SUBSET Nums : Set(id, S)
                     \/ \E p \in Procs, list \in Lists : SemOp(p, id, list)
  \/ \E p \in Procs : Exit(p)

Spec == Init /\ [][Next]_vars
=============================================================================
