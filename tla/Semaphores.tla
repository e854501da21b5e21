---------------------------- MODULE Semaphores ----------------------------
\* System V semaphores (bsd/svipc_sem.c).  The calls are serial: they run under
\* the master lock and give it up only where they sleep, so an attempt to do
\* the operations of one semop, with the undoing of those done when it has to
\* wait, is one step; sleeping, being woken and being interrupted are others.
EXTENDS Integers, FiniteSets, SequencesExt

CONSTANTS Procs,    \* processes
          Ids,      \* identifiers of sets, as semget makes them, never used twice
          Nsems,    \* semaphores of a set
          MaxVal,   \* seminfo.semvmx
          MaxAdj,   \* seminfo.semaem
          MaxUndo,  \* seminfo.semume: undo entries of a process
          Lists     \* the lists of operations that are asked for, each with
                    \* what is added (op), SEM_UNDO (undo), IPC_NOWAIT (nowait)

ASSUME SizesAssumption ==
  Ids \subseteq Nat /\ Nsems \in Nat \ {0} /\ MaxVal \in Nat /\ MaxAdj \in Nat

VARIABLES state,   \* is a set to be made, live or removed
          sem,     \* sem[id][n]: semval, semncnt, semzcnt
          undo,    \* undo[p]: the undo entries, in the order of id and number
          pc,      \* what each process does
          call     \* the semop of a process that sleeps in it, and where

vars == <<state, sem, undo, pc, call>>

Nums     == 0 .. Nsems - 1
Counters == {"ncnt", "zcnt"}
Counts   == 0 .. Cardinality(Procs)
Sem      == [val : 0 .. MaxVal, ncnt : Counts, zcnt : Counts]
Entry    == [id : Ids, num : Nums, aoe : (-MaxAdj .. MaxAdj) \ {0}]
Call     == [id : Ids, list : Lists, num : Nums, on : Counters]

IsBefore(e, id, num) == e.id < id \/ (e.id = id /\ e.num < num)

TypeOK ==
  /\ state \in [Ids -> {"new", "live", "gone"}]
  /\ sem \in [Ids -> [Nums -> Sem]]
  /\ undo \in [Procs -> Seq(Entry)]
  /\ \A p \in Procs :
       /\ Len(undo[p]) <= MaxUndo
       /\ \A i, j \in DOMAIN undo[p] :
            i < j => IsBefore(undo[p][i], undo[p][j].id, undo[p][j].num)
       /\ IF pc[p] = "run" THEN call[p] = <<>> ELSE call[p] \in Call
  /\ pc \in [Procs -> {"run", "asleep", "woken"}]

Unset == [val |-> 0, ncnt |-> 0, zcnt |-> 0]

Init == /\ state = [id \in Ids |-> "new"]
        /\ sem = [id \in Ids |-> [n \in Nums |-> Unset]]
        /\ undo = [p \in Procs |-> <<>>]
        /\ pc = [p \in Procs |-> "run"]
        /\ call = [p \in Procs |-> <<>>]

Live(id) == state[id] = "live"

-----------------------------------------------------------------------------
\* semaoe(): what is to be done at exit for semaphore num of set id becomes
\* less by v; fails if that is out of range or there are too many entries.

Semaoe(u, v, id, num) ==
  LET at    == SelectInSeq(u, LAMBDA e : e.id = id /\ e.num = num)
      place == Cardinality({i \in DOMAIN u : IsBefore(u[i], id, num)}) + 1
      aoe   == (IF at = 0 THEN 0 ELSE u[at].aoe) - v
      ok    == /\ v \in -MaxAdj .. MaxAdj /\ aoe \in -MaxAdj .. MaxAdj
               /\ at = 0 => Len(u) < MaxUndo
  IN  [ok   |-> v = 0 \/ ok,
       undo |-> IF v = 0 \/ ~ok THEN u
                ELSE IF at = 0 THEN InsertAt(u, place, [id |-> id, num |-> num, aoe |-> aoe])
                ELSE IF aoe = 0 THEN RemoveAt(u, at)
                ELSE [u EXCEPT ![at].aoe = aoe]]

\* semunrm(): the entries of set id from low to high are removed; the walk ends
\* at the first entry whose id or number is too high.
Semunrm(u, id, low, high) ==
  LET stop == SelectInSeq(u, LAMBDA e : e.id > id \/ e.num > high)
      seen == IF stop = 0 THEN Len(u) ELSE stop - 1
  IN  SelectSeq(SubSeq(u, 1, seen), LAMBDA e : ~(e.id = id /\ e.num >= low))
        \o SubSeq(u, seen + 1, Len(u))

\* A call works on s, the semaphores of its set, and notes in wake the counters
\* whose sleepers it wakes: it wakes them, and clears the counter, when the
\* counter is not zero.
SetSem(r, n, v, c) ==
  [r EXCEPT !.s[n].val = v,
            !.s[n].ncnt = IF c = "ncnt" THEN 0 ELSE @,
            !.s[n].zcnt = IF c = "zcnt" THEN 0 ELSE @,
            !.wake = IF c \in Counters /\ r.s[n][c] > 0 THEN @ \union {<<n, c>>} ELSE @]

\* The processes asleep on the counters in wake of set id.
SleepsOn(p, id, n, c) ==
  pc[p] = "asleep" /\ call[p].id = id /\ call[p].num = n /\ call[p].on = c
Awoken(id, wake) == {p \in Procs : \E w \in wake : SleepsOn(p, id, w[1], w[2])}
Wakeup(S, was) == [p \in Procs |-> IF p \in S THEN "woken" ELSE was[p]]

-----------------------------------------------------------------------------
\* semop(): one operation after the other, as long as they can be done.

DoneForgetsZero(o, v) == IF o.op > 0 THEN "ncnt" ELSE "none"   \* mutant

Done(o, v) == IF o.op > 0 THEN "ncnt" ELSE IF o.op < 0 /\ v = 0 THEN "zcnt" ELSE "none"

Operate(r, o, id) ==
  LET v == r.s[o.num].val
      a == IF o.undo THEN Semaoe(r.undo, o.op, id, o.num) ELSE [ok |-> TRUE, undo |-> r.undo]
  IN  CASE r.status # "go" -> r
        [] r.status = "go" /\ o.op < 0 /\ v + o.op < 0 ->
             [r EXCEPT !.status = "ncnt", !.num = o.num]
        [] r.status = "go" /\ o.op = 0 /\ v # 0 ->
             [r EXCEPT !.status = "zcnt", !.num = o.num]
        [] r.status = "go" /\ (v + o.op > MaxVal \/ (v + o.op >= 0 /\ o.op # 0 /\ ~a.ok)) ->
             [r EXCEPT !.status = "error"]
        [] OTHER ->
             [SetSem(r, o.num, v + o.op, Done(o, v + o.op)) EXCEPT !.undo = a.undo, !.n = @ + 1]

\* semundo(): the operations that were done are taken back, last first.

SemundoKeepsAdjust(r, list, id) ==   \* mutant: the undo entries stay
  FoldRight(LAMBDA o, x : [x EXCEPT !.s[o.num].val = @ - o.op], SubSeq(list, 1, r.n), r)

Semundo(r, list, id) ==
  FoldRight(LAMBDA o, x :
              [x EXCEPT !.s[o.num].val = @ - o.op,
                        !.undo = IF o.undo THEN Semaoe(@, -o.op, id, o.num).undo ELSE @],
            SubSeq(list, 1, r.n), r)

Try(p, id, list) ==
  LET r0 == [s |-> sem[id], undo |-> undo[p], wake |-> {}, n |-> 0, num |-> 0,
             status |-> "go"]
      r  == FoldLeft(LAMBDA x, o : Operate(x, o, id), r0, list)
  IN  IF r.status = "go" THEN r ELSE Semundo(r, list, id)

\* A process sleeps where an operation has to wait, unless that very operation has
\* IPC_NOWAIT: this is looked at again each time the call starts anew.
Attempt(p, id, list) ==
  LET r == Try(p, id, list)
      sleeps == r.status \in Counters /\ ~list[r.n + 1].nowait
      others == Wakeup(Awoken(id, r.wake), pc)
  IN  /\ undo' = [undo EXCEPT ![p] = r.undo]
      /\ sem' = [sem EXCEPT ![id] =
                   IF ~sleeps THEN r.s
                   ELSE IF r.status = "ncnt" THEN [r.s EXCEPT ![r.num].ncnt = @ + 1]
                   ELSE [r.s EXCEPT ![r.num].zcnt = @ + 1]]
      /\ pc' = [others EXCEPT ![p] = IF sleeps THEN "asleep" ELSE "run"]
      /\ call' = [call EXCEPT ![p] =
                    IF sleeps THEN [id |-> id, list |-> list, num |-> r.num, on |-> r.status]
                    ELSE <<>>]
      /\ UNCHANGED state

SemOp(p, id, list) ==
  /\ pc[p] = "run" /\ Live(id)
  /\ Attempt(p, id, list)

\* After the sleep the call starts anew, if the set is still there.
Retry(p) ==
  /\ pc[p] = "woken"
  /\ IF Live(call[p].id) THEN Attempt(p, call[p].id, call[p].list)
     ELSE /\ pc' = [pc EXCEPT ![p] = "run"]
          /\ call' = [call EXCEPT ![p] = <<>>]
          /\ UNCHANGED <<state, sem, undo>>

\* A signal ends the sleep, also when the process has been woken, which has
\* cleared the counter already: it is counted down all the same, and when it
\* comes to zero everybody else is woken to count again.  (When the set is gone
\* the counter lies in memory that has been freed.)

InterruptedQuietly(p) ==   \* mutant: nobody is woken when the counter ends
  LET id == call[p].id
      n  == call[p].num
  IN  /\ pc[p] \in {"asleep", "woken"}
      /\ pc' = [pc EXCEPT ![p] = "run"]
      /\ sem' = IF ~Live(id) THEN sem
                ELSE IF call[p].on = "ncnt" THEN [sem EXCEPT ![id][n].ncnt = Max({@ - 1, 0})]
                ELSE [sem EXCEPT ![id][n].zcnt = Max({@ - 1, 0})]
      /\ call' = [call EXCEPT ![p] = <<>>]
      /\ UNCHANGED <<state, undo>>

Interrupted(p) ==
  LET id == call[p].id
      n  == call[p].num
      c  == call[p].on
      left == sem[id][n][c] - 1
  IN  /\ pc[p] \in {"asleep", "woken"}
      /\ pc' = [Wakeup(IF Live(id) /\ left <= 0 THEN Awoken(id, {<<n, c>>}) ELSE {}, pc)
                  EXCEPT ![p] = "run"]
      /\ sem' = IF ~Live(id) THEN sem
                ELSE IF c = "ncnt" THEN [sem EXCEPT ![id][n].ncnt = Max({left, 0})]
                ELSE [sem EXCEPT ![id][n].zcnt = Max({left, 0})]
      /\ call' = [call EXCEPT ![p] = <<>>]
      /\ UNCHANGED <<state, undo>>

-----------------------------------------------------------------------------
\* The other calls, by a process that runs.

SemGet(id) ==
  /\ state[id] = "new"
  /\ state' = [state EXCEPT ![id] = "live"]
  /\ UNCHANGED <<sem, undo, pc, call>>

ByValue(v) == IF v = 0 THEN "zcnt" ELSE "ncnt"

\* semctl SETVAL (low = high) and SETALL: v has the new values from low to high.
SetVals(id, low, high, v) ==
  LET r0 == [s |-> sem[id], wake |-> {}]
      r  == FoldLeft(LAMBDA x, n : SetSem(x, n, v[n], ByValue(v[n])), r0,
                     [i \in 1 .. high - low + 1 |-> low + i - 1])
  IN  /\ Live(id)
      /\ sem' = [sem EXCEPT ![id] = r.s]
      /\ pc' = Wakeup(Awoken(id, r.wake), pc)
      /\ undo' = [p \in Procs |-> Semunrm(undo[p], id, low, IF low = high THEN high ELSE Nsems)]
      /\ UNCHANGED <<state, call>>

\* semctl IPC_RMID.
RmId(id) ==
  LET wake == {w \in Nums \X Counters : sem[id][w[1]][w[2]] > 0}
  IN  /\ Live(id)
      /\ state' = [state EXCEPT ![id] = "gone"]
      /\ sem' = [sem EXCEPT ![id] = [n \in Nums |-> Unset]]
      /\ pc' = Wakeup(Awoken(id, wake), pc)
      /\ undo' = [p \in Procs |-> Semunrm(undo[p], id, 0, Nsems)]
      /\ UNCHANGED call

\* semexit(): r has the semaphores of all sets.
GiveBack(r, e) ==
  LET v == r.sem[e.id][e.num].val + e.aoe
      c == IF v = 0 THEN "zcnt" ELSE IF e.aoe > 0 THEN "ncnt" ELSE "none"
      x == SetSem([s |-> r.sem[e.id], wake |-> {}], e.num, v, c)
  IN  IF ~Live(e.id) \/ v \notin 0 .. MaxVal THEN r
      ELSE [sem |-> [r.sem EXCEPT ![e.id] = x.s],
            woken |-> r.woken \union Awoken(e.id, x.wake)]

SemExit(p) ==
  LET r == FoldLeft(GiveBack, [sem |-> sem, woken |-> {}], undo[p])
  IN  /\ pc[p] = "run" /\ undo[p] # <<>>
      /\ sem' = r.sem
      /\ pc' = Wakeup(r.woken, pc)
      /\ undo' = [undo EXCEPT ![p] = <<>>]
      /\ UNCHANGED <<state, call>>

Next ==
  \/ \E p \in Procs :
       \/ \E id \in Ids, list \in Lists : SemOp(p, id, list)
       \/ Retry(p) \/ Interrupted(p) \/ SemExit(p)
       \/ /\ pc[p] = "run"
          /\ \E id \in Ids :
               \/ SemGet(id) \/ RmId(id)
               \/ \E n \in Nums, v \in 0 .. MaxVal : SetVals(id, n, n, [m \in {n} |-> v])
               \/ \E v \in [Nums -> 0 .. MaxVal] : SetVals(id, 0, Nsems - 1, v)

Spec == Init /\ [][Next]_vars

-----------------------------------------------------------------------------
\* Properties

\* The counters, which decide whether anybody is woken at all, are right as far
\* as that goes: where somebody sleeps the counter is not zero, and it never
\* counts more than sleep there, whatever signals have ended sleeps late.
SleepersAreCounted ==
  \A id \in Ids, n \in Nums, c \in Counters :
     LET asleep == {p \in Procs : SleepsOn(p, id, n, c)}
     IN  /\ asleep # {} => sem[id][n][c] > 0
         /\ sem[id][n][c] <= Cardinality(asleep)

\* semncnt and semzcnt, and whatever else a set keeps.
CountsAreRight == TypeOK /\ SleepersAreCounted

\* No wakeup is lost: the operations of who sleeps cannot all be done now, though
\* it sleeps on one semaphore only and values are changed by semop, semctl, exit.
SleepersAreBlocked ==
  \A p \in Procs :
     pc[p] = "asleep" => Live(call[p].id) /\ Try(p, call[p].id, call[p].list).status # "go"

\* Calls are done as a whole or not at all, with their entries for exit, and the
\* entries are forgotten when a semaphore is set or removed.
AdjustOf(p, id, n) ==
  LET at == SelectInSeq(undo[p], LAMBDA e : e.id = id /\ e.num = n)
  IN  IF at = 0 THEN 0 ELSE undo[p][at].aoe
Abstract == INSTANCE AtomicSemaphores WITH
  live <- {id \in Ids : Live(id)},
  val  <- [id \in Ids |-> [n \in Nums |-> sem[id][n].val]],
  adj  <- [p \in Procs |-> [id \in Ids |-> [n \in Nums |-> AdjustOf(p, id, n)]]]
ImplementsAtomicSemaphores == Abstract!Spec
=============================================================================
