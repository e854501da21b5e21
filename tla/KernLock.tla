------------------------------ MODULE KernLock ------------------------------
(***************************************************************************)
(* The kernel's blocking read/write lock, kern/lock.c: one struct lock and *)
(* the threads that use it.                                                *)
(*                                                                         *)
(* Every routine holds the lock's interlock from its first test to its     *)
(* last assignment, except where it sleeps (thread_sleep enqueues the      *)
(* thread and only then drops the interlock) or spins, so one action is    *)
(* one critical section: a call up to its return or to its wait, or one    *)
(* more turn of a wait loop.  A thread that finds the lock busy may spin   *)
(* for a while (lock_wait_time) before it sleeps and only spins when the   *)
(* lock may not sleep: either way it has changed nothing yet, so spinning  *)
(* is staying where it is.                                                 *)
(*                                                                         *)
(* The callers' side of the contract is in the guards: a thread does not   *)
(* lock again what it has not made recursive, only the thread that took    *)
(* the lock with lock_write or lock_try_write makes it recursive           *)
(* (vm_map_create_entry, uipc_proto.c, kern_mman.c ...), and it makes it   *)
(* non-recursive before it gives up its first hold.                        *)
(***************************************************************************)
EXTENDS Integers, FiniteSets

CONSTANTS
    Threads,    \* the threads that use the lock
    MaxNest,    \* bound on the recursive holds of a recursive lock's owner
    NoThread    \* (char *)-1 in l->thread

ASSUME ThreadsFinite == IsFiniteSet(Threads)
ASSUME NoThreadAssumption == NoThread \notin Threads
ASSUME MaxNestAssumption == MaxNest \in Nat

VARIABLES
    want_write,         \* writer is waiting, or locked for write
    want_upgrade,       \* read-to-write upgrade waiting, or locked for write
    read_count,         \* number of accepted readers
    waiting,            \* someone is sleeping on lock
    can_sleep,          \* can attempts to lock go to sleep
    thread,             \* thread that has lock, if recursive locking allowed
    recursion_depth,    \* depth of recursion
    asleep,             \* threads in thread_sleep on the address of the lock
    at,                 \* at[t]: where thread t is, see Places
    nested_reads,       \* the owner's recursive holds as the owner counts
    nested_writes       \* them: those it took, or changed, to each mode

fields == <<want_write, want_upgrade, read_count, waiting>>
owner == <<thread, recursion_depth, nested_reads, nested_writes>>
vars == <<want_write, want_upgrade, read_count, waiting, can_sleep, thread,
          recursion_depth, asleep, at, nested_reads, nested_writes>>

\* Where a thread is: in no hold and no call; in one of lock.c's wait loops;
\* or holding the lock, as a writer by want_write or by want_upgrade.
Places == {"idle",
           "lock_write",        \* first loop, waits for want_write
           "drain",             \* second loop, has want_write
           "lock_read",
           "read_to_write",
           "try_read_to_write",
           "reading", "writing", "upgraded"}

Upgrading == {"read_to_write", "try_read_to_write"}
Waits == {"lock_write", "drain", "lock_read"} \union Upgrading
Writes == {"writing", "upgraded"}
WriteBit == {"drain", "writing"}                \* those want_write stands for
UpgradeBit == Upgrading \union {"upgraded"}      \* those want_upgrade stands for

TypeOK ==
    /\ want_write \in BOOLEAN /\ want_upgrade \in BOOLEAN
    /\ waiting \in BOOLEAN /\ can_sleep \in BOOLEAN
    /\ read_count \in Nat /\ recursion_depth \in Nat
    /\ nested_reads \in Nat /\ nested_writes \in Nat
    /\ thread \in Threads \union {NoThread}
    /\ asleep \subseteq Threads
    /\ at \in [Threads -> Places]

Init ==
    /\ want_write = FALSE /\ want_upgrade = FALSE
    /\ read_count = 0 /\ waiting = FALSE
    /\ can_sleep \in BOOLEAN
    /\ thread = NoThread /\ recursion_depth = 0
    /\ asleep = {}
    /\ at = [t \in Threads |-> "idle"]
    /\ nested_reads = 0 /\ nested_writes = 0

Goto(t, place) == at' = [at EXCEPT ![t] = place]

\* Mutant: thread_wakeup_one in place of thread_wakeup.
WakeOneWaiter ==
    /\ waiting' = FALSE
    /\ IF waiting /\ asleep # {}
       THEN \E t \in asleep : asleep' = asleep \ {t}
       ELSE UNCHANGED asleep

\* if (l->waiting) { l->waiting = FALSE; thread_wakeup(l); }
WakeWaiters ==
    /\ waiting' = FALSE
    /\ asleep' = IF waiting THEN {} ELSE asleep

\* Mutant: the second loop of lock_write forgets the upgrades.
BlockedByReadersOnly(place) ==
    \/ place = "lock_write" /\ want_write
    \/ place = "lock_read" /\ (want_write \/ want_upgrade)
    \/ place \in {"drain"} \union Upgrading /\ read_count # 0

\* What a thread in each wait loop is waiting for to become false.
Blocked(place) ==
    \/ place = "lock_write" /\ want_write
    \/ place = "drain" /\ (read_count # 0 \/ want_upgrade)
    \/ place = "lock_read" /\ (want_write \/ want_upgrade)
    \/ place \in Upgrading /\ read_count # 0

Running(t, place) == at[t] = place /\ t \notin asleep

\* Every loop sleeps only when the lock may sleep, but for the one in
\* lock_try_read_to_write.
Sleep(t) ==
    /\ at[t] \in Waits /\ t \notin asleep
    /\ Blocked(at[t])
    /\ can_sleep \/ at[t] = "try_read_to_write"
    /\ waiting' = TRUE
    /\ asleep' = asleep \union {t}
    /\ UNCHANGED <<want_write, want_upgrade, read_count, can_sleep, at, owner>>

\* clear_wait(t, THREAD_SHOULD_TERMINATE, FALSE) of a SIGKILL ends even an
\* uninterruptible sleep: the loop tests again.
ClearWait(t) ==
    /\ t \in asleep
    /\ asleep' = asleep \ {t}
    /\ UNCHANGED <<fields, can_sleep, at, owner>>

------------------------------------------------------------------------------
(* Requests *)

MayNest(t) ==
    /\ at[t] = "writing" /\ thread = t
    /\ nested_reads + nested_writes < MaxNest

\* lock_write and lock_try_write by the thread that owns the lock recursively.
LockWriteRecursive(t) ==
    /\ MayNest(t)
    /\ recursion_depth' = recursion_depth + 1
    /\ nested_writes' = nested_writes + 1
    /\ UNCHANGED <<fields, can_sleep, thread, asleep, at, nested_reads>>

\* Mutant: lock_write looks for readers but not for an upgrade.
TakeWantWriteDuringUpgrade(t) ==
    /\ ~want_write
    /\ want_write' = TRUE
    /\ Goto(t, IF read_count # 0 THEN "drain" ELSE "writing")
    /\ UNCHANGED <<want_upgrade, read_count, waiting, can_sleep, asleep, owner>>

\* Take the want_write bit, and the lock with it unless there are readers or
\* an upgrade to wait for.
TakeWantWrite(t) ==
    /\ ~want_write
    /\ want_write' = TRUE
    /\ Goto(t, IF read_count # 0 \/ want_upgrade THEN "drain" ELSE "writing")
    /\ UNCHANGED <<want_upgrade, read_count, waiting, can_sleep, asleep, owner>>

LockWrite(t) ==
    /\ at[t] = "idle"
    /\ \/ TakeWantWrite(t)
       \/ /\ want_write
          /\ Goto(t, "lock_write")
          /\ UNCHANGED <<fields, can_sleep, asleep, owner>>

LockWriteAgain(t) == Running(t, "lock_write") /\ TakeWantWrite(t)

LockWriteDrained(t) ==
    /\ Running(t, "drain")
    /\ ~Blocked("drain")
    /\ Goto(t, "writing")
    /\ UNCHANGED <<fields, can_sleep, asleep, owner>>

\* A call that fails (returns FALSE) changes nothing.
LockTryWrite(t) ==
    /\ at[t] = "idle"
    /\ ~want_write /\ ~want_upgrade /\ read_count = 0
    /\ want_write' = TRUE
    /\ Goto(t, "writing")
    /\ UNCHANGED <<want_upgrade, read_count, waiting, can_sleep, asleep, owner>>

\* lock_read and lock_try_read by the thread that owns the lock recursively.
LockReadRecursive(t) ==
    /\ MayNest(t)
    /\ read_count' = read_count + 1
    /\ nested_reads' = nested_reads + 1
    /\ UNCHANGED <<want_write, want_upgrade, waiting, can_sleep, asleep, at,
                   thread, recursion_depth, nested_writes>>

\* Mutant: readers join readers, although a writer is waiting.
AcceptReaderFirst(t) ==
    /\ ~(want_write /\ read_count = 0) /\ ~want_upgrade
    /\ read_count' = read_count + 1
    /\ Goto(t, "reading")
    /\ UNCHANGED <<want_write, want_upgrade, waiting, can_sleep, asleep, owner>>

AcceptReader(t) ==
    /\ ~want_write /\ ~want_upgrade
    /\ read_count' = read_count + 1
    /\ Goto(t, "reading")
    /\ UNCHANGED <<want_write, want_upgrade, waiting, can_sleep, asleep, owner>>

LockRead(t) ==
    /\ at[t] = "idle"
    /\ \/ AcceptReader(t)
       \/ /\ want_write \/ want_upgrade
          /\ Goto(t, "lock_read")
          /\ UNCHANGED <<fields, can_sleep, asleep, owner>>

LockReadAgain(t) == Running(t, "lock_read") /\ AcceptReader(t)

\* A call that fails changes nothing.
LockTryRead(t) == at[t] = "idle" /\ AcceptReader(t)

------------------------------------------------------------------------------
(* Upgrades and downgrades *)

\* The two upgrade routines by the recursive owner, which turns one of its
\* read holds into a write hold.  With read_count = 0 both panic.
UpgradeRecursive(t) ==
    /\ thread = t /\ nested_reads > 0
    /\ read_count # 0
    /\ read_count' = read_count - 1
    /\ recursion_depth' = recursion_depth + 1
    /\ nested_reads' = nested_reads - 1
    /\ nested_writes' = nested_writes + 1
    /\ UNCHANGED <<want_write, want_upgrade, waiting, can_sleep, thread,
                   asleep, at>>

\* The part the two routines share: claim the upgrade, give up the read hold
\* and wait in the routine's own loop if other readers are left.
ClaimUpgrade(t, place) ==
    /\ ~want_upgrade
    /\ want_upgrade' = TRUE
    /\ read_count' = read_count - 1
    /\ Goto(t, IF read_count = 1 THEN "upgraded" ELSE place)
    /\ UNCHANGED <<want_write, waiting, can_sleep, asleep, owner>>

\* The loser of two upgrades gives up its read hold, and wakes the winner.
LoseUpgrade(t) ==
    /\ want_upgrade
    /\ read_count' = read_count - 1
    /\ WakeWaiters
    /\ Goto(t, "idle")
    /\ UNCHANGED <<want_write, want_upgrade, can_sleep, owner>>

LockReadToWrite(t) ==
    /\ at[t] = "reading"
    /\ read_count # 0
    /\ ClaimUpgrade(t, "read_to_write") \/ LoseUpgrade(t)

\* The loser of this one keeps its read hold: nothing changes.
LockTryReadToWrite(t) ==
    /\ at[t] = "reading"
    /\ read_count # 0
    /\ ClaimUpgrade(t, "try_read_to_write")

UpgradeDrained(t) ==
    /\ \E place \in Upgrading : Running(t, place) /\ ~Blocked(place)
    /\ Goto(t, "upgraded")
    /\ UNCHANGED <<fields, can_sleep, asleep, owner>>

\* Mutant: the first hold is given up before the recursive ones.
GiveUpFirstHold ==
    IF want_write
    THEN want_write' = FALSE /\ UNCHANGED <<recursion_depth, want_upgrade>>
    ELSE IF want_upgrade
    THEN want_upgrade' = FALSE /\ UNCHANGED <<recursion_depth, want_write>>
    ELSE /\ recursion_depth' = recursion_depth - 1
         /\ UNCHANGED <<want_write, want_upgrade>>

\* The write hold that a release or a downgrade gives up: a recursive one
\* first, then the upgrade, then the write bit.
GiveUpWrite ==
    IF recursion_depth # 0
    THEN /\ recursion_depth' = recursion_depth - 1
         /\ UNCHANGED <<want_write, want_upgrade>>
    ELSE /\ UNCHANGED recursion_depth
         /\ want_upgrade' = FALSE
         /\ want_write' = (want_write /\ want_upgrade)

LockWriteToRead(t) ==
    /\ \/ /\ at[t] \in Writes /\ thread # t
          /\ Goto(t, "reading")
          /\ UNCHANGED <<nested_reads, nested_writes>>
       \/ /\ thread = t /\ nested_writes > 0
          /\ nested_reads' = nested_reads + 1
          /\ nested_writes' = nested_writes - 1
          /\ UNCHANGED at
    /\ read_count' = read_count + 1
    /\ GiveUpWrite
    /\ WakeWaiters
    /\ UNCHANGED <<can_sleep, thread>>

------------------------------------------------------------------------------
(* Release and recursion *)

\* The caller gives up its only hold, or one of its recursive holds.
GiveUpHold(t) ==
    \/ /\ at[t] \in Writes \union {"reading"} /\ thread # t
       /\ Goto(t, "idle")
       /\ UNCHANGED <<nested_reads, nested_writes>>
    \/ /\ thread = t /\ nested_reads > 0
       /\ nested_reads' = nested_reads - 1
       /\ UNCHANGED <<nested_writes, at>>
    \/ /\ thread = t /\ nested_writes > 0
       /\ nested_writes' = nested_writes - 1
       /\ UNCHANGED <<nested_reads, at>>

\* lock_done is not told which kind of hold it ends and goes by the fields.
LockDone(t) ==
    /\ GiveUpHold(t)
    /\ IF read_count # 0
       THEN /\ read_count' = read_count - 1
            /\ UNCHANGED <<want_write, want_upgrade, recursion_depth>>
       ELSE GiveUpWrite /\ UNCHANGED read_count
    /\ WakeWaiters
    /\ UNCHANGED <<can_sleep, thread>>

LockSetRecursive(t) ==
    /\ at[t] = "writing" /\ thread # t
    /\ want_write
    /\ thread' = t
    /\ UNCHANGED <<fields, can_sleep, recursion_depth, asleep, at,
                   nested_reads, nested_writes>>

\* With recursive write holds left the call does nothing at all.  Callers
\* have given up the holds they took since lock_set_recursive.
LockClearRecursive(t) ==
    /\ thread = t /\ nested_reads + nested_writes = 0
    /\ recursion_depth = 0
    /\ thread' = NoThread
    /\ UNCHANGED <<fields, can_sleep, recursion_depth, asleep, at,
                   nested_reads, nested_writes>>

------------------------------------------------------------------------------
(* The specification *)

\* The turns of the wait loops: what a thread does on its own, without a
\* decision of its caller.
Progress(t) ==
    \/ LockWriteAgain(t)
    \/ LockWriteDrained(t)
    \/ LockReadAgain(t)
    \/ UpgradeDrained(t)

Step(t) ==
    \/ LockWrite(t) \/ LockTryWrite(t) \/ LockWriteRecursive(t)
    \/ LockRead(t) \/ LockTryRead(t) \/ LockReadRecursive(t)
    \/ LockReadToWrite(t) \/ LockTryReadToWrite(t) \/ UpgradeRecursive(t)
    \/ LockWriteToRead(t) \/ LockDone(t)
    \/ LockSetRecursive(t) \/ LockClearRecursive(t)
    \/ Sleep(t) \/ ClearWait(t) \/ Progress(t)

Next == \E t \in Threads : Step(t)

Spec == Init /\ [][Next]_vars

\* A thread that can go on does (the scheduler runs it), a recursive owner
\* undoes its recursion, and no caller keeps a hold for ever: however often
\* it changes between read and write, it releases.
Fairness == \A t \in Threads :
    /\ WF_vars(Progress(t))
    /\ SF_vars(LockDone(t) /\ at'[t] = "idle")
    /\ SF_vars(LockDone(t) /\ thread = t)
    /\ SF_vars(LockClearRecursive(t))

FairSpec == Spec /\ Fairness

------------------------------------------------------------------------------
(* Properties *)

\* Threads whose hold read_count counts, other than the recursive owner's.
Readers == {t \in Threads : at[t] = "reading"}

\* A writer has the lock to itself: no reader, no other writer, and no thread
\* that is being upgraded and relies on what it read (lock_write's two loops,
\* lock_read's loop and the two upgrade routines together).
WriterExcludesAll ==
    \A t, u \in Threads :
        t # u /\ at[t] \in Writes
            => at[u] \notin Writes \union Upgrading \union {"reading"}

WriteBitCounts ==
    /\ \A t \in Threads : at[t] \in WriteBit => want_write
    /\ \A t, u \in Threads : at[t] \in WriteBit /\ at[u] \in WriteBit => t = u
    /\ want_write => \E t \in Threads : at[t] \in WriteBit

UpgradeBitCounts ==
    /\ \A t \in Threads : at[t] \in UpgradeBit => want_upgrade
    /\ \A t, u \in Threads : at[t] \in UpgradeBit /\ at[u] \in UpgradeBit => t = u
    /\ want_upgrade => \E t \in Threads : at[t] \in UpgradeBit

ReadCountCounts == thread = NoThread => read_count = Cardinality(Readers)

\* The words of the lock count exactly its holders: want_write stands for one
\* thread that drains or writes, want_upgrade for one thread that is being or
\* has been upgraded, and read_count for the readers (while the lock has no
\* recursive owner).  A hold counted twice or dropped is a lock that never
\* opens or opens early.
FieldsCountHolders == WriteBitCounts /\ UpgradeBitCounts /\ ReadCountCounts

\* No wakeup is lost: a thread sleeps on the lock only while what it waits
\* for is still missing, and with the waiting flag up, so that the release
\* that ends the wait wakes it.
SleepersAreWoken ==
    \A t \in asleep : waiting /\ at[t] \in Waits /\ Blocked(at[t])

\* The recursive owner's holds are all accounted for, in read_count and
\* recursion_depth together, and a release never takes a hold it does not
\* have: giving up the last of them leaves both counters at zero, although
\* lock_done does not know which kind of hold it gives up.
RecursionIsCounted ==
    /\ thread # NoThread =>
        /\ at[thread] = "writing"
        /\ read_count + recursion_depth = nested_reads + nested_writes
        /\ read_count <= nested_reads
    /\ thread = NoThread => recursion_depth + nested_reads + nested_writes = 0

\* panic("lock upgrade w/o read lock") is not reached by a reader.
UpgradeHasReadLock == Readers # {} => read_count # 0

\* What each thread holds: one that waits to be upgraded still reads.
held == [t \in Threads |->
            IF at[t] \in Writes THEN "write"
            ELSE IF at[t] \in Upgrading \union {"reading"} THEN "read"
            ELSE "none"]

\* The implemented lock, seen as the abstract one.
Abstract == INSTANCE RWLock WITH holds <- held

\* lock.c implements RWLock: in particular an upgrade that has to wait lets
\* no writer in between its read and its write hold.
ImplementsRWLock == Abstract!RWSpec

\* A writer that has taken the want_write bit gets the lock: no stream of
\* later readers or upgrades keeps it out.
WriterGetsIn == \A t \in Threads : at[t] = "drain" ~> at[t] = "writing"

\* A claimed upgrade succeeds once the other readers are gone.
UpgradeGetsIn ==
    \A t \in Threads : at[t] \in Upgrading ~> at[t] = "upgraded"

\* The words of the lock hold nothing but the count of its holds: want_write,
\* want_upgrade and read_count those of all threads, read_count and
\* recursion_depth those of a recursive owner.
CountsAreRight == TypeOK /\ FieldsCountHolders /\ RecursionIsCounted

\* Who has announced a write or claimed the upgrade gets in, whoever else asks.
WaitersGetIn == WriterGetsIn /\ UpgradeGetsIn
=============================================================================
