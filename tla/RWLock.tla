------------------------------- MODULE RWLock -------------------------------
(***************************************************************************)
(* What a kernel read/write lock (struct lock, kern/lock.h) promises the   *)
(* code that uses it, without the words in the lock, the interlock or the  *)
(* wait queue.  A thread holds the lock for reading, for writing or not at *)
(* all.  An upgrade is one step from "read" to "write": whatever its owner *)
(* has read under the lock is still true when it may write, so a request   *)
(* that is waiting to be upgraded counts as a reader all along.            *)
(***************************************************************************)
CONSTANT Threads        \* the threads that use the lock

VARIABLE holds          \* holds[t]: what thread t has the lock for

Modes == {"none", "read", "write"}

RWTypeOK == holds \in [Threads -> Modes]

RWInit == holds = [t \in Threads |-> "none"]

Alone(t) == \A u \in Threads \ {t} : holds[u] = "none"

NoWriter == \A u \in Threads : holds[u] # "write"

AcquireRead(t) ==
    /\ holds[t] = "none"
    /\ NoWriter
    /\ holds' = [holds EXCEPT ![t] = "read"]

AcquireWrite(t) ==
    /\ holds[t] = "none"
    /\ Alone(t)
    /\ holds' = [holds EXCEPT ![t] = "write"]

\* An upgrade loses nothing in between: it needs every other reader gone.
Upgrade(t) ==
    /\ holds[t] = "read"
    /\ Alone(t)
    /\ holds' = [holds EXCEPT ![t] = "write"]

Downgrade(t) ==
    /\ holds[t] = "write"
    /\ holds' = [holds EXCEPT ![t] = "read"]

\* A release, and also a failed lock_read_to_write, which drops the read lock.
Release(t) ==
    /\ holds[t] # "none"
    /\ holds' = [holds EXCEPT ![t] = "none"]

RWNext == \E t \in Threads :
    \/ AcquireRead(t)
    \/ AcquireWrite(t)
    \/ Upgrade(t)
    \/ Downgrade(t)
    \/ Release(t)

RWSpec == RWInit /\ [][RWNext]_holds

\* A writer is alone: the reason for the lock.
WriterIsAlone == \A t \in Threads : holds[t] = "write" => Alone(t)
=============================================================================
