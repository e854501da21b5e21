----------------------------- MODULE BlockStore -----------------------------
(***************************************************************************)
(* What the buffer cache promises its callers: a store of blocks, each of  *)
(* which one thread at a time holds, and reads as it was last written.     *)
(* The disk follows behind; it has what a synchronous write wrote when the *)
(* write returns, and what a thread has half changed it never gets.  A     *)
(* block falls back to what the disk has only when writing it has failed.  *)
(***************************************************************************)
CONSTANTS Threads, Blocks, Values, Nobody

VARIABLES
    holder,         \* the thread that holds each block
    writing,        \* the blocks that their holders wait to see written
    value,          \* what a read of the block returns
    disk,           \* what the disk has
    failed          \* the blocks whose last write has failed

vars == <<holder, writing, value, disk, failed>>

Init ==
    /\ holder = [b \in Blocks |-> Nobody] /\ writing = {}
    /\ value \in [Blocks -> Values] /\ disk = value
    /\ failed = {}

\* A block whose write has failed may be given up for what the disk has.
Fallback(b) == {value[b]} \union (IF b \in failed THEN {disk[b]} ELSE {})

\* A thread takes the block: for itself, or to have it written first.
Take(t, b) ==
    /\ holder[b] = Nobody
    /\ holder' = [holder EXCEPT ![b] = t]
    /\ \/ UNCHANGED <<writing, failed>>
       \/ writing' = writing \union {b} /\ failed' = failed \ {b}
    /\ UNCHANGED <<value, disk>>

\* It gives it back, unchanged, once it is written if that is what it waits for.
Give(t, b) ==
    /\ holder[b] = t
    /\ b \in writing => value[b] = disk[b] \/ b \in failed
    /\ holder' = [holder EXCEPT ![b] = Nobody]
    /\ writing' = writing \ {b}
    /\ \E v \in Fallback(b) : value' = [value EXCEPT ![b] = v]
    /\ failed' \in {failed, failed \ {b}}
    /\ UNCHANGED disk

\* It gives it back with a new value, to be written at any time.
Put(t, b, v) ==
    /\ holder[b] = t /\ b \notin writing
    /\ holder' = [holder EXCEPT ![b] = Nobody]
    /\ \E w \in {v} \union (Fallback(b) \ {value[b]}) :
         value' = [value EXCEPT ![b] = w]
    /\ failed' \in {failed, failed \ {b}}
    /\ UNCHANGED <<writing, disk>>

\* It gives it a new value and waits until the disk has it.
Write(t, b, v) ==
    /\ holder[b] = t /\ b \notin writing
    /\ value' = [value EXCEPT ![b] = v]
    /\ writing' = writing \union {b} /\ failed' = failed \ {b}
    /\ UNCHANGED <<holder, disk>>

\* The disk gets the value of a block that nobody is changing, or fails to.
Store(b) ==
    /\ holder[b] = Nobody \/ b \in writing
    /\ \/ disk' = [disk EXCEPT ![b] = value[b]] /\ UNCHANGED failed
       \/ failed' = failed \union {b} /\ UNCHANGED disk
    /\ UNCHANGED <<holder, writing, value>>

\* Failed writes are tried again, or the last value is given up.
Retry(S) == failed' = failed \ S /\ UNCHANGED <<holder, writing, value, disk>>

GiveUp(b) ==
    /\ holder[b] = Nobody /\ b \in failed
    /\ value' = [value EXCEPT ![b] = disk[b]] /\ failed' = failed \ {b}
    /\ UNCHANGED <<holder, writing, disk>>

Next ==
    \/ \E t \in Threads, b \in Blocks :
         \/ Take(t, b) \/ Give(t, b)
         \/ \E v \in Values : Put(t, b, v) \/ Write(t, b, v)
    \/ \E b \in Blocks : Store(b) \/ GiveUp(b)
    \/ \E S \in SUBSET Blocks : Retry(S)

Spec == Init /\ [][Next]_vars
=============================================================================
