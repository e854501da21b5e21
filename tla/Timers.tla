------------------------------- MODULE Timers -------------------------------
(***************************************************************************)
(* What timeout() and untimeout() promise: each pending call is made once, *)
(* in the order of their times and not before its time; the clock may be   *)
(* set, which moves the calls that are due at a time of day and no others. *)
(* Callout implements it with one list in which an entry knows only how    *)
(* much later it is than the one before.                                   *)
(***************************************************************************)
EXTENDS Integers, Bags

CONSTANTS
    Calls,          \* the calls (fun, arg) asked for
    Absolute,       \* those of them that expire at a time of day
    Times,          \* how long they are to wait
    Shifts          \* by how much a time of day may move away

VARIABLE pending    \* the pending calls, and the ticks left to each

Init == pending = EmptyBag

\* e is pending, and no other call in S is due before it.
First(e, S) == e \in S /\ \A f \in S : e.left <= f.left

Arm(c, t) ==
    pending' = pending (+) SetToBag({[call |-> c, left |-> IF t <= 0 THEN 1 ELSE t]})

Disarm(c) ==
    \E e \in BagToSet(pending) :
      /\ First(e, {f \in BagToSet(pending) : f.call = c})
      /\ pending' = pending (-) SetToBag({e})

Tick == pending' = BagOfAll(LAMBDA e : [e EXCEPT !.left = @ - 1], pending)

Expire ==
    \E e \in BagToSet(pending) :
      /\ e.left <= 0 /\ First(e, BagToSet(pending))
      /\ pending' = pending (-) SetToBag({e})

SetTime(d) ==
    pending' = BagOfAll(LAMBDA e : IF e.call \in Absolute
                                   THEN [e EXCEPT !.left = @ + d] ELSE e,
                        pending)

Next ==
    \/ \E c \in Calls, t \in Times : Arm(c, t)
    \/ \E c \in Calls : Disarm(c)
    \/ Tick \/ Expire
    \/ \E d \in Shifts : SetTime(d)

Spec == Init /\ [][Next]_pending
=============================================================================
