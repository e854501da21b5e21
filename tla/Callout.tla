------------------------------ MODULE Callout -------------------------------
(***************************************************************************)
(* The callout table of bsd/kern_clock.c: timeout, untimeout, the part of  *)
(* hardclock that counts the ticks, softclock_scan and its two callers,    *)
(* and what setting the time does to POSIX timers (psx4_adjust_callout).   *)
(*                                                                         *)
(* callout_lock covers calltodo and callfree: an action is what is done    *)
(* under one hold of it.  psx4_adjust_callout does not take the lock, but  *)
(* runs at splhigh on the processor that has the clock interrupts; that no *)
(* other one uses the list meanwhile is taken for granted.                 *)
(*                                                                         *)
(* Clients arm and cancel calls at any time, also inside the calls.        *)
(***************************************************************************)
EXTENDS Integers, SequencesExt, FiniteSetsExt

CONSTANTS
    Calls,          \* the calls (fun, arg) that timeout is given
    Absolute,       \* those that stand for POSIX timers with TIMER_ABSTIME
    Cancelled,      \* those that clients may cancel
    Times,          \* what clients pass as t
    Shifts,         \* ticks by which the time is set back, or forward if < 0
    NCallout,       \* entries in the table
    MaxLate,        \* bound on how late an entry is at a tick
    MaxLeft,        \* bound on the time left to an entry
    NoCall

ASSUME CalloutAssumption ==
    /\ Absolute \subseteq Calls /\ Cancelled \subseteq Calls /\ NoCall \notin Calls
    /\ Times \subseteq Int /\ Shifts \subseteq Int
    /\ NCallout \in Nat /\ MaxLate \in Nat /\ MaxLeft \in Nat

VARIABLES
    calltodo,           \* the list: calls and c_time
    free,               \* length of callfree
    hard,               \* hardclock: between interrupts, has counted the tick,
                        \* or in its own softclock_scan
    needsoft,           \* its local variable, dead when it ends
    soft,               \* the softclock thread: scanning or asleep
    making              \* the call that each scanner is making

vars == <<calltodo, free, hard, needsoft, soft, making>>

Scanners == {"interrupt", "thread"}
Entries == [call : Calls, time : Int]

TypeOK ==
    /\ calltodo \in Seq(Entries)
    /\ free \in Nat /\ free + Len(calltodo) = NCallout
    /\ hard \in {"idle", "ticked", "scan"}
    /\ needsoft \in BOOLEAN
    /\ soft \in {"scan", "asleep"}
    /\ making \in [Scanners -> Calls \union {NoCall}]

Init ==
    /\ calltodo = <<>> /\ free = NCallout
    /\ hard = "idle" /\ needsoft = FALSE
    /\ soft = "scan" /\ making = [s \in Scanners |-> NoCall]

------------------------------------------------------------------------------
(* The list *)

Later(e, n) == [e EXCEPT !.time = @ + n]
Delay(q, i, n) == IF i <= Len(q) THEN [q EXCEPT ![i] = Later(@, n)] ELSE q

\* What is left of t after the first n entries.
Remainder(q, t, n) ==
    FoldLeft(LAMBDA r, e : IF e.time > 0 THEN r - e.time ELSE r, t, SubSeq(q, 1, n))

\* The entries that timeout passes.
Passed(q, t) ==
    Min({n \in 0 .. Len(q) : n < Len(q) => q[n + 1].time >= Remainder(q, t, n)})

\* Mutant: the next entry loses all of t.
InsertedUnreduced(q, c, t) ==
    LET n == Passed(q, t) IN
    InsertAt(Delay(q, n + 1, -t), n + 1, [call |-> c, time |-> Remainder(q, t, n)])

\* timeout: the entry goes before others that are due at the same time.
Inserted(q, c, t) ==
    LET n == Passed(q, t)
        r == Remainder(q, t, n) IN
    InsertAt(Delay(q, n + 1, -r), n + 1, [call |-> c, time |-> r])

\* Mutant: the next entry inherits the lateness of one that was due.
RemovedWithLateness(q, i) == RemoveAt(Delay(q, i + 1, q[i].time), i)

\* untimeout gives the time of the entry to the next one.
Removed(q, i) ==
    RemoveAt(IF q[i].time > 0 THEN Delay(q, i + 1, q[i].time) ELSE q, i)

\* hardclock counts the entries that are due, and the first that is not.
Ticked(q) ==
    [i \in DOMAIN q |->
       IF \A j \in 1 .. i - 1 : q[j].time <= 0 THEN Later(q[i], -1) ELSE q[i]]

\* The time left to entry i: negative if it is late.
Left(q, i) ==
    LET before == -Remainder(q, 0, i - 1) IN
    IF before = 0 THEN q[i].time ELSE before + q[i].time

\* psx4_adjust_callout, step 1: absolute timers are taken out as untimeout
\* does it, and all entries are placed by the sum of c_time before them.
Separated(q) ==
    FoldLeft(LAMBDA acc, e :
               LET t == e.time + acc.carry
                   placed == [call |-> e.call, pos |-> t + acc.pdelta] IN
               IF e.call \in Absolute
               THEN [acc EXCEPT !.abs = Append(@, placed),
                                !.carry = IF t > 0 THEN t ELSE 0]
               ELSE [acc EXCEPT !.kept = Append(@, placed),
                                !.carry = 0, !.pdelta = @ + t],
             [abs |-> <<>>, kept |-> <<>>, carry |-> 0, pdelta |-> 0], q)

\* Step 3: the two lists are merged, the entries that were kept first.
Merged(a, k) ==
    LET merge[p \in (0 .. Len(a)) \X (0 .. Len(k))] ==
          LET i == p[1]
              j == p[2] IN
          IF i = Len(a) THEN SubSeq(k, j + 1, Len(k))
          ELSE IF j = Len(k) THEN SubSeq(a, i + 1, Len(a))
          ELSE IF a[i + 1].pos < k[j + 1].pos
          THEN <<a[i + 1]>> \o merge[<<i + 1, j>>]
          ELSE <<k[j + 1]>> \o merge[<<i, j + 1>>]
    IN  merge[<<0, 0>>]

\* The whole, with step 2: d goes to the first absolute timer, and so to all.
Adjusted(q, d) ==
    LET s == Separated(q)
        shifted == [i \in DOMAIN s.abs |-> [s.abs[i] EXCEPT !.pos = @ + d]]
        m == Merged(shifted, s.kept) IN
    [i \in DOMAIN m |->
       [call |-> m[i].call,
        time |-> m[i].pos - (IF i = 1 THEN 0 ELSE m[i - 1].pos)]]

Due == calltodo # <<>> /\ calltodo[1].time <= 0

------------------------------------------------------------------------------
(* Clients *)

Timeout(c) ==
    /\ free > 0                             \* else "timeout table overflow"
    /\ free' = free - 1
    /\ \E t \in Times : calltodo' = Inserted(calltodo, c, IF t <= 0 THEN 1 ELSE t)
    /\ UNCHANGED <<hard, needsoft, soft, making>>

\* untimeout, and untimeout_try, which says whether there was an entry.
Untimeout(c) ==
    /\ c \in Cancelled
    /\ \E i \in DOMAIN calltodo :
         /\ calltodo[i].call = c /\ \A j \in 1 .. i - 1 : calltodo[j].call # c
         /\ calltodo' = Removed(calltodo, i)
         /\ free' = free + 1
    /\ UNCHANGED <<hard, needsoft, soft, making>>

\* setthetime: psx4_adjust_callout.  MaxLate and MaxLeft bound what it may make
\* of the entries.
SetTime ==
    /\ \E d \in Shifts :
         /\ \A i \in DOMAIN calltodo :
              calltodo[i].call \in Absolute
                => Left(calltodo, i) + d \in 1 - MaxLate .. MaxLeft
         /\ calltodo' = Adjusted(calltodo, d)
         /\ \A i \in DOMAIN calltodo' : calltodo'[i].time \in -MaxLate .. MaxLeft
    /\ UNCHANGED <<free, hard, needsoft, soft, making>>

------------------------------------------------------------------------------
(* Clock and softclock *)

\* hardclock counts the tick, while no entry is later than MaxLate.
HardclockTick ==
    /\ hard = "idle"
    /\ \A i \in DOMAIN calltodo : calltodo[i].time >= -MaxLate
    /\ calltodo' = Ticked(calltodo)
    /\ needsoft' = (calltodo # <<>> /\ calltodo[1].time <= 1)
    /\ hard' = "ticked"
    /\ UNCHANGED <<free, soft, making>>

\* Mutant: the thread is not told.
HardclockAlone ==
    /\ hard = "ticked"
    /\ hard' = "idle" \/ (hard' = "scan" /\ needsoft /\ making["interrupt"] = NoCall)
    /\ needsoft' = FALSE
    /\ UNCHANGED <<calltodo, free, soft, making>>

\* The end of hardclock: if the interrupted code ran at base level it may scan
\* the list itself, else it wakes the thread.
HardclockEnd ==
    /\ hard = "ticked"
    /\ \/ needsoft /\ making["interrupt"] = NoCall
          /\ hard' = "scan" /\ UNCHANGED soft
       \/ hard' = "idle" /\ soft' = (IF needsoft THEN "scan" ELSE soft)
    /\ needsoft' = FALSE
    /\ UNCHANGED <<calltodo, free, making>>

\* softclock_scan: take a due entry off the list, and unlock to make the call.
\* While hardclock makes one it can be interrupted by hardclock.
Take(s) ==
    /\ making[s] = NoCall
    /\ IF s = "thread" THEN soft = "scan" /\ UNCHANGED hard
                       ELSE hard = "scan" /\ hard' = "idle"
    /\ Due
    /\ making' = [making EXCEPT ![s] = calltodo[1].call]
    /\ calltodo' = Tail(calltodo) /\ free' = free + 1
    /\ UNCHANGED <<needsoft, soft>>

\* The call returns, and softclock_scan goes on.
Return(s) ==
    /\ making[s] # NoCall
    /\ s = "interrupt" => hard = "idle"
    /\ making' = [making EXCEPT ![s] = NoCall]
    /\ hard' = IF s = "interrupt" THEN "scan" ELSE hard
    /\ UNCHANGED <<calltodo, free, needsoft, soft>>

\* Mutant: the thread sleeps when it has made one call.
ScanEndsEarly(s) ==
    /\ making[s] = NoCall
    /\ IF s = "thread" THEN soft = "scan" /\ soft' = "asleep" /\ UNCHANGED hard
                       ELSE hard = "scan" /\ hard' = "idle" /\ UNCHANGED soft
    /\ UNCHANGED <<calltodo, free, needsoft, making>>

\* Nothing is due: the thread asserts its wait before it gives up the lock.
ScanEnds(s) ==
    /\ making[s] = NoCall /\ ~Due
    /\ IF s = "thread" THEN soft = "scan" /\ soft' = "asleep" /\ UNCHANGED hard
                       ELSE hard = "scan" /\ hard' = "idle" /\ UNCHANGED soft
    /\ UNCHANGED <<calltodo, free, needsoft, making>>

------------------------------------------------------------------------------
(* The specification *)

Scan(s) == Take(s) \/ Return(s) \/ ScanEnds(s)

Next ==
    \/ \E c \in Calls : Timeout(c) \/ Untimeout(c)
    \/ SetTime \/ HardclockTick \/ HardclockEnd
    \/ \E s \in Scanners : Scan(s)

Spec == Init /\ [][Next]_vars

\* The clock ticks, interrupts end, and the softclock thread, which has the
\* highest priority, runs.
Fairness ==
    /\ WF_vars(HardclockTick) /\ WF_vars(HardclockEnd)
    /\ \A s \in Scanners : WF_vars(Scan(s))

FairSpec == Spec /\ Fairness

------------------------------------------------------------------------------
(* Properties *)

Lefts(q) == [i \in DOMAIN q |-> [call |-> q[i].call, left |-> Left(q, i)]]

\* The entries of the list as a bag.
Pending ==
    LET l == Lefts(calltodo) IN
    [e \in ToSet(l) |-> Cardinality({i \in DOMAIN l : l[i] = e})]

\* "At front of queue are some number of events which are due": those that are
\* late come first, the latest of them at the front, and no entry behind one
\* that is not due has a negative time.
DueComeFirst ==
    \A i, j \in DOMAIN calltodo :
      i < j => /\ calltodo[j].time <= 0 /\ calltodo[i].time <= 0
                    => calltodo[i].time <= calltodo[j].time
               /\ calltodo[i].time > 0 => calltodo[j].time >= 0

\* While an entry is due softclock is on its way to it: the thread does not
\* sleep, or hardclock is about to wake it or to scan the list itself.
SoftclockIsAwake ==
    Due =>
      \/ soft = "scan"
      \/ hard = "ticked" /\ needsoft
      \/ hard = "scan" \/ making["interrupt"] # NoCall

\* Whatever clients, the clock and the scanners do, and whenever the time is set:
\* the list goes out of order only when the time is set while calls are late.
OrderIsKept == [][DueComeFirst => DueComeFirst' \/ (SetTime /\ Due)]_vars

\* The entries that are not on the list are free, and its order is kept.
ListIsRight == []TypeOK /\ OrderIsKept

\* While the list is in order, nothing but a new time that makes a call due
\* leaves softclock asleep beside it, and the next tick tells it.
WakeIsKept ==
    [][/\ DueComeFirst /\ SoftclockIsAwake => SoftclockIsAwake' \/ (SetTime /\ ~Due)
       /\ HardclockTick => SoftclockIsAwake']_vars

\* A list in order is a set of timers: whatever is armed, cancelled or moved with
\* it, each call keeps its own time, and calls are made in the order of their
\* times.  Only setting the time past a call, or while one is due, may change the
\* time of others.
Abstract == INSTANCE Timers WITH pending <- Pending
ImplementsTimers ==
    /\ Abstract!Init
    /\ [][DueComeFirst => \/ SetTime /\ (Due \/ Due')
                          \/ Abstract!Next \/ UNCHANGED Pending]_calltodo

\* A call that is due is made, if nobody cancels it or sets the time for ever.
DueCallsAreMade ==
    \A c \in Calls \ Cancelled :
      LET due == \E i \in DOMAIN calltodo :
                   calltodo[i].call = c /\ Left(calltodo, i) <= 0 IN
      []<><<SetTime>>_vars \/ (due ~> ~due \/ \E s \in Scanners : making[s] = c)

------------------------------------------------------------------------------
(* What the comments say, and the code does not do.                          *)

\* "Arrange that (*fun)(arg) is called in t/hz seconds" (kern_clock.c:769), and
\* setting the time moves absolute timers only (kern_clock.c:1034-1038).
OthersKeepTheirTime ==
    [][SetTime => SelectSeq(Lefts(calltodo), LAMBDA e : e.call \notin Absolute)'
                  = SelectSeq(Lefts(calltodo), LAMBDA e : e.call \notin Absolute)]_vars
=============================================================================
