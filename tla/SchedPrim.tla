----------------------------- MODULE SchedPrim -----------------------------
(***************************************************************************)
(* Waiting and waking, suspending and stopping: the thread state word of   *)
(* kern/sched_prim.c and kern/thread.c, under the sleeps of                *)
(* bsd/kern_synch.c (mpsleep), the timeouts of bsd/kern_clock.c and the    *)
(* signals of bsd/kern_sig.c.                                              *)
(*                                                                         *)
(* thread_lock(t) covers the state word of t, and the lock of a hash       *)
(* bucket covers wait_event of the threads on it: an action is what one    *)
(* routine does from taking these locks to releasing them.  clear_wait     *)
(* drops the thread lock to take the two in order, and so is two actions;  *)
(* thread_timeout is one action more.  A thread that calls thread_block    *)
(* leaves its processor in thread_continue, and counts as running until    *)
(* then.  Processors are not counted: a runnable thread may be run.        *)
(*                                                                         *)
(* The clients are threads that sleep by mpsleep or suspend one another by *)
(* thread_suspend; wakeups, signals, thread_resume, thread_hold and        *)
(* thread_release come from anywhere.  Swapping (off by default), idle     *)
(* threads, priorities and thread_halt are not modelled.                   *)
(***************************************************************************)
EXTENDS Integers, FiniteSets

CONSTANTS
    Threads,        \* threads; a thread also names its event &wake_active
    Chans,          \* events that mpsleep waits for
    NoEvent,        \* wait_event = 0
    Posters,        \* processors that deliver signals (psignal)
    Softclock,      \* the thread that runs the callouts
    Catches,        \* what callers of mpsleep say of PCATCH
    Timos,          \* and whether they give a timeout
    Signals,        \* kinds of signal sent: "signal", "kill"
    Suspenders,     \* threads that call thread_suspend
    MaxStop,        \* bound on user_stop_count and on the holds of a thread
    Resumes,        \* whether suspensions are taken back
    OffMaster       \* whether a thread may run off the master processor

ASSUME EventsDistinct ==
    /\ NoEvent \notin Threads \union Chans
    /\ Threads \intersect Chans = {}
ASSUME AgentsDistinct == Softclock \notin Posters
ASSUME ChoicesAssumption ==
    /\ Catches \subseteq BOOLEAN /\ Timos \subseteq BOOLEAN
    /\ Signals \subseteq {"signal", "kill"}
    /\ Suspenders \subseteq Threads
    /\ MaxStop \in Nat /\ Resumes \in BOOLEAN /\ OffMaster \in BOOLEAN

VARIABLES
    state,              \* thread->state, a set of "R", "W" and "S"
    wait_event,         \* thread->wait_event; on its hash queue unless NoEvent
    interruptible,      \* thread->interruptible
    wait_result,        \* thread->wait_result
    wake_active,        \* thread->wake_active
    suspend_count,      \* thread->suspend_count
    user_stop_count,    \* thread->user_stop_count
    timer_set,          \* thread->timer_set
    place,              \* on a processor, on a run queue, taken off it to be
                        \* run next, or none of these
    callouts,           \* entries (thread_timeout, thread) in calltodo
    sigpending,         \* a signal is pending for the thread
    clears,             \* calls of clear_wait in progress, by agent
    stop_posts,         \* wakeups of &thread->wake_active about to be done
    pc,                 \* where the thread is in mpsleep or thread_suspend
    catch, timo,        \* the arguments of its mpsleep
    target,             \* the thread it suspends
    panicked            \* which panic was reached

word == <<state, wait_event, interruptible, wait_result, place, timer_set>>
counts == <<suspend_count, user_stop_count>>
client == <<catch, timo, target>>
vars == <<state, wait_event, interruptible, wait_result, wake_active,
          suspend_count, user_stop_count, timer_set, place, callouts,
          sigpending, clears, stop_posts, pc, catch, timo, target,
          panicked>>

Agents == Posters \union {Softclock}
Events == Threads \union Chans
Results == {"AWAKENED", "TIMED_OUT", "INTERRUPTED", "SHOULD_TERMINATE"}

\* A call of clear_wait: on its way, about to look at the thread, or about to
\* take it off the queue of event.
Calls == [phase : {"idle", "fire", "look", "remove"},
          thread : Threads \union {NoEvent}, event : Events \union {NoEvent},
          result : Results, interrupt_only : BOOLEAN]

Call(phase, thread, event, result, interrupt_only) ==
    [phase |-> phase, thread |-> thread, event |-> event, result |-> result,
     interrupt_only |-> interrupt_only]

Idle == Call("idle", NoEvent, NoEvent, "AWAKENED", FALSE)

\* mpsleep: asserted to return_at_master; thread_suspend: dowait to self.
Labels == {"run", "asserted", "to_master", "at_master", "arming", "blocking",
           "blocked", "return_to_master", "return_at_master",
           "dowait", "stop_wait", "stop_waited", "post", "self"}

TypeOK ==
    /\ state \in [Threads -> SUBSET {"R", "W", "S"}]
    /\ wait_event \in [Threads -> Events \union {NoEvent}]
    /\ interruptible \in [Threads -> BOOLEAN]
    /\ wait_result \in [Threads -> Results]
    /\ wake_active \in [Threads -> BOOLEAN]
    /\ suspend_count \in [Threads -> Nat]
    /\ user_stop_count \in [Threads -> Nat]
    /\ timer_set \in [Threads -> BOOLEAN]
    /\ place \in [Threads -> {"cpu", "runq", "chosen", "off"}]
    /\ callouts \in [Threads -> Nat]
    /\ sigpending \in [Threads -> BOOLEAN]
    /\ clears \in [Agents -> Calls]
    /\ stop_posts \in [Threads -> Nat]
    /\ pc \in [Threads -> Labels]
    /\ catch \in [Threads -> BOOLEAN] /\ timo \in [Threads -> BOOLEAN]
    /\ target \in [Threads -> Threads]
    /\ panicked \in {"no", "assert_wait", "thread_wakeup", "thread_setrun",
                     "thread_continue"}

Init ==
    /\ state = [t \in Threads |-> {"R"}]
    /\ wait_event = [t \in Threads |-> NoEvent]
    /\ interruptible = [t \in Threads |-> TRUE]
    /\ wait_result = [t \in Threads |-> "AWAKENED"]
    /\ wake_active = [t \in Threads |-> FALSE]
    /\ suspend_count = [t \in Threads |-> 0]
    /\ user_stop_count = [t \in Threads |-> 0]
    /\ timer_set = [t \in Threads |-> FALSE]
    /\ place = [t \in Threads |-> "cpu"]
    /\ callouts = [t \in Threads |-> 0]
    /\ sigpending = [t \in Threads |-> FALSE]
    /\ clears = [a \in Agents |-> Idle]
    /\ stop_posts = [t \in Threads |-> 0]
    /\ pc = [t \in Threads |-> "run"]
    /\ catch = [t \in Threads |-> FALSE] /\ timo = [t \in Threads |-> FALSE]
    /\ target = [t \in Threads |-> t]
    /\ panicked = "no"

Goto(t, label) == pc' = [pc EXCEPT ![t] = label]
OnCpu(t, label) == place[t] = "cpu" /\ pc[t] = label

------------------------------------------------------------------------------
(* Waking: what thread_wakeup_prim and clear_wait do to a thread that they   *)
(* have taken off its wait queue.                                            *)

\* Mutant: a stopped thread runs when it is woken.
SetRunStopped(t) == state[t] \in {{"W"}, {"W", "S"}}

\* It was off its processor and is to be put on a run queue: not if it is
\* suspended and may stop where it is.
SetRun(t) ==
    /\ state[t] \in {{"W"}, {"W", "S"}}
    /\ ~("S" \in state[t] /\ interruptible[t])

\* switch (state): become runnable, stop, or do not block at all.
Woken(t) == (state[t] \ {"W"}) \union (IF SetRun(t) THEN {"R"} ELSE {})

\* Mutant: the thread is put on no queue.
ThreadSetRunLost(ts) == UNCHANGED <<place, panicked>>

\* thread_setrun of the threads in ts; panics for one that is there already.
ThreadSetRun(ts) ==
    /\ place' = [t \in Threads |-> IF t \in ts THEN "runq" ELSE place[t]]
    /\ panicked' = IF \E t \in ts : place[t] # "off"
                   THEN "thread_setrun" ELSE panicked

\* Mutant: the entry is left.
UntimeoutLost(t) == callouts[t]

\* untimeout(thread_timeout, thread): too late if the entry is gone.
Untimeout(t) == IF callouts[t] > 0 THEN callouts[t] - 1 ELSE 0

\* The threads in ts have been waited for; wake them with result.
Wake(ts, result) ==
    LET waiting == {t \in ts : "W" \in state[t]} IN
    /\ wait_event' = [t \in Threads |-> IF t \in ts THEN NoEvent ELSE wait_event[t]]
    /\ callouts' = [t \in Threads |->
                      IF t \in ts /\ timer_set[t] THEN Untimeout(t) ELSE callouts[t]]
    /\ timer_set' = [t \in Threads |-> t \notin ts /\ timer_set[t]]
    /\ state' = [t \in Threads |-> IF t \in waiting THEN Woken(t) ELSE state[t]]
    /\ wait_result' = [t \in Threads |->
                         IF t \in waiting THEN result ELSE wait_result[t]]
    /\ interruptible' = [t \in Threads |->
            interruptible[t] \/ (t \in waiting /\ "R" \in state[t])]
    /\ ThreadSetRun({t \in waiting : SetRun(t)})

\* thread_wakeup(event), and thread_wakeup_one(event) for one of them.
ThreadWakeup(event) ==
    LET queue == {t \in Threads : wait_event[t] = event} IN
    IF \E t \in queue : "W" \notin state[t]
    THEN panicked' = "thread_wakeup" /\ UNCHANGED <<word, callouts>>
    ELSE Wake(queue, "AWAKENED")

ThreadWakeupOne(event) ==
    \E t \in Threads : wait_event[t] = event /\ Wake({t}, "AWAKENED")

\* The wakeup() of some other part of the kernel.
Wakeup ==
    /\ \E c \in Chans : /\ \E t \in Threads : wait_event[t] = c
                        /\ ThreadWakeup(c) \/ ThreadWakeupOne(c)
    /\ UNCHANGED <<wake_active, counts, sigpending, clears, stop_posts, pc, client>>

\* Mutant: a thread that has not left its processor is not waiting.
ClearLookBlocked(a) ==
    LET c == clears[a] IN
    /\ c.phase = "look"
    /\ \/ /\ "R" \in state[c.thread] \/ (c.interrupt_only /\ ~interruptible[c.thread])
          /\ clears' = [clears EXCEPT ![a] = Idle]
       \/ /\ "R" \notin state[c.thread] /\ wait_event[c.thread] # NoEvent
          /\ clears' = [clears EXCEPT ![a] =
                Call("remove", c.thread, wait_event[c.thread], c.result,
                     c.interrupt_only)]
    /\ UNCHANGED <<word, callouts, panicked, wake_active, counts, sigpending,
                   stop_posts, pc, client>>

\* clear_wait, first part: look at the thread.
ClearLook(a) ==
    LET c == clears[a]
        t == c.thread IN
    /\ c.phase = "look"
    /\ IF c.interrupt_only /\ ~interruptible[t]
       THEN /\ clears' = [clears EXCEPT ![a] = Idle]
            /\ UNCHANGED <<word, callouts, panicked>>
       ELSE IF wait_event[t] = NoEvent
       THEN /\ Wake({t}, c.result)
            /\ clears' = [clears EXCEPT ![a] = Idle]
       ELSE /\ clears' = [clears EXCEPT ![a] =
                  Call("remove", t, wait_event[t], c.result, c.interrupt_only)]
            /\ UNCHANGED <<word, callouts, panicked>>
    /\ UNCHANGED <<wake_active, counts, sigpending, stop_posts, pc, client>>

\* Mutant: the same in the second part.
ClearRemoveBlocked(a) ==
    LET c == clears[a] IN
    /\ c.phase = "remove"
    /\ clears' = [clears EXCEPT ![a] = Idle]
    /\ IF wait_event[c.thread] = c.event /\ "R" \notin state[c.thread]
       THEN Wake({c.thread}, c.result)
       ELSE UNCHANGED <<word, callouts, panicked>>
    /\ UNCHANGED <<wake_active, counts, sigpending, stop_posts, pc, client>>

\* Second part, with the locks of the bucket and of the thread: the thread may
\* have been woken, and may wait again, in between.
ClearRemove(a) ==
    LET c == clears[a] IN
    /\ c.phase = "remove"
    /\ clears' = [clears EXCEPT ![a] = Idle]
    /\ IF wait_event[c.thread] = c.event
       THEN Wake({c.thread}, c.result)
       ELSE UNCHANGED <<word, callouts, panicked>>
    /\ UNCHANGED <<wake_active, counts, sigpending, stop_posts, pc, client>>

------------------------------------------------------------------------------
(* Timeouts and signals *)

\* softclock_scan takes a due entry off calltodo and calls thread_timeout.
SoftclockFire(t) ==
    /\ clears[Softclock].phase = "idle" /\ callouts[t] > 0
    /\ callouts' = [callouts EXCEPT ![t] = @ - 1]
    /\ clears' = [clears EXCEPT ![Softclock] =
                    Call("fire", t, NoEvent, "TIMED_OUT", FALSE)]
    /\ UNCHANGED <<word, wake_active, counts, sigpending, stop_posts, pc,
                   client, panicked>>

\* Mutant: the timeout ends interruptible waits only.
ThreadTimeoutInterrupt ==
    LET t == clears[Softclock].thread IN
    /\ clears[Softclock].phase = "fire"
    /\ timer_set' = [timer_set EXCEPT ![t] = FALSE]
    /\ clears' = [clears EXCEPT ![Softclock] =
                    Call("look", t, NoEvent, "TIMED_OUT", TRUE)]
    /\ UNCHANGED <<state, wait_event, interruptible, wait_result, place,
                   wake_active, counts, callouts, sigpending, stop_posts, pc,
                   client, panicked>>

\* thread_timeout, before its clear_wait.
ThreadTimeout ==
    LET t == clears[Softclock].thread IN
    /\ clears[Softclock].phase = "fire"
    /\ timer_set' = [timer_set EXCEPT ![t] = FALSE]
    /\ clears' = [clears EXCEPT ![Softclock] =
                    Call("look", t, NoEvent, "TIMED_OUT", FALSE)]
    /\ UNCHANGED <<state, wait_event, interruptible, wait_result, place,
                   wake_active, counts, callouts, sigpending, stop_posts, pc,
                   client, panicked>>

\* psignal: the signal is pending before clear_wait begins.  SIGKILL clears
\* any wait, once psignal has resumed the thread (ThreadResume), and other
\* signals an interruptible one.
Psignal(a, t) ==
    /\ clears[a].phase = "idle"
    /\ \E kind \in Signals :
         /\ kind = "kill" => user_stop_count[t] = 0
         /\ clears' = [clears EXCEPT ![a] =
              IF kind = "kill"
              THEN Call("look", t, NoEvent, "SHOULD_TERMINATE", FALSE)
              ELSE Call("look", t, NoEvent, "INTERRUPTED", TRUE)]
    /\ sigpending' = [sigpending EXCEPT ![t] = TRUE]
    /\ UNCHANGED <<word, wake_active, counts, callouts, stop_posts, pc, client,
                   panicked>>

\* The thread takes the signal on its way back to user mode.
TakeSignal(t) ==
    /\ OnCpu(t, "run") /\ sigpending[t]
    /\ sigpending' = [sigpending EXCEPT ![t] = FALSE]
    /\ UNCHANGED <<word, wake_active, counts, callouts, clears, stop_posts, pc,
                   client, panicked>>

------------------------------------------------------------------------------
(* Dispatching *)

\* choose_thread, or an idle processor given the thread by thread_setrun.
ChooseThread(t) ==
    /\ place[t] = "runq"
    /\ place' = [place EXCEPT ![t] = "chosen"]
    /\ UNCHANGED <<state, wait_event, interruptible, wait_result, timer_set,
                   wake_active, counts, callouts, sigpending, clears,
                   stop_posts, pc, client, panicked>>

\* The end of thread_block, on the processor that runs the thread next.
RunThread(t) ==
    /\ place[t] = "chosen"
    /\ place' = [place EXCEPT ![t] = "cpu"]
    /\ interruptible' = [interruptible EXCEPT ![t] = TRUE]
    /\ UNCHANGED <<state, wait_event, wait_result, timer_set, wake_active,
                   counts, callouts, sigpending, clears, stop_posts, pc, client,
                   panicked>>

\* Mutant: it does not tell.
StopThreadSilently(t) ==
    /\ state' = [state EXCEPT ![t] = @ \ {"R"}]
    /\ place' = [place EXCEPT ![t] = "off"]
    /\ wake_active' = [wake_active EXCEPT ![t] = FALSE]
    /\ UNCHANGED <<stop_posts, panicked>>

\* The thread stops here, and tells those who wait for that.
StopThread(t) ==
    /\ state' = [state EXCEPT ![t] = @ \ {"R"}]
    /\ place' = [place EXCEPT ![t] = "off"]
    /\ wake_active' = [wake_active EXCEPT ![t] = FALSE]
    /\ stop_posts' = [stop_posts EXCEPT ![t] = IF wake_active[t] THEN @ + 1 ELSE @]
    /\ UNCHANGED panicked

\* thread_continue, called by the context switch for the thread that leaves.
ThreadContinue(t) ==
    CASE state[t] \in {{"R", "S"}, {"R", "W", "S"}} /\ interruptible[t] ->
           StopThread(t)
      [] state[t] \in {{"R"}, {"R", "S"}} /\ (state[t] = {"R"} \/ ~interruptible[t]) ->
           /\ place' = [place EXCEPT ![t] = "runq"]
           /\ UNCHANGED <<state, wake_active, stop_posts, panicked>>
      [] state[t] \in {{"R", "W"}, {"R", "W", "S"}}
            /\ (state[t] = {"R", "W"} \/ ~interruptible[t]) ->
           /\ state' = [state EXCEPT ![t] = @ \ {"R"}]
           /\ place' = [place EXCEPT ![t] = "off"]
           /\ UNCHANGED <<wake_active, stop_posts, panicked>>
      [] OTHER ->
           /\ panicked' = "thread_continue"
           /\ UNCHANGED <<state, place, wake_active, stop_posts>>

\* Where a thread goes on after its thread_block.
AfterBlock(label) ==
    CASE label = "blocking" -> "blocked"
      [] label = "to_master" -> "at_master"
      [] label = "return_to_master" -> "return_at_master"
      [] label = "stop_wait" -> "stop_waited"
      [] label = "self" -> "run"
      [] OTHER -> label

Blocking == {"blocking", "to_master", "return_to_master", "stop_wait", "self"}

\* thread_block by the caller, or at once if nothing else is runnable.
ThreadBlock(t) ==
    /\ place[t] = "cpu" /\ pc[t] \in Blocking
    /\ Goto(t, AfterBlock(pc[t]))
    /\ \/ ThreadContinue(t)
       \/ /\ state[t] = {"R"} /\ pc[t] \notin {"to_master", "return_to_master"}
          /\ UNCHANGED <<state, place, wake_active, stop_posts, panicked>>
    /\ UNCHANGED <<wait_event, interruptible, wait_result, timer_set, counts,
                   callouts, sigpending, clears, client>>

\* thread_block by an AST in user mode, or by do_preemption, which leaves a
\* thread alone that is about to wait or to stop.
Preempt(t) ==
    /\ place[t] = "cpu"
    /\ pc[t] = "run" \/ state[t] = {"R"}
    /\ ThreadContinue(t)
    /\ UNCHANGED <<wait_event, interruptible, wait_result, timer_set, counts,
                   callouts, sigpending, clears, pc, client>>

\* thread_wakeup(&thread->wake_active) by the processor that stopped it.
PostStop(u) ==
    /\ stop_posts[u] > 0
    /\ stop_posts' = [stop_posts EXCEPT ![u] = @ - 1]
    /\ ThreadWakeup(u)
    /\ UNCHANGED <<wake_active, counts, sigpending, clears, pc, client>>

------------------------------------------------------------------------------
(* mpsleep *)

AssertWait(t, event, canstop) ==
    IF wait_event[t] # NoEvent
    THEN panicked' = "assert_wait" /\ UNCHANGED <<state, wait_event, interruptible>>
    ELSE /\ wait_event' = [wait_event EXCEPT ![t] = event]
         /\ state' = [state EXCEPT ![t] = @ \union {"W"}]
         /\ interruptible' = [interruptible EXCEPT ![t] = canstop]
         /\ UNCHANGED panicked

Mpsleep(t) ==
    /\ OnCpu(t, "run")
    /\ \E c \in Chans, pcatch \in Catches, timed \in Timos :
        /\ AssertWait(t, c, pcatch)
        /\ catch' = [catch EXCEPT ![t] = pcatch]
        /\ timo' = [timo EXCEPT ![t] = timed]
    /\ Goto(t, "asserted")
    /\ UNCHANGED <<wait_result, place, timer_set, wake_active, counts, callouts,
                   sigpending, clears, stop_posts, target>>

\* clear_wait(thread, THREAD_INTERRUPTED, TRUE) of the thread itself, and out:
\* nobody else lets it wait again, so the two parts are one.
GiveUpSleep(t) ==
    /\ Wake({t}, "INTERRUPTED")
    /\ Goto(t, "run")
    /\ UNCHANGED <<wake_active, counts, sigpending, clears, stop_posts, catch,
                   timo, target>>

\* The look for signals after assert_wait.  unix_master first moves the
\* thread to the master processor if it runs on another one.
CheckSignals(t) ==
    /\ OnCpu(t, "asserted")
    /\ \/ /\ catch[t] /\ sigpending[t]
          /\ GiveUpSleep(t)
       \/ /\ catch[t] /\ sigpending[t] /\ OffMaster
          /\ interruptible' = [interruptible EXCEPT ![t] = FALSE]
          /\ Goto(t, "to_master")
          /\ UNCHANGED <<state, wait_event, wait_result, place, timer_set,
                         wake_active, counts, callouts, sigpending, clears,
                         stop_posts, client, panicked>>
       \/ /\ ~(catch[t] /\ sigpending[t])
          /\ Goto(t, IF timo[t] THEN "arming" ELSE "blocking")
          /\ UNCHANGED <<word, wake_active, counts, callouts, sigpending,
                         clears, stop_posts, client, panicked>>

AtMaster(t) == OnCpu(t, "at_master") /\ GiveUpSleep(t)

\* Only a thread that is still going to wait needs the timer.
ThreadSetTimeout(t) ==
    /\ OnCpu(t, "arming")
    /\ IF "W" \in state[t]
       THEN /\ timer_set' = [timer_set EXCEPT ![t] = TRUE]
            /\ callouts' = [callouts EXCEPT ![t] = @ + 1]
       ELSE UNCHANGED <<timer_set, callouts>>
    /\ Goto(t, "blocking")
    /\ UNCHANGED <<state, wait_event, interruptible, wait_result, place,
                   wake_active, counts, sigpending, clears, stop_posts, client,
                   panicked>>

\* After thread_block: what mpsleep returns.
MpsleepResult(t) ==
    CASE wait_result[t] = "TIMED_OUT" -> "EWOULDBLOCK"
      [] wait_result[t] # "TIMED_OUT" /\ catch[t] /\ sigpending[t] -> "EINTR"
      [] OTHER -> "0"

\* To look for a signal the thread goes to the master processor once more.
MpsleepReturn(t) ==
    /\ place[t] = "cpu" /\ pc[t] \in {"blocked", "return_at_master"}
    /\ \/ Goto(t, "run") /\ UNCHANGED interruptible
       \/ /\ MpsleepResult(t) = "EINTR" /\ OffMaster /\ pc[t] = "blocked"
          /\ interruptible' = [interruptible EXCEPT ![t] = FALSE]
          /\ Goto(t, "return_to_master")
    /\ UNCHANGED <<state, wait_event, wait_result, place, timer_set,
                   wake_active, counts, callouts, sigpending, clears,
                   stop_posts, client, panicked>>

------------------------------------------------------------------------------
(* Suspending *)

\* One more suspension of u: thread_hold, and the middle of thread_suspend.
Suspended(u) ==
    /\ suspend_count' = [suspend_count EXCEPT ![u] = @ + 1]
    /\ state' = [state EXCEPT ![u] = @ \union {"S"}]

\* One suspension less: thread_release, and the middle of thread_resume.
Released(u) ==
    /\ suspend_count' = [suspend_count EXCEPT ![u] = @ - 1]
    /\ IF suspend_count[u] # 1
       THEN UNCHANGED <<state, place, panicked>>
       ELSE IF state[u] = {"S"}
       THEN /\ state' = [state EXCEPT ![u] = {"R"}]
            /\ ThreadSetRun({u})
       ELSE /\ state' = [state EXCEPT ![u] = @ \ {"S"}]
            /\ UNCHANGED <<place, panicked>>

UserHold(u) == IF user_stop_count[u] > 0 THEN 1 ELSE 0

ThreadHold(u) ==
    /\ suspend_count[u] - UserHold(u) < MaxStop
    /\ Suspended(u)
    /\ UNCHANGED <<wait_event, interruptible, wait_result, place, timer_set,
                   user_stop_count, wake_active, callouts, sigpending, clears,
                   stop_posts, pc, client, panicked>>

ThreadRelease(u) ==
    /\ Resumes /\ suspend_count[u] > UserHold(u)
    /\ Released(u)
    /\ UNCHANGED <<wait_event, interruptible, wait_result, timer_set,
                   user_stop_count, wake_active, callouts, sigpending, clears,
                   stop_posts, pc, client>>

\* thread_suspend up to thread_dowait, which for the thread itself is only a
\* thread_block.
ThreadSuspend(t, u) ==
    /\ OnCpu(t, "run") /\ t \in Suspenders /\ user_stop_count[u] < MaxStop
    /\ user_stop_count' = [user_stop_count EXCEPT ![u] = @ + 1]
    /\ IF user_stop_count[u] = 0
       THEN /\ Suspended(u)
            /\ Goto(t, IF u = t THEN "self" ELSE "dowait")
            /\ target' = [target EXCEPT ![t] = u]
       ELSE UNCHANGED <<state, suspend_count, pc, target>>
    /\ UNCHANGED <<wait_event, interruptible, wait_result, place, timer_set,
                   wake_active, callouts, sigpending, clears, stop_posts, catch,
                   timo, panicked>>

ThreadResume(u) ==
    /\ Resumes /\ user_stop_count[u] > 0
    /\ user_stop_count' = [user_stop_count EXCEPT ![u] = @ - 1]
    /\ IF user_stop_count[u] = 1
       THEN Released(u)
       ELSE UNCHANGED <<state, suspend_count, place, panicked>>
    /\ UNCHANGED <<wait_event, interruptible, wait_result, timer_set,
                   wake_active, callouts, sigpending, clears, stop_posts, pc,
                   client>>

\* The loop of thread_dowait ends when the thread has stopped.
Stopped(u) == "S" \in state[u] /\ "R" \notin state[u] /\ interruptible[u]

\* One turn of the loop: return, or sleep on &u->wake_active.
AwaitStop(t, u) ==
    IF Stopped(u)
    THEN /\ Goto(t, "run")
         /\ UNCHANGED <<state, wait_event, interruptible, wake_active, panicked>>
    ELSE /\ wake_active' = [wake_active EXCEPT ![u] = TRUE]
         /\ AssertWait(t, u, FALSE)
         /\ Goto(t, "stop_wait")

ThreadDowait(t) ==
    LET u == target[t] IN
    /\ OnCpu(t, "dowait")
    /\ \/ \* Runnable: take it off its run queue and stop it here.
          /\ state[u] = {"R", "S"} /\ interruptible[u] /\ place[u] = "runq"
          /\ state' = [state EXCEPT ![u] = {"S"}]
          /\ place' = [place EXCEPT ![u] = "off"]
          /\ wake_active' = [wake_active EXCEPT ![u] = FALSE]
          /\ Goto(t, IF wake_active[u] THEN "post" ELSE "run")
          /\ UNCHANGED <<wait_event, interruptible, panicked>>
       \/ \* Running, waiting, or not to be interrupted: wait for it.
          /\ state[u] \in {{"R", "S"}, {"R", "W", "S"}, {"W", "S"}}
          /\ ~(state[u] = {"R", "S"} /\ interruptible[u] /\ place[u] = "runq")
          /\ AwaitStop(t, u)
          /\ UNCHANGED place
       \/ \* Stopped already, or resumed meanwhile.
          /\ state[u] \notin {{"R", "S"}, {"R", "W", "S"}, {"W", "S"}}
          /\ Goto(t, "run")
          /\ UNCHANGED <<state, wait_event, interruptible, place, wake_active,
                         panicked>>
    /\ UNCHANGED <<wait_result, timer_set, counts, callouts, sigpending, clears,
                   stop_posts, client>>

DowaitAgain(t) ==
    /\ OnCpu(t, "stop_waited")
    /\ AwaitStop(t, target[t])
    /\ UNCHANGED <<wait_result, place, timer_set, counts, callouts, sigpending,
                   clears, stop_posts, client>>

DowaitPost(t) ==
    /\ OnCpu(t, "post")
    /\ ThreadWakeup(target[t])
    /\ Goto(t, "run")
    /\ UNCHANGED <<wake_active, counts, sigpending, clears, stop_posts, client>>

------------------------------------------------------------------------------
(* The specification *)

Dispatch(t) == ChooseThread(t) \/ RunThread(t)

\* What a thread does once it is in a call.
Progress(t) ==
    \/ ThreadBlock(t) \/ CheckSignals(t) \/ AtMaster(t) \/ ThreadSetTimeout(t) \/ MpsleepReturn(t)
    \/ ThreadDowait(t) \/ DowaitAgain(t) \/ DowaitPost(t)

ThreadStep(t) ==
    \/ Dispatch(t) \/ Progress(t) \/ Preempt(t) \/ Mpsleep(t) \/ TakeSignal(t)
    \/ ThreadHold(t) \/ ThreadRelease(t) \/ ThreadResume(t)
    \/ PostStop(t) \/ SoftclockFire(t)
    \/ \E u \in Threads : ThreadSuspend(t, u)

AgentStep(a) ==
    \/ ClearLook(a) \/ ClearRemove(a)
    \/ a = Softclock /\ ThreadTimeout

Next ==
    /\ panicked = "no"
    /\ \/ \E t \in Threads : ThreadStep(t)
       \/ \E a \in Agents : AgentStep(a)
       \/ \E a \in Posters, t \in Threads : Psignal(a, t)
       \/ Wakeup

Spec == Init /\ [][Next]_vars

\* Runnable threads run, and get something done in each quantum; softclock
\* serves every due callout; what a processor began it ends; and a suspended
\* thread that runs meets an AST.
Fairness ==
    /\ \A t \in Threads : /\ WF_vars(Dispatch(t)) /\ SF_vars(Progress(t))
                          /\ WF_vars(PostStop(t))
                          /\ SF_vars(SoftclockFire(t))
                          /\ SF_vars(Preempt(t) /\ "S" \in state[t])
    /\ \A a \in Agents : WF_vars(AgentStep(a))

FairSpec == Spec /\ Fairness

\* The same where the events slept on are posted sooner or later.
PostedSpec == FairSpec /\ WF_vars(Wakeup)

------------------------------------------------------------------------------
(* Properties *)

\* A thread is queued as its state says: on a wait queue while it waits, on a
\* run queue or processor while it runs, and never on a run queue while it is
\* on a wait queue, for the two use the same links (sched_prim.c:236-239).
QueuesMatchState ==
    \A t \in Threads :
      /\ "W" \in state[t] <=> wait_event[t] # NoEvent
      /\ "R" \in state[t] <=> place[t] # "off"
      /\ place[t] \in {"runq", "chosen"} => wait_event[t] = NoEvent

\* No sequence of sleeps, wakeups, timeouts, signals and suspensions reaches
\* one of the panics of assert_wait, thread_wakeup_prim, thread_setrun and
\* thread_continue.
NeverPanics == panicked = "no"

\* TH_SUSP stands for the count of suspensions, of which thread_suspend and
\* thread_resume own one while user_stop_count is not zero.
SuspensionsAreCounted ==
    \A t \in Threads : /\ "S" \in state[t] <=> suspend_count[t] > 0
                       /\ suspend_count[t] >= UserHold(t)

\* Who will call clear_wait on t before it can be said to have forgotten.
WillClear(t, a) ==
    LET c == clears[a] IN
    /\ c.thread = t
    /\ \/ c.phase = "fire"
       \/ c.phase = "look" /\ (c.interrupt_only => interruptible[t])
       \/ c.phase = "remove" /\ c.event = wait_event[t]

\* A thread that has gone to sleep with PCATCH while a signal is pending for
\* it is about to be woken by psignal: it did not miss the signal between its
\* look at the signals and thread_block.
SignalIsNotMissed ==
    \A t \in Threads :
      catch[t] /\ sigpending[t] /\ pc[t] \in {"blocked", "at_master"} /\ "W" \in state[t]
        => \E a \in Agents : WillClear(t, a)

\* A thread asleep with a timeout is still to be woken by it, whatever became
\* of the callouts of its earlier sleeps.
TimeoutIsNotLost ==
    \A t \in Threads :
      /\ timo[t] /\ pc[t] = "blocked" /\ "W" \in state[t]
      => callouts[t] > 0 \/ WillClear(t, Softclock)

\* A thread never has more than two entries in the callout table, of which
\* one was left by a sleep that a late thread_timeout ended.
CalloutsAreBounded == \A t \in Threads : callouts[t] <= 2

\* A thread that waits in thread_dowait for another to stop will be told: the
\* other one has wake_active set, or its wakeup is about to be done.
StopWillBeTold ==
    \A t, u \in Threads :
      wait_event[t] = u =>
        \/ wake_active[u] \/ stop_posts[u] > 0
        \/ \E w \in Threads : pc[w] = "post" /\ target[w] = u

\* And nobody still waits for a thread that has stopped, unless the wakeup is
\* on its way.
StopIsTold ==
    \A t, u \in Threads :
      wait_event[t] = u /\ Stopped(u) =>
        \/ stop_posts[u] > 0
        \/ \E w \in Threads : pc[w] = "post" /\ target[w] = u

\* A thread that has stopped does not run again, whatever wakes it, until its
\* last suspension is taken back.
StaysStopped ==
    [][\A t \in Threads : Stopped(t) /\ suspend_count'[t] > 0 => Stopped(t)']_vars

\* A sleep with a timeout ends, even if the event is never posted.
TimedSleepEnds ==
    \A t \in Threads : timo[t] /\ pc[t] = "arming" ~> pc[t] = "run"

\* A sleep with PCATCH ends once a signal is pending for the thread.
SignalledSleepEnds ==
    \A t \in Threads :
      catch[t] /\ sigpending[t] /\ pc[t] = "blocking" ~> pc[t] = "run"

\* thread_suspend returns when the thread has stopped, unless its caller is
\* suspended in turn.
SuspendReturns ==
    \A t \in Threads :
      pc[t] = "dowait" ~> \/ pc[t] = "run" /\ Stopped(target[t])
                         \/ "S" \in state[t]

\* What a thread's state word, its counts and the queues say agrees, so that
\* none of the routines that look at one to change the other panics.
StateIsConsistent == TypeOK /\ NeverPanics /\ QueuesMatchState /\ SuspensionsAreCounted

\* A sleep ends with its timeout or its signal, if nothing wakes it before.
SleepsEnd == TimedSleepEnds /\ SignalledSleepEnds

------------------------------------------------------------------------------
(* What the comments and the documentation say, and the code does not do.    *)

\* mpsleep: "The thread sleeps at most timo/hz seconds (0 means no timeout)"
\* (kern_synch.c:169).
NoTimeoutUnasked ==
    \A t \in Threads :
      OnCpu(t, "blocked") /\ MpsleepResult(t) = "EWOULDBLOCK" => timo[t]

=============================================================================
