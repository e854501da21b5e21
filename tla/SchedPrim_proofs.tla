-------------------------- MODULE SchedPrim_proofs --------------------------
(***************************************************************************)
(* Proofs about SchedPrim, for any number of threads, events and senders   *)
(* of signals.  IInv is the inductive invariant: besides the properties to *)
(* be proved it says where in its code a thread can have a wait asserted.  *)
(* SleepInv, which the second half adds to it, is about the sleeps.        *)
(***************************************************************************)
EXTENDS SchedPrim, TLAPS

\* A wait is asserted from assert_wait to the context switch, and after it
\* until the wait is over; a thread that runs after its thread_block has none.
WaitIsAsserted ==
    \A t \in Threads :
      "W" \in state[t] =>
        \/ /\ place[t] = "cpu"
           /\ pc[t] \in {"asserted", "to_master", "arming", "blocking", "stop_wait"}
        \/ /\ place[t] = "off"
           /\ pc[t] \in {"blocked", "at_master", "stop_waited"}

\* A clear_wait in progress has a thread to clear.
ClearsHaveThread ==
    \A a \in Agents : clears[a].phase # "idle" => clears[a].thread \in Threads

IInv ==
    /\ TypeOK /\ NeverPanics /\ QueuesMatchState /\ SuspensionsAreCounted
    /\ StopWillBeTold /\ WaitIsAsserted /\ ClearsHaveThread

------------------------------------------------------------------------------

USE EventsDistinct, AgentsDistinct, ChoicesAssumption

States == SUBSET {"R", "W", "S"}
Places == {"cpu", "runq", "chosen", "off"}

\* A set of TH_RUN, TH_WAIT and TH_SUSP is one of eight.
LEMMA StateCases ==
    ASSUME NEW s \in States
    PROVE  /\ s = {"W"} <=> "W" \in s /\ "R" \notin s /\ "S" \notin s
           /\ s = {"W", "S"} <=> "W" \in s /\ "R" \notin s /\ "S" \in s
           /\ s = {"S"} <=> "W" \notin s /\ "R" \notin s /\ "S" \in s
           /\ s = {"R"} <=> "W" \notin s /\ "R" \in s /\ "S" \notin s
           /\ s = {"R", "S"} <=> "W" \notin s /\ "R" \in s /\ "S" \in s
           /\ s = {"R", "W"} <=> "W" \in s /\ "R" \in s /\ "S" \notin s
           /\ s = {"R", "W", "S"} <=> "W" \in s /\ "R" \in s /\ "S" \in s
  BY DEF States

\* What thread_wakeup_prim and clear_wait make of a state word.
LEMMA WokenEffect ==
    ASSUME NEW t \in Threads, state[t] \in States
    PROVE  /\ Woken(t) \in States
           /\ "W" \notin Woken(t)
           /\ "S" \in Woken(t) <=> "S" \in state[t]
           /\ "R" \in Woken(t) <=> "R" \in state[t] \/ SetRun(t)
           /\ SetRun(t) => "W" \in state[t] /\ "R" \notin state[t]
           /\ Stopped(t) => ~SetRun(t)
  BY DEF Woken, SetRun, Stopped, States

\* What StaysStopped says of one step.
StopsAreKept ==
    \A u \in Threads : Stopped(u) /\ suspend_count'[u] > 0 => Stopped(u)'

\* What a wakeup does to the threads in ts, and that it leaves stopped threads
\* stopped.
LEMMA WakeEffect ==
    ASSUME TypeOK, NeverPanics, QueuesMatchState,
           NEW ts \in SUBSET Threads, NEW result \in Results, Wake(ts, result)
    PROVE  /\ state' \in [Threads -> States]
           /\ wait_event' \in [Threads -> Events \union {NoEvent}]
           /\ interruptible' \in [Threads -> BOOLEAN]
           /\ wait_result' \in [Threads -> Results]
           /\ timer_set' \in [Threads -> BOOLEAN]
           /\ place' \in [Threads -> Places]
           /\ callouts' \in [Threads -> Nat]
           /\ panicked' = "no"
           /\ \A u \in Threads :
                /\ "W" \in state'[u] <=> "W" \in state[u] /\ u \notin ts
                /\ "S" \in state'[u] <=> "S" \in state[u]
                /\ "R" \in state'[u] <=> place'[u] # "off"
                /\ wait_event'[u] = IF u \in ts THEN NoEvent ELSE wait_event[u]
                /\ u \notin ts \/ place[u] # "off" => place'[u] = place[u]
                /\ u \in ts => place'[u] = "off" \/ "W" \notin state'[u]
                /\ Stopped(u) => Stopped(u)'
  <1> DEFINE waiting == {t \in ts : "W" \in state[t]}
  <1> USE WokenEffect
  <1>1. /\ state \in [Threads -> States]
        /\ wait_event \in [Threads -> Events \union {NoEvent}]
        /\ interruptible \in [Threads -> BOOLEAN]
        /\ wait_result \in [Threads -> Results]
        /\ timer_set \in [Threads -> BOOLEAN]
        /\ place \in [Threads -> Places]
        /\ callouts \in [Threads -> Nat]
    BY DEF TypeOK, States, Places
  <1>2. /\ state' = [t \in Threads |-> IF t \in waiting THEN Woken(t) ELSE state[t]]
        /\ wait_event' = [t \in Threads |-> IF t \in ts THEN NoEvent ELSE wait_event[t]]
        /\ interruptible' = [t \in Threads |->
               interruptible[t] \/ (t \in waiting /\ "R" \in state[t])]
        /\ place' = [t \in Threads |->
               IF t \in {u \in waiting : SetRun(u)} THEN "runq" ELSE place[t]]
        /\ panicked' = IF \E t \in {u \in waiting : SetRun(u)} : place[t] # "off"
                       THEN "thread_setrun" ELSE panicked
    BY DEF Wake, ThreadSetRun
  <1>3. /\ state' \in [Threads -> States]
        /\ wait_event' \in [Threads -> Events \union {NoEvent}]
        /\ place' \in [Threads -> Places]
    BY <1>1, <1>2 DEF Places
  <1>4. interruptible' \in [Threads -> BOOLEAN]
    BY <1>2
  <1>5. wait_result' \in [Threads -> Results] /\ timer_set' \in [Threads -> BOOLEAN]
    BY <1>1 DEF Wake
  <1>6. callouts' \in [Threads -> Nat]
    BY <1>1 DEF Wake, Untimeout
  <1>7. \A u \in waiting : SetRun(u) => place[u] = "off"
    BY <1>1 DEF QueuesMatchState
  <1>8. panicked' = "no"
    BY <1>2, <1>7 DEF NeverPanics
  <1>9. ASSUME NEW u \in Threads
        PROVE  /\ "W" \in state'[u] <=> "W" \in state[u] /\ u \notin ts
               /\ "S" \in state'[u] <=> "S" \in state[u]
               /\ "R" \in state'[u] <=> place'[u] # "off"
               /\ wait_event'[u] = IF u \in ts THEN NoEvent ELSE wait_event[u]
               /\ u \notin ts \/ place[u] # "off" => place'[u] = place[u]
               /\ u \in ts => place'[u] = "off" \/ "W" \notin state'[u]
               /\ Stopped(u) => Stopped(u)'
    <2>1. CASE u \in waiting /\ SetRun(u)
      BY <1>1, <1>2, <1>7, <2>1 DEF QueuesMatchState, Stopped
    <2>2. CASE u \in waiting /\ ~SetRun(u)
      BY <1>1, <1>2, <1>7, <2>2 DEF QueuesMatchState, Stopped
    <2>3. CASE u \notin waiting
      BY <1>1, <1>2, <1>7, <2>3 DEF QueuesMatchState, Stopped
    <2>4. QED BY <2>1, <2>2, <2>3
  <1>10. QED BY <1>3, <1>4, <1>5, <1>6, <1>8, <1>9

\* With the queues as they should be, thread_wakeup finds only waiting threads.
LEMMA ThreadWakeupEffect ==
    ASSUME QueuesMatchState, NEW event \in Events, ThreadWakeup(event)
    PROVE  Wake({t \in Threads : wait_event[t] = event}, "AWAKENED")
  BY DEF ThreadWakeup, QueuesMatchState, Events

------------------------------------------------------------------------------
(* Steps that change neither a state word nor a wait *)

\* Only clears, callouts, timers and pending signals change.
LEMMA FrameInv ==
    ASSUME IInv, TypeOK', ClearsHaveThread',
           UNCHANGED <<state, wait_event, interruptible, place, wake_active,
                       counts, stop_posts, pc, target, panicked>>
    PROVE  IInv' /\ StopsAreKept
  <1> USE DEF IInv, counts
  <1>1. NeverPanics' /\ QueuesMatchState' /\ SuspensionsAreCounted'
    BY DEF NeverPanics, QueuesMatchState, SuspensionsAreCounted, UserHold
  <1>2. StopWillBeTold' /\ WaitIsAsserted'
    BY DEF StopWillBeTold, WaitIsAsserted
  <1>3. StopsAreKept
    BY DEF StopsAreKept, Stopped
  <1>4. QED BY <1>1, <1>2, <1>3

\* One agent's call is replaced.
LEMMA CallReplaced ==
    ASSUME IInv, NEW a \in Agents, NEW c \in Calls,
           c.phase # "idle" => c.thread \in Threads,
           clears' = [clears EXCEPT ![a] = c]
    PROVE  clears' \in [Agents -> Calls] /\ ClearsHaveThread'
  <1>1. clears \in [Agents -> Calls] /\ ClearsHaveThread
    BY DEF IInv, TypeOK
  <1>2. clears' \in [Agents -> Calls]
    BY <1>1
  <1>3. ASSUME NEW b \in Agents, clears'[b].phase # "idle"
        PROVE  clears'[b].thread \in Threads
    <2>1. CASE b = a BY <1>1, <1>3, <2>1
    <2>2. CASE b # a BY <1>1, <1>3, <2>2 DEF ClearsHaveThread
    <2>3. QED BY <2>1, <2>2
  <1>4. QED BY <1>2, <1>3 DEF ClearsHaveThread

\* softclock takes up the callout of a thread.
LEMMA SoftclockFireInv ==
    ASSUME IInv, NEW t \in Threads, SoftclockFire(t)
    PROVE  IInv' /\ StopsAreKept
  <1> DEFINE c == Call("fire", t, NoEvent, "TIMED_OUT", FALSE)
  <1>1. c \in Calls /\ c.thread = t
    BY DEF Call, Calls, Results
  <1>2. clears' = [clears EXCEPT ![Softclock] = c]
    BY DEF SoftclockFire
  <1> HIDE DEF c
  <1>3. clears' \in [Agents -> Calls] /\ ClearsHaveThread'
    BY <1>1, <1>2, CallReplaced DEF Agents
  <1>4. callouts' \in [Threads -> Nat]
    BY DEF IInv, TypeOK, SoftclockFire
  <1>5. TypeOK'
    BY <1>3, <1>4 DEF IInv, TypeOK, SoftclockFire, word, counts, client
  <1>6. QED BY <1>3, <1>5, FrameInv DEF SoftclockFire, word, counts, client

\* thread_timeout is about to clear the wait of its thread.
LEMMA ThreadTimeoutInv ==
    ASSUME IInv, ThreadTimeout
    PROVE  IInv' /\ StopsAreKept
  <1> DEFINE t == clears[Softclock].thread
             c == Call("look", t, NoEvent, "TIMED_OUT", FALSE)
  <1>1. t \in Threads
    BY DEF IInv, ClearsHaveThread, ThreadTimeout, Agents
  <1>2. c \in Calls /\ c.thread = t
    BY <1>1 DEF Call, Calls, Results
  <1>3. clears' = [clears EXCEPT ![Softclock] = c]
    BY DEF ThreadTimeout
  <1> HIDE DEF c
  <1>4. clears' \in [Agents -> Calls] /\ ClearsHaveThread'
    BY <1>1, <1>2, <1>3, CallReplaced DEF Agents
  <1>5. timer_set' \in [Threads -> BOOLEAN]
    BY DEF IInv, TypeOK, ThreadTimeout
  <1>6. TypeOK'
    BY <1>4, <1>5 DEF IInv, TypeOK, ThreadTimeout, counts, client
  <1>7. QED BY <1>4, <1>6, FrameInv DEF ThreadTimeout, counts, client

\* psignal is about to clear a wait.
LEMMA PsignalInv ==
    ASSUME IInv, NEW a \in Posters, NEW t \in Threads, Psignal(a, t)
    PROVE  IInv' /\ StopsAreKept
  <1> DEFINE kill == Call("look", t, NoEvent, "SHOULD_TERMINATE", FALSE)
             other == Call("look", t, NoEvent, "INTERRUPTED", TRUE)
  <1>1. kill \in Calls /\ kill.thread = t /\ other \in Calls /\ other.thread = t
    BY DEF Call, Calls, Results
  <1>2. PICK c \in {kill, other} : clears' = [clears EXCEPT ![a] = c]
    BY DEF Psignal
  <1> HIDE DEF kill, other
  <1>3. clears' \in [Agents -> Calls] /\ ClearsHaveThread'
    BY <1>1, <1>2, CallReplaced DEF Agents
  <1>4. sigpending' \in [Threads -> BOOLEAN]
    BY DEF IInv, TypeOK, Psignal
  <1>5. TypeOK'
    BY <1>3, <1>4 DEF IInv, TypeOK, Psignal, word, counts, client
  <1>6. QED BY <1>3, <1>5, FrameInv DEF Psignal, word, counts, client

\* A signal taken.
LEMMA TakeSignalInv ==
    ASSUME IInv, NEW t \in Threads, TakeSignal(t)
    PROVE  IInv' /\ StopsAreKept
  <1>1. TypeOK'
    BY DEF IInv, TypeOK, TakeSignal, word, counts, client
  <1>2. ClearsHaveThread'
    BY DEF IInv, ClearsHaveThread, TakeSignal
  <1>3. QED BY <1>1, <1>2, FrameInv DEF TakeSignal, word, counts, client

------------------------------------------------------------------------------
(* Dispatching *)

\* A thread taken off its run queue has no wait asserted.
LEMMA ChooseThreadInv ==
    ASSUME IInv, NEW t \in Threads, ChooseThread(t)
    PROVE  IInv' /\ StopsAreKept
  <1> USE DEF IInv, ChooseThread, counts, client
  <1>1. TypeOK'
    BY DEF TypeOK
  <1>2. NeverPanics'
    BY DEF NeverPanics
  <1>3. QueuesMatchState'
    BY DEF TypeOK, QueuesMatchState
  <1>4. SuspensionsAreCounted'
    BY DEF TypeOK, SuspensionsAreCounted, UserHold
  <1>5. StopWillBeTold'
    BY DEF TypeOK, StopWillBeTold
  <1>6. WaitIsAsserted'
    BY DEF TypeOK, WaitIsAsserted
  <1>7. ClearsHaveThread'
    BY DEF TypeOK, ClearsHaveThread
  <1>8. StopsAreKept
    BY DEF TypeOK, StopsAreKept, Stopped
  <1>9. QED BY <1>1, <1>2, <1>3, <1>4, <1>5, <1>6, <1>7, <1>8

\* Nor has one that gets a processor.
LEMMA RunThreadInv ==
    ASSUME IInv, NEW t \in Threads, RunThread(t)
    PROVE  IInv' /\ StopsAreKept
  <1> USE DEF IInv, RunThread, counts, client
  <1>1. TypeOK'
    BY DEF TypeOK
  <1>2. NeverPanics'
    BY DEF NeverPanics
  <1>3. QueuesMatchState'
    BY DEF TypeOK, QueuesMatchState
  <1>4. SuspensionsAreCounted'
    BY DEF TypeOK, SuspensionsAreCounted, UserHold
  <1>5. StopWillBeTold'
    BY DEF TypeOK, StopWillBeTold
  <1>6. WaitIsAsserted'
    BY DEF TypeOK, WaitIsAsserted
  <1>7. ClearsHaveThread'
    BY DEF TypeOK, ClearsHaveThread
  <1>8. StopsAreKept
    BY DEF TypeOK, StopsAreKept, Stopped
  <1>9. QED BY <1>1, <1>2, <1>3, <1>4, <1>5, <1>6, <1>7, <1>8

\* The thread that leaves its processor is runnable, stopped, or waiting, and
\* goes on one run queue, one wait queue or none; the panic is not reached.
LEMMA ThreadContinueEffect ==
    ASSUME TypeOK, QueuesMatchState, NEW t \in Threads, place[t] = "cpu",
           ThreadContinue(t)
    PROVE  /\ state' \in [Threads -> States]
           /\ place' \in [Threads -> Places]
           /\ wake_active' \in [Threads -> BOOLEAN]
           /\ stop_posts' \in [Threads -> Nat]
           /\ panicked' = panicked
           /\ \A u \in Threads \ {t} : state'[u] = state[u] /\ place'[u] = place[u]
           /\ "R" \in state[t]
           /\ "W" \in state'[t] <=> "W" \in state[t]
           /\ "S" \in state'[t] <=> "S" \in state[t]
           /\ "R" \in state'[t] <=> place'[t] # "off"
           /\ place'[t] = "off" \/ (place'[t] = "runq" /\ "W" \notin state[t])
           /\ \A u \in Threads :
                wake_active[u] \/ stop_posts[u] > 0
                  => wake_active'[u] \/ stop_posts'[u] > 0
  <1>1. /\ state \in [Threads -> States] /\ place \in [Threads -> Places]
        /\ wake_active \in [Threads -> BOOLEAN] /\ stop_posts \in [Threads -> Nat]
        /\ interruptible[t] \in BOOLEAN
    BY DEF TypeOK, States, Places
  <1>2. "R" \in state[t]
    BY DEF QueuesMatchState
  <1>3. \/ StopThread(t)
        \/ /\ "W" \notin state[t]
           /\ place' = [place EXCEPT ![t] = "runq"]
           /\ UNCHANGED <<state, wake_active, stop_posts, panicked>>
        \/ /\ state' = [state EXCEPT ![t] = @ \ {"R"}]
           /\ place' = [place EXCEPT ![t] = "off"]
           /\ UNCHANGED <<wake_active, stop_posts, panicked>>
    BY <1>1, <1>2, StateCases DEF ThreadContinue
  <1>4. CASE StopThread(t)
    <2>1. /\ state' \in [Threads -> States] /\ place' \in [Threads -> Places]
          /\ wake_active' \in [Threads -> BOOLEAN] /\ panicked' = panicked
          /\ \A u \in Threads \ {t} : state'[u] = state[u] /\ place'[u] = place[u]
          /\ state'[t] = state[t] \ {"R"} /\ place'[t] = "off"
      BY <1>1, <1>4 DEF StopThread, States, Places
    <2>2. stop_posts' \in [Threads -> Nat]
      BY <1>1, <1>4 DEF StopThread
    <2>3. \A u \in Threads : wake_active[u] \/ stop_posts[u] > 0
                               => wake_active'[u] \/ stop_posts'[u] > 0
      BY <1>1, <1>4 DEF StopThread
    <2>4. QED BY <1>2, <2>1, <2>2, <2>3
  <1>5. CASE /\ "W" \notin state[t]
             /\ place' = [place EXCEPT ![t] = "runq"]
             /\ UNCHANGED <<state, wake_active, stop_posts, panicked>>
    BY <1>1, <1>2, <1>5 DEF Places
  <1>6. CASE /\ state' = [state EXCEPT ![t] = @ \ {"R"}]
             /\ place' = [place EXCEPT ![t] = "off"]
             /\ UNCHANGED <<wake_active, stop_posts, panicked>>
    BY <1>1, <1>2, <1>6 DEF States, Places
  <1>7. QED BY <1>3, <1>4, <1>5, <1>6

\* A thread that is preempted has no wait asserted.
LEMMA PreemptInv ==
    ASSUME IInv, NEW t \in Threads, Preempt(t), ThreadContinue(t)
    PROVE  IInv' /\ StopsAreKept
  <1> USE ThreadContinueEffect DEF IInv, Preempt, counts, client
  <1>1. TypeOK'
    BY DEF TypeOK, States, Places
  <1>2. NeverPanics'
    BY DEF NeverPanics
  <1>3. QueuesMatchState'
    BY DEF TypeOK, QueuesMatchState
  <1>4. SuspensionsAreCounted'
    BY DEF TypeOK, SuspensionsAreCounted, UserHold
  <1>5. StopWillBeTold'
    BY DEF TypeOK, StopWillBeTold
  <1>6. WaitIsAsserted'
    BY DEF TypeOK, WaitIsAsserted
  <1>7. ClearsHaveThread'
    BY DEF ClearsHaveThread
  <1>8. StopsAreKept
    BY DEF TypeOK, StopsAreKept, Stopped
  <1>9. QED BY <1>1, <1>2, <1>3, <1>4, <1>5, <1>6, <1>7, <1>8

\* A thread that blocks leaves its processor with the wait it asserted.
LEMMA ThreadBlockInv ==
    ASSUME IInv, NEW t \in Threads, ThreadBlock(t), ThreadContinue(t)
    PROVE  IInv' /\ StopsAreKept
  <1> USE ThreadContinueEffect DEF IInv, ThreadBlock, Goto, counts, client
  <1>1. TypeOK'
    BY DEF TypeOK, States, Places, Blocking, AfterBlock, Labels
  <1>2. NeverPanics'
    BY DEF NeverPanics
  <1>3. QueuesMatchState'
    BY DEF TypeOK, QueuesMatchState
  <1>4. SuspensionsAreCounted'
    BY DEF TypeOK, SuspensionsAreCounted, UserHold
  <1>5. StopWillBeTold'
    BY DEF TypeOK, StopWillBeTold, Blocking, AfterBlock, Labels
  <1>6. WaitIsAsserted'
    BY DEF TypeOK, WaitIsAsserted, Blocking, AfterBlock, Labels
  <1>7. ClearsHaveThread'
    BY DEF ClearsHaveThread
  <1>8. StopsAreKept
    BY DEF TypeOK, StopsAreKept, Stopped
  <1>9. QED BY <1>1, <1>2, <1>3, <1>4, <1>5, <1>6, <1>7, <1>8

\* thread_block may find nothing else to run.
LEMMA NoSwitchInv ==
    ASSUME IInv, NEW t \in Threads, ThreadBlock(t), state[t] = {"R"},
           UNCHANGED <<state, place, wake_active, stop_posts, panicked>>
    PROVE  IInv' /\ StopsAreKept
  <1> USE DEF IInv, ThreadBlock, Goto, counts, client
  <1>1. TypeOK'
    BY DEF TypeOK, Blocking, AfterBlock, Labels
  <1>2. NeverPanics' /\ QueuesMatchState' /\ SuspensionsAreCounted'
    BY DEF NeverPanics, QueuesMatchState, SuspensionsAreCounted, UserHold
  <1>3. StopWillBeTold'
    BY DEF TypeOK, StopWillBeTold, Blocking
  <1>4. WaitIsAsserted'
    BY DEF TypeOK, WaitIsAsserted
  <1>5. ClearsHaveThread' /\ StopsAreKept
    BY DEF ClearsHaveThread, StopsAreKept, Stopped
  <1>6. QED BY <1>1, <1>2, <1>3, <1>4, <1>5

------------------------------------------------------------------------------
(* mpsleep *)

\* A thread that may call assert_wait has no wait asserted, and asserts one.
LEMMA AssertWaitEffect ==
    ASSUME TypeOK, QueuesMatchState, WaitIsAsserted,
           NEW t \in Threads, place[t] = "cpu", pc[t] \in {"run", "dowait", "stop_waited"},
           NEW event \in Events, NEW canstop \in BOOLEAN,
           AssertWait(t, event, canstop)
    PROVE  /\ wait_event' = [wait_event EXCEPT ![t] = event]
           /\ state' = [state EXCEPT ![t] = @ \union {"W"}]
           /\ interruptible' = [interruptible EXCEPT ![t] = canstop]
           /\ panicked' = panicked
           /\ wait_event' \in [Threads -> Events \union {NoEvent}]
           /\ state' \in [Threads -> States]
           /\ interruptible' \in [Threads -> BOOLEAN]
           /\ event # NoEvent
           /\ "R" \in state[t]
           /\ "W" \notin state[t]
  <1>1. "R" \in state[t] /\ "W" \notin state[t]
    BY DEF QueuesMatchState, WaitIsAsserted
  <1>2. wait_event[t] = NoEvent
    BY <1>1 DEF QueuesMatchState
  <1>3. /\ wait_event' = [wait_event EXCEPT ![t] = event]
        /\ state' = [state EXCEPT ![t] = @ \union {"W"}]
        /\ interruptible' = [interruptible EXCEPT ![t] = canstop]
        /\ panicked' = panicked
    BY <1>2 DEF AssertWait
  <1>4. /\ wait_event' \in [Threads -> Events \union {NoEvent}]
        /\ interruptible' \in [Threads -> BOOLEAN]
    BY <1>3 DEF TypeOK
  <1>5. state' \in [Threads -> States]
    BY <1>3 DEF TypeOK, States
  <1>6. event # NoEvent
    BY DEF Events
  <1>7. QED BY <1>1, <1>3, <1>4, <1>5, <1>6

\* assert_wait by mpsleep.
LEMMA MpsleepInv ==
    ASSUME IInv, NEW t \in Threads, Mpsleep(t)
    PROVE  IInv' /\ StopsAreKept
  <1> USE DEF IInv, Mpsleep, OnCpu, Goto, counts
  <1>1. PICK c \in Chans, pcatch \in Catches, timed \in Timos :
          /\ AssertWait(t, c, pcatch)
          /\ catch' = [catch EXCEPT ![t] = pcatch]
          /\ timo' = [timo EXCEPT ![t] = timed]
    OBVIOUS
  <1>2. c \in Events /\ c \notin Threads /\ pcatch \in BOOLEAN /\ timed \in BOOLEAN
    BY DEF Events
  <1>3. /\ wait_event' = [wait_event EXCEPT ![t] = c]
        /\ state' = [state EXCEPT ![t] = @ \union {"W"}]
        /\ interruptible' = [interruptible EXCEPT ![t] = pcatch]
        /\ panicked' = panicked
        /\ wait_event' \in [Threads -> Events \union {NoEvent}]
        /\ state' \in [Threads -> States]
        /\ interruptible' \in [Threads -> BOOLEAN]
        /\ c # NoEvent
        /\ "R" \in state[t]
    BY <1>1, <1>2, AssertWaitEffect
  <1>4. TypeOK'
    BY <1>1, <1>2, <1>3 DEF TypeOK, States, Labels
  <1>5. NeverPanics'
    BY <1>3 DEF NeverPanics
  <1>6. QueuesMatchState'
    BY <1>3 DEF TypeOK, QueuesMatchState
  <1>7. SuspensionsAreCounted'
    BY <1>3 DEF TypeOK, SuspensionsAreCounted, UserHold
  <1>8. StopWillBeTold'
    BY <1>2, <1>3 DEF TypeOK, StopWillBeTold
  <1>9. WaitIsAsserted'
    BY <1>3 DEF TypeOK, WaitIsAsserted
  <1>10. ClearsHaveThread'
    BY DEF ClearsHaveThread
  <1>11. StopsAreKept
    BY <1>3 DEF TypeOK, StopsAreKept, Stopped
  <1>12. QED BY <1>4, <1>5, <1>6, <1>7, <1>8, <1>9, <1>10, <1>11

\* A wakeup, a clear_wait or the end of a sleep keeps all but the promise to
\* those who wait for a stop, if no other waiting thread is moved.
LEMMA WakeInv ==
    ASSUME IInv, NEW ts \in SUBSET Threads, NEW result \in Results,
           Wake(ts, result), UNCHANGED counts,
           \A u \in Threads : "W" \in state[u] /\ u \notin ts => pc'[u] = pc[u]
    PROVE  /\ NeverPanics' /\ QueuesMatchState' /\ SuspensionsAreCounted'
           /\ WaitIsAsserted' /\ StopsAreKept
  <1> USE WakeEffect DEF IInv, counts
  <1>1. NeverPanics'
    BY DEF NeverPanics
  <1>2. QueuesMatchState'
    BY DEF QueuesMatchState
  <1>3. SuspensionsAreCounted'
    BY DEF SuspensionsAreCounted, UserHold
  <1>4. WaitIsAsserted'
    BY DEF WaitIsAsserted
  <1>5. StopsAreKept
    BY DEF StopsAreKept
  <1>6. QED BY <1>1, <1>2, <1>3, <1>4, <1>5

\* What a wakeup changes keeps its type.
LEMMA WakeTyped ==
    ASSUME IInv, NEW ts \in SUBSET Threads, NEW result \in Results,
           Wake(ts, result), UNCHANGED <<wake_active, counts, sigpending, client>>,
           clears' \in [Agents -> Calls], stop_posts' \in [Threads -> Nat],
           pc' \in [Threads -> Labels]
    PROVE  TypeOK'
  <1>1. /\ state' \in [Threads -> States]
        /\ wait_event' \in [Threads -> Events \union {NoEvent}]
        /\ interruptible' \in [Threads -> BOOLEAN]
        /\ wait_result' \in [Threads -> Results]
        /\ timer_set' \in [Threads -> BOOLEAN]
        /\ place' \in [Threads -> Places]
        /\ callouts' \in [Threads -> Nat]
        /\ panicked' = "no"
    BY WakeEffect DEF IInv
  <1>2. QED BY <1>1 DEF IInv, TypeOK, States, Places, counts, client

\* Ending a wait leaves those alone who wait for a stop, if wake_active, the
\* wakeups due and the threads about to post keep what they promise.
LEMMA WakeTells ==
    ASSUME IInv, NEW ts \in SUBSET Threads, NEW result \in Results,
           Wake(ts, result), UNCHANGED <<wake_active, stop_posts, target>>,
           \A w \in Threads : pc[w] = "post" => pc'[w] = "post"
    PROVE  StopWillBeTold'
  <1>1. SUFFICES ASSUME NEW t \in Threads, NEW u \in Threads, wait_event'[t] = u
                 PROVE  (\/ wake_active[u] \/ stop_posts[u] > 0
                         \/ \E w \in Threads : pc[w] = "post" /\ target[w] = u)'
    BY DEF StopWillBeTold
  <1>2. wait_event'[t] = IF t \in ts THEN NoEvent ELSE wait_event[t]
    BY WakeEffect DEF IInv
  <1>3. wait_event[t] = u
    BY <1>1, <1>2
  <1>4. QED BY <1>3 DEF IInv, StopWillBeTold

\* The wakeup of an event that is slept on.
LEMMA WakeupInv ==
    ASSUME IInv, Wakeup
    PROVE  IInv' /\ StopsAreKept
  <1> USE DEF IInv
  <1>1. PICK c \in Chans : ThreadWakeup(c) \/ ThreadWakeupOne(c)
    BY DEF Wakeup
  <1>2. c \in Events /\ "AWAKENED" \in Results
    BY DEF Events, Results
  <1>3. PICK ts \in SUBSET Threads : Wake(ts, "AWAKENED")
    <2>1. CASE ThreadWakeup(c)
      BY <1>2, <2>1, ThreadWakeupEffect
    <2>2. CASE ThreadWakeupOne(c)
      BY <2>2 DEF ThreadWakeupOne
    <2>3. QED BY <1>1, <2>1, <2>2
  <1>4. TypeOK'
    BY <1>2, <1>3, WakeTyped DEF TypeOK, Wakeup
  <1>5. ClearsHaveThread'
    BY DEF ClearsHaveThread, Wakeup
  <1>6. StopWillBeTold'
    BY <1>2, <1>3, WakeTells DEF Wakeup, client
  <1>7. QED BY <1>2, <1>3, <1>4, <1>5, <1>6, WakeInv DEF Wakeup

\* An agent is done with its clear_wait.
LEMMA CallEnds ==
    ASSUME IInv, NEW a \in Agents, clears' = [clears EXCEPT ![a] = Idle]
    PROVE  clears' \in [Agents -> Calls] /\ ClearsHaveThread'
  <1>1. Idle \in Calls /\ Idle.phase = "idle"
    BY DEF Idle, Call, Calls, Results
  <1>2. QED BY <1>1, CallReplaced

\* The first part of clear_wait.
LEMMA ClearLookInv ==
    ASSUME IInv, NEW a \in Agents, ClearLook(a)
    PROVE  IInv' /\ StopsAreKept
  <1> DEFINE t == clears[a].thread
             result == clears[a].result
             only == clears[a].interrupt_only
             c == Call("remove", t, wait_event[t], result, only)
  <1>1. clears[a] \in Calls /\ t \in Threads /\ wait_event[t] \in Events \union {NoEvent}
    BY DEF IInv, TypeOK, ClearsHaveThread, ClearLook
  <1>2. result \in Results /\ only \in BOOLEAN
    BY <1>1 DEF Calls
  <1>3. CASE clears' = [clears EXCEPT ![a] = Idle] /\ UNCHANGED <<word, callouts, panicked>>
    <2>1. clears' \in [Agents -> Calls] /\ ClearsHaveThread'
      BY <1>3, CallEnds
    <2>2. TypeOK'
      BY <1>3, <2>1 DEF IInv, TypeOK, ClearLook, word, counts, client
    <2>3. QED BY <1>3, <2>1, <2>2, FrameInv DEF ClearLook, word, counts, client
  <1>4. CASE clears' = [clears EXCEPT ![a] = Idle] /\ Wake({t}, result)
    <2>1. clears' \in [Agents -> Calls] /\ ClearsHaveThread'
      BY <1>4, CallEnds
    <2>2. stop_posts' \in [Threads -> Nat] /\ pc' \in [Threads -> Labels]
      BY DEF IInv, TypeOK, ClearLook
    <2>3. TypeOK'
      BY <1>1, <1>2, <1>4, <2>1, <2>2, WakeTyped DEF ClearLook
    <2>4. StopWillBeTold'
      BY <1>1, <1>2, <1>4, WakeTells DEF ClearLook, client
    <2>5. QED BY <1>1, <1>2, <1>4, <2>1, <2>3, <2>4, WakeInv DEF IInv, ClearLook
  <1>5. CASE /\ clears' = [clears EXCEPT ![a] = c]
             /\ UNCHANGED <<word, callouts, panicked>>
    <2>1. c \in Calls /\ c.thread = t
      BY <1>1, <1>2 DEF Call, Calls
    <2> HIDE DEF c, t
    <2>2. clears' \in [Agents -> Calls] /\ ClearsHaveThread'
      BY <1>1, <1>5, <2>1, CallReplaced
    <2>3. TypeOK'
      BY <1>5, <2>2 DEF IInv, TypeOK, ClearLook, word, counts, client
    <2>4. QED BY <1>5, <2>2, <2>3, FrameInv DEF ClearLook, word, counts, client
  <1>6. QED BY <1>3, <1>4, <1>5 DEF ClearLook

\* The second part of clear_wait, which may find the thread gone.
LEMMA ClearRemoveInv ==
    ASSUME IInv, NEW a \in Agents, ClearRemove(a)
    PROVE  IInv' /\ StopsAreKept
  <1> DEFINE t == clears[a].thread
             result == clears[a].result
  <1>1. t \in Threads /\ result \in Results
    BY DEF IInv, TypeOK, ClearsHaveThread, ClearRemove, Calls
  <1>2. clears' \in [Agents -> Calls] /\ ClearsHaveThread'
    BY CallEnds DEF ClearRemove
  <1>3. CASE Wake({t}, result)
    <2>1. stop_posts' \in [Threads -> Nat] /\ pc' \in [Threads -> Labels]
      BY DEF IInv, TypeOK, ClearRemove
    <2>2. TypeOK'
      BY <1>1, <1>2, <1>3, <2>1, WakeTyped DEF ClearRemove
    <2>3. StopWillBeTold'
      BY <1>1, <1>3, WakeTells DEF ClearRemove, client
    <2>4. QED BY <1>1, <1>2, <1>3, <2>2, <2>3, WakeInv DEF IInv, ClearRemove
  <1>4. CASE UNCHANGED <<word, callouts, panicked>>
    <2>1. TypeOK'
      BY <1>2, <1>4 DEF IInv, TypeOK, ClearRemove, word, counts, client
    <2>2. QED BY <1>2, <1>4, <2>1, FrameInv DEF ClearRemove, word, counts, client
  <1>5. QED BY <1>3, <1>4 DEF ClearRemove

\* mpsleep ends its own sleep because of a signal.
LEMMA GiveUpSleepInv ==
    ASSUME IInv, NEW t \in Threads, pc[t] # "post", GiveUpSleep(t)
    PROVE  IInv' /\ StopsAreKept
  <1>1. "INTERRUPTED" \in Results
    BY DEF Results
  <1>2. pc' \in [Threads -> Labels] /\ \A u \in Threads : u # t => pc'[u] = pc[u]
    BY DEF IInv, TypeOK, GiveUpSleep, Goto, Labels
  <1>3. clears' \in [Agents -> Calls] /\ stop_posts' \in [Threads -> Nat]
    BY DEF IInv, TypeOK, GiveUpSleep
  <1>4. TypeOK'
    BY <1>1, <1>2, <1>3, WakeTyped DEF GiveUpSleep, client
  <1>5. ClearsHaveThread'
    BY DEF IInv, ClearsHaveThread, GiveUpSleep
  <1>6. StopWillBeTold'
    BY <1>1, <1>2, WakeTells DEF GiveUpSleep
  <1>7. QED BY <1>1, <1>2, <1>4, <1>5, <1>6, WakeInv DEF IInv, GiveUpSleep

\* What mpsleep does after its look for signals.
LEMMA CheckSignalsInv ==
    ASSUME IInv, NEW t \in Threads, CheckSignals(t)
    PROVE  IInv' /\ StopsAreKept
  <1> USE DEF IInv, OnCpu, Goto
  <1>1. pc[t] = "asserted" /\ place[t] = "cpu"
    BY DEF CheckSignals
  <1>2. CASE GiveUpSleep(t)
    BY <1>1, <1>2, GiveUpSleepInv
  <1>3. CASE /\ interruptible' = [interruptible EXCEPT ![t] = FALSE]
             /\ pc' = [pc EXCEPT ![t] = "to_master"]
             /\ UNCHANGED <<state, wait_event, wait_result, place, timer_set,
                            wake_active, counts, callouts, sigpending, clears,
                            stop_posts, client, panicked>>
    <2> USE <1>1, <1>3 DEF counts, client
    <2>1. TypeOK'
      BY DEF TypeOK, Labels
    <2>2. NeverPanics' /\ QueuesMatchState' /\ SuspensionsAreCounted'
      BY DEF NeverPanics, QueuesMatchState, SuspensionsAreCounted, UserHold
    <2>3. StopWillBeTold'
      BY DEF TypeOK, StopWillBeTold
    <2>4. WaitIsAsserted'
      BY DEF TypeOK, WaitIsAsserted
    <2>5. ClearsHaveThread'
      BY DEF ClearsHaveThread
    <2>6. StopsAreKept
      BY DEF TypeOK, StopsAreKept, Stopped, QueuesMatchState
    <2>7. QED BY <2>1, <2>2, <2>3, <2>4, <2>5, <2>6
  <1>4. CASE /\ pc' = [pc EXCEPT ![t] = IF timo[t] THEN "arming" ELSE "blocking"]
             /\ UNCHANGED <<word, wake_active, counts, callouts, sigpending,
                            clears, stop_posts, client, panicked>>
    <2> USE <1>1, <1>4 DEF word, counts, client
    <2>1. TypeOK'
      BY DEF TypeOK, Labels
    <2>2. NeverPanics' /\ QueuesMatchState' /\ SuspensionsAreCounted'
      BY DEF NeverPanics, QueuesMatchState, SuspensionsAreCounted, UserHold
    <2>3. StopWillBeTold'
      BY DEF TypeOK, StopWillBeTold
    <2>4. WaitIsAsserted'
      BY DEF TypeOK, WaitIsAsserted
    <2>5. ClearsHaveThread' /\ StopsAreKept
      BY DEF ClearsHaveThread, StopsAreKept, Stopped
    <2>6. QED BY <2>1, <2>2, <2>3, <2>4, <2>5
  <1>5. QED BY <1>2, <1>3, <1>4 DEF CheckSignals

\* mpsleep gives up its sleep after its detour to the master processor.
LEMMA AtMasterInv ==
    ASSUME IInv, NEW t \in Threads, AtMaster(t)
    PROVE  IInv' /\ StopsAreKept
  BY GiveUpSleepInv DEF AtMaster, OnCpu

\* The timer, and the way to thread_block.
LEMMA ThreadSetTimeoutInv ==
    ASSUME IInv, NEW t \in Threads, ThreadSetTimeout(t)
    PROVE  IInv' /\ StopsAreKept
  <1> USE DEF IInv, ThreadSetTimeout, OnCpu, Goto, counts, client
  <1>1. TypeOK'
    <2>1. timer_set' \in [Threads -> BOOLEAN] /\ pc' \in [Threads -> Labels]
      BY DEF TypeOK, Labels
    <2>2. callouts' \in [Threads -> Nat]
      BY DEF TypeOK
    <2>3. QED BY <2>1, <2>2, SMTT(30) DEF TypeOK
  <1>2. NeverPanics'
    BY DEF NeverPanics
  <1>3. QueuesMatchState'
    BY DEF TypeOK, QueuesMatchState
  <1>4. SuspensionsAreCounted'
    BY DEF TypeOK, SuspensionsAreCounted, UserHold
  <1>5. StopWillBeTold'
    BY DEF TypeOK, StopWillBeTold
  <1>6. WaitIsAsserted'
    BY DEF TypeOK, WaitIsAsserted
  <1>7. ClearsHaveThread'
    BY DEF TypeOK, ClearsHaveThread
  <1>8. StopsAreKept
    BY DEF TypeOK, StopsAreKept, Stopped
  <1>9. QED BY <1>1, <1>2, <1>3, <1>4, <1>5, <1>6, <1>7, <1>8

\* The way out of mpsleep.
LEMMA MpsleepReturnInv ==
    ASSUME IInv, NEW t \in Threads, MpsleepReturn(t)
    PROVE  IInv' /\ StopsAreKept
  <1> USE DEF IInv, MpsleepReturn, Goto, counts, client
  <1>1. TypeOK'
    BY DEF TypeOK, Labels
  <1>2. NeverPanics'
    BY DEF NeverPanics
  <1>3. QueuesMatchState'
    BY DEF TypeOK, QueuesMatchState
  <1>4. SuspensionsAreCounted'
    BY DEF TypeOK, SuspensionsAreCounted, UserHold
  <1>5. StopWillBeTold'
    BY DEF TypeOK, StopWillBeTold
  <1>6. WaitIsAsserted'
    BY DEF TypeOK, WaitIsAsserted
  <1>7. ClearsHaveThread'
    BY DEF TypeOK, ClearsHaveThread
  <1>8. StopsAreKept
    <2>1. "R" \in state[t]
      BY DEF QueuesMatchState
    <2>2. \A u \in Threads : u # t => interruptible'[u] = interruptible[u]
      BY DEF TypeOK
    <2>3. QED BY <2>1, <2>2 DEF StopsAreKept, Stopped
  <1>9. QED BY <1>1, <1>2, <1>3, <1>4, <1>5, <1>6, <1>7, <1>8

------------------------------------------------------------------------------
(* Suspending *)

\* A hold stops nobody yet.
LEMMA ThreadHoldInv ==
    ASSUME IInv, NEW u \in Threads, ThreadHold(u)
    PROVE  IInv' /\ StopsAreKept
  <1> USE DEF IInv, ThreadHold, Suspended, client
  <1>1. TypeOK'
    BY DEF TypeOK
  <1>2. NeverPanics'
    BY DEF NeverPanics
  <1>3. QueuesMatchState'
    BY DEF TypeOK, QueuesMatchState
  <1>4. SuspensionsAreCounted'
    BY DEF TypeOK, SuspensionsAreCounted, UserHold
  <1>5. StopWillBeTold'
    BY DEF TypeOK, StopWillBeTold
  <1>6. WaitIsAsserted'
    BY DEF TypeOK, WaitIsAsserted
  <1>7. ClearsHaveThread'
    BY DEF TypeOK, ClearsHaveThread
  <1>8. StopsAreKept
    <2>1. \A v \in Threads : /\ "S" \in state[v] => "S" \in state'[v]
                             /\ "R" \in state'[v] => "R" \in state[v]
      BY DEF TypeOK
    <2>2. QED BY <2>1 DEF StopsAreKept, Stopped
  <1>9. QED BY <1>1, <1>2, <1>3, <1>4, <1>5, <1>6, <1>7, <1>8

\* thread_suspend, up to the wait for the thread to stop.
LEMMA ThreadSuspendInv ==
    ASSUME IInv, NEW t \in Threads, NEW u \in Threads, ThreadSuspend(t, u)
    PROVE  IInv' /\ StopsAreKept
  <1> USE DEF IInv, ThreadSuspend, OnCpu, Goto
  <1>1. /\ state' \in [Threads -> States] /\ suspend_count' \in [Threads -> Nat]
        /\ \A v \in Threads : /\ "S" \in state[v] => "S" \in state'[v]
                              /\ "R" \in state'[v] <=> "R" \in state[v]
                              /\ "W" \in state'[v] <=> "W" \in state[v]
    BY DEF TypeOK, Suspended, States
  <1>2. /\ user_stop_count' = [user_stop_count EXCEPT ![u] = @ + 1]
        /\ user_stop_count' \in [Threads -> Nat]
    BY DEF TypeOK
  <1>3. /\ pc' \in [Threads -> Labels] /\ target' \in [Threads -> Threads]
        /\ \A v \in Threads : v # t => pc'[v] = pc[v] /\ target'[v] = target[v]
    BY DEF TypeOK, Labels
  <1>4. TypeOK'
    BY <1>1, <1>2, <1>3 DEF TypeOK, States
  <1>5. NeverPanics' /\ ClearsHaveThread'
    BY DEF NeverPanics, ClearsHaveThread
  <1>6. QueuesMatchState'
    BY <1>1 DEF QueuesMatchState
  <1>7. SuspensionsAreCounted'
    <2>1. CASE user_stop_count[u] = 0
      BY <2>1, <1>2 DEF TypeOK, SuspensionsAreCounted, UserHold, Suspended
    <2>2. CASE user_stop_count[u] # 0
      BY <2>2, <1>2 DEF TypeOK, SuspensionsAreCounted, UserHold
    <2>3. QED BY <2>1, <2>2
  <1>8. StopWillBeTold'
    BY <1>3 DEF StopWillBeTold
  <1>9. WaitIsAsserted'
    BY <1>1, <1>3 DEF WaitIsAsserted
  <1>10. StopsAreKept
    BY <1>1 DEF StopsAreKept, Stopped
  <1>11. QED BY <1>4, <1>5, <1>6, <1>7, <1>8, <1>9, <1>10

\* What the last release does to the state word of the thread: TH_SUSP goes,
\* and a thread that had stopped becomes runnable on a run queue.
LEMMA ReleasedEffect ==
    ASSUME TypeOK, NeverPanics, QueuesMatchState, SuspensionsAreCounted,
           NEW u \in Threads, suspend_count[u] > 0, Released(u)
    PROVE  /\ state' \in [Threads -> States]
           /\ place' \in [Threads -> Places]
           /\ suspend_count' \in [Threads -> Nat]
           /\ panicked' = panicked
           /\ suspend_count' = [suspend_count EXCEPT ![u] = @ - 1]
           /\ \A v \in Threads :
                /\ "W" \in state'[v] <=> "W" \in state[v]
                /\ "S" \in state'[v] <=> suspend_count'[v] > 0
                /\ "R" \in state'[v] <=> place'[v] # "off"
                /\ "W" \in state'[v] => place'[v] = place[v]
                /\ place'[v] = place[v] \/ (place'[v] = "runq" /\ "W" \notin state[v])
                /\ suspend_count'[v] > 0 => state'[v] = state[v]
  <1>1. /\ state \in [Threads -> States] /\ place \in [Threads -> Places]
        /\ suspend_count \in [Threads -> Nat]
        /\ suspend_count' = [suspend_count EXCEPT ![u] = @ - 1]
    BY DEF TypeOK, States, Places, Released
  <1>2. suspend_count' \in [Threads -> Nat] /\ suspend_count'[u] = suspend_count[u] - 1
    BY <1>1
  <1>3. \A v \in Threads : v # u => suspend_count'[v] = suspend_count[v]
    BY <1>1
  <1>4. CASE suspend_count[u] # 1
    <2>1. UNCHANGED <<state, place, panicked>>
      BY <1>4 DEF Released
    <2>2. \A v \in Threads : "S" \in state'[v] <=> suspend_count'[v] > 0
      BY <1>1, <1>2, <1>3, <1>4, <2>1 DEF SuspensionsAreCounted
    <2>3. QED BY <1>1, <1>2, <2>1, <2>2 DEF QueuesMatchState
  <1>5. CASE suspend_count[u] = 1 /\ state[u] = {"S"}
    <2>1. place[u] = "off" /\ "R" \notin state[u]
      BY <1>5 DEF QueuesMatchState
    <2>2. /\ state' = [state EXCEPT ![u] = {"R"}]
          /\ place' = [v \in Threads |-> IF v \in {u} THEN "runq" ELSE place[v]]
          /\ panicked' = IF \E v \in {u} : place[v] # "off" THEN "thread_setrun"
                                                            ELSE panicked
      BY <1>5 DEF Released, ThreadSetRun
    <2>3. panicked' = panicked
      BY <2>1, <2>2
    <2>4. state' \in [Threads -> States] /\ place' \in [Threads -> Places]
      BY <1>1, <2>2 DEF States, Places
    <2>5. \A v \in Threads : "S" \in state'[v] <=> suspend_count'[v] > 0
      BY <1>1, <1>2, <1>3, <1>5, <2>2 DEF SuspensionsAreCounted
    <2>6. suspend_count'[u] = 0
      BY <1>2, <1>5
    <2>7. \A v \in Threads \ {u} : state'[v] = state[v] /\ place'[v] = place[v]
      BY <1>1, <2>2
    <2>8. state'[u] = {"R"} /\ place'[u] = "runq" /\ "W" \notin state[u]
      BY <1>1, <1>5, <2>2
    <2>9. QED BY <1>1, <1>2, <2>3, <2>4, <2>5, <2>6, <2>7, <2>8 DEF QueuesMatchState
  <1>6. CASE suspend_count[u] = 1 /\ state[u] # {"S"}
    <2>1. /\ state' = [state EXCEPT ![u] = @ \ {"S"}]
          /\ UNCHANGED <<place, panicked>>
      BY <1>6 DEF Released
    <2>2. state' \in [Threads -> States]
      BY <1>1, <2>1 DEF States
    <2>3. \A v \in Threads : "S" \in state'[v] <=> suspend_count'[v] > 0
      BY <1>1, <1>2, <1>3, <1>6, <2>1 DEF SuspensionsAreCounted
    <2>4. suspend_count'[u] = 0
      BY <1>2, <1>6
    <2>5. \A v \in Threads \ {u} : state'[v] = state[v]
      BY <1>1, <2>1
    <2>6. state'[u] = state[u] \ {"S"}
      BY <1>1, <2>1
    <2>7. QED BY <1>1, <1>2, <2>1, <2>2, <2>3, <2>4, <2>5, <2>6 DEF QueuesMatchState
  <1>7. QED BY <1>4, <1>5, <1>6

\* A release keeps the invariant if user_stop_count still has its hold.
LEMMA ReleasedInv ==
    ASSUME IInv, NEW u \in Threads, suspend_count[u] > 0, Released(u),
           user_stop_count' \in [Threads -> Nat],
           suspend_count[u] - 1 >= UserHold(u)',
           \A v \in Threads : v # u => UserHold(v)' = UserHold(v),
           UNCHANGED <<wait_event, interruptible, wait_result, timer_set,
                       wake_active, callouts, sigpending, clears, stop_posts, pc,
                       client>>
    PROVE  IInv' /\ StopsAreKept
  <1> USE DEF IInv, client
  <1>1. /\ state' \in [Threads -> States]
        /\ place' \in [Threads -> Places]
        /\ suspend_count' \in [Threads -> Nat]
        /\ panicked' = panicked
        /\ suspend_count' = [suspend_count EXCEPT ![u] = @ - 1]
        /\ \A v \in Threads :
             /\ "W" \in state'[v] <=> "W" \in state[v]
             /\ "S" \in state'[v] <=> suspend_count'[v] > 0
             /\ "R" \in state'[v] <=> place'[v] # "off"
             /\ "W" \in state'[v] => place'[v] = place[v]
             /\ place'[v] = place[v] \/ (place'[v] = "runq" /\ "W" \notin state[v])
             /\ suspend_count'[v] > 0 => state'[v] = state[v]
    BY ReleasedEffect
  <1>2. TypeOK'
    BY <1>1 DEF TypeOK, States, Places
  <1>3. NeverPanics' /\ ClearsHaveThread'
    BY <1>1 DEF NeverPanics, ClearsHaveThread
  <1>4. QueuesMatchState'
    BY <1>1 DEF QueuesMatchState
  <1>5. SuspensionsAreCounted'
    <2>1. \A v \in Threads : suspend_count'[v] >= UserHold(v)'
      <3>1. TAKE v \in Threads
      <3>2. CASE v = u
        BY <1>1, <3>2 DEF TypeOK
      <3>3. CASE v # u
        BY <1>1, <3>3 DEF TypeOK, SuspensionsAreCounted
      <3>4. QED BY <3>2, <3>3
    <2>2. QED BY <1>1, <2>1 DEF SuspensionsAreCounted
  <1>6. StopWillBeTold'
    BY DEF StopWillBeTold
  <1>7. WaitIsAsserted'
    BY <1>1 DEF WaitIsAsserted
  <1>8. StopsAreKept
    BY <1>1 DEF StopsAreKept, Stopped
  <1>9. QED BY <1>2, <1>3, <1>4, <1>5, <1>6, <1>7, <1>8

\* thread_release leaves the suspension that user_stop_count owns.
LEMMA ThreadReleaseInv ==
    ASSUME IInv, NEW u \in Threads, ThreadRelease(u)
    PROVE  IInv' /\ StopsAreKept
  <1>1. suspend_count[u] \in Nat /\ user_stop_count' = user_stop_count
    BY DEF IInv, TypeOK, ThreadRelease
  <1>2. \A v \in Threads : UserHold(v)' = UserHold(v)
    BY <1>1 DEF UserHold
  <1>3. UserHold(u) \in {0, 1} /\ suspend_count[u] > UserHold(u)
    BY DEF UserHold, ThreadRelease
  <1>4. suspend_count[u] > 0 /\ suspend_count[u] - 1 >= UserHold(u)'
    BY <1>1, <1>2, <1>3
  <1>5. user_stop_count' \in [Threads -> Nat]
    BY <1>1 DEF IInv, TypeOK
  <1>6. QED BY <1>2, <1>4, <1>5, ReleasedInv DEF ThreadRelease

\* thread_resume takes back the one hold of all the suspensions by users.
LEMMA ThreadResumeInv ==
    ASSUME IInv, NEW u \in Threads, ThreadResume(u)
    PROVE  IInv' /\ StopsAreKept
  <1>1. /\ user_stop_count' = [user_stop_count EXCEPT ![u] = @ - 1]
        /\ user_stop_count \in [Threads -> Nat] /\ user_stop_count[u] > 0
    BY DEF IInv, TypeOK, ThreadResume
  <1>2. user_stop_count' \in [Threads -> Nat]
    BY <1>1
  <1>3. \A v \in Threads : v # u => UserHold(v)' = UserHold(v)
    BY <1>1 DEF UserHold
  <1>4. suspend_count[u] \in Nat /\ suspend_count[u] > 0
    BY <1>1 DEF IInv, TypeOK, SuspensionsAreCounted, UserHold
  <1>5. CASE user_stop_count[u] = 1
    <2>1. UserHold(u)' = 0
      BY <1>1, <1>5 DEF UserHold
    <2>2. QED BY <1>2, <1>3, <1>4, <1>5, <2>1, ReleasedInv DEF ThreadResume
  <1>6. CASE user_stop_count[u] # 1
    <2> USE DEF IInv, ThreadResume, client
    <2>1. UserHold(u)' = UserHold(u)
      BY <1>1, <1>6 DEF UserHold
    <2>2. UNCHANGED <<state, suspend_count, place, panicked>>
      BY <1>6
    <2>3. TypeOK'
      BY <1>2, <2>2 DEF TypeOK
    <2>4. NeverPanics' /\ QueuesMatchState' /\ ClearsHaveThread'
      BY <2>2 DEF NeverPanics, QueuesMatchState, ClearsHaveThread
    <2>5. SuspensionsAreCounted'
      BY <1>3, <2>1, <2>2 DEF SuspensionsAreCounted
    <2>6. StopWillBeTold' /\ WaitIsAsserted'
      BY <2>2 DEF StopWillBeTold, WaitIsAsserted
    <2>7. StopsAreKept
      BY <2>2 DEF StopsAreKept, Stopped
    <2>8. QED BY <2>3, <2>4, <2>5, <2>6, <2>7
  <1>7. QED BY <1>5, <1>6

\* The wakeup of &u->wake_active wakes all that wait for u to stop.
LEMMA WakeupOfStop ==
    ASSUME IInv, NEW u \in Threads, ThreadWakeup(u)
    PROVE  /\ Wake({t \in Threads : wait_event[t] = u}, "AWAKENED")
           /\ {t \in Threads : wait_event[t] = u} \in SUBSET Threads
           /\ "AWAKENED" \in Results
           /\ \A t \in Threads :
                wait_event'[t] \in Threads => wait_event'[t] = wait_event[t]
                                              /\ wait_event[t] # u
  <1> DEFINE ts == {t \in Threads : wait_event[t] = u}
  <1>1. u \in Events /\ "AWAKENED" \in Results /\ ts \in SUBSET Threads
    BY DEF Events, Results
  <1>2. Wake(ts, "AWAKENED")
    BY <1>1, ThreadWakeupEffect DEF IInv
  <1>3. \A t \in Threads : wait_event'[t] = IF t \in ts THEN NoEvent ELSE wait_event[t]
    BY <1>1, <1>2, WakeEffect DEF IInv
  <1>4. QED BY <1>1, <1>2, <1>3

\* The wakeup of a stop is done, and nobody is left who waits for it.
LEMMA PostStopInv ==
    ASSUME IInv, NEW u \in Threads, PostStop(u)
    PROVE  IInv' /\ StopsAreKept
  <1> DEFINE ts == {t \in Threads : wait_event[t] = u}
  <1>1. /\ Wake(ts, "AWAKENED") /\ ts \in SUBSET Threads /\ "AWAKENED" \in Results
        /\ \A t \in Threads :
             wait_event'[t] \in Threads => wait_event'[t] = wait_event[t]
                                           /\ wait_event[t] # u
    BY WakeupOfStop DEF PostStop
  <1> HIDE DEF ts
  <1>2. clears' \in [Agents -> Calls] /\ pc' \in [Threads -> Labels] /\ ClearsHaveThread'
    BY DEF IInv, TypeOK, PostStop, ClearsHaveThread
  <1>3. stop_posts' \in [Threads -> Nat]
    BY DEF IInv, TypeOK, PostStop
  <1>4. TypeOK'
    BY <1>1, <1>2, <1>3, WakeTyped DEF PostStop
  <1>5. StopWillBeTold'
    BY <1>1 DEF IInv, TypeOK, StopWillBeTold, PostStop, client
  <1>6. QED BY <1>1, <1>2, <1>4, <1>5, WakeInv DEF IInv, PostStop

\* The same for the wakeup by thread_dowait.
LEMMA DowaitPostInv ==
    ASSUME IInv, NEW t \in Threads, DowaitPost(t)
    PROVE  IInv' /\ StopsAreKept
  <1> DEFINE u == target[t]
             ts == {w \in Threads : wait_event[w] = u}
  <1>1. u \in Threads
    BY DEF IInv, TypeOK
  <1>2. /\ Wake(ts, "AWAKENED") /\ ts \in SUBSET Threads /\ "AWAKENED" \in Results
        /\ \A w \in Threads :
             wait_event'[w] \in Threads => wait_event'[w] = wait_event[w]
                                           /\ wait_event[w] # u
    BY <1>1, WakeupOfStop DEF DowaitPost
  <1> HIDE DEF ts
  <1>3. /\ clears' \in [Agents -> Calls] /\ stop_posts' \in [Threads -> Nat]
        /\ ClearsHaveThread'
    BY DEF IInv, TypeOK, DowaitPost, ClearsHaveThread
  <1>4. /\ pc' \in [Threads -> Labels]
        /\ \A w \in Threads : w # t => pc'[w] = pc[w]
    BY DEF IInv, TypeOK, DowaitPost, Goto, Labels
  <1>5. TypeOK'
    BY <1>2, <1>3, <1>4, WakeTyped DEF DowaitPost
  <1>6. StopWillBeTold'
    BY <1>2, <1>4 DEF IInv, StopWillBeTold, DowaitPost, client
  <1>7. "W" \notin state[t]
    BY DEF IInv, WaitIsAsserted, DowaitPost, OnCpu
  <1>8. QED BY <1>2, <1>3, <1>4, <1>5, <1>6, <1>7, WakeInv DEF IInv, DowaitPost

\* A turn of the loop in thread_dowait leaves, or sets wake_active and sleeps.
LEMMA AwaitStopInv ==
    ASSUME IInv, NEW t \in Threads, place[t] = "cpu",
           pc[t] \in {"dowait", "stop_waited"}, NEW u \in Threads, AwaitStop(t, u),
           UNCHANGED <<wait_result, place, timer_set, counts, callouts,
                       sigpending, clears, stop_posts, client>>
    PROVE  IInv' /\ StopsAreKept
  <1> USE DEF IInv, Goto, counts, client
  <1>1. "R" \in state[t] /\ "W" \notin state[t]
    BY DEF QueuesMatchState, WaitIsAsserted
  <1>2. CASE Stopped(u)
    <2>1. /\ pc' = [pc EXCEPT ![t] = "run"]
          /\ UNCHANGED <<state, wait_event, interruptible, wake_active, panicked>>
      BY <1>2 DEF AwaitStop
    <2> USE <2>1
    <2>2. TypeOK'
      BY DEF TypeOK, Labels
    <2>3. NeverPanics' /\ QueuesMatchState' /\ SuspensionsAreCounted'
      BY DEF NeverPanics, QueuesMatchState, SuspensionsAreCounted, UserHold
    <2>4. StopWillBeTold'
      BY DEF TypeOK, StopWillBeTold
    <2>5. WaitIsAsserted'
      BY <1>1 DEF TypeOK, WaitIsAsserted
    <2>6. ClearsHaveThread' /\ StopsAreKept
      BY DEF ClearsHaveThread, StopsAreKept, Stopped
    <2>7. QED BY <2>2, <2>3, <2>4, <2>5, <2>6
  <1>3. CASE ~Stopped(u)
    <2>1. /\ AssertWait(t, u, FALSE)
          /\ wake_active' = [wake_active EXCEPT ![u] = TRUE]
          /\ pc' = [pc EXCEPT ![t] = "stop_wait"]
      BY <1>3 DEF AwaitStop
    <2>2. u \in Events
      BY DEF Events
    <2>3. /\ wait_event' = [wait_event EXCEPT ![t] = u]
          /\ state' = [state EXCEPT ![t] = @ \union {"W"}]
          /\ interruptible' = [interruptible EXCEPT ![t] = FALSE]
          /\ panicked' = panicked
          /\ wait_event' \in [Threads -> Events \union {NoEvent}]
          /\ state' \in [Threads -> States]
          /\ interruptible' \in [Threads -> BOOLEAN]
          /\ u # NoEvent
      BY <2>1, <2>2, AssertWaitEffect
    <2>4. /\ wake_active' \in [Threads -> BOOLEAN]
          /\ \A v \in Threads : wake_active[v] => wake_active'[v]
          /\ wake_active'[u]
      BY <2>1 DEF TypeOK
    <2>5. TypeOK'
      BY <2>1, <2>3, <2>4 DEF TypeOK, States, Labels
    <2>6. NeverPanics' /\ ClearsHaveThread'
      BY <2>3 DEF NeverPanics, ClearsHaveThread
    <2>7. QueuesMatchState'
      BY <1>1, <2>3 DEF TypeOK, QueuesMatchState
    <2>8. SuspensionsAreCounted'
      BY <2>3 DEF TypeOK, SuspensionsAreCounted, UserHold
    <2>9. \A v \in Threads : v # t => wait_event'[v] = wait_event[v] /\ pc'[v] = pc[v]
      BY <2>1, <2>3 DEF TypeOK
    <2>10. wait_event'[t] = u
      BY <2>3 DEF TypeOK
    <2>11. StopWillBeTold'
      BY <2>4, <2>9, <2>10 DEF StopWillBeTold
    <2>12. WaitIsAsserted'
      BY <2>1, <2>3 DEF TypeOK, WaitIsAsserted
    <2>13. StopsAreKept
      BY <1>1, <2>3 DEF TypeOK, StopsAreKept, Stopped
    <2>14. QED BY <2>5, <2>6, <2>7, <2>8, <2>11, <2>12, <2>13
  <1>4. QED BY <1>2, <1>3

\* A further turn of the loop.
LEMMA DowaitAgainInv ==
    ASSUME IInv, NEW t \in Threads, DowaitAgain(t)
    PROVE  IInv' /\ StopsAreKept
  <1>1. target[t] \in Threads
    BY DEF IInv, TypeOK
  <1>2. QED BY <1>1, AwaitStopInv DEF DowaitAgain, OnCpu

\* thread_dowait takes a runnable thread off its run queue, and posts its stop
\* in its place.
LEMMA ThreadDowaitInv ==
    ASSUME IInv, NEW t \in Threads, ThreadDowait(t)
    PROVE  IInv' /\ StopsAreKept
  <1> DEFINE u == target[t]
  <1> USE DEF IInv, Goto, counts, client
  <1>1. u \in Threads /\ place[t] = "cpu" /\ pc[t] = "dowait" /\ "W" \notin state[t]
    BY DEF TypeOK, ThreadDowait, OnCpu, WaitIsAsserted
  <1>2. CASE AwaitStop(t, u) /\ UNCHANGED place
    BY <1>1, <1>2, AwaitStopInv DEF ThreadDowait
  <1>3. CASE /\ pc' = [pc EXCEPT ![t] = "run"]
             /\ UNCHANGED <<state, wait_event, interruptible, place, wake_active,
                            panicked>>
    <2> USE <1>1, <1>3 DEF ThreadDowait
    <2>1. TypeOK'
      BY DEF TypeOK, Labels
    <2>2. NeverPanics' /\ QueuesMatchState' /\ SuspensionsAreCounted'
      BY DEF NeverPanics, QueuesMatchState, SuspensionsAreCounted, UserHold
    <2>3. StopWillBeTold'
      BY DEF TypeOK, StopWillBeTold
    <2>4. WaitIsAsserted'
      BY DEF TypeOK, WaitIsAsserted
    <2>5. ClearsHaveThread' /\ StopsAreKept
      BY DEF ClearsHaveThread, StopsAreKept, Stopped
    <2>6. QED BY <2>1, <2>2, <2>3, <2>4, <2>5
  <1>4. CASE /\ state[u] = {"R", "S"} /\ interruptible[u] /\ place[u] = "runq"
             /\ state' = [state EXCEPT ![u] = {"S"}]
             /\ place' = [place EXCEPT ![u] = "off"]
             /\ wake_active' = [wake_active EXCEPT ![u] = FALSE]
             /\ pc' = [pc EXCEPT ![t] = IF wake_active[u] THEN "post" ELSE "run"]
             /\ UNCHANGED <<wait_event, interruptible, panicked>>
    <2>1. u # t
      BY <1>1, <1>4
    <2>2. /\ state' \in [Threads -> States] /\ place' \in [Threads -> Places]
          /\ \A v \in Threads \ {u} : state'[v] = state[v] /\ place'[v] = place[v]
          /\ state'[u] = {"S"} /\ place'[u] = "off"
      BY <1>1, <1>4 DEF TypeOK, States, Places
    <2>3. /\ wake_active' \in [Threads -> BOOLEAN]
          /\ pc' \in [Threads -> Labels]
          /\ pc'[t] = IF wake_active[u] THEN "post" ELSE "run"
          /\ \A v \in Threads \ {u} : wake_active'[v] = wake_active[v]
          /\ \A v \in Threads \ {t} : pc'[v] = pc[v]
      BY <1>1, <1>4 DEF TypeOK, Labels
    <2>4. /\ wait_event' = wait_event /\ interruptible' = interruptible
          /\ panicked' = panicked
          /\ UNCHANGED <<wait_result, timer_set, counts, callouts, sigpending,
                         clears, stop_posts, client>>
      BY <1>4 DEF ThreadDowait
    <2>5. TypeOK'
      BY <2>2, <2>3, <2>4 DEF TypeOK, States, Places
    <2>6. NeverPanics' /\ ClearsHaveThread'
      BY <2>4 DEF NeverPanics, ClearsHaveThread
    <2>7. QueuesMatchState'
      BY <1>1, <1>4, <2>2, <2>4 DEF QueuesMatchState
    <2>8. SuspensionsAreCounted'
      BY <1>1, <1>4, <2>2, <2>4 DEF SuspensionsAreCounted, UserHold
    <2>9. StopWillBeTold'
      BY <1>1, <2>3, <2>4 DEF StopWillBeTold
    <2>10. WaitIsAsserted'
      BY <1>1, <2>2, <2>3 DEF WaitIsAsserted
    <2>11. StopsAreKept
      BY <1>1, <1>4, <2>2, <2>4 DEF StopsAreKept, Stopped
    <2>12. QED BY <2>5, <2>6, <2>7, <2>8, <2>9, <2>10, <2>11
  <1>5. QED BY <1>2, <1>3, <1>4 DEF ThreadDowait

------------------------------------------------------------------------------
(* The invariant *)

\* The initial state satisfies the invariant.
LEMMA InitInv ==
    ASSUME Init
    PROVE  IInv
  <1> USE DEF Init
  <1>1. Idle \in Calls /\ Idle.phase = "idle"
    BY DEF Idle, Call, Calls, Results
  <1>2. clears \in [Agents -> Calls] /\ \A a \in Agents : clears[a].phase = "idle"
    BY <1>1
  <1>3. TypeOK
    BY <1>2 DEF TypeOK, Results, Labels
  <1>4. NeverPanics /\ QueuesMatchState
    BY DEF NeverPanics, QueuesMatchState
  <1>5. SuspensionsAreCounted
    BY DEF SuspensionsAreCounted, UserHold
  <1>6. StopWillBeTold /\ WaitIsAsserted
    BY DEF StopWillBeTold, WaitIsAsserted
  <1>7. ClearsHaveThread
    BY <1>2 DEF ClearsHaveThread
  <1>8. QED BY <1>3, <1>4, <1>5, <1>6, <1>7 DEF IInv

\* Every step keeps the invariant and the stops.
LEMMA StepInv ==
    ASSUME IInv, [Next]_vars
    PROVE  IInv' /\ StopsAreKept
  <1>1. ASSUME NEW t \in Threads, ThreadStep(t)
        PROVE  IInv' /\ StopsAreKept
    <2>1. CASE Dispatch(t)
      BY <2>1, ChooseThreadInv, RunThreadInv DEF Dispatch
    <2>2. CASE ThreadBlock(t)
      BY <2>2, ThreadBlockInv, NoSwitchInv DEF ThreadBlock
    <2>3. CASE Progress(t) /\ ~ThreadBlock(t)
      BY <2>3, CheckSignalsInv, AtMasterInv, ThreadSetTimeoutInv, MpsleepReturnInv,
         ThreadDowaitInv, DowaitAgainInv, DowaitPostInv DEF Progress
    <2>4. CASE Preempt(t)
      BY <2>4, PreemptInv DEF Preempt
    <2>5. CASE Mpsleep(t) \/ TakeSignal(t) \/ SoftclockFire(t) \/ PostStop(t)
      BY <2>5, MpsleepInv, TakeSignalInv, SoftclockFireInv, PostStopInv
    <2>6. CASE ThreadHold(t) \/ ThreadRelease(t) \/ ThreadResume(t)
      BY <2>6, ThreadHoldInv, ThreadReleaseInv, ThreadResumeInv
    <2>7. CASE \E u \in Threads : ThreadSuspend(t, u)
      BY <2>7, ThreadSuspendInv
    <2>8. QED BY <1>1, <2>1, <2>2, <2>3, <2>4, <2>5, <2>6, <2>7 DEF ThreadStep
  <1>2. ASSUME NEW a \in Agents, AgentStep(a)
        PROVE  IInv' /\ StopsAreKept
    BY <1>2, ClearLookInv, ClearRemoveInv, ThreadTimeoutInv DEF AgentStep
  <1>3. ASSUME NEW a \in Posters, NEW t \in Threads, Psignal(a, t)
        PROVE  IInv' /\ StopsAreKept
    BY <1>3, PsignalInv
  <1>4. CASE Wakeup
    BY <1>4, WakeupInv
  <1>5. CASE UNCHANGED vars
    <2>1. TypeOK' /\ ClearsHaveThread'
      BY <1>5 DEF IInv, TypeOK, ClearsHaveThread, vars
    <2>2. QED BY <1>5, <2>1, FrameInv DEF vars, counts
  <1>6. QED BY <1>1, <1>2, <1>3, <1>4, <1>5 DEF Next

\* The inductive invariant holds in every reachable state.
THEOREM Invariance == Spec => []IInv
  <1>1. Init => IInv
    BY InitInv
  <1>2. IInv /\ [Next]_vars => IInv'
    BY StepInv
  <1>3. QED BY <1>1, <1>2, PTL DEF Spec

------------------------------------------------------------------------------
(* The theorems *)

\* Every variable keeps its type, and no count goes below zero.
THEOREM TypeCorrect == Spec => []TypeOK
  <1>1. IInv => TypeOK
    BY DEF IInv
  <1>2. QED BY <1>1, Invariance, PTL

\* assert_wait, thread_wakeup_prim, thread_setrun and thread_continue do not
\* panic.
THEOREM NoPanic == Spec => []NeverPanics
  <1>1. IInv => NeverPanics
    BY DEF IInv
  <1>2. QED BY <1>1, Invariance, PTL

\* A thread is on a wait queue, on a run queue or on neither, as its state
\* word says, and never on both.
THEOREM QueuesAgree == Spec => []QueuesMatchState
  <1>1. IInv => QueuesMatchState
    BY DEF IInv
  <1>2. QED BY <1>1, Invariance, PTL

\* TH_SUSP is set while suspend_count is not zero, and user_stop_count owns at
\* most one suspension.
THEOREM SuspensionsCount == Spec => []SuspensionsAreCounted
  <1>1. IInv => SuspensionsAreCounted
    BY DEF IInv
  <1>2. QED BY <1>1, Invariance, PTL

\* State words, suspend counts and queues agree.
THEOREM Consistency == Spec => []StateIsConsistent
  <1>1. IInv => StateIsConsistent
    BY DEF IInv, StateIsConsistent
  <1>2. QED BY <1>1, Invariance, PTL

\* Who waits in thread_dowait has wake_active set or a wakeup on its way.
THEOREM WaitersAreTold == Spec => []StopWillBeTold
  <1>1. IInv => StopWillBeTold
    BY DEF IInv
  <1>2. QED BY <1>1, Invariance, PTL

\* No wakeup, timeout, signal or partial release makes a stopped thread run.
THEOREM StopsLast == Spec => StaysStopped
  <1>1. IInv /\ [Next]_vars
          => [\A t \in Threads : Stopped(t) /\ suspend_count'[t] > 0 => Stopped(t)']_vars
    BY StepInv DEF StopsAreKept
  <1>2. QED BY <1>1, Invariance, PTL DEF Spec, StaysStopped

------------------------------------------------------------------------------
(* The sleeps: what becomes of a thread between its call of mpsleep and its *)
(* return, whatever timeouts, signals, wakeups and suspensions come in      *)
(* between.  The effect of each step on one thread is one of a few, and     *)
(* each of these keeps SleepInv.                                            *)

InSleep == {"asserted", "arming", "blocking", "blocked"}

\* softclock has taken up an entry of u and not called thread_timeout yet.
Firing(u) == clears[Softclock].phase = "fire" /\ clears[Softclock].thread = u

\* A timer is set only while its thread waits for it.
TimerIsWaitedFor(u) ==
    timer_set[u] => "W" \in state[u] /\ pc[u] \in {"blocking", "blocked"}

\* One entry is left by an earlier sleep, at most, and one is the timer's; the
\* one that softclock has taken up was one of them.
EntriesOf(u) ==
    callouts[u] <= (IF timer_set[u] THEN 2 ELSE 1) - (IF Firing(u) THEN 1 ELSE 0)

TimeoutComes(u) ==
    timo[u] /\ pc[u] \in {"blocking", "blocked"} /\ "W" \in state[u]
      => callouts[u] > 0 \/ WillClear(u, Softclock)

CatcherIsInterruptible(u) ==
    ~OffMaster /\ catch[u] /\ pc[u] \in InSleep => interruptible[u]

SignalComes(u) ==
    ~OffMaster /\ catch[u] /\ sigpending[u] /\ "W" \in state[u]
        /\ pc[u] \in InSleep \ {"asserted"}
      => \E a \in Agents : WillClear(u, a)

\* Nobody goes to the master processor who is on it.
StaysOnMaster(u) == ~OffMaster => pc[u] \notin {"to_master", "at_master"}

SleepInv(u) ==
    /\ TimerIsWaitedFor(u) /\ EntriesOf(u) /\ TimeoutComes(u)
    /\ CatcherIsInterruptible(u) /\ SignalComes(u) /\ StaysOnMaster(u)

------------------------------------------------------------------------------
(* What a step may do to a thread u *)

SameTimer(u) == timer_set'[u] = timer_set[u] /\ callouts'[u] = callouts[u]
SameCall(u) == catch'[u] = catch[u] /\ timo'[u] = timo[u]
KeepsClears(u) ==
    /\ Firing(u)' => Firing(u)
    /\ \A a \in Agents : WillClear(u, a) => WillClear(u, a)'

\* It sleeps on, or does something else as before.
Stays(u) ==
    /\ pc'[u] = pc[u] \/ (pc[u] = "blocking" /\ pc'[u] = "blocked")
    /\ "W" \in state'[u] <=> "W" \in state[u]
    /\ interruptible[u] => interruptible'[u]
    /\ sigpending'[u] => sigpending[u]
    /\ SameTimer(u) /\ SameCall(u) /\ KeepsClears(u)

\* It is woken, or gives its sleep up.
IsRoused(u) ==
    /\ pc'[u] \in {pc[u], "run"}
    /\ "W" \notin state'[u]
    /\ ~timer_set'[u]
    /\ callouts'[u] = IF timer_set[u] THEN Untimeout(u) ELSE callouts[u]
    /\ interruptible[u] => interruptible'[u]
    /\ SameCall(u)
    /\ Firing(u)' => Firing(u)

\* It is in no sleep, after or without one.
IsElsewhere(u) ==
    /\ pc'[u] \notin InSleep
    /\ pc'[u] \in {"to_master", "at_master"}
         => OffMaster \/ pc[u] \in {"to_master", "at_master"}
    /\ pc[u] \in {"blocking", "blocked"} => "W" \notin state[u]
    /\ SameTimer(u)
    /\ Firing(u)' => Firing(u)

\* It calls mpsleep.
BeginsSleep(u) ==
    /\ pc[u] = "run" /\ pc'[u] = "asserted"
    /\ interruptible'[u] = catch'[u]
    /\ SameTimer(u)
    /\ Firing(u)' => Firing(u)

\* It has found no signal.
GoesOn(u) ==
    /\ pc[u] = "asserted" /\ pc'[u] = (IF timo[u] THEN "arming" ELSE "blocking")
    /\ ~(catch'[u] /\ sigpending'[u])
    /\ interruptible[u] => interruptible'[u]
    /\ SameTimer(u) /\ SameCall(u)
    /\ Firing(u)' => Firing(u)

\* Its timer is set, unless it has been woken.
IsTimed(u) ==
    /\ pc[u] = "arming" /\ pc'[u] = "blocking"
    /\ "W" \in state'[u] <=> "W" \in state[u]
    /\ IF "W" \in state[u]
       THEN timer_set'[u] /\ callouts'[u] = callouts[u] + 1
       ELSE SameTimer(u)
    /\ interruptible[u] => interruptible'[u]
    /\ sigpending'[u] => sigpending[u]
    /\ SameCall(u) /\ KeepsClears(u)

SameButClears(u) ==
    /\ pc'[u] = pc[u] /\ state'[u] = state[u]
    /\ interruptible'[u] = interruptible[u]
    /\ SameCall(u)
    /\ \A a \in Agents : WillClear(u, a) => WillClear(u, a)'

\* softclock takes up an entry of it.
IsFired(u) ==
    /\ ~Firing(u) /\ Firing(u)' /\ WillClear(u, Softclock)'
    /\ callouts'[u] = callouts[u] - 1 /\ timer_set'[u] = timer_set[u]
    /\ sigpending'[u] = sigpending[u]
    /\ SameButClears(u)

\* thread_timeout begins.
TimesOut(u) ==
    /\ Firing(u) /\ ~Firing(u)' /\ WillClear(u, Softclock)'
    /\ callouts'[u] = callouts[u] /\ ~timer_set'[u]
    /\ sigpending'[u] = sigpending[u]
    /\ SameButClears(u)

\* It gets a signal.
IsSignalled(u) ==
    /\ interruptible[u] => \E a \in Agents : WillClear(u, a)'
    /\ Firing(u)' => Firing(u)
    /\ SameTimer(u) /\ SameButClears(u)

Effect(u) ==
    \/ Stays(u) \/ IsRoused(u) \/ IsElsewhere(u) \/ BeginsSleep(u) \/ GoesOn(u)
    \/ IsTimed(u) \/ IsFired(u) \/ TimesOut(u) \/ IsSignalled(u)

\* Each of these keeps what is said of the thread's sleep.
LEMMA EffectKeeps ==
    ASSUME TypeOK, TypeOK', NEW u \in Threads, SleepInv(u), Effect(u)
    PROVE  SleepInv(u)'
  <1> USE DEF SameTimer, SameCall, SameButClears, KeepsClears, InSleep
  <1>1. /\ callouts[u] \in Nat /\ callouts'[u] \in Nat
        /\ timer_set[u] \in BOOLEAN /\ timer_set'[u] \in BOOLEAN
        /\ interruptible[u] \in BOOLEAN /\ interruptible'[u] \in BOOLEAN
        /\ catch[u] \in BOOLEAN /\ catch'[u] \in BOOLEAN
        /\ timo[u] \in BOOLEAN /\ timo'[u] \in BOOLEAN
        /\ sigpending[u] \in BOOLEAN /\ sigpending'[u] \in BOOLEAN
        /\ Firing(u) \in BOOLEAN /\ Firing(u)' \in BOOLEAN
    BY DEF TypeOK, Firing
  <1>2. TimerIsWaitedFor(u)'
    BY <1>1 DEF SleepInv, TimerIsWaitedFor, Effect, Stays, IsRoused, IsElsewhere,
       BeginsSleep, GoesOn, IsTimed, IsFired, TimesOut, IsSignalled
  <1>3. EntriesOf(u)'
    BY <1>1 DEF SleepInv, TimerIsWaitedFor, EntriesOf, Untimeout, Effect, Stays, IsRoused,
       IsElsewhere, BeginsSleep, GoesOn, IsTimed, IsFired, TimesOut, IsSignalled
  <1>4. TimeoutComes(u)'
    <2>1. Softclock \in Agents
      BY DEF Agents
    <2>2. CASE Stays(u)
      BY <1>1, <2>1, <2>2 DEF SleepInv, TimerIsWaitedFor, TimeoutComes, Stays
    <2>3. CASE IsRoused(u)
      BY <1>1, <2>1, <2>3 DEF SleepInv, TimerIsWaitedFor, TimeoutComes, IsRoused
    <2>4. CASE IsElsewhere(u)
      BY <1>1, <2>1, <2>4 DEF SleepInv, TimerIsWaitedFor, TimeoutComes, IsElsewhere
    <2>5. CASE BeginsSleep(u)
      BY <1>1, <2>1, <2>5 DEF SleepInv, TimerIsWaitedFor, TimeoutComes, BeginsSleep
    <2>6. CASE GoesOn(u)
      BY <1>1, <2>1, <2>6 DEF SleepInv, TimerIsWaitedFor, TimeoutComes, GoesOn
    <2>7. CASE IsTimed(u)
      BY <1>1, <2>1, <2>7 DEF SleepInv, TimerIsWaitedFor, TimeoutComes, IsTimed
    <2>8. CASE IsFired(u)
      BY <1>1, <2>1, <2>8 DEF SleepInv, TimerIsWaitedFor, TimeoutComes, IsFired
    <2>9. CASE TimesOut(u)
      BY <1>1, <2>1, <2>9 DEF SleepInv, TimerIsWaitedFor, TimeoutComes, TimesOut
    <2>10. CASE IsSignalled(u)
      BY <1>1, <2>1, <2>10 DEF SleepInv, TimerIsWaitedFor, TimeoutComes, IsSignalled
    <2>11. QED BY <2>2, <2>3, <2>4, <2>5, <2>6, <2>7, <2>8, <2>9, <2>10 DEF Effect
  <1>5. CatcherIsInterruptible(u)'
    BY <1>1 DEF SleepInv, CatcherIsInterruptible, Effect, Stays, IsRoused, IsElsewhere,
       BeginsSleep, GoesOn, IsTimed, IsFired, TimesOut, IsSignalled
  <1>6. SignalComes(u)'
    BY <1>1 DEF SleepInv, CatcherIsInterruptible, SignalComes, Effect, Stays, IsRoused,
       IsElsewhere, BeginsSleep, GoesOn, IsTimed, IsFired, TimesOut, IsSignalled
  <1>7. StaysOnMaster(u)'
    BY DEF SleepInv, StaysOnMaster, Effect, Stays, IsRoused, IsElsewhere,
       BeginsSleep, GoesOn, IsTimed, IsFired, TimesOut, IsSignalled
  <1>8. QED BY <1>2, <1>3, <1>4, <1>5, <1>6, <1>7 DEF SleepInv


------------------------------------------------------------------------------
(* The effects of the steps *)

\* What keeps the calls of clear_wait valid that are under way.
LEMMA ClearsAreKept ==
    ASSUME NEW u \in Threads, clears' = clears, wait_event'[u] = wait_event[u],
           interruptible[u] => interruptible'[u]
    PROVE  KeepsClears(u)
  BY DEF KeepsClears, Firing, WillClear

\* A wakeup of the threads in ts.
LEMMA WakeSpares ==
    ASSUME IInv, NEW ts \in SUBSET Threads, NEW result \in Results, Wake(ts, result),
           NEW u \in Threads
    PROVE  /\ interruptible[u] => interruptible'[u]
           /\ u \in ts => /\ "W" \notin state'[u]
                          /\ ~timer_set'[u]
                          /\ callouts'[u] = IF timer_set[u] THEN Untimeout(u)
                                            ELSE callouts[u]
           /\ u \notin ts => /\ "W" \in state'[u] <=> "W" \in state[u]
                             /\ wait_event'[u] = wait_event[u]
                             /\ SameTimer(u)
  <1>1. /\ "W" \in state'[u] <=> "W" \in state[u] /\ u \notin ts
        /\ wait_event'[u] = IF u \in ts THEN NoEvent ELSE wait_event[u]
    BY WakeEffect DEF IInv
  <1>2. /\ timer_set'[u] = (u \notin ts /\ timer_set[u])
        /\ callouts'[u] = IF u \in ts /\ timer_set[u] THEN Untimeout(u) ELSE callouts[u]
    BY DEF Wake
  <1>3. interruptible[u] => interruptible'[u]
    BY DEF Wake
  <1>4. timer_set[u] \in BOOLEAN
    BY DEF IInv, TypeOK
  <1>5. QED BY <1>1, <1>2, <1>3, <1>4 DEF SameTimer

\* When the calls of clear_wait stay as they are, a wakeup rouses a thread or
\* passes it over.
LEMMA WakeRouses ==
    ASSUME IInv, NEW ts \in SUBSET Threads, NEW result \in Results, Wake(ts, result),
           NEW u \in Threads, pc'[u] = pc[u] \/ (u \in ts /\ pc'[u] = "run"),
           UNCHANGED <<sigpending, clears, catch, timo>>
    PROVE  Effect(u)
  <1>1. CASE u \in ts
    BY <1>1, WakeSpares DEF Effect, IsRoused, SameCall, Firing
  <1>2. CASE u \notin ts
    BY <1>2, WakeSpares, ClearsAreKept DEF Effect, Stays, SameCall
  <1>3. QED BY <1>1, <1>2

LEMMA WakeupEffect ==
    ASSUME IInv, Wakeup, NEW u \in Threads
    PROVE  Effect(u)
  <1>1. PICK c \in Chans : ThreadWakeup(c) \/ ThreadWakeupOne(c)
    BY DEF Wakeup
  <1>2. PICK ts \in SUBSET Threads : Wake(ts, "AWAKENED")
    BY <1>1, ThreadWakeupEffect DEF ThreadWakeupOne, Events, IInv
  <1>3. "AWAKENED" \in Results /\ UNCHANGED <<sigpending, clears, catch, timo, pc>>
    BY DEF Results, Wakeup, client
  <1>4. QED BY <1>2, <1>3, WakeRouses

LEMMA StopPosts ==
    ASSUME IInv, NEW t \in Threads, PostStop(t) \/ DowaitPost(t), NEW u \in Threads
    PROVE  Effect(u)
  <1>1. "AWAKENED" \in Results /\ UNCHANGED <<sigpending, clears, catch, timo>>
    BY DEF Results, PostStop, DowaitPost, client
  <1>2. PICK ts \in SUBSET Threads : Wake(ts, "AWAKENED")
    BY WakeupOfStop DEF PostStop, DowaitPost, IInv, TypeOK
  <1>3. CASE pc'[u] = pc[u]
    BY <1>1, <1>2, <1>3, WakeRouses
  <1>4. CASE pc'[u] # pc[u]
    <2>1. pc[u] = "post" /\ pc'[u] = "run"
      BY <1>4 DEF PostStop, DowaitPost, OnCpu, Goto, IInv, TypeOK
    <2>2. CASE u \in ts
      BY <1>1, <1>2, <2>1, <2>2, WakeRouses
    <2>3. CASE u \notin ts
      BY <1>1, <1>2, <2>1, <2>3, WakeSpares DEF Effect, IsElsewhere, InSleep, Firing
    <2>4. QED BY <2>2, <2>3
  <1>5. QED BY <1>3, <1>4

LEMMA SleepIsGivenUp ==
    ASSUME IInv, NEW t \in Threads, GiveUpSleep(t), NEW u \in Threads
    PROVE  Effect(u)
  <1>1. /\ "INTERRUPTED" \in Results /\ UNCHANGED <<sigpending, clears, catch, timo>>
        /\ Wake({t}, "INTERRUPTED") /\ {t} \in SUBSET Threads
    BY DEF Results, GiveUpSleep
  <1>2. pc'[u] = pc[u] \/ (u \in {t} /\ pc'[u] = "run")
    BY DEF GiveUpSleep, Goto, IInv, TypeOK
  <1>3. QED BY <1>1, <1>2, WakeRouses

\* A step of clear_wait, whose outcome is that the call ends without effect,
\* goes on to its second part, or wakes the thread.
LEMMA ClearsPass ==
    ASSUME IInv, NEW a \in Agents, ClearLook(a) \/ ClearRemove(a), NEW u \in Threads
    PROVE  Effect(u)
  <1> DEFINE t == clears[a].thread
  <1>1. /\ t \in Threads /\ clears[a].result \in Results /\ clears \in [Agents -> Calls]
        /\ Softclock \in Agents
    BY DEF IInv, ClearsHaveThread, TypeOK, Calls, ClearLook, ClearRemove, Agents
  <1>2. /\ pc' = pc /\ sigpending' = sigpending /\ SameCall(u)
        /\ \A b \in Agents \ {a} : clears'[b] = clears[b]
        /\ clears'[a].phase # "fire"
    BY <1>1 DEF ClearLook, ClearRemove, client, SameCall, Idle, Call
  <1>3. Firing(u)' => Firing(u)
    BY <1>1, <1>2 DEF Firing
  <1>4. CASE Wake({t}, clears[a].result)
    <2>1. {t} \in SUBSET Threads
      BY <1>1
    <2>2. CASE u = t
      BY <1>1, <1>2, <1>3, <1>4, <2>1, <2>2, WakeSpares DEF Effect, IsRoused
    <2>3. CASE u # t
      <3>1. /\ "W" \in state'[u] <=> "W" \in state[u]
            /\ wait_event'[u] = wait_event[u]
            /\ interruptible[u] => interruptible'[u]
            /\ SameTimer(u)
        BY <1>1, <1>4, <2>1, <2>3, WakeSpares
      <3>2. KeepsClears(u)
        BY <1>1, <1>2, <1>3, <2>3, <3>1 DEF KeepsClears, WillClear
      <3>3. QED BY <1>2, <3>1, <3>2 DEF Effect, Stays
    <2>4. QED BY <2>2, <2>3
  <1>5. CASE UNCHANGED <<word, callouts, panicked>> /\ ~Wake({t}, clears[a].result)
    <2>1. /\ wait_event' = wait_event /\ interruptible' = interruptible
          /\ state' = state /\ SameTimer(u)
      BY <1>5 DEF word, SameTimer
    <2>2. WillClear(u, a) => WillClear(u, a)'
      <3>1. CASE ClearLook(a)
        BY <1>1, <1>5, <2>1, <3>1 DEF ClearLook, WillClear, Call, Idle
      <3>2. CASE ClearRemove(a)
        BY <1>1, <1>5, <2>1, <3>2 DEF ClearRemove, WillClear
      <3>3. QED BY <3>1, <3>2
    <2>3. \A b \in Agents : WillClear(u, b) => WillClear(u, b)'
      BY <1>2, <2>1, <2>2 DEF WillClear
    <2>4. QED BY <1>2, <1>3, <2>1, <2>3 DEF Effect, Stays, KeepsClears
  <1>6. QED BY <1>4, <1>5 DEF ClearLook, ClearRemove

LEMMA SoftclockFires ==
    ASSUME IInv, NEW t \in Threads, SoftclockFire(t), NEW u \in Threads
    PROVE  Effect(u)
  <1>1. /\ clears \in [Agents -> Calls] /\ Softclock \in Agents
        /\ callouts \in [Threads -> Nat]
    BY DEF IInv, TypeOK, Agents
  <1>2. /\ clears[Softclock].phase = "idle"
        /\ clears'[Softclock].phase = "fire" /\ clears'[Softclock].thread = t
        /\ \A b \in Agents \ {Softclock} : clears'[b] = clears[b]
        /\ callouts' = [callouts EXCEPT ![t] = @ - 1]
        /\ UNCHANGED <<word, pc, client, sigpending>>
    BY <1>1 DEF SoftclockFire, Call
  <1>3. \A b \in Agents : WillClear(u, b) => WillClear(u, b)'
    BY <1>2 DEF WillClear, word
  <1>4. CASE u = t
    BY <1>1, <1>2, <1>3, <1>4 DEF Effect, IsFired, SameButClears, SameCall, Firing,
       WillClear, word, client
  <1>5. CASE u # t
    BY <1>1, <1>2, <1>3, <1>5 DEF Effect, Stays, SameTimer, SameCall, KeepsClears, Firing,
       word, client
  <1>6. QED BY <1>4, <1>5

LEMMA TimeoutBegins ==
    ASSUME IInv, ThreadTimeout, NEW u \in Threads
    PROVE  Effect(u)
  <1> DEFINE t == clears[Softclock].thread
  <1>1. /\ clears \in [Agents -> Calls] /\ Softclock \in Agents
        /\ timer_set \in [Threads -> BOOLEAN]
    BY DEF IInv, TypeOK, Agents
  <1>2. /\ clears[Softclock].phase = "fire"
        /\ clears'[Softclock].phase = "look" /\ clears'[Softclock].thread = t
        /\ ~clears'[Softclock].interrupt_only
        /\ \A b \in Agents \ {Softclock} : clears'[b] = clears[b]
        /\ timer_set' = [timer_set EXCEPT ![t] = FALSE]
        /\ UNCHANGED <<state, wait_event, interruptible, callouts, pc, client, sigpending>>
    BY <1>1 DEF ThreadTimeout, Call
  <1>3. \A b \in Agents : WillClear(u, b) => WillClear(u, b)'
    BY <1>2 DEF WillClear
  <1>4. CASE u = t
    BY <1>1, <1>2, <1>3, <1>4 DEF Effect, TimesOut, SameButClears, SameCall, Firing,
       WillClear, client
  <1>5. CASE u # t
    BY <1>1, <1>2, <1>3, <1>5 DEF Effect, Stays, SameTimer, SameCall, KeepsClears, Firing,
       client
  <1>6. QED BY <1>4, <1>5

LEMMA SignalIsSent ==
    ASSUME IInv, NEW a \in Posters, NEW t \in Threads, Psignal(a, t), NEW u \in Threads
    PROVE  Effect(u)
  <1>1. /\ clears \in [Agents -> Calls] /\ a \in Agents /\ a # Softclock
        /\ Softclock \in Agents /\ sigpending \in [Threads -> BOOLEAN]
    BY DEF IInv, TypeOK, Agents
  <1>2. /\ clears[a].phase = "idle"
        /\ clears'[a].phase = "look" /\ clears'[a].thread = t
        /\ \A b \in Agents \ {a} : clears'[b] = clears[b]
        /\ sigpending' = [sigpending EXCEPT ![t] = TRUE]
        /\ UNCHANGED <<word, callouts, pc, client>>
    BY <1>1 DEF Psignal, Call
  <1>3. \A b \in Agents : WillClear(u, b) => WillClear(u, b)'
    BY <1>2 DEF WillClear, word
  <1>4. Firing(u)' = Firing(u)
    BY <1>1, <1>2 DEF Firing
  <1>5. CASE u = t
    <2>1. interruptible[u] => WillClear(u, a)'
      BY <1>2, <1>5 DEF WillClear, word
    <2>2. QED
      BY <1>1, <1>2, <1>3, <1>4, <2>1 DEF Effect, IsSignalled, SameButClears, SameCall,
         SameTimer, word, client
  <1>6. CASE u # t
    BY <1>1, <1>2, <1>3, <1>4, <1>6 DEF Effect, Stays, SameTimer, SameCall, KeepsClears,
       word, client
  <1>7. QED BY <1>5, <1>6

LEMMA SignalIsTaken ==
    ASSUME IInv, NEW t \in Threads, TakeSignal(t), NEW u \in Threads
    PROVE  Effect(u)
  <1>1. /\ sigpending'[u] => sigpending[u]
        /\ UNCHANGED <<word, callouts, clears, pc, client>>
    BY DEF TakeSignal, IInv, TypeOK
  <1>2. QED
    BY <1>1, ClearsAreKept DEF Effect, Stays, SameTimer, SameCall, word, client

\* Steps that concern the processors and suspensions only.
LEMMA OthersStay ==
    ASSUME NEW u \in Threads,
           "W" \in state'[u] <=> "W" \in state[u],
           interruptible[u] => interruptible'[u],
           pc'[u] = pc[u] \/ (pc[u] = "blocking" /\ pc'[u] = "blocked"),
           UNCHANGED <<wait_event, timer_set, callouts, sigpending, clears, catch, timo>>
    PROVE  Effect(u)
  BY ClearsAreKept DEF Effect, Stays, SameTimer, SameCall

LEMMA DispatchStays ==
    ASSUME IInv, NEW t \in Threads, Dispatch(t), NEW u \in Threads
    PROVE  Effect(u)
  <1>1. /\ interruptible[u] => interruptible'[u]
        /\ UNCHANGED <<state, wait_event, timer_set, callouts, sigpending, clears, pc,
                       catch, timo>>
    BY DEF Dispatch, ChooseThread, RunThread, client, IInv, TypeOK
  <1>2. QED BY <1>1, OthersStay

LEMMA PreemptStays ==
    ASSUME IInv, NEW t \in Threads, Preempt(t), NEW u \in Threads
    PROVE  Effect(u)
  <1>1. "W" \in state'[u] <=> "W" \in state[u]
    BY ThreadContinueEffect DEF Preempt, IInv
  <1>2. UNCHANGED <<interruptible, wait_event, timer_set, callouts, sigpending, clears, pc,
                    catch, timo>>
    BY DEF Preempt, client
  <1>3. QED BY <1>1, <1>2, OthersStay

LEMMA BlockStays ==
    ASSUME IInv, NEW t \in Threads, ThreadBlock(t), NEW u \in Threads
    PROVE  Effect(u)
  <1>1. "W" \in state'[u] <=> "W" \in state[u]
    BY ThreadContinueEffect DEF ThreadBlock, IInv
  <1>2. UNCHANGED <<interruptible, wait_event, timer_set, callouts, sigpending, clears,
                    catch, timo>>
    BY DEF ThreadBlock, client
  <1>3. /\ u # t => pc'[u] = pc[u]
        /\ u = t => pc[u] \in Blocking /\ pc'[u] = AfterBlock(pc[u])
    BY DEF ThreadBlock, Goto, IInv, TypeOK
  <1>4. CASE pc'[u] = pc[u] \/ (pc[u] = "blocking" /\ pc'[u] = "blocked")
    BY <1>1, <1>2, <1>4, OthersStay
  <1>5. CASE ~(pc'[u] = pc[u] \/ (pc[u] = "blocking" /\ pc'[u] = "blocked"))
    BY <1>2, <1>3, <1>5 DEF Effect, IsElsewhere, AfterBlock, Blocking, InSleep, SameTimer,
       Firing
  <1>6. QED BY <1>4, <1>5

LEMMA HoldsStay ==
    ASSUME IInv, NEW t \in Threads, ThreadHold(t) \/ ThreadRelease(t) \/ ThreadResume(t),
           NEW u \in Threads
    PROVE  Effect(u)
  <1>1. "W" \in state'[u] <=> "W" \in state[u]
    <2>1. CASE Suspended(t)
      BY <2>1 DEF Suspended, IInv, TypeOK
    <2>2. CASE Released(t) /\ suspend_count[t] > 0
      BY <2>2, ReleasedEffect DEF IInv
    <2>3. CASE UNCHANGED state
      BY <2>3
    <2>4. suspend_count[t] \in Nat /\ user_stop_count[t] \in Nat
      BY DEF IInv, TypeOK
    <2>5. QED
      BY <2>1, <2>2, <2>3, <2>4 DEF ThreadHold, ThreadRelease, ThreadResume, UserHold, IInv,
         SuspensionsAreCounted
  <1>2. UNCHANGED <<interruptible, wait_event, timer_set, callouts, sigpending, clears,
                    pc, catch, timo>>
    BY DEF ThreadHold, ThreadRelease, ThreadResume, client
  <1>3. QED BY <1>1, <1>2, OthersStay

LEMMA SuspendStays ==
    ASSUME IInv, NEW t \in Threads, NEW v \in Threads, ThreadSuspend(t, v),
           NEW u \in Threads
    PROVE  Effect(u)
  <1>1. "W" \in state'[u] <=> "W" \in state[u]
    BY DEF ThreadSuspend, Suspended, IInv, TypeOK
  <1>2. UNCHANGED <<interruptible, wait_event, timer_set, callouts, sigpending, clears,
                    catch, timo>>
    BY DEF ThreadSuspend
  <1>3. pc'[u] = pc[u] \/ (pc[u] = "run" /\ pc'[u] \in {"self", "dowait"})
    BY DEF ThreadSuspend, OnCpu, Goto, IInv, TypeOK
  <1>4. CASE pc'[u] = pc[u]
    BY <1>1, <1>2, <1>4, OthersStay
  <1>5. CASE pc[u] = "run" /\ pc'[u] \in {"self", "dowait"}
    BY <1>2, <1>5 DEF Effect, IsElsewhere, InSleep, SameTimer, Firing
  <1>6. QED BY <1>3, <1>4, <1>5

LEMMA SleepBegins ==
    ASSUME IInv, NEW t \in Threads, Mpsleep(t), NEW u \in Threads
    PROVE  Effect(u)
  <1>1. PICK c \in Chans, pcatch \in BOOLEAN :
          AssertWait(t, c, pcatch) /\ catch' = [catch EXCEPT ![t] = pcatch]
    BY DEF Mpsleep
  <1>2. /\ state' = [state EXCEPT ![t] = @ \union {"W"}]
        /\ wait_event' = [wait_event EXCEPT ![t] = c]
        /\ interruptible' = [interruptible EXCEPT ![t] = pcatch]
    BY <1>1, AssertWaitEffect DEF IInv, Mpsleep, OnCpu, Events
  <1>3. /\ UNCHANGED <<timer_set, callouts, sigpending, clears>>
        /\ pc[t] = "run" /\ pc' = [pc EXCEPT ![t] = "asserted"]
        /\ u # t => timo'[u] = timo[u]
    BY DEF Mpsleep, OnCpu, Goto, IInv, TypeOK
  <1>4. /\ state \in [Threads -> States] /\ wait_event \in [Threads -> Events \union {NoEvent}]
        /\ interruptible \in [Threads -> BOOLEAN] /\ pc \in [Threads -> Labels]
        /\ catch \in [Threads -> BOOLEAN]
    BY DEF IInv, TypeOK, States
  <1>5. CASE u = t
    BY <1>1, <1>2, <1>3, <1>4, <1>5 DEF Effect, BeginsSleep, SameTimer, Firing
  <1>6. CASE u # t
    BY <1>1, <1>2, <1>3, <1>4, <1>6, ClearsAreKept DEF Effect, Stays, SameTimer, SameCall
  <1>7. QED BY <1>5, <1>6

LEMMA SignalsAreChecked ==
    ASSUME IInv, NEW t \in Threads, CheckSignals(t), NEW u \in Threads
    PROVE  Effect(u)
  <1>1. pc[t] = "asserted" /\ pc \in [Threads -> Labels] /\ interruptible \in [Threads -> BOOLEAN]
    BY DEF CheckSignals, OnCpu, IInv, TypeOK
  <1>2. CASE GiveUpSleep(t)
    BY <1>2, SleepIsGivenUp
  <1>3. CASE /\ OffMaster /\ pc' = [pc EXCEPT ![t] = "to_master"]
             /\ interruptible' = [interruptible EXCEPT ![t] = FALSE]
             /\ UNCHANGED <<state, wait_event, timer_set, callouts, sigpending, clears,
                            client>>
    <2>1. CASE u = t
      BY <1>1, <1>3, <2>1 DEF Effect, IsElsewhere, InSleep, SameTimer, Firing
    <2>2. CASE u # t
      BY <1>1, <1>3, <2>2, OthersStay DEF client
    <2>3. QED BY <2>1, <2>2
  <1>4. CASE /\ ~(catch[t] /\ sigpending[t])
             /\ pc' = [pc EXCEPT ![t] = IF timo[t] THEN "arming" ELSE "blocking"]
             /\ UNCHANGED <<word, callouts, sigpending, clears, client>>
    <2>1. CASE u = t
      BY <1>1, <1>4, <2>1 DEF Effect, GoesOn, SameTimer, SameCall, Firing, word, client
    <2>2. CASE u # t
      BY <1>1, <1>4, <2>2, OthersStay DEF word, client
    <2>3. QED BY <2>1, <2>2
  <1>5. QED BY <1>2, <1>3, <1>4 DEF CheckSignals, Goto

LEMMA TimerIsSet ==
    ASSUME IInv, NEW t \in Threads, ThreadSetTimeout(t), NEW u \in Threads
    PROVE  Effect(u)
  <1>1. /\ pc[t] = "arming" /\ pc' = [pc EXCEPT ![t] = "blocking"]
        /\ pc \in [Threads -> Labels]
        /\ timer_set \in [Threads -> BOOLEAN] /\ callouts \in [Threads -> Nat]
        /\ UNCHANGED <<state, wait_event, interruptible, sigpending, clears, client>>
        /\ IF "W" \in state[t]
           THEN /\ timer_set' = [timer_set EXCEPT ![t] = TRUE]
                /\ callouts' = [callouts EXCEPT ![t] = @ + 1]
           ELSE UNCHANGED <<timer_set, callouts>>
    BY DEF ThreadSetTimeout, OnCpu, Goto, IInv, TypeOK
  <1>2. KeepsClears(u)
    BY <1>1, ClearsAreKept
  <1>3. CASE u = t
    BY <1>1, <1>2, <1>3 DEF Effect, IsTimed, SameTimer, SameCall, client
  <1>4. CASE u # t
    BY <1>1, <1>2, <1>4 DEF Effect, Stays, SameTimer, SameCall, client
  <1>5. QED BY <1>3, <1>4

LEMMA SleepReturns ==
    ASSUME IInv, NEW t \in Threads, MpsleepReturn(t), NEW u \in Threads
    PROVE  Effect(u)
  <1>1. /\ "W" \notin state[t]
        /\ UNCHANGED <<state, wait_event, timer_set, callouts, sigpending, clears, client>>
        /\ pc \in [Threads -> Labels] /\ interruptible \in [Threads -> BOOLEAN]
    BY DEF MpsleepReturn, IInv, WaitIsAsserted, TypeOK
  <1>2. PICK label \in {"run", "return_to_master"} : pc' = [pc EXCEPT ![t] = label]
    BY DEF MpsleepReturn, Goto
  <1>3. CASE u = t
    BY <1>1, <1>2, <1>3 DEF Effect, IsElsewhere, InSleep, SameTimer, Firing
  <1>4. CASE u # t
    <2>1. interruptible'[u] = interruptible[u]
      BY <1>1, <1>4 DEF MpsleepReturn
    <2>2. QED BY <1>1, <1>2, <1>4, <2>1, OthersStay DEF client
  <1>5. QED BY <1>3, <1>4

\* A turn of the loop in thread_dowait.
LEMMA AwaitStopElsewhere ==
    ASSUME IInv, NEW t \in Threads, place[t] = "cpu", pc[t] \in {"dowait", "stop_waited"},
           NEW v \in Threads, AwaitStop(t, v),
           UNCHANGED <<timer_set, callouts, sigpending, clears, catch, timo>>,
           NEW u \in Threads
    PROVE  Effect(u)
  <1>1. PICK label \in {"run", "stop_wait"} : pc' = [pc EXCEPT ![t] = label]
    BY DEF AwaitStop, Goto
  <1>2. u # t => /\ state'[u] = state[u] /\ wait_event'[u] = wait_event[u]
                 /\ interruptible'[u] = interruptible[u]
    <2>1. CASE Stopped(v)
      BY <2>1 DEF AwaitStop
    <2>2. CASE ~Stopped(v)
      <3>1. AssertWait(t, v, FALSE) /\ v \in Events /\ FALSE \in BOOLEAN
        BY <2>2 DEF AwaitStop, Events
      <3>2. /\ wait_event' = [wait_event EXCEPT ![t] = v]
            /\ state' = [state EXCEPT ![t] = @ \union {"W"}]
            /\ interruptible' = [interruptible EXCEPT ![t] = FALSE]
        BY <3>1, AssertWaitEffect DEF IInv
      <3>3. QED BY <3>2 DEF IInv, TypeOK
    <2>3. QED BY <2>1, <2>2
  <1>3. pc \in [Threads -> Labels]
    BY DEF IInv, TypeOK
  <1>4. CASE u = t
    BY <1>1, <1>3, <1>4 DEF Effect, IsElsewhere, InSleep, SameTimer, Firing
  <1>5. CASE u # t
    BY <1>1, <1>2, <1>3, <1>5, ClearsAreKept DEF Effect, Stays, SameTimer, SameCall
  <1>6. QED BY <1>4, <1>5

LEMMA DowaitElsewhere ==
    ASSUME IInv, NEW t \in Threads, ThreadDowait(t) \/ DowaitAgain(t), NEW u \in Threads
    PROVE  Effect(u)
  <1> DEFINE v == target[t]
  <1>1. /\ v \in Threads /\ pc \in [Threads -> Labels] /\ place[t] = "cpu"
        /\ pc[t] \in {"dowait", "stop_waited"}
        /\ state \in [Threads -> States]
        /\ UNCHANGED <<timer_set, callouts, sigpending, clears, catch, timo>>
    BY DEF ThreadDowait, DowaitAgain, OnCpu, client, IInv, TypeOK, States
  <1>2. CASE AwaitStop(t, v)
    BY <1>1, <1>2, AwaitStopElsewhere
  <1>3. CASE ~AwaitStop(t, v)
    <2>1. /\ \A w \in Threads : "W" \in state'[w] <=> "W" \in state[w]
          /\ UNCHANGED <<wait_event, interruptible>>
      BY <1>1, <1>3 DEF ThreadDowait, DowaitAgain
    <2>2. PICK label \in {"run", "post"} : pc' = [pc EXCEPT ![t] = label]
      BY <1>3 DEF ThreadDowait, DowaitAgain, Goto
    <2>3. CASE u = t
      BY <1>1, <2>2, <2>3 DEF Effect, IsElsewhere, InSleep, SameTimer, Firing
    <2>4. CASE u # t
      BY <1>1, <2>1, <2>2, <2>4, OthersStay
    <2>5. QED BY <2>3, <2>4
  <1>4. QED BY <1>2, <1>3

LEMMA StepEffect ==
    ASSUME IInv, Next, NEW u \in Threads
    PROVE  Effect(u)
  <1>1. ASSUME NEW t \in Threads, ThreadStep(t)
        PROVE  Effect(u)
    <2>1. CASE Progress(t)
      BY <2>1, BlockStays, SignalsAreChecked, SleepIsGivenUp, TimerIsSet, SleepReturns,
         DowaitElsewhere, StopPosts DEF Progress, AtMaster
    <2>2. CASE Dispatch(t) \/ Preempt(t) \/ Mpsleep(t) \/ TakeSignal(t)
      BY <2>2, DispatchStays, PreemptStays, SleepBegins, SignalIsTaken
    <2>3. CASE \/ ThreadHold(t) \/ ThreadRelease(t) \/ ThreadResume(t)
               \/ PostStop(t) \/ SoftclockFire(t)
               \/ \E v \in Threads : ThreadSuspend(t, v)
      BY <2>3, HoldsStay, StopPosts, SoftclockFires, SuspendStays
    <2>4. QED BY <1>1, <2>1, <2>2, <2>3 DEF ThreadStep
  <1>2. ASSUME NEW a \in Agents, AgentStep(a)
        PROVE  Effect(u)
    BY <1>2, ClearsPass, TimeoutBegins DEF AgentStep
  <1>3. QED BY <1>1, <1>2, SignalIsSent, WakeupEffect DEF Next

------------------------------------------------------------------------------
(* The theorems *)

AllSleepInv == IInv /\ \A u \in Threads : SleepInv(u)

LEMMA InitSleep ==
    ASSUME Init
    PROVE  AllSleepInv
  <1>1. IInv
    BY InitInv
  <1>2. clears[Softclock].phase = "idle"
    BY DEF Init, Idle, Call, Agents
  <1>3. ASSUME NEW u \in Threads PROVE SleepInv(u)
    <2>1. EntriesOf(u)
      BY <1>2 DEF Init, EntriesOf, Firing
    <2>2. QED
      BY <2>1 DEF Init, SleepInv, TimerIsWaitedFor, TimeoutComes, CatcherIsInterruptible,
         SignalComes, StaysOnMaster, InSleep
  <1>4. QED BY <1>1, <1>3 DEF AllSleepInv

LEMMA StepSleep ==
    ASSUME AllSleepInv, [Next]_vars
    PROVE  AllSleepInv'
  <1>1. IInv'
    BY StepInv DEF AllSleepInv
  <1>2. ASSUME NEW u \in Threads PROVE SleepInv(u)'
    <2>1. CASE Next
      BY <1>1, <2>1, StepEffect, EffectKeeps DEF AllSleepInv, IInv
    <2>2. CASE UNCHANGED vars
      BY <2>2 DEF AllSleepInv, SleepInv, TimerIsWaitedFor, EntriesOf, TimeoutComes,
         CatcherIsInterruptible, SignalComes, StaysOnMaster, Firing, WillClear, vars
    <2>3. QED BY <2>1, <2>2
  <1>3. QED BY <1>1, <1>2 DEF AllSleepInv

THEOREM SleepInvariance == Spec => []AllSleepInv
  <1>1. Init => AllSleepInv
    BY InitSleep
  <1>2. AllSleepInv /\ [Next]_vars => AllSleepInv'
    BY StepSleep
  <1>3. QED BY <1>1, <1>2, PTL DEF Spec

\* The timer of a sleep is in the table, or softclock is about to end the sleep.
THEOREM TimeoutsCome == Spec => []TimeoutIsNotLost
  <1>1. AllSleepInv => TimeoutIsNotLost
    BY DEF AllSleepInv, SleepInv, TimeoutComes, TimeoutIsNotLost
  <1>2. QED BY <1>1, SleepInvariance, PTL

\* No thread has more than two entries, however many sleeps late timeouts end.
THEOREM CalloutsBound == Spec => []CalloutsAreBounded
  <1>1. AllSleepInv => CalloutsAreBounded
    BY DEF AllSleepInv, SleepInv, EntriesOf, CalloutsAreBounded, IInv, TypeOK
  <1>2. QED BY <1>1, SleepInvariance, PTL

\* A thread on the master processor does not sleep with PCATCH past a signal.
THEOREM SignalsAreSeen ==
    ASSUME ~OffMaster
    PROVE  Spec => []SignalIsNotMissed
  <1>1. AllSleepInv => SignalIsNotMissed
    BY DEF AllSleepInv, SleepInv, SignalComes, StaysOnMaster, SignalIsNotMissed, InSleep
  <1>2. QED BY <1>1, SleepInvariance, PTL

=============================================================================
