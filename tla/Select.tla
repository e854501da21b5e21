------------------------------ MODULE Select ------------------------------
\* select() and poll() of sockets by the threads of one task (do_scan and its
\* parts in bsd/sys_generic.c, bsd/subr_select.c, soo_select), with the event of
\* each thread (kern/event.c) and the references of open files (sys/file.h).
\* A queue is the set of the threads on it: select_dequeue takes all entries of a
\* thread off it.  A step is what is done under one lock: of the descriptor table,
\* a socket or an event.  Whoever wakes the threads that select a socket has it locked for
\* as long as that takes, and posts one event after the other.
EXTENDS Integers, Sequences, FiniteSets

CONSTANTS Threads, Fds, Files,
          None,
          OpenMax,    \* open_max_soft: the longest array poll() takes
          Calls,      \* the calls each thread makes
          HalfCloses  \* whether a peer may close its side only

\* An array of pollfd, or what select() makes of its sets, and whether there is a
\* timeout.
Item   == [fd : Fds, events : (SUBSET {"in", "out"}) \ {{}}]
Call   == [kind : {"select", "poll"}, list : Seq(Item), timed : BOOLEAN]

ASSUME CallsAssumption ==
  /\ OpenMax \in Nat /\ HalfCloses \in BOOLEAN
  /\ \A t \in Threads : \A c \in Calls[t] : c \in Call /\ Len(c.list) \in 1 .. OpenMax
ASSUME NoneAssumption == None \notin Threads \union Files
ASSUME FiniteAssumption == IsFiniteSet(Threads) /\ IsFiniteSet(Fds)

VARIABLES fdt,    \* the descriptor table of the task
          file,   \* the open files with their sockets
          event,  \* thread->select_event
          post,   \* who select_wakeup() has still to tell, for each socket
          th      \* what each thread does

vars == <<fdt, file, event, post, th>>

Labels == {"idle", "clear", "ref", "select", "check", "wait", "asleep", "again", "undo"}

\* A file with its socket.  count: f_count.  data, space: so_rcv and so_snd would
\* let read and write go on.  eof, shut: SS_CANTRCVMORE, SS_CANTSENDMORE.  error:
\* so_error.  sel: SB_SEL of so_snd.  q: sb_selq.
File == [count : Nat, data : BOOLEAN, space : BOOLEAN, eof : BOOLEAN, shut : BOOLEAN,
         error : BOOLEAN, sel : BOOLEAN, q : SUBSET Threads]

\* What a thread is doing: files is fp_ptr as far as the scan has got, ready
\* *retval, due whether the time is over.
Scan == [at : Labels, kind : {"select", "poll"}, list : Seq(Item),
         files : Seq(Files \union {None}),
         ready : BOOLEAN, timed : BOOLEAN, due : BOOLEAN]

TypeOK ==
  /\ fdt \in [Fds -> Files \union {None}]
  /\ file \in [Files -> File]
  /\ event \in [Threads -> BOOLEAN]
  /\ post \in [Files -> [left : SUBSET Threads, now : Threads \union {None}]]
  /\ th \in [Threads -> Scan]
  /\ \A t \in Threads : Len(th[t].files) <= Len(th[t].list) /\ Len(th[t].list) <= OpenMax

Nobody == [left |-> {}, now |-> None]
Idle   == [at |-> "idle", kind |-> "poll", list |-> <<>>, files |-> <<>>,
           ready |-> FALSE, timed |-> FALSE, due |-> FALSE]

\* Two descriptors may be of the same file.
Init == /\ fdt \in [Fds -> Files]
        /\ file = [f \in Files |-> [count |-> Cardinality({d \in Fds : fdt[d] = f}),
                                    data |-> FALSE, space |-> FALSE, eof |-> FALSE,
                                    shut |-> FALSE, error |-> FALSE, sel |-> FALSE, q |-> {}]]
        /\ event = [t \in Threads |-> FALSE]
        /\ post = [f \in Files |-> Nobody]
        /\ th = [t \in Threads |-> Idle]

Unlocked(f) == post[f] = Nobody
Does(t, r)  == th' = [th EXCEPT ![t] = r]
Goto(r, at) == [r EXCEPT !.at = at]
At(t, at)   == th[t].at = at

\* The file and the events the thread looks at, and where the scan goes on.
Here(t) == th[t].list[Len(th[t].files)]
NextItem(r) == Goto(r, IF Len(r.files) = Len(r.list) THEN "check" ELSE "ref")

-----------------------------------------------------------------------------
\* The sockets.

\* What soo_select() returns, and what selscan() and pollscan() make of it.
Returned(s, events) ==
  (IF s.error THEN {"err"} ELSE IF s.eof THEN {"hup"} ELSE {})
    \union {e \in events : \/ s.error
                           \/ e = "in" /\ (s.data \/ s.eof)
                           \/ e = "out" /\ (s.space \/ s.shut)}
Counts(kind, revents, events) ==
  IF kind = "poll" THEN revents # {}
  ELSE \/ "err" \in revents
       \/ "in" \in events /\ "hup" \in revents
       \/ revents \intersect events # {}

\* select_wakeup(), with the socket locked, of everybody on its queue.  Where the
\* code calls it twice (soisdisconnected) the second round tells the same threads
\* again, none of which can have left the queue.
Wakes(f) == post' = [post EXCEPT ![f].left = file[f].q]

Begin(t, c) ==
  /\ At(t, "idle")
  /\ Does(t, [Idle EXCEPT !.at = "clear", !.kind = c.kind, !.list = c.list, !.timed = c.timed])
  /\ UNCHANGED <<fdt, file, event, post>>

\* do_scan(): event_clear(), then the scan.
Clear(t) ==
  /\ At(t, "clear")
  /\ event' = [event EXCEPT ![t] = FALSE]
  /\ Does(t, Goto(th[t], "ref"))
  /\ UNCHANGED <<fdt, file, post>>

\* A closed descriptor ends select(); poll() tells it in revents.
RefKeepsBad(t) ==   \* mutant: *pnfds is not set back
  LET r == th[t]
      d == r.list[Len(r.files) + 1].fd
      f == fdt[d]
  IN  /\ At(t, "ref")
      /\ Does(t, IF f # None THEN [Goto(r, "select") EXCEPT !.files = Append(@, f)]
                 ELSE [Goto(r, "undo") EXCEPT !.files = Append(@, CHOOSE g \in Files : TRUE)])
      /\ file' = IF f = None THEN file ELSE [file EXCEPT ![f].count = @ + 1]
      /\ UNCHANGED <<fdt, event, post>>

Ref(t) ==
  LET r == th[t]
      f == fdt[r.list[Len(r.files) + 1].fd]
  IN  /\ At(t, "ref")
      /\ \/ /\ f # None
            /\ file' = [file EXCEPT ![f].count = @ + 1]
            /\ Does(t, [Goto(r, "select") EXCEPT !.files = Append(@, f)])
         \/ /\ f = None /\ r.kind = "poll"
            /\ Does(t, NextItem([r EXCEPT !.files = Append(@, None), !.ready = TRUE]))
            /\ UNCHANGED file
         \/ /\ f = None /\ r.kind = "select"
            /\ Does(t, IF r.files = <<>> THEN Idle ELSE Goto(r, "undo"))
            /\ UNCHANGED file
      /\ UNCHANGED <<fdt, event, post>>

\* soo_select(), scanning.
SelectForgetsFlag(t) ==   \* mutant: SB_SEL is not set
  LET r == th[t]
      f == r.files[Len(r.files)]
      revents == Returned(file[f], Here(t).events)
  IN  /\ At(t, "select") /\ Unlocked(f)
      /\ file' = [file EXCEPT ![f].q = IF revents = {} THEN @ \union {t} ELSE @]
      /\ Does(t, NextItem([r EXCEPT !.ready = @ \/ Counts(r.kind, revents, Here(t).events)]))
      /\ UNCHANGED <<fdt, event, post>>

Select(t) ==
  LET r == th[t]
      f == r.files[Len(r.files)]
      events  == Here(t).events
      revents == Returned(file[f], events)
  IN  /\ At(t, "select") /\ Unlocked(f)
      /\ file' = [file EXCEPT ![f].q = IF revents = {} THEN @ \union {t} ELSE @,
                              ![f].sel = @ \/ (revents = {} /\ "out" \in events)]
      /\ Does(t, NextItem([r EXCEPT !.ready = @ \/ Counts(r.kind, revents, events)]))
      /\ UNCHANGED <<fdt, event, post>>

CheckIgnoresTime(t) ==   \* mutant: the time is left to the sleep
  /\ At(t, "check")
  /\ Does(t, Goto(th[t], IF th[t].ready THEN "undo" ELSE "wait"))
  /\ UNCHANGED <<fdt, file, event, post>>

Check(t) ==   \* something is ready, or the time is over
  /\ At(t, "check")
  /\ Does(t, Goto(th[t], IF th[t].ready \/ th[t].due THEN "undo" ELSE "wait"))
  /\ UNCHANGED <<fdt, file, event, post>>

\* event_wait(); mpsleep() gives up the lock of the event when it has queued the
\* thread.
WaitClears(t) ==   \* mutant: the event is cleared after the scan, not before
  /\ At(t, "wait")
  /\ event' = [event EXCEPT ![t] = FALSE]
  /\ Does(t, Goto(th[t], "asleep"))
  /\ UNCHANGED <<fdt, file, post>>

Wait(t) ==
  /\ At(t, "wait")
  /\ Does(t, Goto(th[t], IF event[t] THEN "again" ELSE "asleep"))
  /\ UNCHANGED <<fdt, file, event, post>>

\* A signal ends the sleep, or the time.
Interrupted(t) ==
  /\ At(t, "asleep")
  /\ Does(t, Goto(th[t], "undo"))
  /\ UNCHANGED <<fdt, file, event, post>>

Timeout(t) ==
  /\ At(t, "asleep") /\ th[t].due
  /\ Does(t, Goto(th[t], "undo"))
  /\ UNCHANGED <<fdt, file, event, post>>

TimePasses(t) ==
  /\ ~At(t, "idle") /\ th[t].timed /\ ~th[t].due
  /\ Does(t, [th[t] EXCEPT !.due = TRUE])
  /\ UNCHANGED <<fdt, file, event, post>>

\* undo_scan(), one file at a time: select_dequeue() and FP_UNREF().  The last
\* reference closes the socket.
Undone(r) == IF r.files # <<>> THEN r
             ELSE IF r.at = "again" THEN [r EXCEPT !.at = "clear"] ELSE Idle

UndoKeepsEntry(t) ==   \* mutant: FP_UNREF only
  LET r == th[t]
      f == Head(r.files)
  IN  /\ At(t, "again") \/ At(t, "undo")
      /\ f # None => Unlocked(f)
      /\ file' = IF f = None THEN file ELSE [file EXCEPT ![f].count = @ - 1]
      /\ Does(t, Undone([r EXCEPT !.files = Tail(@), !.ready = FALSE]))
      /\ UNCHANGED <<fdt, event, post>>

Undo(t) ==
  LET r == th[t]
      f == Head(r.files)
  IN  /\ At(t, "again") \/ At(t, "undo")
      /\ \/ /\ f = None
            /\ UNCHANGED file
         \/ /\ f # None /\ Unlocked(f)
            /\ file' = [file EXCEPT ![f].q = @ \ {t}, ![f].count = @ - 1]
      /\ Does(t, Undone([r EXCEPT !.files = Tail(@), !.ready = FALSE]))
      /\ UNCHANGED <<fdt, event, post>>

-----------------------------------------------------------------------------
\* select_wakeup() and event_post(): the event of each thread of the queue is
\* set, under the lock of the event, and then the thread is woken.

PostEvent(f) ==
  \E t \in post[f].left :
    /\ post[f].now = None
    /\ event' = [event EXCEPT ![t] = TRUE]
    /\ post' = [post EXCEPT ![f].now = t]
    /\ UNCHANGED <<fdt, file, th>>

ThreadWakeup(f) ==
  LET t == post[f].now
  IN  /\ t # None
      /\ th' = IF At(t, "asleep") THEN [th EXCEPT ![t].at = "wait"] ELSE th
      /\ post' = [post EXCEPT ![f] = [left |-> @.left \ {t}, now |-> None]]
      /\ UNCHANGED <<fdt, file, event>>

\* What happens to a socket: input, the peer that sends no more, an error with which
\* the connection ends, space in the send buffer (told only when SB_SEL is set,
\* tcp_input).
InUse(f) == file[f].count > 0 /\ Unlocked(f)

Input(f) ==
  /\ InUse(f) /\ ~file[f].eof /\ ~file[f].error
  /\ file' = [file EXCEPT ![f].data = TRUE]
  /\ Wakes(f)
  /\ UNCHANGED <<fdt, event, th>>

CantRcvMore(f) ==
  /\ HalfCloses /\ InUse(f) /\ ~file[f].eof
  /\ file' = [file EXCEPT ![f].eof = TRUE]
  /\ Wakes(f)
  /\ UNCHANGED <<fdt, event, th>>

Error(f) ==
  /\ InUse(f) /\ ~file[f].shut
  /\ file' = [file EXCEPT ![f].error = TRUE, ![f].eof = TRUE, ![f].shut = TRUE,
                          ![f].sel = FALSE]
  /\ Wakes(f)
  /\ UNCHANGED <<fdt, event, th>>

Space(f) ==
  /\ InUse(f) /\ ~file[f].space
  /\ file' = [file EXCEPT ![f].space = TRUE, ![f].sel = FALSE]
  /\ IF file[f].sel THEN Wakes(f) ELSE UNCHANGED post
  /\ UNCHANGED <<fdt, event, th>>

\* Other threads of the task read, write and close.
ReadAll(f) ==
  /\ InUse(f) /\ file[f].data
  /\ file' = [file EXCEPT ![f].data = FALSE]
  /\ UNCHANGED <<fdt, event, post, th>>

\* A read that finds nothing takes the error.
TakeError(f) ==
  /\ InUse(f) /\ ~file[f].data /\ file[f].error
  /\ file' = [file EXCEPT ![f].error = FALSE]
  /\ UNCHANGED <<fdt, event, post, th>>

Fill(f) ==
  /\ InUse(f) /\ file[f].space /\ ~file[f].shut /\ ~file[f].error
  /\ file' = [file EXCEPT ![f].space = FALSE]
  /\ UNCHANGED <<fdt, event, post, th>>

\* close() and closef(): what comes between them sees a reference more.
Close(d) ==
  /\ fdt[d] # None
  /\ fdt' = [fdt EXCEPT ![d] = None]
  /\ file' = [file EXCEPT ![fdt[d]].count = @ - 1]
  /\ UNCHANGED <<event, post, th>>

-----------------------------------------------------------------------------
Step(t) == \/ Clear(t) \/ Ref(t) \/ Select(t) \/ Check(t) \/ Wait(t) \/ Undo(t)
Net(f)  == Input(f) \/ CantRcvMore(f) \/ Error(f) \/ Space(f)
Uses(f) == ReadAll(f) \/ TakeError(f) \/ Fill(f)

Next ==
  \/ \E t \in Threads :
       \/ \E c \in Calls[t] : Begin(t, c)
       \/ Step(t) \/ Interrupted(t) \/ Timeout(t) \/ TimePasses(t)
  \/ \E f \in Files : PostEvent(f) \/ ThreadWakeup(f) \/ Net(f) \/ Uses(f)
  \/ \E d \in Fds : Close(d)

Spec == Init /\ [][Next]_vars

\* Threads run; who waits for the lock of a socket gets it some time, though
\* input takes it again and again; the clock ticks.
FairSpec ==
  /\ Spec
  /\ \A t \in Threads : /\ SF_vars(Step(t))
                        /\ WF_vars(TimePasses(t)) /\ WF_vars(Timeout(t))
  /\ \A f \in Files : WF_vars(PostEvent(f) \/ ThreadWakeup(f))

-----------------------------------------------------------------------------
\* Properties

IsReady(item) == LET f == fdt[item.fd]
                 IN  f # None /\ Counts("select", Returned(file[f], item.events), item.events)

\* select() for writing only of a socket that has got an end of file: soo_select
\* puts nobody on the queue since POLLHUP is set, which selscan then ignores.
IsHalfClosed(t, item) ==
  /\ th[t].kind = "select" /\ item.events = {"out"}
  /\ fdt[item.fd] # None /\ file[fdt[item.fd]].eof

\* No wakeup is lost between the scan and the sleep: when a file that a sleeping
\* thread has asked for is ready, and still open, somebody is about to wake it.
WakeupIsNotLost ==
  \A t \in Threads : At(t, "asleep") =>
    \/ \E f \in Files : t \in post[f].left
    \/ /\ ~event[t]
       /\ \A i \in DOMAIN th[t].list :
            LET item == th[t].list[i] IN IsReady(item) => IsHalfClosed(t, item)

\* Whatever ends a call, no entry of it is left on a queue, where it would wake
\* the thread out of the wrong call or lie in a socket that is closed.
EntriesAreOwned ==
  \A f \in Files, t \in Threads : t \in file[f].q =>
     (\E i \in DOMAIN th[t].files : th[t].files[i] = f) /\ file[f].count > 0

\* The places in arrays of files that hold a reference of f.
Refs(f) == {p \in Threads \X (1 .. OpenMax) :
              p[2] <= Len(th[p[1]].files) /\ th[p[1]].files[p[2]] = f}

\* A file is counted for each descriptor and for each place in an array that a
\* scan has reached, so that it stays open as long as a scan may look at it.
RefsAreCounted ==
  \A f \in Files :
     file[f].count = Cardinality({d \in Fds : fdt[d] = f}) + Cardinality(Refs(f))

\* f_count, and whatever else a file or a scan keeps.
CountsAreRight == TypeOK /\ RefsAreCounted

\* A call ends when one of its files stays ready.
ReadyIsReported ==
  \A t \in Threads, i \in 1 .. OpenMax :
    []<>(\/ At(t, "idle") \/ i \notin DOMAIN th[t].list
         \/ ~IsReady(th[t].list[i]) \/ IsHalfClosed(t, th[t].list[i]))

\* A call with a timeout ends, whatever arrives and however often it is woken.
TimedCallEnds == \A t \in Threads : th[t].timed ~> At(t, "idle")
=============================================================================
