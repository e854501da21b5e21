---------------------------- MODULE RecordLocks ----------------------------
\* The record locks of one file (vfs/vfs_flock.c): the chain of locks that
\* have been granted, the list of those who sleep, and the queues of locks
\* granted to processes of other machines and not told to them yet.  Each
\* change is made by one thread that holds FICHAIN_LOCK, and SLEEPLCK while
\* it touches the sleep list, so it is one step; sleeping, being woken,
\* being interrupted and calling the lock manager are steps of their own.
EXTENDS Integers, FiniteSets, SequencesExt

CONSTANTS Local,           \* processes of this machine
          Remote,          \* processes of one other machine (lock manager)
          Size,            \* a range lies within 0 .. Size
          Splits,          \* may a request end inside a lock of its owner
                           \* that has another type
          WaitsToDowngrade,\* may one wait to read what one has locked to write
          IOTypes,         \* the I/O on files with mandatory locks
          MaxSleep,        \* bound on the sleep list
          MaxChain         \* bound on the chain

ASSUME OwnersAssumption == Local \cap Remote = {}

VARIABLES chain,    \* fl_flck of the file: the granted locks
          sleepq,   \* sleeplcks
          klmq,     \* klmlcks: granted by a local unlock, not told
          grantq,   \* grantlcks: granted in a call of the lock manager, not told
          pc,       \* what each local process does
          asked,    \* has the lock manager been asked to fetch grantq (l_xxx)
          klm       \* what the lock manager does: it is one thread

vars == <<chain, sleepq, klmq, grantq, pc, asked, klm>>

Owners == Local \union Remote
Types  == {"read", "write"}
Locks  == [own : Owners, type : Types, start : 0 .. Size, end : 0 .. Size]
Sleepers == [own : Owners, class : {"file", "io", "lockmgr"}, type : Types,
             start : 0 .. Size, end : 0 .. Size, blk : Owners, on : BOOLEAN]

TypeOK ==
  /\ chain \in Seq({f \in Locks : f.start < f.end})
  /\ sleepq \in Seq({sf \in Sleepers : sf.start < sf.end})
  /\ klmq \in Seq(Remote) /\ grantq \in Seq(Remote)
  /\ pc \in [Local -> {"run", "asleep", "woken", "interrupted", "callback", "loop"}]
  /\ asked \in BOOLEAN
  /\ klm \in {"run", "crash", "loop"}

Init == /\ chain = <<>> /\ sleepq = <<>> /\ klmq = <<>> /\ grantq = <<>>
        /\ pc = [p \in Local |-> "run"]
        /\ asked = FALSE /\ klm = "run"

----------------------------------------------------------------------------
\* blocked(): the first conflicting lock, and after which one to insert.

ClashesWith(f, o, d) == /\ f.own # o
                        /\ d.start < f.end /\ d.end > f.start
                        /\ f.type = "write" \/ d.type = "write"

Touches(f, o, d) == f.own = o /\ d.start <= f.end /\ d.end >= f.start

\* Where the first loop of blocked() ends: at the first lock that starts at
\* or after the request, or that is the owner's and touches it.
Break(ch, o, d) ==
  LET stops == {i \in 1 .. Len(ch) : ch[i].start >= d.start \/ Touches(ch[i], o, d)}
  IN  IF stops = {} THEN Len(ch) + 1 ELSE Min(stops)

Insrt(ch, o, d) ==
  LET b == Break(ch, o, d)
  IN  IF b <= Len(ch) /\ ch[b].start < d.start THEN b ELSE b - 1

\* The second loop stops at a lock that starts beyond the request.
Blockers(ch, o, d) ==
  {i \in 1 .. Len(ch) :
     /\ ClashesWith(ch[i], o, d)
     /\ \A j \in Break(ch, o, d) .. i - 1 : ch[j].start <= d.end}

IsBlocked(ch, o, d) == Blockers(ch, o, d) # {}
Blocker(ch, o, d)   == ch[Min(Blockers(ch, o, d))].own

----------------------------------------------------------------------------
\* flckadj(): o's locks give way to the request d.  The walk along the
\* chain carries what it has passed (pre), the place to insert at (ins, an
\* index of pre), the request, which grows when it is merged with a lock of
\* the same type, the piece (tail) cut off behind the request and not
\* inserted yet, and whether others may now have to be woken (rv).

Walk(pre, ins, d) == [pre |-> pre, ins |-> ins, d |-> d, tail |-> <<>>,
                      rv |-> FALSE, stop |-> FALSE, ret |-> FALSE]

\* The walk has ended; tail goes behind the locks that start before d.
Pass(w, f) ==
  IF w.tail # <<>> /\ f.start >= w.d.start
  THEN [w EXCEPT !.pre = @ \o w.tail \o <<f>>, !.tail = <<>>]
  ELSE [w EXCEPT !.pre = Append(@, f)]

Keep(w, f)  == [w EXCEPT !.pre = Append(@, f)]
Cut(w, f)   == [w EXCEPT !.pre = Append(@, [f EXCEPT !.end = w.d.start]),
                         !.ins = Len(w.pre) + 1, !.rv = TRUE]
Drop(w, at) == [w EXCEPT !.ins = IF at \/ @ = Len(w.pre) + 1 THEN Len(w.pre) ELSE @]
Behind(w, f) ==
  LET piece == <<[f EXCEPT !.start = w.d.end]>>
      later == f.start < w.d.start
  IN  [w EXCEPT !.pre = IF later THEN @ ELSE @ \o piece,
                !.tail = IF later THEN piece ELSE <<>>,
                !.rv = TRUE, !.stop = TRUE]

Meet(w, f, o) ==
  LET s == w.d.start
      e == w.d.end
      same == w.d.type = f.type
  IN  IF f.own # o THEN [Keep(w, f) EXCEPT !.stop = f.start > e]
      ELSE CASE e < f.start \/ (e = f.start /\ ~same) ->
                   [Keep(w, f) EXCEPT !.stop = TRUE]
             [] e = f.start /\ same ->
                   [Drop(w, FALSE) EXCEPT !.d.end = f.end]
             [] s > f.end ->
                   [Keep(w, f) EXCEPT !.ins = Len(w.pre) + 1]
             [] same /\ s >= f.start /\ e <= f.end ->
                   [Keep(w, f) EXCEPT !.stop = TRUE, !.ret = TRUE]
             [] same /\ s > f.start /\ e > f.end ->
                   [Drop(w, TRUE) EXCEPT !.d.start = f.start]
             [] ~same /\ s > f.start /\ e >= f.end -> Cut(w, f)
             [] ~same /\ s > f.start /\ e < f.end  -> Behind(Cut(w, f), f)
             [] same /\ s < f.start /\ e >= f.start /\ e < f.end ->
                   [Drop(w, FALSE) EXCEPT !.d.end = f.end, !.rv = TRUE, !.stop = TRUE]
             [] ~same /\ s <= f.start /\ e < f.end ->
                   Behind(Drop(w, s = f.start), f)
             [] s <= f.start /\ e >= f.end ->
                   [Drop(w, s = f.start) EXCEPT !.rv = TRUE,
                                                !.stop = same /\ s < f.start /\ e = f.end]

InsertedAtOnce(ch, ins, new) == InsertAt(ch, ins + 1, new)   \* mutant

\* The new lock goes behind those, from ins on, that start before it.
Inserted(ch, ins, new) ==
  LET ends == {i \in ins .. Len(ch) : i > 0 /\ ch[i].start >= new.start}
      at   == CASE ins = 0    -> 0
                [] ends = {}  -> Len(ch)
                [] OTHER      -> Max({ins, Min(ends) - 1})
  IN  InsertAt(ch, at + 1, new)

Adjust(ch, ins, o, d) ==
  LET from == Max({ins, 1})
      w0 == Walk(SubSeq(ch, 1, from - 1), ins, d)
      w  == FoldLeft(LAMBDA x, f : IF x.stop THEN Pass(x, f) ELSE Meet(x, f, o),
                     w0, SubSeq(ch, from, Len(ch)))
      left == w.pre \o w.tail
  IN  [chain |-> IF d.type = "none" \/ w.ret THEN left
                 ELSE Inserted(left, w.ins, [own |-> o, type |-> w.d.type,
                                             start |-> w.d.start, end |-> w.d.end]),
       rv |-> w.rv]
----------------------------------------------------------------------------
\* chk_granted(): one pass along the sleep list after some lock has given
\* way, in which a sleeper is given its lock and taken off, or gets its
\* blocker anew; g carries what the pass changes.

OfferStaleBlocker(g, sf) ==   \* mutant: the old blocker stays noted
  IF IsBlocked(g.chain, sf.own, sf) THEN [g EXCEPT !.sleepq = Append(@, sf)]
  ELSE [g EXCEPT
          !.chain = IF sf.class = "io" THEN @
                    ELSE Adjust(@, Insrt(@, sf.own, sf), sf.own, sf).chain,
          !.woken = IF sf.on THEN @ \union {sf.own} ELSE @,
          !.remote = IF sf.class = "lockmgr" THEN <<sf.own>> \o @ ELSE @]

Offer(g, sf) ==
  IF IsBlocked(g.chain, sf.own, sf)
  THEN [g EXCEPT !.sleepq = Append(@, [sf EXCEPT !.blk = Blocker(g.chain, sf.own, sf)])]
  ELSE [g EXCEPT
          !.chain = IF sf.class = "io" THEN @
                    ELSE Adjust(@, Insrt(@, sf.own, sf), sf.own, sf).chain,
          !.woken = IF sf.on THEN @ \union {sf.own} ELSE @,
          !.remote = IF sf.class = "lockmgr" THEN <<sf.own>> \o @ ELSE @]

ChkGranted(ch, sq) ==
  FoldLeft(Offer, [chain |-> ch, sleepq |-> <<>>, woken |-> {}, remote |-> <<>>], sq)

\* Everybody else can run: nobody loops in deadflck with the locks held.
Free == klm # "loop" /\ \A q \in Local : pc[q] # "loop"
Runs(p) == Free /\ pc[p] = "run"
KlmRuns == Free /\ klm = "run"

ResumedSilently(p, g) ==   \* mutant: no call of klm_callbacks
  [q \in Local |-> IF q \in g.woken /\ pc[q] = "asleep" THEN "woken" ELSE pc[q]]

Resumed(p, g) ==
  [q \in Local |-> IF q \in g.woken /\ pc[q] = "asleep" THEN "woken"
                   ELSE IF q = p /\ g.remote # <<>> THEN "callback" ELSE pc[q]]

\* The chain becomes ch, the sleep list sq, and, if check, the sleepers are
\* offered their locks.  A local caller p goes on to klm_callbacks() when
\* locks were granted to remote processes; the lock manager (p = 0) is told
\* in its answer to fetch them, and has done what it was about.
Settle(p, ch, sq, check) ==
  LET g == IF check THEN ChkGranted(ch, sq)
           ELSE [chain |-> ch, sleepq |-> sq, woken |-> {}, remote |-> <<>>]
      local == p \in Local
  IN  /\ Len(g.chain) <= MaxChain
      /\ chain' = g.chain
      /\ sleepq' = g.sleepq
      /\ pc' = Resumed(p, g)
      /\ klmq' = IF local THEN g.remote \o klmq ELSE klmq
      /\ grantq' = IF local THEN grantq ELSE g.remote \o grantq
      /\ asked' = (asked \/ (~local /\ g.remote # <<>>))
      /\ klm' = IF local THEN klm ELSE "run"

\* deadflck(): follow the recorded blockers from b.
Entry(b)   == SelectInSeq(sleepq, LAMBDA sf : sf.own = b)
Onwards(b) == IF Entry(b) = 0 THEN b ELSE sleepq[Entry(b)].blk
Chase(b)   == LET path[n \in 0 .. Cardinality(Owners)] ==
                    IF n = 0 THEN b ELSE Onwards(path[n - 1])
              IN  path
Deadlocks(o, b) == \E n \in 0 .. Cardinality(Owners) : Chase(b)[n] = o
LoopsFor(o, b)  == ~Deadlocks(o, b) /\ Entry(Chase(b)[Cardinality(Owners)]) # 0

Ranges == {d \in [type : Types \union {"none"}, start : 0 .. Size, end : 0 .. Size] :
             d.start < d.end}

\* The requests the run considers: see Splits and WaitsToDowngrade.
Overlaps(f, d) == d.start < f.end /\ d.end > f.start
Allowed(o, d) ==
  \/ Splits
  \/ \A i \in 1 .. Len(chain) :
        chain[i].own = o /\ Overlaps(chain[i], d) /\ d.end < chain[i].end
          => chain[i].type = d.type
MayWait(o, d) ==
  \/ WaitsToDowngrade
  \/ d.type = "write"
  \/ \A i \in 1 .. Len(chain) :
        chain[i].own = o /\ Overlaps(chain[i], d) => chain[i].type = "read"

NewSleeper(o, class, d, on) ==
  [own |-> o, class |-> class, type |-> d.type, start |-> d.start, end |-> d.end,
   blk |-> Blocker(chain, o, d), on |-> on]

SetLockUnchecked(p, d) ==   \* mutant: a downgrade wakes nobody
  /\ Runs(p) /\ d.type \in Types /\ Allowed(p, d)
  /\ ~IsBlocked(chain, p, d)
  /\ Settle(p, Adjust(chain, Insrt(chain, p, d), p, d).chain, sleepq, FALSE)

\* setflck() for F_SETLK and F_SETLKW by a process of this machine.
SetLock(p, d) ==
  /\ Runs(p) /\ d.type \in Types /\ Allowed(p, d)
  /\ ~IsBlocked(chain, p, d)
  /\ LET a == Adjust(chain, Insrt(chain, p, d), p, d)
     IN  Settle(p, a.chain, sleepq, a.rv /\ d.type = "read")

\* It is blocked, and there is no deadlock: it sleeps.  Or the search for
\* one runs in a circle that p is not on.
Sleeps(p, class, d) ==
  LET b == Blocker(chain, p, d)
  IN  /\ Runs(p) /\ d.type \in Types /\ IsBlocked(chain, p, d)
      /\ \/ /\ ~Deadlocks(p, b) /\ ~LoopsFor(p, b)
            /\ Len(sleepq) < MaxSleep
            /\ sleepq' = Append(sleepq, NewSleeper(p, class, d, TRUE))
            /\ pc' = [pc EXCEPT ![p] = "asleep"]
         \/ /\ LoopsFor(p, b)
            /\ pc' = [pc EXCEPT ![p] = "loop"]
            /\ UNCHANGED sleepq
      /\ UNCHANGED <<chain, klmq, grantq, asked, klm>>

WaitForLock(p, d) == Allowed(p, d) /\ MayWait(p, d) /\ Sleeps(p, "file", d)

\* locked(): a read or write of a file with mandatory locks waits.
WaitForIO(p, d) == d.type \in IOTypes /\ Sleeps(p, "io", d)

Unlock(p, d) ==
  /\ Runs(p) /\ d.type = "none" /\ Allowed(p, d)
  /\ LET a == Adjust(chain, IF chain = <<>> THEN 0 ELSE 1, p, d)
     IN  Settle(p, a.chain, sleepq, a.rv)

\* cleanlocks(): p closes the file.
Mine(o, ch) == SelectSeq(ch, LAMBDA f : f.own = o)
CleanLocks(p) ==
  /\ Runs(p)
  /\ Settle(p, SelectSeq(chain, LAMBDA f : f.own # p), sleepq, Mine(p, chain) # <<>>)

\* A signal ends the sleep; the process may have been given its lock.
Interrupt(p) ==
  /\ pc[p] \in {"asleep", "woken"}
  /\ pc' = [pc EXCEPT ![p] = "interrupted"]
  /\ UNCHANGED <<chain, sleepq, klmq, grantq, asked, klm>>

\* delsleeplck(): only a record lock's entry is looked for.
DelSleepLck(p) ==
  LET mine == SelectInSeq(sleepq, LAMBDA sf : sf.own = p /\ sf.class = "file")
      left == IF mine = 0 THEN sleepq ELSE RemoveAt(sleepq, mine)
  IN  /\ Free /\ pc[p] = "interrupted"
      /\ sleepq' = [i \in DOMAIN left |->
                      IF left[i].own = p THEN [left[i] EXCEPT !.on = FALSE] ELSE left[i]]
      /\ pc' = [pc EXCEPT ![p] = "run"]
      /\ UNCHANGED <<chain, klmq, grantq, asked, klm>>

Return(p) ==
  /\ pc[p] = "woken"
  /\ pc' = [pc EXCEPT ![p] = "run"]
  /\ UNCHANGED <<chain, sleepq, klmq, grantq, asked, klm>>

\* klm_callbacks(): tell the lock manager of each grant.
KlmCallbacks(p) ==
  /\ pc[p] = "callback"
  /\ klmq' = <<>>
  /\ pc' = [pc EXCEPT ![p] = "run"]
  /\ UNCHANGED <<chain, sleepq, grantq, asked, klm>>

----------------------------------------------------------------------------
\* What the lock manager asks for a process r of another machine.

Waiting(r) == \E i \in 1 .. Len(sleepq) : sleepq[i].own = r

\* A process there makes no new request before it has been told of a grant.
Untold(r) == Contains(klmq \o grantq, r)

RemoteSetLock(r, d) ==
  /\ KlmRuns /\ d.type \in Types /\ Allowed(r, d) /\ ~Waiting(r) /\ ~Untold(r)
  /\ ~IsBlocked(chain, r, d)
  /\ LET a == Adjust(chain, Insrt(chain, r, d), r, d)
     IN  Settle(0, a.chain, sleepq, a.rv /\ d.type = "read")

\* It is put on the list and the lock manager is answered at once; a
\* request that is there already is not put there again.  The lock manager
\* too may follow a circle for ever.
RemoteWait(r, d) ==
  LET b == Blocker(chain, r, d)
  IN  /\ KlmRuns /\ d.type \in Types /\ Allowed(r, d) /\ MayWait(r, d)
      /\ IsBlocked(chain, r, d) /\ ~Waiting(r) /\ ~Untold(r)
      /\ \/ /\ ~Deadlocks(r, b) /\ ~LoopsFor(r, b)
            /\ Len(sleepq) < MaxSleep
            /\ sleepq' = Append(sleepq, NewSleeper(r, "lockmgr", d, FALSE))
            /\ UNCHANGED klm
         \/ /\ LoopsFor(r, b)
            /\ klm' = "loop"
            /\ UNCHANGED sleepq
      /\ UNCHANGED <<chain, klmq, grantq, pc, asked>>

\* An unlock of one who waits takes back the request and nothing else.
RemoteUnlock(r, d) ==
  /\ KlmRuns /\ d.type = "none"
  /\ IF Waiting(r)
     THEN /\ sleepq' = RemoveAt(sleepq, Entry(r))
          /\ UNCHANGED <<chain, klmq, grantq, pc, asked, klm>>
     ELSE /\ Allowed(r, d)
          /\ LET a == Adjust(chain, IF chain = <<>> THEN 0 ELSE 1, r, d)
             IN  Settle(0, a.chain, sleepq, a.rv)

\* do_grant_locks(): the lock manager fetches a grant, and asks again as
\* long as there is another.
DoGrantLocks ==
  /\ klm = "run" /\ asked /\ grantq # <<>>
  /\ grantq' = Tail(grantq)
  /\ asked' = (Tail(grantq) # <<>>)
  /\ UNCHANGED <<chain, sleepq, klmq, pc, klm>>

\* kill_proc_locks(): the other machine has crashed.  What it waits for is
\* taken off the sleep list first; its locks follow when FICHAIN_LOCK has
\* been got, and processes of this machine may come in between.
IsRemote(f) == f.own \in Remote

KillSleepers ==
  /\ KlmRuns
  /\ sleepq' = SelectSeq(sleepq, LAMBDA f : ~IsRemote(f))
  /\ klm' = "crash"
  /\ UNCHANGED <<chain, klmq, grantq, pc, asked>>

KillLocks ==
  /\ Free /\ klm = "crash"
  /\ Settle(0, SelectSeq(chain, LAMBDA f : ~IsRemote(f)), sleepq,
            \E i \in 1 .. Len(chain) : IsRemote(chain[i]))

Next ==
  \/ \E p \in Local :
        \/ \E d \in Ranges : SetLock(p, d) \/ WaitForLock(p, d) \/ WaitForIO(p, d)
                           \/ Unlock(p, d)
        \/ CleanLocks(p) \/ Interrupt(p) \/ DelSleepLck(p) \/ Return(p)
        \/ KlmCallbacks(p)
  \/ \E r \in Remote, d \in Ranges :
        RemoteSetLock(r, d) \/ RemoteWait(r, d) \/ RemoteUnlock(r, d)
  \/ DoGrantLocks
  \/ KillSleepers \/ KillLocks

Spec == Init /\ [][Next]_vars

----------------------------------------------------------------------------
\* Properties

Bytes == 0 .. Size - 1
Covers(f, o, b) == f.own = o /\ f.start <= b /\ b < f.end
Mode(o, b) == IF \E i \in 1 .. Len(chain) : Covers(chain[i], o, b)
              THEN chain[CHOOSE i \in 1 .. Len(chain) : Covers(chain[i], o, b)].type
              ELSE "none"

\* No byte is locked for writing by one owner and locked by another at the
\* same time (blocked() and flckadj() together).
Exclusion ==
  \A o, q \in Owners, b \in Bytes :
     Mode(o, b) = "write" /\ o # q => Mode(q, b) = "none"

\* The chain is in the order of the first bytes, and two locks of one owner
\* do not overlap, nor touch if they have one type: what blocked() relies
\* on when it stops before the end of the chain.
ChainIsSorted ==
  \A i, j \in 1 .. Len(chain) : i < j =>
     /\ chain[i].start <= chain[j].start
     /\ chain[i].own = chain[j].own =>
          \/ chain[i].end < chain[j].start
          \/ chain[i].end = chain[j].start /\ chain[i].type # chain[j].type

\* Who is on the sleep list is blocked, by a lock of the process that is
\* noted as its blocker, from whom deadflck() goes on.
BlockersAreKnown ==
  \A i \in 1 .. Len(sleepq) :
     \E j \in 1 .. Len(chain) : /\ chain[j].own = sleepq[i].blk
                              /\ ClashesWith(chain[j], sleepq[i].own, sleepq[i])

\* A process asleep for a lock is on the list, once; one that runs again,
\* also when it was interrupted while another gave it the lock, is not on
\* the list any more and cannot be given a lock it no longer waits for.
SleepersAreListed ==
  \A p \in Local :
     LET files == {i \in 1 .. Len(sleepq) :
                     sleepq[i].own = p /\ sleepq[i].class = "file"}
     IN  /\ pc[p] \notin {"asleep", "interrupted"} => files = {}
         /\ pc[p] = "asleep" => \E i \in 1 .. Len(sleepq) :
                                  sleepq[i].own = p /\ sleepq[i].on
         /\ Cardinality(files) <= 1

\* A lock granted to a process of another machine is on its way: somebody
\* is about to call the lock manager, or it has been asked to fetch it.
GrantsAreTold ==
  /\ klmq # <<>> => \E p \in Local : pc[p] = "callback"
  /\ grantq # <<>> => asked

\* Whoever waits has an entry that a later unlock finds, or has been told.
SleepersAreTold == SleepersAreListed /\ GrantsAreTold

\* The chain is in order, so that a search that ends early misses nothing.
ChainIsRight == TypeOK /\ ChainIsSorted

\* Not so (fcntl.2): processes that wait for each other's locks in a circle: the search made
\* when a request is about to sleep is to prevent it.
WaitsFor == {e \in Local \X Local :
               \E i \in 1 .. Len(sleepq), j \in 1 .. Len(chain) :
                  /\ sleepq[i].own = e[1] /\ chain[j].own = e[2]
                  /\ pc[e[1]] = "asleep" /\ sleepq[i].on
                  /\ ClashesWith(chain[j], e[1], sleepq[i])}
NoTwoWaitForEachOther ==
  \A p, q \in Local : ~(<<p, q>> \in WaitsFor /\ <<q, p>> \in WaitsFor)

\* The chain is a table of locks per byte: a request that conflicts waits,
\* and after every change all that can be granted has been granted, also
\* to those who have been interrupted and not yet said so.
Request(sf) == [mode |-> sf.type, bytes |-> sf.start .. sf.end - 1]
Table == INSTANCE ByteLocks WITH
           held <- [o \in Owners |-> [b \in Bytes |-> Mode(o, b)]],
           waiting <- [o \in Owners |->
                         {Request(sleepq[i]) : i \in {j \in 1 .. Len(sleepq) :
                            sleepq[j].own = o /\ sleepq[j].class # "io"}}]
ImplementsByteLocks == Table!Spec

=============================================================================
