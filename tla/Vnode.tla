------------------------------- MODULE Vnode -------------------------------
\* Vnodes and the in-core inodes of a file system (vfs/vfs_subr.c and iget,
\* ufs_inactive and ufs_reclaim of ufs/ufs_inode.c), with what the name cache
\* tells of a vnode.  One step is what is done under one vnode, inode or chain
\* lock; the calls that nest are frames of a stack for each thread.
EXTENDS Integers, Sequences, FiniteSets, Functions

CONSTANTS Threads, Vnodes, Inos,
          None,
          Errors     \* reading an inode may fail

ASSUME FlagsAssumption == Errors \in BOOLEAN
ASSUME ThreadsAssumption == IsFiniteSet(Threads)
ASSUME NoneAssumption == None \notin Vnodes \union Inos \union [v : Vnodes, i : Inos]

VARIABLES vn,      \* the vnode with its inode
          free,    \* the vnodes on the free list
          file,    \* each inode of the disk
          name,    \* the vnode the name cache has for the name of an inode
          th,      \* what each thread does, and the file it has open
          panic    \* why the system has stopped

vars == <<vn, free, file, name, th, panic>>

Panics == {"none", "null v_freeb", "free vnode isn't", "bad ref count",
           "freeing free inode", "dup alloc"}
Labels == {"cached", "check", "scan", "get", "vget", "vget_slept", "got", "got_slept",
           "event", "have", "new", "init", "enter", "dup", "fill", "fail",
           "rele", "rele_slept", "inactive", "drop",
           "ufs_inactive", "stale", "trunc", "ifree", "last", "end",
           "gone_slept", "clean", "dead", "reclaim", "purge", "gone_end"}
Frame  == [at : Labels, v : Vnodes \union {None}, flag : BOOLEAN]
Open   == [v : Vnodes, i : Inos]

TypeOK ==
  /\ vn \in [Vnodes -> [count : 0 .. 3 * Cardinality(Threads), xlock : BOOLEAN,
                        want : BOOLEAN, type : {"none", "reg", "bad"}, ops : {"ufs", "dead"},
                        ino : Inos \union {None}, hashed : BOOLEAN, listed : BOOLEAN,
                        inactivating : BOOLEAN, inactwait : BOOLEAN,
                        read : {"no", "yes", "error"}]]
  /\ free \subseteq Vnodes
  /\ file \in [Inos -> {"free", "reserved", "linked", "unlinked"}]
  /\ name \in [Inos -> Vnodes \union {None}]
  /\ panic \in Panics
  /\ \A t \in Threads :
       /\ th[t].stack \in Seq(Frame) /\ Len(th[t].stack) <= 8
       /\ th[t].chan \in {None} \union ({"v_flag", "i_flag"} \X Vnodes)
       /\ th[t].why \in {"name", "handle", "create", "other", "unmount"}
       /\ th[t].i \in Inos \union {None}
       /\ th[t].cap \in Vnodes \union {None}
       /\ th[t].held \in Open \union {None}

\* At boot every vnode is on the free list, of no file system.
Unused == [count |-> 0, xlock |-> FALSE, want |-> FALSE, type |-> "bad", ops |-> "dead",
           ino |-> None, hashed |-> FALSE, listed |-> FALSE, inactivating |-> FALSE,
           inactwait |-> FALSE, read |-> "no"]
Idle   == [stack |-> <<>>, chan |-> None, why |-> "other", i |-> None,
           cap |-> None, held |-> None]

Init == /\ vn = [v \in Vnodes |-> Unused]
        /\ free = Vnodes
        /\ file = [i \in Inos |-> "linked"]
        /\ name = [i \in Inos |-> None]
        /\ th = [t \in Threads |-> Idle]
        /\ panic = "none"

-----------------------------------------------------------------------------
\* What a thread does next: r is its record.

Goto(r, at)    == [r EXCEPT !.stack[1].at = at]
With(r, at, v) == [r EXCEPT !.stack[1].at = at, !.stack[1].v = v]
Call(r, at, v) == [r EXCEPT !.stack = <<[at |-> at, v |-> v, flag |-> FALSE]>> \o @]
Return(r)      == IF Len(r.stack) > 1 THEN [r EXCEPT !.stack = Tail(@)]
                  ELSE [Idle EXCEPT !.held = r.held]
Sleep(r, chan) == [r EXCEPT !.chan = chan]
Begin(t, why, i, at, v) == Call([th[t] EXCEPT !.why = why, !.i = i], at, v)

Top(t)    == th[t].stack[1]
At(t, at) == th[t].stack # <<>> /\ Top(t).at = at /\ th[t].chan = None
IsIdle(t) == th[t].stack = <<>>
ModeIsZero(i) == file[i] \in {"free", "reserved"}

Does(t, r) == th' = [th EXCEPT ![t] = r]
Wakeup(s, chan) == [u \in Threads |-> IF s[u].chan = chan THEN [s[u] EXCEPT !.chan = None]
                                      ELSE s[u]]

\* cache_purge(): the vnode gets a new capability number, so that what the cache
\* has of it, and the numbers that threads have noted, are no longer its own.
Forgotten(s, v)  == [u \in Threads |-> IF s[u].cap = v THEN [s[u] EXCEPT !.cap = None] ELSE s[u]]
CachePurge(v)    == name' = [i \in Inos |-> IF name[i] = v THEN None ELSE name[i]]

\* vgetm() of a vnode that is not VXLOCKed: one without references is taken off
\* the free list; when it is not there the pointers are null.
Vgetm(v) == /\ vn' = [vn EXCEPT ![v].count = @ + 1]
            /\ free' = free \ {v}
            /\ panic' = IF vn[v].count = 0 /\ v \notin free THEN "null v_freeb" ELSE panic

\* Sleeps until the VXLOCK of v is clear, and is then to go on at its label.
Want(t, r, v) == /\ vn' = [vn EXCEPT ![v].want = TRUE]
                 /\ Does(t, Sleep(r, <<"v_flag", v>>))

\* The entry of vgone(), with v locked; w are the vnodes, r goes on after it.

Vgone(w, r, v, sleep) ==
  IF w[v].xlock
  THEN IF sleep THEN [vn |-> [w EXCEPT ![v].want = TRUE],
                      th |-> Sleep(Call(r, "gone_slept", v), <<"v_flag", v>>)]
       ELSE [vn |-> w, th |-> r]
  ELSE [vn |-> [w EXCEPT ![v].xlock = TRUE],
        th |-> Call(r, IF w[v].type = "bad" THEN "gone_end" ELSE "clean", v)]

-----------------------------------------------------------------------------
\* vrele()

Rele(t) ==
  LET v == Top(t).v
  IN  /\ At(t, "rele")
      /\ \/ /\ vn[v].count > 1
            /\ vn' = [vn EXCEPT ![v].count = @ - 1]
            /\ Does(t, Return(th[t]))
            /\ UNCHANGED panic
         \/ /\ vn[v].count < 1
            /\ panic' = "bad ref count"
            /\ UNCHANGED <<vn, th>>
         \/ /\ vn[v].count = 1 /\ vn[v].xlock
            /\ Want(t, Goto(th[t], "rele_slept"), v)
            /\ UNCHANGED panic
         \/ /\ vn[v].count = 1 /\ ~vn[v].xlock
            /\ Does(t, Goto(th[t], "inactive"))
            /\ UNCHANGED <<vn, panic>>
      /\ UNCHANGED <<free, file, name>>

Inactive(t) ==
  /\ At(t, "inactive")
  /\ Does(t, IF vn[Top(t).v].ops = "ufs"
             THEN Call(Goto(th[t], "drop"), "ufs_inactive", Top(t).v)
             ELSE Goto(th[t], "drop"))
  /\ UNCHANGED <<vn, free, file, name, panic>>

DropAlwaysFrees(t) ==   \* mutant: the count is not looked at again
  LET v == Top(t).v
  IN  /\ At(t, "drop")
      /\ vn' = [vn EXCEPT ![v].count = @ - 1]
      /\ free' = free \union {v}
      /\ Does(t, Return(th[t]))
      /\ UNCHANGED <<file, name, panic>>

Drop(t) ==
  LET v == Top(t).v
  IN  /\ At(t, "drop") \/ (At(t, "rele_slept") /\ ~vn[v].xlock)
      /\ vn' = [vn EXCEPT ![v].count = @ - 1]
      /\ free' = IF vn[v].count = 1 THEN free \union {v} ELSE free
      /\ Does(t, Return(th[t]))
      /\ UNCHANGED <<file, name, panic>>

\* wait_for_vxlock() looks again when it has slept.
SleepAgain(t) ==
  /\ At(t, "rele_slept") \/ At(t, "vget_slept") \/ At(t, "gone_slept")
  /\ vn[Top(t).v].xlock
  /\ Want(t, th[t], Top(t).v)
  /\ UNCHANGED <<free, file, name, panic>>

-----------------------------------------------------------------------------
\* ufs_inactive(), also called by vclean() of a vnode in use.  mp is DEADMOUNT
\* as long as iget has not put the vnode on the list of its mount.

UfsInactive(t) ==
  LET v == Top(t).v
      i == vn[v].ino
  IN  /\ At(t, "ufs_inactive")
      /\ \/ /\ vn[v].read = "error"
            /\ LET g == Vgone(vn, Return(th[t]), v, FALSE)
               IN  vn' = g.vn /\ Does(t, g.th)
         \/ /\ vn[v].read # "error" /\ vn[v].inactivating
            /\ Does(t, Return(th[t]))
            /\ UNCHANGED vn
         \/ /\ vn[v].read # "error" /\ ~vn[v].inactivating
            /\ vn' = [vn EXCEPT ![v].inactivating = TRUE]
            /\ Does(t, Goto(th[t], IF ModeIsZero(i) \/ ~vn[v].listed THEN "stale"
                                   ELSE IF file[i] = "unlinked" THEN "trunc" ELSE "last"))
      /\ UNCHANGED <<free, file, name, panic>>

Stale(t) ==
  LET g == Vgone(vn, Goto(th[t], "end"), Top(t).v, FALSE)
  IN  /\ At(t, "stale")
      /\ vn' = g.vn /\ Does(t, g.th)
      /\ UNCHANGED <<free, file, name, panic>>

\* The file is truncated and its mode cleared, then the inode is freed.
Trunc(t) ==
  /\ At(t, "trunc")
  /\ file' = [file EXCEPT ![vn[Top(t).v].ino] = "reserved"]
  /\ Does(t, Goto(th[t], "ifree"))
  /\ UNCHANGED <<vn, free, name, panic>>

Ifree(t) ==
  LET i == vn[Top(t).v].ino
  IN  /\ At(t, "ifree")
      /\ file' = [file EXCEPT ![i] = "free"]
      /\ panic' = IF file[i] = "free" THEN "freeing free inode" ELSE panic
      /\ Does(t, [Goto(th[t], "last") EXCEPT !.stack[1].flag = TRUE])
      /\ UNCHANGED <<vn, free, name>>

\* The end of the inactivation; the inode whose mode has been cleared is
\* reclaimed at once if nobody has got a reference.
InactivationEnds(v) == [vn EXCEPT ![v].inactivating = FALSE, ![v].inactwait = FALSE]
WakeInactive(s, v)  == IF vn[v].inactwait THEN Wakeup(s, <<"i_flag", v>>) ELSE s

Last(t) ==
  LET v == Top(t).v
      w == InactivationEnds(v)
      r == Return(th[t])
      g == IF vn[v].count = 1 /\ Top(t).flag THEN Vgone(w, r, v, FALSE)
           ELSE [vn |-> w, th |-> r]
  IN  /\ At(t, "last")
      /\ vn' = g.vn
      /\ th' = WakeInactive([th EXCEPT ![t] = g.th], v)
      /\ UNCHANGED <<free, file, name, panic>>

End(t) ==
  LET v == Top(t).v
  IN  /\ At(t, "end")
      /\ vn' = InactivationEnds(v)
      /\ th' = WakeInactive([th EXCEPT ![t] = Return(@)], v)
      /\ UNCHANGED <<free, file, name, panic>>

-----------------------------------------------------------------------------
\* vclean(), and the rest of vgone().  flag: the vnode was in use, and vclean
\* has a reference of its own.

CleanTakesNoReference(t) ==   \* mutant: the reference that is handed to vrele
  LET v == Top(t).v              \* at the end is not taken
  IN  /\ At(t, "clean")
      /\ Does(t, [Goto(th[t], "dead") EXCEPT !.stack[1].flag = vn[v].count > 0])
      /\ UNCHANGED <<vn, free, file, name, panic>>

Clean(t) ==
  LET v == Top(t).v
      active == vn[v].count > 0
  IN  /\ At(t, "clean")
      /\ vn' = [vn EXCEPT ![v].count = IF active THEN @ + 1 ELSE @]
      /\ Does(t, [Goto(th[t], "dead") EXCEPT !.stack[1].flag = active])
      /\ UNCHANGED <<free, file, name, panic>>

Dead(t) ==
  LET v == Top(t).v
      r == Goto(th[t], "reclaim")
  IN  /\ At(t, "dead")
      /\ vn' = [vn EXCEPT ![v].ops = "dead"]
      /\ Does(t, IF Top(t).flag THEN Call(r, "ufs_inactive", v) ELSE r)
      /\ UNCHANGED <<free, file, name, panic>>

Reclaim(t) ==   \* ufs_reclaim()
  /\ At(t, "reclaim")
  /\ vn' = [vn EXCEPT ![Top(t).v].hashed = FALSE]
  /\ Does(t, Goto(th[t], "purge"))
  /\ UNCHANGED <<free, file, name, panic>>

PurgeForgotten(t) ==   \* mutant: the name cache still has the vnode
  LET v == Top(t).v
      r == Goto(th[t], "gone_end")
  IN  /\ At(t, "purge")
      /\ Does(t, IF Top(t).flag THEN Call(r, "rele", v) ELSE r)
      /\ UNCHANGED <<vn, free, file, name, panic>>

Purge(t) ==
  LET v == Top(t).v
      r == Goto(th[t], "gone_end")
  IN  /\ At(t, "purge")
      /\ CachePurge(v)
      /\ th' = Forgotten([th EXCEPT ![t] = IF Top(t).flag THEN Call(r, "rele", v) ELSE r], v)
      /\ UNCHANGED <<vn, free, file, panic>>

GoneEndSilent(t) ==   \* mutant: who waits for the VXLOCK is not woken
  LET v == Top(t).v
  IN  /\ At(t, "gone_end")
      /\ vn' = [vn EXCEPT ![v].listed = FALSE, ![v].type = "bad", ![v].xlock = FALSE,
                          ![v].want = FALSE]
      /\ Does(t, Return(th[t]))
      /\ UNCHANGED <<free, file, name, panic>>

GoneEnd(t) ==   \* insmntque(vp, DEADMOUNT), VBAD and clear_vxlock()
  LET v == Top(t).v
      s == [th EXCEPT ![t] = Return(@)]
  IN  /\ At(t, "gone_end")
      /\ vn' = [vn EXCEPT ![v].listed = FALSE, ![v].type = "bad", ![v].xlock = FALSE,
                          ![v].want = FALSE]
      /\ th' = IF vn[v].want THEN Wakeup(s, <<"v_flag", v>>) ELSE s
      /\ UNCHANGED <<free, file, name, panic>>

GoneSlept(t) ==   \* somebody else has cleaned it
  /\ At(t, "gone_slept") /\ ~vn[Top(t).v].xlock
  /\ Does(t, Return(th[t]))
  /\ UNCHANGED <<vn, free, file, name, panic>>

-----------------------------------------------------------------------------
\* The lookup of a name: the name cache, then the directory (ufs_lookup and
\* scandir).  The capability is noted under the lock of the hash chain.

Look(r) ==
  IF name[r.i] # None
  THEN [With(r, "cached", name[r.i]) EXCEPT !.cap = name[r.i]]
  ELSE With(r, "scan", None)

Cached(t) ==
  LET v == Top(t).v
  IN  /\ At(t, "cached")
      /\ IF vn[v].xlock
         THEN Does(t, Goto(th[t], "scan")) /\ UNCHANGED <<vn, free, panic>>
         ELSE Does(t, Goto(th[t], "check")) /\ Vgetm(v)
      /\ UNCHANGED <<file, name>>

CheckForgotten(t) ==   \* mutant: the capability is not compared
  /\ At(t, "check")
  /\ Does(t, Goto(th[t], "got"))
  /\ UNCHANGED <<vn, free, file, name, panic>>

Check(t) ==
  LET v == Top(t).v
  IN  /\ At(t, "check")
      /\ Does(t, IF th[t].cap = v
                 THEN [Goto(th[t], "got") EXCEPT !.stack[1].flag = TRUE]
                 ELSE Call(Goto(th[t], "scan"), "rele", v))
      /\ UNCHANGED <<vn, free, file, name, panic>>

Scan(t) ==
  /\ At(t, "scan")
  /\ Does(t, IF file[th[t].i] = "linked" THEN Goto(th[t], "get") ELSE Return(th[t]))
  /\ UNCHANGED <<vn, free, file, name, panic>>

-----------------------------------------------------------------------------
\* iget()

InHash(i) == {v \in Vnodes : vn[v].hashed /\ vn[v].ino = i}

Get(t) ==
  LET i == th[t].i
  IN  /\ At(t, "get")
      /\ \/ \E v \in InHash(i) :
              IF vn[v].xlock
              THEN Does(t, With(th[t], "vget", v)) /\ UNCHANGED <<vn, free, panic>>
              ELSE Does(t, With(th[t], "got", v)) /\ Vgetm(v)
         \/ /\ InHash(i) = {}
            /\ Does(t, Goto(th[t], "new"))
            /\ UNCHANGED <<vn, free, panic>>
      /\ UNCHANGED <<file, name>>

\* vget(): the vnode may be another one's when it is there at last, and whoever
\* gets a reference gives it back.
Vget(t) ==
  LET v == Top(t).v
  IN  /\ At(t, "vget")
      /\ IF vn[v].xlock
         THEN Want(t, Goto(th[t], "vget_slept"), v) /\ UNCHANGED <<free, panic>>
         ELSE Does(t, Call(Goto(th[t], "get"), "rele", v)) /\ Vgetm(v)
      /\ UNCHANGED <<file, name>>

VgetSlept(t) ==
  /\ At(t, "vget_slept") /\ ~vn[Top(t).v].xlock
  /\ Does(t, Goto(th[t], "get"))
  /\ UNCHANGED <<vn, free, file, name, panic>>

Got(t) ==
  LET v == Top(t).v
  IN  /\ At(t, "got")
      /\ IF vn[v].inactivating
         THEN /\ vn' = [vn EXCEPT ![v].inactwait = TRUE]
              /\ Does(t, Sleep(Goto(th[t], "got_slept"), <<"i_flag", v>>))
         ELSE Does(t, Goto(th[t], "event")) /\ UNCHANGED vn
      /\ UNCHANGED <<free, file, name, panic>>

\* The inactivation is over: the reference is given back and the search begins
\* again, for a name found in the cache with the cache.
GotSlept(t) ==
  LET r == [th[t] EXCEPT !.stack[1].flag = FALSE]
  IN  /\ At(t, "got_slept")
      /\ Does(t, Call(IF Top(t).flag THEN Look(r) ELSE Goto(r, "get"), "rele", Top(t).v))
      /\ UNCHANGED <<vn, free, file, name, panic>>

Event(t) ==   \* event_wait() for i_iodone
  LET v == Top(t).v
  IN  /\ At(t, "event") /\ vn[v].read # "no"
      /\ Does(t, IF vn[v].read = "error" THEN Call(Goto(th[t], "fail"), "rele", v)
                 ELSE Goto(th[t], "have"))
      /\ UNCHANGED <<vn, free, file, name, panic>>

\* getnewvnode(); the lock of a vnode of the list may be held for a moment, so
\* any may be taken.
New(t) ==
  /\ At(t, "new")
  /\ \/ \E v \in free :
          /\ ~vn[v].xlock
          /\ panic' = IF vn[v].count # 0 THEN "free vnode isn't" ELSE panic
          /\ free' = free \ {v}
          /\ LET r == With(th[t], "init", v)
                 g == IF vn[v].type = "bad" THEN [vn |-> vn, th |-> r] ELSE Vgone(vn, r, v, FALSE)
             IN  vn' = g.vn /\ Does(t, g.th)
     \/ /\ \A v \in free : vn[v].xlock
        /\ Does(t, Goto(th[t], "fail"))
        /\ UNCHANGED <<vn, free, panic>>
  /\ UNCHANGED <<file, name>>

Fresh(n, i) == [Unused EXCEPT !.count = n + 1, !.type = "none", !.ops = "ufs", !.ino = i]

VInit(t) ==   \* the rest of getnewvnode(), and the inode as iget sets it up
  LET v == Top(t).v
  IN  /\ At(t, "init")
      /\ vn' = [vn EXCEPT ![v] = Fresh(@.count, th[t].i)]
      /\ Does(t, Goto(th[t], "enter"))
      /\ UNCHANGED <<free, file, name, panic>>

EnterUnseen(t) ==   \* mutant: the chain is not searched again
  /\ At(t, "enter")
  /\ vn' = [vn EXCEPT ![Top(t).v].hashed = TRUE]
  /\ Does(t, Goto(th[t], "fill"))
  /\ UNCHANGED <<free, file, name, panic>>

\* Another thread may have made the same inode meanwhile: the new vnode is
\* cleaned and released.
Enter(t) ==
  LET v == Top(t).v
      g == Vgone([vn EXCEPT ![v].read = "error"], Goto(th[t], "dup"), v, FALSE)
  IN  /\ At(t, "enter")
      /\ IF InHash(th[t].i) # {} THEN vn' = g.vn /\ Does(t, g.th)
         ELSE /\ vn' = [vn EXCEPT ![v].hashed = TRUE]
              /\ Does(t, Goto(th[t], "fill"))
      /\ UNCHANGED <<free, file, name, panic>>

Dup(t) ==
  /\ At(t, "dup")
  /\ Does(t, Call(Goto(th[t], "get"), "rele", Top(t).v))
  /\ UNCHANGED <<vn, free, file, name, panic>>

Fill(t) ==   \* the inode is read from the disk; idrop() when that fails
  LET v == Top(t).v
  IN  /\ At(t, "fill")
      /\ \/ /\ vn' = [vn EXCEPT ![v].read = "yes", ![v].listed = TRUE,
                                ![v].type = IF ModeIsZero(th[t].i) THEN "none" ELSE "reg"]
            /\ Does(t, Goto(th[t], "have"))
         \/ /\ Errors
            /\ vn' = [vn EXCEPT ![v].read = "error", ![v].hashed = FALSE]
            /\ Does(t, Call(Goto(th[t], "fail"), "rele", v))
      /\ UNCHANGED <<free, file, name, panic>>

\* What the callers do with the inode: scandir enters the name, if the file is
\* still linked; ufs_fhtovp refuses an inode without a mode; maknode, by way of
\* ialloc, makes it a file.
Have(t) ==
  LET v == Top(t).v
      i == th[t].i
      kept == [Return(th[t]) EXCEPT !.held = [v |-> v, i |-> i]]
  IN  /\ At(t, "have")
      /\ \/ /\ th[t].why = "name" /\ vn[v].type = "none"
            /\ Does(t, Call(Goto(th[t], "scan"), "rele", v))
            /\ UNCHANGED <<vn, file, name, panic>>
         \/ /\ th[t].why = "name" /\ vn[v].type # "none"
            /\ name' = [name EXCEPT ![i] = IF file[i] = "linked" THEN v ELSE @]
            /\ Does(t, kept)
            /\ UNCHANGED <<vn, file, panic>>
         \/ /\ th[t].why = "handle"
            /\ Does(t, IF ModeIsZero(i) THEN Call(Return(th[t]), "rele", v) ELSE kept)
            /\ UNCHANGED <<vn, file, name, panic>>
         \/ /\ th[t].why = "create"
            /\ panic' = IF ~ModeIsZero(i) THEN "dup alloc" ELSE panic
            /\ file' = [file EXCEPT ![i] = "linked"]
            /\ vn' = [vn EXCEPT ![v].type = "reg"]
            /\ name' = [name EXCEPT ![i] = v]
            /\ Does(t, kept)
      /\ UNCHANGED free

Fail(t) ==
  /\ At(t, "fail")
  /\ file' = IF th[t].why = "create" THEN [file EXCEPT ![th[t].i] = "free"] ELSE file
  /\ Does(t, Return(th[t]))
  /\ UNCHANGED <<vn, free, name, panic>>

-----------------------------------------------------------------------------
\* What threads begin.

Busy(whys) == \E u \in Threads : ~IsIdle(u) /\ th[u].why \in whys
Lookups    == {"name", "handle", "create"}
MayBegin(t) == IsIdle(t) /\ th[t].held = None

LookUp(t, i) ==
  /\ MayBegin(t) /\ ~Busy({"unmount"})
  /\ Does(t, Look(Begin(t, "name", i, "scan", None)))
  /\ UNCHANGED <<vn, free, file, name, panic>>

FhToVp(t, i) ==
  /\ MayBegin(t) /\ ~Busy({"unmount"})
  /\ Does(t, Begin(t, "handle", i, "get", None))
  /\ UNCHANGED <<vn, free, file, name, panic>>

Create(t, i) ==
  /\ MayBegin(t) /\ ~Busy({"unmount"}) /\ file[i] = "free"
  /\ file' = [file EXCEPT ![i] = "reserved"]
  /\ Does(t, Begin(t, "create", i, "get", None))
  /\ UNCHANGED <<vn, free, name, panic>>

Close(t) ==
  /\ IsIdle(t) /\ th[t].held # None
  /\ Does(t, [Begin(t, "other", th[t].i, "rele", th[t].held.v) EXCEPT !.held = None])
  /\ UNCHANGED <<vn, free, file, name, panic>>

\* ufs_remove() of the file that is open: operations on a vnode that has been
\* cleaned go to the dead file system.
Remove(t) ==
  LET h == th[t].held
  IN  /\ IsIdle(t) /\ h # None /\ file[h.i] = "linked" /\ vn[h.v].ops = "ufs"
      /\ file' = [file EXCEPT ![h.i] = "unlinked"]
      /\ CachePurge(h.v)
      /\ th' = Forgotten(th, h.v)
      /\ UNCHANGED <<vn, free, panic>>

Sync(t, v) ==   \* ufs_sync() gets each vnode of the mount and releases it
  /\ MayBegin(t) /\ vn[v].listed /\ ~vn[v].xlock
  /\ Vgetm(v)
  /\ Does(t, Begin(t, "other", th[t].i, "rele", v))
  /\ UNCHANGED <<file, name>>

\* vflush() cleans the unused vnodes of a mount, while lookups are disabled.
Vflush(t, v) ==
  LET g == Vgone(vn, [th[t] EXCEPT !.why = "unmount"], v, TRUE)
  IN  /\ MayBegin(t) /\ ~Busy(Lookups) /\ vn[v].listed /\ vn[v].count = 0
      /\ vn' = g.vn /\ Does(t, g.th)
      /\ UNCHANGED <<free, file, name, panic>>

\* The next step of a call.
Step(t) ==
  \/ Rele(t) \/ Inactive(t) \/ Drop(t) \/ SleepAgain(t)
  \/ UfsInactive(t) \/ Stale(t) \/ Trunc(t) \/ Ifree(t) \/ Last(t) \/ End(t)
  \/ Clean(t) \/ Dead(t) \/ Reclaim(t) \/ Purge(t) \/ GoneEnd(t) \/ GoneSlept(t)
  \/ Cached(t) \/ Check(t) \/ Scan(t)
  \/ Get(t) \/ Vget(t) \/ VgetSlept(t) \/ Got(t) \/ GotSlept(t) \/ Event(t)
  \/ New(t) \/ VInit(t) \/ Enter(t) \/ Dup(t) \/ Fill(t) \/ Have(t) \/ Fail(t)

Start(t) ==
  \/ Close(t) \/ Remove(t)
  \/ \E i \in Inos : LookUp(t, i) \/ FhToVp(t, i) \/ Create(t, i)
  \/ \E v \in Vnodes : Sync(t, v) \/ Vflush(t, v)

Next == panic = "none" /\ \E t \in Threads : Step(t) \/ Start(t)

Spec == Init /\ [][Next]_vars
FairSpec == Spec /\ \A t \in Threads : WF_vars(panic = "none" /\ Step(t))

-----------------------------------------------------------------------------
\* Properties

\* References of v: files that are open, calls that have one, and the one that
\* vclean takes, until it is handed to vrele.
Owns(f, v) ==
  /\ f.v = v
  /\ \/ f.at \in {"check", "got", "got_slept", "event", "have", "enter", "dup", "fill",
                  "rele", "rele_slept", "inactive", "drop"}
     \/ f.at \in {"dead", "reclaim", "purge"} /\ f.flag

RefsOf(t, v) ==
  Cardinality({k \in DOMAIN th[t].stack : Owns(th[t].stack[k], v)})
    + IF th[t].held # None /\ th[t].held.v = v THEN 1 ELSE 0

\* Every reference is counted, and nothing else is: of files that are open, of
\* calls of several threads, of vclean; so the count reaches zero when and only
\* when nobody has the vnode any more.
RefsAreCounted ==
  panic = "none" => \A v \in Vnodes :
     vn[v].count = SumFunction([t \in Threads |-> RefsOf(t, v)])

\* The vnodes of the free list are those without references, but for one that
\* getnewvnode has taken and is cleaning.
FreeListIsUnused ==
  panic = "none" => \A v \in Vnodes :
     v \in free <=> /\ vn[v].count = 0
                    /\ \A t \in Threads : \A k \in DOMAIN th[t].stack :
                         ~(th[t].stack[k].at = "init" /\ th[t].stack[k].v = v)

\* Two threads that look for the same inode never make two vnodes of it.
OneVnodePerInode == \A i \in Inos : Cardinality(InHash(i)) <= 1

\* Only one thread at a time cleans a vnode.
Cleaners(v) == {c \in Threads \X (1 .. 8) :
                  /\ c[2] \in DOMAIN th[c[1]].stack /\ th[c[1]].stack[c[2]].v = v
                  /\ th[c[1]].stack[c[2]].at \in {"clean", "dead", "reclaim", "purge", "gone_end"}}
OneCleaner == \A v \in Vnodes : Cardinality(Cleaners(v)) = IF vn[v].xlock THEN 1 ELSE 0

\* An open file keeps its vnode, which is neither cleaned nor made another inode,
\* not even when the file has been unlinked and its inode freed.  The code does not
\* keep to this when an inode is allocated again: module VnodeHistory says up to
\* when it does.
HeldIsKept ==
  panic = "none" => \A t \in Threads : th[t].held # None =>
     LET h == th[t].held
     IN  vn[h.v].ino = h.i /\ vn[h.v].hashed /\ vn[h.v].ops = "ufs"

\* The name cache has a vnode that is not being cleaned only for a name that is
\* in the directory and for the file that is its inode: a vnode is taken away from
\* its file, and a file from its name, only with what the cache has of them.  This
\* too holds up to the moment that VnodeHistory tells.
NameIsRight == \A i \in Inos : name[i] # None /\ ~vn[name[i]].xlock =>
  vn[name[i]].ino = i /\ vn[name[i]].type = "reg" /\ file[i] = "linked"

\* ialloc() asserts that the vnode which iget has given it is one of UFS, and says
\* that "No one else knows about this inode yet" (ufs_alloc.c:459-463).
AllocatedIsLive == \A t \in Threads :
  At(t, "have") /\ th[t].why = "create" => vn[Top(t).v].ops = "ufs"

\* The sanity checks of the code hold: a vnode of the free list is not in use, no
\* reference is given back twice, an inode is freed once and is free when it is
\* allocated.  (Not the one that getnewvnode's vnode is found by nobody.)
NoPanic == panic \in {"none", "null v_freeb"}

\* A vnode is not VXLOCKed for ever.
XlockIsCleared == \A v \in Vnodes : vn[v].xlock ~> (~vn[v].xlock \/ panic # "none")
\* Whoever sleeps for a VXLOCK or an inactivation is woken.
SleepersAreWoken == \A t \in Threads : th[t].chan # None ~> (th[t].chan = None \/ panic # "none")

\* The lists, the locks and the counts that the panics of vrele, vgone and
\* getnewvnode ask for.
LifecycleIsSound == TypeOK /\ FreeListIsUnused /\ OneCleaner /\ NoPanic

\* Nobody waits for ever, for a vnode or because of one.
WaitsEnd == XlockIsCleared /\ SleepersAreWoken
=============================================================================
