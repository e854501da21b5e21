# Verification of the OSF/1 kernel

TLA+ models of the concurrent core of the DEC OSF/1 V2.0 kernel, the checks TLC
makes of them on small instances and the proofs TLAPS checks for every
instance.  Paths below are relative to `src/usr/opt/OSC200/src/kernel/`.

## 1. The system

The tree is a complete operating system: a Mach 2.5 kernel with a 4.3BSD-derived
Unix server inside it (`kernel/`, 1.1 million lines), its user commands and
libraries, the X Window System and font data.  The core logic, and nearly all
the concurrency, is in the kernel.  The commands, libraries and X code run above
the system-call interface and are left aside, and so are the machine-dependent
parts, the drivers and the floating-point emulation.

The kernel is multithreaded.  Kernel code is divided by *simple locks* (spin
locks, held for short critical sections and across interrupts), *blocking locks*
(`kern/lock.c`), *events* slept on and woken (`kern/sched_prim.c`,
`bsd/kern_synch.c`), reference counts, and timers that run in interrupt context
(`bsd/kern_clock.c`).  The default Alpha configuration is for one processor with
realtime preemption; the same code is built for several (NCPUS > 1).  The models
allow every interleaving of critical sections, which covers both: a processor
switch can come between any two critical sections of a preemptive uniprocessor.

| Component | State | Operations | Used by / uses | What is hard |
|---|---|---|---|---|
| Blocking locks (`kern/lock.c`, `kern/lock.h`) | `struct lock`: want_write, want_upgrade, read_count, waiting, can_sleep, recursive owner and depth | lock_read/write, try variants, upgrade, downgrade, done, set/clear recursive | every subsystem; sleeps through sched_prim | several kinds of waiter behind one flag and one event; upgrades that give up their count first; recursion that counts reads and writes in two words |
| Waits and wakeups (`kern/sched_prim.c`) | thread state word, wait_event, wait hash queues, run queues, timers | assert_wait, thread_sleep, clear_wait, thread_wakeup, thread_block, thread_continue, thread_setrun | everything that sleeps | a wakeup before the block, after a timeout, or during a signal; a thread that still runs while it is already on a wait queue |
| Thread control (`kern/thread.c`, `kern/thread_swap.c`) | suspend counts, wake_active, halted, swap state | suspend, resume, hold, dowait, release, halt, terminate | tasks, signals, exceptions | suspending a thread that runs elsewhere and waiting until it has stopped |
| Sleep/wakeup for Unix code (`bsd/kern_synch.c`) | p_sigmask, wchan, wait result | mpsleep, tsleep, wakeup, unsleep | file systems, tty, sockets | signal, timeout and wakeup race for one sleep |
| Events (`kern/event.c`) | ev_event flag | event_wait, event_post, event_clear | I/O completion | the flag is set under a lock, the wakeup happens after it |
| Callouts (`bsd/kern_clock.c`) | delta list of callouts, free list | timeout, untimeout, softclock, hardclock | sched_prim, drivers, TCP | a callout that fires while it is cancelled; a full table |
| Buffer cache (`vfs/vfs_bio.c`) | hash chains, free lists, buffer flags | getblk, bread, bwrite, brelse, biodone | file systems, drivers | two threads after one block; a buffer that changes identity while slept on |
| Vnodes (`vfs/vfs_subr.c`) | free list, usecount, v_id, VXLOCK | getnewvnode, vget, vrele, vgone, vclean | every file system | reuse of a vnode another thread is about to get |
| Name cache (`vfs/vfs_cache.c`) | hash, LRU, capability ids | cache_lookup, enter, purge | namei | entries that outlive their vnode |
| Record locks (`vfs/vfs_flock.c`) | sorted lock list, sleep list | fcntl locks, deadlock search | file descriptors | cycles of waiting processes, splitting and merging ranges |
| Fifos (`vfs/fifo_vnops.c`) | reader/writer counts, buffer | open, read, write, close | vnode layer | open rendezvous, end-of-file |
| Page cache (`vfs/vfs_ubc.c`) and virtual memory (`vm/`) | page queues, object maps, swap space | page lookup, fault, pageout, anon copy-on-write, reservation | file systems, exec, fork | busy pages, reference counts of shared pages, running out of swap |
| Mach ports (`kern/ipc_*.c`) | ports, port sets, rights, message queues, dead names | send, receive, insert/remove right, destroy | user servers, VM objects | rights in transit, lock order of ports |
| System V IPC (`bsd/svipc_*.c`) | semaphores with undo lists, queues, segments | semop, semctl, msgsnd, msgrcv, shmat | processes | undo at exit, removal while others sleep |
| Processes (`bsd/kern_fork.c`, `kern_exit.c`, `kern_sig.c`) | process states, pids, pending signals, job control | fork, exit, wait, psignal, issig, stop/continue | everything | stop and continue race; zombies and reparenting |
| Descriptors, select (`bsd/kern_descrip.c`, `subr_select.c`) | per-process tables, sel_queue | open/close/dup, select scan and sleep | system calls | close while another thread uses the file; an event between scan and sleep |
| Sockets, mbufs, TCP/IP (`bsd/uipc_*.c`, `net*/`) | socket buffers, state, protocol control blocks | bind ... close, sosend, soreceive | descriptors, callouts | accept queues, buffer locks, half-closed states |
| Streams (`streams/`) | queues, synch queues, modules | put/service procedures, open/close, link | ttys, TLI | synchronization levels, requests handed to the current owner |
| Logical volumes (`lvm/`) | mirrors, stale bits, write-consistency cache, status area | strategy, mirror reads/writes, resync | buffer cache, disk drivers | a crash between the mirrors of one write |
| NFS and RPC (`nfs/`, `rpc/`) | duplicate-request cache, client handles, lease-free attributes | call, retry, dispatch | sockets, vnodes | retransmitted requests that are not idempotent |
| Resource maps, zones, kernel memory (`bsd/subr_rmap.c`, `kern/zalloc.c`, `bsd/kern_malloc.c`) | free segments, zone lists | rmalloc/rmfree, zalloc/zfree, malloc/free | everything | a zone grown by two threads at once |
| Task, processor sets, AST, thread calls (`kern/task.c`, `ast.c`, `parallel.c`, `threadcall.c`) | thread lists, suspend counts, pending ASTs | create, terminate, hold, assign, callbacks | processes | tasks terminated from inside |
| File systems (`ufs/`, `s5fs/`, `cdfs/`, `procfs/`) | inodes, allocation bitmaps, directories | allocation, rename, truncate, lookup | buffer cache, vnodes | on-disk consistency after a crash, rename cycles |


## 2. The modules

A component has a module of its own, where it promises something that can be said
without its implementation an abstract module that it is shown to implement
(`INSTANCE ... WITH`), an `MC` module for TLC, and a `_proofs` module for TLAPS (`Vnode` has two,
and `FoldFacts` has lemmas on folds and sums).
Definitions keep the names of the routines and fields they model; the operators
called `mutant` in their comments are broken versions of the definition that
follows them, kept to see that each property notices a bug of its kind.

| Module | Models | State | Actions |
|---|---|---|---|
| `RWLock` | what a lock promises | who holds it for what | acquire, upgrade, downgrade, release |
| `KernLock` | `kern/lock.c` | the words of `struct lock`, who sleeps on it, where each thread is | one per routine up to its return or its wait, and one per turn of a wait loop |
| `SchedPrim` | `kern/sched_prim.c`, `thread_suspend` and its kin in `kern/thread.c`, `mpsleep`, `thread_timeout`, psignal's wakeup | thread state word, wait queue, run queue or processor, suspend counts, timers, calls of `clear_wait` under way | one per hold of the thread or bucket lock |
| `Timers` | what `timeout` promises | a bag of calls with the ticks left to each | arm, disarm, tick, expire, set the time |
| `Callout` | `bsd/kern_clock.c` | the delta list, the softclock thread, a hardclock under way | one per hold of `callout_lock` |
| `BlockStore` | what a buffer cache promises | holder, value and disk copy of each block | take, give back, put, write, store, fail |
| `BufCache` | `vfs/vfs_bio.c` | buffers with lock, flags and event; free lists, dirty and clean list, transfers, disk | one per hold of the chain, free-list or list lock |
| `ByteLocks` | what record locks promise | for each owner, the bytes it reads and writes | lock, unlock, close |
| `RecordLocks` | `vfs/vfs_flock.c` | the chain of granted locks, the sleep list, the queues of the lock manager, where each process is | one per hold of `FICHAIN_LOCK`, waking, interruption, each call of the lock manager |
| `AtomicSemaphores` | what `semop` promises | values, what is to be undone at exit | operate, set, remove, exit, each whole |
| `Semaphores` | `bsd/svipc_sem.c` | values with both counters of sleepers, undo entries, calls asleep | one per attempt of a call between two sleeps |
| `Vnode` | `vfs/vfs_subr.c`, `iget` to `ufs_reclaim` of `ufs/ufs_inode.c`, what `vfs/vfs_cache.c` tells of a vnode | vnodes with their inodes, the free list, the inodes on disk, names, a stack of frames for each thread | one per hold of the vnode, inode or chain lock |
| `VnodeHistory` | nothing more; a history of `Vnode` | whether a vnode has been taken from somebody who used it | those of `Vnode` |
| `Select` | `do_scan` and its parts in `bsd/sys_generic.c`, `bsd/subr_select.c`, `soo_select`, `kern/event.c` | descriptors, files with their sockets, each thread's event, who is still to be told, each scan | one per hold of the descriptor table, a socket or an event |

The components meet where one calls the other.  The locks sleep and wake by
`SchedPrim`'s `thread_sleep` and `thread_wakeup`; `KernLock` keeps the set of
sleepers that results.  `SchedPrim` arms `Callout`'s timers: of the list it keeps
how many entries a thread has and that each fires some time, which is what
`Timers` says of them.  `BufCache` uses the locks of `KernLock` for its buffers,
of which only exclusion is left (`RWLock` with one mode), and `b_iocomplete`, an
event of `kern/event.c`, as a flag that a waiter waits to see set.  `Select` has
that event in full, in the two steps of `event_post`: the flag under the event's
lock, and the wakeup after it.  `RecordLocks`, `Semaphores` and `Vnode` sleep by `mpsleep`
and are woken by `wakeup`: what `SchedPrim` shows of a sleep (a signal, a timeout or a wakeup
ends it, and none is lost) is there a process that is asleep and a step that ends it.
`Vnode` composes three layers in one module, because their hazards are between them:
a lookup takes a vnode from the name cache by its capability number, or from `iget`'s
hash chains, while `vclean` takes the inode from under the vnode.

### What an action is

Simple locks are not modelled: everything done under one hold of a simple lock is
one action, and so is everything a routine does between its last test of shared
state and its next wait or release.  Where the code lets go of a lock in the
middle, two actions stand for the two halves, and everything else may happen in
between: `clear_wait` (`ClearLook`, `ClearRemove`), `thread_dowait`, the two loops
of `lock_write`, `brelse` and its `BUF_UNLOCK` (`Unlock`), `getblk` with
`getnewbuf`, `event_post`, the descriptors of a scan one by one.  A wait that is
asserted before a lock is released is asserted in the action that releases it.

### Abstractions, by module

`KernLock`: spinning before sleeping changes nothing and is staying put; `can_sleep`
is a free choice; statistics and lock tracking are left out.  The callers' side is
in the guards: no thread locks again what it holds unless it has made it recursive,
and only who took the lock by `lock_write` makes it so.

`SchedPrim`: processors are not counted, so any runnable thread may be chosen and
run; priorities, swapping, idle threads and `thread_halt` are left out.  A thread's
`wait_event` doubles as its membership of a hash queue.  Softclock and the posters of
signals are agents that are in at most one `clear_wait` each.

`Callout`: a call is a model value, so equal calls may be armed several times, as in
the code.  `NCallout` bounds the table; `timeout` with no entry free panics in the
code and is not enabled here.  `MaxLate` and `MaxLeft` bound how late an entry is
and how far ahead one may be set.  The time may be set at any moment, past calls and while
calls are late.

`BufCache`: the blocks of one vnode, on one hash chain (two chains would only part
what here may collide).  The stamp of a chain becomes, for each thread, whether it
has changed since the thread read it.  Sizes are abstracted: any hit may be of
another size (`StraySize`), and all buffers have memory enough.  Taking the lock of a
buffer and the checks that follow it, which look only at fields that the lock
protects, are one step.  The walks along a list that try each buffer's lock are one
step, the state at which they find it.  `B_AGE` plays no part as `BQ_AGE_DISABLE`
is set; `B_LOCKED` and `B_NOCACHE` are used nowhere above.  What is left in an invalid buffer, and `B_READ` after a
transfer, are dropped in `brelse`, since nobody looks at them.  `splbio` keeps
interrupts off one processor only and is not a lock here.  Whether `vinvalbuf` waits
in the end is a free choice, for its count of dirty buffers adds failures and
successes.  A driver answers once and in any order.

`RecordLocks`: the locks of one file; offsets are `0 .. Size`, and `Size` stands for
the end of file as well.  The lock manager of NFS is the environment: it makes
requests for its `Remote` owners, is told of what a local unlock granted (`klmq`) and
fetches what one of its own calls granted (`grantq`).  `klm` is what its daemon, one thread, is doing:
it may be between the two halves of `kill_proc_locks`, after a machine has crashed, or
in a `deadflck` that never ends, with `SLPLCK` and `FICHAIN` locked.  The chain is the sequence of
the code with its places of insertion, so `flckadj` cuts, merges and inserts here as
it does there; a record of a lock is never lacking (`ENOLCK`), `MaxChain` and
`MaxSleep` bound the two lists.  `Splits` and `WaitsToDowngrade` say which requests
are made; they are restricted where the code does not do what it should, see the
observations.

`Semaphores`: the calls run under the master lock, so one is serial up to its sleep, and
one attempt, with what it undoes when it has to sleep, is one step.  `IPC_NOWAIT` and `SEM_UNDO` are
flags of each operation.  An identifier is
not used again after `IPC_RMID`; a copy from user memory does not fault; permissions
are left out.  `MaxVal`, `MaxAdj` and `MaxUndo` are the limits of the code
(`semvmx`, `semaem`, `semume`), small.

`Vnode`: a vnode has its in-core inode with it, as `getnewvnode` allocates them in one piece.
The name cache is a name for each inode and, for each thread, the capability number it
has noted, which is lost when `cache_purge` gives the vnode a new one.  A thread's call is a
stack of frames, since `vgone` inside `getnewvnode` inside `iget` runs the same
routines as any other caller.  Reading an inode may fail (`Errors`).  Lookups and unmounting do not overlap, as
the mount lock has it.  `VnodeHistory` adds a history variable, `taken`, which notes that a vnode
that somebody else is using has been cleaned.

`Select`: a queue is the set of the threads on it, as `select_dequeue` takes
away all of a thread's entries.  A socket is what `soo_select` asks of it: data, space,
end of file, error, and whether it has been shut for sending.  An error shuts it both ways; a read of
a socket without data takes the error.  Whoever wakes a socket's selectors holds its lock meanwhile; the
code's second round of `select_wakeup` tells the same threads again and is dropped.
Files other than sockets, and the exceptional condition, are left out.

## 3. The runs

Every run is exhaustive.  Bounds are named constants of the modules.

| Run | Instance | Question |
|---|---|---|
| `lock` | 3 threads, recursion up to 3 | exclusion, accounting, lost wakeups, recursion, refinement of `RWLock`, progress of writers and upgrades |
| `sleep` | 1 thread, 2 events, a poster, softclock | every sleep of `mpsleep` against signals, late timeouts and wakeups |
| `suspend` | 2 threads that also suspend, holds and resumes from anywhere | queues, counts, panics, stops |
| `callout` | 3 entries, one relative and one absolute call, the time set by -2 or 1 ticks at any moment | order of the list, softclock told of what is due, refinement of `Timers`, due calls made |
| `bufcache` | 2 threads, 2 buffers, 2 blocks, 2 values, failures | refinement of `BlockStore`, contents of what is read, free lists, transfers, dirty list |
| `record_locks` | 1 local process and 2 of another machine, ranges within 0..2, reads of a file with mandatory locks | refinement of `ByteLocks`, the chain's order, blockers that are known and sleepers that are told |
| `conflicting_locks` | 3 local processes, ranges within 0..3, requests that end inside a lock | two owners get locks that exclude each other (finding) |
| `semaphores` | 3 processes, one set of 2 semaphores, lists of up to 2 operations | refinement of `AtomicSemaphores`, counters of sleepers, no sleeper that could go on |
| `vnode` | 2 threads, 2 vnodes, 1 inode, read errors | references, free list, one vnode per inode, open files, names, panics |
| `vnode_stale` | 2 threads, 1 vnode, 1 inode | `ialloc` has a vnode of no file system (finding) |
| `vnode_ends` | 2 threads, 1 vnode, 1 inode | `VXLOCK`, and all waits for vnodes, end |
| `select` | a `select` of 2 descriptors, a `poll` with a timeout, 1 socket, half-closing peers | reference counts, lost wakeups, stray entries of queues, progress |

A property of a run may have several named parts, each with its comment in the module:
`CountsAreRight`, `StateIsConsistent`, `ListIsRight`, `ListsAreRight`, `ChainIsRight`,
`SleepersAreTold`, `LifecycleIsSound` and `WaitsEnd` are such conjunctions, and all but
the last contain the module's type invariant where there is one.

Why the bounds are enough.  `lock`: the protocol tells a thread from one other and
from the crowd, and three threads are a writer, an upgrader and somebody who races
both; recursion to 3 has two reads, a write and their releases in all orders.
`sleep`: nothing one sleeper does is seen by another, except through the hash queue,
which the invariants keep per thread; two events tell a stale wakeup from a right
one.  `suspend`: a suspender and its target exchange roles, so two are a cycle.
`callout`: three entries are a head, a middle and a tail of the list; times 0, 2 and
3 with ticks give equal, adjacent and late entries, and setting the time by -2 passes some of them and not others.  `bufcache`: two threads race
for one block and for one buffer; two buffers and two blocks are the least where a
buffer changes its block while a thread sleeps for it, and where the front of a list
is not its end.  `record_locks`: a local process that unlocks while two requests of
another machine sleep grants to one and passes the other over, and has both of the
lock manager's queues in use; three local processes, which need an instance too
large to bundle with all these properties, are in `conflicting_locks`.
`semaphores`: three processes are one that operates and two that sleep, for the same
or for different reasons; values of 0 and 1 are the two that the code tells apart, and
lists of two operations have a first to be undone.  `vnode`: two threads race in every
pair of lookup, allocation, last release and reuse, two vnodes are one that is reused while
another is on the free list, and the least with which one inode can be in two places.  That a vnode becomes another
file's while somebody is about to take it needs two inodes: `MCVnodeFiles.cfg`, for the same properties, has them with a single vnode, and
with two of both TLC takes five minutes on four processors and finds no error in 8.3 million states.
`vnode_ends` has one of each, so that every call must take the only vnode.  `select`:
two descriptors of one file, or a scan that is between its two, and two threads on a
queue, of which one has left it while the other is told.

For `KernLock`, `Select`, the invariants of `BufCache` and the safety of `SchedPrim` the
proofs do away with the bounds.

`CHECK_DEADLOCK FALSE` is said where the system may really stop: of
`bufcache`, where all threads may sleep in `getnewbuf`; of `record_locks` and
`conflicting_locks`, where processes may wait for each other and `deadflck` may walk
round a circle for ever; of `semaphores`, where all processes may sleep, as
`semop` allows; of the three runs of `Vnode`, where a panic ends the run.

### Fairness

`KernLock`: a thread that can leave its wait loop does so (`WF`, it is woken and
runs), and a holder releases in the end, however often it is upgraded or
downgraded in between (`SF`); nothing is assumed of requests.  `SchedPrim`: a
runnable thread is dispatched (`WF`: the run queues are served), a thread in a call
goes on between preemptions (`SF`: each quantum gets something done), softclock,
which has the highest priority, serves what is due (`SF`, for entries may be cancelled
again and again), a poster ends what it began (`WF`), and a thread with `TH_SUSP` set
meets an AST (`SF`).  That anybody posts an event is not assumed, except in
`PostedSpec`.  `Callout`: the clock ticks, interrupts end and the softclock
thread runs (`WF`).  `Vnode`: a thread inside a call goes on (`WF`), unless the system has
stopped in a panic; nobody has to begin a call.  `Select`: a thread that waits for the
lock of a socket gets it some time, though input takes it again and again (`SF`: the
lock is held for moments, and a spinning processor is not passed over for ever); time
passes, timers fire and who has begun to wake a queue goes on (`WF`); input is not
assumed to come.  `BufCache`, `RecordLocks` and `Semaphores` are checked for safety only:
of the first a wait may last for ever (see `SleepersHaveNoBuffer` below), and the other two
wait for other programs.

### The findings

`conflicting_locks`: where a request ends inside a lock of the same owner with another type,
`flckadj` (`vfs_flock.c:751`) puts the rest of that lock behind the last lock that starts before
the request, and not behind the last that starts before the rest.  Another owner's lock that
starts in between then stands after a lock that starts later, and the search for conflicts,
which ends at the first lock that starts beyond a request, may miss it: two processes get
locks that `fcntl.2:259` says exclude each other.

`vnode_stale`: `ialloc` takes it that nobody else knows the inode that it has allocated (`ufs_alloc.c:459-463`).  A thread
that has had a reference of its vnode from before may be giving it back: `ufs_inactive` (`ufs_inode.c:823`) still sees a mode of 0
and calls `vgone` without a look at the count.  The file that is then made, or found by a
stale handle, has a dead vnode.  `HeldUntilTaken` and `NameUntilTaken` say that up to such
a moment nothing of the kind happens otherwise; after it `HeldIsKept` and `NameIsRight` do not hold.

### What comments say and the code does not do

These properties are in the modules, stated from a comment, and no run has them,
because the code does not keep them.  The settings show it; what is not mentioned is as in
the `.cfg`.

- `SchedPrim.StopIsTold` (`thread.c:1421` against 1470): the stop of a thread is not always
  told to who waits in `thread_dowait`.  `MCSuspendTold.cfg` with `Resumes = TRUE`,
  `Catches = {TRUE}` and `Spec`.
- `SchedPrim.NoTimeoutUnasked` (`kern_synch.c:169` against `sched_prim.c:446`): a late
  `thread_timeout` ends the next sleep.  `MCSleep.cfg` with `Chans = {c1}`, `Posters = {}`,
  `Signals = {}`, `Catches = {FALSE}`.
- `SchedPrim.SignalIsNotMissed` off the master processor (`kern_synch.c:181` against
  `parallel.c:101`): `unix_master` turns an interruptible sleep into another one.
  `MCSleep.cfg` with `OffMaster = TRUE`, `Catches = {TRUE}`, `Timos = {FALSE}`,
  `Signals = {"signal"}`.
- `Callout.DueComeFirst` (`kern_clock.c:382-386` against 1132): when the time is set forward while calls are late,
  `psx4_adjust_callout`, which takes every time in the list as a distance from the entry before, puts a call that is not due
  before one that is, which is then made too late.  `MCCalloutLate.cfg`.
- `Callout.OthersKeepTheirTime` (`kern_clock.c:385` and 769 against 1132): setting the time
  forward past an absolute timer delays the calls behind it.  `MCCallout.cfg`.
- `BufCache.DelayedWritesAreWritten` (`vfs_bio.c:508` against 521): a delayed write that
  failed is dropped by the next reader.  `MCBufCache.cfg` with 1 thread, 1 buffer, 1
  block, `Failures = {"write"}`.
- `BufCache.SleepersHaveNoBuffer` (`vfs_bio.c:492` against 586): `brelse` wakes for a free buffer
  before it is free.  `MCBufCache.cfg` with 1 buffer and no failures.
- `RecordLocks.NoTwoWaitForEachOther` (`fcntl.2:513-521` against `vfs_flock.c:1087`): the search for a deadlock
  starts from one of the locks that are in the way of a request and follows one of each sleeper, though there may be several.  Two processes that
  both read a range and both want to write it sleep for ever, when a third one's lock is the one that is looked at.
  `chk_granted` makes circles too, as it gives a sleeper a new blocker (line 1377) and
  searches for nothing.  `MCCircularWaits.cfg`.

`SchedPrim.SuspendReturns` does hold where nothing is resumed, with the fairness of `PostedSpec`: `MCSuspendTold.cfg`.

### Other observations

Locks and threads:
- `lock_done` ends a recursive read before a recursive write, whichever is meant: after
  reading and writing recursively and releasing the write, an upgrade of the read
  reaches `panic("lock upgrade w/o read lock")`, though `lock.c:853` allows recursion
  "for read, write, or update".
- `lock_try_read_to_write` sleeps also when `can_sleep` is off (`lock.c:840`);
  `lock_islocked` overlooks a lock held by an upgrade (`lock.c:898`);
  `lock_set_recursive` would accept an upgraded thread on the bit of a waiting writer
  (`lock.c:860`), which no caller is.
- `clear_wait` does not look again at `interrupt_only` when it has relocked
  (`sched_prim.c:571-584`), and makes a thread that has not left its processor
  interruptible wherever it slept (`sched_prim.c:645` against the table at 206-211).
- Two threads that suspend each other both stop inside `thread_suspend`; a second
  `thread_suspend` of one thread returns before it has stopped.
- `psx4_adjust_callout` works on the callout list without `callout_lock`.

Buffers:
- The write of a buffer of the wrong size is not looked at for errors
  (`vfs_bio.c:722-728`), and `vflushbuf` passes over buffers that are locked
  (`vfs_bio.c:1189`).

Record locks:
- A process may wait to read what it has itself locked to write: with
  `WaitsToDowngrade = TRUE` (`Local` of three, `Remote` empty) `ImplementsByteLocks` is violated, as
  its own grant later changes the lock it holds and earlier sleepers are not looked at again.
  `Splits = FALSE` in `record_locks` keeps the finding above out of the other properties.
- A signal can end a wait with `EINTR` when the lock has just been granted, and the lock
  stays (`fcntl.2:244` says that it is not set).
- `delsleeplck` never removes the sleep entry of an I/O call that was interrupted.
- `klm_callbacks` keeps its lock over a remote call; `do_grant_locks` returns `ENOLCK` with
  `GRANTLCK` held; a cancellation may cross a grant; `kill_proc_locks` leaves the lock
  manager's two queues as they are; `ENOLCK` in the middle of `flckadj` leaves half of a
  change and wakes nobody; `deadflck` walks for ever round a circle that its requester is not in, and
  if that is the lock manager's daemon (`klm = "loop"`) nobody can lock, unlock or close again.

Semaphores:
- `semunrm` ends at the first undo entry whose number is too high, also when the entry
  belongs to another set: with `Procs = {p1}` and `Ids = {0, 1}` `ImplementsAtomicSemaphores` is
  violated (`svipc_sem.c:1046`).  The run has one set.
- A call interrupted after `IPC_RMID` counts itself off in a set that is gone; the list
  `{-1, 0}` on one semaphore loses the wakeup of its own first operation; two processes may wake each other for
  ever without one of them going on; the table `semtmp` is shared by calls that may
  sleep in `copyin`; `tsleep` returns `EINTR` also to who has been woken
  (`kern_synch.c:279-307`).

Vnodes:
- After `getnewvnode` has taken a vnode from the free list, `vget` of it reaches
  `panic("null v_freeb")`, against `vfs_subr.c:628-636`; `NoPanic` leaves that one out.
- An unlinked file may stay allocated (against `vfs_subr.c:841-845`): the last `vrele` and a
  `vclean` may both leave the inode to the other.
- `revoke` of a vnode with one reference waits for the `VXLOCK` it has itself; `iget` by an
  NFS handle before `INACTIVATING` is set finds its file truncated; forcible unmounting
  is left out of the build for UFS (`ufs_vfsops.c:895`).

Select:
- `select` for writing only of a socket that has got an end of file sleeps with no entry on
  any queue: `soo_select` reports `POLLHUP` and enters nobody (`sys_socket.c:243-274`), and `selscan`
  masks it.  `IsHalfClosed` excepts the case from `WakeupIsNotLost` and `ReadyIsReported`.
- To close a descriptor that another thread selects wakes nobody, as the selecting thread has a
  reference (against `kern_descrip.c:849-853`); `poll` of no descriptors returns at once instead of
  waiting; `event_wait` begins its timeout anew when it is woken for nothing.

## 4. The proofs

The theorems hold for any finite set of threads; the only assumptions are those
the modules name (`ThreadsFinite`, `NoThreadAssumption`, `MaxNestAssumption`;
`EventsDistinct`, `AgentsDistinct`, `ChoicesAssumption`; `CallsAssumption`, `NoneAssumption`,
`FiniteAssumption`; `BufCacheAssumption`; `FlagsAssumption`, `ThreadsAssumption` and `NoneAssumption` of
`Vnode`): that threads, descriptors and buffers are finitely
many (of `BufCache` only the buffers need be, of `Vnode` only the threads), that the values that stand for none
are none of them, and that the arrays of a `select` are arrays.

`KernLock_proofs`.  `Exclusion` is not inductive by itself: that a writer keeps out a
thread about to be upgraded follows from what the bits and counts stand for, which in
turn stay right only because a recursive owner's holds are told apart.  The
inductive invariant is the conjunction of all the safety properties of the module
(`TypeOK`, `WriterExcludesAll`, the three parts of `FieldsCountHolders`,
`SleepersAreWoken`, `RecursionIsCounted`) with what a recursive owner excludes; one
lemma per action shows that the action preserves it, and lemmas on cardinality
relate `read_count` to the set of readers.  `Implementation` maps each action to a step
of `RWLock` or a stutter under that invariant.

`SchedPrim_proofs`.  The invariant is `TypeOK`, `NeverPanics`, `QueuesMatchState`,
`SuspensionsAreCounted` and `StopWillBeTold` with two facts that tie them together:
`WaitIsAsserted` (what a thread's place in `mpsleep` or `thread_suspend` says of its
state word) and `ClearsHaveThread` (a `clear_wait` under way has a thread to clear).
The panics are excluded by the second and third, and those need each other: a wakeup
puts a thread on a run queue only because it was not on one.  `StopsLast` is a step
property: it follows from the invariant for each action.

The second half of `SchedPrim_proofs` is about the sleeps, on top of that invariant.  Each step of the system is shown
to do one of a few things to a given thread: to leave it in its sleep, to take it one place on in
its own call, to end its sleep, or to add or use up an entry of it in the callout list; whoever
the step belongs to, the rest of the argument is about these few.  The invariant (`SleepInv`) says that a timer is set
only while its thread waits for it, that the thread has at most the timer's entry and one that an earlier sleep
has left (less the one that softclock has taken up), that the timeout or the signal a sleeper
waits for is in the list, or has a `clear_wait` under way that will find it, and that
who catches signals stays interruptible.  `TimeoutsCome` and `CalloutsBound` follow with no further assumption;
`SignalsAreSeen` assumes a kernel whose threads call `mpsleep` on the master processor (`~OffMaster`),
since elsewhere the property does not hold.

`Select_proofs`.  First what each step does to its fields is stated (`Does` and its like), so
that the rest need not open the actions again.  `Counting`: the count of a file changes with
the number of places, of descriptors and of scans, that hold it; a bijection between the
places before and after a step gives the equality of cardinalities.  `Ownership` and
`NoLostWakeup` need an invariant that says, for each place a scan can be at, which of its files it
has looked at and found not ready, and what is true of such a file: either it is still not
ready and the thread is on its queue, or the thread is among those still to be told, or its event
has been set (`ScanHolds`); that who is to be told is on the queue until told
(`PostedAreQueued`), that entries belong to a scan that holds the file (`QueueIsOwned`), and that a
thread whose event has been set and that sleeps is the one being posted (`SleeperIsPosted`).

`BufCache_proofs`.  The invariant (`IInv`) says for each place of a thread or an interrupt which
buffer is its own (`Has`) and what that buffer may contain there (`Contents`), for each buffer who
may own it, when the driver has it, and on which lists it then is (`BufferFits`), and of the chain that
no thread between its search and `binshash` seeks a block that is there unless it will be told
(`Chain`).  That last part needs the others: only because whoever takes a buffer off its chain owns it, and
because what is on the chain has one owner, can nobody else change a block's only entry.  Most
actions lock one buffer, change it and give it back, keep it or hand it to the driver, so one lemma
(`MoveKeeps`) is proved for such a move, and one each for the routines in which it happens (`BrelseMoves`,
`BwriteMoves`, `BawriteMoves`, `HaveMoves`); steps without a buffer are `WalkKeeps`, and `UnlockStep` and
`BiodoneStep`, which affect others, stand alone.  The lists are treated by what `bremfree`, `binsheadfree` and
`reassignbuf` do to a list without repetition (`WithoutFacts`, `PushFacts`, `AppendFacts`).  The
four invariants of the run follow; the chain, the lists and the count of `v_numoutput`
hold for any number of buffers, blocks, threads and processors in `biodone`.

`CacheIsAStore` is the refinement of `BlockStore`.  The mapping looks at the one buffer that a block
has on its chain (`HeldBlock`, `HasData`), and needs a second invariant (`Following`) on top of the first, of what
contents mean: while a buffer is not posted or its transfer is not over nobody has its data; a buffer that has contents and is not dirty
has those of the disk, unless a write of them has failed; and who gives a buffer back, or writes it, has it in the
state that the routine counts on (`Synced`).  This is why a clean buffer may
be given to another block without a trace in the store, and it is not true of a buffer whose delayed write has failed: there the
store gives up (`GiveUpSeen`), as the code does.  A step of the system changes at most one buffer that a block
sees, so each action is compared with the store for that one block (`View`, `StepView`): one lemma for each step the store has (`TakeSeen`,
`WriteSeen`, `DiskSeen`, `RetrySeen` and so on), and one for each action of the cache, which says that it is one of these or none.

`FoldFacts` has what the proofs of `Vnode` need of a sum over a finite set, and those of `Callout` of a fold.  `SumFunction` of the
community modules is a fold: a choice of a function that is recursive over subsets.  That there is such a
function is proved with a smallest set that has none (`FoldExists`), and that it is the only one likewise; from this it
follows that a sum changes by what one of its summands changes by (`SumChange`), what bounds it
(`SumBound`, `SumParts`), and when it is zero (`SumZero`).

`Vnode_proofs`.  First, one lemma for each action (`ReleDoes`, `VInitDoes` and so on) says what the
action does in a few words that the rest is about: how the stack of the thread becomes another
one (`Moves`), which vnode's count goes up or down by how much (`Gain`), and which fields of which
vnode change.  `AlwaysCounted` says that the count of a vnode is the sum over threads of their references: for each step
the difference in the stack's frames that own the vnode is the difference in the count (`Balanced`).
It holds also of the states in which the system has stopped, where the property does not ask for it.  For the free list and the chains, three
actions matter: `New`, `VInit` and `Enter`; all others are `Calm`.  The invariant (`Making`)
says that the free list has the vnodes without references but for those that a `getnewvnode` has taken, that no two
have taken the same one, and that the inode of a vnode that `iget` is about to enter is the one it looks for.
`FreeVnodesAreUnused` and `OneInodeOnAChain` follow; the latter needs the second search of the chain in `iget`, as its mutant shows.

`VnodeLife_proofs`, on top of that.  Which frame may be on top of which
stack is written out (`Shapes`, of which `OnTop` has the seven cases); that what is under the top is again such a stack is a lemma.
From it follow the depth of a stack (8) and the number of references
that a thread has of one vnode (2), and with the sum the bound of `count` in `TypeOK`.
`LocksAre` says that the vnodes that are VXLOCKed are those that a call cleans, each in one call of one thread;
it rests on `vclean`'s calls of `ufs_inactive` and `vrele`, in which the same vnode comes up
again and `vgone` returns at once, on `getnewvnode`'s vnode being unlocked and of no file system when it has been cleaned
(`InitTops`, `BadIsGone`), and on a vnode that is cleaned without a reference having none (`LonesAre`).
`CallsNest`, `OneCleansAtATime` and `TypesAreRight` are the results.

Its second half is about the panics (`NoPanic`).  That of `vrele` follows from the counts, that of `getnewvnode` from
the free list.  That an inode is not freed twice, nor allocated while it has a mode, is about who may be where with
a vnode (`Sane`): one call of one thread inactivates it (`InactsAre`); while its inode is made, nobody else has got to a
call that would inactivate or clean it, it is on no list of a mount, and on its chain only while the inode is read
(`MakersAre`); on the list of its mount it has been read and is on its chain, unless a cleaner has
just taken it off (`ListedAre`); who cleans a vnode that could be read is the only one to have it, unless
the inactivation has found the inode stale (`CleansAre`).  So the inode that is freed is on its chain, which has one vnode of it
(`OneEach`), and no second thread frees it or is to make it a file (`FreeingIs`, `CreatesIs`).  What a step may do to all that is
said once (`Sound`, `SoundGoesOn`); most steps go on with a stack on which nothing
begins (`Mild`), and those that lock, inactivate, clean or make a vnode have a lemma each.
With it `LifecyclesAreSound` states all of `LifecycleIsSound`.

Its last part is about `VnodeHistory`: whose vnode it is.  `HeldIsKept` and `NameIsRight` are not inductive.  What is, up to the
moment that `taken` notes, is that everybody's knowledge of a vnode stays true while it is of use (`Notes`): what
a call at each label has learned (`Learned`: a vnode that was found for an inode is of that inode, and on its chain or not
readable, `Found`; one that a name led to is `Known`), what an open file relies on (`Holding`), that every name of the cache leads to a
known vnode (`NamesAre`), and that only a vnode which is listed, or just being filled, stays on a chain (`ChainsAre`).
The reason is that nobody else has a vnode that is being cleaned, unless its inode could not be read or was there already (`Private`): a step locks a
vnode that nobody has, one that it has the only reference of, or one whose inode could not be read (`LockedHow`), but for the inactivation of
a stale inode, which does not ask.  That one step is what `taken` notes, and nothing is
assumed of how often inodes are allocated again.  `NotesAreKept` is the invariant; `HeldVnodesAreKept`
and `NamesLeadRight` follow.

`Callout_proofs`.  The invariant is `TypeOK`, with which the fields have their types and the entries and the free ones
make up the table; the rest is about steps: what each does to the order of the list (`InOrder`, which `DueComeFirst` says
of `calltodo`) and to what softclock knows.  The work is in what the routines compute.  A fold over the places
of the list is shown to be a function of how far one has come (`AlongIntervals`, `FoldAlong`), so that the time left when
`timeout` has passed `p` entries is that after `p - 1` less one entry's, if that is not late (`RemainderSteps`); the
place where `timeout` stops is the first at which less is left than the next entry has (`PassedIs`), and
that keeps the order, with the time that the entry behind it loses (`InsertedIs`).  `untimeout` gives an entry's time to its successor
only if it is not late (`RemovedIs`), and `hardclock` counts down the late ones up to the first that is not (`TickedIs`).  Of
`psx4_adjust_callout`, the loop that parts the absolute timers from the others is followed entry by entry
(`SeparateStepIs`, `SeparatedIs`): it places both kinds in the order of the time at which they are due.
The merge is a recursion on two lists, for which a value is shown to exist by going through the sum of their lengths
(`MergeExists`, by the smallest sum that has none), and then each step of it is one of three (`MergeStepIs`) that keep the order (`MergedInOrder`).

The time may be set at any moment and to any value, as `settime` may.  That can make a call due that softclock is not told of
before the next tick, and, if calls are late, put the list out of order; neither `DueComeFirst` nor `SoftclockIsAwake` is
an invariant then.  `TheListIsRight` and `SoftclockIsTold` say that no other step does so: whatever is armed, cancelled, counted or
taken keeps both, a setting of the time when nothing is due keeps the order, and the tick tells softclock
of whatever there is.

All liveness, and everything not named here, is model-checked only; so are the
comparisons with the abstract modules but for `RWLock` and `BlockStore`.  That concerns

- `DueCallsAreMade` and the other properties under fairness: liveness and `ENABLED` are out of the provers' reach;
- `ImplementsTimers`: what a bag of calls has of one is a sum over the list, of which the time left is a fold
  in turn.  The lemmas on the list's order do not give it, and it is not proved;
- `ChainIsRight`, `BlockersAreKnown`, `SleepersAreTold` and `ImplementsByteLocks` of `RecordLocks`: what the chain of
  locks becomes is a recursion over it that splits and joins its members, and that it gives the bytes it should
  is an induction over data;
- `CountsAreRight`, `SleepersAreBlocked` and `ImplementsAtomicSemaphores` of `Semaphores`: what a call does is computed by
  folds over its operations, forwards, and backwards when one of them must wait.

## 5. What is not modelled

Left out for good: commands, libraries and X; machine-dependent code and drivers;
the socket and TCP code beyond what `select` sees of it; the on-disk formats of the file systems; most of the
virtual memory system, whose state is the page tables of the machine.

Of the modelled components, what is left out is listed above and, one by one, in the notes of
`PROJECT.json`.  What is worth a model next:

1. **`Process`** (`bsd/kern_sig.c`, `kern_exit.c`): stop and continue, zombies and
   reparenting, on top of `SchedPrim`'s suspension.
2. **The duplicate-request cache** (`rpc/svc_kudp.c:537`): a request that is executed again
   because its entry has been taken while it was in progress.
3. **`Fifo`** (`vfs/fifo_vnops.c`): the rendezvous of `fifo_open`.
4. **The mirror-consistency cache** (`lvm/lv_mircons.c`) against crashes.
5. Ports of `kern/ipc_*.c`; the synch queues of `streams/`; `rmalloc`.

Theorems wanted besides: `CountsAreRight` of `Semaphores`, with the facts on folds that `Callout_proofs` has, and
`ImplementsTimers`.
