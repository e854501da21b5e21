------------------------------ MODULE BufCache ------------------------------
(***************************************************************************)
(* The buffer cache of vfs/vfs_bio.c, for the blocks of one vnode on one   *)
(* hash chain: bread, getblk for a block that is overwritten, the          *)
(* read-ahead of breada, bwrite, bawrite, bdwrite, brelse, vflushbuf and   *)
(* vinvalbuf, with the driver that answers in biodone.                     *)
(*                                                                         *)
(* An action is what is done under one hold of the free-list, hash-chain   *)
(* or buffer-list lock, with the changes that its thread makes before or   *)
(* after to a buffer that it has locked.  The blocking lock of a buffer is *)
(* the field owner.  Several processors: a thread may find a buffer locked *)
(* wherever another one is.                                                *)
(***************************************************************************)
EXTENDS Integers, Sequences, FiniteSets, Functions

CONSTANTS
    Threads,
    Interrupts,     \* processors that may be in biodone
    Bufs,           \* the buffer headers, all with enough memory
    Blocks,         \* block numbers b_lblkno
    Values,         \* contents of a block
    Flushers,       \* the threads that call vflushbuf
    Invalidators,   \* and vinvalbuf with save
    Failures,       \* what the driver may fail to do: "read", "write"
    NoBlock, NoBuf, Nobody, Driver, Junk

ASSUME BufCacheAssumption ==
    /\ Flushers \subseteq Threads /\ Invalidators \subseteq Threads
    /\ Threads \cap (Interrupts \union {Nobody, Driver}) = {}
    /\ Nobody \notin Interrupts /\ Driver \notin Interrupts /\ Nobody # Driver
    /\ NoBlock \notin Blocks /\ NoBuf \notin Bufs /\ Junk \notin Values
    /\ IsFiniteSet(Bufs) /\ Failures \subseteq {"read", "write"}

VARIABLES
    buf,            \* the buffers
    bfreelist,      \* BQ_LOCKED, BQ_LRU and BQ_AGE, oldest first
    wantfree,       \* B_WANTFREE of bfreelist[0]
    blist,          \* v_dirtyblkhd and v_cleanblkhd of the vnode
    numoutput,      \* its v_numoutput
    io,             \* the buffers that the driver has
    disk,
    pc,             \* where each thread or interrupt is
    req,            \* the call it is in and its arguments
    bp,             \* the buffer it works on
    moved,          \* whether the stamp of the chain differs from its own
    next            \* where it goes when the buffer is released or written

cache == <<buf, bfreelist, wantfree, blist, numoutput, io, disk>>
vars == <<cache, pc, req, bp, moved, next>>

Agents == Threads \union Interrupts
Flags == {"READ", "ERROR", "ASYNC", "DELWRI", "INVAL"}

Buffers ==
    [owner : Agents \union {Nobody, Driver},    \* b_lock
     blk : Blocks \union {NoBlock},             \* b_lblkno, NoBlock if b_vp is NULL
     hashed : BOOLEAN,                          \* b_hash_chain
     flags : SUBSET Flags,
     posted : BOOLEAN,                          \* b_iocomplete
     data : Values \union {Junk}]

Requests ==
    [op : {"read", "get", "ahead"}, blk : Blocks]
      \union [op : {"flush"}, sync : BOOLEAN]
      \union [op : {"inval"}, list : {"dirty", "clean"}]
      \union [op : {"none"}]
NoReq == [op |-> "none"]

Where == {"idle", "search", "lock", "new", "asleep", "insert",
          "reading", "hold", "writing", "unlock", "unlock wake", "done",
          "flush", "drain", "drained", "inval", "inval lock"}

TypeOK ==
    /\ buf \in [Bufs -> Buffers]
    /\ bfreelist \in [{"LOCKED", "LRU", "AGE"} -> Seq(Bufs)]
    /\ wantfree \in BOOLEAN
    /\ blist \in [{"dirty", "clean"} -> Seq(Bufs)]
    /\ numoutput \in Nat
    /\ io \in SUBSET Bufs
    /\ disk \in [Blocks -> Values]
    /\ pc \in [Agents -> Where]
    /\ req \in [Threads -> Requests]
    /\ bp \in [Agents -> Bufs \union {NoBuf}]
    /\ moved \in [Threads -> BOOLEAN]
    /\ next \in [Agents -> {"idle", "search", "flush", "inval"}]

Init ==
    /\ buf = [f \in Bufs |->
               [owner |-> Nobody, blk |-> NoBlock, hashed |-> FALSE,
                flags |-> {"INVAL"}, posted |-> FALSE, data |-> Junk]]
    /\ \E order \in [1 .. Cardinality(Bufs) -> Bufs] :
         /\ IsInjective(order) /\ Range(order) = Bufs
         /\ bfreelist = [LOCKED |-> <<>>, LRU |-> <<>>, AGE |-> order]
    /\ wantfree = FALSE
    /\ blist = [dirty |-> <<>>, clean |-> <<>>] /\ numoutput = 0
    /\ io = {} /\ disk \in [Blocks -> Values]
    /\ pc = [a \in Agents |-> "idle"] /\ req = [t \in Threads |-> NoReq]
    /\ bp = [a \in Agents |-> NoBuf]
    /\ moved = [t \in Threads |-> FALSE] /\ next = [a \in Agents |-> "idle"]

------------------------------------------------------------------------------
(* Buffers and lists *)

Without(s, f) ==
    IF f \in Range(s)
    THEN LET at == CHOOSE i \in DOMAIN s : s[i] = f
         IN  [i \in 1 .. Len(s) - 1 |-> s[IF i < at THEN i ELSE i + 1]]
    ELSE s

\* f is the first buffer of list s that is in S.
IsFirst(f, s, S) ==
    /\ f \in S
    /\ \E i \in DOMAIN s : s[i] = f /\ \A j \in 1 .. i - 1 : s[j] \notin S
Unlocked(f) == buf[f].owner = Nobody
Dirty(r) == "DELWRI" \in r.flags

\* bremfree
OffFreeList(f) == [q \in DOMAIN bfreelist |-> Without(bfreelist[q], f)]

\* brelvp, reassignbuf and bgetvp: f leaves its list, or goes to the front of l.
OffList(bl, f) == [l \in DOMAIN bl |-> Without(bl[l], f)]
OnList(bl, f, l) == [OffList(bl, f) EXCEPT ![l] = <<f>> \o @]

\* Agent a goes to w with no buffer, and with no call if it is done.
Goes(a, w) ==
    /\ pc' = [pc EXCEPT ![a] = w]
    /\ bp' = [bp EXCEPT ![a] = NoBuf] /\ next' = [next EXCEPT ![a] = "idle"]
    /\ req' = IF w = "idle" /\ a \in Threads THEN [req EXCEPT ![a] = NoReq] ELSE req

\* It goes to w with buffer f, and to n when f is released.
GoesWith(a, f, w, n) ==
    /\ pc' = [pc EXCEPT ![a] = w]
    /\ bp' = [bp EXCEPT ![a] = f] /\ next' = [next EXCEPT ![a] = n]
    /\ UNCHANGED req

\* Mutant: b_iocomplete is still posted from the last transfer.
StartWriteUncleared(f, r) ==
    /\ buf' = [buf EXCEPT ![f] =
                 [r EXCEPT !.flags = @ \ {"READ", "ERROR", "DELWRI"},
                           !.owner = IF "ASYNC" \in r.flags THEN Driver ELSE @]]
    /\ blist' = IF Dirty(r) THEN OnList(blist, f, "clean") ELSE blist
    /\ numoutput' = numoutput + 1
    /\ io' = io \union {f}
    /\ UNCHANGED <<wantfree, disk>>

\* bwrite up to VOP_STRATEGY, for f with fields r.
StartWrite(f, r) ==
    /\ buf' = [buf EXCEPT ![f] =
                 [r EXCEPT !.flags = @ \ {"READ", "ERROR", "DELWRI"}, !.posted = FALSE,
                           !.owner = IF "ASYNC" \in r.flags THEN Driver ELSE @]]
    /\ blist' = IF Dirty(r) THEN OnList(blist, f, "clean") ELSE blist
    /\ numoutput' = numoutput + 1
    /\ io' = io \union {f}
    /\ UNCHANGED <<wantfree, disk>>

\* bawrite, by a thread that goes on at w.
Bawrite(t, f, r, w) ==
    /\ StartWrite(f, [r EXCEPT !.flags = @ \union {"ASYNC"}])
    /\ Goes(t, w)

\* bwrite, by a thread that goes to n in the end.
Bwrite(t, f, r, n) == StartWrite(f, r) /\ GoesWith(t, f, "writing", n)

\* A write that has failed is tried again if nobody waited for it.
WriteFailed(r) == "ERROR" \in r.flags /\ r.flags \cap {"READ", "INVAL"} = {}
Retried(r) == WriteFailed(r) /\ "ASYNC" \in r.flags
Discarded(r) == "INVAL" \in r.flags \/ ("ERROR" \in r.flags /\ ~Retried(r))

\* A buffer without a block stays on its hash chain, where nobody finds it, and is
\* invalid; what else is in it getnewbuf overwrites before anybody looks.
Emptied(r) ==
    [r EXCEPT !.blk = NoBlock, !.hashed = FALSE, !.flags = {"INVAL"}, !.posted = FALSE,
              !.data = Junk]

\* brelse up to BUF_UNLOCK, for f with fields r, with lists fl and bl.  The code
\* leaves B_READ, which has no meaning from here to the next transfer, where it is
\* set or cleared.
Brelse(a, f, r, fl, bl, n) ==
    LET kept == IF Retried(r) THEN r.flags \union {"DELWRI"} ELSE r.flags IN
    /\ IF Discarded(r)
       THEN /\ buf' = [buf EXCEPT ![f] = Emptied(r)]
            /\ bfreelist' = [fl EXCEPT !.AGE = <<f>> \o @]
            /\ blist' = OffList(bl, f)
       ELSE /\ buf' = [buf EXCEPT ![f] = [r EXCEPT !.flags = kept \ {"ASYNC", "READ"}]]
            /\ bfreelist' = IF "DELWRI" \in kept
                            THEN [fl EXCEPT !.LOCKED = Append(@, f)]
                            ELSE [fl EXCEPT !.LRU = Append(@, f)]
            /\ blist' = IF Retried(r) THEN OnList(bl, f, "dirty") ELSE bl
    /\ wantfree' = FALSE
    /\ GoesWith(a, f, IF wantfree THEN "unlock wake" ELSE "unlock", n)
    /\ UNCHANGED <<numoutput, io, disk>>

\* BUF_UNLOCK, and the wakeup of those who wait for a free buffer.
Unlock(a) ==
    /\ pc[a] \in {"unlock", "unlock wake"}
    /\ buf' = [buf EXCEPT ![bp[a]].owner = Nobody]
    /\ LET woken == IF pc[a] = "unlock wake" THEN {t \in Threads : pc[t] = "asleep"} ELSE {} IN
       pc' = [c \in Agents |-> IF c = a THEN next[a] ELSE IF c \in woken THEN "new" ELSE pc[c]]
    /\ bp' = [bp EXCEPT ![a] = NoBuf] /\ next' = [next EXCEPT ![a] = "idle"]
    /\ req' = IF next[a] = "idle" /\ a \in Threads THEN [req EXCEPT ![a] = NoReq] ELSE req
    /\ UNCHANGED <<bfreelist, wantfree, blist, numoutput, io, disk, moved>>

------------------------------------------------------------------------------
(* getblk *)

Hashed(b) == {f \in Bufs : buf[f].hashed /\ buf[f].blk = b}

\* The block of request r is looked for on the hash chain.
LookUp(t, r) ==
    /\ req' = [req EXCEPT ![t] = r]
    /\ IF Hashed(r.blk) # {}
       THEN /\ pc' = [pc EXCEPT ![t] = "lock"]
            /\ \E f \in Hashed(r.blk) : bp' = [bp EXCEPT ![t] = f]
            /\ UNCHANGED moved
       ELSE /\ pc' = [pc EXCEPT ![t] = "new"]
            /\ moved' = [moved EXCEPT ![t] = FALSE]
            /\ UNCHANGED bp
    /\ UNCHANGED <<cache, next>>

\* bread, a getblk whose caller writes the whole block, or the read-ahead of a
\* breada, for a block that is not in core.
Start(t, op, b) ==
    /\ pc[t] = "idle"
    /\ op = "ahead" => \A f \in Hashed(b) : "INVAL" \in buf[f].flags
    /\ LookUp(t, [op |-> op, blk |-> b])

Search(t) == pc[t] = "search" /\ LookUp(t, req[t])

\* BUF_LOCK, for a thread that waits at w; the lock is its own from then on.
Locks(t, w) == pc[t] = w /\ Unlocked(bp[t])
Locked(t) == [buf[bp[t]] EXCEPT !.owner = t]

\* The caller has buffer f, with fields r, off the free lists, which are fl: it
\* uses it as it is, or starts to read it.
Have(t, f, r, fl) ==
    LET read(flags, owner) == [r EXCEPT !.flags = @ \union flags, !.owner = owner] IN
    CASE req[t].op = "get" \/ (req[t].op = "read" /\ r.posted) ->
           /\ buf' = [buf EXCEPT ![f] = r] /\ bfreelist' = fl
           /\ GoesWith(t, f, "hold", "idle")
           /\ UNCHANGED <<wantfree, blist, numoutput, io, disk>>
      [] req[t].op = "read" /\ ~r.posted ->
           /\ buf' = [buf EXCEPT ![f] = read({"READ"}, t)] /\ bfreelist' = fl
           /\ io' = io \union {f}
           /\ GoesWith(t, f, "reading", "idle")
           /\ UNCHANGED <<wantfree, blist, numoutput, disk>>
      [] req[t].op = "ahead" /\ r.posted -> Brelse(t, f, r, fl, blist, "idle")
      [] req[t].op = "ahead" /\ ~r.posted ->
           /\ buf' = [buf EXCEPT ![f] = read({"READ", "ASYNC"}, Driver)] /\ bfreelist' = fl
           /\ io' = io \union {f}
           /\ Goes(t, "idle")
           /\ UNCHANGED <<wantfree, blist, numoutput, disk>>

\* "Buffer could have changed hands while we slept."  An invalid one leaves
\* the chain.
SearchAgain(t) ==
    /\ Locks(t, "lock")
    /\ LET r == buf[bp[t]] IN
       /\ r.blk # req[t].blk \/ "INVAL" \in r.flags
       /\ buf' = [buf EXCEPT ![bp[t]].hashed = @ /\ r.blk # req[t].blk]
    /\ Goes(t, "search")
    /\ UNCHANGED <<bfreelist, wantfree, blist, numoutput, io, disk, moved>>

\* Mutant: the buffer is taken for what it was before the thread slept.
HitUnchecked(t) ==
    /\ Locks(t, "lock") /\ "INVAL" \notin Locked(t).flags
    /\ Have(t, bp[t], Locked(t), OffFreeList(bp[t]))
    /\ UNCHANGED moved

\* The block is in the cache.
Hit(t) ==
    /\ Locks(t, "lock")
    /\ LET r == Locked(t) IN
       /\ r.blk = req[t].blk /\ "INVAL" \notin r.flags
       /\ Have(t, bp[t], r, OffFreeList(bp[t]))
    /\ UNCHANGED moved

\* It is there with another size, as any block may be: it is written and thrown
\* away.
StraySize(t) ==
    /\ Locks(t, "lock")
    /\ LET r == Locked(t) IN
       /\ r.blk = req[t].blk /\ "INVAL" \notin r.flags
       /\ Bwrite(t, bp[t], [r EXCEPT !.flags = @ \union {"INVAL"}], "search")
    /\ bfreelist' = OffFreeList(bp[t])
    /\ UNCHANGED moved

\* The buffers that getnewbuf may take, in the order in which it looks.
FreeBufs == bfreelist.AGE \o bfreelist.LRU \o bfreelist.LOCKED
Available == {f \in Bufs : f \in Range(FreeBufs) /\ Unlocked(f)}

\* getnewbuf finds f, or none, as all are locked.
Getnewbuf(t, f) == pc[t] = "new" /\ IsFirst(f, FreeBufs, Available)

GetnewbufSleeps(t) ==
    /\ pc[t] = "new" /\ Available = {}
    /\ wantfree' = TRUE
    /\ pc' = [pc EXCEPT ![t] = "asleep"]
    /\ UNCHANGED <<buf, bfreelist, blist, numoutput, io, disk, req, bp, moved, next>>

\* A dirty buffer is written, and getnewbuf starts again.
GetnewbufWrites(t) ==
    /\ \E f \in Available :
       /\ Getnewbuf(t, f) /\ Dirty(buf[f])
       /\ Bawrite(t, f, buf[f], "new")
       /\ bfreelist' = OffFreeList(f)
    /\ UNCHANGED moved

\* Mutant: b_iocomplete is not cleared for the new block.
GetnewbufTakesPosted(t) ==
    /\ \E f \in Available :
       /\ Getnewbuf(t, f) /\ ~Dirty(buf[f])
       /\ buf' = [buf EXCEPT ![f] = [@ EXCEPT !.owner = t, !.blk = req[t].blk, !.hashed = FALSE,
                                             !.flags = {}, !.data = Junk]]
       /\ bfreelist' = OffFreeList(f)
       /\ blist' = OnList(blist, f, "clean")
       /\ GoesWith(t, f, "insert", "idle")
    /\ UNCHANGED <<wantfree, numoutput, io, disk, moved>>

\* A clean one loses its block, leaves its chain, and gets the new block.
GetnewbufTakes(t) ==
    /\ \E f \in Available :
       /\ Getnewbuf(t, f) /\ ~Dirty(buf[f])
       /\ buf' = [buf EXCEPT ![f] =
                    [owner |-> t, blk |-> req[t].blk, hashed |-> FALSE, flags |-> {},
                     posted |-> FALSE, data |-> Junk]]
       /\ bfreelist' = OffFreeList(f)
       /\ blist' = OnList(blist, f, "clean")
       /\ GoesWith(t, f, "insert", "idle")
    /\ UNCHANGED <<wantfree, numoutput, io, disk, moved>>

\* Somebody else has put the block on the chain meanwhile.
GiveUpDuplicate(t) ==
    /\ pc[t] = "insert" /\ moved[t] /\ Hashed(req[t].blk) # {}
    /\ LET r == buf[bp[t]] IN
       Brelse(t, bp[t], [r EXCEPT !.flags = @ \union {"INVAL"}], bfreelist, blist, "search")
    /\ moved' = [moved EXCEPT ![t] = FALSE]

\* Mutant: the chain is not searched again.
InsertUnsearched(t) ==
    /\ pc[t] = "insert"
    /\ Have(t, bp[t], [buf[bp[t]] EXCEPT !.hashed = TRUE], bfreelist)
    /\ moved' = [u \in Threads |-> u # t /\ (moved[u] \/ pc[u] \in {"new", "asleep", "insert"})]

\* binshash, which changes the stamp.
Insert(t) ==
    /\ pc[t] = "insert"
    /\ moved[t] => Hashed(req[t].blk) = {}
    /\ Have(t, bp[t], [buf[bp[t]] EXCEPT !.hashed = TRUE], bfreelist)
    /\ moved' = [u \in Threads |-> u # t /\ (moved[u] \/ pc[u] \in {"new", "asleep", "insert"})]

------------------------------------------------------------------------------
(* Callers of getblk *)

\* biowait in bread: on an error the caller gives the buffer back.
ReadDone(t) ==
    /\ pc[t] = "reading" /\ buf[bp[t]].posted
    /\ IF "ERROR" \in buf[bp[t]].flags
       THEN Brelse(t, bp[t], buf[bp[t]], bfreelist, blist, "idle")
       ELSE GoesWith(t, bp[t], "hold", "idle") /\ UNCHANGED cache
    /\ UNCHANGED moved

\* The buffer of t with a new content.
Changed(t, v) == [buf[bp[t]] EXCEPT !.data = v]

Release(t) ==
    /\ pc[t] = "hold" /\ req[t].op = "read"
    /\ Brelse(t, bp[t], buf[bp[t]], bfreelist, blist, "idle")
    /\ UNCHANGED moved

Bdwrite(t, v) ==
    /\ pc[t] = "hold"
    /\ LET r == Changed(t, v) IN
       Brelse(t, bp[t], [r EXCEPT !.flags = @ \union {"DELWRI"}, !.posted = TRUE], bfreelist,
              IF Dirty(r) THEN blist ELSE OnList(blist, bp[t], "dirty"), "idle")
    /\ UNCHANGED moved

WriteAsync(t, v) ==
    /\ pc[t] = "hold"
    /\ Bawrite(t, bp[t], Changed(t, v), "idle")
    /\ UNCHANGED <<bfreelist, moved>>

WriteSync(t, v) ==
    /\ pc[t] = "hold"
    /\ Bwrite(t, bp[t], Changed(t, v), "idle")
    /\ UNCHANGED <<bfreelist, moved>>

\* biowait and brelse in bwrite.
WriteDone(t) ==
    /\ pc[t] = "writing" /\ buf[bp[t]].posted
    /\ Brelse(t, bp[t], buf[bp[t]], bfreelist, blist, next[t])
    /\ UNCHANGED moved

------------------------------------------------------------------------------
(* The driver *)

\* The transfer ends, and biodone counts it and posts b_iocomplete.
Biodone(i) ==
    /\ pc[i] = "idle"
    /\ \E f \in io, ok \in BOOLEAN :
         LET r == buf[f]
             read == "READ" \in r.flags
             left == IF read THEN numoutput ELSE numoutput - 1 IN
         /\ ok \/ (IF read THEN "read" ELSE "write") \in Failures
         /\ buf' = [buf EXCEPT ![f] =
                      [r EXCEPT !.posted = TRUE,
                                !.flags = IF ok THEN @ ELSE @ \union {"ERROR"},
                                !.data = IF read /\ ok THEN disk[r.blk] ELSE @]]
         /\ disk' = IF ok /\ ~read THEN [disk EXCEPT ![r.blk] = r.data] ELSE disk
         /\ io' = io \ {f}
         /\ numoutput' = left
         /\ LET woken == IF left = 0 /\ ~read THEN {t \in Threads : pc[t] = "drained"} ELSE {}
                async == "ASYNC" \in r.flags IN
            /\ pc' = [a \in Agents |-> IF a = i THEN (IF async THEN "done" ELSE "idle")
                                     ELSE IF a \in woken THEN "drain" ELSE pc[a]]
            /\ bp' = [bp EXCEPT ![i] = IF async THEN f ELSE NoBuf]
    /\ UNCHANGED <<bfreelist, wantfree, blist, req, moved, next>>

\* BUF_ACCEPT and brelse for an asynchronous transfer.
Accept(i) ==
    /\ pc[i] = "done"
    /\ Brelse(i, bp[i], [buf[bp[i]] EXCEPT !.owner = i], bfreelist, blist, "idle")
    /\ UNCHANGED moved

------------------------------------------------------------------------------
(* vflushbuf and vinvalbuf *)

\* Both start by clearing the errors of the dirty buffers that are not locked.
ClearErrors ==
    buf' = [f \in Bufs |->
              IF f \in Range(blist.dirty) /\ Unlocked(f)
              THEN [buf[f] EXCEPT !.flags = @ \ {"ERROR"}] ELSE buf[f]]

StartFlush(t, sync) ==
    /\ t \in Flushers /\ pc[t] = "idle"
    /\ ClearErrors
    /\ pc' = [pc EXCEPT ![t] = "flush"]
    /\ req' = [req EXCEPT ![t] = [op |-> "flush", sync |-> sync]]
    /\ UNCHANGED <<bfreelist, wantfree, blist, numoutput, io, disk, bp, moved, next>>

\* The dirty buffers that can be locked, and have not just failed.
Flushable ==
    {f \in Bufs : f \in Range(blist.dirty) /\ Unlocked(f) /\ "ERROR" \notin buf[f].flags}

\* Mutant: the buffer stays on its free list.
FlushOneOnFreeList(t) ==
    /\ pc[t] = "flush"
    /\ \E f \in Flushable :
         IsFirst(f, blist.dirty, Flushable) /\ Bawrite(t, f, buf[f], "flush")
    /\ UNCHANGED <<bfreelist, moved>>

FlushOne(t) ==
    /\ pc[t] = "flush"
    /\ \E f \in Flushable :
       /\ IsFirst(f, blist.dirty, Flushable)
       /\ Bawrite(t, f, buf[f], "flush")
       /\ bfreelist' = OffFreeList(f)
    /\ UNCHANGED moved

FlushEnds(t) ==
    /\ pc[t] = "flush" /\ Flushable = {}
    /\ Goes(t, IF req[t].sync THEN "drain" ELSE "idle")
    /\ UNCHANGED <<cache, moved>>

\* Wait until v_numoutput is zero.
Drain(t) ==
    /\ pc[t] = "drain"
    /\ Goes(t, IF numoutput = 0 THEN "idle" ELSE "drained")
    /\ UNCHANGED <<cache, moved>>

StartInval(t) ==
    /\ t \in Invalidators /\ pc[t] = "idle"
    /\ ClearErrors
    /\ pc' = [pc EXCEPT ![t] = "inval"]
    /\ req' = [req EXCEPT ![t] = [op |-> "inval", list |-> "dirty"]]
    /\ UNCHANGED <<bfreelist, wantfree, blist, numoutput, io, disk, bp, moved, next>>

\* The list that vinvalbuf goes on with.
InvalList(t) ==
    IF blist[req[t].list] # <<>> THEN req[t].list
    ELSE IF blist.dirty # <<>> THEN "dirty" ELSE "clean"

\* The front of the list is locked; when both are empty vinvalbuf is done, and
\* waits for the writes it has started.
InvalNext(t) ==
    /\ pc[t] = "inval"
    /\ LET l == InvalList(t) IN
       IF blist[l] # <<>>
       THEN /\ pc' = [pc EXCEPT ![t] = "inval lock"]
            /\ bp' = [bp EXCEPT ![t] = Head(blist[l])]
            /\ req' = [req EXCEPT ![t].list = l]
            /\ UNCHANGED next
       ELSE \E w \in {"idle", "drain"} : Goes(t, w)
    /\ UNCHANGED <<cache, moved>>

AtFront(t) == blist[req[t].list] # <<>> /\ Head(blist[req[t].list]) = bp[t]

InvalMisses(t) ==
    /\ Locks(t, "inval lock") /\ ~AtFront(t)
    /\ Goes(t, "inval")
    /\ UNCHANGED <<cache, moved>>

\* A dirty buffer is written first, unless that has failed before.
InvalWrites(t) ==
    /\ Locks(t, "inval lock") /\ AtFront(t)
    /\ LET r == Locked(t) IN
       /\ Dirty(r) /\ "ERROR" \notin r.flags
       /\ Bawrite(t, bp[t], r, "inval")
    /\ bfreelist' = OffFreeList(bp[t])
    /\ UNCHANGED moved

InvalDiscards(t) ==
    /\ Locks(t, "inval lock") /\ AtFront(t)
    /\ LET r == Locked(t) IN
       /\ ~Dirty(r) \/ "ERROR" \in r.flags
       /\ Brelse(t, bp[t], [r EXCEPT !.flags = @ \union {"INVAL"}], OffFreeList(bp[t]), blist,
                 "inval")
    /\ UNCHANGED moved

------------------------------------------------------------------------------
(* The specification *)

Begin(t) ==
    \/ \E op \in {"read", "get", "ahead"}, b \in Blocks : Start(t, op, b)
    \/ \E sync \in BOOLEAN : StartFlush(t, sync)
    \/ StartInval(t)

Getblk(t) ==
    \/ Search(t) \/ SearchAgain(t) \/ Hit(t) \/ StraySize(t)
    \/ GetnewbufSleeps(t) \/ GetnewbufWrites(t) \/ GetnewbufTakes(t)
    \/ GiveUpDuplicate(t) \/ Insert(t)

Write(t, v) == Bdwrite(t, v) \/ WriteAsync(t, v) \/ WriteSync(t, v)

Use(t) ==
    \/ ReadDone(t) \/ Release(t) \/ WriteDone(t) \/ Unlock(t)
    \/ \E v \in Values : Write(t, v)

Flush(t) == FlushOne(t) \/ FlushEnds(t) \/ Drain(t)

Inval(t) == InvalNext(t) \/ InvalMisses(t) \/ InvalWrites(t) \/ InvalDiscards(t)

Interrupt(i) == Biodone(i) \/ Accept(i) \/ Unlock(i)

Next ==
    \/ \E t \in Threads : Begin(t) \/ Getblk(t) \/ Use(t) \/ Flush(t) \/ Inval(t)
    \/ \E i \in Interrupts : Interrupt(i)

Spec == Init /\ [][Next]_vars

------------------------------------------------------------------------------
(* Properties *)

\* No block is in two buffers on the chain, whoever raced to put it there.
OneBufferPerBlock == \A b \in Blocks : Cardinality(Hashed(b)) <= 1

\* bremfree and binsheadfree check nothing: a buffer that is not locked is on
\* one free list, once, and what is in use is on none.
FreeListsMatchLocks ==
    \A f \in Bufs :
      LET places == {i \in DOMAIN FreeBufs : FreeBufs[i] = f} IN
      /\ Cardinality(places) <= 1
      /\ Unlocked(f) => places # {}
      /\ \/ buf[f].owner = Driver
         \/ \E a \in Agents : bp[a] = f /\ pc[a] \in {"insert", "reading", "hold", "writing", "done"}
         => places = {}

\* A buffer is given to the driver, and counted, once: it stays locked, and its
\* b_iocomplete clear, until biodone (which else panics with "dup biodone").
TransfersAreExclusive ==
    /\ \A f \in io : ~Unlocked(f) /\ ~buf[f].posted
    /\ numoutput = Cardinality({f \in io : "READ" \notin buf[f].flags})

\* v_dirtyblkhd has the delayed writes (the ASSERT of vflushbuf).
DirtyListIsDirty ==
    \A f \in Bufs : Unlocked(f) => (Dirty(buf[f]) <=> f \in Range(blist.dirty))

\* A buffer is on the lists that its lock and its flags say, and on no other.
ListsAreRight == TypeOK /\ FreeListsMatchLocks /\ DirtyListIsDirty

\* What the comments say of a multiprocessor (vfs_bio.c:492) and the code does
\* not do: a getnewbuf that sleeps, and will not be woken, has nothing to take.
SleepersHaveNoBuffer ==
    (\E t \in Threads : pc[t] = "asleep")
      /\ (\A a \in Agents : pc[a] # "unlock wake")
      => Available = {}

\* Nor this, "Don't want to lose it's contents" (vfs_bio.c:509): a delayed write ends by being written.
DelayedWritesAreWritten ==
    [][\A f \in Bufs : Dirty(buf[f]) /\ ~Dirty(buf'[f]) => f \in io']_vars

\* The buffers that have the contents of block b.
Holding(b) == {f \in Bufs : buf[f].blk = b /\ buf[f].data # Junk}

\* The threads that have been given a buffer as that of block b.
HolderOf(b) == {t \in Threads : pc[t] \in {"hold", "writing"} /\ req[t].blk = b}

\* Who has read a block has its contents, in the one buffer that has them, and not
\* what the buffer had before or nothing yet.
ReadersHaveTheBlock ==
    \A t \in Threads :
      pc[t] = "hold" /\ req[t].op = "read" => Holding(req[t].blk) = {bp[t]}

\* The cache is a store of blocks: who has a block has it alone and reads what
\* was last written, wherever it is; a synchronous write is on the disk when it
\* returns, the disk never gets a block that is being changed, and a write is
\* lost only after it has failed.
Abstract == INSTANCE BlockStore WITH
    holder <- [b \in Blocks |-> IF HolderOf(b) = {} THEN Nobody
                                ELSE CHOOSE t \in HolderOf(b) : TRUE],
    writing <- {b \in Blocks : \E t \in HolderOf(b) : pc[t] = "writing"},
    value <- [b \in Blocks |-> IF Holding(b) = {} THEN disk[b]
                               ELSE buf[CHOOSE f \in Holding(b) : TRUE].data],
    failed <- {b \in Blocks : \E f \in Bufs :
                 buf[f].blk = b /\ "ERROR" \in buf[f].flags /\ "READ" \notin buf[f].flags}
ImplementsBlockStore == Abstract!Spec
=============================================================================
