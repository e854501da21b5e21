-------------------------- MODULE BufCache_proofs --------------------------
(***************************************************************************)
(* Proofs about BufCache: who has a buffer, what is in it and on which     *)
(* lists it is, for each place that a thread or an interrupt can be at.    *)
(***************************************************************************)
EXTENDS BufCache, FiniteSetTheorems, TLAPS

USE BufCacheAssumption

------------------------------------------------------------------------------
(* The inductive invariant *)

Releasing == {"unlock", "unlock wake"}
Using == {"insert", "reading", "hold", "writing"}
Owning == {"insert", "reading", "hold", "writing", "unlock", "unlock wake"}
Looking == {"search", "lock", "new", "asleep", "insert", "reading", "hold"}
Getting == {"read", "get", "ahead"}

CallFits(a) ==
    /\ a \in Threads =>
         /\ pc[a] # "done"
         /\ pc[a] \in Looking \/ next[a] = "search" => req[a].op \in Getting
         /\ pc[a] \in {"inval", "inval lock"} \/ next[a] = "inval" => req[a].op = "inval"
         /\ pc[a] \in {"lock", "inval lock"} => bp[a] \in Bufs
         /\ pc[a] \notin Owning => next[a] = "idle"
    /\ a \in Interrupts => pc[a] \in {"idle", "done"} \union Releasing /\ next[a] = "idle"

Has(a) ==
    /\ pc[a] \in Owning => bp[a] \in Bufs /\ buf[bp[a]].owner = a
    /\ pc[a] = "done" => /\ bp[a] \in Bufs \ io
                         /\ buf[bp[a]].owner = Driver /\ "ASYNC" \in buf[bp[a]].flags

Empty(r) == r.blk = NoBlock /\ ~r.hashed /\ r.flags = {"INVAL"} /\ ~r.posted /\ r.data = Junk
Full(r) == r.blk \in Blocks /\ r.hashed /\ "INVAL" \notin r.flags /\ r.data # Junk
Settled(r) == Empty(r) \/ Full(r)

\* What a buffer with fields r holds whose owner is at w in call q.
Contents(w, r, q) ==
    CASE w = "insert" -> /\ r.blk = q.blk /\ ~r.hashed /\ r.flags = {} 
                         /\ ~r.posted /\ r.data = Junk
      [] w = "reading" -> /\ r.blk = q.blk /\ r.hashed /\ "INVAL" \notin r.flags /\ "READ" \in r.flags
                          /\ r.posted /\ "ERROR" \notin r.flags => r.data # Junk
      [] w = "hold" -> /\ r.blk = q.blk /\ r.hashed /\ "INVAL" \notin r.flags
                       /\ q.op = "read" => r.data # Junk
      [] w = "writing" -> r.blk \in Blocks /\ r.hashed /\ "READ" \notin r.flags /\ r.data # Junk
      [] w \in Releasing -> Settled(r)

\* The same of one that the driver has.
Transferred(r) ==
    /\ r.blk \in Blocks /\ r.hashed /\ "INVAL" \notin r.flags
    /\ "READ" \notin r.flags => r.data # Junk

Fits(a) == pc[a] \in Owning => Contents(pc[a], buf[bp[a]], IF a \in Threads THEN req[a] ELSE NoReq)

OnFree(f) == \E q \in DOMAIN bfreelist : f \in Range(bfreelist[q])

Releases(a, f) == pc[a] \in Releasing /\ bp[a] = f

BufferFits(f) ==
    LET r == buf[f] IN
    /\ \A a \in Agents : r.owner = a => pc[a] \in Owning /\ bp[a] = f
    /\ r.owner = Nobody => Settled(r)
    /\ r.owner = Driver => /\ Transferred(r)
                           /\ f \notin io /\ "ERROR" \notin r.flags => r.data # Junk
    /\ "ASYNC" \in r.flags <=> r.owner = Driver
    /\ f \in io => /\ ~r.posted
                   /\ r.owner = Driver \/ \E a \in Agents : r.owner = a /\ pc[a] \in {"reading", "writing"}
    /\ OnFree(f) <=> r.owner = Nobody \/ \E a \in Agents : Releases(a, f)
    /\ Dirty(r) <=> f \in Range(blist.dirty)

DoneApart == \A i, j \in Interrupts : pc[i] = "done" /\ pc[j] = "done" /\ bp[i] = bp[j] => i = j

Outstanding == {f \in io : "READ" \notin buf[f].flags}
Counted == numoutput = Cardinality(Outstanding)

FreeListsApart ==
    /\ \A q \in DOMAIN bfreelist : IsInjective(bfreelist[q])
    /\ \A p, q \in DOMAIN bfreelist : p # q => Range(bfreelist[p]) \cap Range(bfreelist[q]) = {}
ListedOnce == \A l \in DOMAIN blist : IsInjective(blist[l])

Chain ==
    /\ \A f, g \in Bufs : buf[f].hashed /\ buf[g].hashed /\ buf[f].blk = buf[g].blk => f = g
    /\ \A t \in Threads : pc[t] \in {"new", "asleep", "insert"} /\ ~moved[t] => Hashed(req[t].blk) = {}

IInv ==
    /\ TypeOK
    /\ \A a \in Agents : CallFits(a) /\ Has(a) /\ Fits(a)
    /\ \A f \in Bufs : BufferFits(f)
    /\ DoneApart /\ Counted /\ FreeListsApart /\ ListedOnce /\ Chain

------------------------------------------------------------------------------
(* Lists without repetition *)

LEMMA WithoutFacts ==
    ASSUME NEW S, NEW s \in Seq(S), IsInjective(s), NEW f
    PROVE  /\ Without(s, f) \in Seq(S)
           /\ IsInjective(Without(s, f))
           /\ Range(Without(s, f)) = Range(s) \ {f}
  <1>1. CASE f \notin Range(s)
    BY <1>1 DEF Without
  <1>2. CASE f \in Range(s)
    <2> DEFINE at == CHOOSE i \in DOMAIN s : s[i] = f
               w == [i \in 1 .. Len(s) - 1 |-> s[IF i < at THEN i ELSE i + 1]]
    <2>1. at \in 1 .. Len(s) /\ s[at] = f
      BY <1>2 DEF Range
    <2>2. Without(s, f) = w
      BY <1>2 DEF Without
    <2>3. Len(s) - 1 \in Nat /\ DOMAIN s = 1 .. Len(s)
      BY <2>1
    <2> HIDE DEF at
    <2>4. \A i \in 1 .. Len(s) - 1 : w[i] \in S
      BY <2>1
    <2>5. w \in Seq(S)
      BY <2>3, <2>4
    <2>6. DOMAIN w = 1 .. Len(s) - 1
      OBVIOUS
    <2>7. IsInjective(w)
      <3> SUFFICES ASSUME NEW i \in DOMAIN w, NEW j \in DOMAIN w, w[i] = w[j] PROVE i = j
        BY DEF IsInjective
      <3> DEFINE k == IF i < at THEN i ELSE i + 1
                 l == IF j < at THEN j ELSE j + 1
      <3>1. s[k] = s[l] /\ k \in DOMAIN s /\ l \in DOMAIN s
        BY <2>1, <2>3, <2>6
      <3>2. k = l
        BY <3>1 DEF IsInjective
      <3>3. QED BY <3>2, <2>1, <2>6
    <2>8. Range(w) \subseteq Range(s) \ {f}
      <3> SUFFICES ASSUME NEW i \in DOMAIN w PROVE w[i] \in Range(s) /\ w[i] # f
        BY DEF Range
      <3> DEFINE k == IF i < at THEN i ELSE i + 1
      <3>1. w[i] = s[k] /\ k \in DOMAIN s /\ k # at
        BY <2>1, <2>3, <2>6
      <3>2. QED BY <3>1, <2>1, <2>3 DEF IsInjective, Range
    <2>9. Range(s) \ {f} \subseteq Range(w)
      <3> SUFFICES ASSUME NEW j \in DOMAIN s, s[j] # f PROVE \E i \in DOMAIN w : w[i] = s[j]
        BY DEF Range
      <3>1. j # at
        BY <2>1
      <3>2. CASE j < at
        BY <3>2, <2>1, <2>3, <2>6
      <3>3. CASE j > at
        <4>1. j - 1 \in DOMAIN w /\ ~(j - 1 < at) /\ (j - 1) + 1 = j
          BY <3>3, <2>1, <2>3, <2>6
        <4>2. w[j - 1] = s[j]
          BY <4>1, <2>6
        <4>3. QED BY <4>1, <4>2
      <3>4. QED BY <3>1, <3>2, <3>3, <2>1, <2>3
    <2>10. QED BY <2>2, <2>5, <2>7, <2>8, <2>9
  <1>3. QED BY <1>1, <1>2

LEMMA AppendFacts ==
    ASSUME NEW S, NEW s \in Seq(S), IsInjective(s), NEW f \in S, f \notin Range(s)
    PROVE  /\ Append(s, f) \in Seq(S)
           /\ IsInjective(Append(s, f))
           /\ Range(Append(s, f)) = Range(s) \union {f}
  <1> DEFINE n == Append(s, f)
  <1>1. /\ n \in Seq(S) /\ DOMAIN n = 1 .. Len(s) + 1 /\ DOMAIN s = 1 .. Len(s) /\ Len(s) \in Nat
        /\ n[Len(s) + 1] = f /\ \A i \in 1 .. Len(s) : n[i] = s[i]
    OBVIOUS
  <1> HIDE DEF n
  <1>2. IsInjective(n)
    <2> SUFFICES ASSUME NEW i \in DOMAIN n, NEW j \in DOMAIN n, n[i] = n[j] PROVE i = j
      BY DEF IsInjective
    <2>1. CASE i = Len(s) + 1 \/ j = Len(s) + 1
      BY <1>1, <2>1 DEF Range
    <2>2. CASE i # Len(s) + 1 /\ j # Len(s) + 1
      <3>1. i \in DOMAIN s /\ j \in DOMAIN s
        BY <1>1, <2>2
      <3>2. QED BY <3>1, <1>1 DEF IsInjective
    <2>3. QED BY <2>1, <2>2
  <1>3. Range(n) \subseteq Range(s) \union {f}
    BY <1>1 DEF Range
  <1>4. Range(s) \union {f} \subseteq Range(n)
    BY <1>1 DEF Range
  <1>5. QED BY <1>1, <1>2, <1>3, <1>4 DEF n

LEMMA PushFacts ==
    ASSUME NEW S, NEW s \in Seq(S), IsInjective(s), NEW f \in S, f \notin Range(s)
    PROVE  /\ <<f>> \o s \in Seq(S)
           /\ IsInjective(<<f>> \o s)
           /\ Range(<<f>> \o s) = Range(s) \union {f}
  <1> DEFINE n == <<f>> \o s
  <1>1. /\ n \in Seq(S) /\ DOMAIN n = 1 .. Len(s) + 1 /\ DOMAIN s = 1 .. Len(s) /\ Len(s) \in Nat
        /\ n[1] = f /\ \A i \in 2 .. Len(s) + 1 : n[i] = s[i - 1]
    OBVIOUS
  <1> HIDE DEF n
  <1>2. IsInjective(n)
    <2> SUFFICES ASSUME NEW i \in DOMAIN n, NEW j \in DOMAIN n, n[i] = n[j] PROVE i = j
      BY DEF IsInjective
    <2>1. CASE i = 1 \/ j = 1
      <3>1. \A k \in 2 .. Len(s) + 1 : n[k] \in Range(s)
        BY <1>1 DEF Range
      <3>2. QED BY <3>1, <1>1, <2>1
    <2>2. CASE i # 1 /\ j # 1
      <3>1. i - 1 \in DOMAIN s /\ j - 1 \in DOMAIN s /\ s[i - 1] = s[j - 1]
        BY <1>1, <2>2
      <3>2. i - 1 = j - 1
        BY <3>1 DEF IsInjective
      <3>3. QED BY <3>2, <1>1
    <2>3. QED BY <2>1, <2>2
  <1>3. Range(n) \subseteq Range(s) \union {f}
    <2> SUFFICES ASSUME NEW i \in DOMAIN n PROVE n[i] = f \/ n[i] \in Range(s)
      BY DEF Range
    <2>1. CASE i = 1 BY <2>1, <1>1
    <2>2. CASE i # 1
      <3>1. i - 1 \in DOMAIN s /\ n[i] = s[i - 1]
        BY <2>2, <1>1
      <3>2. QED BY <3>1 DEF Range
    <2>3. QED BY <2>1, <2>2
  <1>4. Range(s) \union {f} \subseteq Range(n)
    <2>1. \A i \in DOMAIN s : i + 1 \in DOMAIN n /\ n[i + 1] = s[i]
      BY <1>1
    <2>2. QED BY <2>1, <1>1 DEF Range
  <1>5. QED BY <1>1, <1>2, <1>3, <1>4 DEF n

------------------------------------------------------------------------------
(* Steps by which one agent moves one buffer *)

\* f is in no transfer, and free for a to lock or already its own.
Takeable(a, f) ==
    /\ f \in Bufs \ io
    /\ \/ buf[f].owner = Nobody /\ pc[a] \notin Owning /\ pc[a] # "done"
       \/ bp[a] = f /\ (pc[a] \in Using \/ pc[a] = "done")

OthersStay(a) ==
    \A c \in Agents :
      c # a => /\ pc'[c] = pc[c] /\ bp'[c] = bp[c] /\ next'[c] = next[c]
               /\ c \in Threads => req'[c] = req[c]

RestStays(f) ==
    \A g \in Bufs :
      g # f => /\ buf'[g] = buf[g] /\ (g \in io' <=> g \in io)
               /\ OnFree(g)' <=> OnFree(g)
               /\ g \in Range(blist'.dirty) <=> g \in Range(blist.dirty)

\* a has the buffer, or has given it to the driver.
Keeps(a, f) ==
    /\ pc'[a] \in Owning /\ bp'[a] = f /\ buf'[f].owner = a
    /\ "ASYNC" \notin buf'[f].flags /\ Fits(a)'
    /\ f \in io' => pc'[a] \in {"reading", "writing"}

Gives(a, f) ==
    /\ pc'[a] \notin Owning /\ pc'[a] \notin {"done", "lock", "inval lock"}
    /\ buf'[f].owner = Driver
    /\ "ASYNC" \in buf'[f].flags /\ Transferred(buf'[f]) /\ f \in io'

Moves(a, f) ==
    /\ OthersStay(a) /\ RestStays(f)
    /\ Keeps(a, f) \/ Gives(a, f)
    /\ f \in io' => ~buf'[f].posted
    /\ OnFree(f)' <=> pc'[a] \in Releasing
    /\ Dirty(buf'[f]) <=> f \in Range(blist'.dirty)
    /\ CallFits(a)'

AllFit ==
    /\ \A a \in Agents : CallFits(a) /\ Has(a) /\ Fits(a)
    /\ \A f \in Bufs : BufferFits(f)
    /\ DoneApart

LEMMA OwnersDiffer ==
    ASSUME IInv, NEW a \in Agents, NEW f, Takeable(a, f), NEW c \in Agents, c # a,
           pc[c] \in Owning \/ pc[c] = "done"
    PROVE  bp[c] # f
  <1>1. CASE pc[c] \in Owning
    <2>1. buf[bp[c]].owner = c
      BY <1>1 DEF IInv, Has
    <2>2. buf[f].owner \in {Nobody, a, Driver}
      BY DEF Takeable, IInv, Has, Owning, Using
    <2>3. QED BY <2>1, <2>2 DEF Agents
  <1>2. CASE pc[c] = "done"
    <2>1. c \in Interrupts /\ buf[bp[c]].owner = Driver
      BY <1>2 DEF IInv, Has, CallFits, Agents
    <2>2. CASE pc[a] = "done"
      <3>1. a \in Interrupts
        BY <2>2 DEF IInv, CallFits, Agents
      <3>2. QED BY <1>2, <2>1, <2>2, <3>1 DEF IInv, DoneApart, Takeable, Owning, Using
    <2>3. CASE pc[a] # "done"
      <3>1. buf[f].owner \in {Nobody, a}
        BY <2>3 DEF Takeable, IInv, Has, Owning, Using
      <3>2. QED BY <2>1, <3>1 DEF Agents
    <2>4. QED BY <2>2, <2>3
  <1>3. QED BY <1>1, <1>2

LEMMA MoveKeeps ==
    ASSUME IInv, NEW a \in Agents, NEW f, Takeable(a, f), Moves(a, f)
    PROVE  AllFit'
  <1>0. \A c \in Agents : c # a /\ (pc[c] \in Owning \/ pc[c] = "done") => bp[c] # f
    BY OwnersDiffer
  <1> USE DEF Owning, Releasing, Using
  <1>1. ASSUME NEW c \in Agents, c # a PROVE CallFits(c)' /\ Has(c)' /\ Fits(c)'
    <2>1. CallFits(c) /\ Has(c) /\ Fits(c)
      BY DEF IInv
    <2>2. /\ pc'[c] = pc[c] /\ bp'[c] = bp[c] /\ next'[c] = next[c]
          /\ c \in Threads => req'[c] = req[c]
      BY <1>1 DEF Moves, OthersStay
    <2>3. CallFits(c)'
      BY <2>1, <2>2 DEF CallFits
    <2>4. pc[c] \in Owning \/ pc[c] = "done" =>
            bp[c] \in Bufs /\ buf'[bp[c]] = buf[bp[c]] /\ (bp[c] \in io' <=> bp[c] \in io)
      BY <1>0, <1>1, <2>1 DEF Has, Moves, RestStays
    <2>5. Has(c)'
      BY <2>1, <2>2, <2>4 DEF Has
    <2>6. Fits(c)'
      BY <2>1, <2>2, <2>4 DEF Fits
    <2>7. QED BY <2>3, <2>5, <2>6
  <1>2. CallFits(a)' /\ Has(a)' /\ Fits(a)'
    <2>1. f \in Bufs
      BY DEF Takeable
    <2>2. QED BY <2>1 DEF Moves, Keeps, Gives, Has, Fits
  <1>3. ASSUME NEW g \in Bufs, g # f PROVE BufferFits(g)'
    <2>1. BufferFits(g)
      BY DEF IInv
    <2>2. /\ buf'[g] = buf[g] /\ (g \in io' <=> g \in io)
          /\ OnFree(g)' <=> OnFree(g)
          /\ g \in Range(blist'.dirty) <=> g \in Range(blist.dirty)
      BY <1>3 DEF Moves, RestStays
    <2>3. pc[a] \in Owning => bp[a] = f
      BY DEF Takeable
    <2>4. \A c \in Agents : Releases(c, g)' <=> Releases(c, g)
      <3>1. OthersStay(a) /\ (Keeps(a, f) \/ Gives(a, f))
        BY DEF Moves
      <3>2. ~Releases(a, g)
        BY <1>3, <2>3 DEF Releases
      <3>4. ~Releases(a, g)'
        BY <1>3, <3>1 DEF Releases, Keeps, Gives
      <3>3. QED BY <3>1, <3>2, <3>4 DEF OthersStay, Releases
    <2>5. \A c \in Agents : buf[g].owner = c => pc'[c] = pc[c] /\ bp'[c] = bp[c]
      <3>1. \A c \in Agents : buf[g].owner = c => pc[c] \in Owning /\ bp[c] = g
        BY <2>1 DEF BufferFits
      <3>2. \A c \in Agents : c # a => pc'[c] = pc[c] /\ bp'[c] = bp[c]
        BY DEF Moves, OthersStay
      <3>3. buf[g].owner # a
        BY <1>3, <2>3, <3>1
      <3>4. QED BY <3>2, <3>3
    <2>6. QED BY <2>1, <2>2, <2>4, <2>5 DEF BufferFits
  <1>4. BufferFits(f)'
    <2>1. \A c \in Agents : Releases(c, f)' => c = a
      <3>1. OthersStay(a)
        BY DEF Moves
      <3>2. QED BY <1>0, <3>1 DEF Releases, OthersStay
    <2>2. \A c \in Agents : c # Driver /\ c # Nobody
      BY DEF Agents
    <2>3. CASE Keeps(a, f)
      <3>1. Releases(a, f)' <=> pc'[a] \in Releasing
        BY <2>3 DEF Keeps, Releases
      <3>2. buf'[f].owner = a
        BY <2>3 DEF Keeps
      <3>3. QED BY <2>1, <2>2, <2>3, <3>1, <3>2 DEF BufferFits, Moves, Keeps
    <2>4. CASE Gives(a, f)
      <3>1. ~Releases(a, f)'
        BY <2>4 DEF Gives, Releases
      <3>2. buf'[f].owner = Driver /\ f \in io'
        BY <2>4 DEF Gives
      <3>3. Driver # Nobody
        OBVIOUS
      <3>4. QED BY <2>1, <2>2, <2>4, <3>1, <3>2, <3>3 DEF BufferFits, Moves, Gives
    <2>5. QED BY <2>3, <2>4 DEF Moves
  <1>5. DoneApart'
    <2>1. pc'[a] # "done"
      BY DEF Moves, Keeps, Gives
    <2>2. \A c \in Interrupts : pc'[c] = "done" => c # a /\ pc[c] = "done" /\ bp'[c] = bp[c]
      BY <2>1 DEF Moves, OthersStay, Agents
    <2>3. DoneApart
      BY DEF IInv
    <2>4. QED BY <2>2, <2>3 DEF DoneApart
  <1>6. QED BY <1>1, <1>2, <1>3, <1>4, <1>5 DEF AllFit, Agents

------------------------------------------------------------------------------
(* Steps of agents that have no buffer *)

\* vflushbuf and vinvalbuf clear errors of buffers that nobody has.
Cleared(f) ==
    \/ buf'[f] = buf[f]
    \/ buf[f].owner = Nobody /\ buf'[f] = [buf[f] EXCEPT !.flags = @ \ {"ERROR"}]

Walks(a) ==
    /\ OthersStay(a)
    /\ pc[a] \notin Owning /\ pc[a] # "done" /\ pc'[a] \notin Owning /\ pc'[a] # "done"
    /\ \A f \in Bufs : Cleared(f)
    /\ UNCHANGED <<io, bfreelist, blist>>
    /\ CallFits(a)'

LEMMA ClearedSame ==
    ASSUME NEW f \in Bufs, TypeOK, Cleared(f)
    PROVE  /\ buf'[f].owner = buf[f].owner /\ buf'[f].blk = buf[f].blk
           /\ buf'[f].hashed = buf[f].hashed /\ buf'[f].posted = buf[f].posted
           /\ buf'[f].data = buf[f].data
           /\ buf'[f].flags = buf[f].flags \/ buf'[f].flags = buf[f].flags \ {"ERROR"}
           /\ buf[f].owner # Nobody => buf'[f] = buf[f]
           /\ buf'[f] # buf[f] => buf'[f].flags = buf[f].flags \ {"ERROR"}
           /\ buf'[f] \in Buffers
  <1>1. buf[f] \in Buffers
    BY DEF TypeOK
  <1>2. QED BY <1>1 DEF Cleared, Buffers, Flags

LEMMA WalkKeeps ==
    ASSUME IInv, NEW a \in Agents, Walks(a)
    PROVE  AllFit'
  <1> USE DEF Owning, Releasing, Using
  <1>0. TypeOK /\ OthersStay(a) /\ \A f \in Bufs : Cleared(f)
    BY DEF IInv, Walks
  <1>1. ASSUME NEW c \in Agents PROVE CallFits(c)' /\ Has(c)' /\ Fits(c)'
    <2>1. CallFits(c) /\ Has(c) /\ Fits(c)
      BY DEF IInv
    <2>2. CASE c = a
      BY <2>2 DEF Walks, Has, Fits
    <2>3. CASE c # a
      <3>1. /\ pc'[c] = pc[c] /\ bp'[c] = bp[c] /\ next'[c] = next[c]
            /\ c \in Threads => req'[c] = req[c]
        BY <1>0, <2>3 DEF OthersStay
      <3>2. CallFits(c)'
        BY <2>1, <3>1 DEF CallFits
      <3>3. ASSUME pc[c] \in Owning \/ pc[c] = "done"
            PROVE  bp[c] \in Bufs /\ buf'[bp[c]] = buf[bp[c]]
        <4>1. bp[c] \in Bufs /\ buf[bp[c]].owner # Nobody
          BY <2>1, <3>3 DEF Has, Agents
        <4>2. QED BY <1>0, <4>1, ClearedSame
      <3>4. Has(c)' /\ Fits(c)'
        BY <2>1, <3>1, <3>3 DEF Has, Fits, Walks
      <3>5. QED BY <3>2, <3>4
    <2>4. QED BY <2>2, <2>3
  <1>2. ASSUME NEW f \in Bufs PROVE BufferFits(f)'
    <2>1. BufferFits(f)
      BY DEF IInv
    <2>2. \A c \in Agents : Releases(c, f)' <=> Releases(c, f)
      BY <1>0 DEF Releases, OthersStay, Walks
    <2>3. \A c \in Agents : buf[f].owner = c => pc'[c] = pc[c] /\ bp'[c] = bp[c]
      BY <1>0, <2>1 DEF BufferFits, OthersStay, Walks
    <2>4. OnFree(f)' <=> OnFree(f)
      BY DEF OnFree, Walks
    <2>5. blist' = blist /\ io' = io
      BY DEF Walks
    <2>6. CASE buf'[f] = buf[f]
      BY <2>1, <2>2, <2>3, <2>4, <2>5, <2>6 DEF BufferFits
    <2>7. CASE buf'[f] # buf[f]
      <3>1. /\ buf[f].owner = Nobody /\ buf'[f].owner = Nobody /\ buf'[f].blk = buf[f].blk
            /\ buf'[f].hashed = buf[f].hashed /\ buf'[f].posted = buf[f].posted
            /\ buf'[f].data = buf[f].data /\ buf'[f].flags = buf[f].flags \ {"ERROR"}
        BY <1>0, <2>7, ClearedSame
      <3>2. \A c \in Agents : c # Nobody
        BY DEF Agents
      <3>3. Settled(buf'[f])
        BY <2>1, <3>1 DEF BufferFits, Settled, Empty, Full
      <3>4. Dirty(buf'[f]) <=> Dirty(buf[f])
        BY <3>1 DEF Dirty
      <3>5. "ASYNC" \notin buf'[f].flags
        BY <2>1, <3>1 DEF BufferFits
      <3>6. f \notin io
        <4>1. f \in io => \/ buf[f].owner = Driver
                          \/ \E c \in Agents : buf[f].owner = c
          BY <2>1 DEF BufferFits
        <4>2. QED BY <3>1, <3>2, <4>1
      <3>7. Nobody # Driver
        OBVIOUS
      <3>8. \A c \in Agents : buf'[f].owner # c
        BY <3>1, <3>2
      <3>9. OnFree(f)' <=> \/ buf'[f].owner = Nobody
                           \/ \E c \in Agents : Releases(c, f)'
        BY <2>1, <2>4, <3>1 DEF BufferFits
      <3>10. Dirty(buf'[f]) <=> f \in Range(blist'.dirty)
        BY <2>1, <2>5, <3>4 DEF BufferFits
      <3>11. QED BY <2>5, <3>1, <3>3, <3>5, <3>6, <3>7, <3>8, <3>9, <3>10 DEF BufferFits
    <2>8. QED BY <2>6, <2>7
  <1>3. DoneApart'
    <2>1. \A c \in Interrupts : pc'[c] = "done" => pc[c] = "done" /\ bp'[c] = bp[c]
      BY <1>0 DEF OthersStay, Walks, Agents
    <2>2. DoneApart
      BY DEF IInv
    <2>3. QED BY <2>1, <2>2 DEF DoneApart
  <1>4. QED BY <1>1, <1>2, <1>3 DEF AllFit

------------------------------------------------------------------------------
(* The count of writes, the hash chain and the lists *)

LEMMA CountSame ==
    ASSUME Counted, Outstanding' = Outstanding, numoutput' = numoutput
    PROVE  Counted'
  BY DEF Counted

LEMMA CountMore ==
    ASSUME TypeOK, Counted, NEW f \in Bufs, f \notin Outstanding,
           Outstanding' = Outstanding \union {f}, numoutput' = numoutput + 1
    PROVE  Counted'
  <1>1. IsFiniteSet(Outstanding)
    BY FS_Subset DEF TypeOK, Outstanding
  <1>2. QED BY <1>1, FS_AddElement DEF Counted

LEMMA CountLess ==
    ASSUME TypeOK, Counted, NEW f \in Outstanding,
           Outstanding' = Outstanding \ {f}, numoutput' = numoutput - 1
    PROVE  Counted' /\ numoutput - 1 \in Nat
  <1>1. IsFiniteSet(Outstanding) /\ IsFiniteSet(Outstanding')
    BY FS_Subset DEF TypeOK, Outstanding
  <1>2. Cardinality(Outstanding') = Cardinality(Outstanding) - 1
    BY <1>1, FS_RemoveElement
  <1>3. Cardinality(Outstanding') \in Nat
    BY <1>1, FS_CardinalityType
  <1>4. QED BY <1>2, <1>3 DEF Counted

Seeking == {"new", "asleep", "insert"}

\* No buffer comes onto the chain, and no thread seeks a block whose chain it has
\* not seen without it.
ChainShrinks ==
    \A f \in Bufs : buf'[f].hashed => buf[f].hashed /\ buf'[f].blk = buf[f].blk

Sought(t) ==
    pc'[t] \in Seeking /\ ~moved'[t] =>
      \/ pc[t] \in Seeking /\ ~moved[t] /\ req'[t] = req[t]
      \/ Hashed(req'[t].blk) = {}

LEMMA ChainKept ==
    ASSUME Chain, ChainShrinks, \A t \in Threads : Sought(t)
    PROVE  Chain'
  <1>1. \A b : Hashed(b)' \subseteq Hashed(b)
    BY DEF Hashed, ChainShrinks
  <1>2. \A t \in Threads : pc'[t] \in Seeking /\ ~moved'[t] => Hashed(req'[t].blk) = {}
    BY DEF Sought, Chain, Seeking
  <1>3. \A t \in Threads : pc'[t] \in Seeking /\ ~moved'[t] => Hashed(req[t].blk)' = {}
    BY <1>1, <1>2
  <1>4. \A g, h \in Bufs : buf'[g].hashed /\ buf'[h].hashed /\ buf'[g].blk = buf'[h].blk => g = h
    BY DEF ChainShrinks, Chain
  <1>5. QED BY <1>3, <1>4 DEF Chain, Seeking

Queues == {"LOCKED", "LRU", "AGE"}

\* fl is the free lists without f.
FreeOf(fl, f) ==
    /\ fl \in [Queues -> Seq(Bufs)]
    /\ \A q \in Queues : IsInjective(fl[q]) /\ f \notin Range(fl[q])
    /\ \A p, q \in Queues : p # q => Range(fl[p]) \cap Range(fl[q]) = {}
    /\ \A g \in Bufs : g # f => (OnFree(g) <=> \E q \in Queues : g \in Range(fl[q]))

\* bl is the buffer lists, with f as it is with fields r.
ListsOf(bl, f, r) ==
    /\ bl \in [{"dirty", "clean"} -> Seq(Bufs)]
    /\ \A l \in {"dirty", "clean"} : IsInjective(bl[l])
    /\ f \in Range(bl.dirty) <=> Dirty(r)
    /\ \A g \in Bufs : g # f => (g \in Range(bl.dirty) <=> g \in Range(blist.dirty))

LEMMA OffFree ==
    ASSUME IInv, NEW f \in Bufs
    PROVE  FreeOf(OffFreeList(f), f)
  <1> DEFINE fl == OffFreeList(f)
  <1>1. bfreelist \in [Queues -> Seq(Bufs)] /\ FreeListsApart
    BY DEF IInv, TypeOK, Queues
  <1>2. \A q \in Queues : fl[q] = Without(bfreelist[q], f)
    BY <1>1 DEF OffFreeList
  <1>3. ASSUME NEW q \in Queues
        PROVE  /\ fl[q] \in Seq(Bufs) /\ IsInjective(fl[q])
               /\ Range(fl[q]) = Range(bfreelist[q]) \ {f}
    <2>1. bfreelist[q] \in Seq(Bufs) /\ IsInjective(bfreelist[q])
      BY <1>1 DEF FreeListsApart
    <2>2. QED BY <2>1, <1>2, WithoutFacts
  <1>4. fl \in [Queues -> Seq(Bufs)]
    BY <1>1, <1>3 DEF OffFreeList
  <1> HIDE DEF fl
  <1>5. \A p, q \in Queues : p # q => Range(fl[p]) \cap Range(fl[q]) = {}
    BY <1>1, <1>3 DEF FreeListsApart
  <1>6. \A g \in Bufs : OnFree(g) <=> \E q \in Queues : g \in Range(bfreelist[q])
    BY <1>1 DEF OnFree
  <1>7. \A g \in Bufs : g # f => (OnFree(g) <=> \E q \in Queues : g \in Range(fl[q]))
    BY <1>3, <1>6
  <1>8. FreeOf(fl, f)
    BY <1>3, <1>4, <1>5, <1>7 DEF FreeOf
  <1>9. QED BY <1>8 DEF fl

LEMMA NotFree ==
    ASSUME IInv, NEW f \in Bufs, ~OnFree(f)
    PROVE  FreeOf(bfreelist, f)
  <1>1. bfreelist \in [Queues -> Seq(Bufs)] /\ FreeListsApart
    BY DEF IInv, TypeOK, Queues
  <1>2. \A g \in Bufs : OnFree(g) <=> \E q \in Queues : g \in Range(bfreelist[q])
    BY <1>1 DEF OnFree
  <1>3. QED BY <1>1, <1>2 DEF FreeOf, FreeListsApart

LEMMA AsListed ==
    ASSUME IInv, NEW f \in Bufs
    PROVE  ListsOf(blist, f, buf[f])
  <1>1. TypeOK /\ ListedOnce /\ BufferFits(f)
    BY DEF IInv
  <1>2. QED BY <1>1 DEF ListsOf, TypeOK, ListedOnce, BufferFits

LEMMA OffListed ==
    ASSUME NEW bl, NEW f \in Bufs, NEW r, ListsOf(bl, f, r), NEW s, ~Dirty(s)
    PROVE  ListsOf(OffList(bl, f), f, s)
  <1> DEFINE ol == OffList(bl, f)
  <1>1. DOMAIN bl = {"dirty", "clean"} /\ \A l \in {"dirty", "clean"} : ol[l] = Without(bl[l], f)
    BY DEF ListsOf, OffList
  <1>2. ASSUME NEW l \in {"dirty", "clean"}
        PROVE  /\ ol[l] \in Seq(Bufs) /\ IsInjective(ol[l])
               /\ Range(ol[l]) = Range(bl[l]) \ {f}
    <2>1. bl[l] \in Seq(Bufs) /\ IsInjective(bl[l])
      BY DEF ListsOf
    <2>2. QED BY <2>1, <1>1, WithoutFacts
  <1>3. ol \in [{"dirty", "clean"} -> Seq(Bufs)]
    BY <1>1, <1>2 DEF OffList
  <1> HIDE DEF ol
  <1>4. ListsOf(ol, f, s)
    BY <1>2, <1>3 DEF ListsOf
  <1>5. QED BY <1>4 DEF ol

LEMMA OnListed ==
    ASSUME NEW bl, NEW f \in Bufs, NEW r, ListsOf(bl, f, r), NEW l \in {"dirty", "clean"},
           NEW s, Dirty(s) <=> l = "dirty"
    PROVE  ListsOf(OnList(bl, f, l), f, s)
  <1> DEFINE ol == OffList(bl, f)
             nl == OnList(bl, f, l)
  <1>1. DOMAIN bl = {"dirty", "clean"} /\ \A k \in {"dirty", "clean"} : ol[k] = Without(bl[k], f)
    BY DEF ListsOf, OffList
  <1>2. ASSUME NEW k \in {"dirty", "clean"}
        PROVE  /\ ol[k] \in Seq(Bufs) /\ IsInjective(ol[k])
               /\ Range(ol[k]) = Range(bl[k]) \ {f}
    <2>1. bl[k] \in Seq(Bufs) /\ IsInjective(bl[k])
      BY DEF ListsOf
    <2>2. QED BY <2>1, <1>1, WithoutFacts
  <1>3. ol \in [{"dirty", "clean"} -> Seq(Bufs)]
    BY <1>1, <1>2 DEF OffList
  <1>4. nl = [ol EXCEPT ![l] = <<f>> \o ol[l]]
    BY DEF OnList
  <1>5. /\ <<f>> \o ol[l] \in Seq(Bufs) /\ IsInjective(<<f>> \o ol[l])
        /\ Range(<<f>> \o ol[l]) = Range(bl[l]) \union {f}
    <2>1. ol[l] \in Seq(Bufs) /\ IsInjective(ol[l]) /\ f \notin Range(ol[l])
      BY <1>2
    <2> HIDE DEF ol
    <2>2. Range(<<f>> \o ol[l]) = Range(ol[l]) \union {f}
      BY <2>1, PushFacts
    <2>3. <<f>> \o ol[l] \in Seq(Bufs) /\ IsInjective(<<f>> \o ol[l])
      BY <2>1, PushFacts
    <2>4. QED BY <2>2, <2>3, <1>2
  <1> HIDE DEF ol, nl
  <1>6. /\ nl[l] = <<f>> \o ol[l] /\ \A k \in {"dirty", "clean"} : k # l => nl[k] = ol[k]
        /\ nl \in [{"dirty", "clean"} -> Seq(Bufs)]
    BY <1>3, <1>4, <1>5
  <1>7. \A k \in {"dirty", "clean"} : /\ IsInjective(nl[k])
                                      /\ k = l => Range(nl[k]) = Range(bl[k]) \union {f}
                                      /\ k # l => Range(nl[k]) = Range(bl[k]) \ {f}
    BY <1>2, <1>5, <1>6
  <1>8. CASE l = "dirty"
    <2>1. Range(nl.dirty) = Range(bl.dirty) \union {f}
      BY <1>7, <1>8
    <2>2. QED BY <1>6, <1>7, <1>8, <2>1 DEF ListsOf, nl
  <1>9. CASE l = "clean"
    <2>1. Range(nl.dirty) = Range(bl.dirty) \ {f}
      BY <1>7, <1>9
    <2>2. QED BY <1>6, <1>7, <1>9, <2>1 DEF ListsOf, nl
  <1>10. QED BY <1>8, <1>9

LEMMA TakenOff ==
    ASSUME NEW f \in Bufs, FreeOf(bfreelist', f)
    PROVE  /\ bfreelist' \in [Queues -> Seq(Bufs)] /\ FreeListsApart' /\ ~OnFree(f)'
           /\ \A g \in Bufs : g # f => (OnFree(g)' <=> OnFree(g))
  <1>1. DOMAIN bfreelist' = Queues
    BY DEF FreeOf
  <1>2. QED BY <1>1 DEF FreeOf, FreeListsApart, OnFree

LEMMA PutOn ==
    ASSUME NEW f \in Bufs, NEW fl, FreeOf(fl, f), NEW q \in Queues,
           NEW s \in Seq(Bufs), IsInjective(s), Range(s) = Range(fl[q]) \union {f},
           bfreelist' = [fl EXCEPT ![q] = s]
    PROVE  /\ bfreelist' \in [Queues -> Seq(Bufs)] /\ FreeListsApart' /\ OnFree(f)'
           /\ \A g \in Bufs : g # f => (OnFree(g)' <=> OnFree(g))
  <1>1. bfreelist' \in [Queues -> Seq(Bufs)] /\ DOMAIN bfreelist' = Queues
    BY DEF FreeOf
  <1>2. bfreelist'[q] = s /\ \A p \in Queues : p # q => bfreelist'[p] = fl[p]
    BY DEF FreeOf
  <1>3. FreeListsApart'
    <2>1. \A p \in Queues : IsInjective(bfreelist'[p])
      BY <1>2 DEF FreeOf
    <2>2. \A p, o \in Queues : p # o => Range(bfreelist'[p]) \cap Range(bfreelist'[o]) = {}
      <3>1. \A p \in Queues : p # q => Range(bfreelist'[p]) \cap Range(bfreelist'[q]) = {}
        BY <1>2 DEF FreeOf
      <3>2. \A p, o \in Queues : p # q /\ o # q /\ p # o =>
              Range(bfreelist'[p]) \cap Range(bfreelist'[o]) = {}
        BY <1>2 DEF FreeOf
      <3>3. QED BY <3>1, <3>2
    <2>3. QED BY <1>1, <2>1, <2>2 DEF FreeListsApart
  <1>4. OnFree(f)'
    BY <1>1, <1>2 DEF OnFree
  <1>5. ASSUME NEW g \in Bufs, g # f PROVE OnFree(g)' <=> OnFree(g)
    <2>1. OnFree(g) <=> \E p \in Queues : g \in Range(fl[p])
      BY <1>5 DEF FreeOf
    <2>2. \A p \in Queues : g \in Range(bfreelist'[p]) <=> g \in Range(fl[p])
      BY <1>2, <1>5
    <2>3. OnFree(g)' <=> \E p \in Queues : g \in Range(bfreelist'[p])
      BY <1>1 DEF OnFree
    <2>4. QED BY <2>1, <2>2, <2>3
  <1>6. QED BY <1>1, <1>3, <1>4, <1>5

LEMMA Listed ==
    ASSUME NEW f \in Bufs, NEW s, ListsOf(blist', f, s)
    PROVE  /\ blist' \in [{"dirty", "clean"} -> Seq(Bufs)] /\ ListedOnce'
           /\ Dirty(s) <=> f \in Range(blist'.dirty)
           /\ \A g \in Bufs : g # f =>
                (g \in Range(blist'.dirty) <=> g \in Range(blist.dirty))
  <1>1. DOMAIN blist' = {"dirty", "clean"}
    BY DEF ListsOf
  <1>2. QED BY <1>1 DEF ListsOf, ListedOnce

------------------------------------------------------------------------------
(* What the routines that release, write and read a buffer do *)

IInvButChain == TypeOK /\ AllFit /\ Counted /\ FreeListsApart /\ ListedOnce

\* The call of agent a may go to w.
CallAllows(a, w) ==
    /\ a \in Threads => /\ w \in Looking => req[a].op \in Getting
                        /\ w = "inval" => req[a].op = "inval"
    /\ a \in Interrupts => w = "idle"

Nexts == {"idle", "search", "flush", "inval"}

\* The fields that brelse leaves, but for the lock.
LeftBy(r) ==
    IF Discarded(r) THEN Emptied(r)
    ELSE [r EXCEPT !.flags = (IF Retried(r) THEN @ \union {"DELWRI"} ELSE @) \ {"ASYNC", "READ"}]

LEMMA LeftByBrelse ==
    ASSUME NEW r \in Buffers, Discarded(r) \/ Full(r)
    PROVE  /\ LeftBy(r) \in Buffers /\ Settled(LeftBy(r)) /\ LeftBy(r).owner = r.owner
           /\ "ASYNC" \notin LeftBy(r).flags
           /\ LeftBy(r).hashed => r.hashed /\ LeftBy(r).blk = r.blk
           /\ Discarded(r) => ~Dirty(LeftBy(r))
           /\ ~Discarded(r) => (Dirty(LeftBy(r)) <=> Retried(r) \/ Dirty(r))
  <1>1. CASE Discarded(r)
    <2>1. LeftBy(r) = Emptied(r)
      BY <1>1 DEF LeftBy
    <2>2. /\ Emptied(r) \in Buffers /\ Empty(Emptied(r)) /\ Emptied(r).owner = r.owner
          /\ Emptied(r).flags = {"INVAL"} /\ ~Emptied(r).hashed
      BY DEF Emptied, Buffers, Empty, Flags
    <2>3. QED BY <1>1, <2>1, <2>2 DEF Settled, Dirty
  <1>2. CASE ~Discarded(r)
    <2> DEFINE kept == IF Retried(r) THEN r.flags \union {"DELWRI"} ELSE r.flags
               s == [r EXCEPT !.flags = kept \ {"ASYNC", "READ"}]
    <2>1. LeftBy(r) = s
      BY <1>2 DEF LeftBy
    <2>2. Full(r)
      BY <1>2
    <2>3. kept \subseteq Flags /\ r.flags \subseteq Flags
      BY DEF Buffers, Flags
    <2>4. "INVAL" \in kept <=> "INVAL" \in r.flags
      OBVIOUS
    <2>5. "DELWRI" \in kept <=> Retried(r) \/ Dirty(r)
      BY DEF Dirty
    <2> HIDE DEF kept
    <2>6. /\ s \in Buffers /\ s.owner = r.owner /\ s.blk = r.blk /\ s.hashed = r.hashed
          /\ s.data = r.data /\ s.flags = kept \ {"ASYNC", "READ"}
      BY <2>3 DEF Buffers
    <2> HIDE DEF s
    <2>7. Full(s) /\ "ASYNC" \notin s.flags
      BY <2>2, <2>4, <2>6 DEF Full
    <2>8. Dirty(s) <=> Retried(r) \/ Dirty(r)
      BY <2>5, <2>6 DEF Dirty
    <2>9. QED BY <1>2, <2>1, <2>6, <2>7, <2>8 DEF Settled
  <1>3. QED BY <1>1, <1>2

LEMMA BrelseLists ==
    ASSUME NEW a, NEW f \in Bufs, NEW r \in Buffers, Discarded(r) \/ Full(r),
           NEW fl, FreeOf(fl, f), NEW bl, ListsOf(bl, f, r), NEW n, Brelse(a, f, r, fl, bl, n)
    PROVE  /\ buf' = [buf EXCEPT ![f] = LeftBy(r)]
           /\ ListsOf(blist', f, LeftBy(r))
           /\ bfreelist' \in [Queues -> Seq(Bufs)] /\ FreeListsApart' /\ OnFree(f)'
           /\ \A g \in Bufs : g # f => (OnFree(g)' <=> OnFree(g))
  <1>1. buf' = [buf EXCEPT ![f] = LeftBy(r)]
    BY DEF Brelse, LeftBy
  <1>2. ListsOf(blist', f, LeftBy(r))
    <2>1. CASE Discarded(r)
      <3>1. blist' = OffList(bl, f) /\ ~Dirty(LeftBy(r))
        BY <2>1, LeftByBrelse DEF Brelse
      <3>2. QED BY <3>1, OffListed
    <2>2. CASE ~Discarded(r) /\ Retried(r)
      <3>1. blist' = OnList(bl, f, "dirty") /\ Dirty(LeftBy(r))
        BY <2>2, LeftByBrelse DEF Brelse
      <3>2. QED BY <3>1, OnListed
    <2>3. CASE ~Discarded(r) /\ ~Retried(r)
      <3>1. blist' = bl /\ (Dirty(LeftBy(r)) <=> Dirty(r))
        BY <2>3, LeftByBrelse DEF Brelse
      <3>2. QED BY <3>1 DEF ListsOf
    <2>4. QED BY <2>1, <2>2, <2>3
  <1>3. PICK q \in Queues : bfreelist' = [fl EXCEPT ![q] = <<f>> \o @]
                            \/ bfreelist' = [fl EXCEPT ![q] = Append(@, f)]
    BY DEF Brelse, Queues
  <1>4. fl[q] \in Seq(Bufs) /\ IsInjective(fl[q]) /\ f \notin Range(fl[q])
    BY DEF FreeOf
  <1>5. CASE bfreelist' = [fl EXCEPT ![q] = <<f>> \o @]
    <2> DEFINE s == <<f>> \o fl[q]
    <2>1. s \in Seq(Bufs) /\ IsInjective(s) /\ Range(s) = Range(fl[q]) \union {f}
      BY <1>4, PushFacts
    <2>2. bfreelist' = [fl EXCEPT ![q] = s]
      BY <1>5
    <2> HIDE DEF s
    <2>3. QED BY <1>1, <1>2, <2>1, <2>2, PutOn
  <1>6. CASE bfreelist' = [fl EXCEPT ![q] = Append(@, f)]
    <2> DEFINE s == Append(fl[q], f)
    <2>1. s \in Seq(Bufs) /\ IsInjective(s) /\ Range(s) = Range(fl[q]) \union {f}
      BY <1>4, AppendFacts
    <2>2. bfreelist' = [fl EXCEPT ![q] = s]
      BY <1>6
    <2> HIDE DEF s
    <2>3. QED BY <1>1, <1>2, <2>1, <2>2, PutOn
  <1>7. QED BY <1>3, <1>5, <1>6

LEMMA BrelseMoves ==
    ASSUME IInv, NEW a \in Agents, NEW f, Takeable(a, f),
           NEW r \in Buffers, r.owner = a, Discarded(r) \/ Full(r),
           NEW fl, FreeOf(fl, f), NEW bl, ListsOf(bl, f, r),
           NEW n \in Nexts, CallAllows(a, n),
           Brelse(a, f, r, fl, bl, n), moved' \in [Threads -> BOOLEAN]
    PROVE  /\ IInvButChain' /\ OthersStay(a) /\ pc'[a] \in Releasing
           /\ \A g \in Bufs : g # f => buf'[g] = buf[g]
           /\ buf'[f].hashed => r.hashed /\ buf'[f].blk = r.blk
  <1> DEFINE s == LeftBy(r)
  <1>1. /\ s \in Buffers /\ Settled(s) /\ s.owner = a /\ "ASYNC" \notin s.flags
        /\ s.hashed => r.hashed /\ s.blk = r.blk
    BY LeftByBrelse
  <1>2. f \in Bufs /\ f \notin io /\ TypeOK /\ Counted
    BY DEF Takeable, IInv
  <1>3. /\ buf' = [buf EXCEPT ![f] = s] /\ ListsOf(blist', f, s)
        /\ bfreelist' \in [Queues -> Seq(Bufs)] /\ FreeListsApart' /\ OnFree(f)'
        /\ \A g \in Bufs : g # f => (OnFree(g)' <=> OnFree(g))
    BY <1>2, BrelseLists
  <1> HIDE DEF s
  <1>4. /\ blist' \in [{"dirty", "clean"} -> Seq(Bufs)] /\ ListedOnce'
        /\ Dirty(s) <=> f \in Range(blist'.dirty)
        /\ \A g \in Bufs : g # f => (g \in Range(blist'.dirty) <=> g \in Range(blist.dirty))
    BY <1>2, <1>3, Listed
  <1>5. /\ wantfree' = FALSE /\ numoutput' = numoutput /\ io' = io /\ disk' = disk
        /\ req' = req
        /\ pc' = [pc EXCEPT ![a] = IF wantfree THEN "unlock wake" ELSE "unlock"]
        /\ bp' = [bp EXCEPT ![a] = f] /\ next' = [next EXCEPT ![a] = n]
    BY DEF Brelse, GoesWith
  <1>6. /\ pc'[a] \in Releasing /\ bp'[a] = f /\ next'[a] = n
        /\ \A c \in Agents : c # a => pc'[c] = pc[c] /\ bp'[c] = bp[c] /\ next'[c] = next[c]
        /\ pc' \in [Agents -> Where]
    BY <1>2, <1>5 DEF TypeOK, Releasing, Where
  <1>7. buf'[f] = s /\ \A g \in Bufs : g # f => buf'[g] = buf[g]
    BY <1>2, <1>3 DEF TypeOK
  <1>8. TypeOK'
    <2>1. buf' \in [Bufs -> Buffers]
      BY <1>1, <1>2, <1>3 DEF TypeOK
    <2>2. bp' \in [Agents -> Bufs \union {NoBuf}] /\ next' \in [Agents -> Nexts]
      BY <1>2, <1>5 DEF TypeOK, Nexts
    <2>3. QED BY <1>2, <1>3, <1>4, <1>5, <1>6, <2>1, <2>2 DEF TypeOK, Queues, Nexts
  <1>9. Moves(a, f)
    <2>1. OthersStay(a)
      BY <1>5, <1>6 DEF OthersStay
    <2>2. RestStays(f)
      BY <1>3, <1>4, <1>5, <1>7 DEF RestStays
    <2>3. Keeps(a, f)
      <3>1. Contents(pc'[a], s, IF a \in Threads THEN req'[a] ELSE NoReq)
        BY <1>1, <1>6 DEF Contents, Releasing
      <3>2. Fits(a)'
        BY <1>6, <1>7, <3>1 DEF Fits
      <3>3. QED BY <1>1, <1>2, <1>5, <1>6, <1>7, <3>2 DEF Keeps, Releasing, Owning
    <2>4. CallFits(a)'
      BY <1>5, <1>6 DEF CallFits, CallAllows, Releasing, Looking, Owning
    <2>5. QED BY <1>2, <1>3, <1>4, <1>5, <1>6, <1>7, <2>1, <2>2, <2>3, <2>4 DEF Moves
  <1>10. AllFit'
    BY <1>9, MoveKeeps
  <1>11. Counted'
    <2>1. io' = io /\ \A g \in io : g \in Bufs /\ g # f
      BY <1>2, <1>5 DEF TypeOK
    <2>2. \A g \in io : buf'[g] = buf[g]
      BY <1>7, <2>1
    <2>3. Outstanding' = Outstanding
      BY <2>1, <2>2 DEF Outstanding
    <2>4. QED BY <1>2, <1>5, <2>3, CountSame
  <1>12. QED BY <1>1, <1>3, <1>4, <1>6, <1>7, <1>8, <1>9, <1>10, <1>11 DEF IInvButChain, Moves

\* The fields that bwrite leaves.
StartedBy(r) ==
    [r EXCEPT !.flags = @ \ {"READ", "ERROR", "DELWRI"}, !.posted = FALSE,
              !.owner = IF "ASYNC" \in r.flags THEN Driver ELSE @]

LEMMA StartWriteEffect ==
    ASSUME IInv, NEW f \in Bufs \ io, NEW r \in Buffers, ListsOf(blist, f, r), StartWrite(f, r),
           FreeOf(bfreelist', f)
    PROVE  LET s == StartedBy(r) IN
           /\ buf' = [buf EXCEPT ![f] = s] /\ buf' \in [Bufs -> Buffers]
           /\ buf'[f] = s /\ \A g \in Bufs : g # f => buf'[g] = buf[g]
           /\ s.hashed = r.hashed /\ s.blk = r.blk /\ s.data = r.data /\ ~s.posted
           /\ s.owner = IF "ASYNC" \in r.flags THEN Driver ELSE r.owner
           /\ "READ" \notin s.flags
           /\ "ASYNC" \in s.flags <=> "ASYNC" \in r.flags
           /\ "INVAL" \in s.flags <=> "INVAL" \in r.flags
           /\ blist' \in [{"dirty", "clean"} -> Seq(Bufs)] /\ ListedOnce'
           /\ Dirty(s) <=> f \in Range(blist'.dirty)
           /\ bfreelist' \in [Queues -> Seq(Bufs)] /\ FreeListsApart' /\ ~OnFree(f)'
           /\ RestStays(f) /\ f \in io' /\ io' \in SUBSET Bufs
           /\ numoutput' \in Nat /\ Counted'
           /\ wantfree' = wantfree /\ disk' = disk
  <1> DEFINE s == StartedBy(r)
  <1>1. /\ buf' = [buf EXCEPT ![f] = s] /\ io' = io \union {f} /\ numoutput' = numoutput + 1
        /\ blist' = IF Dirty(r) THEN OnList(blist, f, "clean") ELSE blist
        /\ wantfree' = wantfree /\ disk' = disk
    BY DEF StartWrite, StartedBy
  <1>2. /\ s \in Buffers /\ s.hashed = r.hashed /\ s.blk = r.blk /\ s.data = r.data /\ ~s.posted
        /\ s.owner = IF "ASYNC" \in r.flags THEN Driver ELSE r.owner
        /\ s.flags = r.flags \ {"READ", "ERROR", "DELWRI"}
    BY DEF StartedBy, Buffers
  <1>3. ~Dirty(s)
    BY <1>2 DEF Dirty
  <1> HIDE DEF s
  <1>4. TypeOK /\ Counted
    BY DEF IInv
  <1>5. /\ buf' \in [Bufs -> Buffers]
        /\ buf'[f] = s /\ \A g \in Bufs : g # f => buf'[g] = buf[g]
    BY <1>1, <1>2, <1>4 DEF TypeOK
  <1>6. ListsOf(blist', f, s)
    <2>1. CASE Dirty(r)
      <3>1. blist' = OnList(blist, f, "clean")
        BY <1>1, <2>1
      <3>2. QED BY <1>3, <3>1, OnListed
    <2>2. CASE ~Dirty(r)
      BY <1>1, <1>3, <2>2 DEF ListsOf
    <2>3. QED BY <2>1, <2>2
  <1>7. /\ blist' \in [{"dirty", "clean"} -> Seq(Bufs)] /\ ListedOnce'
        /\ Dirty(s) <=> f \in Range(blist'.dirty)
        /\ \A g \in Bufs : g # f => (g \in Range(blist'.dirty) <=> g \in Range(blist.dirty))
    BY <1>6, Listed
  <1>8. /\ bfreelist' \in [Queues -> Seq(Bufs)] /\ FreeListsApart' /\ ~OnFree(f)'
        /\ \A g \in Bufs : g # f => (OnFree(g)' <=> OnFree(g))
    BY TakenOff
  <1>9. RestStays(f)
    BY <1>1, <1>5, <1>7, <1>8 DEF RestStays
  <1>10. Outstanding' = Outstanding \union {f} /\ f \notin Outstanding
    BY <1>1, <1>2, <1>4, <1>5 DEF Outstanding, TypeOK
  <1>11. numoutput' \in Nat /\ Counted'
    BY <1>1, <1>4, <1>10, CountMore DEF TypeOK
  <1>12. f \in io' /\ io' \in SUBSET Bufs
    BY <1>1, <1>4 DEF TypeOK
  <1>13. /\ "READ" \notin s.flags
         /\ "ASYNC" \in s.flags <=> "ASYNC" \in r.flags
         /\ "INVAL" \in s.flags <=> "INVAL" \in r.flags
    BY <1>2
  <1>14. QED BY <1>1, <1>2, <1>5, <1>7, <1>8, <1>9, <1>11, <1>12, <1>13 DEF s

LEMMA BwriteMoves ==
    ASSUME IInv, NEW t \in Threads, NEW f, Takeable(t, f),
           NEW r \in Buffers, r.owner = t, "ASYNC" \notin r.flags,
           r.blk \in Blocks, r.hashed, r.data # Junk,
           FreeOf(bfreelist', f), ListsOf(blist, f, r),
           NEW n \in Nexts, CallAllows(t, n),
           Bwrite(t, f, r, n), moved' \in [Threads -> BOOLEAN]
    PROVE  /\ IInvButChain' /\ OthersStay(t) /\ pc'[t] = "writing"
           /\ \A g \in Bufs : g # f => buf'[g] = buf[g]
           /\ buf'[f].blk = r.blk
  <1> DEFINE s == StartedBy(r)
  <1>1. f \in Bufs \ io /\ TypeOK /\ t \in Agents /\ StartWrite(f, r)
    BY DEF Takeable, IInv, Bwrite, Agents
  <1>2. /\ buf' \in [Bufs -> Buffers]
        /\ buf'[f] = s /\ \A g \in Bufs : g # f => buf'[g] = buf[g]
        /\ s.hashed = r.hashed /\ s.blk = r.blk /\ s.data = r.data /\ ~s.posted
        /\ s.owner = IF "ASYNC" \in r.flags THEN Driver ELSE r.owner
        /\ "READ" \notin s.flags
        /\ "ASYNC" \in s.flags <=> "ASYNC" \in r.flags
        /\ blist' \in [{"dirty", "clean"} -> Seq(Bufs)] /\ ListedOnce'
        /\ Dirty(s) <=> f \in Range(blist'.dirty)
        /\ bfreelist' \in [Queues -> Seq(Bufs)] /\ FreeListsApart' /\ ~OnFree(f)'
        /\ RestStays(f) /\ f \in io' /\ io' \in SUBSET Bufs
        /\ numoutput' \in Nat /\ Counted'
        /\ wantfree' = wantfree /\ disk' = disk
    BY <1>1, StartWriteEffect, ZenonT(60)
  <1> HIDE DEF s
  <1>3. s.owner = t /\ "ASYNC" \notin s.flags /\ s.hashed /\ s.blk \in Blocks /\ s.data # Junk
    BY <1>2
  <1>4. /\ pc' = [pc EXCEPT ![t] = "writing"] /\ bp' = [bp EXCEPT ![t] = f]
        /\ next' = [next EXCEPT ![t] = n] /\ req' = req
    BY DEF Bwrite, GoesWith
  <1>5. /\ pc'[t] = "writing" /\ bp'[t] = f /\ next'[t] = n
        /\ \A c \in Agents : c # t => pc'[c] = pc[c] /\ bp'[c] = bp[c] /\ next'[c] = next[c]
    BY <1>1, <1>4 DEF TypeOK
  <1>6. TypeOK'
    <2>1. /\ pc' \in [Agents -> Where] /\ bp' \in [Agents -> Bufs \union {NoBuf}]
          /\ next' \in [Agents -> Nexts]
      BY <1>1, <1>4 DEF TypeOK, Nexts, Where
    <2>2. QED BY <1>1, <1>2, <1>4, <2>1 DEF TypeOK, Queues, Nexts
  <1>7. Moves(t, f)
    <2>1. OthersStay(t)
      BY <1>4, <1>5 DEF OthersStay
    <2>2. Keeps(t, f)
      <3>1. Contents(pc'[t], s, IF t \in Threads THEN req'[t] ELSE NoReq)
        <4>1. s.blk \in Blocks /\ s.hashed /\ "READ" \notin s.flags /\ s.data # Junk
          BY <1>2, <1>3
        <4>2. QED BY <1>5, <4>1 DEF Contents, Releasing
      <3>2. Fits(t)'
        BY <1>2, <1>5, <3>1 DEF Fits
      <3>3. QED BY <1>2, <1>3, <1>5, <3>2 DEF Keeps, Owning
    <2>3. CallFits(t)'
      BY <1>4, <1>5 DEF CallFits, CallAllows, Looking, Owning
    <2>4. QED BY <1>2, <1>5, <2>1, <2>2, <2>3 DEF Moves, Releasing
  <1>8. AllFit'
    BY <1>1, <1>7, MoveKeeps
  <1>9. QED BY <1>2, <1>5, <1>6, <1>7, <1>8 DEF IInvButChain, Moves

LEMMA BawriteMoves ==
    ASSUME IInv, NEW t \in Threads, NEW f, Takeable(t, f),
           NEW r \in Buffers, Full(r), FreeOf(bfreelist', f), ListsOf(blist, f, r),
           NEW w \in {"idle", "new", "flush", "inval"}, CallAllows(t, w),
           Bawrite(t, f, r, w), moved' \in [Threads -> BOOLEAN]
    PROVE  /\ IInvButChain' /\ OthersStay(t) /\ pc'[t] = w /\ (w # "idle" => req'[t] = req[t])
           /\ \A g \in Bufs : g # f => buf'[g] = buf[g]
           /\ buf'[f].hashed = r.hashed /\ buf'[f].blk = r.blk
  <1> DEFINE q == [r EXCEPT !.flags = @ \union {"ASYNC"}]
             s == StartedBy(q)
  <1>1. f \in Bufs \ io /\ TypeOK /\ t \in Agents /\ StartWrite(f, q)
    BY DEF Takeable, IInv, Bawrite, Agents
  <1>2. /\ q \in Buffers /\ q.hashed = r.hashed /\ q.blk = r.blk /\ q.data = r.data
        /\ q.flags = r.flags \union {"ASYNC"}
    BY DEF Buffers, Flags
  <1> HIDE DEF q
  <1>3. ListsOf(blist, f, q)
    BY <1>2 DEF ListsOf, Dirty
  <1>4. /\ buf' \in [Bufs -> Buffers]
        /\ buf'[f] = s /\ \A g \in Bufs : g # f => buf'[g] = buf[g]
        /\ s.hashed = q.hashed /\ s.blk = q.blk /\ s.data = q.data /\ ~s.posted
        /\ s.owner = IF "ASYNC" \in q.flags THEN Driver ELSE q.owner
        /\ "READ" \notin s.flags
        /\ "ASYNC" \in s.flags <=> "ASYNC" \in q.flags
        /\ "INVAL" \in s.flags <=> "INVAL" \in q.flags
        /\ blist' \in [{"dirty", "clean"} -> Seq(Bufs)] /\ ListedOnce'
        /\ Dirty(s) <=> f \in Range(blist'.dirty)
        /\ bfreelist' \in [Queues -> Seq(Bufs)] /\ FreeListsApart' /\ ~OnFree(f)'
        /\ RestStays(f) /\ f \in io' /\ io' \in SUBSET Bufs
        /\ numoutput' \in Nat /\ Counted'
        /\ wantfree' = wantfree /\ disk' = disk
    BY <1>1, <1>2, <1>3, StartWriteEffect
  <1> HIDE DEF s
  <1>5. s.owner = Driver /\ "ASYNC" \in s.flags /\ Transferred(s)
    BY <1>2, <1>4 DEF Transferred, Full
  <1>6. /\ pc' = [pc EXCEPT ![t] = w] /\ bp' = [bp EXCEPT ![t] = NoBuf]
        /\ next' = [next EXCEPT ![t] = "idle"]
        /\ req' = IF w = "idle" THEN [req EXCEPT ![t] = NoReq] ELSE req
    BY DEF Bawrite, Goes
  <1>7. /\ pc'[t] = w /\ bp'[t] = NoBuf /\ next'[t] = "idle"
        /\ \A c \in Agents : c # t => pc'[c] = pc[c] /\ bp'[c] = bp[c] /\ next'[c] = next[c]
        /\ \A c \in Threads : c # t => req'[c] = req[c]
        /\ w # "idle" => req'[t] = req[t]
    BY <1>1, <1>6 DEF TypeOK
  <1>8. TypeOK'
    <2>1. /\ pc' \in [Agents -> Where] /\ bp' \in [Agents -> Bufs \union {NoBuf}]
          /\ next' \in [Agents -> Nexts]
      BY <1>1, <1>6 DEF TypeOK, Nexts, Where
    <2>2. req' \in [Threads -> Requests]
      BY <1>1, <1>6 DEF TypeOK, Requests, NoReq
    <2>3. QED BY <1>1, <1>4, <2>1, <2>2 DEF TypeOK, Queues, Nexts
  <1>9. Moves(t, f)
    <2>1. OthersStay(t)
      BY <1>7 DEF OthersStay
    <2>2. Gives(t, f)
      BY <1>4, <1>5, <1>7 DEF Gives, Owning
    <2>3. CallFits(t)'
      <3>1. t \notin Interrupts
        OBVIOUS
      <3>2. QED BY <1>7, <3>1 DEF CallFits, CallAllows, Looking, Owning
    <2>4. QED BY <1>4, <1>7, <2>1, <2>2, <2>3 DEF Moves, Releasing
  <1>10. AllFit'
    BY <1>1, <1>9, MoveKeeps
  <1>11. QED BY <1>2, <1>4, <1>7, <1>8, <1>9, <1>10 DEF IInvButChain, Moves

LEMMA GettingABlock ==
    ASSUME NEW q \in Requests, q.op \in Getting
    PROVE  q.blk \in Blocks
  BY DEF Requests, Getting, NoReq

\* A thread goes to w with f.
LEMMA KeepMoves ==
    ASSUME IInv, NEW t \in Threads, NEW f, Takeable(t, f),
           NEW w \in {"insert", "reading", "hold"}, req[t].op \in Getting,
           buf' \in [Bufs -> Buffers], \A g \in Bufs : g # f => buf'[g] = buf[g],
           buf'[f].owner = t, "ASYNC" \notin buf'[f].flags, Contents(w, buf'[f], req[t]),
           w = "reading" => ~buf'[f].posted,
           FreeOf(bfreelist', f), ListsOf(blist', f, buf'[f]),
           io' = IF w = "reading" THEN io \union {f} ELSE io,
           GoesWith(t, f, w, "idle"), UNCHANGED <<wantfree, numoutput, disk>>,
           moved' \in [Threads -> BOOLEAN]
    PROVE  IInvButChain' /\ OthersStay(t) /\ pc'[t] = w
  <1>1. f \in Bufs \ io /\ TypeOK /\ Counted /\ t \in Agents
    BY DEF Takeable, IInv, Agents
  <1>2. /\ blist' \in [{"dirty", "clean"} -> Seq(Bufs)] /\ ListedOnce'
        /\ Dirty(buf'[f]) <=> f \in Range(blist'.dirty)
        /\ \A g \in Bufs : g # f => (g \in Range(blist'.dirty) <=> g \in Range(blist.dirty))
    BY <1>1, Listed
  <1>3. /\ bfreelist' \in [Queues -> Seq(Bufs)] /\ FreeListsApart' /\ ~OnFree(f)'
        /\ \A g \in Bufs : g # f => (OnFree(g)' <=> OnFree(g))
    BY <1>1, TakenOff
  <1>4. /\ buf' \in [Bufs -> Buffers] /\ io' \in SUBSET Bufs
        /\ \A g \in Bufs : g # f => buf'[g] = buf[g]
    BY <1>1 DEF TypeOK
  <1>5. /\ pc' = [pc EXCEPT ![t] = w] /\ bp' = [bp EXCEPT ![t] = f]
        /\ next' = [next EXCEPT ![t] = "idle"] /\ req' = req
    BY DEF GoesWith
  <1>6. /\ pc'[t] = w /\ bp'[t] = f /\ next'[t] = "idle"
        /\ \A c \in Agents : c # t => pc'[c] = pc[c] /\ bp'[c] = bp[c] /\ next'[c] = next[c]
    BY <1>1, <1>5 DEF TypeOK
  <1>7. TypeOK'
    <2>1. /\ pc' \in [Agents -> Where] /\ bp' \in [Agents -> Bufs \union {NoBuf}]
          /\ next' \in [Agents -> Nexts]
      BY <1>1, <1>5 DEF TypeOK, Nexts, Where
    <2>2. QED BY <1>1, <1>2, <1>3, <1>4, <1>5, <2>1 DEF TypeOK, Queues, Nexts
  <1>8. Moves(t, f)
    <2>1. OthersStay(t)
      BY <1>5, <1>6 DEF OthersStay
    <2>2. RestStays(f)
      BY <1>2, <1>3, <1>4 DEF RestStays
    <2>3. Keeps(t, f)
      <3>1. Fits(t)'
        <4>1. Contents(pc'[t], buf'[bp'[t]], IF t \in Threads THEN req'[t] ELSE NoReq)
          BY <1>4, <1>5, <1>6
        <4>2. QED BY <4>1 DEF Fits
      <3>2. QED BY <1>1, <1>4, <1>6, <3>1 DEF Keeps, Owning
    <2>4. CallFits(t)'
      <3>1. t \notin Interrupts
        OBVIOUS
      <3>2. QED BY <1>5, <1>6, <3>1 DEF CallFits, Looking, Owning
    <2>5. f \in io' => ~buf'[f].posted
      BY <1>1, <1>4
    <2>6. QED BY <1>2, <1>3, <1>4, <1>6, <2>1, <2>2, <2>3, <2>4, <2>5 DEF Moves, Releasing
  <1>9. AllFit'
    BY <1>1, <1>8, MoveKeeps
  <1>10. Counted'
    <2>1. w = "reading" => "READ" \in buf'[f].flags
      BY DEF Contents, Releasing
    <2>2. Outstanding' = Outstanding
      BY <1>1, <1>4, <2>1 DEF Outstanding, TypeOK
    <2>3. QED BY <1>1, <2>2, CountSame
  <1>11. QED BY <1>2, <1>3, <1>4, <1>6, <1>7, <1>8, <1>9, <1>10 DEF IInvButChain, Moves

\* A thread starts to read ahead into f.
LEMMA AheadMoves ==
    ASSUME IInv, NEW t \in Threads, NEW f, Takeable(t, f),
           buf' \in [Bufs -> Buffers], \A g \in Bufs : g # f => buf'[g] = buf[g],
           buf'[f].owner = Driver, "ASYNC" \in buf'[f].flags, "READ" \in buf'[f].flags,
           Transferred(buf'[f]), ~buf'[f].posted,
           FreeOf(bfreelist', f), ListsOf(blist', f, buf'[f]),
           io' = io \union {f}, Goes(t, "idle"), UNCHANGED <<wantfree, numoutput, disk>>,
           moved' \in [Threads -> BOOLEAN]
    PROVE  IInvButChain' /\ OthersStay(t) /\ pc'[t] = "idle"
  <1>1. f \in Bufs \ io /\ TypeOK /\ Counted /\ t \in Agents /\ t \notin Interrupts
    BY DEF Takeable, IInv, Agents
  <1>2. /\ blist' \in [{"dirty", "clean"} -> Seq(Bufs)] /\ ListedOnce'
        /\ Dirty(buf'[f]) <=> f \in Range(blist'.dirty)
        /\ \A g \in Bufs : g # f => (g \in Range(blist'.dirty) <=> g \in Range(blist.dirty))
    BY <1>1, Listed
  <1>3. /\ bfreelist' \in [Queues -> Seq(Bufs)] /\ FreeListsApart' /\ ~OnFree(f)'
        /\ \A g \in Bufs : g # f => (OnFree(g)' <=> OnFree(g))
    BY <1>1, TakenOff
  <1>4. /\ buf' \in [Bufs -> Buffers] /\ io' \in SUBSET Bufs /\ f \in io'
        /\ \A g \in Bufs : g # f => buf'[g] = buf[g]
    BY <1>1 DEF TypeOK
  <1>5. /\ pc' = [pc EXCEPT ![t] = "idle"] /\ bp' = [bp EXCEPT ![t] = NoBuf]
        /\ next' = [next EXCEPT ![t] = "idle"] /\ req' = [req EXCEPT ![t] = NoReq]
    BY DEF Goes
  <1>6. /\ pc'[t] = "idle" /\ next'[t] = "idle"
        /\ \A c \in Agents : c # t => pc'[c] = pc[c] /\ bp'[c] = bp[c] /\ next'[c] = next[c]
        /\ \A c \in Threads : c # t => req'[c] = req[c]
    BY <1>1, <1>5 DEF TypeOK
  <1>7. TypeOK'
    <2>1. /\ pc' \in [Agents -> Where] /\ bp' \in [Agents -> Bufs \union {NoBuf}]
          /\ next' \in [Agents -> Nexts]
      BY <1>1, <1>5 DEF TypeOK, Nexts, Where
    <2>2. req' \in [Threads -> Requests]
      BY <1>1, <1>5 DEF TypeOK, Requests, NoReq
    <2>3. QED BY <1>1, <1>2, <1>3, <1>4, <2>1, <2>2 DEF TypeOK, Queues, Nexts
  <1>8. Moves(t, f)
    <2>1. OthersStay(t)
      BY <1>6 DEF OthersStay
    <2>2. RestStays(f)
      BY <1>2, <1>3, <1>4 DEF RestStays
    <2>3. Gives(t, f)
      BY <1>4, <1>6 DEF Gives, Owning
    <2>4. CallFits(t)'
      BY <1>1, <1>6 DEF CallFits, Looking, Owning
    <2>5. QED BY <1>2, <1>3, <1>4, <1>6, <2>1, <2>2, <2>3, <2>4 DEF Moves, Releasing
  <1>9. AllFit'
    BY <1>1, <1>8, MoveKeeps
  <1>10. Counted'
    <2>1. Outstanding' = Outstanding
      BY <1>1, <1>4 DEF Outstanding, TypeOK
    <2>2. QED BY <1>1, <2>1, CountSame
  <1>11. QED BY <1>2, <1>3, <1>4, <1>6, <1>7, <1>8, <1>9, <1>10 DEF IInvButChain, Moves

LEMMA HaveMoves ==
    ASSUME IInv, NEW t \in Threads, NEW f, Takeable(t, f), req[t].op \in Getting,
           NEW r \in Buffers, r.owner = t, {"ASYNC", "INVAL"} \cap r.flags = {},
           r.blk = req[t].blk, r.hashed, r.posted => r.data # Junk,
           NEW fl, FreeOf(fl, f), ListsOf(blist, f, r),
           Have(t, f, r, fl), moved' \in [Threads -> BOOLEAN]
    PROVE  /\ IInvButChain' /\ OthersStay(t) /\ pc'[t] \notin Seeking
           /\ \A g \in Bufs : g # f => buf'[g] = buf[g]
           /\ buf'[f].hashed => buf'[f].blk = r.blk
  <1>1. /\ t \in Agents /\ r.blk \in Blocks /\ req[t].op \in {"read", "get", "ahead"}
        /\ f \in Bufs /\ buf \in [Bufs -> Buffers]
    BY GettingABlock DEF IInv, TypeOK, Agents, Getting, Takeable
  <1>2. CASE req[t].op = "get" \/ (req[t].op = "read" /\ r.posted)
    <2>1. /\ buf' = [buf EXCEPT ![f] = r] /\ bfreelist' = fl /\ GoesWith(t, f, "hold", "idle")
          /\ UNCHANGED <<wantfree, blist, numoutput, io, disk>>
      BY <1>2 DEF Have
    <2>2. /\ buf' \in [Bufs -> Buffers] /\ \A g \in Bufs : g # f => buf'[g] = buf[g]
          /\ buf'[f] = r
      BY <1>1, <2>1
    <2>3. Contents("hold", r, req[t]) /\ "ASYNC" \notin r.flags
      BY <1>2 DEF Contents, Releasing
    <2>4. /\ io' = IF "hold" = "reading" THEN io \union {f} ELSE io
          /\ FreeOf(bfreelist', f) /\ ListsOf(blist', f, buf'[f])
          /\ UNCHANGED <<wantfree, numoutput, disk>>
      BY <2>1, <2>2
    <2>5. IInvButChain' /\ OthersStay(t) /\ pc'[t] = "hold"
      BY <2>1, <2>2, <2>3, <2>4, KeepMoves
    <2>6. QED BY <2>2, <2>5 DEF Seeking
  <1>3. CASE req[t].op = "read" /\ ~r.posted
    <2> DEFINE s == [r EXCEPT !.flags = @ \union {"READ"}, !.owner = t]
    <2>1. /\ buf' = [buf EXCEPT ![f] = s] /\ bfreelist' = fl /\ GoesWith(t, f, "reading", "idle")
          /\ io' = io \union {f} /\ UNCHANGED <<wantfree, blist, numoutput, disk>>
      BY <1>3 DEF Have
    <2>2. /\ s \in Buffers /\ s.owner = t /\ s.flags = r.flags \union {"READ"} /\ s.blk = r.blk
          /\ s.hashed = r.hashed /\ s.posted = r.posted /\ s.data = r.data
      BY <1>1 DEF Buffers, Flags
    <2> HIDE DEF s
    <2>3. /\ buf' \in [Bufs -> Buffers] /\ \A g \in Bufs : g # f => buf'[g] = buf[g]
          /\ buf'[f] = s
      BY <1>1, <2>1, <2>2
    <2>4. Contents("reading", s, req[t]) /\ "ASYNC" \notin s.flags /\ ~s.posted
      BY <1>3, <2>2 DEF Contents, Releasing
    <2>5. ListsOf(blist', f, s)
      BY <2>1, <2>2 DEF ListsOf, Dirty
    <2>6. /\ io' = IF "reading" = "reading" THEN io \union {f} ELSE io
          /\ FreeOf(bfreelist', f) /\ UNCHANGED <<wantfree, numoutput, disk>>
      BY <2>1
    <2>7. IInvButChain' /\ OthersStay(t) /\ pc'[t] = "reading"
      BY <2>1, <2>2, <2>3, <2>4, <2>5, <2>6, KeepMoves
    <2>8. QED BY <2>2, <2>3, <2>7 DEF Seeking
  <1>4. CASE req[t].op = "ahead" /\ r.posted
    <2>1. Brelse(t, f, r, fl, blist, "idle")
      BY <1>4 DEF Have
    <2>2. Full(r) /\ CallAllows(t, "idle") /\ "idle" \in Nexts
      BY <1>1, <1>4 DEF Full, CallAllows, Looking, Nexts
    <2>3. /\ IInvButChain' /\ OthersStay(t) /\ pc'[t] \in Releasing
          /\ \A g \in Bufs : g # f => buf'[g] = buf[g]
          /\ buf'[f].hashed => r.hashed /\ buf'[f].blk = r.blk
      BY <1>1, <2>1, <2>2, BrelseMoves
    <2>4. QED BY <2>3 DEF Releasing, Seeking
  <1>5. CASE req[t].op = "ahead" /\ ~r.posted
    <2> DEFINE s == [r EXCEPT !.flags = @ \union {"READ", "ASYNC"}, !.owner = Driver]
    <2>1. /\ buf' = [buf EXCEPT ![f] = s] /\ bfreelist' = fl /\ Goes(t, "idle")
          /\ io' = io \union {f} /\ UNCHANGED <<wantfree, blist, numoutput, disk>>
      BY <1>5 DEF Have
    <2>2. /\ s \in Buffers /\ s.owner = Driver /\ s.flags = r.flags \union {"READ", "ASYNC"}
          /\ s.blk = r.blk /\ s.hashed = r.hashed /\ s.posted = r.posted /\ s.data = r.data
      BY <1>1 DEF Buffers, Flags
    <2> HIDE DEF s
    <2>3. /\ buf' \in [Bufs -> Buffers] /\ \A g \in Bufs : g # f => buf'[g] = buf[g]
          /\ buf'[f] = s
      BY <1>1, <2>1, <2>2
    <2>4. Transferred(s) /\ ~s.posted /\ "ASYNC" \in s.flags /\ "READ" \in s.flags
      BY <1>1, <1>5, <2>2 DEF Transferred
    <2>5. ListsOf(blist', f, s)
      BY <2>1, <2>2 DEF ListsOf, Dirty
    <2>6. FreeOf(bfreelist', f) /\ UNCHANGED <<wantfree, numoutput, disk>>
      BY <2>1
    <2>7. IInvButChain' /\ OthersStay(t) /\ pc'[t] = "idle"
      BY <2>1, <2>2, <2>3, <2>4, <2>5, <2>6, AheadMoves
    <2>8. QED BY <2>2, <2>3, <2>7 DEF Seeking
  <1>6. QED BY <1>1, <1>2, <1>3, <1>4, <1>5

LEMMA ChainAfter ==
    ASSUME IInv, NEW a \in Agents, OthersStay(a), ChainShrinks,
           a \in Threads => Sought(a),
           \A t \in Threads : t # a /\ ~moved'[t] => ~moved[t]
    PROVE  Chain'
  <1>1. \A t \in Threads : Sought(t)
    BY DEF OthersStay, Sought, Agents
  <1>2. QED BY <1>1, ChainKept DEF IInv

LEMMA WithChain ==
    ASSUME IInvButChain', Chain'
    PROVE  IInv'
  BY DEF IInv, IInvButChain, AllFit

\* A step of a that moves buffer f, and does not put it on the chain.
LEMMA MoveStep ==
    ASSUME IInv, NEW a \in Agents, OthersStay(a), IInvButChain',
           NEW f \in Bufs, \A g \in Bufs : g # f => buf'[g] = buf[g],
           buf'[f].hashed => buf[f].hashed /\ buf'[f].blk = buf[f].blk,
           a \in Threads => Sought(a),
           \A t \in Threads : t # a /\ ~moved'[t] => ~moved[t]
    PROVE  IInv'
  <1>1. ChainShrinks
    BY DEF ChainShrinks
  <1>2. QED BY <1>1, ChainAfter, WithChain

LEMMA WalkStep ==
    ASSUME IInv, NEW a \in Agents, Walks(a), TypeOK', numoutput' = numoutput,
           a \in Threads => Sought(a),
           \A t \in Threads : t # a /\ ~moved'[t] => ~moved[t]
    PROVE  IInv'
  <1>1. AllFit'
    BY WalkKeeps
  <1>2. TypeOK /\ Counted /\ \A f \in Bufs : Cleared(f)
    BY DEF IInv, Walks
  <1>3. ChainShrinks
    BY <1>2, ClearedSame DEF ChainShrinks
  <1>4. Counted'
    <2>1. \A f \in Bufs : "READ" \in buf'[f].flags <=> "READ" \in buf[f].flags
      BY <1>2, ClearedSame
    <2>2. Outstanding' = Outstanding
      BY <1>2, <2>1 DEF Outstanding, Walks, TypeOK
    <2>3. QED BY <1>2, <2>2, CountSame
  <1>5. FreeListsApart' /\ ListedOnce'
    BY DEF IInv, Walks, FreeListsApart, ListedOnce
  <1>6. Chain'
    BY <1>3, ChainAfter DEF Walks
  <1>7. QED BY <1>1, <1>4, <1>5, <1>6, WithChain DEF IInvButChain

------------------------------------------------------------------------------
(* Each action preserves the invariant *)

LEMMA LookUpStep ==
    ASSUME IInv, NEW t \in Threads, pc[t] \in {"idle", "search"},
           NEW r \in Requests, r.op \in Getting, LookUp(t, r)
    PROVE  IInv'
  <1>1. TypeOK /\ t \in Agents /\ t \notin Interrupts
    BY DEF IInv, Agents
  <1>2. /\ req' = [req EXCEPT ![t] = r] /\ UNCHANGED cache /\ next' = next
        /\ \/ /\ pc' = [pc EXCEPT ![t] = "lock"] /\ moved' = moved
              /\ \E f \in Bufs : bp' = [bp EXCEPT ![t] = f]
           \/ /\ pc' = [pc EXCEPT ![t] = "new"] /\ bp' = bp
              /\ moved' = [moved EXCEPT ![t] = FALSE] /\ Hashed(r.blk) = {}
    BY DEF LookUp, Hashed
  <1>3. TypeOK'
    <2>1. req' \in [Threads -> Requests] /\ pc' \in [Agents -> Where]
      BY <1>1, <1>2 DEF TypeOK, Where
    <2>2. bp' \in [Agents -> Bufs \union {NoBuf}] /\ moved' \in [Threads -> BOOLEAN]
      BY <1>1, <1>2 DEF TypeOK
    <2>3. QED BY <1>1, <1>2, <2>1, <2>2 DEF TypeOK, cache
  <1>4. Walks(t)
    <2>1. OthersStay(t)
      BY <1>1, <1>2 DEF OthersStay, TypeOK
    <2>2. \A f \in Bufs : Cleared(f)
      BY <1>2 DEF Cleared, cache
    <2>3. CallFits(t)'
      <3>1. next[t] = "idle"
        BY <1>1 DEF IInv, CallFits, Owning
      <3>2. req'[t] = r /\ pc'[t] \in {"lock", "new"} /\ (pc'[t] = "lock" => bp'[t] \in Bufs)
        BY <1>1, <1>2 DEF TypeOK
      <3>3. QED BY <1>1, <1>2, <3>1, <3>2 DEF CallFits
    <2>4. pc'[t] \in {"lock", "new"}
      BY <1>1, <1>2 DEF TypeOK
    <2>5. QED BY <1>2, <2>1, <2>2, <2>3, <2>4 DEF Walks, cache, Owning
  <1>5. Sought(t)
    BY <1>1, <1>2 DEF Sought, Seeking, TypeOK
  <1>6. \A u \in Threads : u # t /\ ~moved'[u] => ~moved[u]
    BY <1>1, <1>2 DEF TypeOK
  <1>7. QED BY <1>1, <1>2, <1>3, <1>4, <1>5, <1>6, WalkStep DEF cache

\* A thread goes on without a buffer, in the same call or out of it.
LEMMA GoStep ==
    ASSUME IInv, NEW t \in Threads, pc[t] \notin Owning,
           NEW w \in {"idle", "search", "drain", "drained", "inval"}, CallAllows(t, w),
           Goes(t, w), UNCHANGED <<cache, moved>>
    PROVE  IInv'
  <1>1. TypeOK /\ t \in Agents /\ t \notin Interrupts /\ pc[t] # "done"
    BY DEF IInv, Agents, CallFits
  <1>2. /\ req' \in [Threads -> Requests] /\ pc'[t] = w /\ next'[t] = "idle"
        /\ w # "idle" => req'[t] = req[t]
        /\ \A c \in Agents : c # t => pc'[c] = pc[c] /\ bp'[c] = bp[c] /\ next'[c] = next[c]
        /\ \A c \in Threads : c # t => req'[c] = req[c]
    BY <1>1 DEF Goes, TypeOK, Requests, NoReq
  <1>3. TypeOK'
    <2>1. /\ pc' \in [Agents -> Where] /\ bp' \in [Agents -> Bufs \union {NoBuf}]
          /\ next' \in [Agents -> Nexts]
      BY <1>1 DEF Goes, TypeOK, Where, Nexts
    <2>2. QED BY <1>1, <1>2, <2>1 DEF TypeOK, cache, Nexts
  <1>4. Walks(t)
    <2>1. OthersStay(t)
      BY <1>2 DEF OthersStay
    <2>2. \A f \in Bufs : Cleared(f)
      BY DEF Cleared, cache
    <2>3. CallFits(t)'
      BY <1>1, <1>2 DEF CallFits, CallAllows, Looking, Owning
    <2>4. QED BY <1>1, <1>2, <2>1, <2>2, <2>3 DEF Walks, cache, Owning
  <1>5. Sought(t)
    BY <1>2 DEF Sought, Seeking
  <1>6. QED BY <1>1, <1>3, <1>4, <1>5, WalkStep DEF cache


\* What t finds when it locks a buffer that nobody has.
LEMMA Lockable ==
    ASSUME IInv, NEW t \in Threads, NEW f \in Bufs, Unlocked(f), pc[t] \notin Owning
    PROVE  /\ Takeable(t, f) /\ Settled(buf[f]) /\ "ASYNC" \notin buf[f].flags
           /\ buf[f] \in Buffers
  <1>1. BufferFits(f) /\ TypeOK /\ CallFits(t)
    BY DEF IInv, Agents
  <1>2. Nobody # Driver /\ \A a \in Agents : a # Nobody
    BY DEF Agents
  <1>3. f \notin io
    BY <1>1, <1>2 DEF BufferFits, Unlocked
  <1>4. QED BY <1>1, <1>2, <1>3 DEF BufferFits, Unlocked, Takeable, CallFits, TypeOK

\* What the owner of a buffer that is in no transfer knows of it.
LEMMA Held ==
    ASSUME IInv, NEW t \in Threads, pc[t] \in Using, bp[t] \notin io
    PROVE  /\ Takeable(t, bp[t]) /\ buf[bp[t]] \in Buffers /\ buf[bp[t]].owner = t
           /\ "ASYNC" \notin buf[bp[t]].flags
           /\ FreeOf(bfreelist, bp[t]) /\ ListsOf(blist, bp[t], buf[bp[t]])
           /\ Contents(pc[t], buf[bp[t]], req[t])
  <1>1. TypeOK /\ Has(t) /\ Fits(t) /\ t \in Agents /\ pc[t] \in Owning
    BY DEF IInv, Agents, Using, Owning
  <1>2. bp[t] \in Bufs /\ buf[bp[t]].owner = t /\ BufferFits(bp[t])
    BY <1>1 DEF IInv, Has
  <1>3. t # Driver /\ t # Nobody
    OBVIOUS
  <1>4. ~OnFree(bp[t])
    <2>1. \A a \in Agents : Releases(a, bp[t]) => a = t
      <3> SUFFICES ASSUME NEW a \in Agents, Releases(a, bp[t]) PROVE a = t
        OBVIOUS
      <3>1. Has(a) /\ pc[a] \in Owning /\ bp[a] = bp[t]
        BY DEF IInv, Releases, Releasing, Owning
      <3>2. QED BY <1>2, <3>1 DEF Has
    <2>2. ~Releases(t, bp[t])
      BY DEF Releases, Releasing, Using
    <2>3. QED BY <1>2, <1>3, <2>1, <2>2 DEF BufferFits
  <1>5. FreeOf(bfreelist, bp[t]) /\ ListsOf(blist, bp[t], buf[bp[t]])
    BY <1>2, <1>4, NotFree, AsListed
  <1>6. Contents(pc[t], buf[bp[t]], req[t])
    BY <1>1 DEF Fits
  <1>7. "ASYNC" \notin buf[bp[t]].flags /\ Takeable(t, bp[t])
    BY <1>2, <1>3 DEF BufferFits, Takeable
  <1>8. QED BY <1>1, <1>2, <1>5, <1>6, <1>7 DEF TypeOK

LEMMA LockedFields ==
    ASSUME IInv, NEW t \in Threads, bp[t] \in Bufs
    PROVE  LET r == Locked(t)
               o == buf[bp[t]] IN
           /\ r \in Buffers /\ r.owner = t /\ r.blk = o.blk /\ r.hashed = o.hashed
           /\ r.flags = o.flags /\ r.posted = o.posted /\ r.data = o.data
           /\ ListsOf(blist, bp[t], r)
  <1>1. buf[bp[t]] \in Buffers
    BY DEF IInv, TypeOK
  <1>2. ListsOf(blist, bp[t], buf[bp[t]])
    BY AsListed
  <1> DEFINE r == Locked(t)
  <1>3. r = [buf[bp[t]] EXCEPT !.owner = t]
    BY DEF Locked
  <1>4. r \in Buffers /\ r.owner = t /\ r.blk = buf[bp[t]].blk /\ r.hashed = buf[bp[t]].hashed
        /\ r.flags = buf[bp[t]].flags /\ r.posted = buf[bp[t]].posted /\ r.data = buf[bp[t]].data
    BY <1>1, <1>3 DEF Buffers, Agents
  <1> HIDE DEF r
  <1>5. ListsOf(blist, bp[t], r)
    BY <1>2, <1>4 DEF ListsOf, Dirty
  <1>6. QED BY <1>4, <1>5 DEF r

LEMMA StartStep ==
    ASSUME IInv, NEW t \in Threads, NEW op \in {"read", "get", "ahead"}, NEW b \in Blocks,
           Start(t, op, b)
    PROVE  IInv'
  <1> DEFINE r == [op |-> op, blk |-> b]
  <1>1. r \in Requests /\ r.op \in Getting
    BY DEF Requests, Getting
  <1>2. pc[t] = "idle" /\ LookUp(t, r)
    BY DEF Start
  <1> HIDE DEF r
  <1>3. QED BY <1>1, <1>2, LookUpStep

LEMMA SearchStep ==
    ASSUME IInv, NEW t \in Threads, Search(t)
    PROVE  IInv'
  <1>1. pc[t] = "search" /\ LookUp(t, req[t])
    BY DEF Search
  <1>2. req[t] \in Requests /\ req[t].op \in Getting
    BY <1>1 DEF IInv, TypeOK, CallFits, Agents, Looking
  <1>3. QED BY <1>1, <1>2, LookUpStep

LEMMA SearchAgainStep ==
    ASSUME IInv, NEW t \in Threads, SearchAgain(t)
    PROVE  IInv'
  <1> DEFINE f == bp[t]
  <1>1. /\ pc[t] = "lock" /\ Unlocked(f) /\ Goes(t, "search")
        /\ buf[f].blk # req[t].blk \/ "INVAL" \in buf[f].flags
        /\ buf' = [buf EXCEPT ![f].hashed = @ /\ buf[f].blk # req[t].blk]
        /\ UNCHANGED <<bfreelist, wantfree, blist, numoutput, io, disk, moved>>
    BY DEF SearchAgain, Locks
  <1>2. /\ f \in Bufs /\ req[t].op \in Getting /\ CallAllows(t, "search") /\ pc[t] \notin Owning
    BY <1>1 DEF IInv, CallFits, Agents, Looking, CallAllows, Owning
  <1>3. Settled(buf[f]) /\ buf[f] \in Buffers /\ buf \in [Bufs -> Buffers]
    BY <1>1, <1>2, Lockable DEF IInv, TypeOK
  <1>4. buf[f].hashed \in BOOLEAN
    BY <1>3 DEF Buffers
  <1>5. (buf[f].hashed /\ buf[f].blk # req[t].blk) = buf[f].hashed
    <2>1. buf[f].hashed => buf[f].blk # req[t].blk
      BY <1>1, <1>3 DEF Settled, Empty, Full
    <2>2. QED BY <1>4, <2>1
  <1>6. buf' = buf
    <2>1. buf' = [buf EXCEPT ![f] = [buf[f] EXCEPT !.hashed = buf[f].hashed]]
      BY <1>1, <1>5
    <2>2. [buf[f] EXCEPT !.hashed = buf[f].hashed] = buf[f]
      BY <1>3 DEF Buffers
    <2>3. QED BY <1>3, <2>1, <2>2
  <1>7. UNCHANGED <<cache, moved>>
    BY <1>1, <1>6 DEF cache
  <1>8. QED BY <1>1, <1>2, <1>7, GoStep

LEMMA GetnewbufSleepsStep ==
    ASSUME IInv, NEW t \in Threads, GetnewbufSleeps(t)
    PROVE  IInv'
  <1>1. TypeOK /\ CallFits(t) /\ t \in Agents /\ t \notin Interrupts /\ pc[t] = "new"
    BY DEF IInv, Agents, GetnewbufSleeps
  <1>2. /\ pc' = [pc EXCEPT ![t] = "asleep"] /\ wantfree' = TRUE
        /\ UNCHANGED <<buf, bfreelist, blist, numoutput, io, disk, req, bp, moved, next>>
    BY DEF GetnewbufSleeps
  <1>3. pc'[t] = "asleep" /\ \A c \in Agents : c # t => pc'[c] = pc[c]
    BY <1>1, <1>2 DEF TypeOK
  <1>4. TypeOK'
    <2>1. pc' \in [Agents -> Where] /\ wantfree' \in BOOLEAN
      BY <1>1, <1>2 DEF TypeOK, Where
    <2>2. QED BY <1>1, <1>2, <2>1 DEF TypeOK
  <1>5. Walks(t)
    <2>1. OthersStay(t)
      BY <1>2, <1>3 DEF OthersStay
    <2>2. \A f \in Bufs : Cleared(f)
      BY <1>2 DEF Cleared
    <2>3. CallFits(t)'
      BY <1>1, <1>2, <1>3 DEF CallFits, Looking, Owning
    <2>4. QED BY <1>1, <1>2, <1>3, <2>1, <2>2, <2>3 DEF Walks, Owning
  <1>6. Sought(t)
    BY <1>1, <1>2 DEF Sought, Seeking
  <1>7. QED BY <1>1, <1>2, <1>4, <1>5, <1>6, WalkStep

\* A call of vflushbuf or vinvalbuf starts.
LEMMA ClearStep ==
    ASSUME IInv, NEW t \in Threads, pc[t] = "idle", ClearErrors,
           NEW w \in {"flush", "inval"}, NEW r \in Requests, w = "inval" => r.op = "inval",
           pc' = [pc EXCEPT ![t] = w], req' = [req EXCEPT ![t] = r],
           UNCHANGED <<bfreelist, wantfree, blist, numoutput, io, disk, bp, moved, next>>
    PROVE  IInv'
  <1>1. TypeOK /\ CallFits(t) /\ t \in Agents /\ t \notin Interrupts
    BY DEF IInv, Agents
  <1>2. /\ pc'[t] = w /\ \A c \in Agents : c # t => pc'[c] = pc[c]
        /\ req'[t] = r /\ \A c \in Threads : c # t => req'[c] = req[c]
    BY <1>1 DEF TypeOK
  <1>3. \A f \in Bufs : Cleared(f)
    BY DEF ClearErrors, Cleared, Unlocked
  <1>4. TypeOK'
    <2>1. pc' \in [Agents -> Where] /\ req' \in [Threads -> Requests]
      BY <1>1 DEF TypeOK, Where
    <2>2. buf' \in [Bufs -> Buffers]
      <3>1. \A f \in Bufs : buf'[f] \in Buffers
        BY <1>1, <1>3, ClearedSame
      <3>2. QED BY <3>1 DEF ClearErrors
    <2>3. QED BY <1>1, <2>1, <2>2 DEF TypeOK
  <1>5. Walks(t)
    <2>1. OthersStay(t)
      BY <1>2 DEF OthersStay
    <2>2. CallFits(t)'
      BY <1>1, <1>2 DEF CallFits, Looking, Owning
    <2>3. QED BY <1>2, <1>3, <2>1, <2>2 DEF Walks, Owning
  <1>6. Sought(t)
    BY <1>2 DEF Sought, Seeking
  <1>7. QED BY <1>1, <1>4, <1>5, <1>6, WalkStep

LEMMA StartFlushStep ==
    ASSUME IInv, NEW t \in Threads, NEW sync \in BOOLEAN, StartFlush(t, sync)
    PROVE  IInv'
  <1> DEFINE r == [op |-> "flush", sync |-> sync]
  <1>1. r \in Requests
    BY DEF Requests
  <1>2. /\ pc[t] = "idle" /\ ClearErrors /\ pc' = [pc EXCEPT ![t] = "flush"]
        /\ req' = [req EXCEPT ![t] = r]
        /\ UNCHANGED <<bfreelist, wantfree, blist, numoutput, io, disk, bp, moved, next>>
    BY DEF StartFlush
  <1> HIDE DEF r
  <1>3. QED BY <1>1, <1>2, ClearStep

LEMMA StartInvalStep ==
    ASSUME IInv, NEW t \in Threads, StartInval(t)
    PROVE  IInv'
  <1> DEFINE r == [op |-> "inval", list |-> "dirty"]
  <1>1. r \in Requests /\ r.op = "inval"
    BY DEF Requests
  <1>2. /\ pc[t] = "idle" /\ ClearErrors /\ pc' = [pc EXCEPT ![t] = "inval"]
        /\ req' = [req EXCEPT ![t] = r]
        /\ UNCHANGED <<bfreelist, wantfree, blist, numoutput, io, disk, bp, moved, next>>
    BY DEF StartInval
  <1> HIDE DEF r
  <1>3. QED BY <1>1, <1>2, ClearStep

LEMMA FlushEndsStep ==
    ASSUME IInv, NEW t \in Threads, FlushEnds(t)
    PROVE  IInv'
  <1>1. PICK w \in {"drain", "idle"} : Goes(t, w)
    BY DEF FlushEnds
  <1>2. pc[t] \notin Owning /\ CallAllows(t, w) /\ UNCHANGED <<cache, moved>>
    BY <1>1 DEF FlushEnds, Owning, CallAllows, Looking
  <1>3. QED BY <1>1, <1>2, GoStep

LEMMA DrainStep ==
    ASSUME IInv, NEW t \in Threads, Drain(t)
    PROVE  IInv'
  <1>1. PICK w \in {"drained", "idle"} : Goes(t, w)
    BY DEF Drain
  <1>2. pc[t] \notin Owning /\ CallAllows(t, w) /\ UNCHANGED <<cache, moved>>
    BY <1>1 DEF Drain, Owning, CallAllows, Looking
  <1>3. QED BY <1>1, <1>2, GoStep

LEMMA InvalMissesStep ==
    ASSUME IInv, NEW t \in Threads, InvalMisses(t)
    PROVE  IInv'
  <1>1. pc[t] = "inval lock" /\ Goes(t, "inval") /\ UNCHANGED <<cache, moved>>
    BY DEF InvalMisses, Locks
  <1>2. pc[t] \notin Owning /\ CallAllows(t, "inval")
    BY <1>1 DEF IInv, CallFits, Agents, Owning, CallAllows, Looking
  <1>3. QED BY <1>1, <1>2, GoStep

LEMMA InvalNextStep ==
    ASSUME IInv, NEW t \in Threads, InvalNext(t)
    PROVE  IInv'
  <1> DEFINE l == InvalList(t)
             q == [req[t] EXCEPT !.list = l]
  <1>1. /\ TypeOK /\ CallFits(t) /\ t \in Agents /\ t \notin Interrupts /\ pc[t] = "inval"
        /\ UNCHANGED <<cache, moved>>
    BY DEF IInv, Agents, InvalNext
  <1>2. /\ req[t] \in Requests /\ req[t].op = "inval" /\ next[t] = "idle"
    BY <1>1 DEF CallFits, TypeOK, Owning
  <1>3. req[t] \in [op : {"inval"}, list : {"dirty", "clean"}]
    BY <1>2 DEF Requests
  <1>4. l \in {"dirty", "clean"} /\ q \in Requests /\ q.op = "inval"
    <2>1. l \in {"dirty", "clean"}
      BY <1>3 DEF InvalList
    <2>2. q \in [op : {"inval"}, list : {"dirty", "clean"}]
      BY <1>3, <2>1
    <2>3. QED BY <2>1, <2>2 DEF Requests
  <1>5. CASE blist[l] # <<>>
    <2>1. /\ pc' = [pc EXCEPT ![t] = "inval lock"] /\ bp' = [bp EXCEPT ![t] = Head(blist[l])]
          /\ req' = [req EXCEPT ![t] = q] /\ next' = next
      BY <1>5 DEF InvalNext
    <2>2. Head(blist[l]) \in Bufs
      <3>1. blist[l] \in Seq(Bufs)
        BY <1>1, <1>4 DEF TypeOK
      <3>2. QED BY <1>5, <3>1
    <2> HIDE DEF l, q
    <2>3. /\ pc'[t] = "inval lock" /\ bp'[t] \in Bufs /\ req'[t] = q
          /\ \A c \in Agents : c # t => pc'[c] = pc[c] /\ bp'[c] = bp[c]
          /\ \A c \in Threads : c # t => req'[c] = req[c]
      BY <1>1, <2>1, <2>2 DEF TypeOK
    <2>4. TypeOK'
      <3>1. /\ pc' \in [Agents -> Where] /\ req' \in [Threads -> Requests]
            /\ bp' \in [Agents -> Bufs \union {NoBuf}]
        BY <1>1, <1>4, <2>1, <2>2 DEF TypeOK, Where
      <3>2. QED BY <1>1, <2>1, <3>1 DEF TypeOK, cache
    <2>5. Walks(t)
      <3>1. OthersStay(t)
        BY <2>1, <2>3 DEF OthersStay
      <3>2. \A f \in Bufs : Cleared(f)
        BY <1>1 DEF Cleared, cache
      <3>3. CallFits(t)'
        BY <1>1, <1>2, <1>4, <2>1, <2>3 DEF CallFits, Looking, Owning
      <3>4. QED BY <1>1, <2>3, <3>1, <3>2, <3>3 DEF Walks, Owning, cache
    <2>6. Sought(t)
      BY <2>3 DEF Sought, Seeking
    <2>7. QED BY <1>1, <2>4, <2>5, <2>6, WalkStep DEF cache
  <1>6. CASE blist[l] = <<>>
    <2>1. PICK w \in {"idle", "drain"} : Goes(t, w)
      BY <1>6 DEF InvalNext
    <2>2. pc[t] \notin Owning /\ CallAllows(t, w)
      BY <1>1, <2>1 DEF Owning, CallAllows, Looking
    <2>3. QED BY <1>1, <2>1, <2>2, GoStep
  <1>7. QED BY <1>5, <1>6

LEMMA HitStep ==
    ASSUME IInv, NEW t \in Threads, Hit(t)
    PROVE  IInv'
  <1>0. PICK f, r, fl : f = bp[t] /\ r = Locked(t) /\ fl = OffFreeList(f)
    OBVIOUS
  <1>1. /\ pc[t] = "lock" /\ Unlocked(f) /\ r.blk = req[t].blk /\ "INVAL" \notin r.flags
        /\ Have(t, f, r, fl) /\ moved' = moved /\ t \in Agents
    BY <1>0 DEF Hit, Locks, Agents
  <1>2. f \in Bufs /\ req[t].op \in Getting /\ pc[t] \notin Owning /\ moved' \in [Threads -> BOOLEAN]
    BY <1>0, <1>1 DEF IInv, CallFits, Agents, Looking, Owning, TypeOK
  <1>3. Takeable(t, f) /\ Settled(buf[f]) /\ "ASYNC" \notin buf[f].flags
    BY <1>1, <1>2, Lockable
  <1>4. /\ r \in Buffers /\ r.owner = t /\ r.blk = buf[f].blk /\ r.hashed = buf[f].hashed
        /\ r.flags = buf[f].flags /\ r.data = buf[f].data /\ ListsOf(blist, f, r)
    BY <1>0, <1>2, LockedFields
  <1>5. FreeOf(fl, f)
    BY <1>0, <1>2, OffFree
  <1>6. {"ASYNC", "INVAL"} \cap r.flags = {} /\ r.hashed /\ r.data # Junk
    BY <1>1, <1>3, <1>4 DEF Settled, Empty, Full
  <1>7. /\ IInvButChain' /\ OthersStay(t) /\ pc'[t] \notin Seeking
        /\ \A g \in Bufs : g # f => buf'[g] = buf[g]
        /\ buf'[f].hashed => buf'[f].blk = r.blk
    <2>1. /\ Takeable(t, f) /\ req[t].op \in Getting /\ r \in Buffers /\ r.owner = t
          /\ {"ASYNC", "INVAL"} \cap r.flags = {} /\ r.blk = req[t].blk /\ r.hashed
          /\ r.posted => r.data # Junk
          /\ FreeOf(fl, f) /\ ListsOf(blist, f, r) /\ Have(t, f, r, fl)
          /\ moved' \in [Threads -> BOOLEAN]
      BY <1>1, <1>2, <1>3, <1>4, <1>5, <1>6
    <2>2. QED BY <2>1, HaveMoves
  <1>8. Sought(t) /\ (buf'[f].hashed => buf[f].hashed /\ buf'[f].blk = buf[f].blk)
    BY <1>4, <1>6, <1>7 DEF Sought
  <1>9. QED BY <1>1, <1>2, <1>7, <1>8, MoveStep

LEMMA StraySizeStep ==
    ASSUME IInv, NEW t \in Threads, StraySize(t)
    PROVE  IInv'
  <1>0. PICK f, r, n : f = bp[t] /\ r = [Locked(t) EXCEPT !.flags = @ \union {"INVAL"}] /\ n = "search"
    OBVIOUS
  <1>1. /\ pc[t] = "lock" /\ Unlocked(f) /\ "INVAL" \notin Locked(t).flags
        /\ Bwrite(t, f, r, "search") /\ bfreelist' = OffFreeList(f) /\ moved' = moved
        /\ t \in Agents
    BY <1>0 DEF StraySize, Locks, Agents
  <1>2. /\ f \in Bufs /\ CallAllows(t, "search") /\ pc[t] \notin Owning
        /\ moved' \in [Threads -> BOOLEAN] /\ "search" \in Nexts
    BY <1>0, <1>1 DEF IInv, CallFits, Agents, Looking, Owning, TypeOK, CallAllows, Nexts
  <1>3. Takeable(t, f) /\ Settled(buf[f]) /\ "ASYNC" \notin buf[f].flags
    BY <1>1, <1>2, Lockable
  <1>4. /\ r \in Buffers /\ r.owner = t /\ r.blk = buf[f].blk /\ r.hashed = buf[f].hashed
        /\ r.flags = buf[f].flags \union {"INVAL"} /\ r.data = buf[f].data
        /\ Full(buf[f]) /\ ListsOf(blist, f, r)
    <2>1. /\ Locked(t) \in Buffers /\ Locked(t).owner = t /\ Locked(t).blk = buf[f].blk
          /\ Locked(t).hashed = buf[f].hashed /\ Locked(t).flags = buf[f].flags
          /\ Locked(t).data = buf[f].data /\ ListsOf(blist, f, Locked(t))
      BY <1>0, <1>2, LockedFields
    <2>2. r \in Buffers /\ r.owner = Locked(t).owner /\ r.blk = Locked(t).blk
          /\ r.hashed = Locked(t).hashed /\ r.data = Locked(t).data
          /\ r.flags = Locked(t).flags \union {"INVAL"}
      BY <1>0, <2>1 DEF Buffers, Flags
    <2>3. ListsOf(blist, f, r)
      BY <2>1, <2>2 DEF ListsOf, Dirty
    <2>4. Full(buf[f])
      BY <1>1, <1>3, <2>1 DEF Settled, Empty
    <2>5. QED BY <2>1, <2>2, <2>3, <2>4
  <1>5. FreeOf(bfreelist', f)
    BY <1>1, <1>2, OffFree
  <1>6. "ASYNC" \notin r.flags /\ r.blk \in Blocks /\ r.hashed /\ r.data # Junk
    BY <1>3, <1>4 DEF Full
  <1>7. /\ IInvButChain' /\ OthersStay(t) /\ pc'[t] = "writing"
        /\ \A g \in Bufs : g # f => buf'[g] = buf[g]
        /\ buf'[f].blk = r.blk
    <2>1. /\ Takeable(t, f) /\ r \in Buffers /\ r.owner = t
          /\ "ASYNC" \notin r.flags /\ r.blk \in Blocks /\ r.hashed /\ r.data # Junk
          /\ FreeOf(bfreelist', f) /\ ListsOf(blist, f, r)
          /\ n \in Nexts /\ CallAllows(t, n) /\ Bwrite(t, f, r, n)
          /\ moved' \in [Threads -> BOOLEAN]
      BY <1>0, <1>1, <1>2, <1>3, <1>4, <1>5, <1>6
    <2>2. QED BY <2>1, BwriteMoves
  <1>8. Sought(t)
    BY <1>7 DEF Sought, Seeking
  <1>9. buf[f].hashed
    BY <1>4 DEF Full
  <1>10. QED BY <1>1, <1>2, <1>4, <1>7, <1>8, <1>9, MoveStep

\* A thread that has nothing starts to write buffer f, which nobody has.
LEMMA TakeAndWrite ==
    ASSUME IInv, NEW t \in Threads, NEW f \in Bufs, Unlocked(f), pc[t] \notin Owning,
           Dirty(buf[f]), NEW r \in Buffers, r.blk = buf[f].blk, r.hashed = buf[f].hashed,
           r.flags = buf[f].flags, r.data = buf[f].data,
           NEW w \in {"new", "flush", "inval"}, w = "new" => pc[t] = "new",
           CallAllows(t, w), Bawrite(t, f, r, w), bfreelist' = OffFreeList(f), moved' = moved
    PROVE  IInv'
  <1>1. Takeable(t, f) /\ Settled(buf[f]) /\ t \in Agents
    BY Lockable DEF Agents
  <1>2. Full(r)
    BY <1>1 DEF Settled, Empty, Full, Dirty
  <1>3. ListsOf(blist, f, r)
    BY AsListed DEF ListsOf, Dirty
  <1>4. FreeOf(bfreelist', f)
    BY OffFree
  <1>5. moved' \in [Threads -> BOOLEAN]
    BY DEF IInv, TypeOK
  <1>6. /\ IInvButChain' /\ OthersStay(t) /\ pc'[t] = w /\ req'[t] = req[t]
        /\ \A g \in Bufs : g # f => buf'[g] = buf[g]
        /\ buf'[f].hashed = r.hashed /\ buf'[f].blk = r.blk
    BY <1>1, <1>2, <1>3, <1>4, <1>5, BawriteMoves
  <1>7. Sought(t)
    BY <1>6 DEF Sought, Seeking
  <1>8. QED BY <1>1, <1>6, <1>7, MoveStep

LEMMA GetnewbufWritesStep ==
    ASSUME IInv, NEW t \in Threads, GetnewbufWrites(t)
    PROVE  IInv'
  <1>1. PICK f \in Bufs : /\ Unlocked(f) /\ pc[t] = "new" /\ Dirty(buf[f])
                          /\ Bawrite(t, f, buf[f], "new") /\ bfreelist' = OffFreeList(f)
    BY DEF GetnewbufWrites, Getnewbuf, Available
  <1>2. /\ moved' = moved /\ pc[t] \notin Owning /\ CallAllows(t, "new") /\ buf[f] \in Buffers
    BY <1>1 DEF GetnewbufWrites, Owning, CallAllows, IInv, CallFits, Looking, Agents, TypeOK
  <1>3. QED BY <1>1, <1>2, TakeAndWrite

LEMMA FlushOneStep ==
    ASSUME IInv, NEW t \in Threads, FlushOne(t)
    PROVE  IInv'
  <1>1. PICK f \in Bufs : /\ Unlocked(f) /\ pc[t] = "flush" /\ f \in Range(blist.dirty)
                          /\ Bawrite(t, f, buf[f], "flush") /\ bfreelist' = OffFreeList(f)
    BY DEF FlushOne, Flushable
  <1>2. /\ moved' = moved /\ pc[t] \notin Owning /\ CallAllows(t, "flush") /\ buf[f] \in Buffers
        /\ Dirty(buf[f])
    <2>1. BufferFits(f) /\ buf[f] \in Buffers
      BY DEF IInv, TypeOK
    <2>2. QED BY <1>1, <2>1 DEF FlushOne, Owning, CallAllows, BufferFits, Looking
  <1>3. QED BY <1>1, <1>2, TakeAndWrite

LEMMA InvalWritesStep ==
    ASSUME IInv, NEW t \in Threads, InvalWrites(t)
    PROVE  IInv'
  <1>1. /\ pc[t] = "inval lock" /\ Unlocked(bp[t]) /\ Dirty(Locked(t))
        /\ Bawrite(t, bp[t], Locked(t), "inval") /\ bfreelist' = OffFreeList(bp[t])
        /\ moved' = moved
    BY DEF InvalWrites, Locks
  <1>2. bp[t] \in Bufs /\ pc[t] \notin Owning /\ CallAllows(t, "inval")
    BY <1>1 DEF IInv, CallFits, CallAllows, Owning, Looking, Agents
  <1>3. /\ Locked(t) \in Buffers /\ Locked(t).blk = buf[bp[t]].blk
        /\ Locked(t).hashed = buf[bp[t]].hashed /\ Locked(t).flags = buf[bp[t]].flags
        /\ Locked(t).data = buf[bp[t]].data
    BY <1>2, LockedFields
  <1>4. Dirty(buf[bp[t]])
    BY <1>1, <1>3 DEF Dirty
  <1>5. QED BY <1>1, <1>2, <1>3, <1>4, TakeAndWrite

\* A step of a that releases f, with fields r that are on the chain only if it is.
LEMMA BrelseStep ==
    ASSUME IInv, NEW a \in Agents, NEW f, Takeable(a, f),
           NEW r \in Buffers, r.owner = a, Discarded(r) \/ Full(r),
           r.hashed => buf[f].hashed /\ r.blk = buf[f].blk,
           NEW fl, FreeOf(fl, f), NEW bl, ListsOf(bl, f, r),
           NEW n \in Nexts, CallAllows(a, n), Brelse(a, f, r, fl, bl, n),
           moved' \in [Threads -> BOOLEAN], \A t \in Threads : t # a /\ ~moved'[t] => ~moved[t]
    PROVE  IInv'
  <1>1. /\ IInvButChain' /\ OthersStay(a) /\ pc'[a] \in Releasing
        /\ \A g \in Bufs : g # f => buf'[g] = buf[g]
        /\ buf'[f].hashed => r.hashed /\ buf'[f].blk = r.blk
    BY BrelseMoves
  <1>2. f \in Bufs /\ (a \in Threads => Sought(a))
    BY <1>1 DEF Takeable, Sought, Seeking, Releasing
  <1>3. buf'[f].hashed => buf[f].hashed /\ buf'[f].blk = buf[f].blk
    BY <1>1
  <1>4. QED BY <1>1, <1>2, <1>3, MoveStep

LEMMA GetnewbufTakesStep ==
    ASSUME IInv, NEW t \in Threads, GetnewbufTakes(t)
    PROVE  IInv'
  <1>1. PICK f \in Bufs : /\ Unlocked(f) /\ pc[t] = "new" /\ ~Dirty(buf[f])
                          /\ buf' = [buf EXCEPT ![f] =
                               [owner |-> t, blk |-> req[t].blk, hashed |-> FALSE, flags |-> {},
                                posted |-> FALSE, data |-> Junk]]
                          /\ bfreelist' = OffFreeList(f) /\ blist' = OnList(blist, f, "clean")
                          /\ GoesWith(t, f, "insert", "idle")
    BY DEF GetnewbufTakes, Getnewbuf, Available
  <1>2. UNCHANGED <<wantfree, numoutput, disk>> /\ io' = io /\ moved' = moved
    BY DEF GetnewbufTakes
  <1>3. /\ TypeOK /\ t \in Agents /\ req[t].op \in Getting /\ pc[t] \notin Owning
        /\ req[t] \in Requests /\ moved' \in [Threads -> BOOLEAN]
    BY <1>1, <1>2 DEF IInv, CallFits, Agents, Looking, Owning, TypeOK
  <1>4. Takeable(t, f) /\ req[t].blk \in Blocks
    BY <1>1, <1>3, Lockable, GettingABlock
  <1>5. /\ buf' \in [Bufs -> Buffers] /\ \A g \in Bufs : g # f => buf'[g] = buf[g]
        /\ buf'[f].owner = t /\ buf'[f].flags = {} /\ buf'[f].blk = req[t].blk
        /\ ~buf'[f].hashed /\ ~buf'[f].posted /\ buf'[f].data = Junk
    <2> DEFINE s == [owner |-> t, blk |-> req[t].blk, hashed |-> FALSE, flags |-> {},
                     posted |-> FALSE, data |-> Junk]
    <2>1. s \in Buffers
      BY <1>3, <1>4 DEF Buffers
    <2>2. s.owner = t /\ s.flags = {} /\ s.blk = req[t].blk /\ ~s.hashed /\ ~s.posted /\ s.data = Junk
      OBVIOUS
    <2>3. buf' = [buf EXCEPT ![f] = s]
      BY <1>1
    <2> HIDE DEF s
    <2>4. buf'[f] = s /\ buf' \in [Bufs -> Buffers] /\ \A g \in Bufs : g # f => buf'[g] = buf[g]
      BY <1>3, <2>1, <2>3 DEF TypeOK
    <2>5. QED BY <2>2, <2>4
  <1>6. Contents("insert", buf'[f], req[t])
    BY <1>5 DEF Contents, Releasing
  <1>7. FreeOf(bfreelist', f)
    BY <1>1, OffFree
  <1>8. ListsOf(blist', f, buf'[f])
    <2>1. ~Dirty(buf'[f])
      BY <1>5 DEF Dirty
    <2>2. ListsOf(blist, f, buf[f])
      BY AsListed
    <2>3. QED BY <1>1, <2>1, <2>2, OnListed
  <1>9. IInvButChain' /\ OthersStay(t) /\ pc'[t] = "insert"
    <2>1. io' = IF "insert" = "reading" THEN io \union {f} ELSE io
      BY <1>2
    <2>2. "ASYNC" \notin buf'[f].flags
      BY <1>5
    <2>3. QED BY <1>1, <1>2, <1>3, <1>4, <1>5, <1>6, <1>7, <1>8, <2>1, <2>2, KeepMoves
  <1>10. Sought(t)
    BY <1>1, <1>2 DEF Sought, Seeking, GoesWith
  <1>11. QED BY <1>2, <1>3, <1>5, <1>9, <1>10, MoveStep

LEMMA GiveUpDuplicateStep ==
    ASSUME IInv, NEW t \in Threads, GiveUpDuplicate(t)
    PROVE  IInv'
  <1>0. PICK f, r, n : /\ f = bp[t] /\ r = [buf[bp[t]] EXCEPT !.flags = @ \union {"INVAL"}]
                       /\ n = "search"
    OBVIOUS
  <1>1. /\ pc[t] = "insert" /\ Brelse(t, f, r, bfreelist, blist, n)
        /\ moved' = [moved EXCEPT ![t] = FALSE] /\ t \in Agents /\ TypeOK
    BY <1>0 DEF GiveUpDuplicate, Agents, IInv
  <1>2. CallFits(t) /\ Has(t) /\ BufferFits(f) /\ f \in Bufs
    BY <1>0, <1>1 DEF IInv, Has, Owning
  <1>3. f \notin io
    <2>1. buf[f].owner = t /\ t # Driver
      BY <1>0, <1>1, <1>2 DEF Has, Owning
    <2>2. QED BY <1>1, <1>2, <2>1 DEF BufferFits
  <1>4. /\ Takeable(t, f) /\ buf[f] \in Buffers /\ buf[f].owner = t /\ FreeOf(bfreelist, f)
        /\ ListsOf(blist, f, buf[f])
    BY <1>0, <1>1, <1>3, Held DEF Using
  <1>5. /\ r \in Buffers /\ r.owner = t /\ r.hashed = buf[f].hashed /\ r.blk = buf[f].blk
        /\ r.flags = buf[f].flags \union {"INVAL"}
    BY <1>0, <1>4 DEF Buffers, Flags
  <1>6. Discarded(r) /\ ListsOf(blist, f, r)
    BY <1>4, <1>5 DEF Discarded, ListsOf, Dirty
  <1>7. n \in Nexts /\ CallAllows(t, n)
    BY <1>0, <1>1, <1>2 DEF Nexts, CallAllows, CallFits, Looking
  <1>8. moved' \in [Threads -> BOOLEAN] /\ \A u \in Threads : u # t /\ ~moved'[u] => ~moved[u]
    BY <1>1 DEF TypeOK
  <1>9. r.hashed => buf[f].hashed /\ r.blk = buf[f].blk
    BY <1>5
  <1> HIDE <1>0
  <1>10. QED
    <2>1. /\ Takeable(t, f) /\ r \in Buffers /\ r.owner = t /\ Discarded(r)
          /\ FreeOf(bfreelist, f) /\ ListsOf(blist, f, r)
          /\ n \in Nexts /\ CallAllows(t, n) /\ Brelse(t, f, r, bfreelist, blist, n)
      BY <1>1, <1>4, <1>5, <1>6, <1>7
    <2>2. QED BY <1>1, <1>8, <1>9, <2>1, BrelseStep

LEMMA NotInTransfer ==
    ASSUME IInv, NEW t \in Threads, pc[t] \in Using,
           pc[t] \in {"insert", "hold"} \/ buf[bp[t]].posted
    PROVE  bp[t] \in Bufs \ io
  <1>1. Has(t) /\ pc[t] \in Owning
    BY DEF IInv, Agents, Using, Owning
  <1>2. bp[t] \in Bufs /\ buf[bp[t]].owner = t /\ BufferFits(bp[t])
    BY <1>1 DEF IInv, Has
  <1>3. t # Driver /\ \A a \in Agents : buf[bp[t]].owner = a => a = t
    BY <1>2
  <1>4. QED BY <1>2, <1>3 DEF BufferFits

LEMMA ReadDoneStep ==
    ASSUME IInv, NEW t \in Threads, ReadDone(t)
    PROVE  IInv'
  <1>0. PICK f, r, n : f = bp[t] /\ r = buf[bp[t]] /\ n = "idle"
    OBVIOUS
  <1>1. pc[t] = "reading" /\ r.posted /\ moved' = moved /\ t \in Agents /\ TypeOK /\ CallFits(t)
    BY <1>0 DEF ReadDone, Agents, IInv
  <1>2. /\ f \in Bufs \ io /\ Takeable(t, f) /\ r \in Buffers /\ r.owner = t
        /\ "ASYNC" \notin r.flags /\ FreeOf(bfreelist, f) /\ ListsOf(blist, f, r)
        /\ Contents("reading", r, req[t])
    BY <1>0, <1>1, NotInTransfer, Held DEF Using
  <1>3. /\ n \in Nexts /\ CallAllows(t, n) /\ moved' \in [Threads -> BOOLEAN]
        /\ req[t].op \in Getting /\ req[t] \in Requests
    BY <1>0, <1>1 DEF Nexts, CallAllows, TypeOK, Looking, CallFits
  <1>4. CASE "ERROR" \in r.flags
    <2>1. Brelse(t, f, r, bfreelist, blist, n)
      BY <1>0, <1>4 DEF ReadDone
    <2>2. Discarded(r)
      BY <1>2, <1>4 DEF Contents, Releasing, Discarded, Retried, WriteFailed
    <2>3. r.hashed => buf[f].hashed /\ r.blk = buf[f].blk
      BY <1>0
    <2>4. /\ Takeable(t, f) /\ r \in Buffers /\ r.owner = t /\ FreeOf(bfreelist, f)
          /\ ListsOf(blist, f, r)
      BY <1>2
    <2>5. QED BY <1>1, <1>3, <2>1, <2>2, <2>3, <2>4, BrelseStep
  <1>5. CASE "ERROR" \notin r.flags
    <2>1. GoesWith(t, f, "hold", "idle") /\ UNCHANGED cache
      BY <1>0, <1>5 DEF ReadDone
    <2>2. Contents("hold", r, req[t])
      BY <1>1, <1>2, <1>5 DEF Contents, Releasing
    <2>3. /\ buf' \in [Bufs -> Buffers] /\ \A g \in Bufs : g # f => buf'[g] = buf[g]
          /\ buf'[f].owner = t /\ "ASYNC" \notin buf'[f].flags
          /\ Contents("hold", buf'[f], req[t])
          /\ FreeOf(bfreelist', f) /\ ListsOf(blist', f, buf'[f])
          /\ io' = IF "hold" = "reading" THEN io \union {f} ELSE io
          /\ UNCHANGED <<wantfree, numoutput, disk>>
      BY <1>0, <1>1, <1>2, <2>1, <2>2 DEF cache, TypeOK
    <2>4. IInvButChain' /\ OthersStay(t) /\ pc'[t] = "hold"
      BY <1>2, <1>3, <2>1, <2>3, KeepMoves
    <2>5. Sought(t) /\ buf' = buf
      BY <2>1, <2>4 DEF Sought, Seeking, cache
    <2>6. QED BY <1>1, <1>2, <2>4, <2>5, MoveStep
  <1>6. QED BY <1>4, <1>5

\* A thread that holds a buffer may write it: what it leaves there is a block.
LEMMA Holds ==
    ASSUME IInv, NEW t \in Threads, pc[t] = "hold"
    PROVE  /\ Takeable(t, bp[t]) /\ bp[t] \in Bufs
           /\ buf[bp[t]] \in Buffers /\ buf[bp[t]].owner = t
           /\ "ASYNC" \notin buf[bp[t]].flags /\ "INVAL" \notin buf[bp[t]].flags
           /\ buf[bp[t]].blk \in Blocks /\ buf[bp[t]].hashed
           /\ req[t].op = "read" => buf[bp[t]].data # Junk
           /\ FreeOf(bfreelist, bp[t]) /\ ListsOf(blist, bp[t], buf[bp[t]])
           /\ CallAllows(t, "idle") /\ t \in Agents /\ moved \in [Threads -> BOOLEAN]
           /\ "idle" \in Nexts
  <1>1. bp[t] \in Bufs \ io
    BY NotInTransfer DEF Using
  <1>2. /\ Takeable(t, bp[t]) /\ buf[bp[t]] \in Buffers /\ buf[bp[t]].owner = t
        /\ "ASYNC" \notin buf[bp[t]].flags
        /\ FreeOf(bfreelist, bp[t]) /\ ListsOf(blist, bp[t], buf[bp[t]])
        /\ Contents(pc[t], buf[bp[t]], req[t])
    BY <1>1, Held DEF Using
  <1>3. req[t] \in Requests /\ req[t].op \in Getting
    BY DEF IInv, TypeOK, CallFits, Agents, Looking
  <1>4. req[t].blk \in Blocks
    BY <1>3, GettingABlock
  <1>5. /\ buf[bp[t]].blk = req[t].blk /\ buf[bp[t]].hashed
        /\ "INVAL" \notin buf[bp[t]].flags /\ (req[t].op = "read" => buf[bp[t]].data # Junk)
    BY <1>2 DEF Contents, Releasing
  <1>6. CallAllows(t, "idle") /\ t \in Agents /\ moved \in [Threads -> BOOLEAN] /\ "idle" \in Nexts
    BY DEF CallAllows, Agents, IInv, TypeOK, Looking, Nexts
  <1>7. QED BY <1>1, <1>2, <1>4, <1>5, <1>6

LEMMA ReleaseStep ==
    ASSUME IInv, NEW t \in Threads, Release(t)
    PROVE  IInv'
  <1>0. PICK f, r, n : f = bp[t] /\ r = buf[bp[t]] /\ n = "idle"
    OBVIOUS
  <1>1. pc[t] = "hold" /\ Brelse(t, f, r, bfreelist, blist, n) /\ req[t].op = "read" /\ moved' = moved
    BY <1>0 DEF Release
  <1>2. /\ Takeable(t, f) /\ r \in Buffers /\ r.owner = t /\ FreeOf(bfreelist, f)
        /\ ListsOf(blist, f, r) /\ Full(r) /\ CallAllows(t, n) /\ n \in Nexts
        /\ moved' \in [Threads -> BOOLEAN] /\ t \in Agents
    BY <1>0, <1>1, Holds DEF Full
  <1>3. r.hashed => buf[f].hashed /\ r.blk = buf[f].blk
    BY <1>0
  <1>4. QED BY <1>1, <1>2, <1>3, BrelseStep

\* What a thread that holds a buffer leaves in it.
LEMMA ChangedFields ==
    ASSUME IInv, NEW t \in Threads, pc[t] = "hold", NEW v \in Values
    PROVE  LET r == Changed(t, v)
               o == buf[bp[t]] IN
           /\ r \in Buffers /\ r.owner = t /\ r.blk = o.blk /\ r.hashed = o.hashed
           /\ r.flags = o.flags /\ Full(r) /\ ListsOf(blist, bp[t], r)
  <1>1. /\ buf[bp[t]] \in Buffers /\ buf[bp[t]].owner = t
        /\ "INVAL" \notin buf[bp[t]].flags /\ buf[bp[t]].blk \in Blocks /\ buf[bp[t]].hashed
        /\ ListsOf(blist, bp[t], buf[bp[t]])
    BY Holds
  <1>2. PICK r : r = Changed(t, v)
    OBVIOUS
  <1>3. /\ r \in Buffers /\ r.owner = t /\ r.blk = buf[bp[t]].blk /\ r.hashed = buf[bp[t]].hashed
        /\ r.flags = buf[bp[t]].flags /\ r.data = v
    BY <1>1, <1>2 DEF Changed, Buffers
  <1>4. Full(r)
    BY <1>1, <1>3 DEF Full
  <1>5. ListsOf(blist, bp[t], r)
    BY <1>1, <1>3 DEF ListsOf, Dirty
  <1>6. QED BY <1>2, <1>3, <1>4, <1>5

LEMMA BdwriteStep ==
    ASSUME IInv, NEW t \in Threads, NEW v \in Values, Bdwrite(t, v)
    PROVE  IInv'
  <1>0. PICK f, o, r, n, bl :
             /\ f = bp[t] /\ o = Changed(t, v) /\ n = "idle"
             /\ r = [o EXCEPT !.flags = @ \union {"DELWRI"}, !.posted = TRUE]
             /\ bl = IF Dirty(o) THEN blist ELSE OnList(blist, bp[t], "dirty")
    OBVIOUS
  <1>1. pc[t] = "hold" /\ Brelse(t, f, r, bfreelist, bl, n) /\ moved' = moved
    BY <1>0 DEF Bdwrite
  <1>2. /\ Takeable(t, f) /\ FreeOf(bfreelist, f) /\ f \in Bufs
        /\ CallAllows(t, n) /\ n \in Nexts /\ moved' \in [Threads -> BOOLEAN] /\ t \in Agents
    BY <1>0, <1>1, Holds
  <1>3. /\ o \in Buffers /\ o.owner = t /\ o.blk = buf[f].blk /\ o.hashed = buf[f].hashed
        /\ Full(o) /\ ListsOf(blist, f, o)
    BY <1>0, <1>1, ChangedFields
  <1>4. /\ r \in Buffers /\ r.owner = t /\ r.blk = o.blk /\ r.hashed = o.hashed
        /\ r.data = o.data /\ r.flags = o.flags \union {"DELWRI"}
    BY <1>0, <1>3 DEF Buffers, Flags
  <1>5. Full(r) /\ Dirty(r)
    BY <1>3, <1>4 DEF Full, Dirty
  <1>6. ListsOf(bl, f, r)
    <2>1. CASE Dirty(o)
      BY <1>0, <1>3, <1>5, <2>1 DEF ListsOf
    <2>2. CASE ~Dirty(o)
      <3>1. bl = OnList(blist, f, "dirty")
        BY <1>0, <2>2
      <3>2. QED BY <1>2, <1>3, <1>5, <3>1, OnListed
    <2>3. QED BY <2>1, <2>2
  <1>7. r.hashed => buf[f].hashed /\ r.blk = buf[f].blk
    BY <1>3, <1>4
  <1>8. QED
    <2>1. r \in Buffers /\ r.owner = t
      BY <1>4
    <2>2. QED BY <1>1, <1>2, <1>5, <1>6, <1>7, <2>1, BrelseStep

LEMMA WriteAsyncStep ==
    ASSUME IInv, NEW t \in Threads, NEW v \in Values, WriteAsync(t, v)
    PROVE  IInv'
  <1>0. PICK f, r, w : f = bp[t] /\ r = Changed(t, v) /\ w = "idle"
    OBVIOUS
  <1>1. pc[t] = "hold" /\ Bawrite(t, f, r, w) /\ UNCHANGED <<bfreelist, moved>>
    BY <1>0 DEF WriteAsync
  <1>2. /\ Takeable(t, f) /\ FreeOf(bfreelist', f) /\ f \in Bufs
        /\ CallAllows(t, w) /\ moved' \in [Threads -> BOOLEAN] /\ t \in Agents
    BY <1>0, <1>1, Holds
  <1>3. /\ r \in Buffers /\ r.blk = buf[f].blk /\ r.hashed = buf[f].hashed
        /\ Full(r) /\ ListsOf(blist, f, r)
    BY <1>0, <1>1, ChangedFields
  <1>4. /\ IInvButChain' /\ OthersStay(t) /\ pc'[t] = w
        /\ \A g \in Bufs : g # f => buf'[g] = buf[g]
        /\ buf'[f].hashed = r.hashed /\ buf'[f].blk = r.blk
    <2>1. /\ Takeable(t, f) /\ FreeOf(bfreelist', f) /\ CallAllows(t, w)
          /\ moved' \in [Threads -> BOOLEAN] /\ r \in Buffers /\ Full(r) /\ ListsOf(blist, f, r)
          /\ w \in {"idle", "new", "flush", "inval"} /\ Bawrite(t, f, r, w)
      BY <1>0, <1>1, <1>2, <1>3
    <2>2. QED BY <2>1, BawriteMoves
  <1>5. Sought(t) /\ (buf'[f].hashed => buf[f].hashed /\ buf'[f].blk = buf[f].blk)
    BY <1>0, <1>3, <1>4 DEF Sought, Seeking
  <1>6. QED BY <1>1, <1>2, <1>4, <1>5, MoveStep

LEMMA WriteSyncStep ==
    ASSUME IInv, NEW t \in Threads, NEW v \in Values, WriteSync(t, v)
    PROVE  IInv'
  <1>0. PICK f, r, n : f = bp[t] /\ r = Changed(t, v) /\ n = "idle"
    OBVIOUS
  <1>1. pc[t] = "hold" /\ Bwrite(t, f, r, n) /\ UNCHANGED <<bfreelist, moved>>
    BY <1>0 DEF WriteSync
  <1>2. /\ Takeable(t, f) /\ FreeOf(bfreelist', f) /\ f \in Bufs /\ n \in Nexts
        /\ CallAllows(t, n) /\ moved' \in [Threads -> BOOLEAN] /\ t \in Agents
        /\ "ASYNC" \notin buf[f].flags /\ buf[f].hashed
    BY <1>0, <1>1, Holds
  <1>3. /\ r \in Buffers /\ r.owner = t /\ r.blk = buf[f].blk /\ r.flags = buf[f].flags
        /\ Full(r) /\ ListsOf(blist, f, r)
    BY <1>0, <1>1, ChangedFields
  <1>4. /\ IInvButChain' /\ OthersStay(t) /\ pc'[t] = "writing"
        /\ \A g \in Bufs : g # f => buf'[g] = buf[g]
        /\ buf'[f].blk = r.blk
    <2>1. /\ Takeable(t, f) /\ FreeOf(bfreelist', f) /\ CallAllows(t, n)
          /\ moved' \in [Threads -> BOOLEAN] /\ r \in Buffers /\ r.owner = t
          /\ "ASYNC" \notin r.flags /\ r.blk \in Blocks /\ r.hashed /\ r.data # Junk
          /\ ListsOf(blist, f, r) /\ n \in Nexts /\ Bwrite(t, f, r, n)
      BY <1>1, <1>2, <1>3 DEF Full
    <2>2. QED BY <2>1, BwriteMoves
  <1>5. Sought(t) /\ (buf'[f].hashed => buf[f].hashed /\ buf'[f].blk = buf[f].blk)
    BY <1>2, <1>3, <1>4 DEF Sought, Seeking
  <1>6. QED BY <1>1, <1>2, <1>4, <1>5, MoveStep

LEMMA WriteDoneStep ==
    ASSUME IInv, NEW t \in Threads, WriteDone(t)
    PROVE  IInv'
  <1>0. PICK f, r, n : f = bp[t] /\ r = buf[bp[t]] /\ n = next[t]
    OBVIOUS
  <1>1. /\ pc[t] = "writing" /\ r.posted /\ Brelse(t, f, r, bfreelist, blist, n)
        /\ moved' = moved /\ t \in Agents /\ TypeOK /\ CallFits(t) /\ t \notin Interrupts
    BY <1>0 DEF WriteDone, Agents, IInv
  <1>2. /\ Takeable(t, f) /\ r \in Buffers /\ r.owner = t
        /\ FreeOf(bfreelist, f) /\ ListsOf(blist, f, r) /\ Contents("writing", r, req[t])
    BY <1>0, <1>1, NotInTransfer, Held DEF Using
  <1>3. n \in Nexts /\ CallAllows(t, n) /\ moved' \in [Threads -> BOOLEAN]
    BY <1>0, <1>1 DEF Nexts, CallAllows, TypeOK, Looking, CallFits
  <1>4. Discarded(r) \/ Full(r)
    BY <1>2 DEF Contents, Releasing, Discarded, Full
  <1>5. r.hashed => buf[f].hashed /\ r.blk = buf[f].blk
    BY <1>0
  <1>6. QED
    <2>1. /\ Takeable(t, f) /\ r \in Buffers /\ r.owner = t
          /\ FreeOf(bfreelist, f) /\ ListsOf(blist, f, r)
      BY <1>2
    <2>2. QED BY <1>1, <1>3, <1>4, <1>5, <2>1, BrelseStep

LEMMA AcceptStep ==
    ASSUME IInv, NEW i \in Interrupts, Accept(i)
    PROVE  IInv'
  <1>0. PICK f, r, n : f = bp[i] /\ r = [buf[bp[i]] EXCEPT !.owner = i] /\ n = "idle"
    OBVIOUS
  <1>1. /\ pc[i] = "done" /\ Brelse(i, f, r, bfreelist, blist, n) /\ moved' = moved
        /\ i \in Agents /\ i \notin Threads /\ TypeOK /\ Has(i)
    BY <1>0 DEF Accept, Agents, IInv
  <1>2. /\ f \in Bufs \ io /\ buf[f].owner = Driver /\ "ASYNC" \in buf[f].flags
        /\ BufferFits(f) /\ Takeable(i, f)
    <2>1. f \in Bufs \ io /\ buf[f].owner = Driver /\ "ASYNC" \in buf[f].flags
      BY <1>0, <1>1 DEF Has, Owning
    <2>2. QED BY <1>0, <1>1, <2>1 DEF Takeable, IInv
  <1>3. ~OnFree(f)
    <2>1. \A a \in Agents : ~Releases(a, f)
      <3>1. \A a \in Agents : Releases(a, f) => buf[f].owner = a
        BY DEF IInv, Has, Releases, Releasing, Owning
      <3>2. QED BY <1>2, <3>1 DEF Agents
    <2>2. QED BY <1>2, <2>1 DEF BufferFits
  <1>4. FreeOf(bfreelist, f) /\ ListsOf(blist, f, buf[f]) /\ buf[f] \in Buffers
    BY <1>1, <1>2, <1>3, NotFree, AsListed DEF TypeOK
  <1>5. /\ r \in Buffers /\ r.owner = i /\ r.blk = buf[f].blk /\ r.hashed = buf[f].hashed
        /\ r.flags = buf[f].flags /\ r.data = buf[f].data
    BY <1>0, <1>1, <1>4 DEF Buffers
  <1>6. ListsOf(blist, f, r)
    BY <1>4, <1>5 DEF ListsOf, Dirty
  <1>7. Discarded(r) \/ Full(r)
    <2>1. /\ r.blk \in Blocks /\ r.hashed /\ "INVAL" \notin r.flags
          /\ "READ" \notin r.flags => r.data # Junk
          /\ "ERROR" \notin r.flags => r.data # Junk
      BY <1>2, <1>5 DEF BufferFits, Transferred
    <2>2. "ASYNC" \in r.flags
      BY <1>2, <1>5
    <2>3. QED BY <2>1, <2>2 DEF Discarded, Full, Retried, WriteFailed
  <1>8. n \in Nexts /\ CallAllows(i, n) /\ moved' \in [Threads -> BOOLEAN]
    BY <1>0, <1>1 DEF Nexts, CallAllows, TypeOK
  <1>9. r.hashed => buf[f].hashed /\ r.blk = buf[f].blk
    BY <1>5
  <1>10. QED
    <2>1. /\ Takeable(i, f) /\ r \in Buffers /\ r.owner = i
          /\ FreeOf(bfreelist, f) /\ ListsOf(blist, f, r)
      BY <1>2, <1>4, <1>5, <1>6
    <2>2. QED BY <1>1, <1>7, <1>8, <1>9, <2>1, BrelseStep

LEMMA InvalDiscardsStep ==
    ASSUME IInv, NEW t \in Threads, InvalDiscards(t)
    PROVE  IInv'
  <1>0. PICK f, o, r, n, fl :
             /\ f = bp[t] /\ o = Locked(t) /\ n = "inval" /\ fl = OffFreeList(bp[t])
             /\ r = [o EXCEPT !.flags = @ \union {"INVAL"}]
    OBVIOUS
  <1>1. /\ pc[t] = "inval lock" /\ Unlocked(f) /\ Brelse(t, f, r, fl, blist, n)
        /\ moved' = moved /\ t \in Agents /\ TypeOK /\ CallFits(t) /\ t \notin Interrupts
    BY <1>0 DEF InvalDiscards, Locks, Agents, IInv
  <1>2. f \in Bufs /\ Takeable(t, f)
    BY <1>0, <1>1, Lockable DEF CallFits, Owning
  <1>3. /\ o \in Buffers /\ o.owner = t /\ o.blk = buf[f].blk /\ o.hashed = buf[f].hashed
        /\ ListsOf(blist, f, o) /\ FreeOf(fl, f)
    BY <1>0, <1>2, LockedFields, OffFree
  <1>4. /\ r \in Buffers /\ r.owner = t /\ r.blk = o.blk /\ r.hashed = o.hashed
        /\ r.flags = o.flags \union {"INVAL"}
    BY <1>0, <1>3 DEF Buffers, Flags
  <1>5. Discarded(r) /\ ListsOf(blist, f, r)
    BY <1>3, <1>4 DEF Discarded, ListsOf, Dirty
  <1>6. n \in Nexts /\ CallAllows(t, n) /\ moved' \in [Threads -> BOOLEAN]
    BY <1>0, <1>1 DEF Nexts, CallAllows, TypeOK, Looking, CallFits
  <1>7. r.hashed => buf[f].hashed /\ r.blk = buf[f].blk
    BY <1>3, <1>4
  <1>8. QED
    <2>1. Takeable(t, f) /\ r \in Buffers /\ r.owner = t /\ FreeOf(fl, f) /\ ListsOf(blist, f, r)
      BY <1>2, <1>3, <1>4, <1>5
    <2>2. QED BY <1>1, <1>5, <1>6, <1>7, <2>1, BrelseStep

LEMMA InsertStep ==
    ASSUME IInv, NEW t \in Threads, Insert(t)
    PROVE  IInv'
  <1>0. PICK f, r : f = bp[t] /\ r = [buf[bp[t]] EXCEPT !.hashed = TRUE]
    OBVIOUS
  <1>1. /\ pc[t] = "insert" /\ Have(t, f, r, bfreelist) /\ t \in Agents /\ TypeOK /\ Chain
        /\ moved[t] => Hashed(req[t].blk) = {}
        /\ moved' = [u \in Threads |-> u # t /\ (moved[u] \/ pc[u] \in {"new", "asleep", "insert"})]
    BY <1>0 DEF Insert, Agents, IInv
  <1>2. /\ f \in Bufs /\ Takeable(t, f) /\ buf[f] \in Buffers /\ buf[f].owner = t
        /\ FreeOf(bfreelist, f) /\ ListsOf(blist, f, buf[f])
        /\ Contents("insert", buf[f], req[t])
    BY <1>0, <1>1, NotInTransfer, Held DEF Using
  <1>3. /\ buf[f].blk = req[t].blk /\ buf[f].flags = {} /\ ~buf[f].posted
    BY <1>2 DEF Contents, Releasing
  <1>4. /\ r \in Buffers /\ r.owner = t /\ r.blk = req[t].blk /\ r.hashed /\ r.flags = {}
        /\ ~r.posted
    BY <1>0, <1>2, <1>3 DEF Buffers
  <1>5. ListsOf(blist, f, r)
    BY <1>2, <1>3, <1>4 DEF ListsOf, Dirty
  <1>6. req[t].op \in Getting /\ moved' \in [Threads -> BOOLEAN]
    BY <1>1 DEF IInv, CallFits, Looking
  <1>7. /\ IInvButChain' /\ OthersStay(t) /\ pc'[t] \notin Seeking
        /\ \A g \in Bufs : g # f => buf'[g] = buf[g]
        /\ buf'[f].hashed => buf'[f].blk = r.blk
    <2>1. /\ Takeable(t, f) /\ req[t].op \in Getting /\ r \in Buffers /\ r.owner = t
          /\ {"ASYNC", "INVAL"} \cap r.flags = {} /\ r.blk = req[t].blk /\ r.hashed
          /\ r.posted => r.data # Junk
          /\ FreeOf(bfreelist, f) /\ ListsOf(blist, f, r) /\ Have(t, f, r, bfreelist)
          /\ moved' \in [Threads -> BOOLEAN]
      BY <1>1, <1>2, <1>4, <1>5, <1>6
    <2>2. QED BY <2>1, HaveMoves
  <1>8. Hashed(req[t].blk) = {}
    BY <1>1 DEF Chain
  <1>9. Chain'
    <2>1. \A g, h \in Bufs : buf'[g].hashed /\ buf'[h].hashed /\ buf'[g].blk = buf'[h].blk => g = h
      <3>1. \A g \in Bufs : g # f => ~(buf'[g].hashed /\ buf'[g].blk = req[t].blk)
        BY <1>7, <1>8 DEF Hashed
      <3>2. \A g, h \in Bufs : g # f /\ h # f /\ buf'[g].hashed /\ buf'[h].hashed
                                  /\ buf'[g].blk = buf'[h].blk => g = h
        BY <1>1, <1>7 DEF Chain
      <3>3. buf'[f].hashed => buf'[f].blk = req[t].blk
        BY <1>4, <1>7
      <3>4. QED BY <3>1, <3>2, <3>3
    <2>2. \A u \in Threads : ~(pc'[u] \in {"new", "asleep", "insert"} /\ ~moved'[u])
      <3>1. \A u \in Threads : u # t => pc'[u] = pc[u]
        BY <1>7 DEF OthersStay, Agents
      <3>2. QED BY <1>1, <1>7, <3>1 DEF Seeking
    <2>3. QED BY <2>1, <2>2 DEF Chain
  <1>10. QED BY <1>7, <1>9, WithChain

LEMMA UnlockStep ==
    ASSUME IInv, NEW a \in Agents, Unlock(a)
    PROVE  IInv'
  <1> DEFINE woken == IF pc[a] = "unlock wake" THEN {t \in Threads : pc[t] = "asleep"} ELSE {}
  <1>0. PICK f : f = bp[a]
    OBVIOUS
  <1>1. /\ pc[a] \in Releasing /\ buf' = [buf EXCEPT ![f].owner = Nobody]
        /\ pc' = [c \in Agents |-> IF c = a THEN next[a] ELSE IF c \in woken THEN "new" ELSE pc[c]]
        /\ bp' = [bp EXCEPT ![a] = NoBuf] /\ next' = [next EXCEPT ![a] = "idle"]
        /\ req' = IF next[a] = "idle" /\ a \in Threads THEN [req EXCEPT ![a] = NoReq] ELSE req
        /\ UNCHANGED <<bfreelist, wantfree, blist, numoutput, io, disk, moved>>
    BY <1>0 DEF Unlock, Releasing
  <1>2. TypeOK /\ CallFits(a) /\ Has(a) /\ Fits(a)
    BY DEF IInv
  <1>3. f \in Bufs /\ buf[f].owner = a /\ buf[f] \in Buffers /\ Settled(buf[f]) /\ BufferFits(f)
    <2>1. f \in Bufs /\ buf[f].owner = a
      BY <1>0, <1>1, <1>2 DEF Has, Owning, Releasing
    <2>2. Settled(buf[f])
      <3>1. Contents(pc[a], buf[f], IF a \in Threads THEN req[a] ELSE NoReq)
        BY <1>0, <1>1, <1>2 DEF Fits, Owning, Releasing
      <3>2. QED BY <1>1, <3>1 DEF Contents, Releasing
    <2>3. QED BY <1>2, <2>1, <2>2 DEF TypeOK, IInv
  <1>4. /\ \A g \in Bufs : g # f => buf'[g] = buf[g]
        /\ buf'[f].owner = Nobody /\ buf'[f].blk = buf[f].blk /\ buf'[f].hashed = buf[f].hashed
        /\ buf'[f].flags = buf[f].flags /\ buf'[f].posted = buf[f].posted
        /\ buf'[f].data = buf[f].data /\ buf' \in [Bufs -> Buffers]
    <2>1. [buf[f] EXCEPT !.owner = Nobody] \in Buffers
      BY <1>3 DEF Buffers
    <2>2. buf' = [buf EXCEPT ![f] = [buf[f] EXCEPT !.owner = Nobody]]
      BY <1>1
    <2>3. buf'[f] = [buf[f] EXCEPT !.owner = Nobody]
      BY <1>2, <1>3, <2>2 DEF TypeOK
    <2>4. QED BY <1>2, <1>3, <2>1, <2>2, <2>3 DEF TypeOK, Buffers
  <1>5. /\ pc'[a] = next[a] /\ next[a] \in Nexts /\ next'[a] = "idle"
        /\ \A c \in Agents :
             c # a => /\ pc'[c] = pc[c] \/ (c \in Threads /\ pc[c] = "asleep" /\ pc'[c] = "new")
                      /\ bp'[c] = bp[c] /\ next'[c] = next[c]
                      /\ c \in Threads => req'[c] = req[c]
        /\ a \in Threads /\ next[a] # "idle" => req'[a] = req[a]
    BY <1>1, <1>2 DEF TypeOK, Nexts
  <1> HIDE DEF woken
  <1>6. TypeOK'
    <2>1. pc' \in [Agents -> Where]
      <3>1. ASSUME NEW c \in Agents PROVE pc'[c] \in Where
        <4>1. CASE c = a
          BY <1>5, <4>1 DEF Nexts, Where
        <4>2. CASE c # a
          <5>1. pc'[c] = pc[c] \/ pc'[c] = "new"
            BY <1>5, <4>2
          <5>2. pc[c] \in Where
            BY <1>2 DEF TypeOK
          <5>3. QED BY <5>1, <5>2 DEF Where
        <4>3. QED BY <4>1, <4>2
      <3>2. QED BY <1>1, <3>1
    <2>2. req' \in [Threads -> Requests]
      BY <1>1, <1>2 DEF TypeOK, Requests, NoReq
    <2>3. bp' \in [Agents -> Bufs \union {NoBuf}] /\ next' \in [Agents -> Nexts]
      BY <1>1, <1>2 DEF TypeOK, Nexts
    <2>4. QED BY <1>1, <1>2, <1>4, <2>1, <2>2, <2>3 DEF TypeOK, Nexts
  <1>7. ASSUME NEW c \in Agents PROVE CallFits(c)' /\ Has(c)' /\ Fits(c)'
    <2>1. CASE c = a
      BY <1>2, <1>5, <2>1 DEF CallFits, Has, Fits, Nexts, Owning, Looking
    <2>2. CASE c # a
      <3>1. CallFits(c) /\ Has(c) /\ Fits(c)
        BY DEF IInv
      <3>2. CallFits(c)'
        BY <1>5, <2>2, <3>1 DEF CallFits, Owning, Looking, Releasing
      <3>3. ASSUME pc'[c] \in Owning \/ pc'[c] = "done"
            PROVE  pc'[c] = pc[c] /\ bp[c] \in Bufs /\ buf'[bp[c]] = buf[bp[c]]
        <4>1. pc'[c] = pc[c]
          BY <1>5, <2>2, <3>3 DEF Owning
        <4>2. bp[c] \in Bufs /\ (buf[bp[c]].owner = c \/ buf[bp[c]].owner = Driver)
          BY <3>1, <3>3, <4>1 DEF Has
        <4>3. bp[c] # f
          BY <1>3, <2>2, <4>2 DEF Agents
        <4>4. QED BY <1>4, <4>1, <4>2, <4>3
      <3>4. Has(c)' /\ Fits(c)'
        BY <1>1, <1>5, <2>2, <3>1, <3>3 DEF Has, Fits
      <3>5. QED BY <3>2, <3>4
    <2>3. QED BY <2>1, <2>2
  <1>8. ASSUME NEW g \in Bufs PROVE BufferFits(g)'
    <2>0. OnFree(g)' <=> OnFree(g)
      BY <1>1 DEF OnFree
    <2>1. CASE g = f
      <3>1. a # Driver /\ a # Nobody /\ \A c \in Agents : c # Nobody
        BY DEF Agents
      <3>2. f \notin io /\ "ASYNC" \notin buf[f].flags
        BY <1>1, <1>3, <3>1 DEF BufferFits, Releasing
      <3>3. OnFree(f)
        BY <1>0, <1>1, <1>3 DEF BufferFits, Releases
      <3>4. Settled(buf'[f])
        BY <1>3, <1>4 DEF Settled, Empty, Full
      <3>5. Dirty(buf'[f]) <=> f \in Range(blist'.dirty)
        BY <1>1, <1>3, <1>4 DEF BufferFits, Dirty
      <3>6. Nobody # Driver
        OBVIOUS
      <3>7. QED BY <1>1, <1>4, <2>0, <2>1, <3>1, <3>2, <3>3, <3>4, <3>5, <3>6 DEF BufferFits
    <2>2. CASE g # f
      <3>1. BufferFits(g) /\ buf'[g] = buf[g]
        BY <1>4, <2>2 DEF IInv
      <3>2. \A c \in Agents : Releases(c, g)' <=> Releases(c, g)
        BY <1>0, <1>5, <2>2 DEF Releases, Releasing, Nexts
      <3>3. \A c \in Agents : buf[g].owner = c => pc'[c] = pc[c] /\ bp'[c] = bp[c]
        <4>1. \A c \in Agents : buf[g].owner = c => pc[c] \in Owning /\ bp[c] = g
          BY <3>1 DEF BufferFits
        <4>2. QED BY <1>0, <1>5, <2>2, <4>1 DEF Owning
      <3>4. blist' = blist /\ io' = io
        BY <1>1
      <3>5. QED BY <2>0, <3>1, <3>2, <3>3, <3>4 DEF BufferFits
    <2>3. QED BY <2>1, <2>2
  <1>9. DoneApart'
    <2>1. \A c \in Interrupts : pc'[c] = "done" => pc[c] = "done" /\ bp'[c] = bp[c]
      BY <1>5 DEF Nexts, Agents
    <2>2. DoneApart
      BY DEF IInv
    <2>3. QED BY <2>1, <2>2 DEF DoneApart
  <1>10. Counted'
    <2>1. \A g \in Bufs : buf'[g].flags = buf[g].flags
      BY <1>4
    <2>2. Outstanding' = Outstanding
      BY <1>1, <1>2, <2>1 DEF Outstanding, TypeOK
    <2>3. QED BY <1>1, <2>2, CountSame DEF IInv
  <1>11. FreeListsApart' /\ ListedOnce'
    BY <1>1 DEF IInv, FreeListsApart, ListedOnce
  <1>12. Chain'
    <2>1. ChainShrinks
      BY <1>4 DEF ChainShrinks
    <2>2. \A t \in Threads : Sought(t)
      BY <1>1, <1>5 DEF Sought, Seeking, Nexts, Agents
    <2>3. QED BY <2>1, <2>2, ChainKept DEF IInv
  <1>13. QED BY <1>6, <1>7, <1>8, <1>9, <1>10, <1>11, <1>12 DEF IInv

\* What is in a buffer that the driver transfers, and for whom.
LEMMA TransferFacts ==
    ASSUME IInv, NEW f \in io
    PROVE  /\ f \in Bufs /\ buf[f] \in Buffers /\ ~buf[f].posted /\ buf[f].blk \in Blocks
           /\ "READ" \notin buf[f].flags => buf[f].data # Junk
           /\ \/ buf[f].owner = Driver /\ "ASYNC" \in buf[f].flags /\ Transferred(buf[f])
              \/ /\ "ASYNC" \notin buf[f].flags
                 /\ \E t \in Threads : /\ buf[f].owner = t /\ bp[t] = f
                                       /\ pc[t] \in {"reading", "writing"}
                                       /\ Contents(pc[t], buf[f], req[t])
  <1>1. f \in Bufs /\ buf[f] \in Buffers /\ BufferFits(f) /\ ~buf[f].posted
    BY DEF IInv, TypeOK, BufferFits
  <1>2. CASE buf[f].owner = Driver
    BY <1>1, <1>2 DEF BufferFits, Transferred
  <1>3. CASE buf[f].owner # Driver
    <2>1. PICK t \in Agents : buf[f].owner = t /\ pc[t] \in {"reading", "writing"} /\ bp[t] = f
      BY <1>1, <1>3 DEF BufferFits
    <2>2. t \in Threads
      BY <2>1 DEF IInv, CallFits, Agents, Releasing
    <2>3. Contents(pc[t], buf[f], req[t])
      BY <2>1, <2>2 DEF IInv, Fits, Owning
    <2>4. "ASYNC" \notin buf[f].flags
      BY <1>1, <1>3 DEF BufferFits
    <2>5. CASE pc[t] = "reading"
      <3>1. buf[f].blk = req[t].blk /\ "READ" \in buf[f].flags
        BY <2>3, <2>5 DEF Contents, Releasing
      <3>2. req[t] \in Requests /\ req[t].op \in Getting
        BY <2>2, <2>5 DEF IInv, TypeOK, CallFits, Looking, Agents
      <3>3. req[t].blk \in Blocks
        BY <3>2, GettingABlock
      <3>4. QED BY <1>1, <2>1, <2>2, <2>3, <2>4, <3>1, <3>3
    <2>6. CASE pc[t] = "writing"
      <3>1. buf[f].blk \in Blocks /\ buf[f].data # Junk
        BY <2>3, <2>6 DEF Contents, Releasing
      <3>2. QED BY <1>1, <2>1, <2>2, <2>3, <2>4, <3>1
    <2>7. QED BY <2>1, <2>5, <2>6
  <1>4. QED BY <1>2, <1>3

LEMMA BiodoneStep ==
    ASSUME IInv, NEW i \in Interrupts, Biodone(i)
    PROVE  IInv'
  <1>1. PICK f \in io, ok \in BOOLEAN :
             LET r == buf[f]
                 read == "READ" \in r.flags
                 left == IF read THEN numoutput ELSE numoutput - 1 IN
             /\ ok \/ (IF read THEN "read" ELSE "write") \in Failures
             /\ buf' = [buf EXCEPT ![f] =
                          [r EXCEPT !.posted = TRUE,
                                    !.flags = IF ok THEN @ ELSE @ \union {"ERROR"},
                                    !.data = IF read /\ ok THEN disk[r.blk] ELSE @]]
             /\ disk' = IF ok /\ ~read THEN [disk EXCEPT ![r.blk] = r.data] ELSE disk
             /\ io' = io \ {f}
             /\ numoutput' = left
             /\ LET woken == IF left = 0 /\ ~read THEN {t \in Threads : pc[t] = "drained"} ELSE {}
                    async == "ASYNC" \in r.flags IN
                /\ pc' = [a \in Agents |-> IF a = i THEN (IF async THEN "done" ELSE "idle")
                                         ELSE IF a \in woken THEN "drain" ELSE pc[a]]
                /\ bp' = [bp EXCEPT ![i] = IF async THEN f ELSE NoBuf]
    BY DEF Biodone
  <1>2. /\ pc[i] = "idle" /\ UNCHANGED <<bfreelist, wantfree, blist, req, moved, next>>
        /\ TypeOK /\ i \in Agents /\ i \notin Threads
    BY DEF Biodone, IInv, Agents
  <1>3. /\ f \in Bufs /\ buf[f] \in Buffers /\ ~buf[f].posted /\ buf[f].blk \in Blocks
        /\ "READ" \notin buf[f].flags => buf[f].data # Junk
        /\ \/ buf[f].owner = Driver /\ "ASYNC" \in buf[f].flags /\ Transferred(buf[f])
           \/ /\ "ASYNC" \notin buf[f].flags
              /\ \E t \in Threads : /\ buf[f].owner = t /\ bp[t] = f
                                    /\ pc[t] \in {"reading", "writing"}
                                    /\ Contents(pc[t], buf[f], req[t])
    BY TransferFacts
  <1>4. BufferFits(f)
    BY <1>3 DEF IInv
  <1>5. /\ buf' \in [Bufs -> Buffers] /\ \A g \in Bufs : g # f => buf'[g] = buf[g]
        /\ buf'[f].owner = buf[f].owner /\ buf'[f].blk = buf[f].blk
        /\ buf'[f].hashed = buf[f].hashed
        /\ buf'[f].flags = IF ok THEN buf[f].flags ELSE buf[f].flags \union {"ERROR"}
        /\ "READ" \notin buf[f].flags => buf'[f].data # Junk
        /\ ok => buf'[f].data # Junk
    <2> DEFINE s == [buf[f] EXCEPT !.posted = TRUE,
                        !.flags = IF ok THEN @ ELSE @ \union {"ERROR"},
                        !.data = IF "READ" \in buf[f].flags /\ ok THEN disk[buf[f].blk] ELSE @]
    <2>1. buf' = [buf EXCEPT ![f] = s]
      BY <1>1
    <2>2. disk[buf[f].blk] \in Values
      BY <1>2, <1>3 DEF TypeOK
    <2>3. /\ s \in Buffers /\ s.owner = buf[f].owner /\ s.blk = buf[f].blk
          /\ s.hashed = buf[f].hashed
          /\ s.flags = IF ok THEN buf[f].flags ELSE buf[f].flags \union {"ERROR"}
          /\ s.data = IF "READ" \in buf[f].flags /\ ok THEN disk[buf[f].blk] ELSE buf[f].data
      BY <1>3, <2>2 DEF Buffers, Flags
    <2> HIDE DEF s
    <2>4. buf' \in [Bufs -> Buffers] /\ buf'[f] = s /\ \A g \in Bufs : g # f => buf'[g] = buf[g]
      BY <1>2, <1>3, <2>1, <2>3 DEF TypeOK
    <2>5. s.data # Junk \/ ("READ" \in buf[f].flags /\ ~ok)
      BY <1>3, <2>2, <2>3
    <2>6. QED BY <2>3, <2>4, <2>5
  <1>6. /\ io' = io \ {f}
        /\ "READ" \in buf[f].flags => numoutput' = numoutput
        /\ "READ" \notin buf[f].flags => numoutput' = numoutput - 1
    BY <1>1
  <1>7. disk' \in [Blocks -> Values]
    <2>1. "READ" \notin buf[f].flags => buf[f].data \in Values
      BY <1>3 DEF Buffers
    <2>2. QED BY <1>1, <1>2, <1>3, <2>1 DEF TypeOK
  <1>8. /\ pc'[i] = (IF "ASYNC" \in buf[f].flags THEN "done" ELSE "idle")
        /\ "ASYNC" \in buf[f].flags => bp'[i] = f
        /\ \A c \in Agents :
             c # i => /\ pc'[c] = pc[c] \/ (pc[c] = "drained" /\ pc'[c] = "drain" /\ c \in Threads)
                      /\ bp'[c] = bp[c]
    BY <1>1, <1>2 DEF TypeOK
  <1>9. Counted' /\ numoutput' \in Nat
    <2>1. CASE "READ" \in buf[f].flags
      <3>1. Outstanding' = Outstanding
        BY <1>2, <1>3, <1>5, <1>6, <2>1 DEF Outstanding, TypeOK
      <3>2. QED BY <1>2, <1>6, <2>1, <3>1, CountSame DEF IInv, TypeOK
    <2>2. CASE "READ" \notin buf[f].flags
      <3>1. Outstanding' = Outstanding \ {f} /\ f \in Outstanding
        BY <1>2, <1>3, <1>5, <1>6, <2>2 DEF Outstanding, TypeOK
      <3>2. QED BY <1>2, <1>6, <2>2, <3>1, CountLess DEF IInv
    <2>3. QED BY <2>1, <2>2
  <1>10. TypeOK'
    <2>1. pc' \in [Agents -> Where]
      <3>1. \A c \in Agents : pc'[c] = pc[c] \/ pc'[c] \in {"done", "idle", "drain"}
        BY <1>8
      <3>2. \A c \in Agents : pc'[c] \in Where
        BY <1>2, <3>1 DEF TypeOK, Where
      <3>3. QED BY <1>1, <3>2
    <2>2. bp' \in [Agents -> Bufs \union {NoBuf}]
      BY <1>1, <1>2, <1>3 DEF TypeOK
    <2>3. io' \in SUBSET Bufs
      BY <1>2, <1>6 DEF TypeOK
    <2>4. QED BY <1>2, <1>5, <1>7, <1>9, <2>1, <2>2, <2>3 DEF TypeOK
  <1>11. ASSUME NEW c \in Agents PROVE CallFits(c)' /\ Has(c)' /\ Fits(c)'
    <2>0. CallFits(c) /\ Has(c) /\ Fits(c)
      BY DEF IInv
    <2>1. CASE c = i
      <3>1. CallFits(i)' /\ Fits(i)'
        BY <1>2, <1>8, <2>0, <2>1 DEF CallFits, Fits, Owning
      <3>2. Has(i)'
        BY <1>3, <1>5, <1>6, <1>8 DEF Has, Owning
      <3>3. QED BY <2>1, <3>1, <3>2
    <2>2. CASE c # i
      <3>1. CallFits(c)'
        BY <1>2, <1>8, <2>0, <2>2 DEF CallFits, Owning, Looking, Releasing
      <3>2. Has(c)'
        <4>1. PICK g : g = bp[c]
          OBVIOUS
        <4>2. g \in Bufs => /\ buf'[g].owner = buf[g].owner
                            /\ "ASYNC" \in buf[g].flags => "ASYNC" \in buf'[g].flags
          <5>1. CASE g = f
            BY <1>5, <5>1
          <5>2. CASE g # f
            BY <1>5, <5>2
          <5>3. QED BY <5>1, <5>2
        <4>3. pc'[c] \in Owning \/ pc'[c] = "done" => pc'[c] = pc[c] /\ bp'[c] = g
          BY <1>8, <2>2, <4>1 DEF Owning
        <4>4. /\ pc[c] \in Owning => g \in Bufs /\ buf[g].owner = c
              /\ pc[c] = "done" => /\ g \in Bufs /\ g \notin io /\ buf[g].owner = Driver
                                   /\ "ASYNC" \in buf[g].flags
          BY <2>0, <4>1 DEF Has
        <4>5. QED BY <1>6, <4>2, <4>3, <4>4 DEF Has
      <3>3. Fits(c)'
        <4> SUFFICES ASSUME pc'[c] \in Owning
                     PROVE  Contents(pc'[c], buf'[bp'[c]], IF c \in Threads THEN req'[c] ELSE NoReq)
          BY DEF Fits
        <4>1. /\ pc'[c] = pc[c] /\ bp'[c] = bp[c] /\ bp[c] \in Bufs /\ buf[bp[c]].owner = c
              /\ Contents(pc[c], buf[bp[c]], IF c \in Threads THEN req[c] ELSE NoReq)
          BY <1>8, <2>0, <2>2 DEF Has, Fits, Owning
        <4>2. CASE bp[c] # f
          BY <1>2, <1>5, <4>1, <4>2
        <4>3. CASE bp[c] = f
          <5>1. /\ c \in Threads /\ pc[c] \in {"reading", "writing"}
                /\ Contents(pc[c], buf[f], req[c])
            BY <1>3, <4>1, <4>3 DEF Agents
          <5>2. Contents(pc[c], buf'[f], req[c])
            <6>1. CASE pc[c] = "reading"
              BY <1>5, <5>1, <6>1 DEF Contents, Releasing
            <6>2. CASE pc[c] = "writing"
              BY <1>5, <5>1, <6>2 DEF Contents, Releasing
            <6>3. QED BY <5>1, <6>1, <6>2
          <5>3. QED BY <1>2, <4>1, <4>3, <5>1, <5>2
        <4>4. QED BY <4>2, <4>3
      <3>4. QED BY <3>1, <3>2, <3>3
    <2>3. QED BY <2>1, <2>2
  <1>12. ASSUME NEW g \in Bufs PROVE BufferFits(g)'
    <2>0. OnFree(g)' <=> OnFree(g)
      BY <1>2 DEF OnFree
    <2>1. BufferFits(g)
      BY DEF IInv
    <2>2. \A c \in Agents : Releases(c, g)' <=> Releases(c, g)
      BY <1>2, <1>8 DEF Releases, Releasing
    <2>3. \A c \in Agents : buf[g].owner = c => pc'[c] = pc[c] /\ bp'[c] = bp[c]
      BY <1>2, <1>8, <2>1 DEF BufferFits, Owning
    <2>4. CASE g # f
      <3>1. buf'[g] = buf[g] /\ blist' = blist /\ (g \in io' <=> g \in io)
        BY <1>2, <1>5, <1>6, <2>4
      <3>2. QED BY <2>0, <2>1, <2>2, <2>3, <3>1 DEF BufferFits
    <2>5. CASE g = f
      <3>1. f \notin io' /\ buf[f].owner # Nobody /\ blist' = blist
        BY <1>2, <1>3, <1>6 DEF Agents
      <3>2. /\ "ASYNC" \in buf'[f].flags <=> "ASYNC" \in buf[f].flags
            /\ "INVAL" \in buf'[f].flags <=> "INVAL" \in buf[f].flags
            /\ "READ" \in buf'[f].flags <=> "READ" \in buf[f].flags
            /\ Dirty(buf'[f]) <=> Dirty(buf[f])
            /\ "ERROR" \notin buf'[f].flags => buf'[f].data # Junk
        BY <1>5 DEF Dirty
      <3>3. buf'[f].owner = Driver => Transferred(buf'[f])
        BY <1>3, <1>5, <3>2 DEF Transferred
      <3>4. QED BY <1>5, <2>0, <2>1, <2>2, <2>3, <2>5, <3>1, <3>2, <3>3 DEF BufferFits
    <2>6. QED BY <2>4, <2>5
  <1>13. DoneApart'
    <2>1. \A c \in Interrupts : pc'[c] = "done" /\ c # i => /\ pc[c] = "done" /\ bp'[c] = bp[c]
                                                            /\ bp[c] # f
      <3>1. \A c \in Interrupts : pc[c] = "done" => bp[c] # f
        BY DEF IInv, Has, Agents
      <3>2. QED BY <1>8, <3>1 DEF Agents
    <2>2. pc'[i] = "done" => bp'[i] = f
      BY <1>8
    <2>3. DoneApart
      BY DEF IInv
    <2>4. QED BY <2>1, <2>2, <2>3 DEF DoneApart
  <1>14. FreeListsApart' /\ ListedOnce'
    BY <1>2 DEF IInv, FreeListsApart, ListedOnce
  <1>15. Chain'
    <2>1. ChainShrinks
      BY <1>5 DEF ChainShrinks
    <2>2. \A t \in Threads : Sought(t)
      BY <1>2, <1>8 DEF Sought, Seeking, Agents
    <2>3. QED BY <2>1, <2>2, ChainKept DEF IInv
  <1>16. QED BY <1>9, <1>10, <1>11, <1>12, <1>13, <1>14, <1>15 DEF IInv

------------------------------------------------------------------------------
(* The invariant holds *)

LEMMA Initially ==
    Init => IInv
  <1> SUFFICES ASSUME Init PROVE IInv
    OBVIOUS
  <1> DEFINE r0 == [owner |-> Nobody, blk |-> NoBlock, hashed |-> FALSE,
                    flags |-> {"INVAL"}, posted |-> FALSE, data |-> Junk]
  <1>1. PICK order \in [1 .. Cardinality(Bufs) -> Bufs] :
          /\ IsInjective(order) /\ Range(order) = Bufs
          /\ bfreelist = [LOCKED |-> <<>>, LRU |-> <<>>, AGE |-> order]
    BY DEF Init
  <1>2. /\ buf = [f \in Bufs |-> r0] /\ wantfree = FALSE
        /\ blist = [dirty |-> <<>>, clean |-> <<>>] /\ numoutput = 0
        /\ io = {} /\ disk \in [Blocks -> Values]
        /\ pc = [a \in Agents |-> "idle"] /\ req = [t \in Threads |-> NoReq]
        /\ bp = [a \in Agents |-> NoBuf]
        /\ moved = [t \in Threads |-> FALSE] /\ next = [a \in Agents |-> "idle"]
    BY DEF Init
  <1>3. r0 \in Buffers /\ Empty(r0) /\ r0.owner = Nobody /\ ~Dirty(r0) /\ "ASYNC" \notin r0.flags
        /\ ~r0.hashed
    BY DEF Buffers, Flags, Empty, Dirty
  <1> HIDE DEF r0
  <1>4. order \in Seq(Bufs) /\ Cardinality(Bufs) \in Nat
    <2>1. Cardinality(Bufs) \in Nat
      BY FS_CardinalityType
    <2>2. QED BY <2>1
  <1>5. /\ <<>> \in Seq(Bufs) /\ IsInjective(<<>>) /\ Range(<<>>) = {}
    BY DEF IsInjective, Range
  <1>6. /\ bfreelist.LOCKED = <<>> /\ bfreelist.LRU = <<>> /\ bfreelist.AGE = order
        /\ DOMAIN bfreelist = {"LOCKED", "LRU", "AGE"}
        /\ bfreelist \in [{"LOCKED", "LRU", "AGE"} -> Seq(Bufs)]
    <2>1. bfreelist = [q \in {"LOCKED", "LRU", "AGE"} |-> IF q = "AGE" THEN order ELSE <<>>]
      BY <1>1
    <2>2. bfreelist \in [{"LOCKED", "LRU", "AGE"} -> Seq(Bufs)]
      BY <1>4, <1>5, <2>1
    <2>3. QED BY <2>1, <2>2
  <1>7. /\ blist.dirty = <<>> /\ blist.clean = <<>> /\ DOMAIN blist = {"dirty", "clean"}
        /\ blist \in [{"dirty", "clean"} -> Seq(Bufs)]
    <2>1. blist = [l \in {"dirty", "clean"} |-> <<>>]
      BY <1>2
    <2>2. blist \in [{"dirty", "clean"} -> Seq(Bufs)]
      BY <1>5, <2>1
    <2>3. QED BY <2>1, <2>2
  <1>8. TypeOK
    BY <1>2, <1>3, <1>6, <1>7 DEF TypeOK, Where, NoReq, Requests
  <1>9. \A a \in Agents : CallFits(a) /\ Has(a) /\ Fits(a)
    BY <1>2 DEF CallFits, Has, Fits, Owning, Looking, Agents
  <1>10. ASSUME NEW f \in Bufs PROVE BufferFits(f)
    <2>1. OnFree(f)
      BY <1>1, <1>6 DEF OnFree
    <2>2. buf[f] = r0 /\ f \notin io /\ f \notin Range(blist.dirty)
      BY <1>2, <1>5, <1>7
    <2>3. Nobody # Driver /\ \A a \in Agents : a # Nobody
      BY DEF Agents
    <2>4. QED BY <1>3, <2>1, <2>2, <2>3 DEF BufferFits, Settled
  <1>11. DoneApart
    BY <1>2 DEF DoneApart, Agents
  <1>12. Counted
    <2>1. Outstanding = {}
      BY <1>2 DEF Outstanding
    <2>2. QED BY <1>2, <2>1, FS_EmptySet DEF Counted
  <1>13. FreeListsApart
    BY <1>1, <1>5, <1>6 DEF FreeListsApart
  <1>14. ListedOnce
    BY <1>5, <1>7 DEF ListedOnce
  <1>15. Chain
    <2>1. \A f \in Bufs : ~buf[f].hashed
      BY <1>2, <1>3
    <2>2. \A t \in Threads : pc[t] = "idle"
      BY <1>2 DEF Agents
    <2>3. QED BY <2>1, <2>2 DEF Chain
  <1>16. QED BY <1>8, <1>9, <1>10, <1>11, <1>12, <1>13, <1>14, <1>15 DEF IInv

LEMMA Stutters ==
    ASSUME IInv, UNCHANGED vars
    PROVE  IInv'
  <1>1. /\ buf' = buf /\ bfreelist' = bfreelist /\ wantfree' = wantfree /\ blist' = blist
        /\ numoutput' = numoutput /\ io' = io /\ disk' = disk /\ pc' = pc /\ req' = req
        /\ bp' = bp /\ moved' = moved /\ next' = next
    BY DEF vars, cache
  <1>2. TypeOK'
    BY <1>1 DEF IInv, TypeOK
  <1>3. \A a \in Agents : CallFits(a)' /\ Has(a)' /\ Fits(a)'
    BY <1>1 DEF IInv, CallFits, Has, Fits
  <1>4. \A f \in Bufs : BufferFits(f)'
    BY <1>1 DEF IInv, BufferFits, OnFree, Releases
  <1>5. DoneApart' /\ Counted' /\ FreeListsApart' /\ ListedOnce'
    BY <1>1 DEF IInv, DoneApart, Counted, Outstanding, FreeListsApart, ListedOnce
  <1>6. Chain'
    BY <1>1 DEF IInv, Chain, Hashed
  <1>7. QED BY <1>2, <1>3, <1>4, <1>5, <1>6 DEF IInv

\* Every step of the cache keeps the invariant: one step for each action.
LEMMA Preserved ==
    IInv /\ [Next]_vars => IInv'
  <1> SUFFICES ASSUME IInv, [Next]_vars PROVE IInv'
    OBVIOUS
  <1>1. ASSUME NEW t \in Threads, Begin(t) PROVE IInv'
    BY <1>1, StartStep, StartFlushStep, StartInvalStep DEF Begin
  <1>2. ASSUME NEW t \in Threads, Getblk(t) PROVE IInv'
    BY <1>2, SearchStep, SearchAgainStep, HitStep, StraySizeStep, GetnewbufSleepsStep,
       GetnewbufWritesStep, GetnewbufTakesStep, GiveUpDuplicateStep, InsertStep DEF Getblk
  <1>3. ASSUME NEW t \in Threads, NEW v \in Values, Write(t, v) PROVE IInv'
    BY <1>3, BdwriteStep, WriteAsyncStep, WriteSyncStep DEF Write
  <1>4. ASSUME NEW t \in Threads, Use(t) PROVE IInv'
    <2>1. t \in Agents
      BY DEF Agents
    <2>2. QED BY <1>3, <1>4, <2>1, ReadDoneStep, ReleaseStep, WriteDoneStep, UnlockStep DEF Use
  <1>5. ASSUME NEW t \in Threads, Flush(t) PROVE IInv'
    BY <1>5, FlushOneStep, FlushEndsStep, DrainStep DEF Flush
  <1>6. ASSUME NEW t \in Threads, Inval(t) PROVE IInv'
    BY <1>6, InvalNextStep, InvalMissesStep, InvalWritesStep, InvalDiscardsStep DEF Inval
  <1>7. ASSUME NEW i \in Interrupts, Interrupt(i) PROVE IInv'
    <2>1. i \in Agents
      BY DEF Agents
    <2>2. QED BY <1>7, <2>1, BiodoneStep, AcceptStep, UnlockStep DEF Interrupt
  <1>8. CASE UNCHANGED vars
    BY <1>8, Stutters
  <1>9. QED BY <1>1, <1>2, <1>4, <1>5, <1>6, <1>7, <1>8 DEF Next

\* Whatever the threads, the blocks and the buffers: what is in a buffer, who may
\* use it and the lists that it is on always fit where each thread and each
\* interrupt is in getblk, bwrite, brelse and biodone.
THEOREM Invariance ==
    Spec => []IInv
  <1>1. Init => IInv
    BY Initially
  <1>2. IInv /\ [Next]_vars => IInv'
    BY Preserved
  <1>3. QED BY <1>1, <1>2, PTL DEF Spec

------------------------------------------------------------------------------
(* The properties *)

LEMMA ConcatFacts ==
    ASSUME NEW S, NEW s \in Seq(S), NEW u \in Seq(S), IsInjective(s), IsInjective(u),
           Range(s) \cap Range(u) = {}
    PROVE  /\ s \o u \in Seq(S) /\ IsInjective(s \o u)
           /\ Range(s \o u) = Range(s) \union Range(u)
  <1> DEFINE n == s \o u
  <1>1. /\ n \in Seq(S) /\ DOMAIN n = 1 .. Len(s) + Len(u)
        /\ DOMAIN s = 1 .. Len(s) /\ DOMAIN u = 1 .. Len(u) /\ Len(s) \in Nat /\ Len(u) \in Nat
        /\ \A i \in 1 .. Len(s) : n[i] = s[i]
        /\ \A i \in Len(s) + 1 .. Len(s) + Len(u) : n[i] = u[i - Len(s)]
    OBVIOUS
  <1> HIDE DEF n
  <1>2. \A i \in DOMAIN n : \/ i \in DOMAIN s /\ n[i] = s[i]
                            \/ i - Len(s) \in DOMAIN u /\ n[i] = u[i - Len(s)]
    BY <1>1
  <1>3. Range(n) \subseteq Range(s) \union Range(u)
    BY <1>2 DEF Range
  <1>4. Range(s) \union Range(u) \subseteq Range(n)
    <2>1. \A i \in DOMAIN s : i \in DOMAIN n /\ n[i] = s[i]
      BY <1>1
    <2>2. \A i \in DOMAIN u : /\ i + Len(s) \in DOMAIN n
                              /\ i + Len(s) \in Len(s) + 1 .. Len(s) + Len(u)
                              /\ (i + Len(s)) - Len(s) = i
      BY <1>1
    <2>3. \A i \in DOMAIN u : i + Len(s) \in DOMAIN n /\ n[i + Len(s)] = u[i]
      BY <1>1, <2>2
    <2>4. QED BY <2>1, <2>3 DEF Range
  <1>5. IsInjective(n)
    <2> SUFFICES ASSUME NEW i \in DOMAIN n, NEW j \in DOMAIN n, n[i] = n[j] PROVE i = j
      BY DEF IsInjective
    <2>1. CASE i \in DOMAIN s /\ n[i] = s[i] /\ j \in DOMAIN s /\ n[j] = s[j]
      BY <2>1 DEF IsInjective
    <2>2. CASE /\ i - Len(s) \in DOMAIN u /\ n[i] = u[i - Len(s)]
               /\ j - Len(s) \in DOMAIN u /\ n[j] = u[j - Len(s)]
      <3>1. i - Len(s) = j - Len(s)
        BY <2>2 DEF IsInjective
      <3>2. QED BY <1>1, <3>1
    <2>3. CASE i \in DOMAIN s /\ n[i] = s[i] /\ j - Len(s) \in DOMAIN u /\ n[j] = u[j - Len(s)]
      <3>1. n[i] \in Range(s) /\ n[j] \in Range(u)
        BY <2>3 DEF Range
      <3>2. QED BY <3>1
    <2>4. CASE j \in DOMAIN s /\ n[j] = s[j] /\ i - Len(s) \in DOMAIN u /\ n[i] = u[i - Len(s)]
      <3>1. n[j] \in Range(s) /\ n[i] \in Range(u)
        BY <2>4 DEF Range
      <3>2. QED BY <3>1
    <2>5. QED BY <1>2, <2>1, <2>2, <2>3, <2>4
  <1>6. QED BY <1>1, <1>3, <1>4, <1>5 DEF n

LEMMA AtMostOne ==
    ASSUME NEW S, \A x, y \in S : x = y
    PROVE  Cardinality(S) <= 1
  <1>1. CASE S = {}
    <2>1. Cardinality(S) = 0
      BY <1>1, FS_EmptySet
    <2>2. QED BY <2>1
  <1>2. CASE S # {}
    <2>1. PICK x : S = {x}
      BY <1>2
    <2>2. Cardinality(S) = 1
      BY <2>1, FS_Singleton
    <2>3. QED BY <2>2
  <1>3. QED BY <1>1, <1>2

LEMMA FreeBufsFacts ==
    ASSUME IInv
    PROVE  /\ IsInjective(FreeBufs)
           /\ \A f \in Bufs : f \in Range(FreeBufs) <=> OnFree(f)
  <1>1. /\ bfreelist \in [{"LOCKED", "LRU", "AGE"} -> Seq(Bufs)] /\ FreeListsApart
    BY DEF IInv, TypeOK
  <1>2. DOMAIN bfreelist = {"LOCKED", "LRU", "AGE"}
    BY <1>1
  <1> DEFINE x == bfreelist.AGE
             y == bfreelist.LRU
             z == bfreelist.LOCKED
  <1>3. /\ x \in Seq(Bufs) /\ y \in Seq(Bufs) /\ z \in Seq(Bufs)
        /\ IsInjective(x) /\ IsInjective(y) /\ IsInjective(z)
        /\ Range(x) \cap Range(y) = {} /\ Range(x) \cap Range(z) = {}
        /\ Range(y) \cap Range(z) = {}
    BY <1>1, <1>2 DEF FreeListsApart
  <1>4. \A f \in Bufs : OnFree(f) <=> f \in Range(x) \/ f \in Range(y) \/ f \in Range(z)
    BY <1>2 DEF OnFree
  <1>5. FreeBufs = (x \o y) \o z
    BY DEF FreeBufs
  <1> HIDE DEF x, y, z
  <1>6. /\ x \o y \in Seq(Bufs) /\ IsInjective(x \o y)
        /\ Range(x \o y) = Range(x) \union Range(y)
    BY <1>3, ConcatFacts
  <1> DEFINE w == x \o y
  <1>7. w \in Seq(Bufs) /\ IsInjective(w) /\ Range(w) \cap Range(z) = {}
    BY <1>3, <1>6
  <1>8. FreeBufs = w \o z /\ Range(w) = Range(x) \union Range(y)
    BY <1>5, <1>6
  <1> HIDE DEF w
  <1>9. IsInjective(w \o z) /\ Range(w \o z) = Range(w) \union Range(z)
    BY <1>3, <1>7, ConcatFacts
  <1>10. QED BY <1>4, <1>8, <1>9

LEMMA ListsFit ==
    IInv => ListsAreRight
  <1> SUFFICES ASSUME IInv PROVE ListsAreRight
    OBVIOUS
  <1>1. TypeOK
    BY DEF IInv
  <1>2. FreeListsMatchLocks
    <2> SUFFICES ASSUME NEW f \in Bufs
                 PROVE  LET places == {i \in DOMAIN FreeBufs : FreeBufs[i] = f} IN
                        /\ Cardinality(places) <= 1
                        /\ Unlocked(f) => places # {}
                        /\ \/ buf[f].owner = Driver
                           \/ \E a \in Agents : bp[a] = f /\ pc[a] \in {"insert", "reading", "hold", "writing", "done"}
                           => places = {}
      BY DEF FreeListsMatchLocks
    <2> DEFINE places == {i \in DOMAIN FreeBufs : FreeBufs[i] = f}
    <2>1. IsInjective(FreeBufs) /\ (f \in Range(FreeBufs) <=> OnFree(f)) /\ BufferFits(f)
      BY FreeBufsFacts DEF IInv
    <2>2. places # {} <=> OnFree(f)
      BY <2>1 DEF Range
    <2>3. Cardinality(places) <= 1
      <3>1. \A i, j \in places : i = j
        BY <2>1 DEF IsInjective
      <3> HIDE DEF places
      <3>2. QED BY <3>1, AtMostOne
    <2>4. Unlocked(f) => OnFree(f)
      BY <2>1 DEF BufferFits, Unlocked
    <2>5. buf[f].owner = Driver => ~OnFree(f)
      <3>1. \A a \in Agents : Releases(a, f) => buf[f].owner = a
        BY DEF IInv, Has, Releases, Releasing, Owning
      <3>2. Driver # Nobody /\ \A a \in Agents : a # Driver
        BY DEF Agents
      <3>3. QED BY <2>1, <3>1, <3>2 DEF BufferFits
    <2>6. ASSUME NEW a \in Agents, bp[a] = f,
                 pc[a] \in {"insert", "reading", "hold", "writing", "done"}
          PROVE  ~OnFree(f)
      <3>1. CASE pc[a] = "done"
        <4>1. buf[f].owner = Driver
          BY <2>6, <3>1 DEF IInv, Has
        <4>2. QED BY <2>5, <4>1
      <3>2. CASE pc[a] # "done"
        <4>1. pc[a] \in Using
          BY <2>6, <3>2 DEF Using
        <4>2. buf[f].owner = a
          BY <2>6, <4>1 DEF IInv, Has, Using, Owning
        <4>3. \A c \in Agents : ~Releases(c, f)
          <5>1. \A c \in Agents : Releases(c, f) => buf[f].owner = c
            BY DEF IInv, Has, Releases, Releasing, Owning
          <5>2. QED BY <4>1, <4>2, <5>1 DEF Releases, Releasing, Using
        <4>4. a # Nobody
          BY DEF Agents
        <4>5. QED BY <2>1, <4>2, <4>3, <4>4 DEF BufferFits
      <3>3. QED BY <3>1, <3>2
    <2>7. QED BY <2>2, <2>3, <2>4, <2>5, <2>6
  <1>3. DirtyListIsDirty
    BY DEF IInv, BufferFits, DirtyListIsDirty
  <1>4. QED BY <1>1, <1>2, <1>3 DEF ListsAreRight

\* A buffer that is not locked is on one free list, once, and one that a thread
\* or the driver uses on none, though bremfree and binsheadfree check neither; and
\* the vnode's dirty list has the delayed writes that nobody has locked.
THEOREM ListsStayRight ==
    Spec => []ListsAreRight
  BY Invariance, ListsFit, PTL

\* What the driver has was given to it once: it stays locked and unposted until
\* biodone, and v_numoutput is the number of writes among it.
THEOREM TransfersStayExclusive ==
    Spec => []TransfersAreExclusive
  <1>1. IInv => TransfersAreExclusive
    <2> SUFFICES ASSUME IInv PROVE TransfersAreExclusive
      OBVIOUS
    <2>1. \A f \in io : ~Unlocked(f) /\ ~buf[f].posted
      <3> SUFFICES ASSUME NEW f \in io PROVE ~Unlocked(f) /\ ~buf[f].posted
        OBVIOUS
      <3>1. BufferFits(f)
        BY DEF IInv, TypeOK
      <3>2. Nobody # Driver /\ \A a \in Agents : a # Nobody
        BY DEF Agents
      <3>3. QED BY <3>1, <3>2 DEF BufferFits, Unlocked
    <2>2. QED BY <2>1 DEF IInv, Counted, Outstanding, TransfersAreExclusive
  <1>2. QED BY Invariance, <1>1, PTL

\* getblk drops its locks between the search of the chain and binshash, and still
\* no block is in two buffers on the chain.
THEOREM BlocksStayApart ==
    Spec => []OneBufferPerBlock
  <1>1. IInv => OneBufferPerBlock
    <2> SUFFICES ASSUME IInv, NEW b \in Blocks PROVE Cardinality(Hashed(b)) <= 1
      BY DEF OneBufferPerBlock
    <2>1. \A f, g \in Hashed(b) : f = g
      BY DEF IInv, Chain, Hashed
    <2>2. QED BY <2>1, AtMostOne
  <1>2. QED BY Invariance, <1>1, PTL

LEMMA DataIsHashed ==
    ASSUME IInv, NEW g \in Bufs, buf[g].data # Junk
    PROVE  buf[g].hashed
  <1>1. BufferFits(g) /\ buf[g] \in Buffers
    BY DEF IInv, TypeOK
  <1>2. CASE buf[g].owner = Nobody
    BY <1>1, <1>2 DEF BufferFits, Settled, Empty, Full
  <1>3. CASE buf[g].owner = Driver
    BY <1>1, <1>3 DEF BufferFits, Transferred
  <1>4. CASE buf[g].owner \in Agents
    <2>1. PICK a \in Agents : buf[g].owner = a
      BY <1>4
    <2>2. pc[a] \in Owning /\ bp[a] = g
      BY <1>1, <2>1 DEF BufferFits
    <2>3. PICK q : Contents(pc[a], buf[g], q)
      BY <2>2 DEF IInv, Fits
    <2>4. QED BY <2>2, <2>3 DEF Contents, Owning, Releasing, Settled, Empty, Full
  <1>5. QED BY <1>1, <1>2, <1>3, <1>4 DEF Buffers

\* Who has read a block has its contents, in the only buffer that has contents of
\* that block: neither what the buffer had before getnewbuf took it, nor those of a
\* read that has not ended.
THEOREM ReadersAlwaysHaveTheBlock ==
    Spec => []ReadersHaveTheBlock
  <1>1. IInv => ReadersHaveTheBlock
    <2> SUFFICES ASSUME IInv, NEW t \in Threads, pc[t] = "hold", req[t].op = "read"
                 PROVE  Holding(req[t].blk) = {bp[t]}
      BY DEF ReadersHaveTheBlock
    <2>1. /\ bp[t] \in Bufs /\ buf[bp[t]].blk = req[t].blk
          /\ buf[bp[t]].hashed /\ buf[bp[t]].data # Junk
      <3>1. bp[t] \in Bufs /\ Contents(pc[t], buf[bp[t]], req[t])
        BY DEF IInv, Has, Fits, Agents, Owning
      <3>2. QED BY <3>1 DEF Contents, Releasing
    <2>2. \A g \in Bufs : buf[g].blk = req[t].blk /\ buf[g].data # Junk => g = bp[t]
      BY <2>1, DataIsHashed DEF IInv, Chain
    <2>3. QED BY <2>1, <2>2 DEF Holding
  <1>2. QED BY Invariance, <1>1, PTL


------------------------------------------------------------------------------
(* What the disk follows *)

\* The last write of a buffer with fields r has failed.
Bad(r) == "ERROR" \in r.flags /\ "READ" \notin r.flags

\* The store sees nothing of it.
Hidden(r) == r.data = Junk /\ ~Bad(r)

\* What is so of a buffer that nobody has, or that is about to be unlocked.
Rests(r) == "READ" \notin r.flags /\ ("ERROR" \in r.flags => Dirty(r))

InWrite(f) == f \in io /\ "READ" \notin buf[f].flags

\* A buffer has contents only when they have been posted or are being written,
\* and they are those of the disk unless they are still to be written there.
Synced(f) ==
    LET r == buf[f] IN
    /\ r.data # Junk => r.posted \/ f \in io
    /\ r.data # Junk /\ "READ" \in r.flags => f \notin io /\ "ERROR" \notin r.flags
    /\ Bad(r) => r.data # Junk
    /\ f \in io => "ERROR" \notin r.flags
    /\ InWrite(f) => ~Dirty(r)
    /\ r.data # Junk /\ ~Dirty(r) /\ ~InWrite(f) /\ ~Bad(r) => r.data = disk[r.blk]
    /\ r.owner = Nobody => Rests(r)

Uses(a) ==
    /\ pc[a] \in Releasing => Rests(buf[bp[a]])
    /\ pc[a] = "writing" => /\ req[a].op \in Getting /\ buf[bp[a]].blk = req[a].blk
                            /\ ~Dirty(buf[bp[a]])

Following == (\A f \in Bufs : Synced(f)) /\ (\A a \in Agents : Uses(a))

\* t has its buffer as that of a block.
HasBlock(t) == t \in Threads /\ pc[t] \in {"hold", "writing"}

LEMMA HeldBlock ==
    ASSUME IInv, Following, NEW t \in Threads, HasBlock(t)
    PROVE  /\ bp[t] \in Bufs /\ buf[bp[t]].owner = t /\ buf[bp[t]].hashed
           /\ buf[bp[t]].blk = req[t].blk /\ req[t].blk \in Blocks
           /\ req[t].op \in Getting
  <1>1. /\ bp[t] \in Bufs /\ buf[bp[t]].owner = t
        /\ Contents(pc[t], buf[bp[t]], req[t])
    BY DEF IInv, Has, Fits, HasBlock, Owning, Agents
  <1>2. buf[bp[t]].hashed /\ buf[bp[t]].blk = req[t].blk /\ req[t].op \in Getting
    <2>1. CASE pc[t] = "hold"
      <3>1. req[t].op \in Getting
        BY <2>1 DEF IInv, CallFits, Looking, Agents
      <3>2. QED BY <1>1, <2>1, <3>1 DEF Contents, Releasing
    <2>2. CASE pc[t] = "writing"
      BY <1>1, <2>2 DEF Contents, Releasing, Following, Uses, Agents
    <2>3. QED BY <2>1, <2>2 DEF HasBlock
  <1>3. req[t].blk \in Blocks
    BY <1>2 DEF IInv, TypeOK, Requests, Getting
  <1>4. QED BY <1>1, <1>2, <1>3

LEMMA OneHolder ==
    ASSUME IInv, Following, NEW b, NEW t \in HolderOf(b), NEW u \in HolderOf(b)
    PROVE  t = u
  <1>1. HasBlock(t) /\ HasBlock(u) /\ t \in Threads /\ u \in Threads /\ req[t].blk = req[u].blk
    BY DEF HolderOf, HasBlock
  <1>2. bp[t] = bp[u]
    BY <1>1, HeldBlock DEF IInv, Chain
  <1>3. QED BY <1>1, <1>2, HeldBlock

LEMMA HasData ==
    ASSUME IInv, NEW f \in Bufs, buf[f].data # Junk
    PROVE  buf[f].hashed /\ buf[f].blk \in Blocks
  <1>1. buf[f].hashed
    BY DataIsHashed
  <1>2. BufferFits(f) /\ buf[f] \in Buffers
    BY DEF IInv, TypeOK
  <1>3. CASE buf[f].owner = Nobody
    BY <1>2, <1>3, <1>1 DEF BufferFits, Settled, Empty, Full
  <1>4. CASE buf[f].owner = Driver
    BY <1>2, <1>4 DEF BufferFits, Transferred
  <1>5. CASE buf[f].owner \in Agents
    <2>1. PICK a \in Agents : buf[f].owner = a
      BY <1>5
    <2>2. pc[a] \in Owning /\ bp[a] = f
      BY <1>2, <2>1 DEF BufferFits
    <2>3. Contents(pc[a], buf[f], IF a \in Threads THEN req[a] ELSE NoReq) /\ CallFits(a)
      BY <2>2 DEF IInv, Fits
    <2>4. CASE pc[a] \in {"writing", "unlock", "unlock wake"}
      BY <1>1, <2>3, <2>4 DEF Contents, Releasing, Settled, Empty, Full
    <2>5. CASE pc[a] \in {"insert", "reading", "hold"}
      <3>1. a \in Threads /\ req[a].op \in Getting
        BY <2>3, <2>5 DEF CallFits, Looking, Agents, Releasing
      <3>2. req[a].blk \in Blocks
        BY <3>1 DEF IInv, TypeOK, Requests, Getting
      <3>3. buf[f].blk = req[a].blk
        BY <2>3, <2>5, <3>1 DEF Contents, Releasing
      <3>4. QED BY <1>1, <3>2, <3>3
    <2>6. QED BY <2>2, <2>4, <2>5 DEF Owning
  <1>6. QED BY <1>2, <1>3, <1>4, <1>5 DEF Buffers

------------------------------------------------------------------------------
(* The store that the cache is seen as *)

Holder == [b \in Blocks |-> IF HolderOf(b) = {} THEN Nobody ELSE CHOOSE t \in HolderOf(b) : TRUE]
Writing == {b \in Blocks : \E t \in HolderOf(b) : pc[t] = "writing"}
Value == [b \in Blocks |-> IF Holding(b) = {} THEN disk[b]
                           ELSE buf[CHOOSE f \in Holding(b) : TRUE].data]
Failed == {b \in Blocks : \E f \in Bufs :
             buf[f].blk = b /\ "ERROR" \in buf[f].flags /\ "READ" \notin buf[f].flags}

\* It is the same for block c after a step as before.
SameBlock(c) ==
    /\ Holder'[c] = Holder[c] /\ (c \in Writing' <=> c \in Writing)
    /\ Value'[c] = Value[c] /\ (c \in Failed' <=> c \in Failed)
    /\ disk'[c] = disk[c]
Only(b) == \A c \in Blocks : c # b => SameBlock(c)

\* A thread goes on with its block, or without one.
HolderStays(t) ==
    /\ HasBlock(t)' <=> HasBlock(t)
    /\ HasBlock(t) => pc'[t] = pc[t] /\ req'[t] = req[t]

\* A block of whose contents no buffer loses or gets any.
LEMMA Unseen ==
    ASSUME NEW c \in Blocks, disk'[c] = disk[c],
           \A f \in Bufs : (buf[f].blk = c /\ ~Hidden(buf[f])) \/ (buf'[f].blk = c /\ ~Hidden(buf'[f]))
                           => buf'[f].blk = buf[f].blk /\ buf'[f].data = buf[f].data,
           \A t \in Threads : HolderStays(t) \/ (t \notin HolderOf(c) /\ t \notin HolderOf(c)')
    PROVE  /\ Holder'[c] = Holder[c] /\ (c \in Writing' <=> c \in Writing)
           /\ Value'[c] = Value[c]
           /\ (\A f \in Bufs : Bad(buf'[f]) /\ buf'[f].blk = c => Bad(buf[f]))
              => (c \in Failed' => c \in Failed)
           /\ (\A f \in Bufs : buf'[f].blk = c /\ Bad(buf'[f]) <=> buf[f].blk = c /\ Bad(buf[f]))
              => SameBlock(c)
  <1>1. HolderOf(c)' = HolderOf(c) /\ \A t \in HolderOf(c) : pc'[t] = pc[t]
    BY DEF HolderOf, HolderStays, HasBlock
  <1>2. Holder'[c] = Holder[c]
    BY <1>1 DEF Holder
  <1>3. c \in Writing' <=> c \in Writing
    BY <1>1 DEF Writing
  <1>4. Holding(c)' = Holding(c) /\ \A f \in Holding(c) : buf'[f].data = buf[f].data
    BY DEF Holding, Hidden
  <1>5. Value'[c] = Value[c]
    <2>1. Holding(c) # {} => (CHOOSE f \in Holding(c) : TRUE) \in Holding(c)
      OBVIOUS
    <2>2. QED BY <1>4, <2>1 DEF Value
  <1>6. ASSUME \A f \in Bufs : Bad(buf'[f]) /\ buf'[f].blk = c => Bad(buf[f])
        PROVE  c \in Failed' => c \in Failed
    BY <1>6 DEF Failed, Bad, Hidden
  <1>7. ASSUME \A f \in Bufs : buf'[f].blk = c /\ Bad(buf'[f]) <=> buf[f].blk = c /\ Bad(buf[f])
        PROVE  c \in Failed' <=> c \in Failed
    BY <1>7 DEF Failed, Bad, Hidden
  <1>8. QED BY <1>2, <1>3, <1>5, <1>6, <1>7 DEF SameBlock

LEMMA HolderIs ==
    ASSUME NEW b \in Blocks, NEW t, HolderOf(b) \subseteq {t}
    PROVE  /\ Holder[b] = IF t \in HolderOf(b) THEN t ELSE Nobody
           /\ b \in Writing <=> t \in HolderOf(b) /\ pc[t] = "writing"
  <1>1. CASE t \in HolderOf(b)
    <2>1. HolderOf(b) = {t} /\ (CHOOSE u \in {t} : TRUE) = t
      BY <1>1
    <2>2. QED BY <2>1 DEF Holder, Writing
  <1>2. CASE t \notin HolderOf(b)
    <2>1. HolderOf(b) = {}
      BY <1>2
    <2>2. QED BY <2>1 DEF Holder, Writing
  <1>3. QED BY <1>1, <1>2

LEMMA ValueIs ==
    ASSUME NEW b \in Blocks, NEW f \in Bufs, Holding(b) \subseteq {f}
    PROVE  Value[b] = IF f \in Holding(b) THEN buf[f].data ELSE disk[b]
  <1>1. CASE f \in Holding(b)
    <2>1. Holding(b) = {f} /\ (CHOOSE g \in {f} : TRUE) = f
      BY <1>1
    <2>2. QED BY <2>1 DEF Value
  <1>2. CASE f \notin Holding(b)
    <2>1. Holding(b) = {}
      BY <1>2
    <2>2. QED BY <2>1 DEF Value
  <1>3. QED BY <1>1, <1>2

------------------------------------------------------------------------------
(* A step with one buffer *)

\* f has the contents of block b, if any buffer has, and a is the only thread
\* that may have it.
Mine(a, f, b) ==
    /\ f \in Bufs /\ b \in Blocks /\ buf[f].blk = b
    /\ buf[f].hashed \/ Hashed(b) = {}
    /\ buf[f].owner \in {Nobody, Driver, a}

\* Agent a turns it into r, of block b or hidden.
Turns(a, f, b, r) ==
    /\ buf' = [buf EXCEPT ![f] = r] /\ (r.blk = b \/ Hidden(r))
    /\ \A c \in Blocks : c # b => disk'[c] = disk[c]
    /\ \A t \in Threads : t # a => HolderStays(t)
    /\ HasBlock(a) => req[a].blk = b
    /\ HasBlock(a)' => req'[a].blk = b

LEMMA OnlyMine ==
    ASSUME IInv, Following, NEW a \in Agents, NEW f, NEW b, Mine(a, f, b)
    PROVE  /\ \A g \in Bufs : buf[g].blk = b /\ g # f => buf[g].data = Junk /\ ~Bad(buf[g])
           /\ HolderOf(b) \subseteq {a}
  <1>1. \A g \in Bufs : buf[g].blk = b /\ buf[g].hashed => g = f
    BY DEF Mine, IInv, Chain, Hashed
  <1>2. \A g \in Bufs : buf[g].blk = b /\ g # f => buf[g].data = Junk
    BY <1>1, HasData
  <1>3. \A g \in Bufs : Bad(buf[g]) => buf[g].data # Junk
    BY DEF Following, Synced
  <1>4. ASSUME NEW t \in HolderOf(b) PROVE t = a
    <2>1. t \in Threads /\ HasBlock(t) /\ req[t].blk = b
      BY DEF HolderOf, HasBlock
    <2>2. bp[t] \in Bufs /\ buf[bp[t]].owner = t /\ buf[bp[t]].hashed /\ buf[bp[t]].blk = b
      BY <2>1, HeldBlock
    <2>3. buf[f].owner = t
      BY <1>1, <2>2
    <2>4. QED BY <2>1, <2>3 DEF Mine
  <1>5. QED BY <1>2, <1>3, <1>4

LEMMA View ==
    ASSUME IInv, Following, NEW a \in Agents, NEW f, NEW b, NEW r, Mine(a, f, b), Turns(a, f, b, r)
    PROVE  /\ Only(b)
           /\ Holder[b] = IF HasBlock(a) THEN a ELSE Nobody
           /\ Holder'[b] = IF HasBlock(a)' THEN a ELSE Nobody
           /\ b \in Writing <=> HasBlock(a) /\ pc[a] = "writing"
           /\ b \in Writing' <=> HasBlock(a)' /\ pc'[a] = "writing"
           /\ Value[b] = IF buf[f].data # Junk THEN buf[f].data ELSE disk[b]
           /\ Value'[b] = IF r.blk = b /\ r.data # Junk THEN r.data ELSE disk'[b]
           /\ b \in Failed <=> Bad(buf[f])
           /\ b \in Failed' <=> r.blk = b /\ Bad(r)
  <1>1. f \in Bufs /\ b \in Blocks /\ buf[f].blk = b /\ b # NoBlock
    BY DEF Mine
  <1>2. buf'[f] = r /\ \A g \in Bufs : g # f => buf'[g] = buf[g]
    BY <1>1 DEF Turns, IInv, TypeOK
  <1>3. Only(b)
    <2> SUFFICES ASSUME NEW c \in Blocks, c # b PROVE SameBlock(c)
      BY DEF Only
    <2>1. disk'[c] = disk[c] /\ c # NoBlock
      BY DEF Turns
    <2>2. \A g \in Bufs : buf[g].blk = c \/ (buf'[g].blk = c /\ ~Hidden(buf'[g])) => buf'[g] = buf[g]
      BY <1>1, <1>2, <2>1 DEF Turns
    <2>3. \A t \in Threads : HolderStays(t) \/ (t \notin HolderOf(c) /\ t \notin HolderOf(c)')
      <3>1. a \notin HolderOf(c) /\ a \notin HolderOf(c)'
        BY DEF Turns, HolderOf, HasBlock
      <3>2. QED BY <3>1 DEF Turns
    <2>4. \A g \in Bufs : buf'[g].blk = c /\ Bad(buf'[g]) <=> buf[g].blk = c /\ Bad(buf[g])
      <3>1. \A g \in Bufs : Hidden(buf'[g]) => ~Bad(buf'[g])
        BY DEF Hidden
      <3>2. QED BY <2>2, <3>1
    <2>5. QED BY <2>1, <2>2, <2>3, <2>4, Unseen
  <1>4. /\ \A g \in Bufs : buf[g].blk = b /\ g # f => buf[g].data = Junk /\ ~Bad(buf[g])
        /\ HolderOf(b) \subseteq {a}
    BY OnlyMine
  <1>5. HolderOf(b)' \subseteq {a}
    BY <1>4 DEF Turns, HolderStays, HolderOf, HasBlock
  <1>6. (a \in HolderOf(b) <=> HasBlock(a)) /\ (a \in HolderOf(b)' <=> HasBlock(a)')
    BY DEF Turns, HolderOf, HasBlock
  <1>7. /\ Holder[b] = IF HasBlock(a) THEN a ELSE Nobody
        /\ b \in Writing <=> HasBlock(a) /\ pc[a] = "writing"
    BY <1>1, <1>4, <1>6, HolderIs
  <1>8. /\ Holder'[b] = IF HasBlock(a)' THEN a ELSE Nobody
        /\ b \in Writing' <=> HasBlock(a)' /\ pc'[a] = "writing"
    <2>1. CASE a \in HolderOf(b)'
      <3>1. HolderOf(b)' = {a} /\ (CHOOSE u \in {a} : TRUE) = a
        BY <1>5, <2>1
      <3>2. QED BY <1>1, <1>6, <2>1, <3>1 DEF Holder, Writing
    <2>2. CASE a \notin HolderOf(b)'
      <3>1. HolderOf(b)' = {}
        BY <1>5, <2>2
      <3>2. QED BY <1>1, <1>6, <2>2, <3>1 DEF Holder, Writing
    <2>3. QED BY <2>1, <2>2
  <1>9. Value[b] = IF buf[f].data # Junk THEN buf[f].data ELSE disk[b]
    <2>1. Holding(b) \subseteq {f} /\ (f \in Holding(b) <=> buf[f].data # Junk)
      BY <1>1, <1>4 DEF Holding
    <2>2. QED BY <1>1, <2>1, ValueIs
  <1>10. Value'[b] = IF r.blk = b /\ r.data # Junk THEN r.data ELSE disk'[b]
    <2>1. Holding(b)' \subseteq {f} /\ (f \in Holding(b)' <=> r.blk = b /\ r.data # Junk)
      BY <1>1, <1>2, <1>4 DEF Holding
    <2>2. CASE f \in Holding(b)'
      <3>1. Holding(b)' = {f} /\ (CHOOSE g \in {f} : TRUE) = f
        BY <2>1, <2>2
      <3>2. QED BY <1>1, <1>2, <2>1, <2>2, <3>1 DEF Value
    <2>3. CASE f \notin Holding(b)'
      <3>1. Holding(b)' = {}
        BY <2>1, <2>3
      <3>2. QED BY <1>1, <2>1, <2>3, <3>1 DEF Value
    <2>4. QED BY <2>2, <2>3
  <1>11. b \in Failed <=> Bad(buf[f])
    BY <1>1, <1>4 DEF Failed, Bad
  <1>12. b \in Failed' <=> r.blk = b /\ Bad(r)
    BY <1>1, <1>2, <1>4 DEF Failed, Bad
  <1>13. QED BY <1>3, <1>7, <1>8, <1>9, <1>10, <1>11, <1>12

------------------------------------------------------------------------------
(* Steps of the store *)

\* The module's own instance has these expressions where this one has their names.
Store == INSTANCE BlockStore WITH
    holder <- Holder, writing <- Writing, value <- Value, failed <- Failed

LEMMA SameStore ==
    /\ Store!Init => Abstract!Init
    /\ [Store!Next]_(Store!vars) => [Abstract!Next]_(Abstract!vars)
  <1> USE DEF Holder, Writing, Value, Failed
  <1>1. Store!Init => Abstract!Init
    BY Zenon DEF Store!Init, Abstract!Init
  <1>2. Store!vars' = Store!vars => Abstract!vars' = Abstract!vars
    BY Zenon DEF Store!vars, Abstract!vars
  <1>3. Store!Next => Abstract!Next
    BY Zenon
    DEF Store!Next, Store!Take, Store!Give, Store!Fallback, Store!Put, Store!Write, Store!Store,
        Store!GiveUp, Store!Retry,
        Abstract!Next, Abstract!Take, Abstract!Give, Abstract!Fallback, Abstract!Put,
        Abstract!Write, Abstract!Store, Abstract!GiveUp, Abstract!Retry
  <1>4. QED BY <1>1, <1>2, <1>3

StoreStep == [Store!Next]_(Store!vars)

LEMMA Mapped ==
    /\ Holder = [b \in Blocks |-> Holder[b]] /\ Holder' = [b \in Blocks |-> Holder'[b]]
    /\ Value = [b \in Blocks |-> Value[b]] /\ Value' = [b \in Blocks |-> Value'[b]]
    /\ Writing \subseteq Blocks /\ Writing' \subseteq Blocks
    /\ Failed \subseteq Blocks /\ Failed' \subseteq Blocks
  <1>1. Holder = [b \in Blocks |-> Holder[b]] /\ Holder' = [b \in Blocks |-> Holder'[b]]
    BY DEF Holder
  <1>2. Value = [b \in Blocks |-> Value[b]] /\ Value' = [b \in Blocks |-> Value'[b]]
    BY DEF Value
  <1>3. QED BY <1>1, <1>2 DEF Writing, Failed

\* Only the requests to write again change, and some of them end.
LEMMA RetrySeen ==
    ASSUME TypeOK, TypeOK',
           \A c \in Blocks : /\ Holder'[c] = Holder[c] /\ (c \in Writing' <=> c \in Writing)
                             /\ Value'[c] = Value[c] /\ (c \in Failed' => c \in Failed)
                             /\ disk'[c] = disk[c]
    PROVE  StoreStep
  <1>1. Holder' = Holder /\ Value' = Value /\ Writing' = Writing
    BY Mapped
  <1>2. disk' = disk
    BY DEF TypeOK
  <1>3. Failed' = Failed \ (Failed \ Failed') /\ (Failed \ Failed') \in SUBSET Blocks
    BY Mapped
  <1>4. \E S \in SUBSET Blocks : Store!Retry(S)
    BY <1>1, <1>2, <1>3 DEF Store!Retry
  <1>5. QED BY <1>4 DEF StoreStep, Store!Next

LEMMA NothingSeen ==
    ASSUME TypeOK, TypeOK', \A c \in Blocks : SameBlock(c)
    PROVE  StoreStep
  BY RetrySeen DEF SameBlock

LEMMA OnlyFacts ==
    ASSUME TypeOK, TypeOK', NEW b \in Blocks, Only(b)
    PROVE  /\ Holder' = [Holder EXCEPT ![b] = Holder'[b]]
           /\ Value' = [Value EXCEPT ![b] = Value'[b]]
           /\ disk' = [disk EXCEPT ![b] = disk'[b]]
           /\ Writing' = IF b \in Writing' THEN Writing \union {b} ELSE Writing \ {b}
           /\ Failed' = IF b \in Failed' THEN Failed \union {b} ELSE Failed \ {b}
           /\ Holder'[b] = Holder[b] => Holder' = Holder
           /\ Value'[b] = Value[b] => Value' = Value
           /\ disk'[b] = disk[b] => disk' = disk
           /\ (b \in Writing' <=> b \in Writing) => Writing' = Writing
           /\ (b \in Failed' <=> b \in Failed) => Failed' = Failed
  <1>0. \A c \in Blocks : c # b => SameBlock(c)
    BY DEF Only
  <1>1. /\ Holder' = [Holder EXCEPT ![b] = Holder'[b]]
        /\ Holder'[b] = Holder[b] => Holder' = Holder
    BY <1>0, Mapped DEF SameBlock
  <1>2. /\ Value' = [Value EXCEPT ![b] = Value'[b]]
        /\ Value'[b] = Value[b] => Value' = Value
    BY <1>0, Mapped DEF SameBlock
  <1>3. /\ disk' = [disk EXCEPT ![b] = disk'[b]]
        /\ disk'[b] = disk[b] => disk' = disk
    BY <1>0 DEF SameBlock, TypeOK
  <1>4. /\ Writing' = IF b \in Writing' THEN Writing \union {b} ELSE Writing \ {b}
        /\ (b \in Writing' <=> b \in Writing) => Writing' = Writing
    <2>1. /\ Writing \subseteq Blocks /\ Writing' \subseteq Blocks
          /\ \A c \in Blocks : c # b => (c \in Writing' <=> c \in Writing)
      BY <1>0, Mapped DEF SameBlock
    <2>2. CASE b \in Writing'
      BY <2>1, <2>2
    <2>3. CASE b \notin Writing'
      BY <2>1, <2>3
    <2>4. QED BY <2>2, <2>3
  <1>5. /\ Failed' = IF b \in Failed' THEN Failed \union {b} ELSE Failed \ {b}
        /\ (b \in Failed' <=> b \in Failed) => Failed' = Failed
    <2>1. /\ Failed \subseteq Blocks /\ Failed' \subseteq Blocks
          /\ \A c \in Blocks : c # b => (c \in Failed' <=> c \in Failed)
      BY <1>0, Mapped DEF SameBlock
    <2>2. CASE b \in Failed'
      BY <2>1, <2>2
    <2>3. CASE b \notin Failed'
      BY <2>1, <2>3
    <2>4. QED BY <2>2, <2>3
  <1>6. QED BY <1>1, <1>2, <1>3, <1>4, <1>5

LEMMA TakeSeen ==
    ASSUME TypeOK, TypeOK', NEW b \in Blocks, Only(b), NEW t \in Threads,
           Holder[b] = Nobody, Holder'[b] = t, Value'[b] = Value[b], disk'[b] = disk[b],
           \/ (b \in Writing' <=> b \in Writing) /\ (b \in Failed' <=> b \in Failed)
           \/ b \in Writing' /\ b \notin Failed'
    PROVE  StoreStep
  <1>1. Store!Take(t, b)
    BY OnlyFacts DEF Store!Take
  <1>2. QED BY <1>1 DEF StoreStep, Store!Next

LEMMA GiveSeen ==
    ASSUME TypeOK, TypeOK', NEW b \in Blocks, Only(b), NEW t \in Threads,
           Holder[b] = t, Holder'[b] = Nobody, disk'[b] = disk[b],
           b \in Writing => Value[b] = disk[b] \/ b \in Failed, b \notin Writing',
           Value'[b] = Value[b] \/ (b \in Failed /\ Value'[b] = disk[b]),
           b \in Failed' => b \in Failed
    PROVE  StoreStep
  <1>1. Value'[b] \in Store!Fallback(b)
    BY DEF Store!Fallback
  <1>2. Failed' \in {Failed, Failed \ {b}} /\ disk' = disk /\ Writing' = Writing \ {b}
    BY OnlyFacts
  <1>3. Store!Give(t, b)
    BY <1>1, <1>2, OnlyFacts DEF Store!Give
  <1>4. QED BY <1>3 DEF StoreStep, Store!Next

LEMMA PutSeen ==
    ASSUME TypeOK, TypeOK', NEW b \in Blocks, Only(b), NEW t \in Threads, NEW v \in Values,
           Holder[b] = t, Holder'[b] = Nobody, disk'[b] = disk[b],
           b \notin Writing, b \notin Writing', Value'[b] = v, b \in Failed' => b \in Failed
    PROVE  StoreStep
  <1>1. Failed' \in {Failed, Failed \ {b}} /\ disk' = disk /\ Writing' = Writing
    BY OnlyFacts
  <1>2. Store!Put(t, b, v)
    BY <1>1, OnlyFacts DEF Store!Put
  <1>3. QED BY <1>2 DEF StoreStep, Store!Next

LEMMA WriteSeen ==
    ASSUME TypeOK, TypeOK', NEW b \in Blocks, Only(b), NEW t \in Threads, NEW v \in Values,
           Holder[b] = t, Holder'[b] = t, disk'[b] = disk[b],
           b \notin Writing, b \in Writing', Value'[b] = v, b \notin Failed'
    PROVE  StoreStep
  <1>1. Store!Write(t, b, v)
    BY OnlyFacts DEF Store!Write
  <1>2. QED BY <1>1 DEF StoreStep, Store!Next

LEMMA DiskSeen ==
    ASSUME TypeOK, TypeOK', NEW b \in Blocks, Only(b),
           Holder[b] = Nobody \/ b \in Writing, Holder'[b] = Holder[b],
           b \in Writing' <=> b \in Writing, Value'[b] = Value[b],
           \/ disk'[b] = Value[b] /\ (b \in Failed' <=> b \in Failed)
           \/ disk'[b] = disk[b] /\ b \in Failed'
    PROVE  StoreStep
  <1>1. Store!Store(b)
    BY OnlyFacts DEF Store!Store
  <1>2. QED BY <1>1 DEF StoreStep, Store!Next

LEMMA GiveUpSeen ==
    ASSUME TypeOK, TypeOK', NEW b \in Blocks, Only(b),
           Holder[b] = Nobody, Holder'[b] = Nobody, b \in Failed, b \notin Failed',
           b \in Writing' <=> b \in Writing, Value'[b] = disk[b], disk'[b] = disk[b]
    PROVE  StoreStep
  <1>1. Store!GiveUp(b)
    BY OnlyFacts DEF Store!GiveUp
  <1>2. QED BY <1>1 DEF StoreStep, Store!Next

\* What is wanted of a step: the disk goes on following, and the store sees a
\* step of its own or nothing.
Stores == Following' /\ StoreStep

------------------------------------------------------------------------------
(* Steps with one buffer, and the invariant *)

\* Who has a buffer goes on with it.
OthersGoOn(a) ==
    \A c \in Agents :
      c # a /\ (pc[c] \in Owning \/ pc'[c] \in Owning) =>
        pc'[c] = pc[c] /\ bp'[c] = bp[c] /\ (c \in Threads => req'[c] = req[c])

LEMMA StayingGoesOn ==
    ASSUME NEW a, OthersStay(a)
    PROVE  OthersGoOn(a)
  BY DEF OthersStay, OthersGoOn

LEMMA GoesFacts ==
    ASSUME TypeOK, NEW a \in Agents, NEW w, Goes(a, w)
    PROVE  OthersStay(a) /\ pc'[a] = w /\ (w # "idle" => req' = req)
  BY DEF Goes, OthersStay, TypeOK

LEMMA GoesWithFacts ==
    ASSUME TypeOK, NEW a \in Agents, NEW f, NEW w, NEW n, GoesWith(a, f, w, n)
    PROVE  OthersStay(a) /\ pc'[a] = w /\ bp'[a] = f /\ req' = req
  BY DEF GoesWith, OthersStay, TypeOK

\* a may change f.
Grasps(a, f) == f \in Bufs /\ buf[f].owner \in {Nobody, Driver, a}

\* a makes f into r, and the contents of no other buffer are any different from the disk's.
Changes(a, f, r) ==
    /\ buf' = [buf EXCEPT ![f] = r] /\ OthersGoOn(a)
    /\ \A g \in Bufs : g # f => /\ g \in io' <=> g \in io
                                /\ buf[g].data # Junk => disk'[buf[g].blk] = disk[buf[g].blk]

LEMMA OthersHold ==
    ASSUME NEW a, OthersGoOn(a), NEW t \in Threads, t # a
    PROVE  HolderStays(t)
  BY DEF OthersGoOn, HolderStays, HasBlock, Owning, Agents

LEMMA FollowKept ==
    ASSUME IInv, Following, NEW a \in Agents, NEW f, NEW r, Grasps(a, f), Changes(a, f, r),
           Synced(f)', Uses(a)'
    PROVE  Following' /\ \A t \in Threads : t # a => HolderStays(t)
  <1>1. buf'[f] = r /\ \A g \in Bufs : g # f => buf'[g] = buf[g]
    BY DEF Grasps, Changes, IInv, TypeOK
  <1>2. ASSUME NEW g \in Bufs PROVE Synced(g)'
    <2>1. CASE g # f
      <3>1. Synced(g) /\ buf'[g] = buf[g]
        BY <1>1, <2>1 DEF Following
      <3>2. g \in io' <=> g \in io
        BY <2>1 DEF Changes
      <3>3. buf[g].data # Junk => disk'[buf[g].blk] = disk[buf[g].blk]
        BY <2>1 DEF Changes
      <3>4. QED BY <3>1, <3>2, <3>3 DEF Synced, InWrite
    <2>2. QED BY <2>1
  <1>3. ASSUME NEW c \in Agents PROVE Uses(c)'
    <2>1. CASE c # a /\ pc'[c] \in Owning
      <3>1. /\ pc'[c] = pc[c] /\ bp'[c] = bp[c] /\ (c \in Threads => req'[c] = req[c])
        BY <2>1 DEF Changes, OthersGoOn
      <3>2. bp[c] \in Bufs /\ buf[bp[c]].owner = c
        BY <2>1, <3>1 DEF IInv, Has
      <3>3. bp[c] # f
        BY <2>1, <3>2 DEF Grasps, Agents
      <3>4. buf'[bp[c]] = buf[bp[c]] /\ Uses(c)
        BY <1>1, <3>2, <3>3 DEF Following
      <3>5. pc[c] = "writing" => c \in Threads
        BY DEF IInv, CallFits, Agents, Releasing
      <3>6. QED BY <3>1, <3>4, <3>5 DEF Uses
    <2>2. CASE pc'[c] \notin Owning
      BY <2>2 DEF Uses, Owning, Releasing
    <2>3. QED BY <2>1, <2>2
  <1>4. QED BY <1>2, <1>3, OthersHold DEF Following, Changes

------------------------------------------------------------------------------
(* Steps that the store does not see, but for failed writes tried again *)

Quiet(f) ==
    \/ buf'[f].blk = buf[f].blk /\ buf'[f].data = buf[f].data /\ (Bad(buf'[f]) => Bad(buf[f]))
    \/ Hidden(buf[f]) /\ Hidden(buf'[f])

LEMMA QuietSeen ==
    ASSUME TypeOK, TypeOK', disk' = disk, \A f \in Bufs : Quiet(f), \A t \in Threads : HolderStays(t)
    PROVE  StoreStep
  <1>1. ASSUME NEW c \in Blocks
        PROVE  /\ Holder'[c] = Holder[c] /\ (c \in Writing' <=> c \in Writing)
               /\ Value'[c] = Value[c] /\ (c \in Failed' => c \in Failed)
               /\ disk'[c] = disk[c]
    <2>1. \A f \in Bufs : (buf[f].blk = c /\ ~Hidden(buf[f])) \/ (buf'[f].blk = c /\ ~Hidden(buf'[f]))
                           => buf'[f].blk = buf[f].blk /\ buf'[f].data = buf[f].data
      BY DEF Quiet
    <2>2. \A f \in Bufs : Bad(buf'[f]) /\ buf'[f].blk = c => Bad(buf[f])
      BY DEF Quiet, Hidden
    <2>3. QED BY <2>1, <2>2, Unseen
  <1>2. QED BY <1>1, RetrySeen

\* Who does not come to a block or leave one.
LEMMA StaysOff ==
    ASSUME NEW a, a \in Threads => pc[a] \notin {"hold", "writing"},
           a \in Threads => pc'[a] \notin {"hold", "writing"}
    PROVE  HolderStays(a)
  BY DEF HolderStays, HasBlock

\* The step of an agent with one buffer.
LEMMA QuietStep ==
    ASSUME IInv, IInv', Following, NEW a \in Agents, NEW f, NEW r, Grasps(a, f), Changes(a, f, r),
           Synced(f)', Uses(a)', disk' = disk, Quiet(f), a \in Threads => HolderStays(a)
    PROVE  Stores
  <1>1. Following' /\ \A t \in Threads : t # a => HolderStays(t)
    BY FollowKept
  <1>2. \A g \in Bufs : Quiet(g)
    <2>1. \A g \in Bufs : g # f => buf'[g] = buf[g]
      BY DEF Grasps, Changes, IInv, TypeOK
    <2>2. QED BY <2>1 DEF Quiet
  <1>3. QED BY <1>1, <1>2, QuietSeen DEF Stores, IInv

------------------------------------------------------------------------------
(* Releasing and writing *)

\* What brelse leaves in the store.
LEMMA LeftSeen ==
    ASSUME NEW r \in Buffers, Discarded(r) \/ Full(r)
    PROVE  /\ Rests(LeftBy(r))
           /\ Discarded(r) => Hidden(LeftBy(r)) /\ LeftBy(r).data = Junk /\ LeftBy(r).blk = NoBlock
           /\ ~Discarded(r) => /\ LeftBy(r).blk = r.blk /\ LeftBy(r).data = r.data
                               /\ LeftBy(r).posted = r.posted
                               /\ Bad(LeftBy(r)) <=> Bad(r)
                               /\ ~Dirty(LeftBy(r)) => ~Dirty(r) /\ "ERROR" \notin r.flags
  <1>1. CASE Discarded(r)
    <2>1. LeftBy(r) = Emptied(r)
      BY <1>1 DEF LeftBy
    <2>2. /\ Emptied(r).flags = {"INVAL"} /\ Emptied(r).data = Junk /\ Emptied(r).blk = NoBlock
      BY DEF Emptied, Buffers
    <2>3. QED BY <1>1, <2>1, <2>2 DEF Rests, Hidden, Bad
  <1>2. CASE ~Discarded(r)
    <2> DEFINE kept == IF Retried(r) THEN r.flags \union {"DELWRI"} ELSE r.flags
    <2>1. LeftBy(r) = [r EXCEPT !.flags = kept \ {"ASYNC", "READ"}]
      BY <1>2 DEF LeftBy
    <2>2. "ERROR" \in r.flags <=> Retried(r)
      BY <1>2 DEF Discarded, Retried, WriteFailed
    <2>3. Retried(r) => "READ" \notin r.flags
      BY DEF Retried, WriteFailed
    <2>4. /\ "ERROR" \in kept <=> "ERROR" \in r.flags
          /\ "DELWRI" \in kept <=> Retried(r) \/ Dirty(r)
      BY DEF Dirty
    <2> HIDE DEF kept
    <2>5. /\ LeftBy(r).flags = kept \ {"ASYNC", "READ"} /\ LeftBy(r).blk = r.blk
          /\ LeftBy(r).data = r.data /\ LeftBy(r).posted = r.posted
      BY <2>1 DEF Buffers
    <2>6. QED BY <1>2, <2>2, <2>3, <2>4, <2>5 DEF Rests, Bad, Dirty
  <1>3. QED BY <1>1, <1>2

\* f with fields r may be given back: nothing is in it that the disk does not get.
Returnable(f, r) ==
    \/ Discarded(r)
    \/ Full(r) /\ r.posted /\ (~Dirty(r) /\ "ERROR" \notin r.flags => r.data = disk[r.blk])

LEMMA ReleaseFollows ==
    ASSUME IInv, Following, NEW a \in Agents, NEW f, Grasps(a, f), f \notin io,
           NEW r \in Buffers, Returnable(f, r), NEW fl, NEW bl, NEW n, Brelse(a, f, r, fl, bl, n)
    PROVE  /\ Changes(a, f, LeftBy(r)) /\ buf'[f] = LeftBy(r)
           /\ Synced(f)' /\ Uses(a)' /\ pc'[a] \in Releasing
           /\ req' = req /\ disk' = disk /\ ~HasBlock(a)'
  <1>1. TypeOK /\ f \in Bufs /\ (Discarded(r) \/ Full(r))
    BY DEF IInv, Grasps, Returnable
  <1>2. /\ buf' = [buf EXCEPT ![f] = LeftBy(r)] /\ disk' = disk /\ io' = io
        /\ GoesWith(a, f, IF wantfree THEN "unlock wake" ELSE "unlock", n)
    BY DEF Brelse, LeftBy
  <1>3. OthersStay(a) /\ pc'[a] \in Releasing /\ bp'[a] = f /\ req' = req
    <2>1. PICK w \in Releasing : GoesWith(a, f, w, n)
      BY <1>2 DEF Releasing
    <2>2. QED BY <1>1, <2>1, GoesWithFacts
  <1>4. Changes(a, f, LeftBy(r))
    BY <1>2, <1>3, StayingGoesOn DEF Changes
  <1>5. buf'[f] = LeftBy(r)
    BY <1>1, <1>2 DEF TypeOK
  <1>6. Rests(LeftBy(r))
    BY <1>1, LeftSeen
  <1>7. Uses(a)'
    BY <1>3, <1>5, <1>6 DEF Uses, Releasing
  <1>8. Synced(f)'
    <2>1. CASE Discarded(r)
      <3>1. Hidden(LeftBy(r)) /\ LeftBy(r).data = Junk
        BY <1>1, <2>1, LeftSeen
      <3>2. QED BY <1>2, <1>5, <1>6, <3>1 DEF Synced, InWrite, Hidden
    <2>2. CASE ~Discarded(r)
      <3>1. Full(r) /\ r.posted /\ (~Dirty(r) /\ "ERROR" \notin r.flags => r.data = disk[r.blk])
        BY <2>2 DEF Returnable
      <3>2. /\ LeftBy(r).blk = r.blk /\ LeftBy(r).data = r.data /\ LeftBy(r).posted
            /\ ~Dirty(LeftBy(r)) => ~Dirty(r) /\ "ERROR" \notin r.flags
        BY <1>1, <2>2, <3>1, LeftSeen
      <3>3. QED BY <1>2, <1>5, <1>6, <3>1, <3>2 DEF Synced, InWrite, Rests, Full
    <2>3. QED BY <2>1, <2>2
  <1>9. ~HasBlock(a)'
    BY <1>3 DEF HasBlock, Releasing
  <1>10. QED BY <1>2, <1>3, <1>4, <1>5, <1>7, <1>8, <1>9

LEMMA StartedSeen ==
    ASSUME NEW r \in Buffers
    PROVE  /\ StartedBy(r).flags = r.flags \ {"READ", "ERROR", "DELWRI"}
           /\ StartedBy(r).blk = r.blk /\ StartedBy(r).data = r.data
           /\ ~Bad(StartedBy(r)) /\ ~Dirty(StartedBy(r)) /\ Rests(StartedBy(r))
           /\ "ERROR" \notin StartedBy(r).flags
  <1>1. /\ StartedBy(r).flags = r.flags \ {"READ", "ERROR", "DELWRI"}
        /\ StartedBy(r).blk = r.blk /\ StartedBy(r).data = r.data
    BY DEF StartedBy, Buffers
  <1>2. QED BY <1>1 DEF Bad, Dirty, Rests

LEMMA WriteFollows ==
    ASSUME IInv, NEW a \in Agents, NEW f, Grasps(a, f), OthersStay(a),
           NEW r \in Buffers, StartWrite(f, r)
    PROVE  /\ Changes(a, f, StartedBy(r)) /\ buf'[f] = StartedBy(r) /\ Synced(f)' /\ disk' = disk
  <1>1. TypeOK /\ f \in Bufs
    BY DEF IInv, Grasps
  <1>2. /\ buf' = [buf EXCEPT ![f] = StartedBy(r)] /\ io' = io \union {f} /\ disk' = disk
    BY DEF StartWrite, StartedBy
  <1>3. buf'[f] = StartedBy(r) /\ f \in io'
    BY <1>1, <1>2 DEF TypeOK
  <1>4. Changes(a, f, StartedBy(r))
    BY <1>2, StayingGoesOn DEF Changes
  <1>5. /\ ~Bad(StartedBy(r)) /\ ~Dirty(StartedBy(r)) /\ Rests(StartedBy(r))
        /\ "ERROR" \notin StartedBy(r).flags
    BY StartedSeen
  <1>6. Synced(f)'
    BY <1>3, <1>5 DEF Synced, InWrite, Rests
  <1>7. QED BY <1>2, <1>3, <1>4, <1>6

\* An asynchronous write of a buffer with the contents that it has.
LEMMA BawriteSeen ==
    ASSUME IInv, IInv', Following, NEW t \in Threads, NEW f, Grasps(t, f),
           NEW r \in Buffers, r.blk = buf[f].blk, r.data = buf[f].data,
           NEW w \in {"idle", "new", "flush", "inval"}, pc[t] \notin {"hold", "writing"},
           Bawrite(t, f, r, w)
    PROVE  Stores
  <1> DEFINE q == [r EXCEPT !.flags = @ \union {"ASYNC"}]
  <1>1. q \in Buffers /\ q.blk = r.blk /\ q.data = r.data /\ StartWrite(f, q)
    BY DEF Buffers, Flags, Bawrite
  <1> HIDE DEF q
  <1>2. t \in Agents /\ OthersStay(t) /\ pc'[t] = w
    BY GoesFacts DEF Agents, Bawrite, IInv
  <1>3. Changes(t, f, StartedBy(q)) /\ buf'[f] = StartedBy(q) /\ Synced(f)' /\ disk' = disk
    BY <1>1, <1>2, WriteFollows
  <1>4. Uses(t)'
    BY <1>2 DEF Uses, Releasing
  <1>5. Quiet(f)
    BY <1>1, <1>3, StartedSeen DEF Quiet
  <1>6. HolderStays(t)
    BY <1>2, StaysOff
  <1>7. QED BY <1>2, <1>3, <1>4, <1>5, <1>6, QuietStep

LEMMA StepView ==
    ASSUME IInv, Following, NEW a \in Agents, NEW f, NEW b, NEW r, Mine(a, f, b), Changes(a, f, r),
           Synced(f)', Uses(a)', r.blk = b \/ Hidden(r),
           \A c \in Blocks : c # b => disk'[c] = disk[c],
           HasBlock(a) => req[a].blk = b, HasBlock(a)' => req'[a].blk = b
    PROVE  /\ Following' /\ Only(b)
           /\ Holder[b] = IF HasBlock(a) THEN a ELSE Nobody
           /\ Holder'[b] = IF HasBlock(a)' THEN a ELSE Nobody
           /\ b \in Writing <=> HasBlock(a) /\ pc[a] = "writing"
           /\ b \in Writing' <=> HasBlock(a)' /\ pc'[a] = "writing"
           /\ Value[b] = IF buf[f].data # Junk THEN buf[f].data ELSE disk[b]
           /\ Value'[b] = IF r.blk = b /\ r.data # Junk THEN r.data ELSE disk'[b]
           /\ b \in Failed <=> Bad(buf[f])
           /\ b \in Failed' <=> r.blk = b /\ Bad(r)
  <1>1. Grasps(a, f)
    BY DEF Mine, Grasps
  <1>2. Following' /\ \A t \in Threads : t # a => HolderStays(t)
    BY <1>1, FollowKept
  <1>3. Turns(a, f, b, r)
    BY <1>2 DEF Turns, Changes
  <1>4. QED BY <1>2, <1>3, View

------------------------------------------------------------------------------
(* Steps of threads that have no buffer *)

\* Errors of buffers that are still to be written, and that nobody has, may be cleared.
LEMMA WalkSeen ==
    ASSUME IInv, IInv', Following, NEW t \in Threads, OthersStay(t), disk' = disk, io' = io,
           \A f \in Bufs : Cleared(f) /\ (buf'[f] # buf[f] => Dirty(buf[f])),
           pc[t] \notin Owning, pc'[t] \notin Owning
    PROVE  Stores
  <1>1. \A f \in Bufs : Quiet(f)
    <2> SUFFICES ASSUME NEW f \in Bufs PROVE Quiet(f)
      OBVIOUS
    <2>1. /\ buf'[f].blk = buf[f].blk /\ buf'[f].data = buf[f].data
          /\ buf'[f].flags = buf[f].flags \/ buf'[f].flags = buf[f].flags \ {"ERROR"}
      BY ClearedSame DEF IInv
    <2>2. QED BY <2>1 DEF Quiet, Bad
  <1>2. \A u \in Threads : HolderStays(u)
    BY OthersHold, StayingGoesOn, StaysOff DEF Owning
  <1>3. StoreStep
    BY <1>1, <1>2, QuietSeen DEF IInv
  <1>4. ASSUME NEW f \in Bufs PROVE Synced(f)'
    <2>1. Synced(f) /\ TypeOK /\ buf[f] \in Buffers
      BY DEF Following, IInv, TypeOK
    <2>2. CASE buf'[f] = buf[f]
      BY <2>1, <2>2 DEF Synced, InWrite
    <2>3. CASE buf'[f] # buf[f]
      <3>1. /\ buf'[f].blk = buf[f].blk /\ buf'[f].data = buf[f].data
            /\ buf'[f].posted = buf[f].posted /\ buf'[f].owner = buf[f].owner
            /\ buf'[f].flags = buf[f].flags \ {"ERROR"} /\ Dirty(buf[f])
        BY <2>1, <2>3, ClearedSame
      <3>2. /\ Dirty(buf'[f]) /\ (Bad(buf'[f]) => Bad(buf[f]))
            /\ ("READ" \in buf'[f].flags <=> "READ" \in buf[f].flags)
            /\ "ERROR" \notin buf'[f].flags
        BY <3>1 DEF Dirty, Bad
      <3>3. QED BY <2>1, <3>1, <3>2 DEF Synced, InWrite, Rests
    <2>4. QED BY <2>2, <2>3
  <1>5. ASSUME NEW c \in Agents PROVE Uses(c)'
    <2>1. CASE c # t /\ pc[c] \in Owning
      <3>1. /\ pc'[c] = pc[c] /\ bp'[c] = bp[c] /\ (c \in Threads => req'[c] = req[c])
        BY <2>1 DEF OthersStay
      <3>2. bp[c] \in Bufs /\ buf[bp[c]].owner = c /\ c # Nobody
        BY <2>1 DEF IInv, Has, Agents
      <3>3. buf'[bp[c]] = buf[bp[c]] /\ Uses(c)
        BY <3>2, ClearedSame DEF Following, IInv
      <3>4. pc[c] = "writing" => c \in Threads
        BY DEF IInv, CallFits, Agents, Releasing
      <3>5. QED BY <3>1, <3>3, <3>4 DEF Uses
    <2>2. CASE c = t \/ pc[c] \notin Owning
      <3>1. pc'[c] \notin Owning
        BY <2>2 DEF OthersStay
      <3>2. QED BY <3>1 DEF Uses, Owning, Releasing
    <2>3. QED BY <2>1, <2>2
  <1>6. QED BY <1>3, <1>4, <1>5 DEF Stores, Following

LEMMA GoSeen ==
    ASSUME IInv, IInv', Following, NEW t \in Threads, pc[t] \notin Owning,
           NEW w \in {"idle", "search", "drain", "drained", "inval"}, Goes(t, w), UNCHANGED cache
    PROVE  Stores
  <1>1. OthersStay(t) /\ pc'[t] = w
    BY GoesFacts DEF Agents, IInv
  <1>2. \A f \in Bufs : Cleared(f) /\ (buf'[f] # buf[f] => Dirty(buf[f]))
    BY DEF cache, Cleared
  <1>3. QED BY <1>1, <1>2, WalkSeen DEF cache, Owning

LEMMA LookUpSeen ==
    ASSUME IInv, IInv', Following, NEW t \in Threads, pc[t] \in {"idle", "search"}, NEW r, LookUp(t, r)
    PROVE  Stores
  <1>1. TypeOK /\ t \in Agents
    BY DEF IInv, Agents
  <1>2. /\ req' = [req EXCEPT ![t] = r] /\ UNCHANGED cache /\ next' = next
        /\ \/ pc' = [pc EXCEPT ![t] = "lock"] /\ \E f \in Bufs : bp' = [bp EXCEPT ![t] = f]
           \/ pc' = [pc EXCEPT ![t] = "new"] /\ bp' = bp
    BY DEF LookUp, Hashed
  <1>3. OthersStay(t)
    BY <1>1, <1>2 DEF OthersStay, TypeOK
  <1>4. pc'[t] \in {"lock", "new"}
    BY <1>1, <1>2 DEF TypeOK
  <1>5. \A f \in Bufs : Cleared(f) /\ (buf'[f] # buf[f] => Dirty(buf[f]))
    BY <1>2 DEF cache, Cleared
  <1>6. QED BY <1>2, <1>3, <1>4, <1>5, WalkSeen DEF cache, Owning

LEMMA StartSeen ==
    ASSUME IInv, IInv', Following, NEW t \in Threads, NEW op \in Getting, NEW b \in Blocks,
           Start(t, op, b)
    PROVE  Stores
  BY LookUpSeen DEF Start

LEMMA SearchSeen ==
    ASSUME IInv, IInv', Following, NEW t \in Threads, Search(t)
    PROVE  Stores
  BY LookUpSeen DEF Search

LEMMA SearchAgainSeen ==
    ASSUME IInv, IInv', Following, NEW t \in Threads, SearchAgain(t)
    PROVE  Stores
  <1>0. PICK f, r : f = bp[t] /\ r = [buf[f] EXCEPT !.hashed = @ /\ buf[f].blk # req[t].blk]
    OBVIOUS
  <1>1. /\ pc[t] = "lock" /\ Unlocked(f) /\ Goes(t, "search")
        /\ buf' = [buf EXCEPT ![f] = r] /\ io' = io /\ disk' = disk
    BY <1>0 DEF SearchAgain, Locks
  <1>2. f \in Bufs /\ t \in Agents /\ TypeOK
    BY <1>0, <1>1 DEF IInv, CallFits, Agents
  <1>3. Grasps(t, f) /\ OthersStay(t) /\ pc'[t] = "search"
    BY <1>1, <1>2, GoesFacts DEF Grasps, Unlocked
  <1>4. Changes(t, f, r)
    BY <1>1, <1>3, StayingGoesOn DEF Changes
  <1>5. /\ buf'[f].blk = buf[f].blk /\ buf'[f].data = buf[f].data /\ buf'[f].flags = buf[f].flags
        /\ buf'[f].posted = buf[f].posted /\ buf'[f].owner = buf[f].owner
    BY <1>0, <1>1, <1>2 DEF TypeOK, Buffers
  <1>6. Synced(f)'
    <2>1. Synced(f)
      BY <1>2 DEF Following
    <2>2. QED BY <1>1, <1>5, <2>1 DEF Synced, InWrite, Bad, Dirty, Rests
  <1>7. Uses(t)' /\ HolderStays(t)
    BY <1>1, <1>3, StaysOff DEF Uses, Releasing
  <1>8. Quiet(f)
    BY <1>5 DEF Quiet, Bad
  <1>9. QED BY <1>1, <1>2, <1>3, <1>4, <1>6, <1>7, <1>8, QuietStep

LEMMA GetnewbufSleepsSeen ==
    ASSUME IInv, IInv', Following, NEW t \in Threads, GetnewbufSleeps(t)
    PROVE  Stores
  <1>1. /\ pc[t] = "new" /\ pc' = [pc EXCEPT ![t] = "asleep"]
        /\ UNCHANGED <<buf, bfreelist, blist, numoutput, io, disk, req, bp, moved, next>>
    BY DEF GetnewbufSleeps
  <1>2. OthersStay(t) /\ pc'[t] = "asleep"
    BY <1>1 DEF OthersStay, IInv, TypeOK, Agents
  <1>3. \A f \in Bufs : Cleared(f) /\ (buf'[f] # buf[f] => Dirty(buf[f]))
    BY <1>1 DEF Cleared
  <1>4. QED BY <1>1, <1>2, <1>3, WalkSeen DEF Owning

LEMMA ClearSeen ==
    ASSUME IInv, IInv', Following, NEW t \in Threads, pc[t] = "idle", ClearErrors,
           NEW w \in {"flush", "inval"}, NEW r, pc' = [pc EXCEPT ![t] = w],
           req' = [req EXCEPT ![t] = r],
           UNCHANGED <<bfreelist, wantfree, blist, numoutput, io, disk, bp, moved, next>>
    PROVE  Stores
  <1>1. OthersStay(t) /\ pc'[t] = w
    BY DEF OthersStay, IInv, TypeOK, Agents
  <1>2. ASSUME NEW f \in Bufs PROVE Cleared(f) /\ (buf'[f] # buf[f] => Dirty(buf[f]))
    <2>1. Cleared(f) /\ (buf'[f] # buf[f] => f \in Range(blist.dirty))
      BY DEF ClearErrors, Cleared, Unlocked
    <2>2. QED BY <2>1 DEF IInv, BufferFits
  <1>3. QED BY <1>1, <1>2, WalkSeen DEF Owning

LEMMA StartFlushSeen ==
    ASSUME IInv, IInv', Following, NEW t \in Threads, NEW sync \in BOOLEAN, StartFlush(t, sync)
    PROVE  Stores
  <1> DEFINE r == [op |-> "flush", sync |-> sync]
  <1>1. /\ pc[t] = "idle" /\ ClearErrors /\ pc' = [pc EXCEPT ![t] = "flush"]
        /\ req' = [req EXCEPT ![t] = r]
        /\ UNCHANGED <<bfreelist, wantfree, blist, numoutput, io, disk, bp, moved, next>>
    BY DEF StartFlush
  <1> HIDE DEF r
  <1>2. QED BY <1>1, ClearSeen

LEMMA StartInvalSeen ==
    ASSUME IInv, IInv', Following, NEW t \in Threads, StartInval(t)
    PROVE  Stores
  <1> DEFINE r == [op |-> "inval", list |-> "dirty"]
  <1>1. /\ pc[t] = "idle" /\ ClearErrors /\ pc' = [pc EXCEPT ![t] = "inval"]
        /\ req' = [req EXCEPT ![t] = r]
        /\ UNCHANGED <<bfreelist, wantfree, blist, numoutput, io, disk, bp, moved, next>>
    BY DEF StartInval
  <1> HIDE DEF r
  <1>2. QED BY <1>1, ClearSeen

LEMMA FlushEndsSeen ==
    ASSUME IInv, IInv', Following, NEW t \in Threads, FlushEnds(t)
    PROVE  Stores
  <1>1. PICK w \in {"drain", "idle"} : Goes(t, w)
    BY DEF FlushEnds
  <1>2. QED BY <1>1, GoSeen DEF FlushEnds, Owning

LEMMA DrainSeen ==
    ASSUME IInv, IInv', Following, NEW t \in Threads, Drain(t)
    PROVE  Stores
  <1>1. PICK w \in {"drained", "idle"} : Goes(t, w)
    BY DEF Drain
  <1>2. QED BY <1>1, GoSeen DEF Drain, Owning

LEMMA InvalMissesSeen ==
    ASSUME IInv, IInv', Following, NEW t \in Threads, InvalMisses(t)
    PROVE  Stores
  BY GoSeen DEF InvalMisses, Locks, Owning

LEMMA InvalNextSeen ==
    ASSUME IInv, IInv', Following, NEW t \in Threads, InvalNext(t)
    PROVE  Stores
  <1> DEFINE l == InvalList(t)
  <1>1. pc[t] = "inval" /\ UNCHANGED cache
    BY DEF InvalNext
  <1>2. CASE blist[l] # <<>>
    <2>1. PICK f, q : /\ pc' = [pc EXCEPT ![t] = "inval lock"] /\ bp' = [bp EXCEPT ![t] = f]
                      /\ req' = [req EXCEPT ![t] = q] /\ next' = next
      BY <1>2 DEF InvalNext
    <2>2. OthersStay(t) /\ pc'[t] = "inval lock"
      BY <2>1 DEF OthersStay, IInv, TypeOK, Agents
    <2>3. \A g \in Bufs : Cleared(g) /\ (buf'[g] # buf[g] => Dirty(buf[g]))
      BY <1>1 DEF cache, Cleared
    <2>4. QED BY <1>1, <2>2, <2>3, WalkSeen DEF cache, Owning
  <1>3. CASE blist[l] = <<>>
    <2>1. PICK w \in {"idle", "drain"} : Goes(t, w)
      BY <1>3 DEF InvalNext
    <2>2. QED BY <1>1, <2>1, GoSeen DEF Owning
  <1>4. QED BY <1>2, <1>3

------------------------------------------------------------------------------
(* Getting a buffer *)

LEMMA FreeFacts ==
    ASSUME IInv, Following, NEW t \in Threads, NEW f \in Bufs, Unlocked(f), pc[t] \notin Owning
    PROVE  /\ Grasps(t, f) /\ f \notin io /\ buf[f] \in Buffers /\ Synced(f) /\ t \in Agents
           /\ Settled(buf[f]) /\ Rests(buf[f])
           /\ buf[f].blk \in Blocks => Mine(t, f, buf[f].blk) /\ Full(buf[f])
           /\ buf[f].blk \notin Blocks => Hidden(buf[f])
  <1>1. /\ f \notin io /\ buf[f] \in Buffers /\ Settled(buf[f]) /\ Synced(f) /\ t \in Agents
    BY Lockable DEF Takeable, Following, Agents
  <1>2. Rests(buf[f]) /\ Grasps(t, f)
    BY <1>1 DEF Synced, Unlocked, Grasps
  <1>3. buf[f].blk \in Blocks => Mine(t, f, buf[f].blk) /\ Full(buf[f])
    BY <1>1, <1>2 DEF Settled, Empty, Full, Mine, Grasps
  <1>4. buf[f].blk \notin Blocks => Hidden(buf[f])
    BY <1>1 DEF Settled, Empty, Full, Hidden, Bad
  <1>5. QED BY <1>1, <1>2, <1>3, <1>4

\* What makes f the buffer that t is given for block b, with the fields r.
Suits(t, f, b, r) ==
    /\ Mine(t, f, b) /\ f \notin io /\ Rests(buf[f]) /\ req[t].op \in Getting
    /\ req[t].blk = b /\ pc[t] \in {"lock", "insert"}
    /\ r \in Buffers /\ r.owner = t /\ r.blk = b /\ r.hashed
    /\ r.flags = buf[f].flags /\ r.posted = buf[f].posted /\ r.data = buf[f].data
    /\ "INVAL" \notin r.flags /\ (r.posted <=> r.data # Junk)

LEMMA HaveHoldSeen ==
    ASSUME IInv, IInv', Following, NEW t \in Threads, NEW f, NEW b, NEW r, Suits(t, f, b, r),
           buf' = [buf EXCEPT ![f] = r], GoesWith(t, f, "hold", "idle"), io' = io, disk' = disk
    PROVE  Stores
  <1>1. t \in Agents /\ f \in Bufs /\ TypeOK /\ b \in Blocks /\ ~HasBlock(t) /\ t # Nobody
    BY DEF IInv, Suits, Mine, HasBlock, Agents
  <1>2. OthersStay(t) /\ pc'[t] = "hold" /\ req' = req
    BY <1>1, GoesWithFacts
  <1>3. Changes(t, f, r) /\ buf'[f] = r
    BY <1>1, <1>2, StayingGoesOn DEF Changes, TypeOK
  <1>4. Synced(f)'
    <2>1. Synced(f) /\ r.owner # Nobody
      BY <1>1 DEF Following, Suits
    <2>2. QED BY <1>3, <2>1 DEF Synced, InWrite, Bad, Dirty, Suits, Mine
  <1>5. Uses(t)' /\ HasBlock(t)'
    BY <1>2 DEF Uses, Releasing, HasBlock
  <1>6. /\ Mine(t, f, b) /\ r.blk = b /\ req'[t].blk = b /\ r.data = buf[f].data
        /\ Bad(r) <=> Bad(buf[f])
    BY <1>2 DEF Suits, Bad
  <1>7. /\ Following' /\ Only(b) /\ Holder[b] = Nobody /\ Holder'[b] = t
        /\ b \notin Writing /\ b \notin Writing' /\ Value'[b] = Value[b]
        /\ b \in Failed' <=> b \in Failed
    BY <1>1, <1>2, <1>3, <1>4, <1>5, <1>6, StepView
  <1>8. StoreStep
    BY <1>1, <1>7, TakeSeen DEF IInv
  <1>9. QED BY <1>7, <1>8 DEF Stores

\* A read is started, and the caller waits for it or not.
LEMMA HaveReadSeen ==
    ASSUME IInv, IInv', Following, NEW t \in Threads, NEW f, NEW b, NEW r, Suits(t, f, b, r), ~r.posted,
           NEW s, s.data = r.data, s.flags \in {r.flags \union {"READ"}, r.flags \union {"READ", "ASYNC"}},
           s.owner # Nobody, buf' = [buf EXCEPT ![f] = s],
           io' = io \union {f}, OthersStay(t), pc'[t] \in {"reading", "idle"}, disk' = disk
    PROVE  Stores
  <1>1. t \in Agents /\ f \in Bufs /\ TypeOK /\ Grasps(t, f)
    BY DEF IInv, Suits, Mine, Agents, Grasps
  <1>2. s.data = Junk /\ "READ" \in s.flags /\ "ERROR" \notin s.flags /\ s.owner # Nobody
    <2>1. "ERROR" \notin r.flags
      BY <1>1 DEF Suits, Following, Synced, Rests, Bad
    <2>2. QED BY <2>1 DEF Suits
  <1>3. Changes(t, f, s) /\ buf'[f] = s
    BY <1>1, StayingGoesOn DEF Changes, TypeOK
  <1>4. Synced(f)'
    BY <1>2, <1>3 DEF Synced, InWrite, Bad
  <1>5. Uses(t)' /\ HolderStays(t)
    <2>1. pc[t] \notin {"hold", "writing"}
      BY DEF Suits
    <2>2. QED BY <2>1, StaysOff DEF Uses, Releasing
  <1>6. Quiet(f)
    <2>1. buf[f].data = Junk /\ Synced(f)
      BY <1>1 DEF Suits, Following
    <2>2. QED BY <1>2, <1>3, <2>1 DEF Quiet, Hidden, Synced, Bad
  <1>7. QED BY <1>1, <1>3, <1>4, <1>5, <1>6, QuietStep

\* The buffer of a block that nobody has is given back, or thrown away with its block.
LEMMA GivenBackSeen ==
    ASSUME IInv, IInv', Following, NEW a \in Agents, NEW f, Grasps(a, f), f \notin io,
           a \in Threads => pc[a] \notin {"hold", "writing"},
           buf[f].blk \in Blocks => Mine(a, f, buf[f].blk),
           buf[f].blk \notin Blocks => Hidden(buf[f]),
           NEW r \in Buffers, Returnable(f, r), NEW fl, NEW bl, NEW n, Brelse(a, f, r, fl, bl, n),
           r.blk = buf[f].blk, r.data = buf[f].data,
           Bad(buf[f]) \/ (Discarded(r) => Hidden(buf[f]) \/ buf[f].data = disk[buf[f].blk]),
           Bad(r) => Bad(buf[f])
    PROVE  Stores
  <1>1. TypeOK /\ f \in Bufs /\ (Discarded(r) \/ Full(r)) /\ Synced(f)
    BY DEF IInv, Grasps, Returnable, Following
  <1>2. /\ Changes(a, f, LeftBy(r)) /\ buf'[f] = LeftBy(r)
        /\ Synced(f)' /\ Uses(a)' /\ pc'[a] \in Releasing
        /\ req' = req /\ disk' = disk /\ ~HasBlock(a)'
    BY ReleaseFollows
  <1>3. ~HasBlock(a) /\ (a \in Threads => HolderStays(a))
    BY <1>2 DEF HasBlock, HolderStays
  <1>4. CASE ~Discarded(r) \/ Hidden(buf[f])
    <2>1. Quiet(f)
      <3>1. CASE ~Discarded(r)
        BY <1>1, <1>2, <3>1, LeftSeen DEF Quiet
      <3>2. CASE Discarded(r) /\ Hidden(buf[f])
        BY <1>1, <1>2, <3>2, LeftSeen DEF Quiet
      <3>3. QED BY <1>4, <3>1, <3>2
    <2>2. QED BY <1>2, <1>3, <2>1, QuietStep
  <1>5. CASE Discarded(r) /\ ~Hidden(buf[f])
    <2>1. PICK b \in Blocks : buf[f].blk = b /\ Mine(a, f, b)
      BY <1>5
    <2>2. Hidden(LeftBy(r)) /\ LeftBy(r).blk # b /\ ~Bad(LeftBy(r))
      <3>1. Hidden(LeftBy(r)) /\ LeftBy(r).blk = NoBlock
        BY <1>1, <1>5, LeftSeen
      <3>2. QED BY <3>1 DEF Hidden
    <2>3. /\ Following' /\ Only(b) /\ Holder[b] = Nobody /\ Holder'[b] = Nobody
          /\ b \notin Writing /\ b \notin Writing'
          /\ Value[b] = IF buf[f].data # Junk THEN buf[f].data ELSE disk[b]
          /\ Value'[b] = disk[b]
          /\ b \in Failed <=> Bad(buf[f])
          /\ b \notin Failed'
      BY <1>2, <1>3, <2>1, <2>2, StepView
    <2>4. CASE Bad(buf[f])
      <3>1. disk'[b] = disk[b] /\ TypeOK'
        BY <1>2 DEF IInv
      <3>2. StoreStep
        BY <1>1, <2>3, <2>4, <3>1, GiveUpSeen
      <3>3. QED BY <2>3, <3>2 DEF Stores
    <2>5. CASE ~Bad(buf[f])
      <3>1. Value[b] = disk[b]
        BY <1>5, <2>1, <2>3, <2>5
      <3>2. SameBlock(b)
        BY <1>2, <2>3, <2>5, <3>1 DEF SameBlock
      <3>3. StoreStep
        BY <1>1, <2>3, <3>2, NothingSeen DEF Only, IInv
      <3>4. QED BY <2>3, <3>3 DEF Stores
    <2>6. QED BY <2>4, <2>5
  <1>6. QED BY <1>4, <1>5

LEMMA HaveSeen ==
    ASSUME IInv, IInv', Following, NEW t \in Threads, NEW f, NEW b, NEW r, Suits(t, f, b, r),
           NEW fl, Have(t, f, r, fl)
    PROVE  Stores
  <1>1. t \in Agents /\ f \in Bufs /\ TypeOK /\ req[t].op \in {"read", "get", "ahead"}
    BY DEF IInv, Suits, Mine, Agents, Getting
  <1>2. CASE req[t].op = "get" \/ (req[t].op = "read" /\ r.posted)
    <2>1. /\ buf' = [buf EXCEPT ![f] = r] /\ GoesWith(t, f, "hold", "idle")
          /\ io' = io /\ disk' = disk
      BY <1>2 DEF Have
    <2>2. QED BY <2>1, HaveHoldSeen
  <1>3. CASE req[t].op = "read" /\ ~r.posted
    <2>1. /\ buf' = [buf EXCEPT ![f] = [r EXCEPT !.flags = @ \union {"READ"}, !.owner = t]]
          /\ io' = io \union {f} /\ GoesWith(t, f, "reading", "idle") /\ disk' = disk
      BY <1>3 DEF Have
    <2>2. OthersStay(t) /\ pc'[t] = "reading"
      BY <1>1, <2>1, GoesWithFacts
    <2>3. PICK s : s = [r EXCEPT !.flags = @ \union {"READ"}, !.owner = t]
      OBVIOUS
    <2>4. /\ s.data = r.data /\ s.owner # Nobody
          /\ s.flags \in {r.flags \union {"READ"}, r.flags \union {"READ", "ASYNC"}}
          /\ buf' = [buf EXCEPT ![f] = s]
      BY <1>1, <2>1, <2>3 DEF Suits, Buffers, Agents
    <2>5. QED BY <1>3, <2>1, <2>2, <2>4, HaveReadSeen
  <1>4. CASE req[t].op = "ahead" /\ ~r.posted
    <2>1. /\ buf' = [buf EXCEPT ![f] = [r EXCEPT !.flags = @ \union {"READ", "ASYNC"}, !.owner = Driver]]
          /\ io' = io \union {f} /\ Goes(t, "idle") /\ disk' = disk
      BY <1>4 DEF Have
    <2>2. OthersStay(t) /\ pc'[t] = "idle"
      BY <1>1, <2>1, GoesFacts
    <2>3. PICK s : s = [r EXCEPT !.flags = @ \union {"READ", "ASYNC"}, !.owner = Driver]
      OBVIOUS
    <2>4. /\ s.data = r.data /\ s.owner # Nobody
          /\ s.flags \in {r.flags \union {"READ"}, r.flags \union {"READ", "ASYNC"}}
          /\ buf' = [buf EXCEPT ![f] = s]
      BY <1>1, <2>1, <2>3 DEF Suits, Buffers, Agents
    <2>5. QED BY <1>4, <2>1, <2>2, <2>4, HaveReadSeen
  <1>5. CASE req[t].op = "ahead" /\ r.posted
    <2>1. Brelse(t, f, r, fl, blist, "idle")
      BY <1>5 DEF Have
    <2>2. /\ Mine(t, f, b) /\ buf[f].blk = b /\ b \in Blocks /\ f \notin io /\ Grasps(t, f)
          /\ pc[t] \notin {"hold", "writing"} /\ r \in Buffers
          /\ r.blk = buf[f].blk /\ r.data = buf[f].data /\ (Bad(r) <=> Bad(buf[f]))
      BY DEF Suits, Mine, Grasps, Bad
    <2>3. Synced(f) /\ Rests(buf[f])
      BY <1>1 DEF Following, Suits
    <2>4. Full(r) /\ r.data # Junk
      BY <1>5, <2>2 DEF Full, Suits
    <2>5. Returnable(f, r)
      BY <1>5, <2>2, <2>3, <2>4 DEF Returnable, Synced, InWrite, Bad, Dirty, Suits
    <2>6. Bad(buf[f]) \/ (Discarded(r) => Hidden(buf[f]) \/ buf[f].data = disk[buf[f].blk])
      BY <2>3 DEF Discarded, Suits, Bad, Rests
    <2>7. QED BY <1>1, <2>1, <2>2, <2>5, <2>6, GivenBackSeen
  <1>6. QED BY <1>1, <1>2, <1>3, <1>4, <1>5

LEMMA HitSeen ==
    ASSUME IInv, IInv', Following, NEW t \in Threads, Hit(t)
    PROVE  Stores
  <1>0. PICK f, r, fl : f = bp[t] /\ r = Locked(t) /\ fl = OffFreeList(f)
    OBVIOUS
  <1>1. /\ pc[t] = "lock" /\ Unlocked(f) /\ r.blk = req[t].blk /\ "INVAL" \notin r.flags
        /\ Have(t, f, r, fl)
    BY <1>0 DEF Hit, Locks
  <1>2. f \in Bufs /\ req[t].op \in Getting /\ pc[t] \notin Owning /\ req[t] \in Requests
    BY <1>0, <1>1 DEF IInv, CallFits, Agents, Looking, Owning, TypeOK
  <1>3. /\ r \in Buffers /\ r.owner = t /\ r.blk = buf[f].blk /\ r.hashed = buf[f].hashed
        /\ r.flags = buf[f].flags /\ r.posted = buf[f].posted /\ r.data = buf[f].data
    BY <1>0, <1>2, LockedFields
  <1>4. /\ f \notin io /\ Rests(buf[f]) /\ Synced(f)
        /\ buf[f].blk \in Blocks => Mine(t, f, buf[f].blk) /\ Full(buf[f])
    BY <1>1, <1>2, FreeFacts
  <1>5. req[t].blk \in Blocks
    BY <1>2, GettingABlock
  <1>6. Mine(t, f, r.blk) /\ Full(buf[f])
    BY <1>1, <1>3, <1>4, <1>5
  <1>7. r.posted <=> r.data # Junk
    BY <1>3, <1>4, <1>6 DEF Synced, Full
  <1>8. Suits(t, f, r.blk, r)
    BY <1>1, <1>2, <1>3, <1>4, <1>6, <1>7 DEF Suits, Full
  <1>9. QED BY <1>1, <1>8, HaveSeen

LEMMA InsertSeen ==
    ASSUME IInv, IInv', Following, NEW t \in Threads, Insert(t)
    PROVE  Stores
  <1>0. PICK f, r : f = bp[t] /\ r = [buf[f] EXCEPT !.hashed = TRUE]
    OBVIOUS
  <1>1. pc[t] = "insert" /\ (moved[t] => Hashed(req[t].blk) = {}) /\ Have(t, f, r, bfreelist)
    BY <1>0 DEF Insert
  <1>2. f \in Bufs \ io
    BY <1>0, <1>1, NotInTransfer DEF Using
  <1>3. /\ buf[f] \in Buffers /\ buf[f].owner = t /\ Contents("insert", buf[f], req[t])
    BY <1>0, <1>1, <1>2, Held DEF Using
  <1>4. /\ buf[f].blk = req[t].blk /\ buf[f].flags = {} /\ ~buf[f].posted /\ buf[f].data = Junk
    BY <1>3 DEF Contents, Releasing
  <1>5. /\ r \in Buffers /\ r.owner = t /\ r.blk = buf[f].blk /\ r.hashed
        /\ r.flags = buf[f].flags /\ r.posted = buf[f].posted /\ r.data = buf[f].data
    BY <1>0, <1>3 DEF Buffers
  <1>6. req[t].op \in Getting /\ req[t] \in Requests
    BY <1>1 DEF IInv, CallFits, Looking, Agents, TypeOK
  <1>7. req[t].blk \in Blocks
    BY <1>6, GettingABlock
  <1>8. Hashed(req[t].blk) = {}
    BY <1>1 DEF IInv, Chain
  <1>9. Mine(t, f, req[t].blk)
    BY <1>2, <1>3, <1>4, <1>7, <1>8 DEF Mine
  <1>10. Suits(t, f, req[t].blk, r)
    BY <1>1, <1>2, <1>3, <1>4, <1>5, <1>6, <1>9 DEF Suits, Rests
  <1>11. QED BY <1>1, <1>10, HaveSeen

LEMMA StraySizeSeen ==
    ASSUME IInv, IInv', Following, NEW t \in Threads, StraySize(t)
    PROVE  Stores
  <1>0. PICK f, r, b, q : /\ f = bp[t] /\ r = Locked(t) /\ b = req[t].blk
                          /\ q = [r EXCEPT !.flags = @ \union {"INVAL"}]
    OBVIOUS
  <1>1. /\ pc[t] = "lock" /\ Unlocked(f) /\ r.blk = b /\ "INVAL" \notin r.flags
        /\ StartWrite(f, q) /\ GoesWith(t, f, "writing", "search")
    BY <1>0 DEF StraySize, Locks, Bwrite
  <1>2. /\ f \in Bufs /\ req[t].op \in Getting /\ pc[t] \notin Owning /\ req[t] \in Requests
        /\ t \in Agents /\ TypeOK /\ t # Nobody
    BY <1>0, <1>1 DEF IInv, CallFits, Agents, Looking, Owning, TypeOK
  <1>3. /\ r \in Buffers /\ r.blk = buf[f].blk /\ r.data = buf[f].data
    BY <1>0, <1>2, LockedFields
  <1>4. q \in Buffers /\ q.blk = b /\ q.data = buf[f].data
    BY <1>0, <1>1, <1>3 DEF Buffers, Flags
  <1>5. /\ f \notin io /\ Grasps(t, f)
        /\ buf[f].blk \in Blocks => Mine(t, f, buf[f].blk) /\ Full(buf[f])
    BY <1>1, <1>2, FreeFacts
  <1>6. b \in Blocks /\ buf[f].blk = b
    BY <1>0, <1>1, <1>2, <1>3, GettingABlock
  <1>7. OthersStay(t) /\ pc'[t] = "writing" /\ bp'[t] = f /\ req' = req
    BY <1>1, <1>2, GoesWithFacts
  <1>8. Changes(t, f, StartedBy(q)) /\ buf'[f] = StartedBy(q) /\ Synced(f)' /\ disk' = disk
    BY <1>1, <1>2, <1>4, <1>5, <1>7, WriteFollows
  <1>9. /\ StartedBy(q).blk = b /\ StartedBy(q).data = buf[f].data
        /\ ~Bad(StartedBy(q)) /\ ~Dirty(StartedBy(q))
    BY <1>4, StartedSeen
  <1>10. Uses(t)'
    BY <1>0, <1>2, <1>7, <1>8, <1>9 DEF Uses, Releasing
  <1>11. ~HasBlock(t) /\ HasBlock(t)' /\ req'[t].blk = b
    BY <1>0, <1>1, <1>7 DEF HasBlock
  <1>12. /\ Following' /\ Only(b) /\ Holder[b] = Nobody /\ Holder'[b] = t
         /\ b \in Writing' /\ Value'[b] = Value[b] /\ b \notin Failed'
    BY <1>2, <1>5, <1>6, <1>7, <1>8, <1>9, <1>10, <1>11, StepView
  <1>13. StoreStep
    BY <1>2, <1>6, <1>8, <1>12, TakeSeen DEF IInv
  <1>14. QED BY <1>12, <1>13 DEF Stores

LEMMA FreeWriteSeen ==
    ASSUME IInv, IInv', Following, NEW t \in Threads, NEW f \in Bufs, Unlocked(f), pc[t] \notin Owning,
           NEW r, r.blk = buf[f].blk, r.data = buf[f].data, r \in Buffers,
           NEW w \in {"idle", "new", "flush", "inval"}, Bawrite(t, f, r, w)
    PROVE  Stores
  <1>1. Grasps(t, f)
    BY FreeFacts
  <1>2. pc[t] \notin {"hold", "writing"}
    BY DEF Owning
  <1>3. QED BY <1>1, <1>2, BawriteSeen

LEMMA GetnewbufWritesSeen ==
    ASSUME IInv, IInv', Following, NEW t \in Threads, GetnewbufWrites(t)
    PROVE  Stores
  <1>1. PICK f \in Available : pc[t] = "new" /\ Bawrite(t, f, buf[f], "new")
    BY DEF GetnewbufWrites, Getnewbuf
  <1>2. f \in Bufs /\ Unlocked(f) /\ buf[f] \in Buffers
    BY DEF Available, IInv, TypeOK
  <1>3. QED BY <1>1, <1>2, FreeWriteSeen DEF Owning

LEMMA FlushOneSeen ==
    ASSUME IInv, IInv', Following, NEW t \in Threads, FlushOne(t)
    PROVE  Stores
  <1>1. PICK f \in Flushable : pc[t] = "flush" /\ Bawrite(t, f, buf[f], "flush")
    BY DEF FlushOne
  <1>2. f \in Bufs /\ Unlocked(f) /\ buf[f] \in Buffers
    BY DEF Flushable, IInv, TypeOK
  <1>3. QED BY <1>1, <1>2, FreeWriteSeen DEF Owning

LEMMA InvalWritesSeen ==
    ASSUME IInv, IInv', Following, NEW t \in Threads, InvalWrites(t)
    PROVE  Stores
  <1>0. PICK f, r : f = bp[t] /\ r = Locked(t)
    OBVIOUS
  <1>1. pc[t] = "inval lock" /\ Unlocked(f) /\ Bawrite(t, f, r, "inval")
    BY <1>0 DEF InvalWrites, Locks
  <1>2. f \in Bufs
    BY <1>0, <1>1 DEF IInv, CallFits, Agents
  <1>3. r \in Buffers /\ r.blk = buf[f].blk /\ r.data = buf[f].data
    BY <1>0, <1>2, LockedFields
  <1>4. QED BY <1>1, <1>2, <1>3, FreeWriteSeen DEF Owning

LEMMA InvalDiscardsSeen ==
    ASSUME IInv, IInv', Following, NEW t \in Threads, InvalDiscards(t)
    PROVE  Stores
  <1>0. PICK f, o, r, fl, n :
            f = bp[t] /\ o = Locked(t) /\ r = [o EXCEPT !.flags = @ \union {"INVAL"}]
            /\ fl = OffFreeList(f) /\ n = "inval"
    OBVIOUS
  <1>1. /\ pc[t] = "inval lock" /\ Unlocked(f) /\ (~Dirty(o) \/ "ERROR" \in o.flags)
        /\ Brelse(t, f, r, fl, blist, n)
    BY <1>0 DEF InvalDiscards, Locks
  <1>2. f \in Bufs /\ t \in Agents
    BY <1>0, <1>1 DEF IInv, CallFits, Agents
  <1>3. o \in Buffers /\ o.blk = buf[f].blk /\ o.data = buf[f].data /\ o.flags = buf[f].flags
    BY <1>0, <1>2, LockedFields
  <1>4. /\ r \in Buffers /\ r.blk = buf[f].blk /\ r.data = buf[f].data
        /\ r.flags = buf[f].flags \union {"INVAL"} /\ Discarded(r)
    BY <1>0, <1>3 DEF Buffers, Flags, Discarded
  <1>5. /\ Grasps(t, f) /\ f \notin io /\ Synced(f) /\ Rests(buf[f])
        /\ buf[f].blk \in Blocks => Mine(t, f, buf[f].blk) /\ Full(buf[f])
        /\ buf[f].blk \notin Blocks => Hidden(buf[f])
    BY <1>1, <1>2, FreeFacts DEF Owning
  <1>6. Bad(buf[f]) \/ Hidden(buf[f]) \/ buf[f].data = disk[buf[f].blk]
    BY <1>1, <1>3, <1>5 DEF Synced, InWrite, Bad, Dirty, Hidden, Rests
  <1>7. (Bad(r) => Bad(buf[f])) /\ Returnable(f, r)
    BY <1>4 DEF Bad, Returnable
  <1>8. pc[t] \notin {"hold", "writing"}
    BY <1>1
  <1>9. QED BY <1>1, <1>2, <1>4, <1>5, <1>6, <1>7, <1>8, GivenBackSeen

LEMMA GiveUpDuplicateSeen ==
    ASSUME IInv, IInv', Following, NEW t \in Threads, GiveUpDuplicate(t)
    PROVE  Stores
  <1>0. PICK f, r, n : f = bp[t] /\ r = [buf[f] EXCEPT !.flags = @ \union {"INVAL"}] /\ n = "search"
    OBVIOUS
  <1>1. pc[t] = "insert" /\ Brelse(t, f, r, bfreelist, blist, n)
    BY <1>0 DEF GiveUpDuplicate
  <1>2. f \in Bufs \ io /\ t \in Agents
    BY <1>0, <1>1, NotInTransfer DEF Using, Agents
  <1>3. buf[f] \in Buffers /\ buf[f].owner = t /\ Contents("insert", buf[f], req[t])
    BY <1>0, <1>1, <1>2, Held DEF Using
  <1>4. /\ buf[f].flags = {} /\ buf[f].data = Junk
    BY <1>3 DEF Contents, Releasing
  <1>5. /\ r \in Buffers /\ r.blk = buf[f].blk /\ r.data = buf[f].data /\ r.flags = {"INVAL"}
        /\ Discarded(r)
    BY <1>0, <1>3, <1>4 DEF Buffers, Flags, Discarded
  <1>6. /\ Grasps(t, f) /\ Returnable(f, r) /\ Hidden(buf[f])
        /\ ~Bad(r)
    BY <1>2, <1>3, <1>4, <1>5 DEF Grasps, Returnable, Hidden, Bad
  <1>7. /\ Changes(t, f, LeftBy(r)) /\ buf'[f] = LeftBy(r)
        /\ Synced(f)' /\ Uses(t)' /\ pc'[t] \in Releasing /\ disk' = disk
    BY <1>1, <1>2, <1>5, <1>6, ReleaseFollows
  <1>8. Quiet(f)
    BY <1>5, <1>6, <1>7, LeftSeen DEF Quiet
  <1>9. HolderStays(t)
    BY <1>1, <1>7, StaysOff DEF Releasing
  <1>10. QED BY <1>2, <1>6, <1>7, <1>8, <1>9, QuietStep

LEMMA GetnewbufTakesSeen ==
    ASSUME IInv, IInv', Following, NEW t \in Threads, GetnewbufTakes(t)
    PROVE  Stores
  <1>0. PICK r : r = [owner |-> t, blk |-> req[t].blk, hashed |-> FALSE, flags |-> {},
                      posted |-> FALSE, data |-> Junk]
    OBVIOUS
  <1>1. PICK f \in Available :
            /\ r = [owner |-> t, blk |-> req[t].blk, hashed |-> FALSE, flags |-> {},
                    posted |-> FALSE, data |-> Junk]
            /\ buf' = [buf EXCEPT ![f] = r] /\ pc[t] = "new" /\ ~Dirty(buf[f])
            /\ GoesWith(t, f, "insert", "idle") /\ io' = io /\ disk' = disk
    BY <1>0 DEF GetnewbufTakes, Getnewbuf
  <1>2. /\ f \in Bufs /\ Unlocked(f) /\ t \in Agents /\ TypeOK /\ t # Nobody
    BY DEF Available, IInv, Agents
  <1>3. /\ Grasps(t, f) /\ f \notin io /\ Synced(f) /\ Rests(buf[f])
        /\ buf[f].blk \in Blocks => Mine(t, f, buf[f].blk) /\ Full(buf[f])
        /\ buf[f].blk \notin Blocks => Hidden(buf[f])
    BY <1>1, <1>2, FreeFacts DEF Owning
  <1>4. OthersStay(t) /\ pc'[t] = "insert"
    BY <1>1, <1>2, GoesWithFacts
  <1>5. Changes(t, f, r) /\ buf'[f] = r
    BY <1>1, <1>2, <1>4, StayingGoesOn DEF Changes, TypeOK
  <1>6. r.data = Junk /\ r.flags = {} /\ r.owner # Nobody /\ Hidden(r) /\ ~Bad(r)
    BY <1>1, <1>2 DEF Hidden, Bad
  <1>7. Synced(f)'
    BY <1>1, <1>5, <1>6 DEF Synced, InWrite, Bad, Dirty
  <1>8. Uses(t)' /\ ~HasBlock(t) /\ ~HasBlock(t)' /\ HolderStays(t)
    BY <1>1, <1>4 DEF Uses, Releasing, HasBlock, HolderStays
  <1>9. CASE buf[f].blk \notin Blocks
    <2>1. Quiet(f)
      BY <1>3, <1>5, <1>6, <1>9 DEF Quiet
    <2>2. QED BY <1>1, <1>2, <1>3, <1>5, <1>7, <1>8, <2>1, QuietStep
  <1>10. CASE buf[f].blk \in Blocks
    <2>1. PICK b \in Blocks : buf[f].blk = b /\ Mine(t, f, b) /\ Full(buf[f])
      BY <1>3, <1>10
    <2>2. ~Bad(buf[f]) /\ buf[f].data = disk[b]
      BY <1>1, <1>3, <2>1 DEF Synced, InWrite, Bad, Rests, Full
    <2>3. /\ Following' /\ Only(b) /\ Holder[b] = Nobody /\ Holder'[b] = Nobody
          /\ b \notin Writing /\ b \notin Writing'
          /\ Value[b] = IF buf[f].data # Junk THEN buf[f].data ELSE disk[b]
          /\ Value'[b] = disk[b]
          /\ b \in Failed <=> Bad(buf[f])
          /\ b \notin Failed'
      BY <1>1, <1>2, <1>5, <1>6, <1>7, <1>8, <2>1, StepView
    <2>4. SameBlock(b)
      BY <1>1, <2>2, <2>3 DEF SameBlock
    <2>5. StoreStep
      BY <1>2, <2>3, <2>4, NothingSeen DEF Only, IInv
    <2>6. QED BY <2>3, <2>5 DEF Stores
  <1>11. QED BY <1>9, <1>10

------------------------------------------------------------------------------
(* Using a buffer *)

LEMMA HoldView ==
    ASSUME IInv, Following, NEW t \in Threads, pc[t] = "hold"
    PROVE  /\ t \in Agents /\ HasBlock(t) /\ bp[t] \in Bufs \ io /\ Grasps(t, bp[t])
           /\ req[t].blk \in Blocks /\ Mine(t, bp[t], req[t].blk) /\ Synced(bp[t])
           /\ t # Nobody /\ TypeOK
  <1>1. t \in Agents /\ HasBlock(t) /\ t # Nobody /\ TypeOK
    BY DEF Agents, HasBlock, IInv
  <1>2. /\ bp[t] \in Bufs /\ buf[bp[t]].owner = t /\ buf[bp[t]].hashed
        /\ buf[bp[t]].blk = req[t].blk /\ req[t].blk \in Blocks
    BY <1>1, HeldBlock
  <1>3. bp[t] \notin io
    BY NotInTransfer DEF Using
  <1>4. QED BY <1>1, <1>2, <1>3 DEF Grasps, Mine, Following

LEMMA ReadDoneSeen ==
    ASSUME IInv, IInv', Following, NEW t \in Threads, ReadDone(t)
    PROVE  Stores
  <1>0. PICK f, b, n : f = bp[t] /\ b = req[t].blk /\ n = "idle"
    OBVIOUS
  <1>1. pc[t] = "reading" /\ buf[f].posted
    BY <1>0 DEF ReadDone
  <1>2. f \in Bufs \ io /\ t \in Agents /\ TypeOK /\ t # Nobody /\ Synced(f)
    BY <1>0, <1>1, NotInTransfer DEF Using, Agents, IInv, Following
  <1>3. buf[f] \in Buffers /\ buf[f].owner = t /\ Contents("reading", buf[f], req[t])
    BY <1>0, <1>1, <1>2, Held DEF Using
  <1>4. /\ buf[f].blk = b /\ buf[f].hashed /\ "INVAL" \notin buf[f].flags /\ "READ" \in buf[f].flags
        /\ "ERROR" \notin buf[f].flags => buf[f].data # Junk
    BY <1>0, <1>1, <1>3 DEF Contents, Releasing
  <1>5. req[t].op \in Getting /\ req[t] \in Requests
    BY <1>1 DEF IInv, CallFits, Looking, Agents, TypeOK
  <1>6. b \in Blocks
    BY <1>0, <1>5, GettingABlock
  <1>7. Mine(t, f, b) /\ Grasps(t, f) /\ ~Bad(buf[f])
    BY <1>2, <1>3, <1>4, <1>6 DEF Mine, Grasps, Bad
  <1>8. CASE "ERROR" \in buf[f].flags
    <2>1. Brelse(t, f, buf[f], bfreelist, blist, n)
      BY <1>0, <1>8 DEF ReadDone
    <2>2. Hidden(buf[f])
      BY <1>2, <1>4, <1>7, <1>8 DEF Synced, Hidden
    <2>3. Returnable(f, buf[f])
      BY <1>4, <1>8 DEF Returnable, Discarded, Retried, WriteFailed
    <2>4. pc[t] \notin {"hold", "writing"}
      BY <1>1
    <2>5. QED BY <1>2, <1>3, <1>4, <1>7, <2>1, <2>2, <2>3, <2>4, GivenBackSeen
  <1>9. CASE "ERROR" \notin buf[f].flags
    <2>1. GoesWith(t, f, "hold", n) /\ UNCHANGED cache
      BY <1>0, <1>9 DEF ReadDone
    <2>2. OthersStay(t) /\ pc'[t] = "hold" /\ req' = req
      BY <1>2, <2>1, GoesWithFacts
    <2>3. buf' = buf /\ disk' = disk /\ io' = io
      BY <2>1 DEF cache
    <2>4. buf' = [buf EXCEPT ![f] = buf[f]]
      BY <1>2, <2>3 DEF TypeOK
    <2>5. Changes(t, f, buf[f])
      BY <2>2, <2>3, <2>4, StayingGoesOn DEF Changes
    <2>6. Synced(f)' /\ Uses(t)' /\ ~HasBlock(t) /\ HasBlock(t)'
      BY <1>1, <1>2, <2>2, <2>3 DEF Synced, InWrite, Uses, Releasing, HasBlock
    <2>7. /\ Following' /\ Only(b) /\ Holder[b] = Nobody /\ Holder'[b] = t
          /\ b \notin Writing /\ b \notin Writing' /\ Value'[b] = Value[b]
          /\ b \in Failed' <=> b \in Failed
      BY <1>0, <1>2, <1>4, <1>7, <2>2, <2>3, <2>5, <2>6, StepView
    <2>8. StoreStep
      BY <1>2, <1>6, <2>3, <2>7, TakeSeen DEF IInv
    <2>9. QED BY <2>7, <2>8 DEF Stores
  <1>10. QED BY <1>8, <1>9

\* A thread that has block b in f gives it back with r in it.
LEMMA ReturnView ==
    ASSUME IInv, Following, NEW t \in Threads, NEW f, NEW b \in Blocks, HasBlock(t), f \notin io,
           Mine(t, f, b), req[t].blk = b,
           NEW r \in Buffers, Returnable(f, r), r.blk = b, NEW fl, NEW bl, NEW n,
           Brelse(t, f, r, fl, bl, n)
    PROVE  /\ Following' /\ Only(b) /\ Holder[b] = t /\ Holder'[b] = Nobody /\ disk' = disk
           /\ b \in Writing <=> pc[t] = "writing"
           /\ b \notin Writing'
           /\ Value[b] = IF buf[f].data # Junk THEN buf[f].data ELSE disk[b]
           /\ Value'[b] = IF ~Discarded(r) /\ r.data # Junk THEN r.data ELSE disk[b]
           /\ b \in Failed <=> Bad(buf[f])
           /\ b \in Failed' => Bad(r)
  <1>1. t \in Agents /\ Grasps(t, f) /\ (Discarded(r) \/ Full(r))
    BY DEF Agents, Mine, Grasps, Returnable
  <1>2. /\ Changes(t, f, LeftBy(r)) /\ buf'[f] = LeftBy(r)
        /\ Synced(f)' /\ Uses(t)' /\ pc'[t] \in Releasing
        /\ req' = req /\ disk' = disk /\ ~HasBlock(t)'
    BY <1>1, ReleaseFollows
  <1>3. /\ Discarded(r) => Hidden(LeftBy(r)) /\ LeftBy(r).blk # b
        /\ ~Discarded(r) => /\ LeftBy(r).blk = b /\ LeftBy(r).data = r.data
                            /\ Bad(LeftBy(r)) <=> Bad(r)
    BY <1>1, LeftSeen
  <1>4. LeftBy(r).blk = b \/ Hidden(LeftBy(r))
    BY <1>3
  <1>5. /\ Following' /\ Only(b) /\ Holder[b] = t /\ Holder'[b] = Nobody
        /\ b \in Writing <=> pc[t] = "writing"
        /\ b \notin Writing'
        /\ Value[b] = IF buf[f].data # Junk THEN buf[f].data ELSE disk[b]
        /\ Value'[b] = IF LeftBy(r).blk = b /\ LeftBy(r).data # Junk THEN LeftBy(r).data ELSE disk[b]
        /\ b \in Failed <=> Bad(buf[f])
        /\ b \in Failed' <=> LeftBy(r).blk = b /\ Bad(LeftBy(r))
    BY <1>1, <1>2, <1>4, StepView
  <1>6. QED BY <1>2, <1>3, <1>5

LEMMA ReleaseSeen ==
    ASSUME IInv, IInv', Following, NEW t \in Threads, Release(t)
    PROVE  Stores
  <1>0. PICK f, b, r, n : f = bp[t] /\ b = req[t].blk /\ r = buf[f] /\ n = "idle"
    OBVIOUS
  <1>1. pc[t] = "hold" /\ Brelse(t, f, r, bfreelist, blist, n) /\ req[t].op = "read"
    BY <1>0 DEF Release
  <1>2. /\ HasBlock(t) /\ f \in Bufs \ io /\ b \in Blocks /\ Mine(t, f, b) /\ Synced(f) /\ TypeOK
        /\ r.blk = b
    BY <1>0, <1>1, HoldView DEF Mine
  <1>3. r \in Buffers /\ Full(r)
    BY <1>0, <1>1, Holds DEF Full
  <1>4. Returnable(f, r)
    BY <1>0, <1>2, <1>3 DEF Returnable, Synced, InWrite, Bad, Full
  <1>5. /\ Following' /\ Only(b) /\ Holder[b] = t /\ Holder'[b] = Nobody /\ disk' = disk
        /\ b \notin Writing /\ b \notin Writing'
        /\ Value[b] = r.data
        /\ Value'[b] = IF ~Discarded(r) THEN r.data ELSE disk[b]
        /\ b \in Failed <=> Bad(r)
        /\ b \in Failed' => Bad(r)
    BY <1>0, <1>1, <1>2, <1>3, <1>4, ReturnView DEF Full
  <1>6. Discarded(r) => Bad(r)
    BY <1>0, <1>2, <1>3 DEF Discarded, Bad, Synced, Full
  <1>7. StoreStep
    BY <1>2, <1>5, <1>6, GiveSeen DEF IInv
  <1>8. QED BY <1>5, <1>7 DEF Stores

LEMMA BdwriteSeen ==
    ASSUME IInv, IInv', Following, NEW t \in Threads, NEW v \in Values, Bdwrite(t, v)
    PROVE  Stores
  <1>0. PICK f, b, c, r, n : /\ f = bp[t] /\ b = req[t].blk /\ c = Changed(t, v) /\ n = "idle"
                             /\ r = [c EXCEPT !.flags = @ \union {"DELWRI"}, !.posted = TRUE]
    OBVIOUS
  <1>1. PICK bl : pc[t] = "hold" /\ Brelse(t, f, r, bfreelist, bl, n)
    BY <1>0 DEF Bdwrite
  <1>2. /\ HasBlock(t) /\ f \in Bufs \ io /\ b \in Blocks /\ Mine(t, f, b) /\ Synced(f) /\ TypeOK
        /\ buf[f].blk = b /\ buf[f] \in Buffers
    BY <1>0, <1>1, HoldView DEF Mine, TypeOK
  <1>3. c \in Buffers /\ c.blk = b /\ c.flags = buf[f].flags /\ Full(c) /\ c.data = v
    BY <1>0, <1>1, <1>2, ChangedFields DEF Changed, Buffers
  <1>4. /\ r \in Buffers /\ r.blk = b /\ r.flags = buf[f].flags \union {"DELWRI"} /\ r.data = v
        /\ r.posted /\ r.hashed = c.hashed
    BY <1>0, <1>3 DEF Buffers, Flags
  <1>5. Full(r) /\ Dirty(r) /\ (Bad(r) <=> Bad(buf[f])) /\ r.data # Junk
    BY <1>3, <1>4 DEF Full, Dirty, Bad
  <1>6. Returnable(f, r)
    BY <1>4, <1>5 DEF Returnable
  <1>7. /\ Following' /\ Only(b) /\ Holder[b] = t /\ Holder'[b] = Nobody /\ disk' = disk
        /\ b \notin Writing /\ b \notin Writing'
        /\ Value[b] = IF buf[f].data # Junk THEN buf[f].data ELSE disk[b]
        /\ Value'[b] = IF ~Discarded(r) THEN v ELSE disk[b]
        /\ b \in Failed' => b \in Failed
        /\ b \in Failed <=> Bad(r)
    <2>1. req[t].blk = b /\ f \notin io
      BY <1>0, <1>2
    <2>2. /\ Following' /\ Only(b) /\ Holder[b] = t /\ Holder'[b] = Nobody /\ disk' = disk
          /\ b \in Writing <=> pc[t] = "writing"
          /\ b \notin Writing'
          /\ Value[b] = IF buf[f].data # Junk THEN buf[f].data ELSE disk[b]
          /\ Value'[b] = IF ~Discarded(r) /\ r.data # Junk THEN r.data ELSE disk[b]
          /\ b \in Failed <=> Bad(buf[f])
          /\ b \in Failed' => Bad(r)
      BY <1>1, <1>2, <1>4, <1>6, <2>1, ReturnView
    <2>3. QED BY <1>1, <1>4, <1>5, <2>2
  <1>8. CASE ~Discarded(r)
    <2>1. StoreStep
      BY <1>2, <1>7, <1>8, PutSeen DEF IInv
    <2>2. QED BY <1>7, <2>1 DEF Stores
  <1>9. CASE Discarded(r)
    <2>1. Bad(r) \/ buf[f].data = Junk
      BY <1>2, <1>4, <1>5, <1>9 DEF Discarded, Bad, Synced, Full
    <2>2. Value'[b] = Value[b] \/ (b \in Failed /\ Value'[b] = disk[b])
      BY <1>7, <1>9, <2>1
    <2>3. StoreStep
      BY <1>2, <1>7, <2>2, GiveSeen DEF IInv
    <2>4. QED BY <1>7, <2>3 DEF Stores
  <1>10. QED BY <1>8, <1>9

\* The contents are written, and the caller waits for it or not.
LEMMA WriteAsyncSeen ==
    ASSUME IInv, IInv', Following, NEW t \in Threads, NEW v \in Values, WriteAsync(t, v)
    PROVE  Stores
  <1>0. PICK f, b, c, q, w : /\ f = bp[t] /\ b = req[t].blk /\ c = Changed(t, v) /\ w = "idle"
                             /\ q = [c EXCEPT !.flags = @ \union {"ASYNC"}]
    OBVIOUS
  <1>1. pc[t] = "hold" /\ StartWrite(f, q) /\ Goes(t, w)
    BY <1>0 DEF WriteAsync, Bawrite
  <1>2. /\ HasBlock(t) /\ f \in Bufs \ io /\ b \in Blocks /\ Mine(t, f, b) /\ TypeOK
        /\ buf[f] \in Buffers /\ t \in Agents /\ Grasps(t, f) /\ buf[f].blk = b
    BY <1>0, <1>1, HoldView DEF Mine, TypeOK
  <1>3. c \in Buffers /\ c.blk = b /\ c.data = v
    BY <1>0, <1>1, <1>2, ChangedFields DEF Changed, Buffers
  <1>4. q \in Buffers /\ q.blk = b /\ q.data = v
    BY <1>0, <1>3 DEF Buffers, Flags
  <1>5. OthersStay(t) /\ pc'[t] = "idle"
    BY <1>0, <1>1, <1>2, GoesFacts
  <1>6. Changes(t, f, StartedBy(q)) /\ buf'[f] = StartedBy(q) /\ Synced(f)' /\ disk' = disk
    BY <1>1, <1>2, <1>4, <1>5, WriteFollows
  <1>7. StartedBy(q).blk = b /\ StartedBy(q).data = v /\ ~Bad(StartedBy(q)) /\ v # Junk
    BY <1>4, StartedSeen
  <1>8. Uses(t)' /\ ~HasBlock(t)'
    BY <1>5 DEF Uses, Releasing, HasBlock
  <1>9. /\ Following' /\ Only(b) /\ Holder[b] = t /\ Holder'[b] = Nobody
        /\ b \notin Writing /\ b \notin Writing' /\ Value'[b] = v /\ b \notin Failed'
    BY <1>0, <1>1, <1>2, <1>6, <1>7, <1>8, StepView
  <1>10. StoreStep
    BY <1>2, <1>6, <1>9, PutSeen DEF IInv
  <1>11. QED BY <1>9, <1>10 DEF Stores

LEMMA WriteSyncSeen ==
    ASSUME IInv, IInv', Following, NEW t \in Threads, NEW v \in Values, WriteSync(t, v)
    PROVE  Stores
  <1>0. PICK f, b, c, n : f = bp[t] /\ b = req[t].blk /\ c = Changed(t, v) /\ n = "idle"
    OBVIOUS
  <1>1. pc[t] = "hold" /\ StartWrite(f, c) /\ GoesWith(t, f, "writing", n)
    BY <1>0 DEF WriteSync, Bwrite
  <1>2. /\ HasBlock(t) /\ f \in Bufs \ io /\ b \in Blocks /\ Mine(t, f, b) /\ TypeOK
        /\ buf[f] \in Buffers /\ t \in Agents /\ Grasps(t, f) /\ buf[f].blk = b
    BY <1>0, <1>1, HoldView DEF Mine, TypeOK
  <1>3. c \in Buffers /\ c.blk = b /\ c.data = v
    BY <1>0, <1>1, <1>2, ChangedFields DEF Changed, Buffers
  <1>4. OthersStay(t) /\ pc'[t] = "writing" /\ bp'[t] = f /\ req' = req
    BY <1>1, <1>2, GoesWithFacts
  <1>5. Changes(t, f, StartedBy(c)) /\ buf'[f] = StartedBy(c) /\ Synced(f)' /\ disk' = disk
    BY <1>1, <1>2, <1>3, <1>4, WriteFollows
  <1>6. /\ StartedBy(c).blk = b /\ StartedBy(c).data = v /\ ~Bad(StartedBy(c)) /\ v # Junk
        /\ ~Dirty(StartedBy(c))
    BY <1>3, StartedSeen
  <1>7. req[t].op \in Getting
    BY <1>2, HeldBlock
  <1>8. Uses(t)' /\ HasBlock(t)' /\ req'[t].blk = b
    BY <1>0, <1>4, <1>5, <1>6, <1>7 DEF Uses, Releasing, HasBlock
  <1>9. /\ Following' /\ Only(b) /\ Holder[b] = t /\ Holder'[b] = t
        /\ b \notin Writing /\ b \in Writing' /\ Value'[b] = v /\ b \notin Failed'
    BY <1>0, <1>1, <1>2, <1>4, <1>5, <1>6, <1>8, StepView
  <1>10. StoreStep
    BY <1>2, <1>5, <1>9, WriteSeen DEF IInv
  <1>11. QED BY <1>9, <1>10 DEF Stores

LEMMA WriteDoneSeen ==
    ASSUME IInv, IInv', Following, NEW t \in Threads, WriteDone(t)
    PROVE  Stores
  <1>0. PICK f, b, r : f = bp[t] /\ b = req[t].blk /\ r = buf[f]
    OBVIOUS
  <1>1. pc[t] = "writing" /\ r.posted /\ Brelse(t, f, r, bfreelist, blist, next[t])
    BY <1>0 DEF WriteDone
  <1>2. f \in Bufs \ io /\ HasBlock(t) /\ t \in Agents
    BY <1>0, <1>1, NotInTransfer DEF Using, HasBlock, Agents
  <1>3. /\ r \in Buffers /\ r.owner = t /\ r.hashed /\ "READ" \notin r.flags /\ r.data # Junk
        /\ "ASYNC" \notin r.flags
    BY <1>0, <1>1, <1>2, Held DEF Using, Contents, Releasing
  <1>4. b \in Blocks /\ r.blk = b
    BY <1>0, <1>2, HeldBlock
  <1>5. ~Dirty(r) /\ Synced(f) /\ TypeOK
    BY <1>0, <1>1, <1>2 DEF Following, Uses, IInv
  <1>6. Mine(t, f, b)
    BY <1>0, <1>2, <1>3, <1>4 DEF Mine
  <1>7. Bad(r) \/ r.data = disk[b]
    BY <1>0, <1>2, <1>3, <1>4, <1>5 DEF Synced, InWrite
  <1>8. Bad(r) => Discarded(r)
    BY <1>3 DEF Bad, Discarded, Retried
  <1>9. Returnable(f, r)
    BY <1>1, <1>3, <1>4, <1>7, <1>8 DEF Returnable, Full, Discarded
  <1>10. /\ Following' /\ Only(b) /\ Holder[b] = t /\ Holder'[b] = Nobody /\ disk' = disk
         /\ b \notin Writing'
         /\ Value[b] = r.data
         /\ Value'[b] = IF ~Discarded(r) THEN r.data ELSE disk[b]
         /\ b \in Failed <=> Bad(r)
         /\ b \in Failed' => Bad(r)
    BY <1>0, <1>1, <1>2, <1>3, <1>4, <1>6, <1>9, ReturnView
  <1>11. /\ Value[b] = disk[b] \/ b \in Failed
         /\ Value'[b] = Value[b] \/ (b \in Failed /\ Value'[b] = disk[b])
         /\ b \in Failed' => b \in Failed
    BY <1>7, <1>10
  <1>12. StoreStep
    BY <1>4, <1>5, <1>10, <1>11, GiveSeen DEF IInv
  <1>13. QED BY <1>10, <1>12 DEF Stores

LEMMA UnlockSeen ==
    ASSUME IInv, IInv', Following, NEW a \in Agents, Unlock(a)
    PROVE  Stores
  <1>0. PICK f, r : f = bp[a] /\ r = [buf[f] EXCEPT !.owner = Nobody]
    OBVIOUS
  <1>1. pc[a] \in Releasing /\ TypeOK /\ Has(a) /\ Uses(a) /\ CallFits(a)
    BY DEF Unlock, Releasing, IInv, Following
  <1>2. f \in Bufs /\ buf[f].owner = a /\ Rests(buf[f]) /\ buf[f] \in Buffers /\ Synced(f)
    BY <1>0, <1>1 DEF Has, Releasing, Owning, Uses, TypeOK, Following
  <1>3. buf' = [buf EXCEPT ![f] = r] /\ io' = io /\ disk' = disk
    BY <1>0 DEF Unlock
  <1>4. /\ r.blk = buf[f].blk /\ r.data = buf[f].data /\ r.flags = buf[f].flags
        /\ r.posted = buf[f].posted /\ r.owner = Nobody
    BY <1>0, <1>2 DEF Buffers
  <1>5. /\ bp' = [bp EXCEPT ![a] = NoBuf]
        /\ req' = IF next[a] = "idle" /\ a \in Threads THEN [req EXCEPT ![a] = NoReq] ELSE req
        /\ \E W \in SUBSET Threads :
             /\ \A t \in W : pc[t] = "asleep"
             /\ pc' = [c \in Agents |-> IF c = a THEN next[a] ELSE IF c \in W THEN "new" ELSE pc[c]]
    <2>1. PICK W : W = IF pc[a] = "unlock wake" THEN {t \in Threads : pc[t] = "asleep"} ELSE {}
      OBVIOUS
    <2>2. W \in SUBSET Threads /\ \A t \in W : pc[t] = "asleep"
      BY <2>1
    <2>3. QED BY <2>1, <2>2 DEF Unlock
  <1>6. OthersGoOn(a)
    <2> SUFFICES ASSUME NEW c \in Agents, c # a, pc[c] \in Owning \/ pc'[c] \in Owning
                 PROVE  pc'[c] = pc[c] /\ bp'[c] = bp[c] /\ (c \in Threads => req'[c] = req[c])
      BY DEF OthersGoOn
    <2>1. pc'[c] = pc[c] \/ (pc[c] = "asleep" /\ pc'[c] = "new")
      BY <1>5
    <2>2. bp'[c] = bp[c] /\ (c \in Threads => req'[c] = req[c])
      BY <1>1, <1>5 DEF TypeOK
    <2>3. QED BY <2>1, <2>2 DEF Owning
  <1>7. pc'[a] \in Nexts
    BY <1>1, <1>5 DEF TypeOK, Nexts
  <1>8. Changes(a, f, r) /\ buf'[f] = r /\ Grasps(a, f)
    BY <1>1, <1>2, <1>3, <1>6 DEF Changes, Grasps, TypeOK
  <1>9. Synced(f)'
    BY <1>2, <1>3, <1>4, <1>8 DEF Synced, InWrite, Bad, Dirty, Rests
  <1>10. Uses(a)' /\ HolderStays(a)
    <2>1. pc[a] \notin {"hold", "writing"} /\ pc'[a] \notin {"hold", "writing"}
      BY <1>1, <1>7 DEF Releasing, Nexts
    <2>2. QED BY <1>7, <2>1, StaysOff DEF Uses, Releasing, Nexts
  <1>11. Quiet(f)
    BY <1>4, <1>8 DEF Quiet, Bad
  <1>12. QED BY <1>3, <1>8, <1>9, <1>10, <1>11, QuietStep

LEMMA AcceptSeen ==
    ASSUME IInv, IInv', Following, NEW i \in Interrupts, Accept(i)
    PROVE  Stores
  <1>0. PICK f, r, n : f = bp[i] /\ r = [buf[f] EXCEPT !.owner = i] /\ n = "idle"
    OBVIOUS
  <1>1. pc[i] = "done" /\ Brelse(i, f, r, bfreelist, blist, n)
    BY <1>0 DEF Accept
  <1>2. /\ i \in Agents /\ i \notin Threads /\ f \in Bufs \ io /\ buf[f].owner = Driver
        /\ "ASYNC" \in buf[f].flags /\ buf[f] \in Buffers
    BY <1>0, <1>1 DEF IInv, Has, Agents, TypeOK
  <1>3. /\ Transferred(buf[f]) /\ ("ERROR" \notin buf[f].flags => buf[f].data # Junk) /\ Synced(f)
    BY <1>2 DEF IInv, BufferFits, Following
  <1>4. Grasps(i, f) /\ Mine(i, f, buf[f].blk) /\ buf[f].blk \in Blocks
    BY <1>2, <1>3 DEF Grasps, Mine, Transferred
  <1>5. /\ r \in Buffers /\ r.blk = buf[f].blk /\ r.data = buf[f].data /\ r.flags = buf[f].flags
        /\ r.posted = buf[f].posted /\ r.hashed = buf[f].hashed
    BY <1>0, <1>2 DEF Buffers
  <1>6. CASE {"ERROR", "READ"} \subseteq buf[f].flags
    <2>1. buf[f].data = Junk /\ Hidden(buf[f]) /\ ~Bad(r)
      BY <1>3, <1>5, <1>6 DEF Synced, Hidden, Bad
    <2>2. Returnable(f, r)
      BY <1>5, <1>6 DEF Returnable, Discarded, Retried, WriteFailed
    <2>3. QED BY <1>1, <1>2, <1>4, <1>5, <2>1, <2>2, GivenBackSeen
  <1>7. CASE ~({"ERROR", "READ"} \subseteq buf[f].flags)
    <2>1. ~Discarded(r)
      BY <1>2, <1>3, <1>5, <1>7 DEF Discarded, Retried, WriteFailed, Transferred
    <2>2. buf[f].data # Junk
      BY <1>3, <1>7 DEF Transferred
    <2>3. Full(r) /\ r.posted
      BY <1>2, <1>3, <1>5, <2>2 DEF Full, Transferred, Synced
    <2>4. Returnable(f, r)
      BY <1>2, <1>3, <1>5, <2>2, <2>3 DEF Returnable, Synced, InWrite, Bad, Dirty
    <2>5. Bad(r) => Bad(buf[f])
      BY <1>5 DEF Bad
    <2>6. QED BY <1>1, <1>2, <1>4, <1>5, <2>1, <2>4, <2>5, GivenBackSeen
  <1>8. QED BY <1>6, <1>7

LEMMA BiodoneSeen ==
    ASSUME IInv, IInv', Following, NEW i \in Interrupts, Biodone(i)
    PROVE  Stores
  <1>1. PICK f \in io, ok \in BOOLEAN :
             LET r == buf[f]
                 read == "READ" \in r.flags
                 left == IF read THEN numoutput ELSE numoutput - 1 IN
             /\ buf' = [buf EXCEPT ![f] =
                          [r EXCEPT !.posted = TRUE,
                                    !.flags = IF ok THEN @ ELSE @ \union {"ERROR"},
                                    !.data = IF read /\ ok THEN disk[r.blk] ELSE @]]
             /\ disk' = IF ok /\ ~read THEN [disk EXCEPT ![r.blk] = r.data] ELSE disk
             /\ io' = io \ {f}
             /\ LET woken == IF left = 0 /\ ~read THEN {t \in Threads : pc[t] = "drained"} ELSE {}
                    async == "ASYNC" \in r.flags IN
                /\ pc' = [a \in Agents |-> IF a = i THEN (IF async THEN "done" ELSE "idle")
                                         ELSE IF a \in woken THEN "drain" ELSE pc[a]]
                /\ bp' = [bp EXCEPT ![i] = IF async THEN f ELSE NoBuf]
    BY DEF Biodone
  <1>2. /\ pc[i] = "idle" /\ req' = req /\ TypeOK /\ i \in Agents /\ i \notin Threads
    BY DEF Biodone, IInv, Agents
  <1>3. /\ f \in Bufs /\ buf[f] \in Buffers /\ buf[f].blk \in Blocks
        /\ "READ" \notin buf[f].flags => buf[f].data # Junk
        /\ \/ buf[f].owner = Driver /\ "ASYNC" \in buf[f].flags /\ Transferred(buf[f])
           \/ /\ "ASYNC" \notin buf[f].flags
              /\ \E t \in Threads : /\ buf[f].owner = t /\ bp[t] = f
                                    /\ pc[t] \in {"reading", "writing"}
                                    /\ Contents(pc[t], buf[f], req[t])
    BY TransferFacts
  <1>4. /\ Synced(f) /\ "ERROR" \notin buf[f].flags
        /\ "READ" \in buf[f].flags => buf[f].data = Junk
    BY <1>3 DEF Following, Synced
  <1>5. PICK b, r : /\ b = buf[f].blk
                    /\ r = [buf[f] EXCEPT !.posted = TRUE,
                                          !.flags = IF ok THEN @ ELSE @ \union {"ERROR"},
                                          !.data = IF "READ" \in buf[f].flags /\ ok
                                                   THEN disk[buf[f].blk] ELSE @]
    OBVIOUS
  <1>6. /\ buf' = [buf EXCEPT ![f] = r] /\ io' = io \ {f}
        /\ disk' = IF ok /\ "READ" \notin buf[f].flags
                   THEN [disk EXCEPT ![b] = buf[f].data] ELSE disk
    BY <1>1, <1>5
  <1>7. /\ buf'[f] = r /\ r.blk = b /\ r.posted /\ r.owner = buf[f].owner
        /\ r.flags = IF ok THEN buf[f].flags ELSE buf[f].flags \union {"ERROR"}
        /\ r.data = IF "READ" \in buf[f].flags /\ ok THEN disk[b] ELSE buf[f].data
    BY <1>2, <1>3, <1>5, <1>6 DEF TypeOK, Buffers
  <1>8. /\ \A c \in Agents : c # i => /\ pc'[c] = pc[c] \/ (pc[c] = "drained" /\ pc'[c] = "drain")
                                      /\ bp'[c] = bp[c]
        /\ pc'[i] \in {"done", "idle"}
    <2>1. PICK W : W = IF (IF "READ" \in buf[f].flags THEN numoutput ELSE numoutput - 1) = 0
                          /\ ~("READ" \in buf[f].flags)
                       THEN {t \in Threads : pc[t] = "drained"} ELSE {}
      OBVIOUS
    <2>2. /\ pc' = [a \in Agents |-> IF a = i THEN (IF "ASYNC" \in buf[f].flags THEN "done" ELSE "idle")
                                     ELSE IF a \in W THEN "drain" ELSE pc[a]]
          /\ bp' = [bp EXCEPT ![i] = IF "ASYNC" \in buf[f].flags THEN f ELSE NoBuf]
      BY <1>1, <2>1
    <2>3. \A c \in W : pc[c] = "drained"
      BY <2>1
    <2>4. \A c \in Agents : c # i => bp'[c] = bp[c]
      BY <1>2, <2>2 DEF TypeOK
    <2>5. QED BY <1>2, <2>2, <2>3, <2>4
  <1>9. PICK a \in Agents :
            /\ Grasps(a, f) /\ Mine(a, f, b)
            /\ "READ" \notin buf[f].flags =>
                 \/ a \notin Threads
                 \/ HasBlock(a) /\ pc[a] = "writing" /\ req[a].blk = b
            /\ "READ" \in buf[f].flags => ~HasBlock(a)
            /\ pc[a] \in {"idle", "reading", "writing"}
            /\ pc[a] # "idle" => bp[a] = f /\ a # i
            /\ pc[a] = "idle" => a = i
    <2>1. CASE buf[f].owner = Driver
      <3>1. buf[f].hashed
        BY <1>3, <2>1 DEF Transferred
      <3>2. QED BY <1>2, <1>3, <1>5, <2>1, <3>1 DEF Grasps, Mine, HasBlock
    <2>2. CASE buf[f].owner # Driver
      <3>1. PICK t \in Threads : /\ buf[f].owner = t /\ bp[t] = f
                                 /\ pc[t] \in {"reading", "writing"}
                                 /\ Contents(pc[t], buf[f], req[t])
        BY <1>3, <2>2
      <3>2. t \in Agents /\ t # i
        BY <1>2 DEF Agents
      <3>3. /\ buf[f].hashed
            /\ pc[t] = "reading" => "READ" \in buf[f].flags
            /\ pc[t] = "writing" => "READ" \notin buf[f].flags
        BY <3>1 DEF Contents, Releasing
      <3>4. pc[t] = "writing" => req[t].blk = b
        BY <1>5, <3>1, <3>2 DEF Following, Uses
      <3>5. Grasps(t, f) /\ Mine(t, f, b)
        BY <1>3, <1>5, <3>1, <3>3 DEF Grasps, Mine
      <3>6. QED BY <3>1, <3>2, <3>3, <3>4, <3>5 DEF HasBlock
    <2>3. QED BY <2>1, <2>2
  <1>10. OthersGoOn(a) /\ (pc[a] # "idle" => pc'[a] = pc[a] /\ bp'[a] = f)
    <2>1. \A c \in Agents : pc[c] \in Owning \/ pc'[c] \in Owning =>
             pc'[c] = pc[c] /\ bp'[c] = bp[c]
      BY <1>2, <1>8 DEF Owning
    <2>2. QED BY <1>2, <1>8, <1>9, <2>1 DEF OthersGoOn
  <1>11. \A g \in Bufs : g # f /\ buf[g].data # Junk => buf[g].blk # b
    BY <1>9, OnlyMine
  <1>12. /\ \A c \in Blocks : c # b => disk'[c] = disk[c]
         /\ b \in Blocks
         /\ disk'[b] = IF ok /\ "READ" \notin buf[f].flags THEN buf[f].data ELSE disk[b]
    BY <1>2, <1>3, <1>5, <1>6 DEF TypeOK
  <1>13. Changes(a, f, r)
    <2>1. \A g \in Bufs : g # f => (g \in io' <=> g \in io)
      BY <1>6
    <2>2. \A g \in Bufs : g # f /\ buf[g].data # Junk => buf[g].blk \in Blocks
      BY HasData
    <2>3. \A g \in Bufs : g # f /\ buf[g].data # Junk => disk'[buf[g].blk] = disk[buf[g].blk]
      BY <1>11, <1>12, <2>2
    <2>4. QED BY <1>6, <1>10, <2>1, <2>3 DEF Changes
  <1>14. Synced(f)'
    <2>1. buf[f].owner # Nobody
      BY <1>3
    <2>2. f \notin io' /\ disk[b] \in Values /\ disk[b] # Junk
      BY <1>2, <1>6, <1>12 DEF TypeOK
    <2>3. r.data # Junk /\ "READ" \in r.flags => "ERROR" \notin r.flags
      BY <1>4, <1>7
    <2>4. Bad(r) => r.data # Junk
      BY <1>3, <1>7 DEF Bad
    <2>5. r.data # Junk /\ ~Dirty(r) /\ ~Bad(r) => r.data = disk'[r.blk]
      BY <1>4, <1>7, <1>12 DEF Bad
    <2>6. QED BY <1>7, <2>1, <2>2, <2>3, <2>4, <2>5 DEF Synced, InWrite
  <1>15. Uses(a)'
    <2>1. CASE pc[a] = "idle"
      BY <1>8, <1>9, <2>1 DEF Uses, Releasing
    <2>2. CASE pc[a] # "idle"
      <3>1. Uses(a) /\ pc'[a] = pc[a] /\ bp'[a] = f /\ bp[a] = f /\ pc[a] \notin Releasing
        BY <1>9, <1>10, <2>2 DEF Following, Releasing
      <3>2. Dirty(r) <=> Dirty(buf[f])
        BY <1>7 DEF Dirty
      <3>3. QED BY <1>2, <1>5, <1>7, <3>1, <3>2 DEF Uses
    <2>3. QED BY <2>1, <2>2
  <1>16. (HasBlock(a)' <=> HasBlock(a)) /\ (HasBlock(a) => pc'[a] = pc[a])
    BY <1>2, <1>8, <1>9, <1>10 DEF HasBlock
  <1>17. HasBlock(a) => pc[a] = "writing" /\ req[a].blk = b
    BY <1>9 DEF HasBlock
  <1>18. /\ Following' /\ Only(b)
         /\ Holder[b] = IF HasBlock(a) THEN a ELSE Nobody
         /\ Holder'[b] = Holder[b]
         /\ b \in Writing <=> HasBlock(a)
         /\ b \in Writing' <=> b \in Writing
         /\ Value[b] = IF buf[f].data # Junk THEN buf[f].data ELSE disk[b]
         /\ Value'[b] = IF r.data # Junk THEN r.data ELSE disk'[b]
         /\ b \in Failed <=> Bad(buf[f])
         /\ b \in Failed' <=> Bad(r)
    BY <1>2, <1>7, <1>9, <1>12, <1>13, <1>14, <1>15, <1>16, <1>17, StepView
  <1>19. ~Bad(buf[f]) /\ disk[b] # Junk
    BY <1>2, <1>4, <1>12 DEF Bad, TypeOK
  <1>20. CASE "READ" \in buf[f].flags
    <2>1. SameBlock(b)
      <3>1. disk'[b] = disk[b] /\ buf[f].data = Junk /\ Value'[b] = Value[b] /\ ~Bad(r)
        BY <1>4, <1>7, <1>12, <1>18, <1>20 DEF Bad
      <3>2. QED BY <1>18, <1>19, <3>1 DEF SameBlock
    <2>2. StoreStep
      BY <1>2, <1>18, <2>1, NothingSeen DEF Only, IInv
    <2>3. QED BY <1>18, <2>2 DEF Stores
  <1>21. CASE "READ" \notin buf[f].flags
    <2>1. buf[f].data # Junk /\ Value'[b] = Value[b] /\ Value[b] = buf[f].data
      BY <1>3, <1>7, <1>18, <1>21
    <2>2. Holder[b] = Nobody \/ b \in Writing
      BY <1>18
    <2>3. \/ disk'[b] = Value[b] /\ (b \in Failed' <=> b \in Failed)
          \/ disk'[b] = disk[b] /\ b \in Failed'
      <3>1. CASE ok
        BY <1>4, <1>7, <1>12, <1>18, <1>19, <1>21, <2>1, <3>1 DEF Bad
      <3>2. CASE ~ok
        BY <1>7, <1>12, <1>18, <1>21, <3>2 DEF Bad
      <3>3. QED BY <3>1, <3>2
    <2>4. StoreStep
      BY <1>2, <1>12, <1>18, <2>1, <2>2, <2>3, DiskSeen DEF IInv
    <2>5. QED BY <1>18, <2>4 DEF Stores
  <1>22. QED BY <1>20, <1>21

------------------------------------------------------------------------------
(* The cache is a store *)

LEMMA StoreInitially ==
    ASSUME Init
    PROVE  Following /\ Store!Init
  <1>1. /\ \A f \in Bufs : /\ buf[f].owner = Nobody /\ buf[f].blk = NoBlock /\ buf[f].data = Junk
                           /\ buf[f].flags = {"INVAL"}
        /\ io = {} /\ disk \in [Blocks -> Values] /\ \A a \in Agents : pc[a] = "idle"
    BY DEF Init
  <1>2. Following
    <2>1. \A f \in Bufs : Synced(f)
      BY <1>1 DEF Synced, Rests, InWrite, Bad
    <2>2. \A a \in Agents : Uses(a)
      BY <1>1 DEF Uses, Releasing
    <2>3. QED BY <2>1, <2>2 DEF Following
  <1>3. \A b \in Blocks : HolderOf(b) = {} /\ Holding(b) = {}
    BY <1>1 DEF HolderOf, Holding, Agents
  <1>4. Holder = [b \in Blocks |-> Nobody] /\ Writing = {}
    BY <1>3 DEF Holder, Writing
  <1>5. Value = disk
    <2>1. \A b \in Blocks : Value[b] = disk[b]
      BY <1>3 DEF Value
    <2>2. QED BY <1>1, <2>1, Mapped
  <1>6. Failed = {}
    BY <1>1 DEF Failed
  <1>7. QED BY <1>1, <1>2, <1>4, <1>5, <1>6 DEF Store!Init

\* Every step of the cache is one of the store, or none.
LEMMA StepsSeen ==
    ASSUME IInv, IInv', Following, [Next]_vars
    PROVE  Stores
  <1>1. ASSUME NEW t \in Threads, Begin(t) PROVE Stores
    BY <1>1, StartSeen, StartFlushSeen, StartInvalSeen DEF Begin, Getting
  <1>2. ASSUME NEW t \in Threads, Getblk(t) PROVE Stores
    BY <1>2, SearchSeen, SearchAgainSeen, HitSeen, StraySizeSeen, GetnewbufSleepsSeen,
       GetnewbufWritesSeen, GetnewbufTakesSeen, GiveUpDuplicateSeen, InsertSeen DEF Getblk
  <1>3. ASSUME NEW t \in Threads, NEW v \in Values, Write(t, v) PROVE Stores
    BY <1>3, BdwriteSeen, WriteAsyncSeen, WriteSyncSeen DEF Write
  <1>4. ASSUME NEW t \in Threads, Use(t) PROVE Stores
    <2>1. t \in Agents
      BY DEF Agents
    <2>2. QED BY <1>3, <1>4, <2>1, ReadDoneSeen, ReleaseSeen, WriteDoneSeen, UnlockSeen DEF Use
  <1>5. ASSUME NEW t \in Threads, Flush(t) PROVE Stores
    BY <1>5, FlushOneSeen, FlushEndsSeen, DrainSeen DEF Flush
  <1>6. ASSUME NEW t \in Threads, Inval(t) PROVE Stores
    BY <1>6, InvalNextSeen, InvalMissesSeen, InvalWritesSeen, InvalDiscardsSeen DEF Inval
  <1>7. ASSUME NEW i \in Interrupts, Interrupt(i) PROVE Stores
    <2>1. i \in Agents
      BY DEF Agents
    <2>2. QED BY <1>7, <2>1, BiodoneSeen, AcceptSeen, UnlockSeen DEF Interrupt
  <1>8. CASE UNCHANGED vars
    <2>1. /\ buf' = buf /\ io' = io /\ disk' = disk /\ pc' = pc /\ req' = req /\ bp' = bp
      BY <1>8 DEF vars, cache
    <2>2. Following'
      BY <2>1 DEF Following, Synced, Uses, InWrite
    <2>3. StoreStep
      <3>1. \A f \in Bufs : Quiet(f)
        BY <2>1 DEF Quiet
      <3>2. \A t \in Threads : HolderStays(t)
        BY <2>1 DEF HolderStays, HasBlock
      <3>3. QED BY <2>1, <3>1, <3>2, QuietSeen DEF IInv
    <2>4. QED BY <2>2, <2>3 DEF Stores
  <1>9. QED BY <1>1, <1>2, <1>4, <1>5, <1>6, <1>7, <1>8 DEF Next

\* What is in a buffer and need not be written is on the disk, and what is not there
\* yet is marked, being written, or known to have failed.
THEOREM DiskIsFollowed ==
    Spec => []Following
  <1>1. Init => Following
    BY StoreInitially
  <1>2. IInv /\ IInv' /\ Following /\ [Next]_vars => Following'
    BY StepsSeen DEF Stores
  <1>3. QED BY <1>1, <1>2, Invariance, PTL DEF Spec

\* The cache is a store of blocks, whatever the threads, the blocks, the buffers and the
\* failures of the driver: who has a block has it alone and reads what was last written,
\* and a write is lost only after it has failed.
THEOREM CacheIsAStore ==
    Spec => ImplementsBlockStore
  <1>1. Init => Abstract!Init
    BY StoreInitially, SameStore
  <1>2. IInv /\ IInv' /\ Following /\ [Next]_vars => [Abstract!Next]_(Abstract!vars)
    BY StepsSeen, SameStore DEF Stores, StoreStep
  <1>3. QED BY <1>1, <1>2, Invariance, DiskIsFollowed, PTL DEF Spec, ImplementsBlockStore, Abstract!Spec
=============================================================================
