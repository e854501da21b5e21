---------------------------- MODULE Vnode_proofs ----------------------------
(***************************************************************************)
(* Proofs about Vnode: what each action does to a vnode, to the stack of a *)
(* thread and to what others see of both (one lemma per action, named      *)
(* after it), that the values have their types, every reference of a vnode *)
(* is counted, the free list has the vnodes without references and an      *)
(* inode has one vnode.                                                    *)
(***************************************************************************)
EXTENDS Vnode, FoldFacts

------------------------------------------------------------------------------
\* Stacks: a call on top of another, the frames of a stack, and how many of them
\* are in F.

Push(f, s)  == <<f>> \o s
Frames(s)   == {s[k] : k \in DOMAIN s}
Count(s, F) == Cardinality({k \in DOMAIN s : s[k] \in F})

LEMMA PushFacts ==
  ASSUME NEW f, NEW s, NEW S, f \in S, s \in Seq(S)
  PROVE  /\ Push(f, s) \in Seq(S) /\ Push(f, s) # <<>>
         /\ Push(f, s)[1] = f /\ Tail(Push(f, s)) = s /\ Len(Push(f, s)) = Len(s) + 1
         /\ Frames(Push(f, s)) = {f} \union Frames(s)
  <1>1. /\ Push(f, s) \in Seq(S) /\ Push(f, s) # <<>>
        /\ Push(f, s)[1] = f /\ Len(Push(f, s)) = Len(s) + 1
        /\ \A k \in DOMAIN s : Push(f, s)[k + 1] = s[k]
    BY DEF Push
  <1>2. Tail(Push(f, s)) = s
    BY <1>1
  <1>3. Frames(Push(f, s)) = {f} \union Frames(s)
    <2>1. ASSUME NEW k \in DOMAIN Push(f, s), k # 1
          PROVE  k - 1 \in DOMAIN s /\ Push(f, s)[k] = s[k - 1]
      BY <1>1, <2>1
    <2>2. \A k \in DOMAIN s : k + 1 \in DOMAIN Push(f, s)
      BY <1>1
    <2>3. 1 \in DOMAIN Push(f, s)
      BY <1>1
    <2>4. QED BY <1>1, <2>1, <2>2, <2>3 DEF Frames
  <1>4. QED BY <1>1, <1>2, <1>3

LEMMA StackFacts ==
  ASSUME NEW s, NEW S, s \in Seq(S), s # <<>>
  PROVE  /\ s[1] \in S /\ Tail(s) \in Seq(S) /\ s = Push(s[1], Tail(s))
         /\ Len(s) = Len(Tail(s)) + 1
         /\ Frames(s) = {s[1]} \union Frames(Tail(s))
  <1>1. s[1] \in S /\ Tail(s) \in Seq(S) /\ Len(s) = Len(Tail(s)) + 1
    OBVIOUS
  <1>2. s = Push(s[1], Tail(s))
    BY DEF Push
  <1>3. QED BY <1>1, <1>2, PushFacts

LEMMA FramesInSet ==
  ASSUME NEW s, NEW S, s \in Seq(S)
  PROVE  /\ Frames(s) \subseteq S
         /\ Frames(<<>>) = {}
  <1>1. \A k \in DOMAIN s : s[k] \in S
    OBVIOUS
  <1>2. DOMAIN <<>> = {}
    OBVIOUS
  <1>3. QED BY <1>1, <1>2 DEF Frames

LEMMA EmptyCount == \A F : Count(<<>>, F) = 0
  <1>1. ASSUME NEW F PROVE {k \in DOMAIN <<>> : <<>>[k] \in F} = {}
    OBVIOUS
  <1>2. QED BY <1>1, FS_EmptySet DEF Count

LEMMA CountFacts ==
  ASSUME NEW s, NEW S, s \in Seq(S), NEW F
  PROVE  /\ Count(s, F) \in Nat /\ Count(s, F) <= Len(s)
         /\ Count(<<>>, F) = 0
         /\ \A f \in S : Count(Push(f, s), F) = Count(s, F) + IF f \in F THEN 1 ELSE 0
         /\ Count(s, F) = 0 <=> \A f \in Frames(s) : f \notin F
  <1> DEFINE K == {k \in DOMAIN s : s[k] \in F}
  <1>0. Len(s) \in Nat /\ DOMAIN s = 1 .. Len(s)
    OBVIOUS
  <1>1. K \in SUBSET (1 .. Len(s)) /\ IsFiniteSet(1 .. Len(s)) /\ Cardinality(1 .. Len(s)) = Len(s)
    <2>1. IsFiniteSet(1 .. Len(s)) /\ Cardinality(1 .. Len(s)) = Len(s)
      BY <1>0, FS_Interval
    <2>2. QED BY <1>0, <2>1
  <1>2. IsFiniteSet(K) /\ Cardinality(K) <= Len(s)
    BY <1>1, FS_Subset
  <1>3. Count(s, F) \in Nat /\ Count(s, F) <= Len(s)
    BY <1>2, FS_CardinalityType DEF Count
  <1>4. Count(<<>>, F) = 0
    BY EmptyCount
  <1>5. ASSUME NEW f \in S
        PROVE  Count(Push(f, s), F) = Count(s, F) + IF f \in F THEN 1 ELSE 0
    <2> DEFINE p == Push(f, s)
               U == {k + 1 : k \in K}
               g == [k \in K |-> k + 1]
    <2>1. p[1] = f /\ Len(p) = Len(s) + 1 /\ \A k \in DOMAIN s : p[k + 1] = s[k]
      BY DEF Push
    <2>2. DOMAIN p = 1 .. Len(s) + 1
      BY <2>1, PushFacts
    <2>3. IsFiniteSet(U) /\ Cardinality(U) = Cardinality(K)
      <3>1. g \in Bijection(K, U)
        <4>1. g \in [K -> U] /\ \A u \in U : \E k \in K : g[k] = u
          OBVIOUS
        <4>2. \A j, k \in K : g[j] = g[k] => j = k
          BY <1>1
        <4>3. QED BY <4>1, <4>2 DEF Bijection, Injection, Surjection, IsInjective
      <3>2. QED BY <1>2, <3>1, FS_Bijection DEF ExistsBijection
    <2>4. 1 \notin U
      BY <1>1
    <2>5. {k \in DOMAIN p : p[k] \in F} = IF f \in F THEN U \union {1} ELSE U
      <3> HIDE DEF p
      <3>1. ASSUME NEW k \in DOMAIN p, k # 1 PROVE p[k] \in F <=> k \in U
        <4>1. k - 1 \in DOMAIN s /\ k = (k - 1) + 1
          <5>1. DOMAIN s = 1 .. Len(s) /\ Len(s) \in Nat
            OBVIOUS
          <5>2. QED BY <2>2, <3>1, <5>1
        <4>2. p[k] = s[k - 1]
          BY <2>1, <4>1
        <4>3. QED BY <4>1, <4>2
      <3>2. 1 \in DOMAIN p /\ p[1] = f
        BY <2>1, <2>2
      <3>3. U \subseteq DOMAIN p
        BY <1>1, <2>2
      <3> HIDE DEF U
      <3>4. QED BY <2>4, <3>1, <3>2, <3>3
    <2> HIDE DEF U
    <2>6. Cardinality(U \union {1}) = Cardinality(U) + 1
      BY <2>3, <2>4, FS_AddElement
    <2>7. Count(p, F) = Cardinality(IF f \in F THEN U \union {1} ELSE U)
      <3> HIDE DEF p
      <3> QED BY <2>5 DEF Count
    <2>8. QED BY <2>3, <2>6, <2>7, <1>3 DEF Count
  <1>6. Count(s, F) = 0 <=> \A f \in Frames(s) : f \notin F
    <2>1. Count(s, F) = 0 <=> K = {}
      BY <1>2, FS_EmptySet DEF Count
    <2>2. QED BY <2>1 DEF Frames
  <1>7. QED BY <1>3, <1>4, <1>5, <1>6

LEMMA TopChanged ==
  ASSUME NEW s, NEW S, s \in Seq(S), s # <<>>, NEW f \in S
  PROVE  [s EXCEPT ![1] = f] = Push(f, Tail(s))
  BY DEF Push

------------------------------------------------------------------------------
\* Types

LookLabels  == {"cached", "check", "scan", "get", "vget", "vget_slept", "got", "got_slept",
                "event", "have", "new", "init", "enter", "dup", "fill", "fail"}
NoVnode     == {"scan", "get", "new", "fail"}

VnodeRecord == [count : Int, xlock : BOOLEAN, want : BOOLEAN, type : {"none", "reg", "bad"},
                ops : {"ufs", "dead"}, ino : Inos \union {None}, hashed : BOOLEAN,
                listed : BOOLEAN, inactivating : BOOLEAN, inactwait : BOOLEAN,
                read : {"no", "yes", "error"}]
Channels == {None} \union ({"v_flag", "i_flag"} \X Vnodes)
ThreadRecord == [stack : Seq(Frame), chan : Channels,
                 why : {"name", "handle", "create", "other", "unmount"},
                 i : Inos \union {None}, cap : Vnodes \union {None}, held : Open \union {None}]

\* The frame of a lookup is the first of its call.
IsFirst(s)  == \A k \in DOMAIN s : s[k].at \in LookLabels => k = Len(s)
CallFits(r) ==
  /\ r.stack # <<>> => r.held = None
  /\ IsFirst(r.stack)
  /\ \A f \in Frames(r.stack) : /\ f.at \notin NoVnode => f.v \in Vnodes
                                /\ f.at \in LookLabels => r.i \in Inos /\ r.why \in Lookups

Typed ==
  /\ vn \in [Vnodes -> VnodeRecord]
  /\ free \subseteq Vnodes
  /\ file \in [Inos -> {"free", "reserved", "linked", "unlinked"}]
  /\ name \in [Inos -> Vnodes \union {None}]
  /\ panic \in Panics
  /\ th \in [Threads -> ThreadRecord]
  /\ \A t \in Threads : CallFits(th[t])

------------------------------------------------------------------------------
\* What the operators on a thread's record make of it.

Fr(at, v, flag) == [at |-> at, v |-> v, flag |-> flag]

\* but for the stack and the channel
Alike(q, r) == q.i = r.i /\ q.why = r.why /\ q.cap = r.cap /\ q.held = r.held

LEMMA FrFacts ==
  /\ \A at \in Labels, v \in Vnodes \union {None}, flag \in BOOLEAN : Fr(at, v, flag) \in Frame
  /\ \A at, v, flag : /\ Fr(at, v, flag).at = at /\ Fr(at, v, flag).v = v
                      /\ Fr(at, v, flag).flag = flag
  /\ \A f \in Frame : /\ f.at \in Labels /\ f.v \in Vnodes \union {None} /\ f.flag \in BOOLEAN
                      /\ f = Fr(f.at, f.v, f.flag)
  BY DEF Frame, Fr

LEMMA EmptyFacts ==
  ASSUME NEW S, NEW q \in Seq(S), Len(q) = 0
  PROVE  q = <<>>
  OBVIOUS

LEMMA FirstFacts ==
  ASSUME NEW s \in Seq(Frame)
  PROVE  /\ \A f \in Frame : IsFirst(s) /\ (f.at \in LookLabels => s = <<>>) => IsFirst(Push(f, s))
         /\ IsFirst(s) /\ s # <<>> =>
              IsFirst(Tail(s)) /\ (s[1].at \in LookLabels => Tail(s) = <<>>)
  <1>2. ASSUME NEW f \in Frame, IsFirst(s), f.at \in LookLabels => s = <<>>
        PROVE  IsFirst(Push(f, s))
    <2> DEFINE p == Push(f, s)
    <2>1. /\ Len(p) = Len(s) + 1 /\ Len(s) \in Nat /\ DOMAIN p = 1 .. Len(s) + 1 /\ DOMAIN s = 1 .. Len(s)
          /\ p[1] = f /\ \A k \in 2 .. Len(s) + 1 : p[k] = s[k - 1]
      BY DEF Push
    <2> HIDE DEF p
    <2>2. ASSUME NEW k \in DOMAIN p, p[k].at \in LookLabels PROVE k = Len(p)
      <3>1. CASE k = 1
        <4>1. s = <<>>
          BY <1>2, <2>1, <2>2, <3>1
        <4>2. Len(s) = 0
          BY <4>1
        <4>3. QED BY <2>1, <3>1, <4>2
      <3>2. CASE k # 1
        BY <1>2, <2>1, <2>2, <3>2 DEF IsFirst
      <3>3. QED BY <3>1, <3>2
    <2>3. QED BY <2>2 DEF IsFirst, p
  <1>3. ASSUME IsFirst(s), s # <<>>
        PROVE  IsFirst(Tail(s)) /\ (s[1].at \in LookLabels => Tail(s) = <<>>)
    <2>1. /\ Len(Tail(s)) = Len(s) - 1 /\ Len(s) \in Nat \ {0} /\ DOMAIN Tail(s) = 1 .. Len(s) - 1
          /\ DOMAIN s = 1 .. Len(s) /\ \A k \in 1 .. Len(s) - 1 : Tail(s)[k] = s[k + 1]
          /\ Tail(s) \in Seq(Frame)
      BY <1>3
    <2>2. IsFirst(Tail(s))
      BY <1>3, <2>1 DEF IsFirst
    <2>3. ASSUME s[1].at \in LookLabels PROVE Tail(s) = <<>>
      <3>1. Len(s) = 1
        BY <1>3, <2>1, <2>3 DEF IsFirst
      <3>2. Len(Tail(s)) = 0
        BY <2>1, <3>1
      <3>3. QED BY <2>1, <3>2, EmptyFacts
    <2>4. QED BY <2>2, <2>3
  <1>4. QED BY <1>2, <1>3

LEMMA FlagIs ==
  ASSUME NEW f \in Frame, NEW b \in BOOLEAN
  PROVE  [f EXCEPT !.flag = b] = Fr(f.at, f.v, b)
  <1> DEFINE g == [f EXCEPT !.flag = b]
  <1>1. g \in Frame /\ g.at = f.at /\ g.v = f.v /\ g.flag = b
    BY DEF Frame
  <1> HIDE DEF g
  <1>2. g = Fr(g.at, g.v, g.flag)
    BY <1>1, FrFacts
  <1>3. QED BY <1>1, <1>2 DEF g

LEMMA StackIs ==
  ASSUME NEW r \in ThreadRecord, NEW s \in Seq(Frame)
  PROVE  LET q == [r EXCEPT !.stack = s]
         IN  q \in ThreadRecord /\ Alike(q, r) /\ q.chan = r.chan /\ q.stack = s
  BY DEF ThreadRecord, Alike

LEMMA GotoIs ==
  ASSUME NEW r \in ThreadRecord, r.stack # <<>>, NEW at \in Labels
  PROVE  /\ Goto(r, at) \in ThreadRecord /\ Alike(Goto(r, at), r) /\ Goto(r, at).chan = r.chan
         /\ Goto(r, at).stack = Push(Fr(at, r.stack[1].v, r.stack[1].flag), Tail(r.stack))
  <1> DEFINE f == Fr(at, r.stack[1].v, r.stack[1].flag)
  <1>1. r.stack \in Seq(Frame)
    BY DEF ThreadRecord
  <1>2. r.stack[1] \in Frame
    BY <1>1, StackFacts
  <1>3. f \in Frame
    BY <1>2, FrFacts
  <1>4. [r.stack[1] EXCEPT !.at = at] = f
    BY <1>2 DEF Fr, Frame
  <1>5. Goto(r, at) = [r EXCEPT !.stack = [r.stack EXCEPT ![1] = f]]
    BY <1>4 DEF Goto
  <1> HIDE DEF f
  <1>6. [r.stack EXCEPT ![1] = f] = Push(f, Tail(r.stack))
    BY <1>1, <1>3, TopChanged
  <1>7. Push(f, Tail(r.stack)) \in Seq(Frame)
    BY <1>1, <1>3, StackFacts, PushFacts
  <1>8. QED BY <1>5, <1>6, <1>7, StackIs DEF f

LEMMA WithIs ==
  ASSUME NEW r \in ThreadRecord, r.stack # <<>>, NEW at \in Labels, NEW v \in Vnodes \union {None}
  PROVE  /\ With(r, at, v) \in ThreadRecord /\ Alike(With(r, at, v), r)
         /\ With(r, at, v).chan = r.chan
         /\ With(r, at, v).stack = Push(Fr(at, v, r.stack[1].flag), Tail(r.stack))
  <1> DEFINE f == Fr(at, v, r.stack[1].flag)
  <1>1. r.stack \in Seq(Frame)
    BY DEF ThreadRecord
  <1>2. r.stack[1] \in Frame
    BY <1>1, StackFacts
  <1>3. f \in Frame
    BY <1>2, FrFacts
  <1>4. With(r, at, v) = [r EXCEPT !.stack = [r.stack EXCEPT ![1] = f]]
    <2> DEFINE g == Fr(at, r.stack[1].v, r.stack[1].flag)
               s == [r.stack EXCEPT ![1] = g]
    <2>1. [r.stack[1] EXCEPT !.at = at] = g
      BY <1>2 DEF Fr, Frame
    <2>2. [g EXCEPT !.v = v] = f
      BY DEF Fr
    <2>3. [s EXCEPT ![1] = [s[1] EXCEPT !.v = v]] = [r.stack EXCEPT ![1] = f]
      <3> HIDE DEF g, f
      <3>1. s[1] = g
        BY <1>1
      <3>2. QED BY <3>1, <2>2, <1>1
    <2>4. With(r, at, v) = [[r EXCEPT !.stack = s] EXCEPT !.stack = [s EXCEPT ![1] = [s[1] EXCEPT !.v = v]]]
      BY <2>1 DEF With, ThreadRecord
    <2>5. QED BY <2>3, <2>4 DEF ThreadRecord
  <1> HIDE DEF f
  <1>6. [r.stack EXCEPT ![1] = f] = Push(f, Tail(r.stack))
    BY <1>1, <1>3, TopChanged
  <1>7. Push(f, Tail(r.stack)) \in Seq(Frame)
    BY <1>1, <1>3, StackFacts, PushFacts
  <1>8. QED BY <1>4, <1>6, <1>7, StackIs DEF f

LEMMA CallIs ==
  ASSUME NEW r \in ThreadRecord, NEW at \in Labels, NEW v \in Vnodes \union {None}
  PROVE  /\ Call(r, at, v) \in ThreadRecord /\ Alike(Call(r, at, v), r)
         /\ Call(r, at, v).chan = r.chan
         /\ Call(r, at, v).stack = Push(Fr(at, v, FALSE), r.stack)
  <1>1. r.stack \in Seq(Frame)
    BY DEF ThreadRecord
  <1>2. Fr(at, v, FALSE) \in Frame
    BY FrFacts
  <1>3. Push(Fr(at, v, FALSE), r.stack) \in Seq(Frame)
    BY <1>1, <1>2, PushFacts
  <1>4. Call(r, at, v) = [r EXCEPT !.stack = Push(Fr(at, v, FALSE), r.stack)]
    BY DEF Call, Push, Fr
  <1>5. QED BY <1>3, <1>4 DEF ThreadRecord, Alike

LEMMA FlaggedIs ==
  ASSUME NEW r \in ThreadRecord, r.stack # <<>>, NEW b \in BOOLEAN
  PROVE  LET q == [r EXCEPT !.stack[1].flag = b]
         IN  /\ q \in ThreadRecord /\ Alike(q, r)
             /\ q.stack = Push(Fr(r.stack[1].at, r.stack[1].v, b), Tail(r.stack))
  <1> DEFINE f == Fr(r.stack[1].at, r.stack[1].v, b)
  <1>1. r.stack \in Seq(Frame)
    BY DEF ThreadRecord
  <1>2. r.stack[1] \in Frame /\ Tail(r.stack) \in Seq(Frame)
    BY <1>1, StackFacts
  <1>3. f \in Frame /\ [r.stack[1] EXCEPT !.flag = b] = f
    BY <1>2, FrFacts, FlagIs
  <1> HIDE DEF f
  <1>4. [r.stack EXCEPT ![1] = f] = Push(f, Tail(r.stack))
    BY <1>1, <1>3, TopChanged
  <1>5. [r EXCEPT !.stack[1].flag = b] = [r EXCEPT !.stack = Push(f, Tail(r.stack))]
    BY <1>3, <1>4
  <1>6. Push(f, Tail(r.stack)) \in Seq(Frame)
    <2> DEFINE S == Frame
               s == Tail(r.stack)
    <2>1. f \in S /\ s \in Seq(S)
      BY <1>2, <1>3
    <2> HIDE DEF S, s
    <2>2. Push(f, s) \in Seq(S)
      BY <2>1, PushFacts
    <2>3. QED BY <2>2 DEF S, s
  <1> DEFINE s == Push(f, Tail(r.stack))
             q == [r EXCEPT !.stack = s]
  <1>7. q \in ThreadRecord /\ Alike(q, r) /\ q.stack = s
    <2> HIDE DEF s
    <2>1. s \in Seq(Frame)
      BY <1>6 DEF s
    <2>2. QED BY <2>1, StackIs
  <1>8. QED BY <1>5, <1>7 DEF f

LEMMA ReturnIs ==
  ASSUME NEW r \in ThreadRecord, r.stack # <<>>
  PROVE  /\ Return(r) \in ThreadRecord /\ Return(r).held = r.held
         /\ Return(r).stack = Tail(r.stack)
         /\ IF Tail(r.stack) = <<>> THEN Return(r).i = None /\ Return(r).why = "other" /\ Return(r).cap = None
            ELSE Alike(Return(r), r)
  <1>1. r.stack \in Seq(Frame)
    BY DEF ThreadRecord
  <1>2. Tail(r.stack) \in Seq(Frame) /\ (Len(r.stack) > 1 <=> Tail(r.stack) # <<>>)
    BY <1>1
  <1>3. CASE Len(r.stack) > 1
    <2>1. Return(r) = [r EXCEPT !.stack = Tail(r.stack)]
      BY <1>3 DEF Return
    <2>2. QED BY <1>2, <1>3, <2>1 DEF ThreadRecord, Alike
  <1>4. CASE ~(Len(r.stack) > 1)
    <2>1. Return(r) = [Idle EXCEPT !.held = r.held]
      BY <1>4 DEF Return
    <2>2. <<>> \in Seq(Frame)
      OBVIOUS
    <2>3. Return(r) = [stack |-> <<>>, chan |-> None, why |-> "other", i |-> None,
                       cap |-> None, held |-> r.held]
      BY <2>1 DEF Idle
    <2>4. Return(r) \in ThreadRecord
      BY <2>2, <2>3 DEF ThreadRecord, Channels
    <2>5. QED BY <1>2, <1>4, <2>3, <2>4
  <1>5. QED BY <1>3, <1>4

------------------------------------------------------------------------------
\* What a step does

\* The vnodes, field by field
SameBody(p, q) == /\ p.type = q.type /\ p.ops = q.ops /\ p.ino = q.ino
                  /\ p.hashed = q.hashed /\ p.listed = q.listed /\ p.read = q.read
VnodesFit  == vn' \in [Vnodes -> VnodeRecord]
SameCounts == \A w \in Vnodes : vn'[w].count = vn[w].count
SameLocks  == \A w \in Vnodes : vn'[w].xlock = vn[w].xlock
SameInacts == \A w \in Vnodes : vn'[w].inactivating = vn[w].inactivating
SameBodies == \A w \in Vnodes : SameBody(vn'[w], vn[w])
Quiet      == VnodesFit /\ SameCounts /\ SameLocks /\ SameInacts /\ SameBodies
CountIs(v, n) == vn'[v].count = n /\ \A w \in Vnodes \ {v} : vn'[w].count = vn[w].count
LockIs(v, b)  == vn'[v].xlock = b /\ \A w \in Vnodes \ {v} : vn'[w].xlock = vn[w].xlock
InactIs(v, b) == vn'[v].inactivating = b /\ \A w \in Vnodes \ {v} : vn'[w].inactivating = vn[w].inactivating
BodyIs(v, type, ops, ino, hashed, listed, read) ==
  /\ vn'[v].type = type /\ vn'[v].ops = ops /\ vn'[v].ino = ino
  /\ vn'[v].hashed = hashed /\ vn'[v].listed = listed /\ vn'[v].read = read
  /\ \A w \in Vnodes \ {v} : SameBody(vn'[w], vn[w])
CountsOnly(v, n) == VnodesFit /\ CountIs(v, n) /\ SameLocks /\ SameInacts /\ SameBodies
LocksOnly(v)     == VnodesFit /\ LockIs(v, TRUE) /\ SameCounts /\ SameInacts /\ SameBodies
InactOnly(v, b)  == VnodesFit /\ InactIs(v, b) /\ SameCounts /\ SameLocks /\ SameBodies
BodiesOnly       == VnodesFit /\ SameCounts /\ SameLocks /\ SameInacts

\* The threads: t gets the record r but for a wakeup or a purge.
Agree(q, r) == /\ q.stack = r.stack /\ q.i = r.i /\ q.why = r.why /\ q.held = r.held
               /\ q.cap \in {r.cap, None}
Turns(t, r) == /\ th' \in [Threads -> ThreadRecord]
               /\ Agree(th'[t], r)
               /\ \A u \in Threads \ {t} : Agree(th'[u], th[u])

\* t is in a call and gets the stack s; with its last frame it may end the call.
Below(t)    == Tail(th[t].stack)
Moves(t, s) ==
  /\ th' \in [Threads -> ThreadRecord]
  /\ \A u \in Threads \ {t} : Agree(th'[u], th[u])
  /\ th'[t].stack = s /\ th'[t].held = None
  /\ \/ th'[t].i = th[t].i /\ th'[t].why = th[t].why /\ th'[t].cap \in {th[t].cap, None}
     \/ /\ Below(t) = <<>> /\ \A f \in Frames(s) : f.at \notin LookLabels
        /\ th'[t].i = None /\ th'[t].why = "other" /\ th'[t].cap = None
Top1(t, at)    == Push(Fr(at, Top(t).v, Top(t).flag), Below(t))
Over(at, v, s) == Push(Fr(at, v, FALSE), s)

InCall(t) == /\ th[t].stack # <<>> /\ th[t].stack = Push(Top(t), Below(t))
             /\ Top(t) \in Frame /\ Below(t) \in Seq(Frame) /\ th[t].stack \in Seq(Frame)
             /\ Frames(th[t].stack) = {Top(t)} \union Frames(Below(t))
             /\ Frames(Below(t)) \subseteq Frame
             /\ Top(t).at \in Labels /\ Top(t).flag \in BOOLEAN /\ Top(t).v \in Vnodes \union {None}
             /\ Top(t).at \notin NoVnode => Top(t).v \in Vnodes
             /\ Top(t).at \in LookLabels => th[t].i \in Inos /\ th[t].why \in Lookups
             /\ th[t].held = None /\ th[t] \in ThreadRecord
             /\ Len(th[t].stack) = Len(Below(t)) + 1
             /\ IsFirst(Below(t)) /\ (Top(t).at \in LookLabels => Below(t) = <<>>)

LEMMA PushFrame ==
  ASSUME NEW f \in Frame, NEW s \in Seq(Frame)
  PROVE  /\ Push(f, s) \in Seq(Frame) /\ Push(f, s) # <<>>
         /\ Push(f, s)[1] = f /\ Tail(Push(f, s)) = s /\ Len(Push(f, s)) = Len(s) + 1
         /\ Frames(Push(f, s)) = {f} \union Frames(s)
         /\ \A F : Count(Push(f, s), F) = Count(s, F) + IF f \in F THEN 1 ELSE 0
  <1> DEFINE S == Frame
  <1> HIDE DEF S
  <1>1. f \in S /\ s \in Seq(S)
    BY DEF S
  <1>2. QED BY <1>1, PushFacts, CountFacts DEF S

LEMMA InCallFacts ==
  ASSUME Typed, NEW t \in Threads, th[t].stack # <<>>
  PROVE  InCall(t)
  <1>1. th[t] \in ThreadRecord /\ CallFits(th[t])
    BY DEF Typed
  <1>2. th[t].stack \in Seq(Frame)
    BY <1>1 DEF ThreadRecord
  <1>3. /\ Top(t) \in Frame /\ Below(t) \in Seq(Frame) /\ th[t].stack = Push(Top(t), Below(t))
        /\ Frames(th[t].stack) = {Top(t)} \union Frames(Below(t))
        /\ Len(th[t].stack) = Len(Below(t)) + 1
    BY <1>2, StackFacts DEF Top, Below
  <1>4. Frames(Below(t)) \subseteq Frame
    BY <1>3, FramesInSet
  <1>5. Top(t).at \in Labels /\ Top(t).flag \in BOOLEAN /\ Top(t).v \in Vnodes \union {None}
    BY <1>3, FrFacts
  <1>6. IsFirst(Below(t)) /\ (Top(t).at \in LookLabels => Below(t) = <<>>)
    <2> DEFINE s == th[t].stack
    <2>1. s \in Seq(Frame) /\ s # <<>> /\ IsFirst(s)
      BY <1>1, <1>2 DEF CallFits
    <2>2. Top(t) = s[1] /\ Below(t) = Tail(s)
      BY DEF Top, Below
    <2> HIDE DEF s
    <2>3. QED BY <2>1, <2>2, FirstFacts
  <1>7. QED BY <1>1, <1>2, <1>3, <1>4, <1>5, <1>6 DEF InCall, CallFits

LEMMA FieldSteps ==
  ASSUME NEW p \in VnodeRecord
  PROVE  /\ \A n \in Int : LET q == [p EXCEPT !.count = n]
                          IN  q \in VnodeRecord /\ q.count = n /\ q.xlock = p.xlock
                              /\ q.inactivating = p.inactivating /\ SameBody(q, p)
         /\ \A b \in BOOLEAN : LET q == [p EXCEPT !.xlock = b]
                              IN  q \in VnodeRecord /\ q.count = p.count /\ q.xlock = b
                                  /\ q.inactivating = p.inactivating /\ SameBody(q, p)
         /\ \A b \in BOOLEAN : LET q == [p EXCEPT !.inactivating = b]
                              IN  q \in VnodeRecord /\ q.count = p.count /\ q.xlock = p.xlock
                                  /\ q.inactivating = b /\ SameBody(q, p)
         /\ \A b \in BOOLEAN : LET q == [p EXCEPT !.want = b]
                              IN  q \in VnodeRecord /\ q.count = p.count /\ q.xlock = p.xlock
                                  /\ q.inactivating = p.inactivating /\ SameBody(q, p)
         /\ \A b \in BOOLEAN : LET q == [p EXCEPT !.inactwait = b]
                              IN  q \in VnodeRecord /\ q.count = p.count /\ q.xlock = p.xlock
                                  /\ q.inactivating = p.inactivating /\ SameBody(q, p)
  BY DEF VnodeRecord, SameBody

\* The vnodes w are those of now but that the inactivation of v is over.
Ended(v, w) ==
  /\ w[v].inactivating = FALSE
  /\ \A x \in Vnodes : /\ w[x].count = vn[x].count /\ w[x].xlock = vn[x].xlock
                       /\ SameBody(w[x], vn[x])
                       /\ x # v => w[x].inactivating = vn[x].inactivating

LEMMA EndSteps ==
  ASSUME vn \in [Vnodes -> VnodeRecord], NEW v \in Vnodes
  PROVE  InactivationEnds(v) \in [Vnodes -> VnodeRecord] /\ Ended(v, InactivationEnds(v))
  <1> DEFINE p == [vn[v] EXCEPT !.inactivating = FALSE]
             q == [p EXCEPT !.inactwait = FALSE]
  <1>1. p \in VnodeRecord /\ p.count = vn[v].count /\ p.xlock = vn[v].xlock
        /\ p.inactivating = FALSE /\ SameBody(p, vn[v])
    BY FieldSteps
  <1> HIDE DEF p
  <1>2. q \in VnodeRecord /\ q.count = p.count /\ q.xlock = p.xlock
        /\ q.inactivating = p.inactivating /\ SameBody(q, p)
    BY <1>1, FieldSteps
  <1> HIDE DEF q
  <1>3. InactivationEnds(v) = [vn EXCEPT ![v] = q]
    BY DEF InactivationEnds, p, q
  <1>4. SameBody(q, vn[v]) /\ \A x \in Vnodes : SameBody(vn[x], vn[x])
    BY <1>1, <1>2 DEF SameBody
  <1>5. QED BY <1>1, <1>2, <1>3, <1>4 DEF Ended

LEMMA VnodeSteps ==
  ASSUME vn \in [Vnodes -> VnodeRecord], NEW v \in Vnodes
  PROVE  /\ vn' = vn => Quiet
         /\ \A n \in Int : vn' = [vn EXCEPT ![v].count = n] => CountsOnly(v, n)
         /\ vn' = [vn EXCEPT ![v].want = TRUE] => Quiet
         /\ vn' = [vn EXCEPT ![v].inactwait = TRUE] => Quiet
         /\ vn' = [vn EXCEPT ![v].xlock = TRUE] => LocksOnly(v)
         /\ vn' = [vn EXCEPT ![v].inactivating = TRUE] => InactOnly(v, TRUE)
         /\ vn' = InactivationEnds(v) => InactOnly(v, FALSE)
  <1>1. vn' = vn => Quiet
    BY DEF Quiet, VnodesFit, SameCounts, SameLocks, SameInacts, SameBodies, SameBody
  <1>2. vn[v] \in VnodeRecord
    OBVIOUS
  <1>3. ASSUME NEW r \in VnodeRecord, vn' = [vn EXCEPT ![v] = r]
        PROVE  VnodesFit /\ vn'[v] = r /\ \A w \in Vnodes \ {v} : vn'[w] = vn[w] /\ SameBody(vn'[w], vn[w])
    BY <1>3 DEF VnodesFit, SameBody
  <1> USE DEF SameCounts, SameLocks, SameInacts, SameBodies
  <1>4. ASSUME NEW n \in Int, vn' = [vn EXCEPT ![v].count = n] PROVE CountsOnly(v, n)
    <2> DEFINE r == [vn[v] EXCEPT !.count = n]
    <2>1. r \in VnodeRecord /\ r.count = n /\ r.xlock = vn[v].xlock
          /\ r.inactivating = vn[v].inactivating /\ SameBody(r, vn[v])
      BY <1>2, FieldSteps
    <2>2. vn' = [vn EXCEPT ![v] = r]
      BY <1>4
    <2> HIDE DEF r
    <2>3. QED BY <1>3, <2>1, <2>2 DEF CountsOnly, CountIs
  <1>5. ASSUME vn' = [vn EXCEPT ![v].want = TRUE] PROVE Quiet
    <2> DEFINE r == [vn[v] EXCEPT !.want = TRUE]
    <2>1. r \in VnodeRecord /\ r.count = vn[v].count /\ r.xlock = vn[v].xlock
          /\ r.inactivating = vn[v].inactivating /\ SameBody(r, vn[v])
      BY <1>2, FieldSteps
    <2>2. vn' = [vn EXCEPT ![v] = r]
      BY <1>5
    <2> HIDE DEF r
    <2>3. QED BY <1>3, <2>1, <2>2 DEF Quiet
  <1>6. ASSUME vn' = [vn EXCEPT ![v].inactwait = TRUE] PROVE Quiet
    <2> DEFINE r == [vn[v] EXCEPT !.inactwait = TRUE]
    <2>1. r \in VnodeRecord /\ r.count = vn[v].count /\ r.xlock = vn[v].xlock
          /\ r.inactivating = vn[v].inactivating /\ SameBody(r, vn[v])
      BY <1>2, FieldSteps
    <2>2. vn' = [vn EXCEPT ![v] = r]
      BY <1>6
    <2> HIDE DEF r
    <2>3. QED BY <1>3, <2>1, <2>2 DEF Quiet
  <1>7. ASSUME vn' = [vn EXCEPT ![v].xlock = TRUE] PROVE LocksOnly(v)
    <2> DEFINE r == [vn[v] EXCEPT !.xlock = TRUE]
    <2>1. r \in VnodeRecord /\ r.count = vn[v].count /\ r.xlock = TRUE
          /\ r.inactivating = vn[v].inactivating /\ SameBody(r, vn[v])
      BY <1>2, FieldSteps
    <2>2. vn' = [vn EXCEPT ![v] = r]
      BY <1>7
    <2> HIDE DEF r
    <2>3. QED BY <1>3, <2>1, <2>2 DEF LocksOnly, LockIs
  <1>8. ASSUME vn' = [vn EXCEPT ![v].inactivating = TRUE] PROVE InactOnly(v, TRUE)
    <2> DEFINE r == [vn[v] EXCEPT !.inactivating = TRUE]
    <2>1. r \in VnodeRecord /\ r.count = vn[v].count /\ r.xlock = vn[v].xlock
          /\ r.inactivating = TRUE /\ SameBody(r, vn[v])
      BY <1>2, FieldSteps
    <2>2. vn' = [vn EXCEPT ![v] = r]
      BY <1>8
    <2> HIDE DEF r
    <2>3. QED BY <1>3, <2>1, <2>2 DEF InactOnly, InactIs
  <1>9. ASSUME vn' = InactivationEnds(v) PROVE InactOnly(v, FALSE)
    <2>1. InactivationEnds(v) \in [Vnodes -> VnodeRecord] /\ Ended(v, InactivationEnds(v))
      BY EndSteps
    <2>2. QED BY <1>9, <2>1 DEF Ended, InactOnly, InactIs, VnodesFit
  <1>10. QED BY <1>1, <1>4, <1>5, <1>6, <1>7, <1>8, <1>9

LEMMA DoesTurns ==
  ASSUME th \in [Threads -> ThreadRecord], NEW t \in Threads, NEW r \in ThreadRecord
  PROVE  /\ Does(t, r) => Turns(t, r) /\ th'[t] = r
         /\ \A c : Does(t, Sleep(r, c)) /\ c \in Channels => Turns(t, r)
         /\ \A c : th' = Wakeup([th EXCEPT ![t] = r], c) => Turns(t, r)
         /\ \A v : th' = Forgotten([th EXCEPT ![t] = r], v) => Turns(t, r)
  <1>1. Does(t, r) => Turns(t, r) /\ th'[t] = r
    BY DEF Does, Turns, Agree
  <1>2. ASSUME NEW c \in Channels, Does(t, Sleep(r, c)) PROVE Turns(t, r)
    <2>1. Sleep(r, c) \in ThreadRecord /\ Agree(Sleep(r, c), r)
      BY DEF Sleep, ThreadRecord, Agree
    <2>2. QED BY <1>2, <2>1 DEF Does, Turns, Agree
  <1>3. ASSUME NEW c, th' = Wakeup([th EXCEPT ![t] = r], c) PROVE Turns(t, r)
    <2>1. ASSUME NEW q \in ThreadRecord
          PROVE  [q EXCEPT !.chan = None] \in ThreadRecord /\ Agree([q EXCEPT !.chan = None], q)
      BY DEF ThreadRecord, Agree, Channels
    <2>2. ASSUME NEW q \in ThreadRecord PROVE Agree(q, q)
      BY DEF Agree
    <2>3. ASSUME NEW u \in Threads
          PROVE  th'[u] \in ThreadRecord /\ Agree(th'[u], [th EXCEPT ![t] = r][u])
      BY <1>3, <2>1, <2>2 DEF Wakeup
    <2>4. QED BY <1>3, <2>3 DEF Turns, Wakeup
  <1>4. ASSUME NEW v, th' = Forgotten([th EXCEPT ![t] = r], v) PROVE Turns(t, r)
    <2>1. ASSUME NEW q \in ThreadRecord
          PROVE  [q EXCEPT !.cap = None] \in ThreadRecord /\ Agree([q EXCEPT !.cap = None], q)
      BY DEF ThreadRecord, Agree
    <2>2. ASSUME NEW q \in ThreadRecord PROVE Agree(q, q)
      BY DEF Agree
    <2>3. ASSUME NEW u \in Threads
          PROVE  th'[u] \in ThreadRecord /\ Agree(th'[u], [th EXCEPT ![t] = r][u])
      BY <1>4, <2>1, <2>2 DEF Forgotten
    <2>4. QED BY <1>4, <2>3 DEF Turns, Forgotten
  <1>5. QED BY <1>1, <1>2, <1>3, <1>4

LEMMA TurnMoves ==
  ASSUME Typed, NEW t \in Threads, th[t].stack # <<>>
  PROVE  /\ \A at \in Labels : Turns(t, Goto(th[t], at)) => Moves(t, Top1(t, at))
         /\ \A at \in Labels, v \in Vnodes \union {None} :
               Turns(t, With(th[t], at, v)) => Moves(t, Push(Fr(at, v, Top(t).flag), Below(t)))
         /\ \A at \in Labels, a \in Labels, v \in Vnodes \union {None} :
               Turns(t, Call(Goto(th[t], at), a, v)) => Moves(t, Over(a, v, Top1(t, at)))
         /\ \A at \in Labels, w \in Vnodes, a \in Labels, v \in Vnodes :
               Turns(t, Call(With(th[t], at, w), a, v))
                  => Moves(t, Over(a, v, Push(Fr(at, w, Top(t).flag), Below(t))))
         /\ Turns(t, Return(th[t])) => Moves(t, Below(t))
         /\ \A a \in Labels \ LookLabels, v \in Vnodes \union {None} :
               Turns(t, Call(Return(th[t]), a, v)) => Moves(t, Over(a, v, Below(t)))
         /\ Turns(t, th[t]) => Moves(t, th[t].stack)
  <1>1. InCall(t)
    BY InCallFacts
  <1>2. th[t] \in ThreadRecord /\ th[t].held = None
    BY <1>1 DEF InCall
  <1>3. ASSUME NEW r \in ThreadRecord, Alike(r, th[t]), Turns(t, r) PROVE Moves(t, r.stack)
    BY <1>2, <1>3 DEF Alike, Turns, Moves, Agree
  <1>4. ASSUME NEW at \in Labels
        PROVE  /\ Goto(th[t], at) \in ThreadRecord /\ Alike(Goto(th[t], at), th[t])
               /\ Goto(th[t], at).stack = Top1(t, at)
    BY <1>2, GotoIs DEF Top1, Top, Below
  <1>5. ASSUME NEW at \in Labels, NEW v \in Vnodes \union {None}, Turns(t, With(th[t], at, v))
        PROVE  Moves(t, Push(Fr(at, v, Top(t).flag), Below(t)))
    <2>1. /\ With(th[t], at, v) \in ThreadRecord /\ Alike(With(th[t], at, v), th[t])
          /\ With(th[t], at, v).stack = Push(Fr(at, v, Top(t).flag), Below(t))
      BY <1>2, WithIs DEF Top, Below
    <2>2. QED BY <1>3, <1>5, <2>1
  <1>6. ASSUME NEW at \in Labels, NEW a \in Labels, NEW v \in Vnodes \union {None},
               Turns(t, Call(Goto(th[t], at), a, v))
        PROVE  Moves(t, Over(a, v, Top1(t, at)))
    <2> DEFINE r == Goto(th[t], at)
    <2>1. r \in ThreadRecord /\ Alike(r, th[t]) /\ r.stack = Top1(t, at)
      BY <1>4
    <2> HIDE DEF r
    <2>2. /\ Call(r, a, v) \in ThreadRecord /\ Alike(Call(r, a, v), r)
          /\ Call(r, a, v).stack = Over(a, v, Top1(t, at))
      BY <2>1, CallIs DEF Over
    <2>3. Alike(Call(r, a, v), th[t])
      BY <2>1, <2>2 DEF Alike
    <2>4. Turns(t, Call(r, a, v))
      BY <1>6 DEF r
    <2>5. QED BY <1>3, <2>2, <2>3, <2>4
  <1> DEFINE q == Return(th[t])
  <1>7. /\ q \in ThreadRecord /\ q.held = th[t].held /\ q.stack = Below(t)
        /\ IF Below(t) = <<>> THEN q.i = None /\ q.why = "other" /\ q.cap = None
           ELSE Alike(q, th[t])
    BY <1>2, ReturnIs DEF Below
  <1> HIDE DEF q
  <1>8. Frames(<<>>) = {}
    BY <1>1, FramesInSet DEF InCall
  <1>9. ASSUME Turns(t, q) PROVE Moves(t, Below(t))
    <2>1. CASE Below(t) = <<>>
      BY <1>2, <1>7, <1>8, <1>9, <2>1 DEF Turns, Moves, Agree
    <2>2. CASE Below(t) # <<>>
      BY <1>3, <1>7, <1>9, <2>2
    <2>3. QED BY <2>1, <2>2
  <1>10. ASSUME NEW a \in Labels \ LookLabels, NEW v \in Vnodes \union {None}, Turns(t, Call(q, a, v))
         PROVE  Moves(t, Over(a, v, Below(t)))
    <2>1. /\ Call(q, a, v) \in ThreadRecord /\ Alike(Call(q, a, v), q)
          /\ Call(q, a, v).stack = Over(a, v, Below(t))
      <3>1. q \in ThreadRecord /\ q.stack = Below(t) /\ a \in Labels
        BY <1>7
      <3>2. /\ Call(q, a, v) \in ThreadRecord /\ Alike(Call(q, a, v), q)
            /\ Call(q, a, v).stack = Push(Fr(a, v, FALSE), q.stack)
        BY <3>1, CallIs
      <3>3. QED BY <3>1, <3>2 DEF Over
    <2>2. CASE Below(t) = <<>>
      <3>1. Frames(Over(a, v, Below(t))) = {Fr(a, v, FALSE)} \union Frames(Below(t))
        <4>1. Fr(a, v, FALSE) \in Frame /\ Below(t) \in Seq(Frame)
          BY <1>1, FrFacts DEF InCall
        <4>2. QED BY <4>1, PushFrame DEF Over
      <3>2. \A f \in Frames(Over(a, v, Below(t))) : f.at \notin LookLabels
        <4>1. Fr(a, v, FALSE).at = a
          BY DEF Fr
        <4>2. QED BY <1>8, <2>2, <3>1, <4>1
      <3>3. QED BY <1>2, <1>7, <1>10, <2>1, <2>2, <3>2 DEF Turns, Moves, Agree, Alike
    <2>3. CASE Below(t) # <<>>
      <3>1. Alike(Call(q, a, v), th[t])
        BY <1>7, <2>1, <2>3 DEF Alike
      <3>2. QED BY <1>3, <1>10, <2>1, <3>1
    <2>4. QED BY <2>2, <2>3
  <1>11. Turns(t, th[t]) => Moves(t, th[t].stack)
    BY <1>2, <1>3 DEF Alike
  <1>12. \A at \in Labels : Turns(t, Goto(th[t], at)) => Moves(t, Top1(t, at))
    BY <1>3, <1>4
  <1>13. ASSUME NEW at \in Labels, NEW w \in Vnodes, NEW a \in Labels, NEW v \in Vnodes,
               Turns(t, Call(With(th[t], at, w), a, v))
         PROVE  Moves(t, Over(a, v, Push(Fr(at, w, Top(t).flag), Below(t))))
    <2> DEFINE r == With(th[t], at, w)
    <2>1. /\ r \in ThreadRecord /\ Alike(r, th[t])
          /\ r.stack = Push(Fr(at, w, Top(t).flag), Below(t))
      BY <1>2, WithIs DEF Top, Below
    <2> HIDE DEF r
    <2>2. /\ Call(r, a, v) \in ThreadRecord /\ Alike(Call(r, a, v), r)
          /\ Call(r, a, v).stack = Over(a, v, r.stack)
      BY <2>1, CallIs DEF Over
    <2>3. Alike(Call(r, a, v), th[t])
      BY <2>1, <2>2 DEF Alike
    <2>4. Turns(t, Call(r, a, v))
      BY <1>13 DEF r
    <2>5. QED BY <1>3, <2>1, <2>2, <2>3, <2>4
  <1>14. QED BY <1>5, <1>6, <1>9, <1>10, <1>11, <1>12, <1>13 DEF q

\* The record that vgone() of v gives t, whose record would else be r.
LEMMA VgoneTurns ==
  ASSUME Typed, NEW t \in Threads, NEW r \in ThreadRecord, NEW v \in Vnodes,
         vn' = Vgone(vn, r, v, FALSE).vn, Does(t, Vgone(vn, r, v, FALSE).th)
  PROVE  \/ vn[v].xlock /\ Quiet /\ Turns(t, r)
         \/ /\ ~vn[v].xlock /\ LocksOnly(v)
            /\ \E a \in {"clean", "gone_end"} : /\ a = "gone_end" <=> vn[v].type = "bad"
                                                /\ Turns(t, Call(r, a, v))
  <1>1. vn \in [Vnodes -> VnodeRecord] /\ th \in [Threads -> ThreadRecord]
    BY DEF Typed
  <1>2. CASE vn[v].xlock
    <2>1. vn' = vn /\ Does(t, r)
      BY <1>2 DEF Vgone
    <2>2. QED BY <1>1, <1>2, <2>1, VnodeSteps, DoesTurns
  <1>3. CASE ~vn[v].xlock
    <2> DEFINE a == IF vn[v].type = "bad" THEN "gone_end" ELSE "clean"
    <2>1. vn' = [vn EXCEPT ![v].xlock = TRUE] /\ Does(t, Call(r, a, v))
      BY <1>3 DEF Vgone
    <2>2. a \in {"clean", "gone_end"} /\ (a = "gone_end" <=> vn[v].type = "bad")
      OBVIOUS
    <2> HIDE DEF a
    <2>3. Call(r, a, v) \in ThreadRecord
      BY <2>2, CallIs DEF Labels
    <2>4. QED BY <1>1, <1>3, <2>1, <2>2, <2>3, VnodeSteps, DoesTurns
  <1>4. QED BY <1>2, <1>3

Gone(t, v, s) ==
  \/ vn[v].xlock /\ Quiet /\ Moves(t, s)
  \/ /\ ~vn[v].xlock /\ LocksOnly(v)
     /\ \E a \in {"clean", "gone_end"} : /\ a = "gone_end" <=> vn[v].type = "bad"
                                         /\ Moves(t, Over(a, v, s))

\* vgetm()
Gets(v) == /\ CountsOnly(v, vn[v].count + 1)
           /\ free' = free \ {v}
           /\ panic' = IF vn[v].count = 0 /\ v \notin free THEN "null v_freeb" ELSE panic

LEMMA VgetmGets ==
  ASSUME Typed, NEW v \in Vnodes, Vgetm(v)
  PROVE  Gets(v)
  <1>1. vn \in [Vnodes -> VnodeRecord] /\ vn[v].count + 1 \in Int
    BY DEF Typed, VnodeRecord
  <1>2. vn' = [vn EXCEPT ![v].count = vn[v].count + 1]
    BY DEF Vgetm
  <1>3. QED BY <1>1, <1>2, VnodeSteps DEF Vgetm, Gets

\* A step of t that begins in a call
LEMMA AtFacts ==
  ASSUME Typed, NEW t \in Threads, NEW at, At(t, at)
  PROVE  /\ InCall(t) /\ Top(t).at = at /\ th[t].stack # <<>>
         /\ vn \in [Vnodes -> VnodeRecord] /\ th \in [Threads -> ThreadRecord]
         /\ th[t] \in ThreadRecord
         /\ \A v \in Vnodes : vn[v] \in VnodeRecord /\ vn[v].count \in Int
  <1>1. vn \in [Vnodes -> VnodeRecord] /\ th \in [Threads -> ThreadRecord]
    BY DEF Typed
  <1>2. InCall(t) /\ Top(t).at = at /\ th[t].stack # <<>>
    BY InCallFacts DEF At
  <1>3. \A v \in Vnodes : vn[v] \in VnodeRecord /\ vn[v].count \in Int
    BY <1>1 DEF VnodeRecord
  <1>4. QED BY <1>1, <1>2, <1>3

LEMMA DoesMoves ==
  ASSUME Typed, NEW t \in Threads, th[t].stack # <<>>
  PROVE  /\ \A at \in Labels : Does(t, Goto(th[t], at)) => Moves(t, Top1(t, at))
         /\ \A at \in Labels, v \in Vnodes \union {None} :
               Does(t, With(th[t], at, v)) => Moves(t, Push(Fr(at, v, Top(t).flag), Below(t)))
         /\ \A at \in Labels, a \in Labels, v \in Vnodes \union {None} :
               Does(t, Call(Goto(th[t], at), a, v)) => Moves(t, Over(a, v, Top1(t, at)))
         /\ Does(t, Return(th[t])) => Moves(t, Below(t))
         /\ \A at \in Labels, v \in Vnodes :
               Does(t, Sleep(Goto(th[t], at), <<"i_flag", v>>)) => Moves(t, Top1(t, at))
         /\ \A at \in Labels, v \in Vnodes :
               Want(t, Goto(th[t], at), v) => Quiet /\ Moves(t, Top1(t, at))
         /\ \A v \in Vnodes : Want(t, th[t], v) => Quiet /\ Moves(t, th[t].stack)
  <1>1. InCall(t) /\ th[t] \in ThreadRecord /\ th \in [Threads -> ThreadRecord]
        /\ vn \in [Vnodes -> VnodeRecord]
    BY InCallFacts DEF InCall, Typed
  <1>2. ASSUME NEW at \in Labels
        PROVE  /\ Goto(th[t], at) \in ThreadRecord
               /\ \A v \in Vnodes \union {None} : With(th[t], at, v) \in ThreadRecord
    BY <1>1, GotoIs, WithIs
  <1>3. ASSUME NEW at \in Labels, NEW a \in Labels, NEW v \in Vnodes \union {None}
        PROVE  Call(Goto(th[t], at), a, v) \in ThreadRecord
    BY <1>2, CallIs
  <1>4. Return(th[t]) \in ThreadRecord
    BY <1>1, ReturnIs
  <1>5. \A v \in Vnodes : <<"i_flag", v>> \in Channels /\ <<"v_flag", v>> \in Channels
    BY DEF Channels
  <1>6. \A r \in ThreadRecord :
          /\ Does(t, r) => Turns(t, r)
          /\ \A c \in Channels : Does(t, Sleep(r, c)) => Turns(t, r)
    BY <1>1, DoesTurns
  <1>7. ASSUME NEW r \in ThreadRecord, NEW v \in Vnodes, Want(t, r, v)
        PROVE  Quiet /\ Turns(t, r)
    BY <1>1, <1>5, <1>6, <1>7, VnodeSteps DEF Want
  <1>8. QED BY <1>1, <1>2, <1>3, <1>4, <1>5, <1>6, <1>7, TurnMoves

LEMMA VgoneMoves ==
  ASSUME Typed, NEW t \in Threads, th[t].stack # <<>>, NEW v \in Vnodes
  PROVE  /\ LET g == Vgone(vn, Return(th[t]), v, FALSE)
            IN  vn' = g.vn /\ Does(t, g.th) => Gone(t, v, Below(t))
         /\ \A at \in Labels :
              LET g == Vgone(vn, Goto(th[t], at), v, FALSE)
              IN  vn' = g.vn /\ Does(t, g.th) => Gone(t, v, Top1(t, at))
         /\ \A at \in Labels, w \in Vnodes :
              LET g == Vgone(vn, With(th[t], at, w), v, FALSE)
              IN  vn' = g.vn /\ Does(t, g.th) => Gone(t, v, Push(Fr(at, w, Top(t).flag), Below(t)))
  <1>1. InCall(t) /\ th[t] \in ThreadRecord
    BY InCallFacts DEF InCall
  <1>2. ASSUME NEW at \in Labels
        PROVE  /\ Goto(th[t], at) \in ThreadRecord
               /\ \A w \in Vnodes : With(th[t], at, w) \in ThreadRecord
    BY <1>1, GotoIs, WithIs
  <1>3. Return(th[t]) \in ThreadRecord
    BY <1>1, ReturnIs
  <1>4. {"clean", "gone_end"} \subseteq Labels \ LookLabels
    BY DEF Labels, LookLabels
  <1>5. ASSUME vn' = Vgone(vn, Return(th[t]), v, FALSE).vn,
               Does(t, Vgone(vn, Return(th[t]), v, FALSE).th)
        PROVE  Gone(t, v, Below(t))
    BY <1>3, <1>4, <1>5, VgoneTurns, TurnMoves DEF Gone
  <1>6. ASSUME NEW at \in Labels, vn' = Vgone(vn, Goto(th[t], at), v, FALSE).vn,
               Does(t, Vgone(vn, Goto(th[t], at), v, FALSE).th)
        PROVE  Gone(t, v, Top1(t, at))
    BY <1>2, <1>4, <1>6, VgoneTurns, TurnMoves DEF Gone
  <1>7. ASSUME NEW at \in Labels, NEW w \in Vnodes,
               vn' = Vgone(vn, With(th[t], at, w), v, FALSE).vn,
               Does(t, Vgone(vn, With(th[t], at, w), v, FALSE).th)
        PROVE  Gone(t, v, Push(Fr(at, w, Top(t).flag), Below(t)))
    BY <1>2, <1>4, <1>7, VgoneTurns, TurnMoves DEF Gone
  <1>8. QED BY <1>5, <1>6, <1>7

LEMMA GetsBody ==
  ASSUME vn \in [Vnodes -> VnodeRecord], NEW v \in Vnodes, NEW q \in VnodeRecord,
         vn' = [vn EXCEPT ![v] = q], q.count = vn[v].count, q.xlock = vn[v].xlock,
         q.inactivating = vn[v].inactivating
  PROVE  BodiesOnly /\ BodyIs(v, q.type, q.ops, q.ino, q.hashed, q.listed, q.read)
  BY DEF BodiesOnly, VnodesFit, SameCounts, SameLocks, SameInacts, BodyIs, SameBody

LEMMA ReleDoes ==
  ASSUME Typed, NEW t \in Threads, Rele(t)
  PROVE  LET v == Top(t).v
         IN  /\ InCall(t) /\ Top(t).at = "rele" /\ UNCHANGED <<free, file, name>>
             /\ \/ /\ vn[v].count > 1 /\ panic' = panic
                   /\ CountsOnly(v, vn[v].count - 1) /\ Moves(t, Below(t))
                \/ vn[v].count < 1 /\ panic' = "bad ref count" /\ UNCHANGED <<vn, th>>
                \/ /\ vn[v].count = 1 /\ vn[v].xlock /\ panic' = panic
                   /\ Quiet /\ Moves(t, Top1(t, "rele_slept"))
                \/ /\ vn[v].count = 1 /\ ~vn[v].xlock /\ panic' = panic
                   /\ Quiet /\ Moves(t, Top1(t, "inactive"))
  <1> DEFINE v == Top(t).v
  <1>1. InCall(t) /\ Top(t).at = "rele" /\ th[t].stack # <<>> /\ vn \in [Vnodes -> VnodeRecord]
        /\ \A w \in Vnodes : vn[w].count \in Int
    BY AtFacts DEF Rele
  <1>2. v \in Vnodes /\ {"rele_slept", "inactive"} \subseteq Labels
    BY <1>1 DEF InCall, NoVnode, Labels
  <1> HIDE DEF v
  <1>3. CASE vn[v].count > 1 /\ vn' = [vn EXCEPT ![v].count = @ - 1] /\ Does(t, Return(th[t]))
             /\ UNCHANGED panic
    <2>1. vn[v].count - 1 \in Int /\ vn' = [vn EXCEPT ![v].count = vn[v].count - 1]
      BY <1>1, <1>2, <1>3
    <2>2. QED BY <1>1, <1>2, <1>3, <2>1, VnodeSteps, DoesMoves DEF Rele, v
  <1>4. CASE vn[v].count < 1 /\ panic' = "bad ref count" /\ UNCHANGED <<vn, th>>
    BY <1>1, <1>4 DEF Rele, v
  <1>5. CASE vn[v].count = 1 /\ vn[v].xlock /\ Want(t, Goto(th[t], "rele_slept"), v) /\ UNCHANGED panic
    BY <1>1, <1>2, <1>5, DoesMoves DEF Rele, v
  <1>6. CASE vn[v].count = 1 /\ ~vn[v].xlock /\ Does(t, Goto(th[t], "inactive")) /\ UNCHANGED <<vn, panic>>
    BY <1>1, <1>2, <1>6, DoesMoves, VnodeSteps DEF Rele, v
  <1>7. QED BY <1>3, <1>4, <1>5, <1>6 DEF Rele, v

LEMMA InactiveDoes ==
  ASSUME Typed, NEW t \in Threads, Inactive(t)
  PROVE  LET v == Top(t).v
         IN  /\ InCall(t) /\ Top(t).at = "inactive" /\ UNCHANGED <<free, file, name, panic>> /\ Quiet
             /\ \/ vn[v].ops = "ufs" /\ Moves(t, Over("ufs_inactive", v, Top1(t, "drop")))
                \/ vn[v].ops # "ufs" /\ Moves(t, Top1(t, "drop"))
  <1> DEFINE v == Top(t).v
  <1>1. InCall(t) /\ Top(t).at = "inactive" /\ th[t].stack # <<>> /\ vn \in [Vnodes -> VnodeRecord]
    BY AtFacts DEF Inactive
  <1>2. v \in Vnodes /\ {"ufs_inactive", "drop"} \subseteq Labels
    BY <1>1 DEF InCall, NoVnode, Labels
  <1>3. Quiet /\ UNCHANGED <<free, file, name, panic>>
    BY <1>1, <1>2, VnodeSteps DEF Inactive
  <1> HIDE DEF v
  <1>4. CASE vn[v].ops = "ufs"
    <2>1. Does(t, Call(Goto(th[t], "drop"), "ufs_inactive", v))
      BY <1>4 DEF Inactive, v
    <2>2. Moves(t, Over("ufs_inactive", v, Top1(t, "drop")))
      BY <1>1, <1>2, <2>1, DoesMoves
    <2>3. QED BY <1>1, <1>3, <1>4, <2>2 DEF v
  <1>5. CASE vn[v].ops # "ufs"
    <2>1. Does(t, Goto(th[t], "drop"))
      BY <1>5 DEF Inactive, v
    <2>2. Moves(t, Top1(t, "drop"))
      BY <1>1, <1>2, <2>1, DoesMoves
    <2>3. QED BY <1>1, <1>3, <1>5, <2>2 DEF v
  <1>6. QED BY <1>4, <1>5

LEMMA DropDoes ==
  ASSUME Typed, NEW t \in Threads, Drop(t)
  PROVE  LET v == Top(t).v
         IN  /\ InCall(t) /\ Top(t).at \in {"drop", "rele_slept"} /\ UNCHANGED <<file, name, panic>>
             /\ Top(t).at = "rele_slept" => ~vn[v].xlock
             /\ CountsOnly(v, vn[v].count - 1) /\ Moves(t, Below(t))
             /\ free' = IF vn[v].count = 1 THEN free \union {v} ELSE free
  <1> DEFINE v == Top(t).v
  <1>1. /\ InCall(t) /\ th[t].stack # <<>> /\ Top(t).at \in {"drop", "rele_slept"}
        /\ vn \in [Vnodes -> VnodeRecord] /\ \A w \in Vnodes : vn[w].count \in Int
    BY AtFacts DEF Drop
  <1>2. Top(t).at = "rele_slept" => ~vn[v].xlock
    BY DEF Drop, At
  <1>3. v \in Vnodes
    BY <1>1 DEF InCall, NoVnode
  <1> HIDE DEF v
  <1>4. vn[v].count - 1 \in Int /\ vn' = [vn EXCEPT ![v].count = vn[v].count - 1]
    BY <1>1, <1>3 DEF Drop, v
  <1>5. CountsOnly(v, vn[v].count - 1)
    BY <1>1, <1>3, <1>4, VnodeSteps
  <1>6. Moves(t, Below(t))
    BY <1>1, DoesMoves DEF Drop
  <1>7. QED BY <1>1, <1>2, <1>5, <1>6 DEF Drop, v

LEMMA SleepAgainDoes ==
  ASSUME Typed, NEW t \in Threads, SleepAgain(t)
  PROVE  /\ InCall(t) /\ Top(t).at \in {"rele_slept", "vget_slept", "gone_slept"}
         /\ UNCHANGED <<free, file, name, panic>> /\ Quiet /\ Moves(t, th[t].stack)
  <1>1. InCall(t) /\ th[t].stack # <<>> /\ Top(t).at \in {"rele_slept", "vget_slept", "gone_slept"}
    BY AtFacts DEF SleepAgain
  <1>2. Top(t).v \in Vnodes
    BY <1>1 DEF InCall, NoVnode
  <1>3. QED BY <1>1, <1>2, DoesMoves DEF SleepAgain

LEMMA UfsInactiveDoes ==
  ASSUME Typed, NEW t \in Threads, UfsInactive(t)
  PROVE  LET v == Top(t).v
         IN  /\ InCall(t) /\ Top(t).at = "ufs_inactive" /\ UNCHANGED <<free, file, name, panic>>
             /\ \/ vn[v].read = "error" /\ Gone(t, v, Below(t))
                \/ vn[v].read # "error" /\ vn[v].inactivating /\ Quiet /\ Moves(t, Below(t))
                \/ /\ vn[v].read # "error" /\ ~vn[v].inactivating /\ InactOnly(v, TRUE)
                   /\ \E at \in {"stale", "trunc", "last"} :
                        /\ at = "stale" <=> ModeIsZero(vn[v].ino) \/ ~vn[v].listed
                        /\ at = "trunc" => file[vn[v].ino] = "unlinked"
                        /\ Moves(t, Top1(t, at))
  <1> DEFINE v == Top(t).v
  <1>1. InCall(t) /\ Top(t).at = "ufs_inactive" /\ th[t].stack # <<>> /\ vn \in [Vnodes -> VnodeRecord]
    BY AtFacts DEF UfsInactive
  <1>2. v \in Vnodes /\ {"stale", "trunc", "last"} \subseteq Labels
    BY <1>1 DEF InCall, NoVnode, Labels
  <1> HIDE DEF v
  <1>3. CASE vn[v].read = "error" /\ vn' = Vgone(vn, Return(th[t]), v, FALSE).vn
             /\ Does(t, Vgone(vn, Return(th[t]), v, FALSE).th)
    BY <1>1, <1>2, <1>3, VgoneMoves DEF UfsInactive, v
  <1>4. CASE vn[v].read # "error" /\ vn[v].inactivating /\ Does(t, Return(th[t])) /\ UNCHANGED vn
    BY <1>1, <1>2, <1>4, DoesMoves, VnodeSteps DEF UfsInactive, v
  <1>5. CASE /\ vn[v].read # "error" /\ ~vn[v].inactivating
             /\ vn' = [vn EXCEPT ![v].inactivating = TRUE]
             /\ Does(t, Goto(th[t], IF ModeIsZero(vn[v].ino) \/ ~vn[v].listed THEN "stale"
                                    ELSE IF file[vn[v].ino] = "unlinked" THEN "trunc" ELSE "last"))
    <2> DEFINE at == IF ModeIsZero(vn[v].ino) \/ ~vn[v].listed THEN "stale"
                     ELSE IF file[vn[v].ino] = "unlinked" THEN "trunc" ELSE "last"
    <2>1. /\ at \in {"stale", "trunc", "last"}
          /\ at = "stale" <=> ModeIsZero(vn[v].ino) \/ ~vn[v].listed
          /\ at = "trunc" => file[vn[v].ino] = "unlinked"
      OBVIOUS
    <2>2. Does(t, Goto(th[t], at))
      BY <1>5
    <2> HIDE DEF at
    <2>3. Moves(t, Top1(t, at))
      BY <1>1, <1>2, <2>1, <2>2, DoesMoves
    <2>4. InactOnly(v, TRUE)
      BY <1>1, <1>2, <1>5, VnodeSteps
    <2>5. QED BY <1>1, <1>5, <2>1, <2>3, <2>4 DEF UfsInactive, v
  <1>6. QED BY <1>3, <1>4, <1>5 DEF UfsInactive, v

LEMMA StaleDoes ==
  ASSUME Typed, NEW t \in Threads, Stale(t)
  PROVE  /\ InCall(t) /\ Top(t).at = "stale" /\ UNCHANGED <<free, file, name, panic>>
         /\ Gone(t, Top(t).v, Top1(t, "end"))
  <1>1. InCall(t) /\ Top(t).at = "stale" /\ th[t].stack # <<>>
    BY AtFacts DEF Stale
  <1>2. Top(t).v \in Vnodes /\ "end" \in Labels
    BY <1>1 DEF InCall, NoVnode, Labels
  <1>3. QED BY <1>1, <1>2, VgoneMoves DEF Stale

LEMMA TruncDoes ==
  ASSUME Typed, NEW t \in Threads, Trunc(t)
  PROVE  /\ InCall(t) /\ Top(t).at = "trunc" /\ UNCHANGED <<free, name, panic>>
         /\ file' = [file EXCEPT ![vn[Top(t).v].ino] = "reserved"]
         /\ Quiet /\ Moves(t, Top1(t, "ifree"))
  <1>1. InCall(t) /\ Top(t).at = "trunc" /\ th[t].stack # <<>> /\ vn \in [Vnodes -> VnodeRecord]
    BY AtFacts DEF Trunc
  <1>2. Top(t).v \in Vnodes /\ "ifree" \in Labels
    BY <1>1 DEF InCall, NoVnode, Labels
  <1>3. QED BY <1>1, <1>2, DoesMoves, VnodeSteps DEF Trunc

LEMMA FlagMoves ==
  ASSUME Typed, NEW t \in Threads, th[t].stack # <<>>, NEW at \in Labels, NEW b \in BOOLEAN,
         Does(t, [Goto(th[t], at) EXCEPT !.stack[1].flag = b])
  PROVE  Moves(t, Push(Fr(at, Top(t).v, b), Below(t)))
  <1> DEFINE r == Goto(th[t], at)
             f == Fr(at, Top(t).v, Top(t).flag)
             q == [r EXCEPT !.stack[1].flag = b]
  <1>1. InCall(t) /\ th[t] \in ThreadRecord /\ th \in [Threads -> ThreadRecord] /\ th[t].held = None
    BY InCallFacts DEF InCall, Typed
  <1>2. r \in ThreadRecord /\ Alike(r, th[t]) /\ r.stack = Push(f, Below(t))
    BY <1>1, GotoIs DEF Top, Below
  <1>3. f \in Frame /\ f.at = at /\ f.v = Top(t).v /\ Below(t) \in Seq(Frame)
    <2>1. f \in Frame /\ Below(t) \in Seq(Frame)
      BY <1>1, FrFacts DEF InCall
    <2>2. f.at = at /\ f.v = Top(t).v
      BY DEF Fr
    <2>3. QED BY <2>1, <2>2
  <1>4. Does(t, q)
    OBVIOUS
  <1> HIDE DEF r, f
  <1>5. r.stack # <<>> /\ Tail(r.stack) = Below(t) /\ r.stack[1] = f
    BY <1>2, <1>3, PushFrame
  <1>6. /\ q \in ThreadRecord /\ Alike(q, r)
        /\ q.stack = Push(Fr(r.stack[1].at, r.stack[1].v, b), Tail(r.stack))
    BY <1>2, <1>5, FlaggedIs
  <1> HIDE DEF q
  <1>7. Turns(t, q)
    BY <1>1, <1>4, <1>6, DoesTurns
  <1>8. QED BY <1>1, <1>2, <1>3, <1>5, <1>6, <1>7 DEF Alike, Turns, Moves, Agree

LEMMA IfreeDoes ==
  ASSUME Typed, NEW t \in Threads, Ifree(t)
  PROVE  LET v == Top(t).v
         IN  /\ InCall(t) /\ Top(t).at = "ifree" /\ UNCHANGED <<free, name>>
             /\ file' = [file EXCEPT ![vn[v].ino] = "free"]
             /\ panic' = IF file[vn[v].ino] = "free" THEN "freeing free inode" ELSE panic
             /\ Quiet /\ Moves(t, Push(Fr("last", v, TRUE), Below(t)))
  <1>1. InCall(t) /\ Top(t).at = "ifree" /\ th[t].stack # <<>> /\ vn \in [Vnodes -> VnodeRecord]
    BY AtFacts DEF Ifree
  <1>2. Top(t).v \in Vnodes /\ "last" \in Labels
    BY <1>1 DEF InCall, NoVnode, Labels
  <1>3. Moves(t, Push(Fr("last", Top(t).v, TRUE), Below(t)))
    BY <1>1, <1>2, FlagMoves DEF Ifree
  <1>4. QED BY <1>1, <1>2, <1>3, VnodeSteps DEF Ifree

LEMMA LastDoes ==
  ASSUME Typed, NEW t \in Threads, Last(t)
  PROVE  LET v == Top(t).v
         IN  /\ InCall(t) /\ Top(t).at = "last" /\ UNCHANGED <<free, file, name, panic>>
             /\ VnodesFit /\ InactIs(v, FALSE) /\ SameCounts /\ SameBodies
             /\ \/ SameLocks /\ Moves(t, Below(t))
                \/ /\ vn[v].count = 1 /\ Top(t).flag /\ ~vn[v].xlock /\ LockIs(v, TRUE)
                   /\ \E a \in {"clean", "gone_end"} : /\ a = "gone_end" <=> vn[v].type = "bad"
                                                       /\ Moves(t, Over(a, v, Below(t)))
  <1> DEFINE v == Top(t).v
             w == InactivationEnds(v)
             r == Return(th[t])
             a == IF w[v].type = "bad" THEN "gone_end" ELSE "clean"
             gone == vn[v].count = 1 /\ Top(t).flag /\ ~w[v].xlock
             q == IF gone THEN Call(r, a, v) ELSE r
  <1>1. InCall(t) /\ Top(t).at = "last" /\ th[t].stack # <<>> /\ vn \in [Vnodes -> VnodeRecord]
        /\ th[t] \in ThreadRecord /\ th \in [Threads -> ThreadRecord]
    BY AtFacts DEF Last
  <1>2. v \in Vnodes /\ {"clean", "gone_end"} \subseteq Labels \ LookLabels
    BY <1>1 DEF InCall, NoVnode, Labels, LookLabels
  <1>3. a \in {"clean", "gone_end"} /\ (a = "gone_end" <=> w[v].type = "bad")
    OBVIOUS
  <1>4. vn' = (IF gone THEN [w EXCEPT ![v].xlock = TRUE] ELSE w)
        /\ th' = WakeInactive([th EXCEPT ![t] = q], v)
    BY DEF Last, Vgone
  <1>5. UNCHANGED <<free, file, name, panic>>
    BY DEF Last
  <1>6. w \in [Vnodes -> VnodeRecord] /\ Ended(v, w)
    BY <1>1, <1>2, EndSteps
  <1> HIDE DEF v, w, a
  <1>7. r \in ThreadRecord
    BY <1>1, ReturnIs
  <1> HIDE DEF r
  <1>8. Call(r, a, v) \in ThreadRecord
    BY <1>2, <1>3, <1>7, CallIs
  <1>9. q \in ThreadRecord
    BY <1>7, <1>8
  <1>10. Turns(t, q)
    <2> HIDE DEF q
    <2>1. CASE vn[v].inactwait
      BY <1>1, <1>4, <1>9, <2>1, DoesTurns DEF WakeInactive
    <2>2. CASE ~vn[v].inactwait
      BY <1>1, <1>4, <1>9, <2>2, DoesTurns DEF WakeInactive, Does
    <2>3. QED BY <2>1, <2>2
  <1>11. CASE gone
    <2>1. Moves(t, Over(a, v, Below(t)))
      BY <1>1, <1>2, <1>3, <1>10, <1>11, TurnMoves DEF r
    <2>2. [w[v] EXCEPT !.xlock = TRUE] \in VnodeRecord
          /\ [w[v] EXCEPT !.xlock = TRUE].count = w[v].count
          /\ [w[v] EXCEPT !.xlock = TRUE].xlock = TRUE
          /\ [w[v] EXCEPT !.xlock = TRUE].inactivating = w[v].inactivating
          /\ SameBody([w[v] EXCEPT !.xlock = TRUE], w[v])
      BY <1>2, <1>6, FieldSteps
    <2>3. vn' = [w EXCEPT ![v] = [w[v] EXCEPT !.xlock = TRUE]]
      BY <1>4, <1>11
    <2>4. /\ VnodesFit
          /\ vn'[v].count = w[v].count /\ vn'[v].xlock = TRUE /\ vn'[v].inactivating = w[v].inactivating
          /\ SameBody(vn'[v], w[v]) /\ \A x \in Vnodes \ {v} : vn'[x] = w[x]
      BY <1>2, <1>6, <2>2, <2>3 DEF VnodesFit
    <2>5. VnodesFit /\ InactIs(v, FALSE) /\ SameCounts /\ SameBodies /\ LockIs(v, TRUE)
      BY <1>2, <1>6, <2>4 DEF Ended, InactIs, SameCounts, SameBodies, LockIs, SameBody
    <2>6. w[v].xlock = vn[v].xlock /\ w[v].type = vn[v].type
      BY <1>2, <1>6 DEF Ended, SameBody
    <2>7. QED BY <1>1, <1>3, <1>5, <1>11, <2>1, <2>5, <2>6 DEF v
  <1>12. CASE ~gone
    <2>1. Moves(t, Below(t))
      BY <1>1, <1>10, <1>12, TurnMoves DEF r
    <2>2. VnodesFit /\ InactIs(v, FALSE) /\ SameCounts /\ SameBodies /\ SameLocks
      BY <1>2, <1>4, <1>6, <1>12 DEF Ended, InactIs, SameCounts, SameBodies, SameLocks, SameBody, VnodesFit
    <2>3. QED BY <1>1, <1>5, <2>1, <2>2 DEF v
  <1>13. QED BY <1>11, <1>12

LEMMA EndDoes ==
  ASSUME Typed, NEW t \in Threads, End(t)
  PROVE  /\ InCall(t) /\ Top(t).at = "end" /\ UNCHANGED <<free, file, name, panic>>
         /\ InactOnly(Top(t).v, FALSE) /\ Moves(t, Below(t))
  <1> DEFINE v == Top(t).v
             q == Return(th[t])
  <1>1. InCall(t) /\ Top(t).at = "end" /\ th[t].stack # <<>> /\ vn \in [Vnodes -> VnodeRecord]
        /\ th[t] \in ThreadRecord /\ th \in [Threads -> ThreadRecord]
    BY AtFacts DEF End
  <1>2. v \in Vnodes
    BY <1>1 DEF InCall, NoVnode
  <1>3. q \in ThreadRecord
    BY <1>1, ReturnIs
  <1>4. th' = WakeInactive([th EXCEPT ![t] = q], v)
    BY DEF End
  <1>5. Turns(t, q)
    <2> HIDE DEF q, v
    <2>1. CASE vn[v].inactwait
      BY <1>1, <1>3, <1>4, <2>1, DoesTurns DEF WakeInactive
    <2>2. CASE ~vn[v].inactwait
      BY <1>1, <1>3, <1>4, <2>2, DoesTurns DEF WakeInactive, Does
    <2>3. QED BY <2>1, <2>2
  <1>6. QED BY <1>1, <1>2, <1>5, TurnMoves, VnodeSteps DEF End

\* vclean() takes a reference of its own of a vnode in use.
TakesRef(t, v, n, b) ==
  /\ b => vn[v].count > 0 /\ n = vn[v].count + 1
  /\ ~b => ~(vn[v].count > 0) /\ n = vn[v].count
  /\ CountsOnly(v, n) /\ Moves(t, Push(Fr("dead", v, b), Below(t)))

LEMMA CleanDoes ==
  ASSUME Typed, NEW t \in Threads, Clean(t)
  PROVE  LET v == Top(t).v
         IN  /\ InCall(t) /\ Top(t).at = "clean" /\ UNCHANGED <<free, file, name, panic>>
             /\ \E n \in Int, b \in BOOLEAN : TakesRef(t, v, n, b)
  <1> DEFINE v == Top(t).v
             n == IF vn[v].count > 0 THEN vn[v].count + 1 ELSE vn[v].count
             active == vn[v].count > 0
  <1>1. InCall(t) /\ Top(t).at = "clean" /\ th[t].stack # <<>> /\ vn \in [Vnodes -> VnodeRecord]
        /\ \A w \in Vnodes : vn[w].count \in Int
    BY AtFacts DEF Clean
  <1>2. v \in Vnodes /\ "dead" \in Labels /\ n \in Int /\ active \in BOOLEAN
    BY <1>1 DEF InCall, NoVnode, Labels
  <1>3. vn' = [vn EXCEPT ![v].count = n]
    BY DEF Clean
  <1>4. Does(t, [Goto(th[t], "dead") EXCEPT !.stack[1].flag = active])
    BY DEF Clean
  <1>5. /\ active => vn[v].count > 0 /\ n = vn[v].count + 1
        /\ ~active => ~(vn[v].count > 0) /\ n = vn[v].count
    OBVIOUS
  <1> HIDE DEF v, n, active
  <1>6. CountsOnly(v, n)
    BY <1>1, <1>2, <1>3, VnodeSteps
  <1>7. Moves(t, Push(Fr("dead", v, active), Below(t)))
    BY <1>1, <1>2, <1>4, FlagMoves DEF v
  <1>8. UNCHANGED <<free, file, name, panic>>
    BY DEF Clean
  <1>9. TakesRef(t, v, n, active)
    BY <1>5, <1>6, <1>7 DEF TakesRef
  <1>10. QED BY <1>1, <1>2, <1>8, <1>9 DEF v

LEMMA DeadDoes ==
  ASSUME Typed, NEW t \in Threads, Dead(t)
  PROVE  LET v == Top(t).v
             p == vn[v]
         IN  /\ InCall(t) /\ Top(t).at = "dead" /\ UNCHANGED <<free, file, name, panic>>
             /\ BodiesOnly /\ BodyIs(v, p.type, "dead", p.ino, p.hashed, p.listed, p.read)
             /\ \/ Top(t).flag /\ Moves(t, Over("ufs_inactive", v, Top1(t, "reclaim")))
                \/ ~Top(t).flag /\ Moves(t, Top1(t, "reclaim"))
  <1> DEFINE v == Top(t).v
  <1>1. InCall(t) /\ Top(t).at = "dead" /\ th[t].stack # <<>> /\ vn \in [Vnodes -> VnodeRecord]
    BY AtFacts DEF Dead
  <1>2. v \in Vnodes /\ {"reclaim", "ufs_inactive"} \subseteq Labels
    BY <1>1 DEF InCall, NoVnode, Labels
  <1> HIDE DEF v
  <1>3. vn' = [vn EXCEPT ![v].ops = "dead"]
    BY DEF Dead, v
  <1>4. BodiesOnly /\ BodyIs(v, vn[v].type, "dead", vn[v].ino, vn[v].hashed, vn[v].listed, vn[v].read)
    <2> DEFINE q == [vn[v] EXCEPT !.ops = "dead"]
    <2>1. q \in VnodeRecord /\ q.count = vn[v].count /\ q.xlock = vn[v].xlock
          /\ q.inactivating = vn[v].inactivating /\ q.type = vn[v].type /\ q.ops = "dead"
          /\ q.ino = vn[v].ino /\ q.hashed = vn[v].hashed /\ q.listed = vn[v].listed /\ q.read = vn[v].read
      <3>1. vn[v] \in VnodeRecord
        BY <1>1, <1>2
      <3>2. QED BY <3>1 DEF VnodeRecord
    <2>2. vn' = [vn EXCEPT ![v] = q]
      BY <1>3
    <2> HIDE DEF q
    <2>3. QED BY <1>1, <1>2, <2>1, <2>2, GetsBody
  <1>5. CASE Top(t).flag
    <2>1. Moves(t, Over("ufs_inactive", v, Top1(t, "reclaim")))
      BY <1>1, <1>2, <1>5, DoesMoves DEF Dead, v
    <2>2. QED BY <1>1, <1>4, <1>5, <2>1 DEF Dead, v
  <1>6. CASE ~Top(t).flag
    <2>1. Moves(t, Top1(t, "reclaim"))
      BY <1>1, <1>2, <1>6, DoesMoves DEF Dead, v
    <2>2. QED BY <1>1, <1>4, <1>6, <2>1 DEF Dead, v
  <1>7. QED BY <1>5, <1>6

LEMMA ReclaimDoes ==
  ASSUME Typed, NEW t \in Threads, Reclaim(t)
  PROVE  LET v == Top(t).v
             p == vn[v]
         IN  /\ InCall(t) /\ Top(t).at = "reclaim" /\ UNCHANGED <<free, file, name, panic>>
             /\ BodiesOnly /\ BodyIs(v, p.type, p.ops, p.ino, FALSE, p.listed, p.read)
             /\ Moves(t, Top1(t, "purge"))
  <1> DEFINE v == Top(t).v
             q == [vn[v] EXCEPT !.hashed = FALSE]
  <1>1. InCall(t) /\ Top(t).at = "reclaim" /\ th[t].stack # <<>> /\ vn \in [Vnodes -> VnodeRecord]
    BY AtFacts DEF Reclaim
  <1>2. v \in Vnodes /\ "purge" \in Labels
    BY <1>1 DEF InCall, NoVnode, Labels
  <1>3. vn' = [vn EXCEPT ![v] = q]
    BY DEF Reclaim
  <1> HIDE DEF v
  <1>4. q \in VnodeRecord /\ q.count = vn[v].count /\ q.xlock = vn[v].xlock
        /\ q.inactivating = vn[v].inactivating /\ q.type = vn[v].type /\ q.ops = vn[v].ops
        /\ q.ino = vn[v].ino /\ q.hashed = FALSE /\ q.listed = vn[v].listed /\ q.read = vn[v].read
    <2>1. vn[v] \in VnodeRecord
      BY <1>1, <1>2
    <2>2. QED BY <2>1 DEF VnodeRecord
  <1> HIDE DEF q
  <1>5. BodiesOnly /\ BodyIs(v, vn[v].type, vn[v].ops, vn[v].ino, FALSE, vn[v].listed, vn[v].read)
    BY <1>1, <1>2, <1>3, <1>4, GetsBody
  <1>6. Moves(t, Top1(t, "purge"))
    BY <1>1, <1>2, DoesMoves DEF Reclaim
  <1>7. QED BY <1>1, <1>5, <1>6 DEF Reclaim, v

LEMMA PurgeDoes ==
  ASSUME Typed, NEW t \in Threads, Purge(t)
  PROVE  LET v == Top(t).v
         IN  /\ InCall(t) /\ Top(t).at = "purge" /\ UNCHANGED <<free, file, panic>> /\ Quiet
             /\ CachePurge(v) /\ \A u \in Threads : th'[u].cap # v
             /\ \/ Top(t).flag /\ Moves(t, Over("rele", v, Top1(t, "gone_end")))
                \/ ~Top(t).flag /\ Moves(t, Top1(t, "gone_end"))
  <1> DEFINE v == Top(t).v
             r == Goto(th[t], "gone_end")
             q == IF Top(t).flag THEN Call(r, "rele", v) ELSE r
  <1>1. InCall(t) /\ Top(t).at = "purge" /\ th[t].stack # <<>> /\ vn \in [Vnodes -> VnodeRecord]
        /\ th[t] \in ThreadRecord /\ th \in [Threads -> ThreadRecord]
    BY AtFacts DEF Purge
  <1>2. v \in Vnodes /\ {"gone_end", "rele"} \subseteq Labels
    BY <1>1 DEF InCall, NoVnode, Labels
  <1>3. th' = Forgotten([th EXCEPT ![t] = q], v)
    BY DEF Purge
  <1>4. r \in ThreadRecord
    BY <1>1, <1>2, GotoIs
  <1> HIDE DEF r, v
  <1>5. q \in ThreadRecord
    BY <1>2, <1>4, CallIs
  <1> HIDE DEF q
  <1>6. Turns(t, q)
    BY <1>1, <1>3, <1>5, DoesTurns
  <1>7. \A u \in Threads : th'[u].cap # v
    <2>1. [th EXCEPT ![t] = q] \in [Threads -> ThreadRecord]
      BY <1>1, <1>5
    <2> DEFINE s == [th EXCEPT ![t] = q]
    <2>2. ASSUME NEW u \in Threads PROVE th'[u].cap # v
      <3>1. s[u] \in ThreadRecord /\ th'[u] = IF s[u].cap = v THEN [s[u] EXCEPT !.cap = None] ELSE s[u]
        BY <1>3, <2>1 DEF Forgotten
      <3> HIDE DEF s
      <3>2. [s[u] EXCEPT !.cap = None].cap = None
        BY <3>1 DEF ThreadRecord
      <3>3. QED BY <1>2, <3>1, <3>2, NoneAssumption
    <2>3. QED BY <2>2
  <1>8. CASE Top(t).flag
    <2>1. Moves(t, Over("rele", v, Top1(t, "gone_end")))
      BY <1>1, <1>2, <1>6, <1>8, TurnMoves DEF q, r
    <2>2. QED BY <1>1, <1>2, <1>7, <1>8, <2>1, VnodeSteps DEF Purge, v
  <1>9. CASE ~Top(t).flag
    <2>1. Moves(t, Top1(t, "gone_end"))
      BY <1>1, <1>2, <1>6, <1>9, TurnMoves DEF q, r
    <2>2. QED BY <1>1, <1>2, <1>7, <1>9, <2>1, VnodeSteps DEF Purge, v
  <1>10. QED BY <1>8, <1>9

LEMMA GoneEndDoes ==
  ASSUME Typed, NEW t \in Threads, GoneEnd(t)
  PROVE  LET v == Top(t).v
             p == vn[v]
         IN  /\ InCall(t) /\ Top(t).at = "gone_end" /\ UNCHANGED <<free, file, name, panic>>
             /\ VnodesFit /\ SameCounts /\ SameInacts /\ LockIs(v, FALSE)
             /\ BodyIs(v, "bad", p.ops, p.ino, p.hashed, FALSE, p.read)
             /\ Moves(t, Below(t))
  <1> DEFINE v == Top(t).v
             q == [vn[v] EXCEPT !.listed = FALSE, !.type = "bad", !.xlock = FALSE, !.want = FALSE]
             r == Return(th[t])
  <1>1. InCall(t) /\ Top(t).at = "gone_end" /\ th[t].stack # <<>> /\ vn \in [Vnodes -> VnodeRecord]
        /\ th[t] \in ThreadRecord /\ th \in [Threads -> ThreadRecord]
    BY AtFacts DEF GoneEnd
  <1>2. v \in Vnodes
    BY <1>1 DEF InCall, NoVnode
  <1>3. vn' = [vn EXCEPT ![v] = q]
    BY <1>1 DEF GoneEnd
  <1>4. th' = IF vn[v].want THEN Wakeup([th EXCEPT ![t] = r], <<"v_flag", v>>) ELSE [th EXCEPT ![t] = r]
    BY DEF GoneEnd
  <1>5. r \in ThreadRecord
    BY <1>1, ReturnIs
  <1> HIDE DEF v, r
  <1>6. q \in VnodeRecord /\ q.count = vn[v].count /\ q.xlock = FALSE
        /\ q.inactivating = vn[v].inactivating /\ q.type = "bad" /\ q.ops = vn[v].ops
        /\ q.ino = vn[v].ino /\ q.hashed = vn[v].hashed /\ q.listed = FALSE /\ q.read = vn[v].read
    <2>1. vn[v] \in VnodeRecord
      BY <1>1, <1>2
    <2>2. QED BY <2>1 DEF VnodeRecord
  <1> HIDE DEF q
  <1>7. /\ VnodesFit /\ SameCounts /\ SameInacts /\ LockIs(v, FALSE)
        /\ BodyIs(v, "bad", vn[v].ops, vn[v].ino, vn[v].hashed, FALSE, vn[v].read)
    BY <1>1, <1>2, <1>3, <1>6 DEF VnodesFit, SameCounts, SameInacts, LockIs, BodyIs, SameBody
  <1>8. Turns(t, r)
    BY <1>1, <1>4, <1>5, DoesTurns DEF Does
  <1>9. Moves(t, Below(t))
    BY <1>1, <1>8, TurnMoves DEF r
  <1>10. QED BY <1>1, <1>7, <1>9 DEF GoneEnd, v

LEMMA GoneSleptDoes ==
  ASSUME Typed, NEW t \in Threads, GoneSlept(t)
  PROVE  /\ InCall(t) /\ Top(t).at = "gone_slept" /\ UNCHANGED <<free, file, name, panic>>
         /\ Quiet /\ Moves(t, Below(t))
  <1>1. InCall(t) /\ Top(t).at = "gone_slept" /\ th[t].stack # <<>> /\ vn \in [Vnodes -> VnodeRecord]
    BY AtFacts DEF GoneSlept
  <1>2. Top(t).v \in Vnodes
    BY <1>1 DEF InCall, NoVnode
  <1>3. QED BY <1>1, <1>2, DoesMoves, VnodeSteps DEF GoneSlept

\* The lookups
LEMMA CachedDoes ==
  ASSUME Typed, NEW t \in Threads, Cached(t)
  PROVE  LET v == Top(t).v
         IN  /\ InCall(t) /\ Top(t).at = "cached" /\ UNCHANGED <<file, name>>
             /\ \/ Quiet /\ UNCHANGED <<free, panic>> /\ Moves(t, Top1(t, "scan"))
                \/ ~vn[v].xlock /\ Gets(v) /\ Moves(t, Top1(t, "check"))
  <1> DEFINE v == Top(t).v
  <1>1. InCall(t) /\ Top(t).at = "cached" /\ th[t].stack # <<>> /\ vn \in [Vnodes -> VnodeRecord]
    BY AtFacts DEF Cached
  <1>2. v \in Vnodes /\ {"scan", "check"} \subseteq Labels
    BY <1>1 DEF InCall, NoVnode, Labels
  <1> HIDE DEF v
  <1>3. CASE vn[v].xlock
    BY <1>1, <1>2, <1>3, DoesMoves, VnodeSteps DEF Cached, v
  <1>4. CASE ~vn[v].xlock
    BY <1>1, <1>2, <1>4, DoesMoves, VgetmGets DEF Cached, v
  <1>5. QED BY <1>3, <1>4

LEMMA CheckDoes ==
  ASSUME Typed, NEW t \in Threads, Check(t)
  PROVE  LET v == Top(t).v
         IN  /\ InCall(t) /\ Top(t).at = "check" /\ UNCHANGED <<free, file, name, panic>> /\ Quiet
             /\ \/ th[t].cap = v /\ Moves(t, Push(Fr("got", v, TRUE), Below(t)))
                \/ Moves(t, Over("rele", v, Top1(t, "scan")))
  <1> DEFINE v == Top(t).v
  <1>1. InCall(t) /\ Top(t).at = "check" /\ th[t].stack # <<>> /\ vn \in [Vnodes -> VnodeRecord]
    BY AtFacts DEF Check
  <1>2. v \in Vnodes /\ {"scan", "got", "rele"} \subseteq Labels
    BY <1>1 DEF InCall, NoVnode, Labels
  <1>3. Quiet /\ UNCHANGED <<free, file, name, panic>>
    BY <1>1, <1>2, VnodeSteps DEF Check
  <1>4. CASE th[t].cap = v
    <2>1. Moves(t, Push(Fr("got", v, TRUE), Below(t)))
      BY <1>1, <1>2, <1>4, FlagMoves DEF Check
    <2>2. QED BY <1>1, <1>3, <1>4, <2>1
  <1>5. CASE th[t].cap # v
    <2>1. Moves(t, Over("rele", v, Top1(t, "scan")))
      BY <1>1, <1>2, <1>5, DoesMoves DEF Check
    <2>2. QED BY <1>1, <1>3, <2>1
  <1>6. QED BY <1>4, <1>5

LEMMA ScanDoes ==
  ASSUME Typed, NEW t \in Threads, Scan(t)
  PROVE  /\ InCall(t) /\ Top(t).at = "scan" /\ UNCHANGED <<free, file, name, panic>> /\ Quiet
         /\ Moves(t, Top1(t, "get")) \/ Moves(t, Below(t))
  <1>1. InCall(t) /\ Top(t).at = "scan" /\ th[t].stack # <<>>
    BY AtFacts DEF Scan
  <1>2. "get" \in Labels
    BY DEF Labels
  <1>3. Quiet
    BY DEF Scan, Quiet, VnodesFit, SameCounts, SameLocks, SameInacts, SameBodies, SameBody, Typed
  <1>4. CASE file[th[t].i] = "linked"
    BY <1>1, <1>2, <1>3, <1>4, DoesMoves DEF Scan
  <1>5. CASE file[th[t].i] # "linked"
    BY <1>1, <1>2, <1>3, <1>5, DoesMoves DEF Scan
  <1>6. QED BY <1>4, <1>5

LEMMA GetDoes ==
  ASSUME Typed, NEW t \in Threads, Get(t)
  PROVE  /\ InCall(t) /\ Top(t).at = "get" /\ UNCHANGED <<file, name>>
         /\ \/ /\ Quiet /\ UNCHANGED <<free, panic>>
               /\ \E v \in Vnodes : Moves(t, Push(Fr("vget", v, Top(t).flag), Below(t)))
            \/ \E v \in InHash(th[t].i) : /\ ~vn[v].xlock /\ Gets(v)
                                          /\ Moves(t, Push(Fr("got", v, Top(t).flag), Below(t)))
            \/ Quiet /\ UNCHANGED <<free, panic>> /\ Moves(t, Top1(t, "new"))
  <1>1. InCall(t) /\ Top(t).at = "get" /\ th[t].stack # <<>>
    BY AtFacts DEF Get
  <1>2. {"vget", "got", "new"} \subseteq Labels
    BY DEF Labels
  <1>3. vn' = vn => Quiet
    BY DEF Quiet, VnodesFit, SameCounts, SameLocks, SameInacts, SameBodies, SameBody, Typed
  <1>4. ASSUME NEW v \in InHash(th[t].i), vn[v].xlock, Does(t, With(th[t], "vget", v)),
               UNCHANGED <<vn, free, panic>>
        PROVE  /\ Quiet /\ v \in Vnodes
               /\ Moves(t, Push(Fr("vget", v, Top(t).flag), Below(t)))
    BY <1>1, <1>2, <1>3, <1>4, DoesMoves DEF InHash
  <1>5. ASSUME NEW v \in InHash(th[t].i), ~vn[v].xlock, Does(t, With(th[t], "got", v)), Vgetm(v)
        PROVE  Gets(v) /\ Moves(t, Push(Fr("got", v, Top(t).flag), Below(t)))
    BY <1>1, <1>2, <1>5, DoesMoves, VgetmGets DEF InHash
  <1>6. ASSUME Does(t, Goto(th[t], "new")), UNCHANGED <<vn, free, panic>>
        PROVE  Quiet /\ Moves(t, Top1(t, "new"))
    BY <1>1, <1>2, <1>3, <1>6, DoesMoves
  <1>7. QED BY <1>1, <1>4, <1>5, <1>6 DEF Get

LEMMA VgetDoes ==
  ASSUME Typed, NEW t \in Threads, Vget(t)
  PROVE  LET v == Top(t).v
         IN  /\ InCall(t) /\ Top(t).at = "vget" /\ UNCHANGED <<file, name>>
             /\ \/ Quiet /\ UNCHANGED <<free, panic>> /\ Moves(t, Top1(t, "vget_slept"))
                \/ ~vn[v].xlock /\ Gets(v) /\ Moves(t, Over("rele", v, Top1(t, "get")))
  <1> DEFINE v == Top(t).v
  <1>1. InCall(t) /\ Top(t).at = "vget" /\ th[t].stack # <<>>
    BY AtFacts DEF Vget
  <1>2. v \in Vnodes /\ {"vget_slept", "rele", "get"} \subseteq Labels
    BY <1>1 DEF InCall, NoVnode, Labels
  <1> HIDE DEF v
  <1>3. CASE vn[v].xlock
    BY <1>1, <1>2, <1>3, DoesMoves DEF Vget, v
  <1>4. CASE ~vn[v].xlock
    BY <1>1, <1>2, <1>4, DoesMoves, VgetmGets DEF Vget, v
  <1>5. QED BY <1>3, <1>4

LEMMA VgetSleptDoes ==
  ASSUME Typed, NEW t \in Threads, VgetSlept(t)
  PROVE  /\ InCall(t) /\ Top(t).at = "vget_slept" /\ UNCHANGED <<free, file, name, panic>>
         /\ Quiet /\ Moves(t, Top1(t, "get"))
  <1>1. InCall(t) /\ Top(t).at = "vget_slept" /\ th[t].stack # <<>> /\ vn \in [Vnodes -> VnodeRecord]
    BY AtFacts DEF VgetSlept
  <1>2. Top(t).v \in Vnodes /\ "get" \in Labels
    BY <1>1 DEF InCall, NoVnode, Labels
  <1>3. QED BY <1>1, <1>2, DoesMoves, VnodeSteps DEF VgetSlept

LEMMA GotDoes ==
  ASSUME Typed, NEW t \in Threads, Got(t)
  PROVE  LET v == Top(t).v
         IN  /\ InCall(t) /\ Top(t).at = "got" /\ UNCHANGED <<free, file, name, panic>> /\ Quiet
             /\ \/ vn[v].inactivating /\ Moves(t, Top1(t, "got_slept"))
                \/ ~vn[v].inactivating /\ Moves(t, Top1(t, "event"))
  <1> DEFINE v == Top(t).v
  <1>1. InCall(t) /\ Top(t).at = "got" /\ th[t].stack # <<>> /\ vn \in [Vnodes -> VnodeRecord]
    BY AtFacts DEF Got
  <1>2. v \in Vnodes /\ {"got_slept", "event"} \subseteq Labels
    BY <1>1 DEF InCall, NoVnode, Labels
  <1> HIDE DEF v
  <1>3. CASE vn[v].inactivating
    <2>1. Moves(t, Top1(t, "got_slept"))
      BY <1>1, <1>2, <1>3, DoesMoves DEF Got, v
    <2>2. Quiet
      BY <1>1, <1>2, <1>3, VnodeSteps DEF Got, v
    <2>3. QED BY <1>1, <1>3, <2>1, <2>2 DEF Got, v
  <1>4. CASE ~vn[v].inactivating
    BY <1>1, <1>2, <1>4, DoesMoves, VnodeSteps DEF Got, v
  <1>5. QED BY <1>3, <1>4

\* the name cache is looked at again, and a capability may be noted.
LEMMA GotSleptDoes ==
  ASSUME Typed, NEW t \in Threads, GotSlept(t)
  PROVE  LET v == Top(t).v
         IN  /\ InCall(t) /\ Top(t).at = "got_slept" /\ UNCHANGED <<free, file, name, panic>> /\ Quiet
             /\ th' \in [Threads -> ThreadRecord]
             /\ \A u \in Threads \ {t} : Agree(th'[u], th[u])
             /\ th'[t].held = None /\ th'[t].i = th[t].i /\ th'[t].why = th[t].why
             /\ \/ /\ th'[t].cap = th[t].cap
                   /\ \E at \in {"get", "scan"}, w \in Vnodes \union {None} :
                         th'[t].stack = Over("rele", v, Push(Fr(at, w, FALSE), Below(t)))
                \/ \E w \in Vnodes : /\ w = name[th[t].i] /\ th'[t].cap = w
                                     /\ th'[t].stack = Over("rele", v, Push(Fr("cached", w, FALSE), Below(t)))
  <1> DEFINE v == Top(t).v
             r == [th[t] EXCEPT !.stack[1].flag = FALSE]
             f == Fr("got_slept", v, FALSE)
  <1>1. InCall(t) /\ Top(t).at = "got_slept" /\ th[t].stack # <<>> /\ vn \in [Vnodes -> VnodeRecord]
        /\ th[t] \in ThreadRecord /\ th \in [Threads -> ThreadRecord] /\ th[t].held = None
    BY AtFacts DEF GotSlept, InCall
  <1>2. v \in Vnodes /\ {"get", "scan", "cached", "rele"} \subseteq Labels
    BY <1>1 DEF InCall, NoVnode, Labels
  <1>3. Quiet /\ UNCHANGED <<free, file, name, panic>>
    BY <1>1, <1>2, VnodeSteps DEF GotSlept
  <1>4. r \in ThreadRecord /\ Alike(r, th[t]) /\ r.stack = Push(f, Below(t))
    BY <1>1, FlaggedIs DEF Top, Below
  <1>5. Does(t, Call(IF Top(t).flag THEN Look(r) ELSE Goto(r, "get"), "rele", v))
    BY DEF GotSlept
  <1>6. f \in Frame /\ f.v = v /\ f.flag = FALSE /\ Below(t) \in Seq(Frame)
    <2>1. f \in Frame /\ Below(t) \in Seq(Frame)
      BY <1>1, <1>2, FrFacts DEF InCall, Labels
    <2>2. f.v = v /\ f.flag = FALSE
      BY DEF Fr
    <2>3. QED BY <2>1, <2>2
  <1> HIDE DEF r, f, v
  <1>7. r.stack # <<>> /\ Tail(r.stack) = Below(t) /\ r.stack[1] = f
    BY <1>4, <1>6, PushFrame
  <1>8. ASSUME NEW q \in ThreadRecord, Does(t, Call(q, "rele", v))
        PROVE  /\ Turns(t, Call(q, "rele", v)) /\ th'[t] = Call(q, "rele", v)
               /\ Alike(th'[t], q) /\ th'[t].stack = Over("rele", v, q.stack)
    <2>1. Call(q, "rele", v) \in ThreadRecord /\ Alike(Call(q, "rele", v), q)
          /\ Call(q, "rele", v).stack = Over("rele", v, q.stack)
      BY <1>2, CallIs DEF Over
    <2>2. QED BY <1>1, <1>8, <2>1, DoesTurns
  <1>9. CASE ~Top(t).flag
    <2> DEFINE q == Goto(r, "get")
    <2>1. q \in ThreadRecord /\ Alike(q, r) /\ q.stack = Push(Fr("get", v, FALSE), Below(t))
      BY <1>2, <1>4, <1>6, <1>7, GotoIs
    <2>2. Does(t, Call(q, "rele", v))
      BY <1>5, <1>9
    <2> HIDE DEF q
    <2>3. th'[t].stack = Over("rele", v, Push(Fr("get", v, FALSE), Below(t)))
      BY <1>8, <2>1, <2>2
    <2>4. th'[t].cap = th[t].cap /\ th'[t].held = None /\ th'[t].i = th[t].i /\ th'[t].why = th[t].why
      BY <1>1, <1>4, <1>8, <2>1, <2>2 DEF Alike
    <2>5. th' \in [Threads -> ThreadRecord] /\ \A u \in Threads \ {t} : Agree(th'[u], th[u])
      BY <1>8, <2>1, <2>2 DEF Turns
    <2>6. QED BY <1>1, <1>2, <1>3, <2>3, <2>4, <2>5 DEF v
  <1>10. CASE Top(t).flag /\ name[r.i] = None
    <2> DEFINE q == With(r, "scan", None)
    <2>1. q \in ThreadRecord /\ Alike(q, r) /\ q.stack = Push(Fr("scan", None, FALSE), Below(t))
      BY <1>2, <1>4, <1>6, <1>7, WithIs
    <2>2. Does(t, Call(q, "rele", v))
      BY <1>5, <1>10 DEF Look
    <2> HIDE DEF q
    <2>3. th'[t].stack = Over("rele", v, Push(Fr("scan", None, FALSE), Below(t)))
      BY <1>8, <2>1, <2>2
    <2>4. th'[t].cap = th[t].cap /\ th'[t].held = None /\ th'[t].i = th[t].i /\ th'[t].why = th[t].why
      BY <1>1, <1>4, <1>8, <2>1, <2>2 DEF Alike
    <2>5. th' \in [Threads -> ThreadRecord] /\ \A u \in Threads \ {t} : Agree(th'[u], th[u])
      BY <1>8, <2>1, <2>2 DEF Turns
    <2>6. QED BY <1>1, <1>3, <2>3, <2>4, <2>5 DEF v
  <1>11. CASE Top(t).flag /\ name[r.i] # None
    <2> DEFINE w == name[r.i]
               p == With(r, "cached", w)
               q == [p EXCEPT !.cap = w]
    <2>1. w \in Vnodes /\ w = name[th[t].i]
      <3>1. r.i = th[t].i /\ th[t].i \in Inos
        BY <1>1, <1>4 DEF Alike, InCall, LookLabels
      <3>2. QED BY <1>11, <3>1 DEF Typed
    <2>2. p \in ThreadRecord /\ Alike(p, r) /\ p.stack = Push(Fr("cached", w, FALSE), Below(t))
      BY <1>2, <1>4, <1>6, <1>7, <2>1, WithIs
    <2>3. Does(t, Call(q, "rele", v))
      BY <1>5, <1>11 DEF Look
    <2> HIDE DEF p, w
    <2>4. q \in ThreadRecord /\ q.cap = w /\ q.stack = p.stack /\ q.i = p.i /\ q.why = p.why /\ q.held = p.held
      BY <2>1, <2>2 DEF ThreadRecord
    <2> HIDE DEF q
    <2>5. th'[t].stack = Over("rele", v, Push(Fr("cached", w, FALSE), Below(t)))
      BY <1>8, <2>2, <2>3, <2>4
    <2>6. th'[t].cap = w /\ th'[t].held = None /\ th'[t].i = th[t].i /\ th'[t].why = th[t].why
      BY <1>1, <1>4, <1>8, <2>2, <2>3, <2>4 DEF Alike
    <2>7. th' \in [Threads -> ThreadRecord] /\ \A u \in Threads \ {t} : Agree(th'[u], th[u])
      BY <1>8, <2>3, <2>4 DEF Turns
    <2>8. QED BY <1>1, <1>3, <2>1, <2>5, <2>6, <2>7 DEF v
  <1>12. QED BY <1>9, <1>10, <1>11

LEMMA EventDoes ==
  ASSUME Typed, NEW t \in Threads, Event(t)
  PROVE  LET v == Top(t).v
         IN  /\ InCall(t) /\ Top(t).at = "event" /\ UNCHANGED <<free, file, name, panic>> /\ Quiet
             /\ \/ Moves(t, Over("rele", v, Top1(t, "fail")))
                \/ vn[v].read = "yes" /\ Moves(t, Top1(t, "have"))
  <1> DEFINE v == Top(t).v
  <1>1. InCall(t) /\ Top(t).at = "event" /\ th[t].stack # <<>> /\ vn \in [Vnodes -> VnodeRecord]
    BY AtFacts DEF Event
  <1>2. v \in Vnodes /\ {"rele", "fail", "have"} \subseteq Labels
    BY <1>1 DEF InCall, NoVnode, Labels
  <1>3. vn[v].read # "no" /\ vn[v].read \in {"no", "yes", "error"}
    BY <1>1, <1>2 DEF Event, VnodeRecord
  <1>4. Quiet /\ UNCHANGED <<free, file, name, panic>>
    BY <1>1, <1>2, VnodeSteps DEF Event
  <1> HIDE DEF v
  <1>5. CASE vn[v].read = "error"
    <2>1. Moves(t, Over("rele", v, Top1(t, "fail")))
      BY <1>1, <1>2, <1>5, DoesMoves DEF Event, v
    <2>2. QED BY <1>1, <1>4, <2>1 DEF v
  <1>6. CASE vn[v].read = "yes"
    <2>1. Moves(t, Top1(t, "have"))
      BY <1>1, <1>2, <1>6, DoesMoves DEF Event, v
    <2>2. QED BY <1>1, <1>4, <1>6, <2>1 DEF v
  <1>7. QED BY <1>3, <1>5, <1>6

\* getnewvnode() and iget()
LEMMA NewDoes ==
  ASSUME Typed, NEW t \in Threads, New(t)
  PROVE  /\ InCall(t) /\ Top(t).at = "new" /\ UNCHANGED <<file, name>>
         /\ \/ \E v \in free :
                 /\ ~vn[v].xlock
                 /\ panic' = IF vn[v].count # 0 THEN "free vnode isn't" ELSE panic
                 /\ free' = free \ {v}
                 /\ LET s == Push(Fr("init", v, Top(t).flag), Below(t))
                    IN  \/ vn[v].type = "bad" /\ Quiet /\ Moves(t, s)
                        \/ vn[v].type # "bad" /\ LocksOnly(v) /\ Moves(t, Over("clean", v, s))
            \/ Quiet /\ UNCHANGED <<free, panic>> /\ Moves(t, Top1(t, "fail"))
  <1>1. InCall(t) /\ Top(t).at = "new" /\ th[t].stack # <<>> /\ vn \in [Vnodes -> VnodeRecord]
    BY AtFacts DEF New
  <1>2. {"init", "fail"} \subseteq Labels
    BY DEF Labels
  <1>3. UNCHANGED <<file, name>>
    BY DEF New
  <1>4. ASSUME NEW v \in free, ~vn[v].xlock,
               panic' = IF vn[v].count # 0 THEN "free vnode isn't" ELSE panic,
               free' = free \ {v}, vn[v].type = "bad", vn' = vn, Does(t, With(th[t], "init", v))
        PROVE  Quiet /\ Moves(t, Push(Fr("init", v, Top(t).flag), Below(t)))
    <2>1. v \in Vnodes
      BY DEF Typed
    <2>2. QED BY <1>1, <1>2, <1>4, <2>1, DoesMoves, VnodeSteps
  <1>5. ASSUME NEW v \in free, ~vn[v].xlock, vn[v].type # "bad",
               vn' = Vgone(vn, With(th[t], "init", v), v, FALSE).vn,
               Does(t, Vgone(vn, With(th[t], "init", v), v, FALSE).th)
        PROVE  LocksOnly(v) /\ Moves(t, Over("clean", v, Push(Fr("init", v, Top(t).flag), Below(t))))
    <2>1. v \in Vnodes
      BY DEF Typed
    <2>2. Gone(t, v, Push(Fr("init", v, Top(t).flag), Below(t)))
      BY <1>1, <1>2, <1>5, <2>1, VgoneMoves
    <2>3. QED BY <1>5, <2>2 DEF Gone
  <1>6. ASSUME Does(t, Goto(th[t], "fail")), UNCHANGED <<vn, free, panic>>
        PROVE  Quiet /\ Moves(t, Top1(t, "fail"))
    <2>1. Moves(t, Top1(t, "fail"))
      BY <1>1, <1>2, <1>6, DoesMoves
    <2>2. Quiet
      BY <1>6 DEF Quiet, VnodesFit, SameCounts, SameLocks, SameInacts, SameBodies, SameBody, Typed
    <2>3. QED BY <2>1, <2>2
  <1>7. ASSUME NEW v \in free, ~vn[v].xlock,
               panic' = IF vn[v].count # 0 THEN "free vnode isn't" ELSE panic,
               free' = free \ {v},
               LET r == With(th[t], "init", v)
                   g == IF vn[v].type = "bad" THEN [vn |-> vn, th |-> r] ELSE Vgone(vn, r, v, FALSE)
               IN  vn' = g.vn /\ Does(t, g.th)
        PROVE  LET s == Push(Fr("init", v, Top(t).flag), Below(t))
               IN  \/ vn[v].type = "bad" /\ Quiet /\ Moves(t, s)
                   \/ vn[v].type # "bad" /\ LocksOnly(v) /\ Moves(t, Over("clean", v, s))
    <2>1. CASE vn[v].type = "bad"
      <3>1. vn' = vn /\ Does(t, With(th[t], "init", v))
        BY <1>7, <2>1
      <3>2. QED BY <1>4, <1>7, <2>1, <3>1
    <2>2. CASE vn[v].type # "bad"
      <3>1. /\ vn' = Vgone(vn, With(th[t], "init", v), v, FALSE).vn
            /\ Does(t, Vgone(vn, With(th[t], "init", v), v, FALSE).th)
        BY <1>7, <2>2
      <3>2. QED BY <1>5, <1>7, <2>2, <3>1
    <2>3. QED BY <2>1, <2>2
  <1>8. CASE \E v \in free :
               /\ ~vn[v].xlock
               /\ panic' = IF vn[v].count # 0 THEN "free vnode isn't" ELSE panic
               /\ free' = free \ {v}
               /\ LET r == With(th[t], "init", v)
                      g == IF vn[v].type = "bad" THEN [vn |-> vn, th |-> r] ELSE Vgone(vn, r, v, FALSE)
                  IN  vn' = g.vn /\ Does(t, g.th)
    <2>1. PICK v \in free :
               /\ ~vn[v].xlock
               /\ panic' = IF vn[v].count # 0 THEN "free vnode isn't" ELSE panic
               /\ free' = free \ {v}
               /\ LET r == With(th[t], "init", v)
                      g == IF vn[v].type = "bad" THEN [vn |-> vn, th |-> r] ELSE Vgone(vn, r, v, FALSE)
                  IN  vn' = g.vn /\ Does(t, g.th)
      BY <1>8
    <2>2. LET s == Push(Fr("init", v, Top(t).flag), Below(t))
          IN  \/ vn[v].type = "bad" /\ Quiet /\ Moves(t, s)
              \/ vn[v].type # "bad" /\ LocksOnly(v) /\ Moves(t, Over("clean", v, s))
      BY <1>7, <2>1
    <2>3. QED BY <1>1, <1>3, <2>1, <2>2
  <1>9. CASE Does(t, Goto(th[t], "fail")) /\ UNCHANGED <<vn, free, panic>>
    BY <1>1, <1>3, <1>6, <1>9
  <1>10. QED BY <1>8, <1>9 DEF New

LEMMA FreshIs ==
  ASSUME NEW n \in Int, NEW i \in Inos
  PROVE  LET q == Fresh(n, i)
         IN  q \in VnodeRecord /\ q.count = n + 1 /\ q.xlock = FALSE /\ q.inactivating = FALSE
             /\ q.type = "none" /\ q.ops = "ufs" /\ q.ino = i /\ q.hashed = FALSE
             /\ q.listed = FALSE /\ q.read = "no"
  <1> DEFINE q1 == [Unused EXCEPT !.count = n + 1]
             q2 == [q1 EXCEPT !.type = "none"]
             q3 == [q2 EXCEPT !.ops = "ufs"]
             q4 == [q3 EXCEPT !.ino = i]
             Rest(q) == /\ q.xlock = FALSE /\ q.inactivating = FALSE
                        /\ q.hashed = FALSE /\ q.listed = FALSE /\ q.read = "no"
  <1>1. Unused \in VnodeRecord /\ Rest(Unused)
    BY DEF VnodeRecord, Unused
  <1>2. q1 \in VnodeRecord /\ q1.count = n + 1 /\ Rest(q1)
    BY <1>1 DEF VnodeRecord
  <1> HIDE DEF q1
  <1>3. q2 \in VnodeRecord /\ q2.count = n + 1 /\ q2.type = "none" /\ Rest(q2)
    BY <1>2 DEF VnodeRecord
  <1> HIDE DEF q2
  <1>4. q3 \in VnodeRecord /\ q3.count = n + 1 /\ q3.type = "none" /\ q3.ops = "ufs" /\ Rest(q3)
    BY <1>3 DEF VnodeRecord
  <1> HIDE DEF q3
  <1>5. q4 \in VnodeRecord /\ q4.count = n + 1 /\ q4.type = "none" /\ q4.ops = "ufs" /\ q4.ino = i /\ Rest(q4)
    BY <1>4 DEF VnodeRecord
  <1>6. Fresh(n, i) = q4
    BY DEF Fresh, q1, q2, q3
  <1>7. QED BY <1>5, <1>6

LEMMA VInitDoes ==
  ASSUME Typed, NEW t \in Threads, VInit(t)
  PROVE  LET v == Top(t).v
         IN  /\ InCall(t) /\ Top(t).at = "init" /\ UNCHANGED <<free, file, name, panic>>
             /\ VnodesFit /\ CountIs(v, vn[v].count + 1) /\ LockIs(v, FALSE) /\ InactIs(v, FALSE)
             /\ BodyIs(v, "none", "ufs", th[t].i, FALSE, FALSE, "no")
             /\ Moves(t, Top1(t, "enter"))
  <1> DEFINE v == Top(t).v
             q == Fresh(vn[v].count, th[t].i)
  <1>1. InCall(t) /\ Top(t).at = "init" /\ th[t].stack # <<>> /\ vn \in [Vnodes -> VnodeRecord]
        /\ \A w \in Vnodes : vn[w].count \in Int
    BY AtFacts DEF VInit
  <1>2. v \in Vnodes /\ "enter" \in Labels /\ th[t].i \in Inos
    BY <1>1 DEF InCall, NoVnode, Labels, LookLabels
  <1>3. vn' = [vn EXCEPT ![v] = q]
    BY DEF VInit
  <1> HIDE DEF v
  <1>5. q \in VnodeRecord /\ q.count = vn[v].count + 1 /\ q.xlock = FALSE /\ q.inactivating = FALSE
        /\ q.type = "none" /\ q.ops = "ufs" /\ q.ino = th[t].i /\ q.hashed = FALSE
        /\ q.listed = FALSE /\ q.read = "no"
    BY <1>1, <1>2, FreshIs
  <1> HIDE DEF q
  <1>6. /\ VnodesFit /\ CountIs(v, vn[v].count + 1) /\ LockIs(v, FALSE) /\ InactIs(v, FALSE)
        /\ BodyIs(v, "none", "ufs", th[t].i, FALSE, FALSE, "no")
    BY <1>1, <1>2, <1>3, <1>5 DEF VnodesFit, CountIs, LockIs, InactIs, BodyIs, SameBody
  <1>7. Moves(t, Top1(t, "enter"))
    BY <1>1, <1>2, DoesMoves DEF VInit
  <1>8. QED BY <1>1, <1>6, <1>7 DEF VInit, v

\* The new inode of a search that was too late is marked so, and its vnode is
\* to be cleaned.
LEMMA EnterDoes ==
  ASSUME Typed, NEW t \in Threads, Enter(t)
  PROVE  LET v == Top(t).v
             p == vn[v]
         IN  /\ InCall(t) /\ Top(t).at = "enter" /\ UNCHANGED <<free, file, name, panic>>
             /\ VnodesFit /\ SameCounts /\ SameInacts
             /\ \/ /\ InHash(th[t].i) = {} /\ SameLocks
                   /\ BodyIs(v, p.type, p.ops, p.ino, TRUE, p.listed, p.read)
                   /\ Moves(t, Top1(t, "fill"))
                \/ /\ BodyIs(v, p.type, p.ops, p.ino, p.hashed, p.listed, "error")
                   /\ \/ SameLocks /\ p.xlock /\ Moves(t, Top1(t, "dup"))
                      \/ /\ LockIs(v, TRUE) /\ ~p.xlock
                         /\ \E a \in {"clean", "gone_end"} : /\ a = "gone_end" <=> p.type = "bad"
                                                             /\ Moves(t, Over(a, v, Top1(t, "dup")))
  <1> DEFINE v == Top(t).v
  <1>1. InCall(t) /\ Top(t).at = "enter" /\ th[t].stack # <<>> /\ vn \in [Vnodes -> VnodeRecord]
        /\ th[t] \in ThreadRecord /\ th \in [Threads -> ThreadRecord]
    BY AtFacts DEF Enter
  <1>2. v \in Vnodes /\ {"fill", "dup", "clean", "gone_end"} \subseteq Labels
    BY <1>1 DEF InCall, NoVnode, Labels
  <1>3. UNCHANGED <<free, file, name, panic>>
    BY DEF Enter
  <1> HIDE DEF v
  <1>4. CASE InHash(th[t].i) = {}
    <2> DEFINE q == [vn[v] EXCEPT !.hashed = TRUE]
    <2>1. vn' = [vn EXCEPT ![v] = q] /\ Does(t, Goto(th[t], "fill"))
      BY <1>4 DEF Enter, v
    <2>2. q \in VnodeRecord /\ q.count = vn[v].count /\ q.xlock = vn[v].xlock
          /\ q.inactivating = vn[v].inactivating /\ q.type = vn[v].type /\ q.ops = vn[v].ops
          /\ q.ino = vn[v].ino /\ q.hashed = TRUE /\ q.listed = vn[v].listed /\ q.read = vn[v].read
      <3>1. vn[v] \in VnodeRecord
        BY <1>1, <1>2
      <3>2. QED BY <3>1 DEF VnodeRecord
    <2> HIDE DEF q
    <2>3. BodiesOnly /\ BodyIs(v, vn[v].type, vn[v].ops, vn[v].ino, TRUE, vn[v].listed, vn[v].read)
      BY <1>1, <1>2, <2>1, <2>2, GetsBody
    <2>4. Moves(t, Top1(t, "fill"))
      BY <1>1, <1>2, <2>1, DoesMoves
    <2>5. QED BY <1>1, <1>3, <1>4, <2>3, <2>4 DEF BodiesOnly, v
  <1>5. CASE InHash(th[t].i) # {}
    <2> DEFINE q == [vn[v] EXCEPT !.read = "error"]
               w == [vn EXCEPT ![v] = q]
               r == Goto(th[t], "dup")
               a == IF w[v].type = "bad" THEN "gone_end" ELSE "clean"
               p == [q EXCEPT !.xlock = TRUE]
    <2>1. vn' = Vgone(w, r, v, FALSE).vn /\ Does(t, Vgone(w, r, v, FALSE).th)
      BY <1>5 DEF Enter, v
    <2>2. q \in VnodeRecord /\ q.count = vn[v].count /\ q.xlock = vn[v].xlock
          /\ q.inactivating = vn[v].inactivating /\ q.type = vn[v].type /\ q.ops = vn[v].ops
          /\ q.ino = vn[v].ino /\ q.hashed = vn[v].hashed /\ q.listed = vn[v].listed /\ q.read = "error"
      <3>1. vn[v] \in VnodeRecord
        BY <1>1, <1>2
      <3>2. QED BY <3>1 DEF VnodeRecord
    <2> HIDE DEF q
    <2>3. w \in [Vnodes -> VnodeRecord] /\ w[v] = q
      BY <1>1, <1>2, <2>2
    <2>4. r \in ThreadRecord
      BY <1>1, <1>2, GotoIs
    <2>5. CASE vn[v].xlock
      <3>1. vn' = [vn EXCEPT ![v] = q] /\ Does(t, r)
        BY <2>1, <2>2, <2>3, <2>5 DEF Vgone
      <3>2. BodiesOnly /\ BodyIs(v, vn[v].type, vn[v].ops, vn[v].ino, vn[v].hashed, vn[v].listed, "error")
        BY <1>1, <1>2, <2>2, <3>1, GetsBody
      <3>3. Moves(t, Top1(t, "dup"))
        BY <1>1, <1>2, <3>1, DoesMoves
      <3>4. QED BY <1>1, <1>3, <2>5, <3>2, <3>3 DEF BodiesOnly, v
    <2>6. CASE ~vn[v].xlock
      <3>1. vn' = [w EXCEPT ![v].xlock = TRUE] /\ Does(t, Call(r, a, v))
        BY <2>1, <2>2, <2>3, <2>6 DEF Vgone
      <3>2. a \in {"clean", "gone_end"} /\ (a = "gone_end" <=> vn[v].type = "bad")
        BY <2>2, <2>3
      <3> HIDE DEF a
      <3>3. vn' = [vn EXCEPT ![v] = p]
        BY <1>1, <1>2, <3>1
      <3>4. p \in VnodeRecord /\ p.count = vn[v].count /\ p.xlock = TRUE
            /\ p.inactivating = vn[v].inactivating /\ SameBody(p, q)
        BY <2>2, FieldSteps
      <3> HIDE DEF p
      <3>5. /\ VnodesFit /\ SameCounts /\ SameInacts /\ LockIs(v, TRUE)
            /\ BodyIs(v, vn[v].type, vn[v].ops, vn[v].ino, vn[v].hashed, vn[v].listed, "error")
        BY <1>1, <1>2, <2>2, <3>3, <3>4 DEF VnodesFit, SameCounts, SameInacts, LockIs, BodyIs, SameBody
      <3>6. Moves(t, Over(a, v, Top1(t, "dup")))
        BY <1>1, <1>2, <3>1, <3>2, DoesMoves
      <3>7. QED BY <1>1, <1>3, <2>6, <3>2, <3>5, <3>6 DEF v
    <2>7. QED BY <2>5, <2>6
  <1>6. QED BY <1>4, <1>5

LEMMA DupDoes ==
  ASSUME Typed, NEW t \in Threads, Dup(t)
  PROVE  /\ InCall(t) /\ Top(t).at = "dup" /\ UNCHANGED <<free, file, name, panic>>
         /\ Quiet /\ Moves(t, Over("rele", Top(t).v, Top1(t, "get")))
  <1>1. InCall(t) /\ Top(t).at = "dup" /\ th[t].stack # <<>> /\ vn \in [Vnodes -> VnodeRecord]
    BY AtFacts DEF Dup
  <1>2. Top(t).v \in Vnodes /\ {"get", "rele"} \subseteq Labels
    BY <1>1 DEF InCall, NoVnode, Labels
  <1>3. QED BY <1>1, <1>2, DoesMoves, VnodeSteps DEF Dup

LEMMA FillDoes ==
  ASSUME Typed, NEW t \in Threads, Fill(t)
  PROVE  LET v == Top(t).v
             p == vn[v]
         IN  /\ InCall(t) /\ Top(t).at = "fill" /\ UNCHANGED <<free, file, name, panic>>
             /\ BodiesOnly
             /\ \/ /\ BodyIs(v, IF ModeIsZero(th[t].i) THEN "none" ELSE "reg", p.ops, p.ino, p.hashed, TRUE, "yes")
                   /\ Moves(t, Top1(t, "have"))
                \/ /\ BodyIs(v, p.type, p.ops, p.ino, FALSE, p.listed, "error")
                   /\ Moves(t, Over("rele", v, Top1(t, "fail")))
  <1> DEFINE v == Top(t).v
  <1>1. InCall(t) /\ Top(t).at = "fill" /\ th[t].stack # <<>> /\ vn \in [Vnodes -> VnodeRecord]
    BY AtFacts DEF Fill
  <1>2. v \in Vnodes /\ {"have", "fail", "rele"} \subseteq Labels
    BY <1>1 DEF InCall, NoVnode, Labels
  <1>3. UNCHANGED <<free, file, name, panic>>
    BY DEF Fill
  <1> DEFINE type == IF ModeIsZero(th[t].i) THEN "none" ELSE "reg"
             q == [vn[v] EXCEPT !.read = "yes", !.listed = TRUE, !.type = type]
             r == [vn[v] EXCEPT !.read = "error", !.hashed = FALSE]
  <1>4. \/ vn' = [vn EXCEPT ![v] = q] /\ Does(t, Goto(th[t], "have"))
        \/ vn' = [vn EXCEPT ![v] = r] /\ Does(t, Call(Goto(th[t], "fail"), "rele", v))
    BY <1>1, <1>2 DEF Fill
  <1>5. type \in {"none", "reg"}
    OBVIOUS
  <1> HIDE DEF v, type
  <1>6. CASE vn' = [vn EXCEPT ![v] = q] /\ Does(t, Goto(th[t], "have"))
    <2>1. q \in VnodeRecord /\ q.count = vn[v].count /\ q.xlock = vn[v].xlock
          /\ q.inactivating = vn[v].inactivating /\ q.type = type /\ q.ops = vn[v].ops
          /\ q.ino = vn[v].ino /\ q.hashed = vn[v].hashed /\ q.listed = TRUE /\ q.read = "yes"
      <3>1. vn[v] \in VnodeRecord
        BY <1>1, <1>2
      <3>2. QED BY <3>1, <1>5 DEF VnodeRecord
    <2> HIDE DEF q
    <2>2. BodiesOnly /\ BodyIs(v, type, vn[v].ops, vn[v].ino, vn[v].hashed, TRUE, "yes")
      BY <1>1, <1>2, <1>6, <2>1, GetsBody
    <2>3. Moves(t, Top1(t, "have"))
      BY <1>1, <1>2, <1>6, DoesMoves
    <2>4. QED BY <1>1, <1>3, <2>2, <2>3 DEF v, type
  <1>7. CASE vn' = [vn EXCEPT ![v] = r] /\ Does(t, Call(Goto(th[t], "fail"), "rele", v))
    <2>1. r \in VnodeRecord /\ r.count = vn[v].count /\ r.xlock = vn[v].xlock
          /\ r.inactivating = vn[v].inactivating /\ r.type = vn[v].type /\ r.ops = vn[v].ops
          /\ r.ino = vn[v].ino /\ r.hashed = FALSE /\ r.listed = vn[v].listed /\ r.read = "error"
      <3>1. vn[v] \in VnodeRecord
        BY <1>1, <1>2
      <3>2. QED BY <3>1 DEF VnodeRecord
    <2> HIDE DEF r
    <2>2. BodiesOnly /\ BodyIs(v, vn[v].type, vn[v].ops, vn[v].ino, FALSE, vn[v].listed, "error")
      BY <1>1, <1>2, <1>7, <2>1, GetsBody
    <2>3. Moves(t, Over("rele", v, Top1(t, "fail")))
      BY <1>1, <1>2, <1>7, DoesMoves
    <2>4. QED BY <1>1, <1>3, <2>2, <2>3 DEF v
  <1>8. QED BY <1>4, <1>6, <1>7

LEMMA FailDoes ==
  ASSUME Typed, NEW t \in Threads, Fail(t)
  PROVE  /\ InCall(t) /\ Top(t).at = "fail" /\ UNCHANGED <<free, name, panic>>
         /\ file' = IF th[t].why = "create" THEN [file EXCEPT ![th[t].i] = "free"] ELSE file
         /\ Quiet /\ Moves(t, Below(t))
  <1>1. InCall(t) /\ Top(t).at = "fail" /\ th[t].stack # <<>>
    BY AtFacts DEF Fail
  <1>2. Quiet
    BY DEF Fail, Quiet, VnodesFit, SameCounts, SameLocks, SameInacts, SameBodies, SameBody, Typed
  <1>3. QED BY <1>1, <1>2, DoesMoves DEF Fail

\* The file is open.
Keeps(t) == /\ th' \in [Threads -> ThreadRecord]
            /\ \A u \in Threads \ {t} : Agree(th'[u], th[u])
            /\ th'[t].stack = <<>> /\ th'[t].held = [v |-> Top(t).v, i |-> th[t].i]
            /\ th'[t].i = None /\ th'[t].why = "other" /\ th'[t].cap = None

LEMMA HaveDoes ==
  ASSUME Typed, NEW t \in Threads, Have(t)
  PROVE  LET v == Top(t).v
             p == vn[v]
             i == th[t].i
         IN  /\ InCall(t) /\ Top(t).at = "have" /\ UNCHANGED free
             /\ \/ /\ Quiet /\ UNCHANGED <<file, name, panic>>
                   /\ Moves(t, Over("rele", v, Top1(t, "scan")))
                \/ /\ th[t].why = "name" /\ p.type # "none" /\ Quiet /\ UNCHANGED <<file, panic>>
                   /\ name' = [name EXCEPT ![i] = IF file[i] = "linked" THEN v ELSE @]
                   /\ Keeps(t)
                \/ /\ Quiet /\ UNCHANGED <<file, name, panic>>
                   /\ Moves(t, Over("rele", v, Below(t)))
                \/ /\ th[t].why = "handle" /\ Quiet /\ UNCHANGED <<file, name, panic>>
                   /\ Keeps(t)
                \/ /\ th[t].why = "create" /\ panic' = IF ~ModeIsZero(i) THEN "dup alloc" ELSE panic
                   /\ file' = [file EXCEPT ![i] = "linked"]
                   /\ BodiesOnly /\ BodyIs(v, "reg", p.ops, p.ino, p.hashed, p.listed, p.read)
                   /\ name' = [name EXCEPT ![i] = v]
                   /\ Keeps(t)
  <1> DEFINE v == Top(t).v
             i == th[t].i
             r == Return(th[t])
             kept == [r EXCEPT !.held = [v |-> v, i |-> i]]
  <1>1. InCall(t) /\ Top(t).at = "have" /\ th[t].stack # <<>> /\ vn \in [Vnodes -> VnodeRecord]
        /\ th[t] \in ThreadRecord /\ th \in [Threads -> ThreadRecord]
    BY AtFacts DEF Have
  <1>2. /\ v \in Vnodes /\ i \in Inos /\ Below(t) = <<>>
        /\ {"rele", "scan"} \subseteq Labels /\ "rele" \in Labels \ LookLabels
    BY <1>1 DEF InCall, NoVnode, Labels, LookLabels
  <1>3. UNCHANGED free
    BY DEF Have
  <1>4. vn' = vn => Quiet
    BY <1>1, <1>2, VnodeSteps
  <1>5. r \in ThreadRecord /\ r.stack = <<>> /\ r.i = None /\ r.why = "other" /\ r.cap = None
    BY <1>1, <1>2, ReturnIs DEF Below
  <1>6. ASSUME Does(t, kept) PROVE Keeps(t)
    <2>1. [v |-> v, i |-> i] \in Open
      BY <1>2 DEF Open
    <2> HIDE DEF r, v, i
    <2>2. /\ kept \in ThreadRecord /\ kept.stack = <<>> /\ kept.held = [v |-> v, i |-> i]
          /\ kept.i = None /\ kept.why = "other" /\ kept.cap = None
      BY <1>5, <2>1 DEF ThreadRecord
    <2> HIDE DEF kept
    <2>3. QED BY <1>1, <1>6, <2>2, DoesTurns DEF Turns, Agree, Keeps, v, i
  <1> HIDE DEF r, kept, i, v
  <1>7. CASE /\ th[t].why = "name" /\ vn[v].type = "none"
             /\ Does(t, Call(Goto(th[t], "scan"), "rele", v)) /\ UNCHANGED <<vn, file, name, panic>>
    BY <1>1, <1>2, <1>3, <1>4, <1>7, DoesMoves DEF v
  <1>8. CASE /\ th[t].why = "name" /\ vn[v].type # "none"
             /\ name' = [name EXCEPT ![i] = IF file[i] = "linked" THEN v ELSE @]
             /\ Does(t, kept) /\ UNCHANGED <<vn, file, panic>>
    BY <1>1, <1>3, <1>4, <1>6, <1>8 DEF v, i
  <1>9. CASE /\ th[t].why = "handle" /\ UNCHANGED <<vn, file, name, panic>>
             /\ Does(t, IF ModeIsZero(i) THEN Call(r, "rele", v) ELSE kept)
    <2>1. CASE ModeIsZero(i)
      <3>1. Call(r, "rele", v) \in ThreadRecord
        BY <1>2, <1>5, CallIs
      <3>2. Turns(t, Call(r, "rele", v))
        BY <1>1, <1>9, <2>1, <3>1, DoesTurns
      <3>3. Moves(t, Over("rele", v, Below(t)))
        BY <1>1, <1>2, <3>2, TurnMoves DEF r
      <3>4. QED BY <1>1, <1>3, <1>4, <1>9, <3>3 DEF v
    <2>2. CASE ~ModeIsZero(i)
      <3>1. Keeps(t)
        BY <1>6, <1>9, <2>2
      <3>2. QED BY <1>1, <1>3, <1>4, <1>9, <3>1
    <2>3. QED BY <2>1, <2>2
  <1>10. CASE /\ th[t].why = "create" /\ panic' = IF ~ModeIsZero(i) THEN "dup alloc" ELSE panic
              /\ file' = [file EXCEPT ![i] = "linked"] /\ vn' = [vn EXCEPT ![v].type = "reg"]
              /\ name' = [name EXCEPT ![i] = v] /\ Does(t, kept)
    <2> DEFINE q == [vn[v] EXCEPT !.type = "reg"]
    <2>1. vn' = [vn EXCEPT ![v] = q]
      BY <1>10
    <2>2. q \in VnodeRecord /\ q.count = vn[v].count /\ q.xlock = vn[v].xlock
          /\ q.inactivating = vn[v].inactivating /\ q.type = "reg" /\ q.ops = vn[v].ops
          /\ q.ino = vn[v].ino /\ q.hashed = vn[v].hashed /\ q.listed = vn[v].listed /\ q.read = vn[v].read
      <3>1. vn[v] \in VnodeRecord
        BY <1>1, <1>2
      <3>2. QED BY <3>1 DEF VnodeRecord
    <2> HIDE DEF q
    <2>3. BodiesOnly /\ BodyIs(v, "reg", vn[v].ops, vn[v].ino, vn[v].hashed, vn[v].listed, vn[v].read)
      BY <1>1, <1>2, <2>1, <2>2, GetsBody
    <2>4. QED BY <1>1, <1>3, <1>6, <1>10, <2>3 DEF v, i
  <1>11. QED BY <1>7, <1>8, <1>9, <1>10 DEF Have, v, i, r, kept

------------------------------------------------------------------------------
\* What threads begin

\* The stack of a call that begins.
Only(at, v) == Over(at, v, <<>>)

LEMMA OnlyFacts ==
  ASSUME NEW at \in Labels, NEW v \in Vnodes \union {None}
  PROVE  /\ Only(at, v) \in Seq(Frame) /\ Only(at, v) # <<>> /\ Only(at, v)[1] = Fr(at, v, FALSE)
         /\ Tail(Only(at, v)) = <<>> /\ Len(Only(at, v)) = 1
         /\ Frames(Only(at, v)) = {Fr(at, v, FALSE)}
         /\ IsFirst(Only(at, v))
         /\ \A F : Count(Only(at, v), F) = IF Fr(at, v, FALSE) \in F THEN 1 ELSE 0
  <1> DEFINE f == Fr(at, v, FALSE)
             s == Only(at, v)
  <1>1. s = <<f>> /\ s = Push(f, <<>>)
    BY DEF Only, Over, Push
  <1>2. f \in Frame
    BY FrFacts
  <1> HIDE DEF f, s
  <1>3. s \in Seq(Frame) /\ s # <<>> /\ s[1] = f /\ Len(s) = 1 /\ Tail(s) = <<>>
    BY <1>1, <1>2
  <1>4. Frames(s) = {f} /\ IsFirst(s)
    BY <1>1 DEF Frames, IsFirst
  <1>5. \A F : Count(s, F) = IF f \in F THEN 1 ELSE 0
    <2> DEFINE e == <<>>
    <2>1. e \in Seq(Frame) /\ s = Push(f, e)
      BY <1>1
    <2>2. \A F : Count(e, F) = 0
      BY EmptyCount
    <2> HIDE DEF e
    <2>3. \A F : Count(Push(f, e), F) = Count(e, F) + IF f \in F THEN 1 ELSE 0
      BY <1>2, <2>1, PushFrame, Zenon
    <2>4. QED BY <2>1, <2>2, <2>3
  <1>6. QED BY <1>3, <1>4, <1>5 DEF f, s

Begins(t, why, i, s) ==
  /\ th[t].stack = <<>>
  /\ th' \in [Threads -> ThreadRecord]
  /\ \A u \in Threads \ {t} : Agree(th'[u], th[u])
  /\ th'[t].stack = s /\ th'[t].held = None
  /\ th'[t].i = i /\ th'[t].why = why

Whys == {"name", "handle", "create", "other", "unmount"}

LEMMA BeginIs ==
  ASSUME Typed, NEW t \in Threads, NEW at \in Labels, NEW v \in Vnodes \union {None},
         NEW why \in Whys, NEW i \in Inos \union {None},
         IsIdle(t)
  PROVE  LET r == Begin(t, why, i, at, v)
         IN  /\ r \in ThreadRecord /\ r.stack = Only(at, v)
             /\ r.i = i /\ r.why = why /\ r.cap = th[t].cap /\ r.held = th[t].held
  <1> DEFINE q == [th[t] EXCEPT !.why = why, !.i = i]
  <1>1. th[t] \in ThreadRecord /\ th[t].stack = <<>>
    BY DEF Typed, IsIdle
  <1>2. /\ q \in ThreadRecord /\ q.stack = <<>> /\ q.i = i /\ q.why = why
        /\ q.cap = th[t].cap /\ q.held = th[t].held
    BY <1>1 DEF ThreadRecord, Whys
  <1>3. Begin(t, why, i, at, v) = Call(q, at, v)
    BY DEF Begin
  <1> HIDE DEF q
  <1>4. /\ Call(q, at, v) \in ThreadRecord /\ Alike(Call(q, at, v), q)
        /\ Call(q, at, v).stack = Only(at, v)
    BY <1>2, CallIs DEF Only, Over
  <1>5. QED BY <1>2, <1>3, <1>4 DEF Alike

LEMMA LookUpDoes ==
  ASSUME Typed, NEW t \in Threads, NEW i \in Inos, LookUp(t, i)
  PROVE  /\ th[t].held = None /\ UNCHANGED <<free, file, name, panic>> /\ Quiet
         /\ \/ Begins(t, "name", i, Only("scan", None)) /\ th'[t].cap = th[t].cap
            \/ \E w \in Vnodes : /\ w = name[i] /\ th'[t].cap = w
                                 /\ Begins(t, "name", i, Only("cached", w))
  <1> DEFINE r == Begin(t, "name", i, "scan", None)
             f == Fr("scan", None, FALSE)
  <1>1. IsIdle(t) /\ th[t].held = None /\ Does(t, Look(r)) /\ UNCHANGED <<vn, free, file, name, panic>>
    BY DEF LookUp, MayBegin
  <1>2. {"scan", "cached"} \subseteq Labels /\ "name" \in Whys /\ th \in [Threads -> ThreadRecord]
    BY DEF Labels, Typed, Whys
  <1>3. /\ r \in ThreadRecord /\ r.stack = Only("scan", None) /\ r.i = i /\ r.why = "name"
        /\ r.cap = th[t].cap /\ r.held = None
    BY <1>1, <1>2, BeginIs
  <1>4. Quiet
    BY <1>1 DEF Quiet, VnodesFit, SameCounts, SameLocks, SameInacts, SameBodies, SameBody, Typed
  <1>5. f \in Frame /\ f.flag = FALSE /\ <<>> \in Seq(Frame)
    <2>1. f \in Frame
      BY <1>2, FrFacts
    <2>2. QED BY <2>1 DEF Fr
  <1> HIDE DEF r, f
  <1>6. r.stack # <<>> /\ Tail(r.stack) = <<>> /\ r.stack[1] = f
    <2>1. None \in Vnodes \union {None} /\ "scan" \in Labels
      BY <1>2
    <2>2. /\ Only("scan", None) # <<>> /\ Tail(Only("scan", None)) = <<>>
          /\ Only("scan", None)[1] = Fr("scan", None, FALSE)
      BY <2>1, OnlyFacts
    <2>3. QED BY <1>3, <2>2 DEF f
  <1>7. CASE name[i] = None
    <2> DEFINE q == With(r, "scan", None)
    <2>1. q \in ThreadRecord /\ Alike(q, r) /\ q.stack = Only("scan", None)
      BY <1>2, <1>3, <1>5, <1>6, WithIs DEF Only, Over
    <2>2. Does(t, q)
      BY <1>1, <1>3, <1>7 DEF Look
    <2> HIDE DEF q
    <2>3. Begins(t, "name", i, Only("scan", None)) /\ th'[t].cap = th[t].cap
      BY <1>1, <1>2, <1>3, <2>1, <2>2, DoesTurns DEF Turns, Alike, Begins, IsIdle
    <2>4. QED BY <1>1, <1>4, <2>3
  <1>8. CASE name[i] # None
    <2> DEFINE w == name[i]
               p == With(r, "cached", w)
               q == [p EXCEPT !.cap = w]
    <2>1. w \in Vnodes
      BY <1>8 DEF Typed
    <2>2. p \in ThreadRecord /\ Alike(p, r) /\ p.stack = Only("cached", w)
      <3>1. r \in ThreadRecord /\ r.stack # <<>> /\ "cached" \in Labels /\ w \in Vnodes \union {None}
        BY <1>2, <1>3, <1>6, <2>1
      <3>2. /\ p \in ThreadRecord /\ Alike(p, r)
            /\ p.stack = Push(Fr("cached", w, r.stack[1].flag), Tail(r.stack))
        BY <3>1, WithIs
      <3>3. r.stack[1].flag = FALSE /\ Tail(r.stack) = <<>>
        BY <1>5, <1>6
      <3> HIDE DEF w, p
      <3>4. p.stack = Push(Fr("cached", w, FALSE), <<>>)
        BY <3>2, <3>3
      <3>5. QED BY <3>2, <3>4 DEF Only, Over
    <2>3. Does(t, q)
      BY <1>1, <1>3, <1>8 DEF Look
    <2> HIDE DEF p
    <2>4. /\ q \in ThreadRecord /\ q.cap = w /\ q.stack = p.stack /\ q.i = p.i /\ q.why = p.why
          /\ q.held = p.held
      BY <2>1, <2>2 DEF ThreadRecord
    <2> HIDE DEF q, w
    <2>5. Begins(t, "name", i, Only("cached", w)) /\ th'[t].cap = w
      BY <1>1, <1>2, <1>3, <2>2, <2>3, <2>4, DoesTurns DEF Turns, Alike, Begins, IsIdle
    <2>6. QED BY <1>1, <1>4, <2>1, <2>5 DEF w
  <1>9. QED BY <1>7, <1>8

LEMMA FhToVpDoes ==
  ASSUME Typed, NEW t \in Threads, NEW i \in Inos, FhToVp(t, i)
  PROVE  /\ th[t].held = None /\ UNCHANGED <<free, file, name, panic>> /\ Quiet
         /\ Begins(t, "handle", i, Only("get", None)) /\ th'[t].cap = th[t].cap
  <1> DEFINE r == Begin(t, "handle", i, "get", None)
  <1>1. IsIdle(t) /\ th[t].held = None /\ Does(t, r) /\ UNCHANGED <<vn, free, file, name, panic>>
    BY DEF FhToVp, MayBegin
  <1>2. "get" \in Labels /\ {"handle", "create"} \subseteq Whys /\ th \in [Threads -> ThreadRecord]
    BY DEF Labels, Typed, Whys
  <1>3. /\ r \in ThreadRecord /\ r.stack = Only("get", None) /\ r.i = i
        /\ r.why = "handle" /\ r.cap = th[t].cap /\ r.held = None
    BY <1>1, <1>2, BeginIs
  <1>4. Quiet
    BY <1>1 DEF Quiet, VnodesFit, SameCounts, SameLocks, SameInacts, SameBodies, SameBody, Typed
  <1> HIDE DEF r
  <1>5. QED BY <1>1, <1>2, <1>3, <1>4, DoesTurns DEF Turns, Begins, IsIdle

LEMMA CreateDoes ==
  ASSUME Typed, NEW t \in Threads, NEW i \in Inos, Create(t, i)
  PROVE  /\ th[t].held = None /\ UNCHANGED <<free, name, panic>> /\ Quiet
         /\ file[i] = "free" /\ file' = [file EXCEPT ![i] = "reserved"]
         /\ Begins(t, "create", i, Only("get", None)) /\ th'[t].cap = th[t].cap
  <1> DEFINE r == Begin(t, "create", i, "get", None)
  <1>1. /\ IsIdle(t) /\ th[t].held = None /\ Does(t, r) /\ UNCHANGED <<vn, free, name, panic>>
        /\ file[i] = "free" /\ file' = [file EXCEPT ![i] = "reserved"]
    BY DEF Create, MayBegin
  <1>2. "get" \in Labels /\ {"handle", "create"} \subseteq Whys /\ th \in [Threads -> ThreadRecord]
    BY DEF Labels, Typed, Whys
  <1>3. /\ r \in ThreadRecord /\ r.stack = Only("get", None) /\ r.i = i
        /\ r.why = "create" /\ r.cap = th[t].cap /\ r.held = None
    <2>1. IsIdle(t) /\ th[t].held = None /\ i \in Inos \union {None} /\ "create" \in Whys
      BY <1>1, <1>2
    <2>2. /\ r \in ThreadRecord /\ r.stack = Only("get", None) /\ r.i = i
          /\ r.why = "create" /\ r.cap = th[t].cap /\ r.held = th[t].held
      BY <1>2, <2>1, BeginIs
    <2>3. QED BY <2>1, <2>2
  <1>4. Quiet
    BY <1>1 DEF Quiet, VnodesFit, SameCounts, SameLocks, SameInacts, SameBodies, SameBody, Typed
  <1> HIDE DEF r
  <1>5. QED BY <1>1, <1>2, <1>3, <1>4, DoesTurns DEF Turns, Begins, IsIdle

LEMMA CloseDoes ==
  ASSUME Typed, NEW t \in Threads, Close(t)
  PROVE  /\ th[t].held \in Open /\ th[t].held # None /\ th[t].held.v \in Vnodes
         /\ UNCHANGED <<free, file, name, panic>> /\ Quiet
         /\ Begins(t, "other", th[t].i, Only("rele", th[t].held.v)) /\ th'[t].cap = th[t].cap
  <1> DEFINE v == th[t].held.v
             r == Begin(t, "other", th[t].i, "rele", v)
             q == [r EXCEPT !.held = None]
  <1>1. /\ IsIdle(t) /\ th[t].held # None /\ Does(t, q) /\ UNCHANGED <<vn, free, file, name, panic>>
    BY DEF Close
  <1>2. /\ "rele" \in Labels /\ "other" \in Whys /\ th \in [Threads -> ThreadRecord]
    BY DEF Labels, Typed, Whys
  <1>3. th[t].held \in Open /\ th[t].i \in Inos \union {None}
    BY <1>1, <1>2 DEF ThreadRecord
  <1>4. v \in Vnodes
    BY <1>3 DEF Open
  <1> HIDE DEF v
  <1>5. /\ r \in ThreadRecord /\ r.stack = Only("rele", v) /\ r.i = th[t].i
        /\ r.why = "other" /\ r.cap = th[t].cap
    BY <1>1, <1>2, <1>3, <1>4, BeginIs
  <1> HIDE DEF r
  <1>6. /\ q \in ThreadRecord /\ q.stack = r.stack /\ q.i = r.i /\ q.why = r.why /\ q.cap = r.cap
        /\ q.held = None
    BY <1>5 DEF ThreadRecord
  <1> HIDE DEF q
  <1>7. Quiet
    BY <1>1 DEF Quiet, VnodesFit, SameCounts, SameLocks, SameInacts, SameBodies, SameBody, Typed
  <1>8. Begins(t, "other", th[t].i, Only("rele", v)) /\ th'[t].cap = th[t].cap
    BY <1>1, <1>2, <1>5, <1>6, DoesTurns DEF Turns, Begins, IsIdle
  <1>9. QED BY <1>1, <1>3, <1>4, <1>7, <1>8 DEF v

LEMMA RemoveDoes ==
  ASSUME Typed, NEW t \in Threads, Remove(t)
  PROVE  LET h == th[t].held
         IN  /\ th[t].stack = <<>> /\ h # None /\ h \in Open /\ h.v \in Vnodes /\ h.i \in Inos
             /\ file[h.i] = "linked" /\ vn[h.v].ops = "ufs"
             /\ file' = [file EXCEPT ![h.i] = "unlinked"] /\ CachePurge(h.v)
             /\ th' \in [Threads -> ThreadRecord]
             /\ \A u \in Threads : Agree(th'[u], th[u]) /\ th'[u].cap # h.v
             /\ UNCHANGED <<free, panic>> /\ Quiet
  <1> DEFINE h == th[t].held
  <1>1. /\ IsIdle(t) /\ h # None /\ file[h.i] = "linked" /\ vn[h.v].ops = "ufs"
        /\ file' = [file EXCEPT ![h.i] = "unlinked"] /\ CachePurge(h.v)
        /\ th' = Forgotten(th, h.v) /\ UNCHANGED <<vn, free, panic>>
    BY DEF Remove
  <1>2. th \in [Threads -> ThreadRecord]
    BY DEF Typed
  <1>3. h \in Open
    BY <1>1, <1>2 DEF ThreadRecord
  <1>4. h.v \in Vnodes /\ h.i \in Inos
    BY <1>3 DEF Open
  <1>5. Quiet
    BY <1>1 DEF Quiet, VnodesFit, SameCounts, SameLocks, SameInacts, SameBodies, SameBody, Typed
  <1>6. ASSUME NEW q \in ThreadRecord
        PROVE  /\ [q EXCEPT !.cap = None] \in ThreadRecord /\ Agree([q EXCEPT !.cap = None], q)
               /\ [q EXCEPT !.cap = None].cap = None /\ Agree(q, q)
    BY DEF ThreadRecord, Agree
  <1> HIDE DEF h
  <1>7. ASSUME NEW u \in Threads
        PROVE  th'[u] \in ThreadRecord /\ Agree(th'[u], th[u]) /\ th'[u].cap # h.v
    BY <1>1, <1>2, <1>4, <1>6, NoneAssumption DEF Forgotten
  <1>8. th' \in [Threads -> ThreadRecord]
    BY <1>1, <1>7 DEF Forgotten
  <1>9. QED BY <1>1, <1>3, <1>4, <1>5, <1>7, <1>8 DEF IsIdle, h

LEMMA SyncDoes ==
  ASSUME Typed, NEW t \in Threads, NEW v \in Vnodes, Sync(t, v)
  PROVE  /\ th[t].held = None /\ vn[v].listed /\ ~vn[v].xlock /\ Gets(v) /\ UNCHANGED <<file, name>>
         /\ Begins(t, "other", th[t].i, Only("rele", v)) /\ th'[t].cap = th[t].cap
  <1> DEFINE r == Begin(t, "other", th[t].i, "rele", v)
  <1>1. IsIdle(t) /\ th[t].held = None /\ Does(t, r) /\ vn[v].listed /\ ~vn[v].xlock /\ Vgetm(v)
        /\ UNCHANGED <<file, name>>
    BY DEF Sync, MayBegin
  <1>2. "rele" \in Labels /\ "other" \in Whys /\ th \in [Threads -> ThreadRecord]
    BY DEF Labels, Typed, Whys
  <1>3. th[t].i \in Inos \union {None}
    BY <1>2 DEF ThreadRecord
  <1>4. /\ r \in ThreadRecord /\ r.stack = Only("rele", v) /\ r.i = th[t].i
        /\ r.why = "other" /\ r.cap = th[t].cap /\ r.held = None
    BY <1>1, <1>2, <1>3, BeginIs
  <1> HIDE DEF r
  <1>5. QED BY <1>1, <1>2, <1>4, DoesTurns, VgetmGets DEF Turns, Begins, IsIdle

LEMMA VflushDoes ==
  ASSUME Typed, NEW t \in Threads, NEW v \in Vnodes, Vflush(t, v)
  PROVE  /\ th[t].held = None /\ vn[v].listed /\ vn[v].count = 0 /\ UNCHANGED <<free, file, name, panic>>
         /\ th'[t].cap = th[t].cap
         /\ \/ Quiet /\ Begins(t, "unmount", th[t].i, Only("gone_slept", v))
            \/ /\ ~vn[v].xlock /\ LocksOnly(v)
               /\ \E a \in {"clean", "gone_end"} :
                    /\ a = "gone_end" <=> vn[v].type = "bad"
                    /\ Begins(t, "unmount", th[t].i, Only(a, v))
  <1> DEFINE q == [th[t] EXCEPT !.why = "unmount"]
             g == Vgone(vn, q, v, TRUE)
             a == IF vn[v].type = "bad" THEN "gone_end" ELSE "clean"
  <1>1. /\ IsIdle(t) /\ th[t].held = None /\ vn[v].listed /\ vn[v].count = 0
        /\ vn' = g.vn /\ Does(t, g.th) /\ UNCHANGED <<free, file, name, panic>>
    BY DEF Vflush, MayBegin
  <1>2. /\ {"gone_slept", "clean", "gone_end"} \subseteq Labels /\ th \in [Threads -> ThreadRecord]
        /\ vn \in [Vnodes -> VnodeRecord] /\ th[t] \in ThreadRecord /\ th[t].stack = <<>>
    BY <1>1 DEF Labels, Typed, IsIdle
  <1>3. /\ q \in ThreadRecord /\ q.stack = <<>> /\ q.i = th[t].i /\ q.why = "unmount"
        /\ q.cap = th[t].cap /\ q.held = None
    BY <1>1, <1>2 DEF ThreadRecord
  <1> HIDE DEF q
  <1>4. ASSUME NEW at \in Labels
        PROVE  /\ Call(q, at, v) \in ThreadRecord /\ Alike(Call(q, at, v), q)
               /\ Call(q, at, v).stack = Only(at, v)
    BY <1>3, CallIs DEF Only, Over
  <1>5. CASE vn[v].xlock
    <2> DEFINE r == Call(q, "gone_slept", v)
    <2>1. vn' = [vn EXCEPT ![v].want = TRUE] /\ Does(t, Sleep(r, <<"v_flag", v>>))
      BY <1>1, <1>5 DEF Vgone
    <2>2. <<"v_flag", v>> \in Channels
      BY DEF Channels
    <2>3. r \in ThreadRecord /\ Alike(r, q) /\ r.stack = Only("gone_slept", v)
      BY <1>2, <1>4
    <2> HIDE DEF r
    <2>4. Turns(t, r) /\ Quiet
      BY <1>2, <2>1, <2>2, <2>3, DoesTurns, VnodeSteps
    <2>5. Sleep(r, <<"v_flag", v>>).cap = r.cap
      BY <2>3 DEF Sleep, ThreadRecord
    <2>6. th'[t].cap = th[t].cap
      BY <1>2, <1>3, <2>1, <2>3, <2>5 DEF Does, Alike
    <2>7. Begins(t, "unmount", th[t].i, Only("gone_slept", v))
      BY <1>2, <1>3, <2>3, <2>4 DEF Turns, Begins, Alike, Agree
    <2>8. QED BY <1>1, <2>4, <2>6, <2>7
  <1>6. CASE ~vn[v].xlock
    <2> DEFINE r == Call(q, a, v)
    <2>1. vn' = [vn EXCEPT ![v].xlock = TRUE] /\ Does(t, r)
      BY <1>1, <1>6 DEF Vgone
    <2>2. a \in {"clean", "gone_end"} /\ (a = "gone_end" <=> vn[v].type = "bad")
      OBVIOUS
    <2> HIDE DEF a
    <2>3. r \in ThreadRecord /\ Alike(r, q) /\ r.stack = Only(a, v)
      BY <1>2, <1>4, <2>2
    <2> HIDE DEF r
    <2>4. Turns(t, r) /\ LocksOnly(v) /\ th'[t] = r
      BY <1>2, <2>1, <2>3, DoesTurns, VnodeSteps
    <2>5. Begins(t, "unmount", th[t].i, Only(a, v)) /\ th'[t].cap = th[t].cap
      BY <1>2, <1>3, <2>3, <2>4 DEF Turns, Begins, Alike, Agree
    <2>6. QED BY <1>1, <1>6, <2>2, <2>4, <2>5
  <1>7. QED BY <1>5, <1>6

------------------------------------------------------------------------------
\* Types are kept.

Fits(t, s) == /\ s \in Seq(Frame) /\ IsFirst(s)
              /\ \A f \in Frames(s) : /\ f.at \notin NoVnode => f.v \in Vnodes
                                      /\ f.at \in LookLabels => th[t].i \in Inos /\ th[t].why \in Lookups
ThreadsFit == th' \in [Threads -> ThreadRecord] /\ \A u \in Threads : CallFits(th'[u])

LEMMA PushFits ==
  ASSUME NEW t, NEW s, Fits(t, s), NEW at \in Labels, NEW v \in Vnodes \union {None}, NEW flag \in BOOLEAN,
         at \notin NoVnode => v \in Vnodes,
         at \in LookLabels => s = <<>> /\ th[t].i \in Inos /\ th[t].why \in Lookups
  PROVE  Fits(t, Push(Fr(at, v, flag), s))
  <1> DEFINE f == Fr(at, v, flag)
  <1>1. f \in Frame /\ f.at = at /\ f.v = v
    <2>1. f \in Frame
      BY FrFacts
    <2>2. QED BY <2>1 DEF Fr
  <1> HIDE DEF f
  <1>2. s \in Seq(Frame) /\ IsFirst(s)
    BY DEF Fits
  <1>3. Push(f, s) \in Seq(Frame) /\ Frames(Push(f, s)) = {f} \union Frames(s)
    BY <1>1, <1>2, PushFrame
  <1>4. IsFirst(Push(f, s))
    BY <1>1, <1>2, FirstFacts
  <1>5. QED BY <1>1, <1>3, <1>4 DEF Fits, f

LEMMA OverFits ==
  ASSUME NEW t, NEW s, Fits(t, s), NEW at \in Labels \ LookLabels, NEW v \in Vnodes
  PROVE  Fits(t, Over(at, v, s))
  BY PushFits DEF Over, NoVnode, LookLabels

LEMMA BelowFits ==
  ASSUME Typed, NEW t \in Threads, InCall(t)
  PROVE  /\ Fits(t, Below(t)) /\ Fits(t, th[t].stack)
         /\ \A at \in Labels, v \in Vnodes \union {None}, flag \in BOOLEAN :
               /\ at \notin NoVnode => v \in Vnodes
               /\ at \in LookLabels => Top(t).at \in LookLabels
               => Fits(t, Push(Fr(at, v, flag), Below(t)))
         /\ \A at \in Labels :
               /\ at \notin NoVnode => Top(t).at \notin NoVnode
               /\ at \in LookLabels => Top(t).at \in LookLabels
               => Fits(t, Top1(t, at))
  <1>1. CallFits(th[t])
    BY DEF Typed
  <1>2. Fits(t, Below(t)) /\ Fits(t, th[t].stack)
    BY <1>1 DEF Fits, InCall, CallFits
  <1>3. ASSUME NEW at \in Labels, NEW v \in Vnodes \union {None}, NEW flag \in BOOLEAN,
               at \notin NoVnode => v \in Vnodes, at \in LookLabels => Top(t).at \in LookLabels
        PROVE  Fits(t, Push(Fr(at, v, flag), Below(t)))
    BY <1>2, <1>3, PushFits DEF InCall
  <1>4. ASSUME NEW at \in Labels, at \notin NoVnode => Top(t).at \notin NoVnode,
               at \in LookLabels => Top(t).at \in LookLabels
        PROVE  Fits(t, Top1(t, at))
    BY <1>3, <1>4 DEF InCall, Top1
  <1>5. QED BY <1>2, <1>3, <1>4

LEMMA MovesFit ==
  ASSUME Typed, NEW t \in Threads, NEW s, Moves(t, s), Fits(t, s)
  PROVE  ThreadsFit
  <1>1. ASSUME NEW u \in Threads, u # t PROVE CallFits(th'[u])
    <2>1. CallFits(th[u]) /\ Agree(th'[u], th[u])
      BY <1>1 DEF Typed, Moves
    <2>2. QED BY <2>1 DEF Agree, CallFits
  <1>2. CallFits(th'[t])
    <2>1. th'[t].stack = s /\ th'[t].held = None /\ IsFirst(s)
      BY DEF Moves, Fits
    <2>2. \A f \in Frames(s) : f.at \notin NoVnode => f.v \in Vnodes
      BY DEF Fits
    <2>3. \A f \in Frames(s) : f.at \in LookLabels => th'[t].i \in Inos /\ th'[t].why \in Lookups
      BY DEF Fits, Moves
    <2>4. QED BY <2>1, <2>2, <2>3 DEF CallFits
  <1>3. QED BY <1>1, <1>2 DEF ThreadsFit, Moves

LEMMA GoneFit ==
  ASSUME Typed, NEW t \in Threads, NEW v \in Vnodes, NEW s, Gone(t, v, s), Fits(t, s)
  PROVE  ThreadsFit /\ VnodesFit
  <1>1. {"clean", "gone_end"} \subseteq Labels \ LookLabels
    BY DEF Labels, LookLabels
  <1>2. CASE vn[v].xlock /\ Quiet /\ Moves(t, s)
    BY <1>2, MovesFit DEF Quiet
  <1>3. ASSUME NEW a \in {"clean", "gone_end"}, LocksOnly(v), Moves(t, Over(a, v, s))
        PROVE  ThreadsFit /\ VnodesFit
    <2>1. Fits(t, Over(a, v, s))
      BY <1>1, OverFits
    <2>2. QED BY <1>3, <2>1, MovesFit DEF LocksOnly
  <1>4. QED BY <1>2, <1>3 DEF Gone

LEMMA OthersFit ==
  ASSUME Typed, NEW t \in Threads
  PROVE  /\ Keeps(t) => ThreadsFit
         /\ \A why, i, at, v :
              /\ Begins(t, why, i, Only(at, v)) /\ at \in Labels /\ v \in Vnodes \union {None}
              /\ at \notin NoVnode => v \in Vnodes
              /\ at \in LookLabels => i \in Inos /\ why \in Lookups
              => ThreadsFit
  <1>1. ASSUME NEW u \in Threads, Agree(th'[u], th[u]) PROVE CallFits(th'[u])
    <2>1. CallFits(th[u]) /\ Agree(th'[u], th[u])
      BY <1>1 DEF Typed
    <2>2. QED BY <2>1 DEF Agree, CallFits
  <1>2. ASSUME Keeps(t) PROVE ThreadsFit
    <2> DEFINE s == th'[t].stack
    <2>1. s = <<>>
      BY <1>2 DEF Keeps
    <2>2. Frames(s) = {} /\ IsFirst(s)
      BY <2>1 DEF Frames, IsFirst
    <2>3. CallFits(th'[t])
      BY <2>1, <2>2 DEF CallFits
    <2>4. QED BY <1>1, <1>2, <2>3 DEF ThreadsFit, Keeps
  <1>3. ASSUME NEW why, NEW i, NEW at \in Labels, NEW v \in Vnodes \union {None},
               Begins(t, why, i, Only(at, v)), at \notin NoVnode => v \in Vnodes,
               at \in LookLabels => i \in Inos /\ why \in Lookups
        PROVE  ThreadsFit
    <2> DEFINE s == Only(at, v)
               f == Fr(at, v, FALSE)
    <2>1. IsFirst(s) /\ Frames(s) = {f} /\ f.at = at /\ f.v = v
      BY OnlyFacts DEF Fr
    <2>2. /\ th'[t].stack = s /\ th'[t].held = None /\ th'[t].i = i /\ th'[t].why = why
          /\ th' \in [Threads -> ThreadRecord] /\ \A u \in Threads \ {t} : Agree(th'[u], th[u])
      BY <1>3 DEF Begins
    <2> HIDE DEF s, f
    <2>3. CallFits(th'[t])
      BY <1>3, <2>1, <2>2 DEF CallFits
    <2>4. QED BY <1>1, <2>2, <2>3 DEF ThreadsFit
  <1>4. QED BY <1>2, <1>3

LEMMA InitTyped == Init => Typed
  <1> SUFFICES ASSUME Init PROVE Typed
    OBVIOUS
  <1>1. Unused \in VnodeRecord
    BY DEF Unused, VnodeRecord
  <1>2. Idle \in ThreadRecord /\ Idle.stack = <<>>
    <2>1. <<>> \in Seq(Frame)
      OBVIOUS
    <2>2. QED BY <2>1 DEF Idle, ThreadRecord, Channels
  <1>3. CallFits(Idle)
    <2> DEFINE s == Idle.stack
    <2>1. s = <<>>
      BY <1>2
    <2>2. Frames(s) = {} /\ IsFirst(s)
      BY <2>1 DEF Frames, IsFirst
    <2>3. QED BY <2>1, <2>2 DEF CallFits
  <1>4. QED BY <1>1, <1>2, <1>3 DEF Init, Typed, Panics

\* What is not about threads
DiskTyped == /\ free' \subseteq Vnodes
             /\ file' \in [Inos -> {"free", "reserved", "linked", "unlinked"}]
             /\ name' \in [Inos -> Vnodes \union {None}]
             /\ panic' \in Panics

LEMMA AllTyped == VnodesFit /\ DiskTyped /\ ThreadsFit => Typed'
  BY DEF VnodesFit, DiskTyped, ThreadsFit, Typed

LEMMA SameDisk == Typed /\ UNCHANGED <<free, file, name, panic>> => DiskTyped
  BY DEF Typed, DiskTyped

LEMMA DiskTypes ==
  ASSUME Typed
  PROVE  /\ free' = free => free' \subseteq Vnodes
         /\ \A v \in Vnodes : /\ free' = free \ {v} => free' \subseteq Vnodes
                              /\ free' = free \union {v} => free' \subseteq Vnodes
         /\ \A i, k : /\ file' = [file EXCEPT ![i] = k] /\ k \in {"free", "reserved", "linked", "unlinked"}
                       => file' \in [Inos -> {"free", "reserved", "linked", "unlinked"}]
         /\ \A i, v : /\ name' = [name EXCEPT ![i] = v] /\ v \in Vnodes \union {None}
                       => name' \in [Inos -> Vnodes \union {None}]
         /\ \A v : CachePurge(v) => name' \in [Inos -> Vnodes \union {None}]
         /\ file' = file => file' \in [Inos -> {"free", "reserved", "linked", "unlinked"}]
         /\ name' = name => name' \in [Inos -> Vnodes \union {None}]
         /\ panic' = panic => panic' \in Panics
  BY DEF Typed, CachePurge

LEMMA StepsTyped1 ==
  ASSUME Typed, NEW t \in Threads,
         \/ Rele(t) \/ Inactive(t) \/ Drop(t) \/ SleepAgain(t)
         \/ UfsInactive(t) \/ Stale(t) \/ Trunc(t) \/ Ifree(t) \/ Last(t) \/ End(t)
  PROVE  Typed'
  <1> DEFINE v == Top(t).v
  <1>1. /\ {"rele_slept", "inactive", "drop", "ufs_inactive", "stale", "trunc", "ifree", "last", "end"}
             \subseteq Labels \ (LookLabels \union NoVnode)
        /\ {"clean", "gone_end"} \subseteq Labels \ LookLabels
    BY DEF Labels, LookLabels, NoVnode
  <1>2. ASSUME InCall(t), Top(t).at \in Labels \ (LookLabels \union NoVnode)
        PROVE  /\ v \in Vnodes /\ Fits(t, Below(t)) /\ Fits(t, th[t].stack)
               /\ \A at \in Labels \ (LookLabels \union NoVnode) : Fits(t, Top1(t, at))
               /\ \A at \in Labels \ (LookLabels \union NoVnode), flag \in BOOLEAN :
                     Fits(t, Push(Fr(at, v, flag), Below(t)))
    BY <1>2, BelowFits DEF InCall
  <1>3. CASE Rele(t)
    <2>1. InCall(t) /\ Top(t).at \in Labels \ (LookLabels \union NoVnode)
      BY <1>3, ReleDoes DEF Labels, LookLabels, NoVnode
    <2>2. CASE vn[v].count > 1 /\ panic' = panic /\ CountsOnly(v, vn[v].count - 1) /\ Moves(t, Below(t))
      BY <1>2, <1>3, <2>1, <2>2, ReleDoes, MovesFit, AllTyped, SameDisk DEF CountsOnly
    <2>3. CASE panic' = "bad ref count" /\ UNCHANGED <<vn, th>>
      BY <1>3, <2>3, ReleDoes DEF Typed, Panics, CallFits, Fits
    <2>4. CASE panic' = panic /\ Quiet /\ Moves(t, Top1(t, "rele_slept"))
      BY <1>1, <1>2, <1>3, <2>1, <2>4, ReleDoes, MovesFit, AllTyped, SameDisk DEF Quiet
    <2>5. CASE panic' = panic /\ Quiet /\ Moves(t, Top1(t, "inactive"))
      BY <1>1, <1>2, <1>3, <2>1, <2>5, ReleDoes, MovesFit, AllTyped, SameDisk DEF Quiet
    <2>6. QED BY <1>3, <2>2, <2>3, <2>4, <2>5, ReleDoes
  <1>4. CASE Inactive(t)
    <2>1. InCall(t) /\ Top(t).at \in Labels \ (LookLabels \union NoVnode) /\ Quiet /\ DiskTyped
      BY <1>4, InactiveDoes, SameDisk DEF Labels, LookLabels, NoVnode
    <2>2. Fits(t, Over("ufs_inactive", v, Top1(t, "drop"))) /\ Fits(t, Top1(t, "drop"))
      BY <1>1, <1>2, <2>1, OverFits
    <2>3. QED BY <1>4, <2>1, <2>2, InactiveDoes, MovesFit, AllTyped DEF Quiet
  <1>5. CASE Drop(t)
    <2>1. InCall(t) /\ Top(t).at \in Labels \ (LookLabels \union NoVnode)
      BY <1>5, DropDoes DEF Labels, LookLabels, NoVnode
    <2>2. DiskTyped
      BY <1>2, <1>5, <2>1, DropDoes, DiskTypes DEF DiskTyped
    <2>3. QED BY <1>2, <1>5, <2>1, <2>2, DropDoes, MovesFit, AllTyped DEF CountsOnly
  <1>6. CASE SleepAgain(t)
    <2>1. InCall(t)
      BY <1>6, SleepAgainDoes
    <2>2. QED BY <1>6, <2>1, SleepAgainDoes, BelowFits, MovesFit, AllTyped, SameDisk DEF Quiet
  <1>7. CASE UfsInactive(t)
    <2>1. InCall(t) /\ Top(t).at \in Labels \ (LookLabels \union NoVnode) /\ DiskTyped
      BY <1>7, UfsInactiveDoes, SameDisk DEF Labels, LookLabels, NoVnode
    <2>2. CASE Gone(t, v, Below(t))
      BY <1>2, <2>1, <2>2, GoneFit, AllTyped
    <2>3. CASE Quiet /\ Moves(t, Below(t))
      BY <1>2, <2>1, <2>3, MovesFit, AllTyped DEF Quiet
    <2>4. ASSUME InactOnly(v, TRUE), NEW at \in {"stale", "trunc", "last"}, Moves(t, Top1(t, at))
          PROVE  Typed'
      BY <1>1, <1>2, <2>1, <2>4, MovesFit, AllTyped DEF InactOnly
    <2>5. QED BY <1>7, <2>2, <2>3, <2>4, UfsInactiveDoes
  <1>8. CASE Stale(t)
    <2>1. InCall(t) /\ Top(t).at \in Labels \ (LookLabels \union NoVnode) /\ DiskTyped
      BY <1>8, StaleDoes, SameDisk DEF Labels, LookLabels, NoVnode
    <2>2. QED BY <1>1, <1>2, <1>8, <2>1, StaleDoes, GoneFit, AllTyped
  <1>9. CASE Trunc(t)
    <2>1. InCall(t) /\ Top(t).at \in Labels \ (LookLabels \union NoVnode)
      BY <1>9, TruncDoes DEF Labels, LookLabels, NoVnode
    <2>2. DiskTyped
      BY <1>9, TruncDoes, DiskTypes DEF DiskTyped
    <2>3. QED BY <1>1, <1>2, <1>9, <2>1, <2>2, TruncDoes, MovesFit, AllTyped DEF Quiet
  <1>10. CASE Ifree(t)
    <2>1. InCall(t) /\ Top(t).at \in Labels \ (LookLabels \union NoVnode)
      BY <1>10, IfreeDoes DEF Labels, LookLabels, NoVnode
    <2>2. panic' \in Panics
      BY <1>10, IfreeDoes, DiskTypes DEF Panics
    <2>3. DiskTyped
      BY <1>10, <2>2, IfreeDoes, DiskTypes DEF DiskTyped
    <2>4. QED BY <1>1, <1>2, <1>10, <2>1, <2>3, IfreeDoes, MovesFit, AllTyped DEF Quiet
  <1>11. CASE Last(t)
    <2>1. InCall(t) /\ Top(t).at \in Labels \ (LookLabels \union NoVnode) /\ DiskTyped
      BY <1>11, LastDoes, SameDisk DEF Labels, LookLabels, NoVnode
    <2>2. ASSUME NEW a \in {"clean", "gone_end"}, Moves(t, Over(a, v, Below(t)))
          PROVE  ThreadsFit
      BY <1>1, <1>2, <2>1, <2>2, OverFits, MovesFit
    <2>3. QED BY <1>2, <1>11, <2>1, <2>2, LastDoes, MovesFit, AllTyped
  <1>12. CASE End(t)
    <2>1. InCall(t) /\ Top(t).at \in Labels \ (LookLabels \union NoVnode)
      BY <1>12, EndDoes DEF Labels, LookLabels, NoVnode
    <2>2. QED BY <1>2, <1>12, <2>1, EndDoes, MovesFit, AllTyped, SameDisk DEF InactOnly
  <1>13. QED BY <1>3, <1>4, <1>5, <1>6, <1>7, <1>8, <1>9, <1>10, <1>11, <1>12

LEMMA StepsTyped2 ==
  ASSUME Typed, NEW t \in Threads,
         Clean(t) \/ Dead(t) \/ Reclaim(t) \/ Purge(t) \/ GoneEnd(t) \/ GoneSlept(t)
  PROVE  Typed'
  <1> DEFINE v == Top(t).v
  <1>1. /\ {"dead", "reclaim", "purge", "gone_end", "ufs_inactive", "rele"}
             \subseteq Labels \ (LookLabels \union NoVnode)
    BY DEF Labels, LookLabels, NoVnode
  <1>2. ASSUME InCall(t), Top(t).at \in Labels \ (LookLabels \union NoVnode)
        PROVE  /\ v \in Vnodes /\ Fits(t, Below(t))
               /\ \A at \in Labels \ (LookLabels \union NoVnode) : Fits(t, Top1(t, at))
               /\ \A at \in Labels \ (LookLabels \union NoVnode), flag \in BOOLEAN :
                     Fits(t, Push(Fr(at, v, flag), Below(t)))
    BY <1>2, BelowFits DEF InCall
  <1>3. CASE Clean(t)
    <2>1. InCall(t) /\ Top(t).at \in Labels \ (LookLabels \union NoVnode) /\ DiskTyped
      BY <1>3, CleanDoes, SameDisk DEF Labels, LookLabels, NoVnode
    <2>2. PICK b \in BOOLEAN : Moves(t, Push(Fr("dead", v, b), Below(t))) /\ VnodesFit
      BY <1>3, CleanDoes DEF TakesRef, CountsOnly
    <2>3. QED BY <1>1, <1>2, <2>1, <2>2, MovesFit, AllTyped
  <1>4. CASE Dead(t)
    <2>1. InCall(t) /\ Top(t).at \in Labels \ (LookLabels \union NoVnode) /\ DiskTyped
      BY <1>4, DeadDoes, SameDisk DEF Labels, LookLabels, NoVnode
    <2>2. Fits(t, Over("ufs_inactive", v, Top1(t, "reclaim"))) /\ Fits(t, Top1(t, "reclaim"))
      BY <1>1, <1>2, <2>1, OverFits
    <2>3. QED BY <1>4, <2>1, <2>2, DeadDoes, MovesFit, AllTyped DEF BodiesOnly
  <1>5. CASE Reclaim(t)
    <2>1. InCall(t) /\ Top(t).at \in Labels \ (LookLabels \union NoVnode) /\ DiskTyped
      BY <1>5, ReclaimDoes, SameDisk DEF Labels, LookLabels, NoVnode
    <2>2. QED BY <1>1, <1>2, <1>5, <2>1, ReclaimDoes, MovesFit, AllTyped DEF BodiesOnly
  <1>6. CASE Purge(t)
    <2>1. InCall(t) /\ Top(t).at \in Labels \ (LookLabels \union NoVnode)
      BY <1>6, PurgeDoes DEF Labels, LookLabels, NoVnode
    <2>2. DiskTyped
      BY <1>6, PurgeDoes, DiskTypes DEF DiskTyped
    <2>3. Fits(t, Over("rele", v, Top1(t, "gone_end"))) /\ Fits(t, Top1(t, "gone_end"))
      BY <1>1, <1>2, <2>1, OverFits
    <2>4. QED BY <1>6, <2>2, <2>3, PurgeDoes, MovesFit, AllTyped DEF Quiet
  <1>7. CASE GoneEnd(t)
    <2>1. InCall(t) /\ Top(t).at \in Labels \ (LookLabels \union NoVnode) /\ DiskTyped
      BY <1>7, GoneEndDoes, SameDisk DEF Labels, LookLabels, NoVnode
    <2>2. QED BY <1>2, <1>7, <2>1, GoneEndDoes, MovesFit, AllTyped
  <1>8. CASE GoneSlept(t)
    <2>1. InCall(t) /\ Top(t).at \in Labels \ (LookLabels \union NoVnode) /\ DiskTyped
      BY <1>8, GoneSleptDoes, SameDisk DEF Labels, LookLabels, NoVnode
    <2>2. QED BY <1>2, <1>8, <2>1, GoneSleptDoes, MovesFit, AllTyped DEF Quiet
  <1>9. QED BY <1>3, <1>4, <1>5, <1>6, <1>7, <1>8

LEMMA StepsTyped3 ==
  ASSUME Typed, NEW t \in Threads,
         \/ Cached(t) \/ Check(t) \/ Scan(t) \/ Get(t) \/ Vget(t) \/ VgetSlept(t) \/ Got(t)
         \/ GotSlept(t) \/ Event(t)
  PROVE  Typed'
  <1> DEFINE v == Top(t).v
  <1>1. /\ {"scan", "check", "get", "vget", "vget_slept", "got", "got_slept", "event", "have", "new",
            "fail", "cached", "rele"} \subseteq Labels
        /\ "rele" \in Labels \ LookLabels
    BY DEF Labels, LookLabels
  <1>2. ASSUME InCall(t), Top(t).at \in LookLabels
        PROVE  /\ Fits(t, Below(t)) /\ Below(t) = <<>> /\ th[t].i \in Inos
               /\ \A at \in Labels : (at \notin NoVnode => v \in Vnodes) => Fits(t, Top1(t, at))
               /\ \A at \in Labels, w \in Vnodes \union {None}, flag \in BOOLEAN :
                     (at \notin NoVnode => w \in Vnodes) => Fits(t, Push(Fr(at, w, flag), Below(t)))
               /\ \A at \in Labels, w \in Vnodes :
                     (at \notin NoVnode => v \in Vnodes) => Fits(t, Over("rele", w, Top1(t, at)))
               /\ Top(t).at \notin NoVnode => v \in Vnodes
               /\ Top(t).flag \in BOOLEAN
    <2>1. /\ Fits(t, Below(t)) /\ Below(t) = <<>> /\ th[t].i \in Inos
          /\ Top(t).at \notin NoVnode => v \in Vnodes
          /\ v \in Vnodes \union {None} /\ Top(t).flag \in BOOLEAN
      BY <1>2, BelowFits DEF InCall
    <2>2. \A at \in Labels, w \in Vnodes \union {None}, flag \in BOOLEAN :
              (at \notin NoVnode => w \in Vnodes) => Fits(t, Push(Fr(at, w, flag), Below(t)))
      BY <1>2, BelowFits
    <2>3. \A at \in Labels : (at \notin NoVnode => v \in Vnodes) => Fits(t, Top1(t, at))
      BY <2>1, <2>2 DEF Top1
    <2>4. QED BY <1>1, <2>1, <2>2, <2>3, OverFits
  <1>3. /\ "scan" \in NoVnode /\ "get" \in NoVnode /\ "new" \in NoVnode /\ "fail" \in NoVnode
    BY DEF NoVnode
  <1>4. ASSUME NEW w \in Vnodes, Gets(w) PROVE VnodesFit /\ free' \subseteq Vnodes /\ panic' \in Panics
    BY <1>4 DEF Gets, CountsOnly, Typed, Panics
  <1>5. CASE Cached(t)
    <2>1. InCall(t) /\ Top(t).at \in LookLabels /\ v \in Vnodes
      BY <1>5, CachedDoes DEF LookLabels, InCall, NoVnode
    <2>2. Fits(t, Top1(t, "scan")) /\ Fits(t, Top1(t, "check"))
      BY <1>1, <1>2, <2>1
    <2>3. CASE Quiet /\ UNCHANGED <<free, panic>> /\ Moves(t, Top1(t, "scan"))
      BY <1>5, <2>2, <2>3, CachedDoes, MovesFit, AllTyped, SameDisk DEF Quiet
    <2>4. CASE Gets(v) /\ Moves(t, Top1(t, "check"))
      <3>1. DiskTyped /\ VnodesFit
        BY <1>4, <1>5, <2>1, <2>4, CachedDoes, DiskTypes DEF DiskTyped
      <3>2. QED BY <2>2, <2>4, <3>1, MovesFit, AllTyped
    <2>5. QED BY <1>5, <2>3, <2>4, CachedDoes
  <1>6. CASE Check(t)
    <2>1. InCall(t) /\ Top(t).at \in LookLabels /\ v \in Vnodes
      BY <1>6, CheckDoes DEF LookLabels, InCall, NoVnode
    <2>2. Fits(t, Push(Fr("got", v, TRUE), Below(t))) /\ Fits(t, Over("rele", v, Top1(t, "scan")))
      BY <1>1, <1>2, <2>1
    <2>3. QED BY <1>6, <2>2, CheckDoes, MovesFit, AllTyped, SameDisk DEF Quiet
  <1>7. CASE Scan(t)
    <2>1. InCall(t) /\ Top(t).at \in LookLabels
      BY <1>7, ScanDoes DEF LookLabels
    <2>2. Fits(t, Top1(t, "get")) /\ Fits(t, Below(t))
      BY <1>1, <1>2, <1>3, <2>1
    <2>3. QED BY <1>7, <2>2, ScanDoes, MovesFit, AllTyped, SameDisk DEF Quiet
  <1>8. CASE Get(t)
    <2>1. InCall(t) /\ Top(t).at \in LookLabels
      BY <1>8, GetDoes DEF LookLabels
    <2>2. ASSUME NEW w \in Vnodes
          PROVE  Fits(t, Push(Fr("vget", w, Top(t).flag), Below(t))) /\ Fits(t, Push(Fr("got", w, Top(t).flag), Below(t)))
      BY <1>1, <1>2, <2>1
    <2>3. Fits(t, Top1(t, "new"))
      BY <1>1, <1>2, <1>3, <2>1
    <2>4. ASSUME Quiet, UNCHANGED <<free, panic>>, NEW w \in Vnodes, Moves(t, Push(Fr("vget", w, Top(t).flag), Below(t)))
          PROVE  Typed'
      BY <1>8, <2>2, <2>4, GetDoes, MovesFit, AllTyped, SameDisk DEF Quiet
    <2>5. ASSUME NEW w \in InHash(th[t].i), Gets(w), Moves(t, Push(Fr("got", w, Top(t).flag), Below(t)))
          PROVE  Typed'
      <3>1. w \in Vnodes
        BY DEF InHash
      <3>2. DiskTyped /\ VnodesFit
        BY <1>4, <1>8, <2>5, <3>1, GetDoes, DiskTypes DEF DiskTyped
      <3>3. QED BY <2>2, <2>5, <3>1, <3>2, MovesFit, AllTyped
    <2>6. CASE Quiet /\ UNCHANGED <<free, panic>> /\ Moves(t, Top1(t, "new"))
      BY <1>8, <2>3, <2>6, GetDoes, MovesFit, AllTyped, SameDisk DEF Quiet
    <2>7. QED BY <1>8, <2>4, <2>5, <2>6, GetDoes
  <1>9. CASE Vget(t)
    <2>1. InCall(t) /\ Top(t).at \in LookLabels /\ v \in Vnodes
      BY <1>9, VgetDoes DEF LookLabels, InCall, NoVnode
    <2>2. Fits(t, Top1(t, "vget_slept")) /\ Fits(t, Over("rele", v, Top1(t, "get")))
      BY <1>1, <1>2, <2>1
    <2>3. CASE Quiet /\ UNCHANGED <<free, panic>> /\ Moves(t, Top1(t, "vget_slept"))
      BY <1>9, <2>2, <2>3, VgetDoes, MovesFit, AllTyped, SameDisk DEF Quiet
    <2>4. CASE Gets(v) /\ Moves(t, Over("rele", v, Top1(t, "get")))
      <3>1. DiskTyped /\ VnodesFit
        BY <1>4, <1>9, <2>1, <2>4, VgetDoes, DiskTypes DEF DiskTyped
      <3>2. QED BY <2>2, <2>4, <3>1, MovesFit, AllTyped
    <2>5. QED BY <1>9, <2>3, <2>4, VgetDoes
  <1>10. CASE VgetSlept(t)
    <2>1. InCall(t) /\ Top(t).at \in LookLabels
      BY <1>10, VgetSleptDoes DEF LookLabels
    <2>2. Fits(t, Top1(t, "get"))
      BY <1>1, <1>2, <1>3, <2>1
    <2>3. QED BY <1>10, <2>2, VgetSleptDoes, MovesFit, AllTyped, SameDisk DEF Quiet
  <1>11. CASE Got(t)
    <2>1. InCall(t) /\ Top(t).at \in LookLabels /\ v \in Vnodes
      BY <1>11, GotDoes DEF LookLabels, InCall, NoVnode
    <2>2. Fits(t, Top1(t, "got_slept")) /\ Fits(t, Top1(t, "event"))
      BY <1>1, <1>2, <2>1
    <2>3. QED BY <1>11, <2>2, GotDoes, MovesFit, AllTyped, SameDisk DEF Quiet
  <1>12. CASE GotSlept(t)
    <2>1. InCall(t) /\ Top(t).at \in LookLabels /\ v \in Vnodes
      BY <1>12, GotSleptDoes DEF LookLabels, InCall, NoVnode
    <2>2. ASSUME NEW at \in {"get", "scan", "cached"}, NEW w \in Vnodes \union {None}, at = "cached" => w \in Vnodes
          PROVE  Fits(t, Over("rele", v, Push(Fr(at, w, FALSE), Below(t))))
      <3>1. Fits(t, Push(Fr(at, w, FALSE), Below(t)))
        BY <1>1, <1>2, <1>3, <2>1, <2>2
      <3>2. QED BY <1>1, <2>1, <3>1, OverFits
    <2>3. ASSUME NEW s, th'[t].stack = s, Fits(t, s) PROVE ThreadsFit
      <3>1. ASSUME NEW u \in Threads, u # t PROVE CallFits(th'[u])
        <4>1. CallFits(th[u]) /\ Agree(th'[u], th[u])
          BY <1>12, <3>1, GotSleptDoes DEF Typed
        <4>2. QED BY <4>1 DEF Agree, CallFits
      <3>2. th'[t].held = None /\ th'[t].i = th[t].i /\ th'[t].why = th[t].why /\ th' \in [Threads -> ThreadRecord]
        BY <1>12, GotSleptDoes
      <3>3. CallFits(th'[t])
        BY <2>3, <3>2 DEF CallFits, Fits
      <3>4. QED BY <3>1, <3>2, <3>3 DEF ThreadsFit
    <2>4. ThreadsFit
      <3>1. ASSUME NEW at \in {"get", "scan"}, NEW w \in Vnodes \union {None},
                   th'[t].stack = Over("rele", v, Push(Fr(at, w, FALSE), Below(t)))
            PROVE  ThreadsFit
        BY <2>2, <2>3, <3>1
      <3>2. ASSUME NEW w \in Vnodes, th'[t].stack = Over("rele", v, Push(Fr("cached", w, FALSE), Below(t)))
            PROVE  ThreadsFit
        BY <2>2, <2>3, <3>2
      <3>3. QED BY <1>12, <3>1, <3>2, GotSleptDoes
    <2>5. QED BY <1>12, <2>4, GotSleptDoes, AllTyped, SameDisk DEF Quiet
  <1>13. CASE Event(t)
    <2>1. InCall(t) /\ Top(t).at \in LookLabels /\ v \in Vnodes
      BY <1>13, EventDoes DEF LookLabels, InCall, NoVnode
    <2>2. Fits(t, Over("rele", v, Top1(t, "fail"))) /\ Fits(t, Top1(t, "have"))
      BY <1>1, <1>2, <2>1
    <2>3. QED BY <1>13, <2>2, EventDoes, MovesFit, AllTyped, SameDisk DEF Quiet
  <1>14. QED BY <1>5, <1>6, <1>7, <1>8, <1>9, <1>10, <1>11, <1>12, <1>13

LEMMA StepsTyped4 ==
  ASSUME Typed, NEW t \in Threads,
         New(t) \/ VInit(t) \/ Enter(t) \/ Dup(t) \/ Fill(t) \/ Have(t) \/ Fail(t)
  PROVE  Typed'
  <1> DEFINE v == Top(t).v
             i == th[t].i
  <1>1. /\ {"scan", "get", "init", "enter", "fill", "dup", "have", "fail"} \subseteq Labels
        /\ {"rele", "clean", "gone_end"} \subseteq Labels \ LookLabels
        /\ {"scan", "get", "fail"} \subseteq NoVnode
    BY DEF Labels, LookLabels, NoVnode
  <1>2. ASSUME InCall(t), Top(t).at \in LookLabels
        PROVE  /\ Fits(t, Below(t)) /\ Below(t) = <<>> /\ th[t].i \in Inos
               /\ \A at \in Labels : (at \notin NoVnode => v \in Vnodes) => Fits(t, Top1(t, at))
               /\ \A at \in Labels, w \in Vnodes \union {None}, flag \in BOOLEAN :
                     (at \notin NoVnode => w \in Vnodes) => Fits(t, Push(Fr(at, w, flag), Below(t)))
               /\ \A at \in Labels, a \in {"rele", "clean", "gone_end"}, w \in Vnodes :
                     (at \notin NoVnode => v \in Vnodes) => Fits(t, Over(a, w, Top1(t, at)))
               /\ Top(t).at \notin NoVnode => v \in Vnodes
               /\ Top(t).flag \in BOOLEAN
    <2>1. /\ Fits(t, Below(t)) /\ Below(t) = <<>> /\ th[t].i \in Inos
          /\ Top(t).at \notin NoVnode => v \in Vnodes
          /\ v \in Vnodes \union {None} /\ Top(t).flag \in BOOLEAN
      BY <1>2, BelowFits DEF InCall
    <2>2. \A at \in Labels, w \in Vnodes \union {None}, flag \in BOOLEAN :
              (at \notin NoVnode => w \in Vnodes) => Fits(t, Push(Fr(at, w, flag), Below(t)))
      BY <1>2, BelowFits
    <2>3. \A at \in Labels : (at \notin NoVnode => v \in Vnodes) => Fits(t, Top1(t, at))
      BY <2>1, <2>2 DEF Top1
    <2>4. QED BY <1>1, <2>1, <2>2, <2>3, OverFits
  <1>3. CASE New(t)
    <2>1. InCall(t) /\ Top(t).at \in LookLabels
      BY <1>3, NewDoes DEF LookLabels
    <2>2. ASSUME NEW w \in free, panic' = IF vn[w].count # 0 THEN "free vnode isn't" ELSE panic,
                 free' = free \ {w}
          PROVE  w \in Vnodes /\ DiskTyped
      BY <1>3, <2>2, NewDoes, DiskTypes DEF DiskTyped, Typed, Panics
    <2>3. ASSUME NEW w \in Vnodes
          PROVE  LET s == Push(Fr("init", w, Top(t).flag), Below(t))
                 IN  Fits(t, s) /\ Fits(t, Over("clean", w, s))
      <3> DEFINE s == Push(Fr("init", w, Top(t).flag), Below(t))
      <3>1. Fits(t, s)
        BY <1>1, <1>2, <2>1
      <3> HIDE DEF s
      <3>2. Fits(t, Over("clean", w, s))
        BY <1>1, <3>1, OverFits
      <3>3. QED BY <3>1, <3>2 DEF s
    <2>5. CASE Quiet /\ UNCHANGED <<free, panic>> /\ Moves(t, Top1(t, "fail"))
      BY <1>1, <1>2, <1>3, <2>1, <2>5, NewDoes, MovesFit, AllTyped, SameDisk DEF Quiet
    <2>6. ASSUME NEW w \in free, panic' = IF vn[w].count # 0 THEN "free vnode isn't" ELSE panic,
                 free' = free \ {w},
                 NEW s, s = Push(Fr("init", w, Top(t).flag), Below(t)),
                 (Quiet /\ Moves(t, s)) \/ (LocksOnly(w) /\ Moves(t, Over("clean", w, s)))
          PROVE  Typed'
      <3>1. w \in Vnodes /\ DiskTyped
        BY <2>2, <2>6
      <3>2. Fits(t, s) /\ Fits(t, Over("clean", w, s))
        BY <2>3, <2>6, <3>1
      <3>3. CASE Quiet /\ Moves(t, s)
        BY <3>1, <3>2, <3>3, MovesFit, AllTyped DEF Quiet
      <3>4. CASE LocksOnly(w) /\ Moves(t, Over("clean", w, s))
        BY <3>1, <3>2, <3>4, MovesFit, AllTyped DEF LocksOnly
      <3>5. QED BY <2>6, <3>3, <3>4
    <2>7. ASSUME NEW w \in free, panic' = IF vn[w].count # 0 THEN "free vnode isn't" ELSE panic,
                 free' = free \ {w},
                 \/ vn[w].type = "bad" /\ Quiet /\ Moves(t, Push(Fr("init", w, Top(t).flag), Below(t)))
                 \/ /\ vn[w].type # "bad" /\ LocksOnly(w)
                    /\ Moves(t, Over("clean", w, Push(Fr("init", w, Top(t).flag), Below(t))))
          PROVE  Typed'
      <3> DEFINE s == Push(Fr("init", w, Top(t).flag), Below(t))
      <3>1. (Quiet /\ Moves(t, s)) \/ (LocksOnly(w) /\ Moves(t, Over("clean", w, s)))
        BY <2>7
      <3>2. s = Push(Fr("init", w, Top(t).flag), Below(t))
        OBVIOUS
      <3> HIDE DEF s
      <3>3. QED BY <2>6, <2>7, <3>1, <3>2
    <2>8. QED BY <1>3, <2>5, <2>7, NewDoes
  <1>4. CASE VInit(t)
    <2>1. InCall(t) /\ Top(t).at \in LookLabels /\ v \in Vnodes
      BY <1>4, VInitDoes DEF LookLabels, InCall, NoVnode
    <2>2. Fits(t, Top1(t, "enter"))
      BY <1>1, <1>2, <2>1
    <2>3. QED BY <1>4, <2>2, VInitDoes, MovesFit, AllTyped, SameDisk
  <1>5. CASE Enter(t)
    <2>1. InCall(t) /\ Top(t).at \in LookLabels /\ v \in Vnodes
      BY <1>5, EnterDoes DEF LookLabels, InCall, NoVnode
    <2>2. /\ Fits(t, Top1(t, "fill")) /\ Fits(t, Top1(t, "dup"))
          /\ \A a \in {"clean", "gone_end"} : Fits(t, Over(a, v, Top1(t, "dup")))
      BY <1>1, <1>2, <2>1
    <2>3. ASSUME NEW a \in {"clean", "gone_end"}, Moves(t, Over(a, v, Top1(t, "dup"))) PROVE ThreadsFit
      BY <2>2, <2>3, MovesFit
    <2>4. QED BY <1>5, <2>2, <2>3, EnterDoes, MovesFit, AllTyped, SameDisk
  <1>6. CASE Dup(t)
    <2>1. InCall(t) /\ Top(t).at \in LookLabels /\ v \in Vnodes
      BY <1>6, DupDoes DEF LookLabels, InCall, NoVnode
    <2>2. Fits(t, Over("rele", v, Top1(t, "get")))
      BY <1>1, <1>2, <2>1
    <2>3. QED BY <1>6, <2>2, DupDoes, MovesFit, AllTyped, SameDisk DEF Quiet
  <1>7. CASE Fill(t)
    <2>1. InCall(t) /\ Top(t).at \in LookLabels /\ v \in Vnodes
      BY <1>7, FillDoes DEF LookLabels, InCall, NoVnode
    <2>2. Fits(t, Over("rele", v, Top1(t, "fail"))) /\ Fits(t, Top1(t, "have"))
      BY <1>1, <1>2, <2>1
    <2>3. QED BY <1>7, <2>2, FillDoes, MovesFit, AllTyped, SameDisk DEF BodiesOnly
  <1>8. CASE Have(t)
    <2>1. InCall(t) /\ Top(t).at \in LookLabels /\ v \in Vnodes
      BY <1>8, HaveDoes DEF LookLabels, InCall, NoVnode
    <2>2. Fits(t, Over("rele", v, Top1(t, "scan"))) /\ Fits(t, Over("rele", v, Below(t)))
      BY <1>1, <1>2, <2>1, OverFits
    <2>3. CASE UNCHANGED <<file, name, panic>>
      <3>1. ThreadsFit /\ VnodesFit
        BY <1>8, <2>2, <2>3, HaveDoes, MovesFit, OthersFit DEF Quiet, BodiesOnly
      <3>2. QED BY <1>8, <2>3, <3>1, HaveDoes, AllTyped, SameDisk
    <2>4. ASSUME Quiet, UNCHANGED <<file, panic>>, Keeps(t),
                 name' = [name EXCEPT ![i] = IF file[i] = "linked" THEN v ELSE @]
          PROVE  Typed'
      <3>1. name' \in [Inos -> Vnodes \union {None}]
        BY <2>1, <2>4 DEF Typed
      <3>2. DiskTyped
        BY <1>8, <2>4, <3>1, HaveDoes, DiskTypes DEF DiskTyped
      <3>3. QED BY <2>4, <3>2, OthersFit, AllTyped DEF Quiet
    <2>5. ASSUME BodiesOnly, Keeps(t), panic' = IF ~ModeIsZero(i) THEN "dup alloc" ELSE panic,
                 file' = [file EXCEPT ![i] = "linked"], name' = [name EXCEPT ![i] = v]
          PROVE  Typed'
      <3>1. panic' \in Panics
        BY <2>5 DEF Typed, Panics
      <3>2. DiskTyped
        BY <1>8, <2>1, <2>5, <3>1, HaveDoes, DiskTypes DEF DiskTyped
      <3>3. QED BY <2>5, <3>2, OthersFit, AllTyped DEF BodiesOnly
    <2>6. QED BY <1>8, <2>3, <2>4, <2>5, HaveDoes
  <1>9. CASE Fail(t)
    <2>1. InCall(t) /\ Top(t).at \in LookLabels
      BY <1>9, FailDoes DEF LookLabels
    <2>2. DiskTyped
      BY <1>9, FailDoes, DiskTypes DEF DiskTyped
    <2>3. QED BY <1>2, <1>9, <2>1, <2>2, FailDoes, MovesFit, AllTyped DEF Quiet
  <1>10. QED BY <1>3, <1>4, <1>5, <1>6, <1>7, <1>8, <1>9

LEMMA StartTyped ==
  ASSUME Typed, NEW t \in Threads, Start(t)
  PROVE  Typed'
  <1>1. /\ {"scan", "get", "cached"} \subseteq Labels /\ {"scan", "get"} \subseteq NoVnode
        /\ {"rele", "gone_slept", "clean", "gone_end"} \subseteq Labels \ LookLabels
        /\ {"name", "handle", "create"} \subseteq Lookups
    BY DEF Labels, LookLabels, NoVnode, Lookups
  <1>2. ASSUME NEW w \in Vnodes, Gets(w) PROVE VnodesFit /\ free' \subseteq Vnodes /\ panic' \in Panics
    BY <1>2 DEF Gets, CountsOnly, Typed, Panics
  <1>3. ASSUME NEW w \in Vnodes, NEW at \in Labels \ LookLabels, NEW why, NEW i,
               Begins(t, why, i, Only(at, w))
        PROVE  ThreadsFit
    BY <1>3, OthersFit
  <1>4. CASE Close(t)
    BY <1>1, <1>3, <1>4, CloseDoes, AllTyped, SameDisk DEF Quiet
  <1>5. CASE Remove(t)
    <2>1. ThreadsFit
      <3>1. ASSUME NEW u \in Threads PROVE CallFits(th'[u])
        <4>1. CallFits(th[u]) /\ Agree(th'[u], th[u])
          BY <1>5, RemoveDoes DEF Typed
        <4>2. QED BY <4>1 DEF Agree, CallFits
      <3>2. QED BY <1>5, <3>1, RemoveDoes DEF ThreadsFit
    <2>2. DiskTyped
      BY <1>5, RemoveDoes, DiskTypes DEF DiskTyped
    <2>3. QED BY <1>5, <2>1, <2>2, RemoveDoes, AllTyped DEF Quiet
  <1>6. ASSUME NEW i \in Inos, LookUp(t, i) PROVE Typed'
    <2>1. ASSUME Begins(t, "name", i, Only("scan", None)) PROVE ThreadsFit
      BY <1>1, <2>1, OthersFit
    <2>2. ASSUME NEW w \in Vnodes, Begins(t, "name", i, Only("cached", w)) PROVE ThreadsFit
      BY <1>1, <2>2, OthersFit
    <2>3. QED BY <1>6, <2>1, <2>2, LookUpDoes, AllTyped, SameDisk DEF Quiet
  <1>7. ASSUME NEW i \in Inos, FhToVp(t, i) PROVE Typed'
    <2>1. ASSUME Begins(t, "handle", i, Only("get", None)) PROVE ThreadsFit
      BY <1>1, <2>1, OthersFit
    <2>2. QED BY <1>7, <2>1, FhToVpDoes, AllTyped, SameDisk DEF Quiet
  <1>8. ASSUME NEW i \in Inos, Create(t, i) PROVE Typed'
    <2>1. ASSUME Begins(t, "create", i, Only("get", None)) PROVE ThreadsFit
      BY <1>1, <2>1, OthersFit
    <2>2. DiskTyped
      BY <1>8, CreateDoes, DiskTypes DEF DiskTyped
    <2>3. QED BY <1>8, <2>1, <2>2, CreateDoes, AllTyped DEF Quiet
  <1>9. ASSUME NEW w \in Vnodes, Sync(t, w) PROVE Typed'
    <2>1. DiskTyped /\ VnodesFit
      BY <1>2, <1>9, SyncDoes, DiskTypes DEF DiskTyped
    <2>2. QED BY <1>1, <1>3, <1>9, <2>1, SyncDoes, AllTyped
  <1>10. ASSUME NEW w \in Vnodes, Vflush(t, w) PROVE Typed'
    <2>1. ASSUME NEW a \in {"clean", "gone_end"}, Begins(t, "unmount", th[t].i, Only(a, w)) PROVE ThreadsFit
      BY <1>1, <1>3, <2>1
    <2>2. QED BY <1>1, <1>3, <1>10, <2>1, VflushDoes, AllTyped, SameDisk DEF Quiet, LocksOnly
  <1>11. QED BY <1>4, <1>5, <1>6, <1>7, <1>8, <1>9, <1>10 DEF Start

LEMMA NextTyped == Typed /\ [Next]_vars => Typed'
  <1>1. ASSUME Typed, UNCHANGED vars PROVE Typed'
    BY <1>1 DEF vars, Typed, CallFits
  <1>2. ASSUME Typed, NEW t \in Threads, Step(t) PROVE Typed'
    BY <1>2, StepsTyped1, StepsTyped2, StepsTyped3, StepsTyped4 DEF Step
  <1>3. QED BY <1>1, <1>2, StartTyped DEF Next

\* Every value of a run has its type, and stacks are made as calls are.
THEOREM AlwaysTyped == Spec => []Typed
  BY InitTyped, NextTyped, PTL DEF Spec

------------------------------------------------------------------------------
\* References

OwnLabels == {"check", "got", "got_slept", "event", "have", "enter", "dup", "fill",
              "rele", "rele_slept", "inactive", "drop"}
OwnFrames(v)  == {f \in Frame : Owns(f, v)}
Holds(r, v)   == IF r.held # None /\ r.held.v = v THEN 1 ELSE 0
Refs(r, v)    == Count(r.stack, OwnFrames(v)) + Holds(r, v)

\* What a frame has of v: one with a flag, and one without.
Has(at, w, flag, v) == IF w = v /\ (at \in OwnLabels \/ (at \in {"dead", "reclaim", "purge"} /\ flag))
                       THEN 1 ELSE 0
Has0(at, w, v)      == IF w = v /\ at \in OwnLabels THEN 1 ELSE 0

LEMMA RefsAre ==
  ASSUME NEW t, NEW v
  PROVE  th[t].stack \in Seq(Frame) => RefsOf(t, v) = Refs(th[t], v)
  <1> SUFFICES ASSUME th[t].stack \in Seq(Frame) PROVE RefsOf(t, v) = Refs(th[t], v)
    OBVIOUS
  <1>1. \A k \in DOMAIN th[t].stack : th[t].stack[k] \in Frame
    OBVIOUS
  <1>2. {k \in DOMAIN th[t].stack : Owns(th[t].stack[k], v)} =
           {k \in DOMAIN th[t].stack : th[t].stack[k] \in OwnFrames(v)}
    BY <1>1 DEF OwnFrames
  <1>3. QED BY <1>2 DEF RefsOf, Refs, Count, Holds

LEMMA HasFacts ==
  ASSUME NEW s \in Seq(Frame), NEW v
  PROVE  /\ Count(s, OwnFrames(v)) \in Nat
         /\ \A at \in Labels, w \in Vnodes \union {None}, flag \in BOOLEAN :
              Count(Push(Fr(at, w, flag), s), OwnFrames(v)) = Count(s, OwnFrames(v)) + Has(at, w, flag, v)
         /\ \A at \in Labels, w \in Vnodes \union {None} :
              Count(Over(at, w, s), OwnFrames(v)) = Count(s, OwnFrames(v)) + Has0(at, w, v)
  <1>1. Count(s, OwnFrames(v)) \in Nat
    <2> DEFINE S == Frame
    <2> HIDE DEF S
    <2>1. s \in Seq(S)
      BY DEF S
    <2>2. QED BY <2>1, CountFacts
  <1>2. ASSUME NEW at \in Labels, NEW w \in Vnodes \union {None}, NEW flag \in BOOLEAN
        PROVE  Count(Push(Fr(at, w, flag), s), OwnFrames(v)) = Count(s, OwnFrames(v)) + Has(at, w, flag, v)
    <2> DEFINE f == Fr(at, w, flag)
    <2>1. f \in Frame
      BY FrFacts
    <2>2. f.at = at /\ f.v = w /\ f.flag = flag
      BY DEF Fr
    <2> HIDE DEF f
    <2>3. Count(Push(f, s), OwnFrames(v)) = Count(s, OwnFrames(v)) + IF f \in OwnFrames(v) THEN 1 ELSE 0
      BY <2>1, PushFrame
    <2>4. f \in OwnFrames(v) <=> (w = v /\ (at \in OwnLabels \/ (at \in {"dead", "reclaim", "purge"} /\ flag)))
      BY <2>1, <2>2 DEF OwnFrames, Owns, OwnLabels
    <2>5. QED BY <2>3, <2>4 DEF f, Has
  <1>3. ASSUME NEW at \in Labels, NEW w \in Vnodes \union {None}
        PROVE  Count(Over(at, w, s), OwnFrames(v)) = Count(s, OwnFrames(v)) + Has0(at, w, v)
    <2>1. Count(Over(at, w, s), OwnFrames(v)) = Count(s, OwnFrames(v)) + Has(at, w, FALSE, v)
      BY <1>2 DEF Over
    <2>2. Has(at, w, FALSE, v) = Has0(at, w, v)
      BY DEF Has, Has0
    <2>3. QED BY <2>1, <2>2
  <1>4. QED BY <1>1, <1>2, <1>3

\* What t has of v more than before
Gain(t, v) == Refs(th'[t], v) - Refs(th[t], v)

LEMMA RefsMove ==
  ASSUME Typed, Typed', NEW t \in Threads, InCall(t), NEW v \in Vnodes
  PROVE  LET o == Has(Top(t).at, Top(t).v, Top(t).flag, v)
         IN  /\ Moves(t, Below(t)) => Gain(t, v) = 0 - o
             /\ Moves(t, th[t].stack) => Gain(t, v) = 0
             /\ \A at \in Labels :
                  Moves(t, Top1(t, at)) => Gain(t, v) = Has(at, Top(t).v, Top(t).flag, v) - o
             /\ \A at \in Labels, w \in Vnodes \union {None}, flag \in BOOLEAN :
                  Moves(t, Push(Fr(at, w, flag), Below(t))) => Gain(t, v) = Has(at, w, flag, v) - o
             /\ \A a \in Labels, w \in Vnodes, at \in Labels :
                  Moves(t, Over(a, w, Top1(t, at)))
                     => Gain(t, v) = Has0(a, w, v) + Has(at, Top(t).v, Top(t).flag, v) - o
             /\ \A a \in Labels, w \in Vnodes, at \in Labels, x \in Vnodes \union {None}, flag \in BOOLEAN :
                  Moves(t, Over(a, w, Push(Fr(at, x, flag), Below(t))))
                     => Gain(t, v) = Has0(a, w, v) + Has(at, x, flag, v) - o
             /\ \A a \in Labels, w \in Vnodes :
                  Moves(t, Over(a, w, Below(t))) => Gain(t, v) = Has0(a, w, v) - o
  <1> DEFINE o == Has(Top(t).at, Top(t).v, Top(t).flag, v)
             n == Count(Below(t), OwnFrames(v))
  <1>1. /\ Below(t) \in Seq(Frame) /\ th[t].stack = Push(Top(t), Below(t)) /\ th[t].held = None
        /\ Top(t).at \in Labels /\ Top(t).flag \in BOOLEAN /\ Top(t).v \in Vnodes \union {None}
        /\ Top(t) = Fr(Top(t).at, Top(t).v, Top(t).flag)
    BY FrFacts DEF InCall
  <1>2. n \in Nat /\ Refs(th[t], v) = n + o
    <2>1. th[t].stack = Push(Fr(Top(t).at, Top(t).v, Top(t).flag), Below(t))
      BY <1>1
    <2>2. Count(th[t].stack, OwnFrames(v)) = n + o
      BY <1>1, <2>1, HasFacts
    <2>3. n \in Nat
      BY <1>1, HasFacts
    <2>4. o \in {0, 1}
      BY DEF Has
    <2> HIDE DEF o, n
    <2>5. QED BY <1>1, <2>2, <2>3, <2>4 DEF Refs, Holds
  <1>3. ASSUME NEW s, Moves(t, s)
        PROVE  Refs(th'[t], v) = Count(s, OwnFrames(v)) + 0
    BY <1>3 DEF Moves, Refs, Holds
  <1>4. ASSUME NEW at \in Labels, NEW w \in Vnodes \union {None}, NEW flag \in BOOLEAN
        PROVE  /\ Push(Fr(at, w, flag), Below(t)) \in Seq(Frame)
               /\ Count(Push(Fr(at, w, flag), Below(t)), OwnFrames(v)) = n + Has(at, w, flag, v)
    <2>1. Fr(at, w, flag) \in Frame
      BY FrFacts
    <2>2. Push(Fr(at, w, flag), Below(t)) \in Seq(Frame)
      BY <1>1, <2>1, PushFrame
    <2>3. Count(Push(Fr(at, w, flag), Below(t)), OwnFrames(v)) = n + Has(at, w, flag, v)
      <3>1. /\ Below(t) \in Seq(Frame) /\ at \in Labels /\ w \in Vnodes \union {None}
            /\ flag \in BOOLEAN
        BY <1>1
      <3>2. QED BY <3>1, HasFacts
    <2>4. QED BY <2>2, <2>3
  <1>5. /\ \A at, w, flag, x : Has(at, w, flag, x) \in {0, 1}
        /\ \A at, w, x : Has0(at, w, x) \in {0, 1}
    BY DEF Has, Has0
  <1>6. ASSUME NEW a \in Labels, NEW w \in Vnodes, NEW at \in Labels, NEW x \in Vnodes \union {None},
               NEW flag \in BOOLEAN
        PROVE  Count(Over(a, w, Push(Fr(at, x, flag), Below(t))), OwnFrames(v))
                   = n + Has(at, x, flag, v) + Has0(a, w, v)
    <2>1. /\ Push(Fr(at, x, flag), Below(t)) \in Seq(Frame)
          /\ Count(Push(Fr(at, x, flag), Below(t)), OwnFrames(v)) = n + Has(at, x, flag, v)
      BY <1>4
    <2>2. QED BY <2>1, HasFacts
  <1> HIDE DEF n, o
  <1>7. o \in {0, 1} /\ n \in Nat /\ n = Count(Below(t), OwnFrames(v))
    BY <1>2, <1>5 DEF o, n
  <1>8. Moves(t, Below(t)) => Gain(t, v) = 0 - o
    BY <1>2, <1>3, <1>7 DEF Gain
  <1>9. Moves(t, th[t].stack) => Gain(t, v) = 0
    <2>1. Refs(th[t], v) = Count(th[t].stack, OwnFrames(v)) + 0
      BY <1>1 DEF Refs, Holds
    <2>2. QED BY <1>2, <1>3, <1>7, <2>1 DEF Gain
  <1>10. ASSUME NEW at \in Labels, NEW w \in Vnodes \union {None}, NEW flag \in BOOLEAN,
                Moves(t, Push(Fr(at, w, flag), Below(t)))
         PROVE  Gain(t, v) = Has(at, w, flag, v) - o
    <2>1. Refs(th'[t], v) = n + Has(at, w, flag, v) + 0
      BY <1>3, <1>4, <1>10
    <2>2. QED BY <1>2, <1>5, <1>7, <2>1 DEF Gain
  <1>11. ASSUME NEW a \in Labels, NEW w \in Vnodes, NEW at \in Labels, NEW x \in Vnodes \union {None},
                NEW flag \in BOOLEAN, Moves(t, Over(a, w, Push(Fr(at, x, flag), Below(t))))
         PROVE  Gain(t, v) = Has0(a, w, v) + Has(at, x, flag, v) - o
    <2>1. Refs(th'[t], v) = n + Has(at, x, flag, v) + Has0(a, w, v) + 0
      BY <1>3, <1>6, <1>11
    <2>2. QED BY <1>2, <1>5, <1>7, <2>1 DEF Gain
  <1>12. ASSUME NEW a \in Labels, NEW w \in Vnodes, Moves(t, Over(a, w, Below(t)))
         PROVE  Gain(t, v) = Has0(a, w, v) - o
    <2>1. Count(Over(a, w, Below(t)), OwnFrames(v)) = n + Has0(a, w, v)
      BY <1>1, HasFacts DEF n
    <2>2. Refs(th'[t], v) = n + Has0(a, w, v) + 0
      BY <1>3, <1>12, <2>1
    <2>3. QED BY <1>2, <1>5, <1>7, <2>2 DEF Gain
  <1>13. \A at \in Labels :
           Moves(t, Top1(t, at)) => Gain(t, v) = Has(at, Top(t).v, Top(t).flag, v) - o
    BY <1>1, <1>10 DEF Top1
  <1>14. \A a \in Labels, w \in Vnodes, at \in Labels :
           Moves(t, Over(a, w, Top1(t, at)))
              => Gain(t, v) = Has0(a, w, v) + Has(at, Top(t).v, Top(t).flag, v) - o
    BY <1>1, <1>11 DEF Top1
  <1>15. QED BY <1>8, <1>9, <1>10, <1>11, <1>12, <1>13, <1>14 DEF o

\* The counts change as what t has.
Balanced(t) == \A x \in Vnodes : vn'[x].count - vn[x].count = Gain(t, x)

LEMMA GoneBalanced ==
  ASSUME Typed, Typed', NEW t \in Threads, InCall(t), NEW v \in Vnodes
  PROVE  /\ \A x \in Vnodes : Gone(t, v, Below(t)) =>
               Gain(t, x) = 0 - Has(Top(t).at, Top(t).v, Top(t).flag, x) /\ vn'[x].count = vn[x].count
         /\ \A at \in Labels, x \in Vnodes : Gone(t, v, Top1(t, at)) =>
               /\ Gain(t, x) = Has(at, Top(t).v, Top(t).flag, x) - Has(Top(t).at, Top(t).v, Top(t).flag, x)
               /\ vn'[x].count = vn[x].count
  <1>1. ASSUME NEW a \in {"clean", "gone_end"}, NEW x PROVE a \in Labels /\ Has0(a, v, x) = 0
    BY DEF Labels, Has0, OwnLabels
  <1>2. \A at, w, flag, x : Has(at, w, flag, x) \in {0, 1}
    BY DEF Has
  <1>3. ASSUME NEW x \in Vnodes, Gone(t, v, Below(t))
        PROVE  Gain(t, x) = 0 - Has(Top(t).at, Top(t).v, Top(t).flag, x) /\ vn'[x].count = vn[x].count
    <2>1. vn'[x].count = vn[x].count
      BY <1>3 DEF Gone, Quiet, LocksOnly, SameCounts
    <2>2. CASE Moves(t, Below(t))
      BY <2>1, <2>2, RefsMove
    <2>3. ASSUME NEW a \in {"clean", "gone_end"}, Moves(t, Over(a, v, Below(t)))
          PROVE  Gain(t, x) = 0 - Has(Top(t).at, Top(t).v, Top(t).flag, x)
      <3>1. Gain(t, x) = Has0(a, v, x) - Has(Top(t).at, Top(t).v, Top(t).flag, x)
        BY <1>1, <2>3, RefsMove
      <3>2. QED BY <1>1, <3>1
    <2>4. QED BY <1>3, <2>1, <2>2, <2>3 DEF Gone
  <1>4. ASSUME NEW at \in Labels, NEW x \in Vnodes, Gone(t, v, Top1(t, at))
        PROVE  /\ Gain(t, x) = Has(at, Top(t).v, Top(t).flag, x) - Has(Top(t).at, Top(t).v, Top(t).flag, x)
               /\ vn'[x].count = vn[x].count
    <2>1. vn'[x].count = vn[x].count
      BY <1>4 DEF Gone, Quiet, LocksOnly, SameCounts
    <2>2. CASE Moves(t, Top1(t, at))
      BY <2>1, <2>2, RefsMove
    <2>3. ASSUME NEW a \in {"clean", "gone_end"}, Moves(t, Over(a, v, Top1(t, at)))
          PROVE  Gain(t, x) = Has(at, Top(t).v, Top(t).flag, x) - Has(Top(t).at, Top(t).v, Top(t).flag, x)
      <3>1. Gain(t, x) = Has0(a, v, x) + Has(at, Top(t).v, Top(t).flag, x) - Has(Top(t).at, Top(t).v, Top(t).flag, x)
        BY <1>1, <2>3, RefsMove
      <3>2. QED BY <1>1, <1>2, <3>1
    <2>4. QED BY <1>4, <2>1, <2>2, <2>3 DEF Gone
  <1>5. QED BY <1>3, <1>4

One(v, x) == IF v = x THEN 1 ELSE 0
Flagged   == {"dead", "reclaim", "purge"}

LEMMA HasIs ==
  /\ \A v, x : One(v, x) \in {0, 1}
  /\ \A at \in OwnLabels : \A v, f, x : Has(at, v, f, x) = One(v, x)
  /\ \A at \in OwnLabels : \A v, x : Has0(at, v, x) = One(v, x)
  /\ \A at \in Labels \ (OwnLabels \union Flagged) : \A v, f, x : Has(at, v, f, x) = 0
  /\ \A at \in Labels \ OwnLabels : \A v, x : Has0(at, v, x) = 0
  /\ \A at \in Flagged : \A v, f, x : Has(at, v, f, x) = IF f THEN One(v, x) ELSE 0
  BY DEF One, Has, Has0, Flagged, OwnLabels

LEMMA BalanceIs ==
  ASSUME Typed, Typed', NEW t \in Threads
  PROVE  /\ SameCounts /\ (\A x \in Vnodes : Gain(t, x) = 0) => Balanced(t)
         /\ \A v \in Vnodes : /\ CountIs(v, vn[v].count + 1) /\ \A x \in Vnodes : Gain(t, x) = One(v, x)
                              => Balanced(t)
         /\ \A v \in Vnodes : /\ CountIs(v, vn[v].count - 1) /\ \A x \in Vnodes : Gain(t, x) = 0 - One(v, x)
                              => Balanced(t)
  <1>1. \A x \in Vnodes : vn[x].count \in Int /\ vn'[x].count \in Int
    BY DEF Typed, VnodeRecord
  <1>2. QED BY <1>1 DEF Balanced, SameCounts, CountIs, One

OthersAgree(t) == \A u \in Threads \ {t} : Agree(th'[u], th[u])

LEMMA LabelsAre ==
  /\ {"rele", "rele_slept", "inactive", "drop", "check", "got", "got_slept", "event", "have",
      "enter", "dup", "fill"} \subseteq OwnLabels
  /\ {"ufs_inactive", "stale", "trunc", "ifree", "last", "end", "clean", "gone_end", "gone_slept",
      "cached", "scan", "get", "vget", "vget_slept", "new", "init", "fail"}
        \subseteq Labels \ (OwnLabels \union Flagged)
  /\ OwnLabels \subseteq Labels /\ Flagged \subseteq Labels \ OwnLabels
  /\ (Labels \ (OwnLabels \union Flagged)) \subseteq Labels \ OwnLabels
  BY DEF Labels, OwnLabels, Flagged


Plain == Labels \ (OwnLabels \union Flagged)

\* Which counts go with which moves.
LEMMA MovesBalance ==
  ASSUME Typed, Typed', NEW t \in Threads, InCall(t), NEW v, v = Top(t).v
  PROVE  /\ \A s : Moves(t, s) => OthersAgree(t)
         /\ SameCounts /\ Top(t).at \in Plain =>
              /\ Moves(t, Below(t)) => Balanced(t)
              /\ \A at \in Plain, x \in Vnodes \union {None}, flag \in BOOLEAN :
                   Moves(t, Push(Fr(at, x, flag), Below(t))) => Balanced(t)
              /\ \A at \in Plain : Moves(t, Top1(t, at)) => Balanced(t)
              /\ \A at \in Plain, x \in Vnodes, flag \in BOOLEAN, a \in Plain, w \in Vnodes :
                   Moves(t, Over(a, w, Push(Fr(at, x, flag), Below(t)))) => Balanced(t)
         /\ Top(t).at \in Plain => \A at \in OwnLabels, w \in Vnodes, flag \in BOOLEAN :
              CountIs(w, vn[w].count + 1) /\ Moves(t, Push(Fr(at, w, flag), Below(t))) => Balanced(t)
         /\ Top(t).at \in Plain /\ v \in Vnodes => \A at \in OwnLabels :
              CountIs(v, vn[v].count + 1) /\ Moves(t, Top1(t, at)) => Balanced(t)
         /\ Top(t).at \in Plain => \A at \in Plain, w \in Vnodes :
              CountIs(w, vn[w].count + 1) /\ Moves(t, Over("rele", w, Top1(t, at))) => Balanced(t)
         /\ SameCounts /\ Top(t).at \in OwnLabels /\ v \in Vnodes =>
              /\ \A at \in OwnLabels : Moves(t, Top1(t, at)) => Balanced(t)
              /\ \A at \in OwnLabels, flag \in BOOLEAN : Moves(t, Push(Fr(at, v, flag), Below(t))) => Balanced(t)
              /\ \A at \in OwnLabels, a \in Plain : Moves(t, Over(a, v, Top1(t, at))) => Balanced(t)
              /\ \A at \in Plain : Moves(t, Over("rele", v, Top1(t, at))) => Balanced(t)
              /\ Moves(t, Over("rele", v, Below(t))) => Balanced(t)
  <1> DEFINE f == Top(t).flag
             at0 == Top(t).at
  <1>1. /\ at0 \in Labels /\ f \in BOOLEAN /\ v \in Vnodes \union {None}
        /\ \A at \in Plain : at \in Labels /\ at \in Labels \ OwnLabels
        /\ \A at \in OwnLabels : at \in Labels
        /\ "rele" \in OwnLabels
    BY LabelsAre DEF InCall, Plain
  <1>2. /\ \A x \in Vnodes : Has(at0, v, f, x) = IF at0 \in OwnLabels THEN One(v, x)
                                                ELSE IF at0 \in Plain THEN 0 ELSE Has(at0, v, f, x)
        /\ \A at \in Plain : \A w, flag, x : Has(at, w, flag, x) = 0 /\ Has0(at, w, x) = 0
        /\ \A at \in OwnLabels : \A w, flag, x : Has(at, w, flag, x) = One(w, x) /\ Has0(at, w, x) = One(w, x)
        /\ \A w, x : One(w, x) \in {0, 1}
    BY <1>1, HasIs DEF Plain
  <1> HIDE DEF at0, f
  <1>3. \A s : Moves(t, s) => OthersAgree(t)
    BY DEF Moves, OthersAgree
  <1>4. ASSUME SameCounts, at0 \in Plain
        PROVE  /\ Moves(t, Below(t)) => Balanced(t)
               /\ \A at \in Plain, x \in Vnodes \union {None}, flag \in BOOLEAN :
                    Moves(t, Push(Fr(at, x, flag), Below(t))) => Balanced(t)
               /\ \A at \in Plain : Moves(t, Top1(t, at)) => Balanced(t)
               /\ \A at \in Plain, x \in Vnodes, flag \in BOOLEAN, a \in Plain, w \in Vnodes :
                    Moves(t, Over(a, w, Push(Fr(at, x, flag), Below(t)))) => Balanced(t)
    <2>1. \A x \in Vnodes : Has(at0, v, f, x) = 0
      BY <1>1, <1>2, <1>4 DEF Plain
    <2>2. ASSUME Moves(t, Below(t)) PROVE \A x \in Vnodes : Gain(t, x) = 0
      BY <2>1, <2>2, RefsMove DEF at0, f
    <2>3. ASSUME NEW at \in Plain, NEW w \in Vnodes \union {None}, NEW flag \in BOOLEAN,
                 Moves(t, Push(Fr(at, w, flag), Below(t)))
          PROVE  \A x \in Vnodes : Gain(t, x) = 0
      <3>1. \A x \in Vnodes : Gain(t, x) = Has(at, w, flag, x) - Has(at0, v, f, x)
        <4>1. at \in Labels
          BY <1>1
        <4>2. QED BY <2>3, <4>1, RefsMove DEF at0, f
      <3>2. QED BY <1>2, <2>1, <3>1
    <2>4. ASSUME NEW at \in Plain, Moves(t, Top1(t, at)) PROVE \A x \in Vnodes : Gain(t, x) = 0
      BY <1>1, <2>3, <2>4 DEF Top1, f
    <2>5. ASSUME NEW at \in Plain, NEW y \in Vnodes, NEW flag \in BOOLEAN, NEW a \in Plain, NEW w \in Vnodes,
                 Moves(t, Over(a, w, Push(Fr(at, y, flag), Below(t))))
          PROVE  \A x \in Vnodes : Gain(t, x) = 0
      <3>1. \A x \in Vnodes : Gain(t, x) = Has0(a, w, x) + Has(at, y, flag, x) - Has(at0, v, f, x)
        BY <1>1, <2>5, RefsMove DEF at0, f
      <3>2. QED BY <1>2, <2>1, <3>1
    <2>6. QED BY <1>4, <2>2, <2>3, <2>4, <2>5, BalanceIs
  <1>5. ASSUME at0 \in Plain, NEW at \in OwnLabels, NEW w \in Vnodes, NEW flag \in BOOLEAN,
               CountIs(w, vn[w].count + 1), Moves(t, Push(Fr(at, w, flag), Below(t)))
        PROVE  Balanced(t)
    <2>1. \A x \in Vnodes : Gain(t, x) = Has(at, w, flag, x) - Has(at0, v, f, x)
      BY <1>1, <1>5, RefsMove DEF at0, f
    <2>2. \A x \in Vnodes : Has(at, w, flag, x) = One(w, x) /\ Has(at0, v, f, x) = 0 /\ One(w, x) \in {0, 1}
      BY <1>1, <1>2, <1>5 DEF Plain
    <2>3. QED BY <1>5, <2>1, <2>2, BalanceIs
  <1>6. ASSUME at0 \in Plain, NEW at \in OwnLabels, v \in Vnodes,
               CountIs(v, vn[v].count + 1), Moves(t, Top1(t, at))
        PROVE  Balanced(t)
    BY <1>1, <1>5, <1>6 DEF Top1, f
  <1>7. ASSUME at0 \in Plain, NEW at \in Plain, NEW w \in Vnodes,
               CountIs(w, vn[w].count + 1), Moves(t, Over("rele", w, Top1(t, at)))
        PROVE  Balanced(t)
    <2>1. \A x \in Vnodes : Gain(t, x) = Has0("rele", w, x) + Has(at, v, f, x) - Has(at0, v, f, x)
      BY <1>1, <1>7, RefsMove DEF at0, f
    <2>2. \A x \in Vnodes : Has0("rele", w, x) = One(w, x) /\ Has(at, v, f, x) = 0
                            /\ Has(at0, v, f, x) = 0 /\ One(w, x) \in {0, 1}
      BY <1>1, <1>2, <1>7 DEF Plain
    <2>3. QED BY <1>7, <2>1, <2>2, BalanceIs
  <1>8. ASSUME SameCounts, at0 \in OwnLabels, v \in Vnodes
        PROVE  /\ \A at \in OwnLabels : Moves(t, Top1(t, at)) => Balanced(t)
               /\ \A at \in OwnLabels, flag \in BOOLEAN : Moves(t, Push(Fr(at, v, flag), Below(t))) => Balanced(t)
               /\ \A at \in OwnLabels, a \in Plain : Moves(t, Over(a, v, Top1(t, at))) => Balanced(t)
               /\ \A at \in Plain : Moves(t, Over("rele", v, Top1(t, at))) => Balanced(t)
               /\ Moves(t, Over("rele", v, Below(t))) => Balanced(t)
    <2>1. \A x \in Vnodes : Has(at0, v, f, x) = One(v, x)
      BY <1>2, <1>8
    <2>2. ASSUME NEW at \in OwnLabels, NEW flag \in BOOLEAN, Moves(t, Push(Fr(at, v, flag), Below(t)))
          PROVE  \A x \in Vnodes : Gain(t, x) = 0
      <3>1. \A x \in Vnodes : Gain(t, x) = Has(at, v, flag, x) - Has(at0, v, f, x)
        <4>1. at \in Labels /\ v \in Vnodes \union {None} /\ v = Top(t).v
          BY <1>1
        <4>2. QED BY <2>2, <4>1, RefsMove DEF at0, f
      <3>2. QED BY <1>2, <2>1, <3>1
    <2>3. ASSUME NEW at \in OwnLabels, Moves(t, Top1(t, at)) PROVE \A x \in Vnodes : Gain(t, x) = 0
      BY <1>1, <2>2, <2>3 DEF Top1, f
    <2>4. ASSUME NEW at \in OwnLabels, NEW a \in Plain, Moves(t, Over(a, v, Top1(t, at)))
          PROVE  \A x \in Vnodes : Gain(t, x) = 0
      <3>1. \A x \in Vnodes : Gain(t, x) = Has0(a, v, x) + Has(at, v, f, x) - Has(at0, v, f, x)
        BY <1>1, <1>8, <2>4, RefsMove DEF at0, f
      <3>2. QED BY <1>2, <2>1, <3>1
    <2>5. ASSUME NEW at \in Plain, Moves(t, Over("rele", v, Top1(t, at)))
          PROVE  \A x \in Vnodes : Gain(t, x) = 0
      <3>1. \A x \in Vnodes : Gain(t, x) = Has0("rele", v, x) + Has(at, v, f, x) - Has(at0, v, f, x)
        BY <1>1, <1>8, <2>5, RefsMove DEF at0, f
      <3>2. \A x \in Vnodes : Has0("rele", v, x) = One(v, x) /\ Has(at, v, f, x) = 0
        BY <1>1, <1>2
      <3>3. QED BY <1>2, <2>1, <3>1, <3>2
    <2>6. ASSUME Moves(t, Over("rele", v, Below(t))) PROVE \A x \in Vnodes : Gain(t, x) = 0
      <3>1. \A x \in Vnodes : Gain(t, x) = Has0("rele", v, x) - Has(at0, v, f, x)
        BY <1>1, <1>8, <2>6, RefsMove DEF at0, f
      <3>2. \A x \in Vnodes : Has0("rele", v, x) = One(v, x)
        BY <1>1, <1>2
      <3>3. QED BY <1>2, <2>1, <3>1, <3>2
    <2>7. QED BY <1>8, <2>2, <2>3, <2>4, <2>5, <2>6, BalanceIs
  <1>9. QED BY <1>3, <1>4, <1>5, <1>6, <1>7, <1>8 DEF at0

\* A step of vrele, of ufs_inactive and of the end of an inactivation.
LEMMA StepsBalance1 ==
  ASSUME Typed, Typed', NEW t \in Threads,
         \/ Rele(t) \/ Inactive(t) \/ Drop(t) \/ SleepAgain(t)
         \/ UfsInactive(t) \/ Stale(t) \/ Trunc(t) \/ Ifree(t) \/ Last(t) \/ End(t)
  PROVE  Balanced(t) /\ OthersAgree(t)
  <1> DEFINE v == Top(t).v
             f == Top(t).flag
  <1>0. {"ufs_inactive", "stale", "trunc", "ifree", "last", "end", "clean", "gone_end"} \subseteq Plain
        /\ {"rele", "rele_slept", "inactive", "drop"} \subseteq OwnLabels
        /\ \A at \in Plain : at \in Labels
    BY LabelsAre DEF Plain
  <1> HIDE DEF v, f
  <1>1. \A s : Moves(t, s) => OthersAgree(t)
    BY DEF Moves, OthersAgree
  <1>2. \A s : Gone(t, v, s) => OthersAgree(t) /\ SameCounts
    BY <1>1 DEF Gone, Quiet, LocksOnly
  <1>3. CASE Rele(t)
    <2>1. InCall(t) /\ Top(t).at = "rele" /\ v \in Vnodes /\ Top(t).at \in OwnLabels
      BY <1>0, <1>3, ReleDoes DEF InCall, NoVnode, v
    <2>2. CASE CountsOnly(v, vn[v].count - 1) /\ Moves(t, Below(t))
      <3>1. \A x \in Vnodes : Gain(t, x) = 0 - Has(Top(t).at, v, f, x) /\ Has(Top(t).at, v, f, x) = One(v, x)
        BY <2>1, <2>2, RefsMove, HasIs DEF v, f
      <3>2. QED BY <1>1, <2>1, <2>2, <3>1, BalanceIs DEF CountsOnly
    <2>3. ASSUME NEW at \in {"rele_slept", "inactive"}, Quiet, Moves(t, Top1(t, at))
          PROVE  Balanced(t) /\ OthersAgree(t)
      BY <1>0, <1>1, <2>1, <2>3, MovesBalance DEF v, Quiet
    <2>4. CASE UNCHANGED <<vn, th>>
      <3>1. th[t].stack \in Seq(Frame)
        BY DEF Typed, ThreadRecord
      <3>2. ASSUME NEW x \in Vnodes PROVE Refs(th[t], x) \in Int
        <4>1. Count(th[t].stack, OwnFrames(x)) \in Nat /\ Holds(th[t], x) \in {0, 1}
          BY <3>1, HasFacts DEF Holds
        <4>2. QED BY <4>1 DEF Refs
      <3>3. \A x \in Vnodes : Gain(t, x) = 0
        BY <2>4, <3>2 DEF Gain
      <3>4. SameCounts /\ OthersAgree(t)
        BY <2>4 DEF SameCounts, OthersAgree, Agree
      <3>5. QED BY <3>3, <3>4, BalanceIs
    <2>5. QED BY <1>3, <2>2, <2>3, <2>4, ReleDoes DEF v
  <1>4. CASE Inactive(t)
    <2>1. InCall(t) /\ Top(t).at \in OwnLabels /\ v \in Vnodes /\ Quiet
      BY <1>0, <1>4, InactiveDoes DEF InCall, NoVnode, v
    <2>2. QED BY <1>0, <1>1, <1>4, <2>1, InactiveDoes, MovesBalance DEF v, Quiet
  <1>5. CASE Drop(t)
    <2>1. InCall(t) /\ Top(t).at \in OwnLabels /\ v \in Vnodes
          /\ CountsOnly(v, vn[v].count - 1) /\ Moves(t, Below(t))
      BY <1>0, <1>5, DropDoes DEF InCall, NoVnode, v
    <2>2. \A x \in Vnodes : Gain(t, x) = 0 - Has(Top(t).at, v, f, x) /\ Has(Top(t).at, v, f, x) = One(v, x)
      BY <2>1, RefsMove, HasIs DEF v, f
    <2>3. QED BY <1>1, <2>1, <2>2, BalanceIs DEF CountsOnly
  <1>6. CASE SleepAgain(t)
    <2>1. \A x \in Vnodes : Gain(t, x) = 0
      BY <1>6, SleepAgainDoes, RefsMove
    <2>2. QED BY <1>1, <1>6, <2>1, SleepAgainDoes, BalanceIs DEF Quiet
  <1>7. CASE UfsInactive(t)
    <2>1. InCall(t) /\ Top(t).at = "ufs_inactive" /\ v \in Vnodes /\ Top(t).at \in Plain
      BY <1>0, <1>7, UfsInactiveDoes DEF InCall, NoVnode, v
    <2>2. CASE Gone(t, v, Below(t))
      <3>1. \A x \in Vnodes : Gain(t, x) = 0 - Has(Top(t).at, v, f, x) /\ Has(Top(t).at, v, f, x) = 0
        BY <2>1, <2>2, GoneBalanced, HasIs DEF v, f, Plain
      <3>2. QED BY <1>2, <2>2, <3>1, BalanceIs
    <2>3. CASE Quiet /\ Moves(t, Below(t))
      BY <1>1, <2>1, <2>3, MovesBalance DEF v, Quiet
    <2>4. ASSUME InactOnly(v, TRUE), NEW at \in {"stale", "trunc", "last"}, Moves(t, Top1(t, at))
          PROVE  Balanced(t) /\ OthersAgree(t)
      BY <1>0, <1>1, <2>1, <2>4, MovesBalance DEF v, InactOnly
    <2>5. QED BY <1>7, <2>2, <2>3, <2>4, UfsInactiveDoes DEF v
  <1>8. CASE Stale(t)
    <2>1. InCall(t) /\ Top(t).at \in Plain /\ Gone(t, v, Top1(t, "end"))
      BY <1>0, <1>8, StaleDoes DEF v
    <2>2. v \in Vnodes
      BY <1>8, StaleDoes DEF InCall, NoVnode, v
    <2>3. \A x \in Vnodes : Has(Top(t).at, v, f, x) = 0 /\ Has("end", v, f, x) = 0
      BY <1>0, <2>1, HasIs DEF Plain
    <2>4. "end" \in Labels
      BY <1>0
    <2>5. \A x \in Vnodes : Gain(t, x) = Has("end", v, f, x) - Has(Top(t).at, v, f, x)
      BY <2>1, <2>2, <2>4, GoneBalanced DEF v, f
    <2>6. QED BY <1>2, <2>1, <2>3, <2>5, BalanceIs
  <1>9. CASE Trunc(t)
    BY <1>0, <1>1, <1>9, TruncDoes, MovesBalance DEF Quiet
  <1>10. CASE Ifree(t)
    <2>1. InCall(t) /\ Top(t).at \in Plain /\ Quiet /\ v \in Vnodes \union {None}
      BY <1>0, <1>10, IfreeDoes DEF InCall, v
    <2>2. PICK b \in BOOLEAN : Moves(t, Push(Fr("last", v, b), Below(t)))
      BY <1>10, IfreeDoes DEF v
    <2>3. QED BY <1>0, <1>1, <2>1, <2>2, MovesBalance DEF v, Quiet
  <1>11. CASE Last(t)
    <2>1. InCall(t) /\ Top(t).at \in Plain /\ SameCounts /\ v \in Vnodes
      BY <1>0, <1>11, LastDoes DEF InCall, NoVnode, v
    <2>2. CASE Moves(t, Below(t))
      BY <1>1, <2>1, <2>2, MovesBalance DEF v
    <2>3. ASSUME NEW a \in {"clean", "gone_end"}, Moves(t, Over(a, v, Below(t)))
          PROVE  Balanced(t) /\ OthersAgree(t)
      <3>1. a \in Labels /\ \A x \in Vnodes : Has0(a, v, x) = 0 /\ Has(Top(t).at, v, f, x) = 0
        BY <1>0, <2>1, HasIs DEF Plain
      <3>2. \A x \in Vnodes : Gain(t, x) = Has0(a, v, x) - Has(Top(t).at, v, f, x)
        BY <2>1, <2>3, <3>1, RefsMove DEF v, f
      <3>3. QED BY <1>1, <2>1, <2>3, <3>1, <3>2, BalanceIs
    <2>4. QED BY <1>11, <2>2, <2>3, LastDoes DEF v
  <1>12. CASE End(t)
    BY <1>0, <1>1, <1>12, EndDoes, MovesBalance DEF InactOnly
  <1>13. QED BY <1>3, <1>4, <1>5, <1>6, <1>7, <1>8, <1>9, <1>10, <1>11, <1>12

\* A step of vgone and vclean.
LEMMA StepsBalance2 ==
  ASSUME Typed, Typed', NEW t \in Threads,
         Clean(t) \/ Dead(t) \/ Reclaim(t) \/ Purge(t) \/ GoneEnd(t) \/ GoneSlept(t)
  PROVE  Balanced(t) /\ OthersAgree(t)
  <1> DEFINE v == Top(t).v
             f == Top(t).flag
  <1>0. /\ {"ufs_inactive", "clean", "gone_end", "gone_slept"} \subseteq Plain
        /\ {"dead", "reclaim", "purge"} = Flagged /\ "rele" \in OwnLabels
        /\ \A at \in Plain \union OwnLabels \union Flagged : at \in Labels
    BY LabelsAre DEF Plain, Flagged
  <1> HIDE DEF v, f
  <1>1. \A s : Moves(t, s) => OthersAgree(t)
    BY DEF Moves, OthersAgree
  <1>2. \A x \in Vnodes : /\ One(v, x) \in {0, 1}
                          /\ \A at \in Flagged : \A g : (g => Has(at, v, g, x) = One(v, x)) /\ (~g => Has(at, v, g, x) = 0)
                          /\ \A at \in Plain : \A g : Has(at, v, g, x) = 0 /\ Has0(at, v, x) = 0
                          /\ Has0("rele", v, x) = One(v, x)
    BY <1>0, HasIs DEF Plain
  <1>3. CASE Clean(t)
    <2>1. InCall(t) /\ Top(t).at = "clean" /\ v \in Vnodes
      BY <1>3, CleanDoes DEF InCall, NoVnode, v
    <2>2. PICK n \in Int, b \in BOOLEAN : TakesRef(t, v, n, b)
      BY <1>3, CleanDoes DEF v
    <2>3. b \in BOOLEAN /\ CountsOnly(v, n) /\ Moves(t, Push(Fr("dead", v, b), Below(t)))
      BY <2>2 DEF TakesRef
    <2>4. \A x \in Vnodes : Gain(t, x) = Has("dead", v, b, x) - Has(Top(t).at, v, f, x)
      <3>1. ASSUME NEW g \in BOOLEAN, Moves(t, Push(Fr("dead", v, g), Below(t))), NEW x \in Vnodes
            PROVE  Gain(t, x) = Has("dead", v, g, x) - Has(Top(t).at, v, f, x)
        <4>1. "dead" \in Labels
          BY <1>0
        <4>2. QED BY <2>1, <3>1, <4>1, RefsMove DEF v, f
      <3>2. QED BY <2>3, <3>1, Zenon
    <2>5. \A x \in Vnodes : Has(Top(t).at, v, f, x) = 0 /\ Has("dead", v, b, x) = IF b THEN One(v, x) ELSE 0
      BY <1>0, <1>2, <2>1
    <2>6. \A x \in Vnodes : Gain(t, x) = IF b THEN One(v, x) ELSE 0
      BY <1>2, <2>4, <2>5
    <2>7. CASE b
      <3>1. n = vn[v].count + 1
        BY <2>2, <2>7 DEF TakesRef
      <3>2. \A x \in Vnodes : Gain(t, x) = One(v, x)
        BY <2>6, <2>7
      <3>3. QED BY <1>1, <2>1, <2>3, <3>1, <3>2, BalanceIs DEF CountsOnly
    <2>8. CASE ~b
      <3>1. n = vn[v].count
        BY <2>2, <2>8 DEF TakesRef
      <3>2. \A x \in Vnodes : Gain(t, x) = 0
        BY <2>6, <2>8
      <3>3. SameCounts
        BY <2>1, <2>3, <3>1 DEF CountsOnly, CountIs, SameCounts
      <3>4. QED BY <1>1, <2>3, <3>2, <3>3, BalanceIs
    <2>9. QED BY <2>7, <2>8
  <1>4. CASE Dead(t)
    <2>1. InCall(t) /\ Top(t).at \in Flagged /\ v \in Vnodes /\ SameCounts
      BY <1>0, <1>4, DeadDoes DEF InCall, NoVnode, v, BodiesOnly
    <2>2. CASE Moves(t, Over("ufs_inactive", v, Top1(t, "reclaim")))
      <3>1. \A x \in Vnodes : Gain(t, x) = Has0("ufs_inactive", v, x) + Has("reclaim", v, f, x) - Has(Top(t).at, v, f, x)
        BY <1>0, <2>1, <2>2, RefsMove DEF v, f
      <3>2. \A x \in Vnodes : Gain(t, x) = 0
        BY <1>0, <1>2, <2>1, <3>1
      <3>3. QED BY <1>1, <2>1, <2>2, <3>2, BalanceIs
    <2>3. CASE Moves(t, Top1(t, "reclaim"))
      <3>1. \A x \in Vnodes : Gain(t, x) = Has("reclaim", v, f, x) - Has(Top(t).at, v, f, x)
        BY <1>0, <2>1, <2>3, RefsMove DEF v, f
      <3>2. \A x \in Vnodes : Gain(t, x) = 0
        BY <1>0, <1>2, <2>1, <3>1
      <3>3. QED BY <1>1, <2>1, <2>3, <3>2, BalanceIs
    <2>4. QED BY <1>4, <2>2, <2>3, DeadDoes DEF v
  <1>5. CASE Reclaim(t)
    <2>1. InCall(t) /\ Top(t).at \in Flagged /\ SameCounts /\ Moves(t, Top1(t, "purge"))
      BY <1>0, <1>5, ReclaimDoes DEF BodiesOnly
    <2>2. \A x \in Vnodes : Gain(t, x) = Has("purge", v, f, x) - Has(Top(t).at, v, f, x)
      BY <1>0, <2>1, RefsMove DEF v, f
    <2>3. \A x \in Vnodes : Gain(t, x) = 0
      BY <1>0, <1>2, <2>1, <2>2
    <2>4. QED BY <1>1, <2>1, <2>3, BalanceIs
  <1>6. CASE Purge(t)
    <2>1. InCall(t) /\ Top(t).at \in Flagged /\ v \in Vnodes /\ SameCounts
      BY <1>0, <1>6, PurgeDoes DEF InCall, NoVnode, v, Quiet
    <2>2. CASE (\A x \in Vnodes : Has(Top(t).at, v, f, x) = One(v, x)) /\ Moves(t, Over("rele", v, Top1(t, "gone_end")))
      <3>1. \A x \in Vnodes : Gain(t, x) = Has0("rele", v, x) + Has("gone_end", v, f, x) - Has(Top(t).at, v, f, x)
        BY <1>0, <2>1, <2>2, RefsMove DEF v, f
      <3>2. \A x \in Vnodes : Gain(t, x) = 0
        BY <1>0, <1>2, <2>1, <2>2, <3>1
      <3>3. QED BY <1>1, <2>1, <2>2, <3>2, BalanceIs
    <2>3. CASE (\A x \in Vnodes : Has(Top(t).at, v, f, x) = 0) /\ Moves(t, Top1(t, "gone_end"))
      <3>1. \A x \in Vnodes : Gain(t, x) = Has("gone_end", v, f, x) - Has(Top(t).at, v, f, x)
        BY <1>0, <2>1, <2>3, RefsMove DEF v, f
      <3>2. \A x \in Vnodes : Gain(t, x) = 0
        BY <1>0, <1>2, <2>1, <2>3, <3>1
      <3>3. QED BY <1>1, <2>1, <2>3, <3>2, BalanceIs
    <2>4. CASE f
      <3>1. \A x \in Vnodes : Has(Top(t).at, v, f, x) = One(v, x)
        BY <1>2, <2>1, <2>4
      <3>2. QED BY <1>6, <2>2, <2>4, <3>1, PurgeDoes DEF v, f
    <2>5. CASE ~f
      <3>1. \A x \in Vnodes : Has(Top(t).at, v, f, x) = 0
        BY <1>2, <2>1, <2>5
      <3>2. QED BY <1>6, <2>3, <2>5, <3>1, PurgeDoes DEF v, f
    <2>6. QED BY <2>4, <2>5
  <1>7. CASE GoneEnd(t)
    BY <1>0, <1>1, <1>7, GoneEndDoes, MovesBalance
  <1>8. CASE GoneSlept(t)
    BY <1>0, <1>1, <1>8, GoneSleptDoes, MovesBalance DEF Quiet
  <1>9. QED BY <1>3, <1>4, <1>5, <1>6, <1>7, <1>8

\* A step of a lookup, up to the search for a new vnode.
LEMMA StepsBalance3 ==
  ASSUME Typed, Typed', NEW t \in Threads,
         \/ Cached(t) \/ Check(t) \/ Scan(t) \/ Get(t) \/ Vget(t) \/ VgetSlept(t) \/ Got(t)
         \/ GotSlept(t) \/ Event(t)
  PROVE  Balanced(t) /\ OthersAgree(t)
  <1> DEFINE v == Top(t).v
             f == Top(t).flag
  <1>0. /\ {"cached", "scan", "get", "vget", "vget_slept", "new", "fail"} \subseteq Plain
        /\ {"rele", "check", "got", "got_slept", "event", "have"} \subseteq OwnLabels
        /\ \A at \in Plain \union OwnLabels : at \in Labels
    BY LabelsAre DEF Plain
  <1> HIDE DEF v, f
  <1>1. \A s : Moves(t, s) => OthersAgree(t)
    BY DEF Moves, OthersAgree
  <1>2. /\ Quiet => SameCounts
        /\ \A x : Gets(x) => CountIs(x, vn[x].count + 1)
    BY DEF Quiet, Gets, CountsOnly
  <1>3. CASE Cached(t)
    <2>1. InCall(t) /\ Top(t).at \in Plain /\ v \in Vnodes
      BY <1>0, <1>3, CachedDoes DEF InCall, NoVnode, v
    <2>2. CASE Gets(v) /\ Moves(t, Top1(t, "check"))
      BY <1>0, <1>1, <1>2, <2>1, <2>2, MovesBalance DEF v
    <2>3. CASE Quiet /\ Moves(t, Top1(t, "scan"))
      BY <1>0, <1>1, <1>2, <2>1, <2>3, MovesBalance DEF v
    <2>4. QED BY <1>3, <2>2, <2>3, CachedDoes DEF v
  <1>4. CASE Check(t)
    <2>1. InCall(t) /\ Top(t).at \in OwnLabels /\ v \in Vnodes /\ Quiet
      BY <1>0, <1>4, CheckDoes DEF InCall, NoVnode, v
    <2>2. ASSUME NEW b \in BOOLEAN, Moves(t, Push(Fr("got", v, b), Below(t)))
          PROVE  Balanced(t) /\ OthersAgree(t)
      BY <1>0, <1>1, <1>2, <2>1, <2>2, MovesBalance DEF v
    <2>3. CASE Moves(t, Over("rele", v, Top1(t, "scan")))
      BY <1>0, <1>1, <1>2, <2>1, <2>3, MovesBalance DEF v
    <2>4. QED BY <1>4, <2>2, <2>3, CheckDoes DEF v
  <1>5. CASE Scan(t)
    BY <1>0, <1>1, <1>2, <1>5, ScanDoes, MovesBalance
  <1>6. CASE Get(t)
    <2>1. InCall(t) /\ Top(t).at \in Plain /\ f \in BOOLEAN
      BY <1>0, <1>6, GetDoes DEF InCall, f
    <2>2. ASSUME NEW w \in Vnodes, Quiet, Moves(t, Push(Fr("vget", w, f), Below(t)))
          PROVE  Balanced(t) /\ OthersAgree(t)
      BY <1>0, <1>1, <1>2, <2>1, <2>2, MovesBalance
    <2>3. ASSUME NEW w \in Vnodes, Gets(w), Moves(t, Push(Fr("got", w, f), Below(t)))
          PROVE  Balanced(t) /\ OthersAgree(t)
      BY <1>0, <1>1, <1>2, <2>1, <2>3, MovesBalance
    <2>4. CASE Quiet /\ Moves(t, Top1(t, "new"))
      BY <1>0, <1>1, <1>2, <2>1, <2>4, MovesBalance
    <2>5. InHash(th[t].i) \subseteq Vnodes
      BY DEF InHash
    <2>6. QED BY <1>6, <2>2, <2>3, <2>4, <2>5, GetDoes DEF f
  <1>7. CASE Vget(t)
    <2>1. InCall(t) /\ Top(t).at \in Plain /\ v \in Vnodes
      BY <1>0, <1>7, VgetDoes DEF InCall, NoVnode, v
    <2>2. CASE Gets(v) /\ Moves(t, Over("rele", v, Top1(t, "get")))
      BY <1>0, <1>1, <1>2, <2>1, <2>2, MovesBalance DEF v
    <2>3. CASE Quiet /\ Moves(t, Top1(t, "vget_slept"))
      BY <1>0, <1>1, <1>2, <2>1, <2>3, MovesBalance DEF v
    <2>4. QED BY <1>7, <2>2, <2>3, VgetDoes DEF v
  <1>8. CASE VgetSlept(t)
    BY <1>0, <1>1, <1>2, <1>8, VgetSleptDoes, MovesBalance
  <1>9. CASE Got(t)
    <2>1. InCall(t) /\ Top(t).at \in OwnLabels /\ v \in Vnodes /\ Quiet
      BY <1>0, <1>9, GotDoes DEF InCall, NoVnode, v
    <2>2. QED BY <1>0, <1>1, <1>2, <1>9, <2>1, GotDoes, MovesBalance DEF v
  <1>10. CASE GotSlept(t)
    <2>1. InCall(t) /\ Top(t).at \in OwnLabels /\ v \in Vnodes /\ Quiet
      BY <1>0, <1>10, GotSleptDoes DEF InCall, NoVnode, v
    <2>2. OthersAgree(t) /\ th'[t].held = None
      BY <1>10, GotSleptDoes DEF OthersAgree
    <2>3. PICK at \in {"get", "scan", "cached"}, w \in Vnodes \union {None} :
                  th'[t].stack = Over("rele", v, Over(at, w, Below(t)))
      BY <1>10, GotSleptDoes DEF v, Over
    <2>4. at \in Plain /\ Below(t) \in Seq(Frame)
      BY <1>0, <2>1, <2>3 DEF InCall
    <2>5. Over(at, w, Below(t)) \in Seq(Frame)
      <3>1. Fr(at, w, FALSE) \in Frame
        BY <1>0, <2>4, FrFacts
      <3>2. QED BY <2>4, <3>1, PushFrame DEF Over
    <2>6. ASSUME NEW x \in Vnodes PROVE Gain(t, x) = 0
      <3>1. /\ Count(Over(at, w, Below(t)), OwnFrames(x)) = Count(Below(t), OwnFrames(x)) + Has0(at, w, x)
            /\ Count(Below(t), OwnFrames(x)) \in Nat
        BY <1>0, <2>3, <2>4, HasFacts
      <3>2. Count(th'[t].stack, OwnFrames(x)) = Count(Over(at, w, Below(t)), OwnFrames(x)) + Has0("rele", v, x)
        BY <1>0, <2>1, <2>3, <2>5, HasFacts
      <3>3. Count(th[t].stack, OwnFrames(x)) = Count(Below(t), OwnFrames(x)) + Has(Top(t).at, v, f, x)
        <4>1. th[t].stack = Push(Fr(Top(t).at, v, f), Below(t))
          BY <2>1, FrFacts DEF InCall, v, f
        <4>2. QED BY <2>1, <4>1, HasFacts DEF InCall, v, f
      <3>4. Has0(at, w, x) = 0 /\ Has0("rele", v, x) = One(v, x) /\ Has(Top(t).at, v, f, x) = One(v, x)
            /\ One(v, x) \in {0, 1}
        BY <1>0, <2>1, <2>4, HasIs DEF Plain
      <3>5. Holds(th'[t], x) = 0 /\ Holds(th[t], x) = 0
        BY <2>1, <2>2 DEF Holds, InCall
      <3>6. QED BY <3>1, <3>2, <3>3, <3>4, <3>5 DEF Gain, Refs
    <2>7. QED BY <1>2, <2>1, <2>2, <2>6, BalanceIs
  <1>11. CASE Event(t)
    <2>1. InCall(t) /\ Top(t).at \in OwnLabels /\ v \in Vnodes /\ Quiet
      BY <1>0, <1>11, EventDoes DEF InCall, NoVnode, v
    <2>2. QED BY <1>0, <1>1, <1>2, <1>11, <2>1, EventDoes, MovesBalance DEF v
  <1>12. QED BY <1>3, <1>4, <1>5, <1>6, <1>7, <1>8, <1>9, <1>10, <1>11

\* A step of the making of a vnode, and of the use of what has been found.
LEMMA StepsBalance4 ==
  ASSUME Typed, Typed', NEW t \in Threads,
         New(t) \/ VInit(t) \/ Enter(t) \/ Dup(t) \/ Fill(t) \/ Have(t) \/ Fail(t)
  PROVE  Balanced(t) /\ OthersAgree(t)
  <1> DEFINE v == Top(t).v
             f == Top(t).flag
  <1>0. /\ {"scan", "get", "new", "init", "fail", "clean", "gone_end"} \subseteq Plain
        /\ {"rele", "enter", "dup", "fill", "have"} \subseteq OwnLabels
        /\ \A at \in Plain \union OwnLabels : at \in Labels
    BY LabelsAre DEF Plain
  <1> HIDE DEF v, f
  <1>1. /\ \A s : Moves(t, s) => OthersAgree(t)
        /\ Keeps(t) => OthersAgree(t)
    BY DEF Moves, Keeps, OthersAgree
  <1>2. /\ Quiet => SameCounts
        /\ BodiesOnly => SameCounts
    BY DEF Quiet, BodiesOnly
  <1>3. CASE New(t)
    <2>1. InCall(t) /\ Top(t).at \in Plain /\ f \in BOOLEAN
      BY <1>0, <1>3, NewDoes DEF InCall, f
    <2>2. ASSUME NEW w \in Vnodes, SameCounts, Moves(t, Push(Fr("init", w, f), Below(t)))
          PROVE  Balanced(t) /\ OthersAgree(t)
      BY <1>0, <1>1, <2>1, <2>2, MovesBalance
    <2>3. ASSUME NEW w \in Vnodes, SameCounts, Moves(t, Over("clean", w, Push(Fr("init", w, f), Below(t))))
          PROVE  Balanced(t) /\ OthersAgree(t)
      BY <1>0, <1>1, <2>1, <2>3, MovesBalance
    <2>4. CASE Quiet /\ Moves(t, Top1(t, "fail"))
      BY <1>0, <1>1, <1>2, <2>1, <2>4, MovesBalance
    <2>5. free \subseteq Vnodes
      BY DEF Typed
    <2>6. QED BY <1>2, <1>3, <2>2, <2>3, <2>4, <2>5, NewDoes DEF f, LocksOnly
  <1>4. CASE VInit(t)
    <2>1. InCall(t) /\ Top(t).at \in Plain /\ v \in Vnodes
      BY <1>0, <1>4, VInitDoes DEF InCall, NoVnode, v
    <2>2. QED BY <1>0, <1>1, <1>4, <2>1, VInitDoes, MovesBalance DEF v
  <1>5. CASE Enter(t)
    <2>1. InCall(t) /\ Top(t).at \in OwnLabels /\ v \in Vnodes /\ SameCounts
      BY <1>0, <1>5, EnterDoes DEF InCall, NoVnode, v
    <2>2. ASSUME NEW at \in {"fill", "dup"}, Moves(t, Top1(t, at)) PROVE Balanced(t) /\ OthersAgree(t)
      BY <1>0, <1>1, <2>1, <2>2, MovesBalance DEF v
    <2>3. ASSUME NEW a \in {"clean", "gone_end"}, Moves(t, Over(a, v, Top1(t, "dup")))
          PROVE  Balanced(t) /\ OthersAgree(t)
      BY <1>0, <1>1, <2>1, <2>3, MovesBalance DEF v
    <2>4. QED BY <1>5, <2>2, <2>3, EnterDoes DEF v
  <1>6. CASE Dup(t)
    <2>1. InCall(t) /\ Top(t).at \in OwnLabels /\ v \in Vnodes /\ Quiet
      BY <1>0, <1>6, DupDoes DEF InCall, NoVnode, v
    <2>2. QED BY <1>0, <1>1, <1>2, <1>6, <2>1, DupDoes, MovesBalance DEF v
  <1>7. CASE Fill(t)
    <2>1. InCall(t) /\ Top(t).at \in OwnLabels /\ v \in Vnodes /\ SameCounts
      BY <1>0, <1>2, <1>7, FillDoes DEF InCall, NoVnode, v
    <2>2. Moves(t, Top1(t, "have")) \/ Moves(t, Over("rele", v, Top1(t, "fail")))
      BY <1>7, FillDoes DEF v
    <2>3. QED BY <1>0, <1>1, <2>1, <2>2, MovesBalance DEF v
  <1>8. CASE Have(t)
    <2>1. InCall(t) /\ Top(t).at \in OwnLabels /\ v \in Vnodes
      BY <1>0, <1>8, HaveDoes DEF InCall, NoVnode, v
    <2>2. SameCounts
      BY <1>2, <1>8, HaveDoes
    <2>3. CASE Keeps(t)
      <3>1. ASSUME NEW x \in Vnodes PROVE Gain(t, x) = 0
        <4>1. Count(th'[t].stack, OwnFrames(x)) = 0
          BY <2>3, EmptyCount DEF Keeps
        <4>2. Holds(th'[t], x) = One(v, x)
          <5>1. th'[t].held # None /\ th'[t].held.v = v
            <6>1. th[t].i \in Inos
              BY <1>8, HaveDoes DEF InCall, LookLabels
            <6>2. QED BY <2>1, <2>3, <6>1, NoneAssumption DEF Keeps, v
          <5>2. QED BY <5>1 DEF Holds, One
        <4>3. Below(t) = <<>>
          BY <1>8, HaveDoes DEF InCall, LookLabels
        <4>4. Count(th[t].stack, OwnFrames(x)) = Count(Below(t), OwnFrames(x)) + Has(Top(t).at, v, f, x)
          <5>1. th[t].stack = Push(Fr(Top(t).at, v, f), Below(t)) /\ Below(t) \in Seq(Frame)
            BY <2>1, FrFacts DEF InCall, v, f
          <5>2. QED BY <2>1, <5>1, HasFacts DEF InCall, v, f
        <4>5. Count(Below(t), OwnFrames(x)) = 0
          BY <4>3, EmptyCount
        <4>6. Has(Top(t).at, v, f, x) = One(v, x) /\ One(v, x) \in {0, 1}
          BY <2>1, HasIs
        <4>7. Holds(th[t], x) = 0
          BY <2>1 DEF Holds, InCall
        <4>8. QED BY <4>1, <4>2, <4>4, <4>5, <4>6, <4>7 DEF Gain, Refs
      <3>2. QED BY <1>1, <2>2, <2>3, <3>1, BalanceIs
    <2>4. CASE Moves(t, Over("rele", v, Top1(t, "scan")))
      BY <1>0, <1>1, <2>1, <2>2, <2>4, MovesBalance DEF v
    <2>5. CASE Moves(t, Over("rele", v, Below(t)))
      BY <1>0, <1>1, <2>1, <2>2, <2>5, MovesBalance DEF v
    <2>6. QED BY <1>8, <2>3, <2>4, <2>5, HaveDoes DEF v
  <1>9. CASE Fail(t)
    BY <1>0, <1>1, <1>2, <1>9, FailDoes, MovesBalance
  <1>10. QED BY <1>3, <1>4, <1>5, <1>6, <1>7, <1>8, <1>9

\* What a thread begins, and the removal of the name of a file that is open.
LEMMA StartBalance ==
  ASSUME Typed, Typed', NEW t \in Threads, Start(t)
  PROVE  Balanced(t) /\ OthersAgree(t)
  <1>1. ASSUME NEW why, NEW i, NEW s, Begins(t, why, i, s)
        PROVE  /\ th[t].stack = <<>> /\ OthersAgree(t)
               /\ \A x : Gain(t, x) = Count(s, OwnFrames(x)) - Holds(th[t], x)
    <2>1. \A x : /\ Count(th'[t].stack, OwnFrames(x)) = Count(s, OwnFrames(x))
                 /\ Holds(th'[t], x) = 0 /\ Count(th[t].stack, OwnFrames(x)) = 0
                 /\ Holds(th[t], x) \in {0, 1}
      <3>1. \A x : Count(th[t].stack, OwnFrames(x)) = 0
        BY <1>1, EmptyCount DEF Begins
      <3>2. th'[t].stack = s /\ th'[t].held = None
        BY <1>1 DEF Begins
      <3>3. \A x : Holds(th'[t], x) = 0 /\ Holds(th[t], x) \in {0, 1}
        BY <3>2 DEF Holds
      <3>4. QED BY <3>1, <3>2, <3>3
    <2>2. ASSUME NEW x PROVE Gain(t, x) = Count(s, OwnFrames(x)) - Holds(th[t], x)
      <3>1. th'[t].stack \in Seq(Frame)
        BY DEF Typed, ThreadRecord
      <3>2. Count(th'[t].stack, OwnFrames(x)) \in Nat
        BY <3>1, HasFacts
      <3>3. QED BY <2>1, <3>2 DEF Gain, Refs
    <2>3. QED BY <1>1, <2>2 DEF Begins, OthersAgree
  <1>2. /\ \A at \in Plain, v \in Vnodes \union {None} : \A x : Count(Only(at, v), OwnFrames(x)) = 0
        /\ \A v \in Vnodes : \A x : Count(Only("rele", v), OwnFrames(x)) = One(v, x)
    <2> DEFINE e == <<>>
    <2>1. e \in Seq(Frame) /\ \A x : Count(e, OwnFrames(x)) = 0
      BY EmptyCount
    <2>2. \A at, v : Only(at, v) = Over(at, v, e)
      BY DEF Only
    <2> HIDE DEF e
    <2>3. \A at \in Labels, v \in Vnodes \union {None} : \A x :
             Count(Only(at, v), OwnFrames(x)) = 0 + Has0(at, v, x)
      BY <2>1, <2>2, HasFacts
    <2>4. \A at \in Plain, v \in Vnodes \union {None} : \A x : at \in Labels /\ Has0(at, v, x) = 0
      BY HasIs DEF Plain
    <2>5. \A v, x : "rele" \in Labels /\ Has0("rele", v, x) = One(v, x) /\ One(v, x) \in {0, 1}
      BY HasIs, LabelsAre
    <2>6. QED BY <2>3, <2>4, <2>5
  <1>3. {"scan", "cached", "get", "gone_slept", "clean", "gone_end"} \subseteq Plain
    BY LabelsAre DEF Plain
  <1>4. \A x : th[t].held = None => Holds(th[t], x) = 0
    BY DEF Holds
  <1>5. ASSUME NEW why, NEW i, NEW at \in Plain, NEW v \in Vnodes \union {None}, th[t].held = None,
               Begins(t, why, i, Only(at, v)), SameCounts
        PROVE  Balanced(t) /\ OthersAgree(t)
    BY <1>1, <1>2, <1>4, <1>5, BalanceIs
  <1>6. Quiet => SameCounts
    BY DEF Quiet
  <1>7. ASSUME NEW i \in Inos, LookUp(t, i) PROVE Balanced(t) /\ OthersAgree(t)
    BY <1>3, <1>5, <1>6, <1>7, LookUpDoes
  <1>8. ASSUME NEW i \in Inos, FhToVp(t, i) PROVE Balanced(t) /\ OthersAgree(t)
    BY <1>3, <1>5, <1>6, <1>8, FhToVpDoes
  <1>9. ASSUME NEW i \in Inos, Create(t, i) PROVE Balanced(t) /\ OthersAgree(t)
    BY <1>3, <1>5, <1>6, <1>9, CreateDoes
  <1>10. CASE Close(t)
    <2> DEFINE v == th[t].held.v
    <2>1. /\ v \in Vnodes /\ Quiet /\ th[t].held # None
          /\ Begins(t, "other", th[t].i, Only("rele", v))
      BY <1>10, CloseDoes
    <2>2. \A x : Holds(th[t], x) = One(v, x)
      BY <2>1 DEF Holds, One
    <2> HIDE DEF v
    <2>3. \A x : Gain(t, x) = Count(Only("rele", v), OwnFrames(x)) - Holds(th[t], x)
      BY <1>1, <2>1
    <2>4. \A x : Gain(t, x) = 0
      BY <1>2, <2>1, <2>2, <2>3, HasIs
    <2>5. QED BY <1>1, <1>6, <2>1, <2>4, BalanceIs
  <1>11. CASE Remove(t)
    <2>1. Agree(th'[t], th[t]) /\ OthersAgree(t) /\ Quiet
      BY <1>11, RemoveDoes DEF OthersAgree
    <2>2. \A x \in Vnodes : Refs(th'[t], x) = Refs(th[t], x)
      BY <2>1 DEF Refs, Holds, Agree
    <2>3. \A x \in Vnodes : Refs(th[t], x) \in Int
      BY HasFacts DEF Refs, Holds, Typed, ThreadRecord
    <2>4. QED BY <1>6, <2>1, <2>2, <2>3, BalanceIs DEF Gain
  <1>12. ASSUME NEW v \in Vnodes, Sync(t, v) PROVE Balanced(t) /\ OthersAgree(t)
    <2>1. CountIs(v, vn[v].count + 1) /\ th[t].held = None /\ Begins(t, "other", th[t].i, Only("rele", v))
      BY <1>12, SyncDoes DEF Gets, CountsOnly
    <2>2. \A x \in Vnodes : Gain(t, x) = Count(Only("rele", v), OwnFrames(x)) - 0
      BY <1>1, <1>4, <2>1
    <2>3. \A x \in Vnodes : Gain(t, x) = One(v, x)
      BY <1>2, <2>2, HasIs
    <2>4. QED BY <1>1, <2>1, <2>3, BalanceIs
  <1>13. ASSUME NEW v \in Vnodes, Vflush(t, v) PROVE Balanced(t) /\ OthersAgree(t)
    <2>1. PICK at \in {"gone_slept", "clean", "gone_end"} : Begins(t, "unmount", th[t].i, Only(at, v))
      BY <1>13, VflushDoes
    <2>2. th[t].held = None /\ (Quiet \/ LocksOnly(v))
      BY <1>13, VflushDoes
    <2>3. SameCounts /\ at \in Plain /\ v \in Vnodes \union {None}
      BY <1>3, <1>6, <2>2 DEF LocksOnly
    <2>4. QED BY <1>5, <2>1, <2>2, <2>3
  <1>14. QED BY <1>7, <1>8, <1>9, <1>10, <1>11, <1>12, <1>13 DEF Start

LEMMA StepBalance ==
  ASSUME Typed, Typed', NEW t \in Threads, Step(t) \/ Start(t)
  PROVE  Balanced(t) /\ OthersAgree(t)
  BY StepsBalance1, StepsBalance2, StepsBalance3, StepsBalance4, StartBalance DEF Step

\* The references of v that the threads have
RefSum(v) == SumFunction([u \in Threads |-> Refs(th[u], v)])

LEMMA RefSumIs ==
  ASSUME Typed, NEW v
  PROVE  /\ [u \in Threads |-> Refs(th[u], v)] \in [Threads -> Nat]
         /\ SumFunction([u \in Threads |-> RefsOf(u, v)]) = RefSum(v)
         /\ RefSum(v) \in Nat
         /\ \A t \in Threads : Refs(th[t], v) \in Nat
  <1>1. ASSUME NEW t \in Threads PROVE th[t].stack \in Seq(Frame) /\ Refs(th[t], v) \in Nat
    <2>1. th[t].stack \in Seq(Frame)
      BY DEF Typed, ThreadRecord
    <2>2. Count(th[t].stack, OwnFrames(v)) \in Nat /\ Holds(th[t], v) \in {0, 1}
      BY <2>1, HasFacts DEF Holds
    <2>3. QED BY <2>1, <2>2 DEF Refs
  <1>2. [u \in Threads |-> RefsOf(u, v)] = [u \in Threads |-> Refs(th[u], v)]
    BY <1>1, RefsAre
  <1>3. QED BY <1>1, <1>2, SumIsNatural, ThreadsAssumption DEF RefSum

LEMMA RefsAreCountedIs ==
  Typed => (RefsAreCounted <=> (panic = "none" => \A v \in Vnodes : vn[v].count = RefSum(v)))
  BY RefSumIs DEF RefsAreCounted

\* Also when the system has stopped
Counted == \A v \in Vnodes : vn[v].count = RefSum(v)

LEMMA InitCounted == Init => Counted
  <1> SUFFICES ASSUME Init PROVE Counted
    OBVIOUS
  <1>1. Typed
    BY InitTyped
  <1>2. \A v \in Vnodes : vn[v].count = 0
    BY DEF Init, Unused
  <1>3. ASSUME NEW v \in Vnodes PROVE RefSum(v) = 0
    <2>1. ASSUME NEW t \in Threads PROVE Refs(th[t], v) = 0
      <3>1. th[t].stack = <<>> /\ th[t].held = None
        BY DEF Init, Idle
      <3>2. Count(th[t].stack, OwnFrames(v)) = 0
        BY <3>1, EmptyCount
      <3>3. QED BY <3>1, <3>2 DEF Refs, Holds
    <2>2. QED BY <1>1, <2>1, RefSumIs, SumZero, ThreadsAssumption DEF RefSum
  <1>4. QED BY <1>2, <1>3 DEF Counted

LEMMA NextCounted == Typed /\ Typed' /\ Counted /\ [Next]_vars => Counted'
  <1> SUFFICES ASSUME Typed, Typed', Counted, [Next]_vars PROVE Counted'
    OBVIOUS
  <1>1. CASE UNCHANGED vars
    BY <1>1 DEF vars, Counted, RefSum, Refs, Holds, Count, OwnFrames
  <1>2. CASE Next
    <2>1. PICK t \in Threads : Step(t) \/ Start(t)
      BY <1>2 DEF Next
    <2>2. Balanced(t) /\ OthersAgree(t)
      BY <1>2, <2>1, StepBalance
    <2>3. ASSUME NEW v \in Vnodes PROVE vn'[v].count = RefSum(v)'
      <3> DEFINE f == [u \in Threads |-> Refs(th[u], v)]
                 g == [u \in Threads |-> Refs(th'[u], v)]
      <3>1. f \in [Threads -> Nat] /\ g \in [Threads -> Nat]
        <4>1. \A u \in Threads : Refs(th[u], v) \in Nat
          BY RefSumIs
        <4>2. \A u \in Threads : th'[u].stack \in Seq(Frame)
          BY DEF Typed, ThreadRecord
        <4>3. \A u \in Threads : Count(th'[u].stack, OwnFrames(v)) \in Nat
          BY <4>2, HasFacts
        <4>4. \A u \in Threads : Holds(th'[u], v) \in {0, 1}
          BY DEF Holds
        <4>5. \A u \in Threads : Refs(th'[u], v) \in Nat
          BY <4>3, <4>4 DEF Refs
        <4>6. QED BY <4>1, <4>5
      <3>2. \A u \in Threads : u # t => g[u] = f[u]
        BY <2>2 DEF OthersAgree, Agree, Refs, Holds
      <3>3. g[t] - f[t] = Gain(t, v)
        BY DEF Gain
      <3>4. RefSum(v) = SumFunction(f) /\ RefSum(v)' = SumFunction(g)
        BY DEF RefSum, OwnFrames, Refs, Holds, Count
      <3> HIDE DEF f, g
      <3>5. SumFunction(g) = SumFunction(f) + g[t] - f[t]
        BY <3>1, <3>2, SumChange, ThreadsAssumption
      <3>6. SumFunction(f) \in Nat /\ f[t] \in Nat /\ g[t] \in Nat
        BY <3>1, SumIsNatural, ThreadsAssumption
      <3>7. vn[v].count = SumFunction(f)
        BY <3>4 DEF Counted
      <3>8. vn'[v].count \in Int
        BY DEF Typed, VnodeRecord
      <3>9. vn'[v].count - vn[v].count = g[t] - f[t]
        BY <2>2, <3>3 DEF Balanced
      <3>10. QED BY <3>4, <3>5, <3>6, <3>7, <3>8, <3>9
    <2>4. QED BY <2>3 DEF Counted
  <1>3. QED BY <1>1, <1>2

THEOREM AlwaysCounted == Spec => []Counted
  <1>1. Typed /\ Typed' /\ Counted /\ [Next]_vars => Counted'
    BY NextCounted
  <1>2. QED BY <1>1, InitCounted, AlwaysTyped, PTL DEF Spec

\* The count of a vnode (v_usecount) is the number of the references that open
\* files, calls and vclean have of it, for any number of threads, vnodes and
\* inodes: vrele, vget, iget and vclean take and give back each one once.
THEOREM ReferencesAreCounted == Spec => []RefsAreCounted
  <1>1. Typed /\ Counted => RefsAreCounted
    BY RefsAreCountedIs DEF Counted
  <1>2. QED BY <1>1, AlwaysTyped, AlwaysCounted, PTL

------------------------------------------------------------------------------
\* What follows of the counts

LEMMA OwnersAre ==
  ASSUME Typed, NEW t \in Threads, NEW v
  PROVE  /\ Refs(th[t], v) \in Nat
         /\ (\E f \in Frames(th[t].stack) : Owns(f, v)) => Refs(th[t], v) >= 1
         /\ th[t].held # None /\ th[t].held.v = v => Refs(th[t], v) >= 1
  <1>1. th[t].stack \in Seq(Frame)
    BY DEF Typed, ThreadRecord
  <1>2. Count(th[t].stack, OwnFrames(v)) \in Nat /\ Holds(th[t], v) \in {0, 1}
    BY <1>1, HasFacts DEF Holds
  <1>3. ASSUME NEW f \in Frames(th[t].stack), Owns(f, v) PROVE Count(th[t].stack, OwnFrames(v)) >= 1
    <2> DEFINE S == Frame
    <2>1. th[t].stack \in Seq(S) /\ f \in S /\ f \in OwnFrames(v)
      BY <1>1, <1>3, FramesInSet DEF OwnFrames
    <2> HIDE DEF S
    <2>2. Count(th[t].stack, OwnFrames(v)) # 0
      BY <2>1, CountFacts
    <2>3. QED BY <1>2, <2>2
  <1>4. th[t].held # None /\ th[t].held.v = v => Holds(th[t], v) = 1
    BY DEF Holds
  <1>5. QED BY <1>2, <1>3, <1>4 DEF Refs

Owner(t, v) == Refs(th[t], v) >= 1

LEMMA CountsAre ==
  ASSUME Typed, RefsAreCounted, panic = "none", NEW v \in Vnodes
  PROVE  /\ vn[v].count \in Nat
         /\ \A t \in Threads : Refs(th[t], v) \in Nat /\ vn[v].count >= Refs(th[t], v)
         /\ \A t, u \in Threads : t # u => vn[v].count >= Refs(th[t], v) + Refs(th[u], v)
         /\ vn[v].count > 0 => \E t \in Threads : Owner(t, v)
  <1> DEFINE f == [u \in Threads |-> Refs(th[u], v)]
  <1>1. f \in [Threads -> Nat] /\ vn[v].count = SumFunction(f)
    BY RefsAreCountedIs, RefSumIs DEF RefSum
  <1>2. \A t \in Threads : f[t] = Refs(th[t], v)
    OBVIOUS
  <1> HIDE DEF f
  <1>3. SumFunction(f) \in Nat
    BY <1>1, SumIsNatural, ThreadsAssumption
  <1>4. \A t \in Threads : Refs(th[t], v) \in Nat /\ vn[v].count >= Refs(th[t], v)
    BY <1>1, <1>2, SumParts, ThreadsAssumption
  <1>5. \A t, u \in Threads : t # u => vn[v].count >= Refs(th[t], v) + Refs(th[u], v)
    BY <1>1, <1>2, SumParts, ThreadsAssumption
  <1>6. ASSUME vn[v].count > 0 PROVE \E t \in Threads : Owner(t, v)
    <2>1. ~(\A t \in Threads : f[t] = 0)
      BY <1>1, <1>6, SumZero, ThreadsAssumption
    <2>2. QED BY <1>1, <1>2, <2>1 DEF Owner
  <1>7. QED BY <1>1, <1>3, <1>4, <1>5, <1>6

\* A thread that is at one of the labels that have a reference is an owner.
LEMMA TopOwns ==
  ASSUME Typed, NEW t \in Threads, InCall(t)
  PROVE  /\ Top(t).at \in OwnLabels => Owner(t, Top(t).v)
         /\ \A f \in Frames(th[t].stack) : f.at \in OwnLabels => Owner(t, f.v)
  <1>1. \A f \in Frames(th[t].stack) : f.at \in OwnLabels => Owns(f, f.v)
    BY DEF Owns, OwnLabels
  <1>2. \A f \in Frames(th[t].stack) : f.at \in OwnLabels => Owner(t, f.v)
    BY <1>1, OwnersAre DEF Owner
  <1>3. Top(t) \in Frames(th[t].stack)
    BY DEF InCall
  <1>4. QED BY <1>2, <1>3

------------------------------------------------------------------------------
\* The frames of a stack with a label of L

Marks(s, L) == {f \in Frames(s) : f.at \in L}

LEMMA OverIs ==
  ASSUME NEW at \in Labels, NEW v \in Vnodes \union {None}, NEW s
  PROVE  \E f \in Frame : f.at = at /\ f.v = v /\ ~f.flag /\ Over(at, v, s) = Push(f, s)
  <1> DEFINE f == Fr(at, v, FALSE)
  <1>1. f \in Frame /\ f.at = at /\ f.v = v /\ ~f.flag
    BY DEF Fr, Frame
  <1>2. Over(at, v, s) = Push(f, s)
    BY DEF Over
  <1> HIDE DEF f
  <1>3. QED BY <1>1, <1>2

LEMMA MarksAre ==
  ASSUME NEW s \in Seq(Frame), NEW L
  PROVE  /\ \A f \in Frame : /\ Push(f, s) \in Seq(Frame)
                             /\ f.at \in L => Marks(Push(f, s), L) = Marks(s, L) \union {f}
                             /\ f.at \notin L => Marks(Push(f, s), L) = Marks(s, L)
         /\ \A at \in Labels, v \in Vnodes \union {None} :
              /\ Over(at, v, s) \in Seq(Frame)
              /\ at \notin L => Marks(Over(at, v, s), L) = Marks(s, L)
  <1>1. ASSUME NEW f \in Frame
        PROVE  /\ Push(f, s) \in Seq(Frame)
               /\ f.at \in L => Marks(Push(f, s), L) = Marks(s, L) \union {f}
               /\ f.at \notin L => Marks(Push(f, s), L) = Marks(s, L)
    <2>1. Push(f, s) \in Seq(Frame) /\ Frames(Push(f, s)) = {f} \union Frames(s)
      BY PushFrame
    <2>2. QED BY <2>1 DEF Marks
  <1>2. ASSUME NEW at \in Labels, NEW v \in Vnodes \union {None}
        PROVE  /\ Over(at, v, s) \in Seq(Frame)
               /\ at \notin L => Marks(Over(at, v, s), L) = Marks(s, L)
    <2>1. PICK f \in Frame : f.at = at /\ Over(at, v, s) = Push(f, s)
      BY OverIs
    <2>2. QED BY <1>1, <2>1
  <1>3. QED BY <1>1, <1>2

\* The frames of t with a label of L are those under the top: the new ones have
\* other labels.
Passes(t, L) == Marks(th'[t].stack, L) = Marks(Below(t), L)

LEMMA TopMark ==
  ASSUME NEW t, InCall(t), NEW L
  PROVE  /\ Top(t).at \in L => Marks(th[t].stack, L) = Marks(Below(t), L) \union {Top(t)}
         /\ Top(t).at \notin L => Marks(th[t].stack, L) = Marks(Below(t), L)
  BY DEF InCall, Marks

LEMMA MovesPass ==
  ASSUME NEW t, InCall(t), NEW L
  PROVE  /\ Moves(t, Below(t)) => Passes(t, L)
         /\ \A at \in Labels \ L : Moves(t, Top1(t, at)) => Passes(t, L)
         /\ \A at \in Labels \ L, v \in Vnodes \union {None}, flag \in BOOLEAN :
              Moves(t, Push(Fr(at, v, flag), Below(t))) => Passes(t, L)
         /\ \A a \in Labels \ L, w \in Vnodes \union {None} :
              Moves(t, Over(a, w, Below(t))) => Passes(t, L)
         /\ \A a \in Labels \ L, w \in Vnodes \union {None}, at \in Labels \ L :
              Moves(t, Over(a, w, Top1(t, at))) => Passes(t, L)
         /\ \A a \in Labels \ L, w \in Vnodes \union {None}, at \in Labels \ L,
               v \in Vnodes \union {None}, flag \in BOOLEAN :
              Moves(t, Over(a, w, Push(Fr(at, v, flag), Below(t)))) => Passes(t, L)
  <1>1. /\ Below(t) \in Seq(Frame) /\ Top(t).v \in Vnodes \union {None} /\ Top(t).flag \in BOOLEAN
    BY DEF InCall
  <1>2. \A s : Moves(t, s) => th'[t].stack = s
    BY DEF Moves
  <1>3. ASSUME NEW at \in Labels \ L, NEW v \in Vnodes \union {None}, NEW flag \in BOOLEAN,
               NEW s, s = Push(Fr(at, v, flag), Below(t))
        PROVE  s \in Seq(Frame) /\ Marks(s, L) = Marks(Below(t), L)
    <2> DEFINE f == Fr(at, v, flag)
    <2>1. f \in Frame /\ f.at = at
      BY FrFacts
    <2> HIDE DEF f
    <2>2. s = Push(f, Below(t))
      BY <1>3 DEF f
    <2>3. QED BY <1>1, <2>1, <2>2, MarksAre
  <1>4. ASSUME NEW s \in Seq(Frame), Marks(s, L) = Marks(Below(t), L),
               NEW a \in Labels \ L, NEW w \in Vnodes \union {None}
        PROVE  Marks(Over(a, w, s), L) = Marks(Below(t), L)
    BY <1>4, MarksAre
  <1>5. ASSUME NEW at \in Labels \ L
        PROVE  Top1(t, at) \in Seq(Frame) /\ Marks(Top1(t, at), L) = Marks(Below(t), L)
    BY <1>1, <1>3 DEF Top1
  <1>6. Moves(t, Below(t)) => Passes(t, L)
    BY <1>2 DEF Passes
  <1>7. ASSUME NEW at \in Labels \ L, Moves(t, Top1(t, at)) PROVE Passes(t, L)
    BY <1>2, <1>5, <1>7 DEF Passes
  <1>8. ASSUME NEW at \in Labels \ L, NEW v \in Vnodes \union {None}, NEW flag \in BOOLEAN,
               Moves(t, Push(Fr(at, v, flag), Below(t)))
        PROVE  Passes(t, L)
    BY <1>2, <1>3, <1>8 DEF Passes
  <1>9. ASSUME NEW a \in Labels \ L, NEW w \in Vnodes \union {None}, Moves(t, Over(a, w, Below(t)))
        PROVE  Passes(t, L)
    BY <1>1, <1>2, <1>4, <1>9 DEF Passes
  <1>10. ASSUME NEW a \in Labels \ L, NEW w \in Vnodes \union {None}, NEW at \in Labels \ L,
                Moves(t, Over(a, w, Top1(t, at)))
         PROVE  Passes(t, L)
    BY <1>2, <1>4, <1>5, <1>10 DEF Passes
  <1>11. ASSUME NEW a \in Labels \ L, NEW w \in Vnodes \union {None}, NEW at \in Labels \ L,
                NEW v \in Vnodes \union {None}, NEW flag \in BOOLEAN,
                Moves(t, Over(a, w, Push(Fr(at, v, flag), Below(t))))
         PROVE  Passes(t, L)
    <2> DEFINE s == Push(Fr(at, v, flag), Below(t))
    <2>1. s \in Seq(Frame) /\ Marks(s, L) = Marks(Below(t), L)
      BY <1>3
    <2>2. th'[t].stack = Over(a, w, s)
      BY <1>2, <1>11
    <2> HIDE DEF s
    <2>3. QED BY <1>4, <2>1, <2>2 DEF Passes
  <1>12. QED BY <1>6, <1>7, <1>8, <1>9, <1>10, <1>11

\* t may be about to clean v, and goes on with s afterwards.
LEMMA GonePass ==
  ASSUME NEW t, InCall(t), NEW L, "clean" \notin L, "gone_end" \notin L, NEW v \in Vnodes
  PROVE  /\ Gone(t, v, Below(t)) => Passes(t, L)
         /\ \A at \in Labels \ L : Gone(t, v, Top1(t, at)) => Passes(t, L)
  <1>1. "clean" \in Labels \ L /\ "gone_end" \in Labels \ L
    BY DEF Labels
  <1>2. QED BY <1>1, MovesPass DEF Gone

------------------------------------------------------------------------------
\* The free list, the vnodes that are being made, and the hash chains

Inits(t)  == Marks(th[t].stack, {"init"})
Enters(t) == Marks(th[t].stack, {"enter"})

FreeIs    == \A v \in Vnodes : v \in free <=> /\ vn[v].count = 0
                                              /\ \A t \in Threads : \A f \in Inits(t) : f.v # v
InitsAre  == \A t \in Threads : \A f \in Inits(t) :
                /\ vn[f.v].count = 0
                /\ \A u \in Threads \ {t} : \A g \in Inits(u) : g.v # f.v
EntersAre == \A t \in Threads : \A f \in Enters(t) : vn[f.v].ino = th[t].i
Making    == panic = "none" => FreeIs /\ InitsAre /\ EntersAre
OneEach   == \A v, w \in Vnodes :
                vn[v].hashed /\ vn[w].hashed /\ vn[v].ino = vn[w].ino /\ vn[v].ino \in Inos => v = w

\* A step that makes no vnode: no frame comes to "init" or leaves it or comes to
\* "enter", no inode changes or comes to a hash chain, and a count that
\* becomes zero or was zero goes with the free list.
CalmThreads ==
  \A u \in Threads : /\ Inits(u)' = Inits(u)
                     /\ Enters(u)' \subseteq Enters(u)
                     /\ Enters(u)' # {} => th'[u].i = th[u].i
CalmVnodes  ==
  \A v \in Vnodes : vn'[v].ino = vn[v].ino /\ (vn'[v].hashed => vn[v].hashed)
CalmCounts  ==
  \A v \in Vnodes :
    \/ vn'[v].count = vn[v].count /\ (v \in free' <=> v \in free)
    \/ (vn[v].count # 0 \/ v \in free) /\ (v \in free' <=> vn'[v].count = 0)

LEMMA CalmKeepsMaking ==
  ASSUME Typed, panic = "none", Making, CalmThreads, CalmCounts,
         \A v \in Vnodes : vn'[v].ino = vn[v].ino
  PROVE  Making'
  <1>1. FreeIs /\ InitsAre /\ EntersAre
    BY DEF Making
  <1>2. \A t \in Threads : \A f \in Inits(t) \union Enters(t) : f.v \in Vnodes
    <2>1. ASSUME NEW t \in Threads, NEW f \in Frames(th[t].stack), f.at \in {"init", "enter"}
          PROVE  f.v \in Vnodes
      BY <2>1 DEF Typed, CallFits, NoVnode
    <2>2. QED BY <2>1 DEF Inits, Enters, Marks
  <1>3. \A t \in Threads : \A f \in Inits(t) : f.v \notin free /\ vn[f.v].count = 0 /\ vn'[f.v].count = 0
    BY <1>1, <1>2 DEF FreeIs, InitsAre, CalmCounts
  <1>4. FreeIs'
    BY <1>1, <1>3 DEF FreeIs, CalmThreads, CalmCounts
  <1>5. InitsAre'
    BY <1>1, <1>3 DEF InitsAre, CalmThreads
  <1>6. EntersAre'
    BY <1>1, <1>2 DEF EntersAre, CalmThreads
  <1>7. QED BY <1>4, <1>5, <1>6 DEF Making

LEMMA CalmKeepsOneEach ==
  ASSUME OneEach, CalmVnodes
  PROVE  OneEach'
  BY DEF OneEach, CalmVnodes

LEMMA CalmMoves ==
  ASSUME Typed, NEW t \in Threads, InCall(t), Passes(t, {"init"}), Passes(t, {"enter"}),
         Top(t).at # "init"
  PROVE  /\ \A s : Moves(t, s) => CalmThreads
         /\ Keeps(t) /\ Below(t) = <<>> => CalmThreads
  <1>1. Inits(t)' = Inits(t) /\ Enters(t)' \subseteq Enters(t)
    BY TopMark DEF Passes, Inits, Enters
  <1>2. ASSUME \A u \in Threads \ {t} : Agree(th'[u], th[u])
        PROVE  \A u \in Threads \ {t} : Inits(u)' = Inits(u) /\ Enters(u)' = Enters(u) /\ th'[u].i = th[u].i
    BY <1>2 DEF Agree, Inits, Enters
  <1>3. ASSUME NEW s, Moves(t, s) PROVE CalmThreads
    <2>1. Enters(t)' # {} => th'[t].i = th[t].i
      <3>1. CASE th'[t].i = th[t].i
        BY <3>1
      <3>2. CASE \A f \in Frames(s) : f.at \notin LookLabels
        BY <1>3, <3>2 DEF Enters, Marks, Moves, LookLabels
      <3>3. QED BY <1>3, <3>1, <3>2 DEF Moves
    <2>2. \A u \in Threads \ {t} : Agree(th'[u], th[u])
      BY <1>3 DEF Moves
    <2>3. QED BY <1>1, <1>2, <2>1, <2>2 DEF CalmThreads
  <1>4. ASSUME Keeps(t), Below(t) = <<>> PROVE CalmThreads
    <2>1. Frames(Below(t)) = {}
      <3>1. Below(t) \in Seq(Frame)
        BY DEF InCall
      <3>2. QED BY <1>4, <3>1, FramesInSet
    <2>2. Enters(t)' = {}
      BY <2>1 DEF Passes, Enters, Marks
    <2>3. \A u \in Threads \ {t} : Agree(th'[u], th[u])
      BY <1>4 DEF Keeps
    <2>4. QED BY <1>1, <1>2, <2>2, <2>3 DEF CalmThreads
  <1>5. QED BY <1>3, <1>4

LEMMA CalmBegins ==
  ASSUME Typed, NEW t \in Threads, NEW why, NEW i, NEW at \in Labels \ {"init", "enter"},
         NEW v \in Vnodes \union {None}, Begins(t, why, i, Only(at, v))
  PROVE  CalmThreads
  <1>1. \A u \in Threads \ {t} : Inits(u)' = Inits(u) /\ Enters(u)' = Enters(u) /\ th'[u].i = th[u].i
    BY DEF Begins, Agree, Inits, Enters
  <1>2. th[t].stack \in Seq(Frame) /\ th[t].stack = <<>>
    BY DEF Begins, Typed, ThreadRecord
  <1>3. Inits(t) = {} /\ Enters(t) = {}
    BY <1>2, FramesInSet DEF Inits, Enters, Marks
  <1>4. Frames(th'[t].stack) = {Fr(at, v, FALSE)} /\ Fr(at, v, FALSE).at = at
    BY OnlyFacts DEF Begins, Fr
  <1>5. Inits(t)' = {} /\ Enters(t)' = {}
    BY <1>4 DEF Inits, Enters, Marks
  <1>6. QED BY <1>1, <1>3, <1>5 DEF CalmThreads

LEMMA CalmFields ==
  /\ SameBodies => CalmVnodes
  /\ \A v, type, ops, hashed, listed, read :
       BodyIs(v, type, ops, vn[v].ino, hashed, listed, read) /\ (hashed => vn[v].hashed) => CalmVnodes
  /\ SameCounts /\ free' = free => CalmCounts
  BY DEF SameBodies, SameBody, BodyIs, CalmVnodes, SameCounts, CalmCounts

LEMMA CalmGets ==
  ASSUME Typed, NEW v \in Vnodes, Gets(v), vn[v].count \in Nat
  PROVE  CalmVnodes /\ (panic' = "none" => CalmCounts)
  <1>1. CalmVnodes
    BY CalmFields DEF Gets, CountsOnly
  <1>2. ASSUME panic' = "none" PROVE CalmCounts
    <2>1. vn[v].count # 0 \/ v \in free
      BY <1>2 DEF Gets
    <2>2. /\ vn'[v].count = vn[v].count + 1 /\ free' = free \ {v}
          /\ \A w \in Vnodes \ {v} : vn'[w].count = vn[w].count
      BY DEF Gets, CountsOnly, CountIs
    <2>3. vn'[v].count # 0
      BY <2>2
    <2>4. QED BY <2>1, <2>2, <2>3 DEF CalmCounts
  <1>3. QED BY <1>1, <1>2

Calm == CalmThreads /\ CalmVnodes /\ (panic' = "none" => CalmCounts)

\* The labels at which a vnode is made
MadeLabels == {"init", "enter"}
Others     == Labels \ MadeLabels

LEMMA CalmPass ==
  ASSUME Typed, NEW t \in Threads, InCall(t), Top(t).at # "init"
  PROVE  /\ Moves(t, Below(t)) => CalmThreads
         /\ \A at \in Others : Moves(t, Top1(t, at)) => CalmThreads
         /\ \A at \in Others, v \in Vnodes \union {None}, flag \in BOOLEAN :
              Moves(t, Push(Fr(at, v, flag), Below(t))) => CalmThreads
         /\ \A a \in Others, w \in Vnodes \union {None} :
              Moves(t, Over(a, w, Below(t))) => CalmThreads
         /\ \A a \in Others, w \in Vnodes \union {None}, at \in Others :
              Moves(t, Over(a, w, Top1(t, at))) => CalmThreads
         /\ \A a \in Others, w \in Vnodes \union {None}, at \in Others,
               v \in Vnodes \union {None}, flag \in BOOLEAN :
              Moves(t, Over(a, w, Push(Fr(at, v, flag), Below(t)))) => CalmThreads
         /\ \A v \in Vnodes : Gone(t, v, Below(t)) => CalmThreads
         /\ \A at \in Others, v \in Vnodes : Gone(t, v, Top1(t, at)) => CalmThreads
         /\ Top(t).at \in Others => (Moves(t, th[t].stack) => CalmThreads)
  <1>0. \A at \in Others : at \in Labels \ {"init"} /\ at \in Labels \ {"enter"}
    BY DEF Others, MadeLabels
  <1>1. \A s : Moves(t, s) /\ Passes(t, {"init"}) /\ Passes(t, {"enter"}) => CalmThreads
    BY CalmMoves
  <1>2. Moves(t, Below(t)) => CalmThreads
    BY <1>1, MovesPass
  <1>3. \A at \in Others : Moves(t, Top1(t, at)) => CalmThreads
    BY <1>0, <1>1, MovesPass
  <1>4. ASSUME NEW at \in Others, NEW v \in Vnodes \union {None}, NEW flag \in BOOLEAN,
               Moves(t, Push(Fr(at, v, flag), Below(t)))
        PROVE  CalmThreads
    <2>1. Passes(t, {"init"})
      BY <1>0, <1>4, MovesPass
    <2>2. Passes(t, {"enter"})
      BY <1>0, <1>4, MovesPass
    <2>3. QED BY <1>1, <1>4, <2>1, <2>2
  <1>5. ASSUME NEW a \in Others, NEW w \in Vnodes \union {None}, Moves(t, Over(a, w, Below(t)))
        PROVE  CalmThreads
    BY <1>0, <1>1, <1>5, MovesPass
  <1>6. ASSUME NEW a \in Others, NEW w \in Vnodes \union {None}, NEW at \in Others,
               Moves(t, Over(a, w, Top1(t, at)))
        PROVE  CalmThreads
    BY <1>0, <1>1, <1>6, MovesPass
  <1>7. ASSUME NEW a \in Others, NEW w \in Vnodes \union {None}, NEW at \in Others,
               NEW v \in Vnodes \union {None}, NEW flag \in BOOLEAN,
               Moves(t, Over(a, w, Push(Fr(at, v, flag), Below(t))))
        PROVE  CalmThreads
    <2>1. Passes(t, {"init"})
      BY <1>0, <1>7, MovesPass
    <2>2. Passes(t, {"enter"})
      BY <1>0, <1>7, MovesPass
    <2>3. QED BY <1>1, <1>7, <2>1, <2>2
  <1>8. {"clean", "gone_end"} \subseteq Others
    BY DEF Others, MadeLabels, Labels
  <1>9. ASSUME NEW v \in Vnodes, Gone(t, v, Below(t)) PROVE CalmThreads
    BY <1>2, <1>5, <1>8, <1>9 DEF Gone
  <1>10. ASSUME NEW v \in Vnodes, NEW at \in Others, Gone(t, v, Top1(t, at)) PROVE CalmThreads
    BY <1>3, <1>6, <1>8, <1>10 DEF Gone
  <1>11. ASSUME Top(t).at \in Others, Moves(t, th[t].stack) PROVE CalmThreads
    <2>1. th[t].stack = Top1(t, Top(t).at)
      BY FrFacts DEF InCall, Top1
    <2>2. QED BY <1>3, <1>11, <2>1
  <1>12. QED BY <1>2, <1>3, <1>4, <1>5, <1>6, <1>7, <1>9, <1>10, <1>11

LEMMA OthersAre ==
  {"cached", "check", "scan", "get", "vget", "vget_slept", "got", "got_slept", "event", "have",
   "new", "dup", "fill", "fail", "rele", "rele_slept", "inactive", "drop", "ufs_inactive",
   "stale", "trunc", "ifree", "last", "end", "gone_slept", "clean", "dead", "reclaim", "purge",
   "gone_end"} \subseteq Others
  BY DEF Others, MadeLabels, Labels

LEMMA CalmQuiet ==
  /\ Quiet => CalmVnodes
  /\ Quiet /\ free' = free => CalmCounts
  /\ \A v : LocksOnly(v) => CalmVnodes
  /\ \A v : LocksOnly(v) /\ free' = free => CalmCounts
  /\ \A t, v, s : Gone(t, v, s) => CalmVnodes
  /\ \A t, v, s : Gone(t, v, s) /\ free' = free => CalmCounts
  BY CalmFields DEF Quiet, LocksOnly, Gone

LEMMA StepsCalm1 ==
  ASSUME Typed, RefsAreCounted, Making, panic = "none", NEW t \in Threads,
         \/ Rele(t) \/ Inactive(t) \/ Drop(t) \/ SleepAgain(t)
         \/ UfsInactive(t) \/ Stale(t) \/ Trunc(t) \/ Ifree(t) \/ Last(t) \/ End(t)
  PROVE  Calm
  <1> DEFINE v == Top(t).v
  <1> HIDE DEF v
  <1>1. InCall(t) /\ v \in Vnodes /\ Top(t).at # "init"
    <2>1. /\ InCall(t)
          /\ Top(t).at \in {"rele", "inactive", "drop", "rele_slept", "vget_slept", "gone_slept",
                            "ufs_inactive", "stale", "trunc", "ifree", "last", "end"}
      BY ReleDoes, InactiveDoes, DropDoes, SleepAgainDoes, UfsInactiveDoes, StaleDoes, TruncDoes,
         IfreeDoes, LastDoes, EndDoes
    <2>2. QED BY <2>1 DEF InCall, NoVnode, v
  <1> USE <1>1
  <1>2. /\ vn[v].count \in Nat
        /\ Top(t).at \in OwnLabels => vn[v].count >= 1
    BY TopOwns, CountsAre DEF Owner, v
  <1>3. CASE Rele(t)
    <2>1. CASE CountsOnly(v, vn[v].count - 1) /\ vn[v].count > 1 /\ Moves(t, Below(t))
      <3>1. CalmVnodes /\ CalmThreads
        BY <2>1, CalmFields, CalmPass DEF CountsOnly
      <3>2. CalmCounts
        <4>1. free' = free /\ v \notin free
          <5>1. free' = free
            BY <1>3, ReleDoes
          <5>2. v \in free => vn[v].count = 0
            BY DEF Making, FreeIs
          <5>3. QED BY <1>2, <2>1, <5>1, <5>2
        <4>2. QED BY <1>2, <2>1, <4>1 DEF CountsOnly, CountIs, CalmCounts
      <3>3. QED BY <3>1, <3>2 DEF Calm
    <2>2. CASE vn[v].count < 1
      <3>1. Top(t).at = "rele"
        BY <1>3, ReleDoes
      <3>2. QED BY <1>2, <2>2, <3>1, LabelsAre
    <2>3. CASE Quiet /\ (Moves(t, Top1(t, "rele_slept")) \/ Moves(t, Top1(t, "inactive")))
      BY <1>3, <2>3, CalmPass, CalmQuiet, OthersAre, ReleDoes DEF Calm
    <2>4. QED BY <1>3, <2>1, <2>2, <2>3, ReleDoes DEF v
  <1>4. CASE Inactive(t)
    BY <1>4, CalmPass, CalmQuiet, OthersAre, InactiveDoes DEF Calm, v
  <1>5. CASE Drop(t)
    <2>1. vn[v].count >= 1
      BY <1>2, <1>5, LabelsAre, DropDoes
    <2>2. CountsOnly(v, vn[v].count - 1) /\ Moves(t, Below(t))
          /\ free' = IF vn[v].count = 1 THEN free \union {v} ELSE free
      BY <1>5, DropDoes DEF v
    <2>3. CalmVnodes /\ CalmThreads
      BY <2>2, CalmFields, CalmPass DEF CountsOnly
    <2>4. CalmCounts
      BY <1>2, <2>1, <2>2 DEF CountsOnly, CountIs, CalmCounts, Making, FreeIs
    <2>5. QED BY <2>3, <2>4 DEF Calm
  <1>6. CASE SleepAgain(t)
    BY <1>6, CalmPass, CalmQuiet, OthersAre, SleepAgainDoes DEF Calm
  <1>7. CASE UfsInactive(t)
    <2>1. CASE Gone(t, v, Below(t))
      BY <1>7, <2>1, CalmPass, CalmQuiet, UfsInactiveDoes DEF Calm
    <2>2. CASE Quiet /\ Moves(t, Below(t))
      BY <1>7, <2>2, CalmPass, CalmQuiet, UfsInactiveDoes DEF Calm
    <2>3. CASE InactOnly(v, TRUE) /\ \E at \in {"stale", "trunc", "last"} : Moves(t, Top1(t, at))
      <3>1. CalmThreads
        BY <2>3, CalmPass, OthersAre
      <3>2. QED BY <1>7, <2>3, <3>1, CalmFields, UfsInactiveDoes DEF Calm, InactOnly
    <2>4. QED BY <1>7, <2>1, <2>2, <2>3, UfsInactiveDoes DEF v
  <1>8. CASE Stale(t)
    BY <1>8, CalmPass, CalmQuiet, OthersAre, StaleDoes DEF Calm, v
  <1>9. CASE Trunc(t)
    BY <1>9, CalmPass, CalmQuiet, OthersAre, TruncDoes DEF Calm
  <1>10. CASE Ifree(t)
    BY <1>10, CalmPass, CalmQuiet, OthersAre, IfreeDoes DEF Calm, v
  <1>11. CASE Last(t)
    <2>1. CalmThreads
      BY <1>11, CalmPass, OthersAre, LastDoes DEF v
    <2>2. QED BY <1>11, <2>1, CalmFields, LastDoes DEF Calm
  <1>12. CASE End(t)
    BY <1>12, CalmPass, CalmFields, EndDoes DEF Calm, InactOnly
  <1>13. QED BY <1>3, <1>4, <1>5, <1>6, <1>7, <1>8, <1>9, <1>10, <1>11, <1>12

\* The fields of a vnode that change but for its inode and the hash chain
LEMMA CalmBody ==
  ASSUME NEW v \in Vnodes, vn'[v].ino = vn[v].ino, vn'[v].hashed => vn[v].hashed,
         \A w \in Vnodes \ {v} : SameBody(vn'[w], vn[w])
  PROVE  CalmVnodes
  BY DEF CalmVnodes, SameBody

LEMMA StepsCalm2 ==
  ASSUME Typed, RefsAreCounted, Making, panic = "none", NEW t \in Threads,
         Clean(t) \/ Dead(t) \/ Reclaim(t) \/ Purge(t) \/ GoneEnd(t) \/ GoneSlept(t)
  PROVE  Calm
  <1> DEFINE v == Top(t).v
  <1> HIDE DEF v
  <1>1. InCall(t) /\ v \in Vnodes /\ Top(t).at # "init" /\ Top(t).flag \in BOOLEAN
    <2>1. /\ InCall(t)
          /\ Top(t).at \in {"clean", "dead", "reclaim", "purge", "gone_end", "gone_slept"}
      BY CleanDoes, DeadDoes, ReclaimDoes, PurgeDoes, GoneEndDoes, GoneSleptDoes
    <2>2. QED BY <2>1 DEF InCall, NoVnode, v
  <1> USE <1>1
  <1>2. vn[v].count \in Nat
    BY CountsAre
  <1>3. CASE Clean(t)
    <2>1. PICK n \in Int, b \in BOOLEAN : TakesRef(t, v, n, b)
      BY <1>3, CleanDoes DEF v
    <2>2. CountsOnly(v, n) /\ Moves(t, Push(Fr("dead", v, b), Below(t)))
      BY <2>1 DEF TakesRef
    <2>3. CalmThreads /\ CalmVnodes
      BY <2>2, CalmPass, OthersAre, CalmFields DEF CountsOnly
    <2>4. \/ vn[v].count > 0 /\ n = vn[v].count + 1
          \/ n = vn[v].count
      BY <2>1 DEF TakesRef
    <2>5. free' = free /\ (v \in free => vn[v].count = 0)
      <3>1. free' = free
        BY <1>3, CleanDoes
      <3>2. v \in free => vn[v].count = 0
        BY DEF Making, FreeIs
      <3>3. QED BY <3>1, <3>2
    <2>6. CalmCounts
      BY <1>2, <2>2, <2>4, <2>5 DEF CountsOnly, CountIs, CalmCounts
    <2>7. QED BY <2>3, <2>6 DEF Calm
  <1>4. CASE Dead(t)
    <2>1. CalmThreads
      BY <1>4, CalmPass, OthersAre, DeadDoes DEF v
    <2>2. CalmVnodes
      BY <1>4, DeadDoes, CalmBody DEF v, BodyIs
    <2>3. CalmCounts
      BY <1>4, DeadDoes, CalmFields DEF BodiesOnly
    <2>4. QED BY <2>1, <2>2, <2>3 DEF Calm
  <1>5. CASE Reclaim(t)
    <2>1. CalmThreads
      BY <1>5, CalmPass, OthersAre, ReclaimDoes DEF v
    <2>2. CalmVnodes
      BY <1>5, ReclaimDoes, CalmBody DEF v, BodyIs
    <2>3. CalmCounts
      BY <1>5, ReclaimDoes, CalmFields DEF BodiesOnly
    <2>4. QED BY <2>1, <2>2, <2>3 DEF Calm
  <1>6. CASE Purge(t)
    BY <1>6, CalmPass, CalmQuiet, OthersAre, PurgeDoes DEF Calm, v
  <1>7. CASE GoneEnd(t)
    <2>1. CalmThreads
      BY <1>7, CalmPass, OthersAre, GoneEndDoes DEF v
    <2>2. CalmVnodes
      BY <1>7, GoneEndDoes, CalmBody DEF v, BodyIs
    <2>3. CalmCounts
      BY <1>7, GoneEndDoes, CalmFields
    <2>4. QED BY <2>1, <2>2, <2>3 DEF Calm
  <1>8. CASE GoneSlept(t)
    BY <1>8, CalmPass, CalmQuiet, OthersAre, GoneSleptDoes DEF Calm
  <1>9. QED BY <1>3, <1>4, <1>5, <1>6, <1>7, <1>8

LEMMA StepsCalm3 ==
  ASSUME Typed, RefsAreCounted, Making, panic = "none", NEW t \in Threads,
         \/ Cached(t) \/ Check(t) \/ Scan(t) \/ Get(t) \/ Vget(t) \/ VgetSlept(t) \/ Got(t)
         \/ GotSlept(t) \/ Event(t)
  PROVE  Calm
  <1> DEFINE v == Top(t).v
  <1> HIDE DEF v
  <1>1. InCall(t) /\ v \in Vnodes \union {None} /\ Top(t).at # "init" /\ Top(t).flag \in BOOLEAN
    <2>1. /\ InCall(t)
          /\ Top(t).at \in {"cached", "check", "scan", "get", "vget", "vget_slept", "got",
                            "got_slept", "event"}
      BY CachedDoes, CheckDoes, ScanDoes, GetDoes, VgetDoes, VgetSleptDoes, GotDoes, GotSleptDoes,
         EventDoes
    <2>2. QED BY <2>1 DEF InCall, v
  <1> USE <1>1
  <1>2. /\ Top(t).at \notin NoVnode => v \in Vnodes
        /\ \A w \in Vnodes : vn[w].count \in Nat
    BY CountsAre DEF InCall, v
  <1>3. ASSUME NEW w \in Vnodes, Gets(w), CalmThreads PROVE Calm
    BY <1>2, <1>3, CalmGets DEF Calm
  <1>4. CASE Cached(t)
    <2>1. v \in Vnodes
      BY <1>2, <1>4, CachedDoes DEF NoVnode
    <2>2. CASE Gets(v) /\ Moves(t, Top1(t, "check"))
      BY <1>3, <2>1, <2>2, CalmPass, OthersAre
    <2>3. CASE Quiet /\ UNCHANGED <<free, panic>> /\ Moves(t, Top1(t, "scan"))
      BY <2>3, CalmPass, CalmQuiet, OthersAre DEF Calm
    <2>4. QED BY <1>4, <2>2, <2>3, CachedDoes DEF v
  <1>5. CASE Check(t)
    <2>1. v \in Vnodes
      BY <1>2, <1>5, CheckDoes DEF NoVnode
    <2>2. Quiet /\ free' = free
      BY <1>5, CheckDoes
    <2>3. CASE Moves(t, Push(Fr("got", v, TRUE), Below(t)))
      <3>1. CalmThreads
        BY <2>1, <2>3, CalmPass, OthersAre
      <3>2. QED BY <2>2, <3>1, CalmQuiet DEF Calm
    <2>4. CASE Moves(t, Over("rele", v, Top1(t, "scan")))
      BY <2>2, <2>4, CalmPass, CalmQuiet, OthersAre DEF Calm
    <2>5. QED BY <1>5, <2>3, <2>4, CheckDoes DEF v
  <1>6. CASE Scan(t)
    BY <1>6, CalmPass, CalmQuiet, OthersAre, ScanDoes DEF Calm
  <1>7. CASE Get(t)
    <2>1. ASSUME NEW w \in Vnodes, Quiet, UNCHANGED <<free, panic>>,
                 Moves(t, Push(Fr("vget", w, Top(t).flag), Below(t)))
          PROVE  Calm
      BY <2>1, CalmPass, CalmQuiet, OthersAre DEF Calm
    <2>2. ASSUME NEW w \in Vnodes, Gets(w), Moves(t, Push(Fr("got", w, Top(t).flag), Below(t)))
          PROVE  Calm
      BY <1>3, <2>2, CalmPass, OthersAre
    <2>3. CASE Quiet /\ UNCHANGED <<free, panic>> /\ Moves(t, Top1(t, "new"))
      BY <2>3, CalmPass, CalmQuiet, OthersAre DEF Calm
    <2>4. InHash(th[t].i) \subseteq Vnodes
      BY DEF InHash
    <2>5. QED BY <1>7, <2>1, <2>2, <2>3, <2>4, GetDoes
  <1>8. CASE Vget(t)
    <2>1. v \in Vnodes
      BY <1>2, <1>8, VgetDoes DEF NoVnode
    <2>2. CASE Gets(v) /\ Moves(t, Over("rele", v, Top1(t, "get")))
      BY <1>3, <2>1, <2>2, CalmPass, OthersAre
    <2>3. CASE Quiet /\ UNCHANGED <<free, panic>> /\ Moves(t, Top1(t, "vget_slept"))
      BY <2>3, CalmPass, CalmQuiet, OthersAre DEF Calm
    <2>4. QED BY <1>8, <2>2, <2>3, VgetDoes DEF v
  <1>9. CASE VgetSlept(t)
    BY <1>9, CalmPass, CalmQuiet, OthersAre, VgetSleptDoes DEF Calm
  <1>10. CASE Got(t)
    BY <1>10, CalmPass, CalmQuiet, OthersAre, GotDoes DEF Calm
  <1>11. CASE GotSlept(t)
    <2>1. PICK at \in {"get", "scan", "cached"}, w \in Vnodes \union {None} :
             th'[t].stack = Over("rele", v, Push(Fr(at, w, FALSE), Below(t)))
      BY <1>11, GotSleptDoes DEF v
    <2>2. th[t].i = th'[t].i /\ \A u \in Threads \ {t} : Agree(th'[u], th[u])
      BY <1>11, GotSleptDoes
    <2>3. ASSUME NEW L, "rele" \notin L, at \notin L PROVE Passes(t, L)
      <3> DEFINE f == Fr(at, w, FALSE)
                 s == Push(f, Below(t))
      <3>1. f \in Frame /\ f.at = at
        BY <2>1, OthersAre DEF Fr, Frame, Others
      <3>2. th'[t].stack = Over("rele", v, s)
        BY <2>1
      <3>3. Below(t) \in Seq(Frame) /\ "rele" \in Labels
        BY LabelsAre DEF InCall
      <3> HIDE DEF f
      <3>4. s \in Seq(Frame) /\ Marks(s, L) = Marks(Below(t), L)
        BY <2>3, <3>1, <3>3, MarksAre
      <3> HIDE DEF s
      <3>5. QED BY <2>3, <3>2, <3>3, <3>4, MarksAre DEF Passes
    <2>4. Passes(t, {"init"}) /\ Passes(t, {"enter"})
      BY <2>1, <2>3
    <2>5. Inits(t)' = Inits(t) /\ Enters(t)' \subseteq Enters(t)
      BY <2>4, TopMark DEF Passes, Inits, Enters
    <2>6. \A u \in Threads \ {t} : Inits(u)' = Inits(u) /\ Enters(u)' = Enters(u) /\ th'[u].i = th[u].i
      BY <2>2 DEF Agree, Inits, Enters
    <2>7. CalmThreads
      BY <2>2, <2>5, <2>6 DEF CalmThreads
    <2>8. QED BY <1>11, <2>7, CalmQuiet, GotSleptDoes DEF Calm
  <1>12. CASE Event(t)
    BY <1>12, CalmPass, CalmQuiet, OthersAre, EventDoes DEF Calm, v
  <1>13. QED BY <1>4, <1>5, <1>6, <1>7, <1>8, <1>9, <1>10, <1>11, <1>12

LEMMA StepsCalm4 ==
  ASSUME Typed, RefsAreCounted, Making, panic = "none", NEW t \in Threads,
         Dup(t) \/ Fill(t) \/ Have(t) \/ Fail(t)
  PROVE  Calm
  <1> DEFINE v == Top(t).v
  <1> HIDE DEF v
  <1>1. InCall(t) /\ v \in Vnodes \union {None} /\ Top(t).at # "init" /\ Top(t).flag \in BOOLEAN
    <2>1. InCall(t) /\ Top(t).at \in {"dup", "fill", "have", "fail"}
      BY DupDoes, FillDoes, HaveDoes, FailDoes
    <2>2. QED BY <2>1 DEF InCall, v
  <1> USE <1>1
  <1>2. Top(t).at \notin NoVnode => v \in Vnodes
    BY DEF InCall, v
  <1>3. CASE Dup(t)
    BY <1>3, CalmPass, CalmQuiet, OthersAre, DupDoes DEF Calm, v
  <1>4. CASE Fill(t)
    <2>1. v \in Vnodes
      BY <1>2, <1>4, FillDoes DEF NoVnode
    <2>2. CalmThreads
      BY <1>4, <2>1, CalmPass, OthersAre, FillDoes DEF v
    <2>3. CalmVnodes
      BY <1>4, <2>1, FillDoes, CalmBody DEF v, BodyIs
    <2>4. CalmCounts
      BY <1>4, FillDoes, CalmFields DEF BodiesOnly
    <2>5. QED BY <2>2, <2>3, <2>4 DEF Calm
  <1>5. CASE Have(t)
    <2>1. v \in Vnodes /\ Below(t) = <<>> /\ free' = free
      BY <1>2, <1>5, HaveDoes DEF NoVnode, InCall, LookLabels
    <2>2. CASE Keeps(t)
      <3>1. Passes(t, {"init"}) /\ Passes(t, {"enter"})
        BY <2>1, <2>2 DEF Keeps, Passes
      <3>2. CalmThreads
        BY <2>1, <2>2, <3>1, CalmMoves
      <3>3. CalmVnodes
        BY <1>5, <2>1, CalmQuiet, CalmBody, HaveDoes DEF v, BodyIs
      <3>4. CalmCounts
        BY <1>5, <2>1, CalmQuiet, CalmFields, HaveDoes DEF BodiesOnly
      <3>5. QED BY <3>2, <3>3, <3>4 DEF Calm
    <2>3. CASE Quiet /\ (Moves(t, Over("rele", v, Top1(t, "scan"))) \/ Moves(t, Over("rele", v, Below(t))))
      BY <2>1, <2>3, CalmPass, CalmQuiet, OthersAre DEF Calm
    <2>4. QED BY <1>5, <2>2, <2>3, HaveDoes DEF v
  <1>6. CASE Fail(t)
    BY <1>6, CalmPass, CalmQuiet, OthersAre, FailDoes DEF Calm
  <1>7. QED BY <1>3, <1>4, <1>5, <1>6

LEMMA StartCalm ==
  ASSUME Typed, RefsAreCounted, Making, panic = "none", NEW t \in Threads, Start(t)
  PROVE  Calm
  <1>1. \A at \in Others : at \in Labels \ {"init", "enter"}
    BY DEF Others, MadeLabels
  <1>2. ASSUME NEW why, NEW i, NEW at \in Others, NEW v \in Vnodes \union {None},
               Begins(t, why, i, Only(at, v))
        PROVE  CalmThreads
    BY <1>1, <1>2, CalmBegins
  <1>3. ASSUME NEW i \in Inos, LookUp(t, i) PROVE Calm
    BY <1>2, <1>3, CalmQuiet, OthersAre, LookUpDoes DEF Calm
  <1>4. ASSUME NEW i \in Inos, FhToVp(t, i) PROVE Calm
    BY <1>2, <1>4, CalmQuiet, OthersAre, FhToVpDoes DEF Calm
  <1>5. ASSUME NEW i \in Inos, Create(t, i) PROVE Calm
    BY <1>2, <1>5, CalmQuiet, OthersAre, CreateDoes DEF Calm
  <1>6. CASE Close(t)
    BY <1>2, <1>6, CalmQuiet, OthersAre, CloseDoes DEF Calm
  <1>7. CASE Remove(t)
    <2>1. CalmThreads
      BY <1>7, RemoveDoes DEF Agree, CalmThreads, Inits, Enters
    <2>2. QED BY <1>7, <2>1, CalmQuiet, RemoveDoes DEF Calm
  <1>8. ASSUME NEW v \in Vnodes, Sync(t, v) PROVE Calm
    <2>1. CalmThreads
      BY <1>2, <1>8, OthersAre, SyncDoes
    <2>2. QED BY <1>8, <2>1, CalmGets, CountsAre, SyncDoes DEF Calm
  <1>9. ASSUME NEW v \in Vnodes, Vflush(t, v) PROVE Calm
    BY <1>2, <1>9, CalmQuiet, OthersAre, VflushDoes DEF Calm
  <1>10. QED BY <1>3, <1>4, <1>5, <1>6, <1>7, <1>8, <1>9 DEF Start

LEMMA CalmGoesOn ==
  ASSUME Typed, panic = "none", Making, OneEach, Calm
  PROVE  Making' /\ OneEach'
  <1>1. panic' = "none" => Making'
    BY CalmKeepsMaking DEF Calm, CalmVnodes
  <1>2. QED BY <1>1, CalmKeepsOneEach DEF Calm, Making

\* A vnode is taken from the free list.
LEMMA NewMakes ==
  ASSUME Typed, panic = "none", Making, OneEach, NEW t \in Threads, New(t)
  PROVE  Making' /\ OneEach'
  <1>1. InCall(t) /\ Top(t).at = "new" /\ Below(t) = <<>> /\ Top(t).flag \in BOOLEAN
    BY NewDoes DEF InCall, LookLabels
  <1>2. CASE Quiet /\ UNCHANGED <<free, panic>> /\ Moves(t, Top1(t, "fail"))
    <2>1. Calm
      BY <1>1, <1>2, CalmPass, CalmQuiet, OthersAre DEF Calm
    <2>2. QED BY <2>1, CalmGoesOn
  <1>3. ASSUME NEW v \in free, NEW s, SameCounts, SameBodies,
               panic' = IF vn[v].count # 0 THEN "free vnode isn't" ELSE panic,
               free' = free \ {v}, Moves(t, s), Enters(t)' = {},
               NEW h, h.v = v, Inits(t)' = {h}
        PROVE  Making' /\ OneEach'
    <2>1. CalmVnodes /\ v \in Vnodes
      BY <1>3, CalmFields DEF Typed
    <2>2. OneEach'
      BY <2>1, CalmKeepsOneEach
    <2>3. ASSUME panic' = "none" PROVE Making'
      <3>1. FreeIs /\ InitsAre /\ EntersAre
        BY DEF Making
      <3>2. vn[v].count = 0 /\ \A u \in Threads : \A f \in Inits(u) : f.v # v
        BY <2>1, <3>1 DEF FreeIs
      <3>3. Inits(t) = {}
        <4>1. Below(t) \in Seq(Frame) /\ Marks(th[t].stack, {"init"}) = Marks(Below(t), {"init"})
          BY <1>1, TopMark DEF InCall
        <4>2. QED BY <1>1, <4>1, FramesInSet DEF Marks, Inits
      <3>4. \A u \in Threads \ {t} : Inits(u)' = Inits(u) /\ Enters(u)' = Enters(u) /\ th'[u].i = th[u].i
        BY <1>3 DEF Moves, Agree, Inits, Enters
      <3>5. \A f \in Inits(t)' : f.v = v
        BY <1>3
      <3>6. \A w \in Vnodes : vn'[w].count = vn[w].count /\ vn'[w].ino = vn[w].ino
        BY <1>3 DEF SameCounts, SameBodies, SameBody
      <3>7. \A u \in Threads : \A f \in Inits(u) \union Enters(u) : f.v \in Vnodes
        <4>1. ASSUME NEW u \in Threads, NEW f \in Frames(th[u].stack), f.at \in {"init", "enter"}
              PROVE  f.v \in Vnodes
          BY <4>1 DEF Typed, CallFits, NoVnode
        <4>2. QED BY <4>1 DEF Inits, Enters, Marks
      <3>8. FreeIs'
        <4>1. ASSUME NEW w \in Vnodes
              PROVE  (w \in free)' <=> /\ vn'[w].count = 0
                                       /\ \A u \in Threads : \A f \in Inits(u)' : f.v # w
          <5>1. CASE w = v
            <6>1. \E f \in Inits(t)' : f.v = v
              BY <1>3
            <6>2. QED BY <1>3, <5>1, <6>1
          <5>2. CASE w # v
            <6>1. (w \in free)' <=> w \in free
              BY <1>3, <5>2
            <6>2. (\A u \in Threads : \A f \in Inits(u)' : f.v # w)
                     <=> (\A u \in Threads : \A f \in Inits(u) : f.v # w)
              BY <3>3, <3>4, <3>5, <5>2
            <6>3. QED BY <3>1, <3>6, <6>1, <6>2 DEF FreeIs
          <5>3. QED BY <5>1, <5>2
        <4>2. QED BY <4>1 DEF FreeIs
      <3>9. InitsAre'
        <4>1. ASSUME NEW u \in Threads, NEW f \in Inits(u)'
              PROVE  /\ vn'[f.v].count = 0
                     /\ \A x \in Threads \ {u} : \A g \in Inits(x)' : g.v # f.v
          <5>1. CASE u = t
            BY <2>1, <3>2, <3>4, <3>5, <3>6, <4>1, <5>1
          <5>2. CASE u # t
            <6>1. f \in Inits(u) /\ f.v \in Vnodes /\ f.v # v
              BY <3>2, <3>4, <3>7, <4>1, <5>2
            <6>2. vn'[f.v].count = 0
              BY <3>1, <3>6, <6>1 DEF InitsAre
            <6>3. \A x \in Threads \ {u} : \A g \in Inits(x)' : g.v # f.v
              BY <3>1, <3>4, <3>5, <6>1 DEF InitsAre
            <6>4. QED BY <6>2, <6>3
          <5>3. QED BY <5>1, <5>2
        <4>2. QED BY <4>1 DEF InitsAre
      <3>10. EntersAre'
        BY <1>3, <3>1, <3>4, <3>6, <3>7 DEF EntersAre
      <3>11. QED BY <3>8, <3>9, <3>10 DEF Making
    <2>4. QED BY <2>2, <2>3 DEF Making
  <1>4. ASSUME NEW v \in free, NEW s, s = Push(Fr("init", v, Top(t).flag), Below(t))
        PROVE  \E h \in Frame : /\ h.v = v
                                /\ \A x : Moves(t, x) /\ x \in {s, Over("clean", v, s)}
                                     => Inits(t)' = {h} /\ Enters(t)' = {}
    <2> DEFINE h == Fr("init", v, Top(t).flag)
    <2>1. v \in Vnodes /\ Below(t) \in Seq(Frame)
      BY <1>1, <1>4 DEF Typed, InCall
    <2>2. h \in Frame /\ h.at = "init" /\ h.v = v
      BY <1>1, <2>1, FrFacts DEF Labels
    <2>3. s = Push(h, Below(t))
      BY <1>4
    <2> HIDE DEF h
    <2>4. \A L : Marks(Below(t), L) = {}
      BY <1>1, <2>1, FramesInSet DEF Marks
    <2>5. s \in Seq(Frame) /\ "clean" \in Labels
      BY <2>1, <2>2, <2>3, MarksAre DEF Labels
    <2>6. ASSUME NEW L, "clean" \notin L, NEW x \in {s, Over("clean", v, s)}
          PROVE  Marks(x, L) = Marks(s, L)
      BY <2>1, <2>5, <2>6, MarksAre
    <2>7. ASSUME NEW L, h.at \in L PROVE Marks(s, L) = {h}
      <3>1. Marks(Push(h, Below(t)), L) = Marks(Below(t), L) \union {h}
        BY <2>1, <2>2, <2>7, MarksAre
      <3>2. QED BY <2>3, <2>4, <3>1
    <2>8. ASSUME NEW L, h.at \notin L PROVE Marks(s, L) = {}
      BY <2>1, <2>2, <2>3, <2>4, <2>8, MarksAre
    <2>9. ASSUME NEW x \in {s, Over("clean", v, s)}, Moves(t, x)
          PROVE  Inits(t)' = {h} /\ Enters(t)' = {}
      <3>1. Marks(x, {"init"}) = {h}
        BY <2>2, <2>6, <2>7
      <3>2. Marks(x, {"enter"}) = {}
        BY <2>2, <2>6, <2>8
      <3>3. QED BY <2>9, <3>1, <3>2 DEF Moves, Inits, Enters
    <2>10. QED BY <2>2, <2>9
  <1>5. Quiet => SameCounts /\ SameBodies
    BY DEF Quiet
  <1>6. \A v : LocksOnly(v) => SameCounts /\ SameBodies
    BY DEF LocksOnly
  <1>7. CASE \E v \in free :
               /\ panic' = IF vn[v].count # 0 THEN "free vnode isn't" ELSE panic
               /\ free' = free \ {v}
               /\ LET s == Push(Fr("init", v, Top(t).flag), Below(t))
                  IN  \/ Quiet /\ Moves(t, s)
                      \/ LocksOnly(v) /\ Moves(t, Over("clean", v, s))
    <2>1. PICK v \in free :
               /\ panic' = IF vn[v].count # 0 THEN "free vnode isn't" ELSE panic
               /\ free' = free \ {v}
               /\ LET s == Push(Fr("init", v, Top(t).flag), Below(t))
                  IN  \/ Quiet /\ Moves(t, s)
                      \/ LocksOnly(v) /\ Moves(t, Over("clean", v, s))
      BY <1>7
    <2> DEFINE s == Push(Fr("init", v, Top(t).flag), Below(t))
    <2>2. SameCounts /\ SameBodies /\ \E x \in {s, Over("clean", v, s)} : Moves(t, x)
      BY <1>5, <1>6, <2>1
    <2> HIDE DEF s
    <2>3. PICK x \in {s, Over("clean", v, s)} : Moves(t, x)
      BY <2>2
    <2>4. PICK h \in Frame : h.v = v /\ Inits(t)' = {h} /\ Enters(t)' = {}
      BY <1>4, <2>3 DEF s
    <2>5. QED BY <1>3, <2>1, <2>2, <2>3, <2>4
  <1>8. QED BY <1>2, <1>7, NewDoes

\* The marks of a thread that moves to another label, and of those that do not move
LEMMA TopMarks ==
  ASSUME NEW t, InCall(t), Below(t) = <<>>, NEW L, NEW at \in Labels, Moves(t, Top1(t, at))
  PROVE  /\ Marks(th[t].stack, L) = IF Top(t).at \in L THEN {Top(t)} ELSE {}
         /\ at \notin L => Marks(th'[t].stack, L) = {}
         /\ at \in L => Marks(th'[t].stack, L) = {Fr(at, Top(t).v, Top(t).flag)}
         /\ \A u \in Threads \ {t} : Marks(th'[u].stack, L) = Marks(th[u].stack, L)
  <1> DEFINE f == Fr(at, Top(t).v, Top(t).flag)
             s == Below(t)
  <1>1. f \in Frame /\ f.at = at /\ s \in Seq(Frame)
    <2>1. Top(t).flag \in BOOLEAN /\ Top(t).v \in Vnodes \union {None} /\ s \in Seq(Frame)
      BY DEF InCall
    <2>2. QED BY <2>1, FrFacts
  <1>2. Marks(s, L) = {}
    <2>1. Frames(s) = {}
      BY <1>1, FramesInSet
    <2>2. QED BY <2>1 DEF Marks
  <1>3. th'[t].stack = Push(f, s)
    BY DEF Moves, Top1
  <1>4. Marks(th[t].stack, L) = IF Top(t).at \in L THEN {Top(t)} ELSE {}
    BY <1>2, TopMark
  <1> HIDE DEF f, s
  <1>5. /\ at \in L => Marks(Push(f, s), L) = Marks(s, L) \union {f}
        /\ at \notin L => Marks(Push(f, s), L) = Marks(s, L)
    BY <1>1, MarksAre
  <1>6. \A u \in Threads \ {t} : Marks(th'[u].stack, L) = Marks(th[u].stack, L)
    BY DEF Moves, Agree
  <1>7. QED BY <1>2, <1>3, <1>4, <1>5, <1>6 DEF f

LEMMA MarkedVnodes ==
  ASSUME Typed, NEW t \in Threads, NEW f \in Inits(t) \union Enters(t)
  PROVE  f.v \in Vnodes /\ (f \in Enters(t) => Owner(t, f.v))
  <1>1. f \in Frames(th[t].stack) /\ f.at \in {"init", "enter"}
    BY DEF Inits, Enters, Marks
  <1>2. f.v \in Vnodes
    BY <1>1 DEF Typed, CallFits, NoVnode
  <1>3. ASSUME f \in Enters(t) PROVE Owner(t, f.v)
    <2>1. f.at = "enter"
      BY <1>3 DEF Enters, Marks
    <2>2. Owns(f, f.v)
      BY <2>1 DEF Owns
    <2>3. QED BY <1>1, <2>2, OwnersAre DEF Owner
  <1>4. QED BY <1>2, <1>3

\* The vnode gets its first reference and becomes another inode.
LEMMA VInitMakes ==
  ASSUME Typed, RefsAreCounted, panic = "none", Making, OneEach, NEW t \in Threads, VInit(t)
  PROVE  Making' /\ OneEach'
  <1> DEFINE v == Top(t).v
             e == Fr("enter", v, Top(t).flag)
  <1>1. /\ InCall(t) /\ Top(t).at = "init" /\ free' = free
        /\ CountIs(v, vn[v].count + 1)
        /\ BodyIs(v, "none", "ufs", th[t].i, FALSE, FALSE, "no")
        /\ Moves(t, Top1(t, "enter"))
    BY VInitDoes
  <1>2. Below(t) = <<>> /\ v \in Vnodes /\ "enter" \in Labels
    BY <1>1 DEF InCall, LookLabels, NoVnode, Labels
  <1>3. e.v = v /\ e.at = "enter"
    BY DEF Fr
  <1>4. /\ Inits(t) = {Top(t)} /\ Inits(t)' = {} /\ Enters(t)' = {e}
        /\ \A u \in Threads \ {t} : Inits(u)' = Inits(u) /\ Enters(u)' = Enters(u)
    <2>1. ASSUME NEW L
          PROVE  /\ Marks(th[t].stack, L) = IF Top(t).at \in L THEN {Top(t)} ELSE {}
                 /\ "enter" \notin L => Marks(th'[t].stack, L) = {}
                 /\ "enter" \in L => Marks(th'[t].stack, L) = {e}
                 /\ \A u \in Threads \ {t} : Marks(th'[u].stack, L) = Marks(th[u].stack, L)
      BY <1>1, <1>2, TopMarks
    <2> HIDE DEF e
    <2>2. QED BY <1>1, <2>1 DEF Inits, Enters
  <1>5. /\ \A u \in Threads \ {t} : th'[u].i = th[u].i
        /\ th'[t].i = th[t].i
    <2>1. th'[t].stack = Push(e, Below(t)) /\ e \in Frame
      BY <1>1, <1>2, FrFacts DEF Moves, Top1, InCall
    <2> HIDE DEF e
    <2>2. e \in Frames(th'[t].stack) /\ e.at \in LookLabels
      <3>1. Below(t) \in Seq(Frame)
        BY <1>1 DEF InCall
      <3>2. Frames(Push(e, Below(t))) = {e} \union Frames(Below(t))
        BY <2>1, <3>1, PushFrame
      <3>3. QED BY <1>3, <2>1, <3>2 DEF LookLabels
    <2>3. QED BY <1>1, <2>2 DEF Moves, Agree
  <1> HIDE DEF e
  <1>6. FreeIs /\ InitsAre /\ EntersAre
    BY DEF Making
  <1>7. /\ vn[v].count = 0 /\ v \notin free
        /\ \A u \in Threads \ {t} : \A g \in Inits(u) : g.v # v
    BY <1>2, <1>4, <1>6 DEF FreeIs, InitsAre
  <1> HIDE DEF v
  <1>8. ASSUME NEW u \in Threads, NEW f \in Enters(u) PROVE f.v \in Vnodes /\ f.v # v
    <2>1. f.v \in Vnodes /\ Refs(th[u], f.v) >= 1
      BY <1>8, MarkedVnodes DEF Owner
    <2>2. vn[f.v].count \in Nat /\ Refs(th[u], f.v) \in Nat /\ vn[f.v].count >= Refs(th[u], f.v)
      BY <2>1, CountsAre
    <2>3. QED BY <1>7, <2>1, <2>2
  <1>9. \A u \in Threads : \A f \in Inits(u) : f.v \in Vnodes
    BY MarkedVnodes
  <1>10. /\ vn'[v].count = 1 /\ vn'[v].ino = th[t].i /\ ~vn'[v].hashed
         /\ \A w \in Vnodes \ {v} : /\ vn'[w].count = vn[w].count /\ vn'[w].ino = vn[w].ino
                                    /\ vn'[w].hashed = vn[w].hashed
    BY <1>1, <1>7 DEF CountIs, BodyIs, SameBody, v
  <1>11. FreeIs'
    BY <1>1, <1>4, <1>6, <1>7, <1>10 DEF FreeIs, v
  <1>12. InitsAre'
    BY <1>2, <1>4, <1>6, <1>7, <1>9, <1>10 DEF InitsAre
  <1>13. EntersAre'
    <2>1. ASSUME NEW u \in Threads, NEW f \in Enters(u)' PROVE vn'[f.v].ino = th'[u].i
      <3>1. CASE u = t
        BY <1>3, <1>4, <1>5, <1>10, <2>1, <3>1
      <3>2. CASE u # t
        BY <1>4, <1>5, <1>6, <1>8, <1>10, <2>1, <3>2 DEF EntersAre
      <3>3. QED BY <3>1, <3>2
    <2>2. QED BY <2>1 DEF EntersAre
  <1>14. OneEach'
    BY <1>2, <1>10 DEF OneEach
  <1>15. QED BY <1>11, <1>12, <1>13, <1>14 DEF Making

\* The chain is searched and the inode put on it in one step.
LEMMA EnterMakes ==
  ASSUME Typed, panic = "none", Making, OneEach, NEW t \in Threads, Enter(t)
  PROVE  Making' /\ OneEach'
  <1> DEFINE v == Top(t).v
             p == vn[v]
  <1>1. /\ InCall(t) /\ Top(t).at = "enter" /\ free' = free /\ SameCounts
    BY EnterDoes
  <1>2. /\ Below(t) = <<>> /\ v \in Vnodes /\ Top(t).at # "init"
        /\ {"fill", "dup", "clean", "gone_end"} \subseteq Others
    BY <1>1, OthersAre DEF InCall, LookLabels, NoVnode
  <1>3. CalmCounts
    BY <1>1, CalmFields
  <1>4. CASE BodyIs(v, p.type, p.ops, p.ino, p.hashed, p.listed, "error")
             /\ (Moves(t, Top1(t, "dup"))
                 \/ \E a \in {"clean", "gone_end"} : Moves(t, Over(a, v, Top1(t, "dup"))))
    <2>1. CalmVnodes
      BY <1>2, <1>4, CalmBody DEF BodyIs
    <2>2. CalmThreads
      <3>1. CASE Moves(t, Top1(t, "dup"))
        BY <1>1, <1>2, <3>1, CalmPass
      <3>2. ASSUME NEW a \in {"clean", "gone_end"}, Moves(t, Over(a, v, Top1(t, "dup"))) PROVE CalmThreads
        <4>1. a \in Others /\ "dup" \in Others /\ v \in Vnodes \union {None}
          BY <1>2
        <4>2. QED BY <1>1, <1>2, <3>2, <4>1, CalmPass
      <3>3. QED BY <1>4, <3>1, <3>2
    <2>3. QED BY <1>3, <2>1, <2>2, CalmGoesOn DEF Calm
  <1>5. CASE /\ InHash(th[t].i) = {} /\ BodyIs(v, p.type, p.ops, p.ino, TRUE, p.listed, p.read)
             /\ Moves(t, Top1(t, "fill"))
    <2>1. CalmThreads
      BY <1>1, <1>2, <1>5, CalmPass
    <2>2. /\ \A w \in Vnodes : vn'[w].ino = vn[w].ino
          /\ \A w \in Vnodes \ {v} : vn'[w].hashed = vn[w].hashed
      BY <1>5 DEF BodyIs, SameBody
    <2>3. Making'
      BY <1>3, <2>1, <2>2, CalmKeepsMaking
    <2>4. p.ino = th[t].i
      <3>1. Top(t) \in Enters(t)
        BY <1>1 DEF InCall, Enters, Marks
      <3>2. QED BY <3>1 DEF Making, EntersAre
    <2>5. \A w \in Vnodes : ~(vn[w].hashed /\ vn[w].ino = vn[v].ino)
      BY <1>5, <2>4 DEF InHash
    <2> HIDE DEF v
    <2>6. OneEach'
      BY <2>2, <2>5 DEF OneEach
    <2>7. QED BY <2>3, <2>6
  <1>6. QED BY <1>4, <1>5, EnterDoes

LEMMA InitMakes == Init => Making /\ OneEach
  <1> SUFFICES ASSUME Init PROVE Making /\ OneEach
    OBVIOUS
  <1>1. \A v \in Vnodes : vn[v].count = 0 /\ ~vn[v].hashed /\ v \in free
    BY DEF Init, Unused
  <1>2. ASSUME NEW t \in Threads PROVE Inits(t) = {} /\ Enters(t) = {}
    <2>1. th[t].stack = <<>>
      BY DEF Init, Idle
    <2>2. Frames(th[t].stack) = {}
      <3>1. th[t].stack \in Seq(Frame)
        BY <2>1
      <3>2. QED BY <2>1, <3>1, FramesInSet
    <2>3. QED BY <2>2 DEF Inits, Enters, Marks
  <1>3. QED BY <1>1, <1>2 DEF Making, FreeIs, InitsAre, EntersAre, OneEach

LEMMA NextMakes ==
  Typed /\ RefsAreCounted /\ Making /\ OneEach /\ [Next]_vars => Making' /\ OneEach'
  <1> SUFFICES ASSUME Typed, RefsAreCounted, Making, OneEach, [Next]_vars PROVE Making' /\ OneEach'
    OBVIOUS
  <1>1. CASE UNCHANGED vars
    BY <1>1 DEF vars, Making, OneEach, FreeIs, InitsAre, EntersAre, Inits, Enters
  <1>2. CASE Next
    <2>1. panic = "none"
      BY <1>2 DEF Next
    <2>2. PICK t \in Threads : Step(t) \/ Start(t)
      BY <1>2 DEF Next
    <2>3. CASE New(t) \/ VInit(t) \/ Enter(t)
      BY <2>1, <2>3, NewMakes, VInitMakes, EnterMakes
    <2>4. CASE ~(New(t) \/ VInit(t) \/ Enter(t))
      <3>1. Calm
        BY <2>1, <2>2, <2>4, StepsCalm1, StepsCalm2, StepsCalm3, StepsCalm4, StartCalm DEF Step
      <3>2. QED BY <2>1, <3>1, CalmGoesOn
    <2>5. QED BY <2>3, <2>4
  <1>3. QED BY <1>1, <1>2

THEOREM MakingIsKept == Spec => [](Making /\ OneEach)
  BY InitMakes, NextMakes, AlwaysTyped, ReferencesAreCounted, PTL DEF Spec

\* The free list has exactly the vnodes that nobody has a reference of, but for
\* those that getnewvnode has taken off it to clean them: a vnode that vget or
\* the name cache finds is taken off it once, and vrele puts it back with the
\* last reference.
THEOREM FreeVnodesAreUnused == Spec => []FreeListIsUnused
  <1>1. Typed /\ Making => FreeListIsUnused
    <2> SUFFICES ASSUME Typed, FreeIs PROVE FreeListIsUnused
      BY DEF Making, FreeListIsUnused
    <2>1. ASSUME NEW v \in Vnodes, NEW t \in Threads
          PROVE  (\A f \in Inits(t) : f.v # v) <=>
                 \A k \in DOMAIN th[t].stack : ~(th[t].stack[k].at = "init" /\ th[t].stack[k].v = v)
      BY DEF Inits, Marks, Frames
    <2>2. QED BY <2>1 DEF FreeIs, FreeListIsUnused
  <1>2. QED BY <1>1, MakingIsKept, AlwaysTyped, PTL

\* An inode is on its hash chain at most once, however many threads look for it
\* at the same time: iget searches the chain again before it puts the inode it
\* has made on it, under the lock of the chain.
THEOREM OneInodeOnAChain == Spec => []OneVnodePerInode
  <1>1. OneEach => OneVnodePerInode
    <2> SUFFICES ASSUME OneEach, NEW i \in Inos PROVE Cardinality(InHash(i)) <= 1
      BY DEF OneVnodePerInode
    <2>1. \A v, w \in InHash(i) : v = w
      BY DEF OneEach, InHash
    <2>2. CASE InHash(i) = {}
      BY <2>2, FS_EmptySet
    <2>3. CASE InHash(i) # {}
      <3>1. \E v : v \in InHash(i)
        BY <2>3
      <3>2. PICK v : v \in InHash(i)
        BY <3>1
      <3>3. InHash(i) = {v}
        BY <2>1, <3>2
      <3>4. Cardinality({v}) = 1
        BY FS_Singleton
      <3>5. QED BY <3>3, <3>4
    <2>4. QED BY <2>2, <2>3
  <1>2. QED BY <1>1, MakingIsKept, PTL
=============================================================================
