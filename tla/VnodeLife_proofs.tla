-------------------------- MODULE VnodeLife_proofs --------------------------
(***************************************************************************)
(* More proofs about Vnode: which calls nest in which, that one thread at  *)
(* a time cleans a vnode, that the sanity checks of the code hold, and     *)
(* (VnodeHistory) who keeps the vnode that it has found.                   *)
(***************************************************************************)
EXTENDS Vnode_proofs, VnodeHistory

------------------------------------------------------------------------------
\* Which calls nest

ReleLabels  == {"rele", "rele_slept", "inactive", "drop"}
InactLabels == {"stale", "trunc", "ifree", "last", "end"}
UfsLabels   == InactLabels \union {"ufs_inactive"}
CleanLabels == {"clean", "dead", "reclaim", "purge", "gone_end"}
CallLabels  == {"cached", "scan", "get", "fail"}       \* of a lookup that calls vrele

Empty == <<>>
Hd(s) == s[1]
Tl(s) == Tail(s)

Caller(s)      == s = Empty \/ (Hd(s).at \in CallLabels /\ Tl(s) = Empty)
Dropping(s, v) == s # Empty /\ Hd(s).at = "drop" /\ Hd(s).v = v /\ Caller(Tl(s))
\* A call that has a reference of v and is to clean v now
Active(s, v)   == /\ s # Empty /\ Hd(s).v = v
                  /\ \/ Hd(s).at = "dup" /\ Tl(s) = Empty
                     \/ Dropping(s, v)
                     \/ Hd(s).at = "end" /\ Dropping(Tl(s), v)
\* Those that clean a vnode without references: getnewvnode and vflush
Unused1(s, v)  == s = Empty \/ (Hd(s).at = "init" /\ Hd(s).v = v /\ Tl(s) = Empty)

Looks(f, s)       == f.at \in LookLabels \union {"gone_slept"} /\ s = Empty
Releases(f, s)    == f.at \in ReleLabels /\ Caller(s)
Inactivates(f, s) == f.at \in UfsLabels /\ Dropping(s, f.v)
CleansUsed(f, s)  == f.at \in CleanLabels /\ Active(s, f.v)
CleansUnused(f, s) == /\ f.at \in CleanLabels /\ Unused1(s, f.v)
                      /\ f.at \in {"dead", "reclaim", "purge"} => ~f.flag
\* The calls of vclean, with the reference that it has taken
GivesBack(f, s)   == /\ f.at = "rele" /\ s # Empty /\ Hd(s).at = "gone_end" /\ Hd(s).v = f.v
                     /\ Active(Tl(s), f.v)
Reclaims(f, s)    == /\ f.at \in UfsLabels /\ s # Empty /\ Hd(s).at = "reclaim" /\ Hd(s).v = f.v
                     /\ Hd(s).flag /\ Active(Tl(s), f.v)

OnTop(f, s) == \/ Looks(f, s) \/ Releases(f, s) \/ Inactivates(f, s)
               \/ CleansUsed(f, s) \/ CleansUnused(f, s) \/ GivesBack(f, s) \/ Reclaims(f, s)
Shaped(s)   == s # Empty => OnTop(Hd(s), Tl(s))

\* The vnodes of the frames with a label of L
Vs(s, L) == {f.v : f \in Marks(s, L)}

LEMMA HeadFacts ==
  ASSUME NEW f \in Frame, NEW s \in Seq(Frame)
  PROVE  /\ Push(f, s) \in Seq(Frame) /\ Push(f, s) # Empty /\ Hd(Push(f, s)) = f /\ Tl(Push(f, s)) = s
         /\ \A L : f.at \in L => Vs(Push(f, s), L) = Vs(s, L) \union {f.v}
         /\ \A L : f.at \notin L => Vs(Push(f, s), L) = Vs(s, L)
  <1>1. /\ Push(f, s) \in Seq(Frame) /\ Push(f, s) # Empty /\ Hd(Push(f, s)) = f /\ Tl(Push(f, s)) = s
    BY PushFrame DEF Empty, Hd, Tl
  <1>2. ASSUME NEW L, f.at \in L PROVE Vs(Push(f, s), L) = Vs(s, L) \union {f.v}
    <2>1. Marks(Push(f, s), L) = Marks(s, L) \union {f}
      BY <1>2, MarksAre
    <2>2. QED BY <2>1 DEF Vs
  <1>3. ASSUME NEW L, f.at \notin L PROVE Vs(Push(f, s), L) = Vs(s, L)
    <2>1. Marks(Push(f, s), L) = Marks(s, L)
      BY <1>3, MarksAre
    <2>2. QED BY <2>1 DEF Vs
  <1>4. QED BY <1>1, <1>2, <1>3

LEMMA EmptyStack == Empty \in Seq(Frame) /\ \A L : Vs(Empty, L) = {}
  <1>1. Empty \in Seq(Frame)
    BY DEF Empty
  <1>2. Frames(Empty) = {}
    BY <1>1, FramesInSet DEF Empty
  <1>3. QED BY <1>1, <1>2 DEF Vs, Marks

LEMMA ConsFacts ==
  ASSUME NEW s \in Seq(Frame), s # Empty
  PROVE  /\ Hd(s) \in Frame /\ Tl(s) \in Seq(Frame) /\ s = Push(Hd(s), Tl(s))
         /\ \A L : Hd(s).at \in L => Vs(s, L) = Vs(Tl(s), L) \union {Hd(s).v}
         /\ \A L : Hd(s).at \notin L => Vs(s, L) = Vs(Tl(s), L)
  <1>1. Hd(s) \in Frame /\ Tl(s) \in Seq(Frame) /\ s = Push(Hd(s), Tl(s))
    BY StackFacts DEF Empty, Hd, Tl
  <1>2. QED BY <1>1, HeadFacts

\* What is under the top is a stack of the same kind.
LEMMA UnderIsShaped ==
  ASSUME NEW f, NEW s, OnTop(f, s)
  PROVE  /\ Shaped(s)
         /\ f.at \notin CleanLabels /\ s # Empty =>
              Hd(s).at # "init" /\ (Hd(s).at \in CleanLabels => Tl(s) # Empty)
  <1> USE DEF CleanLabels, UfsLabels, InactLabels, ReleLabels, CallLabels, LookLabels
  <1>1. CASE Looks(f, s)
    BY <1>1 DEF Looks, Shaped
  <1>2. Caller(s) => Shaped(s) /\ (s # Empty => Hd(s).at \in CallLabels)
    BY DEF Caller, Shaped, OnTop, Looks
  <1>3. CASE Releases(f, s)
    BY <1>2, <1>3 DEF Releases
  <1>4. \A v : Dropping(s, v) => Shaped(s) /\ Hd(s).at = "drop"
    BY DEF Dropping, Shaped, OnTop, Releases
  <1>5. CASE Inactivates(f, s)
    BY <1>4, <1>5 DEF Inactivates
  <1>6. CASE CleansUsed(f, s)
    <2>1. CASE Hd(s).at = "dup" /\ Tl(s) = Empty
      BY <1>6, <2>1 DEF CleansUsed, Shaped, OnTop, Looks
    <2>2. CASE Dropping(s, f.v)
      BY <1>4, <1>6, <2>2 DEF CleansUsed
    <2>3. CASE Hd(s).at = "end" /\ Dropping(Tl(s), f.v) /\ Hd(s).v = f.v
      BY <1>6, <2>3 DEF CleansUsed, Shaped, OnTop, Inactivates
    <2>4. QED BY <1>6, <2>1, <2>2, <2>3 DEF CleansUsed, Active
  <1>7. CASE CleansUnused(f, s)
    BY <1>7 DEF CleansUnused, Unused1, Shaped, OnTop, Looks
  <1>8. CASE GivesBack(f, s)
    BY <1>8 DEF GivesBack, Shaped, OnTop, CleansUsed, Active
  <1>9. CASE Reclaims(f, s)
    BY <1>9 DEF Reclaims, Shaped, OnTop, CleansUsed, Active
  <1>10. QED BY <1>1, <1>3, <1>5, <1>6, <1>7, <1>8, <1>9 DEF OnTop

\* The vnode that a call cleans: at most one, at the top or under it
LEMMA ShapeCleans ==
  ASSUME NEW f \in Frame, NEW s \in Seq(Frame), OnTop(f, s)
  PROVE  /\ f.at \in CleanLabels => Vs(s, CleanLabels) = {}
         /\ GivesBack(f, s) \/ Reclaims(f, s) => Vs(s, CleanLabels) = {f.v}
         /\ ~GivesBack(f, s) /\ ~Reclaims(f, s) => Vs(s, CleanLabels) = {}
  <1> DEFINE C == CleanLabels
  <1>1. /\ "drop" \notin C /\ "end" \notin C /\ "dup" \notin C /\ "init" \notin C
        /\ "rele" \notin C /\ "reclaim" \in C /\ "gone_end" \in C
        /\ \A at \in CallLabels : at \notin C
        /\ \A at \in UfsLabels : at \notin C
    BY DEF CleanLabels, CallLabels, UfsLabels, InactLabels
  <1> HIDE DEF C
  <1>2. ASSUME NEW x \in Seq(Frame), Caller(x) PROVE Vs(x, C) = {}
    BY <1>1, <1>2, ConsFacts, EmptyStack DEF Caller
  <1>3. ASSUME NEW x \in Seq(Frame), NEW v, Dropping(x, v) PROVE Vs(x, C) = {}
    BY <1>1, <1>2, <1>3, ConsFacts DEF Dropping
  <1>4. ASSUME NEW x \in Seq(Frame), NEW v, Active(x, v) PROVE Vs(x, C) = {}
    <2>1. CASE Hd(x).at = "dup" /\ Tl(x) = Empty
      BY <1>1, <1>4, <2>1, ConsFacts, EmptyStack DEF Active
    <2>2. CASE Dropping(x, v)
      BY <1>3, <2>2
    <2>3. CASE Hd(x).at = "end" /\ Dropping(Tl(x), v)
      BY <1>1, <1>3, <1>4, <2>3, ConsFacts DEF Active
    <2>4. QED BY <1>4, <2>1, <2>2, <2>3 DEF Active
  <1>5. ASSUME NEW x \in Seq(Frame), NEW v, Unused1(x, v) PROVE Vs(x, C) = {}
    BY <1>1, <1>5, ConsFacts, EmptyStack DEF Unused1
  <1>6. ASSUME GivesBack(f, s) \/ Reclaims(f, s) PROVE Vs(s, C) = {f.v}
    <2>1. s # Empty /\ Hd(s).at \in C /\ Hd(s).v = f.v /\ Active(Tl(s), f.v)
      BY <1>1, <1>6 DEF GivesBack, Reclaims
    <2>2. Tl(s) \in Seq(Frame) /\ Vs(s, C) = Vs(Tl(s), C) \union {f.v}
      BY <2>1, ConsFacts
    <2>3. QED BY <1>4, <2>1, <2>2
  <1>7. ASSUME ~GivesBack(f, s), ~Reclaims(f, s) PROVE Vs(s, C) = {}
    <2>1. CASE Looks(f, s)
      BY <2>1, EmptyStack DEF Looks
    <2>2. CASE Releases(f, s)
      BY <1>2, <2>2 DEF Releases
    <2>3. CASE Inactivates(f, s)
      BY <1>3, <2>3 DEF Inactivates
    <2>4. CASE CleansUsed(f, s)
      BY <1>4, <2>4 DEF CleansUsed
    <2>5. CASE CleansUnused(f, s)
      BY <1>5, <2>5 DEF CleansUnused
    <2>6. QED BY <1>7, <2>1, <2>2, <2>3, <2>4, <2>5 DEF OnTop
  <1>8. f.at \in C => ~GivesBack(f, s) /\ ~Reclaims(f, s)
    BY <1>1 DEF GivesBack, Reclaims
  <1>9. QED BY <1>6, <1>7, <1>8 DEF C
------------------------------------------------------------------------------
\* How deep the calls nest, and how many references of a vnode they have

LEMMA ConsCounts ==
  ASSUME NEW s \in Seq(Frame), s # Empty, NEW v
  PROVE  /\ Count(s, OwnFrames(v)) = Count(Tl(s), OwnFrames(v)) + IF Owns(Hd(s), v) THEN 1 ELSE 0
         /\ Count(s, OwnFrames(v)) \in Nat /\ Count(Tl(s), OwnFrames(v)) \in Nat
         /\ Len(s) = Len(Tl(s)) + 1 /\ Len(Tl(s)) \in Nat
  <1>1. Hd(s) \in Frame /\ Tl(s) \in Seq(Frame) /\ s = Push(Hd(s), Tl(s))
    BY ConsFacts
  <1>2. Hd(s) \in OwnFrames(v) <=> Owns(Hd(s), v)
    BY <1>1 DEF OwnFrames
  <1>3. Count(s, OwnFrames(v)) \in Nat /\ Count(Tl(s), OwnFrames(v)) \in Nat
    <2> DEFINE S == Frame
    <2>1. s \in Seq(S) /\ Tl(s) \in Seq(S)
      BY <1>1
    <2> HIDE DEF S
    <2>2. QED BY <2>1, CountFacts
  <1>4. Len(Tl(s)) \in Nat
    BY <1>1
  <1>5. Len(s) = Len(Tl(s)) + 1
        /\ Count(s, OwnFrames(v)) = Count(Tl(s), OwnFrames(v)) + IF Hd(s) \in OwnFrames(v) THEN 1 ELSE 0
    <2>1. ASSUME NEW h \in Frame, NEW r \in Seq(Frame), NEW F
          PROVE  Len(Push(h, r)) = Len(r) + 1 /\ Count(Push(h, r), F) = Count(r, F) + IF h \in F THEN 1 ELSE 0
      BY PushFrame
    <2>2. QED BY <1>1, <2>1
  <1>6. QED BY <1>2, <1>3, <1>4, <1>5

LEMMA EmptyCounts == Len(Empty) = 0 /\ \A v : Count(Empty, OwnFrames(v)) = 0
  BY EmptyCount DEF Empty

LEMMA ShapeCounts ==
  ASSUME NEW s \in Seq(Frame), NEW v
  PROVE  /\ Caller(s) => Count(s, OwnFrames(v)) = 0 /\ Len(s) <= 1
         /\ \A w : /\ Dropping(s, w) => Count(s, OwnFrames(v)) = One(w, v) /\ Len(s) <= 2
                   /\ Active(s, w) => Count(s, OwnFrames(v)) = One(w, v) /\ Len(s) <= 3
                   /\ Unused1(s, w) => Count(s, OwnFrames(v)) = 0 /\ Len(s) <= 1
  <1> DEFINE C(x) == Count(x, OwnFrames(v))
  <1>0. C(Empty) = 0 /\ Len(Empty) = 0
    BY EmptyCounts
  <1>1. ASSUME NEW x \in Seq(Frame), x # Empty
        PROVE  /\ Tl(x) \in Seq(Frame) /\ Len(x) = Len(Tl(x)) + 1 /\ Len(Tl(x)) \in Nat
               /\ C(x) = C(Tl(x)) + IF Owns(Hd(x), v) THEN 1 ELSE 0
               /\ C(Tl(x)) \in Nat
    BY <1>1, ConsCounts, ConsFacts
  <1>2. ASSUME NEW f
        PROVE  /\ f.at \in CallLabels \union {"init", "end"} => ~Owns(f, v)
               /\ f.at \in {"drop", "dup"} => (Owns(f, v) <=> f.v = v)
    BY DEF Owns, CallLabels
  <1> HIDE DEF C
  <1>3. ASSUME NEW x \in Seq(Frame), Caller(x) PROVE C(x) = 0 /\ Len(x) <= 1
    BY <1>0, <1>1, <1>2, <1>3 DEF Caller
  <1>4. ASSUME NEW x \in Seq(Frame), NEW w, Dropping(x, w) PROVE C(x) = One(w, v) /\ Len(x) <= 2
    <2>1. x # Empty /\ Hd(x).at = "drop" /\ Hd(x).v = w /\ Caller(Tl(x))
      BY <1>4 DEF Dropping
    <2>2. C(Tl(x)) = 0 /\ Len(Tl(x)) <= 1
      BY <1>1, <1>3, <2>1
    <2>3. QED BY <1>1, <1>2, <2>1, <2>2 DEF One
  <1>5. ASSUME NEW x \in Seq(Frame), NEW w, Active(x, w) PROVE C(x) = One(w, v) /\ Len(x) <= 3
    <2>0. x # Empty /\ Hd(x).v = w
      BY <1>5 DEF Active
    <2>1. CASE Hd(x).at = "dup" /\ Tl(x) = Empty
      BY <1>0, <1>1, <1>2, <2>0, <2>1 DEF One
    <2>2. CASE Dropping(x, w)
      BY <1>1, <1>4, <2>0, <2>2
    <2>3. CASE Hd(x).at = "end" /\ Dropping(Tl(x), w)
      <3>1. C(Tl(x)) = One(w, v) /\ Len(Tl(x)) <= 2
        BY <1>1, <1>4, <2>0, <2>3
      <3>2. QED BY <1>1, <1>2, <2>0, <2>3, <3>1
    <2>4. QED BY <1>5, <2>1, <2>2, <2>3 DEF Active
  <1>6. ASSUME NEW x \in Seq(Frame), NEW w, Unused1(x, w) PROVE C(x) = 0 /\ Len(x) <= 1
    BY <1>0, <1>1, <1>2, <1>6 DEF Unused1
  <1>7. QED BY <1>3, <1>4, <1>5, <1>6 DEF C

\* A call has at most two references of a vnode, and two of one that vclean is
\* about to give back.
LEMMA TopCounts ==
  ASSUME NEW f \in Frame, NEW s \in Seq(Frame), OnTop(f, s), NEW v
  PROVE  /\ Count(Push(f, s), OwnFrames(v)) \in 0 .. 2
         /\ Len(Push(f, s)) <= 5
         /\ GivesBack(f, s) => Count(Push(f, s), OwnFrames(f.v)) = 2
  <1> DEFINE x == Push(f, s)
             D(y) == Count(y, OwnFrames(v))
  <1>0. x \in Seq(Frame) /\ x # Empty /\ Hd(x) = f /\ Tl(x) = s
    BY HeadFacts
  <1> HIDE DEF x
  <1>1. ASSUME NEW w
        PROVE  /\ Count(x, OwnFrames(w)) = Count(s, OwnFrames(w)) + IF Owns(f, w) THEN 1 ELSE 0
               /\ Count(s, OwnFrames(w)) \in Nat
               /\ Len(x) = Len(s) + 1 /\ Len(s) \in Nat
    BY <1>0, ConsCounts
  <1>2. \A w : One(w, v) \in {0, 1} /\ One(w, w) = 1
    BY DEF One
  <1>3. ASSUME GivesBack(f, s) \/ Reclaims(f, s)
        PROVE  /\ \A w : Count(s, OwnFrames(w)) = One(f.v, w) + (IF Owns(Hd(s), w) THEN 1 ELSE 0)
               /\ Len(s) <= 4
    <2>1. s # Empty /\ Active(Tl(s), f.v) /\ Tl(s) \in Seq(Frame)
      BY <1>3, ConsFacts DEF GivesBack, Reclaims
    <2>2. ASSUME NEW w PROVE /\ Count(s, OwnFrames(w)) = One(f.v, w) + (IF Owns(Hd(s), w) THEN 1 ELSE 0)
                             /\ Len(s) <= 4
      <3>1. Count(Tl(s), OwnFrames(w)) = One(f.v, w) /\ Len(Tl(s)) <= 3
        BY <2>1, ShapeCounts
      <3>2. QED BY <2>1, <3>1, ConsCounts
    <2>3. QED BY <2>2
  <1>4. CASE Looks(f, s)
    <2>1. ~GivesBack(f, s)
      BY <1>4 DEF Looks, GivesBack
    <2>2. Count(s, OwnFrames(v)) = 0 /\ Len(s) <= 0
      BY <1>4, EmptyCounts DEF Looks
    <2>3. QED BY <1>1, <2>1, <2>2 DEF x
  <1>5. CASE Releases(f, s)
    <2>1. Count(s, OwnFrames(v)) = 0 /\ Len(s) <= 1
      BY <1>5, ShapeCounts DEF Releases
    <2>2. ~GivesBack(f, s)
      BY <1>5 DEF Releases, Caller, CallLabels, GivesBack
    <2>3. QED BY <1>1, <2>1, <2>2 DEF x
  <1>6. CASE Inactivates(f, s)
    <2>1. Count(s, OwnFrames(v)) = One(f.v, v) /\ Len(s) <= 2
      BY <1>6, ShapeCounts DEF Inactivates
    <2>2. ~GivesBack(f, s)
      BY <1>6 DEF Inactivates, UfsLabels, InactLabels, GivesBack
    <2>3. QED BY <1>1, <1>2, <2>1, <2>2 DEF x
  <1>7. CASE CleansUsed(f, s)
    <2>1. Count(s, OwnFrames(v)) = One(f.v, v) /\ Len(s) <= 3
      BY <1>7, ShapeCounts DEF CleansUsed
    <2>2. ~GivesBack(f, s)
      BY <1>7 DEF CleansUsed, CleanLabels, GivesBack
    <2>3. QED BY <1>1, <1>2, <2>1, <2>2 DEF x
  <1>8. CASE CleansUnused(f, s)
    <2>1. Count(s, OwnFrames(v)) = 0 /\ Len(s) <= 1
      BY <1>8, ShapeCounts DEF CleansUnused
    <2>2. ~GivesBack(f, s)
      BY <1>8 DEF CleansUnused, CleanLabels, GivesBack
    <2>3. QED BY <1>1, <1>2, <2>1, <2>2 DEF x
  <1>9. CASE GivesBack(f, s)
    <2>1. \A w : ~Owns(Hd(s), w)
      BY <1>9 DEF GivesBack, Owns
    <2>2. \A w : Owns(f, w) <=> f.v = w
      BY <1>9 DEF GivesBack, Owns
    <2>3. ASSUME NEW w PROVE Count(x, OwnFrames(w)) = 2 * One(f.v, w) /\ Len(x) <= 5
      BY <1>1, <1>3, <1>9, <2>1, <2>2 DEF One
    <2>4. QED BY <1>2, <2>3 DEF x
  <1>10. CASE Reclaims(f, s)
    <2>1. \A w : ~Owns(f, w)
      BY <1>10 DEF Reclaims, UfsLabels, InactLabels, Owns
    <2>2. ~GivesBack(f, s)
      BY <1>10 DEF Reclaims, UfsLabels, InactLabels, GivesBack
    <2>3. QED BY <1>1, <1>2, <1>3, <1>10, <2>1, <2>2 DEF x
  <1>11. QED BY <1>4, <1>5, <1>6, <1>7, <1>8, <1>9, <1>10 DEF OnTop

\* One of the calls of a thread at most is cleaning a vnode.
LEMMA OneCleans ==
  ASSUME NEW s \in Seq(Frame), Shaped(s),
         NEW j \in DOMAIN s, NEW k \in DOMAIN s, s[j].at \in CleanLabels, s[k].at \in CleanLabels
  PROVE  j = k
  <1> DEFINE C == CleanLabels
  <1>1. Len(s) \in Nat /\ DOMAIN s = 1 .. Len(s)
    OBVIOUS
  <1>2. ASSUME NEW x \in Seq(Frame), Vs(x, C) = {}, NEW n \in DOMAIN x PROVE x[n].at \notin C
    BY <1>2 DEF Vs, Marks, Frames
  <1>3. ASSUME NEW x \in Seq(Frame), x # Empty
        PROVE  \A n \in DOMAIN x : n = 1 \/ (n - 1 \in DOMAIN Tl(x) /\ x[n] = Tl(x)[n - 1])
    BY <1>3 DEF Tl, Empty
  <1>4. s # Empty
    BY <1>1 DEF Empty
  <1>5. Hd(s) \in Frame /\ Tl(s) \in Seq(Frame) /\ OnTop(Hd(s), Tl(s)) /\ Hd(s) = s[1]
    BY <1>4, ConsFacts DEF Shaped, Hd
  <1>6. CASE Hd(s).at \in C
    <2>1. Vs(Tl(s), C) = {}
      BY <1>5, <1>6, ShapeCleans
    <2>2. QED BY <1>1, <1>2, <1>3, <1>4, <1>5, <2>1
  <1>7. CASE Hd(s).at \notin C
    <2>1. \A n \in DOMAIN s : s[n].at \in C => n - 1 \in DOMAIN Tl(s) /\ s[n] = Tl(s)[n - 1]
      BY <1>3, <1>4, <1>5, <1>7
    <2>2. Tl(s) # Empty
      BY <2>1 DEF Empty
    <2>3. ASSUME ~GivesBack(Hd(s), Tl(s)), ~Reclaims(Hd(s), Tl(s)) PROVE FALSE
      <3>1. Vs(Tl(s), C) = {}
        BY <1>5, <2>3, ShapeCleans
      <3>2. QED BY <1>2, <1>5, <2>1, <3>1
    <2>4. Active(Tl(Tl(s)), Hd(s).v) /\ Tl(Tl(s)) \in Seq(Frame) /\ Hd(Tl(s)).at \in C
      BY <1>5, <2>2, <2>3, ConsFacts DEF GivesBack, Reclaims, CleanLabels
    <2>5. Vs(Tl(Tl(s)), C) = {}
      BY <1>5, <2>2, <2>4, ConsFacts, UnderIsShaped, ShapeCleans DEF Shaped
    <2>6. \A n \in DOMAIN Tl(s) : Tl(s)[n].at \in C => n = 1
      BY <1>2, <1>3, <1>5, <2>2, <2>4, <2>5
    <2>7. QED BY <1>1, <2>1, <2>6
  <1>8. QED BY <1>6, <1>7
------------------------------------------------------------------------------
\* Who cleans a vnode

Cleaning(t) == Vs(th[t].stack, CleanLabels)
\* Vnodes are cleaned without a reference by getnewvnode and vflush.
Lone(s)     == s # Empty /\ Hd(s).at \in CleanLabels /\ Unused1(Tl(s), Hd(s).v)

Shapes    == \A t \in Threads : Shaped(th[t].stack)
LocksAre  == \A v \in Vnodes :
               /\ vn[v].xlock => \E t \in Threads : v \in Cleaning(t)
               /\ \A t \in Threads : v \in Cleaning(t) =>
                     vn[v].xlock /\ \A u \in Threads \ {t} : v \notin Cleaning(u)
BadIsGone == \A v \in Vnodes : vn[v].type = "bad" => ~vn[v].listed
\* The vnode that getnewvnode has taken, when it has been cleaned
InitTops  == \A t \in Threads : \A f \in Frame :
               th[t].stack # Empty /\ Hd(th[t].stack) = f /\ f.at = "init" =>
                  vn[f.v].type = "bad" /\ ~vn[f.v].xlock
LonesAre  == \A t \in Threads : Lone(th[t].stack) => vn[Hd(th[t].stack).v].count = 0
Life      == /\ Shapes /\ LocksAre /\ BadIsGone
             /\ panic = "none" => InitTops /\ LonesAre

\* What a step of t may do to them
LockStep(t)  ==
  \/ SameLocks /\ Cleaning(t)' = Cleaning(t)
  \/ \E v \in Vnodes : /\ ~vn[v].xlock /\ LockIs(v, TRUE) /\ Cleaning(t)' = Cleaning(t) \union {v}
                       /\ v \in free \/ Owner(t, v) \/ vn[v].listed
  \/ \E v \in Vnodes : /\ LockIs(v, FALSE) /\ v \in Cleaning(t) /\ Cleaning(t)' = Cleaning(t) \ {v}
BodyStep(t)  ==
  \A w \in Vnodes :
    \/ vn'[w].type = vn[w].type /\ (vn'[w].listed => vn[w].listed)
    \/ vn'[w].type = "bad" /\ ~vn'[w].listed
    \/ vn'[w].type # "bad" /\ (Owner(t, w) \/ \E f \in Inits(t) : f.v = w)
CountStep    ==
  \A w \in Vnodes : vn'[w].count <= vn[w].count \/ ~vn[w].xlock \/ vn[w].count # 0
TopStep(t)   ==
  /\ \A f \in Frame : th'[t].stack # Empty /\ Hd(th'[t].stack) = f /\ f.at = "init" =>
        vn'[f.v].type = "bad" /\ ~vn'[f.v].xlock
  /\ Lone(th'[t].stack) => vn'[Hd(th'[t].stack).v].count = 0
Lives(t)     ==
  /\ OthersAgree(t) /\ Shaped(th'[t].stack) /\ LockStep(t) /\ BodyStep(t)
  /\ panic' = "none" => CountStep /\ TopStep(t)

LEMMA StackIn == ASSUME Typed, NEW t \in Threads PROVE th[t].stack \in Seq(Frame)
  BY DEF Typed, ThreadRecord

LEMMA FrameVnodes ==
  ASSUME Typed, NEW t \in Threads, NEW f \in Frames(th[t].stack), f.at \notin NoVnode
  PROVE  f.v \in Vnodes
  BY DEF Typed, CallFits

LEMMA TopFrame ==
  ASSUME Typed, NEW t \in Threads, th[t].stack # Empty
  PROVE  Hd(th[t].stack) \in Frames(th[t].stack) /\ Hd(th[t].stack) \in Frame
  <1>1. th[t].stack \in Seq(Frame)
    BY StackIn
  <1>2. Hd(th[t].stack) \in Frame /\ Tl(th[t].stack) \in Seq(Frame)
        /\ th[t].stack = Push(Hd(th[t].stack), Tl(th[t].stack))
    BY <1>1, ConsFacts
  <1>3. \A f \in Frame, s \in Seq(Frame) : f \in Frames(Push(f, s))
    BY PushFrame
  <1>4. QED BY <1>2, <1>3

LEMMA CleaningVnodes ==
  ASSUME Typed, NEW t \in Threads PROVE Cleaning(t) \subseteq Vnodes
  <1>1. \A f \in Frames(th[t].stack) : f.at \in CleanLabels => f.v \in Vnodes
    BY FrameVnodes DEF NoVnode, CleanLabels
  <1>2. QED BY <1>1 DEF Cleaning, Vs, Marks

LEMMA CountsNatural ==
  ASSUME Typed, Counted PROVE \A v \in Vnodes : vn[v].count \in Nat
  BY RefSumIs DEF Counted

LEMMA CountedIs == Typed /\ Counted => RefsAreCounted
  BY RefsAreCountedIs DEF Counted

LEMMA LivesGoesOn ==
  ASSUME Typed, Typed', Counted, Counted', Making, panic = "none", Life, NEW t \in Threads, Lives(t)
  PROVE  Life'
  <1>1. FreeIs /\ InitsAre
    BY DEF Making
  <1>2. \A u \in Threads \ {t} : th'[u].stack = th[u].stack
    BY DEF Lives, OthersAgree, Agree
  <1>3. \A u \in Threads \ {t} : Cleaning(u)' = Cleaning(u)
    BY <1>2 DEF Cleaning, Vs, Marks, Frames
  <1>4. Shapes'
    <2>1. \A u \in Threads : Shaped(th'[u].stack)
      BY <1>2 DEF Life, Lives, Shapes
    <2>2. QED
      BY <2>1 DEF Shapes, Shaped, OnTop, Looks, Releases, Inactivates, CleansUsed, CleansUnused,
                  GivesBack, Reclaims, Active, Dropping, Caller, Unused1
  <1>5. LocksAre'
    <2>1. CASE SameLocks /\ Cleaning(t)' = Cleaning(t)
      BY <1>3, <2>1 DEF Life, LocksAre, SameLocks
    <2>2. ASSUME NEW v \in Vnodes, ~vn[v].xlock, LockIs(v, TRUE), Cleaning(t)' = Cleaning(t) \union {v}
          PROVE  LocksAre'
      BY <1>3, <2>2 DEF Life, LocksAre, LockIs
    <2>3. ASSUME NEW v \in Vnodes, LockIs(v, FALSE), v \in Cleaning(t), Cleaning(t)' = Cleaning(t) \ {v}
          PROVE  LocksAre'
      BY <1>3, <2>3 DEF Life, LocksAre, LockIs
    <2>4. QED BY <2>1, <2>2, <2>3 DEF Lives, LockStep
  <1>6. BadIsGone'
    BY DEF Life, BadIsGone, Lives, BodyStep
  <1>7. ASSUME panic' = "none", NEW u \in Threads, u # t, NEW f \in Frame,
               th[u].stack # Empty, Hd(th[u].stack) = f, f.at = "init"
        PROVE  vn'[f.v].type = "bad" /\ ~vn'[f.v].xlock
    <2>1. f \in Inits(u) /\ f.v \in Vnodes
      <3>1. f \in Frames(th[u].stack)
        BY <1>7, TopFrame
      <3>2. QED BY <1>7, <3>1, FrameVnodes DEF Inits, Marks, NoVnode
    <2>2. vn[f.v].type = "bad" /\ ~vn[f.v].xlock /\ ~vn[f.v].listed
      BY <1>7, <2>1 DEF Life, InitTops, BadIsGone
    <2>3. f.v \notin free /\ \A g \in Inits(t) : g.v # f.v
      BY <1>1, <1>7, <2>1 DEF FreeIs, InitsAre
    <2>4. ~Owner(t, f.v)
      <3>1. vn[f.v].count = 0
        BY <1>1, <2>1 DEF InitsAre
      <3>2. vn[f.v].count >= Refs(th[t], f.v) /\ Refs(th[t], f.v) \in Nat
        BY <2>1, CountsAre, CountedIs
      <3>3. QED BY <3>1, <3>2 DEF Owner
    <2>5. vn'[f.v].type = "bad"
      BY <2>1, <2>2, <2>3, <2>4 DEF Lives, BodyStep
    <2>6. ~vn'[f.v].xlock
      BY <2>1, <2>2, <2>3, <2>4 DEF Lives, LockStep, SameLocks, LockIs
    <2>7. QED BY <2>5, <2>6
  <1>8. ASSUME panic' = "none", NEW u \in Threads, u # t, Lone(th[u].stack)
        PROVE  vn'[Hd(th[u].stack).v].count = 0
    <2> DEFINE f == Hd(th[u].stack)
    <2>1. f \in Frames(th[u].stack) /\ f.at \in CleanLabels
      BY <1>8, TopFrame DEF Lone
    <2>2. f.v \in Cleaning(u)
      BY <2>1 DEF Cleaning, Vs, Marks
    <2>3. f.v \in Vnodes
      BY <2>2, CleaningVnodes
    <2>4. vn[f.v].xlock /\ vn[f.v].count = 0
      BY <1>8, <2>2, <2>3 DEF Life, LocksAre, LonesAre
    <2>5. vn'[f.v].count \in Nat
      <3>1. (\A v \in Vnodes : vn[v].count \in Nat)'
        BY CountsNatural, PTL
      <3>2. QED BY <2>3, <3>1
    <2>6. vn'[f.v].count <= 0
      BY <1>8, <2>3, <2>4 DEF Lives, CountStep
    <2>7. QED BY <2>5, <2>6
  <1>9. ASSUME panic' = "none" PROVE InitTops' /\ LonesAre'
    <2>1. \A u \in Threads : \A f \in Frame :
             th'[u].stack # Empty /\ Hd(th'[u].stack) = f /\ f.at = "init" =>
                vn'[f.v].type = "bad" /\ ~vn'[f.v].xlock
      BY <1>2, <1>7, <1>9 DEF Lives, TopStep
    <2>2. \A u \in Threads : Lone(th'[u].stack) => vn'[Hd(th'[u].stack).v].count = 0
      <3>1. CASE panic' = "none" /\ TopStep(t)
        BY <1>2, <1>8, <3>1 DEF TopStep
      <3>2. QED BY <1>9, <3>1 DEF Lives
    <2>3. InitTops'
      BY <2>1 DEF InitTops, Hd, Empty
    <2>4. LonesAre'
      BY <2>2 DEF LonesAre, Lone, Hd, Tl, Empty, Unused1
    <2>5. QED BY <2>3, <2>4
  <1>10. QED BY <1>4, <1>5, <1>6, <1>9 DEF Life
------------------------------------------------------------------------------
\* The moves of a call that cleans nothing more and nothing less

Tame(s)    == s # Empty => Hd(s).at # "init" /\ ~Lone(s)
Good(t, s) == Shaped(s) /\ Vs(s, CleanLabels) = Cleaning(t) /\ Tame(s)

LEMMA CallIsShaped ==
  ASSUME Typed, Shapes, NEW t \in Threads, InCall(t)
  PROVE  /\ th[t].stack \in Seq(Frame) /\ th[t].stack # Empty
         /\ Hd(th[t].stack) = Top(t) /\ Tl(th[t].stack) = Below(t)
         /\ Top(t) \in Frame /\ Below(t) \in Seq(Frame)
         /\ OnTop(Top(t), Below(t)) /\ Shaped(Below(t))
         /\ Top(t).at \notin CleanLabels => Cleaning(t) = Vs(Below(t), CleanLabels)
         /\ Top(t).at \in CleanLabels => Cleaning(t) = {Top(t).v} /\ Vs(Below(t), CleanLabels) = {}
         /\ Top(t).at \in LookLabels => Below(t) = Empty /\ Cleaning(t) = {}
  <1>1. /\ th[t].stack \in Seq(Frame) /\ th[t].stack # Empty
        /\ Hd(th[t].stack) = Top(t) /\ Tl(th[t].stack) = Below(t)
        /\ Top(t) \in Frame /\ Below(t) \in Seq(Frame)
    BY DEF InCall, Empty, Hd, Tl, Top, Below
  <1>2. OnTop(Top(t), Below(t))
    BY <1>1 DEF Shapes, Shaped
  <1>3. Shaped(Below(t))
    BY <1>2, UnderIsShaped
  <1>4. Top(t).at \notin CleanLabels => Cleaning(t) = Vs(Below(t), CleanLabels)
    BY <1>1, ConsFacts DEF Cleaning
  <1>5. Top(t).at \in CleanLabels => Cleaning(t) = {Top(t).v} /\ Vs(Below(t), CleanLabels) = {}
    <2>1. ASSUME Top(t).at \in CleanLabels
          PROVE  Cleaning(t) = Vs(Below(t), CleanLabels) \union {Top(t).v}
      BY <1>1, <2>1, ConsFacts DEF Cleaning
    <2>2. QED BY <1>1, <1>2, <2>1, ShapeCleans
  <1>6. Top(t).at \in LookLabels => Below(t) = Empty /\ Cleaning(t) = {}
    <2>1. Top(t).at \in LookLabels => Below(t) = Empty /\ Top(t).at \notin CleanLabels
      BY DEF InCall, Empty, LookLabels, CleanLabels
    <2>2. QED BY <1>4, <2>1, EmptyStack
  <1>7. QED BY <1>1, <1>2, <1>3, <1>4, <1>5, <1>6

\* The stacks of the moves
LEMMA FormsAre ==
  ASSUME NEW t, InCall(t)
  PROVE  /\ \A at \in Labels, v \in Vnodes \union {None}, flag \in BOOLEAN : \E f \in Frame :
              /\ f.at = at /\ f.v = v /\ f.flag = flag
              /\ \A s : Push(Fr(at, v, flag), s) = Push(f, s)
         /\ \A at \in Labels : \E f \in Frame :
              /\ f.at = at /\ f.v = Top(t).v /\ f.flag = Top(t).flag
              /\ Top1(t, at) = Push(f, Below(t))
  <1>1. ASSUME NEW at \in Labels, NEW v \in Vnodes \union {None}, NEW flag \in BOOLEAN
        PROVE  \E f \in Frame : /\ f.at = at /\ f.v = v /\ f.flag = flag
                                /\ \A s : Push(Fr(at, v, flag), s) = Push(f, s)
    <2> DEFINE f == Fr(at, v, flag)
    <2>1. f \in Frame /\ f.at = at /\ f.v = v /\ f.flag = flag
      BY FrFacts
    <2>2. \A s : Push(Fr(at, v, flag), s) = Push(f, s)
      OBVIOUS
    <2> HIDE DEF f
    <2>3. QED BY <2>1, <2>2
  <1>2. Top(t).v \in Vnodes \union {None} /\ Top(t).flag \in BOOLEAN
    BY DEF InCall
  <1>3. QED BY <1>1, <1>2 DEF Top1

LEMMA PushGood ==
  ASSUME NEW t, NEW f \in Frame, NEW s \in Seq(Frame), OnTop(f, s),
         f.at \notin CleanLabels, f.at # "init", Vs(s, CleanLabels) = Cleaning(t)
  PROVE  Good(t, Push(f, s))
  <1> DEFINE x == Push(f, s)
  <1>1. x \in Seq(Frame) /\ x # Empty /\ Hd(x) = f /\ Tl(x) = s
        /\ Vs(x, CleanLabels) = Vs(s, CleanLabels)
    BY HeadFacts
  <1> HIDE DEF x
  <1>2. Good(t, x)
    BY <1>1 DEF Good, Shaped, Tame, Lone
  <1>3. QED BY <1>2 DEF x

LEMMA LookMoves ==
  ASSUME Typed, Shapes, NEW t \in Threads, InCall(t), Top(t).at \in LookLabels
  PROVE  /\ \A f \in Frame : f.at \in LookLabels \ {"init"} => Good(t, Push(f, Below(t)))
         /\ \A f \in Frame : f.at \in ReleLabels => Good(t, Push(f, Below(t)))
         /\ \A f, g \in Frame : f.at \in ReleLabels /\ g.at \in CallLabels => Good(t, Push(f, Push(g, Below(t))))
  <1>1. Below(t) = Empty /\ Cleaning(t) = {} /\ Below(t) \in Seq(Frame) /\ Vs(Below(t), CleanLabels) = {}
    BY CallIsShaped, EmptyStack
  <1>2. ASSUME NEW f \in Frame, f.at \in LookLabels \ {"init"} PROVE Good(t, Push(f, Below(t)))
    <2>1. OnTop(f, Below(t))
      BY <1>1, <1>2 DEF OnTop, Looks
    <2>2. f.at \notin CleanLabels
      BY <1>2 DEF LookLabels, CleanLabels
    <2>3. QED BY <1>1, <1>2, <2>1, <2>2, PushGood
  <1>3. ASSUME NEW f \in Frame, f.at \in ReleLabels, NEW s \in Seq(Frame), Caller(s), Vs(s, CleanLabels) = {}
        PROVE  Good(t, Push(f, s))
    <2>1. OnTop(f, s)
      BY <1>3 DEF OnTop, Releases
    <2>2. f.at \notin CleanLabels /\ f.at # "init"
      BY <1>3 DEF ReleLabels, CleanLabels
    <2>3. QED BY <1>1, <1>3, <2>1, <2>2, PushGood
  <1>4. Caller(Below(t))
    BY <1>1 DEF Caller
  <1>5. ASSUME NEW g \in Frame, g.at \in CallLabels
        PROVE  Push(g, Below(t)) \in Seq(Frame) /\ Caller(Push(g, Below(t)))
               /\ Vs(Push(g, Below(t)), CleanLabels) = {}
    <2> DEFINE x == Push(g, Below(t))
    <2>1. x \in Seq(Frame) /\ x # Empty /\ Hd(x) = g /\ Tl(x) = Below(t)
          /\ \A L : g.at \notin L => Vs(x, L) = Vs(Below(t), L)
      BY <1>1, HeadFacts
    <2>2. g.at \notin CleanLabels
      BY <1>5 DEF CallLabels, CleanLabels
    <2> HIDE DEF x
    <2>3. x \in Seq(Frame) /\ Caller(x) /\ Vs(x, CleanLabels) = {}
      BY <1>1, <1>5, <2>1, <2>2 DEF Caller
    <2>4. QED BY <2>3 DEF x
  <1>6. QED BY <1>1, <1>2, <1>3, <1>4, <1>5

LEMMA ReleMoves ==
  ASSUME Typed, Shapes, NEW t \in Threads, InCall(t), Top(t).at \in ReleLabels, Caller(Below(t))
  PROVE  /\ \A f \in Frame : f.at \in ReleLabels => Good(t, Push(f, Below(t)))
         /\ \A f, g \in Frame : /\ f.at \in UfsLabels /\ g.at = "drop" /\ f.v = g.v
                                => Good(t, Push(f, Push(g, Below(t))))
  <1>1. Below(t) \in Seq(Frame) /\ Cleaning(t) = Vs(Below(t), CleanLabels)
    BY CallIsShaped DEF ReleLabels, CleanLabels
  <1>2. ASSUME NEW f \in Frame, f.at \in ReleLabels PROVE Good(t, Push(f, Below(t)))
    <2>1. OnTop(f, Below(t))
      BY <1>2 DEF OnTop, Releases
    <2>2. f.at \notin CleanLabels /\ f.at # "init"
      BY <1>2 DEF ReleLabels, CleanLabels
    <2>3. QED BY <1>1, <2>1, <2>2, PushGood
  <1>3. ASSUME NEW f \in Frame, NEW g \in Frame, f.at \in UfsLabels, g.at = "drop", f.v = g.v
        PROVE  Good(t, Push(f, Push(g, Below(t))))
    <2> DEFINE x == Push(g, Below(t))
    <2>1. x \in Seq(Frame) /\ x # Empty /\ Hd(x) = g /\ Tl(x) = Below(t)
          /\ \A L : g.at \notin L => Vs(x, L) = Vs(Below(t), L)
      BY <1>1, HeadFacts
    <2>2. g.at \notin CleanLabels /\ f.at \notin CleanLabels /\ f.at # "init"
      BY <1>3 DEF UfsLabels, InactLabels, CleanLabels
    <2> HIDE DEF x
    <2>3. Dropping(x, f.v)
      BY <1>3, <2>1 DEF Dropping
    <2>4. OnTop(f, x)
      BY <1>3, <2>3 DEF OnTop, Inactivates
    <2>5. Good(t, Push(f, x))
      BY <1>1, <2>1, <2>2, <2>4, PushGood
    <2>6. QED BY <2>5 DEF x
  <1>4. QED BY <1>2, <1>3

LEMMA UfsMoves ==
  ASSUME Typed, Shapes, NEW t \in Threads, InCall(t), Top(t).at \in UfsLabels
  PROVE  \A f \in Frame : f.at \in UfsLabels /\ f.v = Top(t).v => Good(t, Push(f, Below(t)))
  <1>1. Below(t) \in Seq(Frame) /\ Cleaning(t) = Vs(Below(t), CleanLabels) /\ OnTop(Top(t), Below(t))
    BY CallIsShaped DEF UfsLabels, InactLabels, CleanLabels
  <1>2. Inactivates(Top(t), Below(t)) \/ Reclaims(Top(t), Below(t))
    BY <1>1 DEF OnTop, Looks, Releases, CleansUsed, CleansUnused, GivesBack, UfsLabels, InactLabels,
                LookLabels, ReleLabels, CleanLabels
  <1>3. ASSUME NEW f \in Frame, f.at \in UfsLabels, f.v = Top(t).v PROVE Good(t, Push(f, Below(t)))
    <2>1. OnTop(f, Below(t))
      BY <1>2, <1>3 DEF OnTop, Inactivates, Reclaims
    <2>2. f.at \notin CleanLabels /\ f.at # "init"
      BY <1>3 DEF UfsLabels, InactLabels, CleanLabels
    <2>3. QED BY <1>1, <2>1, <2>2, PushGood
  <1>4. QED BY <1>3

\* A call returns; or it sleeps again.
LEMMA ReturnMoves ==
  ASSUME Typed, Shapes, NEW t \in Threads, InCall(t), Top(t).at \notin CleanLabels
  PROVE  /\ Good(t, Below(t))
         /\ Top(t).at # "init" => Good(t, th[t].stack)
  <1>1. /\ Below(t) \in Seq(Frame) /\ Cleaning(t) = Vs(Below(t), CleanLabels)
        /\ OnTop(Top(t), Below(t)) /\ Shaped(Below(t)) /\ Top(t) \in Frame
        /\ th[t].stack = Push(Top(t), Below(t))
    BY CallIsShaped DEF InCall
  <1>2. Below(t) # Empty => Hd(Below(t)).at # "init" /\ (Hd(Below(t)).at \in CleanLabels => Tl(Below(t)) # Empty)
    BY <1>1, UnderIsShaped
  <1>3. ASSUME Below(t) # Empty, Hd(Below(t)).at \in CleanLabels PROVE ~Lone(Below(t))
    <2>1. Active(Tl(Below(t)), Top(t).v)
      BY <1>1, <1>3 DEF OnTop, Looks, Releases, CleansUsed, CleansUnused, GivesBack, Inactivates,
                Reclaims, Dropping, Caller, CallLabels, CleanLabels
    <2>2. QED BY <2>1 DEF Lone, Unused1, Active, Dropping
  <1>4. Tame(Below(t))
    BY <1>2, <1>3 DEF Tame, Lone
  <1>5. Good(t, Below(t))
    BY <1>1, <1>4 DEF Good
  <1>6. Top(t).at # "init" => Good(t, th[t].stack)
    BY <1>1, PushGood
  <1>7. QED BY <1>5, <1>6
------------------------------------------------------------------------------
\* Steps that lock no vnode, and those that do

LEMMA GoodLives ==
  ASSUME NEW t, NEW s, Good(t, s), th'[t].stack = s, OthersAgree(t), SameLocks, BodyStep(t),
         panic' = "none" => CountStep
  PROVE  Lives(t)
  <1>1. Shaped(th'[t].stack) /\ Tame(th'[t].stack)
    BY DEF Good
  <1>2. Cleaning(t)' = Vs(th'[t].stack, CleanLabels)
    BY DEF Cleaning, Vs, Marks, Frames
  <1>3. LockStep(t)
    BY <1>2 DEF Good, LockStep
  <1>4. TopStep(t)
    BY <1>1 DEF Tame, TopStep, Lone
  <1>5. QED BY <1>1, <1>3, <1>4 DEF Lives

LEMMA LockLives ==
  ASSUME NEW t, NEW v \in Vnodes, ~vn[v].xlock, LockIs(v, TRUE), v \in free \/ Owner(t, v) \/ vn[v].listed,
         NEW f \in Frame, f.at \in {"clean", "gone_end"}, f.v = v,
         NEW s \in Seq(Frame), Vs(s, CleanLabels) = Cleaning(t), th'[t].stack = Push(f, s),
         Active(s, v) \/ (Unused1(s, v) /\ vn'[v].count = 0),
         OthersAgree(t), BodyStep(t), panic' = "none" => CountStep
  PROVE  Lives(t)
  <1> DEFINE x == Push(f, s)
  <1>1. x \in Seq(Frame) /\ x # Empty /\ Hd(x) = f /\ Tl(x) = s /\ th'[t].stack = x
        /\ \A L : f.at \in L => Vs(x, L) = Vs(s, L) \union {f.v}
    BY HeadFacts
  <1> HIDE DEF x
  <1>2. f.at \in CleanLabels
    BY DEF CleanLabels
  <1>3. OnTop(f, s)
    BY <1>2 DEF OnTop, CleansUsed, CleansUnused
  <1>4. Shaped(th'[t].stack)
    BY <1>1, <1>3 DEF Shaped
  <1>5. Cleaning(t)' = Cleaning(t) \union {v}
    <2>1. Cleaning(t)' = Vs(th'[t].stack, CleanLabels)
      BY DEF Cleaning, Vs, Marks, Frames
    <2>2. QED BY <1>1, <1>2, <2>1
  <1>6. LockStep(t)
    BY <1>5 DEF LockStep
  <1>7. ~(Active(s, v) /\ Unused1(s, v))
    BY DEF Active, Unused1, Dropping
  <1>8. TopStep(t)
    BY <1>1, <1>7 DEF TopStep, Lone
  <1>9. QED BY <1>4, <1>6, <1>8 DEF Lives

LEMMA BodySteps ==
  ASSUME Typed, NEW t \in Threads
  PROVE  /\ SameBodies => BodyStep(t)
         /\ SameCounts => CountStep
         /\ \A v \in Vnodes : CountIs(v, vn[v].count - 1) => CountStep
         /\ \A v \in Vnodes, n \in Int : CountIs(v, n) /\ (~vn[v].xlock \/ vn[v].count # 0) => CountStep
         /\ \A v \in Vnodes : \A type, ops, ino, hashed, listed, read :
              /\ BodyIs(v, type, ops, ino, hashed, listed, read)
              /\ \/ type = vn[v].type /\ (listed => vn[v].listed)
                 \/ type = "bad" /\ ~listed
                 \/ type # "bad" /\ (Owner(t, v) \/ \E f \in Inits(t) : f.v = v)
              => BodyStep(t)
  <1>1. SameBodies => BodyStep(t)
    BY DEF SameBodies, SameBody, BodyStep
  <1>2. \A w \in Vnodes : vn[w].count \in Int
    BY DEF Typed, VnodeRecord
  <1>3. SameCounts => CountStep
    BY <1>2 DEF SameCounts, CountStep
  <1>4. \A v \in Vnodes : CountIs(v, vn[v].count - 1) => CountStep
    BY <1>2 DEF CountIs, CountStep
  <1>5. \A v \in Vnodes, n \in Int : CountIs(v, n) /\ (~vn[v].xlock \/ vn[v].count # 0) => CountStep
    BY <1>2 DEF CountIs, CountStep
  <1>6. ASSUME NEW v \in Vnodes, NEW type, NEW ops, NEW ino, NEW hashed, NEW listed, NEW read,
               BodyIs(v, type, ops, ino, hashed, listed, read),
               \/ type = vn[v].type /\ (listed => vn[v].listed)
               \/ type = "bad" /\ ~listed
               \/ type # "bad" /\ (Owner(t, v) \/ \E f \in Inits(t) : f.v = v)
        PROVE  BodyStep(t)
    <2>1. ASSUME NEW w \in Vnodes, w # v PROVE vn'[w].type = vn[w].type /\ vn'[w].listed = vn[w].listed
      BY <1>6, <2>1 DEF BodyIs, SameBody
    <2>2. vn'[v].type = type /\ vn'[v].listed = listed
      BY <1>6 DEF BodyIs
    <2>3. QED BY <1>6, <2>1, <2>2 DEF BodyStep
  <1>7. QED BY <1>1, <1>3, <1>4, <1>5, <1>6

\* The step of a call that leaves the vnodes alone
LEMMA QuietLives ==
  ASSUME Typed, NEW t \in Threads, NEW s, Quiet, Moves(t, s), Good(t, s)
  PROVE  Lives(t)
  <1>1. BodyStep(t) /\ CountStep /\ SameLocks
    BY BodySteps DEF Quiet
  <1>2. th'[t].stack = s /\ OthersAgree(t)
    BY DEF Moves, OthersAgree
  <1>3. QED BY <1>1, <1>2, GoodLives

LEMMA GoneLives ==
  ASSUME Typed, NEW t \in Threads, NEW v \in Vnodes, NEW s \in Seq(Frame), Gone(t, v, s), Good(t, s),
         vn[v].xlock \/ (Active(s, v) /\ Owner(t, v))
  PROVE  Lives(t)
  <1>1. CASE vn[v].xlock /\ Quiet /\ Moves(t, s)
    BY <1>1, QuietLives
  <1>2. ASSUME ~vn[v].xlock, LocksOnly(v), NEW a \in {"clean", "gone_end"}, Moves(t, Over(a, v, s))
        PROVE  Lives(t)
    <2>1. PICK f \in Frame : f.at = a /\ f.v = v /\ Over(a, v, s) = Push(f, s)
      <3>1. a \in Labels
        BY DEF Labels
      <3>2. QED BY <3>1, OverIs
    <2>2. BodyStep(t) /\ CountStep /\ LockIs(v, TRUE)
      BY <1>2, BodySteps DEF LocksOnly
    <2>3. th'[t].stack = Push(f, s) /\ OthersAgree(t)
      BY <1>2, <2>1 DEF Moves, OthersAgree
    <2>4. Vs(s, CleanLabels) = Cleaning(t)
      BY DEF Good
    <2>5. QED BY <1>2, <2>1, <2>2, <2>3, <2>4, LockLives
  <1>3. QED BY <1>1, <1>2 DEF Gone

\* A vnode that t is cleaning is locked; without a reference of its own, t cleans
\* it for getnewvnode or vflush.
LEMMA CleanerFacts ==
  ASSUME Typed, Counted, Making, panic = "none", Life, NEW t \in Threads, InCall(t),
         Top(t).at \notin NoVnode
  PROVE  /\ Top(t).v \in Vnodes
         /\ Top(t).v \in Cleaning(t) => vn[Top(t).v].xlock
         /\ Reclaims(Top(t), Below(t)) \/ GivesBack(Top(t), Below(t)) => Top(t).v \in Cleaning(t)
         /\ GivesBack(Top(t), Below(t)) => vn[Top(t).v].count >= 2
         /\ \A v \in Vnodes : Active(Below(t), v) \/ Dropping(Below(t), v) => Owner(t, v)
  <1> DEFINE v == Top(t).v
  <1>1. v \in Vnodes
    BY DEF InCall
  <1>2. v \in Cleaning(t) => vn[v].xlock
    BY <1>1 DEF Life, LocksAre
  <1>3. /\ OnTop(Top(t), Below(t)) /\ Top(t) \in Frame /\ Below(t) \in Seq(Frame)
        /\ th[t].stack = Push(Top(t), Below(t))
        /\ Top(t).at \notin CleanLabels => Cleaning(t) = Vs(Below(t), CleanLabels)
    BY CallIsShaped DEF InCall, Life
  <1>4. Reclaims(Top(t), Below(t)) \/ GivesBack(Top(t), Below(t)) => v \in Cleaning(t)
    <2>1. Reclaims(Top(t), Below(t)) \/ GivesBack(Top(t), Below(t)) => Top(t).at \notin CleanLabels
      BY DEF Reclaims, GivesBack, CleanLabels, UfsLabels, InactLabels
    <2>2. QED BY <1>3, <2>1, ShapeCleans
  <1>5. ASSUME NEW w \in Vnodes
        PROVE  /\ Refs(th[t], w) \in Nat /\ vn[w].count >= Refs(th[t], w)
               /\ vn[w].count \in Nat
               /\ Refs(th[t], w) >= Count(th[t].stack, OwnFrames(w))
    <2>1. Refs(th[t], w) \in Nat /\ vn[w].count >= Refs(th[t], w) /\ vn[w].count \in Nat
      BY CountsAre, CountedIs
    <2>2. Holds(th[t], w) \in {0, 1} /\ Count(th[t].stack, OwnFrames(w)) \in Nat
      BY HasFacts, StackIn DEF Holds
    <2>3. QED BY <2>1, <2>2 DEF Refs
  <1>6. GivesBack(Top(t), Below(t)) => vn[v].count >= 2
    <2>1. ASSUME GivesBack(Top(t), Below(t)) PROVE Count(th[t].stack, OwnFrames(v)) = 2
      BY <1>3, <2>1, TopCounts
    <2>2. QED BY <1>1, <1>5, <2>1
  <1>7. ASSUME NEW w \in Vnodes, Active(Below(t), w) \/ Dropping(Below(t), w) PROVE Owner(t, w)
    <2>1. Count(Below(t), OwnFrames(w)) = 1
      <3>1. Count(Below(t), OwnFrames(w)) = One(w, w)
        BY <1>3, <1>7, ShapeCounts
      <3>2. QED BY <3>1 DEF One
    <2>2. Count(th[t].stack, OwnFrames(w)) >= Count(Below(t), OwnFrames(w))
      <3>1. th[t].stack \in Seq(Frame) /\ th[t].stack # Empty /\ Tl(th[t].stack) = Below(t)
        BY CallIsShaped DEF Life
      <3>2. QED BY <3>1, ConsCounts
    <2>3. Refs(th[t], w) >= Count(th[t].stack, OwnFrames(w)) /\ Refs(th[t], w) \in Nat
      BY <1>5
    <2>4. Count(th[t].stack, OwnFrames(w)) \in Nat
      BY HasFacts, StackIn
    <2>5. QED BY <2>1, <2>2, <2>3, <2>4 DEF Owner
  <1>8. QED BY <1>1, <1>2, <1>4, <1>6, <1>7
------------------------------------------------------------------------------
\* Every step

\* The steps of t that change only counts, or only what is not looked at here
LEMMA OtherLives ==
  ASSUME Typed, NEW t \in Threads, NEW s, Moves(t, s), Good(t, s), SameLocks, SameBodies,
         CountStep
  PROVE  Lives(t)
  <1>1. BodyStep(t)
    BY BodySteps
  <1>2. th'[t].stack = s /\ OthersAgree(t)
    BY DEF Moves, OthersAgree
  <1>3. QED BY <1>1, <1>2, GoodLives

LEMMA StepsLive1 ==
  ASSUME Typed, Counted, Making, panic = "none", Life, NEW t \in Threads,
         \/ Rele(t) \/ Inactive(t) \/ Drop(t) \/ SleepAgain(t)
         \/ UfsInactive(t) \/ Stale(t) \/ Trunc(t) \/ Ifree(t) \/ Last(t) \/ End(t)
  PROVE  Lives(t)
  <1> DEFINE v == Top(t).v
             s == Below(t)
  <1>1. InCall(t) /\ Top(t).at \in ReleLabels \union UfsLabels \union {"vget_slept", "gone_slept"}
    <2>1. /\ InCall(t)
          /\ Top(t).at \in {"rele", "inactive", "drop", "rele_slept", "vget_slept", "gone_slept",
                            "ufs_inactive", "stale", "trunc", "ifree", "last", "end"}
      BY ReleDoes, InactiveDoes, DropDoes, SleepAgainDoes, UfsInactiveDoes, StaleDoes, TruncDoes,
         IfreeDoes, LastDoes, EndDoes
    <2>2. QED BY <2>1 DEF ReleLabels, UfsLabels, InactLabels
  <1>2. Top(t).at \notin CleanLabels /\ Top(t).at \notin NoVnode /\ Top(t).at # "init"
    BY <1>1 DEF ReleLabels, UfsLabels, InactLabels, CleanLabels, NoVnode
  <1>3. /\ OnTop(Top(t), s) /\ s \in Seq(Frame) /\ Shapes
        /\ Cleaning(t) = Vs(s, CleanLabels)
    BY <1>1, <1>2, CallIsShaped DEF Life
  <1>4. Good(t, s) /\ Good(t, th[t].stack)
    BY <1>1, <1>2, <1>3, ReturnMoves
  <1>5. /\ v \in Vnodes
        /\ v \in Cleaning(t) => vn[v].xlock
        /\ Reclaims(Top(t), s) \/ GivesBack(Top(t), s) => v \in Cleaning(t)
        /\ GivesBack(Top(t), s) => vn[v].count >= 2
        /\ \A w \in Vnodes : Active(s, w) \/ Dropping(s, w) => Owner(t, w)
    BY <1>1, <1>2, CleanerFacts
  <1>6. Top(t).at \in ReleLabels => Caller(s) \/ GivesBack(Top(t), s)
    BY <1>3 DEF OnTop, Looks, Releases, Inactivates, CleansUsed, CleansUnused, Reclaims,
                LookLabels, ReleLabels, CleanLabels, UfsLabels, InactLabels
  <1>7. Top(t).at \in UfsLabels => Dropping(s, v) \/ Reclaims(Top(t), s)
    BY <1>3 DEF OnTop, Looks, Releases, Inactivates, CleansUsed, CleansUnused, GivesBack,
                LookLabels, ReleLabels, CleanLabels, UfsLabels, InactLabels
  <1>8. Top(t).at \in ReleLabels /\ Top(t).at # "rele" => Caller(s)
    BY <1>6 DEF GivesBack
  <1>9. /\ \A at \in ReleLabels : at \in Labels
        /\ \A at \in UfsLabels : at \in Labels
    BY DEF Labels, ReleLabels, UfsLabels, InactLabels
  <1>10. ASSUME Top(t).at \in ReleLabels, Caller(s), NEW at \in ReleLabels
         PROVE  Good(t, Top1(t, at))
    <2>1. PICK f \in Frame : f.at = at /\ Top1(t, at) = Push(f, s)
      BY <1>1, <1>9, FormsAre
    <2>2. QED BY <1>1, <1>3, <1>10, <2>1, ReleMoves
  <1>11. ASSUME Top(t).at \in UfsLabels, NEW at \in UfsLabels
         PROVE  Good(t, Top1(t, at)) /\ \A b \in BOOLEAN : Good(t, Push(Fr(at, v, b), s))
    <2>1. PICK f \in Frame : f.at = at /\ f.v = v /\ Top1(t, at) = Push(f, s)
      BY <1>1, <1>9, FormsAre
    <2>2. Good(t, Top1(t, at))
      BY <1>1, <1>3, <1>11, <2>1, UfsMoves
    <2>3. ASSUME NEW b \in BOOLEAN PROVE Good(t, Push(Fr(at, v, b), s))
      <3>1. PICK g \in Frame : g.at = at /\ g.v = v /\ \A x : Push(Fr(at, v, b), x) = Push(g, x)
        BY <1>1, <1>5, <1>9, FormsAre
      <3>2. Good(t, Push(g, s))
        BY <1>1, <1>3, <1>11, <3>1, UfsMoves
      <3>3. QED BY <3>1, <3>2
    <2>4. QED BY <2>2, <2>3
  <1> HIDE DEF v, s
  <1>12. CASE Rele(t)
    <2>1. Top(t).at = "rele" /\ Top(t).at \in ReleLabels
      BY <1>12, ReleDoes DEF ReleLabels
    <2>2. CASE CountsOnly(v, vn[v].count - 1) /\ Moves(t, s)
      <3>1. CountStep /\ SameLocks /\ SameBodies
        BY <1>5, <2>2, BodySteps DEF CountsOnly
      <3>2. QED BY <1>4, <2>2, <3>1, OtherLives
    <2>3. CASE vn[v].count < 1
      <3>1. Owner(t, v)
        BY <1>1, <2>1, TopOwns, LabelsAre DEF v
      <3>2. vn[v].count >= Refs(th[t], v) /\ Refs(th[t], v) \in Nat /\ vn[v].count \in Nat
        BY <1>5, CountsAre, CountedIs
      <3>3. QED BY <2>3, <3>1, <3>2 DEF Owner
    <2>4. ASSUME vn[v].count = 1, Quiet, NEW at \in {"rele_slept", "inactive"}, Moves(t, Top1(t, at))
          PROVE  Lives(t)
      <3>1. Caller(s) /\ at \in ReleLabels
        BY <1>5, <1>6, <2>1, <2>4 DEF ReleLabels
      <3>2. QED BY <1>10, <2>1, <2>4, <3>1, QuietLives
    <2>5. QED BY <1>12, <2>2, <2>3, <2>4, ReleDoes DEF v, s
  <1>13. CASE Inactive(t)
    <2>1. Top(t).at = "inactive" /\ Top(t).at \in ReleLabels /\ "drop" \in ReleLabels /\ Quiet
      BY <1>13, InactiveDoes DEF ReleLabels
    <2>2. Caller(s)
      BY <1>8, <2>1
    <2>3. CASE Moves(t, Top1(t, "drop"))
      BY <1>10, <2>1, <2>2, <2>3, QuietLives
    <2>4. CASE Moves(t, Over("ufs_inactive", v, Top1(t, "drop")))
      <3>1. PICK g \in Frame : g.at = "drop" /\ g.v = v /\ Top1(t, "drop") = Push(g, s)
        BY <1>1, <1>9, <2>1, FormsAre DEF v, s
      <3>2. PICK f \in Frame : /\ f.at = "ufs_inactive" /\ f.v = v
                               /\ Over("ufs_inactive", v, Top1(t, "drop")) = Push(f, Top1(t, "drop"))
        <4>1. "ufs_inactive" \in Labels
          BY DEF Labels
        <4>2. QED BY <1>5, <4>1, OverIs
      <3>3. f.at \in UfsLabels
        BY <3>2 DEF UfsLabels
      <3>4. Good(t, Push(f, Push(g, s)))
        BY <1>1, <1>3, <2>1, <2>2, <3>1, <3>2, <3>3, ReleMoves DEF s
      <3>5. QED BY <2>1, <2>4, <3>1, <3>2, <3>4, QuietLives
    <2>5. QED BY <1>13, <2>3, <2>4, InactiveDoes DEF v, s
  <1>14. CASE Drop(t)
    <2>1. CountsOnly(v, vn[v].count - 1) /\ Moves(t, s)
      BY <1>14, DropDoes DEF v, s
    <2>2. CountStep /\ SameLocks /\ SameBodies
      BY <1>5, <2>1, BodySteps DEF CountsOnly
    <2>3. QED BY <1>4, <2>1, <2>2, OtherLives
  <1>15. CASE SleepAgain(t)
    BY <1>4, <1>15, SleepAgainDoes, QuietLives
  <1>16. CASE UfsInactive(t)
    <2>1. Top(t).at \in UfsLabels
      BY <1>16, UfsInactiveDoes DEF UfsLabels
    <2>2. vn[v].xlock \/ (Active(s, v) /\ Owner(t, v))
      BY <1>5, <1>7, <2>1 DEF Active, Dropping
    <2>3. CASE Gone(t, v, s)
      BY <1>3, <1>4, <1>5, <2>2, <2>3, GoneLives
    <2>4. CASE Quiet /\ Moves(t, s)
      BY <1>4, <2>4, QuietLives
    <2>5. ASSUME InactOnly(v, TRUE), NEW at \in {"stale", "trunc", "last"}, Moves(t, Top1(t, at))
          PROVE  Lives(t)
      <3>1. at \in UfsLabels
        BY <2>5 DEF UfsLabels, InactLabels
      <3>2. CountStep /\ SameLocks /\ SameBodies
        BY <2>5, BodySteps DEF InactOnly
      <3>3. QED BY <1>11, <2>1, <2>5, <3>1, <3>2, OtherLives
    <2>6. QED BY <1>16, <2>3, <2>4, <2>5, UfsInactiveDoes DEF v, s
  <1>17. CASE Stale(t)
    <2>1. Top(t).at \in UfsLabels /\ "end" \in UfsLabels /\ Gone(t, v, Top1(t, "end"))
      BY <1>17, StaleDoes DEF UfsLabels, InactLabels, v
    <2>2. PICK f \in Frame : f.at = "end" /\ f.v = v /\ Top1(t, "end") = Push(f, s)
      BY <1>1, <1>9, <2>1, FormsAre DEF v, s
    <2>3. /\ Push(f, s) \in Seq(Frame) /\ Push(f, s) # Empty
          /\ Hd(Push(f, s)) = f /\ Tl(Push(f, s)) = s
      BY <1>3, HeadFacts
    <2>4. Dropping(s, v) => Active(Top1(t, "end"), v) /\ Owner(t, v)
      BY <1>5, <2>2, <2>3 DEF Active
    <2>5. QED BY <1>5, <1>7, <1>11, <2>1, <2>2, <2>3, <2>4, GoneLives
  <1>18. CASE Trunc(t)
    <2>1. Top(t).at \in UfsLabels /\ "ifree" \in UfsLabels
      BY <1>18, TruncDoes DEF UfsLabels, InactLabels
    <2>2. QED BY <1>11, <1>18, <2>1, TruncDoes, QuietLives
  <1>19. CASE Ifree(t)
    <2>1. Top(t).at \in UfsLabels /\ "last" \in UfsLabels
      BY <1>19, IfreeDoes DEF UfsLabels, InactLabels
    <2>2. Quiet /\ Moves(t, Push(Fr("last", v, TRUE), s))
      BY <1>19, IfreeDoes DEF v, s
    <2>3. Good(t, Push(Fr("last", v, TRUE), s))
      BY <1>11, <2>1
    <2>4. QED BY <2>2, <2>3, QuietLives
  <1>20. CASE Last(t)
    <2>1. Top(t).at \in UfsLabels
      BY <1>20, LastDoes DEF UfsLabels, InactLabels
    <2>2. SameCounts /\ SameBodies /\ CountStep /\ BodyStep(t)
      BY <1>20, LastDoes, BodySteps
    <2>3. CASE SameLocks /\ Moves(t, s)
      BY <1>4, <2>2, <2>3, OtherLives
    <2>4. ASSUME ~vn[v].xlock, LockIs(v, TRUE), NEW a \in {"clean", "gone_end"}, Moves(t, Over(a, v, s))
          PROVE  Lives(t)
      <3>1. PICK f \in Frame : f.at = a /\ f.v = v /\ Over(a, v, s) = Push(f, s)
        <4>1. a \in Labels
          BY DEF Labels
        <4>2. QED BY <1>5, <4>1, OverIs
      <3>2. Active(s, v) /\ Owner(t, v)
        BY <1>5, <1>7, <2>1, <2>4 DEF Active, Dropping
      <3>3. th'[t].stack = Push(f, s) /\ OthersAgree(t)
        BY <2>4, <3>1 DEF Moves, OthersAgree
      <3>4. s \in Seq(Frame) /\ Vs(s, CleanLabels) = Cleaning(t)
        BY <1>3
      <3>5. QED BY <1>5, <2>2, <2>4, <3>1, <3>2, <3>3, <3>4, LockLives
    <2>5. QED BY <1>20, <2>3, <2>4, LastDoes DEF v, s
  <1>21. CASE End(t)
    <2>1. InactOnly(v, FALSE) /\ Moves(t, s)
      BY <1>21, EndDoes DEF v, s
    <2>2. CountStep /\ SameLocks /\ SameBodies
      BY <2>1, BodySteps DEF InactOnly
    <2>3. QED BY <1>4, <2>1, <2>2, OtherLives
  <1>22. QED BY <1>12, <1>13, <1>14, <1>15, <1>16, <1>17, <1>18, <1>19, <1>20, <1>21
\* A vnode is being cleaned.
LEMMA CleanMoves ==
  ASSUME Typed, Life, NEW t \in Threads, InCall(t), Top(t).at \in CleanLabels,
         NEW f \in Frame, f.at \in CleanLabels, f.v = Top(t).v,
         Unused1(Below(t), f.v) /\ f.at \in {"dead", "reclaim", "purge"} => ~f.flag,
         th'[t].stack = Push(f, Below(t)), OthersAgree(t), SameLocks, BodyStep(t), CountStep,
         Lone(th[t].stack) => vn'[f.v].count = 0
  PROVE  Lives(t)
  <1> DEFINE s == Below(t)
             x == Push(f, s)
  <1>1. /\ OnTop(Top(t), s) /\ s \in Seq(Frame) /\ Cleaning(t) = {f.v} /\ Vs(s, CleanLabels) = {}
        /\ th[t].stack # Empty /\ Hd(th[t].stack) = Top(t) /\ Tl(th[t].stack) = s
    BY CallIsShaped DEF Life
  <1>2. x \in Seq(Frame) /\ x # Empty /\ Hd(x) = f /\ Tl(x) = s /\ th'[t].stack = x
        /\ \A L : f.at \in L => Vs(x, L) = Vs(s, L) \union {f.v}
    BY <1>1, HeadFacts
  <1> HIDE DEF x, s
  <1>3. Active(s, f.v) \/ Unused1(s, f.v)
    BY <1>1 DEF OnTop, Looks, Releases, Inactivates, CleansUsed, CleansUnused, GivesBack, Reclaims,
                LookLabels, ReleLabels, CleanLabels, UfsLabels, InactLabels
  <1>4. OnTop(f, s)
    BY <1>3 DEF OnTop, CleansUsed, CleansUnused, s
  <1>5. Shaped(th'[t].stack)
    BY <1>2, <1>4 DEF Shaped
  <1>6. LockStep(t)
    <2>1. Cleaning(t)' = Vs(th'[t].stack, CleanLabels)
      BY DEF Cleaning, Vs, Marks, Frames
    <2>2. QED BY <1>1, <1>2, <2>1 DEF LockStep
  <1>7. TopStep(t)
    <2>1. Lone(x) => Lone(th[t].stack)
      BY <1>1, <1>2 DEF Lone
    <2>2. f.at # "init"
      BY DEF CleanLabels
    <2>3. QED BY <1>2, <2>1, <2>2 DEF TopStep
  <1>8. QED BY <1>5, <1>6, <1>7 DEF Lives

\* vclean calls ufs_inactive, or vrele.
LEMMA CleanCalls ==
  ASSUME Typed, Life, NEW t \in Threads, InCall(t), Top(t).at \in {"dead", "purge"}, Top(t).flag
  PROVE  \A f, g \in Frame :
           /\ f.v = Top(t).v /\ g.v = Top(t).v
           /\ \/ f.at = "ufs_inactive" /\ g.at = "reclaim" /\ g.flag
              \/ f.at = "rele" /\ g.at = "gone_end"
           => Good(t, Push(f, Push(g, Below(t))))
  <1> DEFINE s == Below(t)
  <1>1. /\ OnTop(Top(t), s) /\ s \in Seq(Frame) /\ Cleaning(t) = {Top(t).v} /\ Vs(s, CleanLabels) = {}
    <2>1. Top(t).at \in CleanLabels
      BY DEF CleanLabels
    <2>2. QED BY <2>1, CallIsShaped DEF Life
  <1>2. Active(s, Top(t).v)
    BY <1>1 DEF OnTop, Looks, Releases, Inactivates, CleansUsed, CleansUnused, GivesBack, Reclaims,
                LookLabels, ReleLabels, UfsLabels, InactLabels
  <1>3. ASSUME NEW f \in Frame, NEW g \in Frame, f.v = Top(t).v, g.v = Top(t).v,
               \/ f.at = "ufs_inactive" /\ g.at = "reclaim" /\ g.flag
               \/ f.at = "rele" /\ g.at = "gone_end"
        PROVE  Good(t, Push(f, Push(g, s)))
    <2> DEFINE x == Push(g, s)
    <2>1. x \in Seq(Frame) /\ x # Empty /\ Hd(x) = g /\ Tl(x) = s
          /\ \A L : g.at \in L => Vs(x, L) = Vs(s, L) \union {g.v}
      BY <1>1, HeadFacts
    <2> HIDE DEF x, s
    <2>2. g.at \in CleanLabels /\ f.at \notin CleanLabels /\ f.at # "init"
      BY <1>3 DEF CleanLabels
    <2>3. Vs(x, CleanLabels) = Cleaning(t)
      BY <1>1, <1>3, <2>1, <2>2
    <2>4. OnTop(f, x)
      <3>1. GivesBack(f, x) \/ Reclaims(f, x)
        BY <1>2, <1>3, <2>1 DEF GivesBack, Reclaims, UfsLabels
      <3>2. QED BY <3>1 DEF OnTop
    <2>5. Good(t, Push(f, x))
      BY <2>1, <2>2, <2>3, <2>4, PushGood
    <2>6. QED BY <2>5 DEF x, s
  <1>4. QED BY <1>3

LEMMA StepsLive2 ==
  ASSUME Typed, Counted, Making, panic = "none", Life, NEW t \in Threads,
         Clean(t) \/ Dead(t) \/ Reclaim(t) \/ Purge(t) \/ GoneEnd(t) \/ GoneSlept(t)
  PROVE  Lives(t)
  <1> DEFINE v == Top(t).v
             s == Below(t)
  <1>1. InCall(t) /\ Top(t).at \in CleanLabels \union {"gone_slept"}
    <2>1. /\ InCall(t)
          /\ Top(t).at \in {"clean", "dead", "reclaim", "purge", "gone_end", "gone_slept"}
      BY CleanDoes, DeadDoes, ReclaimDoes, PurgeDoes, GoneEndDoes, GoneSleptDoes
    <2>2. QED BY <2>1 DEF CleanLabels
  <1>2. Top(t).at \notin NoVnode /\ v \in Vnodes /\ Top(t).flag \in BOOLEAN
    BY <1>1 DEF InCall, CleanLabels, NoVnode
  <1>3. /\ OnTop(Top(t), s) /\ s \in Seq(Frame) /\ Shaped(s) /\ Shapes
        /\ Top(t).at \in CleanLabels => Cleaning(t) = {v} /\ Vs(s, CleanLabels) = {}
        /\ th[t].stack # Empty /\ Hd(th[t].stack) = Top(t) /\ Tl(th[t].stack) = s
    BY <1>1, CallIsShaped DEF Life
  <1>4. Top(t).at \in CleanLabels =>
          /\ Active(s, v) \/ Unused1(s, v)
          /\ Unused1(s, v) /\ Top(t).at \in {"dead", "reclaim", "purge"} => ~Top(t).flag
    BY <1>3 DEF OnTop, Looks, Releases, Inactivates, CleansUsed, CleansUnused, GivesBack, Reclaims,
                LookLabels, ReleLabels, CleanLabels, UfsLabels, InactLabels, Active, Unused1, Dropping
  <1>5. Lone(th[t].stack) => vn[v].count = 0
    BY <1>3 DEF Life, LonesAre
  <1>6. Unused1(s, v) /\ Top(t).at \in CleanLabels => Lone(th[t].stack)
    BY <1>3 DEF Lone
  <1>7. \A at \in CleanLabels : at \in Labels
    BY DEF CleanLabels, Labels
  <1>8. ASSUME Top(t).at \in {"dead", "reclaim", "purge"}, NEW at \in CleanLabels, Moves(t, Top1(t, at)),
               SameLocks, BodyStep(t), SameCounts
        PROVE  Lives(t)
    <2>1. PICK f \in Frame : f.at = at /\ f.v = v /\ f.flag = Top(t).flag /\ Top1(t, at) = Push(f, s)
      BY <1>1, <1>7, FormsAre
    <2>2. th'[t].stack = Push(f, s) /\ OthersAgree(t)
      BY <1>8, <2>1 DEF Moves, OthersAgree
    <2>3. CountStep /\ (Lone(th[t].stack) => vn'[v].count = 0) /\ Top(t).at \in CleanLabels
      BY <1>2, <1>5, <1>8, BodySteps DEF SameCounts, CleanLabels
    <2>4. Unused1(s, v) /\ f.at \in {"dead", "reclaim", "purge"} => ~f.flag
      BY <1>4, <1>8, <2>1, <2>3
    <2>5. QED BY <1>1, <1>8, <2>1, <2>2, <2>3, <2>4, CleanMoves
  <1>9. ASSUME Top(t).at \in {"dead", "purge"}, Top(t).flag, NEW f \in Frame, NEW at \in {"reclaim", "gone_end"},
               f.v = v, f.at = IF at = "reclaim" THEN "ufs_inactive" ELSE "rele",
               Moves(t, Push(f, Top1(t, at))), SameLocks, BodyStep(t), SameCounts
        PROVE  Lives(t)
    <2>1. PICK g \in Frame : g.at = at /\ g.v = v /\ g.flag = Top(t).flag /\ Top1(t, at) = Push(g, s)
      <3>1. at \in Labels
        BY DEF Labels
      <3>2. QED BY <1>1, <3>1, FormsAre
    <2>2. th'[t].stack = Push(f, Push(g, s)) /\ OthersAgree(t)
      BY <1>9, <2>1 DEF Moves, OthersAgree
    <2>3. Good(t, Push(f, Push(g, s)))
      BY <1>1, <1>9, <2>1, CleanCalls
    <2>4. CountStep
      BY <1>9, BodySteps
    <2>5. QED BY <1>9, <2>2, <2>3, <2>4, GoodLives
  <1> HIDE DEF v, s
  <1>10. CASE Clean(t)
    <2>1. Top(t).at \in CleanLabels
      BY <1>10, CleanDoes DEF CleanLabels
    <2>2. PICK n \in Int, b \in BOOLEAN : TakesRef(t, v, n, b)
      BY <1>10, CleanDoes DEF v
    <2>3. CountsOnly(v, n) /\ Moves(t, Push(Fr("dead", v, b), s))
      BY <2>2 DEF TakesRef, s
    <2>4. PICK f \in Frame : f.at = "dead" /\ f.v = v /\ f.flag = b /\ \A x : Push(Fr("dead", v, b), x) = Push(f, x)
      <3>1. "dead" \in Labels
        BY DEF Labels
      <3>2. QED BY <1>1, <1>2, <3>1, FormsAre
    <2>5. th'[t].stack = Push(f, s) /\ OthersAgree(t)
      BY <2>3, <2>4 DEF Moves, OthersAgree
    <2>6. SameLocks /\ BodyStep(t) /\ CountIs(v, n)
      BY <2>3, BodySteps DEF CountsOnly
    <2>7. vn[v].count \in Nat /\ (b => vn[v].count > 0) /\ (~b => n = vn[v].count)
      BY <1>2, <2>2, CountsNatural DEF TakesRef
    <2>8. CountStep
      <3>1. CASE b
        BY <1>2, <2>6, <2>7, <3>1, BodySteps
      <3>2. CASE ~b
        BY <1>2, <2>6, <2>7, <3>2, BodySteps DEF CountIs, SameCounts
      <3>3. QED BY <3>1, <3>2
    <2>9. Lone(th[t].stack) => ~b /\ vn'[v].count = 0
      BY <1>5, <2>6, <2>7 DEF CountIs
    <2>10. Unused1(s, v) => ~f.flag
      BY <1>6, <2>1, <2>4, <2>9
    <2>11. f.at \in CleanLabels
      BY <2>4 DEF CleanLabels
    <2>12. QED BY <1>1, <2>1, <2>4, <2>5, <2>6, <2>8, <2>9, <2>10, <2>11, CleanMoves DEF v, s
  <1>11. CASE Dead(t)
    <2>1. BodiesOnly /\ BodyIs(v, vn[v].type, "dead", vn[v].ino, vn[v].hashed, vn[v].listed, vn[v].read)
          /\ Top(t).at = "dead"
      BY <1>11, DeadDoes DEF v
    <2>2. BodyStep(t) /\ SameLocks /\ SameCounts
      <3>1. \A type, ops, ino, hashed, listed, read :
              BodyIs(v, type, ops, ino, hashed, listed, read) /\ type = vn[v].type /\ (listed => vn[v].listed)
              => BodyStep(t)
        BY <1>2, BodySteps
      <3>2. QED BY <2>1, <3>1 DEF BodiesOnly
    <2>3. CASE ~Top(t).flag /\ Moves(t, Top1(t, "reclaim"))
      BY <1>8, <2>1, <2>2, <2>3 DEF CleanLabels
    <2>4. CASE Top(t).flag /\ Moves(t, Over("ufs_inactive", v, Top1(t, "reclaim")))
      <3>1. PICK f \in Frame : /\ f.at = "ufs_inactive" /\ f.v = v
                               /\ Over("ufs_inactive", v, Top1(t, "reclaim")) = Push(f, Top1(t, "reclaim"))
        <4>1. "ufs_inactive" \in Labels
          BY DEF Labels
        <4>2. QED BY <1>2, <4>1, OverIs
      <3>2. QED BY <1>9, <2>1, <2>2, <2>4, <3>1
    <2>5. QED BY <1>11, <2>3, <2>4, DeadDoes DEF v
  <1>12. CASE Reclaim(t)
    <2>1. BodiesOnly /\ BodyIs(v, vn[v].type, vn[v].ops, vn[v].ino, FALSE, vn[v].listed, vn[v].read)
          /\ Top(t).at = "reclaim" /\ Moves(t, Top1(t, "purge"))
      BY <1>12, ReclaimDoes DEF v
    <2>2. BodyStep(t) /\ SameLocks /\ SameCounts
      <3>1. \A w \in Vnodes : vn'[w].type = vn[w].type /\ vn'[w].listed = vn[w].listed
        BY <2>1 DEF BodyIs, SameBody
      <3>2. BodyStep(t)
        BY <3>1 DEF BodyStep
      <3>3. QED BY <2>1, <3>2 DEF BodiesOnly
    <2>3. QED BY <1>8, <2>1, <2>2 DEF CleanLabels
  <1>13. CASE Purge(t)
    <2>1. Quiet /\ Top(t).at = "purge"
      BY <1>13, PurgeDoes
    <2>2. BodyStep(t) /\ SameLocks /\ SameCounts
      BY <2>1, BodySteps DEF Quiet
    <2>3. CASE ~Top(t).flag /\ Moves(t, Top1(t, "gone_end"))
      BY <1>8, <2>1, <2>2, <2>3 DEF CleanLabels
    <2>4. CASE Top(t).flag /\ Moves(t, Over("rele", v, Top1(t, "gone_end")))
      <3>1. PICK f \in Frame : /\ f.at = "rele" /\ f.v = v
                               /\ Over("rele", v, Top1(t, "gone_end")) = Push(f, Top1(t, "gone_end"))
        <4>1. "rele" \in Labels
          BY DEF Labels
        <4>2. QED BY <1>2, <4>1, OverIs
      <3>2. QED BY <1>9, <2>1, <2>2, <2>4, <3>1
    <2>5. QED BY <1>13, <2>3, <2>4, PurgeDoes DEF v
  <1>14. CASE GoneEnd(t)
    <2>1. /\ Top(t).at = "gone_end" /\ SameCounts /\ LockIs(v, FALSE) /\ Moves(t, s)
          /\ BodyIs(v, "bad", vn[v].ops, vn[v].ino, vn[v].hashed, FALSE, vn[v].read)
      BY <1>14, GoneEndDoes DEF v, s
    <2>2. Top(t).at \in CleanLabels
      BY <2>1 DEF CleanLabels
    <2>3. th'[t].stack = s /\ OthersAgree(t) /\ CountStep
      BY <2>1, BodySteps DEF Moves, OthersAgree
    <2>4. BodyStep(t)
      <3>1. \A type, ops, ino, hashed, listed, read :
              BodyIs(v, type, ops, ino, hashed, listed, read) /\ type = "bad" /\ ~listed => BodyStep(t)
        BY <1>2, BodySteps
      <3>2. QED BY <2>1, <3>1
    <2>5. LockStep(t)
      <3>1. Cleaning(t)' = Vs(th'[t].stack, CleanLabels)
        BY DEF Cleaning, Vs, Marks, Frames
      <3>2. QED BY <1>2, <1>3, <2>1, <2>2, <2>3, <3>1 DEF LockStep
    <2>6. TopStep(t)
      <3>1. s # Empty => Hd(s).v = v /\ Hd(s).at \notin CleanLabels
        BY <1>4, <2>2 DEF Active, Unused1, Dropping, CleanLabels
      <3>2. vn'[v].type = "bad" /\ ~vn'[v].xlock
        BY <2>1 DEF BodyIs, LockIs
      <3>3. QED BY <2>3, <3>1, <3>2 DEF TopStep, Lone
    <2>7. QED BY <1>3, <2>3, <2>4, <2>5, <2>6 DEF Lives
  <1>15. CASE GoneSlept(t)
    <2>1. Quiet /\ Moves(t, s) /\ Top(t).at \notin CleanLabels
      BY <1>15, GoneSleptDoes DEF s, CleanLabels
    <2>2. Good(t, s)
      BY <1>1, <1>3, <2>1, ReturnMoves DEF s
    <2>3. QED BY <2>1, <2>2, QuietLives
  <1>16. QED BY <1>10, <1>11, <1>12, <1>13, <1>14, <1>15
\* The moves of a lookup
LEMMA LookForms ==
  ASSUME Typed, Life, NEW t \in Threads, InCall(t), Top(t).at \in LookLabels
  PROVE  /\ \A at \in LookLabels \ {"init"} : Good(t, Top1(t, at))
         /\ \A at \in LookLabels \ {"init"}, v \in Vnodes \union {None}, flag \in BOOLEAN :
              Good(t, Push(Fr(at, v, flag), Below(t)))
         /\ \A v \in Vnodes \union {None} : Good(t, Over("rele", v, Below(t)))
         /\ \A v \in Vnodes \union {None}, at \in CallLabels : Good(t, Over("rele", v, Top1(t, at)))
         /\ \A v \in Vnodes \union {None}, at \in CallLabels, w \in Vnodes \union {None} :
              Good(t, Over("rele", v, Push(Fr(at, w, FALSE), Below(t))))
         /\ Good(t, Below(t))
  <1>1. /\ \A f \in Frame : f.at \in LookLabels \ {"init"} => Good(t, Push(f, Below(t)))
        /\ \A f \in Frame : f.at \in ReleLabels => Good(t, Push(f, Below(t)))
        /\ \A f, g \in Frame : f.at \in ReleLabels /\ g.at \in CallLabels => Good(t, Push(f, Push(g, Below(t))))
    BY LookMoves DEF Life
  <1>2. /\ \A at \in LookLabels : at \in Labels
        /\ \A at \in CallLabels : at \in Labels
        /\ "rele" \in Labels /\ "rele" \in ReleLabels
    BY DEF LookLabels, CallLabels, Labels, ReleLabels
  <1>3. ASSUME NEW at \in LookLabels \ {"init"} PROVE Good(t, Top1(t, at))
    <2>1. PICK f \in Frame : f.at = at /\ Top1(t, at) = Push(f, Below(t))
      BY <1>2, FormsAre
    <2>2. QED BY <1>1, <2>1
  <1>4. ASSUME NEW at \in LookLabels \ {"init"}, NEW v \in Vnodes \union {None}, NEW flag \in BOOLEAN
        PROVE  Good(t, Push(Fr(at, v, flag), Below(t)))
    <2>1. PICK f \in Frame : f.at = at /\ \A s : Push(Fr(at, v, flag), s) = Push(f, s)
      BY <1>2, FormsAre
    <2>2. QED BY <1>1, <2>1
  <1>5. ASSUME NEW v \in Vnodes \union {None} PROVE Good(t, Over("rele", v, Below(t)))
    <2>1. PICK f \in Frame : f.at = "rele" /\ Over("rele", v, Below(t)) = Push(f, Below(t))
      BY <1>2, OverIs
    <2>2. QED BY <1>1, <1>2, <2>1
  <1>6. ASSUME NEW v \in Vnodes \union {None}, NEW at \in CallLabels
        PROVE  Good(t, Over("rele", v, Top1(t, at)))
    <2>1. PICK g \in Frame : g.at = at /\ Top1(t, at) = Push(g, Below(t))
      BY <1>2, FormsAre
    <2>2. PICK f \in Frame : f.at = "rele" /\ Over("rele", v, Top1(t, at)) = Push(f, Top1(t, at))
      BY <1>2, OverIs
    <2>3. QED BY <1>1, <1>2, <2>1, <2>2
  <1>7. ASSUME NEW v \in Vnodes \union {None}, NEW at \in CallLabels, NEW w \in Vnodes \union {None}
        PROVE  Good(t, Over("rele", v, Push(Fr(at, w, FALSE), Below(t))))
    <2> DEFINE g == Fr(at, w, FALSE)
    <2>1. g \in Frame /\ g.at = at
      BY <1>2 DEF Fr, Frame
    <2> HIDE DEF g
    <2>2. PICK f \in Frame : /\ f.at = "rele"
                             /\ Over("rele", v, Push(g, Below(t))) = Push(f, Push(g, Below(t)))
      BY <1>2, OverIs
    <2>3. Good(t, Push(f, Push(g, Below(t))))
      BY <1>1, <1>2, <2>1, <2>2
    <2>4. QED BY <2>2, <2>3 DEF g
  <1>8. Good(t, Below(t))
    <2>1. Top(t).at \notin CleanLabels
      BY DEF LookLabels, CleanLabels
    <2>2. QED BY <2>1, ReturnMoves DEF Life
  <1>9. QED BY <1>3, <1>4, <1>5, <1>6, <1>7, <1>8

\* The labels that a lookup goes to
LEMMA LooksAre ==
  /\ {"cached", "check", "scan", "get", "vget", "vget_slept", "got", "got_slept", "event", "have",
      "new", "enter", "dup", "fill", "fail"} = LookLabels \ {"init"}
  /\ {"cached", "scan", "get", "fail"} = CallLabels
  BY DEF LookLabels, CallLabels

LEMMA GetsLives ==
  ASSUME Typed, NEW t \in Threads, NEW v \in Vnodes, ~vn[v].xlock, Gets(v), NEW s, Moves(t, s), Good(t, s)
  PROVE  Lives(t)
  <1>1. vn[v].count + 1 \in Int
    BY DEF Typed, VnodeRecord
  <1>2. CountStep
    BY <1>1, BodySteps DEF Gets, CountsOnly
  <1>3. QED BY <1>2, OtherLives DEF Gets, CountsOnly

LEMMA StepsLive3 ==
  ASSUME Typed, Counted, Making, panic = "none", Life, NEW t \in Threads,
         \/ Cached(t) \/ Check(t) \/ Scan(t) \/ Get(t) \/ Vget(t) \/ VgetSlept(t) \/ Got(t)
         \/ GotSlept(t) \/ Event(t)
  PROVE  Lives(t)
  <1> DEFINE v == Top(t).v
  <1>1. InCall(t) /\ Top(t).at \in LookLabels
    <2>1. /\ InCall(t)
          /\ Top(t).at \in {"cached", "check", "scan", "get", "vget", "vget_slept", "got",
                            "got_slept", "event"}
      BY CachedDoes, CheckDoes, ScanDoes, GetDoes, VgetDoes, VgetSleptDoes, GotDoes, GotSleptDoes,
         EventDoes
    <2>2. QED BY <2>1 DEF LookLabels
  <1>2. /\ v \in Vnodes \union {None} /\ Top(t).flag \in BOOLEAN
        /\ Top(t).at \notin NoVnode => v \in Vnodes
    BY <1>1 DEF InCall
  <1>3. /\ \A at \in LookLabels \ {"init"} : Good(t, Top1(t, at))
        /\ \A at \in LookLabels \ {"init"}, w \in Vnodes \union {None}, flag \in BOOLEAN :
              Good(t, Push(Fr(at, w, flag), Below(t)))
        /\ \A w \in Vnodes \union {None}, at \in CallLabels : Good(t, Over("rele", w, Top1(t, at)))
        /\ Good(t, Below(t))
    BY <1>1, LookForms
  <1> HIDE DEF v
  <1>4. CASE Cached(t)
    <2>1. v \in Vnodes
      BY <1>2, <1>4, CachedDoes DEF NoVnode
    <2>2. CASE ~vn[v].xlock /\ Gets(v) /\ Moves(t, Top1(t, "check"))
      BY <1>3, <2>1, <2>2, LooksAre, GetsLives
    <2>3. CASE Quiet /\ Moves(t, Top1(t, "scan"))
      BY <1>3, <2>3, LooksAre, QuietLives
    <2>4. QED BY <1>4, <2>2, <2>3, CachedDoes DEF v
  <1>5. CASE Check(t)
    <2>1. Quiet
      BY <1>5, CheckDoes
    <2>2. CASE Moves(t, Push(Fr("got", v, TRUE), Below(t)))
      <3>1. Good(t, Push(Fr("got", v, TRUE), Below(t)))
        <4>1. \A flag \in BOOLEAN : Good(t, Push(Fr("got", v, flag), Below(t)))
          BY <1>2, <1>3, LooksAre
        <4>2. QED BY <4>1
      <3>2. QED BY <2>1, <2>2, <3>1, QuietLives
    <2>3. CASE Moves(t, Over("rele", v, Top1(t, "scan")))
      BY <1>2, <1>3, <2>1, <2>3, LooksAre, QuietLives
    <2>4. QED BY <1>5, <2>2, <2>3, CheckDoes DEF v
  <1>6. CASE Scan(t)
    BY <1>3, <1>6, ScanDoes, LooksAre, QuietLives
  <1>7. CASE Get(t)
    <2>1. ASSUME NEW w \in Vnodes, Quiet, Moves(t, Push(Fr("vget", w, Top(t).flag), Below(t)))
          PROVE  Lives(t)
      BY <1>2, <1>3, <2>1, LooksAre, QuietLives
    <2>2. ASSUME NEW w \in Vnodes, ~vn[w].xlock, Gets(w), Moves(t, Push(Fr("got", w, Top(t).flag), Below(t)))
          PROVE  Lives(t)
      BY <1>2, <1>3, <2>2, LooksAre, GetsLives
    <2>3. CASE Quiet /\ Moves(t, Top1(t, "new"))
      BY <1>3, <2>3, LooksAre, QuietLives
    <2>4. InHash(th[t].i) \subseteq Vnodes
      BY DEF InHash
    <2>5. QED BY <1>7, <2>1, <2>2, <2>3, <2>4, GetDoes
  <1>8. CASE Vget(t)
    <2>1. v \in Vnodes
      BY <1>2, <1>8, VgetDoes DEF NoVnode
    <2>2. CASE ~vn[v].xlock /\ Gets(v) /\ Moves(t, Over("rele", v, Top1(t, "get")))
      BY <1>3, <2>1, <2>2, LooksAre, GetsLives
    <2>3. CASE Quiet /\ Moves(t, Top1(t, "vget_slept"))
      BY <1>3, <2>3, LooksAre, QuietLives
    <2>4. QED BY <1>8, <2>2, <2>3, VgetDoes DEF v
  <1>9. CASE VgetSlept(t)
    BY <1>3, <1>9, VgetSleptDoes, LooksAre, QuietLives
  <1>10. CASE Got(t)
    BY <1>3, <1>10, GotDoes, LooksAre, QuietLives
  <1>11. CASE GotSlept(t)
    <2>1. Quiet /\ OthersAgree(t)
          /\ \E at \in {"get", "scan", "cached"}, w \in Vnodes \union {None} :
                th'[t].stack = Over("rele", v, Push(Fr(at, w, FALSE), Below(t)))
      BY <1>11, GotSleptDoes DEF v, OthersAgree
    <2>2. PICK at \in {"get", "scan", "cached"}, w \in Vnodes \union {None} :
             th'[t].stack = Over("rele", v, Push(Fr(at, w, FALSE), Below(t)))
      BY <2>1
    <2>3. Good(t, th'[t].stack)
      <3>1. Good(t, Over("rele", v, Push(Fr(at, w, FALSE), Below(t))))
        BY <1>1, <1>2, LookForms, LooksAre
      <3>2. QED BY <2>2, <3>1
    <2>4. BodyStep(t) /\ CountStep /\ SameLocks
      BY <2>1, BodySteps DEF Quiet
    <2>5. QED BY <2>1, <2>3, <2>4, GoodLives
  <1>12. CASE Event(t)
    BY <1>2, <1>3, <1>12, EventDoes, LooksAre, QuietLives DEF v
  <1>13. QED BY <1>4, <1>5, <1>6, <1>7, <1>8, <1>9, <1>10, <1>11, <1>12
\* A vnode of the free list is taken, and cleaned when it has been in use.
LEMMA NewLives ==
  ASSUME Typed, Counted, Making, panic = "none", Life, NEW t \in Threads, New(t)
  PROVE  Lives(t)
  <1>1. InCall(t) /\ Top(t).at = "new" /\ Top(t).at \in LookLabels /\ Top(t).flag \in BOOLEAN
    BY NewDoes DEF InCall, LookLabels
  <1>2. Below(t) = Empty /\ Cleaning(t) = {} /\ Below(t) \in Seq(Frame) /\ Vs(Below(t), CleanLabels) = {}
    BY <1>1, CallIsShaped, EmptyStack DEF Life
  <1>3. ASSUME NEW v \in Vnodes
        PROVE  \E f \in Frame : /\ f.at = "init" /\ f.v = v
                                /\ Push(Fr("init", v, Top(t).flag), Below(t)) = Push(f, Below(t))
    <2>1. "init" \in Labels
      BY DEF Labels
    <2>2. QED BY <1>1, <2>1, FormsAre
  <1>4. ASSUME NEW f \in Frame, f.at = "init"
        PROVE  LET x == Push(f, Below(t))
               IN  /\ x \in Seq(Frame) /\ x # Empty /\ Hd(x) = f /\ Tl(x) = Below(t)
                   /\ Vs(x, CleanLabels) = {} /\ Shaped(x) /\ ~Lone(x) /\ Unused1(x, f.v)
    <2> DEFINE x == Push(f, Below(t))
    <2>1. x \in Seq(Frame) /\ x # Empty /\ Hd(x) = f /\ Tl(x) = Below(t)
          /\ \A L : f.at \notin L => Vs(x, L) = Vs(Below(t), L)
      BY <1>2, HeadFacts
    <2>2. f.at \notin CleanLabels /\ f.at \in LookLabels
      BY <1>4 DEF CleanLabels, LookLabels
    <2> HIDE DEF x
    <2>3. Vs(x, CleanLabels) = {} /\ Shaped(x) /\ ~Lone(x) /\ Unused1(x, f.v)
      BY <1>2, <1>4, <2>1, <2>2 DEF Shaped, OnTop, Looks, Lone, Unused1
    <2>4. QED BY <2>1, <2>3 DEF x
  <1>5. ASSUME NEW v \in free, ~vn[v].xlock, vn[v].type = "bad", Quiet,
               Moves(t, Push(Fr("init", v, Top(t).flag), Below(t)))
        PROVE  Lives(t)
    <2>1. v \in Vnodes
      BY DEF Typed
    <2>2. PICK f \in Frame : /\ f.at = "init" /\ f.v = v
                             /\ Push(Fr("init", v, Top(t).flag), Below(t)) = Push(f, Below(t))
      BY <1>3, <2>1
    <2> DEFINE x == Push(f, Below(t))
    <2>3. /\ x # Empty /\ Hd(x) = f /\ Vs(x, CleanLabels) = {} /\ Shaped(x) /\ ~Lone(x)
      BY <1>4, <2>2
    <2>4. th'[t].stack = x /\ OthersAgree(t)
      BY <1>5, <2>2 DEF Moves, OthersAgree
    <2> HIDE DEF x
    <2>5. BodyStep(t) /\ CountStep /\ SameLocks
      BY <1>5, BodySteps DEF Quiet
    <2>6. Cleaning(t)' = Cleaning(t)
      <3>1. Cleaning(t)' = Vs(th'[t].stack, CleanLabels)
        BY DEF Cleaning, Vs, Marks, Frames
      <3>2. QED BY <1>2, <2>3, <2>4, <3>1
    <2>7. vn'[v].type = "bad" /\ ~vn'[v].xlock
      BY <1>5, <2>1 DEF Quiet, SameBodies, SameBody, SameLocks
    <2>8. TopStep(t)
      BY <2>2, <2>3, <2>4, <2>7 DEF TopStep
    <2>9. QED BY <2>3, <2>4, <2>5, <2>6, <2>8 DEF Lives, LockStep
  <1>6. ASSUME NEW v \in free, ~vn[v].xlock, LocksOnly(v),
               Moves(t, Over("clean", v, Push(Fr("init", v, Top(t).flag), Below(t))))
        PROVE  Lives(t)
    <2>1. v \in Vnodes
      BY DEF Typed
    <2>2. PICK f \in Frame : /\ f.at = "init" /\ f.v = v
                             /\ Push(Fr("init", v, Top(t).flag), Below(t)) = Push(f, Below(t))
      BY <1>3, <2>1
    <2> DEFINE x == Push(f, Below(t))
    <2>3. x \in Seq(Frame) /\ Vs(x, CleanLabels) = Cleaning(t) /\ Unused1(x, v)
      BY <1>2, <1>4, <2>2
    <2> HIDE DEF x
    <2>4. PICK g \in Frame : g.at = "clean" /\ g.v = v /\ Over("clean", v, x) = Push(g, x)
      <3>1. "clean" \in Labels
        BY DEF Labels
      <3>2. QED BY <2>1, <3>1, OverIs
    <2>5. th'[t].stack = Push(g, x) /\ OthersAgree(t)
      BY <1>6, <2>2, <2>4 DEF Moves, OthersAgree, x
    <2>6. BodyStep(t) /\ CountStep /\ LockIs(v, TRUE)
      BY <1>6, BodySteps DEF LocksOnly
    <2>7. vn'[v].count = 0
      BY <1>6, <2>1 DEF Making, FreeIs, LocksOnly, SameCounts
    <2>8. QED BY <1>6, <2>1, <2>3, <2>4, <2>5, <2>6, <2>7, LockLives
  <1>7. CASE Quiet /\ Moves(t, Top1(t, "fail"))
    BY <1>1, <1>7, LookForms, LooksAre, QuietLives
  <1>8. QED BY <1>5, <1>6, <1>7, NewDoes

LEMMA StepsLive4 ==
  ASSUME Typed, Counted, Making, panic = "none", Life, NEW t \in Threads,
         VInit(t) \/ Enter(t) \/ Dup(t) \/ Fill(t) \/ Have(t) \/ Fail(t)
  PROVE  Lives(t)
  <1> DEFINE v == Top(t).v
  <1>1. InCall(t) /\ Top(t).at \in LookLabels
    <2>1. InCall(t) /\ Top(t).at \in {"init", "enter", "dup", "fill", "have", "fail"}
      BY VInitDoes, EnterDoes, DupDoes, FillDoes, HaveDoes, FailDoes
    <2>2. QED BY <2>1 DEF LookLabels
  <1>2. /\ v \in Vnodes \union {None} /\ Top(t).flag \in BOOLEAN
        /\ Top(t).at \notin NoVnode => v \in Vnodes
        /\ Top(t).at \in OwnLabels => Owner(t, v)
        /\ Below(t) = Empty /\ Cleaning(t) = {}
        /\ th[t].stack # Empty /\ Hd(th[t].stack) = Top(t) /\ Top(t) \in Frame
    BY <1>1, TopOwns, CallIsShaped DEF InCall, Life
  <1>3. /\ \A at \in LookLabels \ {"init"} : Good(t, Top1(t, at))
        /\ \A w \in Vnodes \union {None} : Good(t, Over("rele", w, Below(t)))
        /\ \A w \in Vnodes \union {None}, at \in CallLabels : Good(t, Over("rele", w, Top1(t, at)))
        /\ Good(t, Below(t))
    BY <1>1, LookForms
  <1>4. /\ \A s : Moves(t, s) => th'[t].stack = s /\ OthersAgree(t)
        /\ Keeps(t) => th'[t].stack = Below(t) /\ OthersAgree(t)
    BY <1>2 DEF Moves, Keeps, OthersAgree, Empty
  <1> HIDE DEF v
  <1>5. CASE VInit(t)
    <2>1. /\ Top(t).at = "init" /\ CountIs(v, vn[v].count + 1) /\ LockIs(v, FALSE) /\ Moves(t, Top1(t, "enter"))
          /\ \E listed : ~listed /\ BodyIs(v, "none", "ufs", th[t].i, FALSE, listed, "no")
      BY <1>5, VInitDoes DEF v
    <2>2. v \in Vnodes /\ ~vn[v].xlock
      <3>1. v \in Vnodes
        BY <1>2, <2>1 DEF NoVnode
      <3>2. QED BY <1>2, <2>1, <3>1 DEF Life, InitTops, v
    <2>3. SameLocks /\ CountStep
      <3>1. vn[v].count + 1 \in Int /\ vn[v].xlock \in BOOLEAN
        <4>1. vn[v] \in VnodeRecord
          BY <2>2 DEF Typed
        <4>2. QED BY <4>1 DEF VnodeRecord
      <3>2. SameLocks
        BY <2>1, <2>2, <3>1 DEF LockIs, SameLocks
      <3>3. CountStep
        BY <2>1, <2>2, <3>1, BodySteps
      <3>4. QED BY <3>2, <3>3
    <2>4. BodyStep(t)
      <3>1. \E f \in Inits(t) : f.v = v
        BY <1>1, <2>1 DEF Inits, Marks, InCall, v
      <3>2. vn'[v].type = "none"
        BY <2>1 DEF BodyIs
      <3>3. \A w \in Vnodes \ {v} : vn'[w].type = vn[w].type /\ vn'[w].listed = vn[w].listed
        BY <2>1 DEF BodyIs, SameBody
      <3>4. QED BY <3>1, <3>2, <3>3 DEF BodyStep
    <2>5. QED BY <1>3, <1>4, <2>1, <2>3, <2>4, LooksAre, GoodLives
  <1>6. CASE Enter(t)
    <2>1. Top(t).at = "enter" /\ SameCounts /\ InCall(t)
      BY <1>6, EnterDoes
    <2>2. v \in Vnodes /\ Owner(t, v)
      BY <1>2, <2>1 DEF NoVnode, OwnLabels
    <2>3. BodyStep(t) /\ CountStep
      <3>1. \A w \in Vnodes : vn'[w].type = vn[w].type /\ vn'[w].listed = vn[w].listed
        BY <1>6, EnterDoes DEF v, BodyIs, SameBody
      <3>2. QED BY <2>1, <3>1, BodySteps DEF BodyStep
    <2>4. CASE SameLocks /\ Moves(t, Top1(t, "fill"))
      BY <1>3, <1>4, <2>3, <2>4, LooksAre, GoodLives
    <2>5. CASE SameLocks /\ Moves(t, Top1(t, "dup"))
      BY <1>3, <1>4, <2>3, <2>5, LooksAre, GoodLives
    <2>6. ASSUME LockIs(v, TRUE), ~vn[v].xlock, NEW a \in {"clean", "gone_end"},
                 Moves(t, Over(a, v, Top1(t, "dup")))
          PROVE  Lives(t)
      <3>1. PICK g \in Frame : g.at = "dup" /\ g.v = v /\ Top1(t, "dup") = Push(g, Below(t))
        <4>1. "dup" \in Labels
          BY DEF Labels
        <4>2. QED BY <1>1, <4>1, FormsAre DEF v
      <3> DEFINE x == Push(g, Below(t))
      <3>2. x \in Seq(Frame) /\ x # Empty /\ Hd(x) = g /\ Tl(x) = Below(t)
        BY <1>1, HeadFacts DEF InCall
      <3>3. Vs(x, CleanLabels) = Cleaning(t)
        <4>1. Good(t, x)
          BY <1>3, <3>1, LooksAre
        <4>2. QED BY <4>1 DEF Good
      <3> HIDE DEF x
      <3>4. PICK f \in Frame : f.at = a /\ f.v = v /\ Over(a, v, x) = Push(f, x)
        <4>1. a \in Labels
          BY DEF Labels
        <4>2. QED BY <2>2, <4>1, OverIs
      <3>5. th'[t].stack = Push(f, x) /\ OthersAgree(t)
        BY <1>4, <2>6, <3>1, <3>4 DEF x
      <3>6. Active(x, v)
        BY <1>2, <3>1, <3>2 DEF Active
      <3>7. QED BY <2>2, <2>3, <2>6, <3>2, <3>3, <3>4, <3>5, <3>6, LockLives
    <2>7. QED BY <1>6, <2>4, <2>5, <2>6, EnterDoes DEF v
  <1>7. CASE Dup(t)
    BY <1>2, <1>3, <1>7, DupDoes, LooksAre, QuietLives DEF v
  <1>8. CASE Fill(t)
    <2>1. Top(t).at = "fill" /\ BodiesOnly
      BY <1>8, FillDoes
    <2>2. v \in Vnodes /\ Owner(t, v)
      BY <1>2, <2>1 DEF NoVnode, OwnLabels
    <2>3. BodyStep(t) /\ CountStep /\ SameLocks
      <3>1. \A w \in Vnodes \ {v} : vn'[w].type = vn[w].type /\ vn'[w].listed = vn[w].listed
        BY <1>8, FillDoes DEF v, BodyIs, SameBody
      <3>2. vn'[v].type \in {"none", "reg"} \/ (vn'[v].type = vn[v].type /\ vn'[v].listed = vn[v].listed)
        BY <1>8, FillDoes DEF v, BodyIs
      <3>3. QED BY <2>1, <2>2, <3>1, <3>2, BodySteps DEF BodyStep, BodiesOnly
    <2>4. CASE Moves(t, Top1(t, "have"))
      BY <1>3, <1>4, <2>3, <2>4, LooksAre, GoodLives
    <2>5. CASE Moves(t, Over("rele", v, Top1(t, "fail")))
      BY <1>2, <1>3, <1>4, <2>3, <2>5, LooksAre, GoodLives
    <2>6. QED BY <1>8, <2>4, <2>5, FillDoes DEF v
  <1>9. CASE Have(t)
    <2>1. Top(t).at = "have"
      BY <1>9, HaveDoes
    <2>2. v \in Vnodes /\ Owner(t, v)
      BY <1>2, <2>1 DEF NoVnode, OwnLabels
    <2>3. BodyStep(t) /\ CountStep /\ SameLocks
      <3>1. SameCounts /\ SameLocks
        BY <1>9, HaveDoes DEF Quiet, BodiesOnly
      <3>2. \A w \in Vnodes \ {v} : vn'[w].type = vn[w].type /\ vn'[w].listed = vn[w].listed
        BY <1>9, <2>2, HaveDoes DEF v, BodyIs, SameBody, Quiet, SameBodies
      <3>3. vn'[v].type = "reg" \/ (vn'[v].type = vn[v].type /\ vn'[v].listed = vn[v].listed)
        BY <1>9, <2>2, HaveDoes DEF v, BodyIs, SameBody, Quiet, SameBodies
      <3>4. QED BY <2>2, <3>1, <3>2, <3>3, BodySteps DEF BodyStep
    <2>4. CASE Keeps(t)
      BY <1>3, <1>4, <2>3, <2>4, GoodLives
    <2>5. CASE Moves(t, Over("rele", v, Top1(t, "scan")))
      BY <1>2, <1>3, <1>4, <2>3, <2>5, LooksAre, GoodLives
    <2>6. CASE Moves(t, Over("rele", v, Below(t)))
      BY <1>2, <1>3, <1>4, <2>3, <2>6, GoodLives
    <2>7. QED BY <1>9, <2>4, <2>5, <2>6, HaveDoes DEF v
  <1>10. CASE Fail(t)
    BY <1>3, <1>10, FailDoes, QuietLives
  <1>11. QED BY <1>5, <1>6, <1>7, <1>8, <1>9, <1>10
LEMMA BeginMoves ==
  ASSUME Typed, NEW t \in Threads, th[t].stack = <<>>
  PROVE  /\ Cleaning(t) = {} /\ Good(t, Empty)
         /\ \A at \in ((LookLabels \ {"init"}) \union {"rele", "gone_slept"}), v \in Vnodes \union {None} :
              Good(t, Only(at, v))
  <1>1. Cleaning(t) = {} /\ Empty \in Seq(Frame) /\ Vs(Empty, CleanLabels) = {}
    BY EmptyStack DEF Cleaning, Empty
  <1>2. Good(t, Empty)
    BY <1>1 DEF Good, Shaped, Tame
  <1>3. ASSUME NEW at \in ((LookLabels \ {"init"}) \union {"rele", "gone_slept"}), NEW v \in Vnodes \union {None}
        PROVE  Good(t, Only(at, v))
    <2>1. at \in Labels /\ at \notin CleanLabels /\ at # "init"
      BY DEF Labels, LookLabels, CleanLabels
    <2>2. PICK f \in Frame : f.at = at /\ Only(at, v) = Push(f, Empty)
      BY <2>1, OverIs DEF Only, Empty
    <2>3. OnTop(f, Empty)
      BY <2>2 DEF OnTop, Looks, Releases, ReleLabels, Caller
    <2>4. QED BY <1>1, <2>1, <2>2, <2>3, PushGood
  <1>4. QED BY <1>1, <1>2, <1>3

LEMMA StartLives ==
  ASSUME Typed, Counted, Making, panic = "none", Life, NEW t \in Threads, Start(t)
  PROVE  Lives(t)
  <1>1. ASSUME NEW why, NEW i, NEW at \in ((LookLabels \ {"init"}) \union {"rele", "gone_slept"}),
               NEW v \in Vnodes \union {None}, Begins(t, why, i, Only(at, v))
        PROVE  th'[t].stack = Only(at, v) /\ Good(t, th'[t].stack) /\ OthersAgree(t)
    BY <1>1, BeginMoves DEF Begins, OthersAgree
  <1>2. Quiet => BodyStep(t) /\ CountStep /\ SameLocks
    BY BodySteps DEF Quiet
  <1>3. Quiet /\ Good(t, th'[t].stack) /\ OthersAgree(t) => Lives(t)
    BY <1>2, GoodLives
  <1>4. /\ \A at \in {"scan", "cached", "get", "rele", "gone_slept"} :
             at \in ((LookLabels \ {"init"}) \union {"rele", "gone_slept"})
    BY LooksAre
  <1>5. ASSUME NEW i \in Inos, LookUp(t, i) PROVE Lives(t)
    BY <1>1, <1>3, <1>4, <1>5, LookUpDoes
  <1>6. ASSUME NEW i \in Inos, FhToVp(t, i) PROVE Lives(t)
    BY <1>1, <1>3, <1>4, <1>6, FhToVpDoes
  <1>7. ASSUME NEW i \in Inos, Create(t, i) PROVE Lives(t)
    BY <1>1, <1>3, <1>4, <1>7, CreateDoes
  <1>8. CASE Close(t)
    BY <1>1, <1>3, <1>4, <1>8, CloseDoes
  <1>9. CASE Remove(t)
    <2>1. th'[t].stack = Empty /\ OthersAgree(t) /\ Quiet /\ th[t].stack = <<>>
      BY <1>9, RemoveDoes DEF Agree, OthersAgree, Empty
    <2>2. QED BY <1>3, <2>1, BeginMoves
  <1>10. ASSUME NEW v \in Vnodes, Sync(t, v) PROVE Lives(t)
    <2>1. ~vn[v].xlock /\ Gets(v)
      BY <1>10, SyncDoes
    <2>2. Good(t, th'[t].stack) /\ OthersAgree(t)
      BY <1>1, <1>4, <1>10, SyncDoes
    <2>3. vn[v].count + 1 \in Int
      BY DEF Typed, VnodeRecord
    <2>4. CountStep /\ BodyStep(t) /\ SameLocks
      BY <2>1, <2>3, BodySteps DEF Gets, CountsOnly
    <2>5. QED BY <2>2, <2>4, GoodLives
  <1>11. ASSUME NEW v \in Vnodes, Vflush(t, v) PROVE Lives(t)
    <2>1. CASE Quiet /\ Begins(t, "unmount", th[t].i, Only("gone_slept", v))
      BY <1>1, <1>3, <1>4, <2>1
    <2>2. ASSUME ~vn[v].xlock, LocksOnly(v), NEW a \in {"clean", "gone_end"},
                 Begins(t, "unmount", th[t].i, Only(a, v))
          PROVE  Lives(t)
      <3>1. PICK f \in Frame : f.at = a /\ f.v = v /\ Only(a, v) = Push(f, Empty)
        <4>1. a \in Labels
          BY DEF Labels
        <4>2. QED BY <4>1, OverIs DEF Only, Empty
      <3>2. th'[t].stack = Push(f, Empty) /\ OthersAgree(t) /\ th[t].stack = <<>>
        BY <2>2, <3>1 DEF Begins, OthersAgree
      <3>3. Empty \in Seq(Frame) /\ Vs(Empty, CleanLabels) = Cleaning(t) /\ Unused1(Empty, v)
        BY <3>2, EmptyStack, BeginMoves DEF Unused1
      <3>4. BodyStep(t) /\ CountStep /\ LockIs(v, TRUE)
        BY <2>2, BodySteps DEF LocksOnly
      <3>5. vn[v].listed /\ vn'[v].count = 0
        BY <1>11, <2>2, VflushDoes DEF LocksOnly, SameCounts
      <3>6. QED BY <2>2, <3>1, <3>2, <3>3, <3>4, <3>5, LockLives
    <2>3. QED BY <1>11, <2>1, <2>2, VflushDoes
  <1>12. QED BY <1>5, <1>6, <1>7, <1>8, <1>9, <1>10, <1>11 DEF Start

LEMMA StepLives ==
  ASSUME Typed, Counted, Making, panic = "none", Life, NEW t \in Threads, Step(t) \/ Start(t)
  PROVE  Lives(t)
  BY StepsLive1, StepsLive2, StepsLive3, NewLives, StepsLive4, StartLives DEF Step

LEMMA InitLife == Init => Life
  <1> SUFFICES ASSUME Init PROVE Life
    OBVIOUS
  <1>1. \A t \in Threads : th[t].stack = Empty
    BY DEF Init, Idle, Empty
  <1>2. \A t \in Threads : Cleaning(t) = {}
    BY <1>1, EmptyStack DEF Cleaning
  <1>3. \A v \in Vnodes : ~vn[v].xlock /\ ~vn[v].listed
    BY DEF Init, Unused
  <1>4. Shapes /\ InitTops /\ LonesAre
    BY <1>1 DEF Shapes, Shaped, InitTops, LonesAre, Lone
  <1>5. LocksAre /\ BadIsGone
    BY <1>2, <1>3 DEF LocksAre, BadIsGone
  <1>6. QED BY <1>4, <1>5 DEF Life

LEMMA NextLife ==
  Typed /\ Typed' /\ Counted /\ Counted' /\ Making /\ Life /\ [Next]_vars => Life'
  <1> SUFFICES ASSUME Typed, Typed', Counted, Counted', Making, Life, [Next]_vars PROVE Life'
    OBVIOUS
  <1>1. CASE Next
    <2>1. panic = "none" /\ \E t \in Threads : Step(t) \/ Start(t)
      BY <1>1 DEF Next
    <2>2. QED BY <2>1, StepLives, LivesGoesOn
  <1>2. CASE UNCHANGED vars
    <2>1. vn' = vn /\ panic' = panic /\ \A t \in Threads : th'[t].stack = th[t].stack
      BY <1>2 DEF vars
    <2>2. \A t \in Threads : Cleaning(t)' = Cleaning(t)
      BY <2>1 DEF Cleaning, Vs, Marks, Frames
    <2>3. Shapes'
      BY <2>1 DEF Life, Shapes, Shaped, OnTop, Looks, Releases, Inactivates, CleansUsed,
                  CleansUnused, GivesBack, Reclaims, Active, Dropping, Caller, Unused1
    <2>4. LocksAre' /\ BadIsGone'
      BY <2>1, <2>2 DEF Life, LocksAre, BadIsGone
    <2>5. ASSUME panic' = "none" PROVE InitTops'
      BY <2>1, <2>5 DEF Life, InitTops, Hd, Empty
    <2>6. ASSUME panic' = "none" PROVE LonesAre'
      BY <2>1, <2>6 DEF Life, LonesAre, Lone, Hd, Tl, Empty, Unused1
    <2>7. QED BY <2>3, <2>4, <2>5, <2>6 DEF Life
  <1>3. QED BY <1>1, <1>2

\* Each call nests in the calls that the code makes it from; a vnode is
\* VXLOCKed while one thread cleans it, and one that is bad is on no list.
THEOREM CallsNest == Spec => []Life
  <1>1. Typed /\ Typed' /\ Counted /\ Counted' /\ Making /\ Life /\ [Next]_vars => Life'
    BY NextLife
  <1>2. QED BY <1>1, InitLife, AlwaysTyped, AlwaysCounted, MakingIsKept, PTL DEF Spec
------------------------------------------------------------------------------
\* One thread at a time cleans a vnode.

LEMMA StackBounds ==
  ASSUME Typed, Life, NEW t \in Threads
  PROVE  Len(th[t].stack) \in 0 .. 8 /\ \A v : Refs(th[t], v) \in 0 .. 2
  <1> DEFINE s == th[t].stack
  <1>1. s \in Seq(Frame) /\ Shaped(s)
    BY StackIn DEF Life, Shapes
  <1>2. s # Empty => th[t].held = None
    BY DEF Typed, CallFits, Empty
  <1>3. \A v : Holds(th[t], v) \in {0, 1} /\ (th[t].held = None => Holds(th[t], v) = 0)
    BY DEF Holds
  <1>4. \A v : Refs(th[t], v) = Count(s, OwnFrames(v)) + Holds(th[t], v)
    BY DEF Refs
  <1> HIDE DEF s
  <1>5. CASE s = Empty
    <2>1. Len(s) = 0 /\ \A v : Count(s, OwnFrames(v)) = 0
      BY <1>5, EmptyCounts
    <2>2. QED BY <1>3, <1>4, <2>1 DEF s
  <1>6. CASE s # Empty
    <2>1. Hd(s) \in Frame /\ Tl(s) \in Seq(Frame) /\ s = Push(Hd(s), Tl(s)) /\ OnTop(Hd(s), Tl(s))
      BY <1>1, <1>6, ConsFacts DEF Shaped
    <2>2. Len(s) <= 5 /\ \A v : Count(s, OwnFrames(v)) \in 0 .. 2
      BY <2>1, TopCounts
    <2>3. Len(s) \in Nat
      BY <1>1
    <2>4. Len(s) \in 0 .. 8
      <3> DEFINE n == Len(s)
      <3>1. n <= 5 /\ n \in Nat
        BY <2>2, <2>3
      <3> HIDE DEF n
      <3>2. n \in 0 .. 8
        BY <3>1
      <3>3. QED BY <3>2 DEF n
    <2>5. \A v : Refs(th[t], v) \in 0 .. 2
      BY <1>2, <1>3, <1>4, <1>6, <2>2
    <2>6. QED BY <2>4, <2>5 DEF s
  <1>7. QED BY <1>5, <1>6

LEMMA CleanersAre ==
  ASSUME Typed, Life, NEW v \in Vnodes
  PROVE  Cardinality(Cleaners(v)) = IF vn[v].xlock THEN 1 ELSE 0
  <1> DEFINE C == CleanLabels
  <1>0. Cleaners(v) = {c \in Threads \X (1 .. 8) :
                         /\ c[2] \in DOMAIN th[c[1]].stack /\ th[c[1]].stack[c[2]].v = v
                         /\ th[c[1]].stack[c[2]].at \in C}
    BY DEF Cleaners, CleanLabels
  <1> HIDE DEF C
  <1>1. ASSUME NEW t \in Threads
        PROVE  /\ th[t].stack \in Seq(Frame) /\ Len(th[t].stack) \in 0 .. 8
               /\ DOMAIN th[t].stack = 1 .. Len(th[t].stack)
               /\ v \in Cleaning(t) <=>
                    \E k \in DOMAIN th[t].stack : th[t].stack[k].at \in C /\ th[t].stack[k].v = v
               /\ \A j, k \in DOMAIN th[t].stack :
                    th[t].stack[j].at \in C /\ th[t].stack[k].at \in C => j = k
    <2> DEFINE s == th[t].stack
    <2>1. s \in Seq(Frame) /\ Shaped(s)
      BY StackIn DEF Life, Shapes
    <2>3. Len(s) \in 0 .. 8
      BY StackBounds
    <2>2. Cleaning(t) = Vs(s, C)
      BY DEF Cleaning, C
    <2> HIDE DEF s
    <2>4. v \in Vs(s, C) <=> \E k \in DOMAIN s : s[k].at \in C /\ s[k].v = v
      BY DEF Vs, Marks, Frames
    <2>5. \A j, k \in DOMAIN s : s[j].at \in C /\ s[k].at \in C => j = k
      BY <2>1, OneCleans DEF C
    <2>6. DOMAIN s = 1 .. Len(s)
      BY <2>1
    <2>7. QED BY <2>1, <2>2, <2>3, <2>4, <2>5, <2>6 DEF s
  <1>2. CASE vn[v].xlock
    <2>1. PICK t \in Threads : v \in Cleaning(t)
      BY <1>2 DEF Life, LocksAre
    <2>2. \A u \in Threads \ {t} : v \notin Cleaning(u)
      BY <2>1 DEF Life, LocksAre
    <2>3. PICK k \in DOMAIN th[t].stack : th[t].stack[k].at \in C /\ th[t].stack[k].v = v
      BY <1>1, <2>1
    <2>4. k \in 1 .. 8
      BY <1>1, <2>3
    <2>5. <<t, k>> \in Cleaners(v)
      BY <1>0, <2>3, <2>4
    <2>6. ASSUME NEW c \in Cleaners(v) PROVE c = <<t, k>>
      <3>1. /\ c \in Threads \X (1 .. 8) /\ c[2] \in DOMAIN th[c[1]].stack
            /\ th[c[1]].stack[c[2]].v = v /\ th[c[1]].stack[c[2]].at \in C
        BY <1>0, <2>6
      <3>2. c[1] = t
        BY <1>1, <2>2, <3>1
      <3>3. c[2] = k
        BY <1>1, <2>3, <3>1, <3>2
      <3>4. QED BY <3>1, <3>2, <3>3
    <2>7. Cleaners(v) = {<<t, k>>}
      BY <2>5, <2>6
    <2>8. QED BY <1>2, <2>7, FS_Singleton
  <1>3. CASE ~vn[v].xlock
    <2>1. \A t \in Threads : v \notin Cleaning(t)
      BY <1>3 DEF Life, LocksAre
    <2>2. Cleaners(v) = {}
      BY <1>0, <1>1, <2>1
    <2>3. QED BY <1>3, <2>2, FS_EmptySet
  <1>4. QED BY <1>2, <1>3

\* A vnode is VXLOCKed exactly while one call of one thread is in vclean or in
\* the rest of vgone with it: no two clean it, and no lock is left behind.
THEOREM OneCleansAtATime == Spec => []OneCleaner
  <1>1. Typed /\ Life => OneCleaner
    BY CleanersAre DEF OneCleaner
  <1>2. QED BY <1>1, AlwaysTyped, CallsNest, PTL

------------------------------------------------------------------------------
\* The bounds of the type invariant

LEMMA CountBounds ==
  ASSUME Typed, Counted, Life, NEW v \in Vnodes
  PROVE  vn[v].count \in 0 .. 3 * Cardinality(Threads)
  <1> DEFINE f == [u \in Threads |-> Refs(th[u], v)]
             n == Cardinality(Threads)
  <1>1. f \in [Threads -> 0 .. 2]
    BY StackBounds
  <1>2. vn[v].count = SumFunction(f)
    BY DEF Counted, RefSum
  <1> HIDE DEF f
  <1>3. SumFunction(f) \in Nat /\ SumFunction(f) <= 2 * n
    BY <1>1, SumBound, ThreadsAssumption
  <1>4. n \in Nat
    BY FS_CardinalityType, ThreadsAssumption
  <1> HIDE DEF n
  <1>5. SumFunction(f) \in 0 .. 3 * n
    BY <1>3, <1>4
  <1>6. QED BY <1>2, <1>5 DEF n

\* Every value has its type; no thread has more than two references of a vnode, so
\* that the count of references is bounded by the threads, and the calls nest to
\* a bounded depth: there is no way to leak a reference or to call deeper and deeper.
THEOREM TypesAreRight == Spec => []TypeOK
  <1>1. ASSUME Typed, Counted, Life PROVE TypeOK
    <2> DEFINE n == 3 * Cardinality(Threads)
    <2>1. vn \in [Vnodes -> [count : 0 .. n, xlock : BOOLEAN,
                        want : BOOLEAN, type : {"none", "reg", "bad"}, ops : {"ufs", "dead"},
                        ino : Inos \union {None}, hashed : BOOLEAN, listed : BOOLEAN,
                        inactivating : BOOLEAN, inactwait : BOOLEAN,
                        read : {"no", "yes", "error"}]]
      <3>1. vn \in [Vnodes -> VnodeRecord] /\ \A v \in Vnodes : vn[v].count \in 0 .. n
        BY <1>1, CountBounds DEF Typed
      <3> HIDE DEF n
      <3>2. QED BY <3>1 DEF VnodeRecord
    <2>2. ASSUME NEW t \in Threads
          PROVE  /\ th[t].stack \in Seq(Frame) /\ Len(th[t].stack) <= 8
                 /\ th[t].chan \in {None} \union ({"v_flag", "i_flag"} \X Vnodes)
                 /\ th[t].why \in {"name", "handle", "create", "other", "unmount"}
                 /\ th[t].i \in Inos \union {None}
                 /\ th[t].cap \in Vnodes \union {None}
                 /\ th[t].held \in Open \union {None}
      <3>1. th[t] \in ThreadRecord
        BY <1>1 DEF Typed
      <3>2. Len(th[t].stack) \in 0 .. 8
        BY <1>1, StackBounds
      <3>3. Len(th[t].stack) <= 8
        <4> DEFINE depth == Len(th[t].stack)
        <4>1. depth \in 0 .. 8
          BY <3>2
        <4> HIDE DEF depth
        <4>2. depth <= 8
          BY <4>1
        <4>3. QED BY <4>2 DEF depth
      <3>4. QED BY <3>1, <3>3 DEF ThreadRecord, Channels
    <2>3. QED BY <1>1, <2>1, <2>2 DEF TypeOK, Typed
  <1>2. QED BY <1>1, AlwaysTyped, AlwaysCounted, CallsNest, PTL

------------------------------------------------------------------------------
\* The panics: the vnodes that a thread has in calls of one kind

MakeLabels == {"enter", "fill", "dup"}
LeaveLabels == {"purge", "gone_end"}
\* While a thread is there, nobody else is to get to one of these with the vnode
\* of an inode that is being made.
Blocked == MakeLabels \union {"rele_slept", "inactive", "drop"} \union UfsLabels \union CleanLabels

Inacting(t)  == Vs(th[t].stack, InactLabels)
Blocks(t)    == Vs(th[t].stack, Blocked)
Leaves(t)    == Vs(th[t].stack, LeaveLabels)
Makes(t)     == Marks(th[t].stack, MakeLabels)
Under(s)     == IF s = Empty THEN Empty ELSE Tl(s)
EndsBelow(t) == Vs(Under(th[t].stack), {"end"})
TopInacts(s) == s # Empty /\ Hd(s).at \in InactLabels => Vs(Tl(s), InactLabels) = {}

LEMMA LabelSets ==
  /\ InactLabels \subseteq UfsLabels /\ UfsLabels \subseteq Blocked /\ CleanLabels \subseteq Blocked
  /\ MakeLabels \subseteq Blocked /\ LeaveLabels \subseteq CleanLabels
  /\ UfsLabels \cap CleanLabels = {} /\ MakeLabels \cap UfsLabels = {} /\ MakeLabels \cap CleanLabels = {}
  /\ CallLabels \cap Blocked = {} /\ "init" \notin Blocked /\ "rele" \notin Blocked /\ "drop" \in Blocked
  /\ "drop" \notin UfsLabels \union CleanLabels \union MakeLabels /\ "end" \in InactLabels
  /\ MakeLabels \subseteq LookLabels /\ CallLabels \subseteq LookLabels
  /\ LookLabels \cap (UfsLabels \union CleanLabels \union ReleLabels) = {}
  BY DEF InactLabels, UfsLabels, CleanLabels, Blocked, MakeLabels, LeaveLabels, CallLabels, LookLabels, ReleLabels

LEMMA FormVnodes ==
  ASSUME NEW s \in Seq(Frame), NEW v, NEW L, L \cap CallLabels = {}
  PROVE  /\ Caller(s) => Vs(s, L) = {}
         /\ Dropping(s, v) => Vs(s, L) \subseteq {v} /\ ("drop" \notin L => Vs(s, L) = {})
         /\ Active(s, v) => Vs(s, L) \subseteq {v}
         /\ Unused1(s, v) => Vs(s, L) \subseteq {v} /\ ("init" \notin L => Vs(s, L) = {})
  <1>1. ASSUME NEW q \in Seq(Frame), Caller(q) PROVE Vs(q, L) = {}
    <2>1. CASE q = Empty
      BY <2>1, EmptyStack
    <2>2. CASE q # Empty
      <3>1. Hd(q).at \notin L /\ Tl(q) = Empty
        BY <1>1, <2>2 DEF Caller
      <3>2. QED BY <2>2, <3>1, ConsFacts, EmptyStack
    <2>3. QED BY <2>1, <2>2
  <1>2. ASSUME NEW q \in Seq(Frame), Dropping(q, v)
        PROVE  Vs(q, L) \subseteq {v} /\ ("drop" \notin L => Vs(q, L) = {})
    <2>1. q # Empty /\ Hd(q).at = "drop" /\ Hd(q).v = v /\ Caller(Tl(q))
      BY <1>2 DEF Dropping
    <2>2. Tl(q) \in Seq(Frame)
      BY <2>1, ConsFacts
    <2>3. Vs(Tl(q), L) = {}
      BY <1>1, <2>1, <2>2
    <2>4. CASE "drop" \in L
      BY <2>1, <2>3, <2>4, ConsFacts
    <2>5. CASE "drop" \notin L
      BY <2>1, <2>3, <2>5, ConsFacts
    <2>6. QED BY <2>4, <2>5
  <1>3. ASSUME Active(s, v) PROVE Vs(s, L) \subseteq {v}
    <2>1. s # Empty /\ Hd(s).v = v /\ Tl(s) \in Seq(Frame)
      BY <1>3, ConsFacts DEF Active
    <2>2. Vs(Tl(s), L) \subseteq {v}
      <3>1. CASE Tl(s) = Empty
        BY <3>1, EmptyStack
      <3>2. CASE Dropping(s, v)
        BY <1>1, <2>1, <3>2 DEF Dropping
      <3>3. CASE Dropping(Tl(s), v)
        BY <1>2, <2>1, <3>3
      <3>4. QED BY <1>3, <3>1, <3>2, <3>3 DEF Active
    <2>3. CASE Hd(s).at \in L
      BY <2>1, <2>2, <2>3, ConsFacts
    <2>4. CASE Hd(s).at \notin L
      BY <2>1, <2>2, <2>4, ConsFacts
    <2>5. QED BY <2>3, <2>4
  <1>4. ASSUME Unused1(s, v) PROVE Vs(s, L) \subseteq {v} /\ ("init" \notin L => Vs(s, L) = {})
    <2>1. CASE s = Empty
      BY <2>1, EmptyStack
    <2>2. CASE s # Empty
      <3>1. Hd(s).at = "init" /\ Hd(s).v = v /\ Tl(s) = Empty
        BY <1>4, <2>2 DEF Unused1
      <3>2. CASE "init" \in L
        BY <2>2, <3>1, <3>2, ConsFacts, EmptyStack
      <3>3. CASE "init" \notin L
        BY <2>2, <3>1, <3>3, ConsFacts, EmptyStack
      <3>4. QED BY <3>2, <3>3
    <2>3. QED BY <2>1, <2>2
  <1>5. QED BY <1>1, <1>2, <1>3, <1>4

\* What may be under the top
LEMMA UnderTop ==
  ASSUME NEW f \in Frame, NEW s \in Seq(Frame), OnTop(f, s), s # Empty
  PROVE  /\ Hd(s).at \notin {"trunc", "ifree"}
         /\ Hd(s).at \in InactLabels => f.at \in CleanLabels /\ Vs(Tl(s), InactLabels) = {}
         /\ Hd(s).at = "init" => f.at \in CleanLabels
  <1> USE DEF CleanLabels, UfsLabels, InactLabels, ReleLabels, CallLabels, LookLabels
  <1>1. Tl(s) \in Seq(Frame)
    BY ConsFacts
  <1>2. CASE Looks(f, s)
    BY <1>2 DEF Looks
  <1>3. CASE Releases(f, s)
    BY <1>3 DEF Releases, Caller
  <1>4. CASE Inactivates(f, s)
    BY <1>4 DEF Inactivates, Dropping
  <1>5. CASE CleansUsed(f, s)
    <2>1. f.at \in CleanLabels /\ Hd(s).at \in {"dup", "drop", "end"}
      BY <1>5 DEF CleansUsed, Active, Dropping
    <2>2. Hd(s).at = "end" => Dropping(Tl(s), f.v)
      BY <1>5 DEF CleansUsed, Active, Dropping
    <2>3. "drop" \notin InactLabels /\ InactLabels \cap CallLabels = {}
      OBVIOUS
    <2>4. Dropping(Tl(s), f.v) => Vs(Tl(s), InactLabels) = {}
      BY <1>1, <2>3, FormVnodes
    <2>5. QED BY <2>1, <2>2, <2>4
  <1>6. CASE CleansUnused(f, s)
    BY <1>6 DEF CleansUnused, Unused1
  <1>7. CASE GivesBack(f, s)
    BY <1>7 DEF GivesBack
  <1>8. CASE Reclaims(f, s)
    BY <1>8 DEF Reclaims
  <1>9. QED BY <1>2, <1>3, <1>4, <1>5, <1>6, <1>7, <1>8 DEF OnTop

\* Whoever inactivates a vnode, or is about to, has a reference of it.
LEMMA UfsOwned ==
  ASSUME NEW f \in Frame, NEW s \in Seq(Frame), OnTop(f, s), NEW v \in Vs(Push(f, s), UfsLabels)
  PROVE  \E g \in Frames(Push(f, s)) : Owns(g, v)
  <1>1. /\ UfsLabels \cap CallLabels = {} /\ "drop" \notin UfsLabels /\ "init" \notin UfsLabels
        /\ "reclaim" \notin UfsLabels /\ "gone_end" \notin UfsLabels
        /\ (LookLabels \union {"gone_slept"} \union ReleLabels \union CleanLabels) \cap UfsLabels = {}
    BY DEF UfsLabels, InactLabels, CallLabels, LookLabels, ReleLabels, CleanLabels
  <1>2. /\ f.at \in UfsLabels => Vs(Push(f, s), UfsLabels) = Vs(s, UfsLabels) \union {f.v}
        /\ f.at \notin UfsLabels => Vs(Push(f, s), UfsLabels) = Vs(s, UfsLabels)
    BY HeadFacts
  <1>3. \A g \in Frames(s) : g \in Frames(Push(f, s))
    BY PushFrame
  <1>4. f \in Frames(Push(f, s))
    BY PushFrame
  <1>5. ASSUME NEW q \in Seq(Frame), q # Empty
        PROVE  Tl(q) \in Seq(Frame) /\ Hd(q) \in Frames(q) /\ \A g \in Frames(Tl(q)) : g \in Frames(q)
    <2>1. Hd(q) \in Frame /\ Tl(q) \in Seq(Frame) /\ q = Push(Hd(q), Tl(q))
      BY <1>5, ConsFacts
    <2>2. Frames(Push(Hd(q), Tl(q))) = {Hd(q)} \union Frames(Tl(q))
      BY <2>1, PushFrame
    <2>3. QED BY <2>1, <2>2
  <1>6. ASSUME NEW q \in Seq(Frame), NEW w, Dropping(q, w) PROVE \E g \in Frames(q) : Owns(g, w)
    <2>1. q # Empty /\ Owns(Hd(q), w)
      BY <1>6 DEF Dropping, Owns
    <2>2. QED BY <1>5, <2>1
  <1>7. ASSUME NEW q \in Seq(Frame), NEW w, Active(q, w) PROVE \E g \in Frames(q) : Owns(g, w)
    <2>1. q # Empty /\ Hd(q).v = w
      BY <1>7 DEF Active
    <2>2. CASE Hd(q).at = "dup"
      <3>1. Owns(Hd(q), w)
        BY <2>1, <2>2 DEF Owns
      <3>2. QED BY <1>5, <2>1, <3>1
    <2>3. CASE Dropping(q, w)
      BY <1>6, <2>3
    <2>4. CASE Dropping(Tl(q), w)
      <3>1. Tl(q) \in Seq(Frame)
        BY <1>5, <2>1
      <3>2. \E g \in Frames(Tl(q)) : Owns(g, w)
        BY <1>6, <2>4, <3>1
      <3>3. QED BY <1>5, <2>1, <3>2
    <2>5. QED BY <1>7, <2>2, <2>3, <2>4 DEF Active
  <1>8. CASE Looks(f, s)
    BY <1>1, <1>2, <1>8, EmptyStack DEF Looks
  <1>9. CASE Releases(f, s)
    <2>1. Vs(s, UfsLabels) = {}
      BY <1>1, <1>9, FormVnodes DEF Releases
    <2>2. QED BY <1>1, <1>2, <1>9, <2>1 DEF Releases
  <1>10. CASE Inactivates(f, s)
    <2>1. Vs(s, UfsLabels) = {} /\ Dropping(s, f.v)
      BY <1>1, <1>10, FormVnodes DEF Inactivates
    <2>2. v = f.v
      BY <1>2, <2>1
    <2>3. QED BY <1>3, <1>6, <2>1, <2>2
  <1>11. CASE CleansUsed(f, s)
    <2>1. Vs(s, UfsLabels) \subseteq {f.v} /\ Active(s, f.v) /\ f.at \notin UfsLabels
      BY <1>1, <1>11, FormVnodes DEF CleansUsed
    <2>2. v = f.v
      BY <1>2, <2>1
    <2>3. QED BY <1>3, <1>7, <2>1, <2>2
  <1>12. CASE CleansUnused(f, s)
    <2>1. Vs(s, UfsLabels) = {} /\ f.at \notin UfsLabels
      BY <1>1, <1>12, FormVnodes DEF CleansUnused
    <2>2. QED BY <1>2, <2>1
  <1>13. CASE GivesBack(f, s)
    <2>1. f.at = "rele" /\ s # Empty /\ Hd(s).at = "gone_end" /\ Active(Tl(s), f.v) /\ Tl(s) \in Seq(Frame)
      BY <1>5, <1>13 DEF GivesBack
    <2>2. Vs(Tl(s), UfsLabels) \subseteq {f.v}
      BY <1>1, <2>1, FormVnodes
    <2>3. Vs(s, UfsLabels) \subseteq {f.v}
      BY <1>1, <2>1, <2>2, ConsFacts
    <2>4. f.at \notin UfsLabels /\ Owns(f, f.v)
      BY <2>1 DEF Owns, UfsLabels, InactLabels
    <2>5. v = f.v
      BY <1>2, <2>3, <2>4
    <2>6. QED BY <1>4, <2>4, <2>5
  <1>14. CASE Reclaims(f, s)
    <2>1. /\ s # Empty /\ Hd(s).at = "reclaim" /\ Hd(s).v = f.v /\ Hd(s).flag
          /\ Active(Tl(s), f.v) /\ Tl(s) \in Seq(Frame)
      BY <1>5, <1>14 DEF Reclaims
    <2>2. Vs(Tl(s), UfsLabels) \subseteq {f.v}
      BY <1>1, <2>1, FormVnodes
    <2>3. Vs(s, UfsLabels) \subseteq {f.v}
      BY <1>1, <2>1, <2>2, ConsFacts
    <2>4. v = f.v /\ Owns(Hd(s), f.v)
      BY <1>2, <2>1, <2>3 DEF Owns
    <2>5. QED BY <1>3, <1>5, <2>1, <2>4
  <1>15. QED BY <1>8, <1>9, <1>10, <1>11, <1>12, <1>13, <1>14 DEF OnTop

\* A thread has a reference of what it blocks, or cleans it.
LEMMA BlockedAre ==
  ASSUME Typed, Shapes, NEW t \in Threads
  PROVE  /\ \A v \in Vs(th[t].stack, UfsLabels) : v \in Vnodes /\ Owner(t, v)
         /\ \A f \in Makes(t) : f.v \in Vnodes /\ Owner(t, f.v) /\ f.v \in Blocks(t) /\ f \in Frame
         /\ \A v \in Blocks(t) : v \in Vnodes /\ (Owner(t, v) \/ v \in Cleaning(t))
         /\ Cleaning(t) \subseteq Blocks(t) /\ Inacting(t) \subseteq Vs(th[t].stack, UfsLabels)
         /\ Inacting(t) \subseteq Blocks(t)
  <1>1. th[t].stack \in Seq(Frame)
    BY StackIn
  <1>2. \A f \in Frames(th[t].stack) : f.at \notin NoVnode => f.v \in Vnodes
    BY FrameVnodes
  <1>3. \A f \in Frames(th[t].stack), v \in Vnodes : Owns(f, v) => Owner(t, v)
    BY OwnersAre DEF Owner
  <1>4. Blocked \cap NoVnode = {}
    BY DEF Blocked, MakeLabels, UfsLabels, InactLabels, CleanLabels, NoVnode
  <1>5. ASSUME NEW v \in Vs(th[t].stack, UfsLabels) PROVE v \in Vnodes /\ Owner(t, v)
    <2>1. th[t].stack # Empty
      BY <1>5, EmptyStack
    <2>2. OnTop(Hd(th[t].stack), Tl(th[t].stack))
      BY <2>1 DEF Shapes, Shaped
    <2>3. /\ Hd(th[t].stack) \in Frame /\ Tl(th[t].stack) \in Seq(Frame)
          /\ th[t].stack = Push(Hd(th[t].stack), Tl(th[t].stack))
      BY <1>1, <2>1, ConsFacts
    <2>4. PICK g \in Frames(th[t].stack) : Owns(g, v)
      BY <1>5, <2>2, <2>3, UfsOwned
    <2>5. v \in Vnodes
      BY <1>2, <1>4, <1>5, LabelSets DEF Vs, Marks
    <2>6. QED BY <1>3, <2>4, <2>5
  <1>6. ASSUME NEW f \in Makes(t)
        PROVE  f.v \in Vnodes /\ Owner(t, f.v) /\ f.v \in Blocks(t) /\ f \in Frame
    <2>1. f \in Frames(th[t].stack) /\ f.at \in MakeLabels
      BY DEF Makes, Marks
    <2>2. Owns(f, f.v) /\ f.at \in Blocked
      BY <2>1 DEF Owns, MakeLabels, Blocked
    <2>3. f.v \in Vnodes
      BY <1>2, <1>4, <2>1, <2>2
    <2>4. f.v \in Blocks(t)
      BY <2>1, <2>2 DEF Blocks, Vs, Marks
    <2>5. f \in Frame
      BY <1>1, <2>1, FramesInSet
    <2>6. QED BY <1>3, <2>1, <2>2, <2>3, <2>4, <2>5
  <1>7. ASSUME NEW v \in Blocks(t) PROVE v \in Vnodes /\ (Owner(t, v) \/ v \in Cleaning(t))
    <2>1. PICK f \in Frames(th[t].stack) : f.at \in Blocked /\ f.v = v
      BY DEF Blocks, Vs, Marks
    <2>2. v \in Vnodes
      BY <1>2, <1>4, <2>1
    <2>3. CASE f.at \in CleanLabels
      BY <2>1, <2>2, <2>3 DEF Cleaning, Vs, Marks
    <2>4. CASE f.at \in UfsLabels
      BY <1>5, <2>1, <2>2, <2>4 DEF Vs, Marks
    <2>5. CASE f.at \notin CleanLabels /\ f.at \notin UfsLabels
      <3>1. Owns(f, v)
        BY <2>1, <2>5 DEF Owns, Blocked, MakeLabels
      <3>2. QED BY <1>3, <2>2, <3>1
    <2>6. QED BY <2>2, <2>3, <2>4, <2>5
  <1>8. Cleaning(t) \subseteq Blocks(t) /\ Inacting(t) \subseteq Vs(th[t].stack, UfsLabels)
        /\ Inacting(t) \subseteq Blocks(t)
    BY LabelSets DEF Cleaning, Blocks, Inacting, Vs, Marks
  <1>9. QED BY <1>5, <1>6, <1>7, <1>8

\* A call that frees an inode: its vnode is where the call found it, and the inode
\* is nobody else's.
Frees(t) == th[t].stack # Empty /\ Hd(th[t].stack).at \in {"trunc", "ifree"}
Freed(t) == vn[Hd(th[t].stack).v]
Freeing(t) ==
  /\ Freed(t).hashed /\ Freed(t).read = "yes"
  /\ file[Freed(t).ino] = IF Hd(th[t].stack).at = "trunc" THEN "unlinked" ELSE "reserved"
  /\ \A u \in Threads : th[u].why = "create" => th[u].i # Freed(t).ino

\* The vnode of an inode that is being made
Made(f) == /\ ~vn[f.v].listed /\ (vn[f.v].hashed <=> f.at = "fill")
           /\ vn[f.v].read = IF f.at = "dup" THEN "error" ELSE "no"

InactsAre == \A t \in Threads :
   /\ TopInacts(th[t].stack)
   /\ \A v \in Inacting(t) : vn[v].inactivating /\ \A u \in Threads \ {t} : v \notin Inacting(u)
MakersAre == \A t \in Threads : \A f \in Makes(t) :
   Made(f) /\ \A u \in Threads \ {t} : f.v \notin Blocks(u)
ListedAre == \A v \in Vnodes : vn[v].listed =>
   vn[v].read = "yes" /\ (vn[v].hashed \/ \E t \in Threads : v \in Leaves(t))
CleansAre == \A t \in Threads : \A v \in Cleaning(t) :
   vn[v].read = "error" \/ v \in EndsBelow(t) \/ \A u \in Threads \ {t} : ~Owner(u, v)
KnownAre  == \A v \in Vnodes : vn[v].hashed => vn[v].ino \in Inos
FreeingIs == \A t \in Threads : Frees(t) => Freeing(t)
CreatesIs == \A t \in Threads : th[t].why = "create" =>
   /\ th[t].i \in Inos /\ file[th[t].i] = "reserved"
   /\ \A u \in Threads \ {t} : th[u].why = "create" => th[u].i # th[t].i
Sane      == panic = "none" => /\ InactsAre /\ MakersAre /\ ListedAre /\ CleansAre /\ KnownAre
                               /\ FreeingIs /\ CreatesIs

\* What a step of t may do to them
SameData(w) == /\ vn'[w].read = vn[w].read /\ vn'[w].listed = vn[w].listed
               /\ vn'[w].hashed = vn[w].hashed /\ vn'[w].ino = vn[w].ino
InactStep(t) ==
  /\ TopInacts(th'[t].stack)
  /\ \A v \in Inacting(t)' : vn'[v].inactivating /\ (v \in Inacting(t) \/ ~vn[v].inactivating)
  /\ \A v \in Vnodes : vn[v].inactivating => vn'[v].inactivating
                                             \/ \A u \in Threads \ {t} : v \notin Inacting(u)
BlockStep(t) == \A v \in Blocks(t)' : v \in Blocks(t) \/ \A u \in Threads \ {t} : ~Owner(u, v)
MakeStep(t)  == \A f \in Makes(t)' : Made(f)' /\ \A u \in Threads \ {t} : f.v \notin Blocks(u)
DataStep(t)  == \A v \in Vnodes :
  \/ SameData(v)
  \/ v \in Cleaning(t) /\ vn'[v].read = vn[v].read /\ vn'[v].ino = vn[v].ino
  \/ \E f \in Makes(t) : f.v = v
  \/ ~vn[v].xlock /\ \A u \in Threads : ~Owner(u, v)
OwnStep(t)   == \A v \in Vnodes : Owner(t, v)' => Owner(t, v) \/ ~vn[v].xlock \/ v \in Cleaning(t)
CleanStep(t) == \A v \in Cleaning(t)' :
  vn'[v].read = "error" \/ v \in EndsBelow(t)' \/ \A u \in Threads \ {t} : ~Owner(u, v)
FileStep(t)  == \A i \in Inos :
  \/ file'[i] = file[i]
  \/ file[i] \in {"free", "linked"}
  \/ th[t].why = "create" /\ th[t].i = i
  \/ Frees(t) /\ i = Freed(t).ino
WhyStep(t)   == th'[t].why = "create" =>
  /\ th'[t].i \in Inos /\ file'[th'[t].i] = "reserved"
  /\ (th[t].why = "create" /\ th[t].i = th'[t].i) \/ file[th'[t].i] = "free"
FreeStep(t)  == Frees(t)' => Freeing(t)'
Sound(t)     == /\ InactStep(t) /\ BlockStep(t) /\ MakeStep(t) /\ DataStep(t) /\ OwnStep(t)
                /\ CleanStep(t) /\ FileStep(t) /\ WhyStep(t) /\ FreeStep(t)
                /\ ListedAre' /\ KnownAre'

LEMMA OthersSame ==
  ASSUME NEW t \in Threads, OthersAgree(t), NEW u \in Threads \ {t}
  PROVE  /\ Inacting(u)' = Inacting(u) /\ Blocks(u)' = Blocks(u) /\ Leaves(u)' = Leaves(u)
         /\ Makes(u)' = Makes(u) /\ EndsBelow(u)' = EndsBelow(u) /\ Cleaning(u)' = Cleaning(u)
         /\ th'[u].stack = th[u].stack /\ th'[u].why = th[u].why /\ th'[u].i = th[u].i
         /\ \A v : Owner(u, v)' <=> Owner(u, v)
         /\ Frees(u)' <=> Frees(u)
  <1>1. th'[u].stack = th[u].stack /\ th'[u].why = th[u].why /\ th'[u].i = th[u].i
        /\ th'[u].held = th[u].held
    BY DEF OthersAgree, Agree
  <1>2. \A v : Owner(u, v)' <=> Owner(u, v)
    BY <1>1 DEF Owner, Refs, Holds, OwnFrames, Count
  <1>3. QED BY <1>1, <1>2 DEF Inacting, Blocks, Leaves, Makes, EndsBelow, Cleaning, Frees, Vs, Marks,
                Frames, Under, Empty

LEMMA SoundGoesOn ==
  ASSUME Typed, Life, OneEach, Sane, panic = "none", NEW t \in Threads, OthersAgree(t), Sound(t)
  PROVE  Sane'
  <1>1. /\ InactsAre /\ MakersAre /\ ListedAre /\ CleansAre /\ KnownAre /\ FreeingIs /\ CreatesIs
        /\ Shapes /\ LocksAre
    BY DEF Sane, Life
  <1>2. \A u \in Threads :
          /\ \A v \in Inacting(u) : v \in Vnodes /\ Owner(u, v) /\ v \in Blocks(u)
          /\ \A f \in Makes(u) : f.v \in Vnodes /\ Owner(u, f.v) /\ f.v \in Blocks(u)
          /\ Cleaning(u) \subseteq Blocks(u) /\ Cleaning(u) \subseteq Vnodes
    BY <1>1, BlockedAre
  <1>3. \A u \in Threads \ {t} :
         /\ Inacting(u)' = Inacting(u) /\ Blocks(u)' = Blocks(u)
         /\ Makes(u)' = Makes(u) /\ EndsBelow(u)' = EndsBelow(u) /\ Cleaning(u)' = Cleaning(u)
         /\ th'[u].stack = th[u].stack /\ th'[u].why = th[u].why /\ th'[u].i = th[u].i
         /\ \A v : Owner(u, v)' <=> Owner(u, v)
         /\ Frees(u)' <=> Frees(u)
    BY OthersSame
  <1>4. \A u \in Threads, v \in Vnodes : v \in Cleaning(u) => vn[v].xlock /\ \A w \in Threads \ {u} : v \notin Cleaning(w)
    BY <1>1 DEF LocksAre
  <1>5. InactsAre'
    <2>1. ASSUME NEW u \in Threads
          PROVE  TopInacts(th'[u].stack) /\ \A v \in Inacting(u)' : vn'[v].inactivating
      <3>1. CASE u = t
        BY <3>1 DEF Sound, InactStep
      <3>2. CASE u # t
        BY <1>1, <1>2, <1>3, <3>2 DEF Sound, InactStep, InactsAre
      <3>3. QED BY <3>1, <3>2
    <2>2. ASSUME NEW u \in Threads, NEW w \in Threads, u # w, NEW v \in Inacting(u)', v \in Inacting(w)'
          PROVE  FALSE
      <3>1. ASSUME NEW x \in Threads \ {t}, v \in Inacting(x), v \in Inacting(t)' PROVE FALSE
        BY <1>1, <3>1 DEF Sound, InactStep, InactsAre
      <3>2. CASE u # t /\ w # t
        BY <1>1, <1>3, <2>2, <3>2 DEF InactsAre
      <3>3. QED BY <1>3, <2>2, <3>1, <3>2
    <2>3. \A u \in Threads : TopInacts(th[u].stack)' <=> TopInacts(th'[u].stack)
      BY DEF TopInacts, Vs, Marks, Frames, Hd, Tl, Empty
    <2>4. QED BY <2>1, <2>2, <2>3 DEF InactsAre
  <1>6. ASSUME NEW u \in Threads \ {t}, NEW v \in Vnodes, v \in Blocks(u), Owner(u, v) \/ vn[v].xlock
        PROVE  vn'[v].read = vn[v].read /\ vn'[v].ino = vn[v].ino
               /\ (v \notin Cleaning(t) => SameData(v))
    <2>1. ~\E f \in Makes(t) : f.v = v
      BY <1>1, <1>6 DEF MakersAre
    <2>2. QED BY <1>6, <2>1 DEF Sound, DataStep, SameData
  <1>7. MakersAre'
    <2>1. ASSUME NEW u \in Threads \ {t}, NEW f \in Makes(u)
          PROVE  Made(f)' /\ \A w \in Threads \ {u} : f.v \notin Blocks(w)'
      <3>1. Made(f) /\ (\A w \in Threads \ {u} : f.v \notin Blocks(w)) /\ f.v \in Vnodes /\ Owner(u, f.v)
            /\ f.v \in Blocks(u)
        BY <1>1, <1>2, <2>1 DEF MakersAre
      <3>2. SameData(f.v)
        BY <1>2, <1>6, <2>1, <3>1
      <3>3. Made(f)'
        BY <3>1, <3>2 DEF Made, SameData
      <3>4. f.v \notin Blocks(t)'
        BY <2>1, <3>1 DEF Sound, BlockStep
      <3>5. QED BY <1>3, <3>1, <3>3, <3>4
    <2>2. ASSUME NEW f \in Makes(t)' PROVE Made(f)' /\ \A w \in Threads \ {t} : f.v \notin Blocks(w)'
      BY <1>3, <2>2 DEF Sound, MakeStep
    <2>3. QED BY <1>3, <2>1, <2>2 DEF MakersAre
  <1>8. CleansAre'
    <2>1. ASSUME NEW u \in Threads \ {t}, NEW v \in Cleaning(u)
          PROVE  vn'[v].read = "error" \/ v \in EndsBelow(u)' \/ \A w \in Threads \ {u} : ~Owner(w, v)'
      <3>1. v \in Vnodes /\ v \in Blocks(u) /\ vn[v].xlock /\ v \notin Cleaning(t)
        BY <1>2, <1>4
      <3>2. vn'[v].read = vn[v].read
        BY <1>6, <3>1
      <3>3. Owner(t, v)' => Owner(t, v)
        BY <3>1 DEF Sound, OwnStep
      <3>4. QED BY <1>1, <1>3, <3>2, <3>3 DEF CleansAre
    <2>2. ASSUME NEW v \in Cleaning(t)'
          PROVE  vn'[v].read = "error" \/ v \in EndsBelow(t)' \/ \A w \in Threads \ {t} : ~Owner(w, v)'
      BY <1>3, <2>2 DEF Sound, CleanStep
    <2>3. QED BY <1>3, <2>1, <2>2 DEF CleansAre
  <1>9. FreeingIs'
    <2>1. ASSUME NEW u \in Threads \ {t}, Frees(u) PROVE Freeing(u)'
      <3> DEFINE v == Hd(th[u].stack).v
      <3>1. Freeing(u) /\ Freed(u) = vn[v] /\ Hd(th'[u].stack) = Hd(th[u].stack) /\ Freed(u)' = vn'[v]
        BY <1>1, <1>3, <2>1 DEF FreeingIs, Freed, Hd
      <3>2. v \in Inacting(u)
        <4>1. Hd(th[u].stack) \in Frames(th[u].stack)
          BY <2>1, TopFrame DEF Frees
        <4>2. QED BY <2>1, <4>1 DEF Frees, Inacting, Vs, Marks, InactLabels
      <3>3. v \in Vnodes /\ Owner(u, v) /\ v \in Blocks(u)
        BY <1>2, <3>2
      <3>4. v \notin EndsBelow(t) /\ v \notin Inacting(t)
        <4>1. EndsBelow(t) \subseteq Inacting(t)
          <5>1. CASE th[t].stack = Empty
            BY <5>1, EmptyStack DEF EndsBelow, Under
          <5>2. CASE th[t].stack # Empty
            <6>1. Vs(Tl(th[t].stack), InactLabels) \subseteq Vs(th[t].stack, InactLabels)
              BY <5>2, StackIn, ConsFacts
            <6>2. QED BY <5>2, <6>1 DEF EndsBelow, Under, Inacting, Vs, Marks, InactLabels
          <5>3. QED BY <5>1, <5>2
        <4>2. QED BY <1>1, <3>2, <4>1 DEF InactsAre
      <3>5. v \notin Cleaning(t)
        BY <1>1, <3>1, <3>3, <3>4 DEF CleansAre, Freeing
      <3>6. SameData(v)
        BY <1>6, <3>3, <3>5
      <3>7. vn[v].ino \in Inos
        BY <1>1, <3>1, <3>3 DEF KnownAre, Freeing
      <3>8. ~(Frees(t) /\ vn[v].ino = Freed(t).ino)
        <4>1. SUFFICES ASSUME Frees(t), vn[v].ino = Freed(t).ino PROVE FALSE
          OBVIOUS
        <4> DEFINE w == Hd(th[t].stack).v
        <4>2. Hd(th[t].stack) \in Frames(th[t].stack)
          BY <4>1, TopFrame DEF Frees
        <4>3. w \in Inacting(t)
          BY <4>1, <4>2 DEF Frees, Inacting, Vs, Marks, InactLabels
        <4>4. w \in Vnodes /\ vn[w].hashed /\ vn[w].ino = vn[v].ino
          BY <1>1, <1>2, <4>1, <4>3 DEF FreeingIs, Freeing, Freed
        <4>5. w = v
          BY <3>1, <3>3, <3>7, <4>4 DEF OneEach, Freeing
        <4>6. QED BY <3>4, <4>3, <4>5
      <3>9. file'[vn[v].ino] = file[vn[v].ino]
        BY <3>1, <3>7, <3>8 DEF Sound, FileStep, Freeing
      <3>10. th'[t].why = "create" => th'[t].i # vn[v].ino
        BY <3>1 DEF Sound, WhyStep, Freeing
      <3>11. /\ vn'[v].hashed /\ vn'[v].read = "yes"
             /\ file'[vn'[v].ino] = IF Hd(th'[u].stack).at = "trunc" THEN "unlinked" ELSE "reserved"
        BY <3>1, <3>6, <3>9 DEF Freeing, SameData
      <3>12. \A w \in Threads : th'[w].why = "create" => th'[w].i # vn'[v].ino
        BY <1>3, <3>1, <3>6, <3>10 DEF Freeing, SameData
      <3>13. Hd(th[u].stack)' = Hd(th'[u].stack)
        BY DEF Hd
      <3>14. QED BY <3>1, <3>11, <3>12, <3>13 DEF Freeing
    <2>2. QED BY <1>3, <2>1 DEF FreeingIs, Sound, FreeStep
  <1>10. CreatesIs'
    <2>1. ASSUME NEW u \in Threads \ {t}, th[u].why = "create"
          PROVE  /\ th[u].i \in Inos /\ file'[th[u].i] = "reserved"
                 /\ th'[t].why = "create" => th'[t].i # th[u].i
      <3>1. /\ th[u].i \in Inos /\ file[th[u].i] = "reserved"
            /\ th[t].why = "create" => th[t].i # th[u].i
        BY <1>1, <2>1 DEF CreatesIs
      <3>2. ~(Frees(t) /\ th[u].i = Freed(t).ino)
        BY <1>1, <2>1 DEF FreeingIs, Freeing
      <3>3. file'[th[u].i] = "reserved"
        BY <3>1, <3>2 DEF Sound, FileStep
      <3>4. QED BY <3>1, <3>3 DEF Sound, WhyStep
    <2>2. th'[t].why = "create" => th'[t].i \in Inos /\ file'[th'[t].i] = "reserved"
      BY DEF Sound, WhyStep
    <2>3. QED BY <1>1, <1>3, <2>1, <2>2 DEF CreatesIs
  <1>11. QED BY <1>5, <1>7, <1>8, <1>9, <1>10 DEF Sane, Sound

\* A stack that a step of t may go on with: no vnode becomes blocked or begins to be
\* inactivated or made, and none that is about to leave its chain is forgotten.
Mild(t, s) ==
  /\ TopInacts(s) /\ Vs(s, InactLabels) \subseteq Inacting(t) /\ Vs(s, Blocked) \subseteq Blocks(t)
  /\ Marks(s, MakeLabels) \subseteq Makes(t)
  /\ EndsBelow(t) \subseteq Vs(Under(s), {"end"}) /\ Leaves(t) \subseteq Vs(s, LeaveLabels)
  /\ s # Empty => Hd(s).at \notin {"trunc", "ifree"}

\* A frame that may take the place of the top
Follows(t, f) ==
  /\ f \in Frame /\ f.at \notin MakeLabels /\ f.at \notin {"trunc", "ifree"}
  /\ f.at \in Blocked => Top(t).at \in Blocked /\ f.v = Top(t).v
  /\ f.at \in InactLabels => Top(t).at \in InactLabels

LEMMA MildForms ==
  ASSUME Typed, Shapes, InactsAre, NEW t \in Threads, InCall(t)
  PROVE  /\ Top(t).at \notin CleanLabels => Mild(t, Below(t))
         /\ \A f : Follows(t, f) /\ (Top(t).at \in LeaveLabels => f.at \in LeaveLabels)
                   => Mild(t, Push(f, Below(t)))
         /\ \A f, g : /\ Follows(t, f) /\ Follows(t, g) /\ f.at \notin InactLabels
                      /\ Top(t).at \in LeaveLabels => g.at \in LeaveLabels
                   => Mild(t, Push(f, Push(g, Below(t))))
         /\ Top(t).at \notin {"trunc", "ifree"} => Mild(t, th[t].stack)
  <1> DEFINE s == th[t].stack
             b == Below(t)
             p == Top(t)
  <1>1. /\ s \in Seq(Frame) /\ s # Empty /\ Hd(s) = p /\ Tl(s) = b /\ p \in Frame /\ b \in Seq(Frame)
        /\ OnTop(p, b) /\ Shaped(b) /\ TopInacts(s) /\ s = Push(p, b)
    BY CallIsShaped DEF InactsAre, InCall
  <1>2. /\ Inacting(t) = Vs(s, InactLabels) /\ Blocks(t) = Vs(s, Blocked) /\ Makes(t) = Marks(s, MakeLabels)
        /\ Leaves(t) = Vs(s, LeaveLabels) /\ EndsBelow(t) = Vs(b, {"end"})
    BY <1>1 DEF Inacting, Blocks, Makes, Leaves, EndsBelow, Under
  <1> HIDE DEF s, b, p
  <1>3. ASSUME NEW f \in Frame, NEW q \in Seq(Frame)
        PROVE  /\ Push(f, q) \in Seq(Frame) /\ Push(f, q) # Empty /\ Hd(Push(f, q)) = f /\ Tl(Push(f, q)) = q
               /\ \A L : Vs(Push(f, q), L) = Vs(q, L) \union (IF f.at \in L THEN {f.v} ELSE {})
               /\ f.at \notin MakeLabels => Marks(Push(f, q), MakeLabels) = Marks(q, MakeLabels)
               /\ Marks(q, MakeLabels) \subseteq Marks(Push(f, q), MakeLabels)
               /\ Under(Push(f, q)) = q
    <2>1. Push(f, q) \in Seq(Frame) /\ Push(f, q) # Empty /\ Hd(Push(f, q)) = f /\ Tl(Push(f, q)) = q
      BY HeadFacts
    <2>2. ASSUME NEW L PROVE Vs(Push(f, q), L) = Vs(q, L) \union (IF f.at \in L THEN {f.v} ELSE {})
      BY HeadFacts
    <2>3. f.at \notin MakeLabels => Marks(Push(f, q), MakeLabels) = Marks(q, MakeLabels)
      BY MarksAre
    <2>4. Marks(q, MakeLabels) \subseteq Marks(Push(f, q), MakeLabels)
      BY MarksAre
    <2>5. QED BY <2>1, <2>2, <2>3, <2>4 DEF Under
  <1>4. /\ \A L : Vs(s, L) = Vs(b, L) \union (IF p.at \in L THEN {p.v} ELSE {})
        /\ Marks(b, MakeLabels) \subseteq Makes(t)
    BY <1>1, <1>2, <1>3
  <1>5. b # Empty => /\ Hd(b).at \notin {"trunc", "ifree"}
                     /\ Hd(b).at \in InactLabels => p.at \in CleanLabels /\ Vs(Tl(b), InactLabels) = {}
    BY <1>1, UnderTop
  <1>6. ASSUME p.at \notin CleanLabels PROVE Mild(t, b)
    <2>1. TopInacts(b)
      BY <1>5 DEF TopInacts
    <2>2. Vs(b, InactLabels) \subseteq Inacting(t) /\ Vs(b, Blocked) \subseteq Blocks(t)
      BY <1>2, <1>4
    <2>3. Leaves(t) \subseteq Vs(b, LeaveLabels)
      BY <1>2, <1>4, <1>6, LabelSets
    <2>4. Vs(b, {"end"}) \subseteq Vs(Under(b), {"end"})
      <3>1. CASE b = Empty
        BY <3>1 DEF Under
      <3>2. CASE b # Empty
        <4>1. Hd(b).at # "end"
          BY <1>5, <1>6, <3>2, LabelSets
        <4>2. Vs(b, {"end"}) = Vs(Tl(b), {"end"})
          BY <1>1, <3>2, <4>1, ConsFacts
        <4>3. QED BY <3>2, <4>2 DEF Under
      <3>3. QED BY <3>1, <3>2
    <2>5. QED BY <1>2, <1>4, <1>5, <2>1, <2>2, <2>3, <2>4 DEF Mild
  <1>7. ASSUME NEW f, Follows(t, f), p.at \in LeaveLabels => f.at \in LeaveLabels
        PROVE  Mild(t, Push(f, b))
    <2> DEFINE n == Push(f, b)
    <2>1. /\ f \in Frame /\ f.at \notin MakeLabels /\ f.at \notin {"trunc", "ifree"}
          /\ f.at \in Blocked => p.at \in Blocked /\ f.v = p.v
          /\ f.at \in InactLabels => p.at \in InactLabels
      BY <1>7 DEF Follows, p
    <2>2. /\ n # Empty /\ Hd(n) = f /\ Tl(n) = b /\ Under(n) = b
          /\ \A L : Vs(n, L) = Vs(b, L) \union (IF f.at \in L THEN {f.v} ELSE {})
          /\ Marks(n, MakeLabels) = Marks(b, MakeLabels)
      BY <1>1, <1>3, <2>1
    <2> HIDE DEF n
    <2>3. TopInacts(n)
      BY <1>1, <2>1, <2>2 DEF TopInacts
    <2>4. InactLabels \subseteq Blocked /\ LeaveLabels \subseteq Blocked
      BY LabelSets
    <2>5. Vs(n, InactLabels) \subseteq Inacting(t) /\ Vs(n, Blocked) \subseteq Blocks(t)
      BY <1>2, <1>4, <2>1, <2>2, <2>4
    <2>6. Leaves(t) \subseteq Vs(n, LeaveLabels)
      BY <1>2, <1>4, <1>7, <2>1, <2>2, <2>4
    <2>7. QED BY <1>2, <1>4, <2>1, <2>2, <2>3, <2>5, <2>6 DEF Mild, n
  <1>8. ASSUME NEW f, NEW g, Follows(t, f), Follows(t, g), f.at \notin InactLabels,
               p.at \in LeaveLabels => g.at \in LeaveLabels
        PROVE  Mild(t, Push(f, Push(g, b)))
    <2> DEFINE m == Push(g, b)
               n == Push(f, m)
    <2>1. /\ f \in Frame /\ f.at \notin MakeLabels /\ f.at \notin {"trunc", "ifree"}
          /\ f.at \in Blocked => p.at \in Blocked /\ f.v = p.v
          /\ g \in Frame /\ g.at \notin MakeLabels
          /\ g.at \in Blocked => p.at \in Blocked /\ g.v = p.v
          /\ g.at \in InactLabels => p.at \in InactLabels
      BY <1>8 DEF Follows, p
    <2>2. /\ m \in Seq(Frame)
          /\ \A L : Vs(m, L) = Vs(b, L) \union (IF g.at \in L THEN {g.v} ELSE {})
          /\ Marks(m, MakeLabels) = Marks(b, MakeLabels)
      BY <1>1, <1>3, <2>1
    <2> HIDE DEF m
    <2>3. /\ n # Empty /\ Hd(n) = f /\ Tl(n) = m /\ Under(n) = m
          /\ \A L : Vs(n, L) = Vs(m, L) \union (IF f.at \in L THEN {f.v} ELSE {})
          /\ Marks(n, MakeLabels) = Marks(m, MakeLabels)
      BY <1>3, <2>1, <2>2
    <2> HIDE DEF n
    <2>4. InactLabels \subseteq Blocked /\ LeaveLabels \subseteq Blocked
      BY LabelSets
    <2>5. Vs(n, InactLabels) \subseteq Inacting(t) /\ Vs(n, Blocked) \subseteq Blocks(t)
      BY <1>2, <1>4, <1>8, <2>1, <2>2, <2>3, <2>4
    <2>6. Leaves(t) \subseteq Vs(n, LeaveLabels)
      BY <1>2, <1>4, <1>8, <2>1, <2>2, <2>3, <2>4
    <2>7. EndsBelow(t) \subseteq Vs(Under(n), {"end"})
      BY <1>2, <2>2, <2>3
    <2>8. TopInacts(n)
      BY <1>8, <2>3 DEF TopInacts
    <2>9. QED BY <1>4, <2>1, <2>2, <2>3, <2>5, <2>6, <2>7, <2>8 DEF Mild, m, n
  <1>9. ASSUME p.at \notin {"trunc", "ifree"} PROVE Mild(t, s)
    <2>1. Under(s) = b
      BY <1>1 DEF Under
    <2>2. QED BY <1>1, <1>2, <1>9, <2>1 DEF Mild
  <1>10. QED BY <1>6, <1>7, <1>8, <1>9 DEF s, b, p

Ready == Typed /\ Counted /\ Making /\ OneEach /\ Life /\ Sane /\ panic = "none"
SameDatas   == \A v \in Vnodes : SameData(v)
CountUp(t)  == \A v \in Vnodes : vn'[v].count <= vn[v].count \/ ~vn[v].xlock \/ v \in Cleaning(t)
WhyKept(t)  == th'[t].why = "create" => th[t].why = "create" /\ th'[t].i = th[t].i

LEMMA ReadyIs ==
  ASSUME Ready
  PROVE  /\ Typed /\ Counted /\ RefsAreCounted /\ Life /\ Shapes /\ LocksAre /\ panic = "none"
         /\ InactsAre /\ MakersAre /\ ListedAre /\ CleansAre /\ KnownAre /\ FreeingIs /\ CreatesIs
         /\ FreeIs /\ InitsAre /\ EntersAre /\ OneEach /\ Making
         /\ InitTops /\ LonesAre
  BY CountedIs DEF Ready, Sane, Life, Making

LEMMA MildParts ==
  ASSUME Ready, NEW t \in Threads, NEW s, th'[t].stack = s, Mild(t, s)
  PROVE  /\ TopInacts(th'[t].stack) /\ Inacting(t)' \subseteq Inacting(t) /\ Makes(t)' \subseteq Makes(t)
         /\ EndsBelow(t) \subseteq EndsBelow(t)' /\ Leaves(t) \subseteq Leaves(t)'
         /\ BlockStep(t) /\ FreeStep(t) /\ ~Frees(t)'
         /\ SameInacts => InactStep(t)
  <1>1. /\ Inacting(t)' = Vs(s, InactLabels) /\ Blocks(t)' = Vs(s, Blocked)
        /\ Makes(t)' = Marks(s, MakeLabels) /\ Leaves(t)' = Vs(s, LeaveLabels)
        /\ EndsBelow(t)' = Vs(Under(s), {"end"})
        /\ Frees(t)' <=> s # Empty /\ Hd(s).at \in {"trunc", "ifree"}
    BY DEF Inacting, Blocks, Makes, Leaves, EndsBelow, Frees, Vs, Marks, Frames, Under, Hd, Tl, Empty
  <1>2. /\ TopInacts(th'[t].stack) /\ Inacting(t)' \subseteq Inacting(t) /\ Makes(t)' \subseteq Makes(t)
        /\ EndsBelow(t) \subseteq EndsBelow(t)' /\ Leaves(t) \subseteq Leaves(t)'
        /\ Blocks(t)' \subseteq Blocks(t) /\ ~Frees(t)'
    BY <1>1 DEF Mild
  <1>3. SameInacts => InactStep(t)
    <2>1. \A v \in Inacting(t) : v \in Vnodes /\ vn[v].inactivating
      BY ReadyIs, BlockedAre DEF InactsAre
    <2>2. QED BY <1>2, <2>1 DEF SameInacts, InactStep
  <1>4. QED BY <1>2, <1>3 DEF BlockStep, FreeStep

\* The data of the vnodes are as they were.
LEMMA DataParts ==
  ASSUME Ready, NEW t \in Threads, OthersAgree(t), SameDatas
  PROVE  /\ DataStep(t) /\ KnownAre'
         /\ Makes(t)' \subseteq Makes(t) => MakeStep(t)
         /\ Leaves(t) \subseteq Leaves(t)' => ListedAre'
         /\ Cleaning(t)' \subseteq Cleaning(t) /\ EndsBelow(t) \subseteq EndsBelow(t)' => CleanStep(t)
  <1>1. MakersAre /\ ListedAre /\ KnownAre /\ CleansAre /\ Shapes /\ Typed
    BY ReadyIs
  <1>2. DataStep(t)
    BY DEF DataStep, SameDatas
  <1>3. KnownAre'
    BY <1>1 DEF KnownAre, SameDatas, SameData
  <1>4. ASSUME Makes(t)' \subseteq Makes(t) PROVE MakeStep(t)
    <2>1. ASSUME NEW f \in Makes(t)' PROVE Made(f)' /\ \A u \in Threads \ {t} : f.v \notin Blocks(u)
      <3>1. f.v \in Vnodes /\ Made(f) /\ \A u \in Threads \ {t} : f.v \notin Blocks(u)
        BY <1>1, <1>4, <2>1, BlockedAre DEF MakersAre
      <3>2. QED BY <3>1 DEF Made, SameDatas, SameData
    <2>2. QED BY <2>1 DEF MakeStep
  <1>5. ASSUME Leaves(t) \subseteq Leaves(t)' PROVE ListedAre'
    <2>1. \A u \in Threads : Leaves(u) \subseteq Leaves(u)'
      BY <1>5, OthersSame
    <2>2. QED BY <1>1, <2>1 DEF ListedAre, SameDatas, SameData
  <1>6. ASSUME Cleaning(t)' \subseteq Cleaning(t), EndsBelow(t) \subseteq EndsBelow(t)' PROVE CleanStep(t)
    <2>1. Cleaning(t) \subseteq Vnodes
      BY <1>1, CleaningVnodes
    <2>2. QED BY <1>1, <1>6, <2>1 DEF CleanStep, CleansAre, SameDatas, SameData
  <1>7. QED BY <1>2, <1>3, <1>4, <1>5, <1>6

LEMMA OwnParts ==
  ASSUME Ready, Typed', NEW t \in Threads, Step(t) \/ Start(t)
  PROVE  /\ OthersAgree(t) /\ (CountUp(t) => OwnStep(t))
         /\ SameCounts => CountUp(t)
         /\ \A v \in Vnodes : CountIs(v, vn[v].count - 1) => CountUp(t)
         /\ \A v \in Vnodes : \A n : CountIs(v, n) /\ (~vn[v].xlock \/ v \in Cleaning(t)) => CountUp(t)
  <1>1. Balanced(t) /\ OthersAgree(t)
    BY StepBalance DEF Ready
  <1>2. \A v \in Vnodes : Refs(th[t], v) \in Nat /\ Refs(th'[t], v) \in Nat
    <2>1. \A v : Refs(th[t], v) \in Nat
      BY OwnersAre DEF Ready
    <2>2. \A v : (Refs(th[t], v) \in Nat)'
      <3>1. th'[t].stack \in Seq(Frame)
        BY DEF Typed, ThreadRecord
      <3>2. \A v : Count(th'[t].stack, OwnFrames(v)) \in Nat /\ Holds(th'[t], v) \in {0, 1}
        BY <3>1, HasFacts DEF Holds
      <3>3. QED BY <3>2 DEF Refs, Count, OwnFrames, Holds
    <2>3. QED BY <2>1, <2>2 DEF Refs, Count, OwnFrames, Holds
  <1>3. \A v \in Vnodes : vn[v].count \in Int /\ vn'[v].count \in Int
    BY DEF Ready, Typed, VnodeRecord
  <1>4. ASSUME CountUp(t) PROVE OwnStep(t)
    <2>1. ASSUME NEW v \in Vnodes, Owner(t, v)', ~Owner(t, v)
          PROVE  ~vn[v].xlock \/ v \in Cleaning(t)
      <3>1. Refs(th'[t], v) >= 1
        BY <2>1 DEF Owner, Refs, Count, OwnFrames, Holds
      <3>2. Refs(th'[t], v) - Refs(th[t], v) = vn'[v].count - vn[v].count
        BY <1>1 DEF Balanced, Gain
      <3>3. ~(Refs(th[t], v) >= 1)
        BY <2>1 DEF Owner
      <3>4. ~(vn'[v].count <= vn[v].count)
        BY <1>2, <1>3, <3>1, <3>2, <3>3
      <3>5. QED BY <1>4, <3>4 DEF CountUp
    <2>2. QED BY <2>1 DEF OwnStep
  <1>5. /\ SameCounts => CountUp(t)
        /\ \A v \in Vnodes : CountIs(v, vn[v].count - 1) => CountUp(t)
        /\ \A v \in Vnodes : \A n : CountIs(v, n) /\ (~vn[v].xlock \/ v \in Cleaning(t)) => CountUp(t)
    BY <1>3 DEF SameCounts, CountIs, CountUp
  <1>6. QED BY <1>1, <1>4, <1>5

\* What is locked says who cleans.
LEMMA CleanParts ==
  ASSUME Ready, NEW t \in Threads, Lives(t)
  PROVE  /\ SameLocks => Cleaning(t)' \subseteq Cleaning(t)
         /\ \A v \in Vnodes : LockIs(v, TRUE) => Cleaning(t)' \subseteq Cleaning(t) \union {v}
         /\ \A v \in Vnodes : LockIs(v, FALSE) => Cleaning(t)' \subseteq Cleaning(t)
  <1>1. CASE Cleaning(t)' = Cleaning(t)
    BY <1>1
  <1>2. ASSUME NEW w \in Vnodes, ~vn[w].xlock, LockIs(w, TRUE), Cleaning(t)' = Cleaning(t) \union {w}
        PROVE  /\ ~SameLocks
               /\ \A v \in Vnodes : LockIs(v, TRUE) => v = w
               /\ \A v \in Vnodes : ~LockIs(v, FALSE)
    BY <1>2 DEF LockIs, SameLocks
  <1>3. CASE \E w \in Vnodes : Cleaning(t)' = Cleaning(t) \ {w}
    BY <1>3
  <1>4. QED BY <1>1, <1>2, <1>3 DEF Lives, LockStep

\* The disk
LEMMA FileParts ==
  ASSUME Ready, NEW t \in Threads
  PROVE  /\ file' = file => FileStep(t)
         /\ file' = file /\ WhyKept(t) => WhyStep(t)
         /\ \A s : Moves(t, s) => WhyKept(t)
         /\ Keeps(t) => WhyKept(t)
         /\ \A why, i, s : Begins(t, why, i, s) /\ why # "create" => WhyKept(t)
  <1>1. CreatesIs
    BY ReadyIs
  <1>2. QED BY <1>1 DEF FileStep, WhyStep, WhyKept, Moves, Keeps, Begins, CreatesIs

LEMMA MildSound ==
  ASSUME Ready, Typed', NEW t \in Threads, Step(t) \/ Start(t), Lives(t),
         NEW s, th'[t].stack = s, Mild(t, s), SameInacts, SameLocks, SameDatas,
         CountUp(t), FileStep(t), WhyStep(t)
  PROVE  Sound(t)
  <1>1. OthersAgree(t) /\ OwnStep(t)
    BY OwnParts
  <1>2. Cleaning(t)' \subseteq Cleaning(t)
    BY CleanParts
  <1>3. /\ Makes(t)' \subseteq Makes(t)
        /\ EndsBelow(t) \subseteq EndsBelow(t)' /\ Leaves(t) \subseteq Leaves(t)'
        /\ BlockStep(t) /\ FreeStep(t) /\ InactStep(t)
    BY MildParts
  <1>4. DataStep(t) /\ KnownAre' /\ MakeStep(t) /\ ListedAre' /\ CleanStep(t)
    BY <1>1, <1>2, <1>3, DataParts
  <1>5. QED BY <1>1, <1>3, <1>4 DEF Sound

LEMMA SameBodyData == SameBodies => SameDatas
  BY DEF SameBodies, SameBody, SameDatas, SameData

\* Most steps of a call
LEMMA QuietSound ==
  ASSUME Ready, Typed', NEW t \in Threads, Step(t), Lives(t),
         NEW s, Moves(t, s), Mild(t, s), SameInacts, SameLocks, SameBodies, CountUp(t), file' = file
  PROVE  Sound(t)
  <1>1. th'[t].stack = s
    BY DEF Moves
  <1>2. FileStep(t) /\ WhyStep(t)
    BY FileParts
  <1>3. QED BY <1>1, <1>2, MildSound, SameBodyData

\* The labels of calls that block nothing, and where the top may go on
Loose == Labels \ Blocked
Fit(t, at) == /\ at \in Labels /\ at \notin MakeLabels /\ at \notin {"trunc", "ifree"}
              /\ at \in Blocked => Top(t).at \in Blocked
              /\ at \in InactLabels => Top(t).at \in InactLabels

LEMMA MildMoves ==
  ASSUME Ready, NEW t \in Threads, InCall(t)
  PROVE  /\ Top(t).at \notin CleanLabels => Mild(t, Below(t))
         /\ Top(t).at \notin {"trunc", "ifree"} => Mild(t, th[t].stack)
         /\ \A at : Fit(t, at) /\ (Top(t).at \in LeaveLabels => at \in LeaveLabels)
                    => Mild(t, Top1(t, at))
         /\ \A at \in Labels, b \in BOOLEAN :
              Fit(t, at) /\ Top(t).at \notin LeaveLabels /\ Top(t).v \in Vnodes
              => Mild(t, Push(Fr(at, Top(t).v, b), Below(t)))
         /\ Top(t).at \notin LeaveLabels =>
              \A at \in Loose, v \in Vnodes \union {None}, b \in BOOLEAN :
                Mild(t, Push(Fr(at, v, b), Below(t)))
         /\ Top(t).at \notin LeaveLabels =>
              \A at, a \in Loose, v, w \in Vnodes \union {None}, b \in BOOLEAN :
                Mild(t, Over(a, w, Push(Fr(at, v, b), Below(t))))
         /\ Top(t).at \notin LeaveLabels =>
              \A a \in Loose, w \in Vnodes \union {None} : Mild(t, Over(a, w, Below(t)))
         /\ \A a, at : /\ Fit(t, a) /\ a \notin InactLabels /\ Top(t).v \in Vnodes
                       /\ Fit(t, at) /\ (Top(t).at \in LeaveLabels => at \in LeaveLabels)
                       => Mild(t, Over(a, Top(t).v, Top1(t, at)))
  <1> DEFINE b == Below(t)
  <1>1. /\ Top(t).at \notin CleanLabels => Mild(t, b)
        /\ Top(t).at \notin {"trunc", "ifree"} => Mild(t, th[t].stack)
        /\ \A f : Follows(t, f) /\ (Top(t).at \in LeaveLabels => f.at \in LeaveLabels)
                  => Mild(t, Push(f, b))
        /\ \A f, g : /\ Follows(t, f) /\ Follows(t, g) /\ f.at \notin InactLabels
                     /\ Top(t).at \in LeaveLabels => g.at \in LeaveLabels
                  => Mild(t, Push(f, Push(g, b)))
    BY MildForms, ReadyIs
  <1>2. \A at \in Labels : \E f \in Frame : f.at = at /\ f.v = Top(t).v /\ Top1(t, at) = Push(f, b)
    BY FormsAre
  <1>3. \A at \in Labels, v \in Vnodes \union {None}, c \in BOOLEAN : \E f \in Frame :
          f.at = at /\ f.v = v /\ \A s : Push(Fr(at, v, c), s) = Push(f, s)
    BY FormsAre
  <1>4. \A at \in Labels, v \in Vnodes \union {None} : \A s : \E f \in Frame :
          f.at = at /\ f.v = v /\ Over(at, v, s) = Push(f, s)
    BY OverIs
  <1>5. InactLabels \subseteq Blocked /\ MakeLabels \subseteq Blocked /\ {"trunc", "ifree"} \subseteq Blocked
        /\ LeaveLabels \subseteq Blocked
    BY LabelSets DEF InactLabels
  <1>6. \A f \in Frame : f.at \in Loose => Follows(t, f) /\ f.at \notin InactLabels
    BY <1>5 DEF Loose, Follows
  <1>7. \A f \in Frame : Fit(t, f.at) /\ f.v = Top(t).v => Follows(t, f)
    BY DEF Fit, Follows
  <1>8. \A at : Fit(t, at) => at \in Labels
    BY DEF Fit
  <1>9. \A at \in Loose : at \in Labels
    BY DEF Loose
  <1> HIDE DEF b
  <1>10. \A at : Fit(t, at) /\ (Top(t).at \in LeaveLabels => at \in LeaveLabels) => Mild(t, Top1(t, at))
    <2>1. SUFFICES ASSUME NEW at, Fit(t, at), Top(t).at \in LeaveLabels => at \in LeaveLabels
                   PROVE  Mild(t, Top1(t, at))
      OBVIOUS
    <2>2. PICK f \in Frame : f.at = at /\ f.v = Top(t).v /\ Top1(t, at) = Push(f, b)
      BY <1>2, <1>8, <2>1
    <2>3. QED BY <1>1, <1>7, <2>1, <2>2
  <1>11. ASSUME NEW at \in Labels, NEW c \in BOOLEAN, Fit(t, at), Top(t).at \notin LeaveLabels, Top(t).v \in Vnodes
         PROVE  Mild(t, Push(Fr(at, Top(t).v, c), b))
    <2>1. PICK f \in Frame : f.at = at /\ f.v = Top(t).v /\ \A s : Push(Fr(at, Top(t).v, c), s) = Push(f, s)
      BY <1>3, <1>8, <1>11
    <2>2. Mild(t, Push(f, b))
      BY <1>1, <1>7, <1>11, <2>1
    <2>3. QED BY <2>1, <2>2
  <1>12. ASSUME Top(t).at \notin LeaveLabels, NEW at \in Loose, NEW v \in Vnodes \union {None}, NEW c \in BOOLEAN
         PROVE  Mild(t, Push(Fr(at, v, c), b))
    <2>1. PICK f \in Frame : f.at = at /\ f.v = v /\ \A s : Push(Fr(at, v, c), s) = Push(f, s)
      BY <1>3, <1>9
    <2>2. QED BY <1>1, <1>6, <1>12, <2>1
  <1>13. ASSUME Top(t).at \notin LeaveLabels, NEW at \in Loose, NEW a \in Loose, NEW v \in Vnodes \union {None},
                NEW w \in Vnodes \union {None}, NEW c \in BOOLEAN
         PROVE  Mild(t, Over(a, w, Push(Fr(at, v, c), b)))
    <2>1. PICK g \in Frame : g.at = at /\ g.v = v /\ \A s : Push(Fr(at, v, c), s) = Push(g, s)
      BY <1>3, <1>9
    <2>2. PICK f \in Frame : f.at = a /\ f.v = w /\ Over(a, w, Push(g, b)) = Push(f, Push(g, b))
      BY <1>4, <1>9
    <2>3. Push(Fr(at, v, c), b) = Push(g, b)
      BY <2>1
    <2>4. QED BY <1>1, <1>6, <1>13, <2>1, <2>2, <2>3
  <1>14. ASSUME Top(t).at \notin LeaveLabels, NEW a \in Loose, NEW w \in Vnodes \union {None}
         PROVE  Mild(t, Over(a, w, b))
    <2>1. PICK f \in Frame : f.at = a /\ f.v = w /\ Over(a, w, b) = Push(f, b)
      BY <1>4, <1>9
    <2>2. QED BY <1>1, <1>6, <1>14, <2>1
  <1>15. ASSUME NEW a, NEW at, Fit(t, a), a \notin InactLabels, Top(t).v \in Vnodes, Fit(t, at),
                Top(t).at \in LeaveLabels => at \in LeaveLabels
         PROVE  Mild(t, Over(a, Top(t).v, Top1(t, at)))
    <2>1. PICK g \in Frame : g.at = at /\ g.v = Top(t).v /\ Top1(t, at) = Push(g, b)
      BY <1>2, <1>8, <1>15
    <2>2. PICK f \in Frame : f.at = a /\ f.v = Top(t).v /\ Over(a, Top(t).v, Push(g, b)) = Push(f, Push(g, b))
      BY <1>4, <1>8, <1>15
    <2>3. QED BY <1>1, <1>7, <1>15, <2>1, <2>2
  <1>16. QED BY <1>1, <1>10, <1>11, <1>12, <1>13, <1>14, <1>15 DEF b

\* An inactivation ends, or none begins.
LEMMA InactParts ==
  ASSUME Ready, NEW t \in Threads, TopInacts(th'[t].stack), Inacting(t)' \subseteq Inacting(t)
  PROVE  /\ SameInacts => InactStep(t)
         /\ \A v \in Inacting(t) : InactIs(v, FALSE) /\ v \notin Inacting(t)' => InactStep(t)
  <1>1. InactsAre /\ \A v \in Inacting(t) : v \in Vnodes
    BY ReadyIs, BlockedAre
  <1>2. QED BY <1>1 DEF InactsAre, InactStep, InactIs, SameInacts

\* A vnode is locked, to be cleaned.
LEMMA LockSound ==
  ASSUME Ready, Typed', NEW t \in Threads, Step(t) \/ Start(t), Lives(t),
         NEW v \in Vnodes, LockIs(v, TRUE), NEW a \in {"clean", "gone_end"}, NEW s \in Seq(Frame),
         th'[t].stack = Over(a, v, s), Mild(t, s),
         \/ SameInacts
         \/ \E w \in Inacting(t) : InactIs(w, FALSE) /\ w \notin Vs(s, InactLabels),
         SameDatas, SameCounts, FileStep(t), WhyStep(t),
         v \in Blocks(t) \/ \A u \in Threads \ {t} : ~Owner(u, v),
         vn[v].read = "error" \/ v \in Vs(s, {"end"}) \/ \A u \in Threads \ {t} : ~Owner(u, v)
  PROVE  Sound(t)
  <1>1. a \in Labels /\ a \in CleanLabels /\ a \in Blocked /\ a \notin InactLabels /\ a \notin MakeLabels
        /\ a \notin {"trunc", "ifree"}
    BY LabelSets DEF Labels, CleanLabels, InactLabels, MakeLabels
  <1>2. PICK f \in Frame : f.at = a /\ f.v = v /\ Over(a, v, s) = Push(f, s)
    BY <1>1, OverIs
  <1> DEFINE x == Push(f, s)
  <1>3. /\ x \in Seq(Frame) /\ x # Empty /\ Hd(x) = f /\ Tl(x) = s /\ Under(x) = s
        /\ Vs(x, InactLabels) = Vs(s, InactLabels) /\ Vs(x, Blocked) = Vs(s, Blocked) \union {v}
        /\ Marks(x, MakeLabels) = Marks(s, MakeLabels)
        /\ Vs(s, LeaveLabels) \subseteq Vs(x, LeaveLabels)
    <2>1. x \in Seq(Frame) /\ x # Empty /\ Hd(x) = f /\ Tl(x) = s
          /\ (\A L : f.at \in L => Vs(x, L) = Vs(s, L) \union {f.v})
          /\ (\A L : f.at \notin L => Vs(x, L) = Vs(s, L))
      BY HeadFacts
    <2>2. Marks(x, MakeLabels) = Marks(s, MakeLabels)
      BY <1>1, <1>2, MarksAre
    <2>3. Under(x) = s
      BY <2>1 DEF Under
    <2> HIDE DEF x
    <2>4. QED BY <1>1, <1>2, <2>1, <2>2, <2>3
  <1> HIDE DEF x
  <1>4. th'[t].stack = x
    BY <1>2 DEF x
  <1>5. /\ Inacting(t)' = Vs(x, InactLabels) /\ Blocks(t)' = Vs(x, Blocked)
        /\ Makes(t)' = Marks(x, MakeLabels) /\ Leaves(t)' = Vs(x, LeaveLabels)
        /\ EndsBelow(t)' = Vs(s, {"end"})
        /\ Frees(t)' <=> x # Empty /\ Hd(x).at \in {"trunc", "ifree"}
    <2>1. EndsBelow(t)' = Vs(Under(x), {"end"})
      BY <1>4 DEF EndsBelow, Vs, Marks, Frames, Under, Hd, Tl, Empty
    <2>2. QED BY <1>3, <1>4, <2>1 DEF Inacting, Blocks, Makes, Leaves, Frees, Vs, Marks, Frames, Hd, Tl, Empty
  <1>6. /\ Vs(s, InactLabels) \subseteq Inacting(t) /\ Vs(s, Blocked) \subseteq Blocks(t)
        /\ Marks(s, MakeLabels) \subseteq Makes(t)
        /\ EndsBelow(t) \subseteq Vs(Under(s), {"end"}) /\ Leaves(t) \subseteq Vs(s, LeaveLabels)
    BY DEF Mild
  <1>7. TopInacts(x)
    BY <1>1, <1>2, <1>3 DEF TopInacts
  <1>8. InactStep(t)
    <2>1. TopInacts(th'[t].stack) /\ Inacting(t)' \subseteq Inacting(t)
      BY <1>3, <1>4, <1>5, <1>6, <1>7
    <2>2. QED BY <1>3, <1>5, <2>1, InactParts
  <1>9. BlockStep(t) /\ FreeStep(t) /\ Makes(t)' \subseteq Makes(t) /\ Leaves(t) \subseteq Leaves(t)'
    BY <1>1, <1>2, <1>3, <1>5, <1>6 DEF BlockStep, FreeStep
  <1>10. OthersAgree(t) /\ OwnStep(t)
    BY OwnParts
  <1>11. DataStep(t) /\ KnownAre' /\ MakeStep(t) /\ ListedAre'
    BY <1>9, <1>10, DataParts
  <1>12. CleanStep(t)
    <2>1. Vs(Under(s), {"end"}) \subseteq Vs(s, {"end"})
      <3>1. CASE s = Empty
        BY <3>1 DEF Under
      <3>2. CASE s # Empty
        <4>1. Vs(Tl(s), {"end"}) \subseteq Vs(s, {"end"})
          BY <3>2, ConsFacts
        <4>2. QED BY <3>2, <4>1 DEF Under
      <3>3. QED BY <3>1, <3>2
    <2>2. Cleaning(t)' \subseteq Cleaning(t) \union {v} /\ Cleaning(t) \subseteq Vnodes
      BY CleanParts, CleaningVnodes, ReadyIs
    <2>3. CleansAre
      BY ReadyIs
    <2>4. QED BY <1>5, <1>6, <2>1, <2>2, <2>3 DEF CleanStep, CleansAre, SameDatas, SameData
  <1>13. QED BY <1>8, <1>9, <1>10, <1>11, <1>12 DEF Sound

\* What a thread does, by its top and what is under it
LEMMA StackParts ==
  ASSUME NEW f \in Frame, NEW s \in Seq(Frame)
  PROVE  LET x == Push(f, s)
         IN  /\ x # Empty /\ Hd(x) = f /\ Tl(x) = s /\ Under(x) = s
             /\ \A L : Vs(x, L) = Vs(s, L) \union (IF f.at \in L THEN {f.v} ELSE {})
             /\ Marks(x, MakeLabels) = Marks(s, MakeLabels) \union (IF f.at \in MakeLabels THEN {f} ELSE {})
             /\ TopInacts(x) <=> (f.at \in InactLabels => Vs(s, InactLabels) = {})
  <1> DEFINE x == Push(f, s)
  <1>1. x # Empty /\ Hd(x) = f /\ Tl(x) = s
        /\ \A L : Vs(x, L) = Vs(s, L) \union (IF f.at \in L THEN {f.v} ELSE {})
    <2>1. ASSUME NEW L PROVE Vs(x, L) = Vs(s, L) \union (IF f.at \in L THEN {f.v} ELSE {})
      BY HeadFacts
    <2>2. QED BY <2>1, HeadFacts
  <1>2. /\ f.at \in MakeLabels => Marks(x, MakeLabels) = Marks(s, MakeLabels) \union {f}
        /\ f.at \notin MakeLabels => Marks(x, MakeLabels) = Marks(s, MakeLabels)
    BY MarksAre
  <1> HIDE DEF x
  <1>3. Under(x) = s /\ (TopInacts(x) <=> (f.at \in InactLabels => Vs(s, InactLabels) = {}))
    BY <1>1 DEF Under, TopInacts
  <1>4. QED BY <1>1, <1>2, <1>3 DEF x

LEMMA CallParts ==
  ASSUME Ready, NEW t \in Threads, InCall(t)
  PROVE  LET f == Top(t)
             s == Below(t)
         IN  /\ f \in Frame /\ s \in Seq(Frame) /\ OnTop(f, s) /\ Shaped(s)
             /\ Inacting(t) = Vs(s, InactLabels) \union (IF f.at \in InactLabels THEN {f.v} ELSE {})
             /\ Blocks(t) = Vs(s, Blocked) \union (IF f.at \in Blocked THEN {f.v} ELSE {})
             /\ Leaves(t) = Vs(s, LeaveLabels) \union (IF f.at \in LeaveLabels THEN {f.v} ELSE {})
             /\ Makes(t) = Marks(s, MakeLabels) \union (IF f.at \in MakeLabels THEN {f} ELSE {})
             /\ EndsBelow(t) = Vs(s, {"end"})
             /\ f.at \in InactLabels => Vs(s, InactLabels) = {}
             /\ Frees(t) <=> f.at \in {"trunc", "ifree"}
             /\ Freed(t) = vn[f.v]
  <1> DEFINE f == Top(t)
             s == Below(t)
  <1>1. /\ th[t].stack # Empty /\ Hd(th[t].stack) = f /\ Tl(th[t].stack) = s /\ f \in Frame /\ s \in Seq(Frame)
        /\ OnTop(f, s) /\ Shaped(s) /\ th[t].stack = Push(f, s) /\ TopInacts(th[t].stack)
    BY CallIsShaped, ReadyIs DEF InactsAre, InCall
  <1> HIDE DEF f, s
  <1>2. QED BY <1>1, StackParts DEF Inacting, Blocks, Leaves, Makes, EndsBelow, Frees, Freed, f, s

LEMMA PushParts ==
  ASSUME NEW t \in Threads, NEW f \in Frame, NEW s \in Seq(Frame), th'[t].stack = Push(f, s)
  PROVE  /\ Inacting(t)' = Vs(s, InactLabels) \union (IF f.at \in InactLabels THEN {f.v} ELSE {})
         /\ Blocks(t)' = Vs(s, Blocked) \union (IF f.at \in Blocked THEN {f.v} ELSE {})
         /\ Leaves(t)' = Vs(s, LeaveLabels) \union (IF f.at \in LeaveLabels THEN {f.v} ELSE {})
         /\ Makes(t)' = Marks(s, MakeLabels) \union (IF f.at \in MakeLabels THEN {f} ELSE {})
         /\ EndsBelow(t)' = Vs(s, {"end"})
         /\ TopInacts(th'[t].stack) <=> (f.at \in InactLabels => Vs(s, InactLabels) = {})
         /\ Frees(t)' <=> f.at \in {"trunc", "ifree"}
         /\ Freed(t)' = vn'[f.v]
         /\ Hd(th'[t].stack) = f
  <1> DEFINE x == Push(f, s)
  <1>1. /\ x # Empty /\ Hd(x) = f /\ Tl(x) = s /\ Under(x) = s
        /\ \A L : Vs(x, L) = Vs(s, L) \union (IF f.at \in L THEN {f.v} ELSE {})
        /\ Marks(x, MakeLabels) = Marks(s, MakeLabels) \union (IF f.at \in MakeLabels THEN {f} ELSE {})
        /\ TopInacts(x) <=> (f.at \in InactLabels => Vs(s, InactLabels) = {})
    BY StackParts
  <1>2. th'[t].stack = x
    OBVIOUS
  <1> HIDE DEF x
  <1>3. /\ Inacting(t)' = Vs(x, InactLabels) /\ Blocks(t)' = Vs(x, Blocked)
        /\ Makes(t)' = Marks(x, MakeLabels) /\ Leaves(t)' = Vs(x, LeaveLabels)
        /\ EndsBelow(t)' = Vs(Under(x), {"end"})
        /\ Frees(t)' <=> x # Empty /\ Hd(x).at \in {"trunc", "ifree"}
        /\ Freed(t)' = vn'[Hd(x).v]
    BY <1>2 DEF Inacting, Blocks, Makes, Leaves, EndsBelow, Frees, Freed, Vs, Marks, Frames, Under, Hd, Tl, Empty
  <1>4. QED BY <1>1, <1>2, <1>3

LEMMA QuietMild ==
  ASSUME Ready, Typed', NEW t \in Threads, Step(t), Lives(t),
         NEW s, Moves(t, s), Mild(t, s), Quiet, file' = file
  PROVE  Sound(t)
  <1>1. CountUp(t)
    BY OwnParts DEF Quiet
  <1>2. QED BY <1>1, QuietSound DEF Quiet

LEMMA GetsMild ==
  ASSUME Ready, Typed', NEW t \in Threads, Step(t), Lives(t), NEW v \in Vnodes, ~vn[v].xlock, Gets(v),
         NEW s, Moves(t, s), Mild(t, s), file' = file
  PROVE  Sound(t)
  <1>1. CountUp(t)
    <2>1. \A n : CountIs(v, n) /\ ~vn[v].xlock => CountUp(t)
      BY OwnParts
    <2>2. QED BY <2>1 DEF Gets, CountsOnly
  <1>2. QED BY <1>1, QuietSound DEF Gets, CountsOnly

\* The inactivation of v has ended.
LEMMA EndSound ==
  ASSUME Ready, Typed', NEW t \in Threads, Step(t), Lives(t),
         NEW s, Moves(t, s), Mild(t, s), SameLocks, SameBodies, SameCounts, file' = file,
         NEW v \in Inacting(t), InactIs(v, FALSE), Vs(s, InactLabels) = {}
  PROVE  Sound(t)
  <1>1. th'[t].stack = s
    BY DEF Moves
  <1>2. FileStep(t) /\ WhyStep(t)
    BY FileParts
  <1>3. OthersAgree(t) /\ OwnStep(t)
    BY OwnParts
  <1>4. Cleaning(t)' \subseteq Cleaning(t)
    BY CleanParts
  <1>5. /\ TopInacts(th'[t].stack) /\ Makes(t)' \subseteq Makes(t)
        /\ EndsBelow(t) \subseteq EndsBelow(t)' /\ Leaves(t) \subseteq Leaves(t)'
        /\ BlockStep(t) /\ FreeStep(t)
    BY <1>1, MildParts
  <1>6. Inacting(t)' = {}
    BY <1>1 DEF Inacting, Vs, Marks, Frames
  <1>7. InactStep(t)
    BY <1>5, <1>6, InactParts
  <1>8. DataStep(t) /\ KnownAre' /\ MakeStep(t) /\ ListedAre' /\ CleanStep(t)
    BY <1>3, <1>4, <1>5, DataParts, SameBodyData
  <1>9. QED BY <1>2, <1>3, <1>5, <1>7, <1>8 DEF Sound

\* Whoever is to be the last to release a vnode blocks it: nobody else has it.
LEMMA ParkSound ==
  ASSUME Ready, Typed', NEW t \in Threads, Step(t), Lives(t), InCall(t), Top(t).at = "rele",
         Quiet, file' = file, NEW at \in {"rele_slept", "inactive"}, Moves(t, Top1(t, at)),
         vn[Top(t).v].count = 1
  PROVE  Sound(t)
  <1> DEFINE b == Below(t)
             v == Top(t).v
  <1>1. PICK f \in Frame : f.at = at /\ f.v = v /\ Top1(t, at) = Push(f, b)
    <2>1. at \in Labels
      BY DEF Labels
    <2>2. QED BY <2>1, FormsAre
  <1>2. b \in Seq(Frame) /\ EndsBelow(t) = Vs(b, {"end"})
    BY CallParts
  <1>3. Mild(t, b)
    BY MildMoves DEF CleanLabels
  <1>4. th'[t].stack = Push(f, b)
    BY <1>1 DEF Moves
  <1>5. f.at \notin InactLabels /\ f.at \notin LeaveLabels /\ f.at \notin MakeLabels
        /\ f.at \notin {"trunc", "ifree"}
    BY <1>1 DEF InactLabels, LeaveLabels, MakeLabels
  <1> HIDE DEF b
  <1>6. /\ TopInacts(th'[t].stack) /\ Inacting(t)' \subseteq Inacting(t)
        /\ Makes(t)' \subseteq Makes(t) /\ Leaves(t) \subseteq Leaves(t)' /\ EndsBelow(t) \subseteq EndsBelow(t)'
        /\ Blocks(t)' \subseteq Blocks(t) \union {v} /\ ~Frees(t)'
    BY <1>1, <1>2, <1>3, <1>4, <1>5, PushParts DEF Mild
  <1>7. \A u \in Threads \ {t} : ~Owner(u, v)
    <2>1. v \in Vnodes /\ Owner(t, v)
      <3>1. "rele" \in OwnLabels /\ "rele" \notin NoVnode
        BY LabelsAre DEF NoVnode
      <3>2. Owner(t, Top(t).v) /\ Top(t).v \in Vnodes
        BY <3>1, TopOwns, ReadyIs DEF InCall
      <3>3. QED BY <3>2
    <2>2. \A u \in Threads \ {t} : /\ Refs(th[t], v) \in Nat /\ Refs(th[u], v) \in Nat
                                   /\ vn[v].count >= Refs(th[t], v) + Refs(th[u], v)
      BY <2>1, CountsAre, ReadyIs
    <2>3. QED BY <2>1, <2>2 DEF Owner
  <1>8. BlockStep(t) /\ FreeStep(t)
    BY <1>6, <1>7 DEF BlockStep, FreeStep
  <1>9. InactStep(t)
    BY <1>6, InactParts DEF Quiet
  <1>10. OthersAgree(t) /\ OwnStep(t)
    BY OwnParts DEF Quiet
  <1>11. Cleaning(t)' \subseteq Cleaning(t)
    BY CleanParts DEF Quiet
  <1>12. FileStep(t) /\ WhyStep(t)
    BY FileParts
  <1>13. DataStep(t) /\ KnownAre' /\ MakeStep(t) /\ ListedAre' /\ CleanStep(t)
    BY <1>6, <1>10, <1>11, DataParts, SameBodyData DEF Quiet
  <1>14. QED BY <1>8, <1>9, <1>10, <1>12, <1>13 DEF Sound

\* A call that is to clean cleans nothing yet.
LEMMA ActiveCleans ==
  ASSUME NEW s \in Seq(Frame), NEW v, Active(s, v) \/ Dropping(s, v)
  PROVE  Vs(s, CleanLabels) = {}
  <1>1. ASSUME NEW q \in Seq(Frame), Caller(q) PROVE Vs(q, CleanLabels) = {}
    <2>1. CleanLabels \cap CallLabels = {}
      BY DEF CallLabels, CleanLabels
    <2>2. QED BY <1>1, <2>1, FormVnodes
  <1>2. ASSUME NEW q \in Seq(Frame), Dropping(q, v) PROVE Vs(q, CleanLabels) = {}
    <2>1. CleanLabels \cap CallLabels = {} /\ "drop" \notin CleanLabels
      BY DEF CallLabels, CleanLabels
    <2>2. QED BY <1>2, <2>1, FormVnodes
  <1>3. ASSUME Active(s, v), ~Dropping(s, v) PROVE Vs(s, CleanLabels) = {}
    <2>1. s # Empty /\ Hd(s).at \notin CleanLabels /\ (Tl(s) = Empty \/ Dropping(Tl(s), v))
      BY <1>3 DEF Active, CleanLabels
    <2>2. Tl(s) \in Seq(Frame) /\ Vs(s, CleanLabels) = Vs(Tl(s), CleanLabels)
      BY <2>1, ConsFacts
    <2>3. QED BY <1>2, <2>1, <2>2, EmptyStack
  <1>4. QED BY <1>2, <1>3

\* Freeing an inode: it is on its chain, has been read, and nobody else is to free
\* it or to make it a file.
LEMMA TruncFrees ==
  ASSUME Ready, Typed', NEW t \in Threads, InCall(t), Top(t).at = "ufs_inactive", OthersAgree(t), WhyKept(t),
         NEW v, v = Top(t).v, vn[v].read # "error", ~vn[v].inactivating, vn[v].listed,
         file[vn[v].ino] = "unlinked", SameBodies, file' = file, Freed(t)' = vn'[v],
         Hd(th'[t].stack).at = "trunc"
  PROVE  Freeing(t)'
  <1> DEFINE b == Below(t)
  <1>1. v \in Vnodes /\ Owner(t, v)
    <2>1. v \in Vs(th[t].stack, UfsLabels)
      <3>1. th[t].stack # Empty /\ Hd(th[t].stack) = Top(t) /\ th[t].stack \in Seq(Frame)
        BY CallIsShaped, ReadyIs
      <3>2. Top(t).at \in UfsLabels
        BY DEF UfsLabels
      <3>3. QED BY <3>1, <3>2, ConsFacts
    <2>2. QED BY <2>1, BlockedAre, ReadyIs
  <1>2. vn[v].read = "yes" /\ (vn[v].hashed \/ \E u \in Threads : v \in Leaves(u))
    BY <1>1, ReadyIs DEF ListedAre
  <1>3. vn[v].hashed
    <2>1. ASSUME NEW u \in Threads, v \in Leaves(u), u # t PROVE FALSE
      <3>1. v \in Cleaning(u)
        BY <2>1, LabelSets DEF Leaves, Cleaning, Vs, Marks
      <3>2. v \in EndsBelow(u)
        BY <1>1, <1>2, <2>1, <3>1, ReadyIs DEF CleansAre
      <3>3. v \in Inacting(u)
        <4>1. EndsBelow(u) \subseteq Inacting(u)
          <5>1. CASE th[u].stack = Empty
            BY <5>1, EmptyStack DEF EndsBelow, Under
          <5>2. CASE th[u].stack # Empty
            <6>1. Vs(Tl(th[u].stack), InactLabels) \subseteq Vs(th[u].stack, InactLabels)
              BY <5>2, StackIn, ConsFacts, ReadyIs
            <6>2. QED BY <5>2, <6>1 DEF EndsBelow, Under, Inacting, Vs, Marks, InactLabels
          <5>3. QED BY <5>1, <5>2
        <4>2. QED BY <3>2, <4>1
      <3>4. QED BY <3>3, ReadyIs DEF InactsAre
    <2>2. v \notin Leaves(t)
      <3>1. b \in Seq(Frame) /\ OnTop(Top(t), b) /\ Leaves(t) = Vs(b, LeaveLabels)
        BY CallParts DEF LeaveLabels
      <3>2. Dropping(b, v) \/ Reclaims(Top(t), b)
        BY <3>1 DEF OnTop, Looks, Releases, Inactivates, CleansUsed, CleansUnused, GivesBack,
                    LookLabels, ReleLabels, CleanLabels
      <3>3. CASE Dropping(b, v)
        BY <3>1, <3>3, ActiveCleans, LabelSets DEF Vs, Marks
      <3>4. CASE Reclaims(Top(t), b)
        <4>1. b # Empty /\ Hd(b).at = "reclaim" /\ Active(Tl(b), v) /\ Tl(b) \in Seq(Frame)
          BY <3>1, <3>4, ConsFacts DEF Reclaims
        <4>2. Vs(Tl(b), CleanLabels) = {}
          BY <4>1, ActiveCleans
        <4>3. Vs(Tl(b), LeaveLabels) = {}
          BY <4>2, LabelSets DEF Vs, Marks
        <4>4. Hd(b).at \notin LeaveLabels
          BY <4>1 DEF LeaveLabels
        <4>5. QED BY <3>1, <4>1, <4>3, <4>4, ConsFacts
      <3>5. QED BY <3>2, <3>3, <3>4
    <2>3. QED BY <1>2, <2>1, <2>2
  <1>4. \A u \in Threads : th'[u].why = "create" => th'[u].i # vn[v].ino
    <2>1. \A u \in Threads : th'[u].why = "create" => th[u].why = "create" /\ th'[u].i = th[u].i
      BY DEF OthersAgree, Agree, WhyKept
    <2>2. QED BY <2>1, ReadyIs DEF CreatesIs
  <1>5. vn'[v].hashed = vn[v].hashed /\ vn'[v].read = vn[v].read /\ vn'[v].ino = vn[v].ino
    BY <1>1 DEF SameBodies, SameBody
  <1>6. Hd(th[t].stack)' = Hd(th'[t].stack)
    BY DEF Hd
  <1>7. QED BY <1>2, <1>3, <1>4, <1>5, <1>6 DEF Freeing

\* An inactivation begins.
LEMMA BeginSound ==
  ASSUME Ready, Typed', NEW t \in Threads, Step(t), Lives(t), InCall(t), Top(t).at = "ufs_inactive",
         file' = file, NEW v, v = Top(t).v, vn[v].read # "error", ~vn[v].inactivating, InactOnly(v, TRUE),
         NEW at \in {"stale", "trunc", "last"}, Moves(t, Top1(t, at)),
         at = "trunc" => vn[v].listed /\ file[vn[v].ino] = "unlinked"
  PROVE  Sound(t)
  <1> DEFINE b == Below(t)
  <1>1. PICK f \in Frame : f.at = at /\ f.v = v /\ Top1(t, at) = Push(f, b)
    <2>1. at \in Labels
      BY DEF Labels
    <2>2. QED BY <2>1, FormsAre
  <1>2. /\ b \in Seq(Frame) /\ OnTop(Top(t), b)
        /\ Inacting(t) = Vs(b, InactLabels) /\ Blocks(t) = Vs(b, Blocked) \union {v}
        /\ Leaves(t) = Vs(b, LeaveLabels) /\ Makes(t) = Marks(b, MakeLabels) /\ EndsBelow(t) = Vs(b, {"end"})
    <2>1. /\ Top(t).at \notin InactLabels /\ Top(t).at \in Blocked
          /\ Top(t).at \notin LeaveLabels /\ Top(t).at \notin MakeLabels
      BY DEF InactLabels, Blocked, UfsLabels, LeaveLabels, MakeLabels
    <2>2. b \in Seq(Frame) /\ OnTop(Top(t), b)
      BY CallParts
    <2>3. /\ Inacting(t) = Vs(b, InactLabels) /\ Blocks(t) = Vs(b, Blocked) \union {v}
          /\ Leaves(t) = Vs(b, LeaveLabels) /\ Makes(t) = Marks(b, MakeLabels)
          /\ EndsBelow(t) = Vs(b, {"end"})
      BY <2>1, CallParts
    <2>4. QED BY <2>2, <2>3
  <1>3. f.at \in InactLabels /\ f.at \in Blocked /\ f.at \notin LeaveLabels /\ f.at \notin MakeLabels
    BY <1>1 DEF InactLabels, Blocked, UfsLabels, LeaveLabels, MakeLabels
  <1>4. th'[t].stack = Push(f, b)
    BY <1>1 DEF Moves
  <1>5. /\ Inacting(t)' = Vs(b, InactLabels) \union {v} /\ Blocks(t)' = Blocks(t)
        /\ Leaves(t)' = Leaves(t) /\ Makes(t)' = Makes(t) /\ EndsBelow(t)' = EndsBelow(t)
        /\ TopInacts(th'[t].stack) <=> Vs(b, InactLabels) = {}
        /\ Frees(t)' <=> at \in {"trunc", "ifree"}
        /\ Freed(t)' = vn'[v] /\ Hd(th'[t].stack) = f
    <2>1. /\ Inacting(t)' = Vs(b, InactLabels) \union {f.v} /\ Blocks(t)' = Vs(b, Blocked) \union {f.v}
          /\ Leaves(t)' = Vs(b, LeaveLabels) /\ Makes(t)' = Marks(b, MakeLabels) /\ EndsBelow(t)' = Vs(b, {"end"})
          /\ TopInacts(th'[t].stack) <=> Vs(b, InactLabels) = {}
          /\ Frees(t)' <=> f.at \in {"trunc", "ifree"}
          /\ Freed(t)' = vn'[f.v] /\ Hd(th'[t].stack) = f
      <3>1. /\ Inacting(t)' = Vs(b, InactLabels) \union (IF f.at \in InactLabels THEN {f.v} ELSE {})
            /\ Blocks(t)' = Vs(b, Blocked) \union (IF f.at \in Blocked THEN {f.v} ELSE {})
            /\ Leaves(t)' = Vs(b, LeaveLabels) \union (IF f.at \in LeaveLabels THEN {f.v} ELSE {})
            /\ Makes(t)' = Marks(b, MakeLabels) \union (IF f.at \in MakeLabels THEN {f} ELSE {})
            /\ EndsBelow(t)' = Vs(b, {"end"})
            /\ TopInacts(th'[t].stack) <=> (f.at \in InactLabels => Vs(b, InactLabels) = {})
            /\ Frees(t)' <=> f.at \in {"trunc", "ifree"}
            /\ Freed(t)' = vn'[f.v] /\ Hd(th'[t].stack) = f
        BY <1>2, <1>4, PushParts
      <3> HIDE DEF b
      <3>2. QED BY <1>3, <3>1
    <2>2. QED BY <1>1, <1>2, <2>1
  <1> HIDE DEF b
  <1>6. Vs(b, InactLabels) = {}
    <2>1. Dropping(b, v) \/ Reclaims(Top(t), b)
      BY <1>2 DEF OnTop, Looks, Releases, Inactivates, CleansUsed, CleansUnused, GivesBack,
                  LookLabels, ReleLabels, CleanLabels
    <2>2. InactLabels \cap CallLabels = {} /\ "drop" \notin InactLabels /\ "reclaim" \notin InactLabels
      BY DEF InactLabels, CallLabels
    <2>3. Vs(b, InactLabels) \subseteq {v}
      <3>1. CASE Dropping(b, v)
        BY <1>2, <2>2, <3>1, FormVnodes
      <3>2. CASE Reclaims(Top(t), b)
        <4>1. b # Empty /\ Hd(b).at = "reclaim" /\ Active(Tl(b), v) /\ Tl(b) \in Seq(Frame)
          BY <1>2, <3>2, ConsFacts DEF Reclaims
        <4>2. Vs(Tl(b), InactLabels) \subseteq {v}
          BY <2>2, <4>1, FormVnodes
        <4>3. QED BY <1>2, <2>2, <4>1, <4>2, ConsFacts
      <3>3. QED BY <2>1, <3>1, <3>2
    <2>4. v \notin Inacting(t)
      BY ReadyIs DEF InactsAre
    <2>5. QED BY <1>2, <2>3, <2>4
  <1>7. v \in Vnodes
    BY DEF InCall, NoVnode
  <1>8. InactStep(t)
    BY <1>5, <1>6, <1>7 DEF InactStep, InactOnly, InactIs
  <1>9. OthersAgree(t) /\ OwnStep(t)
    BY OwnParts DEF InactOnly
  <1>10. Cleaning(t)' \subseteq Cleaning(t)
    BY CleanParts DEF InactOnly
  <1>11. FileStep(t) /\ WhyStep(t) /\ WhyKept(t)
    BY FileParts
  <1>12. DataStep(t) /\ KnownAre' /\ MakeStep(t) /\ ListedAre' /\ CleanStep(t)
    BY <1>5, <1>9, <1>10, DataParts, SameBodyData DEF InactOnly
  <1>13. FreeStep(t)
    <2>1. SUFFICES ASSUME Frees(t)' PROVE Freeing(t)'
      BY DEF FreeStep
    <2>2. at = "trunc"
      BY <1>5, <2>1
    <2>3. QED BY <1>1, <1>5, <1>9, <1>11, <2>2, TruncFrees DEF InactOnly
  <1>14. BlockStep(t)
    BY <1>5 DEF BlockStep
  <1>15. QED BY <1>8, <1>9, <1>11, <1>12, <1>13, <1>14 DEF Sound

\* The file is truncated, and its inode freed.
LEMMA FreeSound ==
  ASSUME Ready, Typed', NEW t \in Threads, Trunc(t) \/ Ifree(t), Lives(t)
  PROVE  Sound(t)
  <1> DEFINE b == Below(t)
             v == Top(t).v
  <1>1. InCall(t) /\ Top(t).at \in {"trunc", "ifree"} /\ Quiet /\ Step(t)
    BY TruncDoes, IfreeDoes, ReadyIs DEF Step
  <1>2. Frees(t) /\ Freed(t) = vn[v] /\ Freeing(t)
    BY <1>1, CallParts, ReadyIs DEF FreeingIs
  <1>3. \E f \in Frame : /\ f.at \in {"ifree", "last"} /\ f.v = v /\ Moves(t, Push(f, b))
                         /\ file' = [file EXCEPT ![vn[v].ino] = IF Top(t).at = "trunc" THEN "reserved" ELSE "free"]
                         /\ Top(t).at = "trunc" <=> f.at = "ifree"
    <2>1. CASE Trunc(t)
      <3>1. PICK f \in Frame : f.at = "ifree" /\ f.v = v /\ Top1(t, "ifree") = Push(f, b)
        <4>1. "ifree" \in Labels
          BY DEF Labels
        <4>2. QED BY <1>1, <4>1, FormsAre
      <3>2. Top(t).at = "trunc" /\ Moves(t, Push(f, b)) /\ file' = [file EXCEPT ![vn[v].ino] = "reserved"]
        BY <2>1, <3>1, TruncDoes, ReadyIs
      <3>3. QED BY <3>1, <3>2
    <2>2. CASE Ifree(t)
      <3>1. PICK f \in Frame : f.at = "last" /\ f.v = v /\ f.flag /\ Push(Fr("last", v, TRUE), b) = Push(f, b)
        <4>1. "last" \in Labels /\ v \in Vnodes \union {None}
          BY <1>1 DEF Labels, InCall
        <4>2. \A c \in BOOLEAN : \E f \in Frame : /\ f.at = "last" /\ f.v = v /\ f.flag = c
                                                  /\ Push(Fr("last", v, c), b) = Push(f, b)
          BY <1>1, <4>1, FormsAre
        <4>3. QED BY <4>2
      <3>2. Top(t).at = "ifree" /\ Moves(t, Push(f, b)) /\ file' = [file EXCEPT ![vn[v].ino] = "free"]
        BY <2>2, <3>1, IfreeDoes, ReadyIs
      <3>3. QED BY <3>1, <3>2
    <2>3. QED BY <2>1, <2>2
  <1>4. PICK f \in Frame : /\ f.at \in {"ifree", "last"} /\ f.v = v /\ Moves(t, Push(f, b))
                           /\ file' = [file EXCEPT ![vn[v].ino] = IF Top(t).at = "trunc" THEN "reserved" ELSE "free"]
                           /\ Top(t).at = "trunc" <=> f.at = "ifree"
    BY <1>3
  <1>5. /\ b \in Seq(Frame) /\ Vs(b, InactLabels) = {}
        /\ Inacting(t) = Vs(b, InactLabels) \union {v} /\ Blocks(t) = Vs(b, Blocked) \union {v}
        /\ Leaves(t) = Vs(b, LeaveLabels) /\ Makes(t) = Marks(b, MakeLabels) /\ EndsBelow(t) = Vs(b, {"end"})
    BY <1>1, CallParts DEF InactLabels, Blocked, UfsLabels, LeaveLabels, MakeLabels
  <1>6. f.at \in InactLabels /\ f.at \in Blocked /\ f.at \notin LeaveLabels /\ f.at \notin MakeLabels
    BY <1>4 DEF InactLabels, Blocked, UfsLabels, LeaveLabels, MakeLabels
  <1>7. th'[t].stack = Push(f, b)
    BY <1>4 DEF Moves
  <1>8. /\ Inacting(t)' = Inacting(t) /\ Blocks(t)' = Blocks(t)
        /\ Leaves(t)' = Leaves(t) /\ Makes(t)' = Makes(t) /\ EndsBelow(t)' = EndsBelow(t)
        /\ TopInacts(th'[t].stack)
        /\ Frees(t)' <=> f.at \in {"trunc", "ifree"}
        /\ Freed(t)' = vn'[v] /\ Hd(th'[t].stack) = f
    <2>1. /\ Inacting(t)' = Vs(b, InactLabels) \union {f.v} /\ Blocks(t)' = Vs(b, Blocked) \union {f.v}
          /\ Leaves(t)' = Vs(b, LeaveLabels) /\ Makes(t)' = Marks(b, MakeLabels) /\ EndsBelow(t)' = Vs(b, {"end"})
          /\ TopInacts(th'[t].stack) <=> Vs(b, InactLabels) = {}
          /\ Frees(t)' <=> f.at \in {"trunc", "ifree"}
          /\ Freed(t)' = vn'[f.v] /\ Hd(th'[t].stack) = f
      <3>1. /\ Inacting(t)' = Vs(b, InactLabels) \union (IF f.at \in InactLabels THEN {f.v} ELSE {})
            /\ Blocks(t)' = Vs(b, Blocked) \union (IF f.at \in Blocked THEN {f.v} ELSE {})
            /\ Leaves(t)' = Vs(b, LeaveLabels) \union (IF f.at \in LeaveLabels THEN {f.v} ELSE {})
            /\ Makes(t)' = Marks(b, MakeLabels) \union (IF f.at \in MakeLabels THEN {f} ELSE {})
            /\ EndsBelow(t)' = Vs(b, {"end"})
            /\ TopInacts(th'[t].stack) <=> (f.at \in InactLabels => Vs(b, InactLabels) = {})
            /\ Frees(t)' <=> f.at \in {"trunc", "ifree"}
            /\ Freed(t)' = vn'[f.v] /\ Hd(th'[t].stack) = f
        BY <1>5, <1>7, PushParts
      <3> HIDE DEF b
      <3>2. QED BY <1>6, <3>1
    <2>2. QED BY <1>4, <1>5, <2>1
  <1> HIDE DEF b
  <1>9. v \in Vnodes /\ vn[v].hashed /\ vn[v].read = "yes" /\ vn[v].ino \in Inos
        /\ \A u \in Threads : th[u].why = "create" => th[u].i # vn[v].ino
    <2>1. v \in Vnodes
      BY <1>1 DEF InCall, NoVnode
    <2>2. vn[v].hashed /\ vn[v].read = "yes" /\ \A u \in Threads : th[u].why = "create" => th[u].i # vn[v].ino
      BY <1>2 DEF Freeing
    <2>3. QED BY <2>1, <2>2, ReadyIs DEF KnownAre
  <1> HIDE DEF v
  <1>10. InactStep(t)
    BY <1>8, InactParts, <1>1 DEF Quiet
  <1>11. OthersAgree(t) /\ OwnStep(t) /\ WhyKept(t)
    BY <1>1, <1>4, OwnParts, FileParts DEF Quiet
  <1>12. Cleaning(t)' \subseteq Cleaning(t)
    BY <1>1, CleanParts DEF Quiet
  <1>13. DataStep(t) /\ KnownAre' /\ MakeStep(t) /\ ListedAre' /\ CleanStep(t)
    BY <1>1, <1>8, <1>11, <1>12, DataParts, SameBodyData DEF Quiet
  <1>14. \A i \in Inos : i # vn[v].ino => file'[i] = file[i]
    BY <1>4, ReadyIs DEF Typed
  <1>15. FileStep(t)
    BY <1>2, <1>14 DEF FileStep
  <1>16. WhyStep(t)
    BY <1>9, <1>11, <1>14, ReadyIs DEF WhyStep, WhyKept, CreatesIs
  <1>17. FreeStep(t)
    <2>1. SUFFICES ASSUME Frees(t)' PROVE Freeing(t)'
      BY DEF FreeStep
    <2>2. f.at = "ifree" /\ Top(t).at = "trunc"
      BY <1>4, <1>8, <2>1
    <2>3. file'[vn[v].ino] = "reserved"
      BY <1>4, <1>9, <2>2, ReadyIs DEF Typed
    <2>4. vn'[v].hashed = vn[v].hashed /\ vn'[v].read = vn[v].read /\ vn'[v].ino = vn[v].ino
      BY <1>1, <1>9 DEF Quiet, SameBodies, SameBody
    <2>5. \A u \in Threads : th'[u].why = "create" => th'[u].i # vn[v].ino
      BY <1>9, <1>11 DEF OthersAgree, Agree, WhyKept
    <2>6. Hd(th[t].stack)' = f
      BY <1>8 DEF Hd
    <2>7. QED BY <1>8, <1>9, <2>2, <2>3, <2>4, <2>5, <2>6 DEF Freeing
  <1>18. BlockStep(t)
    BY <1>8 DEF BlockStep
  <1>19. QED BY <1>10, <1>11, <1>13, <1>15, <1>16, <1>17, <1>18 DEF Sound

\* A call goes on with s, or first cleans v.
LEMMA GoneMild ==
  ASSUME Ready, Typed', NEW t \in Threads, Step(t), Lives(t), NEW v \in Vnodes, NEW s \in Seq(Frame),
         Gone(t, v, s), Mild(t, s), file' = file, v \in Blocks(t),
         vn[v].read = "error" \/ v \in Vs(s, {"end"})
  PROVE  Sound(t)
  <1>1. CASE Quiet /\ Moves(t, s)
    BY <1>1, QuietMild
  <1>2. ASSUME LocksOnly(v), NEW a \in {"clean", "gone_end"}, Moves(t, Over(a, v, s))
        PROVE  Sound(t)
    <2>1. th'[t].stack = Over(a, v, s)
      BY <1>2 DEF Moves
    <2>2. SameInacts /\ SameDatas /\ SameCounts /\ LockIs(v, TRUE)
      BY <1>2, SameBodyData DEF LocksOnly
    <2>3. FileStep(t) /\ WhyStep(t)
      BY <1>2, FileParts
    <2>4. QED BY <2>1, <2>2, <2>3, LockSound
  <1>3. QED BY <1>1, <1>2 DEF Gone

LEMMA ReleSounds ==
  ASSUME Ready, Typed', NEW t \in Threads, Lives(t),
         Rele(t) \/ Inactive(t) \/ Drop(t) \/ SleepAgain(t)
  PROVE  Sound(t)
  <1> DEFINE v == Top(t).v
             s == Below(t)
  <1>1. /\ InCall(t) /\ file' = file /\ Step(t) /\ Typed
        /\ Top(t).at \in {"rele", "inactive", "drop", "rele_slept", "vget_slept", "gone_slept"}
    BY ReleDoes, InactiveDoes, DropDoes, SleepAgainDoes, ReadyIs DEF Step
  <1>2. Top(t).at \notin CleanLabels /\ Top(t).at \notin LeaveLabels /\ Top(t).at \notin NoVnode
        /\ Top(t).at \notin {"trunc", "ifree"} /\ v \in Vnodes
    BY <1>1 DEF CleanLabels, LeaveLabels, NoVnode, InCall
  <1>3. Mild(t, s) /\ Mild(t, th[t].stack)
    BY <1>1, <1>2, MildMoves
  <1>4. \A at : Fit(t, at) => Mild(t, Top1(t, at))
    BY <1>1, <1>2, MildMoves
  <1> HIDE DEF v, s
  <1>5. CountsOnly(v, vn[v].count - 1) /\ Moves(t, s) => Sound(t)
    <2>1. SUFFICES ASSUME CountsOnly(v, vn[v].count - 1), Moves(t, s) PROVE Sound(t)
      OBVIOUS
    <2>2. CountUp(t)
      BY <1>1, <1>2, <2>1, OwnParts DEF CountsOnly
    <2>3. QED BY <1>1, <1>3, <2>1, <2>2, QuietSound DEF CountsOnly
  <1>6. CASE Rele(t)
    <2>1. Top(t).at = "rele"
      BY <1>1, <1>6, ReleDoes
    <2>2. ~(vn[v].count < 1)
      <3>1. "rele" \in OwnLabels
        BY LabelsAre
      <3>2. Owner(t, v)
        BY <1>1, <2>1, <3>1, TopOwns DEF v
      <3>3. vn[v].count >= Refs(th[t], v) /\ Refs(th[t], v) \in Nat /\ vn[v].count \in Nat
        BY <1>2, CountsAre, ReadyIs
      <3>4. QED BY <3>2, <3>3 DEF Owner
    <2>3. ASSUME vn[v].count = 1, Quiet, NEW at \in {"rele_slept", "inactive"}, Moves(t, Top1(t, at))
          PROVE  Sound(t)
      BY <1>1, <2>1, <2>3, ParkSound DEF v
    <2>4. QED BY <1>1, <1>5, <1>6, <2>2, <2>3, ReleDoes DEF v, s
  <1>7. CASE Inactive(t)
    <2>1. Top(t).at = "inactive" /\ Quiet
      BY <1>1, <1>7, InactiveDoes
    <2>2. Fit(t, "drop") /\ Fit(t, "ufs_inactive") /\ "ufs_inactive" \notin InactLabels
      BY <2>1 DEF Fit, Labels, MakeLabels, Blocked, InactLabels
    <2>3. Mild(t, Over("ufs_inactive", v, Top1(t, "drop")))
      BY <1>1, <1>2, <2>2, MildMoves DEF v
    <2>4. QED BY <1>1, <1>4, <1>7, <2>1, <2>2, <2>3, InactiveDoes, QuietMild DEF v
  <1>8. CASE Drop(t)
    BY <1>1, <1>5, <1>8, DropDoes DEF v, s
  <1>9. CASE SleepAgain(t)
    BY <1>1, <1>3, <1>9, SleepAgainDoes, QuietMild
  <1>10. QED BY <1>6, <1>7, <1>8, <1>9

LEMMA UfsSounds ==
  ASSUME Ready, Typed', NEW t \in Threads, Lives(t),
         UfsInactive(t) \/ Stale(t) \/ Trunc(t) \/ Ifree(t) \/ Last(t) \/ End(t)
  PROVE  Sound(t)
  <1> DEFINE v == Top(t).v
             s == Below(t)
  <1>1. /\ InCall(t) /\ Step(t) /\ Typed
        /\ Top(t).at \in {"ufs_inactive", "stale", "trunc", "ifree", "last", "end"}
    BY UfsInactiveDoes, StaleDoes, TruncDoes, IfreeDoes, LastDoes, EndDoes, ReadyIs DEF Step
  <1>2. Top(t).at \notin CleanLabels /\ Top(t).at \notin LeaveLabels /\ Top(t).at \notin NoVnode
        /\ Top(t).at \in Blocked /\ v \in Vnodes
    BY <1>1 DEF CleanLabels, LeaveLabels, NoVnode, InCall, Blocked, UfsLabels, InactLabels
  <1>3. /\ s \in Seq(Frame) /\ v \in Blocks(t)
        /\ Top(t).at \in InactLabels => v \in Inacting(t) /\ Vs(s, InactLabels) = {}
    BY <1>1, <1>2, CallParts
  <1>4. Mild(t, s)
    BY <1>1, <1>2, MildMoves
  <1> HIDE DEF v, s
  <1>5. CASE UfsInactive(t)
    <2>1. Top(t).at = "ufs_inactive" /\ file' = file
      BY <1>1, <1>5, UfsInactiveDoes
    <2>2. CASE vn[v].read = "error" /\ Gone(t, v, s)
      BY <1>1, <1>2, <1>3, <1>4, <2>1, <2>2, GoneMild
    <2>3. CASE Quiet /\ Moves(t, s)
      BY <1>1, <1>4, <2>1, <2>3, QuietMild
    <2>4. ASSUME vn[v].read # "error", ~vn[v].inactivating, InactOnly(v, TRUE),
                 NEW at \in {"stale", "trunc", "last"}, at = "stale" <=> ModeIsZero(vn[v].ino) \/ ~vn[v].listed,
                 at = "trunc" => file[vn[v].ino] = "unlinked", Moves(t, Top1(t, at))
          PROVE  Sound(t)
      <3>1. at = "trunc" => vn[v].listed /\ file[vn[v].ino] = "unlinked"
        BY <2>4
      <3>2. QED BY <1>1, <2>1, <2>4, <3>1, BeginSound DEF v
    <2>5. QED BY <1>1, <1>5, <2>2, <2>3, <2>4, UfsInactiveDoes DEF v, s
  <1>6. CASE Stale(t)
    <2>1. Top(t).at = "stale" /\ file' = file /\ Gone(t, v, Top1(t, "end"))
      BY <1>1, <1>6, StaleDoes DEF v
    <2>2. Fit(t, "end")
      BY <2>1 DEF Fit, Labels, MakeLabels, Blocked, InactLabels, UfsLabels
    <2>3. Mild(t, Top1(t, "end"))
      BY <1>1, <1>2, <2>2, MildMoves
    <2>4. PICK f \in Frame : f.at = "end" /\ f.v = v /\ Top1(t, "end") = Push(f, s)
      BY <1>1, <2>2, FormsAre DEF Fit, v, s
    <2>5. Push(f, s) \in Seq(Frame) /\ v \in Vs(Push(f, s), {"end"})
      BY <1>3, <2>4, HeadFacts
    <2>6. QED BY <1>1, <1>2, <1>3, <2>1, <2>3, <2>4, <2>5, GoneMild
  <1>7. CASE Trunc(t) \/ Ifree(t)
    BY <1>7, FreeSound
  <1>8. CASE Last(t)
    <2>1. /\ Top(t).at = "last" /\ file' = file /\ InactIs(v, FALSE) /\ SameCounts /\ SameBodies
          /\ \/ SameLocks /\ Moves(t, s)
             \/ /\ vn[v].count = 1 /\ LockIs(v, TRUE)
                /\ \E a \in {"clean", "gone_end"} : Moves(t, Over(a, v, s))
      BY <1>1, <1>8, LastDoes DEF v, s
    <2>2. v \in Inacting(t) /\ Vs(s, InactLabels) = {}
      BY <1>3, <2>1 DEF InactLabels
    <2>3. CASE SameLocks /\ Moves(t, s)
      BY <1>1, <1>4, <2>1, <2>2, <2>3, EndSound
    <2>4. ASSUME vn[v].count = 1, LockIs(v, TRUE), NEW a \in {"clean", "gone_end"}, Moves(t, Over(a, v, s))
          PROVE  Sound(t)
      <3>1. th'[t].stack = Over(a, v, s)
        BY <2>4 DEF Moves
      <3>2. Owner(t, v)
        BY <2>2, BlockedAre, ReadyIs
      <3>3. \A u \in Threads \ {t} : ~Owner(u, v)
        <4>1. \A u \in Threads \ {t} : /\ Refs(th[t], v) \in Nat /\ Refs(th[u], v) \in Nat
                                       /\ vn[v].count >= Refs(th[t], v) + Refs(th[u], v)
          BY <1>2, CountsAre, ReadyIs
        <4>2. QED BY <2>4, <3>2, <4>1 DEF Owner
      <3>4. FileStep(t) /\ WhyStep(t)
        BY <2>1, <2>4, FileParts
      <3>5. SameDatas /\ \E w \in Inacting(t) : InactIs(w, FALSE) /\ w \notin Vs(s, InactLabels)
        BY <2>1, <2>2, SameBodyData
      <3>6. QED BY <1>1, <1>2, <1>3, <1>4, <2>1, <2>4, <3>1, <3>3, <3>4, <3>5, LockSound
    <2>5. QED BY <2>1, <2>3, <2>4
  <1>9. CASE End(t)
    <2>1. Top(t).at = "end" /\ file' = file /\ InactOnly(v, FALSE) /\ Moves(t, s)
      BY <1>1, <1>9, EndDoes DEF v, s
    <2>2. v \in Inacting(t) /\ Vs(s, InactLabels) = {}
      BY <1>3, <2>1 DEF InactLabels
    <2>3. QED BY <1>1, <1>4, <2>1, <2>2, EndSound DEF InactOnly
  <1>10. QED BY <1>5, <1>6, <1>7, <1>8, <1>9

\* The labels of a call that is to clean a vnode
LEMMA ActiveHas ==
  ASSUME NEW s \in Seq(Frame), NEW v, Active(s, v) \/ Unused1(s, v),
         NEW L, L \cap (CallLabels \union {"drop", "end", "dup", "init"}) = {}
  PROVE  Vs(s, L) = {}
  <1>1. L \cap CallLabels = {} /\ "drop" \notin L /\ "end" \notin L /\ "dup" \notin L /\ "init" \notin L
    OBVIOUS
  <1>2. ASSUME NEW q \in Seq(Frame), Dropping(q, v) PROVE Vs(q, L) = {}
    BY <1>1, <1>2, FormVnodes
  <1>3. CASE Unused1(s, v)
    BY <1>1, <1>3, FormVnodes
  <1>4. CASE Dropping(s, v)
    BY <1>2, <1>4
  <1>5. ASSUME Active(s, v), ~Dropping(s, v) PROVE Vs(s, L) = {}
    <2>1. s # Empty /\ Hd(s).at \notin L /\ (Tl(s) = Empty \/ Dropping(Tl(s), v))
      BY <1>1, <1>5 DEF Active
    <2>2. Tl(s) \in Seq(Frame) /\ Vs(s, L) = Vs(Tl(s), L)
      BY <2>1, ConsFacts
    <2>3. QED BY <1>2, <2>1, <2>2, EmptyStack
  <1>6. QED BY <1>3, <1>4, <1>5

\* The inode leaves its chain: it is being cleaned.
LEMMA ReclaimSound ==
  ASSUME Ready, Typed', NEW t \in Threads, Lives(t), Reclaim(t)
  PROVE  Sound(t)
  <1> DEFINE v == Top(t).v
             b == Below(t)
             s == Top1(t, "purge")
  <1>1. /\ InCall(t) /\ Step(t) /\ Typed /\ Top(t).at = "reclaim" /\ file' = file /\ BodiesOnly
        /\ BodyIs(v, vn[v].type, vn[v].ops, vn[v].ino, FALSE, vn[v].listed, vn[v].read)
        /\ Moves(t, s)
    BY ReclaimDoes, ReadyIs DEF Step
  <1>2. v \in Vnodes /\ v \in Cleaning(t)
    <2>1. Top(t).at \in CleanLabels /\ Top(t).at \notin NoVnode
      BY <1>1 DEF CleanLabels, NoVnode
    <2>2. QED BY <1>1, <2>1, CallIsShaped, ReadyIs DEF InCall
  <1>3. Fit(t, "purge") /\ "purge" \in LeaveLabels
    BY <1>1 DEF Fit, Labels, MakeLabels, Blocked, CleanLabels, InactLabels, LeaveLabels
  <1>4. Mild(t, s)
    BY <1>1, <1>3, MildMoves
  <1>5. th'[t].stack = s
    BY <1>1 DEF Moves
  <1>6. /\ b \in Seq(Frame) /\ OnTop(Top(t), b) /\ Makes(t) = Marks(b, MakeLabels)
    BY <1>1, CallParts DEF MakeLabels
  <1>7. v \in Leaves(t)'
    <2>1. PICK f \in Frame : f.at = "purge" /\ f.v = v /\ s = Push(f, b)
      BY <1>1, <1>3, FormsAre DEF Fit
    <2>2. Leaves(t)' = Vs(b, LeaveLabels) \union (IF f.at \in LeaveLabels THEN {f.v} ELSE {})
      BY <1>5, <1>6, <2>1, PushParts
    <2>3. QED BY <1>3, <2>1, <2>2
  <1>8. \A f \in Makes(t) : f.at # "fill"
    <2>1. Active(b, v) \/ Unused1(b, v)
      BY <1>1, <1>6 DEF OnTop, Looks, Releases, Inactivates, CleansUsed, CleansUnused, GivesBack, Reclaims,
                        LookLabels, ReleLabels, UfsLabels, InactLabels
    <2>2. {"fill"} \cap (CallLabels \union {"drop", "end", "dup", "init"}) = {}
      BY DEF CallLabels
    <2>3. Vs(b, {"fill"}) = {}
      BY <1>6, <2>1, <2>2, ActiveHas
    <2>4. QED BY <1>6, <2>3 DEF Vs, Marks
  <1> HIDE DEF s, b, v
  <1>9. /\ vn'[v].read = vn[v].read /\ vn'[v].ino = vn[v].ino /\ vn'[v].listed = vn[v].listed
        /\ vn'[v].hashed = FALSE
        /\ \A w \in Vnodes \ {v} : SameData(w)
    BY <1>1 DEF BodyIs, SameBody, SameData
  <1>10. FileStep(t) /\ WhyStep(t)
    BY <1>1, FileParts
  <1>11. OthersAgree(t) /\ OwnStep(t)
    BY <1>1, OwnParts DEF BodiesOnly
  <1>12. Cleaning(t)' \subseteq Cleaning(t)
    BY <1>1, CleanParts DEF BodiesOnly
  <1>13. /\ Makes(t)' \subseteq Makes(t) /\ EndsBelow(t) \subseteq EndsBelow(t)' /\ Leaves(t) \subseteq Leaves(t)'
         /\ BlockStep(t) /\ FreeStep(t) /\ InactStep(t)
    BY <1>1, <1>4, <1>5, MildParts DEF BodiesOnly
  <1>14. DataStep(t)
    BY <1>2, <1>9 DEF DataStep
  <1>15. KnownAre'
    <2>1. \A w \in Vnodes : vn'[w].hashed => vn[w].hashed /\ vn'[w].ino = vn[w].ino
      BY <1>9 DEF SameData
    <2>2. QED BY <2>1, ReadyIs DEF KnownAre
  <1>16. MakeStep(t)
    <2>1. ASSUME NEW f \in Makes(t)' PROVE Made(f)' /\ \A u \in Threads \ {t} : f.v \notin Blocks(u)
      <3>1. f \in Makes(t) /\ f.v \in Vnodes /\ Made(f) /\ f.at # "fill"
            /\ \A u \in Threads \ {t} : f.v \notin Blocks(u)
        BY <1>8, <1>13, <2>1, BlockedAre, ReadyIs DEF MakersAre
      <3>2. vn'[f.v].hashed = vn[f.v].hashed \/ vn'[f.v].hashed = FALSE
        BY <1>9, <3>1 DEF SameData
      <3>3. vn'[f.v].listed = vn[f.v].listed /\ vn'[f.v].read = vn[f.v].read
        BY <1>9, <3>1 DEF SameData
      <3>4. QED BY <3>1, <3>2, <3>3 DEF Made
    <2>2. QED BY <2>1 DEF MakeStep
  <1>17. ListedAre'
    <2>1. \A u \in Threads : Leaves(u) \subseteq Leaves(u)'
      BY <1>11, <1>13, OthersSame
    <2>2. ASSUME NEW w \in Vnodes, vn'[w].listed
          PROVE  vn'[w].read = "yes" /\ (vn'[w].hashed \/ \E u \in Threads : w \in Leaves(u)')
      <3>1. vn[w].listed /\ vn'[w].read = vn[w].read
        BY <1>9, <2>2 DEF SameData
      <3>2. vn[w].read = "yes" /\ (vn[w].hashed \/ \E u \in Threads : w \in Leaves(u))
        BY <3>1, ReadyIs DEF ListedAre
      <3>3. w # v => vn'[w].hashed = vn[w].hashed
        BY <1>9 DEF SameData
      <3>4. QED BY <1>7, <2>1, <3>1, <3>2, <3>3
    <2>3. QED BY <2>2 DEF ListedAre
  <1>18. CleanStep(t)
    <2>1. \A w \in Vnodes : vn'[w].read = vn[w].read
      BY <1>9 DEF SameData
    <2>2. Cleaning(t) \subseteq Vnodes /\ CleansAre
      BY CleaningVnodes, ReadyIs
    <2>3. QED BY <1>12, <1>13, <2>1, <2>2 DEF CleanStep, CleansAre
  <1>19. QED BY <1>10, <1>11, <1>13, <1>14, <1>15, <1>16, <1>17, <1>18 DEF Sound

\* The vnode is bad and leaves its list, and the lock is given up.
LEMMA GoneEndSound ==
  ASSUME Ready, Typed', NEW t \in Threads, Lives(t), GoneEnd(t)
  PROVE  Sound(t)
  <1> DEFINE v == Top(t).v
             b == Below(t)
  <1>1. /\ InCall(t) /\ Step(t) /\ Typed /\ Top(t).at = "gone_end" /\ file' = file
        /\ SameCounts /\ SameInacts /\ LockIs(v, FALSE)
        /\ BodyIs(v, "bad", vn[v].ops, vn[v].ino, vn[v].hashed, FALSE, vn[v].read)
        /\ Moves(t, b)
    BY GoneEndDoes, ReadyIs DEF Step
  <1>2. v \in Vnodes /\ v \in Cleaning(t) /\ Vs(b, CleanLabels) = {}
    <2>1. Top(t).at \in CleanLabels /\ Top(t).at \notin NoVnode
      BY <1>1 DEF CleanLabels, NoVnode
    <2>2. QED BY <1>1, <2>1, CallIsShaped, ReadyIs DEF InCall
  <1>3. th'[t].stack = b
    BY <1>1 DEF Moves
  <1>4. /\ b \in Seq(Frame) /\ OnTop(Top(t), b) /\ Makes(t) = Marks(b, MakeLabels)
        /\ Inacting(t) = Vs(b, InactLabels) /\ Vs(b, Blocked) \subseteq Blocks(t)
        /\ Leaves(t) = Vs(b, LeaveLabels) \union {v}
    BY <1>1, CallParts DEF MakeLabels, InactLabels, LeaveLabels
  <1>5. b # Empty => /\ Hd(b).at \notin {"trunc", "ifree"}
                     /\ Hd(b).at \in InactLabels => Vs(Tl(b), InactLabels) = {}
    BY <1>1, <1>4, UnderTop DEF InCall
  <1> HIDE DEF b, v
  <1>6. /\ Inacting(t)' = Vs(b, InactLabels) /\ Blocks(t)' = Vs(b, Blocked)
        /\ Makes(t)' = Marks(b, MakeLabels) /\ Leaves(t)' = Vs(b, LeaveLabels)
        /\ Cleaning(t)' = Vs(b, CleanLabels)
        /\ Frees(t)' <=> b # Empty /\ Hd(b).at \in {"trunc", "ifree"}
    BY <1>3 DEF Inacting, Blocks, Makes, Leaves, Cleaning, Frees, Vs, Marks, Frames, Hd, Empty
  <1>7. TopInacts(th'[t].stack)
    BY <1>3, <1>5 DEF TopInacts
  <1>8. InactStep(t)
    BY <1>1, <1>4, <1>6, <1>7, InactParts
  <1>9. BlockStep(t) /\ FreeStep(t) /\ CleanStep(t)
    BY <1>2, <1>4, <1>5, <1>6 DEF BlockStep, FreeStep, CleanStep
  <1>10. /\ vn'[v].read = vn[v].read /\ vn'[v].ino = vn[v].ino /\ vn'[v].listed = FALSE
         /\ vn'[v].hashed = vn[v].hashed
         /\ \A w \in Vnodes \ {v} : SameData(w)
    BY <1>1 DEF BodyIs, SameBody, SameData
  <1>11. FileStep(t) /\ WhyStep(t)
    BY <1>1, FileParts
  <1>12. OthersAgree(t) /\ OwnStep(t)
    BY <1>1, OwnParts
  <1>13. DataStep(t)
    BY <1>2, <1>10 DEF DataStep
  <1>14. KnownAre'
    <2>1. \A w \in Vnodes : vn'[w].hashed = vn[w].hashed /\ vn'[w].ino = vn[w].ino
      BY <1>10 DEF SameData
    <2>2. QED BY <2>1, ReadyIs DEF KnownAre
  <1>15. MakeStep(t)
    <2>1. ASSUME NEW f \in Makes(t)' PROVE Made(f)' /\ \A u \in Threads \ {t} : f.v \notin Blocks(u)
      <3>1. f \in Makes(t) /\ f.v \in Vnodes /\ Made(f) /\ \A u \in Threads \ {t} : f.v \notin Blocks(u)
        BY <1>4, <1>6, <2>1, BlockedAre, ReadyIs DEF MakersAre
      <3>2. /\ vn'[f.v].hashed = vn[f.v].hashed /\ vn'[f.v].read = vn[f.v].read
            /\ vn'[f.v].listed = vn[f.v].listed \/ vn'[f.v].listed = FALSE
        BY <1>10, <3>1 DEF SameData
      <3>3. QED BY <3>1, <3>2 DEF Made
    <2>2. QED BY <2>1 DEF MakeStep
  <1>16. ListedAre'
    <2>1. \A u \in Threads \ {t} : Leaves(u)' = Leaves(u)
      BY <1>12, OthersSame
    <2>2. ASSUME NEW w \in Vnodes, vn'[w].listed
          PROVE  vn'[w].read = "yes" /\ (vn'[w].hashed \/ \E u \in Threads : w \in Leaves(u)')
      <3>1. w # v
        BY <1>10, <2>2
      <3>2. vn[w].listed /\ vn'[w].read = vn[w].read /\ vn'[w].hashed = vn[w].hashed
        BY <1>10, <2>2, <3>1 DEF SameData
      <3>3. vn[w].read = "yes" /\ (vn[w].hashed \/ \E u \in Threads : w \in Leaves(u))
        BY <3>2, ReadyIs DEF ListedAre
      <3>4. \A u \in Threads : w \in Leaves(u) => w \in Leaves(u)'
        BY <1>4, <1>6, <2>1, <3>1
      <3>5. QED BY <3>2, <3>3, <3>4
    <2>3. QED BY <2>2 DEF ListedAre
  <1>17. QED BY <1>8, <1>9, <1>11, <1>12, <1>13, <1>14, <1>15, <1>16 DEF Sound

LEMMA CleanSounds ==
  ASSUME Ready, Typed', NEW t \in Threads, Lives(t),
         Clean(t) \/ Dead(t) \/ Reclaim(t) \/ Purge(t) \/ GoneEnd(t) \/ GoneSlept(t)
  PROVE  Sound(t)
  <1> DEFINE v == Top(t).v
             s == Below(t)
  <1>1. /\ InCall(t) /\ Step(t) /\ Typed
        /\ Top(t).at \in {"clean", "dead", "reclaim", "purge", "gone_end", "gone_slept"}
    BY CleanDoes, DeadDoes, ReclaimDoes, PurgeDoes, GoneEndDoes, GoneSleptDoes, ReadyIs DEF Step
  <1>2. v \in Vnodes
    BY <1>1 DEF NoVnode, InCall
  <1> HIDE DEF v, s
  <1>3. CASE Clean(t)
    <2>1. Top(t).at = "clean" /\ file' = file
      BY <1>1, <1>3, CleanDoes
    <2>2. PICK n \in Int, b \in BOOLEAN : TakesRef(t, v, n, b)
      BY <1>1, <1>3, CleanDoes DEF v
    <2>3. CountsOnly(v, n) /\ Moves(t, Push(Fr("dead", v, b), s))
      BY <2>2 DEF TakesRef, s
    <2>4. Fit(t, "dead") /\ Top(t).at \notin LeaveLabels /\ Top(t).at \in CleanLabels
      BY <2>1 DEF Fit, Labels, MakeLabels, Blocked, InactLabels, LeaveLabels, CleanLabels
    <2>5. Mild(t, Push(Fr("dead", v, b), s))
      <3>1. \A at \in Labels, c \in BOOLEAN :
              Fit(t, at) /\ Top(t).at \notin LeaveLabels /\ Top(t).v \in Vnodes
              => Mild(t, Push(Fr(at, Top(t).v, c), Below(t)))
        BY <1>1, MildMoves
      <3>2. \A c \in BOOLEAN : Mild(t, Push(Fr("dead", Top(t).v, c), Below(t)))
        BY <1>2, <2>4, <3>1 DEF v, Fit
      <3>3. QED BY <3>2 DEF v, s
    <2>6. v \in Cleaning(t)
      BY <1>1, <2>4, CallIsShaped, ReadyIs DEF v
    <2>7. CountUp(t)
      <3>1. \A m : CountIs(v, m) /\ v \in Cleaning(t) => CountUp(t)
        BY <1>1, <1>2, OwnParts
      <3>2. QED BY <2>3, <2>6, <3>1 DEF CountsOnly
    <2>8. QED BY <1>1, <2>1, <2>3, <2>5, <2>7, QuietSound DEF CountsOnly
  <1>4. CASE Dead(t)
    <2>1. /\ BodiesOnly /\ BodyIs(v, vn[v].type, "dead", vn[v].ino, vn[v].hashed, vn[v].listed, vn[v].read)
          /\ Top(t).at = "dead" /\ file' = file
      BY <1>1, <1>4, DeadDoes DEF v
    <2>2. /\ Fit(t, "reclaim") /\ Fit(t, "ufs_inactive") /\ "ufs_inactive" \notin InactLabels
          /\ Top(t).at \notin LeaveLabels
      BY <2>1 DEF Fit, Labels, MakeLabels, Blocked, InactLabels, UfsLabels, LeaveLabels, CleanLabels
    <2>3. Mild(t, Top1(t, "reclaim")) /\ Mild(t, Over("ufs_inactive", v, Top1(t, "reclaim")))
      BY <1>1, <1>2, <2>2, MildMoves DEF v
    <2>4. PICK x : Moves(t, x) /\ Mild(t, x)
      BY <1>1, <1>4, <2>3, DeadDoes DEF v
    <2>5. SameDatas
      BY <2>1 DEF BodyIs, SameBody, SameDatas, SameData
    <2>6. CountUp(t)
      BY <1>1, <2>1, OwnParts DEF BodiesOnly
    <2>7. FileStep(t) /\ WhyStep(t)
      BY <2>1, <2>4, FileParts
    <2>8. th'[t].stack = x
      BY <2>4 DEF Moves
    <2>9. QED BY <1>1, <2>1, <2>4, <2>5, <2>6, <2>7, <2>8, MildSound DEF BodiesOnly
  <1>5. CASE Purge(t)
    <2>1. Quiet /\ Top(t).at = "purge" /\ file' = file
      BY <1>1, <1>5, PurgeDoes
    <2>2. /\ Fit(t, "gone_end") /\ Fit(t, "rele") /\ "rele" \notin InactLabels /\ "gone_end" \in LeaveLabels
      BY <2>1 DEF Fit, Labels, MakeLabels, Blocked, InactLabels, UfsLabels, LeaveLabels, CleanLabels
    <2>3. Mild(t, Top1(t, "gone_end")) /\ Mild(t, Over("rele", v, Top1(t, "gone_end")))
      BY <1>1, <1>2, <2>2, MildMoves DEF v
    <2>4. QED BY <1>1, <1>5, <2>1, <2>3, PurgeDoes, QuietMild DEF v
  <1>6. CASE GoneSlept(t)
    <2>1. Quiet /\ Top(t).at = "gone_slept" /\ file' = file /\ Moves(t, s)
      BY <1>1, <1>6, GoneSleptDoes DEF s
    <2>2. Top(t).at \notin CleanLabels
      BY <2>1 DEF CleanLabels
    <2>3. Mild(t, s)
      BY <1>1, <2>2, MildMoves DEF s
    <2>4. QED BY <1>1, <2>1, <2>3, QuietMild
  <1>7. QED BY <1>3, <1>4, <1>5, <1>6, ReclaimSound, GoneEndSound

\* Lookups, until a vnode is made
LEMMA LooseIs ==
  /\ {"cached", "check", "scan", "get", "vget", "vget_slept", "got", "got_slept", "event", "have",
      "new", "init", "fail", "rele", "gone_slept"} \subseteq Loose
  /\ \A t, at : at \in Loose => Fit(t, at)
  /\ \A at \in Loose : at \notin InactLabels
  <1>1. {"cached", "check", "scan", "get", "vget", "vget_slept", "got", "got_slept", "event", "have",
         "new", "init", "fail", "rele", "gone_slept"} \subseteq Loose
    BY DEF Loose, Labels, Blocked, MakeLabels, UfsLabels, InactLabels, CleanLabels
  <1>2. MakeLabels \subseteq Blocked /\ InactLabels \subseteq Blocked /\ {"trunc", "ifree"} \subseteq InactLabels
    BY LabelSets DEF InactLabels
  <1>3. QED BY <1>1, <1>2 DEF Fit, Loose

LEMMA LookFits ==
  ASSUME Ready, NEW t \in Threads, InCall(t), Top(t).at \in LookLabels \union {"gone_slept"}
  PROVE  /\ Mild(t, Below(t))
         /\ \A at \in Loose : Mild(t, Top1(t, at))
         /\ \A at \in Loose, v \in Vnodes \union {None}, b \in BOOLEAN : Mild(t, Push(Fr(at, v, b), Below(t)))
         /\ \A at \in Loose, v, w \in Vnodes \union {None}, b \in BOOLEAN :
              Mild(t, Over("rele", w, Push(Fr(at, v, b), Below(t))))
         /\ \A w \in Vnodes \union {None} : Mild(t, Over("rele", w, Below(t)))
         /\ \A at \in Loose : Top(t).v \in Vnodes => Mild(t, Over("rele", Top(t).v, Top1(t, at)))
         /\ Top(t).at \in LookLabels => Below(t) = <<>>
  <1>1. Top(t).at \notin CleanLabels /\ Top(t).at \notin LeaveLabels
    BY DEF LookLabels, CleanLabels, LeaveLabels
  <1>2. "rele" \in Loose /\ \A at \in Loose : Fit(t, at) /\ at \notin InactLabels
    BY LooseIs
  <1>3. /\ Mild(t, Below(t))
        /\ \A at : Fit(t, at) => Mild(t, Top1(t, at))
        /\ \A at \in Loose, v \in Vnodes \union {None}, b \in BOOLEAN : Mild(t, Push(Fr(at, v, b), Below(t)))
        /\ \A w \in Vnodes \union {None} : Mild(t, Over("rele", w, Below(t)))
        /\ \A a, at : /\ Fit(t, a) /\ a \notin InactLabels /\ Top(t).v \in Vnodes
                      /\ Fit(t, at)
                      => Mild(t, Over(a, Top(t).v, Top1(t, at)))
    BY <1>1, <1>2, MildMoves
  <1>4. \A at, a \in Loose, v, w \in Vnodes \union {None}, b \in BOOLEAN :
          Mild(t, Over(a, w, Push(Fr(at, v, b), Below(t))))
    BY <1>1, MildMoves
  <1>5. \A at \in Loose, v, w \in Vnodes \union {None}, b \in BOOLEAN :
          Mild(t, Over("rele", w, Push(Fr(at, v, b), Below(t))))
    BY <1>2, <1>4
  <1>6. Top(t).at \in LookLabels => Below(t) = <<>>
    BY DEF InCall
  <1>7. QED BY <1>2, <1>3, <1>5, <1>6

LEMMA LookSounds ==
  ASSUME Ready, Typed', NEW t \in Threads, Lives(t),
         \/ Cached(t) \/ Check(t) \/ Scan(t) \/ Get(t) \/ Vget(t) \/ VgetSlept(t) \/ Got(t)
         \/ GotSlept(t) \/ Event(t) \/ Dup(t)
  PROVE  Sound(t)
  <1> DEFINE v == Top(t).v
             s == Below(t)
  <1>1. /\ InCall(t) /\ Step(t) /\ Typed /\ file' = file
        /\ Top(t).at \in {"cached", "check", "scan", "get", "vget", "vget_slept", "got",
                            "got_slept", "event", "dup"}
    BY CachedDoes, CheckDoes, ScanDoes, GetDoes, VgetDoes, VgetSleptDoes, GotDoes, GotSleptDoes,
       EventDoes, DupDoes, ReadyIs DEF Step
  <1>2. /\ v \in Vnodes \union {None} /\ Top(t).flag \in BOOLEAN
        /\ Top(t).at \notin {"scan", "get"} => v \in Vnodes
        /\ Top(t).at \in LookLabels
    BY <1>1 DEF InCall, NoVnode, LookLabels
  <1>3. /\ Mild(t, s)
        /\ \A at \in Loose : Mild(t, Top1(t, at))
        /\ \A at \in Loose, w \in Vnodes \union {None}, b \in BOOLEAN : Mild(t, Push(Fr(at, w, b), s))
        /\ \A at \in Loose, w, x \in Vnodes \union {None}, b \in BOOLEAN :
              Mild(t, Over("rele", x, Push(Fr(at, w, b), s)))
        /\ \A at \in Loose : v \in Vnodes => Mild(t, Over("rele", v, Top1(t, at)))
    BY <1>1, <1>2, LookFits
  <1> HIDE DEF v, s
  <1>4. \A x : Quiet /\ Moves(t, x) /\ Mild(t, x) => Sound(t)
    BY <1>1, QuietMild
  <1>5. \A x : \A w \in Vnodes : ~vn[w].xlock /\ Gets(w) /\ Moves(t, x) /\ Mild(t, x) => Sound(t)
    BY <1>1, GetsMild
  <1>6. CASE Cached(t)
    <2>1. v \in Vnodes
      BY <1>1, <1>2, <1>6, CachedDoes
    <2>2. Mild(t, Top1(t, "check")) /\ Mild(t, Top1(t, "scan"))
      BY <1>3, LooseIs
    <2>3. QED BY <1>1, <1>4, <1>5, <1>6, <2>1, <2>2, CachedDoes DEF v
  <1>7. CASE Check(t)
    <2>1. v \in Vnodes
      BY <1>1, <1>2, <1>7, CheckDoes
    <2>2. Mild(t, Over("rele", v, Top1(t, "scan")))
      BY <1>3, <2>1, LooseIs
    <2>3. Mild(t, Push(Fr("got", v, TRUE), s))
      <3>1. \A b \in BOOLEAN : Mild(t, Push(Fr("got", v, b), s))
        BY <1>2, <1>3, LooseIs
      <3>2. QED BY <3>1
    <2>4. Quiet /\ (Moves(t, Push(Fr("got", v, TRUE), s)) \/ Moves(t, Over("rele", v, Top1(t, "scan"))))
      BY <1>1, <1>7, CheckDoes DEF v, s
    <2>5. CASE Moves(t, Push(Fr("got", v, TRUE), s))
      <3> DEFINE x == Push(Fr("got", v, TRUE), s)
      <3>1. Moves(t, x) /\ Mild(t, x)
        BY <2>3, <2>5
      <3> HIDE DEF x
      <3>2. QED BY <1>4, <2>4, <3>1
    <2>6. CASE Moves(t, Over("rele", v, Top1(t, "scan")))
      BY <1>4, <2>2, <2>4, <2>6
    <2>7. QED BY <2>4, <2>5, <2>6
  <1>8. CASE Scan(t)
    <2>1. Mild(t, Top1(t, "get"))
      BY <1>3, LooseIs
    <2>2. QED BY <1>1, <1>3, <1>4, <1>8, <2>1, ScanDoes DEF s
  <1>9. CASE Get(t)
    <2>1. \A w \in Vnodes : /\ Mild(t, Push(Fr("vget", w, Top(t).flag), s))
                            /\ Mild(t, Push(Fr("got", w, Top(t).flag), s))
      BY <1>2, <1>3, LooseIs
    <2>2. Mild(t, Top1(t, "new"))
      BY <1>3, LooseIs
    <2>3. InHash(th[t].i) \subseteq Vnodes
      BY DEF InHash
    <2>4. \/ Quiet /\ \E w \in Vnodes : Moves(t, Push(Fr("vget", w, Top(t).flag), s))
          \/ \E w \in Vnodes : ~vn[w].xlock /\ Gets(w) /\ Moves(t, Push(Fr("got", w, Top(t).flag), s))
          \/ Quiet /\ Moves(t, Top1(t, "new"))
      BY <1>1, <1>9, <2>3, GetDoes DEF s
    <2>5. QED BY <1>4, <1>5, <2>1, <2>2, <2>4
  <1>10. CASE Vget(t)
    <2>1. v \in Vnodes
      BY <1>1, <1>2, <1>10, VgetDoes
    <2>2. Mild(t, Top1(t, "vget_slept")) /\ Mild(t, Over("rele", v, Top1(t, "get")))
      BY <1>3, <2>1, LooseIs
    <2>3. QED BY <1>1, <1>4, <1>5, <1>10, <2>1, <2>2, VgetDoes DEF v
  <1>11. CASE VgetSlept(t)
    <2>1. Mild(t, Top1(t, "get"))
      BY <1>3, LooseIs
    <2>2. QED BY <1>1, <1>4, <1>11, <2>1, VgetSleptDoes
  <1>12. CASE Got(t)
    <2>1. Mild(t, Top1(t, "got_slept")) /\ Mild(t, Top1(t, "event"))
      BY <1>3, LooseIs
    <2>2. QED BY <1>1, <1>4, <1>12, <2>1, GotDoes
  <1>13. CASE GotSlept(t)
    <2>1. /\ Quiet /\ WhyKept(t)
          /\ \E at \in {"get", "scan", "cached"}, w \in Vnodes \union {None} :
                th'[t].stack = Over("rele", v, Push(Fr(at, w, FALSE), s))
      BY <1>1, <1>13, GotSleptDoes DEF v, s, WhyKept
    <2>2. PICK at \in {"get", "scan", "cached"}, w \in Vnodes \union {None} :
             th'[t].stack = Over("rele", v, Push(Fr(at, w, FALSE), s))
      BY <2>1
    <2>3. Mild(t, Over("rele", v, Push(Fr(at, w, FALSE), s)))
      <3>1. at \in Loose
        BY LooseIs
      <3>2. \A b \in BOOLEAN : Mild(t, Over("rele", v, Push(Fr(at, w, b), s)))
        BY <1>2, <1>3, <3>1
      <3>3. QED BY <3>2
    <2>4. PICK x : th'[t].stack = x /\ Mild(t, x)
      BY <2>2, <2>3
    <2>5. CountUp(t)
      BY <1>1, <2>1, OwnParts DEF Quiet
    <2>6. FileStep(t) /\ WhyStep(t)
      BY <1>1, <2>1, FileParts
    <2>7. QED BY <1>1, <2>1, <2>4, <2>5, <2>6, MildSound, SameBodyData DEF Quiet
  <1>14. CASE Event(t)
    <2>1. v \in Vnodes
      BY <1>1, <1>2, <1>14, EventDoes
    <2>2. Mild(t, Top1(t, "have")) /\ Mild(t, Over("rele", v, Top1(t, "fail")))
      BY <1>3, <2>1, LooseIs
    <2>3. QED BY <1>1, <1>4, <1>14, <2>1, <2>2, EventDoes DEF v
  <1>15. CASE Dup(t)
    <2>1. v \in Vnodes
      BY <1>1, <1>2, <1>15, DupDoes
    <2>2. Mild(t, Over("rele", v, Top1(t, "get")))
      BY <1>3, <2>1, LooseIs
    <2>3. QED BY <1>1, <1>4, <1>15, <2>1, <2>2, DupDoes DEF v
  <1>16. QED BY <1>6, <1>7, <1>8, <1>9, <1>10, <1>11, <1>12, <1>13, <1>14, <1>15

\* The caller has the inode, or none.
LEMMA EndSounds ==
  ASSUME Ready, Typed', NEW t \in Threads, Lives(t), Have(t) \/ Fail(t)
  PROVE  Sound(t)
  <1> DEFINE v == Top(t).v
             s == Below(t)
             i == th[t].i
  <1>1. /\ InCall(t) /\ Step(t) /\ Typed /\ Top(t).at \in {"have", "fail"} /\ Top(t).at \in LookLabels
    BY HaveDoes, FailDoes, ReadyIs DEF Step, LookLabels
  <1>2. s = <<>> /\ Mild(t, s) /\ i \in Inos
    BY <1>1, LookFits DEF InCall
  <1>3. ASSUME th'[t].why = "other", th'[t].stack = s, SameInacts, SameLocks, SameDatas, SameCounts,
               file' = file \/ (th[t].why = "create" /\ \E k : file' = [file EXCEPT ![i] = k])
        PROVE  Sound(t)
    <2>1. CountUp(t)
      BY <1>1, <1>3, OwnParts
    <2>2. FileStep(t)
      BY <1>1, <1>2, <1>3 DEF FileStep, Typed
    <2>3. WhyStep(t)
      BY <1>3 DEF WhyStep
    <2>4. QED BY <1>1, <1>2, <1>3, <2>1, <2>2, <2>3, MildSound
  <1>4. CASE Have(t)
    <2>1. Top(t).at = "have" /\ v \in Vnodes
      BY <1>1, <1>4, HaveDoes DEF InCall, NoVnode
    <2>2. Mild(t, Over("rele", v, Below(t))) /\ Mild(t, Over("rele", v, Top1(t, "scan")))
      BY <1>1, <2>1, LookFits, LooseIs
    <2>3. CASE Quiet /\ file' = file /\ \/ Moves(t, Over("rele", v, Top1(t, "scan")))
                                        \/ Moves(t, Over("rele", v, Below(t)))
      BY <1>1, <2>2, <2>3, QuietMild
    <2>4. CASE Quiet /\ file' = file /\ Keeps(t)
      BY <1>2, <1>3, <2>4, SameBodyData DEF Keeps, Quiet
    <2>5. CASE /\ th[t].why = "create" /\ file' = [file EXCEPT ![i] = "linked"] /\ BodiesOnly /\ Keeps(t)
               /\ BodyIs(v, "reg", vn[v].ops, vn[v].ino, vn[v].hashed, vn[v].listed, vn[v].read)
      <3>1. SameDatas
        BY <2>5 DEF BodyIs, SameBody, SameDatas, SameData
      <3>2. QED BY <1>2, <1>3, <2>5, <3>1 DEF Keeps, BodiesOnly
    <2>6. QED BY <1>1, <1>4, <2>3, <2>4, <2>5, HaveDoes
  <1>5. CASE Fail(t)
    <2>1. /\ Quiet /\ file' = IF th[t].why = "create" THEN [file EXCEPT ![i] = "free"] ELSE file
          /\ Moves(t, s)
      BY <1>1, <1>5, FailDoes
    <2>2. th'[t].why = "other"
      <3>1. th[t] \in ThreadRecord /\ th[t].stack # <<>> /\ th \in [Threads -> ThreadRecord]
        BY <1>1 DEF InCall, Typed
      <3>2. th'[t] = Return(th[t])
        BY <1>5, <3>1 DEF Fail, Does
      <3>3. Tail(th[t].stack) = <<>>
        BY <1>2 DEF Below
      <3>4. QED BY <3>1, <3>2, <3>3, ReturnIs
    <2>3. th'[t].stack = s
      BY <2>1 DEF Moves
    <2>4. QED BY <1>3, <2>1, <2>2, <2>3, SameBodyData DEF Quiet
  <1>6. QED BY <1>4, <1>5

\* A vnode is made: nobody else has got to it.
LEMMA NobodyHas ==
  ASSUME Ready, NEW v \in Vnodes, vn[v].count = 0
  PROVE  \A u \in Threads : ~Owner(u, v)
  <1>1. \A u \in Threads : Refs(th[u], v) \in Nat /\ vn[v].count >= Refs(th[u], v)
    BY CountsAre, ReadyIs
  <1>2. QED BY <1>1 DEF Owner

LEMMA LookHas ==
  ASSUME Ready, NEW t \in Threads, InCall(t), Top(t).at \in LookLabels
  PROVE  Below(t) = Empty /\ Cleaning(t) = {} /\ Leaves(t) = {}
  <1>1. Below(t) = Empty /\ Cleaning(t) = {}
    BY CallIsShaped, ReadyIs
  <1>2. Leaves(t) \subseteq Cleaning(t)
    BY LabelSets DEF Leaves, Cleaning, Vs, Marks
  <1>3. QED BY <1>1, <1>2

LEMMA MakeSound ==
  ASSUME Ready, Typed', NEW t \in Threads, Step(t), Lives(t), InCall(t), Top(t).at \in LookLabels,
         NEW v \in Vnodes, NEW s, Moves(t, s), file' = file, CountUp(t),
         s # Empty => Hd(s).at \notin InactLabels,
         Vs(s, InactLabels) = {}, Vs(s, Blocked) \subseteq {v},
         \A f \in Marks(s, MakeLabels) : f.v = v /\ Made(f)',
         \/ Top(t).at \in MakeLabels /\ Top(t).v = v
         \/ ~vn[v].xlock /\ \A u \in Threads : ~Owner(u, v),
         Vs(s, CleanLabels) = {} \/ (Vs(s, CleanLabels) \subseteq {v} /\ vn'[v].read = "error"),
         \A w \in Vnodes \ {v} : SameData(w) /\ vn'[w].inactivating = vn[w].inactivating,
         vn'[v].listed => vn'[v].read = "yes" /\ vn'[v].hashed,
         vn'[v].hashed => vn'[v].ino \in Inos
  PROVE  Sound(t)
  <1>1. /\ Inacting(t)' = {} /\ Blocks(t)' = Vs(s, Blocked) /\ Makes(t)' = Marks(s, MakeLabels)
        /\ Cleaning(t)' = Vs(s, CleanLabels) /\ TopInacts(th'[t].stack) /\ ~Frees(t)'
    <2>1. th'[t].stack = s
      BY DEF Moves
    <2>2. {"trunc", "ifree"} \subseteq InactLabels
      BY DEF InactLabels
    <2>3. QED BY <2>1, <2>2 DEF Inacting, Blocks, Makes, Cleaning, Frees, TopInacts, Vs, Marks, Frames, Hd, Empty
  <1>2. Top(t).at \in MakeLabels => Top(t) \in Makes(t)
    <2>1. Makes(t) = Marks(Below(t), MakeLabels)
                       \union (IF Top(t).at \in MakeLabels THEN {Top(t)} ELSE {})
      BY CallParts
    <2>2. QED BY <2>1
  <1>3. \A u \in Threads \ {t} : v \notin Blocks(u)
    <2>1. CASE Top(t).at \in MakeLabels /\ Top(t).v = v
      BY <1>2, <2>1, ReadyIs DEF MakersAre
    <2>2. CASE ~vn[v].xlock /\ \A u \in Threads : ~Owner(u, v)
      BY <2>2, BlockedAre, ReadyIs DEF LocksAre
    <2>3. QED BY <2>1, <2>2
  <1>4. \A u \in Threads \ {t} : Inacting(u) \subseteq Blocks(u)
    BY BlockedAre, ReadyIs
  <1>5. InactStep(t)
    BY <1>1, <1>3, <1>4 DEF InactStep
  <1>6. BlockStep(t)
    <2>1. CASE Top(t).at \in MakeLabels /\ Top(t).v = v
      <3>1. v \in Blocks(t)
        BY <1>2, <2>1, BlockedAre, ReadyIs
      <3>2. QED BY <1>1, <3>1 DEF BlockStep
    <2>2. CASE \A u \in Threads : ~Owner(u, v)
      BY <1>1, <2>2 DEF BlockStep
    <2>3. QED BY <2>1, <2>2
  <1>7. MakeStep(t)
    BY <1>1, <1>3 DEF MakeStep
  <1>8. DataStep(t)
    <2>1. CASE Top(t).at \in MakeLabels /\ Top(t).v = v
      BY <1>2, <2>1 DEF DataStep
    <2>2. CASE ~vn[v].xlock /\ \A u \in Threads : ~Owner(u, v)
      BY <2>2 DEF DataStep
    <2>3. QED BY <2>1, <2>2
  <1>9. OthersAgree(t) /\ OwnStep(t)
    BY OwnParts
  <1>10. CleanStep(t)
    BY <1>1 DEF CleanStep
  <1>11. FileStep(t) /\ WhyStep(t)
    BY FileParts
  <1>12. FreeStep(t)
    BY <1>1 DEF FreeStep
  <1>13. ListedAre'
    <2>1. \A u \in Threads \ {t} : Leaves(u)' = Leaves(u)
      BY <1>9, OthersSame
    <2>2. Leaves(t) = {}
      BY LookHas
    <2>3. ASSUME NEW w \in Vnodes, vn'[w].listed
          PROVE  vn'[w].read = "yes" /\ (vn'[w].hashed \/ \E u \in Threads : w \in Leaves(u)')
      <3>1. CASE w = v
        BY <2>3, <3>1
      <3>2. CASE w # v
        <4>1. vn[w].listed /\ vn'[w].read = vn[w].read /\ vn'[w].hashed = vn[w].hashed
          BY <2>3, <3>2 DEF SameData
        <4>2. vn[w].read = "yes" /\ (vn[w].hashed \/ \E u \in Threads : w \in Leaves(u))
          BY <4>1, ReadyIs DEF ListedAre
        <4>3. QED BY <2>1, <2>2, <4>1, <4>2
      <3>3. QED BY <3>1, <3>2
    <2>4. QED BY <2>3 DEF ListedAre
  <1>14. KnownAre'
    <2>1. ASSUME NEW w \in Vnodes, vn'[w].hashed PROVE vn'[w].ino \in Inos
      <3>1. w # v => vn[w].hashed /\ vn'[w].ino = vn[w].ino
        BY <2>1 DEF SameData
      <3>2. QED BY <2>1, <3>1, ReadyIs DEF KnownAre
    <2>2. QED BY <2>1 DEF KnownAre
  <1>15. QED BY <1>5, <1>6, <1>7, <1>8, <1>9, <1>10, <1>11, <1>12, <1>13, <1>14 DEF Sound

\* The stacks of a lookup
LEMMA LookStacks ==
  ASSUME Ready, NEW t \in Threads, InCall(t), Top(t).at \in LookLabels, NEW at \in Labels
  PROVE  LET s == Top1(t, at)
         IN  /\ s \in Seq(Frame) /\ s # Empty /\ Hd(s).at = at
             /\ \A L : Vs(s, L) \subseteq {Top(t).v} /\ (at \notin L => Vs(s, L) = {})
             /\ \A L : \A f \in Marks(s, L) : f.at = at /\ f.v = Top(t).v
  <1> DEFINE s == Top1(t, at)
             v == Top(t).v
  <1>1. PICK f \in Frame : f.at = at /\ f.v = v /\ s = Push(f, Below(t))
    BY FormsAre
  <1>2. Below(t) = Empty
    BY LookHas
  <1>3. s = Push(f, Empty) /\ Empty \in Seq(Frame) /\ \A L : Vs(Empty, L) = {}
    BY <1>1, <1>2, EmptyStack
  <1> HIDE DEF s, v
  <1>4. /\ s \in Seq(Frame) /\ s # Empty /\ Hd(s) = f
        /\ \A L : f.at \in L => Vs(s, L) = {f.v}
        /\ \A L : f.at \notin L => Vs(s, L) = {}
    BY <1>3, HeadFacts
  <1>5. ASSUME NEW L, NEW g \in Marks(s, L) PROVE g.at = at /\ g.v = v
    <2>1. Frames(s) = {f} \union Frames(<<>>) /\ Frames(<<>>) = {}
      BY <1>3, PushFrame, FramesInSet DEF Empty
    <2>2. QED BY <1>1, <2>1 DEF Marks
  <1>6. \A L : Vs(s, L) \subseteq {v} /\ (at \notin L => Vs(s, L) = {})
    BY <1>1, <1>4
  <1>7. QED BY <1>1, <1>4, <1>5, <1>6 DEF s, v

LEMMA LookOvers ==
  ASSUME Ready, NEW t \in Threads, InCall(t), Top(t).at \in LookLabels, Top(t).v \in Vnodes,
         NEW at \in Labels, NEW a \in Labels
  PROVE  LET s == Top1(t, at)
             x == Over(a, Top(t).v, s)
         IN  /\ x # Empty /\ Hd(x).at = a
             /\ \A L : Vs(x, L) \subseteq {Top(t).v} /\ (a \notin L => Vs(x, L) = Vs(s, L))
             /\ \A L : a \notin L => Marks(x, L) = Marks(s, L)
  <1> DEFINE s == Top1(t, at)
             v == Top(t).v
             x == Over(a, v, s)
  <1>1. s \in Seq(Frame) /\ \A L : Vs(s, L) \subseteq {v}
    BY LookStacks
  <1>2. PICK g \in Frame : g.at = a /\ g.v = v /\ x = Push(g, s)
    BY OverIs
  <1> HIDE DEF s, x, v
  <1>3. /\ x # Empty /\ Hd(x) = g
        /\ \A L : g.at \in L => Vs(x, L) = Vs(s, L) \union {g.v}
        /\ \A L : g.at \notin L => Vs(x, L) = Vs(s, L)
    BY <1>1, <1>2, HeadFacts
  <1>4. \A L : a \notin L => Marks(x, L) = Marks(s, L)
    BY <1>1, <1>2, MarksAre
  <1>5. ASSUME NEW L PROVE Vs(x, L) \subseteq {v}
    BY <1>1, <1>2, <1>3
  <1>6. QED BY <1>2, <1>3, <1>4, <1>5 DEF s, x, v

LEMMA NewSound ==
  ASSUME Ready, Typed', NEW t \in Threads, Lives(t), New(t)
  PROVE  Sound(t)
  <1>1. /\ InCall(t) /\ Step(t) /\ Typed /\ Top(t).at = "new" /\ file' = file
        /\ Top(t).at \in LookLabels \union {"gone_slept"} /\ Top(t).flag \in BOOLEAN
    BY NewDoes, ReadyIs DEF Step, LookLabels, InCall
  <1>2. Mild(t, Top1(t, "fail"))
        /\ \A v \in Vnodes, b \in BOOLEAN : Mild(t, Push(Fr("init", v, b), Below(t)))
    BY <1>1, LookFits, LooseIs
  <1>3. CASE Quiet /\ Moves(t, Top1(t, "fail"))
    BY <1>1, <1>2, <1>3, QuietMild
  <1>4. ASSUME NEW v \in free,
               LET s == Push(Fr("init", v, Top(t).flag), Below(t))
               IN  \/ vn[v].type = "bad" /\ Quiet /\ Moves(t, s)
                   \/ vn[v].type # "bad" /\ LocksOnly(v) /\ Moves(t, Over("clean", v, s))
        PROVE  Sound(t)
    <2> DEFINE s == Push(Fr("init", v, Top(t).flag), Below(t))
    <2>1. v \in Vnodes /\ vn[v].count = 0
      BY ReadyIs DEF FreeIs, Typed
    <2>2. Mild(t, s) /\ s \in Seq(Frame)
      <3>1. Mild(t, s)
        BY <1>1, <1>2, <2>1
      <3>2. "init" \in Labels
        BY DEF Labels
      <3>3. Fr("init", v, Top(t).flag) \in Frame
        BY <1>1, <2>1, <3>2, FrFacts
      <3>4. s \in Seq(Frame)
        BY <1>1, <3>3, PushFrame DEF InCall
      <3>5. QED BY <3>1, <3>4
    <2>3. \/ Quiet /\ Moves(t, s)
          \/ LocksOnly(v) /\ Moves(t, Over("clean", v, s))
      BY <1>4
    <2> HIDE DEF s
    <2>4. CASE Quiet /\ Moves(t, s)
      BY <1>1, <2>2, <2>4, QuietMild
    <2>5. CASE LocksOnly(v) /\ Moves(t, Over("clean", v, s))
      <3>1. th'[t].stack = Over("clean", v, s) /\ FileStep(t) /\ WhyStep(t)
        BY <1>1, <2>5, FileParts DEF Moves
      <3>2. \A u \in Threads : ~Owner(u, v)
        BY <2>1, NobodyHas
      <3>3. LockIs(v, TRUE) /\ SameInacts /\ SameDatas /\ SameCounts
        BY <2>5, SameBodyData DEF LocksOnly
      <3>4. QED BY <1>1, <2>1, <2>2, <3>1, <3>2, <3>3, LockSound
    <2>6. QED BY <2>3, <2>4, <2>5
  <1>5. QED BY <1>1, <1>3, <1>4, NewDoes

LEMMA VInitSound ==
  ASSUME Ready, Typed', NEW t \in Threads, Lives(t), VInit(t)
  PROVE  Sound(t)
  <1> DEFINE v == Top(t).v
             s == Top1(t, "enter")
  <1>1. /\ InCall(t) /\ Step(t) /\ Typed /\ Top(t).at = "init" /\ file' = file
        /\ CountIs(v, vn[v].count + 1) /\ InactIs(v, FALSE)
        /\ BodyIs(v, "none", "ufs", th[t].i, FALSE, FALSE, "no")
        /\ Moves(t, s)
    BY VInitDoes, ReadyIs DEF Step
  <1>2. Top(t).at \in LookLabels /\ v \in Vnodes /\ Top(t) \in Frame
    BY <1>1 DEF LookLabels, InCall, NoVnode
  <1>3. vn[v].count = 0 /\ ~vn[v].xlock
    <2>1. th[t].stack # Empty /\ Hd(th[t].stack) = Top(t) /\ Top(t) \in Frames(th[t].stack)
      BY <1>1, CallIsShaped, ReadyIs DEF InCall
    <2>2. Top(t) \in Inits(t)
      BY <1>1, <2>1 DEF Inits, Marks
    <2>3. InitsAre /\ InitTops
      BY ReadyIs
    <2>4. QED BY <1>1, <1>2, <2>1, <2>2, <2>3 DEF InitsAre, InitTops
  <1>4. \A u \in Threads : ~Owner(u, v)
    BY <1>2, <1>3, NobodyHas
  <1>5. "enter" \in Labels
    BY DEF Labels
  <1>6. /\ s # Empty /\ Hd(s).at = "enter"
        /\ \A L : Vs(s, L) \subseteq {v} /\ ("enter" \notin L => Vs(s, L) = {})
        /\ \A L : \A f \in Marks(s, L) : f.at = "enter" /\ f.v = v
    BY <1>1, <1>2, <1>5, LookStacks
  <1> HIDE DEF s, v
  <1>7. /\ vn'[v].hashed = FALSE /\ vn'[v].listed = FALSE /\ vn'[v].read = "no"
        /\ \A w \in Vnodes \ {v} : SameData(w) /\ vn'[w].inactivating = vn[w].inactivating
    BY <1>1 DEF BodyIs, SameBody, SameData, InactIs
  <1>8. \A f \in Marks(s, MakeLabels) : f.v = v /\ Made(f)'
    BY <1>6, <1>7 DEF Made
  <1>9. "enter" \notin InactLabels /\ "enter" \notin CleanLabels
    BY DEF InactLabels, CleanLabels
  <1>10. CountUp(t)
    <2>1. \A n : CountIs(v, n) /\ ~vn[v].xlock => CountUp(t)
      BY <1>1, <1>2, OwnParts
    <2>2. QED BY <1>1, <1>3, <2>1
  <1>11. QED BY <1>1, <1>2, <1>3, <1>4, <1>6, <1>7, <1>8, <1>9, <1>10, MakeSound

\* What is known of a vnode that is being made
LEMMA MadeIs ==
  ASSUME Ready, NEW t \in Threads, InCall(t), Top(t).at \in MakeLabels
  PROVE  /\ Top(t).v \in Vnodes /\ Top(t).at \in LookLabels /\ Made(Top(t))
         /\ Top(t).at = "enter" => vn[Top(t).v].ino \in Inos
  <1>1. th[t].stack # Empty /\ Top(t) \in Frames(th[t].stack)
    BY CallIsShaped, ReadyIs DEF InCall
  <1>2. Top(t) \in Makes(t) /\ (Top(t).at = "enter" => Top(t) \in Enters(t))
    BY <1>1 DEF Makes, Enters, Marks
  <1>3. Top(t).at \in LookLabels /\ Top(t).at \notin NoVnode
    BY DEF MakeLabels, LookLabels, NoVnode
  <1>4. Top(t).v \in Vnodes /\ th[t].i \in Inos
    BY <1>3 DEF InCall
  <1>5. QED BY <1>2, <1>3, <1>4, ReadyIs DEF MakersAre, EntersAre

LEMMA EnterSound ==
  ASSUME Ready, Typed', NEW t \in Threads, Lives(t), Enter(t)
  PROVE  Sound(t)
  <1> DEFINE v == Top(t).v
             s == Top1(t, "dup")
             r == Top1(t, "fill")
  <1>1. /\ InCall(t) /\ Step(t) /\ Typed /\ Top(t).at = "enter" /\ file' = file /\ SameCounts /\ SameInacts
        /\ \/ /\ BodyIs(v, vn[v].type, vn[v].ops, vn[v].ino, TRUE, vn[v].listed, vn[v].read)
              /\ Moves(t, r)
           \/ /\ BodyIs(v, vn[v].type, vn[v].ops, vn[v].ino, vn[v].hashed, vn[v].listed, "error")
              /\ \/ Moves(t, s)
                 \/ \E a \in {"clean", "gone_end"} : Moves(t, Over(a, v, s))
    BY EnterDoes, ReadyIs DEF Step
  <1>2. Top(t).at \in MakeLabels
    BY <1>1 DEF MakeLabels
  <1>3. /\ v \in Vnodes /\ Top(t).at \in LookLabels /\ Made(Top(t)) /\ vn[v].ino \in Inos
    BY <1>1, <1>2, MadeIs
  <1>4. ~vn[v].listed /\ ~vn[v].hashed /\ vn[v].read = "no"
    BY <1>1, <1>3 DEF Made
  <1>5. CountUp(t)
    BY <1>1, OwnParts
  <1>6. {"dup", "fill", "clean", "gone_end"} \subseteq Labels
    BY DEF Labels
  <1>7. /\ s # Empty /\ Hd(s).at = "dup"
        /\ \A L : Vs(s, L) \subseteq {v} /\ ("dup" \notin L => Vs(s, L) = {})
        /\ \A L : \A f \in Marks(s, L) : f.at = "dup" /\ f.v = v
    BY <1>1, <1>3, <1>6, LookStacks
  <1>8. /\ r # Empty /\ Hd(r).at = "fill"
        /\ \A L : Vs(r, L) \subseteq {v} /\ ("fill" \notin L => Vs(r, L) = {})
        /\ \A L : \A f \in Marks(r, L) : f.at = "fill" /\ f.v = v
    BY <1>1, <1>3, <1>6, LookStacks
  <1>9. \A a \in Labels :
          LET x == Over(a, v, s)
          IN  /\ x # Empty /\ Hd(x).at = a
              /\ \A L : Vs(x, L) \subseteq {v} /\ (a \notin L => Vs(x, L) = Vs(s, L))
              /\ \A L : a \notin L => Marks(x, L) = Marks(s, L)
    BY <1>1, <1>3, <1>6, LookOvers
  <1> HIDE DEF s, r, v
  <1>10. /\ "dup" \notin InactLabels /\ "dup" \notin CleanLabels
         /\ "fill" \notin InactLabels /\ "fill" \notin CleanLabels
         /\ \A a \in {"clean", "gone_end"} : a \notin InactLabels /\ a \notin MakeLabels
    BY DEF InactLabels, CleanLabels, MakeLabels
  <1>11. CASE /\ BodyIs(v, vn[v].type, vn[v].ops, vn[v].ino, TRUE, vn[v].listed, vn[v].read)
              /\ Moves(t, r)
    <2>1. /\ vn'[v].hashed = TRUE /\ ~vn'[v].listed /\ vn'[v].read = "no" /\ vn'[v].ino \in Inos
          /\ \A w \in Vnodes \ {v} : SameData(w) /\ vn'[w].inactivating = vn[w].inactivating
      BY <1>1, <1>3, <1>4, <1>11 DEF BodyIs, SameBody, SameData, SameInacts
    <2>2. \A f \in Marks(r, MakeLabels) : f.v = v /\ Made(f)'
      BY <1>8, <2>1 DEF Made
    <2>3. Top(t).v = v
      BY DEF v
    <2>4. QED BY <1>1, <1>2, <1>3, <1>5, <1>8, <1>10, <1>11, <2>1, <2>2, <2>3, MakeSound
  <1>12. CASE /\ BodyIs(v, vn[v].type, vn[v].ops, vn[v].ino, vn[v].hashed, vn[v].listed, "error")
              /\ \/ Moves(t, s)
                 \/ \E a \in {"clean", "gone_end"} : Moves(t, Over(a, v, s))
    <2>1. /\ ~vn'[v].hashed /\ ~vn'[v].listed /\ vn'[v].read = "error"
          /\ \A w \in Vnodes \ {v} : SameData(w) /\ vn'[w].inactivating = vn[w].inactivating
      BY <1>1, <1>3, <1>4, <1>12 DEF BodyIs, SameBody, SameData, SameInacts
    <2>2. \A f \in Marks(s, MakeLabels) : f.v = v /\ Made(f)'
      BY <1>7, <2>1 DEF Made
    <2>3. Top(t).v = v
      BY DEF v
    <2>4. CASE Moves(t, s)
      BY <1>1, <1>2, <1>3, <1>5, <1>7, <1>10, <2>1, <2>2, <2>3, <2>4, MakeSound
    <2>5. ASSUME NEW a \in {"clean", "gone_end"}, Moves(t, Over(a, v, s)) PROVE Sound(t)
      <3> DEFINE x == Over(a, v, s)
      <3>1. /\ Moves(t, x) /\ x # Empty /\ Hd(x).at = a
            /\ \A L : Vs(x, L) \subseteq {v} /\ (a \notin L => Vs(x, L) = Vs(s, L))
            /\ \A L : a \notin L => Marks(x, L) = Marks(s, L)
        BY <1>6, <1>9, <2>5
      <3> HIDE DEF x
      <3>2. /\ Hd(x).at \notin InactLabels /\ Vs(x, InactLabels) = {} /\ Vs(x, Blocked) \subseteq {v}
            /\ Vs(x, CleanLabels) \subseteq {v} /\ Marks(x, MakeLabels) = Marks(s, MakeLabels)
        BY <1>7, <1>10, <3>1
      <3>3. QED BY <1>1, <1>2, <1>3, <1>5, <2>1, <2>2, <2>3, <3>1, <3>2, MakeSound
    <2>6. QED BY <1>12, <2>4, <2>5
  <1>13. QED BY <1>1, <1>11, <1>12 DEF v, s, r

LEMMA FillSound ==
  ASSUME Ready, Typed', NEW t \in Threads, Lives(t), Fill(t)
  PROVE  Sound(t)
  <1> DEFINE v == Top(t).v
             s == Top1(t, "have")
             r == Top1(t, "fail")
             x == Over("rele", v, r)
  <1>1. /\ InCall(t) /\ Step(t) /\ Typed /\ Top(t).at = "fill" /\ file' = file /\ SameCounts /\ SameInacts
        /\ \/ /\ \E type : BodyIs(v, type, vn[v].ops, vn[v].ino, vn[v].hashed, TRUE, "yes")
              /\ Moves(t, s)
           \/ /\ BodyIs(v, vn[v].type, vn[v].ops, vn[v].ino, FALSE, vn[v].listed, "error")
              /\ Moves(t, x)
    BY FillDoes, ReadyIs DEF Step, BodiesOnly
  <1>2. Top(t).at \in MakeLabels
    BY <1>1 DEF MakeLabels
  <1>3. /\ v \in Vnodes /\ Top(t).at \in LookLabels /\ Made(Top(t))
    BY <1>1, <1>2, MadeIs
  <1>4. ~vn[v].listed /\ vn[v].hashed /\ vn[v].read = "no"
    BY <1>1, <1>3 DEF Made
  <1>5. vn[v].ino \in Inos /\ CountUp(t)
    BY <1>1, <1>3, <1>4, OwnParts, ReadyIs DEF KnownAre
  <1>6. {"have", "fail", "rele"} \subseteq Labels
    BY DEF Labels
  <1>7. /\ s # Empty /\ Hd(s).at = "have"
        /\ \A L : Vs(s, L) \subseteq {v} /\ ("have" \notin L => Vs(s, L) = {})
        /\ \A L : \A f \in Marks(s, L) : f.at = "have" /\ f.v = v
    BY <1>1, <1>3, <1>6, LookStacks
  <1>8. /\ \A L : Vs(r, L) \subseteq {v} /\ ("fail" \notin L => Vs(r, L) = {})
        /\ \A L : \A f \in Marks(r, L) : f.at = "fail" /\ f.v = v
        /\ x # Empty /\ Hd(x).at = "rele"
        /\ \A L : Vs(x, L) \subseteq {v} /\ ("rele" \notin L => Vs(x, L) = Vs(r, L))
        /\ \A L : "rele" \notin L => Marks(x, L) = Marks(r, L)
    <2>1. /\ \A L : Vs(r, L) \subseteq {v} /\ ("fail" \notin L => Vs(r, L) = {})
          /\ \A L : \A f \in Marks(r, L) : f.at = "fail" /\ f.v = v
      BY <1>1, <1>3, <1>6, LookStacks
    <2>2. /\ x # Empty /\ Hd(x).at = "rele"
          /\ \A L : Vs(x, L) \subseteq {v} /\ ("rele" \notin L => Vs(x, L) = Vs(r, L))
          /\ \A L : "rele" \notin L => Marks(x, L) = Marks(r, L)
      BY <1>1, <1>3, <1>6, LookOvers
    <2>3. QED BY <2>1, <2>2
  <1>9. Top(t).v = v
    BY DEF v
  <1> HIDE DEF s, r, v, x
  <1>10. \A at \in {"have", "fail", "rele"} : at \notin InactLabels /\ at \notin CleanLabels /\ at \notin MakeLabels
    BY DEF InactLabels, CleanLabels, MakeLabels
  <1>11. ASSUME NEW type, BodyIs(v, type, vn[v].ops, vn[v].ino, vn[v].hashed, TRUE, "yes"), Moves(t, s)
         PROVE  Sound(t)
    <2>1. /\ vn'[v].hashed /\ vn'[v].read = "yes" /\ vn'[v].ino \in Inos
          /\ \A w \in Vnodes \ {v} : SameData(w) /\ vn'[w].inactivating = vn[w].inactivating
      BY <1>1, <1>4, <1>5, <1>11 DEF BodyIs, SameBody, SameData, SameInacts
    <2>2. Marks(s, MakeLabels) = {}
      BY <1>7, <1>10 DEF Marks
    <2>3. QED BY <1>1, <1>2, <1>3, <1>5, <1>7, <1>9, <1>10, <1>11, <2>1, <2>2, MakeSound
  <1>12. CASE /\ BodyIs(v, vn[v].type, vn[v].ops, vn[v].ino, FALSE, vn[v].listed, "error")
              /\ Moves(t, x)
    <2>1. /\ vn'[v].hashed = FALSE /\ ~vn'[v].listed
          /\ \A w \in Vnodes \ {v} : SameData(w) /\ vn'[w].inactivating = vn[w].inactivating
      BY <1>1, <1>4, <1>12 DEF BodyIs, SameBody, SameData, SameInacts
    <2>2. Marks(x, MakeLabels) = {}
      BY <1>8, <1>10 DEF Marks
    <2>3. Vs(x, InactLabels) = {} /\ Vs(x, CleanLabels) = {} /\ Vs(x, Blocked) \subseteq {v}
      BY <1>8, <1>10
    <2>4. QED BY <1>1, <1>2, <1>3, <1>5, <1>8, <1>9, <1>10, <1>12, <2>1, <2>2, <2>3, MakeSound
  <1>13. QED BY <1>1, <1>11, <1>12

\* What threads begin
LEMMA BeginMild ==
  ASSUME Ready, NEW t \in Threads, th[t].stack = <<>>
  PROVE  Mild(t, Empty) /\ \A at \in Loose, v \in Vnodes \union {None} : Mild(t, Only(at, v))
  <1>1. /\ Inacting(t) = {} /\ Blocks(t) = {} /\ Makes(t) = {} /\ Leaves(t) = {} /\ EndsBelow(t) = {}
    <2>1. th[t].stack = Empty /\ Marks(Empty, MakeLabels) = {} /\ \A L : Vs(Empty, L) = {}
      BY EmptyStack, FramesInSet DEF Marks, Empty
    <2>2. Under(th[t].stack) = Empty
      BY <2>1 DEF Under
    <2>3. QED BY <2>1, <2>2 DEF Inacting, Blocks, Makes, Leaves, EndsBelow
  <1>2. Empty \in Seq(Frame) /\ Marks(Empty, MakeLabels) = {} /\ \A L : Vs(Empty, L) = {}
    BY EmptyStack, FramesInSet DEF Marks, Empty
  <1>3. Mild(t, Empty)
    BY <1>1, <1>2 DEF Mild, TopInacts
  <1>4. ASSUME NEW at \in Loose, NEW v \in Vnodes \union {None} PROVE Mild(t, Only(at, v))
    <2>1. at \in Labels /\ at \notin Blocked /\ at \notin InactLabels /\ at \notin MakeLabels
          /\ at \notin {"trunc", "ifree"}
      BY LooseIs, LabelSets DEF Loose, Fit
    <2> DEFINE x == Only(at, v)
    <2>2. PICK f \in Frame : f.at = at /\ f.v = v /\ x = Push(f, Empty)
      BY <2>1, OverIs DEF Only, Empty
    <2> HIDE DEF x
    <2>3. /\ x # Empty /\ Hd(x) = f
          /\ \A L : f.at \notin L => Vs(x, L) = Vs(Empty, L)
      BY <1>2, <2>2, HeadFacts
    <2>4. Marks(x, MakeLabels) = {}
      BY <1>2, <2>1, <2>2, MarksAre
    <2>5. QED BY <1>1, <1>2, <2>1, <2>2, <2>3, <2>4 DEF Mild, TopInacts, x
  <1>5. QED BY <1>3, <1>4

LEMMA StartSounds ==
  ASSUME Ready, Typed', NEW t \in Threads, Start(t), Lives(t)
  PROVE  Sound(t)
  <1>1. Typed
    BY ReadyIs
  <1>2. ASSUME NEW s, th'[t].stack = s, Mild(t, s), Quiet, FileStep(t), WhyStep(t)
        PROVE  Sound(t)
    <2>1. CountUp(t)
      BY OwnParts, <1>2 DEF Quiet
    <2>2. QED BY <1>2, <2>1, MildSound, SameBodyData DEF Quiet
  <1>3. \A why, i, s : Begins(t, why, i, s) => th[t].stack = <<>> /\ th'[t].stack = s /\ th'[t].why = why
    BY DEF Begins
  <1>4. \A why, i, s : Begins(t, why, i, s) /\ why # "create" /\ file' = file => FileStep(t) /\ WhyStep(t)
    BY FileParts
  <1>5. ASSUME NEW why, NEW i, NEW at \in Loose, NEW v \in Vnodes \union {None}, why # "create",
               Begins(t, why, i, Only(at, v)), file' = file, Quiet
        PROVE  Sound(t)
    BY <1>2, <1>3, <1>4, <1>5, BeginMild
  <1>6. CASE Close(t)
    BY <1>1, <1>5, <1>6, CloseDoes, LooseIs
  <1>7. CASE Remove(t)
    <2> DEFINE h == th[t].held
    <2>1. /\ th[t].stack = <<>> /\ h.i \in Inos /\ file[h.i] = "linked"
          /\ file' = [file EXCEPT ![h.i] = "unlinked"] /\ Agree(th'[t], th[t]) /\ Quiet
      BY <1>1, <1>7, RemoveDoes
    <2>2. th'[t].stack = Empty /\ Mild(t, Empty)
      BY <2>1, BeginMild DEF Agree, Empty
    <2>3. \A i \in Inos : i # h.i => file'[i] = file[i]
      BY <1>1, <2>1 DEF Typed
    <2>4. FileStep(t)
      BY <2>1, <2>3 DEF FileStep
    <2>5. WhyStep(t)
      <3>1. th'[t].why = th[t].why /\ th'[t].i = th[t].i
        BY <2>1 DEF Agree
      <3>2. th[t].why = "create" => th[t].i \in Inos /\ file[th[t].i] = "reserved"
        BY ReadyIs DEF CreatesIs
      <3>3. QED BY <2>1, <2>3, <3>1, <3>2 DEF WhyStep
    <2>6. QED BY <1>2, <2>1, <2>2, <2>4, <2>5
  <1>8. ASSUME NEW i \in Inos, LookUp(t, i) PROVE Sound(t)
    BY <1>1, <1>5, <1>8, LookUpDoes, LooseIs
  <1>9. ASSUME NEW i \in Inos, FhToVp(t, i) PROVE Sound(t)
    BY <1>1, <1>5, <1>9, FhToVpDoes, LooseIs
  <1>10. ASSUME NEW i \in Inos, Create(t, i) PROVE Sound(t)
    <2>1. /\ Quiet /\ file[i] = "free" /\ file' = [file EXCEPT ![i] = "reserved"]
          /\ Begins(t, "create", i, Only("get", None))
      BY <1>1, <1>10, CreateDoes
    <2>2. /\ th'[t].stack = Only("get", None) /\ th[t].stack = <<>>
          /\ th'[t].i = i /\ th'[t].why = "create"
      BY <2>1 DEF Begins
    <2>3. Mild(t, Only("get", None))
      BY <2>2, BeginMild, LooseIs
    <2>4. file'[i] = "reserved" /\ \A j \in Inos : j # i => file'[j] = file[j]
      BY <1>1, <2>1 DEF Typed
    <2>5. FileStep(t) /\ WhyStep(t)
      BY <2>1, <2>2, <2>4 DEF FileStep, WhyStep
    <2>6. QED BY <1>2, <2>1, <2>2, <2>3, <2>5
  <1>11. ASSUME NEW v \in Vnodes, Sync(t, v) PROVE Sound(t)
    <2>1. /\ ~vn[v].xlock /\ Gets(v) /\ file' = file /\ Begins(t, "other", th[t].i, Only("rele", v))
      BY <1>1, <1>11, SyncDoes
    <2>2. th'[t].stack = Only("rele", v) /\ Mild(t, Only("rele", v))
      BY <1>3, <2>1, BeginMild, LooseIs
    <2>3. CountUp(t)
      <3>1. \A n : CountIs(v, n) /\ ~vn[v].xlock => CountUp(t)
        BY OwnParts
      <3>2. QED BY <2>1, <3>1 DEF Gets, CountsOnly
    <2>4. FileStep(t) /\ WhyStep(t)
      BY <1>4, <2>1
    <2>5. QED BY <2>1, <2>2, <2>3, <2>4, MildSound, SameBodyData DEF Gets, CountsOnly
  <1>12. ASSUME NEW v \in Vnodes, Vflush(t, v) PROVE Sound(t)
    <2>1. /\ vn[v].count = 0 /\ file' = file
          /\ \/ Quiet /\ Begins(t, "unmount", th[t].i, Only("gone_slept", v))
             \/ /\ LocksOnly(v)
                /\ \E a \in {"clean", "gone_end"} : Begins(t, "unmount", th[t].i, Only(a, v))
      BY <1>1, <1>12, VflushDoes
    <2>2. CASE Quiet /\ Begins(t, "unmount", th[t].i, Only("gone_slept", v))
      BY <1>5, <2>1, <2>2, LooseIs
    <2>3. ASSUME LocksOnly(v), NEW a \in {"clean", "gone_end"}, Begins(t, "unmount", th[t].i, Only(a, v))
          PROVE  Sound(t)
      <3>1. th'[t].stack = Over(a, v, Empty) /\ th[t].stack = <<>>
        BY <1>3, <2>3 DEF Only, Empty
      <3>2. Mild(t, Empty) /\ Empty \in Seq(Frame)
        BY <3>1, BeginMild, EmptyStack
      <3>3. FileStep(t) /\ WhyStep(t)
        BY <1>4, <2>1, <2>3
      <3>4. \A u \in Threads : ~Owner(u, v)
        BY <2>1, NobodyHas
      <3>5. LockIs(v, TRUE) /\ SameInacts /\ SameDatas /\ SameCounts
        BY <2>3, SameBodyData DEF LocksOnly
      <3>6. QED BY <3>1, <3>2, <3>3, <3>4, <3>5, LockSound
    <2>4. QED BY <2>1, <2>2, <2>3
  <1>13. QED BY <1>6, <1>7, <1>8, <1>9, <1>10, <1>11, <1>12 DEF Start

------------------------------------------------------------------------------
\* The sanity checks of the code

LEMMA StepSound ==
  ASSUME Ready, Typed', NEW t \in Threads, Step(t) \/ Start(t), Lives(t)
  PROVE  Sound(t)
  BY ReleSounds, UfsSounds, CleanSounds, LookSounds, NewSound, VInitSound, EnterSound, FillSound, EndSounds,
     StartSounds DEF Step

\* No step of a thread that is in order finds anything out of order.
LEMMA StepIsSane ==
  ASSUME Ready, NEW t \in Threads, Step(t) \/ Start(t)
  PROVE  panic' \in {"none", "null v_freeb"}
  <1>1. Typed /\ panic = "none"
    BY ReadyIs
  <1>2. CASE Rele(t)
    <2>1. /\ InCall(t) /\ Top(t).at = "rele"
          /\ panic' = panic \/ (vn[Top(t).v].count < 1 /\ panic' = "bad ref count")
      BY <1>1, <1>2, ReleDoes
    <2>2. Top(t).v \in Vnodes /\ Owner(t, Top(t).v)
      <3>1. "rele" \in OwnLabels /\ "rele" \notin NoVnode
        BY LabelsAre DEF NoVnode
      <3>2. QED BY <1>1, <2>1, <3>1, TopOwns DEF InCall
    <2>3. vn[Top(t).v].count \in Nat /\ Refs(th[t], Top(t).v) \in Nat
          /\ vn[Top(t).v].count >= Refs(th[t], Top(t).v)
      BY <2>2, CountsAre, ReadyIs
    <2>4. ~(vn[Top(t).v].count < 1)
      <3>1. Refs(th[t], Top(t).v) >= 1
        BY <2>2 DEF Owner
      <3>2. QED BY <2>3, <3>1
    <2>5. QED BY <1>1, <2>1, <2>4
  <1>3. CASE Ifree(t)
    <2>1. /\ InCall(t) /\ Top(t).at = "ifree"
          /\ panic' = IF file[vn[Top(t).v].ino] = "free" THEN "freeing free inode" ELSE panic
      BY <1>1, <1>3, IfreeDoes
    <2>2. Frees(t) /\ Freed(t) = vn[Top(t).v] /\ Hd(th[t].stack) = Top(t)
      BY <2>1, CallParts, CallIsShaped, ReadyIs
    <2>3. file[vn[Top(t).v].ino] = "reserved"
      BY <2>1, <2>2, ReadyIs DEF FreeingIs, Freeing
    <2>4. QED BY <1>1, <2>1, <2>3
  <1>4. CASE New(t)
    <2>1. \/ panic' = panic
          \/ \E v \in free : panic' = IF vn[v].count # 0 THEN "free vnode isn't" ELSE panic
      BY <1>1, <1>4, NewDoes
    <2>2. \A v \in free : vn[v].count = 0
      BY <1>1, ReadyIs DEF FreeIs, Typed
    <2>3. QED BY <1>1, <2>1, <2>2
  <1>5. CASE Have(t)
    <2>1. \/ panic' = panic
          \/ th[t].why = "create" /\ panic' = IF ~ModeIsZero(th[t].i) THEN "dup alloc" ELSE panic
      BY <1>1, <1>5, HaveDoes
    <2>2. th[t].why = "create" => ModeIsZero(th[t].i)
      BY ReadyIs DEF CreatesIs, ModeIsZero
    <2>3. QED BY <1>1, <2>1, <2>2
  <1>6. \A v : Gets(v) => panic' \in {"none", "null v_freeb"}
    BY <1>1 DEF Gets
  <1>7. CASE Cached(t) \/ Get(t) \/ Vget(t)
    BY <1>1, <1>6, <1>7, CachedDoes, GetDoes, VgetDoes
  <1>8. ASSUME NEW v \in Vnodes, Sync(t, v) PROVE panic' \in {"none", "null v_freeb"}
    BY <1>1, <1>6, <1>8, SyncDoes
  <1>9. CASE \/ Inactive(t) \/ Drop(t) \/ SleepAgain(t)
             \/ UfsInactive(t) \/ Stale(t) \/ Trunc(t) \/ Last(t) \/ End(t)
             \/ Clean(t) \/ Dead(t) \/ Reclaim(t) \/ Purge(t) \/ GoneEnd(t) \/ GoneSlept(t)
             \/ Check(t) \/ Scan(t) \/ VgetSlept(t) \/ Got(t) \/ GotSlept(t) \/ Event(t)
             \/ VInit(t) \/ Enter(t) \/ Dup(t) \/ Fill(t) \/ Fail(t) \/ Close(t) \/ Remove(t)
    BY <1>1, <1>9 DEF Inactive, Drop, SleepAgain, UfsInactive, Stale, Trunc, Last, End, Clean, Dead,
         Reclaim, Purge, GoneEnd, GoneSlept, Check, Scan, VgetSlept, Got, GotSlept, Event, VInit, Enter,
         Dup, Fill, Fail, Close, Remove
  <1>10. ASSUME NEW i \in Inos, LookUp(t, i) \/ FhToVp(t, i) \/ Create(t, i)
         PROVE  panic' \in {"none", "null v_freeb"}
    BY <1>1, <1>10 DEF LookUp, FhToVp, Create
  <1>11. ASSUME NEW v \in Vnodes, Vflush(t, v) PROVE panic' \in {"none", "null v_freeb"}
    BY <1>1, <1>11 DEF Vflush
  <1>12. QED BY <1>2, <1>3, <1>4, <1>5, <1>7, <1>8, <1>9, <1>10, <1>11 DEF Step, Start

LEMMA InitSane == Init => Sane
  <1> SUFFICES ASSUME Init PROVE Sane
    OBVIOUS
  <1>1. \A t \in Threads : th[t].stack = Empty /\ th[t].why = "other"
    BY DEF Init, Idle, Empty
  <1>2. \A v \in Vnodes : vn[v].listed = FALSE /\ vn[v].hashed = FALSE
    BY DEF Init, Unused
  <1>3. \A L : Vs(Empty, L) = {} /\ Marks(Empty, L) = {}
    BY EmptyStack, FramesInSet DEF Marks, Empty
  <1>4. \A t \in Threads : /\ Inacting(t) = {} /\ Makes(t) = {} /\ Cleaning(t) = {} /\ ~Frees(t)
                           /\ TopInacts(th[t].stack)
    BY <1>1, <1>3 DEF Inacting, Makes, Cleaning, Frees, TopInacts
  <1>5. QED BY <1>1, <1>2, <1>4 DEF Sane, InactsAre, MakersAre, ListedAre, CleansAre, KnownAre,
                FreeingIs, CreatesIs

LEMMA SaneStays == Sane /\ UNCHANGED vars => Sane'
  <1> SUFFICES ASSUME Sane, vars' = vars PROVE Sane'
    OBVIOUS
  <1>1. vn' = vn /\ file' = file /\ th' = th /\ panic' = panic
    BY DEF vars
  <1>2. \A t \in Threads :
          /\ Inacting(t)' = Inacting(t) /\ Blocks(t)' = Blocks(t) /\ Leaves(t)' = Leaves(t)
          /\ Makes(t)' = Makes(t) /\ EndsBelow(t)' = EndsBelow(t) /\ Cleaning(t)' = Cleaning(t)
    BY <1>1 DEF Inacting, Blocks, Leaves, Makes, EndsBelow, Cleaning, Vs, Marks, Frames, Under, Empty, Tl
  <1>3. \A t \in Threads : \A v : Owner(t, v)' <=> Owner(t, v)
    BY <1>1 DEF Owner, Refs, Count, Holds, OwnFrames
  <1>4. \A t \in Threads : (TopInacts(th[t].stack))' <=> TopInacts(th[t].stack)
    BY <1>1 DEF TopInacts, Vs, Marks, Frames, Hd, Tl, Empty
  <1>5. \A f : Made(f)' <=> Made(f)
    BY <1>1 DEF Made
  <1>6. \A t \in Threads : (Frees(t)' <=> Frees(t)) /\ (Freeing(t)' <=> Freeing(t))
    BY <1>1 DEF Frees, Freeing, Freed, Hd, Empty
  <1>7. panic = "none" => InactsAre'
    BY <1>1, <1>2, <1>4 DEF Sane, InactsAre
  <1>8. panic = "none" => MakersAre'
    BY <1>1, <1>2, <1>5 DEF Sane, MakersAre
  <1>9. panic = "none" => ListedAre' /\ KnownAre'
    BY <1>1, <1>2 DEF Sane, ListedAre, KnownAre
  <1>10. panic = "none" => CleansAre'
    BY <1>1, <1>2, <1>3 DEF Sane, CleansAre
  <1>11. panic = "none" => FreeingIs' /\ CreatesIs'
    BY <1>1, <1>6 DEF Sane, FreeingIs, CreatesIs
  <1>12. QED BY <1>1, <1>7, <1>8, <1>9, <1>10, <1>11 DEF Sane

LEMMA NextSane ==
  Typed /\ Typed' /\ Counted /\ Making /\ OneEach /\ Life /\ Sane /\ NoPanic /\ [Next]_vars
  => Sane' /\ NoPanic'
  <1> SUFFICES ASSUME Typed, Typed', Counted, Making, OneEach, Life, Sane, NoPanic, [Next]_vars
               PROVE  Sane' /\ NoPanic'
    OBVIOUS
  <1>1. CASE UNCHANGED vars
    <2>1. NoPanic'
      BY <1>1 DEF NoPanic, vars
    <2>2. QED BY <1>1, <2>1, SaneStays
  <1>2. CASE Next
    <2>1. PICK t \in Threads : Step(t) \/ Start(t)
      BY <1>2 DEF Next
    <2>2. Ready
      BY <1>2 DEF Next, Ready
    <2>3. Lives(t)
      BY <2>1, <2>2, StepLives DEF Ready
    <2>4. Sound(t) /\ OthersAgree(t)
      BY <2>1, <2>2, <2>3, StepSound DEF Lives
    <2>5. Sane'
      BY <2>2, <2>4, SoundGoesOn DEF Ready
    <2>6. NoPanic'
      BY <2>1, <2>2, StepIsSane DEF NoPanic
    <2>7. QED BY <2>5, <2>6
  <1>3. QED BY <1>1, <1>2

\* What the panics ask for is kept: inode by inode and vnode by vnode, who makes,
\* inactivates, frees and cleans it, and that no two do.
THEOREM SanityIsKept == Spec => [](Sane /\ NoPanic)
  <1>1. Init => Sane /\ NoPanic
    BY InitSane DEF Init, NoPanic
  <1>2. Typed /\ Typed' /\ Counted /\ (Making /\ OneEach) /\ Life /\ (Sane /\ NoPanic) /\ [Next]_vars
        => (Sane /\ NoPanic)'
    BY NextSane
  <1>3. QED BY <1>1, <1>2, AlwaysTyped, AlwaysCounted, MakingIsKept, CallsNest, PTL DEF Spec

\* The values have their bounds, the free list has the vnodes without references,
\* a vnode is VXLOCKed while one call cleans it, and the sanity checks of vrele,
\* getnewvnode, ifree and ialloc never fail: no reference is given back
\* twice, no inode is freed twice or allocated while it has a mode.
THEOREM LifecyclesAreSound == Spec => []LifecycleIsSound
  <1>1. TypeOK /\ FreeListIsUnused /\ OneCleaner /\ NoPanic => LifecycleIsSound
    BY DEF LifecycleIsSound
  <1>2. QED BY <1>1, TypesAreRight, FreeVnodesAreUnused, OneCleansAtATime, SanityIsKept, PTL

------------------------------------------------------------------------------
\* Whose vnode it is: what a call, an open file and the name cache have learned of
\* a vnode, until ufs_inactive cleans one that is in use

\* The vnode of an inode, until it is of no use to those that have it
Found(v, i) == /\ vn[v].ino = i
               /\ vn[v].read = "error" \/ (vn[v].hashed /\ vn[v].ops = "ufs")
\* The vnode that a name may lead to
Known(v, i) == /\ vn[v].ino = i
               /\ \/ vn[v].xlock
                  \/ /\ vn[v].hashed /\ vn[v].ops = "ufs" /\ vn[v].listed /\ vn[v].type = "reg"
                     /\ file[i] = "linked"
\* Neither the name cache nor a lookup that has just left it leads to v.
Unnamed(v) == /\ \A i \in Inos : name[i] # v
              /\ \A u \in Threads : \A f \in Frames(th[u].stack) :
                   f.at = "cached" /\ f.v = v => th[u].cap # v

\* What a call at a label has learned of its vnode, for the inode i
Learned(at, v, i, cap) ==
  /\ at \in {"enter", "fill"} => vn[v].ino = i /\ vn[v].ops = "ufs" /\ vn[v].type # "bad"
  /\ at \in LeaveLabels => ~vn[v].hashed
  /\ at = "gone_end" => Unnamed(v)
  /\ at = "cached" /\ cap = v => Known(v, i)
  /\ at = "check" /\ cap = v => Found(v, i)
  /\ at \in {"got", "event", "have"} => Found(v, i)
  /\ at = "have" => vn[v].read = "yes"
Noted(t, f) == Learned(f.at, f.v, th[t].i, th[t].cap)
Holding(h)  == h # None => Found(h.v, h.i) /\ vn[h.v].read = "yes"
OwnNotes(t) ==
  /\ \A f \in Frames(th[t].stack) : Noted(t, f)
  /\ Holding(th[t].held)
Filled(v) == \E t \in Threads : \E f \in Frames(th[t].stack) : f.at = "fill" /\ f.v = v
ChainAt(v) ==
  /\ vn[v].type = "bad" => ~vn[v].hashed
  /\ vn[v].listed => vn[v].ino \in Inos
  /\ vn[v].hashed => (vn[v].ops = "ufs" \/ vn[v].xlock) /\ (vn[v].listed \/ Filled(v))
NamesAre  == \A i \in Inos : name[i] # None => Known(name[i], i)
ChainsAre == \A v \in Vnodes : ChainAt(v)
Notes     == (\A t \in Threads : OwnNotes(t)) /\ NamesAre /\ ChainsAre

\* Nobody else has a reference of a vnode that is being cleaned, unless its inode
\* could not be read.
Private == panic = "none" => \A t \in Threads : \A v \in Cleaning(t) :
             vn[v].read = "error" \/ \A u \in Threads \ {t} : ~Owner(u, v)

\* What a step of t may do to what the others have learned
FoundStep(t) == \A v \in Vnodes : (\E u \in Threads \ {t} : Owner(u, v)) =>
                  /\ \A i \in Inos : Found(v, i) => Found(v, i)'
                  /\ vn[v].read = "yes" => vn'[v].read = "yes"
MadeStep(t)  == \A u \in Threads \ {t} : \A f \in Makes(u) : SameBody(vn'[f.v], vn[f.v])
LeftStep(t)  == \A u \in Threads \ {t} : \A v \in Leaves(u) :
                  ~vn[v].hashed => ~vn'[v].hashed /\ (Unnamed(v) => Unnamed(v)')
KnownStep    == \A v \in Vnodes, i \in Inos : Known(v, i) => Known(v, i)' \/ Unnamed(v)'
NameStep     == \A i \in Inos : name'[i] # None => name'[i] = name[i] \/ Known(name[i], i)'

LEMMA NotesGoOn ==
  ASSUME Ready, Notes, Typed', NEW t \in Threads, OthersAgree(t),
         FoundStep(t), MadeStep(t), LeftStep(t), KnownStep, NameStep,
         ChainsAre', OwnNotes(t)'
  PROVE  Notes'
  <1>1. Typed /\ Shapes
    BY ReadyIs
  <1>2. ASSUME NEW u \in Threads \ {t} PROVE OwnNotes(u)'
    <2>1. /\ th'[u].stack = th[u].stack /\ th'[u].why = th[u].why /\ th'[u].i = th[u].i
          /\ th'[u].held = th[u].held /\ th'[u].cap \in {th[u].cap, None}
      BY DEF OthersAgree, Agree
    <2>2. Frames(th'[u].stack) = Frames(th[u].stack)
      BY <2>1
    <2>3. OwnNotes(u)
      BY DEF Notes
    <2>4. ASSUME NEW f \in Frames(th[u].stack) PROVE Noted(u, f)'
      <3>1. Noted(u, f)
        BY <2>3 DEF OwnNotes
      <3>2. f.at \notin NoVnode => f.v \in Vnodes
        BY <1>1, FrameVnodes
      <3>3. f.at \in LookLabels => th[u].i \in Inos
        BY <1>1 DEF Typed, CallFits
      <3>4. f.at \in OwnLabels => Owner(u, f.v)
        <4>1. InCall(u)
          <5>1. th[u].stack # <<>>
            BY EmptyStack DEF Frames, Empty
          <5>2. QED BY <1>1, <5>1, InCallFacts
        <4>2. QED BY <1>1, <4>1, TopOwns
      <3>5. CASE f.at \in {"enter", "fill"}
        <4>1. f \in Makes(u)
          BY <3>5 DEF Makes, Marks, MakeLabels
        <4>2. SameBody(vn'[f.v], vn[f.v])
          BY <4>1 DEF MadeStep
        <4>3. QED BY <2>1, <3>1, <3>5, <4>2 DEF Noted, Learned, SameBody, LeaveLabels
      <3>6. CASE f.at \in LeaveLabels
        <4>1. f.v \in Leaves(u)
          BY <3>6 DEF Leaves, Vs, Marks
        <4>2. ~vn'[f.v].hashed /\ (Unnamed(f.v) => Unnamed(f.v)')
          BY <3>1, <3>6, <4>1 DEF Noted, Learned, LeftStep
        <4>3. QED BY <3>1, <3>6, <4>2 DEF Noted, Learned, LeaveLabels
      <3>8. CASE f.at = "cached"
        <4>1. f.v \in Vnodes /\ f.v # None /\ th[u].i \in Inos
          BY <3>2, <3>3, <3>8, NoneAssumption DEF NoVnode, LookLabels
        <4>2. ASSUME th'[u].cap = f.v PROVE Known(f.v, th[u].i)'
          <5>1. Known(f.v, th[u].i)
            BY <2>1, <3>1, <3>8, <4>1, <4>2 DEF Noted, Learned
          <5>2. PICK v \in Vnodes : v = f.v
            BY <4>1
          <5>3. PICK i \in Inos : i = th[u].i
            BY <4>1
          <5>4. Known(v, i)' \/ Unnamed(v)'
            BY <5>1, <5>2, <5>3 DEF KnownStep
          <5>5. ~Unnamed(v)'
            BY <2>2, <3>8, <4>2, <5>2 DEF Unnamed
          <5>6. QED BY <2>1, <5>2, <5>3, <5>4, <5>5 DEF Known
        <4>3. QED BY <2>1, <3>8, <4>2 DEF Noted, Learned, LeaveLabels, Known
      <3>9. CASE f.at \in {"check", "got", "event", "have"}
        <4>1. f.v \in Vnodes /\ f.v # None /\ th[u].i \in Inos /\ Owner(u, f.v)
          BY <3>2, <3>3, <3>4, <3>9, NoneAssumption DEF NoVnode, LookLabels, OwnLabels
        <4>2. /\ \A i \in Inos : Found(f.v, i) => Found(f.v, i)'
              /\ vn[f.v].read = "yes" => vn'[f.v].read = "yes"
          BY <4>1 DEF FoundStep
        <4>3. PICK i \in Inos : i = th[u].i
          BY <4>1
        <4>4. Found(f.v, i) => Found(f.v, i)'
          BY <4>2
        <4>5. Found(f.v, i)' => Found(f.v, th[u].i)'
          BY <2>1, <4>3 DEF Found
        <4>6. Found(f.v, th[u].i) => Found(f.v, th[u].i)'
          BY <4>3, <4>4, <4>5
        <4>7. QED BY <2>1, <3>1, <3>9, <4>1, <4>2, <4>6 DEF Noted, Learned, LeaveLabels
      <3>10. QED BY <3>5, <3>6, <3>8, <3>9 DEF Noted, Learned, LeaveLabels
    <2>5. ASSUME th'[u].held # None
          PROVE  (Found(th[u].held.v, th[u].held.i) /\ vn[th[u].held.v].read = "yes")'
      <3>1. PICK h : h = th[u].held
        OBVIOUS
      <3>2. h \in Open /\ h # None
        BY <1>1, <2>1, <2>5, <3>1 DEF Typed, ThreadRecord
      <3>3. h.v \in Vnodes /\ h.i \in Inos /\ Owner(u, h.v) /\ Found(h.v, h.i) /\ vn[h.v].read = "yes"
        BY <1>1, <2>3, <3>1, <3>2, OwnersAre DEF Open, Owner, OwnNotes, Holding
      <3>4. Found(h.v, h.i)' /\ vn'[h.v].read = "yes"
        BY <3>3 DEF FoundStep
      <3>5. QED BY <2>1, <3>1, <3>4 DEF Found
    <2>6. QED BY <2>1, <2>2, <2>3, <2>4, <2>5 DEF OwnNotes, Holding
  <1>3. NamesAre'
    <2>1. ASSUME NEW i \in Inos, name'[i] # None PROVE Known(name[i], i)'
      <3>1. PICK v : v = name'[i]
        OBVIOUS
      <3>2. v \in Vnodes
        BY <2>1, <3>1 DEF Typed
      <3>3. CASE v = name[i]
        <4>1. Known(v, i)
          BY <2>1, <3>1, <3>3 DEF Notes, NamesAre
        <4>2. Known(v, i)' \/ Unnamed(v)'
          BY <3>2, <4>1 DEF KnownStep
        <4>3. ~Unnamed(v)'
          BY <3>1 DEF Unnamed
        <4>4. QED BY <3>1, <4>2, <4>3 DEF Known
      <3>4. CASE v # name[i]
        BY <2>1, <3>1, <3>4 DEF NameStep
      <3>5. QED BY <3>3, <3>4
    <2>2. QED BY <2>1 DEF NamesAre
  <1>4. QED BY <1>2, <1>3 DEF Notes

\* The vnodes are as they were, but for counts and locks; the disk but for inodes
\* that are freed or allocated.
SteadyVn == \A v \in Vnodes : SameBody(vn'[v], vn[v]) /\ (vn[v].xlock => vn'[v].xlock)
FileOn   == \A i \in Inos : file[i] = "linked" => file'[i] = "linked"
\* A lookup leaves the name cache with a name that is there.
CachedStep(t) == \A f \in Frames(th'[t].stack) : f.at = "cached" /\ th'[t].cap = f.v =>
                   \/ f \in Frames(th[t].stack) /\ th[t].cap = f.v
                   \/ \E i \in Inos : name[i] = f.v
NamesGo       == \A i \in Inos : name'[i] \in {name[i], None}
FillStep(t)   == \A f \in Frames(th[t].stack) : f.at = "fill" => f \in Frames(th'[t].stack)

LEMMA SteadyKeeps ==
  ASSUME SteadyVn, FileOn
  PROVE  \A v \in Vnodes, i \in Inos : (Found(v, i) => Found(v, i)') /\ (Known(v, i) => Known(v, i)')
  <1>1. ASSUME NEW v \in Vnodes
        PROVE  /\ vn'[v].ino = vn[v].ino /\ vn'[v].read = vn[v].read /\ vn'[v].hashed = vn[v].hashed
               /\ vn'[v].ops = vn[v].ops /\ vn'[v].listed = vn[v].listed /\ vn'[v].type = vn[v].type
               /\ vn[v].xlock => vn'[v].xlock
    BY DEF SteadyVn, SameBody
  <1>2. QED BY <1>1 DEF Found, Known, FileOn

LEMMA UnnamedStays ==
  ASSUME Typed, NEW t \in Threads, OthersAgree(t), NamesGo, CachedStep(t), NEW v \in Vnodes, Unnamed(v)
  PROVE  Unnamed(v)'
  <1>1. v # None
    BY NoneAssumption
  <1>2. ASSUME NEW u \in Threads, NEW f \in Frames(th'[u].stack), f.at = "cached", f.v = v
        PROVE  th'[u].cap # v
    <2>1. CASE u = t
      BY <1>2, <2>1 DEF CachedStep, Unnamed
    <2>2. CASE u # t
      <3>1. th'[u].stack = th[u].stack /\ th'[u].cap \in {th[u].cap, None}
        BY <2>2 DEF OthersAgree, Agree
      <3>2. th[u].cap # v
        BY <1>2, <3>1 DEF Unnamed
      <3>3. QED BY <1>1, <3>1, <3>2
    <2>3. QED BY <2>1, <2>2
  <1>3. \A i \in Inos : name'[i] # v
    BY <1>1 DEF Unnamed, NamesGo
  <1>4. QED BY <1>2, <1>3 DEF Unnamed

\* What is learned of a vnode goes on to hold.
LEMMA LearnedStays ==
  ASSUME Typed, NEW at, NEW v, NEW i, NEW cap,
         at \notin NoVnode => v \in Vnodes, at \in LookLabels => i \in Inos,
         v \in Vnodes => /\ SameBody(vn'[v], vn[v]) /\ (Unnamed(v) => Unnamed(v)')
                         /\ \A j \in Inos : (Found(v, j) => Found(v, j)') /\ (Known(v, j) => Known(v, j)'),
         Learned(at, v, i, cap)
  PROVE  Learned(at, v, i, cap)'
  <1>1. CASE at \in LookLabels /\ at \notin NoVnode
    <2>1. v \in Vnodes /\ i \in Inos
      BY <1>1
    <2>2. (Found(v, i) => Found(v, i)') /\ (Known(v, i) => Known(v, i)') /\ SameBody(vn'[v], vn[v])
      BY <2>1
    <2>3. QED BY <1>1, <2>2 DEF Learned, LookLabels, LeaveLabels, SameBody
  <1>2. CASE at \notin LookLabels
    <2>1. v \in Vnodes
      BY <1>2 DEF NoVnode, LookLabels
    <2>2. SameBody(vn'[v], vn[v]) /\ (Unnamed(v) => Unnamed(v)')
      BY <2>1
    <2>3. QED BY <1>2, <2>2 DEF Learned, LookLabels, LeaveLabels, SameBody
  <1>3. CASE at \in NoVnode
    BY <1>3 DEF Learned, NoVnode, LeaveLabels
  <1>4. QED BY <1>1, <1>2, <1>3

\* The chains stay as they are with the vnodes, while who fills one stays.
LEMMA SteadyChains ==
  ASSUME Notes, NEW t \in Threads, OthersAgree(t), SteadyVn, FillStep(t)
  PROVE  ChainsAre'
  <1>1. ASSUME NEW v \in Vnodes, Filled(v) PROVE Filled(v)'
    <2>1. PICK u \in Threads : \E f \in Frames(th[u].stack) : f.at = "fill" /\ f.v = v
      BY <1>1 DEF Filled
    <2>2. \E f \in Frames(th'[u].stack) : f.at = "fill" /\ f.v = v
      <3>1. CASE u = t
        BY <2>1, <3>1 DEF FillStep
      <3>2. CASE u # t
        BY <2>1, <3>2 DEF OthersAgree, Agree
      <3>3. QED BY <3>1, <3>2
    <2>3. QED BY <2>2 DEF Filled
  <1>2. ASSUME NEW v \in Vnodes PROVE ChainAt(v)'
    <2>1. ChainAt(v) /\ SameBody(vn'[v], vn[v]) /\ (vn[v].xlock => vn'[v].xlock)
      BY DEF Notes, ChainsAre, SteadyVn
    <2>2. QED BY <1>1, <2>1 DEF ChainAt, SameBody
  <1>3. QED BY <1>2 DEF ChainsAre

LEMMA SteadyNotes ==
  ASSUME Ready, Notes, Typed', NEW t \in Threads, OthersAgree(t), SteadyVn, FileOn, NamesGo,
         CachedStep(t), FillStep(t), Holding(th'[t].held),
         \A f \in Frames(th'[t].stack) : Learned(f.at, f.v, th'[t].i, th'[t].cap) \/ Noted(t, f)'
  PROVE  Notes'
  <1>1. Typed /\ Shapes
    BY ReadyIs
  <1>2. \A v \in Vnodes, i \in Inos : (Found(v, i) => Found(v, i)') /\ (Known(v, i) => Known(v, i)')
    BY SteadyKeeps
  <1>3. \A v \in Vnodes : Unnamed(v) => Unnamed(v)'
    BY <1>1, UnnamedStays
  <1>4. \A v \in Vnodes : SameBody(vn'[v], vn[v])
    BY DEF SteadyVn
  <1>5. \A u \in Threads : /\ \A f \in Makes(u) : f.v \in Vnodes
                           /\ \A v \in Leaves(u) : v \in Vnodes
    <2>1. \A u \in Threads : Leaves(u) \subseteq Cleaning(u)
      BY LabelSets DEF Leaves, Cleaning, Vs, Marks
    <2>2. QED BY <1>1, <2>1, BlockedAre, CleaningVnodes
  <1>6. FoundStep(t) /\ MadeStep(t) /\ LeftStep(t) /\ KnownStep /\ NameStep
    <2>1. FoundStep(t)
      BY <1>2, <1>4 DEF FoundStep, SameBody
    <2>2. MadeStep(t)
      BY <1>4, <1>5 DEF MadeStep
    <2>3. LeftStep(t)
      BY <1>3, <1>4, <1>5 DEF LeftStep, SameBody
    <2>4. KnownStep /\ NameStep
      BY <1>2 DEF KnownStep, NameStep, NamesGo
    <2>5. QED BY <2>1, <2>2, <2>3, <2>4
  <1>7. ChainsAre'
    BY SteadyChains
  <1>8. OwnNotes(t)'
    <2>1. ASSUME NEW f \in Frames(th'[t].stack) PROVE Noted(t, f)'
      <3>1. f.at \notin NoVnode => f.v \in Vnodes
        BY DEF Typed, CallFits
      <3>2. f.at \in LookLabels => th'[t].i \in Inos
        BY DEF Typed, CallFits
      <3>3. PICK i : i = th'[t].i
        OBVIOUS
      <3>4. PICK cap : cap = th'[t].cap
        OBVIOUS
      <3>5. SUFFICES ASSUME Learned(f.at, f.v, i, cap) PROVE Noted(t, f)'
        BY <3>3, <3>4
      <3>6. Learned(f.at, f.v, i, cap)'
        BY <1>1, <1>2, <1>3, <1>4, <3>1, <3>2, <3>3, <3>5, LearnedStays
      <3>7. QED BY <3>3, <3>4, <3>6 DEF Noted, Learned, Known, Found
    <2>2. Holding(th[t].held)'
      <3>1. PICK h : h = th'[t].held
        OBVIOUS
      <3>2. SUFFICES ASSUME h # None PROVE Found(h.v, h.i)' /\ vn'[h.v].read = "yes"
        BY <3>1 DEF Holding, Found
      <3>3. h.v \in Vnodes /\ h.i \in Inos
        BY <3>1, <3>2 DEF Typed, ThreadRecord, Open
      <3>4. Found(h.v, h.i) /\ vn[h.v].read = "yes"
        BY <3>1, <3>2 DEF Holding
      <3>5. QED BY <1>2, <1>4, <3>3, <3>4 DEF SameBody
    <2>3. QED BY <2>1, <2>2 DEF OwnNotes
  <1>9. QED BY <1>6, <1>7, <1>8, NotesGoOn

\* The labels of what a call has learned that are never under the top
BusyLabels == {"enter", "fill", "purge", "check", "got", "event", "have"}
NoteLabels == BusyLabels \union {"gone_end", "cached"}

LEMMA UnderHas ==
  ASSUME Ready, NEW t \in Threads, InCall(t)
  PROVE  /\ Vs(Below(t), BusyLabels) = {}
         /\ \A f \in Frames(Below(t)) : /\ f.at \notin BusyLabels
                                        /\ f.at = "gone_end" => Top(t).at \notin CleanLabels
  <1> DEFINE f == Top(t)
             s == Below(t)
             L == BusyLabels
  <1>1. f \in Frame /\ s \in Seq(Frame) /\ OnTop(f, s)
        /\ (f.at \in CleanLabels => Vs(s, CleanLabels) = {})
    BY CallIsShaped, ReadyIs
  <1>2. L \cap (CallLabels \union {"drop", "end", "dup", "init"}) = {}
        /\ L \cap CallLabels = {} /\ "drop" \notin L /\ "gone_end" \notin L /\ "reclaim" \notin L
    BY DEF BusyLabels, CallLabels
  <1> HIDE DEF f, s, L
  <1>3. \A q \in Seq(Frame) : \A v : Active(q, v) \/ Unused1(q, v) => Vs(q, L) = {}
    BY <1>2, ActiveHas
  <1>4. ASSUME Looks(f, s) PROVE Vs(s, L) = {}
    BY <1>4, EmptyStack DEF Looks
  <1>5. ASSUME Releases(f, s) PROVE Vs(s, L) = {}
    BY <1>1, <1>2, <1>5, FormVnodes DEF Releases
  <1>6. ASSUME Inactivates(f, s) PROVE Vs(s, L) = {}
    BY <1>1, <1>2, <1>6, FormVnodes DEF Inactivates
  <1>7. ASSUME CleansUsed(f, s) \/ CleansUnused(f, s) PROVE Vs(s, L) = {}
    BY <1>1, <1>3, <1>7 DEF CleansUsed, CleansUnused
  <1>8. ASSUME GivesBack(f, s) \/ Reclaims(f, s) PROVE Vs(s, L) = {}
    <2>1. s # Empty /\ Hd(s).at \in {"gone_end", "reclaim"} /\ Active(Tl(s), f.v)
      BY <1>8 DEF GivesBack, Reclaims
    <2>2. Tl(s) \in Seq(Frame) /\ Vs(s, L) = Vs(Tl(s), L)
      BY <1>1, <1>2, <2>1, ConsFacts
    <2>3. QED BY <1>3, <2>1, <2>2
  <1>9. Vs(s, L) = {}
    BY <1>1, <1>4, <1>5, <1>6, <1>7, <1>8 DEF OnTop
  <1>10. \A g \in Frames(s) : g.at \notin L /\ (g.at = "gone_end" => f.at \notin CleanLabels)
    BY <1>1, <1>9 DEF Vs, Marks, CleanLabels
  <1>11. QED BY <1>9, <1>10 DEF f, s, L

\* The frames of s are those under the top of t, and ones that have learned what
\* they need now.
Knows(t, at, v) == at # "cached" /\ Learned(at, v, th[t].i, th[t].cap)
Carries(t, s)   == \A f \in Frames(s) : f \in Frames(Below(t)) \/ Knows(t, f.at, f.v)

LEMMA CarryForms ==
  ASSUME NEW t \in Threads, InCall(t)
  PROVE  /\ Carries(t, Below(t))
         /\ \A at \in Labels : Knows(t, at, Top(t).v) => Carries(t, Top1(t, at)) /\ Top1(t, at) \in Seq(Frame)
         /\ \A at \in Labels, v \in Vnodes \union {None}, b \in BOOLEAN :
              Knows(t, at, v) => Carries(t, Push(Fr(at, v, b), Below(t)))
                                 /\ Push(Fr(at, v, b), Below(t)) \in Seq(Frame)
         /\ \A at \in Labels, v \in Vnodes \union {None}, s \in Seq(Frame) :
              Knows(t, at, v) /\ Carries(t, s) => Carries(t, Over(at, v, s))
         /\ Knows(t, Top(t).at, Top(t).v) => Carries(t, th[t].stack)
         /\ \A at : at \notin NoteLabels => \A v : Knows(t, at, v)
  <1>1. Below(t) \in Seq(Frame)
    BY DEF InCall
  <1>2. ASSUME NEW f \in Frame, NEW s \in Seq(Frame), Carries(t, s), Knows(t, f.at, f.v)
        PROVE  Carries(t, Push(f, s)) /\ Push(f, s) \in Seq(Frame)
    <2>1. Push(f, s) \in Seq(Frame) /\ Frames(Push(f, s)) = {f} \union Frames(s)
      BY PushFrame
    <2>2. QED BY <1>2, <2>1 DEF Carries
  <1>3. Carries(t, Below(t))
    BY DEF Carries
  <1>4. ASSUME NEW at \in Labels, Knows(t, at, Top(t).v)
        PROVE  Carries(t, Top1(t, at)) /\ Top1(t, at) \in Seq(Frame)
    <2>1. PICK f \in Frame : f.at = at /\ f.v = Top(t).v /\ Top1(t, at) = Push(f, Below(t))
      BY FormsAre
    <2>2. QED BY <1>1, <1>2, <1>3, <1>4, <2>1
  <1>5. ASSUME NEW at \in Labels, NEW v \in Vnodes \union {None}, NEW b \in BOOLEAN, Knows(t, at, v)
        PROVE  Carries(t, Push(Fr(at, v, b), Below(t))) /\ Push(Fr(at, v, b), Below(t)) \in Seq(Frame)
    <2>1. PICK f \in Frame : f.at = at /\ f.v = v /\ \A q : Push(Fr(at, v, b), q) = Push(f, q)
      BY FormsAre
    <2>2. Push(Fr(at, v, b), Below(t)) = Push(f, Below(t))
      BY <2>1
    <2>3. QED BY <1>1, <1>2, <1>3, <1>5, <2>1, <2>2
  <1>6. ASSUME NEW at \in Labels, NEW v \in Vnodes \union {None}, NEW s \in Seq(Frame),
               Knows(t, at, v), Carries(t, s)
        PROVE  Carries(t, Over(at, v, s))
    <2>1. PICK f \in Frame : f.at = at /\ f.v = v /\ Over(at, v, s) = Push(f, s)
      BY OverIs
    <2>2. QED BY <1>2, <1>6, <2>1
  <1>7. Knows(t, Top(t).at, Top(t).v) => Carries(t, th[t].stack)
    BY DEF Carries, InCall
  <1>8. \A at : at \notin NoteLabels => \A v : Knows(t, at, v)
    BY DEF NoteLabels, BusyLabels, Knows, Learned, LeaveLabels
  <1>9. QED BY <1>3, <1>4, <1>5, <1>6, <1>7, <1>8

\* Most steps of a call
LEMMA CalmNotes ==
  ASSUME Ready, Notes, Typed', NEW t \in Threads, OthersAgree(t), InCall(t), NEW s, Moves(t, s),
         Carries(t, s), Top(t).at # "fill", SteadyVn, FileOn, name' = name
  PROVE  Notes'
  <1>1. Typed /\ OwnNotes(t)
    BY ReadyIs DEF Notes
  <1>2. th'[t].stack = s /\ th'[t].held = None
    BY DEF Moves
  <1>0. NamesGo
    BY DEF NamesGo
  <1>3. Frames(th[t].stack) = {Top(t)} \union Frames(Below(t))
    BY DEF InCall
  <1>4. ASSUME NEW f \in Frames(s)
        PROVE  /\ Learned(f.at, f.v, th[t].i, th[t].cap)
               /\ f.at = "cached" => f \in Frames(Below(t))
    BY <1>1, <1>3 DEF Carries, Knows, OwnNotes, Noted
  <1>5. FillStep(t)
    BY <1>3, UnderHas DEF FillStep, BusyLabels
  <1>6. \A f \in Frames(s) : f.at \notin NoVnode => f.v \in Vnodes
    BY <1>2 DEF Typed, CallFits
  <1>7. CASE th'[t].i = th[t].i /\ th'[t].why = th[t].why /\ th'[t].cap \in {th[t].cap, None}
    <2>1. \A f \in Frames(s) : f.at \in {"cached", "check"} => f.v # None
      BY <1>6, NoneAssumption DEF NoVnode
    <2>2. \A f \in Frames(s) : Learned(f.at, f.v, th'[t].i, th'[t].cap)
      BY <1>4, <1>7, <2>1 DEF Learned
    <2>3. CachedStep(t)
      BY <1>2, <1>3, <1>4, <1>7, <2>1 DEF CachedStep
    <2>4. QED BY <1>0, <1>2, <1>5, <2>2, <2>3, SteadyNotes DEF Holding
  <1>8. CASE /\ Below(t) = <<>> /\ \A f \in Frames(s) : f.at \notin LookLabels
             /\ th'[t].i = None /\ th'[t].why = "other" /\ th'[t].cap = None
    <2>1. \A f \in Frames(s) : Learned(f.at, f.v, th'[t].i, th'[t].cap)
      BY <1>4, <1>8 DEF Learned, LookLabels
    <2>2. CachedStep(t)
      BY <1>2, <1>8 DEF CachedStep, LookLabels
    <2>3. QED BY <1>0, <1>2, <1>5, <1>8, <2>1, <2>2, SteadyNotes DEF Holding
  <1>9. QED BY <1>7, <1>8 DEF Moves

LEMMA SteadySteps ==
  ASSUME Typed
  PROVE  /\ SameBodies /\ SameLocks => SteadyVn
         /\ Quiet => SteadyVn
         /\ \A v \in Vnodes : /\ LocksOnly(v) => SteadyVn
                              /\ SameBodies /\ LockIs(v, TRUE) => SteadyVn
                              /\ \A n : CountsOnly(v, n) => SteadyVn
                              /\ \A b : InactOnly(v, b) => SteadyVn
                              /\ Gets(v) => SteadyVn
         /\ file' = file => FileOn
  BY DEF SameBodies, SameLocks, Quiet, LocksOnly, LockIs, CountsOnly, InactOnly, Gets, SteadyVn, FileOn

\* A vnode of no inode that nobody cleans leads nowhere.
LEMMA BadIsUnnamed ==
  ASSUME Ready, Notes, NEW v \in Vnodes, ~vn[v].xlock, vn[v].type = "bad"
  PROVE  ~vn[v].hashed /\ Unnamed(v)
  <1>1. \A i : ~Known(v, i)
    BY DEF Known
  <1>2. \A i \in Inos : name[i] # v
    BY <1>1, NoneAssumption DEF Notes, NamesAre
  <1>3. \A u \in Threads : \A f \in Frames(th[u].stack) : f.at = "cached" /\ f.v = v => th[u].cap # v
    BY <1>1 DEF Notes, OwnNotes, Noted, Learned
  <1>4. QED BY <1>2, <1>3 DEF Unnamed, Notes, ChainsAre, ChainAt

\* vgone() of a vnode
LEMMA GoneNotes ==
  ASSUME Ready, Notes, Typed', NEW t \in Threads, OthersAgree(t), InCall(t), NEW v \in Vnodes,
         NEW s \in Seq(Frame), Gone(t, v, s), Carries(t, s), Top(t).at # "fill",
         file' = file, name' = name
  PROVE  Notes'
  <1>1. Typed
    BY ReadyIs
  <1>2. CASE Quiet /\ Moves(t, s)
    BY <1>1, <1>2, SteadySteps, CalmNotes
  <1>3. ASSUME ~vn[v].xlock, LocksOnly(v), NEW a \in {"clean", "gone_end"}, a = "gone_end" <=> vn[v].type = "bad",
               Moves(t, Over(a, v, s))
        PROVE  Notes'
    <2>1. Knows(t, a, v)
      <3>1. a = "gone_end" => ~vn[v].hashed /\ Unnamed(v)
        BY <1>3, BadIsUnnamed
      <3>2. QED BY <1>3, <3>1 DEF Knows, Learned, LeaveLabels
    <2>2. Carries(t, Over(a, v, s))
      BY <1>3, <2>1, CarryForms DEF Labels
    <2>3. QED BY <1>1, <1>3, <2>2, SteadySteps, CalmNotes
  <1>4. QED BY <1>2, <1>3 DEF Gone

LEMMA PlainKnows ==
  ASSUME NEW t \in Threads, InCall(t)
  PROVE  \A at \in Labels \ NoteLabels :
           /\ Carries(t, Top1(t, at)) /\ Top1(t, at) \in Seq(Frame)
           /\ \A v \in Vnodes \union {None}, b \in BOOLEAN : Carries(t, Push(Fr(at, v, b), Below(t)))
           /\ \A v \in Vnodes \union {None}, s \in Seq(Frame) : Carries(t, s) => Carries(t, Over(at, v, s))
           /\ Top(t).at \notin NoteLabels => Carries(t, th[t].stack)
  BY CarryForms

LEMMA ReleNotes ==
  ASSUME Ready, Notes, Typed', NEW t \in Threads, OthersAgree(t),
         Rele(t) \/ Inactive(t) \/ Drop(t) \/ SleepAgain(t)
  PROVE  Notes'
  <1> DEFINE v == Top(t).v
  <1>1. /\ InCall(t) /\ file' = file /\ name' = name /\ Typed
        /\ Top(t).at \in {"rele", "inactive", "drop", "rele_slept", "vget_slept", "gone_slept"}
    BY ReleDoes, InactiveDoes, DropDoes, SleepAgainDoes, ReadyIs
  <1>2. Top(t).at # "fill" /\ Top(t).at \notin NoteLabels /\ v \in Vnodes
    BY <1>1 DEF InCall, NoVnode, NoteLabels, BusyLabels
  <1>3. {"rele_slept", "inactive", "drop", "ufs_inactive"} \subseteq Labels \ NoteLabels
    BY DEF Labels, NoteLabels, BusyLabels
  <1>4. Carries(t, Below(t)) /\ Carries(t, th[t].stack)
    BY <1>1, <1>2, <1>3, CarryForms, PlainKnows
  <1>5. \A at \in {"rele_slept", "inactive", "drop"} : Carries(t, Top1(t, at)) /\ Top1(t, at) \in Seq(Frame)
    BY <1>1, <1>3, PlainKnows
  <1>6. Carries(t, Over("ufs_inactive", v, Top1(t, "drop")))
    BY <1>1, <1>2, <1>3, <1>5, PlainKnows
  <1>7. SteadyVn /\ FileOn => \A s : Moves(t, s) /\ Carries(t, s) => Notes'
    BY <1>1, <1>2, CalmNotes
  <1>8. /\ Quiet => SteadyVn
        /\ \A n : CountsOnly(v, n) => SteadyVn
        /\ FileOn
    BY <1>1, <1>2, SteadySteps
  <1> HIDE DEF v
  <1>9. CASE Rele(t)
    <2>1. CASE UNCHANGED <<vn, th>>
      <3>1. \A x \in Vnodes : SameBody(vn'[x], vn[x]) /\ (vn[x].xlock => vn'[x].xlock)
        BY <2>1 DEF SameBody
      <3>2. OwnNotes(t)
        BY DEF Notes
      <3>3. QED BY <1>1, <1>8, <2>1, <3>1, <3>2, SteadyNotes DEF SteadyVn, NamesGo, CachedStep, FillStep, OwnNotes, Noted
    <2>2. QED BY <1>1, <1>4, <1>5, <1>7, <1>8, <1>9, <2>1, ReleDoes DEF v
  <1>10. CASE Inactive(t)
    BY <1>1, <1>5, <1>6, <1>7, <1>8, <1>10, InactiveDoes DEF v
  <1>11. CASE Drop(t)
    BY <1>1, <1>4, <1>7, <1>8, <1>11, DropDoes DEF v
  <1>12. CASE SleepAgain(t)
    BY <1>1, <1>4, <1>7, <1>8, <1>12, SleepAgainDoes
  <1>13. QED BY <1>9, <1>10, <1>11, <1>12

LEMMA UfsNotes ==
  ASSUME Ready, Notes, Typed', NEW t \in Threads, OthersAgree(t),
         UfsInactive(t) \/ Stale(t) \/ Trunc(t) \/ Ifree(t) \/ Last(t) \/ End(t)
  PROVE  Notes'
  <1> DEFINE v == Top(t).v
             s == Below(t)
  <1>1. /\ InCall(t) /\ name' = name /\ Typed
        /\ Top(t).at \in {"ufs_inactive", "stale", "trunc", "ifree", "last", "end"}
    BY UfsInactiveDoes, StaleDoes, TruncDoes, IfreeDoes, LastDoes, EndDoes, ReadyIs
  <1>2. Top(t).at # "fill" /\ v \in Vnodes
    BY <1>1 DEF InCall, NoVnode
  <1>3. {"trunc", "ifree", "last", "stale", "end"} \subseteq Labels \ NoteLabels
    BY DEF Labels, NoteLabels, BusyLabels
  <1>4. Carries(t, s) /\ s \in Seq(Frame)
    BY <1>1, CarryForms DEF InCall
  <1>5. \A at \in {"trunc", "ifree", "last", "stale", "end"} : Carries(t, Top1(t, at)) /\ Top1(t, at) \in Seq(Frame)
    BY <1>1, <1>3, PlainKnows
  <1>7. SteadyVn /\ FileOn => \A q : Moves(t, q) /\ Carries(t, q) => Notes'
    BY <1>1, <1>2, CalmNotes
  <1>8. /\ Quiet => SteadyVn
        /\ \A b : InactOnly(v, b) => SteadyVn
        /\ SameBodies /\ SameLocks => SteadyVn
        /\ SameBodies /\ LockIs(v, TRUE) => SteadyVn
        /\ file' = file => FileOn
    BY <1>1, <1>2, SteadySteps
  <1> HIDE DEF v, s
  <1>9. file' = file => \A q \in Seq(Frame) : Gone(t, v, q) /\ Carries(t, q) => Notes'
    BY <1>1, <1>2, GoneNotes
  <1>10. CASE UfsInactive(t)
    <2>1. file' = file
      BY <1>1, <1>10, UfsInactiveDoes
    <2>2. CASE Gone(t, v, s)
      BY <1>4, <1>9, <2>1, <2>2
    <2>3. CASE Quiet /\ Moves(t, s)
      BY <1>4, <1>7, <1>8, <2>1, <2>3
    <2>4. ASSUME InactOnly(v, TRUE), NEW at \in {"stale", "trunc", "last"}, Moves(t, Top1(t, at))
          PROVE  Notes'
      BY <1>5, <1>7, <1>8, <2>1, <2>4
    <2>5. QED BY <1>1, <1>10, <2>2, <2>3, <2>4, UfsInactiveDoes DEF v, s
  <1>11. CASE Stale(t)
    <2>1. file' = file /\ Gone(t, v, Top1(t, "end"))
      BY <1>1, <1>11, StaleDoes DEF v
    <2>2. QED BY <1>5, <1>9, <2>1
  <1>12. CASE Trunc(t) \/ Ifree(t)
    <2>1. /\ Top(t).at \in {"trunc", "ifree"} /\ Quiet
          /\ \E m \in {"reserved", "free"} : file' = [file EXCEPT ![vn[v].ino] = m]
          /\ \/ Moves(t, Top1(t, "ifree"))
             \/ Moves(t, Push(Fr("last", v, TRUE), s))
      BY <1>1, <1>12, TruncDoes, IfreeDoes DEF v, s
    <2>2. Frees(t) /\ Freed(t) = vn[v]
      BY <1>1, <2>1, CallParts DEF v
    <2>3. file[vn[v].ino] # "linked"
      BY <2>1, <2>2, ReadyIs DEF FreeingIs, Freeing
    <2>4. FileOn
      <3>1. file \in [Inos -> {"free", "reserved", "linked", "unlinked"}]
        BY <1>1 DEF Typed
      <3>2. PICK m \in {"reserved", "free"} : file' = [file EXCEPT ![vn[v].ino] = m]
        BY <2>1
      <3>3. QED BY <2>3, <3>1, <3>2 DEF FileOn
    <2>5. Carries(t, Push(Fr("last", v, TRUE), s))
      BY <1>1, <1>2, <1>3, PlainKnows DEF s
    <2>6. QED BY <1>5, <1>7, <1>8, <2>1, <2>4, <2>5
  <1>13. CASE Last(t)
    <2>1. /\ file' = file /\ SameBodies
          /\ \/ SameLocks /\ Moves(t, s)
             \/ /\ ~vn[v].xlock /\ LockIs(v, TRUE)
                /\ \E a \in {"clean", "gone_end"} : /\ a = "gone_end" <=> vn[v].type = "bad"
                                                    /\ Moves(t, Over(a, v, s))
      BY <1>1, <1>13, LastDoes DEF v, s
    <2>2. CASE SameLocks /\ Moves(t, s)
      BY <1>4, <1>7, <1>8, <2>1, <2>2
    <2>3. ASSUME ~vn[v].xlock, LockIs(v, TRUE), NEW a \in {"clean", "gone_end"},
                 a = "gone_end" <=> vn[v].type = "bad", Moves(t, Over(a, v, s))
          PROVE  Notes'
      <3>1. a = "gone_end" => ~vn[v].hashed /\ Unnamed(v)
        BY <1>2, <2>3, BadIsUnnamed
      <3>2. Knows(t, a, v)
        BY <2>3, <3>1 DEF Knows, Learned, LeaveLabels
      <3>3. Carries(t, Over(a, v, s))
        BY <1>1, <1>2, <1>4, <2>3, <3>2, CarryForms DEF Labels
      <3>4. QED BY <1>7, <1>8, <2>1, <2>3, <3>3
    <2>4. QED BY <2>1, <2>2, <2>3
  <1>14. CASE End(t)
    BY <1>1, <1>4, <1>7, <1>8, <1>14, EndDoes DEF v, s
  <1>15. QED BY <1>10, <1>11, <1>12, <1>13, <1>14

\* What a lookup has learned when it has found a vnode
LEMMA FoundLooks ==
  ASSUME Notes, NEW t \in Threads, InCall(t)
  PROVE  LET v == Top(t).v
             i == th[t].i
         IN  /\ Top(t).at = "cached" /\ ~vn[v].xlock => Knows(t, "check", v)
             /\ Top(t).at = "check" /\ th[t].cap = v => Knows(t, "got", v)
             /\ \A w \in InHash(i) : ~vn[w].xlock => Knows(t, "got", w)
             /\ Top(t).at = "got" => Knows(t, "event", v)
             /\ Top(t).at = "event" /\ vn[v].read = "yes" => Knows(t, "have", v)
  <1> DEFINE v == Top(t).v
             i == th[t].i
  <1>1. Learned(Top(t).at, v, i, th[t].cap)
    BY DEF Notes, OwnNotes, Noted, InCall
  <1>2. \A w \in InHash(i) : ~vn[w].xlock => Found(w, i)
    BY DEF Notes, ChainsAre, ChainAt, InHash, Found
  <1>3. Known(v, i) /\ ~vn[v].xlock => Found(v, i)
    BY DEF Known, Found
  <1>4. QED BY <1>1, <1>2, <1>3 DEF Learned, Knows, LeaveLabels

LEMMA LookNotes ==
  ASSUME Ready, Notes, Typed', NEW t \in Threads, OthersAgree(t),
         \/ Clean(t) \/ GoneSlept(t) \/ Cached(t) \/ Check(t) \/ Scan(t) \/ Get(t) \/ Vget(t)
         \/ VgetSlept(t) \/ Got(t) \/ Event(t) \/ Dup(t) \/ Fail(t)
  PROVE  Notes'
  <1> DEFINE v == Top(t).v
             s == Below(t)
  <1>1. /\ InCall(t) /\ name' = name /\ FileOn /\ Typed
        /\ Top(t).at \in {"clean", "gone_slept", "cached", "check", "scan", "get", "vget", "vget_slept",
                          "got", "event", "dup", "fail"}
    <2>1. CASE Fail(t)
      <3>1. /\ InCall(t) /\ Top(t).at = "fail" /\ name' = name /\ Typed
            /\ file' = IF th[t].why = "create" THEN [file EXCEPT ![th[t].i] = "free"] ELSE file
        BY <2>1, FailDoes, ReadyIs
      <3>2. th[t].why = "create" => file[th[t].i] = "reserved"
        BY ReadyIs DEF CreatesIs
      <3>3. FileOn
        BY <3>1, <3>2 DEF FileOn, Typed
      <3>4. QED BY <3>1, <3>3
    <2>2. file' = file => FileOn
      BY DEF FileOn
    <2>3. QED BY <2>1, <2>2, CleanDoes, GoneSleptDoes, CachedDoes, CheckDoes, ScanDoes, GetDoes, VgetDoes,
              VgetSleptDoes, GotDoes, EventDoes, DupDoes, ReadyIs
  <1>2. /\ Top(t).at # "fill" /\ v \in Vnodes \union {None} /\ Top(t).flag \in BOOLEAN
        /\ Top(t).at \notin {"scan", "get", "fail"} => v \in Vnodes
    BY <1>1 DEF InCall, NoVnode
  <1>3. /\ {"dead", "scan", "get", "vget", "vget_slept", "got_slept", "new", "fail", "rele"} \subseteq Labels \ NoteLabels
        /\ {"check", "got", "event", "have"} \subseteq Labels
    BY DEF Labels, NoteLabels, BusyLabels
  <1>4. Carries(t, s) /\ s \in Seq(Frame)
    BY <1>1, CarryForms DEF InCall
  <1>5. \A at \in {"dead", "scan", "get", "vget_slept", "got_slept", "new", "fail"} :
           Carries(t, Top1(t, at)) /\ Top1(t, at) \in Seq(Frame)
    BY <1>1, <1>3, PlainKnows
  <1>6. \A at \in {"scan", "get", "fail"} : v \in Vnodes => Carries(t, Over("rele", v, Top1(t, at)))
    BY <1>1, <1>3, <1>5, PlainKnows
  <1>7. \A w \in Vnodes, b \in BOOLEAN : /\ Carries(t, Push(Fr("vget", w, b), s))
                                         /\ Carries(t, Push(Fr("dead", w, b), s))
    BY <1>1, <1>3, PlainKnows
  <1>8. /\ \A at \in {"check", "event", "have"} : Knows(t, at, v) => Carries(t, Top1(t, at))
        /\ \A w \in Vnodes, b \in BOOLEAN : Knows(t, "got", w) => Carries(t, Push(Fr("got", w, b), s))
    BY <1>1, <1>3, CarryForms
  <1>9. /\ Top(t).at = "cached" /\ ~vn[v].xlock => Knows(t, "check", v)
        /\ Top(t).at = "check" /\ th[t].cap = v => Knows(t, "got", v)
        /\ \A w \in InHash(th[t].i) : ~vn[w].xlock => Knows(t, "got", w)
        /\ Top(t).at = "got" => Knows(t, "event", v)
        /\ Top(t).at = "event" /\ vn[v].read = "yes" => Knows(t, "have", v)
    BY <1>1, FoundLooks
  <1>10. SteadyVn => \A q : Moves(t, q) /\ Carries(t, q) => Notes'
    BY <1>1, <1>2, CalmNotes, SteadySteps
  <1>11. /\ Quiet => SteadyVn
         /\ \A w \in Vnodes : (Gets(w) => SteadyVn) /\ \A n : CountsOnly(w, n) => SteadyVn
    BY <1>1, SteadySteps
  <1> HIDE DEF v, s
  <1>12. CASE Clean(t)
    <2>1. Top(t).at = "clean" /\ \E n \in Int, b \in BOOLEAN : TakesRef(t, v, n, b)
      BY <1>1, <1>12, CleanDoes DEF v
    <2>2. PICK n \in Int, b \in BOOLEAN : TakesRef(t, v, n, b)
      BY <2>1
    <2>3. CountsOnly(v, n) /\ Moves(t, Push(Fr("dead", v, b), s))
      BY <2>2 DEF TakesRef, s
    <2>4. v \in Vnodes
      BY <1>2, <2>1
    <2>5. QED BY <1>7, <1>10, <1>11, <2>3, <2>4
  <1>13. CASE GoneSlept(t)
    BY <1>1, <1>4, <1>10, <1>11, <1>13, GoneSleptDoes DEF s
  <1>14. CASE Cached(t)
    BY <1>1, <1>2, <1>5, <1>8, <1>9, <1>10, <1>11, <1>14, CachedDoes DEF v
  <1>15. CASE Check(t)
    BY <1>1, <1>2, <1>6, <1>8, <1>9, <1>10, <1>11, <1>15, CheckDoes DEF v, s
  <1>16. CASE Scan(t)
    BY <1>1, <1>4, <1>5, <1>10, <1>11, <1>16, ScanDoes DEF s
  <1>17. CASE Get(t)
    <2>1. \/ Quiet /\ \E w \in Vnodes : Moves(t, Push(Fr("vget", w, Top(t).flag), s))
          \/ \E w \in InHash(th[t].i) : /\ ~vn[w].xlock /\ Gets(w)
                                        /\ Moves(t, Push(Fr("got", w, Top(t).flag), s))
          \/ Quiet /\ Moves(t, Top1(t, "new"))
      BY <1>1, <1>17, GetDoes DEF s
    <2>2. \A w \in InHash(th[t].i) : w \in Vnodes
      BY DEF InHash
    <2>3. QED BY <1>2, <1>5, <1>7, <1>8, <1>9, <1>10, <1>11, <2>1, <2>2
  <1>18. CASE Vget(t)
    BY <1>1, <1>2, <1>5, <1>6, <1>10, <1>11, <1>18, VgetDoes DEF v
  <1>19. CASE VgetSlept(t)
    BY <1>1, <1>5, <1>10, <1>11, <1>19, VgetSleptDoes
  <1>20. CASE Got(t)
    BY <1>1, <1>5, <1>8, <1>9, <1>10, <1>11, <1>20, GotDoes DEF v
  <1>21. CASE Event(t)
    BY <1>1, <1>2, <1>6, <1>8, <1>9, <1>10, <1>11, <1>21, EventDoes DEF v
  <1>22. CASE Dup(t)
    BY <1>1, <1>2, <1>6, <1>10, <1>11, <1>22, DupDoes DEF v
  <1>23. CASE Fail(t)
    BY <1>1, <1>4, <1>10, <1>11, <1>23, FailDoes DEF s
  <1>24. QED BY <1>12, <1>13, <1>14, <1>15, <1>16, <1>17, <1>18, <1>19, <1>20, <1>21, <1>22, <1>23

LEMMA NewNotes ==
  ASSUME Ready, Notes, Typed', NEW t \in Threads, OthersAgree(t), New(t)
  PROVE  Notes'
  <1>1. /\ InCall(t) /\ name' = name /\ file' = file /\ Typed /\ Top(t).at = "new" /\ free \subseteq Vnodes
        /\ Top(t).flag \in BOOLEAN
    BY NewDoes, ReadyIs DEF Typed, InCall
  <1>2. {"init", "fail", "clean"} \subseteq Labels \ NoteLabels
    BY DEF Labels, NoteLabels, BusyLabels
  <1>3. SteadyVn => \A q : Moves(t, q) /\ Carries(t, q) => Notes'
    BY <1>1, CalmNotes, SteadySteps
  <1>4. CASE Quiet /\ Moves(t, Top1(t, "fail"))
    BY <1>1, <1>2, <1>3, <1>4, PlainKnows, SteadySteps
  <1>5. ASSUME NEW v \in free,
               \/ Quiet /\ Moves(t, Push(Fr("init", v, Top(t).flag), Below(t)))
               \/ LocksOnly(v) /\ Moves(t, Over("clean", v, Push(Fr("init", v, Top(t).flag), Below(t))))
        PROVE  Notes'
    <2> DEFINE q == Push(Fr("init", v, Top(t).flag), Below(t))
    <2>1. v \in Vnodes
      BY <1>1
    <2>2. Carries(t, q)
      BY <1>1, <1>2, <2>1, PlainKnows
    <2>3. q \in Seq(Frame)
      <3>1. PICK f \in Frame : Push(Fr("init", v, Top(t).flag), Below(t)) = Push(f, Below(t))
        BY <1>1, <1>2, <2>1, FormsAre
      <3>2. QED BY <1>1, <3>1, PushFrame DEF InCall
    <2> HIDE DEF q
    <2>4. Carries(t, Over("clean", v, q))
      BY <1>1, <1>2, <2>1, <2>2, <2>3, PlainKnows
    <2>5. (Quiet => SteadyVn) /\ (LocksOnly(v) => SteadyVn)
      BY <1>1, <2>1, SteadySteps
    <2>6. QED BY <1>3, <1>5, <2>2, <2>4, <2>5 DEF q
  <1>6. QED BY <1>1, <1>4, <1>5, NewDoes

\* One vnode changes.
OnlyAt(w) == \A v \in Vnodes \ {w} : SameBody(vn'[v], vn[v]) /\ (vn[v].xlock => vn'[v].xlock)
\* What it must be for t to change w
Alone(t, w) ==
  /\ OnlyAt(w)
  /\ \A u \in Threads \ {t} : /\ Owner(u, w) => /\ \A i \in Inos : Found(w, i) => Found(w, i)'
                                                /\ vn[w].read = "yes" => vn'[w].read = "yes"
                              /\ w \notin Leaves(u) /\ \A f \in Makes(u) : f.v # w
  /\ \A i \in Inos : Known(w, i) => Known(w, i)' \/ Unnamed(w)
  /\ ChainAt(w)'
  /\ Top(t).at \in CleanLabels \union LookLabels /\ (Top(t).at = "fill" => Top(t).v = w)

LEMMA SameKeeps ==
  ASSUME NEW v \in Vnodes, SameBody(vn'[v], vn[v]), vn[v].xlock => vn'[v].xlock, file' = file
  PROVE  \A i \in Inos : (Found(v, i) => Found(v, i)') /\ (Known(v, i) => Known(v, i)')
  BY DEF SameBody, Found, Known

LEMMA AloneNotes ==
  ASSUME Ready, Notes, Typed', NEW t \in Threads, OthersAgree(t), InCall(t), NEW s, Moves(t, s),
         NEW w \in Vnodes, Alone(t, w), file' = file, name' = name,
         \A f \in Frames(s) : f \in Frames(Below(t)) \/ (f.at # "cached" /\ Noted(t, f)')
  PROVE  Notes'
  <1>1. Typed /\ Shapes /\ OwnNotes(t)
    BY ReadyIs DEF Notes
  <1>2. th'[t].stack = s /\ th'[t].held = None /\ Frames(th[t].stack) = {Top(t)} \union Frames(Below(t))
    BY DEF Moves, InCall
  <1>3. ASSUME NEW v \in Vnodes \ {w}
        PROVE  /\ \A i \in Inos : (Found(v, i) => Found(v, i)') /\ (Known(v, i) => Known(v, i)')
               /\ SameBody(vn'[v], vn[v]) /\ (vn[v].xlock => vn'[v].xlock)
    BY SameKeeps DEF Alone, OnlyAt
  <1>4. \A f \in Frames(s) : f.at \notin NoVnode => f.v \in Vnodes
    BY <1>2 DEF Typed, CallFits
  <1>5. CachedStep(t)
    <2>1. ASSUME NEW f \in Frames(s), f.at = "cached", th'[t].cap = f.v
          PROVE  f \in Frames(th[t].stack) /\ th[t].cap = f.v
      <3>1. f \in Frames(th[t].stack) /\ f.v # None
        BY <1>2, <1>4, <2>1, NoneAssumption DEF NoVnode
      <3>2. QED BY <2>1, <3>1 DEF Moves
    <2>2. QED BY <1>2, <2>1 DEF CachedStep
  <1>6. \A v \in Vnodes : Unnamed(v) => Unnamed(v)'
    BY <1>1, <1>5, UnnamedStays DEF NamesGo
  <1>7. \A u \in Threads : /\ \A f \in Makes(u) : f.v \in Vnodes
                           /\ \A v \in Leaves(u) : v \in Vnodes
    <2>1. \A u \in Threads : Leaves(u) \subseteq Cleaning(u)
      BY LabelSets DEF Leaves, Cleaning, Vs, Marks
    <2>2. QED BY <1>1, <2>1, BlockedAre, CleaningVnodes
  <1>8. FoundStep(t) /\ MadeStep(t) /\ LeftStep(t) /\ KnownStep /\ NameStep
    <2>1. FoundStep(t)
      <3>1. ASSUME NEW v \in Vnodes, \E u \in Threads \ {t} : Owner(u, v)
            PROVE  /\ \A i \in Inos : Found(v, i) => Found(v, i)'
                   /\ vn[v].read = "yes" => vn'[v].read = "yes"
        <4>1. CASE v = w
          BY <3>1, <4>1 DEF Alone
        <4>2. CASE v # w
          BY <1>3, <4>2 DEF SameBody
        <4>3. QED BY <4>1, <4>2
      <3>2. QED BY <3>1 DEF FoundStep
    <2>3. MadeStep(t)
      BY <1>3, <1>7 DEF MadeStep, Alone
    <2>4. LeftStep(t)
      BY <1>3, <1>6, <1>7 DEF LeftStep, Alone, SameBody
    <2>5. KnownStep /\ NameStep
      <3>1. ASSUME NEW v \in Vnodes, NEW i \in Inos, Known(v, i) PROVE Known(v, i)' \/ Unnamed(v)'
        <4>1. CASE v = w
          BY <1>6, <3>1, <4>1 DEF Alone
        <4>2. CASE v # w
          BY <1>3, <3>1, <4>2
        <4>3. QED BY <4>1, <4>2
      <3>2. QED BY <3>1 DEF KnownStep, NameStep
    <2>6. QED BY <2>1, <2>3, <2>4, <2>5
  <1>9. ChainsAre'
    <2>1. ASSUME NEW v \in Vnodes \ {w}, Filled(v) PROVE Filled(v)'
      <3>1. PICK u \in Threads : \E f \in Frames(th[u].stack) : f.at = "fill" /\ f.v = v
        BY <2>1 DEF Filled
      <3>2. u # t
        BY <1>2, <3>1, UnderHas DEF Alone, BusyLabels
      <3>3. \E f \in Frames(th'[u].stack) : f.at = "fill" /\ f.v = v
        BY <3>1, <3>2 DEF OthersAgree, Agree
      <3>4. QED BY <3>3 DEF Filled
    <2>2. ASSUME NEW v \in Vnodes \ {w} PROVE ChainAt(v)'
      <3>1. ChainAt(v)
        BY DEF Notes, ChainsAre
      <3>2. QED BY <1>3, <2>1, <3>1 DEF ChainAt, SameBody
    <2>3. QED BY <2>2 DEF ChainsAre, Alone
  <1>10. ASSUME NEW f \in Frames(Below(t)) PROVE Noted(t, f)' \/ f \notin Frames(s)
    <2>1. SUFFICES ASSUME f \in Frames(s) PROVE Noted(t, f)'
      OBVIOUS
    <2>2. Learned(f.at, f.v, th[t].i, th[t].cap)
      BY <1>1, <1>2 DEF OwnNotes, Noted
    <2>3. f.at \notin BusyLabels /\ f.at # "gone_end"
      <3>1. Top(t).at \in LookLabels => Below(t) = Empty
        BY <1>1, CallIsShaped
      <3>2. Frames(Empty) = {}
        BY EmptyStack, FramesInSet DEF Empty
      <3>3. QED BY <3>1, <3>2, UnderHas DEF Alone
    <2>5. CASE f.at = "cached"
      <3>1. SUFFICES ASSUME th'[t].cap = f.v PROVE Known(f.v, th[t].i)'
        BY <2>5 DEF Noted, Learned, LeaveLabels
      <3>2. f.v \in Vnodes /\ f.v # None /\ Below(t) # <<>>
        <4>1. Frames(<<>>) = {}
          BY EmptyStack, FramesInSet DEF Empty
        <4>2. QED BY <1>4, <2>1, <2>5, <4>1, NoneAssumption DEF NoVnode
      <3>3. th'[t].i = th[t].i /\ th[t].cap = f.v /\ th[t].i \in Inos
        <4>1. th'[t].i = th[t].i /\ th[t].cap = f.v
          BY <3>1, <3>2 DEF Moves
        <4>2. th[t].i \in Inos
          BY <1>1, <1>2, <2>5 DEF Typed, CallFits, LookLabels
        <4>3. QED BY <4>1, <4>2
      <3>4. PICK v \in Vnodes, i \in Inos : v = f.v /\ i = th[t].i
        BY <3>2, <3>3
      <3>5. Known(v, i)
        BY <2>2, <2>5, <3>3, <3>4 DEF Learned
      <3>6. ~Unnamed(v)
        BY <1>2, <2>5, <3>3, <3>4 DEF Unnamed
      <3>7. Known(v, i)'
        <4>1. CASE v = w
          BY <3>5, <3>6, <4>1 DEF Alone
        <4>2. CASE v # w
          BY <1>3, <3>5, <4>2
        <4>3. QED BY <4>1, <4>2
      <3>8. QED BY <3>3, <3>4, <3>7 DEF Known
    <2>6. CASE f.at # "cached"
      BY <2>3, <2>6 DEF Noted, Learned, LeaveLabels, BusyLabels
    <2>7. QED BY <2>5, <2>6
  <1>11. OwnNotes(t)'
    <2>1. \A f \in Frames(th'[t].stack) : Noted(t, f)'
      BY <1>2, <1>10
    <2>2. QED BY <1>2, <2>1 DEF OwnNotes, Holding
  <1>12. QED BY <1>8, <1>9, <1>11, NotesGoOn

\* What a call that cleans a vnode has of it
LEMMA CleanersKnow ==
  ASSUME Ready, NEW t \in Threads, InCall(t), Top(t).at \in CleanLabels
  PROVE  LET v == Top(t).v
         IN  /\ v \in Vnodes /\ vn[v].xlock /\ v \in Cleaning(t) /\ ~Filled(v)
             /\ \A u \in Threads \ {t} : v \notin Leaves(u) /\ \A f \in Makes(u) : f.v # v
  <1> DEFINE v == Top(t).v
  <1>1. Typed /\ Shapes /\ LocksAre /\ MakersAre
    BY ReadyIs
  <1>2. v \in Cleaning(t) /\ v \in Vnodes /\ v \in Blocks(t)
    BY <1>1, CallIsShaped, CleaningVnodes, BlockedAre
  <1>3. vn[v].xlock /\ \A u \in Threads \ {t} : v \notin Cleaning(u)
    BY <1>1, <1>2 DEF LocksAre
  <1>4. \A u \in Threads : Leaves(u) \subseteq Cleaning(u)
    BY LabelSets DEF Leaves, Cleaning, Vs, Marks
  <1>5. \A u \in Threads \ {t} : \A f \in Makes(u) : f.v # v
    BY <1>1, <1>2 DEF MakersAre
  <1>6. ~Filled(v)
    <2>1. SUFFICES ASSUME Filled(v) PROVE FALSE
      OBVIOUS
    <2>2. PICK x \in Threads : \E g \in Frames(th[x].stack) : g.at = "fill" /\ g.v = v
      BY <2>1 DEF Filled
    <2>3. PICK g \in Frames(th[x].stack) : g.at = "fill" /\ g.v = v
      BY <2>2
    <2>4. x = t
      BY <1>5, <2>3 DEF Makes, Marks, MakeLabels
    <2>5. g \in Frames(Below(t))
      BY <2>3, <2>4 DEF InCall, CleanLabels
    <2>6. QED BY <2>3, <2>5, UnderHas DEF BusyLabels
  <1>7. QED BY <1>2, <1>3, <1>4, <1>5, <1>6

\* Nobody else has a vnode that is cleaned, but for one whose inode could not be
\* read or was there already.
LEMMA CleanedFound ==
  ASSUME Ready, Private, NEW t \in Threads, InCall(t), Top(t).at \in CleanLabels,
         NEW u \in Threads \ {t}, Owner(u, Top(t).v)
  PROVE  vn[Top(t).v].read = "error"
  <1>1. Top(t).v \in Cleaning(t) /\ panic = "none"
    BY CleanersKnow, ReadyIs
  <1>2. QED BY <1>1 DEF Private, Ready

\* The frames of s are those under the top, and ones that have learned what they
\* need with this step.
Learnt(t, at, v) == at # "cached" /\ \A f \in Frame : f.at = at /\ f.v = v => Noted(t, f)'
News(t, s)       == \A f \in Frames(s) : f \in Frames(Below(t)) \/ (f.at # "cached" /\ Noted(t, f)')

LEMMA NewsForms ==
  ASSUME NEW t \in Threads, InCall(t)
  PROVE  /\ News(t, Below(t))
         /\ \A at \in Labels : Learnt(t, at, Top(t).v) => News(t, Top1(t, at)) /\ Top1(t, at) \in Seq(Frame)
         /\ \A at \in Labels, v \in Vnodes \union {None}, s \in Seq(Frame) :
              Learnt(t, at, v) /\ News(t, s) => News(t, Over(at, v, s))
         /\ \A at : at \notin NoteLabels => \A v : Learnt(t, at, v)
  <1>1. Below(t) \in Seq(Frame)
    BY DEF InCall
  <1>2. ASSUME NEW f \in Frame, NEW s \in Seq(Frame), News(t, s), Learnt(t, f.at, f.v)
        PROVE  News(t, Push(f, s)) /\ Push(f, s) \in Seq(Frame)
    <2>1. Push(f, s) \in Seq(Frame) /\ Frames(Push(f, s)) = {f} \union Frames(s)
      BY PushFrame
    <2>2. f.at # "cached" /\ Noted(t, f)'
      BY <1>2 DEF Learnt
    <2>3. QED BY <1>2, <2>1, <2>2 DEF News
  <1>3. News(t, Below(t))
    BY DEF News
  <1>4. ASSUME NEW at \in Labels, Learnt(t, at, Top(t).v)
        PROVE  News(t, Top1(t, at)) /\ Top1(t, at) \in Seq(Frame)
    <2>1. PICK f \in Frame : f.at = at /\ f.v = Top(t).v /\ Top1(t, at) = Push(f, Below(t))
      BY FormsAre
    <2>2. QED BY <1>1, <1>2, <1>3, <1>4, <2>1
  <1>5. ASSUME NEW at \in Labels, NEW v \in Vnodes \union {None}, NEW s \in Seq(Frame),
               Learnt(t, at, v), News(t, s)
        PROVE  News(t, Over(at, v, s))
    <2>1. PICK f \in Frame : f.at = at /\ f.v = v /\ Over(at, v, s) = Push(f, s)
      BY OverIs
    <2>2. QED BY <1>2, <1>5, <2>1
  <1>6. \A at : at \notin NoteLabels => \A v : Learnt(t, at, v)
    BY DEF NoteLabels, BusyLabels, Learnt, Noted, Learned, LeaveLabels
  <1>7. QED BY <1>3, <1>4, <1>5, <1>6

LEMMA CleanNotes ==
  ASSUME Ready, Notes, Private, Typed', NEW t \in Threads, OthersAgree(t), Dead(t) \/ Reclaim(t) \/ GoneEnd(t)
  PROVE  Notes'
  <1>0. PICK v : v = Top(t).v
    OBVIOUS
  <1>1. /\ InCall(t) /\ name' = name /\ file' = file /\ Typed
        /\ Top(t).at \in {"dead", "reclaim", "gone_end"}
    BY DeadDoes, ReclaimDoes, GoneEndDoes, ReadyIs
  <1>2. Top(t).at \in CleanLabels
    BY <1>1 DEF CleanLabels
  <1>3. /\ v \in Vnodes /\ vn[v].xlock /\ ~Filled(v)
        /\ \A u \in Threads \ {t} : v \notin Leaves(u) /\ \A f \in Makes(u) : f.v # v
    BY <1>0, <1>1, <1>2, CleanersKnow
  <1>4. ChainAt(v) /\ Learned(Top(t).at, v, th[t].i, th[t].cap)
    BY <1>0, <1>1, <1>3 DEF Notes, ChainsAre, OwnNotes, Noted, InCall
  <1>5. \A u \in Threads \ {t} : Owner(u, v) => vn[v].read = "error"
    BY <1>0, <1>1, <1>2, CleanedFound
  <1>6. /\ {"reclaim", "ufs_inactive"} \subseteq Labels \ NoteLabels /\ "purge" \in Labels
    BY DEF Labels, NoteLabels, BusyLabels
  <1>7. ASSUME vn'[v].ino = vn[v].ino, vn'[v].read = vn[v].read, OnlyAt(v), ChainAt(v)',
               vn'[v].xlock \/ Unnamed(v)
        PROVE  Alone(t, v)
    <2>1. \A u \in Threads \ {t} : Owner(u, v) => /\ \A i \in Inos : Found(v, i) => Found(v, i)'
                                                  /\ vn[v].read = "yes" => vn'[v].read = "yes"
      BY <1>5, <1>7 DEF Found
    <2>2. \A i \in Inos : Known(v, i) => Known(v, i)' \/ Unnamed(v)
      BY <1>3, <1>7 DEF Known
    <2>3. QED BY <1>1, <1>2, <1>3, <1>7, <2>1, <2>2 DEF Alone
  <1>8. Alone(t, v) => \A s : Moves(t, s) /\ News(t, s) => Notes'
    BY <1>1, <1>3, AloneNotes DEF News
  <1>9. CASE Dead(t)
    <2>1. /\ BodiesOnly /\ BodyIs(v, vn[v].type, "dead", vn[v].ino, vn[v].hashed, vn[v].listed, vn[v].read)
          /\ \/ Moves(t, Over("ufs_inactive", v, Top1(t, "reclaim")))
             \/ Moves(t, Top1(t, "reclaim"))
      BY <1>1, <1>9, DeadDoes, <1>0
    <2>2. OnlyAt(v) /\ vn'[v].xlock /\ vn'[v].ino = vn[v].ino /\ vn'[v].read = vn[v].read
      BY <1>3, <2>1 DEF OnlyAt, BodiesOnly, BodyIs, SameLocks
    <2>3. ChainAt(v)'
      <3>1. vn[v].hashed => vn[v].listed
        BY <1>3, <1>4 DEF ChainAt
      <3>2. QED BY <1>1, <1>3, <1>4, <2>1, <2>2, <3>1 DEF ChainAt, BodyIs
    <2>4. News(t, Top1(t, "reclaim")) /\ Top1(t, "reclaim") \in Seq(Frame)
      BY <1>0, <1>1, <1>6, NewsForms
    <2>5. News(t, Over("ufs_inactive", v, Top1(t, "reclaim")))
      BY <1>1, <1>3, <1>6, <2>4, NewsForms
    <2>6. QED BY <1>7, <1>8, <2>1, <2>2, <2>3, <2>4, <2>5
  <1>10. CASE Reclaim(t)
    <2>1. /\ BodiesOnly /\ BodyIs(v, vn[v].type, vn[v].ops, vn[v].ino, FALSE, vn[v].listed, vn[v].read)
          /\ Moves(t, Top1(t, "purge"))
      BY <1>1, <1>10, ReclaimDoes, <1>0
    <2>2. OnlyAt(v) /\ vn'[v].xlock /\ vn'[v].ino = vn[v].ino /\ vn'[v].read = vn[v].read /\ ~vn'[v].hashed
      BY <1>3, <2>1 DEF OnlyAt, BodiesOnly, BodyIs, SameLocks
    <2>3. ChainAt(v)'
      <3>1. vn[v].hashed => vn[v].listed
        BY <1>3, <1>4 DEF ChainAt
      <3>2. QED BY <1>1, <1>3, <1>4, <2>1, <2>2, <3>1 DEF ChainAt, BodyIs
    <2>4. Learnt(t, "purge", v)
      BY <2>2 DEF Learnt, Noted, Learned
    <2>5. News(t, Top1(t, "purge"))
      BY <1>1, <1>6, <2>4, <1>0, NewsForms
    <2>6. QED BY <1>7, <1>8, <2>1, <2>2, <2>3, <2>5
  <1>11. CASE GoneEnd(t)
    <2>1. /\ LockIs(v, FALSE) /\ BodyIs(v, "bad", vn[v].ops, vn[v].ino, vn[v].hashed, FALSE, vn[v].read)
          /\ Moves(t, Below(t)) /\ Top(t).at = "gone_end"
      BY <1>1, <1>11, GoneEndDoes, <1>0
    <2>2. ~vn[v].hashed /\ Unnamed(v)
      BY <1>4, <2>1 DEF Learned, LeaveLabels
    <2>3. OnlyAt(v) /\ vn'[v].ino = vn[v].ino /\ vn'[v].read = vn[v].read /\ ~vn'[v].hashed /\ ~vn'[v].listed
      BY <2>1, <2>2 DEF OnlyAt, LockIs, BodyIs
    <2>4. ChainAt(v)'
      BY <2>3 DEF ChainAt
    <2>5. QED BY <1>1, <1>7, <1>8, <2>1, <2>2, <2>3, <2>4, NewsForms
  <1>12. QED BY <1>9, <1>10, <1>11

\* cache_purge() of the vnode that is cleaned
LEMMA PurgeNotes ==
  ASSUME Ready, Notes, Typed', NEW t \in Threads, OthersAgree(t), Purge(t)
  PROVE  Notes'
  <1>0. PICK v : v = Top(t).v
    OBVIOUS
  <1>1. /\ InCall(t) /\ Top(t).at = "purge" /\ file' = file /\ Quiet /\ Typed
        /\ CachePurge(v) /\ \A u \in Threads : th'[u].cap # v
        /\ \/ Moves(t, Over("rele", v, Top1(t, "gone_end")))
           \/ Moves(t, Top1(t, "gone_end"))
    BY <1>0, PurgeDoes, ReadyIs
  <1>2. v \in Vnodes /\ v # None
    BY <1>0, <1>1, NoneAssumption DEF InCall, NoVnode
  <1>3. SteadyVn /\ FileOn
    BY <1>1, SteadySteps
  <1>4. NamesGo
    BY <1>1 DEF CachePurge, NamesGo
  <1>5. Learned("purge", v, th[t].i, th[t].cap) /\ OwnNotes(t)
    BY <1>0, <1>1 DEF Notes, OwnNotes, Noted, InCall
  <1>6. Unnamed(v)' /\ ~vn'[v].hashed
    <2>1. \A i \in Inos : name'[i] # v
      BY <1>1, <1>2 DEF CachePurge
    <2>2. ~vn'[v].hashed
      BY <1>2, <1>3, <1>5 DEF Learned, LeaveLabels, SteadyVn, SameBody
    <2>3. QED BY <1>1, <2>1, <2>2 DEF Unnamed
  <1>7. {"gone_end", "rele"} \subseteq Labels /\ "rele" \notin NoteLabels
    BY DEF Labels, NoteLabels, BusyLabels
  <1>8. Learnt(t, "gone_end", v)
    <2>1. ASSUME NEW f \in Frame, f.at = "gone_end", f.v = v PROVE Noted(t, f)'
      <3>1. Unnamed(f.v)' /\ ~vn'[f.v].hashed
        BY <1>6, <2>1 DEF Unnamed
      <3>2. QED BY <2>1, <3>1 DEF Noted, Learned, LeaveLabels
    <2>2. QED BY <2>1 DEF Learnt
  <1>9. News(t, Top1(t, "gone_end")) /\ Top1(t, "gone_end") \in Seq(Frame)
    BY <1>1, <1>7, <1>8, <1>0, NewsForms
  <1>10. News(t, Over("rele", v, Top1(t, "gone_end")))
    BY <1>1, <1>2, <1>7, <1>9, NewsForms
  <1>11. PICK s : Moves(t, s) /\ News(t, s)
    BY <1>1, <1>9, <1>10
  <1>12. th'[t].stack = s /\ th'[t].held = None /\ Frames(th[t].stack) = {Top(t)} \union Frames(Below(t))
    BY <1>1, <1>11 DEF Moves, InCall
  <1>13. \A f \in Frames(s) : f.at \notin NoVnode => f.v \in Vnodes
    BY <1>12 DEF Typed, CallFits
  <1>14. \A f \in Frames(s) : f \notin Frames(Below(t)) => f.at # "cached" /\ Noted(t, f)'
    BY <1>11 DEF News
  <1>15. FillStep(t)
    BY <1>1, <1>12, UnderHas DEF FillStep, BusyLabels
  <1>16. CachedStep(t) /\ \A f \in Frames(Below(t)) : f \in Frames(s) => Learned(f.at, f.v, th'[t].i, th'[t].cap)
    <2>1. \A f \in Frames(s) : f.at \in {"cached", "check"} => f.v # None
      BY <1>13, NoneAssumption DEF NoVnode
    <2>2. Below(t) # <<>> => th'[t].i = th[t].i /\ th'[t].cap \in {th[t].cap, None}
      BY <1>11 DEF Moves
    <2>3. \A f \in Frames(Below(t)) : Below(t) # <<>> /\ Learned(f.at, f.v, th[t].i, th[t].cap)
      <3>1. Frames(<<>>) = {}
        BY EmptyStack, FramesInSet DEF Empty
      <3>2. QED BY <1>5, <1>12, <3>1 DEF OwnNotes, Noted
    <2>4. CachedStep(t)
      BY <1>12, <1>14, <2>1, <2>2, <2>3 DEF CachedStep
    <2>5. QED BY <2>1, <2>2, <2>3, <2>4 DEF Learned
  <1>17. QED BY <1>3, <1>4, <1>12, <1>14, <1>15, <1>16, SteadyNotes DEF Holding

LEMMA TwoFrames ==
  ASSUME NEW g \in Frame, NEW h \in Frame, NEW s, s = Empty
  PROVE  Frames(Push(h, Push(g, s))) = {h, g}
  <1>1. s \in Seq(Frame) /\ Frames(s) = {}
    BY EmptyStack, FramesInSet DEF Empty
  <1>2. Push(g, s) \in Seq(Frame) /\ Frames(Push(g, s)) = {g}
    BY <1>1, PushFrame
  <1>3. Frames(Push(h, Push(g, s))) = {h} \union Frames(Push(g, s))
    BY <1>2, PushFrame
  <1>4. QED BY <1>2, <1>3

\* The lookup begins again when the inactivation of what it has found is over.
LEMMA GotSleptNotes ==
  ASSUME Ready, Notes, Typed', NEW t \in Threads, OthersAgree(t), GotSlept(t)
  PROVE  Notes'
  <1>1. /\ InCall(t) /\ Top(t).at = "got_slept" /\ UNCHANGED <<file, name>> /\ Quiet /\ Typed
        /\ th'[t].held = None /\ th'[t].i = th[t].i /\ th'[t].why = th[t].why
    BY GotSleptDoes, ReadyIs
  <1>2. Top(t).at \in LookLabels /\ Top(t).v \in Vnodes /\ th[t].i \in Inos
    BY <1>1 DEF LookLabels, NoVnode, InCall
  <1>3. Below(t) = Empty /\ Frames(Empty) = {} /\ Empty \in Seq(Frame)
    BY <1>1, <1>2, LookHas, EmptyStack, FramesInSet DEF Empty
  <1>4. \A at \in {"get", "scan", "cached"}, w \in Vnodes \union {None} :
           \A f \in Frames(Over("rele", Top(t).v, Push(Fr(at, w, FALSE), Below(t)))) :
              f.at = "rele" \/ (f.at = at /\ f.v = w)
    <2> SUFFICES ASSUME NEW at \in {"get", "scan", "cached"}, NEW w \in Vnodes \union {None},
                        NEW f \in Frames(Over("rele", Top(t).v, Push(Fr(at, w, FALSE), Below(t))))
                 PROVE  f.at = "rele" \/ (f.at = at /\ f.v = w)
      OBVIOUS
    <2>1. at \in Labels /\ "rele" \in Labels
      BY DEF Labels
    <2> DEFINE g == Fr(at, w, FALSE)
    <2>2. g \in Frame /\ g.at = at /\ g.v = w
      BY <2>1 DEF Fr, Frame
    <2> HIDE DEF g
    <2>3. PICK h \in Frame : h.at = "rele" /\ Over("rele", Top(t).v, Push(g, Below(t))) = Push(h, Push(g, Below(t)))
      BY <1>2, <2>1, OverIs
    <2>4. Frames(Push(h, Push(g, Below(t)))) = {h, g}
      BY <1>3, <2>2, TwoFrames
    <2>5. f \in Frames(Push(h, Push(g, Below(t))))
      BY <2>3 DEF g
    <2>6. QED BY <2>2, <2>3, <2>4, <2>5
  <1>5. SteadyVn /\ FileOn /\ NamesGo /\ Holding(th'[t].held)
    BY <1>1, SteadySteps DEF NamesGo, Holding
  <1>6. FillStep(t)
    BY <1>1, <1>3 DEF FillStep, InCall
  <1>7. \E w \in Vnodes \union {None} : \A f \in Frames(th'[t].stack) :
           f.at \in {"rele", "get", "scan"} \/ (f.at = "cached" /\ w = name[th[t].i] /\ th'[t].cap = w /\ f.v = w)
    <2>1. ASSUME NEW at \in {"get", "scan"}, NEW w \in Vnodes \union {None},
                 th'[t].stack = Over("rele", Top(t).v, Push(Fr(at, w, FALSE), Below(t)))
          PROVE  \A f \in Frames(th'[t].stack) : f.at \in {"rele", "get", "scan"}
      <3>1. at \in {"get", "scan", "cached"}
        OBVIOUS
      <3>2. \A f \in Frames(Over("rele", Top(t).v, Push(Fr(at, w, FALSE), Below(t)))) :
               f.at = "rele" \/ (f.at = at /\ f.v = w)
        BY <1>4, <3>1
      <3>3. QED BY <2>1, <3>2
    <2>2. ASSUME NEW w \in Vnodes,
                 th'[t].stack = Over("rele", Top(t).v, Push(Fr("cached", w, FALSE), Below(t)))
          PROVE  \A f \in Frames(th'[t].stack) : f.at = "rele" \/ (f.at = "cached" /\ f.v = w)
      <3>1. w \in Vnodes \union {None}
        OBVIOUS
      <3>2. \A f \in Frames(Over("rele", Top(t).v, Push(Fr("cached", w, FALSE), Below(t)))) :
               f.at = "rele" \/ (f.at = "cached" /\ f.v = w)
        BY <1>4, <3>1
      <3>3. QED BY <2>2, <3>2
    <2>3. \/ \E at \in {"get", "scan"}, w \in Vnodes \union {None} :
                th'[t].stack = Over("rele", Top(t).v, Push(Fr(at, w, FALSE), Below(t)))
          \/ \E w \in Vnodes : /\ w = name[th[t].i] /\ th'[t].cap = w
                               /\ th'[t].stack = Over("rele", Top(t).v, Push(Fr("cached", w, FALSE), Below(t)))
      BY <1>1, GotSleptDoes
    <2>4. QED BY <2>1, <2>2, <2>3
  <1>8. PICK w \in Vnodes \union {None} : \A f \in Frames(th'[t].stack) :
           f.at \in {"rele", "get", "scan"} \/ (f.at = "cached" /\ w = name[th[t].i] /\ th'[t].cap = w /\ f.v = w)
    BY <1>7
  <1>9. CachedStep(t)
    BY <1>2, <1>8 DEF CachedStep
  <1>10. \A f \in Frames(th'[t].stack) : Learned(f.at, f.v, th'[t].i, th'[t].cap)
    <2>1. name[th[t].i] # None => Known(name[th[t].i], th[t].i)
      BY <1>2 DEF Notes, NamesAre
    <2>2. \A f \in Frames(th'[t].stack) : f.at = "cached" => f.v # None
      BY NoneAssumption DEF Typed, CallFits, NoVnode
    <2>3. QED BY <1>1, <1>8, <2>1, <2>2 DEF Learned, LeaveLabels
  <1>11. QED BY <1>5, <1>6, <1>9, <1>10, SteadyNotes

\* getnewvnode() sets up the vnode that it has taken.
LEMMA VInitNotes ==
  ASSUME Ready, Notes, Typed', NEW t \in Threads, OthersAgree(t), VInit(t)
  PROVE  Notes'
  <1>0. PICK v : v = Top(t).v
    OBVIOUS
  <1>1. /\ InCall(t) /\ Top(t).at = "init" /\ UNCHANGED <<file, name>> /\ Typed /\ Shapes
        /\ LockIs(v, FALSE) /\ BodyIs(v, "none", "ufs", th[t].i, FALSE, FALSE, "no")
        /\ Moves(t, Top1(t, "enter"))
    BY <1>0, VInitDoes, ReadyIs
  <1>2. v \in Vnodes /\ Top(t).at \in LookLabels /\ th[t].i \in Inos /\ Top(t) \in Frame
    BY <1>0, <1>1 DEF InCall, NoVnode, LookLabels
  <1>3. vn[v].count = 0 /\ vn[v].type = "bad" /\ ~vn[v].xlock
    <2>1. th[t].stack # Empty /\ Hd(th[t].stack) = Top(t) /\ Top(t) \in Frames(th[t].stack)
      BY <1>1, CallIsShaped DEF InCall
    <2>2. Top(t) \in Inits(t)
      BY <1>1, <2>1 DEF Inits, Marks
    <2>3. QED BY <1>0, <1>1, <1>2, <2>1, <2>2, ReadyIs DEF InitsAre, InitTops
  <1>4. \A u \in Threads : ~Owner(u, v)
    BY <1>2, <1>3, NobodyHas
  <1>5. \A u \in Threads : v \notin Leaves(u) /\ \A f \in Makes(u) : f.v # v
    <2>1. \A u \in Threads : Leaves(u) \subseteq Cleaning(u)
      BY LabelSets DEF Leaves, Cleaning, Vs, Marks
    <2>2. \A u \in Threads : v \notin Cleaning(u)
      BY <1>2, <1>3, ReadyIs DEF LocksAre
    <2>3. \A u \in Threads : \A f \in Makes(u) : f.v # v
      BY <1>1, <1>4, BlockedAre
    <2>4. QED BY <2>1, <2>2, <2>3
  <1>6. OnlyAt(v)
    BY <1>1 DEF OnlyAt, LockIs, BodyIs
  <1>7. ChainAt(v)' /\ \A i : ~Known(v, i)
    BY <1>1, <1>3 DEF ChainAt, Known, BodyIs
  <1>8. Alone(t, v)
    BY <1>1, <1>2, <1>4, <1>5, <1>6, <1>7 DEF Alone
  <1>9. Learnt(t, "enter", v)
    <2>1. ASSUME NEW f \in Frame, f.at = "enter", f.v = v, th'[t].i = th[t].i PROVE Noted(t, f)'
      BY <1>1, <2>1 DEF Noted, Learned, LeaveLabels, BodyIs
    <2>2. th'[t].i = th[t].i
      <3>1. PICK f \in Frame : f.at = "enter" /\ Top1(t, "enter") = Push(f, Below(t))
        BY <1>1, FormsAre DEF Labels
      <3>2. f \in Frames(Top1(t, "enter"))
        BY <1>1, <3>1, PushFrame DEF InCall
      <3>3. QED BY <1>1, <3>1, <3>2 DEF Moves, LookLabels
    <2>3. QED BY <2>1, <2>2 DEF Learnt
  <1>10. News(t, Top1(t, "enter"))
    BY <1>0, <1>1, <1>9, NewsForms DEF Labels
  <1>11. QED BY <1>1, <1>2, <1>8, <1>10, AloneNotes DEF News

\* iget() makes an inode: nobody else can take its vnode away.
LEMMA MakerAlone ==
  ASSUME Ready, Notes, NEW t \in Threads, InCall(t), Top(t).at \in {"enter", "fill"}, NEW v, v = Top(t).v
  PROVE  /\ v \in Vnodes /\ Top(t).at \in LookLabels /\ th[t].i \in Inos
         /\ ~vn[v].listed /\ (vn[v].hashed <=> Top(t).at = "fill") /\ vn[v].read = "no"
         /\ vn[v].ino = th[t].i /\ vn[v].ops = "ufs" /\ vn[v].type # "bad"
         /\ \A u \in Threads \ {t} : v \notin Leaves(u) /\ \A f \in Makes(u) : f.v # v
  <1>1. Top(t).at \in MakeLabels
    BY DEF MakeLabels
  <1>2. v \in Vnodes /\ Top(t).at \in LookLabels /\ Made(Top(t)) /\ th[t].i \in Inos
    BY <1>1, MadeIs DEF InCall
  <1>3. Learned(Top(t).at, v, th[t].i, th[t].cap)
    BY DEF Notes, OwnNotes, Noted, InCall
  <1>4. Top(t) \in Makes(t)
    BY <1>1 DEF InCall, Makes, Marks
  <1>5. \A u \in Threads \ {t} : v \notin Blocks(u)
    BY <1>4, ReadyIs DEF MakersAre
  <1>6. \A u \in Threads : /\ Leaves(u) \subseteq Blocks(u)
                           /\ \A f \in Makes(u) : f.v \in Blocks(u)
    <2>1. \A u \in Threads : Leaves(u) \subseteq Cleaning(u)
      BY LabelSets DEF Leaves, Cleaning, Vs, Marks
    <2>2. QED BY <2>1, BlockedAre, ReadyIs
  <1>7. QED BY <1>2, <1>3, <1>4, <1>5, <1>6 DEF Made, Learned

\* The call of a lookup goes on.
LEMMA LookGoesOn ==
  ASSUME NEW t \in Threads, InCall(t), NEW at \in LookLabels, NEW s, Moves(t, s),
         \E f \in Frames(s) : f.at = at
  PROVE  th'[t].i = th[t].i
  BY DEF Moves

LEMMA Top1Has ==
  ASSUME NEW t \in Threads, InCall(t), NEW at \in Labels
  PROVE  \E f \in Frames(Top1(t, at)) : f \in Frame /\ f.at = at /\ f.v = Top(t).v
  <1>1. PICK f \in Frame : f.at = at /\ f.v = Top(t).v /\ Top1(t, at) = Push(f, Below(t))
    BY FormsAre
  <1>2. Frames(Push(f, Below(t))) = {f} \union Frames(Below(t))
    BY PushFrame DEF InCall
  <1>3. QED BY <1>1, <1>2

LEMMA EnterNotes ==
  ASSUME Ready, Notes, Typed', NEW t \in Threads, OthersAgree(t), Enter(t)
  PROVE  Notes'
  <1>0. PICK v : v = Top(t).v
    OBVIOUS
  <1>1. /\ InCall(t) /\ Top(t).at = "enter" /\ UNCHANGED <<file, name>> /\ Typed
        /\ \/ /\ SameLocks /\ BodyIs(v, vn[v].type, vn[v].ops, vn[v].ino, TRUE, vn[v].listed, vn[v].read)
              /\ Moves(t, Top1(t, "fill"))
           \/ /\ BodyIs(v, vn[v].type, vn[v].ops, vn[v].ino, vn[v].hashed, vn[v].listed, "error")
              /\ \/ SameLocks /\ vn[v].xlock /\ Moves(t, Top1(t, "dup"))
                 \/ /\ LockIs(v, TRUE)
                    /\ \E a \in {"clean", "gone_end"} : /\ a = "gone_end" <=> vn[v].type = "bad"
                                                        /\ Moves(t, Over(a, v, Top1(t, "dup")))
    BY <1>0, EnterDoes, ReadyIs
  <1>2. /\ v \in Vnodes /\ Top(t).at \in LookLabels /\ th[t].i \in Inos
        /\ ~vn[v].listed /\ ~vn[v].hashed /\ vn[v].read = "no"
        /\ vn[v].ino = th[t].i /\ vn[v].ops = "ufs" /\ vn[v].type # "bad"
        /\ \A u \in Threads \ {t} : v \notin Leaves(u) /\ \A f \in Makes(u) : f.v # v
    BY <1>0, <1>1, MakerAlone
  <1>3. /\ OnlyAt(v) /\ vn'[v].ino = vn[v].ino /\ vn'[v].ops = vn[v].ops /\ vn'[v].type = vn[v].type
        /\ ~vn'[v].listed /\ (vn[v].xlock => vn'[v].xlock)
    BY <1>1, <1>2 DEF OnlyAt, BodyIs, SameLocks, LockIs
  <1>4. \A i \in Inos : (Found(v, i) => Found(v, i)') /\ (Known(v, i) => Known(v, i)')
    BY <1>1, <1>2, <1>3 DEF Found, Known
  <1>5. ASSUME NEW s, Moves(t, s), News(t, s), vn'[v].hashed => Filled(v)' PROVE Notes'
    <2>1. ChainAt(v)'
      BY <1>2, <1>3, <1>5 DEF ChainAt
    <2>2. Alone(t, v)
      BY <1>1, <1>2, <1>3, <1>4, <2>1 DEF Alone
    <2>3. QED BY <1>1, <1>2, <1>5, <2>2, AloneNotes DEF News
  <1>6. /\ {"clean", "dup"} \subseteq Labels \ NoteLabels /\ "fill" \in Labels /\ "fill" \in LookLabels
    BY DEF Labels, NoteLabels, BusyLabels, LookLabels
  <1>7. CASE Moves(t, Top1(t, "fill"))
    <2>1. PICK f \in Frames(Top1(t, "fill")) : f \in Frame /\ f.at = "fill" /\ f.v = v
      BY <1>0, <1>1, <1>6, Top1Has
    <2>2. th'[t].i = th[t].i
      BY <1>1, <1>6, <1>7, <2>1, LookGoesOn
    <2>3. Learnt(t, "fill", v)
      <3>1. ASSUME NEW g \in Frame, g.at = "fill", g.v = v PROVE Noted(t, g)'
        BY <1>2, <1>3, <2>2, <3>1 DEF Noted, Learned, LeaveLabels
      <3>2. QED BY <3>1 DEF Learnt
    <2>4. News(t, Top1(t, "fill"))
      BY <1>0, <1>1, <1>6, <2>3, NewsForms
    <2>5. Filled(v)'
      BY <1>7, <2>1 DEF Filled, Moves
    <2>6. QED BY <1>5, <1>7, <2>4, <2>5
  <1>8. CASE /\ ~vn'[v].hashed
             /\ Moves(t, Top1(t, "dup")) \/ Moves(t, Over("clean", v, Top1(t, "dup")))
    <2>1. News(t, Top1(t, "dup")) /\ Top1(t, "dup") \in Seq(Frame)
      BY <1>1, <1>6, NewsForms
    <2>2. News(t, Over("clean", v, Top1(t, "dup")))
      BY <1>1, <1>2, <1>6, <2>1, NewsForms
    <2>3. QED BY <1>5, <1>8, <2>1, <2>2
  <1>9. QED BY <1>1, <1>2, <1>7, <1>8 DEF BodyIs

LEMMA FillNotes ==
  ASSUME Ready, Notes, Typed', NEW t \in Threads, OthersAgree(t), Fill(t)
  PROVE  Notes'
  <1>0. PICK v : v = Top(t).v
    OBVIOUS
  <1>1. /\ InCall(t) /\ Top(t).at = "fill" /\ UNCHANGED <<file, name>> /\ Typed /\ BodiesOnly
        /\ \/ /\ \E type \in {"none", "reg"} : BodyIs(v, type, vn[v].ops, vn[v].ino, vn[v].hashed, TRUE, "yes")
              /\ Moves(t, Top1(t, "have"))
           \/ /\ BodyIs(v, vn[v].type, vn[v].ops, vn[v].ino, FALSE, vn[v].listed, "error")
              /\ Moves(t, Over("rele", v, Top1(t, "fail")))
    BY <1>0, FillDoes, ReadyIs
  <1>2. /\ v \in Vnodes /\ Top(t).at \in LookLabels /\ th[t].i \in Inos
        /\ ~vn[v].listed /\ vn[v].hashed /\ vn[v].read = "no"
        /\ vn[v].ino = th[t].i /\ vn[v].ops = "ufs" /\ vn[v].type # "bad"
        /\ \A u \in Threads \ {t} : v \notin Leaves(u) /\ \A f \in Makes(u) : f.v # v
    BY <1>0, <1>1, MakerAlone
  <1>3. /\ OnlyAt(v) /\ vn'[v].ino = vn[v].ino /\ vn'[v].ops = vn[v].ops /\ vn'[v].type # "bad"
        /\ vn'[v].xlock = vn[v].xlock
    BY <1>1, <1>2 DEF OnlyAt, BodyIs, SameLocks, BodiesOnly
  <1>4. \/ vn'[v].read = "yes" /\ vn'[v].hashed /\ vn'[v].listed
        \/ vn'[v].read = "error" /\ ~vn'[v].hashed /\ ~vn'[v].listed
    BY <1>1, <1>2 DEF BodyIs
  <1>5. \A i \in Inos : (Found(v, i) => Found(v, i)') /\ (Known(v, i) => Known(v, i)')
    BY <1>1, <1>2, <1>3, <1>4 DEF Found, Known
  <1>6. ChainAt(v)'
    BY <1>2, <1>3, <1>4 DEF ChainAt
  <1>7. Alone(t, v)
    BY <1>0, <1>1, <1>2, <1>3, <1>5, <1>6 DEF Alone
  <1>8. ASSUME NEW s, Moves(t, s), News(t, s) PROVE Notes'
    BY <1>1, <1>2, <1>7, <1>8, AloneNotes DEF News
  <1>9. /\ {"fail", "rele"} \subseteq Labels \ NoteLabels /\ "have" \in Labels /\ "have" \in LookLabels
    BY DEF Labels, NoteLabels, BusyLabels, LookLabels
  <1>10. CASE Moves(t, Top1(t, "have")) /\ vn'[v].read = "yes" /\ vn'[v].hashed
    <2>1. PICK f \in Frames(Top1(t, "have")) : f \in Frame /\ f.at = "have" /\ f.v = v
      BY <1>0, <1>1, <1>9, Top1Has
    <2>2. th'[t].i = th[t].i
      BY <1>1, <1>9, <1>10, <2>1, LookGoesOn
    <2>3. Learnt(t, "have", v)
      <3>1. ASSUME NEW g \in Frame, g.at = "have", g.v = v PROVE Noted(t, g)'
        BY <1>2, <1>3, <1>10, <2>2, <3>1 DEF Noted, Learned, Found, LeaveLabels
      <3>2. QED BY <3>1 DEF Learnt
    <2>4. News(t, Top1(t, "have"))
      BY <1>0, <1>1, <1>9, <2>3, NewsForms
    <2>5. QED BY <1>8, <1>10, <2>4
  <1>11. CASE Moves(t, Over("rele", v, Top1(t, "fail")))
    <2>1. News(t, Top1(t, "fail")) /\ Top1(t, "fail") \in Seq(Frame)
      BY <1>1, <1>9, NewsForms
    <2>2. News(t, Over("rele", v, Top1(t, "fail")))
      BY <1>1, <1>2, <1>9, <2>1, NewsForms
    <2>3. QED BY <1>8, <1>11, <2>2
  <1>12. QED BY <1>1, <1>2, <1>10, <1>11 DEF BodyIs

\* The caller of iget enters the name of the inode: scandir, or maknode of one that it
\* has allocated.
LEMMA NamedNotes ==
  ASSUME Ready, Notes, Typed', NEW t \in Threads, OthersAgree(t), InCall(t), Top(t).at = "have",
         NEW v, v = Top(t).v, NEW i, i = th[t].i, Keeps(t), SameLocks, FileOn, file'[i] = "linked",
         BodyIs(v, "reg", vn[v].ops, vn[v].ino, vn[v].hashed, vn[v].listed, vn[v].read),
         name' = [name EXCEPT ![i] = v]
  PROVE  Notes'
  <1>1. v \in Vnodes /\ i \in Inos /\ v # None /\ Typed
    BY NoneAssumption, ReadyIs DEF InCall, NoVnode, LookLabels
  <1>2. vn[v].hashed /\ vn[v].ops = "ufs" /\ vn[v].ino = i /\ vn[v].read = "yes"
    <2>1. Learned("have", v, i, th[t].cap)
      BY DEF Notes, OwnNotes, Noted, InCall
    <2>2. QED BY <2>1 DEF Learned, Found
  <1>3. \A u \in Threads : \A f \in Makes(u) : f.v \in Vnodes /\ f.v # v
    BY <1>2, BlockedAre, ReadyIs DEF MakersAre, Made
  <1>4. \A u \in Threads : \A w \in Leaves(u) : w \in Vnodes
    <2>1. \A u \in Threads : Leaves(u) \subseteq Cleaning(u)
      BY LabelSets DEF Leaves, Cleaning, Vs, Marks
    <2>2. QED BY <2>1, CleaningVnodes, ReadyIs
  <1>5. vn[v].listed
    <2>1. ~Filled(v)
      <3>1. SUFFICES ASSUME Filled(v) PROVE FALSE
        OBVIOUS
      <3>2. PICK u \in Threads : \E f \in Frames(th[u].stack) : f.at = "fill" /\ f.v = v
        BY <3>1 DEF Filled
      <3>3. \E f \in Makes(u) : f.v = v
        BY <3>2 DEF Makes, Marks, MakeLabels
      <3>4. QED BY <1>3, <3>3
    <2>2. QED BY <1>1, <1>2, <2>1 DEF Notes, ChainsAre, ChainAt
  <1>6. ASSUME NEW w \in Vnodes
        PROVE  /\ vn'[w].ino = vn[w].ino /\ vn'[w].read = vn[w].read /\ vn'[w].hashed = vn[w].hashed
               /\ vn'[w].ops = vn[w].ops /\ vn'[w].listed = vn[w].listed /\ vn'[w].xlock = vn[w].xlock
               /\ vn'[w].type = IF w = v THEN "reg" ELSE vn[w].type
    BY DEF BodyIs, SameBody, SameLocks
  <1>7. \A w \in Vnodes, j \in Inos : (Found(w, j) => Found(w, j)') /\ (Known(w, j) => Known(w, j)')
    BY <1>6 DEF Found, Known, FileOn
  <1>8. Known(v, i)'
    BY <1>1, <1>2, <1>5, <1>6 DEF Known
  <1>9. Frames(th'[t].stack) = {} /\ th'[t].held = [v |-> v, i |-> i]
    BY EmptyStack, FramesInSet DEF Keeps, Empty
  <1>10. \A j \in Inos : name'[j] = IF j = i THEN v ELSE name[j]
    BY <1>1 DEF Typed
  <1>11. FoundStep(t) /\ MadeStep(t) /\ KnownStep
    <2>1. FoundStep(t) /\ KnownStep
      BY <1>6, <1>7 DEF FoundStep, KnownStep
    <2>2. MadeStep(t)
      BY <1>3 DEF MadeStep, BodyIs
    <2>3. QED BY <2>1, <2>2
  <1>12. LeftStep(t)
    <2>1. ASSUME NEW w \in Vnodes, ~vn[w].hashed, Unnamed(w) PROVE Unnamed(w)'
      <3>1. \A j \in Inos : name'[j] # w
        BY <1>2, <1>10, <2>1 DEF Unnamed
      <3>2. ASSUME NEW u \in Threads, NEW f \in Frames(th'[u].stack), f.at = "cached", f.v = w
            PROVE  th'[u].cap # w
        <4>1. u # t
          BY <1>9, <3>2
        <4>2. th'[u].stack = th[u].stack /\ th'[u].cap \in {th[u].cap, None}
          BY <4>1 DEF OthersAgree, Agree
        <4>3. th[u].cap # w
          BY <2>1, <3>2, <4>2 DEF Unnamed
        <4>4. QED BY <4>2, <4>3, NoneAssumption
      <3>3. QED BY <3>1, <3>2 DEF Unnamed
    <2>2. QED BY <1>4, <1>6, <2>1 DEF LeftStep
  <1>13. NameStep
    <2>1. ASSUME NEW j \in Inos PROVE name'[j] = name[j] \/ Known(name[j], j)'
      <3>1. CASE j = i
        <4>1. name'[j] = v
          BY <1>10, <3>1
        <4>2. QED BY <1>8, <3>1, <4>1 DEF Known
      <3>2. QED BY <1>10, <3>1
    <2>2. QED BY <2>1 DEF NameStep
  <1>14. ChainsAre'
    <2>1. ASSUME NEW w \in Vnodes, Filled(w) PROVE Filled(w)'
      <3>1. PICK u \in Threads : \E f \in Frames(th[u].stack) : f.at = "fill" /\ f.v = w
        BY <2>1 DEF Filled
      <3>2. u # t
        BY <3>1, UnderHas DEF BusyLabels, InCall
      <3>3. \E f \in Frames(th'[u].stack) : f.at = "fill" /\ f.v = w
        BY <3>1, <3>2 DEF OthersAgree, Agree
      <3>4. QED BY <3>3 DEF Filled
    <2>2. ASSUME NEW w \in Vnodes PROVE ChainAt(w)'
      <3>1. ChainAt(w)
        BY DEF Notes, ChainsAre
      <3>2. QED BY <1>2, <1>6, <2>1, <3>1 DEF ChainAt
    <2>3. QED BY <2>2 DEF ChainsAre
  <1>15. OwnNotes(t)'
    <2>1. Found(v, i)' /\ vn'[v].read = "yes"
      BY <1>1, <1>2, <1>6 DEF Found
    <2>2. Holding(th[t].held)'
      BY <1>9, <2>1 DEF Holding, Found
    <2>3. QED BY <1>9, <2>2 DEF OwnNotes
  <1>16. QED BY <1>11, <1>12, <1>13, <1>14, <1>15, NotesGoOn

\* What the callers of iget do with the inode
LEMMA HaveNotes ==
  ASSUME Ready, Notes, Typed', NEW t \in Threads, OthersAgree(t), Have(t)
  PROVE  Notes'
  <1>0. PICK v, i : v = Top(t).v /\ i = th[t].i
    OBVIOUS
  <1>1. /\ InCall(t) /\ Top(t).at = "have" /\ Typed
        /\ \/ Quiet /\ UNCHANGED <<file, name>> /\ Moves(t, Over("rele", v, Top1(t, "scan")))
           \/ Quiet /\ UNCHANGED <<file, name>> /\ Moves(t, Over("rele", v, Below(t)))
           \/ Quiet /\ UNCHANGED <<file, name>> /\ Keeps(t)
           \/ /\ Quiet /\ UNCHANGED file /\ Keeps(t) /\ vn[v].type # "none"
              /\ name' = [name EXCEPT ![i] = IF file[i] = "linked" THEN v ELSE @]
           \/ /\ file' = [file EXCEPT ![i] = "linked"] /\ BodiesOnly /\ Keeps(t)
              /\ BodyIs(v, "reg", vn[v].ops, vn[v].ino, vn[v].hashed, vn[v].listed, vn[v].read)
              /\ name' = [name EXCEPT ![i] = v]
    BY <1>0, HaveDoes, ReadyIs
  <1>2. v \in Vnodes /\ i \in Inos /\ v # None
    BY <1>0, <1>1, NoneAssumption DEF InCall, NoVnode, LookLabels
  <1>3. Found(v, i) /\ vn[v].read = "yes"
    <2>1. Learned("have", v, i, th[t].cap)
      BY <1>0, <1>1 DEF Notes, OwnNotes, Noted, InCall
    <2>2. QED BY <2>1 DEF Learned
  <1>4. (Quiet => SteadyVn) /\ (file' = file => FileOn)
    BY <1>1, SteadySteps
  <1>5. CASE Quiet /\ UNCHANGED <<file, name>> /\ ~Keeps(t)
    <2>1. {"rele", "scan"} \subseteq Labels \ NoteLabels
      BY DEF Labels, NoteLabels, BusyLabels
    <2>2. Carries(t, Top1(t, "scan")) /\ Top1(t, "scan") \in Seq(Frame)
          /\ Carries(t, Below(t)) /\ Below(t) \in Seq(Frame)
      BY <1>1, <2>1, PlainKnows, CarryForms DEF InCall
    <2>3. Carries(t, Over("rele", v, Top1(t, "scan"))) /\ Carries(t, Over("rele", v, Below(t)))
      BY <1>1, <1>2, <2>1, <2>2, PlainKnows
    <2>4. PICK s : Moves(t, s) /\ Carries(t, s)
      BY <1>1, <1>5, <2>3
    <2>5. QED BY <1>1, <1>4, <1>5, <2>4, CalmNotes
  <1>6. CASE Quiet /\ UNCHANGED <<file, name>> /\ Keeps(t)
    <2>1. Frames(th'[t].stack) = {} /\ th'[t].held = [v |-> v, i |-> i]
      BY <1>0, <1>6, EmptyStack, FramesInSet DEF Keeps, Empty
    <2>2. FillStep(t) /\ CachedStep(t)
      BY <1>1, <2>1, UnderHas DEF FillStep, CachedStep, InCall, BusyLabels
    <2>3. NamesGo /\ Holding(th'[t].held)
      BY <1>3, <1>6, <2>1 DEF NamesGo, Holding
    <2>4. QED BY <1>1, <1>4, <1>6, <2>1, <2>2, <2>3, SteadyNotes
  <1>7. CASE /\ Quiet /\ UNCHANGED file /\ Keeps(t) /\ vn[v].type # "none"
             /\ name' = [name EXCEPT ![i] = IF file[i] = "linked" THEN v ELSE @]
    <2>1. CASE file[i] = "linked"
      <3>1. vn[v].type = "reg"
        <4>1. vn[v].type \in {"none", "reg", "bad"} /\ ChainAt(v)
          BY <1>1, <1>2 DEF Notes, ChainsAre, Typed, VnodeRecord
        <4>2. QED BY <1>3, <1>7, <4>1 DEF Found, ChainAt
      <3>2. BodyIs(v, "reg", vn[v].ops, vn[v].ino, vn[v].hashed, vn[v].listed, vn[v].read) /\ SameLocks
        BY <1>2, <1>7, <3>1 DEF Quiet, SameBodies, SameBody, BodyIs
      <3>3. name' = [name EXCEPT ![i] = v] /\ file'[i] = "linked"
        BY <1>7, <2>1
      <3>4. QED BY <1>0, <1>1, <1>4, <1>7, <3>2, <3>3, NamedNotes
    <2>2. CASE file[i] # "linked"
      <3>1. name' = name
        BY <1>1, <1>2, <1>7, <2>2 DEF Typed
      <3>2. QED BY <1>6, <1>7, <3>1
    <2>3. QED BY <2>1, <2>2
  <1>8. CASE /\ file' = [file EXCEPT ![i] = "linked"] /\ BodiesOnly /\ Keeps(t)
             /\ BodyIs(v, "reg", vn[v].ops, vn[v].ino, vn[v].hashed, vn[v].listed, vn[v].read)
             /\ name' = [name EXCEPT ![i] = v]
    <2>1. FileOn /\ file'[i] = "linked" /\ SameLocks
      BY <1>1, <1>2, <1>8 DEF FileOn, Typed, BodiesOnly
    <2>2. QED BY <1>0, <1>1, <1>8, <2>1, NamedNotes
  <1>9. QED BY <1>1, <1>5, <1>6, <1>7, <1>8

\* What threads begin
LEMMA BeginNotes ==
  ASSUME Ready, Notes, Typed', NEW t \in Threads, NEW why, NEW i,
         NEW at \in Labels, NEW v \in Vnodes \union {None}, Begins(t, why, i, Only(at, v)),
         SteadyVn, FileOn, name' = name, Learned(at, v, i, th'[t].cap),
         at = "cached" => \E j \in Inos : name[j] = v
  PROVE  Notes'
  <1>1. OthersAgree(t) /\ th'[t].i = i /\ th'[t].why = why /\ th'[t].held = None /\ th'[t].stack = Only(at, v)
    BY DEF Begins, OthersAgree
  <1>2. \A f \in Frames(th'[t].stack) : f.at = at /\ f.v = v
    <2>1. Frames(Only(at, v)) = {Fr(at, v, FALSE)}
      BY OnlyFacts
    <2>2. QED BY <1>1, <2>1 DEF Fr
  <1>3. FillStep(t)
    BY EmptyStack, FramesInSet DEF FillStep, Begins, Empty
  <1>4. NamesGo /\ Holding(th'[t].held) /\ CachedStep(t)
    BY <1>1, <1>2 DEF NamesGo, Holding, CachedStep
  <1>5. \A f \in Frames(th'[t].stack) : Learned(f.at, f.v, th'[t].i, th'[t].cap)
    BY <1>1, <1>2
  <1>6. QED BY <1>1, <1>3, <1>4, <1>5, SteadyNotes

LEMMA StartNotes ==
  ASSUME Ready, Notes, Typed', NEW t \in Threads,
         \/ Close(t)
         \/ \E i \in Inos : LookUp(t, i) \/ FhToVp(t, i) \/ Create(t, i)
         \/ \E v \in Vnodes : Sync(t, v) \/ Vflush(t, v)
  PROVE  Notes'
  <1>1. Typed
    BY ReadyIs
  <1>2. /\ {"rele", "scan", "get", "gone_slept", "clean"} \subseteq Labels \ NoteLabels
        /\ {"cached", "gone_end"} \subseteq Labels
    BY DEF Labels, NoteLabels, BusyLabels
  <1>3. \A at \in Labels \ NoteLabels : \A v, i, cap : Learned(at, v, i, cap) /\ at # "cached"
    BY DEF Learned, NoteLabels, BusyLabels, LeaveLabels
  <1>4. ASSUME NEW at \in {"rele", "scan", "get", "gone_slept", "clean"}, NEW v \in Vnodes \union {None},
               NEW why \in {"name", "handle", "create", "other", "unmount"}, NEW i,
               Begins(t, why, i, Only(at, v)), SteadyVn, FileOn, name' = name
        PROVE  Notes'
    BY <1>2, <1>3, <1>4, BeginNotes
  <1>0. file' = file => FileOn
    BY DEF FileOn
  <1>5. CASE Close(t)
    <2>1. /\ th[t].held.v \in Vnodes /\ UNCHANGED <<file, name>> /\ Quiet
          /\ Begins(t, "other", th[t].i, Only("rele", th[t].held.v))
      BY <1>1, <1>5, CloseDoes
    <2>2. SteadyVn
      BY <1>1, <2>1, SteadySteps
    <2>3. QED BY <1>0, <1>4, <2>1, <2>2
  <1>6. ASSUME NEW i \in Inos, FhToVp(t, i) PROVE Notes'
    <2>1. UNCHANGED <<file, name>> /\ Quiet /\ Begins(t, "handle", i, Only("get", None))
      BY <1>1, <1>6, FhToVpDoes
    <2>2. SteadyVn
      BY <1>1, <2>1, SteadySteps
    <2>3. QED BY <1>0, <1>4, <2>1, <2>2
  <1>7. ASSUME NEW i \in Inos, LookUp(t, i) PROVE Notes'
    <2>1. UNCHANGED <<file, name>> /\ Quiet
      BY <1>1, <1>7, LookUpDoes
    <2>2. SteadyVn
      BY <1>1, <2>1, SteadySteps
    <2>3. CASE Begins(t, "name", i, Only("scan", None))
      BY <1>0, <1>4, <2>1, <2>2, <2>3
    <2>4. ASSUME NEW w \in Vnodes, w = name[i], th'[t].cap = w, Begins(t, "name", i, Only("cached", w))
          PROVE  Notes'
      <3>1. w # None
        BY NoneAssumption
      <3>2. Known(w, i)
        BY <2>4, <3>1 DEF Notes, NamesAre
      <3>3. Learned("cached", w, i, th'[t].cap)
        BY <3>2 DEF Learned, LeaveLabels
      <3>4. QED BY <1>0, <1>2, <2>1, <2>2, <2>4, <3>3, BeginNotes
    <2>5. QED BY <1>1, <1>7, <2>3, <2>4, LookUpDoes
  <1>8. ASSUME NEW v \in Vnodes, Sync(t, v) PROVE Notes'
    <2>1. Gets(v) /\ UNCHANGED <<file, name>> /\ Begins(t, "other", th[t].i, Only("rele", v))
      BY <1>1, <1>8, SyncDoes
    <2>2. SteadyVn
      BY <1>1, <2>1, SteadySteps
    <2>3. QED BY <1>0, <1>4, <2>1, <2>2
  <1>9. ASSUME NEW v \in Vnodes, Vflush(t, v) PROVE Notes'
    <2>1. UNCHANGED <<file, name>>
      BY <1>1, <1>9, VflushDoes
    <2>2. CASE Quiet /\ Begins(t, "unmount", th[t].i, Only("gone_slept", v))
      <3>1. SteadyVn
        BY <1>1, <2>2, SteadySteps
      <3>2. QED BY <1>0, <1>4, <2>1, <2>2, <3>1
    <2>3. ASSUME NEW a \in {"clean", "gone_end"}, ~vn[v].xlock, LocksOnly(v),
                 a = "gone_end" <=> vn[v].type = "bad", Begins(t, "unmount", th[t].i, Only(a, v))
          PROVE  Notes'
      <3>1. SteadyVn
        BY <1>1, <2>3, SteadySteps
      <3>2. CASE a = "clean"
        BY <1>0, <1>4, <2>1, <2>3, <3>1, <3>2
      <3>3. CASE a = "gone_end"
        <4>1. ~vn[v].hashed /\ Unnamed(v)
          BY <2>3, <3>3, BadIsUnnamed
        <4>2. Learned("gone_end", v, th[t].i, th'[t].cap)
          BY <4>1 DEF Learned, LeaveLabels
        <4>3. QED BY <1>0, <1>2, <2>1, <2>3, <3>1, <3>3, <4>2, BeginNotes
      <3>4. QED BY <3>2, <3>3
    <2>4. QED BY <1>1, <1>9, <2>2, <2>3, VflushDoes
  <1>10. ASSUME NEW i \in Inos, Create(t, i) PROVE Notes'
    <2>1. /\ name' = name /\ Quiet /\ Begins(t, "create", i, Only("get", None))
          /\ file[i] = "free" /\ file' = [file EXCEPT ![i] = "reserved"]
      BY <1>1, <1>10, CreateDoes
    <2>2. SteadyVn
      BY <1>1, <2>1, SteadySteps
    <2>3. FileOn
      BY <1>1, <2>1 DEF FileOn, Typed
    <2>4. QED BY <1>4, <2>1, <2>2, <2>3
  <1>11. QED BY <1>5, <1>6, <1>7, <1>8, <1>9, <1>10

\* The open file loses its name, and nobody else's vnode was to be found by it.
LEMMA RemoveNotes ==
  ASSUME Ready, Notes, Typed', NEW t \in Threads, Remove(t)
  PROVE  Notes'
  <1>0. PICK h, w, k : h = th[t].held /\ w = h.v /\ k = h.i
    OBVIOUS
  <1>1. /\ th[t].stack = <<>> /\ h # None /\ w \in Vnodes /\ k \in Inos /\ Typed /\ Quiet
        /\ file[k] = "linked" /\ file' = [file EXCEPT ![k] = "unlinked"] /\ CachePurge(w)
        /\ \A u \in Threads : Agree(th'[u], th[u]) /\ th'[u].cap # w
    BY <1>0, RemoveDoes, ReadyIs
  <1>2. OthersAgree(t) /\ th'[t].stack = <<>> /\ th'[t].why = th[t].why /\ th'[t].held = h
    BY <1>0, <1>1 DEF OthersAgree, Agree
  <1>3. SteadyVn /\ NamesGo
    BY <1>1, SteadySteps DEF CachePurge, NamesGo
  <1>4. Frames(th[t].stack) = {} /\ Frames(th'[t].stack) = {}
    BY <1>1, <1>2, EmptyStack, FramesInSet DEF Empty
  <1>5. FillStep(t) /\ CachedStep(t)
    BY <1>4 DEF FillStep, CachedStep
  <1>6. \A v \in Vnodes : Unnamed(v) => Unnamed(v)'
    BY <1>1, <1>2, <1>3, <1>5, UnnamedStays
  <1>7. Found(w, k) /\ vn[w].read = "yes"
    BY <1>0, <1>1 DEF Notes, OwnNotes, Holding
  <1>8. \A v \in Vnodes : SameBody(vn'[v], vn[v]) /\ (vn[v].xlock => vn'[v].xlock)
    BY <1>3 DEF SteadyVn
  <1>9. \A j \in Inos : j # k /\ file[j] = "linked" => file'[j] = "linked"
    BY <1>1 DEF Typed
  <1>10. \A v \in Vnodes, j \in Inos : Found(v, j) => Found(v, j)'
    BY <1>8 DEF Found, SameBody
  <1>12. \A u \in Threads : /\ \A f \in Makes(u) : f.v \in Vnodes
                            /\ \A v \in Leaves(u) : v \in Vnodes
    <2>1. \A u \in Threads : Leaves(u) \subseteq Cleaning(u)
      BY LabelSets DEF Leaves, Cleaning, Vs, Marks
    <2>2. QED BY <2>1, BlockedAre, CleaningVnodes, ReadyIs
  <1>13. FoundStep(t) /\ MadeStep(t) /\ LeftStep(t) /\ NameStep
    <2>1. FoundStep(t)
      BY <1>8, <1>10 DEF FoundStep, SameBody
    <2>2. MadeStep(t)
      BY <1>8, <1>12 DEF MadeStep
    <2>3. LeftStep(t)
      BY <1>6, <1>8, <1>12 DEF LeftStep, SameBody
    <2>4. NameStep
      BY <1>3 DEF NameStep, NamesGo
    <2>5. QED BY <2>1, <2>2, <2>3, <2>4
  <1>14. Unnamed(w)'
    <2>1. \A i \in Inos : name'[i] # w
      BY <1>1, NoneAssumption DEF CachePurge
    <2>2. QED BY <1>1, <2>1 DEF Unnamed
  <1>15. KnownStep
    <2> SUFFICES ASSUME NEW v \in Vnodes, NEW i \in Inos, Known(v, i) PROVE Known(v, i)' \/ Unnamed(v)'
      BY DEF KnownStep
    <2>1. SameBody(vn'[v], vn[v]) /\ (vn[v].xlock => vn'[v].xlock)
      BY <1>8
    <2>2. CASE vn[v].xlock \/ i # k
      BY <1>9, <2>1, <2>2 DEF Known, SameBody
    <2>3. CASE ~vn[v].xlock /\ i = k
      <3>1. vn[w].hashed /\ vn[w].ino = k
        BY <1>7 DEF Found
      <3>2. vn[v].hashed /\ vn[v].ino = k
        BY <2>3 DEF Known
      <3>3. v = w
        BY <1>1, <3>1, <3>2, ReadyIs DEF OneEach
      <3>4. QED BY <1>14, <3>3 DEF Unnamed
    <2>4. QED BY <2>2, <2>3
  <1>16. ChainsAre'
    BY <1>2, <1>3, <1>5, SteadyChains
  <1>17. OwnNotes(t)'
    <2>1. Found(w, k)' /\ vn'[w].read = "yes"
      BY <1>1, <1>7, <1>8, <1>10 DEF SameBody
    <2>2. Holding(th[t].held)'
      BY <1>0, <1>2, <2>1 DEF Holding, Found
    <2>3. QED BY <1>4, <2>2 DEF OwnNotes
  <1>18. QED BY <1>2, <1>13, <1>15, <1>16, <1>17, NotesGoOn

------------------------------------------------------------------------------
\* That nobody else has a vnode which is cleaned

\* What a step of t may do to the lock of v, and to what its error says
LockedBy(t, v) ==
  /\ vn[v].read = "error" /\ vn[v].xlock => vn'[v].read = "error"
  /\ vn'[v].xlock => \/ vn[v].xlock \/ vn'[v].read = "error" \/ vn[v].count = 0
                     \/ vn[v].count = 1 /\ Owner(t, v)
                     \/ Stale(t) /\ v = Top(t).v

\* A step locks a vnode that nobody has, one that it has the only reference of, or
\* one whose inode has not been read; but for the inactivation of a stale inode.
LEMMA LockedHow ==
  ASSUME Ready, panic' = "none", NEW t \in Threads, Step(t) \/ Start(t), NEW v \in Vnodes
  PROVE  LockedBy(t, v)
  <1>1. vn \in [Vnodes -> VnodeRecord] /\ vn[v] \in VnodeRecord
    BY ReadyIs DEF Typed
  <1>2. ASSUME vn'[v].xlock => vn[v].xlock, vn'[v].read = vn[v].read PROVE LockedBy(t, v)
    BY <1>2 DEF LockedBy
  <1>3. ASSUME NEW x, NEW c, vn' = [vn EXCEPT ![x].count = c] PROVE LockedBy(t, v)
    <2>1. vn'[v].xlock = vn[v].xlock /\ vn'[v].read = vn[v].read
      BY <1>1, <1>3 DEF VnodeRecord
    <2>2. QED BY <1>2, <2>1
  <1>4. ASSUME NEW x, Vgetm(x) PROVE LockedBy(t, v)
    BY <1>3, <1>4 DEF Vgetm
  <1>5. ASSUME vn' = vn PROVE LockedBy(t, v)
    BY <1>2, <1>5
  <1>6. ASSUME NEW w, NEW r, NEW x \in Vnodes, NEW s, vn' = Vgone(w, r, x, s).vn,
               w \in [Vnodes -> VnodeRecord]
        PROVE  /\ vn'[v].read = w[v].read
               /\ vn'[v].xlock => w[v].xlock \/ v = x
    <2>1. vn' = w \/ vn' = [w EXCEPT ![x].want = TRUE] \/ vn' = [w EXCEPT ![x].xlock = TRUE]
      BY <1>6 DEF Vgone
    <2>2. \A p \in VnodeRecord : /\ [p EXCEPT !.want = TRUE].xlock = p.xlock
                                /\ [p EXCEPT !.want = TRUE].read = p.read
                                /\ [p EXCEPT !.xlock = TRUE].read = p.read
      BY DEF VnodeRecord
    <2>3. w[v] \in VnodeRecord
      BY <1>6
    <2>4. /\ v # x => vn'[v] = w[v]
          /\ v = x => vn'[v] \in {w[v], [w[v] EXCEPT !.want = TRUE], [w[v] EXCEPT !.xlock = TRUE]}
      BY <1>6, <2>1
    <2>5. QED BY <2>2, <2>3, <2>4
  <1>7. ASSUME NEW at, At(t, at), at \notin NoVnode PROVE Top(t).v \in Vnodes
    <2>1. InCall(t) /\ Top(t).at = at
      BY <1>7, AtFacts, ReadyIs
    <2>2. Top(t) \in Frames(th[t].stack)
      BY <2>1 DEF InCall
    <2>3. QED BY <1>7, <2>1, <2>2, FrameVnodes, ReadyIs
  <1>8. CASE Rele(t) \/ Inactive(t) \/ Drop(t) \/ SleepAgain(t)
    <2>1. CASE SleepAgain(t) \/ vn' = [vn EXCEPT ![Top(t).v].want = TRUE]
      <3>1. vn' = [vn EXCEPT ![Top(t).v].want = TRUE]
        BY <2>1 DEF SleepAgain, Want
      <3>2. vn'[v].xlock = vn[v].xlock /\ vn'[v].read = vn[v].read
        BY <1>1, <3>1 DEF VnodeRecord
      <3>3. QED BY <1>2, <3>2
    <2>2. CASE Rele(t) \/ Inactive(t) \/ Drop(t)
      <3>1. \/ vn' = vn \/ vn' = [vn EXCEPT ![Top(t).v].want = TRUE]
            \/ vn' = [vn EXCEPT ![Top(t).v].count = @ - 1]
        BY <2>2 DEF Rele, Inactive, Drop, Want
      <3>2. QED BY <1>3, <1>5, <2>1, <3>1
    <2>3. QED BY <1>8, <2>1, <2>2
  <1>9. CASE UfsInactive(t)
    <2> DEFINE x == Top(t).v
    <2>1. x \in Vnodes
      BY <1>7, <1>9 DEF UfsInactive, NoVnode
    <2>2. CASE vn[x].read = "error" /\ vn' = Vgone(vn, Return(th[t]), x, FALSE).vn
      <3>1. vn'[v].read = vn[v].read /\ (vn'[v].xlock => vn[v].xlock \/ v = x)
        BY <1>1, <1>6, <2>1, <2>2
      <3>2. QED BY <2>2, <3>1 DEF LockedBy
    <2>3. CASE vn' = vn \/ vn' = [vn EXCEPT ![x].inactivating = TRUE]
      <3>1. vn'[v].xlock = vn[v].xlock /\ vn'[v].read = vn[v].read
        BY <1>1, <2>3 DEF VnodeRecord
      <3>2. QED BY <1>2, <3>1
    <2>4. QED BY <1>9, <2>2, <2>3 DEF UfsInactive
  <1>10. CASE Stale(t)
    <2>1. Top(t).v \in Vnodes
      BY <1>7, <1>10 DEF Stale, NoVnode
    <2>2. vn'[v].read = vn[v].read /\ (vn'[v].xlock => vn[v].xlock \/ v = Top(t).v)
      <3>1. vn' = Vgone(vn, Goto(th[t], "end"), Top(t).v, FALSE).vn
        BY <1>10 DEF Stale
      <3>2. QED BY <1>1, <1>6, <2>1, <3>1
    <2>3. QED BY <1>10, <2>2 DEF LockedBy
  <1>11. CASE Trunc(t) \/ Ifree(t)
    BY <1>5, <1>11 DEF Trunc, Ifree
  <1>12. CASE Last(t)
    <2> DEFINE x == Top(t).v
               w == InactivationEnds(x)
    <2>1. x \in Vnodes /\ InCall(t) /\ Top(t).at = "last"
      BY <1>7, <1>12, AtFacts, ReadyIs DEF Last, NoVnode
    <2>2. w \in [Vnodes -> VnodeRecord] /\ w[v].xlock = vn[v].xlock /\ w[v].read = vn[v].read
      BY <1>1, <2>1, EndSteps DEF Ended, SameBody
    <2>3. CASE vn[x].count = 1 /\ Top(t).flag
      <3>1. vn' = Vgone(w, Return(th[t]), x, FALSE).vn
        BY <1>12, <2>3 DEF Last
      <3>2. vn'[v].read = vn[v].read /\ (vn'[v].xlock => vn[v].xlock \/ v = x)
        <4> HIDE DEF x, w
        <4>1. QED BY <1>6, <2>1, <2>2, <3>1
      <3>3. Owner(t, x)
        <4>1. Top(t) \in Frames(th[t].stack)
          BY <2>1 DEF InCall
        <4>2. x \in Vs(th[t].stack, UfsLabels)
          BY <2>1, <4>1 DEF Vs, Marks, UfsLabels, InactLabels
        <4>3. QED BY <4>2, BlockedAre, ReadyIs
      <3>4. QED BY <2>3, <3>2, <3>3 DEF LockedBy
    <2>4. CASE ~(vn[x].count = 1 /\ Top(t).flag)
      <3>1. vn' = w
        BY <1>12, <2>4 DEF Last
      <3>2. QED BY <1>2, <2>2, <3>1
    <2>5. QED BY <2>3, <2>4
  <1>13. CASE End(t)
    <2>1. vn'[v].xlock = vn[v].xlock /\ vn'[v].read = vn[v].read
      BY <1>1, <1>13 DEF End, InactivationEnds, VnodeRecord
    <2>2. QED BY <1>2, <2>1
  <1>14. CASE Clean(t) \/ Purge(t) \/ GoneSlept(t) \/ Check(t) \/ Scan(t) \/ VgetSlept(t) \/ GotSlept(t)
              \/ Event(t) \/ Dup(t) \/ Fail(t)
    BY <1>3, <1>5, <1>14 DEF Clean, Purge, GoneSlept, Check, Scan, VgetSlept, GotSlept, Event, Dup, Fail
  <1>15. CASE Dead(t) \/ Reclaim(t) \/ GoneEnd(t) \/ Got(t)
    <2>1. (vn'[v].xlock => vn[v].xlock) /\ vn'[v].read = vn[v].read
      BY <1>1, <1>15 DEF Dead, Reclaim, GoneEnd, Got, VnodeRecord
    <2>2. QED BY <1>2, <2>1
  <1>16. CASE Cached(t) \/ Get(t)
    BY <1>4, <1>5, <1>16 DEF Cached, Get
  <1>17. CASE Vget(t)
    <2>1. CASE vn' = [vn EXCEPT ![Top(t).v].want = TRUE]
      <3>1. vn'[v].xlock = vn[v].xlock /\ vn'[v].read = vn[v].read
        BY <1>1, <2>1 DEF VnodeRecord
      <3>2. QED BY <1>2, <3>1
    <2>2. QED BY <1>4, <1>17, <2>1 DEF Vget, Want
  <1>18. CASE New(t)
    <2>1. CASE vn' = vn
      BY <1>5, <2>1
    <2>2. CASE vn' # vn
      <3>1. PICK x \in free : /\ panic' = IF vn[x].count # 0 THEN "free vnode isn't" ELSE panic
                              /\ vn' = Vgone(vn, With(th[t], "init", x), x, FALSE).vn
        BY <1>18, <2>2 DEF New
      <3>2. x \in Vnodes
        BY ReadyIs DEF Typed
      <3>3. vn'[v].read = vn[v].read /\ (vn'[v].xlock => vn[v].xlock \/ v = x)
        BY <1>1, <1>6, <3>1, <3>2
      <3>4. vn[x].count = 0
        BY <3>1
      <3>5. QED BY <3>3, <3>4 DEF LockedBy
    <2>3. QED BY <2>1, <2>2
  <1>19. CASE VInit(t)
    <2>1. Top(t).v \in Vnodes /\ ~vn[Top(t).v].xlock
      <3>1. InCall(t) /\ Top(t).at = "init"
        BY <1>19, AtFacts, ReadyIs DEF VInit
      <3>2. th[t].stack # Empty /\ Hd(th[t].stack) = Top(t) /\ Top(t) \in Frame
        BY <3>1, TopFrame, ReadyIs, AtFacts, <1>19 DEF VInit, Hd, Top, Empty
      <3>3. Top(t).v \in Vnodes
        BY <1>7, <1>19 DEF VInit, NoVnode
      <3>4. QED BY <3>1, <3>2, <3>3, ReadyIs DEF InitTops
    <2>2. vn' = [vn EXCEPT ![Top(t).v] = Fresh(vn[Top(t).v].count, th[t].i)]
      BY <1>19 DEF VInit
    <2>3. vn'[v].xlock => vn[v].xlock
      BY <1>1, <2>1, <2>2 DEF Fresh, Unused
    <2>4. vn[v].xlock => vn'[v].read = vn[v].read
      BY <1>1, <2>1, <2>2
    <2>5. QED BY <2>3, <2>4 DEF LockedBy
  <1>20. CASE Enter(t)
    <2> DEFINE x == Top(t).v
               w == [vn EXCEPT ![x].read = "error"]
    <2>1. x \in Vnodes
      BY <1>7, <1>20 DEF Enter, NoVnode
    <2>2. CASE vn' = [vn EXCEPT ![x].hashed = TRUE]
      <3>1. vn'[v].xlock = vn[v].xlock /\ vn'[v].read = vn[v].read
        BY <1>1, <2>2 DEF VnodeRecord
      <3>2. QED BY <1>2, <3>1
    <2>3. CASE vn' = Vgone(w, Goto(th[t], "dup"), x, FALSE).vn
      <3>1. /\ w \in [Vnodes -> VnodeRecord] /\ w[x].read = "error" /\ w[v].xlock = vn[v].xlock
            /\ w[v].read \in {vn[v].read, "error"}
        BY <1>1, <2>1 DEF VnodeRecord
      <3>2. vn'[v].read = w[v].read /\ (vn'[v].xlock => w[v].xlock \/ v = x)
        <4> HIDE DEF x, w
        <4>1. QED BY <1>6, <2>1, <2>3, <3>1
      <3> HIDE DEF x, w
      <3>3. QED BY <3>1, <3>2 DEF LockedBy
    <2>4. QED BY <1>20, <2>2, <2>3 DEF Enter
  <1>21. CASE Fill(t)
    <2> DEFINE x == Top(t).v
    <2>1. x \in Vnodes /\ InCall(t) /\ Top(t).at = "fill"
      BY <1>7, <1>21, AtFacts, ReadyIs DEF Fill, NoVnode
    <2>2. vn[x].read = "no"
      <3>1. Top(t) \in Makes(t)
        BY <2>1 DEF InCall, Makes, Marks, MakeLabels
      <3>2. QED BY <2>1, <3>1, ReadyIs DEF MakersAre, Made
    <2>3. vn'[v].xlock = vn[v].xlock /\ (v # x => vn'[v].read = vn[v].read)
      BY <1>1, <1>21 DEF Fill, VnodeRecord
    <2>4. QED BY <2>2, <2>3 DEF LockedBy
  <1>22. CASE Have(t)
    <2>1. CASE vn' = [vn EXCEPT ![Top(t).v].type = "reg"]
      <3>1. vn'[v].xlock = vn[v].xlock /\ vn'[v].read = vn[v].read
        BY <1>1, <2>1 DEF VnodeRecord
      <3>2. QED BY <1>2, <3>1
    <2>2. QED BY <1>5, <1>22, <2>1 DEF Have
  <1>23. CASE Start(t)
    <2>1. CASE \E x \in Vnodes : Sync(t, x)
      BY <1>4, <2>1 DEF Sync
    <2>2. ASSUME NEW x \in Vnodes, Vflush(t, x) PROVE LockedBy(t, v)
      <3>1. vn[x].count = 0 /\ vn' = Vgone(vn, [th[t] EXCEPT !.why = "unmount"], x, TRUE).vn
        BY <2>2 DEF Vflush
      <3>2. vn'[v].read = vn[v].read /\ (vn'[v].xlock => vn[v].xlock \/ v = x)
        BY <1>1, <1>6, <3>1
      <3>3. QED BY <3>1, <3>2 DEF LockedBy
    <2>3. CASE Close(t) \/ Remove(t) \/ \E i \in Inos : LookUp(t, i) \/ FhToVp(t, i) \/ Create(t, i)
      BY <1>5, <2>3 DEF Close, Remove, LookUp, FhToVp, Create
    <2>4. QED BY <1>23, <2>1, <2>2, <2>3 DEF Start
  <1>24. QED BY <1>8, <1>9, <1>10, <1>11, <1>12, <1>13, <1>14, <1>15, <1>16, <1>17, <1>18, <1>19, <1>20,
               <1>21, <1>22, <1>23 DEF Step

LEMMA PrivateStays ==
  ASSUME Ready, Private, Typed', ~Takes, NEW t \in Threads, Step(t) \/ Start(t)
  PROVE  Private'
  <1> SUFFICES ASSUME panic' = "none"
               PROVE  \A u \in Threads : \A v \in Cleaning(u)' :
                         vn'[v].read = "error" \/ \A w \in Threads \ {u} : ~Owner(w, v)'
    BY DEF Private
  <1>1. OthersAgree(t) /\ LockStep(t) /\ Sound(t)
    BY StepLives, StepSound, ReadyIs DEF Ready, Lives
  <1>2. \A u \in Threads \ {t} : Cleaning(u)' = Cleaning(u) /\ \A v : Owner(u, v)' <=> Owner(u, v)
    BY <1>1, OthersSame
  <1>3. \A u \in Threads : \A v \in Cleaning(u) :
          /\ v \in Vnodes /\ vn[v].xlock
          /\ vn[v].read = "error" \/ \A w \in Threads \ {u} : ~Owner(w, v)
          /\ \A w \in Threads \ {u} : v \notin Cleaning(w)
    BY CleaningVnodes, ReadyIs DEF Private, LocksAre
  <1>4. \A v \in Vnodes : LockedBy(t, v)
    BY LockedHow
  <1>5. ASSUME NEW u \in Threads, NEW v \in Cleaning(u), vn[v].read = "error" PROVE vn'[v].read = "error"
    BY <1>3, <1>4, <1>5 DEF LockedBy
  <1>6. ASSUME NEW u \in Threads \ {t}, NEW v \in Cleaning(u), ~(vn[v].read = "error")
        PROVE  \A w \in Threads \ {u} : ~Owner(w, v)'
    <2>1. v \notin Cleaning(t) /\ Owner(t, v)' => Owner(t, v)
      BY <1>1, <1>3 DEF Sound, OwnStep
    <2>2. QED BY <1>2, <1>3, <1>6, <2>1
  <1>7. ASSUME NEW v \in Cleaning(t)'
        PROVE  vn'[v].read = "error" \/ \A w \in Threads \ {t} : ~Owner(w, v)'
    <2>1. CASE v \in Cleaning(t)
      BY <1>2, <1>3, <1>5, <2>1
    <2>2. CASE v \notin Cleaning(t)
      <3>1. v \in Vnodes /\ ~vn[v].xlock /\ vn'[v].xlock
        BY <1>1, <2>2 DEF LockStep, LockIs
      <3>2. ASSUME vn[v].count = 0 PROVE \A w \in Threads : ~Owner(w, v)
        BY <3>1, <3>2, NobodyHas
      <3>3. ASSUME vn[v].count <= 1, Owner(t, v) PROVE \A w \in Threads \ {t} : ~Owner(w, v)
        <4>1. /\ vn[v].count \in Nat /\ \A w \in Threads : Refs(th[w], v) \in Nat
              /\ \A w \in Threads \ {t} : vn[v].count >= Refs(th[t], v) + Refs(th[w], v)
          BY <3>1, CountsAre, ReadyIs
        <4>2. QED BY <3>3, <4>1 DEF Owner
      <3>4. ASSUME Stale(t), v = Top(t).v PROVE vn[v].count <= 1 /\ Owner(t, v)
        <4>1. InCall(t) /\ Top(t).at = "stale" /\ vn[v].count \in Int
          BY <3>1, <3>4, AtFacts, ReadyIs DEF Stale
        <4>2. v \in Vs(th[t].stack, UfsLabels)
          BY <3>4, <4>1 DEF InCall, Vs, Marks, UfsLabels, InactLabels
        <4>3. QED BY <3>1, <3>4, <4>1, <4>2, BlockedAre, ReadyIs DEF Takes
      <3>5. vn'[v].read = "error" \/ \A w \in Threads \ {t} : ~Owner(w, v)
        <4>1. LockedBy(t, v)
          BY <1>4, <3>1
        <4>2. CASE vn[v].count = 1 /\ Owner(t, v)
          BY <3>3, <4>2
        <4>3. QED BY <3>1, <3>2, <3>3, <3>4, <4>1, <4>2 DEF LockedBy
      <3>6. QED BY <1>2, <3>5
    <2>3. QED BY <2>1, <2>2
  <1>8. QED BY <1>2, <1>5, <1>6, <1>7

------------------------------------------------------------------------------
\* All of it

LEMMA StepNotes ==
  ASSUME Ready, Notes, Private, Typed', NEW t \in Threads, OthersAgree(t), Step(t) \/ Start(t)
  PROVE  Notes'
  <1>1. CASE Rele(t) \/ Inactive(t) \/ Drop(t) \/ SleepAgain(t)
    BY <1>1, ReleNotes
  <1>2. CASE UfsInactive(t) \/ Stale(t) \/ Trunc(t) \/ Ifree(t) \/ Last(t) \/ End(t)
    BY <1>2, UfsNotes
  <1>3. CASE Dead(t) \/ Reclaim(t) \/ GoneEnd(t)
    BY <1>3, CleanNotes
  <1>4. CASE Purge(t)
    BY <1>4, PurgeNotes
  <1>5. CASE \/ Clean(t) \/ GoneSlept(t) \/ Cached(t) \/ Check(t) \/ Scan(t) \/ Get(t) \/ Vget(t)
             \/ VgetSlept(t) \/ Got(t) \/ Event(t) \/ Dup(t) \/ Fail(t)
    BY <1>5, LookNotes
  <1>6. CASE GotSlept(t) \/ New(t) \/ VInit(t)
    BY <1>6, GotSleptNotes, NewNotes, VInitNotes
  <1>7. CASE Enter(t) \/ Fill(t) \/ Have(t)
    BY <1>7, EnterNotes, FillNotes, HaveNotes
  <1>8. CASE Start(t)
    BY <1>8, StartNotes, RemoveNotes DEF Start
  <1>9. QED BY <1>1, <1>2, <1>3, <1>4, <1>5, <1>6, <1>7, <1>8 DEF Step

LEMMA InitNotes == Init => Notes /\ Private
  <1> SUFFICES ASSUME Init PROVE Notes /\ Private
    OBVIOUS
  <1>1. /\ \A t \in Threads : th[t].stack = Empty /\ th[t].held = None
        /\ \A v \in Vnodes : vn[v].listed = FALSE /\ vn[v].hashed = FALSE
        /\ \A i \in Inos : name[i] = None
    BY DEF Init, Idle, Unused, Empty
  <1>2. Frames(Empty) = {}
    BY EmptyStack, FramesInSet DEF Empty
  <1>3. \A t \in Threads : OwnNotes(t)
    BY <1>1, <1>2 DEF OwnNotes, Holding
  <1>4. \A v \in Vnodes : vn[v].type = "bad"
    BY DEF Init, Unused
  <1>5. NamesAre /\ ChainsAre
    BY <1>1, <1>4 DEF NamesAre, ChainsAre, ChainAt
  <1>6. \A t \in Threads : Cleaning(t) = {}
    BY <1>1, EmptyStack DEF Cleaning
  <1>7. QED BY <1>3, <1>5, <1>6 DEF Notes, Private

LEMMA NextNotes ==
  Typed /\ Typed' /\ Counted /\ (Making /\ OneEach) /\ Life /\ (Sane /\ NoPanic) /\ (taken \/ (Notes /\ Private))
    /\ [HNext]_<<vars, taken>> => (taken \/ (Notes /\ Private))'
  <1> SUFFICES ASSUME Typed, Typed', Counted, Making, OneEach, Life, Sane, taken \/ (Notes /\ Private),
                      [HNext]_<<vars, taken>>
               PROVE  taken' \/ (Notes' /\ Private')
    OBVIOUS
  <1>1. CASE UNCHANGED <<vars, taken>> /\ Notes /\ Private
    <2>1. vn' = vn /\ file' = file /\ name' = name /\ th' = th /\ panic' = panic
      BY <1>1 DEF vars
    <2>2. \A t \in Threads : OwnNotes(t)'
      <3>1. \A v, i : (Found(v, i)' <=> Found(v, i)) /\ (Known(v, i)' <=> Known(v, i))
        BY <2>1 DEF Found, Known
      <3>2. \A v : Unnamed(v)' <=> Unnamed(v)
        BY <2>1 DEF Unnamed, Frames
      <3>3. \A t \in Threads : \A f \in Frames(th[t].stack) : Noted(t, f)'
        BY <1>1, <2>1, <3>1, <3>2 DEF Notes, OwnNotes, Noted, Learned
      <3>4. \A t \in Threads : Frames(th[t].stack)' = Frames(th[t].stack)
        BY <2>1 DEF Frames
      <3>5. \A t \in Threads : Holding(th[t].held)'
        BY <1>1, <2>1, <3>1 DEF Notes, OwnNotes, Holding
      <3>6. QED BY <3>3, <3>4, <3>5 DEF OwnNotes
    <2>3. NamesAre'
      BY <1>1, <2>1 DEF Notes, NamesAre, Known
    <2>4. ChainsAre'
      BY <1>1, <2>1 DEF Notes, ChainsAre, ChainAt, Filled, Frames
    <2>5. Private'
      BY <1>1, <2>1 DEF Private, Cleaning, Owner, Refs, Holds, Count, OwnFrames, Vs, Marks, Frames
    <2>6. QED BY <2>2, <2>3, <2>4, <2>5 DEF Notes
  <1>2. CASE HNext /\ ~taken' /\ ~Takes /\ Notes /\ Private
    <2>1. PICK t \in Threads : Step(t) \/ Start(t)
      BY <1>2 DEF HNext, Next
    <2>2. Ready /\ ~Takes
      BY <1>2 DEF HNext, Next, Ready
    <2>3. OthersAgree(t)
      BY <2>1, <2>2, StepLives DEF Ready, Lives
    <2>4. QED BY <1>2, <2>1, <2>2, <2>3, StepNotes, PrivateStays
  <1>3. CASE UNCHANGED <<vars, taken>>
    BY <1>1, <1>3
  <1>4. CASE HNext
    <2>1. taken' = (taken \/ Takes)
      BY <1>4 DEF HNext
    <2>2. CASE taken \/ Takes
      <3>1. taken'
        BY <2>1, <2>2, Zenon
      <3>2. QED BY <3>1
    <2>3. CASE ~taken /\ ~Takes
      BY <1>2, <1>4, <2>3
    <2>4. QED BY <2>2, <2>3
  <1>5. QED BY <1>3, <1>4

\* Until ufs_inactive cleans a vnode that somebody else is using, what calls, open
\* files and the name cache have learned of a vnode stays true while they have use
\* of it, and nobody else has a vnode that is being cleaned (unless its inode could
\* not be read).
THEOREM NotesAreKept == HSpec => [](taken \/ (Notes /\ Private))
  <1>1. HInit => Init /\ (taken \/ (Notes /\ Private))
    BY InitNotes DEF HInit
  <1>2. [HNext]_<<vars, taken>> => [Next]_vars
    BY DEF HNext, vars
  <1>3. HSpec => Spec
    BY <1>1, <1>2, PTL DEF HSpec, Spec
  <1>4. Typed /\ Typed' /\ Counted /\ (Making /\ OneEach) /\ Life /\ (Sane /\ NoPanic) /\ (taken \/ (Notes /\ Private))
        /\ [HNext]_<<vars, taken>> => (taken \/ (Notes /\ Private))'
    BY NextNotes
  <1>5. QED BY <1>1, <1>3, <1>4, AlwaysTyped, AlwaysCounted, MakingIsKept, CallsNest, SanityIsKept, PTL DEF HSpec

\* An open file keeps its vnode: until ufs_inactive cleans a vnode in use, it is
\* neither cleaned nor made the vnode of another inode, whoever unlinks it, frees or
\* allocates inodes, flushes the mount or runs out of vnodes in the meantime.
THEOREM HeldVnodesAreKept == HSpec => []HeldUntilTaken
  <1>1. (taken \/ (Notes /\ Private)) => HeldUntilTaken
    <2> SUFFICES ASSUME Notes PROVE HeldIsKept
      BY DEF HeldUntilTaken
    <2>1. QED BY DEF Notes, OwnNotes, Holding, Found, HeldIsKept
  <1>2. QED BY <1>1, NotesAreKept, PTL

\* Until ufs_inactive cleans a vnode in use, the name cache leads from a name to the
\* inode that the directory has for it, or to a vnode that is just being cleaned and
\* that a lookup does not take.
THEOREM NamesLeadRight == HSpec => []NameUntilTaken
  <1>1. (taken \/ (Notes /\ Private)) => NameUntilTaken
    BY DEF Notes, NamesAre, Known, NameIsRight, NameUntilTaken
  <1>2. QED BY <1>1, NotesAreKept, PTL
=============================================================================
