---------------------------- MODULE Select_proofs ----------------------------
\* Proofs about Select.  First what each step does in terms of the fields it
\* changes (BeginIs, QuietIs, RefIs, SelectIs, UndoIs, SocketIs), then the types and
\* the counts of references, then the queues, and last that no wakeup is lost.
EXTENDS Select, FiniteSetTheorems, TLAPS

\* What a place in do_scan() says of the arrays.
InPlace(r) ==
  /\ r.at \in {"idle", "clear"} => r.files = <<>>
  /\ r.at = "idle" => ~r.timed /\ ~r.due
  /\ r.at # "idle" => r.list # <<>>
  /\ r.at = "ref" => Len(r.files) < Len(r.list)
  /\ r.at = "select" => r.files # <<>> /\ r.files[Len(r.files)] # None
  /\ r.at \in {"check", "wait", "asleep"} => Len(r.files) = Len(r.list)
  /\ r.at \in {"again", "undo"} => r.files # <<>>
  /\ r.at \in {"clear", "wait", "asleep"} => ~r.ready
PlaceIsRight == \A t \in Threads : InPlace(th[t])

USE NoneAssumption

------------------------------------------------------------------------------
LEMMA IdleType == Idle \in Scan /\ Len(Idle.files) <= Len(Idle.list) /\ Len(Idle.list) <= OpenMax
BY CallsAssumption DEF Idle, Scan, Labels

LEMMA RefsAreFinite == ASSUME NEW f PROVE IsFiniteSet(Refs(f))
<1>1. IsFiniteSet(1 .. OpenMax)
  BY FS_Interval, CallsAssumption
<1>2. IsFiniteSet(Threads \X (1 .. OpenMax))
  BY <1>1, FS_Product, FiniteAssumption
<1> QED
  BY <1>2, FS_Subset DEF Refs

LEMMA TypeInit == Init => TypeOK
<1> SUFFICES ASSUME Init PROVE TypeOK
  OBVIOUS
<1>1. fdt \in [Fds -> Files \union {None}]
  BY DEF Init
<1>2. \A f \in Files : Cardinality({d \in Fds : fdt[d] = f}) \in Nat
  BY FS_Subset, FS_CardinalityType, FiniteAssumption
<1>3. file \in [Files -> File]
  BY <1>2 DEF Init, File
<1>4. event \in [Threads -> BOOLEAN]
  BY DEF Init
<1>5. post \in [Files -> [left : SUBSET Threads, now : Threads \union {None}]]
  BY DEF Init, Nobody
<1>6. th \in [Threads -> Scan] /\ \A t \in Threads : Len(th[t].files) <= Len(th[t].list) /\ Len(th[t].list) <= OpenMax
  BY IdleType, CallsAssumption DEF Init
<1> QED
  BY <1>1, <1>3, <1>4, <1>5, <1>6 DEF TypeOK

\* Who holds a reference finds the count above zero.
LEMMA CountIsPositive ==
  ASSUME TypeOK, RefsAreCounted, NEW f \in Files,
         \/ \E d \in Fds : fdt[d] = f
         \/ \E t \in Threads : \E i \in DOMAIN th[t].files : th[t].files[i] = f
  PROVE  file[f].count > 0
<1> DEFINE D == {d \in Fds : fdt[d] = f}
<1>1. IsFiniteSet(D) /\ Cardinality(D) \in Nat
  BY FS_Subset, FS_CardinalityType, FiniteAssumption
<1>2. IsFiniteSet(Refs(f)) /\ Cardinality(Refs(f)) \in Nat
  BY RefsAreFinite, FS_CardinalityType
<1>3. file[f].count = Cardinality(D) + Cardinality(Refs(f))
  BY DEF RefsAreCounted
<1>4. D # {} \/ Refs(f) # {}
  <2>1. ASSUME NEW t \in Threads, NEW i \in DOMAIN th[t].files, th[t].files[i] = f
        PROVE  <<t, i>> \in Refs(f)
    BY <2>1, CallsAssumption DEF TypeOK, Refs
  <2> QED
    BY <2>1
<1>5. Cardinality(D) # 0 \/ Cardinality(Refs(f)) # 0
  BY <1>1, <1>2, <1>4, FS_EmptySet
<1> QED
  BY <1>1, <1>2, <1>3, <1>5

\* Steps of one thread that leave its list alone.
LEMMA TypeOfScan ==
  ASSUME TypeOK, NEW t \in Threads, NEW r \in Scan, Does(t, r),
         Len(r.files) <= Len(r.list), Len(r.list) <= OpenMax
  PROVE  /\ th' \in [Threads -> Scan]
         /\ \A u \in Threads : Len(th'[u].files) <= Len(th'[u].list) /\ Len(th'[u].list) <= OpenMax
         /\ th'[t] = r
         /\ \A u \in Threads \ {t} : th'[u] = th[u]
BY DEF TypeOK, Does

\* A change of one file.
LEMMA TypeOfFile ==
  ASSUME TypeOK, NEW f \in Files, NEW s \in File, file' = [file EXCEPT ![f] = s]
  PROVE  /\ file' \in [Files -> File]
         /\ file'[f] = s
         /\ \A g \in Files \ {f} : file'[g] = file[g]
BY DEF TypeOK

LEMMA GotoType ==
  ASSUME NEW r \in Scan, NEW at \in Labels
  PROVE  /\ Goto(r, at) \in Scan
         /\ Goto(r, at).at = at
         /\ Goto(r, at).files = r.files
         /\ Goto(r, at).list = r.list
         /\ Goto(r, at).ready = r.ready
         /\ Goto(r, at).kind = r.kind
         /\ Goto(r, at).timed = r.timed
         /\ Goto(r, at).due = r.due
BY DEF Scan, Goto

\* What a scan becomes when it has looked at file f.
LEMMA AppendType ==
  ASSUME NEW r \in Scan, NEW f \in Files \union {None}, NEW s,
         s = [r EXCEPT !.files = Append(@, f)]
  PROVE  /\ s \in Scan
         /\ Len(s.files) = Len(r.files) + 1
         /\ s.files[Len(r.files) + 1] = f
         /\ \A i \in DOMAIN r.files : s.files[i] = r.files[i]
         /\ s.list = r.list /\ s.at = r.at /\ s.ready = r.ready /\ s.kind = r.kind
         /\ s.timed = r.timed /\ s.due = r.due
<1>1. /\ Append(r.files, f) \in Seq(Files \union {None})
      /\ Len(Append(r.files, f)) = Len(r.files) + 1
      /\ Append(r.files, f)[Len(r.files) + 1] = f
      /\ \A i \in DOMAIN r.files : Append(r.files, f)[i] = r.files[i]
  BY DEF Scan
<1>2. s.files = Append(r.files, f)
  BY DEF Scan
<1> QED
  BY <1>1, <1>2 DEF Scan

\* What it becomes when it has let go of its first file.
LEMMA TailType ==
  ASSUME NEW r \in Scan, r.files # <<>>, NEW s,
         s = [r EXCEPT !.files = Tail(@), !.ready = FALSE]
  PROVE  /\ s \in Scan
         /\ Len(s.files) = Len(r.files) - 1
         /\ \A i \in DOMAIN s.files : s.files[i] = r.files[i + 1]
         /\ s.list = r.list /\ s.at = r.at /\ ~s.ready /\ s.kind = r.kind
         /\ s.timed = r.timed /\ s.due = r.due
<1>1. /\ Tail(r.files) \in Seq(Files \union {None})
      /\ Len(Tail(r.files)) = Len(r.files) - 1
      /\ \A i \in DOMAIN Tail(r.files) : Tail(r.files)[i] = r.files[i + 1]
  BY DEF Scan
<1>2. s.files = Tail(r.files)
  BY DEF Scan
<1> QED
  BY <1>1, <1>2 DEF Scan

\* What the steps of a scan do to the scan, in terms of its fields.
LEMMA ItemType ==
  ASSUME TypeOK, NEW t \in Threads, NEW i \in 1 .. Len(th[t].list)
  PROVE  /\ th[t].list[i].fd \in Fds
         /\ th[t].list[i].events \in (SUBSET {"in", "out"}) \ {{}}
<1>1. th[t].list \in Seq(Item)
  BY DEF TypeOK, Scan
<1>2. th[t].list[i] \in Item
  BY <1>1
<1> QED
  BY <1>2 DEF Item

\* The fields that say which call the thread is in stay.
SameCall(r, s) == s.list = r.list /\ s.kind = r.kind /\ s.timed = r.timed /\ s.due = r.due

LEMMA NextItemIs ==
  ASSUME NEW r \in Scan, Len(r.files) <= Len(r.list)
  PROVE  LET s == NextItem(r) IN
         /\ s \in Scan /\ SameCall(r, s) /\ s.files = r.files /\ s.ready = r.ready
         /\ \/ s.at = "ref" /\ Len(r.files) < Len(r.list)
            \/ s.at = "check" /\ Len(r.files) = Len(r.list)
<1>1. Len(r.files) \in Nat /\ Len(r.list) \in Nat
  BY DEF Scan
<1>2. {"ref", "check"} \subseteq Labels
  BY DEF Labels
<1>3. CASE Len(r.files) = Len(r.list)
  BY <1>1, <1>2, <1>3, GotoType DEF NextItem, SameCall
<1>4. CASE Len(r.files) < Len(r.list)
  BY <1>1, <1>2, <1>4, GotoType DEF NextItem, SameCall
<1> QED
  BY <1>1, <1>3, <1>4

LEMMA RefIs ==
  ASSUME TypeOK, PlaceIsRight, NEW t \in Threads, Ref(t)
  PROVE  LET r == th[t]
             s == th'[t]
             n == Len(r.files) + 1
             f == fdt[r.list[n].fd]
         IN
         /\ r.at = "ref" /\ n \in 1 .. Len(r.list)
         /\ Does(t, s) /\ s \in Scan
         /\ UNCHANGED <<fdt, event, post>>
         /\ \/ /\ f \in Files /\ s.at = "select" /\ SameCall(r, s) /\ s.ready = r.ready
               /\ file' = [file EXCEPT ![f].count = @ + 1]
               /\ Len(s.files) = n /\ s.files[n] = f
               /\ \A i \in DOMAIN r.files : s.files[i] = r.files[i]
            \/ /\ f = None /\ SameCall(r, s) /\ s.ready
               /\ \/ s.at = "ref" /\ n < Len(s.list)
                  \/ s.at = "check" /\ n = Len(s.list)
               /\ UNCHANGED file
               /\ Len(s.files) = n /\ s.files[n] = None
               /\ \A i \in DOMAIN r.files : s.files[i] = r.files[i]
            \/ /\ f = None /\ UNCHANGED file
               /\ s = Idle /\ r.files = <<>>
            \/ /\ f = None /\ UNCHANGED file
               /\ s.at = "undo" /\ s.files = r.files /\ r.files # <<>> /\ SameCall(r, s)
<1> DEFINE r == th[t]
           n == Len(r.files) + 1
           f == fdt[r.list[n].fd]
<1>1. /\ r \in Scan /\ r.at = "ref" /\ Len(r.files) < Len(r.list)
      /\ Len(r.files) \in Nat /\ Len(r.list) \in Nat
  <2>1. r \in Scan
    BY DEF TypeOK
  <2>2. r.at = "ref"
    BY DEF Ref, At
  <2>3. Len(r.files) < Len(r.list)
    BY <2>2 DEF PlaceIsRight, InPlace
  <2>4. Len(r.files) \in Nat /\ Len(r.list) \in Nat
    BY <2>1 DEF Scan
  <2> QED
    BY <2>1, <2>2, <2>3, <2>4
<1>2. n \in 1 .. Len(r.list) /\ r.list[n].fd \in Fds /\ f \in Files \union {None}
  <2>1. n \in 1 .. Len(r.list)
    BY <1>1
  <2>2. r.list[n].fd \in Fds
    BY <2>1, ItemType
  <2> QED
    BY <2>1, <2>2 DEF TypeOK
<1>3. UNCHANGED <<fdt, event, post>>
  BY DEF Ref
<1>4. ASSUME NEW s, Does(t, s), s \in Scan
      PROVE  th'[t] = s
  BY <1>4 DEF Does, TypeOK
<1>5. CASE /\ f # None
           /\ file' = [file EXCEPT ![f].count = @ + 1]
           /\ Does(t, [Goto(r, "select") EXCEPT !.files = Append(@, f)])
  <2> DEFINE g == Goto(r, "select")
             s == [g EXCEPT !.files = Append(@, f)]
  <2>1. /\ g \in Scan /\ g.at = "select" /\ g.files = r.files /\ g.ready = r.ready
        /\ SameCall(r, g)
    <3>1. "select" \in Labels
      BY DEF Labels
    <3> QED
      BY <1>1, <3>1, GotoType DEF SameCall
  <2> HIDE DEF g
  <2>2. /\ s \in Scan /\ Len(s.files) = n /\ s.files[n] = f
        /\ \A i \in DOMAIN r.files : s.files[i] = r.files[i]
        /\ s.at = "select" /\ s.ready = r.ready /\ SameCall(r, s)
    <3>1. /\ s \in Scan /\ Len(s.files) = Len(g.files) + 1
          /\ s.files[Len(g.files) + 1] = f
          /\ \A i \in DOMAIN g.files : s.files[i] = g.files[i]
          /\ s.list = g.list /\ s.at = g.at /\ s.ready = g.ready /\ s.kind = g.kind
          /\ s.timed = g.timed /\ s.due = g.due
      BY <1>2, <2>1, AppendType
    <3> QED
      BY <2>1, <3>1 DEF SameCall
  <2>3. Does(t, s)
    BY <1>5 DEF g
  <2> HIDE DEF s
  <2>4. th'[t] = s
    BY <2>2, <2>3, <1>4
  <2> QED
    BY <1>1, <1>2, <1>3, <1>5, <2>2, <2>3, <2>4
<1>6. CASE /\ f = None /\ UNCHANGED file
           /\ Does(t, NextItem([r EXCEPT !.files = Append(@, None), !.ready = TRUE]))
  <2> DEFINE a == [r EXCEPT !.files = Append(@, None)]
             b == [r EXCEPT !.files = Append(@, None), !.ready = TRUE]
             s == NextItem(b)
  <2>1. /\ a \in Scan /\ Len(a.files) = n /\ a.files[n] = None
        /\ \A i \in DOMAIN r.files : a.files[i] = r.files[i]
        /\ SameCall(r, a)
    BY <1>1, AppendType DEF SameCall
  <2>2. b = [a EXCEPT !.ready = TRUE]
    BY <1>1 DEF Scan
  <2> HIDE DEF a
  <2>3. b \in Scan /\ b.files = a.files /\ b.ready /\ SameCall(r, b)
    BY <2>1, <2>2 DEF Scan, SameCall
  <2> HIDE DEF b
  <2>4. /\ s \in Scan /\ SameCall(r, s) /\ s.files = a.files /\ s.ready
        /\ \/ s.at = "ref" /\ n < Len(s.list)
           \/ s.at = "check" /\ n = Len(s.list)
    BY <1>1, <1>2, <2>1, <2>3, NextItemIs DEF SameCall
  <2>5. Does(t, s)
    BY <1>6 DEF b
  <2> HIDE DEF s
  <2>6. th'[t] = s
    BY <2>4, <2>5, <1>4
  <2> QED
    BY <1>1, <1>2, <1>3, <1>6, <2>1, <2>4, <2>5, <2>6
<1>7. CASE /\ f = None /\ UNCHANGED file
           /\ Does(t, IF r.files = <<>> THEN Idle ELSE Goto(r, "undo"))
  <2>1. "undo" \in Labels
    BY DEF Labels
  <2>2. CASE r.files = <<>>
    <3>1. Does(t, Idle) /\ th'[t] = Idle
      BY <1>7, <1>4, <2>2, IdleType
    <3> QED
      BY <1>1, <1>2, <1>3, <1>7, <2>2, <3>1, IdleType
  <2>3. CASE r.files # <<>>
    <3> DEFINE s == Goto(r, "undo")
    <3>1. s \in Scan /\ s.at = "undo" /\ s.files = r.files /\ SameCall(r, s)
      BY <1>1, <2>1, GotoType DEF SameCall
    <3>2. Does(t, s)
      BY <1>7, <2>3
    <3> HIDE DEF s
    <3>3. th'[t] = s
      BY <1>4, <3>1, <3>2
    <3> QED
      BY <1>1, <1>2, <1>3, <1>7, <2>3, <3>1, <3>2, <3>3
  <2> QED
    BY <2>2, <2>3
<1>8. \/ /\ f # None
         /\ file' = [file EXCEPT ![f].count = @ + 1]
         /\ Does(t, [Goto(r, "select") EXCEPT !.files = Append(@, f)])
      \/ /\ f = None /\ UNCHANGED file
         /\ Does(t, NextItem([r EXCEPT !.files = Append(@, None), !.ready = TRUE]))
      \/ /\ f = None /\ UNCHANGED file
         /\ Does(t, IF r.files = <<>> THEN Idle ELSE Goto(r, "undo"))
  BY DEF Ref
<1> QED
  BY <1>5, <1>6, <1>7, <1>8

\* What select() looks at stays.
SameSocket(a, b) == /\ b.data = a.data /\ b.space = a.space
                    /\ b.eof = a.eof /\ b.shut = a.shut /\ b.error = a.error

LEMMA SelectIs ==
  ASSUME TypeOK, PlaceIsRight, NEW t \in Threads, Select(t)
  PROVE  LET r == th[t]
             s == th'[t]
             n == Len(r.files)
             f == r.files[n]
             events == r.list[n].events
             revents == Returned(file[f], events)
         IN
         /\ r.at = "select" /\ n \in 1 .. Len(r.list) /\ f \in Files /\ Unlocked(f)
         /\ Does(t, s) /\ s \in Scan
         /\ SameCall(r, s) /\ s.files = r.files
         /\ s.ready <=> r.ready \/ Counts(r.kind, revents, events)
         /\ \/ s.at = "ref" /\ n < Len(s.list)
            \/ s.at = "check" /\ n = Len(s.list)
         /\ UNCHANGED <<fdt, event, post>>
         /\ file' \in [Files -> File]
         /\ \A g \in Files \ {f} : file'[g] = file[g]
         /\ SameSocket(file[f], file'[f]) /\ file'[f].count = file[f].count
         /\ file'[f].q = IF revents = {} THEN file[f].q \union {t} ELSE file[f].q
         /\ file'[f].sel = (file[f].sel \/ (revents = {} /\ "out" \in events))
<1> DEFINE r == th[t]
           n == Len(r.files)
           f == r.files[n]
           events == r.list[n].events
           revents == Returned(file[f], events)
           more == r.ready \/ Counts(r.kind, revents, events)
           a == [r EXCEPT !.ready = @ \/ Counts(r.kind, revents, events)]
           s == NextItem(a)
           h == [file[f] EXCEPT !.q = IF revents = {} THEN @ \union {t} ELSE @,
                                !.sel = @ \/ (revents = {} /\ "out" \in events)]
<1>1. r.at = "select" /\ Unlocked(f)
  BY DEF Select, At
<1>2. r \in Scan /\ n \in Nat /\ Len(r.list) \in Nat
  BY DEF TypeOK, Scan
<1>3. r.files # <<>> /\ f # None /\ n <= Len(r.list)
  BY <1>1 DEF PlaceIsRight, InPlace, TypeOK
<1>4. n \in 1 .. Len(r.list) /\ f \in Files
  <2>1. r.files \in Seq(Files \union {None})
    BY <1>2 DEF Scan
  <2>2. n > 0
    BY <1>3, <2>1
  <2> QED
    BY <1>2, <1>3, <2>1, <2>2
<1>5. more \in BOOLEAN
  BY <1>2 DEF Scan, Counts
<1>6. a = [r EXCEPT !.ready = more]
  BY <1>2 DEF Scan
<1> HIDE DEF more
<1>7. a \in Scan /\ a.files = r.files /\ a.ready = more /\ SameCall(r, a)
  BY <1>2, <1>5, <1>6 DEF Scan, SameCall
<1>8. Does(t, s) /\ file' = [file EXCEPT ![f] = h] /\ UNCHANGED <<fdt, event, post>>
  <2>1. file' = [file EXCEPT ![f].q = IF revents = {} THEN @ \union {t} ELSE @,
                             ![f].sel = @ \/ (revents = {} /\ "out" \in events)]
    BY DEF Select, Here
  <2>2. Does(t, s) /\ UNCHANGED <<fdt, event, post>>
    BY DEF Select, Here
  <2>3. file \in [Files -> File]
    BY DEF TypeOK
  <2> HIDE DEF s, revents, events, f
  <2>4. file' = [file EXCEPT ![f] = h]
    BY <1>4, <2>1, <2>3
  <2> QED
    BY <2>2, <2>4
<1> HIDE DEF a
<1>9. /\ s \in Scan /\ SameCall(r, s) /\ s.files = r.files /\ s.ready = more
      /\ \/ s.at = "ref" /\ n < Len(s.list)
         \/ s.at = "check" /\ n = Len(s.list)
  BY <1>2, <1>3, <1>7, NextItemIs DEF SameCall
<1> HIDE DEF s
<1>10. th'[t] = s
  BY <1>8, <1>9 DEF Does, TypeOK
<1>11. h \in File
  <2>1. file[f] \in File
    BY <1>4 DEF TypeOK
  <2> HIDE DEF f, revents, events
  <2> QED
    BY <2>1 DEF File
<1>12. /\ file' \in [Files -> File]
       /\ \A g \in Files \ {f} : file'[g] = file[g]
       /\ file'[f] = h
  <2> HIDE DEF h, f
  <2> QED
    BY <1>4, <1>8, <1>11, TypeOfFile
<1>13. /\ SameSocket(file[f], h) /\ h.count = file[f].count
       /\ h.q = IF revents = {} THEN file[f].q \union {t} ELSE file[f].q
       /\ h.sel = (file[f].sel \/ (revents = {} /\ "out" \in events))
  <2>1. file[f] \in File
    BY <1>4 DEF TypeOK
  <2> HIDE DEF f, revents, events
  <2> QED
    BY <2>1 DEF File, SameSocket
<1> HIDE DEF h
<1> QED
  BY <1>1, <1>4, <1>8, <1>9, <1>10, <1>12, <1>13 DEF more

LEMMA UndoIs ==
  ASSUME TypeOK, PlaceIsRight, RefsAreCounted, NEW t \in Threads, Undo(t)
  PROVE  LET r == th[t]
             s == th'[t]
             f == r.files[1]
         IN
         /\ r.at \in {"again", "undo"} /\ 1 \in DOMAIN r.files
         /\ Does(t, s) /\ s \in Scan /\ ~s.ready
         /\ Len(s.files) = Len(r.files) - 1
         /\ \A i \in DOMAIN s.files : s.files[i] = r.files[i + 1]
         /\ \/ s.files # <<>> /\ s.at = r.at /\ SameCall(r, s)
            \/ s.files = <<>> /\ s.at = "clear" /\ SameCall(r, s)
            \/ s.files = <<>> /\ s = Idle
         /\ UNCHANGED <<fdt, event, post>>
         /\ file' \in [Files -> File]
         /\ \A g \in Files \ {f} : file'[g] = file[g]
         /\ f # None => /\ f \in Files /\ Unlocked(f)
                        /\ SameSocket(file[f], file'[f]) /\ file'[f].sel = file[f].sel
                        /\ file'[f].q = file[f].q \ {t} /\ file'[f].count = file[f].count - 1
<1> DEFINE r == th[t]
           f == r.files[1]
           a == [r EXCEPT !.files = Tail(@), !.ready = FALSE]
           s == Undone(a)
           h == [file[f] EXCEPT !.q = @ \ {t}, !.count = @ - 1]
<1>1. r.at \in {"again", "undo"}
  BY DEF Undo, At
<1>2. r \in Scan
  BY DEF TypeOK
<1>3. r.files # <<>>
  BY <1>1 DEF PlaceIsRight, InPlace
<1>4. /\ 1 \in DOMAIN r.files /\ Head(r.files) = f /\ f \in Files \union {None}
      /\ Len(r.files) \in Nat
  BY <1>2, <1>3 DEF Scan
<1>5. /\ a \in Scan /\ Len(a.files) = Len(r.files) - 1
      /\ \A i \in DOMAIN a.files : a.files[i] = r.files[i + 1]
      /\ a.list = r.list /\ a.at = r.at /\ ~a.ready /\ a.kind = r.kind
      /\ a.timed = r.timed /\ a.due = r.due
  BY <1>2, <1>3, TailType
<1>6. Does(t, s) /\ UNCHANGED <<fdt, event, post>>
  BY DEF Undo
<1> HIDE DEF a
<1>7. /\ s \in Scan /\ ~s.ready /\ s.files = a.files
      /\ \/ s.files # <<>> /\ s.at = r.at /\ SameCall(r, s)
         \/ s.files = <<>> /\ s.at = "clear" /\ SameCall(r, s)
         \/ s.files = <<>> /\ s = Idle
  <2>1. CASE a.files # <<>>
    BY <1>5, <2>1 DEF Undone, SameCall
  <2>2. CASE a.files = <<>> /\ a.at = "again"
    <3>1. s = [a EXCEPT !.at = "clear"]
      BY <2>2 DEF Undone
    <3> HIDE DEF s
    <3>2. s \in Scan /\ ~s.ready /\ s.files = a.files /\ s.at = "clear" /\ SameCall(r, s)
      BY <1>5, <3>1 DEF Scan, Labels, SameCall
    <3> QED
      BY <2>2, <3>2
  <2>3. CASE a.files = <<>> /\ a.at # "again"
    <3>1. s = Idle
      BY <2>3 DEF Undone
    <3> HIDE DEF s
    <3> QED
      BY <2>3, <3>1, IdleType DEF Idle
  <2> QED
    BY <2>1, <2>2, <2>3
<1> HIDE DEF s
<1>8. th'[t] = s
  BY <1>6, <1>7 DEF Does, TypeOK
<1>9. /\ file' \in [Files -> File]
      /\ \A g \in Files \ {f} : file'[g] = file[g]
      /\ f # None => f \in Files /\ Unlocked(f) /\ file'[f] = h
  <2>1. CASE f = None
    <3>1. UNCHANGED file
      BY <1>4, <2>1 DEF Undo
    <3> QED
      BY <2>1, <3>1 DEF TypeOK
  <2>2. CASE f # None
    <3>1. Unlocked(f) /\ file' = [file EXCEPT ![f].q = @ \ {t}, ![f].count = @ - 1]
      BY <1>4, <2>2 DEF Undo
    <3>2. f \in Files /\ file[f].count > 0
      BY <1>4, <2>2, CountIsPositive
    <3>3. file[f] \in File
      BY <3>2 DEF TypeOK
    <3> HIDE DEF f
    <3>4. h \in File
      <4>1. file[f].count - 1 \in Nat /\ file[f].q \ {t} \in SUBSET Threads
        BY <3>2, <3>3 DEF File
      <4>2. h = [file[f] EXCEPT !.q = file[f].q \ {t}, !.count = file[f].count - 1]
        BY <3>3 DEF File
      <4> HIDE DEF h
      <4> QED
        BY <3>3, <4>1, <4>2 DEF File
    <3>5. file' = [file EXCEPT ![f] = h]
      BY <3>1, <3>2, <3>3 DEF TypeOK, File
    <3> QED
      BY <3>1, <3>2, <3>4, <3>5, TypeOfFile
  <2> QED
    BY <2>1, <2>2
<1>10. f # None => /\ SameSocket(file[f], h) /\ h.sel = file[f].sel
                    /\ h.q = file[f].q \ {t} /\ h.count = file[f].count - 1
  <2>1. f # None => file[f] \in File
    BY <1>4 DEF TypeOK
  <2> HIDE DEF f
  <2> QED
    BY <2>1 DEF File, SameSocket
<1> HIDE DEF h
<1> QED
  BY <1>1, <1>4, <1>5, <1>6, <1>7, <1>8, <1>9, <1>10

LEMMA BeginIs ==
  ASSUME TypeOK, PlaceIsRight, NEW t \in Threads, NEW c \in Calls[t], Begin(t, c)
  PROVE  LET r == th[t]
             s == th'[t]
         IN
         /\ r.at = "idle" /\ r.files = <<>>
         /\ Does(t, s) /\ s \in Scan /\ s.at = "clear" /\ s.files = <<>>
         /\ s.list # <<>> /\ ~s.ready /\ Len(s.list) <= OpenMax
         /\ UNCHANGED <<fdt, file, event, post>>
<1> DEFINE s == [Idle EXCEPT !.at = "clear", !.kind = c.kind, !.list = c.list, !.timed = c.timed]
<1>1. /\ c.kind \in {"select", "poll"} /\ c.list \in Seq(Item) /\ c.timed \in BOOLEAN
      /\ Len(c.list) \in 1 .. OpenMax
  BY CallsAssumption DEF Call
<1>2. s \in Scan /\ s.at = "clear" /\ s.files = <<>> /\ ~s.ready /\ s.list = c.list
  <2>1. Idle \in Scan /\ Idle.files = <<>> /\ ~Idle.ready
    BY IdleType DEF Idle
  <2>2. "clear" \in Labels
    BY DEF Labels
  <2> QED
    BY <1>1, <2>1, <2>2 DEF Scan
<1>3. th[t].at = "idle" /\ Does(t, s) /\ UNCHANGED <<fdt, file, event, post>>
  BY DEF Begin, At
<1>4. th[t].files = <<>>
  BY <1>3 DEF PlaceIsRight, InPlace
<1> HIDE DEF s
<1>5. th'[t] = s
  BY <1>2, <1>3 DEF Does, TypeOK
<1>6. s.list # <<>> /\ Len(s.list) <= OpenMax
  BY <1>1, <1>2
<1> QED
  BY <1>2, <1>3, <1>4, <1>5, <1>6

\* The steps that change no array.
Quiet(t) == \/ Clear(t) \/ Check(t) \/ Wait(t) \/ Interrupted(t) \/ Timeout(t)
            \/ TimePasses(t)

LEMMA QuietIs ==
  ASSUME TypeOK, PlaceIsRight, NEW t \in Threads, Quiet(t)
  PROVE  LET r == th[t]
             s == th'[t]
         IN
         /\ Does(t, s) /\ s \in Scan
         /\ s.files = r.files /\ s.list = r.list /\ s.kind = r.kind /\ s.ready = r.ready
         /\ UNCHANGED <<fdt, file, post>>
         /\ \/ /\ r.at = "clear" /\ s.at = "ref"
               /\ event' = [event EXCEPT ![t] = FALSE]
            \/ /\ UNCHANGED event
               /\ \/ r.at = "check" /\ s.at = "undo"
                  \/ r.at = "check" /\ s.at = "wait" /\ ~r.ready
                  \/ r.at = "wait" /\ s.at = "again" /\ event[t]
                  \/ r.at = "wait" /\ s.at = "asleep" /\ ~event[t]
                  \/ r.at = "asleep" /\ s.at = "undo"
                  \/ r.at # "idle" /\ s.at = r.at
<1> DEFINE r == th[t]
<1>1. r \in Scan
  BY DEF TypeOK
<1>2. ASSUME NEW s, Does(t, s), s \in Scan
      PROVE  th'[t] = s
  BY <1>2 DEF Does, TypeOK
<1>3. \A at \in Labels : /\ Goto(r, at) \in Scan /\ Goto(r, at).at = at
                         /\ Goto(r, at).files = r.files /\ Goto(r, at).list = r.list
                         /\ Goto(r, at).kind = r.kind /\ Goto(r, at).ready = r.ready
  BY <1>1, GotoType
<1>4. {"ref", "undo", "wait", "asleep", "again"} \subseteq Labels
  BY DEF Labels
<1> HIDE DEF r
<1>5. CASE Clear(t)
  <2>1. /\ r.at = "clear" /\ Does(t, Goto(r, "ref"))
        /\ event' = [event EXCEPT ![t] = FALSE] /\ UNCHANGED <<fdt, file, post>>
    BY <1>5 DEF Clear, At, r
  <2>2. th'[t] = Goto(r, "ref")
    BY <1>2, <1>3, <1>4, <2>1
  <2> QED
    BY <1>3, <1>4, <2>1, <2>2 DEF r
<1>6. CASE Check(t)
  <2>1. PICK at \in {"undo", "wait"} :
          /\ r.at = "check" /\ Does(t, Goto(r, at)) /\ (at = "wait" => ~r.ready)
          /\ UNCHANGED <<fdt, file, event, post>>
    BY <1>6 DEF Check, At, r
  <2>2. th'[t] = Goto(r, at)
    BY <1>2, <1>3, <1>4, <2>1
  <2> QED
    BY <1>3, <1>4, <2>1, <2>2 DEF r
<1>7. CASE Wait(t)
  <2>1. PICK at \in {"again", "asleep"} :
          /\ r.at = "wait" /\ Does(t, Goto(r, at)) /\ (at = "again" <=> event[t])
          /\ UNCHANGED <<fdt, file, event, post>>
    BY <1>7 DEF Wait, At, r
  <2>2. th'[t] = Goto(r, at)
    BY <1>2, <1>3, <1>4, <2>1
  <2> QED
    BY <1>3, <1>4, <2>1, <2>2 DEF r
<1>8. CASE Interrupted(t) \/ Timeout(t)
  <2>1. /\ r.at = "asleep" /\ Does(t, Goto(r, "undo"))
        /\ UNCHANGED <<fdt, file, event, post>>
    BY <1>8 DEF Interrupted, Timeout, At, r
  <2>2. th'[t] = Goto(r, "undo")
    BY <1>2, <1>3, <1>4, <2>1
  <2> QED
    BY <1>3, <1>4, <2>1, <2>2 DEF r
<1>9. CASE TimePasses(t)
  <2> DEFINE s == [r EXCEPT !.due = TRUE]
  <2>1. r.at # "idle" /\ Does(t, s) /\ UNCHANGED <<fdt, file, event, post>>
    BY <1>9 DEF TimePasses, At, r
  <2>2. /\ s \in Scan /\ s.files = r.files /\ s.list = r.list /\ s.kind = r.kind
        /\ s.ready = r.ready /\ s.at = r.at
    BY <1>1 DEF Scan, r
  <2> HIDE DEF s
  <2>3. th'[t] = s
    BY <1>2, <2>1, <2>2
  <2> QED
    BY <2>1, <2>2, <2>3 DEF r
<1> QED
  BY <1>5, <1>6, <1>7, <1>8, <1>9 DEF Quiet

\* A socket tells those on its queue, or changes without that.
LEMMA SocketIs ==
  ASSUME TypeOK, NEW f \in Files, Net(f) \/ Uses(f)
  PROVE  /\ UNCHANGED <<fdt, event, th>> /\ Unlocked(f)
         /\ file' \in [Files -> File]
         /\ \A g \in Files \ {f} : file'[g] = file[g]
         /\ file'[f].count = file[f].count /\ file'[f].q = file[f].q
         /\ file[f].eof => file'[f].eof
         /\ \/ post' = [post EXCEPT ![f].left = file[f].q]
            \/ /\ UNCHANGED post
               /\ file'[f].sel = file[f].sel
               /\ file[f].eof = file'[f].eof /\ file[f].shut = file'[f].shut
               /\ file'[f].error => file[f].error
               /\ file'[f].data => file[f].data
               /\ file'[f].space => file[f].space \/ ~file[f].sel
<1>1. file \in [Files -> File] /\ file[f] \in File
  BY DEF TypeOK
<1>2. CASE Input(f)
  <2>1. /\ file' = [file EXCEPT ![f] = [file[f] EXCEPT !.data = TRUE]]
        /\ Wakes(f) /\ Unlocked(f) /\ UNCHANGED <<fdt, event, th>>
    BY <1>1, <1>2 DEF Input, InUse
  <2>2. [file[f] EXCEPT !.data = TRUE] \in File
    BY <1>1 DEF File
  <2> QED
    BY <1>1, <2>1, <2>2 DEF File, Wakes
<1>3. CASE CantRcvMore(f)
  <2>1. /\ file' = [file EXCEPT ![f] = [file[f] EXCEPT !.eof = TRUE]]
        /\ Wakes(f) /\ Unlocked(f) /\ UNCHANGED <<fdt, event, th>>
    BY <1>1, <1>3 DEF CantRcvMore, InUse
  <2>2. [file[f] EXCEPT !.eof = TRUE] \in File
    BY <1>1 DEF File
  <2> QED
    BY <1>1, <2>1, <2>2 DEF File, Wakes
<1>4. CASE Error(f)
  <2> DEFINE s == [file[f] EXCEPT !.error = TRUE, !.eof = TRUE, !.shut = TRUE, !.sel = FALSE]
  <2>1. /\ file' = [file EXCEPT ![f] = s]
        /\ Wakes(f) /\ Unlocked(f) /\ UNCHANGED <<fdt, event, th>>
    BY <1>1, <1>4 DEF Error, InUse
  <2>2. s \in File /\ s.count = file[f].count /\ s.q = file[f].q /\ s.eof
    BY <1>1 DEF File
  <2> QED
    BY <1>1, <2>1, <2>2 DEF File, Wakes
<1>5. CASE Space(f)
  <2> DEFINE s == [file[f] EXCEPT !.space = TRUE, !.sel = FALSE]
  <2>1. /\ file' = [file EXCEPT ![f] = s]
        /\ IF file[f].sel THEN Wakes(f) ELSE UNCHANGED post
        /\ Unlocked(f) /\ UNCHANGED <<fdt, event, th>>
    BY <1>1, <1>5 DEF Space, InUse
  <2>2. /\ s \in File /\ s.count = file[f].count /\ s.q = file[f].q /\ s.eof = file[f].eof
        /\ ~s.sel /\ s.error = file[f].error /\ s.shut = file[f].shut /\ s.data = file[f].data
        /\ {s.sel, file[f].sel} \subseteq BOOLEAN
    BY <1>1 DEF File
  <2> HIDE DEF s
  <2>3. file'[f] = s /\ file' \in [Files -> File] /\ \A g \in Files \ {f} : file'[g] = file[g]
    BY <1>1, <2>1, <2>2
  <2> QED
    BY <2>1, <2>2, <2>3 DEF Wakes
<1>6. CASE ReadAll(f)
  <2> DEFINE s == [file[f] EXCEPT !.data = FALSE]
  <2>1. /\ file' = [file EXCEPT ![f] = s]
        /\ Unlocked(f) /\ UNCHANGED <<fdt, event, post, th>>
    BY <1>1, <1>6 DEF ReadAll, InUse
  <2>2. /\ s \in File /\ s.count = file[f].count /\ s.q = file[f].q /\ s.eof = file[f].eof
        /\ s.sel = file[f].sel /\ s.error = file[f].error /\ s.shut = file[f].shut /\ ~s.data
        /\ s.space = file[f].space
    BY <1>1 DEF File
  <2> HIDE DEF s
  <2>3. file'[f] = s /\ file' \in [Files -> File] /\ \A g \in Files \ {f} : file'[g] = file[g]
    BY <1>1, <2>1, <2>2
  <2> QED
    BY <2>1, <2>2, <2>3
<1>7. CASE TakeError(f)
  <2> DEFINE s == [file[f] EXCEPT !.error = FALSE]
  <2>1. /\ file' = [file EXCEPT ![f] = s]
        /\ Unlocked(f) /\ UNCHANGED <<fdt, event, post, th>>
    BY <1>1, <1>7 DEF TakeError, InUse
  <2>2. /\ s \in File /\ s.count = file[f].count /\ s.q = file[f].q /\ s.eof = file[f].eof
        /\ s.sel = file[f].sel /\ ~s.error /\ s.shut = file[f].shut
        /\ s.data = file[f].data /\ s.space = file[f].space
    BY <1>1 DEF File
  <2> HIDE DEF s
  <2>3. file'[f] = s /\ file' \in [Files -> File] /\ \A g \in Files \ {f} : file'[g] = file[g]
    BY <1>1, <2>1, <2>2
  <2> QED
    BY <2>1, <2>2, <2>3
<1>8. CASE Fill(f)
  <2> DEFINE s == [file[f] EXCEPT !.space = FALSE]
  <2>1. /\ file' = [file EXCEPT ![f] = s]
        /\ Unlocked(f) /\ UNCHANGED <<fdt, event, post, th>>
    BY <1>1, <1>8 DEF Fill, InUse
  <2>2. /\ s \in File /\ s.count = file[f].count /\ s.q = file[f].q /\ s.eof = file[f].eof
        /\ s.sel = file[f].sel /\ s.error = file[f].error /\ s.shut = file[f].shut
        /\ s.data = file[f].data /\ ~s.space
    BY <1>1 DEF File
  <2> HIDE DEF s
  <2>3. file'[f] = s /\ file' \in [Files -> File] /\ \A g \in Files \ {f} : file'[g] = file[g]
    BY <1>1, <2>1, <2>2
  <2> QED
    BY <2>1, <2>2, <2>3
<1> QED
  BY <1>2, <1>3, <1>4, <1>5, <1>6, <1>7, <1>8 DEF Net, Uses

------------------------------------------------------------------------------
\* A step of one thread leaves all scans sound if it leaves its own so.
LEMMA ScanStep ==
  ASSUME TypeOK, PlaceIsRight, NEW t \in Threads, NEW r \in Scan, Does(t, r),
         Len(r.files) <= Len(r.list), Len(r.list) <= OpenMax, InPlace(r)
  PROVE  /\ th' \in [Threads -> Scan]
         /\ \A u \in Threads : Len(th'[u].files) <= Len(th'[u].list) /\ Len(th'[u].list) <= OpenMax
         /\ PlaceIsRight'
BY TypeOfScan DEF PlaceIsRight

Labelled(r) == r \in Scan /\ r.at \in Labels /\ Len(r.files) \in Nat /\ Len(r.list) \in Nat

LEMMA ScanIs ==
  ASSUME TypeOK, NEW t \in Threads
  PROVE  /\ Labelled(th[t])
         /\ Len(th[t].files) <= Len(th[t].list) /\ Len(th[t].list) <= OpenMax
BY DEF TypeOK, Scan, Labelled

LEMMA TypeStep ==
  ASSUME TypeOK, PlaceIsRight, RefsAreCounted, [Next]_vars
  PROVE  TypeOK' /\ PlaceIsRight'
<1> USE CallsAssumption
<1>1. ASSUME NEW t \in Threads, NEW c \in Calls[t], Begin(t, c)
      PROVE  TypeOK' /\ PlaceIsRight'
  <2> DEFINE s == th'[t]
  <2>1. /\ Does(t, s) /\ s \in Scan /\ s.at = "clear" /\ s.files = <<>>
        /\ s.list # <<>> /\ ~s.ready /\ Len(s.list) <= OpenMax
        /\ UNCHANGED <<fdt, file, event, post>>
    BY <1>1, BeginIs
  <2>2. InPlace(s) /\ Len(s.files) <= Len(s.list)
    BY <2>1 DEF InPlace, Scan
  <2> HIDE DEF s
  <2> QED
    BY <2>1, <2>2, ScanStep DEF TypeOK
<1>2. ASSUME NEW t \in Threads, Quiet(t)
      PROVE  TypeOK' /\ PlaceIsRight'
  <2> DEFINE r == th[t]
             s == th'[t]
  <2>1. /\ Does(t, s) /\ s \in Scan
        /\ s.files = r.files /\ s.list = r.list /\ s.ready = r.ready
        /\ UNCHANGED <<fdt, file, post>>
        /\ \/ /\ r.at = "clear" /\ s.at = "ref"
              /\ event' = [event EXCEPT ![t] = FALSE]
           \/ /\ UNCHANGED event
              /\ \/ r.at = "check" /\ s.at = "undo"
                 \/ r.at = "check" /\ s.at = "wait" /\ ~r.ready
                 \/ r.at = "wait" /\ s.at = "again" /\ event[t]
                 \/ r.at = "wait" /\ s.at = "asleep" /\ ~event[t]
                 \/ r.at = "asleep" /\ s.at = "undo"
                 \/ r.at # "idle" /\ s.at = r.at
    BY <1>2, QuietIs
  <2>2. Labelled(r) /\ Len(r.files) <= Len(r.list) /\ Len(r.list) <= OpenMax /\ InPlace(r)
    BY ScanIs DEF PlaceIsRight
  <2> HIDE DEF r, s
  <2>3. r.list # <<>> => Len(r.list) > 0
    BY <2>2 DEF Labelled, Scan
  <2>4. r.files = <<>> => Len(r.files) = 0
    OBVIOUS
  <2>5. InPlace(s)
    BY <2>1, <2>2, <2>3, <2>4 DEF InPlace, Labelled
  <2> QED
    BY <2>1, <2>2, <2>5, ScanStep DEF TypeOK
<1>3. ASSUME NEW t \in Threads, Ref(t)
      PROVE  TypeOK' /\ PlaceIsRight'
  <2> DEFINE r == th[t]
             s == th'[t]
             n == Len(r.files) + 1
             f == fdt[r.list[n].fd]
  <2>1. /\ r.at = "ref" /\ n \in 1 .. Len(r.list)
        /\ Does(t, s) /\ s \in Scan
        /\ UNCHANGED <<fdt, event, post>>
    BY <1>3, RefIs
  <2>2. \/ /\ f \in Files /\ s.at = "select" /\ SameCall(r, s)
           /\ file' = [file EXCEPT ![f].count = @ + 1]
           /\ Len(s.files) = n /\ s.files[n] = f
        \/ /\ SameCall(r, s) /\ UNCHANGED file
           /\ \/ s.at = "ref" /\ n < Len(s.list)
              \/ s.at = "check" /\ n = Len(s.list)
           /\ Len(s.files) = n
        \/ UNCHANGED file /\ s = Idle
        \/ UNCHANGED file /\ s.at = "undo" /\ s.files = r.files /\ r.files # <<>> /\ SameCall(r, s)
    BY <1>3, RefIs
  <2>3. Labelled(r) /\ Len(r.files) <= Len(r.list) /\ Len(r.list) <= OpenMax /\ r.list # <<>>
    BY <2>1, ScanIs DEF PlaceIsRight, InPlace
  <2>4. file' \in [Files -> File]
    <3>1. ASSUME f \in Files
          PROVE  [file EXCEPT ![f].count = @ + 1] \in [Files -> File]
      <4> HIDE DEF f
      <4>1. file \in [Files -> File] /\ file[f] \in File
        BY <3>1 DEF TypeOK
      <4>2. [file[f] EXCEPT !.count = @ + 1] \in File
        BY <4>1 DEF File
      <4> QED
        BY <4>1, <4>2
    <3>2. UNCHANGED file => file' \in [Files -> File]
      BY DEF TypeOK
    <3> HIDE DEF f, s
    <3> QED
      BY <2>2, <3>1, <3>2
  <2>5. InPlace(s) /\ Len(s.files) <= Len(s.list) /\ Len(s.list) <= OpenMax
    <3>1. CASE /\ f \in Files /\ s.at = "select" /\ SameCall(r, s)
               /\ Len(s.files) = n /\ s.files[n] = f
      <4>1. s.files # <<>>
        BY <2>3, <3>1 DEF Labelled
      <4> HIDE DEF f, r, s
      <4> QED
        BY <2>1, <2>3, <3>1, <4>1 DEF InPlace, SameCall, Labelled
    <3>2. CASE /\ SameCall(r, s)
               /\ \/ s.at = "ref" /\ n < Len(s.list)
                  \/ s.at = "check" /\ n = Len(s.list)
               /\ Len(s.files) = n
      <4> HIDE DEF r, s
      <4> QED
        BY <2>1, <2>3, <3>2 DEF InPlace, SameCall, Labelled
    <3>3. CASE s = Idle
      <4> HIDE DEF s
      <4> QED
        BY <3>3, IdleType DEF Idle, InPlace
    <3>4. CASE s.at = "undo" /\ s.files = r.files /\ r.files # <<>> /\ SameCall(r, s)
      <4> HIDE DEF r, s
      <4> QED
        BY <2>1, <2>3, <3>4 DEF InPlace, SameCall, Labelled
    <3> QED
      BY <2>2, <3>1, <3>2, <3>3, <3>4
  <2> HIDE DEF s
  <2> QED
    BY <2>1, <2>4, <2>5, ScanStep DEF TypeOK
<1>4. ASSUME NEW t \in Threads, Select(t)
      PROVE  TypeOK' /\ PlaceIsRight'
  <2> DEFINE r == th[t]
             s == th'[t]
             n == Len(r.files)
  <2>1. /\ r.at = "select" /\ n \in 1 .. Len(r.list)
        /\ Does(t, s) /\ s \in Scan
        /\ SameCall(r, s) /\ s.files = r.files
        /\ \/ s.at = "ref" /\ n < Len(s.list)
           \/ s.at = "check" /\ n = Len(s.list)
        /\ UNCHANGED <<fdt, event, post>>
        /\ file' \in [Files -> File]
    BY <1>4, SelectIs
  <2>2. Labelled(r) /\ Len(r.list) <= OpenMax /\ r.list # <<>>
    BY <2>1, ScanIs DEF PlaceIsRight, InPlace
  <2> HIDE DEF r, s
  <2>3. Len(s.files) = n /\ s.list = r.list /\ Len(r.list) \in Nat
    BY <2>1, <2>2 DEF SameCall, Labelled
  <2>4. InPlace(s)
    BY <2>1, <2>2, <2>3 DEF InPlace
  <2>5. Len(s.files) <= Len(s.list) /\ Len(s.list) <= OpenMax
    BY <2>1, <2>2, <2>3
  <2> QED
    BY <2>1, <2>4, <2>5, ScanStep DEF TypeOK
<1>5. ASSUME NEW t \in Threads, Undo(t)
      PROVE  TypeOK' /\ PlaceIsRight'
  <2> DEFINE r == th[t]
             s == th'[t]
  <2>1. /\ r.at \in {"again", "undo"}
        /\ Does(t, s) /\ s \in Scan /\ ~s.ready
        /\ Len(s.files) = Len(r.files) - 1
        /\ \/ s.files # <<>> /\ s.at = r.at /\ SameCall(r, s)
           \/ s.files = <<>> /\ s.at = "clear" /\ SameCall(r, s)
           \/ s.files = <<>> /\ s = Idle
        /\ UNCHANGED <<fdt, event, post>>
        /\ file' \in [Files -> File]
    BY <1>5, UndoIs
  <2>2. /\ Labelled(r) /\ Len(r.list) <= OpenMax /\ r.list # <<>>
        /\ Len(r.files) <= Len(r.list)
    BY <2>1, ScanIs DEF PlaceIsRight, InPlace
  <2>3. InPlace(s) /\ Len(s.files) <= Len(s.list) /\ Len(s.list) <= OpenMax
    <3> HIDE DEF r, s
    <3>1. CASE s = Idle
      BY <3>1, IdleType DEF Idle, InPlace
    <3>2. CASE SameCall(r, s)
      <4>1. s.list = r.list
        BY <3>2 DEF SameCall
      <4>2. Len(s.files) <= Len(s.list) /\ Len(s.list) <= OpenMax
        BY <2>1, <2>2, <4>1 DEF Labelled
      <4>3. InPlace(s)
        BY <2>1, <2>2, <4>1 DEF InPlace, Idle
      <4> QED
        BY <4>2, <4>3
    <3> QED
      BY <2>1, <3>1, <3>2
  <2> HIDE DEF s
  <2> QED
    BY <2>1, <2>3, ScanStep DEF TypeOK
<1>6. ASSUME NEW f \in Files, PostEvent(f)
      PROVE  TypeOK' /\ PlaceIsRight'
  <2>1. PICK t \in post[f].left : /\ event' = [event EXCEPT ![t] = TRUE]
                                  /\ post' = [post EXCEPT ![f].now = t]
                                  /\ UNCHANGED <<fdt, file, th>>
    BY <1>6 DEF PostEvent
  <2>2. t \in Threads
    BY DEF TypeOK
  <2> QED
    BY <2>1, <2>2 DEF TypeOK, PlaceIsRight
<1>7. ASSUME NEW f \in Files, ThreadWakeup(f)
      PROVE  TypeOK' /\ PlaceIsRight'
  <2> DEFINE t == post[f].now
  <2>1. /\ t \in Threads /\ UNCHANGED <<fdt, file, event>>
        /\ th' = IF At(t, "asleep") THEN [th EXCEPT ![t].at = "wait"] ELSE th
        /\ post' = [post EXCEPT ![f] = [left |-> @.left \ {t}, now |-> None]]
    BY <1>7 DEF ThreadWakeup, TypeOK
  <2>2. post' \in [Files -> [left : SUBSET Threads, now : Threads \union {None}]]
    BY <2>1 DEF TypeOK
  <2> HIDE DEF t
  <2>3. CASE At(t, "asleep")
    <3> DEFINE s == Goto(th[t], "wait")
    <3>1. Does(t, s)
      BY <2>1, <2>3 DEF Does, Goto
    <3>2. /\ s \in Scan /\ s.at = "wait" /\ s.files = th[t].files /\ s.list = th[t].list
          /\ s.ready = th[t].ready
      BY <2>1, ScanIs, GotoType DEF Labels, Labelled
    <3>3. InPlace(th[t]) /\ th[t].at = "asleep"
      BY <2>1, <2>3 DEF PlaceIsRight, At
    <3> HIDE DEF s
    <3>4. InPlace(s)
      BY <3>2, <3>3 DEF InPlace
    <3>5. Len(s.files) <= Len(s.list) /\ Len(s.list) <= OpenMax
      BY <2>1, <3>2, ScanIs
    <3>6. /\ th' \in [Threads -> Scan] /\ PlaceIsRight'
          /\ \A u \in Threads : Len(th'[u].files) <= Len(th'[u].list) /\ Len(th'[u].list) <= OpenMax
      BY <2>1, <3>1, <3>2, <3>4, <3>5, ScanStep
    <3> QED
      BY <2>1, <2>2, <3>6 DEF TypeOK
  <2>4. CASE ~At(t, "asleep")
    BY <2>1, <2>2, <2>4 DEF TypeOK, PlaceIsRight
  <2> QED
    BY <2>3, <2>4
<1>8. ASSUME NEW f \in Files, Net(f) \/ Uses(f)
      PROVE  TypeOK' /\ PlaceIsRight'
  <2>1. /\ UNCHANGED <<fdt, event, th>> /\ file' \in [Files -> File]
        /\ post' = [post EXCEPT ![f].left = file[f].q] \/ UNCHANGED post
    BY <1>8, SocketIs
  <2>2. file[f].q \subseteq Threads
    BY DEF TypeOK, File
  <2>3. /\ post \in [Files -> [left : SUBSET Threads, now : Threads \union {None}]]
        /\ post[f] \in [left : SUBSET Threads, now : Threads \union {None}]
    BY DEF TypeOK
  <2>4. [post[f] EXCEPT !.left = file[f].q] \in [left : SUBSET Threads, now : Threads \union {None}]
    BY <2>2, <2>3
  <2>5. post' \in [Files -> [left : SUBSET Threads, now : Threads \union {None}]]
    BY <2>1, <2>3, <2>4
  <2> QED
    BY <2>1, <2>5 DEF TypeOK, PlaceIsRight
<1>9. ASSUME NEW d \in Fds, Close(d)
      PROVE  TypeOK' /\ PlaceIsRight'
  <2> DEFINE f == fdt[d]
  <2>1. /\ f \in Files /\ fdt' = [fdt EXCEPT ![d] = None]
        /\ file' = [file EXCEPT ![f].count = @ - 1] /\ UNCHANGED <<event, post, th>>
    BY <1>9 DEF Close, TypeOK
  <2>2. file[f].count > 0
    BY <2>1, CountIsPositive
  <2> HIDE DEF f
  <2>3. file \in [Files -> File] /\ file[f] \in File
    BY <2>1 DEF TypeOK
  <2>4. [file[f] EXCEPT !.count = @ - 1] \in File
    BY <2>2, <2>3 DEF File
  <2>5. file' \in [Files -> File]
    BY <2>1, <2>3, <2>4
  <2> QED
    BY <2>1, <2>5 DEF TypeOK, PlaceIsRight
<1>10. CASE UNCHANGED vars
  BY <1>10 DEF vars, TypeOK, PlaceIsRight
<1> QED
  BY <1>1, <1>2, <1>3, <1>4, <1>5, <1>6, <1>7, <1>8, <1>9, <1>10 DEF Next, Step, Quiet

------------------------------------------------------------------------------
\* The counts of references.

LEMMA CountsStay ==
  ASSUME RefsAreCounted, UNCHANGED fdt,
         \A g \in Files : file'[g].count = file[g].count,
         \A u \in Threads : th'[u].files = th[u].files
  PROVE  RefsAreCounted'
<1>1. \A g \in Files : Refs(g)' = Refs(g)
  BY DEF Refs
<1> QED
  BY <1>1 DEF RefsAreCounted

\* A scan that has reached file f holds a reference of it more.
LEMMA RefsGrown ==
  ASSUME TypeOK, TypeOK', NEW t \in Threads,
         \A u \in Threads \ {t} : th'[u] = th[u],
         Len(th'[t].files) = Len(th[t].files) + 1,
         \A i \in DOMAIN th[t].files : th'[t].files[i] = th[t].files[i],
         NEW g \in Files
  PROVE  Cardinality(Refs(g)') =
           IF th'[t].files[Len(th[t].files) + 1] = g THEN Cardinality(Refs(g)) + 1
                                                     ELSE Cardinality(Refs(g))
<1> DEFINE n == Len(th[t].files) + 1
<1>1. n \in 1 .. OpenMax /\ DOMAIN th[t].files = 1 .. n - 1
  BY CallsAssumption DEF TypeOK, Scan
<1>2. Refs(g)' = IF th'[t].files[n] = g THEN Refs(g) \union {<<t, n>>} ELSE Refs(g)
  <2> DEFINE P == Threads \X (1 .. OpenMax)
  <2>1. Refs(g) \subseteq P /\ Refs(g)' \subseteq P /\ <<t, n>> \in P
    BY <1>1 DEF Refs
  <2>2. ASSUME NEW u \in Threads, NEW i \in 1 .. OpenMax
        PROVE  <<u, i>> \in Refs(g)' <=> \/ <<u, i>> \in Refs(g)
                                         \/ u = t /\ i = n /\ th'[t].files[n] = g
    <3>1. /\ <<u, i>> \in Refs(g) <=> i <= Len(th[u].files) /\ th[u].files[i] = g
          /\ <<u, i>> \in Refs(g)' <=> i <= Len(th'[u].files) /\ th'[u].files[i] = g
      BY DEF Refs
    <3>2. CASE u # t
      BY <3>1, <3>2
    <3>3. CASE u = t /\ i = n
      BY <1>1, <3>1, <3>3
    <3>4. CASE u = t /\ i # n
      <4>1. i <= Len(th[t].files) => i \in DOMAIN th[t].files
        BY <1>1
      <4>2. i <= Len(th'[t].files) <=> i <= Len(th[t].files)
        BY <1>1, <3>4
      <4> QED
        BY <3>1, <3>4, <4>1, <4>2
    <3> QED
      BY <3>2, <3>3, <3>4
  <2>3. ASSUME NEW p \in P
        PROVE  p \in Refs(g)' <=> p \in Refs(g) \/ (p = <<t, n>> /\ th'[t].files[n] = g)
    <3>1. p[1] \in Threads /\ p[2] \in 1 .. OpenMax /\ p = <<p[1], p[2]>>
      OBVIOUS
    <3> QED
      BY <2>2, <3>1
  <2> HIDE DEF P, n
  <2> QED
    BY <2>1, <2>3
<1>3. <<t, n>> \notin Refs(g)
  BY <1>1 DEF Refs
<1> QED
  BY <1>2, <1>3, RefsAreFinite, FS_AddElement

\* One that lets go of its first file moves the others up.
LEMMA RefsDropped ==
  ASSUME TypeOK, TypeOK', NEW t \in Threads,
         \A u \in Threads \ {t} : th'[u] = th[u],
         1 \in DOMAIN th[t].files,
         Len(th'[t].files) = Len(th[t].files) - 1,
         \A i \in DOMAIN th'[t].files : th'[t].files[i] = th[t].files[i + 1],
         NEW g \in Files
  PROVE  Cardinality(Refs(g)') =
           IF th[t].files[1] = g THEN Cardinality(Refs(g)) - 1 ELSE Cardinality(Refs(g))
<1> DEFINE S == Refs(g) \ {<<t, 1>>}
           R == Refs(g)'
           Up(p) == IF p[1] = t THEN <<t, p[2] - 1>> ELSE p
           h == [p \in S |-> Up(p)]
<1>1. /\ Len(th[t].files) \in 1 .. OpenMax /\ DOMAIN th[t].files = 1 .. Len(th[t].files)
      /\ DOMAIN th'[t].files = 1 .. Len(th[t].files) - 1
      /\ OpenMax \in Nat
  BY CallsAssumption DEF TypeOK, Scan
<1>2. <<t, 1>> \in Refs(g) <=> th[t].files[1] = g
  BY <1>1 DEF Refs
<1>3. /\ \A p \in S : p = <<p[1], p[2]>> /\ p[1] \in Threads /\ p[2] \in 1 .. OpenMax
      /\ \A p \in R : p = <<p[1], p[2]>> /\ p[1] \in Threads /\ p[2] \in 1 .. OpenMax
  BY DEF Refs
<1>4. \A p \in S : Up(p) \in R
  <2> SUFFICES ASSUME NEW p \in S PROVE Up(p) \in R
    OBVIOUS
  <2>1. CASE p[1] = t
    <3>1. p = <<t, p[2]>> /\ p[2] \in 1 .. OpenMax /\ p[2] # 1
      BY <1>3, <2>1
    <3>2. p[2] <= Len(th[t].files) /\ th[t].files[p[2]] = g
      BY <2>1 DEF Refs
    <3>3. p[2] - 1 \in 1 .. OpenMax /\ p[2] - 1 \in DOMAIN th'[t].files
      BY <1>1, <3>1, <3>2
    <3>4. th'[t].files[p[2] - 1] = g
      BY <3>1, <3>2, <3>3
    <3>5. p[2] - 1 <= Len(th'[t].files)
      BY <1>1, <3>1, <3>2
    <3>6. <<t, p[2] - 1>> \in R
      BY <3>3, <3>4, <3>5 DEF Refs
    <3> QED
      BY <2>1, <3>6
  <2>2. CASE p[1] # t
    <3>1. p \in R
      BY <1>3, <2>2 DEF Refs
    <3> QED
      BY <2>2, <3>1
  <2> QED
    BY <2>1, <2>2
<1>5. \A p, q \in S : Up(p) = Up(q) => p = q
  <2> SUFFICES ASSUME NEW p \in S, NEW q \in S, Up(p) = Up(q) PROVE p = q
    OBVIOUS
  <2>1. CASE p[1] = t /\ q[1] = t
    BY <1>3, <2>1
  <2>2. CASE p[1] # t /\ q[1] # t
    BY <1>3, <2>2
  <2>3. CASE p[1] = t /\ q[1] # t
    BY <1>3, <2>3
  <2>4. CASE p[1] # t /\ q[1] = t
    BY <1>3, <2>4
  <2> QED
    BY <2>1, <2>2, <2>3, <2>4
<1>6. \A q \in R : \E p \in S : Up(p) = q
  <2> SUFFICES ASSUME NEW q \in R PROVE \E p \in S : Up(p) = q
    OBVIOUS
  <2>1. CASE q[1] = t
    <3>1. q = <<t, q[2]>> /\ q[2] \in 1 .. OpenMax
      BY <1>3, <2>1
    <3>2. q[2] <= Len(th'[t].files) /\ th'[t].files[q[2]] = g
      BY <2>1 DEF Refs
    <3>3. q[2] \in DOMAIN th'[t].files /\ q[2] + 1 \in 1 .. OpenMax /\ q[2] + 1 <= Len(th[t].files)
      BY <1>1, <3>1, <3>2
    <3>4. th[t].files[q[2] + 1] = g
      BY <3>2, <3>3
    <3>5. <<t, q[2] + 1>> \in S
      BY <3>1, <3>3, <3>4 DEF Refs
    <3>6. Up(<<t, q[2] + 1>>) = q
      BY <3>1
    <3> QED
      BY <3>5, <3>6
  <2>2. CASE q[1] # t
    <3>1. q \in S
      BY <1>3, <2>2 DEF Refs
    <3> QED
      BY <2>2, <3>1
  <2> QED
    BY <2>1, <2>2
<1>7. ExistsBijection(S, R)
  <2> HIDE DEF S, R, Up
  <2>1. h \in [S -> R]
    BY <1>4
  <2>2. \A p \in S : h[p] = Up(p)
    OBVIOUS
  <2> HIDE DEF h
  <2>3. h \in Injection(S, R)
    BY <1>5, <2>1, <2>2 DEF Injection, IsInjective
  <2>4. h \in Surjection(S, R)
    BY <1>6, <2>1, <2>2 DEF Surjection
  <2> QED
    BY <2>3, <2>4 DEF ExistsBijection, Bijection
<1>8. IsFiniteSet(S) /\ Cardinality(S) = IF <<t, 1>> \in Refs(g) THEN Cardinality(Refs(g)) - 1
                                                               ELSE Cardinality(Refs(g))
  BY RefsAreFinite, FS_RemoveElement
<1>9. Cardinality(R) = Cardinality(S)
  <2> HIDE DEF S, R
  <2> QED
    BY <1>7, <1>8, FS_Bijection
<1> QED
  BY <1>2, <1>8, <1>9

LEMMA CountsStep ==
  ASSUME TypeOK, PlaceIsRight, RefsAreCounted, TypeOK', [Next]_vars
  PROVE  RefsAreCounted'
<1>1. ASSUME NEW t \in Threads, NEW c \in Calls[t], Begin(t, c)
      PROVE  RefsAreCounted'
  BY <1>1, BeginIs, CountsStay DEF Does, TypeOK
<1>2. ASSUME NEW t \in Threads, Quiet(t)
      PROVE  RefsAreCounted'
  BY <1>2, QuietIs, CountsStay DEF Does, TypeOK
<1>3. ASSUME NEW t \in Threads, Ref(t)
      PROVE  RefsAreCounted'
  <2> DEFINE r == th[t]
             s == th'[t]
             n == Len(r.files) + 1
             f == fdt[r.list[n].fd]
  <2>1. Does(t, s) /\ s \in Scan /\ UNCHANGED fdt
    BY <1>3, RefIs
  <2>2. \/ /\ f \in Files
           /\ file' = [file EXCEPT ![f].count = @ + 1]
           /\ Len(s.files) = n /\ s.files[n] = f
           /\ \A i \in DOMAIN r.files : s.files[i] = r.files[i]
        \/ /\ UNCHANGED file
           /\ Len(s.files) = n /\ s.files[n] = None
           /\ \A i \in DOMAIN r.files : s.files[i] = r.files[i]
        \/ UNCHANGED file /\ s.files = r.files
    <3>1. Idle.files = <<>>
      BY DEF Idle
    <3> QED
      BY <1>3, <3>1, RefIs
  <2>3. \A u \in Threads \ {t} : th'[u] = th[u]
    BY <2>1 DEF Does, TypeOK
  <2>4. file \in [Files -> File]
    BY DEF TypeOK
  <2>5. \A g \in Files : Cardinality(Refs(g)) \in Nat /\ Cardinality({d \in Fds : fdt[d] = g}) \in Nat
    BY RefsAreFinite, FS_CardinalityType, FS_Subset, FiniteAssumption
  <2> HIDE DEF r, s, f, n
  <2>6. CASE /\ f \in Files
             /\ file' = [file EXCEPT ![f].count = @ + 1]
             /\ Len(s.files) = n /\ s.files[n] = f
             /\ \A i \in DOMAIN r.files : s.files[i] = r.files[i]
    <3>1. \A g \in Files : file'[g].count = IF f = g THEN file[g].count + 1 ELSE file[g].count
      BY <2>4, <2>6 DEF File
    <3>2. \A g \in Files : Cardinality(Refs(g)') = IF f = g THEN Cardinality(Refs(g)) + 1
                                                           ELSE Cardinality(Refs(g))
      BY <2>3, <2>6, RefsGrown DEF r, s, n
    <3> QED
      BY <2>1, <2>5, <3>1, <3>2 DEF RefsAreCounted
  <2>7. CASE /\ UNCHANGED file
             /\ Len(s.files) = n /\ s.files[n] = None
             /\ \A i \in DOMAIN r.files : s.files[i] = r.files[i]
    <3>1. \A g \in Files : Cardinality(Refs(g)') = Cardinality(Refs(g))
      BY <2>3, <2>7, RefsGrown DEF r, s, n
    <3> QED
      BY <2>1, <2>7, <3>1 DEF RefsAreCounted
  <2>8. CASE UNCHANGED file /\ s.files = r.files
    BY <2>1, <2>3, <2>8, CountsStay DEF r, s
  <2> QED
    BY <2>2, <2>6, <2>7, <2>8
<1>4. ASSUME NEW t \in Threads, Select(t)
      PROVE  RefsAreCounted'
  <2> DEFINE r == th[t]
             n == Len(r.files)
             f == r.files[n]
  <2>1. /\ f \in Files /\ Does(t, th'[t]) /\ th'[t].files = r.files
        /\ UNCHANGED fdt
        /\ \A g \in Files \ {f} : file'[g] = file[g]
        /\ file'[f].count = file[f].count
    BY <1>4, SelectIs
  <2>2. \A u \in Threads : th'[u].files = th[u].files
    BY <2>1 DEF Does, TypeOK
  <2>3. \A g \in Files : file'[g].count = file[g].count
    BY <2>1
  <2> QED
    BY <2>1, <2>2, <2>3, CountsStay
<1>5. ASSUME NEW t \in Threads, Undo(t)
      PROVE  RefsAreCounted'
  <2> DEFINE r == th[t]
             s == th'[t]
             f == r.files[1]
  <2>1. /\ 1 \in DOMAIN r.files /\ Does(t, s)
        /\ Len(s.files) = Len(r.files) - 1
        /\ \A i \in DOMAIN s.files : s.files[i] = r.files[i + 1]
        /\ UNCHANGED fdt
        /\ \A g \in Files \ {f} : file'[g] = file[g]
        /\ f # None => /\ f \in Files
                       /\ file'[f].count = file[f].count - 1
    BY <1>5, UndoIs
  <2>2. \A u \in Threads \ {t} : th'[u] = th[u]
    BY <2>1 DEF Does, TypeOK
  <2>3. \A g \in Files : Cardinality(Refs(g)') = IF f = g THEN Cardinality(Refs(g)) - 1
                                                         ELSE Cardinality(Refs(g))
    BY <2>1, <2>2, RefsDropped
  <2>4. \A g \in Files : Cardinality(Refs(g)) \in Nat /\ Cardinality({d \in Fds : fdt[d] = g}) \in Nat
    BY RefsAreFinite, FS_CardinalityType, FS_Subset, FiniteAssumption
  <2>5. \A g \in Files : file'[g].count = IF f = g THEN file[g].count - 1 ELSE file[g].count
    BY <2>1
  <2> HIDE DEF f
  <2> QED
    BY <2>1, <2>3, <2>4, <2>5 DEF RefsAreCounted
<1>6. ASSUME NEW f \in Files, PostEvent(f)
      PROVE  RefsAreCounted'
  BY <1>6, CountsStay DEF PostEvent
<1>7. ASSUME NEW f \in Files, ThreadWakeup(f)
      PROVE  RefsAreCounted'
  <2>1. \A u \in Threads : th'[u].files = th[u].files
    BY <1>7 DEF ThreadWakeup, TypeOK, Scan
  <2> QED
    BY <1>7, <2>1, CountsStay DEF ThreadWakeup
<1>8. ASSUME NEW f \in Files, Net(f) \/ Uses(f)
      PROVE  RefsAreCounted'
  <2>1. UNCHANGED <<fdt, th>> /\ \A g \in Files : file'[g].count = file[g].count
    BY <1>8, SocketIs
  <2> QED
    BY <2>1, CountsStay
<1>9. ASSUME NEW c \in Fds, Close(c)
      PROVE  RefsAreCounted'
  <2> DEFINE f == fdt[c]
             D(g) == {d \in Fds : fdt[d] = g}
  <2>1. /\ f \in Files /\ fdt' = [fdt EXCEPT ![c] = None]
        /\ file' = [file EXCEPT ![f].count = @ - 1] /\ UNCHANGED th
    BY <1>9 DEF Close, TypeOK
  <2>2. \A g \in Files : D(g)' = IF g = f THEN D(g) \ {c} ELSE D(g)
    BY <2>1 DEF TypeOK
  <2>3. \A g \in Files : IsFiniteSet(D(g)) /\ Cardinality(D(g)) \in Nat
    BY FS_CardinalityType, FS_Subset, FiniteAssumption
  <2>4. c \in D(f)
    OBVIOUS
  <2>5. \A g \in Files : file'[g].count = IF g = f THEN file[g].count - 1 ELSE file[g].count
    BY <2>1 DEF TypeOK, File
  <2>6. \A g \in Files : Refs(g)' = Refs(g) /\ Cardinality(Refs(g)) \in Nat
    BY <2>1, RefsAreFinite, FS_CardinalityType DEF Refs
  <2>7. \A g \in Files : Cardinality(D(g)') = IF g = f THEN Cardinality(D(g)) - 1 ELSE Cardinality(D(g))
    <3> HIDE DEF D, f
    <3> QED
      BY <2>2, <2>3, <2>4, FS_RemoveElement
  <2>8. \A g \in Files : file[g].count = Cardinality(D(g)) + Cardinality(Refs(g))
    BY DEF RefsAreCounted
  <2>9. \A g \in Files : file'[g].count = Cardinality(D(g)') + Cardinality(Refs(g)')
    <3> HIDE DEF D, f
    <3> QED
      BY <2>3, <2>5, <2>6, <2>7, <2>8
  <2> QED
    BY <2>9 DEF RefsAreCounted
<1>10. CASE UNCHANGED vars
  BY <1>10, CountsStay DEF vars
<1> QED
  BY <1>1, <1>2, <1>3, <1>4, <1>5, <1>6, <1>7, <1>8, <1>9, <1>10 DEF Next, Step, Quiet

LEMMA CountsInit == Init => TypeOK /\ PlaceIsRight /\ RefsAreCounted
<1> SUFFICES ASSUME Init PROVE TypeOK /\ PlaceIsRight /\ RefsAreCounted
  OBVIOUS
<1>1. TypeOK
  BY TypeInit
<1>2. PlaceIsRight
  BY DEF Init, PlaceIsRight, InPlace, Idle
<1>3. \A f \in Files : Refs(f) = {}
  BY DEF Init, Refs, Idle
<1>4. \A f \in Files : Cardinality({d \in Fds : fdt[d] = f}) \in Nat
  BY FS_CardinalityType, FS_Subset, FiniteAssumption
<1>5. \A f \in Files : Cardinality(Refs(f)) = 0
  BY <1>3, FS_EmptySet
<1>6. \A f \in Files : file[f].count = Cardinality({d \in Fds : fdt[d] = f})
  BY DEF Init
<1>7. RefsAreCounted
  <2> SUFFICES ASSUME NEW f \in Files
               PROVE  file[f].count = Cardinality({d \in Fds : fdt[d] = f}) + Cardinality(Refs(f))
    BY DEF RefsAreCounted
  <2> DEFINE n == Cardinality({d \in Fds : fdt[d] = f})
  <2>1. n \in Nat /\ file[f].count = n /\ Cardinality(Refs(f)) = 0
    BY <1>4, <1>5, <1>6
  <2> HIDE DEF n
  <2>2. file[f].count = n + Cardinality(Refs(f))
    BY <2>1
  <2> QED
    BY <2>2 DEF n
<1> QED
  BY <1>1, <1>2, <1>7

\* Every file is counted once for each descriptor and each place in an array of
\* a scan: no scan looks at a file that is gone, and none stays open for ever.
THEOREM Counting == Spec => []CountsAreRight
<1> DEFINE Inv == TypeOK /\ PlaceIsRight /\ RefsAreCounted
<1>1. Init => Inv
  BY CountsInit
<1>2. Inv /\ [Next]_vars => Inv'
  BY TypeStep, CountsStep
<1>3. Inv => CountsAreRight
  BY DEF CountsAreRight
<1> QED
  BY <1>1, <1>2, <1>3, PTL DEF Spec

------------------------------------------------------------------------------
\* Whose entries lie in the queues.
QueueIsOwned ==
  \A f \in Files, t \in Threads : t \in file[f].q =>
     \E i \in DOMAIN th[t].files : th[t].files[i] = f

\* What select_wakeup() goes through is still on the queue, which is locked; the
\* event of the thread it is about to wake is set.
PostedAreQueued ==
  \A f \in Files :
    /\ post[f].left \subseteq file[f].q
    /\ post[f].now # None => post[f].now \in post[f].left /\ event[post[f].now]

\* What the steps of a thread do to the rest: what a socket has to offer stays, and
\* only the thread's own entries go away.
Gentle(t) ==
  /\ UNCHANGED post
  /\ \A u \in Threads \ {t} : th'[u] = th[u] /\ event'[u] = event[u]
  /\ \A d \in Fds : fdt'[d] \in {fdt[d], None}
  /\ \A f \in Files : /\ SameSocket(file[f], file'[f])
                      /\ file[f].sel => file'[f].sel
                      /\ file[f].q \ {t} \subseteq file'[f].q

LEMMA CountOnly ==
  ASSUME TypeOK, NEW f \in Files, NEW n, file' = [file EXCEPT ![f].count = n]
  PROVE  \A g \in Files : /\ SameSocket(file[g], file'[g])
                          /\ file'[g].sel = file[g].sel /\ file'[g].q = file[g].q
<1>1. \A g \in Files : file[g] \in File
  BY DEF TypeOK
<1>2. file'[f] = [file[f] EXCEPT !.count = n] /\ \A g \in Files \ {f} : file'[g] = file[g]
  BY DEF TypeOK
<1>3. /\ SameSocket(file[f], file'[f])
      /\ file'[f].sel = file[f].sel /\ file'[f].q = file[f].q
  BY <1>1, <1>2 DEF File, SameSocket
<1> QED
  BY <1>2, <1>3 DEF SameSocket

LEMMA RefKeepsSockets ==
  ASSUME TypeOK, PlaceIsRight, NEW t \in Threads, Ref(t)
  PROVE  \A g \in Files : /\ SameSocket(file[g], file'[g])
                          /\ file'[g].sel = file[g].sel /\ file'[g].q = file[g].q
<1> DEFINE f == fdt[th[t].list[Len(th[t].files) + 1].fd]
<1>1. UNCHANGED file \/ (f \in Files /\ file' = [file EXCEPT ![f].count = @ + 1])
  BY RefIs
<1> HIDE DEF f
<1>2. CASE UNCHANGED file
  BY <1>2 DEF SameSocket
<1>3. CASE f \in Files /\ file' = [file EXCEPT ![f].count = file[f].count + 1]
  BY <1>3, CountOnly
<1> QED
  BY <1>1, <1>2, <1>3

LEMMA ThreadIsGentle ==
  ASSUME TypeOK, PlaceIsRight, RefsAreCounted, NEW t \in Threads,
         (\E c \in Calls[t] : Begin(t, c)) \/ Quiet(t) \/ Step(t)
  PROVE  Gentle(t)
<1>1. \A u \in Threads \ {t} : \A r : Does(t, r) => th'[u] = th[u]
  BY DEF Does, TypeOK
<1>2. \A f \in Files : SameSocket(file[f], file[f])
  BY DEF SameSocket
<1>3. ASSUME NEW c \in Calls[t], Begin(t, c) PROVE Gentle(t)
  BY <1>1, <1>2, <1>3, BeginIs DEF Gentle
<1>4. ASSUME Quiet(t) PROVE Gentle(t)
  <2>1. \A u \in Threads \ {t} : event'[u] = event[u]
    BY <1>4, QuietIs DEF TypeOK
  <2>2. Does(t, th'[t]) /\ UNCHANGED <<fdt, file, post>>
    BY <1>4, QuietIs
  <2> QED
    BY <1>1, <1>2, <2>1, <2>2 DEF Gentle
<1>5. ASSUME Ref(t) PROVE Gentle(t)
  <2>1. Does(t, th'[t]) /\ UNCHANGED <<fdt, event, post>>
    BY <1>5, RefIs
  <2> QED
    BY <1>1, <1>5, <2>1, RefKeepsSockets DEF Gentle
<1>6. ASSUME Select(t) PROVE Gentle(t)
  <2> DEFINE f == th[t].files[Len(th[t].files)]
  <2>1. /\ Does(t, th'[t]) /\ UNCHANGED <<fdt, event, post>>
        /\ \A g \in Files \ {f} : file'[g] = file[g]
        /\ SameSocket(file[f], file'[f]) /\ (file[f].sel => file'[f].sel)
        /\ file[f].q \subseteq file'[f].q
    BY <1>6, SelectIs
  <2> HIDE DEF f
  <2> QED
    BY <1>1, <1>2, <2>1 DEF Gentle
<1>7. ASSUME Undo(t) PROVE Gentle(t)
  <2> DEFINE f == th[t].files[1]
  <2>1. /\ Does(t, th'[t]) /\ UNCHANGED <<fdt, event, post>>
        /\ \A g \in Files \ {f} : file'[g] = file[g]
        /\ f # None => /\ SameSocket(file[f], file'[f]) /\ file'[f].sel = file[f].sel
                       /\ file'[f].q = file[f].q \ {t}
    BY <1>7, UndoIs
  <2> HIDE DEF f
  <2> QED
    BY <1>1, <1>2, <2>1 DEF Gentle
<1> QED
  BY <1>3, <1>4, <1>5, <1>6, <1>7 DEF Step, Quiet

LEMMA QueueStep ==
  ASSUME TypeOK, PlaceIsRight, RefsAreCounted, QueueIsOwned, TypeOK', [Next]_vars
  PROVE  QueueIsOwned'
<1> SUFFICES ASSUME NEW g \in Files, NEW u \in Threads, u \in file'[g].q
             PROVE  \E i \in DOMAIN th'[u].files : th'[u].files[i] = g
  BY DEF QueueIsOwned
<1>1. ASSUME u \in file[g].q, th'[u].files = th[u].files
      PROVE  \E i \in DOMAIN th'[u].files : th'[u].files[i] = g
  BY <1>1 DEF QueueIsOwned
<1>2. ASSUME NEW t \in Threads, NEW c \in Calls[t], Begin(t, c)
      PROVE  \E i \in DOMAIN th'[u].files : th'[u].files[i] = g
  BY <1>1, <1>2, BeginIs DEF Does, TypeOK
<1>3. ASSUME NEW t \in Threads, Quiet(t)
      PROVE  \E i \in DOMAIN th'[u].files : th'[u].files[i] = g
  BY <1>1, <1>3, QuietIs DEF Does, TypeOK
<1>4. ASSUME NEW t \in Threads, Ref(t)
      PROVE  \E i \in DOMAIN th'[u].files : th'[u].files[i] = g
  <2> DEFINE r == th[t]
             s == th'[t]
             n == Len(r.files) + 1
  <2>2. u \in file[g].q
    BY <1>4, RefKeepsSockets
  <2>3. u # t => th'[u] = th[u]
    <3>1. Does(t, s)
      BY <1>4, RefIs
    <3> HIDE DEF s
    <3> QED
      BY <3>1 DEF Does, TypeOK
  <2>4. \/ /\ Len(s.files) = n /\ \A i \in DOMAIN r.files : s.files[i] = r.files[i]
        \/ s = Idle /\ r.files = <<>>
        \/ s.files = r.files
    BY <1>4, RefIs
  <2>5. CASE u # t \/ s.files = r.files
    BY <1>1, <2>2, <2>3, <2>5
  <2>6. CASE u = t /\ s = Idle /\ r.files = <<>>
    BY <2>2, <2>6 DEF QueueIsOwned
  <2>7. CASE u = t /\ Len(s.files) = n /\ \A i \in DOMAIN r.files : s.files[i] = r.files[i]
    <3>1. PICK i \in DOMAIN r.files : r.files[i] = g
      BY <2>2, <2>7 DEF QueueIsOwned
    <3>2. r.files \in Seq(Files \union {None}) /\ s.files \in Seq(Files \union {None})
      BY DEF TypeOK, Scan
    <3>3. i \in DOMAIN s.files
      BY <2>7, <3>1, <3>2
    <3> QED
      BY <2>7, <3>1, <3>3
  <2> QED
    BY <2>4, <2>5, <2>6, <2>7
<1>5. ASSUME NEW t \in Threads, Select(t)
      PROVE  \E i \in DOMAIN th'[u].files : th'[u].files[i] = g
  <2> DEFINE r == th[t]
             n == Len(r.files)
             f == r.files[n]
  <2>1. /\ Does(t, th'[t]) /\ th'[t].files = r.files /\ f \in Files
        /\ \A h \in Files \ {f} : file'[h] = file[h]
        /\ file'[f].q \subseteq file[f].q \union {t}
    BY <1>5, SelectIs
  <2>2. th'[u].files = th[u].files
    BY <2>1 DEF Does, TypeOK
  <2>3. n \in DOMAIN r.files
    <3>1. r.files \in Seq(Files \union {None}) /\ r.at = "select"
      BY <1>5, SelectIs DEF TypeOK, Scan
    <3>2. r.files # <<>>
      BY <3>1 DEF PlaceIsRight, InPlace
    <3> QED
      BY <3>1, <3>2
  <2>4. CASE u \in file[g].q
    BY <1>1, <2>2, <2>4
  <2>5. CASE u = t /\ g = f
    BY <2>2, <2>3, <2>5
  <2> HIDE DEF f
  <2> QED
    BY <2>1, <2>4, <2>5
<1>6. ASSUME NEW t \in Threads, Undo(t)
      PROVE  \E i \in DOMAIN th'[u].files : th'[u].files[i] = g
  <2> DEFINE r == th[t]
             s == th'[t]
             f == r.files[1]
  <2>1. /\ Does(t, s) /\ 1 \in DOMAIN r.files
        /\ Len(s.files) = Len(r.files) - 1
        /\ \A i \in DOMAIN s.files : s.files[i] = r.files[i + 1]
        /\ \A h \in Files \ {f} : file'[h] = file[h]
        /\ f # None => file'[f].q = file[f].q \ {t}
    BY <1>6, UndoIs
  <2>2. u \in file[g].q /\ ~(u = t /\ g = f)
    BY <2>1
  <2>3. CASE u # t
    BY <1>1, <2>1, <2>2, <2>3 DEF Does, TypeOK
  <2>4. CASE u = t
    <3>1. PICK i \in DOMAIN r.files : r.files[i] = g
      BY <2>2, <2>4 DEF QueueIsOwned
    <3>2. r.files \in Seq(Files \union {None}) /\ s.files \in Seq(Files \union {None})
      BY DEF TypeOK, Scan
    <3>3. i # 1
      BY <2>2, <2>4, <3>1
    <3>4. /\ DOMAIN r.files = 1 .. Len(r.files) /\ DOMAIN s.files = 1 .. Len(s.files)
          /\ Len(r.files) \in Nat
      BY <3>2
    <3>5. i - 1 \in DOMAIN s.files /\ (i - 1) + 1 = i
      BY <2>1, <3>1, <3>3, <3>4
    <3>6. s.files[i - 1] = g
      BY <2>1, <3>1, <3>5
    <3> QED
      BY <2>4, <3>5, <3>6
  <2> QED
    BY <2>3, <2>4
<1>7. ASSUME NEW f \in Files, PostEvent(f)
      PROVE  \E i \in DOMAIN th'[u].files : th'[u].files[i] = g
  BY <1>1, <1>7 DEF PostEvent
<1>8. ASSUME NEW f \in Files, ThreadWakeup(f)
      PROVE  \E i \in DOMAIN th'[u].files : th'[u].files[i] = g
  <2>1. th'[u].files = th[u].files
    BY <1>8 DEF ThreadWakeup, TypeOK, Scan
  <2> QED
    BY <1>1, <1>8, <2>1 DEF ThreadWakeup
<1>9. ASSUME NEW f \in Files, Net(f) \/ Uses(f)
      PROVE  \E i \in DOMAIN th'[u].files : th'[u].files[i] = g
  BY <1>1, <1>9, SocketIs
<1>10. ASSUME NEW c \in Fds, Close(c)
      PROVE  \E i \in DOMAIN th'[u].files : th'[u].files[i] = g
  <2>1. fdt[c] \in Files /\ file' = [file EXCEPT ![fdt[c]].count = @ - 1] /\ UNCHANGED th
    BY <1>10 DEF Close, TypeOK
  <2>2. file'[g].q = file[g].q
    BY <2>1 DEF TypeOK, File
  <2> QED
    BY <1>1, <2>1, <2>2
<1>11. CASE UNCHANGED vars
  BY <1>1, <1>11 DEF vars
<1> QED
  BY <1>2, <1>3, <1>4, <1>5, <1>6, <1>7, <1>8, <1>9, <1>10, <1>11 DEF Next, Step, Quiet

LEMMA PostedStep ==
  ASSUME TypeOK, PlaceIsRight, RefsAreCounted, QueueIsOwned, PostedAreQueued, [Next]_vars
  PROVE  PostedAreQueued'
<1> USE NoneAssumption
<1>1. ASSUME NEW t \in Threads,
             (\E c \in Calls[t] : Begin(t, c)) \/ Quiet(t) \/ Step(t)
      PROVE  PostedAreQueued'
  <2>1. Gentle(t)
    BY <1>1, ThreadIsGentle
  <2>2. \A f \in Files : t \in post[f].left => t \in file'[f].q
    <3>1. CASE Undo(t)
      <4>1. \A f \in Files \ {th[t].files[1]} : file'[f] = file[f]
        BY <3>1, UndoIs
      <4>2. th[t].files[1] # None => Unlocked(th[t].files[1])
        BY <3>1, UndoIs
      <4> QED
        BY <4>1, <4>2 DEF PostedAreQueued, Unlocked, Nobody
    <3>2. CASE Select(t)
      <4> DEFINE f == th[t].files[Len(th[t].files)]
      <4>1. /\ \A g \in Files \ {f} : file'[g] = file[g]
            /\ file[f].q \subseteq file'[f].q
        BY <3>2, SelectIs
      <4> HIDE DEF f
      <4> QED
        BY <4>1 DEF PostedAreQueued
    <3>3. CASE Ref(t)
      <4>1. \A g \in Files : file'[g].q = file[g].q
        BY <3>3, RefKeepsSockets
      <4> QED
        BY <4>1 DEF PostedAreQueued
    <3>4. CASE (\E c \in Calls[t] : Begin(t, c)) \/ Quiet(t)
      <4>1. UNCHANGED file
        BY <3>4, BeginIs, QuietIs
      <4> QED
        BY <4>1 DEF PostedAreQueued
    <3> QED
      BY <1>1, <3>1, <3>2, <3>3, <3>4 DEF Step, Quiet
  <2>3. \A f \in Files : post[f].now = t => event'[t]
    <3>1. CASE Clear(t)
      <4>1. th[t].files = <<>>
        BY <3>1 DEF Clear, At, PlaceIsRight, InPlace
      <4>2. \A f \in Files : t \notin file[f].q
        BY <4>1 DEF QueueIsOwned
      <4> QED
        BY <4>2 DEF PostedAreQueued
    <3>2. CASE ~Clear(t)
      <4>1. UNCHANGED event
        BY <1>1, <3>2 DEF Begin, Quiet, Step, Check, Wait, Interrupted, Timeout,
                          TimePasses, Ref, Select, Undo
      <4> QED
        BY <4>1 DEF PostedAreQueued
    <3> QED
      BY <3>1, <3>2
  <2>4. \A f \in Files : post'[f] = post[f] /\ post[f].left \subseteq Threads
    BY <2>1 DEF Gentle, TypeOK
  <2>5. \A f \in Files : post[f].left \subseteq file'[f].q
    BY <2>1, <2>2, <2>4 DEF Gentle, PostedAreQueued
  <2>6. \A f \in Files : post[f].now # None => post[f].now \in post[f].left /\ event'[post[f].now]
    BY <2>1, <2>3, <2>4 DEF Gentle, PostedAreQueued
  <2> QED
    BY <2>4, <2>5, <2>6 DEF PostedAreQueued
<1>2. ASSUME NEW f \in Files, PostEvent(f)
      PROVE  PostedAreQueued'
  <2>1. PICK t \in post[f].left : /\ event' = [event EXCEPT ![t] = TRUE]
                                  /\ post' = [post EXCEPT ![f].now = t]
                                  /\ UNCHANGED file
    BY <1>2 DEF PostEvent
  <2>2. t \in Threads
    BY DEF TypeOK
  <2>3. \A g \in Files : post'[g].left = post[g].left /\ post'[g].now = IF g = f THEN t ELSE post[g].now
    BY <2>1 DEF TypeOK
  <2>4. \A u \in Threads : event[u] => event'[u]
    BY <2>1 DEF TypeOK
  <2>5. event'[t]
    BY <2>1, <2>2 DEF TypeOK
  <2>6. \A g \in Files : post[g].left \subseteq Threads
    BY DEF TypeOK
  <2> QED
    BY <2>1, <2>3, <2>4, <2>5, <2>6 DEF PostedAreQueued
<1>3. ASSUME NEW f \in Files, ThreadWakeup(f)
      PROVE  PostedAreQueued'
  <2>1. \A g \in Files \ {f} : post'[g] = post[g]
    BY <1>3 DEF ThreadWakeup, TypeOK
  <2>2. post'[f].left \subseteq post[f].left /\ post'[f].now = None
    BY <1>3 DEF ThreadWakeup, TypeOK
  <2>3. UNCHANGED <<file, event>>
    BY <1>3 DEF ThreadWakeup
  <2> QED
    BY <2>1, <2>2, <2>3 DEF PostedAreQueued
<1>4. ASSUME NEW f \in Files, Net(f) \/ Uses(f)
      PROVE  PostedAreQueued'
  <2>1. /\ UNCHANGED event /\ Unlocked(f)
        /\ \A g \in Files : file'[g].q = file[g].q
        /\ post' = [post EXCEPT ![f].left = file[f].q] \/ UNCHANGED post
    BY <1>4, SocketIs
  <2>2. \A g \in Files \ {f} : post'[g] = post[g]
    BY <2>1 DEF TypeOK
  <2>3. post'[f].left \subseteq file[f].q /\ post'[f].now = None
    BY <2>1 DEF TypeOK, Unlocked, Nobody
  <2> QED
    BY <2>1, <2>2, <2>3 DEF PostedAreQueued
<1>5. ASSUME NEW c \in Fds, Close(c)
      PROVE  PostedAreQueued'
  <2>1. fdt[c] \in Files /\ file' = [file EXCEPT ![fdt[c]].count = @ - 1] /\ UNCHANGED <<event, post>>
    BY <1>5 DEF Close, TypeOK
  <2>2. \A g \in Files : file'[g].q = file[g].q
    BY <2>1 DEF TypeOK, File
  <2> QED
    BY <2>1, <2>2 DEF PostedAreQueued
<1>6. CASE UNCHANGED vars
  BY <1>6 DEF vars, PostedAreQueued
<1> QED
  BY <1>1, <1>2, <1>3, <1>4, <1>5, <1>6 DEF Next, Step, Quiet

\* Nothing that a call has put on a queue outlives it: the entry is of a file that
\* the scan holds a reference of.
THEOREM Ownership == Spec => []EntriesAreOwned
<1> DEFINE Inv == TypeOK /\ PlaceIsRight /\ RefsAreCounted /\ QueueIsOwned
<1>1. Init => Inv
  BY CountsInit DEF Init, QueueIsOwned
<1>2. Inv /\ [Next]_vars => Inv'
  BY TypeStep, CountsStep, QueueStep
<1>3. Inv => EntriesAreOwned
  BY CountIsPositive DEF EntriesAreOwned, QueueIsOwned
<1> QED
  BY <1>1, <1>2, <1>3, PTL DEF Spec

------------------------------------------------------------------------------
\* The argument that no wakeup is lost.

Woken(t) == event[t] \/ \E f \in Files : t \in post[f].left

\* A thread whose event has been posted is woken at once, or does not sleep yet.
SleeperIsPosted ==
  \A t \in Threads : th[t].at = "asleep" /\ event[t] => \E f \in Files : post[f].now = t

\* The places a scan is done with.
Scanned(t) == IF th[t].at = "select" THEN 1 .. Len(th[t].files) - 1
              ELSE IF th[t].at \in {"ref", "check", "wait", "asleep"} THEN DOMAIN th[t].files
              ELSE {}

\* Whatever makes the item ready, t is told of it (or it is the case that
\* IsHalfClosed describes).
WillHear(t, item, f) ==
  \/ /\ Returned(file[f], item.events) = {} /\ t \in file[f].q
     /\ "out" \in item.events => file[f].sel
  \/ th[t].kind = "select" /\ item.events = {"out"} /\ file[f].eof

ItemHolds(t, i) ==
  LET f == th[t].files[i]
      item == th[t].list[i]
  IN  /\ fdt[item.fd] \in {f, None}
      /\ th[t].ready \/ Woken(t) \/ (f # None /\ WillHear(t, item, f))

ScanHolds == \A t \in Threads : \A i \in Scanned(t) : ItemHolds(t, i)

\* The file that is looked at is still that of its descriptor, or that is closed.
FileIsRight ==
  \A t \in Threads : th[t].at = "select" =>
     LET n == Len(th[t].files) IN fdt[th[t].list[n].fd] \in {th[t].files[n], None}

LEMMA ScannedIs ==
  ASSUME TypeOK, NEW t \in Threads, NEW i \in Scanned(t)
  PROVE  /\ i \in DOMAIN th[t].files /\ i \in 1 .. Len(th[t].list)
         /\ th[t].files[i] \in Files \union {None}
         /\ th[t].list[i].fd \in Fds
<1>1. th[t].files \in Seq(Files \union {None})
  BY DEF TypeOK, Scan
<1>2. DOMAIN th[t].files = 1 .. Len(th[t].files) /\ Len(th[t].files) \in Nat
  BY <1>1
<1>3. i \in DOMAIN th[t].files
  BY <1>2 DEF Scanned
<1>4. i \in 1 .. Len(th[t].list)
  BY <1>2, <1>3 DEF TypeOK, Scan
<1> QED
  BY <1>1, <1>3, <1>4, ItemType

LEMMA SameAnswer ==
  ASSUME NEW a, NEW b, NEW events, SameSocket(a, b)
  PROVE  Returned(b, events) = Returned(a, events)
BY DEF Returned, SameSocket

\* What a scan knows stays so as long as sockets change gently.
LEMMA ItemStays ==
  ASSUME TypeOK, NEW t \in Threads, NEW i \in Scanned(t), ItemHolds(t, i),
         th'[t].files[i] = th[t].files[i], th'[t].list = th[t].list,
         th'[t].kind = th[t].kind, th[t].ready => th'[t].ready,
         Woken(t) => Woken(t)',
         \A d \in Fds : fdt'[d] \in {fdt[d], None},
         \A f \in Files : /\ SameSocket(file[f], file'[f])
                          /\ file[f].sel => file'[f].sel
                          /\ t \in file[f].q => t \in file'[f].q
  PROVE  ItemHolds(t, i)'
<1> DEFINE f == th[t].files[i]
           item == th[t].list[i]
<1>1. f \in Files \union {None} /\ item.fd \in Fds
  BY ScannedIs
<1>2. fdt'[item.fd] \in {f, None}
  BY <1>1 DEF ItemHolds
<1> DEFINE Hears(fl, k) == \/ /\ Returned(fl[f], item.events) = {} /\ t \in fl[f].q
                              /\ "out" \in item.events => fl[f].sel
                           \/ k = "select" /\ item.events = {"out"} /\ fl[f].eof
<1>3. ASSUME f # None, WillHear(t, item, f)
      PROVE  Hears(file', th[t].kind)
  <2>1. SameSocket(file[f], file'[f])
    BY <1>1, <1>3
  <2>2. Returned(file'[f], item.events) = Returned(file[f], item.events) /\ file'[f].eof = file[f].eof
    BY <2>1, SameAnswer DEF SameSocket
  <2>3. Hears(file, th[t].kind)
    BY <1>3 DEF WillHear
  <2> HIDE DEF f, item
  <2> QED
    BY <1>1, <1>3, <2>2, <2>3
<1>4. th[t].ready \/ Woken(t) \/ (f # None /\ WillHear(t, item, f))
  BY DEF ItemHolds
<1>5. th'[t].ready \/ Woken(t)' \/ (f # None /\ Hears(file', th'[t].kind))
  BY <1>3, <1>4
<1>6. th'[t].files[i] = f /\ th'[t].list[i] = item
  OBVIOUS
<1> QED
  BY <1>2, <1>5, <1>6 DEF ItemHolds, WillHear

\* A thread that runs changes nothing for the scans of the others.
LEMMA OthersHold ==
  ASSUME TypeOK, NEW t \in Threads, Gentle(t), ScanHolds,
         NEW u \in Threads \ {t}, NEW i \in Scanned(u)'
  PROVE  ItemHolds(u, i)'
<1>1. th'[u] = th[u] /\ event'[u] = event[u] /\ UNCHANGED post
  BY DEF Gentle
<1>2. Scanned(u)' = Scanned(u)
  BY <1>1 DEF Scanned
<1>3. Woken(u)' = Woken(u)
  BY <1>1 DEF Woken
<1>4. ItemHolds(u, i)
  BY <1>2 DEF ScanHolds
<1> QED
  BY <1>1, <1>2, <1>3, <1>4, ItemStays DEF Gentle

\* What soo_select() has found: it has counted something, or put the thread on the
\* queue, or found the end of file that select() for writing does not ask for.
LEMMA Counted ==
  ASSUME NEW s \in File, NEW kind \in {"select", "poll"},
         NEW events \in (SUBSET {"in", "out"}) \ {{}},
         Returned(s, events) # {}, ~Counts(kind, Returned(s, events), events)
  PROVE  kind = "select" /\ events = {"out"} /\ s.eof
<1>1. kind = "select" /\ "err" \notin Returned(s, events)
      /\ ~("in" \in events /\ "hup" \in Returned(s, events))
      /\ Returned(s, events) \intersect events = {}
  BY DEF Counts
<1>2. ~s.error
  BY <1>1 DEF Returned
<1>3. s.eof
  BY <1>1, <1>2 DEF Returned
<1>4. "hup" \in Returned(s, events)
  BY <1>2, <1>3 DEF Returned
<1> QED
  BY <1>1, <1>3, <1>4

LEMMA NothingCounts ==
  ASSUME NEW kind, NEW events
  PROVE  ~Counts(kind, {}, events)
BY DEF Counts

LEMMA SleeperStep ==
  ASSUME TypeOK, PlaceIsRight, RefsAreCounted, PostedAreQueued, SleeperIsPosted, [Next]_vars
  PROVE  SleeperIsPosted'
<1> USE NoneAssumption
<1>1. ASSUME NEW t \in Threads,
             (\E c \in Calls[t] : Begin(t, c)) \/ Quiet(t) \/ Step(t)
      PROVE  SleeperIsPosted'
  <2>1. Gentle(t)
    BY <1>1, ThreadIsGentle
  <2>2. th'[t].at = "asleep" => ~event'[t] \/ (th[t].at = "asleep" /\ event'[t] = event[t])
    <3>1. CASE Quiet(t)
      BY <3>1, QuietIs
    <3>2. CASE Ref(t)
      <4>1. Idle.at # "asleep"
        BY DEF Idle
      <4>2. th'[t].at \in {"select", "ref", "check", "undo"} \/ th'[t] = Idle
        BY <3>2, RefIs
      <4> QED
        BY <4>1, <4>2
    <3>3. CASE Select(t)
      BY <3>3, SelectIs
    <3>4. CASE Undo(t)
      <4>1. \/ th'[t].at \in {"again", "undo"}
            \/ th'[t].at = "clear"
            \/ th'[t] = Idle
        BY <3>4, UndoIs
      <4> QED
        BY <4>1 DEF Idle
    <3>5. CASE \E c \in Calls[t] : Begin(t, c)
      BY <3>5, BeginIs
    <3> QED
      BY <1>1, <3>1, <3>2, <3>3, <3>4, <3>5 DEF Step, Quiet
  <2> QED
    BY <2>1, <2>2 DEF Gentle, SleeperIsPosted
<1>2. ASSUME NEW f \in Files, PostEvent(f)
      PROVE  SleeperIsPosted'
  <2>1. PICK t \in post[f].left : /\ post[f].now = None
                                  /\ event' = [event EXCEPT ![t] = TRUE]
                                  /\ post' = [post EXCEPT ![f].now = t]
                                  /\ UNCHANGED th
    BY <1>2 DEF PostEvent
  <2>2. t \in Threads
    BY DEF TypeOK
  <2>3. \A g \in Files : post'[g].now = IF g = f THEN t ELSE post[g].now
    BY <2>1 DEF TypeOK
  <2>4. \A u \in Threads : event'[u] => event[u] \/ u = t
    BY <2>1 DEF TypeOK
  <2>5. \A u \in Threads : u # None
    OBVIOUS
  <2> QED
    BY <2>1, <2>2, <2>3, <2>4, <2>5 DEF SleeperIsPosted
<1>3. ASSUME NEW f \in Files, ThreadWakeup(f)
      PROVE  SleeperIsPosted'
  <2> DEFINE t == post[f].now
  <2>1. t \in Threads /\ UNCHANGED event
    BY <1>3 DEF ThreadWakeup, TypeOK
  <2>2. \A g \in Files \ {f} : post'[g] = post[g]
    BY <1>3 DEF ThreadWakeup, TypeOK
  <2>3. th'[t].at # "asleep" /\ \A u \in Threads \ {t} : th'[u] = th[u]
    <3>1. th' = IF At(t, "asleep") THEN [th EXCEPT ![t].at = "wait"] ELSE th
      BY <1>3 DEF ThreadWakeup
    <3> HIDE DEF t
    <3> QED
      BY <2>1, <3>1 DEF At, TypeOK, Scan
  <2> QED
    BY <2>1, <2>2, <2>3 DEF SleeperIsPosted
<1>4. ASSUME NEW f \in Files, Net(f) \/ Uses(f)
      PROVE  SleeperIsPosted'
  <2>1. /\ UNCHANGED <<event, th>>
        /\ post' = [post EXCEPT ![f].left = file[f].q] \/ UNCHANGED post
    BY <1>4, SocketIs
  <2>2. \A g \in Files : post'[g].now = post[g].now
    BY <2>1 DEF TypeOK
  <2> QED
    BY <2>1, <2>2 DEF SleeperIsPosted
<1>5. ASSUME NEW c \in Fds, Close(c)
      PROVE  SleeperIsPosted'
  BY <1>5 DEF Close, SleeperIsPosted
<1>6. CASE UNCHANGED vars
  BY <1>6 DEF vars, SleeperIsPosted
<1> QED
  BY <1>1, <1>2, <1>3, <1>4, <1>5, <1>6 DEF Next, Step, Quiet

LEMMA FileStep ==
  ASSUME TypeOK, PlaceIsRight, RefsAreCounted, FileIsRight, [Next]_vars
  PROVE  FileIsRight'
<1> DEFINE Right(t) == LET n == Len(th[t].files)
                       IN  fdt[th[t].list[n].fd] \in {th[t].files[n], None}
<1>1. ASSUME NEW t \in Threads, th'[t].files = th[t].files, th'[t].list = th[t].list,
             th'[t].at = "select" => th[t].at = "select",
             \A d \in Fds : fdt'[d] \in {fdt[d], None}
      PROVE  th'[t].at = "select" => Right(t)'
  <2> SUFFICES ASSUME th[t].at = "select" PROVE Right(t)'
    BY <1>1
  <2> DEFINE n == Len(th[t].files)
             d == th[t].list[n].fd
  <2>1. n \in 1 .. Len(th[t].list)
    <3>1. th[t].files \in Seq(Files \union {None}) /\ th[t].files # <<>>
      BY DEF TypeOK, Scan, PlaceIsRight, InPlace
    <3>2. n <= Len(th[t].list) /\ Len(th[t].list) \in Nat /\ n \in Nat /\ n > 0
      BY <3>1 DEF TypeOK, Scan
    <3> QED
      BY <3>2
  <2>2. d \in Fds
    BY <2>1, ItemType
  <2>3. fdt[d] \in {th[t].files[n], None}
    BY DEF FileIsRight
  <2>4. fdt'[d] \in {th[t].files[n], None}
    BY <1>1, <2>2, <2>3
  <2> QED
    BY <1>1, <2>4
<1>2. ASSUME NEW t \in Threads,
             (\E c \in Calls[t] : Begin(t, c)) \/ Quiet(t) \/ Step(t),
             th'[t].at = "select" => Right(t)'
      PROVE  FileIsRight'
  <2>1. Gentle(t)
    BY <1>2, ThreadIsGentle
  <2>2. \A u \in Threads \ {t} : th'[u].at = "select" => Right(u)'
    <3> HIDE DEF Right
    <3> QED
      BY <1>1, <2>1 DEF Gentle
  <2> QED
    BY <1>2, <2>2 DEF FileIsRight
<1>3. ASSUME NEW t \in Threads, Quiet(t)
      PROVE  FileIsRight'
  <2>1. /\ th'[t].files = th[t].files /\ th'[t].list = th[t].list
        /\ th'[t].at = "select" => th[t].at = "select"
        /\ UNCHANGED fdt
    BY <1>3, QuietIs
  <2>2. th'[t].at = "select" => Right(t)'
    <3> HIDE DEF Right
    <3> QED
      BY <1>1, <2>1
  <2> QED
    BY <1>2, <1>3, <2>2
<1>4. ASSUME NEW t \in Threads, Ref(t)
      PROVE  FileIsRight'
  <2> DEFINE r == th[t]
             s == th'[t]
             n == Len(r.files) + 1
             f == fdt[r.list[n].fd]
  <2>1. UNCHANGED fdt
    BY <1>4, RefIs
  <2>2. \/ SameCall(r, s) /\ Len(s.files) = n /\ s.files[n] = f
        \/ s.at \in {"ref", "check", "undo"}
        \/ s = Idle
    BY <1>4, RefIs
  <2>3. s.at = "select" => Right(t)'
    <3>1. Idle.at # "select"
      BY DEF Idle
    <3>2. CASE SameCall(r, s) /\ Len(s.files) = n /\ s.files[n] = f
      <4>1. Len(s.files) = n /\ s.list = r.list /\ fdt' = fdt
        BY <2>1, <3>2 DEF SameCall
      <4>2. fdt'[s.list[Len(s.files)].fd] = s.files[Len(s.files)]
        BY <3>2, <4>1
      <4> QED
        BY <4>2
    <3> QED
      BY <2>2, <3>1, <3>2
  <2> HIDE DEF Right
  <2> QED
    BY <1>2, <1>4, <2>3 DEF Step
<1>5. ASSUME NEW t \in Threads,
             (\E c \in Calls[t] : Begin(t, c)) \/ Select(t) \/ Undo(t)
      PROVE  FileIsRight'
  <2>1. th'[t].at # "select"
    <3>1. CASE \E c \in Calls[t] : Begin(t, c)
      BY <3>1, BeginIs
    <3>2. CASE Select(t)
      BY <3>2, SelectIs
    <3>3. CASE Undo(t)
      <4>1. \/ th'[t].at \in {"again", "undo"}
            \/ th'[t].at = "clear"
            \/ th'[t] = Idle
        BY <3>3, UndoIs
      <4> QED
        BY <4>1 DEF Idle
    <3> QED
      BY <1>5, <3>1, <3>2, <3>3
  <2> QED
    BY <1>2, <1>5, <2>1 DEF Step
<1>6. ASSUME \A t \in Threads : /\ th'[t].files = th[t].files /\ th'[t].list = th[t].list
                                /\ th'[t].at = "select" => th[t].at = "select",
             \A d \in Fds : fdt'[d] \in {fdt[d], None}
      PROVE  FileIsRight'
  <2>1. \A t \in Threads : th'[t].at = "select" => Right(t)'
    <3> HIDE DEF Right
    <3> QED
      BY <1>1, <1>6
  <2> QED
    BY <2>1 DEF FileIsRight
<1> HIDE DEF Right
<1>7. ASSUME NEW f \in Files, PostEvent(f) \/ Net(f) \/ Uses(f)
      PROVE  FileIsRight'
  <2>1. UNCHANGED <<fdt, th>>
    BY <1>7, SocketIs DEF PostEvent
  <2> QED
    BY <1>6, <2>1
<1>8. ASSUME NEW f \in Files, ThreadWakeup(f)
      PROVE  FileIsRight'
  <2>1. UNCHANGED fdt
    BY <1>8 DEF ThreadWakeup
  <2>2. \A t \in Threads : /\ th'[t].files = th[t].files /\ th'[t].list = th[t].list
                           /\ th'[t].at = "select" => th[t].at = "select"
    BY <1>8 DEF ThreadWakeup, TypeOK, Scan
  <2> QED
    BY <1>6, <2>1, <2>2
<1>9. ASSUME NEW c \in Fds, Close(c)
      PROVE  FileIsRight'
  <2>1. UNCHANGED th /\ \A d \in Fds : fdt'[d] \in {fdt[d], None}
    BY <1>9 DEF Close, TypeOK
  <2> QED
    BY <1>6, <2>1
<1>10. CASE UNCHANGED vars
  BY <1>6, <1>10 DEF vars
<1> QED
  BY <1>3, <1>4, <1>5, <1>7, <1>8, <1>9, <1>10 DEF Next, Step, Quiet

LEMMA HoldsStep ==
  ASSUME TypeOK, PlaceIsRight, RefsAreCounted, QueueIsOwned, PostedAreQueued,
         FileIsRight, ScanHolds, [Next]_vars
  PROVE  ScanHolds'
<1> USE NoneAssumption
<1>1. ASSUME NEW t \in Threads,
             (\E c \in Calls[t] : Begin(t, c)) \/ Quiet(t) \/ Step(t),
             \A i \in Scanned(t)' : ItemHolds(t, i)'
      PROVE  ScanHolds'
  <2>1. Gentle(t)
    BY <1>1, ThreadIsGentle
  <2>2. \A u \in Threads \ {t} : \A i \in Scanned(u)' : ItemHolds(u, i)'
    BY <2>1, OthersHold
  <2> QED
    BY <1>1, <2>2 DEF ScanHolds
<1>2. ASSUME NEW t \in Threads, NEW i \in Scanned(t),
             Quiet(t) \/ Step(t), UNCHANGED event,
             th'[t].files[i] = th[t].files[i], th'[t].list = th[t].list,
             th'[t].kind = th[t].kind, th[t].ready => th'[t].ready,
             \A f \in Files : t \in file[f].q => t \in file'[f].q
      PROVE  ItemHolds(t, i)'
  <2>1. Gentle(t)
    BY <1>2, ThreadIsGentle
  <2>2. Woken(t)' = Woken(t)
    BY <1>2, <2>1 DEF Gentle, Woken
  <2>3. ItemHolds(t, i)
    BY DEF ScanHolds
  <2> QED
    BY <1>2, <2>1, <2>2, <2>3, ItemStays DEF Gentle
<1>3. ASSUME NEW t \in Threads, NEW c \in Calls[t], Begin(t, c)
      PROVE  ScanHolds'
  <2>1. Scanned(t)' = {}
    BY <1>3, BeginIs DEF Scanned
  <2> QED
    BY <1>1, <1>3, <2>1
<1>4. ASSUME NEW t \in Threads, Quiet(t)
      PROVE  ScanHolds'
  <2> DEFINE r == th[t]
             s == th'[t]
  <2>1. /\ s.files = r.files /\ s.list = r.list /\ s.kind = r.kind /\ s.ready = r.ready
        /\ UNCHANGED <<fdt, file, post>>
        /\ \/ /\ r.at = "clear" /\ s.at = "ref"
           \/ /\ UNCHANGED event
              /\ \/ r.at = "check" /\ s.at = "undo"
                 \/ r.at = "check" /\ s.at = "wait"
                 \/ r.at = "wait" /\ s.at = "again"
                 \/ r.at = "wait" /\ s.at = "asleep"
                 \/ r.at = "asleep" /\ s.at = "undo"
                 \/ s.at = r.at
    BY <1>4, QuietIs
  <2>2. CASE r.at = "clear" /\ s.at = "ref"
    <3>1. r.files = <<>>
      BY <2>2 DEF PlaceIsRight, InPlace
    <3>2. Scanned(t)' = {}
      BY <2>1, <2>2, <3>1 DEF Scanned
    <3> QED
      BY <1>1, <1>4, <3>2
  <2>3. CASE UNCHANGED event /\ ~(r.at = "clear" /\ s.at = "ref")
    <3>1. Scanned(t)' \subseteq Scanned(t)
      BY <2>1, <2>3 DEF Scanned
    <3>2. \A i \in Scanned(t)' : ItemHolds(t, i)'
      BY <1>2, <1>4, <2>1, <2>3, <3>1
    <3> QED
      BY <1>1, <1>4, <3>2
  <2> QED
    BY <2>1, <2>2, <2>3
<1>5. ASSUME NEW t \in Threads, Ref(t)
      PROVE  ScanHolds'
  <2> DEFINE r == th[t]
             s == th'[t]
             n == Len(r.files) + 1
             f == fdt[r.list[n].fd]
  <2>1. r.at = "ref" /\ UNCHANGED <<fdt, event, post>>
    BY <1>5, RefIs
  <2>2. /\ r.files \in Seq(Files \union {None}) /\ s.files \in Seq(Files \union {None})
        /\ DOMAIN r.files = 1 .. n - 1 /\ n \in Nat
    <3>1. s \in Scan /\ r \in Scan
      BY <1>5, RefIs DEF TypeOK
    <3>2. r.files \in Seq(Files \union {None}) /\ s.files \in Seq(Files \union {None})
      BY <3>1 DEF Scan
    <3> QED
      BY <3>2
  <2>3. Scanned(t) = 1 .. n - 1
    BY <2>1, <2>2 DEF Scanned
  <2>4. \/ /\ s.at = "select" /\ SameCall(r, s) /\ s.ready = r.ready
           /\ Len(s.files) = n
           /\ \A i \in DOMAIN r.files : s.files[i] = r.files[i]
        \/ /\ f = None /\ SameCall(r, s) /\ s.ready /\ s.at \in {"ref", "check"}
           /\ Len(s.files) = n /\ s.files[n] = None
           /\ \A i \in DOMAIN r.files : s.files[i] = r.files[i]
        \/ s = Idle
        \/ s.at = "undo"
    BY <1>5, RefIs
  <2>5. \A g \in Files : t \in file[g].q => t \in file'[g].q
    BY <1>5, RefKeepsSockets
  <2>6. ASSUME SameCall(r, s), r.ready => s.ready,
               \A i \in DOMAIN r.files : s.files[i] = r.files[i]
        PROVE  \A i \in 1 .. n - 1 : ItemHolds(t, i)'
    <3>1. s.list = r.list /\ s.kind = r.kind
      BY <2>6 DEF SameCall
    <3>2. \A i \in 1 .. n - 1 : s.files[i] = r.files[i] /\ i \in Scanned(t)
      BY <2>2, <2>3, <2>6
    <3> QED
      BY <1>2, <1>5, <2>1, <2>5, <2>6, <3>1, <3>2 DEF Step
  <2>7. CASE /\ s.at = "select" /\ SameCall(r, s) /\ s.ready = r.ready
             /\ Len(s.files) = n
             /\ \A i \in DOMAIN r.files : s.files[i] = r.files[i]
    <3>1. Scanned(t)' = 1 .. n - 1
      BY <2>7 DEF Scanned
    <3> QED
      BY <1>1, <1>5, <2>6, <2>7, <3>1 DEF Step
  <2>8. CASE /\ f = None /\ SameCall(r, s) /\ s.ready /\ s.at \in {"ref", "check"}
             /\ Len(s.files) = n /\ s.files[n] = None
             /\ \A i \in DOMAIN r.files : s.files[i] = r.files[i]
    <3>1. Scanned(t)' = 1 .. n
      <4>1. Scanned(t)' = DOMAIN s.files
        BY <2>8 DEF Scanned
      <4> QED
        BY <2>2, <2>8, <4>1
    <3>2. ASSUME NEW i, i = n PROVE ItemHolds(t, i)'
      <4>1. s.list = r.list
        BY <2>8 DEF SameCall
      <4>2. fdt'[s.list[i].fd] = None
        BY <2>1, <2>8, <3>2, <4>1
      <4> QED
        BY <2>8, <3>2, <4>2 DEF ItemHolds
    <3>3. \A i \in 1 .. n - 1 : ItemHolds(t, i)'
      BY <2>6, <2>8
    <3>4. \A i \in 1 .. n : i \in 1 .. n - 1 \/ i = n
      BY <2>2
    <3>5. \A i \in Scanned(t)' : ItemHolds(t, i)'
      BY <3>1, <3>2, <3>3, <3>4
    <3> QED
      BY <1>1, <1>5, <3>5 DEF Step
  <2>9. CASE s = Idle \/ s.at = "undo"
    <3>1. Idle.at = "idle"
      BY DEF Idle
    <3>2. s.at \in {"idle", "undo"}
      BY <2>9, <3>1
    <3>3. Scanned(t)' = {}
      BY <3>2 DEF Scanned
    <3> QED
      BY <1>1, <1>5, <3>3 DEF Step
  <2> QED
    BY <2>4, <2>7, <2>8, <2>9
<1>6. ASSUME NEW t \in Threads, Select(t)
      PROVE  ScanHolds'
  <2> DEFINE r == th[t]
             s == th'[t]
             n == Len(r.files)
             f == r.files[n]
             events == r.list[n].events
             revents == Returned(file[f], events)
  <2>1. /\ r.at = "select" /\ n \in 1 .. Len(r.list) /\ f \in Files
        /\ SameCall(r, s) /\ s.files = r.files
        /\ s.ready <=> r.ready \/ Counts(r.kind, revents, events)
        /\ s.at \in {"ref", "check"}
        /\ UNCHANGED <<fdt, event, post>>
        /\ \A g \in Files \ {f} : file'[g] = file[g]
        /\ SameSocket(file[f], file'[f])
        /\ file'[f].q = IF revents = {} THEN file[f].q \union {t} ELSE file[f].q
        /\ file'[f].sel = (file[f].sel \/ (revents = {} /\ "out" \in events))
    BY <1>6, SelectIs
  <2>2. s.list = r.list /\ s.kind = r.kind /\ r.kind \in {"select", "poll"}
    BY <2>1 DEF SameCall, TypeOK, Scan
  <2>3. DOMAIN r.files = 1 .. n /\ n \in Nat
    <3>1. r.files \in Seq(Files \union {None})
      BY DEF TypeOK, Scan
    <3> QED
      BY <3>1
  <2>4. Scanned(t) = 1 .. n - 1 /\ Scanned(t)' = 1 .. n
    BY <2>1, <2>3 DEF Scanned
  <2>5. \A i \in 1 .. n - 1 : ItemHolds(t, i)'
    <3>1. \A g \in Files : t \in file[g].q => t \in file'[g].q
      BY <2>1
    <3>2. r.ready => s.ready
      BY <2>1
    <3> QED
      BY <1>2, <1>6, <2>1, <2>2, <2>4, <3>1, <3>2 DEF Step
  <2>6. ASSUME NEW i, i = n PROVE ItemHolds(t, i)'
    <3>1. fdt'[s.list[i].fd] \in {s.files[i], None}
      BY <2>1, <2>2, <2>6 DEF FileIsRight
    <3>2. /\ file[f] \in File /\ events \in (SUBSET {"in", "out"}) \ {{}}
      BY <2>1, ItemType DEF TypeOK
    <3>3. Returned(file'[f], events) = revents /\ file'[f].eof = file[f].eof
      <4> HIDE DEF events, f
      <4> QED
        BY <2>1, SameAnswer DEF SameSocket
    <3> HIDE DEF revents, events, f
    <3>4. CASE revents = {}
      <4>1. Returned(file'[f], events) = {} /\ t \in file'[f].q /\ ("out" \in events => file'[f].sel)
        BY <2>1, <3>3, <3>4
      <4>2. f # None /\ s.files[i] = f /\ s.list[i].events = events
        BY <2>1, <2>2, <2>6 DEF f, events
      <4> QED
        BY <3>1, <4>1, <4>2 DEF ItemHolds, WillHear
    <3>5. CASE revents # {} /\ ~Counts(r.kind, revents, events)
      <4>1. r.kind = "select" /\ events = {"out"} /\ file[f].eof
        BY <2>2, <3>2, <3>5, Counted DEF revents
      <4>2. f # None /\ s.files[i] = f /\ s.list[i].events = events
        BY <2>1, <2>2, <2>6 DEF f, events
      <4> QED
        BY <2>2, <3>1, <3>3, <4>1, <4>2 DEF ItemHolds, WillHear
    <3>6. CASE Counts(r.kind, revents, events)
      <4>1. s.ready
        BY <2>1, <3>6
      <4> QED
        BY <3>1, <4>1 DEF ItemHolds
    <3> QED
      BY <3>4, <3>5, <3>6
  <2>7. \A i \in 1 .. n : i \in 1 .. n - 1 \/ i = n
    BY <2>3
  <2>8. \A i \in Scanned(t)' : ItemHolds(t, i)'
    BY <2>4, <2>5, <2>6, <2>7
  <2> QED
    BY <1>1, <1>6, <2>8 DEF Step
<1>7. ASSUME NEW t \in Threads, Undo(t)
      PROVE  ScanHolds'
  <2>1. \/ th'[t].at \in {"again", "undo"}
        \/ th'[t].at = "clear"
        \/ th'[t] = Idle
    BY <1>7, UndoIs
  <2>2. Idle.at = "idle"
    BY DEF Idle
  <2>3. th'[t].at \in {"again", "undo", "clear", "idle"}
    BY <2>1, <2>2
  <2>4. Scanned(t)' = {}
    BY <2>3 DEF Scanned
  <2> QED
    BY <1>1, <1>7, <2>4 DEF Step
<1>8. ASSUME NEW f \in Files, PostEvent(f)
      PROVE  ScanHolds'
  <2>1. PICK v \in post[f].left : /\ event' = [event EXCEPT ![v] = TRUE]
                                  /\ post' = [post EXCEPT ![f].now = v]
                                  /\ UNCHANGED <<fdt, file, th>>
    BY <1>8 DEF PostEvent
  <2>2. ASSUME NEW t \in Threads, Woken(t) PROVE Woken(t)'
    <3>1. event[t] => event'[t]
      BY <2>1 DEF TypeOK
    <3>2. \A g \in Files : post'[g].left = post[g].left
      BY <2>1 DEF TypeOK
    <3> QED
      BY <2>2, <3>1, <3>2 DEF Woken
  <2>3. \A t \in Threads : Scanned(t)' = Scanned(t)
    BY <2>1 DEF Scanned
  <2>4. \A g \in Files : SameSocket(file[g], file'[g])
    BY <2>1 DEF SameSocket
  <2>5. ASSUME NEW t \in Threads, NEW i \in Scanned(t)
        PROVE  ItemHolds(t, i)'
    <3>1. ItemHolds(t, i)
      BY DEF ScanHolds
    <3> QED
      BY <2>1, <2>2, <2>4, <3>1, ItemStays
  <2> QED
    BY <2>3, <2>5 DEF ScanHolds
<1>9. ASSUME NEW f \in Files, ThreadWakeup(f)
      PROVE  ScanHolds'
  <2> DEFINE v == post[f].now
  <2>1. /\ v \in Threads /\ UNCHANGED <<fdt, file, event>>
        /\ th' = IF At(v, "asleep") THEN [th EXCEPT ![v].at = "wait"] ELSE th
    BY <1>9 DEF ThreadWakeup, TypeOK
  <2>2. /\ \A g \in Files \ {f} : post'[g] = post[g]
        /\ post'[f].left = post[f].left \ {v}
    BY <1>9 DEF ThreadWakeup, TypeOK
  <2>3. event[v]
    BY <2>1 DEF PostedAreQueued
  <2>4. ASSUME NEW t \in Threads, Woken(t) PROVE Woken(t)'
    <3>1. CASE t = v
      BY <2>1, <2>3, <3>1 DEF Woken
    <3>2. CASE t # v
      <4> HIDE DEF v
      <4> QED
        BY <2>1, <2>2, <2>4, <3>2 DEF Woken
    <3> QED
      BY <3>1, <3>2
  <2> HIDE DEF v
  <2>5. ASSUME NEW t \in Threads
        PROVE  /\ th'[t].files = th[t].files /\ th'[t].list = th[t].list
               /\ th'[t].kind = th[t].kind /\ th'[t].ready = th[t].ready
               /\ \/ th'[t].at = th[t].at
                  \/ th[t].at = "asleep" /\ th'[t].at = "wait"
    BY <2>1 DEF TypeOK, Scan, At
  <2>6. \A t \in Threads : Scanned(t)' = Scanned(t)
    BY <2>5 DEF Scanned
  <2>7. \A g \in Files : SameSocket(file[g], file'[g])
    BY <2>1 DEF SameSocket
  <2>8. ASSUME NEW t \in Threads, NEW i \in Scanned(t)
        PROVE  ItemHolds(t, i)'
    <3>1. ItemHolds(t, i)
      BY DEF ScanHolds
    <3> QED
      BY <2>1, <2>4, <2>5, <2>7, <3>1, ItemStays
  <2> QED
    BY <2>6, <2>8 DEF ScanHolds
<1>10. ASSUME NEW f \in Files, Net(f) \/ Uses(f)
      PROVE  ScanHolds'
  <2>1. /\ UNCHANGED <<fdt, event, th>> /\ Unlocked(f)
        /\ \A g \in Files \ {f} : file'[g] = file[g]
        /\ file'[f].q = file[f].q
        /\ file[f].eof => file'[f].eof
    BY <1>10, SocketIs
  <2>2. \/ post' = [post EXCEPT ![f].left = file[f].q]
        \/ /\ UNCHANGED post
           /\ file'[f].sel = file[f].sel
           /\ file[f].eof = file'[f].eof /\ file[f].shut = file'[f].shut
           /\ file'[f].error => file[f].error
           /\ file'[f].data => file[f].data
           /\ file'[f].space => file[f].space \/ ~file[f].sel
    BY <1>10, SocketIs
  <2>3. \A t \in Threads : Scanned(t)' = Scanned(t)
    BY <2>1 DEF Scanned
  <2>4. ASSUME NEW t \in Threads, Woken(t) PROVE Woken(t)'
    <3>1. post[f].left = {}
      BY <2>1 DEF Unlocked, Nobody
    <3>2. \A g \in Files \ {f} : post'[g] = post[g]
      BY <2>2 DEF TypeOK
    <3> QED
      BY <2>1, <2>4, <3>1, <3>2 DEF Woken
  <2>5. ASSUME NEW t \in Threads, NEW item, WillHear(t, item, f)
        PROVE  Woken(t)' \/ \/ /\ Returned(file'[f], item.events) = {} /\ t \in file'[f].q
                               /\ "out" \in item.events => file'[f].sel
                            \/ th[t].kind = "select" /\ item.events = {"out"} /\ file'[f].eof
    <3>1. CASE th[t].kind = "select" /\ item.events = {"out"} /\ file[f].eof
      BY <2>1, <3>1
    <3>2. CASE /\ Returned(file[f], item.events) = {} /\ t \in file[f].q
               /\ "out" \in item.events => file[f].sel
      <4>1. CASE post' = [post EXCEPT ![f].left = file[f].q]
        <5>1. post'[f].left = file[f].q
          BY <4>1 DEF TypeOK
        <5> QED
          BY <3>2, <5>1 DEF Woken
      <4>2. CASE /\ UNCHANGED post
                 /\ file'[f].sel = file[f].sel
                 /\ file[f].eof = file'[f].eof /\ file[f].shut = file'[f].shut
                 /\ file'[f].error => file[f].error
                 /\ file'[f].data => file[f].data
                 /\ file'[f].space => file[f].space \/ ~file[f].sel
        <5>1. Returned(file'[f], item.events) = {}
          <6>1. /\ ~file[f].error /\ ~file[f].eof
                /\ ~("out" \in item.events /\ file[f].shut)
            BY <3>2 DEF Returned
          <6>2. ~("in" \in item.events /\ file[f].data) /\ ~("out" \in item.events /\ file[f].space)
            BY <3>2 DEF Returned
          <6>3. ~("in" \in item.events /\ file'[f].data) /\ ~("out" \in item.events /\ file'[f].space)
            BY <3>2, <4>2, <6>2
          <6> QED
            BY <4>2, <6>1, <6>3 DEF Returned
        <5> QED
          BY <2>1, <3>2, <4>2, <5>1
      <4> QED
        BY <2>2, <4>1, <4>2
    <3> QED
      BY <2>5, <3>1, <3>2 DEF WillHear
  <2>6. ASSUME NEW t \in Threads, NEW i \in Scanned(t)
        PROVE  ItemHolds(t, i)'
    <3>1. ItemHolds(t, i)
      BY DEF ScanHolds
    <3>2. CASE th[t].files[i] = f
      <4> DEFINE item == th[t].list[i]
      <4>1. fdt'[item.fd] \in {f, None} /\ th'[t].files[i] = f /\ th'[t].list[i] = item
        BY <2>1, <3>1, <3>2 DEF ItemHolds
      <4>2. th[t].ready \/ Woken(t) \/ WillHear(t, item, f)
        BY <3>1, <3>2 DEF ItemHolds
      <4>3. CASE th[t].ready \/ Woken(t)
        BY <2>1, <2>4, <4>1, <4>3 DEF ItemHolds
      <4>4. CASE WillHear(t, item, f)
        <5>1. Woken(t)' \/ \/ /\ Returned(file'[f], item.events) = {} /\ t \in file'[f].q
                              /\ "out" \in item.events => file'[f].sel
                           \/ th[t].kind = "select" /\ item.events = {"out"} /\ file'[f].eof
          BY <2>5, <4>4
        <5>2. f # None
          OBVIOUS
        <5> QED
          BY <2>1, <4>1, <5>1, <5>2 DEF ItemHolds, WillHear
      <4> QED
        BY <4>2, <4>3, <4>4
    <3>3. CASE th[t].files[i] # f
      <4> DEFINE g == th[t].files[i]
      <4>1. g # None => file'[g] = file[g]
        BY <2>1, <3>3, ScannedIs
      <4> QED
        BY <2>1, <2>4, <3>1, <4>1 DEF ItemHolds, WillHear
    <3> QED
      BY <3>2, <3>3
  <2> QED
    BY <2>3, <2>6 DEF ScanHolds
<1>11. ASSUME NEW c \in Fds, Close(c)
      PROVE  ScanHolds'
  <2>1. fdt[c] \in Files /\ file' = [file EXCEPT ![fdt[c]].count = @ - 1] /\ UNCHANGED <<event, post, th>>
    BY <1>11 DEF Close, TypeOK
  <2>2. \A d \in Fds : fdt'[d] \in {fdt[d], None}
    BY <1>11 DEF Close, TypeOK
  <2>3. \A g \in Files : /\ SameSocket(file[g], file'[g])
                         /\ file'[g].sel = file[g].sel /\ file'[g].q = file[g].q
    BY <2>1, CountOnly
  <2>4. \A t \in Threads : Scanned(t)' = Scanned(t) /\ Woken(t)' = Woken(t)
    BY <2>1 DEF Scanned, Woken
  <2>5. ASSUME NEW t \in Threads, NEW i \in Scanned(t)
        PROVE  ItemHolds(t, i)'
    <3>1. ItemHolds(t, i)
      BY DEF ScanHolds
    <3> QED
      BY <2>1, <2>2, <2>3, <2>4, <3>1, ItemStays
  <2> QED
    BY <2>4, <2>5 DEF ScanHolds
<1>12. CASE UNCHANGED vars
  <2>1. \A t \in Threads : Scanned(t)' = Scanned(t) /\ Woken(t)' = Woken(t)
    BY <1>12 DEF vars, Scanned, Woken
  <2>2. \A g \in Files : SameSocket(file[g], file'[g])
    BY <1>12 DEF vars, SameSocket
  <2>3. ASSUME NEW t \in Threads, NEW i \in Scanned(t)
        PROVE  ItemHolds(t, i)'
    <3>1. ItemHolds(t, i)
      BY DEF ScanHolds
    <3> QED
      BY <1>12, <2>1, <2>2, <3>1, ItemStays DEF vars
  <2> QED
    BY <2>1, <2>3 DEF ScanHolds
<1> QED
  BY <1>3, <1>4, <1>5, <1>6, <1>7, <1>8, <1>9, <1>10, <1>11, <1>12 DEF Next, Step, Quiet

\* A thread does not sleep over a file that is ready and still open unless somebody
\* is about to wake it: select() has put it on the queue before it looked, and
\* event_wait() looks at the event that is cleared before the scan.
THEOREM NoLostWakeup == Spec => []WakeupIsNotLost
<1> DEFINE Inv == /\ TypeOK /\ PlaceIsRight /\ RefsAreCounted
                  /\ QueueIsOwned /\ PostedAreQueued /\ SleeperIsPosted
                  /\ FileIsRight /\ ScanHolds
<1>1. Init => Inv
  <2> SUFFICES ASSUME Init PROVE Inv
    OBVIOUS
  <2>1. \A t \in Threads : th[t] = Idle /\ ~event[t]
    BY DEF Init
  <2>2. Idle.at = "idle"
    BY DEF Idle
  <2>3. \A t \in Threads : Scanned(t) = {}
    BY <2>1, <2>2 DEF Scanned
  <2>4. \A f \in Files : post[f] = Nobody /\ file[f].q = {}
    BY DEF Init
  <2> QED
    BY <2>1, <2>2, <2>3, <2>4, CountsInit
    DEF QueueIsOwned, PostedAreQueued, SleeperIsPosted, FileIsRight, ScanHolds, Nobody
<1>2. Inv /\ [Next]_vars => Inv'
  BY TypeStep, CountsStep, QueueStep, PostedStep, SleeperStep, FileStep, HoldsStep
<1>3. Inv => WakeupIsNotLost
  <2> SUFFICES ASSUME Inv, NEW t \in Threads, At(t, "asleep"), \A f \in Files : t \notin post[f].left
               PROVE  /\ ~event[t]
                      /\ \A i \in DOMAIN th[t].list :
                           IsReady(th[t].list[i]) => IsHalfClosed(t, th[t].list[i])
    BY DEF WakeupIsNotLost
  <2>1. ~event[t]
    BY DEF SleeperIsPosted, PostedAreQueued, At
  <2>2. ~Woken(t)
    BY <2>1 DEF Woken
  <2>3. ~th[t].ready /\ Len(th[t].files) = Len(th[t].list)
    BY DEF PlaceIsRight, InPlace, At
  <2>4. Scanned(t) = DOMAIN th[t].list
    BY <2>3 DEF Scanned, At, TypeOK, Scan
  <2>5. ASSUME NEW i \in DOMAIN th[t].list, IsReady(th[t].list[i])
        PROVE  IsHalfClosed(t, th[t].list[i])
    <3> DEFINE f == th[t].files[i]
               item == th[t].list[i]
    <3>1. /\ fdt[item.fd] \in {f, None} /\ f # None /\ WillHear(t, item, f)
      BY <2>2, <2>3, <2>4 DEF ScanHolds, ItemHolds
    <3>2. fdt[item.fd] = f /\ Counts("select", Returned(file[f], item.events), item.events)
      BY <2>5, <3>1 DEF IsReady
    <3>3. Returned(file[f], item.events) # {}
      BY <3>2, NothingCounts
    <3> QED
      BY <3>1, <3>2, <3>3 DEF WillHear, IsHalfClosed
  <2> QED
    BY <2>1, <2>5
<1> QED
  BY <1>1, <1>2, <1>3, PTL DEF Spec
=============================================================================
