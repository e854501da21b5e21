----------------------------- MODULE ByteLocks -----------------------------
\* What the record locks of one file promise: every byte is read-locked by
\* any number of owners or write-locked by one; a request that conflicts
\* waits; and nobody is left waiting for bytes that can be locked: whatever
\* a change makes possible is granted in the same step.
EXTENDS Naturals

CONSTANTS Owners,   \* those who can lock
          Bytes     \* the bytes of the file

VARIABLES held,     \* held[o][b]: how o has locked b
          waiting   \* waiting[o]: the request o waits for, if any

vars == <<held, waiting>>

Modes    == {"none", "read", "write"}
Requests == [mode : Modes, bytes : SUBSET Bytes]

TypeOK == /\ held \in [Owners -> [Bytes -> Modes]]
          /\ waiting \in [Owners -> SUBSET Requests]

Nothing == [b \in Bytes |-> "none"]

Compatible(h) ==
  \A o, q \in Owners, b \in Bytes : h[o][b] = "write" /\ o # q => h[q][b] = "none"

Conflicts(h, o, r) ==
  \E q \in Owners \ {o}, b \in r.bytes :
     h[q][b] = "write" \/ (h[q][b] = "read" /\ r.mode = "write")

Locked(m, r) == [b \in Bytes |-> IF b \in r.bytes THEN r.mode ELSE m[b]]

Init == /\ held = [o \in Owners |-> Nothing]
        /\ waiting = [o \in Owners |-> {}]

\* Each kind of step relates the locks and the requests before it, h and w,
\* to those after it, h1 and w1.

\* The locks become m, and those of the waiting owners that stop waiting
\* get what they asked for; the others still have to wait.
Grant(m, w, h1, w1) ==
  LET granted == {o \in Owners : w[o] # {} /\ w1[o] = {}}
  IN  /\ \A o \in Owners : IF o \in granted
                            THEN \A r \in w[o] : h1[o] = Locked(m[o], r)
                            ELSE h1[o] = m[o] /\ w1[o] = w[o]
      /\ Compatible(h1)
      /\ \A o \in Owners : \A r \in w1[o] : Conflicts(h1, o, r)

\* o locks or unlocks bytes without waiting.
Change(o, h, w, h1, w1) ==
  /\ w[o] = {} /\ w1[o] = {}
  /\ \E r \in Requests : /\ h1[o] = Locked(h[o], r)
                       /\ r.mode # "none" => ~Conflicts(h, o, r)
  /\ Grant([h EXCEPT ![o] = h1[o]], w, h1, w1)

Wait(o, h, w, h1, w1) ==
  /\ h1 = h /\ w[o] = {}
  /\ \E r \in w1[o] : /\ Conflicts(h, o, r)
                      /\ w1 = [w EXCEPT ![o] = {r}]

\* The owners in S do not wait any more: one is interrupted, or its request is
\* taken back, or all those of a machine are.
GiveUp(S, h, w, h1, w1) ==
  /\ h1 = h
  /\ w1 = [o \in Owners |-> IF o \in S THEN {} ELSE w[o]]

\* The owners in S are gone, with their locks and what they waited for.
Leave(S, h, w, h1, w1) ==
  /\ \A o \in S : h1[o] = Nothing /\ w1[o] = {}
  /\ Grant([o \in Owners |-> IF o \in S THEN Nothing ELSE h[o]],
           [o \in Owners |-> IF o \in S THEN {} ELSE w[o]], h1, w1)

Step(h, w, h1, w1) ==
  \/ \E o \in Owners : Wait(o, h, w, h1, w1) \/ Change(o, h, w, h1, w1)
  \/ \E S \in SUBSET Owners : GiveUp(S, h, w, h1, w1) \/ Leave(S, h, w, h1, w1)

Next == Step(held, waiting, held', waiting')

Spec == Init /\ [][Next]_vars
=============================================================================
