--------------------------- MODULE KernLock_proofs ---------------------------
(***************************************************************************)
(* Proofs about KernLock, for any finite set of threads and any depth of   *)
(* recursion.  The inductive invariant is the conjunction of the run's     *)
(* invariants: exclusion needs the counts (a writer goes ahead because     *)
(* read_count is 0), and the counts need exclusion (the recursive owner's  *)
(* reads are in read_count, which is then not the number of readers).      *)
(***************************************************************************)
EXTENDS KernLock, FiniteSetTheorems, TLAPS

IInv ==
    /\ TypeOK
    /\ WriterExcludesAll
    /\ FieldsCountHolders
    /\ RecursionIsCounted
    /\ SleepersAreWoken

\* The sets of places, for the steps that need to tell them apart.
LEMMA PlaceSets ==
    /\ Upgrading = {"read_to_write", "try_read_to_write"}
    /\ Waits = {"lock_write", "drain", "lock_read",
                "read_to_write", "try_read_to_write"}
    /\ Writes = {"writing", "upgraded"}
    /\ WriteBit = {"drain", "writing"}
    /\ UpgradeBit = {"read_to_write", "try_read_to_write", "upgraded"}
BY DEF Upgrading, Waits, Writes, WriteBit, UpgradeBit

------------------------------------------------------------------------------
(* Counting readers *)

LEMMA ReadersFinite ==
    ASSUME TypeOK
    PROVE  IsFiniteSet(Readers) /\ Cardinality(Readers) \in Nat
<1>1. Readers \subseteq Threads  BY DEF Readers
<1> QED  BY <1>1, ThreadsFinite, FS_Subset, FS_CardinalityType

\* What the number of readers says about the threads.
LEMMA ReadersCounted ==
    ASSUME TypeOK
    PROVE  /\ Cardinality(Readers) = 0 <=> \A t \in Threads : at[t] # "reading"
           /\ \A t \in Threads :
                at[t] = "reading" /\ Cardinality(Readers) = 1
                    => \A u \in Threads \ {t} : at[u] # "reading"
<1>1. Cardinality(Readers) = 0 <=> Readers = {}
  BY ReadersFinite, FS_EmptySet
<1>2. ASSUME NEW t \in Threads, at[t] = "reading", Cardinality(Readers) = 1,
             NEW u \in Threads \ {t}, at[u] = "reading"
      PROVE  FALSE
  <2>1. t \in Readers /\ u \in Readers  BY <1>2 DEF Readers
  <2>2. \E x : Readers = {x}  BY <1>2, ReadersFinite, FS_Singleton
  <2> QED  BY <2>1, <2>2, <1>2
<1> QED  BY <1>1, <1>2 DEF Readers

\* How a step of one thread changes the number of readers.
LEMMA ReadersChange ==
    ASSUME TypeOK, NEW t \in Threads, NEW place, Goto(t, place)
    PROVE  Cardinality(Readers') =
             Cardinality(Readers)
               + (IF place = "reading" THEN 1 ELSE 0)
               - (IF at[t] = "reading" THEN 1 ELSE 0)
<1>1. Readers' = IF place = "reading" THEN Readers \union {t} ELSE Readers \ {t}
  BY DEF TypeOK, Goto, Readers
<1>2. t \in Readers <=> at[t] = "reading"  BY DEF Readers
<1>3. /\ IsFiniteSet(Readers)
      /\ Cardinality(Readers) \in Nat
  BY ReadersFinite
<1>4. Cardinality(Readers \union {t}) =
        IF t \in Readers THEN Cardinality(Readers) ELSE Cardinality(Readers) + 1
  BY <1>3, FS_AddElement
<1>5. Cardinality(Readers \ {t}) =
        IF t \in Readers THEN Cardinality(Readers) - 1 ELSE Cardinality(Readers)
  BY <1>3, FS_RemoveElement
<1> QED  BY <1>1, <1>2, <1>3, <1>4, <1>5

------------------------------------------------------------------------------
(* Types *)

LEMMA TypeInit == Init => TypeOK
<1> SUFFICES ASSUME Init PROVE TypeOK
  OBVIOUS
<1>1. at \in [Threads -> Places]
  BY SMT DEF Init, Places
<1>2. /\ read_count \in Nat /\ recursion_depth \in Nat
      /\ nested_reads \in Nat /\ nested_writes \in Nat
  BY SMT DEF Init
<1> QED  BY <1>1, <1>2, Zenon DEF Init, TypeOK

LEMMA WakeTypes ==
    TypeOK /\ WakeWaiters => waiting' \in BOOLEAN /\ asleep' \subseteq Threads
<1> SUFFICES ASSUME TypeOK, WakeWaiters
             PROVE  waiting' \in BOOLEAN /\ asleep' \subseteq Threads
  OBVIOUS
<1>1. waiting' = FALSE /\ (asleep' = {} \/ asleep' = asleep)
  BY Zenon DEF WakeWaiters
<1>2. waiting' \in BOOLEAN  BY <1>1
<1>3. asleep' \subseteq Threads  BY <1>1 DEF TypeOK
<1> QED  BY <1>2, <1>3

LEMMA GiveUpTypes ==
    TypeOK /\ GiveUpWrite =>
        /\ want_write' \in BOOLEAN /\ want_upgrade' \in BOOLEAN
        /\ recursion_depth' \in Nat
<1> SUFFICES ASSUME TypeOK, GiveUpWrite
             PROVE  /\ want_write' \in BOOLEAN /\ want_upgrade' \in BOOLEAN
                    /\ recursion_depth' \in Nat
  OBVIOUS
<1>1. recursion_depth' \in Nat  BY SMT DEF TypeOK, GiveUpWrite
<1>2. want_write' \in BOOLEAN /\ want_upgrade' \in BOOLEAN
  BY Zenon DEF TypeOK, GiveUpWrite
<1> QED  BY <1>1, <1>2

LEMMA TypeNext == TypeOK /\ [Next]_vars => TypeOK'
<1> SUFFICES ASSUME TypeOK, [Next]_vars PROVE TypeOK'
  OBVIOUS
<1> USE NoThreadAssumption, PlaceSets DEF TypeOK, Places, fields, owner, Goto
<1>1. CASE UNCHANGED vars  BY <1>1 DEF vars
<1>2. ASSUME NEW t \in Threads, Step(t) PROVE TypeOK'
  <2>1. CASE LockWrite(t)  BY <2>1 DEF LockWrite, TakeWantWrite
  <2>2. CASE LockTryWrite(t)  BY <2>2 DEF LockTryWrite
  <2>3. CASE LockWriteRecursive(t)  BY <2>3 DEF LockWriteRecursive
  <2>4. CASE LockRead(t)  BY <2>4 DEF LockRead, AcceptReader
  <2>5. CASE LockTryRead(t)  BY <2>5 DEF LockTryRead, AcceptReader
  <2>6. CASE LockReadRecursive(t)  BY <2>6 DEF LockReadRecursive
  <2>7. CASE LockReadToWrite(t)
    <3>1. CASE ClaimUpgrade(t, "read_to_write")
      BY <2>7, <3>1 DEF LockReadToWrite, ClaimUpgrade
    <3>2. CASE LoseUpgrade(t)
      <4>1. read_count' \in Nat /\ at' \in [Threads -> Places]
        BY <2>7, <3>2, SMT DEF LockReadToWrite, LoseUpgrade
      <4> QED  BY <3>2, <4>1, WakeTypes, Zenon DEF LoseUpgrade
    <3> QED  BY <2>7, <3>1, <3>2 DEF LockReadToWrite
  <2>8. CASE LockTryReadToWrite(t)
    BY <2>8 DEF LockTryReadToWrite, ClaimUpgrade
  <2>9. CASE UpgradeRecursive(t)  BY <2>9 DEF UpgradeRecursive
  <2>10. CASE LockWriteToRead(t)
    <3>1. /\ nested_reads' \in Nat /\ nested_writes' \in Nat
          /\ at' \in [Threads -> Places] /\ read_count' \in Nat
      BY <2>10, SMT DEF LockWriteToRead
    <3> QED  BY <2>10, <3>1, GiveUpTypes, WakeTypes, Zenon DEF LockWriteToRead
  <2>11. CASE LockDone(t)
    <3>1. /\ nested_reads' \in Nat /\ nested_writes' \in Nat
          /\ at' \in [Threads -> Places]
      BY <2>11 DEF LockDone, GiveUpHold
    <3>2. /\ want_write' \in BOOLEAN /\ want_upgrade' \in BOOLEAN
          /\ read_count' \in Nat /\ recursion_depth' \in Nat
      BY <2>11, GiveUpTypes DEF LockDone
    <3> QED  BY <2>11, <3>1, <3>2, WakeTypes, Zenon DEF LockDone
  <2>12. CASE LockSetRecursive(t)  BY <2>12 DEF LockSetRecursive
  <2>13. CASE LockClearRecursive(t)  BY <2>13 DEF LockClearRecursive
  <2>14. CASE Sleep(t)  BY <2>14 DEF Sleep
  <2>15. CASE ClearWait(t)  BY <2>15 DEF ClearWait
  <2>16. CASE Progress(t)
    <3>1. CASE LockWriteAgain(t)  BY <3>1 DEF LockWriteAgain, TakeWantWrite
    <3>2. CASE LockWriteDrained(t)  BY <3>2 DEF LockWriteDrained
    <3>3. CASE LockReadAgain(t)  BY <3>3 DEF LockReadAgain, AcceptReader
    <3>4. CASE UpgradeDrained(t)  BY <3>4 DEF UpgradeDrained
    <3> QED  BY <2>16, <3>1, <3>2, <3>3, <3>4 DEF Progress
  <2> QED
    BY <1>2, <2>1, <2>2, <2>3, <2>4, <2>5, <2>6, <2>7, <2>8, <2>9, <2>10,
       <2>11, <2>12, <2>13, <2>14, <2>15, <2>16 DEF Step
<1> QED  BY <1>1, <1>2 DEF Next

\* Every field keeps its type: no count of holds goes below zero.
THEOREM TypeCorrect == Spec => []TypeOK
BY TypeInit, TypeNext, PTL DEF Spec

------------------------------------------------------------------------------
(* Exclusion *)

\* Without a writer by want_write there is no recursive owner, and read_count
\* is the number of readers.
LEMMA NoOwner ==
    ASSUME IInv, \A u \in Threads : at[u] # "writing"
    PROVE  /\ thread = NoThread
           /\ read_count = Cardinality(Readers)
           /\ recursion_depth = 0
<1>1. thread = NoThread
  BY DEF IInv, TypeOK, RecursionIsCounted
<1>2. read_count = Cardinality(Readers)
  BY <1>1 DEF IInv, FieldsCountHolders, ReadCountCounts
<1>3. recursion_depth = 0
  BY <1>1 DEF IInv, TypeOK, RecursionIsCounted
<1> QED  BY <1>1, <1>2, <1>3

\* Without the bits of want_write and want_upgrade no thread writes or is
\* being upgraded.
LEMMA NoBits ==
    ASSUME IInv
    PROVE  /\ ~want_write => \A u \in Threads : at[u] \notin WriteBit
           /\ ~want_upgrade => \A u \in Threads : at[u] \notin UpgradeBit
BY Zenon DEF IInv, FieldsCountHolders, WriteBitCounts, UpgradeBitCounts

\* A writer can enter: the tests of lock_write's second loop.
LEMMA WriterMayEnter ==
    ASSUME IInv, ~want_upgrade, read_count = 0,
           \A u \in Threads : at[u] # "writing"
    PROVE  \A u \in Threads :
                at[u] \notin Writes \union Upgrading \union {"reading"}
<1>1. \A u \in Threads : at[u] \notin UpgradeBit
  BY NoBits
<1>2. \A u \in Threads : at[u] # "reading"
  BY NoOwner, ReadersCounted DEF IInv
<1> QED  BY <1>1, <1>2, PlaceSets

LEMMA ExclusionNext == IInv /\ [Next]_vars => WriterExcludesAll'
<1> SUFFICES ASSUME IInv, [Next]_vars PROVE WriterExcludesAll'
  OBVIOUS
<1> USE PlaceSets DEF Goto
<1>1. /\ at \in [Threads -> Places]
      /\ WriterExcludesAll
  BY DEF IInv, TypeOK
<1>2. ASSUME UNCHANGED at PROVE WriterExcludesAll'
  BY <1>1, <1>2 DEF WriterExcludesAll
<1>3. ASSUME NEW t \in Threads, NEW place \in Places, Goto(t, place),
             place \in Writes =>
               \A u \in Threads \ {t} :
                 at[u] \notin Writes \union Upgrading \union {"reading"},
             place \in Upgrading \union {"reading"} =>
               \A u \in Threads \ {t} : at[u] \notin Writes
      PROVE  WriterExcludesAll'
  BY <1>1, <1>3 DEF WriterExcludesAll
<1>4. ASSUME NEW t \in Threads, TakeWantWrite(t) PROVE WriterExcludesAll'
  <2>1. CASE read_count # 0 \/ want_upgrade
    <3>1. Goto(t, "drain")  BY <1>4, <2>1 DEF TakeWantWrite
    <3> QED  BY <3>1, <1>3 DEF Places
  <2>2. CASE ~(read_count # 0 \/ want_upgrade)
    <3>1. Goto(t, "writing")  BY <1>4, <2>2 DEF TakeWantWrite
    <3>2. \A u \in Threads : at[u] \notin WriteBit
      BY <1>4, NoBits DEF TakeWantWrite
    <3>3. \A u \in Threads :
             at[u] \notin Writes \union Upgrading \union {"reading"}
      BY <2>2, <3>2, WriterMayEnter
    <3> QED  BY <3>1, <3>3, <1>3 DEF Places
  <2> QED  BY <2>1, <2>2
<1>5. ASSUME NEW t \in Threads, AcceptReader(t) PROVE WriterExcludesAll'
  <2>1. Goto(t, "reading") /\ ~want_write /\ ~want_upgrade
    BY <1>5 DEF AcceptReader
  <2>2. \A u \in Threads : at[u] \notin WriteBit \union UpgradeBit
    BY <2>1, NoBits
  <2> QED  BY <2>1, <2>2, <1>3 DEF Places
<1>6. ASSUME NEW t \in Threads, at[t] = "reading", NEW place \in Upgrading,
             ClaimUpgrade(t, place)
      PROVE  WriterExcludesAll'
  <2>1. \A u \in Threads : at[u] \notin Writes
    BY <1>1, <1>6 DEF WriterExcludesAll
  <2>2. CASE read_count = 1
    <3>1. Goto(t, "upgraded") /\ ~want_upgrade  BY <1>6, <2>2 DEF ClaimUpgrade
    <3>2. \A u \in Threads : at[u] \notin UpgradeBit
      BY <3>1, NoBits
    <3>3. Cardinality(Readers) = 1
      BY <2>1, <2>2, NoOwner
    <3>4. \A u \in Threads \ {t} : at[u] # "reading"
      BY <1>6, <3>3, ReadersCounted DEF IInv
    <3> QED  BY <2>1, <3>1, <3>2, <3>4, <1>3 DEF Places
  <2>3. CASE read_count # 1
    <3>1. Goto(t, place)  BY <1>6, <2>3 DEF ClaimUpgrade
    <3> QED  BY <2>1, <3>1, <1>3 DEF Places
  <2> QED  BY <2>2, <2>3
<1>7. CASE UNCHANGED vars  BY <1>2, <1>7 DEF vars
<1>8. ASSUME NEW t \in Threads, Step(t) PROVE WriterExcludesAll'
  <2>1. CASE LockWrite(t)
    <3>1. CASE TakeWantWrite(t)  BY <3>1, <1>4
    <3>2. CASE Goto(t, "lock_write")  BY <3>2, <1>3 DEF Places
    <3> QED  BY <2>1, <3>1, <3>2 DEF LockWrite
  <2>2. CASE LockTryWrite(t)
    <3>1. Goto(t, "writing") /\ ~want_write /\ ~want_upgrade /\ read_count = 0
      BY <2>2 DEF LockTryWrite
    <3>2. \A u \in Threads : at[u] \notin WriteBit
      BY <3>1, NoBits
    <3>3. \A u \in Threads :
             at[u] \notin Writes \union Upgrading \union {"reading"}
      BY <3>1, <3>2, WriterMayEnter
    <3> QED  BY <3>1, <3>3, <1>3 DEF Places
  <2>3. CASE LockWriteRecursive(t)  BY <2>3, <1>2 DEF LockWriteRecursive
  <2>4. CASE LockRead(t)
    <3>1. CASE AcceptReader(t)  BY <3>1, <1>5
    <3>2. CASE Goto(t, "lock_read")  BY <3>2, <1>3 DEF Places
    <3> QED  BY <2>4, <3>1, <3>2 DEF LockRead
  <2>5. CASE LockTryRead(t)  BY <2>5, <1>5 DEF LockTryRead
  <2>6. CASE LockReadRecursive(t)  BY <2>6, <1>2 DEF LockReadRecursive
  <2>7. CASE LockReadToWrite(t)
    <3>1. at[t] = "reading"  BY <2>7 DEF LockReadToWrite
    <3>2. CASE ClaimUpgrade(t, "read_to_write")  BY <3>1, <3>2, <1>6
    <3>3. CASE Goto(t, "idle")  BY <3>3, <1>3 DEF Places
    <3> QED  BY <2>7, <3>2, <3>3 DEF LockReadToWrite, LoseUpgrade
  <2>8. CASE LockTryReadToWrite(t)
    BY <2>8, <1>6 DEF LockTryReadToWrite
  <2>9. CASE UpgradeRecursive(t)  BY <2>9, <1>2 DEF UpgradeRecursive
  <2>10. CASE LockWriteToRead(t)
    <3>1. CASE at[t] \in Writes /\ Goto(t, "reading")
      <4>1. \A u \in Threads \ {t} : at[u] \notin Writes
        BY <1>1, <3>1 DEF WriterExcludesAll
      <4> QED  BY <3>1, <4>1, <1>3 DEF Places
    <3> QED  BY <2>10, <3>1, <1>2 DEF LockWriteToRead
  <2>11. CASE LockDone(t)
    <3>1. CASE Goto(t, "idle")  BY <3>1, <1>3 DEF Places
    <3> QED  BY <2>11, <3>1, <1>2 DEF LockDone, GiveUpHold
  <2>12. CASE LockSetRecursive(t)  BY <2>12, <1>2 DEF LockSetRecursive
  <2>13. CASE LockClearRecursive(t)  BY <2>13, <1>2 DEF LockClearRecursive
  <2>14. CASE Sleep(t)  BY <2>14, <1>2 DEF Sleep
  <2>15. CASE ClearWait(t)  BY <2>15, <1>2 DEF ClearWait
  <2>16. CASE LockWriteAgain(t)  BY <2>16, <1>4 DEF LockWriteAgain
  <2>17. CASE LockWriteDrained(t)
    <3>1. /\ Goto(t, "writing") /\ at[t] = "drain"
          /\ ~want_upgrade /\ read_count = 0
      BY <2>17 DEF LockWriteDrained, Running, Blocked
    <3>2. \A u \in Threads : at[u] # "writing"
      BY <3>1 DEF IInv, FieldsCountHolders, WriteBitCounts
    <3>3. \A u \in Threads :
             at[u] \notin Writes \union Upgrading \union {"reading"}
      BY <3>1, <3>2, WriterMayEnter
    <3> QED  BY <3>1, <3>3, <1>3 DEF Places
  <2>18. CASE LockReadAgain(t)  BY <2>18, <1>5 DEF LockReadAgain
  <2>19. CASE UpgradeDrained(t)
    <3>1. Goto(t, "upgraded") /\ at[t] \in Upgrading /\ read_count = 0
      BY <2>19 DEF UpgradeDrained, Running, Blocked
    <3>2. \A u \in Threads : at[u] \notin Writes
      BY <1>1, <3>1 DEF WriterExcludesAll
    <3>3. \A u \in Threads : at[u] # "reading"
      BY <3>1, <3>2, NoOwner, ReadersCounted DEF IInv
    <3>4. \A u \in Threads \ {t} : at[u] \notin UpgradeBit
      BY <3>1 DEF IInv, FieldsCountHolders, UpgradeBitCounts
    <3> QED  BY <3>1, <3>2, <3>3, <3>4, <1>3 DEF Places
  <2> QED
    BY <1>8, <2>1, <2>2, <2>3, <2>4, <2>5, <2>6, <2>7, <2>8, <2>9, <2>10,
       <2>11, <2>12, <2>13, <2>14, <2>15, <2>16, <2>17, <2>18, <2>19
       DEF Step, Progress
<1> QED  BY <1>7, <1>8 DEF Next

------------------------------------------------------------------------------
(* Accounting *)

\* What holds of the fields when a thread has its only hold.
LEMMA PlainHolder ==
    ASSUME IInv, NEW t \in Threads, thread # t, at[t] \in Writes \union {"reading"}
    PROVE  /\ thread = NoThread
           /\ read_count = Cardinality(Readers)
           /\ recursion_depth = 0
           /\ at[t] = "reading" <=> read_count # 0
           /\ at[t] = "writing" => want_write /\ ~want_upgrade
           /\ at[t] = "upgraded" => want_upgrade
<1> USE PlaceSets
<1>1. thread = NoThread
  <2>1. \A u \in Threads \ {t} : at[u] # "writing"
    BY DEF IInv, WriterExcludesAll
  <2> QED  BY <2>1 DEF IInv, TypeOK, RecursionIsCounted
<1>2. read_count = Cardinality(Readers)
  BY <1>1 DEF IInv, FieldsCountHolders, ReadCountCounts
<1>3. recursion_depth = 0
  BY <1>1 DEF IInv, TypeOK, RecursionIsCounted
<1>4. at[t] = "reading" <=> read_count # 0
  <2>1. at[t] \in Writes => \A u \in Threads : at[u] # "reading"
    BY DEF IInv, WriterExcludesAll
  <2> QED  BY <1>2, <2>1, ReadersCounted DEF IInv
<1>5. at[t] = "writing" => want_write /\ ~want_upgrade
  <2>1. at[t] = "writing" => \A u \in Threads : at[u] \notin UpgradeBit
    BY DEF IInv, WriterExcludesAll
  <2> QED
    BY <2>1 DEF IInv, FieldsCountHolders, WriteBitCounts, UpgradeBitCounts
<1>6. at[t] = "upgraded" => want_upgrade
  BY DEF IInv, FieldsCountHolders, UpgradeBitCounts
<1> QED  BY <1>1, <1>2, <1>3, <1>4, <1>5, <1>6

\* What holds of the fields when the lock has a recursive owner.
LEMMA RecursiveOwner ==
    ASSUME IInv, NEW t \in Threads, thread = t
    PROVE  /\ at[t] = "writing"
           /\ want_write /\ ~want_upgrade
           /\ t # NoThread
           /\ \A u \in Threads \ {t} :
                at[u] \notin {"drain", "reading"} \union Writes \union Upgrading
<1> USE PlaceSets
<1>1. t # NoThread  BY NoThreadAssumption
<1>2. at[t] = "writing"  BY <1>1 DEF IInv, RecursionIsCounted
<1>3. \A u \in Threads \ {t} :
            at[u] \notin Writes \union Upgrading \union {"reading"}
  BY <1>2 DEF IInv, WriterExcludesAll
<1>4. want_write /\ \A u \in Threads \ {t} : at[u] # "drain"
  BY <1>2 DEF IInv, FieldsCountHolders, WriteBitCounts
<1>5. ~want_upgrade
  BY <1>2, <1>3 DEF IInv, FieldsCountHolders, UpgradeBitCounts
<1> QED  BY <1>1, <1>2, <1>3, <1>4, <1>5

\* The three ways in which a step of t may treat the bit of want_write.
LEMMA WriteBitStep ==
    ASSUME IInv, NEW t \in Threads, NEW place \in Places, Goto(t, place),
           \/ want_write' = want_write /\ (place \in WriteBit <=> at[t] \in WriteBit)
           \/ ~want_write /\ want_write' /\ place \in WriteBit
           \/ ~want_write' /\ at[t] \in WriteBit /\ place \notin WriteBit
    PROVE  WriteBitCounts'
<1>1. at' = [at EXCEPT ![t] = place] /\ at \in [Threads -> Places]
  BY DEF IInv, TypeOK, Goto
<1>2. WriteBitCounts  BY DEF IInv, FieldsCountHolders
<1>3. CASE want_write' = want_write /\ (place \in WriteBit <=> at[t] \in WriteBit)
  BY <1>1, <1>2, <1>3 DEF WriteBitCounts
<1>4. CASE ~want_write /\ want_write' /\ place \in WriteBit
  BY <1>1, <1>2, <1>4 DEF WriteBitCounts
<1>5. CASE ~want_write' /\ at[t] \in WriteBit /\ place \notin WriteBit
  BY <1>1, <1>2, <1>5 DEF WriteBitCounts
<1> QED  BY <1>3, <1>4, <1>5

\* The three ways in which a step of t may treat the bit of want_upgrade.
LEMMA UpgradeBitStep ==
    ASSUME IInv, NEW t \in Threads, NEW place \in Places, Goto(t, place),
           \/ want_upgrade' = want_upgrade
                /\ (place \in UpgradeBit <=> at[t] \in UpgradeBit)
           \/ ~want_upgrade /\ want_upgrade' /\ place \in UpgradeBit
           \/ ~want_upgrade' /\ at[t] \in UpgradeBit /\ place \notin UpgradeBit
    PROVE  UpgradeBitCounts'
<1>1. at' = [at EXCEPT ![t] = place] /\ at \in [Threads -> Places]
  BY DEF IInv, TypeOK, Goto
<1>2. UpgradeBitCounts  BY DEF IInv, FieldsCountHolders
<1>3. CASE want_upgrade' = want_upgrade
             /\ (place \in UpgradeBit <=> at[t] \in UpgradeBit)
  BY <1>1, <1>2, <1>3 DEF UpgradeBitCounts
<1>4. CASE ~want_upgrade /\ want_upgrade' /\ place \in UpgradeBit
  BY <1>1, <1>2, <1>4 DEF UpgradeBitCounts
<1>5. CASE ~want_upgrade' /\ at[t] \in UpgradeBit /\ place \notin UpgradeBit
  BY <1>1, <1>2, <1>5 DEF UpgradeBitCounts
<1> QED  BY <1>3, <1>4, <1>5

\* A step that changes read_count as it changes the readers.
LEMMA ReadCountStep ==
    ASSUME IInv, NEW t \in Threads, NEW place \in Places, Goto(t, place),
           thread' = NoThread => thread = NoThread,
           thread = NoThread =>
             read_count' = read_count + (IF place = "reading" THEN 1 ELSE 0)
                                      - (IF at[t] = "reading" THEN 1 ELSE 0)
    PROVE  ReadCountCounts'
<1>1. ReadCountCounts /\ TypeOK  BY DEF IInv, FieldsCountHolders
<1>2. Cardinality(Readers') = Cardinality(Readers)
               + (IF place = "reading" THEN 1 ELSE 0)
               - (IF at[t] = "reading" THEN 1 ELSE 0)
  BY <1>1, ReadersChange
<1>3. thread' = NoThread => read_count' = Cardinality(Readers')
  BY <1>1, <1>2 DEF ReadCountCounts
<1> QED  BY <1>3 DEF ReadCountCounts

\* A step of the recursive owner leaves the bits and the readers alone.
LEMMA BitsUnchanged ==
    ASSUME IInv, UNCHANGED <<at, want_write, want_upgrade>>
    PROVE  WriteBitCounts' /\ UpgradeBitCounts'
BY DEF IInv, FieldsCountHolders, WriteBitCounts, UpgradeBitCounts

LEMMA FieldsNext == IInv /\ [Next]_vars => FieldsCountHolders'
<1> SUFFICES ASSUME IInv, [Next]_vars PROVE FieldsCountHolders'
  OBVIOUS
<1> USE PlaceSets DEF Places, fields, owner
<1>1. at \in [Threads -> Places]  BY DEF IInv, TypeOK
<1>2. ASSUME UNCHANGED <<at, want_write, want_upgrade>>,
             \/ UNCHANGED <<read_count, thread>>
             \/ thread' # NoThread
             \/ thread' = NoThread /\ read_count' = Cardinality(Readers)
      PROVE  FieldsCountHolders'
  <2>1. Readers' = Readers  BY <1>2 DEF Readers
  <2>2. ReadCountCounts'
    BY <1>2, <2>1 DEF IInv, FieldsCountHolders, ReadCountCounts
  <2> QED  BY <1>2, <2>2, BitsUnchanged DEF FieldsCountHolders
<1>3. ASSUME NEW t \in Threads, TakeWantWrite(t),
             at[t] \in {"idle", "lock_write"}
      PROVE  FieldsCountHolders'
  <2>1. PICK place \in WriteBit : Goto(t, place)
    BY <1>3 DEF TakeWantWrite
  <2>2. WriteBitCounts'
    BY <1>3, <2>1, WriteBitStep DEF TakeWantWrite
  <2>3. UpgradeBitCounts'
    BY <1>3, <2>1, UpgradeBitStep DEF TakeWantWrite
  <2>4. ReadCountCounts'
    BY <1>3, <2>1, ReadCountStep DEF TakeWantWrite, IInv, TypeOK
  <2> QED  BY <2>2, <2>3, <2>4 DEF FieldsCountHolders
<1>4. ASSUME NEW t \in Threads, AcceptReader(t), at[t] \in {"idle", "lock_read"}
      PROVE  FieldsCountHolders'
  <2>1. Goto(t, "reading")  BY <1>4 DEF AcceptReader
  <2>2. WriteBitCounts'
    BY <1>4, <2>1, WriteBitStep DEF AcceptReader
  <2>3. UpgradeBitCounts'
    BY <1>4, <2>1, UpgradeBitStep DEF AcceptReader
  <2>4. ReadCountCounts'
    BY <1>4, <2>1, ReadCountStep DEF AcceptReader, IInv, TypeOK
  <2> QED  BY <2>2, <2>3, <2>4 DEF FieldsCountHolders
<1>5. ASSUME NEW t \in Threads, NEW place \in Upgrading,
             ClaimUpgrade(t, place), at[t] = "reading"
      PROVE  FieldsCountHolders'
  <2>1. PICK p \in UpgradeBit : Goto(t, p)
    BY <1>5 DEF ClaimUpgrade
  <2>2. WriteBitCounts'
    BY <1>5, <2>1, WriteBitStep DEF ClaimUpgrade
  <2>3. UpgradeBitCounts'
    BY <1>5, <2>1, UpgradeBitStep DEF ClaimUpgrade
  <2>4. ReadCountCounts'
    BY <1>5, <2>1, ReadCountStep DEF ClaimUpgrade, IInv, TypeOK
  <2> QED  BY <2>2, <2>3, <2>4 DEF FieldsCountHolders
<1>6. ASSUME NEW t \in Threads, NEW place \in Places, Goto(t, place),
             UNCHANGED <<want_write, want_upgrade, read_count, thread>>,
             at[t] # "reading" /\ place # "reading",
             place \in WriteBit <=> at[t] \in WriteBit,
             place \in UpgradeBit <=> at[t] \in UpgradeBit
      PROVE  FieldsCountHolders'
  <2>1. WriteBitCounts'  BY <1>6, WriteBitStep
  <2>2. UpgradeBitCounts'  BY <1>6, UpgradeBitStep
  <2>3. ReadCountCounts'  BY <1>6, ReadCountStep DEF IInv, TypeOK
  <2> QED  BY <2>1, <2>2, <2>3 DEF FieldsCountHolders
<1>7. CASE UNCHANGED vars  BY <1>2, <1>7 DEF vars
<1>8. ASSUME NEW t \in Threads, Step(t) PROVE FieldsCountHolders'
  <2>0. t # NoThread  BY NoThreadAssumption
  <2>1. CASE LockWrite(t)
    <3>1. CASE TakeWantWrite(t)  BY <2>1, <3>1, <1>3 DEF LockWrite
    <3>2. CASE want_write /\ Goto(t, "lock_write") /\ UNCHANGED <<fields, owner>>
      BY <2>1, <3>2, <1>6 DEF LockWrite
    <3> QED  BY <2>1, <3>1, <3>2 DEF LockWrite
  <2>2. CASE LockTryWrite(t)
    <3>1. Goto(t, "writing") /\ at[t] = "idle"  BY <2>2 DEF LockTryWrite
    <3>2. WriteBitCounts'
      BY <2>2, <3>1, WriteBitStep DEF LockTryWrite
    <3>3. UpgradeBitCounts'
      BY <2>2, <3>1, UpgradeBitStep DEF LockTryWrite
    <3>4. ReadCountCounts'
      BY <2>2, <3>1, ReadCountStep DEF LockTryWrite, IInv, TypeOK
    <3> QED  BY <3>2, <3>3, <3>4 DEF FieldsCountHolders
  <2>3. CASE LockWriteRecursive(t)  BY <2>3, <1>2 DEF LockWriteRecursive
  <2>4. CASE LockRead(t)
    <3>1. CASE AcceptReader(t)  BY <2>4, <3>1, <1>4 DEF LockRead
    <3>2. CASE Goto(t, "lock_read") /\ UNCHANGED <<fields, owner>>
      BY <2>4, <3>2, <1>6 DEF LockRead
    <3> QED  BY <2>4, <3>1, <3>2 DEF LockRead
  <2>5. CASE LockTryRead(t)  BY <2>5, <1>4 DEF LockTryRead
  <2>6. CASE LockReadRecursive(t)
    BY <2>0, <2>6, <1>2 DEF LockReadRecursive, MayNest
  <2>7. CASE LockReadToWrite(t)
    <3>1. at[t] = "reading"  BY <2>7 DEF LockReadToWrite
    <3>2. CASE ClaimUpgrade(t, "read_to_write")  BY <3>1, <3>2, <1>5
    <3>3. CASE LoseUpgrade(t)
      <4>1. Goto(t, "idle") /\ UNCHANGED <<want_write, want_upgrade, thread>>
        BY <3>3 DEF LoseUpgrade
      <4>2. WriteBitCounts'
        BY <3>1, <4>1, WriteBitStep
      <4>3. UpgradeBitCounts'
        BY <3>1, <4>1, UpgradeBitStep
      <4>4. read_count' = read_count - 1  BY <3>3 DEF LoseUpgrade
      <4>5. ReadCountCounts'
        BY <3>1, <4>1, <4>4, ReadCountStep DEF IInv, TypeOK
      <4> QED  BY <4>2, <4>3, <4>5 DEF FieldsCountHolders
    <3> QED  BY <2>7, <3>2, <3>3 DEF LockReadToWrite
  <2>8. CASE LockTryReadToWrite(t)
    BY <2>8, <1>5 DEF LockTryReadToWrite
  <2>9. CASE UpgradeRecursive(t)
    BY <2>0, <2>9, <1>2 DEF UpgradeRecursive
  <2>10. CASE LockWriteToRead(t)
    <3>1. CASE at[t] \in Writes /\ thread # t /\ Goto(t, "reading")
      <4>1. /\ thread = NoThread /\ recursion_depth = 0
            /\ at[t] = "writing" => want_write /\ ~want_upgrade
            /\ at[t] = "upgraded" => want_upgrade
        BY <3>1, PlainHolder
      <4>2. /\ want_upgrade' = FALSE
            /\ want_write' = (want_write /\ want_upgrade)
        BY <2>10, <4>1 DEF LockWriteToRead, GiveUpWrite
      <4>3. WriteBitCounts'
        BY <3>1, <4>1, <4>2, WriteBitStep DEF IInv, TypeOK
      <4>4. UpgradeBitCounts'
        BY <3>1, <4>1, <4>2, UpgradeBitStep DEF IInv, TypeOK
      <4>5. read_count' = read_count + 1 /\ UNCHANGED thread
        BY <2>10 DEF LockWriteToRead
      <4>6. ReadCountCounts'
        BY <3>1, <4>5, ReadCountStep DEF IInv, TypeOK
      <4> QED  BY <4>3, <4>4, <4>6 DEF FieldsCountHolders
    <3>2. CASE thread = t /\ nested_writes > 0 /\ UNCHANGED at
      <4>1. recursion_depth # 0
        BY <2>0, <3>2 DEF IInv, TypeOK, RecursionIsCounted
      <4>2. UNCHANGED <<want_write, want_upgrade, thread>>
        BY <2>10, <4>1 DEF LockWriteToRead, GiveUpWrite
      <4> QED  BY <2>0, <3>2, <4>2, <1>2
    <3> QED  BY <2>10, <3>1, <3>2 DEF LockWriteToRead
  <2>11. CASE LockDone(t)
    <3>1. CASE /\ at[t] \in Writes \union {"reading"} /\ thread # t
               /\ Goto(t, "idle")
      <4>1. /\ thread = NoThread /\ recursion_depth = 0
            /\ at[t] = "reading" <=> read_count # 0
            /\ at[t] = "writing" => want_write /\ ~want_upgrade
            /\ at[t] = "upgraded" => want_upgrade
        BY <3>1, PlainHolder
      <4>2. thread' = thread  BY <2>11 DEF LockDone
      <4>3. CASE at[t] = "reading"
        <5>1. /\ UNCHANGED <<want_write, want_upgrade>>
              /\ read_count' = read_count - 1
          BY <2>11, <4>1, <4>3 DEF LockDone
        <5>2. WriteBitCounts'  BY <3>1, <4>3, <5>1, WriteBitStep
        <5>3. UpgradeBitCounts'  BY <3>1, <4>3, <5>1, UpgradeBitStep
        <5>4. ReadCountCounts'
          BY <3>1, <4>2, <4>3, <5>1, ReadCountStep DEF IInv, TypeOK
        <5> QED  BY <5>2, <5>3, <5>4 DEF FieldsCountHolders
      <4>4. CASE at[t] \in Writes
        <5>1. /\ want_upgrade' = FALSE
              /\ want_write' = (want_write /\ want_upgrade)
              /\ read_count' = read_count
          BY <2>11, <4>1, <4>4 DEF LockDone, GiveUpWrite
        <5>2. WriteBitCounts'
          BY <3>1, <4>1, <4>4, <5>1, WriteBitStep DEF IInv, TypeOK
        <5>3. UpgradeBitCounts'
          BY <3>1, <4>1, <4>4, <5>1, UpgradeBitStep DEF IInv, TypeOK
        <5>4. ReadCountCounts'
          BY <3>1, <4>2, <4>4, <5>1, ReadCountStep DEF IInv, TypeOK
        <5> QED  BY <5>2, <5>3, <5>4 DEF FieldsCountHolders
      <4> QED  BY <3>1, <4>3, <4>4
    <3>2. CASE thread = t /\ nested_reads + nested_writes > 0 /\ UNCHANGED at
      <4>1. read_count # 0 \/ recursion_depth # 0
        BY <2>0, <3>2 DEF IInv, TypeOK, RecursionIsCounted
      <4>2. UNCHANGED <<want_write, want_upgrade, thread>>
        BY <2>11, <4>1 DEF LockDone, GiveUpWrite
      <4> QED  BY <2>0, <3>2, <4>2, <1>2
    <3>3. CASE thread = t
      <4>1. nested_reads + nested_writes > 0 /\ UNCHANGED at
        BY <2>11, <3>3 DEF LockDone, GiveUpHold, IInv, TypeOK
      <4> QED  BY <3>2, <3>3, <4>1
    <3> QED  BY <2>11, <3>1, <3>3 DEF LockDone, GiveUpHold
  <2>12. CASE LockSetRecursive(t)
    BY <2>0, <2>12, <1>2 DEF LockSetRecursive
  <2>13. CASE LockClearRecursive(t)
    <3>1. thread = t /\ nested_reads + nested_writes = 0 /\ recursion_depth = 0
      BY <2>13 DEF LockClearRecursive
    <3>2. read_count = 0
      BY <2>0, <3>1 DEF IInv, TypeOK, RecursionIsCounted
    <3>3. \A u \in Threads : at[u] # "reading"
      BY <3>1, RecursiveOwner
    <3>4. Cardinality(Readers) = 0
      BY <3>3, ReadersCounted DEF IInv
    <3> QED  BY <2>13, <3>2, <3>4, <1>2 DEF LockClearRecursive
  <2>14. CASE Sleep(t)  BY <2>14, <1>2 DEF Sleep
  <2>15. CASE ClearWait(t)  BY <2>15, <1>2 DEF ClearWait
  <2>16. CASE LockWriteAgain(t)
    BY <2>16, <1>3 DEF LockWriteAgain, Running
  <2>17. CASE LockWriteDrained(t)
    BY <2>17, <1>6 DEF LockWriteDrained, Running
  <2>18. CASE LockReadAgain(t)  BY <2>18, <1>4 DEF LockReadAgain, Running
  <2>19. CASE UpgradeDrained(t)
    BY <2>19, <1>6 DEF UpgradeDrained, Running
  <2> QED
    BY <1>8, <2>1, <2>2, <2>3, <2>4, <2>5, <2>6, <2>7, <2>8, <2>9, <2>10,
       <2>11, <2>12, <2>13, <2>14, <2>15, <2>16, <2>17, <2>18, <2>19
       DEF Step, Progress
<1> QED  BY <1>7, <1>8 DEF Next

------------------------------------------------------------------------------
(* Recursion *)

LEMMA RecursionNext == IInv /\ [Next]_vars => RecursionIsCounted'
<1> SUFFICES ASSUME IInv, [Next]_vars PROVE RecursionIsCounted'
  OBVIOUS
<1> USE PlaceSets DEF fields, owner, Goto
<1>1. TypeOK /\ RecursionIsCounted  BY DEF IInv
<1>2. ASSUME UNCHANGED owner,
             thread # NoThread => at'[thread] = "writing" /\ UNCHANGED read_count
      PROVE  RecursionIsCounted'
  BY <1>1, <1>2 DEF RecursionIsCounted
<1>3. ASSUME NEW t \in Threads, NEW place, Goto(t, place), at[t] # "writing",
             UNCHANGED owner, thread # NoThread => UNCHANGED read_count
      PROVE  RecursionIsCounted'
  BY <1>1, <1>2, <1>3 DEF RecursionIsCounted, TypeOK
<1>4. CASE UNCHANGED vars  BY <1>2, <1>1, <1>4 DEF vars, RecursionIsCounted
<1>5. ASSUME NEW t \in Threads, Step(t) PROVE RecursionIsCounted'
  <2>0. t # NoThread  BY NoThreadAssumption
  <2>1. ASSUME TakeWantWrite(t), at[t] # "writing" PROVE RecursionIsCounted'
    BY <2>1, <1>3 DEF TakeWantWrite
  <2>2. ASSUME AcceptReader(t), at[t] # "writing" PROVE RecursionIsCounted'
    <3>1. \A u \in Threads : at[u] \notin WriteBit
      BY <2>2, NoBits DEF AcceptReader
    <3>2. thread = NoThread  BY <3>1, NoOwner
    <3> QED  BY <2>2, <3>2, <1>3 DEF AcceptReader
  <2>3. CASE LockWrite(t)  BY <2>1, <2>3, <1>3 DEF LockWrite
  <2>4. CASE LockTryWrite(t)  BY <2>4, <1>3 DEF LockTryWrite
  <2>5. CASE LockWriteRecursive(t)
    BY <2>0, <1>1, <2>5 DEF LockWriteRecursive, MayNest, RecursionIsCounted, TypeOK
  <2>6. CASE LockRead(t)  BY <2>2, <2>6, <1>3 DEF LockRead
  <2>7. CASE LockTryRead(t)  BY <2>2, <2>7 DEF LockTryRead
  <2>8. CASE LockReadRecursive(t)
    BY <2>0, <1>1, <2>8 DEF LockReadRecursive, MayNest, RecursionIsCounted, TypeOK
  <2>9. CASE LockReadToWrite(t) \/ LockTryReadToWrite(t)
    <3>1. at[t] = "reading" /\ UNCHANGED owner
      BY <2>9 DEF LockReadToWrite, LockTryReadToWrite, ClaimUpgrade, LoseUpgrade
    <3>2. \A u \in Threads : at[u] # "writing"
      BY <3>1 DEF IInv, WriterExcludesAll
    <3>3. thread = NoThread  BY <3>2, NoOwner
    <3> QED  BY <3>1, <3>3, <1>2
  <2>10. CASE UpgradeRecursive(t)
    BY <2>0, <1>1, <2>10 DEF UpgradeRecursive, RecursionIsCounted, TypeOK
  <2>11. CASE LockWriteToRead(t)
    <3>1. CASE at[t] \in Writes /\ thread # t /\ UNCHANGED <<nested_reads, nested_writes>>
      <4>1. thread = NoThread /\ recursion_depth = 0  BY <3>1, PlainHolder
      <4>2. UNCHANGED <<thread, recursion_depth>>
        BY <2>11, <4>1 DEF LockWriteToRead, GiveUpWrite
      <4> QED  BY <3>1, <4>1, <4>2, <1>2
    <3>2. CASE /\ thread = t /\ nested_writes > 0 /\ UNCHANGED at
               /\ nested_reads' = nested_reads + 1
               /\ nested_writes' = nested_writes - 1
      <4>1. recursion_depth # 0
        BY <2>0, <3>2, <1>1 DEF TypeOK, RecursionIsCounted
      <4>2. /\ recursion_depth' = recursion_depth - 1
            /\ read_count' = read_count + 1 /\ UNCHANGED thread
        BY <2>11, <4>1 DEF LockWriteToRead, GiveUpWrite
      <4> QED  BY <2>0, <3>2, <4>2, <1>1 DEF TypeOK, RecursionIsCounted
    <3> QED  BY <2>11, <3>1, <3>2 DEF LockWriteToRead
  <2>12. CASE LockDone(t)
    <3>0. UNCHANGED thread  BY <2>12 DEF LockDone
    <3>1. CASE /\ at[t] \in Writes \union {"reading"} /\ thread # t
               /\ UNCHANGED <<nested_reads, nested_writes>>
      <4>1. thread = NoThread /\ recursion_depth = 0  BY <3>1, PlainHolder
      <4>2. UNCHANGED recursion_depth
        BY <2>12, <4>1 DEF LockDone, GiveUpWrite
      <4> QED  BY <3>0, <3>1, <4>1, <4>2, <1>2
    <3>2. CASE thread = t
      <4>1. /\ UNCHANGED at
            /\ \/ /\ nested_reads > 0 /\ nested_reads' = nested_reads - 1
                  /\ UNCHANGED nested_writes
               \/ /\ nested_writes > 0 /\ nested_writes' = nested_writes - 1
                  /\ UNCHANGED nested_reads
        BY <2>12, <3>2 DEF LockDone, GiveUpHold
      <4>2. CASE read_count # 0
        <5>1. read_count' = read_count - 1 /\ UNCHANGED recursion_depth
          BY <2>12, <4>2 DEF LockDone
        <5> QED
          BY <2>0, <3>0, <3>2, <4>1, <4>2, <5>1, <1>1 DEF TypeOK, RecursionIsCounted
      <4>3. CASE read_count = 0
        <5>1. recursion_depth # 0
          BY <2>0, <3>2, <4>1, <4>3, <1>1 DEF TypeOK, RecursionIsCounted
        <5>2. UNCHANGED read_count /\ recursion_depth' = recursion_depth - 1
          BY <2>12, <4>3, <5>1 DEF LockDone, GiveUpWrite
        <5> QED
          BY <2>0, <3>0, <3>2, <4>1, <4>3, <5>2, <1>1 DEF TypeOK, RecursionIsCounted
      <4> QED  BY <4>2, <4>3
    <3> QED  BY <2>12, <3>1, <3>2 DEF LockDone, GiveUpHold
  <2>13. CASE LockSetRecursive(t)
    <3>1. at[t] = "writing" /\ thread # t  BY <2>13 DEF LockSetRecursive
    <3>2. thread = NoThread /\ read_count = 0
      BY <3>1, PlainHolder
    <3> QED
      BY <2>0, <2>13, <3>2, <1>1 DEF LockSetRecursive, RecursionIsCounted, TypeOK
  <2>14. CASE LockClearRecursive(t)
    BY <1>1, <2>14 DEF LockClearRecursive, RecursionIsCounted, TypeOK
  <2>15. CASE Sleep(t)
    BY <1>1, <2>15, <1>2 DEF Sleep, RecursionIsCounted
  <2>16. CASE ClearWait(t)
    BY <1>1, <2>16, <1>2 DEF ClearWait, RecursionIsCounted
  <2>17. CASE LockWriteAgain(t)
    BY <2>1, <2>17 DEF LockWriteAgain, Running
  <2>18. CASE LockWriteDrained(t)
    BY <2>18, <1>3 DEF LockWriteDrained, Running
  <2>19. CASE LockReadAgain(t)
    BY <2>2, <2>19 DEF LockReadAgain, Running
  <2>20. CASE UpgradeDrained(t)
    BY <2>20, <1>3 DEF UpgradeDrained, Running
  <2> QED
    BY <1>5, <2>3, <2>4, <2>5, <2>6, <2>7, <2>8, <2>9, <2>10, <2>11, <2>12,
       <2>13, <2>14, <2>15, <2>16, <2>17, <2>18, <2>19, <2>20
       DEF Step, Progress
<1> QED  BY <1>4, <1>5 DEF Next

------------------------------------------------------------------------------
(* Wakeups *)

LEMMA SleepersNext == IInv /\ [Next]_vars => SleepersAreWoken'
<1> SUFFICES ASSUME IInv, [Next]_vars PROVE SleepersAreWoken'
  OBVIOUS
<1> USE PlaceSets DEF fields, owner, Goto
<1>1. TypeOK /\ SleepersAreWoken  BY DEF IInv
\* Whoever wakes the waiters leaves nobody asleep.
<1>2. ASSUME WakeWaiters PROVE SleepersAreWoken'
  <2>1. CASE waiting  BY <1>2, <2>1 DEF WakeWaiters, SleepersAreWoken
  <2>2. CASE ~waiting
    <3>1. asleep = {}  BY <1>1, <2>2 DEF SleepersAreWoken, TypeOK
    <3>2. asleep' = {}  BY <1>2, <2>2, <3>1 DEF WakeWaiters
    <3> QED  BY <3>2 DEF SleepersAreWoken
  <2> QED  BY <2>1, <2>2
\* Steps that unblock nobody.
<1>3. ASSUME asleep' \subseteq asleep, waiting' = waiting,
             \A u \in asleep : at'[u] = at[u],
             want_write => want_write', want_upgrade => want_upgrade',
             read_count # 0 => read_count' # 0
      PROVE  SleepersAreWoken'
  <2> SUFFICES ASSUME NEW u \in asleep'
               PROVE  waiting' /\ at'[u] \in Waits /\ Blocked(at[u])'
    BY DEF SleepersAreWoken
  <2>1. waiting /\ at[u] \in Waits /\ Blocked(at[u])
    BY <1>1, <1>3 DEF SleepersAreWoken
  <2> QED  BY <1>3, <2>1 DEF Blocked
<1>4. ASSUME NEW t \in Threads, NEW place, Goto(t, place), at[t] \notin Waits \/ t \notin asleep
      PROVE  \A u \in asleep : at'[u] = at[u]
  <2>1. t \notin asleep  BY <1>1, <1>4 DEF SleepersAreWoken
  <2> QED  BY <1>1, <1>4, <2>1 DEF TypeOK
<1>5. ASSUME NEW t \in Threads, TakeWantWrite(t),
             at[t] \notin Waits \/ t \notin asleep
      PROVE  SleepersAreWoken'
  BY <1>3, <1>4, <1>5 DEF TakeWantWrite
<1>6. ASSUME NEW t \in Threads, AcceptReader(t),
             at[t] \notin Waits \/ t \notin asleep
      PROVE  SleepersAreWoken'
  <2>1. Goto(t, "reading") /\ UNCHANGED <<want_write, want_upgrade, waiting, asleep>>
    BY <1>6 DEF AcceptReader
  <2>2. read_count # 0 => read_count' # 0
    BY <1>1, <1>6 DEF AcceptReader, TypeOK
  <2>3. \A u \in asleep : at'[u] = at[u]  BY <1>4, <1>6, <2>1
  <2> QED  BY <2>1, <2>2, <2>3, <1>3
<1>7. ASSUME NEW t \in Threads, NEW place, ClaimUpgrade(t, place), at[t] = "reading"
      PROVE  SleepersAreWoken'
  <2> SUFFICES ASSUME NEW u \in asleep'
               PROVE  waiting' /\ at'[u] \in Waits /\ Blocked(at[u])'
    BY DEF SleepersAreWoken
  <2>1. /\ asleep' = asleep /\ waiting' = waiting /\ ~want_upgrade
        /\ want_upgrade' /\ want_write' = want_write
    BY <1>7 DEF ClaimUpgrade
  <2>2. waiting /\ at[u] \in Waits /\ Blocked(at[u])
    BY <1>1, <2>1 DEF SleepersAreWoken
  <2>3. at[u] \notin UpgradeBit  BY <1>1, <2>1, NoBits DEF TypeOK
  <2>4. at'[u] = at[u]  BY <1>4, <1>7, <2>1 DEF ClaimUpgrade
  <2> QED  BY <2>1, <2>2, <2>3, <2>4 DEF Blocked
<1>8. CASE UNCHANGED vars  BY <1>3, <1>8 DEF vars
<1>9. ASSUME NEW t \in Threads, Step(t) PROVE SleepersAreWoken'
  <2>1. CASE LockWrite(t)
    <3>1. CASE TakeWantWrite(t)  BY <2>1, <3>1, <1>5 DEF LockWrite
    <3>2. CASE Goto(t, "lock_write") /\ UNCHANGED <<fields, asleep>>
      BY <2>1, <3>2, <1>3, <1>4 DEF LockWrite
    <3> QED  BY <2>1, <3>1, <3>2 DEF LockWrite
  <2>2. CASE LockTryWrite(t)  BY <2>2, <1>3, <1>4 DEF LockTryWrite
  <2>3. CASE LockWriteRecursive(t)  BY <2>3, <1>3 DEF LockWriteRecursive
  <2>4. CASE LockRead(t)
    <3>1. CASE AcceptReader(t)  BY <2>4, <3>1, <1>6 DEF LockRead
    <3>2. CASE Goto(t, "lock_read") /\ UNCHANGED <<fields, asleep>>
      BY <2>4, <3>2, <1>3, <1>4 DEF LockRead
    <3> QED  BY <2>4, <3>1, <3>2 DEF LockRead
  <2>5. CASE LockTryRead(t)  BY <2>5, <1>6 DEF LockTryRead
  <2>6. CASE LockReadRecursive(t)
    BY <2>6, <1>1, <1>3 DEF LockReadRecursive, TypeOK
  <2>7. CASE LockReadToWrite(t)
    <3>1. CASE ClaimUpgrade(t, "read_to_write")
      BY <2>7, <3>1, <1>7 DEF LockReadToWrite
    <3>2. CASE LoseUpgrade(t)  BY <3>2, <1>2 DEF LoseUpgrade
    <3> QED  BY <2>7, <3>1, <3>2 DEF LockReadToWrite
  <2>8. CASE LockTryReadToWrite(t)  BY <2>8, <1>7 DEF LockTryReadToWrite
  <2>9. CASE UpgradeRecursive(t)
    <3> SUFFICES ASSUME NEW u \in asleep'
                 PROVE  waiting' /\ at'[u] \in Waits /\ Blocked(at[u])'
      BY DEF SleepersAreWoken
    <3>1. thread = t /\ UNCHANGED <<want_write, want_upgrade, waiting, asleep, at>>
      BY <2>9 DEF UpgradeRecursive
    <3>2. waiting /\ at[u] \in Waits /\ Blocked(at[u]) /\ u \in Threads
      BY <1>1, <3>1 DEF SleepersAreWoken, TypeOK
    <3>3. at[u] \notin {"drain"} \union Upgrading
      BY <3>1, <3>2, RecursiveOwner
    <3> QED  BY <3>1, <3>2, <3>3 DEF Blocked
  <2>10. CASE LockWriteToRead(t)  BY <2>10, <1>2 DEF LockWriteToRead
  <2>11. CASE LockDone(t)  BY <2>11, <1>2 DEF LockDone
  <2>12. CASE LockSetRecursive(t)  BY <2>12, <1>3 DEF LockSetRecursive
  <2>13. CASE LockClearRecursive(t)  BY <2>13, <1>3 DEF LockClearRecursive
  <2>14. CASE Sleep(t)
    <3> SUFFICES ASSUME NEW u \in asleep'
                 PROVE  waiting' /\ at'[u] \in Waits /\ Blocked(at[u])'
      BY DEF SleepersAreWoken
    <3>1. /\ waiting' = TRUE /\ asleep' = asleep \union {t}
          /\ at[t] \in Waits /\ Blocked(at[t])
          /\ UNCHANGED <<want_write, want_upgrade, read_count, at>>
      BY <2>14 DEF Sleep
    <3>2. at[u] \in Waits /\ Blocked(at[u])
      BY <1>1, <3>1 DEF SleepersAreWoken
    <3> QED  BY <3>1, <3>2 DEF Blocked
  <2>15. CASE ClearWait(t)  BY <2>15, <1>3 DEF ClearWait
  <2>16. CASE LockWriteAgain(t)  BY <2>16, <1>5 DEF LockWriteAgain, Running
  <2>17. CASE LockWriteDrained(t)
    BY <2>17, <1>3, <1>4 DEF LockWriteDrained, Running
  <2>18. CASE LockReadAgain(t)  BY <2>18, <1>6 DEF LockReadAgain, Running
  <2>19. CASE UpgradeDrained(t)
    BY <2>19, <1>3, <1>4 DEF UpgradeDrained, Running
  <2> QED
    BY <1>9, <2>1, <2>2, <2>3, <2>4, <2>5, <2>6, <2>7, <2>8, <2>9, <2>10,
       <2>11, <2>12, <2>13, <2>14, <2>15, <2>16, <2>17, <2>18, <2>19
       DEF Step, Progress
<1> QED  BY <1>8, <1>9 DEF Next

------------------------------------------------------------------------------
(* The invariants *)

LEMMA InvInit == Init => IInv
<1> SUFFICES ASSUME Init PROVE IInv
  OBVIOUS
<1> USE PlaceSets
<1>1. TypeOK  BY TypeInit
<1>2. \A t \in Threads : at[t] = "idle"  BY DEF Init
<1>3. WriterExcludesAll  BY <1>2 DEF WriterExcludesAll
<1>4. WriteBitCounts /\ UpgradeBitCounts
  BY <1>2 DEF Init, WriteBitCounts, UpgradeBitCounts
<1>5. ReadCountCounts
  BY <1>1, <1>2, ReadersCounted DEF Init, ReadCountCounts
<1>6. RecursionIsCounted
  BY SMT DEF Init, RecursionIsCounted
<1>7. SleepersAreWoken  BY DEF Init, SleepersAreWoken
<1> QED  BY <1>1, <1>3, <1>4, <1>5, <1>6, <1>7 DEF IInv, FieldsCountHolders

LEMMA InvNext == IInv /\ [Next]_vars => IInv'
<1> SUFFICES ASSUME IInv, [Next]_vars PROVE IInv'
  OBVIOUS
<1>1. TypeOK'  BY TypeNext DEF IInv
<1> QED
  BY <1>1, ExclusionNext, FieldsNext, RecursionNext, SleepersNext DEF IInv

\* All the invariants together, as the inductive invariant of the lock.
THEOREM Invariant == Spec => []IInv
BY InvInit, InvNext, PTL DEF Spec

\* A writer has the lock to itself, also against a thread that is waiting to
\* be upgraded.
THEOREM Exclusion == Spec => []WriterExcludesAll
BY Invariant, PTL DEF IInv

\* The fields of the lock have their types and count its holders, a recursive
\* owner's holds among them.
THEOREM Accounting == Spec => []CountsAreRight
<1>1. IInv => CountsAreRight
  BY DEF IInv, CountsAreRight
<1> QED
  BY <1>1, Invariant, PTL

\* No thread sleeps on the lock without a reason and a wakeup to come.
THEOREM NoLostWakeup == Spec => []SleepersAreWoken
BY Invariant, PTL DEF IInv

\* No reader that asks for an upgrade panics.
THEOREM UpgradeDoesNotPanic == Spec => []UpgradeHasReadLock
<1>1. IInv => UpgradeHasReadLock
  <2> SUFFICES ASSUME IInv, NEW t \in Threads, at[t] = "reading"
               PROVE  read_count # 0
    BY DEF UpgradeHasReadLock, Readers
  <2>1. thread # t
    BY RecursiveOwner
  <2> QED  BY <2>1, PlainHolder
<1> QED  BY <1>1, Invariant, PTL

------------------------------------------------------------------------------
(* Implementation of the abstract lock *)

LEMMA AbstractInit == Init => Abstract!RWInit
BY PlaceSets DEF Init, Abstract!RWInit, held

\* The mapping of a step that takes one thread from place to place.
LEMMA HeldStep ==
    ASSUME TypeOK, NEW t \in Threads, NEW place, Goto(t, place)
    PROVE  held' = [held EXCEPT ![t] =
                       IF place \in Writes THEN "write"
                       ELSE IF place \in Upgrading \union {"reading"} THEN "read"
                       ELSE "none"]
BY DEF TypeOK, Goto, held

\* Every step of lock.c is a step of RWLock or leaves alone who holds what.
LEMMA AbstractNext == IInv /\ IInv' /\ [Next]_vars => [Abstract!RWNext]_held
<1> SUFFICES ASSUME IInv, IInv', [Next]_vars PROVE [Abstract!RWNext]_held
  OBVIOUS
<1> USE PlaceSets DEF fields, owner, Goto
<1>1. TypeOK /\ WriterExcludesAll /\ WriterExcludesAll'  BY DEF IInv
<1>2. ASSUME UNCHANGED at PROVE UNCHANGED held  BY <1>2 DEF held
\* A thread enters the lock for reading, or for writing.
<1>3. ASSUME NEW t \in Threads, Goto(t, "reading"), at[t] \in {"idle", "lock_read"}
      PROVE  Abstract!AcquireRead(t)
  <2>1. \A u \in Threads : at[u] \notin Writes
    BY <1>1, <1>3 DEF WriterExcludesAll, TypeOK
  <2> QED
    BY <1>1, <1>3, <2>1, HeldStep DEF Abstract!AcquireRead, Abstract!NoWriter, held
<1>4. ASSUME NEW t \in Threads, NEW place \in Writes, Goto(t, place)
      PROVE  \A u \in Threads \ {t} : held[u] = "none"
  BY <1>1, <1>4 DEF WriterExcludesAll, TypeOK, held
<1>5. ASSUME NEW t \in Threads, NEW place \in Writes, Goto(t, place),
             at[t] \in {"idle", "lock_write", "drain"}
      PROVE  Abstract!AcquireWrite(t)
  BY <1>1, <1>4, <1>5, HeldStep DEF Abstract!AcquireWrite, Abstract!Alone, held
<1>6. ASSUME NEW t \in Threads, NEW place \in Writes, Goto(t, place),
             at[t] \in Upgrading \union {"reading"}
      PROVE  Abstract!Upgrade(t)
  BY <1>1, <1>4, <1>6, HeldStep DEF Abstract!Upgrade, Abstract!Alone, held
<1>7. ASSUME NEW t \in Threads, Goto(t, "idle"), at[t] \in Writes \union {"reading"}
      PROVE  Abstract!Release(t)
  BY <1>1, <1>7, HeldStep DEF Abstract!Release, held
<1>8. ASSUME NEW t \in Threads, Goto(t, "reading"), at[t] \in Writes
      PROVE  Abstract!Downgrade(t)
  BY <1>1, <1>8, HeldStep DEF Abstract!Downgrade, held
\* Steps into or along a wait.
<1>9. ASSUME NEW t \in Threads, NEW place, Goto(t, place),
             \/ /\ at[t] \in {"idle", "lock_write", "lock_read", "drain"}
                /\ place \in {"lock_write", "lock_read", "drain"}
             \/ at[t] = "reading" /\ place \in Upgrading
      PROVE  UNCHANGED held
  BY <1>1, <1>9, HeldStep DEF held
<1>10. ASSUME NEW t \in Threads, TakeWantWrite(t), at[t] \in {"idle", "lock_write"}
       PROVE  [Abstract!RWNext]_held
  <2>1. Goto(t, "drain") \/ Goto(t, "writing")  BY <1>10 DEF TakeWantWrite
  <2> QED  BY <1>10, <2>1, <1>5, <1>9 DEF Abstract!RWNext
<1>11. ASSUME NEW t \in Threads, NEW place \in Upgrading,
              ClaimUpgrade(t, place), at[t] = "reading"
       PROVE  [Abstract!RWNext]_held
  <2>1. Goto(t, "upgraded") \/ Goto(t, place)  BY <1>11 DEF ClaimUpgrade
  <2> QED  BY <1>11, <2>1, <1>6, <1>9 DEF Abstract!RWNext
<1>12. CASE UNCHANGED vars  BY <1>2, <1>12 DEF vars
<1>13. ASSUME NEW t \in Threads, Step(t) PROVE [Abstract!RWNext]_held
  <2>1. CASE LockWrite(t)  BY <2>1, <1>9, <1>10 DEF LockWrite
  <2>2. CASE LockTryWrite(t)
    BY <2>2, <1>5 DEF LockTryWrite, Abstract!RWNext
  <2>3. CASE LockWriteRecursive(t)  BY <2>3, <1>2 DEF LockWriteRecursive
  <2>4. CASE LockRead(t)
    BY <2>4, <1>3, <1>9 DEF LockRead, AcceptReader, Abstract!RWNext
  <2>5. CASE LockTryRead(t)
    BY <2>5, <1>3 DEF LockTryRead, AcceptReader, Abstract!RWNext
  <2>6. CASE LockReadRecursive(t)  BY <2>6, <1>2 DEF LockReadRecursive
  <2>7. CASE LockReadToWrite(t)
    BY <2>7, <1>7, <1>11 DEF LockReadToWrite, LoseUpgrade, Abstract!RWNext
  <2>8. CASE LockTryReadToWrite(t)  BY <2>8, <1>11 DEF LockTryReadToWrite
  <2>9. CASE UpgradeRecursive(t)  BY <2>9, <1>2 DEF UpgradeRecursive
  <2>10. CASE LockWriteToRead(t)
    BY <2>10, <1>2, <1>8 DEF LockWriteToRead, Abstract!RWNext
  <2>11. CASE LockDone(t)
    BY <2>11, <1>2, <1>7 DEF LockDone, GiveUpHold, Abstract!RWNext
  <2>12. CASE LockSetRecursive(t)  BY <2>12, <1>2 DEF LockSetRecursive
  <2>13. CASE LockClearRecursive(t)  BY <2>13, <1>2 DEF LockClearRecursive
  <2>14. CASE Sleep(t)  BY <2>14, <1>2 DEF Sleep
  <2>15. CASE ClearWait(t)  BY <2>15, <1>2 DEF ClearWait
  <2>16. CASE LockWriteAgain(t)
    BY <2>16, <1>10 DEF LockWriteAgain, Running
  <2>17. CASE LockWriteDrained(t)
    BY <2>17, <1>5 DEF LockWriteDrained, Running, Abstract!RWNext
  <2>18. CASE LockReadAgain(t)
    BY <2>18, <1>3 DEF LockReadAgain, Running, AcceptReader, Abstract!RWNext
  <2>19. CASE UpgradeDrained(t)
    BY <2>19, <1>6 DEF UpgradeDrained, Running, Abstract!RWNext
  <2> QED
    BY <1>13, <2>1, <2>2, <2>3, <2>4, <2>5, <2>6, <2>7, <2>8, <2>9, <2>10,
       <2>11, <2>12, <2>13, <2>14, <2>15, <2>16, <2>17, <2>18, <2>19
       DEF Step, Progress
<1> QED  BY <1>12, <1>13 DEF Next

\* lock.c implements the abstract lock, whose upgrades are one step.
THEOREM Implementation == Spec => ImplementsRWLock
<1>1. IInv /\ IInv' /\ [Next]_vars => [Abstract!RWNext]_held
  BY AbstractNext
<1> QED
  BY <1>1, AbstractInit, Invariant, PTL
  DEF Spec, ImplementsRWLock, Abstract!RWSpec
=============================================================================
