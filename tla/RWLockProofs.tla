---------------------------- MODULE RWLockProofs -----------------------------
(***************************************************************************)
(* Proofs about RWLock for any finite set of threads, spinning or          *)
(* sleeping.  The invariant is the conjunction of what the runs check; the *)
(* part that makes MutualExclusion inductive is ClaimsAreExclusive.        *)
(***************************************************************************)
EXTENDS RWLock, FiniteSetTheorems, TLAPS

\* A set of threads counted: what read_count is kept equal to.
LEMMA ThreadsCounted ==
  ASSUME NEW S \in SUBSET Threads
  PROVE  /\ IsFiniteSet(S)
         /\ Cardinality(S) \in Nat
         /\ Cardinality(S) <= Cardinality(Threads)
         /\ Cardinality(S) < ReadModulus
         /\ Cardinality(S) = 0 <=> S = {}
<1>1. IsFiniteSet(Threads)
  BY RWLockAssumption
<1>2. IsFiniteSet(S) /\ Cardinality(S) <= Cardinality(Threads)
  BY <1>1, FS_Subset
<1>3. Cardinality(S) \in Nat /\ Cardinality(Threads) \in Nat
  BY <1>1, <1>2, FS_CardinalityType
<1>4. Cardinality(S) = 0 <=> S = {}
  BY <1>2, FS_EmptySet
<1> QED
  BY <1>2, <1>3, <1>4, RWLockAssumption

LEMMA CountOneMore ==
  ASSUME NEW S \in SUBSET Threads, NEW t \in Threads, t \notin S
  PROVE  /\ Cardinality(S \cup {t}) = Cardinality(S) + 1
         /\ Cardinality(S) + 1 < ReadModulus
<1>1. Cardinality(S \cup {t}) = Cardinality(S) + 1
  BY ThreadsCounted, FS_AddElement
<1>2. Cardinality(S \cup {t}) < ReadModulus
  BY ThreadsCounted
<1> QED
  BY <1>1, <1>2

LEMMA CountOneLess ==
  ASSUME NEW S \in SUBSET Threads, NEW t \in S
  PROVE  /\ Cardinality(S \ {t}) = Cardinality(S) - 1
         /\ Cardinality(S) > 0
<1>1. Cardinality(S \ {t}) = Cardinality(S) - 1
  BY ThreadsCounted, FS_RemoveElement
<1>2. Cardinality(S) \in Nat /\ Cardinality(S) # 0
  BY ThreadsCounted
<1> QED
  BY <1>1, <1>2

------------------------------------------------------------------------------
\* The inductive invariant.
Inv == TypeOK /\ FieldsTellHolders /\ ClaimsAreExclusive

LEMMA InvInit == Init => Inv
<1> SUFFICES ASSUME Init PROVE Inv
  OBVIOUS
<1>1. Readers = {}
  BY DEF Init, Readers
<1>2. Cardinality(Readers) = 0 /\ 0 < ReadModulus
  BY <1>1, FS_EmptySet, ThreadsCounted
<1>3. TypeOK
  <2>1. readCount \in 0 .. ReadModulus - 1
    BY <1>2, RWLockAssumption DEF Init
  <2>2. wantWrite \in BOOLEAN /\ wantUpgrade \in BOOLEAN /\ waiting \in BOOLEAN
    BY Zenon DEF Init
  <2>3. pc \in [Threads -> PCs] /\ asleep \subseteq Threads /\ wakers \subseteq Threads
    BY DEF Init, PCs
  <2> QED
    BY <2>1, <2>2, <2>3 DEF TypeOK
<1>4. FieldsTellHolders
  BY <1>2 DEF Init, FieldsTellHolders
<1>5. ClaimsAreExclusive
  BY DEF Init, ClaimsAreExclusive
<1> QED
  BY <1>3, <1>4, <1>5 DEF Inv

\* The fields under the invariant: read_count counts the readers, and neither
\* an increment for a new reader nor a decrement for one that leaves wraps.
LEMMA ReadCountSteps ==
  ASSUME Inv, NEW t \in Threads
  PROVE  /\ Readers \subseteq Threads
         /\ readCount = Cardinality(Readers)
         /\ readCount \in Nat
         /\ readCount = 0 <=> Readers = {}
         /\ t \notin Readers =>
              /\ Wrap(readCount + 1) = Cardinality(Readers \cup {t})
              /\ Wrap(readCount + 1) \in 0 .. ReadModulus - 1
              /\ Wrap(readCount + 1) # 0
         /\ t \in Readers =>
              /\ readCount # 0
              /\ Wrap(readCount - 1) = readCount - 1
              /\ readCount - 1 = Cardinality(Readers \ {t})
              /\ readCount - 1 \in 0 .. ReadModulus - 1
<1>1. Readers \subseteq Threads /\ readCount = Cardinality(Readers)
  BY DEF Inv, FieldsTellHolders, Readers
<1>2. readCount \in Nat /\ readCount < ReadModulus
      /\ (readCount = 0 <=> Readers = {})
  BY <1>1, ThreadsCounted
<1>3. ASSUME t \notin Readers
      PROVE  /\ Wrap(readCount + 1) = Cardinality(Readers \cup {t})
             /\ Wrap(readCount + 1) \in 0 .. ReadModulus - 1
             /\ Wrap(readCount + 1) # 0
  <2>1. /\ Cardinality(Readers \cup {t}) = readCount + 1
        /\ readCount + 1 < ReadModulus
    BY <1>1, <1>3, CountOneMore
  <2> QED
    BY <1>2, <2>1, RWLockAssumption DEF Wrap
<1>4. ASSUME t \in Readers
      PROVE  /\ readCount # 0
             /\ Wrap(readCount - 1) = readCount - 1
             /\ readCount - 1 = Cardinality(Readers \ {t})
             /\ readCount - 1 \in 0 .. ReadModulus - 1
  <2>1. Cardinality(Readers \ {t}) = readCount - 1 /\ readCount > 0
    BY <1>1, <1>4, CountOneLess
  <2> QED
    BY <1>2, <2>1, RWLockAssumption DEF Wrap
<1> QED
  BY <1>1, <1>2, <1>3, <1>4

\* Sleeping and waking do not touch the claims on the lock.
LEMMA SleepKeepsInv ==
  ASSUME Inv, NEW t \in Threads, Sleep(t) \/ ThreadWakeup(t) \/ SleepAborted(t)
  PROVE  Inv'
<1>1. UNCHANGED <<readCount, wantWrite, wantUpgrade, pc>>
  BY DEF Sleep, ThreadWakeup, SleepAborted
<1>2. TypeOK'
  <2>1. waiting' \in BOOLEAN
    BY Zenon DEF Inv, TypeOK, Sleep, ThreadWakeup, SleepAborted
  <2>2. asleep' \subseteq Threads /\ wakers' \subseteq Threads
    BY DEF Inv, TypeOK, Sleep, ThreadWakeup, SleepAborted
  <2> QED
    BY <1>1, <2>1, <2>2 DEF Inv, TypeOK
<1>3. FieldsTellHolders'
  BY <1>1 DEF Inv, FieldsTellHolders, Readers
<1>4. ClaimsAreExclusive'
  BY <1>1 DEF Inv, ClaimsAreExclusive
<1> QED
  BY <1>2, <1>3, <1>4 DEF Inv

\* The booleans stay booleans, and only threads sleep or wake others.
LEMMA FlagTypes ==
  ASSUME Inv, Next
  PROVE  /\ wantWrite' \in BOOLEAN /\ wantUpgrade' \in BOOLEAN
         /\ waiting' \in BOOLEAN
         /\ asleep' \subseteq Threads /\ wakers' \subseteq Threads
<1> PICK t \in Threads :
      \/ Advance(t) \/ SleepAborted(t) \/ LockWrite(t) \/ LockRead(t)
      \/ LockDone(t) \/ LockReadToWrite(t) \/ LockWriteToRead(t)
  BY DEF Next
<1>1. wantWrite' \in BOOLEAN /\ wantUpgrade' \in BOOLEAN /\ waiting' \in BOOLEAN
  BY Zenon DEF Inv, TypeOK, Advance, Sleep, ThreadWakeup, TakeWantWrite, Drained,
     TakeRead, Upgraded, SleepAborted, LockWrite, LockRead, LockDone,
     LockReadToWrite, LockWriteToRead, WakeupIf
<1>2. asleep' \subseteq Threads /\ wakers' \subseteq Threads
  BY DEF Inv, TypeOK, Advance, Sleep, ThreadWakeup, TakeWantWrite, Drained,
     TakeRead, Upgraded, SleepAborted, LockWrite, LockRead, LockDone,
     LockReadToWrite, LockWriteToRead, WakeupIf
<1> QED
  BY <1>1, <1>2

\* A thread moves between places outside the lock and its waiting loops: who
\* reads, and the fields, stay as they are.
LEMMA WaitingKeepsInv ==
  ASSUME Inv, Next, NEW t \in Threads,
         LockWrite(t) \/ LockRead(t) \/ Drained(t) \/ Upgraded(t)
  PROVE  Inv'
<1>1. /\ UNCHANGED <<readCount, wantWrite, wantUpgrade>>
      /\ pc' \in [Threads -> PCs]
      /\ Readers' = Readers
  BY DEF LockWrite, LockRead, Drained, Upgraded, At, GoTo, Inv, TypeOK, PCs,
         Readers
<1>2. TypeOK'
  BY <1>1, FlagTypes DEF Inv, TypeOK
<1>3. FieldsTellHolders'
  BY <1>1 DEF Inv, TypeOK, FieldsTellHolders, LockWrite, LockRead, Drained,
              Upgraded, At, GoTo
<1>4. ClaimsAreExclusive'
  BY <1>1 DEF Inv, TypeOK, ClaimsAreExclusive, LockWrite, LockRead, Drained,
              Upgraded, At, GoTo, Contended
<1> QED
  BY <1>2, <1>3, <1>4 DEF Inv

LEMMA TakeWantWriteKeepsInv ==
  ASSUME Inv, Next, NEW t \in Threads, TakeWantWrite(t)
  PROVE  Inv'
<1>1. /\ UNCHANGED <<readCount, wantUpgrade>>
      /\ pc' \in [Threads -> PCs]
      /\ Readers' = Readers
  BY DEF TakeWantWrite, At, GoTo, Inv, TypeOK, PCs, Readers
<1>2. TypeOK'
  BY <1>1, FlagTypes DEF Inv, TypeOK
<1>3. FieldsTellHolders'
  BY <1>1 DEF Inv, TypeOK, FieldsTellHolders, TakeWantWrite, At, GoTo
<1>4. ClaimsAreExclusive'
  BY <1>1 DEF Inv, TypeOK, FieldsTellHolders, ClaimsAreExclusive,
              TakeWantWrite, At, GoTo
<1> QED
  BY <1>2, <1>3, <1>4 DEF Inv

LEMMA TakeReadKeepsInv ==
  ASSUME Inv, Next, NEW t \in Threads, TakeRead(t)
  PROVE  Inv'
<1>1. /\ UNCHANGED <<wantWrite, wantUpgrade>>
      /\ pc' \in [Threads -> PCs]
      /\ t \notin Readers
      /\ Readers' = Readers \cup {t}
  BY DEF TakeRead, At, GoTo, Inv, TypeOK, PCs, Readers
<1>2. /\ readCount' = Cardinality(Readers')
      /\ readCount' \in 0 .. ReadModulus - 1
  BY <1>1, ReadCountSteps DEF TakeRead
<1>3. TypeOK'
  BY <1>1, <1>2, FlagTypes DEF Inv, TypeOK
<1>4. FieldsTellHolders'
  BY <1>1, <1>2 DEF Inv, TypeOK, FieldsTellHolders, TakeRead, At, GoTo
<1>5. \A u \in Threads : pc[u] \notin {"writing", "upgraded"}
  BY DEF Inv, TypeOK, FieldsTellHolders, ClaimsAreExclusive, TakeRead, At,
         Contended
<1>6. ClaimsAreExclusive'
  BY <1>1, <1>5 DEF Inv, TypeOK, ClaimsAreExclusive, TakeRead, At, GoTo
<1> QED
  BY <1>3, <1>4, <1>6 DEF Inv

LEMMA LockDoneKeepsInv ==
  ASSUME Inv, Next, NEW t \in Threads, LockDone(t)
  PROVE  Inv'
<1>1. pc' \in [Threads -> PCs] /\ Readers' = Readers \ {t}
  BY DEF LockDone, At, GoTo, Inv, TypeOK, PCs, Readers
<1>2. CASE t \in Readers
  <2>1. /\ readCount # 0
        /\ readCount' = Cardinality(Readers')
        /\ readCount' \in 0 .. ReadModulus - 1
    BY <1>1, <1>2, ReadCountSteps DEF LockDone
  <2>2. TypeOK'
    BY <1>1, <2>1, FlagTypes DEF Inv, TypeOK
  <2>3. FieldsTellHolders'
    BY <1>1, <1>2, <2>1 DEF Inv, TypeOK, FieldsTellHolders, LockDone, At, GoTo,
                            Readers
  <2>4. ClaimsAreExclusive'
    BY <1>2, <2>1 DEF Inv, TypeOK, ClaimsAreExclusive, LockDone, At, GoTo
  <2> QED
    BY <2>2, <2>3, <2>4 DEF Inv
<1>3. CASE t \notin Readers
  <2>1. pc[t] \in {"writing", "upgraded"} /\ readCount = 0
    BY <1>3 DEF LockDone, At, Readers, Inv, ClaimsAreExclusive
  <2>2. Readers' = Readers /\ readCount' = readCount
    BY <1>1, <1>3, <2>1 DEF LockDone
  <2>3. TypeOK'
    BY <1>1, <2>2, FlagTypes DEF Inv, TypeOK
  <2>4. FieldsTellHolders'
    BY <2>1, <2>2 DEF Inv, TypeOK, FieldsTellHolders, ClaimsAreExclusive,
                      LockDone, At, GoTo
  <2>5. ClaimsAreExclusive'
    BY <2>1, <2>2 DEF Inv, TypeOK, ClaimsAreExclusive, LockDone, At, GoTo
  <2> QED
    BY <2>3, <2>4, <2>5 DEF Inv
<1> QED
  BY <1>2, <1>3

LEMMA LockReadToWriteKeepsInv ==
  ASSUME Inv, Next, NEW t \in Threads, LockReadToWrite(t)
  PROVE  Inv'
<1>1. /\ pc' \in [Threads -> PCs]
      /\ t \in Readers
      /\ Readers' = Readers \ {t}
      /\ UNCHANGED wantWrite
  BY DEF LockReadToWrite, At, GoTo, Inv, TypeOK, PCs, Readers
<1>2. /\ readCount # 0
      /\ readCount' = Cardinality(Readers')
      /\ readCount' \in 0 .. ReadModulus - 1
  BY <1>1, ReadCountSteps DEF LockReadToWrite
<1>3. TypeOK'
  BY <1>1, <1>2, FlagTypes DEF Inv, TypeOK
<1>4. FieldsTellHolders'
  BY <1>1, <1>2 DEF Inv, TypeOK, FieldsTellHolders, LockReadToWrite, At, GoTo
<1>5. ClaimsAreExclusive'
  BY <1>1, <1>2 DEF Inv, TypeOK, FieldsTellHolders, ClaimsAreExclusive,
                    LockReadToWrite, At, GoTo
<1> QED
  BY <1>3, <1>4, <1>5 DEF Inv

LEMMA LockWriteToReadKeepsInv ==
  ASSUME Inv, Next, NEW t \in Threads, LockWriteToRead(t)
  PROVE  Inv'
<1>1. /\ pc' \in [Threads -> PCs]
      /\ t \notin Readers
      /\ Readers' = Readers \cup {t}
  BY DEF LockWriteToRead, At, GoTo, Inv, TypeOK, PCs, Readers
<1>2. /\ readCount' = Cardinality(Readers')
      /\ readCount' \in 0 .. ReadModulus - 1
  BY <1>1, ReadCountSteps DEF LockWriteToRead
<1>3. TypeOK'
  BY <1>1, <1>2, FlagTypes DEF Inv, TypeOK
<1>4. FieldsTellHolders'
  BY <1>1, <1>2 DEF Inv, TypeOK, FieldsTellHolders, ClaimsAreExclusive,
                    LockWriteToRead, At, GoTo
<1>5. \A u \in Threads \ {t} : pc[u] \notin {"writing", "upgraded"}
  BY DEF Inv, TypeOK, FieldsTellHolders, ClaimsAreExclusive, LockWriteToRead, At
<1>6. ClaimsAreExclusive'
  BY <1>1, <1>5 DEF Inv, TypeOK, ClaimsAreExclusive, LockWriteToRead, At, GoTo
<1> QED
  BY <1>3, <1>4, <1>6 DEF Inv

LEMMA InvNext == Inv /\ [Next]_vars => Inv'
<1> SUFFICES ASSUME Inv, [Next]_vars PROVE Inv'
  OBVIOUS
<1>1. CASE UNCHANGED vars
  BY <1>1 DEF vars, Inv, TypeOK, FieldsTellHolders, ClaimsAreExclusive, Readers
<1>2. CASE Next
  BY <1>2, SleepKeepsInv, WaitingKeepsInv, TakeWantWriteKeepsInv,
     TakeReadKeepsInv, LockDoneKeepsInv, LockReadToWriteKeepsInv,
     LockWriteToReadKeepsInv DEF Next, Advance
<1> QED
  BY <1>1, <1>2

\* Every reachable state of a lock satisfies the invariant.
THEOREM Invariance == Spec => []Inv
BY InvInit, InvNext, PTL DEF Spec

\* The fields of lock_t keep their types: read_count does not run over.
THEOREM TypeCorrect == Spec => []TypeOK
<1>1. Inv => TypeOK
  BY DEF Inv
<1> QED
  BY <1>1, Invariance, PTL

\* The fields of lock_t tell who holds and who claims the lock, so that
\* lock_done and lock_write_to_read, which take the caller's mode from them,
\* release what the caller holds.
THEOREM FieldsCorrect == Spec => []FieldsTellHolders
<1>1. Inv => FieldsTellHolders
  BY DEF Inv
<1> QED
  BY <1>1, Invariance, PTL

\* At most one thread writes, and none reads then.
THEOREM ExclusionCorrect == Spec => []MutualExclusion
<1>1. Inv => MutualExclusion
  <2> SUFFICES ASSUME Inv PROVE MutualExclusion
    OBVIOUS
  <2>1. ASSUME NEW t \in Writers PROVE Readers = {}
    <3>1. readCount = 0
      BY <2>1 DEF Writers, Inv, ClaimsAreExclusive
    <3> QED
      BY <2>1, <3>1, ReadCountSteps DEF Writers
  <2>2. \A t, u \in Writers : t = u
    BY DEF Writers, Inv, TypeOK, FieldsTellHolders, ClaimsAreExclusive
  <2> QED
    BY <2>1, <2>2 DEF MutualExclusion
<1> QED
  BY <1>1, Invariance, PTL

------------------------------------------------------------------------------
\* A step that ends with WakeupIf passes the flag on to the waker.
LEMMA WakeupIfCovers ==
  ASSUME NEW t \in Threads, NEW when \in BOOLEAN, WakeupIf(t, when),
         waiting \/ wakers # {}
  PROVE  /\ waiting' \/ wakers' # {}
         /\ when => wakers' # {}
         /\ wakers # {} => wakers' # {}
BY DEF WakeupIf

\* Leaving the lock ends the wait of no sleeper without a wakeup.
LEMMA ReleaseKeepsNoLostWakeup ==
  ASSUME Inv, NoLostWakeup, NEW t \in Threads,
         LockDone(t) \/ LockReadToWrite(t) \/ LockWriteToRead(t)
  PROVE  NoLostWakeup'
<1>1. asleep' = asleep /\ t \notin asleep
  BY DEF LockDone, LockReadToWrite, LockWriteToRead, At, Awake
<1>2. \A u \in asleep : pc'[u] = pc[u]
  BY <1>1 DEF LockDone, LockReadToWrite, LockWriteToRead, GoTo, Inv, TypeOK
<1>3. wakers \subseteq wakers'
  BY DEF LockDone, LockReadToWrite, LockWriteToRead, WakeupIf
<1>4. asleep # {} => waiting' \/ wakers' # {}
  BY <1>1 DEF LockDone, LockReadToWrite, LockWriteToRead, WakeupIf, NoLostWakeup
<1>5. ASSUME NEW u \in asleep, ~Contended(u)', Contended(u)
      PROVE  wakers' # {}
  <2>0. waiting \/ wakers # {}
    BY <1>5 DEF NoLostWakeup
  <2>1. CASE LockDone(t)
    <3>1. readCount' = 0
      BY <1>2, <1>5, <2>1, ReadCountSteps DEF LockDone, Contended
    <3> QED
      BY <2>0, <2>1, <3>1 DEF LockDone, WakeupIf
  <2>2. CASE LockReadToWrite(t)
    <3>1. /\ readCount # 0 /\ readCount' = readCount - 1 /\ readCount \in Nat
          /\ wantUpgrade' /\ wantWrite' = wantWrite
      <4>1. t \in Readers
        BY <2>2 DEF LockReadToWrite, At, Readers
      <4> QED
        BY <2>2, <4>1, ReadCountSteps DEF LockReadToWrite
    <3>2. pc[u] = "upgrade" /\ readCount' = 0
      BY <1>2, <1>5, <3>1 DEF Contended
    <3>3. wantUpgrade
      BY <3>2 DEF Inv, TypeOK, FieldsTellHolders
    <3> QED
      BY <2>0, <2>2, <3>2, <3>3 DEF LockReadToWrite, WakeupIf
  <2>3. CASE LockWriteToRead(t)
    BY <2>0, <2>3 DEF LockWriteToRead, WakeupIf
  <2> QED
    BY <2>1, <2>2, <2>3
<1>6. ASSUME NEW u \in asleep, ~Contended(u) PROVE wakers' # {}
  BY <1>3, <1>6 DEF NoLostWakeup
<1> QED
  BY <1>1, <1>4, <1>5, <1>6 DEF NoLostWakeup

\* Taking the lock, or a claim to it, ends nobody's wait.
LEMMA TakingKeepsNoLostWakeup ==
  ASSUME Inv, NoLostWakeup, NEW t \in Threads,
         \/ LockWrite(t) \/ LockRead(t) \/ TakeWantWrite(t) \/ Drained(t)
         \/ TakeRead(t) \/ Upgraded(t)
  PROVE  NoLostWakeup'
<1>1. UNCHANGED <<asleep, wakers, waiting, wantUpgrade>> /\ t \notin asleep
  BY DEF LockWrite, LockRead, TakeWantWrite, Drained, TakeRead, Upgraded, At,
         Awake
<1>2. \A u \in asleep : pc'[u] = pc[u]
  BY <1>1 DEF LockWrite, LockRead, TakeWantWrite, Drained, TakeRead, Upgraded,
              GoTo, Inv, TypeOK
<1>3. ASSUME NEW u \in asleep, Contended(u) PROVE Contended(u)'
  <2>1. CASE TakeRead(t)
    <3>1. t \notin Readers
      BY <2>1 DEF TakeRead, At, Readers
    <3>2. readCount' # 0 /\ wantWrite' = wantWrite
      BY <2>1, <3>1, ReadCountSteps DEF TakeRead
    <3>3. pc[u] # "read" \/ readCount # 0 \/ ~(wantWrite \/ wantUpgrade)
      BY <2>1 DEF TakeRead, At, Contended
    <3> QED
      BY <1>1, <1>2, <1>3, <3>2, <3>3 DEF Contended
  <2>2. CASE ~TakeRead(t)
    BY <1>1, <1>2, <1>3, <2>2 DEF LockWrite, LockRead, TakeWantWrite, Drained,
       Upgraded, Contended
  <2> QED
    BY <2>1, <2>2
<1> QED
  BY <1>1, <1>3 DEF NoLostWakeup

LEMMA SleepKeepsNoLostWakeup ==
  ASSUME NoLostWakeup, NEW t \in Threads,
         Sleep(t) \/ ThreadWakeup(t) \/ SleepAborted(t)
  PROVE  NoLostWakeup'
BY DEF NoLostWakeup, Sleep, ThreadWakeup, SleepAborted, Contended

\* In every reachable state, a sleeper whose wait is over is being woken.
THEOREM WakeupsCorrect == Spec => []NoLostWakeup
<1>1. Init => NoLostWakeup
  BY DEF Init, NoLostWakeup
<1>2. Inv /\ NoLostWakeup /\ [Next]_vars => NoLostWakeup'
  <2> SUFFICES ASSUME Inv, NoLostWakeup, [Next]_vars PROVE NoLostWakeup'
    OBVIOUS
  <2>1. CASE UNCHANGED vars
    BY <2>1 DEF vars, NoLostWakeup, Contended
  <2>2. CASE Next
    BY <2>2, SleepKeepsNoLostWakeup, TakingKeepsNoLostWakeup,
       ReleaseKeepsNoLostWakeup DEF Next, Advance
  <2> QED
    BY <2>1, <2>2
<1> QED
  BY <1>1, <1>2, Invariance, PTL DEF Spec

------------------------------------------------------------------------------
\* The refinement of ReadersWriterLock.
\* The mapping of one thread, without the CASE.
LEMMA HeldCases ==
  ASSUME NEW t \in Threads
  PROVE  /\ Held[t] = "read" <=> pc[t] = "reading"
         /\ Held[t] = "upgrade" <=> pc[t] = "upgrade"
         /\ Held[t] = "write" <=> pc[t] \in {"writing", "upgraded"}
         /\ Held[t] = "none" <=>
              pc[t] \notin {"reading", "upgrade", "writing", "upgraded"}
BY DEF Held

\* A step of pc[t] is a step of Held[t].
LEMMA HeldStep ==
  ASSUME TypeOK, NEW t \in Threads, NEW p \in PCs, GoTo(t, p)
  PROVE  Held' = [Held EXCEPT ![t] =
                    CASE p = "reading" -> "read"
                      [] p = "upgrade" -> "upgrade"
                      [] p \in {"writing", "upgraded"} -> "write"
                      [] OTHER -> "none"]
BY DEF Held, GoTo, TypeOK

\* One case per operation: each is a step of the abstract lock or a stutter.
LEMMA StepsImplement ==
  ASSUME Inv, Inv', NEW t \in Threads, Next
  PROVE
    /\ Sleep(t) \/ ThreadWakeup(t) \/ SleepAborted(t) \/ LockWrite(t)
         \/ LockRead(t) => UNCHANGED Held
    /\ TakeWantWrite(t) => UNCHANGED Held \/ RW!AcquireWrite(t)
    /\ Drained(t) => RW!AcquireWrite(t)
    /\ TakeRead(t) => RW!AcquireRead(t)
    /\ LockDone(t) => RW!Release(t)
    /\ LockReadToWrite(t) => RW!Upgrade(t)
    /\ Upgraded(t) => RW!Upgraded(t)
    /\ LockWriteToRead(t) => RW!Downgrade(t)
<1> USE DEF At
<1>0. TypeOK /\ FieldsTellHolders /\ ClaimsAreExclusive
  BY DEF Inv
<1>1. ASSUME Sleep(t) \/ ThreadWakeup(t) \/ SleepAborted(t)
      PROVE  UNCHANGED Held
  BY <1>1 DEF Held, Sleep, ThreadWakeup, SleepAborted
<1>2. ASSUME LockWrite(t) \/ LockRead(t) PROVE UNCHANGED Held
  <2>1. \E p \in {"want", "read"} : GoTo(t, p)
    BY <1>2 DEF LockWrite, LockRead
  <2>2. Held' = [Held EXCEPT ![t] = "none"] /\ Held[t] = "none"
    BY <1>0, <1>2, <2>1, HeldStep, HeldCases DEF LockWrite, LockRead, PCs
  <2> QED
    BY <2>2 DEF Held
<1>3. ASSUME NEW u \in Threads, u # t, readCount = 0, ~wantUpgrade,
             pc[t] \in {"want", "drain"},
             pc[t] = "want" => ~wantWrite
      PROVE  Held[u] \notin {"read", "upgrade", "write"}
  <2>1. pc[u] \notin {"reading", "upgrade", "upgraded", "writing"}
    <3>1. u \notin Readers
      BY <1>3, ReadCountSteps
    <3> QED
      BY <1>0, <1>3, <3>1 DEF FieldsTellHolders, ClaimsAreExclusive, Readers
  <2> QED
    BY <2>1, HeldCases
<1>4. ASSUME Drained(t) PROVE RW!AcquireWrite(t)
  <2>1. readCount = 0 /\ ~wantUpgrade /\ pc[t] = "drain"
    BY <1>0, <1>4 DEF Drained, Contended, TypeOK
  <2>2. Held' = [Held EXCEPT ![t] = "write"] /\ Held[t] = "none"
    BY <1>0, <1>4, <2>1, HeldStep, HeldCases DEF Drained, PCs
  <2> QED
    BY <1>3, <2>1, <2>2 DEF RW!AcquireWrite, RW!Nobody, RW!Become
<1>5. ASSUME TakeWantWrite(t) PROVE UNCHANGED Held \/ RW!AcquireWrite(t)
  <2>1. pc[t] = "want" /\ ~wantWrite
    BY <1>5 DEF TakeWantWrite
  <2>2. Held[t] = "none"
    BY <2>1, HeldCases
  <2>3. CASE readCount = 0 /\ ~wantUpgrade
    <3>1. Held' = [Held EXCEPT ![t] = "write"]
      BY <1>0, <1>5, <2>3, HeldStep DEF TakeWantWrite, PCs
    <3> QED
      BY <1>3, <2>1, <2>2, <2>3, <3>1 DEF RW!AcquireWrite, RW!Nobody, RW!Become
  <2>4. CASE ~(readCount = 0 /\ ~wantUpgrade)
    <3>1. Held' = [Held EXCEPT ![t] = "none"]
      BY <1>0, <1>5, <2>4, HeldStep DEF TakeWantWrite, PCs
    <3> QED
      BY <2>2, <3>1 DEF Held
  <2> QED
    BY <2>3, <2>4
<1>6. ASSUME TakeRead(t) PROVE RW!AcquireRead(t)
  <2>1. pc[t] = "read" /\ (readCount # 0 \/ ~(wantWrite \/ wantUpgrade))
    BY <1>6 DEF TakeRead, Contended
  <2>2. \A u \in Threads : pc[u] \notin {"writing", "upgraded"}
    BY <1>0, <2>1 DEF FieldsTellHolders, ClaimsAreExclusive
  <2>3. Held' = [Held EXCEPT ![t] = "read"] /\ Held[t] = "none"
    BY <1>0, <1>6, <2>1, HeldStep, HeldCases DEF TakeRead, PCs
  <2> QED
    BY <2>2, <2>3, HeldCases DEF RW!AcquireRead, RW!Nobody, RW!Become
<1>7. ASSUME LockDone(t) PROVE RW!Release(t)
  <2>1. Held' = [Held EXCEPT ![t] = "none"]
    BY <1>0, <1>7, HeldStep DEF LockDone, PCs
  <2>2. Held[t] = "read" \/ Held[t] = "write"
    BY <1>7, HeldCases DEF LockDone
  <2> QED
    BY <2>1, <2>2 DEF RW!Release, RW!Become
<1>8. ASSUME LockReadToWrite(t) PROVE RW!Upgrade(t)
  <2>1. pc[t] = "reading" /\ Held[t] = "read"
    BY <1>8, HeldCases DEF LockReadToWrite
  <2>2. CASE wantUpgrade
    <3>1. ~ RW!Nobody({"upgrade"})
      <4>1. PICK u \in Threads : pc[u] \in {"upgrade", "upgraded"}
        BY <1>0, <2>2 DEF FieldsTellHolders
      <4>2. pc[u] = "upgrade"
        BY <1>0, <2>1, <4>1, ReadCountSteps DEF ClaimsAreExclusive, Readers
      <4> QED
        BY <4>2, HeldCases DEF RW!Nobody
    <3>2. Held' = [Held EXCEPT ![t] = "none"]
      BY <1>0, <1>8, <2>2, HeldStep DEF LockReadToWrite, PCs
    <3> QED
      BY <2>1, <3>1, <3>2 DEF RW!Upgrade, RW!Become
  <2>3. CASE ~wantUpgrade
    <3>1. RW!Nobody({"upgrade"})
      BY <1>0, <2>3, HeldCases DEF RW!Nobody, FieldsTellHolders
    <3>2. CASE readCount' # 0
      <4>1. Held' = [Held EXCEPT ![t] = "upgrade"]
        BY <1>0, <1>8, <2>3, <3>2, HeldStep DEF LockReadToWrite, PCs
      <4> QED
        BY <2>1, <3>1, <4>1 DEF RW!Upgrade, RW!Become
    <3>3. CASE readCount' = 0
      <4>1. Held' = [Held EXCEPT ![t] = "write"]
        BY <1>0, <1>8, <2>3, <3>3, HeldStep DEF LockReadToWrite, PCs
      <4>2. Readers \ {t} = {}
        <5>1. Readers \ {t} \subseteq Threads /\ t \in Readers
          BY <2>1, ReadCountSteps DEF Readers
        <5>2. Cardinality(Readers \ {t}) = 0
          BY <1>8, <3>3, <5>1, ReadCountSteps DEF LockReadToWrite
        <5> QED
          BY <5>1, <5>2, ThreadsCounted
      <4>3. \A u \in Threads \ {t} : Held[u] # "read"
        BY <4>2, HeldCases DEF Readers
      <4> QED
        BY <2>1, <3>1, <4>1, <4>3 DEF RW!Upgrade, RW!Become
    <3> QED
      BY <3>2, <3>3
  <2> QED
    BY <2>2, <2>3
<1>9. ASSUME Upgraded(t) PROVE RW!Upgraded(t)
  <2>1. pc[t] = "upgrade" /\ readCount = 0
    BY <1>9 DEF Upgraded, Contended
  <2>2. RW!Nobody({"read"})
    BY <2>1, ReadCountSteps, HeldCases DEF RW!Nobody, Readers
  <2>3. Held' = [Held EXCEPT ![t] = "write"] /\ Held[t] = "upgrade"
    BY <1>0, <1>9, <2>1, HeldStep, HeldCases DEF Upgraded, PCs
  <2> QED
    BY <2>2, <2>3 DEF RW!Upgraded, RW!Become
<1>10. ASSUME LockWriteToRead(t) PROVE RW!Downgrade(t)
  <2>1. Held' = [Held EXCEPT ![t] = "read"]
    BY <1>0, <1>10, HeldStep DEF LockWriteToRead, PCs
  <2>2. Held[t] = "write"
    BY <1>10, HeldCases DEF LockWriteToRead
  <2> QED
    BY <2>1, <2>2 DEF RW!Downgrade, RW!Become
<1> QED
  BY <1>1, <1>2, <1>4, <1>5, <1>6, <1>7, <1>8, <1>9, <1>10

\* The complex lock implements the abstract one.
THEOREM Refinement == Spec => ImplementsReadersWriterLock
<1>1. Init => RW!Init
  BY HeldCases DEF Init, RW!Init, Held
<1>2. Inv /\ Inv' /\ [Next]_vars => [RW!Next]_Held
  <2> SUFFICES ASSUME Inv, Inv', [Next]_vars PROVE [RW!Next]_Held
    OBVIOUS
  <2>1. CASE UNCHANGED vars
    BY <2>1 DEF vars, Held
  <2>2. CASE Next
    <3> PICK t \in Threads :
          \/ Advance(t) \/ SleepAborted(t) \/ LockWrite(t) \/ LockRead(t)
          \/ LockDone(t) \/ LockReadToWrite(t) \/ LockWriteToRead(t)
      BY <2>2 DEF Next
    <3>1. \/ UNCHANGED Held
          \/ RW!AcquireRead(t) \/ RW!AcquireWrite(t) \/ RW!Release(t)
          \/ RW!Downgrade(t) \/ RW!Upgrade(t) \/ RW!Upgraded(t)
      BY <2>2, StepsImplement DEF Advance
    <3> QED
      BY <3>1 DEF RW!Next
  <2> QED
    BY <2>1, <2>2
<1> QED
  BY <1>1, <1>2, Invariance, PTL DEF Spec, RW!Spec, ImplementsReadersWriterLock
=============================================================================
