----------------------------- MODULE MutexProofs -----------------------------
(***************************************************************************)
(* Proofs about Mutex for any finite set of threads, aborted ones          *)
(* included.  Mutual exclusion needs nothing of waiters, so it holds even  *)
(* when waiters runs over; that no wakeup is lost needs waiters to stay    *)
(* within its 16 bits.                                                     *)
(***************************************************************************)
EXTENDS Mutex, FiniteSetTheorems, TLAPS

LEMMA WrapType ==
  ASSUME NEW n \in 0 .. WaitersModulus - 1
  PROVE  /\ Wrap(n + 1) \in 0 .. WaitersModulus - 1
         /\ Wrap(n - 1) \in 0 .. WaitersModulus - 1
BY MutexAssumption DEF Wrap

\* m->locked is set exactly while there is a holder, and sleepers are inside
\* mutex_lock.
Inv ==
  /\ TypeOK
  /\ MutualExclusion
  /\ \A t \in asleep : pc[t] = "lock"

LEMMA InvInit == Init => Inv
<1> SUFFICES ASSUME Init PROVE Inv
  OBVIOUS
<1>1. locked \in BOOLEAN
  BY Zenon DEF Init
<1>2. waiters \in 0 .. WaitersModulus - 1
  BY MutexAssumption DEF Init
<1>3. asleep \subseteq Threads /\ pc \in [Threads -> {"none", "lock", "held"}]
  BY DEF Init
<1>4. MutualExclusion /\ \A t \in asleep : pc[t] = "lock"
  BY DEF Init, MutualExclusion, Holders
<1> QED
  BY <1>1, <1>2, <1>3, <1>4 DEF Inv, TypeOK

LEMMA TypeNext == TypeOK /\ [Next]_vars => TypeOK'
<1> SUFFICES ASSUME TypeOK, [Next]_vars PROVE TypeOK'
  OBVIOUS
<1>1. CASE UNCHANGED vars
  BY <1>1 DEF vars, TypeOK
<1>2. CASE Next
  <2> PICK t \in Threads :
        \/ MutexLock(t) \/ LockFree(t) \/ MutexLockWait(t) \/ BlockAborted(t)
        \/ MutexTry(t) \/ MutexUnlock(t)
    BY <1>2 DEF Next
  <2>1. locked' \in BOOLEAN
    BY Zenon DEF TypeOK, MutexLock, LockFree, MutexLockWait, BlockAborted,
       MutexTry, MutexUnlock
  <2>2. waiters' \in 0 .. WaitersModulus - 1
    BY WrapType DEF TypeOK, MutexLock, LockFree, MutexLockWait, BlockAborted,
       MutexTry, MutexUnlock, MutexUnlockWakeup
  <2>3. asleep' \subseteq Threads
    BY DEF TypeOK, MutexLock, LockFree, MutexLockWait, BlockAborted, MutexTry,
       MutexUnlock, MutexUnlockWakeup
  <2>4. pc' \in [Threads -> {"none", "lock", "held"}]
    BY DEF TypeOK, MutexLock, LockFree, MutexLockWait, BlockAborted, MutexTry,
       MutexUnlock, GoTo
  <2> QED
    BY <2>1, <2>2, <2>3, <2>4 DEF TypeOK
<1> QED
  BY <1>1, <1>2

LEMMA InvNext == Inv /\ [Next]_vars => Inv'
<1> SUFFICES ASSUME Inv, [Next]_vars PROVE Inv'
  OBVIOUS
<1>0. TypeOK'
  BY TypeNext DEF Inv
<1>1. CASE UNCHANGED vars
  BY <1>1 DEF vars, Inv, TypeOK, MutualExclusion, Holders
<1>2. ASSUME NEW t \in Threads, MutexLock(t) PROVE Inv'
  BY <1>0, <1>2 DEF MutexLock, At, GoTo, Inv, TypeOK, MutualExclusion, Holders
<1>3. ASSUME NEW t \in Threads, LockFree(t) \/ MutexTry(t) PROVE Inv'
  BY <1>0, <1>3 DEF LockFree, MutexTry, At, GoTo, Inv, TypeOK, MutualExclusion,
                    Holders
<1>4. ASSUME NEW t \in Threads, MutexLockWait(t) \/ BlockAborted(t) PROVE Inv'
  BY <1>0, <1>4 DEF MutexLockWait, BlockAborted, At, Inv, TypeOK,
                    MutualExclusion, Holders
<1>5. ASSUME NEW t \in Threads, MutexUnlock(t) PROVE Inv'
  <2>1. asleep' \subseteq asleep
    BY <1>5 DEF MutexUnlock, MutexUnlockWakeup
  <2>2. locked' = FALSE /\ t \in Holders /\ t \notin asleep
    BY <1>5 DEF MutexUnlock, At, Holders
  <2>3. Holders' = {}
    BY <1>5, <2>2 DEF MutexUnlock, GoTo, Inv, TypeOK, MutualExclusion, Holders
  <2>4. MutualExclusion'
    BY <2>2, <2>3 DEF MutualExclusion
  <2>5. \A u \in asleep' : pc'[u] = "lock"
    BY <1>5, <2>1, <2>2 DEF MutexUnlock, GoTo, Inv, TypeOK
  <2> QED
    BY <1>0, <2>4, <2>5 DEF Inv
<1> QED
  BY <1>1, <1>2, <1>3, <1>4, <1>5 DEF Next

\* At most one thread holds the mutex, aborted threads and a waiters that runs
\* over included.
THEOREM ExclusionCorrect == Spec => []MutualExclusion
<1>1. Inv => MutualExclusion
  BY DEF Inv
<1> QED
  BY <1>1, InvInit, InvNext, PTL DEF Spec

------------------------------------------------------------------------------
\* Sleepers are counted, and one of them is awake again once the mutex is free.
WakeInv == Inv /\ WaitersCoverAsleep /\ NoLostWakeup

LEMMA WakeInvNext ==
  ASSUME MaxWaiters < WaitersModulus
  PROVE  WakeInv /\ [Next]_vars => WakeInv'
<1> SUFFICES ASSUME WakeInv, [Next]_vars PROVE WakeInv'
  OBVIOUS
<1> USE DEF WakeInv
<1>0. Inv'
  BY InvNext
<1>1. /\ IsFiniteSet(asleep)
      /\ Cardinality(asleep) \in Nat
      /\ Cardinality(asleep) = 0 <=> asleep = {}
      /\ Cardinality(asleep) <= waiters /\ waiters \in Nat
  BY MutexAssumption, FS_Subset, FS_CardinalityType, FS_EmptySet
     DEF Inv, TypeOK, WaitersCoverAsleep
<1>2. CASE UNCHANGED vars
  BY <1>0, <1>2 DEF vars, WaitersCoverAsleep, NoLostWakeup, At
<1>3. ASSUME NEW t \in Threads, MutexLock(t) PROVE WakeInv'
  BY <1>0, <1>3 DEF MutexLock, GoTo, At, WaitersCoverAsleep, NoLostWakeup, Inv,
                    TypeOK
<1>4. ASSUME NEW t \in Threads, LockFree(t) \/ MutexTry(t) PROVE WakeInv'
  BY <1>0, <1>4 DEF LockFree, MutexTry, WaitersCoverAsleep, NoLostWakeup
<1>5. ASSUME NEW t \in Threads, MutexLockWait(t) PROVE WakeInv'
  <2>1. t \notin asleep /\ locked' /\ asleep' = asleep \cup {t}
    BY <1>5 DEF MutexLockWait, At
  <2>2. Cardinality(asleep') = Cardinality(asleep) + 1
    BY <1>1, <2>1, FS_AddElement
  <2>3. waiters' = waiters + 1
    BY <1>1, <1>5, MutexAssumption DEF MutexLockWait, Wrap
  <2> QED
    BY <1>0, <1>1, <2>1, <2>2, <2>3 DEF WaitersCoverAsleep, NoLostWakeup
<1>6. ASSUME NEW t \in Threads, MutexUnlock(t) PROVE WakeInv'
  <2>1. waiters # 0 => waiters' = waiters - 1
    BY <1>1, <1>6, MutexAssumption
       DEF MutexUnlock, MutexUnlockWakeup, Wrap, Inv, TypeOK
  <2>2. waiters = 0 => waiters' = waiters
    BY <1>6 DEF MutexUnlock
  <2>3. CASE asleep = {}
    <3>1. asleep' = {}
      BY <1>6, <2>3 DEF MutexUnlock, MutexUnlockWakeup
    <3>2. waiters' \in Nat /\ Cardinality(asleep') = 0
      BY <1>0, <3>1, FS_EmptySet, MutexAssumption DEF Inv, TypeOK
    <3> QED
      BY <1>0, <3>1, <3>2 DEF WaitersCoverAsleep, NoLostWakeup
  <2>4. CASE asleep # {}
    <3>1. PICK u \in asleep : asleep' = asleep \ {u}
      BY <1>1, <1>6, <2>4 DEF MutexUnlock, MutexUnlockWakeup
    <3>2. waiters # 0
      BY <1>1, <2>4
    <3>3. Cardinality(asleep') = Cardinality(asleep) - 1
      BY <1>1, <3>1, FS_RemoveElement
    <3>4. u \in Threads /\ u # t /\ pc'[u] = "lock" /\ u \notin asleep'
      BY <1>6, <3>1 DEF MutexUnlock, At, GoTo, Inv, TypeOK
    <3> QED
      BY <1>0, <1>1, <2>1, <3>2, <3>3, <3>4
         DEF WaitersCoverAsleep, NoLostWakeup, At
  <2> QED
    BY <2>3, <2>4
<1>7. ASSUME NEW t \in Threads, BlockAborted(t) PROVE WakeInv'
  <2>1. t \in Threads /\ pc'[t] = "lock" /\ t \notin asleep'
    BY <1>7 DEF BlockAborted, Inv
  <2>2. Cardinality(asleep') = Cardinality(asleep) - 1
    BY <1>1, <1>7, FS_RemoveElement DEF BlockAborted
  <2>3. waiters' = waiters
    BY <1>7 DEF BlockAborted
  <2> QED
    BY <1>0, <1>1, <2>1, <2>2, <2>3 DEF WaitersCoverAsleep, NoLostWakeup, At
<1> QED
  BY <1>2, <1>3, <1>4, <1>5, <1>6, <1>7 DEF Next

\* While waiters stays within its 16 bits, a free mutex never leaves all its
\* waiters asleep, whichever of them are aborted.
THEOREM WakeupsCorrect ==
  ASSUME MaxWaiters < WaitersModulus
  PROVE  Spec => []NoLostWakeup
<1>1. Init => WakeInv
  BY InvInit, FS_EmptySet DEF Init, WakeInv, WaitersCoverAsleep, NoLostWakeup
<1>2. WakeInv => NoLostWakeup
  BY DEF WakeInv
<1>3. WakeInv /\ [Next]_vars => WakeInv'
  BY WakeInvNext
<1> QED
  BY <1>1, <1>2, <1>3, PTL DEF Spec
=============================================================================
