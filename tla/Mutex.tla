-------------------------------- MODULE Mutex --------------------------------
(***************************************************************************)
(* One mutex: _mutex_lock, _mutex_try and mutex_unlock (ppc/hw_lock.s,     *)
(* i386/i386_lock.s) with mutex_lock_wait and mutex_unlock_wakeup          *)
(* (kern/lock.c).  A step is one hold of m->interlock; _mutex_try, which   *)
(* on i386 does not take the interlock, is one atomic exchange.            *)
(***************************************************************************)
EXTENDS Integers, FiniteSets

CONSTANTS
  Threads,
  Aborted,         \* the threads that have TH_ABORT set all along
  WaitersModulus,  \* waiters is a short: 2^16 values
  MaxWaiters       \* bound on mutex_lock_wait: waiters it counts up to

ASSUME MutexAssumption ==
  /\ IsFiniteSet(Threads) /\ Aborted \subseteq Threads
  /\ WaitersModulus \in Nat \ {0} /\ MaxWaiters \in 1 .. WaitersModulus

VARIABLES
  locked, waiters,  \* the fields of mutex_t
  asleep,           \* the threads that wait for the event m
  pc                \* where each thread is: "none", "lock", "held"

vars == <<locked, waiters, asleep, pc>>

TypeOK ==
  /\ locked \in BOOLEAN
  /\ waiters \in 0 .. WaitersModulus - 1
  /\ asleep \subseteq Threads
  /\ pc \in [Threads -> {"none", "lock", "held"}]

\* mutex_init
Init ==
  /\ locked = FALSE /\ waiters = 0
  /\ asleep = {}
  /\ pc = [t \in Threads |-> "none"]

\* A short after one increment or decrement, as an unsigned number.
Wrap(n) == IF n = WaitersModulus THEN 0
           ELSE IF n < 0 THEN WaitersModulus - 1 ELSE n

At(t, p) == t \notin asleep /\ pc[t] = p

GoTo(t, p) == pc' = [pc EXCEPT ![t] = p]

MutexLock(t) ==
  /\ At(t, "none") /\ GoTo(t, "lock")
  /\ UNCHANGED <<locked, waiters, asleep>>

\* Faulty variant: locked is tested, but not set, under the interlock.
LockUnmarked(t) ==
  /\ At(t, "lock") /\ ~locked
  /\ GoTo(t, "held")
  /\ UNCHANGED <<locked, waiters, asleep>>

\* ml_retry, the mutex is free.
LockFree(t) ==
  /\ At(t, "lock") /\ ~locked
  /\ locked' = TRUE /\ GoTo(t, "held")
  /\ UNCHANGED <<waiters, asleep>>

\* ml_retry, the mutex is held: mutex_lock_wait.
MutexLockWait(t) ==
  /\ At(t, "lock") /\ locked /\ waiters < MaxWaiters
  /\ waiters' = Wrap(waiters + 1)
  /\ asleep' = asleep \cup {t}
  /\ UNCHANGED <<locked, pc>>

\* The thread_block of mutex_lock_wait ends an aborted thread's wait, though
\* it is THREAD_UNINT; the thread tries again.
BlockAborted(t) ==
  /\ t \in asleep \cap Aborted
  /\ asleep' = asleep \ {t}
  /\ UNCHANGED <<locked, waiters, pc>>

MutexTry(t) ==
  /\ At(t, "none") /\ ~locked
  /\ locked' = TRUE /\ GoTo(t, "held")
  /\ UNCHANGED <<waiters, asleep>>

\* Faulty variant: the wakeup is counted, and nobody is woken.
WakeupNobody == waiters' = Wrap(waiters - 1) /\ UNCHANGED asleep

\* mutex_unlock_wakeup: thread_wakeup_one may find nobody.
MutexUnlockWakeup ==
  /\ waiters' = Wrap(waiters - 1)
  /\ IF asleep = {} THEN UNCHANGED asleep
                    ELSE \E u \in asleep : asleep' = asleep \ {u}

\* mutex_unlock: the wakeup comes before the mutex is unlocked.
MutexUnlock(t) ==
  /\ At(t, "held")
  /\ IF waiters # 0 THEN MutexUnlockWakeup ELSE UNCHANGED <<waiters, asleep>>
  /\ locked' = FALSE
  /\ GoTo(t, "none")

Next == \E t \in Threads :
  \/ MutexLock(t) \/ LockFree(t) \/ MutexLockWait(t) \/ BlockAborted(t)
  \/ MutexTry(t) \/ MutexUnlock(t)

Spec == Init /\ [][Next]_vars

\* A thread in mutex_lock that is not asleep executes.
Fairness == \A t \in Threads :
  WF_vars(LockFree(t) \/ MutexLockWait(t) \/ BlockAborted(t))

FairSpec == Spec /\ Fairness

(***************************************************************************)
(* Properties                                                              *)
(***************************************************************************)
Holders == {t \in Threads : pc[t] = "held"}

\* One holder, and m->locked says whether there is one: also between a lock
\* that takes the interlock and a try that does not.
MutualExclusion == /\ \A t, u \in Holders : t = u
                   /\ locked <=> Holders # {}

\* No unlock is missed by a thread that went to sleep: with the mutex free and
\* somebody asleep, another thread is awake that was in mutex_lock before, and
\* its own unlock will wake the next.
NoLostWakeup ==
  asleep # {} /\ ~locked => \E t \in Threads : At(t, "lock")

\* Nobody sleeps on the mutex whom waiters does not count: mutex_unlock looks
\* for sleepers in waiters only.  It may count more than there are, since an
\* aborted thread counts itself each time it tries to sleep and does not take
\* that back when it returns.
WaitersCoverAsleep == Cardinality(asleep) <= waiters

\* A free mutex that a thread waits for is taken.
FreeMutexIsTaken == (\E t \in Threads : pc[t] = "lock") ~> Holders # {}
=============================================================================
