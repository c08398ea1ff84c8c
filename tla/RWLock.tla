------------------------------- MODULE RWLock --------------------------------
(***************************************************************************)
(* One complex lock of osfmk/kern/lock.c: lock_write, lock_read,           *)
(* lock_done, lock_read_to_write and lock_write_to_read, called by any     *)
(* number of threads.                                                      *)
(*                                                                         *)
(* A step is one hold of l->interlock.  The wakeup that follows it is a    *)
(* step of its own.  A thread that spins before it sleeps (lock_wait_time) *)
(* only reads the lock: spinning is staying where it is.  The lock is not  *)
(* recursive: a thread makes one use of it at a time.                      *)
(***************************************************************************)
EXTENDS Integers, FiniteSets

CONSTANTS
  Threads,
  CanSleep,    \* l->can_sleep: contenders sleep, or spin only
  ReadModulus  \* read_count has 16 bits: 2^16

\* Every thread may read at once without read_count running over.
ASSUME RWLockAssumption ==
  /\ IsFiniteSet(Threads)
  /\ CanSleep \in BOOLEAN
  /\ ReadModulus \in Nat /\ Cardinality(Threads) < ReadModulus

VARIABLES
  readCount, wantWrite, wantUpgrade, waiting,  \* the fields of lock_t
  asleep,   \* the threads that wait for the event l
  wakers,   \* the threads that have do_wakeup set and no interlock any more
  pc        \* where each thread is in its use of the lock

vars == <<readCount, wantWrite, wantUpgrade, waiting, asleep, wakers, pc>>

\* want: in the first loop of lock_write; drain: in its second one;
\* read, upgrade: in the loops of lock_read and lock_read_to_write.
PCs == {"none", "want", "drain", "writing", "read", "reading",
        "upgrade", "upgraded"}

TypeOK ==
  /\ readCount \in 0 .. ReadModulus - 1
  /\ wantWrite \in BOOLEAN /\ wantUpgrade \in BOOLEAN /\ waiting \in BOOLEAN
  /\ asleep \subseteq Threads /\ wakers \subseteq Threads
  /\ pc \in [Threads -> PCs]

\* lock_init
Init ==
  /\ readCount = 0
  /\ wantWrite = FALSE /\ wantUpgrade = FALSE /\ waiting = FALSE
  /\ asleep = {} /\ wakers = {}
  /\ pc = [t \in Threads |-> "none"]

(***************************************************************************)
(* Helpers                                                                 *)
(***************************************************************************)
\* The value of a 16-bit field after one increment or decrement.
Wrap(n) == IF n = ReadModulus THEN 0 ELSE IF n < 0 THEN ReadModulus - 1 ELSE n

\* t executes in the lock code, or is free to call it.
Awake(t) == t \notin asleep /\ t \notin wakers

At(t, p) == Awake(t) /\ pc[t] = p

GoTo(t, p) == pc' = [pc EXCEPT ![t] = p]

\* The conditions of the four waiting loops.
Contended(t) ==
  \/ pc[t] = "want" /\ wantWrite
  \/ pc[t] = "drain" /\ (readCount # 0 \/ wantUpgrade)
  \/ pc[t] = "read" /\ readCount = 0 /\ (wantWrite \/ wantUpgrade)
  \/ pc[t] = "upgrade" /\ readCount # 0

\* Faulty variant: waiting is cleared, and nobody is woken.
WakeupForgotten(t, when) == waiting' = (waiting /\ ~when) /\ UNCHANGED wakers

\* if (l->waiting && ...) { l->waiting = FALSE; do_wakeup = TRUE; }
WakeupIf(t, when) ==
  /\ waiting' = (waiting /\ ~when)
  /\ wakers' = IF waiting /\ when THEN wakers \cup {t} ELSE wakers

(***************************************************************************)
(* Waiting and waking                                                      *)
(***************************************************************************)
\* l->waiting = TRUE; thread_sleep_simple_lock(l, interlock, FALSE)
Sleep(t) ==
  /\ CanSleep /\ Awake(t) /\ Contended(t)
  /\ waiting' = TRUE
  /\ asleep' = asleep \cup {t}
  /\ UNCHANGED <<readCount, wantWrite, wantUpgrade, wakers, pc>>

\* if (do_wakeup) thread_wakeup((event_t) l);
ThreadWakeup(t) ==
  /\ t \in wakers
  /\ asleep' = {} /\ wakers' = wakers \ {t}
  /\ UNCHANGED <<readCount, wantWrite, wantUpgrade, waiting, pc>>

\* thread_block does not wait at all once the thread has been aborted.
SleepAborted(t) ==
  /\ t \in asleep
  /\ asleep' = asleep \ {t}
  /\ UNCHANGED <<readCount, wantWrite, wantUpgrade, waiting, wakers, pc>>

(***************************************************************************)
(* The operations                                                          *)
(***************************************************************************)
LockWrite(t) ==
  /\ At(t, "none") /\ GoTo(t, "want")
  /\ UNCHANGED <<readCount, wantWrite, wantUpgrade, waiting, asleep, wakers>>

\* Faulty variant: the writer does not look for an upgrade.
TakeWantWriteOnly(t) ==
  /\ At(t, "want") /\ ~wantWrite
  /\ wantWrite' = TRUE
  /\ GoTo(t, IF readCount # 0 THEN "drain" ELSE "writing")
  /\ UNCHANGED <<readCount, wantUpgrade, waiting, asleep, wakers>>

\* The writer takes want_write, and the lock itself if nobody is in the way.
TakeWantWrite(t) ==
  /\ At(t, "want") /\ ~wantWrite
  /\ wantWrite' = TRUE
  /\ GoTo(t, IF readCount # 0 \/ wantUpgrade THEN "drain" ELSE "writing")
  /\ UNCHANGED <<readCount, wantUpgrade, waiting, asleep, wakers>>

Drained(t) ==
  /\ At(t, "drain") /\ ~Contended(t) /\ GoTo(t, "writing")
  /\ UNCHANGED <<readCount, wantWrite, wantUpgrade, waiting, asleep, wakers>>

LockRead(t) ==
  /\ At(t, "none") /\ GoTo(t, "read")
  /\ UNCHANGED <<readCount, wantWrite, wantUpgrade, waiting, asleep, wakers>>

\* Readers join readers, even if a writer or an upgrade waits for them.
TakeRead(t) ==
  /\ At(t, "read") /\ ~Contended(t)
  /\ readCount' = Wrap(readCount + 1)
  /\ GoTo(t, "reading")
  /\ UNCHANGED <<wantWrite, wantUpgrade, waiting, asleep, wakers>>

\* lock_done finds out from the lock, not from its caller, what was held.
LockDone(t) ==
  /\ At(t, "reading") \/ At(t, "writing") \/ At(t, "upgraded")
  /\ readCount' = IF readCount # 0 THEN readCount - 1 ELSE readCount
  /\ wantUpgrade' = (wantUpgrade /\ readCount # 0)
  /\ wantWrite' = (wantWrite /\ (readCount # 0 \/ wantUpgrade))
  /\ WakeupIf(t, readCount' = 0)
  /\ GoTo(t, "none")
  /\ UNCHANGED asleep

\* Faulty variant: a second upgrade waits behind the first.
LockReadToWriteTwice(t) ==
  /\ At(t, "reading")
  /\ readCount' = Wrap(readCount - 1)
  /\ wantUpgrade' = TRUE
  /\ GoTo(t, IF readCount' # 0 THEN "upgrade" ELSE "upgraded")
  /\ UNCHANGED <<wantWrite, waiting, asleep, wakers>>

\* lock_read_to_write.  The read lock is given up in any case; if an upgrade
\* is under way already this one fails and may wake it.
LockReadToWrite(t) ==
  /\ At(t, "reading")
  /\ readCount' = Wrap(readCount - 1)
  /\ IF wantUpgrade
     THEN GoTo(t, "none") /\ WakeupIf(t, readCount' = 0)
     ELSE /\ GoTo(t, IF readCount' # 0 THEN "upgrade" ELSE "upgraded")
          /\ UNCHANGED <<waiting, wakers>>
  /\ wantUpgrade' = TRUE
  /\ UNCHANGED <<wantWrite, asleep>>

Upgraded(t) ==
  /\ At(t, "upgrade") /\ ~Contended(t) /\ GoTo(t, "upgraded")
  /\ UNCHANGED <<readCount, wantWrite, wantUpgrade, waiting, asleep, wakers>>

LockWriteToRead(t) ==
  /\ At(t, "writing") \/ At(t, "upgraded")
  /\ readCount' = Wrap(readCount + 1)
  /\ wantUpgrade' = FALSE
  /\ wantWrite' = (wantWrite /\ wantUpgrade)
  /\ WakeupIf(t, TRUE)
  /\ GoTo(t, "reading")
  /\ UNCHANGED asleep

(***************************************************************************)
(* The specification                                                       *)
(***************************************************************************)
\* What a thread that has called the lock does by itself.
Advance(t) ==
  \/ Sleep(t) \/ ThreadWakeup(t) \/ TakeWantWrite(t) \/ Drained(t)
  \/ TakeRead(t) \/ Upgraded(t)

Next == \E t \in Threads :
  \/ Advance(t) \/ SleepAborted(t) \/ LockWrite(t) \/ LockRead(t)
  \/ LockDone(t) \/ LockReadToWrite(t) \/ LockWriteToRead(t)

Spec == Init /\ [][Next]_vars

\* A thread that is not asleep executes; the wait for the lock needs no help.
Fairness == \A t \in Threads : WF_vars(Advance(t))

\* Also, whoever holds the lock gives it up.
ReleaseFairness == \A t \in Threads : WF_vars(LockDone(t))

FairSpec == Spec /\ Fairness
ReleasingSpec == FairSpec /\ ReleaseFairness

(***************************************************************************)
(* Properties                                                              *)
(***************************************************************************)
Readers == {t \in Threads : pc[t] = "reading"}
Writers == {t \in Threads : pc[t] \in {"writing", "upgraded"}}
Waiters == {t \in Threads : pc[t] \in {"want", "drain", "read", "upgrade"}}

\* One writer, however it came to be one, and then no reader.
MutualExclusion == /\ Readers = {} \/ Writers = {}
                   /\ \A t, u \in Writers : t = u

\* The fields of lock_t tell who holds and who claims the lock.  lock_done and
\* lock_write_to_read rely on it: they take the caller's mode from the fields.
FieldsTellHolders ==
  /\ readCount = Cardinality(Readers)
  /\ wantWrite <=> \E t \in Threads : pc[t] \in {"drain", "writing"}
  /\ wantUpgrade <=> \E t \in Threads : pc[t] \in {"upgrade", "upgraded"}

\* want_write and want_upgrade have one claimant each, and who writes has seen
\* the readers, and for want_write the upgrade, off: this is why they exclude
\* each other, and it makes MutualExclusion inductive.
ClaimsAreExclusive ==
  \A t \in Threads :
    /\ pc[t] = "writing" => readCount = 0 /\ ~wantUpgrade
    /\ pc[t] = "upgraded" => readCount = 0
    /\ \A u \in Threads \ {t} :
         /\ ~(pc[t] \in {"drain", "writing"} /\ pc[u] \in {"drain", "writing"})
         /\ ~(pc[t] \in {"upgrade", "upgraded"}
                /\ pc[u] \in {"upgrade", "upgraded"})

\* No wakeup is lost: a thread sleeps only with waiting set or a wakeup on its
\* way, and once the condition it waits for has come true a wakeup is on its
\* way.  lock_done relies on this when it wakes nobody because "there is no
\* reason to wakeup a waiting thread if the read-count is non-zero".
NoLostWakeup ==
  /\ asleep # {} => waiting \/ wakers # {}
  /\ (\E t \in asleep : ~Contended(t)) => wakers # {}

\* What each thread has of the lock.  A writer that drains readers has nothing.
Held == [t \in Threads |-> CASE pc[t] = "reading" -> "read"
                             [] pc[t] = "upgrade" -> "upgrade"
                             [] pc[t] \in {"writing", "upgraded"} -> "write"
                             [] OTHER -> "none"]

\* The lock implements ReadersWriterLock: among other things, nobody else
\* writes between a reader's successful upgrade request and its write lock, or
\* between a downgrade and the reads that follow it.
RW == INSTANCE ReadersWriterLock WITH held <- Held
ImplementsReadersWriterLock == RW!Spec

\* Once no new lock_read, lock_write or downgrade comes, and the holders give
\* the lock up, everybody who waits gets it: nobody sleeps on, and no writer,
\* upgrade and reader wait for each other.
NoMoreCalls ==
  <>[][\A t \in Threads :
         /\ pc[t] = "none" => pc'[t] = "none"
         /\ pc[t] \in {"writing", "upgraded"} => pc'[t] # "reading"]_pc
WaitersServed == NoMoreCalls => <>[](Waiters = {})
=============================================================================
