------------------------------ MODULE Semaphore ------------------------------
(***************************************************************************)
(* One semaphore of osfmk/kern/sync_sema.c from its creation to the end of *)
(* its structure, used by any number of threads through their kernel       *)
(* calls.  A call first makes the port a reference (convert_port_to_       *)
(* semaphore, ipc_sync.c) and in the end drops it (semaphore_dereference,  *)
(* the destructor in mach/sync.defs).                                      *)
(*                                                                         *)
(* A step is one hold of the lock of the semaphore's wait queue.  Waits    *)
(* begin and end as EventWait says; threads wait for nothing else here.    *)
(***************************************************************************)
EXTENDS Integers, Sequences, SequencesExt

CONSTANTS
  Threads,
  Privileged,  \* the threads with vm_privilege: they are queued first
  InitCounts,  \* the values given to semaphore_create
  MaxCount     \* bound on semaphore_signal: signals kept at a time

ASSUME SemaphoreAssumption ==
  /\ IsFiniteSet(Threads) /\ Privileged \subseteq Threads
  /\ MaxCount \in Nat \ {0} /\ InitCounts \subseteq 0 .. MaxCount

VARIABLES
  count, active, refCount,  \* the fields of struct semaphore
  waitQueue,                \* the threads on semaphore->wait_queue, in order
  portActive,               \* ip_active(semaphore->port)
  freed,                    \* kfree has been called
  pc,                       \* where each thread is in its call
  result                    \* wait_result, then what its wait returns

vars ==
  <<count, active, refCount, waitQueue, portActive, freed, pc, result>>
lifeVars == <<active, refCount, portActive, freed>>

Calls == {"wait", "try", "signal", "signalAll", "signalThread", "destroy"}
PCs == {"out", "blocked", "deallocPort", "dropCreation", "leave"} \cup Calls
WaitResults == {"none", "awakened", "restart", "interrupted", "timed_out"}
Returns == {"success", "terminated", "aborted"}

TypeOK ==
  /\ count \in -1 .. MaxCount
  /\ active \in BOOLEAN /\ portActive \in BOOLEAN /\ freed \in BOOLEAN
  /\ refCount \in Int
  /\ waitQueue \in Seq(Threads)
  /\ pc \in [Threads -> PCs]
  /\ result \in [Threads -> WaitResults \cup Returns]

\* semaphore_create has returned: the structure has one reference, which
\* semaphore_destroy drops.
Init ==
  /\ count \in InitCounts
  /\ active = TRUE /\ portActive = TRUE /\ freed = FALSE
  /\ refCount = 1
  /\ waitQueue = <<>>
  /\ pc = [t \in Threads |-> "out"]
  /\ result = [t \in Threads |-> "none"]

(***************************************************************************)
(* Helpers                                                                 *)
(***************************************************************************)
GoTo(t, from, to) == pc[t] = from /\ pc' = [pc EXCEPT ![t] = to]

Queued == ToSet(waitQueue)

\* thread_go_locked on the threads of W, which have left the queue.
GoLocked(W, r) ==
  result' = [t \in Threads |-> IF t \in W THEN r ELSE result[t]]

\* The queue without the thread at position i.
LeaveQueue(i) == waitQueue' = RemoveAt(waitQueue, i)

Return(t, r) == result' = [result EXCEPT ![t] = r]

(***************************************************************************)
(* References                                                              *)
(***************************************************************************)
\* convert_port_to_semaphore, on the way into any call.
ConvertPort(t) ==
  /\ portActive
  /\ \E call \in Calls : GoTo(t, "out", call)
  /\ refCount' = refCount + 1
  /\ UNCHANGED <<count, active, portActive, freed, waitQueue, result>>

\* semaphore_dereference: of the call's reference, which ends the call, or, at
\* the end of semaphore_destroy, of the creation's.
SemaphoreDereference(t) ==
  /\ \/ GoTo(t, "leave", "out") /\ result' = [result EXCEPT ![t] = "none"]
     \/ GoTo(t, "dropCreation", "leave") /\ UNCHANGED result
  /\ refCount' = refCount - 1
  /\ freed' = (freed \/ refCount' = 0)
  /\ UNCHANGED <<count, active, portActive, waitQueue>>

(***************************************************************************)
(* semaphore_wait, semaphore_timedwait                                     *)
(***************************************************************************)
\* Faulty variant: the last to come is the first in the queue.
WaitWith(t, newCount, newQueue) ==
  /\ \/ /\ ~active
        /\ GoTo(t, "wait", "leave") \/ GoTo(t, "try", "leave")
        /\ Return(t, "terminated") /\ UNCHANGED <<count, waitQueue>>
     \/ /\ active /\ count > 0 /\ count' = count - 1
        /\ GoTo(t, "wait", "leave") \/ GoTo(t, "try", "leave")
        /\ Return(t, "success") /\ UNCHANGED waitQueue
     \/ /\ active /\ count <= 0 /\ GoTo(t, "try", "leave")
        /\ Return(t, "timed_out") /\ UNCHANGED <<count, waitQueue>>
     \/ /\ active /\ count <= 0 /\ GoTo(t, "wait", "blocked")
        /\ count' = newCount /\ Return(t, "none")
        /\ waitQueue' = newQueue
  /\ UNCHANGED lifeVars
WaitAtHead(t) == WaitWith(t, -1, <<t>> \o waitQueue)

\* semaphore_wait_common up to its thread_block; "try" is a wait_time of 0.
SemaphoreWait(t) ==
  /\ \/ /\ ~active
        /\ GoTo(t, "wait", "leave") \/ GoTo(t, "try", "leave")
        /\ Return(t, "terminated") /\ UNCHANGED <<count, waitQueue>>
     \/ /\ active /\ count > 0 /\ count' = count - 1
        /\ GoTo(t, "wait", "leave") \/ GoTo(t, "try", "leave")
        /\ Return(t, "success") /\ UNCHANGED waitQueue
     \/ /\ active /\ count <= 0 /\ GoTo(t, "try", "leave")
        /\ Return(t, "timed_out") /\ UNCHANGED <<count, waitQueue>>
     \/ /\ active /\ count <= 0 /\ GoTo(t, "wait", "blocked")
        /\ count' = -1 /\ Return(t, "none")
        /\ waitQueue' = IF t \in Privileged THEN <<t>> \o waitQueue
                                            ELSE Append(waitQueue, t)
  /\ UNCHANGED lifeVars

\* The timer or an abort takes the thread off the queue: count is left alone.
WaitEndsEarly(t) ==
  /\ \E i \in DOMAIN waitQueue : waitQueue[i] = t /\ LeaveQueue(i)
  /\ \E r \in {"timed_out", "interrupted"} : GoLocked({t}, r)
  /\ UNCHANGED <<count, lifeVars, pc>>

\* After the thread_block: the return codes, or goto restart.
AfterBlock(t) ==
  /\ t \notin Queued
  /\ \/ /\ result[t] = "restart" /\ GoTo(t, "blocked", "wait")
        /\ UNCHANGED result
     \/ /\ result[t] # "restart" /\ GoTo(t, "blocked", "leave")
        /\ Return(t, CASE result[t] = "awakened" -> "success"
                       [] result[t] = "interrupted" -> "aborted"
                       [] OTHER -> result[t])
  /\ UNCHANGED <<count, lifeVars, waitQueue>>

(***************************************************************************)
(* semaphore_signal, semaphore_signal_all, semaphore_signal_thread         *)
(***************************************************************************)
\* Faulty variants: the count goes up although a waiter takes the signal; a
\* signal finds that the waiters have left, and is dropped.
SignalResets(t) ==
  /\ GoTo(t, "signal", "leave")
  /\ active /\ count < MaxCount
  /\ IF waitQueue # <<>>
     THEN GoLocked({Head(waitQueue)}, "awakened") /\ LeaveQueue(1) /\ count' = 0
     ELSE /\ count' = IF count < 0 THEN 1 ELSE count + 1
          /\ UNCHANGED <<waitQueue, result>>
  /\ UNCHANGED lifeVars

SignalDropped(t) ==
  /\ GoTo(t, "signal", "leave")
  /\ active /\ count < MaxCount
  /\ IF count < 0 /\ waitQueue # <<>>
     THEN GoLocked({Head(waitQueue)}, "awakened") /\ LeaveQueue(1)
     ELSE UNCHANGED <<waitQueue, result>>
  /\ count' = IF count < 0 THEN count ELSE count + 1
  /\ UNCHANGED lifeVars

\* A negative count stands for any number of waiters, none included: then the
\* waiters have busted out, and the signal becomes a pre-signal.
SemaphoreSignal(t) ==
  /\ GoTo(t, "signal", "leave")
  /\ \/ ~active /\ UNCHANGED <<count, waitQueue, result>>
     \/ /\ active /\ count < 0 /\ waitQueue # <<>> /\ UNCHANGED count
        /\ GoLocked({Head(waitQueue)}, "awakened") /\ LeaveQueue(1)
     \/ /\ active /\ count < 0 /\ waitQueue = <<>> /\ count' = 1
        /\ UNCHANGED <<waitQueue, result>>
     \/ /\ active /\ count \in 0 .. MaxCount - 1 /\ count' = count + 1
        /\ UNCHANGED <<waitQueue, result>>
  /\ UNCHANGED lifeVars

\* The thread may not be there: KERN_NOT_WAITING, and nothing changes.
SemaphoreSignalThread(t) ==
  /\ GoTo(t, "signalThread", "leave")
  /\ \/ /\ active /\ count < 0 => Queued # Threads
        /\ UNCHANGED <<waitQueue, result>>
     \/ /\ active /\ count < 0
        /\ \E i \in DOMAIN waitQueue :
             GoLocked({waitQueue[i]}, "awakened") /\ LeaveQueue(i)
  /\ UNCHANGED <<count, lifeVars>>

\* wait_queue_wakeup_all_locked, called only if count was negative.
WakeupAll(r) ==
  IF count < 0 THEN waitQueue' = <<>> /\ GoLocked(Queued, r)
               ELSE UNCHANGED <<waitQueue, result>>

SemaphoreSignalAll(t) ==
  /\ GoTo(t, "signalAll", "leave")
  /\ IF active THEN count' = 0 /\ WakeupAll("awakened")
               ELSE UNCHANGED <<count, waitQueue, result>>
  /\ UNCHANGED lifeVars

(***************************************************************************)
(* semaphore_destroy                                                       *)
(***************************************************************************)
\* Faulty variants: a semaphore may be destroyed twice; nobody is woken.
DestroyTwice(t) ==
  /\ GoTo(t, "destroy", "deallocPort")
  /\ active' = FALSE /\ count' = 0 /\ WakeupAll("restart")
  /\ UNCHANGED <<refCount, portActive, freed>>

DestroyWakesNobody(t) ==
  /\ \/ active /\ GoTo(t, "destroy", "deallocPort") /\ active' = FALSE
     \/ ~active /\ GoTo(t, "destroy", "leave") /\ UNCHANGED active
  /\ count' = 0
  /\ UNCHANGED <<refCount, portActive, freed, waitQueue, result>>

\* Under the lock: the semaphore is deactivated and its waiters restarted.  It
\* is then taken off its task's list, which no call here looks at.
SemaphoreDestroy(t) ==
  /\ \/ /\ ~active /\ GoTo(t, "destroy", "leave")
        /\ UNCHANGED <<count, active, waitQueue, result>>
     \/ /\ active /\ GoTo(t, "destroy", "deallocPort")
        /\ active' = FALSE /\ count' = 0 /\ WakeupAll("restart")
  /\ UNCHANGED <<refCount, portActive, freed>>

\* ipc_port_dealloc_kernel: no call can convert the port from here on.
DeallocPort(t) ==
  /\ GoTo(t, "deallocPort", "dropCreation")
  /\ portActive' = FALSE
  /\ UNCHANGED <<count, active, refCount, freed, waitQueue, result>>

(***************************************************************************)
(* The specification                                                       *)
(***************************************************************************)
\* What a thread does by itself once it is in a call.
Advance(t) ==
  \/ SemaphoreWait(t) \/ AfterBlock(t) \/ SemaphoreSignal(t)
  \/ SemaphoreSignalThread(t) \/ SemaphoreSignalAll(t)
  \/ SemaphoreDestroy(t) \/ DeallocPort(t) \/ SemaphoreDereference(t)

Next == \E t \in Threads : ConvertPort(t) \/ Advance(t) \/ WaitEndsEarly(t)

Spec == Init /\ [][Next]_vars

\* A thread that is not blocked executes.  Nobody has to call anything.
FairSpec == Spec /\ \A t \in Threads : WF_vars(Advance(t))

(***************************************************************************)
(* Properties                                                              *)
(***************************************************************************)
\* "we don't keep an actual count": a thread waits only while count is
\* negative, or else a signal, a signal_all and the destruction would pass it
\* by.  And nobody waits on a semaphore that has been destroyed.
WaitersCounted == waitQueue # <<>> => count < 0 /\ active

\* "This keeps the data structure in existence": each call under way has its
\* reference, whatever others destroy, so that the structure is freed after
\* the last of them, and freed once.
Callers == {t \in Threads : pc[t] # "out"}
Creation == active \/ \E t \in Threads : pc[t] \in {"deallocPort", "dropCreation"}
RefsBalanced ==
  /\ refCount = Cardinality(Callers) + (IF Creation THEN 1 ELSE 0)
  /\ freed <=> refCount = 0

\* Signals are neither lost nor taken twice, whichever waits time out, are
\* aborted or destroyed in between: the semaphore implements
\* CountingSemaphore.  A negative count is no tokens, and a thread that is to
\* restart its wait is bound to find the semaphore destroyed.
Outcome == [success |-> "success", awakened |-> "success",
            restart |-> "terminated", terminated |-> "terminated",
            interrupted |-> "aborted", aborted |-> "aborted",
            timed_out |-> "timed_out"]
Call(t) == IF t \in Queued THEN "waiting"
           ELSE IF result[t] # "none" THEN Outcome[result[t]]
           ELSE IF pc[t] \in Calls THEN pc[t] ELSE "none"
CS == INSTANCE CountingSemaphore WITH
        tokens <- IF count < 0 THEN 0 ELSE count,
        alive <- active,
        call <- [t \in Threads |-> Call(t)]
ImplementsCountingSemaphore == CS!Spec

\* The waiters of a destroyed semaphore return, and the structure is freed.
DestroyedIsFreed == ~active ~> freed

\* The queue is served in its order: if there is always another signal while
\* no privileged thread waits, each waiter gets one, however many come later.
SignalServes(t) ==
  SemaphoreSignal(t) /\ active /\ Queued \cap Privileged = {}
WaitersServed ==
  []<><<\E t \in Threads : SignalServes(t)>>_vars
    => \A t \in Threads : t \in Queued ~> t \notin Queued
=============================================================================
