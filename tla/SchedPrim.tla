------------------------------ MODULE SchedPrim ------------------------------
(***************************************************************************)
(* The blocking primitives of the Mach kernel (osfmk/kern/sched_prim.c,    *)
(* wait_queue.c, and the hooks of the mk_sp scheduling policy):            *)
(* assert_wait, thread_wakeup_prim, clear_wait, the wait timer, the        *)
(* two-stage thread_block / thread_invoke / thread_dispatch on several     *)
(* processors, and thread_stop / thread_wait / thread_unstop.              *)
(*                                                                         *)
(* A step is what one actor does under one hold of a thread's lock (every  *)
(* access to state, wait_event, wait_queue and th_state takes it, except   *)
(* the reads named below).  Where the code drops the lock, the step ends.  *)
(* Priorities are abstracted: any ready thread may be chosen.              *)
(***************************************************************************)
EXTENDS Integers, SequencesExt, WaitLinks

CONSTANTS
  Threads,        \* thread_t, idle threads excepted
  Cpus,           \* processor_t
  Callers,        \* callout threads, signal posters: users of clear_wait
  Events,         \* event_t, other than the &thread->wake_active ones
  WakeEvent,      \* thread -> the event &thread->wake_active
  Buckets,        \* the wait_queues[] hash table
  BucketOf,       \* wait_hash: event -> bucket
  Sleepers,       \* threads that assert_wait
  TimedSleepers,  \* those that also set the wait timer
  Privileged,     \* those with vm_privilege
  Stoppers,       \* threads that call thread_stop_wait and thread_unstop
  StopTargets,    \* the threads they stop
  AbortTargets,   \* threads thread_abort is called on
  ClearTargets,   \* threads clear_wait is called on
  ClearModes,     \* its "interruptible" argument, a subset of BOOLEAN
  WaitModes,      \* subset of {"unint", "int"}, argument of assert_wait
  Yielders,       \* threads that thread_block without a wait (preemption)
  Continuations,  \* whether thread_block is given one, subset of BOOLEAN
  StackMisses,    \* whether stack_alloc_try may fail, subset of BOOLEAN
  MaxRefs,        \* bound on thread references held by wait timers
  NoThread, Idle, NoEvent, NoBucket, NoCaller

AllEvents == Events \cup {WakeEvent[t] : t \in Threads}

ClearResults == {"timed_out", "interrupted"}  \* what clear_wait is called with
WaitResults == {"none", "awakened"} \cup ClearResults
CallerRecord == [pc : {"expire", "abort", "clear", "remove"},
                 thread : Threads, queue : Buckets \cup {NoBucket},
                 result : ClearResults]

ASSUME SchedPrimAssumption ==
  /\ BucketOf \in [AllEvents -> Buckets]
  /\ NoEvent \notin AllEvents /\ NoBucket \notin Buckets
  /\ {NoThread, Idle} \cap Threads = {} /\ NoThread # Idle
  /\ UNION {Sleepers, Privileged, Stoppers, StopTargets, AbortTargets,
            ClearTargets, Yielders} \subseteq Threads
  /\ TimedSleepers \subseteq Sleepers
  /\ NoCaller \notin CallerRecord /\ IsFiniteSet(Callers)
  /\ MaxRefs \in Nat

\* &thread->wake_active is an address of its own, that nobody else waits on.
ASSUME WakeEventAssumption ==
  /\ \A t, u \in Threads : WakeEvent[t] = WakeEvent[u] => t = u
  /\ \A t \in Threads : WakeEvent[t] \notin Events

VARIABLES
  \* per thread
  state,      \* the TH_* bits of thread->state the properties depend on
  stack,      \* TH_STACK_HANDOFF / TH_STACK_COMING_IN / neither
  thState,    \* sp_info->th_state
  waitQueue,  \* thread->wait_queue
  waitEvent,  \* thread->wait_event
  waitResult, \* thread->wait_result
  wakeActive, \* thread->wake_active
  wakeLock,   \* holder of thread->wake_lock
  timerSet,   \* thread->wait_timer_is_set
  timerCall,  \* status of the thread_call thread->wait_timer
  refCount,   \* the part of thread->ref_count that wait timers hold
  timed,      \* history: the timer was set during the current wait
  \* shared
  wq,         \* bucket -> queue of threads
  ready,      \* thread -> how many times it is on a run queue (or next_thread)
  \* per processor: the progress of thread_block_reason / thread_invoke
  cpu,        \* active thread
  phase, old, new, cont,
  \* program counters of the threads and of the callers of clear_wait
  pc, target, caller

queueVars  == <<wq, waitQueue, waitEvent>>
waitVars   == <<queueVars, waitResult>>
stateVars  == <<state, stack, thState, ready>>
wakeVars   == <<wakeActive, wakeLock>>
timerVars  == <<timerSet, timerCall, refCount, timed>>
cpuVars    == <<cpu, phase, old, new, cont>>
progVars   == <<pc, target>>
vars == <<waitVars, stateVars, wakeVars, timerVars, cpuVars, progVars, caller>>

StateBits   == {"WAIT", "SUSP", "RUN", "UNINT", "ABORT"}
Phases == {"run", "reselect", "selected", "dispatch", "wake",
           "handoff", "handoffWake", "handoffDone"}
ThreadPCs == {"run", "asserted", "armed", "woken",
              "stop", "stopMark", "stopAssert", "stopSleep", "stopWoken",
              "wait", "waitMark", "waitAssert", "waitSleep", "waitWoken",
              "stopped", "unstop", "unstopWake"}

WaitTypeOK ==
  /\ state \in [Threads -> SUBSET StateBits]
  /\ waitQueue \in [Threads -> Buckets \cup {NoBucket}]
  /\ waitEvent \in [Threads -> AllEvents \cup {NoEvent}]
  /\ pc \in [Threads -> ThreadPCs]
  /\ target \in [Threads -> Threads \cup {NoThread}]

TypeOK ==
  /\ WaitTypeOK
  /\ stack \in [Threads -> {"own", "handoff", "coming_in"}]
  /\ thState \in [Threads -> {"RUNNABLE", "BLOCKED"}]
  /\ waitResult \in [Threads -> WaitResults]
  /\ wakeActive \in [Threads -> BOOLEAN]
  /\ wakeLock \in [Threads -> Threads \cup {NoThread}]
  /\ timerSet \in [Threads -> BOOLEAN]
  /\ timerCall \in [Threads -> {"idle", "delayed", "pending"}]
  /\ refCount \in [Threads -> Int]
  /\ timed \in [Threads -> BOOLEAN]
  /\ wq \in [Buckets -> Seq(Threads)]
  /\ ready \in [Threads -> Int]
  /\ cpu \in [Cpus -> Threads \cup {Idle}]
  /\ phase \in [Cpus -> Phases]
  /\ old \in [Cpus -> Threads \cup {Idle}]
  /\ new \in [Cpus -> Threads \cup {Idle}]
  /\ cont \in [Cpus -> BOOLEAN]
  /\ caller \in [Callers -> CallerRecord \cup {NoCaller}]

\* Every thread is runnable and on the run queue, every processor idle.
Init ==
  /\ state = [t \in Threads |-> {"RUN"}]
  /\ stack = [t \in Threads |-> "own"]
  /\ thState = [t \in Threads |-> "RUNNABLE"]
  /\ waitQueue = [t \in Threads |-> NoBucket]
  /\ waitEvent = [t \in Threads |-> NoEvent]
  /\ waitResult = [t \in Threads |-> "none"]
  /\ wakeActive = [t \in Threads |-> FALSE]
  /\ wakeLock = [t \in Threads |-> NoThread]
  /\ timerSet = [t \in Threads |-> FALSE]
  /\ timerCall = [t \in Threads |-> "idle"]
  /\ refCount = [t \in Threads |-> 0]
  /\ timed = [t \in Threads |-> FALSE]
  /\ wq = [b \in Buckets |-> <<>>]
  /\ ready = [t \in Threads |-> 1]
  /\ cpu = [p \in Cpus |-> Idle]
  /\ phase = [p \in Cpus |-> "run"]
  /\ old = [p \in Cpus |-> Idle]
  /\ new = [p \in Cpus |-> Idle]
  /\ cont = [p \in Cpus |-> FALSE]
  /\ pc = [t \in Threads |-> "run"]
  /\ target = [t \in Threads |-> NoThread]
  /\ caller = [c \in Callers |-> NoCaller]

(***************************************************************************)
(* Helpers                                                                 *)
(***************************************************************************)
Executing(t) == \E p \in Cpus : cpu[p] = t /\ phase[p] = "run"

\* The locals of a processor outside thread_block are dead: they are reset.
EndBlock(p) ==
  /\ phase' = [phase EXCEPT ![p] = "run"]
  /\ old' = [old EXCEPT ![p] = Idle]
  /\ new' = [new EXCEPT ![p] = Idle]
  /\ cont' = [cont EXCEPT ![p] = FALSE]

GoTo(t, from, to) == pc[t] = from /\ pc' = [pc EXCEPT ![t] = to]

\* Faulty variants: wait_event left behind; the links left behind.
DequeueKeepsEvent(b, W) ==
  /\ wq' = [wq EXCEPT ![b] = Without(@, W)]
  /\ waitQueue' = [t \in Threads |-> IF t \in W THEN NoBucket ELSE waitQueue[t]]
  /\ UNCHANGED waitEvent

DequeueKeepsLinks(b, W) ==
  /\ waitQueue' = [t \in Threads |-> IF t \in W THEN NoBucket ELSE waitQueue[t]]
  /\ waitEvent' = [t \in Threads |-> IF t \in W THEN NoEvent ELSE waitEvent[t]]
  /\ UNCHANGED wq

\* wait_queue_select_*, wait_queue_remove: off the queue, under both locks.
Dequeue(b, W) ==
  /\ wq' = [wq EXCEPT ![b] = Without(@, W)]
  /\ waitQueue' = [t \in Threads |-> IF t \in W THEN NoBucket ELSE waitQueue[t]]
  /\ waitEvent' = [t \in Threads |-> IF t \in W THEN NoEvent ELSE waitEvent[t]]

\* What thread_setrun does to the run queues for the threads of W.
SetRun(W) == [t \in Threads |-> IF t \in W THEN ready[t] + 1 ELSE ready[t]]

\* Faulty variants of thread_go_locked: TH_RUN is not looked at before the
\* thread is enqueued; th_state is left as the policy had it; only a wakeup enqueues it.
GoLockedEnqueues(W, result) ==
  LET waiting == {t \in W : "WAIT" \in state[t]} IN
  /\ state' = [t \in Threads |-> IF t \in waiting
                 THEN (state[t] \ {"WAIT"}) \cup {"RUN"} ELSE state[t]]
  /\ ready' = SetRun(waiting)
  /\ thState' = [t \in Threads |-> IF t \in W THEN "RUNNABLE" ELSE thState[t]]
  /\ waitResult' = [t \in Threads |-> IF t \in waiting THEN result
                                                       ELSE waitResult[t]]
  /\ UNCHANGED stack

GoLockedKeepsThState(W, result) ==
  LET waiting == {t \in W : "WAIT" \in state[t]} IN
  /\ state' = [t \in Threads |-> IF t \in waiting
                 THEN (state[t] \ {"WAIT"}) \cup {"RUN"} ELSE state[t]]
  /\ ready' = SetRun({t \in waiting : "RUN" \notin state[t]})
  /\ waitResult' = [t \in Threads |-> IF t \in waiting THEN result
                                                       ELSE waitResult[t]]
  /\ UNCHANGED <<stack, thState>>

GoLockedSetsRunAwakened(W, result) ==
  LET waiting == {t \in W : "WAIT" \in state[t]} IN
  /\ state' = [t \in Threads |-> IF t \in waiting
                 THEN (state[t] \ {"WAIT"}) \cup {"RUN"} ELSE state[t]]
  /\ ready' = SetRun({t \in waiting : /\ "RUN" \notin state[t]
                                     /\ result = "awakened"})
  /\ thState' = [t \in Threads |-> IF t \in W THEN "RUNNABLE" ELSE thState[t]]
  /\ waitResult' = [t \in Threads |-> IF t \in waiting THEN result
                                                       ELSE waitResult[t]]
  /\ UNCHANGED stack

\* thread_go_locked on each thread of W: only a thread that waits is touched,
\* only one that has really stopped is enqueued, and th_state is forced.
GoLocked(W, result) ==
  LET waiting == {t \in W : "WAIT" \in state[t]} IN
  /\ state' = [t \in Threads |-> IF t \in waiting
                 THEN (state[t] \ {"WAIT"}) \cup {"RUN"} ELSE state[t]]
  /\ ready' = SetRun({t \in waiting : "RUN" \notin state[t]})
  /\ thState' = [t \in Threads |-> IF t \in W THEN "RUNNABLE" ELSE thState[t]]
  /\ waitResult' = [t \in Threads |-> IF t \in waiting THEN result
                                                       ELSE waitResult[t]]
  /\ UNCHANGED stack

WaitersFor(e) == {t \in ToSet(wq[BucketOf[e]]) : waitEvent[t] = e}

\* _wait_queue_select_one: the first in the queue that waits for e.
FirstWaiter(e) ==
  LET q == wq[BucketOf[e]] IN Kept(q, {i \in DOMAIN q : waitEvent[q[i]] = e})[1]

\* thread_wakeup: every waiter of the event.
Wakeup(e, W) == Dequeue(BucketOf[e], W) /\ GoLocked(W, "awakened")

(***************************************************************************)
(* assert_wait, thread_set_timer, thread_cancel_timer                      *)
(***************************************************************************)
\* wait_queue_assert_wait_locked and thread_mark_wait_locked.
MarkWait(t, e, mode) ==
  LET b == BucketOf[e] IN
  /\ wq' = [wq EXCEPT ![b] = IF t \in Privileged THEN <<t>> \o @
                                                 ELSE Append(@, t)]
  /\ waitQueue' = [waitQueue EXCEPT ![t] = b]
  /\ waitEvent' = [waitEvent EXCEPT ![t] = e]
  /\ waitResult' = [waitResult EXCEPT ![t] = "none"]
  /\ state' = [state EXCEPT ![t] =
                 @ \cup IF mode = "unint" THEN {"WAIT", "UNINT"} ELSE {"WAIT"}]
  /\ timed' = [timed EXCEPT ![t] = FALSE]
  /\ UNCHANGED <<stack, thState, ready, timerSet, timerCall, refCount>>

AssertWait(t) ==
  /\ t \in Sleepers /\ Executing(t)
  /\ GoTo(t, "run", "asserted")
  /\ \E e \in Events, mode \in WaitModes : MarkWait(t, e, mode)
  /\ UNCHANGED <<wakeVars, cpuVars, target, caller>>

\* Faulty variant: wait_timer_is_set is forgotten.
SetTimerForgotten(t) ==
  /\ t \in TimedSleepers /\ Executing(t)
  /\ GoTo(t, "asserted", "armed")
  /\ refCount[t] < MaxRefs
  /\ timerCall' = [timerCall EXCEPT ![t] = "delayed"]
  /\ refCount' = [refCount EXCEPT ![t] = @ + 1]
  /\ timed' = [timed EXCEPT ![t] = "WAIT" \in state[t]]
  /\ UNCHANGED <<timerSet, waitVars, stateVars, wakeVars, cpuVars, target,
                 caller>>

\* thread_set_timer: nothing unless the thread still waits.
ThreadSetTimer(t) ==
  /\ t \in TimedSleepers /\ Executing(t)
  /\ GoTo(t, "asserted", "armed")
  /\ IF "WAIT" \in state[t]
     THEN /\ refCount[t] < MaxRefs
          /\ timerCall' = [timerCall EXCEPT ![t] = "delayed"]
          /\ refCount' = [refCount EXCEPT ![t] = @ + 1]
          /\ timerSet' = [timerSet EXCEPT ![t] = TRUE]
          /\ timed' = [timed EXCEPT ![t] = TRUE]
     ELSE UNCHANGED timerVars
  /\ UNCHANGED <<waitVars, stateVars, wakeVars, cpuVars, target, caller>>

\* Faulty variants: the reference is dropped even if the callout could not be
\* cancelled any more; a callout that runs already leaves the timer marked.
CancelTimerAlwaysDrops(t) ==
  /\ Executing(t) /\ GoTo(t, "woken", "run")
  /\ timerSet' = [timerSet EXCEPT ![t] = FALSE]
  /\ timerCall' = [timerCall EXCEPT ![t] = IF timerSet[t] THEN "idle" ELSE @]
  /\ refCount' = [refCount EXCEPT ![t] = IF timerSet[t] THEN @ - 1 ELSE @]
  /\ UNCHANGED <<timed, waitVars, stateVars, wakeVars, cpuVars, target, caller>>

CancelTimerUnlessRunning(t) ==
  /\ Executing(t) /\ GoTo(t, "woken", "run")
  /\ IF timerSet[t] /\ timerCall[t] # "idle"
     THEN /\ timerSet' = [timerSet EXCEPT ![t] = FALSE]
          /\ timerCall' = [timerCall EXCEPT ![t] = "idle"]
          /\ refCount' = [refCount EXCEPT ![t] = @ - 1]
          /\ UNCHANGED timed
     ELSE UNCHANGED timerVars
  /\ UNCHANGED <<waitVars, stateVars, wakeVars, cpuVars, target, caller>>

\* The waiter's epilogue: thread_cancel_timer.
ThreadCancelTimer(t) ==
  /\ Executing(t) /\ GoTo(t, "woken", "run")
  /\ IF timerSet[t]
     THEN /\ timerSet' = [timerSet EXCEPT ![t] = FALSE]
          /\ timerCall' = [timerCall EXCEPT ![t] = "idle"]
          /\ refCount' = [refCount EXCEPT
                            ![t] = IF timerCall[t] = "idle" THEN @ ELSE @ - 1]
          /\ UNCHANGED timed
     ELSE UNCHANGED timerVars
  /\ UNCHANGED <<waitVars, stateVars, wakeVars, cpuVars, target, caller>>

(***************************************************************************)
(* The wait timer's callout and clear_wait, run by the Callers.            *)
(***************************************************************************)
\* _delayed_call_interrupt: the deadline passes.
DelayedCallInterrupt(t) ==
  /\ timerCall[t] = "delayed"
  /\ timerCall' = [timerCall EXCEPT ![t] = "pending"]
  /\ UNCHANGED <<waitVars, stateVars, wakeVars, timerSet, refCount, timed,
                 cpuVars, progVars, caller>>

\* _call_thread takes the call off the pending queue, before it runs it.
CallThreadDequeue(c, t) ==
  /\ caller[c] = NoCaller /\ timerCall[t] = "pending"
  /\ timerCall' = [timerCall EXCEPT ![t] = "idle"]
  /\ caller' = [caller EXCEPT ![c] = [pc |-> "expire", thread |-> t,
                             queue |-> NoBucket, result |-> "timed_out"]]
  /\ UNCHANGED <<waitVars, stateVars, wakeVars, timerSet, refCount, timed,
                 cpuVars, progVars>>

\* The end of a caller: thread_timer_expire drops its reference.
Finish(c, t, result) ==
  /\ caller' = [caller EXCEPT ![c] = NoCaller]
  /\ refCount' = IF result = "timed_out"
                 THEN [refCount EXCEPT ![t] = @ - 1] ELSE refCount

\* clear_wait_internal up to the point where wait_queue_remove drops the
\* thread lock, to take the wait queue's lock first.
ClearWaitInternal(c, t, result) ==
  IF waitQueue[t] = NoBucket
  THEN /\ GoLocked({t}, result)
       /\ Finish(c, t, result)
       /\ UNCHANGED queueVars
  ELSE /\ caller' = [caller EXCEPT ![c] = [pc |-> "remove", thread |-> t,
                            queue |-> waitQueue[t], result |-> result]]
       /\ UNCHANGED <<waitVars, stateVars, refCount>>

\* thread_timer_expire: a timer cancelled, or set anew since, is ignored.
ThreadTimerExpire(c) ==
  /\ caller[c] # NoCaller /\ caller[c].pc = "expire"
  /\ LET t == caller[c].thread IN
     IF timerSet[t] /\ timerCall[t] # "delayed"
     THEN /\ timerSet' = [timerSet EXCEPT ![t] = FALSE]
          /\ ClearWaitInternal(c, t, "timed_out")
     ELSE /\ Finish(c, t, "timed_out")
          /\ UNCHANGED <<timerSet, waitVars, stateVars>>
  /\ UNCHANGED <<wakeVars, timerCall, timed, cpuVars, progVars>>

\* The body of clear_wait under the thread lock.
DoClearWait(c, t, result, interruptible) ==
  IF ~interruptible \/ "UNINT" \notin state[t]
  THEN ClearWaitInternal(c, t, result)
  ELSE /\ Finish(c, t, result)
       /\ UNCHANGED <<waitVars, stateVars>>

\* clear_wait by a signal poster, or by a callout for a thread it knows.
ClearWait(c, t) ==
  /\ t \in ClearTargets /\ caller[c] = NoCaller
  /\ \E interruptible \in ClearModes :
       DoClearWait(c, t, "interrupted", interruptible)
  /\ UNCHANGED <<wakeVars, timerSet, timerCall, timed, cpuVars, progVars>>

\* wait_queue_remove, once it has both locks again.
WaitQueueRemove(c) ==
  /\ caller[c] # NoCaller /\ caller[c].pc = "remove"
  /\ LET t == caller[c].thread IN
     /\ IF waitQueue[t] = caller[c].queue
        THEN /\ Dequeue(caller[c].queue, {t})
             /\ GoLocked({t}, caller[c].result)
        ELSE UNCHANGED <<waitVars, stateVars>>
     /\ Finish(c, t, caller[c].result)
  /\ UNCHANGED <<wakeVars, timerSet, timerCall, timed, cpuVars, progVars>>

\* thread_abort: mark the thread, then, if it is seen waiting, clear_wait.
ActAbort(c, t) ==
  /\ t \in AbortTargets /\ caller[c] = NoCaller
  /\ state' = [state EXCEPT ![t] = @ \cup {"ABORT"}]
  /\ caller' = [caller EXCEPT ![c] = [pc |-> "abort", thread |-> t,
                             queue |-> NoBucket, result |-> "interrupted"]]
  /\ UNCHANGED <<waitVars, stack, thState, ready, wakeVars, timerVars, cpuVars,
                 progVars>>

ActAbortCheck(c) ==
  /\ caller[c] # NoCaller /\ caller[c].pc = "abort"
  /\ caller' = [caller EXCEPT ![c] =
                  IF "WAIT" \in state[caller[c].thread]
                  THEN [@ EXCEPT !.pc = "clear"] ELSE NoCaller]
  /\ UNCHANGED <<waitVars, stateVars, wakeVars, timerVars, cpuVars, progVars>>

ActAbortClear(c) ==
  /\ caller[c] # NoCaller /\ caller[c].pc = "clear"
  /\ DoClearWait(c, caller[c].thread, "interrupted", TRUE)
  /\ UNCHANGED <<wakeVars, timerSet, timerCall, timed, cpuVars, progVars>>

\* special_handler, on the way back to user mode: the abort is consumed.
SpecialHandler(t) ==
  /\ Executing(t) /\ pc[t] = "run" /\ "ABORT" \in state[t]
  /\ state' = [state EXCEPT ![t] = @ \ {"ABORT"}]
  /\ UNCHANGED <<waitVars, stack, thState, ready, wakeVars, timerVars, cpuVars,
                 progVars, caller>>

(***************************************************************************)
(* thread_wakeup_prim, from any thread or interrupt handler                *)
(***************************************************************************)
ThreadWakeup(e) ==
  /\ WaitersFor(e) # {}
  /\ Wakeup(e, WaitersFor(e))
  /\ UNCHANGED <<wakeVars, timerVars, cpuVars, progVars, caller>>

ThreadWakeupOne(e) ==
  /\ WaitersFor(e) # {}
  /\ Wakeup(e, {FirstWaiter(e)})
  /\ UNCHANGED <<wakeVars, timerVars, cpuVars, progVars, caller>>

(***************************************************************************)
(* thread_block_reason: two-stage blocking                                 *)
(***************************************************************************)
\* The program counter of a thread once its thread_block returns.
AfterBlock == [asserted |-> "woken", armed |-> "woken", run |-> "run",
               stopSleep |-> "stopWoken", waitSleep |-> "waitWoken"]

\* thread_select.  The running thread is kept only if its state is exactly
\* TH_RUN; the idle thread is chosen only if nothing else is ready.
Select(p, st) ==
  \/ /\ cpu[p] # Idle /\ st = {"RUN"} /\ stack[cpu[p]] = "own"
     /\ new' = [new EXCEPT ![p] = cpu[p]]
     /\ UNCHANGED ready
  \/ \E t \in Threads :
       /\ ready[t] > 0
       /\ ready' = [ready EXCEPT ![t] = @ - 1]
       /\ new' = [new EXCEPT ![p] = t]
  \/ /\ \A t \in Threads : ready[t] = 0
     /\ cpu[p] # Idle /\ (st # {"RUN"} \/ stack[cpu[p]] # "own")
     /\ new' = [new EXCEPT ![p] = Idle]
     /\ UNCHANGED ready

\* Faulty variant: TH_ABORT is not looked at.
ThreadBlockIgnoresAbort(p, t) ==
  /\ cpu[p] = t /\ phase[p] = "run"
  /\ pc[t] \in DOMAIN AfterBlock
  /\ pc[t] = "run" => t \in Yielders
  /\ pc' = [pc EXCEPT ![t] = AfterBlock[pc[t]]]
  /\ phase' = [phase EXCEPT ![p] = "selected"]
  /\ \E k \in Continuations : cont' = [cont EXCEPT ![p] = k]
  /\ Select(p, state[t] \ {"ABORT"})
  /\ UNCHANGED <<waitVars, state, stack, thState, wakeVars, timerVars, cpu,
                 old, target, caller>>

\* thread_block by the thread on p.  An aborted thread does not wait at all:
\* clear_wait_internal on itself, then thread_select.
ThreadBlock(p, t) ==
  /\ cpu[p] = t /\ phase[p] = "run"
  /\ pc[t] \in DOMAIN AfterBlock
  /\ pc[t] = "run" => t \in Yielders
  /\ pc' = [pc EXCEPT ![t] = AfterBlock[pc[t]]]
  /\ phase' = [phase EXCEPT ![p] = "selected"]
  /\ \E k \in Continuations : cont' = [cont EXCEPT ![p] = k]
  /\ IF "ABORT" \in state[t]
     THEN LET awake == state[t] \ {"WAIT"} IN
          /\ IF waitQueue[t] = NoBucket THEN UNCHANGED queueVars
                                        ELSE Dequeue(waitQueue[t], {t})
          /\ state' = [state EXCEPT ![t] = awake]
          /\ thState' = [thState EXCEPT ![t] = "RUNNABLE"]
          /\ waitResult' = [waitResult EXCEPT
                 ![t] = IF "WAIT" \in state[t] THEN "interrupted" ELSE @]
          /\ Select(p, awake)
     ELSE /\ Select(p, state[t])
          /\ UNCHANGED <<waitVars, state, thState>>
  /\ UNCHANGED <<stack, wakeVars, timerVars, cpu, old, target, caller>>

\* idle_thread_continue: something is ready; the idle thread runs it.
IdleRun(p) ==
  /\ cpu[p] = Idle /\ phase[p] = "run"
  /\ \E t \in Threads : ready[t] > 0
  /\ Select(p, {})
  /\ phase' = [phase EXCEPT ![p] = "selected"]
  /\ UNCHANGED <<waitVars, state, stack, thState, wakeVars, timerVars, cpu, old,
                 cont, progVars, caller>>

\* The retry loop of thread_block_reason after a failed thread_invoke.
Reselect(p) ==
  /\ phase[p] = "reselect"
  /\ IF cpu[p] = Idle
     THEN \/ Select(p, {}) /\ phase' = [phase EXCEPT ![p] = "selected"]
          \/ /\ \A t \in Threads : ready[t] = 0
             /\ phase' = [phase EXCEPT ![p] = "run"]
             /\ UNCHANGED <<ready, new>>
     ELSE Select(p, state[cpu[p]]) /\ phase' = [phase EXCEPT ![p] = "selected"]
  /\ UNCHANGED <<waitVars, state, stack, thState, wakeVars, timerVars, cpu, old,
                 cont, progVars, caller>>

\* thread_invoke marks the new thread interruptible.
Interruptible(n) == [t \in Threads |-> IF t = n THEN state[t] \ {"UNINT"}
                                                ELSE state[t]]

\* _mk_sp_thread_done: a thread taken off a processor while it waits.
ThreadDone(o) == [t \in Threads |-> IF t = o /\ "WAIT" \in state[t]
                                    THEN "BLOCKED" ELSE thState[t]]

InvokeSame(p) ==
  /\ phase[p] = "selected" /\ new[p] = cpu[p]
  /\ state' = Interruptible(new[p])
  /\ EndBlock(p)
  /\ UNCHANGED <<waitVars, stack, thState, ready, wakeVars, timerVars, cpu,
                 progVars, caller>>

\* The stack handoff applies to an old thread with a continuation and a new
\* thread without a stack.
HandsOff(p) == cont[p] /\ cpu[p] # Idle /\ new[p] # Idle
                       /\ stack[new[p]] = "handoff"

\* stack_alloc_try fails: the new thread goes to the swapin thread.
InvokeMiss(p) ==
  /\ phase[p] = "selected" /\ new[p] # cpu[p] /\ new[p] # Idle
  /\ ~HandsOff(p) /\ stack[new[p]] = "handoff" /\ TRUE \in StackMisses
  /\ state' = Interruptible(new[p])
  /\ stack' = [stack EXCEPT ![new[p]] = "coming_in"]
  /\ phase' = [phase EXCEPT ![p] = "reselect"]
  /\ new' = [new EXCEPT ![p] = Idle]
  /\ UNCHANGED <<waitVars, thState, ready, wakeVars, timerVars, cpu, old, cont,
                 progVars, caller>>

\* The ordinary path: sp_thread_done on the old thread, switch_context.  The
\* new thread then has the old one to dispatch.
InvokeSwitch(p) ==
  /\ phase[p] = "selected" /\ new[p] # cpu[p] /\ ~HandsOff(p)
  /\ state' = Interruptible(new[p])
  /\ stack' = [t \in Threads |-> IF t = new[p] THEN "own" ELSE stack[t]]
  /\ thState' = ThreadDone(cpu[p])
  /\ cpu' = [cpu EXCEPT ![p] = new[p]]
  /\ old' = [old EXCEPT ![p] = cpu[p]]
  /\ phase' = [phase EXCEPT ![p] = "dispatch"]
  /\ UNCHANGED <<waitVars, ready, wakeVars, timerVars, new, cont, progVars,
                 caller>>

\* The handoff path: the new thread takes over the stack at once; the old one
\* is dispatched, and only then is the policy told that it is done.
InvokeHandoff(p) ==
  /\ phase[p] = "selected" /\ new[p] # cpu[p] /\ HandsOff(p)
  /\ state' = Interruptible(new[p])
  /\ stack' = [stack EXCEPT ![new[p]] = "own"]
  /\ cpu' = [cpu EXCEPT ![p] = new[p]]
  /\ old' = [old EXCEPT ![p] = cpu[p]]
  /\ phase' = [phase EXCEPT ![p] = "handoff"]
  /\ UNCHANGED <<waitVars, thState, ready, wakeVars, timerVars, new, cont,
                 progVars, caller>>

\* Faulty variant: wake_active is cleared, but nobody is woken.
DispatchedSilently(p, o, wakePhase, endPhase) ==
  /\ phase' = [phase EXCEPT ![p] = endPhase]
  /\ IF "WAIT" \notin state[o]
     THEN /\ ready' = SetRun(IF thState[o] = "RUNNABLE" THEN {o} ELSE {})
          /\ UNCHANGED <<state, wakeActive>>
     ELSE /\ state' = [state EXCEPT ![o] = @ \ {"RUN"}]
          /\ wakeActive' = [wakeActive EXCEPT ![o] = FALSE]
          /\ UNCHANGED ready

\* The switch of thread_dispatch.  A thread that runs goes back on the run
\* queue if its policy holds it runnable (_mk_sp_thread_dispatch); a thread
\* that waits loses TH_RUN, and whoever waits for that is to be woken.
Dispatched(p, o, wakePhase, endPhase) ==
  IF "WAIT" \notin state[o]
  THEN /\ ready' = SetRun(IF thState[o] = "RUNNABLE" THEN {o} ELSE {})
       /\ phase' = [phase EXCEPT ![p] = endPhase]
       /\ UNCHANGED <<state, wakeActive>>
  ELSE /\ state' = [state EXCEPT ![o] = @ \ {"RUN"}]
       /\ wakeActive' = [wakeActive EXCEPT ![o] = FALSE]
       /\ phase' = [phase EXCEPT ![p] = IF wakeActive[o] THEN wakePhase
                                                        ELSE endPhase]
       /\ UNCHANGED ready

\* thread_dispatch, under wake_lock and thread_lock of the old thread.
ThreadDispatch(p) ==
  /\ phase[p] = "dispatch"
  /\ IF old[p] = Idle
     THEN EndBlock(p) /\ UNCHANGED <<stateVars, wakeActive>>
     ELSE /\ wakeLock[old[p]] = NoThread
          /\ Dispatched(p, old[p], "wake", "run")
          /\ stack' = [stack EXCEPT ![old[p]] = IF cont[p] THEN "handoff" ELSE @]
          /\ IF "WAIT" \in state[old[p]] /\ wakeActive[old[p]]
             THEN UNCHANGED <<old, new, cont>>
             ELSE /\ old' = [old EXCEPT ![p] = Idle]
                  /\ new' = [new EXCEPT ![p] = Idle]
                  /\ cont' = [cont EXCEPT ![p] = FALSE]
          /\ UNCHANGED thState
  /\ UNCHANGED <<waitVars, wakeLock, timerVars, cpu, progVars, caller>>

\* thread_wakeup((event_t)&old_thread->wake_active), with no lock held.
DispatchWake(p) ==
  /\ phase[p] = "wake"
  /\ Wakeup(WakeEvent[old[p]], WaitersFor(WakeEvent[old[p]]))
  /\ EndBlock(p)
  /\ UNCHANGED <<wakeVars, timerVars, cpu, progVars, caller>>

\* The dispatch inlined in the handoff path takes the thread lock only.
HandoffDispatch(p) ==
  /\ phase[p] = "handoff"
  /\ Dispatched(p, old[p], "handoffWake", "handoffDone")
  /\ stack' = [stack EXCEPT ![old[p]] = "handoff"]
  /\ UNCHANGED <<waitVars, thState, wakeLock, timerVars, cpu, old, new, cont,
                 progVars, caller>>

HandoffWake(p) ==
  /\ phase[p] = "handoffWake"
  /\ Wakeup(WakeEvent[old[p]], WaitersFor(WakeEvent[old[p]]))
  /\ phase' = [phase EXCEPT ![p] = "handoffDone"]
  /\ UNCHANGED <<wakeVars, timerVars, cpu, old, new, cont, progVars, caller>>

HandoffDone(p) ==
  /\ phase[p] = "handoffDone"
  /\ thState' = ThreadDone(old[p])
  /\ EndBlock(p)
  /\ UNCHANGED <<waitVars, state, stack, ready, wakeVars, timerVars, cpu,
                 progVars, caller>>

\* thread_doswapin: the swapin thread finds the thread a stack.
ThreadDoSwapin(t) ==
  /\ stack[t] = "coming_in"
  /\ stack' = [stack EXCEPT ![t] = "own"]
  /\ ready' = SetRun(IF "RUN" \in state[t] THEN {t} ELSE {})
  /\ UNCHANGED <<waitVars, state, thState, wakeVars, timerVars, cpuVars,
                 progVars, caller>>

(***************************************************************************)
(* thread_stop, thread_wait, thread_unstop                                 *)
(***************************************************************************)
ThreadStopWait(s) ==
  /\ s \in Stoppers /\ Executing(s)
  /\ GoTo(s, "run", "stop")
  /\ \E t \in StopTargets \ {s} : target' = [target EXCEPT ![s] = t]
  /\ UNCHANGED <<waitVars, stateVars, wakeVars, timerVars, cpuVars, caller>>

\* Faulty variant: a thread that is stopped already is stopped again.
ThreadStopAgain(s) ==
  /\ Executing(s) /\ pc[s] = "stop"
  /\ wakeLock[target[s]] = NoThread
  /\ GoTo(s, "stop", "wait")
  /\ state' = [state EXCEPT ![target[s]] = @ \cup {"SUSP"}]
  /\ UNCHANGED <<waitVars, stack, thState, ready, wakeVars, timerVars,
                 cpuVars, target, caller>>

\* thread_stop: take wake_lock; stop the thread, or prepare to wait for the
\* thread_unstop of whoever stopped it.
ThreadStop(s) ==
  /\ Executing(s) /\ pc[s] = "stop"
  /\ LET t == target[s] IN
     /\ wakeLock[t] = NoThread
     /\ IF "SUSP" \in state[t]
        THEN /\ GoTo(s, "stop", "stopMark")
             /\ wakeLock' = [wakeLock EXCEPT ![t] = s]
             /\ UNCHANGED state
        ELSE /\ GoTo(s, "stop", "wait")
             /\ state' = [state EXCEPT ![t] = @ \cup {"SUSP"}]
             /\ UNCHANGED wakeLock
  /\ UNCHANGED <<waitVars, stack, thState, ready, wakeActive, timerVars,
                 cpuVars, target, caller>>

\* thread_wait: the target's TH_RUN is read under wake_lock alone.
ThreadWait(s) ==
  /\ Executing(s) /\ pc[s] = "wait"
  /\ LET t == target[s] IN
     /\ wakeLock[t] = NoThread
     /\ IF "RUN" \in state[t]
        THEN /\ GoTo(s, "wait", "waitMark")
             /\ wakeLock' = [wakeLock EXCEPT ![t] = s]
        ELSE GoTo(s, "wait", "stopped") /\ UNCHANGED wakeLock
  /\ UNCHANGED <<waitVars, stateVars, wakeActive, timerVars, cpuVars, target,
                 caller>>

\* thread->wake_active = TRUE
MarkWakeActive(s) ==
  /\ Executing(s)
  /\ \/ GoTo(s, "stopMark", "stopAssert")
     \/ GoTo(s, "waitMark", "waitAssert")
  /\ wakeActive' = [wakeActive EXCEPT ![target[s]] = TRUE]
  /\ UNCHANGED <<waitVars, stateVars, wakeLock, timerVars, cpuVars, target,
                 caller>>

\* assert_wait(&thread->wake_active); wake_unlock(thread)
AssertWakeActive(s) ==
  /\ Executing(s)
  /\ \/ GoTo(s, "stopAssert", "stopSleep")
     \/ GoTo(s, "waitAssert", "waitSleep")
  /\ MarkWait(s, WakeEvent[target[s]], "int")
  /\ wakeLock' = [wakeLock EXCEPT ![target[s]] = NoThread]
  /\ UNCHANGED <<wakeActive, cpuVars, target, caller>>

\* After the thread_block: an interrupted thread_stop gives up, an interrupted
\* thread_wait undoes the stop.
AfterSleep(s) ==
  /\ Executing(s)
  /\ LET awakened == waitResult[s] = "awakened" IN
     \/ GoTo(s, "stopWoken", IF awakened THEN "stop" ELSE "run")
     \/ GoTo(s, "waitWoken", IF awakened THEN "wait" ELSE "unstop")
  /\ target' = [target EXCEPT ![s] = IF pc'[s] = "run" THEN NoThread ELSE @]
  /\ UNCHANGED <<waitVars, stateVars, wakeVars, timerVars, cpuVars, caller>>

ThreadUnstop(s) ==
  /\ Executing(s) /\ pc[s] \in {"stopped", "unstop"}
  /\ LET t == target[s]
         toWake == "SUSP" \in state[t] /\ wakeActive[t] IN
     /\ wakeLock[t] = NoThread
     /\ IF state[t] \cap {"RUN", "WAIT", "SUSP"} = {"SUSP"}
        THEN /\ state' = [state EXCEPT ![t] = (@ \ {"SUSP"}) \cup {"RUN"}]
             /\ thState' = [thState EXCEPT ![t] = "RUNNABLE"]
             /\ ready' = SetRun({t})
             /\ UNCHANGED wakeActive
             /\ pc' = [pc EXCEPT ![s] = "run"]
             /\ target' = [target EXCEPT ![s] = NoThread]
        ELSE /\ state' = [state EXCEPT ![t] = @ \ {"SUSP"}]
             /\ wakeActive' = [wakeActive EXCEPT ![t] = @ /\ ~toWake]
             /\ pc' = [pc EXCEPT ![s] = IF toWake THEN "unstopWake" ELSE "run"]
             /\ target' = [target EXCEPT ![s] = IF toWake THEN @ ELSE NoThread]
             /\ UNCHANGED <<thState, ready>>
  /\ UNCHANGED <<waitVars, stack, wakeLock, timerVars, cpuVars, caller>>

UnstopWake(s) ==
  /\ Executing(s) /\ GoTo(s, "unstopWake", "run")
  /\ Wakeup(WakeEvent[target[s]], WaitersFor(WakeEvent[target[s]]))
  /\ target' = [target EXCEPT ![s] = NoThread]
  /\ UNCHANGED <<wakeVars, timerVars, cpuVars, caller>>

(***************************************************************************)
(* The specification                                                       *)
(***************************************************************************)
\* The steps of processor p inside thread_block.
CpuStep(p) ==
  \/ Reselect(p) \/ InvokeSame(p) \/ InvokeMiss(p) \/ InvokeSwitch(p)
  \/ InvokeHandoff(p) \/ ThreadDispatch(p) \/ DispatchWake(p)
  \/ HandoffDispatch(p) \/ HandoffWake(p) \/ HandoffDone(p)

\* What a thread that started a wait, a stop or an unstop goes on to do.
ThreadStep(t) ==
  \/ ThreadSetTimer(t) \/ ThreadCancelTimer(t)
  \/ ThreadStop(t) \/ ThreadWait(t) \/ MarkWakeActive(t)
  \/ AssertWakeActive(t) \/ AfterSleep(t) \/ ThreadUnstop(t) \/ UnstopWake(t)

CallerStep(c) ==
  \/ ThreadTimerExpire(c) \/ WaitQueueRemove(c)
  \/ ActAbortCheck(c) \/ ActAbortClear(c)

Next ==
  \/ \E p \in Cpus : CpuStep(p) \/ IdleRun(p)
  \/ \E p \in Cpus, t \in Threads : ThreadBlock(p, t)
  \/ \E t \in Threads : \/ AssertWait(t) \/ ThreadStopWait(t) \/ ThreadStep(t)
                        \/ SpecialHandler(t) \/ ThreadDoSwapin(t)
                        \/ DelayedCallInterrupt(t)
  \/ \E c \in Callers : CallerStep(c)
  \/ \E c \in Callers, t \in Threads :
       CallThreadDequeue(c, t) \/ ClearWait(c, t) \/ ActAbort(c, t)
  \/ \E e \in Events : ThreadWakeup(e) \/ ThreadWakeupOne(e)

Spec == Init /\ [][Next]_vars

\* Processors run: a thread that executes goes on with what it began and does
\* block when it said it would, an idle processor takes what is ready, clock
\* interrupts and callout threads come.  Nobody has to start a wait, post an
\* event, abort, yield or clear a wait.
Fairness ==
  /\ \A p \in Cpus :
       /\ WF_vars(CpuStep(p))
       /\ WF_vars(IdleRun(p))
       /\ \A t \in Threads : WF_vars(pc[t] # "run" /\ ThreadBlock(p, t))
  /\ \A t \in Threads : /\ WF_vars(ThreadStep(t))
                        /\ WF_vars(ThreadDoSwapin(t))
                        /\ WF_vars(DelayedCallInterrupt(t))
                        /\ WF_vars(\E c \in Callers : CallThreadDequeue(c, t))
  /\ \A c \in Callers : WF_vars(CallerStep(c))

FairSpec == Spec /\ Fairness

(***************************************************************************)
(* Properties                                                              *)
(***************************************************************************)
\* The places where a thread that has TH_RUN is kept, counted.
Places(t) ==
  ready[t]
  + Cardinality({p \in Cpus : cpu[p] = t})
  + Cardinality({p \in Cpus : phase[p] = "selected" /\ new[p] = t
                                                    /\ new[p] # cpu[p]})
  + Cardinality({p \in Cpus : phase[p] \in {"dispatch", "handoff"}
                                                    /\ old[p] = t})
  + IF stack[t] = "coming_in" THEN 1 ELSE 0

\* A thread with TH_RUN ("thread is running or on runq") is in exactly one
\* place: one run queue, one processor, the hands of a processor that switches
\* to or from it, or the swapin queue.  A thread without TH_RUN is in none.
\* So no wakeup between the two stages of blocking enqueues a thread twice or
\* lets two processors run it, and none is dropped by thread_dispatch.  And a
\* thread without TH_RUN waits: thread_unstop never has to start it itself.
ThreadInOnePlace == \A t \in Threads :
  /\ Places(t) = IF "RUN" \in state[t] THEN 1 ELSE 0
  /\ "RUN" \in state[t] \/ "WAIT" \in state[t]

\* TH_WAIT, thread->wait_queue and thread->wait_event agree, though clear_wait
\* and the timer end a wait after having dropped the lock they saw it under.
WaitStateConsistent ==
  \A t \in Threads :
    /\ "WAIT" \in state[t] <=> waitQueue[t] # NoBucket
    /\ "WAIT" \in state[t] <=> waitEvent[t] # NoEvent
    /\ waitEvent[t] # NoEvent => waitQueue[t] = BucketOf[waitEvent[t]]

\* The links of a wait queue hold exactly the threads that say they are on it,
\* each once.
WaitQueuesConsistent ==
  \A b \in Buckets : /\ IsInjective(wq[b])
                     /\ ToSet(wq[b]) = {t \in Threads : waitQueue[t] = b}

\* assert(thread_runnable(new_thread)) in thread_block_reason, thread_invoke
\* and, for a thread on the run queue, thread_setrun.
SelectedIsRunnable ==
  /\ \A p \in Cpus : phase[p] = "selected" /\ new[p] # Idle
                       => thState[new[p]] = "RUNNABLE"
  /\ \A t \in Threads : ready[t] > 0 => thState[t] = "RUNNABLE"

\* thread_abort is not lost: once TH_ABORT is set, an interruptible wait has
\* stopped the thread only while the aborter still has its clear_wait to do.
AbortNotLost ==
  \A t \in Threads :
    state[t] \cap {"ABORT", "RUN", "UNINT"} = {"ABORT"}
      => \E c \in Callers : caller[c] # NoCaller /\ caller[c].thread = t

\* The threads between a successful thread_stop of t and their thread_unstop.
StopOwners(t) ==
  {s \in Threads : target[s] = t /\ pc[s] \in
     {"wait", "waitMark", "waitAssert", "waitSleep", "waitWoken", "stopped",
      "unstop"}}

\* "If someone else has already stopped the thread, wait for the stop to be
\* cleared, and then stop it again": one stopper at a time, and TH_SUSP stays
\* set for as long as it is one.
StopIsExclusive ==
  \A t \in Threads : /\ \A s, u \in StopOwners(t) : s = u
                     /\ "SUSP" \in state[t] <=> StopOwners(t) # {}

\* A wakeup of &t->wake_active that is under way.
WakeInFlight(t) ==
  \/ \E p \in Cpus : phase[p] \in {"wake", "handoffWake"} /\ old[p] = t
  \/ \E s \in Threads : pc[s] = "unstopWake" /\ target[s] = t

\* wake_active "Someone is waiting for this thread to become suspended": as
\* long as a thread waits for &t->wake_active, either the flag is still set,
\* so that the next dispatch or unstop of t wakes it, or that wakeup is on its
\* way.  Otherwise thread_wait and thread_stop sleep through what they wait for.
WakeActiveCovered ==
  \A t \in Threads :
    WaitersFor(WakeEvent[t]) # {} => wakeActive[t] \/ WakeInFlight(t)

\* The expiry of a wait timer finds the reference thread_set_timer took: the
\* thread is not freed under the callout.
TimerHolders(t) ==
  Cardinality({c \in Callers : /\ caller[c] # NoCaller
                               /\ caller[c].thread = t
                               /\ caller[c].result = "timed_out"})
  + IF timerCall[t] = "idle" THEN 0 ELSE 1
TimerRefsCovered == \A t \in Threads : refCount[t] >= TimerHolders(t)

\* assert(!thread->wait_timer_is_set) in thread_set_timer; and a timer that is
\* marked as set has not been forgotten by the callout queue.
TimerNotSetTwice ==
  \A t \in Threads : /\ pc[t] \in {"run", "asserted"} => ~timerSet[t]
                     /\ timerSet[t] =>
                          \/ timerCall[t] # "idle"
                          \/ \E c \in Callers : /\ caller[c] # NoCaller
                                                /\ caller[c].thread = t
                                                /\ caller[c].pc = "expire"

\* The waits and wakeups of the hash table, the locks and the two-stage block
\* implement those of EventWait.
EW == INSTANCE EventWait WITH Results <- WaitResults
EventWaitSpec == EW!Spec

\* A thread whose wait has ended gets to execute again.
WokenRuns == \A t \in Threads :
  pc[t] = "woken" /\ "WAIT" \notin state[t] ~> Executing(t)

\* A wait with a timer ends, whatever the event does and whatever becomes of
\* callouts of earlier waits that fire late.
TimedWaitEnds == \A t \in Threads :
  timed[t] /\ "WAIT" \in state[t] ~> "WAIT" \notin state[t]

\* A stopper that sleeps in thread_stop gets up once the stop it waits for has
\* been cleared, one that sleeps in thread_wait once its target has lost TH_RUN,
\* even if the target is stopped or woken again before the stopper runs.
StopWaitReturns == \A s \in Threads :
  /\ pc[s] = "stopWoken" /\ "SUSP" \notin state[target[s]]
       ~> pc[s] # "stopWoken"
  /\ pc[s] = "waitWoken" /\ "RUN" \notin state[target[s]]
       ~> pc[s] # "waitWoken"

=============================================================================
