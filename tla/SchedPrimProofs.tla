--------------------------- MODULE SchedPrimProofs ---------------------------
(***************************************************************************)
(* Proofs about SchedPrim for any sets of threads, processors, events and  *)
(* callers.                                                                *)
(*                                                                         *)
(* Proved are the types of the waiting state (WaitTypeOK), that TH_WAIT,   *)
(* wait_queue and wait_event agree (WaitStateConsistent), that a thread    *)
(* has one stopper at a time (StopIsExclusive), and that the expiry of a   *)
(* wait timer finds its reference and its mark (TimerRefsCovered,          *)
(* TimerNotSetTwice).  What the actions do to these variables is           *)
(* classified first: each action starts a wait (MarkWait), ends the waits  *)
(* of a set of threads (EndWaits), or leaves the waits alone (KeepWaits).  *)
(* At the end, what taking threads off a wait queue leaves of its links.   *)
(***************************************************************************)
EXTENDS SchedPrim, FiniteSetTheorems, TLAPS

StopPCs == {"stop", "stopMark", "stopAssert", "stopSleep", "stopWoken",
            "wait", "waitMark", "waitAssert", "waitSleep", "waitWoken",
            "stopped", "unstop", "unstopWake"}
OwnerPCs == {"wait", "waitMark", "waitAssert", "waitSleep", "waitWoken",
             "stopped", "unstop"}

\* A thread inside thread_stop, thread_wait or thread_unstop has an argument.
StopTargetOK == \A s \in Threads : pc[s] \in StopPCs => target[s] \in Threads

\* The waits of the threads of W end, those of the others go on.
EndWaits(W) ==
  /\ waitQueue' = [t \in Threads |-> IF t \in W THEN NoBucket ELSE waitQueue[t]]
  /\ waitEvent' = [t \in Threads |-> IF t \in W THEN NoEvent ELSE waitEvent[t]]
  /\ \A t \in Threads :
       "WAIT" \in state'[t] <=> "WAIT" \in state[t] /\ t \notin W

KeepWaits ==
  /\ UNCHANGED <<waitQueue, waitEvent>>
  /\ \A t \in Threads : "WAIT" \in state'[t] <=> "WAIT" \in state[t]

\* One thread starts to wait.
StartWait ==
  \E t \in Threads, e \in AllEvents :
    /\ waitQueue' = [waitQueue EXCEPT ![t] = BucketOf[e]]
    /\ waitEvent' = [waitEvent EXCEPT ![t] = e]
    /\ \A u \in Threads :
         "WAIT" \in state'[u] <=> "WAIT" \in state[u] \/ u = t

WaitStep == StartWait \/ KeepWaits \/ \E W : EndWaits(W)

StateTypeOK == state \in [Threads -> SUBSET StateBits]

SuspKept == \A t \in Threads : "SUSP" \in state'[t] <=> "SUSP" \in state[t]

\* What no action but thread_stop and thread_unstop does not keep.
OwnersKept ==
  \A s \in Threads : /\ pc'[s] \in OwnerPCs <=> pc[s] \in OwnerPCs
                     /\ pc[s] \in OwnerPCs => target'[s] = target[s]

Inv == WaitTypeOK /\ StopTargetOK /\ WaitStateConsistent

LEMMA ConstantTypes ==
  /\ NoThread \notin Threads /\ Idle \notin Threads
  /\ \A e \in AllEvents : BucketOf[e] \in Buckets /\ e # NoEvent
  /\ \A b \in Buckets : b # NoBucket
  /\ \A t \in Threads : WakeEvent[t] \in AllEvents
  /\ Events \subseteq AllEvents /\ StopTargets \subseteq Threads
BY SchedPrimAssumption DEF AllEvents

------------------------------------------------------------------------------
\* Types.
LEMMA TypeInit == Init => WaitTypeOK /\ StopTargetOK
<1> SUFFICES ASSUME Init PROVE WaitTypeOK /\ StopTargetOK
  OBVIOUS
<1>1. WaitTypeOK
  BY DEF Init, WaitTypeOK, StateBits, ThreadPCs
<1>2. StopTargetOK
  BY DEF Init, StopTargetOK, StopPCs
<1> QED
  BY <1>1, <1>2

LEMMA MarkWaitStep ==
  ASSUME WaitTypeOK, NEW t \in Threads, NEW e \in AllEvents, NEW mode,
         MarkWait(t, e, mode)
  PROVE  StartWait /\ StateTypeOK' /\ SuspKept
<1>1. StartWait
  BY DEF MarkWait, StartWait, WaitTypeOK
<1>2. StateTypeOK' /\ SuspKept
  BY DEF MarkWait, WaitTypeOK, StateTypeOK, StateBits, SuspKept
<1> QED
  BY <1>1, <1>2

\* Dequeue and GoLocked together, for the same threads.
LEMMA WakeStep ==
  ASSUME WaitTypeOK, NEW b, NEW W, NEW result, Dequeue(b, W),
         GoLocked(W, result)
  PROVE  EndWaits(W) /\ StateTypeOK' /\ SuspKept
<1>1. EndWaits(W)
  BY DEF Dequeue, GoLocked, EndWaits, WaitTypeOK
<1>2. StateTypeOK' /\ SuspKept
  BY DEF GoLocked, WaitTypeOK, StateTypeOK, StateBits, SuspKept
<1> QED
  BY <1>1, <1>2

\* clear_wait_internal: if the thread is on no queue it does not wait, and
\* thread_go_locked leaves it alone.
LEMMA ClearWaitStep ==
  ASSUME Inv, NEW c, NEW t, NEW result,
         ClearWaitInternal(c, t, result)
  PROVE  KeepWaits /\ StateTypeOK' /\ SuspKept
<1>1. CASE waitQueue[t] # NoBucket
  BY <1>1 DEF ClearWaitInternal, KeepWaits, Inv, WaitTypeOK, StateTypeOK,
              SuspKept, waitVars, queueVars, stateVars
<1>2. CASE waitQueue[t] = NoBucket
  <2>1. UNCHANGED <<waitQueue, waitEvent>> /\ GoLocked({t}, result)
    BY <1>2 DEF ClearWaitInternal, queueVars
  <2>2. t \in Threads => "WAIT" \notin state[t]
    BY <1>2 DEF Inv, WaitStateConsistent
  <2>3. state' = [u \in Threads |-> state[u]]
    BY <2>1, <2>2 DEF GoLocked
  <2> QED
    BY <2>1, <2>3 DEF KeepWaits, Inv, WaitTypeOK, StateTypeOK, SuspKept
<1> QED
  BY <1>1, <1>2

------------------------------------------------------------------------------
\* The actions, group by group.
LEMMA QuietSteps ==
  ASSUME Inv, NEW c, NEW t, NEW p,
         \/ DelayedCallInterrupt(t) \/ CallThreadDequeue(c, t)
         \/ ActAbortCheck(c) \/ IdleRun(p) \/ Reselect(p) \/ HandoffDone(p)
         \/ ThreadDoSwapin(t)
  PROVE  UNCHANGED <<state, waitQueue, waitEvent, pc, target>>
BY DEF DelayedCallInterrupt, CallThreadDequeue, ActAbortCheck, IdleRun,
       Reselect, HandoffDone, ThreadDoSwapin, waitVars, queueVars, stateVars,
       progVars

LEMMA StateSteps ==
  ASSUME Inv, NEW c, NEW t, NEW p,
         \/ ActAbort(c, t) \/ SpecialHandler(t) \/ InvokeSame(p)
         \/ InvokeMiss(p) \/ InvokeSwitch(p) \/ InvokeHandoff(p)
         \/ ThreadDispatch(p) \/ HandoffDispatch(p)
  PROVE  /\ KeepWaits /\ StateTypeOK' /\ SuspKept
         /\ UNCHANGED <<pc, target>>
<1>1. UNCHANGED <<waitQueue, waitEvent, pc, target>>
  BY DEF ActAbort, SpecialHandler, InvokeSame, InvokeMiss, InvokeSwitch,
         InvokeHandoff, ThreadDispatch, HandoffDispatch, waitVars, queueVars,
         progVars
<1>2. CASE ActAbort(c, t) \/ SpecialHandler(t)
  BY <1>1, <1>2 DEF ActAbort, SpecialHandler, Inv, WaitTypeOK, StateBits,
                    KeepWaits, StateTypeOK, SuspKept
<1>3. CASE InvokeSame(p) \/ InvokeMiss(p) \/ InvokeSwitch(p) \/ InvokeHandoff(p)
  <2>1. state' = Interruptible(new[p])
    BY <1>3 DEF InvokeSame, InvokeMiss, InvokeSwitch, InvokeHandoff
  <2> QED
    BY <1>1, <2>1 DEF Interruptible, Inv, WaitTypeOK, StateBits, KeepWaits,
                      StateTypeOK, SuspKept
<1>4. CASE ThreadDispatch(p) \/ HandoffDispatch(p)
  <2>1. \/ UNCHANGED state
        \/ state' = [state EXCEPT ![old[p]] = @ \ {"RUN"}]
    BY <1>4 DEF ThreadDispatch, HandoffDispatch, Dispatched, stateVars
  <2> QED
    BY <1>1, <2>1 DEF Inv, WaitTypeOK, StateBits, KeepWaits, StateTypeOK,
                      SuspKept
<1> QED
  BY <1>1, <1>2, <1>3, <1>4

LEMMA WakeupSteps ==
  ASSUME Inv, NEW e, NEW p,
         \/ ThreadWakeup(e) \/ ThreadWakeupOne(e) \/ DispatchWake(p)
         \/ HandoffWake(p)
  PROVE  /\ WaitStep /\ StateTypeOK' /\ SuspKept
         /\ UNCHANGED <<pc, target>>
<1>1. UNCHANGED <<pc, target>>
  BY DEF ThreadWakeup, ThreadWakeupOne, DispatchWake, HandoffWake, progVars
<1>2. PICK f, W : Wakeup(f, W)
  BY DEF ThreadWakeup, ThreadWakeupOne, DispatchWake, HandoffWake
<1>3. EndWaits(W) /\ StateTypeOK' /\ SuspKept
  BY <1>2, WakeStep DEF Wakeup, Inv
<1> QED
  BY <1>1, <1>3 DEF WaitStep

LEMMA CallerSteps ==
  ASSUME Inv, NEW c, NEW t,
         \/ ThreadTimerExpire(c) \/ WaitQueueRemove(c) \/ ActAbortClear(c)
         \/ ClearWait(c, t)
  PROVE  /\ WaitStep /\ StateTypeOK' /\ SuspKept
         /\ UNCHANGED <<pc, target>>
<1>1. UNCHANGED <<pc, target>>
  BY DEF ThreadTimerExpire, WaitQueueRemove, ActAbortClear, ClearWait, progVars
<1>2. CASE ThreadTimerExpire(c) \/ ActAbortClear(c) \/ ClearWait(c, t)
  <2>1. \/ \E u, result : ClearWaitInternal(c, u, result)
        \/ UNCHANGED <<waitVars, stateVars>>
    BY <1>2 DEF ThreadTimerExpire, ActAbortClear, ClearWait, DoClearWait
  <2>2. CASE \E u, result : ClearWaitInternal(c, u, result)
    BY <1>1, <2>2, ClearWaitStep DEF WaitStep
  <2>3. CASE UNCHANGED <<waitVars, stateVars>>
    BY <1>1, <2>3 DEF waitVars, queueVars, stateVars, WaitStep, KeepWaits, Inv,
                      WaitTypeOK, StateTypeOK, SuspKept
  <2> QED
    BY <2>1, <2>2, <2>3
<1>3. CASE WaitQueueRemove(c)
  <2>1. \/ \E b, W, result : Dequeue(b, W) /\ GoLocked(W, result)
        \/ UNCHANGED <<waitVars, stateVars>>
    BY <1>3 DEF WaitQueueRemove
  <2>2. CASE \E b, W, result : Dequeue(b, W) /\ GoLocked(W, result)
    BY <1>1, <2>2, WakeStep DEF WaitStep, Inv
  <2>3. CASE UNCHANGED <<waitVars, stateVars>>
    BY <1>1, <2>3 DEF waitVars, queueVars, stateVars, WaitStep, KeepWaits, Inv,
                      WaitTypeOK, StateTypeOK, SuspKept
  <2> QED
    BY <2>1, <2>2, <2>3
<1> QED
  BY <1>1, <1>2, <1>3

\* Where the program counters may go.
PcTypeOK == pc \in [Threads -> ThreadPCs]
TargetTypeOK == target \in [Threads -> Threads \cup {NoThread}]
PcStepOK == PcTypeOK' /\ TargetTypeOK' /\ StopTargetOK'

LEMMA TimerSteps ==
  ASSUME Inv, NEW t \in Threads,
         \/ ThreadSetTimer(t) \/ ThreadCancelTimer(t) \/ ThreadStopWait(t)
         \/ ThreadWait(t) \/ MarkWakeActive(t) \/ AfterSleep(t)
  PROVE  /\ UNCHANGED <<state, waitQueue, waitEvent>>
         /\ PcStepOK /\ OwnersKept
<1> USE DEF GoTo, Inv, WaitTypeOK, PcStepOK, PcTypeOK, TargetTypeOK,
            StopTargetOK, StopPCs, OwnersKept, OwnerPCs, ThreadPCs
<1>1. UNCHANGED <<state, waitQueue, waitEvent>>
  BY DEF ThreadSetTimer, ThreadCancelTimer, ThreadStopWait, ThreadWait,
         MarkWakeActive, AfterSleep, waitVars, queueVars, stateVars
<1>2. CASE ThreadSetTimer(t) \/ ThreadCancelTimer(t)
  BY <1>1, <1>2 DEF ThreadSetTimer, ThreadCancelTimer
<1>3. CASE ThreadStopWait(t)
  BY <1>1, <1>3, ConstantTypes DEF ThreadStopWait
<1>4. CASE ThreadWait(t)
  BY <1>1, <1>4 DEF ThreadWait
<1>5. CASE MarkWakeActive(t)
  BY <1>1, <1>5 DEF MarkWakeActive
<1>6. CASE AfterSleep(t)
  BY <1>1, <1>6 DEF AfterSleep
<1> QED
  BY <1>2, <1>3, <1>4, <1>5, <1>6

LEMMA AssertSteps ==
  ASSUME Inv, NEW t \in Threads, AssertWait(t) \/ AssertWakeActive(t)
  PROVE  /\ StartWait /\ StateTypeOK' /\ SuspKept
         /\ PcStepOK /\ OwnersKept
<1> USE DEF GoTo, Inv, WaitTypeOK, PcStepOK, PcTypeOK, TargetTypeOK,
            StopTargetOK, StopPCs, OwnersKept, OwnerPCs, ThreadPCs
<1>1. CASE AssertWait(t)
  <2>1. \E mode : \E e \in AllEvents : MarkWait(t, e, mode)
    BY <1>1, ConstantTypes DEF AssertWait
  <2>2. PcStepOK /\ OwnersKept
    BY <1>1 DEF AssertWait
  <2> QED
    BY <2>1, <2>2, MarkWaitStep
<1>2. CASE AssertWakeActive(t)
  <2>1. target[t] \in Threads
    BY <1>2 DEF AssertWakeActive
  <2>2. \E mode : \E e \in AllEvents : MarkWait(t, e, mode)
    BY <1>2, <2>1, ConstantTypes DEF AssertWakeActive
  <2>3. PcStepOK /\ OwnersKept
    BY <1>2 DEF AssertWakeActive
  <2> QED
    BY <2>2, <2>3, MarkWaitStep
<1> QED
  BY <1>1, <1>2

\* thread_block: an aborted thread ends its own wait, any other thread leaves
\* the waits as they are.
LEMMA BlockStep ==
  ASSUME Inv, NEW p \in Cpus, NEW t \in Threads, ThreadBlock(p, t)
  PROVE  /\ WaitStep /\ StateTypeOK' /\ SuspKept
         /\ PcStepOK /\ OwnersKept
<1>1. PcStepOK /\ OwnersKept
  <2>1. /\ pc[t] \in {"asserted", "armed", "run", "stopSleep", "waitSleep"}
        /\ pc' = [pc EXCEPT ![t] = AfterBlock[pc[t]]]
        /\ target' = target
    BY DEF ThreadBlock, AfterBlock
  <2>2. /\ pc[t] = "asserted" => AfterBlock[pc[t]] = "woken"
        /\ pc[t] = "armed" => AfterBlock[pc[t]] = "woken"
        /\ pc[t] = "run" => AfterBlock[pc[t]] = "run"
        /\ pc[t] = "stopSleep" => AfterBlock[pc[t]] = "stopWoken"
        /\ pc[t] = "waitSleep" => AfterBlock[pc[t]] = "waitWoken"
    BY DEF AfterBlock
  <2> HIDE DEF AfterBlock
  <2> QED
    BY <2>1, <2>2 DEF Inv, WaitTypeOK, PcStepOK, PcTypeOK, TargetTypeOK,
       StopTargetOK, StopPCs, OwnersKept, OwnerPCs, ThreadPCs
<1>2. CASE "ABORT" \notin state[t]
  <2>1. UNCHANGED <<state, waitQueue, waitEvent>>
    BY <1>2 DEF ThreadBlock, waitVars, queueVars
  <2> QED
    BY <1>1, <2>1 DEF WaitStep, KeepWaits, Inv, WaitTypeOK, StateTypeOK, SuspKept
<1>3. CASE "ABORT" \in state[t]
  <2>1. /\ state' = [state EXCEPT ![t] = @ \ {"WAIT"}]
        /\ \/ waitQueue[t] = NoBucket /\ UNCHANGED <<waitQueue, waitEvent>>
           \/ Dequeue(waitQueue[t], {t})
    BY <1>3 DEF ThreadBlock, queueVars
  <2>2. StateTypeOK' /\ SuspKept
    BY <2>1 DEF Inv, WaitTypeOK, StateTypeOK, StateBits, SuspKept
  <2>3. CASE waitQueue[t] = NoBucket /\ UNCHANGED <<waitQueue, waitEvent>>
    <3>1. "WAIT" \notin state[t]
      BY <2>3 DEF Inv, WaitStateConsistent
    <3> QED
      BY <1>1, <2>1, <2>2, <2>3, <3>1 DEF WaitStep, KeepWaits, Inv, WaitTypeOK
  <2>4. CASE Dequeue(waitQueue[t], {t})
    <3>1. EndWaits({t})
      BY <2>1, <2>4 DEF Dequeue, EndWaits, Inv, WaitTypeOK
    <3> QED
      BY <1>1, <2>2, <3>1 DEF WaitStep
  <2> QED
    BY <2>1, <2>3, <2>4
<1> QED
  BY <1>2, <1>3

\* The steps of thread_stop and thread_unstop.
LEMMA StopSteps ==
  ASSUME Inv, NEW s \in Threads,
         ThreadStop(s) \/ ThreadUnstop(s) \/ UnstopWake(s)
  PROVE  WaitStep /\ StateTypeOK' /\ PcStepOK
<1> USE DEF GoTo, Inv, WaitTypeOK, PcStepOK, PcTypeOK, TargetTypeOK,
            StopTargetOK, StopPCs, ThreadPCs
<1>1. CASE ThreadStop(s)
  <2>1. UNCHANGED <<waitQueue, waitEvent>>
    BY <1>1 DEF ThreadStop, waitVars, queueVars
  <2>2. KeepWaits /\ StateTypeOK'
    BY <1>1, <2>1 DEF ThreadStop, KeepWaits, StateTypeOK, StateBits
  <2>3. PcStepOK
    BY <1>1 DEF ThreadStop
  <2> QED
    BY <2>2, <2>3 DEF WaitStep
<1>2. CASE ThreadUnstop(s)
  <2>1. UNCHANGED <<waitQueue, waitEvent>>
    BY <1>2 DEF ThreadUnstop, waitVars, queueVars
  <2>2. KeepWaits /\ StateTypeOK'
    BY <1>2, <2>1 DEF ThreadUnstop, KeepWaits, StateTypeOK, StateBits
  <2>3. PcStepOK
    BY <1>2 DEF ThreadUnstop
  <2> QED
    BY <2>2, <2>3 DEF WaitStep
<1>3. CASE UnstopWake(s)
  <2>1. PICK f, W : Wakeup(f, W)
    BY <1>3 DEF UnstopWake
  <2>2. EndWaits(W) /\ StateTypeOK'
    BY <2>1, WakeStep DEF Wakeup
  <2>3. PcStepOK
    BY <1>3 DEF UnstopWake
  <2> QED
    BY <2>2, <2>3 DEF WaitStep
<1> QED
  BY <1>1, <1>2, <1>3

\* All steps: those other than thread_stop and thread_unstop keep the stops.
LEMMA NextSteps ==
  ASSUME Inv, [Next]_vars
  PROVE  /\ WaitStep /\ StateTypeOK' /\ PcStepOK
         /\ \/ \E s \in Threads :
                 ThreadStop(s) \/ ThreadUnstop(s) \/ UnstopWake(s)
            \/ SuspKept /\ OwnersKept
<1> DEFINE Goal == /\ WaitStep /\ StateTypeOK' /\ PcStepOK
                   /\ \/ \E s \in Threads :
                           ThreadStop(s) \/ ThreadUnstop(s) \/ UnstopWake(s)
                      \/ SuspKept /\ OwnersKept
<1>1. ASSUME UNCHANGED <<pc, target>> PROVE PcStepOK /\ OwnersKept
  BY <1>1 DEF Inv, WaitTypeOK, PcStepOK, PcTypeOK, TargetTypeOK, StopTargetOK,
              OwnersKept
<1>2. ASSUME UNCHANGED <<state, waitQueue, waitEvent>>
      PROVE  KeepWaits /\ StateTypeOK' /\ SuspKept
  BY <1>2 DEF Inv, WaitTypeOK, KeepWaits, StateTypeOK, SuspKept
<1>3. CASE UNCHANGED vars
  BY <1>1, <1>2, <1>3 DEF vars, waitVars, queueVars, stateVars, progVars, WaitStep
<1>4. ASSUME NEW p \in Cpus, CpuStep(p) \/ IdleRun(p) PROVE Goal
  <2>1. CASE Reselect(p) \/ IdleRun(p) \/ HandoffDone(p)
    BY <1>1, <1>2, <2>1, QuietSteps DEF WaitStep
  <2>2. CASE \/ InvokeSame(p) \/ InvokeMiss(p) \/ InvokeSwitch(p)
             \/ InvokeHandoff(p) \/ ThreadDispatch(p) \/ HandoffDispatch(p)
    BY <1>1, <2>2, StateSteps DEF WaitStep
  <2>3. CASE DispatchWake(p) \/ HandoffWake(p)
    BY <1>1, <2>3, WakeupSteps
  <2> QED
    BY <1>4, <2>1, <2>2, <2>3 DEF CpuStep
<1>5. ASSUME NEW p \in Cpus, NEW t \in Threads, ThreadBlock(p, t) PROVE Goal
  BY <1>5, BlockStep
<1>6. ASSUME NEW t \in Threads,
             \/ AssertWait(t) \/ ThreadStopWait(t) \/ ThreadStep(t)
             \/ SpecialHandler(t) \/ ThreadDoSwapin(t)
             \/ DelayedCallInterrupt(t)
      PROVE  Goal
  <2>1. CASE ThreadDoSwapin(t) \/ DelayedCallInterrupt(t)
    BY <1>1, <1>2, <2>1, QuietSteps DEF WaitStep
  <2>2. CASE SpecialHandler(t)
    BY <1>1, <2>2, StateSteps DEF WaitStep
  <2>3. CASE \/ ThreadSetTimer(t) \/ ThreadCancelTimer(t) \/ ThreadStopWait(t)
             \/ ThreadWait(t) \/ MarkWakeActive(t) \/ AfterSleep(t)
    BY <1>2, <2>3, TimerSteps DEF WaitStep
  <2>4. CASE AssertWait(t) \/ AssertWakeActive(t)
    BY <2>4, AssertSteps DEF WaitStep
  <2>5. CASE ThreadStop(t) \/ ThreadUnstop(t) \/ UnstopWake(t)
    BY <2>5, StopSteps
  <2> QED
    BY <1>6, <2>1, <2>2, <2>3, <2>4, <2>5 DEF ThreadStep
<1>7. ASSUME NEW c \in Callers, CallerStep(c) PROVE Goal
  <2>1. CASE ActAbortCheck(c)
    BY <1>1, <1>2, <2>1, QuietSteps DEF WaitStep
  <2>2. CASE ThreadTimerExpire(c) \/ WaitQueueRemove(c) \/ ActAbortClear(c)
    BY <1>1, <2>2, CallerSteps
  <2> QED
    BY <1>7, <2>1, <2>2 DEF CallerStep
<1>8. ASSUME NEW c \in Callers, NEW t \in Threads,
             CallThreadDequeue(c, t) \/ ClearWait(c, t) \/ ActAbort(c, t)
      PROVE  Goal
  <2>1. CASE CallThreadDequeue(c, t)
    BY <1>1, <1>2, <2>1, QuietSteps DEF WaitStep
  <2>2. CASE ActAbort(c, t)
    BY <1>1, <2>2, StateSteps DEF WaitStep
  <2>3. CASE ClearWait(c, t)
    BY <1>1, <2>3, CallerSteps
  <2> QED
    BY <1>8, <2>1, <2>2, <2>3
<1>9. ASSUME NEW e \in Events, ThreadWakeup(e) \/ ThreadWakeupOne(e) PROVE Goal
  BY <1>1, <1>9, WakeupSteps
<1> QED
  BY <1>3, <1>4, <1>5, <1>6, <1>7, <1>8, <1>9 DEF Next

\* Whatever becomes of the waits, the fields that describe them agree again.
LEMMA WaitStepKeepsInv ==
  ASSUME Inv, WaitStep, StateTypeOK', PcStepOK
  PROVE  Inv'
<1>1. CASE KeepWaits
  BY <1>1 DEF KeepWaits, Inv, WaitTypeOK, WaitStateConsistent, StateTypeOK,
              PcStepOK, PcTypeOK, TargetTypeOK
<1>2. CASE StartWait
  <2>1. PICK t \in Threads, e \in AllEvents :
          /\ waitQueue' = [waitQueue EXCEPT ![t] = BucketOf[e]]
          /\ waitEvent' = [waitEvent EXCEPT ![t] = e]
          /\ \A u \in Threads :
               "WAIT" \in state'[u] <=> "WAIT" \in state[u] \/ u = t
    BY <1>2 DEF StartWait
  <2>2. /\ BucketOf[e] \in Buckets /\ BucketOf[e] # NoBucket /\ e # NoEvent
    BY ConstantTypes
  <2>3. WaitTypeOK'
    BY <2>1, <2>2 DEF Inv, WaitTypeOK, StateTypeOK, PcStepOK, PcTypeOK,
                      TargetTypeOK
  <2>4. WaitStateConsistent'
    BY <2>1, <2>2 DEF Inv, WaitTypeOK, WaitStateConsistent
  <2> QED
    BY <2>3, <2>4 DEF Inv, PcStepOK
<1>3. ASSUME NEW W, EndWaits(W) PROVE Inv'
  <2>1. WaitTypeOK'
    BY <1>3 DEF EndWaits, Inv, WaitTypeOK, StateTypeOK, PcStepOK, PcTypeOK,
                TargetTypeOK
  <2>2. WaitStateConsistent'
    BY <1>3 DEF EndWaits, Inv, WaitTypeOK, WaitStateConsistent
  <2> QED
    BY <2>1, <2>2 DEF Inv, PcStepOK
<1> QED
  BY <1>1, <1>2, <1>3 DEF WaitStep

LEMMA InvInit == Init => Inv
<1>1. Init => WaitStateConsistent
  BY DEF Init, WaitStateConsistent
<1> QED
  BY <1>1, TypeInit DEF Inv

LEMMA InvNext == Inv /\ [Next]_vars => Inv'
BY NextSteps, WaitStepKeepsInv

THEOREM Invariance == Spec => []Inv
BY InvInit, InvNext, PTL DEF Spec

\* The state, wait_queue and wait_event of every thread keep their types.
THEOREM WaitTypeCorrect == Spec => []WaitTypeOK
<1>1. Inv => WaitTypeOK
  BY DEF Inv
<1> QED
  BY <1>1, Invariance, PTL

\* TH_WAIT, wait_queue and wait_event of every thread agree in every state that
\* the thread's lock lets another actor see.
THEOREM WaitStateCorrect == Spec => []WaitStateConsistent
<1>1. Inv => WaitStateConsistent
  BY DEF Inv
<1> QED
  BY <1>1, Invariance, PTL

------------------------------------------------------------------------------
\* thread_stop takes a thread that nobody has stopped, thread_unstop gives up
\* the stop of its caller, and no other step concerns the stops.
LEMMA StopNext == Inv /\ StopIsExclusive /\ [Next]_vars => StopIsExclusive'
<1> SUFFICES ASSUME Inv, StopIsExclusive, [Next]_vars PROVE StopIsExclusive'
  OBVIOUS
<1> USE DEF StopIsExclusive, StopOwners
<1>1. CASE SuspKept /\ OwnersKept
  <2>1. \A t \in Threads, s \in Threads :
          (target'[s] = t /\ pc'[s] \in OwnerPCs)
            <=> (target[s] = t /\ pc[s] \in OwnerPCs)
    BY <1>1 DEF OwnersKept
  <2> QED
    BY <1>1, <2>1 DEF SuspKept, OwnerPCs
<1>2. ASSUME NEW s \in Threads, ThreadStop(s) PROVE StopIsExclusive'
  BY <1>2 DEF ThreadStop, GoTo, Inv, WaitTypeOK
<1>3. ASSUME NEW s \in Threads, ThreadUnstop(s) PROVE StopIsExclusive'
  BY <1>3 DEF ThreadUnstop, GoTo, Inv, WaitTypeOK
<1>4. ASSUME NEW s \in Threads, UnstopWake(s) PROVE StopIsExclusive'
  BY <1>4 DEF UnstopWake, Wakeup, GoLocked, GoTo, Inv, WaitTypeOK
<1> QED
  BY <1>1, <1>2, <1>3, <1>4, NextSteps

\* One stopper at a time, and TH_SUSP is set exactly while there is one.
THEOREM StopCorrect == Spec => []StopIsExclusive
<1>1. Init => StopIsExclusive
  BY DEF Init, StopIsExclusive, StopOwners
<1> QED
  BY <1>1, Invariance, StopNext, PTL DEF Spec

------------------------------------------------------------------------------
(***************************************************************************)
(* The wait timers                                                         *)
(***************************************************************************)
\* Where a thread is between thread_set_timer and thread_cancel_timer.
TimerPCs == {"armed", "woken"}

CallerTypeOK == caller \in [Callers -> CallerRecord \cup {NoCaller}]

TimerTypeOK ==
  /\ CallerTypeOK
  /\ timerSet \in [Threads -> BOOLEAN]
  /\ timerCall \in [Threads -> {"idle", "delayed", "pending"}]
  /\ refCount \in [Threads -> Int]

\* Only the callout of a timer begins as "expire".
ExpireTimedOut ==
  \A c \in Callers : caller[c] # NoCaller /\ caller[c].pc = "expire"
                       => caller[c].result = "timed_out"

\* thread_cancel_timer comes before the next wait.
TimerSetPc == \A t \in Threads : timerSet[t] => pc[t] \in TimerPCs

TimerInv == TimerTypeOK /\ ExpireTimedOut /\ TimerSetPc

\* A callout that has not looked at its timer yet.
Expiring(c, t) ==
  caller[c] # NoCaller /\ caller[c].thread = t /\ caller[c].pc = "expire"

\* A timer marked as set is with the callout queue or with a callout.
TimerFollowed ==
  \A t \in Threads : timerSet[t] => \/ timerCall[t] # "idle"
                                    \/ \E c \in Callers : Expiring(c, t)

\* A callout that holds the reference that its timer took.
HoldsRef(c, t) == /\ caller[c] # NoCaller
                  /\ caller[c].thread = t
                  /\ caller[c].result = "timed_out"

TimedOut(t) == {c \in Callers : HoldsRef(c, t)}

TimerPcsKept == \A t \in Threads : pc[t] \in TimerPCs => pc'[t] \in TimerPCs

TimerQuiet == UNCHANGED <<timerSet, timerCall, refCount, caller>> /\ TimerPcsKept

\* The steps that set, cancel or deliver a timer, and those of the callers.
TimerStep ==
  \/ \E t \in Threads : \/ ThreadSetTimer(t) \/ ThreadCancelTimer(t)
                        \/ DelayedCallInterrupt(t)
  \/ \E c \in Callers : CallerStep(c)
  \/ \E c \in Callers, t \in Threads :
       CallThreadDequeue(c, t) \/ ClearWait(c, t) \/ ActAbort(c, t)

LEMMA TimerNext == Inv /\ [Next]_vars => TimerQuiet \/ TimerStep
<1> SUFFICES ASSUME Inv, [Next]_vars PROVE TimerQuiet \/ TimerStep
  OBVIOUS
<1>1. CASE UNCHANGED vars
  BY <1>1 DEF vars, timerVars, progVars, TimerQuiet, TimerPcsKept
<1>2. ASSUME NEW p \in Cpus, CpuStep(p) \/ IdleRun(p) PROVE TimerQuiet
  <2>1. UNCHANGED <<timerVars, progVars, caller>>
    BY <1>2 DEF CpuStep, IdleRun, Reselect, InvokeSame, InvokeMiss,
         InvokeSwitch, InvokeHandoff, ThreadDispatch, DispatchWake,
         HandoffDispatch, HandoffWake, HandoffDone
  <2> QED
    BY <2>1 DEF timerVars, progVars, TimerQuiet, TimerPcsKept
<1>3. ASSUME NEW p \in Cpus, NEW t \in Threads, ThreadBlock(p, t)
      PROVE  TimerQuiet
  <2>1. /\ UNCHANGED <<timerVars, caller>>
        /\ pc' = [pc EXCEPT ![t] = AfterBlock[pc[t]]]
    BY <1>3 DEF ThreadBlock
  <2>2. pc[t] \in TimerPCs => AfterBlock[pc[t]] \in TimerPCs
    BY <1>3 DEF ThreadBlock, AfterBlock, TimerPCs
  <2> QED
    BY <2>1, <2>2 DEF timerVars, Inv, WaitTypeOK, TimerQuiet, TimerPcsKept
<1>4. ASSUME NEW t \in Threads,
             \/ AssertWait(t) \/ ThreadStopWait(t) \/ ThreadStop(t)
             \/ ThreadWait(t) \/ MarkWakeActive(t) \/ AssertWakeActive(t)
             \/ AfterSleep(t) \/ ThreadUnstop(t) \/ UnstopWake(t)
      PROVE  TimerQuiet
  <2>1. UNCHANGED <<timerSet, timerCall, refCount, caller>>
    BY <1>4 DEF AssertWait, ThreadStopWait, ThreadStop, ThreadWait,
         MarkWakeActive, AssertWakeActive, AfterSleep, ThreadUnstop,
         UnstopWake, MarkWait, timerVars
  <2>2. pc[t] \notin TimerPCs /\ \E to : pc' = [pc EXCEPT ![t] = to]
    BY <1>4 DEF AssertWait, ThreadStopWait, ThreadStop, ThreadWait,
         MarkWakeActive, AssertWakeActive, AfterSleep, ThreadUnstop,
         UnstopWake, GoTo, TimerPCs
  <2> QED
    BY <2>1, <2>2 DEF Inv, WaitTypeOK, TimerQuiet, TimerPcsKept
<1>5. ASSUME NEW t \in Threads, SpecialHandler(t) \/ ThreadDoSwapin(t)
      PROVE  TimerQuiet
  BY <1>5 DEF SpecialHandler, ThreadDoSwapin, timerVars, progVars, TimerQuiet,
              TimerPcsKept
<1>6. ASSUME NEW e \in Events, ThreadWakeup(e) \/ ThreadWakeupOne(e)
      PROVE  TimerQuiet
  BY <1>6 DEF ThreadWakeup, ThreadWakeupOne, timerVars, progVars, TimerQuiet,
              TimerPcsKept
<1> QED
  BY <1>1, <1>2, <1>3, <1>4, <1>5, <1>6 DEF Next, ThreadStep, TimerStep

\* What a caller may do: begin, go on to its wait_queue_remove, end.
CallerBegins(c, t, where, result) ==
  /\ caller[c] = NoCaller
  /\ caller' = [caller EXCEPT ![c] = [pc |-> where, thread |-> t,
                             queue |-> NoBucket, result |-> result]]

CallerRemoves(c, t, result) ==
  caller' = [caller EXCEPT ![c] = [pc |-> "remove", thread |-> t,
                            queue |-> waitQueue[t], result |-> result]]

LEMMA ClearWaitCaller ==
  ASSUME NEW c, NEW t, NEW result, ClearWaitInternal(c, t, result)
  PROVE  Finish(c, t, result) \/ (CallerRemoves(c, t, result) /\ refCount' = refCount)
BY DEF ClearWaitInternal, CallerRemoves

\* The record of a caller that begins or goes on.
LEMMA CallerRecords ==
  ASSUME NEW w \in {"expire", "abort", "clear", "remove"}, NEW t \in Threads,
         NEW q \in Buckets \cup {NoBucket}, NEW result \in ClearResults, NEW r,
         r = [pc |-> w, thread |-> t, queue |-> q, result |-> result]
  PROVE  /\ r \in CallerRecord /\ r # NoCaller
         /\ r.pc = w /\ r.thread = t /\ r.queue = q /\ r.result = result
<1>1. r \in CallerRecord
  BY DEF CallerRecord
<1>2. r # NoCaller
  BY <1>1, SchedPrimAssumption
<1> QED
  BY <1>1, <1>2

\* A step of the caller c: those that have nothing to do with the timers, ...
CallerHarmless(c) ==
  /\ UNCHANGED <<timerSet, timerCall, refCount>>
  /\ \A t \in Threads : /\ ~Expiring(c, t) /\ ~Expiring(c, t)'
                        /\ HoldsRef(c, t)' => HoldsRef(c, t)

\* ... the callout thread taking the call of t, ...
CalloutBegins(c, t) ==
  /\ UNCHANGED <<timerSet, refCount>>
  /\ timerCall[t] = "pending" /\ timerCall' = [timerCall EXCEPT ![t] = "idle"]
  /\ \A u \in Threads : /\ ~HoldsRef(c, u) /\ ~Expiring(c, u)
                        /\ HoldsRef(c, u)' <=> u = t
                        /\ Expiring(c, u)' <=> u = t

\* ... and what the callout does with its reference and the timer's mark.
CalloutAnswers(c, t) ==
  /\ timerCall' = timerCall
  /\ \/ timerSet' = [timerSet EXCEPT ![t] = FALSE]
     \/ timerSet' = timerSet /\ (Expiring(c, t) /\ timerSet[t]
                                   => timerCall[t] # "idle")
  /\ \A u \in Threads : /\ HoldsRef(c, u) <=> u = t
                        /\ Expiring(c, u) => u = t
                        /\ ~Expiring(c, u)'
  /\ \/ /\ refCount' = [refCount EXCEPT ![t] = @ - 1]
        /\ \A u \in Threads : ~HoldsRef(c, u)'
     \/ /\ refCount' = refCount
        /\ \A u \in Threads : HoldsRef(c, u)' <=> u = t

\* The other callers are left alone.
CallerAlone(c) ==
  /\ CallerTypeOK'
  /\ \A d \in Callers \ {c} : caller'[d] = caller[d]
  /\ caller'[c] # NoCaller /\ caller'[c].pc = "expire"
       => caller'[c].result = "timed_out"

LEMMA CallerEnds ==
  ASSUME TimerTypeOK, NEW c \in Callers, caller' = [caller EXCEPT ![c] = NoCaller]
  PROVE  /\ CallerAlone(c) /\ caller'[c] = NoCaller
         /\ \A t \in Threads : ~HoldsRef(c, t)' /\ ~Expiring(c, t)'
<1>1. caller'[c] = NoCaller /\ \A d \in Callers \ {c} : caller'[d] = caller[d]
  BY DEF TimerTypeOK, CallerTypeOK
<1>2. CallerTypeOK'
  BY DEF TimerTypeOK, CallerTypeOK
<1> QED
  BY <1>1, <1>2 DEF CallerAlone, HoldsRef, Expiring

LEMMA CallerTakesRecord ==
  ASSUME TimerTypeOK, NEW c \in Callers, NEW r \in CallerRecord,
         caller' = [caller EXCEPT ![c] = r],
         r.pc = "expire" => r.result = "timed_out"
  PROVE  /\ CallerAlone(c) /\ caller'[c] = r /\ r # NoCaller
         /\ \A t \in Threads :
              /\ HoldsRef(c, t)' <=> r.thread = t /\ r.result = "timed_out"
              /\ Expiring(c, t)' <=> r.thread = t /\ r.pc = "expire"
<1>1. caller'[c] = r /\ \A d \in Callers \ {c} : caller'[d] = caller[d]
  BY DEF TimerTypeOK, CallerTypeOK
<1>2. CallerTypeOK'
  BY DEF TimerTypeOK, CallerTypeOK
<1>3. r # NoCaller
  BY SchedPrimAssumption
<1> QED
  BY <1>1, <1>2, <1>3 DEF CallerAlone, HoldsRef, Expiring

LEMMA CallerRemovesRecord ==
  ASSUME Inv, TimerTypeOK, NEW c \in Callers, NEW t \in Threads,
         NEW result \in ClearResults, CallerRemoves(c, t, result)
  PROVE  /\ CallerAlone(c)
         /\ \A u \in Threads :
              /\ HoldsRef(c, u)' <=> t = u /\ result = "timed_out"
              /\ ~Expiring(c, u)'
<1>1. PICK r : r = [pc |-> "remove", thread |-> t, queue |-> waitQueue[t],
                    result |-> result]
  OBVIOUS
<1>2. r \in CallerRecord /\ r.pc = "remove" /\ r.thread = t /\ r.result = result
  BY <1>1, CallerRecords DEF Inv, WaitTypeOK
<1>3. caller' = [caller EXCEPT ![c] = r]
  BY <1>1 DEF CallerRemoves
<1> QED
  BY <1>2, <1>3, CallerTakesRecord

LEMMA CallerBeginsRecord ==
  ASSUME TimerTypeOK, NEW c \in Callers, NEW t \in Threads,
         NEW where \in {"expire", "abort"}, NEW result \in ClearResults,
         CallerBegins(c, t, where, result),
         where = "expire" => result = "timed_out"
  PROVE  /\ CallerAlone(c)
         /\ \A u \in Threads :
              /\ ~HoldsRef(c, u) /\ ~Expiring(c, u)
              /\ HoldsRef(c, u)' <=> t = u /\ result = "timed_out"
              /\ Expiring(c, u)' <=> t = u /\ where = "expire"
<1>1. PICK r : r = [pc |-> where, thread |-> t, queue |-> NoBucket,
                    result |-> result]
  OBVIOUS
<1>2. r \in CallerRecord /\ r.pc = where /\ r.thread = t /\ r.result = result
  BY <1>1, CallerRecords
<1>3. caller' = [caller EXCEPT ![c] = r]
  BY <1>1 DEF CallerBegins
<1>4. \A u \in Threads : ~HoldsRef(c, u) /\ ~Expiring(c, u)
  BY DEF CallerBegins, HoldsRef, Expiring
<1>5. /\ CallerAlone(c)
      /\ \A u \in Threads :
           /\ HoldsRef(c, u)' <=> r.thread = u /\ r.result = "timed_out"
           /\ Expiring(c, u)' <=> r.thread = u /\ r.pc = "expire"
  BY <1>2, <1>3, CallerTakesRecord
<1> HIDE DEF HoldsRef, Expiring, CallerAlone
<1> QED
  BY <1>2, <1>4, <1>5

\* The callers, one by one.
LEMMA BeginSteps ==
  ASSUME TimerInv, NEW c \in Callers, NEW t \in Threads
  PROVE  /\ CallThreadDequeue(c, t) => CallerAlone(c) /\ CalloutBegins(c, t)
         /\ ActAbort(c, t) => CallerAlone(c) /\ CallerHarmless(c)
<1>1. ASSUME CallThreadDequeue(c, t)
      PROVE  CallerAlone(c) /\ CalloutBegins(c, t)
  <2>1. /\ CallerBegins(c, t, "expire", "timed_out")
        /\ UNCHANGED <<timerSet, refCount>> /\ timerCall[t] = "pending"
        /\ timerCall' = [timerCall EXCEPT ![t] = "idle"]
    BY <1>1 DEF CallThreadDequeue, CallerBegins
  <2> QED
    BY <2>1, CallerBeginsRecord DEF TimerInv, ClearResults, CalloutBegins
<1>2. ASSUME ActAbort(c, t) PROVE CallerAlone(c) /\ CallerHarmless(c)
  <2>1. /\ CallerBegins(c, t, "abort", "interrupted")
        /\ UNCHANGED <<timerSet, timerCall, refCount>>
    BY <1>2 DEF ActAbort, CallerBegins, timerVars
  <2> QED
    BY <2>1, CallerBeginsRecord DEF TimerInv, ClearResults, CallerHarmless
<1> QED
  BY <1>1, <1>2

LEMMA CheckStep ==
  ASSUME TimerInv, NEW c \in Callers, ActAbortCheck(c)
  PROVE  CallerAlone(c) /\ CallerHarmless(c)
<1>1. /\ caller[c] # NoCaller /\ caller[c].pc = "abort"
      /\ UNCHANGED <<timerSet, timerCall, refCount>>
      /\ \/ caller' = [caller EXCEPT ![c] = [@ EXCEPT !.pc = "clear"]]
         \/ caller' = [caller EXCEPT ![c] = NoCaller]
  BY DEF ActAbortCheck, timerVars
<1>2. \A t \in Threads : ~Expiring(c, t)
  BY <1>1 DEF Expiring
<1>3. CASE caller' = [caller EXCEPT ![c] = NoCaller]
  BY <1>1, <1>2, <1>3, CallerEnds DEF TimerInv, CallerHarmless
<1>4. CASE caller' = [caller EXCEPT ![c] = [@ EXCEPT !.pc = "clear"]]
  <2>1. PICK r : r = [caller[c] EXCEPT !.pc = "clear"]
    OBVIOUS
  <2>2. caller[c] \in CallerRecord
    BY <1>1 DEF TimerInv, TimerTypeOK, CallerTypeOK
  <2>3. /\ r \in CallerRecord /\ r.pc = "clear" /\ r.thread = caller[c].thread
        /\ r.result = caller[c].result
    BY <2>1, <2>2 DEF CallerRecord
  <2>4. caller' = [caller EXCEPT ![c] = r]
    BY <1>4, <2>1
  <2>5. \A t \in Threads : HoldsRef(c, t)' => HoldsRef(c, t)
    BY <1>1, <2>3, <2>4, CallerTakesRecord DEF TimerInv, HoldsRef
  <2> QED
    BY <1>1, <1>2, <2>3, <2>4, <2>5, CallerTakesRecord DEF TimerInv, CallerHarmless
<1> QED
  BY <1>1, <1>3, <1>4

LEMMA ClearStep ==
  ASSUME Inv, TimerInv, NEW c \in Callers, NEW t \in Threads,
         ActAbortClear(c) \/ ClearWait(c, t)
  PROVE  CallerAlone(c) /\ CallerHarmless(c)
<1>1. caller[c] = NoCaller \/ (caller[c] # NoCaller /\ caller[c].pc = "clear")
  BY DEF ActAbortClear, ClearWait
<1>2. UNCHANGED <<timerSet, timerCall>>
  BY DEF ActAbortClear, ClearWait
<1>3. \E u \in Threads : \E i : DoClearWait(c, u, "interrupted", i)
  <2>1. ActAbortClear(c) => caller[c].thread \in Threads
    BY DEF ActAbortClear, TimerInv, TimerTypeOK, CallerTypeOK, CallerRecord
  <2> QED
    BY <2>1 DEF ActAbortClear, ClearWait
<1>4. PICK u \in Threads : \/ Finish(c, u, "interrupted")
                           \/ /\ CallerRemoves(c, u, "interrupted")
                              /\ refCount' = refCount
  BY <1>3, ClearWaitCaller DEF DoClearWait
<1>5. refCount' = refCount
  BY <1>4 DEF Finish
<1>6. \A v \in Threads : ~Expiring(c, v)
  BY <1>1 DEF Expiring
<1>7. CASE Finish(c, u, "interrupted")
  BY <1>2, <1>5, <1>6, <1>7, CallerEnds DEF Finish, TimerInv, CallerHarmless
<1>8. CASE CallerRemoves(c, u, "interrupted")
  BY <1>2, <1>5, <1>6, <1>8, CallerRemovesRecord
     DEF TimerInv, CallerHarmless, ClearResults
<1> QED
  BY <1>4, <1>7, <1>8

LEMMA RemoveStep ==
  ASSUME Inv, TimerInv, NEW c \in Callers, WaitQueueRemove(c)
  PROVE  /\ CallerAlone(c)
         /\ CallerHarmless(c) \/ \E t \in Threads : CalloutAnswers(c, t)
<1>1. PICK t : t = caller[c].thread
  OBVIOUS
<1>2. /\ caller[c] # NoCaller /\ caller[c].pc = "remove"
      /\ UNCHANGED <<timerSet, timerCall>>
      /\ Finish(c, t, caller[c].result)
  BY <1>1 DEF WaitQueueRemove
<1>3. t \in Threads
  BY <1>1, <1>2 DEF TimerInv, TimerTypeOK, CallerTypeOK, CallerRecord
<1>4. \A u \in Threads :
        /\ ~Expiring(c, u)
        /\ HoldsRef(c, u) <=> t = u /\ caller[c].result = "timed_out"
  BY <1>1, <1>2 DEF Expiring, HoldsRef
<1>5. CallerAlone(c) /\ \A u \in Threads : ~HoldsRef(c, u)' /\ ~Expiring(c, u)'
  BY <1>2, CallerEnds DEF Finish, TimerInv
<1>6. CASE caller[c].result = "timed_out"
  <2>1. refCount' = [refCount EXCEPT ![t] = @ - 1]
    BY <1>2, <1>6 DEF Finish
  <2>2. \A u \in Threads : HoldsRef(c, u) <=> u = t
    BY <1>4, <1>6
  <2>3. timerSet' = timerSet /\ (Expiring(c, t) /\ timerSet[t]
                                   => timerCall[t] # "idle")
    BY <1>2, <1>3, <1>4, Zenon
  <2>4. CalloutAnswers(c, t)
    BY <1>2, <1>4, <1>5, <2>1, <2>2, <2>3 DEF CalloutAnswers
  <2> QED
    BY <1>3, <1>5, <2>4
<1>7. CASE caller[c].result # "timed_out"
  <2>1. refCount' = refCount
    BY <1>2, <1>7 DEF Finish
  <2>2. CallerHarmless(c)
    BY <1>2, <1>4, <1>5, <2>1 DEF CallerHarmless
  <2> QED
    BY <1>5, <2>2
<1> QED
  BY <1>6, <1>7

LEMMA ExpireStep ==
  ASSUME Inv, TimerInv, NEW c \in Callers, ThreadTimerExpire(c)
  PROVE  CallerAlone(c) /\ \E t \in Threads : CalloutAnswers(c, t)
<1>1. PICK t : t = caller[c].thread
  OBVIOUS
<1>2. /\ caller[c] # NoCaller /\ caller[c].pc = "expire" /\ timerCall' = timerCall
      /\ \/ /\ timerSet' = [timerSet EXCEPT ![t] = FALSE]
            /\ ClearWaitInternal(c, t, "timed_out")
         \/ /\ Finish(c, t, "timed_out")
            /\ timerSet' = timerSet
            /\ ~(timerSet[t] /\ timerCall[t] # "delayed")
  BY <1>1 DEF ThreadTimerExpire
<1>3. t \in Threads /\ caller[c].result = "timed_out"
  BY <1>1, <1>2 DEF TimerInv, TimerTypeOK, CallerTypeOK, CallerRecord,
                    ExpireTimedOut
<1>4. \A u \in Threads :
        /\ HoldsRef(c, u) <=> u = t
        /\ Expiring(c, u) => u = t
  BY <1>1, <1>2, <1>3 DEF Expiring, HoldsRef
<1>5. \/ timerSet' = [timerSet EXCEPT ![t] = FALSE]
      \/ timerSet' = timerSet /\ (Expiring(c, t) /\ timerSet[t]
                                    => timerCall[t] # "idle")
  <2>1. CASE timerSet' = [timerSet EXCEPT ![t] = FALSE]
    BY <2>1
  <2>2. CASE timerSet' = timerSet /\ ~(timerSet[t] /\ timerCall[t] # "delayed")
    BY <2>2, Zenon
  <2> QED
    BY <1>2, <2>1, <2>2
<1>6. \/ Finish(c, t, "timed_out")
      \/ CallerRemoves(c, t, "timed_out") /\ refCount' = refCount
  BY <1>2, ClearWaitCaller
<1>7. CASE Finish(c, t, "timed_out")
  <2>1. refCount' = [refCount EXCEPT ![t] = @ - 1]
    BY <1>7 DEF Finish
  <2>2. CallerAlone(c) /\ \A u \in Threads : ~HoldsRef(c, u)' /\ ~Expiring(c, u)'
    BY <1>7, CallerEnds DEF Finish, TimerInv
  <2>3. CalloutAnswers(c, t)
    BY <1>2, <1>4, <1>5, <2>1, <2>2 DEF CalloutAnswers
  <2> QED
    BY <1>3, <2>2, <2>3
<1>8. CASE CallerRemoves(c, t, "timed_out") /\ refCount' = refCount
  <2>1. /\ CallerAlone(c)
        /\ \A u \in Threads : (HoldsRef(c, u)' <=> u = t) /\ ~Expiring(c, u)'
    BY <1>3, <1>8, CallerRemovesRecord DEF TimerInv, ClearResults
  <2>2. CalloutAnswers(c, t)
    BY <1>2, <1>4, <1>5, <1>8, <2>1 DEF CalloutAnswers
  <2> QED
    BY <1>3, <2>1, <2>2
<1> QED
  BY <1>6, <1>7, <1>8

\* All of them.
LEMMA CallersOfTimers ==
  ASSUME Inv, TimerInv, NEW c \in Callers,
         \/ CallerStep(c)
         \/ \E t \in Threads :
              CallThreadDequeue(c, t) \/ ClearWait(c, t) \/ ActAbort(c, t)
  PROVE  /\ CallerAlone(c)
         /\ \/ CallerHarmless(c)
            \/ \E u \in Threads : CalloutBegins(c, u) \/ CalloutAnswers(c, u)
<1>1. CASE CallerStep(c)
  <2>1. CASE ActAbortClear(c)
    <3>1. caller[c].thread \in Threads
      BY <2>1 DEF ActAbortClear, TimerInv, TimerTypeOK, CallerTypeOK,
                  CallerRecord
    <3> QED
      BY <2>1, <3>1, ClearStep
  <2> QED
    BY <1>1, <2>1, CheckStep, RemoveStep, ExpireStep DEF CallerStep
<1>2. CASE \E t \in Threads :
             CallThreadDequeue(c, t) \/ ClearWait(c, t) \/ ActAbort(c, t)
  BY <1>2, BeginSteps, ClearStep
<1> QED
  BY <1>1, <1>2

\* thread_set_timer, thread_cancel_timer and the passing of the deadline: what
\* they do to the timer of t; the others are left alone.
TimerOf(t) ==
  /\ caller' = caller
  /\ \A u \in Threads \ {t} : /\ timerSet'[u] = timerSet[u]
                              /\ timerCall'[u] = timerCall[u]
                              /\ refCount'[u] = refCount[u]
                              /\ pc'[u] = pc[u]
  /\ \/ /\ timerSet'[t] = timerSet[t] /\ timerCall'[t] = timerCall[t]
        /\ refCount'[t] = refCount[t]
     \/ timerCall'[t] = "delayed" /\ refCount'[t] = refCount[t] + 1
     \/ /\ timerCall[t] = "delayed" /\ timerCall'[t] = "pending"
        /\ timerSet'[t] = timerSet[t] /\ refCount'[t] = refCount[t]
     \/ /\ ~timerSet'[t] /\ timerCall'[t] = "idle"
        /\ refCount'[t] = IF timerCall[t] = "idle" THEN refCount[t]
                                                   ELSE refCount[t] - 1

LEMMA ThreadTimerSteps ==
  ASSUME Inv, TimerInv, NEW t \in Threads,
         ThreadSetTimer(t) \/ ThreadCancelTimer(t) \/ DelayedCallInterrupt(t)
  PROVE  TimerOf(t) /\ TimerInv'
<1>1. CASE ThreadSetTimer(t)
  <2>1. /\ pc[t] = "asserted" /\ pc' = [pc EXCEPT ![t] = "armed"]
        /\ caller' = caller
        /\ \/ UNCHANGED <<timerSet, timerCall, refCount>>
           \/ /\ timerCall' = [timerCall EXCEPT ![t] = "delayed"]
              /\ refCount' = [refCount EXCEPT ![t] = @ + 1]
              /\ timerSet' = [timerSet EXCEPT ![t] = TRUE]
    BY <1>1 DEF ThreadSetTimer, GoTo, timerVars
  <2>2. TimerOf(t)
    BY <2>1 DEF TimerOf, TimerInv, TimerTypeOK, Inv, WaitTypeOK
  <2>3. TimerTypeOK' /\ ExpireTimedOut'
    <3>1. CallerTypeOK' /\ ExpireTimedOut'
      BY <2>1 DEF TimerInv, TimerTypeOK, CallerTypeOK, ExpireTimedOut
    <3>2. timerSet' \in [Threads -> BOOLEAN]
      BY <2>1 DEF TimerInv, TimerTypeOK
    <3>3. timerCall' \in [Threads -> {"idle", "delayed", "pending"}]
      BY <2>1 DEF TimerInv, TimerTypeOK
    <3>4. refCount' \in [Threads -> Int]
      BY <2>1 DEF TimerInv, TimerTypeOK
    <3> QED
      BY <3>1, <3>2, <3>3, <3>4 DEF TimerTypeOK
  <2>4. TimerSetPc'
    BY <2>1 DEF TimerSetPc, TimerInv, TimerTypeOK, TimerPCs, Inv, WaitTypeOK
  <2> QED
    BY <2>2, <2>3, <2>4 DEF TimerInv
<1>2. CASE ThreadCancelTimer(t)
  <2>1. /\ pc[t] = "woken" /\ pc' = [pc EXCEPT ![t] = "run"]
        /\ caller' = caller
        /\ \/ ~timerSet[t] /\ UNCHANGED <<timerSet, timerCall, refCount>>
           \/ /\ timerSet' = [timerSet EXCEPT ![t] = FALSE]
              /\ timerCall' = [timerCall EXCEPT ![t] = "idle"]
              /\ refCount' = [refCount EXCEPT
                                ![t] = IF timerCall[t] = "idle" THEN @ ELSE @ - 1]
    BY <1>2 DEF ThreadCancelTimer, GoTo, timerVars
  <2>2. TimerOf(t)
    BY <2>1 DEF TimerOf, TimerInv, TimerTypeOK, Inv, WaitTypeOK
  <2>3. TimerTypeOK' /\ ExpireTimedOut'
    <3>1. CallerTypeOK' /\ ExpireTimedOut'
      BY <2>1 DEF TimerInv, TimerTypeOK, CallerTypeOK, ExpireTimedOut
    <3>2. timerSet' \in [Threads -> BOOLEAN]
      BY <2>1 DEF TimerInv, TimerTypeOK
    <3>3. timerCall' \in [Threads -> {"idle", "delayed", "pending"}]
      BY <2>1 DEF TimerInv, TimerTypeOK
    <3>4. refCount' \in [Threads -> Int]
      BY <2>1 DEF TimerInv, TimerTypeOK
    <3> QED
      BY <3>1, <3>2, <3>3, <3>4 DEF TimerTypeOK
  <2>4. TimerSetPc'
    BY <2>1 DEF TimerSetPc, TimerInv, TimerTypeOK, TimerPCs, Inv, WaitTypeOK
  <2> QED
    BY <2>2, <2>3, <2>4 DEF TimerInv
<1>3. CASE DelayedCallInterrupt(t)
  <2>1. /\ pc' = pc /\ caller' = caller /\ UNCHANGED <<timerSet, refCount>>
        /\ timerCall[t] = "delayed"
        /\ timerCall' = [timerCall EXCEPT ![t] = "pending"]
    BY <1>3 DEF DelayedCallInterrupt, progVars
  <2>2. TimerOf(t)
    BY <2>1 DEF TimerOf, TimerInv, TimerTypeOK
  <2>3. TimerTypeOK' /\ ExpireTimedOut' /\ TimerSetPc'
    BY <2>1 DEF TimerInv, TimerTypeOK, CallerTypeOK, ExpireTimedOut, TimerSetPc
  <2> QED
    BY <2>2, <2>3 DEF TimerInv
<1> QED
  BY <1>1, <1>2, <1>3

LEMMA CallerPcs ==
  ASSUME NEW c,
         \/ CallerStep(c)
         \/ \E t \in Threads :
              CallThreadDequeue(c, t) \/ ClearWait(c, t) \/ ActAbort(c, t)
  PROVE  pc' = pc
BY DEF CallerStep, ThreadTimerExpire, WaitQueueRemove, ActAbortCheck,
       ActAbortClear, CallThreadDequeue, ClearWait, ActAbort, progVars

LEMMA CallersKeepTimerInv ==
  ASSUME TimerInv, pc' = pc, NEW c \in Callers, CallerAlone(c),
         \/ CallerHarmless(c)
         \/ \E u \in Threads : CalloutBegins(c, u) \/ CalloutAnswers(c, u)
  PROVE  TimerInv'
<1>1. CallerTypeOK' /\ ExpireTimedOut'
  BY DEF CallerAlone, TimerInv, ExpireTimedOut
<1>2. /\ timerSet' \in [Threads -> BOOLEAN]
      /\ timerCall' \in [Threads -> {"idle", "delayed", "pending"}]
      /\ refCount' \in [Threads -> Int]
  <2>1. CASE CallerHarmless(c)
    BY <2>1 DEF CallerHarmless, TimerInv, TimerTypeOK
  <2>2. ASSUME NEW u \in Threads, CalloutBegins(c, u)
        PROVE  /\ timerSet' \in [Threads -> BOOLEAN]
               /\ timerCall' \in [Threads -> {"idle", "delayed", "pending"}]
               /\ refCount' \in [Threads -> Int]
    BY <2>2 DEF CalloutBegins, TimerInv, TimerTypeOK
  <2>3. ASSUME NEW u \in Threads, CalloutAnswers(c, u)
        PROVE  /\ timerSet' \in [Threads -> BOOLEAN]
               /\ timerCall' \in [Threads -> {"idle", "delayed", "pending"}]
               /\ refCount' \in [Threads -> Int]
    <3>1. timerSet' \in [Threads -> BOOLEAN]
      BY <2>3 DEF CalloutAnswers, TimerInv, TimerTypeOK
    <3>2. refCount' \in [Threads -> Int]
      BY <2>3 DEF CalloutAnswers, TimerInv, TimerTypeOK
    <3> QED
      BY <2>3, <3>1, <3>2 DEF CalloutAnswers, TimerInv, TimerTypeOK
  <2> QED
    BY <2>1, <2>2, <2>3
<1>3. \A t \in Threads : timerSet'[t] => timerSet[t]
  <2>1. CASE timerSet' = timerSet
    BY <2>1
  <2>2. ASSUME NEW u \in Threads, timerSet' = [timerSet EXCEPT ![u] = FALSE]
        PROVE  \A t \in Threads : timerSet'[t] => timerSet[t]
    BY <2>2 DEF TimerInv, TimerTypeOK
  <2> QED
    BY <2>1, <2>2 DEF CallerHarmless, CalloutBegins, CalloutAnswers
<1> QED
  BY <1>1, <1>2, <1>3 DEF TimerInv, TimerTypeOK, TimerSetPc

LEMMA TimerInvNext == Inv /\ TimerInv /\ [Next]_vars => TimerInv'
<1> SUFFICES ASSUME Inv, TimerInv, [Next]_vars PROVE TimerInv'
  OBVIOUS
<1>1. CASE TimerQuiet
  BY <1>1 DEF TimerQuiet, TimerPcsKept, TimerInv, TimerTypeOK, CallerTypeOK,
              ExpireTimedOut, TimerSetPc
<1>2. ASSUME NEW c \in Callers, CallerStep(c) PROVE TimerInv'
  BY <1>2, CallersOfTimers, CallerPcs, CallersKeepTimerInv
<1>3. ASSUME NEW c \in Callers, NEW t \in Threads,
             CallThreadDequeue(c, t) \/ ClearWait(c, t) \/ ActAbort(c, t)
      PROVE  TimerInv'
  BY <1>3, CallersOfTimers, CallerPcs, CallersKeepTimerInv
<1> QED
  BY <1>1, <1>2, <1>3, TimerNext, ThreadTimerSteps DEF TimerStep

LEMMA TimerInvInit == Init => TimerInv
BY DEF Init, TimerInv, TimerTypeOK, CallerTypeOK, ExpireTimedOut, TimerSetPc

------------------------------------------------------------------------------
\* A timer that is marked is not forgotten.
LEMMA FollowedNext ==
  ASSUME Inv, TimerInv, TimerFollowed, [Next]_vars
  PROVE  TimerFollowed'
<1> SUFFICES ASSUME NEW u \in Threads, timerSet'[u]
             PROVE  \/ timerCall'[u] # "idle"
                    \/ \E c \in Callers : Expiring(c, u)'
  BY Zenon DEF TimerFollowed
<1>1. ASSUME timerSet[u] PROVE \/ timerCall[u] # "idle"
                               \/ \E c \in Callers : Expiring(c, u)
  BY <1>1 DEF TimerFollowed
<1>2. CASE TimerQuiet
  BY <1>1, <1>2 DEF TimerQuiet, Expiring
<1>3. ASSUME NEW t \in Threads, TimerOf(t)
      PROVE  \/ timerCall'[u] # "idle"
             \/ \E c \in Callers : Expiring(c, u)'
  <2>1. \A c \in Callers : Expiring(c, u) => Expiring(c, u)'
    BY <1>3 DEF TimerOf, Expiring
  <2> QED
    BY <1>1, <1>3, <2>1 DEF TimerOf, TimerInv, TimerTypeOK
<1>4. ASSUME NEW c \in Callers, CallerAlone(c),
             \/ CallerHarmless(c)
             \/ \E t \in Threads : CalloutBegins(c, t) \/ CalloutAnswers(c, t)
      PROVE  \/ timerCall'[u] # "idle"
             \/ \E d \in Callers : Expiring(d, u)'
  <2>1. \A d \in Callers \ {c} : Expiring(d, u) => Expiring(d, u)'
    BY <1>4 DEF CallerAlone, Expiring
  <2> HIDE DEF Expiring
  <2>2. CASE CallerHarmless(c)
    BY <1>1, <2>1, <2>2 DEF CallerHarmless
  <2>3. ASSUME NEW t \in Threads, CalloutBegins(c, t)
        PROVE  \/ timerCall'[u] # "idle"
               \/ \E d \in Callers : Expiring(d, u)'
    BY <1>1, <2>1, <2>3 DEF CalloutBegins, TimerInv, TimerTypeOK
  <2>4. ASSUME NEW t \in Threads, CalloutAnswers(c, t)
        PROVE  \/ timerCall'[u] # "idle"
               \/ \E d \in Callers : Expiring(d, u)'
    BY <1>1, <2>1, <2>4 DEF CalloutAnswers, TimerInv, TimerTypeOK
  <2> QED
    BY <1>4, <2>2, <2>3, <2>4
<1> QED
  BY <1>2, <1>3, <1>4, TimerNext, ThreadTimerSteps, CallersOfTimers DEF TimerStep

\* No reference is dropped that the callout queue or a callout still holds.
LEMMA TimedOutFinite ==
  ASSUME NEW t \in Threads
  PROVE  /\ IsFiniteSet(TimedOut(t)) /\ Cardinality(TimedOut(t)) \in Nat
         /\ IsFiniteSet(TimedOut(t)') /\ Cardinality(TimedOut(t)') \in Nat
BY FS_Subset, FS_CardinalityType, SchedPrimAssumption DEF TimedOut

LEMMA HoldersOf ==
  \A t \in Threads : TimerHolders(t) = Cardinality(TimedOut(t))
                       + (IF timerCall[t] = "idle" THEN 0 ELSE 1)
BY DEF TimerHolders, TimedOut, HoldsRef

LEMMA CoveredNext ==
  ASSUME Inv, TimerInv, TimerRefsCovered, [Next]_vars
  PROVE  TimerRefsCovered'
<1> SUFFICES ASSUME NEW u \in Threads
             PROVE  (refCount[u] >= TimerHolders(u))'
  BY DEF TimerRefsCovered
<1> DEFINE n == Cardinality(TimedOut(u))
<1>0. /\ TimerHolders(u) = n + (IF timerCall[u] = "idle" THEN 0 ELSE 1)
      /\ TimerHolders(u)' = n' + (IF timerCall'[u] = "idle" THEN 0 ELSE 1)
      /\ n \in Nat /\ n' \in Nat
      /\ refCount[u] \in Int /\ refCount'[u] \in Int
      /\ refCount[u] >= TimerHolders(u)
  BY HoldersOf, TimedOutFinite, TimerInvNext
     DEF TimerHolders, TimedOut, HoldsRef, TimerRefsCovered, TimerInv, TimerTypeOK
<1>1. ASSUME caller' = caller PROVE n' = n
  BY <1>1 DEF TimedOut, HoldsRef
<1>2. CASE TimerQuiet
  <2>1. n' = n /\ timerCall' = timerCall /\ refCount' = refCount
    BY <1>1, <1>2 DEF TimerQuiet
  <2> HIDE DEF n
  <2> QED
    BY <1>0, <2>1
<1>3. ASSUME NEW t \in Threads, TimerOf(t)
      PROVE  refCount'[u] >= TimerHolders(u)'
  <2>1. n' = n
    BY <1>1, <1>3 DEF TimerOf
  <2> HIDE DEF n
  <2> QED
    BY <1>0, <1>3, <2>1 DEF TimerOf
<1>4. ASSUME NEW c \in Callers, CallerAlone(c),
             \/ CallerHarmless(c)
             \/ \E t \in Threads : CalloutBegins(c, t) \/ CalloutAnswers(c, t)
      PROVE  refCount'[u] >= TimerHolders(u)'
  <2>1. \A d \in Callers \ {c} : HoldsRef(d, u)' <=> HoldsRef(d, u)
    BY <1>4 DEF CallerAlone, HoldsRef
  <2> HIDE DEF HoldsRef
  <2>2. /\ (HoldsRef(c, u)' => HoldsRef(c, u)) => n' <= n
        /\ (HoldsRef(c, u)' /\ ~HoldsRef(c, u)) => n' = n + 1
        /\ (~HoldsRef(c, u)' /\ HoldsRef(c, u)) => n' = n - 1
    <3>1. (HoldsRef(c, u)' => HoldsRef(c, u)) => TimedOut(u)' \subseteq TimedOut(u)
      BY <2>1 DEF TimedOut
    <3>2. (HoldsRef(c, u)' /\ ~HoldsRef(c, u))
             => TimedOut(u)' = TimedOut(u) \cup {c} /\ c \notin TimedOut(u)
      BY <2>1 DEF TimedOut
    <3>3. (~HoldsRef(c, u)' /\ HoldsRef(c, u))
             => TimedOut(u)' = TimedOut(u) \ {c} /\ c \in TimedOut(u)
      BY <2>1 DEF TimedOut
    <3> HIDE DEF TimedOut
    <3>4. \A S, T : IsFiniteSet(S) /\ T \subseteq S => Cardinality(T) <= Cardinality(S)
      BY FS_Subset
    <3>5. \A S : IsFiniteSet(S) /\ c \notin S
                   => Cardinality(S \cup {c}) = Cardinality(S) + 1
      BY FS_AddElement
    <3>6. \A S : IsFiniteSet(S) /\ c \in S
                   => Cardinality(S \ {c}) = Cardinality(S) - 1
      BY FS_RemoveElement
    <3> QED
      BY <3>1, <3>2, <3>3, <3>4, <3>5, <3>6, TimedOutFinite
  <2> HIDE DEF n
  <2>3. CASE CallerHarmless(c)
    BY <1>0, <2>2, <2>3 DEF CallerHarmless
  <2>4. ASSUME NEW t \in Threads, CalloutBegins(c, t)
        PROVE  refCount'[u] >= TimerHolders(u)'
    <3>1. /\ refCount'[u] = refCount[u] /\ ~HoldsRef(c, u)
          /\ HoldsRef(c, u)' <=> u = t
          /\ IF u = t THEN timerCall[u] = "pending" /\ timerCall'[u] = "idle"
                      ELSE timerCall'[u] = timerCall[u]
      BY <2>4 DEF CalloutBegins, TimerInv, TimerTypeOK
    <3> QED
      BY <1>0, <2>2, <3>1
  <2>5. ASSUME NEW t \in Threads, CalloutAnswers(c, t)
        PROVE  refCount'[u] >= TimerHolders(u)'
    <3>1. /\ timerCall'[u] = timerCall[u]
          /\ HoldsRef(c, u) <=> u = t
      BY <2>5 DEF CalloutAnswers
    <3>2. CASE /\ refCount' = [refCount EXCEPT ![t] = @ - 1]
               /\ \A v \in Threads : ~HoldsRef(c, v)'
      <4>1. refCount'[u] = IF u = t THEN refCount[u] - 1 ELSE refCount[u]
        BY <3>2 DEF TimerInv, TimerTypeOK
      <4> QED
        BY <1>0, <2>2, <3>1, <3>2, <4>1
    <3>3. CASE /\ refCount' = refCount
               /\ \A v \in Threads : HoldsRef(c, v)' <=> v = t
      BY <1>0, <2>2, <3>1, <3>3
    <3> QED
      BY <2>5, <3>2, <3>3 DEF CalloutAnswers
  <2> QED
    BY <1>4, <2>3, <2>4, <2>5
<1> QED
  BY <1>2, <1>3, <1>4, TimerNext, ThreadTimerSteps, CallersOfTimers DEF TimerStep

LEMMA TimersInit == Init => TimerRefsCovered /\ TimerFollowed
<1> SUFFICES ASSUME Init PROVE TimerRefsCovered /\ TimerFollowed
  OBVIOUS
<1>1. TimerFollowed
  BY DEF Init, TimerFollowed
<1>2. ASSUME NEW t \in Threads PROVE refCount[t] >= TimerHolders(t)
  <2>1. TimedOut(t) = {}
    BY DEF Init, TimedOut, HoldsRef
  <2>2. Cardinality(TimedOut(t)) = 0
    BY <2>1, FS_EmptySet
  <2>3. timerCall[t] = "idle" /\ refCount[t] = 0
    BY DEF Init
  <2>4. TimerHolders(t) = 0 + (IF timerCall[t] = "idle" THEN 0 ELSE 1)
    BY <2>2, HoldersOf
  <2> QED
    BY <2>3, <2>4
<1> QED
  BY <1>1, <1>2 DEF TimerRefsCovered

LEMMA TimerInvariance ==
  Spec => [](Inv /\ TimerInv /\ TimerRefsCovered /\ TimerFollowed)
<1>1. Init => Inv /\ TimerInv /\ TimerRefsCovered /\ TimerFollowed
  BY InvInit, TimerInvInit, TimersInit
<1>2. Inv /\ TimerInv /\ TimerRefsCovered /\ TimerFollowed /\ [Next]_vars
        => (Inv /\ TimerInv /\ TimerRefsCovered /\ TimerFollowed)'
  BY InvNext, TimerInvNext, CoveredNext, FollowedNext
<1> QED
  BY <1>1, <1>2, PTL DEF Spec

\* thread_timer_expire and a wait_queue_remove for it find the reference that
\* thread_set_timer took, however late they come: no cancellation drops the
\* reference of a callout that has left the queue, and none is dropped twice.
THEOREM TimerRefsCorrect == Spec => []TimerRefsCovered
<1> QED
  BY TimerInvariance, PTL

\* The wait timer is never set while it is marked as set (the assertion of
\* thread_set_timer), and one that is marked is with the callout queue or with
\* a callout that has yet to look at it.
THEOREM TimerMarkCorrect == Spec => []TimerNotSetTwice
<1>1. TimerInv /\ TimerFollowed => TimerNotSetTwice
  BY DEF TimerInv, TimerSetPc, TimerPCs, TimerFollowed, Expiring,
         TimerNotSetTwice
<1> QED
  BY <1>1, TimerInvariance, PTL

------------------------------------------------------------------------------
(***************************************************************************)
(* The links of a wait queue                                               *)
(***************************************************************************)
\* The positions of K up to i.
Upto(K, i) == {j \in K : j <= i}

\* Rank numbers the positions of K from 1 on.
LEMMA Ranks ==
  ASSUME NEW n \in Nat, NEW K \in SUBSET (1 .. n)
  PROVE  /\ Cardinality(K) \in Nat
         /\ \A i \in K : Rank(K, i) \in 1 .. Cardinality(K)
         /\ \A i, j \in K : Rank(K, i) = Rank(K, j) => i = j
         /\ \A m \in 1 .. Cardinality(K) : \E i \in K : Rank(K, i) = m
<1>1. IsFiniteSet(K) /\ Cardinality(K) \in Nat
  <2>1. IsFiniteSet(1 .. n)
    BY FS_Interval
  <2>2. IsFiniteSet(K)
    BY <2>1, FS_Subset
  <2> QED
    BY <2>2, FS_CardinalityType
<1>2. \A i \in K : IsFiniteSet(Upto(K, i)) /\ Rank(K, i) \in 1 .. Cardinality(K)
  <2> SUFFICES ASSUME NEW i \in K
               PROVE  IsFiniteSet(Upto(K, i)) /\ Rank(K, i) \in 1 .. Cardinality(K)
    OBVIOUS
  <2>1. /\ IsFiniteSet(Upto(K, i)) /\ Cardinality(Upto(K, i)) \in Nat
        /\ Cardinality(Upto(K, i)) <= Cardinality(K)
    <3>1. Upto(K, i) \in SUBSET K
      BY DEF Upto
    <3>2. IsFiniteSet(Upto(K, i)) /\ Cardinality(Upto(K, i)) <= Cardinality(K)
      BY <1>1, <3>1, FS_Subset
    <3> QED
      BY <3>2, FS_CardinalityType
  <2>2. i \in Upto(K, i)
    BY DEF Upto
  <2>3. Cardinality(Upto(K, i)) # 0
    BY <2>1, <2>2, FS_EmptySet
  <2>4. Rank(K, i) = Cardinality(Upto(K, i))
    BY DEF Rank, Upto
  <2>5. Rank(K, i) \in 1 .. Cardinality(K)
    BY <1>1, <2>1, <2>3, <2>4
  <2> QED
    BY <2>1, <2>5
<1>3. ASSUME NEW i \in K, NEW j \in K, i < j PROVE Rank(K, i) < Rank(K, j)
  <2>1. /\ Upto(K, i) \in SUBSET Upto(K, j)
        /\ j \in Upto(K, j) /\ j \notin Upto(K, i)
    <3>1. K \subseteq Int
      OBVIOUS
    <3>2. \A k \in K : k <= i => k <= j
      BY <1>3, <3>1
    <3>3. j <= j /\ ~(j <= i)
      BY <1>3, <3>1
    <3> QED
      BY <3>2, <3>3 DEF Upto
  <2>2. /\ Cardinality(Upto(K, i)) <= Cardinality(Upto(K, j))
        /\ Cardinality(Upto(K, i)) # Cardinality(Upto(K, j))
    <3>1. IsFiniteSet(Upto(K, j))
      BY <1>2
    <3>2. /\ Cardinality(Upto(K, i)) <= Cardinality(Upto(K, j))
          /\ Cardinality(Upto(K, j)) = Cardinality(Upto(K, i))
               => Upto(K, j) = Upto(K, i)
      BY <2>1, <3>1, FS_Subset
    <3> QED
      BY <2>1, <3>2
  <2>3. /\ Rank(K, i) = Cardinality(Upto(K, i))
        /\ Rank(K, j) = Cardinality(Upto(K, j))
    BY DEF Rank, Upto
  <2> QED
    BY <1>1, <1>2, <2>2, <2>3
<1>4. \A i, j \in K : Rank(K, i) = Rank(K, j) => i = j
  BY <1>1, <1>2, <1>3
<1> DEFINE f == [i \in K |-> Rank(K, i)]
           T == 1 .. Cardinality(K)
<1>5. f \in Injection(K, T)
  BY <1>2, <1>4 DEF Injection, IsInjective
<1>6. IsFiniteSet(T) /\ Cardinality(T) = Cardinality(K)
  BY <1>1, FS_Interval
<1>7. f \in Surjection(K, T)
  <2> HIDE DEF f, T
  <2> QED
    BY <1>5, <1>6, FS_Injection
<1>8. \A m \in T : \E i \in K : f[i] = m
  <2> HIDE DEF f, T
  <2> QED
    BY <1>7 DEF Surjection
<1> QED
  BY <1>1, <1>2, <1>4, <1>8

\* What Kept leaves of a queue: the elements at the positions of K, once each.
LEMMA KeptLinks ==
  ASSUME NEW S, NEW q \in Seq(S), NEW K \in SUBSET DOMAIN q
  PROVE  /\ Kept(q, K) \in Seq(S)
         /\ ToSet(Kept(q, K)) = {q[i] : i \in K}
         /\ IsInjective(q) => IsInjective(Kept(q, K))
         /\ K # {} => \E i \in K : Kept(q, K)[1] = q[i]
<1> DEFINE n == Cardinality(K)
           At(m) == CHOOSE i \in K : Rank(K, i) = m
<1>1. /\ n \in Nat
      /\ \A i \in K : Rank(K, i) \in 1 .. n
      /\ \A i, j \in K : Rank(K, i) = Rank(K, j) => i = j
      /\ \A m \in 1 .. n : \E i \in K : Rank(K, i) = m
  <2>1. K \in SUBSET (1 .. Len(q)) /\ Len(q) \in Nat
    OBVIOUS
  <2> QED
    BY <2>1, Ranks
<1>2. \A m \in 1 .. n : At(m) \in K /\ Rank(K, At(m)) = m
  BY <1>1
<1>3. \A i \in K : At(Rank(K, i)) = i
  BY <1>1, <1>2
<1>4. \A i \in K : q[i] \in S
  OBVIOUS
<1>5. Kept(q, K) = [m \in 1 .. n |-> q[At(m)]]
  BY DEF Kept
<1> HIDE DEF At, n
<1>6. Kept(q, K) \in Seq(S)
  BY <1>1, <1>2, <1>4, <1>5
<1>7. ToSet(Kept(q, K)) = {q[i] : i \in K}
  BY <1>1, <1>2, <1>3, <1>5 DEF ToSet
<1>8. IsInjective(q) => IsInjective(Kept(q, K))
  BY <1>1, <1>2, <1>5 DEF IsInjective
<1>9. K # {} => \E i \in K : Kept(q, K)[1] = q[i]
  <2> SUFFICES ASSUME K # {} PROVE \E i \in K : Kept(q, K)[1] = q[i]
    OBVIOUS
  <2>1. 1 \in 1 .. n
    BY <1>1
  <2> QED
    BY <1>2, <1>5, <2>1
<1> QED
  BY <1>6, <1>7, <1>8, <1>9

LEMMA WithoutLinks ==
  ASSUME NEW S, NEW q \in Seq(S), NEW W
  PROVE  /\ Without(q, W) \in Seq(S)
         /\ ToSet(Without(q, W)) = ToSet(q) \ W
         /\ IsInjective(q) => IsInjective(Without(q, W))
<1> DEFINE K == {i \in DOMAIN q : q[i] \notin W}
<1>1. Without(q, W) = Kept(q, K) /\ K \in SUBSET DOMAIN q
  BY DEF Without
<1>2. {q[i] : i \in K} = ToSet(q) \ W
  BY DEF ToSet
<1> HIDE DEF K
<1> QED
  BY <1>1, <1>2, KeptLinks

\* _wait_queue_select_one takes a waiter of the event, if there is one.
LEMMA FirstWaits ==
  ASSUME NEW e, BucketOf[e] \in Buckets, wq \in [Buckets -> Seq(Threads)],
         WaitersFor(e) # {}
  PROVE  FirstWaiter(e) \in WaitersFor(e)
<1> DEFINE q == wq[BucketOf[e]]
           K == {i \in DOMAIN q : waitEvent[q[i]] = e}
<1>1. q \in Seq(Threads) /\ K \in SUBSET DOMAIN q
  OBVIOUS
<1>2. K # {}
  BY DEF WaitersFor, ToSet
<1>3. \A i \in K : q[i] \in WaitersFor(e)
  BY DEF WaitersFor, ToSet
<1>4. FirstWaiter(e) = Kept(q, K)[1]
  BY DEF FirstWaiter
<1> HIDE DEF q, K
<1> QED
  BY <1>1, <1>2, <1>3, <1>4, KeptLinks

\* wait_queue_assert_wait puts the thread at one end of the queue.
LEMMA LinkedEnds ==
  ASSUME NEW S, NEW q \in Seq(S), NEW t \in S, NEW r,
         r = <<t>> \o q \/ r = Append(q, t)
  PROVE  /\ r \in Seq(S)
         /\ ToSet(r) = ToSet(q) \cup {t}
         /\ IsInjective(q) /\ t \notin ToSet(q) => IsInjective(r)
<1>1. Len(q) \in Nat /\ DOMAIN q = 1 .. Len(q)
  OBVIOUS
<1>2. CASE r = Append(q, t)
  <2>1. /\ r \in Seq(S) /\ Len(r) = Len(q) + 1 /\ r[Len(q) + 1] = t
        /\ \A i \in 1 .. Len(q) : r[i] = q[i]
    BY <1>2
  <2>2. DOMAIN r = 1 .. Len(q) + 1
    BY <2>1
  <2>3. ToSet(r) = ToSet(q) \cup {t}
    BY <1>1, <2>1, <2>2 DEF ToSet
  <2>4. IsInjective(q) /\ t \notin ToSet(q) => IsInjective(r)
    BY <1>1, <2>1, <2>2 DEF ToSet, IsInjective
  <2> QED
    BY <2>1, <2>3, <2>4
<1>3. CASE r = <<t>> \o q
  <2>1. /\ r \in Seq(S) /\ Len(r) = Len(q) + 1 /\ r[1] = t
        /\ \A i \in 1 .. Len(q) : r[i + 1] = q[i]
        /\ \A i \in 2 .. Len(q) + 1 : r[i] = q[i - 1]
    BY <1>3
  <2>2. DOMAIN r = 1 .. Len(q) + 1
    BY <2>1
  <2>3. ToSet(r) = ToSet(q) \cup {t}
    <3>1. \A i \in 1 .. Len(q) : i + 1 \in 1 .. Len(q) + 1
      BY <1>1
    <3>2. \A i \in 1 .. Len(q) + 1 : i = 1 \/ (i \in 2 .. Len(q) + 1
                                              /\ i - 1 \in 1 .. Len(q))
      BY <1>1
    <3>3. t \in ToSet(r) /\ \A i \in 1 .. Len(q) : q[i] \in ToSet(r)
      <4>1. ToSet(r) = {r[i] : i \in 1 .. Len(q) + 1}
        BY <2>2 DEF ToSet
      <4>2. 1 \in 1 .. Len(q) + 1
        BY <1>1
      <4> QED
        BY <2>1, <3>1, <4>1, <4>2
    <3>4. \A i \in 1 .. Len(q) + 1 : r[i] \in ToSet(q) \cup {t}
      BY <1>1, <2>1, <3>2 DEF ToSet
    <3> QED
      BY <1>1, <2>2, <3>3, <3>4 DEF ToSet
  <2>4. IsInjective(q) /\ t \notin ToSet(q) => IsInjective(r)
    <3> SUFFICES ASSUME IsInjective(q), t \notin ToSet(q),
                        NEW i \in 1 .. Len(q) + 1, NEW j \in 1 .. Len(q) + 1,
                        r[i] = r[j]
                 PROVE  i = j
      BY <2>2 DEF IsInjective
    <3>1. \A k \in 1 .. Len(q) : q[k] # t
      BY <1>1 DEF ToSet
    <3>2. \A k \in 1 .. Len(q) + 1 : k = 1 \/ (k \in 2 .. Len(q) + 1
                                              /\ k - 1 \in 1 .. Len(q))
      BY <1>1
    <3>3. CASE i = 1 \/ j = 1
      BY <2>1, <3>1, <3>2, <3>3
    <3>4. CASE i # 1 /\ j # 1
      <4>1. q[i - 1] = q[j - 1] /\ i - 1 \in DOMAIN q /\ j - 1 \in DOMAIN q
        BY <1>1, <2>1, <3>2, <3>4
      <4>2. i - 1 = j - 1
        BY <4>1 DEF IsInjective
      <4> QED
        BY <4>2
    <3> QED
      BY <3>3, <3>4
  <2> QED
    BY <2>1, <2>3, <2>4
<1> QED
  BY <1>2, <1>3
=============================================================================
