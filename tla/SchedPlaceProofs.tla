-------------------------- MODULE SchedPlaceProofs ---------------------------
(***************************************************************************)
(* Where SchedPrim keeps its threads, for any sets of threads, processors  *)
(* and events: a thread with TH_RUN is in exactly one place, only a        *)
(* runnable thread is selected, no abort is lost, the wait queues hold who *)
(* waits (and so implement EventWait), and without stack handoff no        *)
(* stopper is forgotten.                                                   *)
(*                                                                         *)
(* A processor handles a thread in one of three ways (Row): it runs it, it *)
(* has selected it, or it has yet to dispatch it.  PlaceOK says that a     *)
(* thread is in one place, WaitPlace in which places a thread may be while *)
(* it waits.  The actions either leave the rows of the processors alone    *)
(* (SameRows) or move one thread, or two, along the row of one processor.  *)
(* That a thread which executes does not wait follows, and from that what  *)
(* an action may do to the queues (EventStep).                             *)
(***************************************************************************)
EXTENDS SchedPrimProofs

Kinds == {"on", "chosen", "leaving"}

\* Where a thread may be between assert_wait and thread_block.
BlockPCs == {"asserted", "armed", "stopSleep", "waitSleep"}

Row(p, k, t) ==
  \/ k = "on" /\ cpu[p] = t
  \/ k = "chosen" /\ phase[p] = "selected" /\ new[p] = t /\ cpu[p] # t
  \/ k = "leaving" /\ phase[p] \in {"dispatch", "handoff"} /\ old[p] = t

Handled(t) == \E p \in Cpus, k \in Kinds : Row(p, k, t)

HandledOnce(t) ==
  \A p, q \in Cpus, k, l \in Kinds :
    Row(p, k, t) /\ Row(q, l, t) => p = q /\ k = l

PlaceOK(t) ==
  /\ ready[t] \in {0, 1}
  /\ HandledOnce(t)
  /\ ready[t] = 1 \/ stack[t] = "coming_in" => ~Handled(t)
  /\ ~(ready[t] = 1 /\ stack[t] = "coming_in")
  /\ "RUN" \in state[t] <=> ready[t] = 1 \/ stack[t] = "coming_in" \/ Handled(t)

WaitPlace(t) ==
  "WAIT" \in state[t] =>
    /\ ready[t] = 0 /\ stack[t] # "coming_in"
    /\ \A p \in Cpus :
         /\ phase[p] = "selected" => new[p] # t
         /\ cpu[p] = t => phase[p] \in {"run", "selected", "reselect"}
         /\ cpu[p] = t /\ phase[p] = "run" => pc[t] \in BlockPCs

\* A thread runs or waits, and the policy holds runnable what does not wait.
RunOrWait(t) ==
  /\ "WAIT" \notin state[t] => thState[t] = "RUNNABLE"
  /\ "RUN" \in state[t] \/ "WAIT" \in state[t]

PlaceTypeOK ==
  /\ stack \in [Threads -> {"own", "handoff", "coming_in"}]
  /\ thState \in [Threads -> {"RUNNABLE", "BLOCKED"}]
  /\ ready \in [Threads -> Int]
  /\ cpu \in [Cpus -> Threads \cup {Idle}]
  /\ phase \in [Cpus -> Phases]
  /\ old \in [Cpus -> Threads \cup {Idle}]
  /\ new \in [Cpus -> Threads \cup {Idle}]

PlaceInv == \A t \in Threads : PlaceOK(t) /\ WaitPlace(t) /\ RunOrWait(t)

------------------------------------------------------------------------------
(***************************************************************************)
(* Steps that leave the rows alone                                         *)
(***************************************************************************)
SameRows ==
  \A p \in Cpus, k \in Kinds, t \in Threads : Row(p, k, t)' <=> Row(p, k, t)

\* No processor selects a thread that waits, or takes it out of thread_block.
SamePhases ==
  /\ cpu' = cpu
  /\ \A p \in Cpus, t \in Threads : "WAIT" \in state'[t] =>
       /\ phase'[p] = "selected" => new'[p] # t
       /\ cpu[p] = t =>
            phase'[p] = phase[p] \/ phase'[p] \in {"selected", "reselect"}

\* A waiting thread that still executes goes nowhere but to its thread_block.
SamePlaces ==
  \A t \in Threads : "WAIT" \in state'[t] /\ Executing(t)'
                       => pc'[t] = pc[t] \/ pc'[t] \in BlockPCs

\* Waits end, of threads with TH_RUN and of threads that are made ready.
Awakes ==
  /\ stack' = stack
  /\ \A t \in Threads :
       /\ \/ ready'[t] = ready[t] /\ ("RUN" \in state'[t] <=> "RUN" \in state[t])
          \/ /\ "RUN" \notin state[t] /\ "RUN" \in state'[t]
             /\ "WAIT" \notin state'[t]
             /\ ready'[t] = ready[t] + 1
       /\ "WAIT" \in state'[t] => "WAIT" \in state[t]
       /\ RunOrWait(t)'

LEMMA SameHandled ==
  ASSUME SameRows, NEW t \in Threads
  PROVE  (Handled(t)' <=> Handled(t)) /\ (HandledOnce(t)' <=> HandledOnce(t))
<1>1. \A p \in Cpus, k \in Kinds : Row(p, k, t)' <=> Row(p, k, t)
  BY DEF SameRows
<1> HIDE DEF Row
<1> QED
  BY <1>1 DEF Handled, HandledOnce

LEMMA AwakesKeepPlaces ==
  ASSUME PlaceInv, SameRows, SamePhases, SamePlaces, Awakes
  PROVE  PlaceInv'
<1> SUFFICES ASSUME NEW t \in Threads
             PROVE  (PlaceOK(t) /\ WaitPlace(t) /\ RunOrWait(t))'
  BY DEF PlaceInv
<1>1. PlaceOK(t) /\ WaitPlace(t) /\ RunOrWait(t)
  BY DEF PlaceInv
<1>2. PlaceOK(t)'
  <2>1. (Handled(t)' <=> Handled(t)) /\ (HandledOnce(t)' <=> HandledOnce(t))
    BY SameHandled
  <2> HIDE DEF Handled, HandledOnce
  <2>2. stack'[t] = stack[t]
    BY DEF Awakes
  <2>3. CASE /\ ready'[t] = ready[t]
             /\ "RUN" \in state'[t] <=> "RUN" \in state[t]
    BY <1>1, <2>1, <2>2, <2>3 DEF PlaceOK
  <2>4. CASE /\ "RUN" \notin state[t] /\ "RUN" \in state'[t]
             /\ ready'[t] = ready[t] + 1
    BY <1>1, <2>1, <2>2, <2>4 DEF PlaceOK
  <2> QED
    BY <2>3, <2>4 DEF Awakes
<1>3. WaitPlace(t)'
  <2> SUFFICES ASSUME "WAIT" \in state'[t] PROVE WaitPlace(t)'
    BY DEF WaitPlace
  <2>1. /\ "WAIT" \in state[t] /\ ready'[t] = ready[t] /\ stack'[t] = stack[t]
        /\ \A p \in Cpus : cpu'[p] = t /\ phase'[p] = "run"
                            => pc'[t] = pc[t] \/ pc'[t] \in BlockPCs
    BY DEF Awakes, SamePlaces, Executing
  <2>2. \A p \in Cpus :
          /\ phase'[p] = "selected" => new'[p] # t
          /\ cpu'[p] = t => /\ cpu[p] = t
                            /\ \/ phase'[p] = phase[p]
                               \/ phase'[p] \in {"selected", "reselect"}
    BY <2>1 DEF SamePhases
  <2> QED
    BY <1>1, <2>1, <2>2 DEF WaitPlace
<1>4. RunOrWait(t)'
  BY DEF Awakes
<1> QED
  BY <1>2, <1>3, <1>4

LEMMA GoLockedAwakes ==
  ASSUME Inv, PlaceTypeOK, PlaceInv, NEW W, NEW result, GoLocked(W, result)
  PROVE  Awakes
<1>1. stack' = stack
  BY DEF GoLocked
<1> SUFFICES ASSUME NEW t \in Threads
             PROVE  /\ \/ /\ ready'[t] = ready[t]
                          /\ "RUN" \in state'[t] <=> "RUN" \in state[t]
                       \/ /\ "RUN" \notin state[t] /\ "RUN" \in state'[t]
                          /\ "WAIT" \notin state'[t]
                          /\ ready'[t] = ready[t] + 1
                    /\ "WAIT" \in state'[t] => "WAIT" \in state[t]
                    /\ RunOrWait(t)'
  BY <1>1 DEF Awakes
<1>2. RunOrWait(t)
  BY DEF PlaceInv
<1>3. CASE t \in W /\ "WAIT" \in state[t]
  <2>1. /\ state'[t] = (state[t] \ {"WAIT"}) \cup {"RUN"}
        /\ thState'[t] = "RUNNABLE"
        /\ ready'[t] = IF "RUN" \notin state[t] THEN ready[t] + 1 ELSE ready[t]
    BY <1>3 DEF GoLocked, SetRun
  <2> QED
    BY <2>1 DEF RunOrWait
<1>4. CASE ~(t \in W /\ "WAIT" \in state[t])
  <2>1. /\ state'[t] = state[t] /\ ready'[t] = ready[t]
        /\ thState'[t] \in {thState[t], "RUNNABLE"}
    BY <1>4 DEF GoLocked, SetRun
  <2> QED
    BY <1>2, <2>1 DEF RunOrWait
<1> QED
  BY <1>3, <1>4

\* Nothing happens to the threads' states.
LEMMA QuietAwakes ==
  ASSUME PlaceInv, UNCHANGED <<state, stack, thState, ready>>
  PROVE  Awakes
BY DEF PlaceInv, RunOrWait, Awakes

\* Nor to the bits that say whether they run and wait.
LEMMA StateBitsAwake ==
  ASSUME PlaceInv, UNCHANGED <<stack, thState, ready>>,
         \A t \in Threads : /\ "RUN" \in state'[t] <=> "RUN" \in state[t]
                            /\ "WAIT" \in state'[t] <=> "WAIT" \in state[t]
  PROVE  Awakes
<1> SUFFICES ASSUME NEW t \in Threads
             PROVE  /\ ready'[t] = ready[t]
                    /\ "RUN" \in state'[t] <=> "RUN" \in state[t]
                    /\ "WAIT" \in state'[t] => "WAIT" \in state[t]
                    /\ RunOrWait(t)'
  BY Zenon DEF Awakes
<1>1. RunOrWait(t)
  BY DEF PlaceInv
<1> QED
  BY <1>1 DEF RunOrWait

LEMMA UnchangedRows == UNCHANGED <<cpu, phase, old, new>> => SameRows
BY DEF SameRows, Row

LEMMA UnchangedPhases ==
  ASSUME PlaceInv, Awakes, UNCHANGED <<cpu, phase, old, new>>
  PROVE  SamePhases
BY DEF PlaceInv, WaitPlace, Awakes, SamePhases

LEMMA UnchangedPcs == pc' = pc => SamePlaces
BY DEF SamePlaces

\* A step that leaves the processors alone.
LEMMA CpusKeepPlaces ==
  ASSUME PlaceInv, PlaceTypeOK, UNCHANGED cpuVars, SamePlaces, Awakes,
         thState' \in [Threads -> {"RUNNABLE", "BLOCKED"}],
         ready' \in [Threads -> Int]
  PROVE  PlaceInv' /\ PlaceTypeOK'
<1>1. UNCHANGED <<cpu, phase, old, new>>
  BY DEF cpuVars
<1>2. PlaceInv'
  BY <1>1, UnchangedRows, UnchangedPhases, AwakesKeepPlaces
<1>3. PlaceTypeOK'
  BY <1>1 DEF PlaceTypeOK, Awakes
<1> QED
  BY <1>2, <1>3

\* What thread_go_locked may do to the types.
LEMMA GoLockedTypes ==
  ASSUME PlaceTypeOK, NEW W, NEW result, GoLocked(W, result)
  PROVE  /\ thState' \in [Threads -> {"RUNNABLE", "BLOCKED"}]
         /\ ready' \in [Threads -> Int]
BY DEF PlaceTypeOK, GoLocked, SetRun

LEMMA WakeupPlaces ==
  ASSUME Inv, PlaceTypeOK, PlaceInv, NEW e,
         ThreadWakeup(e) \/ ThreadWakeupOne(e)
  PROVE  PlaceInv' /\ PlaceTypeOK'
<1>1. PICK W : GoLocked(W, "awakened")
  BY DEF ThreadWakeup, ThreadWakeupOne, Wakeup
<1>2. pc' = pc /\ UNCHANGED cpuVars
  BY DEF ThreadWakeup, ThreadWakeupOne, progVars
<1> QED
  BY <1>1, <1>2, GoLockedAwakes, GoLockedTypes, UnchangedPcs, CpusKeepPlaces

LEMMA UnstopWakePlaces ==
  ASSUME Inv, PlaceTypeOK, PlaceInv, NEW s \in Threads, UnstopWake(s)
  PROVE  PlaceInv' /\ PlaceTypeOK'
<1>1. PICK W : GoLocked(W, "awakened")
  BY DEF UnstopWake, Wakeup
<1>2. UNCHANGED cpuVars /\ Executing(s) /\ pc[s] = "unstopWake"
      /\ pc' = [pc EXCEPT ![s] = "run"]
  BY DEF UnstopWake, GoTo
<1>3. "WAIT" \notin state[s]
  BY <1>2 DEF Executing, PlaceInv, WaitPlace, BlockPCs
<1>4. Awakes
  BY <1>1, GoLockedAwakes
<1>5. SamePlaces
  BY <1>2, <1>3, <1>4 DEF SamePlaces, Awakes, Inv, WaitTypeOK
<1> QED
  BY <1>1, <1>2, <1>4, <1>5, GoLockedTypes, CpusKeepPlaces

\* clear_wait by a caller.
LEMMA CallerPlaces ==
  ASSUME Inv, PlaceTypeOK, PlaceInv, NEW c, NEW t,
         \/ ThreadTimerExpire(c) \/ WaitQueueRemove(c) \/ ActAbortClear(c)
         \/ ClearWait(c, t)
  PROVE  PlaceInv' /\ PlaceTypeOK'
<1>1. pc' = pc /\ UNCHANGED cpuVars
  BY DEF ThreadTimerExpire, WaitQueueRemove, ActAbortClear, ClearWait, progVars
<1>2. \/ \E W, result : GoLocked(W, result)
      \/ UNCHANGED <<state, stack, thState, ready>>
  <2>1. CASE WaitQueueRemove(c)
    BY <2>1 DEF WaitQueueRemove, stateVars
  <2>2. ASSUME NEW u, NEW result, ClearWaitInternal(c, u, result)
        PROVE  \/ GoLocked({u}, result)
               \/ UNCHANGED <<state, stack, thState, ready>>
    BY <2>2 DEF ClearWaitInternal, stateVars
  <2>3. CASE ThreadTimerExpire(c)
    BY <2>2, <2>3 DEF ThreadTimerExpire, stateVars
  <2>4. CASE ActAbortClear(c) \/ ClearWait(c, t)
    BY <2>2, <2>4 DEF ActAbortClear, ClearWait, DoClearWait, stateVars
  <2> QED
    BY <2>1, <2>3, <2>4
<1>3. CASE \E W, result : GoLocked(W, result)
  BY <1>1, <1>3, GoLockedAwakes, GoLockedTypes, UnchangedPcs, CpusKeepPlaces
<1>4. CASE UNCHANGED <<state, stack, thState, ready>>
  BY <1>1, <1>4, QuietAwakes, UnchangedPcs, CpusKeepPlaces DEF PlaceTypeOK
<1> QED
  BY <1>2, <1>3, <1>4

\* Steps on the other bits of the state, the timer, the stop and the callers.
LEMMA QuietPlaces ==
  ASSUME Inv, PlaceTypeOK, PlaceInv, NEW c, NEW t,
         DelayedCallInterrupt(t) \/ CallThreadDequeue(c, t) \/ ActAbortCheck(c)
  PROVE  PlaceInv' /\ PlaceTypeOK'
<1>1. /\ pc' = pc /\ UNCHANGED cpuVars
      /\ UNCHANGED <<state, stack, thState, ready>>
  BY DEF DelayedCallInterrupt, CallThreadDequeue, ActAbortCheck, progVars,
         stateVars
<1> QED
  BY <1>1, QuietAwakes, UnchangedPcs, CpusKeepPlaces DEF PlaceTypeOK

LEMMA AbortPlaces ==
  ASSUME Inv, PlaceTypeOK, PlaceInv, NEW c, NEW t,
         ActAbort(c, t) \/ SpecialHandler(t)
  PROVE  PlaceInv' /\ PlaceTypeOK'
<1>1. /\ pc' = pc /\ UNCHANGED cpuVars
      /\ UNCHANGED <<stack, thState, ready>>
  BY DEF ActAbort, SpecialHandler, progVars
<1>2. \/ state' = [state EXCEPT ![t] = @ \cup {"ABORT"}]
      \/ state' = [state EXCEPT ![t] = @ \ {"ABORT"}]
  BY DEF ActAbort, SpecialHandler
<1>3. ASSUME NEW u \in Threads
      PROVE  /\ "RUN" \in state'[u] <=> "RUN" \in state[u]
             /\ "WAIT" \in state'[u] <=> "WAIT" \in state[u]
  BY <1>2 DEF Inv, WaitTypeOK
<1>4. Awakes
  BY <1>1, <1>3, StateBitsAwake
<1> QED
  BY <1>1, <1>4, UnchangedPcs, CpusKeepPlaces DEF PlaceTypeOK


(***************************************************************************)
(* Steps of a thread that executes                                         *)
(***************************************************************************)
\* A thread executes in one place, and waits only on its way to thread_block.
LEMMA ExecutingPlace ==
  ASSUME PlaceInv, NEW t \in Threads, Executing(t)
  PROVE  /\ ready[t] = 0 /\ stack[t] # "coming_in"
         /\ \A p \in Cpus : /\ cpu[p] = t => phase[p] = "run"
                            /\ phase[p] = "selected" => new[p] # t
         /\ pc[t] \notin BlockPCs => "WAIT" \notin state[t]
<1>1. PICK q \in Cpus : cpu[q] = t /\ phase[q] = "run"
  BY DEF Executing
<1>2. PlaceOK(t) /\ WaitPlace(t) /\ Row(q, "on", t) /\ "on" \in Kinds
  BY <1>1 DEF PlaceInv, Row, Kinds
<1>3. ready[t] = 0 /\ stack[t] # "coming_in"
  BY <1>2 DEF PlaceOK, Handled
<1>4. ASSUME NEW p \in Cpus, cpu[p] = t PROVE p = q
  BY <1>2, <1>4 DEF PlaceOK, HandledOnce, Row, Kinds
<1>5. ASSUME NEW p \in Cpus, phase[p] = "selected" PROVE new[p] # t
  <2>1. CASE cpu[p] = t
    BY <1>1, <1>4, <1>5, <2>1
  <2>2. CASE cpu[p] # t
    <3>1. ~Row(p, "chosen", t)
      BY <1>2 DEF PlaceOK, HandledOnce, Kinds
    <3> QED
      BY <1>5, <2>2, <3>1 DEF Row
  <2> QED
    BY <2>1, <2>2
<1>6. pc[t] \notin BlockPCs => "WAIT" \notin state[t]
  BY <1>1, <1>2 DEF WaitPlace
<1> QED
  BY <1>1, <1>3, <1>4, <1>5, <1>6

LEMMA OwnPcStep ==
  ASSUME Inv, PlaceInv, NEW t \in Threads, Executing(t), NEW to,
         pc' = [pc EXCEPT ![t] = to],
         to \in BlockPCs \/ pc[t] \notin BlockPCs,
         "WAIT" \in state'[t] => "WAIT" \in state[t]
  PROVE  SamePlaces
<1>1. \A u \in Threads : pc'[u] = IF u = t THEN to ELSE pc[u]
  BY DEF Inv, WaitTypeOK
<1> QED
  BY <1>1, ExecutingPlace DEF SamePlaces

LEMMA TimerPlaces ==
  ASSUME Inv, PlaceTypeOK, PlaceInv, NEW t \in Threads,
         \/ ThreadSetTimer(t) \/ ThreadCancelTimer(t) \/ ThreadStopWait(t)
         \/ ThreadWait(t) \/ MarkWakeActive(t) \/ AfterSleep(t)
  PROVE  PlaceInv' /\ PlaceTypeOK'
<1>1. /\ Executing(t) /\ UNCHANGED cpuVars
      /\ UNCHANGED <<state, stack, thState, ready>>
  BY DEF ThreadSetTimer, ThreadCancelTimer, ThreadStopWait, ThreadWait,
         MarkWakeActive, AfterSleep, stateVars
<1>2. \E to : /\ pc' = [pc EXCEPT ![t] = to]
              /\ to \in BlockPCs \/ pc[t] \notin BlockPCs
  BY DEF ThreadSetTimer, ThreadCancelTimer, ThreadStopWait, ThreadWait,
         MarkWakeActive, AfterSleep, GoTo, BlockPCs
<1>3. SamePlaces
  BY <1>1, <1>2, OwnPcStep
<1> QED
  BY <1>1, <1>3, QuietAwakes, CpusKeepPlaces DEF PlaceTypeOK

\* thread_unstop never has to start its target itself: a thread without
\* TH_RUN waits.
LEMMA StopPlaces ==
  ASSUME Inv, PlaceTypeOK, PlaceInv, NEW s \in Threads,
         ThreadStop(s) \/ ThreadUnstop(s)
  PROVE  PlaceInv' /\ PlaceTypeOK'
<1>1. Executing(s) /\ UNCHANGED cpuVars /\ target[s] \in Threads
  BY DEF ThreadStop, ThreadUnstop, Inv, StopTargetOK, StopPCs
<1>2. state[target[s]] \cap {"RUN", "WAIT", "SUSP"} # {"SUSP"}
  BY <1>1 DEF PlaceInv, RunOrWait
<1>3. /\ UNCHANGED <<stack, thState, ready>>
      /\ \/ state' = state
         \/ state' = [state EXCEPT ![target[s]] = @ \cup {"SUSP"}]
         \/ state' = [state EXCEPT ![target[s]] = @ \ {"SUSP"}]
  BY <1>2 DEF ThreadStop, ThreadUnstop
<1>4. \E to : pc' = [pc EXCEPT ![s] = to] /\ pc[s] \notin BlockPCs
  BY <1>2 DEF ThreadStop, ThreadUnstop, GoTo, BlockPCs
<1>5. ASSUME NEW u \in Threads
      PROVE  /\ "RUN" \in state'[u] <=> "RUN" \in state[u]
             /\ "WAIT" \in state'[u] <=> "WAIT" \in state[u]
  BY <1>3 DEF Inv, WaitTypeOK
<1>6. Awakes
  BY <1>3, <1>5, StateBitsAwake
<1>7. SamePlaces
  BY <1>1, <1>4, <1>5, OwnPcStep
<1> QED
  BY <1>1, <1>3, <1>6, <1>7, CpusKeepPlaces DEF PlaceTypeOK

\* assert_wait: only a thread that executes starts to wait.
LEMMA AssertPlaces ==
  ASSUME Inv, PlaceTypeOK, PlaceInv, NEW t \in Threads,
         AssertWait(t) \/ AssertWakeActive(t)
  PROVE  PlaceInv' /\ PlaceTypeOK'
<1>1. /\ Executing(t) /\ UNCHANGED <<cpu, phase, old, new>>
      /\ \E to \in BlockPCs : pc' = [pc EXCEPT ![t] = to]
      /\ \E e, mode : MarkWait(t, e, mode)
  BY DEF AssertWait, AssertWakeActive, GoTo, BlockPCs, cpuVars
<1>2. /\ UNCHANGED <<stack, thState, ready>>
      /\ \E B \in {{"WAIT"}, {"WAIT", "UNINT"}} :
           state' = [state EXCEPT ![t] = @ \cup B]
  BY <1>1 DEF MarkWait
<1>3. \A u \in Threads : /\ "RUN" \in state'[u] <=> "RUN" \in state[u]
                         /\ "WAIT" \in state'[u] <=> "WAIT" \in state[u] \/ u = t
  BY <1>2 DEF Inv, WaitTypeOK
<1>4. SameRows
  BY <1>1, UnchangedRows
<1> SUFFICES ASSUME NEW u \in Threads
             PROVE  (PlaceOK(u) /\ WaitPlace(u) /\ RunOrWait(u))'
  BY <1>1, <1>2 DEF PlaceInv, PlaceTypeOK
<1>5. PlaceOK(u) /\ WaitPlace(u) /\ RunOrWait(u)
  BY DEF PlaceInv
<1>6. PlaceOK(u)'
  <2>1. (Handled(u)' <=> Handled(u)) /\ (HandledOnce(u)' <=> HandledOnce(u))
    BY <1>4, SameHandled
  <2> QED
    BY <1>2, <1>3, <1>5, <2>1, SameHandled DEF PlaceOK
<1>7. WaitPlace(u)'
  <2>1. CASE u = t
    <3>1. pc'[u] \in BlockPCs
      BY <1>1, <2>1 DEF Inv, WaitTypeOK
    <3> QED
      BY <1>1, <1>2, <2>1, <3>1, ExecutingPlace DEF WaitPlace
  <2>2. CASE u # t
    <3>1. pc'[u] = pc[u]
      BY <1>1, <2>2 DEF Inv, WaitTypeOK
    <3> QED
      BY <1>1, <1>2, <1>3, <1>5, <2>2, <3>1 DEF WaitPlace
  <2> QED
    BY <2>1, <2>2
<1>8. RunOrWait(u)'
  BY <1>2, <1>3, <1>5 DEF RunOrWait
<1> QED
  BY <1>6, <1>7, <1>8

(***************************************************************************)
(* Steps of a processor inside thread_block                                *)
(***************************************************************************)
\* A thread that a processor handles is nowhere else.
LEMMA OnePlace ==
  ASSUME NEW t \in Threads, PlaceOK(t), NEW p \in Cpus, NEW k \in Kinds,
         Row(p, k, t)
  PROVE  /\ ready[t] = 0 /\ stack[t] # "coming_in" /\ "RUN" \in state[t]
         /\ \A q \in Cpus, l \in Kinds : Row(q, l, t) <=> q = p /\ l = k
<1> HIDE DEF Row
<1> QED
  BY DEF PlaceOK, Handled, HandledOnce

LEMMA PlacedOnce ==
  ASSUME NEW t \in Threads, NEW p \in Cpus, NEW k \in Kinds,
         \A q \in Cpus, l \in Kinds : Row(q, l, t)' <=> q = p /\ l = k,
         ready'[t] = 0, stack'[t] # "coming_in", "RUN" \in state'[t]
  PROVE  PlaceOK(t)'
<1> HIDE DEF Row
<1> QED
  BY DEF PlaceOK, Handled, HandledOnce

LEMMA PlacedSame ==
  ASSUME NEW t \in Threads, PlaceOK(t),
         \A q \in Cpus, l \in Kinds : Row(q, l, t)' <=> Row(q, l, t),
         ready'[t] = ready[t],
         stack'[t] = "coming_in" <=> stack[t] = "coming_in",
         "RUN" \in state'[t] <=> "RUN" \in state[t]
  PROVE  PlaceOK(t)'
<1> HIDE DEF Row
<1>1. (Handled(t)' <=> Handled(t)) /\ (HandledOnce(t)' <=> HandledOnce(t))
  BY DEF Handled, HandledOnce
<1> HIDE DEF Handled, HandledOnce
<1> QED
  BY <1>1 DEF PlaceOK

LEMMA PlacedNowhere ==
  ASSUME NEW t \in Threads,
         \A q \in Cpus, l \in Kinds : ~Row(q, l, t)',
         ready'[t] \in {0, 1}, ~(ready'[t] = 1 /\ stack'[t] = "coming_in"),
         "RUN" \in state'[t] <=> ready'[t] = 1 \/ stack'[t] = "coming_in"
  PROVE  PlaceOK(t)'
<1> HIDE DEF Row
<1> QED
  BY DEF PlaceOK, Handled, HandledOnce

\* thread_select, by a processor on its way into thread_block.
LEMMA SelectPlaces ==
  ASSUME PlaceTypeOK, PlaceInv, NEW p \in Cpus, NEW st, Select(p, st),
         phase[p] \in {"run", "reselect"},
         phase' = [phase EXCEPT ![p] = "selected"],
         UNCHANGED <<cpu, old, stack>>,
         cpu[p] \in Threads => st = state'[cpu[p]],
         SamePlaces,
         \A t \in Threads : /\ "RUN" \in state'[t] <=> "RUN" \in state[t]
                            /\ "WAIT" \in state'[t] => "WAIT" \in state[t]
                            /\ RunOrWait(t)'
  PROVE  /\ PlaceInv'
         /\ ready' \in [Threads -> Int] /\ new' \in [Cpus -> Threads \cup {Idle}]
<1>0. Idle \notin Threads
  BY ConstantTypes
<1>1. \A q \in Cpus : phase'[q] = IF q = p THEN "selected" ELSE phase[q]
  BY DEF PlaceTypeOK
<1>2. ASSUME ready' = ready, NEW n \in Threads \cup {Idle},
             new' = [new EXCEPT ![p] = n],
             n # Idle => n = cpu[p] /\ st = {"RUN"}
      PROVE  PlaceInv' /\ ready' \in [Threads -> Int]
                       /\ new' \in [Cpus -> Threads \cup {Idle}]
  <2>2. /\ \A q \in Cpus : new'[q] = IF q = p THEN n ELSE new[q]
        /\ new' \in [Cpus -> Threads \cup {Idle}]
    <3>1. new \in [Cpus -> Threads \cup {Idle}]
      BY DEF PlaceTypeOK
    <3> QED
      BY <1>2, <3>1
  <2>3. SameRows
    <3> SUFFICES ASSUME NEW q \in Cpus, NEW k \in Kinds, NEW t \in Threads
                 PROVE  Row(q, k, t)' <=> Row(q, k, t)
      BY DEF SameRows
    <3>1. CASE q = p
      BY <1>0, <1>1, <1>2, <2>2, <3>1 DEF Row
    <3>2. CASE q # p
      BY <1>1, <2>2, <3>2 DEF Row
    <3> QED
      BY <3>1, <3>2
  <2>4. SamePhases
    <3> SUFFICES ASSUME NEW q \in Cpus, NEW t \in Threads, "WAIT" \in state'[t]
                 PROVE  /\ phase'[q] = "selected" => new'[q] # t
                        /\ cpu[q] = t => \/ phase'[q] = phase[q]
                                         \/ phase'[q] \in {"selected", "reselect"}
      BY DEF SamePhases
    <3>1. WaitPlace(t) /\ "WAIT" \in state[t]
      BY DEF PlaceInv
    <3>2. CASE q = p
      <4>1. n # t
        <5>1. CASE n = Idle
          BY <1>0, <5>1
        <5>2. CASE n # Idle
          <6>1. n \in Threads /\ n = cpu[p] /\ state'[n] = {"RUN"}
            BY <1>2, <5>2
          <6> QED
            BY <6>1
        <5> QED
          BY <5>1, <5>2
      <4> QED
        BY <1>1, <2>2, <3>2, <4>1
    <3>3. CASE q # p
      BY <1>1, <2>2, <3>1, <3>3 DEF WaitPlace
    <3> QED
      BY <3>2, <3>3
  <2>5. Awakes
    BY <1>2 DEF Awakes
  <2> QED
    BY <1>2, <2>2, <2>3, <2>4, <2>5, AwakesKeepPlaces DEF PlaceTypeOK
<1>3. ASSUME NEW t \in Threads, ready[t] > 0,
             ready' = [ready EXCEPT ![t] = @ - 1],
             new' = [new EXCEPT ![p] = t]
      PROVE  PlaceInv' /\ ready' \in [Threads -> Int]
                       /\ new' \in [Cpus -> Threads \cup {Idle}]
  <2>1. /\ \A q \in Cpus : new'[q] = IF q = p THEN t ELSE new[q]
        /\ \A u \in Threads : ready'[u] = IF u = t THEN ready[t] - 1 ELSE ready[u]
        /\ ready' \in [Threads -> Int] /\ new' \in [Cpus -> Threads \cup {Idle}]
    BY <1>3 DEF PlaceTypeOK
  <2>2. /\ PlaceOK(t) /\ ready[t] = 1 /\ stack[t] # "coming_in"
        /\ \A q \in Cpus, k \in Kinds : ~Row(q, k, t)
        /\ "RUN" \in state[t] /\ "WAIT" \notin state[t]
    BY <1>3 DEF PlaceInv, PlaceOK, WaitPlace, Handled
  <2>3. \A q \in Cpus : cpu[q] # t
    BY <2>2 DEF Row, Kinds
  <2>4. ASSUME NEW u \in Threads
        PROVE  (PlaceOK(u) /\ WaitPlace(u) /\ RunOrWait(u))'
    <3>1. PlaceOK(u) /\ WaitPlace(u) /\ RunOrWait(u)'
      BY DEF PlaceInv
    <3>2. CASE u = t
      <4>1. \A q \in Cpus, k \in Kinds : Row(q, k, u)' <=> q = p /\ k = "chosen"
        BY <1>1, <2>1, <2>2, <2>3, <3>2 DEF Row, Kinds
      <4>2. PlaceOK(u)'
        <5>1. ready'[u] = 0 /\ stack'[u] # "coming_in" /\ "RUN" \in state'[u]
          BY <2>1, <2>2, <3>2
        <5> QED
          BY <4>1, <5>1, PlacedOnce DEF Kinds
      <4> QED
        BY <2>2, <3>1, <3>2, <4>2 DEF WaitPlace
    <3>3. CASE u # t
      <4>1. \A q \in Cpus, k \in Kinds : Row(q, k, u)' <=> Row(q, k, u)
        BY <1>1, <2>1, <3>3 DEF Row
      <4>2. PlaceOK(u)'
        BY <2>1, <3>1, <3>3, <4>1, PlacedSame
      <4>3. WaitPlace(u)'
        BY <1>1, <2>1, <3>1, <3>3 DEF WaitPlace, SamePlaces, Executing
      <4> QED
        BY <3>1, <4>2, <4>3
    <3> QED
      BY <3>2, <3>3
  <2> QED
    BY <2>1, <2>4 DEF PlaceInv
<1>4. CASE ready' = ready /\ new' = [new EXCEPT ![p] = Idle]
  BY <1>2, <1>4
<1>5. CASE /\ cpu[p] # Idle /\ st = {"RUN"}
           /\ ready' = ready /\ new' = [new EXCEPT ![p] = cpu[p]]
  <2>1. cpu[p] \in Threads \cup {Idle}
    BY DEF PlaceTypeOK
  <2> QED
    BY <1>2, <1>5, <2>1
<1> QED
  BY <1>3, <1>4, <1>5 DEF Select

\* A processor that goes from one phase to another, none of which keeps a
\* thread, and does not come out of thread_block with a thread that waits.
LEMMA PhasePlaces ==
  ASSUME PlaceInv, PlaceTypeOK, NEW p \in Cpus, Awakes, SamePlaces,
         UNCHANGED cpu,
         thState' \in [Threads -> {"RUNNABLE", "BLOCKED"}],
         ready' \in [Threads -> Int],
         NEW to \in {"run", "handoffDone"}, phase' = [phase EXCEPT ![p] = to],
         \/ UNCHANGED <<old, new>>
         \/ /\ old' = [old EXCEPT ![p] = Idle]
            /\ new' = [new EXCEPT ![p] = Idle],
         phase[p] \notin {"dispatch", "handoff"},
         phase[p] = "selected" => new[p] = cpu[p],
         \A t \in Threads : cpu[p] = t /\ "WAIT" \in state'[t] => FALSE
  PROVE  PlaceInv' /\ PlaceTypeOK'
<1>1. /\ \A q \in Cpus : phase'[q] = IF q = p THEN to ELSE phase[q]
      /\ \A q \in Cpus \ {p} : old'[q] = old[q] /\ new'[q] = new[q]
      /\ phase' \in [Cpus -> Phases]
      /\ old' \in [Cpus -> Threads \cup {Idle}]
      /\ new' \in [Cpus -> Threads \cup {Idle}]
  BY DEF PlaceTypeOK, Phases
<1>2. SameRows
  <2> SUFFICES ASSUME NEW q \in Cpus, NEW k \in Kinds, NEW t \in Threads
               PROVE  Row(q, k, t)' <=> Row(q, k, t)
    BY DEF SameRows
  <2>1. CASE q = p
    BY <1>1, <2>1 DEF Row
  <2>2. CASE q # p
    BY <1>1, <2>2 DEF Row
  <2> QED
    BY <2>1, <2>2
<1>3. SamePhases
  BY <1>1 DEF SamePhases, Awakes, PlaceInv, WaitPlace
<1> QED
  BY <1>1, <1>2, <1>3, AwakesKeepPlaces DEF PlaceTypeOK, Awakes

\* InvokeSame, and the wakeups after a dispatch.
LEMMA InvokeSamePlaces ==
  ASSUME Inv, PlaceTypeOK, PlaceInv, NEW p \in Cpus, InvokeSame(p)
  PROVE  PlaceInv' /\ PlaceTypeOK'
<1>1. /\ phase[p] = "selected" /\ new[p] = cpu[p] /\ EndBlock(p)
      /\ UNCHANGED <<stack, thState, ready, cpu, pc>>
      /\ state' = Interruptible(new[p])
  BY DEF InvokeSame, progVars
<1>2. \A u \in Threads : /\ "RUN" \in state'[u] <=> "RUN" \in state[u]
                         /\ "WAIT" \in state'[u] <=> "WAIT" \in state[u]
  BY <1>1 DEF Interruptible
<1>3. Awakes
  BY <1>1, <1>2, StateBitsAwake
<1>4. \A t \in Threads : cpu[p] = t /\ "WAIT" \in state'[t] => FALSE
  BY <1>1, <1>2 DEF PlaceInv, WaitPlace
<1> QED
  BY <1>1, <1>3, <1>4, UnchangedPcs, PhasePlaces
     DEF PlaceTypeOK, EndBlock

LEMMA DispatchWakePlaces ==
  ASSUME Inv, PlaceTypeOK, PlaceInv, NEW p \in Cpus,
         DispatchWake(p) \/ HandoffWake(p)
  PROVE  PlaceInv' /\ PlaceTypeOK'
<1>1. /\ phase[p] \in {"wake", "handoffWake"} /\ UNCHANGED <<cpu, pc>>
      /\ \E W : GoLocked(W, "awakened")
      /\ \E to \in {"run", "handoffDone"} : phase' = [phase EXCEPT ![p] = to]
      /\ \/ UNCHANGED <<old, new>>
         \/ /\ old' = [old EXCEPT ![p] = Idle]
            /\ new' = [new EXCEPT ![p] = Idle]
  BY DEF DispatchWake, HandoffWake, Wakeup, EndBlock, progVars
<1>2. /\ Awakes
      /\ thState' \in [Threads -> {"RUNNABLE", "BLOCKED"}]
      /\ ready' \in [Threads -> Int]
  BY <1>1, GoLockedAwakes, GoLockedTypes
<1>3. \A t \in Threads : cpu[p] = t /\ "WAIT" \in state'[t] => FALSE
  BY <1>1, <1>2 DEF PlaceInv, WaitPlace, Awakes
<1>4. SamePlaces
  BY <1>1, UnchangedPcs
<1>5. PICK to \in {"run", "handoffDone"} : phase' = [phase EXCEPT ![p] = to]
  BY <1>1
<1>6. phase[p] \notin {"dispatch", "handoff", "selected"}
  BY <1>1
<1> QED
  BY <1>1, <1>2, <1>3, <1>4, <1>5, <1>6, PhasePlaces

LEMMA HandoffDonePlaces ==
  ASSUME Inv, PlaceTypeOK, PlaceInv, NEW p \in Cpus, HandoffDone(p)
  PROVE  PlaceInv' /\ PlaceTypeOK'
<1>1. /\ phase[p] = "handoffDone" /\ EndBlock(p)
      /\ UNCHANGED <<state, stack, ready, cpu, pc>>
      /\ thState' = ThreadDone(old[p])
  BY DEF HandoffDone, progVars
<1>2. /\ thState' \in [Threads -> {"RUNNABLE", "BLOCKED"}]
      /\ \A t \in Threads : "WAIT" \notin state[t] => thState'[t] = thState[t]
  BY <1>1 DEF ThreadDone, PlaceTypeOK
<1>3. Awakes
  BY <1>1, <1>2 DEF Awakes, PlaceInv, RunOrWait
<1>4. \A t \in Threads : cpu[p] = t /\ "WAIT" \in state'[t] => FALSE
  BY <1>1 DEF PlaceInv, WaitPlace
<1>5. SamePlaces
  BY <1>1, UnchangedPcs
<1>6. /\ phase' = [phase EXCEPT ![p] = "run"]
      /\ old' = [old EXCEPT ![p] = Idle] /\ new' = [new EXCEPT ![p] = Idle]
  BY <1>1 DEF EndBlock
<1>7. ready' \in [Threads -> Int]
  BY <1>1 DEF PlaceTypeOK
<1> QED
  BY <1>1, <1>2, <1>3, <1>4, <1>5, <1>6, <1>7, PhasePlaces

\* thread_block: an aborted thread is made runnable again before the selection.
LEMMA BlockPlaces ==
  ASSUME Inv, PlaceTypeOK, PlaceInv, NEW p \in Cpus, NEW t \in Threads,
         ThreadBlock(p, t)
  PROVE  PlaceInv' /\ PlaceTypeOK'
<1>1. /\ cpu[p] = t /\ phase[p] = "run"
      /\ phase' = [phase EXCEPT ![p] = "selected"]
      /\ pc' = [pc EXCEPT ![t] = AfterBlock[pc[t]]]
      /\ UNCHANGED <<cpu, old, stack>>
  BY DEF ThreadBlock
<1>2. \/ /\ UNCHANGED <<state, thState>>
         /\ Select(p, state[t])
      \/ /\ state' = [state EXCEPT ![t] = state[t] \ {"WAIT"}]
         /\ thState' = [thState EXCEPT ![t] = "RUNNABLE"]
         /\ Select(p, state[t] \ {"WAIT"})
  BY DEF ThreadBlock
<1>3. /\ \A q \in Cpus : cpu[q] = t => q = p
      /\ "RUN" \in state[t]
  <2>1. Row(p, "on", t) /\ PlaceOK(t) /\ "on" \in Kinds
    BY <1>1 DEF Row, PlaceInv, Kinds
  <2>2. /\ \A q \in Cpus : Row(q, "on", t) => q = p
        /\ "RUN" \in state[t]
    BY <2>1, OnePlace
  <2> QED
    BY <2>2 DEF Row
<1>4. SamePlaces
  <2>1. \A u \in Threads : u # t => pc'[u] = pc[u]
    BY <1>1 DEF Inv, WaitTypeOK
  <2>2. ~Executing(t)'
    BY <1>1, <1>3 DEF Executing, PlaceTypeOK
  <2> QED
    BY <2>1, <2>2 DEF SamePlaces
<1>5. /\ thState' \in [Threads -> {"RUNNABLE", "BLOCKED"}]
      /\ Select(p, state'[t])
      /\ \A u \in Threads : /\ "RUN" \in state'[u] <=> "RUN" \in state[u]
                            /\ "WAIT" \in state'[u] => "WAIT" \in state[u]
                            /\ RunOrWait(u)'
  <2>1. CASE UNCHANGED <<state, thState>> /\ Select(p, state[t])
    BY <2>1 DEF PlaceTypeOK, PlaceInv, RunOrWait
  <2>2. CASE /\ state' = [state EXCEPT ![t] = state[t] \ {"WAIT"}]
             /\ thState' = [thState EXCEPT ![t] = "RUNNABLE"]
             /\ Select(p, state[t] \ {"WAIT"})
    <3>1. /\ thState' \in [Threads -> {"RUNNABLE", "BLOCKED"}]
          /\ state'[t] = state[t] \ {"WAIT"} /\ thState'[t] = "RUNNABLE"
          /\ \A u \in Threads \ {t} : state'[u] = state[u] /\ thState'[u] = thState[u]
      BY <2>2 DEF PlaceTypeOK, Inv, WaitTypeOK
    <3> QED
      BY <1>3, <2>2, <3>1 DEF PlaceInv, RunOrWait
  <2> QED
    BY <1>2, <2>1, <2>2
<1>6. /\ PlaceInv' /\ ready' \in [Threads -> Int]
      /\ new' \in [Cpus -> Threads \cup {Idle}]
  <2>1. PICK st : st = state'[t]
    OBVIOUS
  <2>2. /\ Select(p, st) /\ phase[p] \in {"run", "reselect"}
        /\ cpu[p] \in Threads => st = state'[cpu[p]]
        /\ phase' = [phase EXCEPT ![p] = "selected"]
        /\ UNCHANGED <<cpu, old, stack>>
    BY <1>1, <1>5, <2>1
  <2>3. \A u \in Threads : /\ "RUN" \in state'[u] <=> "RUN" \in state[u]
                           /\ "WAIT" \in state'[u] => "WAIT" \in state[u]
                           /\ RunOrWait(u)'
    BY <1>5
  <2> QED
    BY <1>4, <2>2, <2>3, SelectPlaces
<1>7. /\ phase' \in [Cpus -> Phases]
      /\ cpu' \in [Cpus -> Threads \cup {Idle}]
      /\ old' \in [Cpus -> Threads \cup {Idle}]
      /\ stack' \in [Threads -> {"own", "handoff", "coming_in"}]
  <2>1. phase' \in [Cpus -> Phases]
    BY <1>1 DEF PlaceTypeOK, Phases
  <2> QED
    BY <1>1, <2>1 DEF PlaceTypeOK
<1> QED
  BY <1>5, <1>6, <1>7 DEF PlaceTypeOK

\* The idle thread, and the retry after a failed thread_invoke.
LEMMA ReselectPlaces ==
  ASSUME Inv, PlaceTypeOK, PlaceInv, NEW p \in Cpus, IdleRun(p) \/ Reselect(p)
  PROVE  PlaceInv' /\ PlaceTypeOK'
<1>1. /\ phase[p] \in {"run", "reselect"}
      /\ UNCHANGED <<state, stack, thState, cpu, old, pc>>
  BY DEF IdleRun, Reselect, progVars
<1>2. Idle \notin Threads /\ SamePlaces
  BY <1>1, UnchangedPcs, ConstantTypes
<1>3. ASSUME NEW st, Select(p, st), phase' = [phase EXCEPT ![p] = "selected"],
             cpu[p] \in Threads => st = state[cpu[p]]
      PROVE  PlaceInv' /\ PlaceTypeOK'
  <2>1. \A u \in Threads : /\ "RUN" \in state'[u] <=> "RUN" \in state[u]
                           /\ "WAIT" \in state'[u] => "WAIT" \in state[u]
                           /\ RunOrWait(u)'
    BY <1>1 DEF PlaceInv, RunOrWait
  <2>2. /\ PlaceInv' /\ ready' \in [Threads -> Int]
        /\ new' \in [Cpus -> Threads \cup {Idle}]
    BY <1>1, <1>2, <1>3, <2>1, SelectPlaces
  <2> QED
    BY <1>1, <1>3, <2>2 DEF PlaceTypeOK, Phases
<1>4. CASE /\ phase[p] = "reselect" /\ cpu[p] = Idle
           /\ phase' = [phase EXCEPT ![p] = "run"] /\ UNCHANGED <<ready, new>>
  <2>1. Awakes
    BY <1>1, <1>4, QuietAwakes
  <2>2. /\ thState' \in [Threads -> {"RUNNABLE", "BLOCKED"}]
        /\ ready' \in [Threads -> Int]
    BY <1>1, <1>4 DEF PlaceTypeOK
  <2> QED
    BY <1>1, <1>2, <1>4, <2>1, <2>2, PhasePlaces
<1> QED
  BY <1>2, <1>3, <1>4 DEF IdleRun, Reselect

\* A selected thread that finds no stack goes to the swapin thread.
LEMMA InvokeMissPlaces ==
  ASSUME Inv, PlaceTypeOK, PlaceInv, NEW p \in Cpus, InvokeMiss(p)
  PROVE  PlaceInv' /\ PlaceTypeOK'
<1> DEFINE n == new[p]
<1>1. /\ phase[p] = "selected" /\ n # cpu[p] /\ n \in Threads
      /\ stack' = [stack EXCEPT ![n] = "coming_in"]
      /\ phase' = [phase EXCEPT ![p] = "reselect"]
      /\ new' = [new EXCEPT ![p] = Idle]
      /\ UNCHANGED <<thState, ready, cpu, old, pc>>
      /\ state' = Interruptible(n)
  BY DEF InvokeMiss, PlaceTypeOK, progVars
<1>0. \A u \in Threads : /\ "RUN" \in state'[u] <=> "RUN" \in state[u]
                         /\ "WAIT" \in state'[u] <=> "WAIT" \in state[u]
  BY <1>1 DEF Interruptible
<1> HIDE DEF n
<1>2. /\ \A q \in Cpus : /\ phase'[q] = IF q = p THEN "reselect" ELSE phase[q]
                         /\ new'[q] = IF q = p THEN Idle ELSE new[q]
      /\ \A u \in Threads : stack'[u] = IF u = n THEN "coming_in" ELSE stack[u]
  BY <1>1 DEF PlaceTypeOK
<1> USE DEF n
<1>3. PlaceTypeOK'
  BY <1>1 DEF PlaceTypeOK, Phases
<1> SUFFICES ASSUME NEW u \in Threads
             PROVE  (PlaceOK(u) /\ WaitPlace(u) /\ RunOrWait(u))'
  BY <1>3 DEF PlaceInv
<1>4. PlaceOK(u) /\ WaitPlace(u) /\ RunOrWait(u)
  BY DEF PlaceInv
<1>5. RunOrWait(u)'
  BY <1>1, <1>0, <1>2, <1>4 DEF RunOrWait
<1>6. CASE u = n
  <2>1. Row(p, "chosen", u) /\ "chosen" \in Kinds
    BY <1>1, <1>6 DEF Row, Kinds
  <2>2. /\ ready[u] = 0 /\ "RUN" \in state[u]
        /\ \A q \in Cpus, l \in Kinds : Row(q, l, u) <=> q = p /\ l = "chosen"
    BY <1>4, <2>1, OnePlace
  <2>3. \A q \in Cpus, l \in Kinds : ~Row(q, l, u)'
    <3> SUFFICES ASSUME NEW q \in Cpus, NEW l \in Kinds PROVE ~Row(q, l, u)'
      OBVIOUS
    <3>1. ~(q = p /\ l = "chosen") => ~Row(q, l, u)
      BY <2>2
    <3>2. CASE q = p
      BY <1>1, <1>0, <1>2, <1>6, <3>1, <3>2 DEF Row
    <3>3. CASE q # p
      BY <1>1, <1>0, <1>2, <3>1, <3>3 DEF Row
    <3> QED
      BY <3>2, <3>3
  <2>4. ready'[u] = 0 /\ stack'[u] = "coming_in" /\ "RUN" \in state'[u]
    BY <1>1, <1>0, <1>2, <1>6, <2>2
  <2>5. PlaceOK(u)'
    BY <2>3, <2>4, PlacedNowhere
  <2>6. "WAIT" \notin state'[u]
    BY <1>1, <1>0, <1>2, <1>4, <1>6 DEF WaitPlace
  <2> QED
    BY <1>5, <2>5, <2>6 DEF WaitPlace
<1>7. CASE u # n
  <2>1. \A q \in Cpus, l \in Kinds : Row(q, l, u)' <=> Row(q, l, u)
    <3> SUFFICES ASSUME NEW q \in Cpus, NEW l \in Kinds
                 PROVE  Row(q, l, u)' <=> Row(q, l, u)
      OBVIOUS
    <3>2. CASE q = p
      BY <1>1, <1>0, <1>2, <1>7, <3>2 DEF Row
    <3>3. CASE q # p
      BY <1>1, <1>0, <1>2, <3>3 DEF Row
    <3> QED
      BY <3>2, <3>3
  <2>2. PlaceOK(u)'
    BY <1>1, <1>0, <1>2, <1>4, <1>7, <2>1, PlacedSame
  <2>3. WaitPlace(u)'
    BY <1>1, <1>0, <1>2, <1>4, <1>7 DEF WaitPlace
  <2> QED
    BY <1>5, <2>2, <2>3
<1> QED
  BY <1>6, <1>7

\* The switch to the new thread, which leaves the old one to be dispatched.
LEMMA InvokeSwitchPlaces ==
  ASSUME Inv, PlaceTypeOK, PlaceInv, NEW p \in Cpus,
         InvokeSwitch(p) \/ InvokeHandoff(p)
  PROVE  PlaceInv' /\ PlaceTypeOK'
<1>1. PICK n, o : n = new[p] /\ o = cpu[p]
  OBVIOUS
<1>2. /\ phase[p] = "selected" /\ n # o
      /\ cpu' = [cpu EXCEPT ![p] = n] /\ old' = [old EXCEPT ![p] = o]
      /\ \E ph \in {"dispatch", "handoff"} : phase' = [phase EXCEPT ![p] = ph]
      /\ UNCHANGED <<ready, new, pc>>
      /\ state' = Interruptible(n)
      /\ \/ stack' = [t \in Threads |-> IF t = n THEN "own" ELSE stack[t]]
         \/ stack' = [stack EXCEPT ![n] = "own"]
      /\ thState' = thState \/ thState' = ThreadDone(o)
  BY <1>1 DEF InvokeSwitch, InvokeHandoff, progVars
<1>3. n \in Threads \cup {Idle} /\ o \in Threads \cup {Idle}
  BY <1>1 DEF PlaceTypeOK
<1>4. \A u \in Threads : /\ "RUN" \in state'[u] <=> "RUN" \in state[u]
                         /\ "WAIT" \in state'[u] <=> "WAIT" \in state[u]
  BY <1>2 DEF Interruptible
<1>5. /\ \A q \in Cpus : /\ cpu'[q] = IF q = p THEN n ELSE cpu[q]
                         /\ old'[q] = IF q = p THEN o ELSE old[q]
                         /\ phase'[q] = phase[q] \/ q = p
      /\ phase'[p] \in {"dispatch", "handoff"}
      /\ cpu' \in [Cpus -> Threads \cup {Idle}]
      /\ old' \in [Cpus -> Threads \cup {Idle}]
      /\ phase' \in [Cpus -> Phases]
  BY <1>2, <1>3 DEF PlaceTypeOK, Phases
<1>6. /\ \A u \in Threads : stack'[u] = IF u = n THEN "own" ELSE stack[u]
      /\ stack' \in [Threads -> {"own", "handoff", "coming_in"}]
  BY <1>2 DEF PlaceTypeOK
<1>7. /\ thState' \in [Threads -> {"RUNNABLE", "BLOCKED"}]
      /\ \A u \in Threads : "WAIT" \notin state[u] => thState'[u] = thState[u]
  BY <1>2 DEF ThreadDone, PlaceTypeOK
<1>8. PlaceTypeOK'
  BY <1>2, <1>5, <1>6, <1>7 DEF PlaceTypeOK
<1> SUFFICES ASSUME NEW u \in Threads
             PROVE  (PlaceOK(u) /\ WaitPlace(u) /\ RunOrWait(u))'
  BY <1>8 DEF PlaceInv
<1>9. PlaceOK(u) /\ WaitPlace(u) /\ RunOrWait(u)
  BY DEF PlaceInv
<1>10. RunOrWait(u)'
  BY <1>4, <1>7, <1>9 DEF RunOrWait
<1>11. ASSUME NEW q \in Cpus, q # p, NEW k \in Kinds
       PROVE  Row(q, k, u)' <=> Row(q, k, u)
  BY <1>2, <1>5, <1>11 DEF Row
<1>12. ASSUME NEW k \in Kinds
       PROVE  Row(p, k, u)' <=> (k = "on" /\ u = n) \/ (k = "leaving" /\ u = o)
  BY <1>5 DEF Row, Kinds
<1>13. CASE u = n
  <2>1. Row(p, "chosen", u) /\ "chosen" \in Kinds /\ "on" \in Kinds
    BY <1>1, <1>2, <1>13 DEF Row, Kinds
  <2>2. /\ ready[u] = 0 /\ "RUN" \in state[u]
        /\ \A q \in Cpus, l \in Kinds : Row(q, l, u) <=> q = p /\ l = "chosen"
    BY <1>9, <2>1, OnePlace
  <2>3. \A q \in Cpus, l \in Kinds : Row(q, l, u)' <=> q = p /\ l = "on"
    <3> HIDE DEF Row
    <3> QED
      BY <1>2, <1>11, <1>12, <1>13, <2>2
  <2>4. ready'[u] = 0 /\ stack'[u] # "coming_in" /\ "RUN" \in state'[u]
    BY <1>2, <1>4, <1>6, <1>13, <2>2
  <2>5. PlaceOK(u)'
    BY <2>1, <2>3, <2>4, PlacedOnce
  <2>6. "WAIT" \notin state'[u]
    BY <1>1, <1>2, <1>4, <1>9, <1>13 DEF WaitPlace
  <2> QED
    BY <1>10, <2>5, <2>6 DEF WaitPlace
<1>14. CASE u = o
  <2>1. Row(p, "on", u) /\ "on" \in Kinds /\ "leaving" \in Kinds
    BY <1>1, <1>14 DEF Row, Kinds
  <2>2. /\ ready[u] = 0 /\ stack[u] # "coming_in" /\ "RUN" \in state[u]
        /\ \A q \in Cpus, l \in Kinds : Row(q, l, u) <=> q = p /\ l = "on"
    BY <1>9, <2>1, OnePlace
  <2>3. \A q \in Cpus, l \in Kinds : Row(q, l, u)' <=> q = p /\ l = "leaving"
    <3> HIDE DEF Row
    <3> QED
      BY <1>2, <1>11, <1>12, <1>14, <2>2
  <2>4. ready'[u] = 0 /\ stack'[u] # "coming_in" /\ "RUN" \in state'[u]
    BY <1>2, <1>4, <1>6, <1>14, <2>2
  <2>5. PlaceOK(u)'
    BY <2>1, <2>3, <2>4, PlacedOnce
  <2>6. \A q \in Cpus : cpu'[q] # u
    BY <1>2, <1>5, <1>14, <2>1, <2>2 DEF Row
  <2>7. WaitPlace(u)'
    BY <1>2, <1>4, <1>5, <1>9, <2>4, <2>6 DEF WaitPlace
  <2> QED
    BY <1>10, <2>5, <2>7
<1>15. CASE u # n /\ u # o
  <2>1. \A l \in Kinds : ~Row(p, l, u)
    <3>1. ~Row(p, "on", u) /\ ~Row(p, "chosen", u) /\ ~Row(p, "leaving", u)
      BY <1>1, <1>2, <1>15 DEF Row
    <3> QED
      BY <3>1 DEF Kinds
  <2>2. \A q \in Cpus, l \in Kinds : Row(q, l, u)' <=> Row(q, l, u)
    <3> HIDE DEF Row
    <3> QED
      BY <1>11, <1>12, <1>15, <2>1
  <2>3. PlaceOK(u)'
    BY <1>2, <1>4, <1>6, <1>9, <1>15, <2>2, PlacedSame
  <2>4. WaitPlace(u)'
    BY <1>2, <1>4, <1>5, <1>6, <1>9, <1>15 DEF WaitPlace
  <2> QED
    BY <1>10, <2>3, <2>4
<1> QED
  BY <1>13, <1>14, <1>15

\* A dispatch: the old thread goes on the run queue, or loses TH_RUN.
LEMMA DispatchedPlaces ==
  ASSUME PlaceTypeOK, PlaceInv, NEW p \in Cpus,
         phase[p] \in {"dispatch", "handoff"}, UNCHANGED <<thState, cpu, pc>>,
         NEW to \in {"run", "wake", "handoffWake", "handoffDone"},
         phase' = [phase EXCEPT ![p] = to],
         \/ UNCHANGED <<old, new>>
         \/ old' = [old EXCEPT ![p] = Idle] /\ new' = [new EXCEPT ![p] = Idle],
         NEW o, o = old[p],
         ready' \in [Threads -> Int],
         stack' \in [Threads -> {"own", "handoff", "coming_in"}],
         \A u \in Threads \ {o} : /\ state'[u] = state[u]
                                  /\ ready'[u] = ready[u]
                                  /\ stack'[u] = stack[u],
         o \in Threads =>
           /\ stack'[o] = "coming_in" => stack[o] = "coming_in"
           /\ \/ /\ "WAIT" \notin state[o] /\ state'[o] = state[o]
                 /\ ready'[o] = IF thState[o] = "RUNNABLE" THEN ready[o] + 1
                                                           ELSE ready[o]
              \/ /\ "WAIT" \in state[o] /\ state'[o] = state[o] \ {"RUN"}
                 /\ ready'[o] = ready[o]
  PROVE  PlaceInv' /\ PlaceTypeOK'
<1>1. /\ \A q \in Cpus : phase'[q] = IF q = p THEN to ELSE phase[q]
      /\ \A q \in Cpus \ {p} : old'[q] = old[q] /\ new'[q] = new[q]
      /\ phase' \in [Cpus -> Phases]
      /\ old' \in [Cpus -> Threads \cup {Idle}]
      /\ new' \in [Cpus -> Threads \cup {Idle}]
  BY DEF PlaceTypeOK, Phases
<1>2. PlaceTypeOK'
  BY <1>1 DEF PlaceTypeOK
<1> SUFFICES ASSUME NEW u \in Threads
             PROVE  (PlaceOK(u) /\ WaitPlace(u) /\ RunOrWait(u))'
  BY <1>2 DEF PlaceInv
<1>3. PlaceOK(u) /\ WaitPlace(u) /\ RunOrWait(u)
  BY DEF PlaceInv
<1>4. ASSUME NEW q \in Cpus, NEW k \in Kinds
      PROVE  Row(q, k, u)' <=> Row(q, k, u) /\ ~(q = p /\ k = "leaving")
  <2>1. CASE q = p
    BY <1>1, <2>1 DEF Row, Kinds
  <2>2. CASE q # p
    BY <1>1, <2>2 DEF Row
  <2> QED
    BY <2>1, <2>2
<1>5. CASE u = o
  <2>1. Row(p, "leaving", u) /\ "leaving" \in Kinds /\ "on" \in Kinds
    BY <1>5 DEF Row, Kinds
  <2>2. /\ ready[u] = 0 /\ stack[u] # "coming_in" /\ "RUN" \in state[u]
        /\ \A q \in Cpus, l \in Kinds : Row(q, l, u) <=> q = p /\ l = "leaving"
    BY <1>3, <2>1, OnePlace
  <2>3. \A q \in Cpus, l \in Kinds : ~Row(q, l, u)'
    <3> HIDE DEF Row
    <3> QED
      BY <1>4, <2>2
  <2>4. /\ stack'[u] # "coming_in"
        /\ \/ /\ "WAIT" \notin state'[u] /\ "RUN" \in state'[u]
              /\ ready'[u] = 1
           \/ /\ "WAIT" \in state'[u] /\ "RUN" \notin state'[u]
              /\ ready'[u] = 0
    BY <1>3, <1>5, <2>2 DEF RunOrWait
  <2>5. PlaceOK(u)'
    BY <2>3, <2>4, PlacedNowhere
  <2>6. \A q \in Cpus : cpu'[q] # u
    BY <2>1, <2>2 DEF Row
  <2>7. WaitPlace(u)'
    <3>1. "WAIT" \in state'[u] => "WAIT" \in state[u]
      BY <1>5
    <3> QED
      BY <1>1, <1>3, <2>4, <2>6, <3>1 DEF WaitPlace
  <2>8. RunOrWait(u)'
    BY <1>3, <1>5, <2>4 DEF RunOrWait
  <2> QED
    BY <2>5, <2>7, <2>8
<1>6. CASE u # o
  <2>1. \A q \in Cpus, l \in Kinds : Row(q, l, u)' <=> Row(q, l, u)
    <3>1. ~Row(p, "leaving", u)
      BY <1>6 DEF Row
    <3> HIDE DEF Row
    <3> QED
      BY <1>4, <3>1
  <2>2. /\ state'[u] = state[u] /\ ready'[u] = ready[u] /\ stack'[u] = stack[u]
        /\ thState'[u] = thState[u]
    BY <1>6
  <2>3. PlaceOK(u)'
    BY <1>3, <2>1, <2>2, PlacedSame
  <2>4. WaitPlace(u)'
    BY <1>1, <1>3, <2>2 DEF WaitPlace
  <2>5. RunOrWait(u)'
    BY <1>3, <2>2 DEF RunOrWait
  <2> QED
    BY <2>3, <2>4, <2>5
<1> QED
  BY <1>5, <1>6

\* What both dispatches do to the old thread.
LEMMA DispatchedThread ==
  ASSUME Inv, PlaceTypeOK, NEW p \in Cpus, NEW wakePhase, NEW endPhase,
         NEW o, Dispatched(p, o, wakePhase, endPhase)
  PROVE  /\ \E to \in {wakePhase, endPhase} : phase' = [phase EXCEPT ![p] = to]
         /\ ready' \in [Threads -> Int]
         /\ \A u \in Threads \ {o} : state'[u] = state[u] /\ ready'[u] = ready[u]
         /\ o \in Threads =>
              \/ /\ "WAIT" \notin state[o] /\ state'[o] = state[o]
                 /\ ready'[o] = IF thState[o] = "RUNNABLE" THEN ready[o] + 1
                                                           ELSE ready[o]
              \/ /\ "WAIT" \in state[o] /\ state'[o] = state[o] \ {"RUN"}
                 /\ ready'[o] = ready[o]
<1>1. CASE "WAIT" \notin state[o]
  BY <1>1 DEF Dispatched, SetRun, PlaceTypeOK
<1>2. CASE "WAIT" \in state[o]
  BY <1>2 DEF Dispatched, PlaceTypeOK, Inv, WaitTypeOK
<1> QED
  BY <1>1, <1>2

LEMMA DispatchPlaces ==
  ASSUME Inv, PlaceTypeOK, PlaceInv, NEW p \in Cpus,
         ThreadDispatch(p) \/ HandoffDispatch(p)
  PROVE  PlaceInv' /\ PlaceTypeOK'
<1>1. PICK o : o = old[p]
  OBVIOUS
<1>2. /\ phase[p] \in {"dispatch", "handoff"} /\ UNCHANGED <<thState, cpu, pc>>
      /\ \/ UNCHANGED <<old, new>>
         \/ old' = [old EXCEPT ![p] = Idle] /\ new' = [new EXCEPT ![p] = Idle]
  BY DEF ThreadDispatch, HandoffDispatch, EndBlock, stateVars, progVars
<1>3. CASE /\ o = Idle /\ phase' = [phase EXCEPT ![p] = "run"]
           /\ UNCHANGED <<state, stack, ready>>
  <2>1. o \notin Threads
    BY <1>3, ConstantTypes
  <2>2. /\ ready' \in [Threads -> Int]
        /\ stack' \in [Threads -> {"own", "handoff", "coming_in"}]
    BY <1>3 DEF PlaceTypeOK
  <2> QED
    BY <1>1, <1>2, <1>3, <2>1, <2>2, DispatchedPlaces
<1>4. ASSUME NEW wakePhase, NEW endPhase,
             {wakePhase, endPhase} \subseteq
               {"run", "wake", "handoffWake", "handoffDone"},
             Dispatched(p, o, wakePhase, endPhase),
             \E s \in {"handoff", stack[o]} : stack' = [stack EXCEPT ![o] = s]
      PROVE  PlaceInv' /\ PlaceTypeOK'
  <2>1. PICK to \in {"run", "wake", "handoffWake", "handoffDone"} :
          phase' = [phase EXCEPT ![p] = to]
    BY <1>4, DispatchedThread
  <2>2. /\ stack' \in [Threads -> {"own", "handoff", "coming_in"}]
        /\ \A u \in Threads \ {o} : stack'[u] = stack[u]
        /\ o \in Threads => (stack'[o] = "coming_in" => stack[o] = "coming_in")
    BY <1>4 DEF PlaceTypeOK
  <2>3. /\ ready' \in [Threads -> Int]
        /\ \A u \in Threads \ {o} : state'[u] = state[u] /\ ready'[u] = ready[u]
        /\ o \in Threads =>
             \/ /\ "WAIT" \notin state[o] /\ state'[o] = state[o]
                /\ ready'[o] = IF thState[o] = "RUNNABLE" THEN ready[o] + 1
                                                          ELSE ready[o]
             \/ /\ "WAIT" \in state[o] /\ state'[o] = state[o] \ {"RUN"}
                /\ ready'[o] = ready[o]
    BY <1>4, DispatchedThread
  <2>4. \A u \in Threads \ {o} : /\ state'[u] = state[u]
                                 /\ ready'[u] = ready[u]
                                 /\ stack'[u] = stack[u]
    BY <2>2, <2>3
  <2>5. o \in Threads =>
          /\ stack'[o] = "coming_in" => stack[o] = "coming_in"
          /\ \/ /\ "WAIT" \notin state[o] /\ state'[o] = state[o]
                /\ ready'[o] = IF thState[o] = "RUNNABLE" THEN ready[o] + 1
                                                          ELSE ready[o]
             \/ /\ "WAIT" \in state[o] /\ state'[o] = state[o] \ {"RUN"}
                /\ ready'[o] = ready[o]
    BY <2>2, <2>3
  <2>6. /\ ready' \in [Threads -> Int]
        /\ stack' \in [Threads -> {"own", "handoff", "coming_in"}]
    BY <2>2, <2>3
  <2> QED
    BY <1>1, <1>2, <2>1, <2>4, <2>5, <2>6, DispatchedPlaces
<1>5. \/ /\ o = Idle /\ phase' = [phase EXCEPT ![p] = "run"]
         /\ UNCHANGED <<state, stack, ready>>
      \/ /\ \/ Dispatched(p, o, "wake", "run")
            \/ Dispatched(p, o, "handoffWake", "handoffDone")
         /\ \E s \in {"handoff", stack[o]} : stack' = [stack EXCEPT ![o] = s]
  BY <1>1 DEF ThreadDispatch, HandoffDispatch, EndBlock, stateVars
<1> QED
  BY <1>3, <1>4, <1>5

\* A thread that has got its stack goes on the run queue.
LEMMA SwapinPlaces ==
  ASSUME Inv, PlaceTypeOK, PlaceInv, NEW t \in Threads, ThreadDoSwapin(t)
  PROVE  PlaceInv' /\ PlaceTypeOK'
<1>1. /\ UNCHANGED <<state, thState, pc, cpu, phase, old, new>>
      /\ stack[t] = "coming_in" /\ stack' = [stack EXCEPT ![t] = "own"]
      /\ ready' = SetRun(IF "RUN" \in state[t] THEN {t} ELSE {})
  BY DEF ThreadDoSwapin, progVars, cpuVars
<1>2. PlaceOK(t) /\ WaitPlace(t)
  BY DEF PlaceInv
<1>3. "RUN" \in state[t] /\ "WAIT" \notin state[t] /\ ready[t] = 0
  BY <1>1, <1>2 DEF PlaceOK, WaitPlace
<1>4. /\ \A u \in Threads : /\ stack'[u] = IF u = t THEN "own" ELSE stack[u]
                            /\ ready'[u] = IF u = t THEN 1 ELSE ready[u]
      /\ PlaceTypeOK'
  BY <1>1, <1>3 DEF SetRun, PlaceTypeOK
<1>5. SameRows
  BY <1>1, UnchangedRows
<1> SUFFICES ASSUME NEW u \in Threads
             PROVE  (PlaceOK(u) /\ WaitPlace(u) /\ RunOrWait(u))'
  BY <1>4 DEF PlaceInv
<1>6. PlaceOK(u) /\ WaitPlace(u) /\ RunOrWait(u)
  BY DEF PlaceInv
<1>7. RunOrWait(u)'
  BY <1>1, <1>6 DEF RunOrWait
<1>8. (Handled(u)' <=> Handled(u)) /\ (HandledOnce(u)' <=> HandledOnce(u))
  BY <1>5, SameHandled
<1>9. CASE u = t
  <2>1. PlaceOK(u)'
    BY <1>1, <1>3, <1>4, <1>6, <1>8, <1>9 DEF PlaceOK
  <2> QED
    BY <1>1, <1>3, <1>7, <1>9, <2>1 DEF WaitPlace
<1>10. CASE u # t
  <2>1. PlaceOK(u)'
    BY <1>1, <1>4, <1>6, <1>8, <1>10 DEF PlaceOK
  <2> QED
    BY <1>1, <1>4, <1>6, <1>7, <1>10, <2>1 DEF WaitPlace
<1> QED
  BY <1>9, <1>10

------------------------------------------------------------------------------
LEMMA PlaceInit == Init => PlaceTypeOK /\ PlaceInv
<1> SUFFICES ASSUME Init PROVE PlaceTypeOK /\ PlaceInv
  OBVIOUS
<1>1. PlaceTypeOK
  BY DEF Init, PlaceTypeOK, Phases
<1>2. Idle \notin Threads
  BY ConstantTypes
<1>3. ASSUME NEW t \in Threads PROVE PlaceOK(t) /\ WaitPlace(t) /\ RunOrWait(t)
  <2>1. \A p \in Cpus, k \in Kinds : ~Row(p, k, t)
    BY <1>2 DEF Init, Row
  <2>2. PlaceOK(t)
    <3> HIDE DEF Row
    <3> QED
      BY <2>1 DEF Init, PlaceOK, Handled, HandledOnce
  <2> QED
    BY <2>2 DEF Init, WaitPlace, RunOrWait
<1> QED
  BY <1>1, <1>3 DEF PlaceInv

LEMMA PlaceNext ==
  Inv /\ PlaceTypeOK /\ PlaceInv /\ [Next]_vars => PlaceTypeOK' /\ PlaceInv'
<1> SUFFICES ASSUME Inv, PlaceTypeOK, PlaceInv, [Next]_vars
             PROVE  PlaceInv' /\ PlaceTypeOK'
  OBVIOUS
<1>1. CASE UNCHANGED vars
  <2>1. /\ UNCHANGED cpuVars /\ pc' = pc
        /\ UNCHANGED <<state, stack, thState, ready>>
    BY <1>1 DEF vars, stateVars, progVars
  <2> QED
    BY <2>1, QuietAwakes, UnchangedPcs, CpusKeepPlaces DEF PlaceTypeOK
<1>2. ASSUME NEW p \in Cpus, CpuStep(p) \/ IdleRun(p)
      PROVE  PlaceInv' /\ PlaceTypeOK'
  BY <1>2, ReselectPlaces, InvokeSamePlaces, InvokeMissPlaces,
     InvokeSwitchPlaces, DispatchPlaces, DispatchWakePlaces, HandoffDonePlaces
     DEF CpuStep
<1>3. ASSUME NEW t \in Threads, ThreadStep(t)
      PROVE  PlaceInv' /\ PlaceTypeOK'
  BY <1>3, TimerPlaces, StopPlaces, AssertPlaces, UnstopWakePlaces
     DEF ThreadStep
<1>4. ASSUME NEW t \in Threads,
             \/ AssertWait(t) \/ ThreadStopWait(t) \/ SpecialHandler(t)
             \/ ThreadDoSwapin(t) \/ DelayedCallInterrupt(t)
      PROVE  PlaceInv' /\ PlaceTypeOK'
  BY <1>4, AssertPlaces, TimerPlaces, AbortPlaces, SwapinPlaces, QuietPlaces
<1>5. ASSUME NEW c \in Callers, CallerStep(c)
      PROVE  PlaceInv' /\ PlaceTypeOK'
  BY <1>5, CallerPlaces, QuietPlaces DEF CallerStep
<1>6. ASSUME NEW c \in Callers, NEW t \in Threads,
             CallThreadDequeue(c, t) \/ ClearWait(c, t) \/ ActAbort(c, t)
      PROVE  PlaceInv' /\ PlaceTypeOK'
  BY <1>6, CallerPlaces, QuietPlaces, AbortPlaces
<1> QED
  BY <1>1, <1>2, <1>3, <1>4, <1>5, <1>6, BlockPlaces, WakeupPlaces DEF Next

\* Where the threads are kept, in every state.
THEOREM PlaceInvariance == Spec => [](Inv /\ PlaceTypeOK /\ PlaceInv)
<1>1. Init => Inv /\ PlaceTypeOK /\ PlaceInv
  BY InvInit, PlaceInit
<1>2. Inv /\ PlaceTypeOK /\ PlaceInv /\ [Next]_vars
        => (Inv /\ PlaceTypeOK /\ PlaceInv)'
  BY InvNext, PlaceNext
<1> QED
  BY <1>1, <1>2, PTL DEF Spec

\* Only a thread that its policy holds runnable is on the run queue or
\* selected to run (the assertions of thread_setrun, thread_block_reason and
\* thread_invoke), though the wakeup may come at any point of its blocking.
THEOREM SelectionCorrect == Spec => []SelectedIsRunnable
<1>1. PlaceTypeOK /\ PlaceInv => SelectedIsRunnable
  <2> SUFFICES ASSUME PlaceTypeOK, PlaceInv PROVE SelectedIsRunnable
    OBVIOUS
  <2>1. ASSUME NEW p \in Cpus, phase[p] = "selected", new[p] # Idle
        PROVE  thState[new[p]] = "RUNNABLE"
    <3>1. new[p] \in Threads
      BY <2>1 DEF PlaceTypeOK
    <3> QED
      BY <2>1, <3>1 DEF PlaceInv, WaitPlace, RunOrWait
  <2>2. ASSUME NEW t \in Threads, ready[t] > 0
        PROVE  thState[t] = "RUNNABLE"
    BY <2>2 DEF PlaceInv, WaitPlace, RunOrWait
  <2> QED
    BY <2>1, <2>2 DEF SelectedIsRunnable
<1> QED
  BY <1>1, PlaceInvariance, PTL

\* The processors that handle a thread in one way.
Holders(k, t) == {p \in Cpus : Row(p, k, t)}

LEMMA PlacesOfRows ==
  ASSUME NEW t \in Threads
  PROVE  Places(t) = ready[t] + Cardinality(Holders("on", t))
                     + Cardinality(Holders("chosen", t))
                     + Cardinality(Holders("leaving", t))
                     + IF stack[t] = "coming_in" THEN 1 ELSE 0
<1>1. /\ {p \in Cpus : cpu[p] = t} = Holders("on", t)
      /\ {p \in Cpus : phase[p] = "selected" /\ new[p] = t
                                             /\ new[p] # cpu[p]}
           = Holders("chosen", t)
      /\ {p \in Cpus : phase[p] \in {"dispatch", "handoff"} /\ old[p] = t}
           = Holders("leaving", t)
  BY DEF Holders, Row
<1> QED
  BY <1>1 DEF Places

LEMMA CountHolders ==
  ASSUME NEW t \in Threads, HandledOnce(t)
  PROVE  /\ Cardinality(Holders("on", t)) + Cardinality(Holders("chosen", t))
            + Cardinality(Holders("leaving", t)) = IF Handled(t) THEN 1 ELSE 0
         /\ \A k \in Kinds : Cardinality(Holders(k, t)) \in {0, 1}
<1> HIDE DEF Row
<1>1. Cardinality({}) = 0 /\ \A p \in Cpus : Cardinality({p}) = 1
  BY FS_EmptySet, FS_Singleton
<1>2. CASE ~Handled(t)
  <2>1. \A k \in Kinds : Holders(k, t) = {}
    BY <1>2 DEF Handled, Holders
  <2> QED
    BY <1>1, <1>2, <2>1 DEF Kinds
<1>3. CASE Handled(t)
  <2>1. PICK p \in Cpus, k \in Kinds : Row(p, k, t)
    BY <1>3 DEF Handled
  <2>2. Holders(k, t) = {p} /\ \A l \in Kinds \ {k} : Holders(l, t) = {}
    BY <2>1 DEF HandledOnce, Holders
  <2>3. /\ Cardinality(Holders(k, t)) = 1
        /\ \A l \in Kinds \ {k} : Cardinality(Holders(l, t)) = 0
    BY <1>1, <2>2
  <2> HIDE DEF Holders
  <2> QED
    BY <1>3, <2>3 DEF Kinds
<1> QED
  BY <1>2, <1>3

\* A thread with TH_RUN is on one run queue, or on one processor, or in the
\* hands of one processor that switches to or from it, or with the swapin
\* thread, and in one of these only; a thread without TH_RUN is in none and
\* waits.  So no interleaving of wakeups with the two stages of blocking
\* enqueues a thread twice, runs it on two processors or loses it.
THEOREM PlacesCorrect == Spec => []ThreadInOnePlace
<1>1. PlaceTypeOK /\ PlaceInv => ThreadInOnePlace
  <2> SUFFICES ASSUME PlaceTypeOK, PlaceInv, NEW t \in Threads
               PROVE  /\ Places(t) = IF "RUN" \in state[t] THEN 1 ELSE 0
                      /\ "RUN" \in state[t] \/ "WAIT" \in state[t]
    BY DEF ThreadInOnePlace
  <2>1. PlaceOK(t) /\ RunOrWait(t)
    BY DEF PlaceInv
  <2>2. PICK a, b, c : /\ a = Cardinality(Holders("on", t))
                       /\ b = Cardinality(Holders("chosen", t))
                       /\ c = Cardinality(Holders("leaving", t))
    OBVIOUS
  <2>3. /\ a + b + c = IF Handled(t) THEN 1 ELSE 0
        /\ a \in {0, 1} /\ b \in {0, 1} /\ c \in {0, 1}
    BY <2>1, <2>2, CountHolders DEF PlaceOK, Kinds
  <2> QED
    BY <2>1, <2>2, <2>3, PlacesOfRows DEF PlaceOK, RunOrWait
<1> QED
  BY <1>1, PlaceInvariance, PTL

------------------------------------------------------------------------------
(***************************************************************************)
(* thread_abort                                                            *)
(***************************************************************************)
\* An aborted, interruptible wait that has not been left and has got beyond
\* the check of thread_block.
AbortedWait(t) == /\ "WAIT" \in state[t] /\ "ABORT" \in state[t]
                  /\ "UNINT" \notin state[t] /\ ~Executing(t)

\* A caller that is to end the wait of t.
Chaser(c, t) ==
  /\ caller[c] # NoCaller /\ caller[c].thread = t
  /\ \/ caller[c].pc \in {"abort", "clear"}
     \/ caller[c].pc = "remove" /\ caller[c].queue = waitQueue[t]

AbortInv == \A t \in Threads : AbortedWait(t) => \E c \in Callers : Chaser(c, t)

\* Steps that start no wait and abort none.
BitsKept ==
  \A t \in Threads : "WAIT" \in state'[t] =>
    /\ "WAIT" \in state[t] /\ waitQueue'[t] = waitQueue[t]
    /\ "ABORT" \in state'[t] => "ABORT" \in state[t]
    /\ "UNINT" \in state[t] => "UNINT" \in state'[t]

\* Steps that take no waiting thread into thread_block.
ExecKept ==
  \A t \in Threads : "WAIT" \in state'[t] /\ Executing(t) => Executing(t)'

LEMMA AbortFrame ==
  ASSUME AbortInv, BitsKept, ExecKept, caller' = caller
  PROVE  AbortInv'
<1> SUFFICES ASSUME NEW t \in Threads, AbortedWait(t)'
             PROVE  \E c \in Callers : Chaser(c, t)'
  BY DEF AbortInv
<1>1. AbortedWait(t) /\ waitQueue'[t] = waitQueue[t]
  BY DEF AbortedWait, BitsKept, ExecKept
<1> QED
  BY <1>1 DEF AbortInv, Chaser

LEMMA SameCpus == UNCHANGED <<cpu, phase>> => ExecKept
BY DEF ExecKept, Executing

LEMMA OneCpu ==
  ASSUME NEW p \in Cpus, phase[p] # "run" \/ cpu[p] = Idle,
         \A q \in Cpus \ {p} : cpu'[q] = cpu[q] /\ phase'[q] = phase[q]
  PROVE  ExecKept
BY ConstantTypes DEF ExecKept, Executing

LEMMA WakeBits ==
  ASSUME NEW b, NEW W, NEW result, Dequeue(b, W), GoLocked(W, result)
  PROVE  BitsKept
<1> SUFFICES ASSUME NEW t \in Threads, "WAIT" \in state'[t]
             PROVE  state'[t] = state[t] /\ waitQueue'[t] = waitQueue[t]
  BY DEF BitsKept
<1>1. t \notin W /\ state'[t] = state[t]
  BY DEF GoLocked
<1> QED
  BY <1>1 DEF Dequeue

LEMMA ThreadAborts ==
  ASSUME Inv, AbortInv, NEW t \in Threads,
         ThreadStep(t) \/ SpecialHandler(t) \/ ThreadDoSwapin(t)
         \/ DelayedCallInterrupt(t) \/ ThreadStopWait(t) \/ AssertWait(t)
  PROVE  AbortInv'
<1>1. UNCHANGED <<cpu, phase, caller>>
  BY DEF ThreadStep, ThreadSetTimer, ThreadCancelTimer, ThreadStop, ThreadWait,
         MarkWakeActive, AssertWakeActive, AfterSleep, ThreadUnstop, UnstopWake,
         SpecialHandler, ThreadDoSwapin, DelayedCallInterrupt, ThreadStopWait,
         AssertWait, cpuVars
<1>2. CASE \/ ThreadSetTimer(t) \/ ThreadCancelTimer(t) \/ ThreadWait(t)
           \/ MarkWakeActive(t) \/ AfterSleep(t) \/ ThreadDoSwapin(t)
           \/ DelayedCallInterrupt(t) \/ ThreadStopWait(t)
  <2>1. UNCHANGED <<state, waitQueue>>
    BY <1>2 DEF ThreadSetTimer, ThreadCancelTimer, ThreadWait, MarkWakeActive,
         AfterSleep, ThreadDoSwapin, DelayedCallInterrupt, ThreadStopWait,
         stateVars, waitVars, queueVars
  <2> QED
    BY <1>1, <2>1, SameCpus, AbortFrame DEF BitsKept
<1>3. CASE SpecialHandler(t) \/ ThreadStop(t) \/ ThreadUnstop(t)
  <2>1. /\ waitQueue' = waitQueue
        /\ \/ state' = state
           \/ \E u \in Threads : \E B :
                /\ B \in {state[u] \ {"ABORT"}, state[u] \cup {"SUSP"},
                          state[u] \ {"SUSP"}, (state[u] \ {"SUSP"}) \cup {"RUN"}}
                /\ state' = [state EXCEPT ![u] = B]
    <3>1. SpecialHandler(t) \/ target[t] \in Threads
      BY <1>3 DEF ThreadStop, ThreadUnstop, Inv, StopTargetOK, StopPCs
    <3> QED
      BY <1>3, <3>1 DEF SpecialHandler, ThreadStop, ThreadUnstop, waitVars,
                        queueVars
  <2>2. BitsKept
    BY <2>1 DEF BitsKept, Inv, WaitTypeOK
  <2> QED
    BY <1>1, <2>2, SameCpus, AbortFrame
<1>4. CASE UnstopWake(t)
  <2>1. BitsKept
    BY <1>4, WakeBits DEF UnstopWake, Wakeup
  <2> QED
    BY <1>1, <2>1, SameCpus, AbortFrame
<1>5. CASE AssertWait(t) \/ AssertWakeActive(t)
  <2>1. Executing(t) /\ \E e, mode : MarkWait(t, e, mode)
    BY <1>5 DEF AssertWait, AssertWakeActive
  <2>2. /\ \A u \in Threads \ {t} : /\ state'[u] = state[u]
                                    /\ waitQueue'[u] = waitQueue[u]
        /\ Executing(t)'
    BY <1>1, <2>1 DEF MarkWait, Inv, WaitTypeOK, Executing
  <2>3. ASSUME NEW u \in Threads, AbortedWait(u)'
        PROVE  AbortedWait(u) /\ waitQueue'[u] = waitQueue[u]
    BY <1>1, <2>2, <2>3 DEF AbortedWait, Executing
  <2> QED
    BY <1>1, <2>3 DEF AbortInv, Chaser
<1> QED
  BY <1>2, <1>3, <1>4, <1>5 DEF ThreadStep

LEMMA CpuAborts ==
  ASSUME Inv, PlaceTypeOK, PlaceInv, AbortInv, NEW p \in Cpus,
         CpuStep(p) \/ IdleRun(p)
  PROVE  AbortInv'
<1>1. caller' = caller
  BY DEF CpuStep, IdleRun, Reselect, InvokeSame, InvokeMiss, InvokeSwitch,
         InvokeHandoff, ThreadDispatch, DispatchWake, HandoffDispatch,
         HandoffWake, HandoffDone
<1>2. ExecKept
  <2>1. phase[p] # "run" \/ cpu[p] = Idle
    BY DEF CpuStep, IdleRun, Reselect, InvokeSame, InvokeMiss, InvokeSwitch,
           InvokeHandoff, ThreadDispatch, DispatchWake, HandoffDispatch,
           HandoffWake, HandoffDone
  <2>2. \E x, y : /\ cpu' = [cpu EXCEPT ![p] = x] \/ cpu' = cpu
                  /\ phase' = [phase EXCEPT ![p] = y]
    BY DEF CpuStep, IdleRun, Reselect, InvokeSame, InvokeMiss, InvokeSwitch,
           InvokeHandoff, ThreadDispatch, DispatchWake, HandoffDispatch,
           HandoffWake, HandoffDone, Dispatched, EndBlock
  <2>3. \A q \in Cpus \ {p} : cpu'[q] = cpu[q] /\ phase'[q] = phase[q]
    BY <2>2 DEF PlaceTypeOK
  <2> QED
    BY <2>1, <2>3, OneCpu
<1>3. CASE Reselect(p) \/ IdleRun(p) \/ HandoffDone(p)
  <2>1. UNCHANGED <<state, waitQueue>>
    BY <1>3 DEF Reselect, IdleRun, HandoffDone, waitVars, queueVars
  <2> QED
    BY <1>1, <1>2, <2>1, AbortFrame DEF BitsKept
<1>4. CASE \/ InvokeSame(p) \/ InvokeMiss(p) \/ InvokeSwitch(p)
           \/ InvokeHandoff(p)
  <2>1. /\ phase[p] = "selected" /\ state' = Interruptible(new[p])
        /\ waitQueue' = waitQueue
    BY <1>4 DEF InvokeSame, InvokeMiss, InvokeSwitch, InvokeHandoff, waitVars,
                queueVars
  <2>2. \A u \in Threads : "WAIT" \in state[u] => u # new[p]
    BY <2>1 DEF PlaceInv, WaitPlace
  <2>3. BitsKept
    BY <2>1, <2>2 DEF BitsKept, Interruptible
  <2> QED
    BY <1>1, <1>2, <2>3, AbortFrame
<1>5. CASE ThreadDispatch(p) \/ HandoffDispatch(p)
  <2>1. /\ waitQueue' = waitQueue
        /\ state' = state \/ state' = [state EXCEPT ![old[p]] = @ \ {"RUN"}]
    BY <1>5 DEF ThreadDispatch, HandoffDispatch, Dispatched, waitVars,
                queueVars, stateVars
  <2>2. BitsKept
    BY <2>1 DEF BitsKept, Inv, WaitTypeOK
  <2> QED
    BY <1>1, <1>2, <2>2, AbortFrame
<1>6. CASE DispatchWake(p) \/ HandoffWake(p)
  <2>1. BitsKept
    BY <1>6, WakeBits DEF DispatchWake, HandoffWake, Wakeup
  <2> QED
    BY <1>1, <1>2, <2>1, AbortFrame
<1> QED
  BY <1>3, <1>4, <1>5, <1>6 DEF CpuStep

\* thread_block looks at TH_ABORT under the lock under which it gives up the
\* processor.
LEMMA BlockAborts ==
  ASSUME Inv, PlaceTypeOK, AbortInv, NEW p \in Cpus, NEW t \in Threads,
         ThreadBlock(p, t)
  PROVE  AbortInv'
<1>1. /\ cpu[p] = t /\ caller' = caller /\ cpu' = cpu
      /\ phase' = [phase EXCEPT ![p] = "selected"]
      /\ \/ /\ "ABORT" \notin state[t] /\ UNCHANGED <<state, waitQueue>>
         \/ /\ state' = [state EXCEPT ![t] = state[t] \ {"WAIT"}]
            /\ waitQueue' = waitQueue \/ Dequeue(waitQueue[t], {t})
  BY DEF ThreadBlock, waitVars, queueVars
<1>2. \A u \in Threads \ {t} :
        state'[u] = state[u] /\ waitQueue'[u] = waitQueue[u]
  BY <1>1 DEF Inv, WaitTypeOK, Dequeue
<1>3. ~("WAIT" \in state'[t] /\ "ABORT" \in state'[t])
  BY <1>1 DEF Inv, WaitTypeOK
<1>4. \A u \in Threads \ {t} : Executing(u) => Executing(u)'
  BY <1>1 DEF Executing, PlaceTypeOK
<1>5. ASSUME NEW u \in Threads, AbortedWait(u)'
      PROVE  AbortedWait(u) /\ waitQueue'[u] = waitQueue[u]
  BY <1>2, <1>3, <1>4, <1>5 DEF AbortedWait
<1> QED
  BY <1>1, <1>5 DEF AbortInv, Chaser

\* A caller c, for the thread t that it is or was to wake.
LEMMA ChaserFrame ==
  ASSUME AbortInv, ExecKept, BitsKept, NEW c \in Callers, NEW t \in Threads,
         \A d \in Callers \ {c} : caller'[d] = caller[d],
         \A u \in Threads \ {t} : ~Chaser(c, u),
         AbortedWait(t)' /\ Chaser(c, t) => Chaser(c, t)'
  PROVE  AbortInv'
<1> SUFFICES ASSUME NEW u \in Threads, AbortedWait(u)'
             PROVE  \E d \in Callers : Chaser(d, u)'
  BY DEF AbortInv
<1>1. AbortedWait(u) /\ waitQueue'[u] = waitQueue[u]
  BY DEF AbortedWait, BitsKept, ExecKept
<1>2. PICK d \in Callers : Chaser(d, u)
  BY <1>1 DEF AbortInv
<1>3. CASE d = c
  BY <1>2, <1>3
<1>4. CASE d # c
  BY <1>1, <1>2, <1>4 DEF Chaser
<1> QED
  BY <1>3, <1>4

LEMMA SameStates == UNCHANGED <<state, waitQueue>> => BitsKept
BY DEF BitsKept

\* clear_wait: a caller that finds the thread on a queue goes on to remove it.
LEMMA ClearAborts ==
  ASSUME Inv, TimerInv, AbortInv, ExecKept, NEW c \in Callers, NEW t \in Threads,
         CallerAlone(c), NEW result \in ClearResults,
         ClearWaitInternal(c, t, result),
         \A u \in Threads \ {t} : ~Chaser(c, u)
  PROVE  AbortInv'
<1>1. \A d \in Callers \ {c} : caller'[d] = caller[d]
  BY DEF CallerAlone
<1>2. CASE waitQueue[t] = NoBucket
  <2>1. waitQueue' = waitQueue /\ GoLocked({t}, result) /\ "WAIT" \notin state[t]
    BY <1>2 DEF ClearWaitInternal, queueVars, Inv, WaitStateConsistent
  <2>2. \A u \in Threads : state'[u] = state[u]
    BY <2>1 DEF GoLocked
  <2>3. BitsKept /\ ~AbortedWait(t)'
    BY <2>1, <2>2 DEF BitsKept, AbortedWait
  <2> QED
    BY <1>1, <2>3, ChaserFrame
<1>3. CASE waitQueue[t] # NoBucket
  <2>1. /\ UNCHANGED <<state, waitQueue>>
        /\ caller' = [caller EXCEPT ![c] = [pc |-> "remove", thread |-> t,
                              queue |-> waitQueue[t], result |-> result]]
    BY <1>3 DEF ClearWaitInternal, waitVars, queueVars, stateVars
  <2>2. PICK r : r = [pc |-> "remove", thread |-> t, queue |-> waitQueue[t],
                      result |-> result]
    OBVIOUS
  <2>3. /\ r # NoCaller /\ r.pc = "remove" /\ r.thread = t
        /\ r.queue = waitQueue[t]
    BY <2>2, CallerRecords DEF Inv, WaitTypeOK
  <2>4. caller'[c] = r
    BY <2>1, <2>2 DEF TimerInv, TimerTypeOK, CallerTypeOK
  <2> QED
    BY <1>1, <2>1, <2>3, <2>4, ChaserFrame, SameStates DEF Chaser
<1> QED
  BY <1>2, <1>3

LEMMA CallerAborts ==
  ASSUME Inv, TimerInv, AbortInv, NEW c \in Callers,
         \/ CallerStep(c)
         \/ \E t \in Threads :
              CallThreadDequeue(c, t) \/ ClearWait(c, t) \/ ActAbort(c, t)
  PROVE  AbortInv'
<1>1. CallerAlone(c) /\ \A d \in Callers \ {c} : caller'[d] = caller[d]
  BY CallersOfTimers DEF CallerAlone
<1>2. UNCHANGED <<cpu, phase>>
  BY DEF CallerStep, ThreadTimerExpire, WaitQueueRemove, ActAbortCheck,
         ActAbortClear, CallThreadDequeue, ClearWait, ActAbort, cpuVars
<1>3. ExecKept
  BY <1>2, SameCpus
<1>4. caller[c] # NoCaller => caller[c].thread \in Threads
  BY DEF TimerInv, TimerTypeOK, CallerTypeOK, CallerRecord
<1>5. ASSUME NEW u \in Threads, Chaser(c, u)
      PROVE  caller[c] # NoCaller /\ caller[c].thread = u
  BY <1>5 DEF Chaser
<1>6. ASSUME NEW t \in Threads, CallThreadDequeue(c, t) PROVE AbortInv'
  <2>1. /\ UNCHANGED <<state, waitQueue>> /\ caller[c] = NoCaller
    BY <1>6 DEF CallThreadDequeue, stateVars, waitVars, queueVars
  <2> QED
    BY <1>1, <1>3, <1>5, <2>1, SameStates, ChaserFrame
<1>7. ASSUME NEW t \in Threads, ActAbort(c, t) PROVE AbortInv'
  <2>1. /\ caller[c] = NoCaller /\ waitQueue' = waitQueue
        /\ \A u \in Threads \ {t} : state'[u] = state[u]
        /\ caller' = [caller EXCEPT ![c] = [pc |-> "abort", thread |-> t,
                              queue |-> NoBucket, result |-> "interrupted"]]
    BY <1>7 DEF ActAbort, waitVars, queueVars, Inv, WaitTypeOK
  <2>2. PICK r : r = [pc |-> "abort", thread |-> t, queue |-> NoBucket,
                      result |-> "interrupted"]
    OBVIOUS
  <2>3. r # NoCaller /\ r.pc = "abort" /\ r.thread = t
    BY <2>2, CallerRecords DEF ClearResults
  <2>4. caller'[c] = r
    BY <2>1, <2>2 DEF TimerInv, TimerTypeOK, CallerTypeOK
  <2>5. Chaser(c, t)'
    BY <2>3, <2>4 DEF Chaser
  <2>6. ASSUME NEW u \in Threads \ {t}, AbortedWait(u)'
        PROVE  \E d \in Callers : Chaser(d, u)'
    <3>1. AbortedWait(u)
      BY <1>2, <2>1, <2>6 DEF AbortedWait, Executing
    <3>2. PICK d \in Callers : Chaser(d, u)
      BY <3>1 DEF AbortInv
    <3>3. d # c
      BY <1>5, <2>1, <3>2
    <3> QED
      BY <1>1, <2>1, <3>2, <3>3 DEF Chaser
  <2> QED
    BY <2>5, <2>6 DEF AbortInv
<1>8. CASE ActAbortCheck(c)
  <2>1. PICK t : t = caller[c].thread
    OBVIOUS
  <2>2. /\ UNCHANGED <<state, waitQueue>> /\ caller[c] # NoCaller
        /\ caller[c].pc = "abort"
        /\ caller' = [caller EXCEPT ![c] = IF "WAIT" \in state[t]
                        THEN [caller[c] EXCEPT !.pc = "clear"] ELSE NoCaller]
    BY <1>8, <2>1 DEF ActAbortCheck, stateVars, waitVars, queueVars
  <2>3. t \in Threads /\ BitsKept
    BY <1>4, <2>1, <2>2, SameStates
  <2>4. ASSUME AbortedWait(t)' PROVE Chaser(c, t)'
    <3>1. "WAIT" \in state[t]
      BY <2>2, <2>4 DEF AbortedWait
    <3>2. PICK r : r = [caller[c] EXCEPT !.pc = "clear"]
      OBVIOUS
    <3>3. caller[c] \in CallerRecord
      BY <2>2 DEF TimerInv, TimerTypeOK, CallerTypeOK
    <3>4. r \in CallerRecord /\ r.pc = "clear" /\ r.thread = t
      BY <2>1, <3>2, <3>3 DEF CallerRecord
    <3>5. r # NoCaller
      BY <3>4, SchedPrimAssumption
    <3>6. caller'[c] = r
      BY <2>2, <3>1, <3>2 DEF TimerInv, TimerTypeOK, CallerTypeOK
    <3> QED
      BY <3>4, <3>5, <3>6 DEF Chaser
  <2> QED
    BY <1>1, <1>3, <1>5, <2>1, <2>3, <2>4, ChaserFrame
<1>9. ASSUME NEW t \in Threads, NEW i,
             DoClearWait(c, t, "interrupted", i),
             \A u \in Threads \ {t} : ~Chaser(c, u)
      PROVE  AbortInv'
  <2>1. "interrupted" \in ClearResults
    BY DEF ClearResults
  <2>2. CASE ClearWaitInternal(c, t, "interrupted")
    BY <1>1, <1>3, <1>9, <2>1, <2>2, ClearAborts
  <2>3. CASE "UNINT" \in state[t] /\ UNCHANGED <<waitVars, stateVars>>
    <3>1. UNCHANGED <<state, waitQueue>>
      BY <2>3 DEF waitVars, queueVars, stateVars
    <3>2. ~AbortedWait(t)'
      BY <2>3, <3>1 DEF AbortedWait
    <3> QED
      BY <1>1, <1>3, <1>9, <3>1, <3>2, SameStates, ChaserFrame
  <2> QED
    BY <1>9, <2>2, <2>3 DEF DoClearWait
<1>10. ASSUME NEW t \in Threads, ClearWait(c, t) PROVE AbortInv'
  <2>1. caller[c] = NoCaller /\ \E i : DoClearWait(c, t, "interrupted", i)
    BY <1>10 DEF ClearWait
  <2> QED
    BY <1>5, <1>9, <2>1
<1>11. CASE ActAbortClear(c)
  <2>1. PICK t : t = caller[c].thread
    OBVIOUS
  <2>2. caller[c] # NoCaller /\ DoClearWait(c, t, "interrupted", TRUE)
    BY <1>11, <2>1 DEF ActAbortClear
  <2> QED
    BY <1>4, <1>5, <1>9, <2>1, <2>2
<1>12. CASE ThreadTimerExpire(c)
  <2>1. PICK t : t = caller[c].thread
    OBVIOUS
  <2>2. /\ caller[c] # NoCaller /\ caller[c].pc = "expire"
        /\ \/ ClearWaitInternal(c, t, "timed_out")
           \/ UNCHANGED <<waitVars, stateVars>>
    BY <1>12, <2>1 DEF ThreadTimerExpire
  <2>3. t \in Threads /\ \A u \in Threads : ~Chaser(c, u)
    BY <1>4, <2>1, <2>2 DEF Chaser
  <2>4. CASE ClearWaitInternal(c, t, "timed_out")
    BY <1>1, <1>3, <2>3, <2>4, ClearAborts DEF ClearResults
  <2>5. CASE UNCHANGED <<waitVars, stateVars>>
    <3>1. UNCHANGED <<state, waitQueue>>
      BY <2>5 DEF waitVars, queueVars, stateVars
    <3> QED
      BY <1>1, <1>3, <2>3, <3>1, SameStates, ChaserFrame
  <2> QED
    BY <2>2, <2>4, <2>5
<1>13. CASE WaitQueueRemove(c)
  <2>1. PICK t : t = caller[c].thread
    OBVIOUS
  <2>2. /\ caller[c] # NoCaller /\ caller[c].pc = "remove"
        /\ \/ /\ waitQueue[t] = caller[c].queue
              /\ Dequeue(caller[c].queue, {t}) /\ GoLocked({t}, caller[c].result)
           \/ waitQueue[t] # caller[c].queue /\ UNCHANGED <<waitVars, stateVars>>
    BY <1>13, <2>1 DEF WaitQueueRemove
  <2>3. t \in Threads /\ \A u \in Threads \ {t} : ~Chaser(c, u)
    BY <1>4, <2>1, <2>2 DEF Chaser
  <2>4. CASE Dequeue(caller[c].queue, {t}) /\ GoLocked({t}, caller[c].result)
    <3>1. ~AbortedWait(t)'
      BY <2>3, <2>4 DEF GoLocked, AbortedWait
    <3> QED
      BY <1>1, <1>3, <2>3, <2>4, <3>1, WakeBits, ChaserFrame
  <2>5. CASE /\ waitQueue[t] # caller[c].queue
             /\ UNCHANGED <<waitVars, stateVars>>
    <3>1. UNCHANGED <<state, waitQueue>> /\ ~Chaser(c, t)
      BY <2>2, <2>5 DEF waitVars, queueVars, stateVars, Chaser
    <3> QED
      BY <1>1, <1>3, <2>3, <3>1, SameStates, ChaserFrame
  <2> QED
    BY <2>2, <2>4, <2>5
<1> QED
  BY <1>6, <1>7, <1>8, <1>10, <1>11, <1>12, <1>13 DEF CallerStep

LEMMA AbortNext ==
  ASSUME Inv, TimerInv, PlaceTypeOK, PlaceInv, AbortInv, [Next]_vars
  PROVE  AbortInv'
<1>1. CASE UNCHANGED vars
  <2>1. UNCHANGED <<state, waitQueue, cpu, phase, caller>>
    BY <1>1 DEF vars, waitVars, queueVars, stateVars, cpuVars
  <2> QED
    BY <2>1, SameStates, SameCpus, AbortFrame
<1>2. ASSUME NEW e \in Events, ThreadWakeup(e) \/ ThreadWakeupOne(e)
      PROVE  AbortInv'
  <2>1. BitsKept
    BY <1>2, WakeBits DEF ThreadWakeup, ThreadWakeupOne, Wakeup
  <2>2. UNCHANGED <<cpu, phase, caller>>
    BY <1>2 DEF ThreadWakeup, ThreadWakeupOne, cpuVars
  <2> QED
    BY <2>1, <2>2, SameCpus, AbortFrame
<1> QED
  BY <1>1, <1>2, CpuAborts, BlockAborts, ThreadAborts, CallerAborts DEF Next

\* Once TH_ABORT is set, no interruptible wait keeps the thread stopped unless
\* the thread_abort that set it has its clear_wait still to do: either
\* thread_block sees the flag, or the clear_wait finds the thread, even when it
\* has to give up the thread's lock for the wait queue's.
THEOREM AbortCorrect == Spec => []AbortNotLost
<1>1. Init => Inv /\ TimerInv /\ PlaceTypeOK /\ PlaceInv /\ AbortInv
  BY InvInit, TimerInvInit, PlaceInit DEF Init, AbortInv, AbortedWait
<1>2. Inv /\ TimerInv /\ PlaceTypeOK /\ PlaceInv /\ AbortInv /\ [Next]_vars
        => (Inv /\ TimerInv /\ PlaceTypeOK /\ PlaceInv /\ AbortInv)'
  BY InvNext, TimerInvNext, PlaceNext, AbortNext
<1>3. PlaceInv /\ AbortInv => AbortNotLost
  <2> SUFFICES ASSUME PlaceInv, AbortInv, NEW t \in Threads,
                      state[t] \cap {"ABORT", "RUN", "UNINT"} = {"ABORT"}
               PROVE  \E c \in Callers :
                        caller[c] # NoCaller /\ caller[c].thread = t
    BY DEF AbortNotLost
  <2>1. PlaceOK(t) /\ RunOrWait(t)
    BY DEF PlaceInv
  <2>2. /\ "WAIT" \in state[t] /\ "ABORT" \in state[t]
        /\ "UNINT" \notin state[t] /\ "RUN" \notin state[t]
    BY <2>1 DEF RunOrWait
  <2>3. ~Executing(t)
    BY <2>1, <2>2 DEF PlaceOK, Handled, Row, Kinds, Executing
  <2> QED
    BY <2>2, <2>3 DEF AbortInv, AbortedWait, Chaser
<1> QED
  BY <1>1, <1>2, <1>3, PTL DEF Spec

------------------------------------------------------------------------------
(***************************************************************************)
(* The wait queues, and the event mechanism they implement                 *)
(***************************************************************************)
QueueTypeOK == /\ waitResult \in [Threads -> WaitResults]
               /\ wq \in [Buckets -> Seq(Threads)]

QueueInv == QueueTypeOK /\ WaitQueuesConsistent

\* A processor that hands off, or has yet to wake somebody, does so for a thread.
WakePhases == {"handoff", "wake", "handoffWake"}

OldInv == \A p \in Cpus : phase[p] \in WakePhases => old[p] \in Threads

\* What an action may do to the waits: nothing, ...
WaitsAlone == UNCHANGED <<wq, waitQueue, waitEvent, waitResult>>

\* ... end those of some or all of the threads that wait for an event, ...
WaitsEnd(e, W) == W \subseteq WaitersFor(e) /\ Wakeup(e, W)

\* ... end the wait of one thread, whatever it waits for, ...
WaitCleared(t, result) ==
  /\ waitQueue[t] # NoBucket /\ Dequeue(waitQueue[t], {t})
  /\ waitResult' = [waitResult EXCEPT ![t] = result]

EndStep ==
  \/ WaitsAlone
  \/ \E e \in AllEvents : WaitsEnd(e, WaitersFor(e))
  \/ \E e \in AllEvents : \E t \in WaitersFor(e) : WaitsEnd(e, {t})
  \/ \E t \in Threads, result \in ClearResults : WaitCleared(t, result)

\* ... or start the wait of a thread that does not wait.
WaitStarts(t, e) == waitQueue[t] = NoBucket /\ \E mode : MarkWait(t, e, mode)

EventStep == EndStep \/ \E t \in Threads, e \in AllEvents : WaitStarts(t, e)

LEMMA NotQueued ==
  ASSUME Inv, PlaceInv, NEW t \in Threads, Executing(t), pc[t] \notin BlockPCs
  PROVE  waitQueue[t] = NoBucket
BY ExecutingPlace DEF Inv, WaitStateConsistent

LEMMA StartSteps ==
  ASSUME Inv, PlaceInv, NEW t \in Threads, AssertWait(t) \/ AssertWakeActive(t)
  PROVE  EventStep
<1>1. CASE AssertWait(t)
  <2>1. Executing(t) /\ pc[t] = "run"
    BY <1>1 DEF AssertWait, GoTo
  <2>2. waitQueue[t] = NoBucket
    BY <2>1, NotQueued DEF BlockPCs
  <2>3. \E e \in AllEvents : \E mode : MarkWait(t, e, mode)
    BY <1>1, ConstantTypes DEF AssertWait
  <2> QED
    BY <2>2, <2>3 DEF WaitStarts, EventStep
<1>2. CASE AssertWakeActive(t)
  <2>1. Executing(t) /\ pc[t] \in {"stopAssert", "waitAssert"}
    BY <1>2 DEF AssertWakeActive, GoTo
  <2>2. waitQueue[t] = NoBucket
    BY <2>1, NotQueued DEF BlockPCs
  <2>3. target[t] \in Threads
    BY <2>1 DEF Inv, StopTargetOK, StopPCs
  <2>4. \E e \in AllEvents : \E mode : MarkWait(t, e, mode)
    BY <1>2, <2>3, ConstantTypes DEF AssertWakeActive
  <2> QED
    BY <2>2, <2>4 DEF WaitStarts, EventStep
<1> QED
  BY <1>1, <1>2

LEMMA OldFrame ==
  ASSUME OldInv, \A p \in Cpus : \/ phase'[p] = phase[p] /\ old'[p] = old[p]
                                 \/ phase'[p] \notin WakePhases
                                 \/ old'[p] \in Threads
  PROVE  OldInv'
BY DEF OldInv

LEMMA OldNext ==
  ASSUME PlaceTypeOK, OldInv, [Next]_vars
  PROVE  OldInv'
<1>1. ASSUME UNCHANGED cpuVars PROVE OldInv'
  BY <1>1, OldFrame DEF cpuVars
<1>2. ASSUME NEW p \in Cpus, NEW to, phase' = [phase EXCEPT ![p] = to],
             \/ to \notin WakePhases
             \/ old' = [old EXCEPT ![p] = cpu[p]] /\ cpu[p] \in Threads
             \/ old' = old /\ old[p] \in Threads,
             \A q \in Cpus \ {p} : old'[q] = old[q]
      PROVE  OldInv'
  <2>1. /\ phase'[p] = to
        /\ \A q \in Cpus \ {p} : phase'[q] = phase[q]
    BY <1>2 DEF PlaceTypeOK
  <2>2. to \notin WakePhases \/ old'[p] \in Threads
    BY <1>2 DEF PlaceTypeOK
  <2> QED
    BY <1>2, <2>1, <2>2, OldFrame
<1>3. ASSUME NEW p \in Cpus, CpuStep(p) \/ IdleRun(p) PROVE OldInv'
  <2>1. CASE \/ IdleRun(p) \/ Reselect(p) \/ InvokeSame(p) \/ InvokeMiss(p)
             \/ InvokeSwitch(p) \/ DispatchWake(p) \/ HandoffWake(p) \/ HandoffDone(p)
    <3>1. \/ phase' = [phase EXCEPT ![p] = "run"]
          \/ phase' = [phase EXCEPT ![p] = "selected"]
          \/ phase' = [phase EXCEPT ![p] = "reselect"]
          \/ phase' = [phase EXCEPT ![p] = "dispatch"]
          \/ phase' = [phase EXCEPT ![p] = "handoffDone"]
      BY <2>1 DEF IdleRun, Reselect, InvokeSame, InvokeMiss, InvokeSwitch,
         DispatchWake, HandoffWake, HandoffDone, EndBlock
    <3>2. \A q \in Cpus \ {p} : old'[q] = old[q]
      BY <2>1 DEF IdleRun, Reselect, InvokeSame, InvokeMiss, InvokeSwitch,
         DispatchWake, HandoffWake, HandoffDone, EndBlock, PlaceTypeOK
    <3>3. {"run", "selected", "reselect", "dispatch", "handoffDone"}
            \cap WakePhases = {}
      BY DEF WakePhases
    <3> QED
      BY <1>2, <3>1, <3>2, <3>3
  <2>2. CASE InvokeHandoff(p)
    <3>1. cpu[p] \in Threads
      BY <2>2 DEF InvokeHandoff, HandsOff, PlaceTypeOK
    <3>2. /\ phase' = [phase EXCEPT ![p] = "handoff"]
          /\ old' = [old EXCEPT ![p] = cpu[p]]
      BY <2>2 DEF InvokeHandoff
    <3>3. \A q \in Cpus \ {p} : old'[q] = old[q]
      BY <3>2 DEF PlaceTypeOK
    <3> QED
      BY <1>2, <3>1, <3>2, <3>3
  <2>3. CASE HandoffDispatch(p)
    <3>1. old' = old /\ old[p] \in Threads
      BY <2>3 DEF HandoffDispatch, OldInv, WakePhases
    <3>2. \E to : phase' = [phase EXCEPT ![p] = to]
      BY <2>3 DEF HandoffDispatch, Dispatched
    <3> QED
      BY <1>2, <3>1, <3>2
  <2>4. CASE ThreadDispatch(p)
    <3>1. \A q \in Cpus \ {p} : old'[q] = old[q]
      BY <2>4 DEF ThreadDispatch, EndBlock, PlaceTypeOK
    <3>2. \/ phase' = [phase EXCEPT ![p] = "run"]
          \/ phase' = [phase EXCEPT ![p] = "wake"] /\ old' = old /\ old[p] # Idle
      BY <2>4 DEF ThreadDispatch, Dispatched, EndBlock
    <3>3. old[p] # Idle => old[p] \in Threads
      BY DEF PlaceTypeOK
    <3>4. "run" \notin WakePhases
      BY DEF WakePhases
    <3> QED
      BY <1>2, <3>1, <3>2, <3>3, <3>4
  <2> QED
    BY <1>3, <2>1, <2>2, <2>3, <2>4 DEF CpuStep
<1>4. ASSUME NEW p \in Cpus, NEW t \in Threads, ThreadBlock(p, t) PROVE OldInv'
  <2>1. /\ phase' = [phase EXCEPT ![p] = "selected"] /\ old' = old
        /\ "selected" \notin WakePhases
    BY <1>4 DEF ThreadBlock, WakePhases
  <2> QED
    BY <1>2, <2>1
<1>5. CASE UNCHANGED vars
  BY <1>1, <1>5 DEF vars
<1>6. ASSUME NEW t \in Threads,
             \/ AssertWait(t) \/ ThreadStopWait(t) \/ ThreadStep(t)
             \/ SpecialHandler(t) \/ ThreadDoSwapin(t)
             \/ DelayedCallInterrupt(t)
      PROVE  UNCHANGED cpuVars
  BY <1>6 DEF ThreadStep, AssertWait, ThreadStopWait, SpecialHandler,
     ThreadDoSwapin, DelayedCallInterrupt, ThreadSetTimer, ThreadCancelTimer,
     ThreadStop, ThreadWait, MarkWakeActive, AssertWakeActive, AfterSleep,
     ThreadUnstop, UnstopWake
<1>7. ASSUME NEW c \in Callers, NEW t,
             \/ CallerStep(c) \/ CallThreadDequeue(c, t) \/ ClearWait(c, t)
             \/ ActAbort(c, t)
      PROVE  UNCHANGED cpuVars
  BY <1>7 DEF CallerStep, CallThreadDequeue, ClearWait, ActAbort,
     ThreadTimerExpire, WaitQueueRemove, ActAbortCheck, ActAbortClear
<1>8. ASSUME NEW e \in Events, ThreadWakeup(e) \/ ThreadWakeupOne(e)
      PROVE  UNCHANGED cpuVars
  BY <1>8 DEF ThreadWakeup, ThreadWakeupOne
<1>9. ASSUME NEW c \in Callers, CallerStep(c) PROVE UNCHANGED cpuVars
  BY <1>7, <1>9
<1>10. (\E p \in Cpus : CpuStep(p) \/ IdleRun(p)) => OldInv'
  BY <1>3
<1>11. (\E p \in Cpus, t \in Threads : ThreadBlock(p, t)) => OldInv'
  BY <1>4
<1> QED
  BY <1>1, <1>5, <1>6, <1>7, <1>8, <1>9, <1>10, <1>11 DEF Next

------------------------------------------------------------------------------
\* The wakeups end the waits of those that wait for the event, ...
LEMMA WakeupEvents ==
  ASSUME Inv, PlaceTypeOK, OldInv, QueueTypeOK, NEW e, NEW p, NEW t,
         \/ e \in Events /\ (ThreadWakeup(e) \/ ThreadWakeupOne(e))
         \/ p \in Cpus /\ (DispatchWake(p) \/ HandoffWake(p))
         \/ t \in Threads /\ UnstopWake(t)
  PROVE  EndStep
<1>1. CASE e \in Events /\ ThreadWakeup(e)
  <2>1. WaitsEnd(e, WaitersFor(e)) /\ e \in AllEvents
    BY <1>1, ConstantTypes DEF ThreadWakeup, WaitsEnd
  <2> QED
    BY <2>1 DEF EndStep
<1>2. CASE e \in Events /\ ThreadWakeupOne(e)
  <2>1. e \in AllEvents /\ BucketOf[e] \in Buckets
    BY <1>2, ConstantTypes
  <2>2. FirstWaiter(e) \in WaitersFor(e)
    BY <1>2, <2>1, FirstWaits DEF ThreadWakeupOne, QueueTypeOK
  <2>3. WaitsEnd(e, {FirstWaiter(e)})
    BY <1>2, <2>2 DEF ThreadWakeupOne, WaitsEnd
  <2> QED
    BY <2>1, <2>2, <2>3 DEF EndStep
<1>3. ASSUME NEW f \in AllEvents, Wakeup(f, WaitersFor(f)) PROVE EndStep
  BY <1>3 DEF WaitsEnd, EndStep
<1>4. CASE p \in Cpus /\ (DispatchWake(p) \/ HandoffWake(p))
  <2>1. phase[p] \in WakePhases
    BY <1>4 DEF DispatchWake, HandoffWake, WakePhases
  <2>2. WakeEvent[old[p]] \in AllEvents
    BY <1>4, <2>1, ConstantTypes DEF OldInv
  <2>3. Wakeup(WakeEvent[old[p]], WaitersFor(WakeEvent[old[p]]))
    BY <1>4 DEF DispatchWake, HandoffWake
  <2> QED
    BY <1>3, <2>2, <2>3
<1>5. CASE t \in Threads /\ UnstopWake(t)
  <2>1. pc[t] = "unstopWake"
    BY <1>5 DEF UnstopWake, GoTo
  <2>2. WakeEvent[target[t]] \in AllEvents
    BY <1>5, <2>1, ConstantTypes DEF Inv, StopTargetOK, StopPCs
  <2>3. Wakeup(WakeEvent[target[t]], WaitersFor(WakeEvent[target[t]]))
    BY <1>5 DEF UnstopWake
  <2> QED
    BY <1>3, <2>2, <2>3
<1> QED
  BY <1>1, <1>2, <1>4, <1>5

\* ... a thread that is aborted on its way to thread_block ends its own, ...
LEMMA BlockEvents ==
  ASSUME Inv, QueueTypeOK, NEW p \in Cpus, NEW t \in Threads, ThreadBlock(p, t)
  PROVE  EndStep
<1>1. CASE "ABORT" \notin state[t]
  <2>1. WaitsAlone
    BY <1>1 DEF ThreadBlock, WaitsAlone, waitVars, queueVars
  <2> QED
    BY <2>1 DEF EndStep
<1>2. CASE "ABORT" \in state[t] /\ waitQueue[t] = NoBucket
  <2>1. "WAIT" \notin state[t]
    BY <1>2 DEF Inv, WaitStateConsistent
  <2>2. /\ UNCHANGED queueVars
        /\ waitResult' = [waitResult EXCEPT
             ![t] = IF "WAIT" \in state[t] THEN "interrupted" ELSE @]
    BY <1>2 DEF ThreadBlock
  <2>3. waitResult' = waitResult
    BY <2>1, <2>2 DEF QueueTypeOK
  <2>4. WaitsAlone
    BY <2>2, <2>3 DEF WaitsAlone, queueVars
  <2> QED
    BY <2>4 DEF EndStep
<1>3. CASE "ABORT" \in state[t] /\ waitQueue[t] # NoBucket
  <2>1. "WAIT" \in state[t]
    BY <1>3 DEF Inv, WaitStateConsistent
  <2>2. /\ Dequeue(waitQueue[t], {t})
        /\ waitResult' = [waitResult EXCEPT
             ![t] = IF "WAIT" \in state[t] THEN "interrupted" ELSE @]
    BY <1>3 DEF ThreadBlock
  <2>3. waitResult' = [waitResult EXCEPT ![t] = "interrupted"]
    BY <2>1, <2>2
  <2>4. WaitCleared(t, "interrupted") /\ "interrupted" \in ClearResults
    BY <1>3, <2>2, <2>3 DEF WaitCleared, ClearResults
  <2> QED
    BY <2>4 DEF EndStep
<1> QED
  BY <1>1, <1>2, <1>3

\* ... and clear_wait, for anybody, that of the thread it is called with.
LEMMA GoLockedResult ==
  ASSUME QueueTypeOK, NEW t \in Threads, NEW result, GoLocked({t}, result)
  PROVE  /\ "WAIT" \in state[t] => waitResult' = [waitResult EXCEPT ![t] = result]
         /\ "WAIT" \notin state[t] => waitResult' = waitResult
BY DEF GoLocked, QueueTypeOK

LEMMA ClearWaitEvents ==
  ASSUME Inv, QueueTypeOK, NEW c, NEW t \in Threads, NEW result,
         ClearWaitInternal(c, t, result)
  PROVE  WaitsAlone
<1>1. CASE waitQueue[t] = NoBucket
  <2>1. "WAIT" \notin state[t]
    BY <1>1 DEF Inv, WaitStateConsistent
  <2>2. UNCHANGED queueVars /\ GoLocked({t}, result)
    BY <1>1 DEF ClearWaitInternal
  <2> QED
    BY <2>1, <2>2, GoLockedResult DEF WaitsAlone, queueVars
<1>2. CASE waitQueue[t] # NoBucket
  BY <1>2 DEF ClearWaitInternal, WaitsAlone, waitVars, queueVars
<1> QED
  BY <1>1, <1>2

\* wait_queue_remove of a thread that is on no queue, for a caller that saw it
\* on none, finds nothing.
LEMMA NothingToRemove ==
  ASSUME Inv, QueueTypeOK, NEW t \in Threads, waitQueue[t] = NoBucket,
         Dequeue(NoBucket, {t})
  PROVE  UNCHANGED <<wq, waitQueue, waitEvent>>
<1>1. NoBucket \notin Buckets
  BY ConstantTypes
<1>2. wq' = wq
  BY <1>1 DEF Dequeue, QueueTypeOK
<1>3. waitEvent[t] = NoEvent
  BY DEF Inv, WaitStateConsistent
<1>4. UNCHANGED <<waitQueue, waitEvent>>
  BY <1>3 DEF Dequeue, Inv, WaitTypeOK
<1> QED
  BY <1>2, <1>4

LEMMA CallerEvents ==
  ASSUME Inv, CallerTypeOK, QueueTypeOK, NEW c \in Callers, NEW t \in Threads,
         CallerStep(c) \/ ClearWait(c, t)
  PROVE  EndStep
<1>1. ASSUME NEW u \in Threads, NEW result, NEW intr,
             \/ ClearWaitInternal(c, u, result) \/ DoClearWait(c, u, result, intr)
             \/ UNCHANGED waitVars
      PROVE  EndStep
  BY <1>1, ClearWaitEvents DEF DoClearWait, WaitsAlone, waitVars, queueVars,
     EndStep
<1>2. caller[c] # NoCaller => caller[c] \in CallerRecord
  BY DEF CallerTypeOK
<1>3. caller[c] # NoCaller => /\ caller[c].thread \in Threads
                              /\ caller[c].result \in ClearResults
  BY <1>2 DEF CallerRecord
<1>4. CASE ThreadTimerExpire(c)
  BY <1>1, <1>3, <1>4 DEF ThreadTimerExpire
<1>5. CASE ActAbortCheck(c)
  BY <1>1, <1>5 DEF ActAbortCheck
<1>6. CASE ActAbortClear(c)
  BY <1>1, <1>3, <1>6 DEF ActAbortClear
<1>7. CASE ClearWait(c, t)
  BY <1>1, <1>7 DEF ClearWait
<1>8. CASE WaitQueueRemove(c)
  <2>1. PICK u \in Threads, r \in ClearResults, b \in {caller[c].queue} :
          \/ UNCHANGED waitVars
          \/ waitQueue[u] = b /\ Dequeue(b, {u}) /\ GoLocked({u}, r)
    BY <1>3, <1>8 DEF WaitQueueRemove
  <2>2. CASE UNCHANGED waitVars
    BY <1>1, <2>2
  <2>3. CASE /\ waitQueue[u] = b /\ b = NoBucket
             /\ Dequeue(b, {u}) /\ GoLocked({u}, r)
    <3>1. "WAIT" \notin state[u]
      BY <2>3 DEF Inv, WaitStateConsistent
    <3>2. WaitsAlone
      BY <2>3, <3>1, GoLockedResult, NothingToRemove DEF WaitsAlone
    <3> QED
      BY <3>2 DEF EndStep
  <2>4. CASE /\ waitQueue[u] = b /\ b # NoBucket
             /\ Dequeue(b, {u}) /\ GoLocked({u}, r)
    <3>1. "WAIT" \in state[u]
      BY <2>4 DEF Inv, WaitStateConsistent
    <3>2. WaitCleared(u, r)
      BY <2>4, <3>1, GoLockedResult DEF WaitCleared
    <3> QED
      BY <3>2 DEF EndStep
  <2> QED
    BY <2>1, <2>2, <2>3, <2>4
<1> QED
  BY <1>4, <1>5, <1>6, <1>7, <1>8 DEF CallerStep

LEMMA EndNext ==
  ASSUME Inv, PlaceTypeOK, PlaceInv, OldInv, CallerTypeOK, QueueTypeOK,
         [Next]_vars
  PROVE  EndStep \/ \E t \in Threads : AssertWait(t) \/ AssertWakeActive(t)
<1>1. ASSUME UNCHANGED waitVars PROVE EndStep
  BY <1>1 DEF waitVars, queueVars, WaitsAlone, EndStep
<1>2. CASE UNCHANGED vars
  BY <1>1, <1>2 DEF vars
<1>3. ASSUME NEW p \in Cpus, CpuStep(p) \/ IdleRun(p) PROVE EndStep
  <2>1. CASE DispatchWake(p) \/ HandoffWake(p)
    BY <2>1, WakeupEvents
  <2>2. CASE \/ Reselect(p) \/ InvokeSame(p) \/ InvokeMiss(p)
             \/ InvokeSwitch(p) \/ InvokeHandoff(p) \/ ThreadDispatch(p)
             \/ HandoffDispatch(p) \/ HandoffDone(p) \/ IdleRun(p)
    <3>1. UNCHANGED waitVars
      BY <2>2 DEF Reselect, InvokeSame, InvokeMiss, InvokeSwitch,
         InvokeHandoff, ThreadDispatch, HandoffDispatch, HandoffDone, IdleRun
    <3> QED
      BY <1>1, <3>1
  <2> QED
    BY <1>3, <2>1, <2>2 DEF CpuStep
<1>4. ASSUME NEW t \in Threads,
             \/ AssertWait(t) \/ ThreadStopWait(t) \/ ThreadStep(t)
             \/ SpecialHandler(t) \/ ThreadDoSwapin(t)
             \/ DelayedCallInterrupt(t)
      PROVE  EndStep \/ AssertWait(t) \/ AssertWakeActive(t)
  <2>1. CASE AssertWait(t) \/ AssertWakeActive(t)
    BY <2>1
  <2>2. CASE UnstopWake(t)
    BY <2>2, WakeupEvents
  <2>3. CASE \/ ThreadStopWait(t) \/ SpecialHandler(t) \/ ThreadDoSwapin(t)
             \/ DelayedCallInterrupt(t) \/ ThreadSetTimer(t)
             \/ ThreadCancelTimer(t) \/ ThreadStop(t) \/ ThreadWait(t)
             \/ MarkWakeActive(t) \/ AfterSleep(t) \/ ThreadUnstop(t)
    <3>1. UNCHANGED waitVars
      BY <2>3 DEF ThreadStopWait, SpecialHandler, ThreadDoSwapin,
         DelayedCallInterrupt, ThreadSetTimer, ThreadCancelTimer, ThreadStop,
         ThreadWait, MarkWakeActive, AfterSleep, ThreadUnstop
    <3> QED
      BY <1>1, <3>1
  <2> QED
    BY <1>4, <2>1, <2>2, <2>3 DEF ThreadStep
<1>5. ASSUME NEW c \in Callers, CallerStep(c) PROVE EndStep
  <2>1. CASE ActAbortCheck(c)
    BY <1>1, <2>1 DEF ActAbortCheck
  <2>2. CASE caller[c] # NoCaller
    <3>1. caller[c].thread \in Threads
      BY <2>2 DEF CallerTypeOK, CallerRecord
    <3> QED
      BY <1>5, <3>1, CallerEvents
  <2>3. CASE caller[c] = NoCaller
    BY <1>5, <2>3 DEF CallerStep, ThreadTimerExpire, WaitQueueRemove,
       ActAbortCheck, ActAbortClear
  <2> QED
    BY <2>2, <2>3
<1>6. ASSUME NEW c \in Callers, NEW t \in Threads,
             CallThreadDequeue(c, t) \/ ClearWait(c, t) \/ ActAbort(c, t)
      PROVE  EndStep
  <2>1. CASE CallThreadDequeue(c, t) \/ ActAbort(c, t)
    BY <1>1, <2>1 DEF CallThreadDequeue, ActAbort
  <2> QED
    BY <1>6, <2>1, CallerEvents
<1>7. ASSUME NEW p \in Cpus, NEW t \in Threads, ThreadBlock(p, t)
      PROVE  EndStep
  BY <1>7, BlockEvents
<1>8. ASSUME NEW e \in Events, ThreadWakeup(e) \/ ThreadWakeupOne(e)
      PROVE  EndStep
  BY <1>8, WakeupEvents
<1> QED
  BY <1>2, <1>3, <1>4, <1>5, <1>6, <1>7, <1>8 DEF Next

LEMMA EventNext ==
  ASSUME Inv, PlaceTypeOK, PlaceInv, OldInv, CallerTypeOK, QueueTypeOK,
         [Next]_vars
  PROVE  EventStep
BY EndNext, StartSteps DEF EventStep

\* The queues.
LEMMA Linked ==
  ASSUME QueueInv, NEW b \in Buckets
  PROVE  /\ wq[b] \in Seq(Threads) /\ IsInjective(wq[b])
         /\ \A t \in Threads : t \in ToSet(wq[b]) <=> waitQueue[t] = b
BY DEF QueueInv, QueueTypeOK, WaitQueuesConsistent

LEMMA ElementsTyped ==
  ASSUME NEW S, NEW q \in Seq(S) PROVE ToSet(q) \subseteq S
BY DEF ToSet

LEMMA LinksConsistent ==
  ASSUME wq' \in [Buckets -> Seq(Threads)],
         \A b \in Buckets :
           /\ IsInjective(wq'[b])
           /\ \A t \in Threads : t \in ToSet(wq'[b]) <=> waitQueue'[t] = b
  PROVE  WaitQueuesConsistent'
<1> SUFFICES ASSUME NEW b \in Buckets
             PROVE  ToSet(wq'[b]) = {t \in Threads : waitQueue'[t] = b}
  BY DEF WaitQueuesConsistent
<1>1. ToSet(wq'[b]) \subseteq Threads
  BY ElementsTyped
<1> QED
  BY <1>1

\* Threads that are on the queue b are taken off it, all the links with them.
LEMMA DequeueLinks ==
  ASSUME QueueInv, NEW b \in Buckets, NEW W, Dequeue(b, W),
         \A t \in Threads : t \in W => waitQueue[t] = b
  PROVE  wq' \in [Buckets -> Seq(Threads)] /\ WaitQueuesConsistent'
<1>1. wq' = [wq EXCEPT ![b] = Without(wq[b], W)]
  BY DEF Dequeue
<1>2. /\ wq[b] \in Seq(Threads) /\ Without(wq[b], W) \in Seq(Threads)
      /\ ToSet(Without(wq[b], W)) = ToSet(wq[b]) \ W
      /\ IsInjective(Without(wq[b], W))
  BY Linked, WithoutLinks
<1>3. /\ wq' \in [Buckets -> Seq(Threads)]
      /\ wq'[b] = Without(wq[b], W)
      /\ \A a \in Buckets \ {b} : wq'[a] = wq[a]
  BY <1>1, <1>2 DEF QueueInv, QueueTypeOK
<1>4. \A t \in Threads : waitQueue'[t] = IF t \in W THEN NoBucket ELSE waitQueue[t]
  BY DEF Dequeue
<1>5. ASSUME NEW a \in Buckets
      PROVE  /\ IsInjective(wq'[a])
             /\ \A t \in Threads : t \in ToSet(wq'[a]) <=> waitQueue'[t] = a
  <2>1. a # NoBucket
    BY ConstantTypes
  <2>2. CASE a = b
    <3>1. /\ IsInjective(wq'[a]) /\ ToSet(wq'[a]) = ToSet(wq[b]) \ W
          /\ \A t \in Threads : t \in ToSet(wq[b]) <=> waitQueue[t] = b
      BY <1>2, <1>3, <2>2, Linked
    <3> QED
      BY <1>4, <2>1, <2>2, <3>1
  <2>3. CASE a # b
    <3>1. /\ IsInjective(wq'[a])
          /\ \A t \in Threads : t \in ToSet(wq'[a]) <=> waitQueue[t] = a
      BY <1>3, <2>3, Linked
    <3> QED
      BY <1>4, <2>1, <2>3, <3>1
  <2> QED
    BY <2>2, <2>3
<1> QED
  BY <1>3, <1>5, LinksConsistent

LEMMA MarkWaitLinks ==
  ASSUME Inv, QueueInv, NEW t \in Threads, NEW e \in AllEvents, WaitStarts(t, e)
  PROVE  wq' \in [Buckets -> Seq(Threads)] /\ WaitQueuesConsistent'
<1> DEFINE b == BucketOf[e]
           r == IF t \in Privileged THEN <<t>> \o wq[b] ELSE Append(wq[b], t)
<1>1. b \in Buckets /\ b # NoBucket
  BY ConstantTypes
<1>2. wq' = [wq EXCEPT ![b] = r] /\ waitQueue' = [waitQueue EXCEPT ![t] = b]
  BY DEF WaitStarts, MarkWait
<1>3. r = <<t>> \o wq[b] \/ r = Append(wq[b], t)
  OBVIOUS
<1>4. waitQueue[t] = NoBucket /\ t \notin ToSet(wq[b])
  BY <1>1, Linked DEF WaitStarts
<1> HIDE DEF b, r
<1>5. /\ r \in Seq(Threads)
      /\ ToSet(r) = ToSet(wq[b]) \cup {t}
      /\ IsInjective(r)
  <2>1. wq[b] \in Seq(Threads) /\ IsInjective(wq[b])
    BY <1>1, Linked
  <2> QED
    BY <1>3, <1>4, <2>1, LinkedEnds
<1>6. /\ wq' \in [Buckets -> Seq(Threads)]
      /\ wq'[b] = r
      /\ \A a \in Buckets \ {b} : wq'[a] = wq[a]
  BY <1>1, <1>2, <1>5 DEF QueueInv, QueueTypeOK
<1>7. \A u \in Threads : waitQueue'[u] = IF u = t THEN b ELSE waitQueue[u]
  BY <1>2 DEF Inv, WaitTypeOK
<1>8. ASSUME NEW a \in Buckets
      PROVE  /\ IsInjective(wq'[a])
             /\ \A u \in Threads : u \in ToSet(wq'[a]) <=> waitQueue'[u] = a
  <2>1. a # NoBucket
    BY ConstantTypes
  <2>2. CASE a = b
    <3>1. IsInjective(wq'[a]) /\ ToSet(wq'[a]) = ToSet(wq[b]) \cup {t}
      BY <1>5, <1>6, <2>2
    <3>2. \A u \in Threads : u \in ToSet(wq[b]) <=> waitQueue[u] = b
      BY <1>1, Linked
    <3> QED
      BY <1>7, <2>2, <3>1, <3>2
  <2>3. CASE a # b
    <3>1. /\ IsInjective(wq'[a])
          /\ \A u \in Threads : u \in ToSet(wq'[a]) <=> waitQueue[u] = a
      BY <1>6, <2>3, Linked
    <3> QED
      BY <1>4, <1>7, <2>1, <2>3, <3>1
  <2> QED
    BY <2>2, <2>3
<1> QED
  BY <1>6, <1>8, LinksConsistent

\* Who waits for an event is on the queue it hashes to.
LEMMA WaitersOf ==
  ASSUME Inv, QueueInv, NEW e \in AllEvents
  PROVE  /\ WaitersFor(e) = EW!Waiting(e)
         /\ \A t \in WaitersFor(e) : /\ t \in Threads /\ "WAIT" \in state[t]
                                     /\ waitQueue[t] = BucketOf[e]
<1>1. e # NoEvent /\ BucketOf[e] \in Buckets
  BY ConstantTypes
<1>2. \A t \in Threads : waitEvent[t] = e => waitQueue[t] = BucketOf[e]
                                             /\ "WAIT" \in state[t]
  BY <1>1 DEF Inv, WaitStateConsistent
<1>3. ToSet(wq[BucketOf[e]]) = {t \in Threads : waitQueue[t] = BucketOf[e]}
  BY <1>1 DEF QueueInv, WaitQueuesConsistent
<1>4. WaitersFor(e) = {t \in Threads : waitEvent[t] = e}
  BY <1>2, <1>3 DEF WaitersFor
<1> QED
  BY <1>2, <1>4 DEF EW!Waiting

\* Each kind of step keeps the queues and is one of the abstract mechanism.
LEMMA StartKeepsQueues ==
  ASSUME Inv, QueueInv, NEW t \in Threads, NEW e \in AllEvents, WaitStarts(t, e)
  PROVE  QueueInv' /\ EW!AssertWait(t, e)
<1>1. /\ waitQueue[t] = NoBucket /\ waitEvent' = [waitEvent EXCEPT ![t] = e]
      /\ waitResult' = [waitResult EXCEPT ![t] = "none"]
  BY DEF WaitStarts, MarkWait
<1>2. waitEvent[t] = NoEvent
  BY <1>1 DEF Inv, WaitStateConsistent
<1>3. waitResult' \in [Threads -> WaitResults]
  BY <1>1 DEF QueueInv, QueueTypeOK, WaitResults
<1> QED
  BY <1>1, <1>2, <1>3, MarkWaitLinks DEF QueueInv, QueueTypeOK, EW!AssertWait

LEMMA EndKeepsQueues ==
  ASSUME Inv, QueueInv, NEW e \in AllEvents, NEW W, WaitsEnd(e, W)
  PROVE  QueueInv' /\ EW!End(W, "awakened")
<1>1. /\ Dequeue(BucketOf[e], W) /\ GoLocked(W, "awakened")
      /\ W \subseteq WaitersFor(e)
  BY DEF WaitsEnd, Wakeup
<1>2. \A t \in W : t \in Threads /\ "WAIT" \in state[t]
                                 /\ waitQueue[t] = BucketOf[e]
  BY <1>1, WaitersOf
<1>3. wq' \in [Buckets -> Seq(Threads)] /\ WaitQueuesConsistent'
  BY <1>1, <1>2, ConstantTypes, DequeueLinks
<1>4. waitResult' = [t \in Threads |-> IF t \in W THEN "awakened"
                                                  ELSE waitResult[t]]
  BY <1>1, <1>2 DEF GoLocked
<1>5. waitResult' \in [Threads -> WaitResults]
  BY <1>4 DEF QueueInv, QueueTypeOK, WaitResults
<1> QED
  BY <1>1, <1>3, <1>4, <1>5 DEF QueueInv, QueueTypeOK, Dequeue, EW!End

LEMMA ClearKeepsQueues ==
  ASSUME Inv, QueueInv, NEW t \in Threads, NEW result \in ClearResults,
         WaitCleared(t, result)
  PROVE  QueueInv' /\ EW!ClearWait(t)
<1>1. /\ waitQueue[t] # NoBucket /\ Dequeue(waitQueue[t], {t})
      /\ waitResult' = [waitResult EXCEPT ![t] = result]
  BY DEF WaitCleared
<1>2. waitQueue[t] \in Buckets /\ waitEvent[t] # NoEvent
  BY <1>1 DEF Inv, WaitTypeOK, WaitStateConsistent
<1>3. wq' \in [Buckets -> Seq(Threads)] /\ WaitQueuesConsistent'
  BY <1>1, <1>2, DequeueLinks
<1>4. waitResult' = [u \in Threads |-> IF u \in {t} THEN result
                                                    ELSE waitResult[u]]
  BY <1>1 DEF QueueInv, QueueTypeOK
<1>5. waitResult' \in [Threads -> WaitResults]
  BY <1>4 DEF QueueInv, QueueTypeOK, WaitResults
<1>6. EW!End({t}, result)
  BY <1>1, <1>4 DEF Dequeue, EW!End
<1>7. result \in WaitResults \ {"none", "awakened"}
  BY DEF WaitResults, ClearResults
<1> QED
  BY <1>2, <1>3, <1>5, <1>6, <1>7 DEF QueueInv, QueueTypeOK, EW!ClearWait

LEMMA QueueNext ==
  ASSUME Inv, QueueInv, EventStep
  PROVE  QueueInv' /\ [EW!Next]_(EW!vars)
<1>1. CASE WaitsAlone
  <2>1. QueueInv'
    BY <1>1 DEF WaitsAlone, QueueInv, QueueTypeOK, WaitQueuesConsistent
  <2> QED
    BY <1>1, <2>1 DEF WaitsAlone, EW!vars
<1>2. ASSUME NEW t \in Threads, NEW e \in AllEvents, WaitStarts(t, e)
      PROVE  QueueInv' /\ EW!Next
  BY <1>2, StartKeepsQueues DEF EW!Next
<1>3. ASSUME NEW e \in AllEvents, WaitsEnd(e, WaitersFor(e))
      PROVE  QueueInv' /\ [EW!Next]_(EW!vars)
  <2>1. QueueInv' /\ EW!End(EW!Waiting(e), "awakened")
    BY <1>3, EndKeepsQueues, WaitersOf
  <2>2. CASE EW!Waiting(e) # {}
    BY <2>1, <2>2 DEF EW!WakeupAll, EW!Next
  <2>3. CASE EW!Waiting(e) = {}
    BY <2>1, <2>3 DEF EW!End, EW!vars, QueueInv, QueueTypeOK, Inv, WaitTypeOK
  <2> QED
    BY <2>1, <2>2, <2>3
<1>4. ASSUME NEW e \in AllEvents, NEW t \in WaitersFor(e), WaitsEnd(e, {t})
      PROVE  QueueInv' /\ EW!Next
  <2>1. QueueInv' /\ EW!End({t}, "awakened") /\ t \in EW!Waiting(e)
    BY <1>4, EndKeepsQueues, WaitersOf
  <2> QED
    BY <2>1 DEF EW!WakeupOne, EW!Next
<1>5. ASSUME NEW t \in Threads, NEW result \in ClearResults,
             WaitCleared(t, result)
      PROVE  QueueInv' /\ EW!Next
  BY <1>5, ClearKeepsQueues DEF EW!Next
<1> QED
  BY <1>1, <1>2, <1>3, <1>4, <1>5 DEF EventStep, EndStep

LEMMA QueueInit == Init => QueueInv /\ OldInv /\ EW!Init
<1> SUFFICES ASSUME Init PROVE QueueInv /\ OldInv /\ EW!Init
  OBVIOUS
<1>1. QueueTypeOK
  BY DEF Init, QueueTypeOK, WaitResults
<1>2. WaitQueuesConsistent
  <2> SUFFICES ASSUME NEW b \in Buckets
               PROVE  /\ IsInjective(wq[b])
                      /\ ToSet(wq[b]) = {t \in Threads : waitQueue[t] = b}
    BY DEF WaitQueuesConsistent
  <2>1. wq[b] = << >> /\ \A t \in Threads : waitQueue[t] # b
    BY ConstantTypes DEF Init
  <2> QED
    BY <2>1 DEF IsInjective, ToSet
<1>3. OldInv
  BY DEF Init, OldInv, WakePhases
<1> QED
  BY <1>1, <1>2, <1>3 DEF QueueInv, Init, EW!Init

LEMMA QueueInvariance ==
  Spec => /\ [](Inv /\ QueueInv)
          /\ [][EW!Next]_(EW!vars)
<1> DEFINE All == /\ Inv /\ TimerInv /\ PlaceTypeOK /\ PlaceInv /\ OldInv
                  /\ QueueInv
<1>1. Init => All
  BY InvInit, TimerInvInit, PlaceInit, QueueInit
<1>2. All /\ [Next]_vars => All' /\ [EW!Next]_(EW!vars)
  <2> SUFFICES ASSUME All, [Next]_vars PROVE All' /\ [EW!Next]_(EW!vars)
    OBVIOUS
  <2>1. Inv' /\ TimerInv' /\ PlaceTypeOK' /\ PlaceInv' /\ OldInv'
    BY InvNext, TimerInvNext, PlaceNext, OldNext
  <2>2. EventStep
    BY EventNext DEF TimerInv, TimerTypeOK, QueueInv
  <2>3. QueueInv' /\ [EW!Next]_(EW!vars)
    BY <2>2, QueueNext
  <2> QED
    BY <2>1, <2>3
<1> QED
  BY <1>1, <1>2, PTL DEF Spec

\* The links of every wait queue hold exactly the threads that say they are on
\* it, each once: no wakeup, timeout, abort or clear_wait leaves a thread behind
\* on a queue, takes one off a queue it is not on, or links one twice.
THEOREM QueuesCorrect == Spec => []WaitQueuesConsistent
<1>1. QueueInv => WaitQueuesConsistent
  BY DEF QueueInv
<1> QED
  BY <1>1, QueueInvariance, PTL

\* The hash table, its locks, the two-stage block and the callers of clear_wait
\* implement the waits and wakeups of EventWait: a posted event ends the waits
\* for it and no other, whatever else hashes to its queue, and one that wakes
\* one thread wakes one that waits for it.
THEOREM EventWaitRefinement == Spec => EventWaitSpec
<1>1. Init => EW!Init
  BY QueueInit
<1> QED
  BY <1>1, QueueInvariance, PTL DEF Spec, EventWaitSpec, EW!Spec

------------------------------------------------------------------------------
(***************************************************************************)
(* The wakeups of thread_stop and thread_wait, without stack handoff       *)
(***************************************************************************)
\* Where a stopper holds the wake_lock of its target, and where it has marked
\* the target besides.
MarkedPCs == {"stopAssert", "waitAssert"}
LockPCs == {"stopMark", "waitMark"} \cup MarkedPCs

WakeTypeOK == /\ wakeActive \in [Threads -> BOOLEAN]
              /\ wakeLock \in [Threads -> Threads \cup {NoThread}]

\* No processor takes the handoff path of thread_invoke.
NoHandoff ==
  /\ cont = [p \in Cpus |-> FALSE]
  /\ \A p \in Cpus : phase[p] \notin {"handoff", "handoffWake", "handoffDone"}

LockHeld ==
  \A s \in Threads :
    /\ pc[s] \in LockPCs => wakeLock[target[s]] = s
    /\ pc[s] \in MarkedPCs => wakeActive[target[s]]

SleepersCovered ==
  \A s, t \in Threads :
    waitEvent[s] = WakeEvent[t] => wakeActive[t] \/ WakeInFlight(t)

WakeInv == WakeTypeOK /\ LockHeld /\ SleepersCovered

\* No thread starts to wait for a wake_active.
NoNewSleeper ==
  \A s, t \in Threads : waitEvent'[s] = WakeEvent[t] => waitEvent[s] = WakeEvent[t]

\* No thread gets to hold a wake_lock.
NoNewLock ==
  \A s \in Threads :
    pc'[s] \in LockPCs => pc[s] = pc'[s] /\ target'[s] = target[s]

\* A wakeup that is under way goes on, or has woken everybody.
WakeGoesOn ==
  \A t \in Threads :
    WakeInFlight(t) => \/ WakeInFlight(t)'
                       \/ \A s \in Threads : waitEvent'[s] # WakeEvent[t]

LEMMA MarkedLocks == MarkedPCs \subseteq LockPCs
BY DEF LockPCs

LEMMA WakeFrame ==
  ASSUME WakeInv, UNCHANGED wakeVars, NoNewSleeper, NoNewLock, WakeGoesOn
  PROVE  WakeInv'
<1>1. UNCHANGED <<wakeActive, wakeLock>>
  BY DEF wakeVars
<1>2. WakeTypeOK'
  BY <1>1 DEF WakeInv, WakeTypeOK
<1>3. LockHeld'
  BY <1>1, MarkedLocks DEF WakeInv, LockHeld, NoNewLock
<1>4. SleepersCovered'
  <2> SUFFICES ASSUME NEW s \in Threads, NEW t \in Threads,
                      waitEvent'[s] = WakeEvent[t]
               PROVE  wakeActive'[t] \/ WakeInFlight(t)'
    BY DEF SleepersCovered
  <2>1. wakeActive[t] \/ WakeInFlight(t)
    BY DEF NoNewSleeper, WakeInv, SleepersCovered
  <2> QED
    BY <1>1, <2>1 DEF WakeGoesOn
<1> QED
  BY <1>2, <1>3, <1>4 DEF WakeInv

\* Only assert_wait(&thread->wake_active) adds a sleeper.
LEMMA EndedWaits ==
  ASSUME Inv, EndStep
  PROVE  NoNewSleeper
<1>1. \A s \in Threads : waitEvent'[s] \in {waitEvent[s], NoEvent}
  BY DEF EndStep, WaitsAlone, WaitsEnd, Wakeup, WaitCleared, Dequeue
<1>2. \A t \in Threads : WakeEvent[t] # NoEvent
  BY ConstantTypes
<1> QED
  BY <1>1, <1>2 DEF NoNewSleeper

\* Wakeups under way, and threads that hold a wake_lock, stay as they are; a
\* thread that moves does not come to hold one.
CpuWakesKept ==
  \A p \in Cpus : phase[p] \in {"wake", "handoffWake"}
                    => phase'[p] = phase[p] /\ old'[p] = old[p]

ThreadsKept ==
  \A s \in Threads : \/ pc'[s] = pc[s] /\ target'[s] = target[s]
                     \/ pc[s] # "unstopWake" /\ pc'[s] \notin LockPCs

LEMMA KeptThreads == ThreadsKept => NoNewLock
BY DEF ThreadsKept, NoNewLock

LEMMA KeptWakes ==
  ASSUME CpuWakesKept,
         \A s \in Threads : pc[s] = "unstopWake" => /\ pc'[s] = pc[s]
                                                    /\ target'[s] = target[s]
  PROVE  WakeGoesOn /\ \A t \in Threads : WakeInFlight(t) => WakeInFlight(t)'
<1>1. ASSUME NEW t \in Threads, WakeInFlight(t) PROVE WakeInFlight(t)'
  BY <1>1 DEF CpuWakesKept, WakeInFlight
<1> QED
  BY <1>1 DEF WakeGoesOn

LEMMA KeptInv ==
  ASSUME WakeInv, UNCHANGED wakeVars, NoNewSleeper, CpuWakesKept, ThreadsKept
  PROVE  WakeInv'
<1>1. WakeGoesOn
  BY KeptWakes DEF ThreadsKept
<1> QED
  BY <1>1, KeptThreads, WakeFrame

\* A wakeup of wake_active reaches everybody who sleeps on it.
LEMMA AllWoken ==
  ASSUME Inv, QueueInv, NEW t \in Threads,
         Wakeup(WakeEvent[t], WaitersFor(WakeEvent[t]))
  PROVE  \A s \in Threads : waitEvent'[s] # WakeEvent[t]
<1>1. WakeEvent[t] \in AllEvents /\ WakeEvent[t] # NoEvent
  BY ConstantTypes
<1>2. WaitersFor(WakeEvent[t]) = {s \in Threads : waitEvent[s] = WakeEvent[t]}
  BY <1>1, WaitersOf DEF EW!Waiting
<1>3. \A s \in Threads : waitEvent'[s] = IF s \in WaitersFor(WakeEvent[t])
                                         THEN NoEvent ELSE waitEvent[s]
  BY DEF Wakeup, Dequeue
<1> QED
  BY <1>1, <1>2, <1>3

LEMMA CpuWakeSteps ==
  ASSUME Inv, QueueInv, PlaceTypeOK, OldInv, WakeInv, NoNewSleeper,
         NEW p \in Cpus,
         \/ IdleRun(p) \/ Reselect(p) \/ InvokeSame(p) \/ InvokeMiss(p)
         \/ InvokeSwitch(p) \/ DispatchWake(p)
  PROVE  WakeInv'
<1>1. UNCHANGED wakeVars /\ UNCHANGED progVars
  BY DEF IdleRun, Reselect, InvokeSame, InvokeMiss, InvokeSwitch, DispatchWake
<1>2. UNCHANGED <<pc, target>> /\ ThreadsKept
  BY <1>1 DEF progVars, ThreadsKept
<1>3. CASE \/ IdleRun(p) \/ Reselect(p) \/ InvokeSame(p) \/ InvokeMiss(p)
           \/ InvokeSwitch(p)
  <2>1. phase[p] \notin {"wake", "handoffWake"}
    BY <1>3 DEF IdleRun, Reselect, InvokeSame, InvokeMiss, InvokeSwitch
  <2>2. \A q \in Cpus \ {p} : phase'[q] = phase[q] /\ old'[q] = old[q]
    BY <1>3 DEF IdleRun, Reselect, InvokeSame, InvokeMiss, InvokeSwitch,
                EndBlock, PlaceTypeOK
  <2>3. CpuWakesKept
    BY <2>1, <2>2 DEF CpuWakesKept
  <2> QED
    BY <1>1, <1>2, <2>3, KeptInv
<1>4. CASE DispatchWake(p)
  <2>1. /\ old[p] \in Threads
        /\ Wakeup(WakeEvent[old[p]], WaitersFor(WakeEvent[old[p]]))
    BY <1>4 DEF DispatchWake, OldInv, WakePhases
  <2>2. \A q \in Cpus \ {p} : phase'[q] = phase[q] /\ old'[q] = old[q]
    BY <1>4 DEF DispatchWake, EndBlock, PlaceTypeOK
  <2>3. \A s \in Threads : waitEvent'[s] # WakeEvent[old[p]]
    BY <2>1, AllWoken
  <2>4. \A t \in Threads : WakeInFlight(t) => WakeInFlight(t)' \/ t = old[p]
    BY <1>2, <2>2 DEF WakeInFlight
  <2>5. WakeGoesOn
    BY <2>3, <2>4 DEF WakeGoesOn
  <2> QED
    BY <1>1, <1>2, <2>5, KeptThreads, WakeFrame
<1> QED
  BY <1>3, <1>4

\* thread_dispatch clears wake_active only while nobody is between marking it
\* and sleeping on it, and if it was set it goes on to the wakeup.
LEMMA DispatchWakes ==
  ASSUME Inv, PlaceTypeOK, WakeInv, NoNewSleeper, NEW p \in Cpus,
         ThreadDispatch(p)
  PROVE  WakeInv'
<1>1. /\ phase[p] = "dispatch" /\ wakeLock' = wakeLock
      /\ UNCHANGED <<pc, target>>
  BY DEF ThreadDispatch, progVars
<1>2. \A q \in Cpus \ {p} : phase'[q] = phase[q] /\ old'[q] = old[q]
  BY DEF ThreadDispatch, Dispatched, EndBlock, PlaceTypeOK
<1>3. CpuWakesKept /\ ThreadsKept
  BY <1>1, <1>2 DEF CpuWakesKept, ThreadsKept
<1>4. CASE wakeActive' = wakeActive
  BY <1>1, <1>3, <1>4, KeptInv DEF wakeVars
<1>5. CASE wakeActive' # wakeActive
  <2>1. /\ old[p] \in Threads /\ wakeLock[old[p]] = NoThread
        /\ "WAIT" \in state[old[p]]
        /\ wakeActive' = [wakeActive EXCEPT ![old[p]] = FALSE]
        /\ wakeActive[old[p]] => /\ phase' = [phase EXCEPT ![p] = "wake"]
                                 /\ old' = old
    BY <1>5 DEF ThreadDispatch, Dispatched, PlaceTypeOK
  <2>2. WakeTypeOK'
    BY <1>1, <2>1 DEF WakeInv, WakeTypeOK
  <2>3. \A t \in Threads : t # old[p] => wakeActive'[t] = wakeActive[t]
    BY <2>1 DEF WakeInv, WakeTypeOK
  <2>4. LockHeld'
    <3>1. \A s \in Threads : pc[s] \in LockPCs => target[s] \in Threads
      BY DEF LockPCs, MarkedPCs, Inv, StopTargetOK, StopPCs
    <3>2. \A s \in Threads : pc[s] \in LockPCs => target[s] # old[p]
      BY <2>1, ConstantTypes DEF WakeInv, LockHeld
    <3> QED
      BY <1>1, <2>3, <3>1, <3>2, MarkedLocks DEF WakeInv, LockHeld
  <2>5. SleepersCovered'
    <3> SUFFICES ASSUME NEW s \in Threads, NEW t \in Threads,
                        waitEvent'[s] = WakeEvent[t]
                 PROVE  wakeActive'[t] \/ WakeInFlight(t)'
      BY DEF SleepersCovered
    <3>1. wakeActive[t] \/ WakeInFlight(t)
      BY DEF NoNewSleeper, WakeInv, SleepersCovered
    <3>2. WakeInFlight(t) => WakeInFlight(t)'
      BY <1>1, <1>3, KeptWakes
    <3>3. CASE t = old[p] /\ wakeActive[t]
      <4>1. phase'[p] = "wake" /\ old'[p] = t
        BY <2>1, <3>3 DEF PlaceTypeOK
      <4> QED
        BY <4>1 DEF WakeInFlight
    <3> QED
      BY <2>3, <3>1, <3>2, <3>3
  <2> QED
    BY <2>2, <2>4, <2>5 DEF WakeInv
<1> QED
  BY <1>4, <1>5

\* A stopper that takes the wake_lock of its target, which nobody holds.
LEMMA LockSteps ==
  ASSUME Inv, WakeInv, NoNewSleeper, NEW s \in Threads,
         ThreadStop(s) \/ ThreadWait(s)
  PROVE  WakeInv'
<1>1. /\ pc[s] \in {"stop", "wait"} /\ wakeLock[target[s]] = NoThread
      /\ UNCHANGED <<target, wakeActive, phase, old>>
      /\ \/ /\ pc' = [pc EXCEPT ![s] = "stopMark"]
            /\ wakeLock' = [wakeLock EXCEPT ![target[s]] = s]
         \/ /\ pc' = [pc EXCEPT ![s] = "waitMark"]
            /\ wakeLock' = [wakeLock EXCEPT ![target[s]] = s]
         \/ pc' = [pc EXCEPT ![s] = "wait"] /\ wakeLock' = wakeLock
         \/ pc' = [pc EXCEPT ![s] = "stopped"] /\ wakeLock' = wakeLock
  BY DEF ThreadStop, ThreadWait, GoTo, cpuVars
<1>2. \A u \in Threads \ {s} : pc'[u] = pc[u]
  BY <1>1 DEF Inv, WaitTypeOK
<1>3. CpuWakesKept
  BY <1>1 DEF CpuWakesKept
<1>4. CASE wakeLock' = wakeLock
  <2>1. pc'[s] \in {"wait", "stopped", "stopMark", "waitMark"}
    BY <1>1 DEF Inv, WaitTypeOK
  <2>2. CASE pc'[s] \in {"wait", "stopped"}
    <3>1. ThreadsKept
      BY <1>1, <1>2, <2>2 DEF ThreadsKept, LockPCs, MarkedPCs
    <3> QED
      BY <1>1, <1>3, <1>4, <3>1, KeptInv DEF wakeVars
  <2>3. CASE pc'[s] \in {"stopMark", "waitMark"}
    <3>1. wakeLock' = [wakeLock EXCEPT ![target[s]] = s]
      BY <1>1, <2>3 DEF Inv, WaitTypeOK
    <3>2. target[s] \in Threads
      BY <1>1 DEF Inv, StopTargetOK, StopPCs
    <3>3. wakeLock'[target[s]] = s
      BY <3>1, <3>2 DEF WakeInv, WakeTypeOK
    <3> QED
      BY <1>1, <1>4, <3>3, ConstantTypes
  <2> QED
    BY <2>1, <2>2, <2>3
<1>5. CASE wakeLock' # wakeLock
  <2>1. /\ pc'[s] \in {"stopMark", "waitMark"}
        /\ wakeLock' = [wakeLock EXCEPT ![target[s]] = s]
    BY <1>1, <1>5 DEF Inv, WaitTypeOK
  <2>2. target[s] \in Threads
    BY <1>1 DEF Inv, StopTargetOK, StopPCs
  <2>3. /\ wakeLock'[target[s]] = s
        /\ \A t \in Threads \ {target[s]} : wakeLock'[t] = wakeLock[t]
    BY <2>1, <2>2 DEF WakeInv, WakeTypeOK
  <2>4. WakeTypeOK'
    BY <1>1, <2>1 DEF WakeInv, WakeTypeOK
  <2>5. LockHeld'
    <3>1. \A u \in Threads \ {s} :
            pc[u] \in LockPCs => target[u] \in Threads \ {target[s]}
      <4>1. \A u \in Threads : pc[u] \in LockPCs => target[u] \in Threads
        BY DEF LockPCs, MarkedPCs, Inv, StopTargetOK, StopPCs
      <4>2. \A u \in Threads : pc[u] \in LockPCs => target[u] # target[s]
        BY <1>1, ConstantTypes DEF WakeInv, LockHeld
      <4> QED
        BY <4>1, <4>2
    <3>2. pc'[s] \notin MarkedPCs
      BY <2>1 DEF MarkedPCs
    <3> QED
      BY <1>1, <1>2, <2>3, <3>1, <3>2, MarkedLocks DEF WakeInv, LockHeld
  <2>6. SleepersCovered'
    <3>1. \A t \in Threads : WakeInFlight(t) => WakeInFlight(t)'
      BY <1>1, <1>2, <1>3, KeptWakes
    <3> QED
      BY <1>1, <3>1 DEF NoNewSleeper, WakeInv, SleepersCovered
  <2> QED
    BY <2>4, <2>5, <2>6 DEF WakeInv
<1> QED
  BY <1>4, <1>5

\* thread->wake_active = TRUE, with the wake_lock held.
LEMMA MarkSteps ==
  ASSUME Inv, WakeInv, NoNewSleeper, NEW s \in Threads, MarkWakeActive(s)
  PROVE  WakeInv'
<1>1. /\ pc[s] \in {"stopMark", "waitMark"}
      /\ UNCHANGED <<target, wakeLock, phase, old>>
      /\ wakeActive' = [wakeActive EXCEPT ![target[s]] = TRUE]
      /\ \E to : pc' = [pc EXCEPT ![s] = to]
  BY DEF MarkWakeActive, GoTo, cpuVars
<1>2. \A u \in Threads \ {s} : pc'[u] = pc[u]
  BY <1>1 DEF Inv, WaitTypeOK
<1>3. pc[s] \in LockPCs /\ target[s] \in Threads
  BY <1>1 DEF LockPCs, Inv, StopTargetOK, StopPCs
<1>4. /\ WakeTypeOK' /\ wakeActive'[target[s]]
      /\ \A t \in Threads : wakeActive[t] => wakeActive'[t]
  BY <1>1, <1>3 DEF WakeInv, WakeTypeOK
<1>5. LockHeld'
  <2>1. \A u \in Threads : pc[u] \in LockPCs => target[u] \in Threads
    BY DEF LockPCs, MarkedPCs, Inv, StopTargetOK, StopPCs
  <2>2. wakeLock[target[s]] = s
    BY <1>3 DEF WakeInv, LockHeld
  <2> QED
    BY <1>1, <1>2, <1>4, <2>1, <2>2, MarkedLocks DEF WakeInv, LockHeld
<1>6. SleepersCovered'
  <2>1. CpuWakesKept
    BY <1>1 DEF CpuWakesKept
  <2>2. \A t \in Threads : WakeInFlight(t) => WakeInFlight(t)'
    BY <1>1, <1>2, <2>1, KeptWakes
  <2> QED
    BY <1>4, <2>2 DEF NoNewSleeper, WakeInv, SleepersCovered
<1> QED
  BY <1>4, <1>5, <1>6 DEF WakeInv

\* assert_wait(&thread->wake_active), and the wake_lock is dropped.
LEMMA SleepSteps ==
  ASSUME Inv, WakeInv, NEW s \in Threads, AssertWakeActive(s)
  PROVE  WakeInv'
<1>1. /\ pc[s] \in {"stopAssert", "waitAssert"}
      /\ UNCHANGED <<target, wakeActive, phase, old>>
      /\ wakeLock' = [wakeLock EXCEPT ![target[s]] = NoThread]
      /\ waitEvent' = [waitEvent EXCEPT ![s] = WakeEvent[target[s]]]
      /\ \/ pc' = [pc EXCEPT ![s] = "stopSleep"]
         \/ pc' = [pc EXCEPT ![s] = "waitSleep"]
  BY DEF AssertWakeActive, MarkWait, GoTo, cpuVars
<1>2. \A u \in Threads \ {s} : pc'[u] = pc[u]
  BY <1>1 DEF Inv, WaitTypeOK
<1>3. /\ pc[s] \in MarkedPCs /\ target[s] \in Threads
      /\ pc'[s] \in {"stopSleep", "waitSleep"}
  BY <1>1 DEF MarkedPCs, Inv, StopTargetOK, StopPCs, WaitTypeOK
<1>4. wakeLock[target[s]] = s /\ wakeActive[target[s]]
  BY <1>3, MarkedLocks DEF WakeInv, LockHeld
<1>5. /\ WakeTypeOK'
      /\ \A t \in Threads \ {target[s]} : wakeLock'[t] = wakeLock[t]
  BY <1>1, <1>3 DEF WakeInv, WakeTypeOK
<1>6. LockHeld'
  <2>1. \A u \in Threads : pc[u] \in LockPCs => target[u] \in Threads
    BY DEF LockPCs, MarkedPCs, Inv, StopTargetOK, StopPCs
  <2>2. \A u \in Threads \ {s} : pc[u] \in LockPCs => target[u] # target[s]
    BY <1>4 DEF WakeInv, LockHeld
  <2>3. pc'[s] \notin LockPCs
    BY <1>3 DEF LockPCs, MarkedPCs
  <2> QED
    BY <1>1, <1>2, <1>5, <2>1, <2>2, <2>3, MarkedLocks DEF WakeInv, LockHeld
<1>7. SleepersCovered'
  <2> SUFFICES ASSUME NEW u \in Threads, NEW t \in Threads,
                      waitEvent'[u] = WakeEvent[t]
               PROVE  wakeActive'[t] \/ WakeInFlight(t)'
    BY DEF SleepersCovered
  <2>1. CpuWakesKept
    BY <1>1 DEF CpuWakesKept
  <2>2. \A v \in Threads : pc[v] = "unstopWake" => pc'[v] = pc[v]
    BY <1>1, <1>2
  <2>3. WakeInFlight(t) => WakeInFlight(t)'
    BY <1>1, <2>1, <2>2, KeptWakes
  <2>4. CASE u = s
    <3>1. WakeEvent[t] = WakeEvent[target[s]]
      BY <1>1, <2>4 DEF Inv, WaitTypeOK
    <3>2. t = target[s]
      BY <1>3, <3>1, WakeEventAssumption
    <3> QED
      BY <1>1, <1>4, <3>2
  <2>5. CASE u # s
    <3>1. waitEvent[u] = WakeEvent[t]
      BY <1>1, <2>5 DEF Inv, WaitTypeOK
    <3> QED
      BY <1>1, <2>3, <3>1 DEF WakeInv, SleepersCovered
  <2> QED
    BY <2>4, <2>5
<1> QED
  BY <1>5, <1>6, <1>7 DEF WakeInv

\* thread_unstop clears wake_active only if it goes on to the wakeup.
LEMMA UnstopSteps ==
  ASSUME Inv, WakeInv, NoNewSleeper, NEW s \in Threads, ThreadUnstop(s)
  PROVE  WakeInv'
<1> DEFINE t == target[s]
<1>1. /\ pc[s] \in {"stopped", "unstop"} /\ wakeLock[t] = NoThread
      /\ UNCHANGED <<wakeLock, phase, old>>
      /\ \E to \in {"run", "unstopWake"} : pc' = [pc EXCEPT ![s] = to]
      /\ \E who : target' = [target EXCEPT ![s] = who]
  BY DEF ThreadUnstop, cpuVars
<1>2. /\ \A u \in Threads \ {s} : pc'[u] = pc[u] /\ target'[u] = target[u]
      /\ pc'[s] \in {"run", "unstopWake"}
  BY <1>1 DEF Inv, WaitTypeOK
<1>3. CpuWakesKept
  BY <1>1 DEF CpuWakesKept
<1>4. ThreadsKept
  BY <1>1, <1>2 DEF ThreadsKept, LockPCs, MarkedPCs
<1>5. CASE wakeActive' = wakeActive
  BY <1>1, <1>3, <1>4, <1>5, KeptInv DEF wakeVars
<1>6. CASE wakeActive' # wakeActive
  <2>1. t \in Threads
    BY <1>1 DEF Inv, StopTargetOK, StopPCs
  <2>2. /\ wakeActive' = [wakeActive EXCEPT
               ![t] = @ /\ ~("SUSP" \in state[t] /\ wakeActive[t])]
        /\ "SUSP" \in state[t] /\ wakeActive[t]
             => /\ pc' = [pc EXCEPT ![s] = "unstopWake"]
                /\ target' = [target EXCEPT ![s] = target[s]]
    BY <1>6 DEF ThreadUnstop
  <2>3. /\ WakeTypeOK'
        /\ \A u \in Threads \ {t} : wakeActive'[u] = wakeActive[u]
    BY <1>1, <2>1, <2>2 DEF WakeInv, WakeTypeOK
  <2>4. wakeActive[t] => wakeActive'[t] \/ (/\ pc'[s] = "unstopWake"
                                            /\ target'[s] = t)
    <3>1. CASE "SUSP" \in state[t] /\ wakeActive[t]
      BY <2>2, <3>1 DEF Inv, WaitTypeOK
    <3>2. CASE ~("SUSP" \in state[t] /\ wakeActive[t])
      <4>1. wakeActive'[t] = wakeActive[t]
        BY <2>1, <2>2, <3>2 DEF WakeInv, WakeTypeOK
      <4> QED
        BY <4>1
    <3> QED
      BY <3>1, <3>2
  <2> HIDE DEF t
  <2>5. LockHeld'
    <3>1. \A u \in Threads : pc[u] \in LockPCs => target[u] \in Threads
      BY DEF LockPCs, MarkedPCs, Inv, StopTargetOK, StopPCs
    <3>2. \A u \in Threads : pc[u] \in LockPCs => target[u] # t
      BY <1>1, ConstantTypes DEF WakeInv, LockHeld
    <3>3. pc'[s] \notin LockPCs
      BY <1>2 DEF LockPCs, MarkedPCs
    <3> QED
      BY <1>1, <1>2, <2>3, <3>1, <3>2, <3>3, MarkedLocks DEF WakeInv, LockHeld
  <2>6. SleepersCovered'
    <3> SUFFICES ASSUME NEW u \in Threads, NEW v \in Threads,
                        waitEvent'[u] = WakeEvent[v]
                 PROVE  wakeActive'[v] \/ WakeInFlight(v)'
      BY DEF SleepersCovered
    <3>1. wakeActive[v] \/ WakeInFlight(v)
      BY DEF NoNewSleeper, WakeInv, SleepersCovered
    <3>2. \A w \in Threads : pc[w] = "unstopWake" => /\ pc'[w] = pc[w]
                                                     /\ target'[w] = target[w]
      BY <1>1, <1>2
    <3>3. WakeInFlight(v) => WakeInFlight(v)'
      BY <1>3, <3>2, KeptWakes
    <3>4. CASE v = t /\ wakeActive[t]
      BY <2>4, <3>4 DEF WakeInFlight
    <3>5. CASE v # t
      BY <2>3, <3>1, <3>3, <3>5
    <3> QED
      BY <3>1, <3>3, <3>4, <3>5
  <2> QED
    BY <2>3, <2>5, <2>6 DEF WakeInv
<1> QED
  BY <1>5, <1>6

\* A thread that moves outside thread_stop's critical section.
LEMMA MoveSteps ==
  ASSUME Inv, WakeInv, NoNewSleeper, NEW s \in Threads,
         UNCHANGED <<wakeVars, phase, old>>, pc[s] # "unstopWake",
         NEW to, to \notin LockPCs, pc' = [pc EXCEPT ![s] = to],
         \A u \in Threads \ {s} : target'[u] = target[u]
  PROVE  WakeInv'
<1>1. ThreadsKept
  BY DEF ThreadsKept, Inv, WaitTypeOK
<1>2. CpuWakesKept
  BY DEF CpuWakesKept
<1> QED
  BY <1>1, <1>2, KeptInv

\* A step that moves no thread and no processor.
LEMMA StillSteps ==
  ASSUME WakeInv, NoNewSleeper, UNCHANGED <<wakeVars, phase, old, pc, target>>
  PROVE  WakeInv'
<1>1. ThreadsKept /\ CpuWakesKept
  BY DEF ThreadsKept, CpuWakesKept
<1> QED
  BY <1>1, KeptInv

LEMMA AssertWaitWakes ==
  ASSUME Inv, WakeInv, NEW t \in Threads, AssertWait(t)
  PROVE  WakeInv'
<1>1. PICK e \in Events : waitEvent' = [waitEvent EXCEPT ![t] = e]
  BY DEF AssertWait, MarkWait
<1>2. NoNewSleeper
  BY <1>1, WakeEventAssumption DEF NoNewSleeper, Inv, WaitTypeOK
<1>3. /\ UNCHANGED <<wakeVars, phase, old, target>>
      /\ pc[t] = "run" /\ pc' = [pc EXCEPT ![t] = "asserted"]
      /\ "asserted" \notin LockPCs
  BY DEF AssertWait, GoTo, cpuVars, LockPCs, MarkedPCs
<1> QED
  BY <1>2, <1>3, MoveSteps

LEMMA UnstopWakes ==
  ASSUME Inv, QueueInv, WakeInv, NoNewSleeper, NEW s \in Threads, UnstopWake(s)
  PROVE  WakeInv'
<1>1. /\ pc[s] = "unstopWake" /\ UNCHANGED <<wakeVars, phase, old>>
      /\ pc' = [pc EXCEPT ![s] = "run"]
      /\ target' = [target EXCEPT ![s] = NoThread]
      /\ Wakeup(WakeEvent[target[s]], WaitersFor(WakeEvent[target[s]]))
  BY DEF UnstopWake, GoTo, cpuVars
<1>2. target[s] \in Threads
  BY <1>1 DEF Inv, StopTargetOK, StopPCs
<1>3. /\ \A u \in Threads \ {s} : pc'[u] = pc[u] /\ target'[u] = target[u]
      /\ pc'[s] = "run"
  BY <1>1 DEF Inv, WaitTypeOK
<1>4. \A u \in Threads : waitEvent'[u] # WakeEvent[target[s]]
  BY <1>1, <1>2, AllWoken
<1>5. \A t \in Threads : WakeInFlight(t) => WakeInFlight(t)' \/ t = target[s]
  BY <1>1, <1>3 DEF WakeInFlight
<1>6. WakeGoesOn
  BY <1>4, <1>5 DEF WakeGoesOn
<1>7. NoNewLock
  BY <1>3 DEF NoNewLock, LockPCs, MarkedPCs
<1> QED
  BY <1>1, <1>6, <1>7, WakeFrame

LEMMA ThreadWakes ==
  ASSUME Inv, QueueInv, WakeInv, NoNewSleeper, NEW t \in Threads,
         \/ ThreadSetTimer(t) \/ ThreadCancelTimer(t) \/ ThreadStopWait(t)
         \/ AfterSleep(t) \/ SpecialHandler(t) \/ ThreadDoSwapin(t)
         \/ DelayedCallInterrupt(t) \/ UnstopWake(t) \/ ThreadUnstop(t)
         \/ ThreadStop(t) \/ ThreadWait(t) \/ MarkWakeActive(t)
  PROVE  WakeInv'
<1>1. CASE ThreadSetTimer(t) \/ ThreadCancelTimer(t) \/ ThreadStopWait(t)
  <2>1. /\ UNCHANGED <<wakeVars, phase, old>> /\ pc[t] # "unstopWake"
        /\ \/ pc' = [pc EXCEPT ![t] = "armed"]
           \/ pc' = [pc EXCEPT ![t] = "run"]
           \/ pc' = [pc EXCEPT ![t] = "stop"]
    BY <1>1 DEF ThreadSetTimer, ThreadCancelTimer, ThreadStopWait, GoTo, cpuVars
  <2>2. \A u \in Threads \ {t} : target'[u] = target[u]
    BY <1>1 DEF ThreadSetTimer, ThreadCancelTimer, ThreadStopWait, Inv,
                WaitTypeOK
  <2>3. "armed" \notin LockPCs /\ "run" \notin LockPCs /\ "stop" \notin LockPCs
    BY DEF LockPCs, MarkedPCs
  <2> QED
    BY <2>1, <2>2, <2>3, MoveSteps
<1>2. CASE AfterSleep(t)
  <2>1. /\ UNCHANGED <<wakeVars, phase, old>> /\ pc[t] # "unstopWake"
        /\ \/ pc' = [pc EXCEPT ![t] = "stop"]
           \/ pc' = [pc EXCEPT ![t] = "run"]
           \/ pc' = [pc EXCEPT ![t] = "wait"]
           \/ pc' = [pc EXCEPT ![t] = "unstop"]
    BY <1>2 DEF AfterSleep, GoTo, cpuVars
  <2>2. \A u \in Threads \ {t} : target'[u] = target[u]
    BY <1>2 DEF AfterSleep, Inv, WaitTypeOK
  <2>3. {"stop", "run", "wait", "unstop"} \cap LockPCs = {}
    BY DEF LockPCs, MarkedPCs
  <2> QED
    BY <2>1, <2>2, <2>3, MoveSteps
<1>3. CASE SpecialHandler(t) \/ ThreadDoSwapin(t) \/ DelayedCallInterrupt(t)
  BY <1>3, StillSteps DEF SpecialHandler, ThreadDoSwapin, DelayedCallInterrupt,
     progVars, cpuVars
<1>4. CASE \/ UnstopWake(t) \/ ThreadUnstop(t) \/ ThreadStop(t)
           \/ ThreadWait(t) \/ MarkWakeActive(t)
  BY <1>4, UnstopWakes, UnstopSteps, LockSteps, MarkSteps
<1> QED
  BY <1>1, <1>2, <1>3, <1>4

LEMMA BlockWakes ==
  ASSUME Inv, PlaceTypeOK, WakeInv, NoNewSleeper, NEW p \in Cpus,
         NEW t \in Threads, ThreadBlock(p, t)
  PROVE  WakeInv'
<1>1. /\ phase[p] = "run" /\ UNCHANGED <<wakeVars, old, target>>
      /\ phase' = [phase EXCEPT ![p] = "selected"]
      /\ pc[t] \in {"asserted", "armed", "run", "stopSleep", "waitSleep"}
      /\ pc' = [pc EXCEPT ![t] = AfterBlock[pc[t]]]
  BY DEF ThreadBlock, AfterBlock
<1>2. AfterBlock[pc[t]] \in {"woken", "run", "stopWoken", "waitWoken"}
  BY <1>1 DEF AfterBlock
<1>3. \A u \in Threads \ {t} : pc'[u] = pc[u]
  BY <1>1 DEF Inv, WaitTypeOK
<1>4. pc'[t] \in {"woken", "run", "stopWoken", "waitWoken"}
  BY <1>1, <1>2 DEF Inv, WaitTypeOK
<1>5. ThreadsKept
  BY <1>1, <1>3, <1>4 DEF ThreadsKept, LockPCs, MarkedPCs
<1>6. CpuWakesKept
  BY <1>1 DEF CpuWakesKept, PlaceTypeOK
<1> QED
  BY <1>1, <1>5, <1>6, KeptInv

LEMMA CallerWakes ==
  ASSUME WakeInv, NoNewSleeper, NEW c, NEW t, NEW e,
         \/ CallerStep(c) \/ CallThreadDequeue(c, t) \/ ClearWait(c, t)
         \/ ActAbort(c, t) \/ ThreadWakeup(e) \/ ThreadWakeupOne(e)
  PROVE  WakeInv'
<1>1. UNCHANGED <<wakeVars, cpuVars, progVars>>
  BY DEF CallerStep, CallThreadDequeue, ClearWait, ActAbort, ThreadTimerExpire,
     WaitQueueRemove, ActAbortCheck, ActAbortClear, ThreadWakeup,
     ThreadWakeupOne
<1>2. UNCHANGED <<wakeVars, phase, old, pc, target>>
  BY <1>1 DEF cpuVars, progVars
<1> QED
  BY <1>2, StillSteps

LEMMA HandoffFree ==
  ASSUME NoHandoff, NEW p \in Cpus
  PROVE  ~InvokeHandoff(p) /\ ~HandoffDispatch(p) /\ ~HandoffWake(p)
                           /\ ~HandoffDone(p)
BY DEF NoHandoff, InvokeHandoff, HandsOff, HandoffDispatch, HandoffWake,
       HandoffDone

LEMMA WakeNext ==
  ASSUME Inv, QueueInv, PlaceTypeOK, PlaceInv, OldInv, CallerTypeOK, WakeInv,
         NoHandoff, [Next]_vars
  PROVE  WakeInv'
<1>1. EndStep \/ \E t \in Threads : AssertWait(t) \/ AssertWakeActive(t)
  BY EndNext DEF QueueInv
<1>2. CASE \E t \in Threads : AssertWait(t) \/ AssertWakeActive(t)
  BY <1>2, AssertWaitWakes, SleepSteps
<1>3. CASE EndStep
  <2>1. NoNewSleeper
    BY <1>3, EndedWaits
  <2>2. CASE UNCHANGED vars
    BY <2>1, <2>2, StillSteps DEF vars, cpuVars, progVars
  <2>3. ASSUME NEW p \in Cpus, CpuStep(p) \/ IdleRun(p) PROVE WakeInv'
    BY <2>1, <2>3, CpuWakeSteps, DispatchWakes, HandoffFree DEF CpuStep
  <2>4. ASSUME NEW t \in Threads,
               \/ ThreadStopWait(t) \/ ThreadStep(t) \/ SpecialHandler(t)
               \/ ThreadDoSwapin(t) \/ DelayedCallInterrupt(t)
        PROVE  WakeInv'
    BY <2>1, <2>4, ThreadWakes, SleepSteps DEF ThreadStep
  <2>5. ASSUME NEW t \in Threads, AssertWait(t) PROVE WakeInv'
    BY <2>5, AssertWaitWakes
  <2>6. ASSUME NEW p \in Cpus, NEW t \in Threads, ThreadBlock(p, t)
        PROVE  WakeInv'
    BY <2>1, <2>6, BlockWakes
  <2>7. ASSUME NEW c, NEW t, NEW e,
               \/ CallerStep(c) \/ CallThreadDequeue(c, t) \/ ClearWait(c, t)
               \/ ActAbort(c, t) \/ ThreadWakeup(e) \/ ThreadWakeupOne(e)
        PROVE  WakeInv'
    BY <2>1, <2>7, CallerWakes
  <2> QED
    BY <2>2, <2>3, <2>4, <2>5, <2>6, <2>7 DEF Next
<1> QED
  BY <1>1, <1>2, <1>3

LEMMA HandoffNext ==
  ASSUME Continuations = {FALSE}, PlaceTypeOK, NoHandoff, [Next]_vars
  PROVE  NoHandoff'
<1> DEFINE Handing == {"handoff", "handoffWake", "handoffDone"}
<1>1. ASSUME UNCHANGED <<cont, phase>> PROVE NoHandoff'
  BY <1>1 DEF NoHandoff
<1>2. ASSUME NEW p \in Cpus, NEW to, to \notin Handing,
             phase' = [phase EXCEPT ![p] = to],
             cont' = cont \/ cont' = [cont EXCEPT ![p] = FALSE]
      PROVE  NoHandoff'
  <2>1. cont' = [q \in Cpus |-> FALSE]
    BY <1>2 DEF NoHandoff
  <2>2. \A q \in Cpus : phase'[q] = IF q = p THEN to ELSE phase[q]
    BY <1>2 DEF PlaceTypeOK
  <2> QED
    BY <1>2, <2>1, <2>2 DEF NoHandoff
<1>3. ASSUME NEW p \in Cpus, CpuStep(p) \/ IdleRun(p) PROVE NoHandoff'
  <2>1. CASE \/ IdleRun(p) \/ Reselect(p) \/ InvokeSame(p) \/ InvokeMiss(p)
             \/ InvokeSwitch(p) \/ DispatchWake(p)
    <3>1. \/ phase' = [phase EXCEPT ![p] = "run"]
          \/ phase' = [phase EXCEPT ![p] = "selected"]
          \/ phase' = [phase EXCEPT ![p] = "reselect"]
          \/ phase' = [phase EXCEPT ![p] = "dispatch"]
      BY <2>1 DEF IdleRun, Reselect, InvokeSame, InvokeMiss, InvokeSwitch,
         DispatchWake, EndBlock
    <3>2. cont' = cont \/ cont' = [cont EXCEPT ![p] = FALSE]
      BY <2>1 DEF IdleRun, Reselect, InvokeSame, InvokeMiss, InvokeSwitch,
         DispatchWake, EndBlock
    <3> QED
      BY <1>2, <3>1, <3>2
  <2>2. CASE ThreadDispatch(p)
    <3>1. \/ phase' = [phase EXCEPT ![p] = "run"]
          \/ phase' = [phase EXCEPT ![p] = "wake"]
      BY <2>2 DEF ThreadDispatch, Dispatched, EndBlock
    <3>2. cont' = cont \/ cont' = [cont EXCEPT ![p] = FALSE]
      BY <2>2 DEF ThreadDispatch, EndBlock
    <3> QED
      BY <1>2, <3>1, <3>2
  <2> QED
    BY <1>3, <2>1, <2>2, HandoffFree DEF CpuStep
<1>4. ASSUME NEW p \in Cpus, NEW t \in Threads, ThreadBlock(p, t)
      PROVE  NoHandoff'
  <2>1. /\ phase' = [phase EXCEPT ![p] = "selected"]
        /\ \E k \in Continuations : cont' = [cont EXCEPT ![p] = k]
    BY <1>4 DEF ThreadBlock
  <2>2. cont' = [cont EXCEPT ![p] = FALSE]
    BY <2>1
  <2> QED
    BY <1>2, <2>1, <2>2
<1>5. CASE UNCHANGED vars
  BY <1>1, <1>5 DEF vars, cpuVars
<1>6. ASSUME NEW t \in Threads,
             \/ AssertWait(t) \/ ThreadStopWait(t) \/ ThreadStep(t)
             \/ SpecialHandler(t) \/ ThreadDoSwapin(t)
             \/ DelayedCallInterrupt(t)
      PROVE  NoHandoff'
  <2>1. UNCHANGED cpuVars
    BY <1>6 DEF ThreadStep, AssertWait, ThreadStopWait, SpecialHandler,
       ThreadDoSwapin, DelayedCallInterrupt, ThreadSetTimer, ThreadCancelTimer,
       ThreadStop, ThreadWait, MarkWakeActive, AssertWakeActive, AfterSleep,
       ThreadUnstop, UnstopWake
  <2> QED
    BY <1>1, <2>1 DEF cpuVars
<1>7. ASSUME NEW c, NEW t, NEW e,
             \/ CallerStep(c) \/ CallThreadDequeue(c, t) \/ ClearWait(c, t)
             \/ ActAbort(c, t) \/ ThreadWakeup(e) \/ ThreadWakeupOne(e)
      PROVE  NoHandoff'
  <2>1. UNCHANGED cpuVars
    BY <1>7 DEF CallerStep, CallThreadDequeue, ClearWait, ActAbort,
       ThreadTimerExpire, WaitQueueRemove, ActAbortCheck, ActAbortClear,
       ThreadWakeup, ThreadWakeupOne
  <2> QED
    BY <1>1, <2>1 DEF cpuVars
<1> QED
  BY <1>3, <1>4, <1>5, <1>6, <1>7 DEF Next

LEMMA WakeInit == Init => WakeInv /\ NoHandoff
<1> SUFFICES ASSUME Init PROVE WakeInv /\ NoHandoff
  OBVIOUS
<1>1. WakeTypeOK /\ LockHeld
  BY DEF Init, WakeTypeOK, LockHeld, LockPCs, MarkedPCs
<1>2. SleepersCovered
  BY ConstantTypes DEF Init, SleepersCovered
<1>3. NoHandoff
  BY DEF Init, NoHandoff
<1> QED
  BY <1>1, <1>2, <1>3 DEF WakeInv

\* Where no thread blocks with a continuation, so that none is handed a stack,
\* a thread that sleeps in thread_stop or thread_wait is never forgotten: as
\* long as it waits for wake_active, the flag is set or the wakeup on its way.
THEOREM WakeCorrect ==
  ASSUME Continuations = {FALSE}
  PROVE  Spec => []WakeActiveCovered
<1> DEFINE All == /\ Inv /\ TimerInv /\ PlaceTypeOK /\ PlaceInv /\ OldInv
                  /\ QueueInv /\ WakeInv /\ NoHandoff
<1>1. Init => All
  BY InvInit, TimerInvInit, PlaceInit, QueueInit, WakeInit
<1>2. All /\ [Next]_vars => All'
  <2> SUFFICES ASSUME All, [Next]_vars PROVE All'
    OBVIOUS
  <2>1. Inv' /\ TimerInv' /\ PlaceTypeOK' /\ PlaceInv' /\ OldInv'
    BY InvNext, TimerInvNext, PlaceNext, OldNext
  <2>2. CallerTypeOK
    BY DEF TimerInv, TimerTypeOK
  <2>3. QueueInv'
    BY <2>2, EventNext, QueueNext DEF QueueInv
  <2>4. WakeInv' /\ NoHandoff'
    BY <2>2, WakeNext, HandoffNext
  <2> QED
    BY <2>1, <2>3, <2>4
<1>3. All => WakeActiveCovered
  <2> SUFFICES ASSUME All, NEW t \in Threads, NEW s \in WaitersFor(WakeEvent[t])
               PROVE  wakeActive[t] \/ WakeInFlight(t)
    BY DEF WakeActiveCovered
  <2>1. s \in Threads /\ waitEvent[s] = WakeEvent[t]
    BY ConstantTypes, WaitersOf DEF EW!Waiting
  <2> QED
    BY <2>1 DEF WakeInv, SleepersCovered
<1> QED
  BY <1>1, <1>2, <1>3, PTL DEF Spec
=============================================================================
