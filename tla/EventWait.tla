------------------------------ MODULE EventWait ------------------------------
(***************************************************************************)
(* What the event mechanism of sched_prim.c promises ("Waiting protocols   *)
(* and implementation", sched_prim.c): a thread waits for at most one      *)
(* event; posting an event ends the waits for that event and no other;     *)
(* anybody may also end one thread's wait, whatever it waits for.  There   *)
(* is no hash table, lock, processor or scheduler here.                    *)
(***************************************************************************)
CONSTANTS Threads, AllEvents, NoEvent, Results

VARIABLES
  waitEvent,  \* the event each thread waits for, or NoEvent
  waitResult  \* how its last wait ended; "none" while it waits

vars == <<waitEvent, waitResult>>

Init ==
  /\ waitEvent = [t \in Threads |-> NoEvent]
  /\ waitResult = [t \in Threads |-> "none"]

AssertWait(t, e) ==
  /\ waitEvent[t] = NoEvent
  /\ waitEvent' = [waitEvent EXCEPT ![t] = e]
  /\ waitResult' = [waitResult EXCEPT ![t] = "none"]

\* The waits of the threads of W end with the given result.
End(W, result) ==
  /\ waitEvent' = [t \in Threads |-> IF t \in W THEN NoEvent ELSE waitEvent[t]]
  /\ waitResult' = [t \in Threads |-> IF t \in W THEN result ELSE waitResult[t]]

Waiting(e) == {t \in Threads : waitEvent[t] = e}

WakeupAll(e) == Waiting(e) # {} /\ End(Waiting(e), "awakened")

WakeupOne(e) == \E t \in Waiting(e) : End({t}, "awakened")

ClearWait(t) ==
  /\ waitEvent[t] # NoEvent
  /\ \E result \in Results \ {"none", "awakened"} : End({t}, result)

Next ==
  \/ \E t \in Threads, e \in AllEvents : AssertWait(t, e)
  \/ \E e \in AllEvents : WakeupAll(e) \/ WakeupOne(e)
  \/ \E t \in Threads : ClearWait(t)

Spec == Init /\ [][Next]_vars
=============================================================================
