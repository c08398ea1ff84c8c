-------------------------- MODULE CountingSemaphore --------------------------
(***************************************************************************)
(* What the semaphores of osfmk/kern/sync_sema.c promise: a signal is      *)
(* taken by one waiter, or kept for the next wait if there is none; no     *)
(* signal is lost or taken twice, also when waits time out or are          *)
(* aborted; destroying the semaphore ends every wait.                      *)
(***************************************************************************)
EXTENDS Naturals

CONSTANTS Threads, Calls

VARIABLES
  tokens,  \* signals that nobody has taken
  alive,
  call     \* each thread's call and, if it is a wait, what came of it

vars == <<tokens, alive, call>>

Init ==
  /\ tokens \in Nat /\ alive = TRUE
  /\ call = [t \in Threads |-> "none"]

Waiting == {t \in Threads : call[t] = "waiting"}

\* t's call stands at c, and the waits of the threads of W come out as o.
Becomes(t, c, W, o) ==
  call' = [u \in Threads |-> IF u = t THEN c ELSE IF u \in W THEN o ELSE call[u]]

Begin(t) ==
  /\ call[t] = "none" /\ \E c \in Calls : Becomes(t, c, {}, "none")
  /\ UNCHANGED <<tokens, alive>>

Wait(t) ==
  /\ call[t] \in {"wait", "try"} /\ UNCHANGED alive
  /\ \/ ~alive /\ Becomes(t, "terminated", {}, "none") /\ UNCHANGED tokens
     \/ /\ alive /\ tokens > 0 /\ tokens' = tokens - 1
        /\ Becomes(t, "success", {}, "none")
     \/ /\ alive /\ tokens = 0 /\ UNCHANGED tokens
        /\ Becomes(t, IF call[t] = "try" THEN "timed_out" ELSE "waiting",
                   {}, "none")

WaitEndsEarly(t) ==
  /\ call[t] = "waiting" /\ UNCHANGED <<tokens, alive>>
  /\ \E o \in {"timed_out", "aborted"} : Becomes(t, o, {}, "none")

\* A signal is taken by a waiter if there is one, else kept.
Signal(t) ==
  /\ call[t] = "signal" /\ UNCHANGED alive
  /\ \/ ~alive /\ UNCHANGED tokens /\ Becomes(t, "none", {}, "none")
     \/ /\ alive /\ UNCHANGED tokens
        /\ \E u \in Waiting : Becomes(t, "none", {u}, "success")
     \/ /\ alive /\ Waiting = {} /\ tokens' = tokens + 1
        /\ Becomes(t, "none", {}, "none")

SignalThread(t) ==
  /\ call[t] = "signalThread" /\ UNCHANGED <<tokens, alive>>
  /\ \E u \in Threads :
       Becomes(t, "none", IF alive THEN {u} \cap Waiting ELSE {}, "success")

SignalAll(t) ==
  /\ call[t] = "signalAll" /\ UNCHANGED alive
  /\ tokens' = IF alive THEN 0 ELSE tokens
  /\ Becomes(t, "none", IF alive THEN Waiting ELSE {}, "success")

Destroy(t) ==
  /\ call[t] = "destroy" /\ alive' = FALSE
  /\ tokens' = IF alive THEN 0 ELSE tokens
  /\ Becomes(t, "none", Waiting, "terminated")

Return(t) ==
  /\ call[t] \in {"success", "timed_out", "aborted", "terminated"}
  /\ Becomes(t, "none", {}, "none")
  /\ UNCHANGED <<tokens, alive>>

Next == \E t \in Threads :
  \/ Begin(t) \/ Wait(t) \/ WaitEndsEarly(t) \/ Return(t)
  \/ Signal(t) \/ SignalThread(t) \/ SignalAll(t) \/ Destroy(t)

Spec == Init /\ [][Next]_vars
=============================================================================
