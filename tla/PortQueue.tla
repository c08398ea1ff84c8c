------------------------------ MODULE PortQueue ------------------------------
(***************************************************************************)
(* What the message queues of ports promise, whatever goes on inside them: *)
(* a message is accepted once and taken at most once; the queue of a port  *)
(* is taken in order; only the messages of a dead port are dropped.  Only  *)
(* at a port that is in a set may a message overtake those queued.         *)
(***************************************************************************)
EXTENDS Naturals, Sequences, SequencesExt

CONSTANTS Ports, Messages

VARIABLES
  queue,   \* per port: the accepted messages, in order
  taken,   \* per port: the messages that were received, in order
  alive,   \* the ports that are not destroyed
  shared   \* the ports that are in a set

vars == <<queue, taken, alive, shared>>

Init ==
  /\ queue = [p \in Ports |-> <<>>] /\ taken = [p \in Ports |-> <<>>]
  /\ alive = Ports /\ shared = {}

New(m) == \A p \in Ports : m \notin ToSet(queue[p]) \cup ToSet(taken[p])

Send(p, m) ==
  /\ New(m)
  /\ queue' = [queue EXCEPT ![p] = Append(@, m)]
  /\ UNCHANGED <<taken, alive, shared>>

\* A message goes to a waiting receiver without being queued.
Pass(p, m) ==
  /\ New(m) /\ (queue[p] = <<>> \/ p \in shared)
  /\ taken' = [taken EXCEPT ![p] = Append(@, m)]
  /\ UNCHANGED <<queue, alive, shared>>

Take(p) ==
  /\ queue[p] # <<>>
  /\ queue' = [queue EXCEPT ![p] = Tail(@)]
  /\ taken' = [taken EXCEPT ![p] = Append(@, Head(queue[p]))]
  /\ UNCHANGED <<alive, shared>>

Drop(p) ==
  /\ p \notin alive /\ queue[p] # <<>>
  /\ queue' = [queue EXCEPT ![p] = Tail(@)]
  /\ UNCHANGED <<taken, alive, shared>>

Join(p) ==
  /\ p \in alive
  /\ shared' = shared \cup {p}
  /\ UNCHANGED <<queue, taken, alive>>

Leave(p) ==
  /\ shared' = shared \ {p} /\ alive' \in {alive, alive \ {p}}
  /\ UNCHANGED <<queue, taken>>

Next ==
  \E p \in Ports :
    \/ \E m \in Messages : Send(p, m) \/ Pass(p, m)
    \/ Take(p) \/ Drop(p) \/ Join(p) \/ Leave(p)

Spec == Init /\ [][Next]_vars
=============================================================================
