----------------------------- MODULE PortTransit -----------------------------
(***************************************************************************)
(* Receive rights that travel in messages (osfmk/ipc/ipc_port.c).  A port  *)
(* whose receive right is in a message queued at another port points to    *)
(* that port (ip_destination).  ipc_port_check_circularity keeps the ports *)
(* in transit free of circles, which nobody could ever receive from; it    *)
(* holds a chain of port locks, taken against no order, and relies on      *)
(* ipc_port_multiple_lock and on a quick check that only tries.            *)
(*                                                                         *)
(* A step takes or releases one lock.  What takes a port's lock, changes   *)
(* the port and releases the lock is one step that needs the lock free.    *)
(***************************************************************************)
EXTENDS Naturals, FiniteSets

CONSTANTS
  Threads, Ports,
  MaxMoves,  \* bound: messages with a receive right that a thread sends
  None

ASSUME PortTransitAssumption ==
  None \notin Threads \cup Ports /\ MaxMoves \in Nat

VARIABLES
  place,     \* "space", "limbo", "transit" (ipc_port.h:83-93), "dead", "freed"
  dest,      \* ip_destination of a port in transit
  lock,      \* who holds the port's lock
  multiple,  \* who holds ipc_port_multiple_lock
  th,        \* per thread: where it is, its port, the destination, a cursor
  moves      \* per thread: messages sent

vars == <<place, dest, lock, multiple, th, moves>>

PCs == {"idle", "lockPort", "tryDest", "multiple", "walk", "found", "link",
        "unlock", "unlockCircle", "destroy"}
Idle == [pc |-> "idle", port |-> None, dest |-> None, at |-> None]

Init ==
  /\ place = [p \in Ports |-> "space"]
  /\ dest = [p \in Ports |-> None]
  /\ lock = [p \in Ports |-> None]
  /\ multiple = None
  /\ th = [t \in Threads |-> Idle]
  /\ moves = [t \in Threads |-> 0]

Free(p) == lock[p] = None
Goes(t, pc) == th' = [th EXCEPT ![t].pc = pc]
GoesAt(t, pc, p) == th' = [th EXCEPT ![t].pc = pc, ![t].at = p]
Locks(t, p) == Free(p) /\ lock' = [lock EXCEPT ![p] = t]
Unlocks(p) == lock' = [lock EXCEPT ![p] = None]

\* The receive right of p is taken into a message to d, or to the port that
\* asked for it (ip_pdrequest).  The message or the request holds d.
CopyinReceive(t, p, d) ==
  /\ th[t] = Idle /\ moves[t] < MaxMoves
  /\ place[p] = "space" /\ Free(p) /\ place[d] # "freed"
  /\ place' = [place EXCEPT ![p] = "limbo"]
  /\ moves' = [moves EXCEPT ![t] = @ + 1]
  \* a port sent to itself is a circle without further ado
  /\ th' = [th EXCEPT ![t] = [pc |-> IF p = d THEN "destroy" ELSE "lockPort",
                              port |-> p, dest |-> d, at |-> None]]
  /\ UNCHANGED <<dest, lock, multiple>>

(***************************************************************************)
(* ipc_port_check_circularity                                              *)
(***************************************************************************)
LockPort(t) ==
  /\ th[t].pc = "lockPort" /\ Locks(t, th[t].port)
  /\ Goes(t, "tryDest")
  /\ UNCHANGED <<place, dest, multiple, moves>>

\* Faulty variant: a destination in transit will do.
TryDestAny(t) ==
  LET d == th[t].dest IN
  /\ th[t].pc = "tryDest"
  /\ IF Free(d)
     THEN lock' = [lock EXCEPT ![d] = t] /\ GoesAt(t, "link", d)
     ELSE Unlocks(th[t].port) /\ Goes(t, "multiple")
  /\ UNCHANGED <<place, dest, multiple, moves>>

\* Faulty variant: waits for the destination's lock with the port's held.
TryDestWaits(t) ==
  LET d == th[t].dest IN
  /\ th[t].pc = "tryDest" /\ Free(d)
  /\ IF place[d] # "transit"
     THEN lock' = [lock EXCEPT ![d] = t] /\ GoesAt(t, "link", d)
     ELSE Unlocks(th[t].port) /\ Goes(t, "multiple")
  /\ UNCHANGED <<place, dest, multiple, moves>>

\* The quick check: a destination that is not in transit ends the matter.
TryDest(t) ==
  LET d == th[t].dest IN
  /\ th[t].pc = "tryDest"
  /\ IF Free(d) /\ place[d] # "transit"
     THEN lock' = [lock EXCEPT ![d] = t] /\ GoesAt(t, "link", d)
     ELSE Unlocks(th[t].port) /\ Goes(t, "multiple")
  /\ UNCHANGED <<place, dest, multiple, moves>>

LockMultiple(t) ==
  /\ th[t].pc = "multiple" /\ multiple = None
  /\ multiple' = t
  /\ GoesAt(t, "walk", th[t].dest)
  /\ UNCHANGED <<place, dest, lock, moves>>

\* To the end of the chain, keeping every lock.
Walk(t) ==
  LET base == th[t].at IN
  /\ th[t].pc = "walk" /\ Locks(t, base)
  /\ IF place[base] = "transit" THEN GoesAt(t, "walk", dest[base])
                                ELSE Goes(t, "found")
  /\ UNCHANGED <<place, dest, multiple, moves>>

\* The chain ends at the port itself: a circle.
FoundCircle(t) ==
  /\ th[t].pc = "found" /\ th[t].at = th[t].port
  /\ multiple' = None
  /\ GoesAt(t, "unlockCircle", th[t].dest)
  /\ UNCHANGED <<place, dest, lock, moves>>

FoundEnd(t) ==
  /\ th[t].pc = "found" /\ th[t].at # th[t].port
  /\ Locks(t, th[t].port)
  /\ multiple' = None
  /\ Goes(t, "link")
  /\ UNCHANGED <<place, dest, moves>>

Link(t) ==
  LET p == th[t].port IN
  /\ th[t].pc = "link"
  /\ place' = [place EXCEPT ![p] = "transit"]
  /\ dest' = [dest EXCEPT ![p] = th[t].dest]
  \* from here the cursor runs from the port, up to the base: the only port
  \* this thread has locked that is not in transit
  /\ GoesAt(t, "unlock", p)
  /\ UNCHANGED <<lock, multiple, moves>>

\* The chain is unlocked from the port to the base.
Unlock(t) ==
  LET p == th[t].at IN
  /\ th[t].pc = "unlock" /\ Unlocks(p)
  /\ IF place[p] = "transit" THEN GoesAt(t, "unlock", dest[p])
                             ELSE th' = [th EXCEPT ![t] = Idle]
  /\ UNCHANGED <<place, dest, multiple, moves>>

UnlockCircle(t) ==
  LET p == th[t].at IN
  /\ th[t].pc = "unlockCircle" /\ Unlocks(p)
  /\ IF place[p] = "transit" THEN GoesAt(t, "unlockCircle", dest[p])
                             ELSE Goes(t, "destroy")
  /\ UNCHANGED <<place, dest, multiple, moves>>

(***************************************************************************)
(* What else happens to receive rights                                     *)
(***************************************************************************)
\* A circular message is destroyed, and with it the receive right in limbo.
DestroyInLimbo(t) ==
  LET p == th[t].port IN
  /\ th[t].pc = "destroy" /\ Free(p)
  /\ place' = [place EXCEPT ![p] = "dead"]
  /\ th' = [th EXCEPT ![t] = Idle]
  /\ UNCHANGED <<dest, lock, multiple, moves>>

\* The message with p is received: ipc_right_copyout.
CopyoutReceive(p) ==
  /\ place[p] = "transit" /\ Free(p)
  /\ place' = [place EXCEPT ![p] = "space"]
  /\ dest' = [dest EXCEPT ![p] = None]
  /\ UNCHANGED <<lock, multiple, th, moves>>

\* The message with p is destroyed, because it could not be sent, or with
\* the queue it was in: ipc_port_release_receive.
ReleaseReceive(p) ==
  /\ place[p] = "transit" /\ Free(p)
  /\ place' = [place EXCEPT ![p] = "dead"]
  /\ dest' = [dest EXCEPT ![p] = None]
  /\ UNCHANGED <<lock, multiple, th, moves>>

\* The receive right is deallocated in its space.
Destroy(p) ==
  /\ place[p] = "space" /\ Free(p)
  /\ place' = [place EXCEPT ![p] = "dead"]
  /\ UNCHANGED <<dest, lock, multiple, th, moves>>

\* Faulty variant: a port in transit has no reference to its destination.
DeallocateUncounted(d) ==
  /\ place[d] = "dead" /\ Free(d)
  /\ \A t \in Threads : th[t].dest # d
  /\ place' = [place EXCEPT ![d] = "freed"]
  /\ UNCHANGED <<dest, lock, multiple, th, moves>>

\* The last reference to a dead port goes: those that count here are of
\* ports in transit to it and of messages to it being sent.
Deallocate(d) ==
  /\ place[d] = "dead" /\ Free(d)
  /\ \A p \in Ports : dest[p] # d
  /\ \A t \in Threads : th[t].dest # d
  /\ place' = [place EXCEPT ![d] = "freed"]
  /\ UNCHANGED <<dest, lock, multiple, th, moves>>

Check(t) ==
  \/ LockPort(t) \/ TryDest(t) \/ LockMultiple(t) \/ Walk(t)
  \/ FoundCircle(t) \/ FoundEnd(t) \/ Link(t) \/ Unlock(t)
  \/ UnlockCircle(t) \/ DestroyInLimbo(t)

Next ==
  \/ \E t \in Threads : Check(t) \/ \E p, d \in Ports : CopyinReceive(t, p, d)
  \/ \E p \in Ports : CopyoutReceive(p) \/ ReleaseReceive(p) \/ Destroy(p)
                      \/ Deallocate(p)

Spec == Init /\ [][Next]_vars

\* A thread inside the check goes on.
FairSpec == Spec /\ \A t \in Threads : WF_vars(Check(t))

(***************************************************************************)
(* Properties                                                              *)
(***************************************************************************)
TypeOK ==
  /\ place \in [Ports -> {"space", "limbo", "transit", "dead", "freed"}]
  /\ dest \in [Ports -> Ports \cup {None}]
  /\ lock \in [Ports -> Threads \cup {None}]
  /\ multiple \in Threads \cup {None}
  /\ th \in [Threads -> [pc : PCs, port : Ports \cup {None},
                         dest : Ports \cup {None}, at : Ports \cup {None}]]
  /\ moves \in [Threads -> 0 .. MaxMoves]

\* The ports in transit never form a circle: every set of them has one whose
\* destination is outside the set (ipc_port_check_circularity).
NoCircle ==
  \A C \in SUBSET {p \in Ports : place[p] = "transit"} :
    C # {} => \E p \in C : dest[p] \notin C

\* When a port is about to be put in transit it is in limbo, and the whole
\* chain from its destination is locked by the thread and ends elsewhere:
\* "The guarantee: lock port while the entire chain is locked" (ipc_port.c:
\* 788-791) and the assertions that follow it.
ChainHeld ==
  \A t \in Threads : th[t].pc = "link" =>
    /\ place[th[t].port] = "limbo" /\ lock[th[t].port] = t
    /\ lock[th[t].dest] = t
    /\ \A p \in Ports : place[p] = "transit" /\ lock[p] = t => lock[dest[p]] = t
    /\ th[t].at # th[t].port /\ lock[th[t].at] = t
    /\ place[th[t].at] # "transit"

\* Nobody looks at a port that has been freed.
TouchesLive ==
  \A t \in Threads :
    /\ \A p \in Ports : lock[p] = t => place[p] # "freed"
    /\ th[t].pc \in {"walk", "unlock", "unlockCircle"}
         => place[th[t].at] # "freed"

\* Every check ends: no two threads wait for each other's locks.
ChecksEnd == \A t \in Threads : th[t].pc # "idle" ~> th[t].pc = "idle"
=============================================================================
