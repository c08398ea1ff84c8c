-------------------------- MODULE PortTransitProofs --------------------------
(***************************************************************************)
(* The ports in transit never form a circle, however many threads send     *)
(* receive rights at once, for any set of threads and ports.               *)
(*                                                                         *)
(* NoCircle is not inductive: what makes linking a port safe is what the   *)
(* thread has locked by then.  HeldBy(t) says it for each place in the      *)
(* check: the ports that t has locked are a chain from the destination,    *)
(* every link of it in transit, that ends at the cursor.  Nobody else can  *)
(* change a locked port, so only the thread's own steps disturb it.        *)
(***************************************************************************)
EXTENDS PortTransit, TLAPS

Held(t) == {p \in Ports : lock[p] = t}
Transit == {p \in Ports : place[p] = "transit"}

InCheck(t) == th[t].pc \notin {"idle", "unlock"}

\* A thread in the check owns its port, which is in limbo.
Limbo ==
  /\ \A t \in Threads : InCheck(t) =>
       /\ th[t].port \in Ports /\ th[t].dest \in Ports
       /\ place[th[t].port] = "limbo"
  /\ \A t, u \in Threads :
       InCheck(t) /\ InCheck(u) /\ th[t].port = th[u].port => t = u

\* The destinations of the ports in transit that t holds are in S, differ
\* from each other and are not d.
Chained(t, S, d) ==
  \A p \in Held(t) \cap Transit :
    /\ dest[p] \in S /\ dest[p] # d
    /\ \A q \in Held(t) \cap Transit : dest[q] = dest[p] => q = p

HeldInWalk(t) ==
  /\ th[t].at \in Ports /\ th[t].dest \in Held(t) \cup {th[t].at}
  /\ Held(t) \subseteq Transit
  /\ Chained(t, Held(t) \cup {th[t].at}, th[t].dest)

HeldAtEnd(t) ==
  /\ th[t].at \in Held(t) \ Transit /\ th[t].dest \in Held(t)
  /\ Held(t) \ {th[t].at} \subseteq Transit
  /\ Chained(t, Held(t), th[t].dest)

HeldAtLink(t) ==
  LET rest == Held(t) \ {th[t].port} IN
  /\ th[t].port \in Held(t)
  /\ th[t].at \in rest \ Transit /\ th[t].dest \in rest
  /\ rest \ {th[t].at} \subseteq Transit
  /\ Chained(t, rest, th[t].dest)

HeldInUnlock(t) ==
  /\ th[t].at \in Held(t)
  /\ \A p, q \in Held(t) \ Transit : p = q
  /\ Chained(t, Held(t), th[t].at)

HeldBy(t) ==
  /\ th[t].pc \in {"idle", "lockPort", "multiple", "destroy"} => Held(t) = {}
  /\ th[t].pc = "tryDest" => Held(t) = {th[t].port} /\ th[t].port # th[t].dest
  /\ th[t].pc \in {"lockPort", "multiple", "walk", "found", "link"}
       => th[t].port # th[t].dest
  /\ th[t].pc = "walk" => HeldInWalk(t)
  /\ th[t].pc = "found" => HeldAtEnd(t)
  /\ th[t].pc = "link" => HeldAtLink(t)
  /\ th[t].pc \in {"unlock", "unlockCircle"} => HeldInUnlock(t)

\* A port in transit has a destination.
Aimed == \A p \in Ports : place[p] = "transit" => dest[p] \in Ports

IInv == /\ TypeOK /\ Limbo /\ Aimed /\ NoCircle
        /\ \A t \in Threads : HeldBy(t)

(***************************************************************************)
(* What the steps have in common                                           *)
(***************************************************************************)
\* A thread that does not move keeps its chain as long as nobody changes the
\* ports it has locked.
LEMMA HeldByFrame ==
  ASSUME NEW u \in Threads, HeldBy(u), th'[u] = th[u], Held(u)' = Held(u),
         \A p \in Held(u) : place'[p] = place[p] /\ dest'[p] = dest[p]
  PROVE  HeldBy(u)'
<1>1. \A p \in Held(u) : p \in Transit' <=> p \in Transit
  BY DEF Transit, Held
<1>2. Held(u)' \cap Transit' = Held(u) \cap Transit
      /\ Held(u)' \ Transit' = Held(u) \ Transit
  BY <1>1
<1>3. ASSUME NEW S, NEW d, Chained(u, S, d)
      PROVE  \A p \in Held(u)' \cap Transit' :
               /\ dest'[p] \in S /\ dest'[p] # d
               /\ \A q \in Held(u)' \cap Transit' : dest'[q] = dest'[p] => q = p
  BY <1>2, <1>3 DEF Chained
<1>4. HeldInWalk(u) => HeldInWalk(u)'
  BY <1>1, <1>2, <1>3 DEF HeldInWalk, Chained
<1>5. HeldAtEnd(u) => HeldAtEnd(u)'
  BY <1>1, <1>2, <1>3 DEF HeldAtEnd, Chained
<1>6. HeldAtLink(u) => HeldAtLink(u)'
  BY <1>1, <1>2, <1>3 DEF HeldAtLink, Chained
<1>7. HeldInUnlock(u) => HeldInUnlock(u)'
  BY <1>1, <1>2, <1>3 DEF HeldInUnlock, Chained
<1>. QED
  BY <1>4, <1>5, <1>6, <1>7 DEF HeldBy

\* A step of thread t, or of nobody, that changes only ports that are free or
\* held by t, and locks or unlocks only for t, leaves the others' chains.
LEMMA OthersKeepChains ==
  ASSUME TypeOK, NEW t \in Threads, NEW u \in Threads, u # t, HeldBy(u),
         th'[u] = th[u],
         \A p \in Ports : lock'[p] # lock[p] =>
                            {lock[p], lock'[p]} \subseteq {t, None},
         \A p \in Ports : place'[p] # place[p] \/ dest'[p] # dest[p] =>
                            lock[p] \in {t, None}
  PROVE  HeldBy(u)'
<1>1. Held(u)' = Held(u)
  BY PortTransitAssumption DEF Held
<1>2. \A p \in Held(u) : place'[p] = place[p] /\ dest'[p] = dest[p]
  BY PortTransitAssumption DEF Held
<1>. QED
  BY <1>1, <1>2, HeldByFrame

\* Fewer ports in transit, to where they were, form no circle.
LEMMA NoCircleFrame ==
  ASSUME NoCircle, Transit' \subseteq Transit,
         \A p \in Transit' : dest'[p] = dest[p]
  PROVE  NoCircle'
<1>. SUFFICES ASSUME NEW C \in SUBSET Transit', C # {}
              PROVE  \E p \in C : dest'[p] \notin C
  BY DEF NoCircle, Transit
<1>1. C \in SUBSET Transit
  OBVIOUS
<1>2. PICK p \in C : dest[p] \notin C
  BY <1>1 DEF NoCircle, Transit
<1>. QED
  BY <1>2

\* What Goes and GoesAt do to a thread, field by field.
LEMMA Going ==
  ASSUME TypeOK, NEW t \in Threads, NEW pc, NEW p,
         Goes(t, pc) \/ GoesAt(t, pc, p)
  PROVE  /\ th'[t].pc = pc
         /\ th'[t].port = th[t].port /\ th'[t].dest = th[t].dest
         /\ GoesAt(t, pc, p) => th'[t].at = p
         /\ Goes(t, pc) => th'[t].at = th[t].at
         /\ \A u \in Threads \ {t} : th'[u] = th[u]
BY DEF TypeOK, Goes, GoesAt

LEMMA InitIInv == Init => IInv
<1>. SUFFICES ASSUME Init PROVE IInv
  OBVIOUS
<1>1. TypeOK
  BY PortTransitAssumption DEF Init, TypeOK, Idle, PCs
<1>2. Limbo /\ Aimed /\ NoCircle
  BY DEF Init, Limbo, Aimed, NoCircle, InCheck, Idle
<1>3. \A t \in Threads : HeldBy(t)
  BY PortTransitAssumption DEF Init, HeldBy, Held, Idle
<1>. QED
  BY <1>1, <1>2, <1>3 DEF IInv

\* Locking and unlocking a port, and moving a thread on, keep the types.
LEMMA LockType ==
  ASSUME TypeOK, NEW t \in Threads, NEW p, Locks(t, p) \/ Unlocks(p)
  PROVE  lock' \in [Ports -> Threads \cup {None}]
BY DEF TypeOK, Locks, Unlocks

LEMMA GoingType ==
  ASSUME TypeOK, NEW t \in Threads, NEW pc \in PCs, NEW p \in Ports \cup {None},
         Goes(t, pc) \/ GoesAt(t, pc, p)
  PROVE  th' \in [Threads -> [pc : PCs, port : Ports \cup {None},
                             dest : Ports \cup {None}, at : Ports \cup {None}]]
<1>. DEFINE T == [pc : PCs, port : Ports \cup {None},
                  dest : Ports \cup {None}, at : Ports \cup {None}]
<1>1. th \in [Threads -> T] /\ th[t] \in T
  BY DEF TypeOK
<1>2. \A r \in T : /\ [r EXCEPT !.pc = pc] \in T
                   /\ [r EXCEPT !.pc = pc, !.at = p] \in T
  OBVIOUS
<1>3. \E r \in T : th' = [th EXCEPT ![t] = r]
  <2>1. CASE Goes(t, pc)
    <3>1. th' = [th EXCEPT ![t] = [th[t] EXCEPT !.pc = pc]]
      BY <1>1, <2>1 DEF Goes
    <3>. QED
      BY <1>1, <1>2, <3>1
  <2>2. CASE GoesAt(t, pc, p)
    <3>1. th' = [th EXCEPT ![t] = [th[t] EXCEPT !.pc = pc, !.at = p]]
      BY <1>1, <2>2 DEF GoesAt
    <3>. QED
      BY <1>1, <1>2, <3>1
  <2>. QED
    BY <2>1, <2>2
<1>. HIDE DEF T
<1>4. th' \in [Threads -> T]
  BY <1>1, <1>3
<1>. QED
  BY <1>4 DEF T

LEMMA TypeStep == IInv /\ [Next]_vars => TypeOK'
<1>. SUFFICES ASSUME IInv, [Next]_vars PROVE TypeOK'
  OBVIOUS
<1>0. TypeOK
  BY DEF IInv
<1>1. CASE UNCHANGED vars
  BY <1>0, <1>1 DEF vars, TypeOK
<1>2. ASSUME NEW t \in Threads, NEW p \in Ports, NEW d \in Ports,
             CopyinReceive(t, p, d)
      PROVE  TypeOK'
  BY <1>0, <1>2, PortTransitAssumption DEF CopyinReceive, TypeOK, PCs
<1>3. ASSUME NEW t \in Threads, Check(t) PROVE TypeOK'
  <2>0. /\ th[t].port \in Ports \cup {None} /\ th[t].dest \in Ports \cup {None}
        /\ th[t].at \in Ports \cup {None}
        /\ InCheck(t) => th[t].port \in Ports /\ th[t].dest \in Ports
        /\ {"idle", "tryDest", "multiple", "walk", "found", "link", "unlock",
            "unlockCircle", "destroy"} \subseteq PCs
    BY <1>0 DEF IInv, Limbo, TypeOK, PCs
  <2>1. CASE LockPort(t)
    BY <1>0, <2>0, <2>1, LockType, GoingType DEF LockPort, TypeOK
  <2>2. CASE TryDest(t)
    <3>1. CASE Free(th[t].dest) /\ place[th[t].dest] # "transit"
      BY <1>0, <2>0, <2>2, <3>1, LockType, GoingType DEF TryDest, Locks, TypeOK
    <3>2. CASE ~(Free(th[t].dest) /\ place[th[t].dest] # "transit")
      BY <1>0, <2>0, <2>2, <3>2, LockType, GoingType DEF TryDest, TypeOK
    <3>. QED
      BY <3>1, <3>2
  <2>3. CASE LockMultiple(t)
    BY <1>0, <2>0, <2>3, GoingType DEF LockMultiple, TypeOK
  <2>4. CASE Walk(t)
    <3>1. th[t].at \in Ports
      BY <2>4 DEF Walk, IInv, HeldBy, HeldInWalk
    <3>2. dest[th[t].at] \in Ports \cup {None}
      BY <1>0, <3>1 DEF TypeOK
    <3>. QED
      BY <1>0, <2>0, <2>4, <3>2, LockType, GoingType DEF Walk, TypeOK
  <2>5. CASE FoundCircle(t)
    BY <1>0, <2>0, <2>5, GoingType DEF FoundCircle, TypeOK
  <2>6. CASE FoundEnd(t)
    BY <1>0, <2>0, <2>6, LockType, GoingType DEF FoundEnd, TypeOK
  <2>7. CASE Link(t)
    <3>1. th[t].dest \in Ports /\ th[t].port \in Ports
      BY <2>0, <2>7 DEF Link, InCheck
    <3>2. place' \in [Ports -> {"space", "limbo", "transit", "dead", "freed"}]
      BY <1>0, <2>7 DEF Link, TypeOK
    <3>3. dest' \in [Ports -> Ports \cup {None}]
      BY <1>0, <2>7, <3>1 DEF Link, TypeOK
    <3>. QED
      BY <1>0, <2>0, <2>7, <3>2, <3>3, GoingType DEF Link, TypeOK
  <2>8. CASE Unlock(t) \/ UnlockCircle(t)
    <3>1. th[t].at \in Ports
      BY <2>8 DEF Unlock, UnlockCircle, IInv, HeldBy, HeldInUnlock, Held
    <3>2. dest[th[t].at] \in Ports \cup {None}
      BY <1>0, <3>1 DEF TypeOK
    <3>3. CASE th' = [th EXCEPT ![t] = Idle]
      <4>1. Idle \in [pc : PCs, port : Ports \cup {None},
                      dest : Ports \cup {None}, at : Ports \cup {None}]
        BY DEF Idle, PCs
      <4>2. th' \in [Threads -> [pc : PCs, port : Ports \cup {None},
                                dest : Ports \cup {None}, at : Ports \cup {None}]]
        BY <1>0, <3>3, <4>1 DEF TypeOK
      <4>. QED
        BY <1>0, <2>8, <4>2, LockType DEF Unlock, UnlockCircle, TypeOK
    <3>4. CASE th' # [th EXCEPT ![t] = Idle]
      BY <1>0, <2>0, <2>8, <3>2, <3>4, LockType, GoingType
      DEF Unlock, UnlockCircle, TypeOK
    <3>. QED
      BY <3>3, <3>4
  <2>9. CASE DestroyInLimbo(t)
    BY <1>0, <2>9 DEF DestroyInLimbo, TypeOK, Idle, PCs
  <2>. QED
    BY <1>3, <2>1, <2>2, <2>3, <2>4, <2>5, <2>6, <2>7, <2>8, <2>9 DEF Check
<1>4. ASSUME NEW p \in Ports,
             CopyoutReceive(p) \/ ReleaseReceive(p) \/ Destroy(p) \/ Deallocate(p)
      PROVE  TypeOK'
  BY <1>0, <1>4 DEF CopyoutReceive, ReleaseReceive, Destroy, Deallocate, TypeOK
<1>. QED
  BY <1>1, <1>2, <1>3, <1>4 DEF Next

\* A thread that goes on with its port, or leaves the check, keeps every port
\* in limbo where it is.
LEMMA LimboFrame ==
  ASSUME Limbo, NEW t \in Threads, place' = place,
         \A u \in Threads \ {t} : th'[u] = th[u],
         InCheck(t)' => /\ InCheck(t)
                        /\ th'[t].port = th[t].port /\ th'[t].dest = th[t].dest
  PROVE  Limbo'
<1>1. \A u \in Threads : InCheck(u)' =>
        InCheck(u) /\ th'[u].port = th[u].port /\ th'[u].dest = th[u].dest
  BY DEF InCheck
<1>. QED
  BY <1>1 DEF Limbo

\* A port is put in limbo by the thread that takes it into a message, out of
\* a space, and leaves limbo by that thread's steps only.
LEMMA LimboStep == IInv /\ [Next]_vars => Limbo'
<1>. SUFFICES ASSUME IInv, [Next]_vars PROVE Limbo'
  OBVIOUS
<1>0. TypeOK /\ Limbo
  BY DEF IInv
<1>1. CASE UNCHANGED vars
  BY <1>0, <1>1 DEF vars, Limbo, InCheck
<1>2. ASSUME NEW t \in Threads, NEW p \in Ports, NEW d \in Ports,
             CopyinReceive(t, p, d)
      PROVE  Limbo'
  BY <1>0, <1>2 DEF CopyinReceive, Limbo, InCheck, TypeOK, Idle
<1>3. ASSUME NEW t \in Threads, Check(t) PROVE Limbo'
  <2>1. CASE Link(t)
    BY <1>0, <2>1 DEF Link, GoesAt, Limbo, InCheck, TypeOK
  <2>2. CASE DestroyInLimbo(t)
    <3>1. \A u \in Threads \ {t} : th'[u] = th[u]
      BY <1>0, <2>2 DEF DestroyInLimbo, TypeOK
    <3>2. th'[t].pc = "idle" /\ InCheck(t)
      BY <1>0, <2>2 DEF DestroyInLimbo, TypeOK, Idle, InCheck
    <3>3. \A q \in Ports : q # th[t].port => place'[q] = place[q]
      BY <1>0, <2>2 DEF DestroyInLimbo, TypeOK
    <3>. QED
      BY <1>0, <3>1, <3>2, <3>3 DEF Limbo, InCheck
  <2>3. CASE \/ LockPort(t) \/ TryDest(t) \/ LockMultiple(t) \/ Walk(t)
             \/ FoundCircle(t) \/ FoundEnd(t) \/ UnlockCircle(t)
    <3>1. place' = place /\ InCheck(t)
      BY <2>3 DEF LockPort, TryDest, LockMultiple, Walk, FoundCircle, FoundEnd,
                  UnlockCircle, InCheck
    <3>2. \E pc, p : Goes(t, pc) \/ GoesAt(t, pc, p)
      BY <2>3 DEF LockPort, TryDest, LockMultiple, Walk, FoundCircle, FoundEnd,
                  UnlockCircle
    <3>. QED
      BY <1>0, <3>1, <3>2, Going, LimboFrame
  <2>4. CASE Unlock(t)
    <3>1. /\ place' = place /\ th[t].pc = "unlock"
          /\ \/ \E p : GoesAt(t, "unlock", p)
             \/ th' = [th EXCEPT ![t] = Idle]
      BY <2>4 DEF Unlock
    <3>2. CASE \E p : GoesAt(t, "unlock", p)
      BY <1>0, <3>1, <3>2, Going, LimboFrame DEF InCheck
    <3>3. CASE th' = [th EXCEPT ![t] = Idle]
      <4>1. th'[t].pc = "idle" /\ \A u \in Threads \ {t} : th'[u] = th[u]
        BY <1>0, <3>3 DEF TypeOK, Idle
      <4>. QED
        BY <1>0, <3>1, <4>1, LimboFrame DEF InCheck
    <3>. QED
      BY <3>1, <3>2, <3>3
  <2>. QED
    BY <1>3, <2>1, <2>2, <2>3, <2>4 DEF Check
<1>4. ASSUME NEW p \in Ports,
             CopyoutReceive(p) \/ ReleaseReceive(p) \/ Destroy(p) \/ Deallocate(p)
      PROVE  Limbo'
  BY <1>0, <1>4
  DEF CopyoutReceive, ReleaseReceive, Destroy, Deallocate, Limbo, InCheck, TypeOK
<1>. QED
  BY <1>1, <1>2, <1>3, <1>4 DEF Next

(***************************************************************************)
(* The step that could close a circle                                      *)
(***************************************************************************)
\* A circle through the new link would leave the port for the destination
\* and run along the locked chain: the part of it that is locked would be a
\* circle already.
LEMMA LinkNoCircle ==
  ASSUME IInv, NEW t \in Threads, Link(t)
  PROVE  NoCircle'
<1>. DEFINE p == th[t].port
            rest == Held(t) \ {p}
<1>0. TypeOK /\ NoCircle /\ HeldAtLink(t) /\ p \in Ports
  BY DEF IInv, HeldBy, Link, Limbo, InCheck
<1>1. /\ Transit' = Transit \cup {p}
      /\ dest'[p] = th[t].dest
      /\ \A q \in Ports \ {p} : dest'[q] = dest[q]
  BY <1>0 DEF Link, TypeOK, Transit
<1>. SUFFICES ASSUME NEW C \in SUBSET Transit', C # {},
                     \A q \in C : dest'[q] \in C
              PROVE  FALSE
  BY DEF NoCircle, Transit
<1>2. CASE p \notin C
  <2>1. C \in SUBSET Transit /\ \A q \in C : dest[q] \in C
    BY <1>1, <1>2 DEF Transit
  <2>. QED
    BY <2>1, <1>0 DEF NoCircle, Transit
<1>3. CASE p \in C
  <2>. DEFINE K == C \cap rest
  <2>1. th[t].dest \in K
    BY <1>0, <1>1, <1>3 DEF HeldAtLink
  <2>2. K \in SUBSET Transit
    BY <1>1
  <2>3. \A q \in K : dest[q] \in K
    <3>. SUFFICES ASSUME NEW q \in K PROVE dest[q] \in K
      OBVIOUS
    <3>1. q \in Held(t) \cap Transit /\ q \in Ports \ {p}
      BY <2>2 DEF Transit
    <3>2. dest[q] \in rest
      BY <1>0, <3>1 DEF HeldAtLink, Chained
    <3>3. dest[q] \in C
      BY <1>1, <3>1
    <3>. QED
      BY <3>2, <3>3
  <2>. QED
    BY <2>1, <2>2, <2>3, <1>0 DEF NoCircle, Transit
<1>. QED
  BY <1>2, <1>3

LEMMA NoCircleStep == IInv /\ [Next]_vars => NoCircle'
<1>. SUFFICES ASSUME IInv, [Next]_vars PROVE NoCircle'
  OBVIOUS
<1>0. TypeOK /\ NoCircle
  BY DEF IInv
<1>1. CASE UNCHANGED <<place, dest>>
  BY <1>0, <1>1 DEF NoCircle
<1>2. ASSUME NEW t \in Threads, NEW p \in Ports, NEW d \in Ports,
             CopyinReceive(t, p, d)
      PROVE  NoCircle'
  <2>1. Transit' \subseteq Transit /\ \A q \in Transit' : dest'[q] = dest[q]
    BY <1>0, <1>2 DEF CopyinReceive, Transit, TypeOK
  <2>. QED
    BY <1>0, <2>1, NoCircleFrame
<1>3. ASSUME NEW t \in Threads, DestroyInLimbo(t) PROVE NoCircle'
  <2>1. Transit' \subseteq Transit /\ \A q \in Transit' : dest'[q] = dest[q]
    BY <1>0, <1>3 DEF DestroyInLimbo, Transit, TypeOK
  <2>. QED
    BY <1>0, <2>1, NoCircleFrame
<1>4. ASSUME NEW p \in Ports,
             CopyoutReceive(p) \/ ReleaseReceive(p) \/ Destroy(p) \/ Deallocate(p)
      PROVE  NoCircle'
  <2>1. Transit' \subseteq Transit /\ \A q \in Transit' : dest'[q] = dest[q]
    BY <1>0, <1>4
    DEF CopyoutReceive, ReleaseReceive, Destroy, Deallocate, Transit, TypeOK
  <2>. QED
    BY <1>0, <2>1, NoCircleFrame
<1>5. ASSUME NEW t \in Threads, Check(t) PROVE NoCircle'
  <2>1. CASE Link(t)
    BY <2>1, LinkNoCircle
  <2>2. CASE DestroyInLimbo(t)
    BY <2>2, <1>3
  <2>3. CASE ~Link(t) /\ ~DestroyInLimbo(t)
    BY <1>5, <2>3, <1>1
    DEF Check, LockPort, TryDest, LockMultiple, Walk, FoundCircle, FoundEnd,
        Unlock, UnlockCircle
  <2>. QED
    BY <2>1, <2>2, <2>3
<1>. QED
  BY <1>1, <1>2, <1>4, <1>5 DEF Next, vars

(***************************************************************************)
(* A thread's own steps through the chain                                  *)
(***************************************************************************)
LEMMA Locking ==
  ASSUME TypeOK, NEW t \in Threads, NEW p \in Ports
  PROVE  /\ Locks(t, p) => Held(t)' = Held(t) \cup {p} /\ p \notin Held(t)
         /\ Unlocks(p) => Held(t)' = Held(t) \ {p}
BY PortTransitAssumption DEF TypeOK, Locks, Unlocks, Free, Held

\* The walk locks one more port of the chain; were it to come back to a port
\* it has locked, the ports locked so far would be a circle in transit.
LEMMA WalkHeld ==
  ASSUME IInv, NEW t \in Threads, Walk(t)
  PROVE  HeldBy(t)'
<1>. DEFINE base == th[t].at
<1>0. TypeOK /\ NoCircle /\ HeldInWalk(t) /\ th[t].port # th[t].dest
  BY DEF IInv, HeldBy, Walk
<1>1. base \in Ports /\ Held(t) \subseteq Transit
  BY <1>0 DEF HeldInWalk
<1>2. Held(t)' = Held(t) \cup {base} /\ base \notin Held(t)
  BY <1>0, <1>1, Locking DEF Walk
<1>3. Transit' = Transit /\ dest' = dest
  BY DEF Walk, Transit
<1>4. CASE place[base] = "transit"
  <2>1. /\ th'[t].pc = "walk" /\ th'[t].at = dest[base]
        /\ th'[t].port = th[t].port /\ th'[t].dest = th[t].dest
    BY <1>0, <1>4, Going DEF Walk
  <2>2. base \in Transit /\ Held(t)' \subseteq Transit
    BY <1>1, <1>2, <1>4 DEF Transit
  \* the destination of the base is not on the chain: no circle
  <2>3. dest[base] \notin Held(t)'
    <3>. SUFFICES ASSUME dest[base] \in Held(t) \cup {base} PROVE FALSE
      BY <1>2
    <3>. DEFINE C == {q \in Ports : place[q] = "transit"} \cap (Held(t) \cup {base})
    <3>a. \A q \in Held(t) : q \in Ports /\ place[q] = "transit"
      BY <1>1 DEF Transit
    <3>1. base \in C
      BY <1>1, <1>4
    <3>2. \A q \in C : dest[q] \in Held(t) \cup {base}
      BY <1>0, <3>a DEF HeldInWalk, Chained, Transit
    <3>3. \A q \in C : dest[q] \in C
      BY <3>2, <3>a, <3>1
    <3>4. C \in SUBSET {q \in Ports : place[q] = "transit"}
      OBVIOUS
    <3>. HIDE DEF C
    <3>. QED
      BY <1>0, <3>1, <3>3, <3>4 DEF NoCircle
  <2>4. dest[base] \in Ports
    BY <1>4, <1>1 DEF IInv, Aimed
  <2>5. HeldInWalk(t)'
    BY <1>0, <1>2, <1>3, <2>1, <2>2, <2>3, <2>4
    DEF HeldInWalk, Chained
  <2>. QED
    BY <1>0, <2>1, <2>5 DEF HeldBy
<1>5. CASE place[base] # "transit"
  <2>1. /\ th'[t].pc = "found" /\ th'[t].at = base
        /\ th'[t].port = th[t].port /\ th'[t].dest = th[t].dest
    BY <1>0, <1>5, Going DEF Walk
  <2>2. HeldAtEnd(t)'
    BY <1>0, <1>1, <1>2, <1>3, <1>5, <2>1
    DEF HeldAtEnd, HeldInWalk, Chained, Transit
  <2>. QED
    BY <1>0, <2>1, <2>2 DEF HeldBy
<1>. QED
  BY <1>4, <1>5

LEMMA FoundCircleHeld ==
  ASSUME IInv, NEW t \in Threads, FoundCircle(t)
  PROVE  HeldBy(t)'
<1>0. TypeOK /\ HeldAtEnd(t)
  BY DEF IInv, HeldBy, FoundCircle
<1>1. /\ th'[t].pc = "unlockCircle" /\ th'[t].at = th[t].dest
      /\ Held(t)' = Held(t) /\ Transit' = Transit /\ dest' = dest
  BY <1>0, Going DEF FoundCircle, Held, Transit
<1>2. HeldInUnlock(t)'
  BY <1>0, <1>1 DEF HeldInUnlock, HeldAtEnd, Chained
<1>. QED
  BY <1>1, <1>2 DEF HeldBy

LEMMA FoundEndHeld ==
  ASSUME IInv, NEW t \in Threads, FoundEnd(t)
  PROVE  HeldBy(t)'
<1>0. TypeOK /\ HeldAtEnd(t) /\ th[t].port # th[t].dest /\ th[t].port \in Ports
  BY DEF IInv, HeldBy, FoundEnd, Limbo, InCheck
<1>1. /\ th'[t].pc = "link" /\ th'[t].at = th[t].at
      /\ th'[t].port = th[t].port /\ th'[t].dest = th[t].dest
      /\ Transit' = Transit /\ dest' = dest
  BY <1>0, Going DEF FoundEnd, Transit
<1>2. Held(t)' = Held(t) \cup {th[t].port} /\ th[t].port \notin Held(t)
  BY <1>0, Locking DEF FoundEnd
<1>3. Held(t)' \ {th[t].port} = Held(t)
  BY <1>2
<1>4. HeldAtLink(t)'
  <2>1. place[th[t].port] = "limbo"
    BY DEF IInv, FoundEnd, Limbo, InCheck
  <2>2. Held(t)' \cap Transit' = Held(t) \cap Transit
    BY <1>1, <1>2, <2>1 DEF Transit
  <2>3. \A p \in Held(t)' \cap Transit' :
          /\ dest'[p] \in Held(t) /\ dest'[p] # th[t].dest
          /\ \A q \in Held(t)' \cap Transit' : dest'[q] = dest'[p] => q = p
    BY <1>0, <1>1, <2>2 DEF HeldAtEnd, Chained
  <2>. QED
    BY <1>0, <1>1, <1>2, <1>3, <2>3 DEF HeldAtLink, HeldAtEnd, Chained
<1>. QED
  BY <1>0, <1>1, <1>4 DEF HeldBy

LEMMA TryDestHeld ==
  ASSUME IInv, NEW t \in Threads, TryDest(t)
  PROVE  HeldBy(t)'
<1>. DEFINE p == th[t].port
            d == th[t].dest
<1>0. /\ TypeOK /\ Held(t) = {p} /\ p # d
      /\ p \in Ports /\ d \in Ports /\ place[p] = "limbo"
  BY DEF IInv, HeldBy, TryDest, Limbo, InCheck
<1>1. /\ Transit' = Transit /\ dest' = dest
      /\ th'[t].port = p /\ th'[t].dest = d
  BY <1>0, Going DEF TryDest, Transit
<1>2. CASE Free(d) /\ place[d] # "transit"
  <2>1. Locks(t, d) /\ GoesAt(t, "link", d)
    BY <1>2 DEF TryDest, Locks
  <2>2. Held(t)' = {p, d} /\ th'[t].pc = "link" /\ th'[t].at = d
    BY <1>0, <2>1, Locking, Going
  <2>3. HeldAtLink(t)'
    BY <1>0, <1>1, <1>2, <2>2 DEF HeldAtLink, Chained, Transit
  <2>. QED
    BY <1>0, <1>1, <2>2, <2>3 DEF HeldBy
<1>3. CASE ~(Free(d) /\ place[d] # "transit")
  <2>1. Unlocks(p) /\ Goes(t, "multiple")
    BY <1>3 DEF TryDest
  <2>2. Held(t)' = {} /\ th'[t].pc = "multiple"
    BY <1>0, <2>1, Locking, Going
  <2>. QED
    BY <1>0, <1>1, <2>2 DEF HeldBy
<1>. QED
  BY <1>2, <1>3

LEMMA LinkHeld ==
  ASSUME IInv, NEW t \in Threads, Link(t)
  PROVE  HeldBy(t)'
<1>. DEFINE p == th[t].port
<1>0. TypeOK /\ HeldAtLink(t) /\ p \in Ports /\ th[t].dest # p
  BY DEF IInv, HeldBy, Link, Limbo, InCheck
<1>1. th'[t].pc = "unlock" /\ th'[t].at = p /\ Held(t)' = Held(t)
  BY <1>0, Going DEF Link, Held
<1>2. /\ Transit' = Transit \cup {p} /\ dest'[p] = th[t].dest
      /\ \A q \in Ports \ {p} : dest'[q] = dest[q]
  BY <1>0 DEF Link, TypeOK, Transit
<1>3. /\ p \in Held(t) /\ th[t].dest \in Held(t) \ {p}
      /\ (Held(t) \ {p}) \ {th[t].at} \subseteq Transit
  BY <1>0 DEF HeldAtLink
<1>4. \A q \in (Held(t) \cap Transit) \ {p} :
        /\ dest'[q] = dest[q] /\ dest[q] \in Held(t) \ {p}
        /\ dest[q] # th[t].dest
  BY <1>0, <1>2 DEF HeldAtLink, Chained, Held
<1>5. \A q, r \in (Held(t) \cap Transit) \ {p} : dest[q] = dest[r] => q = r
  BY <1>0 DEF HeldAtLink, Chained
<1>6. HeldInUnlock(t)'
  BY <1>1, <1>2, <1>3, <1>4, <1>5 DEF HeldInUnlock, Chained
<1>. QED
  BY <1>1, <1>6 DEF HeldBy

\* What unlocking the cursor's port does: on to the next port of the chain,
\* or, at the end, nothing is left.
LEMMA Unlocking ==
  ASSUME TypeOK, NoCircle, NEW t \in Threads, HeldInUnlock(t),
         Unlocks(th[t].at), place' = place, dest' = dest
  PROVE  /\ th[t].at \in Transit /\ th'[t].at = dest[th[t].at]
              => HeldInUnlock(t)'
         /\ th[t].at \notin Transit => Held(t)' = {}
<1>. DEFINE p == th[t].at
<1>1. p \in Held(t) /\ Held(t) \subseteq Ports /\ Transit' = Transit
  BY DEF HeldInUnlock, Held, Transit
<1>2. Held(t)' = Held(t) \ {p}
  BY <1>1, Locking
<1>3. ASSUME p \in Transit, th'[t].at = dest[p] PROVE HeldInUnlock(t)'
  BY <1>1, <1>2, <1>3 DEF HeldInUnlock, Chained
<1>4. ASSUME p \notin Transit PROVE Held(t)' = {}
  <2>. DEFINE K == Held(t) \ {p}
  <2>1. \A q \in K : q \in Transit
    BY <1>1, <1>4 DEF HeldInUnlock
  <2>2. \A q \in K : dest[q] \in K
    BY <2>1 DEF HeldInUnlock, Chained
  <2>3. K \in SUBSET {q \in Ports : place[q] = "transit"}
    BY <2>1 DEF Transit
  <2>. HIDE DEF K
  <2>4. K = {}
    BY <2>2, <2>3 DEF NoCircle
  <2>. QED
    BY <1>2, <2>4 DEF K
<1>. QED
  BY <1>3, <1>4

LEMMA UnlockHeld ==
  ASSUME IInv, NEW t \in Threads, Unlock(t) \/ UnlockCircle(t)
  PROVE  HeldBy(t)'
<1>0. /\ TypeOK /\ NoCircle /\ HeldInUnlock(t) /\ place' = place /\ dest' = dest
      /\ Unlocks(th[t].at) /\ th[t].at \in Ports
  BY DEF IInv, HeldBy, Unlock, UnlockCircle, HeldInUnlock, Held
<1>1. CASE place[th[t].at] = "transit"
  <2>1. th'[t].pc \in {"unlock", "unlockCircle"} /\ th'[t].at = dest[th[t].at]
    BY <1>0, <1>1, Going DEF Unlock, UnlockCircle
  <2>2. HeldInUnlock(t)'
    BY <1>0, <1>1, <2>1, Unlocking DEF Transit
  <2>. QED
    BY <2>1, <2>2 DEF HeldBy
<1>2. CASE place[th[t].at] # "transit"
  <2>1. th'[t].pc \in {"idle", "destroy"}
    BY <1>0, <1>2 DEF Unlock, UnlockCircle, TypeOK, Idle, Goes
  <2>2. Held(t)' = {}
    BY <1>0, <1>2, Unlocking DEF Transit
  <2>. QED
    BY <2>1, <2>2 DEF HeldBy
<1>. QED
  BY <1>1, <1>2

LEMMA CheckHeld ==
  ASSUME IInv, NEW t \in Threads, Check(t)
  PROVE  HeldBy(t)'
<1>0. TypeOK /\ HeldBy(t)
  BY DEF IInv
<1>1. CASE LockPort(t)
  <2>1. /\ th'[t].pc = "tryDest" /\ th'[t].port = th[t].port
        /\ th'[t].dest = th[t].dest /\ th[t].port \in Ports
    BY <1>0, <1>1, Going DEF LockPort, IInv, Limbo, InCheck
  <2>2. Held(t)' = {th[t].port} /\ th[t].port # th[t].dest
    BY <1>0, <1>1, <2>1, Locking DEF LockPort, HeldBy
  <2>. QED
    BY <2>1, <2>2 DEF HeldBy
<1>2. CASE LockMultiple(t)
  <2>1. /\ th'[t].pc = "walk" /\ th'[t].at = th[t].dest
        /\ th'[t].port = th[t].port /\ th'[t].dest = th[t].dest
        /\ th[t].dest \in Ports /\ Held(t)' = Held(t)
    BY <1>0, <1>2, Going DEF LockMultiple, IInv, Limbo, InCheck, Held
  <2>2. Held(t) = {} /\ th[t].port # th[t].dest
    BY <1>0, <1>2 DEF LockMultiple, HeldBy
  <2>. QED
    BY <2>1, <2>2 DEF HeldBy, HeldInWalk, Chained
<1>3. CASE DestroyInLimbo(t)
  BY <1>0, <1>3 DEF DestroyInLimbo, HeldBy, Held, TypeOK, Idle
<1>. QED
  BY <1>1, <1>2, <1>3, TryDestHeld, WalkHeld, FoundCircleHeld, FoundEndHeld,
     LinkHeld, UnlockHeld DEF Check

\* What a thread does in the check touches only its own locks, and changes
\* only a port that it has locked or that is free.
LEMMA CheckLocal ==
  ASSUME IInv, NEW t \in Threads, Check(t)
  PROVE  /\ \A u \in Threads \ {t} : th'[u] = th[u]
         /\ \A p \in Ports : lock'[p] # lock[p] =>
                               {lock[p], lock'[p]} \subseteq {t, None}
         /\ \A p \in Ports : place'[p] # place[p] \/ dest'[p] # dest[p] =>
                               lock[p] \in {t, None}
<1>0. TypeOK /\ HeldBy(t)
  BY DEF IInv
<1>1. CASE LockPort(t) \/ LockMultiple(t) \/ Walk(t) \/ FoundCircle(t) \/ FoundEnd(t)
  BY <1>0, <1>1
  DEF LockPort, LockMultiple, Walk, FoundCircle, FoundEnd, Locks, Free, TypeOK,
      Goes, GoesAt
<1>2. CASE TryDest(t)
  <2>1. lock[th[t].port] = t
    BY <1>0, <1>2 DEF TryDest, HeldBy, Held
  <2>. QED
    BY <1>0, <1>2, <2>1 DEF TryDest, Free, TypeOK, Goes, GoesAt, Unlocks
<1>3. CASE Link(t)
  <2>1. lock[th[t].port] = t
    BY <1>0, <1>3 DEF Link, HeldBy, HeldAtLink, Held
  <2>. QED
    BY <1>0, <1>3, <2>1 DEF Link, TypeOK, GoesAt
<1>4. CASE Unlock(t) \/ UnlockCircle(t)
  <2>1. lock[th[t].at] = t
    BY <1>0, <1>4 DEF Unlock, UnlockCircle, HeldBy, HeldInUnlock, Held
  <2>. QED
    BY <1>0, <1>4, <2>1
    DEF Unlock, UnlockCircle, TypeOK, Goes, GoesAt, Unlocks
<1>5. CASE DestroyInLimbo(t)
  BY <1>0, <1>5 DEF DestroyInLimbo, Free, TypeOK
<1>. QED
  BY <1>1, <1>2, <1>3, <1>4, <1>5 DEF Check

LEMMA HeldByStep == IInv /\ [Next]_vars => \A u \in Threads : HeldBy(u)'
<1>. SUFFICES ASSUME IInv, [Next]_vars, NEW u \in Threads PROVE HeldBy(u)'
  OBVIOUS
<1>0. TypeOK /\ HeldBy(u)
  BY DEF IInv
<1>1. CASE UNCHANGED vars
  <2>1. Held(u)' = Held(u)
    BY <1>1 DEF Held, vars
  <2>. QED
    BY <1>0, <1>1, <2>1, HeldByFrame DEF vars
<1>2. ASSUME NEW t \in Threads, NEW p \in Ports, NEW d \in Ports,
             CopyinReceive(t, p, d)
      PROVE  HeldBy(u)'
  <2>1. lock' = lock /\ dest' = dest
        /\ \A q \in Ports : place'[q] # place[q] => lock[q] = None
    BY <1>0, <1>2 DEF CopyinReceive, TypeOK, Free
  <2>2. CASE u = t
    <3>1. /\ th'[t].pc = IF p = d THEN "destroy" ELSE "lockPort"
          /\ th'[t].port = p /\ th'[t].dest = d
      BY <1>0, <1>2 DEF CopyinReceive, TypeOK
    <3>2. Held(t)' = {}
      BY <1>0, <1>2, <2>1, <2>2 DEF CopyinReceive, HeldBy, Held, Idle
    <3>. QED
      BY <2>2, <3>1, <3>2 DEF HeldBy
  <2>3. CASE u # t
    <3>1. th'[u] = th[u]
      BY <1>0, <1>2, <2>3 DEF CopyinReceive, TypeOK
    <3>. QED
      BY <1>0, <2>1, <2>3, <3>1, OthersKeepChains
  <2>. QED
    BY <2>2, <2>3
<1>3. ASSUME NEW t \in Threads, Check(t) PROVE HeldBy(u)'
  <2>1. CASE u = t
    BY <1>3, <2>1, CheckHeld
  <2>2. CASE u # t
    BY <1>0, <1>3, <2>2, CheckLocal, OthersKeepChains
  <2>. QED
    BY <2>1, <2>2
<1>4. ASSUME NEW p \in Ports,
             CopyoutReceive(p) \/ ReleaseReceive(p) \/ Destroy(p) \/ Deallocate(p)
      PROVE  HeldBy(u)'
  <2>1. /\ lock' = lock /\ th' = th
        /\ \A q \in Ports : place'[q] # place[q] \/ dest'[q] # dest[q]
                              => lock[q] = None
    BY <1>0, <1>4
    DEF CopyoutReceive, ReleaseReceive, Destroy, Deallocate, TypeOK, Free
  <2>2. Held(u)' = Held(u)
        /\ \A q \in Held(u) : place'[q] = place[q] /\ dest'[q] = dest[q]
    BY <2>1, PortTransitAssumption DEF Held
  <2>. QED
    BY <1>0, <2>1, <2>2, HeldByFrame
<1>. QED
  BY <1>1, <1>2, <1>3, <1>4 DEF Next

LEMMA AimedStep == IInv /\ [Next]_vars => Aimed'
<1>. SUFFICES ASSUME IInv, [Next]_vars PROVE Aimed'
  OBVIOUS
<1>0. TypeOK /\ Aimed
  BY DEF IInv
<1>1. CASE UNCHANGED <<place, dest>>
  BY <1>0, <1>1 DEF Aimed
<1>2. ASSUME NEW t \in Threads, NEW p \in Ports, NEW d \in Ports,
             CopyinReceive(t, p, d)
      PROVE  Aimed'
  BY <1>0, <1>2 DEF CopyinReceive, Aimed, TypeOK
<1>3. ASSUME NEW t \in Threads, Check(t) PROVE Aimed'
  <2>1. CASE Link(t)
    BY <1>0, <2>1 DEF IInv, Limbo, InCheck, Link, Aimed, TypeOK
  <2>2. CASE DestroyInLimbo(t)
    BY <1>0, <2>2 DEF DestroyInLimbo, Aimed, TypeOK
  <2>. QED
    BY <1>1, <1>3, <2>1, <2>2
    DEF Check, LockPort, TryDest, LockMultiple, Walk, FoundCircle, FoundEnd,
        Unlock, UnlockCircle
<1>4. ASSUME NEW p \in Ports,
             CopyoutReceive(p) \/ ReleaseReceive(p) \/ Destroy(p) \/ Deallocate(p)
      PROVE  Aimed'
  BY <1>0, <1>4
  DEF CopyoutReceive, ReleaseReceive, Destroy, Deallocate, Aimed, TypeOK
<1>. QED
  BY <1>1, <1>2, <1>3, <1>4 DEF Next, vars

LEMMA IInvStep == IInv /\ [Next]_vars => IInv'
BY TypeStep, LimboStep, AimedStep, NoCircleStep, HeldByStep DEF IInv

(***************************************************************************)
(* Theorems                                                                *)
(***************************************************************************)
THEOREM Invariance == Spec => []IInv
<1>. QED
  BY InitIInv, IInvStep, PTL DEF Spec

\* No circle of ports in transit (ipc_port_check_circularity): no set of
\* receive rights is queued up in one another where nobody can receive them.
THEOREM NoCircleEver == Spec => []NoCircle
<1>1. IInv => NoCircle
  BY DEF IInv
<1>. QED
  BY Invariance, <1>1, PTL

\* What the guarantee at ipc_port.c:788-791 says when a port is put in
\* transit: the port is in limbo and the whole chain from its destination is
\* locked by the thread and ends at another port.
THEOREM ChainHeldEver == Spec => []ChainHeld
<1>1. ASSUME IInv, NEW t \in Threads, th[t].pc = "link"
      PROVE  /\ place[th[t].port] = "limbo" /\ lock[th[t].port] = t
             /\ lock[th[t].dest] = t
             /\ \A p \in Ports : place[p] = "transit" /\ lock[p] = t
                                   => lock[dest[p]] = t
             /\ th[t].at # th[t].port /\ lock[th[t].at] = t
             /\ place[th[t].at] # "transit"
  <2>1. HeldAtLink(t) /\ place[th[t].port] = "limbo"
    BY <1>1 DEF IInv, HeldBy, Limbo, InCheck
  <2>. QED
    BY <2>1 DEF HeldAtLink, Chained, Held, Transit
<1>2. IInv => ChainHeld
  BY <1>1 DEF ChainHeld
<1>. QED
  BY Invariance, <1>2, PTL

(***************************************************************************)
(* Nobody touches a port that has been freed                               *)
(***************************************************************************)
\* Every port that a thread has locked, that a port in transit or a message
\* being sent goes to, or that the walk is about to lock, is still there: the
\* last of these is the destination or follows a port that the thread holds.
Pinned ==
  /\ \A p \in Ports : lock[p] # None => place[p] # "freed"
  /\ \A p \in Ports : dest[p] # None => place[dest[p]] # "freed"
  /\ \A t \in Threads : th[t].dest # None => place[th[t].dest] # "freed"
  /\ \A t \in Threads : th[t].pc = "walk" =>
       th[t].at = th[t].dest \/ \E p \in Held(t) : dest[p] = th[t].at

LEMMA PinnedCheck ==
  ASSUME IInv, Pinned, NEW t \in Threads, Check(t)
  PROVE  Pinned'
<1>0. TypeOK /\ HeldBy(t)
  BY DEF IInv
<1>1. /\ \A u \in Threads \ {t} : th'[u] = th[u]
      /\ \A p \in Ports : lock'[p] # lock[p] =>
                            {lock[p], lock'[p]} \subseteq {t, None}
      /\ \A p \in Ports : place'[p] # place[p] \/ dest'[p] # dest[p] =>
                            lock[p] \in {t, None}
  BY CheckLocal
<1>2. \A p \in Ports : place[p] # "freed" => place'[p] # "freed"
  BY <1>0 DEF Check, LockPort, TryDest, LockMultiple, Walk, FoundCircle,
              FoundEnd, Link, Unlock, UnlockCircle, DestroyInLimbo, TypeOK
<1>3. th'[t].dest = None \/ th'[t].dest = th[t].dest
  BY <1>0 DEF Check, LockPort, TryDest, LockMultiple, Walk, FoundCircle,
              FoundEnd, Link, Unlock, UnlockCircle, DestroyInLimbo, TypeOK,
              Goes, GoesAt, Idle
<1>4. \A p \in Ports : lock'[p] # None => place'[p] # "freed"
  <2>1. CASE LockPort(t) \/ FoundEnd(t)
    <3>1. place[th[t].port] = "limbo"
      BY <2>1 DEF LockPort, FoundEnd, IInv, Limbo, InCheck
    <3>. QED
      BY <1>0, <1>2, <2>1, <3>1 DEF LockPort, FoundEnd, Locks, Pinned, TypeOK
  <2>2. CASE TryDest(t)
    <3>1. th[t].dest \in Ports
      BY <2>2 DEF TryDest, IInv, Limbo, InCheck
    <3>. QED
      BY <1>0, <1>2, <2>2, <3>1, PortTransitAssumption
      DEF TryDest, Unlocks, Pinned, TypeOK
  <2>3. CASE Walk(t)
    <3>1. th[t].at \in Ports
      BY <2>3, <1>0 DEF Walk, HeldBy, HeldInWalk
    <3>2. place[th[t].at] # "freed"
      BY <1>0, <2>3, <3>1, PortTransitAssumption DEF Walk, Pinned, Held
    <3>. QED
      BY <1>0, <1>2, <2>3, <3>1, <3>2 DEF Walk, Locks, Pinned, TypeOK
  <2>4. CASE Unlock(t) \/ UnlockCircle(t)
    BY <1>0, <1>2, <2>4 DEF Unlock, UnlockCircle, Unlocks, Pinned, TypeOK
  <2>5. CASE LockMultiple(t) \/ FoundCircle(t) \/ Link(t) \/ DestroyInLimbo(t)
    BY <1>2, <2>5
    DEF LockMultiple, FoundCircle, Link, DestroyInLimbo, Pinned
  <2>. QED
    BY <2>1, <2>2, <2>3, <2>4, <2>5 DEF Check
<1>5. \A p \in Ports : dest'[p] # None => place'[dest'[p]] # "freed"
  <2>1. CASE Link(t)
    <3>1. th[t].dest \in Ports
      BY <2>1 DEF Link, IInv, Limbo, InCheck
    <3>. QED
      BY <1>0, <1>2, <2>1, <3>1, PortTransitAssumption DEF Link, Pinned, TypeOK
  <2>2. CASE ~Link(t)
    <3>1. dest' = dest
      BY <2>2 DEF Check, LockPort, TryDest, LockMultiple, Walk, FoundCircle,
                  FoundEnd, Unlock, UnlockCircle, DestroyInLimbo
    <3>. QED
      BY <1>0, <1>2, <3>1 DEF Pinned, TypeOK
  <2>. QED
    BY <2>1, <2>2
<1>6. \A u \in Threads : th'[u].dest # None => place'[th'[u].dest] # "freed"
  BY <1>0, <1>1, <1>2, <1>3 DEF Pinned, TypeOK
<1>7. ASSUME NEW u \in Threads, th'[u].pc = "walk"
      PROVE  th'[u].at = th'[u].dest \/ \E p \in Held(u)' : dest'[p] = th'[u].at
  <2>1. CASE u # t
    <3>1. th'[u] = th[u]
      BY <1>1, <2>1
    <3>2. \A p \in Held(u) : p \in Held(u)' /\ dest'[p] = dest[p]
      BY <1>1, <2>1, PortTransitAssumption DEF Held
    <3>. QED
      BY <1>7, <3>1, <3>2 DEF Pinned
  <2>2. CASE u = t
    <3>1. LockMultiple(t) \/ Walk(t)
      BY <1>0, <1>3, <1>7, <2>2
      DEF Check, LockPort, TryDest, LockMultiple, Walk, FoundCircle, FoundEnd,
          Link, Unlock, UnlockCircle, DestroyInLimbo, TypeOK, Goes, GoesAt, Idle
    <3>2. CASE LockMultiple(t)
      BY <1>0, <2>2, <3>2, Going DEF LockMultiple
    <3>3. CASE Walk(t)
      <4>1. th[t].at \in Ports
        BY <3>3, <1>0 DEF Walk, HeldBy, HeldInWalk
      <4>2. th[t].at \in Held(t)'
        BY <1>0, <4>1, <3>3, Locking DEF Walk
      <4>3. th'[t].at = dest[th[t].at] /\ dest' = dest
        BY <1>0, <1>7, <2>2, <3>3, Going DEF Walk, TypeOK, Goes, GoesAt
      <4>. QED
        BY <2>2, <4>2, <4>3
    <3>. QED
      BY <3>1, <3>2, <3>3
  <2>. QED
    BY <2>1, <2>2
<1>. QED
  BY <1>4, <1>5, <1>6, <1>7 DEF Pinned

LEMMA PinnedStep == IInv /\ Pinned /\ [Next]_vars => Pinned'
<1>. SUFFICES ASSUME IInv, Pinned, [Next]_vars PROVE Pinned'
  OBVIOUS
<1>0. TypeOK
  BY DEF IInv
<1>1. CASE UNCHANGED vars
  BY <1>1 DEF vars, Pinned, Held
<1>2. ASSUME NEW t \in Threads, NEW p \in Ports, NEW d \in Ports,
             CopyinReceive(t, p, d)
      PROVE  Pinned'
  <2>1. \A q \in Ports : place[q] # "freed" => place'[q] # "freed"
    BY <1>0, <1>2 DEF CopyinReceive, TypeOK
  <2>2. /\ lock' = lock /\ dest' = dest /\ place[d] # "freed"
        /\ th'[t].dest = d /\ th'[t].pc # "walk"
        /\ \A u \in Threads \ {t} : th'[u] = th[u]
    BY <1>0, <1>2 DEF CopyinReceive, TypeOK
  <2>. QED
    BY <1>0, <2>1, <2>2 DEF Pinned, TypeOK, Held
<1>3. ASSUME NEW t \in Threads, Check(t) PROVE Pinned'
  BY <1>3, PinnedCheck
<1>4. ASSUME NEW p \in Ports, CopyoutReceive(p) \/ ReleaseReceive(p) \/ Destroy(p)
      PROVE  Pinned'
  <2>1. \A q \in Ports : place[q] # "freed" => place'[q] # "freed"
    BY <1>0, <1>4 DEF CopyoutReceive, ReleaseReceive, Destroy, TypeOK
  <2>2. /\ lock' = lock /\ th' = th
        /\ \A q \in Ports : dest'[q] \in {dest[q], None}
        /\ \A q \in Ports : lock[q] # None => dest'[q] = dest[q]
    BY <1>0, <1>4
    DEF CopyoutReceive, ReleaseReceive, Destroy, TypeOK, Free
  <2>3. \A u \in Threads : \A q \in Held(u) : dest'[q] = dest[q]
    BY <2>2, PortTransitAssumption DEF Held
  <2>. QED
    BY <1>0, <2>1, <2>2, <2>3 DEF Pinned, TypeOK, Held
<1>5. ASSUME NEW d \in Ports, Deallocate(d) PROVE Pinned'
  BY <1>0, <1>5 DEF Deallocate, Pinned, TypeOK, Held, Free
<1>. QED
  BY <1>1, <1>2, <1>3, <1>4, <1>5 DEF Next

\* A port that a thread has locked, or is about to, has not been freed: the
\* reference that each port in transit, and each message, has to its
\* destination keeps the whole chain (ipc_port.h:223-232, ipc_port.c:703-835).
THEOREM TouchesLiveEver == Spec => []TouchesLive
<1>1. IInv /\ Pinned => TouchesLive
  <2>. SUFFICES ASSUME IInv, Pinned, NEW t \in Threads
                PROVE  /\ \A p \in Ports : lock[p] = t => place[p] # "freed"
                       /\ th[t].pc \in {"walk", "unlock", "unlockCircle"}
                            => place[th[t].at] # "freed"
    BY DEF TouchesLive
  <2>1. \A p \in Ports : lock[p] = t => place[p] # "freed"
    BY PortTransitAssumption DEF Pinned
  <2>2. CASE th[t].pc \in {"unlock", "unlockCircle"}
    BY <2>1, <2>2 DEF IInv, HeldBy, HeldInUnlock, Held
  <2>3. CASE th[t].pc = "walk"
    <3>1. th[t].at \in Ports
      BY <2>3 DEF IInv, HeldBy, HeldInWalk
    <3>. QED
      BY <2>1, <2>3, <3>1, PortTransitAssumption DEF Pinned, Held
  <2>. QED
    BY <2>1, <2>2, <2>3
<1>2. Init => Pinned
  BY DEF Init, Pinned, Idle
<1>. QED
  BY Invariance, PinnedStep, <1>1, <1>2, PTL DEF Spec

=============================================================================
