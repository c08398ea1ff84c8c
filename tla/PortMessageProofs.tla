-------------------------- MODULE PortMessageProofs --------------------------
(***************************************************************************)
(* Proofs about PortMessage for any threads, ports and sets: the slots of  *)
(* a port are its messages and those that are to be posted, nobody waits   *)
(* on a port for what is there (both unless a limit is raised under        *)
(* waiting senders), and the queues implement PortQueue.                   *)
(*                                                                         *)
(* What an action does is said once, in the same form for all of them      *)
(* (Step): one thread moves on (or sleeps), others are woken (Moves); its  *)
(* port's lock, the messages and who listens change as the parts of Step   *)
(* allow.  Each part of the invariant is kept by any Step.                 *)
(***************************************************************************)
EXTENDS PortMessage, FiniteSetTheorems, TLAPS

SenderPCs == {"send", "full", "post", "enqueue"}
ReceiverPCs == {"receive", "receiving"}
OwnerPCs == {"match", "destroy", "drain"}
WaitPCs == {"full", "receiving"}
LockPCs == {"post", "enqueue", "match"}

\* The last message of a sender.
Latest(t) == [from |-> t, no |-> made[t]]

PortRecord == [queue : Seq(Messages), count : 0 .. Wrap - 1, full : BOOLEAN,
               limit : 1 .. Wrap - 1, lock : Threads \cup {None}]

ThreadOK(t) ==
  \/ th[t] = Idle
  \/ /\ t \in Senders /\ th[t].pc \in SenderPCs /\ th[t].at \in Ports
     /\ th[t] = At(th[t].pc, th[t].at, Latest(t)) /\ Latest(t) \in Messages
  \/ /\ t \in Receivers /\ th[t].pc \in ReceiverPCs /\ th[t].at \in Queues
     /\ th[t] = At(th[t].pc, th[t].at, None)
  \/ /\ t \in Owners /\ th[t].pc \in OwnerPCs /\ th[t].at \in Ports
     /\ th[t] = At(th[t].pc, th[t].at, th[t].msg)

ThreadsOK == /\ DOMAIN th = Threads /\ \A t \in Threads : ThreadOK(t)
             /\ made \in [Threads -> Nat]

PortsOK == /\ port \in [Ports -> PortRecord]
           /\ taken \in [Ports -> Seq(Messages)]
           /\ live \subseteq Queues

LinksOK == /\ waitq \in [Queues -> Seq(Threads \cup Sets)]
           /\ links \in [Sets -> Seq(Ports)]
           /\ \A s \in Sets : ToSet(waitq[s]) \cap Sets = {}

\* The queues hold the threads that wait.
Waiting(t) == th[t].pc \in WaitPCs

WaitersOK ==
  \A q \in Queues, t \in Threads :
    t \in ToSet(waitq[q]) <=> Waiting(t) /\ th[t].at = q

\* A lock is held by a thread in a loop of its port, always until an enqueue.
LockOK ==
  /\ \A p \in Ports, t \in Threads :
       port[p].lock = t => th[t].at = p /\ th[t].pc \in LockPCs
  /\ \A t \in Threads : th[t].pc = "enqueue" => port[th[t].at].lock = t

\* A message that was sent is no longer in the hands of its sender, ...
Made(m) ==
  m.no <= made[m.from] /\ (th[m.from].pc \in SenderPCs => m.no < made[m.from])

\* ... and not twice in a queue.
FreshOK ==
  \A p \in Ports :
    /\ IsInjective(port[p].queue)
    /\ \A m \in ToSet(port[p].queue) \cup ToSet(taken[p]) : Made(m)

DeadOK ==
  \A t \in Threads : th[t].pc \in {"destroy", "drain"} => th[t].at \notin live

\* Who waits for a message finds none when it comes, and none is queued
\* before the thread has been looked for.
Listens(t, p) == th[t].pc = "receiving" /\ th[t].at = p

ListenOK ==
  \A p \in Ports, t \in Threads :
    /\ Listens(t, p) => port[p].queue = <<>>
    /\ th[t].pc = "enqueue" /\ th[t].at = p => \A u \in Threads : ~Listens(u, p)

Inv == /\ ThreadsOK /\ PortsOK /\ LinksOK
       /\ WaitersOK /\ LockOK /\ FreshOK /\ DeadOK /\ ListenOK

------------------------------------------------------------------------------
(***************************************************************************)
(* The links of a wait queue                                               *)
(***************************************************************************)
\* The positions of K up to i.
Upto(K, i) == {j \in K : j <= i}

\* Rank numbers the positions of K from 1 on.
LEMMA Ranks ==
  ASSUME NEW n \in Nat, NEW K \in SUBSET (1 .. n)
  PROVE  /\ Cardinality(K) \in Nat
         /\ \A i \in K : Rank(K, i) \in 1 .. Cardinality(K)
         /\ \A i, j \in K : Rank(K, i) = Rank(K, j) => i = j
         /\ \A m \in 1 .. Cardinality(K) : \E i \in K : Rank(K, i) = m
<1>1. IsFiniteSet(K) /\ Cardinality(K) \in Nat
  <2>1. IsFiniteSet(1 .. n)
    BY FS_Interval
  <2>2. IsFiniteSet(K)
    BY <2>1, FS_Subset
  <2> QED
    BY <2>2, FS_CardinalityType
<1>2. \A i \in K : IsFiniteSet(Upto(K, i)) /\ Rank(K, i) \in 1 .. Cardinality(K)
  <2> SUFFICES ASSUME NEW i \in K
               PROVE  IsFiniteSet(Upto(K, i)) /\ Rank(K, i) \in 1 .. Cardinality(K)
    OBVIOUS
  <2>1. /\ IsFiniteSet(Upto(K, i)) /\ Cardinality(Upto(K, i)) \in Nat
        /\ Cardinality(Upto(K, i)) <= Cardinality(K)
    <3>1. Upto(K, i) \in SUBSET K
      BY DEF Upto
    <3>2. IsFiniteSet(Upto(K, i)) /\ Cardinality(Upto(K, i)) <= Cardinality(K)
      BY <1>1, <3>1, FS_Subset
    <3> QED
      BY <3>2, FS_CardinalityType
  <2>2. i \in Upto(K, i)
    BY DEF Upto
  <2>3. Cardinality(Upto(K, i)) # 0
    BY <2>1, <2>2, FS_EmptySet
  <2>4. Rank(K, i) = Cardinality(Upto(K, i))
    BY DEF Rank, Upto
  <2>5. Rank(K, i) \in 1 .. Cardinality(K)
    BY <1>1, <2>1, <2>3, <2>4
  <2> QED
    BY <2>1, <2>5
<1>3. ASSUME NEW i \in K, NEW j \in K, i < j PROVE Rank(K, i) < Rank(K, j)
  <2>1. /\ Upto(K, i) \in SUBSET Upto(K, j)
        /\ j \in Upto(K, j) /\ j \notin Upto(K, i)
    <3>1. K \subseteq Int
      OBVIOUS
    <3>2. \A k \in K : k <= i => k <= j
      BY <1>3, <3>1
    <3>3. j <= j /\ ~(j <= i)
      BY <1>3, <3>1
    <3> QED
      BY <3>2, <3>3 DEF Upto
  <2>2. /\ Cardinality(Upto(K, i)) <= Cardinality(Upto(K, j))
        /\ Cardinality(Upto(K, i)) # Cardinality(Upto(K, j))
    <3>1. IsFiniteSet(Upto(K, j))
      BY <1>2
    <3>2. /\ Cardinality(Upto(K, i)) <= Cardinality(Upto(K, j))
          /\ Cardinality(Upto(K, j)) = Cardinality(Upto(K, i))
               => Upto(K, j) = Upto(K, i)
      BY <2>1, <3>1, FS_Subset
    <3> QED
      BY <2>1, <3>2
  <2>3. /\ Rank(K, i) = Cardinality(Upto(K, i))
        /\ Rank(K, j) = Cardinality(Upto(K, j))
    BY DEF Rank, Upto
  <2> QED
    BY <1>1, <1>2, <2>2, <2>3
<1>4. \A i, j \in K : Rank(K, i) = Rank(K, j) => i = j
  BY <1>1, <1>2, <1>3
<1> DEFINE f == [i \in K |-> Rank(K, i)]
           T == 1 .. Cardinality(K)
<1>5. f \in Injection(K, T)
  BY <1>2, <1>4 DEF Injection, IsInjective
<1>6. IsFiniteSet(T) /\ Cardinality(T) = Cardinality(K)
  BY <1>1, FS_Interval
<1>7. f \in Surjection(K, T)
  <2> HIDE DEF f, T
  <2> QED
    BY <1>5, <1>6, FS_Injection
<1>8. \A m \in T : \E i \in K : f[i] = m
  <2> HIDE DEF f, T
  <2> QED
    BY <1>7 DEF Surjection
<1> QED
  BY <1>1, <1>2, <1>4, <1>8

\* What Kept leaves of a queue, and what comes first.
LEMMA KeptLinks ==
  ASSUME NEW S, NEW q \in Seq(S), NEW K \in SUBSET DOMAIN q
  PROVE  /\ Kept(q, K) \in Seq(S)
         /\ ToSet(Kept(q, K)) = {q[i] : i \in K}
         /\ Foremost(q, K, 0) = {} /\ Cardinality(K) \in Nat
         /\ K # {} => \E i \in K : Foremost(q, K, 1) = {q[i]}
<1> DEFINE n == Cardinality(K)
           Place(m) == CHOOSE i \in K : Rank(K, i) = m
<1>1. /\ n \in Nat
      /\ \A i \in K : Rank(K, i) \in 1 .. n
      /\ \A i, j \in K : Rank(K, i) = Rank(K, j) => i = j
      /\ \A m \in 1 .. n : \E i \in K : Rank(K, i) = m
  <2>1. K \in SUBSET (1 .. Len(q)) /\ Len(q) \in Nat
    OBVIOUS
  <2> QED
    BY <2>1, Ranks
<1>2. \A m \in 1 .. n : Place(m) \in K /\ Rank(K, Place(m)) = m
  BY <1>1
<1>3. \A i \in K : Place(Rank(K, i)) = i
  BY <1>1, <1>2
<1>4. \A i \in K : q[i] \in S
  OBVIOUS
<1>5. Kept(q, K) = [m \in 1 .. n |-> q[Place(m)]]
  BY DEF Kept
<1> HIDE DEF Place, n
<1>6. Kept(q, K) \in Seq(S)
  BY <1>1, <1>2, <1>4, <1>5
<1>7. ToSet(Kept(q, K)) = {q[i] : i \in K}
  BY <1>1, <1>2, <1>3, <1>5 DEF ToSet
<1>8. K # {} => \E i \in K : Foremost(q, K, 1) = {q[i]}
  <2> SUFFICES ASSUME K # {} PROVE \E i \in K : Foremost(q, K, 1) = {q[i]}
    OBVIOUS
  <2>1. 1 \in 1 .. n
    BY <1>1
  <2>2. \A i \in K : Rank(K, i) <= 1 <=> i = Place(1)
    BY <1>1, <1>2, <2>1
  <2> QED
    BY <1>2, <2>1, <2>2 DEF Foremost
<1>9. Foremost(q, K, 0) = {}
  BY <1>1 DEF Foremost
<1> QED
  BY <1>1, <1>6, <1>7, <1>8, <1>9 DEF n

LEMMA ForemostAmong ==
  ASSUME NEW q, NEW K
  PROVE  \A n : Foremost(q, K, n) \subseteq {q[i] : i \in K}
BY DEF Foremost

LEMMA WithoutLinks ==
  ASSUME NEW S, NEW q \in Seq(S), NEW W
  PROVE  /\ Without(q, W) \in Seq(S)
         /\ ToSet(Without(q, W)) = ToSet(q) \ W
<1> DEFINE K == {i \in DOMAIN q : q[i] \notin W}
<1>1. Without(q, W) = Kept(q, K) /\ K \in SUBSET DOMAIN q
  BY DEF Without
<1>2. {q[i] : i \in K} = ToSet(q) \ W
  BY DEF ToSet
<1> HIDE DEF K
<1> QED
  BY <1>1, <1>2, KeptLinks

LEMMA AppendedLinks ==
  ASSUME NEW S, NEW q \in Seq(S), NEW e \in S
  PROVE  /\ Append(q, e) \in Seq(S)
         /\ ToSet(Append(q, e)) = ToSet(q) \cup {e}
         /\ IsInjective(q) /\ e \notin ToSet(q) => IsInjective(Append(q, e))
<1> DEFINE r == Append(q, e)
<1>1. Len(q) \in Nat /\ DOMAIN q = 1 .. Len(q)
  OBVIOUS
<1>2. /\ r \in Seq(S) /\ Len(r) = Len(q) + 1 /\ r[Len(q) + 1] = e
      /\ \A i \in 1 .. Len(q) : r[i] = q[i]
  OBVIOUS
<1> HIDE DEF r
<1>3. DOMAIN r = 1 .. Len(q) + 1
  BY <1>2
<1>4. ToSet(r) = ToSet(q) \cup {e}
  BY <1>1, <1>2, <1>3 DEF ToSet
<1>5. IsInjective(q) /\ e \notin ToSet(q) => IsInjective(r)
  BY <1>1, <1>2, <1>3 DEF ToSet, IsInjective
<1> QED
  BY <1>2, <1>4, <1>5 DEF r

LEMMA TailLinks ==
  ASSUME NEW S, NEW q \in Seq(S), q # <<>>
  PROVE  /\ Tail(q) \in Seq(S) /\ Len(Tail(q)) = Len(q) - 1 /\ Len(q) > 0
         /\ ToSet(Tail(q)) \subseteq ToSet(q)
         /\ Head(q) \in S /\ Head(q) \in ToSet(q)
         /\ IsInjective(q) => IsInjective(Tail(q))
<1> DEFINE r == Tail(q)
<1>1. Len(q) \in Nat /\ DOMAIN q = 1 .. Len(q) /\ Len(q) > 0
  OBVIOUS
<1>2. /\ r \in Seq(S) /\ Len(r) = Len(q) - 1
      /\ \A i \in 1 .. Len(q) - 1 : r[i] = q[i + 1]
      /\ Head(q) = q[1] /\ q[1] \in S
  OBVIOUS
<1> HIDE DEF r
<1>3. DOMAIN r = 1 .. Len(q) - 1
  BY <1>2
<1>4. \A i \in 1 .. Len(q) - 1 : i + 1 \in 1 .. Len(q)
  BY <1>1
<1>5. ToSet(r) \subseteq ToSet(q)
  BY <1>1, <1>2, <1>3, <1>4 DEF ToSet
<1>6. q[1] \in ToSet(q)
  BY <1>1 DEF ToSet
<1>7. IsInjective(q) => IsInjective(r)
  BY <1>1, <1>2, <1>3, <1>4 DEF IsInjective
<1> QED
  BY <1>1, <1>2, <1>5, <1>6, <1>7 DEF r

------------------------------------------------------------------------------
(***************************************************************************)
(* A step of one thread                                                    *)
(***************************************************************************)
\* The receivers of gone and the senders of go are woken, x goes on or sleeps.
Moves(x, gone, go) ==
  /\ x \notin gone \cup go
  /\ gone \subseteq {t \in Receivers : th[t].pc = "receiving"}
  /\ go \subseteq {t \in Senders : th[t].pc = "full"}
  /\ \A u \in Threads \ {x} : th'[u] = Woken(gone, go)[u]
  /\ \A q \in Queues, u \in Threads :
       u \in ToSet(waitq'[q]) <=>
         IF u = x THEN th'[x].pc \in WaitPCs /\ th'[x].at = q
                  ELSE u \in ToSet(waitq[q]) /\ u \notin gone \cup go

MoveStep(x) ==
  \E gone \in SUBSET Receivers, go \in SUBSET Senders : Moves(x, gone, go)

ThreadStep(x) ==
  /\ DOMAIN th' = Threads /\ ThreadOK(x)'
  /\ th'[x].pc \in {"destroy", "drain"} => th'[x].at \notin live'
  /\ \/ made' = made /\ (th'[x].pc \in SenderPCs => th[x].pc \in SenderPCs)
     \/ th[x] = Idle /\ made' = [made EXCEPT ![x] = @ + 1]

LockStep(x) ==
  /\ \A p \in Ports :
       /\ port'[p].lock # port[p].lock
            => {port[p].lock, port'[p].lock} \subseteq {None, x}
       /\ port'[p].lock = x => th'[x].at = p /\ th'[x].pc \in LockPCs
  /\ th'[x].pc = "enqueue" => port'[th'[x].at].lock = x

\* What thread x does to the messages of the ports.
Exchange(p, q, k) ==
  /\ \A r \in Ports : port'[r].queue = IF r = p THEN q ELSE port[r].queue
  /\ taken' = [taken EXCEPT ![p] = k]
  /\ \A r \in Ports : SetsOf(r)' = SetsOf(r)
  /\ live' = live /\ made' = made

Enqueues(x, p) ==
  /\ x \in Senders /\ th[x].pc = "enqueue" /\ th[x].at = p /\ th'[x] = Idle
  /\ Exchange(p, Append(port[p].queue, Latest(x)), taken[p])

Passes(x, p) ==
  /\ x \in Senders /\ th[x].pc = "post" /\ th[x].at = p /\ th'[x] = Idle
  /\ port[p].queue = <<>> \/ SetsOf(p) # {}
  /\ Exchange(p, port[p].queue, Append(taken[p], Latest(x)))

Takes(p) ==
  /\ port[p].queue # <<>>
  /\ Exchange(p, Tail(port[p].queue), Append(taken[p], Head(port[p].queue)))

Drops(p) ==
  /\ port[p].queue # <<>> /\ p \notin live
  /\ Exchange(p, Tail(port[p].queue), taken[p])

\* Or to the membership of a port, and which ports are alive.
Regroups(p) ==
  /\ \A r \in Ports \ {p} : SetsOf(r)' = SetsOf(r)
  /\ \/ live' \cap Ports = live \cap Ports /\ SetsOf(p)' = SetsOf(p)
     \/ live' \cap Ports = live \cap Ports /\ p \in live /\ SetsOf(p)' # {}
     \/ live' \cap Ports = live \cap Ports /\ SetsOf(p)' \subseteq SetsOf(p)
     \/ live' \cap Ports = (live \cap Ports) \ {p} /\ SetsOf(p)' = {}

ContentStep(x) ==
  /\ live' \subseteq live
  /\ \/ /\ \A r \in Ports : port'[r].queue = port[r].queue
        /\ taken' = taken
        /\ \/ \A r \in Ports : SetsOf(r)' = SetsOf(r) /\ (r \in live' <=> r \in live)
           \/ \E p \in Ports : Regroups(p)
     \/ \E p \in Ports : Enqueues(x, p) \/ Passes(x, p) \/ Takes(p) \/ Drops(p)

\* x listens to an empty queue nobody works on, and enqueues where nobody does.
ListenStep(x) ==
  \A p \in Ports :
    /\ Listens(x, p)' => port'[p].queue = <<>> /\ Free(p)
    /\ th'[x].pc = "enqueue" /\ th'[x].at = p
         => \A u \in Threads : ~Listens(u, p)'

Step(x) ==
  /\ PortsOK' /\ LinksOK'
  /\ MoveStep(x) /\ ThreadStep(x) /\ LockStep(x) /\ ContentStep(x) /\ ListenStep(x)

\* What becomes of the threads that do not move themselves.
LEMMA Others ==
  ASSUME NEW x \in Threads, NEW u \in Threads \ {x},
         NEW gone, NEW go, Moves(x, gone, go), ThreadsOK, ThreadStep(x)
  PROVE  /\ made'[u] = made[u] /\ ThreadOK(u)'
         /\ \/ th'[u] = th[u] /\ u \notin gone \cup go
            \/ u \in gone /\ th'[u] = Idle /\ th[u].pc = "receiving"
            \/ /\ u \in go /\ u \in Senders /\ th[u].pc = "full"
               /\ th'[u] = At("post", th[u].at, th[u].msg)
<1>1. made'[u] = made[u] /\ ThreadOK(u)
  BY DEF ThreadStep, ThreadsOK
<1>2. th'[u] = Woken(gone, go)[u]
  BY DEF Moves
<1>3. /\ gone \subseteq {t \in Receivers : th[t].pc = "receiving"}
      /\ go \subseteq {t \in Senders : th[t].pc = "full"}
  BY DEF Moves
<1>4. u \in gone => th'[u] = Idle /\ th[u].pc = "receiving"
  BY <1>2, <1>3 DEF Woken
<1>5. CASE u \in gone
  BY <1>1, <1>4, <1>5 DEF ThreadOK
<1>6. CASE u \notin gone \cup go
  <2>1. th'[u] = th[u]
    BY <1>2, <1>6 DEF Woken
  <2> QED
    BY <1>1, <1>6, <2>1 DEF ThreadOK, Latest
<1>7. CASE u \in go /\ u \notin gone
  <2>1. th'[u] = [th[u] EXCEPT !.pc = "post"]
    BY <1>2, <1>7 DEF Woken
  <2>2. u \in Senders /\ u \notin Receivers /\ u \notin Owners /\ th[u].pc = "full"
    BY <1>3, <1>7, PortMessageAssumption
  <2>3. /\ th[u].at \in Ports /\ Latest(u) \in Messages
        /\ th[u] = At("full", th[u].at, Latest(u))
    BY <1>1, <2>2 DEF ThreadOK, Idle
  <2>4. th'[u] = At("post", th[u].at, Latest(u))
    BY <2>1, <2>3 DEF At
  <2>5. th[u].msg = Latest(u)
    BY <2>3 DEF At
  <2>6. ThreadOK(u)'
    <3>1. Latest(u)' = Latest(u)
      BY <1>1 DEF Latest
    <3>2. th'[u].pc = "post" /\ th'[u].at = th[u].at
      BY <2>4 DEF At
    <3> QED
      BY <2>2, <2>3, <2>4, <3>1, <3>2 DEF ThreadOK, SenderPCs
  <2> QED
    BY <1>1, <1>7, <2>2, <2>4, <2>5, <2>6
<1> QED
  BY <1>5, <1>6, <1>7

LEMMA StepThreads ==
  ASSUME NEW x \in Threads, ThreadsOK, Step(x)
  PROVE  ThreadsOK'
<1>1. PICK gone, go : Moves(x, gone, go)
  BY DEF Step, MoveStep
<1>2. ThreadStep(x)
  BY DEF Step
<1>3. \A u \in Threads : ThreadOK(u)'
  BY <1>1, <1>2, Others DEF ThreadStep
<1>4. made' \in [Threads -> Nat]
  BY <1>2 DEF ThreadsOK, ThreadStep
<1> QED
  BY <1>2, <1>3, <1>4 DEF ThreadsOK, ThreadStep

LEMMA StepWaiters ==
  ASSUME NEW x \in Threads, ThreadsOK, WaitersOK, Step(x)
  PROVE  WaitersOK'
<1>1. PICK gone, go : Moves(x, gone, go)
  BY DEF Step, MoveStep
<1>2. ThreadStep(x)
  BY DEF Step
<1> SUFFICES ASSUME NEW q \in Queues, NEW u \in Threads
             PROVE  u \in ToSet(waitq'[q]) <=> th'[u].pc \in WaitPCs /\ th'[u].at = q
  BY DEF WaitersOK, Waiting
<1>3. u \in ToSet(waitq[q]) <=> th[u].pc \in WaitPCs /\ th[u].at = q
  BY DEF WaitersOK, Waiting
<1>4. u \in ToSet(waitq'[q]) <=>
         IF u = x THEN th'[x].pc \in WaitPCs /\ th'[x].at = q
                  ELSE u \in ToSet(waitq[q]) /\ u \notin gone \cup go
  BY <1>1 DEF Moves
<1>5. CASE u = x
  BY <1>4, <1>5
<1>6. CASE u # x
  <2>1. \/ th'[u] = th[u] /\ u \notin gone \cup go
        \/ u \in gone /\ th'[u] = Idle
        \/ u \in go /\ th'[u] = At("post", th[u].at, th[u].msg)
    BY <1>1, <1>2, <1>6, Others
  <2>2. Idle.pc \notin WaitPCs /\ At("post", th[u].at, th[u].msg).pc \notin WaitPCs
    BY DEF Idle, At, WaitPCs
  <2> QED
    BY <1>3, <1>4, <1>6, <2>1, <2>2
<1> QED
  BY <1>5, <1>6

LEMMA StepLock ==
  ASSUME NEW x \in Threads, ThreadsOK, LockOK, Step(x)
  PROVE  LockOK'
<1>1. PICK gone, go : Moves(x, gone, go)
  BY DEF Step, MoveStep
<1>2. ThreadStep(x) /\ LockStep(x)
  BY DEF Step
<1>3. \A u \in Threads \ {x} :
        \/ th'[u] = th[u]
        \/ th[u].pc \in WaitPCs /\ th'[u].pc # "enqueue"
  <2> SUFFICES ASSUME NEW u \in Threads \ {x}
               PROVE  \/ th'[u] = th[u]
                      \/ th[u].pc \in WaitPCs /\ th'[u].pc # "enqueue"
    OBVIOUS
  <2>1. \/ th'[u] = th[u]
        \/ th'[u] = Idle /\ th[u].pc = "receiving"
        \/ th'[u] = At("post", th[u].at, th[u].msg) /\ th[u].pc = "full"
    BY <1>1, <1>2, Others
  <2> QED
    BY <2>1 DEF Idle, At, WaitPCs
<1>4. WaitPCs \cap LockPCs = {} /\ None \notin Threads
  BY PortMessageAssumption DEF WaitPCs, LockPCs
<1>5. ASSUME NEW p \in Ports, NEW u \in Threads, port'[p].lock = u
      PROVE  th'[u].at = p /\ th'[u].pc \in LockPCs
  <2>1. CASE u = x
    BY <1>2, <1>5, <2>1 DEF LockStep
  <2>2. CASE u # x
    <3>1. port[p].lock = u
      BY <1>2, <1>4, <1>5, <2>2 DEF LockStep
    <3>2. th[u].at = p /\ th[u].pc \in LockPCs
      BY <3>1 DEF LockOK
    <3> QED
      BY <1>3, <1>4, <2>2, <3>2
  <2> QED
    BY <2>1, <2>2
<1>6. ASSUME NEW u \in Threads, th'[u].pc = "enqueue"
      PROVE  port'[th'[u].at].lock = u
  <2>1. CASE u = x
    BY <1>2, <1>6, <2>1 DEF LockStep
  <2>2. CASE u # x
    <3>1. th'[u] = th[u]
      BY <1>3, <1>6, <2>2
    <3>2. port[th[u].at].lock = u
      BY <1>6, <3>1 DEF LockOK
    <3>3. th[u].at \in Ports
      BY <1>6, <3>1 DEF ThreadsOK, ThreadOK, Idle, ReceiverPCs, OwnerPCs
    <3> QED
      BY <1>2, <1>4, <2>2, <3>1, <3>2, <3>3 DEF LockStep
  <2> QED
    BY <2>1, <2>2
<1> QED
  BY <1>5, <1>6 DEF LockOK

LEMMA StepDead ==
  ASSUME NEW x \in Threads, ThreadsOK, DeadOK, Step(x)
  PROVE  DeadOK'
<1>1. PICK gone, go : Moves(x, gone, go)
  BY DEF Step, MoveStep
<1>2. ThreadStep(x) /\ live' \subseteq live
  BY DEF Step, ContentStep
<1> SUFFICES ASSUME NEW u \in Threads, th'[u].pc \in {"destroy", "drain"}
             PROVE  th'[u].at \notin live'
  BY DEF DeadOK
<1>3. CASE u = x
  BY <1>2, <1>3 DEF ThreadStep
<1>4. CASE u # x
  <2>1. \/ th'[u] = th[u]
        \/ th'[u] = Idle
        \/ th'[u] = At("post", th[u].at, th[u].msg)
    BY <1>1, <1>2, <1>4, Others
  <2>2. th'[u] = th[u]
    BY <2>1 DEF Idle, At
  <2> QED
    BY <1>2, <2>2 DEF DeadOK
<1> QED
  BY <1>3, <1>4

\* A message once made stays so.
LEMMA MadeStays ==
  ASSUME NEW x \in Threads, NEW m \in Messages, ThreadsOK, Step(x), Made(m)
  PROVE  Made(m)'
<1> DEFINE u == m.from
<1>1. PICK gone, go : Moves(x, gone, go)
  BY DEF Step, MoveStep
<1>2. ThreadStep(x)
  BY DEF Step
<1>3. u \in Senders /\ u \in Threads /\ m.no \in Nat /\ made[u] \in Nat
  BY PortMessageAssumption DEF Messages, Threads, ThreadsOK
<1>4. m.no <= made[u] /\ (th[u].pc \in SenderPCs => m.no < made[u])
  BY DEF Made
<1> SUFFICES m.no <= made'[u] /\ (th'[u].pc \in SenderPCs => m.no < made'[u])
  BY DEF Made
<1> HIDE DEF u
<1>5. CASE u = x
  <2>1. CASE made' = made /\ (th'[x].pc \in SenderPCs => th[x].pc \in SenderPCs)
    BY <1>4, <1>5, <2>1
  <2>2. CASE made' = [made EXCEPT ![x] = @ + 1]
    <3>1. made'[u] = made[u] + 1
      BY <1>3, <1>5, <2>2 DEF ThreadsOK
    <3> QED
      BY <1>3, <1>4, <3>1
  <2> QED
    BY <1>2, <2>1, <2>2 DEF ThreadStep
<1>6. CASE u # x
  <2>1. /\ made'[u] = made[u]
        /\ \/ th'[u] = th[u]
           \/ th'[u] = Idle
           \/ th[u].pc = "full"
    BY <1>1, <1>2, <1>3, <1>6, Others
  <2>2. th'[u].pc \in SenderPCs => th[u].pc \in SenderPCs
    BY <2>1 DEF Idle, SenderPCs
  <2> QED
    BY <1>4, <2>1, <2>2
<1> QED
  BY <1>5, <1>6

LEMMA StepFresh ==
  ASSUME NEW x \in Threads, ThreadsOK, PortsOK, FreshOK, Step(x)
  PROVE  FreshOK'
<1> DEFINE Fresh(q, k) ==
      /\ IsInjective(q) /\ \A m \in ToSet(q) \cup ToSet(k) : Made(m)'
<1> SUFFICES ASSUME NEW p \in Ports PROVE Fresh(port'[p].queue, taken'[p])
  BY DEF FreshOK
<1>1. /\ port[p].queue \in Seq(Messages) /\ taken[p] \in Seq(Messages)
      /\ taken \in [Ports -> Seq(Messages)]
  BY DEF PortsOK, PortRecord
<1>2. /\ IsInjective(port[p].queue)
      /\ \A m \in ToSet(port[p].queue) \cup ToSet(taken[p]) : Made(m)
  BY DEF FreshOK
<1>3. /\ ToSet(port[p].queue) \subseteq Messages /\ ToSet(taken[p]) \subseteq Messages
  BY <1>1 DEF ToSet
<1>4. \A m \in ToSet(port[p].queue) \cup ToSet(taken[p]) : Made(m)'
  BY <1>2, <1>3, MadeStays
<1>5. Fresh(port[p].queue, taken[p])
  BY <1>2, <1>4
<1>6. ASSUME NEW r \in Ports, Enqueues(x, r) \/ Passes(x, r)
      PROVE  Fresh(port'[p].queue, taken'[p])
  <2> DEFINE m == Latest(x)
  <2>1. /\ x \in Senders /\ th[x].pc \in SenderPCs /\ th'[x] = Idle /\ made' = made
    BY <1>6 DEF Enqueues, Passes, Exchange, SenderPCs
  <2>2. /\ m \in Messages
        /\ \A o \in Messages : o = m => Made(o)' /\ ~Made(o)
    <3>1. ThreadOK(x)
      BY DEF ThreadsOK
    <3>2. m \in Messages
      BY <2>1, <3>1, PortMessageAssumption DEF ThreadOK, Idle, SenderPCs
    <3>3. m.from = x /\ m.no = made[x] /\ made[x] \in Nat
      BY DEF Latest, ThreadsOK
    <3>4. Idle.pc \notin SenderPCs
      BY DEF Idle, SenderPCs
    <3> HIDE DEF m
    <3>5. ASSUME NEW o \in Messages, o = m
          PROVE  Made(o)' /\ ~Made(o)
      BY <2>1, <3>3, <3>4, <3>5 DEF Made
    <3> QED
      BY <3>2, <3>5
  <2>3. CASE p # r
    <3>1. port'[p].queue = port[p].queue /\ taken'[p] = taken[p]
      BY <1>1, <1>6, <2>3 DEF Enqueues, Passes, Exchange
    <3> QED
      BY <1>5, <3>1
  <2>4. CASE p = r
    <3>1. \/ /\ port'[p].queue = Append(port[p].queue, m)
             /\ taken'[p] = taken[p]
          \/ /\ port'[p].queue = port[p].queue
             /\ taken'[p] = Append(taken[p], m)
      BY <1>1, <1>6, <2>4 DEF Enqueues, Passes, Exchange
    <3> HIDE DEF m
    <3>2. /\ ToSet(Append(port[p].queue, m)) = ToSet(port[p].queue) \cup {m}
          /\ IsInjective(port[p].queue) /\ m \notin ToSet(port[p].queue)
               => IsInjective(Append(port[p].queue, m))
          /\ ToSet(Append(taken[p], m)) = ToSet(taken[p]) \cup {m}
      BY <1>1, <2>2, AppendedLinks
    <3>3. m \notin ToSet(port[p].queue)
      BY <1>2, <1>3, <2>2
    <3> QED
      BY <1>2, <1>4, <2>2, <3>1, <3>2, <3>3
  <2> QED
    BY <2>3, <2>4
<1>7. ASSUME NEW r \in Ports, Takes(r) \/ Drops(r)
      PROVE  Fresh(port'[p].queue, taken'[p])
  <2>1. CASE p # r
    <3>1. port'[p].queue = port[p].queue /\ taken'[p] = taken[p]
      BY <1>1, <1>7, <2>1 DEF Takes, Drops, Exchange
    <3> QED
      BY <1>5, <3>1
  <2>2. CASE p = r
    <3> DEFINE q == port[p].queue
    <3>1. /\ q # <<>> /\ port'[p].queue = Tail(q)
          /\ taken'[p] \in {taken[p], Append(taken[p], Head(q))}
      BY <1>1, <1>7, <2>2 DEF Takes, Drops, Exchange
    <3> HIDE DEF q
    <3>2. /\ q \in Seq(Messages) /\ IsInjective(q)
          /\ \A m \in ToSet(q) \cup ToSet(taken[p]) : Made(m)'
      BY <1>1, <1>2, <1>4 DEF q
    <3>3. /\ ToSet(Tail(q)) \subseteq ToSet(q) /\ Head(q) \in ToSet(q)
          /\ IsInjective(Tail(q)) /\ Head(q) \in Messages
      BY <3>1, <3>2, TailLinks
    <3>4. ToSet(Append(taken[p], Head(q))) = ToSet(taken[p]) \cup {Head(q)}
      BY <1>1, <3>3, AppendedLinks
    <3> QED
      BY <3>1, <3>2, <3>3, <3>4
  <2> QED
    BY <2>1, <2>2
<1>8. CASE (\A r \in Ports : port'[r].queue = port[r].queue) /\ taken' = taken
  BY <1>5, <1>8
<1> QED
  BY <1>6, <1>7, <1>8 DEF Step, ContentStep

LEMMA StepListen ==
  ASSUME NEW x \in Threads, ThreadsOK, LockOK, ListenOK, PortsOK, Step(x)
  PROVE  ListenOK'
<1>1. PICK gone, go : Moves(x, gone, go)
  BY DEF Step, MoveStep
<1>2. ThreadStep(x) /\ ListenStep(x)
  BY DEF Step
<1>3. \A u \in Threads \ {x}, p \in Ports :
        /\ Listens(u, p)' => Listens(u, p)
        /\ th'[u].pc = "enqueue" => th'[u] = th[u]
  <2> SUFFICES ASSUME NEW u \in Threads \ {x}, NEW p \in Ports
               PROVE  /\ Listens(u, p)' => Listens(u, p)
                      /\ th'[u].pc = "enqueue" => th'[u] = th[u]
    OBVIOUS
  <2>1. \/ th'[u] = th[u]
        \/ th'[u] = Idle
        \/ th'[u] = At("post", th[u].at, th[u].msg)
    BY <1>1, <1>2, Others
  <2> QED
    BY <2>1 DEF Idle, At, Listens
<1>4. ASSUME NEW p \in Ports, NEW u \in Threads, Listens(u, p)'
      PROVE  port'[p].queue = <<>>
  <2>1. CASE u = x
    BY <1>2, <1>4, <2>1 DEF ListenStep
  <2>2. CASE u # x
    <3>1. Listens(u, p) /\ port[p].queue = <<>>
      BY <1>3, <1>4, <2>2 DEF ListenOK
    <3>2. ~Enqueues(x, p)
      BY <3>1 DEF Enqueues, ListenOK
    <3>3. ~Takes(p) /\ ~Drops(p)
      BY <3>1 DEF Takes, Drops
    <3>4. ASSUME NEW r \in Ports,
                 Enqueues(x, r) \/ Passes(x, r) \/ Takes(r) \/ Drops(r)
          PROVE  port'[p].queue = port[p].queue
      BY <3>2, <3>3, <3>4 DEF Enqueues, Passes, Takes, Drops, Exchange
    <3>5. port'[p].queue = port[p].queue
      BY <3>4 DEF Step, ContentStep
    <3> QED
      BY <3>1, <3>5
  <2> QED
    BY <2>1, <2>2
<1>5. ASSUME NEW p \in Ports, NEW t \in Threads, NEW u \in Threads,
             th'[t].pc = "enqueue", th'[t].at = p
      PROVE  ~Listens(u, p)'
  <2>1. CASE t = x
    BY <1>2, <1>5, <2>1 DEF ListenStep
  <2>2. CASE t # x
    <3>1. th[t].pc = "enqueue" /\ th[t].at = p
      BY <1>3, <1>5, <2>2
    <3>2. ~Listens(u, p) /\ port[p].lock = t
      BY <3>1 DEF ListenOK, LockOK
    <3>3. ~Free(p)
      BY <3>2, PortMessageAssumption DEF Free
    <3>4. u = x => ~Listens(u, p)'
      BY <1>2, <3>3 DEF ListenStep
    <3> QED
      BY <1>3, <3>2, <3>4
  <2> QED
    BY <2>1, <2>2
<1> QED
  BY <1>4, <1>5 DEF ListenOK

LEMMA StepInv ==
  ASSUME NEW x \in Threads, Inv, Step(x)
  PROVE  Inv'
<1>1. PortsOK' /\ LinksOK'
  BY DEF Step
<1>2. ThreadsOK' /\ WaitersOK' /\ LockOK' /\ DeadOK'
  BY StepThreads, StepWaiters, StepLock, StepDead DEF Inv
<1>3. FreshOK' /\ ListenOK'
  BY StepFresh, StepListen DEF Inv
<1> QED
  BY <1>1, <1>2, <1>3 DEF Inv

------------------------------------------------------------------------------
(***************************************************************************)
(* What the actions are made of                                            *)
(***************************************************************************)
\* Threads leave the wait queues, the sets stay.
LEMMA UnlinkedOK ==
  ASSUME NEW W \in SUBSET Threads, LinksOK, waitq' = Unlinked(W)
  PROVE  /\ waitq' \in [Queues -> Seq(Threads \cup Sets)]
         /\ \A q \in Queues : ToSet(waitq'[q]) = ToSet(waitq[q]) \ W
         /\ \A s \in Sets : ToSet(waitq'[s]) \cap Sets = {}
         /\ \A p \in Ports : SetsOf(p)' = SetsOf(p)
<1>1. \A q \in Queues : waitq[q] \in Seq(Threads \cup Sets)
  BY DEF LinksOK
<1>2. \A q \in Queues : /\ Without(waitq[q], W) \in Seq(Threads \cup Sets)
                        /\ ToSet(Without(waitq[q], W)) = ToSet(waitq[q]) \ W
  BY <1>1, WithoutLinks
<1>3. /\ waitq' \in [Queues -> Seq(Threads \cup Sets)]
      /\ \A q \in Queues : ToSet(waitq'[q]) = ToSet(waitq[q]) \ W
  BY <1>2 DEF Unlinked
<1>4. \A s \in Sets : ToSet(waitq'[s]) \cap Sets = {}
  BY <1>3 DEF LinksOK, Queues
<1>5. W \cap Sets = {}
  BY PortMessageAssumption DEF Queues
<1>6. \A p \in Ports : SetsOf(p)' = SetsOf(p)
  BY <1>3, <1>5 DEF SetsOf, Queues
<1> QED
  BY <1>3, <1>4, <1>6

\* The senders that wait at a port.
Waiters(p) == {t \in Senders : th[t].pc = "full" /\ th[t].at = p}

LEMMA FirstBlockedOK ==
  ASSUME NEW p \in Ports, Inv
  PROVE  /\ Blocked(p) = Waiters(p)
         /\ \A n : FirstBlocked(p, n) \subseteq Waiters(p)
         /\ FirstBlocked(p, 0) = {} /\ Cardinality(BlockedAt(p)) \in Nat
         /\ \/ FirstBlocked(p, 1) = {} /\ Waiters(p) = {}
            \/ \E h \in Waiters(p) : FirstBlocked(p, 1) = {h}
<1> DEFINE q == waitq[p]
           K == BlockedAt(p)
<1>1. q \in Seq(Threads \cup Sets) /\ K \in SUBSET DOMAIN q
  BY DEF Inv, LinksOK, BlockedAt, Queues
<1>2. Blocked(p) = Waiters(p)
  <2>1. Senders \subseteq Threads /\ p \in Queues
    BY DEF Threads, Queues
  <2>2. \A t \in Senders : t \in ToSet(q) <=> Waiting(t) /\ th[t].at = p
    BY <2>1 DEF Inv, WaitersOK
  <2>3. \A t \in Senders : ThreadOK(t)
    BY <2>1 DEF Inv, ThreadsOK
  <2>4. \A t \in Senders : Waiting(t) <=> th[t].pc = "full"
    BY <2>3, PortMessageAssumption
    DEF ThreadOK, Waiting, WaitPCs, SenderPCs, Idle
  <2> QED
    BY <2>2, <2>4 DEF Blocked, Waiters
<1>3. {q[i] : i \in K} = Blocked(p)
  BY <1>1 DEF BlockedAt, Blocked, ToSet
<1>4. /\ \A n : Foremost(q, K, n) \subseteq {q[i] : i \in K}
      /\ K # {} => \E i \in K : Foremost(q, K, 1) = {q[i]}
      /\ Foremost(q, K, 0) = {} /\ Cardinality(K) \in Nat
  <2> HIDE DEF q, K
  <2>1. \A n : Foremost(q, K, n) \subseteq {q[i] : i \in K}
    BY ForemostAmong
  <2>2. /\ K # {} => \E i \in K : Foremost(q, K, 1) = {q[i]}
        /\ Foremost(q, K, 0) = {} /\ Cardinality(K) \in Nat
    BY <1>1, KeptLinks
  <2> QED
    BY <2>1, <2>2
<1>5. \A n : FirstBlocked(p, n) = Foremost(q, K, n)
  BY DEF FirstBlocked
<1> HIDE DEF q, K
<1>6. \A n : FirstBlocked(p, n) \subseteq Waiters(p)
  BY <1>2, <1>3, <1>4, <1>5
<1>7. \/ FirstBlocked(p, 1) = {} /\ Waiters(p) = {}
      \/ \E h \in Waiters(p) : FirstBlocked(p, 1) = {h}
  <2>1. CASE K = {}
    BY <1>2, <1>3, <1>4, <1>5, <2>1
  <2>2. CASE K # {}
    <3>1. PICK i \in K : Foremost(q, K, 1) = {q[i]}
      BY <1>4, <2>2
    <3>2. q[i] \in Waiters(p) /\ FirstBlocked(p, 1) = {q[i]}
      BY <1>2, <1>3, <1>5, <3>1
    <3> QED
      BY <3>2
  <2> QED
    BY <2>1, <2>2
<1> QED
  BY <1>2, <1>4, <1>5, <1>6, <1>7 DEF K

\* The receivers that can be handed a message of p.
Readers(p) ==
  {t \in Receivers : th[t].pc = "receiving" /\ (th[t].at = p \/ SetsOf(p) # {})}

LEMMA FirstReceiverOK ==
  ASSUME NEW p \in Ports, Inv
  PROVE  /\ FirstReceiver(p) \subseteq Readers(p)
         /\ FirstReceiver(p) = {} => \A u \in Threads : ~Listens(u, p)
<1> DEFINE q == waitq[p]
           K == ListensAt(p)
<1>1. q \in Seq(Threads \cup Sets) /\ K \in SUBSET DOMAIN q
  BY DEF Inv, LinksOK, ListensAt, Queues
<1>2. /\ Foremost(q, K, 1) \subseteq {q[i] : i \in K}
      /\ K # {} => Foremost(q, K, 1) # {}
  <2> HIDE DEF q, K
  <2>1. \A n : Foremost(q, K, n) \subseteq {q[i] : i \in K}
    BY ForemostAmong
  <2>2. K # {} => \E i \in K : Foremost(q, K, 1) = {q[i]}
    BY <1>1, KeptLinks
  <2> QED
    BY <2>1, <2>2
<1>3. ASSUME NEW e \in ToSet(q), Listening(e) # <<>>
      PROVE  Head(Listening(e)) \in Readers(p)
  <2>1. CASE e \in Sets
    <3>1. Listening(e) = waitq[e] /\ waitq[e] \in Seq(Threads \cup Sets)
      BY <2>1 DEF Listening, Inv, LinksOK, Queues
    <3> DEFINE h == Head(waitq[e])
    <3>2. h \in ToSet(waitq[e]) /\ h \in Threads \cup Sets
      BY <1>3, <3>1, TailLinks
    <3> HIDE DEF h
    <3>3. h \in Threads /\ th[h].pc \in WaitPCs /\ th[h].at = e
      BY <2>1, <3>2 DEF Inv, LinksOK, WaitersOK, Waiting, Queues
    <3>4. h \in Receivers /\ th[h].pc = "receiving"
      <4>1. ThreadOK(h) /\ e \notin Ports
        BY <2>1, <3>3, PortMessageAssumption DEF Inv, ThreadsOK
      <4> QED
        BY <3>3, <4>1 DEF ThreadOK, WaitPCs, Idle, ReceiverPCs, OwnerPCs
    <3>5. SetsOf(p) # {}
      BY <1>3, <2>1 DEF SetsOf
    <3> QED
      BY <3>1, <3>4, <3>5 DEF h, Readers
  <2>2. CASE e \notin Sets
    <3>1. e \in Receivers /\ Head(Listening(e)) = e
      BY <1>3, <2>2 DEF Listening
    <3>2. e \in Threads /\ p \in Queues
      BY <3>1 DEF Threads, Queues
    <3>3. Waiting(e) /\ th[e].at = p /\ ThreadOK(e)
      BY <1>3, <3>2 DEF Inv, WaitersOK, ThreadsOK
    <3>4. th[e].pc = "receiving"
      BY <3>1, <3>3, PortMessageAssumption
      DEF ThreadOK, Waiting, WaitPCs, ReceiverPCs, Idle
    <3> QED
      BY <3>1, <3>3, <3>4 DEF Readers
  <2> QED
    BY <2>1, <2>2
<1>4. \A i \in K : q[i] \in ToSet(q) /\ Listening(q[i]) # <<>>
  BY <1>1 DEF ListensAt, ToSet
<1>5. FirstReceiver(p) = {Head(Listening(e)) : e \in Foremost(q, K, 1)}
  BY DEF FirstReceiver
<1>6. FirstReceiver(p) \subseteq Readers(p)
  <2> HIDE DEF q, K
  <2> QED
    BY <1>2, <1>3, <1>4, <1>5
<1>7. ASSUME FirstReceiver(p) = {}, NEW u \in Threads, Listens(u, p)
      PROVE  FALSE
  <2>1. K = {}
    <3> HIDE DEF q, K
    <3> QED
      BY <1>2, <1>5, <1>7
  <2>2. u \in ToSet(q) /\ ThreadOK(u)
    BY <1>7 DEF Listens, Inv, WaitersOK, Waiting, WaitPCs, ThreadsOK, Queues
  <2>3. u \in Receivers /\ u \notin Sets
    BY <1>7, <2>2, PortMessageAssumption
    DEF ThreadOK, Listens, Idle, SenderPCs, OwnerPCs, Queues
  <2>4. Listening(u) # <<>>
    BY <2>3 DEF Listening
  <2>5. K # {}
    BY <1>1, <2>2, <2>4 DEF ListensAt, ToSet
  <2> QED
    BY <2>1, <2>5
<1> QED
  BY <1>6, <1>7

\* x goes on and wakes others, or nobody.
LEMMA MovesOn ==
  ASSUME NEW x \in Threads, NEW gone, NEW go, Inv,
         gone \ {x} \subseteq {t \in Receivers : th[t].pc = "receiving"},
         go \subseteq {t \in Senders : th[t].pc = "full"}, x \notin go,
         \A u \in Threads \ {x} : th'[u] = Woken(gone, go)[u],
         \A q \in Queues : ToSet(waitq'[q]) = ToSet(waitq[q]) \ (gone \cup go),
         x \in gone \/ th[x].pc \notin WaitPCs, th'[x].pc \notin WaitPCs
  PROVE  MoveStep(x)
<1> DEFINE g == gone \ {x}
<1>1. \A u \in Threads \ {x} : Woken(gone, go)[u] = Woken(g, go)[u]
  BY DEF Woken
<1>2. \A q \in Queues : x \notin ToSet(waitq'[q])
  BY DEF Inv, WaitersOK, Waiting
<1>3. Moves(x, g, go)
  BY <1>1, <1>2 DEF Moves
<1>4. g \in SUBSET Receivers /\ go \in SUBSET Senders
  OBVIOUS
<1> QED
  BY <1>3, <1>4 DEF MoveStep

LEMMA MovesWaking ==
  ASSUME NEW x \in Threads, NEW gone, Inv,
         gone \ {x} \subseteq {t \in Receivers : th[t].pc = "receiving"},
         \A u \in Threads \ {x} : th'[u] = Woken(gone, {})[u],
         \A q \in Queues : ToSet(waitq'[q]) = ToSet(waitq[q]) \ gone,
         x \in gone \/ th[x].pc \notin WaitPCs, th'[x].pc \notin WaitPCs
  PROVE  MoveStep(x)
<1> DEFINE go == {}
<1>1. /\ go \subseteq {t \in Senders : th[t].pc = "full"} /\ x \notin go
      /\ \A u \in Threads \ {x} : th'[u] = Woken(gone, go)[u]
      /\ \A q \in Queues : ToSet(waitq'[q]) = ToSet(waitq[q]) \ (gone \cup go)
  OBVIOUS
<1> HIDE DEF go
<1> QED
  BY <1>1, MovesOn

LEMMA MovesAlone ==
  ASSUME NEW x \in Threads, Inv, \A u \in Threads \ {x} : th'[u] = th[u],
         \A q \in Queues, u \in Threads : u \in ToSet(waitq'[q]) <=> u \in ToSet(waitq[q]),
         ~Waiting(x), th'[x].pc \notin WaitPCs
  PROVE  MoveStep(x)
<1>1. \A q \in Queues : x \notin ToSet(waitq'[q])
  BY DEF Inv, WaitersOK
<1>2. Moves(x, {}, {})
  BY <1>1 DEF Moves, Woken
<1> QED
  BY <1>2 DEF MoveStep

\* x sleeps.
LEMMA Sleeps ==
  ASSUME NEW x \in Threads, NEW q \in Queues, Inv, ~Waiting(x),
         \A u \in Threads \ {x} : th'[u] = th[u],
         th'[x].pc \in WaitPCs, th'[x].at = q,
         waitq' = [waitq EXCEPT ![q] = Append(@, x)]
  PROVE  /\ MoveStep(x)
         /\ waitq' \in [Queues -> Seq(Threads \cup Sets)]
         /\ \A s \in Sets : ToSet(waitq'[s]) \cap Sets = {}
         /\ \A p \in Ports : SetsOf(p)' = SetsOf(p)
<1>1. /\ Append(waitq[q], x) \in Seq(Threads \cup Sets)
      /\ ToSet(Append(waitq[q], x)) = ToSet(waitq[q]) \cup {x}
      /\ waitq \in [Queues -> Seq(Threads \cup Sets)]
  <2>1. waitq \in [Queues -> Seq(Threads \cup Sets)]
    BY DEF Inv, LinksOK
  <2>2. waitq[q] \in Seq(Threads \cup Sets) /\ x \in Threads \cup Sets
    BY <2>1
  <2> QED
    BY <2>1, <2>2, AppendedLinks
<1>2. /\ waitq' \in [Queues -> Seq(Threads \cup Sets)]
      /\ \A r \in Queues : ToSet(waitq'[r]) =
                             IF r = q THEN ToSet(waitq[q]) \cup {x} ELSE ToSet(waitq[r])
  BY <1>1
<1>3. x \notin Sets
  BY PortMessageAssumption DEF Queues
<1>4. /\ \A s \in Sets : ToSet(waitq'[s]) \cap Sets = {}
      /\ \A p \in Ports : SetsOf(p)' = SetsOf(p)
  BY <1>2, <1>3 DEF Inv, LinksOK, SetsOf, Queues
<1>5. \A r \in Queues : x \notin ToSet(waitq[r])
  BY DEF Inv, WaitersOK
<1>6. Moves(x, {}, {})
  BY <1>2, <1>5 DEF Moves, Woken
<1> QED
  BY <1>2, <1>4, <1>6 DEF MoveStep

LEMMA SenderIs ==
  ASSUME NEW t \in Threads, Inv, th[t].pc \in SenderPCs
  PROVE  /\ t \in Senders /\ th[t].at \in Ports /\ Latest(t) \in Messages
         /\ th[t] = At(th[t].pc, th[t].at, Latest(t)) /\ th[t].msg = Latest(t)
<1>1. ThreadOK(t)
  BY DEF Inv, ThreadsOK
<1>2. /\ t \in Senders /\ th[t].at \in Ports /\ Latest(t) \in Messages
      /\ th[t] = At(th[t].pc, th[t].at, Latest(t))
  BY <1>1 DEF ThreadOK, Idle, SenderPCs, ReceiverPCs, OwnerPCs
<1> QED
  BY <1>2 DEF At

LEMMA ReceiverIs ==
  ASSUME NEW t \in Threads, Inv, th[t].pc \in ReceiverPCs
  PROVE  /\ t \in Receivers /\ th[t].at \in Queues
         /\ th[t] = At(th[t].pc, th[t].at, None)
<1>1. ThreadOK(t)
  BY DEF Inv, ThreadsOK
<1> QED
  BY <1>1 DEF ThreadOK, Idle, SenderPCs, ReceiverPCs, OwnerPCs

LEMMA OwnerIs ==
  ASSUME NEW t \in Threads, Inv, th[t].pc \in OwnerPCs
  PROVE  t \in Owners /\ th[t].at \in Ports
<1>1. ThreadOK(t)
  BY DEF Inv, ThreadsOK
<1> QED
  BY <1>1 DEF ThreadOK, Idle, SenderPCs, ReceiverPCs, OwnerPCs

LEMMA EditedPort ==
  ASSUME NEW p \in Ports, NEW new \in PortRecord, Inv, port' = [port EXCEPT ![p] = new]
  PROVE  /\ port' \in [Ports -> PortRecord]
         /\ port'[p] = new /\ \A r \in Ports \ {p} : port'[r] = port[r]
BY DEF Inv, PortsOK

\* The slot of a message that is handed over.
LEMMA Released ==
  ASSUME NEW p \in Ports, NEW after \in PortRecord, NEW gone, Inv,
         ReleaseMsgcount(p, after, gone)
  PROVE  /\ port' \in [Ports -> PortRecord]
         /\ \A r \in Ports \ {p} : port'[r] = port[r]
         /\ port'[p].queue = after.queue /\ port'[p].lock = after.lock
         /\ port'[p].limit = after.limit
         /\ \E heir \in SUBSET Waiters(p) :
              /\ Wakes(gone, heir)
              /\ \/ /\ \E h \in Waiters(p) : heir = {h}
                    /\ port'[p].count = after.count /\ port'[p].full = after.full
                 \/ /\ heir = {}
                    /\ port'[p].count = (after.count + Wrap - 1) % Wrap
                    /\ \/ Waiters(p) = {}
                       \/ /\ port'[p].full = after.full
                          /\ after.full => port'[p].count >= after.limit
<1> DEFINE left == (after.count + Wrap - 1) % Wrap
           open == left < after.limit /\ after.full
           heir == IF open THEN FirstBlocked(p, 1) ELSE {}
           new == [after EXCEPT !.count = IF heir = {} THEN left ELSE @,
                                !.full = @ /\ (open => heir # {})]
<1>1. port' = [port EXCEPT ![p] = new] /\ Wakes(gone, heir)
  BY DEF ReleaseMsgcount
<1>2. /\ after.count \in 0 .. Wrap - 1 /\ after.full \in BOOLEAN
      /\ after.limit \in 1 .. Wrap - 1 /\ Wrap \in Nat
  BY PortMessageAssumption DEF PortRecord
<1>3. left \in 0 .. Wrap - 1
  <2>1. Wrap > 0 /\ after.count + Wrap - 1 \in Nat
    BY <1>2
  <2> QED
    BY <1>2, <2>1
<1>4. /\ new.count = IF heir = {} THEN left ELSE after.count
      /\ new.full = (after.full /\ (open => heir # {}))
      /\ new.queue = after.queue /\ new.lock = after.lock /\ new.limit = after.limit
  <2> HIDE DEF left, open, heir
  <2> QED
    BY DEF PortRecord
<1>5. new \in PortRecord
  <2>1. new.count \in 0 .. Wrap - 1 /\ new.full \in BOOLEAN
    <3> HIDE DEF left, heir, new, open
    <3> QED
      BY <1>2, <1>3, <1>4
  <2>2. DOMAIN new = DOMAIN after
    OBVIOUS
  <2> HIDE DEF left, open, heir
  <2> QED
    BY <2>1 DEF PortRecord
<1>6. port \in [Ports -> PortRecord]
  BY DEF Inv, PortsOK
<1>7. /\ port' \in [Ports -> PortRecord]
      /\ \A r \in Ports \ {p} : port'[r] = port[r]
      /\ port'[p] = new
  <2> HIDE DEF new, heir
  <2> QED
    BY <1>1, <1>5, <1>6
<1>8. /\ heir \in SUBSET Waiters(p)
      /\ \/ \E h \in Waiters(p) : heir = {h}
         \/ heir = {} /\ (open => Waiters(p) = {})
  <2>1. /\ FirstBlocked(p, 1) \subseteq Waiters(p)
        /\ \/ FirstBlocked(p, 1) = {} /\ Waiters(p) = {}
           \/ \E h \in Waiters(p) : FirstBlocked(p, 1) = {h}
    BY FirstBlockedOK
  <2> HIDE DEF open
  <2> QED
    BY <2>1
<1>9. heir # {} => open
  OBVIOUS
<1>10. open \/ (after.full => left >= after.limit)
  <2> HIDE DEF left
  <2> QED
    BY <1>2, <1>3
<1>11. heir # {} \/ ~open => new.full = after.full
  <2> HIDE DEF heir, open, new
  <2> QED
    BY <1>2, <1>4
<1> HIDE DEF left, open, heir, new
<1>12. /\ Wakes(gone, heir)
       /\ \/ /\ \E h \in Waiters(p) : heir = {h}
             /\ port'[p].count = after.count /\ port'[p].full = after.full
          \/ /\ heir = {}
             /\ port'[p].count = left
             /\ \/ Waiters(p) = {}
                \/ /\ port'[p].full = after.full
                   /\ after.full => port'[p].count >= after.limit
  <2>1. CASE \E h \in Waiters(p) : heir = {h}
    <3>1. heir # {}
      BY <2>1
    <3> QED
      BY <1>1, <1>4, <1>7, <1>11, <2>1, <3>1
  <2>2. CASE heir = {} /\ (open => Waiters(p) = {})
    BY <1>1, <1>4, <1>7, <1>10, <1>11, <2>2
  <2> QED
    BY <1>8, <2>1, <2>2
<1> QED
  BY <1>4, <1>7, <1>8, <1>12 DEF left

\* A step that leaves the ports' records alone.
LEMMA CalmStep ==
  ASSUME NEW x \in Threads, Inv, port' = port, taken' = taken, live' \subseteq live,
         LinksOK', MoveStep(x), ThreadStep(x), ListenStep(x),
         th[x].pc \notin LockPCs, th'[x].pc # "enqueue",
         \/ \A r \in Ports : SetsOf(r)' = SetsOf(r) /\ (r \in live' <=> r \in live)
         \/ \E p \in Ports : Regroups(p)
  PROVE  Step(x)
<1>1. PortsOK'
  BY DEF Inv, PortsOK
<1>2. LockStep(x)
  BY DEF LockStep, Inv, LockOK
<1>3. ContentStep(x)
  BY DEF ContentStep
<1> QED
  BY <1>1, <1>2, <1>3 DEF Step

\* ... and the wait queues and the sets too.
LEMMA QuietStep ==
  ASSUME NEW x \in Threads, Inv, UNCHANGED <<port, waitq, links, live, taken>>,
         ThreadStep(x), \A u \in Threads \ {x} : th'[u] = th[u],
         th[x].pc \notin LockPCs \cup WaitPCs,
         th'[x].pc \notin {"enqueue"} \cup WaitPCs
  PROVE  Step(x)
<1>1. LinksOK'
  BY DEF Inv, LinksOK
<1>2. MoveStep(x)
  BY MovesAlone DEF Waiting
<1>3. ListenStep(x)
  BY DEF ListenStep, Listens, WaitPCs
<1>4. \A r \in Ports : SetsOf(r)' = SetsOf(r) /\ (r \in live' <=> r \in live)
  BY DEF SetsOf
<1> QED
  BY <1>1, <1>2, <1>3, <1>4, CalmStep

------------------------------------------------------------------------------
(***************************************************************************)
(* The actions are steps                                                   *)
(***************************************************************************)
LEMMA SendIsStep ==
  ASSUME NEW t \in Senders, NEW p \in Ports, Inv, Send(t, p)
  PROVE  Step(t)
<1> DEFINE m == [from |-> t, no |-> made[t] + 1]
<1>1. t \in Threads /\ made \in [Threads -> Nat] /\ DOMAIN th = Threads
  BY DEF Threads, Inv, ThreadsOK
<1>2. /\ th[t] = Idle /\ made[t] < MaxSends /\ made' = [made EXCEPT ![t] = @ + 1]
      /\ th' = [th EXCEPT ![t] = IF p \in live THEN At("send", p, m) ELSE Idle]
      /\ UNCHANGED <<port, waitq, links, live, taken>>
  BY DEF Send
<1>3. m \in Messages /\ Latest(t)' = m
  BY <1>1, <1>2, PortMessageAssumption DEF Messages, Latest
<1>4. \/ th'[t] = Idle
      \/ /\ th'[t] = At("send", p, Latest(t)')
         /\ th'[t].pc = "send" /\ th'[t].at = p
  BY <1>1, <1>2, <1>3 DEF At
<1>5. ThreadOK(t)'
  BY <1>3, <1>4 DEF ThreadOK, SenderPCs
<1>6. th'[t].pc \in {"idle", "send"} /\ th[t].pc = "idle"
  BY <1>2, <1>4 DEF Idle
<1>7. ThreadStep(t)
  BY <1>1, <1>2, <1>5, <1>6 DEF ThreadStep
<1>8. \A u \in Threads \ {t} : th'[u] = th[u]
  BY <1>1, <1>2
<1> QED
  BY <1>1, <1>2, <1>6, <1>7, <1>8, QuietStep DEF LockPCs, WaitPCs

\* A sender goes on with its message.
LEMMA GoesOn ==
  ASSUME NEW t \in Threads, NEW pc \in SenderPCs, Inv, th[t].pc \in SenderPCs,
         th'[t] = [th[t] EXCEPT !.pc = pc], DOMAIN th' = Threads, made' = made
  PROVE  /\ ThreadStep(t)
         /\ th'[t].pc = pc /\ th'[t].at = th[t].at /\ th'[t].msg = th[t].msg
<1>1. /\ t \in Senders /\ th[t].at \in Ports /\ Latest(t) \in Messages
      /\ th[t] = At(th[t].pc, th[t].at, Latest(t))
  BY SenderIs
<1>2. /\ th'[t] = At(pc, th[t].at, Latest(t))
      /\ th'[t].pc = pc /\ th'[t].at = th[t].at /\ th'[t].msg = th[t].msg
  BY <1>1 DEF At
<1>3. Latest(t)' = Latest(t)
  BY DEF Latest
<1>4. ThreadOK(t)'
  BY <1>1, <1>2, <1>3 DEF ThreadOK
<1>5. ThreadStep(t)
  BY <1>2, <1>4 DEF ThreadStep, SenderPCs
<1> QED
  BY <1>2, <1>5

\* A thread is done.
LEMMA IsDone ==
  ASSUME NEW t \in Threads, Inv, th'[t] = Idle, DOMAIN th' = Threads, made' = made
  PROVE  ThreadStep(t)
BY DEF ThreadStep, ThreadOK, Idle, SenderPCs

LEMMA SendReserveIsStep ==
  ASSUME NEW t \in Senders, Inv, SendReserve(t)
  PROVE  Step(t)
<1> DEFINE p == th[t].at
<1>1. /\ t \in Threads /\ DOMAIN th = Threads /\ port \in [Ports -> PortRecord]
      /\ Wrap \in Nat
  BY PortMessageAssumption DEF Threads, Inv, ThreadsOK, PortsOK
<1>2. /\ th[t].pc = "send" /\ Free(p)
      /\ port' = [port EXCEPT ![p].count = (@ + 1) % Wrap]
      /\ th' = [th EXCEPT ![t].pc = "post"]
      /\ UNCHANGED <<waitq, links, live, made, taken>>
  BY DEF SendReserve
<1>3. p \in Ports
  BY <1>1, <1>2, SenderIs DEF SenderPCs
<1>4. /\ th'[t] = [th[t] EXCEPT !.pc = "post"]
      /\ \A u \in Threads \ {t} : th'[u] = th[u]
      /\ DOMAIN th' = Threads
  BY <1>1, <1>2
<1>5. /\ ThreadStep(t)
      /\ th'[t].pc = "post" /\ th'[t].at = p
  BY <1>1, <1>2, <1>4, GoesOn DEF SenderPCs
<1>6. /\ port' \in [Ports -> PortRecord]
      /\ \A r \in Ports : port'[r].queue = port[r].queue /\ port'[r].lock = port[r].lock
  <2>1. (port[p].count + 1) % Wrap \in 0 .. Wrap - 1
    <3>1. port[p].count \in 0 .. Wrap - 1
      BY <1>1, <1>3 DEF PortRecord
    <3> QED
      BY <1>1, <3>1
  <2> DEFINE new == [port[p] EXCEPT !.count = (port[p].count + 1) % Wrap]
  <2>2. /\ new \in PortRecord
        /\ new.queue = port[p].queue /\ new.lock = port[p].lock
    BY <1>1, <1>3, <2>1 DEF PortRecord
  <2>3. port' = [port EXCEPT ![p] = new]
    BY <1>2
  <2> HIDE DEF new, p
  <2> QED
    BY <1>1, <2>2, <2>3
<1>7. PortsOK' /\ LinksOK'
  BY <1>2, <1>6 DEF Inv, PortsOK, LinksOK
<1>8. MoveStep(t)
  BY <1>1, <1>2, <1>4, <1>5, MovesAlone DEF Waiting, WaitPCs
<1>9. LockStep(t)
  BY <1>1, <1>2, <1>5, <1>6 DEF LockStep, Inv, LockOK, LockPCs
<1>10. ContentStep(t) /\ ListenStep(t)
  BY <1>2, <1>5, <1>6 DEF ContentStep, ListenStep, Listens, SetsOf
<1> QED
  BY <1>5, <1>7, <1>8, <1>9, <1>10 DEF Step

LEMMA SendFullIsStep ==
  ASSUME NEW t \in Senders, Inv, SendFull(t)
  PROVE  Step(t)
<1> DEFINE p == th[t].at
<1>1. /\ t \in Threads /\ DOMAIN th = Threads /\ port \in [Ports -> PortRecord]
  BY DEF Threads, Inv, ThreadsOK, PortsOK
<1>2. /\ th[t].pc = "send" /\ Free(p)
      /\ UNCHANGED <<links, live, made, taken>>
  BY DEF SendFull
<1>3. p \in Ports /\ p \in Queues
  BY <1>1, <1>2, SenderIs DEF SenderPCs, Queues
<1>4. CASE th' = [th EXCEPT ![t] = Idle] /\ UNCHANGED <<port, waitq>>
  <2>1. th'[t] = Idle /\ (\A u \in Threads \ {t} : th'[u] = th[u]) /\ DOMAIN th' = Threads
    BY <1>1, <1>4
  <2>2. ThreadStep(t)
    BY <1>1, <1>2, <2>1, IsDone
  <2> QED
    BY <1>1, <1>2, <1>4, <2>1, <2>2, QuietStep DEF Idle, WaitPCs, LockPCs
<1>5. CASE /\ th' = [th EXCEPT ![t].pc = "full"]
           /\ port' = [port EXCEPT ![p].full = TRUE]
           /\ waitq' = [waitq EXCEPT ![p] = Append(@, t)]
  <2>1. /\ th'[t] = [th[t] EXCEPT !.pc = "full"]
        /\ \A u \in Threads \ {t} : th'[u] = th[u]
        /\ DOMAIN th' = Threads
    BY <1>1, <1>5
  <2>2. /\ ThreadStep(t)
        /\ th'[t].pc = "full" /\ th'[t].at = p
    BY <1>1, <1>2, <2>1, GoesOn DEF SenderPCs
  <2>3. /\ port' \in [Ports -> PortRecord]
        /\ \A r \in Ports : port'[r].queue = port[r].queue /\ port'[r].lock = port[r].lock
    <3> DEFINE new == [port[p] EXCEPT !.full = TRUE]
    <3>1. /\ new \in PortRecord
          /\ new.queue = port[p].queue /\ new.lock = port[p].lock
      BY <1>1, <1>3 DEF PortRecord
    <3>2. port' = [port EXCEPT ![p] = new]
      BY <1>5
    <3> HIDE DEF new, p
    <3> QED
      BY <1>1, <3>1, <3>2
  <2>4. /\ MoveStep(t)
        /\ waitq' \in [Queues -> Seq(Threads \cup Sets)]
        /\ \A s \in Sets : ToSet(waitq'[s]) \cap Sets = {}
        /\ \A r \in Ports : SetsOf(r)' = SetsOf(r)
    <3>1. ~Waiting(t) /\ "full" \in WaitPCs
      BY <1>2 DEF Waiting, WaitPCs
    <3> QED
      BY <1>1, <1>3, <1>5, <2>1, <2>2, <3>1, Sleeps
  <2>5. PortsOK' /\ LinksOK'
    BY <1>2, <2>3, <2>4 DEF Inv, PortsOK, LinksOK
  <2>6. LockStep(t)
    BY <1>1, <1>2, <2>2, <2>3 DEF LockStep, Inv, LockOK, LockPCs
  <2>7. ContentStep(t) /\ ListenStep(t)
    BY <1>2, <2>2, <2>3, <2>4 DEF ContentStep, ListenStep, Listens
  <2> QED
    BY <2>2, <2>4, <2>5, <2>6, <2>7 DEF Step
<1> QED
  BY <1>4, <1>5 DEF SendFull

LEMMA EnqueueIsStep ==
  ASSUME NEW t \in Senders, Inv, Enqueue(t)
  PROVE  Step(t)
<1> DEFINE p == th[t].at
<1>1. /\ t \in Threads /\ DOMAIN th = Threads /\ port \in [Ports -> PortRecord]
      /\ taken \in [Ports -> Seq(Messages)]
  BY DEF Threads, Inv, ThreadsOK, PortsOK
<1>2. /\ th[t].pc = "enqueue"
      /\ port' = [port EXCEPT ![p] = [port[p] EXCEPT !.queue = Append(@, th[t].msg),
                                               !.lock = None]]
      /\ th' = [th EXCEPT ![t] = Idle]
      /\ UNCHANGED <<waitq, links, live, made, taken>>
  BY DEF Enqueue
<1>3. p \in Ports /\ th[t].msg = Latest(t) /\ Latest(t) \in Messages
  BY <1>1, <1>2, SenderIs DEF SenderPCs
<1>4. th'[t] = Idle /\ (\A u \in Threads \ {t} : th'[u] = th[u]) /\ DOMAIN th' = Threads
  BY <1>1, <1>2
<1>5. ThreadStep(t) /\ th'[t].pc = "idle"
  BY <1>1, <1>2, <1>4, IsDone DEF Idle
<1>6. /\ port' \in [Ports -> PortRecord]
      /\ \A r \in Ports \ {p} : port'[r] = port[r]
      /\ port'[p].queue = Append(port[p].queue, Latest(t)) /\ port'[p].lock = None
  <2> DEFINE new == [port[p] EXCEPT !.queue = Append(port[p].queue, th[t].msg),
                                    !.lock = None]
  <2>1. /\ new \in PortRecord
        /\ new.queue = Append(port[p].queue, Latest(t)) /\ new.lock = None
    <3>1. Append(port[p].queue, Latest(t)) \in Seq(Messages) /\ port[p] \in PortRecord
      BY <1>1, <1>3 DEF PortRecord
    <3> QED
      BY <1>3, <3>1 DEF PortRecord
  <2>2. port' = [port EXCEPT ![p] = new]
    BY <1>2
  <2> HIDE DEF new, p
  <2> QED
    BY <1>3, <2>1, <2>2, EditedPort
<1>7. PortsOK' /\ LinksOK'
  BY <1>2, <1>6 DEF Inv, PortsOK, LinksOK
<1>8. MoveStep(t)
  BY <1>1, <1>2, <1>4, <1>5, MovesAlone DEF Waiting, WaitPCs
<1>9. LockStep(t)
  <2>1. port[p].lock = t /\ None # t
    BY <1>1, <1>2, PortMessageAssumption DEF Inv, LockOK
  <2>2. \A r \in Ports \ {p} : port[r].lock # t
    BY <1>1 DEF Inv, LockOK
  <2> QED
    BY <1>5, <1>6, <2>1, <2>2 DEF LockStep
<1>10. Enqueues(t, p)
  <2>1. taken' = [taken EXCEPT ![p] = taken[p]]
    BY <1>1, <1>2, <1>3
  <2> QED
    BY <1>2, <1>3, <1>4, <1>6, <2>1 DEF Enqueues, Exchange, SetsOf
<1>11. ContentStep(t) /\ ListenStep(t)
  BY <1>2, <1>3, <1>5, <1>10 DEF ContentStep, ListenStep, Listens
<1> QED
  BY <1>5, <1>7, <1>8, <1>9, <1>11 DEF Step

LEMMA WaitEndsEarlyIsStep ==
  ASSUME NEW t \in Threads, Inv, WaitEndsEarly(t)
  PROVE  Step(t)
<1>1. /\ th[t].pc \in {"full", "receiving"}
      /\ Wakes({t}, {}) /\ UNCHANGED <<port, links, live, made, taken>>
  BY DEF WaitEndsEarly
<1>2. /\ th'[t] = Idle /\ (\A u \in Threads \ {t} : th'[u] = Woken({t}, {})[u])
      /\ DOMAIN th' = Threads /\ th'[t].pc = "idle"
  BY <1>1 DEF Wakes, Woken, Idle
<1>3. /\ waitq' \in [Queues -> Seq(Threads \cup Sets)]
      /\ \A q \in Queues : ToSet(waitq'[q]) = ToSet(waitq[q]) \ {t}
      /\ \A s \in Sets : ToSet(waitq'[s]) \cap Sets = {}
      /\ \A p \in Ports : SetsOf(p)' = SetsOf(p)
  <2>1. waitq' = Unlinked({t}) /\ LinksOK
    BY <1>1 DEF Wakes, Inv
  <2> QED
    BY <2>1, UnlinkedOK
<1>4. LinksOK'
  BY <1>1, <1>3 DEF Inv, LinksOK
<1>5. MoveStep(t)
  BY <1>2, <1>3, MovesWaking DEF WaitPCs
<1>6. ThreadStep(t)
  BY <1>1, <1>2, IsDone
<1> QED
  BY <1>1, <1>2, <1>3, <1>4, <1>5, <1>6, CalmStep DEF ListenStep, Listens, LockPCs

LEMMA CopyinIsStep ==
  ASSUME NEW t \in Receivers, NEW q \in Queues, Inv, Copyin(t, q)
  PROVE  Step(t)
<1>1. t \in Threads /\ DOMAIN th = Threads
  BY DEF Threads, Inv, ThreadsOK
<1>2. /\ th[t] = Idle /\ th' = [th EXCEPT ![t] = At("receive", q, None)]
      /\ UNCHANGED <<port, waitq, links, live, made, taken>>
  BY DEF Copyin
<1>3. /\ th'[t] = At("receive", q, None) /\ th'[t].pc = "receive" /\ th'[t].at = q
      /\ \A u \in Threads \ {t} : th'[u] = th[u]
      /\ DOMAIN th' = Threads
  BY <1>1, <1>2 DEF At
<1>4. ThreadStep(t)
  BY <1>2, <1>3 DEF ThreadStep, ThreadOK, ReceiverPCs, SenderPCs
<1> QED
  BY <1>1, <1>2, <1>3, <1>4, QuietStep DEF Idle, WaitPCs, LockPCs

\* x hands a message over: its receiver and the heir of its slot are woken.
LEMMA HandsOverOK ==
  ASSUME NEW x \in Threads, NEW p \in Ports, NEW after \in PortRecord,
         NEW m \in Messages, NEW gone, Inv, HandsOver(p, m, after, gone),
         links' \in [Sets -> Seq(Ports)], th[x].pc \notin WaitPCs,
         gone \ {x} \subseteq {t \in Receivers : th[t].pc = "receiving"},
         live' = live
  PROVE  /\ PortsOK' /\ LinksOK' /\ MoveStep(x)
         /\ \A r \in Ports \ {p} : port'[r] = port[r]
         /\ port'[p].queue = after.queue /\ port'[p].lock = after.lock
         /\ taken' = [taken EXCEPT ![p] = Append(taken[p], m)]
         /\ \A r \in Ports : SetsOf(r)' = SetsOf(r)
         /\ DOMAIN th' = Threads
         /\ th'[x] = IF x \in gone THEN Idle ELSE th[x]
<1>1. /\ port' \in [Ports -> PortRecord]
      /\ \A r \in Ports \ {p} : port'[r] = port[r]
      /\ port'[p].queue = after.queue /\ port'[p].lock = after.lock
      /\ \E heir \in SUBSET Waiters(p) : Wakes(gone, heir)
  <2>1. ReleaseMsgcount(p, after, gone)
    BY DEF HandsOver
  <2> QED
    BY <2>1, Released
<1>2. taken' = [taken EXCEPT ![p] = Append(taken[p], m)]
  BY DEF HandsOver
<1>3. PortsOK'
  <2>1. taken \in [Ports -> Seq(Messages)] /\ live \subseteq Queues
    BY DEF Inv, PortsOK
  <2>2. Append(taken[p], m) \in Seq(Messages)
    BY <2>1
  <2> QED
    BY <1>1, <1>2, <2>1, <2>2 DEF PortsOK
<1>4. PICK heir \in SUBSET Waiters(p) : Wakes(gone, heir)
  BY <1>1
<1>5. /\ heir \subseteq {t \in Senders : th[t].pc = "full"} /\ x \notin heir
  BY DEF Waiters, WaitPCs
<1>6. gone \cup heir \in SUBSET Threads
  BY <1>5 DEF Threads
<1>7. /\ waitq' \in [Queues -> Seq(Threads \cup Sets)]
      /\ \A q \in Queues : ToSet(waitq'[q]) = ToSet(waitq[q]) \ (gone \cup heir)
      /\ \A s \in Sets : ToSet(waitq'[s]) \cap Sets = {}
      /\ \A r \in Ports : SetsOf(r)' = SetsOf(r)
  <2>1. waitq' = Unlinked(gone \cup heir) /\ LinksOK
    BY <1>4 DEF Wakes, Inv
  <2> QED
    BY <1>6, <2>1, UnlinkedOK
<1>8. LinksOK'
  BY <1>7 DEF LinksOK
<1>9. th' = Woken(gone, heir)
  BY <1>4 DEF Wakes
<1>10. /\ DOMAIN th' = Threads /\ th'[x] = IF x \in gone THEN Idle ELSE th[x]
       /\ \A u \in Threads \ {x} : th'[u] = Woken(gone, heir)[u]
  BY <1>5, <1>9 DEF Woken
<1>11. th'[x].pc \notin WaitPCs
  BY <1>10 DEF Idle, WaitPCs
<1>12. MoveStep(x)
  BY <1>5, <1>7, <1>10, <1>11, MovesOn
<1> QED
  BY <1>1, <1>2, <1>3, <1>7, <1>8, <1>10, <1>12

LEMMA TurnAwayIsStep ==
  ASSUME NEW t \in Threads, Inv, TurnAway(t)
  PROVE  Step(t)
<1> DEFINE p == th[t].at
           rs == FirstReceiver(p)
<1>1. /\ th[t].pc \in {"post", "match"} /\ Lockable(t, p)
      /\ port' = [port EXCEPT ![p].lock = t] /\ Wakes(rs, {})
      /\ UNCHANGED <<links, live, made, taken>>
  BY DEF TurnAway
<1>2. p \in Ports /\ ThreadOK(t) /\ LinksOK
  BY <1>1, SenderIs, OwnerIs DEF SenderPCs, OwnerPCs, Inv, ThreadsOK
<1>3. rs \subseteq {u \in Receivers : th[u].pc = "receiving"} /\ t \notin rs
  <2>1. rs \subseteq Readers(p)
    BY <1>2, FirstReceiverOK
  <2> QED
    BY <1>1, <2>1 DEF Readers
<1>4. /\ DOMAIN th' = Threads /\ th'[t] = th[t]
      /\ \A u \in Threads \ {t} : th'[u] = Woken(rs, {})[u]
  BY <1>1, <1>3 DEF Wakes, Woken
<1>5. /\ waitq' \in [Queues -> Seq(Threads \cup Sets)]
      /\ \A q \in Queues : ToSet(waitq'[q]) = ToSet(waitq[q]) \ rs
      /\ \A s \in Sets : ToSet(waitq'[s]) \cap Sets = {}
      /\ \A r \in Ports : SetsOf(r)' = SetsOf(r)
  <2>1. waitq' = Unlinked(rs) /\ rs \in SUBSET Threads
    BY <1>1, <1>3 DEF Wakes, Threads
  <2> HIDE DEF rs
  <2> QED
    BY <1>2, <2>1, UnlinkedOK
<1>6. /\ port' \in [Ports -> PortRecord]
      /\ \A r \in Ports \ {p} : port'[r] = port[r]
      /\ port'[p].queue = port[p].queue /\ port'[p].lock = t
  <2> DEFINE new == [port[p] EXCEPT !.lock = t]
  <2>1. /\ new \in PortRecord /\ new.queue = port[p].queue /\ new.lock = t
    BY <1>2 DEF PortRecord, Inv, PortsOK
  <2>2. port' = [port EXCEPT ![p] = new]
    BY <1>1
  <2> HIDE DEF new, p
  <2> QED
    BY <1>2, <2>1, <2>2, EditedPort
<1> HIDE DEF rs
<1>7. PortsOK' /\ LinksOK'
  BY <1>1, <1>5, <1>6 DEF Inv, PortsOK, LinksOK
<1>8. MoveStep(t)
  <2>1. rs \ {t} \subseteq {u \in Receivers : th[u].pc = "receiving"}
    BY <1>3
  <2>2. th[t].pc \notin WaitPCs /\ th'[t].pc \notin WaitPCs
    BY <1>1, <1>4 DEF WaitPCs
  <2> QED
    BY <1>4, <1>5, <2>1, <2>2, MovesWaking
<1>9. ThreadStep(t)
  BY <1>1, <1>2, <1>4 DEF ThreadStep, ThreadOK, Latest
<1>10. LockStep(t)
  BY <1>1, <1>4, <1>6 DEF LockStep, Lockable, Inv, LockOK, LockPCs
<1>11. ContentStep(t) /\ ListenStep(t)
  BY <1>1, <1>4, <1>5, <1>6 DEF ContentStep, ListenStep, Listens
<1> QED
  BY <1>7, <1>8, <1>9, <1>10, <1>11 DEF Step

LEMMA PostIsStep ==
  ASSUME NEW t \in Senders, Inv, Post(t)
  PROVE  Step(t)
<1> DEFINE p == th[t].at
           rs == FirstReceiver(p)
           after == [port[p] EXCEPT !.lock = None]
<1>1. /\ th[t].pc = "post" /\ Lockable(t, p) /\ UNCHANGED <<links, live, made>>
      /\ t \in Threads
  BY DEF Post, Threads
<1>2. /\ p \in Ports /\ th[t].msg = Latest(t) /\ Latest(t) \in Messages
      /\ port \in [Ports -> PortRecord] /\ DOMAIN th = Threads
      /\ links \in [Sets -> Seq(Ports)]
  BY <1>1, SenderIs DEF SenderPCs, Inv, PortsOK, ThreadsOK, LinksOK
<1>3. /\ rs \subseteq Readers(p)
      /\ rs = {} => \A u \in Threads : ~Listens(u, p)
  BY <1>2, FirstReceiverOK
<1>4. \A r \in Ports \ {p} : port[r].lock # t
  BY <1>1 DEF Inv, LockOK
<1>5. CASE rs # {} /\ HandsOver(p, th[t].msg, after, {t} \cup rs)
  <2>1. /\ after \in PortRecord /\ after.queue = port[p].queue /\ after.lock = None
    BY <1>2 DEF PortRecord
  <2>2. ({t} \cup rs) \ {t} \subseteq {u \in Receivers : th[u].pc = "receiving"}
    BY <1>3 DEF Readers
  <2>3. /\ PortsOK' /\ LinksOK' /\ MoveStep(t)
        /\ \A r \in Ports \ {p} : port'[r] = port[r]
        /\ port'[p].queue = port[p].queue /\ port'[p].lock = None
        /\ taken' = [taken EXCEPT ![p] = Append(taken[p], Latest(t))]
        /\ \A r \in Ports : SetsOf(r)' = SetsOf(r)
        /\ DOMAIN th' = Threads /\ th'[t] = Idle
    <3>1. th[t].pc \notin WaitPCs /\ links' \in [Sets -> Seq(Ports)] /\ live' = live
      BY <1>1, <1>2 DEF WaitPCs
    <3> DEFINE m == th[t].msg  gone == {t} \cup rs
    <3>2. m \in Messages /\ HandsOver(p, m, after, gone) /\ t \in gone /\ m = Latest(t)
      BY <1>2, <1>5
    <3>3. gone \ {t} \subseteq {u \in Receivers : th[u].pc = "receiving"}
      BY <2>2
    <3> HIDE DEF after, m, gone, p
    <3> QED
      BY <1>1, <1>2, <2>1, <3>1, <3>2, <3>3, HandsOverOK
  <2>4. port[p].queue = <<>> \/ SetsOf(p) # {}
    <3>1. PICK r \in rs : r \in Receivers /\ th[r].pc = "receiving"
                          /\ (th[r].at = p \/ SetsOf(p) # {})
      BY <1>3, <1>5 DEF Readers
    <3>2. r \in Threads
      BY <3>1 DEF Threads
    <3>3. Listens(r, p) => port[p].queue = <<>>
      BY <1>2, <3>2 DEF Inv, ListenOK
    <3> QED
      BY <3>1, <3>3 DEF Listens
  <2>5. ThreadStep(t) /\ th'[t].pc = "idle"
    BY <1>1, <2>3, IsDone DEF Idle
  <2>6. LockStep(t)
    BY <1>1, <1>4, <2>3, <2>5, PortMessageAssumption DEF LockStep, Lockable
  <2>7. Passes(t, p)
    BY <1>1, <2>3, <2>4 DEF Passes, Exchange
  <2>8. ContentStep(t) /\ ListenStep(t)
    BY <1>1, <1>2, <2>5, <2>7 DEF ContentStep, ListenStep, Listens
  <2> QED
    BY <2>3, <2>5, <2>6, <2>8 DEF Step
<1>6. CASE /\ rs = {}
           /\ port' = [port EXCEPT ![p].lock = t]
           /\ th' = [th EXCEPT ![t].pc = "enqueue"]
           /\ UNCHANGED <<waitq, taken>>
  <2>1. /\ th'[t] = [th[t] EXCEPT !.pc = "enqueue"]
        /\ \A u \in Threads \ {t} : th'[u] = th[u]
        /\ DOMAIN th' = Threads
    BY <1>1, <1>2, <1>6
  <2>2. /\ ThreadStep(t)
        /\ th'[t].pc = "enqueue" /\ th'[t].at = p
    BY <1>1, <2>1, GoesOn DEF SenderPCs
  <2>3. /\ port' \in [Ports -> PortRecord]
        /\ \A r \in Ports \ {p} : port'[r] = port[r]
        /\ port'[p].queue = port[p].queue /\ port'[p].lock = t
    <3> DEFINE new == [port[p] EXCEPT !.lock = t]
    <3>1. /\ new \in PortRecord /\ new.queue = port[p].queue /\ new.lock = t
      BY <1>1, <1>2 DEF PortRecord
    <3>2. port' = [port EXCEPT ![p] = new]
      BY <1>6
    <3> HIDE DEF new, p
    <3> QED
      BY <1>2, <3>1, <3>2, EditedPort
  <2>4. PortsOK' /\ LinksOK'
    BY <1>1, <1>6, <2>3 DEF Inv, PortsOK, LinksOK
  <2>5. MoveStep(t)
    BY <1>1, <1>6, <2>1, <2>2, MovesAlone DEF Waiting, WaitPCs
  <2>6. LockStep(t)
    BY <1>1, <1>4, <2>2, <2>3 DEF LockStep, Lockable, LockPCs
  <2>7. ListenStep(t)
    <3>1. \A u \in Threads : ~Listens(u, p)'
      BY <1>3, <1>6, <2>1, <2>2 DEF Listens
    <3> QED
      BY <2>2, <3>1 DEF ListenStep, Listens
  <2>8. ContentStep(t)
    BY <1>1, <1>6, <2>3 DEF ContentStep, SetsOf
  <2> QED
    BY <2>2, <2>4, <2>5, <2>6, <2>7, <2>8 DEF Step
<1> QED
  BY <1>5, <1>6 DEF Post

\* ipc_mqueue_select.
LEMMA SelectIsStep ==
  ASSUME NEW t \in Receivers, NEW p \in Ports, Inv, th[t].pc = "receive",
         port[p].queue # <<>>, Select(t, p), links' \in [Sets -> Seq(Ports)],
         UNCHANGED <<live, made>>
  PROVE  Step(t)
<1> DEFINE m == Head(port[p].queue)
           after == [port[p] EXCEPT !.queue = Tail(@)]
<1>1. /\ t \in Threads /\ port[p] \in PortRecord /\ DOMAIN th = Threads
      /\ port[p].queue \in Seq(Messages) /\ th[t].pc \notin WaitPCs \cup LockPCs
  BY DEF Threads, Inv, PortsOK, ThreadsOK, PortRecord, WaitPCs, LockPCs
<1>2. \A r \in Ports : port[r].lock # t
  BY <1>1 DEF Inv, LockOK
<1>3. CASE HandsOver(p, m, after, {t})
  <2>1. /\ m \in Messages /\ after \in PortRecord
        /\ after.queue = Tail(port[p].queue) /\ after.lock = port[p].lock
    <3>1. Tail(port[p].queue) \in Seq(Messages) /\ m \in Messages
      BY <1>1
    <3> QED
      BY <1>1, <3>1 DEF PortRecord
  <2>2. /\ PortsOK' /\ LinksOK' /\ MoveStep(t)
        /\ \A r \in Ports \ {p} : port'[r] = port[r]
        /\ port'[p].queue = Tail(port[p].queue) /\ port'[p].lock = port[p].lock
        /\ taken' = [taken EXCEPT ![p] = Append(taken[p], m)]
        /\ \A r \in Ports : SetsOf(r)' = SetsOf(r)
        /\ DOMAIN th' = Threads /\ th'[t] = Idle
    <3> DEFINE gone == {t}
    <3>1. /\ HandsOver(p, m, after, gone) /\ t \in gone /\ live' = live
          /\ gone \ {t} \subseteq {u \in Receivers : th[u].pc = "receiving"}
      BY <1>3
    <3> HIDE DEF after, m, gone
    <3> QED
      BY <1>1, <2>1, <3>1, HandsOverOK
  <2>3. ThreadStep(t) /\ th'[t].pc = "idle"
    BY <1>1, <2>2, IsDone DEF Idle
  <2>4. LockStep(t)
    BY <1>2, <2>2, <2>3 DEF LockStep
  <2>5. Takes(p)
    BY <2>2 DEF Takes, Exchange
  <2>6. ContentStep(t) /\ ListenStep(t)
    BY <2>3, <2>5 DEF ContentStep, ListenStep, Listens
  <2> QED
    BY <2>2, <2>3, <2>4, <2>6 DEF Step
<1>4. CASE Wakes({t}, {}) /\ UNCHANGED <<port, taken>>
  <2>1. /\ th'[t] = Idle /\ (\A u \in Threads \ {t} : th'[u] = Woken({t}, {})[u])
        /\ DOMAIN th' = Threads /\ th'[t].pc = "idle"
    BY <1>1, <1>4 DEF Wakes, Woken, Idle
  <2>2. /\ waitq' \in [Queues -> Seq(Threads \cup Sets)]
        /\ \A q \in Queues : ToSet(waitq'[q]) = ToSet(waitq[q]) \ {t}
        /\ \A s \in Sets : ToSet(waitq'[s]) \cap Sets = {}
        /\ \A r \in Ports : SetsOf(r)' = SetsOf(r)
    <3>1. waitq' = Unlinked({t}) /\ LinksOK /\ {t} \in SUBSET Threads
      BY <1>1, <1>4 DEF Wakes, Inv
    <3> QED
      BY <3>1, UnlinkedOK
  <2>3. LinksOK'
    BY <2>2 DEF LinksOK
  <2>4. MoveStep(t)
    BY <1>1, <2>1, <2>2, MovesWaking DEF WaitPCs
  <2>5. ThreadStep(t)
    BY <1>1, <2>1, IsDone
  <2>6. ListenStep(t)
    BY <2>1 DEF ListenStep, Listens
  <2> QED
    BY <1>1, <1>4, <2>1, <2>2, <2>3, <2>4, <2>5, <2>6, CalmStep
<1> QED
  BY <1>3, <1>4 DEF Select

LEMMA ReceiveWaitIsStep ==
  ASSUME NEW t \in Threads, Inv, th[t].pc = "receive", ReceiveWait(t),
         th[t].at \in Ports => port[th[t].at].queue = <<>> /\ Free(th[t].at),
         UNCHANGED <<links, live, made>>
  PROVE  Step(t)
<1> DEFINE q == th[t].at
<1>1. DOMAIN th = Threads /\ UNCHANGED <<port, taken>>
  BY DEF Inv, ThreadsOK, ReceiveWait
<1>2. t \in Receivers /\ q \in Queues /\ th[t] = At("receive", q, None)
  BY ReceiverIs DEF ReceiverPCs
<1>3. th[t].pc \notin LockPCs \cup WaitPCs
  BY DEF LockPCs, WaitPCs
<1>4. CASE th' = [th EXCEPT ![t] = Idle] /\ UNCHANGED waitq
  <2>1. th'[t] = Idle /\ (\A u \in Threads \ {t} : th'[u] = th[u]) /\ DOMAIN th' = Threads
    BY <1>1, <1>4
  <2>2. ThreadStep(t)
    BY <2>1, IsDone
  <2> QED
    BY <1>1, <1>3, <1>4, <2>1, <2>2, QuietStep DEF Idle, WaitPCs
<1>5. CASE /\ th' = [th EXCEPT ![t].pc = "receiving"]
           /\ waitq' = [waitq EXCEPT ![q] = Append(@, t)]
  <2>1. /\ th'[t] = At("receiving", q, None)
        /\ \A u \in Threads \ {t} : th'[u] = th[u]
        /\ DOMAIN th' = Threads
    BY <1>1, <1>2, <1>5 DEF At
  <2>2. th'[t].pc = "receiving" /\ th'[t].at = q
    BY <2>1 DEF At
  <2>3. ThreadStep(t)
    BY <1>2, <2>1, <2>2 DEF ThreadStep, ThreadOK, ReceiverPCs, SenderPCs
  <2>4. /\ MoveStep(t)
        /\ waitq' \in [Queues -> Seq(Threads \cup Sets)]
        /\ \A s \in Sets : ToSet(waitq'[s]) \cap Sets = {}
        /\ \A r \in Ports : SetsOf(r)' = SetsOf(r)
    <3>1. ~Waiting(t) /\ "receiving" \in WaitPCs
      BY DEF Waiting, WaitPCs
    <3> QED
      BY <1>2, <1>5, <2>1, <2>2, <3>1, Sleeps
  <2>5. LinksOK'
    BY <2>4 DEF LinksOK, Inv
  <2>6. ListenStep(t)
    BY <1>1, <2>2 DEF ListenStep, Listens
  <2>7. \A r \in Ports : SetsOf(r)' = SetsOf(r) /\ (r \in live' <=> r \in live)
    BY <2>4
  <2> QED
    BY <1>1, <1>3, <2>2, <2>3, <2>4, <2>5, <2>6, <2>7, CalmStep
<1> QED
  BY <1>4, <1>5 DEF ReceiveWait

LEMMA ReceivePortIsStep ==
  ASSUME NEW t \in Receivers, Inv, ReceivePort(t)
  PROVE  Step(t)
<1> DEFINE p == th[t].at
<1>1. /\ th[t].pc = "receive" /\ p \in Ports /\ Free(p) /\ t \in Threads
      /\ UNCHANGED <<links, live, made>> /\ links' \in [Sets -> Seq(Ports)]
  BY DEF ReceivePort, Threads, Inv, LinksOK
<1>2. CASE port[p].queue # <<>> /\ Select(t, p)
  BY <1>1, <1>2, SelectIsStep
<1>3. CASE port[p].queue = <<>> /\ ReceiveWait(t)
  BY <1>1, <1>3, ReceiveWaitIsStep
<1> QED
  BY <1>2, <1>3 DEF ReceivePort

LEMMA RemovedLink ==
  ASSUME NEW S, NEW q \in Seq(S), NEW n \in DOMAIN q
  PROVE  RemoveAt(q, n) \in Seq(S)
<1>1. /\ n \in 1 .. Len(q) /\ Len(q) \in Nat
      /\ \A i \in 1 .. Len(q) : q[i] \in S
  OBVIOUS
<1>2. SubSeq(q, 1, n - 1) \in Seq(S) /\ SubSeq(q, n + 1, Len(q)) \in Seq(S)
  BY <1>1
<1> QED
  BY <1>2 DEF RemoveAt

LEMMA ReceiveSetIsStep ==
  ASSUME NEW t \in Receivers, Inv, ReceiveSet(t)
  PROVE  Step(t)
<1> DEFINE s == th[t].at
<1>1. /\ th[t].pc = "receive" /\ s \in Sets /\ UNCHANGED <<live, made>>
      /\ t \in Threads /\ links \in [Sets -> Seq(Ports)]
  BY DEF ReceiveSet, Threads, Inv, LinksOK
<1>2. ASSUME NEW n \in WithMessage(s), Select(t, links[s][n]),
             links' = [links EXCEPT ![s] = Append(RemoveAt(@, n), links[s][n])]
      PROVE  Step(t)
  <2>1. /\ n \in DOMAIN links[s] /\ port[links[s][n]].queue # <<>>
        /\ links[s] \in Seq(Ports)
    BY <1>1, <1>2 DEF WithMessage
  <2>2. links[s][n] \in Ports
    BY <2>1
  <2>3. Append(RemoveAt(links[s], n), links[s][n]) \in Seq(Ports)
    <3>1. RemoveAt(links[s], n) \in Seq(Ports)
      BY <2>1, RemovedLink
    <3> QED
      BY <2>2, <3>1
  <2>4. links' \in [Sets -> Seq(Ports)]
    BY <1>1, <1>2, <2>3
  <2> QED
    BY <1>1, <1>2, <2>1, <2>2, <2>4, SelectIsStep
<1>3. CASE ReceiveWait(t) /\ UNCHANGED links
  <2>1. s \notin Ports
    BY <1>1, PortMessageAssumption
  <2> QED
    BY <1>1, <1>3, <2>1, ReceiveWaitIsStep
<1> QED
  BY <1>2, <1>3 DEF ReceiveSet

LEMMA MatchIsStep ==
  ASSUME NEW o \in Owners, Inv, Match(o)
  PROVE  Step(o)
<1> DEFINE p == th[o].at
           rs == FirstReceiver(p)
           m == Head(port[p].queue)
           after == [port[p] EXCEPT !.queue = Tail(@), !.lock = o]
<1>1. /\ th[o].pc = "match" /\ Lockable(o, p) /\ UNCHANGED <<links, live, made>>
      /\ o \in Threads /\ ThreadOK(o)
  BY DEF Match, Threads, Inv, ThreadsOK
<1>2. /\ p \in Ports /\ port[p] \in PortRecord /\ DOMAIN th = Threads
      /\ links' \in [Sets -> Seq(Ports)] /\ port[p].queue \in Seq(Messages)
      /\ th[o].pc \notin WaitPCs
  BY <1>1, OwnerIs DEF OwnerPCs, Inv, PortsOK, ThreadsOK, LinksOK, PortRecord, WaitPCs
<1>3. \A r \in Ports \ {p} : port[r].lock # o
  BY <1>1 DEF Inv, LockOK
<1>4. CASE port[p].queue # <<>> /\ HandsOver(p, m, after, rs)
  <2>1. rs \subseteq {u \in Receivers : th[u].pc = "receiving"} /\ o \notin rs
    <3>1. rs \subseteq Readers(p)
      BY <1>2, FirstReceiverOK
    <3> QED
      BY <1>1, <3>1 DEF Readers
  <2>2. /\ m \in Messages /\ after \in PortRecord
        /\ after.queue = Tail(port[p].queue) /\ after.lock = o
    <3>1. Tail(port[p].queue) \in Seq(Messages) /\ m \in Messages
      BY <1>2, <1>4
    <3> QED
      BY <1>1, <1>2, <3>1 DEF PortRecord
  <2>3. /\ PortsOK' /\ LinksOK' /\ MoveStep(o)
        /\ \A r \in Ports \ {p} : port'[r] = port[r]
        /\ port'[p].queue = Tail(port[p].queue) /\ port'[p].lock = o
        /\ taken' = [taken EXCEPT ![p] = Append(taken[p], m)]
        /\ \A r \in Ports : SetsOf(r)' = SetsOf(r)
        /\ DOMAIN th' = Threads /\ th'[o] = th[o]
    <3>1. /\ HandsOver(p, m, after, rs) /\ live' = live
          /\ rs \ {o} \subseteq {u \in Receivers : th[u].pc = "receiving"}
      BY <1>1, <1>4, <2>1
    <3> HIDE DEF after, m, rs, p
    <3> QED
      BY <1>1, <1>2, <2>1, <2>2, <3>1, HandsOverOK
  <2>4. ThreadStep(o)
    BY <1>1, <2>3 DEF ThreadStep, ThreadOK, Latest
  <2>5. LockStep(o)
    BY <1>1, <1>3, <2>3 DEF LockStep, Lockable, LockPCs
  <2>6. Takes(p)
    BY <1>1, <1>4, <2>3 DEF Takes, Exchange
  <2>7. ContentStep(o) /\ ListenStep(o)
    BY <1>1, <1>2, <2>3, <2>6 DEF ContentStep, ListenStep, Listens
  <2> QED
    BY <2>3, <2>4, <2>5, <2>7 DEF Step
<1>5. CASE /\ port' = [port EXCEPT ![p].lock = None]
           /\ Wakes({o}, {}) /\ UNCHANGED taken
  <2>1. /\ th'[o] = Idle /\ (\A u \in Threads \ {o} : th'[u] = Woken({o}, {})[u])
        /\ DOMAIN th' = Threads /\ th'[o].pc = "idle"
    BY <1>1, <1>5 DEF Wakes, Woken, Idle
  <2>2. /\ waitq' \in [Queues -> Seq(Threads \cup Sets)]
        /\ \A q \in Queues : ToSet(waitq'[q]) = ToSet(waitq[q]) \ {o}
        /\ \A s \in Sets : ToSet(waitq'[s]) \cap Sets = {}
        /\ \A r \in Ports : SetsOf(r)' = SetsOf(r)
    <3>1. waitq' = Unlinked({o}) /\ LinksOK /\ {o} \in SUBSET Threads
      BY <1>1, <1>5 DEF Wakes, Inv
    <3> QED
      BY <3>1, UnlinkedOK
  <2>3. LinksOK'
    BY <1>1, <1>2, <2>2 DEF LinksOK
  <2>4. MoveStep(o)
    BY <1>1, <2>1, <2>2, MovesWaking DEF WaitPCs
  <2>5. ThreadStep(o)
    BY <1>1, <2>1, IsDone
  <2>6. /\ port' \in [Ports -> PortRecord]
        /\ \A r \in Ports \ {p} : port'[r] = port[r]
        /\ port'[p].queue = port[p].queue /\ port'[p].lock = None
    <3> DEFINE new == [port[p] EXCEPT !.lock = None]
    <3>1. /\ new \in PortRecord /\ new.queue = port[p].queue /\ new.lock = None
      BY <1>2 DEF PortRecord
    <3>2. port' = [port EXCEPT ![p] = new]
      BY <1>5
    <3> HIDE DEF new, p
    <3> QED
      BY <1>2, <3>1, <3>2, EditedPort
  <2>7. PortsOK'
    BY <1>1, <1>5, <2>6 DEF Inv, PortsOK
  <2>8. LockStep(o)
    BY <1>1, <1>3, <2>1, <2>6, PortMessageAssumption DEF LockStep, Lockable
  <2>9. ContentStep(o) /\ ListenStep(o)
    BY <1>1, <1>5, <2>1, <2>2, <2>6 DEF ContentStep, ListenStep, Listens
  <2> QED
    BY <2>3, <2>4, <2>5, <2>7, <2>8, <2>9 DEF Step
<1> QED
  BY <1>4, <1>5 DEF Match

\* An owner begins an operation.
LEMMA BeginsOK ==
  ASSUME NEW o \in Owners, NEW q \in Queues, Inv, Begins(o, q), DOMAIN th' = Threads
  PROVE  /\ o \in Threads /\ th[o] = Idle /\ th[o].pc \notin LockPCs \cup WaitPCs
         /\ th'[o] = Idle => ThreadStep(o) /\ th'[o].pc \notin WaitPCs \cup {"enqueue"}
                             /\ ListenStep(o)
         /\ \A p \in Ports : \A m :
              /\ th'[o] = At("match", p, m)
                   => ThreadStep(o) /\ th'[o].pc \notin WaitPCs \cup {"enqueue"}
                      /\ ListenStep(o)
              /\ th'[o] = At("destroy", p, m) /\ p \notin live'
                   => ThreadStep(o) /\ th'[o].pc \notin WaitPCs \cup {"enqueue"}
                      /\ ListenStep(o)
<1>1. o \in Threads /\ th[o] = Idle /\ made' = [made EXCEPT ![o] = @ + 1]
  BY DEF Begins, Threads
<1>2. Idle.pc = "idle"
  BY DEF Idle
<1>3. \A p, m : /\ At("match", p, m).pc = "match" /\ At("match", p, m).at = p
                /\ At("match", p, m).msg = m
                /\ At("destroy", p, m).pc = "destroy" /\ At("destroy", p, m).at = p
                /\ At("destroy", p, m).msg = m
  BY DEF At
<1>4. ASSUME th'[o] = Idle
      PROVE  ThreadStep(o) /\ th'[o].pc = "idle"
  BY <1>1, <1>2, <1>4 DEF ThreadStep, ThreadOK
<1>5. ASSUME NEW p \in Ports, NEW m, th'[o] = At("match", p, m)
      PROVE  ThreadStep(o) /\ th'[o].pc = "match"
  BY <1>1, <1>3, <1>5 DEF ThreadStep, ThreadOK, OwnerPCs
<1>6. ASSUME NEW p \in Ports, NEW m, th'[o] = At("destroy", p, m), p \notin live'
      PROVE  ThreadStep(o) /\ th'[o].pc = "destroy"
  BY <1>1, <1>3, <1>6 DEF ThreadStep, ThreadOK, OwnerPCs
<1>7. th'[o].pc \in {"idle", "match", "destroy"}
        => th'[o].pc \notin WaitPCs \cup {"enqueue"} /\ ListenStep(o)
  BY DEF WaitPCs, ListenStep, Listens
<1>8. th[o].pc \notin LockPCs \cup WaitPCs
  BY <1>1, <1>2 DEF LockPCs, WaitPCs
<1> QED
  BY <1>1, <1>4, <1>5, <1>6, <1>7, <1>8

LEMMA LinksWithoutOK ==
  ASSUME NEW p, NEW ss, LinksOK
  PROVE  LinksWithout(p, ss) \in [Sets -> Seq(Ports)]
<1>1. \A s \in Sets : links[s] \in Seq(Ports)
  BY DEF LinksOK
<1>2. \A s \in Sets : Without(links[s], {p}) \in Seq(Ports)
  BY <1>1, WithoutLinks
<1> QED
  BY <1>1, <1>2 DEF LinksWithout

LEMMA AddMemberIsStep ==
  ASSUME NEW o \in Owners, NEW p \in Ports, NEW s \in Sets, Inv, AddMember(o, p, s)
  PROVE  Step(o)
<1>1. /\ Begins(o, p) /\ th' = [th EXCEPT ![o] = At("match", p, s)]
      /\ UNCHANGED <<port, live, taken>> /\ p \in Queues /\ p \in live
      /\ DOMAIN th = Threads /\ LinksOK
  BY DEF AddMember, Begins, Queues, Inv, ThreadsOK
<1>2. DOMAIN th' = Threads
  BY <1>1
<1>3. o \in Threads /\ th[o] = Idle /\ th[o].pc \notin LockPCs \cup WaitPCs
  BY <1>1, <1>2, BeginsOK
<1>4. th'[o] = At("match", p, s) /\ (\A u \in Threads \ {o} : th'[u] = th[u])
  BY <1>1, <1>3
<1>5. ThreadStep(o) /\ th'[o].pc \notin WaitPCs \cup {"enqueue"} /\ ListenStep(o)
  BY <1>1, <1>2, <1>4, BeginsOK
<1>6. PICK ss \in {{}, SetsOf(p)} :
        /\ waitq' = [waitq EXCEPT ![p] = Append(Without(@, ss), s)]
        /\ links' = [LinksWithout(p, ss) EXCEPT ![s] = Append(@, p)]
  BY DEF AddMember
<1>7. /\ Append(Without(waitq[p], ss), s) \in Seq(Threads \cup Sets)
      /\ ToSet(Append(Without(waitq[p], ss), s)) = (ToSet(waitq[p]) \ ss) \cup {s}
      /\ waitq \in [Queues -> Seq(Threads \cup Sets)]
  <2>1. waitq \in [Queues -> Seq(Threads \cup Sets)]
    BY <1>1 DEF LinksOK
  <2>2. waitq[p] \in Seq(Threads \cup Sets)
    BY <1>1, <2>1
  <2>3. /\ Without(waitq[p], ss) \in Seq(Threads \cup Sets)
        /\ ToSet(Without(waitq[p], ss)) = ToSet(waitq[p]) \ ss
    BY <2>2, WithoutLinks
  <2>4. s \in Threads \cup Sets
    OBVIOUS
  <2> QED
    BY <2>1, <2>3, <2>4, AppendedLinks
<1>8. /\ waitq' \in [Queues -> Seq(Threads \cup Sets)]
      /\ \A q \in Queues : ToSet(waitq'[q]) =
           IF q = p THEN (ToSet(waitq[p]) \ ss) \cup {s} ELSE ToSet(waitq[q])
  BY <1>1, <1>6, <1>7
<1>9. links' \in [Sets -> Seq(Ports)]
  <2>1. LinksWithout(p, ss) \in [Sets -> Seq(Ports)]
    BY <1>1, LinksWithoutOK
  <2>2. Append(LinksWithout(p, ss)[s], p) \in Seq(Ports)
    BY <2>1
  <2> QED
    BY <1>6, <2>1, <2>2
<1>10. ss \subseteq Sets /\ p \notin Sets /\ Threads \cap Sets = {}
  BY PortMessageAssumption DEF SetsOf, Queues
<1>11. LinksOK'
  BY <1>1, <1>8, <1>9, <1>10 DEF LinksOK, Queues
<1>12. \A q \in Queues, u \in Threads : u \in ToSet(waitq'[q]) <=> u \in ToSet(waitq[q])
  BY <1>8, <1>10
<1>13. MoveStep(o)
  BY <1>3, <1>4, <1>5, <1>12, MovesAlone DEF Waiting
<1>14. Regroups(p)
  <2>1. s \in SetsOf(p)'
    BY <1>1, <1>8 DEF SetsOf
  <2>2. \A r \in Ports \ {p} : SetsOf(r)' = SetsOf(r)
    BY <1>8 DEF SetsOf, Queues
  <2> QED
    BY <1>1, <2>1, <2>2 DEF Regroups
<1> QED
  BY <1>1, <1>3, <1>5, <1>11, <1>13, <1>14, CalmStep

LEMMA RemoveMemberIsStep ==
  ASSUME NEW o \in Owners, NEW p \in Ports, Inv, RemoveMember(o, p)
  PROVE  Step(o)
<1>1. /\ Begins(o, p) /\ UNCHANGED <<port, live, th, taken>> /\ p \in Queues
      /\ DOMAIN th = Threads /\ LinksOK
  BY DEF RemoveMember, Begins, Queues, Inv, ThreadsOK
<1>2. /\ o \in Threads /\ th[o] = Idle /\ th[o].pc \notin LockPCs \cup WaitPCs
      /\ ThreadStep(o) /\ th'[o].pc \notin WaitPCs \cup {"enqueue"} /\ ListenStep(o)
  BY <1>1, BeginsOK
<1>3. PICK ss \in {{s} : s \in SetsOf(p)} \cup {SetsOf(p)} :
        /\ waitq' = [waitq EXCEPT ![p] = Without(@, ss)]
        /\ links' = LinksWithout(p, ss)
  BY DEF RemoveMember
<1>4. /\ waitq' \in [Queues -> Seq(Threads \cup Sets)]
      /\ \A q \in Queues : ToSet(waitq'[q]) =
           IF q = p THEN ToSet(waitq[p]) \ ss ELSE ToSet(waitq[q])
  <2>1. waitq \in [Queues -> Seq(Threads \cup Sets)]
    BY <1>1 DEF LinksOK
  <2>2. waitq[p] \in Seq(Threads \cup Sets)
    BY <1>1, <2>1
  <2>3. /\ Without(waitq[p], ss) \in Seq(Threads \cup Sets)
        /\ ToSet(Without(waitq[p], ss)) = ToSet(waitq[p]) \ ss
    BY <2>2, WithoutLinks
  <2> QED
    BY <1>1, <1>3, <2>1, <2>3
<1>5. ss \subseteq Sets /\ p \notin Sets /\ Threads \cap Sets = {}
  BY PortMessageAssumption DEF SetsOf, Queues
<1>6. LinksOK'
  <2>1. links' \in [Sets -> Seq(Ports)]
    BY <1>1, <1>3, LinksWithoutOK
  <2> QED
    BY <1>1, <1>4, <1>5, <2>1 DEF LinksOK, Queues
<1>7. \A q \in Queues, u \in Threads : u \in ToSet(waitq'[q]) <=> u \in ToSet(waitq[q])
  BY <1>4, <1>5
<1>8. MoveStep(o)
  BY <1>1, <1>2, <1>7, MovesAlone DEF Waiting
<1>9. Regroups(p)
  BY <1>1, <1>4 DEF Regroups, SetsOf, Queues
<1> QED
  BY <1>1, <1>2, <1>6, <1>8, <1>9, CalmStep

\* ipc_port_clear_receiver.
LEMMA ClearReceiverOK ==
  ASSUME NEW o \in Owners, NEW p \in Ports, NEW then, Inv, ClearReceiver(o, p, then),
         th[o] = Idle, then.pc \notin WaitPCs
  PROVE  /\ LinksOK' /\ MoveStep(o) /\ DOMAIN th' = Threads /\ th'[o] = then
         /\ \A r \in Ports \ {p} : SetsOf(r)' = SetsOf(r)
         /\ SetsOf(p)' = {}
<1> DEFINE gone == {t \in Receivers : th[t] = At("receiving", p, None)}
           q0 == Unlinked(gone)
<1>1. /\ th' = [Woken(gone, {}) EXCEPT ![o] = then]
      /\ waitq' = [q0 EXCEPT ![p] = Without(@, SetsOf(p))]
      /\ links' = LinksWithout(p, SetsOf(p))
  BY DEF ClearReceiver
<1>2. o \in Threads /\ p \in Queues /\ LinksOK
  BY DEF Threads, Queues, Inv
<1>3. /\ gone \subseteq {t \in Receivers : th[t].pc = "receiving"} /\ o \notin gone
      /\ gone \subseteq Threads
  BY DEF At, Idle, Threads
<1> HIDE DEF gone
<1>4. /\ DOMAIN th' = Threads /\ th'[o] = then
      /\ \A u \in Threads \ {o} : th'[u] = Woken(gone, {})[u]
  BY <1>1, <1>2 DEF Woken
<1>5. /\ q0 \in [Queues -> Seq(Threads \cup Sets)]
      /\ \A q \in Queues : ToSet(q0[q]) = ToSet(waitq[q]) \ gone
  <2>1. \A q \in Queues : waitq[q] \in Seq(Threads \cup Sets)
    BY <1>2 DEF LinksOK
  <2>2. \A q \in Queues : /\ Without(waitq[q], gone) \in Seq(Threads \cup Sets)
                          /\ ToSet(Without(waitq[q], gone)) = ToSet(waitq[q]) \ gone
    BY <2>1, WithoutLinks
  <2> QED
    BY <2>2 DEF Unlinked
<1> HIDE DEF q0
<1>6. /\ waitq' \in [Queues -> Seq(Threads \cup Sets)]
      /\ \A q \in Queues : ToSet(waitq'[q]) =
           IF q = p THEN ToSet(waitq[p]) \ (gone \cup SetsOf(p)) ELSE ToSet(waitq[q]) \ gone
  <2>1. q0[p] \in Seq(Threads \cup Sets)
    BY <1>2, <1>5
  <2>2. /\ Without(q0[p], SetsOf(p)) \in Seq(Threads \cup Sets)
        /\ ToSet(Without(q0[p], SetsOf(p))) = ToSet(q0[p]) \ SetsOf(p)
    BY <2>1, WithoutLinks
  <2> QED
    BY <1>1, <1>2, <1>5, <2>2
<1>7. SetsOf(p) \subseteq Sets /\ p \notin Sets /\ Threads \cap Sets = {}
  BY PortMessageAssumption DEF SetsOf, Queues
<1>8. LinksOK'
  <2>1. links' \in [Sets -> Seq(Ports)]
    BY <1>1, <1>2, LinksWithoutOK
  <2> QED
    BY <1>2, <1>6, <1>7, <2>1 DEF LinksOK, Queues
<1>9. \A q \in Queues, u \in Threads :
        u \in ToSet(waitq'[q]) <=> u \in ToSet(waitq[q]) /\ u \notin gone
  BY <1>6, <1>7
<1>10. MoveStep(o)
  <2>1. \A q \in Queues : o \notin ToSet(waitq'[q])
    BY <1>2, <1>9 DEF Inv, WaitersOK, Waiting, Idle, WaitPCs
  <2>2. Moves(o, gone, {})
    BY <1>3, <1>4, <1>9, <2>1 DEF Moves
  <2> QED
    BY <1>3, <2>2 DEF MoveStep
<1>11. \A r \in Ports \ {p} : SetsOf(r)' = SetsOf(r)
  BY <1>3, <1>6, <1>7 DEF SetsOf, Queues
<1>12. SetsOf(p)' = {}
  BY <1>2, <1>6 DEF SetsOf
<1> QED
  BY <1>4, <1>8, <1>10, <1>11, <1>12

LEMMA MoveReceiveRightIsStep ==
  ASSUME NEW o \in Owners, NEW p \in Ports, Inv, MoveReceiveRight(o, p)
  PROVE  Step(o)
<1>1. /\ Begins(o, p) /\ ClearReceiver(o, p, Idle) /\ p \in Queues
      /\ port' = port /\ taken' = taken /\ live' = live /\ th[o] = Idle
  BY DEF MoveReceiveRight, Begins, ClearReceiver, Queues
<1>2. /\ LinksOK' /\ MoveStep(o) /\ DOMAIN th' = Threads /\ th'[o] = Idle
      /\ \A r \in Ports \ {p} : SetsOf(r)' = SetsOf(r)
      /\ SetsOf(p)' = {}
  <2>1. Idle.pc \notin WaitPCs
    BY DEF Idle, WaitPCs
  <2> QED
    BY <1>1, <2>1, ClearReceiverOK
<1>3. /\ o \in Threads /\ th[o].pc \notin LockPCs
      /\ ThreadStep(o) /\ th'[o].pc # "enqueue" /\ ListenStep(o)
  BY <1>1, <1>2, BeginsOK
<1>4. Regroups(p)
  BY <1>1, <1>2 DEF Regroups
<1> QED
  BY <1>1, <1>2, <1>3, <1>4, CalmStep

LEMMA DestroyPortIsStep ==
  ASSUME NEW o \in Owners, NEW p \in Ports, Inv, DestroyPort(o, p)
  PROVE  Step(o)
<1>1. /\ Begins(o, p) /\ ClearReceiver(o, p, At("destroy", p, None)) /\ p \in Queues
      /\ port' = port /\ taken' = taken /\ live' = live \ {p} /\ th[o] = Idle
  BY DEF DestroyPort, Begins, ClearReceiver, Queues
<1>2. /\ LinksOK' /\ MoveStep(o) /\ DOMAIN th' = Threads
      /\ th'[o] = At("destroy", p, None)
      /\ \A r \in Ports \ {p} : SetsOf(r)' = SetsOf(r)
      /\ SetsOf(p)' = {}
  <2>1. At("destroy", p, None).pc \notin WaitPCs
    BY DEF At, WaitPCs
  <2> QED
    BY <1>1, <2>1, ClearReceiverOK
<1>3. /\ o \in Threads /\ th[o].pc \notin LockPCs
      /\ ThreadStep(o) /\ th'[o].pc # "enqueue" /\ ListenStep(o)
  BY <1>1, <1>2, BeginsOK
<1>4. Regroups(p) /\ live' \subseteq live
  BY <1>1, <1>2 DEF Regroups
<1> QED
  BY <1>1, <1>2, <1>3, <1>4, CalmStep

LEMMA DestroyQueueIsStep ==
  ASSUME NEW o \in Owners, Inv, DestroyQueue(o)
  PROVE  Step(o)
<1> DEFINE p == th[o].at
           q == port[p].queue
           drained == q = <<>>
           after == [port[p] EXCEPT !.full = FALSE,
                                    !.queue = IF drained THEN @ ELSE Tail(@)]
<1>1. /\ th[o].pc = "destroy" /\ UNCHANGED <<links, live, made, taken>>
      /\ th' = [Woken({}, Blocked(p)) EXCEPT
                  ![o] = IF drained THEN Idle ELSE At("drain", p, None)]
      /\ waitq' = Unlinked(Blocked(p)) /\ port' = [port EXCEPT ![p] = after]
  BY DEF DestroyQueue
<1>2. /\ o \in Threads /\ p \in Ports /\ p \notin live /\ LinksOK
      /\ port[p] \in PortRecord /\ q \in Seq(Messages)
      /\ taken \in [Ports -> Seq(Messages)]
  <2>1. o \in Threads
    BY DEF Threads
  <2>2. p \in Ports
    BY <1>1, <2>1, OwnerIs DEF OwnerPCs
  <2> QED
    BY <1>1, <2>1, <2>2 DEF Inv, DeadOK, PortsOK, PortRecord
<1>3. /\ Blocked(p) \subseteq {t \in Senders : th[t].pc = "full"}
      /\ o \notin Blocked(p) /\ Blocked(p) \in SUBSET Threads
  <2>1. Blocked(p) = Waiters(p)
    BY <1>2, FirstBlockedOK
  <2> QED
    BY <1>1, <2>1 DEF Waiters, Threads
<1>4. /\ DOMAIN th' = Threads
      /\ th'[o] = IF drained THEN Idle ELSE At("drain", p, None)
      /\ \A u \in Threads \ {o} : th'[u] = Woken({}, Blocked(p))[u]
  BY <1>1, <1>2 DEF Woken
<1>5. /\ waitq' \in [Queues -> Seq(Threads \cup Sets)]
      /\ \A r \in Queues : ToSet(waitq'[r]) = ToSet(waitq[r]) \ Blocked(p)
      /\ \A s \in Sets : ToSet(waitq'[s]) \cap Sets = {}
      /\ \A r \in Ports : SetsOf(r)' = SetsOf(r)
  BY <1>1, <1>2, <1>3, UnlinkedOK
<1>6. /\ port' \in [Ports -> PortRecord]
      /\ \A r \in Ports \ {p} : port'[r] = port[r]
      /\ port'[p].queue = (IF drained THEN q ELSE Tail(q))
      /\ port'[p].lock = port[p].lock
  <2>1. /\ after \in PortRecord /\ after.queue = (IF drained THEN q ELSE Tail(q))
        /\ after.lock = port[p].lock
    <3>1. (IF drained THEN q ELSE Tail(q)) \in Seq(Messages)
      BY <1>2
    <3> QED
      BY <1>2, <3>1 DEF PortRecord
  <2> HIDE DEF after, q, drained, p
  <2> QED
    BY <1>1, <1>2, <2>1, EditedPort
<1>7. PortsOK' /\ LinksOK'
  BY <1>1, <1>2, <1>5, <1>6 DEF Inv, PortsOK, LinksOK
<1>8. ThreadStep(o) /\ th'[o].pc \in {"idle", "drain"}
  <2>1. CASE th'[o] = Idle
    BY <1>1, <1>2, <1>4, <2>1, IsDone DEF Idle
  <2>2. CASE th'[o] = At("drain", p, None)
    BY <1>1, <1>2, <1>4, <2>2 DEF ThreadStep, ThreadOK, At, OwnerPCs, SenderPCs
  <2> QED
    BY <1>4, <2>1, <2>2
<1>9. MoveStep(o)
  <2> DEFINE gone == {}  go == Blocked(p)
  <2>1. /\ gone \ {o} \subseteq {t \in Receivers : th[t].pc = "receiving"}
        /\ \A u \in Threads \ {o} : th'[u] = Woken(gone, go)[u]
        /\ \A r \in Queues : ToSet(waitq'[r]) = ToSet(waitq[r]) \ (gone \cup go)
        /\ go \subseteq {t \in Senders : th[t].pc = "full"} /\ o \notin go
    BY <1>3, <1>4, <1>5
  <2>2. th[o].pc \notin WaitPCs /\ th'[o].pc \notin WaitPCs
    BY <1>1, <1>8 DEF WaitPCs
  <2> HIDE DEF gone, go
  <2> QED
    BY <1>2, <2>1, <2>2, MovesOn
<1>10. LockStep(o)
  <2>1. \A r \in Ports : port[r].lock # o
    BY <1>1, <1>2 DEF Inv, LockOK, LockPCs
  <2> QED
    BY <1>6, <1>8, <2>1 DEF LockStep
<1>11. ContentStep(o)
  <2>1. CASE drained
    BY <1>1, <1>5, <1>6, <2>1 DEF ContentStep
  <2>2. CASE ~drained
    <3>1. taken' = [taken EXCEPT ![p] = taken[p]]
      BY <1>1, <1>2
    <3>2. Drops(p)
      BY <1>1, <1>2, <1>5, <1>6, <2>2, <3>1 DEF Drops, Exchange
    <3> QED
      BY <1>1, <1>2, <3>2 DEF ContentStep
  <2> QED
    BY <2>1, <2>2
<1>12. ListenStep(o)
  BY <1>8 DEF ListenStep, Listens
<1> QED
  BY <1>7, <1>8, <1>9, <1>10, <1>11, <1>12 DEF Step

LEMMA DrainQueueIsStep ==
  ASSUME NEW o \in Owners, Inv, DrainQueue(o)
  PROVE  Step(o)
<1> DEFINE p == th[o].at
           q == port[p].queue
           after == [port[p] EXCEPT !.queue = Tail(@)]
<1>1. /\ th[o].pc = "drain" /\ UNCHANGED <<waitq, links, live, made, taken>>
      /\ o \in Threads /\ DOMAIN th = Threads
  BY DEF DrainQueue, Threads, Inv, ThreadsOK
<1>2. CASE q = <<>> /\ th' = [th EXCEPT ![o] = Idle] /\ UNCHANGED port
  <2>1. th'[o] = Idle /\ (\A u \in Threads \ {o} : th'[u] = th[u]) /\ DOMAIN th' = Threads
    BY <1>1, <1>2
  <2>2. ThreadStep(o)
    BY <1>1, <2>1, IsDone
  <2> QED
    BY <1>1, <1>2, <2>1, <2>2, QuietStep DEF Idle, WaitPCs, LockPCs
<1>3. CASE q # <<>> /\ port' = [port EXCEPT ![p].queue = Tail(@)] /\ UNCHANGED th
  <2>1. /\ p \in Ports /\ p \notin live /\ port[p] \in PortRecord /\ q \in Seq(Messages)
        /\ taken \in [Ports -> Seq(Messages)] /\ ThreadOK(o)
    <3>1. p \in Ports
      BY <1>1, OwnerIs DEF OwnerPCs
    <3> QED
      BY <1>1, <3>1 DEF Inv, DeadOK, PortsOK, PortRecord, ThreadsOK
  <2>2. /\ port' \in [Ports -> PortRecord]
        /\ \A r \in Ports \ {p} : port'[r] = port[r]
        /\ port'[p].queue = Tail(q) /\ port'[p].lock = port[p].lock
    <3>1. after \in PortRecord /\ after.queue = Tail(q) /\ after.lock = port[p].lock
      <4>1. Tail(q) \in Seq(Messages)
        BY <1>3, <2>1
      <4> QED
        BY <2>1, <4>1 DEF PortRecord
    <3>2. port' = [port EXCEPT ![p] = after]
      BY <1>3
    <3> HIDE DEF after, q, p
    <3> QED
      BY <2>1, <3>1, <3>2, EditedPort
  <2>3. PortsOK' /\ LinksOK'
    BY <1>1, <2>2 DEF Inv, PortsOK, LinksOK
  <2>4. ThreadStep(o)
    BY <1>1, <1>3, <2>1 DEF ThreadStep, ThreadOK, Latest
  <2>5. MoveStep(o)
    BY <1>1, <1>3, MovesAlone DEF Waiting, WaitPCs
  <2>6. LockStep(o)
    BY <1>1, <1>3, <2>2 DEF LockStep, Inv, LockOK, LockPCs
  <2>7. ContentStep(o)
    <3>1. taken' = [taken EXCEPT ![p] = taken[p]]
      BY <1>1, <2>1
    <3>2. Drops(p)
      BY <1>1, <1>3, <2>1, <2>2, <3>1 DEF Drops, Exchange, SetsOf
    <3> QED
      BY <1>1, <2>1, <3>2 DEF ContentStep
  <2>8. ListenStep(o)
    BY <1>1, <1>3 DEF ListenStep, Listens
  <2> QED
    BY <2>3, <2>4, <2>5, <2>6, <2>7, <2>8 DEF Step
<1> QED
  BY <1>2, <1>3 DEF DrainQueue

LEMMA DestroySetIsStep ==
  ASSUME NEW o \in Owners, NEW s \in Sets, Inv, DestroySet(o, s)
  PROVE  Step(o)
<1> DEFINE gone == {t \in Receivers : th[t] = At("receiving", s, None)}
<1>1. /\ Begins(o, s) /\ Wakes(gone, {}) /\ live' = live \ {s}
      /\ UNCHANGED <<port, links, taken>> /\ s \in Queues /\ th[o] = Idle
      /\ LinksOK /\ o \in Threads
  BY DEF DestroySet, Begins, Queues, Threads, Inv
<1>2. /\ gone \subseteq {t \in Receivers : th[t].pc = "receiving"} /\ o \notin gone
      /\ gone \in SUBSET Threads
  BY <1>1 DEF At, Idle, Threads
<1> HIDE DEF gone
<1>3. /\ DOMAIN th' = Threads /\ th'[o] = Idle
      /\ \A u \in Threads \ {o} : th'[u] = Woken(gone, {})[u]
  BY <1>1, <1>2 DEF Wakes, Woken
<1>4. /\ waitq' \in [Queues -> Seq(Threads \cup Sets)]
      /\ \A q \in Queues : ToSet(waitq'[q]) = ToSet(waitq[q]) \ gone
      /\ \A r \in Sets : ToSet(waitq'[r]) \cap Sets = {}
      /\ \A p \in Ports : SetsOf(p)' = SetsOf(p)
  <2>1. waitq' = Unlinked(gone)
    BY <1>1 DEF Wakes
  <2> QED
    BY <1>1, <1>2, <2>1, UnlinkedOK
<1>5. /\ th[o].pc \notin LockPCs \cup WaitPCs
      /\ ThreadStep(o) /\ th'[o].pc \notin WaitPCs \cup {"enqueue"} /\ ListenStep(o)
  BY <1>1, <1>3, BeginsOK
<1>6. LinksOK'
  BY <1>1, <1>4 DEF LinksOK
<1>7. MoveStep(o)
  <2>1. gone \ {o} \subseteq {t \in Receivers : th[t].pc = "receiving"}
    BY <1>2
  <2> QED
    BY <1>1, <1>3, <1>4, <1>5, <2>1, MovesWaking
<1>8. /\ live' \subseteq live
      /\ \A r \in Ports : SetsOf(r)' = SetsOf(r) /\ (r \in live' <=> r \in live)
  BY <1>1, <1>4, PortMessageAssumption
<1> QED
  BY <1>1, <1>5, <1>6, <1>7, <1>8, CalmStep

LEMMA SetQlimitIsStep ==
  ASSUME NEW o \in Owners, NEW p \in Ports, Inv, SetQlimit(o, p)
  PROVE  Step(o)
<1>1. /\ Begins(o, p) /\ UNCHANGED <<links, live, taken>> /\ p \in Queues
      /\ th[o] = Idle /\ o \in Threads /\ LinksOK /\ port[p] \in PortRecord
  BY DEF SetQlimit, Begins, Queues, Threads, Inv, PortsOK
<1>2. PICK n, grows, full :
        /\ n \in Limits
        /\ port' = [port EXCEPT ![p] = [port[p] EXCEPT !.limit = n, !.full = @ /\ full]]
        /\ Wakes({}, FirstBlocked(p, grows))
  BY DEF SetQlimit
<1> DEFINE after == [port[p] EXCEPT !.limit = n, !.full = @ /\ full]
           go == FirstBlocked(p, grows)
           gone == {}
<1>3. /\ port' \in [Ports -> PortRecord]
      /\ \A r \in Ports : port'[r].queue = port[r].queue /\ port'[r].lock = port[r].lock
  <2>1. /\ after \in PortRecord
        /\ after.queue = port[p].queue /\ after.lock = port[p].lock
    <3>1. n \in 1 .. Wrap - 1 /\ (port[p].full /\ full) \in BOOLEAN
      BY <1>2, PortMessageAssumption
    <3> QED
      BY <1>1, <3>1 DEF PortRecord
  <2> HIDE DEF after
  <2>2. port' = [port EXCEPT ![p] = after]
    BY <1>2 DEF after
  <2>3. /\ port' \in [Ports -> PortRecord]
        /\ port'[p] = after /\ \A r \in Ports \ {p} : port'[r] = port[r]
    BY <2>1, <2>2, EditedPort
  <2> QED
    BY <2>1, <2>3
<1>4. /\ go \subseteq {t \in Senders : th[t].pc = "full"} /\ o \notin go
      /\ go \in SUBSET Threads
  <2>1. go \subseteq Waiters(p)
    BY FirstBlockedOK
  <2> QED
    BY <1>1, <2>1 DEF Waiters, Threads, Idle
<1>5. th' = Woken(gone, go) /\ waitq' = Unlinked(gone \cup go)
  BY <1>2 DEF Wakes
<1> HIDE DEF go, after
<1>6. /\ DOMAIN th' = Threads /\ th'[o] = Idle
      /\ \A u \in Threads \ {o} : th'[u] = Woken(gone, go)[u]
  BY <1>1, <1>4, <1>5 DEF Woken
<1>7. /\ waitq' \in [Queues -> Seq(Threads \cup Sets)]
      /\ \A q \in Queues : ToSet(waitq'[q]) = ToSet(waitq[q]) \ (gone \cup go)
      /\ \A r \in Sets : ToSet(waitq'[r]) \cap Sets = {}
      /\ \A r \in Ports : SetsOf(r)' = SetsOf(r)
  <2>1. gone \cup go \in SUBSET Threads
    BY <1>4
  <2> HIDE DEF gone
  <2> QED
    BY <1>1, <1>5, <2>1, UnlinkedOK
<1>8. /\ th[o].pc \notin LockPCs \cup WaitPCs
      /\ ThreadStep(o) /\ th'[o].pc \notin WaitPCs \cup {"enqueue"} /\ ListenStep(o)
  BY <1>1, <1>6, BeginsOK
<1>9. PortsOK' /\ LinksOK'
  BY <1>1, <1>3, <1>7 DEF Inv, PortsOK, LinksOK
<1>10. MoveStep(o)
  <2>1. gone \ {o} \subseteq {t \in Receivers : th[t].pc = "receiving"}
    OBVIOUS
  <2> HIDE DEF gone
  <2> QED
    BY <1>1, <1>4, <1>6, <1>7, <1>8, <2>1, MovesOn
<1>11. LockStep(o)
  <2>1. \A r \in Ports : port[r].lock # o
    BY <1>1, <1>8 DEF Inv, LockOK
  <2> QED
    BY <1>3, <1>8, <2>1 DEF LockStep
<1>12. ContentStep(o)
  BY <1>1, <1>3, <1>7 DEF ContentStep
<1> QED
  BY <1>8, <1>9, <1>10, <1>11, <1>12 DEF Step

LEMMA SenderSteps ==
  ASSUME NEW t \in Senders, Inv, Sending(t)
  PROVE  Step(t)
<1>1. ASSUME NEW p \in Ports, Send(t, p) PROVE Step(t)
  BY <1>1, SendIsStep
<1>2. t \in Threads
  BY DEF Threads
<1> QED
  BY <1>1, <1>2, SendReserveIsStep, SendFullIsStep, TurnAwayIsStep, PostIsStep,
     EnqueueIsStep DEF Sending

LEMMA ReceiverSteps ==
  ASSUME NEW t \in Receivers, Inv, Receiving(t)
  PROVE  Step(t)
<1>1. ASSUME NEW q \in Serves[t], Copyin(t, q) PROVE Step(t)
  <2>1. q \in Queues
    BY PortMessageAssumption
  <2> QED
    BY <1>1, <2>1, CopyinIsStep
<1> QED
  BY <1>1, ReceivePortIsStep, ReceiveSetIsStep DEF Receiving

LEMMA OwnerSteps ==
  ASSUME NEW o \in Owners, Inv, Owning(o)
  PROVE  Step(o)
<1>1. ASSUME NEW p \in Ports, \E s \in Sets : AddMember(o, p, s) PROVE Step(o)
  BY <1>1, AddMemberIsStep
<1>2. ASSUME NEW p \in Ports, \/ RemoveMember(o, p) \/ MoveReceiveRight(o, p)
                              \/ DestroyPort(o, p) \/ SetQlimit(o, p)
      PROVE  Step(o)
  BY <1>2, RemoveMemberIsStep, MoveReceiveRightIsStep, DestroyPortIsStep, SetQlimitIsStep
<1>3. ASSUME NEW s \in Sets, DestroySet(o, s) PROVE Step(o)
  BY <1>3, DestroySetIsStep
<1>4. o \in Threads
  BY DEF Threads
<1> QED
  BY <1>1, <1>2, <1>3, <1>4, TurnAwayIsStep, MatchIsStep, DestroyQueueIsStep,
     DrainQueueIsStep DEF Owning

LEMMA NextIsStep ==
  ASSUME Inv, Next
  PROVE  \E x \in Threads : Step(x)
<1>1. ASSUME NEW t \in Senders, Sending(t) PROVE Step(t) /\ t \in Threads
  BY <1>1, SenderSteps DEF Threads
<1>2. ASSUME NEW t \in Receivers, Receiving(t) PROVE Step(t) /\ t \in Threads
  BY <1>2, ReceiverSteps DEF Threads
<1>3. ASSUME NEW o \in Owners, Owning(o) PROVE Step(o) /\ o \in Threads
  BY <1>3, OwnerSteps DEF Threads
<1>4. ASSUME NEW t \in Threads, WaitEndsEarly(t) PROVE Step(t)
  BY <1>4, WaitEndsEarlyIsStep
<1> QED
  BY <1>1, <1>2, <1>3, <1>4 DEF Next

LEMMA InitInv == Init => Inv
<1> SUFFICES ASSUME Init PROVE Inv
  OBVIOUS
<1>1. \A p \in Ports : /\ port[p].queue = <<>> /\ port[p].lock = None
                       /\ taken[p] = <<>>
  BY DEF Init
<1>2. \A q \in Queues : waitq[q] = <<>>
  BY DEF Init
<1>3. \A t \in Threads : th[t] = Idle
  BY DEF Init
<1>4. Idle.pc = "idle" /\ ToSet(<<>>) = {} /\ IsInjective(<<>>)
  BY DEF Idle, ToSet, IsInjective
<1>5. ThreadsOK
  BY <1>3 DEF Init, ThreadsOK, ThreadOK
<1>6. PortsOK
  <2>1. [queue |-> <<>>, count |-> 0, full |-> FALSE,
         limit |-> DefaultLimit, lock |-> None] \in PortRecord
    BY PortMessageAssumption DEF PortRecord
  <2> QED
    BY <2>1 DEF Init, PortsOK
<1>7. LinksOK
  BY <1>2, <1>4 DEF Init, LinksOK, Queues
<1>8. WaitersOK /\ DeadOK
  BY <1>2, <1>3, <1>4 DEF WaitersOK, DeadOK, Waiting, WaitPCs
<1>9. LockOK
  BY <1>1, <1>3, <1>4, PortMessageAssumption DEF LockOK
<1>10. FreshOK
  BY <1>1, <1>4 DEF FreshOK
<1>11. ListenOK
  BY <1>3, <1>4 DEF ListenOK, Listens
<1> QED
  BY <1>5, <1>6, <1>7, <1>8, <1>9, <1>10, <1>11 DEF Inv

LEMMA StutterInv ==
  ASSUME Inv, UNCHANGED vars
  PROVE  Inv'
BY DEF Inv, vars, ThreadsOK, ThreadOK, Latest, PortsOK, LinksOK, WaitersOK, Waiting,
       LockOK, FreshOK, Made, DeadOK, ListenOK, Listens

LEMMA NextInv ==
  ASSUME Inv, [Next]_vars
  PROVE  Inv'
<1>1. CASE Next
  <2>1. PICK x \in Threads : Step(x)
    BY <1>1, NextIsStep
  <2> QED
    BY <2>1, StepInv
<1>2. CASE UNCHANGED vars
  BY <1>2, StutterInv
<1> QED
  BY <1>1, <1>2

\* The invariant: who waits is on the queue it says, who holds a queue's lock is
\* in the loop that holds it, no message is made twice, and no thread waits on a
\* port for a message that is there (ipc_mqueue.c), whatever the constants.
THEOREM InvCorrect == Spec => []Inv
<1> QED
  BY InitInv, NextInv, PTL DEF Spec

------------------------------------------------------------------------------
(***************************************************************************)
(* The queues implement PortQueue                                          *)
(***************************************************************************)
\* What PortQueue sees of a state.
AllQueues == [p \in Ports |-> port[p].queue]
Shared == {p \in Ports : SetsOf(p) # {}}

\* The last message of a thread that is sending it is new.
LEMMA LatestIsNew ==
  ASSUME NEW x \in Threads, Inv, th[x].pc \in SenderPCs
  PROVE  Latest(x) \in Messages /\ Abstract!New(Latest(x))
<1> DEFINE m == Latest(x)
<1>1. m \in Messages /\ m.from = x /\ m.no = made[x] /\ made[x] \in Nat
  BY SenderIs DEF Latest, Inv, ThreadsOK
<1>2. ~Made(m)
  BY <1>1 DEF Made
<1>3. ASSUME NEW r \in Ports
      PROVE  m \notin ToSet(AllQueues[r]) \cup ToSet(taken[r])
  <2>1. AllQueues[r] = port[r].queue
    BY DEF AllQueues
  <2> HIDE DEF m
  <2> QED
    BY <1>2, <2>1 DEF Inv, FreshOK
<1> QED
  BY <1>1, <1>3 DEF Abstract!New, Abstract!ToSet, ToSet, AllQueues

LEMMA ExchangeOK ==
  ASSUME NEW p \in Ports, NEW q, NEW k, Exchange(p, q, k)
  PROVE  /\ AllQueues' = [AllQueues EXCEPT ![p] = q]
         /\ taken' = [taken EXCEPT ![p] = k]
         /\ (live \cap Ports)' = live \cap Ports /\ Shared' = Shared
BY DEF Exchange, AllQueues, Shared

LEMMA RegroupsOK ==
  ASSUME NEW p \in Ports, Regroups(p), AllQueues' = AllQueues, taken' = taken
  PROVE  Abstract!Next \/ UNCHANGED Abstract!vars
<1> DEFINE alive == live \cap Ports
<1>1. \A r \in Ports \ {p} : r \in Shared' <=> r \in Shared
  BY DEF Regroups, Shared
<1>2. p \in Shared <=> SetsOf(p) # {}
  BY DEF Shared
<1>3. p \in Shared' <=> SetsOf(p)' # {}
  BY DEF Shared
<1>4. Shared \subseteq Ports /\ Shared' \subseteq Ports
  BY DEF Shared
<1>5. CASE alive' = alive /\ (p \in Shared' <=> p \in Shared)
  <2>1. Shared' = Shared
    BY <1>1, <1>4, <1>5
  <2> QED
    BY <1>5, <2>1 DEF Abstract!vars, Shared, AllQueues
<1>6. CASE alive' = alive /\ p \in live /\ p \in Shared'
  <2>1. Shared' = Shared \cup {p}
    BY <1>1, <1>4, <1>6
  <2>2. Abstract!Join(p)
    BY <1>6, <2>1 DEF Abstract!Join, Shared, AllQueues
  <2> QED
    BY <2>2 DEF Abstract!Next
<1>7. CASE alive' \in {alive, alive \ {p}} /\ p \notin Shared'
  <2>1. Shared' = Shared \ {p}
    BY <1>1, <1>4, <1>7
  <2>2. Abstract!Leave(p)
    BY <1>7, <2>1 DEF Abstract!Leave, Shared, AllQueues
  <2> QED
    BY <2>2 DEF Abstract!Next
<1>8. \/ alive' = alive /\ (p \in Shared' <=> p \in Shared)
      \/ alive' = alive /\ p \in live /\ p \in Shared'
      \/ alive' \in {alive, alive \ {p}} /\ p \notin Shared'
  <2>1. CASE alive' = alive /\ SetsOf(p)' = SetsOf(p)
    BY <1>2, <1>3, <2>1
  <2>2. CASE alive' = alive /\ p \in live /\ SetsOf(p)' # {}
    BY <1>3, <2>2
  <2>3. CASE alive' = alive /\ SetsOf(p)' \subseteq SetsOf(p)
    BY <1>2, <1>3, <2>3
  <2>4. CASE alive' = alive \ {p} /\ SetsOf(p)' = {}
    BY <1>3, <2>4
  <2> QED
    BY <2>1, <2>2, <2>3, <2>4 DEF Regroups
<1> QED
  BY <1>5, <1>6, <1>7, <1>8

LEMMA StepRefines ==
  ASSUME NEW x \in Threads, Inv, Step(x)
  PROVE  Abstract!Next \/ UNCHANGED Abstract!vars
<1>1. ContentStep(x)
  BY DEF Step
<1>2. ASSUME NEW p \in Ports, Enqueues(x, p)
      PROVE  Abstract!Next
  <2>0. Latest(x) \in Messages /\ Abstract!New(Latest(x))
    BY <1>2, LatestIsNew DEF Enqueues, SenderPCs
  <2>1. PICK m \in Messages : m = Latest(x)
    BY <2>0
  <2>2. Exchange(p, Append(port[p].queue, m), taken[p]) /\ Abstract!New(m)
    BY <1>2, <2>0, <2>1 DEF Enqueues, Abstract!New
  <2>3. /\ AllQueues' = [AllQueues EXCEPT ![p] = Append(port[p].queue, m)]
        /\ taken' = [taken EXCEPT ![p] = taken[p]]
        /\ (live \cap Ports)' = live \cap Ports /\ Shared' = Shared
    BY <2>2, ExchangeOK
  <2>4. /\ AllQueues' = [AllQueues EXCEPT ![p] = Append(@, m)]
        /\ taken' = taken
    BY <2>3 DEF AllQueues, Inv, PortsOK
  <2>5. Abstract!Send(p, m)
    BY <2>2, <2>3, <2>4 DEF Abstract!Send, AllQueues, Shared
  <2> QED
    BY <2>5 DEF Abstract!Next
<1>3. ASSUME NEW p \in Ports, Passes(x, p)
      PROVE  Abstract!Next
  <2>0. Latest(x) \in Messages /\ Abstract!New(Latest(x))
    BY <1>3, LatestIsNew DEF Passes, SenderPCs
  <2>1. PICK m \in Messages : m = Latest(x)
    BY <2>0
  <2>2. /\ port[p].queue = <<>> \/ SetsOf(p) # {}
        /\ Exchange(p, port[p].queue, Append(taken[p], m)) /\ Abstract!New(m)
    BY <1>3, <2>0, <2>1 DEF Passes, Abstract!New
  <2>3. /\ AllQueues' = [AllQueues EXCEPT ![p] = port[p].queue]
        /\ taken' = [taken EXCEPT ![p] = Append(@, m)]
        /\ (live \cap Ports)' = live \cap Ports /\ Shared' = Shared
    BY <2>2, ExchangeOK
  <2>4. AllQueues' = AllQueues
    BY <2>3 DEF AllQueues
  <2>5. Abstract!Pass(p, m)
    BY <2>2, <2>3, <2>4 DEF Abstract!Pass, AllQueues, Shared
  <2> QED
    BY <2>5 DEF Abstract!Next
<1>4. ASSUME NEW p \in Ports, Takes(p)
      PROVE  Abstract!Next
  <2>1. /\ port[p].queue # <<>>
        /\ AllQueues' = [AllQueues EXCEPT ![p] = Tail(port[p].queue)]
        /\ taken' = [taken EXCEPT ![p] = Append(taken[p], Head(port[p].queue))]
        /\ (live \cap Ports)' = live \cap Ports /\ Shared' = Shared
    BY <1>4, ExchangeOK DEF Takes
  <2>2. AllQueues[p] = port[p].queue
    BY DEF AllQueues
  <2>3. Abstract!Take(p)
    BY <2>1, <2>2 DEF Abstract!Take, AllQueues, Shared
  <2> QED
    BY <2>3 DEF Abstract!Next
<1>5. ASSUME NEW p \in Ports, Drops(p)
      PROVE  Abstract!Next
  <2>1. /\ port[p].queue # <<>> /\ p \notin live
        /\ AllQueues' = [AllQueues EXCEPT ![p] = Tail(port[p].queue)]
        /\ taken' = [taken EXCEPT ![p] = taken[p]]
        /\ (live \cap Ports)' = live \cap Ports /\ Shared' = Shared
    BY <1>5, ExchangeOK DEF Drops
  <2>2. AllQueues[p] = port[p].queue /\ taken' = taken
    BY <2>1 DEF AllQueues, Inv, PortsOK
  <2>3. Abstract!Drop(p)
    BY <2>1, <2>2 DEF Abstract!Drop, AllQueues, Shared
  <2> QED
    BY <2>3 DEF Abstract!Next
<1>6. CASE /\ \A r \in Ports : port'[r].queue = port[r].queue
           /\ taken' = taken
           /\ \A r \in Ports : SetsOf(r)' = SetsOf(r) /\ (r \in live' <=> r \in live)
  <2>1. AllQueues' = AllQueues /\ Shared' = Shared /\ (live \cap Ports)' = live \cap Ports
    BY <1>6 DEF AllQueues, Shared
  <2> QED
    BY <1>6, <2>1 DEF Abstract!vars, AllQueues, Shared
<1>7. CASE /\ \A r \in Ports : port'[r].queue = port[r].queue
           /\ taken' = taken
           /\ \E p \in Ports : Regroups(p)
  <2>1. AllQueues' = AllQueues
    BY <1>7 DEF AllQueues
  <2> QED
    BY <1>7, <2>1, RegroupsOK
<1> QED
  BY <1>1, <1>2, <1>3, <1>4, <1>5, <1>6, <1>7 DEF ContentStep

LEMMA InitRefines ==
  ASSUME Init
  PROVE  Abstract!Init
<1>1. /\ \A p \in Ports : port[p].queue = <<>> /\ SetsOf(p) = {}
      /\ taken = [p \in Ports |-> <<>>] /\ live = Queues
  BY DEF Init, SetsOf, ToSet, Queues
<1> QED
  BY <1>1 DEF Abstract!Init, Queues

\* A port is a queue: every accepted message is received once, in order as long
\* as the port is in no set, or dropped with its port; for any threads, ports
\* and sets, and whatever the limits (osfmk/ipc/ipc_mqueue.c).
THEOREM PortQueueRefinement == Spec => ImplementsPortQueue
<1>1. Init => Abstract!Init
  BY InitRefines
<1>2. Inv /\ [Next]_vars => [Abstract!Next]_(Abstract!vars)
  <2> SUFFICES ASSUME Inv, [Next]_vars PROVE Abstract!Next \/ UNCHANGED Abstract!vars
    OBVIOUS
  <2>1. CASE Next
    <3>1. PICK x \in Threads : Step(x)
      BY <2>1, NextIsStep
    <3> QED
      BY <3>1, StepRefines
  <2>2. CASE UNCHANGED vars
    BY <2>2 DEF vars, Abstract!vars, SetsOf
  <2> QED
    BY <2>1, <2>2
<1> QED
  BY <1>1, <1>2, InvCorrect, PTL DEF Spec, ImplementsPortQueue, Abstract!Spec

------------------------------------------------------------------------------
(***************************************************************************)
(* Slots and blocked senders                                               *)
(***************************************************************************)
\* A limit grows only while nobody waits for a slot: the senders that
\* ipc_mqueue_set_qlimit wakes go on as if they had inherited one.
LimitsGrowIdle ==
  \A p \in Ports : port'[p].limit > port[p].limit => Blocked(p) = {}

\* While senders wait, the queue is marked as full, and it is.
FullOK ==
  \A p \in Ports \cap live :
    Waiters(p) # {} => port[p].full /\ port[p].count >= port[p].limit

SlotsInv == Inv /\ SlotsAccounted /\ FullOK

\* What a step does to the slots of port p: nothing but to the waiters, ...
Marked(p) ==
  /\ port'[p].full = port[p].full /\ port'[p].limit <= port[p].limit
  /\ Waiters(p)' \subseteq Waiters(p)

Keeps(p) ==
  /\ port'[p].count = port[p].count
  /\ Len(port'[p].queue) = Len(port[p].queue)
  /\ Reserved(p)' = Reserved(p)
  /\ \/ Marked(p)
     \/ Waiters(p)' = {}
     \/ port'[p].full /\ port'[p].count >= port'[p].limit

\* ... it takes one, uses one, ...
Reserves(p) ==
  /\ port'[p].count = (port[p].count + 1) % Wrap
  /\ Len(port'[p].queue) = Len(port[p].queue)
  /\ \E t \in Senders \ Reserved(p) : Reserved(p)' = Reserved(p) \cup {t}
  /\ Marked(p)

Fills(p) ==
  /\ port'[p].count = port[p].count
  /\ Len(port'[p].queue) = Len(port[p].queue) + 1
  /\ \E t \in Reserved(p) : Reserved(p)' = Reserved(p) \ {t}
  /\ Marked(p)

\* ... or gives one back, or to an heir.
Frees(p) ==
  \E R :
    /\ \/ /\ Len(port'[p].queue) = Len(port[p].queue) - 1
          /\ port[p].queue # <<>> /\ R = Reserved(p)
       \/ /\ Len(port'[p].queue) = Len(port[p].queue)
          /\ \E t \in Reserved(p) : R = Reserved(p) \ {t}
    /\ port'[p].limit = port[p].limit /\ Waiters(p)' \subseteq Waiters(p)
    /\ \/ /\ port'[p].count = (port[p].count + Wrap - 1) % Wrap
          /\ Reserved(p)' = R
          /\ \/ Waiters(p) = {}
             \/ /\ port'[p].full = port[p].full
                /\ port[p].full => port'[p].count >= port[p].limit
       \/ /\ port'[p].count = port[p].count /\ port'[p].full = port[p].full
          /\ \E h \in Senders \ Reserved(p) : Reserved(p)' = R \cup {h}

SlotStep(p) == Keeps(p) \/ Reserves(p) \/ Fills(p) \/ Frees(p)

LEMMA Modulo ==
  ASSUME NEW a \in Nat, NEW w \in Nat, a < w
  PROVE  a % w = a /\ (a + w) % w = a
OBVIOUS

\* The messages that a port has or has a slot for are different messages.
Bounded ==
  \A p \in Ports : /\ IsFiniteSet(Reserved(p)) /\ Len(port[p].queue) \in Nat
                   /\ Len(port[p].queue) + Cardinality(Reserved(p)) < Wrap

LEMMA InvBounded == Inv => Bounded
<1> SUFFICES ASSUME Inv, NEW p \in Ports
             PROVE  /\ IsFiniteSet(Reserved(p)) /\ Len(port[p].queue) \in Nat
                    /\ Len(port[p].queue) + Cardinality(Reserved(p)) < Wrap
  BY DEF Bounded
<1> DEFINE q == port[p].queue
           A == ToSet(q)
           R == Reserved(p)
           B == {Latest(t) : t \in R}
<1>1. /\ q \in Seq(Messages) /\ IsInjective(q)
      /\ \A m \in A : Made(m)
  BY DEF Inv, PortsOK, PortRecord, FreshOK
<1>2. /\ IsFiniteSet(Messages) /\ Cardinality(Messages) < Wrap /\ Wrap \in Nat
      /\ Cardinality(Messages) \in Nat
  BY PortMessageAssumption, FS_CardinalityType
<1>3. A \subseteq Messages
  BY <1>1 DEF ToSet
<1>4. \A t \in R : /\ t \in Threads /\ th[t].pc \in SenderPCs /\ Latest(t) \in Messages
                   /\ Latest(t).from = t /\ Latest(t).no = made[t] /\ made[t] \in Nat
  <2>1. \A t \in R : t \in Threads /\ th[t].pc \in SenderPCs
    BY DEF Reserved, Threads, SenderPCs
  <2> HIDE DEF R
  <2> QED
    BY <2>1, SenderIs DEF Latest, Inv, ThreadsOK
<1>5. A \cap B = {} /\ B \subseteq Messages
  <2>1. \A t \in R : ~Made(Latest(t))
    BY <1>4 DEF Made
  <2> HIDE DEF R, A
  <2> QED
    BY <1>1, <1>4, <2>1
<1>6. Len(q) \in Nat /\ IsFiniteSet(A) /\ Cardinality(A) = Len(q)
  <2> DEFINE D == 1 .. Len(q)
  <2>1. Len(q) \in Nat /\ DOMAIN q = D /\ q \in [D -> Messages]
    BY <1>1
  <2>2. IsFiniteSet(D) /\ Cardinality(D) = Len(q)
    BY <2>1, FS_Interval
  <2>3. q \in Bijection(D, A)
    <3>1. \A i \in D : q[i] \in A
      BY <2>1 DEF ToSet
    <3>2. \A m \in A : \E i \in D : q[i] = m
      BY <2>1 DEF ToSet
    <3>3. \A i, j \in D : q[i] = q[j] => i = j
      BY <1>1, <2>1 DEF IsInjective
    <3> HIDE DEF A, D
    <3>4. q \in [D -> A]
      BY <2>1, <3>1
    <3> QED
      BY <3>2, <3>3, <3>4 DEF Bijection, Injection, Surjection, IsInjective
  <2> HIDE DEF A, D
  <2>4. ExistsBijection(D, A)
    BY <2>3 DEF ExistsBijection
  <2>5. IsFiniteSet(A) /\ Cardinality(A) = Cardinality(D)
    BY <2>2, <2>4, FS_Bijection
  <2> QED
    BY <2>1, <2>2, <2>5
<1>7. IsFiniteSet(B) /\ IsFiniteSet(R) /\ Cardinality(R) = Cardinality(B)
  <2>1. IsFiniteSet(B)
    <3> HIDE DEF B
    <3> QED
      BY <1>2, <1>5, FS_Subset
  <2> DEFINE f == [m \in B |-> m.from]
  <2>2. f \in Bijection(B, R)
    <3> HIDE DEF R
    <3>1. /\ \A m \in B : m.from \in R /\ m = Latest(m.from)
          /\ \A t \in R : Latest(t) \in B /\ Latest(t).from = t
      BY <1>4
    <3> HIDE DEF B
    <3>2. f \in [B -> R]
      BY <3>1
    <3>3. \A m, o \in B : f[m] = f[o] => m = o
      BY <3>1
    <3>4. \A t \in R : f[Latest(t)] = t /\ Latest(t) \in B
      BY <3>1
    <3> HIDE DEF f
    <3> QED
      BY <3>2, <3>3, <3>4 DEF Bijection, Injection, Surjection, IsInjective
  <2>3. ExistsBijection(B, R)
    BY <2>2 DEF ExistsBijection
  <2> HIDE DEF B, R
  <2> QED
    BY <2>1, <2>3, FS_Bijection
<1>8. Cardinality(A \cup B) = Cardinality(A) + Cardinality(B)
      /\ Cardinality(A \cup B) <= Cardinality(Messages)
  <2> HIDE DEF A, B
  <2>1. /\ Cardinality(A \cup B) = Cardinality(A) + Cardinality(B) - Cardinality(A \cap B)
        /\ Cardinality(A) \in Nat /\ Cardinality(B) \in Nat
    BY <1>6, <1>7, FS_Union, FS_CardinalityType
  <2>2. Cardinality(A \cap B) = 0
    BY <1>5, FS_EmptySet
  <2>3. A \cup B \in SUBSET Messages
    BY <1>3, <1>5
  <2>4. Cardinality(A \cup B) <= Cardinality(Messages)
    BY <1>2, <2>3, FS_Subset
  <2> QED
    BY <2>1, <2>2, <2>4
<1>9. Cardinality(A) \in Nat /\ Cardinality(B) \in Nat
  <2> HIDE DEF A, B
  <2> QED
    BY <1>6, <1>7, FS_CardinalityType
<1> HIDE DEF A, B, R, q
<1>10. Len(q) + Cardinality(R) < Wrap
  BY <1>2, <1>6, <1>7, <1>8, <1>9
<1> QED
  BY <1>6, <1>7, <1>10 DEF R, q

\* Such a step keeps the count, and the waiters with a full queue.
LEMMA SlotsStay ==
  ASSUME NEW p \in Ports, Inv, Inv', Bounded, Bounded', SlotStep(p), p \in live,
         SlotsAccounted, FullOK
  PROVE  /\ port'[p].count = Len(port'[p].queue) + Cardinality(Reserved(p)')
         /\ Waiters(p)' # {} => port'[p].full /\ port'[p].count >= port'[p].limit
<1> DEFINE n == Len(port[p].queue)
           m == Len(port'[p].queue)
           r == Cardinality(Reserved(p))
           s == Cardinality(Reserved(p)')
           c == port[p].count
           d == port'[p].count
<1>1. /\ IsFiniteSet(Reserved(p)) /\ IsFiniteSet(Reserved(p)')
      /\ n \in Nat /\ m \in Nat /\ n + r < Wrap /\ m + s < Wrap
  BY DEF Bounded
<1>2. r \in Nat /\ s \in Nat /\ Wrap \in Nat
  BY <1>1, FS_CardinalityType, PortMessageAssumption
<1>3. c = n + r /\ (Waiters(p) # {} => port[p].full /\ c >= port[p].limit)
  BY DEF SlotsAccounted, FullOK
<1>4. /\ port[p].limit \in Nat /\ port'[p].limit \in Nat
      /\ port[p].full \in BOOLEAN /\ port'[p].full \in BOOLEAN
  <2>1. port[p] \in PortRecord /\ port'[p] \in PortRecord
    BY DEF Inv, PortsOK
  <2> QED
    BY <1>2, <2>1 DEF PortRecord
<1>5. Waiters(p)' \subseteq Waiters(p) => (Waiters(p)' # {} => Waiters(p) # {})
  OBVIOUS
<1> DEFINE Good == d = m + s /\ (Waiters(p)' # {} => port'[p].full /\ d >= port'[p].limit)
<1> SUFFICES Good
  OBVIOUS
<1>6. CASE Keeps(p)
  <2>1. d = c /\ m = n /\ s = r
    BY <1>6 DEF Keeps
  <2>2. \/ Marked(p) \/ Waiters(p)' = {}
        \/ port'[p].full /\ d >= port'[p].limit
    BY <1>6 DEF Keeps
  <2> HIDE DEF n, m, r, s, c, d
  <2> QED
    BY <1>1, <1>2, <1>3, <1>4, <1>5, <2>1, <2>2 DEF Marked
<1>7. CASE Reserves(p)
  <2>1. PICK t \in Senders \ Reserved(p) : Reserved(p)' = Reserved(p) \cup {t}
    BY <1>7 DEF Reserves
  <2>2. s = r + 1
    BY <1>1, <2>1, FS_AddElement
  <2>3. d = (c + 1) % Wrap /\ m = n /\ Marked(p)
    BY <1>7 DEF Reserves
  <2> HIDE DEF n, m, r, s, c, d
  <2>4. c + 1 \in Nat /\ c + 1 < Wrap /\ c + 1 = m + s
    BY <1>1, <1>2, <1>3, <2>2, <2>3
  <2>5. d = c + 1
    BY <1>2, <2>3, <2>4, Modulo
  <2> QED
    BY <1>1, <1>2, <1>3, <1>4, <1>5, <2>3, <2>4, <2>5 DEF Marked
<1>8. CASE Fills(p)
  <2>1. PICK t \in Reserved(p) : Reserved(p)' = Reserved(p) \ {t}
    BY <1>8 DEF Fills
  <2>2. s = r - 1
    BY <1>1, <2>1, FS_RemoveElement
  <2>3. d = c /\ m = n + 1 /\ Marked(p)
    BY <1>8 DEF Fills
  <2> HIDE DEF n, m, r, s, c, d
  <2> QED
    BY <1>1, <1>2, <1>3, <1>4, <1>5, <2>2, <2>3 DEF Marked
<1>9. CASE Frees(p)
  <2>1. PICK R :
          /\ \/ m = n - 1 /\ port[p].queue # <<>> /\ R = Reserved(p)
             \/ m = n /\ \E t \in Reserved(p) : R = Reserved(p) \ {t}
          /\ port'[p].limit = port[p].limit /\ Waiters(p)' \subseteq Waiters(p)
          /\ \/ /\ d = (c + Wrap - 1) % Wrap
                /\ Reserved(p)' = R
                /\ \/ Waiters(p) = {}
                   \/ /\ port'[p].full = port[p].full
                      /\ port[p].full => d >= port[p].limit
             \/ /\ d = c /\ port'[p].full = port[p].full
                /\ \E h \in Senders \ Reserved(p) : Reserved(p)' = R \cup {h}
    BY <1>9 DEF Frees
  <2> DEFINE k == Cardinality(R)
  <2>2. IsFiniteSet(R) /\ k \in Nat /\ m + k = c - 1 /\ R \subseteq Reserved(p)
    <3>1. CASE m = n - 1 /\ R = Reserved(p)
      <4>1. k = r
        BY <3>1
      <4> HIDE DEF n, m, r, c, k
      <4> QED
        BY <1>1, <1>2, <1>3, <3>1, <4>1
    <3>2. CASE m = n /\ \E t \in Reserved(p) : R = Reserved(p) \ {t}
      <4>1. PICK t \in Reserved(p) : R = Reserved(p) \ {t}
        BY <3>2
      <4>2. IsFiniteSet(R) /\ k = r - 1
        BY <1>1, <4>1, FS_RemoveElement
      <4>3. k \in Nat
        BY <4>2, FS_CardinalityType
      <4> HIDE DEF n, m, r, c, k
      <4> QED
        BY <1>1, <1>2, <1>3, <3>2, <4>1, <4>2, <4>3
    <3> QED
      BY <2>1, <3>1, <3>2
  <2>3. CASE /\ d = (c + Wrap - 1) % Wrap /\ Reserved(p)' = R
             /\ \/ Waiters(p) = {}
                \/ /\ port'[p].full = port[p].full
                   /\ port[p].full => d >= port[p].limit
    <3>1. s = k
      BY <2>3
    <3> HIDE DEF n, m, r, s, c, d, k
    <3>2. c - 1 \in Nat /\ c - 1 < Wrap /\ c + Wrap - 1 = (c - 1) + Wrap
      BY <1>1, <1>2, <1>3, <2>2
    <3>3. d = c - 1
      <4>1. ((c - 1) + Wrap) % Wrap = c - 1
        BY <1>2, <3>2, Modulo
      <4> QED
        BY <2>3, <3>2, <4>1
    <3>4. d = m + s
      BY <2>2, <3>1, <3>3
    <3>5. Waiters(p)' # {} => port'[p].full /\ d >= port'[p].limit
      BY <1>3, <1>4, <1>5, <2>1, <2>3
    <3> QED
      BY <3>4, <3>5
  <2>4. CASE /\ d = c /\ port'[p].full = port[p].full
             /\ \E h \in Senders \ Reserved(p) : Reserved(p)' = R \cup {h}
    <3>1. PICK h \in Senders \ Reserved(p) : Reserved(p)' = R \cup {h}
      BY <2>4
    <3>2. s = k + 1
      BY <2>2, <3>1, FS_AddElement
    <3> HIDE DEF n, m, r, s, c, d, k
    <3>3. d = m + s
      BY <1>1, <1>2, <1>3, <2>2, <2>4, <3>2
    <3>4. Waiters(p)' # {} => port'[p].full /\ d >= port'[p].limit
      BY <1>3, <1>4, <1>5, <2>1, <2>4
    <3> QED
      BY <3>3, <3>4
  <2> QED
    BY <2>1, <2>3, <2>4
<1> QED
  BY <1>6, <1>7, <1>8, <1>9 DEF SlotStep

------------------------------------------------------------------------------
(***************************************************************************)
(* What the actions do to slots                                            *)
(***************************************************************************)
\* Wakeups give slots to those of go and to nobody else.
LEMMA WokenSlots ==
  ASSUME NEW x \in Threads, NEW gone, NEW go, NEW p \in Ports, Inv,
         gone \ {x} \subseteq Receivers, go \subseteq {t \in Senders : th[t].pc = "full"},
         \A u \in Threads \ {x} : th'[u] = Woken(gone, go)[u]
  PROVE  \A u \in Senders \ {x} :
           /\ u \in Reserved(p)' <=> u \in Reserved(p) \/ (u \in go /\ th[u].at = p)
           /\ u \in Waiters(p)' <=> u \in Waiters(p) /\ u \notin go
<1> SUFFICES ASSUME NEW u \in Senders, u # x
             PROVE  /\ u \in Reserved(p)' <=> u \in Reserved(p) \/ (u \in go /\ th[u].at = p)
                    /\ u \in Waiters(p)' <=> u \in Waiters(p) /\ u \notin go
  OBVIOUS
<1>1. u \in Threads /\ u \notin gone
  BY PortMessageAssumption DEF Threads
<1>2. th'[u] = IF u \in go THEN [th[u] EXCEPT !.pc = "post"] ELSE th[u]
  BY <1>1 DEF Woken
<1>3. CASE u \in go
  <2>1. th[u].pc = "full" /\ th[u] = At(th[u].pc, th[u].at, Latest(u))
    BY <1>1, <1>3, SenderIs DEF SenderPCs
  <2>2. th'[u].pc = "post" /\ th'[u].at = th[u].at
    BY <1>2, <1>3, <2>1 DEF At
  <2> QED
    BY <1>3, <2>1, <2>2 DEF Reserved, Waiters
<1>4. CASE u \notin go
  BY <1>2, <1>4 DEF Reserved, Waiters
<1> QED
  BY <1>3, <1>4

\* x has a slot of p as before and does not begin to wait for one.
Spares(x, p) ==
  x \in Senders => /\ x \in Reserved(p)' <=> x \in Reserved(p)
                   /\ x \in Waiters(p)' => x \in Waiters(p)

SameSlots(p) ==
  /\ port'[p].count = port[p].count /\ port'[p].full = port[p].full
  /\ port'[p].limit = port[p].limit /\ Len(port'[p].queue) = Len(port[p].queue)

LEMMA CalmSlots ==
  ASSUME NEW x \in Threads, NEW gone, NEW go, NEW p \in Ports, Inv,
         gone \ {x} \subseteq Receivers,
         go \subseteq {t \in Senders : th[t].pc = "full" /\ th[t].at # p},
         \A u \in Threads \ {x} : th'[u] = Woken(gone, go)[u],
         Spares(x, p), SameSlots(p)
  PROVE  SlotStep(p)
<1>1. go \subseteq {t \in Senders : th[t].pc = "full"} /\ \A u \in go : th[u].at # p
  OBVIOUS
<1>2. \A u \in Senders \ {x} :
        /\ u \in Reserved(p)' <=> u \in Reserved(p)
        /\ u \in Waiters(p)' => u \in Waiters(p)
  BY <1>1, WokenSlots
<1>3. /\ Reserved(p) \subseteq Senders /\ Reserved(p)' \subseteq Senders
      /\ Waiters(p)' \subseteq Senders
  BY DEF Reserved, Waiters
<1>4. Reserved(p)' = Reserved(p) /\ Waiters(p)' \subseteq Waiters(p)
  BY <1>2, <1>3 DEF Spares
<1>5. port[p].limit \in Nat
  BY PortMessageAssumption DEF Inv, PortsOK, PortRecord
<1> QED
  BY <1>4, <1>5 DEF SlotStep, Keeps, Marked, SameSlots

\* Only x moves.
LEMMA LoneSlots ==
  ASSUME NEW x \in Threads, NEW p \in Ports, Inv,
         \A u \in Threads \ {x} : th'[u] = th[u], Spares(x, p), SameSlots(p)
  PROVE  SlotStep(p)
<1> DEFINE none == {}
<1>1. /\ none \ {x} \subseteq Receivers
      /\ none \subseteq {t \in Senders : th[t].pc = "full" /\ th[t].at # p}
      /\ \A u \in Threads \ {x} : th'[u] = Woken(none, none)[u]
  BY DEF Woken
<1> HIDE DEF none
<1> QED
  BY <1>1, CalmSlots

\* x and receivers are woken with nothing left to do.
LEMMA AwaySlots ==
  ASSUME NEW x \in Threads, NEW gone, NEW p \in Ports, Inv,
         gone \ {x} \subseteq Receivers,
         \A u \in Threads \ {x} : th'[u] = Woken(gone, {})[u],
         Spares(x, p), SameSlots(p)
  PROVE  SlotStep(p)
<1> DEFINE none == {}
<1>1. /\ none \subseteq {t \in Senders : th[t].pc = "full" /\ th[t].at # p}
      /\ \A u \in Threads \ {x} : th'[u] = Woken(gone, none)[u]
  OBVIOUS
<1> HIDE DEF none
<1> QED
  BY <1>1, CalmSlots

\* Whom neither pc means a slot.
LEMMA SparesIdly ==
  ASSUME NEW x, NEW p, th[x].pc \notin {"post", "enqueue"},
         th'[x].pc \notin {"post", "enqueue", "full"}
  PROVE  Spares(x, p)
BY DEF Spares, Reserved, Waiters

LEMMA SparesOther ==
  ASSUME NEW x, NEW p, x \notin Senders
  PROVE  Spares(x, p)
BY DEF Spares

LEMMA HeirSlots ==
  ASSUME NEW x \in Threads, NEW gone, NEW p \in Ports, NEW heir \in SUBSET Waiters(p),
         Inv, gone \ {x} \subseteq Receivers, th' = Woken(gone, heir)
  PROVE  /\ \A r \in Ports \ {p} : Spares(x, r) /\ SameSlots(r) => SlotStep(r)
         /\ \A u \in Senders \ {x} :
              /\ u \in Reserved(p)' <=> u \in Reserved(p) \/ u \in heir
              /\ u \in Waiters(p)' <=> u \in Waiters(p) /\ u \notin heir
<1>1. /\ heir \subseteq {t \in Senders : th[t].pc = "full"}
      /\ \A u \in heir : th[u].at = p
  BY DEF Waiters
<1>2. \A u \in Threads \ {x} : th'[u] = Woken(gone, heir)[u]
  OBVIOUS
<1>3. ASSUME NEW r \in Ports, r # p, Spares(x, r), SameSlots(r)
      PROVE  SlotStep(r)
  <2>1. heir \subseteq {t \in Senders : th[t].pc = "full" /\ th[t].at # r}
    BY <1>1, <1>3
  <2> QED
    BY <1>2, <1>3, <2>1, CalmSlots
<1>4. \A u \in Senders \ {x} :
        /\ u \in Reserved(p)' <=> u \in Reserved(p) \/ (u \in heir /\ th[u].at = p)
        /\ u \in Waiters(p)' <=> u \in Waiters(p) /\ u \notin heir
  BY <1>1, <1>2, WokenSlots
<1> QED
  BY <1>1, <1>3, <1>4

\* A message is handed over, from the queue or by its sender x.
LEMMA HandsOverSlots ==
  ASSUME NEW x \in Threads, NEW p \in Ports, NEW after \in PortRecord, NEW gone, Inv,
         ReleaseMsgcount(p, after, gone), gone \ {x} \subseteq Receivers,
         th[x].pc \notin WaitPCs,
         after.count = port[p].count, after.full = port[p].full,
         after.limit = port[p].limit,
         \/ /\ Len(after.queue) = Len(port[p].queue) - 1 /\ port[p].queue # <<>>
            /\ x \notin Senders
         \/ after.queue = port[p].queue /\ x \in Reserved(p) /\ x \in gone
  PROVE  \A r \in Ports : SlotStep(r)
<1>1. /\ \A r \in Ports \ {p} : port'[r] = port[r]
      /\ port'[p].queue = after.queue /\ port'[p].limit = port[p].limit
  BY Released
<1>2. PICK heir \in SUBSET Waiters(p) :
        /\ Wakes(gone, heir)
        /\ \/ /\ \E h \in Waiters(p) : heir = {h}
              /\ port'[p].count = port[p].count /\ port'[p].full = port[p].full
           \/ /\ heir = {}
              /\ port'[p].count = (port[p].count + Wrap - 1) % Wrap
              /\ \/ Waiters(p) = {}
                 \/ /\ port'[p].full = port[p].full
                    /\ port[p].full => port'[p].count >= port[p].limit
  <2> DEFINE W == Waiters(p)
  <2>1. \E heir \in SUBSET W :
          /\ Wakes(gone, heir)
          /\ \/ /\ \E h \in W : heir = {h}
                /\ port'[p].count = after.count /\ port'[p].full = after.full
             \/ /\ heir = {}
                /\ port'[p].count = (after.count + Wrap - 1) % Wrap
                /\ \/ W = {}
                   \/ /\ port'[p].full = after.full
                      /\ after.full => port'[p].count >= after.limit
    BY Released
  <2> HIDE DEF W
  <2>2. \E heir \in SUBSET W :
          /\ Wakes(gone, heir)
          /\ \/ /\ \E h \in W : heir = {h}
                /\ port'[p].count = port[p].count /\ port'[p].full = port[p].full
             \/ /\ heir = {}
                /\ port'[p].count = (port[p].count + Wrap - 1) % Wrap
                /\ \/ W = {}
                   \/ /\ port'[p].full = port[p].full
                      /\ port[p].full => port'[p].count >= port[p].limit
    BY <2>1
  <2> QED
    BY <2>2 DEF W
<1>3. /\ heir \subseteq {t \in Senders : th[t].pc = "full"}
      /\ \A u \in heir : th[u].at = p /\ u \notin Reserved(p) /\ u \in Senders
      /\ x \notin heir
  BY DEF Waiters, Reserved, WaitPCs
<1>4. th' = Woken(gone, heir)
  BY <1>2 DEF Wakes
<1>5. th'[x] = IF x \in gone THEN Idle ELSE th[x]
  BY <1>3, <1>4 DEF Woken
<1>6. ASSUME NEW r \in Ports, r # p PROVE SlotStep(r)
  <2>1. Spares(x, r)
    <3>1. CASE x \notin Senders
      BY <3>1 DEF Spares
    <3>2. CASE x \in Reserved(p) /\ x \in gone
      BY <1>5, <1>6, <3>2 DEF Spares, Reserved, Waiters, Idle
    <3> QED
      BY <3>1, <3>2
  <2>2. SameSlots(r)
    BY <1>1, <1>6 DEF SameSlots
  <2> QED
    BY <1>4, <1>6, <2>1, <2>2, HeirSlots
<1>7. \A u \in Senders \ {x} :
        /\ u \in Reserved(p)' <=> u \in Reserved(p) \/ u \in heir
        /\ u \in Waiters(p)' <=> u \in Waiters(p) /\ u \notin heir
  BY <1>4, HeirSlots
<1>8. /\ x \notin Waiters(p)'
      /\ Reserved(p) \subseteq Senders /\ Reserved(p)' \subseteq Senders
      /\ Waiters(p)' \subseteq Senders
  BY <1>5 DEF Waiters, Reserved, Idle, WaitPCs
<1>9. Waiters(p)' \subseteq Waiters(p)
  BY <1>7, <1>8
<1>10. \E R :
         /\ \/ /\ Len(port'[p].queue) = Len(port[p].queue) - 1
               /\ port[p].queue # <<>> /\ R = Reserved(p)
            \/ /\ Len(port'[p].queue) = Len(port[p].queue)
               /\ \E t \in Reserved(p) : R = Reserved(p) \ {t}
         /\ Reserved(p)' = R \cup heir
  <2>1. CASE /\ Len(after.queue) = Len(port[p].queue) - 1 /\ port[p].queue # <<>>
             /\ x \notin Senders
    <3>1. Reserved(p)' = Reserved(p) \cup heir
      BY <1>3, <1>7, <1>8, <2>1
    <3> QED
      BY <1>1, <2>1, <3>1
  <2>2. CASE after.queue = port[p].queue /\ x \in Reserved(p) /\ x \in gone
    <3>1. x \notin Reserved(p)'
      BY <1>5, <2>2 DEF Reserved, Idle
    <3>2. Reserved(p)' = (Reserved(p) \ {x}) \cup heir
      BY <1>3, <1>7, <1>8, <3>1
    <3> QED
      BY <1>1, <2>2, <3>2
  <2> QED
    BY <2>1, <2>2
<1>11. PICK R :
         /\ \/ /\ Len(port'[p].queue) = Len(port[p].queue) - 1
               /\ port[p].queue # <<>> /\ R = Reserved(p)
            \/ /\ Len(port'[p].queue) = Len(port[p].queue)
               /\ \E t \in Reserved(p) : R = Reserved(p) \ {t}
         /\ Reserved(p)' = R \cup heir
  BY <1>10
<1>12. \/ /\ port'[p].count = (port[p].count + Wrap - 1) % Wrap
          /\ Reserved(p)' = R
          /\ \/ Waiters(p) = {}
             \/ /\ port'[p].full = port[p].full
                /\ port[p].full => port'[p].count >= port[p].limit
       \/ /\ port'[p].count = port[p].count /\ port'[p].full = port[p].full
          /\ \E h \in Senders \ Reserved(p) : Reserved(p)' = R \cup {h}
  <2>1. CASE heir = {}
    BY <1>2, <1>11, <2>1
  <2>2. CASE heir # {}
    <3>1. PICK h \in Waiters(p) : heir = {h}
      BY <1>2, <2>2
    <3> QED
      BY <1>2, <1>3, <1>11, <2>2, <3>1
  <2> QED
    BY <2>1, <2>2
<1>13. Frees(p)
  BY <1>1, <1>9, <1>11, <1>12 DEF Frees
<1> QED
  BY <1>6, <1>13 DEF SlotStep

------------------------------------------------------------------------------
LEMMA SendSlots ==
  ASSUME NEW t \in Senders, NEW q \in Ports, NEW p \in Ports, Inv, Send(t, q)
  PROVE  SlotStep(p)
<1>1. t \in Threads /\ DOMAIN th = Threads
  BY DEF Threads, Inv, ThreadsOK
<1>2. th[t] = Idle /\ port' = port /\ \A u \in Threads \ {t} : th'[u] = th[u]
  BY <1>1 DEF Send
<1>3. th'[t].pc \in {"idle", "send"}
  BY <1>1 DEF Send, At, Idle
<1>4. Spares(t, p)
  BY <1>2, <1>3, SparesIdly DEF Idle
<1> QED
  BY <1>1, <1>2, <1>4, LoneSlots DEF SameSlots

LEMMA SendReserveSlots ==
  ASSUME NEW t \in Senders, NEW p \in Ports, Inv, SendReserve(t)
  PROVE  SlotStep(p)
<1> DEFINE q == th[t].at
<1>1. /\ t \in Threads /\ DOMAIN th = Threads /\ port \in [Ports -> PortRecord]
      /\ th[t].pc = "send"
      /\ port' = [port EXCEPT ![q].count = (@ + 1) % Wrap]
      /\ th' = [th EXCEPT ![t].pc = "post"]
  BY DEF SendReserve, Threads, Inv, ThreadsOK, PortsOK
<1>2. q \in Ports /\ th[t] = At(th[t].pc, th[t].at, Latest(t))
  BY <1>1, SenderIs DEF SenderPCs
<1>3. /\ \A u \in Threads \ {t} : th'[u] = th[u]
      /\ th'[t].pc = "post" /\ th'[t].at = q
  BY <1>1, <1>2 DEF At
<1>4. CASE p # q
  <2>1. Spares(t, p)
    BY <1>1, <1>3, <1>4 DEF Spares, Reserved, Waiters
  <2>2. port'[p] = port[p]
    BY <1>1, <1>4
  <2> QED
    BY <1>1, <1>3, <2>1, <2>2, LoneSlots DEF SameSlots
<1>5. CASE p = q
  <2>1. /\ port'[p].count = (port[p].count + 1) % Wrap /\ port'[p].queue = port[p].queue
        /\ port'[p].full = port[p].full /\ port'[p].limit = port[p].limit
        /\ port[p].limit \in Nat
    BY <1>1, <1>2, <1>5, PortMessageAssumption DEF PortRecord
  <2>2. \A u \in Senders \ {t} : /\ u \in Reserved(p)' <=> u \in Reserved(p)
                                 /\ u \in Waiters(p)' <=> u \in Waiters(p)
    BY <1>3 DEF Reserved, Waiters, Threads
  <2>3. t \notin Reserved(p) /\ t \in Reserved(p)' /\ t \notin Waiters(p)'
    BY <1>1, <1>3, <1>5 DEF Reserved, Waiters
  <2>4. /\ Reserved(p) \subseteq Senders /\ Reserved(p)' \subseteq Senders
        /\ Waiters(p)' \subseteq Senders
    BY DEF Reserved, Waiters
  <2>5. Reserved(p)' = Reserved(p) \cup {t} /\ Waiters(p)' \subseteq Waiters(p)
    BY <2>2, <2>3, <2>4
  <2> QED
    BY <2>1, <2>3, <2>5 DEF SlotStep, Reserves, Marked
<1> QED
  BY <1>4, <1>5

LEMMA SendFullSlots ==
  ASSUME NEW t \in Senders, NEW p \in Ports, Inv, SendFull(t)
  PROVE  SlotStep(p)
<1> DEFINE q == th[t].at
<1>1. /\ t \in Threads /\ DOMAIN th = Threads /\ port \in [Ports -> PortRecord]
      /\ th[t].pc = "send" /\ port[q].count >= port[q].limit
  BY DEF SendFull, Threads, Inv, ThreadsOK, PortsOK
<1>2. q \in Ports /\ th[t] = At(th[t].pc, th[t].at, Latest(t))
  BY <1>1, SenderIs DEF SenderPCs
<1>3. CASE th' = [th EXCEPT ![t] = Idle] /\ UNCHANGED port
  <2>1. th'[t] = Idle /\ \A u \in Threads \ {t} : th'[u] = th[u]
    BY <1>1, <1>3
  <2>2. Spares(t, p)
    BY <1>1, <2>1, SparesIdly DEF Idle
  <2> QED
    BY <1>1, <1>3, <2>1, <2>2, LoneSlots DEF SameSlots
<1>4. CASE th' = [th EXCEPT ![t].pc = "full"] /\ port' = [port EXCEPT ![q].full = TRUE]
  <2>1. /\ \A u \in Threads \ {t} : th'[u] = th[u]
        /\ th'[t].pc = "full" /\ th'[t].at = q
    BY <1>1, <1>2, <1>4 DEF At
  <2>2. CASE p # q
    <3>1. Spares(t, p)
      BY <1>1, <2>1, <2>2 DEF Spares, Reserved, Waiters
    <3>2. port'[p] = port[p]
      BY <1>1, <1>4, <2>2
    <3> QED
      BY <1>1, <2>1, <3>1, <3>2, LoneSlots DEF SameSlots
  <2>3. CASE p = q
    <3>1. /\ port'[p].count = port[p].count /\ port'[p].queue = port[p].queue
          /\ port'[p].full = TRUE /\ port'[p].limit = port[p].limit
      BY <1>1, <1>2, <1>4, <2>3 DEF PortRecord
    <3>2. \A u \in Senders : u \in Reserved(p)' <=> u \in Reserved(p)
      BY <1>1, <2>1 DEF Reserved, Threads
    <3>3. Reserved(p)' = Reserved(p)
      BY <3>2 DEF Reserved
    <3> QED
      BY <1>1, <2>3, <3>1, <3>3 DEF SlotStep, Keeps
  <2> QED
    BY <2>2, <2>3
<1> QED
  BY <1>3, <1>4 DEF SendFull

LEMMA TurnAwaySlots ==
  ASSUME NEW t \in Threads, NEW p \in Ports, Inv, TurnAway(t)
  PROVE  SlotStep(p)
<1> DEFINE q == th[t].at
           rs == FirstReceiver(q)
<1>1. /\ th[t].pc \in {"post", "match"}
      /\ port' = [port EXCEPT ![q].lock = t] /\ th' = Woken(rs, {})
      /\ port \in [Ports -> PortRecord]
  BY DEF TurnAway, Wakes, Inv, PortsOK
<1>2. q \in Ports
  BY <1>1, SenderIs, OwnerIs DEF SenderPCs, OwnerPCs
<1>3. rs \subseteq Receivers /\ t \notin rs
  <2>1. rs \subseteq Readers(q)
    BY <1>2, FirstReceiverOK
  <2> QED
    BY <1>1, <2>1 DEF Readers
<1>4. th'[t] = th[t] /\ \A u \in Threads \ {t} : th'[u] = Woken(rs, {})[u]
  BY <1>1, <1>3 DEF Woken
<1>5. Spares(t, p)
  BY <1>4 DEF Spares, Reserved, Waiters
<1>6. SameSlots(p)
  BY <1>1, <1>2 DEF SameSlots, PortRecord
<1> HIDE DEF rs, q
<1> QED
  BY <1>3, <1>4, <1>5, <1>6, AwaySlots

LEMMA PostSlots ==
  ASSUME NEW t \in Senders, NEW p \in Ports, Inv, Post(t)
  PROVE  SlotStep(p)
<1> DEFINE q == th[t].at
           rs == FirstReceiver(q)
           after == [port[q] EXCEPT !.lock = None]
<1>1. /\ th[t].pc = "post" /\ t \in Threads /\ DOMAIN th = Threads
      /\ port \in [Ports -> PortRecord]
  BY DEF Post, Threads, Inv, ThreadsOK, PortsOK
<1>2. q \in Ports /\ th[t] = At(th[t].pc, th[t].at, Latest(t))
  BY <1>1, SenderIs DEF SenderPCs
<1>3. CASE rs # {} /\ HandsOver(q, th[t].msg, after, {t} \cup rs)
  <2> DEFINE gone == {t} \cup rs
  <2>1. /\ after \in PortRecord /\ after.queue = port[q].queue
        /\ after.count = port[q].count /\ after.full = port[q].full
        /\ after.limit = port[q].limit
    BY <1>1, <1>2 DEF PortRecord
  <2>2. gone \ {t} \subseteq Receivers /\ t \in gone
    <3>1. rs \subseteq Readers(q)
      BY <1>2, FirstReceiverOK
    <3> QED
      BY <3>1 DEF Readers
  <2>3. t \in Reserved(q) /\ th[t].pc \notin WaitPCs
    BY <1>1 DEF Reserved, WaitPCs
  <2>4. ReleaseMsgcount(q, after, gone)
    BY <1>3 DEF HandsOver
  <2> HIDE DEF after, gone, q
  <2>5. \A r \in Ports : SlotStep(r)
    BY <1>1, <1>2, <2>1, <2>2, <2>3, <2>4, HandsOverSlots
  <2> QED
    BY <2>5
<1>4. CASE port' = [port EXCEPT ![q].lock = t] /\ th' = [th EXCEPT ![t].pc = "enqueue"]
  <2>1. /\ \A u \in Threads \ {t} : th'[u] = th[u]
        /\ th'[t].pc = "enqueue" /\ th'[t].at = q
    BY <1>1, <1>2, <1>4 DEF At
  <2>2. Spares(t, p)
    BY <1>1, <2>1 DEF Spares, Reserved, Waiters
  <2>3. SameSlots(p)
    BY <1>1, <1>2, <1>4 DEF SameSlots, PortRecord
  <2> QED
    BY <1>1, <2>1, <2>2, <2>3, LoneSlots
<1> QED
  BY <1>3, <1>4 DEF Post

LEMMA EnqueueSlots ==
  ASSUME NEW t \in Senders, NEW p \in Ports, Inv, Enqueue(t)
  PROVE  SlotStep(p)
<1> DEFINE q == th[t].at
           new == [port[q] EXCEPT !.queue = Append(@, th[t].msg), !.lock = None]
<1>1. /\ t \in Threads /\ DOMAIN th = Threads /\ port \in [Ports -> PortRecord]
      /\ th[t].pc = "enqueue" /\ th' = [th EXCEPT ![t] = Idle]
      /\ port' = [port EXCEPT ![q] = new]
  BY DEF Enqueue, Threads, Inv, ThreadsOK, PortsOK
<1>2. q \in Ports /\ th[t].msg \in Messages
  BY <1>1, SenderIs DEF SenderPCs
<1>3. th'[t] = Idle /\ \A u \in Threads \ {t} : th'[u] = th[u]
  BY <1>1
<1>4. CASE p # q
  <2>1. Spares(t, p)
    BY <1>1, <1>3, <1>4 DEF Spares, Reserved, Waiters, Idle
  <2>2. port'[p] = port[p]
    BY <1>1, <1>4
  <2> QED
    BY <1>1, <1>3, <2>1, <2>2, LoneSlots DEF SameSlots
<1>5. CASE p = q
  <2>1. port'[p] = new /\ port[q] \in PortRecord /\ port[q].queue \in Seq(Messages)
    BY <1>1, <1>2, <1>5 DEF PortRecord
  <2>2. /\ new.count = port[q].count /\ new.full = port[q].full
        /\ new.limit = port[q].limit /\ new.queue = Append(port[q].queue, th[t].msg)
        /\ port[q].limit \in Nat
    <3>1. port[q].limit \in Nat
      BY <2>1, PortMessageAssumption DEF PortRecord
    <3> QED
      BY <2>1, <3>1 DEF PortRecord
  <2>3. Len(Append(port[q].queue, th[t].msg)) = Len(port[q].queue) + 1
    BY <1>2, <2>1
  <2>4. \A u \in Senders \ {t} : /\ u \in Reserved(p)' <=> u \in Reserved(p)
                                 /\ u \in Waiters(p)' <=> u \in Waiters(p)
    BY <1>3 DEF Reserved, Waiters, Threads
  <2>5. t \in Reserved(p) /\ t \notin Reserved(p)' /\ t \notin Waiters(p)'
    BY <1>1, <1>3, <1>5 DEF Reserved, Waiters, Idle
  <2>6. /\ Reserved(p) \subseteq Senders /\ Reserved(p)' \subseteq Senders
        /\ Waiters(p)' \subseteq Senders
    BY DEF Reserved, Waiters
  <2>7. Reserved(p)' = Reserved(p) \ {t} /\ Waiters(p)' \subseteq Waiters(p)
    BY <2>4, <2>5, <2>6
  <2>8. /\ port'[p].count = port[p].count /\ port'[p].full = port[p].full
        /\ port'[p].limit <= port[p].limit
        /\ Len(port'[p].queue) = Len(port[p].queue) + 1
    <3> HIDE DEF new
    <3> QED
      BY <1>5, <2>1, <2>2, <2>3
  <2> HIDE DEF new
  <2> QED
    BY <2>5, <2>7, <2>8 DEF SlotStep, Fills, Marked
<1> QED
  BY <1>4, <1>5

LEMMA WaitEndsEarlySlots ==
  ASSUME NEW t \in Threads, NEW p \in Ports, Inv, WaitEndsEarly(t)
  PROVE  SlotStep(p)
<1> DEFINE gone == {t}
<1>1. /\ th[t].pc \in {"full", "receiving"} /\ th' = Woken(gone, {}) /\ port' = port
  BY DEF WaitEndsEarly, Wakes
<1>2. th'[t] = Idle /\ \A u \in Threads \ {t} : th'[u] = Woken(gone, {})[u]
  BY <1>1 DEF Woken
<1>3. Spares(t, p)
  BY <1>1, <1>2, SparesIdly DEF Idle
<1>4. SameSlots(p) /\ gone \ {t} \subseteq Receivers
  BY <1>1 DEF SameSlots
<1> HIDE DEF gone
<1> QED
  BY <1>2, <1>3, <1>4, AwaySlots

LEMMA CopyinSlots ==
  ASSUME NEW t \in Receivers, NEW q, NEW p \in Ports, Inv, Copyin(t, q)
  PROVE  SlotStep(p)
<1>1. t \in Threads /\ DOMAIN th = Threads /\ t \notin Senders
  BY PortMessageAssumption DEF Threads, Inv, ThreadsOK
<1>2. port' = port /\ \A u \in Threads \ {t} : th'[u] = th[u]
  BY <1>1 DEF Copyin
<1> QED
  BY <1>1, <1>2, SparesOther, LoneSlots DEF SameSlots

LEMMA SelectSlots ==
  ASSUME NEW t \in Receivers, NEW q \in Ports, NEW p \in Ports, Inv,
         th[t].pc = "receive", port[q].queue # <<>>, Select(t, q)
  PROVE  SlotStep(p)
<1> DEFINE after == [port[q] EXCEPT !.queue = Tail(@)]
           gone == {t}
<1>1. /\ t \in Threads /\ t \notin Senders /\ port[q] \in PortRecord
      /\ port[q].queue \in Seq(Messages) /\ th[t].pc \notin WaitPCs
      /\ gone \ {t} \subseteq Receivers
  BY PortMessageAssumption DEF Threads, Inv, PortsOK, PortRecord, WaitPCs
<1>2. CASE ReleaseMsgcount(q, after, gone)
  <2>1. /\ Tail(port[q].queue) \in Seq(Messages)
        /\ Len(Tail(port[q].queue)) = Len(port[q].queue) - 1
    BY <1>1, TailLinks
  <2>2. /\ after \in PortRecord /\ after.queue = Tail(port[q].queue)
        /\ after.count = port[q].count /\ after.full = port[q].full
        /\ after.limit = port[q].limit
    BY <1>1, <2>1 DEF PortRecord
  <2>3. Len(after.queue) = Len(port[q].queue) - 1
    BY <2>1, <2>2
  <2> HIDE DEF after, gone
  <2>4. \A r \in Ports : SlotStep(r)
    BY <1>1, <1>2, <2>2, <2>3, HandsOverSlots
  <2> QED
    BY <2>4
<1>3. CASE Wakes(gone, {}) /\ UNCHANGED port
  <2>1. \A u \in Threads \ {t} : th'[u] = Woken(gone, {})[u]
    BY <1>3 DEF Wakes
  <2>2. Spares(t, p) /\ SameSlots(p)
    BY <1>1, <1>3, SparesOther DEF SameSlots
  <2> HIDE DEF gone
  <2> QED
    BY <1>1, <2>1, <2>2, AwaySlots
<1> QED
  BY <1>2, <1>3 DEF Select, HandsOver

LEMMA ReceiveWaitSlots ==
  ASSUME NEW t \in Receivers, NEW p \in Ports, Inv, ReceiveWait(t)
  PROVE  SlotStep(p)
<1>1. t \in Threads /\ DOMAIN th = Threads /\ t \notin Senders
  BY PortMessageAssumption DEF Threads, Inv, ThreadsOK
<1>2. port' = port /\ \A u \in Threads \ {t} : th'[u] = th[u]
  BY <1>1 DEF ReceiveWait
<1> QED
  BY <1>1, <1>2, SparesOther, LoneSlots DEF SameSlots

LEMMA ReceiveSlots ==
  ASSUME NEW t \in Receivers, NEW p \in Ports, Inv, ReceivePort(t) \/ ReceiveSet(t)
  PROVE  SlotStep(p)
<1> DEFINE q == th[t].at
<1>1. CASE ReceivePort(t)
  BY <1>1, SelectSlots, ReceiveWaitSlots DEF ReceivePort
<1>2. CASE ReceiveSet(t)
  <2>1. CASE ReceiveWait(t)
    BY <2>1, ReceiveWaitSlots
  <2>2. ASSUME NEW n \in WithMessage(q), Select(t, links[q][n])
        PROVE  SlotStep(p)
    <3>1. q \in Sets /\ th[t].pc = "receive"
      BY <1>2 DEF ReceiveSet
    <3>2. links[q] \in Seq(Ports)
      BY <3>1 DEF Inv, LinksOK
    <3>3. n \in DOMAIN links[q] /\ port[links[q][n]].queue # <<>>
      BY <2>2 DEF WithMessage
    <3>4. links[q][n] \in Ports
      BY <3>2, <3>3
    <3> QED
      BY <2>2, <3>1, <3>3, <3>4, SelectSlots
  <2> QED
    BY <1>2, <2>1, <2>2 DEF ReceiveSet
<1> QED
  BY <1>1, <1>2

LEMMA MatchSlots ==
  ASSUME NEW o \in Owners, NEW p \in Ports, Inv, Match(o)
  PROVE  SlotStep(p)
<1> DEFINE q == th[o].at
           rs == FirstReceiver(q)
           after == [port[q] EXCEPT !.queue = Tail(@), !.lock = o]
<1>1. /\ th[o].pc = "match" /\ o \in Threads /\ o \notin Senders
      /\ port \in [Ports -> PortRecord]
  BY PortMessageAssumption DEF Match, Threads, Inv, PortsOK
<1>2. q \in Ports /\ port[q].queue \in Seq(Messages) /\ th[o].pc \notin WaitPCs
  <2>1. q \in Ports
    BY <1>1, OwnerIs DEF OwnerPCs
  <2> QED
    BY <1>1, <2>1 DEF PortRecord, WaitPCs
<1>3. CASE port[q].queue # <<>> /\ ReleaseMsgcount(q, after, rs)
  <2>1. /\ Tail(port[q].queue) \in Seq(Messages)
        /\ Len(Tail(port[q].queue)) = Len(port[q].queue) - 1
    BY <1>2, <1>3, TailLinks
  <2>2. /\ after \in PortRecord /\ after.queue = Tail(port[q].queue)
        /\ after.count = port[q].count /\ after.full = port[q].full
        /\ after.limit = port[q].limit
    BY <1>1, <1>2, <2>1 DEF PortRecord
  <2>3. Len(after.queue) = Len(port[q].queue) - 1
    BY <2>1, <2>2
  <2>4. rs \ {o} \subseteq Receivers
    <3>1. rs \subseteq Readers(q)
      BY <1>2, FirstReceiverOK
    <3> QED
      BY <3>1 DEF Readers
  <2> HIDE DEF after, rs, q
  <2>5. \A r \in Ports : SlotStep(r)
    BY <1>1, <1>2, <1>3, <2>2, <2>3, <2>4, HandsOverSlots
  <2> QED
    BY <2>5
<1>4. CASE port' = [port EXCEPT ![q].lock = None] /\ Wakes({o}, {})
  <2> DEFINE gone == {o}
  <2>1. /\ \A u \in Threads \ {o} : th'[u] = Woken(gone, {})[u]
        /\ gone \ {o} \subseteq Receivers
    BY <1>4 DEF Wakes
  <2>2. Spares(o, p) /\ SameSlots(p)
    BY <1>1, <1>2, <1>4, SparesOther DEF SameSlots, PortRecord
  <2> HIDE DEF gone
  <2> QED
    BY <1>1, <2>1, <2>2, AwaySlots
<1> QED
  BY <1>3, <1>4 DEF Match, HandsOver

\* Operations of owners that leave the ports' records alone.
LEMMA OwnerSlots ==
  ASSUME NEW o \in Owners, NEW p \in Ports, NEW gone, Inv, port' = port,
         gone \subseteq Receivers,
         \A u \in Threads \ {o} : th'[u] = Woken(gone, {})[u]
  PROVE  SlotStep(p)
<1>1. o \in Threads /\ o \notin Senders /\ gone \ {o} \subseteq Receivers
  BY PortMessageAssumption DEF Threads
<1>2. Spares(o, p) /\ SameSlots(p)
  BY <1>1, SparesOther DEF SameSlots
<1> QED
  BY <1>1, <1>2, AwaySlots

LEMMA MemberSlots ==
  ASSUME NEW o \in Owners, NEW q \in Ports, NEW p \in Ports, Inv,
         \/ \E s \in Sets : AddMember(o, q, s)
         \/ RemoveMember(o, q)
  PROVE  SlotStep(p)
<1>1. /\ o \in Threads /\ DOMAIN th = Threads /\ port' = port
      /\ th' = th \/ \E m : th' = [th EXCEPT ![o] = m]
  BY DEF AddMember, RemoveMember, Threads, Inv, ThreadsOK
<1>2. \A u \in Threads \ {o} : th'[u] = th[u]
  BY <1>1
<1> DEFINE gone == {}
<1>3. (\A u \in Threads \ {o} : th'[u] = Woken(gone, {})[u]) /\ gone \subseteq Receivers
  BY <1>2 DEF Woken
<1> HIDE DEF gone
<1> QED
  BY <1>1, <1>3, OwnerSlots

LEMMA RightSlots ==
  ASSUME NEW o \in Owners, NEW q \in Ports, NEW p \in Ports, Inv,
         MoveReceiveRight(o, q) \/ DestroyPort(o, q)
  PROVE  SlotStep(p)
<1> DEFINE gone == {t \in Receivers : th[t] = At("receiving", q, None)}
<1>1. PICK then : ClearReceiver(o, q, then)
  BY DEF MoveReceiveRight, DestroyPort
<1>2. /\ port' = port /\ gone \subseteq Receivers
      /\ \A u \in Threads \ {o} : th'[u] = Woken(gone, {})[u]
  BY <1>1 DEF ClearReceiver, Woken
<1> HIDE DEF gone
<1> QED
  BY <1>2, OwnerSlots

LEMMA DestroySetSlots ==
  ASSUME NEW o \in Owners, NEW s \in Sets, NEW p \in Ports, Inv, DestroySet(o, s)
  PROVE  SlotStep(p)
<1> DEFINE gone == {t \in Receivers : th[t] = At("receiving", s, None)}
<1>1. /\ port' = port /\ gone \subseteq Receivers
      /\ \A u \in Threads \ {o} : th'[u] = Woken(gone, {})[u]
  BY DEF DestroySet, Wakes
<1> HIDE DEF gone
<1> QED
  BY <1>1, OwnerSlots

\* The port of a queue that is destroyed is dead.
LEMMA DestroyQueueSlots ==
  ASSUME NEW o \in Owners, NEW p \in Ports, Inv, p \in live', DestroyQueue(o)
  PROVE  SlotStep(p)
<1> DEFINE q == th[o].at
           go == Blocked(q)
           gone == {}
<1>1. th[o].pc = "destroy" /\ live' = live /\ o \in Threads /\ o \notin Senders
  BY PortMessageAssumption DEF DestroyQueue, Threads
<1>2. q \in Ports /\ q # p
  BY <1>1, OwnerIs DEF OwnerPCs, Inv, DeadOK
<1>3. port'[p] = port[p]
  BY <1>2 DEF DestroyQueue, Inv, PortsOK
<1>4. /\ \A u \in Threads \ {o} : th'[u] = Woken(gone, go)[u]
      /\ gone \ {o} \subseteq Receivers
  BY DEF DestroyQueue, Woken
<1>5. go \subseteq {t \in Senders : th[t].pc = "full" /\ th[t].at # p}
  <2>1. go = Waiters(q)
    BY <1>2, FirstBlockedOK
  <2> QED
    BY <1>2, <2>1 DEF Waiters
<1>6. Spares(o, p) /\ SameSlots(p)
  BY <1>1, <1>3, SparesOther DEF SameSlots
<1> HIDE DEF gone, go
<1> QED
  BY <1>1, <1>4, <1>5, <1>6, CalmSlots

LEMMA DrainQueueSlots ==
  ASSUME NEW o \in Owners, NEW p \in Ports, Inv, p \in live', DrainQueue(o)
  PROVE  SlotStep(p)
<1> DEFINE q == th[o].at
<1>1. /\ th[o].pc = "drain" /\ live' = live /\ o \in Threads /\ o \notin Senders
      /\ DOMAIN th = Threads /\ port \in [Ports -> PortRecord]
  BY PortMessageAssumption DEF DrainQueue, Threads, Inv, ThreadsOK, PortsOK
<1>2. q # p
  BY <1>1 DEF Inv, DeadOK
<1>3. port'[p] = port[p] /\ \A u \in Threads \ {o} : th'[u] = th[u]
  BY <1>1, <1>2 DEF DrainQueue
<1>4. Spares(o, p) /\ SameSlots(p)
  BY <1>1, <1>3, SparesOther DEF SameSlots
<1> QED
  BY <1>1, <1>3, <1>4, LoneSlots

\* A limit that grows wakes nobody if nobody waits.
LEMMA SetQlimitSlots ==
  ASSUME NEW o \in Owners, NEW q \in Ports, NEW p \in Ports, Inv, LimitsGrowIdle,
         SetQlimit(o, q)
  PROVE  SlotStep(p)
<1>1. /\ o \in Threads /\ o \notin Senders /\ port \in [Ports -> PortRecord]
      /\ port[q].limit \in Nat /\ port[q].full \in BOOLEAN
  BY PortMessageAssumption DEF Threads, Inv, PortsOK, PortRecord
<1>2. PICK n \in Limits :
        LET grows == IF n > port[q].limit THEN n - port[q].limit ELSE 0 IN
        /\ port' = [port EXCEPT ![q] =
                      [port[q] EXCEPT !.limit = n,
                                      !.full = @ /\ grows <= Cardinality(BlockedAt(q))]]
        /\ Wakes({}, FirstBlocked(q, grows))
  BY DEF SetQlimit
<1> DEFINE grows == IF n > port[q].limit THEN n - port[q].limit ELSE 0
           kept == grows <= Cardinality(BlockedAt(q))
           go == FirstBlocked(q, grows)
           new == [port[q] EXCEPT !.limit = n, !.full = @ /\ kept]
<1>3. port' = [port EXCEPT ![q] = new] /\ th' = Woken({}, go)
  BY <1>2 DEF Wakes
<1>4. n \in Nat
  BY PortMessageAssumption
<1>5. /\ port'[q] = new /\ new.queue = port[q].queue /\ new.count = port[q].count
      /\ new.limit = n /\ new.full = (port[q].full /\ kept)
      /\ \A r \in Ports \ {q} : port'[r] = port[r]
  <2> HIDE DEF kept
  <2> QED
    BY <1>1, <1>3 DEF PortRecord
<1>6. /\ Blocked(q) = Waiters(q) /\ go \subseteq Waiters(q)
      /\ FirstBlocked(q, 0) = {} /\ Cardinality(BlockedAt(q)) \in Nat
  BY FirstBlockedOK
<1>7. n > port[q].limit => Waiters(q) = {}
  BY <1>5, <1>6 DEF LimitsGrowIdle
<1>8. go = {} /\ (n > port[q].limit \/ kept)
  <2>1. CASE n > port[q].limit
    BY <1>6, <1>7, <2>1
  <2>2. CASE ~(n > port[q].limit)
    <3>1. grows = 0
      BY <2>2
    <3> HIDE DEF grows
    <3> QED
      BY <1>6, <3>1
  <2> QED
    BY <2>1, <2>2
<1> HIDE DEF new, kept, go, grows
<1>9. \A u \in Threads : th'[u] = th[u]
  BY <1>3, <1>8 DEF Woken
<1>10. Reserved(p)' = Reserved(p) /\ Waiters(p)' = Waiters(p)
  BY <1>9 DEF Reserved, Waiters, Threads
<1>11. CASE p # q
  <2>1. SameSlots(p) /\ Spares(o, p)
    BY <1>1, <1>5, <1>11, SparesOther DEF SameSlots
  <2> QED
    BY <1>1, <1>9, <2>1, LoneSlots
<1>12. CASE p = q
  <2>1. /\ port'[p].count = port[p].count
        /\ Len(port'[p].queue) = Len(port[p].queue)
        /\ port'[p].limit = n
    BY <1>5, <1>12
  <2>2. CASE n > port[q].limit
    <3>1. Waiters(p)' = {}
      BY <1>7, <1>10, <1>12, <2>2
    <3> QED
      BY <1>10, <2>1, <3>1 DEF SlotStep, Keeps
  <2>3. CASE ~(n > port[q].limit)
    <3>1. port'[p].limit <= port[p].limit /\ port'[p].full = port[p].full
      BY <1>1, <1>4, <1>5, <1>8, <1>12, <2>1, <2>3
    <3> QED
      BY <1>10, <2>1, <3>1 DEF SlotStep, Keeps, Marked
  <2> QED
    BY <2>2, <2>3
<1> QED
  BY <1>11, <1>12

LEMMA NextSlots ==
  ASSUME Inv, Next, LimitsGrowIdle, NEW p \in Ports, p \in live'
  PROVE  SlotStep(p)
<1>1. ASSUME NEW t \in Senders, Sending(t) PROVE SlotStep(p)
  <2>1. t \in Threads
    BY DEF Threads
  <2> QED
    BY <1>1, <2>1, SendSlots, SendReserveSlots, SendFullSlots, TurnAwaySlots, PostSlots,
       EnqueueSlots DEF Sending
<1>2. ASSUME NEW t \in Receivers, Receiving(t) PROVE SlotStep(p)
  BY <1>2, CopyinSlots, ReceiveSlots DEF Receiving
<1>3. ASSUME NEW o \in Owners, Owning(o) PROVE SlotStep(p)
  <2>1. o \in Threads
    BY DEF Threads
  <2>2. ASSUME NEW q \in Ports, \/ \E s \in Sets : AddMember(o, q, s)
                                \/ RemoveMember(o, q)
        PROVE  SlotStep(p)
    BY <2>2, MemberSlots
  <2>3. ASSUME NEW q \in Ports, MoveReceiveRight(o, q) \/ DestroyPort(o, q)
        PROVE  SlotStep(p)
    BY <2>3, RightSlots
  <2> QED
    BY <1>3, <2>1, <2>2, <2>3, TurnAwaySlots, MatchSlots, DestroyQueueSlots,
       DrainQueueSlots, SetQlimitSlots, DestroySetSlots DEF Owning
<1>4. ASSUME NEW t \in Threads, WaitEndsEarly(t) PROVE SlotStep(p)
  BY <1>4, WaitEndsEarlySlots
<1> QED
  BY <1>1, <1>2, <1>3, <1>4 DEF Next

\* The dead stay dead.
LEMMA LiveShrinks ==
  ASSUME Next
  PROVE  live' \subseteq live
BY DEF Next, Sending, Receiving, Owning, Send, SendReserve, SendFull, TurnAway, Post,
       Enqueue, WaitEndsEarly, Copyin, ReceivePort, ReceiveSet, AddMember, Match,
       RemoveMember, MoveReceiveRight, DestroyPort, DestroyQueue, DrainQueue, DestroySet,
       SetQlimit

LEMMA InitSlots == Init => SlotsInv
<1> SUFFICES ASSUME Init PROVE SlotsInv
  OBVIOUS
<1>1. Inv
  BY InitInv
<1>2. \A p \in Ports : port[p].queue = <<>> /\ port[p].count = 0
  BY DEF Init
<1>3. \A t \in Senders : th[t].pc = "idle"
  BY DEF Init, Threads, Idle
<1>4. \A p \in Ports : Reserved(p) = {} /\ Waiters(p) = {}
  BY <1>3 DEF Reserved, Waiters
<1>5. Len(<<>>) = 0 /\ Cardinality({}) = 0
  BY FS_EmptySet
<1>6. \A p \in Ports : Len(port[p].queue) + Cardinality(Reserved(p)) = 0
  <2> SUFFICES ASSUME NEW p \in Ports
               PROVE  Len(port[p].queue) + Cardinality(Reserved(p)) = 0
    OBVIOUS
  <2>1. Len(port[p].queue) = 0
    BY <1>2, <1>5
  <2>2. Cardinality(Reserved(p)) = 0
    BY <1>4, <1>5
  <2> QED
    BY <2>1, <2>2
<1>7. SlotsAccounted
  BY <1>2, <1>6 DEF SlotsAccounted
<1>8. FullOK
  BY <1>4 DEF FullOK
<1> QED
  BY <1>1, <1>7, <1>8 DEF SlotsInv

LEMMA StutterSlots ==
  ASSUME SlotsInv, UNCHANGED vars
  PROVE  SlotsAccounted' /\ FullOK'
BY DEF SlotsInv, SlotsAccounted, FullOK, Reserved, Waiters, vars

LEMMA NextSlotsInv ==
  ASSUME SlotsInv, [Next]_vars, [LimitsGrowIdle]_vars
  PROVE  SlotsInv'
<1>1. Inv /\ SlotsAccounted /\ FullOK
  BY DEF SlotsInv
<1>2. Inv'
  BY <1>1, NextInv
<1>3. Bounded /\ Bounded'
  BY <1>1, <1>2, InvBounded, PTL
<1>4. CASE Next /\ LimitsGrowIdle
  <2>1. ASSUME NEW p \in Ports, p \in live'
        PROVE  /\ port'[p].count = Len(port'[p].queue) + Cardinality(Reserved(p)')
               /\ Waiters(p)' # {} => port'[p].full /\ port'[p].count >= port'[p].limit
    <3>1. SlotStep(p) /\ p \in live
      BY <1>1, <1>4, <2>1, NextSlots, LiveShrinks
    <3> QED
      BY <1>1, <1>2, <1>3, <3>1, SlotsStay
  <2>2. SlotsAccounted'
    BY <2>1 DEF SlotsAccounted
  <2>3. FullOK'
    BY <2>1 DEF FullOK
  <2> QED
    BY <1>2, <2>2, <2>3 DEF SlotsInv
<1>5. CASE UNCHANGED vars
  BY <1>2, <1>5, StutterSlots DEF SlotsInv
<1> QED
  BY <1>4, <1>5

LEMMA SlotsInvCorrect == Spec /\ [][LimitsGrowIdle]_vars => []SlotsInv
<1> QED
  BY InitSlots, NextSlotsInv, PTL DEF Spec

\* imq_msgcount of a live port is the number of its queued messages and of the
\* senders with a slot, in ipc_mqueue_post or woken by ipc_mqueue_release_msgcount,
\* as long as ipc_mqueue_set_qlimit raises no limit while senders wait.
THEOREM SlotsCorrect == Spec /\ [][LimitsGrowIdle]_vars => []SlotsAccounted
<1>1. SlotsInv => SlotsAccounted
  BY DEF SlotsInv
<1> QED
  BY <1>1, SlotsInvCorrect, PTL

\* No receiver waits on a port that has a message queued: ipc_mqueue_receive looks
\* before it waits, and ipc_mqueue_post looks for it before it enqueues.
THEOREM ReceiversCorrect ==
  Spec => [](\A p \in Ports, t \in Threads :
               th[t] = At("receiving", p, None) => port[p].queue = <<>>)
<1>1. Inv => \A p \in Ports, t \in Threads :
               th[t] = At("receiving", p, None) => port[p].queue = <<>>
  BY DEF Inv, ListenOK, Listens, At
<1> QED
  BY <1>1, InvCorrect, PTL

\* Nor does a sender wait on a live port with room in the queue, or without
\* imq_fullwaiters, as long as no limit is raised while senders wait.
THEOREM MissedCorrect == Spec /\ [][LimitsGrowIdle]_vars => []NobodyMissed
<1>1. SlotsInv => NobodyMissed
  <2> SUFFICES ASSUME SlotsInv, NEW p \in Ports, NEW t \in Threads
               PROVE  /\ th[t] = At("receiving", p, None) => port[p].queue = <<>>
                      /\ th[t].pc = "full" /\ th[t].at = p /\ p \in live
                           => port[p].full /\ port[p].count >= port[p].limit
    BY DEF NobodyMissed
  <2>1. Inv /\ FullOK
    BY DEF SlotsInv
  <2>2. th[t] = At("receiving", p, None) => port[p].queue = <<>>
    BY <2>1 DEF Inv, ListenOK, Listens, At
  <2>3. th[t].pc = "full" => t \in Senders
    BY <2>1, SenderIs DEF SenderPCs
  <2> QED
    BY <2>1, <2>2, <2>3 DEF FullOK, Waiters
<1> QED
  BY <1>1, SlotsInvCorrect, PTL

=============================================================================
