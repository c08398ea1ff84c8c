--------------------------- MODULE SemaphoreProofs ---------------------------
(***************************************************************************)
(* Proofs about Semaphore for any finite set of threads: the references    *)
(* are balanced, a waiting thread is always counted, and the semaphore     *)
(* implements CountingSemaphore.                                           *)
(***************************************************************************)
EXTENDS Semaphore, SequenceTheorems, FiniteSetTheorems, TLAPS

(***************************************************************************)
(* Wait queues                                                             *)
(***************************************************************************)
\* What RemoveAt does to a queue in which each thread is once.
LEMMA RemoveAtQueue ==
  ASSUME NEW S, NEW s \in Seq(S), NEW i \in DOMAIN s, IsInjective(s)
  PROVE  /\ RemoveAt(s, i) \in Seq(S)
         /\ IsInjective(RemoveAt(s, i))
         /\ ToSet(RemoveAt(s, i)) = ToSet(s) \ {s[i]}
<1> DEFINE n == Len(s)
           r == RemoveAt(s, i)
<1>1. n \in Nat /\ DOMAIN s = 1 .. n /\ i \in 1 .. n
  BY LenProperties
<1>2. /\ SubSeq(s, 1, i - 1) \in Seq(S) /\ Len(SubSeq(s, 1, i - 1)) = i - 1
      /\ \A j \in 1 .. i - 1 : SubSeq(s, 1, i - 1)[j] = s[j]
  BY <1>1
<1>3. /\ SubSeq(s, i + 1, n) \in Seq(S) /\ Len(SubSeq(s, i + 1, n)) = n - i
      /\ \A j \in 1 .. n - i : SubSeq(s, i + 1, n)[j] = s[i + j]
  BY <1>1
<1>4. /\ r \in Seq(S) /\ Len(r) = n - 1
      /\ \A j \in 1 .. n - 1 : r[j] = IF j < i THEN s[j] ELSE s[j + 1]
  <2> DEFINE a == SubSeq(s, 1, i - 1)
             b == SubSeq(s, i + 1, n)
  <2>1. /\ r = a \o b /\ r \in Seq(S) /\ Len(r) = Len(a) + Len(b)
        /\ \A j \in 1 .. Len(a) + Len(b) :
             r[j] = IF j <= Len(a) THEN a[j] ELSE b[j - Len(a)]
    BY <1>2, <1>3, ConcatProperties DEF RemoveAt
  <2>2. Len(a) + Len(b) = n - 1
    BY <1>1, <1>2, <1>3
  <2>3. ASSUME NEW j \in 1 .. n - 1, j < i PROVE r[j] = s[j]
    BY <1>1, <1>2, <2>1, <2>2, <2>3
  <2>4. ASSUME NEW j \in 1 .. n - 1, ~(j < i) PROVE r[j] = s[j + 1]
    <3> DEFINE k == j - (i - 1)
    <3>1. k \in 1 .. n - i /\ i + k = j + 1 /\ ~(j <= Len(a))
      BY <1>1, <1>2, <2>4
    <3>2. r[j] = b[k]
      BY <1>2, <2>1, <2>2, <3>1
    <3> HIDE DEF k
    <3> QED
      BY <1>3, <3>1, <3>2
  <2> QED
    BY <2>1, <2>2, <2>3, <2>4
<1>5. DOMAIN r = 1 .. n - 1
  BY <1>4, LenProperties
<1>6. \A j, k \in 1 .. n : s[j] = s[k] => j = k
  BY <1>1 DEF IsInjective
<1>7. IsInjective(r)
  BY <1>1, <1>4, <1>5, <1>6 DEF IsInjective
<1>8. ToSet(r) \subseteq ToSet(s) \ {s[i]}
  BY <1>1, <1>4, <1>5, <1>6 DEF ToSet
<1>9. ASSUME NEW x \in ToSet(s) \ {s[i]} PROVE x \in ToSet(r)
  <2>1. PICK j \in 1 .. n : s[j] = x /\ j # i
    BY <1>1, <1>9 DEF ToSet
  <2>2. CASE j < i
    BY <1>1, <1>4, <1>5, <2>1, <2>2 DEF ToSet
  <2>3. CASE j > i
    <3>1. j - 1 \in 1 .. n - 1 /\ r[j - 1] = s[j]
      BY <1>1, <1>4, <2>1, <2>3
    <3> QED
      BY <1>5, <2>1, <3>1 DEF ToSet
  <2> QED
    BY <1>1, <2>1, <2>2, <2>3
<1> QED
  BY <1>4, <1>7, <1>8, <1>9

\* A thread that is not queued joins the queue, at either end.
LEMMA JoinQueue ==
  ASSUME NEW S, NEW s \in Seq(S), NEW t \in S, IsInjective(s), t \notin ToSet(s),
         NEW q, q = Append(s, t) \/ q = <<t>> \o s
  PROVE  q \in Seq(S) /\ IsInjective(q) /\ ToSet(q) = ToSet(s) \cup {t}
<1> DEFINE n == Len(s)
<1>1. n \in Nat /\ DOMAIN s = 1 .. n /\ \A j \in 1 .. n : s[j] # t
  BY LenProperties DEF ToSet
<1>2. \A j, k \in 1 .. n : s[j] = s[k] => j = k
  BY <1>1 DEF IsInjective
<1>3. CASE q = Append(s, t)
  <2>1. /\ q \in Seq(S) /\ DOMAIN q = 1 .. n + 1 /\ q[n + 1] = t
        /\ \A j \in 1 .. n : q[j] = s[j]
    BY <1>1, <1>3
  <2> QED
    BY <1>1, <1>2, <2>1 DEF ToSet, IsInjective
<1>4. CASE q = <<t>> \o s
  <2>1. /\ q \in Seq(S) /\ DOMAIN q = 1 .. n + 1 /\ q[1] = t
        /\ \A j \in 1 .. n : q[j + 1] = s[j]
    BY <1>1, <1>4
  <2>2. \A k \in 2 .. n + 1 : k - 1 \in 1 .. n /\ q[k] = s[k - 1]
    BY <1>1, <2>1
  <2>3. IsInjective(q)
    BY <1>1, <1>2, <2>1, <2>2 DEF IsInjective
  <2>4. ToSet(q) \subseteq ToSet(s) \cup {t}
    <3>1. ASSUME NEW k \in 1 .. n + 1 PROVE q[k] \in ToSet(s) \cup {t}
      <4>1. k = 1 \/ k \in 2 .. n + 1
        BY <1>1
      <4> QED
        BY <1>1, <2>1, <2>2, <4>1 DEF ToSet
    <3> QED
      BY <2>1, <3>1 DEF ToSet
  <2>5. ASSUME NEW j \in 1 .. n PROVE s[j] \in ToSet(q)
    <3>1. j + 1 \in 1 .. n + 1 /\ q[j + 1] = s[j]
      BY <1>1, <2>1
    <3>2. j + 1 \in DOMAIN q
      BY <2>1, <3>1
    <3> QED
      BY <3>1, <3>2 DEF ToSet
  <2>6. ToSet(s) \cup {t} \subseteq ToSet(q)
    BY <1>1, <2>1, <2>5 DEF ToSet
  <2> QED
    BY <2>1, <2>3, <2>4, <2>6
<1> QED
  BY <1>3, <1>4

(***************************************************************************)
(* The invariant                                                           *)
(***************************************************************************)
\* Who is queued is blocked, and queued once.
QueueOK == /\ waitQueue \in Seq(Threads) /\ IsInjective(waitQueue)
           /\ \A t \in Queued : pc[t] = "blocked"

\* One thread at most is past semaphore_destroy's test of active, and until it
\* has come to the port the port lives.
Destroyers == {t \in Threads : pc[t] \in {"deallocPort", "dropCreation"}}
DestroyOK ==
  /\ Destroyers # {} => ~active
  /\ \A t, u \in Destroyers : t = u
  /\ portActive => active \/ \E t \in Destroyers : pc[t] = "deallocPort"

\* A result is set by whoever ends a wait, and kept until the call returns; a
\* wait is restarted only once the semaphore is destroyed.
ResultOK == \A t \in Threads :
  /\ t \in Queued => result[t] = "none"
  /\ pc[t] = "blocked" /\ t \notin Queued =>
       result[t] \in {"awakened", "restart", "interrupted", "timed_out"}
  /\ pc[t] \in Calls => \/ result[t] = "none"
                        \/ pc[t] = "wait" /\ result[t] = "restart"
  /\ pc[t] \in {"out", "deallocPort", "dropCreation"} => result[t] = "none"
  /\ result[t] = "restart" => ~active

Inv == TypeOK /\ WaitersCounted /\ RefsBalanced /\ QueueOK /\ DestroyOK
              /\ ResultOK

LEMMA InvInit == Init => Inv
<1> SUFFICES ASSUME Init PROVE Inv
  OBVIOUS
<1>1. waitQueue \in Seq(Threads) /\ IsInjective(waitQueue) /\ Queued = {}
  BY DEF Init, IsInjective, Queued, ToSet
<1>2. TypeOK
  <2>1. count \in -1 .. MaxCount /\ refCount \in Int
    BY SemaphoreAssumption DEF Init
  <2>2. active \in BOOLEAN /\ portActive \in BOOLEAN /\ freed \in BOOLEAN
    BY Zenon DEF Init
  <2>3. /\ pc \in [Threads -> PCs]
        /\ result \in [Threads -> WaitResults \cup Returns]
    BY DEF Init, PCs, WaitResults
  <2> QED
    BY <1>1, <2>1, <2>2, <2>3 DEF TypeOK
<1>3. WaitersCounted /\ QueueOK
  BY <1>1 DEF Init, WaitersCounted, QueueOK
<1>4. RefsBalanced
  <2>1. Callers = {} /\ Cardinality(Callers) = 0
    BY FS_EmptySet DEF Init, Callers
  <2> QED
    BY <2>1 DEF Init, RefsBalanced, Creation
<1>5. Destroyers = {}
  BY DEF Init, Destroyers
<1>6. DestroyOK
  BY <1>5 DEF Init, DestroyOK
<1>7. ResultOK
  BY <1>1 DEF Init, ResultOK, Calls
<1> QED
  BY <1>2, <1>3, <1>4, <1>6, <1>7 DEF Inv

\* The threads that are queued after a step, and how it changes the queue.
QueueStep(W) == /\ waitQueue' \in Seq(Threads) /\ IsInjective(waitQueue')
                /\ Queued' = W

LEMMA LeaveQueueStep ==
  ASSUME QueueOK, NEW i \in DOMAIN waitQueue, LeaveQueue(i)
  PROVE  QueueStep(Queued \ {waitQueue[i]})
BY RemoveAtQueue DEF QueueOK, LeaveQueue, QueueStep, Queued

LEMMA KeepQueueStep ==
  ASSUME QueueOK, UNCHANGED waitQueue
  PROVE  QueueStep(Queued)
BY DEF QueueOK, QueueStep, Queued

LEMMA WakeupAllStep ==
  ASSUME QueueOK, NEW r, WakeupAll(r)
  PROVE  QueueStep(IF count < 0 THEN {} ELSE Queued)
<1>1. CASE count < 0
  <2>1. waitQueue' = <<>>
    BY <1>1 DEF WakeupAll
  <2>2. waitQueue' \in Seq(Threads) /\ IsInjective(waitQueue') /\ Queued' = {}
    BY <2>1 DEF IsInjective, Queued, ToSet
  <2> QED
    BY <1>1, <2>2 DEF QueueStep
<1>2. CASE ~(count < 0)
  BY <1>2, KeepQueueStep DEF WakeupAll
<1> QED
  BY <1>1, <1>2

\* A thread joins the queue in one place, and not twice.
LEMMA JoinStep ==
  ASSUME QueueOK, NEW t \in Threads, pc[t] # "blocked",
         waitQueue' = IF t \in Privileged THEN <<t>> \o waitQueue
                                          ELSE Append(waitQueue, t)
  PROVE  QueueStep(Queued \cup {t})
<1>1. t \notin ToSet(waitQueue)
  BY DEF QueueOK, Queued
<1>2. waitQueue' = Append(waitQueue, t) \/ waitQueue' = <<t>> \o waitQueue
  OBVIOUS
<1>3. ASSUME NEW q, q = Append(waitQueue, t) \/ q = <<t>> \o waitQueue
      PROVE  /\ q \in Seq(Threads) /\ IsInjective(q)
             /\ ToSet(q) = ToSet(waitQueue) \cup {t}
  <2>1. waitQueue \in Seq(Threads) /\ IsInjective(waitQueue)
    BY DEF QueueOK
  <2> QED
    BY ONLY <1>1, <1>3, <2>1, t \in Threads, JoinQueue
<1>4. /\ waitQueue' \in Seq(Threads) /\ IsInjective(waitQueue')
      /\ ToSet(waitQueue') = ToSet(waitQueue) \cup {t}
  BY <1>2, <1>3
<1> QED
  BY <1>4 DEF QueueStep, Queued

\* The head of a queue that is not empty.
LEMMA HeadStep ==
  ASSUME QueueOK, waitQueue # <<>>, LeaveQueue(1)
  PROVE  /\ Head(waitQueue) \in Queued
         /\ QueueStep(Queued \ {Head(waitQueue)})
<1>1. 1 \in DOMAIN waitQueue /\ Head(waitQueue) = waitQueue[1]
  BY EmptySeq, LenProperties DEF QueueOK
<1>2. Head(waitQueue) \in Queued
  BY <1>1 DEF Queued, ToSet
<1> QED
  BY <1>1, <1>2, LeaveQueueStep

LEMMA QueuedThreads ==
  ASSUME QueueOK
  PROVE  Queued \subseteq Threads
BY LenProperties, ElementOfSeq DEF QueueOK, Queued, ToSet

\* An empty queue is one without threads.
LEMMA EmptyQueue ==
  ASSUME NEW S, NEW q \in Seq(S)
  PROVE  q = <<>> <=> ToSet(q) = {}
<1>1. /\ Len(q) \in Nat /\ DOMAIN q = 1 .. Len(q)
      /\ q = <<>> <=> Len(q) = 0
  BY EmptySeq, LenProperties
<1>2. ASSUME Len(q) = 0 PROVE ToSet(q) = {}
  BY <1>1, <1>2 DEF ToSet
<1>3. ASSUME Len(q) # 0 PROVE q[1] \in ToSet(q)
  <2>1. 1 \in DOMAIN q
    BY <1>1, <1>3
  <2> QED
    BY <2>1 DEF ToSet
<1> QED
  BY <1>1, <1>2, <1>3

(***************************************************************************)
(* The steps of a call that touch no reference                             *)
(***************************************************************************)
LEMMA RefsKept ==
  ASSUME Inv, UNCHANGED lifeVars, NEW t \in Threads,
         pc[t] \notin {"out", "deallocPort", "dropCreation"},
         NEW p \in PCs \ {"out", "deallocPort", "dropCreation"},
         pc' = [pc EXCEPT ![t] = p]
  PROVE  RefsBalanced' /\ DestroyOK'
<1>1. Callers' = Callers /\ Destroyers' = Destroyers
  BY DEF Inv, TypeOK, Callers, Destroyers
<1>2. Creation' = Creation
  BY DEF Inv, TypeOK, Creation, lifeVars
<1>3. RefsBalanced'
  BY <1>1, <1>2 DEF Inv, RefsBalanced, lifeVars
<1>4. \A u \in Destroyers : pc'[u] = pc[u]
  BY DEF Inv, TypeOK, Destroyers
<1> QED
  BY <1>1, <1>3, <1>4 DEF Inv, DestroyOK, lifeVars

LEMMA PcType ==
  ASSUME Inv, NEW t \in Threads, NEW p \in PCs, pc' = [pc EXCEPT ![t] = p]
  PROVE  /\ pc' \in [Threads -> PCs] /\ pc'[t] = p
         /\ \A u \in Threads \ {t} : pc'[u] = pc[u]
BY DEF Inv, TypeOK

LEMMA WaitStep ==
  ASSUME Inv, NEW t \in Threads, SemaphoreWait(t)
  PROVE  Inv'
<1> USE DEF GoTo, Return
<1>1. PICK p \in {"leave", "blocked"} :
        /\ pc[t] \in {"wait", "try"} /\ pc' = [pc EXCEPT ![t] = p]
        /\ UNCHANGED lifeVars
  BY DEF SemaphoreWait
<1>2. p \in PCs /\ p \notin {"out", "deallocPort", "dropCreation"}
  BY DEF PCs
<1>3. RefsBalanced' /\ DestroyOK'
  BY <1>1, <1>2, RefsKept
<1>4. /\ pc' \in [Threads -> PCs] /\ pc'[t] = p
      /\ \A u \in Threads \ {t} : pc'[u] = pc[u]
  BY <1>1, <1>2, PcType
<1>5. t \notin Queued /\ Queued \subseteq Threads
  BY <1>1, QueuedThreads DEF Inv, QueueOK
<1>6. CASE pc'[t] = "leave"
  <2>1. UNCHANGED waitQueue /\ pc[t] \in {"wait", "try"}
    BY <1>1, <1>4, <1>6 DEF SemaphoreWait, Inv, TypeOK
  <2>2. PICK r \in {"success", "terminated", "timed_out"} :
          result' = [result EXCEPT ![t] = r]
    BY <1>1, <1>4, <1>6 DEF SemaphoreWait, Inv, TypeOK
  <2>3. /\ count' \in -1 .. MaxCount /\ active' = active
        /\ count < 0 => count' < 0
    BY <1>1, SemaphoreAssumption DEF SemaphoreWait, Inv, TypeOK, lifeVars
  <2>4. QueueStep(Queued)
    BY <2>1, KeepQueueStep DEF Inv
  <2>5. TypeOK'
    BY <1>1, <1>4, <2>2, <2>3, <2>4
       DEF Inv, TypeOK, QueueStep, WaitResults, Returns, lifeVars
  <2>6. WaitersCounted'
    BY <2>1, <2>3 DEF Inv, WaitersCounted
  <2>7. QueueOK'
    BY <1>4, <1>5, <2>4 DEF Inv, QueueOK, QueueStep
  <2>8. ResultOK'
    BY <1>4, <1>5, <1>6, <2>2, <2>3, <2>4
       DEF Inv, ResultOK, QueueStep, TypeOK, Calls
  <2> QED
    BY <1>3, <2>5, <2>6, <2>7, <2>8 DEF Inv
<1>7. CASE pc'[t] = "blocked"
  <2>1. /\ active /\ count' = -1 /\ result' = [result EXCEPT ![t] = "none"]
        /\ waitQueue' = IF t \in Privileged THEN <<t>> \o waitQueue
                                             ELSE Append(waitQueue, t)
    BY <1>4, <1>7 DEF SemaphoreWait, Inv, TypeOK
  <2>2. QueueStep(Queued \cup {t})
    BY <1>1, <2>1, JoinStep DEF Inv
  <2>3. TypeOK'
    BY <1>1, <1>4, <2>1, <2>2, SemaphoreAssumption
       DEF Inv, TypeOK, QueueStep, WaitResults, lifeVars
  <2>4. WaitersCounted'
    BY <1>1, <2>1 DEF WaitersCounted, lifeVars
  <2>5. QueueOK'
    BY <1>4, <1>5, <1>7, <2>2 DEF Inv, QueueOK, QueueStep
  <2>6. ResultOK'
    BY <1>1, <1>4, <1>7, <2>1, <2>2
       DEF Inv, ResultOK, QueueStep, TypeOK, Calls, lifeVars
  <2> QED
    BY <1>3, <2>3, <2>4, <2>5, <2>6 DEF Inv
<1> QED
  BY <1>1, <1>4, <1>6, <1>7

(***************************************************************************)
(* The steps that wake threads                                             *)
(***************************************************************************)
\* The threads of W, which may be none, leave the queue with result r; the
\* calls that move on by the same step had no result so far.
LEMMA WakeStep ==
  ASSUME Inv, NEW W \in SUBSET Queued,
         NEW r \in {"awakened", "restart", "interrupted", "timed_out"},
         QueueStep(Queued \ W), GoLocked(W, r),
         active' => active /\ r # "restart",
         pc' \in [Threads -> PCs],
         \A u \in Threads : pc'[u] # pc[u] =>
           /\ pc[u] \in Calls /\ result[u] = "none"
           /\ pc'[u] \in {"leave", "deallocPort"}
  PROVE  /\ result' \in [Threads -> WaitResults \cup Returns]
         /\ QueueOK' /\ ResultOK'
<1>1. Queued \subseteq Threads /\ Queued' = Queued \ W
  BY QueuedThreads DEF Inv, QueueStep
<1>2. result' \in [Threads -> WaitResults \cup Returns]
  BY DEF Inv, TypeOK, GoLocked, WaitResults
<1>3. "blocked" \notin Calls
  BY DEF Calls
<1>4. QueueOK'
  BY <1>1, <1>3 DEF Inv, QueueOK, QueueStep
<1>5. ASSUME NEW u \in Threads, u \in W
      PROVE  result'[u] = r /\ pc'[u] = "blocked" /\ u \notin Queued'
  BY <1>1, <1>3, <1>5 DEF GoLocked, Inv, QueueOK
<1>6. ASSUME NEW u \in Threads, u \notin W
      PROVE  result'[u] = result[u] /\ (u \in Queued' <=> u \in Queued)
  BY <1>1, <1>6 DEF GoLocked
<1>7. ASSUME NEW u \in Threads, u \in W
      PROVE  /\ ~(u \in Queued') /\ result'[u] \in {"awakened", "restart", "interrupted", "timed_out"}
             /\ pc'[u] \notin Calls
             /\ pc'[u] \notin {"out", "deallocPort", "dropCreation"}
             /\ result'[u] = "restart" => ~active'
  BY <1>3, <1>5, <1>7
<1>8. ASSUME NEW u \in Threads, u \notin W
      PROVE  /\ u \in Queued' => result'[u] = "none"
             /\ pc'[u] = "blocked" /\ u \notin Queued' =>
                  result'[u] \in {"awakened", "restart", "interrupted", "timed_out"}
             /\ pc'[u] \in Calls => \/ result'[u] = "none"
                                    \/ pc'[u] = "wait" /\ result'[u] = "restart"
             /\ pc'[u] \in {"out", "deallocPort", "dropCreation"} =>
                  result'[u] = "none"
             /\ result'[u] = "restart" => ~active'
  <2>1. CASE pc'[u] = pc[u]
    BY <1>6, <1>8, <2>1 DEF Inv, ResultOK
  <2>2. CASE pc'[u] # pc[u]
    BY <1>6, <1>8, <2>2 DEF Inv, ResultOK, Calls
  <2> QED
    BY <2>1, <2>2
<1>9. ResultOK'
  BY <1>7, <1>8 DEF ResultOK
<1> QED
  BY <1>2, <1>4, <1>9

\* Nobody is woken.
LEMMA WakeNobody ==
  ASSUME Inv, UNCHANGED <<waitQueue, result>>
  PROVE  QueueStep(Queued \ {}) /\ \A r : GoLocked({}, r)
<1>1. QueueStep(Queued)
  BY KeepQueueStep DEF Inv
<1>2. result = [t \in Threads |-> result[t]]
  BY DEF Inv, TypeOK
<1> QED
  BY <1>1, <1>2 DEF GoLocked

LEMMA WakeupAllWakes ==
  ASSUME Inv, NEW r, WakeupAll(r)
  PROVE  \E W \in SUBSET Queued :
           QueueStep(Queued \ W) /\ GoLocked(W, r) /\ (count < 0 => W = Queued)
<1>1. QueueStep(IF count < 0 THEN {} ELSE Queued)
  BY WakeupAllStep DEF Inv
<1>2. CASE count < 0
  <2>1. QueueStep(Queued \ Queued) /\ GoLocked(Queued, r)
    BY <1>1, <1>2 DEF WakeupAll
  <2> QED
    BY <2>1
<1>3. CASE ~(count < 0)
  <2>1. QueueStep(Queued \ {}) /\ GoLocked({}, r)
    BY <1>3, WakeNobody DEF WakeupAll
  <2> QED
    BY <1>3, <2>1
<1> QED
  BY <1>2, <1>3

\* A call that wakes threads and touches neither the references nor active.
LEMMA SignalStep ==
  ASSUME Inv, NEW t \in Threads,
         pc[t] \in {"signal", "signalThread", "signalAll"},
         pc' = [pc EXCEPT ![t] = "leave"], UNCHANGED lifeVars,
         NEW W \in SUBSET Queued,
         QueueStep(Queued \ W), GoLocked(W, "awakened"),
         count' \in -1 .. MaxCount, Queued \ W # {} => count' < 0
  PROVE  Inv'
<1>1. "leave" \in PCs
  BY DEF PCs
<1>2. /\ pc' \in [Threads -> PCs] /\ pc'[t] = "leave"
      /\ \A u \in Threads \ {t} : pc'[u] = pc[u]
  BY <1>1, PcType
<1>3. pc[t] \in Calls /\ result[t] = "none"
  BY DEF Inv, ResultOK, Calls
<1>4. active' = active
  BY DEF lifeVars
<1>5. /\ result' \in [Threads -> WaitResults \cup Returns]
      /\ QueueOK' /\ ResultOK'
  BY <1>2, <1>3, <1>4, WakeStep
<1>6. RefsBalanced' /\ DestroyOK'
  BY <1>1, RefsKept
<1>7. TypeOK'
  BY <1>2, <1>5 DEF Inv, TypeOK, lifeVars, QueueStep
<1>8. WaitersCounted'
  <2>1. waitQueue' # <<>> => Queued' # {}
    BY <1>5, EmptyQueue DEF QueueOK, Queued
  <2>2. waitQueue' # <<>> => Queued # {} /\ count' < 0
    BY <2>1 DEF QueueStep
  <2>3. Queued # {} => active
    BY EmptyQueue DEF Inv, WaitersCounted, QueueOK, Queued
  <2> QED
    BY <1>4, <2>2, <2>3 DEF WaitersCounted
<1> QED
  BY <1>5, <1>6, <1>7, <1>8 DEF Inv

LEMMA SemaphoreSignalStep ==
  ASSUME Inv, NEW t \in Threads, SemaphoreSignal(t)
  PROVE  Inv'
<1>1. /\ pc[t] = "signal" /\ pc' = [pc EXCEPT ![t] = "leave"]
      /\ UNCHANGED lifeVars
  BY DEF SemaphoreSignal, GoTo
<1>2. count \in -1 .. MaxCount /\ MaxCount \in Nat \ {0}
  BY SemaphoreAssumption DEF Inv, TypeOK
<1>3. Queued # {} => count < 0
  BY EmptyQueue DEF Inv, WaitersCounted, QueueOK, Queued
<1>4. CASE count < 0 /\ waitQueue # <<>> /\ UNCHANGED count
           /\ GoLocked({Head(waitQueue)}, "awakened") /\ LeaveQueue(1)
  <2>1. {Head(waitQueue)} \in SUBSET Queued
        /\ QueueStep(Queued \ {Head(waitQueue)})
    BY <1>4, HeadStep DEF Inv
  <2> QED
    BY <1>1, <1>2, <1>4, <2>1, SignalStep
<1>5. CASE UNCHANGED <<waitQueue, result>> /\ count' \in -1 .. MaxCount
           /\ (Queued # {} => count' < 0)
  BY <1>1, <1>5, WakeNobody, SignalStep
<1>6. \/ ~active /\ UNCHANGED <<count, waitQueue, result>>
      \/ /\ active /\ count < 0 /\ waitQueue # <<>> /\ UNCHANGED count
         /\ GoLocked({Head(waitQueue)}, "awakened") /\ LeaveQueue(1)
      \/ /\ count' = 1 /\ MaxCount >= 1 /\ waitQueue = <<>>
         /\ UNCHANGED <<waitQueue, result>>
      \/ /\ count \in 0 .. MaxCount - 1 /\ count' = count + 1
         /\ UNCHANGED <<waitQueue, result>>
  BY SemaphoreAssumption DEF SemaphoreSignal
<1>7. waitQueue = <<>> => Queued = {}
  BY EmptyQueue DEF Inv, QueueOK, Queued
<1> QED
  BY <1>2, <1>3, <1>4, <1>5, <1>6, <1>7
LEMMA SignalThreadStep ==
  ASSUME Inv, NEW t \in Threads, SemaphoreSignalThread(t)
  PROVE  Inv'
<1>1. /\ pc[t] = "signalThread" /\ pc' = [pc EXCEPT ![t] = "leave"]
      /\ UNCHANGED lifeVars /\ count' = count /\ count \in -1 .. MaxCount
  BY DEF SemaphoreSignalThread, GoTo, Inv, TypeOK
<1>2. Queued # {} => count < 0
  BY EmptyQueue DEF Inv, WaitersCounted, QueueOK, Queued
<1>3. CASE UNCHANGED <<waitQueue, result>>
  BY <1>1, <1>2, <1>3, WakeNobody, SignalStep
<1>4. ASSUME count < 0, NEW i \in DOMAIN waitQueue,
             GoLocked({waitQueue[i]}, "awakened"), LeaveQueue(i)
      PROVE  Inv'
  <2>1. QueueStep(Queued \ {waitQueue[i]}) /\ {waitQueue[i]} \in SUBSET Queued
    BY <1>4, LeaveQueueStep DEF Inv, Queued, ToSet
  <2> QED
    BY <1>1, <1>4, <2>1, SignalStep
<1> QED
  BY <1>3, <1>4 DEF SemaphoreSignalThread

LEMMA SignalAllStep ==
  ASSUME Inv, NEW t \in Threads, SemaphoreSignalAll(t)
  PROVE  Inv'
<1>1. /\ pc[t] = "signalAll" /\ pc' = [pc EXCEPT ![t] = "leave"]
      /\ UNCHANGED lifeVars /\ count \in -1 .. MaxCount
  BY DEF SemaphoreSignalAll, GoTo, Inv, TypeOK
<1>2. Queued # {} => count < 0 /\ active
  BY EmptyQueue DEF Inv, WaitersCounted, QueueOK, Queued
<1>3. CASE active
  <2>1. count' = 0 /\ WakeupAll("awakened")
    BY <1>3 DEF SemaphoreSignalAll
  <2>2. PICK W \in SUBSET Queued :
          /\ QueueStep(Queued \ W) /\ GoLocked(W, "awakened")
          /\ count < 0 => W = Queued
    BY <2>1, WakeupAllWakes
  <2>3. Queued \ W = {}
    BY <1>2, <2>2
  <2>4. count' \in -1 .. MaxCount
    BY <2>1, SemaphoreAssumption
  <2> QED
    BY <1>1, <2>2, <2>3, <2>4, SignalStep
<1>4. CASE ~active
  <2>1. UNCHANGED <<count, waitQueue, result>>
    BY <1>4 DEF SemaphoreSignalAll
  <2> QED
    BY <1>1, <1>2, <2>1, WakeNobody, SignalStep
<1> QED
  BY <1>3, <1>4

(***************************************************************************)
(* The end of a wait                                                       *)
(***************************************************************************)
LEMMA WaitEndsEarlyStep ==
  ASSUME Inv, NEW t \in Threads, WaitEndsEarly(t)
  PROVE  Inv'
<1>1. UNCHANGED <<count, lifeVars, pc>>
  BY DEF WaitEndsEarly
<1>2. PICK i \in DOMAIN waitQueue : waitQueue[i] = t /\ LeaveQueue(i)
  BY DEF WaitEndsEarly
<1>3. PICK r \in {"timed_out", "interrupted"} : GoLocked({t}, r)
  BY DEF WaitEndsEarly
<1>4. QueueStep(Queued \ {t}) /\ {t} \in SUBSET Queued
  <2>1. QueueStep(Queued \ {t})
    BY <1>2, LeaveQueueStep DEF Inv
  <2>2. t \in Queued
    BY <1>2 DEF Queued, ToSet
  <2> QED
    BY <2>1, <2>2
<1>5. active' = active /\ pc' = pc /\ count' = count
  BY <1>1 DEF lifeVars
<1>6. pc' \in [Threads -> PCs] /\ \A u \in Threads : pc'[u] = pc[u]
  BY <1>5 DEF Inv, TypeOK
<1>7. /\ result' \in [Threads -> WaitResults \cup Returns]
      /\ QueueOK' /\ ResultOK'
  BY <1>3, <1>4, <1>5, <1>6, WakeStep
<1>8. TypeOK'
  BY <1>1, <1>4, <1>6, <1>7 DEF Inv, TypeOK, lifeVars, QueueStep
<1>9. WaitersCounted'
  BY <1>4, <1>5, EmptyQueue DEF Inv, WaitersCounted, QueueOK, Queued
<1>10. RefsBalanced' /\ DestroyOK'
  BY <1>1 DEF Inv, RefsBalanced, DestroyOK, lifeVars, Callers, Creation,
              Destroyers
<1> QED
  BY <1>7, <1>8, <1>9, <1>10 DEF Inv

LEMMA AfterBlockStep ==
  ASSUME Inv, NEW t \in Threads, AfterBlock(t)
  PROVE  Inv'
<1>1. PICK p \in {"wait", "leave"} :
        /\ pc[t] = "blocked" /\ pc' = [pc EXCEPT ![t] = p]
        /\ p = "wait" => result[t] = "restart" /\ UNCHANGED result
  BY DEF AfterBlock, GoTo
<1>2. /\ UNCHANGED <<count, lifeVars, waitQueue>> /\ t \notin Queued
      /\ active' = active
  BY DEF AfterBlock, lifeVars
<1>3. p \in PCs /\ p \notin {"out", "deallocPort", "dropCreation"}
  BY DEF PCs, Calls
<1>4. RefsBalanced' /\ DestroyOK'
  BY <1>1, <1>2, <1>3, RefsKept
<1>5. /\ pc' \in [Threads -> PCs] /\ pc'[t] = p
      /\ \A u \in Threads \ {t} : pc'[u] = pc[u]
  BY <1>1, <1>3, PcType
<1>6. result[t] \in {"awakened", "restart", "interrupted", "timed_out"}
  BY <1>1, <1>2 DEF Inv, ResultOK
<1>7. PICK r \in {"success", "aborted", "timed_out", "restart"} :
        /\ result' = [result EXCEPT ![t] = r]
        /\ p = "wait" <=> r = "restart"
  <2>1. CASE p = "wait"
    BY <1>1, <2>1 DEF Inv, TypeOK
  <2>2. CASE p = "leave"
    <3>1. /\ result[t] # "restart"
          /\ Return(t, CASE result[t] = "awakened" -> "success"
                         [] result[t] = "interrupted" -> "aborted"
                         [] OTHER -> result[t])
      BY <1>1, <1>5, <2>2 DEF AfterBlock, GoTo, Inv, TypeOK
    <3> QED
      BY <1>6, <2>2, <3>1 DEF Return
  <2> QED
    BY <2>1, <2>2
<1>8. QueueStep(Queued)
  BY <1>2, KeepQueueStep DEF Inv
<1>9. TypeOK'
  BY <1>2, <1>5, <1>7, <1>8
     DEF Inv, TypeOK, lifeVars, QueueStep, WaitResults, Returns
<1>10. WaitersCounted'
  BY <1>2 DEF Inv, WaitersCounted
<1>11. QueueOK'
  BY <1>2, <1>5, <1>8, QueuedThreads DEF Inv, QueueOK, QueueStep
<1>12. ResultOK'
  <2>1. p = "wait" => ~active
    BY <1>1 DEF Inv, ResultOK
  <2>2. p # "wait" => p \notin Calls /\ p # "blocked"
    BY DEF Calls
  <2>3. result'[t] = r /\ \A u \in Threads \ {t} : result'[u] = result[u]
    BY <1>7 DEF Inv, TypeOK
  <2>4. \A u \in Threads : u \in Queued' <=> u \in Queued
    BY <1>8 DEF QueueStep
  <2> QED
    BY <1>2, <1>3, <1>5, <1>7, <2>1, <2>2, <2>3, <2>4 DEF Inv, ResultOK
<1> QED
  BY <1>4, <1>9, <1>10, <1>11, <1>12 DEF Inv
(***************************************************************************)
(* The steps of a reference and of the destruction                         *)
(***************************************************************************)
LEMMA CallersFinite ==
  IsFiniteSet(Callers) /\ Cardinality(Callers) \in Nat
<1>1. IsFiniteSet(Callers)
  BY SemaphoreAssumption, FS_Subset DEF Callers
<1> QED
  BY <1>1, FS_CardinalityType

\* A step of a thread that is not blocked, and of nobody's queue or wait.
LEMMA OwnStep ==
  ASSUME Inv, NEW t \in Threads, pc[t] # "blocked",
         NEW p \in PCs \ {"blocked"}, pc' = [pc EXCEPT ![t] = p],
         UNCHANGED <<waitQueue, count, active>>,
         NEW r \in {"none", result[t]}, result' = [result EXCEPT ![t] = r],
         p \in Calls \cup {"out", "deallocPort", "dropCreation"} =>
           r = "none"
  PROVE  /\ result' \in [Threads -> WaitResults \cup Returns]
         /\ QueueStep(Queued) /\ WaitersCounted' /\ QueueOK' /\ ResultOK'
<1>1. /\ pc' \in [Threads -> PCs] /\ pc'[t] = p
      /\ \A u \in Threads \ {t} : pc'[u] = pc[u]
  BY PcType
<1>2. t \notin Queued /\ Queued \subseteq Threads
  BY QueuedThreads DEF Inv, QueueOK
<1>3. QueueStep(Queued)
  BY KeepQueueStep DEF Inv
<1>4. WaitersCounted'
  BY DEF Inv, WaitersCounted
<1>5. QueueOK'
  BY <1>1, <1>2, <1>3 DEF Inv, QueueOK, QueueStep
<1>6. result' \in [Threads -> WaitResults \cup Returns]
  BY DEF Inv, TypeOK, WaitResults
<1>7. result'[t] = r /\ \A u \in Threads \ {t} : result'[u] = result[u]
  BY DEF Inv, TypeOK
<1>8. ResultOK'
  BY <1>1, <1>2, <1>3, <1>7 DEF Inv, ResultOK, QueueStep
<1> QED
  BY <1>3, <1>4, <1>5, <1>6, <1>8

LEMMA ConvertPortStep ==
  ASSUME Inv, NEW t \in Threads, ConvertPort(t)
  PROVE  Inv'
<1>1. PICK p \in Calls : pc[t] = "out" /\ pc' = [pc EXCEPT ![t] = p]
  BY DEF ConvertPort, GoTo
<1>2. /\ portActive /\ refCount' = refCount + 1
      /\ UNCHANGED <<count, active, portActive, freed, waitQueue, result>>
  BY DEF ConvertPort
<1>3. /\ p \in PCs
      /\ p \notin {"blocked", "out", "deallocPort", "dropCreation"}
  BY DEF PCs, Calls
<1>4. /\ pc' \in [Threads -> PCs] /\ pc'[t] = p
      /\ \A u \in Threads \ {t} : pc'[u] = pc[u]
  BY <1>1, <1>3, PcType
<1>5. result[t] = "none" /\ result' = [result EXCEPT ![t] = "none"]
  BY <1>1, <1>2 DEF Inv, ResultOK, TypeOK
<1>6. /\ result' \in [Threads -> WaitResults \cup Returns]
      /\ QueueStep(Queued) /\ WaitersCounted' /\ QueueOK' /\ ResultOK'
  BY <1>1, <1>2, <1>3, <1>5, OwnStep
<1>7. TypeOK'
  BY <1>2, <1>4, <1>6 DEF Inv, TypeOK, QueueStep
<1>8. Destroyers' = Destroyers /\ \A u \in Destroyers : pc'[u] = pc[u]
  BY <1>1, <1>3, <1>4 DEF Destroyers
<1>9. DestroyOK'
  BY <1>2, <1>8 DEF Inv, DestroyOK
<1>10. RefsBalanced'
  <2>1. Callers' = Callers \cup {t} /\ t \notin Callers
    BY <1>1, <1>3, <1>4 DEF Callers
  <2>2. Cardinality(Callers') = Cardinality(Callers) + 1
    BY <2>1, CallersFinite, FS_AddElement
  <2>3. Creation /\ Creation'
    BY <1>2, <1>8 DEF Inv, DestroyOK, Creation, Destroyers
  <2>4. refCount = Cardinality(Callers) + 1 /\ (freed <=> refCount = 0)
    BY <2>3 DEF Inv, RefsBalanced
  <2>5. refCount' = Cardinality(Callers') + 1 /\ refCount # 0 /\ refCount' # 0
    BY <1>2, <2>2, <2>4, CallersFinite
  <2> QED
    BY <1>2, <2>3, <2>4, <2>5 DEF RefsBalanced
<1> QED
  BY <1>6, <1>7, <1>9, <1>10 DEF Inv

LEMMA DereferenceStep ==
  ASSUME Inv, NEW t \in Threads, SemaphoreDereference(t)
  PROVE  Inv'
<1>1. /\ refCount' = refCount - 1 /\ (freed' = (freed \/ refCount' = 0))
      /\ UNCHANGED <<count, active, portActive, waitQueue>>
  BY DEF SemaphoreDereference
<1>2. refCount \in Int /\ Cardinality(Callers) \in Nat
  BY CallersFinite DEF Inv, TypeOK
<1>3. CASE GoTo(t, "leave", "out") /\ result' = [result EXCEPT ![t] = "none"]
  <2>1. /\ pc[t] = "leave" /\ pc' = [pc EXCEPT ![t] = "out"]
        /\ "out" \in PCs \ {"blocked"}
    BY <1>3 DEF GoTo, PCs
  <2>2. /\ pc' \in [Threads -> PCs] /\ pc'[t] = "out"
        /\ \A u \in Threads \ {t} : pc'[u] = pc[u]
    BY <2>1, PcType
  <2>3. /\ result' \in [Threads -> WaitResults \cup Returns]
        /\ QueueStep(Queued) /\ WaitersCounted' /\ QueueOK' /\ ResultOK'
    BY <1>1, <1>3, <2>1, OwnStep
  <2>4. Destroyers' = Destroyers /\ \A u \in Destroyers : pc'[u] = pc[u]
    BY <2>1, <2>2 DEF Destroyers
  <2>5. DestroyOK'
    BY <1>1, <2>4 DEF Inv, DestroyOK
  <2>6. Callers' = Callers \ {t} /\ t \in Callers
    BY <2>1, <2>2 DEF Callers
  <2>7. Cardinality(Callers') = Cardinality(Callers) - 1
    BY <2>6, CallersFinite, FS_RemoveElement
  <2>8. Cardinality(Callers) # 0
    BY <2>6, CallersFinite, FS_EmptySet
  <2>9. Creation' = Creation
    BY <1>1, <2>1, <2>2 DEF Creation
  <2>10. RefsBalanced' /\ freed' \in BOOLEAN
    <3>1. refCount = Cardinality(Callers) + (IF Creation THEN 1 ELSE 0)
      BY DEF Inv, RefsBalanced
    <3>2. refCount # 0
      BY <1>2, <2>8, <3>1
    <3>3. ~freed
      BY <3>2 DEF Inv, RefsBalanced
    <3>4. freed' <=> refCount' = 0
      BY <1>1, <3>3
    <3>5. refCount' = Cardinality(Callers') + (IF Creation' THEN 1 ELSE 0)
      BY <1>1, <1>2, <2>7, <2>9, <3>1
    <3>6. freed' \in BOOLEAN
      BY <1>1, <3>3, Zenon
    <3> QED
      BY <3>4, <3>5, <3>6 DEF RefsBalanced
  <2>11. TypeOK'
    BY <1>1, <1>2, <2>2, <2>3, <2>10 DEF Inv, TypeOK, QueueStep
  <2> QED
    BY <2>3, <2>5, <2>10, <2>11 DEF Inv
<1>4. CASE GoTo(t, "dropCreation", "leave") /\ UNCHANGED result
  <2>1. /\ pc[t] = "dropCreation" /\ pc' = [pc EXCEPT ![t] = "leave"]
        /\ "leave" \in PCs \ {"blocked"}
        /\ "leave" \notin Calls \cup {"out", "deallocPort", "dropCreation"}
    BY <1>4 DEF GoTo, PCs, Calls
  <2>2. /\ pc' \in [Threads -> PCs] /\ pc'[t] = "leave"
        /\ \A u \in Threads \ {t} : pc'[u] = pc[u]
    BY <2>1, PcType
  <2>3. result' = [result EXCEPT ![t] = result[t]]
    BY <1>4 DEF Inv, TypeOK
  <2>4. /\ result' \in [Threads -> WaitResults \cup Returns]
        /\ QueueStep(Queued) /\ WaitersCounted' /\ QueueOK' /\ ResultOK'
    BY <1>1, <2>1, <2>3, OwnStep
  <2>5. t \in Destroyers /\ Destroyers' = Destroyers \ {t}
    BY <2>1, <2>2 DEF Destroyers
  <2>6. Destroyers' = {} /\ ~active /\ ~portActive
    BY <2>1, <2>5 DEF Inv, DestroyOK
  <2>7. DestroyOK'
    BY <1>1, <2>6 DEF DestroyOK
  <2>8. Callers' = Callers
    BY <2>1, <2>2 DEF Callers
  <2>9. Creation /\ ~Creation'
    BY <1>1, <2>1, <2>6 DEF Creation, Destroyers
  <2>10. RefsBalanced' /\ freed' \in BOOLEAN
    <3>1. refCount = Cardinality(Callers) + 1
      BY <2>9 DEF Inv, RefsBalanced
    <3>2. ~freed
      BY <1>2, <3>1 DEF Inv, RefsBalanced
    <3>3. freed' <=> refCount' = 0
      BY <1>1, <3>2
    <3>4. refCount' = Cardinality(Callers') + 0
      BY <1>1, <1>2, <2>8, <3>1
    <3>5. freed' \in BOOLEAN
      BY <1>1, <3>2, Zenon
    <3> QED
      BY <2>9, <3>3, <3>4, <3>5 DEF RefsBalanced
  <2>11. TypeOK'
    BY <1>1, <1>2, <2>2, <2>4, <2>10 DEF Inv, TypeOK, QueueStep
  <2> QED
    BY <2>4, <2>7, <2>10, <2>11 DEF Inv
<1> QED
  BY <1>3, <1>4 DEF SemaphoreDereference
LEMMA DeallocPortStep ==
  ASSUME Inv, NEW t \in Threads, DeallocPort(t)
  PROVE  Inv'
<1>1. /\ pc[t] = "deallocPort" /\ pc' = [pc EXCEPT ![t] = "dropCreation"]
      /\ portActive' = FALSE
      /\ UNCHANGED <<count, active, refCount, freed, waitQueue, result>>
      /\ "dropCreation" \in PCs \ {"blocked"}
  BY DEF DeallocPort, GoTo, PCs
<1>2. /\ pc' \in [Threads -> PCs] /\ pc'[t] = "dropCreation"
      /\ \A u \in Threads \ {t} : pc'[u] = pc[u]
  BY <1>1, PcType
<1>3. result[t] = "none" /\ result' = [result EXCEPT ![t] = "none"]
  BY <1>1 DEF Inv, ResultOK, TypeOK
<1>4. /\ result' \in [Threads -> WaitResults \cup Returns]
      /\ QueueStep(Queued) /\ WaitersCounted' /\ QueueOK' /\ ResultOK'
  BY <1>1, <1>3, OwnStep
<1>5. Destroyers' = Destroyers /\ Callers' = Callers /\ Creation /\ Creation'
  BY <1>1, <1>2 DEF Destroyers, Callers, Creation
<1>6. RefsBalanced' /\ DestroyOK'
  BY <1>1, <1>5 DEF Inv, RefsBalanced, DestroyOK
<1>7. TypeOK'
  BY <1>1, <1>2, <1>4 DEF Inv, TypeOK, QueueStep
<1> QED
  BY <1>4, <1>6, <1>7 DEF Inv

LEMMA DestroyStep ==
  ASSUME Inv, NEW t \in Threads, SemaphoreDestroy(t)
  PROVE  Inv'
<1>1. pc[t] = "destroy" /\ UNCHANGED <<refCount, portActive, freed>>
  BY DEF SemaphoreDestroy, GoTo
<1>2. result[t] = "none" /\ pc[t] \in Calls
  BY <1>1 DEF Inv, ResultOK, Calls
<1>3. CASE ~active /\ GoTo(t, "destroy", "leave")
           /\ UNCHANGED <<count, active, waitQueue, result>>
  <2>1. "leave" \in PCs \ {"blocked", "out", "deallocPort", "dropCreation"}
        /\ "leave" \notin Calls
    BY DEF PCs, Calls
  <2>2. pc' = [pc EXCEPT ![t] = "leave"]
    BY <1>3 DEF GoTo
  <2>3. pc' \in [Threads -> PCs]
    BY <2>1, <2>2, PcType
  <2>4. result' = [result EXCEPT ![t] = "none"]
    BY <1>2, <1>3 DEF Inv, TypeOK
  <2>5. /\ result' \in [Threads -> WaitResults \cup Returns]
        /\ QueueStep(Queued) /\ WaitersCounted' /\ QueueOK' /\ ResultOK'
    BY <1>1, <1>3, <2>1, <2>2, <2>4, OwnStep
  <2>6. RefsBalanced' /\ DestroyOK'
    BY <1>1, <1>3, <2>1, <2>2, RefsKept DEF lifeVars
  <2>7. TypeOK'
    BY <1>1, <1>3, <2>3, <2>5 DEF Inv, TypeOK, QueueStep
  <2> QED
    BY <2>5, <2>6, <2>7 DEF Inv
<1>4. CASE active /\ GoTo(t, "destroy", "deallocPort")
           /\ active' = FALSE /\ count' = 0 /\ WakeupAll("restart")
  <2>1. "deallocPort" \in PCs /\ pc' = [pc EXCEPT ![t] = "deallocPort"]
    BY <1>4 DEF GoTo, PCs
  <2>2. /\ pc' \in [Threads -> PCs] /\ pc'[t] = "deallocPort"
        /\ \A u \in Threads \ {t} : pc'[u] = pc[u]
    BY <2>1, PcType
  <2>3. Queued # {} => count < 0
    BY EmptyQueue DEF Inv, WaitersCounted, QueueOK, Queued
  <2>4. PICK W \in SUBSET Queued :
          /\ QueueStep(Queued \ W) /\ GoLocked(W, "restart")
          /\ count < 0 => W = Queued
    BY <1>4, WakeupAllWakes
  <2>5. /\ result' \in [Threads -> WaitResults \cup Returns]
        /\ QueueOK' /\ ResultOK'
    BY <1>2, <1>4, <2>2, <2>4, WakeStep
  <2>6. Queued' = {}
    BY <2>3, <2>4 DEF QueueStep
  <2>7. WaitersCounted'
    BY <2>5, <2>6, EmptyQueue DEF WaitersCounted, QueueOK, Queued
  <2>8. Destroyers = {} /\ Destroyers' = {t}
    BY <1>1, <1>4, <2>2 DEF Inv, DestroyOK, Destroyers
  <2>9. DestroyOK'
    BY <1>4, <2>2, <2>8 DEF DestroyOK
  <2>10. Callers' = Callers /\ Creation /\ Creation'
    BY <1>1, <1>4, <2>2 DEF Callers, Creation
  <2>11. RefsBalanced'
    BY <1>1, <2>10 DEF Inv, RefsBalanced
  <2>12. TypeOK'
    <3>1. count' \in -1 .. MaxCount
      BY <1>4, SemaphoreAssumption
    <3>2. active' \in BOOLEAN
      BY <1>4
    <3> QED
      BY <1>1, <2>2, <2>4, <2>5, <3>1, <3>2 DEF Inv, TypeOK, QueueStep
  <2> QED
    BY <2>5, <2>7, <2>9, <2>11, <2>12 DEF Inv
<1> QED
  BY <1>3, <1>4 DEF SemaphoreDestroy

LEMMA InvNext == Inv /\ [Next]_vars => Inv'
<1> SUFFICES ASSUME Inv, [Next]_vars PROVE Inv'
  OBVIOUS
<1>1. ASSUME NEW t \in Threads, ConvertPort(t) PROVE Inv'
  BY <1>1, ConvertPortStep
<1>2. ASSUME NEW t \in Threads, WaitEndsEarly(t) PROVE Inv'
  BY <1>2, WaitEndsEarlyStep
<1>3. ASSUME NEW t \in Threads, Advance(t) PROVE Inv'
  BY <1>3, WaitStep, AfterBlockStep, SemaphoreSignalStep, SignalThreadStep,
     SignalAllStep, DestroyStep, DeallocPortStep, DereferenceStep DEF Advance
<1>4. CASE UNCHANGED vars
  BY <1>4 DEF vars, Inv, TypeOK, WaitersCounted, RefsBalanced, QueueOK,
              DestroyOK, ResultOK, Queued, Callers, Creation, Destroyers
<1> QED
  BY <1>1, <1>2, <1>3, <1>4 DEF Next

\* Every reachable state of the semaphore satisfies the invariant.
THEOREM Invariance == Spec => []Inv
<1> QED
  BY InvInit, InvNext, PTL DEF Spec

\* The fields of the semaphore keep to their values, signals up to MaxCount.
THEOREM TypeCorrect == Spec => []TypeOK
<1>1. Inv => TypeOK
  BY DEF Inv
<1> QED
  BY <1>1, Invariance, PTL

\* A thread waits only while the count is negative and the semaphore lives, so
\* that no signal, signal_all or destruction passes it by.
THEOREM WaitersCorrect == Spec => []WaitersCounted
<1>1. Inv => WaitersCounted
  BY DEF Inv
<1> QED
  BY <1>1, Invariance, PTL

\* Every call under way holds a reference, and the structure is freed when the
\* last reference is dropped, for any number of threads in any calls.
THEOREM ReferencesCorrect == Spec => []RefsBalanced
<1>1. Inv => RefsBalanced
  BY DEF Inv
<1> QED
  BY <1>1, Invariance, PTL
(***************************************************************************)
(* The semaphore implements CountingSemaphore                              *)
(***************************************************************************)
\* Each call stands, abstractly, where Call says it does.
LEMMA CallsBecome ==
  ASSUME NEW t, NEW c, NEW W, NEW o,
         \A u \in Threads : Call(u)' = IF u = t THEN c
                                        ELSE IF u \in W THEN o ELSE Call(u)
  PROVE  CS!Becomes(t, c, W, o)
BY DEF CS!Becomes

LEMMA CallKept ==
  ASSUME NEW u, u \in Queued' <=> u \in Queued, result'[u] = result[u],
         pc'[u] = pc[u]
  PROVE  Call(u)' = Call(u)
BY DEF Call

LEMMA WaitingIsQueued == Inv => CS!Waiting = Queued
<1> SUFFICES ASSUME Inv PROVE CS!Waiting = Queued
  OBVIOUS
<1>1. Queued \subseteq Threads
  BY QueuedThreads DEF Inv
<1>2. ASSUME NEW t \in Threads, t \notin Queued PROVE Call(t) # "waiting"
  <2>1. result[t] \in WaitResults \cup Returns
    BY DEF Inv, TypeOK
  <2>2. result[t] # "none" => Outcome[result[t]] # "waiting"
    BY <2>1 DEF WaitResults, Returns, Outcome
  <2>3. "waiting" \notin Calls
    BY DEF Calls
  <2> QED
    BY <1>2, <2>2, <2>3 DEF Call
<1>3. \A t \in Queued : Call(t) = "waiting"
  BY DEF Call
<1> QED
  BY <1>1, <1>2, <1>3 DEF CS!Waiting

\* The threads of W are woken by t, whose own call has no result.
LEMMA WakeCalls ==
  ASSUME Inv, NEW t \in Threads, pc[t] \in Calls, result[t] = "none",
         NEW p \in PCs, p \notin Calls, pc' = [pc EXCEPT ![t] = p],
         NEW W \in SUBSET Queued,
         NEW r \in {"awakened", "restart", "interrupted", "timed_out"},
         QueueStep(Queued \ W), GoLocked(W, r)
  PROVE  /\ Call(t) = pc[t]
         /\ CS!Becomes(t, "none", W, Outcome[r])
<1>1. /\ pc' \in [Threads -> PCs] /\ pc'[t] = p
      /\ \A u \in Threads \ {t} : pc'[u] = pc[u]
  BY PcType
<1>2. t \notin Queued /\ Queued \subseteq Threads
  BY QueuedThreads DEF Inv, QueueOK, Calls
<1>3. Queued' = Queued \ W
  BY DEF QueueStep
<1>4. Call(t) = pc[t]
  BY <1>2 DEF Call
<1>5. Call(t)' = "none"
  <2>1. result'[t] = "none"
    BY <1>2 DEF GoLocked
  <2> QED
    BY <1>1, <1>2, <1>3, <2>1 DEF Call
<1>6. ASSUME NEW u \in Threads \ {t}, u \in W PROVE Call(u)' = Outcome[r]
  <2>1. result'[u] = r /\ r # "none" /\ u \notin Queued'
    BY <1>3, <1>6 DEF GoLocked
  <2> QED
    BY <2>1 DEF Call
<1>7. ASSUME NEW u \in Threads \ {t}, u \notin W PROVE Call(u)' = Call(u)
  <2>1. result'[u] = result[u]
    BY <1>7 DEF GoLocked
  <2> QED
    BY <1>1, <1>3, <1>7, <2>1, CallKept
<1>8. \A u \in Threads : Call(u)' = IF u = t THEN "none"
                         ELSE IF u \in W THEN Outcome[r] ELSE Call(u)
  BY <1>5, <1>6, <1>7
<1> QED
  BY <1>4, <1>8, CallsBecome

\* A step of t alone.
LEMMA OwnCall ==
  ASSUME Inv, NEW t \in Threads, NEW p \in PCs, pc' = [pc EXCEPT ![t] = p],
         NEW r, result' = [result EXCEPT ![t] = r],
         Queued' \ {t} = Queued \ {t}
  PROVE  /\ pc'[t] = p /\ result'[t] = r
         /\ CS!Becomes(t, Call(t)', {}, "none")
<1>1. pc'[t] = p /\ \A u \in Threads \ {t} : pc'[u] = pc[u]
  BY PcType
<1>2. result'[t] = r /\ \A u \in Threads \ {t} : result'[u] = result[u]
  BY DEF Inv, TypeOK
<1>3. \A u \in Threads \ {t} : Call(u)' = Call(u)
  BY <1>1, <1>2, CallKept
<1> QED
  BY <1>1, <1>2, <1>3, CallsBecome

\* A step that leaves every call where it stood.
LEMMA Stutter ==
  ASSUME UNCHANGED <<count, active>>, \A u \in Threads : Call(u)' = Call(u)
  PROVE  UNCHANGED CS!vars
BY DEF CS!vars
LEMMA ConvertPortRefines ==
  ASSUME Inv, NEW t \in Threads, ConvertPort(t)
  PROVE  CS!Begin(t)
<1>1. PICK p \in Calls : pc[t] = "out" /\ pc' = [pc EXCEPT ![t] = p]
  BY DEF ConvertPort, GoTo
<1>2. UNCHANGED <<count, active, waitQueue, result>>
  BY DEF ConvertPort
<1>3. /\ result[t] = "none" /\ result' = [result EXCEPT ![t] = "none"]
      /\ p \in PCs /\ Queued' = Queued /\ t \notin Queued
  BY <1>1, <1>2 DEF Inv, ResultOK, TypeOK, PCs, Queued, QueueOK
<1>4. /\ pc'[t] = p /\ result'[t] = "none"
      /\ CS!Becomes(t, Call(t)', {}, "none")
  BY <1>1, <1>3, OwnCall
<1>5. Call(t) = "none" /\ Call(t)' = p
  BY <1>1, <1>3, <1>4 DEF Call, Calls
<1> QED
  BY <1>2, <1>4, <1>5 DEF CS!Begin

LEMMA WaitRefines ==
  ASSUME Inv, NEW t \in Threads, SemaphoreWait(t)
  PROVE  CS!Wait(t) \/ UNCHANGED CS!vars
<1> USE DEF GoTo, Return
<1>1. PICK p \in {"leave", "blocked"} :
        /\ pc[t] \in {"wait", "try"} /\ pc' = [pc EXCEPT ![t] = p]
        /\ active' = active
  BY DEF SemaphoreWait, lifeVars
<1>2. p \in PCs /\ p \notin Calls
  BY DEF PCs, Calls
<1>3. t \notin Queued /\ pc[t] \in Calls
  BY <1>1 DEF Inv, QueueOK, Calls
<1>4. count \in -1 .. MaxCount /\ MaxCount \in Nat
  BY SemaphoreAssumption DEF Inv, TypeOK
<1>5. ASSUME NEW r \in {"terminated", "success", "timed_out"},
             result' = [result EXCEPT ![t] = r], UNCHANGED waitQueue
      PROVE  CS!Becomes(t, Outcome[r], {}, "none")
  <2>1. Queued' = Queued
    BY <1>5 DEF Queued
  <2>2. result'[t] = r /\ CS!Becomes(t, Call(t)', {}, "none")
    BY <1>1, <1>2, <1>5, <2>1, OwnCall
  <2>3. Call(t)' = Outcome[r]
    BY <1>3, <2>1, <2>2 DEF Call
  <2> QED
    BY <2>2, <2>3
<1>6. CASE result[t] = "restart"
  <2>1. ~active /\ result' = [result EXCEPT ![t] = "terminated"]
        /\ UNCHANGED <<count, waitQueue>>
    BY <1>6 DEF SemaphoreWait, Inv, ResultOK
  <2>2. CS!Becomes(t, "terminated", {}, "none")
    BY <1>5, <2>1 DEF Outcome
  <2>3. Call(t) = "terminated"
    BY <1>3, <1>6 DEF Call, Outcome
  <2> QED
    BY <1>1, <2>1, <2>2, <2>3 DEF CS!Becomes, CS!vars
<1>7. CASE result[t] = "none"
  <2>1. Call(t) = pc[t]
    BY <1>3, <1>7 DEF Call
  <2>2. CASE ~active /\ result' = [result EXCEPT ![t] = "terminated"]
             /\ UNCHANGED <<count, waitQueue>>
    <3>1. CS!Becomes(t, "terminated", {}, "none")
      BY <1>5, <2>2 DEF Outcome
    <3> QED
      BY <1>1, <2>1, <2>2, <3>1 DEF CS!Wait
  <2>3. CASE active /\ count > 0 /\ count' = count - 1
             /\ result' = [result EXCEPT ![t] = "success"]
             /\ UNCHANGED waitQueue
    <3>1. CS!Becomes(t, "success", {}, "none")
      BY <1>5, <2>3 DEF Outcome
    <3>2. /\ (IF count < 0 THEN 0 ELSE count) > 0
          /\ (IF count' < 0 THEN 0 ELSE count')
               = (IF count < 0 THEN 0 ELSE count) - 1
      BY <1>4, <2>3
    <3> QED
      BY <1>1, <2>1, <2>3, <3>1, <3>2 DEF CS!Wait
  <2>4. CASE active /\ count <= 0 /\ pc[t] = "try"
             /\ result' = [result EXCEPT ![t] = "timed_out"]
             /\ UNCHANGED <<count, waitQueue>>
    <3>1. CS!Becomes(t, "timed_out", {}, "none")
      BY <1>5, <2>4 DEF Outcome
    <3>2. (IF count < 0 THEN 0 ELSE count) = 0
      BY <1>4, <2>4
    <3> QED
      BY <1>1, <2>1, <2>4, <3>1, <3>2 DEF CS!Wait
  <2>5. CASE active /\ count <= 0 /\ pc[t] = "wait" /\ count' = -1
             /\ result' = [result EXCEPT ![t] = "none"]
             /\ waitQueue' = IF t \in Privileged THEN <<t>> \o waitQueue
                                                  ELSE Append(waitQueue, t)
    <3>1. Queued' = Queued \cup {t}
      BY <2>5, JoinStep DEF Inv, QueueStep
    <3>2. CS!Becomes(t, Call(t)', {}, "none") /\ Call(t)' = "waiting"
      BY <1>1, <1>2, <2>5, <3>1, OwnCall DEF Call
    <3>3. /\ (IF count < 0 THEN 0 ELSE count) = 0
          /\ (IF count' < 0 THEN 0 ELSE count') = 0
      BY <1>4, <2>5
    <3> QED
      BY <1>1, <2>1, <2>5, <3>2, <3>3 DEF CS!Wait
  <2> QED
    BY <2>2, <2>3, <2>4, <2>5 DEF SemaphoreWait
<1> QED
  BY <1>3, <1>6, <1>7 DEF Inv, ResultOK

LEMMA WaitEndsEarlyRefines ==
  ASSUME Inv, NEW t \in Threads, WaitEndsEarly(t)
  PROVE  CS!WaitEndsEarly(t)
<1>1. UNCHANGED <<count, active, pc>>
  BY DEF WaitEndsEarly, lifeVars
<1>2. PICK i \in DOMAIN waitQueue : waitQueue[i] = t /\ LeaveQueue(i)
  BY DEF WaitEndsEarly
<1>3. PICK r \in {"timed_out", "interrupted"} : GoLocked({t}, r)
  BY DEF WaitEndsEarly
<1>4. Queued' = Queued \ {t}
  BY <1>2, LeaveQueueStep DEF Inv, QueueStep
<1>5. t \in Queued
  BY <1>2 DEF Queued, ToSet
<1>6. Call(t) = "waiting" /\ Call(t)' = Outcome[r]
  <2>1. result'[t] = r
    BY <1>3 DEF GoLocked
  <2> QED
    BY <1>4, <1>5, <2>1 DEF Call
<1>7. ASSUME NEW u \in Threads \ {t} PROVE Call(u)' = Call(u)
  <2>1. result'[u] = result[u]
    BY <1>3 DEF GoLocked
  <2> QED
    BY <1>1, <1>4, <2>1, CallKept
<1>8. CS!Becomes(t, Outcome[r], {}, "none")
  BY <1>6, <1>7, CallsBecome
<1>9. Outcome[r] \in {"timed_out", "aborted"}
  BY DEF Outcome
<1> QED
  BY <1>1, <1>6, <1>8, <1>9 DEF CS!WaitEndsEarly

LEMMA AfterBlockRefines ==
  ASSUME Inv, NEW t \in Threads, AfterBlock(t)
  PROVE  UNCHANGED CS!vars
<1>1. /\ UNCHANGED <<count, active, waitQueue>> /\ t \notin Queued
      /\ Queued' = Queued /\ pc[t] = "blocked"
  BY DEF AfterBlock, lifeVars, Queued, GoTo
<1>2. PICK p \in {"wait", "leave"} : pc' = [pc EXCEPT ![t] = p]
  BY DEF AfterBlock, GoTo
<1>3. result[t] \in {"awakened", "restart", "interrupted", "timed_out"}
  BY <1>1 DEF Inv, ResultOK
<1>4. PICK r : /\ result' = [result EXCEPT ![t] = r] /\ r # "none"
               /\ Outcome[r] = Outcome[result[t]]
  <2>1. CASE UNCHANGED result
    <3>1. result' = [result EXCEPT ![t] = result[t]]
      BY <2>1 DEF Inv, TypeOK
    <3> QED
      BY <1>3, <3>1
  <2>2. CASE result[t] # "restart" /\
             Return(t, CASE result[t] = "awakened" -> "success"
                         [] result[t] = "interrupted" -> "aborted"
                         [] OTHER -> result[t])
    <3>1. CASE result[t] = "awakened"
      <4>1. result' = [result EXCEPT ![t] = "success"]
        BY <2>2, <3>1 DEF Return
      <4>2. Outcome["success"] = Outcome[result[t]] /\ "success" # "none"
        BY <3>1 DEF Outcome
      <4> QED
        BY <4>1, <4>2
    <3>2. CASE result[t] = "interrupted"
      <4>1. result' = [result EXCEPT ![t] = "aborted"]
        BY <2>2, <3>2 DEF Return
      <4>2. Outcome["aborted"] = Outcome[result[t]] /\ "aborted" # "none"
        BY <3>2 DEF Outcome
      <4> QED
        BY <4>1, <4>2
    <3>3. CASE result[t] = "timed_out"
      <4>1. result' = [result EXCEPT ![t] = "timed_out"]
        BY <2>2, <3>3 DEF Return
      <4> QED
        BY <3>3, <4>1
    <3> QED
      BY <1>3, <2>2, <3>1, <3>2, <3>3
  <2> QED
    BY <2>1, <2>2 DEF AfterBlock
<1>5. pc'[t] = p /\ \A u \in Threads \ {t} : pc'[u] = pc[u]
  BY <1>2 DEF Inv, TypeOK
<1>6. result'[t] = r /\ \A u \in Threads \ {t} : result'[u] = result[u]
  BY <1>4 DEF Inv, TypeOK
<1>7. Call(t)' = Call(t)
  <2>1. result[t] # "none"
    BY <1>3
  <2> QED
    BY <1>1, <1>4, <1>6, <2>1 DEF Call
<1>8. \A u \in Threads : Call(u)' = Call(u)
  BY <1>1, <1>5, <1>6, <1>7, CallKept
<1> QED
  BY <1>1, <1>8, Stutter
LEMMA SignalRefines ==
  ASSUME Inv, NEW t \in Threads, SemaphoreSignal(t)
  PROVE  CS!Signal(t)
<1>1. /\ pc[t] = "signal" /\ pc' = [pc EXCEPT ![t] = "leave"]
      /\ active' = active /\ "leave" \in PCs /\ "leave" \notin Calls
      /\ pc[t] \in Calls
  BY DEF SemaphoreSignal, GoTo, lifeVars, PCs, Calls
<1>2. result[t] = "none"
  BY <1>1 DEF Inv, ResultOK
<1>3. count \in -1 .. MaxCount /\ MaxCount \in Nat \ {0}
  BY SemaphoreAssumption DEF Inv, TypeOK
<1>4. CS!Waiting = Queued /\ (waitQueue = <<>> <=> Queued = {})
  BY WaitingIsQueued, EmptyQueue DEF Inv, QueueOK, Queued
<1>5. ASSUME NEW W \in SUBSET Queued, QueueStep(Queued \ W),
             GoLocked(W, "awakened")
      PROVE  /\ Call(t) = "signal" /\ CS!Becomes(t, "none", W, "success")
  <2>1. /\ Call(t) = pc[t]
        /\ CS!Becomes(t, "none", W, Outcome["awakened"])
    BY <1>1, <1>2, <1>5, WakeCalls
  <2> QED
    BY <1>1, <2>1 DEF Outcome
<1>6. CASE UNCHANGED <<waitQueue, result>>
  <2>1. Call(t) = "signal" /\ CS!Becomes(t, "none", {}, "success")
    BY <1>5, <1>6, WakeNobody
  <2>2. CS!Becomes(t, "none", {}, "none")
    BY <2>1 DEF CS!Becomes
  <2>3. CASE ~active /\ UNCHANGED count
    BY <1>1, <2>1, <2>2, <2>3 DEF CS!Signal
  <2>4. CASE active /\ count < 0 /\ waitQueue = <<>> /\ count' = 1
    <3>1. (IF count' < 0 THEN 0 ELSE count')
             = (IF count < 0 THEN 0 ELSE count) + 1
      BY <1>3, <2>4
    <3> QED
      BY <1>1, <1>4, <2>1, <2>2, <2>4, <3>1 DEF CS!Signal
  <2>5. CASE active /\ count \in 0 .. MaxCount - 1 /\ count' = count + 1
    <3>1. (IF count' < 0 THEN 0 ELSE count')
             = (IF count < 0 THEN 0 ELSE count) + 1
      BY <1>3, <2>5
    <3>2. Queued = {}
      BY <1>4, <2>5, <1>3 DEF Inv, WaitersCounted
    <3> QED
      BY <1>1, <1>4, <2>1, <2>2, <2>5, <3>1, <3>2 DEF CS!Signal
  <2>6. ~(active /\ count < 0 /\ waitQueue # <<>> /\ LeaveQueue(1))
    <3> SUFFICES ASSUME waitQueue # <<>>, LeaveQueue(1) PROVE FALSE
      OBVIOUS
    <3>1. Head(waitQueue) \in Queued /\ Queued' = Queued \ {Head(waitQueue)}
      BY HeadStep DEF Inv, QueueStep
    <3> QED
      BY <1>6, <3>1 DEF Queued
  <2> QED
    BY <2>3, <2>4, <2>5, <2>6 DEF SemaphoreSignal
<1>7. CASE /\ active /\ count < 0 /\ waitQueue # <<>> /\ UNCHANGED count
           /\ GoLocked({Head(waitQueue)}, "awakened") /\ LeaveQueue(1)
  <2>1. /\ Head(waitQueue) \in Queued
        /\ QueueStep(Queued \ {Head(waitQueue)})
    BY <1>7, HeadStep DEF Inv
  <2>2. /\ Call(t) = "signal"
        /\ CS!Becomes(t, "none", {Head(waitQueue)}, "success")
    BY <1>5, <1>7, <2>1
  <2> QED
    BY <1>1, <1>4, <1>7, <2>1, <2>2 DEF CS!Signal
<1> QED
  BY <1>6, <1>7 DEF SemaphoreSignal

LEMMA SignalThreadRefines ==
  ASSUME Inv, NEW t \in Threads, SemaphoreSignalThread(t)
  PROVE  CS!SignalThread(t)
<1>1. /\ pc[t] = "signalThread" /\ pc' = [pc EXCEPT ![t] = "leave"]
      /\ UNCHANGED <<active, count>> /\ "leave" \in PCs
      /\ "leave" \notin Calls /\ pc[t] \in Calls
  BY DEF SemaphoreSignalThread, GoTo, lifeVars, PCs, Calls
<1>2. result[t] = "none" /\ t \notin Queued
  BY <1>1 DEF Inv, ResultOK, QueueOK
<1>3. CS!Waiting = Queued /\ Queued \subseteq Threads
  BY WaitingIsQueued, QueuedThreads DEF Inv
<1>4. ASSUME NEW W \in SUBSET Queued, QueueStep(Queued \ W),
             GoLocked(W, "awakened")
      PROVE  /\ Call(t) = "signalThread"
             /\ CS!Becomes(t, "none", W, "success")
  <2>1. /\ Call(t) = pc[t]
        /\ CS!Becomes(t, "none", W, Outcome["awakened"])
    BY <1>1, <1>2, <1>4, WakeCalls
  <2> QED
    BY <1>1, <2>1 DEF Outcome
<1>5. CASE UNCHANGED <<waitQueue, result>>
  <2>1. Call(t) = "signalThread" /\ CS!Becomes(t, "none", {}, "success")
    BY <1>4, <1>5, WakeNobody
  <2>2. {t} \cap Queued = {}
    BY <1>2
  <2> QED
    BY <1>1, <1>3, <2>1, <2>2 DEF CS!SignalThread
<1>6. ASSUME active, NEW i \in DOMAIN waitQueue,
             GoLocked({waitQueue[i]}, "awakened"), LeaveQueue(i)
      PROVE  CS!SignalThread(t)
  <2>1. QueueStep(Queued \ {waitQueue[i]})
    BY <1>6, LeaveQueueStep DEF Inv
  <2>2. waitQueue[i] \in Queued
    BY DEF Queued, ToSet
  <2>3. /\ Call(t) = "signalThread"
        /\ CS!Becomes(t, "none", {waitQueue[i]}, "success")
    BY <1>4, <1>6, <2>1, <2>2
  <2>4. /\ waitQueue[i] \in Threads
        /\ {waitQueue[i]} \cap Queued = {waitQueue[i]}
    BY <1>3, <2>2
  <2> QED
    BY <1>1, <1>3, <1>6, <2>3, <2>4 DEF CS!SignalThread
<1> QED
  BY <1>5, <1>6 DEF SemaphoreSignalThread

LEMMA SignalAllRefines ==
  ASSUME Inv, NEW t \in Threads, SemaphoreSignalAll(t)
  PROVE  CS!SignalAll(t)
<1>1. /\ pc[t] = "signalAll" /\ pc' = [pc EXCEPT ![t] = "leave"]
      /\ active' = active /\ "leave" \in PCs
      /\ "leave" \notin Calls /\ pc[t] \in Calls
  BY DEF SemaphoreSignalAll, GoTo, lifeVars, PCs, Calls
<1>2. result[t] = "none" /\ CS!Waiting = Queued
  BY <1>1, WaitingIsQueued DEF Inv, ResultOK
<1>3. Queued # {} => count < 0
  BY EmptyQueue DEF Inv, WaitersCounted, QueueOK, Queued
<1>4. ASSUME NEW W \in SUBSET Queued, QueueStep(Queued \ W),
             GoLocked(W, "awakened")
      PROVE  /\ Call(t) = "signalAll" /\ CS!Becomes(t, "none", W, "success")
  <2>1. /\ Call(t) = pc[t]
        /\ CS!Becomes(t, "none", W, Outcome["awakened"])
    BY <1>1, <1>2, <1>4, WakeCalls
  <2> QED
    BY <1>1, <2>1 DEF Outcome
<1>5. CASE active
  <2>1. count' = 0 /\ WakeupAll("awakened")
    BY <1>5 DEF SemaphoreSignalAll
  <2>2. PICK W \in SUBSET Queued :
          /\ QueueStep(Queued \ W) /\ GoLocked(W, "awakened")
          /\ count < 0 => W = Queued
    BY <2>1, WakeupAllWakes
  <2>3. W = Queued
    BY <1>3, <2>2
  <2>4. Call(t) = "signalAll" /\ CS!Becomes(t, "none", Queued, "success")
    BY <1>4, <2>2, <2>3
  <2>5. (IF count' < 0 THEN 0 ELSE count') = 0
    BY <2>1
  <2> QED
    BY <1>1, <1>2, <1>5, <2>4, <2>5 DEF CS!SignalAll
<1>6. CASE ~active
  <2>1. UNCHANGED <<count, waitQueue, result>>
    BY <1>6 DEF SemaphoreSignalAll
  <2>2. Call(t) = "signalAll" /\ CS!Becomes(t, "none", {}, "success")
    BY <1>4, <2>1, WakeNobody
  <2> QED
    BY <1>1, <1>6, <2>1, <2>2 DEF CS!SignalAll
<1> QED
  BY <1>5, <1>6

LEMMA DestroyRefines ==
  ASSUME Inv, NEW t \in Threads, SemaphoreDestroy(t)
  PROVE  CS!Destroy(t)
<1>1. PICK p \in {"leave", "deallocPort"} :
        pc[t] = "destroy" /\ pc' = [pc EXCEPT ![t] = p]
  BY DEF SemaphoreDestroy, GoTo
<1>2. p \in PCs /\ p \notin Calls /\ pc[t] \in Calls
  BY <1>1 DEF PCs, Calls
<1>3. result[t] = "none" /\ CS!Waiting = Queued
  BY <1>1, WaitingIsQueued DEF Inv, ResultOK, Calls
<1>4. Queued # {} => count < 0 /\ active
  BY EmptyQueue DEF Inv, WaitersCounted, QueueOK, Queued
<1>5. ASSUME NEW W \in SUBSET Queued, QueueStep(Queued \ W),
             GoLocked(W, "restart")
      PROVE  Call(t) = "destroy" /\ CS!Becomes(t, "none", W, "terminated")
  <2>1. /\ Call(t) = pc[t]
        /\ CS!Becomes(t, "none", W, Outcome["restart"])
    BY <1>1, <1>2, <1>3, <1>5, WakeCalls
  <2> QED
    BY <1>1, <2>1 DEF Outcome
<1>6. CASE ~active /\ UNCHANGED <<count, active, waitQueue, result>>
  <2>1. QueueStep(Queued \ {}) /\ GoLocked({}, "restart")
    BY <1>6, WakeNobody
  <2>2. Call(t) = "destroy" /\ CS!Becomes(t, "none", {}, "terminated")
    BY <1>5, <2>1
  <2>3. Queued = {}
    BY <1>4, <1>6
  <2>4. active' = FALSE
    BY <1>6 DEF Inv, TypeOK
  <2> QED
    BY <1>3, <1>6, <2>2, <2>3, <2>4 DEF CS!Destroy
<1>7. CASE active /\ active' = FALSE /\ count' = 0 /\ WakeupAll("restart")
  <2>1. PICK W \in SUBSET Queued :
          /\ QueueStep(Queued \ W) /\ GoLocked(W, "restart")
          /\ count < 0 => W = Queued
    BY <1>7, WakeupAllWakes
  <2>2. W = Queued
    BY <1>4, <2>1
  <2>3. Call(t) = "destroy" /\ CS!Becomes(t, "none", Queued, "terminated")
    BY <1>5, <2>1, <2>2
  <2>4. (IF count' < 0 THEN 0 ELSE count') = 0
    BY <1>7
  <2> QED
    BY <1>3, <1>7, <2>3, <2>4 DEF CS!Destroy
<1> QED
  BY <1>6, <1>7 DEF SemaphoreDestroy

LEMMA DeallocPortRefines ==
  ASSUME Inv, NEW t \in Threads, DeallocPort(t)
  PROVE  UNCHANGED CS!vars
<1>1. /\ pc[t] = "deallocPort" /\ pc' = [pc EXCEPT ![t] = "dropCreation"]
      /\ UNCHANGED <<count, active, waitQueue, result>>
  BY DEF DeallocPort, GoTo
<1>2. Queued' = Queued /\ result'[t] = "none" /\ result[t] = "none"
  BY <1>1 DEF Inv, ResultOK, Queued
<1>3. pc'[t] = "dropCreation" /\ \A u \in Threads \ {t} : pc'[u] = pc[u]
  BY <1>1 DEF Inv, TypeOK
<1>4. Call(t)' = Call(t)
  BY <1>1, <1>2, <1>3 DEF Call, Calls
<1>5. \A u \in Threads : Call(u)' = Call(u)
  BY <1>1, <1>2, <1>3, <1>4, CallKept
<1> QED
  BY <1>1, <1>5, Stutter

LEMMA DereferenceRefines ==
  ASSUME Inv, NEW t \in Threads, SemaphoreDereference(t)
  PROVE  CS!Return(t) \/ UNCHANGED CS!vars
<1>1. UNCHANGED <<count, active>> /\ Queued' = Queued
  BY DEF SemaphoreDereference, Queued
<1>2. CASE GoTo(t, "leave", "out") /\ result' = [result EXCEPT ![t] = "none"]
  <2>1. /\ pc[t] = "leave" /\ pc' = [pc EXCEPT ![t] = "out"]
        /\ "out" \in PCs
    BY <1>2 DEF GoTo, PCs
  <2>2. t \notin Queued
    BY <2>1 DEF Inv, QueueOK
  <2>3. /\ pc'[t] = "out" /\ result'[t] = "none"
        /\ CS!Becomes(t, Call(t)', {}, "none")
    BY <1>1, <1>2, <2>1, OwnCall
  <2>4. Call(t)' = "none"
    BY <1>1, <2>2, <2>3 DEF Call, Calls
  <2>5. CASE result[t] = "none"
    <3>1. Call(t) = "none"
      BY <2>1, <2>2, <2>5 DEF Call, Calls
    <3> QED
      BY <1>1, <2>3, <2>4, <3>1 DEF CS!Becomes, CS!vars
  <2>6. CASE result[t] # "none"
    <3>1. result[t] \in WaitResults \cup Returns
      BY DEF Inv, TypeOK
    <3>2. Call(t) \in {"success", "timed_out", "aborted", "terminated"}
      BY <2>2, <2>6, <3>1 DEF Call, Outcome, WaitResults, Returns
    <3> QED
      BY <1>1, <2>3, <2>4, <3>2 DEF CS!Return
  <2> QED
    BY <2>5, <2>6
<1>3. CASE GoTo(t, "dropCreation", "leave") /\ UNCHANGED result
  <2>1. pc[t] = "dropCreation" /\ pc' = [pc EXCEPT ![t] = "leave"]
    BY <1>3 DEF GoTo
  <2>2. pc'[t] = "leave" /\ \A u \in Threads \ {t} : pc'[u] = pc[u]
    BY <2>1 DEF Inv, TypeOK
  <2>3. Call(t)' = Call(t)
    BY <1>1, <1>3, <2>1, <2>2 DEF Call, Calls
  <2>4. \A u \in Threads : Call(u)' = Call(u)
    BY <1>1, <1>3, <2>2, <2>3, CallKept
  <2> QED
    BY <1>1, <2>4, Stutter
<1> QED
  BY <1>2, <1>3 DEF SemaphoreDereference

LEMMA NextRefines == Inv /\ [Next]_vars => [CS!Next]_CS!vars
<1> SUFFICES ASSUME Inv, [Next]_vars PROVE CS!Next \/ UNCHANGED CS!vars
  OBVIOUS
<1>1. ASSUME NEW t \in Threads, ConvertPort(t) PROVE CS!Next
  BY <1>1, ConvertPortRefines DEF CS!Next
<1>2. ASSUME NEW t \in Threads, WaitEndsEarly(t) PROVE CS!Next
  BY <1>2, WaitEndsEarlyRefines DEF CS!Next
<1>3. ASSUME NEW t \in Threads, Advance(t)
      PROVE  CS!Next \/ UNCHANGED CS!vars
  <2>1. CASE SemaphoreWait(t)
    BY <2>1, WaitRefines DEF CS!Next
  <2>2. CASE AfterBlock(t)
    BY <2>2, AfterBlockRefines
  <2>3. CASE SemaphoreSignal(t)
    BY <2>3, SignalRefines DEF CS!Next
  <2>4. CASE SemaphoreSignalThread(t)
    BY <2>4, SignalThreadRefines DEF CS!Next
  <2>5. CASE SemaphoreSignalAll(t)
    BY <2>5, SignalAllRefines DEF CS!Next
  <2>6. CASE SemaphoreDestroy(t)
    BY <2>6, DestroyRefines DEF CS!Next
  <2>7. CASE DeallocPort(t)
    BY <2>7, DeallocPortRefines
  <2>8. CASE SemaphoreDereference(t)
    BY <2>8, DereferenceRefines DEF CS!Next
  <2> QED
    BY <1>3, <2>1, <2>2, <2>3, <2>4, <2>5, <2>6, <2>7, <2>8 DEF Advance
<1>4. CASE UNCHANGED vars
  <2>1. \A u \in Threads : Call(u)' = Call(u)
    BY <1>4, CallKept DEF vars, Queued
  <2> QED
    BY <1>4, <2>1, Stutter DEF vars
<1> QED
  BY <1>1, <1>2, <1>3, <1>4 DEF Next

LEMMA InitRefines == Init => CS!Init
<1> SUFFICES ASSUME Init PROVE CS!Init
  OBVIOUS
<1>1. count \in Nat /\ active = TRUE
  BY SemaphoreAssumption DEF Init
<1>2. (IF count < 0 THEN 0 ELSE count) \in Nat
  BY <1>1
<1>3. Queued = {}
  BY DEF Init, Queued, ToSet
<1>4. ASSUME NEW t \in Threads PROVE Call(t) = "none"
  BY <1>3 DEF Init, Call, Calls
<1> QED
  BY <1>1, <1>2, <1>4 DEF CS!Init

\* No signal is lost or taken twice, whichever waits time out, are aborted or
\* are ended by the destruction: for any number of threads the semaphore
\* implements CountingSemaphore.
THEOREM Refinement == Spec => ImplementsCountingSemaphore
<1>1. Inv /\ [Next]_vars => [CS!Next]_CS!vars
  BY NextRefines
<1> QED
  BY <1>1, InitRefines, Invariance, PTL
     DEF Spec, CS!Spec, ImplementsCountingSemaphore
=============================================================================
