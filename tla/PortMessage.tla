----------------------------- MODULE PortMessage -----------------------------
(***************************************************************************)
(* The message queues of Mach ports and port sets (osfmk/ipc/ipc_mqueue.c, *)
(* ipc_pset.c) under concurrent sends, receives, changes of membership,    *)
(* moves and destruction of receive rights, on several processors.         *)
(*                                                                         *)
(* A step is one hold of a queue's lock, or of an object's lock with the   *)
(* holds of queue locks it contains.  Where the code looks for a receiver, *)
(* a step is one round of its loop: the port's queue stays locked, the     *)
(* locks of the sets are released after each search.                       *)
(* A thread that is woken with nothing left to do is idle at once.         *)
(***************************************************************************)
EXTENDS Integers, SequencesExt, WaitLinks

CONSTANTS
  Senders, Receivers, Owners,  \* threads; owners hold the receive rights
  Ports, Sets,
  Serves,       \* what each receiver receives from, a function
  Small,        \* receivers with a small buffer that use MACH_RCV_LARGE
  Timed,        \* threads whose calls have a timeout, 0 included
  Big,          \* senders whose messages do not fit a small buffer
  Always,       \* senders that use MACH_SEND_ALWAYS or send-once rights
  DefaultLimit, \* MACH_PORT_QLIMIT_DEFAULT
  Limits,       \* what mach_port_set_attributes sets
  Wrap,         \* imq_msgcount is counted modulo this
  MaxSends,     \* bound: messages a sender sends
  MaxOps,       \* bound: operations an owner makes
  None

Threads == Senders \cup Receivers \cup Owners
Queues == Ports \cup Sets

Messages == [from : Senders, no : 1 .. MaxSends]

\* A thread has one part; and what is sent can be counted.
ASSUME PortMessageAssumption ==
  /\ Serves \in [Receivers -> SUBSET Queues]
  /\ Small \subseteq Receivers /\ Always \cup Big \subseteq Senders
  /\ MaxSends \in Nat /\ MaxOps \in Nat /\ Wrap \in Nat
  /\ {DefaultLimit} \cup Limits \subseteq 1 .. Wrap - 1
  /\ Senders \cap Receivers = {} /\ Senders \cap Owners = {}
  /\ Receivers \cap Owners = {} /\ Ports \cap Sets = {}
  /\ Threads \cap Queues = {} /\ None \notin Threads \cup Queues \cup Messages
  /\ IsFiniteSet(Messages) /\ Cardinality(Messages) < Wrap

VARIABLES
  port,   \* per port: its messages and fields, and who holds its lock
  waitq,  \* per queue: waiting threads and linked sets (wq_queue)
  links,  \* per set: the ports linked to it (wqs_sublinks)
  live,   \* the objects with IO_BITS_ACTIVE
  th,     \* per thread: where it is, at which queue, with which message
  made,   \* per thread: the messages it has sent or operations it has made
  taken   \* history, per port: the messages receivers got, in order

vars == <<port, waitq, links, live, th, made, taken>>

Idle == [pc |-> "idle", at |-> None, msg |-> None]
At(pc, q, m) == [pc |-> pc, at |-> q, msg |-> m]

Init ==
  /\ port = [p \in Ports |-> [queue |-> <<>>, count |-> 0, full |-> FALSE,
                              limit |-> DefaultLimit, lock |-> None]]
  /\ waitq = [q \in Queues |-> <<>>]
  /\ links = [s \in Sets |-> <<>>]
  /\ live = Queues
  /\ th = [t \in Threads |-> Idle]
  /\ made = [t \in Threads |-> 0]
  /\ taken = [p \in Ports |-> <<>>]

(***************************************************************************)
(* Locks                                                                   *)
(***************************************************************************)
Free(p) == port[p].lock = None

\* The loops that look for a receiver run with the queue of the port locked.
Lockable(t, p) == port[p].lock \in {None, t}

\* mach_port_insert_member and mach_port_move_member hold the locks of both
\* objects while ipc_mqueue_add is between its holds of the queues.
Unlocked(q) ==
  \A o \in Owners : th[o].pc = "match" => q \notin {th[o].at, th[o].msg}

(***************************************************************************)
(* Wakeups                                                                 *)
(***************************************************************************)
\* The threads of gone have nothing left to do; the senders of go have a slot.
Woken(gone, go) ==
  [t \in Threads |-> IF t \in gone THEN Idle
                     ELSE IF t \in go THEN [th[t] EXCEPT !.pc = "post"]
                     ELSE th[t]]

Unlinked(ts) == [q \in Queues |-> Without(waitq[q], ts)]

Wakes(gone, go) == th' = Woken(gone, go) /\ waitq' = Unlinked(gone \cup go)

\* The senders that wait for IPC_MQUEUE_FULL; the first n of them.
BlockedAt(p) == {i \in DOMAIN waitq[p] : waitq[p][i] \in Senders}
Blocked(p) == ToSet(waitq[p]) \cap Senders
FirstBlocked(p, n) == Foremost(waitq[p], BlockedAt(p), n)

\* The search for a thread that waits for IPC_MQUEUE_RECEIVE: a linked set
\* stands for the threads that wait on it.
Listening(e) ==
  IF e \in Sets THEN waitq[e] ELSE IF e \in Receivers THEN <<e>> ELSE <<>>
ListensAt(p) == {i \in DOMAIN waitq[p] : Listening(waitq[p][i]) # <<>>}
FirstReceiver(p) == {Head(Listening(e)) : e \in Foremost(waitq[p], ListensAt(p), 1)}

\* Faulty variants: the slot a woken sender inherits is not kept for it;
\* nobody is woken.
ReleaseForgets(p, after, gone) ==
  LET left == (after.count + Wrap - 1) % Wrap
      open == left < after.limit /\ after.full
      heir == IF open THEN FirstBlocked(p, 1) ELSE {}
  IN /\ port' = [port EXCEPT ![p] =
                   [after EXCEPT !.count = left,
                                 !.full = @ /\ (open => heir # {})]]
     /\ Wakes(gone, heir)

ReleaseWakesNobody(p, after, gone) ==
  /\ port' = [port EXCEPT ![p] =
                [after EXCEPT !.count = (@ + Wrap - 1) % Wrap]]
  /\ Wakes(gone, {})

\* A slot of the port, which is otherwise left as after, is given back; the
\* first blocked sender inherits it.  The threads of gone are woken besides.
ReleaseMsgcount(p, after, gone) ==
  LET left == (after.count + Wrap - 1) % Wrap
      open == left < after.limit /\ after.full
      heir == IF open THEN FirstBlocked(p, 1) ELSE {}
  IN /\ port' = [port EXCEPT ![p] =
                   [after EXCEPT !.count = IF heir = {} THEN left ELSE @,
                                 !.full = @ /\ (open => heir # {})]]
     /\ Wakes(gone, heir)

\* Whether the receivers rs, none or one, can take the message.
Fits(m, rs) == m.from \in Big => rs \cap Small = {}

\* One round of the search of t: a receiver that cannot take the message is
\* sent away to find out its size.
TurnAway(t) ==
  LET p == th[t].at  rs == FirstReceiver(p) IN
  /\ \/ th[t].pc = "post" /\ ~Fits(th[t].msg, rs)
     \/ th[t].pc = "match" /\ port[p].queue # <<>> /\ ~Fits(Head(port[p].queue), rs)
  /\ Lockable(t, p)
  /\ port' = [port EXCEPT ![p].lock = t]
  /\ Wakes(rs, {})
  /\ UNCHANGED <<links, live, made, taken>>

\* Somebody gets the message, the slot is given back.
HandsOver(p, m, after, gone) ==
  /\ taken' = [taken EXCEPT ![p] = Append(@, m)]
  /\ ReleaseMsgcount(p, after, gone)

(***************************************************************************)
(* Sending                                                                 *)
(***************************************************************************)
\* ipc_kmsg_send, under the port's lock: what is sent to a dead port is
\* destroyed, anything else goes on to the queue after the lock is released.
Send(t, p) ==
  /\ th[t] = Idle /\ made[t] < MaxSends /\ Unlocked(p)
  /\ made' = [made EXCEPT ![t] = @ + 1]
  /\ LET m == [from |-> t, no |-> made[t] + 1] IN
     th' = [th EXCEPT ![t] = IF p \in live THEN At("send", p, m) ELSE Idle]
  /\ UNCHANGED <<port, waitq, links, live, taken>>

\* ipc_mqueue_send takes a slot, gives up, or waits for one.
SendReserve(t) ==
  LET p == th[t].at IN
  /\ th[t].pc = "send" /\ Free(p)
  /\ port[p].count < port[p].limit \/ t \in Always
  /\ port' = [port EXCEPT ![p].count = (@ + 1) % Wrap]
  /\ th' = [th EXCEPT ![t].pc = "post"]
  /\ UNCHANGED <<waitq, links, live, made, taken>>

\* Faulty variant: the queue is not marked as full.
SendFullUnmarked(t) ==
  LET p == th[t].at IN
  /\ th[t].pc = "send" /\ Free(p)
  /\ port[p].count >= port[p].limit /\ t \notin Always
  /\ \/ /\ t \in Timed
        /\ th' = [th EXCEPT ![t] = Idle]
        /\ UNCHANGED waitq
     \/ /\ th' = [th EXCEPT ![t].pc = "full"]
        /\ waitq' = [waitq EXCEPT ![p] = Append(@, t)]
  /\ UNCHANGED <<port, links, live, made, taken>>

SendFull(t) ==
  LET p == th[t].at IN
  /\ th[t].pc = "send" /\ Free(p)
  /\ port[p].count >= port[p].limit /\ t \notin Always
  /\ \/ /\ t \in Timed
        /\ th' = [th EXCEPT ![t] = Idle]
        /\ UNCHANGED <<port, waitq>>
     \/ /\ th' = [th EXCEPT ![t].pc = "full"]
        /\ port' = [port EXCEPT ![p].full = TRUE]
        /\ waitq' = [waitq EXCEPT ![p] = Append(@, t)]
  /\ UNCHANGED <<links, live, made, taken>>

\* ipc_mqueue_post hands the message to a receiver, or keeps the lock of the
\* port's queue, and none of a set's, to enqueue it.
Post(t) ==
  LET p == th[t].at  m == th[t].msg  rs == FirstReceiver(p) IN
  /\ th[t].pc = "post" /\ Lockable(t, p)
  /\ \/ /\ rs # {} /\ Fits(m, rs)
        /\ HandsOver(p, m, [port[p] EXCEPT !.lock = None], {t} \cup rs)
     \/ /\ rs = {}
        /\ port' = [port EXCEPT ![p].lock = t]
        /\ th' = [th EXCEPT ![t].pc = "enqueue"]
        /\ UNCHANGED <<waitq, taken>>
  /\ UNCHANGED <<links, live, made>>

Enqueue(t) ==
  LET p == th[t].at IN
  /\ th[t].pc = "enqueue"
  /\ port' = [port EXCEPT ![p] = [port[p] EXCEPT !.queue = Append(@, th[t].msg),
                                                 !.lock = None]]
  /\ th' = [th EXCEPT ![t] = Idle]
  /\ UNCHANGED <<waitq, links, live, made, taken>>

\* A timeout or an abort ends a wait.  The sender still has its message.
WaitEndsEarly(t) ==
  /\ th[t].pc \in {"full", "receiving"}
  /\ th[t].at \in Ports => Free(th[t].at)
  /\ Wakes({t}, {})
  /\ UNCHANGED <<port, links, live, made, taken>>

(***************************************************************************)
(* Receiving                                                               *)
(***************************************************************************)
\* ipc_mqueue_copyin: the caller has a reference and no lock afterwards.
Copyin(t, q) ==
  /\ th[t] = Idle /\ q \in live /\ Unlocked(q)
  /\ th' = [th EXCEPT ![t] = At("receive", q, None)]
  /\ UNCHANGED <<port, waitq, links, live, made, taken>>

\* ipc_mqueue_select by thread t, who is idle afterwards.
Select(t, p) ==
  LET m == Head(port[p].queue) IN
  \/ /\ Fits(m, {t})
     /\ HandsOver(p, m, [port[p] EXCEPT !.queue = Tail(@)], {t})
  \/ /\ ~Fits(m, {t})
     /\ Wakes({t}, {})
     /\ UNCHANGED <<port, taken>>

\* No message: a call with timeout 0 returns, the others wait.
ReceiveWait(t) ==
  LET q == th[t].at IN
  /\ \/ /\ t \in Timed
        /\ th' = [th EXCEPT ![t] = Idle]
        /\ UNCHANGED waitq
     \/ /\ th' = [th EXCEPT ![t].pc = "receiving"]
        /\ waitq' = [waitq EXCEPT ![q] = Append(@, t)]
  /\ UNCHANGED <<port, taken>>

\* ipc_mqueue_receive from a port.
ReceivePort(t) ==
  LET p == th[t].at IN
  /\ th[t].pc = "receive" /\ p \in Ports /\ Free(p)
  /\ IF port[p].queue # <<>> THEN Select(t, p) ELSE ReceiveWait(t)
  /\ UNCHANGED <<links, live, made>>

\* ipc_mqueue_receive from a set: the members' messages are looked at under
\* the set's lock only.  The first member that has one is locked, or else the
\* search starts again, and its link moves to the end of the list.
WithMessage(s) == {n \in DOMAIN links[s] : port[links[s][n]].queue # <<>>}

ReceiveSet(t) ==
  LET s == th[t].at IN
  /\ th[t].pc = "receive" /\ s \in Sets
  /\ \/ \E n \in WithMessage(s) :
          LET p == links[s][n] IN
          /\ Rank(WithMessage(s), n) = 1 /\ Free(p)
          /\ Select(t, p)
          /\ links' = [links EXCEPT ![s] = Append(RemoveAt(@, n), p)]
     \/ WithMessage(s) = {} /\ ReceiveWait(t) /\ UNCHANGED links
  /\ UNCHANGED <<live, made>>

(***************************************************************************)
(* The owner of the receive rights                                         *)
(***************************************************************************)
Begins(o, q) ==
  /\ th[o] = Idle /\ made[o] < MaxOps /\ q \in live /\ Unlocked(q)
  /\ made' = [made EXCEPT ![o] = @ + 1]

SetsOf(p) == ToSet(waitq[p]) \cap Sets
LinksWithout(p, ss) ==
  [s \in Sets |-> IF s \in ss THEN Without(links[s], {p})
                              ELSE links[s]]

\* ipc_pset_add up to the link; mach_port_move_member first takes the port
\* out of the sets it is in.
AddMember(o, p, s) ==
  /\ Begins(o, p) /\ s \in live /\ Unlocked(s) /\ Free(p)
  /\ \E ss \in {{}, SetsOf(p)} :
       /\ s \notin SetsOf(p) \ ss
       /\ waitq' = [waitq EXCEPT ![p] = Append(Without(@, ss), s)]
       /\ links' = [LinksWithout(p, ss) EXCEPT ![s] = Append(@, p)]
  /\ th' = [th EXCEPT ![o] = At("match", p, s)]
  /\ UNCHANGED <<port, live, taken>>

\* Faulty variant: a message that is handed over stays in the queue.
MatchKeeps(o) ==
  LET p == th[o].at  rs == FirstReceiver(p)  m == Head(port[p].queue) IN
  /\ th[o].pc = "match" /\ Lockable(o, p)
  /\ \/ /\ port[p].queue # <<>> /\ rs # {} /\ Fits(m, rs)
        /\ HandsOver(p, m, [port[p] EXCEPT !.lock = o], rs)
     \/ /\ port[p].queue = <<>> \/ rs = {}
        /\ port' = [port EXCEPT ![p].lock = None]
        /\ Wakes({o}, {})
        /\ UNCHANGED taken
  /\ UNCHANGED <<links, live, made>>

\* The rest of ipc_mqueue_add: the queued messages are handed to the threads
\* that wait, up to the first for which there is none.
Match(o) ==
  LET p == th[o].at  rs == FirstReceiver(p)  m == Head(port[p].queue) IN
  /\ th[o].pc = "match" /\ Lockable(o, p)
  /\ \/ /\ port[p].queue # <<>> /\ rs # {} /\ Fits(m, rs)
        /\ HandsOver(p, m, [port[p] EXCEPT !.queue = Tail(@), !.lock = o], rs)
     \/ /\ port[p].queue = <<>> \/ rs = {}
        /\ port' = [port EXCEPT ![p].lock = None]
        /\ Wakes({o}, {})
        /\ UNCHANGED taken
  /\ UNCHANGED <<links, live, made>>

\* ipc_pset_remove, and mach_port_move_member to no set.
RemoveMember(o, p) ==
  /\ Begins(o, p) /\ Free(p)
  /\ \E ss \in {{s} : s \in SetsOf(p)} \cup {SetsOf(p)} :
       /\ waitq' = [waitq EXCEPT ![p] = Without(@, ss)]
       /\ links' = LinksWithout(p, ss)
  /\ UNCHANGED <<port, live, th, taken>>

\* ipc_port_clear_receiver: the port leaves its sets, then the threads that
\* wait on it are sent away (ipc_mqueue_changed).  The owner goes on as said.
ClearReceiver(o, p, then) ==
  LET gone == {t \in Receivers : th[t] = At("receiving", p, None)} IN
  /\ th' = [Woken(gone, {}) EXCEPT ![o] = then]
  /\ waitq' = [Unlinked(gone) EXCEPT ![p] = Without(@, SetsOf(p))]
  /\ links' = LinksWithout(p, SetsOf(p))
  /\ UNCHANGED <<port, taken>>

\* The receive right is taken into a message.
MoveReceiveRight(o, p) ==
  /\ Begins(o, p) /\ Free(p)
  /\ ClearReceiver(o, p, Idle)
  /\ UNCHANGED live

\* The receive right is deallocated: ipc_port_destroy makes the port dead.
DestroyPort(o, p) ==
  /\ Begins(o, p) /\ Free(p)
  /\ ClearReceiver(o, p, At("destroy", p, None))
  /\ live' = live \ {p}

\* ipc_mqueue_destroy: all blocked senders run; then each message is taken
\* off the queue and destroyed, with the lock released after each.
DestroyQueue(o) ==
  LET p == th[o].at  drained == port[p].queue = <<>> IN
  /\ th[o].pc = "destroy" /\ Free(p)
  /\ th' = [Woken({}, Blocked(p)) EXCEPT
              ![o] = IF drained THEN Idle ELSE At("drain", p, None)]
  /\ waitq' = Unlinked(Blocked(p))
  /\ port' = [port EXCEPT ![p] =
                [port[p] EXCEPT !.full = FALSE,
                                !.queue = IF drained THEN @ ELSE Tail(@)]]
  /\ UNCHANGED <<links, live, made, taken>>

DrainQueue(o) ==
  LET p == th[o].at IN
  /\ th[o].pc = "drain" /\ Free(p)
  /\ IF port[p].queue = <<>>
     THEN th' = [th EXCEPT ![o] = Idle] /\ UNCHANGED port
     ELSE port' = [port EXCEPT ![p].queue = Tail(@)] /\ UNCHANGED th
  /\ UNCHANGED <<waitq, links, live, made, taken>>

\* ipc_pset_destroy: the members stay linked.
DestroySet(o, s) ==
  /\ Begins(o, s)
  /\ Wakes({t \in Receivers : th[t] = At("receiving", s, None)}, {})
  /\ live' = live \ {s}
  /\ UNCHANGED <<port, links, taken>>

\* ipc_mqueue_set_qlimit wakes as many senders as the limit grows by.
SetQlimit(o, p) ==
  /\ Begins(o, p) /\ Free(p)
  /\ \E n \in Limits :
       LET grows == IF n > port[p].limit THEN n - port[p].limit ELSE 0 IN
       /\ port' = [port EXCEPT ![p] =
                     [port[p] EXCEPT !.limit = n,
                                     !.full = @ /\ grows <= Cardinality(BlockedAt(p))]]
       /\ Wakes({}, FirstBlocked(p, grows))
  /\ UNCHANGED <<links, live, taken>>

Sending(t) ==
  \/ \E p \in Ports : Send(t, p)
  \/ SendReserve(t) \/ SendFull(t) \/ TurnAway(t) \/ Post(t) \/ Enqueue(t)

Receiving(t) ==
  \/ \E q \in Serves[t] : Copyin(t, q)
  \/ ReceivePort(t) \/ ReceiveSet(t)

Owning(o) ==
  \/ TurnAway(o) \/ Match(o) \/ DestroyQueue(o) \/ DrainQueue(o)
  \/ \E p \in Ports :
       \/ \E s \in Sets : AddMember(o, p, s)
       \/ RemoveMember(o, p) \/ MoveReceiveRight(o, p)
       \/ DestroyPort(o, p) \/ SetQlimit(o, p)
  \/ \E s \in Sets : DestroySet(o, s)

Next ==
  \/ \E t \in Senders : Sending(t)
  \/ \E t \in Receivers : Receiving(t)
  \/ \E o \in Owners : Owning(o)
  \/ \E t \in Threads : WaitEndsEarly(t)

Spec == Init /\ [][Next]_vars

(***************************************************************************)
(* Properties                                                              *)
(***************************************************************************)
\* The slots of a live port are exactly its queued messages and the slots
\* of senders that have yet to post: "we can proceed - inherited msgcount
\* from waker" (ipc_mqueue.c:369), and assert(imq_msgcount > 0).
Reserved(p) == {t \in Senders : th[t].at = p /\ th[t].pc \in {"post", "enqueue"}}

SlotsAccounted ==
  \A p \in Ports \cap live :
    port[p].count = Len(port[p].queue) + Cardinality(Reserved(p))

\* Nobody waits on a port for what is there: no receiver while a message is
\* queued, no sender while the queue has room or no slot is left whose
\* release would find it.
NobodyMissed ==
  \A p \in Ports, t \in Threads :
    /\ th[t] = At("receiving", p, None) => port[p].queue = <<>>
    /\ th[t].pc = "full" /\ th[t].at = p /\ p \in live
         => port[p].full /\ port[p].count >= port[p].limit

\* A port outside any set is a queue in order; every message accepted is
\* taken once, or dropped with its port.
Abstract == INSTANCE PortQueue WITH
  queue <- [p \in Ports |-> port[p].queue],
  alive <- live \cap Ports,
  shared <- {p \in Ports : SetsOf(p) # {}}

ImplementsPortQueue == Abstract!Spec

(***************************************************************************)
(* Liveness.  Threads inside a call go on; the receivers of Servers, which *)
(* take messages of any size, go on receiving from ports.  A receiver that *)
(* was sent away does not come back in time for every round of a search.   *)
(***************************************************************************)
Servers == {t \in Receivers \ Small : Serves[t] \subseteq Ports}

FairSpec ==
  /\ Spec
  /\ \A t \in Senders :
       /\ WF_vars(SendReserve(t) \/ SendFull(t) \/ TurnAway(t) \/ Enqueue(t))
       /\ SF_vars(Post(t))
  /\ \A t \in Servers :
       WF_vars(ReceivePort(t) \/ \E p \in Serves[t] : Copyin(t, p))
  /\ \A o \in Owners : WF_vars(TurnAway(o)) /\ SF_vars(Match(o))

\* A sender that waits for a slot of a port somebody receives from gets one,
\* gives up, or the port dies.
BlockedSenderServed ==
  \A t \in Senders, p \in UNION {Serves[r] : r \in Servers} :
    th[t].pc = "full" /\ th[t].at = p
      ~> th[t].pc # "full" \/ p \notin live
=============================================================================
