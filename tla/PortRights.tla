----------------------------- MODULE PortRights -----------------------------
(***************************************************************************)
(* The rights to one Mach port: the entries that hold them in the spaces   *)
(* of tasks (osfmk/ipc/ipc_right.c, ipc_object.c) and what the port counts *)
(* (ipc_port.c), under every order of the calls that make, copy, move and  *)
(* drop rights, ask for notifications, and kill the port or a space.       *)
(*                                                                         *)
(* A call works with its space write-locked and does all of its work on    *)
(* the port in one hold of the port's lock: it is one step.  The death of  *)
(* the port and of a space are several.  Rights that are in messages or in *)
(* the kernel's hands are counted, not told apart.                         *)
(***************************************************************************)
EXTENDS Integers, FiniteSets

CONSTANTS
  Spaces, Names,
  UrefsMax,    \* MACH_PORT_UREFS_MAX
  Deltas,      \* the changes of user references that are tried
  Counts,      \* what mach_port_set_mscount and a no-senders request name
  MaxMake,     \* bound: ip_mscount
  MaxNaked,    \* bound: send rights in messages, send-once rights, rights left
  Slots,       \* bound: the slots of the table of dead-name requests
  None

ASSUME PortRightsAssumption ==
  /\ UrefsMax \in Nat /\ UrefsMax > 2
  /\ Deltas \subseteq Int /\ Counts \subseteq Nat
  /\ IsFiniteSet(Spaces) /\ IsFiniteSet(Names)
  /\ None \notin Names \cup Nat \cup Slots

VARIABLES
  port,    \* the port
  entry,   \* per space and name: the entry
  alive    \* the spaces with is_active

vars == <<port, entry, alive>>

Types == {"none", "send", "receive", "both", "sonce", "dead"}
Entry(type, urefs, req) == [type |-> type, urefs |-> urefs, req |-> req]
Unused == Entry("none", 0, None)
NoRequests == [i \in Slots |-> None]

\* told, left, forced: history.  told is the count of the last no-senders
\* notification, as long as the receiver can compare it with ip_mscount;
\* left are the send rights that nobody was charged for (DeltaReceive);
\* forced is set when the receiver sets ip_mscount after its request.
\* They end with the port.
Init ==
  /\ alive = Spaces
  /\ \E s \in Spaces, n \in Names :
       /\ entry = [e \in Spaces \X Names |->
                     IF e = <<s, n>> THEN Entry("receive", 0, None) ELSE Unused]
       /\ port = [active |-> TRUE, receiver |-> <<s, n>>, refs |-> 1,
                  mscount |-> 0, srights |-> 0, sorights |-> 0,
                  nsrequest |-> None, pdrequest |-> FALSE,
                  requests |-> NoRequests, saved |-> NoRequests, dying |-> FALSE,
                  sends |-> 0, sonces |-> 0, limbo |-> FALSE,
                  told |-> None, left |-> 0, forced |-> FALSE]

(***************************************************************************)
(* What the calls do to the port, p, and to an entry, e                    *)
(***************************************************************************)
HasSend(e) == e.type \in {"send", "both"}
HasReceive(e) == e.type \in {"receive", "both"}

\* ipc_right_check: a right to a port found dead becomes a dead name, with a
\* reference more if a notification is on its way.
Stale(e) == ~port.active /\ e.type \in {"send", "sonce"}
Checked(e) ==
  IF Stale(e) THEN Entry("dead", e.urefs + (IF e.req = None THEN 0 ELSE 1), None)
              ELSE e
\* Faulty variant: the reference of the entry is kept.
CheckedPortKept(e) == port
CheckedPort(e) == IF Stale(e) THEN [port EXCEPT !.refs = @ - 1] ELSE port

\* ipc_right_dncancel
Cancelled(p, e) ==
  IF e.req = None THEN p ELSE [p EXCEPT !.requests[e.req] = None]

\* One send right less: the last one triggers the no-senders request.
LoseSend(p) ==
  LET last == p.srights = 1 IN
  [p EXCEPT !.srights = @ - 1,
            !.nsrequest = IF last THEN None ELSE @,
            !.told = IF last /\ p.nsrequest # None THEN p.mscount ELSE @]

\* ipc_port_clear_receiver
ClearReceiver(p) == [p EXCEPT !.mscount = 0, !.told = None, !.receiver = None]

\* ipc_port_destroy up to the release of the lock: a port with a backup goes
\* to it in a message, with the caller's reference; a dead one throws its
\* no-senders request away.
Destroyed(p) ==
  IF p.pdrequest
  THEN [p EXCEPT !.pdrequest = FALSE, !.limbo = TRUE]
  ELSE [p EXCEPT !.active = FALSE, !.dying = TRUE,
                 !.saved = p.requests, !.requests = NoRequests,
                 !.nsrequest = None, !.told = None, !.left = 0,
                 !.forced = FALSE]

\* Faulty variant: the request stays in the table when the entry goes.
SendPortNotCancelled(p, e, k) ==
  CASE e.urefs > k -> p
    [] e.urefs = k /\ e.type = "both" -> LoseSend(p)
    [] OTHER -> [LoseSend(p) EXCEPT !.refs = @ - 1]

\* k user references of a send right go.  The right goes with the last one.
SendEntry(e, k) ==
  CASE e.urefs > k -> [e EXCEPT !.urefs = @ - k]
    [] e.urefs = k /\ e.type = "both" -> Entry("receive", 0, e.req)
    [] OTHER -> Unused
SendPort(p, e, k) ==
  CASE e.urefs > k -> p
    [] e.urefs = k /\ e.type = "both" -> LoseSend(p)
    [] OTHER -> [Cancelled(LoseSend(p), e) EXCEPT !.refs = @ - 1]

DeadEntry(e, k) ==
  IF e.urefs = k THEN Unused ELSE [e EXCEPT !.urefs = @ - k]

\* A send-once right leaves its entry, with the entry's reference.
SonceLeaves(p, e) == [Cancelled(p, e) EXCEPT !.sonces = @ + 1]

Puts(x, e, p) ==
  /\ entry' = [entry EXCEPT ![x] = e]
  /\ port' = p
  /\ UNCHANGED alive

\* ipc_right_lookup_write
Denotes(x) == x[1] \in alive /\ entry[x].type # "none"

(***************************************************************************)
(* Calls that drop rights or change user references                        *)
(***************************************************************************)
\* ipc_right_info, and every call that fails with an invalid right after
\* the check.
Info(x) ==
  /\ Denotes(x) /\ Stale(entry[x])
  /\ Puts(x, Checked(entry[x]), CheckedPort(entry[x]))

\* What ipc_right_destroy and ipc_right_clean do to the port.
RightGone(e) ==
  LET p == Cancelled(IF HasSend(e) THEN LoseSend(port) ELSE port, e) IN
  CASE e.type = "dead" -> port
    [] e.type # "dead" /\ ~port.active -> [port EXCEPT !.refs = @ - 1]
    [] HasReceive(e) /\ port.active -> Destroyed(ClearReceiver(p))
    [] e.type = "sonce" /\ port.active -> SonceLeaves(port, e)
    [] e.type = "send" /\ port.active -> [p EXCEPT !.refs = @ - 1]

\* ipc_right_destroy: mach_port_destroy, and each entry of ipc_space_clean.
Destroy(x) == Denotes(x) /\ Puts(x, Unused, RightGone(entry[x]))

\* ipc_space_destroy, and each entry that it cleans afterwards.
SpaceDies(s) ==
  /\ s \in alive /\ alive' = alive \ {s}
  /\ UNCHANGED <<port, entry>>
Clean(x) ==
  /\ x[1] \notin alive /\ entry[x].type # "none"
  /\ Puts(x, Unused, RightGone(entry[x]))

\* ipc_right_dealloc
Dealloc(x) ==
  LET e == Checked(entry[x])  p == CheckedPort(entry[x]) IN
  /\ Denotes(x)
  /\ \/ e.type = "dead" /\ Puts(x, DeadEntry(e, 1), p)
     \/ e.type = "sonce" /\ Puts(x, Unused, SonceLeaves(p, e))
     \/ HasSend(e) /\ Puts(x, SendEntry(e, 1), SendPort(p, e, 1))

\* ipc_right_delta
Overflows(urefs, d) == urefs + d > UrefsMax
Underflows(urefs, d) == urefs + d < 0

DeltaDead(x, d) ==
  LET e == Checked(entry[x]) IN
  /\ Denotes(x) /\ e.type = "dead"
  /\ ~Underflows(e.urefs, d) /\ ~Overflows(e.urefs, d)
  /\ Puts(x, DeadEntry(e, -d), CheckedPort(entry[x]))

DeltaSend(x, d) ==
  LET e == entry[x] IN
  /\ Denotes(x) /\ HasSend(e) /\ port.active
  /\ ~Underflows(e.urefs, d) /\ ~Overflows(e.urefs + 1, d)
  /\ Puts(x, SendEntry(e, -d), SendPort(port, e, -d))

DeltaSendOnce(x) ==
  /\ Denotes(x) /\ entry[x].type = "sonce" /\ port.active
  /\ Puts(x, Unused, SonceLeaves(port, entry[x]))

\* "The remaining send right turns into a dead name", and is not taken off
\* the count, "because the port is destroyed first" (ipc_right.c:993-999).
DeltaReceive(x) ==
  LET e == entry[x] IN
  /\ Denotes(x)
  /\ \/ /\ e.type = "both" /\ port.left < MaxNaked
        /\ Puts(x, Entry("dead", e.urefs + (IF e.req = None THEN 0 ELSE 1), None),
                Destroyed([ClearReceiver(port) EXCEPT !.left = @ + 1]))
     \/ /\ e.type = "receive"
        /\ Puts(x, Unused, Destroyed(ClearReceiver(Cancelled(port, e))))

(***************************************************************************)
(* ipc_right_copyin: rights taken from a space into a message              *)
(***************************************************************************)
\* Faulty variant: the make-send count is left alone.
MakeSendUncounted(x) ==
  /\ Denotes(x) /\ HasReceive(entry[x]) /\ port.sends < MaxNaked
  /\ Puts(x, entry[x],
          [port EXCEPT !.srights = @ + 1, !.refs = @ + 1, !.sends = @ + 1])

MakeSend(x) ==
  /\ Denotes(x) /\ HasReceive(entry[x])
  /\ port.mscount < MaxMake /\ port.sends < MaxNaked
  /\ Puts(x, entry[x],
          [port EXCEPT !.mscount = @ + 1, !.srights = @ + 1,
                       !.refs = @ + 1, !.sends = @ + 1])

MakeSendOnce(x) ==
  /\ Denotes(x) /\ HasReceive(entry[x]) /\ port.sorights < MaxNaked
  /\ Puts(x, entry[x],
          [port EXCEPT !.sorights = @ + 1, !.refs = @ + 1, !.sonces = @ + 1])

MoveReceive(x) ==
  LET e == entry[x]
      p == [ClearReceiver(port) EXCEPT !.limbo = TRUE]
  IN
  /\ Denotes(x)
  /\ \/ e.type = "both" /\ Puts(x, [e EXCEPT !.type = "send"],
                                [p EXCEPT !.refs = @ + 1])
     \/ e.type = "receive" /\ Puts(x, Unused, Cancelled(p, e))

CopySend(x) ==
  /\ Denotes(x) /\ HasSend(entry[x]) /\ port.active /\ port.sends < MaxNaked
  /\ Puts(x, entry[x],
          [port EXCEPT !.srights = @ + 1, !.refs = @ + 1, !.sends = @ + 1])

\* Faulty variant: the entry keeps its right and the message gets none.
MoveSendUncounted(x, k) ==
  LET e == entry[x]
      p == [port EXCEPT !.sends = @ + k]
  IN
  /\ Denotes(x) /\ HasSend(e) /\ e.urefs >= k /\ port.active
  /\ port.sends < MaxNaked
  /\ Puts(x, SendEntry(e, k),
          IF e.urefs = k /\ e.type = "send"
          THEN [Cancelled(p, e) EXCEPT !.refs = @ + k - 1]
          ELSE [p EXCEPT !.refs = @ + k])

\* k send rights are moved: 2 by ipc_right_copyin_two.  The entry gives up
\* its own right, and its own reference if nothing stays in it.
MoveSend(x, k) ==
  LET e == entry[x]
      own == IF e.urefs = k THEN 1 ELSE 0
      p == [port EXCEPT !.sends = @ + k, !.srights = @ + k - own]
  IN
  /\ Denotes(x) /\ HasSend(e) /\ e.urefs >= k /\ port.active
  /\ port.sends < MaxNaked
  /\ Puts(x, SendEntry(e, k),
          IF own = 1 /\ e.type = "send"
          THEN [Cancelled(p, e) EXCEPT !.refs = @ + k - 1]
          ELSE [p EXCEPT !.refs = @ + k])

MoveSendOnce(x) ==
  /\ Denotes(x) /\ entry[x].type = "sonce" /\ port.active
  /\ Puts(x, Unused, SonceLeaves(port, entry[x]))

\* A dead name, or a right found dead, yields IO_DEAD.
CopyDead(x) ==
  LET e == Checked(entry[x]) IN
  /\ Denotes(x) /\ e.type = "dead"
  /\ \E moved \in {e, DeadEntry(e, 1)} : Puts(x, moved, CheckedPort(entry[x]))

(***************************************************************************)
(* ipc_right_copyout: rights given to a space                              *)
(***************************************************************************)
\* ipc_right_reverse: the name the space has for the port already, if any.
Known(s) == {n \in Names : HasSend(entry[<<s, n>>]) \/ HasReceive(entry[<<s, n>>])}

\* ipc_object_copyout uses that name or a fresh one; a dead port is refused.
Finds(x) ==
  /\ x[1] \in alive /\ port.active
  /\ IF Known(x[1]) # {} THEN x[2] \in Known(x[1]) ELSE entry[x] = Unused

\* Faulty variant: no limit on the user references.
CopyoutSendUnpegged(x) ==
  LET e == entry[x]
      p == [port EXCEPT !.sends = @ - 1]
  IN
  /\ Finds(x) /\ port.sends > 0
  /\ \/ HasSend(e) /\ Puts(x, [e EXCEPT !.urefs = @ + 1],
                           [p EXCEPT !.srights = @ - 1, !.refs = @ - 1])
     \/ e.type = "receive" /\ Puts(x, Entry("both", 1, e.req), [p EXCEPT !.refs = @ - 1])
     \/ e.type = "none" /\ Puts(x, Entry("send", 1, None), p)

CopyoutSend(x) ==
  LET e == entry[x]
      p == [port EXCEPT !.sends = @ - 1]
      merged == [p EXCEPT !.srights = @ - 1, !.refs = @ - 1]
  IN
  /\ Finds(x) /\ port.sends > 0
  /\ \/ HasSend(e) /\ e.urefs + 1 = UrefsMax /\ Puts(x, e, merged)
     \/ HasSend(e) /\ e.urefs + 1 # UrefsMax
        /\ Puts(x, [e EXCEPT !.urefs = @ + 1], merged)
     \/ e.type = "receive" /\ Puts(x, Entry("both", 1, e.req), [p EXCEPT !.refs = @ - 1])
     \/ e.type = "none" /\ Puts(x, Entry("send", 1, None), p)

CopyoutSendOnce(x) ==
  /\ x[1] \in alive /\ port.active /\ entry[x] = Unused /\ port.sonces > 0
  /\ Puts(x, Entry("sonce", 1, None), [port EXCEPT !.sonces = @ - 1])

CopyoutReceive(x) ==
  LET e == entry[x]
      p == [port EXCEPT !.limbo = FALSE, !.receiver = x]
  IN
  /\ Finds(x) /\ port.limbo
  /\ \/ e.type = "send" /\ Puts(x, [e EXCEPT !.type = "both"], [p EXCEPT !.refs = @ - 1])
     \/ e.type = "none" /\ Puts(x, Entry("receive", 0, None), p)

\* Faulty variant: the port is not told its new name.
RenameUntold(x, n) ==
  LET y == <<x[1], n>>
      checks == entry[x].req # None
      e == IF checks THEN Checked(entry[x]) ELSE entry[x]
      p == IF checks THEN CheckedPort(entry[x]) ELSE port
  IN
  /\ Denotes(x) /\ entry[y] = Unused
  /\ entry' = [entry EXCEPT ![x] = Unused, ![y] = e]
  /\ port' = IF e.req = None THEN p ELSE [p EXCEPT !.requests[e.req] = n]
  /\ UNCHANGED alive

\* ipc_right_rename
Rename(x, n) ==
  LET y == <<x[1], n>>
      checks == entry[x].req # None
      e == IF checks THEN Checked(entry[x]) ELSE entry[x]
      p == IF checks THEN CheckedPort(entry[x]) ELSE port
      q == IF e.req = None THEN p ELSE [p EXCEPT !.requests[e.req] = n]
  IN
  /\ Denotes(x) /\ entry[y] = Unused
  /\ entry' = [entry EXCEPT ![x] = Unused, ![y] = e]
  /\ port' = IF HasReceive(e) THEN [q EXCEPT !.receiver = y] ELSE q
  /\ UNCHANGED alive

(***************************************************************************)
(* Requests for notifications                                              *)
(***************************************************************************)
\* ipc_right_dnrequest: a registered request is replaced in its slot, a new
\* one takes a free slot, a dead name is notified at once; with no port to
\* notify the request is cancelled.
DeadNameRequest(x) ==
  LET e == Checked(entry[x])  p == CheckedPort(entry[x]) IN
  /\ Denotes(x)
  /\ \/ /\ e.type = "dead" /\ ~Overflows(e.urefs, 1)
        /\ Puts(x, [e EXCEPT !.urefs = @ + 1], p)
     \/ /\ e.type # "dead" /\ e.req = None
        /\ \E i \in Slots :
             /\ p.requests[i] = None
             /\ Puts(x, [e EXCEPT !.req = i], [p EXCEPT !.requests[i] = x[2]])
     \/ /\ e.type # "dead" /\ e.req # None
        /\ Puts(x, [e EXCEPT !.req = None], Cancelled(p, e))

\* Faulty variant: a count that has just been reached is waited for.
NoSendersRequestLate(x) ==
  /\ Denotes(x) /\ HasReceive(entry[x])
  /\ \/ \E sync \in Counts :
          Puts(x, entry[x],
               IF port.srights = 0 /\ sync < port.mscount
               THEN [port EXCEPT !.nsrequest = None, !.told = port.mscount]
               ELSE [port EXCEPT !.nsrequest = sync, !.forced = FALSE])
     \/ Puts(x, entry[x], [port EXCEPT !.nsrequest = None])

\* ipc_port_nsrequest, with no port to notify in the last case.
NoSendersRequest(x) ==
  /\ Denotes(x) /\ HasReceive(entry[x])
  /\ \/ \E sync \in Counts :
          Puts(x, entry[x],
               IF port.srights = 0 /\ sync <= port.mscount
               THEN [port EXCEPT !.nsrequest = None, !.told = port.mscount]
               ELSE [port EXCEPT !.nsrequest = sync, !.forced = FALSE])
     \/ Puts(x, entry[x], [port EXCEPT !.nsrequest = None])

\* ipc_port_pdrequest: a backup for the port, or none.
PortDestroyedRequest(x) ==
  /\ Denotes(x) /\ HasReceive(entry[x])
  /\ \E b \in BOOLEAN : Puts(x, entry[x], [port EXCEPT !.pdrequest = b])

SetMscount(x) ==
  /\ Denotes(x) /\ HasReceive(entry[x])
  /\ \E c \in Counts :
       Puts(x, entry[x], [port EXCEPT !.mscount = c, !.told = None,
                                       !.forced = port.nsrequest # None])

(***************************************************************************)
(* Rights in messages, and the death of the port                           *)
(***************************************************************************)
Becomes(p) == port' = p /\ UNCHANGED <<entry, alive>>

\* ipc_port_release_send: a message with the right is destroyed.  The right
\* a received message was sent with is used up the same way
\* (ipc_object_copyout_dest).
ReleaseSend ==
  /\ port.sends > 0
  /\ LET p == [port EXCEPT !.sends = @ - 1, !.refs = @ - 1] IN
     Becomes(IF port.active THEN LoseSend(p) ELSE p)

\* The message a send-once right was used for is received or destroyed.
\* What is sent to a dead port takes the reference only (ipc_kmsg_send).
ReleaseSendOnce ==
  /\ port.sonces > 0
  /\ LET p == [port EXCEPT !.sonces = @ - 1, !.refs = @ - 1] IN
     Becomes(IF port.active THEN [p EXCEPT !.sorights = @ - 1] ELSE p)

\* ipc_port_release_receive
ReleaseReceive == port.limbo /\ Becomes(Destroyed([port EXCEPT !.limbo = FALSE]))

\* The rest of ipc_port_destroy: ipc_port_dnnotify, slot by slot, then the
\* caller's reference.
NotifyDeadName ==
  \E i \in Slots : /\ port.dying /\ port.saved[i] # None
                   /\ Becomes([port EXCEPT !.saved[i] = None])
EndDestroy ==
  /\ port.dying /\ port.saved = NoRequests
  /\ Becomes([port EXCEPT !.dying = FALSE, !.refs = @ - 1])

Drops(x) ==
  \/ Info(x) \/ Destroy(x) \/ Clean(x) \/ Dealloc(x)
  \/ \E d \in Deltas : DeltaDead(x, d) \/ DeltaSend(x, d)
  \/ DeltaSendOnce(x) \/ DeltaReceive(x)

Moves(x) ==
  \/ MakeSend(x) \/ MakeSendOnce(x) \/ MoveReceive(x) \/ CopySend(x)
  \/ \E k \in 1 .. 2 : MoveSend(x, k)
  \/ MoveSendOnce(x) \/ CopyDead(x)
  \/ CopyoutSend(x) \/ CopyoutSendOnce(x) \/ CopyoutReceive(x)
  \/ \E n \in Names : Rename(x, n)

Requests(x) ==
  \/ DeadNameRequest(x) \/ NoSendersRequest(x) \/ PortDestroyedRequest(x)
  \/ SetMscount(x)

Next ==
  \/ \E x \in Spaces \X Names : Drops(x) \/ Moves(x) \/ Requests(x)
  \/ \E s \in Spaces : SpaceDies(s)
  \/ ReleaseSend \/ ReleaseSendOnce \/ ReleaseReceive
  \/ NotifyDeadName \/ EndDestroy

Spec == Init /\ [][Next]_vars

(***************************************************************************)
(* Properties                                                              *)
(***************************************************************************)
Holding(types) == {x \in Spaces \X Names : entry[x].type \in types}
Registered == {i \in Slots : port.requests[i] # None}

\* The counts of send and send-once rights of a live port are those that
\* exist, in the spaces and in messages: the assertions ip_srights > 0 and
\* ip_sorights > 0 all over ipc_right.c, and more.
RightsCounted ==
  port.active =>
    /\ port.srights = Cardinality(Holding({"send", "both"})) + port.sends
                      + port.left
    /\ port.sorights = Cardinality(Holding({"sonce"})) + port.sonces

\* The port's memory lives exactly as long as somebody points to it.
RefsCounted ==
  port.refs = Cardinality(Holding({"send", "both", "receive", "sonce"}))
              + port.sends + port.sonces
              + (IF port.limbo THEN 1 ELSE 0) + (IF port.dying THEN 1 ELSE 0)

\* A live port has one receive right, in the entry it believes it is in or
\* in a message; a dead port has none.  A space knows a live port by one
\* name (ipc_right_reverse).
OneReceiver ==
  /\ Holding({"receive", "both"})
       = IF port.active /\ ~port.limbo THEN {port.receiver} ELSE {}
  /\ \A s \in Spaces : Cardinality(Known(s)) <= 1

\* Each slot of the table of dead-name requests of a live port belongs to
\* the entry of that name, and to no other (assert(ipr->ipr_name == name)).
RequestsMatch ==
  port.active /\ port.left = 0 =>
    /\ \A x \in Spaces \X Names :
         entry[x].req # None => port.requests[entry[x].req] = x[2]
    /\ \A i \in Registered :
         Cardinality({x \in Spaces \X Names : entry[x].req = i}) = 1

\* User references stay where the assertions want them: a send right leaves
\* room for the one that a dead-name notification adds.
UrefsInRange ==
  \A x \in Spaces \X Names :
    LET e == entry[x] IN
    CASE HasSend(e) -> e.urefs \in 1 .. UrefsMax - 1
      [] e.type = "sonce" -> e.urefs = 1
      [] e.type = "dead" -> e.urefs \in 1 .. UrefsMax /\ e.req = None
      [] OTHER -> e.urefs = 0

\* A no-senders notification whose count is still the port's make-send count
\* is true when it is received, however late: there are no send rights.
NoSendersTrue ==
  port.told # None /\ port.told = port.mscount /\ port.active => port.srights = 0

\* A registered no-senders request of a port without send rights waits for
\* a make-send count that has not been reached: none is left behind.
\* (mach_port_set_mscount looks at no request: after it, this is not so.)
NoSendersNotLost ==
  port.active /\ port.nsrequest # None /\ ~port.forced /\ port.srights = 0
    => port.nsrequest > port.mscount

\* A name turns dead when the port is dead: "the port is destroyed first"
\* (ipc_right.c:999).
DeadNameOfDeadPort == Holding({"dead"}) # {} => ~port.active
=============================================================================
