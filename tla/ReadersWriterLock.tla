-------------------------- MODULE ReadersWriterLock --------------------------
(***************************************************************************)
(* What the complex locks of osfmk/kern/lock.c promise to their users: any *)
(* number of readers or one writer; a writer may become a reader without   *)
(* letting another writer in; a reader may ask for an upgrade, and unless  *)
(* that fails nobody writes before it does.                                *)
(***************************************************************************)
CONSTANT Threads

VARIABLE held  \* what each thread has: "none", "read", "upgrade", "write"

Nobody(W) == \A t \in Threads : held[t] \notin W

Init == held = [t \in Threads |-> "none"]

Become(t, from, to) == held[t] = from /\ held' = [held EXCEPT ![t] = to]

AcquireRead(t) == Nobody({"write"}) /\ Become(t, "none", "read")

AcquireWrite(t) ==
  Nobody({"read", "upgrade", "write"}) /\ Become(t, "none", "write")

Release(t) == Become(t, "read", "none") \/ Become(t, "write", "none")

Downgrade(t) == Become(t, "write", "read")

\* One upgrade at a time: a second one fails and costs the read lock.
Upgrade(t) ==
  IF Nobody({"upgrade"}) THEN \/ Become(t, "read", "upgrade")
                              \/ /\ \A u \in Threads \ {t} : held[u] # "read"
                                 /\ Become(t, "read", "write")
                         ELSE Become(t, "read", "none")

Upgraded(t) == Nobody({"read"}) /\ Become(t, "upgrade", "write")

Next == \E t \in Threads :
  \/ AcquireRead(t) \/ AcquireWrite(t) \/ Release(t) \/ Downgrade(t)
  \/ Upgrade(t) \/ Upgraded(t)

Spec == Init /\ [][Next]_held
=============================================================================
