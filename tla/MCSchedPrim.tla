----------------------------- MODULE MCSchedPrim -----------------------------
(***************************************************************************)
(* Instances of SchedPrim for TLC.  The wake events are model values, one  *)
(* per thread, and every event hashes to one bucket of two: the first      *)
(* bucket holds all the ordinary events (so that unrelated waits collide   *)
(* in it), the second the wake events.                                     *)
(***************************************************************************)
EXTENDS SchedPrim, TLC

CONSTANTS t1, t2, t3, w1, w2, w3, b1, b2, e1, e2

WakeEvents3 == (t1 :> w1) @@ (t2 :> w2) @@ (t3 :> w3)
MCWakeEvent == [t \in Threads |-> WakeEvents3[t]]
OneBucket   == [e \in AllEvents |-> b1]
MCBucketOf  == [e \in AllEvents |-> IF e \in Events THEN b1 ELSE b2]
OwnBuckets  == [e \in AllEvents |-> IF e = e1 THEN b1 ELSE b2]

\* Processors are interchangeable in every safety run.
CpuSymmetry == Permutations(Cpus)
=============================================================================
