---------------------------- MODULE MCPortMessage ----------------------------
(***************************************************************************)
(* Instances of PortMessage for TLC: threads and queues are model values.  *)
(***************************************************************************)
EXTENDS PortMessage

CONSTANTS s1, s2, s3, r1, r2, r3, o1, p1, p2, ps

\* r1 serves the port, r2 the set, r3 whichever it can.
MCServes == [r \in Receivers |-> CASE r = r1 -> {p1} [] r = r2 -> Sets
                                   [] OTHER -> Queues]
=============================================================================
