---------------------------- MODULE MCPortTransit ----------------------------
(***************************************************************************)
(* Instances of PortTransit for TLC: threads and ports are model values.   *)
(***************************************************************************)
EXTENDS PortTransit

CONSTANTS t1, t2, t3, p1, p2, p3
=============================================================================
