------------------------------ MODULE MCRWLock -------------------------------
(***************************************************************************)
(* Instances of RWLock for TLC: four threads are two readers, a writer and *)
(* an upgrade at once.                                                     *)
(***************************************************************************)
EXTENDS RWLock, TLC

CONSTANTS t1, t2, t3, t4
=============================================================================
