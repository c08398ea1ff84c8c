------------------------------- MODULE MCMutex -------------------------------
(***************************************************************************)
(* Instances of Mutex for TLC: the threads are model values.               *)
(***************************************************************************)
EXTENDS Mutex, TLC

CONSTANTS t1, t2, t3, t4
=============================================================================
