----------------------------- MODULE MCSemaphore -----------------------------
(***************************************************************************)
(* Instances of Semaphore for TLC: the threads are model values.           *)
(***************************************************************************)
EXTENDS Semaphore

CONSTANTS t1, t2, t3, t4
=============================================================================
