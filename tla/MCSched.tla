------------------------------- MODULE MCSched -------------------------------
(***************************************************************************)
(* Instances of Sched for TLC: three threads, a queue that only threads    *)
(* wake and a queue that interrupts wake too.                              *)
(***************************************************************************)
EXTENDS Sched
=============================================================================
