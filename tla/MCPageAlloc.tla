----------------------------- MODULE MCPageAlloc -----------------------------
(***************************************************************************)
(* Instances of PageAlloc for TLC.                                         *)
(***************************************************************************)
EXTENDS PageAlloc, TLC

MCSizes == [o \in Order |-> 2 ^ o]
=============================================================================
