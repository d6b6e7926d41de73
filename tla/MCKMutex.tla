------------------------------ MODULE MCKMutex ------------------------------
(***************************************************************************)
(* Instances of KMutex for TLC.  The threads use two mutexes with          *)
(* kmutex_lock_cancellable, or one mutex with kmutex_lock only, as plain   *)
(* says from the start; they cancel each other in both.                    *)
(***************************************************************************)
EXTENDS KMutex

CONSTANT m1

VARIABLE plain

P == INSTANCE KMutex WITH CancellableLockers <- {}

\* A step of the threads that use m1 with the plain lock.
Plain(A) == plain /\ A /\ UNCHANGED plain /\ \A m \in Mutex \ {m1} : holder'[m] = NULL

MCInit == plain \in BOOLEAN /\ IF plain THEN P!Init ELSE Init
MCNext ==
  \/ ~plain /\ Next /\ UNCHANGED plain
  \/ Plain(P!Next)

MCSpec == MCInit /\ [][MCNext]_<<vars, plain>>

\* Fairness of KMutex, for the threads that use the plain lock.
MCFairSpec ==
  /\ MCSpec
  /\ WF_<<vars, plain>>(Plain(P!SwitchDispatch))
  /\ WF_<<vars, plain>>(Plain(P!LockReturns))
  /\ WF_<<vars, plain>>(Plain(P!YieldCpu \/ P!Exit))
  /\ \A t \in Thread : SF_<<vars, plain>>(t = curthr /\ Plain(P!kmutex_unlock(m1)))

\* A thread that blocks in kmutex_lock gets the mutex, given that critical
\* sections end (kmutex.c:42).
PlainLockGranted == \A t \in Thread : (plain /\ call[t].mtx = m1) ~> (plain /\ m1 \in held[t])
=============================================================================
