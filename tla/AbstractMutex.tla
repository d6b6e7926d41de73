---------------------------- MODULE AbstractMutex ----------------------------
(***************************************************************************)
(* What kmutex.h promises: a set of mutexes, each with at most one owner   *)
(* and a first come, first served line of waiting threads.  The owner that *)
(* releases a mutex hands it to the head of the line; nobody can take a    *)
(* mutex for which a thread waits.  A waiting thread may give up.          *)
(***************************************************************************)
EXTENDS Naturals, Sequences, Functions

CONSTANTS Thread, Mutex, NULL

VARIABLES owner,    \* the thread that owns each mutex, or NULL
          line      \* the threads that wait for each mutex

vars == <<owner, line>>

Waiting(t) == \E m \in Mutex : t \in Range(line[m])

Init ==
  /\ owner = [m \in Mutex |-> NULL]
  /\ line = [m \in Mutex |-> <<>>]

Acquire(t, m) ==
  /\ owner[m] = NULL /\ line[m] = <<>> /\ ~Waiting(t)
  /\ owner' = [owner EXCEPT ![m] = t]
  /\ UNCHANGED line

Wait(t, m) ==
  /\ owner[m] \notin {NULL, t} /\ ~Waiting(t)
  /\ line' = [line EXCEPT ![m] = Append(@, t)]
  /\ UNCHANGED owner

Release(t, m) ==
  /\ owner[m] = t /\ ~Waiting(t)
  /\ IF line[m] = <<>>
     THEN owner' = [owner EXCEPT ![m] = NULL] /\ UNCHANGED line
     ELSE /\ owner' = [owner EXCEPT ![m] = Head(line[m])]
          /\ line' = [line EXCEPT ![m] = Tail(@)]

GiveUp(m, k) ==
  /\ k \in DOMAIN line[m]
  /\ line' = [line EXCEPT ![m] =
                [i \in 1 .. Len(@) - 1 |-> IF i < k THEN @[i] ELSE @[i + 1]]]
  /\ UNCHANGED owner

Next ==
  \/ \E t \in Thread, m \in Mutex : Acquire(t, m) \/ Wait(t, m) \/ Release(t, m)
  \/ \E m \in Mutex : \E k \in DOMAIN line[m] : GiveUp(m, k)

Spec == Init /\ [][Next]_vars
=============================================================================
