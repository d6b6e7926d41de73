-------------------------------- MODULE KMutex --------------------------------
(***************************************************************************)
(* The kernel's blocking mutexes (kernel/proc/kmutex.c) on the scheduler   *)
(* of SchedOps, used by arbitrary threads that respect the contract of     *)
(* kmutex.c: a thread locks no mutex it has locked, and unlocks what it    *)
(* has locked.  Threads may also cancel each other.                        *)
(*                                                                         *)
(* A mutex is identified with its km_waitq.  Mutexes are never used from   *)
(* an interrupt context (kmutex.c:10), so interrupts do not appear here.   *)
(***************************************************************************)
EXTENDS SchedOps

CONSTANTS Mutex,               \* the kmutex_t objects
          Boot,                \* the thread that executes first
          CancellableLockers,  \* the threads that use kmutex_lock_cancellable
          Killers              \* the threads that call kthread_cancel

ASSUME KMutexAssumption ==
  /\ Mutex \subseteq WaitQ
  /\ Boot \in Thread
  /\ CancellableLockers \subseteq Thread
  /\ Killers \subseteq Thread

VARIABLES sched,    \* the scheduler state of SchedOps
          holder,   \* km_holder of every mutex
          call,     \* the lock call in which each thread is blocked
          held      \* the mutexes each thread was told it holds

vars == <<sched, holder, call, held>>

NoCall == [op |-> "none", mtx |-> NULL]

Calls == [op : {"lock", "lock_cancellable"}, mtx : Mutex] \cup {NoCall}

TypeOK ==
  /\ sched \in SchedType
  /\ holder \in [Mutex -> Thread \cup {NULL}]
  /\ call \in [Thread -> Calls]
  /\ held \in [Thread -> SUBSET Mutex]

\* kmutex_init of every mutex, before any thread but the first has started.
Init ==
  /\ sched = SchedInit(Boot)
  /\ holder = [m \in Mutex |-> NULL]
  /\ call = [t \in Thread |-> NoCall]
  /\ held = [t \in Thread |-> {}]

-----------------------------------------------------------------------------
curthr == sched.cur

\* The current thread executes its own code, not the inside of a lock call.
Executing ==
  ~sched.switching /\ ~sched.panic /\ call[curthr] = NoCall

\* Mutant: the KASSERT asks for a mutex that nobody holds.
LockBody_asserts_free(m, op, slept) ==
  /\ Executing /\ m \notin held[curthr]
  /\ IF holder[m] # NULL
     THEN sched' = Panic(sched) /\ UNCHANGED <<holder, call, held>>
     ELSE /\ holder' = [holder EXCEPT ![m] = curthr]
          /\ held' = [held EXCEPT ![curthr] = @ \cup {m}]
          /\ UNCHANGED <<sched, call>>

\* The body that kmutex_lock and kmutex_lock_cancellable share; slept is the
\* state after the sleep of the one or of the other.
LockBody(m, op, slept) ==
  /\ Executing /\ m \notin held[curthr]
  /\ \/ /\ curthr = holder[m]                \* KASSERT
        /\ sched' = Panic(sched)
        /\ UNCHANGED <<holder, call, held>>
     \/ /\ holder[m] \notin {NULL, curthr}
        /\ sched' = slept
        /\ call' = [call EXCEPT ![curthr] = [op |-> op, mtx |-> m]]
        /\ UNCHANGED <<holder, held>>
     \/ /\ holder[m] = NULL
        /\ holder' = [holder EXCEPT ![m] = curthr]
        /\ held' = [held EXCEPT ![curthr] = @ \cup {m}]
        /\ UNCHANGED <<sched, call>>

\* Mutant: kmutex_lock sleeps cancellably and ignores the result.
kmutex_lock_any_sleep(m) ==
  LockBody(m, "lock", sched_cancellable_sleep_on(sched, m))

kmutex_lock(m) == LockBody(m, "lock", sched_sleep_on(sched, m))

kmutex_lock_cancellable(m) ==
  /\ curthr \in CancellableLockers
  /\ LockBody(m, "lock_cancellable", sched_cancellable_sleep_on(sched, m))

\* The blocked thread runs again and its lock call returns: kmutex_lock says
\* nothing, kmutex_lock_cancellable returns what the sleep returned.
LockReturns ==
  /\ ~sched.switching /\ ~sched.panic /\ call[curthr] # NoCall
  /\ LET c == call[curthr]
         granted == c.op = "lock" \/ SleepResult(sched, curthr) = "OK"
     IN  held' = IF granted THEN [held EXCEPT ![curthr] = @ \cup {c.mtx}]
                            ELSE held
  /\ call' = [call EXCEPT ![curthr] = NoCall]
  /\ UNCHANGED <<sched, holder>>

\* Mutants: nobody is woken; the newest waiter is served first.
kmutex_unlock_no_wakeup(m) ==
  /\ Executing /\ m \in held[curthr]
  /\ holder' = [holder EXCEPT ![m] = NULL]
  /\ held' = [held EXCEPT ![curthr] = @ \ {m}]
  /\ UNCHANGED <<sched, call>>

kmutex_unlock_newest(m) ==
  /\ Executing /\ m \in held[curthr]
  /\ LET q == sched.queue[m]
     IN  IF q = <<>>
         THEN holder' = [holder EXCEPT ![m] = NULL] /\ UNCHANGED sched
         ELSE /\ holder' = [holder EXCEPT ![m] = q[Len(q)]]
              /\ sched' = sched_make_runnable(
                            ktqueue_remove(sched, m, q[Len(q)]), q[Len(q)])
  /\ held' = [held EXCEPT ![curthr] = @ \ {m}]
  /\ UNCHANGED call

kmutex_unlock(m) ==
  /\ Executing /\ m \in held[curthr]
  /\ IF curthr # holder[m]                   \* KASSERT
     THEN sched' = Panic(sched) /\ UNCHANGED <<holder, held>>
     ELSE /\ holder' = [holder EXCEPT
               ![m] = IF sched_queue_empty(sched, m) THEN NULL
                                                     ELSE Oldest(sched, m)]
          /\ sched' = sched_wakeup_on(sched, m)
          /\ held' = [held EXCEPT ![curthr] = @ \ {m}]
  /\ UNCHANGED call

-----------------------------------------------------------------------------
\* What the threads do otherwise.

Quiet(s) == sched' = s /\ UNCHANGED <<holder, call, held>>

\* kthread_cancel of another thread that has started and not exited.
Cancel(t) ==
  /\ Executing /\ curthr \in Killers /\ t # curthr
  /\ sched.state[t] \notin {"NO_STATE", "EXITED"}
  /\ Quiet(sched_cancel(sched, t))

Start(t) ==
  /\ Executing /\ t # curthr /\ sched.state[t] = "NO_STATE"
  /\ Quiet(sched_make_runnable(sched, t))

YieldCpu == Executing /\ Quiet(Yield(sched))

\* A thread exits with no mutex to its knowledge.
Exit ==
  /\ Executing /\ held[curthr] = {}
  /\ Quiet(sched_switch([sched EXCEPT !.state[curthr] = "EXITED"]))

SwitchDispatch ==
  /\ sched.switching /\ ~sched.panic /\ ~sched_queue_empty(sched, RunQ)
  /\ Quiet(sched_dispatch(sched))

Next ==
  \/ \E m \in Mutex :
       kmutex_lock(m) \/ kmutex_lock_cancellable(m) \/ kmutex_unlock(m)
  \/ LockReturns
  \/ \E t \in Thread : Cancel(t) \/ Start(t)
  \/ YieldCpu \/ Exit \/ SwitchDispatch

Spec == Init /\ [][Next]_vars

\* The processor goes on, kernel code between two blocking calls is finite,
\* and a thread that is scheduled again and again ends its critical section.
Fairness ==
  /\ WF_vars(SwitchDispatch)
  /\ WF_vars(LockReturns)
  /\ WF_vars(YieldCpu \/ Exit)
  /\ \A t \in Thread : SF_vars(t = curthr /\ \E m \in Mutex : kmutex_unlock(m))

FairSpec == Spec /\ Fairness

-----------------------------------------------------------------------------
(***************************************************************************)
(* Properties.                                                             *)
(***************************************************************************)

\* Mutual exclusion: a thread whose lock call returned with success is the
\* km_holder until it unlocks, so no two threads are told they hold a mutex,
\* although a waiter never sets km_holder itself (kmutex.c:42, :100).
HeldMeansHolder ==
  \A t \in Thread : \A m \in held[t] : holder[m] = t

\* kmutex_unlock leaves nobody behind: threads wait only for a mutex that
\* somebody holds, and its holder does not itself wait for it.
WaitersBehindHolder ==
  \A m \in Mutex :
    sched.queue[m] # <<>> =>
      holder[m] # NULL /\ holder[m] \notin Range(sched.queue[m])

\* A mutex is never held by a thread that does not know it: the km_holder was
\* told so, or is on its way out of the lock call that will tell it.
HolderKnows ==
  \A m \in Mutex : holder[m] # NULL =>
    m \in held[holder[m]] \/ call[holder[m]].mtx = m

\* No KASSERT of kmutex.c or sched.c fails.
NoPanic == ~sched.panic

\* A KASSERT of kmutex.c (a thread locks what it holds, or unlocks what it
\* does not hold) fails only when some mutex has a holder that does not know:
\* threads that respect the contract never meet one otherwise, whoever is
\* cancelled meanwhile (kmutex.c:37, :60, :94).
PanicMeansUnknown == HolderKnows => NoPanic

\* kmutex.c:87 "Make sure that the thread on the head of the mutex's wait
\* queue becomes the new owner of the mutex": while threads wait for a mutex,
\* it passes from its holder to the head of the queue and to nobody else.
HandoffToHead ==
  [][\A m \in Mutex :
       holder'[m] # holder[m] /\ sched.queue[m] # <<>> =>
         holder'[m] = Head(sched.queue[m])]_vars

\* kmutex.h:37 "-EINTR if the sleep was cancelled and this thread does not
\* hold the mutex": a thread that leaves kmutex_lock_cancellable with -EINTR
\* is not the km_holder.
EintrMeansNotHeld ==
  [][\A t \in Thread :
       call[t] # NoCall /\ call'[t] = NoCall /\ call[t].mtx \notin held'[t] =>
         holder'[call[t].mtx] # t]_vars

\* The mutexes implement AbstractMutex: km_holder is the owner and km_waitq
\* the line.
Line == [m \in Mutex |-> sched.queue[m]]

Abstract == INSTANCE AbstractMutex WITH owner <- holder, line <- Line

ImplementsAbstractMutex == Abstract!Spec
=============================================================================
