------------------------------ MODULE SchedOps ------------------------------
(***************************************************************************)
(* The data structures of kernel/proc/sched.c and the functions that act   *)
(* on them.  A scheduler state is a record                                 *)
(*                                                                         *)
(*   state      kt_state of every thread                                   *)
(*   wchan      kt_wchan of every thread (the queue it is on, or NULL)     *)
(*   cancelled  kt_cancelled of every thread                               *)
(*   queue      the list of every ktqueue_t, the longest waiting first     *)
(*   cur        curthr                                                     *)
(*   switching  curthr has called sched_switch, which has not yet picked   *)
(*              the next thread                                            *)
(*   panic      a KASSERT failed                                           *)
(*                                                                         *)
(* Each function of sched.c is an operator from scheduler state to         *)
(* scheduler state.  The C lists are filled at the head and emptied at the *)
(* tail; here the tail of the C list is the first element of a sequence.   *)
(* tq_size is Len of the sequence.                                         *)
(***************************************************************************)
EXTENDS Naturals, Sequences, Functions

CONSTANTS Thread,   \* the kthread_t objects
          WaitQ,    \* every ktqueue_t other than the run queue
          RunQ,     \* kt_runq
          NULL      \* the null pointer

ASSUME QueueAssumption ==
  /\ RunQ \notin WaitQ
  /\ NULL \notin WaitQ \cup {RunQ}
  /\ NULL \notin Thread

Queue == WaitQ \cup {RunQ}

\* The constants of kthread.h.
ThreadState == {"NO_STATE", "RUN", "SLEEP", "SLEEP_CANCELLABLE", "EXITED"}

Asleep == {"SLEEP", "SLEEP_CANCELLABLE"}

SchedType ==
  [state     : [Thread -> ThreadState],
   wchan     : [Thread -> Queue \cup {NULL}],
   cancelled : [Thread -> BOOLEAN],
   queue     : [Queue -> Seq(Thread)],
   cur       : Thread,
   switching : BOOLEAN,
   panic     : BOOLEAN]

\* sched_init and the threads that exist when the first of them, t, runs.
SchedInit(t) ==
  [state     |-> [u \in Thread |-> "NO_STATE"],
   wchan     |-> [u \in Thread |-> NULL],
   cancelled |-> [u \in Thread |-> FALSE],
   queue     |-> [q \in Queue |-> <<>>],
   cur       |-> t,
   switching |-> FALSE,
   panic     |-> FALSE]

-----------------------------------------------------------------------------
Panic(s) == [s EXCEPT !.panic = TRUE]

\* KASSERT(cond): on success the state goes on as s2.
Kassert(cond, s, s2) == IF cond THEN s2 ELSE Panic(s)

\* Mutant: inserts at the end from which ktqueue_dequeue takes.
ktqueue_enqueue_lifo(s, q, t) ==
  Kassert(s.wchan[t] = NULL, s,
          [s EXCEPT !.queue[q] = <<t>> \o @, !.wchan[t] = q])

ktqueue_enqueue(s, q, t) ==
  Kassert(s.wchan[t] = NULL, s,
          [s EXCEPT !.queue[q] = Append(@, t), !.wchan[t] = q])

\* The thread ktqueue_dequeue returns, and the state it leaves.
Oldest(s, q) == Head(s.queue[q])

ktqueue_dequeue(s, q) ==
  [s EXCEPT !.queue[q] = Tail(@), !.wchan[Oldest(s, q)] = NULL]

\* list_remove: the sequence without the element at position k.
DropAt(seq, k) ==
  [i \in 1 .. Len(seq) - 1 |-> IF i < k THEN seq[i] ELSE seq[i + 1]]

Position(seq, t) == CHOOSE k \in DOMAIN seq : seq[k] = t

ktqueue_remove(s, q, t) ==
  Kassert(t \in Range(s.queue[q]), s,
          [s EXCEPT !.queue[q] = DropAt(@, Position(@, t)),
                    !.wchan[t] = NULL])

sched_queue_empty(s, q) == s.queue[q] = <<>>

sched_make_runnable(s, t) ==
  Kassert(s.wchan[t] # RunQ, s,
          ktqueue_enqueue([s EXCEPT !.state[t] = "RUN"], RunQ, t))

\* The call of sched_switch; sched_dispatch is the moment it picks a thread.
sched_switch(s) == [s EXCEPT !.switching = TRUE]

\* Mutant: the dequeued thread keeps its kt_wchan.
sched_dispatch_stale_wchan(s) ==
  [s EXCEPT !.queue[RunQ] = Tail(@), !.cur = Oldest(s, RunQ),
            !.switching = FALSE]

sched_dispatch(s) ==
  [ktqueue_dequeue(s, RunQ) EXCEPT !.cur = Oldest(s, RunQ),
                                   !.switching = FALSE]

sched_sleep_on(s, q) ==
  sched_switch(ktqueue_enqueue([s EXCEPT !.state[s.cur] = "SLEEP"], q, s.cur))

sched_cancellable_sleep_on(s, q) ==
  sched_switch(ktqueue_enqueue(
    [s EXCEPT !.state[s.cur] = "SLEEP_CANCELLABLE"], q, s.cur))

\* What sched_cancellable_sleep_on returns when thread t runs again.
SleepResult(s, t) == IF s.cancelled[t] THEN "EINTR" ELSE "OK"

\* Mutant: the woken thread is on no list.
sched_wakeup_on_lost(s, q) ==
  IF sched_queue_empty(s, q) THEN s
  ELSE [ktqueue_dequeue(s, q) EXCEPT !.state[Oldest(s, q)] = "RUN"]

sched_wakeup_on(s, q) ==
  IF sched_queue_empty(s, q)
  THEN s
  ELSE Kassert(s.state[Oldest(s, q)] \in Asleep, s,
               sched_make_runnable(ktqueue_dequeue(s, q), Oldest(s, q)))

\* The loop of sched_wakeup_on calls until the queue is empty, in one go:
\* the sleepers join the run queue in the order in which they waited.
sched_broadcast_on(s, q) ==
  LET woken == Range(s.queue[q])
  IN  Kassert(\A t \in woken : s.state[t] \in Asleep, s,
        [s EXCEPT
           !.queue[RunQ] = @ \o s.queue[q],
           !.queue[q] = <<>>,
           !.wchan = [t \in Thread |-> IF t \in woken THEN RunQ ELSE s.wchan[t]],
           !.state = [t \in Thread |-> IF t \in woken THEN "RUN" ELSE s.state[t]]])

\* Mutants: the sleeper stays on its wait queue; it leaves the wait queue and
\* is not made runnable; every sleeper is taken for a cancellable one.
sched_cancel_no_remove(s, t) ==
  LET c == [s EXCEPT !.cancelled[t] = TRUE]
  IN  IF s.state[t] = "SLEEP_CANCELLABLE" THEN sched_make_runnable(c, t) ELSE c

sched_cancel_no_run(s, t) ==
  LET c == [s EXCEPT !.cancelled[t] = TRUE]
  IN  IF s.state[t] = "SLEEP_CANCELLABLE"
      THEN ktqueue_remove(c, s.wchan[t], t) ELSE c

sched_cancel_any_sleep(s, t) ==
  LET c == [s EXCEPT !.cancelled[t] = TRUE]
  IN  IF s.state[t] \in Asleep
      THEN sched_make_runnable(ktqueue_remove(c, s.wchan[t], t), t) ELSE c

sched_cancel(s, t) ==
  LET c == [s EXCEPT !.cancelled[t] = TRUE]
  IN  Kassert(s.state[t] \notin {"NO_STATE", "EXITED"}, s,
        IF s.state[t] = "SLEEP_CANCELLABLE"
        THEN sched_make_runnable(ktqueue_remove(c, s.wchan[t], t), t)
        ELSE c)

\* A thread that gives up the processor and stays runnable.
Yield(s) == sched_switch(sched_make_runnable(s, s.cur))

\* kthread_destroy of an exited thread: a later kthread_create finds its
\* slot free and zeroed.
FreeSlot(s, t) ==
  [s EXCEPT !.state[t] = "NO_STATE", !.cancelled[t] = FALSE]

-----------------------------------------------------------------------------
(***************************************************************************)
(* Consistency of a scheduler state.                                       *)
(***************************************************************************)

Running(s, t) == t = s.cur /\ ~s.switching

\* The queues and the kt_wchan fields tell the same story.
QueuesMatchWchan(s) ==
  \A q \in Queue :
    /\ IsInjective(s.queue[q])
    /\ \A t \in Thread : t \in Range(s.queue[q]) <=> s.wchan[t] = q

\* kt_state says what kind of queue a thread is on.
StatesMatchWchan(s) ==
  \A t \in Thread :
    /\ s.wchan[t] = RunQ => s.state[t] = "RUN"
    /\ s.wchan[t] \in WaitQ <=> s.state[t] \in Asleep
    /\ s.state[t] = "RUN" => s.wchan[t] = RunQ \/ Running(s, t)

\* The thread that executes is on no queue.
RunnerIsOffQueue(s) ==
  ~s.switching => s.wchan[s.cur] = NULL

SchedOK(s) ==
  /\ s \in SchedType
  /\ QueuesMatchWchan(s)
  /\ StatesMatchWchan(s)
  /\ RunnerIsOffQueue(s)
=============================================================================
