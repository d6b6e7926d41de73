-------------------------------- MODULE Sched --------------------------------
(***************************************************************************)
(* The thread scheduler of the kernel (kernel/proc/sched.c) with arbitrary *)
(* callers: the thread that executes may make any call of the scheduler    *)
(* interface, and device interrupts may wake sleepers whenever the         *)
(* interrupt priority level (IPL) lets them through.                       *)
(*                                                                         *)
(* The kernel runs on one processor and is not preempted, so what a thread *)
(* does between two calls of sched_switch is atomic with respect to the    *)
(* other threads.  It is not atomic with respect to interrupts: a sleeping *)
(* call is one step (enter the queue), the switch is several more (mask,   *)
(* idle, unmask, dispatch), and an interrupt can arrive between any two.   *)
(***************************************************************************)
EXTENDS SchedOps

CONSTANTS Boot,    \* the thread kmain bootstraps into (the idle process)
          IntrQ    \* the wait queues interrupt handlers wake

ASSUME SchedAssumption == Boot \in Thread /\ IntrQ \subseteq WaitQ

VARIABLES sched,    \* the scheduler state of SchedOps
          ipl,      \* the IPL of the processor
          saved,    \* interrupt_l, the local variable of sched_switch
          masked,   \* sched_switch has raised the IPL and not returned
          cpu,      \* "exec", "idle" (about to halt) or "halted"
          chosen    \* history: the IPL each thread last set for itself

vars == <<sched, ipl, saved, masked, cpu, chosen>>

Ipl == {"LOW", "HIGH"}

TypeOK ==
  /\ sched \in SchedType
  /\ ipl \in Ipl
  /\ saved \in [Thread -> Ipl]
  /\ masked \in BOOLEAN
  /\ cpu \in {"exec", "idle", "halted"}
  /\ chosen \in [Thread -> Ipl]

Init ==
  /\ sched = SchedInit(Boot)
  /\ ipl = "LOW"
  /\ saved = [t \in Thread |-> "LOW"]
  /\ masked = FALSE
  /\ cpu = "exec"
  /\ chosen = [t \in Thread |-> "LOW"]

-----------------------------------------------------------------------------
\* The current thread executes its own code.
Executing == ~sched.switching /\ ~sched.panic

\* A call of the current thread that touches nothing but the scheduler state.
Call(s) == Executing /\ sched' = s /\ UNCHANGED <<ipl, saved, masked, cpu, chosen>>

SleepOn(q) == Call(sched_sleep_on(sched, q))

CancellableSleepOn(q) == Call(sched_cancellable_sleep_on(sched, q))

WakeupOn(q) == Call(sched_wakeup_on(sched, q))

BroadcastOn(q) == Call(sched_broadcast_on(sched, q))

\* kthread_cancel of another thread that has started and not exited.
Cancel(t) ==
  /\ t # sched.cur
  /\ sched.state[t] \notin {"NO_STATE", "EXITED"}
  /\ Call(sched_cancel(sched, t))

\* A thread just created by kthread_create is handed to the scheduler.
Start(t) ==
  /\ t # sched.cur
  /\ sched.state[t] = "NO_STATE"
  /\ Call(sched_make_runnable(sched, t))

YieldCpu == Call(Yield(sched))

\* kthread_exit, whose last act (in proc_thread_exited) is sched_switch.
Exit ==
  Call(Kassert(sched.wchan[sched.cur] = NULL, sched,
               sched_switch([sched EXCEPT !.state[sched.cur] = "EXITED"])))

\* An exited thread is destroyed and its slot serves a new thread.
Recycle(t) ==
  /\ Executing
  /\ sched.state[t] = "EXITED"
  /\ sched' = FreeSlot(sched, t)
  /\ saved' = [saved EXCEPT ![t] = "LOW"]
  /\ chosen' = [chosen EXCEPT ![t] = "LOW"]
  /\ UNCHANGED <<ipl, masked, cpu>>

\* A driver raises or restores the IPL around its own critical section.
SetIpl(l) ==
  /\ Executing
  /\ ipl' = l
  /\ chosen' = [chosen EXCEPT ![sched.cur] = l]
  /\ UNCHANGED <<sched, saved, masked, cpu>>

-----------------------------------------------------------------------------
\* sched_switch, step by step.

SwitchMask ==
  /\ sched.switching /\ ~masked /\ ~sched.panic
  /\ saved' = [saved EXCEPT ![sched.cur] = ipl]
  /\ ipl' = "HIGH"
  /\ masked' = TRUE
  /\ UNCHANGED <<sched, cpu, chosen>>

\* The run queue is empty: lower the IPL; then halt in intr_wait.  Interrupts
\* are enabled all the while, so one may come before the processor halts.
SwitchIdle ==
  /\ masked /\ ipl = "HIGH" /\ sched_queue_empty(sched, RunQ)
  /\ ipl' = "LOW"
  /\ cpu' = "idle"
  /\ UNCHANGED <<sched, saved, masked, chosen>>

intr_wait ==
  /\ cpu = "idle"
  /\ cpu' = "halted"
  /\ UNCHANGED <<sched, ipl, saved, masked, chosen>>

\* intr_wait returned.
SwitchRemask ==
  /\ masked /\ ipl = "LOW" /\ cpu = "exec"
  /\ ipl' = "HIGH"
  /\ UNCHANGED <<sched, saved, masked, cpu, chosen>>

\* Mutant: the IPL of the thread switched to is not restored.
SwitchDispatchKeepIpl ==
  /\ masked /\ ipl = "HIGH" /\ ~sched_queue_empty(sched, RunQ)
  /\ sched' = sched_dispatch(sched)
  /\ masked' = FALSE
  /\ UNCHANGED <<ipl, saved, cpu, chosen>>

\* The next thread leaves its own sched_switch with its own interrupt_l, or
\* starts in __context_initial_func, which sets IPL_LOW.
SwitchDispatch ==
  /\ masked /\ ipl = "HIGH" /\ ~sched_queue_empty(sched, RunQ)
  /\ sched' = sched_dispatch(sched)
  /\ ipl' = saved[sched'.cur]
  /\ masked' = FALSE
  /\ UNCHANGED <<saved, cpu, chosen>>

\* A device interrupt: its handler wakes one or all sleepers of a queue, and
\* a halted processor goes on.
Interrupt(q) ==
  /\ ipl = "LOW" /\ ~sched.panic
  /\ \/ sched' = sched_wakeup_on(sched, q)
     \/ sched' = sched_broadcast_on(sched, q)
  /\ cpu' = IF cpu = "halted" THEN "exec" ELSE cpu
  /\ UNCHANGED <<ipl, saved, masked, chosen>>

-----------------------------------------------------------------------------
\* The calls after which the current thread gives up the processor.
Relinquish ==
  \/ \E q \in WaitQ : SleepOn(q) \/ CancellableSleepOn(q)
  \/ YieldCpu
  \/ Exit

Next ==
  \/ Relinquish
  \/ \E q \in WaitQ : WakeupOn(q) \/ BroadcastOn(q)
  \/ \E t \in Thread : Cancel(t) \/ Start(t) \/ Recycle(t)
  \/ \E l \in Ipl : SetIpl(l)
  \/ SwitchMask \/ SwitchIdle \/ intr_wait \/ SwitchRemask \/ SwitchDispatch
  \/ \E q \in IntrQ : Interrupt(q)

Spec == Init /\ [][Next]_vars

\* Kernel code between two blocking calls is finite, and the processor
\* executes the instructions of sched_switch.
Fairness ==
  /\ WF_vars(Relinquish)
  /\ WF_vars(SwitchMask)
  /\ WF_vars(intr_wait)
  /\ WF_vars(SwitchRemask)
  /\ WF_vars(SwitchDispatch)

FairSpec == Spec /\ Fairness

-----------------------------------------------------------------------------
(***************************************************************************)
(* Properties.                                                             *)
(***************************************************************************)

\* No KASSERT of sched.c fails whatever the threads and interrupts do: a
\* thread is never enqueued twice, woken when it does not sleep, or removed
\* from a list it is not on.
NoPanic == ~sched.panic

\* sched.c:193 "unless the thread is in the KT_NO_STATE or KT_EXITED state,
\* it should be on some queue.  Otherwise, it will never be run again": a
\* started thread executes or is on exactly one list, the one kt_wchan names.
NoThreadLost ==
  \A t \in Thread :
    sched.state[t] \notin {"NO_STATE", "EXITED"} /\ ~Running(sched, t) =>
      \E q \in Queue :
        /\ sched.wchan[t] = q
        /\ \A r \in Queue : t \in Range(sched.queue[r]) <=> r = q

\* Consistency of lists, kt_wchan and kt_state (the inductive invariant).
SchedConsistent == SchedOK(sched)

\* sched.c:247 "The IPL is process specific": while a thread executes, the
\* processor's IPL is the one that thread chose, whoever ran in between.
IplIsThreadLocal == ~masked => ipl = chosen[sched.cur]

\* Queues are first come, first served: a thread leaves a queue (the run queue
\* included) only after everyone ahead of it, and those who stay keep their
\* order.  Only a cancelled thread in a cancellable sleep may leave early.
NoOvertaking ==
  [][\A q \in Queue : \A i, j \in DOMAIN sched.queue[q] :
       LET ti == sched.queue[q][i]
           tj == sched.queue[q][j]
           qq == sched'.queue[q]
       IN  i < j =>
             /\ tj \notin Range(qq) =>
                  ti \notin Range(qq) \/ sched.state[tj] = "SLEEP_CANCELLABLE"
             /\ {ti, tj} \subseteq Range(qq) =>
                  Position(qq, ti) < Position(qq, tj)]_vars

\* No runnable thread starves: a thread on the run queue gets the processor,
\* because every thread ahead of it gives the processor up.  The processor
\* must not halt for good: an interrupt between intr_setipl(IPL_LOW) and hlt
\* leaves it halted with a runnable thread until some other interrupt comes.
RunnableRuns ==
  []<>(cpu # "halted") =>
    \A t \in Thread : sched.wchan[t] = RunQ ~> Running(sched, t)
=============================================================================
