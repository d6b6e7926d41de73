----------------------------- MODULE KmainTests -----------------------------
(***************************************************************************)
(* Two of the thread programs that initproc_run of kernel/main/kmain.c     *)
(* chooses with curtest: 6, a bounded buffer (producer_consumer), and 8,   *)
(* readers and writers (reader_writer).  Both are monitors made of a       *)
(* kmutex and two wait queues.                                             *)
(*                                                                         *)
(* The code leaves the monitor with kmutex_unlock and then sleeps.         *)
(* Nothing runs between the two, because the kernel is not preempted, and  *)
(* nobody gives up the processor inside the monitor; one visit is one      *)
(* step.  The sizes of both programs take every value up to a bound.       *)
(***************************************************************************)
EXTENDS SchedOps, Integers, FiniteSets

CONSTANTS Initt,          \* the thread of the init process
          prod, cons,     \* where producer and consumer sleep
          rq, wq,         \* where readers and writers sleep
          p_wait,         \* where init sleeps in do_waitpid
          MaxBuffer, MaxReader, MaxWriter   \* bounds on MAX, MAX_READER, MAX_WRITER

VARIABLES sched,
          curtest,
          role,            \* the function each thread runs
          pc,              \* where each thread goes on when it runs
          i,               \* its loop counter
          MAX, buffer,     \* the bounded buffer
          max,             \* MAX_READER and MAX_WRITER
          reader,          \* active readers
          writer,          \* waiting and active writers
          active_writer

monitor == <<buffer, reader, writer, active_writer>>
sizes == <<curtest, MAX, max>>
vars == <<sched, role, pc, i, monitor, sizes>>

Sizes == [reader : 0 .. MaxReader, writer : 0 .. MaxWriter]

With(r) == {t \in Thread : role[t] = r}

TypeOK ==
  /\ sched \in SchedType
  /\ curtest \in {6, 8}
  /\ role \in [Thread -> {"none", "init", "producer", "consumer", "reader", "writer"}]
  /\ pc \in [Thread -> {"start", "reader", "writer", "children",
                        "enter", "wait", "inside", "left", "done"}]
  /\ MAX \in 1 .. MaxBuffer /\ max \in Sizes
  /\ i \in [Thread -> 0 .. 10 * MAX + 1]
  /\ buffer \in Nat
  /\ reader \in 0 .. max.reader
  /\ writer \in 0 .. max.writer
  /\ active_writer \in 0 .. writer

Init ==
  /\ sched = SchedInit(Initt)
  /\ curtest \in {6, 8}
  /\ MAX \in (IF curtest = 6 THEN 1 .. MaxBuffer ELSE {1})
  /\ max \in (IF curtest = 8 THEN Sizes ELSE [reader : {0}, writer : {0}])
  /\ role = [t \in Thread |-> IF t = Initt THEN "init" ELSE "none"]
  /\ pc = [t \in Thread |-> IF t = Initt THEN "start" ELSE "enter"]
  /\ i = [t \in Thread |-> 1]
  /\ buffer = 0 /\ reader = 0 /\ writer = 0 /\ active_writer = 0

Executing(t, r, where) ==
  /\ ~sched.switching /\ ~sched.panic /\ sched.cur = t
  /\ role[t] = r /\ pc[t] = where

Goto(t, where) == pc' = [pc EXCEPT ![t] = where]

-----------------------------------------------------------------------------
\* The init process.

NewThread == CHOOSE t \in Thread : role[t] = "none"

\* case 6 of initproc_run: both threads become runnable, the producer first.
producer_consumer ==
  /\ Executing(Initt, "init", "start") /\ curtest = 6
  /\ LET p == NewThread
         c == CHOOSE t \in Thread \ {p} : role[t] = "none"
     IN  /\ role' = [role EXCEPT ![p] = "producer", ![c] = "consumer"]
         /\ sched' = sched_make_runnable(sched_make_runnable(sched, p), c)
  /\ Goto(Initt, "children")
  /\ UNCHANGED <<i, monitor, sizes>>

\* case 8: the loops at the labels reader and writer take turns.  init yields
\* after every thread it creates, and once when no reader is left to create.
reader_writer ==
  /\ Executing(Initt, "init", "start") /\ curtest = 8
  /\ Goto(Initt, "reader")
  /\ UNCHANGED <<sched, role, i, monitor, sizes>>

Create(r) ==
  /\ role' = [role EXCEPT ![NewThread] = r]
  /\ sched' = Yield(sched_make_runnable(sched, NewThread))

CreateReader ==
  /\ Executing(Initt, "init", "reader")
  /\ IF Cardinality(With("reader")) < max.reader
     THEN Create("reader")
     ELSE sched' = Yield(sched) /\ UNCHANGED role
  /\ Goto(Initt, "writer")
  /\ UNCHANGED <<i, monitor, sizes>>

CreateWriter ==
  /\ Executing(Initt, "init", "writer")
  /\ IF Cardinality(With("writer")) < max.writer
     THEN Create("writer") /\ Goto(Initt, "reader")
     ELSE Goto(Initt, "children") /\ UNCHANGED <<sched, role>>
  /\ UNCHANGED <<i, monitor, sizes>>

\* Then init waits for its children in do_waitpid.
WaitForAll ==
  /\ Executing(Initt, "init", "children")
  /\ IF \A t \in Thread \ {Initt} : role[t] # "none" => pc[t] = "done"
     THEN Goto(Initt, "done") /\ UNCHANGED sched
     ELSE sched' = sched_sleep_on(sched, p_wait) /\ UNCHANGED pc
  /\ UNCHANGED <<role, i, monitor, sizes>>

-----------------------------------------------------------------------------
\* The bounded buffer.

Turn(t) == i' = [i EXCEPT ![t] = @ + 1]

YieldIf(c, s) == IF c THEN Yield(s) ELSE s

\* One turn of the producer: it finds the buffer full and sleeps, or adds an
\* item and wakes the consumer.
produce(t) ==
  /\ Executing(t, "producer", "enter") /\ i[t] <= 10 * MAX
  /\ IF buffer = MAX
     THEN sched' = sched_sleep_on(sched, prod) /\ UNCHANGED <<buffer, i>>
     ELSE /\ buffer' = buffer + 1
          /\ Turn(t)
          /\ sched' = YieldIf(i[t] % 3 = 0, sched_wakeup_on(sched, cons))
  /\ UNCHANGED <<role, pc, reader, writer, active_writer, sizes>>

\* One turn of the consumer.
consume(t) ==
  /\ Executing(t, "consumer", "enter") /\ i[t] <= 10 * MAX
  /\ IF buffer = 0
     THEN sched' = sched_sleep_on(sched, cons) /\ UNCHANGED <<buffer, i>>
     ELSE /\ buffer' = buffer - 1
          /\ Turn(t)
          /\ sched' = YieldIf(i[t] % 2 = 0, sched_wakeup_on(sched, prod))
  /\ UNCHANGED <<role, pc, reader, writer, active_writer, sizes>>

-----------------------------------------------------------------------------
\* Readers and writers; their loops run twice.

\* A reader arrives, or tries again after a wakeup.
ReaderEnters(t) ==
  /\ Executing(t, "reader", "enter") /\ i[t] <= 2
  /\ IF writer # 0
     THEN sched' = sched_sleep_on(sched, rq) /\ UNCHANGED <<reader, pc>>
     ELSE /\ reader' = reader + 1
          /\ sched' = Yield(sched)
          /\ Goto(t, "inside")
  /\ UNCHANGED <<role, i, buffer, writer, active_writer, sizes>>

\* Mutant: the last reader wakes readers only.
ReaderLeaves_no_writer(t) ==
  /\ Executing(t, "reader", "inside")
  /\ reader' = reader - 1
  /\ sched' = Yield(IF reader' = 0 THEN sched_wakeup_on(sched, rq) ELSE sched)
  /\ Goto(t, "left")
  /\ UNCHANGED <<role, i, buffer, writer, active_writer, sizes>>

ReaderLeaves(t) ==
  /\ Executing(t, "reader", "inside")
  /\ reader' = reader - 1
  /\ sched' = Yield(IF reader' = 0
                    THEN sched_wakeup_on(sched_wakeup_on(sched, rq), wq)
                    ELSE sched)
  /\ Goto(t, "left")
  /\ UNCHANGED <<role, i, buffer, writer, active_writer, sizes>>

\* Mutant: a writer does not look for readers.
WriterEnters_unchecked(t) ==
  /\ \/ Executing(t, "writer", "enter") /\ i[t] <= 2
     \/ Executing(t, "writer", "wait")
  /\ writer' = IF pc[t] = "enter" THEN writer + 1 ELSE writer
  /\ IF active_writer = 0
     THEN /\ active_writer' = active_writer + 1
          /\ sched' = Yield(sched)
          /\ Goto(t, "inside")
     ELSE /\ sched' = sched_sleep_on(sched, wq)
          /\ Goto(t, "wait")
          /\ UNCHANGED active_writer
  /\ UNCHANGED <<role, i, buffer, reader, sizes>>

\* A writer announces itself once, and tries until nobody is active.
WriterEnters(t) ==
  /\ \/ Executing(t, "writer", "enter") /\ i[t] <= 2
     \/ Executing(t, "writer", "wait")
  /\ writer' = IF pc[t] = "enter" THEN writer + 1 ELSE writer
  /\ IF reader = 0 /\ active_writer = 0
     THEN /\ active_writer' = active_writer + 1
          /\ sched' = Yield(sched)
          /\ Goto(t, "inside")
     ELSE /\ sched' = sched_sleep_on(sched, wq)
          /\ Goto(t, "wait")
          /\ UNCHANGED active_writer
  /\ UNCHANGED <<role, i, buffer, reader, sizes>>

WriterLeaves(t) ==
  /\ Executing(t, "writer", "inside")
  /\ active_writer' = active_writer - 1
  /\ writer' = writer - 1
  /\ sched' = Yield(IF writer' = 0 THEN sched_broadcast_on(sched, rq)
                                   ELSE sched_wakeup_on(sched, wq))
  /\ Goto(t, "left")
  /\ UNCHANGED <<role, i, buffer, reader, sizes>>

\* The for loop of readers and writers.
Again(t) ==
  /\ Executing(t, "reader", "left") \/ Executing(t, "writer", "left")
  /\ Turn(t)
  /\ Goto(t, "enter")
  /\ UNCHANGED <<sched, role, monitor, sizes>>

-----------------------------------------------------------------------------
LoopOver(t) ==
  \/ \E r \in {"producer", "consumer"} : Executing(t, r, "enter") /\ i[t] > 10 * MAX
  \/ \E r \in {"reader", "writer"} : Executing(t, r, "enter") /\ i[t] > 2

\* The thread function returns: the thread exits and wakes init.
Return(t) ==
  /\ LoopOver(t)
  /\ Goto(t, "done")
  /\ sched' = sched_switch(sched_wakeup_on(
                [sched EXCEPT !.state[t] = "EXITED"], p_wait))
  /\ UNCHANGED <<role, i, monitor, sizes>>

SwitchDispatch ==
  /\ sched.switching /\ ~sched.panic /\ ~sched_queue_empty(sched, RunQ)
  /\ sched' = sched_dispatch(sched)
  /\ UNCHANGED <<role, pc, i, monitor, sizes>>

Next ==
  \/ producer_consumer \/ reader_writer \/ CreateReader \/ CreateWriter
  \/ WaitForAll
  \/ \E t \in Thread : produce(t) \/ consume(t)
  \/ \E t \in Thread : ReaderEnters(t) \/ ReaderLeaves(t)
  \/ \E t \in Thread : WriterEnters(t) \/ WriterLeaves(t)
  \/ \E t \in Thread : Again(t) \/ Return(t)
  \/ SwitchDispatch

Spec == Init /\ [][Next]_vars

\* One processor that keeps executing.
FairSpec == Spec /\ WF_vars(Next)

-----------------------------------------------------------------------------
\* The buffer never holds more than MAX items, and a side sleeps only while it
\* really cannot go on: the wakeup of the other side is never missed.
SleepsOnlyWhenBlocked ==
  /\ buffer <= MAX
  /\ \A t \in With("producer") : sched.wchan[t] = prod => buffer = MAX
  /\ \A t \in With("consumer") : sched.wchan[t] = cons => buffer = 0

\* A writer is alone: no second writer and no reader is inside with it, and
\* the counter of the monitor agrees with who is inside.
WriterIsAlone ==
  /\ \A t \in With("writer"), u \in Thread :
       pc[t] = "inside" /\ pc[u] = "inside" => t = u
  /\ reader = Cardinality({t \in With("reader") : pc[t] = "inside"})

\* Nobody is left asleep: all loops run to their end and init sees every thread
\* exit, for every size of the buffer and every number of readers and writers.
AllFinish == <>(pc[Initt] = "done")
=============================================================================
