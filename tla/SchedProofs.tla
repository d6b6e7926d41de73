----------------------------- MODULE SchedProofs -----------------------------
(***************************************************************************)
(* The scheduler invariants of Sched, for any number of threads and queues *)
(* and any pattern of calls and interrupts.                                *)
(***************************************************************************)
EXTENDS Sched, SchedOpsProofs

\* A thread that executes has not exited.
RunnerIsAlive == ~sched.switching => sched.state[sched.cur] # "EXITED"

\* interrupt_l of every thread that does not execute, and of the one whose
\* sched_switch has raised the IPL, is the level that thread chose.
SavedIsChosen ==
  \A t \in Thread : t # sched.cur \/ masked => saved[t] = chosen[t]

\* The inductive invariant.  The consistency of the queues alone is inductive;
\* the IPL needs to know that sched_switch is under way while it is raised,
\* and what a thread that is not running will find when it runs again.
IInv ==
  /\ TypeOK
  /\ SchedOK(sched)
  /\ NoPanic
  /\ RunnerIsAlive
  /\ masked => sched.switching
  /\ IplIsThreadLocal
  /\ SavedIsChosen

\* The invariant holds when the first thread starts.
LEMMA InitIInv == Init => IInv
<1> SUFFICES ASSUME Init PROVE IInv
  OBVIOUS
<1> USE QueueAssumption, SchedAssumption
<1>1. /\ SchedOK(sched) /\ sched.state = [u \in Thread |-> "NO_STATE"]
      /\ sched.cur = Boot /\ sched.switching = FALSE /\ sched.panic = FALSE
  BY SchedInitProperties, Zenon DEF Init
<1>2. TypeOK
  BY <1>1, Zenon DEF Init, TypeOK, Ipl, SchedOK
<1>3. RunnerIsAlive /\ NoPanic
  BY <1>1 DEF RunnerIsAlive, NoPanic
<1>4. IplIsThreadLocal /\ SavedIsChosen /\ ~masked
  BY <1>1 DEF Init, IplIsThreadLocal, SavedIsChosen
<1> QED
  BY <1>1, <1>2, <1>3, <1>4 DEF IInv

\* A call of the current thread that leaves curthr alone preserves IInv when
\* it leaves the scheduler consistent.
LEMMA CallPreserves ==
  ASSUME IInv, NEW s, Call(s),
         SchedOK(s), s.panic = sched.panic, s.cur = sched.cur,
         s.switching \/ s.state[s.cur] # "EXITED"
  PROVE  IInv'
<1>1. /\ sched' = s /\ ~sched.switching /\ ~masked /\ ~masked'
      /\ UNCHANGED <<ipl, saved, masked, cpu, chosen>>
  BY DEF Call, Executing, IInv
<1>2. TypeOK'
  BY <1>1 DEF TypeOK, IInv, SchedOK
<1>3. SchedOK(sched') /\ NoPanic' /\ RunnerIsAlive'
  BY <1>1 DEF IInv, NoPanic, RunnerIsAlive
<1>4. IplIsThreadLocal' /\ SavedIsChosen'
  BY <1>1 DEF IInv, IplIsThreadLocal, SavedIsChosen
<1> QED
  BY <1>1, <1>2, <1>3, <1>4 DEF IInv

\* Waking one or all sleepers of a queue leaves the current thread alone, or
\* makes it runnable when it was one of the sleepers.
LEMMA WakingIsSafe ==
  ASSUME NEW s, SchedOK(s), NEW q \in WaitQ,
         NEW w \in {sched_wakeup_on(s, q), sched_broadcast_on(s, q)}
  PROVE  /\ SchedOK(w) /\ w.panic = s.panic
         /\ w.cur = s.cur /\ w.switching = s.switching
         /\ w.state[s.cur] \in {"RUN", s.state[s.cur]}
<1>1. s.state \in [Thread -> ThreadState] /\ s.cur \in Thread
  BY DEF SchedOK, SchedType
<1>2. CASE w = sched_wakeup_on(s, q) /\ s.queue[q] # <<>>
  <2>1. /\ Becomes(s, w, [s.state EXCEPT ![Oldest(s, q)] = "RUN"],
                         [s.wchan EXCEPT ![Oldest(s, q)] = RunQ], s.switching)
        /\ SchedOK(w)
    BY <1>2, WakeupProperties, Zenon
  <2> QED
    BY <1>1, <2>1 DEF Becomes
<1>3. CASE w = sched_wakeup_on(s, q) /\ s.queue[q] = <<>>
  BY <1>3 DEF sched_wakeup_on, sched_queue_empty
<1>4. CASE w = sched_broadcast_on(s, q)
  <2>1. /\ SchedOK(w) /\ w.panic = s.panic
        /\ w.cur = s.cur /\ w.switching = s.switching
    BY <1>4, BroadcastProperties, Zenon
  <2>2. w.state[s.cur] \in {"RUN", s.state[s.cur]}
    BY <1>4 DEF sched_broadcast_on, Kassert, Panic, SchedOK, SchedType
  <2> QED
    BY <2>1, <2>2
<1> QED
  BY <1>2, <1>3, <1>4

\* An interrupt, which may come at any time, changes the scheduler state only
\* by waking sleepers.
LEMMA InterruptPreserves ==
  ASSUME IInv, NEW q \in WaitQ, Interrupt(q)
  PROVE  IInv'
<1>1. /\ UNCHANGED <<ipl, saved, masked, chosen>>
      /\ cpu' \in {cpu, "exec"}
  BY DEF Interrupt
<1>2. /\ SchedOK(sched') /\ sched'.panic = sched.panic
      /\ sched'.cur = sched.cur /\ sched'.switching = sched.switching
      /\ sched'.state[sched.cur] \in {"RUN", sched.state[sched.cur]}
  BY WakingIsSafe DEF Interrupt, IInv
<1>3. TypeOK'
  BY <1>1, <1>2 DEF TypeOK, IInv, SchedOK
<1>4. IplIsThreadLocal' /\ SavedIsChosen'
  BY <1>1, <1>2 DEF IInv, IplIsThreadLocal, SavedIsChosen
<1>5. RunnerIsAlive' /\ NoPanic' /\ (masked' => sched'.switching)
  BY <1>1, <1>2 DEF IInv, RunnerIsAlive, NoPanic
<1> QED
  BY <1>2, <1>3, <1>4, <1>5 DEF IInv

\* The calls of the current thread, one step per function.
LEMMA CallsPreserve ==
  ASSUME IInv,
         \/ Relinquish
         \/ \E q \in WaitQ : WakeupOn(q) \/ BroadcastOn(q)
         \/ \E t \in Thread : Cancel(t) \/ Start(t)
  PROVE  IInv'
<1>1. /\ SchedOK(sched) /\ ~sched.switching
      /\ sched.state[sched.cur] # "EXITED"
      /\ sched.state \in [Thread -> ThreadState] /\ sched.cur \in Thread
      /\ sched.wchan[sched.cur] = NULL
  BY DEF IInv, RunnerIsAlive, SchedOK, SchedType, RunnerIsOffQueue,
         Relinquish, SleepOn, CancellableSleepOn, YieldCpu, Exit, WakeupOn,
         BroadcastOn, Cancel, Start, Call, Executing
<1>2. ASSUME NEW q \in WaitQ, SleepOn(q) PROVE IInv'
  BY <1>1, <1>2, CallPreserves, SleepProperties, Zenon
     DEF SleepOn, sched_sleep_on, Asleep, Becomes
<1>3. ASSUME NEW q \in WaitQ, CancellableSleepOn(q) PROVE IInv'
  BY <1>1, <1>3, CallPreserves, SleepProperties, Zenon
     DEF CancellableSleepOn, sched_cancellable_sleep_on, Asleep, Becomes
<1>4. ASSUME YieldCpu PROVE IInv'
  BY <1>1, <1>4, CallPreserves, YieldProperties, Zenon DEF YieldCpu, Becomes
<1>5. ASSUME Exit PROVE IInv'
  BY <1>1, <1>5, CallPreserves, ExitProperties, Zenon DEF Exit, Kassert, Becomes
<1>6. ASSUME NEW q \in WaitQ, WakeupOn(q) \/ BroadcastOn(q) PROVE IInv'
  <2>1. PICK w \in {sched_wakeup_on(sched, q), sched_broadcast_on(sched, q)} :
          Call(w)
    BY <1>6 DEF WakeupOn, BroadcastOn
  <2>2. /\ SchedOK(w) /\ w.panic = sched.panic
        /\ w.cur = sched.cur /\ w.switching = sched.switching
        /\ w.state[sched.cur] \in {"RUN", sched.state[sched.cur]}
    BY <1>1, WakingIsSafe, Zenon
  <2> QED
    BY <1>1, <2>1, <2>2, CallPreserves
<1>7. ASSUME NEW t \in Thread, Cancel(t) PROVE IInv'
  <2> DEFINE c == sched_cancel(sched, t)
  <2>1. /\ SchedOK(c)
        /\ c.panic = sched.panic /\ c.cur = sched.cur
        /\ c.state = sched.state \/ c.state = [sched.state EXCEPT ![t] = "RUN"]
    BY <1>1, <1>7, CancelProperties, Zenon DEF Cancel
  <2>2. c.state[sched.cur] # "EXITED" /\ Call(c)
    BY <1>1, <1>7, <2>1 DEF Cancel
  <2> HIDE DEF c
  <2> QED
    BY <2>1, <2>2, CallPreserves
<1>8. ASSUME NEW t \in Thread, Start(t) PROVE IInv'
  <2> DEFINE m == sched_make_runnable(sched, t)
  <2>1. /\ SchedOK(m)
        /\ Becomes(sched, m, [sched.state EXCEPT ![t] = "RUN"],
                   [sched.wchan EXCEPT ![t] = RunQ], sched.switching)
    BY <1>1, <1>8, StartProperties DEF Start
  <2> HIDE DEF m
  <2>2. m.state[sched.cur] # "EXITED" /\ Call(m)
    BY <1>1, <1>8, <2>1 DEF Start, Becomes, m
  <2> QED
    BY <2>1, <2>2, CallPreserves, Zenon DEF Becomes
<1> QED
  BY <1>2, <1>3, <1>4, <1>5, <1>6, <1>7, <1>8 DEF Relinquish

\* The steps of sched_switch.
LEMMA SwitchPreserves ==
  ASSUME IInv, SwitchMask \/ SwitchIdle \/ intr_wait \/ SwitchRemask \/ SwitchDispatch
  PROVE  IInv'
<1> USE DEF Ipl
<1>1. CASE SwitchMask
  <2>1. TypeOK'
    BY <1>1, Zenon DEF SwitchMask, IInv, TypeOK
  <2>2. SchedOK(sched') /\ NoPanic' /\ RunnerIsAlive' /\ (masked' => sched'.switching)
    BY <1>1 DEF SwitchMask, IInv, NoPanic, RunnerIsAlive
  <2>3. IplIsThreadLocal' /\ SavedIsChosen'
    BY <1>1 DEF SwitchMask, IInv, TypeOK, SchedType, IplIsThreadLocal, SavedIsChosen
  <2> QED
    BY <2>1, <2>2, <2>3 DEF IInv
<1>2. CASE SwitchIdle \/ intr_wait \/ SwitchRemask
  <2>1. TypeOK'
    BY <1>2 DEF SwitchIdle, intr_wait, SwitchRemask, IInv, TypeOK
  <2>2. SchedOK(sched') /\ NoPanic' /\ RunnerIsAlive' /\ (masked' => sched'.switching)
    BY <1>2 DEF SwitchIdle, intr_wait, SwitchRemask, IInv, NoPanic, RunnerIsAlive
  <2>3. IplIsThreadLocal' /\ SavedIsChosen'
    BY <1>2 DEF SwitchIdle, intr_wait, SwitchRemask, IInv, IplIsThreadLocal, SavedIsChosen
  <2> QED
    BY <2>1, <2>2, <2>3 DEF IInv
<1>3. CASE SwitchDispatch
  <2>1. SchedOK(sched) /\ sched.switching /\ sched.queue[RunQ] # <<>> /\ masked
    BY <1>3 DEF SwitchDispatch, sched_queue_empty, IInv
  <2>2. /\ SchedOK(sched') /\ sched'.cur \in Thread
        /\ sched'.switching = FALSE /\ sched'.panic = sched.panic
        /\ sched'.state = sched.state
        /\ sched.wchan[sched'.cur] = RunQ
    BY <1>3, <2>1, DispatchProperties, Zenon DEF SwitchDispatch
  <2>3. sched.state[sched'.cur] = "RUN"
    BY <2>1, <2>2 DEF SchedOK, StatesMatchWchan
  <2>4. /\ ipl' = saved[sched'.cur] /\ masked' = FALSE
        /\ saved' = saved /\ chosen' = chosen /\ cpu' = cpu
        /\ \A t \in Thread : saved[t] = chosen[t]
    BY <1>3, <2>1 DEF SwitchDispatch, IInv, SavedIsChosen
  <2>5. TypeOK'
    BY <2>2, <2>4, Zenon DEF IInv, TypeOK, SchedOK
  <2>6. NoPanic' /\ RunnerIsAlive'
    BY <2>2, <2>3 DEF IInv, NoPanic, RunnerIsAlive
  <2>7. IplIsThreadLocal' /\ SavedIsChosen'
    BY <2>2, <2>4 DEF IplIsThreadLocal, SavedIsChosen
  <2> QED
    BY <2>2, <2>4, <2>5, <2>6, <2>7 DEF IInv
<1> QED
  BY <1>1, <1>2, <1>3

\* Steps that change neither the lists nor the current thread.
LEMMA OtherPreserve ==
  ASSUME IInv,
         \/ \E t \in Thread : Recycle(t)
         \/ \E l \in Ipl : SetIpl(l)
  PROVE  IInv'
<1>1. ASSUME NEW t \in Thread, Recycle(t) PROVE IInv'
  <2>1. /\ ~sched.switching /\ t # sched.cur /\ sched.state[t] = "EXITED"
        /\ sched \in SchedType /\ ~masked /\ sched.cur \in Thread
    BY <1>1 DEF Recycle, Executing, IInv, RunnerIsAlive, SchedOK, SchedType
  <2>2. /\ SchedOK(sched')
        /\ sched'.state = [sched.state EXCEPT ![t] = "NO_STATE"]
        /\ sched'.cur = sched.cur /\ sched'.switching = sched.switching
        /\ sched'.panic = sched.panic
    BY <1>1, <2>1, FreeSlotProperties, Zenon DEF Recycle, IInv
  <2>3. /\ saved' = [saved EXCEPT ![t] = "LOW"]
        /\ chosen' = [chosen EXCEPT ![t] = "LOW"]
        /\ ipl' = ipl /\ masked' = masked /\ cpu' = cpu
    BY <1>1 DEF Recycle
  <2>6. RunnerIsAlive' /\ NoPanic'
    BY <2>1, <2>2 DEF IInv, SchedType, RunnerIsAlive, NoPanic
  <2>7. IplIsThreadLocal' /\ SavedIsChosen'
    BY <2>1, <2>2, <2>3 DEF IInv, TypeOK, IplIsThreadLocal, SavedIsChosen
  <2>8. TypeOK'
    BY <2>2, <2>3 DEF IInv, TypeOK, SchedOK, Ipl
  <2> QED
    BY <2>1, <2>2, <2>3, <2>6, <2>7, <2>8 DEF IInv
<1>2. ASSUME NEW l \in Ipl, SetIpl(l) PROVE IInv'
  <2>1. /\ sched' = sched /\ saved' = saved /\ masked' = masked /\ ~masked
        /\ cpu' = cpu
        /\ ipl' = l /\ chosen' = [chosen EXCEPT ![sched.cur] = l]
    BY <1>2 DEF SetIpl, Executing, IInv
  <2>2. TypeOK'
    BY <2>1, Zenon DEF IInv, TypeOK
  <2>3. SchedOK(sched') /\ NoPanic' /\ RunnerIsAlive'
    BY <2>1 DEF IInv, NoPanic, RunnerIsAlive
  <2>4. IplIsThreadLocal' /\ SavedIsChosen'
    BY <2>1 DEF IInv, TypeOK, SchedType, IplIsThreadLocal, SavedIsChosen
  <2> QED
    BY <2>1, <2>2, <2>3, <2>4 DEF IInv
<1> QED
  BY <1>1, <1>2

\* Every step preserves the invariant.
LEMMA NextIInv == IInv /\ [Next]_vars => IInv'
<1> SUFFICES ASSUME IInv, [Next]_vars PROVE IInv'
  OBVIOUS
<1>1. CASE UNCHANGED vars
  BY <1>1 DEF vars, IInv, TypeOK, NoPanic, RunnerIsAlive, IplIsThreadLocal,
              SavedIsChosen
<1>2. CASE Next
  BY <1>2, SchedAssumption, CallsPreserve, SwitchPreserves, OtherPreserve,
     InterruptPreserves DEF Next
<1> QED
  BY <1>1, <1>2

-----------------------------------------------------------------------------
\* The inductive invariant holds in every reachable state.
THEOREM SpecIInv == Spec => []IInv
BY InitIInv, NextIInv, PTL DEF Spec

\* Every scheduler field keeps its type.
THEOREM TypeCorrect == Spec => []TypeOK
<1>1. IInv => TypeOK
  BY DEF IInv
<1> QED
  BY <1>1, SpecIInv, PTL

\* The lists, kt_wchan and kt_state agree at all times.
THEOREM AlwaysConsistent == Spec => []SchedConsistent
<1>1. IInv => SchedConsistent
  BY DEF IInv, SchedConsistent
<1> QED
  BY <1>1, SpecIInv, PTL

\* No KASSERT of sched.c fails.
THEOREM NeverPanics == Spec => []NoPanic
<1>1. IInv => NoPanic
  BY DEF IInv
<1> QED
  BY <1>1, SpecIInv, PTL

\* Each thread executes at the IPL it chose.
THEOREM IplPerThread == Spec => []IplIsThreadLocal
<1>1. IInv => IplIsThreadLocal
  BY DEF IInv
<1> QED
  BY <1>1, SpecIInv, PTL

\* A started thread that does not execute is on exactly one queue.
THEOREM NeverLost == Spec => []NoThreadLost
<1>1. IInv => NoThreadLost
  <2> SUFFICES ASSUME IInv, NEW t \in Thread,
                      sched.state[t] \notin {"NO_STATE", "EXITED"},
                      ~Running(sched, t)
               PROVE  \E q \in Queue :
                        /\ sched.wchan[t] = q
                        /\ \A r \in Queue : t \in Range(sched.queue[r]) <=> r = q
    BY DEF NoThreadLost
  <2>1. SchedOK(sched) /\ sched.state[t] \in ThreadState
    BY DEF IInv, SchedOK, SchedType
  <2>2. sched.wchan[t] \in Queue
    BY <2>1, StatesCases DEF ThreadState, Asleep, Queue
  <2>3. \A r \in Queue : t \in Range(sched.queue[r]) <=> sched.wchan[t] = r
    BY <2>1 DEF SchedOK, QueuesMatchWchan
  <2> QED
    BY <2>2, <2>3
<1> QED
  BY <1>1, SpecIInv, PTL

-----------------------------------------------------------------------------
\* List b may follow list a when threads have the states st: nobody has left
\* before one who was ahead of it, but for a cancelled sleeper, and those who
\* stay keep their order.
InOrder(a, b, st) ==
  \A i, j \in DOMAIN a : i < j =>
    /\ a[j] \notin Range(b) => a[i] \notin Range(b) \/ st[a[j]] = "SLEEP_CANCELLABLE"
    /\ {a[i], a[j]} \subseteq Range(b) => Position(b, a[i]) < Position(b, a[j])

\* In a list without repetition a thread is where it is found.
LEMMA PositionIs ==
  ASSUME NEW b, IsInjective(b), NEW k \in DOMAIN b
  PROVE  b[k] \in Range(b) /\ Position(b, b[k]) = k
BY DEF IsInjective, Range, Position

\* ktqueue_enqueue and sched_broadcast_on add threads behind the others.
LEMMA LongerInOrder ==
  ASSUME NEW a \in Seq(Thread), NEW b \in Seq(Thread), NEW st, IsInjective(b),
         Len(a) <= Len(b), \A i \in 1 .. Len(a) : b[i] = a[i]
  PROVE  InOrder(a, b, st)
<1> SUFFICES ASSUME NEW i \in DOMAIN a, NEW j \in DOMAIN a, i < j
             PROVE  /\ a[j] \in Range(b)
                    /\ Position(b, a[i]) < Position(b, a[j])
  BY DEF InOrder
<1>1. i \in DOMAIN b /\ j \in DOMAIN b /\ b[i] = a[i] /\ b[j] = a[j]
  BY LenProperties
<1> QED
  BY <1>1, PositionIs

\* ktqueue_dequeue takes the thread ahead of all others.
LEMMA TailInOrder ==
  ASSUME NEW a \in Seq(Thread), a # <<>>, NEW st, IsInjective(a)
  PROVE  InOrder(a, Tail(a), st)
<1> DEFINE b == Tail(a)
<1>1. /\ b \in Seq(Thread) /\ Len(b) = Len(a) - 1
      /\ \A i \in 1 .. Len(b) : b[i] = a[i + 1]
      /\ Head(a) = a[1] /\ Len(a) \in Nat \ {0}
  BY HeadTailProperties, EmptySeq
<1>2. DOMAIN a = 1 .. Len(a) /\ DOMAIN b = 1 .. Len(a) - 1
  BY <1>1, LenProperties
<1>3. IsInjective(b) /\ Range(b) = Range(a) \ {a[1]}
  BY <1>1, TailInjective
<1> HIDE DEF b
<1>4. ASSUME NEW k \in DOMAIN a, k # 1
      PROVE  a[k] \in Range(b) /\ Position(b, a[k]) = k - 1
  <2>1. k - 1 \in DOMAIN b /\ b[k - 1] = a[k]
    BY <1>1, <1>2, <1>4
  <2> QED
    BY <1>3, <2>1, PositionIs
<1>5. ASSUME NEW i \in DOMAIN a, NEW j \in DOMAIN a, i < j
      PROVE  /\ a[j] \in Range(b)
             /\ a[i] \in Range(b) => Position(b, a[i]) < Position(b, a[j])
  <2>1. j # 1 /\ i \in Nat /\ j \in Nat
    BY <1>1, <1>2, <1>5
  <2>2. a[i] \in Range(b) => i # 1
    BY <1>3
  <2> QED
    BY <1>4, <1>5, <2>1, <2>2
<1> QED
  BY <1>5 DEF InOrder, b

\* ktqueue_remove takes one thread from the middle and moves up the others.
LEMMA DropInOrder ==
  ASSUME NEW a \in Seq(Thread), NEW st, IsInjective(a), NEW e \in Range(a),
         st[e] = "SLEEP_CANCELLABLE"
  PROVE  InOrder(a, DropAt(a, Position(a, e)), st)
<1> DEFINE p == Position(a, e)
<1> DEFINE b == DropAt(a, p)
<1>1. Len(a) \in Nat /\ DOMAIN a = 1 .. Len(a)
  BY LenProperties
<1>2. p \in 1 .. Len(a) /\ a[p] = e
  BY <1>1 DEF Position, Range
<1>3. IsInjective(b) /\ Range(b) = Range(a) \ {e}
  BY DropAtInjective
<1> HIDE DEF p
<1>4. /\ DOMAIN b = 1 .. Len(a) - 1
      /\ \A i \in 1 .. Len(a) - 1 : b[i] = IF i < p THEN a[i] ELSE a[i + 1]
  BY DEF DropAt
<1> HIDE DEF b
<1>5. ASSUME NEW k \in DOMAIN a, k # p
      PROVE  /\ a[k] \in Range(b)
             /\ Position(b, a[k]) = IF k < p THEN k ELSE k - 1
  <2> DEFINE m == IF k < p THEN k ELSE k - 1
  <2>1. m \in DOMAIN b /\ b[m] = a[k]
    BY <1>1, <1>2, <1>4, <1>5
  <2> HIDE DEF m
  <2>2. a[k] \in Range(b) /\ Position(b, a[k]) = m
    BY <1>3, <2>1, PositionIs
  <2> QED
    BY <2>2 DEF m
<1>6. ASSUME NEW i \in DOMAIN a, NEW j \in DOMAIN a, i < j
      PROVE  /\ a[j] \notin Range(b) => st[a[j]] = "SLEEP_CANCELLABLE"
             /\ {a[i], a[j]} \subseteq Range(b) => Position(b, a[i]) < Position(b, a[j])
  <2>1. a[j] \notin Range(b) => j = p
    BY <1>5
  <2>2. {a[i], a[j]} \subseteq Range(b) => i # p /\ j # p
    BY <1>2, <1>3
  <2>3. i # p /\ j # p => Position(b, a[i]) < Position(b, a[j])
    BY <1>1, <1>2, <1>5, <1>6
  <2> QED
    BY <1>2, <2>1, <2>2, <2>3
<1> QED
  BY <1>6 DEF InOrder, b, p

\* Nobody is left.
LEMMA EmptyInOrder ==
  ASSUME NEW a, NEW st PROVE InOrder(a, <<>>, st)
BY DEF InOrder, Range

\* The lists of s2 may follow those of s.
QueuesInOrder(s, s2) == \A r \in Queue : InOrder(s.queue[r], s2.queue[r], s.state)

\* A list that stays, or to which threads are added, is in order.
LEMMA GrowsInOrder ==
  ASSUME NEW s, SchedOK(s), NEW s2, SchedOK(s2), NEW r \in Queue,
         \/ s2.queue[r] = s.queue[r]
         \/ \E t \in Thread : s2.queue[r] = Append(s.queue[r], t)
         \/ \E q \in Queue : s2.queue[r] = s.queue[r] \o s.queue[q]
  PROVE  InOrder(s.queue[r], s2.queue[r], s.state)
<1> DEFINE a == s.queue[r]
<1> DEFINE b == s2.queue[r]
<1>1. a \in Seq(Thread) /\ b \in Seq(Thread) /\ IsInjective(b)
  BY DEF SchedOK, SchedType, QueuesMatchWchan
<1>2. \/ b = a
      \/ \E t \in Thread : b = Append(a, t)
      \/ \E u \in Seq(Thread) : b = a \o u
  BY Zenon DEF SchedOK, SchedType
<1> HIDE DEF a, b
<1>3. Len(a) <= Len(b) /\ \A i \in 1 .. Len(a) : b[i] = a[i]
  <2>1. CASE b = a
    BY <1>1, <2>1, LenProperties
  <2>2. ASSUME NEW t \in Thread, b = Append(a, t)
        PROVE  Len(a) <= Len(b) /\ \A i \in 1 .. Len(a) : b[i] = a[i]
    BY <1>1, <2>2, AppendProperties, LenProperties
  <2>3. ASSUME NEW u \in Seq(Thread), b = a \o u
        PROVE  Len(a) <= Len(b) /\ \A i \in 1 .. Len(a) : b[i] = a[i]
    BY <1>1, <2>3, ConcatProperties, LenProperties
  <2> QED
    BY <1>2, <2>1, <2>2, <2>3
<1>4. InOrder(a, b, s.state)
  BY <1>1, <1>3, LongerInOrder
<1> QED
  BY <1>4 DEF a, b

\* Waking the oldest or all sleepers of a queue.
LEMMA WakingInOrder ==
  ASSUME NEW s, SchedOK(s), NEW q \in WaitQ,
         NEW w \in {sched_wakeup_on(s, q), sched_broadcast_on(s, q)}
  PROVE  QueuesInOrder(s, w)
<1> USE QueueAssumption
<1>0. SchedOK(w) /\ q \in Queue /\ RunQ \in Queue /\ q # RunQ
  BY WakingIsSafe DEF Queue
<1>1. CASE w = sched_wakeup_on(s, q) /\ s.queue[q] # <<>>
  <2>1. /\ Oldest(s, q) \in Thread
        /\ w.queue[RunQ] = Append(s.queue[RunQ], Oldest(s, q))
        /\ w.queue[q] = Tail(s.queue[q])
        /\ SameQueuesBut(s, w, {q, RunQ})
    BY <1>1, WakeupProperties, Zenon
  <2>2. InOrder(s.queue[q], w.queue[q], s.state)
    BY <1>0, <1>1, <2>1, TailInOrder DEF SchedOK, SchedType, QueuesMatchWchan
  <2>3. ASSUME NEW r \in Queue, r # q PROVE InOrder(s.queue[r], w.queue[r], s.state)
    BY <1>0, <2>1, <2>3, GrowsInOrder, Zenon DEF SameQueuesBut
  <2> QED
    BY <2>2, <2>3 DEF QueuesInOrder
<1>2. CASE w = sched_wakeup_on(s, q) /\ s.queue[q] = <<>>
  <2>1. w = s
    BY <1>2 DEF sched_wakeup_on, sched_queue_empty
  <2> QED
    BY <2>1, GrowsInOrder, Zenon DEF QueuesInOrder
<1>3. CASE w = sched_broadcast_on(s, q)
  <2>1. /\ w.queue[q] = <<>> /\ w.queue[RunQ] = s.queue[RunQ] \o s.queue[q]
        /\ SameQueuesBut(s, w, {q, RunQ})
    BY <1>3, BroadcastProperties, Zenon
  <2>2. InOrder(s.queue[q], w.queue[q], s.state)
    BY <2>1, EmptyInOrder
  <2>3. ASSUME NEW r \in Queue, r # q PROVE InOrder(s.queue[r], w.queue[r], s.state)
    BY <1>0, <2>1, <2>3, GrowsInOrder, Zenon DEF SameQueuesBut
  <2> QED
    BY <2>2, <2>3 DEF QueuesInOrder
<1> QED
  BY <1>1, <1>2, <1>3

\* Cancelling a thread takes it from its queue only out of a cancellable sleep.
LEMMA CancelInOrder ==
  ASSUME NEW s, SchedOK(s), NEW t \in Thread, s.state[t] \notin {"NO_STATE", "EXITED"},
         NEW c, c = sched_cancel(s, t)
  PROVE  QueuesInOrder(s, c)
<1>0. SchedOK(c)
  BY CancelProperties, Zenon
<1>1. CASE s.state[t] # "SLEEP_CANCELLABLE"
  <2>1. c.queue = s.queue
    BY <1>1, CancelProperties, Zenon
  <2> QED
    BY <1>0, <2>1, GrowsInOrder, Zenon DEF QueuesInOrder
<1>2. CASE s.state[t] = "SLEEP_CANCELLABLE"
  <2> DEFINE q == s.wchan[t]
  <2>1. /\ q \in WaitQ
        /\ c.queue[q] = DropAt(s.queue[q], Position(s.queue[q], t))
        /\ c.queue[RunQ] = Append(s.queue[RunQ], t)
        /\ SameQueuesBut(s, c, {q, RunQ})
    BY <1>2, CancelProperties, Zenon
  <2>2. /\ q \in Queue /\ q # RunQ /\ s.queue[q] \in Seq(Thread)
        /\ IsInjective(s.queue[q]) /\ t \in Range(s.queue[q])
    BY <2>1, QueueAssumption DEF Queue, SchedOK, SchedType, QueuesMatchWchan
  <2> HIDE DEF q
  <2>3. InOrder(s.queue[q], c.queue[q], s.state)
    BY <1>2, <2>1, <2>2, DropInOrder
  <2>4. ASSUME NEW r \in Queue, r # q PROVE InOrder(s.queue[r], c.queue[r], s.state)
    BY <1>0, <2>1, <2>4, GrowsInOrder, Zenon DEF SameQueuesBut
  <2> QED
    BY <2>3, <2>4 DEF QueuesInOrder
<1> QED
  BY <1>1, <1>2

\* No step of the scheduler lets a thread overtake another.
LEMMA StepInOrder == IInv /\ IInv' /\ [Next]_vars => QueuesInOrder(sched, sched')
<1> SUFFICES ASSUME IInv, IInv', [Next]_vars PROVE QueuesInOrder(sched, sched')
  OBVIOUS
<1> USE QueueAssumption
<1>0. SchedOK(sched) /\ SchedOK(sched') /\ RunQ \in Queue /\ WaitQ \subseteq Queue
  BY DEF IInv, Queue
<1>a. ASSUME \A r \in Queue : \/ sched'.queue[r] = sched.queue[r]
                              \/ \E t \in Thread : sched'.queue[r] = Append(sched.queue[r], t)
      PROVE  QueuesInOrder(sched, sched')
  BY <1>0, <1>a, GrowsInOrder, Zenon DEF QueuesInOrder
<1>b. sched.cur \in Thread
  BY <1>0 DEF SchedOK, SchedType
<1>1. CASE sched' = sched
  BY <1>1, <1>a
<1>2. ASSUME NEW q \in WaitQ, SleepOn(q) \/ CancellableSleepOn(q)
      PROVE  QueuesInOrder(sched, sched')
  <2>1. ~sched.switching
    BY <1>2 DEF SleepOn, CancellableSleepOn, Call, Executing
  <2>2. PICK st \in Asleep : sched' = sched_switch(ktqueue_enqueue(
                                        [sched EXCEPT !.state[sched.cur] = st], q, sched.cur))
    BY <1>2 DEF SleepOn, CancellableSleepOn, Call, sched_sleep_on, sched_cancellable_sleep_on, Asleep
  <2>3. /\ sched'.queue[q] = Append(sched.queue[q], sched.cur)
        /\ SameQueuesBut(sched, sched', {q})
    BY <1>0, <2>1, <2>2, SleepProperties, Zenon
  <2> QED
    BY <1>a, <1>b, <2>3 DEF SameQueuesBut
<1>3. CASE YieldCpu
  <2>1. /\ sched'.queue[RunQ] = Append(sched.queue[RunQ], sched.cur)
        /\ SameQueuesBut(sched, sched', {RunQ})
    BY <1>0, <1>3, YieldProperties, Zenon DEF YieldCpu, Call, Executing
  <2> QED
    BY <1>a, <1>b, <2>1 DEF SameQueuesBut
<1>4. CASE Exit
  <2>1. ~sched.switching /\ sched.wchan[sched.cur] = NULL
    BY <1>0, <1>4 DEF Exit, Call, Executing, SchedOK, RunnerIsOffQueue
  <2>2. sched' = sched_switch([sched EXCEPT !.state[sched.cur] = "EXITED"])
    BY <1>4, <2>1 DEF Exit, Call, Kassert
  <2>3. sched'.queue = sched.queue
    BY <1>0, <2>1, <2>2, ExitProperties, Zenon
  <2> QED
    BY <1>a, <2>3
<1>5. ASSUME NEW q \in WaitQ, WakeupOn(q) \/ BroadcastOn(q) \/ Interrupt(q)
      PROVE  QueuesInOrder(sched, sched')
  BY <1>0, <1>5, WakingInOrder DEF WakeupOn, BroadcastOn, Interrupt, Call
<1>6. ASSUME NEW t \in Thread, Cancel(t) PROVE QueuesInOrder(sched, sched')
  BY <1>0, <1>6, CancelInOrder DEF Cancel, Call
<1>7. ASSUME NEW t \in Thread, Start(t) PROVE QueuesInOrder(sched, sched')
  <2>1. /\ sched'.queue[RunQ] = Append(sched.queue[RunQ], t)
        /\ SameQueuesBut(sched, sched', {RunQ})
    BY <1>0, <1>7, StartProperties, Zenon DEF Start, Call
  <2> QED
    BY <1>a, <2>1 DEF SameQueuesBut
<1>8. ASSUME NEW t \in Thread, Recycle(t) PROVE QueuesInOrder(sched, sched')
  <2>1. sched'.queue = sched.queue
    BY <1>0, <1>8, FreeSlotProperties, Zenon DEF Recycle
  <2> QED
    BY <1>a, <2>1
<1>9. CASE SwitchDispatch
  <2>1. sched.switching /\ sched.queue[RunQ] # <<>>
    BY <1>9 DEF SwitchDispatch, sched_queue_empty, IInv
  <2>2. /\ sched'.queue[RunQ] = Tail(sched.queue[RunQ])
        /\ SameQueuesBut(sched, sched', {RunQ})
    BY <1>0, <1>9, <2>1, DispatchProperties, Zenon DEF SwitchDispatch
  <2>3. InOrder(sched.queue[RunQ], sched'.queue[RunQ], sched.state)
    BY <1>0, <2>1, <2>2, TailInOrder DEF SchedOK, SchedType, QueuesMatchWchan
  <2>4. ASSUME NEW r \in Queue, r # RunQ
        PROVE  InOrder(sched.queue[r], sched'.queue[r], sched.state)
    BY <1>0, <2>2, <2>4, GrowsInOrder, Zenon DEF SameQueuesBut
  <2> QED
    BY <2>3, <2>4 DEF QueuesInOrder
<1> QED
  BY <1>1, <1>2, <1>3, <1>4, <1>5, <1>6, <1>7, <1>8, <1>9, SchedAssumption
     DEF Next, Relinquish, SetIpl, SwitchMask, SwitchIdle, intr_wait, SwitchRemask, vars

\* sched.c's queues are first come, first served, whatever threads and
\* interrupts do: ktqueue_enqueue adds behind everybody, ktqueue_dequeue takes
\* from the front, and only sched_cancel takes a thread from the middle.
THEOREM FirstComeFirstServed == Spec => NoOvertaking
<1>1. IInv /\ IInv' /\ [Next]_vars =>
        [\A q \in Queue : \A i, j \in DOMAIN sched.queue[q] :
           LET ti == sched.queue[q][i]
               tj == sched.queue[q][j]
               qq == sched'.queue[q]
           IN  i < j =>
                 /\ tj \notin Range(qq) =>
                      ti \notin Range(qq) \/ sched.state[tj] = "SLEEP_CANCELLABLE"
                 /\ {ti, tj} \subseteq Range(qq) =>
                      Position(qq, ti) < Position(qq, tj)]_vars
  BY StepInOrder DEF QueuesInOrder, InOrder
<1> QED
  BY <1>1, SpecIInv, PTL DEF Spec, NoOvertaking
=============================================================================
