---------------------------- MODULE KMutexProofs ----------------------------
(***************************************************************************)
(* Mutual exclusion and hand-over of the kernel mutexes, for any number of *)
(* threads and mutexes.                                                    *)
(***************************************************************************)
EXTENDS KMutex, SchedOpsProofs

\* A thread on a wait queue sleeps in a lock call for the mutex of that queue,
\* which another thread holds; only a cancellable lock call sleeps cancellably.
Sleepers ==
  \A t \in Thread : sched.wchan[t] \in WaitQ =>
    /\ sched.wchan[t] \in Mutex
    /\ holder[sched.wchan[t]] \notin {NULL, t}
    /\ call[t].mtx = sched.wchan[t]
    /\ sched.state[t] = "SLEEP_CANCELLABLE" => call[t].op = "lock_cancellable"

\* A thread in a lock call that sleeps no more has been given the mutex, or
\* its cancellable sleep was cancelled.
Woken ==
  \A t \in Thread : call[t] # NoCall /\ sched.wchan[t] \notin WaitQ =>
    \/ holder[call[t].mtx] = t
    \/ call[t].op = "lock_cancellable" /\ sched.cancelled[t]

\* The inductive invariant.
IInv ==
  /\ TypeOK
  /\ SchedOK(sched)
  /\ HeldMeansHolder
  /\ Sleepers
  /\ Woken

\* The record NoCall differs from every pending lock call, and what a call holds.
LEMMA NoCallFacts ==
  /\ NoCall.mtx = NULL
  /\ NoCall \in Calls
  /\ \A c \in Calls : c # NoCall => /\ c.mtx \in Mutex /\ c.mtx # NULL
                                   /\ c.op \in {"lock", "lock_cancellable"}
  /\ \A m \in Mutex, op \in {"lock", "lock_cancellable"} :
       /\ [op |-> op, mtx |-> m] \in Calls
       /\ [op |-> op, mtx |-> m] # NoCall
       /\ [op |-> op, mtx |-> m].mtx = m
       /\ [op |-> op, mtx |-> m].op = op
<1> USE QueueAssumption, KMutexAssumption
<1> QED
  BY DEF NoCall, Calls

\* After kmutex_init and before the first call the invariant holds.
LEMMA InitIInv == Init => IInv
<1> SUFFICES ASSUME Init PROVE IInv
  OBVIOUS
<1> USE QueueAssumption, KMutexAssumption
<1>1. SchedOK(sched) /\ sched.wchan = [u \in Thread |-> NULL]
  BY SchedInitProperties, Zenon DEF Init
<1>2. TypeOK
  BY <1>1, NoCallFacts DEF Init, TypeOK, SchedOK
<1>3. HeldMeansHolder /\ Sleepers /\ Woken
  BY <1>1 DEF Init, HeldMeansHolder, Sleepers, Woken
<1> QED
  BY <1>1, <1>2, <1>3 DEF IInv

\* The current thread, outside a lock call, is on no queue.
LEMMA RunnerFacts ==
  ASSUME IInv, ~sched.switching
  PROVE  /\ curthr \in Thread /\ sched.wchan[curthr] = NULL
         /\ sched.wchan[curthr] \notin WaitQ
         /\ sched.state \in [Thread -> ThreadState]
         /\ sched.wchan \in [Thread -> Queue \cup {NULL}]
         /\ sched.cancelled \in [Thread -> BOOLEAN]
         /\ sched.queue \in [Queue -> Seq(Thread)]
BY QueueAssumption DEF IInv, SchedOK, RunnerIsOffQueue, SchedType, curthr, Queue

\* A step that changes the scheduler only, keeps it consistent, puts nobody to
\* sleep, and wakes only cancelled threads of cancellable calls.
LEMMA QuietPreserves ==
  ASSUME IInv, NEW s, Quiet(s), SchedOK(s),
         \A t \in Thread : s.wchan[t] \in WaitQ =>
           s.wchan[t] = sched.wchan[t] /\ s.state[t] = sched.state[t],
         \A t \in Thread : sched.wchan[t] \in WaitQ /\ s.wchan[t] \notin WaitQ =>
           sched.state[t] = "SLEEP_CANCELLABLE" /\ s.cancelled[t],
         \A t \in Thread : sched.cancelled[t] => s.cancelled[t]
  PROVE  IInv'
<1>1. sched' = s /\ holder' = holder /\ call' = call /\ held' = held
  BY DEF Quiet
<1>2. TypeOK' /\ SchedOK(sched')
  BY <1>1 DEF IInv, TypeOK, SchedOK
<1>3. HeldMeansHolder'
  BY <1>1 DEF IInv, HeldMeansHolder
<1>4. Sleepers'
  BY <1>1 DEF IInv, Sleepers
<1>5. Woken'
  <2> SUFFICES ASSUME NEW t \in Thread, call[t] # NoCall, s.wchan[t] \notin WaitQ
               PROVE  \/ holder[call[t].mtx] = t
                      \/ call[t].op = "lock_cancellable" /\ s.cancelled[t]
    BY <1>1 DEF Woken
  <2>1. CASE sched.wchan[t] \in WaitQ
    BY <2>1 DEF IInv, Sleepers
  <2>2. CASE sched.wchan[t] \notin WaitQ
    BY <2>2 DEF IInv, Woken
  <2> QED
    BY <2>1, <2>2
<1> QED
  BY <1>2, <1>3, <1>4, <1>5 DEF IInv

\* The body of the two lock calls; st is the kind of sleep.
LEMMA LockPreserves ==
  ASSUME IInv, NEW m \in Mutex,
         NEW op \in {"lock", "lock_cancellable"}, NEW st \in Asleep,
         st = "SLEEP_CANCELLABLE" => op = "lock_cancellable",
         NEW slept,
         slept = sched_switch(ktqueue_enqueue(
                   [sched EXCEPT !.state[sched.cur] = st], m, sched.cur)),
         LockBody(m, op, slept)
  PROVE  IInv'
<1> USE QueueAssumption, KMutexAssumption
<1>1. ~sched.switching /\ call[curthr] = NoCall /\ m \in WaitQ
  BY DEF LockBody, Executing
<1>2. /\ curthr \in Thread /\ sched.wchan[curthr] = NULL
      /\ sched.wchan[curthr] \notin WaitQ
      /\ sched.state \in [Thread -> ThreadState]
      /\ sched.wchan \in [Thread -> Queue \cup {NULL}]
  BY <1>1, RunnerFacts
<1>3. CASE curthr = holder[m] /\ sched' = Panic(sched)
           /\ UNCHANGED <<holder, call, held>>
  <2>1. /\ SchedOK(Panic(sched))
        /\ Panic(sched).wchan = sched.wchan /\ Panic(sched).state = sched.state
        /\ Panic(sched).cancelled = sched.cancelled
    BY Zenon DEF IInv, SchedOK, SchedType, Panic, QueuesMatchWchan, StatesMatchWchan,
           RunnerIsOffQueue, Running
  <2>2. Quiet(Panic(sched))
    BY <1>3 DEF Quiet
  <2> QED
    BY <2>1, <2>2, QuietPreserves
<1>4. CASE /\ holder[m] \notin {NULL, curthr}
           /\ sched' = slept
           /\ call' = [call EXCEPT ![curthr] = [op |-> op, mtx |-> m]]
           /\ UNCHANGED <<holder, held>>
  <2>1. /\ Becomes(sched, slept, [sched.state EXCEPT ![curthr] = st],
                   [sched.wchan EXCEPT ![curthr] = m], TRUE)
        /\ SchedOK(slept)
    BY <1>1, SleepProperties, Zenon DEF IInv, curthr
  <2>2. /\ sched'.wchan[curthr] = m /\ sched'.state[curthr] = st
        /\ sched'.cancelled = sched.cancelled
        /\ \A t \in Thread : t # curthr => /\ sched'.wchan[t] = sched.wchan[t]
                                           /\ sched'.state[t] = sched.state[t]
    BY <1>2, <1>4, <2>1 DEF Becomes
  <2>3. /\ call'[curthr] = [op |-> op, mtx |-> m]
        /\ call' \in [Thread -> Calls]
        /\ \A t \in Thread : t # curthr => call'[t] = call[t]
    <3>1. PICK c : c = [op |-> op, mtx |-> m] /\ c \in Calls
      BY NoCallFacts, Zenon
    <3>2. call \in [Thread -> Calls] /\ call' = [call EXCEPT ![curthr] = c]
      BY <1>4, <3>1 DEF IInv, TypeOK
    <3> QED
      BY <1>2, <3>1, <3>2
  <2>4. TypeOK' /\ HeldMeansHolder'
    BY <1>4, <2>1, <2>3 DEF IInv, TypeOK, HeldMeansHolder, SchedOK
  <2>5. Sleepers'
    <3>1. ASSUME NEW t \in Thread, t # curthr, sched'.wchan[t] \in WaitQ
          PROVE  /\ sched'.wchan[t] \in Mutex
                 /\ holder'[sched'.wchan[t]] \notin {NULL, t}
                 /\ call'[t].mtx = sched'.wchan[t]
                 /\ sched'.state[t] = "SLEEP_CANCELLABLE" =>
                      call'[t].op = "lock_cancellable"
      BY <1>4, <2>2, <2>3, <3>1 DEF IInv, Sleepers
    <3>2. /\ sched'.wchan[curthr] \in Mutex
          /\ holder'[sched'.wchan[curthr]] \notin {NULL, curthr}
          /\ call'[curthr].mtx = sched'.wchan[curthr]
          /\ sched'.state[curthr] = "SLEEP_CANCELLABLE" =>
               call'[curthr].op = "lock_cancellable"
      BY <1>4, <2>2, <2>3, NoCallFacts
    <3> QED
      BY <3>1, <3>2 DEF Sleepers
  <2>6. Woken'
    <3>1. sched'.wchan[curthr] \in WaitQ
      BY <1>1, <2>2
    <3> QED
      BY <1>4, <2>2, <2>3, <3>1 DEF IInv, Woken
  <2> QED
    BY <1>4, <2>1, <2>4, <2>5, <2>6 DEF IInv
<1>5. CASE /\ holder[m] = NULL
           /\ holder' = [holder EXCEPT ![m] = curthr]
           /\ held' = [held EXCEPT ![curthr] = held[curthr] \cup {m}]
           /\ UNCHANGED <<sched, call>>
  <2>1. /\ holder'[m] = curthr /\ \A n \in Mutex : n # m => holder'[n] = holder[n]
        /\ held'[curthr] = held[curthr] \cup {m}
        /\ \A t \in Thread : t # curthr => held'[t] = held[t]
        /\ holder' \in [Mutex -> Thread \cup {NULL}]
        /\ held' \in [Thread -> SUBSET Mutex]
        /\ held \in [Thread -> SUBSET Mutex]
    BY <1>2, <1>5 DEF IInv, TypeOK
  <2>2. TypeOK' /\ SchedOK(sched')
    BY <1>5, <2>1 DEF IInv, TypeOK
  <2>3. HeldMeansHolder'
    <3> SUFFICES ASSUME NEW t \in Thread, NEW n \in held'[t] PROVE holder'[n] = t
      BY DEF HeldMeansHolder
    <3>1. CASE n = m
      <4>1. m \notin held[t]
        BY <1>5 DEF IInv, HeldMeansHolder
      <4> QED
        BY <2>1, <3>1, <4>1
    <3>2. CASE n # m
      BY <2>1, <3>2 DEF IInv, HeldMeansHolder
    <3> QED
      BY <3>1, <3>2
  <2>4. Sleepers'
    <3> SUFFICES ASSUME NEW t \in Thread, sched.wchan[t] \in WaitQ
                 PROVE  holder'[sched.wchan[t]] = holder[sched.wchan[t]]
      BY <1>5 DEF IInv, Sleepers
    <3>1. sched.wchan[t] \in Mutex /\ sched.wchan[t] # m
      BY <1>5 DEF IInv, Sleepers
    <3> QED
      BY <2>1, <3>1
  <2>5. Woken'
    <3> SUFFICES ASSUME NEW t \in Thread, call[t] # NoCall,
                        sched.wchan[t] \notin WaitQ
                 PROVE  \/ holder'[call[t].mtx] = t
                        \/ call[t].op = "lock_cancellable" /\ sched.cancelled[t]
      BY <1>5 DEF Woken
    <3>1. call[t].mtx \in Mutex
      BY NoCallFacts DEF IInv, TypeOK
    <3> QED
      BY <1>5, <2>1, <3>1 DEF IInv, Woken
  <2> QED
    BY <2>2, <2>3, <2>4, <2>5 DEF IInv
<1> QED
  BY <1>3, <1>4, <1>5 DEF LockBody

\* kmutex_unlock, with and without a waiter to hand the mutex to.
LEMMA UnlockPreserves ==
  ASSUME IInv, NEW m \in Mutex, kmutex_unlock(m)
  PROVE  IInv'
<1> USE QueueAssumption, KMutexAssumption
<1>1. /\ ~sched.switching /\ call[curthr] = NoCall /\ m \in held[curthr]
      /\ m \in WaitQ /\ m \in Queue /\ call' = call
  BY DEF kmutex_unlock, Executing, Queue
<1>2. /\ curthr \in Thread /\ sched.wchan[curthr] = NULL
      /\ sched.wchan[curthr] \notin WaitQ
      /\ sched.state \in [Thread -> ThreadState]
      /\ sched.wchan \in [Thread -> Queue \cup {NULL}]
  BY <1>1, RunnerFacts
<1>3. holder[m] = curthr
  BY <1>1, <1>2 DEF IInv, HeldMeansHolder
<1> DEFINE next == IF sched_queue_empty(sched, m) THEN NULL ELSE Oldest(sched, m)
<1>4. /\ holder' = [holder EXCEPT ![m] = next]
      /\ sched' = sched_wakeup_on(sched, m)
      /\ held' = [held EXCEPT ![curthr] = held[curthr] \ {m}]
  BY <1>3 DEF kmutex_unlock
<1>5. /\ SchedOK(sched') /\ sched'.cancelled = sched.cancelled
      /\ next \in Thread \cup {NULL}
      /\ next # NULL => sched.wchan[next] = m /\ sched'.wchan[next] = RunQ
      /\ \A t \in Thread : t # next => /\ sched'.wchan[t] = sched.wchan[t]
                                       /\ sched'.state[t] = sched.state[t]
      /\ next = NULL => \A t \in Thread : sched.wchan[t] # m
  <2>1. CASE sched.queue[m] = <<>>
    <3>1. sched' = sched /\ next = NULL
      BY <1>4, <2>1 DEF sched_wakeup_on, sched_queue_empty
    <3>2. Range(sched.queue[m]) = {}
      BY <2>1 DEF Range
    <3>3. \A t \in Thread : sched.wchan[t] # m
      BY <1>1, <3>2 DEF IInv, SchedOK, QueuesMatchWchan
    <3> QED
      BY <3>1, <3>3 DEF IInv
  <2>2. CASE sched.queue[m] # <<>>
    <3> DEFINE u == Oldest(sched, m)
    <3>1. next = u
      BY <2>2 DEF sched_queue_empty
    <3>2. /\ u \in Thread /\ sched.wchan[u] = m
          /\ Becomes(sched, sched', [sched.state EXCEPT ![u] = "RUN"],
                     [sched.wchan EXCEPT ![u] = RunQ], sched.switching)
          /\ SchedOK(sched')
      BY <1>1, <1>4, <2>2, WakeupProperties, Zenon DEF IInv
    <3> HIDE DEF next, u
    <3>3. u # NULL
      BY <3>2
    <3> QED
      BY <1>2, <3>1, <3>2, <3>3 DEF Becomes
  <2> QED
    BY <2>1, <2>2
<1> HIDE DEF next
<1>6. /\ holder'[m] = next /\ \A n \in Mutex : n # m => holder'[n] = holder[n]
      /\ held'[curthr] = held[curthr] \ {m}
      /\ \A t \in Thread : t # curthr => held'[t] = held[t]
      /\ holder' \in [Mutex -> Thread \cup {NULL}]
      /\ held' \in [Thread -> SUBSET Mutex]
  BY <1>2, <1>4, <1>5 DEF IInv, TypeOK
<1>7. TypeOK'
  BY <1>1, <1>5, <1>6 DEF IInv, TypeOK, SchedOK
<1>8. HeldMeansHolder'
  <2> SUFFICES ASSUME NEW t \in Thread, NEW n \in held'[t] PROVE holder'[n] = t
    BY DEF HeldMeansHolder
  <2>1. n \in held[t] /\ holder[n] = t /\ n \in Mutex
    BY <1>6 DEF IInv, HeldMeansHolder, TypeOK
  <2>2. n # m
    BY <1>3, <1>6, <2>1
  <2> QED
    BY <1>6, <2>1, <2>2
<1>9. Sleepers'
  <2> SUFFICES ASSUME NEW t \in Thread, sched'.wchan[t] \in WaitQ
               PROVE  /\ sched'.wchan[t] \in Mutex
                      /\ holder'[sched'.wchan[t]] \notin {NULL, t}
                      /\ call[t].mtx = sched'.wchan[t]
                      /\ sched'.state[t] = "SLEEP_CANCELLABLE" =>
                           call[t].op = "lock_cancellable"
    BY <1>1 DEF Sleepers
  <2>1. t # next /\ sched'.wchan[t] = sched.wchan[t] /\ sched'.state[t] = sched.state[t]
    <3>1. t # next
      BY <1>5
    <3> QED
      BY <1>5, <3>1
  <2>2. /\ sched.wchan[t] \in Mutex
        /\ holder[sched.wchan[t]] \notin {NULL, t}
        /\ call[t].mtx = sched.wchan[t]
        /\ sched.state[t] = "SLEEP_CANCELLABLE" => call[t].op = "lock_cancellable"
    BY <2>1 DEF IInv, Sleepers
  <2>3. holder'[sched.wchan[t]] \notin {NULL, t}
    <3>1. CASE sched.wchan[t] = m
      BY <1>5, <1>6, <2>1, <3>1
    <3>2. CASE sched.wchan[t] # m
      BY <1>6, <2>2, <3>2
    <3> QED
      BY <3>1, <3>2
  <2> QED
    BY <2>1, <2>2, <2>3
<1>10. Woken'
  <2> SUFFICES ASSUME NEW t \in Thread, call[t] # NoCall, sched'.wchan[t] \notin WaitQ
               PROVE  \/ holder'[call[t].mtx] = t
                      \/ call[t].op = "lock_cancellable" /\ sched.cancelled[t]
    BY <1>1, <1>5 DEF Woken
  <2>1. call[t].mtx \in Mutex
    BY NoCallFacts DEF IInv, TypeOK
  <2>2. CASE t = next
    <3>1. sched.wchan[t] = m /\ call[t].mtx = m
      BY <1>1, <1>5, <2>2 DEF IInv, Sleepers
    <3> QED
      BY <1>6, <2>2, <3>1
  <2>3. CASE t # next
    <3>1. \/ holder[call[t].mtx] = t
          \/ call[t].op = "lock_cancellable" /\ sched.cancelled[t]
      BY <1>5, <2>3 DEF IInv, Woken
    <3>2. holder[call[t].mtx] = t => call[t].mtx # m
      BY <1>1, <1>3
    <3> QED
      BY <1>6, <2>1, <3>1, <3>2
  <2> QED
    BY <2>2, <2>3
<1> QED
  BY <1>5, <1>7, <1>8, <1>9, <1>10 DEF IInv

\* A lock call returns to its caller.
LEMMA ReturnPreserves ==
  ASSUME IInv, LockReturns
  PROVE  IInv'
<1> USE QueueAssumption, KMutexAssumption
<1> DEFINE c == call[curthr]
<1>1. /\ ~sched.switching /\ c # NoCall
      /\ sched' = sched /\ holder' = holder
      /\ call' = [call EXCEPT ![curthr] = NoCall]
  BY DEF LockReturns
<1>2. /\ curthr \in Thread /\ sched.wchan[curthr] \notin WaitQ
      /\ c \in Calls /\ c.mtx \in Mutex
      /\ c.op \in {"lock", "lock_cancellable"}
  BY <1>1, RunnerFacts, NoCallFacts DEF IInv, TypeOK
<1>3. \/ held' = held
      \/ /\ held' = [held EXCEPT ![curthr] = held[curthr] \cup {c.mtx}]
         /\ holder[c.mtx] = curthr
  <2>1. \/ holder[c.mtx] = curthr
        \/ c.op = "lock_cancellable" /\ sched.cancelled[curthr]
    BY <1>1, <1>2 DEF IInv, Woken
  <2>2. CASE held' = held
    BY <2>2
  <2>3. CASE held' # held
    <3>1. /\ c.op = "lock" \/ SleepResult(sched, curthr) = "OK"
          /\ held' = [held EXCEPT ![curthr] = held[curthr] \cup {c.mtx}]
      BY <2>3 DEF LockReturns
    <3>2. ~(c.op = "lock_cancellable" /\ sched.cancelled[curthr])
      BY <3>1 DEF SleepResult
    <3> QED
      BY <2>1, <3>1, <3>2
  <2> QED
    BY <2>2, <2>3
<1> HIDE DEF c
<1>4. /\ call'[curthr] = NoCall /\ \A t \in Thread : t # curthr => call'[t] = call[t]
      /\ call' \in [Thread -> Calls]
  BY <1>1, <1>2, NoCallFacts DEF IInv, TypeOK
<1>5. TypeOK' /\ SchedOK(sched')
  BY <1>1, <1>2, <1>3, <1>4 DEF IInv, TypeOK
<1>6. HeldMeansHolder'
  BY <1>1, <1>2, <1>3 DEF IInv, TypeOK, HeldMeansHolder
<1>7. Sleepers' /\ Woken'
  BY <1>1, <1>2, <1>4 DEF IInv, Sleepers, Woken
<1> QED
  BY <1>5, <1>6, <1>7 DEF IInv

\* The steps that concern the scheduler only.
LEMMA OtherPreserve ==
  ASSUME IInv,
         \/ \E t \in Thread : Cancel(t) \/ Start(t)
         \/ YieldCpu \/ Exit \/ SwitchDispatch
  PROVE  IInv'
<1> USE QueueAssumption
<1>0. /\ SchedOK(sched)
      /\ sched.state \in [Thread -> ThreadState]
      /\ sched.wchan \in [Thread -> Queue \cup {NULL}]
      /\ sched.cancelled \in [Thread -> BOOLEAN]
      /\ sched.cur \in Thread
  BY DEF IInv, SchedOK, SchedType
<1>1. ASSUME NEW t \in Thread, Cancel(t) PROVE IInv'
  <2> DEFINE s == sched_cancel(sched, t)
  <2>1. /\ SchedOK(s) /\ Quiet(s)
        /\ s.cancelled = [sched.cancelled EXCEPT ![t] = TRUE]
        /\ \/ s.state = sched.state /\ s.wchan = sched.wchan
           \/ /\ sched.state[t] = "SLEEP_CANCELLABLE"
              /\ s.state = [sched.state EXCEPT ![t] = "RUN"]
              /\ s.wchan = [sched.wchan EXCEPT ![t] = RunQ]
    BY <1>0, <1>1, CancelProperties, Zenon DEF Cancel
  <2> HIDE DEF s
  <2> QED
    BY <1>0, <2>1, QuietPreserves
<1>2. ASSUME NEW t \in Thread, Start(t) PROVE IInv'
  <2> DEFINE s == sched_make_runnable(sched, t)
  <2>1. /\ SchedOK(s) /\ Quiet(s)
        /\ Becomes(sched, s, [sched.state EXCEPT ![t] = "RUN"],
                   [sched.wchan EXCEPT ![t] = RunQ], sched.switching)
    BY <1>0, <1>2, StartProperties DEF Start, curthr
  <2>2. sched.wchan[t] \notin WaitQ
    BY <1>0, <1>2, StatesCases DEF Start, Asleep
  <2> HIDE DEF s
  <2> QED
    BY <1>0, <2>1, <2>2, QuietPreserves DEF Becomes
<1>3. ASSUME YieldCpu PROVE IInv'
  <2> DEFINE s == Yield(sched)
  <2>1. /\ SchedOK(s) /\ Quiet(s) /\ ~sched.switching
        /\ Becomes(sched, s, [sched.state EXCEPT ![sched.cur] = "RUN"],
                   [sched.wchan EXCEPT ![sched.cur] = RunQ], TRUE)
    BY <1>0, <1>3, YieldProperties, Zenon DEF YieldCpu, Executing
  <2>2. sched.wchan[sched.cur] \notin WaitQ
    BY <2>1, RunnerFacts DEF curthr
  <2> HIDE DEF s
  <2> QED
    BY <1>0, <2>1, <2>2, QuietPreserves DEF Becomes
<1>4. ASSUME Exit PROVE IInv'
  <2> DEFINE s == sched_switch([sched EXCEPT !.state[sched.cur] = "EXITED"])
  <2>1. /\ SchedOK(s) /\ Quiet(s) /\ ~sched.switching
        /\ Becomes(sched, s, [sched.state EXCEPT ![sched.cur] = "EXITED"],
                   sched.wchan, TRUE)
    BY <1>0, <1>4, ExitProperties, Zenon DEF Exit, Executing, curthr
  <2>2. sched.wchan[sched.cur] \notin WaitQ
    BY <2>1, RunnerFacts DEF curthr
  <2> HIDE DEF s
  <2> QED
    BY <1>0, <2>1, <2>2, QuietPreserves DEF Becomes
<1>5. ASSUME SwitchDispatch PROVE IInv'
  <2> DEFINE s == sched_dispatch(sched)
  <2> DEFINE t == Oldest(sched, RunQ)
  <2>1. /\ SchedOK(s) /\ Quiet(s)
        /\ t \in Thread /\ s.cancelled = sched.cancelled
        /\ s.state = sched.state /\ s.wchan = [sched.wchan EXCEPT ![t] = NULL]
        /\ sched.wchan[t] = RunQ
    BY <1>0, <1>5, DispatchProperties, Zenon DEF SwitchDispatch, sched_queue_empty
  <2> HIDE DEF s, t
  <2> QED
    BY <1>0, <2>1, QuietPreserves
<1> QED
  BY <1>1, <1>2, <1>3, <1>4, <1>5

\* Every step of mutexes, threads and the scheduler preserves the invariant.
LEMMA NextIInv == IInv /\ [Next]_vars => IInv'
<1> SUFFICES ASSUME IInv, [Next]_vars PROVE IInv'
  OBVIOUS
<1>1. CASE UNCHANGED vars
  BY <1>1 DEF vars, IInv, TypeOK, HeldMeansHolder, Sleepers, Woken
<1>2. ASSUME NEW m \in Mutex, kmutex_lock(m) PROVE IInv'
  BY <1>2, LockPreserves DEF kmutex_lock, sched_sleep_on, Asleep
<1>3. ASSUME NEW m \in Mutex, kmutex_lock_cancellable(m) PROVE IInv'
  BY <1>3, LockPreserves
     DEF kmutex_lock_cancellable, sched_cancellable_sleep_on, Asleep
<1> QED
  BY <1>1, <1>2, <1>3, UnlockPreserves, ReturnPreserves, OtherPreserve DEF Next

\* IInv holds in every reachable state.
THEOREM SpecIInv == Spec => []IInv
BY InitIInv, NextIInv, PTL DEF Spec

\* Every variable keeps its type.
THEOREM TypeCorrect == Spec => []TypeOK
<1>1. IInv => TypeOK
  BY DEF IInv
<1> QED
  BY <1>1, SpecIInv, PTL

\* Mutual exclusion, cancellations included: whoever was told that it holds a
\* mutex is its km_holder.
THEOREM MutualExclusion == Spec => []HeldMeansHolder
<1>1. IInv => HeldMeansHolder
  BY DEF IInv
<1> QED
  BY <1>1, SpecIInv, PTL

\* A mutex somebody waits for has a holder, who is not one of the waiters.
LEMMA WaitersFact ==
  ASSUME IInv, NEW m \in Mutex, sched.queue[m] # <<>>
  PROVE  holder[m] # NULL /\ holder[m] \notin Range(sched.queue[m])
<1> USE QueueAssumption, KMutexAssumption
<1>1. /\ m \in Queue /\ m \in WaitQ
      /\ sched.queue[m] \in Seq(Thread) /\ IsInjective(sched.queue[m])
      /\ \A t \in Thread : t \in Range(sched.queue[m]) <=> sched.wchan[t] = m
  BY DEF IInv, SchedOK, SchedType, QueuesMatchWchan, Queue
<1>2. /\ Head(sched.queue[m]) \in Thread
      /\ Head(sched.queue[m]) \in Range(sched.queue[m])
  BY <1>1, TailInjective
<1>3. holder[m] # NULL
  BY <1>1, <1>2 DEF IInv, Sleepers
<1>4. holder[m] \in Thread
  BY <1>3 DEF IInv, TypeOK
<1> QED
  BY <1>1, <1>3, <1>4 DEF IInv, Sleepers

\* Threads wait only for a mutex that another thread holds.
THEOREM WaitersHaveHolder == Spec => []WaitersBehindHolder
<1>1. IInv => WaitersBehindHolder
  BY WaitersFact DEF WaitersBehindHolder
<1> QED
  BY <1>1, SpecIInv, PTL

\* km_holder changes only in a lock of a free mutex and in an unlock.
LEMMA HolderChanges ==
  ASSUME IInv, [Next]_vars, NEW m \in Mutex, holder'[m] # holder[m]
  PROVE  \/ holder[m] = NULL
         \/ kmutex_unlock(m)
<1> USE DEF Quiet
<1>1. CASE UNCHANGED vars
  BY <1>1 DEF vars
<1>2. ASSUME NEW n \in Mutex, NEW op, NEW slept, LockBody(n, op, slept)
      PROVE  holder[m] = NULL
  BY <1>2 DEF LockBody, IInv, TypeOK
<1>3. ASSUME NEW n \in Mutex, kmutex_unlock(n)
      PROVE  kmutex_unlock(m)
  BY <1>3 DEF kmutex_unlock, IInv, TypeOK
<1>4. CASE LockReturns
  BY <1>4 DEF LockReturns
<1>5. CASE \/ \E t \in Thread : Cancel(t) \/ Start(t)
           \/ YieldCpu \/ Exit \/ SwitchDispatch
  BY <1>5 DEF Cancel, Start, YieldCpu, Exit, SwitchDispatch
<1> QED
  BY <1>1, <1>2, <1>3, <1>4, <1>5
     DEF Next, kmutex_lock, kmutex_lock_cancellable

\* A mutex for which threads wait goes to the head of its queue.
THEOREM HandsOffToHead == Spec => HandoffToHead
<1> DEFINE A == \A m \in Mutex :
                  holder'[m] # holder[m] /\ sched.queue[m] # <<>> =>
                    holder'[m] = Head(sched.queue[m])
<1>1. IInv /\ [Next]_vars => [A]_vars
  <2> SUFFICES ASSUME IInv, [Next]_vars, NEW m \in Mutex,
                      holder'[m] # holder[m], sched.queue[m] # <<>>
               PROVE  holder'[m] = Head(sched.queue[m])
    OBVIOUS
  <2>1. holder[m] # NULL
    BY WaitersFact
  <2>2. kmutex_unlock(m)
    BY <2>1, HolderChanges
  <2>3. holder' = [holder EXCEPT ![m] = IF sched_queue_empty(sched, m)
                                        THEN NULL ELSE Oldest(sched, m)]
    BY <2>2 DEF kmutex_unlock
  <2> QED
    BY <2>3 DEF IInv, TypeOK, sched_queue_empty, Oldest
<1> QED
  BY <1>1, SpecIInv, PTL DEF Spec, HandoffToHead

-----------------------------------------------------------------------------
\* Without the combination of cancellable lock calls and cancellation, no
\* mutex is orphaned and no KASSERT fails.

Uninterrupted == CancellableLockers = {} \/ Killers = {}

\* No thread in a cancellable lock call has been cancelled.
NoInterruptedCall ==
  /\ CancellableLockers = {} => \A t \in Thread : call[t].op # "lock_cancellable"
  /\ Killers = {} => \A t \in Thread : ~sched.cancelled[t]

KInv == IInv /\ HolderKnows /\ NoPanic /\ NoInterruptedCall

\* The stronger invariant holds at the start.
LEMMA InitKInv == Init => KInv
<1> SUFFICES ASSUME Init PROVE KInv
  OBVIOUS
<1>1. sched.panic = FALSE /\ sched.cancelled = [u \in Thread |-> FALSE]
  BY KMutexAssumption, SchedInitProperties, Zenon DEF Init
<1>2. \A t \in Thread : call[t].op # "lock_cancellable"
  BY DEF Init, NoCall
<1> QED
  BY <1>1, <1>2, InitIInv DEF Init, KInv, HolderKnows, NoPanic, NoInterruptedCall

\* What the steps do to the fields that KInv reads.
LEMMA KStepLock ==
  ASSUME KInv, NEW m \in Mutex, kmutex_lock(m) \/ kmutex_lock_cancellable(m)
  PROVE  HolderKnows' /\ NoPanic' /\ NoInterruptedCall'
<1> USE QueueAssumption, KMutexAssumption
<1>1. PICK op \in {"lock", "lock_cancellable"}, st \in Asleep :
        /\ LockBody(m, op, sched_switch(ktqueue_enqueue(
             [sched EXCEPT !.state[sched.cur] = st], m, sched.cur)))
        /\ op = "lock_cancellable" => CancellableLockers # {}
  BY DEF kmutex_lock, kmutex_lock_cancellable, sched_sleep_on,
         sched_cancellable_sleep_on, Asleep
<1>2. /\ ~sched.switching /\ call[curthr] = NoCall /\ m \notin held[curthr]
      /\ m \in WaitQ
  BY <1>1 DEF LockBody, Executing
<1>3. curthr \in Thread /\ IInv
  BY <1>2, RunnerFacts DEF KInv
<1>4. curthr # holder[m]
  BY <1>2, <1>3, NoCallFacts DEF KInv, HolderKnows
<1> DEFINE slept == sched_switch(ktqueue_enqueue(
             [sched EXCEPT !.state[sched.cur] = st], m, sched.cur))
<1>5. CASE /\ sched' = slept
           /\ call' = [call EXCEPT ![curthr] = [op |-> op, mtx |-> m]]
           /\ UNCHANGED <<holder, held>>
  <2>1. Becomes(sched, slept, [sched.state EXCEPT ![curthr] = st],
                   [sched.wchan EXCEPT ![curthr] = m], TRUE)
    BY <1>2, <1>3, SleepProperties, Zenon DEF IInv, curthr
  <2> HIDE DEF slept
  <2>2. sched'.panic = sched.panic /\ sched'.cancelled = sched.cancelled
    BY <1>5, <2>1 DEF Becomes
  <2>3. /\ call'[curthr].op = op /\ call'[curthr].mtx = m
        /\ \A t \in Thread : t # curthr => call'[t] = call[t]
    BY <1>3, <1>5, NoCallFacts DEF IInv, TypeOK
  <2>4. HolderKnows'
    <3> SUFFICES ASSUME NEW n \in Mutex, holder[n] # NULL
                 PROVE  n \in held[holder[n]] \/ call'[holder[n]].mtx = n
      BY <1>5 DEF HolderKnows
    <3>1. n \in held[holder[n]] \/ call[holder[n]].mtx = n
      BY DEF KInv, HolderKnows
    <3>2. holder[n] \in Thread
      BY <1>3 DEF IInv, TypeOK
    <3>3. holder[n] = curthr => n \in held[curthr]
      BY <1>2, <3>1, NoCallFacts
    <3> QED
      BY <2>3, <3>1, <3>2, <3>3
  <2>5. NoInterruptedCall'
    BY <1>1, <2>2, <2>3 DEF KInv, NoInterruptedCall
  <2> QED
    BY <2>2, <2>4, <2>5 DEF KInv, NoPanic
<1>6. CASE /\ holder[m] = NULL
           /\ holder' = [holder EXCEPT ![m] = curthr]
           /\ held' = [held EXCEPT ![curthr] = held[curthr] \cup {m}]
           /\ UNCHANGED <<sched, call>>
  BY <1>3, <1>6 DEF KInv, IInv, TypeOK, HolderKnows, NoPanic, NoInterruptedCall
<1> QED
  BY <1>1, <1>4, <1>5, <1>6 DEF LockBody

\* kmutex_unlock hands the mutex to a thread that will know of it.
LEMMA KStepUnlock ==
  ASSUME KInv, NEW m \in Mutex, kmutex_unlock(m)
  PROVE  HolderKnows' /\ NoPanic' /\ NoInterruptedCall'
<1> USE QueueAssumption, KMutexAssumption
<1>1. /\ ~sched.switching /\ call[curthr] = NoCall /\ m \in held[curthr]
      /\ call' = call /\ m \in WaitQ /\ IInv
  BY DEF kmutex_unlock, Executing, KInv
<1>2. curthr \in Thread
  BY <1>1, RunnerFacts
<1>3. holder[m] = curthr
  BY <1>1, <1>2 DEF IInv, HeldMeansHolder
<1> DEFINE u == Oldest(sched, m)
<1>4. /\ holder' = [holder EXCEPT ![m] = IF sched.queue[m] = <<>> THEN NULL ELSE u]
      /\ sched' = sched_wakeup_on(sched, m)
      /\ held' = [held EXCEPT ![curthr] = held[curthr] \ {m}]
  BY <1>3 DEF kmutex_unlock, sched_queue_empty
<1>5. /\ sched'.panic = sched.panic /\ sched'.cancelled = sched.cancelled
      /\ sched.queue[m] # <<>> => u \in Thread /\ sched.wchan[u] = m
  <2>1. CASE sched.queue[m] = <<>>
    BY <1>4, <2>1 DEF sched_wakeup_on, sched_queue_empty
  <2>2. CASE sched.queue[m] # <<>>
    <3>1. /\ u \in Thread /\ sched.wchan[u] = m
          /\ Becomes(sched, sched', [sched.state EXCEPT ![u] = "RUN"],
                     [sched.wchan EXCEPT ![u] = RunQ], sched.switching)
      BY <1>1, <1>4, <2>2, WakeupProperties, Zenon DEF IInv
    <3> HIDE DEF u
    <3> QED
      BY <3>1 DEF Becomes
  <2> QED
    BY <2>1, <2>2
<1> HIDE DEF u
<1>6. sched.queue[m] # <<>> => call[u].mtx = m
  BY <1>1, <1>5 DEF IInv, Sleepers
<1>7. HolderKnows'
  <2> SUFFICES ASSUME NEW n \in Mutex, holder'[n] # NULL
               PROVE  n \in held'[holder'[n]] \/ call[holder'[n]].mtx = n
    BY <1>1 DEF HolderKnows
  <2>1. CASE n = m
    BY <1>1, <1>4, <1>6, <2>1 DEF IInv, TypeOK
  <2>2. CASE n # m
    <3>1. holder'[n] = holder[n] /\ holder[n] \in Thread
      BY <1>1, <1>4, <2>2 DEF IInv, TypeOK
    <3>2. n \in held[holder[n]] \/ call[holder[n]].mtx = n
      BY <3>1 DEF KInv, HolderKnows
    <3>3. n \in held[holder[n]] => n \in held'[holder[n]]
      BY <1>1, <1>2, <1>4, <2>2, <3>1 DEF IInv, TypeOK
    <3> QED
      BY <3>1, <3>2, <3>3
  <2> QED
    BY <2>1, <2>2
<1> QED
  BY <1>1, <1>5, <1>7 DEF KInv, NoPanic, NoInterruptedCall

\* A lock call that returns leaves its thread with the mutex.
LEMMA KStepReturn ==
  ASSUME KInv, Uninterrupted, LockReturns
  PROVE  HolderKnows' /\ NoPanic' /\ NoInterruptedCall'
<1> USE QueueAssumption, KMutexAssumption
<1> DEFINE c == call[curthr]
<1>1. /\ ~sched.switching /\ c # NoCall /\ IInv
      /\ sched' = sched /\ holder' = holder
      /\ call' = [call EXCEPT ![curthr] = NoCall]
  BY DEF LockReturns, KInv
<1>2. curthr \in Thread /\ c.op \in {"lock", "lock_cancellable"} /\ c.mtx \in Mutex
  BY <1>1, RunnerFacts, NoCallFacts DEF IInv, TypeOK
<1>3. c.op = "lock" \/ SleepResult(sched, curthr) = "OK"
  BY <1>2 DEF KInv, NoInterruptedCall, Uninterrupted, SleepResult
<1>4. held' = [held EXCEPT ![curthr] = held[curthr] \cup {c.mtx}]
  BY <1>3 DEF LockReturns
<1>5. HolderKnows'
  <2> SUFFICES ASSUME NEW n \in Mutex, holder[n] # NULL
               PROVE  n \in held'[holder[n]] \/ call'[holder[n]].mtx = n
    BY <1>1 DEF HolderKnows
  <2>1. holder[n] \in Thread
    BY <1>1 DEF IInv, TypeOK
  <2>2. n \in held[holder[n]] \/ call[holder[n]].mtx = n
    BY DEF KInv, HolderKnows
  <2> QED
    BY <1>1, <1>2, <1>4, <2>1, <2>2 DEF IInv, TypeOK
<1>6. NoInterruptedCall'
  <2>1. \A t \in Thread : call'[t] = call[t] \/ call'[t].op = "none"
    BY <1>1, <1>2 DEF IInv, TypeOK, NoCall
  <2> QED
    BY <1>1, <2>1 DEF KInv, NoInterruptedCall
<1> QED
  BY <1>1, <1>5, <1>6 DEF KInv, NoPanic

\* Steps that touch no mutex preserve the stronger invariant.
LEMMA KStepOther ==
  ASSUME KInv,
         \/ \E t \in Thread : Cancel(t) \/ Start(t)
         \/ YieldCpu \/ Exit \/ SwitchDispatch
  PROVE  HolderKnows' /\ NoPanic' /\ NoInterruptedCall'
<1>0. SchedOK(sched) /\ sched.cur \in Thread
  BY DEF KInv, IInv, SchedOK, SchedType
<1>1. holder' = holder /\ call' = call /\ held' = held
  BY DEF Cancel, Start, YieldCpu, Exit, SwitchDispatch, Quiet
<1>2. /\ sched'.panic = sched.panic
      /\ sched'.cancelled = sched.cancelled \/ Killers # {}
  <2>1. ASSUME NEW t \in Thread, Cancel(t)
        PROVE  sched'.panic = sched.panic /\ Killers # {}
    BY <1>0, <2>1, CancelProperties, Zenon DEF Cancel, Quiet
  <2>2. ASSUME NEW t \in Thread, Start(t)
        PROVE  sched'.panic = sched.panic /\ sched'.cancelled = sched.cancelled
    BY <1>0, <2>2, StartProperties, Zenon DEF Start, Quiet, curthr, Becomes
  <2>3. ASSUME YieldCpu
        PROVE  sched'.panic = sched.panic /\ sched'.cancelled = sched.cancelled
    BY <1>0, <2>3, YieldProperties, Zenon DEF YieldCpu, Executing, Quiet, Becomes
  <2>4. ASSUME Exit
        PROVE  sched'.panic = sched.panic /\ sched'.cancelled = sched.cancelled
    BY <1>0, <2>4, ExitProperties, Zenon DEF Exit, Executing, Quiet, Becomes, curthr
  <2>5. ASSUME SwitchDispatch
        PROVE  sched'.panic = sched.panic /\ sched'.cancelled = sched.cancelled
    BY <1>0, <2>5, DispatchProperties, Zenon DEF SwitchDispatch, sched_queue_empty, Quiet
  <2> QED
    BY <2>1, <2>2, <2>3, <2>4, <2>5
<1> QED
  BY <1>1, <1>2 DEF KInv, HolderKnows, NoPanic, NoInterruptedCall

\* Every step preserves the stronger invariant when nobody is interrupted.
LEMMA NextKInv == ASSUME Uninterrupted PROVE KInv /\ [Next]_vars => KInv'
<1> SUFFICES ASSUME KInv, [Next]_vars PROVE KInv'
  OBVIOUS
<1>1. IInv'
  BY NextIInv DEF KInv
<1>2. HolderKnows' /\ NoPanic' /\ NoInterruptedCall'
  <2>1. CASE UNCHANGED vars
    BY <2>1 DEF vars, KInv, HolderKnows, NoPanic, NoInterruptedCall
  <2> QED
    BY <2>1, KStepLock, KStepUnlock, KStepReturn, KStepOther DEF Next
<1> QED
  BY <1>1, <1>2 DEF KInv

\* No mutex is held by a thread that does not know it, unless threads in
\* kmutex_lock_cancellable are cancelled.
THEOREM HolderAlwaysKnows == ASSUME Uninterrupted PROVE Spec => []HolderKnows
<1>1. KInv => HolderKnows
  BY DEF KInv
<1>2. KInv /\ [Next]_vars => KInv'
  BY NextKInv
<1> QED
  BY <1>1, <1>2, InitKInv, PTL DEF Spec

\* No KASSERT of kmutex.c or sched.c fails, under the same condition.
THEOREM NeverPanics == ASSUME Uninterrupted PROVE Spec => []NoPanic
<1>1. KInv => NoPanic
  BY DEF KInv
<1>2. KInv /\ [Next]_vars => KInv'
  BY NextKInv
<1> QED
  BY <1>1, <1>2, InitKInv, PTL DEF Spec

\* A failing KASSERT leaves a mutex whose holder does not know it.
LEMMA PanicStep ==
  ASSUME IInv, Next, sched'.panic
  PROVE  ~HolderKnows'
<1> USE QueueAssumption, KMutexAssumption
<1>0. SchedOK(sched) /\ sched.cur \in Thread /\ ~sched.panic
  BY DEF IInv, SchedOK, SchedType, Next, kmutex_lock, kmutex_lock_cancellable, LockBody, kmutex_unlock,
         LockReturns, Cancel, Start, YieldCpu, Exit, SwitchDispatch, Executing
<1>1. ASSUME NEW m \in Mutex, kmutex_lock(m) \/ kmutex_lock_cancellable(m)
      PROVE  ~HolderKnows'
  <2>1. PICK op \in {"lock", "lock_cancellable"}, st \in Asleep :
          LockBody(m, op, sched_switch(ktqueue_enqueue(
               [sched EXCEPT !.state[sched.cur] = st], m, sched.cur)))
    BY <1>1 DEF kmutex_lock, kmutex_lock_cancellable, sched_sleep_on, sched_cancellable_sleep_on, Asleep
  <2>2. /\ ~sched.switching /\ call[curthr] = NoCall /\ m \notin held[curthr] /\ m \in WaitQ
    BY <2>1 DEF LockBody, Executing
  <2> DEFINE slept == sched_switch(ktqueue_enqueue(
               [sched EXCEPT !.state[sched.cur] = st], m, sched.cur))
  <2>3. Becomes(sched, slept, [sched.state EXCEPT ![curthr] = st],
                [sched.wchan EXCEPT ![curthr] = m], TRUE)
    BY <1>0, <2>2, SleepProperties, Zenon DEF curthr
  <2> HIDE DEF slept
  <2>4. slept.panic = sched.panic
    BY <2>3 DEF Becomes
  <2>5. holder[m] = curthr /\ UNCHANGED <<holder, call, held>>
    BY <1>0, <2>1, <2>4 DEF LockBody, slept
  <2>6. curthr # NULL /\ call[curthr].mtx # m
    BY <1>0, <2>2, NoCallFacts DEF curthr
  <2> QED
    BY <2>2, <2>5, <2>6 DEF HolderKnows
<1>2. ASSUME NEW m \in Mutex, kmutex_unlock(m)
      PROVE  FALSE
  <2>1. /\ ~sched.switching /\ m \in held[curthr] /\ m \in WaitQ /\ curthr \in Thread
    BY <1>0, <1>2 DEF kmutex_unlock, Executing, curthr
  <2>2. sched' = sched_wakeup_on(sched, m)
    BY <1>2, <2>1 DEF kmutex_unlock, IInv, HeldMeansHolder
  <2>3. CASE sched.queue[m] = <<>>
    BY <1>0, <2>2, <2>3 DEF sched_wakeup_on, sched_queue_empty
  <2>4. CASE sched.queue[m] # <<>>
    <3> DEFINE u == Oldest(sched, m)
    <3>1. Becomes(sched, sched', [sched.state EXCEPT ![u] = "RUN"],
                  [sched.wchan EXCEPT ![u] = RunQ], sched.switching)
      BY <1>0, <2>1, <2>2, <2>4, WakeupProperties, Zenon
    <3> HIDE DEF u
    <3> QED
      BY <1>0, <3>1 DEF Becomes
  <2> QED
    BY <2>3, <2>4
<1>3. LockReturns => sched' = sched
  BY DEF LockReturns
<1>4. ASSUME NEW t \in Thread, Cancel(t) PROVE sched'.panic = sched.panic
  BY <1>0, <1>4, CancelProperties, Zenon DEF Cancel, Quiet
<1>5. ASSUME NEW t \in Thread, Start(t) PROVE sched'.panic = sched.panic
  BY <1>0, <1>5, StartProperties, Zenon DEF Start, Quiet, curthr, Becomes
<1>6. ASSUME YieldCpu PROVE sched'.panic = sched.panic
  BY <1>0, <1>6, YieldProperties, Zenon DEF YieldCpu, Executing, Quiet, Becomes
<1>7. ASSUME Exit PROVE sched'.panic = sched.panic
  BY <1>0, <1>7, ExitProperties, Zenon DEF Exit, Executing, Quiet, Becomes, curthr
<1>8. ASSUME SwitchDispatch PROVE sched'.panic = sched.panic
  BY <1>0, <1>8, DispatchProperties, Zenon DEF SwitchDispatch, sched_queue_empty, Quiet
<1> QED
  BY <1>0, <1>1, <1>2, <1>3, <1>4, <1>5, <1>6, <1>7, <1>8, Zenon DEF Next

\* With cancellable lock calls and cancellation too, a KASSERT fails only
\* when some mutex has a holder that does not know it.
THEOREM PanicsOnlyUnknown == Spec => []PanicMeansUnknown
<1> DEFINE PInv == IInv /\ PanicMeansUnknown
<1>1. Init => PInv
  BY InitKInv DEF KInv, PanicMeansUnknown
<1>2. PInv /\ [Next]_vars => PInv'
  <2> SUFFICES ASSUME PInv, [Next]_vars PROVE PInv'
    OBVIOUS
  <2>1. IInv'
    BY NextIInv
  <2>2. CASE Next
    BY <2>1, <2>2, PanicStep DEF PanicMeansUnknown, NoPanic
  <2>3. CASE UNCHANGED vars
    BY <2>1, <2>3 DEF vars, PanicMeansUnknown, NoPanic, HolderKnows
  <2> QED
    BY <2>2, <2>3
<1>3. PInv => PanicMeansUnknown
  OBVIOUS
<1> QED
  BY <1>1, <1>2, <1>3, PTL DEF Spec

-----------------------------------------------------------------------------
\* Refinement of AbstractMutex.

\* A line only forms behind a holder, and the executing thread is in no line.
LEMMA LineFacts ==
  ASSUME IInv
  PROVE  /\ \A m \in Mutex : m \in Queue /\ m # RunQ
         /\ \A m \in Mutex : sched.queue[m] # <<>> => holder[m] # NULL
         /\ ~sched.switching => ~Abstract!Waiting(curthr)
<1> USE QueueAssumption, KMutexAssumption
<1>1. \A m \in Mutex : m \in Queue /\ m # RunQ
  BY DEF Queue
<1>2. \A m \in Mutex : sched.queue[m] # <<>> => holder[m] # NULL
  BY WaitersFact
<1>3. ASSUME ~sched.switching PROVE ~Abstract!Waiting(curthr)
  <2>1. curthr \in Thread /\ sched.wchan[curthr] = NULL
    BY <1>3, RunnerFacts
  <2>2. \A m \in Mutex : curthr \notin Range(sched.queue[m])
    BY <1>1, <2>1 DEF IInv, SchedOK, QueuesMatchWchan, Queue
  <2> QED
    BY <2>2 DEF Abstract!Waiting, Line, Range, Abstract!Range
<1> QED
  BY <1>1, <1>2, <1>3

\* Steps that leave km_holder and the wait queues of the mutexes alone.
LEMMA StutterStep ==
  ASSUME IInv, holder' = holder,
         \A m \in Mutex : sched'.queue[m] = sched.queue[m]
  PROVE  UNCHANGED Abstract!vars
BY DEF Abstract!vars, Line

\* A lock call is a step of the abstract mutex: acquire or join the line.
LEMMA LockStep ==
  ASSUME IInv, NEW m \in Mutex, kmutex_lock(m) \/ kmutex_lock_cancellable(m)
  PROVE  [Abstract!Next]_(Abstract!vars)
<1> USE QueueAssumption, KMutexAssumption
<1>1. PICK op \in {"lock", "lock_cancellable"}, st \in Asleep :
        LockBody(m, op, sched_switch(ktqueue_enqueue(
             [sched EXCEPT !.state[sched.cur] = st], m, sched.cur)))
  BY DEF kmutex_lock, kmutex_lock_cancellable, sched_sleep_on,
         sched_cancellable_sleep_on, Asleep
<1>2. /\ ~sched.switching /\ m \in WaitQ /\ curthr \in Thread
      /\ ~Abstract!Waiting(curthr)
  BY <1>1, RunnerFacts, LineFacts DEF LockBody, Executing
<1> DEFINE slept == sched_switch(ktqueue_enqueue(
             [sched EXCEPT !.state[sched.cur] = st], m, sched.cur))
<1>3. CASE sched' = Panic(sched) /\ holder' = holder
  BY <1>3, StutterStep DEF Panic, IInv, SchedOK, SchedType
<1>4. CASE holder[m] \notin {NULL, curthr} /\ sched' = slept /\ holder' = holder
  <2>1. /\ slept.queue[m] = Append(sched.queue[m], curthr)
        /\ \A r \in Queue \ {m} : slept.queue[r] = sched.queue[r]
    BY <1>2, SleepProperties, Zenon DEF IInv, curthr, SameQueuesBut
  <2> HIDE DEF slept
  <2>2. Line' = [Line EXCEPT ![m] = Append(Line[m], curthr)]
    BY <1>4, <2>1, LineFacts, Zenon DEF Line
  <2>3. Abstract!Wait(curthr, m)
    BY <1>2, <1>4, <2>2 DEF Abstract!Wait
  <2> QED
    BY <1>2, <2>3 DEF Abstract!Next
<1>5. CASE /\ holder[m] = NULL /\ sched' = sched
           /\ holder' = [holder EXCEPT ![m] = curthr]
  <2>1. Line[m] = <<>> /\ Line' = Line
    BY <1>5, LineFacts DEF Line
  <2>2. Abstract!Acquire(curthr, m)
    BY <1>2, <1>5, <2>1 DEF Abstract!Acquire
  <2> QED
    BY <1>2, <2>2 DEF Abstract!Next
<1> QED
  BY <1>1, <1>3, <1>4, <1>5 DEF LockBody

\* kmutex_unlock is a release of the abstract mutex: the head of the line holds it.
LEMMA UnlockStep ==
  ASSUME IInv, NEW m \in Mutex, kmutex_unlock(m)
  PROVE  [Abstract!Next]_(Abstract!vars)
<1> USE QueueAssumption, KMutexAssumption
<1>1. /\ ~sched.switching /\ m \in held[curthr] /\ m \in WaitQ
      /\ curthr \in Thread /\ ~Abstract!Waiting(curthr)
  BY RunnerFacts, LineFacts DEF kmutex_unlock, Executing
<1>2. holder[m] = curthr
  BY <1>1 DEF IInv, HeldMeansHolder
<1>3. /\ holder' = [holder EXCEPT ![m] = IF sched.queue[m] = <<>> THEN NULL
                                         ELSE Head(sched.queue[m])]
      /\ sched' = sched_wakeup_on(sched, m)
  BY <1>2 DEF kmutex_unlock, sched_queue_empty, Oldest
<1>4. CASE sched.queue[m] = <<>>
  <2>1. sched' = sched /\ Line' = Line /\ Line[m] = <<>>
    BY <1>3, <1>4 DEF sched_wakeup_on, sched_queue_empty, Line
  <2> QED
    BY <1>1, <1>2, <1>3, <1>4, <2>1, Zenon DEF Abstract!Release, Abstract!Next
<1>5. CASE sched.queue[m] # <<>>
  <2> DEFINE u == Oldest(sched, m)
  <2>0. /\ sched'.queue[m] = Tail(sched.queue[m])
        /\ SameQueuesBut(sched, sched', {m, RunQ})
    BY <1>1, <1>3, <1>5, WakeupProperties, Zenon DEF IInv
  <2> HIDE DEF u
  <2>1. /\ sched'.queue[m] = Tail(sched.queue[m])
        /\ \A r \in Queue \ {m, RunQ} : sched'.queue[r] = sched.queue[r]
    BY <2>0 DEF SameQueuesBut
  <2>2. /\ Line' = [Line EXCEPT ![m] = Tail(Line[m])]
        /\ Line[m] = sched.queue[m]
    BY <2>1, LineFacts, Zenon DEF Line
  <2> QED
    BY <1>1, <1>2, <1>3, <1>5, <2>2, Zenon DEF Abstract!Release, Abstract!Next
<1> QED
  BY <1>4, <1>5

\* A cancel that takes a sleeper off a wait queue is a step out of the line.
LEMMA CancelStep ==
  ASSUME IInv, NEW t \in Thread, Cancel(t)
  PROVE  [Abstract!Next]_(Abstract!vars)
<1> USE QueueAssumption, KMutexAssumption
<1>1. /\ holder' = holder /\ sched' = sched_cancel(sched, t)
      /\ sched.state[t] \notin {"NO_STATE", "EXITED"} /\ SchedOK(sched)
  BY DEF Cancel, Quiet, IInv
<1>2. CASE sched.state[t] # "SLEEP_CANCELLABLE"
  BY <1>1, <1>2, CancelProperties, StutterStep, Zenon
<1>3. CASE sched.state[t] = "SLEEP_CANCELLABLE"
  <2>a. PICK m \in WaitQ : \E k \in DOMAIN sched.queue[m] :
          /\ sched.queue[m][k] = t
          /\ sched'.queue[m] = DropAt(sched.queue[m], k)
          /\ SameQueuesBut(sched, sched', {m, RunQ})
    <3> DEFINE c == sched_cancel(sched, t)
    <3>1. c = sched_cancel(sched, t)
      OBVIOUS
    <3> HIDE DEF c
    <3>2. \E q \in WaitQ : \E k \in DOMAIN sched.queue[q] :
            /\ sched.queue[q][k] = t
            /\ c.queue[q] = DropAt(sched.queue[q], k)
            /\ SameQueuesBut(sched, c, {q, RunQ})
      BY <1>1, <1>3, <3>1, CancelledSleeper
    <3>3. sched' = c
      BY <1>1, <3>1
    <3> QED
      BY <3>2, <3>3, Zenon
  <2>0. PICK k \in DOMAIN sched.queue[m] :
          /\ sched.queue[m][k] = t
          /\ sched'.queue[m] = DropAt(sched.queue[m], k)
          /\ SameQueuesBut(sched, sched', {m, RunQ})
    BY <2>a
  <2>1. \A r \in Queue \ {m, RunQ} : sched'.queue[r] = sched.queue[r]
    BY <2>0 DEF SameQueuesBut
  <2>3. t \in Range(sched.queue[m]) /\ m \in Queue
    BY <2>0 DEF Range, Queue
  <2>4. sched.wchan[t] = m
    BY <1>1, <2>3 DEF SchedOK, QueuesMatchWchan
  <2>2. m \in Mutex
    BY <2>0, <2>4 DEF IInv, Sleepers
  <2>5. /\ Line' = [Line EXCEPT ![m] = DropAt(Line[m], k)]
        /\ Line[m] = sched.queue[m]
    BY <2>0, <2>1, <2>2, LineFacts, Zenon DEF Line
  <2>6. Abstract!GiveUp(m, k)
    BY <1>1, <2>0, <2>5 DEF Abstract!GiveUp, DropAt
  <2> QED
    BY <2>0, <2>2, <2>5, <2>6 DEF Abstract!Next
<1> QED
  BY <1>2, <1>3

\* Other steps leave holder and line as they are.
LEMMA OtherStep ==
  ASSUME IInv,
         \/ LockReturns
         \/ \E t \in Thread : Start(t)
         \/ YieldCpu \/ Exit \/ SwitchDispatch
  PROVE  UNCHANGED Abstract!vars
<1>0. SchedOK(sched)
  BY DEF IInv
<1>1. CASE LockReturns
  BY <1>1, StutterStep DEF LockReturns
<1>2. ASSUME NEW t \in Thread, Start(t) PROVE UNCHANGED Abstract!vars
  BY <1>0, <1>2, StartProperties, StutterStep, LineFacts, Zenon
     DEF Start, Quiet, curthr, SameQueuesBut
<1>3. CASE YieldCpu
  BY <1>0, <1>3, YieldProperties, StutterStep, LineFacts, Zenon
     DEF YieldCpu, Executing, Quiet, SameQueuesBut
<1>4. CASE Exit
  BY <1>0, <1>4, ExitProperties, StutterStep, Zenon DEF Exit, Executing, Quiet, curthr
<1>5. CASE SwitchDispatch
  BY <1>0, <1>5, DispatchProperties, StutterStep, LineFacts, Zenon
     DEF SwitchDispatch, sched_queue_empty, Quiet, SameQueuesBut
<1> QED
  BY <1>1, <1>2, <1>3, <1>4, <1>5

\* The mutexes of kmutex.c, cancellations included, behave as owners with a
\* first come, first served line: every step is a step of AbstractMutex or
\* leaves its state alone.
THEOREM RefinesAbstractMutex == Spec => ImplementsAbstractMutex
<1>1. Init => Abstract!Init
  <2> SUFFICES ASSUME Init PROVE Abstract!Init
    OBVIOUS
  <2>1. sched.queue = [q \in Queue |-> <<>>]
    BY KMutexAssumption, SchedInitProperties, Zenon DEF Init
  <2> QED
    BY <2>1, KMutexAssumption DEF Init, Abstract!Init, Line, Queue
<1>2. IInv /\ [Next]_vars => [Abstract!Next]_(Abstract!vars)
  <2> SUFFICES ASSUME IInv, [Next]_vars PROVE [Abstract!Next]_(Abstract!vars)
    OBVIOUS
  <2>1. CASE UNCHANGED vars
    BY <2>1, StutterStep DEF vars
  <2> QED
    BY <2>1, LockStep, UnlockStep, CancelStep, OtherStep DEF Next
<1> QED
  BY <1>1, <1>2, SpecIInv, PTL DEF Spec, ImplementsAbstractMutex, Abstract!Spec
=============================================================================
