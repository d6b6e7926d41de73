--------------------------- MODULE SchedOpsProofs ---------------------------
(***************************************************************************)
(* What the functions of sched.c preserve, for any set of threads and      *)
(* queues: each of them takes a consistent scheduler state to a consistent *)
(* scheduler state and fails no KASSERT, given what its callers ensure.    *)
(***************************************************************************)
EXTENDS SchedOps, SequenceTheorems, TLAPS

-----------------------------------------------------------------------------
\* Sequences without repetition, as the lists of ktqueue_t are.

\* list_insert_head of a thread that is not in the list.
LEMMA AppendInjective1 ==
  ASSUME NEW S, NEW s \in Seq(S), NEW e \in S,
         IsInjective(s), e \notin Range(s)
  PROVE  /\ Append(s, e) \in Seq(S)
         /\ IsInjective(Append(s, e))
         /\ Range(Append(s, e)) = Range(s) \cup {e}
<1> DEFINE r == Append(s, e)
<1>1. /\ r \in Seq(S)
      /\ Len(r) = Len(s) + 1
      /\ \A i \in 1 .. Len(s) : r[i] = s[i]
      /\ r[Len(s) + 1] = e
      /\ Len(s) \in Nat
  BY AppendProperties, LenProperties
<1>2. DOMAIN s = 1 .. Len(s) /\ DOMAIN r = 1 .. Len(s) + 1
  BY <1>1, LenProperties
<1> HIDE DEF r
<1>3. IsInjective(r)
  BY <1>1, <1>2 DEF IsInjective, Range
<1>4. Range(r) = Range(s) \cup {e}
  BY <1>1, <1>2 DEF Range
<1> QED
  BY <1>1, <1>3, <1>4 DEF r

\* list_remove of the oldest element.
LEMMA TailInjective ==
  ASSUME NEW S, NEW s \in Seq(S), s # <<>>, IsInjective(s)
  PROVE  /\ Head(s) \in S
         /\ Head(s) \in Range(s)
         /\ Tail(s) \in Seq(S)
         /\ IsInjective(Tail(s))
         /\ Range(Tail(s)) = Range(s) \ {Head(s)}
<1> DEFINE r == Tail(s)
<1>1. /\ Head(s) \in S
      /\ r \in Seq(S)
      /\ Len(r) = Len(s) - 1
      /\ \A i \in 1 .. Len(r) : r[i] = s[i + 1]
      /\ Len(s) \in Nat \ {0}
  BY HeadTailProperties, EmptySeq
<1>2. DOMAIN s = 1 .. Len(s) /\ DOMAIN r = 1 .. Len(s) - 1
  BY <1>1, LenProperties
<1>3. Head(s) = s[1]
  BY <1>1
<1> HIDE DEF r
<1>4. IsInjective(r)
  <2> SUFFICES ASSUME NEW a \in DOMAIN r, NEW b \in DOMAIN r, r[a] = r[b]
               PROVE  a = b
    BY DEF IsInjective
  <2>1. /\ a + 1 \in DOMAIN s /\ b + 1 \in DOMAIN s
        /\ a \in Nat /\ b \in Nat
        /\ r[a] = s[a + 1] /\ r[b] = s[b + 1]
    BY <1>1, <1>2
  <2>2. a + 1 = b + 1
    BY <2>1, Zenon DEF IsInjective
  <2> QED
    BY <2>1, <2>2
<1>5. Range(r) = Range(s) \ {Head(s)}
  <2>1. ASSUME NEW x \in Range(r) PROVE x \in Range(s) /\ x # Head(s)
    BY <1>1, <1>2, <1>3 DEF Range, IsInjective
  <2>2. ASSUME NEW x \in Range(s), x # Head(s) PROVE x \in Range(r)
    <3>1. PICK k \in 1 .. Len(s) : x = s[k]
      BY <1>2 DEF Range
    <3>2. k # 1 /\ k - 1 \in 1 .. Len(r) /\ r[k - 1] = s[k]
      BY <1>1, <1>3, <2>2, <3>1
    <3> QED
      BY <1>1, <1>2, <3>1, <3>2 DEF Range
  <2> QED
    BY <2>1, <2>2
<1>6. Head(s) \in Range(s)
  BY <1>1, <1>2, <1>3 DEF Range
<1> QED
  BY <1>1, <1>4, <1>5, <1>6 DEF r

\* list_remove of an element anywhere in the list.
LEMMA DropAtInjective ==
  ASSUME NEW S, NEW s \in Seq(S), IsInjective(s), NEW e \in Range(s)
  PROVE  LET r == DropAt(s, Position(s, e))
         IN  /\ r \in Seq(S)
             /\ IsInjective(r)
             /\ Range(r) = Range(s) \ {e}
<1> DEFINE k == Position(s, e)
<1> DEFINE r == DropAt(s, k)
<1>1. Len(s) \in Nat /\ DOMAIN s = 1 .. Len(s) /\ \A i \in 1 .. Len(s) : s[i] \in S
  BY LenProperties, ElementOfSeq
<1>2. k \in 1 .. Len(s) /\ s[k] = e
  BY <1>1 DEF Position, Range
<1> HIDE DEF k
<1>3. Len(s) - 1 \in Nat
  BY <1>1, <1>2
<1>4. /\ DOMAIN r = 1 .. Len(s) - 1
      /\ \A i \in 1 .. Len(s) - 1 : r[i] = IF i < k THEN s[i] ELSE s[i + 1]
  BY DEF DropAt
<1>5. \A i \in 1 .. Len(s) - 1 : r[i] \in S
  BY <1>1, <1>2, <1>4
<1>6. r \in [1 .. Len(s) - 1 -> S]
  BY <1>1, <1>2 DEF DropAt
<1>7. r \in Seq(S)
  BY <1>3, <1>6, SeqDef
<1> HIDE DEF r
<1>8. IsInjective(r)
  <2> SUFFICES ASSUME NEW i \in 1 .. Len(s) - 1, NEW j \in 1 .. Len(s) - 1,
                      r[i] = r[j]
               PROVE  i = j
    BY <1>4 DEF IsInjective
  <2> DEFINE up(n) == IF n < k THEN n ELSE n + 1
  <2>1. /\ up(i) \in 1 .. Len(s) /\ up(j) \in 1 .. Len(s)
        /\ s[up(i)] = s[up(j)]
    BY <1>1, <1>2, <1>4
  <2>2. up(i) = up(j)
    BY <1>1, <2>1 DEF IsInjective
  <2> QED
    BY <1>1, <1>2, <2>2
<1>9. Range(r) = Range(s) \ {e}
  <2>1. ASSUME NEW x \in Range(r) PROVE x \in Range(s) /\ x # e
    BY <1>1, <1>2, <1>4 DEF Range, IsInjective
  <2>2. ASSUME NEW x \in Range(s), x # e PROVE x \in Range(r)
    <3>1. PICK j \in 1 .. Len(s) : x = s[j]
      BY <1>1 DEF Range
    <3>2. j # k
      BY <1>2, <2>2, <3>1
    <3>3. CASE j < k
      <4>1. j \in 1 .. Len(s) - 1 /\ r[j] = s[j]
        BY <1>1, <1>2, <1>4, <3>1, <3>3
      <4> QED
        BY <1>4, <3>1, <4>1 DEF Range
    <3>4. CASE j > k
      <4>1. j - 1 \in 1 .. Len(s) - 1 /\ r[j - 1] = s[j]
        BY <1>1, <1>2, <1>4, <3>1, <3>4
      <4> QED
        BY <1>4, <3>1, <4>1 DEF Range
    <3> QED
      BY <1>1, <1>2, <3>2, <3>3, <3>4
  <2> QED
    BY <2>1, <2>2
<1> QED
  BY <1>7, <1>8, <1>9 DEF r, k

\* One list appended to another that shares no element with it.
LEMMA ConcatInjective ==
  ASSUME NEW S, NEW s \in Seq(S), NEW u \in Seq(S),
         IsInjective(s), IsInjective(u), Range(s) \cap Range(u) = {}
  PROVE  /\ s \o u \in Seq(S)
         /\ IsInjective(s \o u)
         /\ Range(s \o u) = Range(s) \cup Range(u)
<1> DEFINE r == s \o u
<1>1. /\ r \in Seq(S)
      /\ Len(r) = Len(s) + Len(u)
      /\ \A i \in 1 .. Len(s) + Len(u) :
           r[i] = IF i <= Len(s) THEN s[i] ELSE u[i - Len(s)]
  BY ConcatProperties
<1>2. /\ Len(s) \in Nat /\ Len(u) \in Nat
      /\ DOMAIN s = 1 .. Len(s) /\ DOMAIN u = 1 .. Len(u)
      /\ DOMAIN r = 1 .. Len(s) + Len(u)
  BY <1>1, LenProperties
<1>3. Range(r) = Range(s) \cup Range(u)
  BY RangeConcatenation
<1> HIDE DEF r
<1>4. IsInjective(r)
  <2> SUFFICES ASSUME NEW i \in DOMAIN r, NEW j \in DOMAIN r, r[i] = r[j]
               PROVE  i = j
    BY DEF IsInjective
  <2>1. CASE i <= Len(s) /\ j <= Len(s)
    <3>1. i \in DOMAIN s /\ j \in DOMAIN s /\ s[i] = s[j]
      BY <1>1, <1>2, <2>1
    <3> QED
      BY <3>1 DEF IsInjective
  <2>2. CASE i > Len(s) /\ j > Len(s)
    <3>1. /\ i - Len(s) \in DOMAIN u /\ j - Len(s) \in DOMAIN u
          /\ u[i - Len(s)] = u[j - Len(s)]
      BY <1>1, <1>2, <2>2
    <3>2. i - Len(s) = j - Len(s)
      BY <3>1 DEF IsInjective
    <3> QED
      BY <1>2, <3>2
  <2>3. CASE i <= Len(s) /\ j > Len(s)
    <3>1. /\ i \in DOMAIN s /\ r[i] = s[i]
          /\ j - Len(s) \in DOMAIN u /\ r[j] = u[j - Len(s)]
      BY <1>1, <1>2, <2>3
    <3>2. r[i] \in Range(s) /\ r[j] \in Range(u)
      BY <3>1, Zenon DEF Range
    <3> QED
      BY <3>2
  <2>4. CASE i > Len(s) /\ j <= Len(s)
    <3>1. /\ j \in DOMAIN s /\ r[j] = s[j]
          /\ i - Len(s) \in DOMAIN u /\ r[i] = u[i - Len(s)]
      BY <1>1, <1>2, <2>4
    <3>2. r[i] \in Range(u) /\ r[j] \in Range(s)
      BY <3>1, Zenon DEF Range
    <3> QED
      BY <3>2
  <2> QED
    BY <1>2, <2>1, <2>2, <2>3, <2>4
<1> QED
  BY <1>1, <1>3, <1>4 DEF r

-----------------------------------------------------------------------------
\* The fields of s2, when it comes from s and only the lists, kt_state,
\* kt_wchan and the progress of sched_switch may differ.
Becomes(s, s2, state, wchan, switching) ==
  /\ s2 \in SchedType
  /\ s2.state = state
  /\ s2.wchan = wchan
  /\ s2.switching = switching
  /\ s2.cancelled = s.cancelled
  /\ s2.cur = s.cur
  /\ s2.panic = s.panic

\* The lists are as they were, but for those of the queues in Q.
SameQueuesBut(s, s2, Q) == \A r \in Queue \ Q : s2.queue[r] = s.queue[r]

\* The private list functions.

\* ktqueue_enqueue of a thread that is on no queue.
LEMMA EnqueueProperties ==
  ASSUME NEW s \in SchedType, QueuesMatchWchan(s),
         NEW q \in Queue, NEW t \in Thread, s.wchan[t] = NULL
  PROVE  LET e == ktqueue_enqueue(s, q, t)
         IN  /\ Becomes(s, e, s.state, [s.wchan EXCEPT ![t] = q], s.switching)
             /\ QueuesMatchWchan(e)
             /\ e.queue[q] = Append(s.queue[q], t)
             /\ SameQueuesBut(s, e, {q})
<1> DEFINE e == ktqueue_enqueue(s, q, t)
<1> USE QueueAssumption
<1>1. e = [s EXCEPT !.queue[q] = Append(s.queue[q], t), !.wchan[t] = q]
  BY DEF ktqueue_enqueue, Kassert, SchedType
<1>2. /\ s.queue[q] \in Seq(Thread) /\ IsInjective(s.queue[q])
      /\ t \notin Range(s.queue[q])
  BY DEF SchedType, QueuesMatchWchan, Queue
<1>3. /\ Append(s.queue[q], t) \in Seq(Thread)
      /\ IsInjective(Append(s.queue[q], t))
      /\ Range(Append(s.queue[q], t)) = Range(s.queue[q]) \cup {t}
  BY <1>2, AppendInjective1
<1> HIDE DEF e
<1>4. e \in SchedType
  BY <1>1, <1>3, Zenon DEF SchedType
<1>5. Becomes(s, e, s.state, [s.wchan EXCEPT ![t] = q], s.switching)
  BY <1>1, <1>4 DEF SchedType, Becomes
<1>6. /\ e.queue[q] = Append(s.queue[q], t)
      /\ \A r \in Queue : r # q => e.queue[r] = s.queue[r]
      /\ e.wchan[t] = q
      /\ \A u \in Thread : u # t => e.wchan[u] = s.wchan[u]
  BY <1>1 DEF SchedType
<1>7. QueuesMatchWchan(e)
  <2>1. /\ IsInjective(e.queue[q])
        /\ \A u \in Thread : u \in Range(e.queue[q]) <=> e.wchan[u] = q
    BY <1>3, <1>6 DEF QueuesMatchWchan
  <2>2. ASSUME NEW r \in Queue, r # q
        PROVE  /\ IsInjective(e.queue[r])
               /\ \A u \in Thread : u \in Range(e.queue[r]) <=> e.wchan[u] = r
    BY <1>6, <2>2 DEF QueuesMatchWchan, Queue
  <2> QED
    BY <2>1, <2>2 DEF QueuesMatchWchan
<1> QED
  BY <1>5, <1>6, <1>7 DEF e, SameQueuesBut

\* ktqueue_dequeue of a queue that is not empty.
LEMMA DequeueProperties ==
  ASSUME NEW s \in SchedType, QueuesMatchWchan(s),
         NEW q \in Queue, s.queue[q] # <<>>
  PROVE  LET d == ktqueue_dequeue(s, q)
             t == Oldest(s, q)
         IN  /\ t \in Thread /\ s.wchan[t] = q
             /\ Becomes(s, d, s.state, [s.wchan EXCEPT ![t] = NULL], s.switching)
             /\ QueuesMatchWchan(d)
             /\ d.queue[q] = Tail(s.queue[q])
             /\ SameQueuesBut(s, d, {q})
<1> DEFINE d == ktqueue_dequeue(s, q)
<1> DEFINE t == Oldest(s, q)
<1> USE QueueAssumption
<1>1. d = [s EXCEPT !.queue[q] = Tail(s.queue[q]), !.wchan[t] = NULL]
  BY DEF ktqueue_dequeue, SchedType
<1>2. s.queue[q] \in Seq(Thread) /\ IsInjective(s.queue[q])
  BY DEF SchedType, QueuesMatchWchan
<1>3. /\ t \in Thread
      /\ t \in Range(s.queue[q])
      /\ Tail(s.queue[q]) \in Seq(Thread)
      /\ IsInjective(Tail(s.queue[q]))
      /\ Range(Tail(s.queue[q])) = Range(s.queue[q]) \ {t}
  BY <1>2, TailInjective DEF Oldest
<1> HIDE DEF d, t
<1>4. s.wchan[t] = q
  BY <1>3 DEF QueuesMatchWchan
<1>5. d \in SchedType
  BY <1>1, <1>3, Zenon DEF SchedType
<1>6. Becomes(s, d, s.state, [s.wchan EXCEPT ![t] = NULL], s.switching)
  BY <1>1, <1>5 DEF SchedType, Becomes
<1>7. /\ d.queue[q] = Tail(s.queue[q])
      /\ \A r \in Queue : r # q => d.queue[r] = s.queue[r]
      /\ d.wchan[t] = NULL
      /\ \A u \in Thread : u # t => d.wchan[u] = s.wchan[u]
  BY <1>1, <1>3 DEF SchedType
<1>8. QueuesMatchWchan(d)
  BY <1>3, <1>4, <1>7 DEF QueuesMatchWchan, Queue
<1> QED
  BY <1>3, <1>4, <1>6, <1>7, <1>8 DEF d, t, SameQueuesBut

\* ktqueue_remove of a thread from the queue it is on.
LEMMA RemoveProperties ==
  ASSUME NEW s \in SchedType, QueuesMatchWchan(s),
         NEW q \in Queue, NEW t \in Thread, s.wchan[t] = q
  PROVE  LET d == ktqueue_remove(s, q, t)
         IN  /\ Becomes(s, d, s.state, [s.wchan EXCEPT ![t] = NULL], s.switching)
             /\ QueuesMatchWchan(d)
             /\ d.queue[q] = DropAt(s.queue[q], Position(s.queue[q], t))
             /\ SameQueuesBut(s, d, {q})
<1> DEFINE d == ktqueue_remove(s, q, t)
<1> DEFINE rest == DropAt(s.queue[q], Position(s.queue[q], t))
<1> USE QueueAssumption
<1>1. /\ s.queue[q] \in Seq(Thread) /\ IsInjective(s.queue[q])
      /\ t \in Range(s.queue[q])
  BY DEF SchedType, QueuesMatchWchan
<1>2. d = [s EXCEPT !.queue[q] = rest, !.wchan[t] = NULL]
  BY <1>1 DEF ktqueue_remove, Kassert, SchedType
<1>3. /\ rest \in Seq(Thread)
      /\ IsInjective(rest)
      /\ Range(rest) = Range(s.queue[q]) \ {t}
  BY <1>1, DropAtInjective
<1> HIDE DEF d, rest
<1>4. d \in SchedType
  BY <1>2, <1>3, Zenon DEF SchedType
<1>5. Becomes(s, d, s.state, [s.wchan EXCEPT ![t] = NULL], s.switching)
  BY <1>2, <1>4 DEF SchedType, Becomes
<1>6. /\ d.queue[q] = rest
      /\ \A r \in Queue : r # q => d.queue[r] = s.queue[r]
      /\ d.wchan[t] = NULL
      /\ \A u \in Thread : u # t => d.wchan[u] = s.wchan[u]
  BY <1>2 DEF SchedType
<1>7. QueuesMatchWchan(d)
  BY <1>3, <1>6 DEF QueuesMatchWchan, Queue
<1> QED
  BY <1>5, <1>6, <1>7 DEF d, rest, SameQueuesBut

-----------------------------------------------------------------------------
\* The public functions.

\* What QueuesMatchWchan says depends on the lists and kt_wchan only.
LEMMA SameQueues ==
  ASSUME NEW s, NEW s2, QueuesMatchWchan(s),
         s2.queue = s.queue, s2.wchan = s.wchan
  PROVE  QueuesMatchWchan(s2)
BY DEF QueuesMatchWchan

\* The consistency of kt_state with kt_wchan, thread by thread.
LEMMA StatesPointwise ==
  ASSUME NEW s,
         \A u \in Thread :
           \/ s.wchan[u] = RunQ /\ s.state[u] = "RUN"
           \/ s.wchan[u] \in WaitQ /\ s.state[u] \in Asleep
           \/ s.wchan[u] = NULL /\ s.state[u] \notin Asleep \cup {"RUN"}
           \/ s.wchan[u] = NULL /\ s.state[u] = "RUN" /\ Running(s, u)
  PROVE  StatesMatchWchan(s)
<1> USE QueueAssumption DEF Asleep
<1> QED
  BY DEF StatesMatchWchan

\* A thread is runnable on the run queue, asleep on a wait queue, executing, or neither started nor alive.
LEMMA StatesCases ==
  ASSUME NEW s, SchedOK(s), NEW u \in Thread
  PROVE  \/ s.wchan[u] = RunQ /\ s.state[u] = "RUN"
         \/ s.wchan[u] \in WaitQ /\ s.state[u] \in Asleep
         \/ s.wchan[u] = NULL /\ s.state[u] \notin Asleep \cup {"RUN"}
         \/ s.wchan[u] = NULL /\ s.state[u] = "RUN" /\ Running(s, u)
<1>1. s.wchan[u] \in WaitQ \cup {RunQ, NULL}
  BY DEF SchedOK, SchedType, Queue
<1> QED
  BY <1>1, QueueAssumption DEF SchedOK, StatesMatchWchan, Asleep

\* sched_make_runnable of a thread that is on no queue.
LEMMA MakeRunnableProperties ==
  ASSUME NEW s \in SchedType, QueuesMatchWchan(s),
         NEW t \in Thread, s.wchan[t] = NULL
  PROVE  LET m == sched_make_runnable(s, t)
         IN  /\ Becomes(s, m, [s.state EXCEPT ![t] = "RUN"],
                              [s.wchan EXCEPT ![t] = RunQ], s.switching)
             /\ QueuesMatchWchan(m)
             /\ m.queue[RunQ] = Append(s.queue[RunQ], t)
             /\ SameQueuesBut(s, m, {RunQ})
<1> DEFINE s1 == [s EXCEPT !.state[t] = "RUN"]
<1> DEFINE m == ktqueue_enqueue(s1, RunQ, t)
<1> USE QueueAssumption
<1>1. Becomes(s, s1, [s.state EXCEPT ![t] = "RUN"], s.wchan, s.switching)
      /\ s1.queue = s.queue
  BY Zenon DEF SchedType, ThreadState, Becomes
<1>2. sched_make_runnable(s, t) = m
  BY DEF sched_make_runnable, Kassert
<1> HIDE DEF s1
<1>3. QueuesMatchWchan(s1)
  BY <1>1, SameQueues DEF Becomes
<1>4. RunQ \in Queue
  BY DEF Queue
<1>5. /\ Becomes(s1, m, s1.state, [s1.wchan EXCEPT ![t] = RunQ], s1.switching)
      /\ QueuesMatchWchan(m)
      /\ m.queue[RunQ] = Append(s1.queue[RunQ], t)
      /\ SameQueuesBut(s1, m, {RunQ})
  <2>1. s1 \in SchedType /\ s1.wchan[t] = NULL
    BY <1>1 DEF Becomes
  <2> QED
    BY <1>3, <1>4, <2>1, EnqueueProperties, Zenon
<1> HIDE DEF m
<1> QED
  BY <1>1, <1>2, <1>5 DEF Becomes, SameQueuesBut

\* A sleeping call of the current thread, in either kind of sleep.
LEMMA SleepProperties ==
  ASSUME NEW s, SchedOK(s), ~s.switching,
         NEW q \in WaitQ, NEW st \in Asleep
  PROVE  LET e == sched_switch(
                    ktqueue_enqueue([s EXCEPT !.state[s.cur] = st], q, s.cur))
         IN  /\ Becomes(s, e, [s.state EXCEPT ![s.cur] = st],
                              [s.wchan EXCEPT ![s.cur] = q], TRUE)
             /\ SchedOK(e)
             /\ e.queue[q] = Append(s.queue[q], s.cur)
             /\ SameQueuesBut(s, e, {q})
<1> DEFINE s1 == [s EXCEPT !.state[s.cur] = st]
<1> DEFINE e1 == ktqueue_enqueue(s1, q, s.cur)
<1> DEFINE e == sched_switch(e1)
<1> USE QueueAssumption
<1>1. /\ s \in SchedType /\ QueuesMatchWchan(s) /\ s.wchan[s.cur] = NULL
      /\ s.cur \in Thread /\ q \in Queue /\ q # RunQ
      /\ s.state \in [Thread -> ThreadState]
      /\ s.wchan \in [Thread -> Queue \cup {NULL}]
  BY DEF SchedOK, RunnerIsOffQueue, SchedType, Queue
<1>2. Becomes(s, s1, [s.state EXCEPT ![s.cur] = st], s.wchan, s.switching)
      /\ s1.queue = s.queue
  BY <1>1, Zenon DEF SchedType, ThreadState, Asleep, Becomes
<1> HIDE DEF s1
<1>3. QueuesMatchWchan(s1) /\ s1 \in SchedType /\ s1.wchan[s.cur] = NULL
  BY <1>1, <1>2, SameQueues DEF Becomes
<1>4. /\ Becomes(s1, e1, s1.state, [s1.wchan EXCEPT ![s.cur] = q], s1.switching)
      /\ QueuesMatchWchan(e1)
      /\ e1.queue[q] = Append(s1.queue[q], s.cur)
      /\ SameQueuesBut(s1, e1, {q})
  BY <1>1, <1>3, EnqueueProperties, Zenon
<1> HIDE DEF e1
<1>5. Becomes(e1, e, e1.state, e1.wchan, TRUE) /\ e.queue = e1.queue
  BY <1>4, Zenon DEF Becomes, SchedType, sched_switch
<1> HIDE DEF e
<1>6. /\ Becomes(s, e, [s.state EXCEPT ![s.cur] = st],
                       [s.wchan EXCEPT ![s.cur] = q], TRUE)
      /\ e.queue[q] = Append(s.queue[q], s.cur)
      /\ SameQueuesBut(s, e, {q})
  BY <1>2, <1>4, <1>5 DEF Becomes, SameQueuesBut
<1>7. QueuesMatchWchan(e)
  BY <1>4, <1>5, SameQueues DEF Becomes
<1>8. StatesMatchWchan(e)
  <2>1. \A u \in Thread : u # s.cur =>
          \/ s.wchan[u] = RunQ /\ s.state[u] = "RUN"
          \/ s.wchan[u] \in WaitQ /\ s.state[u] \in Asleep
          \/ s.wchan[u] = NULL /\ s.state[u] \notin Asleep \cup {"RUN"}
    BY StatesCases DEF Running
  <2>2. /\ e.wchan[s.cur] = q /\ e.state[s.cur] = st
        /\ \A u \in Thread : u # s.cur => /\ e.wchan[u] = s.wchan[u]
                                          /\ e.state[u] = s.state[u]
    BY <1>1, <1>6 DEF Becomes
  <2> QED
    BY <2>1, <2>2, StatesPointwise
<1>9. SchedOK(e)
  BY <1>6, <1>7, <1>8 DEF SchedOK, RunnerIsOffQueue, Becomes
<1> QED
  BY <1>6, <1>9, Zenon DEF e, e1, s1

\* A sleeper t of queue q is taken off it (by ktqueue_dequeue or by
\* ktqueue_remove, giving d) and made runnable.
LEMMA WakeOneProperties ==
  ASSUME NEW s, SchedOK(s), NEW q \in WaitQ, NEW t \in Thread, s.wchan[t] = q,
         NEW d, QueuesMatchWchan(d),
         Becomes(s, d, s.state, [s.wchan EXCEPT ![t] = NULL], s.switching)
  PROVE  LET m == sched_make_runnable(d, t)
         IN  /\ Becomes(s, m, [s.state EXCEPT ![t] = "RUN"],
                              [s.wchan EXCEPT ![t] = RunQ], s.switching)
             /\ SchedOK(m)
             /\ m.queue[RunQ] = Append(d.queue[RunQ], t)
             /\ SameQueuesBut(d, m, {RunQ})
<1> DEFINE m == sched_make_runnable(d, t)
<1> USE QueueAssumption
<1>1. /\ s.state \in [Thread -> ThreadState]
      /\ s.wchan \in [Thread -> Queue \cup {NULL}]
      /\ d \in SchedType /\ d.wchan[t] = NULL
  BY DEF SchedOK, SchedType, Becomes
<1>2. /\ Becomes(d, m, [d.state EXCEPT ![t] = "RUN"],
                       [d.wchan EXCEPT ![t] = RunQ], d.switching)
      /\ QueuesMatchWchan(m)
      /\ m.queue[RunQ] = Append(d.queue[RunQ], t)
      /\ SameQueuesBut(d, m, {RunQ})
  BY <1>1, MakeRunnableProperties, Zenon
<1> HIDE DEF m
<1>3. Becomes(s, m, [s.state EXCEPT ![t] = "RUN"],
                    [s.wchan EXCEPT ![t] = RunQ], s.switching)
  BY <1>1, <1>2 DEF Becomes
<1>4. /\ m.wchan[t] = RunQ /\ m.state[t] = "RUN"
      /\ \A u \in Thread : u # t => /\ m.wchan[u] = s.wchan[u]
                                    /\ m.state[u] = s.state[u]
      /\ \A u \in Thread : Running(m, u) <=> Running(s, u)
  BY <1>1, <1>3 DEF Becomes, Running
<1>5. StatesMatchWchan(m)
  BY <1>4, StatesCases, StatesPointwise
<1>6. RunnerIsOffQueue(m)
  <2>1. ~s.switching => s.cur # t
    BY DEF SchedOK, RunnerIsOffQueue
  <2>2. ~s.switching => s.wchan[s.cur] = NULL /\ s.cur \in Thread
    BY DEF SchedOK, RunnerIsOffQueue, SchedType
  <2> QED
    BY <1>3, <1>4, <2>1, <2>2 DEF RunnerIsOffQueue, Becomes
<1>7. SchedOK(m)
  BY <1>2, <1>3, <1>5, <1>6 DEF SchedOK, Becomes
<1> QED
  BY <1>2, <1>3, <1>7 DEF m

\* sched_wakeup_on of a wait queue that has a sleeper, t.
LEMMA WakeupProperties ==
  ASSUME NEW s, SchedOK(s), NEW q \in WaitQ, s.queue[q] # <<>>
  PROVE  LET w == sched_wakeup_on(s, q)
             t == Oldest(s, q)
         IN  /\ t \in Thread /\ s.wchan[t] = q
             /\ Becomes(s, w, [s.state EXCEPT ![t] = "RUN"],
                              [s.wchan EXCEPT ![t] = RunQ], s.switching)
             /\ SchedOK(w)
             /\ w.queue[RunQ] = Append(s.queue[RunQ], t)
             /\ w.queue[q] = Tail(s.queue[q])
             /\ SameQueuesBut(s, w, {q, RunQ})
<1> DEFINE t == Oldest(s, q)
<1> DEFINE d == ktqueue_dequeue(s, q)
<1> DEFINE w == sched_make_runnable(d, t)
<1> USE QueueAssumption
<1>1. s \in SchedType /\ QueuesMatchWchan(s) /\ q \in Queue /\ RunQ \in Queue
      /\ q # RunQ
  BY DEF SchedOK, Queue
<1>2. /\ t \in Thread /\ s.wchan[t] = q
      /\ Becomes(s, d, s.state, [s.wchan EXCEPT ![t] = NULL], s.switching)
      /\ QueuesMatchWchan(d)
      /\ d.queue[q] = Tail(s.queue[q])
      /\ SameQueuesBut(s, d, {q})
  BY <1>1, DequeueProperties
<1>3. s.state[t] \in Asleep
  BY <1>2 DEF SchedOK, StatesMatchWchan
<1>4. sched_wakeup_on(s, q) = w
  BY <1>3 DEF sched_wakeup_on, sched_queue_empty, Kassert
<1> HIDE DEF d, t
<1>5. /\ Becomes(s, w, [s.state EXCEPT ![t] = "RUN"],
                       [s.wchan EXCEPT ![t] = RunQ], s.switching)
      /\ SchedOK(w)
      /\ w.queue[RunQ] = Append(d.queue[RunQ], t)
      /\ SameQueuesBut(d, w, {RunQ})
  BY <1>2, WakeOneProperties, Zenon
<1> HIDE DEF w
<1>6. /\ w.queue[RunQ] = Append(s.queue[RunQ], t)
      /\ w.queue[q] = Tail(s.queue[q])
      /\ SameQueuesBut(s, w, {q, RunQ})
  BY <1>1, <1>2, <1>5 DEF SameQueuesBut
<1> QED
  BY <1>2, <1>4, <1>5, <1>6 DEF t

\* sched_cancel of a thread that has started and not exited.
LEMMA CancelProperties ==
  ASSUME NEW s, SchedOK(s), NEW t \in Thread,
         s.state[t] \notin {"NO_STATE", "EXITED"}
  PROVE  LET c == sched_cancel(s, t)
         IN  /\ SchedOK(c)
             /\ c.panic = s.panic /\ c.cur = s.cur /\ c.switching = s.switching
             /\ c.cancelled = [s.cancelled EXCEPT ![t] = TRUE]
             /\ s.state[t] # "SLEEP_CANCELLABLE" =>
                  /\ c.state = s.state /\ c.wchan = s.wchan
                  /\ c.queue = s.queue
             /\ s.state[t] = "SLEEP_CANCELLABLE" =>
                  /\ c.state = [s.state EXCEPT ![t] = "RUN"]
                  /\ c.wchan = [s.wchan EXCEPT ![t] = RunQ]
                  /\ s.wchan[t] \in WaitQ
                  /\ c.queue[s.wchan[t]] =
                       DropAt(s.queue[s.wchan[t]], Position(s.queue[s.wchan[t]], t))
                  /\ c.queue[RunQ] = Append(s.queue[RunQ], t)
                  /\ SameQueuesBut(s, c, {s.wchan[t], RunQ})
<1> DEFINE c1 == [s EXCEPT !.cancelled[t] = TRUE]
<1> USE QueueAssumption
<1>1. /\ c1 \in SchedType
      /\ c1.state = s.state /\ c1.wchan = s.wchan /\ c1.queue = s.queue
      /\ c1.cancelled = [s.cancelled EXCEPT ![t] = TRUE]
      /\ c1.cur = s.cur /\ c1.switching = s.switching /\ c1.panic = s.panic
  BY Zenon DEF SchedOK, SchedType
<1>2. sched_cancel(s, t) = IF s.state[t] = "SLEEP_CANCELLABLE"
        THEN sched_make_runnable(ktqueue_remove(c1, s.wchan[t], t), t)
        ELSE c1
  BY DEF sched_cancel, Kassert
<1> HIDE DEF c1
<1>3. SchedOK(c1)
  BY <1>1 DEF SchedOK, QueuesMatchWchan, StatesMatchWchan, RunnerIsOffQueue,
              Running
<1>4. CASE s.state[t] # "SLEEP_CANCELLABLE"
  BY <1>1, <1>2, <1>3, <1>4
<1>5. CASE s.state[t] = "SLEEP_CANCELLABLE"
  <2> DEFINE q == s.wchan[t]
  <2> DEFINE d == ktqueue_remove(c1, q, t)
  <2> DEFINE m == sched_make_runnable(d, t)
  <2>1. q \in WaitQ /\ q \in Queue /\ q # RunQ
    BY <1>5 DEF SchedOK, StatesMatchWchan, Asleep, Queue
  <2>2. /\ Becomes(c1, d, c1.state, [c1.wchan EXCEPT ![t] = NULL], c1.switching)
        /\ QueuesMatchWchan(d)
        /\ d.queue[q] = DropAt(c1.queue[q], Position(c1.queue[q], t))
        /\ SameQueuesBut(c1, d, {q})
    BY <1>1, <1>3, <2>1, RemoveProperties DEF SchedOK
  <2>3. c1.wchan[t] = q
    BY <1>1
  <2> HIDE DEF d, q
  <2>4. /\ Becomes(c1, m, [c1.state EXCEPT ![t] = "RUN"],
                          [c1.wchan EXCEPT ![t] = RunQ], c1.switching)
        /\ SchedOK(m)
        /\ m.queue[RunQ] = Append(d.queue[RunQ], t)
        /\ SameQueuesBut(d, m, {RunQ})
    BY <1>3, <2>1, <2>2, <2>3, WakeOneProperties, Zenon
  <2> HIDE DEF m
  <2>5. /\ m.queue[q] = DropAt(s.queue[q], Position(s.queue[q], t))
        /\ m.queue[RunQ] = Append(s.queue[RunQ], t)
        /\ SameQueuesBut(s, m, {q, RunQ})
    BY <1>1, <2>1, <2>2, <2>4 DEF SameQueuesBut, Queue
  <2>6. sched_cancel(s, t) = m
    BY <1>2, <1>5 DEF m, d, q
  <2>7. /\ m.panic = s.panic /\ m.cur = s.cur /\ m.switching = s.switching
        /\ m.cancelled = [s.cancelled EXCEPT ![t] = TRUE]
        /\ m.state = [s.state EXCEPT ![t] = "RUN"]
        /\ m.wchan = [s.wchan EXCEPT ![t] = RunQ]
    BY <1>1, <2>4 DEF Becomes
  <2> QED
    BY <1>5, <2>1, <2>4, <2>5, <2>6, <2>7 DEF q
<1> QED
  BY <1>4, <1>5

\* What sched_cancel does to the queue of a thread in a cancellable sleep.
LEMMA CancelledSleeper ==
  ASSUME NEW s, SchedOK(s), NEW t \in Thread,
         s.state[t] = "SLEEP_CANCELLABLE",
         NEW c, c = sched_cancel(s, t)
  PROVE  \E q \in WaitQ : \E k \in DOMAIN s.queue[q] :
           /\ s.queue[q][k] = t
           /\ c.queue[q] = DropAt(s.queue[q], k)
           /\ SameQueuesBut(s, c, {q, RunQ})
<1>1. s.state[t] \notin {"NO_STATE", "EXITED"}
  OBVIOUS
<1> DEFINE q == s.wchan[t]
<1> DEFINE k == Position(s.queue[q], t)
<1>2. /\ q \in WaitQ
      /\ c.queue[q] = DropAt(s.queue[q], k)
      /\ SameQueuesBut(s, c, {q, RunQ})
  BY <1>1, CancelProperties, Zenon
<1>3. t \in Range(s.queue[q])
  BY <1>2, QueueAssumption DEF SchedOK, QueuesMatchWchan, Queue
<1>4. k \in DOMAIN s.queue[q] /\ s.queue[q][k] = t
  BY <1>3 DEF Position, Range
<1> HIDE DEF k, q
<1> QED
  BY <1>2, <1>4

\* sched_make_runnable of a thread that has not run yet.
LEMMA StartProperties ==
  ASSUME NEW s, SchedOK(s), NEW t \in Thread, t # s.cur,
         s.state[t] = "NO_STATE"
  PROVE  LET m == sched_make_runnable(s, t)
         IN  /\ Becomes(s, m, [s.state EXCEPT ![t] = "RUN"],
                              [s.wchan EXCEPT ![t] = RunQ], s.switching)
             /\ SchedOK(m)
             /\ m.queue[RunQ] = Append(s.queue[RunQ], t)
             /\ SameQueuesBut(s, m, {RunQ})
<1> DEFINE m == sched_make_runnable(s, t)
<1> USE QueueAssumption
<1>1. /\ s \in SchedType /\ QueuesMatchWchan(s)
      /\ s.state \in [Thread -> ThreadState]
      /\ s.wchan \in [Thread -> Queue \cup {NULL}]
  BY DEF SchedOK, SchedType
<1>2. s.wchan[t] = NULL
  BY StatesCases DEF Asleep
<1>3. /\ Becomes(s, m, [s.state EXCEPT ![t] = "RUN"],
                       [s.wchan EXCEPT ![t] = RunQ], s.switching)
      /\ QueuesMatchWchan(m)
      /\ m.queue[RunQ] = Append(s.queue[RunQ], t)
      /\ SameQueuesBut(s, m, {RunQ})
  BY <1>1, <1>2, MakeRunnableProperties, Zenon
<1> HIDE DEF m
<1>4. /\ m.wchan[t] = RunQ /\ m.state[t] = "RUN"
      /\ \A u \in Thread : u # t => /\ m.wchan[u] = s.wchan[u]
                                    /\ m.state[u] = s.state[u]
      /\ \A u \in Thread : Running(m, u) <=> Running(s, u)
  BY <1>1, <1>3 DEF Becomes, Running
<1>5. StatesMatchWchan(m)
  BY <1>4, StatesCases, StatesPointwise
<1>6. RunnerIsOffQueue(m)
  BY <1>3, <1>4 DEF RunnerIsOffQueue, Becomes, SchedOK, SchedType
<1> QED
  BY <1>3, <1>5, <1>6 DEF SchedOK, Becomes, m

\* The current thread puts itself on the run queue and switches.
LEMMA YieldProperties ==
  ASSUME NEW s, SchedOK(s), ~s.switching
  PROVE  LET y == Yield(s)
         IN  /\ Becomes(s, y, [s.state EXCEPT ![s.cur] = "RUN"],
                              [s.wchan EXCEPT ![s.cur] = RunQ], TRUE)
             /\ SchedOK(y)
             /\ y.queue[RunQ] = Append(s.queue[RunQ], s.cur)
             /\ SameQueuesBut(s, y, {RunQ})
<1> DEFINE m == sched_make_runnable(s, s.cur)
<1> DEFINE y == sched_switch(m)
<1> USE QueueAssumption
<1>1. /\ s \in SchedType /\ QueuesMatchWchan(s)
      /\ s.cur \in Thread /\ s.wchan[s.cur] = NULL
      /\ s.state \in [Thread -> ThreadState]
      /\ s.wchan \in [Thread -> Queue \cup {NULL}]
  BY DEF SchedOK, SchedType, RunnerIsOffQueue
<1>2. /\ Becomes(s, m, [s.state EXCEPT ![s.cur] = "RUN"],
                       [s.wchan EXCEPT ![s.cur] = RunQ], s.switching)
      /\ QueuesMatchWchan(m)
      /\ m.queue[RunQ] = Append(s.queue[RunQ], s.cur)
      /\ SameQueuesBut(s, m, {RunQ})
  BY <1>1, MakeRunnableProperties, Zenon
<1> HIDE DEF m
<1>3. Becomes(m, y, m.state, m.wchan, TRUE) /\ y.queue = m.queue
  BY <1>2, Zenon DEF Becomes, SchedType, sched_switch
<1> HIDE DEF y
<1>4. /\ Becomes(s, y, [s.state EXCEPT ![s.cur] = "RUN"],
                       [s.wchan EXCEPT ![s.cur] = RunQ], TRUE)
      /\ QueuesMatchWchan(y)
      /\ y.queue[RunQ] = Append(s.queue[RunQ], s.cur)
      /\ SameQueuesBut(s, y, {RunQ})
  BY <1>2, <1>3, SameQueues DEF Becomes, SameQueuesBut
<1>5. /\ y.wchan[s.cur] = RunQ /\ y.state[s.cur] = "RUN"
      /\ \A u \in Thread : u # s.cur => /\ y.wchan[u] = s.wchan[u]
                                        /\ y.state[u] = s.state[u]
  BY <1>1, <1>4 DEF Becomes
<1>6. StatesMatchWchan(y)
  <2>1. \A u \in Thread : u # s.cur => ~Running(s, u)
    BY DEF Running
  <2> QED
    BY <1>5, <2>1, StatesCases, StatesPointwise
<1> QED
  BY <1>4, <1>6 DEF SchedOK, RunnerIsOffQueue, Becomes, Yield, y, m

\* sched_switch takes the oldest runnable thread off the run queue.
LEMMA DispatchProperties ==
  ASSUME NEW s, SchedOK(s), s.switching, s.queue[RunQ] # <<>>
  PROVE  LET d == sched_dispatch(s)
             t == Oldest(s, RunQ)
         IN  /\ SchedOK(d)
             /\ t \in Thread /\ d.cur = t /\ d.switching = FALSE
             /\ d.panic = s.panic /\ d.cancelled = s.cancelled
             /\ d.state = s.state
             /\ d.wchan = [s.wchan EXCEPT ![t] = NULL]
             /\ s.wchan[t] = RunQ
             /\ d.queue[RunQ] = Tail(s.queue[RunQ])
             /\ SameQueuesBut(s, d, {RunQ})
<1> DEFINE t == Oldest(s, RunQ)
<1> DEFINE k == ktqueue_dequeue(s, RunQ)
<1> DEFINE d == [k EXCEPT !.cur = t, !.switching = FALSE]
<1> USE QueueAssumption
<1>1. s \in SchedType /\ QueuesMatchWchan(s) /\ RunQ \in Queue
      /\ s.wchan \in [Thread -> Queue \cup {NULL}]
  BY DEF SchedOK, Queue, SchedType
<1>2. /\ t \in Thread /\ s.wchan[t] = RunQ
      /\ Becomes(s, k, s.state, [s.wchan EXCEPT ![t] = NULL], s.switching)
      /\ QueuesMatchWchan(k)
      /\ k.queue[RunQ] = Tail(s.queue[RunQ])
      /\ SameQueuesBut(s, k, {RunQ})
  BY <1>1, DequeueProperties, Zenon
<1> HIDE DEF t, k
<1>3. /\ d \in SchedType
      /\ d.cur = t /\ d.switching = FALSE
      /\ d.queue = k.queue /\ d.wchan = k.wchan /\ d.state = k.state
      /\ d.panic = k.panic /\ d.cancelled = k.cancelled
  BY <1>2, Zenon DEF Becomes, SchedType
<1> HIDE DEF d
<1>4. QueuesMatchWchan(d)
  BY <1>2, <1>3, SameQueues
<1>5. StatesMatchWchan(d)
  <2>1. d.wchan[t] = NULL /\ d.state[t] = "RUN" /\ Running(d, t)
    BY <1>1, <1>2, <1>3 DEF Becomes, Running, SchedOK, StatesMatchWchan
  <2>2. \A u \in Thread : u # t => d.wchan[u] = s.wchan[u] /\ d.state[u] = s.state[u]
    BY <1>1, <1>2, <1>3 DEF Becomes
  <2>3. \A u \in Thread : ~Running(s, u)
    BY DEF Running
  <2> QED
    BY <2>1, <2>2, <2>3, StatesCases, StatesPointwise
<1>6. RunnerIsOffQueue(d)
  BY <1>1, <1>2, <1>3 DEF RunnerIsOffQueue, Becomes
<1>7. sched_dispatch(s) = d
  BY DEF sched_dispatch, d, k, t
<1> QED
  BY <1>2, <1>3, <1>4, <1>5, <1>6, <1>7 DEF SchedOK, Becomes, SameQueuesBut, t

\* The end of kthread_exit: the current thread leaves for good.
LEMMA ExitProperties ==
  ASSUME NEW s, SchedOK(s), ~s.switching
  PROVE  LET x == sched_switch([s EXCEPT !.state[s.cur] = "EXITED"])
         IN  /\ Becomes(s, x, [s.state EXCEPT ![s.cur] = "EXITED"], s.wchan, TRUE)
             /\ SchedOK(x)
             /\ x.queue = s.queue
<1> DEFINE x == sched_switch([s EXCEPT !.state[s.cur] = "EXITED"])
<1> USE QueueAssumption
<1>1. /\ s \in SchedType /\ QueuesMatchWchan(s)
      /\ s.cur \in Thread /\ s.wchan[s.cur] = NULL
      /\ s.state \in [Thread -> ThreadState]
  BY DEF SchedOK, SchedType, RunnerIsOffQueue
<1>2. /\ Becomes(s, x, [s.state EXCEPT ![s.cur] = "EXITED"], s.wchan, TRUE)
      /\ x.queue = s.queue
  BY <1>1, Zenon DEF Becomes, SchedType, ThreadState, sched_switch
<1> HIDE DEF x
<1>3. QueuesMatchWchan(x)
  BY <1>1, <1>2, SameQueues DEF Becomes
<1>4. StatesMatchWchan(x)
  <2>1. x.wchan[s.cur] = NULL /\ x.state[s.cur] = "EXITED"
    BY <1>1, <1>2 DEF Becomes
  <2>2. \A u \in Thread : u # s.cur => /\ x.wchan[u] = s.wchan[u]
                                       /\ x.state[u] = s.state[u]
                                       /\ ~Running(s, u)
    BY <1>1, <1>2 DEF Becomes, Running
  <2>3. "EXITED" \notin Asleep \cup {"RUN"}
    BY DEF Asleep
  <2> QED
    BY <2>1, <2>2, <2>3, StatesCases, StatesPointwise
<1> QED
  BY <1>2, <1>3, <1>4 DEF SchedOK, RunnerIsOffQueue, Becomes, x

\* sched_broadcast_on of a wait queue.
LEMMA BroadcastProperties ==
  ASSUME NEW s, SchedOK(s), NEW q \in WaitQ
  PROVE  LET b == sched_broadcast_on(s, q)
         IN  /\ SchedOK(b)
             /\ b.panic = s.panic /\ b.cur = s.cur /\ b.switching = s.switching
             /\ b.cancelled = s.cancelled
             /\ b.queue[q] = <<>>
             /\ b.queue[RunQ] = s.queue[RunQ] \o s.queue[q]
             /\ SameQueuesBut(s, b, {q, RunQ})
<1> DEFINE W == Range(s.queue[q])
<1> DEFINE run == s.queue[RunQ] \o s.queue[q]
<1> DEFINE wchan == [t \in Thread |-> IF t \in W THEN RunQ ELSE s.wchan[t]]
<1> DEFINE state == [t \in Thread |-> IF t \in W THEN "RUN" ELSE s.state[t]]
<1> DEFINE queue == [s.queue EXCEPT ![RunQ] = run, ![q] = <<>>]
<1> DEFINE b == [s EXCEPT !.queue[RunQ] = run, !.queue[q] = <<>>,
                          !.wchan = wchan, !.state = state]
<1> USE QueueAssumption
<1>1. /\ s \in SchedType /\ QueuesMatchWchan(s)
      /\ q \in Queue /\ RunQ \in Queue /\ q # RunQ
      /\ s.queue \in [Queue -> Seq(Thread)]
      /\ s.wchan \in [Thread -> Queue \cup {NULL}]
      /\ s.state \in [Thread -> ThreadState]
  BY DEF SchedOK, SchedType, Queue
<1>2. /\ IsInjective(s.queue[q]) /\ IsInjective(s.queue[RunQ])
      /\ \A t \in Thread : t \in W <=> s.wchan[t] = q
      /\ \A t \in Thread : t \in Range(s.queue[RunQ]) <=> s.wchan[t] = RunQ
  BY <1>1 DEF QueuesMatchWchan
<1>3. W \subseteq Thread /\ Range(s.queue[RunQ]) \subseteq Thread
  BY <1>1, RangeOfSeq
<1>4. \A t \in W : s.state[t] \in Asleep
  BY <1>2, <1>3 DEF SchedOK, StatesMatchWchan
<1>5. sched_broadcast_on(s, q) = b
  BY <1>4 DEF sched_broadcast_on, Kassert
<1>6. /\ run \in Seq(Thread) /\ IsInjective(run)
      /\ Range(run) = Range(s.queue[RunQ]) \cup W
  <2>1. s.queue[RunQ] \in Seq(Thread) /\ s.queue[q] \in Seq(Thread)
    BY <1>1
  <2>2. Range(s.queue[RunQ]) \cap Range(s.queue[q]) = {}
    BY <1>1, <1>2, <1>3
  <2> QED
    BY <1>2, <2>1, <2>2, ConcatInjective
<1> HIDE DEF run, W
<1>7. /\ wchan \in [Thread -> Queue \cup {NULL}]
      /\ state \in [Thread -> ThreadState]
      /\ \A t \in Thread : wchan[t] = IF t \in W THEN RunQ ELSE s.wchan[t]
      /\ \A t \in Thread : state[t] = IF t \in W THEN "RUN" ELSE s.state[t]
  BY <1>1 DEF ThreadState
<1>8. /\ queue \in [Queue -> Seq(Thread)]
      /\ queue[RunQ] = run /\ queue[q] = <<>>
      /\ \A r \in Queue \ {q, RunQ} : queue[r] = s.queue[r]
  BY <1>1, <1>6, EmptySeq, Zenon
<1> HIDE DEF wchan, state
<1>9. /\ b \in SchedType
      /\ b.queue = queue /\ b.wchan = wchan /\ b.state = state
      /\ b.panic = s.panic /\ b.cur = s.cur /\ b.switching = s.switching
      /\ b.cancelled = s.cancelled
  BY <1>1, <1>7, <1>8, Zenon DEF SchedType
<1> HIDE DEF b, queue
<1>10. QueuesMatchWchan(b)
  <2> SUFFICES ASSUME NEW r \in Queue
               PROVE  /\ IsInjective(queue[r])
                      /\ \A t \in Thread : t \in Range(queue[r]) <=> wchan[t] = r
    BY <1>9 DEF QueuesMatchWchan
  <2>1. CASE r = RunQ
    BY <1>1, <1>2, <1>6, <1>7, <1>8, <2>1
  <2>2. CASE r = q
    <3>1. IsInjective(<<>>) /\ Range(<<>>) = {}
      BY DEF IsInjective, Range
    <3> QED
      BY <1>1, <1>2, <1>7, <1>8, <2>2, <3>1
  <2>3. CASE r \notin {q, RunQ}
    <3>1. queue[r] = s.queue[r]
      BY <1>8, <2>3
    <3>2. \A t \in Thread : wchan[t] = r <=> s.wchan[t] = r
      BY <1>2, <1>7, <2>3
    <3> QED
      BY <1>1, <3>1, <3>2 DEF QueuesMatchWchan
  <2> QED
    BY <2>1, <2>2, <2>3
<1>11. StatesMatchWchan(b)
  <2>1. \A u \in Thread : Running(b, u) <=> Running(s, u)
    BY <1>9 DEF Running
  <2> QED
    BY <1>7, <1>9, <2>1, StatesCases, StatesPointwise
<1>12. RunnerIsOffQueue(b)
  <2>1. ~s.switching => s.wchan[s.cur] = NULL /\ s.cur \in Thread
    BY DEF SchedOK, RunnerIsOffQueue, SchedType
  <2>2. ~s.switching => s.cur \notin W
    BY <1>1, <1>2, <2>1
  <2> QED
    BY <1>7, <1>9, <2>1, <2>2 DEF RunnerIsOffQueue
<1> QED
  BY <1>5, <1>8, <1>9, <1>10, <1>11, <1>12, Zenon DEF SchedOK, SameQueuesBut, run

\* An exited thread's slot is zeroed for the next thread.
LEMMA FreeSlotProperties ==
  ASSUME NEW s, SchedOK(s), NEW t \in Thread, s.state[t] = "EXITED"
  PROVE  LET f == FreeSlot(s, t)
         IN  /\ SchedOK(f)
             /\ f.state = [s.state EXCEPT ![t] = "NO_STATE"]
             /\ f.wchan = s.wchan /\ f.queue = s.queue /\ f.cur = s.cur
             /\ f.switching = s.switching /\ f.panic = s.panic
<1> DEFINE f == FreeSlot(s, t)
<1>1. s \in SchedType /\ s.state \in [Thread -> ThreadState] /\ s.cur \in Thread
  BY DEF SchedOK, SchedType
<1>2. /\ f \in SchedType
      /\ f.state = [s.state EXCEPT ![t] = "NO_STATE"]
      /\ f.wchan = s.wchan /\ f.queue = s.queue /\ f.cur = s.cur
      /\ f.switching = s.switching /\ f.panic = s.panic
  BY <1>1, Zenon DEF FreeSlot, SchedType, ThreadState
<1> HIDE DEF f
<1>3. QueuesMatchWchan(f)
  BY <1>2, SameQueues DEF SchedOK
<1>4. StatesMatchWchan(f)
  <2>1. s.wchan[t] = NULL
    BY StatesCases DEF Asleep
  <2>2. \A u \in Thread : Running(f, u) <=> Running(s, u)
    BY <1>2 DEF Running
  <2>3. "NO_STATE" \notin Asleep \cup {"RUN"}
    BY DEF Asleep
  <2> QED
    BY <1>1, <1>2, <2>1, <2>2, <2>3, StatesCases, StatesPointwise
<1>5. RunnerIsOffQueue(f)
  BY <1>2 DEF SchedOK, RunnerIsOffQueue
<1> QED
  BY <1>2, <1>3, <1>4, <1>5 DEF SchedOK, f

\* The state in which the first thread runs is consistent.
LEMMA SchedInitProperties ==
  ASSUME NEW t \in Thread
  PROVE  LET i == SchedInit(t)
         IN  /\ SchedOK(i)
             /\ i.state = [u \in Thread |-> "NO_STATE"]
             /\ i.wchan = [u \in Thread |-> NULL]
             /\ i.cancelled = [u \in Thread |-> FALSE]
             /\ i.queue = [q \in Queue |-> <<>>]
             /\ i.cur = t /\ i.switching = FALSE /\ i.panic = FALSE
<1> DEFINE i == SchedInit(t)
<1> USE QueueAssumption
<1>1. /\ i.state = [u \in Thread |-> "NO_STATE"]
      /\ i.wchan = [u \in Thread |-> NULL]
      /\ i.cancelled = [u \in Thread |-> FALSE]
      /\ i.queue = [q \in Queue |-> <<>>]
      /\ i.cur = t /\ i.switching = FALSE /\ i.panic = FALSE
  BY DEF SchedInit
<1>2. <<>> \in Seq(Thread) /\ IsInjective(<<>>) /\ Range(<<>>) = {}
  BY EmptySeq DEF IsInjective, Range
<1>3. i \in SchedType
  BY <1>2 DEF SchedInit, SchedType, ThreadState
<1> HIDE DEF i
<1>4. QueuesMatchWchan(i)
  BY <1>1, <1>2 DEF QueuesMatchWchan, Queue
<1>5. StatesMatchWchan(i) /\ RunnerIsOffQueue(i)
  BY <1>1 DEF StatesMatchWchan, RunnerIsOffQueue, Asleep
<1> QED
  BY <1>1, <1>3, <1>4, <1>5 DEF SchedOK, i

=============================================================================
