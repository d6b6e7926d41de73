-------------------------------- MODULE Proc --------------------------------
(***************************************************************************)
(* Processes (kernel/proc/proc.c, kthread.c, fork.c) and the idle and init *)
(* processes of kernel/main/kmain.c, on the scheduler of SchedOps.         *)
(*                                                                         *)
(* proc_t and kthread_t objects are slots of two slabs.  Freed slots are   *)
(* used again, so a stale pointer may reach another process.  The p_wait   *)
(* queue of process p is called p.  Exit statuses are left out.            *)
(***************************************************************************)
EXTENDS SchedOps, Integers, FiniteSets, SequencesExt

CONSTANTS Process,     \* the slots of proc_allocator (Thread: of kthread_allocator)
          Idle, Initp, \* the idle and init processes, and the names of their threads
          Pageoutd,    \* the page-out daemon, a child of the idle process
          DaemonQ,     \* the queue Pageoutd sleeps on
          IoQ,         \* a queue on which threads wait for a device
          PidMax,      \* PROC_MAX_COUNT
          MaxSpawn,    \* bound on the number of proc_create calls
          Returners,   \* who may leave by returning from the thread function
          Exiters,     \* who may call do_exit
          Killers,     \* who may call proc_kill_all
          Forkers,     \* who may call do_fork
          Blockers     \* whose final vput or do_close waits for the disk

VARIABLES sched,     \* the scheduler state of SchedOps
          proc,      \* the proc_t of every slot
          kt_proc,   \* kt_proc of every thread slot, NULL when free
          plist,     \* _proc_list
          next_pid,
          pc,        \* where each thread is
          spawned,   \* number of proc_create calls so far
          dangling   \* a freed proc_t has been used

vars == <<sched, proc, kt_proc, plist, next_pid, pc, spawned, dangling>>

ANY == -1      \* the pid argument -1 of do_waitpid

FreeProc ==
  [pid |-> -1, state |-> "FREE", pproc |-> NULL, children |-> <<>>, threads |-> {}]

\* Thread code (run), a blocked call, or the steps of exit and kill.  "arg" is
\* the process waited for or killed, "next" the saved __next of proc_kill_all.
Location ==
  [at : {"run", "wait", "cleanup", "kill", "kill_next", "gone", "halted"},
   arg : Process \cup {NULL, ANY},
   next : Process \cup {NULL}]

At(where) == [at |-> where, arg |-> NULL, next |-> NULL]

TypeOK ==
  /\ sched \in SchedType
  /\ proc \in [Process -> [pid : -1 .. PidMax - 1,
                           state : {"FREE", "RUNNING", "DEAD"},
                           pproc : Process \cup {NULL},
                           children : Seq(Process),
                           threads : SUBSET Thread]]
  /\ kt_proc \in [Thread -> Process \cup {NULL}]
  /\ plist \in Seq(Process)
  /\ next_pid \in 0 .. PidMax - 1
  /\ pc \in [Thread -> Location]
  /\ spawned \in 0 .. MaxSpawn
  /\ dangling \in BOOLEAN

\* The idle process has created init and, through init_call_all, the page-out
\* daemon, which sleeps; init is runnable and idle is about to wait for it.
Init ==
  LET child(n, t) == [FreeProc EXCEPT !.pid = n, !.state = "RUNNING",
                                      !.pproc = Idle, !.threads = {t}]
      idle == [child(0, Idle) EXCEPT !.pproc = NULL,
                                     !.children = <<Initp, Pageoutd>>]
  IN  /\ sched = [SchedInit(Idle) EXCEPT
                    !.state = [@ EXCEPT ![Initp] = "RUN",
                                        ![Pageoutd] = "SLEEP_CANCELLABLE"],
                    !.wchan = [@ EXCEPT ![Initp] = RunQ, ![Pageoutd] = DaemonQ],
                    !.queue = [@ EXCEPT ![RunQ] = <<Initp>>,
                                        ![DaemonQ] = <<Pageoutd>>]]
      /\ proc = [p \in Process |->
                   CASE p = Idle     -> idle
                     [] p = Initp    -> child(1, Initp)
                     [] p = Pageoutd -> child(2, Pageoutd)
                     [] OTHER        -> FreeProc]
      /\ kt_proc = [t \in Thread |->
                      IF t \in {Idle, Initp, Pageoutd} THEN t ELSE NULL]
      /\ plist = <<Idle, Initp, Pageoutd>>
      /\ next_pid = 3 % PidMax
      /\ pc = [t \in Thread |->
                 IF t = Idle THEN [At("wait") EXCEPT !.arg = ANY] ELSE At("run")]
      /\ spawned = 0
      /\ dangling = FALSE

-----------------------------------------------------------------------------
curthr == sched.cur
curproc == kt_proc[curthr]

\* The current thread executes; At tells where.
Executing(where) ==
  ~sched.switching /\ ~sched.panic /\ ~dangling /\ pc[curthr].at = where

Goto(loc) == pc' = [pc EXCEPT ![curthr] = loc]

Children(p) == proc[p].children

-----------------------------------------------------------------------------
\* _proc_getid: the first pid from next_pid on that no process has.
_proc_getid ==
  LET used == {proc[p].pid : p \in Range(plist)}
      pid(k) == (next_pid + k) % PidMax
  IN  pid(CHOOSE k \in 0 .. PidMax - 1 :
            pid(k) \notin used /\ \A j \in 0 .. k - 1 : pid(j) \in used)

\* proc_create of process p by the current process.
proc_create(p, threads) ==
  LET pid == _proc_getid
  IN  /\ proc[p].state = "FREE" /\ spawned < MaxSpawn
      /\ proc' = [proc EXCEPT
                    ![p] = [FreeProc EXCEPT !.pid = pid, !.state = "RUNNING",
                                            !.pproc = curproc,
                                            !.threads = threads],
                    ![curproc].children = Append(@, p)]
      /\ plist' = Append(plist, p)
      /\ next_pid' = (pid + 1) % PidMax
      /\ spawned' = spawned + 1

FreeSlots(n) == {T \in SUBSET {t \in Thread : kt_proc[t] = NULL} : Cardinality(T) = n}

\* The pattern of kmain.c: proc_create, kthread_create, sched_make_runnable.
Spawn ==
  /\ Executing("run") /\ FreeSlots(1) # {}
  /\ LET t == CHOOSE t \in Thread : kt_proc[t] = NULL
         p == CHOOSE q \in Process : proc[q].state = "FREE"
     IN  /\ \E q \in Process : proc[q].state = "FREE"
         /\ proc_create(p, {t})
         /\ kt_proc' = [kt_proc EXCEPT ![t] = p]
         /\ sched' = sched_make_runnable(sched, t)
         /\ pc' = [pc EXCEPT ![t] = At("run")]
  /\ UNCHANGED dangling

\* do_fork.  The thread of kthread_create stays in the child and is never
\* started; the clone of kthread_clone is linked to the p_threads of the parent
\* and is handed to no queue. 
do_fork ==
  /\ Executing("run") /\ curproc \in Forkers /\ FreeSlots(2) # {}
  /\ LET t == CHOOSE u \in Thread : kt_proc[u] = NULL
         clone == CHOOSE u \in Thread \ {t} : kt_proc[u] = NULL
         p == CHOOSE q \in Process : proc[q].state = "FREE"
         pid == _proc_getid
     IN  /\ \E q \in Process : proc[q].state = "FREE"
         /\ spawned < MaxSpawn
         /\ proc' = [proc EXCEPT
                       ![p] = [FreeProc EXCEPT !.pid = pid, !.state = "RUNNING",
                                 !.pproc = curproc, !.threads = {t}],
                       ![curproc].children = Append(@, p),
                       ![curproc].threads = @ \cup {clone}]
         /\ plist' = Append(plist, p)
         /\ next_pid' = (pid + 1) % PidMax
         /\ spawned' = spawned + 1
         /\ kt_proc' = [kt_proc EXCEPT ![t] = p, ![clone] = p]
         /\ sched' = [sched EXCEPT !.state[clone] = "RUN"]
  /\ UNCHANGED <<pc, dangling>>

-----------------------------------------------------------------------------
\* proc_cleanup and the final sched_switch, for process table pr and scheduler
\* state s: the children go to init, the parent is woken.

\* Mutant: p_pproc of the children is not updated.
Reparented_no_pproc(pr) ==
  [q \in Process |->
     CASE q = curproc -> [pr[q] EXCEPT !.children = <<>>]
       [] q = Initp   -> [pr[q] EXCEPT !.children = @ \o pr[curproc].children]
       [] OTHER       -> pr[q]]

Reparented(pr) ==
  [q \in Process |->
     CASE q = curproc -> [pr[q] EXCEPT !.children = <<>>]
       [] q = Initp   -> [pr[q] EXCEPT !.children = @ \o pr[curproc].children]
       [] q \in Range(pr[curproc].children) -> [pr[q] EXCEPT !.pproc = Initp]
       [] OTHER       -> pr[q]]

\* Mutant: the parent is not woken.
CleanupEnd_no_wakeup(pr, s) ==
  /\ proc' = IF curproc = Initp THEN pr ELSE Reparented(pr)
  /\ sched' = sched_switch(s)
  /\ Goto(At("gone"))

CleanupEnd(pr, s) ==
  /\ proc' = IF curproc = Initp THEN pr ELSE Reparented(pr)
  /\ sched' = sched_switch(sched_wakeup_on(s, proc'[curproc].pproc))
  /\ Goto(At("gone"))

\* kthread_exit in scheduler state s.  PROC_DEAD is set first; then the final
\* vput and do_close calls may sleep, which overwrites KT_EXITED.
kthread_exit(s) ==
  LET exited == [s EXCEPT !.state[curthr] = "EXITED"]
      dead == [proc EXCEPT ![curproc].state = "DEAD"]
  IN  /\ \/ CleanupEnd(dead, exited)
         \/ /\ curproc \in Blockers
            /\ proc' = dead
            /\ sched' = sched_sleep_on(exited, IoQ)
            /\ Goto(At("cleanup"))
      /\ UNCHANGED <<kt_proc, plist, next_pid, spawned, dangling>>

CleanupResumes ==
  /\ Executing("cleanup")
  /\ CleanupEnd(proc, sched)
  /\ UNCHANGED <<kt_proc, plist, next_pid, spawned, dangling>>

\* The thread function returns.  initproc_run first waits for all children.
ThreadReturns ==
  /\ Executing("run") /\ curproc \in Returners
  /\ curproc = Initp => Children(curproc) = <<>>
  /\ kthread_exit(sched)

\* proc_kill of the current process wakes the parent before it exits.
KillSelf == kthread_exit(sched_wakeup_on(sched, proc[curproc].pproc))

do_exit ==
  /\ Executing("run") /\ curproc \in Exiters \ {Initp}
  /\ KillSelf

-----------------------------------------------------------------------------
\* do_waitpid.

\* The first exited child in the list, for pid -1.
Exited(p) == {k \in DOMAIN Children(p) : proc[Children(p)[k]].state = "DEAD"}
FirstExited(p) == Children(p)[CHOOSE k \in Exited(p) : \A j \in Exited(p) : k <= j]

\* do_waitpid returns pid, in scheduler state s: the idle process expects init
\* and halts, the others go on.
Returns(pid, s) ==
  /\ sched' = Kassert(curproc = Idle => pid = 1, s, s)
  /\ Goto(At(IF curproc = Idle THEN "halted" ELSE "run"))

NothingReaped == UNCHANGED <<proc, kt_proc, plist>>

\* Mutant: the exited child is reported and not disposed of.
Reap_no_dispose(p) == Returns(proc[p].pid, sched) /\ NothingReaped

\* Dispose of the exited child p; all its threads must have exited.
Reap(p) ==
  LET T == proc[p].threads
  IN  IF \E t \in T : sched.state[t] # "EXITED"
      THEN sched' = Panic(sched) /\ UNCHANGED pc /\ NothingReaped
      ELSE /\ kt_proc' = [t \in Thread |-> IF t \in T THEN NULL ELSE kt_proc[t]]
           /\ proc' = [proc EXCEPT ![p] = FreeProc,
                                   ![curproc].children = Remove(@, p)]
           /\ plist' = Remove(plist, p)
           /\ Returns(proc[p].pid,
                [sched EXCEPT
                   !.state = [t \in Thread |->
                                IF t \in T THEN "NO_STATE" ELSE sched.state[t]],
                   !.cancelled = [t \in Thread |->
                                    t \notin T /\ sched.cancelled[t]]])

\* The loop body of do_waitpid with argument arg (ANY or a child), at the call
\* and again after every wakeup.
WaitBody(arg) ==
  /\ \/ /\ arg = ANY /\ Children(curproc) = <<>>           \* -ECHILD
        /\ Returns(-1, sched) /\ NothingReaped
     \/ /\ arg = ANY /\ Exited(curproc) # {}
        /\ LET p == FirstExited(curproc)
           IN  IF proc[curproc].pid = 0 /\ proc[p].pid = 2
               THEN Returns(2, sched) /\ NothingReaped
               ELSE Reap(p)
     \/ /\ arg # ANY /\ proc[arg].state = "DEAD"
        /\ Reap(arg)
     \/ /\ \/ arg = ANY /\ Children(curproc) # <<>> /\ Exited(curproc) = {}
           \/ arg # ANY /\ proc[arg].state # "DEAD"
        /\ sched' = sched_sleep_on(sched, curproc)
        /\ Goto([at |-> "wait", arg |-> arg, next |-> NULL])
        /\ NothingReaped
  /\ UNCHANGED <<next_pid, spawned, dangling>>

do_waitpid(arg) ==
  /\ Executing("run")
  /\ arg # ANY => arg \in Range(Children(curproc))
  /\ WaitBody(arg)

\* The sleeper was woken.  A pid argument is still the proc_t pointer p.
WaitResumes ==
  /\ Executing("wait")
  /\ WaitBody(pc[curthr].arg)

-----------------------------------------------------------------------------
\* proc_kill_all, which iterates over _proc_list and gives up the processor
\* once for every process it kills.

proc_kill_all ==
  /\ Executing("run") /\ curproc \in Killers
  /\ Goto([At("kill_next") EXCEPT !.next = Head(plist)])
  /\ UNCHANGED <<sched, proc, kt_proc, plist, next_pid, spawned, dangling>>

\* The link after p in _proc_list.
Successor(p) ==
  LET k == Position(plist, p)
  IN  IF k = Len(plist) THEN NULL ELSE plist[k + 1]

\* proc_kill of another process up to the sched_switch: wake its parent, cancel
\* its thread, yield.
KillOther(p) ==
  LET t == CHOOSE u \in Thread : u \in proc[p].threads
      cancelled == sched_cancel(sched_wakeup_on(sched, proc[p].pproc), t)
  IN  /\ sched' = IF cancelled.panic THEN cancelled ELSE Yield(cancelled)
      /\ Goto([at |-> "kill", arg |-> p, next |-> Successor(p)])
      /\ UNCHANGED <<proc, kt_proc, plist, next_pid, spawned, dangling>>

\* The killer runs again: proc_kill marks the process dead.
KillFinishes ==
  /\ Executing("kill")
  /\ LET c == pc[curthr]
     IN  /\ proc' = [proc EXCEPT ![c.arg].state = IF @ = "FREE" THEN @ ELSE "DEAD"]
         /\ dangling' = (proc[c.arg].state = "FREE")
         /\ sched' = sched_wakeup_on(sched, c.arg)
         /\ Goto([At("kill_next") EXCEPT !.next = c.next])
  /\ UNCHANGED <<kt_proc, plist, next_pid, spawned>>

KillNext ==
  /\ Executing("kill_next")
  /\ LET p == pc[curthr].next
         spare == \/ proc[p].pid = 0 \/ p = curproc
                  \/ proc[proc[p].pproc].pid = 0
     IN  CASE p = NULL /\ proc[proc[curproc].pproc].pid # 0 -> KillSelf
           [] p = NULL /\ proc[proc[curproc].pproc].pid = 0 ->
                /\ Goto(At("run"))
                /\ UNCHANGED <<sched, proc, kt_proc, plist, next_pid, spawned,
                               dangling>>
           [] p # NULL /\ p \notin Range(plist) ->
                /\ dangling' = TRUE
                /\ UNCHANGED <<sched, proc, kt_proc, plist, next_pid, pc, spawned>>
           [] p # NULL /\ p \in Range(plist) /\ spare ->
                /\ Goto([At("kill_next") EXCEPT !.next = Successor(p)])
                /\ UNCHANGED <<sched, proc, kt_proc, plist, next_pid, spawned,
                               dangling>>
           [] OTHER -> KillOther(p)

-----------------------------------------------------------------------------
\* What the threads do otherwise.

Quiet(s) ==
  /\ sched' = s
  /\ UNCHANGED <<proc, kt_proc, plist, next_pid, pc, spawned, dangling>>

\* Wait for a device; a terminal can be waited for cancellably.
BlockIo ==
  /\ Executing("run")
  /\ \/ Quiet(sched_sleep_on(sched, IoQ))
     \/ Quiet(sched_cancellable_sleep_on(sched, IoQ))

YieldCpu == Executing("run") /\ Quiet(Yield(sched))

SwitchDispatch ==
  /\ sched.switching /\ ~sched.panic /\ ~sched_queue_empty(sched, RunQ)
  /\ Quiet(sched_dispatch(sched))

Interrupt ==
  /\ ~sched.panic /\ ~sched_queue_empty(sched, IoQ)
  /\ Quiet(sched_wakeup_on(sched, IoQ))

\* hard_shutdown.
Halted == pc[Idle].at = "halted" /\ UNCHANGED vars

Next ==
  \/ Spawn \/ do_fork
  \/ ThreadReturns \/ do_exit \/ CleanupResumes
  \/ \E arg \in Process \cup {ANY} : do_waitpid(arg)
  \/ WaitResumes
  \/ proc_kill_all \/ KillNext \/ KillFinishes
  \/ BlockIo \/ YieldCpu \/ SwitchDispatch \/ Interrupt
  \/ Halted

Spec == Init /\ [][Next]_vars

\* The processor goes on, devices answer, and every process that is scheduled
\* again and again ends.
Fairness ==
  /\ WF_vars(SwitchDispatch) /\ WF_vars(Interrupt)
  /\ WF_vars(WaitResumes \/ CleanupResumes \/ KillNext \/ KillFinishes)
  /\ WF_vars(Executing("run") /\ (YieldCpu \/ ThreadReturns \/ do_exit))
  /\ \A t \in Thread : SF_vars(t = curthr /\ (ThreadReturns \/ do_exit))
  /\ SF_vars(curthr = Initp /\ do_waitpid(ANY))

FairSpec == Spec /\ Fairness

-----------------------------------------------------------------------------
(***************************************************************************)
(* Properties.                                                             *)
(***************************************************************************)

Exists(p) == p \in Range(plist)

\* p sleeps in do_waitpid for an exited child.
Overlooks(p) ==
  \E t \in Thread :
    /\ kt_proc[t] = p /\ pc[t].at = "wait" /\ sched.wchan[t] = p
    /\ \/ pc[t].arg = ANY /\ Exited(p) # {}
       \/ pc[t].arg # ANY /\ proc[pc[t].arg].state = "DEAD"

\* No KASSERT of proc.c, kthread.c, sched.c or kmain.c fails: a reaped process
\* has exited threads only (proc.c:430, :463), and idle reaps init (kmain.c:217).
NoPanic == ~sched.panic

\* The process tree: but for the idle process every process has an existing
\* parent, whose p_children lists it once, and no other list names it.
TreeConsistent ==
  \A p \in Range(plist) \ {Idle} :
    /\ Exists(proc[p].pproc)
    /\ \A q \in Range(plist) :
         Cardinality({k \in DOMAIN Children(q) : Children(q)[k] = p})
           = IF q = proc[p].pproc THEN 1 ELSE 0

\* Existing processes have different pids, also after the pids wrap around.
UniquePids ==
  \A p, q \in Range(plist) : proc[p].pid = proc[q].pid => p = q

\* proc.c "reparenting any children to the init process": no process is the
\* child of a dead one.
OrphansAdopted ==
  \A p \in Range(plist) \ {Idle} : proc[proc[p].pproc].state = "RUNNING"

\* A process other than init never sleeps in do_waitpid while a child it waits
\* for has exited: the wakeup of proc_cleanup is not lost.
NoMissedExit == \A p \in Range(plist) \ {Initp} : ~Overlooks(p)

\* proc.c:373 "or if all children of this process are still running, then this
\* function blocks": also init sleeps only while all its children run.
InitSeesExits == ~Overlooks(Initp)

\* Once every process ends, init reaps them all, however they were reparented,
\* and ends; the idle process reaps init and the machine halts.
SystemHalts == <>(pc[Idle].at = "halted")
=============================================================================
