------------------------------- MODULE MCProc -------------------------------
(***************************************************************************)
(* Instances of Proc and KmainTests for TLC.  The variable job says from   *)
(* the start what is looked at:                                            *)
(*   "halt"   processes that spawn, wait, block and end;                   *)
(*   "tree"   also do_fork, proc_kill_all and cleanups that block, which   *)
(*            end in failing assertions;                                   *)
(*   "kmain"  the thread programs of kmain.c.                              *)
(***************************************************************************)
EXTENDS Integers

CONSTANTS idlep, init, pageoutd, ta, tb, tc, td, daemonq, ioq, RunQ, NULL,
          te, tf, tg, prod, cons, rq, wq, p_wait,
          MaxSpawn    \* bound on the number of proc_create calls

VARIABLES job, sched, pc,
          proc, kt_proc, plist, next_pid, spawned, dangling,
          curtest, role, i, MAX, buffer, max, reader, writer, active_writer

procs == <<proc, kt_proc, plist, next_pid, spawned, dangling>>
monitors == <<curtest, role, i, MAX, buffer, max, reader, writer, active_writer>>
vars == <<job, sched, pc, procs, monitors>>

Halt == INSTANCE Proc WITH
  Process <- {idlep, init, pageoutd, ta, tb, tc}, Thread <- {idlep, init, pageoutd, ta, tb, tc},
  WaitQ <- {idlep, init, pageoutd, ta, tb, tc, daemonq, ioq},
  Idle <- idlep, Initp <- init, Pageoutd <- pageoutd, DaemonQ <- daemonq, IoQ <- ioq, PidMax <- 6,
  Returners <- {idlep, init, pageoutd, ta, tb, tc}, Exiters <- {ta, tb, tc},
  Killers <- {}, Forkers <- {}, Blockers <- {}

Tree == INSTANCE Proc WITH
  Process <- {idlep, init, pageoutd, ta, tb}, Thread <- {idlep, init, pageoutd, ta, tb, td},
  WaitQ <- {idlep, init, pageoutd, ta, tb, daemonq, ioq},
  Idle <- idlep, Initp <- init, Pageoutd <- pageoutd, DaemonQ <- daemonq, IoQ <- ioq, PidMax <- 5,
  Returners <- {idlep, init, pageoutd, ta, tb}, Exiters <- {ta, tb},
  Killers <- {ta}, Forkers <- {init}, Blockers <- {tb}

Kmain == INSTANCE KmainTests WITH
  Thread <- {init, ta, tb, tc, td, te, tf, tg}, Initt <- init, WaitQ <- {prod, cons, rq, wq, p_wait},
  MaxBuffer <- 8, MaxReader <- 4, MaxWriter <- 3

NoProcs == proc = 0 /\ kt_proc = 0 /\ plist = 0 /\ next_pid = 0 /\ spawned = 0 /\ dangling = 0
NoMonitors ==
  /\ curtest = 0 /\ role = 0 /\ i = 0 /\ MAX = 0 /\ buffer = 0 /\ max = 0
  /\ reader = 0 /\ writer = 0 /\ active_writer = 0

Init ==
  \/ job = "halt" /\ Halt!Init /\ NoMonitors
  \/ job = "tree" /\ Tree!Init /\ NoMonitors
  \/ job = "kmain" /\ Kmain!Init /\ NoProcs

HaltStep(A) == job = "halt" /\ A /\ UNCHANGED <<job, monitors>>
Next ==
  \/ HaltStep(Halt!Next)
  \/ job = "tree" /\ Tree!Next /\ UNCHANGED <<job, monitors>>
  \/ job = "kmain" /\ Kmain!Next /\ UNCHANGED <<job, procs>>

Spec == Init /\ [][Next]_vars

\* The fairness of Proc, for the processes that end, and of KmainTests.
FairSpec ==
  /\ Spec
  /\ WF_vars(HaltStep(Halt!SwitchDispatch)) /\ WF_vars(HaltStep(Halt!Interrupt))
  /\ WF_vars(HaltStep(Halt!WaitResumes \/ Halt!CleanupResumes \/ Halt!KillNext \/ Halt!KillFinishes))
  /\ WF_vars(HaltStep(Halt!Executing("run") /\ (Halt!YieldCpu \/ Halt!ThreadReturns \/ Halt!do_exit)))
  /\ \A t \in {idlep, init, pageoutd, ta, tb, tc} :
       SF_vars(HaltStep(t = Halt!curthr /\ (Halt!ThreadReturns \/ Halt!do_exit)))
  /\ SF_vars(HaltStep(Halt!curthr = init /\ Halt!do_waitpid(Halt!ANY)))
  /\ WF_vars(job = "kmain" /\ Kmain!Next /\ UNCHANGED <<job, procs>>)

-----------------------------------------------------------------------------
\* Existing processes have different pids, whatever wrapped around, and form
\* one tree with the right lists of children, also while processes are forked,
\* killed or held up in their cleanup; and as long as nobody does these three,
\* no process is the child of a dead one and no KASSERT of proc.c, kthread.c,
\* sched.c or kmain.c fails (proc.c:62, :216, :430, :463).
ProcessTreeSound ==
  /\ job = "tree" => Tree!TreeConsistent /\ Tree!UniquePids
  /\ job = "halt" => Halt!TreeConsistent /\ Halt!UniquePids /\ Halt!OrphansAdopted /\ Halt!NoPanic

\* A process other than init never sleeps in do_waitpid while a child it waits
\* for has exited: the wakeup of proc_cleanup is not lost (proc.c:238).
NoMissedExit == job = "halt" => Halt!NoMissedExit

\* proc.c:373 "or if all children of this process are still running, then this
\* function blocks": also init sleeps only while all its children run.
InitSeesExits == job = "halt" => Halt!InitSeesExits

\* Once every process ends, init reaps them all, however they were reparented,
\* and ends; the idle process reaps init and the machine halts (kmain.c:217).
SystemHalts == <>(job = "halt" => pc[idlep].at = "halted")

\* In the thread programs of kmain.c a side of the buffer sleeps only while it
\* cannot go on, and a writer is alone (kmain.c:692, :805).
MonitorsSound == job = "kmain" => Kmain!SleepsOnlyWhenBlocked /\ Kmain!WriterIsAlone

\* Nobody is left asleep: all loops run to their end and init sees every thread
\* exit, for every size of the buffer and number of readers and writers
\* (kmain.c:805).
AllFinish == <>(job = "kmain" => pc[init] = "done")
=============================================================================
