------------------------------ MODULE Syscalls ------------------------------
(***************************************************************************)
(* The system call layer (kernel/api/syscall.c, api/access.c) and its      *)
(* callers in the C library (user/lib/libc/syscall.c), for one thread.     *)
(*                                                                         *)
(* A call's arguments and the answers of everything it calls are the       *)
(* record c: args and out, the copies from and to user memory; str, the    *)
(* strings copied in; mem, a page or block; op, the do_ function; n, a     *)
(* count.  An answer is OK or an error.  The do_ functions, the copies and *)
(* the allocators are modelled elsewhere (Files, AddressSpace, Slab).      *)
(* State s:                                                                *)
(*   pc       "user", or "kernel" while the thread is in a call            *)
(*   ret      what the call returns: "-1", or a value ("exec" and "set"      *)
(*            after those calls, "junk" when nobody has set it)            *)
(*   errno    kt_errno                                                     *)
(*   heap     the kernel blocks the call layer has not freed               *)
(*   pages    the same, for pages                                          *)
(*   lostio   the reads and writes that failed with their page (history)   *)
(*   brk, curbrk  the break: the kernel's, and the library's copy of it    *)
(*   atexit   the number of exit handlers still to run                     *)
(*   cancelled, exited, panic                                              *)
(***************************************************************************)
EXTENDS Integers, Sequences

CONSTANTS
  Break,              \* addresses of the break, positive
  Increment,          \* arguments of sbrk
  MAX_EXIT_HANDLERS,
  SizeofDirent,
  Count,              \* numbers of bytes
  PAGE_SIZE,
  MaxLeak             \* bound: failing reads and writes

VARIABLE s

OK == "OK"
NOBRK == 0

\* What a call may meet.  ENOMEM comes from an allocator, EFAULT from a copy.
Answer == [args : {OK, "EFAULT"}, str : [1 .. 2 -> {OK, "ENOMEM", "EFAULT"}], mem : {OK, "ENOMEM"},
           op : {OK, "EBADF"}, out : {OK, "EFAULT"}, n : Count]

\* What concerns sys_execve, which copies one string and takes no page.
ExecAnswer == {c \in Answer : c.str[2] = OK /\ c.mem = OK /\ c.out = OK}

Panic(t, why) == [t EXCEPT !.panic = why]
Fail(t, e) == [t EXCEPT !.ret = "-1", !.errno = e]
Succeed(t) == [t EXCEPT !.ret = "val"]
Result(t, e) == IF e = OK THEN Succeed(t) ELSE Fail(t, e)

kmalloc(t) == [t EXCEPT !.heap = @ + 1]
kfree(t) == [t EXCEPT !.heap = @ - 1]
page_alloc(t) == [t EXCEPT !.pages = @ + 1]
page_free(t) == [t EXCEPT !.pages = @ - 1]

-----------------------------------------------------------------------------
\* A string is copied into a block, which is freed again when the copy fails.
user_strdup(t, e) ==
  IF e = OK THEN kmalloc(t)
  ELSE IF e = "ENOMEM" THEN [t EXCEPT !.errno = e]
  ELSE kfree([kmalloc(t) EXCEPT !.errno = e])

\* A vector with a string, or none: a block for the vector read, one for the
\* vector built, and the string's.  v is OK or what fails.  Without the first
\* block a null pointer is freed; after a failed copy the vector walked was
\* never filled.
user_vecdup(t, v, n) ==
  LET two == kmalloc(kmalloc(t))
  IN IF v = "EFAULT" \/ v = "ENOMEM" THEN Panic(t, "user_vecdup")
     ELSE IF n = 0 THEN kfree(two)
     ELSE IF v = OK THEN kfree(user_strdup(two, OK))
     ELSE kfree(kfree(user_strdup(two, "EFAULT")))

VecFails(v, n) == v = "string" /\ n > 0
free_vector(t, n) == IF n = 0 THEN kfree(t) ELSE kfree(kfree(t))

\* Calls without arguments in memory, with some, and with one or two strings.
Plain(t, c) == Result(t, c.op)
Args(t, c) == IF c.args # OK THEN Fail(t, c.args) ELSE Result(t, c.op)

OneString(t, c) ==
  IF c.args # OK THEN Fail(t, c.args)
  ELSE IF c.str[1] # OK THEN Fail(user_strdup(t, c.str[1]), "EINVAL")
  ELSE Result(kfree(user_strdup(t, OK)), c.op)

\* Mutant: the first string is kept when the second cannot be copied.
TwoStringsKeepsFirst(t, c) ==
  IF c.args # OK THEN Fail(t, c.args)
  ELSE IF c.str[1] # OK THEN Fail(user_strdup(t, c.str[1]), "EINVAL")
  ELSE IF c.str[2] # OK THEN Fail(user_strdup(user_strdup(t, OK), c.str[2]), "EINVAL")
  ELSE Result(kfree(kfree(user_strdup(user_strdup(t, OK), OK))), c.op)

TwoStrings(t, c) ==
  IF c.args # OK THEN Fail(t, c.args)
  ELSE IF c.str[1] # OK THEN Fail(user_strdup(t, c.str[1]), "EINVAL")
  ELSE IF c.str[2] # OK THEN Fail(kfree(user_strdup(user_strdup(t, OK), c.str[2])), "EINVAL")
  ELSE Result(kfree(kfree(user_strdup(user_strdup(t, OK), OK))), c.op)

sys_close(t, c) == Plain(t, c)
sys_dup(t, c) == Plain(t, c)
sys_dup2(t, c) == Args(t, c)
sys_lseek(t, c) == Args(t, c)
sys_munmap(t, c) == Args(t, c)
sys_mkdir(t, c) == OneString(t, c)
sys_rmdir(t, c) == OneString(t, c)
sys_unlink(t, c) == OneString(t, c)
sys_chdir(t, c) == OneString(t, c)
sys_open(t, c) == OneString(t, c)
sys_link(t, c) == TwoStrings(t, c)
sys_rename(t, c) == TwoStrings(t, c)

\* sys_read and sys_write go through one page, whatever the count, and keep it
\* when something fails.
LosePage(t, c, e) == Fail(IF c.mem = OK THEN [page_alloc(t) EXCEPT !.lostio = @ + 1] ELSE t, e)
PageServes(c) == c.mem = OK /\ c.n <= PAGE_SIZE

sys_read(t, c) ==
  IF c.args # OK THEN Fail(t, "EFAULT")
  ELSE IF c.op # OK THEN LosePage(t, c, c.op)
  ELSE IF ~PageServes(c) THEN Panic(t, "sys_read buffer")
  ELSE IF c.out # OK THEN LosePage(t, c, "EFAULT")
  ELSE Succeed(page_free(page_alloc(t)))

sys_write(t, c) ==
  IF c.args # OK THEN Fail(t, "EFAULT")
  ELSE IF c.out # OK THEN LosePage(t, c, "EFAULT")
  ELSE IF ~PageServes(c) THEN Panic(t, "sys_write buffer")
  ELSE IF c.op # OK THEN LosePage(t, c, c.op)
  ELSE Succeed(page_free(page_alloc(t)))

\* do_getdent is called once per byte asked for, or not at all.
sys_getdents(t, c) ==
  IF c.args # OK THEN Fail(t, "EFAULT")
  ELSE Result(t, IF 0 < c.n /\ c.n <= SizeofDirent THEN c.op ELSE OK)

\* do_mmap answers with a positive error, which is taken for success.
sys_mmap(t, c) == IF c.args # OK THEN Fail(t, "EFAULT") ELSE [t EXCEPT !.ret = "junk"]

\* Mutant: the status that cannot be copied out leaves kt_errno alone.
sys_waitpidQuiet(t, c) ==
  IF c.args # OK THEN Fail(t, "EFAULT")
  ELSE IF c.op # OK THEN Fail(t, c.op)
  ELSE IF c.n > 0 /\ c.out # OK THEN [t EXCEPT !.ret = "-1"] ELSE Succeed(t)

sys_waitpid(t, c) ==
  IF c.args # OK THEN Fail(t, "EFAULT")
  ELSE IF c.op # OK THEN Fail(t, c.op)
  ELSE IF c.n > 0 /\ c.out # OK THEN Fail(t, "EFAULT") ELSE Succeed(t)

sys_stat(t, c) ==
  IF c.args # OK THEN Fail(t, "EFAULT")
  ELSE IF c.str[1] # OK THEN Fail(user_strdup(t, c.str[1]), "EINVAL")
  ELSE Result(kfree(user_strdup(t, OK)), IF c.op = OK THEN c.out ELSE c.op)

sys_uname(t, c) == Result(t, c.out)

\* do_fork never comes back (AddressSpace).
sys_fork(t, c) == Panic(t, "do_fork")

\* sys_execve returns by what kt_errno says at the end.
ByErrno(t) == [t EXCEPT !.ret = IF t.errno = OK THEN "exec" ELSE "-1"]

sys_execve(t, c, argv, envp) ==
  LET f == user_strdup(t, c.str[1])
      v == user_vecdup(f, argv, c.n)
      e == user_vecdup(v, envp, c.n)
  IN IF c.args # OK THEN Fail(t, c.args)
     ELSE IF c.str[1] # OK THEN ByErrno(f)
     ELSE IF v.panic # "" THEN v
     ELSE IF VecFails(argv, c.n) THEN ByErrno(kfree(v))
     ELSE IF e.panic # "" THEN e
     ELSE IF VecFails(envp, c.n) THEN ByErrno(free_vector(kfree(e), c.n))
     ELSE ByErrno([free_vector(free_vector(kfree(e), c.n), c.n) EXCEPT !.errno = c.op])

sys_debug(t, c) ==
  IF c.args # OK THEN Fail(t, c.args)
  ELSE IF c.str[1] # OK THEN Panic(t, "sys_debug")
  ELSE Succeed(kfree(user_strdup(t, OK)))

sys_kshell(t, c) == IF c.mem # OK THEN Fail(t, "ENODEV") ELSE Result(kfree(kmalloc(t)), c.op)

\* brk: a null address asks for the break.  do_brk is not written.
sys_brk(t, c, addr) ==
  IF addr = NOBRK THEN Succeed(t)
  ELSE IF c.op # OK THEN Fail(t, c.op) ELSE [Succeed(t) EXCEPT !.brk = addr]

-----------------------------------------------------------------------------
\* syscall_dispatch: the calls that come back with a value or an error.
syscall_dispatch(t, c) ==
  {sys_waitpid(t, c), sys_fork(t, c), sys_mmap(t, c), sys_munmap(t, c), sys_open(t, c), sys_close(t, c),
   sys_read(t, c), sys_write(t, c), sys_dup(t, c), sys_dup2(t, c), sys_mkdir(t, c), sys_rmdir(t, c),
   sys_unlink(t, c), sys_link(t, c), sys_rename(t, c), sys_chdir(t, c), sys_getdents(t, c), sys_lseek(t, c),
   sys_stat(t, c), sys_uname(t, c), sys_debug(t, c), sys_kshell(t, c), Fail(t, "ENOSYS")}

\* SYS_set_errno, SYS_errno, SYS_getpid, SYS_sync, SYS_thr_yield; SYS_halt gives
\* up the processor for good when every process is killed.
SetErrno(t, e) == [t EXCEPT !.ret = "set", !.errno = e]

\* syscall_handler: a cancelled thread leaves before the call and after it.
Enter(t) == IF s.cancelled THEN [s EXCEPT !.exited = TRUE] ELSE [t EXCEPT !.pc = "kernel"]

Return(t) == IF t.cancelled THEN [t EXCEPT !.exited = TRUE] ELSE [t EXCEPT !.pc = "user"]

\* sbrk and brk of the library.
LibBrk(t, c, addr) ==
  LET k == sys_brk(t, c, addr)
  IN IF addr = NOBRK THEN t ELSE IF k.ret = "-1" THEN k ELSE [k EXCEPT !.curbrk = addr]

sbrk(t, c, incr) ==
  LET q == IF t.curbrk = NOBRK THEN [sys_brk(t, c, NOBRK) EXCEPT !.curbrk = t.brk] ELSE t
  IN IF incr = 0 \/ -incr > q.curbrk THEN q ELSE LibBrk(q, c, q.curbrk + incr)

vars == <<s>>

Init ==
  s = [pc |-> "user", ret |-> "val", errno |-> OK, heap |-> 0, pages |-> 0, lostio |-> 0,
       brk |-> CHOOSE b \in Break : TRUE, curbrk |-> NOBRK, atexit |-> 0,
       cancelled |-> FALSE, exited |-> FALSE, panic |-> ""]

Runs == s.panic = "" /\ ~s.exited
InUser == Runs /\ s.pc = "user"
Step(t) == s' = IF t.panic = "" THEN t ELSE [s EXCEPT !.panic = t.panic]

\* The loop of exit() runs the handlers, last first; _exit is then a call that
\* does not come back.
Call ==
  /\ InUser /\ s.lostio < MaxLeak
  /\ \E t \in UNION {syscall_dispatch(s, c) : c \in Answer} : Step(Enter(t))
Execve ==
  /\ InUser
  /\ \E t \in {sys_execve(s, c, argv, envp) : c \in ExecAnswer, argv, envp \in {OK, "ENOMEM", "EFAULT", "string"}} :
       Step(Enter(t))
Errno == InUser /\ \E e \in {OK, "EINVAL"} : Step(Enter(SetErrno(s, e)))
Sbrk ==
  /\ InUser
  /\ \E op \in {OK, "ENOMEM"}, incr \in Increment :
       LET c == [op |-> IF s.brk + incr \in Break THEN op ELSE "ENOMEM"] 
           t == sbrk(s, c, incr)
       IN Step(IF t = s THEN s ELSE Enter(t))
Atexit == InUser /\ s.atexit < MAX_EXIT_HANDLERS /\ Step([s EXCEPT !.atexit = @ + 1])
Exit == InUser /\ Step([s EXCEPT !.atexit = 0, !.exited = TRUE])
Cancel == Runs /\ s.pc = "kernel" /\ Step([s EXCEPT !.cancelled = TRUE])
Leave == Runs /\ s.pc = "kernel" /\ Step(Return(s))

Next == Call \/ Execve \/ Errno \/ Sbrk \/ Atexit \/ Exit \/ Cancel \/ Leave

Spec == Init /\ [][Next]_vars

-----------------------------------------------------------------------------
\* Whatever fails on the way, a call has freed its blocks when it ends, and the
\* only pages lost are those of reads and writes that failed; and the kernel
\* stops only in fork, in a buffer of one page that is missing or too small, in
\* a vector that cannot be copied, or on a message that cannot be.
CallsBalanced ==
  /\ s.heap = 0 /\ s.pages = s.lostio
  /\ s.panic \in {"", "do_fork", "sys_read buffer", "sys_write buffer", "user_vecdup", "sys_debug"}

\* A call that returns -1 has left an error in kt_errno, and one that returns a
\* value has not touched it, but to set it or to clear it after exec.
ErrnoExact ==
  [][s.pc = "user" /\ s'.pc = "kernel" =>
       /\ s'.ret = "-1" => s'.errno # OK
       /\ s'.ret \in {"val", "junk"} => s'.errno = s.errno]_vars

\* A thread cancelled in a call never runs in user mode again.
CancelledLeaves == s.pc = "user" => ~s.cancelled \/ s.exited

\* The library's break is the kernel's: sbrk hands out memory the process has.
BrkAgrees == s.curbrk \in {NOBRK, s.brk}
=============================================================================
