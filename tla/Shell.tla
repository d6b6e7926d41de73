------------------------------- MODULE Shell -------------------------------
(***************************************************************************)
(* The shell (user/bin/sh.c) and the processes it starts.                  *)
(*                                                                         *)
(* A line is its redirections, in order, and a command; the characters are *)
(* left out.  A system call may fail wherever the code looks.  Process 1   *)
(* is the shell.  Each process is a record:                                *)
(*   pc      where it is; "none" for no process, "zombie" before wait      *)
(*   parent, t   its parent, and its descriptors: fd -> file, or NONE      *)
(*   todo    redirections not parsed yet; map, the pairs <<sfd, dfd>>      *)
(*   want    what the line asks 0, 1 and 2 to be (history)                 *)
(*   cmd, n  the command with the commands in its arguments; for "repeat"  *)
(*           and "parallel", how many are left                             *)
(*   frames  the calls of execute() around this one                        *)
(*   k, held, err, bad   of a built-in: the step, the descriptors it has   *)
(*           open, its error variable, and what failed (history)           *)
(* tmp are the files the checks have left, stuck those that could not be   *)
(* unlinked (history), mapped the same for a mapping, lost the descriptors *)
(* the shell has forgotten (history), stop ends the shell, and lines       *)
(* counts the lines typed.                                                 *)
(***************************************************************************)
EXTENDS Integers, Sequences, FiniteSets, FiniteSetsExt

CONSTANTS
  NProc, NFILES,
  REDIR_MAX,
  MAXCMDS,      \* commands that fit the arrays of "parallel"
  Line,         \* lines typed: [redirs : Seq(redirection), cmd, n]
  MaxLines,     \* bound: lines typed
  NONE

VARIABLES p, tmp, stuck, mapped, lost, stop, lines
vars == <<p, tmp, stuck, mapped, lost, stop, lines>>

Proc == 1 .. NProc
Fd == 0 .. NFILES - 1
Std == 0 .. 2
Open(t) == {fd \in Fd : t[fd] # NONE}
get_empty_fd(t) == Min(Fd \ Open(t))
Full(t) == Open(t) = Fd

NoProc == [pc |-> "none", parent |-> 0, t |-> [fd \in Fd |-> NONE], todo |-> <<>>, map |-> <<>>,
           want |-> [d \in Std |-> "tty"], std |-> TRUE, cmd |-> <<>>, n |-> 0, frames |-> <<>>,
           k |-> 1, held |-> <<>>, err |-> FALSE, bad |-> {}]

-----------------------------------------------------------------------------
\* The built-ins as the calls they make.  A call that fails goes on at step
\* fail, 0 to return at once; "ok" sets the error variable back.
S(call, fail) == [call |-> call, fail |-> fail]

chk_priv == <<S("absent", 0), S("create", 0), S("write", 11), S("mmap", 11), S("verify", 10), S("lseek", 10), S("read", 10),
              S("verify", 10), S("ok", 0), S("munmap", 11), S("close", 12), S("unlink", 13)>>
chk_null == <<S("open", 0), S("write", 5), S("read", 5), S("ok", 0), S("close", 6)>>
chk_zero == <<S("open", 0), S("read", 8), S("verify", 8), S("mmap", 8), S("verify", 7), S("ok", 0), S("munmap", 8), S("close", 9)>>
chk_malloc == <<S("malloc", 0), S("verify", 4), S("ok", 0), S("free", 5)>>
chk_sbrk == <<S("sbrk", 0), S("verify", 0), S("sbrk", 0), S("verify", 0), S("ok", 0)>>
chk_wrnoent == <<S("absent", 0), S("create", 0), S("unlink", 10), S("nopen", 10), S("write", 10), S("lseek", 10), S("read", 10),
                 S("verify", 10), S("ok", 0), S("close", 11)>>
chk_unlink == <<S("absent", 0), S("create", 0), S("unlink", 6), S("nopen", 6), S("ok", 0), S("close", 7)>>
chk_sparse == <<S("absent", 0), S("create", 0), S("lseek", 14), S("write", 14), S("lseek", 14), S("read", 14), S("verify", 14),
                S("mmap", 14), S("munmap", 10), S("lseek", 14), S("read", 14), S("verify", 14), S("ok", 0), S("close", 15),
                S("unlink", 16)>>
cmd_cp == <<S("open", 0), S("open", 0), S("copy", 4), S("close", 5), S("close", 6)>>
cmd_cat == <<S("open", 4), S("copy", 3), S("close", 4)>>
cmd_call == <<S("call", 2)>>

Script(cmd) ==
  CASE cmd = "priv" -> chk_priv [] cmd = "null" -> chk_null [] cmd = "zero" -> chk_zero [] cmd = "malloc" -> chk_malloc
    [] cmd = "sbrk" -> chk_sbrk [] cmd = "wrnoent" -> chk_wrnoent [] cmd = "unlink" -> chk_unlink
    [] cmd = "sparse" -> chk_sparse [] cmd = "cp" -> cmd_cp [] cmd = "cat" -> cmd_cat [] OTHER -> cmd_call

Checks == {"priv", "null", "zero", "malloc", "sbrk", "wrnoent", "unlink", "sparse"}

-----------------------------------------------------------------------------
\* add_redirect does not look whether there is room.
add_redirect(r, sfd, dfd) == [r EXCEPT !.map = Append(@, <<sfd, dfd>>)]

Sfds(map) == {map[i][1] : i \in DOMAIN map}
CloseAll(t, fds) == [fd \in Fd |-> IF fd \in fds THEN NONE ELSE t[fd]]

cleanup_redirects(r) == [r EXCEPT !.t = CloseAll(@, Sfds(r.map)), !.map = <<>>]

\* build_ioenv: the descriptor a built-in uses for each standard stream.
build_ioenv(map) ==
  [d \in Std |-> LET hits == {i \in DOMAIN map : map[i][2] = d} IN IF hits = {} THEN d ELSE map[Max(hits)][1]]

\* Mutant: the descriptor is closed and not copied.
do_redirectClosesOnly(r) == [r EXCEPT !.t = CloseAll(@, {Head(r.map)[1]}), !.map = Tail(@)]

\* do_redirect, for one pair: dup2, then close.
do_redirect(r) ==
  LET m == Head(r.map) IN [r EXCEPT !.t = CloseAll([@ EXCEPT ![m[2]] = r.t[m[1]]], {m[1]}), !.map = Tail(@)]

\* The map "repeat" and "parallel" build: three new descriptors.  It stops at
\* the first that cannot be had.
dup_std(r) ==
  LET io == build_ioenv(r.map)
      dup(q, d) == IF Full(q.t) \/ q.t[io[d]] = NONE THEN q
                   ELSE LET fd == get_empty_fd(q.t)
                        IN add_redirect([q EXCEPT !.t = [@ EXCEPT ![fd] = q.t[io[d]]]], fd, d)
      q1 == dup([r EXCEPT !.map = <<>>], 0)
      q2 == IF Len(q1.map) = 1 THEN dup(q1, 1) ELSE q1
  IN IF Len(q2.map) = 2 THEN dup(q2, 2) ELSE q2

Free == {i \in Proc : p[i].pc = "none"}
Kids(i) == {j \in Proc : p[j].pc # "none" /\ p[j].parent = i}
Zombie(r) == [NoProc EXCEPT !.pc = "zombie", !.parent = r.parent]

\* execute() returns: to "repeat", to the prompt, or to exit in a child.
Return(i, r) ==
  IF r.frames # <<>>
  THEN LET f == Head(r.frames) IN [r EXCEPT !.pc = "repeat", !.cmd = f.cmd, !.map = f.map, !.n = f.n, !.frames = Tail(@)]
  ELSE IF i = 1 THEN [r EXCEPT !.pc = "prompt"] ELSE Zombie(r)

\* A built-in returns; its descriptors that are open stay open.
BuiltinReturns(i, r) == Return(i, cleanup_redirects([r EXCEPT !.held = <<>>]))

Set(i, r) == p' = [p EXCEPT ![i] = r]
Loses(i, fds) == lost' = IF i = 1 THEN lost \cup fds ELSE lost
Running(i, pc) == stop = "" /\ p[i].pc = pc
Files == <<tmp, stuck, mapped>>

-----------------------------------------------------------------------------
\* main reads a line, or ends.
ReadLine ==
  /\ Running(1, "prompt") /\ UNCHANGED <<lost, Files>>
  /\ \/ /\ \E l \in Line :
             Set(1, [NoProc EXCEPT !.pc = "redirect", !.t = p[1].t, !.todo = l.redirs, !.cmd = l.cmd, !.n = l.n,
                                   !.std = \A x \in DOMAIN l.redirs : l.redirs[x].dfd \in Std])
        /\ lines < MaxLines /\ lines' = lines + 1 /\ UNCHANGED stop
     \/ stop' = "exit" /\ UNCHANGED <<p, lines>>

\* The line is given up; the descriptors opened for it stay open.
GiveUp(r) == Set(1, [r EXCEPT !.pc = "prompt", !.map = <<>>]) /\ Loses(1, Sfds(r.map))

\* parse_redirects, one redirection: parse_redirect_norm, parse_redirect_dup,
\* or a syntax error.
ParseRedirect ==
  LET r == p[1]
      x == Head(r.todo)
      file == IF x.kind = "dup" THEN r.t[x.from] ELSE x.from
      fd == get_empty_fd(r.t)
      opened == [r EXCEPT !.todo = Tail(@), !.t = [@ EXCEPT ![fd] = file],
                          !.want = [d \in Std |-> IF d = x.dfd THEN file ELSE @[d]]]
  IN /\ Running(1, "redirect") /\ r.todo # <<>> /\ UNCHANGED Files
     /\ \/ x.kind # "dup" /\ GiveUp(r) /\ UNCHANGED stop
        \/ x.kind # "bad" /\ (Full(r.t) \/ file = NONE) /\ GiveUp(r) /\ UNCHANGED stop
        \/ /\ x.kind # "bad" /\ ~Full(r.t) /\ file # NONE /\ UNCHANGED lost
           /\ IF Len(r.map) = REDIR_MAX THEN stop' = "rm_redir" /\ UNCHANGED p
              ELSE Set(1, add_redirect(opened, fd, x.dfd)) /\ UNCHANGED stop

\* parse: an empty command is given up.
Parse ==
  LET r == p[1]
  IN /\ Running(1, "redirect") /\ r.todo = <<>> /\ UNCHANGED <<stop, Files>>
     /\ IF r.cmd = <<>> THEN GiveUp(r) ELSE Set(1, [r EXCEPT !.pc = "execute"]) /\ UNCHANGED lost

\* execute: a built-in, or a child to wait for.  When fork fails the shell
\* waits all the same.
Execute(i) ==
  LET r == p[i]
      c == Head(r.cmd)
  IN /\ Running(i, "execute") /\ UNCHANGED <<stop, lost, Files>>
     /\ \/ c # "extern" /\ Set(i, [r EXCEPT !.pc = IF c \in {"repeat", "parallel"} THEN c ELSE "builtin", !.k = 1])
        \/ c = "extern" /\ Set(i, [cleanup_redirects(r) EXCEPT !.pc = "wait", !.n = 1])
        \/ /\ c = "extern" /\ Free # {}
           /\ p' = [p EXCEPT ![i] = [cleanup_redirects(r) EXCEPT !.pc = "wait", !.n = 1],
                             ![Min(Free)] = [r EXCEPT !.parent = i, !.pc = "child", !.frames = <<>>]]

\* The child: its redirections, execve, and the program it becomes, or exit.
Child(i) ==
  LET r == p[i] IN
  /\ Running(i, "child") /\ UNCHANGED <<stop, lost, Files>>
  /\ IF r.map = <<>> THEN Set(i, [r EXCEPT !.pc = "program"]) \/ Set(i, Zombie(r))
     ELSE IF r.t[Head(r.map)[1]] = NONE THEN Set(i, Zombie(r)) ELSE Set(i, do_redirect(r))

Program(i) == Running(i, "program") /\ Set(i, Zombie(p[i])) /\ UNCHANGED <<stop, lost, Files>>

\* wait(): a child that has ended, or nothing to wait for.
Wait(i) ==
  LET r == p[i]
      done == IF r.n = 1 THEN (IF Head(r.cmd) = "extern" THEN Return(i, r) ELSE BuiltinReturns(i, r)) ELSE [r EXCEPT !.n = @ - 1]
  IN /\ Running(i, "wait") /\ UNCHANGED <<stop, lost, Files>>
     /\ \/ Kids(i) = {} /\ Set(i, done)
        \/ \E j \in Kids(i) : p[j].pc = "zombie" /\ p' = [p EXCEPT ![i] = done, ![j] = NoProc]

\* cmd_repeat: the command with three descriptors of its own, n times.
Repeat(i) ==
  LET r == p[i]
      q == dup_std(r)
  IN /\ Running(i, "repeat") /\ UNCHANGED <<stop, Files>>
     /\ IF r.n = 0 THEN Set(i, BuiltinReturns(i, r)) /\ UNCHANGED lost
        ELSE IF Len(q.map) < 3 THEN Set(i, BuiltinReturns(i, [q EXCEPT !.map = r.map])) /\ Loses(i, Sfds(q.map))
        ELSE /\ Set(i, [q EXCEPT !.pc = "execute", !.cmd = Tail(@),
                                 !.frames = <<[cmd |-> r.cmd, map |-> r.map, n |-> r.n - 1]>> \o @])
             /\ UNCHANGED lost

\* cmd_parallel: a child for each command, and a wait for each, started or not.
\* The arrays are written before their limit is looked at.
Parallel(i) ==
  LET r == p[i] IN
  /\ Running(i, "parallel") /\ UNCHANGED <<lost, Files>>
  /\ IF r.n > MAXCMDS THEN stop' = "cmd_argvs" /\ UNCHANGED p
     ELSE /\ UNCHANGED stop
          /\ IF r.k > r.n THEN Set(i, [r EXCEPT !.pc = "wait"])
             ELSE \/ Set(i, [r EXCEPT !.k = @ + 1])
                  \/ /\ Free # {}
                     /\ p' = [p EXCEPT ![i].k = @ + 1, ![Min(Free)] = [r EXCEPT !.parent = i, !.pc = "parallel child", !.cmd = Tail(@)]]

ParallelChild(i) ==
  LET q == dup_std(p[i])
  IN /\ Running(i, "parallel child") /\ UNCHANGED <<stop, lost, Files>>
     /\ Set(i, IF Len(q.map) < 3 THEN Zombie(q) ELSE [q EXCEPT !.pc = "execute"])

\* The next call of a built-in, and what it leaves.
Builtin(i) ==
  LET r == p[i]
      name == Head(r.cmd)
      st == Script(name)[r.k]
      next(q) == [q EXCEPT !.k = @ + 1]
      fails == [r EXCEPT !.k = st.fail, !.err = TRUE, !.bad = @ \cup {st.call}]
      fd == get_empty_fd(r.t)
      opens == [r EXCEPT !.t = [@ EXCEPT ![fd] = "file"], !.held = Append(@, fd)]
      closes == [r EXCEPT !.t = [@ EXCEPT ![Head(r.held)] = NONE], !.held = Tail(@)]
      same == UNCHANGED Files
  IN /\ Running(i, "builtin") /\ r.k \in DOMAIN Script(name) /\ UNCHANGED <<stop, lost>>
     /\ CASE st.call = "absent" -> same /\ Set(i, IF name \in tmp THEN fails ELSE next(r))
          [] st.call = "ok" -> same /\ Set(i, next([r EXCEPT !.err = FALSE]))
          [] st.call = "close" -> same /\ Set(i, next(closes))
          [] st.call = "open" -> same /\ (Set(i, fails) \/ (~Full(r.t) /\ Set(i, next(opens))))
          [] st.call = "create" -> \/ Set(i, fails) /\ same
                                   \/ ~Full(r.t) /\ Set(i, next(opens)) /\ tmp' = tmp \cup {name} /\ UNCHANGED <<stuck, mapped>>
          [] st.call = "nopen" -> same /\ (Set(i, next(r)) \/ (~Full(r.t) /\ Set(i, [opens EXCEPT !.k = st.fail, !.err = TRUE, !.bad = @ \cup {"nopen"}])))
          [] st.call = "unlink" -> \/ Set(i, fails) /\ stuck' = stuck \cup {name} /\ UNCHANGED <<tmp, mapped>>
                                   \/ Set(i, next(r)) /\ tmp' = tmp \ {name} /\ UNCHANGED <<stuck, mapped>>
          [] st.call = "mmap" -> \/ Set(i, fails) /\ same
                                 \/ Set(i, next(r)) /\ mapped' = TRUE /\ UNCHANGED <<tmp, stuck>>
          [] st.call = "munmap" -> \/ Set(i, fails) /\ stuck' = stuck \cup {"mapping"} /\ UNCHANGED <<tmp, mapped>>
                                   \/ Set(i, next(r)) /\ mapped' = FALSE /\ UNCHANGED <<tmp, stuck>>
          [] OTHER -> same /\ (Set(i, fails) \/ Set(i, next(r)))

\* The built-in is through, or has returned.
BuiltinDone(i) ==
  LET r == p[i]
  IN /\ Running(i, "builtin") /\ r.k \notin DOMAIN Script(Head(r.cmd))
     /\ Set(i, BuiltinReturns(i, r)) /\ Loses(i, {r.held[x] : x \in DOMAIN r.held}) /\ UNCHANGED <<stop, Files>>

Init ==
  /\ p = [i \in Proc |-> IF i = 1 THEN [NoProc EXCEPT !.pc = "prompt", !.t = [fd \in Fd |-> IF fd \in Std THEN "tty" ELSE NONE]] ELSE NoProc]
  /\ tmp = {} /\ stuck = {} /\ mapped = FALSE /\ lost = {} /\ stop = "" /\ lines = 0

Acts(i) ==
  \/ Execute(i) \/ Child(i) \/ Program(i) \/ Wait(i) \/ Repeat(i) \/ Parallel(i) \/ ParallelChild(i) \/ Builtin(i) \/ BuiltinDone(i)

Work == (ParseRedirect \/ Parse \/ \E i \in Proc : Acts(i)) /\ UNCHANGED lines

\* The shell has ended.
Ended == stop # "" /\ UNCHANGED vars

Next == ReadLine \/ Work \/ Ended

Spec == Init /\ [][Next]_vars

-----------------------------------------------------------------------------
\* Back at the prompt the shell has waited for all its children, and has open
\* the descriptors it began with and those it lost on the listed paths: a line
\* given up, a copy without destination, a check that finds a file it should
\* not, a "repeat" out of descriptors.  A check leaves a file or a mapping only
\* when it could not be removed.
ShellTidy ==
  p[1].pc = "prompt" =>
    /\ Kids(1) = {}
    /\ Open(p[1].t) = Std \cup lost
    /\ tmp \subseteq stuck
    /\ mapped => "mapping" \in stuck

\* A program or a built-in gets for its standard streams the files the line
\* names last for them, when only standard streams are redirected; and a program
\* that the line itself starts gets no other descriptor of the line.
RedirectsDone ==
  \A i \in Proc : LET r == p[i] IN r.std =>
    /\ r.pc = "program" => \A d \in Std : r.t[d] = r.want[d]
    /\ r.pc = "program" /\ p[1].cmd = <<"extern">> /\ p[1].frames = <<>> => Open(r.t) = Std \cup lost
    /\ r.pc = "builtin" => \A d \in Std : r.t[build_ioenv(r.map)[d]] = r.want[d]

\* A check that reports success has seen every call succeed, but for the
\* mapping of the sparse file, whose removal is not looked at.
ChecksReport ==
  \A i \in Proc : LET r == p[i] IN
    r.pc = "builtin" /\ Head(r.cmd) \in Checks /\ r.k = Len(Script(Head(r.cmd))) + 1 /\ ~r.err =>
      r.bad \subseteq (IF Head(r.cmd) = "sparse" THEN {"munmap"} ELSE {})
=============================================================================
