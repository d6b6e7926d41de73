------------------------------- MODULE MCFiles -------------------------------
(***************************************************************************)
(* Instances of Files, Syscalls, S5Lists and Terminal for TLC.  The        *)
(* variable job says from the start which of them runs.                    *)
(*                                                                         *)
(* Two processes share two open files and three inodes of the memory file  *)
(* system.  A program makes every system call.  Two threads allocate and   *)
(* free three inodes and seven blocks of an s5 disk.  Two terminals of two *)
(* by two have four rows to scroll through.                                *)
(***************************************************************************)
EXTENDS Files, TLC

CONSTANTS Thread, NONE

VARIABLES job, call, super, node, inode, ind, mutex, th, vt, cur, screen, curmask, astray

disk == <<super, node, inode, ind, mutex, th>>
display == <<vt, cur, screen, curmask, astray>>
MCvars == <<job, s, call, disk, display>>

Modes == {{"READ"}, {"WRITE", "APPEND"}}
Offsets == {-7, 7}
\* Shared descriptors, a removed file that is open, directories that are open or
\* somebody's working directory, and one process that changes the whole tree.
Workloads == {{"open", "dup", "read", "mknod", "fork"}, {"open", "link", "mknod", "fork"},
              {"open", "mkdir", "fork"}, {"mkdir", "link"}}

Calls == INSTANCE Syscalls WITH
  s <- call, Break <- 1 .. 3, Increment <- -2 .. 1, MAX_EXIT_HANDLERS <- 2, SizeofDirent <- 1,
  Count <- {0, 1, 3}, PAGE_SIZE <- 2, MaxLeak <- 2
Disk == INSTANCE S5Lists WITH NInodes <- 3, NBlocks <- 7, S5_NBLKS_PER_FNODE <- 3, NDIRECT <- 2
Display == INSTANCE Terminal WITH
  NTERMS <- 2, DISPLAY_WIDTH <- 2, DISPLAY_HEIGHT <- 2, ROWS <- 4, Glyph <- {"x"}, BLANK <- "blank"

\* Processes, files and names are interchangeable, and so are the threads at the
\* disk, which no job has together with files and may be the same model values.
Symmetry == UNION {Permutations(X) : X \in {Proc, File, Name, Thread}}

MCInit ==
  /\ job \in {"files", "calls", "disk", "display"}
  /\ IF job = "files" THEN Init ELSE s = NONE
  /\ Calls!Init
  /\ IF job = "disk" THEN Disk!Init
     ELSE super = NONE /\ node = NONE /\ inode = NONE /\ ind = NONE /\ mutex = NONE /\ th = NONE
  /\ IF job = "display" THEN Display!Init
     ELSE vt = NONE /\ cur = NONE /\ screen = NONE /\ curmask = NONE /\ astray = NONE
MCNext ==
  \/ job = "files" /\ Next /\ UNCHANGED <<job, call, disk, display>>
  \/ job = "calls" /\ Calls!Next /\ UNCHANGED <<job, s, disk, display>>
  \/ job = "disk" /\ Disk!Next /\ UNCHANGED <<job, s, call, display>>
  \/ job = "display" /\ Display!Next /\ UNCHANGED <<job, s, call, disk>>
  \/ job \in {"files", "calls"} /\ UNCHANGED MCvars  \* a process may end, the disk and the display may not
MCSpec == MCInit /\ [][MCNext]_MCvars

-----------------------------------------------------------------------------
\* The counts that decide when an inode, a vnode and an open file go away are
\* exact: no error path of a system call leaks or drops a reference or a link
\* (vnode.c vref, vput; file.c fref, fput; ramfs.c).
CountsExact == job = "files" => RefsCounted /\ LinksCounted

\* Only the listed assertions and undefined steps are ever met (ramfs.c:237, 479,
\* 539, 602, 618; open.c:85; vfs_syscall.c:218; vfs.c:165).
PanicsKnown == job = "files" => KnownPanics

\* Whatever fails on the way, a system call has freed what it took when it
\* ends, but for the pages of failed reads and writes; a thread cancelled in a
\* call never runs in user mode again; and the break the library keeps is the
\* kernel's (syscall.c; libc's sbrk).
CallsSound == job = "calls" => Calls!CallsBalanced /\ Calls!CancelledLeaves /\ Calls!BrkAgrees

\* A call that returns -1 has left an error in kt_errno, and one that returns a
\* value has not touched it, but to clear it after exec (syscall.c).
ErrnoExact == Calls!ErrnoExact

\* Every block of the disk is in use, about to be freed, or on the free list,
\* once, and the free inodes are on theirs, once (s5fs_subr.c s5_free_block,
\* s5_free_inode, s5_alloc_inode).
FreeListsSound == job = "disk" => Disk!FreeListsSound

\* The screen shows the current terminal, whether it was drawn whole or changed
\* by one character (virtterm.c: vt_provide_char).
TerminalShown == job = "display" => Display!TerminalShown
=============================================================================
