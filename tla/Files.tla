-------------------------------- MODULE Files --------------------------------
(***************************************************************************)
(* The descriptor tables, open files and system calls of the VFS           *)
(* (kernel/fs/file.c, open.c, vfs_syscall.c) over a ramfs                  *)
(* (kernel/fs/ramfs/ramfs.c) and its vnodes (vnode.c, vfs.c).              *)
(*                                                                         *)
(* A ramfs never blocks, and the kernel is not preempted: a system call is *)
(* one step.  Which directory and entry a path leads to is an input of the *)
(* call (the walk of namev.c keeps only its reference on the directory);   *)
(* a path that does not resolve is an input too where the caller goes on   *)
(* to do something.  The bytes of a file are left out, its size is kept.   *)
(*                                                                         *)
(* "s" is the whole state.  An operation takes it and returns what it      *)
(* leaves behind and its result: a record of both, made by Ret.            *)
(***************************************************************************)
EXTENDS Integers, FiniteSets, FiniteSetsExt

CONSTANTS Proc,              \* processes other than the idle process
          File,              \* slots of file_allocator
          NFILES, RAMFS_MAX_FILES, PAGE_SIZE,
          DirentSize,        \* sizeof(ramfs_dirent_t)
          Name,              \* names of directory entries
          OpenMode,          \* values of f_mode that do_open is asked for
          Count, Offset,     \* lengths of reads and writes, arguments of lseek
          Device,            \* modes of special files that have a driver
          Workload,          \* sets of system calls that processes make
          MaxLeak, MaxGone,  \* bounds: references lost by do_link, links that disappear
          NULL

ASSUME FilesAssumption ==
  /\ NFILES > 0 /\ RAMFS_MAX_FILES > 0 /\ DirentSize > 0 /\ PAGE_SIZE >= 2 * DirentSize
  /\ Device \subseteq {"CHR", "BLK"} /\ {".", ".."} \cap Name = {}
  /\ NULL \notin Proc \cup File

Ino == 0 .. RAMFS_MAX_FILES - 1
RAMFS_MAX_DIRENT == PAGE_SIZE \div DirentSize
Slot == 1 .. RAMFS_MAX_DIRENT
Fd == 0 .. NFILES - 1
root == 0
FAIL == -1                   \* every error code but that of get_empty_fd
EMFILE == -24

VARIABLE s

\* A directory entry; rd_name "" is a free one.
Dirent == [rd_name : Name \cup {"", ".", ".."}, rd_ino : Ino]
NoDirent == [rd_name |-> "", rd_ino |-> root]
Inode == [rf_mode : {"DATA", "DIR", "CHR", "BLK"}, rf_linkcount : Int,
          rf_size : Int, rf_mem : [Slot -> Dirent]]
file_t == [f_mode : SUBSET {"READ", "WRITE", "APPEND"}, f_pos : Int,
           f_refcount : Int, f_vnode : Ino \cup {NULL}]

\* ref and len belong to the vnode of an inode, which is in memory while ref > 0.
\* panic names the first assertion, or undefined step, that was met.  Two fields
\* are history: lost counts the references that do_link forgets, and gone the
\* entries that disappeared with the directory they were in.
TypeOK ==
  s \in [rfs_inodes : [Ino -> Inode \cup {NULL}], ref : [Ino -> Int], len : [Ino -> Int],
         file : [File -> file_t \cup {NULL}], p_files : [Proc -> [Fd -> File \cup {NULL}]],
         p_cwd : [Proc -> Ino \cup {NULL}], lost : [Ino -> 0 .. MaxLeak], gone : [Ino -> Nat],
         calls : Workload, up : BOOLEAN, panic : STRING]

Ret(t, r) == [s |-> t, r |-> r]
Panic(t, why) == IF t.panic = "" THEN [t EXCEPT !.panic = why] ELSE t

-----------------------------------------------------------------------------
\* Vnodes.

\* How many entries of the directories D name inode i, "." and ".." apart.
Entries(t, D, i) ==
  Cardinality({e \in D \X Slot : LET x == t.rfs_inodes[e[1]].rf_mem[e[2]]
                                IN x.rd_name \in Name /\ x.rd_ino = i})

ramfs_read_vnode(t, i) ==
  IF t.rfs_inodes[i] = NULL THEN Panic(t, "read_vnode")
  ELSE [t EXCEPT !.rfs_inodes[i].rf_linkcount = @ + 1,
                 !.len[i] = t.rfs_inodes[i].rf_size]

vref(t, i) == IF t.ref[i] > 0 THEN [t EXCEPT !.ref[i] = @ + 1] ELSE Panic(t, "vref")

vget(t, i) ==
  IF t.ref[i] > 0 THEN vref(t, i)
  ELSE LET u == ramfs_read_vnode(t, i) IN
       IF u.panic = "" THEN [u EXCEPT !.ref[i] = 1] ELSE u

\* The entries of a directory that is freed are gone with its page.
ramfs_delete_vnode(t, i) ==
  IF t.rfs_inodes[i].rf_linkcount = 1
  THEN [t EXCEPT !.rfs_inodes[i] = NULL, !.gone = [j \in Ino |-> @[j] + Entries(t, {i}, j)]]
  ELSE [t EXCEPT !.rfs_inodes[i].rf_linkcount = @ - 1]

\* A ramfs vnode has no cached pages: the last reference deletes it.
vput(t, i) ==
  IF t.panic # "" THEN t
  ELSE IF t.ref[i] <= 0 THEN Panic(t, "vput")
  ELSE IF t.ref[i] > 1 THEN [t EXCEPT !.ref[i] = @ - 1]
  ELSE ramfs_delete_vnode([t EXCEPT !.ref[i] = 0, !.len[i] = 0], i)

Mode(t, i) == IF t.rfs_inodes[i] = NULL THEN "" ELSE t.rfs_inodes[i].rf_mode
IsDir(t, i) == Mode(t, i) = "DIR"

-----------------------------------------------------------------------------
\* Vnode operations of ramfs.  d is a directory in memory.

Found(t, d, n) == {k \in Slot : t.rfs_inodes[d].rf_mem[k].rd_name = n}

ramfs_lookup(t, d, n) ==
  IF Found(t, d, n) = {} THEN Ret(t, FAIL)
  ELSE LET i == t.rfs_inodes[d].rf_mem[Min(Found(t, d, n))].rd_ino IN Ret(vget(t, i), i)

ramfs_alloc_inode(t, type) ==
  LET free == {i \in Ino : t.rfs_inodes[i] = NULL}
      new == [rf_mode |-> type, rf_linkcount |-> 1, rf_size |-> 0,
              rf_mem |-> [k \in Slot |-> NoDirent]]
  IN IF free = {} THEN Ret(t, FAIL)
     ELSE Ret([t EXCEPT !.rfs_inodes[Min(free)] = new], Min(free))

\* The free entry that create, mknod, link and mkdir look for, and its use.
SetEntry(t, d, n, i) ==
  [t EXCEPT !.rfs_inodes[d].rf_mem[Min(Found(t, d, ""))] = [rd_name |-> n, rd_ino |-> i],
            !.rfs_inodes[d].rf_size = @ + DirentSize]

\* The inode number of a free entry is never read.
ClearEntry(t, d, n) ==
  [t EXCEPT !.rfs_inodes[d].rf_mem[Min(Found(t, d, n))] = NoDirent,
            !.rfs_inodes[d].rf_size = @ - DirentSize]

\* The memory of a new directory i in d.
Dots(i, d) == [[k \in Slot |-> NoDirent] EXCEPT ![1] = [rd_name |-> ".", rd_ino |-> i],
                                                ![2] = [rd_name |-> "..", rd_ino |-> d]]

\* KASSERT(0 != ramfs_lookup(...)), the search for space, and the new inode.
NewInode(t, d, n, type) ==
  IF Found(t, d, n) # {} THEN Ret(Panic(t, "exists"), FAIL)
  ELSE IF Found(t, d, "") = {} THEN Ret(t, FAIL)
  ELSE ramfs_alloc_inode(t, type)

InMemory(a, d, n) == IF a.r < 0 THEN a ELSE Ret(SetEntry(vget(a.s, a.r), d, n, a.r), a.r)
ramfs_create(t, d, n) == InMemory(NewInode(t, d, n, "DATA"), d, n)

OnDisk(a, d, n) == IF a.r < 0 THEN a ELSE Ret(SetEntry(a.s, d, n, a.r), 0)
ramfs_mknod(t, d, n, mode) == OnDisk(NewInode(t, d, n, mode), d, n)

WithDots(a, d, n) ==
  IF a.r < 0 THEN a
  ELSE Ret([SetEntry(a.s, d, n, a.r) EXCEPT !.rfs_inodes[a.r].rf_mem = Dots(a.r, d),
                                            !.rfs_inodes[a.r].rf_size = 2 * DirentSize], 0)
ramfs_mkdir(t, d, n) == WithDots(NewInode(t, d, n, "DIR"), d, n)

\* Mutant: the new link is not counted.
ramfs_linkUncounted(t, i, d, n) ==
  IF Found(t, d, n) # {} \/ Found(t, d, "") = {} THEN Ret(t, FAIL) ELSE Ret(SetEntry(t, d, n, i), 0)

ramfs_link(t, i, d, n) ==
  IF Found(t, d, n) # {} THEN Ret(Panic(t, "exists"), FAIL)
  ELSE IF Found(t, d, "") = {} THEN Ret(t, FAIL)
  ELSE Ret([SetEntry(t, d, n, i) EXCEPT !.rfs_inodes[i].rf_linkcount = @ + 1], 0)

\* Entry n of d no longer names inode i.
Removed(t, d, n, i) == [ClearEntry(t, d, n) EXCEPT !.rfs_inodes[i].rf_linkcount = @ - 1]

\* A ".." that names no directory is one whose inode was reused: its link count is
\* wrong from here on, and the behaviour ends.
UnlinkFound(l, d, n) ==
  IF l.r < 0 \/ IsDir(l.s, l.r) THEN Ret(Panic(l.s, "unlink"), FAIL)
  ELSE IF n = ".." THEN Ret(Panic(Removed(l.s, d, n, l.r), "stale .."), 0)
  ELSE Ret(vput(Removed(l.s, d, n, l.r), l.r), 0)
ramfs_unlink(t, d, n) == UnlinkFound(ramfs_lookup(t, d, n), d, n)

\* A directory is empty when it has no entry other than "." and "..".
IsEmpty(t, i) == \A k \in Slot : t.rfs_inodes[i].rf_mem[k].rd_name \in {"", ".", ".."}

RmdirFound(l, d, n) ==
  IF l.r < 0 \/ l.s.panic # "" THEN Ret(l.s, FAIL)
  ELSE IF ~IsDir(l.s, l.r) \/ ~IsEmpty(l.s, l.r) THEN Ret(vput(l.s, l.r), FAIL)
  ELSE Ret(vput(Removed(l.s, d, n, l.r), l.r), 0)
ramfs_rmdir(t, d, n) ==
  IF n \in {".", ".."} THEN Ret(Panic(t, "rmdir"), FAIL)
  ELSE RmdirFound(ramfs_lookup(t, d, n), d, n)

ramfs_read(t, i, offset, count) ==
  Ret(t, Max({0, Min({count, t.rfs_inodes[i].rf_size - offset})}))

\* Beyond the page the length given to memcpy is negative.
ramfs_write(t, i, offset, count) ==
  LET ret == Min({count, PAGE_SIZE - offset})
      len == Max({t.len[i], offset + ret})
  IN IF ret < 0 THEN Ret(Panic(t, "write beyond the page"), FAIL)
     ELSE IF t.len[i] # t.rfs_inodes[i].rf_size THEN Ret(Panic(t, "vn_len"), FAIL)
     ELSE Ret([t EXCEPT !.len[i] = len, !.rfs_inodes[i].rf_size = len], ret)

\* Free entries are skipped; the result is the distance to the end of the entry read.
ramfs_readdir(t, i, offset) ==
  LET used == {k \in Slot : k > offset \div DirentSize /\ t.rfs_inodes[i].rf_mem[k].rd_name # ""}
  IN IF offset % DirentSize # 0 THEN Ret(Panic(t, "readdir"), FAIL)
     ELSE Ret(t, IF used = {} THEN 0 ELSE Min(used) * DirentSize - offset)

-----------------------------------------------------------------------------
\* Open files.

fref(t, f) == [t EXCEPT !.file[f].f_refcount = @ + 1]

\* fget(-1) and fget(fd): r is the file, or NULL.
fget_new(t) ==
  LET free == {f \in File : t.file[f] = NULL}
      f == CHOOSE x \in free : TRUE
      new == [f_mode |-> {}, f_pos |-> 0, f_refcount |-> 0, f_vnode |-> NULL]
  IN IF free = {} THEN Ret(t, NULL) ELSE Ret(fref([t EXCEPT !.file[f] = new], f), f)

fget(t, p, fd) == LET f == t.p_files[p][fd] IN Ret(fref(t, f), f)

fput(t, f) ==
  LET u == [t EXCEPT !.file[f] = NULL]
  IN IF f = NULL THEN Panic(t, "fput(NULL)")
     ELSE IF t.panic # "" THEN t
     ELSE IF t.file[f].f_refcount > 1 THEN [t EXCEPT !.file[f].f_refcount = @ - 1]
     ELSE IF t.file[f].f_vnode = NULL THEN u ELSE vput(u, t.file[f].f_vnode)

get_empty_fd(t, p) ==
  LET free == {fd \in Fd : t.p_files[p][fd] = NULL}
  IN IF free = {} THEN EMFILE ELSE Min(free)

BadFd(t, p, fd) == t.p_files[p][fd] = NULL

-----------------------------------------------------------------------------
\* System calls on descriptors.  p is curproc.

\* What open_namev hands over: the vnode of an existing inode, or of a new
\* regular file in a directory, with a new reference.
Existing(t, i) == Ret(vget(t, i), i)
Created(t, d, n) == ramfs_create(t, d, n)
open_namev(t, d, x) == IF d = NULL THEN Existing(t, x) ELSE Created(t, d, x)

\* open_namev's outcome g comes after the new file_t f and the test of the
\* flags; mode NULL stands for flags that do_open does not know.
OpenGot(g, p, mode, fd, f) ==
  IF g.r < 0 THEN Ret(fput(g.s, f), FAIL)
  ELSE IF \/ IsDir(g.s, g.r) /\ "WRITE" \in mode
          \/ Mode(g.s, g.r) \in {"CHR", "BLK"} \ Device
       THEN Ret(vput(fput(g.s, f), g.r), FAIL)
  ELSE Ret([g.s EXCEPT !.file[f].f_mode = mode, !.file[f].f_vnode = g.r,
                       !.p_files[p][fd] = f], fd)
OpenFile(n, p, mode, d, x, fd) ==
  IF n.r = NULL \/ mode = NULL THEN Ret(fput(n.s, n.r), FAIL)
  ELSE OpenGot(open_namev(n.s, d, x), p, mode, fd, n.r)
do_open(t, p, mode, d, x) ==
  IF get_empty_fd(t, p) = EMFILE THEN Ret(t, FAIL)
  ELSE OpenFile(fget_new(t), p, mode, d, x, get_empty_fd(t, p))

\* A byte device hands the count to its driver; a block device refuses.
special_file_read(t, i, count) == Ret(t, IF Mode(t, i) = "CHR" THEN count ELSE FAIL)
special_file_write(t, i, count) == Ret(t, IF Mode(t, i) = "CHR" THEN count ELSE FAIL)

\* The end of a call on file f that read, wrote or sought: the position moves by
\* the result x.r, unless that is an error, and the reference of fget goes.
Moved(x, f) == Ret(fput([x.s EXCEPT !.file[f].f_pos = @ + Max({0, x.r})], f), x.r)

SeekTo(t, f, pos) ==
  IF pos < 0 THEN Ret(fput(t, f), FAIL) ELSE Ret(fput([t EXCEPT !.file[f].f_pos = pos], f), pos)
do_lseek(t, p, fd, offset, whence) ==
  LET g == fget(t, p, fd)
      of == t.file[g.r]
  IN IF BadFd(t, p, fd) THEN Ret(t, FAIL)
     ELSE SeekTo(g.s, g.r, offset + CASE whence = "SET" -> 0
                                      [] whence = "CUR" -> of.f_pos
                                      [] whence = "END" -> t.len[of.f_vnode])

do_read(t, p, fd, count) ==
  LET g == fget(t, p, fd)
      of == t.file[g.r]
  IN IF BadFd(t, p, fd) THEN Ret(t, FAIL)
     ELSE IF "READ" \notin of.f_mode \/ IsDir(t, of.f_vnode) THEN Ret(fput(g.s, g.r), FAIL)
     ELSE Moved(IF Mode(t, of.f_vnode) = "DATA"
                THEN ramfs_read(g.s, of.f_vnode, of.f_pos, count)
                ELSE special_file_read(g.s, of.f_vnode, count), g.r)

\* KASSERT: the position of a regular file is not after its end.
WriteEnds(w, f, i, pos) ==
  IF w.r >= 0 /\ Mode(w.s, i) = "DATA" /\ pos > w.s.len[i] THEN Ret(Panic(w.s, "f_pos"), FAIL)
  ELSE Moved(w, f)
WriteAt(t, f, i, pos, count) ==
  WriteEnds(IF Mode(t, i) = "DATA" THEN ramfs_write(t, i, pos, count)
                                   ELSE special_file_write(t, i, count), f, i, pos)

\* In append mode do_write seeks to the end first, with a reference of its own.
AppendTo(t, p, fd, f) ==
  IF "APPEND" \in t.file[f].f_mode THEN do_lseek(t, p, fd, 0, "END").s ELSE t
do_write(t, p, fd, count) ==
  LET g == fget(t, p, fd)
      u == AppendTo(g.s, p, fd, g.r)
  IN IF BadFd(t, p, fd) THEN Ret(t, FAIL)
     ELSE IF "WRITE" \notin t.file[g.r].f_mode THEN Ret(fput(g.s, g.r), FAIL)
     ELSE WriteAt(u, g.r, u.file[g.r].f_vnode, u.file[g.r].f_pos, count)

do_getdent(t, p, fd) ==
  LET g == fget(t, p, fd)
      of == t.file[g.r]
  IN IF BadFd(t, p, fd) THEN Ret(t, FAIL)
     ELSE IF ~IsDir(t, of.f_vnode) THEN Ret(fput(g.s, g.r), FAIL)
     ELSE Moved(ramfs_readdir(g.s, of.f_vnode, of.f_pos), g.r)

do_close(t, p, fd) ==
  LET g == fget(t, p, fd)
  IN IF BadFd(t, p, fd) THEN Ret(t, FAIL)
     ELSE Ret(fput([fput(g.s, g.r) EXCEPT !.p_files[p][fd] = NULL], g.r), 0)

\* The test is !dup_fd: descriptor 0 counts as a failure, and -EMFILE as a
\* descriptor, an index far before the array.
do_dup(t, p, fd) ==
  LET g == fget(t, p, fd)
      dup_fd == get_empty_fd(t, p)
  IN IF BadFd(t, p, fd) THEN Ret(t, FAIL)
     ELSE IF dup_fd = 0 THEN Ret(fput(g.s, g.r), EMFILE)
     ELSE IF dup_fd \notin Fd THEN Ret(Panic(g.s, "p_files[-EMFILE]"), dup_fd)
     ELSE Ret([g.s EXCEPT !.p_files[p][dup_fd] = g.r], dup_fd)

Installed(g, p, nfd) == Ret([g.s EXCEPT !.p_files[p][nfd] = g.r], nfd)
do_dup2(t, p, ofd, nfd) ==
  IF BadFd(t, p, ofd) THEN Ret(t, FAIL)
  ELSE IF ofd = nfd THEN Ret(t, nfd)
  ELSE Installed(fget(IF BadFd(t, p, nfd) THEN t ELSE do_close(t, p, nfd).s, p, ofd), p, nfd)

-----------------------------------------------------------------------------
\* System calls on paths.  d is the directory and n the entry that dir_namev
\* found; it holds a reference to d.

\* The call is over: the reference to i goes, and the result stays.
Put(x, i) == Ret(vput(x.s, i), x.r)

\* Nothing is done: both references go.
PutBoth(l, d) == Ret(vput(vput(l.s, d), l.r), FAIL)

\* The directory is put before its use.
MknodAt(l, d, n, mode) ==
  IF l.r >= 0 THEN PutBoth(l, d) ELSE ramfs_mknod(vput(l.s, d), d, n, mode)
do_mknod(t, d, n, mode) == MknodAt(ramfs_lookup(vget(t, d), d, n), d, n, mode)

MkdirAt(l, d, n) == IF l.r >= 0 THEN PutBoth(l, d) ELSE Put(ramfs_mkdir(l.s, d, n), d)

\* Mutant: without the test whether the entry exists.
do_mkdirUnchecked(t, d, n) == Put(ramfs_mkdir(vget(t, d), d, n), d)

do_mkdir(t, d, n) == MkdirAt(ramfs_lookup(vget(t, d), d, n), d, n)

RmdirAt(l, d, n) ==
  IF l.r < 0 THEN Put(l, d) ELSE Put(Put(ramfs_rmdir(l.s, d, n), l.r), d)
do_rmdir(t, d, n) == RmdirAt(ramfs_lookup(vget(t, d), d, n), d, n)

UnlinkAt(l, d, n) ==
  IF l.r < 0 THEN Put(l, d)
  ELSE IF l.s.panic # "" THEN Ret(l.s, FAIL)
  ELSE IF IsDir(l.s, l.r) THEN PutBoth(l, d)
  ELSE Put(Put(ramfs_unlink(l.s, d, n), d), l.r)
do_unlink(t, d, n) == UnlinkAt(ramfs_lookup(vget(t, d), d, n), d, n)

StatAt(l, d) == IF l.r < 0 THEN Put(l, d) ELSE Ret(vput(vput(l.s, d), l.r), 0)
do_stat(t, d, n) == StatAt(ramfs_lookup(vget(t, d), d, n), d)

\* from leads to inode i, to is entry n of d.
LinkAt(l, i, d, n) ==
  IF l.r >= 0 THEN Ret(vput(vput(vput(l.s, i), d), l.r), FAIL)
  ELSE Put(Put(ramfs_link(l.s, i, d, n), i), d)
do_link(t, i, d, n) == LinkAt(ramfs_lookup(vget(vget(t, i), d), d, n), i, d, n)

\* One of the two paths of do_link does not resolve.  The error path tests the
\* wrong sign and keeps the reference to what the other one, i, led to.
do_link_unresolved(t, i) == Ret([vget(t, i) EXCEPT !.lost[i] = @ + 1], FAIL)

\* oldname is entry n of d, which open_namev takes to inode i; newname is m of e.
RemoveOld(l, d, n) ==
  IF l.r < 0 THEN Put(l, d)
  ELSE Put(IF IsDir(l.s, l.r) THEN do_rmdir(vput(l.s, l.r), d, n)
                              ELSE do_unlink(vput(l.s, l.r), d, n), d)
LinkedNew(k, d, n) == IF k.r < 0 THEN k ELSE RemoveOld(ramfs_lookup(vget(k.s, d), d, n), d, n)
do_rename(t, i, d, n, e, m) == LinkedNew(do_link(t, i, e, m), d, n)

do_chdir(t, p, i) ==
  LET u == vget(t, i)
  IN IF ~IsDir(u, i) THEN Ret(vput(u, i), FAIL)
     ELSE Ret([vput(u, u.p_cwd[p]) EXCEPT !.p_cwd[p] = i], 0)

-----------------------------------------------------------------------------
\* Processes, and the end of the system.

proc_create(t, p, child) ==
  [vref(t, t.p_cwd[p]) EXCEPT !.p_cwd[child] = t.p_cwd[p],
                              !.p_files[child] = [fd \in Fd |-> NULL]]

proc_cleanup(t, p) ==
  LET Close(fd, u) == do_close(u, p, fd).s
  IN [FoldSet(Close, vput(t, t.p_cwd[p]), Fd) EXCEPT !.p_cwd[p] = NULL]

\* The loop tests the descriptors of the victim and closes those of curproc.
proc_kill(t, curproc, p) ==
  LET Close(fd, u) == IF BadFd(u, p, fd) THEN u ELSE do_close(u, curproc, fd).s
  IN FoldSet(Close, t, Fd)

vfs_is_in_use(t) == t.ref[root] > 1 \/ \E i \in Ino \ {root} : t.ref[i] > 0

\* idleproc_run gives up its working directory and shuts the VFS down.
vfs_shutdown(t) ==
  LET u == vput(t, root)
  IN IF vfs_is_in_use(u) THEN Panic(u, "active vnodes") ELSE [vput(u, root) EXCEPT !.up = FALSE]

-----------------------------------------------------------------------------
\* The root is held by fs_root and by the idle process and the first process,
\* which have it as working directory.
Init ==
  \E init \in Proc, calls \in Workload :
    s = [rfs_inodes |-> [i \in Ino |-> IF i # root THEN NULL
                                      ELSE [rf_mode |-> "DIR", rf_linkcount |-> 2,
                                            rf_size |-> 2 * DirentSize, rf_mem |-> Dots(root, root)]],
         ref |-> [i \in Ino |-> IF i = root THEN 3 ELSE 0],
         len |-> [i \in Ino |-> IF i = root THEN 2 * DirentSize ELSE 0],
         file |-> [f \in File |-> NULL],
         p_files |-> [p \in Proc |-> [fd \in Fd |-> NULL]],
         p_cwd |-> [p \in Proc |-> IF p = init THEN root ELSE NULL],
         lost |-> [i \in Ino |-> 0], gone |-> [i \in Ino |-> 0],
         calls |-> calls, up |-> TRUE, panic |-> ""]

Alive == {p \in Proc : s.p_cwd[p] # NULL}
Inodes == {i \in Ino : s.rfs_inodes[i] # NULL}

\* The inodes that a path of p leads to, from its working directory or the root.
Reach(p) ==
  LET Named(D) == {s.rfs_inodes[d].rf_mem[k].rd_ino :
                     <<d, k>> \in {e \in D \X Slot : /\ IsDir(s, e[1])
                                                     /\ s.rfs_inodes[e[1]].rf_mem[e[2]].rd_name # ""}}
      Follow(D) == D \cup (Named(D) \cap Inodes)
      R[n \in Ino] == IF n = 0 THEN {root, s.p_cwd[p]} ELSE Follow(R[n - 1])
  IN R[RAMFS_MAX_FILES - 1]
Dirs(p) == {i \in Reach(p) : IsDir(s, i)}

Running == s.up /\ s.panic = ""

\* Bounds: few links disappear, and file positions stay within an entry of the
\* end of a page.
Bounded(t) == /\ \A i \in Ino : t.gone[i] <= MaxGone
              /\ \A f \in File : t.file[f] # NULL => t.file[f].f_pos <= PAGE_SIZE + DirentSize

\* A system call is one step, to one of the states T that its arguments lead to.
\* After a panic nobody looks at what it had done.
Call(T) ==
  /\ Running
  /\ s' \in {IF t.panic = "" THEN t ELSE [s EXCEPT !.panic = t.panic] : t \in {u \in T : Bounded(u)}}

Open(p) == \E mode \in OpenMode \cup {NULL} :
             Call({do_open(s, p, mode, NULL, i).s : i \in Reach(p)})
OpenCreate(p) == \E mode \in OpenMode, d \in Dirs(p) :
                   Call({do_open(s, p, mode, d, n).s :
                           n \in {m \in Name : Found(s, d, m) = {}}})
Close(p) == Call({do_close(s, p, fd).s : fd \in Fd})
Dup(p) == Call({do_dup(s, p, fd).s : fd \in Fd})
Dup2(p) == Call({do_dup2(s, p, ofd, nfd).s : ofd, nfd \in Fd})
Read(p) == Call({do_read(s, p, fd, Count).s : fd \in Fd})
Write(p) == Call({do_write(s, p, fd, Count).s : fd \in Fd})
Lseek(p) == Call({do_lseek(s, p, fd, offset, whence).s :
                    fd \in Fd, offset \in Offset, whence \in {"SET", "CUR", "END"}})
Getdent(p) == Call({do_getdent(s, p, fd).s : fd \in Fd})
Mknod(p) == Call({do_mknod(s, d, n, mode).s : d \in Dirs(p), n \in Name, mode \in {"CHR", "BLK"}})
Mkdir(p) == Call({do_mkdir(s, d, n).s : d \in Dirs(p), n \in Name})
Rmdir(p) == Call({do_rmdir(s, d, n).s : d \in Dirs(p), n \in Name \cup {".", ".."}})
Unlink(p) == Call({do_unlink(s, d, n).s : d \in Dirs(p), n \in Name \cup {".", ".."}})
Stat(p) == Call({do_stat(s, d, n).s : d \in Dirs(p), n \in Name \cup {".", ".."}})
Link(p) == Call({do_link(s, i, d, n).s : i \in Reach(p), d \in Dirs(p), n \in Name})
LinkUnresolved(p) == /\ \A i \in Ino : s.lost[i] < MaxLeak
                     /\ Call({do_link_unresolved(s, i).s : i \in Reach(p)})
Rename(p) ==
  LET D == Dirs(p)
      Named(d, n) == {s.rfs_inodes[d].rf_mem[k].rd_ino : k \in Found(s, d, n)}
  IN \E d \in D, n \in Name :
       Call({do_rename(s, i, d, n, e, m).s : i \in Reach(p) \cap ({d} \cup Named(d, n)), e \in D, m \in Name})
Chdir(p) == Call({do_chdir(s, p, i).s : i \in Reach(p)})
Fork(p) == Call({proc_create(s, p, child) : child \in Proc \ Alive})
Exit(p) == Call({proc_cleanup(s, p)})
Kill(p) == Call({proc_kill(s, p, q) : q \in Alive})
Shutdown == Alive = {} /\ Call({vfs_shutdown(s)})

SysCall(p) ==
  \/ "open" \in s.calls /\ (Open(p) \/ OpenCreate(p) \/ Close(p))
  \/ "dup" \in s.calls /\ (Dup(p) \/ Dup2(p))
  \/ "read" \in s.calls /\ (Read(p) \/ Write(p) \/ Lseek(p) \/ Getdent(p))
  \/ "mkdir" \in s.calls /\ (Mkdir(p) \/ Rmdir(p) \/ Stat(p) \/ Chdir(p))
  \/ "mknod" \in s.calls /\ (Mknod(p) \/ LinkUnresolved(p))
  \/ "link" \in s.calls /\ (Link(p) \/ Unlink(p) \/ Rename(p))
  \/ "fork" \in s.calls /\ Fork(p)

Next ==
  \/ \E p \in Alive : SysCall(p) \/ Exit(p) \/ Kill(p)
  \/ Shutdown

Spec == Init /\ [][Next]_s

-----------------------------------------------------------------------------
\* A vnode has one reference for each open file and working directory on it,
\* besides those of the mount and the idle process to the root and those that
\* do_link lost; an open file has one for each descriptor.  No error path of a
\* system call leaks or drops one (vnode.c vref, vput; file.c fref, fput).
RefsCounted ==
  Running =>
    /\ \A i \in Ino :
         s.ref[i] = Cardinality({f \in File : s.file[f] # NULL /\ s.file[f].f_vnode = i})
                    + Cardinality({p \in Proc : s.p_cwd[p] = i})
                    + (IF i = root THEN 2 ELSE 0) + s.lost[i]
    /\ \A f \in File :
         Cardinality({x \in Proc \X Fd : s.p_files[x[1]][x[2]] = f})
           = IF s.file[f] = NULL THEN 0 ELSE s.file[f].f_refcount

\* The link count of an inode is the number of entries that name it, one more
\* while its vnode is in memory and one for the mount: no inode is freed while
\* an entry or an open file leads to it, and none stays without either, except
\* those whose entry went away inside a removed directory (ramfs.c).
LinksCounted ==
  Running =>
    \A i \in Ino :
      IF i \notin Inodes THEN s.ref[i] = 0 /\ Entries(s, {d \in Inodes : IsDir(s, d)}, i) = 0 /\ s.gone[i] = 0
      ELSE s.rfs_inodes[i].rf_linkcount =
             Entries(s, {d \in Inodes : IsDir(s, d)}, i) + (IF s.ref[i] > 0 THEN 1 ELSE 0)
             + (IF i = root THEN 1 ELSE 0) + s.gone[i]

\* Whatever the processes do, only this goes wrong: a stale ".." entry is looked up
\* (ramfs.c:237) or unlinked (479), "." or ".." given to rmdir (539), a seek beyond the page before
\* a write (602) or inside an entry before getdent (618), no memory for a file_t
\* (open.c:85), dup with a full table (vfs_syscall.c:218), and active vnodes at
\* shutdown (vfs.c:165), the last only after do_link lost a reference.
KnownPanics ==
  /\ TypeOK
  /\ s.panic \in {"", "read_vnode", "stale ..", "rmdir", "write beyond the page", "readdir",
                  "fput(NULL)", "p_files[-EMFILE]", "active vnodes"}
  /\ s.panic = "active vnodes" => \E i \in Ino : s.lost[i] > 0
=============================================================================
