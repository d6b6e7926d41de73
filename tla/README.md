# Weenix: TLA+ models, checks and proofs

Weenix is a small Unix-like kernel for one processor: threads and processes, a
virtual file system with a page cache, virtual memory, device drivers, and a user
space with a C library, a run time linker, a shell and an editor. This directory
holds TLA+ specifications of its concurrent and stateful parts, the TLC
configurations that check them on small instances, and TLAPS proofs of the
properties that matter most. `PROJECT.json` is the machine-readable index:
components, runs, mutants, the map from definitions to source lines, findings,
hazards and theorems.

Paths below are relative to `src/weenix/kernel/` unless they start with `user/`.

## What runs, and what may interleave

The kernel is built for one processor and kernel code is never preempted
(`UPREEMPT=0`, `MTP=0` in `Config.mk`: one thread per process). A thread gives up
the processor only in `sched_switch`. Everything between two such calls is atomic
for other threads, so the models make it one step. Interrupt handlers are the
exception: they run between any two instructions while the interrupt priority
level (IPL) allows it. `Sched` splits `sched_switch` at the places where that matters.

The interesting interleavings are therefore those of blocking calls: state that is
read before a sleep and used after it, wakeups that come before anybody sleeps,
and cancellations that race with a wakeup. In sequential code the hard part is
what is left behind when one step of several fails, and what a long sequence of
legal calls leads to.

Some functions have no body in the sources (`NOT_YET_IMPLEMENTED`; a library
provides them). They are modelled only where callers determine what they do, and
are marked external in the map.

## Modules

| Module | Models | State | Actions |
|---|---|---|---|
| `SchedOps` | `proc/sched.c` as operators on a scheduler record | `kt_state`, `kt_wchan`, `kt_cancelled`, every `ktqueue_t`, `curthr`, a failed `KASSERT` | none: one operator per function |
| `Sched` | the scheduler with arbitrary callers and interrupts | the record, the IPL, the IPL saved by `sched_switch`, whether the processor halts | one per scheduler call, five for the steps of `sched_switch`, `Interrupt` |
| `KMutex` | `proc/kmutex.c` on top of `SchedOps` | `km_holder`, pending lock calls, what each thread was told it holds | lock, cancellable lock, unlock, return of a lock call, cancel |
| `AbstractMutex` | what a mutex promises | owner and line | acquire, wait, release with hand-off, give up |
| `Proc` | `proc/proc.c`, `proc/kthread.c`, the process half of `proc/fork.c`, idle and init of `main/kmain.c` | process list, `p_children`, pids, program counter per thread | spawn, fork, return, exit, waitpid, kill all, cleanup that blocks, halt |
| `KmainTests` | the producer/consumer and reader/writer threads of `main/kmain.c` | buffer, monitor counters | one per stretch between sleeps |
| `PageAlloc` | `mm/page.c`, the buddy allocator | free lists, bit maps, `page_freecount`, the blocks each client holds | allocate, free, one per turn of the split and join loops, the reclaim loop |
| `Slab` | `mm/slab.c` and kmalloc over `PageAlloc` | slabs with their free objects, objects in use | allocate, grow, free, reclaim |
| `PageCache` | `fs/vnode.c` (vget, vref, vput), `mm/pframe.c`, the page-out daemon | vnodes with reference counts, frames with busy and dirty bits, sleepers | the stretches of vget, vput, pframe_get, pframe_clean, pframe_clean_all and the daemon |
| `Vmmap` | `vm/vmmap.c` as operators on a set of areas | none | none: insert, lookup, remove, is_range_empty, find_range |
| `AddressSpace` | `vm/` and `api/elf32.c` for one process: areas, anonymous and shadow objects, page faults, page table, exec, the memory half of fork | areas, objects with counts and resident pages, translations | spawn, load a program, fault, copy in and out, mmap, munmap, fork, exit |
| `Files` | `fs/file.c open.c vfs_syscall.c vfs.c`, `fs/ramfs/ramfs.c` | descriptor tables, open files, vnodes, inodes and directory entries | one per system call of the VFS, fork, exit, kill, shutdown |
| `Syscalls` | `api/syscall.c access.c` and the callers in `user/lib/libc/syscall.c` | what a call holds, `kt_errno`, the break on both sides | one per system call, with every copy and allocation failing or not |
| `S5Lists` | inode and block free lists of `fs/s5fs/s5fs_subr.c` | super block, list blocks, inodes, mutex, one operation per thread | the stretches of s5_alloc_inode, s5_free_inode and s5_free_block |
| `Terminal` | `drivers/tty/virtterm.c screen.c keyboard.c` | circular buffers, the screen, the shown terminal | characters, keys, scrolling, switching |
| `Malloc` | `user/lib/libc/malloc.c` | page directory, chunk pages, free list, spare holder | malloc, free, realloc |
| `Shell` | `user/bin/sh.c` and its children | descriptors of every process, redirections, built-in checks | one per call that may fail |
| `Ed`, `EdRegex` | `user/bin/ed.c`: commands and temporary file; patterns | line array, buffers; compiled pattern and match | one per command; compile, execute, substitute |
| `Linker` | `user/lib/ld-weenix/` | module chain, names, pool, bound words and slots | load, relocate, bind, init, fini |
| `Quad` | `util/math.c`, division of double longs | operands and results | divide |
| `Printf` | `util/printf.c` | the buffer and what was asked for | print, report, scan |

`SchedOps` is shared: `Sched`, `KMutex`, `Proc` and `KmainTests` run on the same
scheduler operators. `Slab` composes with `PageAlloc` by conjoining their actions,
with the reclaim call of `page_alloc_n` going back up into `Slab`. `AddressSpace`
uses the operators of `Vmmap`. `*Proofs` modules hold theorems.

`MC*` modules give values to constants. Several systems that do not interact share
a run: a variable `job` chosen by `Init` (in `MCKMutex`, `plain`) says which of them
moves, the others keep their first state, so that one run explores the sum of their
state spaces and not the product.

A failed `KASSERT` sets a `panic` flag or string and stops that model. Properties
say that it is never set, or only in the ways a listed hazard or finding describes.
Variables called "(history)" in a module's header record what happened so that a
property can name it; a guard reads them only to bound a leak or to end a
behaviour that has gone astray.

Definitions whose names extend a function's name (`sched_cancel_no_run`,
`page_join_unchecked`) are deliberate mistakes. They are used by no specification;
`PROJECT.json` pairs each with the property that must notice it.

## Runs

| Run | Distinct states | What it shows |
|---|---|---|
| `sched` | 314,714 | consistent lists, no failed assertion, no lost thread, FIFO queues, IPL kept per thread, and every runnable thread runs |
| `kmutex` | 184,524 | mutual exclusion, nobody waits for a free mutex, an assertion fails only after a thread became holder without knowing it, refinement of `AbstractMutex`; with plain locks every call is granted |
| `kmutex_eintr` | violation | a cancelled thread gets `-EINTR` and holds the mutex |
| `proc` | 58,232 | the tree stays a tree, pids stay unique, orphans go to init, no exit is overlooked, the system halts; in the monitors of `kmain.c` no missed wakeup, writers alone, no reader passes a waiting writer, all end |
| `proc_reparent` | violation | init sleeps on over an exited child it inherited |
| `memory` | 169,989 | allocators: no block or object has two owners, counters exact, reclaim takes nothing that is in use; page cache: one copy, exact counts, no lost write, no lost wakeup; address space: areas apart, references and translations right but for the named leaks, a failed exec changes nothing |
| `page_cache_vget` | violation | a thread sleeps on a vnode that is no longer busy |
| `page_alloc_tail` | violation | a page without a buddy is joined with memory behind the group |
| `find_range` | violation | `vmmap_find_range` overlooks free ranges |
| `files` | 307,950 | reference and link counts exact on every path of the VFS calls, known panics only; system calls free what they take and set `errno` exactly; no s5 block or inode is free twice; the screen shows the terminal |
| `programs` | 444,258 | malloc's arena has one owner for every piece; the shell's redirections and children; the editor against a sequence of lines and its patterns against what a match is; the linker's bindings; division and formatted text against their definitions |
| `linker_dependencies` | violation | a library that follows a known one in a list of dependencies is not loaded |

The six violations are disagreements between the code and its own comments; the
quoted lines are under `findings` in `PROJECT.json`.

### Bounds and why they are enough

* `sched`, `kmutex`: three threads. Two contend, the third cancels, wakes or
  overtakes; a FIFO violation needs two waiters and a waker. One queue is woken by
  threads only and one by interrupts too; two mutexes let a thread hold one and wait
  for another.
* `proc`: idle, init and pageoutd are fixed, three more give a chain
  parent–child–grandchild for reparenting. `MaxSpawn` (3; 4 in `proc_reparent`) lets
  slots be used again and `PidMax` (6 or 5) makes pids wrap. The monitors take every
  buffer up to 8, up to 4 readers and up to 3 writers.
* `memory`, allocators: four pages in blocks of 1, 2 and 4; one allocator with
  one-page slabs of two objects, one with two-page slabs of one object, and direct
  users. Exhaustion, splitting and joining twice, and reclaim in the middle of
  growing all happen. `page_alloc_tail` takes a fifth page so that the group has a
  tail.
* `memory`, page cache: two users, two vnodes, two files of two pages, two frames.
  With two frames the cache is full as soon as both users hold a page, so the
  daemon must run (`nfreepages_min` 0, `nfreepages_target` 1).
* `memory`, address space: ten pages of two bytes with a stack of two; six objects,
  so that allocation fails within one exec; seven programs chosen for segments that
  share, hide or overlap pages; `MaxResident` (3) bounds
  resident pages: two in one object and one in another, or one in each of three.
* `files`: two processes, two open files, two descriptors each, three inodes, sizes
  up to one page, in four workloads: shared descriptors, an open file that is
  removed, directories that are open or somebody's working directory, and one process
  that links, renames and removes in the whole tree. `MaxLeak` and `MaxGone` bound the
  listed leaks. Two threads, three inodes and seven blocks make the s5 block list grow into a
  second list block and shrink again; two terminals of two by two have four rows.
* `programs`: a heap of four pages of eight words; two command lines, with too many
  redirections and in every order; three lines of which a block holds two; every
  pattern of up to three tokens on every line of up to three characters; four
  modules with the ways they may need each other; division of 8-bit quads
  in digits of two bits; printing of 8-bit integers with every set of flags.
* Deadlock is checked but in `kmutex`, `kmutex_eintr`, `proc` and `proc_reparent`:
  threads may lock in opposite orders, and a machine that has halted or failed an
  assertion stops. Where several systems share a run, those that may stop (page
  cache, address space, system calls, files) have a stuttering disjunct; the
  allocators, the disk and the display must always be able to go on.
* Symmetry is used in `memory` and `files`, which check invariants and step
  properties only.

### Fairness

* `Sched`: the processor executes the instructions of `sched_switch` and a thread
  relinquishes the processor in finite time. Nothing is assumed of interrupts, but
  `RunnableRuns` itself speaks of behaviours in which the processor does not stay
  halted: `sched.c:272` enables interrupts before `intr_wait`, so a wakeup just
  before the halt is acted on only at the next interrupt (listed as a hazard).
* `KMutex`: in addition, a thread that is scheduled again and again ends its
  critical section (strong fairness of unlock).
* `Proc`: devices answer, and every process that is scheduled again and again ends;
  init is strong because it waits again after each exit.
* `KmainTests`: the processor keeps executing; weak fairness of the whole step is
  enough because every thread is on a FIFO queue.

All other specifications assume no fairness and are checked for safety.

## Proofs

All proofs are checked by TLAPS with SMT, Zenon and LS4. They hold for every
value of the constants that meets the assumptions named in the modules, and the
ones below.

* `SchedOpsProofs`: each operator of `SchedOps` preserves `SchedOK` (every queue
  has no duplicates and holds exactly the threads whose `kt_wchan` names it, with the
  matching `kt_state`), and what each returns.
* `SchedProofs`: `TypeCorrect`, `AlwaysConsistent`, `NeverPanics`, `NeverLost`,
  `IplPerThread` and the action property `FirstComeFirstServed`. The invariant adds to `SchedOK` that `curthr` has not exited
  unless it is switching, that a raised IPL means a switch is under way, and that the
  saved IPL of a thread off the processor is the one it chose; without the latter
  `IplIsThreadLocal` is not inductive. First come, first served follows step by
  step from how each call changes each list (`InOrder`): it stays, grows at the end,
  loses its head, is emptied, or loses the sleeper that is cancelled.
* `KMutexProofs`: `MutualExclusion`, `WaitersHaveHolder`, `HandsOffToHead`,
  `PanicsOnlyUnknown` and `RefinesAbstractMutex` for every use; `HolderAlwaysKnows`
  and `NeverPanics` for uses without the race of `kmutex_eintr`. The invariant
  relates three things: a thread on a mutex queue has a pending call for it
  (`Sleepers`), a thread with a pending call that is off the queue was made the
  holder or was cancelled (`Woken`), and a thread told it holds a mutex is
  `km_holder`.
* `PageAllocProofs`: for a group without a tail (`NoTail`: `npages` is a multiple of
  the largest block). `PageAllocSafe` and `JoinsSafe`: free and held blocks never
  overlap or leave the group, bit maps are exact, and every join finds its buddy on
  the free list. Their invariant `IInv` adds to the geometry of blocks what a
  half-finished split or join has already done (`JoinStarted`). `PagesWhole`:
  `page_freecount` is exact at every step, two buddies are never both free between
  calls, and when nothing is held only largest blocks are left. It needs `PInv`:
  besides `IInv`, that a bit is clear where a split is about to set it
  (`SplitClears`), that two free buddies are exactly those the call at work will
  join (`Pairs`), and that every page is in a free or a held block (`Covered`). The
  hypothesis `NoTail` is needed: `page_alloc_tail` shows what happens without it.
* `SlabProofs`: `SlabsUsePages` (every step of the slab layer is a step of the page
  allocator or leaves it alone), from it `SlabPagesSafe`, and `SlabsSafe`: with any
  number of allocators, slab sizes and objects, every object is on the free list of
  its slab or in use and never both, `s_inuse` is exact, an allocator holds exactly
  the pages of its slabs between calls, and a reclaim that comes in the middle of an
  allocation frees no slab in use. The invariant `SInv` says this list by list
  (`ListOK`), object by object (`ObjectOK`) and block by block (`BlocksOK`, with the
  one block that has been allocated and is not yet a slab), and that a half-finished
  split serves the allocator that is growing (`SplitForGoal`).
* `PageCacheProofs`: `WakeupsNotLost`, `FilesCachedOnce` and `BusyExcludes`, for any
  number of users, vnodes, frames, files and pages. The invariant `IInv` describes
  the memory alone (`MemInv`: which lists frames are on, what sleepers wait for) and,
  for each thread, what is still true of the vnode and frame it found before it gave
  up the processor (`LocOK`). The write half of the argument (`WInv`) follows a
  frame whose data the disk does not have through filling, dirtying and cleaning.
* `VnodeProofs`: `CountsExact`, `AssertionsHold` and `WritesNotLost`. `RInv` relates
  `vn_refcount` to holders and resident pages for each vnode (`VnodeOK`), and adds what
  a thread inside vget or vput relies on while it sleeps (`PlaceOK`) and that a busy
  vnode has one owner (`OneOwner`). Assumed: there are finitely many users, and
  queues, vnodes, frames and NULL are different things (`Distinct`).
* `VmmapProofs`: on any address space whose areas are apart, `RemoveKeepsAreas` and
  `RemoveExact` (exactly the pages of the range go), `MapKeepsAreas`, and what
  `vmmap_find_range` really does: `HiloFindsNothing` and `LohiFindsFree`.

Only model-checked:

* liveness under fairness (`RunnableRuns`, `PlainLockGranted`, `SystemHalts`,
  `AllFinish`), which is outside what the prover does;
* what is computed by recursion or folds over data (`S5Lists`, `AddressSpace`,
  `Malloc`, `Ed`, `EdRegex`, `Linker`, `Quad`, `Printf`): the prover has no usable
  induction over data;
* the properties of `Proc`, `KmainTests`, `Files`, `Syscalls`, `Terminal` and `Shell`,
  which have no proofs yet.

## What is not modelled

`PROJECT.json` lists every part with its status. In short:

| Part | Files | Why |
|---|---|---|
| most of s5fs | `fs/s5fs/` | vnode operations, block allocation, reading, writing and directories have no body; the free lists are in `S5Lists` |
| path name walk | `fs/namev.c` | `lookup_name` and `lookup_dirpath` have no body; where a path leads is an input of `Files` |
| `brk`, shadow daemon | `vm/brk.c shadowd.c` | no body; not built |
| pframe_get, pinning | `mm/pframe.c` | no body; pframe_get is modelled from its comment and callers, pinning is not |
| fork after its failing assertion, kthread_clone | `proc/fork.c kthread.c` | cannot be reached; no body |
| line discipline, tty devices, disk and memory devices | `drivers/` | no body for the operations that do something |
| interrupt controller, timers, descriptors, ACPI | `main/` | hardware; the IPL and the halt are in `Sched` |
| start-up functions, utilities, boot loader, kernel shell | `util/`, `boot/`, `test/kshell/` | sequential, run once, or interactive tests |
| other user programs, C library stubs, tests, tools | `user/`, `tools/`, `python/` | fixed sequences of calls; offline |

Left out of modelled parts: exit statuses, stacks and register contents; the bytes
of pages and files; poisoning and red zones; special files; more than one page
group; creation of slab allocators at run time; mounting (switched off in
`Config.mk`). Three places that look dangerous have no property: `pframe.c:153`
(at shutdown the idle process takes whichever child `do_waitpid` returns for the
page-out daemon), `vnode.c:360` (flushing at unmount gives up the processor while it
walks lists that may change) and `fork.c:137` (the thread made by `kthread_create` is
dropped for the one of `kthread_clone`, which has no body).
