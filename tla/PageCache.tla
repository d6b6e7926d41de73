------------------------------ MODULE PageCache ------------------------------
(***************************************************************************)
(* Vnodes (kernel/fs/vnode.c) and their cached pages (kernel/mm/pframe.c)  *)
(* under threads that use files, a thread that syncs and the page-out      *)
(* daemon.                                                                 *)
(*                                                                         *)
(* vnode_t and pframe_t objects are slots of two slabs and are used again. *)
(* A thread runs until it sleeps or waits for the disk: "run.cur" names    *)
(* the thread that is in the middle of such a stretch, and NULL says that  *)
(* any thread may go on.  The order of the run queue is abstracted away.   *)
(* File contents are abstracted to whether a page holds unsaved data.      *)
(***************************************************************************)
EXTENDS Integers, FiniteSets, Sequences, Functions

CONSTANTS User,        \* threads that use files
          Pageoutd,    \* the thread of the page-out daemon
          Vnode,       \* slots of vnode_allocator
          Frame,       \* slots of pframe_allocator, with the pages of memory
          Ino,         \* inode numbers of one file system
          Page,        \* page numbers of a file
          pageoutd_waitq, alloc_waitq,
          nfreepages_min, nfreepages_target,
          NULL

Thread == User \cup {Pageoutd}
Queue == Vnode \cup Frame \cup {pageoutd_waitq, alloc_waitq}

VARIABLES mem,      \* vnodes, page frames, and who sleeps on their queues
          linked,   \* the inodes with a link in the file system
          unsaved,  \* frames whose data the disk does not have
          held,     \* the vnode each user holds a reference to
          run       \* who is in a stretch, and where every thread is

cachevars == <<mem, linked, unsaved, held, run>>

\* vnodes: ino (NULL: a free slot), ref, busy, respages (mmo_respages; its length
\* is vn_nrespages).  frames: obj (NULL: free), page, pbusy, dirty.
Mem ==
  [ino : [Vnode -> Ino \cup {NULL}], ref : [Vnode -> Int],
   busy : [Vnode -> BOOLEAN], respages : [Vnode -> Seq(Frame)],
   obj : [Frame -> Vnode \cup {NULL}], page : [Frame -> Page \cup {NULL}],
   pbusy : [Frame -> BOOLEAN], dirty : [Frame -> BOOLEAN],
   alloc_list : Seq(Frame),
   asleep : [Thread -> Queue \cup {NULL}],
   panic : BOOLEAN]

Location ==
  [at : {"user", "find", "read_vnode", "get", "fill", "dirty", "uncache",
         "delete_vnode", "clean_all", "clean", "pageoutd"},
   v : Vnode \cup {NULL}, f : Frame \cup {NULL}, next : Frame \cup {NULL},
   ino : Ino \cup {NULL}, page : Page \cup {NULL}, forwrite : BOOLEAN]

At(where) ==
  [at |-> where, v |-> NULL, f |-> NULL, next |-> NULL, ino |-> NULL,
   page |-> NULL, forwrite |-> FALSE]

\* Allocated frames, and no others, are on alloc_list, once.
CacheTypeOK ==
  /\ mem \in Mem
  /\ Range(mem.alloc_list) = {f \in Frame : mem.obj[f] # NULL}
  /\ Len(mem.alloc_list) = Cardinality(Range(mem.alloc_list))
  /\ linked \subseteq Ino
  /\ unsaved \subseteq Frame
  /\ held \in [User -> Vnode \cup {NULL}]
  /\ run \in [cur : Thread \cup {NULL}, loc : [Thread -> Location]]

CacheInit ==
  /\ mem = [ino |-> [v \in Vnode |-> NULL], ref |-> [v \in Vnode |-> 0],
            busy |-> [v \in Vnode |-> FALSE], respages |-> [v \in Vnode |-> <<>>],
            obj |-> [f \in Frame |-> NULL], page |-> [f \in Frame |-> NULL],
            pbusy |-> [f \in Frame |-> FALSE], dirty |-> [f \in Frame |-> FALSE],
            alloc_list |-> <<>>,
            asleep |-> [t \in Thread |-> NULL],
            panic |-> FALSE]
  /\ linked = Ino
  /\ unsaved = {}
  /\ held = [t \in User |-> NULL]
  /\ run = [cur |-> NULL,
            loc |-> [t \in Thread |-> At(IF t = Pageoutd THEN "pageoutd" ELSE "user")]]

-----------------------------------------------------------------------------
\* Helpers.

\* list_remove: an object is on such a list at most once.
list_remove(seq, f) ==
  LET k == CHOOSE j \in DOMAIN seq : seq[j] = f
  IN  [j \in 1 .. Len(seq) - 1 |-> IF j < k THEN seq[j] ELSE seq[j + 1]]

nrespages(m, v) == Len(m.respages[v])

page_free_count(m) == Cardinality({f \in Frame : m.obj[f] = NULL})

pageoutd_needed(m) == page_free_count(m) <= nfreepages_min /\ m.alloc_list # <<>>
pageoutd_target_met(m) == page_free_count(m) >= nfreepages_target

Sleep(m, t, q) == [m EXCEPT !.asleep[t] = q]

\* sched_broadcast_on.
Broadcast(m, q) ==
  [m EXCEPT !.asleep = [t \in Thread |-> IF @[t] = q THEN NULL ELSE @[t]]]

Panic(m) == [m EXCEPT !.panic = TRUE]

\* Thread t goes on at loc, alone (Stay) or after others may have run (Leave).
Stay(t, loc) == run' = [cur |-> t, loc |-> [run.loc EXCEPT ![t] = loc]]
Leave(t, loc) == run' = [cur |-> NULL, loc |-> [run.loc EXCEPT ![t] = loc]]

\* Where a thread goes on after the call it made returns.
Caller(t) == At(IF t = Pageoutd THEN "pageoutd" ELSE "user")

Executes(t, where) ==
  /\ ~mem.panic /\ run.cur \in {NULL, t}
  /\ mem.asleep[t] = NULL /\ run.loc[t].at = where

-----------------------------------------------------------------------------
\* pframe.c

\* Mutant: a busy page is not found.
Resident_not_busy(m, v, p) ==
  {f \in Range(m.respages[v]) : m.page[f] = p /\ ~m.pbusy[f]}

Resident(m, v, p) == {f \in Range(m.respages[v]) : m.page[f] = p}

\* pframe_get_resident: the page moves to the back of alloc_list.
pframe_get_resident(m, f) ==
  [m EXCEPT !.alloc_list = Append(list_remove(@, f), f)]

\* pframe_alloc of frame f; mmo_ops->ref is vref.
pframe_alloc(m, f, v, p) ==
  [m EXCEPT !.alloc_list = Append(@, f),
            !.obj[f] = v, !.page[f] = p, !.pbusy[f] = FALSE, !.dirty[f] = FALSE,
            !.respages[v] = <<f>> \o @,
            !.ref[v] = @ + 1]

set_busy(m, f) == [m EXCEPT !.pbusy[f] = TRUE]

\* Mutant: the sleepers are not woken.
clear_busy_no_broadcast(m, f) == [m EXCEPT !.pbusy[f] = FALSE]

clear_busy(m, f) == Broadcast([m EXCEPT !.pbusy[f] = FALSE], f)

\* pframe_free up to the call of mmo_ops->put.
Uncached(m, f) ==
  [m EXCEPT !.alloc_list = list_remove(@, f),
            !.obj[f] = NULL, !.page[f] = NULL, !.dirty[f] = FALSE,
            !.respages[m.obj[f]] = list_remove(@, f)]

\* Unsaved data survives unless its page is written or its file is gone.
StillUnsaved(f) == IF mem.ino[mem.obj[f]] \in linked THEN unsaved ELSE unsaved \ {f}

\* pframe_clean up to the call of cleanpage.
CleanStarts(m, f) ==
  set_busy([m EXCEPT !.dirty[f] = FALSE], f)

-----------------------------------------------------------------------------
\* vnode.c

VputAsserts(m, v) == nrespages(m, v) < m.ref[v] /\ ~m.busy[v]

\* The last lines of vput, for thread t in memory m: drop the reference, and
\* take the vnode away when it was the last one.
DropReference(t, m, v) ==
  LET dropped == [m EXCEPT !.ref[v] = @ - 1]
  IN  /\ held' = [u \in User |-> IF u = t THEN NULL ELSE held[u]]
      /\ \/ /\ dropped.ref[v] > 0
            /\ mem' = dropped
            /\ IF t = Pageoutd THEN Stay(t, Caller(t)) ELSE Leave(t, Caller(t))
         \/ /\ dropped.ref[v] <= 0
            /\ mem' = IF dropped.ref[v] = 0 /\ nrespages(m, v) = 0
                      THEN [dropped EXCEPT !.busy[v] = TRUE]
                      ELSE Panic(dropped)
            /\ Leave(t, [At("delete_vnode") EXCEPT !.v = v])

\* One turn of the loop over mmo_respages in vput, at frame f (NULL: the end).
\* The macro reads the following link before the body.
Uncache(v, f, m) ==
  [At("uncache") EXCEPT !.v = v, !.f = f,
     !.next = IF f = NULL \/ f = m.respages[v][nrespages(m, v)] THEN NULL
              ELSE m.respages[v][1 + CHOOSE k \in DOMAIN m.respages[v] :
                                       m.respages[v][k] = f]]

\* vput by thread t in memory m.
vput(t, m, v) ==
  \/ /\ ~VputAsserts(m, v)
     /\ mem' = Panic(m)
     /\ UNCHANGED <<run, held>>
  \/ /\ VputAsserts(m, v)
     /\ nrespages(m, v) = m.ref[v] - 1 /\ m.ino[v] \notin linked
     /\ mem' = m
     /\ Stay(t, Uncache(v, IF m.respages[v] = <<>> THEN NULL
                           ELSE Head(m.respages[v]), m))
     /\ UNCHANGED held
  \/ /\ VputAsserts(m, v)
     /\ nrespages(m, v) # m.ref[v] - 1 \/ m.ino[v] \in linked
     /\ DropReference(t, m, v)

\* The body of that loop.  If the frame was freed while the thread slept, the
\* assertion of pframe_free fails, or a page of another file is freed: the
\* model stops in both cases.  The nested vput finds the reference of the
\* outer one and only counts down.
UncachePages(t) ==
  /\ Executes(t, "uncache")
  /\ LET l == run.loc[t]
         freed == [Uncached(mem, l.f) EXCEPT !.ref[l.v] = @ - 1]
     IN  \/ /\ l.f = NULL
            /\ IF nrespages(mem, l.v) = 0 /\ mem.ref[l.v] = 1
               THEN DropReference(t, mem, l.v)
               ELSE mem' = Panic(mem) /\ UNCHANGED <<run, held>>
            /\ UNCHANGED unsaved
         \/ /\ l.f # NULL /\ mem.obj[l.f] # l.v
            /\ mem' = Panic(mem)
            /\ UNCHANGED <<run, held, unsaved>>
         \/ /\ l.f # NULL /\ mem.obj[l.f] = l.v /\ mem.pbusy[l.f]
            /\ mem' = Sleep(mem, t, l.f)
            /\ Leave(t, l)
            /\ UNCHANGED <<held, unsaved>>
         \/ /\ l.f # NULL /\ mem.obj[l.f] = l.v /\ ~mem.pbusy[l.f]
            /\ unsaved' = StillUnsaved(l.f)
            /\ mem' = IF VputAsserts(Uncached(mem, l.f), l.v) THEN freed
                      ELSE Panic(mem)
            /\ Stay(t, IF l.next \in Range(freed.respages[l.v]) \cup {NULL}
                       THEN Uncache(l.v, l.next, freed)
                       ELSE [At("uncache") EXCEPT !.v = l.v, !.f = l.next])
            /\ UNCHANGED held
  /\ UNCHANGED linked

\* delete_vnode has returned: wake who waits for the vnode and free it.
VputEnds(t) ==
  /\ Executes(t, "delete_vnode")
  /\ LET v == run.loc[t].v
     IN  mem' = [Broadcast(mem, v) EXCEPT !.ino[v] = NULL, !.busy[v] = FALSE]
  /\ IF t = Pageoutd THEN Stay(t, Caller(t)) ELSE Leave(t, Caller(t))
  /\ UNCHANGED <<linked, unsaved, held>>

\* Mutant: vget does not look at VN_BUSY.
Find_no_wait(t, i) ==
  LET inuse == {v \in Vnode : mem.ino[v] = i}
  IN  \/ \E v \in inuse :
           /\ mem' = IF mem.ref[v] > 0 THEN [mem EXCEPT !.ref[v] = @ + 1]
                     ELSE Panic(mem)
           /\ held' = [held EXCEPT ![t] = v]
           /\ Leave(t, At("user"))
      \/ /\ inuse = {}
         /\ \E v \in Vnode :
              /\ mem.ino[v] = NULL
              /\ mem' = [mem EXCEPT !.ino[v] = i, !.busy[v] = TRUE]
              /\ Leave(t, [At("read_vnode") EXCEPT !.v = v])
         /\ UNCHANGED held

\* The loop of vget, entered at the call and again after a sleep.  When no
\* memory is left the thread yields and tries again.
Find(t, i) ==
  LET inuse == {v \in Vnode : mem.ino[v] = i}
  IN  \/ \E v \in inuse :
           /\ mem.busy[v]
           /\ mem' = Sleep(mem, t, v)
           /\ Leave(t, [At("find") EXCEPT !.ino = i])
           /\ UNCHANGED held
      \/ \E v \in inuse :
           /\ ~mem.busy[v]
           /\ mem' = IF mem.ref[v] > 0 THEN [mem EXCEPT !.ref[v] = @ + 1]
                     ELSE Panic(mem)
           /\ held' = [held EXCEPT ![t] = v]
           /\ Leave(t, At("user"))
      \/ /\ inuse = {}
         /\ \E v \in Vnode :
              /\ mem.ino[v] = NULL
              /\ mem' = [mem EXCEPT !.ino[v] = i, !.busy[v] = TRUE]
              /\ Leave(t, [At("read_vnode") EXCEPT !.v = v])
         /\ UNCHANGED held

vget(t, i) ==
  /\ Executes(t, "user") /\ held[t] = NULL /\ i \in linked
  /\ Find(t, i)
  /\ UNCHANGED <<linked, unsaved>>

VgetAgain(t) ==
  /\ Executes(t, "find")
  /\ Find(t, run.loc[t].ino)
  /\ UNCHANGED <<linked, unsaved>>

\* read_vnode has returned.  The threads on vn_waitq are not woken.
VgetEnds(t) ==
  /\ Executes(t, "read_vnode")
  /\ LET v == run.loc[t].v
     IN  /\ mem' = [mem EXCEPT !.busy[v] = FALSE, !.ref[v] = 1]
         /\ held' = [held EXCEPT ![t] = v]
  /\ Leave(t, At("user"))
  /\ UNCHANGED <<linked, unsaved>>

\* A user is done with its file.
Release(t) ==
  /\ Executes(t, "user") /\ held[t] # NULL
  /\ vput(t, mem, held[t])
  /\ UNCHANGED <<linked, unsaved>>

-----------------------------------------------------------------------------
\* Reading and writing pages.

\* pframe_get of page p of the file t holds, as its comment tells it (the body
\* is linked from a library), and pframe_dirty for a write; the memory object
\* operations fillpage and dirtypage may block.
Get(t, p, w) ==
  LET v == held[t]
      again == [At("get") EXCEPT !.page = p, !.forwrite = w]
      on(where, f) == [At(where) EXCEPT !.f = f, !.forwrite = w]
  IN  \/ \E f \in Resident(mem, v, p) :
           LET m == pframe_get_resident(mem, f)
           IN  \/ /\ mem.pbusy[f]
                  /\ mem' = Sleep(m, t, f)
                  /\ Leave(t, again)
               \/ /\ ~mem.pbusy[f] /\ ~w
                  /\ mem' = m
                  /\ Leave(t, At("user"))
               \/ /\ ~mem.pbusy[f] /\ w
                  /\ mem' = set_busy(m, f)
                  /\ Leave(t, on("dirty", f))
      \/ /\ Resident(mem, v, p) = {} /\ pageoutd_needed(mem)
         /\ mem' = Sleep(Broadcast(mem, pageoutd_waitq), t, alloc_waitq)
         /\ Leave(t, again)
      \/ /\ Resident(mem, v, p) = {} /\ ~pageoutd_needed(mem)
         /\ \E f \in Frame :
              /\ mem.obj[f] = NULL
              /\ mem' = set_busy(pframe_alloc(mem, f, v, p), f)
              /\ Leave(t, on("fill", f))

pframe_get(t, p, w) ==
  /\ Executes(t, "user") /\ held[t] # NULL
  /\ Get(t, p, w)
  /\ UNCHANGED <<linked, unsaved, held>>

GetAgain(t) ==
  /\ Executes(t, "get")
  /\ Get(t, run.loc[t].page, run.loc[t].forwrite)
  /\ UNCHANGED <<linked, unsaved, held>>

\* fillpage has returned.
pframe_fill(t) ==
  /\ Executes(t, "fill")
  /\ LET l == run.loc[t]
         m == clear_busy(mem, l.f)
     IN  /\ mem' = IF l.forwrite THEN set_busy(m, l.f) ELSE m
         /\ Leave(t, IF l.forwrite THEN [l EXCEPT !.at = "dirty"] ELSE At("user"))
  /\ UNCHANGED <<linked, unsaved, held>>

\* dirtypage has returned, with or without an error.
pframe_dirty(t) ==
  /\ Executes(t, "dirty")
  /\ LET f == run.loc[t].f
     IN  \/ /\ mem' = clear_busy([mem EXCEPT !.dirty[f] = TRUE], f)
            /\ unsaved' = unsaved \cup {f}
         \/ /\ mem' = clear_busy(mem, f)
            /\ UNCHANGED unsaved
  /\ Leave(t, At("user"))
  /\ UNCHANGED <<linked, held>>

-----------------------------------------------------------------------------
\* Writing pages back.

\* The first page of alloc_list that is busy or dirty.
ToClean ==
  LET todo(k) == mem.pbusy[mem.alloc_list[k]] \/ mem.dirty[mem.alloc_list[k]]
      first(k) == todo(k) /\ \A j \in 1 .. k - 1 : ~todo(j)
  IN  {mem.alloc_list[k] : k \in {k \in DOMAIN mem.alloc_list : first(k)}}

\* One turn of pframe_clean_all, from list_start.
CleanAll(t) ==
  \/ /\ ToClean = {}
     /\ Leave(t, At("user"))
     /\ UNCHANGED mem
  \/ \E f \in ToClean :
       /\ mem.pbusy[f]
       /\ mem' = Sleep(mem, t, f)
       /\ Leave(t, At("clean_all"))
  \/ \E f \in ToClean :
       /\ ~mem.pbusy[f]
       /\ mem' = CleanStarts(mem, f)
       /\ Leave(t, [At("clean") EXCEPT !.f = f])

pframe_clean_all(t) ==
  /\ Executes(t, "user")
  /\ CleanAll(t)
  /\ UNCHANGED <<linked, unsaved, held>>

CleanAllAgain(t) ==
  /\ Executes(t, "clean_all")
  /\ CleanAll(t)
  /\ UNCHANGED <<linked, unsaved, held>>

\* Mutant: a page that could not be written stays clean.
pframe_clean_once(t) ==
  /\ Executes(t, "clean")
  /\ mem' = clear_busy(mem, run.loc[t].f)
  /\ unsaved' \in {unsaved, unsaved \ {run.loc[t].f}}
  /\ Stay(t, At(IF t = Pageoutd THEN "pageoutd" ELSE "clean_all"))
  /\ UNCHANGED <<linked, held>>

\* cleanpage has returned, with or without an error.
pframe_clean(t) ==
  /\ Executes(t, "clean")
  /\ LET f == run.loc[t].f
     IN  \/ /\ mem' = clear_busy(mem, f)
            /\ unsaved' = unsaved \ {f}
         \/ /\ mem' = clear_busy([mem EXCEPT !.dirty[f] = TRUE], f)
            /\ UNCHANGED unsaved
  /\ Stay(t, At(IF t = Pageoutd THEN "pageoutd" ELSE "clean_all"))
  /\ UNCHANGED <<linked, held>>

\* pageoutd_run with nothing to do: release the threads that wait for memory
\* and sleep.

PageoutSleeps ==
  /\ mem' = Sleep(Broadcast(mem, alloc_waitq), Pageoutd, pageoutd_waitq)
  /\ Leave(Pageoutd, At("pageoutd"))

\* With work to do it takes the least recently requested page, f.
PageoutPage(f) ==
  \/ /\ mem.pbusy[f]
     /\ mem' = Sleep(mem, Pageoutd, f)
     /\ Leave(Pageoutd, At("pageoutd"))
     /\ UNCHANGED <<held, unsaved>>
  \/ /\ ~mem.pbusy[f] /\ mem.dirty[f]
     /\ mem' = CleanStarts(mem, f)
     /\ Leave(Pageoutd, [At("clean") EXCEPT !.f = f])
     /\ UNCHANGED <<held, unsaved>>
  \/ /\ ~mem.pbusy[f] /\ ~mem.dirty[f]
     /\ unsaved' = StillUnsaved(f)
     /\ vput(Pageoutd, Uncached(mem, f), mem.obj[f])

pageoutd_run ==
  /\ Executes(Pageoutd, "pageoutd")
  /\ IF pageoutd_target_met(mem) \/ mem.alloc_list = <<>>
     THEN PageoutSleeps /\ UNCHANGED <<held, unsaved>>
     ELSE PageoutPage(Head(mem.alloc_list))
  /\ UNCHANGED linked

-----------------------------------------------------------------------------
\* The file system: a file somebody has open loses its last link; an inode
\* nobody uses becomes a new file.
Unlink(t) ==
  /\ Executes(t, "user") /\ held[t] # NULL /\ mem.ino[held[t]] \in linked
  /\ linked' = linked \ {mem.ino[held[t]]}
  /\ UNCHANGED <<mem, unsaved, held, run>>

Create(i) ==
  /\ ~mem.panic /\ run.cur = NULL
  /\ i \notin linked /\ i \notin Range(mem.ino)
  /\ linked' = linked \cup {i}
  /\ UNCHANGED <<mem, unsaved, held, run>>

CacheNext ==
  \/ \E t \in User :
       \/ \E i \in Ino : vget(t, i)
       \/ VgetAgain(t) \/ VgetEnds(t) \/ Release(t)
       \/ \E p \in Page, w \in BOOLEAN : pframe_get(t, p, w)
       \/ GetAgain(t) \/ pframe_fill(t) \/ pframe_dirty(t)
       \/ pframe_clean_all(t) \/ CleanAllAgain(t)
       \/ Unlink(t)
  \/ \E t \in Thread : UncachePages(t) \/ VputEnds(t) \/ pframe_clean(t)
  \/ pageoutd_run
  \/ \E i \in Ino : Create(i)

CacheSpec == CacheInit /\ [][CacheNext]_cachevars

-----------------------------------------------------------------------------
(***************************************************************************)
(* Properties.                                                             *)
(***************************************************************************)

\* No assertion of vnode.c or pframe.c fails, but for the ones vput meets while
\* it uncaches the pages of an unlinked file (vnode.c:262).
PanicsOnlyInUncache == mem.panic => \E t \in Thread : run.loc[t].at = "uncache"

\* A file has one vnode and a page of it one frame, whoever brings it in.
OneCopy ==
  /\ \A v, u \in Vnode : mem.ino[v] # NULL /\ mem.ino[v] = mem.ino[u] => v = u
  /\ \A f, g \in Frame :
       mem.obj[f] # NULL /\ mem.obj[f] = mem.obj[g] /\ mem.page[f] = mem.page[g] => f = g

\* vnode.h "vn_refcount ... counts every memory reference to the relevant
\* vnode": one for every user that holds it and one for every resident page,
\* and a free slot has none.
RefsCounted ==
  \A v \in Vnode :
    /\ mem.ref[v] = nrespages(mem, v) + Cardinality({t \in User : held[t] = v})
    /\ mem.ino[v] = NULL => mem.ref[v] = 0
    /\ Range(mem.respages[v]) = {f \in Frame : mem.obj[f] = v}

\* A write is not lost: data the disk does not have is in a resident page that
\* is dirty or being written, unless the file is gone (pframe.c:434).
NoLostWrite ==
  \A f \in unsaved : mem.obj[f] # NULL /\ (mem.dirty[f] \/ mem.pbusy[f])

\* Nobody sleeps on the queue of a page that is not busy, nor on a free one.
PageSleepersBehindBusy ==
  \A t \in Thread : mem.asleep[t] \in Frame =>
    mem.obj[mem.asleep[t]] # NULL /\ mem.pbusy[mem.asleep[t]]

\* A thread waits for memory only while the page-out daemon is at work.
MemoryWaitersServed ==
  (\E t \in User : mem.asleep[t] = alloc_waitq) =>
    mem.asleep[Pageoutd] # pageoutd_waitq

\* Nobody sleeps on a page that is not busy, and nobody waits for memory while
\* the page-out daemon sleeps (pframe.c:509, :606).
NoLostWakeup == PageSleepersBehindBusy /\ MemoryWaitersServed

\* A page that is read, written or made dirty has one thread at work on it, and
\* stays resident and busy until that thread is done.
AtWork(t) == run.loc[t].at \in {"fill", "dirty", "clean"}

OneWorker ==
  \A t \in Thread : AtWork(t) =>
    /\ mem.obj[run.loc[t].f] # NULL /\ mem.pbusy[run.loc[t].f]
    /\ \A u \in Thread : AtWork(u) /\ run.loc[u].f = run.loc[t].f => u = t

\* A file has one vnode and a page of it one frame, whoever brings it in, and at
\* most one thread at work on it; and vn_refcount is one for every user that
\* holds the vnode and one for every resident page (vnode.c:122, pframe.c:488).
CacheExact == OneCopy /\ OneWorker /\ RefsCounted

\* vnode.h:253 "queue of threads waiting for vnode to become not busy".
VnodeSleepersBehindBusy ==
  \A t \in Thread : mem.asleep[t] \in Vnode => mem.busy[mem.asleep[t]]
=============================================================================
