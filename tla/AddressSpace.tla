---------------------------- MODULE AddressSpace ----------------------------
(***************************************************************************)
(* The user memory of one process: its areas (vm/vmmap.c), the memory      *)
(* objects behind them (vm/anon.c, vm/shadow.c), page faults               *)
(* (vm/pagefault.c), the page table (mm/pagetable.c), and the ELF loader   *)
(* that fills an address space (api/elf32.c).                              *)
(*                                                                         *)
(* The kernel runs these operations without giving up the processor, so    *)
(* each is one step.  The state is one record s:                           *)
(*   m      the areas of curproc->p_vmmap                                  *)
(*   new    the areas of the map the loader is building ({} outside it)    *)
(*   obj    the memory objects: ops, refcount, resident pages, and whether *)
(*          the object shadows the program's vnode                         *)
(*   vn     the vnode's own object: its references and resident pages      *)
(*   pt     the user page table: page -> <<object, page of the object>>    *)
(*   lost   per object, the references vmmap_remove forgot (history)       *)
(*   split  whether an area was ever split, which takes no reference on    *)
(*          the vnode (history)                                            *)
(*   alive  whether there is a process                                     *)
(*   panic  "" or what ended the kernel: an assertion, or a step whose     *)
(*          effect C leaves undefined                                      *)
(* pframe_get is not written in the source; it is modelled from its uses,  *)
(* and so is the mmap operation of a file system.                          *)
(***************************************************************************)
EXTENDS Vmmap, FiniteSets, FiniteSetsExt, SequencesExt

CONSTANTS
  Obj,          \* the memory objects the slab allocators can give out
  PAGE_SIZE,
  StackPages,   \* DEFAULT_STACK_SIZE in pages
  Binary,       \* the programs: [segs : Seq(segment), interp : number of pages]
  ArgSize,      \* sizes of the argument block
  MaxResident,  \* bound: no page is touched when so many are resident
  NULL

VARIABLE s

ADDR_TO_PN(addr) == addr \div PAGE_SIZE
PAGE_OFFSET(addr) == addr % PAGE_SIZE
UserPages == USER_MEM_LOW .. USER_MEM_HIGH - 1
FIXED == "MAP_PRIVATE|MAP_FIXED"

Panic(t, why) == [t EXCEPT !.panic = IF t.panic = "" THEN why ELSE t.panic]
OK == "0"
Ret(t, r) == [t |-> t, r |-> r]

Areas(t, o) == {a \in t.m \cup t.new : a.vma_obj = o}
FileAreas(t) == {a \in t.m \cup t.new : a.vma_obj # NULL /\ t.obj[a.vma_obj].shadowed}

-----------------------------------------------------------------------------
\* Memory objects.  An unused slot is NoObj.

NoObj == [ops |-> "free", ref |-> 0, res |-> {}, shadowed |-> FALSE]

\* anon_create, shadow_create: an object with one reference, or NULL.
anon_create(t, o) == [t EXCEPT !.obj[o] = [ops |-> "anon", ref |-> 1, res |-> {}, shadowed |-> FALSE]]
shadow_create(t, o) == [t EXCEPT !.obj[o] = [ops |-> "shadow", ref |-> 1, res |-> {}, shadowed |-> FALSE]]
FreeObj(t) == {o \in Obj : t.obj[o].ops = "free"}

anon_ref(t, o) == IF t.obj[o].ref > 0 THEN [t EXCEPT !.obj[o].ref = @ + 1] ELSE Panic(t, "anon_ref")

\* A page of the vnode: pframe_get on a vnode object keeps a reference per page.
vnode_page(t, n) ==
  IF n \in t.vn.res THEN t ELSE [t EXCEPT !.vn.res = @ \cup {n}, !.vn.ref = @ + 1]

\* shadow_fillpage: the page below is looked up (shadow_lookuppage) and copied;
\* an object that shadows nothing gives it a null pointer to follow.
shadow_fillpage(t, o, n) ==
  IF t.obj[o].shadowed THEN vnode_page(t, n) ELSE Panic(t, "shadow_fillpage")

\* pframe_get: a page that is not resident is filled, and holds a reference on
\* its object.
pframe_get(t, o, n) ==
  IF o = NULL THEN Panic(t, "area without object")
  ELSE IF n \in t.obj[o].res THEN t
  ELSE LET f == IF t.obj[o].ops = "shadow" THEN shadow_fillpage(t, o, n) ELSE t
       IN [f EXCEPT !.obj[o].res = @ \cup {n}, !.obj[o].ref = @ + 1]

\* anon_put: with one reference more than pages, each page is unpinned and
\* freed, which drops the page's reference.  An object without references is
\* freed by a null pointer.
anon_put(t, o) ==
  LET ob == t.obj[o]
      n == Cardinality(ob.res)
      last == n = ob.ref - 1
      left == (IF last THEN ob.ref - n ELSE ob.ref) - 1
  IN IF ob.ref <= 0 THEN Panic(t, "anon_put")
     ELSE IF left = 0 THEN Panic(t, "anon_put frees NULL")
     ELSE [t EXCEPT !.obj[o].ref = left, !.obj[o].res = IF last THEN {} ELSE @]

\* shadow_put: its pages are dirty since shadow_fillpage, so they are cleaned
\* and not freed, and shadow_cleanpage copies a page over page frame structures.
shadow_put(t, o) ==
  LET ob == t.obj[o]
      n == Cardinality(ob.res)
  IN IF ob.ref <= 0 THEN Panic(t, "shadow_put")
     ELSE IF n > 0 /\ n = ob.ref - 1 THEN Panic(t, "shadow_cleanpage")
     ELSE IF ob.ref = 1 THEN [t EXCEPT !.obj[o] = NoObj]
     ELSE [t EXCEPT !.obj[o].ref = @ - 1]

-----------------------------------------------------------------------------
\* Mutant: the pages asked for are not unmapped first.
UnmapNothing(t, lopage, npages) == t

\* vmmap_remove on the map being built: a split area's object gets a reference,
\* a removed area's object keeps the one the area held.
Unmap(t, lopage, npages) ==
  LET cut(k) == {a \in t.new : Cardinality(Cut(a, lopage, npages)) = k}
      split(o) == Cardinality({a \in cut(2) : a.vma_obj = o})
  IN [t EXCEPT !.new = vmmap_remove(@, lopage, npages),
               !.obj = [o \in Obj |-> [@[o] EXCEPT !.ref = @ + split(o)]],
               !.split = @ \/ cut(2) # {},
               !.lost = [o \in Obj |-> @[o] + Cardinality({a \in cut(0) : a.vma_obj = o})]]

\* vmmap_map at a given page of the map being built.  A file is mapped through
\* a shadow object of its vnode; the loader's flags are not MAP_PRIVATE alone,
\* so other areas get an anonymous object, with a second reference.  Without an
\* object the area stays in the list: for a file that still is a success.
WithObject(t, o, file, flags) ==
  IF file THEN Ret([shadow_create(t, o) EXCEPT !.obj[o].shadowed = TRUE, !.vn.ref = @ + 1], OK)
  ELSE IF flags # "MAP_PRIVATE" THEN Ret(anon_ref(anon_create(t, o), o), OK)
  ELSE Ret([shadow_create(t, o) EXCEPT !.obj[o].ref = @ + 1], OK)
Placed(t, a, file) ==
  LET o == CHOOSE x \in FreeObj(t) : TRUE
  IN IF FreeObj(t) = {} THEN Ret([t EXCEPT !.new = vmmap_insert(@, a)], IF file THEN OK ELSE "-1")
     ELSE WithObject([t EXCEPT !.new = vmmap_insert(@, [a EXCEPT !.vma_obj = o])], o, file, a.vma_flags)
vmmap_map(t, file, lopage, npages, prot, flags, off) ==
  IF ~RangeOK(lopage, npages) THEN Ret(Panic(t, "vmmap_is_range_empty"), OK)
  ELSE Placed(IF vmmap_is_range_empty(t.new, lopage, npages) THEN t ELSE Unmap(t, lopage, npages),
              [vma_start |-> lopage, vma_end |-> lopage + npages, vma_off |-> off,
               vma_prot |-> prot, vma_flags |-> flags, vma_obj |-> NULL], file)

\* vmmap_destroy, area by area: a file's vnode is put first.  The bottom object
\* of an anonymous object is read from its list of areas; the pointer found
\* there, read as a reference count, is negative, so nothing is put.
DestroyArea(t, a) ==
  IF t.panic # "" THEN t
  ELSE IF a.vma_obj = NULL THEN Panic(t, "area without object")
  ELSE LET o == a.vma_obj
           v == IF t.obj[o].shadowed /\ Cardinality(t.vn.res) < t.vn.ref THEN [t EXCEPT !.vn.ref = @ - 1] ELSE t
       IN IF t.obj[o].ops = "shadow" THEN shadow_put(v, o) ELSE anon_put(v, o)

InOrder(m) == SetToSortSeq(m, LAMBDA a, b : a.vma_start < b.vma_start)
vmmap_destroy(t, m) == FoldLeft(DestroyArea, t, InOrder(m))

\* vmmap_clone copies the areas and leaves their objects unset.
vmmap_clone(m) == {[a EXCEPT !.vma_obj = NULL] : a \in m}

\* vmmap_read, vmmap_write: page by page, by page number.  A count of more than
\* a page is copied past the end of the first frame.
Copied(t, count) == IF count > PAGE_SIZE THEN Panic(t, "memcpy past the frame") ELSE t
vmmap_write(t, m, vfn, count) ==
  LET a == vmmap_lookup(m, vfn)
  IN IF a = {} THEN Ret(t, "EFAULT")
     ELSE Ret(Copied(pframe_get(t, (CHOOSE x \in a : TRUE).vma_obj, vfn), count), OK)

-----------------------------------------------------------------------------
\* The page table.

NoTable == [v \in UserPages |-> NULL]

pt_map(t, v, o, n) == [t EXCEPT !.pt[v] = <<o, n>>]

\* pt_unmap_range asserts that the range is not empty and in user memory.
pt_unmap_range(t, vlow, vhigh) ==
  IF vlow < vhigh /\ USER_MEM_LOW <= vlow /\ vhigh <= USER_MEM_HIGH
  THEN [t EXCEPT !.pt = [v \in UserPages |-> IF vlow <= v /\ v < vhigh THEN NULL ELSE @[v]]]
  ELSE Panic(t, "pt_unmap_range")

-----------------------------------------------------------------------------
\* The ELF loader.  A segment is [p_vaddr, p_offset, p_filesz, p_memsz, p_align,
\* p_flags]; addresses are in bytes.

BadHeader(seg, addr) ==
  \/ seg.p_align # PAGE_SIZE
  \/ seg.p_filesz > seg.p_memsz
  \/ PAGE_OFFSET(addr) # PAGE_OFFSET(seg.p_offset)

Stuck(r) == r.t.panic # "" \/ r.r # OK

\* The part of a segment that comes from the file.
MapFromFile(t, seg, lo, n) ==
  IF seg.p_filesz = 0 THEN Ret(t, OK)
  ELSE IF ~RangeOK(lo, n) THEN Ret(Panic(t, "vmmap_is_range_empty"), OK)
  ELSE IF ~vmmap_is_range_empty(t.new, lo, n) THEN Ret(t, "ENOEXEC")
  ELSE vmmap_map(t, TRUE, lo, n, seg.p_flags, FIXED, ADDR_TO_PN(seg.p_offset))

\* The rest of it is anonymous.  It may share its first page with the part from
\* the file, which is then read again and written into the anonymous area.
ReadAgain(r, seg, end) ==
  IF Stuck(r) \/ PAGE_OFFSET(end) = 0 \/ seg.p_filesz = 0 THEN r
  ELSE vmmap_write(r.t, r.t.new, ADDR_TO_PN(end), PAGE_OFFSET(end))
MapZeroes(t, seg, end, lo, n) ==
  IF seg.p_memsz = seg.p_filesz THEN Ret(t, OK)
  ELSE IF n > 1 /\ ~RangeOK(lo + 1, n - 1) THEN Ret(Panic(t, "vmmap_is_range_empty"), OK)
  ELSE IF n > 1 /\ ~vmmap_is_range_empty(t.new, lo + 1, n - 1) THEN Ret(t, "ENOEXEC")
  ELSE ReadAgain(vmmap_map(t, FALSE, lo, n, seg.p_flags, FIXED, 0), seg, end)

ThenZeroes(r, seg, addr) ==
  LET end == addr + seg.p_filesz
  IN IF Stuck(r) THEN r
     ELSE MapZeroes(r.t, seg, end, ADDR_TO_PN(end), ADDR_TO_PN(addr + seg.p_memsz + PAGE_SIZE - 1) - ADDR_TO_PN(end))
_elf32_map_segment(t, memoff, seg) ==
  LET addr == seg.p_vaddr + memoff * PAGE_SIZE
      lo == ADDR_TO_PN(addr)
  IN IF BadHeader(seg, addr) THEN Ret(t, "ENOEXEC")
     ELSE ThenZeroes(MapFromFile(t, seg, lo, ADDR_TO_PN(addr + seg.p_filesz - 1) - lo + 1), seg, addr)

\* The first segment that fails ends the loop; there must be a segment.
_elf32_map_progsegs(t, segs, memoff) ==
  LET step(r, seg) == IF Stuck(r) THEN r ELSE _elf32_map_segment(r.t, memoff, seg)
  IN IF segs = <<>> THEN Ret(t, "ENOEXEC") ELSE FoldLeft(step, Ret(t, OK), segs)

_elf32_calc_progbounds(segs) ==
  [low |-> Min({segs[i].p_vaddr : i \in DOMAIN segs}),
   high |-> Max({segs[i].p_vaddr + segs[i].p_memsz : i \in DOMAIN segs})]

\* A program with an interpreter needs room for it: the highest range next to
\* an area.
InterpreterAt(t, bin, base) ==
  IF base = PANIC THEN Ret(Panic(t, "vmmap_is_range_empty"), OK)
  ELSE IF base = NOT_FOUND THEN Ret(t, "ENOMEM")
  ELSE _elf32_map_progsegs(t, bin.segs, base - ADDR_TO_PN(_elf32_calc_progbounds(bin.segs).low))
MapInterpreter(t, bin) ==
  IF bin.interp = 0 THEN Ret(t, OK) ELSE InterpreterAt(t, bin, vmmap_find_range(t.new, bin.interp, "HILO"))

\* The stack lies right below the program, with a page more than its size.
StackMapped(r) == IF r.t.panic # "" \/ r.r = OK THEN r ELSE Ret(Panic(r.t, "stack"), OK)
MapStack(t, low) ==
  StackMapped(vmmap_map(t, FALSE, ADDR_TO_PN(low) - StackPages - 1, StackPages + 1, {"R", "W"}, FIXED, 0))

\* _elf32_load_args asserts that the arguments could be written.
ArgsWritten(w) == IF w.r = OK THEN w.t ELSE Panic(w.t, "_elf32_load_args")
_elf32_load_args(t, low, argsize) == ArgsWritten(vmmap_write(t, t.new, ADDR_TO_PN(low - argsize), argsize))

\* Mutant: the page table is flushed on every way out.
LoadFailsFlushed(t) ==
  [vmmap_destroy(pt_unmap_range(t, USER_MEM_LOW, USER_MEM_HIGH), t.new) EXCEPT !.new = {}]

\* Mutant: the map is destroyed where the load fails, and again at done.
LoadFailsTwice(t) == [vmmap_destroy(vmmap_destroy(t, t.new), t.new) EXCEPT !.new = {}]

\* done: the map left in "map" is destroyed: the new one after a failure.
LoadFails(t) == [vmmap_destroy(t, t.new) EXCEPT !.new = {}]

\* Mutant: the translations of the old address space stay.
SwapMapsUnflushed(t) == [vmmap_destroy([t EXCEPT !.m = t.new], t.m) EXCEPT !.new = {}]

\* The new map takes the place of the old one, whose translations and areas go.
SwapMaps(t) ==
  [vmmap_destroy(pt_unmap_range([t EXCEPT !.m = t.new, !.new = t.m], USER_MEM_LOW, USER_MEM_HIGH), t.m) EXCEPT !.new = {}]

\* _elf32_load, step by step: the segments, the interpreter, the stack, the
\* arguments and the exchange of the maps.
ThenSwap(t) == IF t.panic # "" THEN t ELSE SwapMaps(t)
ThenArgs(r, low, argsize) ==
  IF r.t.panic # "" THEN r.t
  ELSE IF argsize >= StackPages * PAGE_SIZE THEN LoadFails(r.t)
  ELSE ThenSwap(_elf32_load_args(r.t, low, argsize))
ThenStack(r, low, argsize) ==
  IF r.t.panic # "" THEN r.t
  ELSE IF r.r # OK THEN LoadFails(r.t) ELSE ThenArgs(MapStack(r.t, low), low, argsize)
ThenInterpreter(r, bin, argsize) ==
  IF r.t.panic # "" THEN r.t
  ELSE IF r.r # OK THEN LoadFails(r.t)
  ELSE ThenStack(MapInterpreter(r.t, bin), _elf32_calc_progbounds(bin.segs).low, argsize)
_elf32_load(t, bin, argsize) == ThenInterpreter(_elf32_map_progsegs(t, bin.segs, 0), bin, argsize)

-----------------------------------------------------------------------------
\* The handlers.

\* proc_kill and proc_cleanup: the process goes, its address space with it.
Exit(t) ==
  [vmmap_destroy(t, t.m) EXCEPT !.m = {}, !.pt = NoTable, !.alive = FALSE]

Denied(a, cause) ==
  \/ "WRITE" \in cause /\ "W" \notin a.vma_prot
  \/ "EXEC" \in cause /\ "X" \notin a.vma_prot
  \/ "RESERVED" \in cause /\ a.vma_prot = {}
  \/ "PRESENT" \in cause /\ "R" \notin a.vma_prot

\* handle_pagefault asks the object for the page numbered like the byte in the
\* page that was touched, and maps it for writing.
FaultMapped(t, v, o, n) == IF t.panic # "" THEN t ELSE pt_map(t, v, o, n)
handle_pagefault(t, vaddr, cause) ==
  LET v == ADDR_TO_PN(vaddr)
      hit == vmmap_lookup(t.m, v)
      a == CHOOSE x \in hit : TRUE
  IN IF hit = {} \/ Denied(a, cause) THEN Exit(t)
     ELSE FaultMapped(pframe_get(t, a.vma_obj, PAGE_OFFSET(vaddr)), v, a.vma_obj, PAGE_OFFSET(vaddr))

\* do_fork: the areas are copied, and the page table is cleared of no pages.
do_fork(t) == pt_unmap_range([t EXCEPT !.new = vmmap_clone(t.m)], 0, 0)

\* do_mmap takes no flags as valid; do_munmap removes no pages.
do_mmap(t) == t
do_munmap(t) == [t EXCEPT !.m = vmmap_remove(@, 0, 0)]

\* proc_create: an empty address space.
Spawn(t) == [t EXCEPT !.alive = TRUE]

vars == <<s>>

Init ==
  s = [m |-> {}, new |-> {}, obj |-> [o \in Obj |-> NoObj], vn |-> [ref |-> 0, res |-> {}],
       pt |-> NoTable, lost |-> [o \in Obj |-> 0], split |-> FALSE, alive |-> TRUE, panic |-> ""]

\* What the state keeps of a kernel that has stopped.
Step(t) == s' = IF t.panic = "" THEN t ELSE [s EXCEPT !.panic = t.panic]

Running == s.panic = "" /\ s.alive

Touchable ==
  Running /\ s.m # {} /\ MapThenSumSet(LAMBDA o : Cardinality(s.obj[o].res), Obj) < MaxResident

Exec == Running /\ \E bin \in Binary, n \in ArgSize : Step(_elf32_load(s, bin, n))
Fault ==
  /\ Touchable
  /\ \E v \in UserPages, off \in 0 .. PAGE_SIZE - 1, cause \in {{}, {"WRITE"}, {"EXEC"}} :
       s.pt[v] = NULL /\ Step(handle_pagefault(s, v * PAGE_SIZE + off, cause))
Copy ==
  /\ Touchable
  /\ \E v \in UserPages, n \in {1, PAGE_SIZE + 1} : Step(vmmap_write(s, s.m, v, n).t)
Fork == Running /\ s.m # {} /\ Step(do_fork(s))
Mmap == Running /\ (Step(do_mmap(s)) \/ Step(do_munmap(s)))
Leave == Running /\ Step(Exit(s))
Start == s.panic = "" /\ ~s.alive /\ Step(Spawn(s))

Next == Exec \/ Fault \/ Copy \/ Fork \/ Mmap \/ Leave \/ Start

Spec == Init /\ [][Next]_vars

-----------------------------------------------------------------------------
\* No operation on an address space makes two areas overlap or leaves user
\* memory: what vmmap_insert's order, vmmap_lookup and vmmap_remove rely on.
AreasDisjoint == AreasOK(s.m) /\ s.new = {}

\* The references of a memory object are exactly those of its areas and its
\* resident pages, one that vmmap_map leaves to an anonymous object for ever,
\* and those vmmap_remove forgets with an area; and, unless an area was split,
\* the vnode of a mapped program is held for more than its pages.  So no area is left with a freed
\* object, and what leaks is known.
ObjectsHeld ==
  /\ \A o \in Obj : LET ob == s.obj[o] IN ob.ops # "free" =>
       ob.ref = Cardinality(Areas(s, o)) + Cardinality(ob.res) + s.lost[o] + (IF ob.ops = "anon" THEN 1 ELSE 0)
  /\ \A a \in s.m : a.vma_obj # NULL => s.obj[a.vma_obj].ops # "free"
  /\ FileAreas(s) # {} /\ ~s.split => s.vn.ref > Cardinality(s.vn.res)

\* The page table never shows a page that is not mapped, or a frame that is not
\* resident in the object of its area: exec, exit and a killing fault leave no
\* translation of an old address space behind.
TranslationsCurrent ==
  \A v \in UserPages : s.pt[v] # NULL =>
    \E a \in vmmap_lookup(s.m, v) : a.vma_obj = s.pt[v][1] /\ s.pt[v][2] \in s.obj[a.vma_obj].res

\* A load that fails before the point of no return changes nothing the old
\* program can see: as long as the areas stay, so do their translations and the
\* pages behind them.
MemoryKept ==
  s'.m = s.m /\ s'.alive =>
    /\ \A v \in UserPages : s.pt[v] # NULL => s'.pt[v] = s.pt[v]
    /\ \A a \in s.m : a.vma_obj # NULL => s.obj[a.vma_obj].res \subseteq s'.obj[a.vma_obj].res

\* The ways the kernel stops: running out of memory objects (for the stack, or
\* for an area that then has none), copying more than a page, fork's empty
\* range, and dropping a private file mapping of which a page was touched.
\* No reference count is ever put below zero and no null object is freed.
KnownEnds ==
  s.panic \in {"", "stack", "area without object", "memcpy past the frame", "pt_unmap_range", "shadow_cleanpage"}

\* vmmap_find_range returns -1 only if no range of that length is free
\* ("Returns -1 if no such range exists").
FindRangeFinds ==
  \A n \in 1 .. 2 : \A dir \in {"HILO", "LOHI"} :
    vmmap_find_range(s.m, n, dir) = NOT_FOUND =>
      ~\E v \in UserPages : v + n <= USER_MEM_HIGH /\ \A i \in 0 .. n - 1 : vmmap_lookup(s.m, v + i) = {}
=============================================================================
