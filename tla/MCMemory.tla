------------------------------ MODULE MCMemory ------------------------------
(***************************************************************************)
(* Instances of Slab (with PageAlloc), PageCache and AddressSpace (with    *)
(* Vmmap) for TLC.  The variable job says from the start which of the      *)
(* three runs; the others stay as they are at the start.                   *)
(*                                                                         *)
(* Two slab allocators and the kernel share four pages.  Two users and the *)
(* page-out daemon share two vnodes and two frames, for two files of two   *)
(* pages.  A user memory has ten pages of two bytes, and a stack of two.   *)
(***************************************************************************)
EXTENDS Slab, PageCache, Vmmap, TLC

CONSTANTS small, large, Obj

VARIABLES job, s

MCvars == <<job, allvars, cachevars, s>>

MCSizes == [o \in Order |-> 2 ^ o]
MCAllocators == <<small, large>>
MCorder == [a \in Allocator |-> IF a = small THEN 0 ELSE 1]
MCnobjs == [a \in Allocator |-> IF a = small THEN 2 ELSE 1]

Segment(vaddr, filesz, memsz, flags) ==
  [p_vaddr |-> vaddr, p_offset |-> vaddr, p_filesz |-> filesz, p_memsz |-> memsz,
   p_align |-> 2, p_flags |-> flags]
Text == Segment(12, 2, 2, {"R", "X"})
Program(segs) == [segs |-> segs, interp |-> 0]

\* Programs: text with data and bss on a shared page, a file page wholly hidden
\* by bss, a bss page inside the text, overlapping segments, a wrong alignment,
\* an interpreter, and no segments.
Binary == {
  Program(<<Text, Segment(14, 3, 6, {"R", "W"})>>),
  Program(<<Text, Segment(14, 1, 4, {"R", "W"})>>),
  Program(<<Segment(12, 6, 6, {"R", "X"}), Segment(14, 0, 1, {"R", "W"})>>),
  Program(<<Text, Segment(12, 2, 4, {"R", "W"})>>),
  Program(<<Text, [Text EXCEPT !.p_align = 1]>>),
  [segs |-> <<Text>>, interp |-> 1],
  Program(<<>>)}

Space == INSTANCE AddressSpace WITH
  PAGE_SIZE <- 2, StackPages <- 2, ArgSize <- {1, 4}, MaxResident <- 3

\* The slots, files, pages and users are interchangeable.
Symmetry == UNION {Permutations(X) : X \in {User, Vnode, Frame, Ino, Page}}

MCInit ==
  /\ job \in {"slab", "cache", "space"} /\ SlabInit /\ CacheInit
  /\ IF job = "space" THEN Space!Init ELSE s = NULL
MCNext ==
  \/ job = "slab" /\ SlabNext /\ UNCHANGED <<job, cachevars, s>>
  \/ job = "cache" /\ CacheNext /\ UNCHANGED <<job, allvars, s>>
  \/ job = "space" /\ Space!Next /\ UNCHANGED <<job, allvars, cachevars>>
  \/ job \in {"cache", "space"} /\ UNCHANGED MCvars  \* a user may stop, the slabs may not
MCSpec == MCInit /\ [][MCNext]_MCvars

-----------------------------------------------------------------------------
\* No operation on an address space makes two areas overlap or leaves user
\* memory (vmmap.c:458).
AreasDisjoint == job = "space" => Space!AreasDisjoint

\* The references of a memory object are those of its areas and resident pages
\* and the known ones that leak; and the page table shows only pages that are
\* mapped, with frames that are resident in the object of their area
\* (vmmap.c:492, anon.c:98, pagefault.c:134).
MemoryHeld == job = "space" => Space!ObjectsHeld /\ Space!TranslationsCurrent

\* The kernel stops only in the listed ways: no reference count is put below
\* zero and no null object is freed (shadow.c:157, fork.c:71).
KnownEnds == job = "space" => Space!KnownEnds

\* A load that fails before the point of no return changes nothing the old
\* program can see (elf32.c:655).
FailedExecKeepsMemory == [][job = "space" => Space!MemoryKept]_s

\* vmmap.c:145 "Returns -1 if no such range exists": vmmap_find_range fails
\* only if no range of that length is free.
FindRangeFinds == job = "space" => Space!FindRangeFinds
=============================================================================
