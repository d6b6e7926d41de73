-------------------------------- MODULE Vmmap --------------------------------
(***************************************************************************)
(* Address spaces as lists of areas (kernel/vm/vmmap.c).                   *)
(*                                                                         *)
(* An address space m is the set of its areas: vmmap_insert keeps the list *)
(* in the order of vma_start, so the order follows from the set as long as *)
(* no two areas overlap (AreasDisjoint).  Pages are page numbers, vma_off  *)
(* is in pages, and an area goes from vma_start up to, not including,      *)
(* vma_end.                                                                *)
(***************************************************************************)
EXTENDS Integers

CONSTANTS USER_MEM_LOW, USER_MEM_HIGH   \* in pages

ASSUME VmmapAssumption ==
  /\ USER_MEM_LOW \in Nat /\ USER_MEM_HIGH \in Nat
  /\ 0 < USER_MEM_LOW /\ USER_MEM_LOW < USER_MEM_HIGH

NOT_FOUND == -1
PANIC == -2

vmarea(Prot, Flags, Obj) ==
  [vma_start : Nat, vma_end : Nat, vma_off : Int, vma_prot : Prot, vma_flags : Flags, vma_obj : Obj]

Covers(a, vfn) == a.vma_start <= vfn /\ vfn < a.vma_end

\* The assertions of vmmap_insert.
InsertOK(a) ==
  a.vma_start < a.vma_end /\ USER_MEM_LOW <= a.vma_start /\ a.vma_end <= USER_MEM_HIGH

vmmap_insert(m, a) == m \cup {a}

\* The area of a page: at most one when the areas are disjoint.
vmmap_lookup(m, vfn) == {a \in m : Covers(a, vfn)}

\* The assertion of vmmap_is_range_empty, and its answer.
RangeOK(startvfn, npages) ==
  npages > 0 /\ USER_MEM_LOW <= startvfn /\ startvfn + npages <= USER_MEM_HIGH

vmmap_is_range_empty(m, startvfn, npages) ==
  \A a \in m : a.vma_start > startvfn + npages \/ a.vma_end <= startvfn

\* What vmmap_remove leaves of an area: a split, the lower part, the upper
\* part, nothing, or all of it.
Cut(a, lopage, npages) ==
  LET hi == lopage + npages IN
  IF a.vma_start < lopage /\ a.vma_end > hi
  THEN {[a EXCEPT !.vma_end = lopage], [a EXCEPT !.vma_start = hi, !.vma_off = @ + npages]}
  ELSE IF a.vma_start < lopage /\ a.vma_end <= hi /\ a.vma_end >= lopage
  THEN {[a EXCEPT !.vma_end = lopage]}
  ELSE IF a.vma_start >= lopage /\ a.vma_end > hi /\ a.vma_start <= hi
  THEN {[a EXCEPT !.vma_off = @ + hi - a.vma_start, !.vma_start = hi]}
  ELSE IF a.vma_start >= lopage /\ a.vma_end <= hi THEN {} ELSE {a}

vmmap_remove(m, lopage, npages) == UNION {Cut(a, lopage, npages) : a \in m}

-----------------------------------------------------------------------------
\* vmmap_find_range tries the pages next to each area, in the order of the list
\* or against it.  It gives vmmap_is_range_empty the last page of the range for
\* its length.
TryStart(a, npages, dir) == IF dir = "HILO" THEN a.vma_start - npages ELSE a.vma_end + 1
TryLength(a, npages, dir) == IF dir = "HILO" THEN a.vma_start - 1 ELSE a.vma_end + npages

\* The search ends at an area where the range is taken for empty, or the
\* assertion fails.
Ends(m, a, npages, dir) ==
  LET t == TryStart(a, npages, dir)
      n == TryLength(a, npages, dir)
  IN ~RangeOK(t, n) \/ vmmap_is_range_empty(m, t, n)

Before(a, b, dir) == IF dir = "HILO" THEN a.vma_start >= b.vma_start ELSE a.vma_start <= b.vma_start

vmmap_find_range(m, npages, dir) ==
  LET ends == {a \in m : Ends(m, a, npages, dir)}
      first == CHOOSE a \in ends : \A b \in ends : Before(a, b, dir)
  IN IF m = {} THEN IF dir = "HILO" THEN USER_MEM_HIGH - npages + 1 ELSE USER_MEM_LOW
     ELSE IF ends = {} THEN NOT_FOUND
     ELSE IF RangeOK(TryStart(first, npages, dir), TryLength(first, npages, dir))
     THEN TryStart(first, npages, dir) ELSE PANIC

-----------------------------------------------------------------------------
\* Areas lie in user memory and no page has two.
AreasOK(m) ==
  /\ \A a \in m : InsertOK(a)
  /\ \A a, b \in m : a # b => a.vma_end <= b.vma_start \/ b.vma_end <= a.vma_start
=============================================================================
