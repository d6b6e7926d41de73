---------------------------- MODULE VmmapProofs ----------------------------
(***************************************************************************)
(* What the operations on address spaces promise, for every user memory    *)
(* and every set of areas.                                                 *)
(***************************************************************************)
EXTENDS Vmmap, WellFoundedInduction, TLAPS

-----------------------------------------------------------------------------
\* The pieces vmmap_remove leaves of an area are areas inside it, apart from
\* each other and from the hole, and with it they cover the whole area.
LEMMA CutPieces ==
  ASSUME NEW Prot, NEW Flags, NEW Obj,
         NEW a \in vmarea(Prot, Flags, Obj), InsertOK(a), NEW lo \in Nat, NEW n \in Nat
  PROVE  /\ \A x \in Cut(a, lo, n) :
              /\ x \in vmarea(Prot, Flags, Obj) /\ x.vma_start < x.vma_end
              /\ a.vma_start <= x.vma_start /\ x.vma_end <= a.vma_end
              /\ x.vma_end <= lo \/ lo + n <= x.vma_start
         /\ \A x, y \in Cut(a, lo, n) : x # y => x.vma_end <= y.vma_start \/ y.vma_end <= x.vma_start
         /\ \A v \in Nat : (\E x \in Cut(a, lo, n) : Covers(x, v)) <=> (Covers(a, v) /\ ~(lo <= v /\ v < lo + n))
<1> DEFINE hi == lo + n
           lower == [a EXCEPT !.vma_end = lo]
           upper == [a EXCEPT !.vma_start = hi, !.vma_off = @ + n]
           rest == [a EXCEPT !.vma_off = @ + hi - a.vma_start, !.vma_start = hi]
<1>1. /\ a.vma_start \in Nat /\ a.vma_end \in Nat /\ a.vma_off \in Int /\ hi \in Nat
      /\ a.vma_start < a.vma_end
  BY DEF vmarea, InsertOK
<1>2. /\ lower \in vmarea(Prot, Flags, Obj) /\ lower.vma_start = a.vma_start /\ lower.vma_end = lo
      /\ upper \in vmarea(Prot, Flags, Obj) /\ upper.vma_start = hi /\ upper.vma_end = a.vma_end
      /\ rest \in vmarea(Prot, Flags, Obj) /\ rest.vma_start = hi /\ rest.vma_end = a.vma_end
  <2>1. lower \in vmarea(Prot, Flags, Obj) /\ lower.vma_start = a.vma_start /\ lower.vma_end = lo
    BY DEF vmarea
  <2>2. upper \in vmarea(Prot, Flags, Obj) /\ upper.vma_start = hi /\ upper.vma_end = a.vma_end
    <3>1. a.vma_off + n \in Int /\ hi \in Nat
      BY <1>1
    <3> HIDE DEF hi
    <3> QED  BY <3>1 DEF vmarea
  <2>3. rest \in vmarea(Prot, Flags, Obj) /\ rest.vma_start = hi /\ rest.vma_end = a.vma_end
    <3>1. a.vma_off + hi - a.vma_start \in Int /\ hi \in Nat
      BY <1>1
    <3> HIDE DEF hi
    <3> QED  BY <3>1 DEF vmarea
  <2> QED  BY <2>1, <2>2, <2>3
<1>3. CASE a.vma_start < lo /\ a.vma_end > hi
  <2>1. Cut(a, lo, n) = {lower, upper}
    BY <1>3 DEF Cut
  <2> HIDE DEF lower, upper
  <2> QED  BY <1>1, <1>2, <1>3, <2>1 DEF Covers
<1>4. CASE ~(a.vma_start < lo /\ a.vma_end > hi) /\ a.vma_start < lo /\ a.vma_end <= hi /\ a.vma_end >= lo
  <2>1. Cut(a, lo, n) = {lower}
    BY <1>4 DEF Cut
  <2> HIDE DEF lower
  <2> QED  BY <1>1, <1>2, <1>4, <2>1 DEF Covers
<1>5. CASE a.vma_start >= lo /\ a.vma_end > hi /\ a.vma_start <= hi
  <2>1. Cut(a, lo, n) = {rest}
    BY <1>1, <1>5 DEF Cut
  <2> HIDE DEF rest
  <2> QED  BY <1>1, <1>2, <1>5, <2>1 DEF Covers
<1>6. CASE a.vma_start >= lo /\ a.vma_end <= hi
  <2>1. Cut(a, lo, n) = {}
    BY <1>1, <1>6 DEF Cut
  <2> QED  BY <1>1, <1>6, <2>1 DEF Covers
<1>7. CASE a.vma_end < lo \/ a.vma_start > hi
  <2>1. Cut(a, lo, n) = {a}
    BY <1>1, <1>7 DEF Cut
  <2> QED  BY <1>1, <1>7, <2>1, a \in vmarea(Prot, Flags, Obj) DEF Covers
<1> QED  BY <1>1, <1>3, <1>4, <1>5, <1>6, <1>7

-----------------------------------------------------------------------------
\* vmmap_remove keeps the areas in user memory and apart from each other,
\* whichever of its four cases each area falls under (vmmap.c:459).
THEOREM RemoveKeepsAreas ==
  ASSUME NEW Prot, NEW Flags, NEW Obj,
         NEW m \in SUBSET vmarea(Prot, Flags, Obj), AreasOK(m), NEW lo \in Nat, NEW n \in Nat
  PROVE  /\ AreasOK(vmmap_remove(m, lo, n))
         /\ \A x \in vmmap_remove(m, lo, n) : x \in vmarea(Prot, Flags, Obj) /\ (x.vma_end <= lo \/ lo + n <= x.vma_start)
<1> DEFINE r == vmmap_remove(m, lo, n)
<1>1. \A x \in r : \E a \in m : x \in Cut(a, lo, n)
  BY DEF vmmap_remove
<1>2. \A a \in m : a \in vmarea(Prot, Flags, Obj) /\ InsertOK(a)
  BY DEF AreasOK
<1>3. \A a \in m : \A x \in Cut(a, lo, n) :
        /\ x \in vmarea(Prot, Flags, Obj) /\ x.vma_start < x.vma_end
        /\ a.vma_start <= x.vma_start /\ x.vma_end <= a.vma_end
        /\ x.vma_end <= lo \/ lo + n <= x.vma_start
  BY <1>2, CutPieces
<1>4. \A a \in m : \A x, y \in Cut(a, lo, n) : x # y => x.vma_end <= y.vma_start \/ y.vma_end <= x.vma_start
  BY <1>2, CutPieces
<1> HIDE DEF r
<1>5. \A x \in r : x \in vmarea(Prot, Flags, Obj) /\ InsertOK(x) /\ (x.vma_end <= lo \/ lo + n <= x.vma_start)
  BY <1>1, <1>2, <1>3, VmmapAssumption DEF InsertOK, vmarea
<1>6. ASSUME NEW x \in r, NEW y \in r, x # y
      PROVE  x.vma_end <= y.vma_start \/ y.vma_end <= x.vma_start
  <2>1. PICK a \in m : x \in Cut(a, lo, n)
    BY <1>1
  <2>2. PICK b \in m : y \in Cut(b, lo, n)
    BY <1>1
  <2>3. CASE a = b
    BY <1>4, <1>6, <2>1, <2>2, <2>3
  <2>4. CASE a # b
    <3>1. a.vma_end <= b.vma_start \/ b.vma_end <= a.vma_start
      BY <2>4 DEF AreasOK
    <3>2. /\ a.vma_start <= x.vma_start /\ x.vma_end <= a.vma_end
          /\ b.vma_start <= y.vma_start /\ y.vma_end <= b.vma_end
      BY <1>3, <2>1, <2>2
    <3> QED  BY <1>2, <1>5, <3>1, <3>2 DEF vmarea
  <2> QED  BY <2>3, <2>4
<1> QED  BY <1>5, <1>6 DEF AreasOK, r

\* After vmmap_remove exactly the pages of the range are unmapped: no page
\* outside it is lost and none inside it stays.
THEOREM RemoveExact ==
  ASSUME NEW Prot, NEW Flags, NEW Obj,
         NEW m \in SUBSET vmarea(Prot, Flags, Obj), AreasOK(m), NEW lo \in Nat, NEW n \in Nat, NEW v \in Nat
  PROVE  vmmap_lookup(vmmap_remove(m, lo, n), v) # {}
           <=> (vmmap_lookup(m, v) # {} /\ ~(lo <= v /\ v < lo + n))
<1>1. \A a \in m : (\E x \in Cut(a, lo, n) : Covers(x, v)) <=> (Covers(a, v) /\ ~(lo <= v /\ v < lo + n))
  BY CutPieces DEF AreasOK
<1>2. vmmap_lookup(vmmap_remove(m, lo, n), v) # {} <=> \E a \in m : \E x \in Cut(a, lo, n) : Covers(x, v)
  BY DEF vmmap_lookup, vmmap_remove
<1>3. vmmap_lookup(m, v) # {} <=> \E a \in m : Covers(a, v)
  BY DEF vmmap_lookup
<1> QED  BY <1>1, <1>2, <1>3

\* vmmap_map at a fixed place, which removes what is there and inserts the new
\* area, keeps the areas in user memory and apart; and so does the loader, which
\* inserts only where vmmap_is_range_empty says so (vmmap.c:372, elf32.c:90).
THEOREM MapKeepsAreas ==
  ASSUME NEW Prot, NEW Flags, NEW Obj,
         NEW m \in SUBSET vmarea(Prot, Flags, Obj), AreasOK(m), 
         NEW area \in vmarea(Prot, Flags, Obj), InsertOK(area),
         NEW n \in Nat, area.vma_end = area.vma_start + n
  PROVE  /\ AreasOK(vmmap_insert(vmmap_remove(m, area.vma_start, n), area))
         /\ vmmap_is_range_empty(m, area.vma_start, n) => AreasOK(vmmap_insert(m, area))
<1>1. area.vma_start \in Nat /\ area.vma_end \in Nat
  BY DEF vmarea
<1>2. ASSUME NEW q, AreasOK(q), \A x \in q : x \in vmarea(Prot, Flags, Obj) /\ (x.vma_end <= area.vma_start \/ area.vma_end <= x.vma_start)
      PROVE  AreasOK(vmmap_insert(q, area))
  BY <1>1, <1>2 DEF AreasOK, vmmap_insert
<1>3. AreasOK(vmmap_insert(vmmap_remove(m, area.vma_start, n), area))
  BY <1>1, <1>2, RemoveKeepsAreas
<1>4. ASSUME vmmap_is_range_empty(m, area.vma_start, n)
      PROVE  AreasOK(vmmap_insert(m, area))
  <2>1. \A x \in m : x \in vmarea(Prot, Flags, Obj) /\ (x.vma_end <= area.vma_start \/ area.vma_end <= x.vma_start)
    BY <1>1, <1>4 DEF vmmap_is_range_empty, vmarea
  <2> QED  BY <1>2, <2>1
<1> QED  BY <1>3, <1>4

-----------------------------------------------------------------------------
\* A set of numbers up to a bound has a largest one: how the search from high to
\* low and the one from low to high each have a first area (vmmap.c:176).
LEMMA Extremes ==
  ASSUME NEW T \in SUBSET Nat, T # {}, NEW bound \in Nat, \A x \in T : x <= bound
  PROVE  /\ \E x \in T : \A y \in T : x <= y
         /\ \E x \in T : \A y \in T : y <= x
<1> DEFINE less == {ss \in Nat \X Nat : ss[1] < ss[2]}
<1>1. IsWellFoundedOn(less, Nat)
  BY NatLessThanWellFounded DEF OpToRel
<1>2. \A x, y \in Nat : <<y, x>> \in less <=> y < x
  OBVIOUS
<1> HIDE DEF less
<1>3. ASSUME NEW U \in SUBSET Nat, U # {}
      PROVE  \E x \in U : \A y \in U : x <= y
  <2>1. U \subseteq Nat
    OBVIOUS
  <2>2. PICK x \in U : \A y \in U : ~(<<y, x>> \in less)
    BY <1>1, <1>3, <2>1, WFMin
  <2>3. \A y \in U : x \in Nat /\ y \in Nat /\ ~(y < x)
    BY <1>2, <2>1, <2>2
  <2>4. \A y \in U : x <= y
    BY <2>3
  <2> QED  BY <2>4
<1>4. \E x \in T : \A y \in T : x <= y
  BY <1>3
<1>5. \E x \in T : \A y \in T : y <= x
  <2> DEFINE U == {bound - x : x \in T}
  <2>1. U \in SUBSET Nat /\ U # {}
    <3>1. \A x \in T : bound - x \in Nat
      OBVIOUS
    <3>2. \A u \in U : u \in Nat
      BY <3>1
    <3> QED  BY <3>2
  <2>2. PICK u \in U : \A v \in U : u <= v
    BY <1>3, <2>1
  <2>3. PICK x \in T : u = bound - x
    OBVIOUS
  <2>4. \A y \in T : bound - x <= bound - y
    BY <2>2, <2>3
  <2> QED  BY <2>4
<1> QED  BY <1>4, <1>5

-----------------------------------------------------------------------------
\* A search in an address space that has an area ends without a range, or at
\* an area where vmmap_is_range_empty was asked and what it answered was used.
LEMMA SearchEnds ==
  ASSUME NEW Prot, NEW Flags, NEW Obj,
         NEW m \in SUBSET vmarea(Prot, Flags, Obj), AreasOK(m), m # {},
         NEW n \in Nat, NEW dir \in {"HILO", "LOHI"}
  PROVE  \/ vmmap_find_range(m, n, dir) \in {NOT_FOUND, PANIC}
         \/ \E a \in m : /\ vmmap_find_range(m, n, dir) = TryStart(a, n, dir)
                         /\ RangeOK(TryStart(a, n, dir), TryLength(a, n, dir))
                         /\ vmmap_is_range_empty(m, TryStart(a, n, dir), TryLength(a, n, dir))
<1> DEFINE ends == {a \in m : Ends(m, a, n, dir)}
           first == CHOOSE a \in ends : \A b \in ends : Before(a, b, dir)
<1>1. CASE ends = {}
  BY <1>1 DEF vmmap_find_range
<1>2. CASE ends # {}
  <2>1. first \in ends
    <3> DEFINE T == {a.vma_start : a \in ends}
    <3>1. T \in SUBSET Nat /\ T # {} /\ USER_MEM_HIGH \in Nat /\ \A x \in T : x <= USER_MEM_HIGH
      BY <1>2, VmmapAssumption DEF AreasOK, InsertOK, vmarea
    <3>2. (\E x \in T : \A y \in T : x <= y) /\ (\E x \in T : \A y \in T : y <= x)
      BY <3>1, Extremes
    <3>3. \E a \in ends : \A b \in ends : Before(a, b, dir)
      BY <3>1, <3>2 DEF Before
    <3> QED  BY <3>3
  <2>2. first \in m /\ Ends(m, first, n, dir)
    BY <2>1
  <2>3. vmmap_find_range(m, n, dir) =
          IF RangeOK(TryStart(first, n, dir), TryLength(first, n, dir)) THEN TryStart(first, n, dir) ELSE PANIC
    BY <1>2 DEF vmmap_find_range
  <2> HIDE DEF first
  <2> QED  BY <2>2, <2>3 DEF Ends
<1> QED  BY <1>1, <1>2

\* In an address space that has an area, a search from high to low never finds
\* a range: the last page of the range, taken for its length, always reaches
\* the area the range lies below (vmmap.c:176).
THEOREM HiloFindsNothing ==
  ASSUME NEW Prot, NEW Flags, NEW Obj,
         NEW m \in SUBSET vmarea(Prot, Flags, Obj), AreasOK(m), m # {}, NEW n \in Nat, 0 < n
  PROVE  vmmap_find_range(m, n, "HILO") \in {NOT_FOUND, PANIC}
<1>1. ASSUME NEW a \in m, RangeOK(TryStart(a, n, "HILO"), TryLength(a, n, "HILO")),
             vmmap_is_range_empty(m, TryStart(a, n, "HILO"), TryLength(a, n, "HILO"))
      PROVE  FALSE
  <2>1. a.vma_start \in Nat /\ a.vma_end \in Nat /\ a.vma_start < a.vma_end
    BY DEF AreasOK, InsertOK, vmarea
  <2>2. a.vma_start > (a.vma_start - n) + (a.vma_start - 1) \/ a.vma_end <= a.vma_start - n
    BY <1>1 DEF TryStart, TryLength, vmmap_is_range_empty
  <2>3. USER_MEM_LOW <= a.vma_start - n
    BY <1>1 DEF TryStart, TryLength, RangeOK
  <2> QED  BY <2>1, <2>2, <2>3, VmmapAssumption
<1> QED  BY <1>1, SearchEnds

\* In an address space that has an area, a range found from low to high lies in
\* user memory and none of its pages is mapped, although the search asks about
\* a longer one (vmmap.c:185).
THEOREM LohiFindsFree ==
  ASSUME NEW Prot, NEW Flags, NEW Obj,
         NEW m \in SUBSET vmarea(Prot, Flags, Obj), AreasOK(m), m # {}, NEW n \in Nat, 0 < n,
         vmmap_find_range(m, n, "LOHI") \notin {NOT_FOUND, PANIC}
  PROVE  LET r == vmmap_find_range(m, n, "LOHI") IN
         /\ USER_MEM_LOW <= r /\ r + n <= USER_MEM_HIGH
         /\ \A v \in Nat : r <= v /\ v < r + n => vmmap_lookup(m, v) = {}
<1> DEFINE r == vmmap_find_range(m, n, "LOHI")
<1>1. PICK a \in m : /\ r = TryStart(a, n, "LOHI")
                     /\ RangeOK(TryStart(a, n, "LOHI"), TryLength(a, n, "LOHI"))
                     /\ vmmap_is_range_empty(m, TryStart(a, n, "LOHI"), TryLength(a, n, "LOHI"))
  BY SearchEnds
<1>2. a.vma_end \in Nat /\ r = a.vma_end + 1
  BY <1>1 DEF TryStart, vmarea
<1>3. RangeOK(r, a.vma_end + n) /\ vmmap_is_range_empty(m, r, a.vma_end + n)
  BY <1>1 DEF TryStart, TryLength
<1> HIDE DEF r
<1>4. USER_MEM_LOW <= r /\ r + n <= USER_MEM_HIGH
  BY <1>2, <1>3, VmmapAssumption DEF RangeOK
<1>5. ASSUME NEW v \in Nat, r <= v, v < r + n, NEW b \in m
      PROVE  ~Covers(b, v)
  <2>1. b.vma_start \in Nat /\ b.vma_end \in Nat
    BY DEF vmarea
  <2>2. b.vma_start > r + (a.vma_end + n) \/ b.vma_end <= r
    BY <1>3 DEF vmmap_is_range_empty
  <2> QED  BY <1>2, <1>5, <2>1, <2>2 DEF Covers
<1>6. \A v \in Nat : r <= v /\ v < r + n => vmmap_lookup(m, v) = {}
  BY <1>5 DEF vmmap_lookup
<1> QED  BY <1>4, <1>6 DEF r
=============================================================================
