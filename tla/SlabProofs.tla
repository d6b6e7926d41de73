------------------------------ MODULE SlabProofs ------------------------------
(***************************************************************************)
(* Proofs about Slab.  The slab allocators use the page allocator only     *)
(* through its operations, so what is proved of the page allocator holds   *)
(* underneath them; and the objects, the free lists and counts of the      *)
(* slabs and the pages under them agree in every state (SInv).             *)
(***************************************************************************)
EXTENDS Slab, PageAllocProofs

\* A block of one order has at least a page and at most those of the largest
\* order, and page_alloc_n for the pages of an order looks for that order.
LEMMA OrderSize ==
  ASSUME NEW o \in Order
  PROVE  S[o] \in 1 .. S[Top] /\ OrderFor(S[o]) \subseteq {o}
<1>1. Top \in Order /\ \A p \in Order : p \in Nat /\ S[p] \in Nat /\ S[p] >= 1 /\ p <= Top
  BY Sizes
<1>2. ASSUME NEW p \in Order, NEW q \in Order, p < q PROVE S[p] < S[q]
  <2>1. p + 1 \in Order /\ S[p + 1] = 2 * S[p] /\ p + 1 <= q
    BY <1>1, <1>2, Sizes
  <2>2. PICK m \in Nat : m >= 1 /\ S[q] = m * S[p + 1]
    BY <2>1, SizesDivide
  <2>3. \A s \in Nat : s >= 1 => s < m * (2 * s)
    BY <2>2
  <2> QED
    BY <1>1, <2>1, <2>2, <2>3
<1>3. S[o] <= S[Top]
  BY <1>1, <1>2
<1>4. ASSUME NEW p \in OrderFor(S[o]) PROVE p = o
  <2>1. p \in Order /\ S[p] >= S[o] /\ p <= o
    BY <1>1, <1>4 DEF OrderFor
  <2>2. ~(p < o)
    BY <1>1, <1>2, <2>1
  <2> QED
    BY <1>1, <2>1, <2>2
<1> QED
  BY <1>1, <1>3, <1>4

\* Every step of the slab layer is a step of the page allocator or leaves it
\* alone.
LEMMA SlabStep == ASSUME SlabNext PROVE [Next]_vars
<1>1. ASSUME NEW a \in Allocator, slab_obj_alloc(a) PROVE [Next]_vars
  <2>1. CASE page_alloc_n(a, S[sa_order[a]])
    <3>1. a \in Client /\ S[sa_order[a]] \in 1 .. S[Top]
      BY SlabAssumption, OrderSize
    <3> QED
      BY <2>1, <3>1 DEF Next
  <2>2. CASE UNCHANGED vars
    BY <2>2
  <2> QED
    BY <1>1, <2>1, <2>2 DEF slab_obj_alloc
<1>2. ASSUME NEW a \in Allocator, GrowEnds(a) PROVE [Next]_vars
  BY <1>2 DEF GrowEnds
<1>3. ASSUME NEW x \in objs, slab_obj_free(x) PROVE [Next]_vars
  BY <1>3 DEF slab_obj_free
<1>4. ASSUME slab_allocators_reclaim PROVE [Next]_vars
  <2>1. CASE ReclaimEnds
    BY <2>1 DEF Next
  <2>2. CASE \E n \in DOMAIN Allocators : \E b : page_free_n(Allocators[n], b)
    <3>0. PICK n \in DOMAIN Allocators : \E b : page_free_n(Allocators[n], b)
      BY <2>2
    <3>1. PICK b : page_free_n(Allocators[n], b)
      BY <3>0
    <3>2. Allocators[n] \in Client
      BY SlabAssumption
    <3>3. b \in used[Allocators[n]]
      BY <3>1 DEF page_free_n
    <3> QED
      BY <3>1, <3>2, <3>3 DEF Next
  <2> QED
    BY <1>4, <2>1, <2>2, Zenon DEF slab_allocators_reclaim
<1>5. ASSUME NEW n \in 1 .. S[Top], KernelAllocates(n) PROVE [Next]_vars
  BY <1>5, SlabAssumption DEF KernelAllocates, Next
<1>6. ASSUME NEW b \in used[Kernel], KernelFrees(b) PROVE [Next]_vars
  BY <1>6, SlabAssumption DEF KernelFrees, Next
<1>7. ASSUME PageLoops PROVE [Next]_vars
  BY <1>7 DEF PageLoops, Next
<1> QED
  BY <1>1, <1>2, <1>3, <1>4, <1>5, <1>6, <1>7 DEF SlabNext

\* kmalloc, slab_obj_alloc, slab_obj_free and slab_allocators_reclaim, mixed with
\* direct calls of page_alloc_n and page_free_n, drive the page allocator as its
\* specification allows.
THEOREM SlabsUsePages == SlabSpec => Spec
<1>1. SlabInit => Init
  BY DEF SlabInit
<1>2. [SlabNext]_allvars => [Next]_vars
  BY SlabStep DEF allvars
<1> QED
  BY <1>1, <1>2, PTL DEF SlabSpec, Spec

\* Under any number of slab allocators, with reclaim in the middle of an
\* allocation, blocks never overlap, the bit maps are exact and no join goes
\* astray, provided the group has no tail.
THEOREM SlabPagesSafe ==
  ASSUME NoTail
  PROVE  SlabSpec => [](TypeOK /\ JoinsFreeBuddy /\ NoOverlap /\ BitmapExact)
  BY SlabsUsePages, PageAllocSafe, PTL

-----------------------------------------------------------------------------
(***************************************************************************)
(* Slabs and objects.                                                      *)
(***************************************************************************)
\* The free list q of a slab of N objects, of which the objects L are in use.
FreeOK(N, q, L) ==
  /\ q \in Seq(1 .. N)
  /\ \A j, k \in 1 .. Len(q) : q[j] = q[k] => j = k
  /\ \A n \in 1 .. N : (\E j \in 1 .. Len(q) : q[j] = n) <=> n \notin L

\* The numbers of the objects in use in the slab at i.
Live(ob, a, i) == {n \in 1 .. sa_slab_nobjs[a] : <<a, i, n>> \in ob}

SlabOK(a, slab, ob) ==
  /\ slab \in SlabRec(a)
  /\ FreeOK(sa_slab_nobjs[a], slab.s_free, Live(ob, a, slab.s_addr))
  /\ slab.s_inuse + Len(slab.s_free) = sa_slab_nobjs[a]

ListOK(a, list, ob) ==
  /\ list \in Seq(SlabRec(a))
  /\ \A k \in 1 .. Len(list) : SlabOK(a, list[k], ob)
  /\ \A j, k \in 1 .. Len(list) : list[j].s_addr = list[k].s_addr => j = k

\* Every object in use is in a slab.
ObjectOK(x, sl) ==
  \E a \in Allocator : \E k \in 1 .. Len(sl[a]) : \E n \in 1 .. sa_slab_nobjs[a] :
    x = <<a, sl[a][k].s_addr, n>>

\* The blocks under the slabs of a list.
BlocksOf(a, list) == {<<sa_order[a], list[k].s_addr>> : k \in 1 .. Len(list)}

\* An allocator holds the blocks of its slabs and, when page_alloc_n has just
\* returned to _slab_allocator_grow, one more of the right order.
BlocksOK(a, list, blocks, grows) ==
  \/ blocks = BlocksOf(a, list)
  \/ grows /\ \E i \in Nat : blocks = BlocksOf(a, list) \cup {<<sa_order[a], i>>}

\* The allocation that splits blocks is the one slab_obj_alloc waits for, or one
\* of the kernel.
SplitForGoal ==
  op.at = "split" =>
    /\ goal \in Allocator => op.client = goal /\ op.order = sa_order[goal]
    /\ goal = NONE => op.client = Kernel

SInv ==
  /\ IInv
  /\ goal \in Allocator \cup {NONE}
  /\ slabs = [a \in Allocator |-> slabs[a]]
  /\ \A a \in Allocator : ListOK(a, slabs[a], objs)
  /\ \A x \in objs : ObjectOK(x, slabs)
  /\ \A a \in Allocator : BlocksOK(a, slabs[a], used[a], op.at = "idle" /\ goal = a)
  /\ SplitForGoal

\* The first and the other elements of a free list.
LEMMA TailIs ==
  ASSUME NEW N \in Nat, NEW q \in Seq(1 .. N), Len(q) > 0
  PROVE  /\ Head(q) = q[1] /\ Head(q) \in 1 .. N
         /\ Tail(q) \in Seq(1 .. N) /\ Len(Tail(q)) = Len(q) - 1
         /\ \A j \in 1 .. Len(q) - 1 : Tail(q)[j] = q[j + 1]
  OBVIOUS

\* An element in front of a list.
LEMMA ConsIs ==
  ASSUME NEW A, NEW q \in Seq(A), NEW n \in A
  PROVE  /\ <<n>> \o q \in Seq(A) /\ Len(<<n>> \o q) = Len(q) + 1
         /\ (<<n>> \o q)[1] = n
         /\ \A j \in 1 .. Len(q) : (<<n>> \o q)[j + 1] = q[j]
  OBVIOUS

\* slab_obj_alloc takes the first object of the free list.
LEMMA TakeFree ==
  ASSUME NEW N \in Nat, NEW q, NEW L, FreeOK(N, q, L), Len(q) > 0
  PROVE  /\ Head(q) \in 1 .. N /\ Head(q) \notin L
         /\ FreeOK(N, Tail(q), L \cup {Head(q)}) /\ Len(Tail(q)) = Len(q) - 1
<1>1. /\ q \in Seq(1 .. N)
      /\ \A j, k \in 1 .. Len(q) : q[j] = q[k] => j = k
      /\ \A n \in 1 .. N : (\E j \in 1 .. Len(q) : q[j] = n) <=> n \notin L
  BY DEF FreeOK
<1>2. /\ Head(q) = q[1] /\ Head(q) \in 1 .. N
      /\ Tail(q) \in Seq(1 .. N) /\ Len(Tail(q)) = Len(q) - 1
      /\ \A j \in 1 .. Len(q) - 1 : Tail(q)[j] = q[j + 1]
  BY <1>1, TailIs
<1> DEFINE r == Tail(q)
           h == Head(q)
<1> HIDE DEF r, h
<1>3. h = q[1] /\ h \in 1 .. N /\ Len(r) = Len(q) - 1 /\ \A j \in 1 .. Len(r) : r[j] = q[j + 1]
  BY <1>2 DEF r, h
<1>4. Len(q) \in Nat /\ Len(r) \in Nat
  BY <1>1, <1>2 DEF r
<1>5. 1 \in 1 .. Len(q) /\ \A j \in 1 .. Len(r) : j + 1 \in 1 .. Len(q) /\ j + 1 # 1
  BY <1>3, <1>4
<1>6. h \notin L
  BY <1>1, <1>3, <1>5
<1>7. ASSUME NEW j \in 1 .. Len(r), NEW k \in 1 .. Len(r), r[j] = r[k] PROVE j = k
  <2>1. j + 1 \in 1 .. Len(q) /\ k + 1 \in 1 .. Len(q) /\ q[j + 1] = q[k + 1]
    BY <1>3, <1>5, <1>7
  <2>2. j + 1 = k + 1
    BY <1>1, <2>1, Zenon
  <2> QED
    BY <1>4, <2>2
<1>8. ASSUME NEW n \in 1 .. N PROVE (\E j \in 1 .. Len(r) : r[j] = n) <=> n \notin L \cup {h}
  <2>1. ASSUME NEW j \in 1 .. Len(r), r[j] = n PROVE n \notin L \cup {h}
    <3>1. q[j + 1] = n /\ j + 1 \in 1 .. Len(q) /\ j + 1 # 1
      BY <1>3, <1>5, <2>1
    <3> QED
      BY <1>1, <1>3, <1>5, <3>1
  <2>2. ASSUME n \notin L, n # h PROVE \E j \in 1 .. Len(r) : r[j] = n
    <3>1. PICK j \in 1 .. Len(q) : q[j] = n
      BY <1>1, <2>2
    <3>2. j # 1
      BY <1>3, <2>2, <3>1
    <3>3. j - 1 \in 1 .. Len(r) /\ (j - 1) + 1 = j
      BY <1>3, <1>4, <3>2
    <3> QED
      BY <1>3, <3>1, <3>3, Zenon
  <2> QED
    BY <2>1, <2>2
<1> QED
  BY <1>2, <1>6, <1>7, <1>8 DEF FreeOK, r, h

\* slab_obj_free puts the object in front of the free list.
LEMMA GiveFree ==
  ASSUME NEW N \in Nat, NEW q, NEW L, FreeOK(N, q, L), NEW n \in 1 .. N, n \in L
  PROVE  FreeOK(N, <<n>> \o q, L \ {n}) /\ Len(<<n>> \o q) = Len(q) + 1
<1> DEFINE r == <<n>> \o q
<1>1. /\ q \in Seq(1 .. N)
      /\ \A j, k \in 1 .. Len(q) : q[j] = q[k] => j = k
      /\ \A m \in 1 .. N : (\E j \in 1 .. Len(q) : q[j] = m) <=> m \notin L
  BY DEF FreeOK
<1>2. /\ r \in Seq(1 .. N) /\ Len(r) = Len(q) + 1 /\ r[1] = n
      /\ \A j \in 1 .. Len(q) : r[j + 1] = q[j]
  BY <1>1, ConsIs
<1> HIDE DEF r
<1>3. Len(q) \in Nat
  BY <1>1
<1>4. ASSUME NEW j \in 1 .. Len(r) PROVE j = 1 \/ (j - 1 \in 1 .. Len(q) /\ r[j] = q[j - 1])
  <2>1. j # 1 => j - 1 \in 1 .. Len(q) /\ (j - 1) + 1 = j
    BY <1>2, <1>3
  <2> QED
    BY <1>2, <2>1, Zenon
<1>5. \A j \in 1 .. Len(q) : q[j] # n
  BY <1>1
<1>6. ASSUME NEW j \in 1 .. Len(r), NEW k \in 1 .. Len(r), r[j] = r[k] PROVE j = k
  <2>1. CASE j = 1 \/ k = 1
    BY <1>2, <1>4, <1>5, <1>6, <2>1, Zenon
  <2>2. CASE j # 1 /\ k # 1
    <3>0. j - 1 \in 1 .. Len(q) /\ k - 1 \in 1 .. Len(q) /\ q[j - 1] = q[k - 1]
      BY <1>4, <1>6, <2>2
    <3>1. j - 1 = k - 1
      BY <1>1, <3>0, Zenon
    <3> QED
      BY <1>2, <1>3, <3>1
  <2> QED
    BY <2>1, <2>2
<1>7. ASSUME NEW m \in 1 .. N PROVE (\E j \in 1 .. Len(r) : r[j] = m) <=> m \notin L \ {n}
  <2>1. ASSUME NEW j \in 1 .. Len(r), r[j] = m PROVE m \notin L \ {n}
    BY <1>1, <1>2, <1>4, <2>1, Zenon
  <2>2. CASE m = n
    <3>1. 1 \in 1 .. Len(r)
      BY <1>2, <1>3
    <3> QED
      BY <1>2, <2>2, <3>1
  <2>3. ASSUME m \notin L PROVE \E j \in 1 .. Len(r) : r[j] = m
    <3>1. PICK j \in 1 .. Len(q) : q[j] = m
      BY <1>1, <2>3
    <3>2. j + 1 \in 1 .. Len(r)
      BY <1>2, <1>3
    <3> QED
      BY <1>2, <3>1, <3>2, Zenon
  <2> QED
    BY <2>1, <2>2, <2>3
<1> QED
  BY <1>2, <1>6, <1>7, Zenon DEF FreeOK, r

\* _slab_allocator_grow puts every object on the free list.
LEMMA NewFree ==
  ASSUME NEW N \in Nat
  PROVE  FreeOK(N, [k \in 1 .. N |-> k], {}) /\ Len([k \in 1 .. N |-> k]) = N
<1> DEFINE r == [k \in 1 .. N |-> k]
<1>1. r \in Seq(1 .. N) /\ Len(r) = N /\ \A j \in 1 .. N : r[j] = j
  OBVIOUS
<1> QED
  BY <1>1 DEF FreeOK

\* The objects in use are as many as the free list says.
LEMMA CountFree ==
  ASSUME NEW N \in Nat, NEW q, NEW L \in SUBSET (1 .. N), FreeOK(N, q, L)
  PROVE  /\ Cardinality(L) = N - Len(q) /\ IsFiniteSet(L)
         /\ Len(q) = Cardinality({q[j] : j \in 1 .. Len(q)})
<1> DEFINE R == {q[j] : j \in 1 .. Len(q)}
<1>1. /\ q \in Seq(1 .. N) /\ Len(q) \in Nat
      /\ \A j, k \in 1 .. Len(q) : q[j] = q[k] => j = k
      /\ \A m \in 1 .. N : (\E j \in 1 .. Len(q) : q[j] = m) <=> m \notin L
  BY DEF FreeOK
<1>2. IsFiniteSet(1 .. Len(q)) /\ Cardinality(1 .. Len(q)) = Len(q)
  <2>1. 1 \in Int /\ Len(q) \in Int
    BY <1>1
  <2>2. /\ IsFiniteSet(1 .. Len(q))
        /\ Cardinality(1 .. Len(q)) = IF 1 > Len(q) THEN 0 ELSE Len(q) - 1 + 1
    BY <2>1, FS_Interval, Zenon
  <2> QED
    BY <1>1, <2>2
<1>3. IsFiniteSet(1 .. N) /\ Cardinality(1 .. N) = N
  <2>1. 1 \in Int /\ N \in Int
    OBVIOUS
  <2>2. /\ IsFiniteSet(1 .. N)
        /\ Cardinality(1 .. N) = IF 1 > N THEN 0 ELSE N - 1 + 1
    BY <2>1, FS_Interval, Zenon
  <2> QED
    BY <2>2
<1>4. Cardinality(R) = Len(q)
  <2>0. \A j \in 1 .. Len(q) : q[j] \in R
    OBVIOUS
  <2>1. [j \in 1 .. Len(q) |-> q[j]] \in Bijection(1 .. Len(q), R)
    <3> DEFINE f == [j \in 1 .. Len(q) |-> q[j]]
    <3>1. f \in [1 .. Len(q) -> R] /\ \A j \in 1 .. Len(q) : f[j] = q[j]
      BY <2>0
    <3>2. \A m \in R : \E j \in 1 .. Len(q) : f[j] = m
      OBVIOUS
    <3> HIDE DEF f, R
    <3>3. f \in Injection(1 .. Len(q), R)
      BY <1>1, <3>1, Zenon DEF Injection, IsInjective
    <3>4. f \in Surjection(1 .. Len(q), R)
      BY <3>1, <3>2, Zenon DEF Surjection
    <3> QED
      BY <3>3, <3>4 DEF Bijection, f
  <2>2. ExistsBijection(1 .. Len(q), R)
    BY <2>1 DEF ExistsBijection
  <2> QED
    BY <1>2, <2>2, FS_Bijection
<1>5. R \subseteq 1 .. N /\ L = (1 .. N) \ R /\ (1 .. N) \cap R = R
  <2>1. \A m \in R : m \in 1 .. N
    BY <1>1
  <2>2. \A m \in 1 .. N : m \in R <=> m \notin L
    BY <1>1
  <2> HIDE DEF R
  <2> QED
    BY <2>1, <2>2, Zenon
<1> HIDE DEF R
<1>6. IsFiniteSet(L) /\ Cardinality(L) = Cardinality(1 .. N) - Cardinality(R)
  <2>1. /\ IsFiniteSet((1 .. N) \ R)
        /\ Cardinality((1 .. N) \ R) = Cardinality(1 .. N) - Cardinality((1 .. N) \cap R)
    BY <1>3, FS_Difference, Zenon
  <2> QED
    BY <1>5, <2>1, Zenon
<1> QED
  BY <1>3, <1>4, <1>6, Zenon DEF R

-----------------------------------------------------------------------------
\* The number of objects of a slab.
LEMMA Nobjs ==
  ASSUME NEW a \in Allocator
  PROVE  sa_slab_nobjs[a] \in Nat /\ sa_slab_nobjs[a] > 0 /\ sa_order[a] \in Order /\ a \in Client
  BY SlabAssumption

\* The fields of a slab.
LEMMA SlabFields ==
  ASSUME NEW a, NEW slab \in SlabRec(a)
  PROVE  /\ slab.s_addr \in Nat /\ slab.s_inuse \in Nat
         /\ slab.s_free \in Seq(1 .. sa_slab_nobjs[a]) /\ Len(slab.s_free) \in Nat
  BY DEF SlabRec

\* An update of the free list and the count of a slab.
Updated(slab, w, m) == [slab EXCEPT !.s_free = w, !.s_inuse = m]

\* It leaves s_addr alone.
LEMMA SlabUpdate ==
  ASSUME NEW a, NEW slab \in SlabRec(a), NEW w \in Seq(1 .. sa_slab_nobjs[a]), NEW m \in Nat
  PROVE  /\ Updated(slab, w, m) \in SlabRec(a)
         /\ Updated(slab, w, m).s_addr = slab.s_addr
         /\ Updated(slab, w, m).s_free = w
         /\ Updated(slab, w, m).s_inuse = m
<1> DEFINE Q == Seq(1 .. sa_slab_nobjs[a])
<1>1. slab \in [s_addr : Nat, s_inuse : Nat, s_free : Q] /\ w \in Q
  BY DEF SlabRec
<1> HIDE DEF Q
<1>2. [slab EXCEPT !.s_free = w, !.s_inuse = m] \in [s_addr : Nat, s_inuse : Nat, s_free : Q]
  BY <1>1, Zenon
<1>3. LET t == [slab EXCEPT !.s_free = w, !.s_inuse = m]
      IN  t.s_addr = slab.s_addr /\ t.s_free = w /\ t.s_inuse = m
  BY <1>1
<1> QED
  BY <1>2, <1>3 DEF SlabRec, Q, Updated

\* A slab does not notice what happens to the objects of other slabs.
LEMMA OtherSlab ==
  ASSUME NEW a, NEW slab, NEW ob, NEW pb, SlabOK(a, slab, ob),
         \A n : <<a, slab.s_addr, n>> \in ob <=> <<a, slab.s_addr, n>> \in pb
  PROVE  SlabOK(a, slab, pb)
<1>1. Live(ob, a, slab.s_addr) = Live(pb, a, slab.s_addr)
  BY DEF Live
<1> QED
  BY <1>1 DEF SlabOK

\* slab_obj_alloc takes an object of a slab that is not full.
LEMMA TakeSlab ==
  ASSUME NEW a \in Allocator, NEW slab, NEW ob, SlabOK(a, slab, ob),
         slab.s_inuse # sa_slab_nobjs[a]
  PROVE  /\ Head(slab.s_free) \in 1 .. sa_slab_nobjs[a]
         /\ SlabOK(a, Take(a, slab), ob \cup {<<a, slab.s_addr, Head(slab.s_free)>>})
         /\ Take(a, slab).s_addr = slab.s_addr
         /\ Take(a, slab) \in SlabRec(a)
<1> DEFINE N == sa_slab_nobjs[a]
           q == slab.s_free
           h == Head(q)
           t == Take(a, slab)
           pb == ob \cup {<<a, slab.s_addr, h>>}
           L == Live(ob, a, slab.s_addr)
<1>1. /\ N \in Nat /\ slab \in SlabRec(a) /\ FreeOK(N, q, L) /\ slab.s_inuse + Len(q) = N
      /\ slab.s_inuse \in Nat /\ Len(q) \in Nat
  BY Nobjs, SlabFields DEF SlabOK
<1>2. Len(q) > 0
  BY <1>1
<1> HIDE DEF N, L
<1>3. /\ h \in 1 .. N /\ h \notin L
      /\ FreeOK(N, Tail(q), L \cup {h}) /\ Len(Tail(q)) = Len(q) - 1
  BY <1>1, <1>2, TakeFree, Zenon
<1>4. Tail(q) \in Seq(1 .. N)
  BY <1>3 DEF FreeOK
<1>5. /\ t \in SlabRec(a) /\ t.s_addr = slab.s_addr /\ t.s_free = Tail(q)
      /\ t.s_inuse = slab.s_inuse + 1
  <2>0. slab \in SlabRec(a)
    BY <1>1
  <2>1. t = Updated(slab, Tail(q), slab.s_inuse + 1)
    BY DEF Take, Updated
  <2>2. slab.s_inuse + 1 \in Nat /\ Tail(q) \in Seq(1 .. sa_slab_nobjs[a])
    BY <1>1, <1>4 DEF N
  <2> HIDE DEF t, q
  <2> DEFINE w == Tail(q)
             m == slab.s_inuse + 1
  <2>3. w \in Seq(1 .. sa_slab_nobjs[a]) /\ m \in Nat
    BY <2>2
  <2> HIDE DEF w, m
  <2>4. /\ Updated(slab, w, m) \in SlabRec(a) /\ Updated(slab, w, m).s_addr = slab.s_addr
        /\ Updated(slab, w, m).s_free = w /\ Updated(slab, w, m).s_inuse = m
    BY <2>0, <2>3, SlabUpdate
  <2> QED
    BY <2>1, <2>4 DEF w, m
<1>6. Live(pb, a, slab.s_addr) = L \cup {h}
  BY <1>3 DEF Live, L, N
<1>7. t.s_inuse + Len(t.s_free) = N
  BY <1>1, <1>3, <1>5
<1> QED
  BY <1>3, <1>5, <1>6, <1>7, Zenon DEF SlabOK, N

\* slab_obj_free gives an object back to its slab.
LEMMA GiveSlab ==
  ASSUME NEW a \in Allocator, NEW slab, NEW ob, SlabOK(a, slab, ob),
         NEW n \in 1 .. sa_slab_nobjs[a], <<a, slab.s_addr, n>> \in ob
  PROVE  /\ SlabOK(a, Give(slab, n), ob \ {<<a, slab.s_addr, n>>})
         /\ Give(slab, n).s_addr = slab.s_addr
         /\ Give(slab, n) \in SlabRec(a)
<1> DEFINE N == sa_slab_nobjs[a]
           q == slab.s_free
           t == Give(slab, n)
           pb == ob \ {<<a, slab.s_addr, n>>}
           L == Live(ob, a, slab.s_addr)
<1>1. /\ N \in Nat /\ slab \in SlabRec(a) /\ FreeOK(N, q, L) /\ slab.s_inuse + Len(q) = N
      /\ slab.s_inuse \in Nat /\ Len(q) \in Nat /\ n \in 1 .. N
  BY Nobjs, SlabFields DEF SlabOK
<1>2. n \in L /\ L \in SUBSET (1 .. N)
  BY DEF Live
<1> HIDE DEF N, L
<1>3. FreeOK(N, <<n>> \o q, L \ {n}) /\ Len(<<n>> \o q) = Len(q) + 1
  BY <1>1, <1>2, GiveFree
<1>4. <<n>> \o q \in Seq(1 .. N)
  BY <1>3 DEF FreeOK
<1>5. slab.s_inuse >= 1
  <2>1. Cardinality(L) = N - Len(q) /\ IsFiniteSet(L)
    BY <1>1, <1>2, CountFree, Zenon
  <2>2. Cardinality(L) # 0
    BY <1>2, <2>1, FS_EmptySet
  <2> QED
    BY <1>1, <2>1, <2>2
<1>6. /\ t \in SlabRec(a) /\ t.s_addr = slab.s_addr /\ t.s_free = <<n>> \o q
      /\ t.s_inuse = slab.s_inuse - 1
  <2>0. slab \in SlabRec(a)
    BY <1>1
  <2>1. t = Updated(slab, <<n>> \o q, slab.s_inuse - 1)
    BY DEF Updated, Give
  <2>2. slab.s_inuse - 1 \in Nat /\ <<n>> \o q \in Seq(1 .. sa_slab_nobjs[a])
    BY <1>1, <1>4, <1>5 DEF N
  <2> HIDE DEF q
  <2> DEFINE w == <<n>> \o q
             m == slab.s_inuse - 1
  <2>3. w \in Seq(1 .. sa_slab_nobjs[a]) /\ m \in Nat
    BY <2>2
  <2> HIDE DEF w, m
  <2>4. /\ Updated(slab, w, m) \in SlabRec(a) /\ Updated(slab, w, m).s_addr = slab.s_addr
        /\ Updated(slab, w, m).s_free = w /\ Updated(slab, w, m).s_inuse = m
    BY <2>0, <2>3, SlabUpdate
  <2> QED
    BY <2>1, <2>4 DEF w, m
<1> HIDE DEF t
<1>7. Live(pb, a, slab.s_addr) = L \ {n}
  BY <1>1 DEF Live, L, N
<1>8. t.s_inuse + Len(t.s_free) = N
  <2>1. Len(t.s_free) = Len(<<n>> \o q)
    BY <1>6, Zenon
  <2>2. Len(t.s_free) = Len(q) + 1
    BY <1>3, <2>1, Zenon
  <2> DEFINE u == t.s_inuse
             v == slab.s_inuse
             l == Len(q)
  <2>3. u = v - 1 /\ v \in Nat /\ l \in Nat /\ v + l = N /\ N \in Nat
    BY <1>1, <1>6
  <2> HIDE DEF u, v, l
  <2>4. u + (l + 1) = N
    BY <2>3
  <2> QED
    BY <2>2, <2>4 DEF u, l
<1> QED
  BY <1>3, <1>6, <1>7, <1>8, Zenon DEF SlabOK, N, t

\* A new slab, of which slab_obj_alloc takes the first object.
LEMMA NewSlab ==
  ASSUME NEW a \in Allocator, NEW i \in Nat, NEW ob, \A n : <<a, i, n>> \notin ob
  PROVE  LET slab == _slab_allocator_grow(a, i)
         IN  /\ SlabOK(a, Take(a, slab), ob \cup {<<a, i, Head(slab.s_free)>>})
             /\ Take(a, slab).s_addr = i /\ Take(a, slab) \in SlabRec(a)
             /\ Head(slab.s_free) \in 1 .. sa_slab_nobjs[a]
<1> DEFINE slab == _slab_allocator_grow(a, i)
           N == sa_slab_nobjs[a]
<1>1. N \in Nat /\ N > 0
  BY Nobjs
<1>2. FreeOK(N, [k \in 1 .. N |-> k], {}) /\ Len([k \in 1 .. N |-> k]) = N
  BY <1>1, NewFree
<1>3. slab.s_addr = i /\ slab.s_inuse = 0 /\ slab.s_free = [k \in 1 .. N |-> k] /\ slab \in SlabRec(a)
  <2>1. [k \in 1 .. N |-> k] \in Seq(1 .. N)
    BY <1>2 DEF FreeOK
  <2> QED
    BY <2>1 DEF _slab_allocator_grow, SlabRec
<1>4. Live(ob, a, i) = {}
  BY DEF Live
<1> HIDE DEF slab
<1>5. SlabOK(a, slab, ob)
  BY <1>1, <1>2, <1>3, <1>4 DEF SlabOK
<1>6. slab.s_inuse # N
  BY <1>1, <1>3
<1>7. /\ Head(slab.s_free) \in 1 .. N
      /\ SlabOK(a, Take(a, slab), ob \cup {<<a, slab.s_addr, Head(slab.s_free)>>})
      /\ Take(a, slab).s_addr = slab.s_addr
      /\ Take(a, slab) \in SlabRec(a)
  BY <1>5, <1>6, TakeSlab
<1> QED
  BY <1>3, <1>7 DEF slab

\* A slab with s_inuse = 0 has no object in use.
LEMMA EmptySlab ==
  ASSUME NEW a \in Allocator, NEW slab, NEW ob, SlabOK(a, slab, ob), slab.s_inuse = 0
  PROVE  \A n \in 1 .. sa_slab_nobjs[a] : <<a, slab.s_addr, n>> \notin ob
<1> DEFINE N == sa_slab_nobjs[a]
           L == Live(ob, a, slab.s_addr)
<1>1. N \in Nat /\ FreeOK(N, slab.s_free, L) /\ Len(slab.s_free) \in Nat /\ 0 + Len(slab.s_free) = N
  BY Nobjs, SlabFields DEF SlabOK
<1>2. L \in SUBSET (1 .. N)
  BY DEF Live
<1> HIDE DEF N, L
<1>3. Cardinality(L) = 0 /\ IsFiniteSet(L)
  <2>1. Cardinality(L) = N - Len(slab.s_free) /\ IsFiniteSet(L)
    BY <1>1, <1>2, CountFree, Zenon
  <2> QED
    BY <1>1, <2>1
<1>4. L = {}
  BY <1>3, FS_EmptySet
<1> QED
  BY <1>4 DEF L, N, Live

-----------------------------------------------------------------------------
\* A list of slabs does not notice what happens to other objects.
LEMMA OtherList ==
  ASSUME NEW a, NEW list, NEW ob, NEW pb, ListOK(a, list, ob),
         \A k \in 1 .. Len(list) : \A n :
           <<a, list[k].s_addr, n>> \in ob <=> <<a, list[k].s_addr, n>> \in pb
  PROVE  ListOK(a, list, pb)
  BY OtherSlab DEF ListOK

\* One slab of a list is updated.
LEMMA ListUpdate ==
  ASSUME NEW a, NEW list, NEW ob, NEW pb, ListOK(a, list, ob),
         NEW k \in 1 .. Len(list), NEW new, new \in Seq(SlabRec(a)), Len(new) = Len(list),
         \A j \in 1 .. Len(list) : j # k => new[j] = list[j],
         new[k].s_addr = list[k].s_addr, SlabOK(a, new[k], pb),
         \A i, n : i # list[k].s_addr => (<<a, i, n>> \in ob <=> <<a, i, n>> \in pb)
  PROVE  ListOK(a, new, pb) /\ BlocksOf(a, new) = BlocksOf(a, list)
         /\ \A j \in 1 .. Len(list) : new[j].s_addr = list[j].s_addr
<1>1. /\ list \in Seq(SlabRec(a))
      /\ \A j \in 1 .. Len(list) : SlabOK(a, list[j], ob)
      /\ \A i, j \in 1 .. Len(list) : list[i].s_addr = list[j].s_addr => i = j
  BY DEF ListOK
<1>2. \A j \in 1 .. Len(list) : new[j].s_addr = list[j].s_addr
  OBVIOUS
<1>3. ASSUME NEW j \in 1 .. Len(list) PROVE SlabOK(a, new[j], pb)
  <2>1. CASE j = k
    BY <2>1
  <2>2. CASE j # k
    <3>1. new[j] = list[j] /\ list[j].s_addr # list[k].s_addr
      BY <1>1, <2>2
    <3>2. \A n : <<a, list[j].s_addr, n>> \in ob <=> <<a, list[j].s_addr, n>> \in pb
      BY <3>1
    <3>3. SlabOK(a, list[j], pb)
      BY <1>1, <3>2, OtherSlab
    <3> QED
      BY <3>1, <3>3
  <2> QED
    BY <2>1, <2>2
<1>4. ListOK(a, new, pb)
  BY <1>1, <1>2, <1>3, Zenon DEF ListOK
<1>5. BlocksOf(a, new) = BlocksOf(a, list)
  BY <1>2, Zenon DEF BlocksOf
<1> QED
  BY <1>2, <1>4, <1>5

\* What slab_obj_alloc and slab_obj_free do to the lists and the objects keeps the
\* invariant: allocator a has the list new, and only its objects change.
LEMMA ObjectsSInv ==
  ASSUME SInv, IInv', UNCHANGED <<vars, goal>>, NEW a \in Allocator, NEW new,
         slabs' = [b \in Allocator |-> IF b = a THEN new ELSE slabs[b]],
         ListOK(a, new, objs'), BlocksOf(a, new) = BlocksOf(a, slabs[a]),
         \A b, i, n : b # a => (<<b, i, n>> \in objs <=> <<b, i, n>> \in objs'),
         \A x \in objs' : ObjectOK(x, slabs')
  PROVE  SInv'
<1>1. \A b \in Allocator : ListOK(b, slabs[b], objs)
  BY DEF SInv
<1>2. ASSUME NEW b \in Allocator PROVE ListOK(b, slabs'[b], objs')
  <2>1. CASE b = a
    BY <2>1
  <2>2. CASE b # a
    <3>1. slabs'[b] = slabs[b]
      BY <2>2
    <3>2. ListOK(b, slabs[b], objs')
      BY <1>1, <2>2, OtherList
    <3> QED
      BY <3>1, <3>2
  <2> QED
    BY <2>1, <2>2
<1>3. \A b \in Allocator : BlocksOf(b, slabs'[b]) = BlocksOf(b, slabs[b])
  OBVIOUS
<1>4. used' = used /\ op' = op /\ goal' = goal
  BY DEF vars
<1>5. \A b \in Allocator : BlocksOK(b, slabs'[b], used'[b], op'.at = "idle" /\ goal' = b)
  <2>1. \A b \in Allocator : BlocksOK(b, slabs[b], used[b], op.at = "idle" /\ goal = b)
    BY DEF SInv
  <2> QED
    BY <1>3, <1>4, <2>1 DEF BlocksOK
<1>6. SplitForGoal'
  BY <1>4 DEF SInv, SplitForGoal
<1>7. slabs' = [b \in Allocator |-> slabs'[b]]
  OBVIOUS
<1>8. goal' \in Allocator \cup {NONE}
  BY <1>4 DEF SInv
<1> QED
  BY <1>2, <1>5, <1>6, <1>7, <1>8 DEF SInv

\* An object whose slab keeps its address stays in a slab.
LEMMA ObjectStays ==
  ASSUME NEW sl, NEW a \in Allocator, NEW new, NEW x, ObjectOK(x, sl), Len(new) = Len(sl[a]),
         \A j \in 1 .. Len(sl[a]) : new[j].s_addr = sl[a][j].s_addr
  PROVE  ObjectOK(x, [b \in Allocator |-> IF b = a THEN new ELSE sl[b]])
<1>0. PICK b \in Allocator : \E k \in 1 .. Len(sl[b]) : \E n \in 1 .. sa_slab_nobjs[b] :
        x = <<b, sl[b][k].s_addr, n>>
  BY DEF ObjectOK
<1>1. PICK k \in 1 .. Len(sl[b]), n \in 1 .. sa_slab_nobjs[b] : x = <<b, sl[b][k].s_addr, n>>
  BY <1>0
<1> DEFINE tl == [c \in Allocator |-> IF c = a THEN new ELSE sl[c]]
<1>2. k \in 1 .. Len(tl[b]) /\ tl[b][k].s_addr = sl[b][k].s_addr
  <2>1. CASE b = a
    BY <2>1
  <2>2. CASE b # a
    BY <2>2
  <2> QED
    BY <2>1, <2>2
<1> HIDE DEF tl
<1>3. ObjectOK(x, tl)
  BY <1>1, <1>2 DEF ObjectOK
<1> QED
  BY <1>3 DEF tl

\* slab_obj_alloc from a slab that is not full.
LEMMA TakeSInv ==
  ASSUME SInv, IInv', UNCHANGED <<vars, goal>>, NEW a \in Allocator, NEW k \in NotFull(a),
         slabs' = [slabs EXCEPT ![a][k] = Take(a, slabs[a][k])],
         objs' = objs \cup {<<a, slabs[a][k].s_addr, Head(slabs[a][k].s_free)>>}
  PROVE  SInv'
<1> DEFINE list == slabs[a]
           s0 == list[k]
           new == [list EXCEPT ![k] = Take(a, s0)]
           x0 == <<a, s0.s_addr, Head(s0.s_free)>>
<1>1. ListOK(a, list, objs) /\ slabs = [b \in Allocator |-> slabs[b]]
  BY DEF SInv
<1>2. list \in Seq(SlabRec(a)) /\ k \in 1 .. Len(list) /\ s0.s_inuse # sa_slab_nobjs[a]
  BY <1>1 DEF ListOK, NotFull
<1>3. SlabOK(a, s0, objs)
  BY <1>1, <1>2 DEF ListOK
<1>4. /\ Head(s0.s_free) \in 1 .. sa_slab_nobjs[a] /\ SlabOK(a, Take(a, s0), objs')
      /\ Take(a, s0).s_addr = s0.s_addr /\ Take(a, s0) \in SlabRec(a)
  BY <1>2, <1>3, TakeSlab, Zenon
<1>5. slabs' = [b \in Allocator |-> IF b = a THEN new ELSE slabs[b]]
  BY <1>1, Zenon
<1>6. /\ new \in Seq(SlabRec(a)) /\ Len(new) = Len(list) /\ new[k] = Take(a, s0)
      /\ \A j \in 1 .. Len(list) : j # k => new[j] = list[j]
  <2> DEFINE R == SlabRec(a)
             t == Take(a, s0)
  <2>1. list \in Seq(R) /\ t \in R /\ k \in 1 .. Len(list)
    BY <1>2, <1>4
  <2> HIDE DEF R, t, list
  <2>2. [list EXCEPT ![k] = t] \in Seq(R) /\ Len([list EXCEPT ![k] = t]) = Len(list)
    BY <2>1
  <2>3. [list EXCEPT ![k] = t][k] = t /\ \A j \in 1 .. Len(list) : j # k => [list EXCEPT ![k] = t][j] = list[j]
    BY <2>1
  <2> QED
    BY <2>2, <2>3 DEF R, t
<1>7. /\ \A i, n : i # s0.s_addr => (<<a, i, n>> \in objs <=> <<a, i, n>> \in objs')
      /\ \A b, i, n : b # a => (<<b, i, n>> \in objs <=> <<b, i, n>> \in objs')
  OBVIOUS
<1> HIDE DEF new
<1>8. /\ ListOK(a, new, objs') /\ BlocksOf(a, new) = BlocksOf(a, list)
      /\ \A j \in 1 .. Len(list) : new[j].s_addr = list[j].s_addr
  <2>1. k \in 1 .. Len(list) /\ new[k].s_addr = list[k].s_addr /\ SlabOK(a, new[k], objs')
    BY <1>2, <1>4, <1>6
  <2>2. \A i, n : i # list[k].s_addr => (<<a, i, n>> \in objs <=> <<a, i, n>> \in objs')
    BY <1>7
  <2> HIDE DEF list
  <2> QED
    BY <1>1, <1>6, <2>1, <2>2, ListUpdate
<1>9. ASSUME NEW x \in objs' PROVE ObjectOK(x, slabs')
  <2>1. CASE x \in objs
    <3>1. ObjectOK(x, slabs)
      BY <2>1 DEF SInv
    <3>2. Len(new) = Len(slabs[a]) /\ \A j \in 1 .. Len(slabs[a]) : new[j].s_addr = slabs[a][j].s_addr
      BY <1>6, <1>8
    <3>3. ObjectOK(x, [b \in Allocator |-> IF b = a THEN new ELSE slabs[b]])
      BY <3>1, <3>2, ObjectStays, Zenon
    <3> QED
      BY <1>5, <3>3, Zenon
  <2>2. CASE x = x0
    <3>1. slabs'[a] = new /\ k \in 1 .. Len(new) /\ new[k].s_addr = s0.s_addr
      BY <1>2, <1>4, <1>5, <1>6
    <3> QED
      BY <1>4, <2>2, <3>1 DEF ObjectOK
  <2> QED
    BY <2>1, <2>2
<1> QED
  BY <1>5, <1>7, <1>8, <1>9, ObjectsSInv, Zenon

\* slab_obj_free.
LEMMA GiveSInv == ASSUME SInv, IInv', NEW x0 \in objs, slab_obj_free(x0) PROVE SInv'
<1>0. PICK a \in Allocator : \E k \in 1 .. Len(slabs[a]) : \E n \in 1 .. sa_slab_nobjs[a] :
        x0 = <<a, slabs[a][k].s_addr, n>>
  BY DEF SInv, ObjectOK
<1>1. PICK k \in 1 .. Len(slabs[a]), n \in 1 .. sa_slab_nobjs[a] :
        x0 = <<a, slabs[a][k].s_addr, n>>
  BY <1>0
<1> DEFINE list == slabs[a]
           s0 == list[k]
           t == Give(s0, n)
           new == [j \in 1 .. Len(list) |-> IF j = k THEN t ELSE list[j]]
<1>2. ListOK(a, list, objs) /\ slabs = [b \in Allocator |-> slabs[b]]
  BY DEF SInv
<1>3. /\ list \in Seq(SlabRec(a)) /\ k \in 1 .. Len(list)
      /\ \A i, j \in 1 .. Len(list) : list[i].s_addr = list[j].s_addr => i = j
  BY <1>2, Zenon DEF ListOK
<1>4. SlabOK(a, s0, objs)
  BY <1>2, <1>3 DEF ListOK
<1>5. objs' = objs \ {x0} /\ UNCHANGED <<vars, goal>> /\ x0[1] = a /\ x0[2] = s0.s_addr /\ x0[3] = n
  BY <1>1 DEF slab_obj_free
<1>6. SlabOK(a, t, objs') /\ t.s_addr = s0.s_addr /\ t \in SlabRec(a)
  <2>1. <<a, s0.s_addr, n>> \in objs /\ objs' = objs \ {<<a, s0.s_addr, n>>}
    BY <1>1, <1>5
  <2> HIDE DEF s0
  <2>2. SlabOK(a, t, objs \ {<<a, s0.s_addr, n>>}) /\ t.s_addr = s0.s_addr /\ t \in SlabRec(a)
    BY <1>4, <2>1, GiveSlab
  <2> QED
    BY <2>1, <2>2
<1>7. slabs' = [b \in Allocator |-> IF b = a THEN new ELSE slabs[b]]
  <2> DEFINE F == [j \in DOMAIN slabs[x0[1]] |->
                     IF slabs[x0[1]][j].s_addr = x0[2] THEN Give(slabs[x0[1]][j], x0[3])
                     ELSE slabs[x0[1]][j]]
  <2>1. slabs' = [slabs EXCEPT ![x0[1]] = F]
    BY DEF slab_obj_free
  <2>2. DOMAIN list = 1 .. Len(list) /\ \A j \in 1 .. Len(list) : list[j].s_addr = s0.s_addr <=> j = k
    BY <1>3
  <2>3. DOMAIN F = 1 .. Len(list) /\ F = [j \in DOMAIN F |-> F[j]]
    BY <1>5, <2>2
  <2>4. ASSUME NEW j \in 1 .. Len(list) PROVE F[j] = IF j = k THEN t ELSE list[j]
    <3>1. CASE j = k
      BY <1>5, <2>2, <3>1
    <3>2. CASE j # k
      BY <1>5, <2>2, <3>2
    <3> QED
      BY <3>1, <3>2
  <2> HIDE DEF F, t
  <2>5. F = new
    BY <2>3, <2>4
  <2> HIDE DEF new
  <2> QED
    BY <1>2, <1>5, <2>1, <2>5
<1>8. /\ new \in Seq(SlabRec(a)) /\ Len(new) = Len(list) /\ new[k] = t
      /\ \A j \in 1 .. Len(list) : j # k => new[j] = list[j]
  <2> DEFINE R == SlabRec(a)
  <2>1. list \in Seq(R) /\ t \in R /\ k \in 1 .. Len(list)
    BY <1>3, <1>6
  <2> HIDE DEF R, t, list
  <2>2. \A j \in 1 .. Len(list) : list[j] \in R
    BY <2>1
  <2>3. Len(list) \in Nat
    BY <2>1
  <2> QED
    BY <2>1, <2>2, <2>3 DEF R
<1>9. /\ \A i, m : i # s0.s_addr => (<<a, i, m>> \in objs <=> <<a, i, m>> \in objs')
      /\ \A b, i, m : b # a => (<<b, i, m>> \in objs <=> <<b, i, m>> \in objs')
  BY <1>1, <1>5
<1> HIDE DEF new
<1>10. /\ ListOK(a, new, objs') /\ BlocksOf(a, new) = BlocksOf(a, list)
       /\ \A j \in 1 .. Len(list) : new[j].s_addr = list[j].s_addr
  <2>1. k \in 1 .. Len(list) /\ new[k].s_addr = list[k].s_addr /\ SlabOK(a, new[k], objs')
    BY <1>3, <1>6, <1>8
  <2>2. \A i, m : i # list[k].s_addr => (<<a, i, m>> \in objs <=> <<a, i, m>> \in objs')
    BY <1>9
  <2> HIDE DEF list
  <2> QED
    BY <1>2, <1>8, <2>1, <2>2, ListUpdate, Zenon
<1>11. ASSUME NEW x \in objs' PROVE ObjectOK(x, slabs')
  <2>1. ObjectOK(x, slabs)
    BY <1>5 DEF SInv
  <2>2. Len(new) = Len(slabs[a]) /\ \A j \in 1 .. Len(slabs[a]) : new[j].s_addr = slabs[a][j].s_addr
    BY <1>8, <1>10
  <2>3. ObjectOK(x, [b \in Allocator |-> IF b = a THEN new ELSE slabs[b]])
    BY <2>1, <2>2, ObjectStays
  <2> QED
    BY <1>7, <2>3
<1> QED
  BY <1>5, <1>7, <1>9, <1>10, <1>11, ObjectsSInv, Zenon

\* _slab_allocator_grow has its pages: the new slab becomes the head of the list.
LEMMA GrowSInv == ASSUME SInv, IInv', NEW a \in Allocator, GrowEnds(a) PROVE SInv'
<1> DEFINE list == slabs[a]
<1>1. ListOK(a, list, objs) /\ slabs = [b \in Allocator |-> slabs[b]]
  BY DEF SInv
<1>2. /\ list \in Seq(SlabRec(a)) /\ Len(list) \in Nat /\ DOMAIN list = 1 .. Len(list)
      /\ \A k \in 1 .. Len(list) : SlabOK(a, list[k], objs) /\ list[k] \in SlabRec(a)
      /\ \A i, j \in 1 .. Len(list) : list[i].s_addr = list[j].s_addr => i = j
  BY <1>1 DEF ListOK
<1>3. /\ op.at = "idle" /\ goal = a /\ goal' = NONE /\ used' = used /\ op' = op
      /\ NONE \notin Allocator
  BY SlabAssumption DEF GrowEnds, vars
<1> DEFINE new == {b \in used[a] : \A k \in DOMAIN list : list[k].s_addr # b[2]}
<1>4. BlocksOK(a, list, used[a], TRUE)
  BY <1>3 DEF SInv, BlocksOK
<1>5. \A b \in BlocksOf(a, list) : b \notin new
  BY <1>2 DEF BlocksOf
<1>6. \A b \in Allocator : b # a => used[b] = BlocksOf(b, slabs[b])
  BY <1>3 DEF SInv, BlocksOK
<1>7. SplitForGoal'
  BY <1>3 DEF SplitForGoal
<1>8. CASE new = {} /\ UNCHANGED <<slabs, objs>>
  <2>1. used[a] = BlocksOf(a, list)
    <3>1. ASSUME NEW i \in Nat, used[a] = BlocksOf(a, list) \cup {<<sa_order[a], i>>}
          PROVE  used[a] = BlocksOf(a, list)
      <4>1. <<sa_order[a], i>> \in used[a] /\ <<sa_order[a], i>>[2] = i
        BY <3>1
      <4>2. PICK k \in 1 .. Len(list) : list[k].s_addr = i
        BY <1>2, <1>8, <4>1
      <4>3. <<sa_order[a], i>> \in BlocksOf(a, list)
        BY <4>2 DEF BlocksOf
      <4> QED
        BY <3>1, <4>3
    <3> QED
      BY <1>4, <3>1 DEF BlocksOK
  <2>2. \A b \in Allocator : BlocksOK(b, slabs'[b], used'[b], op'.at = "idle" /\ goal' = b)
    BY <1>3, <1>6, <1>8, <2>1 DEF BlocksOK
  <2> QED
    BY <1>3, <1>7, <1>8, <2>2 DEF SInv
<1>9. ASSUME NEW b \in new,
             slabs' = [slabs EXCEPT ![a] = Linked(Take(a, _slab_allocator_grow(a, b[2])), @)],
             objs' = objs \cup {<<a, b[2], Head(_slab_allocator_grow(a, b[2]).s_free)>>}
      PROVE  SInv'
  <2>1. PICK i \in Nat : used[a] = BlocksOf(a, list) \cup {<<sa_order[a], i>>}
    BY <1>4, <1>5 DEF BlocksOK
  <2>2. b = <<sa_order[a], i>> /\ b[2] = i
    BY <1>5, <2>1
  <2>3. \A k \in 1 .. Len(list) : list[k].s_addr # i
    BY <1>2, <2>2
  <2>4. \A n : <<a, i, n>> \notin objs
    <3> SUFFICES ASSUME NEW n, <<a, i, n>> \in objs PROVE FALSE
      OBVIOUS
    <3>1. ObjectOK(<<a, i, n>>, slabs)
      BY DEF SInv
    <3> QED
      BY <2>3, <3>1 DEF ObjectOK
  <2> DEFINE slab == _slab_allocator_grow(a, i)
             t == Take(a, slab)
             h == Head(slab.s_free)
             nl == <<t>> \o list
  <2>5. /\ SlabOK(a, t, objs \cup {<<a, i, h>>}) /\ t.s_addr = i /\ t \in SlabRec(a)
        /\ h \in 1 .. sa_slab_nobjs[a]
    BY <2>4, NewSlab, Zenon
  <2>6. objs' = objs \cup {<<a, i, h>>} /\ slabs' = [slabs EXCEPT ![a] = nl]
    BY <1>9, <2>2 DEF Linked
  <2> HIDE DEF slab, t, h
  <2>7. /\ nl \in Seq(SlabRec(a)) /\ Len(nl) = Len(list) + 1 /\ nl[1] = t
        /\ \A j \in 1 .. Len(list) : nl[j + 1] = list[j]
    BY <1>2, <2>5, ConsIs
  <2>8. slabs' = [c \in Allocator |-> IF c = a THEN nl ELSE slabs[c]]
    BY <1>1, <2>6, Zenon
  <2> HIDE DEF nl, list
  <2>9. ASSUME NEW j \in 1 .. Len(nl), j # 1 PROVE j - 1 \in 1 .. Len(list) /\ nl[j] = list[j - 1]
    <3>1. j - 1 \in 1 .. Len(list) /\ (j - 1) + 1 = j
      BY <1>2, <2>7, <2>9
    <3> QED
      BY <2>7, <3>1
  <2>10. ListOK(a, nl, objs')
    <3>1. ASSUME NEW j \in 1 .. Len(nl) PROVE SlabOK(a, nl[j], objs')
      <4>1. CASE j = 1
        BY <2>5, <2>6, <2>7, <4>1
      <4>2. CASE j # 1
        <5>1. /\ j - 1 \in 1 .. Len(list) /\ nl[j] = list[j - 1] /\ SlabOK(a, list[j - 1], objs)
              /\ list[j - 1].s_addr # i
          BY <1>2, <2>3, <2>9, <4>2
        <5>2. \A n : <<a, list[j - 1].s_addr, n>> \in objs <=> <<a, list[j - 1].s_addr, n>> \in objs'
          BY <2>6, <5>1
        <5>3. SlabOK(a, list[j - 1], objs')
          BY <5>1, <5>2, OtherSlab
        <5> QED
          BY <5>1, <5>3
      <4> QED
        BY <4>1, <4>2
    <3>2. ASSUME NEW j \in 1 .. Len(nl), NEW k \in 1 .. Len(nl), nl[j].s_addr = nl[k].s_addr PROVE j = k
      <4>1. CASE j = 1 \/ k = 1
        BY <2>3, <2>5, <2>7, <2>9, <3>2, <4>1
      <4>2. CASE j # 1 /\ k # 1
        <5>1. j - 1 \in 1 .. Len(list) /\ k - 1 \in 1 .. Len(list) /\ list[j - 1].s_addr = list[k - 1].s_addr
          BY <2>9, <3>2, <4>2
        <5>2. j - 1 = k - 1
          BY <1>2, <5>1, Zenon
        <5> QED
          BY <1>2, <2>7, <5>2
      <4> QED
        BY <4>1, <4>2
    <3> QED
      BY <2>7, <3>1, <3>2, Zenon DEF ListOK
  <2>11. BlocksOf(a, nl) = BlocksOf(a, list) \cup {<<sa_order[a], i>>}
    <3>1. ASSUME NEW y \in BlocksOf(a, nl) PROVE y \in BlocksOf(a, list) \cup {<<sa_order[a], i>>}
      <4>1. PICK j \in 1 .. Len(nl) : y = <<sa_order[a], nl[j].s_addr>>
        BY <3>1 DEF BlocksOf
      <4>2. CASE j = 1
        BY <2>5, <2>7, <4>1, <4>2
      <4>3. CASE j # 1
        BY <2>9, <4>1, <4>3 DEF BlocksOf
      <4> QED
        BY <4>2, <4>3
    <3>2. ASSUME NEW y \in BlocksOf(a, list) PROVE y \in BlocksOf(a, nl)
      <4>1. PICK j \in 1 .. Len(list) : y = <<sa_order[a], list[j].s_addr>>
        BY <3>2 DEF BlocksOf
      <4>2. j + 1 \in 1 .. Len(nl) /\ nl[j + 1] = list[j]
        BY <1>2, <2>7
      <4> QED
        BY <4>1, <4>2 DEF BlocksOf
    <3>3. <<sa_order[a], i>> \in BlocksOf(a, nl)
      <4>1. 1 \in 1 .. Len(nl)
        BY <1>2, <2>7
      <4> QED
        BY <2>5, <2>7, <4>1 DEF BlocksOf
    <3> QED
      BY <3>1, <3>2, <3>3
  <2>12. ASSUME NEW c \in Allocator PROVE ListOK(c, slabs'[c], objs')
    <3>1. CASE c = a
      BY <2>8, <2>10, <3>1
    <3>2. CASE c # a
      <4>1. slabs'[c] = slabs[c] /\ ListOK(c, slabs[c], objs)
        BY <2>8, <3>2 DEF SInv
      <4>2. \A k, n : <<c, k, n>> \in objs <=> <<c, k, n>> \in objs'
        BY <2>6, <3>2
      <4> QED
        BY <4>1, <4>2, OtherList
    <3> QED
      BY <3>1, <3>2
  <2>13. ASSUME NEW x \in objs' PROVE ObjectOK(x, slabs')
    <3>1. CASE x = <<a, i, h>>
      <4>1. slabs'[a] = nl /\ 1 \in 1 .. Len(nl) /\ nl[1].s_addr = i
        BY <1>2, <2>5, <2>7, <2>8
      <4> QED
        BY <2>5, <3>1, <4>1 DEF ObjectOK
    <3>2. CASE x \in objs
      <4>1. PICK c \in Allocator : \E k \in 1 .. Len(slabs[c]) : \E n \in 1 .. sa_slab_nobjs[c] :
              x = <<c, slabs[c][k].s_addr, n>>
        BY <3>2 DEF SInv, ObjectOK
      <4>2. PICK k \in 1 .. Len(slabs[c]), n \in 1 .. sa_slab_nobjs[c] : x = <<c, slabs[c][k].s_addr, n>>
        BY <4>1
      <4>3. CASE c = a
        <5>1. k + 1 \in 1 .. Len(nl) /\ nl[k + 1] = slabs[c][k] /\ slabs'[c] = nl
          BY <1>2, <2>7, <2>8, <4>3 DEF list
        <5> QED
          BY <4>2, <5>1 DEF ObjectOK
      <4>4. CASE c # a
        BY <2>8, <4>2, <4>4 DEF ObjectOK
      <4> QED
        BY <4>3, <4>4
    <3> QED
      BY <2>6, <3>1, <3>2
  <2>14. ASSUME NEW c \in Allocator
         PROVE  BlocksOK(c, slabs'[c], used'[c], op'.at = "idle" /\ goal' = c)
    <3>1. CASE c = a
      BY <1>3, <2>1, <2>8, <2>11, <3>1, Zenon DEF BlocksOK
    <3>2. CASE c # a
      BY <1>3, <1>6, <2>8, <3>2 DEF BlocksOK
    <3> QED
      BY <3>1, <3>2
  <2>15. slabs' = [c \in Allocator |-> slabs'[c]] /\ goal' \in Allocator \cup {NONE}
    BY <1>3, <2>8
  <2> QED
    BY <1>7, <2>12, <2>13, <2>14, <2>15 DEF SInv
<1> QED
  BY <1>8, <1>9 DEF GrowEnds

\* Unlinking a slab leaves the others, in their order (slab_allocators_reclaim).
LEMMA UnlinkedIs ==
  ASSUME NEW A, NEW list \in Seq(A), NEW k \in 1 .. Len(list)
  PROVE  /\ Unlinked(list, k) \in Seq(A) /\ Len(Unlinked(list, k)) = Len(list) - 1
         /\ \A j \in 1 .. Len(list) - 1 :
              Unlinked(list, k)[j] = IF j < k THEN list[j] ELSE list[j + 1]
<1>1. Len(list) \in Nat /\ Len(list) - 1 \in Nat
  OBVIOUS
<1>2. \A j \in 1 .. Len(list) - 1 : j \in 1 .. Len(list) /\ j + 1 \in 1 .. Len(list)
  BY <1>1
<1>3. \A j \in 1 .. Len(list) : list[j] \in A
  OBVIOUS
<1> DEFINE m == Len(list) - 1
           F(j) == IF j < k THEN list[j] ELSE list[j + 1]
<1>4. \A j \in 1 .. m : F(j) \in A
  BY <1>2, <1>3
<1>5. m \in Nat /\ Unlinked(list, k) = [j \in 1 .. m |-> F(j)]
  BY <1>1 DEF Unlinked
<1> HIDE DEF m, F
<1>6. /\ [j \in 1 .. m |-> F(j)] \in Seq(A) /\ Len([j \in 1 .. m |-> F(j)]) = m
      /\ \A j \in 1 .. m : [i \in 1 .. m |-> F(i)][j] = F(j)
  BY <1>4, <1>5
<1>7. /\ Unlinked(list, k) \in Seq(A) /\ Len(Unlinked(list, k)) = m
      /\ \A j \in 1 .. m : Unlinked(list, k)[j] = F(j)
  BY <1>5, <1>6
<1> QED
  BY <1>7 DEF m, F

\* slab_allocators_reclaim frees a slab without objects.
LEMMA UnlinkSInv ==
  ASSUME SInv, IInv', op.at = "reclaim", NEW a \in Allocator, NEW k \in Empty(a),
         page_free_n(a, <<sa_order[a], slabs[a][k].s_addr>>),
         slabs' = [slabs EXCEPT ![a] = Unlinked(@, k)],
         UNCHANGED <<objs, goal>>
  PROVE  SInv'
<1> DEFINE list == slabs[a]
           new == Unlinked(list, k)
<1>1. ListOK(a, list, objs) /\ slabs = [b \in Allocator |-> slabs[b]]
  BY DEF SInv
<1>2. /\ list \in Seq(SlabRec(a)) /\ Len(list) \in Nat /\ k \in 1 .. Len(list)
      /\ \A j \in 1 .. Len(list) : SlabOK(a, list[j], objs)
      /\ \A i, j \in 1 .. Len(list) : list[i].s_addr = list[j].s_addr => i = j
      /\ list[k].s_inuse = 0
  BY <1>1 DEF ListOK, Empty
<1>3. /\ new \in Seq(SlabRec(a)) /\ Len(new) = Len(list) - 1
      /\ \A j \in 1 .. Len(list) - 1 : new[j] = IF j < k THEN list[j] ELSE list[j + 1]
  <2> DEFINE R == SlabRec(a)
  <2>1. list \in Seq(R) /\ k \in 1 .. Len(list)
    BY <1>2
  <2> HIDE DEF R, list
  <2>2. /\ Unlinked(list, k) \in Seq(R) /\ Len(Unlinked(list, k)) = Len(list) - 1
        /\ \A j \in 1 .. Len(list) - 1 :
              Unlinked(list, k)[j] = IF j < k THEN list[j] ELSE list[j + 1]
    BY <2>1, UnlinkedIs
  <2> QED
    BY <2>2 DEF R
<1>4. slabs' = [b \in Allocator |-> IF b = a THEN new ELSE slabs[b]]
  BY <1>1
<1>5. /\ op'.at = "join" /\ goal' = goal /\ objs' = objs /\ op.at = "reclaim"
      /\ used' = [used EXCEPT ![a] = @ \ {<<sa_order[a], list[k].s_addr>>}]
  <2>1. op \in Op
    BY DEF SInv, IInv, TypeOK
  <2>2. op'.at = "join"
    BY <2>1 DEF page_free_n, Op
  <2>3. used' = [used EXCEPT ![a] = @ \ {<<sa_order[a], list[k].s_addr>>}]
    BY DEF page_free_n
  <2> QED
    BY <2>2, <2>3
<1>6. used = [c \in Client |-> used[c]] /\ a \in Client /\ Allocator \subseteq Client
  BY SlabAssumption DEF SInv, IInv, TypeOK
<1>7. \A b \in Allocator : used[b] = BlocksOf(b, slabs[b])
  BY <1>5 DEF SInv, BlocksOK
<1>8. \A n \in 1 .. sa_slab_nobjs[a] : <<a, list[k].s_addr, n>> \notin objs
  BY <1>2, EmptySlab
<1> HIDE DEF new, list
<1>9. ASSUME NEW j \in 1 .. Len(new)
      PROVE  \E m \in 1 .. Len(list) : m # k /\ new[j] = list[m] /\ m = (IF j < k THEN j ELSE j + 1)
  <2>1. CASE j < k
    <3>1. j \in 1 .. Len(list) /\ j \in 1 .. Len(list) - 1 /\ j # k
      BY <1>2, <1>3, <2>1
    <3> QED
      BY <1>3, <2>1, <3>1
  <2>2. CASE ~(j < k)
    <3>1. j + 1 \in 1 .. Len(list) /\ j \in 1 .. Len(list) - 1 /\ j + 1 # k
      BY <1>2, <1>3, <2>2
    <3> QED
      BY <1>3, <2>2, <3>1
  <2> QED
    BY <2>1, <2>2
<1>10. ASSUME NEW m \in 1 .. Len(list), m # k
       PROVE  \E j \in 1 .. Len(new) : new[j] = list[m]
  <2>1. CASE m < k
    <3>1. m \in 1 .. Len(list) - 1 /\ m \in 1 .. Len(new)
      BY <1>2, <1>3, <2>1
    <3> QED
      BY <1>3, <2>1, <3>1
  <2>2. CASE m > k
    <3>1. m - 1 \in 1 .. Len(list) - 1 /\ m - 1 \in 1 .. Len(new) /\ ~(m - 1 < k) /\ (m - 1) + 1 = m
      BY <1>2, <1>3, <2>2
    <3> QED
      BY <1>3, <3>1
  <2> QED
    BY <1>2, <1>10, <2>1, <2>2
<1>11. ListOK(a, new, objs)
  <2>1. \A j \in 1 .. Len(new) : SlabOK(a, new[j], objs)
    BY <1>2, <1>9
  <2>2. ASSUME NEW i \in 1 .. Len(new), NEW j \in 1 .. Len(new), new[i].s_addr = new[j].s_addr PROVE i = j
    <3>1. PICK m \in 1 .. Len(list) : m # k /\ new[i] = list[m] /\ m = (IF i < k THEN i ELSE i + 1)
      BY <1>9
    <3>2. PICK n \in 1 .. Len(list) : n # k /\ new[j] = list[n] /\ n = (IF j < k THEN j ELSE j + 1)
      BY <1>9
    <3>3. m = n
      BY <1>2, <2>2, <3>1, <3>2
    <3> QED
      BY <1>2, <1>3, <3>1, <3>2, <3>3
  <2> QED
    BY <1>3, <2>1, <2>2, Zenon DEF ListOK
<1>12. BlocksOf(a, new) = BlocksOf(a, list) \ {<<sa_order[a], list[k].s_addr>>}
  <2>1. ASSUME NEW y \in BlocksOf(a, new)
        PROVE  y \in BlocksOf(a, list) \ {<<sa_order[a], list[k].s_addr>>}
    <3>1. PICK j \in 1 .. Len(new) : y = <<sa_order[a], new[j].s_addr>>
      BY <2>1 DEF BlocksOf
    <3>2. PICK m \in 1 .. Len(list) : m # k /\ new[j] = list[m]
      BY <1>9
    <3>3. list[m].s_addr # list[k].s_addr
      BY <1>2, <3>2
    <3> QED
      BY <3>1, <3>2, <3>3 DEF BlocksOf
  <2>2. ASSUME NEW y \in BlocksOf(a, list), y # <<sa_order[a], list[k].s_addr>>
        PROVE  y \in BlocksOf(a, new)
    <3>1. PICK m \in 1 .. Len(list) : y = <<sa_order[a], list[m].s_addr>>
      BY <2>2 DEF BlocksOf
    <3>2. m # k
      BY <2>2, <3>1
    <3>3. PICK j \in 1 .. Len(new) : new[j] = list[m]
      BY <1>10, <3>2
    <3> QED
      BY <3>1, <3>3 DEF BlocksOf
  <2> QED
    BY <2>1, <2>2
<1>13. ASSUME NEW b \in Allocator PROVE ListOK(b, slabs'[b], objs')
  BY <1>4, <1>5, <1>11 DEF SInv
<1>14. ASSUME NEW x \in objs' PROVE ObjectOK(x, slabs')
  <2>1. PICK c \in Allocator : \E i \in 1 .. Len(slabs[c]) : \E n \in 1 .. sa_slab_nobjs[c] :
          x = <<c, slabs[c][i].s_addr, n>>
    BY <1>5 DEF SInv, ObjectOK
  <2>2. PICK i \in 1 .. Len(slabs[c]), n \in 1 .. sa_slab_nobjs[c] : x = <<c, slabs[c][i].s_addr, n>>
    BY <2>1
  <2>3. CASE c = a
    <3>1. i \in 1 .. Len(list) /\ i # k
      BY <1>5, <1>8, <2>2, <2>3 DEF list
    <3>2. PICK j \in 1 .. Len(new) : new[j] = list[i]
      BY <1>10, <3>1
    <3>3. slabs'[c] = new /\ new[j].s_addr = slabs[c][i].s_addr
      BY <1>4, <2>3, <3>2 DEF list
    <3> QED
      BY <2>2, <3>2, <3>3 DEF ObjectOK
  <2>4. CASE c # a
    BY <1>4, <2>2, <2>4 DEF ObjectOK
  <2> QED
    BY <2>3, <2>4
<1>15. ASSUME NEW b \in Allocator
       PROVE  BlocksOK(b, slabs'[b], used'[b], op'.at = "idle" /\ goal' = b)
  <2>1. used'[b] = BlocksOf(b, slabs'[b])
    <3>1. CASE b = a
      BY <1>4, <1>5, <1>6, <1>7, <1>12, <3>1 DEF list
    <3>2. CASE b # a
      BY <1>4, <1>5, <1>6, <1>7, <3>2
    <3> QED
      BY <3>1, <3>2
  <2> QED
    BY <2>1 DEF BlocksOK
<1>16. slabs' = [b \in Allocator |-> slabs'[b]] /\ goal' \in Allocator \cup {NONE} /\ SplitForGoal'
  BY <1>4, <1>5 DEF SInv, SplitForGoal
<1> QED
  BY <1>13, <1>14, <1>15, <1>16 DEF SInv

\* What page_alloc_n has done when it returns or goes into a loop.
LEMMA AllocShape ==
  ASSUME TypeOK, NEW c \in Client, NEW n, page_alloc_n(c, n)
  PROVE  \/ /\ op'.at = "idle"
            /\ \E o \in OrderFor(n) : \E i \in Nat : used' = [used EXCEPT ![c] = @ \cup {<<o, i>>}]
         \/ op'.at = "split" /\ op'.client = c /\ op'.order \in OrderFor(n) /\ used' = used
         \/ op'.at = "reclaim" /\ used' = used
<1>1. PICK o \in OrderFor(n) :
       \/ Found(o, c)
       \/ /\ \E p \in Order : op' = [op EXCEPT !.at = "split", !.order = o, !.norder = p, !.client = c]
          /\ used' = used
       \/ op' = Between("reclaim") /\ used' = used
  BY Zenon DEF page_alloc_n
<1>2. CASE Found(o, c)
  <2>1. PICK i \in free[o] : used' = [used EXCEPT ![c] = @ \cup {<<o, i>>}] /\ op' = Between("idle")
    BY <1>2, Zenon DEF Found
  <2>2. i \in Nat
    BY <2>1 DEF TypeOK, OrderFor
  <2>3. op'.at = "idle"
    BY <2>1 DEF Between
  <2> QED
    BY <2>1, <2>2, <2>3, Zenon
<1>3. CASE /\ \E p \in Order : op' = [op EXCEPT !.at = "split", !.order = o, !.norder = p, !.client = c]
           /\ used' = used
  <2>1. PICK p \in Order : op' = [op EXCEPT !.at = "split", !.order = o, !.norder = p, !.client = c]
    BY <1>3, Zenon
  <2>2. op \in Op
    BY DEF TypeOK
  <2>3. op'.at = "split" /\ op'.client = c /\ op'.order = o
    BY <2>1, <2>2 DEF Op
  <2> QED
    BY <1>3, <2>3
<1>4. CASE op' = Between("reclaim") /\ used' = used
  BY <1>4 DEF Between
<1> QED
  BY <1>1, <1>2, <1>3, <1>4, Zenon

\* The steps that leave the slabs and objects alone.
LEMMA PagesSInv ==
  ASSUME SInv, IInv', UNCHANGED <<slabs, objs>>, goal' \in Allocator \cup {NONE}, SplitForGoal',
         \A a \in Allocator : BlocksOK(a, slabs[a], used'[a], op'.at = "idle" /\ goal' = a)
  PROVE  SInv'
  BY DEF SInv

\* The page allocator goes on with what it does, or ends without a block.
LEMMA LoopSInv ==
  ASSUME SInv, IInv', UNCHANGED <<slabvars, used>>, op.at # "idle", SplitForGoal'
  PROVE  SInv'
<1>1. UNCHANGED <<slabs, objs>> /\ goal' = goal /\ used' = used /\ goal' \in Allocator \cup {NONE}
  BY DEF slabvars, SInv
<1>2. ASSUME NEW a \in Allocator PROVE BlocksOK(a, slabs[a], used'[a], op'.at = "idle" /\ goal' = a)
  BY <1>1 DEF SInv, BlocksOK
<1> QED
  BY <1>1, <1>2, PagesSInv

\* slab_obj_alloc finds every slab full and asks for pages.
LEMMA AskSInv ==
  ASSUME SInv, IInv', NEW a \in Allocator, Calls, page_alloc_n(a, S[sa_order[a]]), goal' = a,
         UNCHANGED <<slabs, objs>>
  PROVE  SInv'
<1>1. TypeOK /\ a \in Client /\ sa_order[a] \in Order /\ used = [c \in Client |-> used[c]]
      /\ Allocator \subseteq Client
  BY Nobjs, SlabAssumption DEF SInv, IInv, TypeOK
<1>2. \A b \in Allocator : used[b] = BlocksOf(b, slabs[b])
  BY SlabAssumption DEF SInv, BlocksOK, Calls
<1>3. OrderFor(S[sa_order[a]]) \subseteq {sa_order[a]}
  BY <1>1, OrderSize
<1>4. CASE op'.at = "idle" /\ \E o \in OrderFor(S[sa_order[a]]) : \E i \in Nat :
             used' = [used EXCEPT ![a] = @ \cup {<<o, i>>}]
  <2>1. PICK i \in Nat : used' = [used EXCEPT ![a] = @ \cup {<<sa_order[a], i>>}]
    BY <1>3, <1>4, Zenon
  <2>2. ASSUME NEW b \in Allocator PROVE BlocksOK(b, slabs[b], used'[b], op'.at = "idle" /\ goal' = b)
    <3>1. CASE b = a
      <4>1. used'[b] = BlocksOf(b, slabs[b]) \cup {<<sa_order[b], i>>}
        BY <1>1, <1>2, <2>1, <3>1
      <4> QED
        BY <1>4, <3>1, <4>1 DEF BlocksOK
    <3>2. CASE b # a
      <4>1. used'[b] = BlocksOf(b, slabs[b])
        BY <1>1, <1>2, <2>1, <3>2
      <4> QED
        BY <4>1 DEF BlocksOK
    <3> QED
      BY <3>1, <3>2
  <2>3. SplitForGoal'
    BY <1>4 DEF SplitForGoal
  <2> QED
    BY <2>2, <2>3, PagesSInv
<1>5. CASE /\ used' = used
           /\ \/ op'.at = "split" /\ op'.client = a /\ op'.order \in OrderFor(S[sa_order[a]])
              \/ op'.at = "reclaim"
  <2>1. \A b \in Allocator : BlocksOK(b, slabs[b], used'[b], op'.at = "idle" /\ goal' = b)
    BY <1>2, <1>5 DEF BlocksOK
  <2>2. SplitForGoal'
    BY <1>3, <1>5, SlabAssumption DEF SplitForGoal
  <2> QED
    BY <2>1, <2>2, PagesSInv
<1> QED
  BY <1>1, <1>4, <1>5, AllocShape

\* page_alloc_n and page_free_n of the rest of the kernel.
LEMMA KernelSInv ==
  ASSUME SInv, IInv', \/ \E n \in 1 .. S[Top] : KernelAllocates(n)
                      \/ \E b \in used[Kernel] : KernelFrees(b)
  PROVE  SInv'
<1>1. TypeOK /\ used = [c \in Client |-> used[c]] /\ Kernel \in Client /\ Allocator \subseteq Client
      /\ Kernel \notin Allocator /\ NONE \notin Allocator
  BY SlabAssumption DEF SInv, IInv, TypeOK
<1>2. Calls /\ UNCHANGED <<slabs, objs>> /\ goal = NONE /\ goal' = NONE /\ op.at = "idle"
  BY DEF KernelAllocates, KernelFrees, Calls, slabvars
<1>3. \A b \in Allocator : used[b] = BlocksOf(b, slabs[b])
  BY <1>1, <1>2 DEF SInv, BlocksOK
<1>4. ASSUME \A b \in Allocator : used'[b] = used[b], SplitForGoal' PROVE SInv'
  <2>1. \A b \in Allocator : BlocksOK(b, slabs[b], used'[b], op'.at = "idle" /\ goal' = b)
    BY <1>3, <1>4 DEF BlocksOK
  <2> QED
    BY <1>2, <1>4, <2>1, PagesSInv
<1>5. ASSUME NEW n \in 1 .. S[Top], page_alloc_n(Kernel, n) PROVE SInv'
  <2>1. \A b \in Allocator : used'[b] = used[b]
    BY <1>1, <1>5, AllocShape
  <2>2. SplitForGoal'
    BY <1>1, <1>2, <1>5, AllocShape DEF SplitForGoal
  <2> QED
    BY <1>4, <2>1, <2>2
<1>6. ASSUME NEW b \in used[Kernel], page_free_n(Kernel, b) PROVE SInv'
  <2>1. \A c \in Allocator : used'[c] = used[c]
    BY <1>1, <1>6 DEF page_free_n
  <2>2. op'.at = "join"
    BY <1>1, <1>6 DEF page_free_n, TypeOK, Op
  <2>3. SplitForGoal'
    BY <2>2 DEF SplitForGoal
  <2> QED
    BY <1>4, <2>1, <2>3
<1> QED
  BY <1>5, <1>6 DEF KernelAllocates, KernelFrees

\* The loops of the page allocator.
LEMMA PageLoopsSInv == ASSUME SInv, IInv', PageLoops PROVE SInv'
<1>1. TypeOK /\ op \in Op /\ used = [c \in Client |-> used[c]] /\ Allocator \subseteq Client
      /\ Kernel \in Client /\ Kernel \notin Allocator /\ NONE \notin Allocator
      /\ SplitForGoal /\ UNCHANGED slabvars /\ goal \in Allocator \cup {NONE} /\ goal' = goal
      /\ UNCHANGED <<slabs, objs>>
  BY SlabAssumption DEF SInv, IInv, TypeOK, PageLoops, slabvars
<1>2. ASSUME page_split PROVE SInv'
  <2>1. op.at = "split" /\ used' = used
    BY <1>2 DEF page_split
  <2>2. \/ op' = Between("lost")
        \/ op' = [op EXCEPT !.norder = @ - 1]
    BY <1>2 DEF page_split
  <2>3. op'.at = "lost" \/ (op'.at = "split" /\ op'.client = op.client /\ op'.order = op.order)
    BY <1>1, <2>1, <2>2 DEF Between, Op
  <2>4. SplitForGoal'
    BY <1>1, <2>1, <2>3 DEF SplitForGoal
  <2> QED
    BY <1>1, <2>1, <2>4, LoopSInv
<1>3. ASSUME SplitEnds PROVE SInv'
  <2>1. op.at = "split" /\ op.order \in Order
    BY <1>1, <1>3 DEF SplitEnds, Op
  <2>2. PICK i \in free[op.order] : /\ used' = [used EXCEPT ![op.client] = @ \cup {<<op.order, i>>}]
                                    /\ op' = Between("idle")
    BY <1>3, Zenon DEF SplitEnds, Found
  <2>3. i \in Nat /\ op'.at = "idle"
    BY <1>1, <2>1, <2>2 DEF TypeOK, Between
  <2>4. \A b \in Allocator : used[b] = BlocksOf(b, slabs[b])
    BY <2>1 DEF SInv, BlocksOK
  <2>5. ASSUME NEW b \in Allocator PROVE BlocksOK(b, slabs[b], used'[b], op'.at = "idle" /\ goal' = b)
    <3>1. CASE goal = b
      <4>1. op.client = b /\ op.order = sa_order[b]
        BY <1>1, <2>1, <3>1 DEF SplitForGoal
      <4>2. used'[b] = BlocksOf(b, slabs[b]) \cup {<<sa_order[b], i>>}
        BY <1>1, <2>2, <2>4, <4>1
      <4> QED
        BY <1>1, <2>3, <3>1, <4>2 DEF BlocksOK
    <3>2. CASE goal # b
      <4>1. op.client # b
        BY <1>1, <2>1, <3>2 DEF SplitForGoal
      <4>2. used'[b] = BlocksOf(b, slabs[b])
        BY <1>1, <2>2, <2>4, <4>1
      <4> QED
        BY <4>2 DEF BlocksOK
    <3> QED
      BY <3>1, <3>2
  <2>6. SplitForGoal'
    BY <2>3 DEF SplitForGoal
  <2> QED
    BY <1>1, <2>5, <2>6, PagesSInv
<1>4. ASSUME page_join PROVE SInv'
  <2>1. op.at = "join" /\ used' = used
    BY <1>4 DEF page_join
  <2>2. \/ op' = Between("lost")
        \/ op' = [op EXCEPT !.order = @ + 1, !.idx = @ \div 2]
    BY <1>4 DEF page_join
  <2>3. op'.at # "split"
    <3>1. CASE op' = Between("lost")
      BY <3>1 DEF Between
    <3>2. CASE op' = [op EXCEPT !.order = @ + 1, !.idx = @ \div 2]
      <4> DEFINE v == op.order + 1
                 w == op.idx \div 2
      <4>1. op' = [op EXCEPT !.order = v, !.idx = w]
        BY <3>2
      <4> HIDE DEF v, w
      <4> QED
        BY <1>1, <2>1, <4>1 DEF Op
    <3> QED
      BY <2>2, <3>1, <3>2
  <2>4. SplitForGoal'
    BY <2>3 DEF SplitForGoal
  <2> QED
    BY <1>1, <2>1, <2>4, LoopSInv
<1>5. ASSUME JoinEnds PROVE SInv'
  <2>1. op.at = "join" /\ used' = used /\ op' = Between(op.ret)
    BY <1>5 DEF JoinEnds
  <2>2. op'.at # "split"
    BY <1>1, <2>1 DEF Between, Op
  <2>3. SplitForGoal'
    BY <2>2 DEF SplitForGoal
  <2> QED
    BY <1>1, <2>1, <2>3, LoopSInv
<1> QED
  BY <1>2, <1>3, <1>4, <1>5 DEF PageLoops

\* slab_allocators_reclaim.
LEMMA ReclaimSInv == ASSUME SInv, IInv', slab_allocators_reclaim PROVE SInv'
<1>1. op.at = "reclaim"
  BY DEF slab_allocators_reclaim
<1>2. CASE ReclaimEnds /\ UNCHANGED slabvars
  <2>1. used' = used /\ op'.at = "idle"
    BY <1>2 DEF ReclaimEnds, Between
  <2>2. SplitForGoal'
    BY <2>1 DEF SplitForGoal
  <2> QED
    BY <1>1, <1>2, <2>1, <2>2, LoopSInv
<1>3. ASSUME NEW n \in DOMAIN Allocators, NEW k \in Empty(Allocators[n]),
             page_free_n(Allocators[n], <<sa_order[Allocators[n]], slabs[Allocators[n]][k].s_addr>>),
             slabs' = [slabs EXCEPT ![Allocators[n]] = Unlinked(@, k)],
             UNCHANGED <<objs, goal>>
      PROVE  SInv'
  <2> DEFINE a == Allocators[n]
  <2>1. a \in Allocator
    BY SlabAssumption
  <2>2. /\ k \in Empty(a) /\ page_free_n(a, <<sa_order[a], slabs[a][k].s_addr>>)
        /\ slabs' = [slabs EXCEPT ![a] = Unlinked(@, k)]
    BY <1>3
  <2> HIDE DEF a
  <2> QED
    BY <1>1, <1>3, <2>1, <2>2, UnlinkSInv, Zenon
<1> QED
  BY <1>2, <1>3, Zenon DEF slab_allocators_reclaim

\* Every step of the kernel preserves the invariant.
LEMMA NextSInv == ASSUME SInv, [SlabNext]_allvars PROVE SInv'
<1>1. IInv'
  <2>1. [Next]_vars
    BY SlabStep DEF allvars
  <2>2. IInv
    BY DEF SInv
  <2> QED
    BY <2>1, <2>2, NextIInv
<1>2. ASSUME NEW a \in Allocator, slab_obj_alloc(a) PROVE SInv'
  <2>1. CASE NotFull(a) # {} /\ UNCHANGED <<vars, goal>>
    <3>1. PICK k \in NotFull(a) :
            /\ slabs' = [slabs EXCEPT ![a][k] = Take(a, slabs[a][k])]
            /\ objs' = objs \cup {<<a, slabs[a][k].s_addr, Head(slabs[a][k].s_free)>>}
      BY <1>2, <2>1 DEF slab_obj_alloc
    <3> QED
      BY <1>1, <2>1, <3>1, TakeSInv, Zenon
  <2>2. CASE page_alloc_n(a, S[sa_order[a]]) /\ goal' = a /\ UNCHANGED <<slabs, objs>>
    BY <1>1, <1>2, <2>2, AskSInv DEF slab_obj_alloc
  <2> QED
    BY <1>2, <2>1, <2>2 DEF slab_obj_alloc
<1>3. CASE UNCHANGED allvars
  BY <1>1, <1>3 DEF SInv, allvars, slabvars, vars, SplitForGoal
<1> QED
  BY <1>1, <1>2, <1>3, GiveSInv, GrowSInv, ReclaimSInv, KernelSInv, PageLoopsSInv DEF SlabNext

\* At the start there is no slab.
LEMMA InitSInv == ASSUME NoTail, SlabInit PROVE SInv
<1>1. IInv /\ op.at = "idle" /\ used = [c \in Client |-> {}]
  BY InitIInv DEF SlabInit, Init, Between
<1>2. /\ slabs = [a \in Allocator |-> <<>>] /\ objs = {} /\ goal = NONE
      /\ \A a \in Allocator : a \in Client
  BY SlabAssumption DEF SlabInit
<1>3. ASSUME NEW a \in Allocator PROVE ListOK(a, slabs[a], objs) /\ BlocksOf(a, slabs[a]) = {}
  <2>1. slabs[a] = <<>> /\ Len(<<>>) = 0 /\ 1 .. 0 = {}
    BY <1>2
  <2> QED
    BY <2>1 DEF ListOK, BlocksOf
<1>4. ASSUME NEW a \in Allocator PROVE BlocksOK(a, slabs[a], used[a], op.at = "idle" /\ goal = a)
  BY <1>1, <1>2, <1>3 DEF BlocksOK
<1>5. slabs = [a \in Allocator |-> slabs[a]]
  BY <1>2
<1> QED
  BY <1>1, <1>2, <1>3, <1>4, <1>5 DEF SInv, SplitForGoal

\* What SlabConsistent says of one slab.
Counted(a, slab) ==
  LET live == {x \in objs : x[1] = a /\ x[2] = slab.s_addr}
  IN  /\ slab.s_inuse = Cardinality(live)
      /\ Len(slab.s_free) = Cardinality(Range(slab.s_free))
      /\ Range(slab.s_free) \cup {x[3] : x \in live} = 1 .. sa_slab_nobjs[a]
      /\ Range(slab.s_free) \cap {x[3] : x \in live} = {}

\* s_inuse and s_free say which objects of a slab are in use.
LEMMA SlabCounts ==
  ASSUME SInv, NEW a \in Allocator, NEW slab, SlabOK(a, slab, objs)
  PROVE  Counted(a, slab)
<1> DEFINE live == {x \in objs : x[1] = a /\ x[2] = slab.s_addr}
           N == sa_slab_nobjs[a]
           q == slab.s_free
           i == slab.s_addr
           L == Live(objs, a, i)
           R == {q[j] : j \in 1 .. Len(q)}
<1>1. /\ N \in Nat /\ FreeOK(N, q, L) /\ q \in Seq(1 .. N) /\ Len(q) \in Nat
      /\ slab.s_inuse + Len(q) = N /\ slab.s_inuse \in Nat
  BY Nobjs, SlabFields DEF SlabOK
<1>2. L \in SUBSET (1 .. N)
  BY DEF Live
<1>3. Range(q) = R
  <2>1. DOMAIN q = 1 .. Len(q)
    BY <1>1
  <2> QED
    BY <2>1 DEF Range
<1>4. ASSUME NEW x \in live PROVE x[3] \in L /\ x = <<a, i, x[3]>>
  <2>1. x \in objs /\ x[1] = a /\ x[2] = i
    BY <1>4
  <2>2. PICK c \in Allocator : \E k \in 1 .. Len(slabs[c]) : \E n \in 1 .. sa_slab_nobjs[c] :
          x = <<c, slabs[c][k].s_addr, n>>
    BY <2>1 DEF SInv, ObjectOK
  <2>3. PICK k \in 1 .. Len(slabs[c]), n \in 1 .. sa_slab_nobjs[c] : x = <<c, slabs[c][k].s_addr, n>>
    BY <2>2
  <2>4. c = a /\ slabs[c][k].s_addr = i /\ x[3] = n
    BY <2>1, <2>3
  <2> QED
    BY <2>1, <2>3, <2>4 DEF Live
<1>5. ASSUME NEW n \in L PROVE <<a, i, n>> \in live
  BY <1>5 DEF Live
<1>6. {x[3] : x \in live} = L
  <2>1. ASSUME NEW n \in L PROVE n \in {x[3] : x \in live}
    <3>1. <<a, i, n>> \in live /\ <<a, i, n>>[3] = n
      BY <1>5
    <3> HIDE DEF i
    <3> QED
      BY <3>1
  <2> QED
    BY <1>4, <2>1
<1>7. Cardinality(L) = N - Len(q) /\ IsFiniteSet(L) /\ Len(q) = Cardinality(R)
  <2> HIDE DEF N, q, L
  <2>1. /\ Cardinality(L) = N - Len(q) /\ IsFiniteSet(L)
        /\ Len(q) = Cardinality({q[j] : j \in 1 .. Len(q)})
    BY <1>1, <1>2, CountFree, Zenon
  <2> QED
    BY <2>1, Zenon
<1>8. Cardinality(live) = Cardinality(L)
  <2> DEFINE f == [n \in L |-> <<a, i, n>>]
  <2>1. f \in [L -> live] /\ \A n \in L : f[n] = <<a, i, n>>
    BY <1>5
  <2>2. \A m, n \in L : f[m] = f[n] => m = n
    BY <2>1
  <2>3. \A x \in live : \E n \in L : f[n] = x
    BY <1>4, <2>1
  <2> HIDE DEF f, L, i
  <2>4. f \in Injection(L, live)
    BY <2>1, <2>2, Zenon DEF Injection, IsInjective
  <2>5. f \in Surjection(L, live)
    BY <2>1, <2>3, Zenon DEF Surjection
  <2>6. ExistsBijection(L, live)
    BY <2>4, <2>5 DEF Bijection, ExistsBijection
  <2> QED
    BY <1>7, <2>6, FS_Bijection
<1>9. R \cup L = 1 .. N /\ R \cap L = {}
  <2>1. \A n \in R : n \in 1 .. N
    BY <1>1
  <2>2. \A n \in 1 .. N : n \in R <=> n \notin L
    BY <1>1, Zenon DEF FreeOK
  <2> HIDE DEF R, L, N
  <2> QED
    BY <1>2, <2>1, <2>2, Zenon
<1>10. slab.s_inuse = Cardinality(live)
  BY <1>1, <1>7, <1>8
<1>11. /\ slab.s_inuse = Cardinality(live)
       /\ Len(slab.s_free) = Cardinality(Range(slab.s_free))
       /\ Range(slab.s_free) \cup {x[3] : x \in live} = 1 .. sa_slab_nobjs[a]
       /\ Range(slab.s_free) \cap {x[3] : x \in live} = {}
  BY <1>3, <1>6, <1>7, <1>9, <1>10, Zenon
<1> QED
  BY <1>11, Zenon DEF Counted

\* The invariant says what the objects, the slabs and the pages promise.
LEMMA SInvSafe == ASSUME SInv PROVE SlabTypeOK /\ SlabConsistent /\ SlabPagesOwned
<1>1. /\ TypeOK /\ goal \in Allocator \cup {NONE} /\ slabs = [a \in Allocator |-> slabs[a]]
      /\ NONE \notin Allocator
  BY SlabAssumption DEF SInv, IInv
<1>2. ASSUME NEW a \in Allocator
      PROVE  /\ slabs[a] \in Seq(SlabRec(a)) /\ DOMAIN slabs[a] = 1 .. Len(slabs[a])
             /\ \A k \in 1 .. Len(slabs[a]) : SlabOK(a, slabs[a][k], objs)
  BY DEF SInv, ListOK
<1>3. ASSUME NEW x \in objs
      PROVE  /\ x[1] \in Allocator /\ x[2] \in Nat /\ x[3] \in 1 .. sa_slab_nobjs[x[1]]
             /\ \E k \in DOMAIN slabs[x[1]] : slabs[x[1]][k].s_addr = x[2]
  <2>1. PICK c \in Allocator : \E k \in 1 .. Len(slabs[c]) : \E n \in 1 .. sa_slab_nobjs[c] :
          x = <<c, slabs[c][k].s_addr, n>>
    BY DEF SInv, ObjectOK
  <2>2. PICK k \in 1 .. Len(slabs[c]), n \in 1 .. sa_slab_nobjs[c] : x = <<c, slabs[c][k].s_addr, n>>
    BY <2>1
  <2>3. x[1] = c /\ x[2] = slabs[c][k].s_addr /\ x[3] = n /\ slabs[c][k] \in SlabRec(c)
    BY <1>2, <2>2
  <2>4. slabs[c][k].s_addr \in Nat /\ k \in DOMAIN slabs[c]
    BY <1>2, <2>3, SlabFields
  <2> QED
    BY <2>2, <2>3, <2>4
<1>4. SlabTypeOK
  BY <1>1, <1>2, <1>3 DEF SlabTypeOK
<1>5. SlabConsistent
  <2>1. ASSUME NEW a \in Allocator, NEW k \in DOMAIN slabs[a]
        PROVE  LET s == slabs[a][k]
                   live == {x \in objs : x[1] = a /\ x[2] = s.s_addr}
               IN  /\ s.s_inuse = Cardinality(live)
                   /\ Len(s.s_free) = Cardinality(Range(s.s_free))
                   /\ Range(s.s_free) \cup {x[3] : x \in live} = 1 .. sa_slab_nobjs[a]
                   /\ Range(s.s_free) \cap {x[3] : x \in live} = {}
    <3>1. SlabOK(a, slabs[a][k], objs)
      BY <1>2
    <3>2. Counted(a, slabs[a][k])
      BY <3>1, SlabCounts
    <3> QED
      BY <3>2, Zenon DEF Counted
  <2> QED
    BY <1>3, <2>1, Zenon DEF SlabConsistent
<1>6. SlabPagesOwned
  <2>1. ASSUME Calls, NEW a \in Allocator
        PROVE  used[a] = {<<sa_order[a], slabs[a][k].s_addr>> : k \in DOMAIN slabs[a]}
    <3>1. used[a] = BlocksOf(a, slabs[a])
      BY <1>1, <2>1 DEF SInv, BlocksOK, Calls
    <3> QED
      BY <1>2, <3>1 DEF BlocksOf
  <2> QED
    BY <2>1 DEF SlabPagesOwned
<1> QED
  BY <1>4, <1>5, <1>6

\* For any allocators, any number of objects in a slab and any group without a
\* tail: every object is either on the free list of its slab or in use, s_inuse
\* counts the latter, slab_allocators_reclaim in the middle of an allocation
\* frees no slab with an object in use, no page leaks, page_freecount is exact
\* and free buddies come together again.
THEOREM SlabsSafe == ASSUME NoTail PROVE SlabSpec => []SlabsSound
<1>1. SlabInit => SInv
  BY InitSInv
<1>2. SInv /\ [SlabNext]_allvars => SInv'
  BY NextSInv
<1>3. SInv => SlabTypeOK /\ SlabConsistent /\ SlabPagesOwned
  BY SInvSafe
<1>4. SlabSpec => [](FreeCountExact /\ WholeAgain)
  BY SlabsUsePages, PagesWhole, PTL
<1>5. SlabTypeOK /\ SlabConsistent /\ SlabPagesOwned /\ FreeCountExact /\ WholeAgain => SlabsSound
  BY DEF SlabsSound
<1> QED
  BY <1>1, <1>2, <1>3, <1>4, <1>5, PTL DEF SlabSpec
=============================================================================
