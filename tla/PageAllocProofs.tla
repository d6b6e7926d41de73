--------------------------- MODULE PageAllocProofs ---------------------------
(***************************************************************************)
(* Proofs about PageAlloc: for every size of the group that leaves no tail *)
(* the bit maps are exact, no two blocks overlap, __page_join only ever    *)
(* joins a free block with its free buddy (IInv), page_freecount is the    *)
(* number of free pages, no page is lost and free buddies come together    *)
(* again (PInv).                                                           *)
(***************************************************************************)
EXTENDS PageAlloc, FiniteSetTheorems, TLAPS

\* The group ends with a block of the largest order: _pagegroup_create puts
\* nothing into the smaller lists (it does when bit o of npages is set).
NoTail == \A o \in Order \ {Top} : (npages \div S[o]) % 2 = 0

Apart(b, d) == Hi(b) <= Lo(d) \/ Hi(d) <= Lo(b)

\* BitmapExact without its bound, for bit maps m and free lists f.
BitsOf(m, f) ==
  \A o \in Order \ {0} : \A x \in Nat :
    x \in m[o] <=> ~((2 * x \in f[o - 1]) <=> (2 * x + 1 \in f[o - 1]))

Bits == BitsOf(map, free)

\* No two blocks overlap, for free lists f and held blocks u.
FreeApart(f) ==
  \A o, p \in Order : \A i \in f[o], j \in f[p] :
    (o = p /\ i = j) \/ Apart(<<o, i>>, <<p, j>>)

UsedApart(u) ==
  \A c, d \in Client : \A b \in u[c], e \in u[d] : (c = d /\ b = e) \/ Apart(b, e)

FreeUsedApart(f, u) ==
  \A c \in Client, o \in Order : \A b \in u[c], i \in f[o] : Apart(b, <<o, i>>)

InGroup(f, u) ==
  /\ \A o \in Order : \A i \in f[o] : Hi(<<o, i>>) <= npages
  /\ \A c \in Client : \A b \in u[c] : Hi(b) <= npages

Lists == [Order -> SUBSET Nat]
Holdings == [Client -> SUBSET Block]

GeometryOf(f, u) == FreeApart(f) /\ UsedApart(u) /\ FreeUsedApart(f, u) /\ InGroup(f, u)

Geometry == GeometryOf(free, used)

\* The block __page_join works on is free.
JoinStarted == op.at = "join" => op.idx \in free[op.order]

IInv == TypeOK /\ Bits /\ Geometry /\ JoinStarted /\ JoinsFreeBuddy

-----------------------------------------------------------------------------
Below == {p \in Nat \X Nat : p[1] < p[2]}

\* A set of numbers that is not empty has a least element.
LEMMA LeastNat ==
  ASSUME NEW T \in SUBSET Nat, T # {} PROVE \E m \in T : \A n \in T : m <= n
<1>1. IsWellFoundedOn(Below, Nat)
  BY NatLessThanWellFounded, Zenon DEF OpToRel, Below
<1>2. PICK x \in T : \A y \in T : ~(<<y, x>> \in Below)
  BY <1>1, WFMin, Zenon
<1>3. \A y \in T : ~(y < x)
  BY <1>2, Zenon DEF Below
<1> QED
  BY <1>3

\* Block sizes are positive numbers and every size is twice the one below.
LEMMA Sizes ==
  /\ Top \in Order /\ 0 \in Order
  /\ \A o \in Order : o \in Nat /\ S[o] \in Nat /\ S[o] >= 1
  /\ \A o \in Order : o # 0 => o - 1 \in Order /\ S[o] = 2 * S[o - 1]
  /\ \A o \in Order : o < Top => o + 1 \in Order /\ o + 1 # 0 /\ S[o + 1] = 2 * S[o]
  /\ \A o \in Order : o <= Top
<1>1. PAGE_NSIZES \in Nat /\ PAGE_NSIZES # 0
  BY PageAllocAssumption
<1>2. Top \in Order /\ 0 \in Order
  BY <1>1 DEF Top, Order
<1>3. \A o \in Order : o \in Nat /\ S[o] \in Nat /\ S[o] >= 1
  <2> DEFINE T == {o \in Order : ~(S[o] >= 1)}
  <2>1. Order \in SUBSET Nat /\ \A o \in Order : S[o] \in Nat
    BY <1>1, PageAllocAssumption DEF Order
  <2>2. ASSUME T # {} PROVE FALSE
    <3>1. PICK o \in T : \A p \in T : o <= p
      BY <2>1, <2>2, LeastNat, Zenon
    <3>2. o \in Order \ {0}
      BY <3>1, PageAllocAssumption
    <3>3. o - 1 \in Order /\ S[o] = 2 * S[o - 1]
      BY <1>1, <3>2, PageAllocAssumption DEF Order
    <3>4. o - 1 \notin T
      BY <2>1, <3>1, <3>2
    <3> QED
      BY <2>1, <3>1, <3>3, <3>4
  <2> QED
    BY <2>1, <2>2
<1>4. ASSUME NEW o \in Order, o # 0 PROVE o - 1 \in Order /\ S[o] = 2 * S[o - 1]
  <2>1. o \in Order \ {0}
    BY <1>4
  <2> QED
    BY <2>1, <1>1, PageAllocAssumption DEF Order
<1>5. ASSUME NEW o \in Order, o < Top
      PROVE  o + 1 \in Order /\ o + 1 # 0 /\ S[o + 1] = 2 * S[o]
  <2>1. o + 1 \in Order /\ o + 1 # 0 /\ (o + 1) - 1 = o
    BY <1>1, <1>5 DEF Order, Top
  <2> QED
    BY <2>1, <1>4
<1>6. \A o \in Order : o <= Top
  BY <1>1 DEF Order, Top
<1> QED
  BY <1>2, <1>3, <1>4, <1>5, <1>6

\* A block of order o + 1 consists of two blocks of order o.
LEMMA Halves ==
  ASSUME NEW o \in Order, o < Top, NEW x \in Nat
  PROVE  /\ Lo(<<o, 2 * x>>) = Lo(<<o + 1, x>>)
         /\ Hi(<<o, 2 * x>>) = Lo(<<o, 2 * x + 1>>)
         /\ Hi(<<o, 2 * x + 1>>) = Hi(<<o + 1, x>>)
<1>1. S[o] \in Nat /\ S[o + 1] = 2 * S[o]
  BY Sizes
<1>2. \A k \in Nat : (2 * x) * k = x * (2 * k) /\ (2 * x + 1) * k = x * (2 * k) + k
  OBVIOUS
<1> QED
  BY <1>1, <1>2 DEF Lo, Hi

\* A block is not empty and its bounds are numbers.
LEMMA Bounds ==
  ASSUME NEW b \in Block PROVE Lo(b) \in Nat /\ Hi(b) \in Nat /\ Lo(b) < Hi(b)
<1>1. b[1] \in Order /\ b[2] \in Nat
  BY DEF Block
<1>2. S[b[1]] \in Nat /\ S[b[1]] >= 1
  BY <1>1, Sizes
<1>3. \A i, s \in Nat : i * s \in Nat
  OBVIOUS
<1> QED
  BY <1>1, <1>2, <1>3 DEF Lo, Hi

\* i \div 2 is the number of the pair that i belongs to.
LEMMA Pair ==
  ASSUME NEW i \in Nat
  PROVE  /\ i \div 2 \in Nat
         /\ \A x \in Nat : x = i \div 2 <=> i = 2 * x \/ i = 2 * x + 1
         /\ i % 2 = 0 => i = 2 * (i \div 2)
         /\ i % 2 # 0 => i = 2 * (i \div 2) + 1
  OBVIOUS

\* Being apart is symmetric.
LEMMA ApartSymmetric == ASSUME NEW b, NEW d PROVE Apart(b, d) <=> Apart(d, b)
  BY DEF Apart

\* What is apart from a block is apart from its two halves, and conversely.
LEMMA ApartHalves ==
  ASSUME NEW o \in Order, o < Top, NEW x \in Nat, NEW b \in Block
  PROVE  Apart(b, <<o + 1, x>>) <=> Apart(b, <<o, 2 * x>>) /\ Apart(b, <<o, 2 * x + 1>>)
<1>1. <<o + 1, x>> \in Block /\ <<o, 2 * x>> \in Block /\ <<o, 2 * x + 1>> \in Block
  BY Sizes DEF Block
<1> QED
  BY <1>1, Halves, Bounds DEF Apart

\* The two halves of a block are apart, and neither is apart from the block.
LEMMA HalvesApart ==
  ASSUME NEW o \in Order, o < Top, NEW x \in Nat
  PROVE  /\ Apart(<<o, 2 * x>>, <<o, 2 * x + 1>>)
         /\ ~Apart(<<o, 2 * x>>, <<o + 1, x>>)
         /\ ~Apart(<<o, 2 * x + 1>>, <<o + 1, x>>)
<1>1. <<o + 1, x>> \in Block /\ <<o, 2 * x>> \in Block /\ <<o, 2 * x + 1>> \in Block
  BY Sizes DEF Block
<1> QED
  BY <1>1, Halves, Bounds DEF Apart

\* bit_flip changes exactly the bit that a block shares with its buddy.
LEMMA FlipIs ==
  ASSUME TypeOK, NEW o \in Order, NEW i \in Nat
  PROVE  /\ Flip(o, i) \in [Order \ {0} -> SUBSET Nat]
         /\ \A p \in Order \ {0} : \A x \in Nat :
              x \in Flip(o, i)[p] <=>
                IF p = o + 1 /\ x = i \div 2 THEN x \notin map[p] ELSE x \in map[p]
<1>1. i \div 2 \in Nat
  BY Pair
<1>2. map \in [Order \ {0} -> SUBSET Nat]
  BY DEF TypeOK
<1>3. CASE o < Top
  BY <1>1, <1>2, <1>3, Sizes DEF Flip
<1>4. CASE ~(o < Top)
  <2>1. \A p \in Order : p # o + 1
    BY <1>4, Sizes
  <2> QED
    BY <1>2, <1>4, <2>1 DEF Flip
<1> QED
  BY <1>3, <1>4

\* One block enters or leaves its free list and its bit is flipped.
LEMMA ToggleBits ==
  ASSUME NEW m, NEW f, NEW n, NEW g, BitsOf(m, f), NEW o \in Order, NEW i \in Nat,
         \A p \in Order : \A j \in Nat :
           j \in g[p] <=> IF p = o /\ j = i THEN j \notin f[p] ELSE j \in f[p],
         \A p \in Order \ {0} : \A x \in Nat :
           x \in n[p] <=> IF p = o + 1 /\ x = i \div 2 THEN x \notin m[p] ELSE x \in m[p]
  PROVE  BitsOf(n, g)
<1> SUFFICES ASSUME NEW p \in Order \ {0}, NEW x \in Nat
             PROVE  x \in n[p] <=> ~((2 * x \in g[p - 1]) <=> (2 * x + 1 \in g[p - 1]))
  BY DEF BitsOf
<1>1. p - 1 \in Order /\ (p = o + 1 <=> p - 1 = o)
  BY Sizes
<1>2. x = i \div 2 <=> i = 2 * x \/ i = 2 * x + 1
  BY Pair
<1>3. x \in m[p] <=> ~((2 * x \in f[p - 1]) <=> (2 * x + 1 \in f[p - 1]))
  BY DEF BitsOf
<1>4. 2 * x \in Nat /\ 2 * x + 1 \in Nat /\ 2 * x # 2 * x + 1
  OBVIOUS
<1> QED
  BY <1>1, <1>2, <1>3, <1>4

\* Two buddies enter or leave a free list together and their bit stays.
LEMMA PairBits ==
  ASSUME NEW m, NEW f, NEW g, BitsOf(m, f), NEW o \in Order, NEW y \in Nat,
         2 * y \in f[o] <=> 2 * y + 1 \in f[o],
         2 * y \in g[o] <=> 2 * y + 1 \in g[o],
         \A p \in Order : \A j \in Nat :
           ~(p = o /\ j \in {2 * y, 2 * y + 1}) => (j \in g[p] <=> j \in f[p])
  PROVE  BitsOf(m, g)
<1> SUFFICES ASSUME NEW p \in Order \ {0}, NEW x \in Nat
             PROVE  x \in m[p] <=> ~((2 * x \in g[p - 1]) <=> (2 * x + 1 \in g[p - 1]))
  BY Zenon DEF BitsOf
<1>1. p - 1 \in Order
  BY Sizes
<1>2. x \in m[p] <=> ~((2 * x \in f[p - 1]) <=> (2 * x + 1 \in f[p - 1]))
  BY DEF BitsOf
<1>3. 2 * x \in Nat /\ 2 * x + 1 \in Nat
  OBVIOUS
<1>4. CASE p - 1 = o /\ x = y
  BY <1>2, <1>4
<1>5. CASE ~(p - 1 = o /\ x = y)
  <2>1. x # y => 2 * x \notin {2 * y, 2 * y + 1} /\ 2 * x + 1 \notin {2 * y, 2 * y + 1}
    OBVIOUS
  <2> QED
    BY <1>1, <1>2, <1>3, <1>5, <2>1
<1> QED
  BY <1>4, <1>5

\* "found": a block leaves its free list and a client holds it.
LEMMA TakeGeometry ==
  ASSUME NEW f \in Lists, NEW u \in Holdings, GeometryOf(f, u),
         NEW o \in Order, NEW i \in f[o], NEW c \in Client
  PROVE  GeometryOf([f EXCEPT ![o] = @ \ {i}], [u EXCEPT ![c] = @ \cup {<<o, i>>}])
<1> DEFINE g == [f EXCEPT ![o] = @ \ {i}]
           v == [u EXCEPT ![c] = @ \cup {<<o, i>>}]
<1>1. \A p \in Order : \A j : j \in g[p] <=> j \in f[p] /\ ~(p = o /\ j = i)
  BY DEF Lists
<1>2. \A d \in Client : \A b : b \in v[d] <=> b \in u[d] \/ (d = c /\ b = <<o, i>>)
  BY DEF Holdings
<1> HIDE DEF g, v
<1>3. FreeApart(g)
  BY <1>1, Zenon DEF GeometryOf, FreeApart
<1>4. UsedApart(v)
  BY <1>2, ApartSymmetric DEF GeometryOf, UsedApart, FreeUsedApart
<1>5. FreeUsedApart(g, v)
  <2> SUFFICES ASSUME NEW p \in Order, NEW j \in g[p], NEW d \in Client, NEW b \in v[d]
               PROVE  Apart(b, <<p, j>>)
    BY DEF FreeUsedApart
  <2>1. j \in f[p] /\ ~(p = o /\ j = i)
    BY <1>1
  <2>2. CASE b \in u[d]
    BY <2>1, <2>2 DEF GeometryOf, FreeUsedApart
  <2>3. CASE b = <<o, i>>
    BY <2>1, <2>3 DEF GeometryOf, FreeApart
  <2> QED
    BY <1>2, <2>2, <2>3
<1>6. InGroup(g, v)
  BY <1>1, <1>2 DEF GeometryOf, InGroup
<1> QED
  BY <1>3, <1>4, <1>5, <1>6 DEF GeometryOf, g, v

\* _page_free_order: a client gives a block back to its free list.
LEMMA GiveGeometry ==
  ASSUME NEW f \in Lists, NEW u \in Holdings, GeometryOf(f, u),
         NEW c \in Client, NEW o \in Order, NEW i \in Nat, <<o, i>> \in u[c]
  PROVE  /\ GeometryOf([f EXCEPT ![o] = @ \cup {i}], [u EXCEPT ![c] = @ \ {<<o, i>>}])
         /\ i \notin f[o]
<1> DEFINE g == [f EXCEPT ![o] = @ \cup {i}]
           v == [u EXCEPT ![c] = @ \ {<<o, i>>}]
<1>1. \A p \in Order : \A j : j \in g[p] <=> j \in f[p] \/ (p = o /\ j = i)
  BY DEF Lists
<1>2. \A d \in Client : \A b : b \in v[d] <=> b \in u[d] /\ ~(d = c /\ b = <<o, i>>)
  BY DEF Holdings
<1>3. i \notin f[o]
  <2>1. ~Apart(<<o, i>>, <<o, i>>)
    BY Bounds DEF Apart, Block
  <2> QED
    BY <2>1 DEF GeometryOf, FreeUsedApart
<1> HIDE DEF g, v
<1>4. FreeApart(g)
  <2> SUFFICES ASSUME NEW p \in Order, NEW q \in Order, NEW j \in g[p], NEW k \in g[q],
                      ~(p = q /\ j = k)
               PROVE  Apart(<<p, j>>, <<q, k>>)
    BY Zenon DEF FreeApart
  <2>1. CASE j \in f[p] /\ k \in f[q]
    BY <2>1 DEF GeometryOf, FreeApart
  <2>2. CASE p = o /\ j = i /\ k \in f[q]
    BY <2>2 DEF GeometryOf, FreeUsedApart
  <2>3. CASE q = o /\ k = i /\ j \in f[p]
    <3>1. Apart(<<q, k>>, <<p, j>>)
      BY <2>3 DEF GeometryOf, FreeUsedApart
    <3> QED
      BY <3>1, ApartSymmetric
  <2> QED
    BY <1>1, <2>1, <2>2, <2>3
<1>5. UsedApart(v)
  BY <1>2 DEF GeometryOf, UsedApart
<1>6. FreeUsedApart(g, v)
  BY <1>1, <1>2, Zenon DEF GeometryOf, UsedApart, FreeUsedApart
<1>7. InGroup(g, v)
  BY <1>1, <1>2 DEF GeometryOf, InGroup
<1> QED
  BY <1>3, <1>4, <1>5, <1>6, <1>7 DEF GeometryOf, g, v

\* __page_split: a free block is replaced by its two halves.
LEMMA SplitGeometry ==
  ASSUME NEW f \in Lists, NEW u \in Holdings, GeometryOf(f, u), NEW g \in Lists,
         NEW o \in Order, o < Top, NEW x \in f[o + 1],
         \A p \in Order : \A j \in Nat :
           j \in g[p] <=> \/ j \in f[p] /\ ~(p = o + 1 /\ j = x)
                          \/ p = o /\ j \in {2 * x, 2 * x + 1}
  PROVE  GeometryOf(g, u)
<1>1. o + 1 \in Order /\ x \in Nat
  BY Sizes DEF Lists
<1>2. \A p \in Order : \A j \in f[p] : j \in Nat /\ <<p, j>> \in Block
  BY DEF Lists, Block
<1>3. \A p \in Order : \A j \in g[p] : j \in Nat
  BY DEF Lists
<1>4. \A b \in Block : Apart(b, <<o + 1, x>>) =>
                         Apart(b, <<o, 2 * x>>) /\ Apart(b, <<o, 2 * x + 1>>)
  BY <1>1, ApartHalves
<1>5. Apart(<<o, 2 * x>>, <<o, 2 * x + 1>>)
  BY <1>1, HalvesApart, Zenon
<1>6. FreeApart(g)
  <2> SUFFICES ASSUME NEW p \in Order, NEW q \in Order, NEW j \in g[p], NEW k \in g[q],
                      ~(p = q /\ j = k)
               PROVE  Apart(<<p, j>>, <<q, k>>)
    BY Zenon DEF FreeApart
  <2> DEFINE Old(r, n) == n \in f[r] /\ ~(r = o + 1 /\ n = x)
             New(r, n) == r = o /\ n \in {2 * x, 2 * x + 1}
  <2>1. ASSUME NEW r \in Order, NEW n \in Nat, Old(r, n)
        PROVE  Apart(<<r, n>>, <<o, 2 * x>>) /\ Apart(<<r, n>>, <<o, 2 * x + 1>>)
    <3>1. Apart(<<r, n>>, <<o + 1, x>>)
      BY <1>1, <2>1 DEF GeometryOf, FreeApart
    <3> QED
      BY <1>2, <1>4, <2>1, <3>1
  <2>2. (Old(p, j) \/ New(p, j)) /\ (Old(q, k) \/ New(q, k)) /\ j \in Nat /\ k \in Nat
    BY <1>3
  <2>3. CASE Old(p, j) /\ Old(q, k)
    BY <2>3 DEF GeometryOf, FreeApart
  <2>4. CASE Old(p, j) /\ New(q, k)
    BY <2>1, <2>2, <2>4
  <2>5. CASE New(p, j) /\ Old(q, k)
    <3>1. Apart(<<q, k>>, <<p, j>>)
      BY <2>1, <2>2, <2>5
    <3> QED
      BY <3>1, ApartSymmetric
  <2>6. CASE New(p, j) /\ New(q, k)
    <3>1. Apart(<<o, 2 * x + 1>>, <<o, 2 * x>>)
      BY <1>5, ApartSymmetric
    <3> QED
      BY <1>5, <2>6, <3>1
  <2> QED
    BY <2>2, <2>3, <2>4, <2>5, <2>6
<1>7. FreeUsedApart(g, u)
  <2>1. \A c \in Client : \A b \in u[c] : b \in Block
    BY DEF Holdings
  <2> QED
    BY <1>1, <1>3, <1>4, <2>1, Zenon DEF GeometryOf, FreeUsedApart
<1>8. InGroup(g, u)
  <2>1. Hi(<<o + 1, x>>) <= npages
    BY <1>1 DEF GeometryOf, InGroup
  <2>2. Hi(<<o, 2 * x>>) <= npages /\ Hi(<<o, 2 * x + 1>>) <= npages
    <3>1. <<o, 2 * x>> \in Block /\ <<o, 2 * x + 1>> \in Block /\ npages \in Nat
      BY <1>1, PageAllocAssumption DEF Block
    <3> QED
      BY <1>1, <2>1, <3>1, Halves, Bounds
  <2> QED
    BY <1>3, <2>2 DEF GeometryOf, InGroup
<1> QED
  BY <1>6, <1>7, <1>8 DEF GeometryOf

\* __page_join: two free halves are replaced by their block.
LEMMA JoinGeometry ==
  ASSUME NEW f \in Lists, NEW u \in Holdings, GeometryOf(f, u), NEW g \in Lists,
         NEW o \in Order, o < Top, NEW x \in Nat, 2 * x \in f[o], 2 * x + 1 \in f[o],
         \A p \in Order : \A j \in Nat :
           j \in g[p] <=> \/ j \in f[p] /\ ~(p = o /\ j \in {2 * x, 2 * x + 1})
                          \/ p = o + 1 /\ j = x
  PROVE  GeometryOf(g, u) /\ x \notin f[o + 1]
<1>1. o + 1 \in Order
  BY Sizes
<1>2. \A p \in Order : \A j \in f[p] : j \in Nat /\ <<p, j>> \in Block
  BY DEF Lists, Block
<1>3. \A p \in Order : \A j \in g[p] : j \in Nat
  BY DEF Lists
<1>4. \A b \in Block : Apart(b, <<o, 2 * x>>) /\ Apart(b, <<o, 2 * x + 1>>) =>
                         Apart(b, <<o + 1, x>>)
  BY <1>1, ApartHalves
<1>5. x \notin f[o + 1]
  <2>1. ~Apart(<<o, 2 * x>>, <<o + 1, x>>)
    BY HalvesApart, Zenon
  <2>2. o # o + 1
    BY Sizes
  <2> QED
    BY <1>1, <2>1, <2>2 DEF GeometryOf, FreeApart
<1>6. FreeApart(g)
  <2> SUFFICES ASSUME NEW p \in Order, NEW q \in Order, NEW j \in g[p], NEW k \in g[q],
                      ~(p = q /\ j = k)
               PROVE  Apart(<<p, j>>, <<q, k>>)
    BY Zenon DEF FreeApart
  <2> DEFINE Old(r, n) == n \in f[r] /\ ~(r = o /\ n \in {2 * x, 2 * x + 1})
             New(r, n) == r = o + 1 /\ n = x
  <2>1. ASSUME NEW r \in Order, NEW n \in Nat, Old(r, n)
        PROVE  Apart(<<r, n>>, <<o + 1, x>>)
    <3>1. Apart(<<r, n>>, <<o, 2 * x>>) /\ Apart(<<r, n>>, <<o, 2 * x + 1>>)
      BY <2>1 DEF GeometryOf, FreeApart
    <3> QED
      BY <1>2, <1>4, <2>1, <3>1
  <2>2. (Old(p, j) \/ New(p, j)) /\ (Old(q, k) \/ New(q, k)) /\ j \in Nat /\ k \in Nat
    BY <1>3
  <2>3. CASE Old(p, j) /\ Old(q, k)
    BY <2>3 DEF GeometryOf, FreeApart
  <2>4. CASE Old(p, j) /\ New(q, k)
    BY <2>1, <2>2, <2>4
  <2>5. CASE New(p, j) /\ Old(q, k)
    <3>1. Apart(<<q, k>>, <<p, j>>)
      BY <2>1, <2>2, <2>5
    <3> QED
      BY <3>1, ApartSymmetric
  <2> QED
    BY <2>2, <2>3, <2>4, <2>5
<1>7. FreeUsedApart(g, u)
  <2>1. \A c \in Client : \A b \in u[c] : b \in Block
    BY DEF Holdings
  <2> QED
    BY <1>1, <1>3, <1>4, <2>1, Zenon DEF GeometryOf, FreeUsedApart
<1>8. InGroup(g, u)
  <2>1. Hi(<<o, 2 * x + 1>>) <= npages
    BY DEF GeometryOf, InGroup
  <2>2. Hi(<<o + 1, x>>) <= npages
    BY <2>1, Halves, Zenon
  <2> QED
    BY <1>3, <2>2 DEF GeometryOf, InGroup
<1> QED
  BY <1>5, <1>6, <1>7, <1>8 DEF GeometryOf

-----------------------------------------------------------------------------
\* The record "op" between two steps of a call.
LEMMA BetweenIsOp ==
  ASSUME NEW w \in {"idle", "reclaim"}
  PROVE  /\ Between(w) \in Op /\ Between(w).at = w
         /\ Between(w).at # "join" /\ Between(w).at # "lost"
<1>1. (CHOOSE c \in Client : TRUE) \in Client
  BY PageAllocAssumption
<1>2. 0 \in Order
  BY Sizes
<1> QED
  BY <1>1, <1>2 DEF Between, Op

\* Initially only blocks of the largest order are free.
LEMMA InitIInv == ASSUME NoTail, Init PROVE IInv
<1>1. TypeOK
  <2>1. op \in Op
    BY BetweenIsOp DEF Init
  <2> QED
    BY <2>1, PageAllocAssumption DEF Init, TypeOK
<1>2. \A o \in Order : o # Top => free[o] = {}
  <2> SUFFICES ASSUME NEW o \in Order, o # Top, NEW i \in 0 .. npages,
                      i + 1 = npages \div S[o], i % 2 = 0
               PROVE  FALSE
    BY DEF Init
  <2>1. (i + 1) % 2 = 0
    BY DEF NoTail
  <2>2. i \in Nat
    BY PageAllocAssumption
  <2> QED
    BY <2>1, <2>2
<1>3. \A i \in free[Top] : i \in Nat /\ (i + 1) * S[Top] <= npages
  BY Sizes, PageAllocAssumption DEF Init
<1>4. Bits
  <2> SUFFICES ASSUME NEW o \in Order \ {0}
               PROVE  map[o] = {} /\ free[o - 1] = {}
    BY DEF Bits, BitsOf
  <2>1. o - 1 \in Order /\ o - 1 # Top
    BY Sizes
  <2> QED
    BY <1>2, <2>1 DEF Init
<1>5. FreeApart(free)
  <2> SUFFICES ASSUME NEW i \in free[Top], NEW j \in free[Top], i # j
               PROVE  Apart(<<Top, i>>, <<Top, j>>)
    BY <1>2 DEF FreeApart
  <2>1. \A m, n, k \in Nat : m < n => m * k + k <= n * k
    OBVIOUS
  <2>2. i \in Nat /\ j \in Nat /\ S[Top] \in Nat
    BY <1>3, Sizes
  <2>3. i < j => i * S[Top] + S[Top] <= j * S[Top]
    BY <2>1, <2>2
  <2>4. j < i => j * S[Top] + S[Top] <= i * S[Top]
    BY <2>1, <2>2
  <2>5. i < j \/ j < i
    BY <2>2
  <2> QED
    BY <2>3, <2>4, <2>5 DEF Apart, Lo, Hi
<1>6. InGroup(free, used)
  <2>1. ASSUME NEW i \in free[Top] PROVE Hi(<<Top, i>>) <= npages
    <3>1. \A m, k \in Nat : m * k + k = (m + 1) * k
      OBVIOUS
    <3>2. i \in Nat /\ S[Top] \in Nat /\ (i + 1) * S[Top] <= npages
      BY <1>3, Sizes
    <3> QED
      BY <3>1, <3>2, Zenon DEF Hi, Lo
  <2>2. \A c \in Client : used[c] = {}
    BY DEF Init
  <2> QED
    BY <1>2, <2>1, <2>2 DEF InGroup
<1>7. UsedApart(used) /\ FreeUsedApart(free, used)
  BY DEF Init, UsedApart, FreeUsedApart
<1>8. JoinStarted /\ JoinsFreeBuddy
  BY BetweenIsOp DEF Init, JoinStarted, JoinsFreeBuddy
<1> QED
  BY <1>1, <1>4, <1>5, <1>6, <1>7, <1>8 DEF IInv, Geometry, GeometryOf

\* "found" of _page_alloc_order preserves the invariant.
LEMMA FoundIInv ==
  ASSUME IInv, NEW o \in Order, NEW c \in Client, Found(o, c) PROVE IInv'
<1>1. PICK i \in free[o] :
        /\ free' = [free EXCEPT ![o] = @ \ {i}]
        /\ map' = Flip(o, i)
        /\ page_freecount' = page_freecount - S[o]
        /\ used' = [used EXCEPT ![c] = @ \cup {<<o, i>>}]
        /\ op' = Between("idle")
  BY Zenon DEF Found
<1>2. free \in Lists /\ used \in Holdings /\ i \in Nat /\ TypeOK
  BY DEF IInv, TypeOK, Lists, Holdings
<1>3. TypeOK'
  <2>1. map' \in [Order \ {0} -> SUBSET Nat]
    BY <1>1, <1>2, FlipIs, Zenon
  <2>2. free' \in [Order -> SUBSET Nat]
    BY <1>1, <1>2 DEF Lists
  <2>3. used' \in [Client -> SUBSET Block]
    BY <1>1, <1>2 DEF Holdings, Block
  <2>4. page_freecount' \in Int
    BY <1>1, <1>2, Sizes DEF TypeOK
  <2>5. op' \in Op
    BY <1>1, BetweenIsOp
  <2> QED
    BY <2>1, <2>2, <2>3, <2>4, <2>5 DEF TypeOK
<1>4. Bits'
  <2>1. \A p \in Order : \A j \in Nat :
          j \in free'[p] <=> IF p = o /\ j = i THEN j \notin free[p] ELSE j \in free[p]
    BY <1>1, <1>2 DEF Lists
  <2>2. BitsOf(map, free)
    BY DEF IInv, Bits
  <2>3. \A p \in Order \ {0} : \A x \in Nat :
          x \in map'[p] <=> IF p = o + 1 /\ x = i \div 2 THEN x \notin map[p] ELSE x \in map[p]
    BY <1>1, <1>2, FlipIs
  <2>4. BitsOf(map', free')
    BY <1>2, <2>1, <2>2, <2>3, ToggleBits
  <2> QED
    BY <2>4 DEF Bits
<1>5. Geometry'
  <2>1. GeometryOf(free, used)
    BY DEF IInv, Geometry
  <2>2. GeometryOf(free', used')
    BY <1>1, <1>2, <2>1, TakeGeometry, Zenon
  <2> QED
    BY <2>2 DEF Geometry
<1>6. JoinStarted' /\ JoinsFreeBuddy'
  BY <1>1, BetweenIsOp DEF JoinStarted, JoinsFreeBuddy
<1> QED
  BY <1>3, <1>4, <1>5, <1>6 DEF IInv

\* page_free_n, up to __page_join, preserves the invariant.
LEMMA FreeIInv ==
  ASSUME IInv, NEW c \in Client, NEW b, page_free_n(c, b) PROVE IInv'
<1>1. free \in Lists /\ used \in Holdings /\ TypeOK /\ op \in Op
  BY DEF IInv, TypeOK, Lists, Holdings
<1>2. PICK o \in Order, i \in Nat : b = <<o, i>>
  BY <1>1 DEF page_free_n, Holdings, Block
<1>3. /\ <<o, i>> \in used[c]
      /\ used' = [used EXCEPT ![c] = @ \ {<<o, i>>}]
      /\ free' = [free EXCEPT ![o] = @ \cup {i}]
      /\ page_freecount' = page_freecount + S[o]
      /\ map' = Flip(o, i)
      /\ op' = [op EXCEPT !.at = "join", !.ret = op.at, !.order = o, !.idx = i]
      /\ op.at \in {"idle", "reclaim"}
  BY <1>2 DEF page_free_n
<1>4. GeometryOf(free', used') /\ i \notin free[o]
  <2>1. GeometryOf(free, used)
    BY DEF IInv, Geometry
  <2> QED
    BY <1>1, <1>3, <2>1, GiveGeometry, Zenon
<1>5. TypeOK'
  <2>1. map' \in [Order \ {0} -> SUBSET Nat]
    BY <1>1, <1>3, FlipIs, Zenon
  <2>2. free' \in [Order -> SUBSET Nat]
    BY <1>1, <1>3 DEF Lists
  <2>3. used' \in [Client -> SUBSET Block]
    BY <1>1, <1>3 DEF Holdings
  <2>4. page_freecount' \in Int
    BY <1>1, <1>3, Sizes DEF TypeOK
  <2>5. op' \in Op
    BY <1>1, <1>3, Zenon DEF Op
  <2> QED
    BY <2>1, <2>2, <2>3, <2>4, <2>5 DEF TypeOK
<1>6. Bits'
  <2>1. \A p \in Order : \A j \in Nat :
          j \in free'[p] <=> IF p = o /\ j = i THEN j \notin free[p] ELSE j \in free[p]
    BY <1>1, <1>3, <1>4 DEF Lists
  <2>2. BitsOf(map, free)
    BY DEF IInv, Bits
  <2>3. \A p \in Order \ {0} : \A x \in Nat :
          x \in map'[p] <=> IF p = o + 1 /\ x = i \div 2 THEN x \notin map[p] ELSE x \in map[p]
    BY <1>1, <1>3, FlipIs
  <2>4. BitsOf(map', free')
    BY <1>2, <2>1, <2>2, <2>3, ToggleBits
  <2> QED
    BY <2>4 DEF Bits
<1>7. JoinStarted' /\ JoinsFreeBuddy'
  <2>1. op'.at = "join" /\ op'.order = o /\ op'.idx = i
    BY <1>1, <1>3 DEF Op
  <2>2. i \in free'[o]
    BY <1>1, <1>3 DEF Lists
  <2> QED
    BY <2>1, <2>2 DEF JoinStarted, JoinsFreeBuddy
<1> QED
  BY <1>4, <1>5, <1>6, <1>7 DEF IInv, Geometry

\* A step that moves no block preserves the invariant if "op" stays sound.
LEMMA IdleIInv ==
  ASSUME IInv, UNCHANGED <<free, map, page_freecount, used>>, op' \in Op,
         op'.at \notin {"join", "lost"}
  PROVE  IInv'
  BY DEF IInv, TypeOK, Bits, Geometry, JoinStarted, JoinsFreeBuddy

\* What a turn of __page_split does: its assertion holds because a half of a free
\* block is never free.
LEMMA SplitShape ==
  ASSUME IInv, page_split
  PROVE  \E o \in Order : \E t \in Nat :
           /\ o < Top /\ o + 1 \in Order /\ o # o + 1 /\ op.norder = o + 1 /\ op.at = "split"
           /\ t \in free[o + 1] /\ 2 * t \notin free[o] /\ 2 * t + 1 \notin free[o]
           /\ map' = Flip(o + 1, t)
           /\ op' = [op EXCEPT !.norder = o]
           /\ UNCHANGED <<page_freecount, used>>
           /\ free' \in Lists /\ map' \in [Order \ {0} -> SUBSET Nat]
           /\ \A p \in Order : \A j \in Nat :
                j \in free'[p] <=> \/ j \in free[p] /\ ~(p = o + 1 /\ j = t)
                                   \/ p = o /\ j \in {2 * t, 2 * t + 1}
<1>1. free \in Lists /\ used \in Holdings /\ TypeOK /\ op \in Op
  BY DEF IInv, TypeOK, Lists, Holdings
<1>2. PICK t \in free[op.norder] :
        IF t \in map[op.norder]
        THEN op' = Between("lost") /\ UNCHANGED <<free, map>>
        ELSE /\ free' = [free EXCEPT ![op.norder] = @ \ {t},
                                     ![op.norder - 1] = @ \cup {2 * t, 2 * t + 1}]
             /\ map' = Flip(op.norder, t)
             /\ op' = [op EXCEPT !.norder = @ - 1]
  BY DEF page_split
<1> DEFINE o == op.norder - 1
<1>3. /\ op.norder \in Order /\ op.norder # 0
      /\ o \in Order /\ o < Top /\ op.norder = o + 1 /\ o # o + 1 /\ t \in Nat
  <2>1. op.norder \in Order /\ op.order \in Order /\ op.norder > op.order
    BY <1>1 DEF page_split, Op
  <2>2. op.norder # 0
    BY <2>1, Sizes
  <2>3. o \in Order /\ op.norder <= Top
    BY <2>1, <2>2, Sizes
  <2>4. o < Top /\ op.norder = o + 1 /\ o # o + 1
    BY <2>1, <2>3, Sizes
  <2>5. t \in Nat
    BY <1>1, <2>1 DEF Lists
  <2> QED
    BY <2>1, <2>2, <2>3, <2>4, <2>5
<1>4. GeometryOf(free, used) /\ BitsOf(map, free)
  BY DEF IInv, Geometry, Bits
<1> HIDE DEF o
<1>5. 2 * t \notin free[o] /\ 2 * t + 1 \notin free[o]
  <2>1. ~Apart(<<o, 2 * t>>, <<o + 1, t>>) /\ ~Apart(<<o, 2 * t + 1>>, <<o + 1, t>>)
    BY <1>3, HalvesApart
  <2> QED
    BY <1>2, <1>3, <1>4, <2>1 DEF GeometryOf, FreeApart
<1>6. t \notin map[op.norder]
  <2>1. o = op.norder - 1
    BY DEF o
  <2> QED
    BY <1>3, <1>4, <1>5, <2>1 DEF BitsOf
<1>7. /\ free' = [free EXCEPT ![o + 1] = @ \ {t}, ![o] = @ \cup {2 * t, 2 * t + 1}]
      /\ map' = Flip(o + 1, t)
      /\ op' = [op EXCEPT !.norder = o]
  BY <1>2, <1>3, <1>6 DEF o
<1>8. UNCHANGED <<page_freecount, used>>
  BY DEF page_split
<1>9. o + 1 \in Order /\ op.at = "split"
  BY <1>3 DEF page_split
<1>10. free' \in Lists /\ map' \in [Order \ {0} -> SUBSET Nat]
  <2>1. 2 * t \in Nat /\ 2 * t + 1 \in Nat
    BY <1>3
  <2>2. free' \in Lists
    BY <1>1, <1>3, <1>7, <2>1 DEF Lists
  <2> QED
    BY <1>1, <1>3, <1>7, <1>9, <2>2, FlipIs, Zenon
<1>11. \A p \in Order : \A j \in Nat :
         j \in free'[p] <=> \/ j \in free[p] /\ ~(p = o + 1 /\ j = t)
                            \/ p = o /\ j \in {2 * t, 2 * t + 1}
  BY <1>1, <1>3, <1>7 DEF Lists
<1> QED
  BY <1>2, <1>3, <1>5, <1>7, <1>8, <1>9, <1>10, <1>11, Zenon

\* One turn of __page_split preserves the invariant.
LEMMA SplitIInv == ASSUME IInv, page_split PROVE IInv'
<1>1. free \in Lists /\ used \in Holdings /\ TypeOK /\ op \in Op
  BY DEF IInv, TypeOK, Lists, Holdings
<1>2. PICK o \in Order, t \in Nat :
           /\ o < Top /\ o + 1 \in Order /\ o # o + 1 /\ op.norder = o + 1 /\ op.at = "split"
           /\ t \in free[o + 1] /\ 2 * t \notin free[o] /\ 2 * t + 1 \notin free[o]
           /\ map' = Flip(o + 1, t)
           /\ op' = [op EXCEPT !.norder = o]
           /\ UNCHANGED <<page_freecount, used>>
           /\ free' \in Lists /\ map' \in [Order \ {0} -> SUBSET Nat]
           /\ \A p \in Order : \A j \in Nat :
                j \in free'[p] <=> \/ j \in free[p] /\ ~(p = o + 1 /\ j = t)
                                   \/ p = o /\ j \in {2 * t, 2 * t + 1}
  BY SplitShape, Zenon
<1>4. GeometryOf(free, used) /\ BitsOf(map, free)
  BY DEF IInv, Geometry, Bits
<1>12. TypeOK'
  <2>1. op' \in Op
    BY <1>1, <1>2 DEF Op
  <2> QED
    BY <1>1, <1>2, <2>1 DEF TypeOK, Lists
<1>13. Geometry'
  <2>1. GeometryOf(free', used)
    BY <1>1, <1>2, <1>4, SplitGeometry
  <2> QED
    BY <1>2, <2>1 DEF Geometry
<1>14. Bits'
  <2> DEFINE g == [free EXCEPT ![o + 1] = @ \ {t}]
  <2>1. \A p \in Order : \A j \in Nat :
          j \in g[p] <=> IF p = o + 1 /\ j = t THEN j \notin free[p] ELSE j \in free[p]
    BY <1>1, <1>2 DEF Lists
  <2>2. \A p \in Order \ {0} : \A x \in Nat :
          x \in map'[p] <=>
            IF p = (o + 1) + 1 /\ x = t \div 2 THEN x \notin map[p] ELSE x \in map[p]
    BY <1>1, <1>2, FlipIs
  <2> HIDE DEF g
  <2>3. BitsOf(map', g)
    BY <1>2, <1>4, <2>1, <2>2, ToggleBits
  <2>4. 2 * t \in Nat /\ 2 * t + 1 \in Nat
    BY <1>2
  <2>5. 2 * t \notin g[o] /\ 2 * t + 1 \notin g[o]
    BY <1>2, <2>1, <2>4
  <2>6. 2 * t \in free'[o] /\ 2 * t + 1 \in free'[o]
    BY <1>2, <2>4
  <2>7. \A p \in Order : \A j \in Nat :
          ~(p = o /\ j \in {2 * t, 2 * t + 1}) => (j \in free'[p] <=> j \in g[p])
    BY <1>2, <2>1
  <2>8. BitsOf(map', free')
    BY <1>2, <2>3, <2>5, <2>6, <2>7, PairBits
  <2> QED
    BY <2>8 DEF Bits
<1>15. JoinStarted' /\ JoinsFreeBuddy'
  BY <1>1, <1>2 DEF Op, JoinStarted, JoinsFreeBuddy
<1> QED
  BY <1>12, <1>13, <1>14, <1>15 DEF IInv

\* What a turn of __page_join does: the clear bit and the free block show that the
\* buddy is free.
LEMMA JoinShape ==
  ASSUME IInv, page_join
  PROVE  \E o \in Order : \E x \in Nat :
           /\ o < Top /\ o + 1 \in Order /\ o # o + 1 /\ op.at = "join" /\ op.order = o
           /\ op.idx \in {2 * x, 2 * x + 1} /\ 2 * x \in free[o] /\ 2 * x + 1 \in free[o]
           /\ map' = Flip(o + 1, x)
           /\ op' = [op EXCEPT !.order = o + 1, !.idx = x]
           /\ UNCHANGED <<page_freecount, used>>
           /\ free' \in Lists /\ map' \in [Order \ {0} -> SUBSET Nat]
           /\ \A p \in Order : \A j \in Nat :
                j \in free'[p] <=> \/ j \in free[p] /\ ~(p = o /\ j \in {2 * x, 2 * x + 1})
                                   \/ p = o + 1 /\ j = x
<1> DEFINE o == op.order
           x == op.idx \div 2
<1>1. free \in Lists /\ used \in Holdings /\ TypeOK /\ op \in Op
  BY DEF IInv, TypeOK, Lists, Holdings
<1>2. o \in Order /\ op.idx \in Nat /\ o < Top /\ op.at = "join" /\ x \notin map[o + 1]
  BY <1>1 DEF page_join, Op
<1>3. /\ o + 1 \in Order /\ o + 1 # 0 /\ o # o + 1 /\ (o + 1) - 1 = o
      /\ x \in Nat /\ 2 * x \in Nat /\ 2 * x + 1 \in Nat
      /\ op.idx \in {2 * x, 2 * x + 1}
      /\ {op.idx, Buddy(op.idx)} = {2 * x, 2 * x + 1}
  <2>1. o + 1 \in Order /\ o + 1 # 0
    BY <1>2, Sizes
  <2>2. o # o + 1 /\ (o + 1) - 1 = o
    BY <1>2, Sizes
  <2>3. x \in Nat /\ 2 * x \in Nat /\ 2 * x + 1 \in Nat
    BY <1>2, Pair
  <2>4. op.idx % 2 = 0 => op.idx = 2 * x /\ Buddy(op.idx) = 2 * x + 1
    BY <1>2, Pair, Zenon DEF Buddy
  <2>5. op.idx % 2 # 0 => op.idx = 2 * x + 1 /\ Buddy(op.idx) = 2 * x
    BY <1>2, <2>3, Pair DEF Buddy
  <2> QED
    BY <2>1, <2>2, <2>3, <2>4, <2>5
<1>4. GeometryOf(free, used) /\ BitsOf(map, free) /\ op.idx \in free[o]
  BY <1>2 DEF IInv, Geometry, Bits, JoinStarted
<1> HIDE DEF o, x
<1>5. 2 * x \in free[o] /\ 2 * x + 1 \in free[o]
  <2>1. 2 * x \in free[o] <=> 2 * x + 1 \in free[o]
    BY <1>2, <1>3, <1>4 DEF BitsOf
  <2> QED
    BY <1>3, <1>4, <2>1
<1>6. Buddy(op.idx) \in free[op.order]
  BY <1>3, <1>5 DEF o
<1>7. /\ free' = [free EXCEPT ![o] = @ \ {2 * x, 2 * x + 1}, ![o + 1] = @ \cup {x}]
      /\ map' = Flip(o + 1, x)
      /\ op' = [op EXCEPT !.order = o + 1, !.idx = x]
      /\ UNCHANGED <<page_freecount, used>>
  <2>1. {op.idx, Buddy(op.idx)} = {2 * x, 2 * x + 1}
    BY <1>3
  <2> QED
    BY <1>1, <1>6, <2>1 DEF page_join, o, x
<1>8. free' \in Lists /\ map' \in [Order \ {0} -> SUBSET Nat]
  <2>1. free' \in Lists
    BY <1>1, <1>2, <1>3, <1>7 DEF Lists
  <2> QED
    BY <1>1, <1>3, <1>7, <2>1, FlipIs, Zenon
<1>9. \A p \in Order : \A j \in Nat :
        j \in free'[p] <=> \/ j \in free[p] /\ ~(p = o /\ j \in {2 * x, 2 * x + 1})
                           \/ p = o + 1 /\ j = x
  BY <1>1, <1>2, <1>3, <1>7 DEF Lists
<1>10. op.order = o
  BY DEF o
<1> QED
  BY <1>2, <1>3, <1>5, <1>7, <1>8, <1>9, <1>10, Zenon

\* One turn of __page_join preserves the invariant.
LEMMA JoinIInv == ASSUME IInv, page_join PROVE IInv'
<1>1. free \in Lists /\ used \in Holdings /\ TypeOK /\ op \in Op
  BY DEF IInv, TypeOK, Lists, Holdings
<1>2. PICK o \in Order, x \in Nat :
           /\ o < Top /\ o + 1 \in Order /\ o # o + 1 /\ op.at = "join" /\ op.order = o
           /\ op.idx \in {2 * x, 2 * x + 1} /\ 2 * x \in free[o] /\ 2 * x + 1 \in free[o]
           /\ map' = Flip(o + 1, x)
           /\ op' = [op EXCEPT !.order = o + 1, !.idx = x]
           /\ UNCHANGED <<page_freecount, used>>
           /\ free' \in Lists /\ map' \in [Order \ {0} -> SUBSET Nat]
           /\ \A p \in Order : \A j \in Nat :
                j \in free'[p] <=> \/ j \in free[p] /\ ~(p = o /\ j \in {2 * x, 2 * x + 1})
                                   \/ p = o + 1 /\ j = x
  BY JoinShape, Zenon
<1>3. o + 1 # 0 /\ 2 * x \in Nat /\ 2 * x + 1 \in Nat
  BY Sizes
<1>4. GeometryOf(free, used) /\ BitsOf(map, free)
  BY DEF IInv, Geometry, Bits
<1>10. GeometryOf(free', used) /\ x \notin free[o + 1]
  BY <1>1, <1>2, <1>3, <1>4, JoinGeometry
<1>11. TypeOK'
  <2>1. op' \in Op
    BY <1>1, <1>3, <1>2, Zenon DEF Op
  <2> QED
    BY <1>1, <1>2, <2>1 DEF TypeOK, Lists
<1>12. Bits'
  <2> DEFINE g == [free EXCEPT ![o + 1] = @ \cup {x}]
  <2>1. \A p \in Order : \A j \in Nat :
          j \in g[p] <=> IF p = o + 1 /\ j = x THEN j \notin free[p] ELSE j \in free[p]
    BY <1>1, <1>3, <1>10 DEF Lists
  <2>2. \A p \in Order \ {0} : \A y \in Nat :
          y \in map'[p] <=>
            IF p = (o + 1) + 1 /\ y = x \div 2 THEN y \notin map[p] ELSE y \in map[p]
    BY <1>1, <1>3, <1>2, FlipIs
  <2> HIDE DEF g
  <2>3. BitsOf(map', g)
    BY <1>2, <1>3, <1>4, <2>1, <2>2, ToggleBits
  <2>4. 2 * x \in g[o] /\ 2 * x + 1 \in g[o]
    BY <1>2, <1>3, <2>1
  <2>5. 2 * x \notin free'[o] /\ 2 * x + 1 \notin free'[o]
    BY <1>2, <1>3
  <2>6. \A p \in Order : \A j \in Nat :
          ~(p = o /\ j \in {2 * x, 2 * x + 1}) => (j \in free'[p] <=> j \in g[p])
    BY <1>3, <1>2, <1>10, <2>1
  <2>7. BitsOf(map', free')
    BY <1>2, <1>3, <2>3, <2>4, <2>5, <2>6, PairBits
  <2> QED
    BY <2>7 DEF Bits
<1>13. JoinStarted' /\ JoinsFreeBuddy'
  <2>1. op'.order = o + 1 /\ op'.idx = x /\ op'.at = "join"
    BY <1>1, <1>2 DEF Op
  <2>2. x \in free'[o + 1]
    BY <1>3, <1>2
  <2> QED
    BY <2>1, <2>2 DEF JoinStarted, JoinsFreeBuddy
<1> QED
  BY <1>2, <1>10, <1>11, <1>12, <1>13 DEF IInv, Geometry

\* Every step of the allocator preserves the invariant.
LEMMA NextIInv == ASSUME IInv, [Next]_vars PROVE IInv'
<1>1. op \in Op
  BY DEF IInv, TypeOK
<1>2. ASSUME NEW c \in Client, NEW n \in 1 .. S[Top], page_alloc_n(c, n) PROVE IInv'
  <2>1. PICK o \in OrderFor(n) :
          \/ Found(o, c)
          \/ /\ \E p \in Order :
                  op' = [op EXCEPT !.at = "split", !.order = o, !.norder = p, !.client = c]
             /\ UNCHANGED <<free, map, page_freecount, used>>
          \/ op' = Between("reclaim") /\ UNCHANGED <<free, map, page_freecount, used>>
    BY <1>2, Zenon DEF page_alloc_n
  <2>2. o \in Order
    BY DEF OrderFor
  <2>3. CASE Found(o, c)
    BY <2>2, <2>3, FoundIInv
  <2>4. CASE /\ \E p \in Order :
                  op' = [op EXCEPT !.at = "split", !.order = o, !.norder = p, !.client = c]
             /\ UNCHANGED <<free, map, page_freecount, used>>
    <3>1. op' \in Op /\ op'.at = "split"
      BY <1>1, <2>2, <2>4, Zenon DEF Op
    <3> QED
      BY <2>4, <3>1, IdleIInv
  <2>5. CASE op' = Between("reclaim") /\ UNCHANGED <<free, map, page_freecount, used>>
    BY <2>5, BetweenIsOp, IdleIInv
  <2> QED
    BY <2>1, <2>3, <2>4, <2>5, Zenon
<1>3. ASSUME NEW c \in Client, NEW b \in used[c], page_free_n(c, b) PROVE IInv'
  BY <1>3, FreeIInv
<1>4. ASSUME SplitEnds PROVE IInv'
  BY <1>1, <1>4, FoundIInv DEF SplitEnds, Op
<1>5. ASSUME JoinEnds PROVE IInv'
  <2>1. op.ret \in {"idle", "reclaim"} /\ op' = Between(op.ret)
    BY <1>1, <1>5 DEF JoinEnds, Op
  <2>2. op' \in Op /\ op'.at \notin {"join", "lost"}
    BY <2>1, BetweenIsOp
  <2> QED
    BY <1>5, <2>2, IdleIInv DEF JoinEnds
<1>6. ASSUME ReclaimEnds PROVE IInv'
  BY <1>6, BetweenIsOp, IdleIInv DEF ReclaimEnds
<1>7. ASSUME UNCHANGED vars PROVE IInv'
  BY <1>7 DEF vars, IInv, TypeOK, Bits, Geometry, JoinStarted, JoinsFreeBuddy
<1> QED
  BY <1>2, <1>3, <1>4, <1>5, <1>6, <1>7, SplitIInv, JoinIInv DEF Next

\* What the invariant says of the blocks in the terms of PageAlloc.
LEMMA IInvSafe == ASSUME IInv PROVE TypeOK /\ JoinsFreeBuddy /\ NoOverlap /\ BitmapExact
<1>1. TypeOK /\ JoinsFreeBuddy /\ BitsOf(map, free) /\ GeometryOf(free, used)
  BY DEF IInv, Bits, Geometry
<1>2. ASSUME NEW b \in FreeBlocks
      PROVE  \E o \in Order : \E i \in free[o] : b = <<o, i>>
  BY DEF FreeBlocks
<1>3. ASSUME NEW b \in UsedBlocks PROVE \E c \in Client : b \in used[c]
  BY DEF UsedBlocks
<1>4. ASSUME NEW b \in UsedBlocks \cup FreeBlocks, NEW d \in UsedBlocks \cup FreeBlocks
      PROVE  b = d \/ Apart(b, d)
  <2>1. CASE b \in UsedBlocks /\ d \in UsedBlocks
    BY <1>1, <1>3, <2>1 DEF GeometryOf, UsedApart
  <2>2. CASE b \in UsedBlocks /\ d \in FreeBlocks
    BY <1>1, <1>2, <1>3, <2>2 DEF GeometryOf, FreeUsedApart
  <2>3. CASE b \in FreeBlocks /\ d \in UsedBlocks
    <3>1. Apart(d, b)
      BY <1>1, <1>2, <1>3, <2>3 DEF GeometryOf, FreeUsedApart
    <3> QED
      BY <3>1, ApartSymmetric
  <2>4. CASE b \in FreeBlocks /\ d \in FreeBlocks
    BY <1>1, <1>2, <2>4 DEF GeometryOf, FreeApart
  <2> QED
    BY <2>1, <2>2, <2>3, <2>4
<1>5. \A b \in UsedBlocks \cup FreeBlocks : Hi(b) <= npages
  BY <1>1, <1>2, <1>3 DEF GeometryOf, InGroup
<1>6. \A b \in Block : ~Apart(b, b)
  BY Bounds DEF Apart
<1>7. ASSUME NEW c \in Client, NEW d \in Client, c # d PROVE used[c] \cap used[d] = {}
  BY <1>1, <1>6, <1>7 DEF TypeOK, GeometryOf, UsedApart
<1>8. UsedBlocks \cap FreeBlocks = {}
  <2> SUFFICES ASSUME NEW b \in UsedBlocks, b \in FreeBlocks PROVE FALSE
    OBVIOUS
  <2>1. PICK c \in Client : b \in used[c]
    BY <1>3
  <2>2. Apart(b, b)
    BY <1>1, <1>2, <2>1 DEF GeometryOf, FreeUsedApart
  <2>3. b \in Block
    BY <1>1, <2>1 DEF TypeOK
  <2> QED
    BY <1>6, <2>2, <2>3
<1>9. NoOverlap
  BY <1>4, <1>5, <1>7, <1>8 DEF NoOverlap, Apart
<1>10. BitmapExact
  <2> SUFFICES ASSUME NEW o \in Order \ {0}, NEW x \in 0 .. npages
               PROVE  x \notin map[o] <=> (2 * x \in free[o - 1] <=> 2 * x + 1 \in free[o - 1])
    BY DEF BitmapExact
  <2> QED
    BY <1>1, PageAllocAssumption DEF BitsOf
<1> QED
  BY <1>1, <1>9, <1>10

\* For every number of clients, every number of block sizes and every group
\* without a tail, through every sequence of page_alloc_n, page_free_n, splits,
\* joins and reclaims: blocks never overlap or leave the group, the bit maps are
\* exact, the assertion of __page_split holds and __page_join finds its buddy on
\* the free list.
THEOREM PageAllocSafe ==
  ASSUME NoTail
  PROVE  Spec => [](TypeOK /\ JoinsFreeBuddy /\ NoOverlap /\ BitmapExact)
<1>1. Init => IInv
  BY InitIInv
<1>2. IInv /\ [Next]_vars => IInv'
  BY NextIInv
<1>3. IInv => TypeOK /\ JoinsFreeBuddy /\ NoOverlap /\ BitmapExact
  BY IInvSafe
<1> QED
  BY <1>1, <1>2, <1>3, PTL DEF Spec

\* Of these: through every sequence of calls __page_join unlinks only a buddy that
\* is on its free list, and the assertion of __page_split holds.
THEOREM JoinsSafe == ASSUME NoTail PROVE Spec => []JoinsFreeBuddy
  BY PageAllocSafe, PTL

-----------------------------------------------------------------------------
(***************************************************************************)
(* page_freecount and the joining of buddies.                              *)
(***************************************************************************)
\* The page p lies in the block b, in a free block, in a block that is held.
Within(p, b) == Lo(b) <= p /\ p < Hi(b)
FreeIn(f, p) == \E o \in Order : \E i \in f[o] : Within(p, <<o, i>>)
UsedIn(u, p) == \E c \in Client : \E b \in u[c] : Within(p, b)

PagesOf(f) == {p \in 0 .. npages - 1 : FreeIn(f, p)}

\* No page is lost: every page of the group is in a free block or in one that is
\* held.
Covered(f, u) == \A p \in 0 .. npages - 1 : FreeIn(f, p) \/ UsedIn(u, p)

\* While __page_split runs the lists between the order wanted and the order it
\* splits are empty.
SplitClears ==
  op.at = "split" =>
    /\ op.order <= op.norder
    /\ \A q \in Order : op.order <= q /\ q < op.norder => free[q] = {}

\* Two buddies are both free only while __page_join is at them, or when
\* __page_split has just made them, and then they are alone on their list.
Pairs ==
  \A o \in Order : \A x \in Nat :
    o < Top /\ 2 * x \in free[o] /\ 2 * x + 1 \in free[o] =>
      \/ op.at = "join" /\ op.order = o /\ op.idx \in {2 * x, 2 * x + 1}
      \/ op.at = "split" /\ op.norder = o /\ free[o] = {2 * x, 2 * x + 1}

PInv ==
  /\ IInv /\ SplitClears /\ Pairs /\ Covered(free, used)
  /\ page_freecount = Cardinality(PagesOf(free))

\* The pages of a block are the pages of its halves.
LEMMA WithinHalves ==
  ASSUME NEW o \in Order, o < Top, NEW x \in Nat, NEW p \in Nat
  PROVE  Within(p, <<o + 1, x>>) <=> Within(p, <<o, 2 * x>>) \/ Within(p, <<o, 2 * x + 1>>)
<1>1. <<o + 1, x>> \in Block /\ <<o, 2 * x>> \in Block /\ <<o, 2 * x + 1>> \in Block
  BY Sizes DEF Block
<1> QED
  BY <1>1, Halves, Bounds DEF Within

\* A page is in at most one of two blocks that are apart.
LEMMA ApartWithin ==
  ASSUME NEW b \in Block, NEW d \in Block, Apart(b, d), NEW p \in Nat, Within(p, b)
  PROVE  ~Within(p, d)
  BY Bounds DEF Apart, Within

\* A block has as many pages as its order says.
LEMMA BlockPages ==
  ASSUME NEW b \in Block
  PROVE  /\ IsFiniteSet(Lo(b) .. Hi(b) - 1)
         /\ Cardinality(Lo(b) .. Hi(b) - 1) = S[b[1]]
<1>1. Lo(b) \in Nat /\ Hi(b) \in Nat /\ Lo(b) < Hi(b) /\ S[b[1]] \in Nat
  BY Bounds, Sizes DEF Block
<1>2. /\ IsFiniteSet(Lo(b) .. Hi(b) - 1)
      /\ Cardinality(Lo(b) .. Hi(b) - 1) = (Hi(b) - 1) - Lo(b) + 1
  <2>1. Lo(b) \in Int /\ Hi(b) - 1 \in Int /\ ~(Lo(b) > Hi(b) - 1)
    BY <1>1
  <2>2. /\ IsFiniteSet(Lo(b) .. Hi(b) - 1)
        /\ Cardinality(Lo(b) .. Hi(b) - 1) =
             IF Lo(b) > Hi(b) - 1 THEN 0 ELSE (Hi(b) - 1) - Lo(b) + 1
    BY <2>1, FS_Interval, Zenon
  <2> QED
    BY <2>1, <2>2
<1>3. (Hi(b) - 1) - Lo(b) + 1 = S[b[1]]
  BY <1>1 DEF Hi
<1> QED
  BY <1>2, <1>3

\* The set of free pages is finite.
LEMMA PagesFinite ==
  ASSUME NEW f
  PROVE  IsFiniteSet(PagesOf(f)) /\ Cardinality(PagesOf(f)) \in Nat
<1>1. IsFiniteSet(0 .. npages - 1)
  BY FS_Interval, PageAllocAssumption
<1>2. PagesOf(f) \in SUBSET (0 .. npages - 1)
  BY DEF PagesOf
<1> QED
  BY <1>1, <1>2, FS_Subset, FS_CardinalityType, Zenon

\* "found": the pages of the block that is taken are free no more.
LEMMA TakePages ==
  ASSUME NEW f \in Lists, NEW u \in Holdings, GeometryOf(f, u),
         NEW o \in Order, NEW i \in f[o], NEW g \in Lists,
         \A p \in Order : \A j \in Nat : j \in g[p] <=> j \in f[p] /\ ~(p = o /\ j = i)
  PROVE  Cardinality(PagesOf(g)) = Cardinality(PagesOf(f)) - S[o]
<1> DEFINE b == <<o, i>>
           B == Lo(b) .. Hi(b) - 1
<1>1. b \in Block /\ b[1] = o
  BY DEF Lists, Block
<1>2. Lo(b) \in Nat /\ Hi(b) \in Nat /\ Hi(b) <= npages /\ npages \in Nat
  BY <1>1, Bounds, PageAllocAssumption DEF GeometryOf, InGroup
<1>3. \A p \in Order : \A j \in f[p] : <<p, j>> \in Block /\ j \in Nat
  BY DEF Lists, Block
<1>4. \A p \in Order : \A j \in g[p] : j \in Nat
  BY DEF Lists
<1>5. \A p \in Nat : p \in B <=> Within(p, b)
  BY <1>2 DEF Within
<1>6. ASSUME NEW p \in 0 .. npages - 1
      PROVE  FreeIn(g, p) <=> FreeIn(f, p) /\ ~Within(p, b)
  <2>1. p \in Nat
    BY <1>2
  <2>2. ASSUME NEW q \in Order, NEW j \in f[q], Within(p, <<q, j>>), Within(p, b)
        PROVE  q = o /\ j = i
    <3>1. ~Apart(b, <<q, j>>)
      BY <1>1, <1>3, <2>1, <2>2, ApartWithin
    <3> QED
      BY <3>1 DEF GeometryOf, FreeApart
  <2>3. ASSUME FreeIn(g, p) PROVE FreeIn(f, p) /\ ~Within(p, b)
    BY <1>4, <2>2, <2>3 DEF FreeIn
  <2>4. ASSUME FreeIn(f, p), ~Within(p, b) PROVE FreeIn(g, p)
    BY <1>3, <2>4 DEF FreeIn
  <2> QED
    BY <2>3, <2>4
<1>7. \A p \in Nat : Within(p, b) => FreeIn(f, p)
  BY DEF FreeIn
<1>8. B \subseteq 0 .. npages - 1
  BY <1>2
<1> HIDE DEF B, b
<1>9. PagesOf(g) = PagesOf(f) \ B /\ PagesOf(f) \cap B = B
  <2>1. \A p \in 0 .. npages - 1 : p \in Nat
    BY <1>2
  <2>2. \A p \in 0 .. npages - 1 : FreeIn(g, p) <=> FreeIn(f, p) /\ p \notin B
    BY <1>5, <1>6, <2>1
  <2>3. \A p \in B : FreeIn(f, p)
    BY <1>5, <1>7, <1>8, <2>1
  <2> QED
    BY <1>8, <2>2, <2>3, Zenon DEF PagesOf
<1>10. Cardinality(PagesOf(g)) = Cardinality(PagesOf(f)) - Cardinality(B)
  BY <1>9, PagesFinite, FS_Difference, Zenon
<1>11. Cardinality(B) = S[o]
  BY <1>1, BlockPages DEF B
<1> QED
  BY <1>10, <1>11

\* page_free_n: the pages of the block become free.
LEMMA GivePages ==
  ASSUME NEW f \in Lists, NEW u \in Holdings, GeometryOf(f, u),
         NEW c \in Client, NEW o \in Order, NEW i \in Nat, <<o, i>> \in u[c], NEW g \in Lists,
         \A p \in Order : \A j \in Nat : j \in g[p] <=> j \in f[p] \/ (p = o /\ j = i)
  PROVE  Cardinality(PagesOf(g)) = Cardinality(PagesOf(f)) + S[o]
<1> DEFINE b == <<o, i>>
           B == Lo(b) .. Hi(b) - 1
<1>1. b \in Block /\ b[1] = o
  BY DEF Block
<1>2. Lo(b) \in Nat /\ Hi(b) \in Nat /\ Hi(b) <= npages /\ npages \in Nat
  BY <1>1, Bounds, PageAllocAssumption DEF GeometryOf, InGroup
<1>3. \A p \in Order : \A j \in f[p] : <<p, j>> \in Block /\ j \in Nat
  BY DEF Lists, Block
<1>4. \A p \in Order : \A j \in g[p] : j \in Nat
  BY DEF Lists
<1>5. \A p \in Nat : p \in B <=> Within(p, b)
  BY <1>2 DEF Within
<1>6. ASSUME NEW p \in 0 .. npages - 1
      PROVE  /\ FreeIn(g, p) <=> FreeIn(f, p) \/ Within(p, b)
             /\ ~(FreeIn(f, p) /\ Within(p, b))
  <2>1. p \in Nat
    BY <1>2
  <2>2. ASSUME NEW q \in Order, NEW j \in f[q], Within(p, <<q, j>>), Within(p, b)
        PROVE  FALSE
    <3>1. ~Apart(b, <<q, j>>)
      BY <1>1, <1>3, <2>1, <2>2, ApartWithin
    <3> QED
      BY <3>1 DEF GeometryOf, FreeUsedApart
  <2>3. ASSUME FreeIn(g, p) PROVE FreeIn(f, p) \/ Within(p, b)
    BY <1>4, <2>3 DEF FreeIn
  <2>4. ASSUME FreeIn(f, p) \/ Within(p, b) PROVE FreeIn(g, p)
    BY <1>3, <2>4, Zenon DEF FreeIn
  <2> QED
    BY <2>2, <2>3, <2>4, Zenon DEF FreeIn
<1>8. B \subseteq 0 .. npages - 1
  BY <1>2
<1> HIDE DEF B, b
<1>9. PagesOf(g) = PagesOf(f) \cup B /\ PagesOf(f) \cap B = {}
  <2>1. \A p \in 0 .. npages - 1 : p \in Nat
    BY <1>2
  <2>2. \A p \in 0 .. npages - 1 : FreeIn(g, p) <=> FreeIn(f, p) \/ p \in B
    BY <1>5, <1>6, <2>1
  <2>3. \A p \in B : ~FreeIn(f, p)
    BY <1>5, <1>6, <1>8, <2>1
  <2> QED
    BY <1>8, <2>2, <2>3, Zenon DEF PagesOf
<1>10. Cardinality(B) = S[o] /\ IsFiniteSet(B) /\ S[o] \in Nat
  BY <1>1, BlockPages, Sizes DEF B
<1>11. Cardinality(PagesOf(g)) = Cardinality(PagesOf(f)) + Cardinality(B) - Cardinality(PagesOf(f) \cap B)
  BY <1>9, <1>10, PagesFinite, FS_Union
<1>12. Cardinality(PagesOf(f) \cap B) = 0 /\ Cardinality(PagesOf(f)) \in Nat
  BY <1>9, PagesFinite, FS_EmptySet, Zenon
<1> QED
  BY <1>10, <1>11, <1>12

\* __page_split and __page_join move no page in or out of the free lists.
LEMMA HalvesPages ==
  ASSUME NEW f \in Lists, NEW g \in Lists, NEW o \in Order, o < Top, NEW x \in Nat,
         x \in f[o + 1], 2 * x \in g[o], 2 * x + 1 \in g[o],
         \A p \in Order : \A j \in Nat :
           \/ p = o + 1 /\ j = x
           \/ p = o /\ j \in {2 * x, 2 * x + 1}
           \/ j \in f[p] <=> j \in g[p],
         x \notin g[o + 1], 2 * x \notin f[o], 2 * x + 1 \notin f[o]
  PROVE  /\ \A p \in Nat : FreeIn(f, p) <=> FreeIn(g, p)
         /\ PagesOf(f) = PagesOf(g)
<1>1. o + 1 \in Order
  BY Sizes
<1>2. \A p \in Nat : Within(p, <<o + 1, x>>) <=> Within(p, <<o, 2 * x>>) \/ Within(p, <<o, 2 * x + 1>>)
  BY WithinHalves
<1>3. \A p \in Order : \A j : j \in f[p] \/ j \in g[p] => j \in Nat
  BY DEF Lists
<1>4. ASSUME NEW p \in Nat, FreeIn(f, p) PROVE FreeIn(g, p)
  <2>1. PICK q \in Order : \E j \in f[q] : Within(p, <<q, j>>)
    BY <1>4 DEF FreeIn
  <2>2. PICK j \in f[q] : Within(p, <<q, j>>)
    BY <2>1
  <2>3. CASE q = o + 1 /\ j = x
    BY <1>2, <2>2, <2>3 DEF FreeIn
  <2>4. CASE ~(q = o + 1 /\ j = x)
    <3>1. j \in g[q]
      BY <1>3, <2>2, <2>4
    <3> QED
      BY <2>2, <3>1 DEF FreeIn
  <2> QED
    BY <2>3, <2>4
<1>5. ASSUME NEW p \in Nat, FreeIn(g, p) PROVE FreeIn(f, p)
  <2>1. PICK q \in Order : \E j \in g[q] : Within(p, <<q, j>>)
    BY <1>5 DEF FreeIn
  <2>2. PICK j \in g[q] : Within(p, <<q, j>>)
    BY <2>1
  <2>3. CASE q = o /\ j \in {2 * x, 2 * x + 1}
    <3>1. Within(p, <<o + 1, x>>)
      BY <1>2, <2>2, <2>3
    <3> QED
      BY <1>1, <3>1 DEF FreeIn
  <2>4. CASE ~(q = o /\ j \in {2 * x, 2 * x + 1})
    <3>1. j \in f[q]
      BY <1>3, <2>2, <2>4
    <3> QED
      BY <2>2, <3>1 DEF FreeIn
  <2> QED
    BY <2>3, <2>4
<1>6. \A p \in 0 .. npages - 1 : p \in Nat
  BY PageAllocAssumption
<1> QED
  BY <1>4, <1>5, <1>6 DEF PagesOf

\* A block of a larger order is a whole number of blocks of a smaller one.
LEMMA SizesDivide ==
  ASSUME NEW o \in Order, NEW p \in Order, o <= p
  PROVE  \E m \in Nat : m >= 1 /\ S[p] = m * S[o]
<1> DEFINE T == {q \in Order : o <= q /\ ~(\E m \in Nat : m >= 1 /\ S[q] = m * S[o])}
<1>1. Order \in SUBSET Nat /\ \A q \in Order : q \in Nat /\ S[q] \in Nat
  BY Sizes
<1>2. ASSUME T # {} PROVE FALSE
  <2>1. PICK q \in T : \A r \in T : q <= r
    BY <1>1, <1>2, LeastNat, Zenon
  <2>2. q # o
    <3>1. S[o] = 1 * S[o]
      BY <1>1
    <3> QED
      BY <2>1, <3>1
  <2>3. q \in Order /\ q # 0 /\ o <= q - 1
    BY <1>1, <2>1, <2>2
  <2>4. q - 1 \in Order /\ S[q] = 2 * S[q - 1]
    BY <2>3, Sizes
  <2>5. q - 1 \notin T
    BY <1>1, <2>1, <2>3
  <2>6. PICK m \in Nat : m >= 1 /\ S[q - 1] = m * S[o]
    BY <2>3, <2>4, <2>5
  <2>7. \A s \in Nat : 2 * (m * s) = (2 * m) * s
    OBVIOUS
  <2>8. S[q] = (2 * m) * S[o] /\ 2 * m \in Nat /\ 2 * m >= 1
    BY <1>1, <2>4, <2>6, <2>7
  <2> QED
    BY <2>1, <2>8
<1> QED
  BY <1>2

\* A group without a tail is a whole number of blocks of every order.
LEMMA GroupDivides ==
  ASSUME NoTail, NEW o \in Order PROVE \E q \in Nat : npages = q * S[o]
<1> DEFINE T == {p \in Order : ~(\E q \in Nat : npages = q * S[p])}
<1>1. Order \in SUBSET Nat /\ (\A p \in Order : p \in Nat /\ S[p] \in Nat /\ S[p] >= 1) /\ npages \in Nat
  BY Sizes, PageAllocAssumption
<1>2. ASSUME T # {} PROVE FALSE
  <2>1. PICK p \in T : \A r \in T : p <= r
    BY <1>1, <1>2, LeastNat, Zenon
  <2>2. p # 0
    <3>1. npages = npages * 1 /\ S[0] = 1
      BY <1>1, PageAllocAssumption
    <3> QED
      BY <1>1, <2>1, <3>1
  <2>3. p \in Order /\ p - 1 \in Order /\ S[p] = 2 * S[p - 1] /\ p - 1 # Top
    BY <2>1, <2>2, Sizes
  <2>4. p - 1 \notin T
    BY <1>1, <2>1, <2>3
  <2>5. PICK q \in Nat : npages = q * S[p - 1]
    BY <2>3, <2>4
  <2>6. \A k, s \in Nat : s >= 1 => (k * s) \div s = k
    OBVIOUS
  <2>7. q % 2 = 0
    <3>1. npages \div S[p - 1] = q
      BY <1>1, <2>3, <2>5, <2>6
    <3> QED
      BY <2>3, <3>1 DEF NoTail
  <2>8. PICK r \in Nat : q = 2 * r
    BY <2>7, Pair
  <2>9. \A s \in Nat : (2 * r) * s = r * (2 * s)
    OBVIOUS
  <2>10. npages = r * S[p]
    BY <1>1, <2>3, <2>5, <2>8, <2>9
  <2> QED
    BY <2>1, <2>10
<1> QED
  BY <1>2

\* Every number lies in one block of each order.
LEMMA BlockOf ==
  ASSUME NEW o \in Order, NEW p \in Nat
  PROVE  \E i \in Nat : i * S[o] <= p /\ p < (i + 1) * S[o]
<1> DEFINE T == {n \in Nat : p < (n + 1) * S[o]}
<1>1. S[o] \in Nat /\ S[o] >= 1
  BY Sizes
<1>2. p \in T
  <2>1. \A s \in Nat : s >= 1 => p < (p + 1) * s
    OBVIOUS
  <2> QED
    BY <1>1, <2>1
<1>3. PICK i \in T : \A n \in T : i <= n
  BY <1>2, LeastNat, Zenon
<1>4. CASE i = 0
  <2>1. 0 * S[o] = 0
    BY <1>1
  <2> QED
    BY <1>3, <1>4, <2>1
<1>5. CASE i # 0
  <2>1. i - 1 \in Nat /\ i - 1 \notin T /\ (i - 1) + 1 = i
    BY <1>3, <1>5
  <2>2. i * S[o] <= p
    <3>1. i * S[o] \in Nat
      BY <1>1, <1>3
    <3> QED
      BY <2>1, <3>1
  <2> QED
    BY <1>3, <2>2
<1> QED
  BY <1>4, <1>5

\* Products grow with their factors.
LEMMA Products ==
  ASSUME NEW s \in Nat, s >= 1, NEW m \in Nat, NEW n \in Nat
  PROVE  /\ m * s < n * s => m + 1 <= n
         /\ m <= n => m * s <= n * s
         /\ (m + 1) * s = m * s + s
  OBVIOUS

\* _pagegroup_create puts every page of a group without a tail into a block of
\* the largest order.
LEMMA InitPInv == ASSUME NoTail, Init PROVE PInv
<1>1. IInv /\ npages \in Nat /\ Top \in Order /\ S[Top] \in Nat /\ S[Top] >= 1
  BY InitIInv, Sizes, PageAllocAssumption
<1>2. ASSUME NEW p \in 0 .. npages - 1 PROVE FreeIn(free, p)
  <2>1. p \in Nat /\ p < npages
    BY <1>1
  <2>2. PICK i \in Nat : i * S[Top] <= p /\ p < (i + 1) * S[Top]
    BY <1>1, <2>1, BlockOf
  <2>3. PICK q \in Nat : npages = q * S[Top]
    BY <1>1, GroupDivides
  <2>4. i * S[Top] \in Nat /\ (i + 1) * S[Top] = i * S[Top] + S[Top]
    BY <1>1, Products
  <2>5. i + 1 <= q
    BY <1>1, <2>1, <2>2, <2>3, <2>4, Products
  <2>6. (i + 1) * S[Top] <= npages
    <3>1. i + 1 \in Nat
      OBVIOUS
    <3> QED
      BY <1>1, <2>3, <2>5, <3>1, Products
  <2>7. i \in 0 .. npages
    <3>1. \A s \in Nat : s >= 1 => i <= i * s
      OBVIOUS
    <3>2. i <= i * S[Top]
      BY <1>1, <3>1
    <3>3. \A k \in Nat : i <= k /\ k <= p => i <= npages
      BY <1>1, <2>1
    <3>4. i <= npages
      BY <2>2, <2>4, <3>2, <3>3
    <3> QED
      BY <1>1, <3>4
  <2>8. i \in free[Top]
    BY <1>1, <2>6, <2>7 DEF Init
  <2>9. Within(p, <<Top, i>>)
    BY <2>2, <2>4 DEF Within, Lo, Hi
  <2> QED
    BY <1>1, <2>8, <2>9 DEF FreeIn
<1>3. Covered(free, used)
  BY <1>2 DEF Covered
<1>4. page_freecount = Cardinality(PagesOf(free))
  <2>1. PagesOf(free) = 0 .. npages - 1
    BY <1>2 DEF PagesOf
  <2>2. Cardinality(0 .. npages - 1) = IF 0 > npages - 1 THEN 0 ELSE (npages - 1) - 0 + 1
    <3>1. 0 \in Int /\ npages - 1 \in Int
      BY <1>1
    <3> QED
      BY <3>1, FS_Interval, Zenon
  <2>3. page_freecount = npages
    BY DEF Init
  <2> QED
    BY <1>1, <2>1, <2>2, <2>3
<1>5. op.at = "idle"
  BY BetweenIsOp DEF Init
<1>6. SplitClears
  BY <1>5 DEF SplitClears
<1>7. Pairs
  <2>1. ASSUME NEW o \in Order, NEW i \in free[o], o < Top PROVE FALSE
    <3>1. o # Top
      BY <2>1, Sizes
    <3>2. i \in 0 .. npages /\ i + 1 = npages \div S[o] /\ i % 2 = 0
      BY <3>1 DEF Init
    <3>3. (i + 1) % 2 = 0
      BY <3>1, <3>2 DEF NoTail
    <3> QED
      BY <1>1, <3>2, <3>3
  <2> QED
    BY <2>1 DEF Pairs
<1> QED
  BY <1>1, <1>3, <1>4, <1>6, <1>7 DEF PInv

\* "found": the count goes down by the pages of the block, and no pair of free
\* buddies is left.
LEMMA FoundPInv ==
  ASSUME PInv, NEW o \in Order, NEW c \in Client, Found(o, c),
         op.at = "idle" \/ (op.at = "split" /\ op.norder = o)
  PROVE  PInv'
<1>1. IInv /\ IInv' /\ TypeOK /\ Geometry
  BY FoundIInv DEF PInv, IInv
<1>2. PICK i \in free[o] :
        /\ free' = [free EXCEPT ![o] = @ \ {i}]
        /\ page_freecount' = page_freecount - S[o]
        /\ used' = [used EXCEPT ![c] = @ \cup {<<o, i>>}]
        /\ op' = Between("idle")
  BY Zenon DEF Found
<1>3. free \in Lists /\ used \in Holdings /\ free' \in Lists /\ GeometryOf(free, used)
  BY <1>1 DEF IInv, TypeOK, Lists, Holdings, Geometry
<1>4. \A p \in Order : \A j \in Nat : j \in free'[p] <=> j \in free[p] /\ ~(p = o /\ j = i)
  BY <1>2, <1>3 DEF Lists
<1>5. \A d \in Client : \A b : b \in used'[d] <=> b \in used[d] \/ (d = c /\ b = <<o, i>>)
  BY <1>2, <1>3 DEF Holdings
<1>6. page_freecount' = Cardinality(PagesOf(free'))
  <2>1. Cardinality(PagesOf(free')) = Cardinality(PagesOf(free)) - S[o]
    BY <1>3, <1>4, TakePages
  <2> QED
    BY <1>2, <2>1 DEF PInv
<1>7. Covered(free', used')
  <2>1. \A p \in Order : \A j \in free[p] : j \in Nat
    BY <1>3 DEF Lists
  <2>2. ASSUME NEW p, FreeIn(free, p) PROVE FreeIn(free', p) \/ UsedIn(used', p)
    <3>1. PICK q \in Order : \E j \in free[q] : Within(p, <<q, j>>)
      BY <2>2 DEF FreeIn
    <3>2. PICK j \in free[q] : Within(p, <<q, j>>)
      BY <3>1
    <3>3. CASE q = o /\ j = i
      BY <1>5, <3>2, <3>3 DEF UsedIn
    <3>4. CASE ~(q = o /\ j = i)
      BY <1>4, <2>1, <3>2, <3>4 DEF FreeIn
    <3> QED
      BY <3>3, <3>4
  <2>3. ASSUME NEW p, UsedIn(used, p) PROVE UsedIn(used', p)
    BY <1>5, <2>3 DEF UsedIn
  <2> QED
    BY <2>2, <2>3 DEF PInv, Covered
<1>8. op'.at = "idle"
  BY <1>2, BetweenIsOp
<1>9. SplitClears'
  BY <1>8 DEF SplitClears
<1>10. Pairs'
  <2> SUFFICES ASSUME NEW p \in Order, NEW x \in Nat, p < Top,
                      2 * x \in free'[p], 2 * x + 1 \in free'[p]
               PROVE  FALSE
    BY DEF Pairs
  <2>1. 2 * x \in Nat /\ 2 * x + 1 \in Nat
    OBVIOUS
  <2>2. 2 * x \in free[p] /\ 2 * x + 1 \in free[p] /\ (p = o => i \notin {2 * x, 2 * x + 1})
    BY <1>4, <2>1
  <2>3. \/ op.at = "join" /\ op.order = p /\ op.idx \in {2 * x, 2 * x + 1}
        \/ op.at = "split" /\ op.norder = p /\ free[p] = {2 * x, 2 * x + 1}
    BY <2>2 DEF PInv, Pairs
  <2> QED
    BY <1>2, <2>2, <2>3
<1> QED
  BY <1>1, <1>6, <1>7, <1>9, <1>10 DEF PInv

\* page_free_n: the count goes up by the pages of the block; if its buddy is free
\* too, __page_join starts at them.
LEMMA FreePInv ==
  ASSUME PInv, NEW c \in Client, NEW b, page_free_n(c, b) PROVE PInv'
<1>1. IInv /\ IInv' /\ TypeOK /\ Geometry /\ op \in Op
  BY FreeIInv DEF PInv, IInv, TypeOK
<1>2. free \in Lists /\ used \in Holdings /\ free' \in Lists /\ GeometryOf(free, used)
  BY <1>1 DEF IInv, TypeOK, Lists, Holdings, Geometry
<1>3. PICK o \in Order, i \in Nat : b = <<o, i>>
  BY <1>2 DEF page_free_n, Holdings, Block
<1>4. /\ <<o, i>> \in used[c]
      /\ used' = [used EXCEPT ![c] = @ \ {<<o, i>>}]
      /\ free' = [free EXCEPT ![o] = @ \cup {i}]
      /\ page_freecount' = page_freecount + S[o]
      /\ op' = [op EXCEPT !.at = "join", !.ret = op.at, !.order = o, !.idx = i]
      /\ op.at \in {"idle", "reclaim"}
  BY <1>3 DEF page_free_n
<1>5. \A p \in Order : \A j \in Nat : j \in free'[p] <=> j \in free[p] \/ (p = o /\ j = i)
  BY <1>2, <1>4 DEF Lists
<1>6. \A d \in Client : \A e : e \in used'[d] <=> e \in used[d] /\ ~(d = c /\ e = <<o, i>>)
  BY <1>2, <1>4 DEF Holdings
<1>7. page_freecount' = Cardinality(PagesOf(free'))
  <2>0. <<o, i>> \in used[c]
    BY <1>4
  <2>1. Cardinality(PagesOf(free')) = Cardinality(PagesOf(free)) + S[o]
    BY <1>2, <1>5, <2>0, GivePages
  <2> QED
    BY <1>4, <2>1 DEF PInv
<1>8. Covered(free', used')
  <2>1. \A p \in Order : \A j \in free[p] : j \in Nat
    BY <1>2 DEF Lists
  <2>2. ASSUME NEW p, FreeIn(free, p) PROVE FreeIn(free', p)
    BY <1>5, <2>1, <2>2 DEF FreeIn
  <2>3. ASSUME NEW p, UsedIn(used, p) PROVE FreeIn(free', p) \/ UsedIn(used', p)
    <3>1. PICK d \in Client : \E e \in used[d] : Within(p, e)
      BY <2>3 DEF UsedIn
    <3>2. PICK e \in used[d] : Within(p, e)
      BY <3>1
    <3>3. CASE d = c /\ e = <<o, i>>
      BY <1>5, <3>2, <3>3 DEF FreeIn
    <3>4. CASE ~(d = c /\ e = <<o, i>>)
      BY <1>6, <3>2, <3>4 DEF UsedIn
    <3> QED
      BY <3>3, <3>4
  <2> QED
    BY <2>2, <2>3 DEF PInv, Covered
<1>9. op'.at = "join" /\ op'.order = o /\ op'.idx = i
  BY <1>1, <1>4 DEF Op
<1>10. SplitClears'
  BY <1>9 DEF SplitClears
<1>11. Pairs'
  <2> SUFFICES ASSUME NEW p \in Order, NEW x \in Nat, p < Top,
                      2 * x \in free'[p], 2 * x + 1 \in free'[p]
               PROVE  p = o /\ i \in {2 * x, 2 * x + 1}
    BY <1>9 DEF Pairs
  <2>1. 2 * x \in Nat /\ 2 * x + 1 \in Nat
    OBVIOUS
  <2>2. ~(2 * x \in free[p] /\ 2 * x + 1 \in free[p])
    BY <1>4 DEF PInv, Pairs
  <2>3. 2 * x \in free[p] \/ (p = o /\ 2 * x = i)
    BY <1>5, <2>1
  <2>4. 2 * x + 1 \in free[p] \/ (p = o /\ 2 * x + 1 = i)
    BY <1>5, <2>1
  <2> QED
    BY <2>2, <2>3, <2>4
<1> QED
  BY <1>1, <1>7, <1>8, <1>10, <1>11 DEF PInv

\* __page_split: the two halves are alone on their list.
LEMMA SplitPInv == ASSUME PInv, page_split PROVE PInv'
<1>1. IInv /\ IInv' /\ op \in Op /\ free \in Lists
  BY SplitIInv DEF PInv, IInv, TypeOK, Lists
<1>2. PICK o \in Order, t \in Nat :
           /\ o < Top /\ o + 1 \in Order /\ o # o + 1 /\ op.norder = o + 1 /\ op.at = "split"
           /\ t \in free[o + 1] /\ 2 * t \notin free[o] /\ 2 * t + 1 \notin free[o]
           /\ op' = [op EXCEPT !.norder = o]
           /\ UNCHANGED <<page_freecount, used>>
           /\ free' \in Lists
           /\ \A p \in Order : \A j \in Nat :
                j \in free'[p] <=> \/ j \in free[p] /\ ~(p = o + 1 /\ j = t)
                                   \/ p = o /\ j \in {2 * t, 2 * t + 1}
  BY <1>1, SplitShape
<1>3. 2 * t \in Nat /\ 2 * t + 1 \in Nat
  BY <1>2
<1>4. /\ \A p \in Nat : FreeIn(free, p) <=> FreeIn(free', p)
      /\ PagesOf(free) = PagesOf(free')
  <2>1. 2 * t \in free'[o] /\ 2 * t + 1 \in free'[o] /\ t \notin free'[o + 1]
    BY <1>2, <1>3
  <2>2. \A p \in Order : \A j \in Nat :
           \/ p = o + 1 /\ j = t
           \/ p = o /\ j \in {2 * t, 2 * t + 1}
           \/ j \in free[p] <=> j \in free'[p]
    BY <1>2
  <2> QED
    BY <1>1, <1>2, <2>1, <2>2, HalvesPages
<1>5. page_freecount' = Cardinality(PagesOf(free'))
  BY <1>2, <1>4 DEF PInv
<1>6. Covered(free', used')
  <2>1. \A p \in 0 .. npages - 1 : p \in Nat
    BY PageAllocAssumption
  <2> QED
    BY <1>2, <1>4, <2>1 DEF PInv, Covered
<1>7. /\ op'.at = "split" /\ op'.order = op.order /\ op'.norder = o /\ op.order \in Order
      /\ op.order <= o /\ op.order < op.norder
  <2>1. op.order \in Order /\ op.norder > op.order
    BY <1>1 DEF page_split, Op
  <2>2. op.order <= o /\ op.order < op.norder
    BY <1>2, <2>1, Sizes
  <2> QED
    BY <1>1, <1>2, <2>1, <2>2 DEF Op
<1>8. \A q \in Order : op.order <= q /\ q < o + 1 => free[q] = {}
  BY <1>2 DEF PInv, SplitClears
<1>9. SplitClears'
  <2> SUFFICES ASSUME NEW q \in Order, op.order <= q, q < o PROVE free'[q] = {}
    BY <1>7 DEF SplitClears
  <2>1. free[q] = {} /\ q # o /\ q # o + 1
    BY <1>8, Sizes
  <2>2. \A j \in free'[q] : j \in Nat
    BY <1>2 DEF Lists
  <2> QED
    BY <1>2, <2>1, <2>2
<1>10. free'[o] = {2 * t, 2 * t + 1}
  <2>1. free[o] = {}
    BY <1>7, <1>8, Sizes
  <2>2. \A j \in free'[o] : j \in Nat
    BY <1>2 DEF Lists
  <2>3. \A j \in Nat : j \in free'[o] <=> j \in {2 * t, 2 * t + 1}
    BY <1>2, <2>1
  <2> QED
    BY <1>3, <2>2, <2>3
<1>11. Pairs'
  <2> SUFFICES ASSUME NEW p \in Order, NEW x \in Nat, p < Top,
                      2 * x \in free'[p], 2 * x + 1 \in free'[p]
               PROVE  p = o /\ free'[p] = {2 * x, 2 * x + 1}
    BY <1>7 DEF Pairs
  <2>1. 2 * x \in Nat /\ 2 * x + 1 \in Nat
    OBVIOUS
  <2>2. CASE p = o
    <3>1. 2 * x = 2 * t
      BY <1>2, <1>10, <2>2
    <3> QED
      BY <1>10, <2>2, <3>1
  <2>3. CASE p # o
    <3>1. 2 * x \in free[p] /\ 2 * x + 1 \in free[p] /\ (p = o + 1 => t \notin {2 * x, 2 * x + 1})
      BY <1>2, <2>1, <2>3
    <3>2. p = o + 1 /\ free[p] = {2 * x, 2 * x + 1}
      BY <1>2, <3>1 DEF PInv, Pairs
    <3> QED
      BY <1>2, <3>1, <3>2
  <2> QED
    BY <2>2, <2>3
<1> QED
  BY <1>1, <1>5, <1>6, <1>9, <1>11 DEF PInv

\* __page_join: the pair becomes one block, where it goes on.
LEMMA JoinPInv == ASSUME PInv, page_join PROVE PInv'
<1>1. IInv /\ IInv' /\ op \in Op /\ free \in Lists /\ used \in Holdings /\ GeometryOf(free, used)
  BY JoinIInv DEF PInv, IInv, TypeOK, Lists, Holdings, Geometry
<1>2. PICK o \in Order, x \in Nat :
           /\ o < Top /\ o + 1 \in Order /\ o # o + 1 /\ op.at = "join" /\ op.order = o
           /\ op.idx \in {2 * x, 2 * x + 1} /\ 2 * x \in free[o] /\ 2 * x + 1 \in free[o]
           /\ op' = [op EXCEPT !.order = o + 1, !.idx = x]
           /\ UNCHANGED <<page_freecount, used>>
           /\ free' \in Lists
           /\ \A p \in Order : \A j \in Nat :
                j \in free'[p] <=> \/ j \in free[p] /\ ~(p = o /\ j \in {2 * x, 2 * x + 1})
                                   \/ p = o + 1 /\ j = x
  BY <1>1, JoinShape, Zenon
<1>3. 2 * x \in Nat /\ 2 * x + 1 \in Nat
  BY <1>2
<1>4. x \notin free[o + 1]
  BY <1>1, <1>2, JoinGeometry
<1>5. /\ \A p \in Nat : FreeIn(free', p) <=> FreeIn(free, p)
      /\ PagesOf(free') = PagesOf(free)
  <2>1. 2 * x \notin free'[o] /\ 2 * x + 1 \notin free'[o] /\ x \in free'[o + 1]
    BY <1>2, <1>3
  <2>2. \A p \in Order : \A j \in Nat :
           \/ p = o + 1 /\ j = x
           \/ p = o /\ j \in {2 * x, 2 * x + 1}
           \/ j \in free'[p] <=> j \in free[p]
    BY <1>2
  <2> QED
    BY <1>1, <1>2, <1>4, <2>1, <2>2, HalvesPages
<1>6. page_freecount' = Cardinality(PagesOf(free'))
  BY <1>2, <1>5 DEF PInv
<1>7. Covered(free', used')
  <2>1. \A p \in 0 .. npages - 1 : p \in Nat
    BY PageAllocAssumption
  <2> QED
    BY <1>2, <1>5, <2>1 DEF PInv, Covered
<1>8. op'.at = "join" /\ op'.order = o + 1 /\ op'.idx = x
  BY <1>1, <1>2 DEF Op
<1>9. SplitClears'
  BY <1>8 DEF SplitClears
<1>10. Pairs'
  <2> SUFFICES ASSUME NEW p \in Order, NEW y \in Nat, p < Top,
                      2 * y \in free'[p], 2 * y + 1 \in free'[p]
               PROVE  p = o + 1 /\ x \in {2 * y, 2 * y + 1}
    BY <1>8 DEF Pairs
  <2>1. 2 * y \in Nat /\ 2 * y + 1 \in Nat
    OBVIOUS
  <2>2. 2 * y \in free[p] \/ (p = o + 1 /\ 2 * y = x)
    BY <1>2, <2>1
  <2>3. 2 * y + 1 \in free[p] \/ (p = o + 1 /\ 2 * y + 1 = x)
    BY <1>2, <2>1
  <2>4. ~(2 * y \in free[p] /\ 2 * y + 1 \in free[p])
    <3> SUFFICES ASSUME 2 * y \in free[p], 2 * y + 1 \in free[p] PROVE FALSE
      OBVIOUS
    <3>1. p = o /\ op.idx \in {2 * y, 2 * y + 1}
      BY <1>2 DEF PInv, Pairs
    <3>2. x = y
      BY <1>2, <3>1
    <3> QED
      BY <1>2, <2>1, <3>1, <3>2
  <2> QED
    BY <2>2, <2>3, <2>4
<1> QED
  BY <1>1, <1>6, <1>7, <1>9, <1>10 DEF PInv

\* A step that moves no block.
LEMMA IdlePInv ==
  ASSUME PInv, IInv', UNCHANGED <<free, page_freecount, used>>, SplitClears', Pairs'
  PROVE  PInv'
  BY DEF PInv

\* __page_join stops at the largest order, or at a bit that says that the buddy
\* is not free.
LEMMA JoinEndsPInv == ASSUME PInv, IInv', JoinEnds PROVE PInv'
<1>1. IInv /\ op \in Op /\ UNCHANGED <<free, map, page_freecount, used>>
  BY DEF PInv, IInv, TypeOK, JoinEnds
<1>2. op.ret \in {"idle", "reclaim"} /\ op' = Between(op.ret)
  BY <1>1 DEF JoinEnds, Op
<1>3. op'.at \in {"idle", "reclaim"}
  BY <1>2, BetweenIsOp
<1>4. SplitClears'
  BY <1>3 DEF SplitClears
<1>5. Pairs'
  <2> SUFFICES ASSUME NEW o \in Order, NEW x \in Nat, o < Top,
                      2 * x \in free[o], 2 * x + 1 \in free[o]
               PROVE  FALSE
    BY <1>1 DEF Pairs
  <2>1. op.at = "join"
    BY DEF JoinEnds
  <2>2. op.order = o /\ op.idx \in {2 * x, 2 * x + 1}
    BY <2>1 DEF PInv, Pairs
  <2>3. op.idx \div 2 = x
    BY <2>2, Pair
  <2>4. x \in map[o + 1]
    BY <2>2, <2>3 DEF JoinEnds
  <2>5. o + 1 \in Order /\ o + 1 # 0 /\ (o + 1) - 1 = o
    BY Sizes
  <2> QED
    BY <1>1, <2>4, <2>5 DEF IInv, Bits, BitsOf
<1> QED
  BY <1>1, <1>4, <1>5, IdlePInv

\* Every step of the allocator keeps page_freecount exact and loses no page.
LEMMA NextPInv == ASSUME PInv, [Next]_vars PROVE PInv'
<1>1. IInv' /\ op \in Op
  BY NextIInv DEF PInv, IInv, TypeOK
<1>2. ASSUME NEW c \in Client, NEW n \in 1 .. S[Top], page_alloc_n(c, n) PROVE PInv'
  <2>1. PICK o \in OrderFor(n) :
          \/ Found(o, c)
          \/ /\ free[o] = {}
             /\ \E p \in Order :
                  /\ p > o
                  /\ \A q \in Order : o < q /\ q < p => free[q] = {}
                  /\ op' = [op EXCEPT !.at = "split", !.order = o, !.norder = p, !.client = c]
             /\ UNCHANGED <<free, map, page_freecount, used>>
          \/ op' = Between("reclaim") /\ UNCHANGED <<free, map, page_freecount, used>>
    BY <1>2, Zenon DEF page_alloc_n
  <2>2. o \in Order /\ op.at = "idle"
    BY <1>2, Zenon DEF OrderFor, page_alloc_n
  <2>3. CASE Found(o, c)
    BY <2>2, <2>3, FoundPInv
  <2>4. CASE /\ free[o] = {}
             /\ \E p \in Order :
                  /\ p > o
                  /\ \A q \in Order : o < q /\ q < p => free[q] = {}
                  /\ op' = [op EXCEPT !.at = "split", !.order = o, !.norder = p, !.client = c]
             /\ UNCHANGED <<free, map, page_freecount, used>>
    <3>1. PICK p \in Order :
                  /\ p > o
                  /\ \A q \in Order : o < q /\ q < p => free[q] = {}
                  /\ op' = [op EXCEPT !.at = "split", !.order = o, !.norder = p, !.client = c]
      BY <2>4, Zenon
    <3>2. op'.at = "split" /\ op'.order = o /\ op'.norder = p
      BY <1>1, <3>1 DEF Op
    <3>3. \A q \in Order : o <= q /\ q < p => free[q] = {}
      BY <2>2, <2>4, <3>1, Sizes
    <3>4. SplitClears'
      BY <2>2, <2>4, <3>1, <3>2, <3>3, Sizes DEF SplitClears
    <3>5. Pairs'
      BY <2>2, <2>4 DEF PInv, Pairs
    <3> QED
      BY <1>1, <2>4, <3>4, <3>5, IdlePInv
  <2>5. CASE op' = Between("reclaim") /\ UNCHANGED <<free, map, page_freecount, used>>
    <3>1. op'.at = "reclaim"
      BY <2>5, BetweenIsOp
    <3>2. SplitClears' /\ Pairs'
      BY <2>2, <2>5, <3>1 DEF PInv, SplitClears, Pairs
    <3> QED
      BY <1>1, <2>5, <3>2, IdlePInv
  <2> QED
    BY <2>1, <2>3, <2>4, <2>5, Zenon
<1>3. ASSUME NEW c \in Client, NEW b \in used[c], page_free_n(c, b) PROVE PInv'
  BY <1>3, FreePInv
<1>4. ASSUME SplitEnds PROVE PInv'
  <2>1. op.order \in Order /\ op.client \in Client
    BY <1>1 DEF Op
  <2> QED
    BY <1>4, <2>1, FoundPInv DEF SplitEnds
<1>5. ASSUME JoinEnds PROVE PInv'
  BY <1>1, <1>5, JoinEndsPInv
<1>6. ASSUME ReclaimEnds PROVE PInv'
  <2>1. op.at = "reclaim" /\ op'.at = "idle" /\ UNCHANGED <<free, page_freecount, used>>
    BY <1>6, BetweenIsOp DEF ReclaimEnds
  <2>2. SplitClears' /\ Pairs'
    BY <2>1 DEF PInv, SplitClears, Pairs
  <2> QED
    BY <1>1, <2>1, <2>2, IdlePInv
<1>7. ASSUME UNCHANGED vars PROVE PInv'
  <2>1. UNCHANGED <<free, page_freecount, used, op>>
    BY <1>7 DEF vars
  <2>2. SplitClears' /\ Pairs'
    BY <2>1 DEF PInv, SplitClears, Pairs
  <2> QED
    BY <1>1, <2>1, <2>2, IdlePInv
<1> QED
  BY <1>2, <1>3, <1>4, <1>5, <1>6, <1>7, SplitPInv, JoinPInv DEF Next

\* A block of order q contains the whole block of a smaller order r that it
\* shares a page with.
LEMMA Nested ==
  ASSUME NEW r \in Order, NEW q \in Order, r <= q, NEW k \in Nat, NEW l \in Nat, NEW p \in Nat,
         Within(p, <<r, k>>), Within(p, <<q, l>>)
  PROVE  Lo(<<q, l>>) <= Lo(<<r, k>>) /\ Hi(<<r, k>>) <= Hi(<<q, l>>)
<1>1. S[r] \in Nat /\ S[r] >= 1
  BY Sizes
<1>2. PICK m \in Nat : m >= 1 /\ S[q] = m * S[r]
  BY SizesDivide
<1> DEFINE s == S[r]
<1>3. \A n \in Nat : l * (m * n) = (l * m) * n /\ l * m \in Nat
  BY <1>2
<1>4. \A n \in Nat : (l * m) * n + m * n = (l * m + m) * n
  BY <1>2
<1>5. Lo(<<q, l>>) = (l * m) * s /\ Hi(<<q, l>>) = (l * m + m) * s /\ l * m \in Nat
  BY <1>1, <1>2, <1>3, <1>4 DEF Lo, Hi
<1>6. Lo(<<r, k>>) = k * s /\ Hi(<<r, k>>) = (k + 1) * s
  BY <1>1, Products DEF Lo, Hi
<1> DEFINE a == l * m
           b == l * m + m
<1>7. a \in Nat /\ b \in Nat /\ k + 1 \in Nat
  BY <1>2, <1>5
<1>8. a * s <= p /\ p < (k + 1) * s /\ k * s <= p /\ p < b * s
  BY <1>5, <1>6 DEF Within
<1> HIDE DEF a, b, s
<1>9. s \in Nat /\ s >= 1 /\ a * s \in Nat /\ b * s \in Nat /\ k * s \in Nat /\ (k + 1) * s \in Nat
  BY <1>1, <1>7 DEF s
<1>10. a * s < (k + 1) * s /\ k * s < b * s
  BY <1>8, <1>9
<1>11. a + 1 <= k + 1 /\ k + 1 <= b
  BY <1>7, <1>9, <1>10, Products
<1>12. a <= k
  BY <1>7, <1>11
<1>13. a * s <= k * s /\ (k + 1) * s <= b * s
  BY <1>7, <1>9, <1>11, <1>12, Products
<1> QED
  BY <1>5, <1>6, <1>13 DEF a, b

\* When nothing is held, a free block whose order is the smallest one in use has
\* its buddy beside it: the page after it can be in no other free block.
LEMMA BuddyFree ==
  ASSUME NoTail, PInv, \A c \in Client : used[c] = {},
         NEW o \in Order, o < Top, \A q \in Order : q < o => free[q] = {},
         NEW i \in free[o]
  PROVE  \E x \in Nat : i \in {2 * x, 2 * x + 1} /\ 2 * x \in free[o] /\ 2 * x + 1 \in free[o]
<1>1. /\ free \in Lists /\ GeometryOf(free, used) /\ i \in Nat
      /\ o + 1 \in Order /\ npages \in Nat /\ \A q \in Order : q \in Nat
  BY Sizes, PageAllocAssumption DEF PInv, IInv, TypeOK, Lists, Geometry
<1> DEFINE x == i \div 2
<1>2. x \in Nat /\ i \in {2 * x, 2 * x + 1} /\ 2 * x \in Nat /\ 2 * x + 1 \in Nat
  BY <1>1, Pair
<1> HIDE DEF x
<1>3. Hi(<<o + 1, x>>) <= npages
  <2>1. PICK n \in Nat : npages = n * S[o + 1]
    BY <1>1, GroupDivides
  <2>2. S[o + 1] \in Nat /\ S[o + 1] >= 1
    BY <1>1, Sizes
  <2>3. Lo(<<o + 1, x>>) < npages
    <3>1. Hi(<<o, i>>) <= npages
      BY <1>1 DEF GeometryOf, InGroup
    <3>2. <<o, 2 * x>> \in Block /\ <<o, 2 * x + 1>> \in Block
      BY <1>2 DEF Block
    <3> QED
      BY <1>1, <1>2, <3>1, <3>2, Halves, Bounds
  <2>4. x * S[o + 1] < n * S[o + 1]
    BY <2>1, <2>3 DEF Lo
  <2>5. x + 1 <= n /\ x + 1 \in Nat
    BY <1>2, <2>2, <2>4, Products
  <2>6. (x + 1) * S[o + 1] <= n * S[o + 1] /\ (x + 1) * S[o + 1] = x * S[o + 1] + S[o + 1]
    BY <1>2, <2>2, <2>5, Products
  <2> QED
    BY <2>1, <2>6 DEF Lo, Hi
<1>4. ASSUME NEW j \in {2 * x, 2 * x + 1} PROVE j \in free[o]
  <2> DEFINE p == Lo(<<o, j>>)
  <2>1. j \in Nat /\ <<o, j>> \in Block /\ <<o, i>> \in Block /\ <<o + 1, x>> \in Block
    BY <1>1, <1>2 DEF Block
  <2>2. p \in Nat /\ Within(p, <<o, j>>)
    BY <2>1, Bounds DEF Within
  <2>3. Within(p, <<o + 1, x>>)
    BY <1>2, <2>2, WithinHalves, Zenon
  <2>4. p \in 0 .. npages - 1
    <3>1. p < Hi(<<o + 1, x>>)
      BY <2>3 DEF Within
    <3> QED
      BY <1>1, <1>3, <2>1, <2>2, <3>1, Bounds
  <2> HIDE DEF p
  <2>5. FreeIn(free, p)
    BY <2>4 DEF PInv, Covered, UsedIn
  <2>6. PICK q \in Order : \E l \in free[q] : Within(p, <<q, l>>)
    BY <2>5 DEF FreeIn
  <2>7. PICK l \in free[q] : Within(p, <<q, l>>)
    BY <2>6
  <2>8. l \in Nat /\ <<q, l>> \in Block /\ o <= q
    BY <1>1, <2>7 DEF Lists, Block
  <2>9. CASE q = o
    <3>1. ~Apart(<<o, j>>, <<o, l>>)
      BY <2>1, <2>2, <2>7, <2>8, <2>9, ApartWithin
    <3>2. j = l
      <4>1. Lo(<<o, l>>) <= Lo(<<o, j>>) /\ Lo(<<o, j>>) <= Lo(<<o, l>>)
        BY <2>1, <2>2, <2>7, <2>8, <2>9, Nested
      <4>2. \A m, n, s \in Nat : s >= 1 /\ m * s <= n * s => m <= n
        OBVIOUS
      <4>3. S[o] \in Nat /\ S[o] >= 1
        BY Sizes
      <4>4. l * S[o] <= j * S[o] /\ j * S[o] <= l * S[o]
        BY <4>1 DEF Lo
      <4>5. l <= j /\ j <= l
        BY <2>1, <2>8, <4>2, <4>3, <4>4
      <4> QED
        BY <2>1, <2>8, <4>5
    <3> QED
      BY <2>7, <2>9, <3>2
  <2>10. CASE q # o
    <3>1. o + 1 <= q
      BY <1>1, <2>8, <2>10
    <3>2. Lo(<<q, l>>) <= Lo(<<o + 1, x>>) /\ Hi(<<o + 1, x>>) <= Hi(<<q, l>>)
      BY <1>1, <1>2, <2>2, <2>3, <2>7, <2>8, <3>1, Nested
    <3>3. Lo(<<o + 1, x>>) <= Lo(<<o, i>>) /\ Hi(<<o, i>>) <= Hi(<<o + 1, x>>)
      <4>1. <<o, 2 * x>> \in Block /\ <<o, 2 * x + 1>> \in Block
        BY <1>2 DEF Block
      <4> QED
        BY <1>2, <2>1, <4>1, Halves, Bounds
    <3>4. ~Apart(<<o, i>>, <<q, l>>)
      BY <2>1, <2>8, <3>2, <3>3, Bounds DEF Apart
    <3> QED
      BY <1>1, <2>7, <2>10, <3>4 DEF GeometryOf, FreeApart
  <2> QED
    BY <2>9, <2>10
<1> QED
  BY <1>2, <1>4

\* The invariant gives the exact count, and buddies that come together again.
LEMMA PInvWhole == ASSUME NoTail, PInv PROVE FreeCountExact /\ WholeAgain
<1>1. \A p : (\E b \in FreeBlocks : Lo(b) <= p /\ p < Hi(b)) <=> FreeIn(free, p)
  <2>1. \A b : b \in FreeBlocks <=> \E o \in Order : \E i \in free[o] : b = <<o, i>>
    BY DEF FreeBlocks
  <2> QED
    BY <2>1, Zenon DEF FreeIn, Within
<1>2. FreeCountExact
  <2>1. FreePages = PagesOf(free)
    BY <1>1 DEF FreePages, PagesOf
  <2> QED
    BY <2>1 DEF PInv, FreeCountExact
<1>3. ASSUME op.at = "idle", NEW o \in Order, o < Top, NEW x \in Nat,
             2 * x \in free[o], 2 * x + 1 \in free[o]
      PROVE  FALSE
  BY <1>3 DEF PInv, Pairs
<1>4. free \in Lists
  BY DEF PInv, IInv, TypeOK, Lists
<1>5. ASSUME op.at = "idle", NEW o \in Order \ {Top}, NEW i \in free[o] PROVE Buddy(i) \notin free[o]
  <2>1. i \in Nat /\ o < Top
    BY <1>4, Sizes DEF Lists
  <2>2. i % 2 = 0 => i = 2 * (i \div 2) /\ Buddy(i) = 2 * (i \div 2) + 1
    BY <2>1, Pair DEF Buddy
  <2>3. i % 2 # 0 => i = 2 * (i \div 2) + 1 /\ Buddy(i) = 2 * (i \div 2)
    BY <2>1, Pair DEF Buddy
  <2> QED
    BY <1>3, <1>5, <2>1, <2>2, <2>3, Pair
<1>6. ASSUME op.at = "idle", UsedBlocks = {}, NEW o \in Order, o # Top PROVE free[o] = {}
  <2> DEFINE T == {p \in Order : p # Top /\ free[p] # {}}
  <2>1. Order \in SUBSET Nat /\ \A p \in Order : p \in Nat /\ p <= Top
    BY Sizes
  <2>2. ASSUME T # {} PROVE FALSE
    <3>1. PICK p \in T : \A q \in T : p <= q
      BY <2>1, <2>2, LeastNat, Zenon
    <3>2. PICK i \in free[p] : TRUE
      BY <3>1
    <3>3. p < Top /\ \A q \in Order : q < p => free[q] = {}
      BY <2>1, <3>1, Sizes
    <3>4. \A c \in Client : used[c] = {}
      BY <1>6 DEF UsedBlocks
    <3>5. \E x \in Nat : i \in {2 * x, 2 * x + 1} /\ 2 * x \in free[p] /\ 2 * x + 1 \in free[p]
      BY <3>1, <3>2, <3>3, <3>4, BuddyFree
    <3> QED
      BY <1>3, <1>6, <3>1, <3>3, <3>5
  <2> QED
    BY <1>6, <2>2
<1>7. ASSUME op.at = "idle", UsedBlocks = {} PROVE FreeBlocks = {<<Top, i>> : i \in free[Top]}
  <2>1. Top \in Order
    BY Sizes
  <2>2. \A o \in Order : o # Top => free[o] = {}
    BY <1>6, <1>7
  <2> QED
    BY <2>1, <2>2, Zenon DEF FreeBlocks
<1>8. WholeAgain
  BY <1>5, <1>7 DEF WholeAgain
<1> QED
  BY <1>2, <1>8

\* For every group without a tail, page_freecount is the number of free pages at
\* every step, between calls no two buddies are both free, and when everything
\* has been given back only blocks of the largest order are left (page.c:222,
\* :276).
THEOREM PagesWhole ==
  ASSUME NoTail
  PROVE  Spec => [](FreeCountExact /\ WholeAgain)
<1>1. Init => PInv
  BY InitPInv
<1>2. PInv /\ [Next]_vars => PInv'
  BY NextPInv
<1>3. PInv => FreeCountExact /\ WholeAgain
  BY PInvWhole
<1> QED
  BY <1>1, <1>2, <1>3, PTL DEF Spec
=============================================================================
