------------------------------ MODULE PageAlloc ------------------------------
(***************************************************************************)
(* The buddy allocator of kernel/mm/page.c, for the one page group the     *)
(* kernel adds (kernel/mm/pagetable.c).                                    *)
(*                                                                         *)
(* A block is a pair <<order, index>>: its first page is index * S[order]  *)
(* pages after pg_baseaddr, and it has S[order] pages.  The free lists are *)
(* sets: any free block may be the head.  The kernel does not preempt the  *)
(* allocator, so while "op" is in the middle of a call nothing else moves; *)
(* the loops of __page_split and __page_join take one step per turn.       *)
(***************************************************************************)
EXTENDS Integers, FiniteSets

CONSTANTS Client,       \* the callers that hold blocks
          PAGE_NSIZES,  \* number of block sizes
          npages,       \* pages of the group, without its own tables
          S             \* S[o]: pages in a block of order o

Order == 0 .. PAGE_NSIZES - 1
Top == PAGE_NSIZES - 1

ASSUME PageAllocAssumption ==
  /\ Client # {}
  /\ PAGE_NSIZES \in Nat \ {0}
  /\ npages \in Nat
  /\ S \in [Order -> Nat]
  /\ S[0] = 1
  /\ \A o \in Order \ {0} : S[o] = 2 * S[o - 1]

VARIABLES free,            \* pg_freelist
          map,             \* pg_map: the indices whose bit is set
          page_freecount,
          used,            \* the blocks every client holds
          op               \* the call in progress

vars == <<free, map, page_freecount, used, op>>

Block == Order \X Nat

\* op.at: "split" and "join" are the loops, "reclaim" is the call of
\* slab_allocators_reclaim, "lost" a corrupted list.  op.ret says where the
\* caller of page_free_n goes on.
Op == [at : {"idle", "split", "join", "reclaim", "lost"}, ret : {"idle", "reclaim"},
       order : Order, norder : Order, idx : Nat, client : Client]

Between(where) ==
  [at |-> where, ret |-> "idle", order |-> 0, norder |-> 0, idx |-> 0,
   client |-> CHOOSE c \in Client : TRUE]

TypeOK ==
  /\ free \in [Order -> SUBSET Nat]
  /\ map \in [Order \ {0} -> SUBSET Nat]
  /\ page_freecount \in Int
  /\ used \in [Client -> SUBSET Block]
  /\ op \in Op

-----------------------------------------------------------------------------
\* _pagegroup_create: what does not fit into blocks of the largest order goes
\* to the smaller lists; all bits are clear.
Init ==
  /\ free = [o \in Order |->
               IF o = Top THEN {i \in 0 .. npages : (i + 1) * S[Top] <= npages}
               ELSE {i \in 0 .. npages : i + 1 = npages \div S[o] /\ i % 2 = 0}]
  /\ map = [o \in Order \ {0} |-> {}]
  /\ page_freecount = npages
  /\ used = [c \in Client |-> {}]
  /\ op = Between("idle")

\* Mutant: the test for the largest order is off by one.
Flip_off_by_one(o, i) ==
  IF o + 1 < Top
  THEN [map EXCEPT ![o + 1] = IF i \div 2 \in @ THEN @ \ {i \div 2} ELSE @ \cup {i \div 2}]
  ELSE map

\* bit_flip of the bit that block <<o, i>> shares with its buddy
\* (_pagegroup_calculate_index for order o + 1).
Flip(o, i) ==
  IF o < Top
  THEN [map EXCEPT ![o + 1] = IF i \div 2 \in @ THEN @ \ {i \div 2} ELSE @ \cup {i \div 2}]
  ELSE map

Buddy(i) == IF i % 2 = 0 THEN i + 1 ELSE i - 1

\* The search for the order in page_alloc_n and page_free_n: the smallest block
\* of n pages or more.
OrderFor(n) == {o \in Order : S[o] >= n /\ \A p \in Order : S[p] >= n => o <= p}

\* The label "found" of _page_alloc_order.
Found(o, c) ==
  \E i \in free[o] :
    /\ free' = [free EXCEPT ![o] = @ \ {i}]
    /\ map' = Flip(o, i)
    /\ page_freecount' = page_freecount - S[o]
    /\ used' = [used EXCEPT ![c] = @ \cup {<<o, i>>}]
    /\ op' = Between("idle")

\* page_alloc and page_alloc_n: take a block, or find one to split, or reclaim
\* memory and fail.
page_alloc_n(c, n) ==
  /\ op.at = "idle"
  /\ \E o \in OrderFor(n) :
       \/ Found(o, c)
       \/ /\ free[o] = {}
          /\ \E p \in Order :
               /\ p > o /\ free[p] # {}
               /\ \A q \in Order : o < q /\ q < p => free[q] = {}
               /\ op' = [op EXCEPT !.at = "split", !.order = o, !.norder = p, !.client = c]
          /\ UNCHANGED <<free, map, page_freecount, used>>
       \/ /\ \A q \in Order : o <= q => free[q] = {}
          /\ op' = Between("reclaim")
          /\ UNCHANGED <<free, map, page_freecount, used>>

\* Mutant: the block that is split stays on its list.
page_split_keeps ==
  /\ op.at = "split" /\ op.norder > op.order
  /\ \E t \in free[op.norder] :
       /\ free' = [free EXCEPT ![op.norder - 1] = @ \cup {2 * t, 2 * t + 1}]
       /\ map' = Flip(op.norder, t)
       /\ op' = [op EXCEPT !.norder = @ - 1]
  /\ UNCHANGED <<page_freecount, used>>

\* __page_split: one block of order norder becomes two.
page_split ==
  /\ op.at = "split" /\ op.norder > op.order
  /\ \E t \in free[op.norder] :
       IF t \in map[op.norder]
       THEN op' = Between("lost") /\ UNCHANGED <<free, map>>
       ELSE /\ free' = [free EXCEPT ![op.norder] = @ \ {t},
                                    ![op.norder - 1] = @ \cup {2 * t, 2 * t + 1}]
            /\ map' = Flip(op.norder, t)
            /\ op' = [op EXCEPT !.norder = @ - 1]
  /\ UNCHANGED <<page_freecount, used>>

SplitEnds ==
  /\ op.at = "split" /\ op.norder = op.order
  /\ Found(op.order, op.client)

\* page_free and page_free_n of a block, up to __page_join.
page_free_n(c, b) ==
  /\ op.at \in {"idle", "reclaim"} /\ b \in used[c]
  /\ used' = [used EXCEPT ![c] = @ \ {b}]
  /\ free' = [free EXCEPT ![b[1]] = @ \cup {b[2]}]
  /\ page_freecount' = page_freecount + S[b[1]]
  /\ map' = Flip(b[1], b[2])
  /\ op' = [op EXCEPT !.at = "join", !.ret = op.at, !.order = b[1], !.idx = b[2]]

\* Mutant: the loop goes on whatever the bit says.
page_join_unchecked ==
  /\ op.at = "join" /\ op.order < Top
  /\ IF Buddy(op.idx) \in free[op.order]
     THEN /\ free' = [free EXCEPT ![op.order] = @ \ {op.idx, Buddy(op.idx)},
                                  ![op.order + 1] = @ \cup {op.idx \div 2}]
          /\ map' = Flip(op.order + 1, op.idx \div 2)
          /\ op' = [op EXCEPT !.order = @ + 1, !.idx = @ \div 2]
     ELSE op' = Between("lost") /\ UNCHANGED <<free, map>>
  /\ UNCHANGED <<page_freecount, used>>

\* One turn of __page_join.  Unlinking a buddy that is on no list follows
\* links that are not there.
page_join ==
  /\ op.at = "join" /\ op.order < Top
  /\ op.idx \div 2 \notin map[op.order + 1]
  /\ IF Buddy(op.idx) \in free[op.order]
     THEN /\ free' = [free EXCEPT ![op.order] = @ \ {op.idx, Buddy(op.idx)},
                                  ![op.order + 1] = @ \cup {op.idx \div 2}]
          /\ map' = Flip(op.order + 1, op.idx \div 2)
          /\ op' = [op EXCEPT !.order = @ + 1, !.idx = @ \div 2]
     ELSE op' = Between("lost") /\ UNCHANGED <<free, map>>
  /\ UNCHANGED <<page_freecount, used>>

JoinEnds ==
  /\ op.at = "join"
  /\ op.order < Top => op.idx \div 2 \in map[op.order + 1]
  /\ op' = Between(op.ret)
  /\ UNCHANGED <<free, map, page_freecount, used>>

\* The reclaim is over and _page_split returns NULL.
ReclaimEnds ==
  /\ op.at = "reclaim"
  /\ op' = Between("idle")
  /\ UNCHANGED <<free, map, page_freecount, used>>

Next ==
  \/ \E c \in Client :
       \/ \E n \in 1 .. S[Top] : page_alloc_n(c, n)
       \/ \E b \in used[c] : page_free_n(c, b)
  \/ page_split \/ SplitEnds \/ page_join \/ JoinEnds \/ ReclaimEnds

Spec == Init /\ [][Next]_vars

-----------------------------------------------------------------------------
(***************************************************************************)
(* Properties.                                                             *)
(***************************************************************************)

\* The assertion of __page_split holds, and __page_join never unlinks a buddy
\* that is not on the free list of its order.
JoinsFreeBuddy == op.at # "lost"

Lo(b) == b[2] * S[b[1]]
Hi(b) == Lo(b) + S[b[1]]

FreeBlocks == UNION {{<<o, i>> : i \in free[o]} : o \in Order}
UsedBlocks == UNION {used[c] : c \in Client}

\* Two different blocks that are free or held have no page in common, nobody
\* holds a block somebody else holds or that is free, and every block lies in
\* the group ("only be called once for any given page (no overlaps)").
NoOverlap ==
  /\ \A b, d \in UsedBlocks \cup FreeBlocks : b = d \/ Hi(b) <= Lo(d) \/ Hi(d) <= Lo(b)
  /\ \A b \in UsedBlocks \cup FreeBlocks : Hi(b) <= npages
  /\ \A c, d \in Client : c # d => used[c] \cap used[d] = {}
  /\ UsedBlocks \cap FreeBlocks = {}

\* The bit two buddies share says whether exactly one of them is free.
BitmapExact ==
  \A o \in Order \ {0} : \A x \in 0 .. npages :
    x \notin map[o] <=> (2 * x \in free[o - 1] <=> 2 * x + 1 \in free[o - 1])

\* page_freecount, which the page-out daemon works from, is the number of pages
\* in free blocks.
FreePages == {p \in 0 .. npages - 1 : \E b \in FreeBlocks : Lo(b) <= p /\ p < Hi(b)}
FreeCountExact == page_freecount = Cardinality(FreePages)

\* Between calls no two buddies are both free, and a group of which nothing is
\* held consists of blocks of the largest order again: memory does not stay
\* fragmented.
WholeAgain ==
  op.at = "idle" =>
    /\ \A o \in Order \ {Top} : \A i \in free[o] : Buddy(i) \notin free[o]
    /\ UsedBlocks = {} => FreeBlocks = {<<Top, i>> : i \in free[Top]}
=============================================================================
