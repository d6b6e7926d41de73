-------------------------------- MODULE Slab --------------------------------
(***************************************************************************)
(* The slab allocators of kernel/mm/slab.c over the buddy allocator.       *)
(*                                                                         *)
(* An allocator is a client of PageAlloc that holds the pages of its slabs.*)
(* "goal" names the allocator whose slab_obj_alloc waits for pages.  The   *)
(* kernel takes pages directly as client Kernel.  kmalloc and kfree choose *)
(* an allocator by size and remember it in front of the object: they are   *)
(* slab_obj_alloc and slab_obj_free of that allocator.                     *)
(***************************************************************************)
EXTENDS PageAlloc, Sequences, Functions

CONSTANTS Allocators,    \* the list slab_allocators
          Kernel,        \* the callers of page_alloc
          sa_order, sa_slab_nobjs,
          NONE

Allocator == Range(Allocators)

ASSUME SlabAssumption ==
  /\ Allocators \in Seq(Allocator)
  /\ Client = Allocator \cup {Kernel} /\ Kernel \notin Allocator
  /\ NONE \notin Client
  /\ sa_order \in [Allocator -> Order]
  /\ sa_slab_nobjs \in [Allocator -> Nat \ {0}]

VARIABLES slabs,  \* sa_slabs of every allocator, the head first
          objs,   \* the objects in use: <<allocator, s_addr, number>>
          goal

slabvars == <<slabs, objs, goal>>
allvars == <<vars, slabvars>>

\* A slab: s_addr (the index of its block), s_inuse, s_free.
SlabRec(a) == [s_addr : Nat, s_inuse : Nat, s_free : Seq(1 .. sa_slab_nobjs[a])]

SlabTypeOK ==
  /\ TypeOK
  /\ \A a \in Allocator : slabs[a] \in Seq(SlabRec(a))
  /\ DOMAIN slabs = Allocator
  /\ \A x \in objs : x[1] \in Allocator /\ x[2] \in Nat /\ x[3] \in 1 .. sa_slab_nobjs[x[1]]
  /\ goal \in Allocator \cup {NONE}

SlabInit ==
  /\ Init
  /\ slabs = [a \in Allocator |-> <<>>]
  /\ objs = {}
  /\ goal = NONE

Calls == op.at = "idle" /\ goal = NONE

\* The slab slab_obj_alloc takes an object from: the first that is not full.
NotFull(a) == {k \in DOMAIN slabs[a] : slabs[a][k].s_inuse # sa_slab_nobjs[a]}

\* Mutant: the count is not updated.
Take_no_count(a, s) == [s EXCEPT !.s_free = Tail(@)]

\* An object leaves the free list of slab s.
Take(a, s) == [s EXCEPT !.s_free = Tail(@), !.s_inuse = @ + 1]

slab_obj_alloc(a) ==
  /\ Calls
  /\ \/ /\ NotFull(a) # {}
        /\ \E k \in NotFull(a) :
             LET s == slabs[a][k]
             IN  /\ \A j \in NotFull(a) : k <= j
                 /\ slabs' = [slabs EXCEPT ![a][k] = Take(a, s)]
                 /\ objs' = objs \cup {<<a, s.s_addr, Head(s.s_free)>>}
        /\ UNCHANGED <<vars, goal>>
     \/ /\ NotFull(a) = {}
        /\ page_alloc_n(a, S[sa_order[a]])
        /\ goal' = a
        /\ UNCHANGED <<slabs, objs>>

\* _slab_allocator_grow after page_alloc_n.
_slab_allocator_grow(a, i) ==
  [s_addr |-> i, s_inuse |-> 0, s_free |-> [k \in 1 .. sa_slab_nobjs[a] |-> k]]

\* The new slab becomes the head of sa_slabs.
Linked(s, list) == <<s>> \o list

\* page_alloc_n has returned to _slab_allocator_grow, with a block or with NULL.
\* With a block slab_obj_alloc goes round its loop again and finds the new slab.
GrowEnds(a) ==
  /\ op.at = "idle" /\ goal = a
  /\ LET new == {b \in used[a] : \A k \in DOMAIN slabs[a] : slabs[a][k].s_addr # b[2]}
     IN  \/ /\ new = {}
            /\ UNCHANGED <<slabs, objs>>
         \/ \E b \in new :
              LET s == _slab_allocator_grow(a, b[2])
              IN  /\ slabs' = [slabs EXCEPT ![a] = Linked(Take(a, s), @)]
                  /\ objs' = objs \cup {<<a, b[2], Head(s.s_free)>>}
  /\ goal' = NONE
  /\ UNCHANGED vars

\* Object n goes back to the free list of slab s.
Give(s, n) == [s EXCEPT !.s_free = <<n>> \o @, !.s_inuse = @ - 1]

slab_obj_free(x) ==
  /\ Calls /\ x \in objs
  /\ slabs' = [slabs EXCEPT ![x[1]] =
                 [k \in DOMAIN @ |-> IF @[k].s_addr = x[2] THEN Give(@[k], x[3]) ELSE @[k]]]
  /\ objs' = objs \ {x}
  /\ UNCHANGED <<vars, goal>>

\* The k-th slab leaves its list: (*prev) = next.
Unlinked(list, k) == [j \in 1 .. Len(list) - 1 |-> IF j < k THEN list[j] ELSE list[j + 1]]

Empty(a) == {k \in DOMAIN slabs[a] : slabs[a][k].s_inuse = 0}

\* slab_allocators_reclaim(0): every slab without an object in use is freed, in
\* the order of the lists.
slab_allocators_reclaim ==
  /\ op.at = "reclaim"
  /\ LET left == {n \in DOMAIN Allocators : Empty(Allocators[n]) # {}}
     IN  \/ /\ left = {}
            /\ ReclaimEnds
            /\ UNCHANGED slabvars
         \/ \E n \in left : \E k \in Empty(Allocators[n]) :
              LET a == Allocators[n]
              IN  /\ \A m \in left : n <= m
                  /\ \A j \in Empty(a) : k <= j
                  /\ page_free_n(a, <<sa_order[a], slabs[a][k].s_addr>>)
                  /\ slabs' = [slabs EXCEPT ![a] = Unlinked(@, k)]
                  /\ UNCHANGED <<objs, goal>>

\* page_alloc_n and page_free_n by the rest of the kernel, and the turns of
\* their loops.
KernelAllocates(n) == Calls /\ page_alloc_n(Kernel, n) /\ UNCHANGED slabvars
KernelFrees(b) == Calls /\ page_free_n(Kernel, b) /\ UNCHANGED slabvars
PageLoops == (page_split \/ SplitEnds \/ page_join \/ JoinEnds) /\ UNCHANGED slabvars

SlabNext ==
  \/ \E a \in Allocator : slab_obj_alloc(a) \/ GrowEnds(a)
  \/ \E x \in objs : slab_obj_free(x)
  \/ slab_allocators_reclaim
  \/ \E n \in 1 .. S[Top] : KernelAllocates(n)
  \/ \E b \in used[Kernel] : KernelFrees(b)
  \/ PageLoops

SlabSpec == SlabInit /\ [][SlabNext]_allvars

-----------------------------------------------------------------------------
(***************************************************************************)
(* Properties.                                                             *)
(***************************************************************************)

\* In every slab the objects on s_free and the objects in use are all its
\* objects, without repetition, and s_inuse counts the latter; an object in use
\* is in a slab of its allocator (slab_allocators_reclaim does not free it).
SlabConsistent ==
  /\ \A a \in Allocator : \A k \in DOMAIN slabs[a] :
       LET s == slabs[a][k]
           live == {x \in objs : x[1] = a /\ x[2] = s.s_addr}
       IN  /\ s.s_inuse = Cardinality(live)
           /\ Len(s.s_free) = Cardinality(Range(s.s_free))
           /\ Range(s.s_free) \cup {x[3] : x \in live} = 1 .. sa_slab_nobjs[a]
           /\ Range(s.s_free) \cap {x[3] : x \in live} = {}
  /\ \A x \in objs : \E k \in DOMAIN slabs[x[1]] : slabs[x[1]][k].s_addr = x[2]

\* Between calls the pages an allocator holds are the pages of its slabs: growing
\* and reclaiming leak nothing, and no slab stands on pages it does not own.
SlabPagesOwned ==
  Calls => \A a \in Allocator :
    used[a] = {<<sa_order[a], slabs[a][k].s_addr>> : k \in DOMAIN slabs[a]}

\* Slabs and pages agree: no object in use loses its slab, growing and
\* reclaiming leak nothing, page_freecount is exact and free buddies come
\* together again (slab.c, page.c:222, :276).
SlabsSound == SlabTypeOK /\ SlabConsistent /\ SlabPagesOwned /\ FreeCountExact /\ WholeAgain
=============================================================================
