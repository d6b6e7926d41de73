------------------------------ MODULE S5Lists ------------------------------
(***************************************************************************)
(* Free inodes and free blocks of the S5 file system                       *)
(* (fs/s5fs/s5fs_subr.c).                                                  *)
(*                                                                         *)
(* Threads allocate and free inodes of a mounted disk.  The kernel is not  *)
(* preempted: a thread gives way where it waits for the mutex of the file  *)
(* system or for a page, which it also does to mark a page dirty, so every *)
(* step ends at such a place.                                              *)
(*   super       nfree, free_blocks and free_inode of the super block      *)
(*   node[b]     what a block holds once it has become part of the list    *)
(*   inode[i]    type, direct blocks, indirect block, next_free            *)
(*   ind[i]      the numbers in the indirect block of inode i              *)
(*   mutex       who holds the mutex of the file system                    *)
(*   th[t]       the operation of a thread: where it is (pc), its inode,   *)
(*               and the blocks it still has to free (todo), the first of  *)
(*               which it is freeing                                       *)
(***************************************************************************)
EXTENDS Integers, Sequences, FiniteSets

CONSTANTS
  Thread, NInodes, NBlocks,
  S5_NBLKS_PER_FNODE,   \* numbers in a block of the free list
  NDIRECT,              \* direct blocks of an inode
  NONE

VARIABLES super, node, inode, ind, mutex, th
vars == <<super, node, inode, ind, mutex, th>>

Block == 1 .. NBlocks
Inode == 0 .. NInodes - 1
Slot == 0 .. S5_NBLKS_PER_FNODE - 1
Idle == [pc |-> "idle", ino |-> NONE, todo |-> <<>>]

NoBlocks == [k \in 1 .. NDIRECT |-> 0]
devid == 1

Free(t) == mutex = NONE /\ mutex' = t
At(t, pc) == th[t].pc = pc
Goto(t, pc) == th' = [th EXCEPT ![t].pc = pc]

-----------------------------------------------------------------------------
(* s5_alloc_inode.                                                         *)

\* The lock is taken; a file system without a free inode is full.
AllocLock(t) ==
  /\ At(t, "idle")
  /\ IF super.free_inode = NONE THEN mutex = NONE /\ UNCHANGED <<mutex, th>>
     ELSE Free(t) /\ th' = [th EXCEPT ![t] = [Idle EXCEPT !.pc = "alloc", !.ino = super.free_inode]]
  /\ UNCHANGED <<super, node, inode, ind>>

\* The page of the inode is there: the inode leaves the list.
AllocTake(t) ==
  /\ At(t, "alloc") /\ super' = [super EXCEPT !.free_inode = inode[th[t].ino].next_free]
  /\ Goto(t, "init") /\ UNCHANGED <<node, inode, ind, mutex>>

\* The super block is dirty: the inode is set up; a device has its number
\* where a file has its indirect block.
AllocInit(t, type) ==
  /\ At(t, "init")
  /\ inode' = [inode EXCEPT ![th[t].ino] = [@ EXCEPT !.type = type, !.direct = NoBlocks,
                                                     !.indirect = IF type = "chr" THEN devid ELSE 0]]
  /\ mutex' = NONE /\ th' = [th EXCEPT ![t] = Idle]
  /\ UNCHANGED <<super, node, ind>>

-----------------------------------------------------------------------------
(* s5_free_inode and s5_free_block.                                        *)
RECURSIVE Listed(_, _)
Listed(f, k) == IF k > Len(f) THEN <<>> ELSE (IF f[k] = 0 THEN <<>> ELSE <<f[k]>>) \o Listed(f, k + 1)

\* The direct blocks come first, then those of the indirect block, then it.
FreeInode(t, i) ==
  /\ At(t, "idle") /\ inode[i].type \in {"data", "chr"} /\ \A s \in Thread : th[s].ino # i
  /\ LET more == IF inode[i].type = "data" /\ inode[i].indirect # 0
                 THEN Listed(ind[i], 1) \o <<inode[i].indirect>> ELSE <<>>
     IN th' = [th EXCEPT ![t] = [pc |-> "next", ino |-> i, todo |-> Listed(inode[i].direct, 1) \o more]]
  /\ UNCHANGED <<super, node, inode, ind, mutex>>

\* s5_free_block: the number goes into the super block, or the numbers there
\* go into the block, whose page is waited for with the lock held.
FreeBlock(t) ==
  /\ At(t, "next") /\ th[t].todo # <<>> /\ Free(t)
  /\ IF super.nfree = S5_NBLKS_PER_FNODE - 1 THEN Goto(t, "spill") /\ UNCHANGED super
     ELSE super' = [super EXCEPT !.free_blocks[super.nfree] = Head(th[t].todo), !.nfree = @ + 1] /\ Goto(t, "put")
  /\ UNCHANGED <<node, inode, ind>>

\* Mutant: the link to the older blocks of the list is not made.
SpillUnlinked(b) == [super EXCEPT !.nfree = 0]

\* The super block begins a new list, whose last number is the block with
\* the old one.
SpillInto(b) == [super EXCEPT !.nfree = 0, !.free_blocks[S5_NBLKS_PER_FNODE - 1] = b]

Spill(t) ==
  /\ At(t, "spill") /\ Goto(t, "put")
  /\ LET b == Head(th[t].todo) IN node' = [node EXCEPT ![b] = super.free_blocks] /\ super' = SpillInto(b)
  /\ UNCHANGED <<inode, ind, mutex>>

\* The super block is dirty, and the lock given back.
Unlock(t) == At(t, "put") /\ mutex' = NONE /\ Goto(t, "zero") /\ UNCHANGED <<super, node, inode, ind>>

\* The page of the inode is dirty: its number of the block is cleared.
Zero(t) ==
  /\ At(t, "zero") /\ th' = [th EXCEPT ![t] = [@ EXCEPT !.pc = "next", !.todo = Tail(@)]]
  /\ inode' = [inode EXCEPT ![th[t].ino].direct = [k \in DOMAIN @ |-> IF @[k] = Head(th[t].todo) THEN 0 ELSE @[k]]]
  /\ UNCHANGED <<super, node, ind, mutex>>

\* All blocks are free: the inode is, and becomes the first of the list.
MarkFree(t) ==
  /\ At(t, "next") /\ th[t].todo = <<>> /\ Goto(t, "link")
  /\ inode' = [inode EXCEPT ![th[t].ino] = [@ EXCEPT !.indirect = 0, !.type = "free"]]
  /\ UNCHANGED <<super, node, ind, mutex>>
Link(t) ==
  /\ At(t, "link") /\ mutex = NONE /\ UNCHANGED <<node, ind, mutex>>
  /\ inode' = [inode EXCEPT ![th[t].ino].next_free = super.free_inode]
  /\ super' = [super EXCEPT !.free_inode = th[t].ino]
  /\ th' = [th EXCEPT ![t] = Idle]

-----------------------------------------------------------------------------
\* The disk as mounted: a list with one number, an inode that is free, and
\* files with direct and indirect blocks.
Init ==
  /\ super = [nfree |-> 1, free_blocks |-> [k \in Slot |-> IF k = 0 THEN 1 ELSE 0], free_inode |-> 0]
  /\ node = [b \in Block |-> <<>>]
  /\ inode = [i \in Inode |->
                IF i = 0 THEN [type |-> "free", direct |-> NoBlocks, indirect |-> 0, next_free |-> NONE]
                ELSE [type |-> "data", direct |-> [NoBlocks EXCEPT ![1] = 3 * i - 1], indirect |-> 3 * i, next_free |-> NONE]]
  /\ ind = [i \in Inode |-> <<0, 3 * i + 1>>]
  /\ mutex = NONE /\ th = [t \in Thread |-> Idle]

Next ==
  \E t \in Thread :
    \/ AllocLock(t) \/ AllocTake(t) \/ (\E type \in {"data", "chr"} : AllocInit(t, type))
    \/ (\E i \in Inode : FreeInode(t, i)) \/ FreeBlock(t) \/ Spill(t) \/ Unlock(t) \/ Zero(t)
    \/ MarkFree(t) \/ Link(t)

Spec == Init /\ [][Next]_vars

-----------------------------------------------------------------------------
\* The numbers of a list: the block it ends with leads to the older ones.
RECURSIVE Chain(_, _, _)
Chain(f, n, fuel) ==
  LET here == [k \in 1 .. n |-> f[k - 1]]
      last == f[S5_NBLKS_PER_FNODE - 1]
  IN IF last = 0 \/ fuel = 0 THEN here
     ELSE here \o <<last>> \o Chain(node[last], S5_NBLKS_PER_FNODE - 1, fuel - 1)
FreeBlocks == Chain(super.free_blocks, super.nfree, NBlocks)

RECURSIVE FreeInodes(_, _)
FreeInodes(i, fuel) == IF i = NONE \/ fuel = 0 THEN <<>> ELSE <<i>> \o FreeInodes(inode[i].next_free, fuel - 1)

ToSet(q) == {q[k] : k \in DOMAIN q}
Freeing(i) == \E t \in Thread : th[t].ino = i /\ th[t].pc \in {"next", "spill", "put", "zero"}
Indirect(i) == IF inode[i].type = "data" /\ inode[i].indirect # 0 THEN {inode[i].indirect} \cup ToSet(ind[i]) ELSE {}
Owned(i) == (ToSet(inode[i].direct) \cup Indirect(i)) \ {0}
ToFree(t) == ToSet(IF th[t].pc \in {"put", "zero"} THEN Tail(th[t].todo) ELSE th[t].todo)
InUse == {i \in Inode : inode[i].type # "free" /\ ~Freeing(i)}
Owed == UNION {ToFree(t) : t \in Thread} \cup UNION {Owned(i) : i \in InUse}
Between == {th[t].ino : t \in {s \in Thread : th[s].pc \in {"init", "link"}}}

\* Every block is in use, about to be freed, or on the free list, once; and
\* the inodes on their list are the free ones, once each, so the super block
\* passes s5_check_super, but for the one a thread is at (s5_free_block, s5_free_inode, s5_alloc_inode).
FreeListsSound ==
  /\ Len(FreeBlocks) = Cardinality(ToSet(FreeBlocks)) /\ ToSet(FreeBlocks) = Block \ Owed
  /\ LET q == FreeInodes(super.free_inode, NInodes + 1)
     IN Len(q) = Cardinality(ToSet(q)) /\ ToSet(q) = {i \in Inode : inode[i].type = "free"} \ Between

=============================================================================
