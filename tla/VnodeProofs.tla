---------------------------- MODULE VnodeProofs ----------------------------
(***************************************************************************)
(* The reference counts of the vnodes of PageCache, the assertions on them *)
(* and the unsaved pages, for any number of users, vnodes and pages.       *)
(***************************************************************************)
EXTENDS PageCacheProofs, FiniteSetTheorems

\* How many users hold vnode v.
Holds(h, v) == Cardinality({t \in User : h[t] = v})

\* It is a number, 0 when nobody does.
LEMMA HoldsCounts ==
  ASSUME IsFiniteSet(User), NEW h, NEW v
  PROVE  Holds(h, v) \in Nat /\ (Holds(h, v) = 0 <=> \A t \in User : h[t] # v)
<1> DEFINE S == {t \in User : h[t] = v}
<1>1. IsFiniteSet(S)
  BY FS_Subset
<1>2. Cardinality(S) \in Nat /\ (Cardinality(S) = 0 <=> S = {})
  BY <1>1, FS_CardinalityType, FS_EmptySet
<1> QED  BY <1>2 DEF Holds

\* User t takes vnode v, and drops the one it holds.
Takes(h, g, t, v) ==
  h \in [User -> Vnode \cup {NULL}] /\ t \in User /\ h[t] = NULL /\ g = [h EXCEPT ![t] = v]
Drops(h, g, t) ==
  h \in [User -> Vnode \cup {NULL}] /\ g = [u \in User |-> IF u = t THEN NULL ELSE h[u]]

\* The count goes up for the vnode taken and for no other.
LEMMA HoldsTaken ==
  ASSUME Distinct, IsFiniteSet(User), NEW h, NEW g, NEW t, NEW v \in Vnode, Takes(h, g, t, v)
  PROVE  Holds(g, v) = Holds(h, v) + 1 /\ \A u \in Vnode : u # v => Holds(g, u) = Holds(h, u)
<1> DEFINE S(u) == {x \in User : h[x] = u}
           T(u) == {x \in User : g[x] = u}
<1>1. t \in User /\ h[t] = NULL /\ \A x \in User : g[x] = IF x = t THEN v ELSE h[x]
  BY DEF Takes
<1>2. NULL \notin Vnode
  BY DEF Distinct
<1>3. IsFiniteSet(S(v)) /\ t \notin S(v) /\ T(v) = S(v) \cup {t}
  BY <1>1, <1>2, FS_Subset
<1>4. Cardinality(T(v)) = Cardinality(S(v)) + 1
  <2> HIDE DEF S, T
  <2> QED  BY <1>3, FS_AddElement, Zenon
<1>5. \A u \in Vnode : u # v => T(u) = S(u)
  BY <1>1, <1>2
<1> QED  BY <1>4, <1>5 DEF Holds

\* It goes down for the vnode dropped.
LEMMA HoldsDropped ==
  ASSUME Distinct, IsFiniteSet(User), NEW h, NEW g, NEW t \in User, NEW v \in Vnode, Drops(h, g, t), h[t] = v
  PROVE  Holds(g, v) = Holds(h, v) - 1 /\ \A u \in Vnode : u # v => Holds(g, u) = Holds(h, u)
<1> DEFINE S(u) == {x \in User : h[x] = u}
           T(u) == {x \in User : g[x] = u}
<1>1. \A x \in User : g[x] = IF x = t THEN NULL ELSE h[x]
  BY DEF Drops
<1>2. NULL \notin Vnode
  BY DEF Distinct
<1>3. IsFiniteSet(S(v)) /\ t \in S(v) /\ T(v) = S(v) \ {t}
  BY <1>1, <1>2, FS_Subset
<1>4. Cardinality(T(v)) = Cardinality(S(v)) - 1
  <2> HIDE DEF S, T
  <2> QED  BY <1>3, FS_RemoveElement, Zenon
<1>5. \A u \in Vnode : u # v => T(u) = S(u)
  BY <1>1, <1>2
<1> QED  BY <1>4, <1>5 DEF Holds

-----------------------------------------------------------------------------
\* The state of a vnode: its count is that of its n resident pages and k
\* holders, a free slot and a busy vnode have none, and an unlinked file stays
\* only as long as somebody holds it.
Counted(ino, ref, busy, n, k, lk) ==
  /\ ref = n + k
  /\ ino = NULL \/ busy => n = 0 /\ k = 0
  /\ ino = NULL => ~busy
  /\ ino # NULL /\ ~busy => ref > 0
  /\ ino # NULL /\ ~busy /\ ino \notin lk => k > 0

VnodeOK(m, h, lk, v) ==
  Counted(m.ino[v], m.ref[v], m.busy[v], nrespages(m, v), Holds(h, v), lk)

\* Thread t is to set VN_BUSY free: it reads the vnode or deletes it.
Owns(l) == l.at \in {"read_vnode", "delete_vnode"}

\* What is known of thread t at l.
PlaceOK(t, l, m, h, lk) ==
  /\ l.at \in {"find", "read_vnode"} => t \in User
  /\ (l.at = "find" \/ Owns(l)) /\ t \in User => h[t] = NULL
  /\ Owns(l) => m.busy[l.v] /\ m.ino[l.v] # NULL
  /\ l.at = "uncache" => t \in User /\ h[t] = l.v /\ m.ino[l.v] \notin lk

OneOwner ==
  \A t, u \in Thread : Owns(run.loc[t]) /\ Owns(run.loc[u]) /\ run.loc[t].v = run.loc[u].v => t = u

RInv ==
  /\ \A v \in Vnode : VnodeOK(mem, held, linked, v)
  /\ \A t \in Thread : PlaceOK(t, run.loc[t], mem, held, linked)
  /\ OneOwner
  /\ PanicsOnlyInUncache
  /\ linked \subseteq Ino

\* Nothing a thread other than t relies on changes, when t goes on at l.
OthersStay(t, l) ==
  \A u \in Thread : u # t =>
    /\ Owns(run.loc[u]) => /\ mem'.busy[run.loc[u].v] /\ mem'.ino[run.loc[u].v] # NULL
                           /\ ~(Owns(l) /\ l.v = run.loc[u].v)
    /\ run.loc[u].at = "uncache" => mem'.ino[run.loc[u].v] \notin linked'

\* A step of thread t.
LEMMA RefStep ==
  ASSUME IInv, RInv, NEW t \in Thread, NEW l, GoesTo(t, l), OthersHold(t), OthersStay(t, l),
         \A v \in Vnode : VnodeOK(mem', held', linked', v), PlaceOK(t, l, mem', held', linked'),
         mem'.panic => l.at = "uncache", linked' \subseteq Ino
  PROVE  RInv'
<1>1. \A u \in Thread : run'.loc[u] = IF u = t THEN l ELSE run.loc[u]
  <2>1. run.loc \in [Thread -> Location] /\ run'.loc = [run.loc EXCEPT ![t] = l]
    BY DEF GoesTo, Stay, Leave, IInv
  <2> QED  BY <2>1
<1>2. ASSUME NEW u \in Thread, u # t
      PROVE  PlaceOK(u, run.loc[u], mem', held', linked')
  <2>1. PlaceOK(u, run.loc[u], mem, held, linked)
    BY DEF RInv
  <2>2. u \in User => held'[u] = held[u]
    BY <1>2 DEF OthersHold
  <2> QED  BY <1>2, <2>1, <2>2 DEF OthersStay, PlaceOK
<1>3. \A u \in Thread : PlaceOK(u, run'.loc[u], mem', held', linked')
  BY <1>1, <1>2
<1>4. OneOwner'
  <2> SUFFICES ASSUME NEW u \in Thread, NEW w \in Thread,
                      Owns(run'.loc[u]), Owns(run'.loc[w]), run'.loc[u].v = run'.loc[w].v
               PROVE  u = w
    BY DEF OneOwner, Owns
  <2>1. CASE u = t \/ w = t
    BY <1>1, <2>1 DEF OthersStay
  <2>2. CASE u # t /\ w # t
    BY <1>1, <2>2 DEF RInv, OneOwner
  <2> QED  BY <2>1, <2>2
<1>5. PanicsOnlyInUncache'
  BY <1>1 DEF PanicsOnlyInUncache
<1> QED  BY <1>3, <1>4, <1>5 DEF RInv

-----------------------------------------------------------------------------
\* Memories with the same vnodes, panicked or not.
Quiet(m, n) ==
  /\ n.ino = m.ino /\ n.ref = m.ref /\ n.busy = m.busy /\ n.respages = m.respages
  /\ n.panic = m.panic

\* Sleeping, waking up and the flags and the order of the frames are no matter
\* of the vnodes.
LEMMA QuietOps ==
  ASSUME NEW m \in Mem
  PROVE  /\ \A t, q : Quiet(m, Sleep(m, t, q))
         /\ \A q : Quiet(m, Broadcast(m, q)) /\ \A t, p : Quiet(m, Sleep(Broadcast(m, q), t, p))
         /\ \A f : Quiet(m, set_busy(m, f)) /\ Quiet(m, clear_busy(m, f)) /\ Quiet(m, pframe_get_resident(m, f))
         /\ \A f : Quiet(m, clear_busy([m EXCEPT !.dirty[f] = TRUE], f)) /\ Quiet(m, CleanStarts(m, f))
         /\ \A f : Quiet(m, set_busy(clear_busy(m, f), f))
         /\ \A f : Quiet(m, set_busy(pframe_get_resident(m, f), f))
         /\ \A f, t : Quiet(m, Sleep(pframe_get_resident(m, f), t, f))
<1>1. \A t, q : Quiet(m, Sleep(m, t, q))
  BY Zenon DEF Mem, Quiet, Sleep
<1>2. \A q : Quiet(m, Broadcast(m, q)) /\ \A t, p : Quiet(m, Sleep(Broadcast(m, q), t, p))
  BY Zenon DEF Mem, Quiet, Sleep, Broadcast
<1>3. \A f : Quiet(m, set_busy(m, f)) /\ Quiet(m, clear_busy(m, f)) /\ Quiet(m, pframe_get_resident(m, f))
  BY Zenon DEF Mem, Quiet, set_busy, clear_busy, pframe_get_resident, Broadcast
<1>4. \A f : Quiet(m, clear_busy([m EXCEPT !.dirty[f] = TRUE], f)) /\ Quiet(m, CleanStarts(m, f))
  BY Zenon DEF Mem, Quiet, clear_busy, CleanStarts, set_busy, Broadcast
<1>5. \A f : Quiet(m, set_busy(clear_busy(m, f), f))
  BY Zenon DEF Mem, Quiet, set_busy, clear_busy, Broadcast
<1>6. /\ \A f : Quiet(m, set_busy(pframe_get_resident(m, f), f))
      /\ \A f, t : Quiet(m, Sleep(pframe_get_resident(m, f), t, f))
  BY Zenon DEF Mem, Quiet, set_busy, pframe_get_resident, Sleep
<1> QED  BY <1>1, <1>2, <1>3, <1>4, <1>5, <1>6

\* The places where nothing need be known of a vnode.
Plain(l) == l.at \notin {"find", "read_vnode", "delete_vnode", "uncache"}

\* A thread there is in the middle of no call of vnode.c.
LEMMA PlainPlaces ==
  /\ Plain(At("user")) /\ Plain(At("pageoutd")) /\ Plain(At("clean_all")) /\ \A t : Plain(Caller(t))
  /\ \A p, w : Plain([At("get") EXCEPT !.page = p, !.forwrite = w])
  /\ \A f, w : /\ Plain([At("fill") EXCEPT !.f = f, !.forwrite = w])
               /\ Plain([At("dirty") EXCEPT !.f = f, !.forwrite = w])
  /\ \A f : Plain([At("clean") EXCEPT !.f = f])
<1>1. /\ Plain(At("user")) /\ Plain(At("pageoutd")) /\ Plain(At("clean_all")) /\ \A t : Plain(Caller(t))
  BY DEF Plain, At, Caller
<1>2. \A p, w : Plain([At("get") EXCEPT !.page = p, !.forwrite = w])
  BY DEF Plain, At
<1>3. \A f, w : /\ Plain([At("fill") EXCEPT !.f = f, !.forwrite = w])
                /\ Plain([At("dirty") EXCEPT !.f = f, !.forwrite = w])
  BY DEF Plain, At
<1>4. \A f : Plain([At("clean") EXCEPT !.f = f])
  BY DEF Plain, At
<1> QED  BY <1>1, <1>2, <1>3, <1>4, Zenon

\* Nothing is known of a thread at such a place, and it owns no vnode.
LEMMA PlainOK ==
  ASSUME NEW l, Plain(l)
  PROVE  ~Owns(l) /\ l.at # "uncache" /\ \A t, m, h, lk : PlaceOK(t, l, m, h, lk)
BY DEF Plain, Owns, PlaceOK

\* A step that leaves the vnodes alone, to a place that claims none.
LEMMA RefAside ==
  ASSUME IInv, RInv, NEW t \in Thread, NEW l, GoesTo(t, l), ~Owns(l), PlaceOK(t, l, mem, held, linked),
         Quiet(mem, mem'), UNCHANGED <<held, linked>>, ~mem.panic
  PROVE  RInv'
<1>1. OthersHold(t) /\ linked' \subseteq Ino /\ ~mem'.panic
  BY HeldAlone DEF RInv, Quiet
<1>2. OthersStay(t, l)
  BY DEF OthersStay, Quiet, RInv, PlaceOK
<1>3. \A v \in Vnode : VnodeOK(mem', held', linked', v)
  BY DEF RInv, Quiet, VnodeOK, nrespages
<1>4. PlaceOK(t, l, mem', held', linked')
  BY DEF Quiet, PlaceOK
<1> QED  BY <1>1, <1>2, <1>3, <1>4, RefStep

\* The steps of pframe_fill, pframe_dirty, pframe_clean and pframe_clean_all.
LEMMA RefPages ==
  ASSUME IInv, RInv, NEW t \in Thread,
         (t \in User /\ (pframe_fill(t) \/ pframe_dirty(t) \/ pframe_clean_all(t) \/ CleanAllAgain(t)))
         \/ pframe_clean(t)
  PROVE  RInv'
<1>1. mem \in Mem /\ ~mem.panic
  BY DEF IInv, MemInv, pframe_fill, pframe_dirty, pframe_clean_all, CleanAllAgain, pframe_clean, Executes
<1>2. UNCHANGED <<held, linked>>
  BY DEF pframe_fill, pframe_dirty, pframe_clean_all, CleanAllAgain, pframe_clean
<1>3. CASE pframe_fill(t)
  <2> DEFINE d == [run.loc[t] EXCEPT !.at = "dirty"]
  <2>1. Quiet(mem, mem')
    BY <1>1, <1>3, QuietOps DEF pframe_fill
  <2>2. GoesTo(t, At("user")) \/ GoesTo(t, d)
    BY <1>3 DEF pframe_fill, GoesTo
  <2>3. Plain(d)
    BY DEF IInv, Location, Plain
  <2> HIDE DEF d
  <2> QED  BY <1>1, <1>2, <2>1, <2>2, <2>3, PlainPlaces, PlainOK, RefAside, Zenon
<1>4. CASE pframe_dirty(t)
  <2>1. Quiet(mem, mem')
    BY <1>1, <1>4, QuietOps DEF pframe_dirty
  <2>2. GoesTo(t, At("user"))
    BY <1>4 DEF pframe_dirty, GoesTo
  <2> QED  BY <1>1, <1>2, <2>1, <2>2, PlainPlaces, PlainOK, RefAside, Zenon
<1>5. CASE pframe_clean(t)
  <2>1. Quiet(mem, mem')
    BY <1>1, <1>5, QuietOps DEF pframe_clean
  <2>2. GoesTo(t, At("pageoutd")) \/ GoesTo(t, At("clean_all"))
    BY <1>5 DEF pframe_clean, GoesTo
  <2> QED  BY <1>1, <1>2, <2>1, <2>2, PlainPlaces, PlainOK, RefAside, Zenon
<1>6. CASE CleanAll(t)
  <2>1. Quiet(mem, mem')
    <3>1. CASE UNCHANGED mem
      BY <3>1 DEF Quiet
    <3>2. ASSUME NEW f, mem' = Sleep(mem, t, f) \/ mem' = CleanStarts(mem, f)
          PROVE  Quiet(mem, mem')
      BY <1>1, <3>2, QuietOps, Zenon
    <3> QED  BY <1>6, <3>1, <3>2, Zenon DEF CleanAll
  <2>2. PICK l : GoesTo(t, l) /\ l \in {At("user"), At("clean_all")} \cup {[At("clean") EXCEPT !.f = f] : f \in ToClean}
    BY <1>6, Zenon DEF CleanAll, GoesTo
  <2>3. Plain(l)
    BY <2>2, PlainPlaces, Zenon
  <2> QED  BY <1>1, <1>2, <2>1, <2>2, <2>3, PlainOK, RefAside
<1> QED  BY <1>3, <1>4, <1>5, <1>6 DEF pframe_clean_all, CleanAllAgain

-----------------------------------------------------------------------------
\* Memories with the same vnodes but v.
OtherVnodes(m, n, v) ==
  \A u \in Vnode : u # v =>
    n.ino[u] = m.ino[u] /\ n.ref[u] = m.ref[u] /\ n.busy[u] = m.busy[u] /\ n.respages[u] = m.respages[u]

\* No thread but t is in the middle of reading or taking away vnode v.
Alone(t, v) ==
  \A u \in Thread : u # t /\ (Owns(run.loc[u]) \/ run.loc[u].at = "uncache") => run.loc[u].v # v

\* The owner of a vnode is alone on it, nobody is at work on a free slot, and
\* only the holders are on a vnode that is not busy.
LEMMA AloneOn ==
  ASSUME IInv, RInv, IsFiniteSet(User), NEW t \in Thread, NEW v \in Vnode,
         \/ Owns(run.loc[t]) /\ run.loc[t].v = v
         \/ mem.ino[v] = NULL
         \/ ~mem.busy[v] /\ \A u \in User : u # t => held[u] # v
  PROVE  Alone(t, v)
<1> SUFFICES ASSUME NEW u \in Thread, u # t, Owns(run.loc[u]) \/ run.loc[u].at = "uncache", run.loc[u].v = v
             PROVE  FALSE
  BY DEF Alone
<1>1. PlaceOK(u, run.loc[u], mem, held, linked) /\ PlaceOK(t, run.loc[t], mem, held, linked)
  BY DEF RInv
<1>2. CASE Owns(run.loc[u])
  BY <1>1, <1>2 DEF RInv, OneOwner, PlaceOK, VnodeOK, Counted
<1>3. CASE run.loc[u].at = "uncache"
  <2>1. u \in User /\ held[u] = v
    BY <1>1, <1>3 DEF PlaceOK
  <2>2. Holds(held, v) # 0
    BY <2>1, HoldsCounts
  <2>3. mem.ino[v] # NULL /\ ~mem.busy[v]
    BY <2>2 DEF RInv, VnodeOK, Counted
  <2> QED  BY <1>1, <2>1, <2>3 DEF PlaceOK
<1> QED  BY <1>2, <1>3

\* The other threads rely on other vnodes, or on nothing of v that changes.
LEMMA OthersStayOn ==
  ASSUME IInv, RInv, NEW t \in Thread, NEW l, NEW v \in Vnode, OtherVnodes(mem, mem', v), linked' = linked,
         \/ Alone(t, v) /\ (Owns(l) => l.v = v)
         \/ mem'.ino[v] = mem.ino[v] /\ mem'.busy[v] = mem.busy[v] /\ ~Owns(l)
  PROVE  OthersStay(t, l)
<1> SUFFICES ASSUME NEW u \in Thread, u # t, Owns(run.loc[u]) \/ run.loc[u].at = "uncache"
             PROVE  /\ Owns(run.loc[u]) => /\ mem'.busy[run.loc[u].v] /\ mem'.ino[run.loc[u].v] # NULL
                                           /\ ~(Owns(l) /\ l.v = run.loc[u].v)
                    /\ run.loc[u].at = "uncache" => mem'.ino[run.loc[u].v] \notin linked'
  BY DEF OthersStay
<1>1. PlaceOK(u, run.loc[u], mem, held, linked) /\ run.loc[u].v \in Vnode
  BY DEF RInv, IInv, LocOK, Owns
<1>2. /\ mem'.ino[run.loc[u].v] = mem.ino[run.loc[u].v] /\ mem'.busy[run.loc[u].v] = mem.busy[run.loc[u].v]
      /\ ~(Owns(l) /\ l.v = run.loc[u].v)
  BY <1>1 DEF OtherVnodes, Alone
<1> QED  BY <1>1, <1>2 DEF PlaceOK

\* A step of thread t that changes vnode v.
LEMMA RefOn ==
  ASSUME IInv, RInv, NEW t \in Thread, NEW l, NEW v \in Vnode, GoesTo(t, l), OthersHold(t), OthersStay(t, l),
         OtherVnodes(mem, mem', v), \A u \in Vnode : u # v => Holds(held', u) = Holds(held, u),
         VnodeOK(mem', held', linked, v), PlaceOK(t, l, mem', held', linked), linked' = linked, ~mem'.panic
  PROVE  RInv'
<1>1. \A u \in Vnode : VnodeOK(mem', held', linked', u)
  BY DEF RInv, VnodeOK, OtherVnodes, nrespages
<1>2. linked' \subseteq Ino
  BY DEF RInv
<1> QED  BY <1>1, <1>2, RefStep

\* The end of vget: the first reference.
LEMMA RefVgetEnds ==
  ASSUME Distinct, IsFiniteSet(User), IInv, RInv, NEW t \in User, VgetEnds(t)
  PROVE  RInv'
<1> DEFINE v == run.loc[t].v
<1>1. t \in Thread /\ v \in Vnode /\ mem \in Mem /\ held \in [User -> Vnode \cup {NULL}] /\ Owns(run.loc[t])
  BY DEF VgetEnds, Executes, IInv, LocOK, Thread, MemInv, Owns
<1>2. /\ mem' = [mem EXCEPT !.busy[v] = FALSE, !.ref[v] = 1] /\ held' = [held EXCEPT ![t] = v]
      /\ GoesTo(t, At("user")) /\ ~mem.panic /\ linked' = linked
  BY DEF VgetEnds, Executes, GoesTo
<1>3. held[t] = NULL /\ mem.busy[v] /\ mem.ino[v] # NULL
  BY <1>1 DEF RInv, PlaceOK
<1>4. Alone(t, v)
  BY <1>1, AloneOn
<1> HIDE DEF v
<1>5. /\ mem'.ino = mem.ino /\ mem'.respages = mem.respages /\ mem'.panic = mem.panic
      /\ mem'.busy = [mem.busy EXCEPT ![v] = FALSE] /\ mem'.ref = [mem.ref EXCEPT ![v] = 1]
  BY <1>1, <1>2, Zenon DEF Mem
<1>6. /\ OtherVnodes(mem, mem', v) /\ ~mem'.busy[v] /\ mem'.ref[v] = 1
      /\ mem'.ino[v] = mem.ino[v] /\ nrespages(mem', v) = nrespages(mem, v)
  BY <1>1, <1>5 DEF OtherVnodes, Mem, nrespages
<1>7. Holds(held', v) = Holds(held, v) + 1 /\ \A u \in Vnode : u # v => Holds(held', u) = Holds(held, u)
  <2>1. Takes(held, held', t, v)
    BY <1>1, <1>2, <1>3 DEF Takes
  <2> QED  BY <1>1, <2>1, HoldsTaken
<1>8. VnodeOK(mem', held', linked, v)
  <2>1. VnodeOK(mem, held, linked, v)
    BY <1>1 DEF RInv
  <2> QED  BY <1>3, <1>6, <1>7, <2>1 DEF VnodeOK, Counted
<1>9. OthersHold(t)
  BY <1>1, <1>2 DEF OthersHold
<1>10. ~Owns(At("user")) /\ PlaceOK(t, At("user"), mem', held', linked)
  BY PlainPlaces, PlainOK, Zenon
<1>11. OthersStay(t, At("user"))
  BY <1>1, <1>2, <1>4, <1>6, <1>10, OthersStayOn, Zenon
<1>12. ~mem'.panic
  BY <1>2, <1>5
<1> QED  BY <1>1, <1>2, <1>6, <1>7, <1>8, <1>9, <1>10, <1>11, <1>12, RefOn, Zenon

\* The end of vput: the slot is free.
LEMMA RefVputEnds ==
  ASSUME Distinct, IsFiniteSet(User), IInv, RInv, NEW t \in Thread, VputEnds(t)
  PROVE  RInv'
<1> DEFINE v == run.loc[t].v
           m == Broadcast(mem, v)
<1>1. v \in Vnode /\ mem \in Mem /\ Owns(run.loc[t]) /\ v \in Queue
  BY DEF VputEnds, Executes, IInv, LocOK, MemInv, Owns, Queue
<1>2. /\ mem' = [m EXCEPT !.ino[v] = NULL, !.busy[v] = FALSE] /\ held' = held
      /\ GoesTo(t, Caller(t)) /\ ~mem.panic /\ linked' = linked
  BY DEF VputEnds, Executes, GoesTo
<1>3. mem.busy[v]
  BY <1>1 DEF RInv, PlaceOK
<1>4. Alone(t, v) /\ OthersHold(t)
  BY <1>1, <1>2, AloneOn, HeldAlone
<1> HIDE DEF v
<1>5. Quiet(mem, m) /\ m \in Mem
  <2>1. MemInv(mem)
    BY DEF IInv
  <2> QED  BY <1>1, <2>1, QuietOps, BroadcastKeeps DEF MemInv
<1> HIDE DEF m
<1>6. /\ mem'.ino = [m.ino EXCEPT ![v] = NULL] /\ mem'.respages = m.respages /\ mem'.panic = m.panic
      /\ mem'.busy = [m.busy EXCEPT ![v] = FALSE] /\ mem'.ref = m.ref
  BY <1>2, <1>5, Zenon DEF Mem
<1>7. /\ OtherVnodes(mem, mem', v) /\ ~mem'.busy[v] /\ mem'.ref[v] = mem.ref[v]
      /\ mem'.ino[v] = NULL /\ nrespages(mem', v) = nrespages(mem, v) /\ ~mem'.panic
  BY <1>1, <1>2, <1>5, <1>6 DEF OtherVnodes, Mem, nrespages, Quiet
<1>8. VnodeOK(mem', held', linked, v)
  <2>1. VnodeOK(mem, held, linked, v)
    BY <1>1 DEF RInv
  <2> QED  BY <1>2, <1>3, <1>7, <2>1 DEF VnodeOK, Counted
<1>9. ~Owns(Caller(t)) /\ PlaceOK(t, Caller(t), mem', held', linked)
  BY PlainPlaces, PlainOK, Zenon
<1>10. OthersStay(t, Caller(t))
  BY <1>1, <1>2, <1>4, <1>7, <1>9, OthersStayOn, Zenon
<1> QED  BY <1>1, <1>2, <1>4, <1>7, <1>8, <1>9, <1>10, RefOn

-----------------------------------------------------------------------------
\* A turn of the loop of vget.
LEMMA RefFind ==
  ASSUME Distinct, IsFiniteSet(User), IInv, RInv, NEW t \in User, NEW i \in Ino, Find(t, i),
         held[t] = NULL, ~mem.panic, linked' = linked
  PROVE  RInv'
<1>1. t \in Thread /\ mem \in Mem /\ held \in [User -> Vnode \cup {NULL}] /\ i # NULL
  BY DEF Thread, IInv, MemInv, Distinct
<1>2. ASSUME NEW v \in Vnode, mem' = Sleep(mem, t, v), Leave(t, [At("find") EXCEPT !.ino = i]), UNCHANGED held
      PROVE  RInv'
  <2> DEFINE l == [At("find") EXCEPT !.ino = i]
  <2>1. l.at = "find"
    BY DEF At
  <2>2. Quiet(mem, mem') /\ GoesTo(t, l)
    BY <1>1, <1>2, QuietOps DEF GoesTo
  <2> HIDE DEF l
  <2>3. ~Owns(l) /\ PlaceOK(t, l, mem, held, linked)
    BY <2>1 DEF Owns, PlaceOK
  <2> QED  BY <1>1, <1>2, <2>2, <2>3, RefAside
<1>3. ASSUME NEW v \in Vnode, mem.ino[v] = i, ~mem.busy[v],
             mem' = IF mem.ref[v] > 0 THEN [mem EXCEPT !.ref[v] = @ + 1] ELSE Panic(mem),
             held' = [held EXCEPT ![t] = v], Leave(t, At("user"))
      PROVE  RInv'
  <2>1. VnodeOK(mem, held, linked, v)
    BY DEF RInv
  <2>2. mem.ref[v] > 0
    BY <1>1, <1>3, <2>1 DEF VnodeOK, Counted
  <2>3. mem' = [mem EXCEPT !.ref[v] = @ + 1]
    BY <1>3, <2>2
  <2>4. /\ mem'.ino = mem.ino /\ mem'.respages = mem.respages /\ mem'.panic = mem.panic
        /\ mem'.busy = mem.busy /\ mem'.ref = [mem.ref EXCEPT ![v] = @ + 1]
    BY <1>1, <2>3, Zenon DEF Mem
  <2>5. /\ OtherVnodes(mem, mem', v) /\ mem'.busy[v] = mem.busy[v] /\ mem'.ref[v] = mem.ref[v] + 1
        /\ mem'.ino[v] = mem.ino[v] /\ nrespages(mem', v) = nrespages(mem, v) /\ ~mem'.panic
    BY <1>1, <2>4 DEF OtherVnodes, Mem, nrespages
  <2>6. Holds(held', v) = Holds(held, v) + 1 /\ \A u \in Vnode : u # v => Holds(held', u) = Holds(held, u)
    <3>1. Takes(held, held', t, v)
      BY <1>1, <1>3 DEF Takes
    <3> QED  BY <3>1, HoldsTaken
  <2>7. VnodeOK(mem', held', linked, v)
    <3>1. Holds(held, v) \in Nat /\ mem.ref[v] \in Int /\ nrespages(mem, v) \in Nat
      BY <1>1, HoldsCounts DEF nrespages, Mem
    <3> QED  BY <1>1, <1>3, <2>1, <2>5, <2>6, <3>1 DEF VnodeOK, Counted
  <2>8. OthersHold(t) /\ GoesTo(t, At("user"))
    BY <1>1, <1>3 DEF OthersHold, GoesTo
  <2>9. ~Owns(At("user")) /\ PlaceOK(t, At("user"), mem', held', linked)
    BY PlainPlaces, PlainOK, Zenon
  <2>10. OthersStay(t, At("user"))
    BY <1>1, <2>5, <2>9, OthersStayOn
  <2> QED  BY <1>1, <2>5, <2>6, <2>7, <2>8, <2>9, <2>10, RefOn
<1>4. ASSUME NEW v \in Vnode, mem.ino[v] = NULL, mem' = [mem EXCEPT !.ino[v] = i, !.busy[v] = TRUE],
             Leave(t, [At("read_vnode") EXCEPT !.v = v]), UNCHANGED held
      PROVE  RInv'
  <2> DEFINE l == [At("read_vnode") EXCEPT !.v = v]
  <2>1. l.at = "read_vnode" /\ l.v = v
    BY DEF At
  <2>2. OthersHold(t) /\ GoesTo(t, l) /\ Alone(t, v)
    BY <1>1, <1>4, HeldAlone, AloneOn DEF GoesTo
  <2> HIDE DEF l
  <2>3. /\ mem'.ino = [mem.ino EXCEPT ![v] = i] /\ mem'.respages = mem.respages /\ mem'.panic = mem.panic
        /\ mem'.busy = [mem.busy EXCEPT ![v] = TRUE] /\ mem'.ref = mem.ref
    BY <1>1, <1>4, Zenon DEF Mem
  <2>4. /\ OtherVnodes(mem, mem', v) /\ mem'.busy[v] /\ mem'.ref[v] = mem.ref[v]
        /\ mem'.ino[v] = i /\ nrespages(mem', v) = nrespages(mem, v) /\ ~mem'.panic
    BY <1>1, <2>3 DEF OtherVnodes, Mem, nrespages
  <2>5. VnodeOK(mem', held', linked, v)
    <3>1. VnodeOK(mem, held, linked, v)
      BY DEF RInv
    <3> QED  BY <1>1, <1>4, <2>4, <3>1 DEF VnodeOK, Counted
  <2>6. PlaceOK(t, l, mem', held', linked)
    BY <1>1, <1>4, <2>1, <2>4 DEF PlaceOK
  <2>7. OthersStay(t, l)
    BY <1>1, <2>1, <2>2, <2>4, OthersStayOn
  <2> QED  BY <1>1, <1>4, <2>2, <2>4, <2>5, <2>6, <2>7, RefOn
<1>5. \/ \E v \in Vnode : mem' = Sleep(mem, t, v) /\ Leave(t, [At("find") EXCEPT !.ino = i]) /\ UNCHANGED held
      \/ \E v \in Vnode :
           /\ mem.ino[v] = i /\ ~mem.busy[v]
           /\ mem' = IF mem.ref[v] > 0 THEN [mem EXCEPT !.ref[v] = @ + 1] ELSE Panic(mem)
           /\ held' = [held EXCEPT ![t] = v] /\ Leave(t, At("user"))
      \/ \E v \in Vnode :
           /\ mem.ino[v] = NULL /\ mem' = [mem EXCEPT !.ino[v] = i, !.busy[v] = TRUE]
           /\ Leave(t, [At("read_vnode") EXCEPT !.v = v]) /\ UNCHANGED held
  BY Zenon DEF Find
<1> QED  BY <1>2, <1>3, <1>4, <1>5, Zenon

\* The last lines of vput, in a memory m whose vnode v has one reference more
\* than pages and holders: the reference of t, or that of a page just freed.
LEMMA RefDrop ==
  ASSUME Distinct, IsFiniteSet(User), IInv, RInv, NEW t \in Thread, NEW m \in Mem, NEW v \in Vnode,
         DropReference(t, m, v), OtherVnodes(mem, m, v), m.ino[v] = mem.ino[v], m.busy[v] = mem.busy[v], ~m.panic,
         ~mem.busy[v], mem.ino[v] # NULL, linked' = linked,
         m.ref[v] = nrespages(m, v) + Holds(held', v) + 1,
         \A u \in Vnode : u # v => Holds(held', u) = Holds(held, u),
         mem.ino[v] \in linked \/ Holds(held', v) > 0 \/ m.ref[v] = 1
  PROVE  RInv'
<1> DEFINE d == [m EXCEPT !.ref[v] = @ - 1]
           l == [At("delete_vnode") EXCEPT !.v = v]
<1>1. /\ held' = [u \in User |-> IF u = t THEN NULL ELSE held[u]]
      /\ \/ d.ref[v] > 0 /\ mem' = d /\ GoesTo(t, Caller(t))
         \/ /\ d.ref[v] <= 0 /\ GoesTo(t, l)
            /\ mem' = IF d.ref[v] = 0 /\ nrespages(m, v) = 0 THEN [d EXCEPT !.busy[v] = TRUE] ELSE Panic(d)
  BY DEF DropReference, GoesTo
<1>2. OthersHold(t) /\ (t \in User => held'[t] = NULL) /\ held \in [User -> Vnode \cup {NULL}]
  BY <1>1 DEF IInv, OthersHold
<1>3. /\ d \in Mem /\ d.ino = m.ino /\ d.respages = m.respages /\ d.busy = m.busy /\ d.panic = m.panic
      /\ d.ref = [m.ref EXCEPT ![v] = @ - 1]
  <2>1. m.ref[v] - 1 \in Int
    BY DEF Mem
  <2> QED  BY <2>1, Zenon DEF Mem
<1>4. l.at = "delete_vnode" /\ l.v = v
  BY DEF At
<1> HIDE DEF d, l
<1>5. /\ OtherVnodes(mem, d, v) /\ d.ref[v] = m.ref[v] - 1 /\ d.ino[v] = mem.ino[v] /\ ~d.busy[v] /\ ~d.panic
      /\ nrespages(d, v) = nrespages(m, v) /\ d.busy[v] = mem.busy[v]
  BY <1>3 DEF OtherVnodes, Mem, nrespages
<1>6. Holds(held', v) \in Nat /\ nrespages(m, v) \in Nat /\ m.ref[v] \in Int
  BY HoldsCounts DEF nrespages, Mem
<1>7. CASE d.ref[v] > 0 /\ mem' = d /\ GoesTo(t, Caller(t))
  <2>1. VnodeOK(mem', held', linked, v)
    <3>1. /\ mem'.ino[v] = mem.ino[v] /\ mem'.ref[v] = m.ref[v] - 1 /\ ~mem'.busy[v] /\ mem'.ref[v] > 0
          /\ nrespages(mem', v) = nrespages(m, v)
      BY <1>5, <1>7
    <3>2. mem'.ref[v] = nrespages(mem', v) + Holds(held', v)
      BY <1>6, <3>1
    <3>3. mem.ino[v] \notin linked => Holds(held', v) > 0
      BY <1>6, <3>1
    <3> QED  BY <3>1, <3>2, <3>3 DEF VnodeOK, Counted
  <2>2. ~Owns(Caller(t)) /\ PlaceOK(t, Caller(t), mem', held', linked)
    BY PlainPlaces, PlainOK, Zenon
  <2>3. OthersStay(t, Caller(t))
    BY <1>5, <1>7, <2>2, OthersStayOn
  <2> QED  BY <1>2, <1>5, <1>7, <2>1, <2>2, <2>3, RefOn
<1>8. CASE d.ref[v] <= 0 /\ GoesTo(t, l)
  <2>1. d.ref[v] = 0 /\ nrespages(m, v) = 0 /\ Holds(held', v) = 0
    BY <1>5, <1>6, <1>8
  <2>2. mem' = [d EXCEPT !.busy[v] = TRUE]
    BY <1>1, <1>8, <2>1
  <2>3. /\ mem'.ino = d.ino /\ mem'.respages = d.respages /\ mem'.ref = d.ref /\ mem'.panic = d.panic
        /\ mem'.busy = [d.busy EXCEPT ![v] = TRUE]
    BY <1>3, <2>2, Zenon DEF Mem
  <2>4. /\ OtherVnodes(mem, mem', v) /\ mem'.busy[v] /\ mem'.ref[v] = 0
        /\ mem'.ino[v] = mem.ino[v] /\ nrespages(mem', v) = 0 /\ ~mem'.panic
    BY <1>3, <1>5, <2>1, <2>3 DEF OtherVnodes, Mem, nrespages
  <2>5. VnodeOK(mem', held', linked, v)
    BY <2>1, <2>4 DEF VnodeOK, Counted
  <2>6. PlaceOK(t, l, mem', held', linked)
    BY <1>2, <1>4, <2>4 DEF PlaceOK
  <2>7. Alone(t, v)
    <3>1. \A u \in User : held'[u] # v
      BY <2>1, HoldsCounts
    <3>2. \A u \in User : u # t => held[u] # v
      BY <1>2, <3>1 DEF OthersHold
    <3> QED  BY <3>2, AloneOn
  <2>8. OthersStay(t, l)
    BY <1>4, <2>4, <2>7, OthersStayOn
  <2> QED  BY <1>2, <1>8, <2>4, <2>5, <2>6, <2>8, RefOn
<1> QED  BY <1>1, <1>7, <1>8

\* The vnode a user holds.
LEMMA HeldVnode ==
  ASSUME IsFiniteSet(User), IInv, RInv, NEW t \in User, NEW v \in Vnode, held[t] = v
  PROVE  /\ Holds(held, v) \in Nat /\ Holds(held, v) > 0 /\ nrespages(mem, v) \in Nat
         /\ mem.ref[v] = nrespages(mem, v) + Holds(held, v) /\ ~mem.busy[v] /\ mem.ino[v] # NULL
<1>1. Holds(held, v) \in Nat /\ Holds(held, v) # 0
  BY HoldsCounts
<1>2. nrespages(mem, v) \in Nat
  BY DEF IInv, MemInv, Mem, nrespages
<1>3. VnodeOK(mem, held, linked, v)
  BY DEF RInv
<1> QED  BY <1>1, <1>2, <1>3 DEF VnodeOK, Counted

\* A user that holds v drops its reference, when others hold v too, or the file
\* keeps its links, or no page is left.
LEMMA RefUserDrops ==
  ASSUME Distinct, IsFiniteSet(User), IInv, RInv, NEW t \in User, NEW v \in Vnode, held[t] = v,
         DropReference(t, mem, v), ~mem.panic, linked' = linked,
         mem.ino[v] \in linked \/ Holds(held, v) # 1 \/ mem.ref[v] = 1
  PROVE  RInv'
<1>1. /\ Holds(held, v) \in Nat /\ Holds(held, v) > 0 /\ nrespages(mem, v) \in Nat
      /\ mem.ref[v] = nrespages(mem, v) + Holds(held, v) /\ ~mem.busy[v] /\ mem.ino[v] # NULL
  BY HeldVnode
<1>2. t \in Thread /\ mem \in Mem /\ OtherVnodes(mem, mem, v)
  BY DEF Thread, IInv, MemInv, OtherVnodes
<1>3. Drops(held, held', t)
  BY DEF Drops, DropReference, IInv
<1>4. Holds(held', v) = Holds(held, v) - 1 /\ \A u \in Vnode : u # v => Holds(held', u) = Holds(held, u)
  BY <1>3, HoldsDropped
<1>5. mem.ref[v] = nrespages(mem, v) + Holds(held', v) + 1
  BY <1>1, <1>4
<1>6. mem.ino[v] \in linked \/ Holds(held', v) > 0 \/ mem.ref[v] = 1
  BY <1>1, <1>4
<1> QED  BY <1>1, <1>2, <1>4, <1>5, <1>6, RefDrop, Zenon

\* A user is done with its file: the assertions of vput hold.
LEMMA RefRelease ==
  ASSUME Distinct, IsFiniteSet(User), IInv, RInv, NEW t \in User, Release(t)
  PROVE  RInv'
<1> DEFINE v == held[t]
<1>1. v \in Vnode /\ t \in Thread /\ vput(t, mem, v) /\ ~mem.panic /\ linked' = linked
  BY DEF Release, IInv, Thread, Executes
<1>2. held[t] = v
  OBVIOUS
<1> HIDE DEF v
<1>3. /\ Holds(held, v) \in Nat /\ Holds(held, v) > 0 /\ nrespages(mem, v) \in Nat
      /\ mem.ref[v] = nrespages(mem, v) + Holds(held, v) /\ ~mem.busy[v] /\ mem.ino[v] # NULL
  BY <1>1, <1>2, HeldVnode
<1>4. VputAsserts(mem, v)
  BY <1>3 DEF VputAsserts
<1>5. ASSUME NEW f, mem.ino[v] \notin linked, mem' = mem, Stay(t, Uncache(v, f, mem)), UNCHANGED held
      PROVE  RInv'
  <2> DEFINE l == Uncache(v, f, mem)
  <2>1. l.at = "uncache" /\ l.v = v
    BY DEF Uncache, At
  <2>2. GoesTo(t, l) /\ Quiet(mem, mem')
    BY <1>5 DEF GoesTo, Quiet
  <2> HIDE DEF l
  <2>3. ~Owns(l) /\ PlaceOK(t, l, mem, held, linked)
    BY <1>2, <1>5, <2>1 DEF Owns, PlaceOK
  <2> QED  BY <1>1, <1>5, <2>2, <2>3, RefAside
<1>6. ASSUME nrespages(mem, v) # mem.ref[v] - 1 \/ mem.ino[v] \in linked, DropReference(t, mem, v)
      PROVE  RInv'
  <2>1. mem.ino[v] \in linked \/ Holds(held, v) # 1
    BY <1>3, <1>6
  <2> QED  BY <1>1, <1>2, <1>6, <2>1, RefUserDrops
<1> QED  BY <1>1, <1>4, <1>5, <1>6, Zenon DEF vput

\* Intervals from 1 are equal when their ends are.
LEMMA SameInterval ==
  ASSUME NEW a \in Nat, NEW b \in Nat, 1 .. a = 1 .. b
  PROVE  a = b
<1>1. a # 0 => a \in 1 .. b
  OBVIOUS
<1>2. b # 0 => b \in 1 .. a
  OBVIOUS
<1> QED  BY <1>1, <1>2

\* list_remove makes the list shorter by one.
LEMMA ListShorter ==
  ASSUME NEW S, NEW s \in Seq(S), IsInjective(s), NEW e \in Range(s)
  PROVE  Len(s) \in Nat /\ Len(s) > 0 /\ Len(list_remove(s, e)) = Len(s) - 1
<1> DEFINE r == list_remove(s, e)
<1>1. r \in Seq(S)
  BY ListRemoved
<1>2. DOMAIN r = 1 .. Len(s) - 1
  BY DEF list_remove
<1> HIDE DEF r
<1>3. DOMAIN r = 1 .. Len(r) /\ Len(r) \in Nat /\ DOMAIN s = 1 .. Len(s) /\ Len(s) \in Nat
  BY <1>1
<1>4. Len(s) > 0
  BY <1>3 DEF Range
<1>5. Len(s) - 1 \in Nat /\ 1 .. Len(r) = 1 .. Len(s) - 1
  <2>1. Len(s) - 1 \in Nat
    BY <1>3, <1>4
  <2> QED  BY <1>2, <1>3, <2>1, Zenon
<1>6. Len(r) = Len(s) - 1
  BY <1>3, <1>5, SameInterval, Zenon
<1> QED  BY <1>3, <1>4, <1>6 DEF r

\* pframe_free up to the vput takes one page from its vnode.
LEMMA UncachedVnodes ==
  ASSUME Distinct, NEW m, MemInv(m), NEW f \in Frame, ~m.pbusy[f], NEW v \in Vnode, m.obj[f] = v
  PROVE  LET n == Uncached(m, f)
         IN  /\ n \in Mem /\ n.ino = m.ino /\ n.ref = m.ref /\ n.busy = m.busy /\ n.panic = m.panic
             /\ OtherVnodes(m, n, v) /\ nrespages(m, v) \in Nat /\ nrespages(m, v) > 0
             /\ nrespages(n, v) = nrespages(m, v) - 1
<1> DEFINE n == Uncached(m, f)
           list == list_remove(m.alloc_list, f)
           pages == list_remove(m.respages[v], f)
<1>1. m \in Mem /\ m.respages \in [Vnode -> Seq(Frame)] /\ m.respages[v] \in Seq(Frame) /\ v # NULL
  BY DEF MemInv, Mem, Distinct
<1>2. n \in Mem
  BY <1>1, UncachedKeeps DEF MemInv
<1>3. n = [m EXCEPT !.alloc_list = list, !.obj[f] = NULL, !.page[f] = NULL, !.dirty[f] = FALSE,
                    !.respages[v] = pages]
  BY DEF Uncached
<1>4. IsInjective(m.respages[v]) /\ f \in Range(m.respages[v])
  BY DEF MemInv, ListsAgree
<1>5. Len(m.respages[v]) \in Nat /\ Len(m.respages[v]) > 0 /\ Len(pages) = Len(m.respages[v]) - 1
  BY <1>1, <1>4, ListShorter
<1> HIDE DEF list, pages, n
<1>6. /\ n.ino = m.ino /\ n.ref = m.ref /\ n.busy = m.busy /\ n.panic = m.panic
      /\ n.respages = [m.respages EXCEPT ![v] = pages]
  BY <1>1, <1>3, Zenon DEF Mem
<1>7. n.respages[v] = pages /\ \A u \in Vnode : u # v => n.respages[u] = m.respages[u]
  BY <1>1, <1>6
<1> QED  BY <1>2, <1>5, <1>6, <1>7 DEF OtherVnodes, nrespages, n

\* An assertion fails while thread t uncaches the pages of a file.
LEMMA RefPanics ==
  ASSUME IInv, RInv, NEW t \in Thread, run.loc[t].at = "uncache", mem' = Panic(mem),
         UNCHANGED <<run, held, linked>>
  PROVE  RInv'
<1>1. mem'.ino = mem.ino /\ mem'.ref = mem.ref /\ mem'.busy = mem.busy /\ mem'.respages = mem.respages
  <2>1. mem \in Mem
    BY DEF IInv, MemInv
  <2> QED  BY <2>1, Zenon DEF Panic, Mem
<1>2. \A v \in Vnode : VnodeOK(mem', held', linked', v)
  BY <1>1 DEF RInv, VnodeOK, nrespages
<1>3. \A u \in Thread : PlaceOK(u, run'.loc[u], mem', held', linked')
  <2>1. \A u \in Thread : PlaceOK(u, run.loc[u], mem, held, linked)
    BY DEF RInv
  <2>2. run' = run /\ held' = held /\ linked' = linked
    OBVIOUS
  <2> QED  BY <1>1, <2>1, <2>2 DEF PlaceOK
<1>4. OneOwner' /\ PanicsOnlyInUncache'
  BY DEF RInv, OneOwner, PanicsOnlyInUncache
<1> QED  BY <1>2, <1>3, <1>4 DEF RInv

\* One turn of the loop in vput.
LEMMA RefUncache ==
  ASSUME Distinct, IsFiniteSet(User), IInv, RInv, NEW t \in Thread, UncachePages(t)
  PROVE  RInv'
<1> DEFINE l == run.loc[t]
           m == Uncached(mem, l.f)
           freed == [m EXCEPT !.ref[l.v] = @ - 1]
           k == IF l.next \in Range(freed.respages[l.v]) \cup {NULL}
                THEN Uncache(l.v, l.next, freed)
                ELSE [At("uncache") EXCEPT !.v = l.v, !.f = l.next]
<1>1. l.at = "uncache" /\ ~mem.panic /\ linked' = linked
  BY Zenon DEF UncachePages, Executes
<1>2. /\ l.v \in Vnode /\ l.f \in Frame \cup {NULL} /\ MemInv(mem) /\ PlaceOK(t, l, mem, held, linked)
      /\ t \in User /\ held[t] = l.v
  BY <1>1, Zenon DEF IInv, LocOK, Location, RInv, PlaceOK
<1>3. /\ Holds(held, l.v) \in Nat /\ Holds(held, l.v) > 0 /\ nrespages(mem, l.v) \in Nat
      /\ mem.ref[l.v] = nrespages(mem, l.v) + Holds(held, l.v) /\ ~mem.busy[l.v] /\ mem.ino[l.v] # NULL
  BY <1>2, HeldVnode
<1>4. CASE mem.ref[l.v] = 1 /\ DropReference(t, mem, l.v)
  BY <1>1, <1>2, <1>4, RefUserDrops
<1>5. CASE mem' = Panic(mem) /\ UNCHANGED <<run, held>>
  BY <1>1, <1>5, RefPanics
<1>6. ASSUME mem' = Sleep(mem, t, l.f), Leave(t, l), UNCHANGED held
      PROVE  RInv'
  <2>1. Quiet(mem, mem') /\ GoesTo(t, l) /\ ~Owns(l)
    BY <1>1, <1>2, <1>6, QuietOps DEF MemInv, GoesTo, Owns
  <2> HIDE DEF l
  <2> QED  BY <1>1, <1>2, <1>6, <2>1, RefAside
<1>7. ASSUME l.f # NULL, mem.obj[l.f] = l.v, ~mem.pbusy[l.f], mem' = freed \/ mem' = Panic(mem),
             Stay(t, k), UNCHANGED held
      PROVE  RInv'
  <2> DEFINE v == l.v
  <2>1. k.at = "uncache" /\ k.v = v
    BY DEF Uncache, At
  <2>2. GoesTo(t, k) /\ OthersHold(t) /\ ~Owns(k)
    BY <1>7, <2>1, HeldAlone, Zenon DEF GoesTo, Owns
  <2> HIDE DEF k
  <2>3. /\ m \in Mem /\ m.ino = mem.ino /\ m.ref = mem.ref /\ m.busy = mem.busy /\ m.panic = mem.panic
        /\ OtherVnodes(mem, m, v) /\ nrespages(mem, v) > 0 /\ nrespages(m, v) = nrespages(mem, v) - 1
    BY <1>2, <1>7, UncachedVnodes
  <2> HIDE DEF m
  <2>4. /\ freed.ino = mem.ino /\ freed.busy = mem.busy /\ freed.respages = m.respages
        /\ freed.ref = [mem.ref EXCEPT ![v] = @ - 1]
    BY <2>3, Zenon DEF Mem
  <2>5. mem.ref \in [Vnode -> Int] /\ mem \in Mem
    BY <1>2 DEF MemInv, Mem
  <2> HIDE DEF freed
  <2>6. /\ OtherVnodes(mem, freed, v) /\ freed.ref[v] = mem.ref[v] - 1
        /\ nrespages(freed, v) = nrespages(mem, v) - 1
    BY <1>2, <2>3, <2>4, <2>5, Zenon DEF OtherVnodes, nrespages
  <2>7. /\ Panic(mem).ino = mem.ino /\ Panic(mem).busy = mem.busy /\ Panic(mem).ref = mem.ref
        /\ Panic(mem).respages = mem.respages
    BY <2>5, Zenon DEF Panic, Mem
  <2>8. mem'.ino = mem.ino /\ mem'.busy = mem.busy
    BY <1>7, <2>4, <2>7
  <2>9. \A u \in Vnode : VnodeOK(mem', held', linked', u)
    <3>1. \A u \in Vnode : VnodeOK(mem, held, linked, u)
      BY DEF RInv
    <3>2. CASE mem' = freed
      <4>1. ASSUME NEW u \in Vnode, u # v
            PROVE  VnodeOK(mem', held', linked', u)
        BY <1>1, <1>7, <2>6, <3>1, <3>2, <4>1, Zenon DEF VnodeOK, OtherVnodes, nrespages
      <4>2. VnodeOK(mem', held', linked', v)
        <5>1. /\ mem'.ref[v] = nrespages(mem', v) + Holds(held', v) /\ Holds(held', v) > 0
              /\ mem'.ref[v] > 0 /\ ~mem'.busy[v] /\ mem'.ino[v] # NULL
          <6>1. mem'.ref[v] = mem.ref[v] - 1 /\ nrespages(mem', v) = nrespages(mem, v) - 1 /\ held' = held
            BY <1>7, <2>6, <3>2
          <6>2. mem'.ino[v] = mem.ino[v] /\ mem'.busy[v] = mem.busy[v] /\ nrespages(mem, v) > 0
            BY <2>3, <2>8
          <6> DEFINE h == Holds(held, v)
                     w == nrespages(mem, v)
                     c == mem.ref[v]
          <6>3. h \in Nat /\ h > 0 /\ w \in Nat /\ w > 0 /\ c = w + h
            BY <1>3, <6>2, Zenon
          <6>4. mem'.ref[v] = c - 1 /\ nrespages(mem', v) = w - 1 /\ Holds(held', v) = h
            BY <6>1, Zenon
          <6> HIDE DEF h, w, c
          <6>5. c - 1 = (w - 1) + h /\ c - 1 > 0
            BY <6>3
          <6> QED  BY <1>3, <6>2, <6>3, <6>4, <6>5, Zenon
        <5> QED  BY <5>1, Zenon DEF VnodeOK, Counted
      <4> QED  BY <4>1, <4>2
    <3>3. CASE mem' = Panic(mem)
      BY <1>1, <1>7, <2>7, <3>1, <3>3 DEF VnodeOK, nrespages
    <3> QED  BY <1>7, <3>2, <3>3
  <2>10. PlaceOK(t, k, mem', held', linked')
    BY <1>1, <1>2, <1>7, <2>1, <2>8 DEF PlaceOK, Owns
  <2>11. OthersStay(t, k)
    BY <1>1, <2>2, <2>8, Zenon DEF OthersStay, RInv, PlaceOK
  <2>12. linked' \subseteq Ino
    BY <1>1 DEF RInv
  <2> QED  BY <2>1, <2>2, <2>9, <2>10, <2>11, <2>12, RefStep
<1>8. \/ mem.ref[l.v] = 1 /\ DropReference(t, mem, l.v)
      \/ mem' = Panic(mem) /\ UNCHANGED <<run, held>>
      \/ mem' = Sleep(mem, t, l.f) /\ Leave(t, l) /\ UNCHANGED held
      \/ /\ l.f # NULL /\ mem.obj[l.f] = l.v /\ ~mem.pbusy[l.f]
         /\ mem' = freed \/ mem' = Panic(mem)
         /\ Stay(t, k) /\ UNCHANGED held
  BY Zenon DEF UncachePages
<1> QED  BY <1>4, <1>5, <1>6, <1>7, <1>8, Zenon

\* pframe_alloc gives a page and a reference to the vnode of the caller.
LEMMA AllocVnodes ==
  ASSUME NEW m \in Mem, NEW f \in Frame, NEW v \in Vnode, NEW p \in Page
  PROVE  LET n == set_busy(pframe_alloc(m, f, v, p), f)
         IN  /\ n.ino = m.ino /\ n.busy = m.busy /\ n.panic = m.panic /\ OtherVnodes(m, n, v)
             /\ n.ref[v] = m.ref[v] + 1 /\ nrespages(m, v) \in Nat /\ nrespages(n, v) = nrespages(m, v) + 1
<1> DEFINE n == set_busy(pframe_alloc(m, f, v, p), f)
           pages == <<f>> \o m.respages[v]
<1>1. /\ m.respages \in [Vnode -> Seq(Frame)] /\ m.respages[v] \in Seq(Frame) /\ <<f>> \in Seq(Frame)
      /\ m.ref \in [Vnode -> Int]
  BY DEF Mem
<1>2. Len(pages) = Len(m.respages[v]) + 1 /\ Len(m.respages[v]) \in Nat
  BY <1>1
<1>3. n = [[m EXCEPT !.alloc_list = Append(@, f),
                     !.obj[f] = v, !.page[f] = p, !.pbusy[f] = FALSE, !.dirty[f] = FALSE,
                     !.respages[v] = pages, !.ref[v] = @ + 1] EXCEPT !.pbusy[f] = TRUE]
  BY DEF set_busy, pframe_alloc
<1> HIDE DEF n, pages
<1>4. /\ n.ino = m.ino /\ n.busy = m.busy /\ n.panic = m.panic
      /\ n.respages = [m.respages EXCEPT ![v] = pages] /\ n.ref = [m.ref EXCEPT ![v] = @ + 1]
  BY <1>3, Zenon DEF Mem
<1>5. /\ n.respages[v] = pages /\ n.ref[v] = m.ref[v] + 1
      /\ \A u \in Vnode : u # v => n.respages[u] = m.respages[u] /\ n.ref[u] = m.ref[u]
  BY <1>1, <1>4
<1> QED  BY <1>2, <1>4, <1>5 DEF OtherVnodes, nrespages, n

\* pframe_get of a page of the file a user holds.
LEMMA RefGet ==
  ASSUME Distinct, IsFiniteSet(User), IInv, RInv, NEW t \in User, NEW p \in Page, NEW w \in BOOLEAN,
         held[t] \in Vnode, Get(t, p, w), ~mem.panic, UNCHANGED <<held, linked>>
  PROVE  RInv'
<1> DEFINE v == held[t]
           again == [At("get") EXCEPT !.page = p, !.forwrite = w]
           on(where, f) == [At(where) EXCEPT !.f = f, !.forwrite = w]
<1>1. t \in Thread /\ mem \in Mem
  BY DEF Thread, IInv, MemInv
<1>2. Plain(again) /\ Plain(At("user")) /\ \A f : Plain(on("fill", f)) /\ Plain(on("dirty", f))
  BY PlainPlaces, Zenon
<1>3. ASSUME NEW l, Plain(l), GoesTo(t, l), Quiet(mem, mem')
      PROVE  RInv'
  BY <1>1, <1>3, PlainOK, RefAside
<1>4. ASSUME NEW f \in Frame, mem' = set_busy(pframe_alloc(mem, f, v, p), f), Leave(t, on("fill", f))
      PROVE  RInv'
  <2> DEFINE l == on("fill", f)
  <2>1. GoesTo(t, l) /\ OthersHold(t) /\ ~Owns(l) /\ PlaceOK(t, l, mem', held', linked)
    BY <1>2, <1>4, PlainOK, HeldAlone, Zenon DEF GoesTo
  <2> HIDE DEF l
  <2>2. /\ mem'.ino = mem.ino /\ mem'.busy = mem.busy /\ mem'.panic = mem.panic /\ OtherVnodes(mem, mem', v)
        /\ mem'.ref[v] = mem.ref[v] + 1 /\ nrespages(mem', v) = nrespages(mem, v) + 1
    BY <1>1, <1>4, AllocVnodes
  <2>3. /\ Holds(held, v) \in Nat /\ Holds(held, v) > 0 /\ nrespages(mem, v) \in Nat
        /\ mem.ref[v] = nrespages(mem, v) + Holds(held, v) /\ ~mem.busy[v] /\ mem.ino[v] # NULL
    BY HeldVnode
  <2> HIDE DEF v
  <2>4. VnodeOK(mem', held', linked, v)
    BY <2>2, <2>3 DEF VnodeOK, Counted
  <2>5. OthersStay(t, l)
    BY <1>1, <2>1, <2>2, OthersStayOn DEF v
  <2>6. v \in Vnode /\ \A u \in Vnode : u # v => Holds(held', u) = Holds(held, u)
    BY DEF v
  <2> QED  BY <1>1, <2>1, <2>2, <2>4, <2>5, <2>6, RefOn
<1>5. \/ \E f : mem' = Sleep(pframe_get_resident(mem, f), t, f) /\ Leave(t, again)
      \/ \E f : mem' = pframe_get_resident(mem, f) /\ Leave(t, At("user"))
      \/ \E f : mem' = set_busy(pframe_get_resident(mem, f), f) /\ Leave(t, on("dirty", f))
      \/ mem' = Sleep(Broadcast(mem, pageoutd_waitq), t, alloc_waitq) /\ Leave(t, again)
      \/ \E f \in Frame : mem' = set_busy(pframe_alloc(mem, f, v, p), f) /\ Leave(t, on("fill", f))
  BY Zenon DEF Get
<1>6. \A l : Leave(t, l) => GoesTo(t, l)
  BY DEF GoesTo
<1> HIDE DEF again, on, v
<1>7. CASE \E f : mem' = Sleep(pframe_get_resident(mem, f), t, f) /\ Leave(t, again)
  BY <1>1, <1>2, <1>3, <1>6, <1>7, QuietOps
<1>8. CASE \E f : mem' = pframe_get_resident(mem, f) /\ Leave(t, At("user"))
  BY <1>1, <1>2, <1>3, <1>6, <1>8, QuietOps
<1>9. CASE \E f : mem' = set_busy(pframe_get_resident(mem, f), f) /\ Leave(t, on("dirty", f))
  BY <1>1, <1>2, <1>3, <1>6, <1>9, QuietOps
<1>10. CASE mem' = Sleep(Broadcast(mem, pageoutd_waitq), t, alloc_waitq) /\ Leave(t, again)
  BY <1>1, <1>2, <1>3, <1>6, <1>10, QuietOps
<1> QED  BY <1>4, <1>5, <1>7, <1>8, <1>9, <1>10

\* The page-out daemon frees page f: the assertions of vput hold, and the pages
\* of an unlinked file are left to the thread that holds it.
LEMMA RefPageFreed ==
  ASSUME Distinct, IsFiniteSet(User), IInv, RInv, NEW f \in Frame, mem.obj[f] # NULL, ~mem.pbusy[f],
         vput(Pageoutd, Uncached(mem, f), mem.obj[f]), ~mem.panic, linked' = linked
  PROVE  RInv'
<1> DEFINE m == Uncached(mem, f)
           v == mem.obj[f]
<1>1. Pageoutd \in Thread /\ Pageoutd \notin User /\ MemInv(mem) /\ v \in Vnode /\ vput(Pageoutd, m, v)
  BY Zenon DEF Thread, Distinct, IInv, MemInv, Mem
<1>2. /\ m \in Mem /\ m.ino = mem.ino /\ m.ref = mem.ref /\ m.busy = mem.busy /\ m.panic = mem.panic
      /\ OtherVnodes(mem, m, v) /\ nrespages(mem, v) \in Nat /\ nrespages(mem, v) > 0
      /\ nrespages(m, v) = nrespages(mem, v) - 1
  BY <1>1, UncachedVnodes
<1>3. VnodeOK(mem, held, linked, v) /\ Holds(held, v) \in Nat
  BY <1>1, HoldsCounts DEF RInv
<1> HIDE DEF m, v
<1>4. /\ mem.ref[v] = nrespages(mem, v) + Holds(held, v) /\ ~mem.busy[v] /\ mem.ino[v] # NULL
      /\ mem.ino[v] \in linked \/ Holds(held, v) > 0
  BY <1>2, <1>3 DEF VnodeOK, Counted
<1>5. VputAsserts(m, v)
  BY <1>2, <1>3, <1>4 DEF VputAsserts
<1>6. ~(nrespages(m, v) = m.ref[v] - 1 /\ m.ino[v] \notin linked)
  BY <1>2, <1>3, <1>4
<1>7. DropReference(Pageoutd, m, v)
  BY <1>1, <1>5, <1>6, Zenon DEF vput
<1>8. held' = held
  BY <1>1, <1>7 DEF DropReference, IInv
<1>9. m.ref[v] = nrespages(m, v) + Holds(held', v) + 1
  BY <1>2, <1>3, <1>4, <1>8
<1>10. mem.ino[v] \in linked \/ Holds(held', v) > 0
  BY <1>4, <1>8
<1> QED  BY <1>1, <1>2, <1>4, <1>7, <1>8, <1>9, <1>10, RefDrop

\* A turn of pageoutd_run.
LEMMA RefPageoutd ==
  ASSUME Distinct, IsFiniteSet(User), IInv, RInv, pageoutd_run
  PROVE  RInv'
<1>1. Pageoutd \in Thread /\ mem \in Mem /\ ~mem.panic /\ linked' = linked
  BY DEF Thread, IInv, MemInv, pageoutd_run, Executes
<1>2. \A l : Leave(Pageoutd, l) => GoesTo(Pageoutd, l)
  BY DEF GoesTo
<1>3. ASSUME NEW l, Plain(l), GoesTo(Pageoutd, l), Quiet(mem, mem'), UNCHANGED held
      PROVE  RInv'
  BY <1>1, <1>3, PlainOK, RefAside
<1>4. CASE PageoutSleeps /\ UNCHANGED held
  BY <1>1, <1>2, <1>3, <1>4, PlainPlaces, QuietOps, Zenon DEF PageoutSleeps
<1>5. CASE mem.alloc_list # <<>> /\ PageoutPage(Head(mem.alloc_list))
  <2> DEFINE f == Head(mem.alloc_list)
  <2>1. f \in Frame /\ mem.obj[f] # NULL
    <3>1. mem.alloc_list \in Seq(Frame) /\ Range(mem.alloc_list) = {g \in Frame : mem.obj[g] # NULL}
      BY DEF IInv, MemInv, Mem, ListsAgree
    <3>2. 1 \in DOMAIN mem.alloc_list /\ f = mem.alloc_list[1]
      BY <1>5, <3>1
    <3> QED  BY <3>1, <3>2 DEF Range
  <2>2. PageoutPage(f)
    BY <1>5
  <2> HIDE DEF f
  <2>3. CASE mem' = Sleep(mem, Pageoutd, f) /\ Leave(Pageoutd, At("pageoutd")) /\ UNCHANGED held
    BY <1>1, <1>2, <1>3, <2>3, PlainPlaces, QuietOps, Zenon
  <2>4. CASE mem' = CleanStarts(mem, f) /\ Leave(Pageoutd, [At("clean") EXCEPT !.f = f]) /\ UNCHANGED held
    BY <1>1, <1>2, <1>3, <2>4, PlainPlaces, QuietOps, Zenon
  <2>5. CASE ~mem.pbusy[f] /\ vput(Pageoutd, Uncached(mem, f), mem.obj[f])
    BY <1>1, <2>1, <2>5, RefPageFreed
  <2> QED  BY <2>2, <2>3, <2>4, <2>5 DEF PageoutPage
<1> QED  BY <1>4, <1>5 DEF pageoutd_run

\* A file loses its last link while somebody has it open.
LEMMA RefUnlink ==
  ASSUME Distinct, IsFiniteSet(User), IInv, RInv, NEW t \in User, Unlink(t)
  PROVE  RInv'
<1> DEFINE v == held[t]
<1>1. /\ v \in Vnode /\ held[t] = v /\ UNCHANGED <<mem, held, run>> /\ linked' = linked \ {mem.ino[v]}
      /\ \A u \in Vnode : mem.ino[u] # NULL /\ mem.ino[u] = mem.ino[v] => u = v
  BY DEF Unlink, IInv, MemInv, CachedOnce
<1>2. Holds(held, v) > 0
  BY <1>1, HeldVnode
<1> HIDE DEF v
<1>3. ASSUME NEW u \in Vnode
      PROVE  VnodeOK(mem', held', linked', u)
  <2>1. VnodeOK(mem, held, linked, u)
    BY DEF RInv
  <2>2. mem.ino[u] # NULL /\ mem.ino[u] \notin linked' => mem.ino[u] \notin linked \/ u = v
    BY <1>1
  <2> QED  BY <1>1, <1>2, <2>1, <2>2 DEF VnodeOK, Counted
<1>4. ASSUME NEW u \in Thread
      PROVE  PlaceOK(u, run'.loc[u], mem', held', linked')
  BY <1>1 DEF RInv, PlaceOK
<1>5. OneOwner' /\ PanicsOnlyInUncache' /\ linked' \subseteq Ino
  BY <1>1 DEF RInv, OneOwner, PanicsOnlyInUncache
<1> QED  BY <1>3, <1>4, <1>5 DEF RInv

\* An inode that nobody uses gets a link.
LEMMA RefCreate ==
  ASSUME IInv, RInv, NEW i \in Ino, Create(i)
  PROVE  RInv'
<1>1. UNCHANGED <<mem, held, run>> /\ linked' = linked \cup {i} /\ i \notin Range(mem.ino)
  BY DEF Create
<1>2. \A u \in Vnode : mem.ino[u] # i
  BY <1>1 DEF IInv, MemInv, Mem, Range
<1>3. \A u \in Vnode : VnodeOK(mem', held', linked', u)
  BY <1>1, Zenon DEF RInv, VnodeOK, Counted
<1>4. ASSUME NEW u \in Thread
      PROVE  PlaceOK(u, run'.loc[u], mem', held', linked')
  <2>1. run.loc[u].at = "uncache" => run.loc[u].v \in Vnode
    BY DEF IInv, LocOK
  <2> QED  BY <1>1, <1>2, <2>1 DEF RInv, PlaceOK
<1>5. OneOwner' /\ PanicsOnlyInUncache' /\ linked' \subseteq Ino
  BY <1>1 DEF RInv, OneOwner, PanicsOnlyInUncache
<1> QED  BY <1>3, <1>4, <1>5 DEF RInv

\* No vnode is in use at first.
LEMMA RefInit ==
  ASSUME Distinct, IsFiniteSet(User), CacheInit
  PROVE  RInv
<1>1. /\ \A v \in Vnode : mem.ino[v] = NULL /\ mem.ref[v] = 0 /\ ~mem.busy[v] /\ mem.respages[v] = <<>>
      /\ ~mem.panic /\ linked \subseteq Ino /\ \A t \in User : held[t] = NULL
  BY DEF CacheInit
<1>2. \A v \in Vnode : Holds(held, v) = 0
  BY <1>1, HoldsCounts DEF Distinct
<1>3. \A v \in Vnode : VnodeOK(mem, held, linked, v)
  BY <1>1, <1>2 DEF VnodeOK, Counted, nrespages
<1>4. \A t \in Thread : Plain(run.loc[t])
  BY PlainPlaces, Zenon DEF CacheInit
<1>5. \A t \in Thread : PlaceOK(t, run.loc[t], mem, held, linked) /\ ~Owns(run.loc[t])
  BY <1>4, PlainOK
<1> QED  BY <1>1, <1>3, <1>5 DEF RInv, OneOwner, PanicsOnlyInUncache

\* Every step of every thread keeps the counts.
LEMMA RefNext ==
  ASSUME Distinct, IsFiniteSet(User), IInv, RInv, [CacheNext]_cachevars
  PROVE  RInv'
<1>1. ASSUME NEW t \in User, NEW i \in Ino, vget(t, i)
      PROVE  RInv'
  BY <1>1, RefFind DEF vget, Executes
<1>2. ASSUME NEW t \in User, VgetAgain(t)
      PROVE  RInv'
  <2>1. t \in Thread /\ run.loc[t].at = "find" /\ Find(t, run.loc[t].ino) /\ ~mem.panic /\ linked' = linked
    BY <1>2 DEF VgetAgain, Executes, Thread
  <2>2. run.loc[t].ino \in Ino /\ held[t] = NULL
    BY <2>1, Zenon DEF IInv, LocOK, RInv, PlaceOK
  <2> QED  BY <2>1, <2>2, RefFind
<1>3. ASSUME NEW t \in User, VgetEnds(t) \/ Release(t)
      PROVE  RInv'
  BY <1>3, RefVgetEnds, RefRelease
<1>4. ASSUME NEW t \in User, NEW p \in Page, NEW w \in BOOLEAN, pframe_get(t, p, w)
      PROVE  RInv'
  <2>1. held[t] \in Vnode /\ Get(t, p, w) /\ ~mem.panic /\ UNCHANGED <<held, linked>>
    BY <1>4 DEF pframe_get, Executes, IInv
  <2> QED  BY <2>1, RefGet
<1>5. ASSUME NEW t \in User, GetAgain(t)
      PROVE  RInv'
  <2>1. /\ t \in Thread /\ run.loc[t].at = "get" /\ ~mem.panic /\ UNCHANGED <<held, linked>>
        /\ Get(t, run.loc[t].page, run.loc[t].forwrite)
    BY <1>5 DEF GetAgain, Executes, Thread
  <2>2. held[t] \in Vnode /\ run.loc[t].page \in Page /\ run.loc[t].forwrite \in BOOLEAN
    BY <2>1 DEF IInv, LocOK, Location
  <2> QED  BY <2>1, <2>2, RefGet
<1>6. ASSUME NEW t \in Thread,
             (t \in User /\ (pframe_fill(t) \/ pframe_dirty(t) \/ pframe_clean_all(t) \/ CleanAllAgain(t)))
             \/ pframe_clean(t)
      PROVE  RInv'
  BY <1>6, RefPages
<1>7. ASSUME NEW t \in User, Unlink(t)
      PROVE  RInv'
  BY <1>7, RefUnlink
<1>8. ASSUME NEW t \in Thread, UncachePages(t) \/ VputEnds(t)
      PROVE  RInv'
  BY <1>8, RefUncache, RefVputEnds
<1>9. CASE pageoutd_run
  BY <1>9, RefPageoutd
<1>10. ASSUME NEW i \in Ino, Create(i)
       PROVE  RInv'
  BY <1>10, RefCreate
<1>11. CASE UNCHANGED cachevars
  BY <1>11, Zenon DEF cachevars, RInv, VnodeOK, PlaceOK, OneOwner, PanicsOnlyInUncache
<1>12. User \subseteq Thread
  BY DEF Thread
<1> QED  BY <1>1, <1>2, <1>3, <1>4, <1>5, <1>6, <1>7, <1>8, <1>9, <1>10, <1>11, <1>12 DEF CacheNext

-----------------------------------------------------------------------------
\* The counts hold in every reachable state.
LEMMA RefInvariance ==
  ASSUME Distinct, IsFiniteSet(User)
  PROVE  CacheSpec => [](IInv /\ RInv)
<1>1. CacheInit => RInv
  BY RefInit
<1>2. IInv /\ RInv /\ [CacheNext]_cachevars => RInv'
  BY RefNext
<1> QED  BY <1>1, <1>2, Invariance, PTL DEF CacheSpec

\* vn_refcount is exact: a vnode has one reference for every user that holds it
\* and one for every resident page, its list holds the frames that belong to
\* it, a file has one vnode and a page one frame and one thread at work on it,
\* however vget, vput, the page-out daemon and unlinking interleave.
THEOREM CountsExact ==
  ASSUME Distinct, IsFiniteSet(User)
  PROVE  CacheSpec => []CacheExact
<1>1. IInv /\ RInv => CacheExact
  <2> SUFFICES ASSUME IInv, RInv PROVE CacheExact
    OBVIOUS
  <2>1. OneCopy /\ OneWorker
    BY DEF IInv, MemInv, CachedOnce, OneCopy
  <2>2. ASSUME NEW v \in Vnode
        PROVE  /\ mem.ref[v] = nrespages(mem, v) + Cardinality({t \in User : held[t] = v})
               /\ mem.ino[v] = NULL => mem.ref[v] = 0
               /\ Range(mem.respages[v]) = {f \in Frame : mem.obj[f] = v}
    <3>1. VnodeOK(mem, held, linked, v)
      BY DEF RInv
    <3>2. Range(mem.respages[v]) = {f \in Frame : mem.obj[f] = v}
      BY DEF IInv, MemInv, ListsAgree
    <3> QED  BY <3>1, <3>2 DEF VnodeOK, Counted, Holds
  <2> QED  BY <2>1, <2>2 DEF CacheExact, RefsCounted
<1> QED  BY <1>1, RefInvariance, PTL

\* The assertions of vget, vput and pframe_free on the counts hold, except in
\* the loop of vput that sleeps while it takes away the pages of an unlinked
\* file.
THEOREM AssertionsHold ==
  ASSUME Distinct, IsFiniteSet(User)
  PROVE  CacheSpec => []PanicsOnlyInUncache
<1>1. RInv => PanicsOnlyInUncache
  BY DEF RInv
<1> QED  BY <1>1, RefInvariance, PTL

\* pframe_clean, pframe_free and the page-out daemon lose no write: what the
\* disk does not have is in a resident page that is dirty or being written, until
\* the file is gone.
THEOREM WritesNotLost ==
  ASSUME Distinct, IsFiniteSet(User)
  PROVE  CacheSpec => []NoLostWrite
<1>1. CacheInit => WInv
  BY DEF CacheInit, WInv, SafeFrame, SafePlace, At
<1>2. RInv => UncachesUnlinked
  BY Zenon DEF RInv, PlaceOK, UncachesUnlinked
<1>3. IInv /\ RInv /\ WInv /\ [CacheNext]_cachevars => WInv'
  BY <1>2, SaveNext
<1>4. WInv => NoLostWrite
  BY DEF WInv, SafeFrame, NoLostWrite
<1> QED  BY <1>1, <1>3, <1>4, RefInvariance, PTL DEF CacheSpec
=============================================================================
