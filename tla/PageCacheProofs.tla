-------------------------- MODULE PageCacheProofs --------------------------
(***************************************************************************)
(* Properties of PageCache for any number of users, vnodes, page frames,   *)
(* files and pages.                                                        *)
(***************************************************************************)
EXTENDS PageCache, TLAPS

\* The objects threads sleep on differ, and the daemon is no user.
Distinct ==
  /\ Pageoutd \notin User
  /\ NULL \notin Vnode \cup Frame \cup Ino
  /\ Frame \cap Vnode = {}
  /\ pageoutd_waitq \notin Frame \cup Vnode \cup {alloc_waitq, NULL}
  /\ alloc_waitq \notin Frame \cup Vnode \cup {NULL}

-----------------------------------------------------------------------------
\* Lists without repetition, as mmo_respages and alloc_list are.

\* list_insert_tail of a page that is not in the list.
LEMMA ListAppended ==
  ASSUME NEW S, NEW s \in Seq(S), NEW e \in S, IsInjective(s), e \notin Range(s)
  PROVE  /\ Append(s, e) \in Seq(S) /\ IsInjective(Append(s, e))
         /\ Range(Append(s, e)) = Range(s) \cup {e}
<1> DEFINE r == Append(s, e)
<1>1. /\ r \in Seq(S) /\ Len(r) = Len(s) + 1 /\ Len(s) \in Nat
      /\ \A i \in 1 .. Len(s) : r[i] = s[i]
      /\ r[Len(s) + 1] = e
  OBVIOUS
<1>2. DOMAIN s = 1 .. Len(s) /\ DOMAIN r = 1 .. Len(s) + 1
  BY <1>1
<1> HIDE DEF r
<1> QED  BY <1>1, <1>2 DEF IsInjective, Range, r

\* list_insert_head.
LEMMA ListPushed ==
  ASSUME NEW S, NEW s \in Seq(S), NEW e \in S, IsInjective(s), e \notin Range(s)
  PROVE  /\ <<e>> \o s \in Seq(S) /\ IsInjective(<<e>> \o s)
         /\ Range(<<e>> \o s) = Range(s) \cup {e}
<1> DEFINE r == <<e>> \o s
<1>1. <<e>> \in Seq(S) /\ Len(<<e>>) = 1 /\ <<e>>[1] = e /\ Len(s) \in Nat
  OBVIOUS
<1>2. /\ r \in Seq(S) /\ Len(r) = Len(s) + 1
      /\ r[1] = e /\ \A i \in 1 .. Len(s) : r[i + 1] = s[i]
  BY <1>1
<1>3. DOMAIN s = 1 .. Len(s) /\ DOMAIN r = 1 .. Len(s) + 1
  BY <1>2
<1> HIDE DEF r
<1>4. \A i \in DOMAIN r : i # 1 => i - 1 \in DOMAIN s /\ r[i] = s[i - 1]
  BY <1>1, <1>2, <1>3
<1>5. IsInjective(r)
  <2> SUFFICES ASSUME NEW a \in DOMAIN r, NEW b \in DOMAIN r, r[a] = r[b]
               PROVE  a = b
    BY DEF IsInjective
  <2>1. CASE a = 1 /\ b # 1
    BY <1>2, <1>4, <2>1 DEF Range
  <2>2. CASE a # 1 /\ b = 1
    BY <1>2, <1>4, <2>2 DEF Range
  <2>3. CASE a # 1 /\ b # 1
    <3>1. a - 1 = b - 1
      BY <1>4, <2>3 DEF IsInjective
    <3> QED  BY <1>1, <1>3, <3>1
  <2> QED  BY <2>1, <2>2, <2>3
<1>6. Range(r) = Range(s) \cup {e}
  <2>1. \A i \in DOMAIN s : i + 1 \in DOMAIN r /\ r[i + 1] = s[i]
    BY <1>1, <1>2, <1>3
  <2>2. 1 \in DOMAIN r
    BY <1>1, <1>3
  <2>3. \A x \in Range(r) : x \in Range(s) \cup {e}
    BY <1>2, <1>4 DEF Range
  <2>4. \A x \in Range(s) : x \in Range(r)
    BY <2>1 DEF Range
  <2>5. e \in Range(r)
    BY <1>2, <2>2 DEF Range
  <2> QED  BY <2>3, <2>4, <2>5
<1> QED  BY <1>2, <1>5, <1>6 DEF r

\* list_remove of a page that is in the list.
LEMMA ListRemoved ==
  ASSUME NEW S, NEW s \in Seq(S), IsInjective(s), NEW e \in Range(s)
  PROVE  /\ list_remove(s, e) \in Seq(S) /\ IsInjective(list_remove(s, e))
         /\ Range(list_remove(s, e)) = Range(s) \ {e}
<1> DEFINE k == CHOOSE j \in DOMAIN s : s[j] = e
           r == [j \in 1 .. Len(s) - 1 |-> IF j < k THEN s[j] ELSE s[j + 1]]
<1>1. k \in DOMAIN s /\ s[k] = e
  BY DEF Range
<1>2. DOMAIN s = 1 .. Len(s) /\ Len(s) \in Nat /\ \A i \in DOMAIN s : s[i] \in S
  OBVIOUS
<1>3. list_remove(s, e) = r
  BY DEF list_remove
<1> HIDE DEF k
<1>4. Len(s) - 1 \in Nat
  BY <1>1, <1>2
<1>5. \A j \in 1 .. Len(s) - 1 : j \in DOMAIN s /\ j + 1 \in DOMAIN s
  BY <1>2, <1>4
<1>6. r \in [1 .. Len(s) - 1 -> S]
  BY <1>2, <1>5
<1>7. r \in Seq(S)
  BY <1>4, <1>6
<1>8. DOMAIN r = 1 .. Len(s) - 1
      /\ \A j \in DOMAIN r : r[j] = IF j < k THEN s[j] ELSE s[j + 1]
  OBVIOUS
<1> HIDE DEF r
<1>9. IsInjective(r)
  <2> SUFFICES ASSUME NEW a \in DOMAIN r, NEW b \in DOMAIN r, r[a] = r[b]
               PROVE  a = b
    BY DEF IsInjective
  <2> DEFINE p(j) == IF j < k THEN j ELSE j + 1
  <2>1. p(a) \in DOMAIN s /\ p(b) \in DOMAIN s /\ r[a] = s[p(a)] /\ r[b] = s[p(b)]
    BY <1>5, <1>8
  <2>2. p(a) = p(b)
    BY <2>1, Zenon DEF IsInjective
  <2> QED  BY <1>1, <1>2, <1>8, <2>2
<1>10. \A j \in DOMAIN r : r[j] \in Range(s) /\ r[j] # e
  <2> SUFFICES ASSUME NEW j \in DOMAIN r
               PROVE  r[j] \in Range(s) /\ r[j] # e
    OBVIOUS
  <2>1. j \in DOMAIN s /\ j + 1 \in DOMAIN s /\ j \in Nat
    BY <1>5, <1>8
  <2>2. CASE j < k
    BY <1>1, <1>2, <1>8, <2>1, <2>2 DEF Range, IsInjective
  <2>3. CASE ~(j < k)
    <3>1. j + 1 # k
      BY <1>1, <1>2, <2>1, <2>3
    <3> QED  BY <1>1, <1>8, <2>1, <2>3, <3>1 DEF Range, IsInjective
  <2> QED  BY <2>2, <2>3
<1>11. \A i \in DOMAIN s : i # k => \E j \in DOMAIN r : r[j] = s[i]
  <2> SUFFICES ASSUME NEW i \in DOMAIN s, i # k
               PROVE  \E j \in DOMAIN r : r[j] = s[i]
    OBVIOUS
  <2>1. CASE i < k
    <3>1. i \in DOMAIN r
      BY <1>1, <1>2, <1>8, <2>1
    <3> QED  BY <1>8, <2>1, <3>1
  <2>2. CASE ~(i < k)
    <3>1. i - 1 \in DOMAIN r /\ ~(i - 1 < k) /\ (i - 1) + 1 = i
      BY <1>1, <1>2, <1>8, <2>2
    <3> QED  BY <1>8, <3>1
  <2> QED  BY <2>1, <2>2
<1>12. Range(r) = Range(s) \ {e}
  BY <1>1, <1>10, <1>11 DEF Range
<1> QED  BY <1>3, <1>7, <1>9, <1>12

-----------------------------------------------------------------------------
\* What holds of the memory: the lists agree with the objects of the frames,
\* nobody sleeps where nobody will wake them, and nothing is cached twice.
ListsAgree(m) ==
  /\ IsInjective(m.alloc_list) /\ Range(m.alloc_list) = {f \in Frame : m.obj[f] # NULL}
  /\ \A v \in Vnode : IsInjective(m.respages[v]) /\ Range(m.respages[v]) = {f \in Frame : m.obj[f] = v}

SleepersServed(m) ==
  /\ \A t \in Thread : m.asleep[t] \in Frame => m.obj[m.asleep[t]] # NULL /\ m.pbusy[m.asleep[t]]
  /\ (\E t \in User : m.asleep[t] = alloc_waitq) => m.asleep[Pageoutd] # pageoutd_waitq

CachedOnce(m) ==
  /\ \A v, u \in Vnode : m.ino[v] # NULL /\ m.ino[v] = m.ino[u] => v = u
  /\ \A f, g \in Frame : m.obj[f] # NULL /\ m.obj[f] = m.obj[g] /\ m.page[f] = m.page[g] => f = g

MemInv(m) == m \in Mem /\ ListsAgree(m) /\ SleepersServed(m) /\ CachedOnce(m)

\* A frame in use and busy; memories with the same frames, but for frame f.
InWork(m, f) == m.obj[f] # NULL /\ m.pbusy[f]
SameFrames(m, n) == n.obj = m.obj /\ n.pbusy = m.pbusy
SameBut(m, n, f) == \A g \in Frame : g # f => n.obj[g] = m.obj[g] /\ n.pbusy[g] = m.pbusy[g]

\* How the two compose.
LEMMA SameFramesThen ==
  ASSUME NEW m, NEW n, NEW k, SameFrames(m, n)
  PROVE  /\ SameFrames(n, k) => SameFrames(m, k)
         /\ \A f : SameBut(n, k, f) => SameBut(m, k, f)
         /\ \A f : SameBut(m, n, f)
         /\ \A f : SameBut(k, m, f) => SameBut(k, n, f)
BY DEF SameFrames, SameBut

\* The fields MemInv depends on.
SameCache(m, n) ==
  /\ n.ino = m.ino /\ n.respages = m.respages /\ n.obj = m.obj /\ n.page = m.page
  /\ n.pbusy = m.pbusy /\ n.alloc_list = m.alloc_list /\ n.asleep = m.asleep

\* Reference counts, VN_BUSY, the dirty flags and a panic are no matter of it.
LEMMA SameCacheKeeps ==
  ASSUME NEW m, NEW n, MemInv(m), n \in Mem, SameCache(m, n)
  PROVE  MemInv(n) /\ SameFrames(m, n)
BY DEF MemInv, SameCache, ListsAgree, SleepersServed, CachedOnce, SameFrames

\* A failing assertion.
LEMMA PanicKeeps ==
  ASSUME NEW m, MemInv(m)
  PROVE  MemInv(Panic(m)) /\ SameFrames(m, Panic(m))
<1>1. m \in Mem
  BY DEF MemInv
<1>2. Panic(m) \in Mem /\ SameCache(m, Panic(m))
  BY <1>1, Zenon DEF Panic, Mem, SameCache
<1> QED  BY <1>2, SameCacheKeeps

\* vn_refcount changes.
LEMMA RefKeeps ==
  ASSUME NEW m, MemInv(m), NEW v \in Vnode, NEW k \in Int
  PROVE  MemInv([m EXCEPT !.ref[v] = k]) /\ SameFrames(m, [m EXCEPT !.ref[v] = k])
<1> DEFINE n == [m EXCEPT !.ref[v] = k]
<1>1. m \in Mem
  BY DEF MemInv
<1>2. n \in Mem /\ SameCache(m, n)
  BY <1>1, Zenon DEF Mem, SameCache
<1> HIDE DEF n
<1>3. MemInv(n) /\ SameFrames(m, n)
  BY <1>2, SameCacheKeeps
<1> QED  BY <1>3 DEF n

\* VN_BUSY is set.
LEMMA VnodeBusyKeeps ==
  ASSUME NEW m, MemInv(m), NEW v \in Vnode
  PROVE  MemInv([m EXCEPT !.busy[v] = TRUE]) /\ SameFrames(m, [m EXCEPT !.busy[v] = TRUE])
<1> DEFINE n == [m EXCEPT !.busy[v] = TRUE]
<1>1. m \in Mem
  BY DEF MemInv
<1>2. n \in Mem /\ SameCache(m, n)
  BY <1>1, Zenon DEF Mem, SameCache
<1> HIDE DEF n
<1>3. MemInv(n) /\ SameFrames(m, n)
  BY <1>2, SameCacheKeeps
<1> QED  BY <1>3 DEF n

\* PF_DIRTY changes.
LEMMA DirtyFlagKeeps ==
  ASSUME NEW m, MemInv(m), NEW f \in Frame
  PROVE  /\ MemInv([m EXCEPT !.dirty[f] = TRUE]) /\ SameFrames(m, [m EXCEPT !.dirty[f] = TRUE])
         /\ MemInv([m EXCEPT !.dirty[f] = FALSE]) /\ SameFrames(m, [m EXCEPT !.dirty[f] = FALSE])
<1> DEFINE n == [m EXCEPT !.dirty[f] = TRUE]
           k == [m EXCEPT !.dirty[f] = FALSE]
<1>1. m \in Mem
  BY DEF MemInv
<1>2. n \in Mem /\ SameCache(m, n)
  BY <1>1, Zenon DEF Mem, SameCache
<1>3. k \in Mem /\ SameCache(m, k)
  BY <1>1, Zenon DEF Mem, SameCache
<1> HIDE DEF n, k
<1>4. MemInv(n) /\ SameFrames(m, n) /\ MemInv(k) /\ SameFrames(m, k)
  BY <1>2, <1>3, SameCacheKeeps
<1> QED  BY <1>4 DEF n, k

\* sched_sleep_on a busy page, for a vnode, or where somebody is awake to end it.
LEMMA SleepKeeps ==
  ASSUME Distinct, NEW m, MemInv(m), NEW t \in Thread, NEW q \in Queue,
         q \in Frame => InWork(m, q),
         q = alloc_waitq => t # Pageoutd /\ m.asleep[Pageoutd] # pageoutd_waitq,
         q = pageoutd_waitq => t = Pageoutd /\ \A u \in User : m.asleep[u] # alloc_waitq
  PROVE  MemInv(Sleep(m, t, q)) /\ SameFrames(m, Sleep(m, t, q))
<1> DEFINE n == Sleep(m, t, q)
<1>1. m \in Mem
  BY DEF MemInv
<1>2. /\ n \in Mem
      /\ n.ino = m.ino /\ n.respages = m.respages /\ n.obj = m.obj /\ n.page = m.page
      /\ n.pbusy = m.pbusy /\ n.alloc_list = m.alloc_list
      /\ n.asleep = [m.asleep EXCEPT ![t] = q]
  BY <1>1, Zenon DEF Sleep, Mem
<1>3. \A u \in Thread : n.asleep[u] = IF u = t THEN q ELSE m.asleep[u]
  BY <1>1, <1>2 DEF Mem
<1> HIDE DEF n
<1>4. ListsAgree(n) /\ CachedOnce(n)
  BY <1>2 DEF MemInv, ListsAgree, CachedOnce
<1>5. SleepersServed(n)
  BY <1>2, <1>3 DEF MemInv, SleepersServed, Thread, Distinct, InWork
<1>6. SameFrames(m, n)
  BY <1>2 DEF SameFrames
<1> QED  BY <1>2, <1>4, <1>5, <1>6 DEF MemInv, n

\* A thread that finds a page busy sleeps on it.
LEMMA SleepOnPage ==
  ASSUME Distinct, NEW m, MemInv(m), NEW t \in Thread, NEW f \in Frame, InWork(m, f)
  PROVE  MemInv(Sleep(m, t, f)) /\ SameFrames(m, Sleep(m, t, f))
<1>1. f \in Queue /\ f # alloc_waitq /\ f # pageoutd_waitq
  BY DEF Queue, Distinct
<1> QED  BY <1>1, SleepKeeps

\* sched_broadcast_on leaves nobody on the queue and moves nobody to another.
LEMMA BroadcastKeeps ==
  ASSUME Distinct, NEW m, MemInv(m), NEW q \in Queue
  PROVE  /\ MemInv(Broadcast(m, q)) /\ SameFrames(m, Broadcast(m, q))
         /\ \A t \in Thread : Broadcast(m, q).asleep[t] # q
<1> DEFINE n == Broadcast(m, q)
<1>1. m \in Mem
  BY DEF MemInv
<1>2. /\ n \in Mem
      /\ n.ino = m.ino /\ n.respages = m.respages /\ n.obj = m.obj /\ n.page = m.page
      /\ n.pbusy = m.pbusy /\ n.alloc_list = m.alloc_list
      /\ n.asleep = [t \in Thread |-> IF m.asleep[t] = q THEN NULL ELSE m.asleep[t]]
  BY <1>1, Zenon DEF Broadcast, Mem
<1> HIDE DEF n
<1>3. ListsAgree(n) /\ CachedOnce(n)
  BY <1>2 DEF MemInv, ListsAgree, CachedOnce
<1>4. SleepersServed(n)
  BY <1>2 DEF MemInv, SleepersServed, Thread, Distinct
<1>5. \A t \in Thread : n.asleep[t] # q
  BY <1>2 DEF Queue, Distinct
<1>6. SameFrames(m, n)
  BY <1>2 DEF SameFrames
<1> QED  BY <1>2, <1>3, <1>4, <1>5, <1>6 DEF MemInv, n

\* pframe_set_busy.
LEMMA SetBusyKeeps ==
  ASSUME NEW m, MemInv(m), NEW f \in Frame, m.obj[f] # NULL
  PROVE  MemInv(set_busy(m, f)) /\ SameBut(m, set_busy(m, f), f) /\ InWork(set_busy(m, f), f)
<1> DEFINE n == set_busy(m, f)
<1>1. m \in Mem
  BY DEF MemInv
<1>2. /\ n \in Mem
      /\ n.ino = m.ino /\ n.respages = m.respages /\ n.obj = m.obj /\ n.page = m.page
      /\ n.pbusy = [m.pbusy EXCEPT ![f] = TRUE] /\ n.alloc_list = m.alloc_list /\ n.asleep = m.asleep
  BY <1>1, Zenon DEF set_busy, Mem
<1>3. n.pbusy[f] /\ \A g \in Frame : m.pbusy[g] => n.pbusy[g]
  BY <1>1, <1>2 DEF Mem
<1>4. \A g \in Frame : g # f => n.pbusy[g] = m.pbusy[g]
  BY <1>1, <1>2 DEF Mem
<1> HIDE DEF n
<1>5. ListsAgree(n) /\ CachedOnce(n)
  BY <1>2 DEF MemInv, ListsAgree, CachedOnce
<1>6. SleepersServed(n)
  BY <1>2, <1>3 DEF MemInv, SleepersServed
<1>7. SameBut(m, n, f) /\ InWork(n, f)
  BY <1>2, <1>3, <1>4 DEF SameBut, InWork
<1> QED  BY <1>2, <1>5, <1>6, <1>7 DEF MemInv, n

\* pframe_clear_busy: who slept on the page is woken before it is not busy.
LEMMA ClearBusyKeeps ==
  ASSUME Distinct, NEW m, MemInv(m), NEW f \in Frame
  PROVE  /\ MemInv(clear_busy(m, f)) /\ SameBut(m, clear_busy(m, f), f)
         /\ clear_busy(m, f).obj = m.obj
<1> DEFINE n == clear_busy(m, f)
<1>1. m \in Mem
  BY DEF MemInv
<1>2. [m EXCEPT !.pbusy[f] = FALSE].asleep = m.asleep
  BY <1>1 DEF Mem
<1>3. /\ n \in Mem
      /\ n.ino = m.ino /\ n.respages = m.respages /\ n.obj = m.obj /\ n.page = m.page
      /\ n.pbusy = [m.pbusy EXCEPT ![f] = FALSE] /\ n.alloc_list = m.alloc_list
      /\ n.asleep = [t \in Thread |-> IF m.asleep[t] = f THEN NULL ELSE m.asleep[t]]
  BY <1>1, Zenon DEF clear_busy, Broadcast, Mem
<1> HIDE DEF n
<1>4. ListsAgree(n) /\ CachedOnce(n)
  BY <1>3 DEF MemInv, ListsAgree, CachedOnce
<1>5. \A g \in Frame : g # f => n.pbusy[g] = m.pbusy[g]
  BY <1>1, <1>3 DEF Mem
<1>6. SleepersServed(n)
  <2>1. \A t \in Thread : n.asleep[t] # f /\ (n.asleep[t] = m.asleep[t] \/ n.asleep[t] = NULL)
    BY <1>3 DEF Distinct
  <2>2. \A t \in Thread : n.asleep[t] \in Frame => n.obj[n.asleep[t]] # NULL /\ n.pbusy[n.asleep[t]]
    BY <1>3, <1>5, <2>1 DEF MemInv, SleepersServed, Distinct
  <2>3. (\E t \in User : n.asleep[t] = alloc_waitq) => n.asleep[Pageoutd] # pageoutd_waitq
    BY <2>1 DEF MemInv, SleepersServed, Distinct, Thread
  <2> QED  BY <2>2, <2>3 DEF SleepersServed
<1>7. SameBut(m, n, f)
  BY <1>3, <1>5 DEF SameBut
<1> QED  BY <1>3, <1>4, <1>6, <1>7 DEF MemInv, n

\* pframe_get_resident only moves the page in alloc_list.
LEMMA GetResidentKeeps ==
  ASSUME NEW m, MemInv(m), NEW f \in Frame, m.obj[f] # NULL
  PROVE  MemInv(pframe_get_resident(m, f)) /\ SameFrames(m, pframe_get_resident(m, f))
<1> DEFINE n == pframe_get_resident(m, f)
           rest == list_remove(m.alloc_list, f)
           l == Append(rest, f)
<1>1. m \in Mem /\ m.alloc_list \in Seq(Frame)
  BY DEF MemInv, Mem
<1>2. IsInjective(m.alloc_list) /\ f \in Range(m.alloc_list)
  BY DEF MemInv, ListsAgree
<1>3. rest \in Seq(Frame) /\ IsInjective(rest) /\ Range(rest) = Range(m.alloc_list) \ {f}
  BY <1>1, <1>2, ListRemoved
<1>4. n = [m EXCEPT !.alloc_list = l]
  BY DEF pframe_get_resident
<1> HIDE DEF rest, n
<1>5. l \in Seq(Frame) /\ IsInjective(l) /\ Range(l) = Range(m.alloc_list)
  <2>1. f \notin Range(rest)
    BY <1>3
  <2>2. l \in Seq(Frame) /\ IsInjective(l) /\ Range(l) = Range(rest) \cup {f}
    BY <1>3, <2>1, ListAppended
  <2>3. (Range(m.alloc_list) \ {f}) \cup {f} = Range(m.alloc_list)
    BY <1>2
  <2> QED  BY <1>3, <2>2, <2>3
<1> HIDE DEF l
<1>6. /\ n \in Mem
      /\ n.ino = m.ino /\ n.respages = m.respages /\ n.obj = m.obj /\ n.page = m.page
      /\ n.pbusy = m.pbusy /\ n.alloc_list = l /\ n.asleep = m.asleep
  BY <1>1, <1>4, <1>5, Zenon DEF Mem
<1>7. ListsAgree(n) /\ CachedOnce(n)
  BY <1>5, <1>6 DEF MemInv, ListsAgree, CachedOnce
<1>8. SleepersServed(n) /\ SameFrames(m, n)
  BY <1>6 DEF MemInv, SleepersServed, SameFrames
<1> QED  BY <1>6, <1>7, <1>8 DEF MemInv, n

\* pframe_alloc of a free frame, and pframe_set_busy, for a page that is not
\* resident.
LEMMA AllocKeeps ==
  ASSUME Distinct, NEW m, MemInv(m), NEW f \in Frame, m.obj[f] = NULL,
         NEW v \in Vnode, NEW p \in Page, Resident(m, v, p) = {}
  PROVE  LET n == set_busy(pframe_alloc(m, f, v, p), f) IN
         MemInv(n) /\ SameBut(m, n, f) /\ InWork(n, f)
<1> DEFINE n == set_busy(pframe_alloc(m, f, v, p), f)
           list == Append(m.alloc_list, f)
           pages == <<f>> \o m.respages[v]
           k == m.ref[v] + 1
<1>1. /\ m \in Mem /\ m.alloc_list \in Seq(Frame) /\ m.respages[v] \in Seq(Frame) /\ k \in Int
      /\ m.obj \in [Frame -> Vnode \cup {NULL}] /\ m.page \in [Frame -> Page \cup {NULL}]
      /\ m.pbusy \in [Frame -> BOOLEAN] /\ m.respages \in [Vnode -> Seq(Frame)]
  BY DEF MemInv, Mem
<1>2. /\ IsInjective(m.alloc_list) /\ f \notin Range(m.alloc_list)
      /\ IsInjective(m.respages[v]) /\ f \notin Range(m.respages[v])
  BY DEF MemInv, ListsAgree, Distinct
<1>3. list \in Seq(Frame) /\ IsInjective(list) /\ Range(list) = Range(m.alloc_list) \cup {f}
  BY <1>1, <1>2, ListAppended
<1>4. pages \in Seq(Frame) /\ IsInjective(pages) /\ Range(pages) = Range(m.respages[v]) \cup {f}
  BY <1>1, <1>2, ListPushed
<1>5. n = [[m EXCEPT !.alloc_list = list,
                     !.obj[f] = v, !.page[f] = p, !.pbusy[f] = FALSE, !.dirty[f] = FALSE,
                     !.respages[v] = pages, !.ref[v] = k] EXCEPT !.pbusy[f] = TRUE]
  BY DEF set_busy, pframe_alloc
<1> HIDE DEF list, pages, n, k
<1>6. /\ n \in Mem
      /\ n.ino = m.ino /\ n.respages = [m.respages EXCEPT ![v] = pages]
      /\ n.obj = [m.obj EXCEPT ![f] = v] /\ n.page = [m.page EXCEPT ![f] = p]
      /\ n.pbusy = [m.pbusy EXCEPT ![f] = TRUE] /\ n.alloc_list = list /\ n.asleep = m.asleep
  BY <1>1, <1>3, <1>4, <1>5, Zenon DEF Mem
<1>7. /\ \A g \in Frame : n.obj[g] = IF g = f THEN v ELSE m.obj[g]
      /\ \A g \in Frame : n.page[g] = IF g = f THEN p ELSE m.page[g]
      /\ \A u \in Vnode : n.respages[u] = IF u = v THEN pages ELSE m.respages[u]
  BY <1>1, <1>6
<1>8. n.pbusy[f] /\ \A g \in Frame : g # f => n.pbusy[g] = m.pbusy[g]
  BY <1>1, <1>6
<1>9. ListsAgree(n)
  <2>1. Range(n.alloc_list) = {g \in Frame : n.obj[g] # NULL}
    BY <1>3, <1>6, <1>7 DEF MemInv, ListsAgree, Distinct
  <2>2. ASSUME NEW u \in Vnode
        PROVE  IsInjective(n.respages[u]) /\ Range(n.respages[u]) = {g \in Frame : n.obj[g] = u}
    <3>1. IsInjective(m.respages[u]) /\ Range(m.respages[u]) = {g \in Frame : m.obj[g] = u}
      BY DEF MemInv, ListsAgree
    <3> QED  BY <1>4, <1>7, <3>1 DEF Distinct
  <2> QED  BY <1>3, <1>6, <2>1, <2>2 DEF ListsAgree
<1>10. SleepersServed(n)
  BY <1>6, <1>7, <1>8 DEF MemInv, SleepersServed, Distinct
<1>11. CachedOnce(n)
  <2>1. \A g \in Frame : m.obj[g] = v => m.page[g] # p
    BY DEF MemInv, ListsAgree, Resident
  <2> QED  BY <1>6, <1>7, <2>1 DEF MemInv, CachedOnce
<1>12. SameBut(m, n, f) /\ InWork(n, f)
  BY <1>7, <1>8 DEF SameBut, InWork, Distinct
<1> QED  BY <1>6, <1>9, <1>10, <1>11, <1>12 DEF MemInv, n

\* pframe_free of a page that is not busy, up to the vput.
LEMMA UncachedKeeps ==
  ASSUME Distinct, NEW m, MemInv(m), NEW f \in Frame, m.obj[f] # NULL, ~m.pbusy[f]
  PROVE  MemInv(Uncached(m, f)) /\ m.obj[f] \in Vnode /\ SameBut(m, Uncached(m, f), f)
<1> DEFINE n == Uncached(m, f)
           v == m.obj[f]
           list == list_remove(m.alloc_list, f)
           pages == list_remove(m.respages[v], f)
<1>1. /\ m \in Mem /\ v \in Vnode /\ m.alloc_list \in Seq(Frame) /\ m.respages[v] \in Seq(Frame)
      /\ m.obj \in [Frame -> Vnode \cup {NULL}] /\ m.page \in [Frame -> Page \cup {NULL}]
      /\ m.respages \in [Vnode -> Seq(Frame)]
  BY DEF MemInv, Mem
<1>2. /\ IsInjective(m.alloc_list) /\ f \in Range(m.alloc_list)
      /\ IsInjective(m.respages[v]) /\ f \in Range(m.respages[v])
  BY <1>1 DEF MemInv, ListsAgree
<1>3. list \in Seq(Frame) /\ IsInjective(list) /\ Range(list) = Range(m.alloc_list) \ {f}
  BY <1>1, <1>2, ListRemoved
<1>4. pages \in Seq(Frame) /\ IsInjective(pages) /\ Range(pages) = Range(m.respages[v]) \ {f}
  BY <1>1, <1>2, ListRemoved
<1>5. n = [m EXCEPT !.alloc_list = list, !.obj[f] = NULL, !.page[f] = NULL, !.dirty[f] = FALSE,
                    !.respages[v] = pages]
  BY DEF Uncached
<1> HIDE DEF list, pages, n, v
<1>6. /\ n \in Mem
      /\ n.ino = m.ino /\ n.respages = [m.respages EXCEPT ![v] = pages]
      /\ n.obj = [m.obj EXCEPT ![f] = NULL] /\ n.page = [m.page EXCEPT ![f] = NULL]
      /\ n.pbusy = m.pbusy /\ n.alloc_list = list /\ n.asleep = m.asleep
  BY <1>1, <1>3, <1>4, <1>5, Zenon DEF Mem
<1>7. /\ \A g \in Frame : n.obj[g] = IF g = f THEN NULL ELSE m.obj[g]
      /\ \A g \in Frame : n.page[g] = IF g = f THEN NULL ELSE m.page[g]
      /\ \A u \in Vnode : n.respages[u] = IF u = v THEN pages ELSE m.respages[u]
  BY <1>1, <1>6
<1>8. ListsAgree(n)
  <2>1. Range(n.alloc_list) = {g \in Frame : n.obj[g] # NULL}
    BY <1>3, <1>6, <1>7 DEF MemInv, ListsAgree
  <2>2. ASSUME NEW u \in Vnode
        PROVE  IsInjective(n.respages[u]) /\ Range(n.respages[u]) = {g \in Frame : n.obj[g] = u}
    <3>1. IsInjective(m.respages[u]) /\ Range(m.respages[u]) = {g \in Frame : m.obj[g] = u}
      BY DEF MemInv, ListsAgree
    <3>2. u # v => m.obj[f] # u
      BY DEF v
    <3>3. u # NULL
      BY DEF Distinct
    <3> QED  BY <1>4, <1>7, <3>1, <3>2, <3>3
  <2> QED  BY <1>3, <1>6, <2>1, <2>2 DEF ListsAgree
<1>9. SleepersServed(n)
  BY <1>6, <1>7 DEF MemInv, SleepersServed
<1>10. CachedOnce(n)
  BY <1>6, <1>7 DEF MemInv, CachedOnce
<1>11. SameBut(m, n, f)
  BY <1>6, <1>7 DEF SameBut
<1> QED  BY <1>1, <1>6, <1>8, <1>9, <1>10, <1>11 DEF MemInv, n, v

-----------------------------------------------------------------------------
\* What is known of thread t where it goes on.
LocOK(t, l, h) ==
  /\ l \in Location
  /\ l.at = "get" => t \in User /\ h[t] \in Vnode /\ l.page \in Page
  /\ l.at = "find" => l.ino \in Ino
  /\ l.at \in {"read_vnode", "delete_vnode", "uncache"} => l.v \in Vnode
  /\ l.at \in {"fill", "dirty", "clean"} => l.f \in Frame

Works(l) == l.at \in {"fill", "dirty", "clean"}

IInv ==
  /\ MemInv(mem)
  /\ held \in [User -> Vnode \cup {NULL}]
  /\ run \in [cur : Thread \cup {NULL}, loc : [Thread -> Location]]
  /\ \A t \in Thread : LocOK(t, run.loc[t], held)
  /\ OneWorker

\* Nobody, or nobody but t, is at work on frame f.
AllOff(f) == \A u \in Thread : AtWork(u) => run.loc[u].f # f
OthersOff(t, f) == \A u \in Thread : u # t /\ AtWork(u) => run.loc[u].f # f

\* The other users hold what they held; t goes on at l.
OthersHold(t) ==
  held' \in [User -> Vnode \cup {NULL}] /\ \A u \in User : u # t => held'[u] = held[u]
GoesTo(t, l) == Stay(t, l) \/ Leave(t, l)

\* A step of thread t that changes nothing of the frames but f, with which no
\* other thread is at work.
LEMMA StepKeeps ==
  ASSUME IInv, MemInv(mem'), NEW t \in Thread, NEW l, OthersHold(t), LocOK(t, l, held'), GoesTo(t, l),
         NEW f, OthersOff(t, f), SameBut(mem, mem', f), Works(l) => l.f = f /\ InWork(mem', f)
  PROVE  IInv'
<1>1. PICK c \in Thread \cup {NULL} : run' = [cur |-> c, loc |-> [run.loc EXCEPT ![t] = l]]
  BY DEF GoesTo, Stay, Leave
<1>2. l \in Location /\ run.loc \in [Thread -> Location] /\ run'.loc = [run.loc EXCEPT ![t] = l]
  BY <1>1 DEF IInv, LocOK
<1>3. run' \in [cur : Thread \cup {NULL}, loc : [Thread -> Location]]
  BY <1>1, <1>2
<1>4. \A u \in Thread : run'.loc[u] = IF u = t THEN l ELSE run.loc[u]
  BY <1>2
<1>5. ASSUME NEW u \in Thread
      PROVE  LocOK(u, run'.loc[u], held')
  <2>1. CASE u = t
    BY <1>4, <2>1
  <2>2. CASE u # t
    <3>1. LocOK(u, run.loc[u], held) /\ run'.loc[u] = run.loc[u]
      BY <1>4, <2>2 DEF IInv
    <3>2. \A x \in User : x # t => held'[x] = held[x]
      BY DEF OthersHold
    <3> QED  BY <2>2, <3>1, <3>2 DEF LocOK
  <2> QED  BY <2>1, <2>2
<1>6. OneWorker'
  <2> SUFFICES ASSUME NEW u \in Thread, AtWork(u)'
               PROVE  /\ InWork(mem', run'.loc[u].f)
                      /\ \A w \in Thread : AtWork(w)' /\ run'.loc[w].f = run'.loc[u].f => w = u
    BY DEF OneWorker, InWork
  <2>1. \A w \in Thread : w # t => (AtWork(w)' <=> AtWork(w)) /\ run'.loc[w] = run.loc[w]
    BY <1>4 DEF AtWork
  <2>2. AtWork(t)' => run'.loc[t] = l /\ l.f = f /\ InWork(mem', f)
    BY <1>4 DEF AtWork, Works
  <2>3. CASE u = t
    BY <2>1, <2>2, <2>3 DEF OthersOff
  <2>4. CASE u # t
    <3>1. AtWork(u) /\ run'.loc[u] = run.loc[u] /\ run.loc[u].f # f /\ run.loc[u].f \in Frame
      BY <2>1, <2>4 DEF OthersOff, IInv, LocOK, AtWork
    <3>2. InWork(mem', run.loc[u].f)
      BY <3>1 DEF IInv, OneWorker, SameBut, InWork
    <3>3. \A w \in Thread : AtWork(w)' /\ run'.loc[w].f = run'.loc[u].f => w = u
      BY <2>1, <2>2, <3>1 DEF IInv, OneWorker
    <3> QED  BY <3>1, <3>2, <3>3
  <2> QED  BY <2>3, <2>4
<1>7. held' \in [User -> Vnode \cup {NULL}]
  BY DEF OthersHold
<1> QED  BY <1>3, <1>5, <1>6, <1>7 DEF IInv

\* A step that changes nothing of the frames and starts no work on one.
LEMMA StepAside ==
  ASSUME Distinct, IInv, MemInv(mem'), NEW t \in Thread, NEW l, OthersHold(t), LocOK(t, l, held'),
         ~Works(l), GoesTo(t, l), SameFrames(mem, mem')
  PROVE  IInv'
<1>1. OthersOff(t, NULL)
  BY DEF OthersOff, IInv, LocOK, AtWork, Distinct
<1>2. SameBut(mem, mem', NULL)
  BY SameFramesThen
<1> QED  BY <1>1, <1>2, StepKeeps

\* A failing assertion, when nothing of the frames has changed but frame f, with
\* which nobody is at work.
LEMMA StepPanics ==
  ASSUME IInv, MemInv(mem'), UNCHANGED <<run, held>>, NEW f, AllOff(f), SameBut(mem, mem', f)
  PROVE  IInv'
<1>1. ASSUME NEW u \in Thread, AtWork(u)
      PROVE  mem'.obj[run.loc[u].f] # NULL /\ mem'.pbusy[run.loc[u].f]
  <2>1. run.loc[u].f \in Frame /\ run.loc[u].f # f
    BY <1>1 DEF IInv, LocOK, AtWork, AllOff
  <2> QED  BY <1>1, <2>1 DEF IInv, OneWorker, SameBut
<1>2. OneWorker'
  BY <1>1 DEF IInv, OneWorker, AtWork
<1> QED  BY <1>2 DEF IInv

\* Nobody is at work on a page that is not busy or on a free frame.
LEMMA IdleFrame ==
  ASSUME Distinct, IInv
  PROVE  /\ \A f : ~mem.pbusy[f] \/ mem.obj[f] = NULL => AllOff(f)
         /\ AllOff(NULL) /\ \A f, t : AllOff(f) => OthersOff(t, f)
<1>1. ASSUME NEW f, ~mem.pbusy[f] \/ mem.obj[f] = NULL
      PROVE  AllOff(f)
  BY <1>1 DEF IInv, OneWorker, AllOff
<1>2. AllOff(NULL)
  BY DEF IInv, LocOK, AtWork, Distinct, AllOff
<1>3. \A f, t : AllOff(f) => OthersOff(t, f)
  BY DEF AllOff, OthersOff
<1> QED  BY <1>1, <1>2, <1>3

\* A step of t that leaves held alone.
LEMMA HeldAlone ==
  ASSUME IInv, UNCHANGED held
  PROVE  \A t : OthersHold(t)
BY DEF IInv, OthersHold

\* At(where) is a location.
LEMMA AtIsLocation ==
  ASSUME NEW w \in {"user", "find", "read_vnode", "get", "fill", "dirty", "uncache",
                    "delete_vnode", "clean_all", "clean", "pageoutd"}
  PROVE  At(w) \in Location /\ At(w).at = w
BY DEF At, Location

\* The places with nothing to remember.
LEMMA PlainLocOK ==
  ASSUME NEW t, NEW h
  PROVE  /\ LocOK(t, At("user"), h) /\ LocOK(t, At("pageoutd"), h) /\ LocOK(t, At("clean_all"), h)
         /\ ~Works(At("user")) /\ ~Works(At("pageoutd")) /\ ~Works(At("clean_all"))
         /\ LocOK(t, Caller(t), h) /\ ~Works(Caller(t))
<1>1. /\ LocOK(t, At("user"), h) /\ LocOK(t, At("pageoutd"), h) /\ LocOK(t, At("clean_all"), h)
      /\ ~Works(At("user")) /\ ~Works(At("pageoutd")) /\ ~Works(At("clean_all"))
  BY AtIsLocation DEF LocOK, Works
<1> QED  BY <1>1 DEF Caller

\* The places of a thread in the middle of a call.
LEMMA VnodeLocOK ==
  ASSUME NEW t, NEW h, NEW v \in Vnode, NEW where \in {"read_vnode", "delete_vnode"}
  PROVE  LocOK(t, [At(where) EXCEPT !.v = v], h) /\ ~Works([At(where) EXCEPT !.v = v])
<1> DEFINE l == [At(where) EXCEPT !.v = v]
<1>1. l \in Location /\ l.at = where /\ l.v = v
  BY Zenon DEF At, Location
<1> HIDE DEF l
<1>2. LocOK(t, l, h) /\ ~Works(l)
  BY <1>1 DEF LocOK, Works
<1> QED  BY <1>2 DEF l

\* A thread that looks for the vnode of an inode number.
LEMMA FindLocOK ==
  ASSUME NEW t, NEW h, NEW i \in Ino
  PROVE  LocOK(t, [At("find") EXCEPT !.ino = i], h) /\ ~Works([At("find") EXCEPT !.ino = i])
<1> DEFINE l == [At("find") EXCEPT !.ino = i]
<1>1. l \in Location /\ l.at = "find" /\ l.ino = i
  BY Zenon DEF At, Location
<1> HIDE DEF l
<1>2. LocOK(t, l, h) /\ ~Works(l)
  BY <1>1 DEF LocOK, Works
<1> QED  BY <1>2 DEF l

\* A thread that looks for a page of the file it holds.
LEMMA GetLocOK ==
  ASSUME NEW t \in User, NEW h, h[t] \in Vnode, NEW p \in Page, NEW w \in BOOLEAN
  PROVE  LET l == [At("get") EXCEPT !.page = p, !.forwrite = w] IN LocOK(t, l, h) /\ ~Works(l)
<1> DEFINE l == [At("get") EXCEPT !.page = p, !.forwrite = w]
<1>1. l \in Location /\ l.at = "get" /\ l.page = p
  BY Zenon DEF At, Location
<1> HIDE DEF l
<1>2. LocOK(t, l, h) /\ ~Works(l)
  BY <1>1 DEF LocOK, Works
<1> QED  BY <1>2 DEF l

\* A thread at work on a frame in pframe_fill or pframe_dirty.
LEMMA WorkLocOK ==
  ASSUME NEW t, NEW h, NEW f \in Frame, NEW w \in BOOLEAN, NEW where \in {"fill", "dirty"}
  PROVE  LET l == [At(where) EXCEPT !.f = f, !.forwrite = w] IN LocOK(t, l, h) /\ l.f = f
<1> DEFINE l == [At(where) EXCEPT !.f = f, !.forwrite = w]
<1>1. l \in Location /\ l.at = where /\ l.f = f
  BY Zenon DEF At, Location
<1> HIDE DEF l
<1>2. LocOK(t, l, h) /\ l.f = f
  BY <1>1 DEF LocOK
<1> QED  BY <1>2 DEF l

\* A thread in pframe_clean.
LEMMA CleanLocOK ==
  ASSUME NEW t, NEW h, NEW f \in Frame
  PROVE  LET l == [At("clean") EXCEPT !.f = f] IN LocOK(t, l, h) /\ l.f = f
<1> DEFINE l == [At("clean") EXCEPT !.f = f]
<1>1. l \in Location /\ l.at = "clean" /\ l.f = f
  BY Zenon DEF At, Location
<1> HIDE DEF l
<1>2. LocOK(t, l, h) /\ l.f = f
  BY <1>1 DEF LocOK
<1> QED  BY <1>2 DEF l

\* A thread in the loop over the resident pages in vput.
LEMMA UncacheAtLocOK ==
  ASSUME NEW t, NEW h, NEW v \in Vnode, NEW f \in Frame \cup {NULL}, NEW next \in Frame \cup {NULL}
  PROVE  LET l == [At("uncache") EXCEPT !.v = v, !.f = f, !.next = next] IN LocOK(t, l, h) /\ ~Works(l)
<1> DEFINE l == [At("uncache") EXCEPT !.v = v, !.f = f, !.next = next]
<1>1. l \in Location /\ l.at = "uncache" /\ l.v = v
  BY Zenon DEF At, Location
<1> HIDE DEF l
<1>2. LocOK(t, l, h) /\ ~Works(l)
  BY <1>1 DEF LocOK, Works
<1> QED  BY <1>2 DEF l

\* A turn of the loop over the resident pages that starts at one of them, or at
\* a frame that is none of them any more.
LEMMA UncacheLocOK ==
  ASSUME NEW t, NEW h, NEW m, MemInv(m), NEW v \in Vnode
  PROVE  /\ \A f \in Range(m.respages[v]) \cup {NULL} :
              LocOK(t, Uncache(v, f, m), h) /\ ~Works(Uncache(v, f, m))
         /\ \A f \in Frame : LocOK(t, [At("uncache") EXCEPT !.v = v, !.f = f], h)
                             /\ ~Works([At("uncache") EXCEPT !.v = v, !.f = f])
<1>1. ASSUME NEW f \in Range(m.respages[v]) \cup {NULL}
      PROVE  LocOK(t, Uncache(v, f, m), h) /\ ~Works(Uncache(v, f, m))
  <2> DEFINE s == m.respages[v]
             k == CHOOSE j \in DOMAIN s : s[j] = f
             next == IF f = NULL \/ f = s[Len(s)] THEN NULL ELSE s[1 + k]
  <2>1. s \in Seq(Frame) /\ f \in Frame \cup {NULL}
    BY DEF MemInv, Mem, ListsAgree
  <2>2. next \in Frame \cup {NULL}
    <3> SUFFICES ASSUME f # NULL, f # s[Len(s)]
                 PROVE  s[1 + k] \in Frame
      OBVIOUS
    <3>1. k \in DOMAIN s /\ s[k] = f
      BY DEF Range
    <3>2. DOMAIN s = 1 .. Len(s) /\ Len(s) \in Nat
      BY <2>1
    <3> HIDE DEF k, s
    <3>3. k # Len(s)
      BY <3>1
    <3>4. 1 + k \in 1 .. Len(s)
      BY <3>1, <3>2, <3>3
    <3> QED  BY <2>1, <3>4
  <2>3. Uncache(v, f, m) = [At("uncache") EXCEPT !.v = v, !.f = f, !.next = next]
    BY DEF Uncache, nrespages
  <2> HIDE DEF next
  <2>4. LET l == [At("uncache") EXCEPT !.v = v, !.f = f, !.next = next] IN LocOK(t, l, h) /\ ~Works(l)
    <3> HIDE DEF s
    <3> QED  BY <2>1, <2>2, UncacheAtLocOK, Zenon
  <2> QED  BY <2>3, <2>4, Zenon
<1>2. ASSUME NEW f \in Frame
      PROVE  LocOK(t, [At("uncache") EXCEPT !.v = v, !.f = f], h)
             /\ ~Works([At("uncache") EXCEPT !.v = v, !.f = f])
  <2> DEFINE l == [At("uncache") EXCEPT !.v = v, !.f = f]
  <2>1. l \in Location /\ l.at = "uncache" /\ l.v = v
    BY Zenon DEF At, Location
  <2> HIDE DEF l
  <2>2. LocOK(t, l, h) /\ ~Works(l)
    BY <2>1 DEF LocOK, Works
  <2> QED  BY <2>2 DEF l
<1> QED  BY <1>1, <1>2, Zenon

-----------------------------------------------------------------------------
\* The last lines of vput, in a memory m that differs from mem in frame f only.
LEMMA DropReferenceKeeps ==
  ASSUME Distinct, IInv, NEW t \in Thread, NEW m, MemInv(m), NEW v \in Vnode, DropReference(t, m, v),
         NEW f, AllOff(f), SameBut(mem, m, f)
  PROVE  IInv'
<1> DEFINE dropped == [m EXCEPT !.ref[v] = @ - 1]
<1>1. m.ref[v] - 1 \in Int
  BY DEF MemInv, Mem
<1>2. MemInv(dropped) /\ SameFrames(m, dropped)
  BY <1>1, RefKeeps
<1>3. OthersHold(t)
  BY DEF DropReference, IInv, OthersHold
<1>4. OthersOff(t, f)
  BY IdleFrame
<1>5. \/ mem' = dropped /\ GoesTo(t, Caller(t))
      \/ /\ mem' = [dropped EXCEPT !.busy[v] = TRUE] \/ mem' = Panic(dropped)
         /\ GoesTo(t, [At("delete_vnode") EXCEPT !.v = v])
  BY DEF DropReference, GoesTo
<1> HIDE DEF dropped
<1>6. SameBut(mem, dropped, f)
  BY <1>2, SameFramesThen
<1>7. CASE mem' = dropped /\ GoesTo(t, Caller(t))
  <2>1. LocOK(t, Caller(t), held') /\ ~Works(Caller(t))
    BY PlainLocOK
  <2> QED  BY <1>2, <1>3, <1>4, <1>6, <1>7, <2>1, StepKeeps
<1>8. CASE /\ mem' = [dropped EXCEPT !.busy[v] = TRUE] \/ mem' = Panic(dropped)
           /\ GoesTo(t, [At("delete_vnode") EXCEPT !.v = v])
  <2> DEFINE l == [At("delete_vnode") EXCEPT !.v = v]
  <2>1. MemInv(mem') /\ SameFrames(dropped, mem')
    BY <1>2, <1>8, PanicKeeps, VnodeBusyKeeps
  <2>2. SameBut(mem, mem', f)
    BY <1>6, <2>1, SameFramesThen
  <2>3. LocOK(t, l, held') /\ ~Works(l)
    BY VnodeLocOK, Zenon
  <2>4. GoesTo(t, l)
    BY <1>8
  <2> HIDE DEF l
  <2> QED  BY <1>3, <1>4, <2>1, <2>2, <2>3, <2>4, StepKeeps
<1> QED  BY <1>5, <1>7, <1>8

\* vput in such a memory.
LEMMA VputKeeps ==
  ASSUME Distinct, IInv, NEW t \in Thread, NEW m, MemInv(m), NEW v \in Vnode, vput(t, m, v),
         NEW f, AllOff(f), SameBut(mem, m, f)
  PROVE  IInv'
<1>1. CASE mem' = Panic(m) /\ UNCHANGED <<run, held>>
  <2>1. MemInv(mem') /\ SameFrames(m, mem')
    BY <1>1, PanicKeeps
  <2>2. SameBut(mem, mem', f)
    BY <2>1, SameFramesThen
  <2> QED  BY <1>1, <2>1, <2>2, StepPanics
<1>2. ASSUME mem' = m, UNCHANGED held,
             Stay(t, Uncache(v, IF m.respages[v] = <<>> THEN NULL ELSE Head(m.respages[v]), m))
      PROVE  IInv'
  <2> DEFINE x == IF m.respages[v] = <<>> THEN NULL ELSE Head(m.respages[v])
             l == Uncache(v, x, m)
  <2>1. x \in Range(m.respages[v]) \cup {NULL}
    <3>1. m.respages[v] \in Seq(Frame)
      BY DEF MemInv, Mem
    <3>2. m.respages[v] # <<>> => 1 \in DOMAIN m.respages[v] /\ Head(m.respages[v]) = m.respages[v][1]
      BY <3>1
    <3> QED  BY <3>2 DEF Range
  <2>2. GoesTo(t, l)
    BY <1>2 DEF GoesTo
  <2> HIDE DEF x
  <2>3. LocOK(t, l, held') /\ ~Works(l)
    BY <2>1, UncacheLocOK, Zenon
  <2>4. OthersHold(t) /\ OthersOff(t, f) /\ MemInv(mem') /\ SameBut(mem, mem', f)
    BY <1>2, HeldAlone, IdleFrame
  <2> HIDE DEF l
  <2> QED  BY <2>2, <2>3, <2>4, StepKeeps
<1>3. CASE DropReference(t, m, v)
  BY <1>3, DropReferenceKeeps
<1> QED  BY <1>1, <1>2, <1>3 DEF vput

\* A user is done with its file.
LEMMA ReleaseKeeps ==
  ASSUME Distinct, IInv, NEW t \in User, Release(t)
  PROVE  IInv'
<1>1. t \in Thread /\ held[t] \in Vnode /\ MemInv(mem) /\ vput(t, mem, held[t])
  BY DEF Release, Thread, IInv
<1>2. AllOff(NULL) /\ SameBut(mem, mem, NULL)
  BY IdleFrame DEF SameBut
<1> QED  BY <1>1, <1>2, VputKeeps

\* One turn of the loop in vput.
LEMMA UncachePagesKeeps ==
  ASSUME Distinct, IInv, NEW t \in Thread, UncachePages(t)
  PROVE  IInv'
<1> DEFINE l == run.loc[t]
           m == Uncached(mem, l.f)
           freed == [m EXCEPT !.ref[l.v] = @ - 1]
           k == IF l.next \in Range(freed.respages[l.v]) \cup {NULL}
                THEN Uncache(l.v, l.next, freed)
                ELSE [At("uncache") EXCEPT !.v = l.v, !.f = l.next]
<1>1. l \in Location /\ l.v \in Vnode /\ l.f \in Frame \cup {NULL} /\ l.next \in Frame \cup {NULL}
      /\ MemInv(mem) /\ ~Works(l) /\ LocOK(t, l, held)
  BY Zenon DEF IInv, LocOK, Location, UncachePages, Executes, Works
<1>2. AllOff(NULL) /\ SameBut(mem, mem, NULL)
  BY IdleFrame DEF SameBut
<1>3. CASE DropReference(t, mem, l.v)
  BY <1>1, <1>2, <1>3, DropReferenceKeeps
<1>4. CASE mem' = Panic(mem) /\ UNCHANGED <<run, held>>
  <2>1. MemInv(mem') /\ SameFrames(mem, mem')
    BY <1>1, <1>4, PanicKeeps
  <2>2. SameBut(mem, mem', NULL)
    BY <2>1, SameFramesThen
  <2> QED  BY <1>2, <1>4, <2>1, <2>2, StepPanics
<1>5. ASSUME l.f # NULL, mem.obj[l.f] = l.v, mem.pbusy[l.f], mem' = Sleep(mem, t, l.f), Leave(t, l), UNCHANGED held
      PROVE  IInv'
  <2>1. l.f \in Frame /\ InWork(mem, l.f)
    BY <1>1, <1>5 DEF Distinct, InWork
  <2>2. LocOK(t, l, held') /\ OthersHold(t) /\ GoesTo(t, l)
    BY <1>1, <1>5, HeldAlone DEF GoesTo
  <2> HIDE DEF l
  <2>3. MemInv(mem') /\ SameFrames(mem, mem')
    BY <1>1, <1>5, <2>1, SleepOnPage
  <2> QED  BY <1>1, <2>2, <2>3, StepAside
<1>6. ASSUME l.f # NULL, mem.obj[l.f] = l.v, ~mem.pbusy[l.f], mem' = freed \/ mem' = Panic(mem),
             Stay(t, k), UNCHANGED held
      PROVE  IInv'
  <2>1. l.f \in Frame /\ mem.obj[l.f] # NULL
    BY <1>1, <1>6, Zenon DEF Distinct
  <2> HIDE DEF l, m, freed
  <2>2. MemInv(m) /\ SameBut(mem, m, l.f)
    BY <1>1, <1>6, <2>1, UncachedKeeps DEF m
  <2>3. MemInv(freed) /\ SameFrames(m, freed)
    <3>0. m.ref \in [Vnode -> Int] /\ l.v \in Vnode
      BY <1>1, <2>2, Zenon DEF MemInv, Mem
    <3>1. m.ref[l.v] - 1 \in Int
      BY <3>0
    <3> DEFINE n == [m EXCEPT !.ref[l.v] = m.ref[l.v] - 1]
    <3>2. MemInv(n) /\ SameFrames(m, n)
      BY <1>1, <2>2, <3>1, RefKeeps
    <3> QED  BY <3>2 DEF freed
  <2>4. MemInv(Panic(mem)) /\ SameFrames(mem, Panic(mem))
    BY <1>1, PanicKeeps
  <2>5. MemInv(mem') /\ SameBut(mem, mem', l.f)
    <3>1. SameBut(mem, freed, l.f)
      BY <2>2, <2>3, SameFramesThen, Zenon
    <3>2. SameBut(mem, Panic(mem), l.f)
      BY <2>4, SameFramesThen
    <3> QED  BY <1>6, <2>3, <2>4, <3>1, <3>2
  <2>6. LocOK(t, k, held') /\ ~Works(k)
    BY <1>1, <2>3, UncacheLocOK, Zenon
  <2>7. OthersOff(t, l.f) /\ OthersHold(t)
    BY <1>6, IdleFrame, HeldAlone
  <2>8. GoesTo(t, k)
    BY <1>6 DEF GoesTo
  <2> HIDE DEF k
  <2> QED  BY <2>5, <2>6, <2>7, <2>8, StepKeeps
<1>7. \/ DropReference(t, mem, l.v)
      \/ mem' = Panic(mem) /\ UNCHANGED <<run, held>>
      \/ /\ l.f # NULL /\ mem.obj[l.f] = l.v /\ mem.pbusy[l.f]
         /\ mem' = Sleep(mem, t, l.f) /\ Leave(t, l) /\ UNCHANGED held
      \/ /\ l.f # NULL /\ mem.obj[l.f] = l.v /\ ~mem.pbusy[l.f]
         /\ mem' = freed \/ mem' = Panic(mem)
         /\ Stay(t, k) /\ UNCHANGED held
  BY Zenon DEF UncachePages
<1> QED  BY <1>3, <1>4, <1>5, <1>6, <1>7, Zenon

-----------------------------------------------------------------------------
\* A vnode slot gets the inode number no other has, or none.
LEMMA InoKeeps ==
  ASSUME NEW m, MemInv(m), NEW v \in Vnode, NEW i \in Ino \cup {NULL}, NEW b \in BOOLEAN,
         i # NULL => \A u \in Vnode : m.ino[u] # i
  PROVE  LET n == [m EXCEPT !.ino[v] = i, !.busy[v] = b] IN MemInv(n) /\ SameFrames(m, n)
<1> DEFINE n == [m EXCEPT !.ino[v] = i, !.busy[v] = b]
<1>1. m \in Mem
  BY DEF MemInv
<1>2. /\ n \in Mem
      /\ n.ino = [m.ino EXCEPT ![v] = i] /\ n.respages = m.respages /\ n.obj = m.obj /\ n.page = m.page
      /\ n.pbusy = m.pbusy /\ n.alloc_list = m.alloc_list /\ n.asleep = m.asleep
  BY <1>1, Zenon DEF Mem
<1>3. \A u \in Vnode : n.ino[u] = IF u = v THEN i ELSE m.ino[u]
  BY <1>1, <1>2 DEF Mem
<1> HIDE DEF n
<1>4. ListsAgree(n)
  BY <1>2 DEF MemInv, ListsAgree
<1>5. SleepersServed(n) /\ SameFrames(m, n)
  BY <1>2 DEF MemInv, SleepersServed, SameFrames
<1>6. CachedOnce(n)
  BY <1>2, <1>3 DEF MemInv, CachedOnce
<1> QED  BY <1>2, <1>4, <1>5, <1>6 DEF MemInv, n

\* The end of vput.
LEMMA VputEndsKeeps ==
  ASSUME Distinct, IInv, NEW t \in Thread, VputEnds(t)
  PROVE  IInv'
<1> DEFINE v == run.loc[t].v
           m == Broadcast(mem, v)
           n == [m EXCEPT !.ino[v] = NULL, !.busy[v] = FALSE]
<1>1. v \in Vnode /\ v \in Queue /\ MemInv(mem)
  BY DEF VputEnds, Executes, IInv, LocOK, Queue
<1>2. mem' = n
  BY DEF VputEnds
<1> HIDE DEF v
<1>3. MemInv(m) /\ SameFrames(mem, m)
  BY <1>1, BroadcastKeeps
<1> HIDE DEF m
<1>4. MemInv(n) /\ SameFrames(m, n)
  <2>1. FALSE \in BOOLEAN /\ NULL \in Ino \cup {NULL}
    OBVIOUS
  <2> QED  BY <1>1, <1>3, <2>1, InoKeeps, Zenon
<1> HIDE DEF n
<1>5. MemInv(mem') /\ SameFrames(mem, mem')
  BY <1>2, <1>3, <1>4, SameFramesThen
<1>6. OthersHold(t) /\ GoesTo(t, Caller(t))
  BY HeldAlone DEF VputEnds, GoesTo
<1>7. LocOK(t, Caller(t), held') /\ ~Works(Caller(t))
  BY PlainLocOK
<1> QED  BY <1>5, <1>6, <1>7, StepAside

\* A turn of the loop of vget.
LEMMA FindKeeps ==
  ASSUME Distinct, IInv, NEW t \in User, NEW i \in Ino, Find(t, i)
  PROVE  IInv'
<1>1. t \in Thread /\ MemInv(mem) /\ held \in [User -> Vnode \cup {NULL}] /\ i # NULL
  BY DEF Thread, IInv, Distinct
<1>2. ASSUME NEW v \in Vnode, mem' = Sleep(mem, t, v), Leave(t, [At("find") EXCEPT !.ino = i]), UNCHANGED held
      PROVE  IInv'
  <2> DEFINE l == [At("find") EXCEPT !.ino = i]
  <2>1. v \in Queue /\ v \notin Frame /\ v # alloc_waitq /\ v # pageoutd_waitq
    BY DEF Queue, Distinct
  <2>2. MemInv(mem') /\ SameFrames(mem, mem')
    BY <1>1, <1>2, <2>1, SleepKeeps
  <2>3. LocOK(t, l, held') /\ ~Works(l)
    BY FindLocOK, Zenon
  <2>4. GoesTo(t, l) /\ OthersHold(t)
    BY <1>2, HeldAlone DEF GoesTo
  <2> HIDE DEF l
  <2> QED  BY <1>1, <2>2, <2>3, <2>4, StepAside
<1>3. ASSUME NEW v \in Vnode,
             mem' = [mem EXCEPT !.ref[v] = @ + 1] \/ mem' = Panic(mem),
             held' = [held EXCEPT ![t] = v], Leave(t, At("user"))
      PROVE  IInv'
  <2>1. mem.ref[v] + 1 \in Int
    BY <1>1 DEF MemInv, Mem
  <2>2. MemInv(mem') /\ SameFrames(mem, mem')
    BY <1>1, <1>3, <2>1, RefKeeps, PanicKeeps
  <2>3. LocOK(t, At("user"), held') /\ ~Works(At("user"))
    BY PlainLocOK
  <2>4. GoesTo(t, At("user")) /\ OthersHold(t)
    BY <1>1, <1>3 DEF GoesTo, OthersHold
  <2> QED  BY <1>1, <2>2, <2>3, <2>4, StepAside
<1>4. ASSUME \A u \in Vnode : mem.ino[u] # i, NEW v \in Vnode,
             mem' = [mem EXCEPT !.ino[v] = i, !.busy[v] = TRUE],
             Leave(t, [At("read_vnode") EXCEPT !.v = v]), UNCHANGED held
      PROVE  IInv'
  <2> DEFINE l == [At("read_vnode") EXCEPT !.v = v]
  <2>1. TRUE \in BOOLEAN /\ i \in Ino \cup {NULL}
    OBVIOUS
  <2>2. MemInv(mem') /\ SameFrames(mem, mem')
    BY <1>1, <1>4, <2>1, InoKeeps, Zenon
  <2>3. LocOK(t, l, held') /\ ~Works(l)
    BY VnodeLocOK, Zenon
  <2>4. GoesTo(t, l) /\ OthersHold(t)
    BY <1>4, HeldAlone DEF GoesTo
  <2> HIDE DEF l
  <2> QED  BY <1>1, <2>2, <2>3, <2>4, StepAside
<1>5. \/ \E v \in Vnode : mem' = Sleep(mem, t, v) /\ Leave(t, [At("find") EXCEPT !.ino = i]) /\ UNCHANGED held
      \/ \E v \in Vnode :
           /\ mem' = [mem EXCEPT !.ref[v] = @ + 1] \/ mem' = Panic(mem)
           /\ held' = [held EXCEPT ![t] = v] /\ Leave(t, At("user"))
      \/ /\ \A u \in Vnode : mem.ino[u] # i
         /\ \E v \in Vnode :
              /\ mem' = [mem EXCEPT !.ino[v] = i, !.busy[v] = TRUE]
              /\ Leave(t, [At("read_vnode") EXCEPT !.v = v]) /\ UNCHANGED held
  BY Zenon DEF Find
<1> QED  BY <1>2, <1>3, <1>4, <1>5, Zenon

\* The end of vget.
LEMMA VgetEndsKeeps ==
  ASSUME Distinct, IInv, NEW t \in User, VgetEnds(t)
  PROVE  IInv'
<1> DEFINE v == run.loc[t].v
           n == [mem EXCEPT !.busy[v] = FALSE, !.ref[v] = 1]
<1>1. t \in Thread /\ v \in Vnode /\ MemInv(mem) /\ held \in [User -> Vnode \cup {NULL}]
  BY DEF VgetEnds, Executes, IInv, LocOK, Thread
<1>2. mem' = n /\ held' = [held EXCEPT ![t] = v] /\ GoesTo(t, At("user"))
  BY DEF VgetEnds, GoesTo
<1> HIDE DEF v
<1>3. n \in Mem /\ SameCache(mem, n)
  <2>1. mem \in Mem /\ FALSE \in BOOLEAN /\ 1 \in Int
    BY <1>1 DEF MemInv
  <2> QED  BY <1>1, <2>1, Zenon DEF Mem, SameCache
<1> HIDE DEF n
<1>4. MemInv(mem') /\ SameFrames(mem, mem')
  BY <1>1, <1>2, <1>3, SameCacheKeeps
<1>5. LocOK(t, At("user"), held') /\ ~Works(At("user"))
  BY PlainLocOK
<1>6. OthersHold(t)
  BY <1>1, <1>2 DEF OthersHold
<1> QED  BY <1>1, <1>2, <1>4, <1>5, <1>6, StepAside, Zenon

-----------------------------------------------------------------------------
\* pframe_get of a page.
LEMMA GetKeeps ==
  ASSUME Distinct, IInv, NEW t \in User, held[t] \in Vnode, NEW p \in Page, NEW w \in BOOLEAN,
         Get(t, p, w), UNCHANGED held
  PROVE  IInv'
<1> DEFINE v == held[t]
           again == [At("get") EXCEPT !.page = p, !.forwrite = w]
           on(where, f) == [At(where) EXCEPT !.f = f, !.forwrite = w]
<1>1. t \in Thread /\ t # Pageoutd /\ MemInv(mem) /\ OthersHold(t)
  BY HeldAlone DEF Thread, IInv, Distinct
<1>2. LocOK(t, again, held') /\ ~Works(again)
  <2>1. held'[t] \in Vnode
    OBVIOUS
  <2> QED  BY <2>1, GetLocOK, Zenon
<1>3. \A f \in Frame : LocOK(t, on("fill", f), held') /\ on("fill", f).f = f
  BY WorkLocOK, Zenon
<1>4. \A f \in Frame : LocOK(t, on("dirty", f), held') /\ on("dirty", f).f = f
  BY WorkLocOK, Zenon
<1>5. \A f \in Resident(mem, v, p) : f \in Frame /\ mem.obj[f] # NULL
  BY <1>1 DEF Resident, MemInv, ListsAgree, Distinct
<1>6. \/ \E f \in Resident(mem, v, p) :
           mem.pbusy[f] /\ mem' = Sleep(pframe_get_resident(mem, f), t, f) /\ Leave(t, again)
      \/ \E f \in Resident(mem, v, p) : mem' = pframe_get_resident(mem, f) /\ Leave(t, At("user"))
      \/ \E f \in Resident(mem, v, p) :
           ~mem.pbusy[f] /\ mem' = set_busy(pframe_get_resident(mem, f), f) /\ Leave(t, on("dirty", f))
      \/ mem' = Sleep(Broadcast(mem, pageoutd_waitq), t, alloc_waitq) /\ Leave(t, again)
      \/ /\ Resident(mem, v, p) = {}
         /\ \E f \in Frame : /\ mem.obj[f] = NULL /\ mem' = set_busy(pframe_alloc(mem, f, v, p), f)
                             /\ Leave(t, on("fill", f))
  BY Zenon DEF Get
<1> HIDE DEF again, on
<1>7. ASSUME NEW f \in Resident(mem, v, p), mem.pbusy[f],
             mem' = Sleep(pframe_get_resident(mem, f), t, f), Leave(t, again)
      PROVE  IInv'
  <2> DEFINE m == pframe_get_resident(mem, f)
  <2>1. f \in Frame /\ mem.obj[f] # NULL
    BY <1>5
  <2>2. MemInv(m) /\ SameFrames(mem, m)
    BY <1>1, <2>1, GetResidentKeeps
  <2> HIDE DEF m
  <2>3. InWork(m, f)
    BY <1>7, <2>1, <2>2 DEF InWork, SameFrames
  <2>4. MemInv(mem') /\ SameFrames(m, mem')
    BY <1>1, <1>7, <2>1, <2>2, <2>3, SleepOnPage DEF m
  <2>5. SameFrames(mem, mem') /\ GoesTo(t, again)
    BY <1>7, <2>2, <2>4, SameFramesThen DEF GoesTo
  <2> QED  BY <1>1, <1>2, <2>4, <2>5, StepAside
<1>8. ASSUME NEW f \in Resident(mem, v, p), mem' = pframe_get_resident(mem, f), Leave(t, At("user"))
      PROVE  IInv'
  <2>1. MemInv(mem') /\ SameFrames(mem, mem')
    BY <1>1, <1>5, <1>8, GetResidentKeeps
  <2>2. LocOK(t, At("user"), held') /\ ~Works(At("user")) /\ GoesTo(t, At("user"))
    BY <1>8, PlainLocOK DEF GoesTo
  <2> QED  BY <1>1, <2>1, <2>2, StepAside
<1>9. ASSUME NEW f \in Resident(mem, v, p), ~mem.pbusy[f],
             mem' = set_busy(pframe_get_resident(mem, f), f), Leave(t, on("dirty", f))
      PROVE  IInv'
  <2> DEFINE m == pframe_get_resident(mem, f)
             l == on("dirty", f)
  <2>1. f \in Frame /\ mem.obj[f] # NULL
    BY <1>5
  <2>2. MemInv(m) /\ SameFrames(mem, m)
    BY <1>1, <2>1, GetResidentKeeps
  <2> HIDE DEF m
  <2>3. m.obj[f] # NULL
    BY <2>1, <2>2 DEF SameFrames
  <2>4. MemInv(mem') /\ SameBut(m, mem', f) /\ InWork(mem', f)
    BY <1>9, <2>1, <2>2, <2>3, SetBusyKeeps DEF m
  <2>5. SameBut(mem, mem', f) /\ OthersOff(t, f)
    BY <1>9, <2>2, <2>4, SameFramesThen, IdleFrame, Zenon
  <2>6. LocOK(t, l, held') /\ l.f = f /\ GoesTo(t, l)
    BY <1>4, <1>9, <2>1 DEF GoesTo
  <2> HIDE DEF l
  <2> QED  BY <1>1, <2>4, <2>5, <2>6, StepKeeps
<1>10. ASSUME mem' = Sleep(Broadcast(mem, pageoutd_waitq), t, alloc_waitq), Leave(t, again)
       PROVE  IInv'
  <2> DEFINE m == Broadcast(mem, pageoutd_waitq)
  <2>1. /\ pageoutd_waitq \in Queue /\ alloc_waitq \in Queue /\ Pageoutd \in Thread
        /\ alloc_waitq \notin Frame /\ alloc_waitq # pageoutd_waitq
    BY DEF Queue, Thread, Distinct
  <2>2. MemInv(m) /\ SameFrames(mem, m) /\ m.asleep[Pageoutd] # pageoutd_waitq
    BY <1>1, <2>1, BroadcastKeeps
  <2> HIDE DEF m
  <2>3. MemInv(mem') /\ SameFrames(m, mem')
    BY <1>1, <1>10, <2>1, <2>2, SleepKeeps DEF m
  <2>4. SameFrames(mem, mem') /\ GoesTo(t, again)
    BY <1>10, <2>2, <2>3, SameFramesThen DEF GoesTo
  <2> QED  BY <1>1, <1>2, <2>3, <2>4, StepAside
<1>11. ASSUME Resident(mem, v, p) = {}, NEW f \in Frame, mem.obj[f] = NULL,
              mem' = set_busy(pframe_alloc(mem, f, v, p), f), Leave(t, on("fill", f))
       PROVE  IInv'
  <2> DEFINE l == on("fill", f)
  <2>1. MemInv(mem') /\ SameBut(mem, mem', f) /\ InWork(mem', f)
    <3>1. LET n == set_busy(pframe_alloc(mem, f, v, p), f) IN
          MemInv(n) /\ SameBut(mem, n, f) /\ InWork(n, f)
      BY <1>1, <1>11, AllocKeeps, Zenon
    <3> QED  BY <1>11, <3>1
  <2>2. OthersOff(t, f)
    BY <1>11, IdleFrame
  <2>3. LocOK(t, l, held') /\ l.f = f /\ GoesTo(t, l)
    BY <1>3, <1>11 DEF GoesTo
  <2> HIDE DEF l
  <2> QED  BY <1>1, <2>1, <2>2, <2>3, StepKeeps
<1> QED  BY <1>6, <1>7, <1>8, <1>9, <1>10, <1>11, Zenon

\* pframe_get, from the call and after a sleep.
LEMMA GetStepsKeep ==
  ASSUME Distinct, IInv, NEW t \in User,
         GetAgain(t) \/ \E p \in Page, w \in BOOLEAN : pframe_get(t, p, w)
  PROVE  IInv'
<1>1. CASE GetAgain(t)
  <2>1. t \in Thread /\ run.loc[t].at = "get" /\ LocOK(t, run.loc[t], held)
    BY <1>1 DEF GetAgain, Executes, IInv, Thread
  <2>2. held[t] \in Vnode /\ run.loc[t].page \in Page /\ run.loc[t].forwrite \in BOOLEAN
    BY <2>1 DEF LocOK, Location
  <2>3. Get(t, run.loc[t].page, run.loc[t].forwrite) /\ UNCHANGED held
    BY <1>1 DEF GetAgain
  <2> QED  BY <2>2, <2>3, GetKeeps
<1>2. ASSUME NEW p \in Page, NEW w \in BOOLEAN, pframe_get(t, p, w)
      PROVE  IInv'
  <2>1. held[t] \in Vnode /\ Get(t, p, w) /\ UNCHANGED held
    BY <1>2 DEF pframe_get, IInv
  <2> QED  BY <2>1, GetKeeps
<1> QED  BY <1>1, <1>2

\* A thread at work on a frame is alone on it.
LEMMA WorkerAlone ==
  ASSUME IInv, NEW t \in Thread, Works(run.loc[t])
  PROVE  /\ run.loc[t].f \in Frame /\ mem.obj[run.loc[t].f] # NULL
         /\ OthersOff(t, run.loc[t].f) /\ MemInv(mem) /\ run.loc[t] \in Location
<1>1. LocOK(t, run.loc[t], held) /\ MemInv(mem)
  BY DEF IInv
<1>2. mem.obj[run.loc[t].f] # NULL /\ OthersOff(t, run.loc[t].f)
  BY DEF IInv, OneWorker, AtWork, OthersOff, Works
<1> QED  BY <1>1, <1>2 DEF LocOK, Works

\* pframe_clear_busy by the thread at work on frame f, the flag set before or not.
LEMMA ClearBusyEnds ==
  ASSUME Distinct, NEW m, MemInv(m), NEW f \in Frame
  PROVE  LET n == clear_busy(m, f)
             d == clear_busy([m EXCEPT !.dirty[f] = TRUE], f)
         IN  MemInv(n) /\ SameBut(m, n, f) /\ MemInv(d) /\ SameBut(m, d, f)
<1> DEFINE k == [m EXCEPT !.dirty[f] = TRUE]
<1>1. MemInv(k) /\ SameFrames(m, k)
  BY DirtyFlagKeeps, Zenon
<1> HIDE DEF k
<1>2. MemInv(clear_busy(k, f)) /\ SameBut(k, clear_busy(k, f), f)
  BY <1>1, ClearBusyKeeps
<1>3. SameBut(m, clear_busy(k, f), f)
  BY <1>1, <1>2, SameFramesThen, Zenon
<1>4. MemInv(clear_busy(m, f)) /\ SameBut(m, clear_busy(m, f), f)
  BY ClearBusyKeeps
<1> QED  BY <1>2, <1>3, <1>4 DEF k

\* The end of pframe_dirty.
LEMMA DirtyKeeps ==
  ASSUME Distinct, IInv, NEW t \in User, pframe_dirty(t)
  PROVE  IInv'
<1> DEFINE f == run.loc[t].f
<1>1. t \in Thread /\ Works(run.loc[t])
  BY DEF pframe_dirty, Executes, Thread, Works
<1>2. f \in Frame /\ OthersOff(t, f) /\ MemInv(mem)
  BY <1>1, WorkerAlone
<1>3. mem' = clear_busy([mem EXCEPT !.dirty[f] = TRUE], f) \/ mem' = clear_busy(mem, f)
  BY DEF pframe_dirty
<1>4. GoesTo(t, At("user")) /\ OthersHold(t)
  BY HeldAlone DEF pframe_dirty, GoesTo
<1> HIDE DEF f
<1>5. MemInv(mem') /\ SameBut(mem, mem', f)
  BY <1>2, <1>3, ClearBusyEnds
<1>6. LocOK(t, At("user"), held') /\ ~Works(At("user"))
  BY PlainLocOK
<1> QED  BY <1>1, <1>2, <1>4, <1>5, <1>6, StepKeeps

\* The end of pframe_clean.
LEMMA CleanKeeps ==
  ASSUME Distinct, IInv, NEW t \in Thread, pframe_clean(t)
  PROVE  IInv'
<1> DEFINE f == run.loc[t].f
           l == At(IF t = Pageoutd THEN "pageoutd" ELSE "clean_all")
<1>1. Works(run.loc[t])
  BY DEF pframe_clean, Executes, Works
<1>2. f \in Frame /\ OthersOff(t, f) /\ MemInv(mem)
  BY <1>1, WorkerAlone
<1>3. mem' = clear_busy([mem EXCEPT !.dirty[f] = TRUE], f) \/ mem' = clear_busy(mem, f)
  BY DEF pframe_clean
<1>4. GoesTo(t, l) /\ OthersHold(t)
  BY HeldAlone DEF pframe_clean, GoesTo
<1>5. LocOK(t, l, held') /\ ~Works(l)
  BY PlainLocOK
<1> HIDE DEF f, l
<1>6. MemInv(mem') /\ SameBut(mem, mem', f)
  BY <1>2, <1>3, ClearBusyEnds
<1> QED  BY <1>2, <1>4, <1>5, <1>6, StepKeeps

\* The end of pframe_fill: a page to be written is made busy again at once.
LEMMA FillKeeps ==
  ASSUME Distinct, IInv, NEW t \in User, pframe_fill(t)
  PROVE  IInv'
<1> DEFINE l == run.loc[t]
           f == l.f
           m == clear_busy(mem, f)
           d == [l EXCEPT !.at = "dirty"]
<1>1. t \in Thread /\ Works(l)
  BY DEF pframe_fill, Executes, Thread, Works
<1>2. f \in Frame /\ OthersOff(t, f) /\ MemInv(mem) /\ mem.obj[f] # NULL /\ l \in Location
  BY <1>1, WorkerAlone
<1>3. MemInv(m) /\ m.obj = mem.obj /\ SameBut(mem, m, f) /\ OthersHold(t)
  BY <1>2, ClearBusyKeeps, HeldAlone DEF pframe_fill
<1>4. /\ mem' = IF l.forwrite THEN set_busy(m, f) ELSE m
      /\ Leave(t, IF l.forwrite THEN d ELSE At("user"))
  BY DEF pframe_fill
<1>5. LocOK(t, d, held') /\ d.f = f
  <2>1. d \in Location /\ d.at = "dirty" /\ d.f = l.f
    <3> HIDE DEF l
    <3> QED  BY <1>2, Zenon DEF Location
  <2> HIDE DEF d
  <2> QED  BY <1>2, <2>1 DEF LocOK
<1>6. LocOK(t, At("user"), held') /\ ~Works(At("user"))
  BY PlainLocOK
<1> HIDE DEF l, f, m, d
<1>7. CASE l.forwrite
  <2>1. mem' = set_busy(m, f) /\ GoesTo(t, d)
    BY <1>4, <1>7 DEF GoesTo
  <2>2. MemInv(mem') /\ SameBut(m, mem', f) /\ InWork(mem', f)
    BY <1>2, <1>3, <2>1, SetBusyKeeps
  <2>3. SameBut(mem, mem', f)
    BY <1>3, <2>2 DEF SameBut
  <2> QED  BY <1>1, <1>2, <1>3, <1>5, <2>1, <2>2, <2>3, StepKeeps
<1>8. CASE ~l.forwrite
  <2>1. mem' = m /\ GoesTo(t, At("user"))
    BY <1>4, <1>8 DEF GoesTo
  <2> QED  BY <1>1, <1>2, <1>3, <1>6, <2>1, StepKeeps
<1> QED  BY <1>7, <1>8

\* pframe_clean up to the call of cleanpage.
LEMMA CleanStartsKeeps ==
  ASSUME Distinct, IInv, NEW t \in Thread, NEW f \in Frame, mem.obj[f] # NULL, ~mem.pbusy[f],
         mem' = CleanStarts(mem, f), Leave(t, [At("clean") EXCEPT !.f = f]), UNCHANGED held
  PROVE  IInv'
<1> DEFINE m == [mem EXCEPT !.dirty[f] = FALSE]
           l == [At("clean") EXCEPT !.f = f]
<1>1. MemInv(m) /\ SameFrames(mem, m)
  <2>1. MemInv(mem)
    BY DEF IInv
  <2> QED  BY <2>1, DirtyFlagKeeps, Zenon
<1>2. mem' = set_busy(m, f)
  BY DEF CleanStarts
<1>3. LocOK(t, l, held') /\ l.f = f
  BY CleanLocOK
<1>4. GoesTo(t, l) /\ OthersHold(t)
  BY HeldAlone DEF GoesTo
<1> HIDE DEF m, l
<1>5. m.obj[f] # NULL
  BY <1>1 DEF SameFrames
<1>6. MemInv(mem') /\ SameBut(m, mem', f) /\ InWork(mem', f)
  BY <1>1, <1>2, <1>5, SetBusyKeeps
<1>7. SameBut(mem, mem', f)
  BY <1>1, <1>6, SameFramesThen, Zenon
<1>8. OthersOff(t, f)
  BY IdleFrame
<1> QED  BY <1>3, <1>4, <1>6, <1>7, <1>8, StepKeeps

\* A thread that writes pages back sleeps on a busy one.
LEMMA SleepOnPageKeeps ==
  ASSUME Distinct, IInv, NEW t \in Thread, NEW f \in Frame, mem.obj[f] # NULL, mem.pbusy[f],
         mem' = Sleep(mem, t, f), UNCHANGED held, NEW l, l \in {At("clean_all"), At("pageoutd")}, Leave(t, l)
  PROVE  IInv'
<1>1. MemInv(mem) /\ InWork(mem, f)
  BY DEF IInv, InWork
<1>2. MemInv(mem') /\ SameFrames(mem, mem')
  BY <1>1, SleepOnPage
<1>3. LocOK(t, l, held') /\ ~Works(l)
  BY PlainLocOK
<1>4. GoesTo(t, l) /\ OthersHold(t)
  BY HeldAlone DEF GoesTo
<1> QED  BY <1>2, <1>3, <1>4, StepAside

\* A turn of pframe_clean_all.
LEMMA CleanAllKeeps ==
  ASSUME Distinct, IInv, NEW t \in User, CleanAll(t), UNCHANGED held
  PROVE  IInv'
<1>1. t \in Thread /\ MemInv(mem)
  BY DEF Thread, IInv
<1>2. \A f \in ToClean : f \in Frame /\ mem.obj[f] # NULL
  BY <1>1 DEF ToClean, MemInv, ListsAgree, Range
<1>3. CASE UNCHANGED mem /\ Leave(t, At("user"))
  <2>1. MemInv(mem') /\ SameFrames(mem, mem')
    BY <1>1, <1>3 DEF SameFrames
  <2>2. LocOK(t, At("user"), held') /\ ~Works(At("user"))
    BY PlainLocOK
  <2>3. GoesTo(t, At("user")) /\ OthersHold(t)
    BY <1>3, HeldAlone DEF GoesTo
  <2> QED  BY <1>1, <2>1, <2>2, <2>3, StepAside
<1>4. ASSUME NEW f \in ToClean, mem.pbusy[f], mem' = Sleep(mem, t, f), Leave(t, At("clean_all"))
      PROVE  IInv'
  BY <1>1, <1>2, <1>4, SleepOnPageKeeps
<1>5. ASSUME NEW f \in ToClean, ~mem.pbusy[f], mem' = CleanStarts(mem, f), Leave(t, [At("clean") EXCEPT !.f = f])
      PROVE  IInv'
  BY <1>1, <1>2, <1>5, CleanStartsKeeps
<1> QED  BY <1>3, <1>4, <1>5, Zenon DEF CleanAll

\* The page-out daemon has nothing to do: it wakes the threads that wait for
\* memory before it sleeps.
LEMMA PageoutSleepsKeeps ==
  ASSUME Distinct, IInv, PageoutSleeps, UNCHANGED held
  PROVE  IInv'
<1> DEFINE m == Broadcast(mem, alloc_waitq)
<1>1. alloc_waitq \in Queue /\ pageoutd_waitq \in Queue /\ Pageoutd \in Thread /\ MemInv(mem) /\ User \subseteq Thread
  BY DEF Queue, Thread, IInv
<1>2. MemInv(m) /\ SameFrames(mem, m) /\ \A u \in Thread : m.asleep[u] # alloc_waitq
  BY <1>1, BroadcastKeeps
<1>3. mem' = Sleep(m, Pageoutd, pageoutd_waitq) /\ GoesTo(Pageoutd, At("pageoutd")) /\ OthersHold(Pageoutd)
  BY HeldAlone DEF PageoutSleeps, GoesTo
<1> HIDE DEF m
<1>4. pageoutd_waitq \notin Frame /\ pageoutd_waitq # alloc_waitq /\ \A u \in User : m.asleep[u] # alloc_waitq
  BY <1>1, <1>2 DEF Distinct
<1>5. MemInv(mem') /\ SameFrames(m, mem')
  BY <1>1, <1>2, <1>3, <1>4, SleepKeeps
<1>6. SameFrames(mem, mem')
  BY <1>2, <1>5, SameFramesThen
<1>7. LocOK(Pageoutd, At("pageoutd"), held') /\ ~Works(At("pageoutd"))
  BY PlainLocOK
<1> QED  BY <1>1, <1>3, <1>5, <1>6, <1>7, StepAside

\* The page-out daemon takes page f: it waits for it, writes it or frees it.
LEMMA PageoutPageKeeps ==
  ASSUME Distinct, IInv, NEW f \in Frame, mem.obj[f] # NULL, PageoutPage(f)
  PROVE  IInv'
<1>1. Pageoutd \in Thread /\ MemInv(mem)
  BY DEF Thread, IInv
<1>2. CASE mem.pbusy[f] /\ mem' = Sleep(mem, Pageoutd, f) /\ Leave(Pageoutd, At("pageoutd")) /\ UNCHANGED held
  BY <1>1, <1>2, SleepOnPageKeeps
<1>3. CASE ~mem.pbusy[f] /\ mem' = CleanStarts(mem, f)
           /\ Leave(Pageoutd, [At("clean") EXCEPT !.f = f]) /\ UNCHANGED held
  BY <1>1, <1>3, CleanStartsKeeps
<1>4. CASE ~mem.pbusy[f] /\ vput(Pageoutd, Uncached(mem, f), mem.obj[f])
  <2> DEFINE m == Uncached(mem, f)
             v == mem.obj[f]
  <2>1. MemInv(m) /\ v \in Vnode /\ SameBut(mem, m, f)
    BY <1>1, <1>4, UncachedKeeps
  <2>2. AllOff(f)
    BY <1>4, IdleFrame
  <2>3. vput(Pageoutd, m, v)
    BY <1>4
  <2> HIDE DEF m, v
  <2> QED  BY <1>1, <2>1, <2>2, <2>3, VputKeeps
<1> QED  BY <1>2, <1>3, <1>4 DEF PageoutPage

\* A turn of pageoutd_run.
LEMMA PageoutdKeeps ==
  ASSUME Distinct, IInv, pageoutd_run
  PROVE  IInv'
<1>1. CASE PageoutSleeps /\ UNCHANGED held
  BY <1>1, PageoutSleepsKeeps
<1>2. CASE mem.alloc_list # <<>> /\ PageoutPage(Head(mem.alloc_list))
  <2>1. mem.alloc_list \in Seq(Frame) /\ Range(mem.alloc_list) = {f \in Frame : mem.obj[f] # NULL}
    BY DEF IInv, MemInv, Mem, ListsAgree
  <2>2. 1 \in DOMAIN mem.alloc_list /\ Head(mem.alloc_list) = mem.alloc_list[1]
    BY <1>2, <2>1
  <2>3. Head(mem.alloc_list) \in Frame /\ mem.obj[Head(mem.alloc_list)] # NULL
    BY <2>1, <2>2 DEF Range
  <2> QED  BY <1>2, <2>3, PageoutPageKeeps
<1> QED  BY <1>1, <1>2 DEF pageoutd_run

\* Links come and go, or nothing happens.
LEMMA NothingKeeps ==
  ASSUME IInv, UNCHANGED <<mem, held, run>>
  PROVE  IInv'
BY DEF IInv, OneWorker, AtWork

\* No vnode and no page frame is in use at first.
LEMMA InitHolds ==
  ASSUME Distinct, CacheInit
  PROVE  IInv
<1>1. mem \in Mem
  <2> DEFINE pages == [v \in Vnode |-> <<>>]
  <2>1. pages \in [Vnode -> Seq(Frame)] /\ <<>> \in Seq(Frame)
    OBVIOUS
  <2>2. mem = [ino |-> [v \in Vnode |-> NULL], ref |-> [v \in Vnode |-> 0],
               busy |-> [v \in Vnode |-> FALSE], respages |-> pages,
               obj |-> [f \in Frame |-> NULL], page |-> [f \in Frame |-> NULL],
               pbusy |-> [f \in Frame |-> FALSE], dirty |-> [f \in Frame |-> FALSE],
               alloc_list |-> <<>>, asleep |-> [t \in Thread |-> NULL], panic |-> FALSE]
    BY DEF CacheInit
  <2>3. /\ [v \in Vnode |-> NULL] \in [Vnode -> Ino \cup {NULL}] /\ [v \in Vnode |-> 0] \in [Vnode -> Int]
        /\ [v \in Vnode |-> FALSE] \in [Vnode -> BOOLEAN] /\ [f \in Frame |-> NULL] \in [Frame -> Vnode \cup {NULL}]
        /\ [f \in Frame |-> NULL] \in [Frame -> Page \cup {NULL}] /\ [f \in Frame |-> FALSE] \in [Frame -> BOOLEAN]
        /\ [t \in Thread |-> NULL] \in [Thread -> Queue \cup {NULL}] /\ FALSE \in BOOLEAN
    OBVIOUS
  <2> HIDE DEF pages
  <2> QED  BY <2>1, <2>2, <2>3, Zenon DEF Mem
<1>2. /\ mem.alloc_list = <<>> /\ \A v \in Vnode : mem.ino[v] = NULL /\ mem.respages[v] = <<>>
      /\ \A f \in Frame : mem.obj[f] = NULL
      /\ \A t \in Thread : mem.asleep[t] = NULL
  BY DEF CacheInit
<1>3. IsInjective(<<>>) /\ Range(<<>>) = {}
  BY DEF IsInjective, Range
<1>4. ListsAgree(mem)
  BY <1>2, <1>3 DEF ListsAgree, Distinct
<1>5. SleepersServed(mem) /\ CachedOnce(mem)
  BY <1>2 DEF SleepersServed, CachedOnce, Distinct, Thread
<1>6. held \in [User -> Vnode \cup {NULL}]
  BY DEF CacheInit
<1>7. /\ run.cur = NULL
      /\ run = [cur |-> run.cur, loc |-> run.loc]
      /\ run.loc = [t \in Thread |-> At(IF t = Pageoutd THEN "pageoutd" ELSE "user")]
  BY DEF CacheInit
<1>8. \A t \in Thread : run.loc[t] \in {At("pageoutd"), At("user")}
  BY <1>7
<1>9. \A t \in Thread : LocOK(t, run.loc[t], held) /\ ~AtWork(t)
  BY <1>8, PlainLocOK DEF AtWork, Works
<1>10. run.loc \in [Thread -> Location]
  BY <1>7, <1>9 DEF LocOK
<1>11. run \in [cur : Thread \cup {NULL}, loc : [Thread -> Location]]
  BY <1>7, <1>10
<1> QED  BY <1>1, <1>4, <1>5, <1>6, <1>9, <1>11 DEF IInv, MemInv, OneWorker

\* Every step of every thread preserves the invariant.
LEMMA NextKeeps ==
  ASSUME Distinct, IInv, [CacheNext]_cachevars
  PROVE  IInv'
<1>1. ASSUME NEW t \in User, NEW i \in Ino, vget(t, i)
      PROVE  IInv'
  BY <1>1, FindKeeps DEF vget
<1>2. ASSUME NEW t \in User, VgetAgain(t)
      PROVE  IInv'
  <2>1. t \in Thread /\ run.loc[t].at = "find" /\ LocOK(t, run.loc[t], held) /\ Find(t, run.loc[t].ino)
    BY <1>2 DEF VgetAgain, Executes, IInv, Thread
  <2>2. run.loc[t].ino \in Ino
    BY <2>1 DEF LocOK
  <2> QED  BY <2>1, <2>2, FindKeeps
<1>3. ASSUME NEW t \in User, VgetEnds(t) \/ Release(t)
      PROVE  IInv'
  BY <1>3, VgetEndsKeeps, ReleaseKeeps
<1>4. ASSUME NEW t \in User, GetAgain(t) \/ \E p \in Page, w \in BOOLEAN : pframe_get(t, p, w)
      PROVE  IInv'
  BY <1>4, GetStepsKeep
<1>5. ASSUME NEW t \in User, pframe_fill(t) \/ pframe_dirty(t)
      PROVE  IInv'
  BY <1>5, FillKeeps, DirtyKeeps
<1>6. ASSUME NEW t \in User, pframe_clean_all(t) \/ CleanAllAgain(t)
      PROVE  IInv'
  BY <1>6, CleanAllKeeps DEF pframe_clean_all, CleanAllAgain
<1>7. ASSUME NEW t \in User, Unlink(t)
      PROVE  IInv'
  BY <1>7, NothingKeeps DEF Unlink
<1>8. ASSUME NEW t \in Thread, UncachePages(t) \/ VputEnds(t) \/ pframe_clean(t)
      PROVE  IInv'
  BY <1>8, UncachePagesKeeps, VputEndsKeeps, CleanKeeps
<1>9. CASE pageoutd_run
  BY <1>9, PageoutdKeeps
<1>10. ASSUME NEW i \in Ino, Create(i)
       PROVE  IInv'
  BY <1>10, NothingKeeps DEF Create
<1>11. CASE UNCHANGED cachevars
  BY <1>11, NothingKeeps DEF cachevars
<1> QED  BY <1>1, <1>2, <1>3, <1>4, <1>5, <1>6, <1>7, <1>8, <1>9, <1>10, <1>11 DEF CacheNext

-----------------------------------------------------------------------------
\* The invariant holds in every reachable state.
LEMMA Invariance ==
  ASSUME Distinct
  PROVE  CacheSpec => []IInv
<1>1. CacheInit => IInv
  BY InitHolds
<1>2. IInv /\ [CacheNext]_cachevars => IInv'
  BY NextKeeps
<1> QED  BY <1>1, <1>2, PTL DEF CacheSpec

\* pframe_clear_busy and pageoutd_run wake everybody who would wait for ever:
\* nobody sleeps on a page that is not busy, and nobody waits for memory while
\* the page-out daemon sleeps, for any number of threads, vnodes and pages.
THEOREM WakeupsNotLost ==
  ASSUME Distinct
  PROVE  CacheSpec => []NoLostWakeup
<1>1. IInv => NoLostWakeup
  BY DEF IInv, MemInv, SleepersServed, NoLostWakeup, PageSleepersBehindBusy, MemoryWaitersServed
<1> QED  BY <1>1, Invariance, PTL

\* vget never brings in a second vnode for an inode, nor pframe_get a second
\* frame for a page, although both give up the processor between looking for
\* one and filling it.
THEOREM FilesCachedOnce ==
  ASSUME Distinct
  PROVE  CacheSpec => []OneCopy
<1>1. IInv => OneCopy
  BY DEF IInv, MemInv, CachedOnce, OneCopy
<1> QED  BY <1>1, Invariance, PTL

\* PF_BUSY is a lock: while fillpage, dirtypage or cleanpage is at work on a
\* frame it stays resident and busy, and no other thread is at work on it.
THEOREM BusyExcludes ==
  ASSUME Distinct
  PROVE  CacheSpec => []OneWorker
<1>1. IInv => OneWorker
  BY DEF IInv
<1> QED  BY <1>1, Invariance, PTL

-----------------------------------------------------------------------------
(***************************************************************************)
(* What was written.  NoLostWrite is not inductive: when dirtypage fails,  *)
(* pframe_dirty clears PF_BUSY and leaves the dirty flag as it is, so a    *)
(* page with unsaved data must have been dirty when the thread marked it   *)
(* busy, and one that is being filled must have none.                      *)
(***************************************************************************)

\* The data of frame f is on the disk, or the frame is dirty or being written.
SafeFrame(m, u, f) == f \in u => m.obj[f] # NULL /\ (m.dirty[f] \/ m.pbusy[f])

\* A frame that is being filled has nothing to save; one that is made dirty is
\* dirty already if it has.
SafePlace(l, m, u) ==
  /\ l.at = "fill" => l.f \notin u
  /\ l.at = "dirty" /\ l.f \in u => m.dirty[l.f]

WInv ==
  /\ unsaved \subseteq Frame
  /\ \A f \in Frame : SafeFrame(mem, unsaved, f)
  /\ \A t \in Thread : SafePlace(run.loc[t], mem, unsaved)

\* Two memories with the same frames and flags; and the same but for f.
Still(m, n) == n.obj = m.obj /\ n.pbusy = m.pbusy /\ n.dirty = m.dirty
StillBut(m, n, f) ==
  \A g \in Frame : g # f => n.obj[g] = m.obj[g] /\ n.pbusy[g] = m.pbusy[g] /\ n.dirty[g] = m.dirty[g]

\* Nothing is written or saved but in frame f.
SavedBut(f) == unsaved' \subseteq Frame /\ \A g \in Frame : g # f => (g \in unsaved' <=> g \in unsaved)

\* Thread t goes on at l, or stops there when an assertion fails.
Moves(t, l) == GoesTo(t, l) \/ (run' = run /\ run.loc[t] = l)

\* Places where no frame is filled or made dirty.
Idle(l) == l.at \notin {"fill", "dirty"}

\* A step of thread t that concerns no frame but f.
LEMMA SaveStep ==
  ASSUME IInv, WInv, NEW t \in Thread, NEW l, Moves(t, l), NEW f, OthersOff(t, f), StillBut(mem, mem', f),
         SavedBut(f), f \in Frame => SafeFrame(mem', unsaved', f), SafePlace(l, mem', unsaved')
  PROVE  WInv'
<1>1. /\ run.loc \in [Thread -> Location] /\ run'.loc[t] = l
      /\ \A u \in Thread : u # t => run'.loc[u] = run.loc[u]
  BY DEF Moves, GoesTo, Stay, Leave, IInv
<1>2. ASSUME NEW u \in Thread, u # t
      PROVE  SafePlace(run.loc[u], mem', unsaved')
  <2>1. CASE AtWork(u)
    <3>1. run.loc[u].f \in Frame /\ run.loc[u].f # f
      BY <1>2, <2>1 DEF IInv, LocOK, AtWork, OthersOff
    <3>2. /\ mem'.dirty[run.loc[u].f] = mem.dirty[run.loc[u].f]
          /\ run.loc[u].f \in unsaved' <=> run.loc[u].f \in unsaved
      BY <3>1, Zenon DEF StillBut, SavedBut
    <3> QED  BY <3>2, Zenon DEF WInv, SafePlace
  <2>2. CASE ~AtWork(u)
    BY <2>2 DEF AtWork, SafePlace
  <2> QED  BY <2>1, <2>2
<1>3. ASSUME NEW u \in Thread
      PROVE  SafePlace(run'.loc[u], mem', unsaved')
  <2>1. CASE u = t
    BY <1>1, <2>1
  <2>2. CASE u # t
    BY <1>1, <1>2, <2>2
  <2> QED  BY <2>1, <2>2
<1>4. ASSUME NEW g \in Frame
      PROVE  SafeFrame(mem', unsaved', g)
  <2>1. CASE g # f
    BY <2>1 DEF WInv, SafeFrame, StillBut, SavedBut
  <2> QED  BY <2>1
<1>5. unsaved' \subseteq Frame
  BY DEF SavedBut
<1> QED  BY <1>3, <1>4, <1>5 DEF WInv

\* A step that neither writes nor frees a frame.
LEMMA SaveAside ==
  ASSUME Distinct, IInv, WInv, NEW t \in Thread, NEW l, Moves(t, l), Idle(l), Still(mem, mem'), UNCHANGED unsaved
  PROVE  WInv'
<1>1. OthersOff(t, NULL) /\ NULL \notin Frame
  BY IdleFrame DEF Distinct
<1>2. StillBut(mem, mem', NULL) /\ SavedBut(NULL) /\ SafePlace(l, mem', unsaved')
  BY DEF StillBut, Still, SavedBut, WInv, Idle, SafePlace
<1> QED  BY <1>1, <1>2, SaveStep

\* Where no frame is filled or made dirty.
LEMMA IdlePlaces ==
  /\ Idle(At("user")) /\ Idle(At("pageoutd")) /\ Idle(At("clean_all")) /\ \A t : Idle(Caller(t))
  /\ \A p, w : Idle([At("get") EXCEPT !.page = p, !.forwrite = w])
  /\ \A i : Idle([At("find") EXCEPT !.ino = i])
  /\ \A v : Idle([At("read_vnode") EXCEPT !.v = v]) /\ Idle([At("delete_vnode") EXCEPT !.v = v])
  /\ \A v, f : Idle([At("uncache") EXCEPT !.v = v, !.f = f]) /\ \A m : Idle(Uncache(v, f, m))
  /\ \A f : Idle([At("clean") EXCEPT !.f = f])
<1>1. /\ Idle(At("user")) /\ Idle(At("pageoutd")) /\ Idle(At("clean_all")) /\ \A t : Idle(Caller(t))
      /\ \A p, w : Idle([At("get") EXCEPT !.page = p, !.forwrite = w])
  BY DEF Idle, At, Caller
<1>2. /\ \A i : Idle([At("find") EXCEPT !.ino = i])
      /\ \A v : Idle([At("read_vnode") EXCEPT !.v = v]) /\ Idle([At("delete_vnode") EXCEPT !.v = v])
  BY DEF Idle, At
<1>3. /\ \A v, f, x : Idle([At("uncache") EXCEPT !.v = v, !.f = f, !.next = x])
      /\ \A v, f : Idle([At("uncache") EXCEPT !.v = v, !.f = f])
      /\ \A f : Idle([At("clean") EXCEPT !.f = f])
  BY DEF Idle, At
<1>4. \A v, f, m : Idle(Uncache(v, f, m))
  BY <1>3, Zenon DEF Uncache
<1> QED  BY <1>1, <1>2, <1>3, <1>4, Zenon

\* What leaves the frames and their flags alone.
LEMMA StillOps ==
  ASSUME NEW m \in Mem
  PROVE  /\ \A t, q : Still(m, Sleep(m, t, q))
         /\ \A q : Still(m, Broadcast(m, q)) /\ \A t, p : Still(m, Sleep(Broadcast(m, q), t, p))
         /\ Still(m, m) /\ Still(m, Panic(m))
         /\ \A f : Still(m, pframe_get_resident(m, f)) /\ \A t : Still(m, Sleep(pframe_get_resident(m, f), t, f))
         /\ \A v, k, b : /\ Still(m, [m EXCEPT !.ref[v] = k]) /\ Still(m, Panic([m EXCEPT !.ref[v] = k]))
                         /\ Still(m, [m EXCEPT !.busy[v] = b, !.ref[v] = k])
         /\ \A v, i, b : Still(m, [m EXCEPT !.ino[v] = i, !.busy[v] = b])
         /\ \A v, i, b : Still(m, [Broadcast(m, v) EXCEPT !.ino[v] = i, !.busy[v] = b])
<1>1. \A t, q : Still(m, Sleep(m, t, q))
  BY Zenon DEF Mem, Still, Sleep
<1>2. \A q : Still(m, Broadcast(m, q)) /\ \A t, p : Still(m, Sleep(Broadcast(m, q), t, p))
  BY Zenon DEF Mem, Still, Sleep, Broadcast
<1>3. Still(m, m) /\ Still(m, Panic(m))
  BY Zenon DEF Mem, Still, Panic
<1>4. \A f : Still(m, pframe_get_resident(m, f)) /\ \A t : Still(m, Sleep(pframe_get_resident(m, f), t, f))
  BY Zenon DEF Mem, Still, Sleep, pframe_get_resident
<1>5. \A v, k, b : /\ Still(m, [m EXCEPT !.ref[v] = k]) /\ Still(m, Panic([m EXCEPT !.ref[v] = k]))
                   /\ Still(m, [m EXCEPT !.busy[v] = b, !.ref[v] = k])
  BY Zenon DEF Mem, Still, Panic
<1>6. \A v, i, b : Still(m, [m EXCEPT !.ino[v] = i, !.busy[v] = b])
  BY Zenon DEF Mem, Still
<1>7. \A v, i, b : Still(m, [Broadcast(m, v) EXCEPT !.ino[v] = i, !.busy[v] = b])
  BY Zenon DEF Mem, Still, Broadcast
<1> QED  BY <1>1, <1>2, <1>3, <1>4, <1>5, <1>6, <1>7, Zenon

\* The end of vput.
LEMMA DropMoves ==
  ASSUME NEW t, NEW m \in Mem, NEW v, DropReference(t, m, v)
  PROVE  Still(m, mem') /\ \E l : Moves(t, l) /\ Idle(l)
<1> DEFINE dropped == [m EXCEPT !.ref[v] = @ - 1]
<1>1. \A l : Stay(t, l) \/ Leave(t, l) => Moves(t, l)
  BY DEF Moves, GoesTo
<1>2. mem' = dropped \/ mem' = [dropped EXCEPT !.busy[v] = TRUE] \/ mem' = Panic(dropped)
  BY Zenon DEF DropReference
<1>3. Still(m, dropped) /\ Still(m, [dropped EXCEPT !.busy[v] = TRUE]) /\ Still(m, Panic(dropped))
  BY Zenon DEF Mem, Still, Panic
<1>4. \/ Stay(t, Caller(t)) \/ Leave(t, Caller(t))
      \/ Leave(t, [At("delete_vnode") EXCEPT !.v = v])
  BY Zenon DEF DropReference
<1>5. \E l : Moves(t, l) /\ Idle(l)
  BY <1>1, <1>4, IdlePlaces, Zenon
<1> HIDE DEF dropped
<1> QED  BY <1>2, <1>3, <1>5, Zenon

\* vput leaves the frames alone.
LEMMA VputMoves ==
  ASSUME NEW t \in Thread, Idle(run.loc[t]), NEW m \in Mem, NEW v, vput(t, m, v)
  PROVE  Still(m, mem') /\ \E l : Moves(t, l) /\ Idle(l)
<1>1. CASE mem' = Panic(m) /\ run' = run
  BY <1>1, StillOps, Zenon DEF Moves
<1>2. CASE mem' = m /\ \E f : Stay(t, Uncache(v, f, m))
  BY <1>2, StillOps, IdlePlaces, Zenon DEF Moves, GoesTo
<1>3. CASE DropReference(t, m, v)
  BY <1>3, DropMoves
<1> QED  BY <1>1, <1>2, <1>3, Zenon DEF vput

\* The loop of vget.
LEMMA SaveFind ==
  ASSUME Distinct, IInv, WInv, NEW t \in Thread, NEW i, Find(t, i), UNCHANGED unsaved
  PROVE  WInv'
<1>1. mem \in Mem /\ \A l : Leave(t, l) => Moves(t, l)
  BY DEF IInv, MemInv, Moves, GoesTo
<1>2. \E l : Leave(t, l) /\ Idle(l)
  BY IdlePlaces, Zenon DEF Find
<1>3. \A v : Still(mem, [mem EXCEPT !.ref[v] = @ + 1])
  BY <1>1, Zenon DEF Mem, Still
<1>4. \/ \E v : mem' = Sleep(mem, t, v)
      \/ \E v : mem' = [mem EXCEPT !.ref[v] = @ + 1]
      \/ mem' = Panic(mem)
      \/ \E v : mem' = [mem EXCEPT !.ino[v] = i, !.busy[v] = TRUE]
  BY Zenon DEF Find
<1>5. Still(mem, mem')
  <2>1. ASSUME NEW v, mem' = [mem EXCEPT !.ino[v] = i, !.busy[v] = TRUE]
        PROVE  Still(mem, mem')
    BY <1>1, <2>1, StillOps, Zenon
  <2>2. ASSUME NEW v, mem' = Sleep(mem, t, v) \/ mem' = [mem EXCEPT !.ref[v] = @ + 1] \/ mem' = Panic(mem)
        PROVE  Still(mem, mem')
    BY <1>1, <1>3, <2>2, StillOps, Zenon
  <2> QED  BY <1>4, <2>1, <2>2, Zenon
<1> QED  BY <1>1, <1>2, <1>5, SaveAside

\* vget, vput and the end of read_vnode and of delete_vnode.
LEMMA SaveVnodes ==
  ASSUME Distinct, IInv, WInv, NEW t \in Thread,
         \/ t \in User /\ ((\E i \in Ino : vget(t, i)) \/ VgetAgain(t) \/ VgetEnds(t) \/ Release(t))
         \/ VputEnds(t)
  PROVE  WInv'
<1>1. mem \in Mem /\ \A l : Stay(t, l) \/ Leave(t, l) => Moves(t, l)
  BY DEF IInv, MemInv, Moves, GoesTo
<1>2. CASE (\E i \in Ino : vget(t, i)) \/ VgetAgain(t)
  BY <1>2, SaveFind DEF vget, VgetAgain
<1>3. CASE VgetEnds(t)
  <2>1. Still(mem, mem')
    BY <1>1, <1>3, StillOps, Zenon DEF VgetEnds
  <2> QED  BY <1>1, <1>3, <2>1, IdlePlaces, SaveAside, Zenon DEF VgetEnds
<1>4. CASE Release(t)
  <2>1. Idle(run.loc[t]) /\ vput(t, mem, held[t]) /\ unsaved' = unsaved
    BY <1>4, Zenon DEF Release, Executes, Idle
  <2> QED  BY <1>1, <2>1, VputMoves, SaveAside, Zenon
<1>5. CASE VputEnds(t)
  <2>1. Still(mem, mem') /\ unsaved' = unsaved
    BY <1>1, <1>5, StillOps, Zenon DEF VputEnds
  <2>2. Moves(t, Caller(t))
    BY <1>1, <1>5 DEF VputEnds
  <2> QED  BY <2>1, <2>2, IdlePlaces, SaveAside, Zenon
<1> QED  BY <1>2, <1>3, <1>4, <1>5

\* The flags of frame f after the operations of pframe.c; nothing changes in
\* the other frames.
LEMMA FrameOps ==
  ASSUME NEW m \in Mem, NEW f \in Frame
  PROVE  /\ StillBut(m, set_busy(m, f), f) /\ set_busy(m, f).obj = m.obj /\ set_busy(m, f).dirty = m.dirty
         /\ set_busy(m, f).pbusy[f]
         /\ StillBut(m, clear_busy(m, f), f) /\ clear_busy(m, f).obj = m.obj /\ clear_busy(m, f).dirty = m.dirty
<1>1. m.pbusy \in [Frame -> BOOLEAN]
  BY DEF Mem
<1>2. set_busy(m, f).obj = m.obj /\ set_busy(m, f).dirty = m.dirty /\ set_busy(m, f).pbusy = [m.pbusy EXCEPT ![f] = TRUE]
  BY Zenon DEF Mem, set_busy
<1>3. /\ clear_busy(m, f).obj = m.obj /\ clear_busy(m, f).dirty = m.dirty
      /\ clear_busy(m, f).pbusy = [m.pbusy EXCEPT ![f] = FALSE]
  BY Zenon DEF Mem, clear_busy, Broadcast
<1> QED  BY <1>1, <1>2, <1>3 DEF StillBut

\* The same when the dirty flag is set or cleared first.
LEMMA DirtyOps ==
  ASSUME NEW m \in Mem, NEW f \in Frame
  PROVE  LET d == clear_busy([m EXCEPT !.dirty[f] = TRUE], f)
             c == CleanStarts(m, f)
         IN  StillBut(m, d, f) /\ d.obj = m.obj /\ d.dirty[f] /\ StillBut(m, c, f) /\ c.obj = m.obj /\ c.pbusy[f]
<1> DEFINE d == clear_busy([m EXCEPT !.dirty[f] = TRUE], f)
           c == CleanStarts(m, f)
<1>1. m.pbusy \in [Frame -> BOOLEAN] /\ m.dirty \in [Frame -> BOOLEAN]
  BY DEF Mem
<1>2. d.obj = m.obj /\ d.pbusy = [m.pbusy EXCEPT ![f] = FALSE] /\ d.dirty = [m.dirty EXCEPT ![f] = TRUE]
  BY Zenon DEF Mem, clear_busy, Broadcast
<1>3. c.obj = m.obj /\ c.pbusy = [m.pbusy EXCEPT ![f] = TRUE] /\ c.dirty = [m.dirty EXCEPT ![f] = FALSE]
  BY Zenon DEF Mem, CleanStarts, set_busy
<1> HIDE DEF d, c
<1>4. StillBut(m, d, f) /\ d.obj = m.obj /\ d.dirty[f] /\ StillBut(m, c, f) /\ c.obj = m.obj /\ c.pbusy[f]
  BY <1>1, <1>2, <1>3 DEF StillBut
<1> QED  BY <1>4 DEF d, c

\* A page comes into frame f, or leaves it.
LEMMA PageOps ==
  ASSUME NEW m \in Mem, NEW f \in Frame
  PROVE  /\ \A v, p : StillBut(m, set_busy(pframe_alloc(m, f, v, p), f), f)
         /\ StillBut(m, Uncached(m, f), f) /\ \A v, k : StillBut(m, [Uncached(m, f) EXCEPT !.ref[v] = k], f)
<1>1. m.pbusy \in [Frame -> BOOLEAN] /\ m.dirty \in [Frame -> BOOLEAN] /\ m.obj \in [Frame -> Vnode \cup {NULL}]
  BY DEF Mem
<1>2. ASSUME NEW v, NEW p
      PROVE  StillBut(m, set_busy(pframe_alloc(m, f, v, p), f), f)
  <2> DEFINE n == set_busy(pframe_alloc(m, f, v, p), f)
  <2>1. /\ n.obj = [m.obj EXCEPT ![f] = v] /\ n.dirty = [m.dirty EXCEPT ![f] = FALSE]
        /\ n.pbusy = [[m.pbusy EXCEPT ![f] = FALSE] EXCEPT ![f] = TRUE]
    BY Zenon DEF Mem, set_busy, pframe_alloc
  <2> HIDE DEF n
  <2>2. StillBut(m, n, f)
    BY <1>1, <2>1 DEF StillBut
  <2> QED  BY <2>2 DEF n
<1>3. /\ Uncached(m, f).obj = [m.obj EXCEPT ![f] = NULL] /\ Uncached(m, f).dirty = [m.dirty EXCEPT ![f] = FALSE]
      /\ Uncached(m, f).pbusy = m.pbusy
  BY Zenon DEF Mem, Uncached
<1>4. \A v, k : LET n == [Uncached(m, f) EXCEPT !.ref[v] = k]
                IN  /\ n.obj = [m.obj EXCEPT ![f] = NULL] /\ n.dirty = [m.dirty EXCEPT ![f] = FALSE]
                    /\ n.pbusy = m.pbusy
  BY Zenon DEF Mem, Uncached
<1>5. StillBut(m, Uncached(m, f), f)
  BY <1>1, <1>3 DEF StillBut
<1>6. ASSUME NEW v, NEW k
      PROVE  StillBut(m, [Uncached(m, f) EXCEPT !.ref[v] = k], f)
  <2> DEFINE n == [Uncached(m, f) EXCEPT !.ref[v] = k]
  <2>1. /\ n.obj = [m.obj EXCEPT ![f] = NULL] /\ n.dirty = [m.dirty EXCEPT ![f] = FALSE]
        /\ n.pbusy = m.pbusy
    BY <1>4, Zenon
  <2> HIDE DEF n
  <2>2. StillBut(m, n, f)
    BY <1>1, <2>1 DEF StillBut
  <2> QED  BY <2>2 DEF n
<1> QED  BY <1>2, <1>5, <1>6

\* fillpage, dirtypage or cleanpage has returned to thread t.
LEMMA SaveWork ==
  ASSUME Distinct, IInv, WInv, NEW t \in Thread, pframe_fill(t) \/ pframe_dirty(t) \/ pframe_clean(t)
  PROVE  WInv'
<1> DEFINE l == run.loc[t]
           f == l.f
           m == clear_busy(mem, f)
           n == clear_busy([mem EXCEPT !.dirty[f] = TRUE], f)
<1>1. Works(l)
  BY DEF pframe_fill, pframe_dirty, pframe_clean, Executes, Works
<1>2. /\ f \in Frame /\ mem.obj[f] # NULL /\ OthersOff(t, f) /\ mem \in Mem /\ l \in Location
      /\ SafePlace(l, mem, unsaved) /\ SafeFrame(mem, unsaved, f) /\ unsaved \subseteq Frame
      /\ \A d : Stay(t, d) \/ Leave(t, d) => Moves(t, d)
  BY <1>1, WorkerAlone, Zenon DEF MemInv, WInv, Moves, GoesTo
<1>3. StillBut(mem, m, f) /\ m.obj = mem.obj /\ m.dirty = mem.dirty /\ m \in Mem
  <2>1. MemInv(m)
    BY <1>2, ClearBusyKeeps, Zenon DEF IInv
  <2> QED  BY <1>2, <2>1, FrameOps, Zenon DEF MemInv
<1>4. StillBut(mem, n, f) /\ n.obj = mem.obj /\ n.dirty[f]
  BY <1>2, DirtyOps, Zenon
<1>5. CASE pframe_fill(t)
  <2> DEFINE k == set_busy(m, f)
             d == [l EXCEPT !.at = "dirty"]
  <2>1. l.at = "fill" /\ unsaved' = unsaved /\ f \notin unsaved
    BY <1>2, <1>5 DEF pframe_fill, Executes, SafePlace
  <2>2. \/ mem' = k /\ Leave(t, d)
        \/ mem' = m /\ Leave(t, At("user"))
    BY <1>5, Zenon DEF pframe_fill
  <2>3. StillBut(m, k, f)
    BY <1>2, <1>3, FrameOps, Zenon
  <2>4. StillBut(mem, k, f)
    BY <1>3, <2>3, Zenon DEF StillBut
  <2>5. d.f = f
    BY <1>2, Zenon DEF Location
  <2> HIDE DEF m, k, d, f, n, l
  <2>6. SavedBut(f) /\ SafeFrame(mem', unsaved', f) /\ SafePlace(d, mem', unsaved')
    BY <1>2, <2>1, <2>5 DEF SavedBut, SafeFrame, SafePlace
  <2>7. SafePlace(At("user"), mem', unsaved')
    BY IdlePlaces DEF Idle, SafePlace
  <2> QED  BY <1>2, <1>3, <2>2, <2>4, <2>6, <2>7, SaveStep
<1>6. CASE pframe_dirty(t)
  <2>1. l.at = "dirty" /\ Leave(t, At("user"))
    BY <1>6 DEF pframe_dirty, Executes
  <2>2. \/ mem' = n /\ unsaved' = unsaved \cup {f}
        \/ mem' = m /\ unsaved' = unsaved
    BY <1>6, Zenon DEF pframe_dirty
  <2> HIDE DEF m, f, n, l
  <2>3. SavedBut(f) /\ SafeFrame(mem', unsaved', f) /\ StillBut(mem, mem', f)
    <3>1. CASE mem' = n /\ unsaved' = unsaved \cup {f}
      BY <1>2, <1>4, <3>1 DEF SavedBut, SafeFrame
    <3>2. CASE mem' = m /\ unsaved' = unsaved
      <4>1. f \in unsaved => mem.dirty[f]
        BY <1>2, <2>1, Zenon DEF SafePlace, f
      <4> QED  BY <1>2, <1>3, <3>2, <4>1, Zenon DEF SavedBut, SafeFrame
    <3> QED  BY <2>2, <3>1, <3>2
  <2>4. SafePlace(At("user"), mem', unsaved')
    BY IdlePlaces DEF Idle, SafePlace
  <2> QED  BY <1>2, <2>1, <2>3, <2>4, SaveStep, Zenon
<1>7. CASE pframe_clean(t)
  <2> DEFINE d == At(IF t = Pageoutd THEN "pageoutd" ELSE "clean_all")
  <2>1. Stay(t, d) /\ Idle(d)
    BY <1>7, IdlePlaces, Zenon DEF pframe_clean
  <2>2. \/ mem' = m /\ unsaved' = unsaved \ {f}
        \/ mem' = n /\ unsaved' = unsaved
    BY <1>7, Zenon DEF pframe_clean
  <2> HIDE DEF m, f, n, l, d
  <2>3. SavedBut(f) /\ SafeFrame(mem', unsaved', f) /\ StillBut(mem, mem', f)
    <3>1. CASE mem' = m /\ unsaved' = unsaved \ {f}
      BY <1>2, <1>3, <3>1 DEF SavedBut, SafeFrame
    <3>2. CASE mem' = n /\ unsaved' = unsaved
      BY <1>2, <1>4, <3>2 DEF SavedBut, SafeFrame
    <3> QED  BY <2>2, <3>1, <3>2
  <2>4. SafePlace(d, mem', unsaved')
    BY <2>1 DEF Idle, SafePlace
  <2> QED  BY <1>2, <2>1, <2>3, <2>4, SaveStep, Zenon
<1> QED  BY <1>5, <1>6, <1>7

\* A page starts to be written back.
LEMMA SaveCleanStarts ==
  ASSUME Distinct, IInv, WInv, NEW t \in Thread, NEW f \in Frame, mem.obj[f] # NULL, ~mem.pbusy[f],
         mem' = CleanStarts(mem, f), Leave(t, [At("clean") EXCEPT !.f = f]), UNCHANGED unsaved
  PROVE  WInv'
<1> DEFINE l == [At("clean") EXCEPT !.f = f]
<1>1. Moves(t, l) /\ Idle(l) /\ OthersOff(t, f) /\ mem \in Mem /\ unsaved \subseteq Frame
  BY IdlePlaces, IdleFrame, Zenon DEF Moves, GoesTo, IInv, MemInv, WInv
<1>2. StillBut(mem, mem', f) /\ mem'.obj = mem.obj /\ mem'.pbusy[f]
  BY <1>1, DirtyOps, Zenon
<1> HIDE DEF l
<1>3. SavedBut(f) /\ SafeFrame(mem', unsaved', f) /\ SafePlace(l, mem', unsaved')
  BY <1>1, <1>2 DEF SavedBut, SafeFrame, SafePlace, Idle
<1> QED  BY <1>1, <1>2, <1>3, SaveStep

\* A turn of pframe_clean_all.
LEMMA SaveCleanAll ==
  ASSUME Distinct, IInv, WInv, NEW t \in Thread, CleanAll(t), UNCHANGED unsaved
  PROVE  WInv'
<1>1. mem \in Mem /\ \A l : Leave(t, l) => Moves(t, l)
  BY DEF IInv, MemInv, Moves, GoesTo
<1>2. CASE mem' = mem /\ Leave(t, At("user"))
  <2>1. Still(mem, mem')
    BY <1>2 DEF Still
  <2> QED  BY <1>1, <1>2, <2>1, IdlePlaces, SaveAside, Zenon
<1>3. ASSUME NEW f, mem' = Sleep(mem, t, f), Leave(t, At("clean_all"))
      PROVE  WInv'
  <2>1. Still(mem, mem')
    BY <1>1, <1>3, StillOps, Zenon
  <2> QED  BY <1>1, <1>3, <2>1, IdlePlaces, SaveAside, Zenon
<1>4. ASSUME NEW f \in ToClean, ~mem.pbusy[f], mem' = CleanStarts(mem, f), Leave(t, [At("clean") EXCEPT !.f = f])
      PROVE  WInv'
  <2>1. f \in Range(mem.alloc_list)
    BY DEF ToClean, Range
  <2>2. f \in Frame /\ mem.obj[f] # NULL
    BY <2>1 DEF IInv, MemInv, ListsAgree
  <2> QED  BY <1>4, <2>2, SaveCleanStarts
<1> QED  BY <1>2, <1>3, <1>4, Zenon DEF CleanAll

\* pframe_get and pframe_dirty up to the call of fillpage or dirtypage.
LEMMA SaveGet ==
  ASSUME Distinct, IInv, WInv, NEW t \in Thread, NEW p, NEW w, Get(t, p, w), held[t] \in Vnode, UNCHANGED unsaved
  PROVE  WInv'
<1> DEFINE v == held[t]
           again == [At("get") EXCEPT !.page = p, !.forwrite = w]
           on(where, f) == [At(where) EXCEPT !.f = f, !.forwrite = w]
<1>1. /\ mem \in Mem /\ unsaved \subseteq Frame /\ \A l : Leave(t, l) => Moves(t, l)
      /\ \A f \in Frame : SafeFrame(mem, unsaved, f)
  BY DEF IInv, MemInv, Moves, GoesTo, WInv
<1>2. Idle(again) /\ Idle(At("user"))
  BY IdlePlaces, Zenon
<1>3. \A f \in Resident(mem, v, p) : f \in Frame /\ mem.obj[f] # NULL
  <2>1. Range(mem.respages[v]) = {f \in Frame : mem.obj[f] = v} /\ v # NULL
    BY DEF IInv, MemInv, ListsAgree, Distinct
  <2> QED  BY <2>1, Zenon DEF Resident
<1>4. \A f : on("dirty", f).at = "dirty" /\ on("dirty", f).f = f /\ on("fill", f).at = "fill" /\ on("fill", f).f = f
  BY DEF At
<1>5. \/ \E f \in Resident(mem, v, p) : mem' = Sleep(pframe_get_resident(mem, f), t, f) /\ Leave(t, again)
      \/ \E f \in Resident(mem, v, p) : mem' = pframe_get_resident(mem, f) /\ Leave(t, At("user"))
      \/ \E f \in Resident(mem, v, p) : ~mem.pbusy[f] /\ mem' = set_busy(pframe_get_resident(mem, f), f)
                                        /\ Leave(t, on("dirty", f))
      \/ mem' = Sleep(Broadcast(mem, pageoutd_waitq), t, alloc_waitq) /\ Leave(t, again)
      \/ \E f \in Frame : mem.obj[f] = NULL /\ mem' = set_busy(pframe_alloc(mem, f, v, p), f)
                          /\ Leave(t, on("fill", f))
  BY Zenon DEF Get
<1> HIDE DEF v, again, on
<1>6. ASSUME NEW f \in Resident(mem, v, p), ~mem.pbusy[f], mem' = set_busy(pframe_get_resident(mem, f), f),
             Leave(t, on("dirty", f))
      PROVE  WInv'
  <2> DEFINE m == pframe_get_resident(mem, f)
  <2>1. MemInv(mem) /\ f \in Frame /\ mem.obj[f] # NULL
    BY <1>3, <1>6, Zenon DEF IInv
  <2>2. m \in Mem /\ Still(mem, m)
    BY <1>1, <2>1, GetResidentKeeps, StillOps, Zenon DEF MemInv
  <2> HIDE DEF m
  <2>3. StillBut(m, mem', f) /\ mem'.obj = m.obj /\ mem'.dirty = m.dirty
    BY <1>6, <2>1, <2>2, FrameOps, Zenon DEF m
  <2>4. StillBut(mem, mem', f) /\ mem'.obj = mem.obj /\ mem'.dirty = mem.dirty
    BY <2>2, <2>3, Zenon DEF Still, StillBut
  <2>5. f \in unsaved => mem.dirty[f]
    BY <1>1, <1>6, <2>1, Zenon DEF SafeFrame
  <2>6. SavedBut(f) /\ SafeFrame(mem', unsaved', f) /\ SafePlace(on("dirty", f), mem', unsaved')
    BY <1>1, <1>4, <2>1, <2>4, <2>5, Zenon DEF SavedBut, SafeFrame, SafePlace
  <2>7. OthersOff(t, f) /\ Moves(t, on("dirty", f))
    BY <1>1, <1>6, IdleFrame, Zenon
  <2> QED  BY <2>4, <2>6, <2>7, SaveStep, Zenon
<1>7. ASSUME NEW f \in Frame, mem.obj[f] = NULL, mem' = set_busy(pframe_alloc(mem, f, v, p), f),
             Leave(t, on("fill", f))
      PROVE  WInv'
  <2>1. f \notin unsaved
    BY <1>1, <1>7 DEF SafeFrame
  <2>2. StillBut(mem, mem', f)
    BY <1>1, <1>7, PageOps
  <2>3. SavedBut(f) /\ SafeFrame(mem', unsaved', f) /\ SafePlace(on("fill", f), mem', unsaved')
    BY <1>1, <1>4, <2>1 DEF SavedBut, SafeFrame, SafePlace
  <2>4. OthersOff(t, f) /\ Moves(t, on("fill", f))
    BY <1>1, <1>7, IdleFrame, Zenon
  <2> QED  BY <2>2, <2>3, <2>4, SaveStep
<1>8. ASSUME NEW f, mem' = Sleep(pframe_get_resident(mem, f), t, f), Leave(t, again)
      PROVE  WInv'
  <2>1. Still(mem, mem')
    BY <1>1, <1>8, StillOps, Zenon
  <2> QED  BY <1>1, <1>2, <1>8, <2>1, SaveAside
<1>9. ASSUME NEW f, mem' = pframe_get_resident(mem, f), Leave(t, At("user"))
      PROVE  WInv'
  <2>1. Still(mem, mem')
    BY <1>1, <1>9, StillOps, Zenon
  <2> QED  BY <1>1, <1>2, <1>9, <2>1, SaveAside
<1>10. CASE mem' = Sleep(Broadcast(mem, pageoutd_waitq), t, alloc_waitq) /\ Leave(t, again)
  <2>1. Still(mem, mem')
    BY <1>1, <1>10, StillOps, Zenon
  <2> QED  BY <1>1, <1>2, <1>10, <2>1, SaveAside
<1> QED  BY <1>5, <1>6, <1>7, <1>8, <1>9, <1>10, Zenon

\* The files whose pages vput takes away have no link.
UncachesUnlinked ==
  \A t \in Thread : run.loc[t].at = "uncache" => mem.ino[run.loc[t].v] \notin linked

\* vput takes the pages of an unlinked file away: what was written to them is
\* lost together with the file.
LEMMA SaveUncache ==
  ASSUME Distinct, IInv, WInv, UncachesUnlinked, NEW t \in Thread, UncachePages(t)
  PROVE  WInv'
<1> DEFINE l == run.loc[t]
           m == Uncached(mem, l.f)
           freed == [m EXCEPT !.ref[l.v] = @ - 1]
           k == IF l.next \in Range(freed.respages[l.v]) \cup {NULL}
                THEN Uncache(l.v, l.next, freed)
                ELSE [At("uncache") EXCEPT !.v = l.v, !.f = l.next]
<1>1. l.at = "uncache" /\ Idle(l)
  BY Zenon DEF UncachePages, Executes, Idle
<1>2. /\ l.f \in Frame \cup {NULL} /\ mem \in Mem /\ mem.ino[l.v] \notin linked /\ unsaved \subseteq Frame
      /\ \A d : Stay(t, d) \/ Leave(t, d) => Moves(t, d)
  BY <1>1 DEF IInv, MemInv, LocOK, Location, UncachesUnlinked, WInv, Moves, GoesTo
<1>3. CASE DropReference(t, mem, l.v) /\ UNCHANGED unsaved
  <2>1. Still(mem, mem') /\ \E d : Moves(t, d) /\ Idle(d)
    BY <1>2, <1>3, DropMoves
  <2> QED  BY <1>3, <2>1, SaveAside
<1>4. CASE mem' = Panic(mem) /\ UNCHANGED <<run, unsaved>>
  <2>1. Still(mem, mem') /\ Moves(t, l)
    BY <1>2, <1>4, StillOps, Zenon DEF Moves
  <2> QED  BY <1>1, <1>4, <2>1, SaveAside
<1>5. CASE mem' = Sleep(mem, t, l.f) /\ Leave(t, l) /\ UNCHANGED unsaved
  <2>1. Still(mem, mem') /\ Moves(t, l)
    BY <1>2, <1>5, StillOps, Zenon
  <2> QED  BY <1>1, <1>5, <2>1, SaveAside
<1>6. ASSUME l.f # NULL, mem.obj[l.f] = l.v, ~mem.pbusy[l.f], unsaved' = StillUnsaved(l.f), Stay(t, k),
             mem' = freed \/ mem' = Panic(mem)
      PROVE  WInv'
  <2>1. /\ l.f \in Frame /\ unsaved' = unsaved \ {l.f} /\ OthersOff(t, l.f)
        /\ \A g \in Frame : SafeFrame(mem, unsaved, g)
    BY <1>2, <1>6, IdleFrame, Zenon DEF StillUnsaved, WInv
  <2>2. Moves(t, k) /\ Idle(k)
    BY <1>2, <1>6, IdlePlaces, Zenon
  <2>3. StillBut(mem, freed, l.f)
    BY <1>2, <2>1, PageOps, Zenon
  <2>4. StillBut(mem, Panic(mem), l.f)
    BY <1>2, StillOps DEF Still, StillBut
  <2> HIDE DEF l, freed, k
  <2>5. SavedBut(l.f) /\ SafeFrame(mem', unsaved', l.f) /\ SafePlace(k, mem', unsaved')
    BY <1>2, <2>1, <2>2, Zenon DEF SavedBut, SafeFrame, SafePlace, Idle
  <2> QED  BY <1>6, <2>1, <2>2, <2>3, <2>4, <2>5, SaveStep, Zenon
<1> QED  BY <1>3, <1>4, <1>5, <1>6, Zenon DEF UncachePages

\* A turn of pageoutd_run: a page it frees is clean.
LEMMA SavePageoutd ==
  ASSUME Distinct, IInv, WInv, pageoutd_run
  PROVE  WInv'
<1>1. /\ Pageoutd \in Thread /\ mem \in Mem /\ Idle(run.loc[Pageoutd]) /\ unsaved \subseteq Frame
      /\ \A l : Leave(Pageoutd, l) => Moves(Pageoutd, l)
  BY Zenon DEF Thread, IInv, MemInv, pageoutd_run, Executes, Idle, Moves, GoesTo, WInv
<1>2. CASE PageoutSleeps /\ UNCHANGED unsaved
  <2>1. Still(mem, mem') /\ Leave(Pageoutd, At("pageoutd"))
    BY <1>1, <1>2, StillOps, Zenon DEF PageoutSleeps
  <2> QED  BY <1>1, <1>2, <2>1, IdlePlaces, SaveAside, Zenon
<1>3. CASE mem.alloc_list # <<>> /\ PageoutPage(Head(mem.alloc_list))
  <2> DEFINE f == Head(mem.alloc_list)
             m == Uncached(mem, f)
  <2>1. f \in Frame /\ mem.obj[f] # NULL
    <3>1. mem.alloc_list \in Seq(Frame) /\ Range(mem.alloc_list) = {g \in Frame : mem.obj[g] # NULL}
      BY DEF IInv, MemInv, Mem, ListsAgree
    <3>2. 1 \in DOMAIN mem.alloc_list /\ f = mem.alloc_list[1]
      BY <1>3, <3>1
    <3> QED  BY <3>1, <3>2 DEF Range
  <2>2. PageoutPage(f)
    BY <1>3
  <2> HIDE DEF f
  <2>3. CASE mem' = Sleep(mem, Pageoutd, f) /\ Leave(Pageoutd, At("pageoutd")) /\ UNCHANGED unsaved
    <3>1. Still(mem, mem')
      BY <1>1, <2>3, StillOps, Zenon
    <3> QED  BY <1>1, <2>3, <3>1, IdlePlaces, SaveAside, Zenon
  <2>4. CASE /\ ~mem.pbusy[f] /\ mem' = CleanStarts(mem, f) /\ Leave(Pageoutd, [At("clean") EXCEPT !.f = f])
             /\ UNCHANGED unsaved
    BY <1>1, <2>1, <2>4, SaveCleanStarts
  <2>5. CASE ~mem.pbusy[f] /\ ~mem.dirty[f] /\ unsaved' = StillUnsaved(f) /\ vput(Pageoutd, m, mem.obj[f])
    <3>1. f \notin unsaved
      BY <2>1, <2>5 DEF WInv, SafeFrame
    <3>2. unsaved' = unsaved
      BY <2>5, <3>1 DEF StillUnsaved
    <3>3. m \in Mem /\ StillBut(mem, m, f)
      BY <1>1, <2>1, <2>5, UncachedKeeps, PageOps DEF IInv, MemInv
    <3> HIDE DEF m
    <3>4. PICK l : Still(m, mem') /\ Moves(Pageoutd, l) /\ Idle(l)
      BY <1>1, <2>5, <3>3, VputMoves, Zenon
    <3>5. StillBut(mem, mem', f) /\ OthersOff(Pageoutd, f)
      BY <2>5, <3>3, <3>4, IdleFrame, Zenon DEF Still, StillBut
    <3>6. SavedBut(f) /\ SafeFrame(mem', unsaved', f) /\ SafePlace(l, mem', unsaved')
      BY <1>1, <3>1, <3>2, <3>4, Zenon DEF SavedBut, SafeFrame, SafePlace, Idle
    <3> QED  BY <1>1, <3>4, <3>5, <3>6, SaveStep
  <2> QED  BY <2>2, <2>3, <2>4, <2>5 DEF PageoutPage
<1> QED  BY <1>2, <1>3 DEF pageoutd_run

\* No step of a thread loses what was written, as long as vput takes away the
\* pages of files without a link only.
LEMMA SaveNext ==
  ASSUME Distinct, IInv, WInv, UncachesUnlinked, [CacheNext]_cachevars
  PROVE  WInv'
<1>1. ASSUME NEW t \in Thread,
             \/ t \in User /\ ((\E i \in Ino : vget(t, i)) \/ VgetAgain(t) \/ VgetEnds(t) \/ Release(t))
             \/ VputEnds(t)
      PROVE  WInv'
  BY <1>1, SaveVnodes
<1>2. ASSUME NEW t \in User, GetAgain(t) \/ \E p \in Page, w \in BOOLEAN : pframe_get(t, p, w)
      PROVE  WInv'
  <2>1. t \in Thread /\ held[t] \in Vnode /\ unsaved' = unsaved
    BY <1>2 DEF Thread, GetAgain, pframe_get, Executes, IInv, LocOK
  <2>2. \E p, w : Get(t, p, w)
    BY <1>2 DEF GetAgain, pframe_get
  <2> QED  BY <2>1, <2>2, SaveGet
<1>3. ASSUME NEW t \in Thread, pframe_fill(t) \/ pframe_dirty(t) \/ pframe_clean(t)
      PROVE  WInv'
  BY <1>3, SaveWork
<1>4. ASSUME NEW t \in Thread, pframe_clean_all(t) \/ CleanAllAgain(t)
      PROVE  WInv'
  BY <1>4, SaveCleanAll DEF pframe_clean_all, CleanAllAgain
<1>5. ASSUME NEW t \in Thread, UncachePages(t)
      PROVE  WInv'
  BY <1>5, SaveUncache
<1>6. CASE pageoutd_run
  BY <1>6, SavePageoutd
<1>7. CASE UNCHANGED <<mem, unsaved, run>>
  BY <1>7 DEF WInv, SafeFrame, SafePlace
<1>8. User \subseteq Thread
  BY DEF Thread
<1>9. (\E t \in User : Unlink(t)) \/ (\E i \in Ino : Create(i)) \/ UNCHANGED cachevars => UNCHANGED <<mem, unsaved, run>>
  BY DEF Unlink, Create, cachevars
<1> QED  BY <1>1, <1>2, <1>3, <1>4, <1>5, <1>6, <1>7, <1>8, <1>9 DEF CacheNext
=============================================================================
