------------------------------- MODULE Malloc -------------------------------
(***************************************************************************)
(* The allocator of the C library (user/lib/libc/malloc.c), with its       *)
(* default options.                                                        *)
(*                                                                         *)
(* The arena is the pages 0 .. brk-1 above the program; a pointer is       *)
(* <<page, chunk>>, with chunk 0 for an allocation of whole pages.  State: *)
(*   brk      malloc_brk, in pages; last_index is the page below it        *)
(*   dir      page_dir without its buckets: what each page is              *)
(*   info     the pginfo of each page of chunks: shift, the free chunks    *)
(*            (bits), total, and where the structure itself lies (at)      *)
(*   bucket   page_dir[shift]: the pages with a free chunk of that size    *)
(*   list     free_list: runs of free pages, each in a holder (a pgfree)   *)
(*   px       the spare holder, or NULL                                    *)
(*   live     what the program has allocated, with the size asked for      *)
(*   leaked   spare holders overwritten by another (history)               *)
(*   stop     "" or the error that ended the program                       *)
(***************************************************************************)
EXTENDS Integers, FiniteSets, FiniteSetsExt, SequencesExt

CONSTANTS
  NPages,          \* pages the kernel lets the break reach
  pagesize,        \* in units of which the smallest chunk has two
  malloc_minsize,
  ADMIN,           \* the size of a pginfo and of a pgfree
  malloc_cache,    \* pages kept when the arena shrinks
  Size,            \* sizes asked for
  MaxLive,         \* bound: allocations the program holds
  NULL

VARIABLE s

Pages == 0 .. NPages - 1
malloc_maxsize == pagesize \div 2
Shifts == {j \in 1 .. pagesize : malloc_minsize <= 2 ^ j /\ 2 ^ j <= malloc_maxsize}
Ret(t, p) == [t |-> t, p |-> p]

\* The bucket of a size.
BucketOf(size) == Min({j \in Shifts : size <= 2 ^ j})

\* The chunks a page of a bucket holds, and whether its pginfo lies in it.
Chunks(j) == 0 .. pagesize \div 2 ^ j - 1
InPage(j) == 2 ^ j <= ADMIN + ADMIN
Stolen(j) == IF InPage(j) THEN 0 .. (ADMIN + 2 ^ j - 1) \div 2 ^ j - 1 ELSE {}

NoInfo == [shift |-> 0, bits |-> {}, total |-> 0, at |-> NULL]
Run(t, p) == Min({q \in p + 1 .. NPages : q = NPages \/ t.dir[q] # "FOLLOW"}) - p

RECURSIVE imalloc(_, _), ifree(_, _)

\* map_pages: the break moves, or not.
map_pages(t, n) ==
  IF t.brk + n > NPages THEN Ret(t, NULL) ELSE Ret([t EXCEPT !.brk = @ + n], <<t.brk, 0>>)

\* malloc_pages: first fit in the free list.  The holder of a run that is used
\* up becomes the spare one, or is freed.
Marked(m, n) ==
  IF m.p = NULL THEN m
  ELSE [m EXCEPT !.t.dir = [q \in Pages |-> IF q = m.p[1] THEN "FIRST"
                                            ELSE IF m.p[1] < q /\ q < m.p[1] + n THEN "FOLLOW" ELSE @[q]]]
DelayFree(m, h) == IF m.t.px = NULL THEN [m EXCEPT !.t.px = h] ELSE [m EXCEPT !.t = ifree(@, h)]
FromRun(t, i, e, n) ==
  IF e.end - e.page = n THEN DelayFree(Marked(Ret([t EXCEPT !.list = RemoveAt(@, i)], <<e.page, 0>>), n), e.holder)
  ELSE Marked(Ret([t EXCEPT !.list[i].page = @ + n], <<e.page, 0>>), n)
FirstFit(t, fits, n) ==
  IF fits = {} THEN Marked(map_pages(t, n), n) ELSE FromRun(t, Min(fits), t.list[Min(fits)], n)
malloc_pages(t, size) ==
  LET n == (size + pagesize - 1) \div pagesize
  IN FirstFit(t, {i \in DOMAIN t.list : t.list[i].end - t.list[i].page >= n}, n)

\* malloc_make_chunks: a page for chunks of size 2^j, its pginfo in it or in a
\* chunk of its own.
Chunked(t, j, page, at) ==
  LET free == Chunks(j) \ Stolen(j)
  IN Ret([t EXCEPT !.dir[page] = "CHUNK", !.bucket[j] = <<page>> \o @,
                   !.info[page] = [shift |-> j, bits |-> free, total |-> Cardinality(free), at |-> at]], <<page, 0>>)
InfoApart(b, j, page) ==
  IF b.p = NULL THEN Ret(ifree(b.t, <<page, 0>>), NULL) ELSE Chunked(b.t, j, page, b.p)
MakeChunks(m, j) ==
  IF m.p = NULL THEN m
  ELSE IF InPage(j) THEN Chunked(m.t, j, m.p[1], NULL) ELSE InfoApart(imalloc(m.t, ADMIN), j, m.p[1])
malloc_make_chunks(t, j) == MakeChunks(malloc_pages(t, pagesize), j)

\* malloc_bytes: the first free chunk of the first page of the bucket.
TakeChunk(t, j, page, k) ==
  Ret([t EXCEPT !.info[page].bits = @ \ {k}, !.bucket[j] = IF t.info[page].bits = {k} THEN Tail(@) ELSE @], <<page, k>>)
FirstChunk(c, j) ==
  IF c.p = NULL THEN c ELSE LET page == Head(c.t.bucket[j]) IN TakeChunk(c.t, j, page, Min(c.t.info[page].bits))
FromBucket(t, j) == FirstChunk(IF t.bucket[j] = <<>> THEN malloc_make_chunks(t, j) ELSE Ret(t, <<0, 0>>), j)
malloc_bytes(t, size) == FromBucket(t, BucketOf(size))

imalloc(t, size) == IF size <= malloc_maxsize THEN malloc_bytes(t, size) ELSE malloc_pages(t, size)

-----------------------------------------------------------------------------
\* Where a freed run goes in the list, and what the list then is; gone is the
\* holder of a run that was merged away.
Linked(list, i, run, gone, used) == [list |-> list, at |-> i, gone |-> gone, used |-> used]

\* Mutant: a freed run is joined to the run before it only.
LinkNoCollapse(list, run) ==
  LET stops == {k \in DOMAIN list : list[k].end >= run.page \/ k = Len(list)}
      i == Min(stops)
      pf == list[i]
  IN IF list = <<>> THEN Linked(<<run>>, 1, run, NULL, TRUE)
     ELSE IF pf.page > run.end THEN Linked(InsertAt(list, i, run), i, run, NULL, TRUE)
     ELSE IF pf.end = run.page THEN Linked([list EXCEPT ![i].end = run.end], i, run, NULL, FALSE)
     ELSE IF pf.page = run.end THEN Linked([list EXCEPT ![i].page = run.page], i, run, NULL, FALSE)
     ELSE Linked(Append(list, run), i + 1, run, NULL, TRUE)

Link(list, run) ==
  LET stops == {k \in DOMAIN list : list[k].end >= run.page \/ k = Len(list)}
      i == Min(stops)
      pf == list[i]
      joined == [list EXCEPT ![i].end = run.end]
  IN IF list = <<>> THEN Linked(<<run>>, 1, run, NULL, TRUE)
     ELSE IF pf.page > run.end THEN Linked(InsertAt(list, i, run), i, run, NULL, TRUE)
     ELSE IF pf.end = run.page
     THEN IF i < Len(list) /\ run.end = list[i + 1].page
          THEN Linked([RemoveAt(joined, i + 1) EXCEPT ![i].end = list[i + 1].end], i, run, list[i + 1].holder, FALSE)
          ELSE Linked(joined, i, run, NULL, FALSE)
     ELSE IF pf.page = run.end THEN Linked([list EXCEPT ![i].page = run.page], i, run, NULL, FALSE)
     ELSE IF i = Len(list) THEN Linked(Append(list, run), i + 1, run, NULL, TRUE)
     ELSE Linked(<<>>, 0, run, NULL, FALSE)

\* The last run gives back what exceeds the cache.  The loop that should forget
\* the pages given back runs over none of them.
Shrink(t, i) ==
  LET e == t.list[i]
  IN IF i = Len(t.list) /\ e.end - e.page > malloc_cache /\ e.end = t.brk
     THEN [t EXCEPT !.list[i].end = e.page + malloc_cache, !.brk = e.page + malloc_cache] ELSE t

\* free_pages: the pages are marked free; a spare holder is allocated if there
\* is none, which may itself find a spare one, lost then.
Collapsed(u, gone) == IF gone = NULL THEN u ELSE ifree(u, gone)
Listed(g, l) ==
  IF l.at = 0 THEN [g EXCEPT !.stop = "freelist is destroyed"]
  ELSE Collapsed(Shrink([g EXCEPT !.list = l.list, !.px = IF l.used THEN NULL ELSE @], l.at), l.gone)
Held(t, h, spare) == [t EXCEPT !.leaked = IF spare = NULL /\ t.px # NULL THEN @ \cup {t.px} ELSE @, !.px = h]
WithHolder(h, spare, p, n) ==
  IF h.p = NULL THEN [h.t EXCEPT !.stop = "no holder"]
  ELSE Listed(Held(h.t, h.p, spare), Link(h.t.list, [page |-> p, end |-> p + n, holder |-> h.p]))
FreeRun(f, p, n) == WithHolder(IF f.px # NULL THEN Ret(f, f.px) ELSE imalloc(f, ADMIN), f.px, p, n)
free_pages(t, p) ==
  LET n == Run(t, p)
  IN FreeRun([t EXCEPT !.dir = [q \in Pages |-> IF p <= q /\ q < p + n THEN "FREE" ELSE @[q]]], p, n)

\* A page that is no longer full goes back into its bucket: before the last
\* page, or before the first one whose successor lies higher.
Requeue(b, page) ==
  LET i == Min({k \in 1 .. Len(b) + 1 : k >= Len(b) \/ b[k + 1] >= page})
  IN InsertAt(b, i, page)

\* free_bytes: a page with no chunk left in use is freed, its pginfo first.
FreePage(v, at, p) == ifree(Collapsed(v, at), <<p, 0>>)
FreedChunk(u, e, p) ==
  IF Cardinality(e.bits) = 1 THEN [u EXCEPT !.bucket[e.shift] = Requeue(@, p)]
  ELSE IF Cardinality(e.bits) # e.total THEN u
  ELSE FreePage([u EXCEPT !.bucket[e.shift] = RemoveFirst(@, p), !.dir[p] = "FIRST", !.info[p] = NoInfo], e.at, p)
free_bytes(t, ptr) ==
  LET e == [t.info[ptr[1]] EXCEPT !.bits = @ \cup {ptr[2]}]
  IN IF e = t.info[ptr[1]] THEN t ELSE FreedChunk([t EXCEPT !.info[ptr[1]] = e], e, ptr[1])

\* ifree: warnings leave everything as it is.
ifree(t, ptr) ==
  IF ptr[1] >= t.brk \/ t.stop # "" THEN t
  ELSE IF t.dir[ptr[1]] = "CHUNK" THEN free_bytes(t, ptr)
  ELSE IF t.dir[ptr[1]] = "FIRST" THEN free_pages(t, ptr[1]) ELSE t

\* irealloc: an allocation that still fits, and would not fit a smaller one,
\* stays where it is.
Stays(t, ptr, size) ==
  IF t.dir[ptr[1]] = "CHUNK"
  THEN LET osize == 2 ^ t.info[ptr[1]].shift IN size < osize /\ (size > osize \div 2 \/ osize = malloc_minsize)
  ELSE LET osize == Run(t, ptr[1]) * pagesize IN size <= osize /\ size > osize - pagesize
Moved(m, ptr) == IF m.p = NULL THEN m ELSE Ret(ifree(m.t, ptr), m.p)
irealloc(t, ptr, size) == IF Stays(t, ptr, size) THEN Ret(t, ptr) ELSE Moved(imalloc(t, size), ptr)

-----------------------------------------------------------------------------
vars == <<s>>

\* malloc_init: the spare holder is the first allocation.
Fresh ==
  [brk |-> 0, dir |-> [p \in Pages |-> "NOT_MINE"], info |-> [p \in Pages |-> NoInfo],
   bucket |-> [j \in Shifts |-> <<>>], list |-> <<>>, px |-> NULL, live |-> {}, leaked |-> {}, stop |-> ""]

Init == s = LET m == imalloc(Fresh, ADMIN) IN [m.t EXCEPT !.px = m.p]

Keep(r, size, old) ==
  s' = IF r.p = NULL THEN r.t ELSE [r.t EXCEPT !.live = (@ \ {old}) \cup {[p |-> r.p, size |-> size]}]

Malloc ==
  /\ s.stop = "" /\ Cardinality(s.live) < MaxLive
  /\ \E size \in Size : Keep(imalloc(s, size), size, NULL)
Free == s.stop = "" /\ \E b \in s.live : s' = [ifree(s, b.p) EXCEPT !.live = @ \ {b}]
Realloc == s.stop = "" /\ \E b \in s.live, size \in Size : Keep(irealloc(s, b.p, size), size, b)

Next == Malloc \/ Free \/ Realloc

Spec == Init /\ [][Next]_vars

-----------------------------------------------------------------------------
\* Every owner of a piece of the arena: the program, a pginfo, a holder.
Owned(t) ==
  {b.p : b \in t.live} \cup {t.info[p].at : p \in Pages} \cup {t.list[i].holder : i \in DOMAIN t.list} \cup {t.px}

Owners(t) ==
  Cardinality(t.live) + Cardinality({p \in Pages : t.info[p].at # NULL}) + Len(t.list) + (IF t.px = NULL THEN 0 ELSE 1)

InUse(t) ==
  {<<p, 0>> : p \in {q \in 0 .. t.brk - 1 : t.dir[q] = "FIRST"}} \cup
  UNION {{<<p, k>> : k \in (Chunks(t.info[p].shift) \ Stolen(t.info[p].shift)) \ t.info[p].bits}
         : p \in {q \in Pages : t.dir[q] = "CHUNK"}}

\* After any sequence of malloc, free and realloc, every piece of the arena that
\* is in use has exactly one owner, and is large enough for what was asked of
\* it; only holders that free_pages overwrites have none.  malloc, which keeps
\* its own structures in memory it hands out, never hands one out twice.
HeapOwned ==
  /\ s.stop = ""
  /\ Cardinality(Owned(s) \ {NULL}) = Owners(s)
  /\ InUse(s) = (Owned(s) \ {NULL}) \cup s.leaked
  /\ \A b \in s.live :
       b.size <= IF s.dir[b.p[1]] = "CHUNK" THEN 2 ^ s.info[b.p[1]].shift ELSE Run(s, b.p[1]) * pagesize

\* The free list holds exactly the free pages of the arena, in order and with no
\* two runs touching, and the buckets exactly the pages with a free chunk.
FreeListsExact ==
  /\ {p \in 0 .. s.brk - 1 : s.dir[p] = "FREE"} = UNION {s.list[i].page .. s.list[i].end - 1 : i \in DOMAIN s.list}
  /\ \A i \in DOMAIN s.list : s.list[i].page < s.list[i].end /\ (i > 1 => s.list[i - 1].end < s.list[i].page)
  /\ \A j \in Shifts :
       /\ ToSet(s.bucket[j]) = {p \in Pages : s.dir[p] = "CHUNK" /\ s.info[p].shift = j /\ s.info[p].bits # {}}
       /\ IsInjective(s.bucket[j])
=============================================================================
