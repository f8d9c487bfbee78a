-------------------------------- MODULE Slab --------------------------------
(***************************************************************************)
(* The slab manager (slab.c).  Large regions are whole pages of the page   *)
(* allocator; small ones are chunks of a zone, a run of pages that holds   *)
(* chunks of one size.  zone_array[i] lists the zones of size class i that *)
(* have a free chunk, zone_free the zones that became entirely free.       *)
(* heap_sem protects both levels, and is released between them.            *)
(***************************************************************************)
EXTENDS Heap, Sequences, TLC

CONSTANTS NPages, RT_MM_PAGE_SIZE,               \* the pages of the heap
          ZALLOC_MIN_ZONE_SIZE, ZALLOC_MAX_ZONE_SIZE, ZALLOC_ZONE_LIMIT, ZONE_RELEASE_THRESH

PAGE_TYPE_FREE == 0
PAGE_TYPE_SMALL == 1
PAGE_TYPE_LARGE == 2
SIZEOF_ZONE == 36
MIN_CHUNK_SIZE == 8

RECURSIVE GrowZone(_)
GrowZone(z) == IF z < ZALLOC_MAX_ZONE_SIZE /\ 2 * z < (NPages * RT_MM_PAGE_SIZE) \div 1024
               THEN GrowZone(2 * z) ELSE z
zone_size == GrowZone(ZALLOC_MIN_ZONE_SIZE)
zone_limit == Lesser(zone_size \div 4, ZALLOC_ZONE_LIMIT)
zone_page_cnt == zone_size \div RT_MM_PAGE_SIZE

\* The size class of a request and the size of its chunks: <<zone index, bytes>>.
Classes == <<[limit |-> 128, unit |-> 8, base |-> -1], [limit |-> 256, unit |-> 16, base |-> 7],
             [limit |-> 512, unit |-> 32, base |-> 15], [limit |-> 1024, unit |-> 64, base |-> 23],
             [limit |-> 2048, unit |-> 128, base |-> 31], [limit |-> 4096, unit |-> 256, base |-> 39],
             [limit |-> 8192, unit |-> 512, base |-> 47], [limit |-> 16384, unit |-> 1024, base |-> 55]>>
zoneindex(n) ==
  IF n >= 16384 THEN <<0, n>>
  ELSE LET c == Classes[CHOOSE i \in DOMAIN Classes :
                          n < Classes[i].limit /\ \A j \in 1..(i - 1) : n >= Classes[j].limit]
           b == RT_ALIGN(n, c.unit)
       IN  <<b \div c.unit + c.base, b>>

-----------------------------------------------------------------------------
\* The page allocator: pages is the list of free runs [at, n], by address.
First(S) == CHOOSE i \in S : \A j \in S : i <= j
PageFit(h, n) == {i \in DOMAIN h.pages : h.pages[i].n >= n}
rt_page_alloc(h, n) ==
  LET i == First(PageFit(h, n))
      b == h.pages[i]
      rest == IF b.n = n THEN <<>> ELSE <<[at |-> b.at + n, n |-> b.n - n]>>
  IN  [h EXCEPT !.pages = SubSeq(@, 1, i - 1) \o rest \o SubSeq(@, i + 1, Len(@))]

rt_page_free(h, at, n) ==
  LET pages == h.pages
      i == First({i \in DOMAIN pages : \/ pages[i].at + pages[i].n = at
                                       \/ pages[i].at >= at + n} \union {Len(pages) + 1})
      behind(j) == SubSeq(pages, j, Len(pages))
      run(j) == IF j <= Len(pages) /\ pages[j].at = at + n THEN pages[j].n ELSE 0
      left == i <= Len(pages) /\ pages[i].at + pages[i].n = at
      new == CASE left -> <<[at |-> pages[i].at, n |-> pages[i].n + n + run(i + 1)]>>
                            \o behind(IF run(i + 1) = 0 THEN i + 1 ELSE i + 2)
               [] OTHER -> <<[at |-> at, n |-> n + run(i)]>> \o behind(IF run(i) = 0 THEN i ELSE i + 1)
  IN  [h EXCEPT !.pages = SubSeq(pages, 1, i - 1) \o new]

\* All the pages but those of the memusage array, which describes each page.
rt_system_heap_init ==
  LET empty == [pages |-> <<>>, zones |-> [z \in {} |-> 0], zone_array |-> [i \in 0..71 |-> <<>>],
                zone_free |-> <<>>, used_mem |-> 0, max_mem |-> 0,
                type |-> [i \in 0..(NPages - 1) |-> PAGE_TYPE_FREE], size |-> [i \in 0..(NPages - 1) |-> 0]]
  IN  rt_page_alloc(rt_page_free(empty, 0, NPages),
                    RT_ALIGN(4 * NPages, RT_MM_PAGE_SIZE) \div RT_MM_PAGE_SIZE)

-----------------------------------------------------------------------------
Account(h, d) == [h EXCEPT !.used_mem = @ + d, !.max_mem = Greater(@, h.used_mem + d)]
Bytes(page) == page * RT_MM_PAGE_SIZE
PageOf(p) == p \div RT_MM_PAGE_SIZE
ZoneOf(h, p) == PageOf(p) - h.size[PageOf(p)]

\* A chunk of zone z, the first of its class: <<manager, pointer>>.
TakeChunk(h, z) ==
  LET v == h.zones[z]
      fresh == v.uindex + 1 # v.nmax
      took == IF fresh THEN [v EXCEPT !.nfree = @ - 1, !.uindex = @ + 1]
              ELSE [v EXCEPT !.nfree = @ - 1, !.freechunk = Tail(@)]
      p == IF fresh THEN v.base + (v.uindex + 1) * v.chunksize ELSE Head(v.freechunk)
  IN  <<Account([h EXCEPT !.zones[z] = took,
                          !.zone_array[v.zi] = IF took.nfree = 0 THEN Tail(@) ELSE @], v.chunksize), p>>

\* The pages from z on become a zone of the class of n: <<manager, pointer to its first chunk>>.
Build(h, z, n) ==
  LET zi == zoneindex(n)[1]
      chunk == zoneindex(n)[2]
      power == \E i \in 0..14 : chunk = 2^i
      off == RT_ALIGN(SIZEOF_ZONE, IF power THEN chunk ELSE MIN_CHUNK_SIZE)
      nmax == (zone_size - off) \div chunk
      zone == [nfree |-> nmax - 1, nmax |-> nmax, base |-> Bytes(z) + off, uindex |-> 0,
               chunksize |-> chunk, zi |-> zi, freechunk |-> <<>>]
  IN  <<Account([h EXCEPT !.zones = (z :> zone) @@ @, !.zone_array[zi] = <<z>> \o @], chunk), Bytes(z) + off>>

MarkZone(h, z, type) ==
  LET pages == z..(z + zone_page_cnt - 1)
  IN  [h EXCEPT !.type = [i \in DOMAIN @ |-> IF i \in pages THEN type ELSE @[i]],
                !.size = [i \in DOMAIN @ |-> IF i \notin pages THEN @[i]
                                             ELSE IF type = PAGE_TYPE_SMALL THEN i - z ELSE 0]]

\* The chunk at p goes back to its zone.
ReturnChunk(h, p) ==
  LET z == ZoneOf(h, p)
      v == h.zones[z]
  IN  [h EXCEPT !.zones[z].freechunk = <<p>> \o @, !.zones[z].nfree = @ + 1,
                !.used_mem = @ - v.chunksize,
                !.zone_array[v.zi] = IF v.nfree = 0 THEN <<z>> \o @ ELSE @]
\* A zone is given up when all of it is free and its class has another zone.
Retires(h, z) == LET v == h.zones[z] IN v.nfree = v.nmax /\ Len(h.zone_array[v.zi]) > 1
Retire(h, z) ==
  [h EXCEPT !.zone_array[h.zones[z].zi] = SelectSeq(@, LAMBDA x : x # z),
            !.zones = Restrict(@, DOMAIN @ \ {z}), !.zone_free = <<z>> \o @]

\* The words that hold the manager's own data: memusage, the heads of free runs of pages, the
\* headers of zones, and the link in each free chunk.
Metadata(h) ==
  Words(0, 4 * NPages) \union UNION {Words(Bytes(h.pages[i].at), 8) : i \in DOMAIN h.pages}
  \union UNION {Words(Bytes(z), SIZEOF_ZONE) : z \in DOMAIN h.zones \union Range(h.zone_free)}
  \union UNION {UNION {Words(p, 4) : p \in Range(h.zones[z].freechunk)} : z \in DOMAIN h.zones}

rt_memory_info(h) == [total |-> Bytes(NPages), used |-> h.used_mem, max_used |-> h.max_mem]

-----------------------------------------------------------------------------
Became(h) == heap' = h
\* rt_sem_take; the thread then holds heap_sem at "pc"
Lock(t, from, pc) == At(t, from) /\ Taken(t, 0) /\ GoTo(t, pc) /\ UNCHANGED <<heap, slot, bytes>>
\* rt_sem_release, and on to "pc" for the k and m given
Unlock(t, pc, k, m) == /\ Released(0) /\ bytes' = Forget(bytes, Metadata(heap'))
                       /\ task' = [task EXCEPT ![t].pc = pc, ![t].k = k, ![t].m = m]
                       /\ UNCHANGED slot
Large(t) == RT_ALIGN(task[t].m, RT_MM_PAGE_SIZE)

Malloc(t) == \/ /\ At(t, "malloc") /\ task[t].m = 0
                /\ Got(t, Null, {}) /\ UNCHANGED <<heap, lock>>
             \/ task[t].m # 0 /\ task[t].m >= zone_limit /\ Lock(t, "malloc", "pages")
             \/ task[t].m # 0 /\ task[t].m < zone_limit /\ Lock(t, "malloc", "malloc locked")

\* rt_page_alloc, for a large region ("pages") or for a new zone ("zone pages")
PageAlloc(t, from, n, to) ==
  /\ At(t, from)
  /\ \/ /\ PageFit(heap, n) = {} /\ UNCHANGED heap
        /\ Got(t, Null, {}) /\ Released(0)
     \/ /\ PageFit(heap, n) # {} /\ Became(rt_page_alloc(heap, n))
        /\ Unlock(t, to, heap.pages[First(PageFit(heap, n))].at, task[t].m)
LargePages(t) == PageAlloc(t, "pages", Large(t) \div RT_MM_PAGE_SIZE, "large")
ZonePages(t) == PageAlloc(t, "zone pages", zone_page_cnt, "zone got")

\* The pages of a large region are entered in memusage, then the lock is taken to count them.
LargeGot(t) ==
  /\ At(t, "large") /\ Taken(t, 0) /\ GoTo(t, "large locked")
  /\ Became([heap EXCEPT !.type[task[t].k] = PAGE_TYPE_LARGE,
                         !.size[task[t].k] = Large(t) \div RT_MM_PAGE_SIZE])
  /\ UNCHANGED <<slot, bytes>>
LargeLocked(t) ==
  /\ At(t, "large locked") /\ Became(Account(heap, Large(t)))
  /\ Got(t, Bytes(task[t].k), {}) /\ Released(0)

MallocLocked(t) ==
  LET zi == zoneindex(task[t].m)[1]
      z == Head(heap.zone_free)
      r == IF heap.zone_array[zi] # <<>> THEN TakeChunk(heap, Head(heap.zone_array[zi]))
           ELSE Build([heap EXCEPT !.zone_free = Tail(@)], z, task[t].m)
  IN  /\ At(t, "malloc locked")
      /\ \/ /\ heap.zone_array[zi] # <<>> \/ heap.zone_free # <<>>
            /\ Became(r[1]) /\ Got(t, r[2], Metadata(heap')) /\ Released(0)
         \/ /\ heap.zone_array[zi] = <<>> /\ heap.zone_free = <<>>
            /\ UNCHANGED heap /\ Unlock(t, "zone", 0, task[t].m)
Zone(t) == Lock(t, "zone", "zone pages")
ZoneGot(t) == Lock(t, "zone got", "build")
BuildZone(t) ==
  LET r == Build(MarkZone(heap, task[t].k, PAGE_TYPE_SMALL), task[t].k, task[t].m) IN
  At(t, "build") /\ Became(r[1]) /\ Got(t, r[2], Metadata(heap')) /\ Released(0)

Free(t) == /\ At(t, "free")
           /\ \/ heap.type[PageOf(task[t].p)] = PAGE_TYPE_LARGE /\ Lock(t, "free", "free large")
              \/ heap.type[PageOf(task[t].p)] # PAGE_TYPE_LARGE /\ Lock(t, "free", "free locked")
FreeLarge(t) ==
  LET page == PageOf(task[t].p) IN
  /\ At(t, "free large")
  /\ Became([heap EXCEPT !.size[page] = 0, !.used_mem = @ - Bytes(heap.size[page])])
  /\ Unlock(t, "pages free", page, heap.size[page])
FreeLocked(t) ==
  LET back == ReturnChunk(heap, task[t].p)
      z == ZoneOf(heap, task[t].p)
      retired == IF Retires(back, z) THEN Retire(back, z) ELSE back
      over == Len(retired.zone_free) > ZONE_RELEASE_THRESH
  IN  /\ At(t, "free locked")
      /\ \/ ~over /\ Became(retired) /\ Freed(t, Metadata(heap')) /\ Released(0)
         \/ /\ over
            /\ Became([MarkZone(retired, Head(retired.zone_free), PAGE_TYPE_FREE) EXCEPT !.zone_free = Tail(@)])
            /\ Unlock(t, "pages free", Head(retired.zone_free), zone_page_cnt)
PagesFree(t) == Lock(t, "pages free", "pages free locked")
PagesFreeLocked(t) == /\ At(t, "pages free locked")
                      /\ Became(rt_page_free(heap, task[t].k, task[t].m))
                      /\ Freed(t, Metadata(heap')) /\ Released(0)

Realloc(t) ==
  LET r == slot[task[t].s]
      page == PageOf(r.at)
      chunk == zoneindex(task[t].n)[2]
      zone == heap.zones[ZoneOf(heap, r.at)]
      move(size, old) == /\ task' = [task EXCEPT ![t].pc = "malloc", ![t].m = size, ![t].old = old]
                         /\ UNCHANGED <<slot, bytes>>
  IN  /\ At(t, "realloc")
      /\ UNCHANGED <<heap, lock>>
      /\ \/ r = NoRegion /\ move(task[t].n, 0)
         \/ r # NoRegion /\ task[t].n = 0 /\ ReallocIsFree(t)
         \/ /\ r # NoRegion /\ task[t].n # 0 /\ heap.type[page] = PAGE_TYPE_LARGE
            /\ move(task[t].n, Bytes(heap.size[page]))
         \/ /\ r # NoRegion /\ task[t].n # 0 /\ heap.type[page] = PAGE_TYPE_SMALL
            /\ IF zone.chunksize = chunk THEN Stayed(t, {}) ELSE move(chunk, zone.chunksize)

Step(t) == \/ Malloc(t) \/ LargePages(t) \/ LargeGot(t) \/ LargeLocked(t)
           \/ MallocLocked(t) \/ Zone(t) \/ ZonePages(t) \/ ZoneGot(t) \/ BuildZone(t)
           \/ Free(t) \/ FreeLarge(t) \/ FreeLocked(t) \/ PagesFree(t) \/ PagesFreeLocked(t)
           \/ Realloc(t) \/ Copy(t)

-----------------------------------------------------------------------------
\* Every run of free pages is maximal; a zone counts its free chunks exactly, and is listed
\* under its class while it has one.
WellFormed ==
  /\ \A i \in DOMAIN heap.pages : i > 1 => heap.pages[i - 1].at + heap.pages[i - 1].n < heap.pages[i].at
  /\ \A z \in DOMAIN heap.zones :
       LET v == heap.zones[z] IN
       /\ v.nfree = Len(v.freechunk) + v.nmax - 1 - v.uindex
       /\ v.nfree > 0 <=> z \in Range(heap.zone_array[v.zi])
       /\ Cardinality(Range(v.freechunk)) = Len(v.freechunk)
  /\ \A i \in DOMAIN heap.zone_array : \A j \in DOMAIN heap.zone_array[i] : heap.zones[heap.zone_array[i][j]].zi = i
\* What rt_memory_info reports as used is the chunks and the large regions in use, but for those a thread is about to count.
InUse(z) == heap.zones[z].chunksize * (heap.zones[z].nmax - heap.zones[z].nfree)
CountedLarge == {i \in DOMAIN heap.type : heap.type[i] = PAGE_TYPE_LARGE /\ heap.size[i] > 0
                  /\ ~\E t \in Threads : At(t, "large locked") /\ task[t].k = i}
StatsExact ==
  /\ rt_memory_info(heap).used = SumFunctionOnSet([z \in DOMAIN heap.zones |-> InUse(z)], DOMAIN heap.zones)
       + SumFunctionOnSet([i \in CountedLarge |-> Bytes(heap.size[i])], CountedLarge)
  /\ heap.used_mem <= rt_memory_info(heap).max_used
=============================================================================
