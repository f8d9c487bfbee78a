------------------------------ MODULE MemHeap -------------------------------
(***************************************************************************)
(* The memory-heap manager (memheap.c) as the system heap: several heaps,  *)
(* each with its lock, its ring of blocks closed by a used tail of no      *)
(* length, and its list of free blocks, the last one freed first.          *)
(* rt_malloc asks the system heap (number 0) and then the others.          *)
(***************************************************************************)
EXTENDS Heap, SequencesExt

CONSTANT Pools    \* <<start address, size>> of each heap, numbered from 0

\* A heap has room for its first item and its tail, and the heaps lie apart.
PoolsProper ==
  /\ Cardinality(DOMAIN Pools) \in Nat \ {0} /\ DOMAIN Pools = 0 .. Cardinality(DOMAIN Pools) - 1
  /\ \A k \in DOMAIN Pools : /\ Pools[k][1] \in Nat /\ Pools[k][1] % RT_ALIGN_SIZE = 0
                            /\ Pools[k][2] \in Nat /\ Pools[k][2] >= 48
  /\ \A j, k \in DOMAIN Pools : j # k => \/ Pools[j][1] + Pools[j][2] <= Pools[k][1]
                                         \/ Pools[k][1] + Pools[k][2] <= Pools[j][1]

RT_MEMHEAP_SIZE == 24
RT_MEMHEAP_MINIALLOC == 12

\* A heap: the items are the domain of next, prev and used; "free" is its free list.
rt_memheap_init(pool) ==
  LET first == pool[1]
      pool_size == RT_ALIGN_DOWN(pool[2], RT_ALIGN_SIZE)
      available == pool_size - 2 * RT_MEMHEAP_SIZE
      tail == first + available + RT_MEMHEAP_SIZE
      items == {first, tail}
  IN  [next |-> [m \in items |-> IF m = first THEN tail ELSE first],
       prev |-> [m \in items |-> IF m = first THEN tail ELSE first],
       used |-> [m \in items |-> m = tail], free |-> <<first>>, tail |-> tail,
       pool_size |-> pool_size, available_size |-> available, max_used_size |-> pool_size - available]
rt_system_heap_init == [k \in DOMAIN Pools |-> rt_memheap_init(Pools[k])]

\* The heaps in the order rt_malloc asks them: 0, then the latest registered first.
NextHeap(k) == IF k = 0 THEN Cardinality(DOMAIN Pools) - 1 ELSE k - 1

PoolOf(p) == CHOOSE k \in DOMAIN Pools : Pools[k][1] <= p /\ p < Pools[k][1] + Pools[k][2]
MEMITEM_SIZE(h, m) == h.next[m] - m - RT_MEMHEAP_SIZE
Headers(h) == UNION {Words(m, RT_MEMHEAP_SIZE) : m \in UNION {DOMAIN h[k].next : k \in DOMAIN h}}

-----------------------------------------------------------------------------
FreeRemove(h, m) == [h EXCEPT !.free = RemoveFirst(@, m)]
FreeInsert(h, m) == [h EXCEPT !.free = <<m>> \o @]
Adjust(h, d) == [h EXCEPT !.available_size = @ + d,
                          !.max_used_size = Greater(@, h.pool_size - h.available_size - d)]
\* A new free item m2 behind m, and an item b that joins the item m before it.
With(f, x, v) == [y \in DOMAIN f \union {x} |-> IF y = x THEN v ELSE f[y]]
Insert(h, m, m2) ==
  [h EXCEPT !.next = With([@ EXCEPT ![m] = m2], m2, h.next[m]),
            !.prev = With([@ EXCEPT ![h.next[m]] = m2], m2, m),
            !.used = With(@, m2, FALSE)]
Join(h, m, b) ==
  LET left == DOMAIN h.next \ {b}
  IN  [h EXCEPT !.next = Restrict([@ EXCEPT ![m] = h.next[b]], left),
                !.prev = Restrict([@ EXCEPT ![h.next[b]] = m], left),
                !.used = Restrict(@, left)]

Fits(h, n) == {i \in DOMAIN h.free : MEMITEM_SIZE(h, h.free[i]) >= n}
FirstFit(h, n) == IF Fits(h, n) = {} THEN Null
                  ELSE h.free[CHOOSE i \in Fits(h, n) : \A j \in Fits(h, n) : i <= j]

UseItem(h, m, n) ==
  LET size == MEMITEM_SIZE(h, m)
      m2 == m + n + RT_MEMHEAP_SIZE
      out == FreeRemove(h, m)
      cut == IF size >= n + RT_MEMHEAP_SIZE + RT_MEMHEAP_MINIALLOC
             THEN Adjust(FreeInsert(Insert(out, m, m2), m2), -(n + RT_MEMHEAP_SIZE))
             ELSE Adjust(out, -size)
  IN  [cut EXCEPT !.used[m] = TRUE]

\* A growth that does not write the header of the rest behind the region but inside it.
GrowInto(h, m, n) ==
  LET less == Adjust(h, -(n - MEMITEM_SIZE(h, m)))
      b == h.next[m]
      m2 == m + n
  IN  FreeInsert(Insert(Join(FreeRemove(less, b), m, b), m, m2), m2)
\* The free item behind m gives it n - MEMITEM_SIZE(m) bytes.
GrowItem(h, m, n) ==
  LET less == Adjust(h, -(n - MEMITEM_SIZE(h, m)))
      b == h.next[m]
      m2 == m + RT_MEMHEAP_SIZE + n
  IN  FreeInsert(Insert(Join(FreeRemove(less, b), m, b), m, m2), m2)

\* The item behind the free item m joins it if it is free too; available_size changes by d.
JoinNext(h, m, d) ==
  LET b == h.next[m]
  IN  IF h.used[b] THEN h
      ELSE Join(FreeRemove([h EXCEPT !.available_size = @ + d], b), m, b)

ShrinkItem(h, m, n) ==
  LET m2 == m + RT_MEMHEAP_SIZE + n
      cut == Insert(h, m, m2)
      one == JoinNext(cut, m2, -MEMITEM_SIZE(h, cut.next[m2]))
  IN  [FreeInsert(one, m2) EXCEPT !.available_size = @ + MEMITEM_SIZE(one, m2)]

GiveBack(h, m) == [h EXCEPT !.used[m] = FALSE, !.available_size = @ + MEMITEM_SIZE(h, m)]
\* A release that forgets the header a merge with the item before gives back.
FreeForgets(h, m) ==
  LET given == GiveBack(h, m)
      p == h.prev[m]
  IN  IF h.used[p] THEN FreeInsert(given, m) ELSE Join(given, p, m)
FreeItem(h, m) ==
  LET given == GiveBack(h, m)
      p == h.prev[m]
  IN  IF h.used[p] THEN FreeInsert(JoinNext(given, m, RT_MEMHEAP_SIZE), m)
      ELSE JoinNext([Join(given, p, m) EXCEPT !.available_size = @ + RT_MEMHEAP_SIZE], p, RT_MEMHEAP_SIZE)

-----------------------------------------------------------------------------
rt_memory_info(h) == [total |-> h.pool_size, used |-> h.pool_size - h.available_size,
                      max_used |-> h.max_used_size]

Request(t) == Greater(RT_ALIGN(task[t].n, RT_ALIGN_SIZE), RT_MEMHEAP_MINIALLOC)
Item(t) == slot[task[t].s].at - RT_MEMHEAP_SIZE
Shrinks(t) == LET k == PoolOf(Item(t)) IN Request(t) < MEMITEM_SIZE(heap[k], Item(t))

\* What a read of available_size without the lock may see: its value, or what a thread that
\* shrinks a region has left there between its two assignments.
Available(k) ==
  {heap[k].available_size} \union
  {heap[k].available_size - MEMITEM_SIZE(heap[k], heap[k].next[Item(u)]) :
     u \in {u \in Threads : /\ At(u, "realloc locked") /\ lock[k] = u /\ Shrinks(u)
                            /\ ~heap[k].used[heap[k].next[Item(u)]]}}

\* rt_memheap_alloc failed in heap task[t].k: rt_malloc asks the next heap;
\* rt_memheap_realloc returns NULL and rt_realloc calls rt_malloc.
NoMemory(t) ==
  \/ /\ task[t].pc \in {"malloc", "malloc locked"} /\ NextHeap(task[t].k) # 0
     /\ task' = [task EXCEPT ![t].pc = "malloc", ![t].k = NextHeap(@)]
     /\ UNCHANGED <<slot, bytes>>
  \/ /\ task[t].pc \in {"malloc", "malloc locked"} /\ NextHeap(task[t].k) = 0
     /\ Got(t, Null, {})
  \/ /\ task[t].pc \in {"move", "move locked"}
     /\ task' = [task EXCEPT ![t].pc = "malloc", ![t].k = 0]
     /\ UNCHANGED <<slot, bytes>>

\* rt_memheap_alloc: "malloc" when rt_malloc calls it, "move" when rt_memheap_realloc does.
Alloc(t) ==
  \E pc \in {"malloc", "move"} :
    /\ At(t, pc)
    /\ \E a \in Available(task[t].k) :
         \/ Request(t) >= a /\ NoMemory(t) /\ UNCHANGED <<heap, lock>>
         \/ /\ Request(t) < a /\ Taken(t, task[t].k)
            /\ GoTo(t, IF pc = "malloc" THEN "malloc locked" ELSE "move locked")
            /\ UNCHANGED <<heap, slot, bytes>>

AllocLocked(t) ==
  LET k == task[t].k
      m == FirstFit(heap[k], Request(t))
  IN  /\ task[t].pc \in {"malloc locked", "move locked"}
      /\ heap' = IF m = Null THEN heap ELSE [heap EXCEPT ![k] = UseItem(@, m, Request(t))]
      /\ IF m = Null THEN NoMemory(t) ELSE Got(t, m + RT_MEMHEAP_SIZE, Headers(heap'))
      /\ Released(k)

Free(t) == /\ At(t, "free") /\ Taken(t, PoolOf(task[t].p)) /\ GoTo(t, "free locked")
           /\ UNCHANGED <<heap, slot, bytes>>
FreeLocked(t) ==
  LET k == PoolOf(task[t].p) IN
  /\ At(t, "free locked")
  /\ heap' = [heap EXCEPT ![k] = FreeItem(@, task[t].p - RT_MEMHEAP_SIZE)]
  /\ Freed(t, Headers(heap')) /\ Released(k)

Realloc(t) ==
  LET r == slot[task[t].s] IN
  /\ At(t, "realloc")
  /\ UNCHANGED heap
  /\ \/ r = NoRegion /\ GoTo(t, "malloc") /\ UNCHANGED <<lock, slot, bytes>>
     \/ r # NoRegion /\ task[t].n = 0 /\ ReallocIsFree(t) /\ UNCHANGED lock
     \/ /\ r # NoRegion /\ task[t].n # 0
        /\ LET k == PoolOf(r.at)
               size == MEMITEM_SIZE(heap[k], Item(t))
               keep == Request(t) <= size /\ Request(t) + RT_MEMHEAP_SIZE + RT_MEMHEAP_MINIALLOC >= size
           IN  \/ keep /\ Stayed(t, {}) /\ UNCHANGED lock
               \/ /\ ~keep /\ Taken(t, k)
                  /\ task' = [task EXCEPT ![t].pc = "realloc locked", ![t].old = size, ![t].k = k]
                  /\ UNCHANGED <<slot, bytes>>

ReallocLocked(t) ==
  LET k == task[t].k
      m == Item(t)
      b == heap[k].next[m]
      n == Request(t)
      grow == ~heap[k].used[b] /\ MEMITEM_SIZE(heap[k], b) + task[t].old > n + RT_MEMHEAP_MINIALLOC
  IN  /\ At(t, "realloc locked")
      /\ Released(k)
      /\ \/ /\ Shrinks(t) /\ heap' = [heap EXCEPT ![k] = ShrinkItem(@, m, n)]
            /\ Stayed(t, Headers(heap'))
         \/ /\ ~Shrinks(t) /\ grow /\ heap' = [heap EXCEPT ![k] = GrowItem(@, m, n)]
            /\ Stayed(t, Headers(heap'))
         \/ /\ ~Shrinks(t) /\ ~grow /\ GoTo(t, "move") /\ UNCHANGED <<heap, slot, bytes>>

Step(t) == \/ Alloc(t) \/ AllocLocked(t) \/ Free(t) \/ FreeLocked(t)
           \/ Realloc(t) \/ ReallocLocked(t) \/ Copy(t)

-----------------------------------------------------------------------------
\* In every heap the items tile the pool and know their neighbours, no two free ones are
\* adjacent, and the free list holds the free items, each once.
HeapWellFormed(h) ==
  /\ \A m \in DOMAIN h.next :
       LET n == h.next[m] IN
       /\ n \in DOMAIN h.next /\ h.prev[n] = m
       /\ m # h.tail => /\ m < n /\ ~\E b \in DOMAIN h.next : m < b /\ b < n
                        /\ h.used[m] \/ h.used[n]
  /\ Range(h.free) = {m \in DOMAIN h.next : ~h.used[m]}
  /\ Len(h.free) = Cardinality(Range(h.free))
WellFormed == \A k \in DOMAIN heap : HeapWellFormed(heap[k])
\* available_size is what the free items can hold.
StatsExact == \A k \in DOMAIN heap :
  LET h == heap[k] IN
  /\ h.available_size = SumFunctionOnSet([m \in Range(h.free) |-> MEMITEM_SIZE(h, m)], Range(h.free))
  /\ rt_memory_info(h).used <= rt_memory_info(h).max_used
=============================================================================
