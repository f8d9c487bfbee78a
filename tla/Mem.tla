-------------------------------- MODULE Mem ---------------------------------
(***************************************************************************)
(* The small-memory manager (mem.c): one chain of blocks from the start of *)
(* the heap to heap_end, each with a header of SIZEOF_STRUCT_MEM bytes     *)
(* that holds the offsets of its neighbours and whether it is used.  lfree *)
(* is the lowest free block, where a search starts.                        *)
(***************************************************************************)
EXTENDS Heap, TLC

CONSTANT Bounds    \* <<begin_addr, end_addr>> of the heap

SIZEOF_STRUCT_MEM == 12
MIN_SIZE == 12
mem_size_aligned == RT_ALIGN_DOWN(Bounds[2], RT_ALIGN_SIZE) - RT_ALIGN(Bounds[1], RT_ALIGN_SIZE)
                    - 2 * SIZEOF_STRUCT_MEM
heap_end == mem_size_aligned + SIZEOF_STRUCT_MEM

\* The header offsets are the domain of next, prev and used.
rt_system_heap_init ==
  [next |-> 0 :> heap_end @@ heap_end :> heap_end,
   prev |-> 0 :> 0 @@ heap_end :> heap_end,
   used |-> 0 :> FALSE @@ heap_end :> TRUE,
   lfree |-> 0, used_mem |-> 0, max_mem |-> 0]

Capacity(h, m) == h.next[m] - m - SIZEOF_STRUCT_MEM
Headers(h) == UNION {Words(m, SIZEOF_STRUCT_MEM) : m \in DOMAIN h.next}

-----------------------------------------------------------------------------
\* Block m takes in the block b behind it.
Join(h, m, b) ==
  LET left == DOMAIN h.next \ {b}
  IN  [h EXCEPT !.next = Restrict([@ EXCEPT ![m] = h.next[b]], left),
                !.prev = Restrict([@ EXCEPT ![h.next[b]] = m], left),
                !.used = Restrict(@, left),
                !.lfree = IF @ = b THEN m ELSE @]

\* plug_holes that looks at the next block only
PlugForward(h, m) ==
  LET n == h.next[m] IN IF m # n /\ ~h.used[n] /\ n # heap_end THEN Join(h, m, n) ELSE h
plug_holes(h, m) ==
  LET n == h.next[m]
      f == IF m # n /\ ~h.used[n] /\ n # heap_end THEN Join(h, m, n) ELSE h
      p == f.prev[m]
  IN  IF p # m /\ ~f.used[p] THEN Join(f, p, m) ELSE f

\* Block m keeps n bytes; what is behind them becomes a free block.
Split(h, m, n) ==
  LET m2 == m + SIZEOF_STRUCT_MEM + n
      after == h.next[m]
  IN  [h EXCEPT !.next = (m2 :> after) @@ [@ EXCEPT ![m] = m2],
                !.prev = (m2 :> m) @@ (IF after # heap_end THEN [@ EXCEPT ![after] = m2] ELSE @),
                !.used = (m2 :> FALSE) @@ @]

\* The loop of rt_malloc from block m on: the first free block that is large enough.
RECURSIVE Search(_, _, _)
Search(h, m, n) == IF m >= mem_size_aligned - n THEN Null
                   ELSE IF ~h.used[m] /\ Capacity(h, m) >= n THEN m
                   ELSE Search(h, h.next[m], n)

RECURSIVE NextFree(_, _)
NextFree(h, m) == IF h.used[m] /\ m # heap_end THEN NextFree(h, h.next[m]) ELSE m

UseBlock(h, m, n) ==
  LET divide == Capacity(h, m) >= n + SIZEOF_STRUCT_MEM + MIN_SIZE
      cut == IF divide THEN Split(h, m, n) ELSE h
      taken == h.used_mem + (IF divide THEN n + SIZEOF_STRUCT_MEM ELSE h.next[m] - m)
      u == [cut EXCEPT !.used[m] = TRUE, !.used_mem = taken, !.max_mem = Greater(@, taken)]
  IN  [u EXCEPT !.lfree = IF m = @ THEN NextFree(u, @) ELSE @]

FreeBlock(h, m) ==
  plug_holes([h EXCEPT !.used[m] = FALSE, !.lfree = Lesser(@, m), !.used_mem = @ - (h.next[m] - m)], m)

ShrinkBlock(h, m, n) ==
  LET cut == Split(h, m, n)
      m2 == cut.next[m]
  IN  plug_holes([cut EXCEPT !.used_mem = @ - (Capacity(h, m) - n), !.lfree = Lesser(@, m2)], m2)

-----------------------------------------------------------------------------
rt_memory_info(h) == [total |-> mem_size_aligned, used |-> h.used_mem, max_used |-> h.max_mem]

Request(t) == Greater(RT_ALIGN(task[t].n, RT_ALIGN_SIZE), MIN_SIZE)

Malloc(t) ==
  /\ At(t, "malloc")
  /\ \/ /\ task[t].n = 0 \/ RT_ALIGN(task[t].n, RT_ALIGN_SIZE) > mem_size_aligned
        /\ Got(t, Null, {}) /\ UNCHANGED <<heap, lock>>
     \/ /\ task[t].n # 0 /\ RT_ALIGN(task[t].n, RT_ALIGN_SIZE) <= mem_size_aligned
        /\ Taken(t, 0) /\ GoTo(t, "malloc locked") /\ UNCHANGED <<heap, slot, bytes>>

MallocLocked(t) ==
  LET m == Search(heap, heap.lfree, Request(t)) IN
  /\ At(t, "malloc locked")
  /\ heap' = IF m = Null THEN heap ELSE UseBlock(heap, m, Request(t))
  /\ Got(t, IF m = Null THEN Null ELSE m + SIZEOF_STRUCT_MEM, Headers(heap'))
  /\ Released(0)

Free(t) == At(t, "free") /\ Taken(t, 0) /\ GoTo(t, "free locked") /\ UNCHANGED <<heap, slot, bytes>>
FreeLocked(t) ==
  /\ At(t, "free locked")
  /\ heap' = FreeBlock(heap, task[t].p - SIZEOF_STRUCT_MEM)
  /\ Freed(t, Headers(heap')) /\ Released(0)

Realloc(t) ==
  LET n == RT_ALIGN(task[t].n, RT_ALIGN_SIZE)
      p == slot[task[t].s]
  IN  /\ At(t, "realloc")
      /\ UNCHANGED heap
      /\ \/ n > mem_size_aligned /\ Got(t, Null, {}) /\ UNCHANGED lock
         \/ n = 0 /\ ReallocIsFree(t) /\ UNCHANGED lock
         \/ 0 < n /\ n <= mem_size_aligned /\ p = NoRegion
            /\ GoTo(t, "malloc") /\ UNCHANGED <<lock, slot, bytes>>
         \/ 0 < n /\ n <= mem_size_aligned /\ p # NoRegion
            /\ Taken(t, 0) /\ GoTo(t, "realloc locked") /\ UNCHANGED <<slot, bytes>>

\* The block keeps its place when it has the size asked for or enough for one more block
\* behind it; otherwise the lock is released and a new block asked for, a smaller one too.
ReallocLocked(t) ==
  LET n == RT_ALIGN(task[t].n, RT_ALIGN_SIZE)
      m == slot[task[t].s].at - SIZEOF_STRUCT_MEM
      size == Capacity(heap, m)
      shrink == n + SIZEOF_STRUCT_MEM + MIN_SIZE < size
  IN  /\ At(t, "realloc locked")
      /\ Released(0)
      /\ \/ /\ size = n \/ shrink
            /\ heap' = IF shrink THEN ShrinkBlock(heap, m, n) ELSE heap
            /\ Stayed(t, Headers(heap'))
         \/ /\ size # n /\ ~shrink
            /\ task' = [task EXCEPT ![t].pc = "malloc", ![t].old = size]
            /\ UNCHANGED <<heap, slot, bytes>>

Step(t) == \/ Malloc(t) \/ MallocLocked(t) \/ Free(t) \/ FreeLocked(t)
           \/ Realloc(t) \/ ReallocLocked(t) \/ Copy(t)

-----------------------------------------------------------------------------
\* The blocks tile the heap, know their neighbours, and no two free ones are adjacent;
\* lfree is the lowest free block.
WellFormed ==
  /\ \A m \in DOMAIN heap.next \ {heap_end} :
       LET n == heap.next[m] IN
       /\ n \in DOMAIN heap.next /\ m < n /\ ~\E b \in DOMAIN heap.next : m < b /\ b < n
       /\ n # heap_end => heap.prev[n] = m
       /\ ~heap.used[m] /\ n # heap_end => heap.used[n]
  /\ heap.lfree = NextFree(heap, 0)
\* What rt_memory_info reports as used is what the used blocks take, headers included.
UsedBlocks == {m \in DOMAIN heap.next \ {heap_end} : heap.used[m]}
StatsExact == /\ rt_memory_info(heap).used = SumFunctionOnSet([m \in UsedBlocks |-> heap.next[m] - m], UsedBlocks)
              /\ heap.used_mem <= rt_memory_info(heap).max_used
=============================================================================
