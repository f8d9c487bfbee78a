------------------------------- MODULE MCHeap -------------------------------
(* Two threads with three pointer variables use one of the three managers. *)
EXTENDS Heap

VARIABLE manager    \* the one rtconfig selects: "mem", "memheap" or "slab"

MCOwner == <<"a", "a", "b">>
MCThreads == {"a", "b"}
MCBounds == <<3, 103>>
MCPools == [k \in 0..1 |-> IF k = 0 THEN <<1000, 146>> ELSE <<2000, 100>>]

Mem == INSTANCE Mem WITH Bounds <- MCBounds
MemHeap == INSTANCE MemHeap WITH Pools <- MCPools
Slab == INSTANCE Slab WITH NPages <- 8, RT_MM_PAGE_SIZE <- 64, ZALLOC_MIN_ZONE_SIZE <- 128,
                           ZALLOC_MAX_ZONE_SIZE <- 256, ZALLOC_ZONE_LIMIT <- 64, ZONE_RELEASE_THRESH <- 1

ASSUME MCPoolsAreProper == MemHeap!PoolsProper

\* the sizes each pointer variable is asked for; only the last one asks for zeroes
Sizes(s) == CASE manager = "mem" -> <<{4, 40}, {18, 80}, {0, 20}>>[s]
              [] manager = "memheap" -> <<{10, 48}, {30}, {0, 30}>>[s]
              [] manager = "slab" -> <<{0, 31}, {24}, {31, 100}>>[s]

\* The start-up code has asked for three chunks of one class and given two back: one zone is
\* free, and one has a chunk in use.
SlabBooted ==
  LET pages == Slab!rt_page_alloc(Slab!rt_page_alloc(Slab!rt_system_heap_init, 2), 2)
      one == Slab!Build(Slab!MarkZone(pages, 1, 1), 1, 31)
      two == Slab!TakeChunk(one[1], 1)
      three == Slab!Build(Slab!MarkZone(two[1], 3, 1), 3, 31)
  IN  Slab!Retire(Slab!ReturnChunk(Slab!ReturnChunk(three[1], one[2]), two[2]), 1)

Init ==
  /\ manager \in {"mem", "memheap", "slab"}
  /\ heap = CASE manager = "mem" -> Mem!rt_system_heap_init
              [] manager = "memheap" -> MemHeap!rt_system_heap_init
              [] manager = "slab" -> SlabBooted
  /\ lock = [k \in 0..1 |-> NoThread]
  /\ task = [t \in Threads |-> Idle]
  /\ slot = [s \in Slots |-> NoRegion]
  /\ bytes = [w \in {} |-> 0]

Call(t) == \E s \in Slots : \/ \E n \in Sizes(s) : CallMalloc(t, s, n, s = 3) \/ CallRealloc(t, s, n)
                            \/ CallFree(t, s)
Next == /\ UNCHANGED manager
        /\ \E t \in Threads : \/ Call(t)
                              \/ manager = "mem" /\ Mem!Step(t)
                              \/ manager = "memheap" /\ MemHeap!Step(t)
                              \/ manager = "slab" /\ Slab!Step(t)
vars == <<heap, lock, task, slot, bytes, manager>>
Spec == Init /\ [][Next]_vars

\* The manager's blocks, lists and counts are consistent whenever no thread is inside a step:
\* rt_free and rt_realloc merge all that can be merged and lose nothing.
WellFormed == CASE manager = "mem" -> Mem!WellFormed
                [] manager = "memheap" -> MemHeap!WellFormed
                [] manager = "slab" -> Slab!WellFormed
\* The bytes rt_memory_info reports as used are those of the blocks in use, through splits,
\* merges, growth in place and races of two calls.
StatsExact == CASE manager = "mem" -> Mem!StatsExact
                [] manager = "memheap" -> MemHeap!StatsExact
                [] manager = "slab" -> Slab!StatsExact
=============================================================================
