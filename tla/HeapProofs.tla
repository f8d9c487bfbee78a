----------------------------- MODULE HeapProofs -----------------------------
(***************************************************************************)
(* The memory heaps of memheap.c: for all heaps, threads, pointers and     *)
(* sizes, and however the calls interleave, the items of every heap tile   *)
(* it, no two free ones are adjacent and the free list holds the free ones *)
(* (WellFormed); and no two regions overlap and every region keeps its     *)
(* contents (AllocatorSpec).                                               *)
(***************************************************************************)
EXTENDS MemHeap, TLAPS, WellFoundedInduction, SequenceTheorems, FiniteSetTheorems

vars == <<heap, lock, task, slot, bytes>>

\* The threads make any calls with their own pointers.
Init == /\ heap = rt_system_heap_init
        /\ lock = [k \in DOMAIN Pools |-> NoThread]
        /\ task = [t \in Threads |-> Idle]
        /\ slot = [s \in Slots |-> NoRegion]
        /\ bytes = [w \in {} |-> 0]
Call(t) == \E s \in Slots : \/ \E n \in Nat : \/ \E zero \in BOOLEAN : CallMalloc(t, s, n, zero)
                                              \/ CallRealloc(t, s, n)
                            \/ CallFree(t, s)
Next == \E t \in Threads : Call(t) \/ Step(t)
Spec == Init /\ [][Next]_vars

-----------------------------------------------------------------------------
(***************************************************************************)
(* A heap by itself.                                                       *)
(***************************************************************************)
HeapFields == {"next", "prev", "used", "free", "tail", "pool_size", "available_size", "max_used_size"}
First(k) == Pools[k][1]
End(k) == First(k) + RT_ALIGN_DOWN(Pools[k][2], RT_ALIGN_SIZE) - RT_MEMHEAP_SIZE

\* The items of heap k with their links: they are between First(k) and End(k), where the tail is.
Ring(next, prev, used, k) ==
  /\ DOMAIN prev = DOMAIN next /\ DOMAIN used = DOMAIN next
  /\ \A m \in DOMAIN next :
       /\ m \in Int /\ m % RT_ALIGN_SIZE = 0 /\ First(k) <= m /\ m <= End(k)
       /\ next[m] \in DOMAIN next /\ prev[next[m]] = m
       /\ prev[m] \in DOMAIN next /\ next[prev[m]] = m
       /\ used[m] \in BOOLEAN
       /\ m # End(k) => /\ next[m] >= m + RT_MEMHEAP_SIZE
                        /\ \A b \in DOMAIN next : b <= m \/ b >= next[m]
  /\ End(k) \in DOMAIN next /\ used[End(k)] = TRUE

\* A list of the numbers S, each once.
Lists(q, S) == q \in Seq(Int) /\ IsInjective(q) /\ Range(q) = S

GoodHeap(h, k) ==
  /\ DOMAIN h = HeapFields /\ h.tail = End(k)
  /\ Ring(h.next, h.prev, h.used, k)
  /\ \A m \in DOMAIN h.next : m # End(k) => h.used[m] = TRUE \/ h.used[h.next[m]] = TRUE
  /\ Lists(h.free, {m \in DOMAIN h.next : h.used[m] = FALSE})

\* The items that clients have.
Busy(h) == {m \in DOMAIN h.next : h.used[m] = TRUE /\ m # h.tail}

-----------------------------------------------------------------------------
(***************************************************************************)
(* Who has which region: the pointer variables, and the threads that are   *)
(* about to give one back or to copy into one.                             *)
(***************************************************************************)
SlotAt(r) == IF r = NoRegion THEN Null ELSE r.at
SlotRoom(r) == IF r = NoRegion THEN 0 ELSE r.n
TaskAt(x) == IF x.pc \in {"free", "free locked", "copy"} THEN x.p ELSE Null
TaskRoom(x) == IF x.pc = "copy" THEN x.n ELSE 0

SlotOf(s) == <<"slot", s>>
TaskOf(t) == <<"task", t>>
Holder == {SlotOf(s) : s \in Slots} \union {TaskOf(t) : t \in Threads}
Place(sl, ta) == [x \in Holder |-> IF x[1] = "slot" THEN SlotAt(sl[x[2]]) ELSE TaskAt(ta[x[2]])]
Room(sl, ta) == [x \in Holder |-> IF x[1] = "slot" THEN SlotRoom(sl[x[2]]) ELSE TaskRoom(ta[x[2]])]

\* Each has a used item of its own with room for the region.
Held(hp, place, room) ==
  \A x \in Holder : place[x] # Null =>
    \E k \in DOMAIN Pools : /\ place[x] - RT_MEMHEAP_SIZE \in Busy(hp[k])
                            /\ room[x] <= MEMITEM_SIZE(hp[k], place[x] - RT_MEMHEAP_SIZE)
Apart(place) == \A x, y \in Holder : place[x] = place[y] /\ x # y => place[x] = Null

Region == [at : Nat, n : Nat, zero : BOOLEAN]
Active == {"malloc", "malloc locked", "move", "move locked", "copy", "realloc", "realloc locked"}
Tasks == [op : {"none", "malloc", "calloc", "realloc", "free"},
          pc : Active \union {"none", "free", "free locked"},
          s : Slots \union {0}, n : Nat, m : Nat, p : Int, old : Int, k : Int]

\* the bytes an item is to have for n that are asked for
Ask(n) == Greater(RT_ALIGN(n, RT_ALIGN_SIZE), RT_MEMHEAP_MINIALLOC)

TaskOK(t, x, sl, hp) ==
  /\ x.pc # "none" => x.s \in Slots /\ Owner[x.s] = t
  /\ x.pc \in Active => /\ x.op \in {"malloc", "calloc", "realloc"}
                        /\ x.op # "realloc" => sl[x.s] = NoRegion /\ x.pc \in {"malloc", "malloc locked"}
                        /\ x.op = "realloc" /\ x.pc # "realloc" /\ sl[x.s] # NoRegion => x.old >= sl[x.s].n
  /\ x.pc \in {"malloc", "malloc locked", "move", "move locked", "realloc", "realloc locked"} =>
       x.k \in DOMAIN Pools
  /\ x.pc \in {"move", "move locked", "copy", "realloc locked"} => sl[x.s] # NoRegion
  /\ x.pc \in {"free", "free locked", "copy"} => x.p \in Nat
  /\ x.pc = "realloc locked" =>
       LET m == sl[x.s].at - RT_MEMHEAP_SIZE
       IN  /\ m \in Busy(hp[x.k]) /\ x.old = MEMITEM_SIZE(hp[x.k], m)
           /\ Ask(x.n) <= x.old => Ask(x.n) + RT_MEMHEAP_SIZE + RT_MEMHEAP_MINIALLOC < x.old

HeapsGood(hp) == DOMAIN hp = DOMAIN Pools /\ \A k \in DOMAIN Pools : GoodHeap(hp[k], k)
\* The heaps, the pointer variables and the tasks between two steps.
Steady(hp, sl, ta) ==
  /\ HeapsGood(hp)
  /\ sl \in [Slots -> Region \union {NoRegion}] /\ ta \in [Threads -> Tasks]
  /\ Held(hp, Place(sl, ta), Room(sl, ta)) /\ Apart(Place(sl, ta))
  /\ \A t \in Threads : TaskOK(t, ta[t], sl, hp)

BytesOK == \A s \in Slots : slot[s] # NoRegion => Intact(s)
HeapInv == Steady(heap, slot, task) /\ BytesOK

-----------------------------------------------------------------------------
(***************************************************************************)
(* Lists: rt_list_insert_after and rt_list_remove on the list of free      *)
(* items, and the search of rt_memheap_alloc through it.                   *)
(***************************************************************************)
\* A set of natural numbers that is not empty has a least one.
LEMMA Smallest == ASSUME NEW S \in SUBSET Nat, S # {} PROVE \E x \in S : \A y \in S : x <= y
<1>1. IsWellFoundedOn(OpToRel(<, Nat), Nat) BY NatLessThanWellFounded
<1>2. PICK x \in S : \A y \in S : ~(<<y, x>> \in OpToRel(<, Nat)) BY <1>1, WFMin
<1>3. \A y \in S : ~(y < x) BY <1>2 DEF OpToRel
<1> QED BY <1>3

\* Where v is, RemoveFirst closes the gap.
LEMMA GapCloses ==
  ASSUME NEW q \in Seq(Int), NEW v \in Range(q)
  PROVE  \E m \in 1 .. Len(q), r \in Seq(Int) :
           /\ q[m] = v /\ r = RemoveFirst(q, v) /\ Len(r) = Len(q) - 1
           /\ \A i \in 1 .. Len(q) - 1 : r[i] = IF i < m THEN q[i] ELSE q[i + 1]
<1> DEFINE I == {i \in 1 .. Len(q) : q[i] = v}
           m == Min(I)
           a == SubSeq(q, 1, m - 1)
           b == SubSeq(q, m + 1, Len(q))
<1>1. DOMAIN q = 1 .. Len(q) /\ Len(q) \in Nat /\ \A i \in 1 .. Len(q) : q[i] \in Int OBVIOUS
<1>2. I \in SUBSET Nat /\ I # {} BY <1>1 DEF Range
<1>3. m \in I BY <1>2, Smallest DEF Min
<1>4. RemoveFirst(q, v) = a \o b BY <1>2 DEF RemoveFirst, RemoveAt, SelectInSeq
<1> HIDE DEF m
<1>5. a \in Seq(Int) /\ Len(a) = m - 1 /\ \A i \in 1 .. m - 1 : a[i] = q[i]
  <2>1. 1 \in Int /\ m - 1 \in Int /\ \A i \in 1 .. m - 1 : q[i] \in Int BY <1>1, <1>3
  <2>2. /\ a \in Seq(Int) /\ Len(a) = IF 1 <= m - 1 THEN (m - 1) - 1 + 1 ELSE 0
        /\ \A i \in 1 .. (m - 1) - 1 + 1 : a[i] = q[1 + i - 1]
    BY ONLY <2>1, SubSeqProperties
  <2> QED BY <1>3, <2>2
<1>6. b \in Seq(Int) /\ Len(b) = Len(q) - m /\ \A i \in 1 .. Len(q) - m : b[i] = q[m + i]
  <2>1. m + 1 \in Int /\ Len(q) \in Int /\ \A i \in m + 1 .. Len(q) : q[i] \in Int BY <1>1, <1>3
  <2>2. /\ b \in Seq(Int) /\ Len(b) = IF m + 1 <= Len(q) THEN Len(q) - (m + 1) + 1 ELSE 0
        /\ \A i \in 1 .. Len(q) - (m + 1) + 1 : b[i] = q[(m + 1) + i - 1]
    BY ONLY <2>1, SubSeqProperties
  <2> QED BY <1>3, <2>2
<1> HIDE DEF a, b
<1>7. PICK r : r = a \o b OBVIOUS
<1>8. /\ r \in Seq(Int) /\ Len(r) = Len(a) + Len(b)
      /\ \A i \in 1 .. Len(a) + Len(b) : r[i] = IF i <= Len(a) THEN a[i] ELSE b[i - Len(a)]
  BY ONLY <1>5, <1>6, <1>7, ConcatProperties
<1>9. \A i \in 1 .. Len(q) - 1 : r[i] = IF i < m THEN q[i] ELSE q[i + 1]
  <2> SUFFICES ASSUME NEW i \in 1 .. Len(q) - 1 PROVE r[i] = IF i < m THEN q[i] ELSE q[i + 1]
    OBVIOUS
  <2>1. r[i] = IF i <= m - 1 THEN a[i] ELSE b[i - (m - 1)] BY <1>1, <1>3, <1>5, <1>6, <1>8
  <2>2. CASE i < m BY <1>1, <1>3, <1>5, <2>1, <2>2
  <2>3. CASE i >= m
    <3>1. b[i - (m - 1)] = q[m + (i - (m - 1))] BY <1>1, <1>3, <1>6, <2>3
    <3>2. m + (i - (m - 1)) = i + 1 BY <1>3
    <3> QED BY <1>3, <2>1, <2>3, <3>1, <3>2
  <2>4. i < m \/ i >= m BY <1>1, <1>3
  <2> QED BY <2>2, <2>3, <2>4
<1>10. m \in 1 .. Len(q) /\ q[m] = v /\ Len(r) = Len(q) - 1 BY <1>1, <1>3, <1>5, <1>6, <1>8
<1>11. r = RemoveFirst(q, v) BY <1>4, <1>7
<1> HIDE DEF I
<1> QED BY <1>8, <1>9, <1>10, <1>11

LEMMA Taking == ASSUME NEW q, NEW S, Lists(q, S), NEW v PROVE Lists(RemoveFirst(q, v), S \ {v})
<1>0. q \in Seq(Int) /\ IsInjective(q) /\ Range(q) = S BY DEF Lists
<1>1. DOMAIN q = 1 .. Len(q) /\ Len(q) \in Nat BY <1>0
<1>2. CASE v \notin Range(q)
  <2>1. RemoveFirst(q, v) = q BY <1>1, <1>2 DEF RemoveFirst, Range
  <2> QED BY <1>0, <1>2, <2>1 DEF Lists
<1>3. CASE v \in Range(q)
  <2>1. PICK m \in 1 .. Len(q), r \in Seq(Int) :
           /\ q[m] = v /\ r = RemoveFirst(q, v) /\ Len(r) = Len(q) - 1
           /\ \A i \in 1 .. Len(q) - 1 : r[i] = IF i < m THEN q[i] ELSE q[i + 1]
    BY <1>0, <1>3, GapCloses
  <2>2. DOMAIN r = 1 .. Len(q) - 1 BY <2>1
  <2> DEFINE from(i) == IF i < m THEN i ELSE i + 1
  <2>3. \A i \in DOMAIN r : from(i) \in DOMAIN q /\ from(i) # m /\ r[i] = q[from(i)]
    BY <1>1, <2>1, <2>2
  <2>4. \A i, j \in DOMAIN r : from(i) = from(j) => i = j BY <2>2
  <2>5. \A a \in DOMAIN q : a # m => \E i \in DOMAIN r : from(i) = a
    <3> SUFFICES ASSUME NEW a \in DOMAIN q, a # m PROVE \E i \in DOMAIN r : from(i) = a OBVIOUS
    <3> DEFINE i == IF a < m THEN a ELSE a - 1
    <3>1. i \in DOMAIN r /\ from(i) = a BY <1>1, <2>2
    <3> QED BY <3>1
  <2> HIDE DEF from
  <2>6. IsInjective(r)
    <3> SUFFICES ASSUME NEW i \in DOMAIN r, NEW j \in DOMAIN r, r[i] = r[j] PROVE i = j
      BY DEF IsInjective
    <3>1. q[from(i)] = q[from(j)] /\ from(i) \in DOMAIN q /\ from(j) \in DOMAIN q BY <2>3
    <3>2. from(i) = from(j) BY <1>0, <3>1 DEF IsInjective
    <3> QED BY <2>4, <3>2
  <2>7. Range(r) = Range(q) \ {v}
    <3>1. ASSUME NEW i \in DOMAIN r PROVE r[i] \in Range(q) \ {v}
      <4>1. r[i] = q[from(i)] /\ from(i) \in DOMAIN q /\ from(i) # m BY <2>3, <3>1
      <4>2. r[i] # q[m] BY <1>0, <1>1, <2>1, <4>1 DEF IsInjective
      <4> QED BY <2>1, <4>1, <4>2 DEF Range
    <3>2. ASSUME NEW a \in DOMAIN q, q[a] # v PROVE q[a] \in Range(r)
      <4>1. a # m BY <2>1, <3>2
      <4>2. PICK i \in DOMAIN r : from(i) = a BY <2>5, <4>1
      <4>3. r[i] = q[a] BY <2>3, <4>2
      <4> QED BY <4>3 DEF Range
    <3> QED BY <3>1, <3>2 DEF Range
  <2> QED BY <1>0, <2>1, <2>6, <2>7 DEF Lists
<1> QED BY <1>2, <1>3

LEMMA Putting ==
  ASSUME NEW q, NEW S, Lists(q, S), NEW v \in Int, v \notin S PROVE Lists(<<v>> \o q, S \union {v})
<1>0. q \in Seq(Int) /\ IsInjective(q) /\ Range(q) = S BY DEF Lists
<1>1. DOMAIN q = 1 .. Len(q) /\ Len(q) \in Nat BY <1>0
<1>2. PICK one : one = <<v>> OBVIOUS
<1>3. one \in Seq(Int) /\ Len(one) = 1 /\ one[1] = v BY <1>2
<1>4. PICK r : r = one \o q OBVIOUS
<1>5. /\ r \in Seq(Int) /\ Len(r) = Len(one) + Len(q)
      /\ \A i \in 1 .. Len(one) + Len(q) : r[i] = IF i <= Len(one) THEN one[i] ELSE q[i - Len(one)]
  BY ONLY <1>0, <1>3, <1>4, ConcatProperties
<1>6. DOMAIN r = 1 .. Len(q) + 1 BY <1>1, <1>3, <1>5
<1>7. r[1] = v BY <1>1, <1>3, <1>5
<1>8. \A i \in DOMAIN r : i # 1 => i - 1 \in DOMAIN q /\ r[i] = q[i - 1] BY <1>1, <1>3, <1>5, <1>6
<1>9. \A i \in DOMAIN q : i + 1 \in DOMAIN r /\ r[i + 1] = q[i] BY <1>1, <1>3, <1>5, <1>6
<1>10. 1 \in DOMAIN r /\ DOMAIN r \subseteq Int BY <1>1, <1>6
<1>11. \A i \in DOMAIN q : q[i] # v BY <1>0 DEF Range
<1>12. IsInjective(r)
  <2> SUFFICES ASSUME NEW i \in DOMAIN r, NEW j \in DOMAIN r, r[i] = r[j] PROVE i = j BY DEF IsInjective
  <2>1. CASE i # 1 /\ j # 1
    <3>1. i - 1 = j - 1 BY <1>0, <1>8, <2>1 DEF IsInjective
    <3> QED BY <1>10, <3>1
  <2>2. CASE i = 1 \/ j = 1 BY <1>7, <1>8, <1>11, <2>2
  <2> QED BY <2>1, <2>2
<1>13. Range(r) = S \union {v}
  <2>1. \A i \in DOMAIN r : r[i] \in S \union {v} BY <1>0, <1>7, <1>8 DEF Range
  <2>2. \A i \in DOMAIN q : q[i] \in Range(r) BY <1>9 DEF Range
  <2>3. v \in Range(r) BY <1>7, <1>10 DEF Range
  <2> QED BY <1>0, <2>1, <2>2, <2>3 DEF Range
<1> QED BY <1>2, <1>4, <1>5, <1>12, <1>13 DEF Lists

\* The first free item that is large enough is one.
LEMMA FirstFitFits ==
  ASSUME NEW h, NEW S, Lists(h.free, S), NEW n, FirstFit(h, n) # Null
  PROVE  FirstFit(h, n) \in S /\ MEMITEM_SIZE(h, FirstFit(h, n)) >= n
<1> DEFINE I == Fits(h, n)
<1>1. h.free \in Seq(Int) /\ Range(h.free) = S BY DEF Lists
<1>2. DOMAIN h.free = 1 .. Len(h.free) /\ Len(h.free) \in Nat BY <1>1
<1>3. I \in SUBSET Nat /\ I # {} BY <1>2 DEF Fits, FirstFit
<1>4. PICK i \in I : \A j \in I : i <= j BY <1>3, Smallest
<1>5. PICK c : c = CHOOSE i_1 \in I : \A j \in I : i_1 <= j OBVIOUS
<1>6. c \in I BY <1>4, <1>5
<1>7. FirstFit(h, n) = h.free[c] BY <1>3, <1>5 DEF FirstFit
<1>8. c \in DOMAIN h.free /\ MEMITEM_SIZE(h, h.free[c]) >= n BY <1>6 DEF Fits
<1> QED BY <1>1, <1>7, <1>8 DEF Range

LEMMA Counted == ASSUME NEW q, NEW S, Lists(q, S) PROVE Len(q) = Cardinality(S)
<1>0. q \in Seq(Int) /\ IsInjective(q) /\ Range(q) = S BY DEF Lists
<1>1. DOMAIN q = 1 .. Len(q) /\ Len(q) \in Nat BY <1>0
<1>2. 1 \in Int /\ Len(q) \in Int BY <1>1
<1>3. IsFiniteSet(1 .. Len(q)) /\ Cardinality(1 .. Len(q)) = IF 1 > Len(q) THEN 0 ELSE Len(q) - 1 + 1
  BY ONLY <1>2, FS_Interval
<1>4. Cardinality(1 .. Len(q)) = Len(q) BY <1>1, <1>3
<1>5. q \in [1 .. Len(q) -> S] BY <1>0, <1>1 DEF Range
<1>6. ExistsBijection(1 .. Len(q), S)
  <2>1. q \in Injection(1 .. Len(q), S) BY <1>0, <1>5 DEF Injection
  <2>2. q \in Surjection(1 .. Len(q), S) BY <1>0, <1>1, <1>5 DEF Surjection, Range
  <2> QED BY <2>1, <2>2 DEF ExistsBijection, Bijection
<1> QED BY <1>3, <1>4, <1>6, FS_Bijection

-----------------------------------------------------------------------------
(***************************************************************************)
(* The ring of items.                                                      *)
(***************************************************************************)
LEMMA Aligned ==
  /\ \A n \in Int : /\ RT_ALIGN(n, RT_ALIGN_SIZE) \in Int /\ RT_ALIGN(n, RT_ALIGN_SIZE) >= n
                    /\ RT_ALIGN(n, RT_ALIGN_SIZE) % RT_ALIGN_SIZE = 0
                    /\ RT_ALIGN_DOWN(n, RT_ALIGN_SIZE) \in Int
                    /\ RT_ALIGN_DOWN(n, RT_ALIGN_SIZE) <= n /\ RT_ALIGN_DOWN(n, RT_ALIGN_SIZE) + 3 >= n
                    /\ RT_ALIGN_DOWN(n, RT_ALIGN_SIZE) % RT_ALIGN_SIZE = 0
  /\ \A a, b \in Int : a % RT_ALIGN_SIZE = 0 /\ b % RT_ALIGN_SIZE = 0 =>
       (a + b) % RT_ALIGN_SIZE = 0 /\ (a - b) % RT_ALIGN_SIZE = 0
BY DEF RT_ALIGN, RT_ALIGN_DOWN, RT_ALIGN_SIZE

LEMMA PoolsTyped ==
  ASSUME PoolsProper, NEW k \in DOMAIN Pools PROVE First(k) \in Nat /\ End(k) \in Int
<1>1. Pools[k][1] \in Nat /\ Pools[k][2] \in Nat BY DEF PoolsProper
<1>2. PICK s : s = Pools[k][2] OBVIOUS
<1>3. s \in Int BY <1>1, <1>2
<1>4. RT_ALIGN_DOWN(s, RT_ALIGN_SIZE) \in Int BY ONLY <1>3, Aligned
<1> QED BY <1>1, <1>2, <1>4 DEF First, End, RT_MEMHEAP_SIZE

\* Item m2 can be cut off the end of m; g is h when that is done.
CanInsert(h, k, m, m2) ==
  /\ DOMAIN h = HeapFields /\ k \in DOMAIN Pools /\ Ring(h.next, h.prev, h.used, k)
  /\ m \in DOMAIN h.next /\ m # End(k) /\ m2 \in Int /\ m2 % RT_ALIGN_SIZE = 0
  /\ m2 >= m + RT_MEMHEAP_SIZE /\ m2 + RT_MEMHEAP_SIZE <= h.next[m]
IsInsert(h, k, m, m2, g) ==
  /\ DOMAIN g = HeapFields /\ Ring(g.next, g.prev, g.used, k)
  /\ m2 \notin DOMAIN h.next /\ DOMAIN g.next = DOMAIN h.next \union {m2}
  /\ \A x \in DOMAIN g.next :
       g.next[x] = IF x = m2 THEN h.next[m] ELSE IF x = m THEN m2 ELSE h.next[x]
  /\ g.used[m2] = FALSE /\ \A x \in DOMAIN h.next : g.used[x] = h.used[x]
  /\ g.free = h.free /\ g.tail = h.tail

LEMMA Inserted ==
  ASSUME PoolsProper, NEW h, NEW k, NEW m, NEW m2, CanInsert(h, k, m, m2)
  PROVE  IsInsert(h, k, m, m2, Insert(h, m, m2))
<1> USE DEF CanInsert
<1> DEFINE g == Insert(h, m, m2)
           D == DOMAIN h.next
           n == h.next[m]
<1>0. RT_MEMHEAP_SIZE = 24 BY DEF RT_MEMHEAP_SIZE
<1>1. /\ DOMAIN h.prev = D /\ DOMAIN h.used = D /\ n \in D /\ n \in Int /\ m \in Int
      /\ \A b \in D : b \in Int /\ (b <= m \/ b >= n)
  BY DEF Ring
<1>2. m2 \notin D /\ m # m2 /\ n # m2 /\ m < m2 /\ m2 < n BY <1>0, <1>1
<1>3. /\ DOMAIN g = HeapFields
      /\ g.next = With([h.next EXCEPT ![m] = m2], m2, n)
      /\ g.prev = With([h.prev EXCEPT ![n] = m2], m2, m)
      /\ g.used = With(h.used, m2, FALSE)
      /\ g.free = h.free /\ g.tail = h.tail
  BY DEF Insert, HeapFields
<1> HIDE DEF g
<1>4. DOMAIN g.next = D \union {m2} /\ DOMAIN g.prev = D \union {m2} /\ DOMAIN g.used = D \union {m2}
  BY <1>1, <1>3 DEF With
<1>5. \A x \in D \union {m2} :
        /\ g.next[x] = IF x = m2 THEN n ELSE IF x = m THEN m2 ELSE h.next[x]
        /\ g.prev[x] = IF x = m2 THEN m ELSE IF x = n THEN m2 ELSE h.prev[x]
        /\ x = m2 => g.used[x] = FALSE
        /\ x # m2 => g.used[x] = h.used[x]
  BY <1>1, <1>2, <1>3 DEF With
<1> HIDE DEF D, n
<1>6. \A x \in D \union {m2} : x \in Int /\ x % RT_ALIGN_SIZE = 0 /\ First(k) <= x /\ x <= End(k)
  <2>1. \A x \in D : x \in Int /\ x % RT_ALIGN_SIZE = 0 /\ First(k) <= x /\ x <= End(k) BY DEF Ring, D
  <2>2. m \in D /\ First(k) <= m /\ n <= End(k) BY <1>1, <2>1 DEF D
  <2>3. PICK a : a = First(k) OBVIOUS
  <2>4. PICK e : e = End(k) OBVIOUS
  <2>5. a \in Int /\ e \in Int
    <3>1. a \in Int
      <4>1. First(k) \in Int BY PoolsTyped
      <4> QED BY <2>3, <4>1
    <3>2. e \in Int
      <4>1. End(k) \in Int BY PoolsTyped
      <4> QED BY <2>4, <4>1
    <3> QED BY <3>1, <3>2
  <2>6. a <= m2 /\ m2 <= e BY <1>1, <1>2, <2>2, <2>3, <2>4, <2>5
  <2> QED BY <2>1, <2>3, <2>4, <2>6
<1>7. \A x \in D : /\ h.next[x] \in D /\ h.prev[h.next[x]] = x
                   /\ h.prev[x] \in D /\ h.next[h.prev[x]] = x /\ h.used[x] \in BOOLEAN
  BY DEF Ring, D
<1>8. \A x \in D \union {m2} :
        /\ g.next[x] \in D \union {m2} /\ g.prev[g.next[x]] = x
        /\ g.prev[x] \in D \union {m2} /\ g.next[g.prev[x]] = x
  <2>1. m \in D /\ n \in D /\ h.next[m] = n /\ h.prev[n] = m BY <1>1, <1>7 DEF D, n
  <2>2. \A x \in D : (h.next[x] = n => x = m) /\ (h.prev[x] = m => x = n) BY <1>7, <2>1
  <2>3. \A x \in D \union {m2} : g.next[x] \in D \union {m2} /\ g.prev[x] \in D \union {m2}
    BY <1>5, <1>7, <2>1
  <2>4. ASSUME NEW x \in D \union {m2} PROVE g.prev[g.next[x]] = x /\ g.next[g.prev[x]] = x
    <3>1. CASE x = m2
      <4>1. g.next[x] = n /\ g.prev[x] = m BY <1>5, <3>1
      <4> QED BY <1>2, <1>5, <2>1, <3>1, <4>1
    <3>2. CASE x = m
      <4>1. g.next[x] = m2 BY <1>2, <1>5, <3>2
      <4>2. g.prev[m2] = m BY <1>5
      <4>3. g.prev[x] = IF x = n THEN m2 ELSE h.prev[x] BY <1>2, <1>5, <3>2
      <4>4. g.next[g.prev[x]] = x
        <5>1. CASE x = n BY <1>5, <4>3, <5>1
        <5>2. CASE x # n
          <6>1. h.prev[x] \in D /\ h.next[h.prev[x]] = x BY <1>7, <2>1, <3>2
          <6> QED BY <1>2, <1>5, <2>1, <3>2, <4>3, <5>2, <6>1
        <5> QED BY <5>1, <5>2
      <4> QED BY <3>2, <4>1, <4>2, <4>4
    <3>3. CASE x \in D /\ x # m
      <4>1. g.next[x] = h.next[x] /\ h.next[x] \in D /\ h.next[x] # n BY <1>2, <1>5, <1>7, <2>2, <3>3
      <4>2. g.prev[g.next[x]] = x
        <5>1. PICK y \in D : y = h.next[x] BY <4>1
        <5>2. y # n /\ h.prev[y] = x BY <1>7, <3>3, <4>1, <5>1
        <5>3. g.prev[y] = h.prev[y] BY <1>2, <1>5, <5>2
        <5> QED BY <4>1, <5>1, <5>2, <5>3
      <4>3. CASE x = n
        <5>1. g.prev[x] = m2 /\ g.next[m2] = n BY <1>2, <1>5, <3>3, <4>3
        <5> QED BY <4>2, <4>3, <5>1
      <4>4. CASE x # n
        <5>1. g.prev[x] = h.prev[x] /\ h.prev[x] \in D /\ h.next[h.prev[x]] = x /\ h.prev[x] # m
          BY <1>2, <1>5, <1>7, <2>2, <3>3, <4>4
        <5> QED BY <1>2, <1>5, <4>2, <5>1
      <4> QED BY <4>3, <4>4
    <3> QED BY <3>1, <3>2, <3>3
  <2> QED BY <2>3, <2>4
<1>9. \A x \in D \union {m2} : g.used[x] \in BOOLEAN BY <1>5, <1>7
<1>10. \A x \in D \union {m2} :
         x # End(k) => /\ g.next[x] >= x + RT_MEMHEAP_SIZE
                       /\ \A b \in D \union {m2} : b <= x \/ b >= g.next[x]
  <2>1. \A x \in D : x # End(k) => /\ h.next[x] >= x + RT_MEMHEAP_SIZE
                                   /\ \A b \in D : b <= x \/ b >= h.next[x]
    BY DEF Ring, D
  <2> SUFFICES ASSUME NEW x \in D \union {m2}, x # End(k)
               PROVE  /\ g.next[x] >= x + RT_MEMHEAP_SIZE
                      /\ \A b \in D \union {m2} : b <= x \/ b >= g.next[x]
    OBVIOUS
  <2>2. CASE x = m2
    <3>1. g.next[x] = n /\ n >= m2 + RT_MEMHEAP_SIZE BY <1>5, <2>2 DEF n
    <3>2. n \in D /\ n \in Int BY <1>1
    <3>3. ASSUME NEW b \in D PROVE b <= m2 \/ b >= n
      <4>1. b \in Int /\ (b <= m \/ b >= n) BY <1>1, <3>3
      <4> QED BY <1>1, <1>2, <4>1
    <3> QED BY <1>6, <2>2, <3>1, <3>3
  <2>3. CASE x = m
    <3>1. g.next[x] = m2 BY <1>2, <1>5, <2>3
    <3>2. ASSUME NEW b \in D PROVE b <= m \/ b >= m2
      <4>1. b \in Int /\ (b <= m \/ b >= n) BY <1>1, <3>2
      <4> QED BY <1>1, <1>2, <4>1
    <3> QED BY <1>6, <2>3, <3>1, <3>2
  <2>4. CASE x \in D /\ x # m
    <3>1. g.next[x] = h.next[x] BY <1>2, <1>5, <2>4
    <3>2. h.next[x] \in Int /\ x \in Int BY <1>6, <1>7, <2>4
    <3>3. x < m => h.next[x] <= m BY <2>1, <2>4, <1>1, <3>2 DEF D
    <3>4. x < m \/ x >= n BY <1>1, <2>4 DEF D, n
    <3>5. m2 <= x \/ m2 >= h.next[x] BY <1>1, <1>2, <3>2, <3>3, <3>4
    <3> QED BY <2>1, <2>4, <3>1, <3>5
  <2> QED BY <2>2, <2>3, <2>4
<1>11. End(k) \in D \union {m2} /\ g.used[End(k)] = TRUE
  <2>1. End(k) \in D /\ h.used[End(k)] = TRUE BY DEF Ring, D
  <2> QED BY <1>2, <1>5, <2>1
<1>12. Ring(g.next, g.prev, g.used, k) BY <1>4, <1>6, <1>8, <1>9, <1>10, <1>11 DEF Ring
<1> QED BY <1>2, <1>3, <1>4, <1>5, <1>12 DEF g, D, n, IsInsert

\* Item b behind m can join it; g is h when that is done.
CanJoin(h, k, m, b) ==
  /\ DOMAIN h = HeapFields /\ k \in DOMAIN Pools /\ Ring(h.next, h.prev, h.used, k)
  /\ m \in DOMAIN h.next /\ m # End(k) /\ b = h.next[m] /\ b # End(k)
IsJoin(h, k, m, b, g) ==
  /\ DOMAIN g = HeapFields /\ Ring(g.next, g.prev, g.used, k)
  /\ m # b /\ b \in DOMAIN h.next /\ DOMAIN g.next = DOMAIN h.next \ {b}
  /\ \A x \in DOMAIN g.next : /\ g.next[x] = IF x = m THEN h.next[b] ELSE h.next[x]
                              /\ g.used[x] = h.used[x]
  /\ g.free = h.free /\ g.tail = h.tail

LEMMA Joined ==
  ASSUME PoolsProper, NEW h, NEW k, NEW m, NEW b, CanJoin(h, k, m, b)
  PROVE  IsJoin(h, k, m, b, Join(h, m, b))
<1> USE DEF CanJoin
<1> DEFINE g == Join(h, m, b)
           D == DOMAIN h.next
           n == h.next[b]
           E == D \ {b}
<1>0. RT_MEMHEAP_SIZE = 24 BY DEF RT_MEMHEAP_SIZE
<1>1. /\ DOMAIN h.prev = D /\ DOMAIN h.used = D /\ b \in D /\ n \in D
      /\ \A x \in D : x \in Int
  BY DEF Ring
<1>2. \A x \in D : /\ h.next[x] \in D /\ h.prev[h.next[x]] = x
                   /\ h.prev[x] \in D /\ h.next[h.prev[x]] = x /\ h.used[x] \in BOOLEAN
  BY DEF Ring
<1>3. \A x \in D : x # End(k) => /\ h.next[x] >= x + RT_MEMHEAP_SIZE
                                 /\ \A y \in D : y <= x \/ y >= h.next[x]
  BY DEF Ring
<1>4. m < b /\ b < n /\ m \in Int /\ b \in Int /\ n \in Int BY <1>0, <1>1, <1>3
<1>5. /\ DOMAIN g = HeapFields
      /\ g.next = Restrict([h.next EXCEPT ![m] = n], E)
      /\ g.prev = Restrict([h.prev EXCEPT ![n] = m], E)
      /\ g.used = Restrict(h.used, E)
      /\ g.free = h.free /\ g.tail = h.tail
  BY DEF Join, HeapFields
<1> HIDE DEF g
<1>6. DOMAIN g.next = E /\ DOMAIN g.prev = E /\ DOMAIN g.used = E BY <1>5 DEF Restrict
<1>7. \A x \in E : /\ g.next[x] = IF x = m THEN n ELSE h.next[x]
                   /\ g.prev[x] = IF x = n THEN m ELSE h.prev[x]
                   /\ g.used[x] = h.used[x]
  BY <1>1, <1>5 DEF Restrict
<1>8. m \in E /\ n \in E BY <1>1, <1>4
<1> HIDE DEF D, n
<1>9. \A x \in E : x \in Int /\ x % RT_ALIGN_SIZE = 0 /\ First(k) <= x /\ x <= End(k) BY DEF Ring, D
<1>10. \A x \in E : g.next[x] \in E /\ g.prev[g.next[x]] = x /\ g.prev[x] \in E /\ g.next[g.prev[x]] = x
  <2>1. \A x \in D : (h.next[x] = b => x = m) /\ (h.prev[x] = b => x = n) /\ (h.next[x] = n => x = b)
    BY <1>1, <1>2, SMTT(40) DEF D, n
  <2>2. h.prev[n] = b /\ h.prev[b] = m /\ h.next[m] = b /\ h.next[b] = n BY <1>1, <1>2 DEF D, n
  <2>3. \A x \in E : h.prev[x] = m => x = b BY <1>2, <2>2
  <2>4. \A x \in E : g.next[x] \in E BY <1>2, <1>7, <1>8, <2>1
  <2>5. \A x \in E : g.prev[x] \in E BY <1>2, <1>7, <1>8, <2>1
  <2>6. \A x \in E : g.prev[g.next[x]] = x BY <1>2, <1>7, <1>8, <2>1, <2>4
  <2>7. \A x \in E : g.next[g.prev[x]] = x BY <1>2, <1>7, <1>8, <2>1, <2>2, <2>3, <2>5
  <2> QED BY <2>4, <2>5, <2>6, <2>7
<1>11. \A x \in E : g.used[x] \in BOOLEAN BY <1>2, <1>7
<1>12. \A x \in E : x # End(k) => /\ g.next[x] >= x + RT_MEMHEAP_SIZE
                                  /\ \A y \in E : y <= x \/ y >= g.next[x]
  <2> SUFFICES ASSUME NEW x \in E, x # End(k)
               PROVE  /\ g.next[x] >= x + RT_MEMHEAP_SIZE
                      /\ \A y \in E : y <= x \/ y >= g.next[x]
    OBVIOUS
  <2>1. CASE x # m BY <1>3, <1>7, <2>1
  <2>2. CASE x = m
    <3>1. g.next[x] = n BY <1>7, <2>2
    <3>2. n >= x + RT_MEMHEAP_SIZE BY <1>0, <1>1, <1>3, <1>4, <2>2 DEF D, n
    <3>3. ASSUME NEW y \in E PROVE y <= x \/ y >= n
      <4>1. y <= m \/ y >= b BY <1>3, <3>3 DEF D
      <4>2. y <= b \/ y >= n BY <1>1, <1>3, <3>3 DEF D, n
      <4>3. y \in Int /\ y # b BY <1>1, <3>3
      <4> QED BY <1>4, <2>2, <4>1, <4>2, <4>3
    <3> QED BY <3>1, <3>2, <3>3
  <2> QED BY <2>1, <2>2
<1>13. End(k) \in E /\ g.used[End(k)] = TRUE
  <2>1. End(k) \in D /\ h.used[End(k)] = TRUE BY DEF Ring, D
  <2> QED BY <1>7, <2>1
<1>14. Ring(g.next, g.prev, g.used, k) BY <1>6, <1>9, <1>10, <1>11, <1>12, <1>13 DEF Ring
<1> QED BY <1>1, <1>4, <1>5, <1>6, <1>7, <1>14, SMTT(40) DEF g, D, n, IsJoin

-----------------------------------------------------------------------------
(***************************************************************************)
(* What rt_memheap_alloc, rt_memheap_realloc and rt_memheap_free do to a   *)
(* heap.                                                                   *)
(***************************************************************************)
LEMMA FreeListOnly ==
  ASSUME NEW h, DOMAIN h = HeapFields, NEW m
  PROVE  /\ LET g == FreeRemove(h, m) IN
            /\ DOMAIN g = HeapFields /\ g.next = h.next /\ g.prev = h.prev /\ g.used = h.used
            /\ g.tail = h.tail /\ g.free = RemoveFirst(h.free, m)
         /\ LET g == FreeInsert(h, m) IN
            /\ DOMAIN g = HeapFields /\ g.next = h.next /\ g.prev = h.prev /\ g.used = h.used
            /\ g.tail = h.tail /\ g.free = <<m>> \o h.free
BY DEF FreeRemove, FreeInsert, HeapFields

LEMMA CountsOnly ==
  ASSUME NEW h, DOMAIN h = HeapFields, NEW d
  PROVE  /\ LET g == Adjust(h, d) IN
            /\ DOMAIN g = HeapFields /\ g.next = h.next /\ g.prev = h.prev /\ g.used = h.used
            /\ g.tail = h.tail /\ g.free = h.free
         /\ LET g == [h EXCEPT !.available_size = d] IN
            /\ DOMAIN g = HeapFields /\ g.next = h.next /\ g.prev = h.prev /\ g.used = h.used
            /\ g.tail = h.tail /\ g.free = h.free
BY DEF Adjust, HeapFields

LEMMA Marked ==
  ASSUME NEW h, NEW k, Ring(h.next, h.prev, h.used, k), NEW m \in DOMAIN h.next, m # End(k),
         NEW u, DOMAIN u = DOMAIN h.next, u[m] \in BOOLEAN,
         \A x \in DOMAIN h.next : x # m => u[x] = h.used[x]
  PROVE  Ring(h.next, h.prev, u, k)
<1>1. DOMAIN h.prev = DOMAIN h.next /\ h.used[End(k)] = TRUE /\ End(k) \in DOMAIN h.next BY DEF Ring
<1>2. \A x \in DOMAIN h.next : u[x] \in BOOLEAN BY DEF Ring
<1>3. u[End(k)] = TRUE BY <1>1
<1>4. \A x \in DOMAIN h.next :
        /\ x \in Int /\ x % RT_ALIGN_SIZE = 0 /\ First(k) <= x /\ x <= End(k)
        /\ h.next[x] \in DOMAIN h.next /\ h.prev[h.next[x]] = x
        /\ h.prev[x] \in DOMAIN h.next /\ h.next[h.prev[x]] = x
        /\ x # End(k) => /\ h.next[x] >= x + RT_MEMHEAP_SIZE
                         /\ \A b \in DOMAIN h.next : b <= x \/ b >= h.next[x]
  BY DEF Ring
<1> QED BY <1>1, <1>2, <1>3, <1>4 DEF Ring

SetUsed(f, m) == [f EXCEPT ![m] = TRUE]
SetFree(f, m) == [f EXCEPT ![m] = FALSE]
IsUsed(h, k, m, u) ==
  /\ Ring(h.next, h.prev, u, k)
  /\ u[m] = TRUE /\ \A x \in DOMAIN h.next : x # m => u[x] = h.used[x]
IsFree(h, k, m, u) ==
  /\ Ring(h.next, h.prev, u, k)
  /\ u[m] = FALSE /\ \A x \in DOMAIN h.next : x # m => u[x] = h.used[x]

LEMMA MarkedUsed ==
  ASSUME NEW h, NEW k, Ring(h.next, h.prev, h.used, k), NEW m \in DOMAIN h.next, m # End(k)
  PROVE  IsUsed(h, k, m, SetUsed(h.used, m))
<1> DEFINE u == SetUsed(h.used, m)
<1>1. DOMAIN h.used = DOMAIN h.next BY DEF Ring
<1>2. DOMAIN u = DOMAIN h.next /\ u[m] = TRUE /\ \A x \in DOMAIN h.next : x # m => u[x] = h.used[x]
  BY <1>1 DEF SetUsed
<1> HIDE DEF u
<1>3. u[m] \in BOOLEAN BY <1>2
<1>4. Ring(h.next, h.prev, u, k) BY <1>2, <1>3, Marked
<1> QED BY <1>2, <1>4 DEF IsUsed, u

LEMMA MarkedFree ==
  ASSUME NEW h, NEW k, Ring(h.next, h.prev, h.used, k), NEW m \in DOMAIN h.next, m # End(k)
  PROVE  IsFree(h, k, m, SetFree(h.used, m))
<1> DEFINE u == SetFree(h.used, m)
<1>1. DOMAIN h.used = DOMAIN h.next BY DEF Ring
<1>2. DOMAIN u = DOMAIN h.next /\ u[m] = FALSE /\ \A x \in DOMAIN h.next : x # m => u[x] = h.used[x]
  BY <1>1 DEF SetFree
<1> HIDE DEF u
<1>3. u[m] \in BOOLEAN BY <1>2
<1>4. Ring(h.next, h.prev, u, k) BY <1>2, <1>3, Marked
<1> QED BY <1>2, <1>4 DEF IsFree, u

LEMMA RingFacts ==
  ASSUME NEW h, NEW k, Ring(h.next, h.prev, h.used, k), NEW m \in DOMAIN h.next
  PROVE  /\ m \in Int /\ m % RT_ALIGN_SIZE = 0
         /\ h.next[m] \in DOMAIN h.next /\ h.prev[m] \in DOMAIN h.next
         /\ h.prev[h.next[m]] = m /\ h.next[h.prev[m]] = m
         /\ h.used[m] \in BOOLEAN /\ h.used[End(k)] = TRUE
         /\ m # End(k) => h.next[m] >= m + RT_MEMHEAP_SIZE
BY DEF Ring

\* The other items that clients have stay.
Keeps(h, g, m) == \A x \in Busy(h) \ {m} : x \in Busy(g) /\ g.next[x] = h.next[x]

\* What makes a heap good when its ring is: no two free neighbours, and the right free list.
NoFreePair(h, k) ==
  \A m \in DOMAIN h.next : m # End(k) => h.used[m] = TRUE \/ h.used[h.next[m]] = TRUE


\* rt_memheap_alloc takes a free item, whole or its first part.
LEMMA UseItemOK ==
  ASSUME PoolsProper, NEW k \in DOMAIN Pools, NEW h, GoodHeap(h, k),
         NEW m \in DOMAIN h.next, h.used[m] = FALSE,
         NEW n \in Int, n >= RT_MEMHEAP_MINIALLOC, n % RT_ALIGN_SIZE = 0, MEMITEM_SIZE(h, m) >= n
  PROVE  LET g == UseItem(h, m, n) IN
         /\ GoodHeap(g, k) /\ Keeps(h, g, m)
         /\ m \in Busy(g) /\ m \notin Busy(h) /\ MEMITEM_SIZE(g, m) >= n
<1> DEFINE size == MEMITEM_SIZE(h, m)
           m2 == m + n + RT_MEMHEAP_SIZE
           out == FreeRemove(h, m)
           D == DOMAIN h.next
<1>0. RT_MEMHEAP_SIZE = 24 /\ RT_MEMHEAP_MINIALLOC = 12 /\ 24 % RT_ALIGN_SIZE = 0
  BY DEF RT_MEMHEAP_SIZE, RT_MEMHEAP_MINIALLOC, RT_ALIGN_SIZE
<1>1. /\ DOMAIN h = HeapFields /\ h.tail = End(k) /\ Ring(h.next, h.prev, h.used, k)
      /\ NoFreePair(h, k) /\ Lists(h.free, {x \in D : h.used[x] = FALSE})
  BY DEF GoodHeap, NoFreePair
<1>2. m \in Int /\ m % RT_ALIGN_SIZE = 0 /\ m # End(k) /\ h.next[m] \in D /\ h.next[m] \in Int
      /\ h.used[h.next[m]] = TRUE /\ h.next[m] >= m + RT_MEMHEAP_SIZE /\ h.next[m] # m
  <2>1. /\ m \in Int /\ m % RT_ALIGN_SIZE = 0 /\ h.next[m] \in D /\ h.used[End(k)] = TRUE
        /\ m # End(k) => h.next[m] >= m + RT_MEMHEAP_SIZE
    BY <1>1, RingFacts
  <2>2. h.next[m] \in Int BY <1>1, <2>1, RingFacts
  <2>3. m # End(k) BY <2>1
  <2> QED BY <1>0, <1>1, <2>1, <2>2, <2>3 DEF NoFreePair
<1>3. /\ DOMAIN out = HeapFields /\ out.next = h.next /\ out.prev = h.prev /\ out.used = h.used
      /\ out.tail = h.tail /\ out.free = RemoveFirst(h.free, m)
  BY <1>1, FreeListOnly
<1>4. Lists(out.free, {x \in D : h.used[x] = FALSE} \ {m}) BY <1>1, <1>3, Taking
<1>5. m \notin Busy(h) BY DEF Busy
<1> HIDE DEF out
<1>6. CASE size >= n + RT_MEMHEAP_SIZE + RT_MEMHEAP_MINIALLOC
  <2> DEFINE i == Insert(out, m, m2)
             f == FreeInsert(i, m2)
             a == Adjust(f, -(n + RT_MEMHEAP_SIZE))
             g == [a EXCEPT !.used[m] = TRUE]
  <2>1. UseItem(h, m, n) = g BY <1>6 DEF UseItem, out
  <2>2. /\ m2 \in Int /\ m2 >= m + RT_MEMHEAP_SIZE /\ m2 + RT_MEMHEAP_SIZE <= h.next[m]
        /\ m2 % RT_ALIGN_SIZE = 0
    <3>1. m2 \in Int /\ m2 >= m + RT_MEMHEAP_SIZE /\ m2 + RT_MEMHEAP_SIZE <= h.next[m]
      BY <1>0, <1>2, <1>6 DEF MEMITEM_SIZE
    <3>2. n + 24 \in Int /\ (n + 24) % RT_ALIGN_SIZE = 0 BY <1>0, Aligned
    <3>3. (m + (n + 24)) % RT_ALIGN_SIZE = 0 BY <1>2, <3>2, Aligned
    <3>4. m2 = m + (n + 24) BY <1>0, <1>2
    <3> QED BY <3>1, <3>3, <3>4
  <2> HIDE DEF m2
  <2>3. /\ DOMAIN i = HeapFields /\ Ring(i.next, i.prev, i.used, k)
        /\ m2 \notin D /\ DOMAIN i.next = D \union {m2}
        /\ \A x \in DOMAIN i.next :
             i.next[x] = IF x = m2 THEN h.next[m] ELSE IF x = m THEN m2 ELSE h.next[x]
        /\ i.used[m2] = FALSE /\ \A x \in D : i.used[x] = h.used[x]
        /\ i.free = out.free /\ i.tail = h.tail
    <3>1. CanInsert(out, k, m, m2) BY <1>1, <1>2, <1>3, <2>2 DEF CanInsert
    <3>2. IsInsert(out, k, m, m2, i) BY <3>1, Inserted
    <3> HIDE DEF i
    <3> QED BY <1>3, <3>2 DEF IsInsert
  <2> HIDE DEF i
  <2>4. /\ DOMAIN f = HeapFields /\ f.next = i.next /\ f.prev = i.prev /\ f.used = i.used
        /\ f.tail = h.tail /\ f.free = <<m2>> \o out.free
    BY <2>3, FreeListOnly
  <2> HIDE DEF f
  <2>5. /\ DOMAIN a = HeapFields /\ a.next = i.next /\ a.prev = i.prev /\ a.used = i.used
        /\ a.tail = h.tail /\ a.free = <<m2>> \o out.free
    BY <2>4, CountsOnly
  <2> HIDE DEF a
  <2>6. /\ DOMAIN g = HeapFields /\ g.next = i.next /\ g.prev = i.prev
        /\ g.used = [i.used EXCEPT ![m] = TRUE]
        /\ g.tail = h.tail /\ g.free = <<m2>> \o out.free
    BY <2>5 DEF HeapFields
  <2> HIDE DEF g
  <2>7. m \in DOMAIN i.next /\ m # m2 /\ m2 \in DOMAIN i.next BY <2>3
  <2>8. /\ Ring(i.next, i.prev, g.used, k)
        /\ g.used[m] = TRUE /\ \A x \in DOMAIN i.next : x # m => g.used[x] = i.used[x]
    <3>1. IsUsed(i, k, m, SetUsed(i.used, m)) BY <1>2, <2>3, <2>7, MarkedUsed
    <3>2. g.used = SetUsed(i.used, m) BY <2>6 DEF SetUsed
    <3> QED BY <3>1, <3>2 DEF IsUsed
  <2>9. NoFreePair(g, k)
    <3> SUFFICES ASSUME NEW x \in D \union {m2}, x # End(k)
                 PROVE  g.used[x] = TRUE \/ g.used[g.next[x]] = TRUE
      BY <2>3, <2>6 DEF NoFreePair
    <3>1. CASE x = m BY <2>3, <2>8, <3>1
    <3>2. CASE x = m2 BY <1>2, <2>3, <2>6, <2>8, <3>2
    <3>3. CASE x \in D /\ x # m
      <4>0. h.next[x] \in D BY <1>1, <3>3 DEF Ring
      <4>1. g.next[x] = h.next[x] /\ h.next[x] \in D BY <2>3, <2>6, <3>3, <4>0
      <4>2. h.used[x] = TRUE \/ h.used[h.next[x]] = TRUE BY <1>1, <3>3 DEF NoFreePair
      <4>3. \A y \in D : h.used[y] = TRUE => g.used[y] = TRUE BY <2>3, <2>8
      <4> QED BY <3>3, <4>1, <4>2, <4>3
    <3> QED BY <3>1, <3>2, <3>3
  <2>10. Lists(g.free, {x \in DOMAIN g.next : g.used[x] = FALSE})
    <3>1. m2 \notin {x \in D : h.used[x] = FALSE} \ {m} BY <2>3
    <3>2. Lists(<<m2>> \o out.free, ({x \in D : h.used[x] = FALSE} \ {m}) \union {m2})
      BY <1>4, <2>2, <3>1, Putting
    <3>3. {x \in DOMAIN g.next : g.used[x] = FALSE}
            = ({x \in D : h.used[x] = FALSE} \ {m}) \union {m2}
      <4>1. \A x \in D : x # m => g.used[x] = h.used[x] BY <2>3, <2>8
      <4>2. g.used[m] = TRUE /\ g.used[m2] = FALSE BY <2>3, <2>7, <2>8
      <4>3. DOMAIN g.next = D \union {m2} BY <2>3, <2>6
      <4> QED BY <2>7, <4>1, <4>2, <4>3
    <3> QED BY <2>6, <3>2, <3>3
  <2>11. GoodHeap(g, k) BY <1>1, <2>6, <2>8, <2>9, <2>10 DEF GoodHeap, NoFreePair
  <2>12. Keeps(h, g, m)
    BY <1>5, <2>3, <2>6, <2>8 DEF Keeps, Busy
  <2>13. m \in Busy(g) BY <1>1, <1>2, <2>3, <2>6, <2>8 DEF Busy
  <2>14. MEMITEM_SIZE(g, m) >= n
    <3>1. g.next[m] = m2 BY <2>3, <2>6, <2>7
    <3> QED BY <1>0, <1>2, <3>1 DEF MEMITEM_SIZE, m2
  <2> QED BY <1>5, <2>1, <2>11, <2>12, <2>13, <2>14
<1>7. CASE ~(size >= n + RT_MEMHEAP_SIZE + RT_MEMHEAP_MINIALLOC)
  <2> DEFINE a == Adjust(out, -size)
             g == [a EXCEPT !.used[m] = TRUE]
  <2>1. UseItem(h, m, n) = g BY <1>7 DEF UseItem, out
  <2>2. /\ DOMAIN a = HeapFields /\ a.next = h.next /\ a.prev = h.prev /\ a.used = h.used
        /\ a.tail = h.tail /\ a.free = out.free
    BY <1>3, CountsOnly
  <2> HIDE DEF a
  <2>3. /\ DOMAIN g = HeapFields /\ g.next = h.next /\ g.prev = h.prev
        /\ g.used = [h.used EXCEPT ![m] = TRUE]
        /\ g.tail = h.tail /\ g.free = out.free
    BY <2>2 DEF HeapFields
  <2> HIDE DEF g
  <2>4. /\ Ring(g.next, g.prev, g.used, k)
        /\ g.used[m] = TRUE /\ \A x \in D : x # m => g.used[x] = h.used[x]
    <3>1. IsUsed(h, k, m, SetUsed(h.used, m)) BY <1>1, <1>2, MarkedUsed
    <3>2. g.used = SetUsed(h.used, m) BY <2>3 DEF SetUsed
    <3> QED BY <2>3, <3>1, <3>2 DEF IsUsed
  <2>5. NoFreePair(g, k)
    <3>1. \A x \in D : h.next[x] \in D BY <1>1 DEF Ring
    <3> QED BY <1>1, <2>3, <2>4, <3>1 DEF NoFreePair
  <2>6. {x \in DOMAIN g.next : g.used[x] = FALSE} = {x \in D : h.used[x] = FALSE} \ {m}
    BY <2>3, <2>4
  <2>7. GoodHeap(g, k) BY <1>1, <1>4, <2>3, <2>4, <2>5, <2>6 DEF GoodHeap, NoFreePair
  <2>8. Keeps(h, g, m) /\ m \in Busy(g) BY <1>1, <1>2, <2>3, <2>4 DEF Keeps, Busy
  <2>9. MEMITEM_SIZE(g, m) = MEMITEM_SIZE(h, m) BY <2>3 DEF MEMITEM_SIZE
  <2> QED BY <1>5, <2>1, <2>7, <2>8, <2>9
<1> QED BY <1>6, <1>7

\* A heap whose item m has just become free: m and the one behind it may both be free, and the
\* items of S are not yet in the free list.
Frees(h) == {x \in DOMAIN h.next : h.used[x] = FALSE}
Half(h, k, m, S) ==
  /\ DOMAIN h = HeapFields /\ h.tail = End(k) /\ Ring(h.next, h.prev, h.used, k)
  /\ m \in DOMAIN h.next /\ m # End(k) /\ h.used[m] = FALSE
  /\ \A x \in DOMAIN h.next : x # End(k) => h.used[x] = TRUE \/ h.used[h.next[x]] = TRUE \/ x = m
  /\ S \subseteq {m} /\ Lists(h.free, Frees(h) \ S)

Merged(h, k, m, S, r) ==
  /\ Half(r, k, m, S) /\ NoFreePair(r, k)
  /\ \A x \in Busy(h) : x \in Busy(r) /\ r.next[x] = h.next[x]

LEMMA MergedNext ==
  ASSUME PoolsProper, NEW k \in DOMAIN Pools, NEW h, NEW m, NEW S, Half(h, k, m, S), NEW d
  PROVE  Merged(h, k, m, S, JoinNext(h, m, d))
<1> DEFINE b == h.next[m]
           D == DOMAIN h.next
           c == [h EXCEPT !.available_size = @ + d]
           e == FreeRemove(c, b)
           r == Join(e, m, b)
<1>0. RT_MEMHEAP_SIZE = 24 BY DEF RT_MEMHEAP_SIZE
<1>1. /\ DOMAIN h = HeapFields /\ h.tail = End(k) /\ Ring(h.next, h.prev, h.used, k)
      /\ m \in D /\ m # End(k) /\ h.used[m] = FALSE /\ S \subseteq {m}
      /\ Lists(h.free, Frees(h) \ S)
      /\ \A x \in D : x # End(k) => h.used[x] = TRUE \/ h.used[h.next[x]] = TRUE \/ x = m
  BY DEF Half
<1>2. /\ b \in D /\ b # m /\ h.used[b] \in BOOLEAN /\ h.used[End(k)] = TRUE
      /\ \A x \in D : h.next[x] \in D /\ (h.next[x] = b => x = m)
      /\ \A x \in D : x # End(k) => h.next[x] # x
  <2>1. \A x \in D : /\ x \in Int /\ h.next[x] \in D /\ h.prev[h.next[x]] = x /\ h.used[x] \in BOOLEAN
                     /\ x # End(k) => h.next[x] >= x + RT_MEMHEAP_SIZE
    BY <1>1 DEF Ring
  <2>2. \A x \in D : x # End(k) => h.next[x] # x BY <1>0, <2>1
  <2>3. h.used[End(k)] = TRUE BY <1>1 DEF Ring
  <2> QED BY <1>1, <2>1, <2>2, <2>3
<1>3. CASE h.used[b] = TRUE
  <2>1. JoinNext(h, m, d) = h BY <1>3 DEF JoinNext
  <2>2. NoFreePair(h, k) BY <1>1, <1>3 DEF NoFreePair
  <2> QED BY <2>1, <2>2 DEF Merged
<1>4. CASE h.used[b] = FALSE
  <2>1. JoinNext(h, m, d) = r BY <1>4 DEF JoinNext
  <2>2. /\ DOMAIN c = HeapFields /\ c.next = h.next /\ c.prev = h.prev /\ c.used = h.used
        /\ c.tail = h.tail /\ c.free = h.free
    BY <1>1, SMT DEF HeapFields
  <2> HIDE DEF c
  <2>3. /\ DOMAIN e = HeapFields /\ e.next = h.next /\ e.prev = h.prev /\ e.used = h.used
        /\ e.tail = h.tail /\ e.free = RemoveFirst(h.free, b)
    BY <2>2 DEF FreeRemove, HeapFields
  <2> HIDE DEF e
  <2>4. CanJoin(e, k, m, b) BY <1>1, <1>2, <1>4, <2>3 DEF CanJoin
  <2>5. IsJoin(e, k, m, b, r) BY <2>4, Joined
  <2> HIDE DEF r
  <2>6. /\ DOMAIN r = HeapFields /\ Ring(r.next, r.prev, r.used, k) /\ DOMAIN r.next = D \ {b}
        /\ \A x \in D \ {b} : /\ r.next[x] = IF x = m THEN h.next[b] ELSE h.next[x]
                              /\ r.used[x] = h.used[x]
        /\ r.free = RemoveFirst(h.free, b) /\ r.tail = End(k)
    BY <1>1, <2>3, <2>5 DEF IsJoin
  <2> HIDE DEF b
  <2>7. m \in D \ {b} /\ h.next[b] \in D \ {b} /\ h.used[h.next[b]] = TRUE BY <1>1, <1>2, <1>4
  <2>8. NoFreePair(r, k)
    <3> SUFFICES ASSUME NEW x \in D \ {b}, x # End(k)
                 PROVE  r.used[x] = TRUE \/ r.used[r.next[x]] = TRUE
      BY <2>6 DEF NoFreePair
    <3>1. CASE x = m BY <2>6, <2>7, <3>1
    <3>2. CASE x # m
      <4>1. h.next[x] \in D \ {b} BY <1>2, <3>2
      <4>2. r.next[x] = h.next[x] BY <2>6, <3>2
      <4>3. h.used[x] = TRUE \/ h.used[h.next[x]] = TRUE BY <1>1, <3>2
      <4> QED BY <2>6, <4>1, <4>2, <4>3
    <3> QED BY <3>1, <3>2
  <2>9. Frees(r) \ S = (Frees(h) \ S) \ {b} BY <2>6 DEF Frees
  <2>10. Lists(r.free, Frees(r) \ S) BY <1>1, <2>6, <2>9, Taking
  <2>11. r.used[m] = FALSE BY <1>1, <2>6, <2>7
  <2>12. Half(r, k, m, S) BY <1>1, <2>6, <2>7, <2>8, <2>10, <2>11 DEF Half, NoFreePair
  <2>13. \A x \in Busy(h) : x \in Busy(r) /\ r.next[x] = h.next[x]
    BY <1>1, <1>4, <2>6 DEF Busy
  <2> QED BY <2>1, <2>8, <2>12, <2>13 DEF Merged
<1> QED BY <1>2, <1>3, <1>4

\* The list made whole.
LEMMA MadeWhole ==
  ASSUME NEW k, NEW r, NEW m, NEW S, Half(r, k, m, S), NoFreePair(r, k)
  PROVE  /\ S = {} => GoodHeap(r, k)
         /\ S = {m} => /\ GoodHeap(FreeInsert(r, m), k) /\ Busy(FreeInsert(r, m)) = Busy(r)
                       /\ FreeInsert(r, m).next = r.next
<1>1. /\ DOMAIN r = HeapFields /\ r.tail = End(k) /\ Ring(r.next, r.prev, r.used, k)
      /\ m \in DOMAIN r.next /\ r.used[m] = FALSE /\ Lists(r.free, Frees(r) \ S)
      /\ \A x \in DOMAIN r.next : x # End(k) => r.used[x] = TRUE \/ r.used[r.next[x]] = TRUE
  BY DEF Half, NoFreePair
<1>2. ASSUME S = {} PROVE GoodHeap(r, k)
  <2>1. Frees(r) \ S = {x \in DOMAIN r.next : r.used[x] = FALSE} BY <1>2 DEF Frees
  <2> QED BY <1>1, <2>1 DEF GoodHeap
<1>3. ASSUME S = {m}
      PROVE  /\ GoodHeap(FreeInsert(r, m), k) /\ Busy(FreeInsert(r, m)) = Busy(r)
             /\ FreeInsert(r, m).next = r.next
  <2> DEFINE g == FreeInsert(r, m)
  <2>1. /\ DOMAIN g = HeapFields /\ g.next = r.next /\ g.prev = r.prev /\ g.used = r.used
        /\ g.tail = r.tail /\ g.free = <<m>> \o r.free
    BY <1>1, FreeListOnly
  <2> HIDE DEF g
  <2>2. m \in Int /\ m \notin Frees(r) \ S BY <1>1, <1>3, RingFacts
  <2>3. Lists(<<m>> \o r.free, (Frees(r) \ S) \union {m}) BY <1>1, <2>2, Putting
  <2>4. (Frees(r) \ S) \union {m} = {x \in DOMAIN g.next : g.used[x] = FALSE}
    BY <1>1, <1>3, <2>1 DEF Frees
  <2>5. Lists(g.free, {x \in DOMAIN g.next : g.used[x] = FALSE}) BY <2>1, <2>3, <2>4
  <2>6. GoodHeap(g, k) BY <1>1, <2>1, <2>5 DEF GoodHeap
  <2>7. Busy(g) = Busy(r) BY <2>1 DEF Busy
  <2> QED BY <2>1, <2>6, <2>7 DEF g
<1> QED BY <1>2, <1>3

LEMMA SameItems ==
  ASSUME NEW h, NEW k, GoodHeap(h, k), NEW d
  PROVE  LET g == [h EXCEPT !.available_size = d] IN
         GoodHeap(g, k) /\ Busy(g) = Busy(h) /\ g.next = h.next
<1> DEFINE g == [h EXCEPT !.available_size = d]
<1>1. DOMAIN h = HeapFields BY DEF GoodHeap
<1>2. /\ DOMAIN g = HeapFields /\ g.next = h.next /\ g.prev = h.prev /\ g.used = h.used
      /\ g.tail = h.tail /\ g.free = h.free
  BY <1>1, SMT DEF HeapFields
<1> HIDE DEF g
<1>3. GoodHeap(g, k) /\ Busy(g) = Busy(h) BY <1>2 DEF GoodHeap, Busy
<1> QED BY <1>2, <1>3 DEF g

\* rt_memheap_free gives an item back; it joins the free ones beside it.
LEMMA FreeItemOK ==
  ASSUME PoolsProper, NEW k \in DOMAIN Pools, NEW h, GoodHeap(h, k), NEW m \in Busy(h)
  PROVE  GoodHeap(FreeItem(h, m), k) /\ Keeps(h, FreeItem(h, m), m)
<1> DEFINE D == DOMAIN h.next
           p == h.prev[m]
           given == GiveBack(h, m)
           join == Join(given, p, m)
           more == [join EXCEPT !.available_size = @ + RT_MEMHEAP_SIZE]
<1>0. RT_MEMHEAP_SIZE = 24 BY DEF RT_MEMHEAP_SIZE
<1>1. /\ DOMAIN h = HeapFields /\ h.tail = End(k) /\ Ring(h.next, h.prev, h.used, k)
      /\ NoFreePair(h, k) /\ Lists(h.free, Frees(h))
      /\ m \in D /\ m # End(k) /\ h.used[m] = TRUE
  BY DEF GoodHeap, NoFreePair, Frees, Busy
<1>2. /\ p \in D /\ h.next[p] = m /\ h.used[p] \in BOOLEAN /\ h.used[End(k)] = TRUE
      /\ \A x \in D : h.next[x] \in D /\ (h.next[x] = m => x = p)
      /\ \A x \in D : x # End(k) => h.next[x] # x
  <2>1. \A x \in D : /\ x \in Int /\ h.next[x] \in D /\ h.prev[h.next[x]] = x /\ h.used[x] \in BOOLEAN
                     /\ h.prev[x] \in D /\ h.next[h.prev[x]] = x
                     /\ x # End(k) => h.next[x] >= x + RT_MEMHEAP_SIZE
    BY <1>1 DEF Ring
  <2>2. \A x \in D : x # End(k) => h.next[x] # x BY <1>0, <2>1
  <2>3. h.used[End(k)] = TRUE BY <1>1 DEF Ring
  <2> QED BY <1>1, <2>1, <2>2, <2>3
<1>3. /\ DOMAIN given = HeapFields /\ given.next = h.next /\ given.prev = h.prev
      /\ given.used = SetFree(h.used, m) /\ given.tail = h.tail /\ given.free = h.free
  BY <1>1 DEF GiveBack, HeapFields, SetFree
<1>4. /\ Ring(given.next, given.prev, given.used, k)
      /\ given.used[m] = FALSE /\ \A x \in D : x # m => given.used[x] = h.used[x]
  <2>1. IsFree(h, k, m, SetFree(h.used, m)) BY <1>1, MarkedFree
  <2> QED BY <1>3, <2>1 DEF IsFree
<1> HIDE DEF given
<1>5. CASE h.used[p] = TRUE
  <2>1. FreeItem(h, m) = FreeInsert(JoinNext(given, m, RT_MEMHEAP_SIZE), m)
    BY <1>5 DEF FreeItem, given
  <2>2. \A x \in D : x # End(k) => given.used[x] = TRUE \/ given.used[given.next[x]] = TRUE \/ x = m
    BY <1>1, <1>2, <1>3, <1>4, <1>5 DEF NoFreePair
  <2>3. Frees(given) \ {m} = Frees(h) BY <1>1, <1>3, <1>4 DEF Frees
  <2>4. Half(given, k, m, {m}) BY <1>1, <1>3, <1>4, <2>2, <2>3 DEF Half
  <2> DEFINE r == JoinNext(given, m, RT_MEMHEAP_SIZE)
  <2>5. Merged(given, k, m, {m}, r) BY <2>4, MergedNext
  <2> HIDE DEF r
  <2>6. /\ Half(r, k, m, {m}) /\ NoFreePair(r, k)
        /\ \A x \in Busy(given) : x \in Busy(r) /\ r.next[x] = given.next[x]
    BY <2>5 DEF Merged
  <2>7. GoodHeap(FreeInsert(r, m), k) /\ Busy(FreeInsert(r, m)) = Busy(r) /\ FreeInsert(r, m).next = r.next
    BY <2>6, MadeWhole
  <2>8. \A x \in Busy(h) \ {m} : x \in Busy(given) BY <1>3, <1>4 DEF Busy
  <2>9. Keeps(h, FreeInsert(r, m), m) BY <1>3, <2>6, <2>7, <2>8 DEF Keeps
  <2>10. FreeItem(h, m) = FreeInsert(r, m) BY <2>1 DEF r
  <2> QED BY <2>7, <2>9, <2>10
<1>6. CASE h.used[p] = FALSE
  <2>1. FreeItem(h, m) = JoinNext(more, p, RT_MEMHEAP_SIZE)
    BY <1>6 DEF FreeItem, given, more, join
  <2>2. p # End(k) BY <1>2, <1>6
  <2>3. CanJoin(given, k, p, m) BY <1>1, <1>2, <1>3, <1>4, <2>2 DEF CanJoin
  <2>4. IsJoin(given, k, p, m, join) BY <2>3, Joined
  <2> HIDE DEF join
  <2>5. /\ DOMAIN join = HeapFields /\ Ring(join.next, join.prev, join.used, k) /\ p # m
        /\ DOMAIN join.next = D \ {m}
        /\ \A x \in D \ {m} : /\ join.next[x] = IF x = p THEN h.next[m] ELSE h.next[x]
                              /\ join.used[x] = h.used[x]
        /\ join.free = h.free /\ join.tail = End(k)
    BY <1>1, <1>3, <1>4, <2>4 DEF IsJoin
  <2>6. /\ DOMAIN more = HeapFields /\ more.next = join.next /\ more.prev = join.prev
        /\ more.used = join.used /\ more.tail = join.tail /\ more.free = join.free
    BY <2>5, SMT DEF HeapFields
  <2> HIDE DEF more, p
  <2>7. ASSUME NEW x \in D \ {m}, x # End(k), x # p
        PROVE  more.used[x] = TRUE \/ more.used[more.next[x]] = TRUE
    <3>1. h.next[x] \in D \ {m} BY <1>2, <2>7
    <3>2. more.next[x] = h.next[x] BY <2>5, <2>6, <2>7
    <3>3. h.used[x] = TRUE \/ h.used[h.next[x]] = TRUE BY <1>1, <2>7 DEF NoFreePair
    <3> QED BY <2>5, <2>6, <2>7, <3>1, <3>2, <3>3
  <2>8. Frees(more) \ {} = Frees(h) BY <1>1, <2>5, <2>6 DEF Frees
  <2>9. p \in DOMAIN more.next /\ more.used[p] = FALSE BY <1>2, <1>6, <2>5, <2>6
  <2>10. Half(more, k, p, {})
    <3>1. Lists(more.free, Frees(more) \ {}) BY <1>1, <2>5, <2>6, <2>8
    <3>2. \A x \in DOMAIN more.next :
            x # End(k) => more.used[x] = TRUE \/ more.used[more.next[x]] = TRUE \/ x = p
      BY <2>5, <2>6, <2>7
    <3>3. Ring(more.next, more.prev, more.used, k) BY <2>5, <2>6
    <3> QED BY <2>2, <2>5, <2>6, <2>9, <3>1, <3>2, <3>3 DEF Half
  <2> DEFINE r == JoinNext(more, p, RT_MEMHEAP_SIZE)
  <2>11. Merged(more, k, p, {}, r) BY <2>10, MergedNext
  <2> HIDE DEF r
  <2>12. /\ Half(r, k, p, {}) /\ NoFreePair(r, k)
         /\ \A x \in Busy(more) : x \in Busy(r) /\ r.next[x] = more.next[x]
    BY <2>11 DEF Merged
  <2>13. GoodHeap(r, k) BY <2>12, MadeWhole
  <2>14. \A x \in Busy(h) \ {m} : x \in Busy(more) /\ more.next[x] = h.next[x]
    BY <1>1, <1>6, <2>5, <2>6 DEF Busy
  <2>15. Keeps(h, r, m) BY <2>12, <2>14 DEF Keeps
  <2>16. FreeItem(h, m) = r BY <2>1 DEF r
  <2> QED BY <2>13, <2>15, <2>16
<1> QED BY <1>2, <1>5, <1>6

\* rt_memheap_realloc cuts the end off an item; it joins the free one behind.
LEMMA ShrinkItemOK ==
  ASSUME PoolsProper, NEW k \in DOMAIN Pools, NEW h, GoodHeap(h, k), NEW m \in Busy(h),
         NEW n \in Int, n >= 0, n % RT_ALIGN_SIZE = 0, n + RT_MEMHEAP_SIZE <= MEMITEM_SIZE(h, m)
  PROVE  LET g == ShrinkItem(h, m, n) IN
         GoodHeap(g, k) /\ Keeps(h, g, m) /\ m \in Busy(g) /\ MEMITEM_SIZE(g, m) = n
<1> DEFINE D == DOMAIN h.next
           m2 == m + RT_MEMHEAP_SIZE + n
           cut == Insert(h, m, m2)
           b == cut.next[m2]
           one == JoinNext(cut, m2, -MEMITEM_SIZE(h, b))
           all == FreeInsert(one, m2)
           g == [all EXCEPT !.available_size = @ + MEMITEM_SIZE(one, m2)]
<1>0. RT_MEMHEAP_SIZE = 24 /\ 24 \in Int /\ 24 % RT_ALIGN_SIZE = 0 BY DEF RT_MEMHEAP_SIZE, RT_ALIGN_SIZE
<1>1. /\ DOMAIN h = HeapFields /\ h.tail = End(k) /\ Ring(h.next, h.prev, h.used, k)
      /\ NoFreePair(h, k) /\ Lists(h.free, Frees(h))
      /\ m \in D /\ m # End(k) /\ h.used[m] = TRUE
  BY DEF GoodHeap, NoFreePair, Frees, Busy
<1>2. \A x \in D : x \in Int /\ x % RT_ALIGN_SIZE = 0 /\ h.next[x] \in D BY <1>1 DEF Ring
<1>3. ShrinkItem(h, m, n) = g BY DEF ShrinkItem
<1>4. m2 \in Int /\ m2 # m /\ m2 - m - RT_MEMHEAP_SIZE = n BY <1>0, <1>1, <1>2
<1>5. CanInsert(h, k, m, m2)
  <2>1. m2 + RT_MEMHEAP_SIZE <= h.next[m] /\ m2 >= m + RT_MEMHEAP_SIZE
    BY <1>0, <1>1, <1>2 DEF MEMITEM_SIZE
  <2>2. (24 + n) % RT_ALIGN_SIZE = 0 /\ 24 + n \in Int BY <1>0, Aligned
  <2>3. (m + (24 + n)) % RT_ALIGN_SIZE = 0 BY <1>1, <1>2, <2>2, Aligned
  <2>4. m2 = m + (24 + n) BY <1>0, <1>1, <1>2
  <2> QED BY <1>1, <1>4, <2>1, <2>3, <2>4 DEF CanInsert
<1> HIDE DEF m2
<1>6. IsInsert(h, k, m, m2, cut) BY <1>5, Inserted
<1> HIDE DEF cut
<1>7. /\ DOMAIN cut = HeapFields /\ Ring(cut.next, cut.prev, cut.used, k)
      /\ m2 \notin D /\ DOMAIN cut.next = D \union {m2}
      /\ \A x \in D \union {m2} :
           cut.next[x] = IF x = m2 THEN h.next[m] ELSE IF x = m THEN m2 ELSE h.next[x]
      /\ cut.used[m2] = FALSE /\ \A x \in D : cut.used[x] = h.used[x]
      /\ cut.free = h.free /\ cut.tail = End(k)
  BY <1>1, <1>6 DEF IsInsert
<1>8. ASSUME NEW x \in D, x # End(k) PROVE cut.used[x] = TRUE \/ cut.used[cut.next[x]] = TRUE
  <2>1. CASE x = m BY <1>1, <1>7, <2>1
  <2>2. CASE x # m
    <3>1. cut.next[x] = h.next[x] /\ h.next[x] \in D BY <1>2, <1>7, <2>2
    <3>2. h.used[x] = TRUE \/ h.used[h.next[x]] = TRUE BY <1>1, <1>8 DEF NoFreePair
    <3> QED BY <1>7, <3>1, <3>2
  <2> QED BY <2>1, <2>2
<1>9. Frees(cut) \ {m2} = Frees(h) BY <1>7 DEF Frees
<1>10. m2 # End(k) BY <1>1, <1>7 DEF Ring
<1>11. Half(cut, k, m2, {m2}) BY <1>1, <1>7, <1>8, <1>9, <1>10 DEF Half
<1>12. Merged(cut, k, m2, {m2}, one) BY <1>11, MergedNext
<1> HIDE DEF one
<1>13. /\ Half(one, k, m2, {m2}) /\ NoFreePair(one, k)
       /\ \A x \in Busy(cut) : x \in Busy(one) /\ one.next[x] = cut.next[x]
  BY <1>12 DEF Merged
<1>14. GoodHeap(all, k) /\ Busy(all) = Busy(one) /\ all.next = one.next BY <1>13, MadeWhole
<1> HIDE DEF all
<1>15. GoodHeap(g, k) /\ Busy(g) = Busy(all) /\ g.next = all.next BY <1>14, SameItems
<1> HIDE DEF g
<1>16. m \in Busy(cut) /\ cut.next[m] = m2 BY <1>1, <1>4, <1>7 DEF Busy
<1>17. \A x \in Busy(h) \ {m} : x \in Busy(cut) /\ cut.next[x] = h.next[x] BY <1>1, <1>7 DEF Busy
<1>18. Keeps(h, g, m) BY <1>13, <1>14, <1>15, <1>17 DEF Keeps
<1>19. m \in Busy(g) /\ g.next[m] = m2 BY <1>13, <1>14, <1>15, <1>16
<1>20. MEMITEM_SIZE(g, m) = n BY <1>4, <1>19 DEF MEMITEM_SIZE
<1> QED BY <1>3, <1>15, <1>18, <1>19, <1>20

\* rt_memheap_realloc takes bytes of the free item behind.
CanGrow(h, k, m, n) ==
  /\ k \in DOMAIN Pools /\ GoodHeap(h, k) /\ m \in Busy(h)
  /\ n \in Int /\ n >= 0 /\ n % RT_ALIGN_SIZE = 0 /\ h.used[h.next[m]] = FALSE
  /\ MEMITEM_SIZE(h, h.next[m]) + MEMITEM_SIZE(h, m) > n + RT_MEMHEAP_MINIALLOC
LEMMA GrowItemOK ==
  ASSUME PoolsProper, NEW h, NEW k, NEW m, NEW n, CanGrow(h, k, m, n)
  PROVE  LET g == GrowItem(h, m, n) IN
         GoodHeap(g, k) /\ Keeps(h, g, m) /\ m \in Busy(g) /\ MEMITEM_SIZE(g, m) = n
<1> USE DEF CanGrow
<1> DEFINE D == DOMAIN h.next
           b == h.next[m]
           m2 == m + RT_MEMHEAP_SIZE + n
           less == Adjust(h, -(n - MEMITEM_SIZE(h, m)))
           out == FreeRemove(less, b)
           join == Join(out, m, b)
           cut == Insert(join, m, m2)
           g == FreeInsert(cut, m2)
<1>0. /\ RT_MEMHEAP_SIZE = 24 /\ 24 \in Int /\ 24 % RT_ALIGN_SIZE = 0 /\ RT_MEMHEAP_MINIALLOC = 12
  BY DEF RT_MEMHEAP_SIZE, RT_ALIGN_SIZE, RT_MEMHEAP_MINIALLOC
<1>1. /\ DOMAIN h = HeapFields /\ h.tail = End(k) /\ Ring(h.next, h.prev, h.used, k)
      /\ NoFreePair(h, k) /\ Lists(h.free, Frees(h))
      /\ m \in D /\ m # End(k) /\ h.used[m] = TRUE
  BY DEF GoodHeap, NoFreePair, Frees, Busy
<1>2. /\ \A x \in D : /\ x \in Int /\ x % RT_ALIGN_SIZE = 0 /\ h.next[x] \in D
                      /\ (h.next[x] = b => x = m)
                      /\ x # End(k) => h.next[x] # x
      /\ h.used[End(k)] = TRUE
  <2>1. \A x \in D : /\ x \in Int /\ x % RT_ALIGN_SIZE = 0 /\ h.next[x] \in D /\ h.prev[h.next[x]] = x
                     /\ x # End(k) => h.next[x] >= x + RT_MEMHEAP_SIZE
    BY <1>1 DEF Ring
  <2>2. \A x \in D : x # End(k) => h.next[x] # x BY <1>0, <2>1
  <2>3. h.used[End(k)] = TRUE BY <1>1 DEF Ring
  <2> QED BY <1>1, <2>1, <2>2, <2>3
<1>3. GrowItem(h, m, n) = g BY DEF GrowItem
<1>4. m2 \in Int /\ m2 # m /\ m2 - m - RT_MEMHEAP_SIZE = n BY <1>0, <1>1, <1>2
<1>5. /\ m2 + RT_MEMHEAP_SIZE <= h.next[b] /\ m2 >= m + RT_MEMHEAP_SIZE /\ m2 % RT_ALIGN_SIZE = 0
  <2>1. h.next[b] \in Int /\ b \in Int /\ m \in Int BY <1>1, <1>2
  <2>2. MEMITEM_SIZE(h, b) = h.next[b] - b - 24 /\ MEMITEM_SIZE(h, m) = b - m - 24
    BY <1>0 DEF MEMITEM_SIZE
  <2>3. m2 + 24 <= h.next[b] /\ m2 >= m + 24 BY <1>0, <2>1, <2>2
  <2>4. (24 + n) % RT_ALIGN_SIZE = 0 /\ 24 + n \in Int BY <1>0, Aligned
  <2>5. (m + (24 + n)) % RT_ALIGN_SIZE = 0 BY <1>1, <1>2, <2>4, Aligned
  <2>6. m2 = m + (24 + n) BY <1>0, <2>1
  <2> QED BY <1>0, <2>3, <2>5, <2>6
<1>6. b \in D /\ h.used[b] = FALSE /\ b # End(k) /\ b # m BY <1>1, <1>2
<1>7. h.next[b] \in D \ {b} /\ h.used[h.next[b]] = TRUE BY <1>1, <1>2, <1>6 DEF NoFreePair
<1> HIDE DEF m2, b
<1>8. /\ DOMAIN less = HeapFields /\ less.next = h.next /\ less.prev = h.prev /\ less.used = h.used
      /\ less.tail = h.tail /\ less.free = h.free
  BY <1>1, CountsOnly
<1> HIDE DEF less
<1>9. /\ DOMAIN out = HeapFields /\ out.next = h.next /\ out.prev = h.prev /\ out.used = h.used
      /\ out.tail = h.tail /\ out.free = RemoveFirst(h.free, b)
  BY <1>8 DEF FreeRemove, HeapFields
<1> HIDE DEF out
<1>10. CanJoin(out, k, m, b) BY <1>1, <1>6, <1>9 DEF CanJoin, b
<1>11. IsJoin(out, k, m, b, join) BY <1>10, Joined
<1> HIDE DEF join
<1>12. /\ DOMAIN join = HeapFields /\ Ring(join.next, join.prev, join.used, k)
       /\ DOMAIN join.next = D \ {b}
       /\ \A x \in D \ {b} : /\ join.next[x] = IF x = m THEN h.next[b] ELSE h.next[x]
                             /\ join.used[x] = h.used[x]
       /\ join.free = RemoveFirst(h.free, b) /\ join.tail = End(k)
  BY <1>1, <1>9, <1>11 DEF IsJoin
<1>13. m \in D \ {b} /\ join.next[m] = h.next[b] BY <1>1, <1>6, <1>12
<1>14. CanInsert(join, k, m, m2) BY <1>1, <1>4, <1>5, <1>12, <1>13 DEF CanInsert
<1>15. IsInsert(join, k, m, m2, cut) BY <1>14, Inserted
<1> HIDE DEF cut
<1>16. /\ DOMAIN cut = HeapFields /\ Ring(cut.next, cut.prev, cut.used, k)
       /\ m2 \notin D \ {b} /\ DOMAIN cut.next = (D \ {b}) \union {m2}
       /\ \A x \in (D \ {b}) \union {m2} :
            cut.next[x] = IF x = m2 THEN h.next[b] ELSE IF x = m THEN m2 ELSE h.next[x]
       /\ cut.used[m2] = FALSE /\ \A x \in D \ {b} : cut.used[x] = h.used[x]
       /\ cut.free = RemoveFirst(h.free, b) /\ cut.tail = End(k)
  BY <1>12, <1>13, <1>15 DEF IsInsert
<1>17. NoFreePair(cut, k)
  <2> SUFFICES ASSUME NEW x \in (D \ {b}) \union {m2}, x # End(k)
               PROVE  cut.used[x] = TRUE \/ cut.used[cut.next[x]] = TRUE
    BY <1>16 DEF NoFreePair
  <2>1. CASE x = m2 BY <1>7, <1>16, <2>1
  <2>2. CASE x = m BY <1>1, <1>13, <1>16, <2>2
  <2>3. CASE x \in D \ {b} /\ x # m
    <3>1. h.next[x] \in D \ {b} BY <1>2, <2>3
    <3>2. cut.next[x] = h.next[x] BY <1>16, <2>3
    <3>3. h.used[x] = TRUE \/ h.used[h.next[x]] = TRUE BY <1>1, <2>3 DEF NoFreePair
    <3> QED BY <1>16, <2>3, <3>1, <3>2, <3>3
  <2> QED BY <2>1, <2>2, <2>3
<1>18. Frees(cut) \ {m2} = Frees(h) \ {b} BY <1>16 DEF Frees
<1>19. Lists(cut.free, Frees(cut) \ {m2}) BY <1>1, <1>16, <1>18, Taking
<1>20. m2 # End(k) BY <1>1, <1>2, <1>6, <1>16 DEF Ring
<1>21. Half(cut, k, m2, {m2}) BY <1>16, <1>17, <1>19, <1>20 DEF Half, NoFreePair
<1>22. GoodHeap(g, k) /\ Busy(g) = Busy(cut) /\ g.next = cut.next BY <1>17, <1>21, MadeWhole
<1> HIDE DEF g
<1>23. m \in Busy(cut) /\ cut.next[m] = m2 BY <1>1, <1>4, <1>13, <1>16 DEF Busy
<1>24. \A x \in Busy(h) \ {m} : x \in Busy(cut) /\ cut.next[x] = h.next[x]
  BY <1>1, <1>6, <1>16 DEF Busy
<1>25. Keeps(h, g, m) BY <1>22, <1>24 DEF Keeps
<1>26. MEMITEM_SIZE(g, m) = n BY <1>4, <1>22, <1>23 DEF MEMITEM_SIZE
<1> QED BY <1>3, <1>22, <1>23, <1>25, <1>26

-----------------------------------------------------------------------------
(***************************************************************************)
(* All heaps together: which heap an address is in, and how far apart the  *)
(* items are.                                                              *)
(***************************************************************************)
LEMMA PoolBounds ==
  ASSUME PoolsProper, NEW k \in DOMAIN Pools
  PROVE  /\ First(k) \in Int /\ End(k) \in Int /\ First(k) >= 0
         /\ First(k) % RT_ALIGN_SIZE = 0 /\ End(k) % RT_ALIGN_SIZE = 0
         /\ First(k) + RT_MEMHEAP_SIZE <= End(k)
         /\ End(k) + RT_MEMHEAP_SIZE <= Pools[k][1] + Pools[k][2]
<1>1. /\ Pools[k][1] \in Nat /\ Pools[k][1] % RT_ALIGN_SIZE = 0
      /\ Pools[k][2] \in Nat /\ Pools[k][2] >= 48
  BY DEF PoolsProper
<1>2. PICK f \in Int : f = Pools[k][1] BY <1>1
<1>3. PICK s \in Int : s = Pools[k][2] BY <1>1
<1>4. PICK d : d = RT_ALIGN_DOWN(s, RT_ALIGN_SIZE) OBVIOUS
<1>5. d \in Int /\ d <= s /\ d + 3 >= s /\ d % RT_ALIGN_SIZE = 0 BY <1>4, Aligned
<1>6. First(k) = f /\ End(k) = f + d - 24 BY <1>2, <1>3, <1>4 DEF First, End, RT_MEMHEAP_SIZE
<1>7. d >= 48
  <2>1. d % 4 = 0 /\ d \in Int /\ d >= 45 BY <1>1, <1>3, <1>5 DEF RT_ALIGN_SIZE
  <2> QED BY <2>1
<1>8. (f + d - 24) % RT_ALIGN_SIZE = 0 BY <1>1, <1>2, <1>5 DEF RT_ALIGN_SIZE
<1> QED BY <1>1, <1>2, <1>3, <1>5, <1>6, <1>7, <1>8 DEF RT_MEMHEAP_SIZE

LEMMA PoolsApart ==
  ASSUME PoolsProper, NEW j \in DOMAIN Pools, NEW k \in DOMAIN Pools, j # k
  PROVE  End(j) + RT_MEMHEAP_SIZE <= First(k) \/ End(k) + RT_MEMHEAP_SIZE <= First(j)
<1>1. /\ Pools[j][1] + Pools[j][2] <= Pools[k][1] \/ Pools[k][1] + Pools[k][2] <= Pools[j][1]
      /\ Pools[j][1] \in Int /\ Pools[j][2] \in Int /\ Pools[k][1] \in Int /\ Pools[k][2] \in Int
  BY DEF PoolsProper
<1>2. /\ End(j) \in Int /\ End(j) + RT_MEMHEAP_SIZE <= Pools[j][1] + Pools[j][2]
      /\ End(k) \in Int /\ End(k) + RT_MEMHEAP_SIZE <= Pools[k][1] + Pools[k][2]
  BY PoolBounds
<1>3. First(j) = Pools[j][1] /\ First(k) = Pools[k][1] BY DEF First
<1> QED BY <1>1, <1>2, <1>3 DEF RT_MEMHEAP_SIZE

LEMMA PoolFound ==
  ASSUME PoolsProper, NEW k \in DOMAIN Pools, NEW a \in Int, First(k) <= a, a <= End(k)
  PROVE  PoolOf(a) = k
<1> DEFINE In(j) == Pools[j][1] <= a /\ a < Pools[j][1] + Pools[j][2]
<1>1. In(k)
  <2>1. End(k) \in Int /\ End(k) + RT_MEMHEAP_SIZE <= Pools[k][1] + Pools[k][2] BY PoolBounds
  <2>2. Pools[k][1] \in Int /\ Pools[k][2] \in Int /\ First(k) = Pools[k][1] BY DEF PoolsProper, First
  <2> QED BY <2>1, <2>2 DEF RT_MEMHEAP_SIZE
<1>2. ASSUME NEW j \in DOMAIN Pools, In(j) PROVE j = k
  <2>1. j # k => \/ Pools[j][1] + Pools[j][2] <= Pools[k][1]
                 \/ Pools[k][1] + Pools[k][2] <= Pools[j][1]
    BY DEF PoolsProper
  <2>2. Pools[j][1] \in Int /\ Pools[j][2] \in Int /\ Pools[k][1] \in Int /\ Pools[k][2] \in Int
    BY DEF PoolsProper
  <2> QED BY <1>1, <1>2, <2>1, <2>2
<1>3. PoolOf(a) = CHOOSE j \in DOMAIN Pools : In(j) BY DEF PoolOf
<1> HIDE DEF In
<1> QED BY <1>1, <1>2, <1>3

\* Where an item that a client has lies.
LEMMA BusyFacts ==
  ASSUME PoolsProper, NEW hp, HeapsGood(hp), NEW k \in DOMAIN Pools, NEW m \in Busy(hp[k])
  PROVE  /\ m \in Int /\ m % RT_ALIGN_SIZE = 0 /\ m >= 0
         /\ First(k) <= m /\ hp[k].next[m] \in Int /\ hp[k].next[m] <= End(k)
         /\ hp[k].next[m] >= m + RT_MEMHEAP_SIZE
         /\ PoolOf(m) = k /\ PoolOf(m + RT_MEMHEAP_SIZE) = k
         /\ (m + RT_MEMHEAP_SIZE) % RT_ALIGN_SIZE = 0
<1>1. Ring(hp[k].next, hp[k].prev, hp[k].used, k) /\ hp[k].tail = End(k)
  BY DEF HeapsGood, GoodHeap
<1>2. m \in DOMAIN hp[k].next /\ m # End(k) BY <1>1 DEF Busy
<1>3. /\ m \in Int /\ m % RT_ALIGN_SIZE = 0 /\ First(k) <= m
      /\ hp[k].next[m] \in DOMAIN hp[k].next /\ hp[k].next[m] >= m + RT_MEMHEAP_SIZE
  BY <1>1, <1>2 DEF Ring
<1>4. hp[k].next[m] \in Int /\ hp[k].next[m] <= End(k) BY <1>1, <1>3 DEF Ring
<1>5. First(k) \in Int /\ End(k) \in Int /\ First(k) >= 0 BY PoolBounds
<1>6. RT_MEMHEAP_SIZE = 24 /\ 24 % RT_ALIGN_SIZE = 0 BY DEF RT_MEMHEAP_SIZE, RT_ALIGN_SIZE
<1>7. m <= End(k) /\ m + 24 \in Int /\ First(k) <= m + 24 /\ m + 24 <= End(k) /\ m >= 0
  BY <1>3, <1>4, <1>5, <1>6
<1>8. PoolOf(m) = k BY <1>3, <1>7, PoolFound
<1>9. PoolOf(m + 24) = k BY <1>7, PoolFound
<1>10. (m + 24) % RT_ALIGN_SIZE = 0 BY <1>3, <1>6, Aligned
<1> QED BY <1>3, <1>4, <1>6, <1>7, <1>8, <1>9, <1>10

\* Every header is outside the bytes of every item that a client has.
LEMMA Spread ==
  ASSUME PoolsProper, NEW hp, HeapsGood(hp), NEW j \in DOMAIN Pools, NEW m \in Busy(hp[j]),
         NEW k \in DOMAIN Pools, NEW b \in DOMAIN hp[k].next
  PROVE  b \in Int /\ (b <= m \/ b >= hp[j].next[m])
<1>1. /\ m \in Int /\ First(j) <= m /\ hp[j].next[m] \in Int /\ hp[j].next[m] <= End(j)
  BY BusyFacts
<1>2. Ring(hp[k].next, hp[k].prev, hp[k].used, k) /\ hp[j].tail = End(j)
  BY DEF HeapsGood, GoodHeap
<1>3. b \in Int /\ First(k) <= b /\ b <= End(k) BY <1>2 DEF Ring
<1>4. CASE j = k
  <2>1. m \in DOMAIN hp[k].next /\ m # End(k) BY <1>2, <1>4 DEF Busy
  <2> QED BY <1>2, <1>3, <1>4, <2>1 DEF Ring
<1>5. CASE j # k
  <2>1. End(j) + RT_MEMHEAP_SIZE <= First(k) \/ End(k) + RT_MEMHEAP_SIZE <= First(j)
    BY <1>5, PoolsApart
  <2>2. End(j) \in Int /\ First(k) \in Int /\ End(k) \in Int /\ First(j) \in Int BY PoolBounds
  <2> QED BY <1>1, <1>3, <2>1, <2>2 DEF RT_MEMHEAP_SIZE
<1> QED BY <1>4, <1>5

\* An item is in one heap only.
LEMMA OneHeap ==
  ASSUME PoolsProper, NEW hp, HeapsGood(hp), NEW j \in DOMAIN Pools, NEW k \in DOMAIN Pools,
         NEW m \in Busy(hp[j]), m \in DOMAIN hp[k].next
  PROVE  j = k
<1>1. PoolOf(m) = j /\ m \in Int BY BusyFacts
<1>2. Ring(hp[k].next, hp[k].prev, hp[k].used, k) BY DEF HeapsGood, GoodHeap
<1>3. First(k) <= m /\ m <= End(k) BY <1>2 DEF Ring
<1>4. PoolOf(m) = k BY <1>1, <1>3, PoolFound
<1> QED BY <1>1, <1>4

-----------------------------------------------------------------------------
(***************************************************************************)
(* Who holds what.                                                         *)
(***************************************************************************)
\* A step that changes what two holders have, a and b, and whose change of the heaps keeps the
\* items of the others: they have what they held, or an item nobody had.
CanMove(hp, place, room, hp2, place2, room2, a, b) ==
  /\ Held(hp, place, room) /\ Apart(place) /\ a \in Holder /\ b \in Holder
  /\ \A x \in Holder : x # a /\ x # b => place2[x] = place[x] /\ room2[x] = room[x]
  /\ \A x \in Holder, k \in DOMAIN Pools :
       x # a /\ x # b /\ place[x] # Null /\ place[x] - RT_MEMHEAP_SIZE \in Busy(hp[k]) =>
         /\ place[x] - RT_MEMHEAP_SIZE \in Busy(hp2[k])
         /\ hp2[k].next[place[x] - RT_MEMHEAP_SIZE] = hp[k].next[place[x] - RT_MEMHEAP_SIZE]
  /\ place2[a] = place2[b] /\ a # b => place2[a] = Null
  /\ \A y \in {a, b} : place2[y] # Null =>
       /\ \E k \in DOMAIN Pools : /\ place2[y] - RT_MEMHEAP_SIZE \in Busy(hp2[k])
                                 /\ room2[y] <= MEMITEM_SIZE(hp2[k], place2[y] - RT_MEMHEAP_SIZE)
       /\ place2[y] = place[a] \/ place2[y] = place[b] \/ \A x \in Holder : place[x] # place2[y]

LEMMA Moves ==
  ASSUME NEW hp, NEW place, NEW room, NEW hp2, NEW place2, NEW room2, NEW a, NEW b,
         CanMove(hp, place, room, hp2, place2, room2, a, b)
  PROVE  Held(hp2, place2, room2) /\ Apart(place2)
<1> USE DEF CanMove
<1>1. Held(hp2, place2, room2)
  <2> SUFFICES ASSUME NEW x \in Holder, place2[x] # Null
               PROVE  \E k \in DOMAIN Pools :
                        /\ place2[x] - RT_MEMHEAP_SIZE \in Busy(hp2[k])
                        /\ room2[x] <= MEMITEM_SIZE(hp2[k], place2[x] - RT_MEMHEAP_SIZE)
    BY DEF Held
  <2>1. CASE x = a \/ x = b BY <2>1
  <2>2. CASE x # a /\ x # b
    <3>1. place2[x] = place[x] /\ room2[x] = room[x] /\ place[x] # Null BY <2>2
    <3>2. PICK k \in DOMAIN Pools : /\ place[x] - RT_MEMHEAP_SIZE \in Busy(hp[k])
                                    /\ room[x] <= MEMITEM_SIZE(hp[k], place[x] - RT_MEMHEAP_SIZE)
      BY <3>1 DEF Held
    <3>3. /\ place[x] - RT_MEMHEAP_SIZE \in Busy(hp2[k])
          /\ hp2[k].next[place[x] - RT_MEMHEAP_SIZE] = hp[k].next[place[x] - RT_MEMHEAP_SIZE]
      BY <2>2, <3>1, <3>2
    <3>4. MEMITEM_SIZE(hp2[k], place[x] - RT_MEMHEAP_SIZE) = MEMITEM_SIZE(hp[k], place[x] - RT_MEMHEAP_SIZE)
      BY <3>3 DEF MEMITEM_SIZE
    <3> QED BY <3>1, <3>2, <3>3, <3>4
  <2> QED BY <2>1, <2>2
<1>2. Apart(place2)
  <2> SUFFICES ASSUME NEW x \in Holder, NEW y \in Holder, place2[x] = place2[y], x # y, place2[x] # Null
               PROVE  FALSE
    BY DEF Apart
  <2>1. CASE x \in {a, b} /\ y \in {a, b} BY <2>1
  <2>2. CASE x \notin {a, b} /\ y \notin {a, b} BY <2>2 DEF Apart
  <2>3. CASE x \in {a, b} /\ y \notin {a, b} BY <2>3 DEF Apart
  <2>4. CASE x \notin {a, b} /\ y \in {a, b} BY <2>4 DEF Apart
  <2> QED BY <2>1, <2>2, <2>3, <2>4
<1> QED BY <1>1, <1>2

\* The regions lie apart from each other and from the headers.
LEMMA RegionsApart ==
  ASSUME PoolsProper, NEW hp, HeapsGood(hp), NEW place, NEW room, Held(hp, place, room), Apart(place),
         NEW x \in Holder, place[x] \in Int, place[x] # Null, room[x] \in Int
  PROVE  /\ place[x] % RT_ALIGN_SIZE = 0 /\ PoolOf(place[x]) \in DOMAIN Pools
         /\ place[x] - RT_MEMHEAP_SIZE \in Busy(hp[PoolOf(place[x])])
         /\ PoolOf(place[x] - RT_MEMHEAP_SIZE) = PoolOf(place[x])
         /\ room[x] <= MEMITEM_SIZE(hp[PoolOf(place[x])], place[x] - RT_MEMHEAP_SIZE)
         /\ \A k \in DOMAIN Pools : \A b \in DOMAIN hp[k].next :
              b \in Int /\ (b + RT_MEMHEAP_SIZE <= place[x] \/ place[x] + room[x] <= b)
         /\ \A y \in Holder :
              y # x /\ place[y] \in Int /\ place[y] # Null /\ room[y] \in Int =>
                place[x] + room[x] <= place[y] \/ place[y] + room[y] <= place[x]
<1> DEFINE m == place[x] - RT_MEMHEAP_SIZE
<1>1. PICK j \in DOMAIN Pools : m \in Busy(hp[j]) /\ room[x] <= MEMITEM_SIZE(hp[j], m)
  BY DEF Held
<1>2. /\ m \in Int /\ PoolOf(m) = j /\ PoolOf(m + RT_MEMHEAP_SIZE) = j
      /\ (m + RT_MEMHEAP_SIZE) % RT_ALIGN_SIZE = 0 /\ hp[j].next[m] \in Int
  BY <1>1, BusyFacts
<1>3. m + RT_MEMHEAP_SIZE = place[x] BY DEF RT_MEMHEAP_SIZE
<1>4. place[x] + room[x] <= hp[j].next[m] BY <1>1, <1>2 DEF MEMITEM_SIZE, RT_MEMHEAP_SIZE
<1>5. ASSUME NEW k \in DOMAIN Pools, NEW b \in DOMAIN hp[k].next
      PROVE  b \in Int /\ (b + RT_MEMHEAP_SIZE <= place[x] \/ place[x] + room[x] <= b)
  <2>1. b \in Int /\ (b <= m \/ b >= hp[j].next[m]) BY <1>1, Spread
  <2> QED BY <1>2, <1>4, <2>1 DEF RT_MEMHEAP_SIZE
<1>6. ASSUME NEW y \in Holder, y # x, place[y] \in Int, place[y] # Null, room[y] \in Int
      PROVE  place[x] + room[x] <= place[y] \/ place[y] + room[y] <= place[x]
  <2> DEFINE b == place[y] - RT_MEMHEAP_SIZE
  <2>1. PICK k \in DOMAIN Pools : b \in Busy(hp[k]) /\ room[y] <= MEMITEM_SIZE(hp[k], b)
    BY <1>6 DEF Held
  <2>2. place[x] # place[y] BY <1>6 DEF Apart
  <2>3. b \in Int /\ hp[k].next[b] \in Int BY <2>1, BusyFacts
  <2>4. b \in DOMAIN hp[k].next /\ m \in DOMAIN hp[j].next BY <1>1, <2>1 DEF Busy
  <2>5. b <= m \/ b >= hp[j].next[m] BY <1>1, <2>4, Spread
  <2>6. m <= b \/ m >= hp[k].next[b] BY <2>1, <2>4, Spread
  <2>7. place[y] + room[y] <= hp[k].next[b] BY <1>6, <2>1, <2>3 DEF MEMITEM_SIZE, RT_MEMHEAP_SIZE
  <2>8. place[x] = m + 24 /\ place[y] = b + 24 BY <1>6 DEF RT_MEMHEAP_SIZE
  <2> HIDE DEF m, b
  <2> QED BY <1>2, <1>4, <1>6, <2>2, <2>3, <2>5, <2>6, <2>7, <2>8
<1> QED BY <1>1, <1>2, <1>3, <1>5, <1>6

-----------------------------------------------------------------------------
(***************************************************************************)
(* Steps of one thread.                                                    *)
(***************************************************************************)
LEMMA Holders ==
  /\ \A s \in Slots : SlotOf(s) \in Holder
  /\ \A t \in Threads : TaskOf(t) \in Holder
  /\ \A x \in Holder : (\E s \in Slots : x = SlotOf(s)) \/ (\E t \in Threads : x = TaskOf(t))
  /\ \A s, q : SlotOf(s) = SlotOf(q) => s = q
  /\ \A t, u : TaskOf(t) = TaskOf(u) => t = u
  /\ \A s, t : SlotOf(s) # TaskOf(t)
<1>1. \A s, q : SlotOf(s) = SlotOf(q) => s = q
  <2> SUFFICES ASSUME NEW s, NEW q, SlotOf(s) = SlotOf(q) PROVE s = q OBVIOUS
  <2>1. SlotOf(s)[2] = s /\ SlotOf(q)[2] = q BY DEF SlotOf
  <2> QED BY <2>1
<1>2. \A t, u : TaskOf(t) = TaskOf(u) => t = u
  <2> SUFFICES ASSUME NEW s, NEW q, TaskOf(s) = TaskOf(q) PROVE s = q OBVIOUS
  <2>1. TaskOf(s)[2] = s /\ TaskOf(q)[2] = q BY DEF TaskOf
  <2> QED BY <2>1
<1>3. \A s, t : SlotOf(s) # TaskOf(t)
  <2> SUFFICES ASSUME NEW s, NEW t, SlotOf(s) = TaskOf(t) PROVE FALSE OBVIOUS
  <2>1. SlotOf(s)[1] = "slot" /\ TaskOf(t)[1] = "task" BY DEF SlotOf, TaskOf
  <2> QED BY <2>1
<1> QED BY <1>1, <1>2, <1>3 DEF Holder

LEMMA Places ==
  ASSUME NEW sl, NEW ta
  PROVE  /\ \A s \in Slots : /\ Place(sl, ta)[SlotOf(s)] = SlotAt(sl[s])
                             /\ Room(sl, ta)[SlotOf(s)] = SlotRoom(sl[s])
         /\ \A t \in Threads : /\ Place(sl, ta)[TaskOf(t)] = TaskAt(ta[t])
                               /\ Room(sl, ta)[TaskOf(t)] = TaskRoom(ta[t])
<1>1. ASSUME NEW s \in Slots
      PROVE  /\ Place(sl, ta)[SlotOf(s)] = SlotAt(sl[s])
             /\ Room(sl, ta)[SlotOf(s)] = SlotRoom(sl[s])
  <2>1. SlotOf(s) \in Holder BY Holders
  <2>2. SlotOf(s)[1] = "slot" /\ SlotOf(s)[2] = s BY DEF SlotOf
  <2> QED BY <2>1, <2>2 DEF Place, Room
<1>2. ASSUME NEW t \in Threads
      PROVE  /\ Place(sl, ta)[TaskOf(t)] = TaskAt(ta[t])
             /\ Room(sl, ta)[TaskOf(t)] = TaskRoom(ta[t])
  <2>1. TaskOf(t) \in Holder BY Holders
  <2>2. TaskOf(t)[1] # "slot" /\ TaskOf(t)[2] = t BY DEF TaskOf
  <2> QED BY <2>1, <2>2 DEF Place, Room
<1> QED BY <1>1, <1>2

\* A step of thread t with pointer s, from one state to the next: what the two have afterwards is
\* what they had, or an item that nobody had; the items of the others stay.
HasItem(hp, p, n) == \E k \in DOMAIN Pools : /\ p - RT_MEMHEAP_SIZE \in Busy(hp[k])
                                            /\ n <= MEMITEM_SIZE(hp[k], p - RT_MEMHEAP_SIZE)
New(hp, p) == \A k \in DOMAIN Pools : p - RT_MEMHEAP_SIZE \notin Busy(hp[k])
MayHave(hp, r, x, hp2, p, n) ==
  p # Null => HasItem(hp2, p, n) /\ (p = SlotAt(r) \/ p = TaskAt(x) \/ New(hp, p))
ItemsStay(hp, hp2, p, q) ==
  \A k \in DOMAIN Pools : \A m \in Busy(hp[k]) :
    m + RT_MEMHEAP_SIZE # p /\ m + RT_MEMHEAP_SIZE # q => m \in Busy(hp2[k]) /\ hp2[k].next[m] = hp[k].next[m]
CanStep(t, s, hp, sl, ta, hp2, sl2, ta2) ==
  /\ HeapsGood(hp2) /\ t \in Threads /\ s \in Slots /\ Owner[s] = t
  /\ sl2 \in [Slots -> Region \union {NoRegion}] /\ ta2 \in [Threads -> Tasks]
  /\ \A u \in Threads : u # t => ta2[u] = ta[u]
  /\ \A q \in Slots : q # s => sl2[q] = sl[q]
  /\ ItemsStay(hp, hp2, SlotAt(sl[s]), TaskAt(ta[t]))
  /\ MayHave(hp, sl[s], ta[t], hp2, SlotAt(sl2[s]), SlotRoom(sl2[s]))
  /\ MayHave(hp, sl[s], ta[t], hp2, TaskAt(ta2[t]), TaskRoom(ta2[t]))
  /\ SlotAt(sl2[s]) = TaskAt(ta2[t]) => SlotAt(sl2[s]) = Null
  /\ TaskOK(t, ta2[t], sl2, hp2)

LEMMA Stepped ==
  ASSUME PoolsProper, NEW hp, NEW sl, NEW ta, Steady(hp, sl, ta), NEW t, NEW s, NEW hp2, NEW sl2, NEW ta2,
         CanStep(t, s, hp, sl, ta, hp2, sl2, ta2)
  PROVE  Steady(hp2, sl2, ta2)
<1> DEFINE place == Place(sl, ta)
           room == Room(sl, ta)
           place2 == Place(sl2, ta2)
           room2 == Room(sl2, ta2)
           a == SlotOf(s)
           b == TaskOf(t)
<1>1. t \in Threads /\ s \in Slots /\ a \in Holder /\ b \in Holder /\ a # b BY Holders DEF CanStep
<1>2. /\ place[a] = SlotAt(sl[s]) /\ place[b] = TaskAt(ta[t])
      /\ place2[a] = SlotAt(sl2[s]) /\ place2[b] = TaskAt(ta2[t])
      /\ room2[a] = SlotRoom(sl2[s]) /\ room2[b] = TaskRoom(ta2[t])
  BY <1>1, Places
<1>3. ASSUME NEW x \in Holder, x # a, x # b PROVE place2[x] = place[x] /\ room2[x] = room[x]
  <2>1. CASE \E q \in Slots : x = SlotOf(q)
    <3>1. PICK q \in Slots : x = SlotOf(q) BY <2>1
    <3>2. sl2[q] = sl[q] BY <1>3, <3>1 DEF CanStep
    <3> QED BY <3>1, <3>2, Places
  <2>2. CASE \E u \in Threads : x = TaskOf(u)
    <3>1. PICK u \in Threads : x = TaskOf(u) BY <2>2
    <3>2. ta2[u] = ta[u] BY <1>3, <3>1 DEF CanStep
    <3> QED BY <3>1, <3>2, Places
  <2> QED BY <2>1, <2>2, Holders
<1>4. Held(hp, place, room) /\ Apart(place) /\ HeapsGood(hp) BY DEF Steady
<1> HIDE DEF place, place2, room, room2, a, b
<1>5. ASSUME NEW x \in Holder, NEW k \in DOMAIN Pools, x # a, x # b, place[x] # Null,
             place[x] - RT_MEMHEAP_SIZE \in Busy(hp[k])
      PROVE  /\ place[x] - RT_MEMHEAP_SIZE \in Busy(hp2[k])
             /\ hp2[k].next[place[x] - RT_MEMHEAP_SIZE] = hp[k].next[place[x] - RT_MEMHEAP_SIZE]
  <2>1. place[x] # place[a] /\ place[x] # place[b] BY <1>1, <1>4, <1>5 DEF Apart
  <2>2. PICK m \in Busy(hp[k]) : m = place[x] - RT_MEMHEAP_SIZE BY <1>5
  <2>3. place[x] \in Int
    <3>1. CASE \E q \in Slots : x = SlotOf(q)
      <4>1. PICK q \in Slots : x = SlotOf(q) BY <3>1
      <4>2. place[x] = SlotAt(sl[q]) BY <4>1, Places DEF place
      <4>3. sl[q] \in Region \union {NoRegion} BY DEF Steady
      <4> QED BY <4>2, <4>3 DEF SlotAt, Region, Null
    <3>2. CASE \E u \in Threads : x = TaskOf(u)
      <4>1. PICK u \in Threads : x = TaskOf(u) BY <3>2
      <4>2. place[x] = TaskAt(ta[u]) BY <4>1, Places DEF place
      <4>3. ta[u] \in Tasks BY DEF Steady
      <4>4. ta[u].p \in Int BY <4>3 DEF Tasks
      <4>5. Null \in Int BY DEF Null
      <4> QED BY <4>2, <4>4, <4>5 DEF TaskAt
    <3> QED BY <3>1, <3>2, Holders
  <2>4. m + RT_MEMHEAP_SIZE = place[x] BY <2>2, <2>3 DEF RT_MEMHEAP_SIZE
  <2>5. ItemsStay(hp, hp2, place[a], place[b]) BY <1>2 DEF CanStep
  <2> QED BY <2>1, <2>2, <2>4, <2>5 DEF ItemsStay
<1>6. place2[a] = place2[b] => place2[a] = Null BY <1>2 DEF CanStep
<1>7. ASSUME NEW y \in {a, b}, place2[y] # Null
      PROVE  /\ \E k \in DOMAIN Pools : /\ place2[y] - RT_MEMHEAP_SIZE \in Busy(hp2[k])
                                        /\ room2[y] <= MEMITEM_SIZE(hp2[k], place2[y] - RT_MEMHEAP_SIZE)
             /\ place2[y] = place[a] \/ place2[y] = place[b] \/ \A x \in Holder : place[x] # place2[y]
  <2>1. MayHave(hp, sl[s], ta[t], hp2, place2[y], room2[y]) BY <1>2 DEF CanStep
  <2>2. HasItem(hp2, place2[y], room2[y]) BY <1>7, <2>1 DEF MayHave
  <2>3. ASSUME New(hp, place2[y]), NEW x \in Holder, place[x] = place2[y] PROVE FALSE
    <3>1. PICK k \in DOMAIN Pools : place[x] - RT_MEMHEAP_SIZE \in Busy(hp[k]) BY <1>4, <1>7, <2>3 DEF Held
    <3> QED BY <2>3, <3>1 DEF New
  <2>4. place2[y] = place[a] \/ place2[y] = place[b] \/ New(hp, place2[y])
    BY <1>2, <1>7, <2>1 DEF MayHave
  <2>5. \E k \in DOMAIN Pools : /\ place2[y] - RT_MEMHEAP_SIZE \in Busy(hp2[k])
                                /\ room2[y] <= MEMITEM_SIZE(hp2[k], place2[y] - RT_MEMHEAP_SIZE)
    BY <2>2 DEF HasItem
  <2>6. New(hp, place2[y]) => \A x \in Holder : place[x] # place2[y] BY <2>3
  <2> QED BY <2>4, <2>5, <2>6
<1>8. CanMove(hp, place, room, hp2, place2, room2, a, b)
  BY <1>1, <1>3, <1>4, <1>5, <1>6, <1>7 DEF CanMove
<1>10. Held(hp2, place2, room2) /\ Apart(place2) BY <1>8, Moves
<1>9. ASSUME NEW u \in Threads PROVE TaskOK(u, ta2[u], sl2, hp2)
  <2>1. CASE u = t BY <2>1 DEF CanStep
  <2>2. CASE u # t
    <3>1. PICK x : x = ta[u] OBVIOUS
    <3>2. ta2[u] = x BY <2>2, <3>1 DEF CanStep
    <3>3. TaskOK(u, x, sl, hp) /\ x \in Tasks BY <3>1 DEF Steady
    <3>4. x.pc \in {"free", "free locked", "none"} \/ x.pc \in Active BY <3>3 DEF Tasks
    <3>5. CASE x.pc \in {"free", "free locked", "none"} BY <3>2, <3>3, <3>5 DEF TaskOK, Active
    <3>6. CASE x.pc \in Active
      <4>0. x.pc # "none" BY <3>6 DEF Active
      <4>1. x.s \in Slots /\ Owner[x.s] = u BY <3>3, <4>0 DEF TaskOK
      <4>2. sl2[x.s] = sl[x.s] BY <2>2, <4>1 DEF CanStep
      <4>3. CASE x.pc # "realloc locked" BY <3>2, <3>3, <4>2, <4>3 DEF TaskOK
      <4>4. CASE x.pc = "realloc locked"
        <5> DEFINE m == sl[x.s].at - RT_MEMHEAP_SIZE
        <5>1. /\ m \in Busy(hp[x.k]) /\ x.old = MEMITEM_SIZE(hp[x.k], m) /\ x.k \in DOMAIN Pools
              /\ sl[x.s] # NoRegion
          BY <3>3, <4>4 DEF TaskOK
        <5>2. place[SlotOf(x.s)] = sl[x.s].at /\ sl[x.s].at \in Nat
          <6>1. sl[x.s] \in Region BY <4>1, <5>1 DEF Steady
          <6>2. place[SlotOf(x.s)] = SlotAt(sl[x.s]) BY <4>1, Places DEF place
          <6> QED BY <5>1, <6>1, <6>2 DEF Region, SlotAt
        <5>3. SlotOf(x.s) # a /\ SlotOf(x.s) # b /\ SlotOf(x.s) \in Holder
          <6>1. x.s # s BY <2>2, <4>1 DEF CanStep
          <6> QED BY <4>1, <6>1, Holders DEF a, b
        <5>4. place[SlotOf(x.s)] # Null BY <5>2 DEF Null
        <5>5. m \in Busy(hp2[x.k]) /\ hp2[x.k].next[m] = hp[x.k].next[m]
          BY <1>5, <5>1, <5>2, <5>3, <5>4
        <5>6. MEMITEM_SIZE(hp2[x.k], m) = MEMITEM_SIZE(hp[x.k], m) BY <5>5 DEF MEMITEM_SIZE
        <5> QED BY <3>2, <3>3, <4>2, <4>4, <5>1, <5>5, <5>6 DEF TaskOK
      <4> QED BY <4>3, <4>4
    <3> QED BY <3>4, <3>5, <3>6
  <2> QED BY <2>1, <2>2
<1> QED BY <1>9, <1>10 DEF Steady, CanStep, place2, room2

\* The thread only goes on: nobody's region changes.
LEMMA GoesOn ==
  ASSUME NEW hp, NEW sl, NEW ta, Steady(hp, sl, ta), NEW t \in Threads, NEW y \in Tasks,
         TaskAt(y) = TaskAt(ta[t]), TaskRoom(y) = TaskRoom(ta[t]), TaskOK(t, y, sl, hp)
  PROVE  Steady(hp, sl, [ta EXCEPT ![t] = y])
<1> DEFINE ta2 == [ta EXCEPT ![t] = y]
<1>1. ta \in [Threads -> Tasks] BY DEF Steady
<1>2. ta2 \in [Threads -> Tasks] /\ ta2[t] = y /\ \A u \in Threads : u # t => ta2[u] = ta[u] BY <1>1
<1> HIDE DEF ta2
<1>3. \A u \in Threads : TaskAt(ta2[u]) = TaskAt(ta[u]) /\ TaskRoom(ta2[u]) = TaskRoom(ta[u]) BY <1>2
<1>4. \A x \in Holder : Place(sl, ta2)[x] = Place(sl, ta)[x] /\ Room(sl, ta2)[x] = Room(sl, ta)[x]
  BY <1>3, Holders, Places
<1>5. Held(hp, Place(sl, ta2), Room(sl, ta2)) /\ Apart(Place(sl, ta2))
  <2>1. Held(hp, Place(sl, ta), Room(sl, ta)) /\ Apart(Place(sl, ta)) BY DEF Steady
  <2> QED BY <1>4, <2>1 DEF Held, Apart
<1>6. \A u \in Threads : TaskOK(u, ta2[u], sl, hp) BY <1>2 DEF Steady
<1> QED BY <1>2, <1>5, <1>6 DEF Steady, ta2

\* What a holder has, in full.
IsItem(hp, p, n) ==
  /\ p \in Nat /\ p # Null /\ p % RT_ALIGN_SIZE = 0
  /\ PoolOf(p) \in DOMAIN Pools /\ PoolOf(p - RT_MEMHEAP_SIZE) = PoolOf(p)
  /\ p - RT_MEMHEAP_SIZE \in Busy(hp[PoolOf(p)])
  /\ MEMITEM_SIZE(hp[PoolOf(p)], p - RT_MEMHEAP_SIZE) \in Int
  /\ n \in Nat /\ n <= MEMITEM_SIZE(hp[PoolOf(p)], p - RT_MEMHEAP_SIZE)

LEMMA ItemIs ==
  ASSUME PoolsProper, NEW hp, HeapsGood(hp), NEW place, NEW room, Held(hp, place, room),
         NEW x \in Holder, place[x] \in Int, place[x] # Null, room[x] \in Nat
  PROVE  IsItem(hp, place[x], room[x])
<1> DEFINE m == place[x] - RT_MEMHEAP_SIZE
<1>1. PICK j \in DOMAIN Pools : m \in Busy(hp[j]) /\ room[x] <= MEMITEM_SIZE(hp[j], m)
  BY DEF Held
<1>2. /\ m \in Int /\ m >= 0 /\ PoolOf(m) = j /\ PoolOf(m + RT_MEMHEAP_SIZE) = j
      /\ (m + RT_MEMHEAP_SIZE) % RT_ALIGN_SIZE = 0 /\ hp[j].next[m] \in Int
  BY <1>1, BusyFacts
<1>3. m + RT_MEMHEAP_SIZE = place[x] /\ place[x] >= 0 BY <1>2 DEF RT_MEMHEAP_SIZE
<1>4. MEMITEM_SIZE(hp[j], m) \in Int BY <1>2 DEF MEMITEM_SIZE, RT_MEMHEAP_SIZE
<1> QED BY <1>1, <1>2, <1>3, <1>4 DEF IsItem

LEMMA SlotItem ==
  ASSUME PoolsProper, NEW hp, NEW sl, NEW ta, Steady(hp, sl, ta), NEW s \in Slots, sl[s] # NoRegion
  PROVE  sl[s] \in Region /\ SlotAt(sl[s]) = sl[s].at /\ IsItem(hp, sl[s].at, sl[s].n)
<1>1. sl[s] \in Region BY DEF Steady
<1>2. /\ SlotOf(s) \in Holder /\ Place(sl, ta)[SlotOf(s)] = sl[s].at /\ Room(sl, ta)[SlotOf(s)] = sl[s].n
      /\ SlotAt(sl[s]) = sl[s].at
  BY Holders, Places DEF SlotAt, SlotRoom
<1>3. sl[s].at \in Nat /\ sl[s].n \in Nat BY <1>1 DEF Region
<1>4. sl[s].at # Null /\ sl[s].at \in Int BY <1>3 DEF Null
<1>5. HeapsGood(hp) /\ Held(hp, Place(sl, ta), Room(sl, ta)) BY DEF Steady
<1>6. IsItem(hp, Place(sl, ta)[SlotOf(s)], Room(sl, ta)[SlotOf(s)]) BY <1>2, <1>3, <1>4, <1>5, ItemIs
<1> QED BY <1>1, <1>2, <1>6

LEMMA NotNull == \A p \in Nat : p # Null /\ p \in Int BY DEF Null

LEMMA TaskItem ==
  ASSUME PoolsProper, NEW hp, NEW sl, NEW ta, Steady(hp, sl, ta), NEW t \in Threads,
         ta[t].pc \in {"free", "free locked", "copy"}
  PROVE  TaskAt(ta[t]) = ta[t].p /\ IsItem(hp, ta[t].p, TaskRoom(ta[t]))
<1>1. ta[t] \in Tasks /\ TaskOK(t, ta[t], sl, hp) BY DEF Steady
<1>2. ta[t].p \in Nat BY <1>1 DEF TaskOK
<1>3. TaskRoom(ta[t]) \in Nat
  <2>1. ta[t].n \in Nat BY <1>1 DEF Tasks
  <2> QED BY <2>1 DEF TaskRoom
<1>4. /\ TaskOf(t) \in Holder /\ Place(sl, ta)[TaskOf(t)] = ta[t].p
      /\ Room(sl, ta)[TaskOf(t)] = TaskRoom(ta[t]) /\ TaskAt(ta[t]) = ta[t].p
  BY Holders, Places DEF TaskAt
<1>5. ta[t].p # Null /\ ta[t].p \in Int BY <1>2, NotNull
<1>6. HeapsGood(hp) /\ Held(hp, Place(sl, ta), Room(sl, ta)) BY DEF Steady
<1>7. IsItem(hp, Place(sl, ta)[TaskOf(t)], Room(sl, ta)[TaskOf(t)]) BY <1>3, <1>4, <1>5, <1>6, ItemIs
<1> QED BY <1>4, <1>7

LEMMA ItemHas ==
  ASSUME NEW hp, NEW p, NEW n, IsItem(hp, p, n), NEW i \in Nat,
         i <= MEMITEM_SIZE(hp[PoolOf(p)], p - RT_MEMHEAP_SIZE)
  PROVE  HasItem(hp, p, i)
BY DEF IsItem, HasItem

\* One heap changes, and there only item m.
Changed(hp, k, g) == [hp EXCEPT ![k] = g]
LEMMA OneChanges ==
  ASSUME PoolsProper, NEW hp, HeapsGood(hp), NEW k \in DOMAIN Pools, NEW g, GoodHeap(g, k),
         NEW m \in Int, Keeps(hp[k], g, m)
  PROVE  /\ HeapsGood(Changed(hp, k, g)) /\ Changed(hp, k, g)[k] = g
         /\ ItemsStay(hp, Changed(hp, k, g), m + RT_MEMHEAP_SIZE, m + RT_MEMHEAP_SIZE)
<1> DEFINE hp2 == Changed(hp, k, g)
<1>1. DOMAIN hp = DOMAIN Pools BY DEF HeapsGood
<1>2. DOMAIN hp2 = DOMAIN Pools /\ hp2[k] = g /\ \A j \in DOMAIN Pools : j # k => hp2[j] = hp[j]
  BY <1>1 DEF Changed
<1> HIDE DEF hp2
<1>3. HeapsGood(hp2) BY <1>2 DEF HeapsGood
<1>4. ItemsStay(hp, hp2, m + RT_MEMHEAP_SIZE, m + RT_MEMHEAP_SIZE)
  <2> SUFFICES ASSUME NEW j \in DOMAIN Pools, NEW x \in Busy(hp[j]),
                      x + RT_MEMHEAP_SIZE # m + RT_MEMHEAP_SIZE
               PROVE  x \in Busy(hp2[j]) /\ hp2[j].next[x] = hp[j].next[x]
    BY DEF ItemsStay
  <2>1. x # m OBVIOUS
  <2> QED BY <1>2, <2>1 DEF Keeps
<1> QED BY <1>2, <1>3, <1>4 DEF hp2

LEMMA Survives ==
  ASSUME NEW hp, NEW hp2, NEW q, ItemsStay(hp, hp2, q, q), NEW p, NEW n, IsItem(hp, p, n), p # q
  PROVE  HasItem(hp2, p, n)
<1> DEFINE k == PoolOf(p)
           m == p - RT_MEMHEAP_SIZE
<1>1. k \in DOMAIN Pools /\ m \in Busy(hp[k]) /\ n <= MEMITEM_SIZE(hp[k], m) /\ p \in Nat BY DEF IsItem
<1>2. m + RT_MEMHEAP_SIZE = p BY <1>1 DEF RT_MEMHEAP_SIZE
<1>3. m \in Busy(hp2[k]) /\ hp2[k].next[m] = hp[k].next[m] BY <1>1, <1>2 DEF ItemsStay
<1>4. n <= MEMITEM_SIZE(hp2[k], m) BY <1>1, <1>3 DEF MEMITEM_SIZE
<1> QED BY <1>1, <1>3, <1>4 DEF HasItem

LEMMA Asked ==
  \A n \in Nat : /\ Ask(n) \in Int /\ Ask(n) >= n /\ Ask(n) >= RT_MEMHEAP_MINIALLOC
                 /\ Ask(n) % RT_ALIGN_SIZE = 0
<1> SUFFICES ASSUME NEW n \in Nat
             PROVE  /\ Ask(n) \in Int /\ Ask(n) >= n /\ Ask(n) >= RT_MEMHEAP_MINIALLOC
                    /\ Ask(n) % RT_ALIGN_SIZE = 0
  OBVIOUS
<1>1. PICK r : r = RT_ALIGN(n, RT_ALIGN_SIZE) OBVIOUS
<1>2. r \in Int /\ r >= n /\ r % RT_ALIGN_SIZE = 0 BY <1>1, Aligned
<1>3. Ask(n) = IF r < 12 THEN 12 ELSE r BY <1>1 DEF Ask, Greater, RT_MEMHEAP_MINIALLOC
<1>4. 12 % RT_ALIGN_SIZE = 0 BY DEF RT_ALIGN_SIZE
<1> QED BY <1>2, <1>3, <1>4 DEF RT_MEMHEAP_MINIALLOC

LEMMA HeapNumbers ==
  ASSUME PoolsProper
  PROVE  0 \in DOMAIN Pools /\ DOMAIN Pools \subseteq Int
         /\ \A k \in DOMAIN Pools : NextHeap(k) \in DOMAIN Pools
<1>1. PICK c \in Nat \ {0} : c = Cardinality(DOMAIN Pools) BY DEF PoolsProper
<1>2. DOMAIN Pools = 0 .. c - 1 BY <1>1 DEF PoolsProper
<1>3. \A k \in DOMAIN Pools : NextHeap(k) = IF k = 0 THEN c - 1 ELSE k - 1 BY <1>1 DEF NextHeap
<1> QED BY <1>2, <1>3

-----------------------------------------------------------------------------
(***************************************************************************)
(* The calls and steps of a thread.                                        *)
(***************************************************************************)
LEMMA IdleIs ==
  /\ Idle \in Tasks
  /\ Idle.op = "none" /\ Idle.pc = "none" /\ Idle.s = 0 /\ Idle.k = 0
BY DEF Idle, Tasks, Null

\* The client gives a region up: the thread has it until it is back in the heap.
CanGiveUp(t, s, y) ==
  /\ t \in Threads /\ s \in Slots /\ Owner[s] = t /\ slot[s] # NoRegion
  /\ y \in Tasks /\ y.pc = "free" /\ y.p = slot[s].at /\ y.s = s
  /\ slot' = [slot EXCEPT ![s] = NoRegion] /\ task' = [task EXCEPT ![t] = y]

LEMMA GivesUp ==
  ASSUME PoolsProper, Steady(heap, slot, task), NEW t, NEW s, NEW y, CanGiveUp(t, s, y)
  PROVE  Steady(heap, slot', task')
<1> DEFINE p == slot[s].at
<1>1. /\ t \in Threads /\ s \in Slots /\ Owner[s] = t /\ slot[s] # NoRegion
      /\ y \in Tasks /\ y.pc = "free" /\ y.p = p /\ y.s = s
      /\ slot' = [slot EXCEPT ![s] = NoRegion] /\ task' = [task EXCEPT ![t] = y]
  BY DEF CanGiveUp
<1>2. IsItem(heap, p, slot[s].n) /\ SlotAt(slot[s]) = p BY <1>1, SlotItem
<1>3. p \in Nat /\ p # Null /\ HasItem(heap, p, 0)
  <2>1. /\ p \in Nat /\ p # Null /\ MEMITEM_SIZE(heap[PoolOf(p)], p - RT_MEMHEAP_SIZE) \in Int
        /\ slot[s].n \in Nat /\ slot[s].n <= MEMITEM_SIZE(heap[PoolOf(p)], p - RT_MEMHEAP_SIZE)
    BY <1>2 DEF IsItem
  <2>2. 0 \in Nat /\ 0 <= MEMITEM_SIZE(heap[PoolOf(p)], p - RT_MEMHEAP_SIZE) BY <2>1
  <2> QED BY <1>2, <2>1, <2>2, ItemHas
<1>4. TaskAt(y) = p /\ TaskRoom(y) = 0 BY <1>1 DEF TaskAt, TaskRoom
<1>5. /\ slot' \in [Slots -> Region \union {NoRegion}] /\ slot'[s] = NoRegion
      /\ \A q \in Slots : q # s => slot'[q] = slot[q]
  BY <1>1 DEF Steady
<1> HIDE DEF p
<1>6. TaskOK(t, y, slot', heap) BY <1>1, <1>3 DEF TaskOK, Active
<1>7. task' \in [Threads -> Tasks] /\ task'[t] = y /\ \A u \in Threads : u # t => task'[u] = task[u]
  BY <1>1 DEF Steady
<1>8. SlotAt(slot'[s]) = Null /\ HeapsGood(heap) BY <1>5 DEF SlotAt, Steady
<1>9. ItemsStay(heap, heap, SlotAt(slot[s]), TaskAt(task[t])) BY DEF ItemsStay
<1>10. MayHave(heap, slot[s], task[t], heap, SlotAt(slot'[s]), SlotRoom(slot'[s])) BY <1>8 DEF MayHave
<1>11. MayHave(heap, slot[s], task[t], heap, TaskAt(y), TaskRoom(y)) BY <1>2, <1>3, <1>4 DEF MayHave
<1>12. CanStep(t, s, heap, slot, task, heap, slot', task')
  BY <1>1, <1>3, <1>4, <1>5, <1>6, <1>7, <1>8, <1>9, <1>10, <1>11 DEF CanStep
<1> QED BY <1>12, Stepped

LEMMA CallsOK ==
  ASSUME PoolsProper, Steady(heap, slot, task), NEW t \in Threads, Call(t)
  PROVE  Steady(heap', slot', task')
<1>1. PICK s \in Slots : \/ \E n \in Nat : \/ \E zero \in BOOLEAN : CallMalloc(t, s, n, zero)
                                           \/ CallRealloc(t, s, n)
                         \/ CallFree(t, s)
  BY DEF Call
<1>2. 0 \in DOMAIN Pools /\ 0 \in Int BY HeapNumbers
<1>3. ASSUME task[t].pc = "none" PROVE TaskAt(task[t]) = Null /\ TaskRoom(task[t]) = 0
  BY <1>3 DEF TaskAt, TaskRoom
<1>4. ASSUME NEW n \in Nat, NEW zero \in BOOLEAN, CallMalloc(t, s, n, zero)
      PROVE  Steady(heap', slot', task')
  <2> DEFINE op == IF zero THEN "calloc" ELSE "malloc"
             y == [Idle EXCEPT !.op = op, !.pc = "malloc", !.s = s, !.n = n, !.m = n]
  <2>1. /\ task' = [task EXCEPT ![t] = y] /\ task[t].pc = "none" /\ Owner[s] = t /\ slot[s] = NoRegion
        /\ UNCHANGED <<heap, slot>>
    BY <1>4 DEF CallMalloc, At
  <2>2. op \in {"malloc", "calloc"} OBVIOUS
  <2>3. y \in Tasks BY <2>2, IdleIs DEF Tasks, Active
  <2>4. y.op = op /\ y.pc = "malloc" /\ y.s = s /\ y.k = 0 BY IdleIs DEF Tasks
  <2> HIDE DEF y, op
  <2>5. TaskAt(y) = Null /\ TaskRoom(y) = 0 BY <2>4 DEF TaskAt, TaskRoom
  <2>7. TaskOK(t, y, slot, heap) BY <1>2, <2>1, <2>2, <2>4 DEF TaskOK, Active
  <2>6. Steady(heap, slot, [task EXCEPT ![t] = y]) BY <1>3, <2>1, <2>3, <2>5, <2>7, GoesOn
  <2> QED BY <2>1, <2>6
<1>5. ASSUME NEW n \in Nat, CallRealloc(t, s, n)
      PROVE  Steady(heap', slot', task')
  <2> DEFINE y == [Idle EXCEPT !.op = "realloc", !.pc = "realloc", !.s = s, !.n = n, !.m = n]
  <2>1. /\ task' = [task EXCEPT ![t] = y] /\ task[t].pc = "none" /\ Owner[s] = t
        /\ UNCHANGED <<heap, slot>>
    BY <1>5 DEF CallRealloc, At
  <2>2. y \in Tasks BY IdleIs DEF Tasks, Active
  <2>3. y.op = "realloc" /\ y.pc = "realloc" /\ y.s = s /\ y.k = 0 BY IdleIs DEF Tasks
  <2> HIDE DEF y
  <2>4. TaskAt(y) = Null /\ TaskRoom(y) = 0 BY <2>3 DEF TaskAt, TaskRoom
  <2>5. TaskOK(t, y, slot, heap) BY <1>2, <2>1, <2>3 DEF TaskOK, Active
  <2>6. Steady(heap, slot, [task EXCEPT ![t] = y]) BY <1>3, <2>1, <2>2, <2>4, <2>5, GoesOn
  <2> QED BY <2>1, <2>6
<1>6. ASSUME CallFree(t, s) PROVE Steady(heap', slot', task')
  <2> DEFINE y == [Idle EXCEPT !.op = "free", !.pc = "free", !.s = s, !.p = slot[s].at]
  <2>1. /\ task' = [task EXCEPT ![t] = y] /\ Owner[s] = t /\ slot' = [slot EXCEPT ![s] = NoRegion]
        /\ slot[s] # NoRegion /\ UNCHANGED heap
    BY <1>6 DEF CallFree
  <2>2. slot[s].at \in Nat BY <2>1, SlotItem DEF Region
  <2>3. slot[s].at \in Int BY <2>2
  <2>4. y \in Tasks BY <2>3, IdleIs DEF Tasks, Active
  <2>5. y.pc = "free" /\ y.s = s /\ y.p = slot[s].at BY IdleIs DEF Tasks
  <2> HIDE DEF y
  <2>6. CanGiveUp(t, s, y) BY <2>1, <2>4, <2>5 DEF CanGiveUp
  <2>7. Steady(heap, slot', task') BY <2>6, GivesUp
  <2> QED BY <2>1, <2>7
<1> QED BY <1>1, <1>4, <1>5, <1>6

\* A thread that returns NULL or goes on to the next heap leaves the regions as they are.
LEMMA NoMemoryOK ==
  ASSUME PoolsProper, Steady(heap, slot, task), NEW t \in Threads,
         task[t].pc \in {"malloc", "malloc locked", "move", "move locked"}, NoMemory(t)
  PROVE  slot' = slot /\ Steady(heap, slot, task')
<1>1. PICK x : x = task[t] OBVIOUS
<1>2. x \in Tasks /\ TaskOK(t, x, slot, heap) /\ task \in [Threads -> Tasks] BY <1>1 DEF Steady
<1>3. x.pc # "none" /\ x.pc \in Active /\ x.k \in DOMAIN Pools /\ x.s \in Slots /\ Owner[x.s] = t
  BY <1>1, <1>2 DEF TaskOK, Active
<1>4. TaskAt(x) = Null /\ TaskRoom(x) = 0 BY <1>1 DEF TaskAt, TaskRoom
<1>5. ASSUME NEW y \in Tasks, task' = [task EXCEPT ![t] = y], TaskAt(y) = Null, TaskRoom(y) = 0,
             TaskOK(t, y, slot, heap)
      PROVE  Steady(heap, slot, task')
  BY <1>1, <1>4, <1>5, GoesOn
<1>6. CASE /\ task[t].pc \in {"malloc", "malloc locked"} /\ NextHeap(task[t].k) # 0
           /\ task' = [task EXCEPT ![t].pc = "malloc", ![t].k = NextHeap(@)]
           /\ UNCHANGED <<slot, bytes>>
  <2> DEFINE y == [x EXCEPT !.pc = "malloc", !.k = NextHeap(x.k)]
  <2>1. task' = [task EXCEPT ![t] = y] BY <1>1, <1>2, <1>6
  <2>2. NextHeap(x.k) \in DOMAIN Pools /\ NextHeap(x.k) \in Int BY <1>3, HeapNumbers
  <2>3. y \in Tasks BY <1>2, <2>2 DEF Tasks, Active
  <2>4. y.pc = "malloc" /\ y.k = NextHeap(x.k) /\ y.s = x.s /\ y.op = x.op /\ y.old = x.old
    BY <1>2 DEF Tasks
  <2> HIDE DEF y
  <2>5. TaskAt(y) = Null /\ TaskRoom(y) = 0 BY <2>4 DEF TaskAt, TaskRoom
  <2>6. TaskOK(t, y, slot, heap) BY <1>1, <1>2, <1>3, <1>6, <2>2, <2>4 DEF TaskOK, Active
  <2> QED BY <1>5, <1>6, <2>1, <2>3, <2>5, <2>6
<1>7. CASE /\ task[t].pc \in {"malloc", "malloc locked"} /\ NextHeap(task[t].k) = 0 /\ Got(t, Null, {})
  <2>1. task' = [task EXCEPT ![t] = Idle] /\ slot' = slot BY <1>7 DEF Got
  <2>2. TaskAt(Idle) = Null /\ TaskRoom(Idle) = 0 BY IdleIs DEF TaskAt, TaskRoom
  <2>3. TaskOK(t, Idle, slot, heap) BY IdleIs DEF TaskOK, Active
  <2> QED BY <1>5, <2>1, <2>2, <2>3, IdleIs
<1>8. CASE /\ task[t].pc \in {"move", "move locked"}
           /\ task' = [task EXCEPT ![t].pc = "malloc", ![t].k = 0]
           /\ UNCHANGED <<slot, bytes>>
  <2> DEFINE y == [x EXCEPT !.pc = "malloc", !.k = 0]
  <2>1. task' = [task EXCEPT ![t] = y] BY <1>1, <1>2, <1>8
  <2>2. 0 \in DOMAIN Pools /\ 0 \in Int BY HeapNumbers
  <2>3. y \in Tasks BY <1>2, <2>2 DEF Tasks, Active
  <2>4. y.pc = "malloc" /\ y.k = 0 /\ y.s = x.s /\ y.op = x.op /\ y.old = x.old BY <1>2 DEF Tasks
  <2> HIDE DEF y
  <2>5. TaskAt(y) = Null /\ TaskRoom(y) = 0 BY <2>4 DEF TaskAt, TaskRoom
  <2>6. x.op = "realloc" /\ x.old >= slot[x.s].n /\ slot[x.s] # NoRegion
    BY <1>1, <1>2, <1>3, <1>8 DEF TaskOK, Active
  <2>7. TaskOK(t, y, slot, heap) BY <1>3, <2>2, <2>4, <2>6 DEF TaskOK, Active
  <2> QED BY <1>5, <1>8, <2>1, <2>3, <2>5, <2>7
<1> QED BY <1>6, <1>7, <1>8 DEF NoMemory

LEMMA AllocOK ==
  ASSUME PoolsProper, Steady(heap, slot, task), NEW t \in Threads, Alloc(t)
  PROVE  Steady(heap', slot', task')
<1>1. PICK pc \in {"malloc", "move"} :
        /\ At(t, pc)
        /\ \E a \in Available(task[t].k) :
             \/ Request(t) >= a /\ NoMemory(t) /\ UNCHANGED <<heap, lock>>
             \/ /\ Request(t) < a /\ Taken(t, task[t].k)
                /\ GoTo(t, IF pc = "malloc" THEN "malloc locked" ELSE "move locked")
                /\ UNCHANGED <<heap, slot, bytes>>
  BY DEF Alloc
<1>2. task[t].pc = pc /\ task[t].pc \in {"malloc", "move"} BY <1>1 DEF At
<1>3. CASE NoMemory(t) /\ UNCHANGED <<heap, lock>>
  <2>1. slot' = slot /\ Steady(heap, slot, task') BY <1>2, <1>3, NoMemoryOK
  <2> QED BY <1>3, <2>1
<1>4. CASE /\ GoTo(t, IF pc = "malloc" THEN "malloc locked" ELSE "move locked")
           /\ UNCHANGED <<heap, slot, bytes>>
  <2>1. PICK x : x = task[t] OBVIOUS
  <2>2. x \in Tasks /\ TaskOK(t, x, slot, heap) /\ task \in [Threads -> Tasks] BY <2>1 DEF Steady
  <2>3. PICK to : to = IF pc = "malloc" THEN "malloc locked" ELSE "move locked" OBVIOUS
  <2> DEFINE y == [x EXCEPT !.pc = to]
  <2>4. task' = [task EXCEPT ![t] = y] BY <1>4, <2>1, <2>2, <2>3 DEF GoTo
  <2>5. y \in Tasks BY <2>2, <2>3 DEF Tasks, Active
  <2>6. y.pc = to /\ y.k = x.k /\ y.s = x.s /\ y.op = x.op /\ y.old = x.old BY <2>2 DEF Tasks
  <2> HIDE DEF y
  <2>7. TaskAt(y) = Null /\ TaskRoom(y) = 0 /\ TaskAt(x) = Null /\ TaskRoom(x) = 0
    BY <1>2, <2>1, <2>3, <2>6 DEF TaskAt, TaskRoom
  <2>8. TaskOK(t, y, slot, heap)
    <3>1. CASE x.pc = "malloc" BY <1>2, <2>1, <2>2, <2>3, <2>6, <3>1 DEF TaskOK, Active
    <3>2. CASE x.pc = "move" BY <1>2, <2>1, <2>2, <2>3, <2>6, <3>2 DEF TaskOK, Active
    <3> QED BY <1>2, <2>1, <3>1, <3>2
  <2>9. Steady(heap, slot, [task EXCEPT ![t] = y]) BY <2>1, <2>5, <2>7, <2>8, GoesOn
  <2> QED BY <1>4, <2>4, <2>9
<1> QED BY <1>1, <1>3, <1>4

LEMMA FreeOK ==
  ASSUME PoolsProper, Steady(heap, slot, task), NEW t \in Threads, Free(t)
  PROVE  Steady(heap', slot', task')
<1>1. PICK x : x = task[t] OBVIOUS
<1>2. x \in Tasks /\ TaskOK(t, x, slot, heap) /\ task \in [Threads -> Tasks] BY <1>1 DEF Steady
<1>3. x.pc = "free" /\ UNCHANGED <<heap, slot>> BY <1>1 DEF Free, At
<1> DEFINE y == [x EXCEPT !.pc = "free locked"]
<1>4. task' = [task EXCEPT ![t] = y] BY <1>1, <1>2 DEF Free, GoTo
<1>5. y \in Tasks BY <1>2 DEF Tasks
<1>6. y.pc = "free locked" /\ y.p = x.p /\ y.s = x.s BY <1>2 DEF Tasks
<1> HIDE DEF y
<1>7. TaskAt(y) = TaskAt(x) /\ TaskRoom(y) = TaskRoom(x) BY <1>3, <1>6 DEF TaskAt, TaskRoom
<1>8. TaskOK(t, y, slot, heap) BY <1>2, <1>3, <1>6 DEF TaskOK, Active
<1>9. Steady(heap, slot, [task EXCEPT ![t] = y]) BY <1>1, <1>5, <1>7, <1>8, GoesOn
<1> QED BY <1>3, <1>4, <1>9

\* rt_memheap_free gives the item back that its caller alone has.
LEMMA FreeLockedOK ==
  ASSUME PoolsProper, Steady(heap, slot, task), NEW t \in Threads, FreeLocked(t)
  PROVE  Steady(heap', slot', task')
<1> DEFINE p == task[t].p
           m == p - RT_MEMHEAP_SIZE
           s == task[t].s
           k == PoolOf(p)
           g == FreeItem(heap[k], m)
<1>1. task[t].pc = "free locked" /\ heap' = Changed(heap, k, g) /\ slot' = slot
      /\ task' = [task EXCEPT ![t] = Idle]
  BY DEF FreeLocked, At, Freed, Changed
<1>2. /\ HeapsGood(heap) /\ task \in [Threads -> Tasks] /\ slot \in [Slots -> Region \union {NoRegion}]
      /\ TaskOK(t, task[t], slot, heap) /\ Apart(Place(slot, task))
  BY DEF Steady
<1>3. s \in Slots /\ Owner[s] = t BY <1>1, <1>2 DEF TaskOK
<1>4. TaskAt(task[t]) = p /\ IsItem(heap, p, TaskRoom(task[t])) BY <1>1, TaskItem
<1>5. k \in DOMAIN Pools /\ m \in Busy(heap[k]) /\ p \in Nat /\ p # Null /\ GoodHeap(heap[k], k)
  BY <1>2, <1>4 DEF IsItem, HeapsGood
<1>6. GoodHeap(g, k) /\ Keeps(heap[k], g, m) BY <1>5, FreeItemOK
<1>7. m \in Int /\ m + RT_MEMHEAP_SIZE = p BY <1>5 DEF RT_MEMHEAP_SIZE
<1> HIDE DEF m, g
<1>8. HeapsGood(heap') /\ ItemsStay(heap, heap', p, p)
  BY <1>1, <1>2, <1>5, <1>6, <1>7, OneChanges, ZenonT(60)
<1>9. ItemsStay(heap, heap', SlotAt(slot[s]), TaskAt(task[t])) BY <1>4, <1>8 DEF ItemsStay
<1>10. MayHave(heap, slot[s], task[t], heap', SlotAt(slot[s]), SlotRoom(slot[s]))
  <2> SUFFICES ASSUME SlotAt(slot[s]) # Null PROVE HasItem(heap', SlotAt(slot[s]), SlotRoom(slot[s]))
    BY DEF MayHave
  <2>1. slot[s] # NoRegion BY DEF SlotAt
  <2>2. SlotAt(slot[s]) = slot[s].at /\ IsItem(heap, slot[s].at, slot[s].n) BY <1>3, <2>1, SlotItem
  <2>3. SlotRoom(slot[s]) = slot[s].n BY <2>1 DEF SlotRoom
  <2>4. slot[s].at # p
    <3>1. Place(slot, task)[SlotOf(s)] = slot[s].at /\ Place(slot, task)[TaskOf(t)] = p
      BY <1>3, <1>4, <2>2, Places
    <3>2. SlotOf(s) \in Holder /\ TaskOf(t) \in Holder /\ SlotOf(s) # TaskOf(t) BY <1>3, Holders
    <3> QED BY <1>2, <1>5, <3>1, <3>2 DEF Apart
  <2> QED BY <1>8, <2>2, <2>3, <2>4, Survives
<1>11. TaskAt(Idle) = Null /\ TaskOK(t, Idle, slot, heap') BY IdleIs DEF TaskAt, TaskOK, Active
<1>12. MayHave(heap, slot[s], task[t], heap', TaskAt(Idle), TaskRoom(Idle)) BY <1>11 DEF MayHave
<1>13. task' \in [Threads -> Tasks] /\ task'[t] = Idle /\ \A u \in Threads : u # t => task'[u] = task[u]
  BY <1>1, <1>2, IdleIs
<1> HIDE DEF s, p, k
<1>14. CanStep(t, s, heap, slot, task, heap', slot', task')
  BY <1>1, <1>2, <1>3, <1>8, <1>9, <1>10, <1>11, <1>12, <1>13 DEF CanStep
<1> QED BY <1>14, Stepped

LEMMA RegionsAre == \A r \in Region : r # NoRegion
<1>1. NoRegion \notin [at : Int, n : Int, zero : BOOLEAN] BY HeapAssumption
<1>2. ASSUME NEW r \in Region PROVE r \in [at : Int, n : Int, zero : BOOLEAN] BY DEF Region
<1> QED BY <1>1, <1>2

\* rt_realloc keeps the region where it is.
CanStay(t, hp2) ==
  /\ task[t].s \in Slots /\ Owner[task[t].s] = t /\ slot[task[t].s] # NoRegion /\ TaskAt(task[t]) = Null
  /\ HeapsGood(hp2) /\ ItemsStay(heap, hp2, slot[task[t].s].at, slot[task[t].s].at)
  /\ HasItem(hp2, slot[task[t].s].at, task[t].n)

LEMMA StayedOK ==
  ASSUME PoolsProper, Steady(heap, slot, task), NEW t \in Threads, NEW hp2, CanStay(t, hp2),
         NEW meta, Stayed(t, meta)
  PROVE  Steady(hp2, slot', task')
<1> DEFINE s == task[t].s
           r == [slot[s] EXCEPT !.n = task[t].n]
<1>1. /\ s \in Slots /\ Owner[s] = t /\ slot[s] # NoRegion /\ TaskAt(task[t]) = Null
      /\ HeapsGood(hp2) /\ ItemsStay(heap, hp2, slot[s].at, slot[s].at)
      /\ HasItem(hp2, slot[s].at, task[t].n)
  BY DEF CanStay
<1>2. slot' = [slot EXCEPT ![s] = r] /\ task' = [task EXCEPT ![t] = Idle] BY DEF Stayed
<1>3. slot \in [Slots -> Region \union {NoRegion}] /\ task \in [Threads -> Tasks] BY DEF Steady
<1>4. /\ slot[s] \in Region /\ SlotAt(slot[s]) = slot[s].at /\ IsItem(heap, slot[s].at, slot[s].n)
  BY <1>1, SlotItem
<1>5. task[t].n \in Nat BY <1>3 DEF Tasks
<1>6. r \in Region /\ r.at = slot[s].at /\ r.n = task[t].n BY <1>4, <1>5 DEF Region
<1>7. r # NoRegion BY <1>6, RegionsAre
<1> HIDE DEF r
<1>8. /\ slot' \in [Slots -> Region \union {NoRegion}] /\ slot'[s] = r
      /\ \A q \in Slots : q # s => slot'[q] = slot[q]
  BY <1>1, <1>2, <1>3, <1>6
<1>9. task' \in [Threads -> Tasks] /\ task'[t] = Idle /\ \A u \in Threads : u # t => task'[u] = task[u]
  BY <1>2, <1>3, IdleIs
<1>10. TaskAt(Idle) = Null /\ TaskOK(t, Idle, slot', hp2) BY IdleIs DEF TaskAt, TaskOK, Active
<1>11. SlotAt(r) = slot[s].at /\ SlotRoom(r) = task[t].n BY <1>6, <1>7 DEF SlotAt, SlotRoom
<1>12. MayHave(heap, slot[s], task[t], hp2, SlotAt(r), SlotRoom(r)) BY <1>1, <1>4, <1>11 DEF MayHave
<1>13. MayHave(heap, slot[s], task[t], hp2, TaskAt(Idle), TaskRoom(Idle)) BY <1>10 DEF MayHave
<1>14. ItemsStay(heap, hp2, SlotAt(slot[s]), TaskAt(task[t])) BY <1>1, <1>4 DEF ItemsStay
<1> HIDE DEF s
<1>15. CanStep(t, s, heap, slot, task, hp2, slot', task')
  BY <1>1, <1>8, <1>9, <1>10, <1>12, <1>13, <1>14 DEF CanStep
<1> QED BY <1>15, Stepped

LEMMA ReallocOK ==
  ASSUME PoolsProper, Steady(heap, slot, task), NEW t \in Threads, Realloc(t)
  PROVE  Steady(heap', slot', task')
<1> DEFINE s == task[t].s
           r == slot[s]
           p == r.at
           k == PoolOf(p)
           size == MEMITEM_SIZE(heap[k], Item(t))
           keep == Request(t) <= size /\ Request(t) + RT_MEMHEAP_SIZE + RT_MEMHEAP_MINIALLOC >= size
<1>1. PICK x : x = task[t] OBVIOUS
<1>2. /\ x \in Tasks /\ TaskOK(t, x, slot, heap) /\ HeapsGood(heap) /\ task \in [Threads -> Tasks]
      /\ slot \in [Slots -> Region \union {NoRegion}]
  BY <1>1 DEF Steady
<1>3. x.pc = "realloc" /\ heap' = heap BY <1>1 DEF Realloc, At
<1>4. s \in Slots /\ Owner[s] = t /\ x.s = s /\ x.op = "realloc" BY <1>1, <1>2, <1>3 DEF TaskOK, Active
<1>5. TaskAt(x) = Null /\ TaskRoom(x) = 0 BY <1>3 DEF TaskAt, TaskRoom
<1>6. Request(t) = Ask(x.n) /\ x.n \in Nat /\ Item(t) = p - RT_MEMHEAP_SIZE
  BY <1>1, <1>2 DEF Request, Ask, Item, Tasks
<1>7. CASE r = NoRegion /\ GoTo(t, "malloc") /\ UNCHANGED <<lock, slot, bytes>>
  <2> DEFINE y == [x EXCEPT !.pc = "malloc"]
  <2>1. task' = [task EXCEPT ![t] = y] BY <1>1, <1>2, <1>7 DEF GoTo
  <2>2. y \in Tasks BY <1>2 DEF Tasks, Active
  <2>3. y.pc = "malloc" /\ y.k = x.k /\ y.s = s /\ y.op = "realloc" BY <1>2, <1>4 DEF Tasks
  <2> HIDE DEF y
  <2>4. TaskAt(y) = Null /\ TaskRoom(y) = 0 BY <2>3 DEF TaskAt, TaskRoom
  <2>5. x.k \in DOMAIN Pools BY <1>2, <1>3 DEF TaskOK
  <2>6. TaskOK(t, y, slot, heap) BY <1>4, <1>7, <2>3, <2>5 DEF TaskOK, Active
  <2>7. Steady(heap, slot, [task EXCEPT ![t] = y]) BY <1>1, <1>5, <2>2, <2>4, <2>6, GoesOn
  <2> QED BY <1>3, <1>7, <2>1, <2>7
<1>8. CASE r # NoRegion /\ task[t].n = 0 /\ ReallocIsFree(t)
  <2> DEFINE y == [x EXCEPT !.pc = "free", !.p = p]
  <2>1. task' = [task EXCEPT ![t] = y] /\ slot' = [slot EXCEPT ![s] = NoRegion]
    BY <1>1, <1>2, <1>8 DEF ReallocIsFree
  <2>2. slot[s].at \in Nat BY <1>4, <1>8, SlotItem DEF Region
  <2>3. slot[s].at \in Int BY <2>2
  <2>4. y \in Tasks BY <1>2, <2>3 DEF Tasks, Active
  <2>5. y.pc = "free" /\ y.s = s /\ y.p = slot[s].at BY <1>2, <1>4 DEF Tasks
  <2> HIDE DEF y, s
  <2>6. CanGiveUp(t, s, y) BY <1>4, <1>8, <2>1, <2>4, <2>5 DEF CanGiveUp
  <2>7. Steady(heap, slot', task') BY <2>6, GivesUp
  <2> QED BY <1>3, <2>7
<1>9. ASSUME r # NoRegion
      PROVE  /\ k \in DOMAIN Pools /\ p - RT_MEMHEAP_SIZE \in Busy(heap[k]) /\ size \in Int
             /\ r.n \in Nat /\ r.n <= size /\ r \in Region /\ IsItem(heap, p, r.n)
  <2>1. r \in Region /\ IsItem(heap, p, r.n) BY <1>4, <1>9, SlotItem
  <2> QED BY <1>6, <2>1 DEF IsItem
<1>10. CASE r # NoRegion /\ keep /\ Stayed(t, {})
  <2>1. /\ k \in DOMAIN Pools /\ size \in Int /\ p - RT_MEMHEAP_SIZE \in Busy(heap[k])
        /\ IsItem(heap, p, r.n)
    BY <1>9, <1>10
  <2>2. x.n <= size BY <1>6, <1>10, <2>1, Asked
  <2>3. HasItem(heap, p, x.n) BY <1>6, <2>1, <2>2, ItemHas
  <2>4. ItemsStay(heap, heap, p, p) BY DEF ItemsStay
  <2>5. CanStay(t, heap) BY <1>1, <1>2, <1>4, <1>5, <1>10, <2>3, <2>4 DEF CanStay
  <2>6. Steady(heap, slot', task') BY <1>10, <2>5, StayedOK
  <2> QED BY <1>3, <2>6
<1>11. CASE /\ r # NoRegion /\ ~keep /\ UNCHANGED <<slot, bytes>>
            /\ task' = [task EXCEPT ![t].pc = "realloc locked", ![t].old = size, ![t].k = k]
  <2> DEFINE y == [x EXCEPT !.pc = "realloc locked", !.old = size, !.k = k]
  <2>1. task' = [task EXCEPT ![t] = y] BY <1>1, <1>2, <1>11
  <2>2. /\ k \in DOMAIN Pools /\ size \in Int /\ p - RT_MEMHEAP_SIZE \in Busy(heap[k])
        /\ r.n \in Nat /\ r.n <= size
    BY <1>9, <1>11
  <2>3. k \in Int BY <2>2, HeapNumbers
  <2>4. Ask(x.n) <= size => Ask(x.n) + RT_MEMHEAP_SIZE + RT_MEMHEAP_MINIALLOC < size
    <3>1. PICK a \in Int : a = Ask(x.n) BY <1>6, Asked
    <3>2. PICK z \in Int : z = size BY <2>2
    <3>3. ~(a <= z /\ a + 24 + 12 >= z)
      BY <1>6, <1>11, <3>1, <3>2 DEF RT_MEMHEAP_SIZE, RT_MEMHEAP_MINIALLOC
    <3>4. a <= z => a + 24 + 12 < z BY <3>3
    <3> QED BY <3>1, <3>2, <3>4 DEF RT_MEMHEAP_SIZE, RT_MEMHEAP_MINIALLOC
  <2>5. size = MEMITEM_SIZE(heap[k], p - RT_MEMHEAP_SIZE) BY <1>6
  <2> HIDE DEF size, k
  <2>6. y \in Tasks BY <1>2, <2>2, <2>3 DEF Tasks, Active
  <2>7. /\ y.pc = "realloc locked" /\ y.k = k /\ y.s = s /\ y.op = "realloc" /\ y.old = size
        /\ y.n = x.n
    BY <1>2, <1>4 DEF Tasks
  <2> HIDE DEF y
  <2>8. TaskAt(y) = Null /\ TaskRoom(y) = 0 BY <2>7 DEF TaskAt, TaskRoom
  <2>9. TaskOK(t, y, slot, heap) BY <1>4, <1>11, <2>2, <2>4, <2>5, <2>7 DEF TaskOK, Active
  <2>10. Steady(heap, slot, [task EXCEPT ![t] = y]) BY <1>1, <1>5, <2>6, <2>8, <2>9, GoesOn
  <2> QED BY <1>3, <1>11, <2>1, <2>10
<1> QED BY <1>7, <1>8, <1>10, <1>11 DEF Realloc

LEMMA ReallocLockedOK ==
  ASSUME PoolsProper, Steady(heap, slot, task), NEW t \in Threads, ReallocLocked(t)
  PROVE  Steady(heap', slot', task')
<1> DEFINE s == task[t].s
           k == task[t].k
           p == slot[s].at
           m == p - RT_MEMHEAP_SIZE
           h == heap[k]
           b == h.next[m]
           n == Ask(task[t].n)
           old == task[t].old
<1>1. PICK x : x = task[t] OBVIOUS
<1>2. /\ x \in Tasks /\ TaskOK(t, x, slot, heap) /\ HeapsGood(heap) /\ task \in [Threads -> Tasks]
      /\ slot \in [Slots -> Region \union {NoRegion}]
  BY <1>1 DEF Steady
<1>3. x.pc = "realloc locked" BY <1>1 DEF ReallocLocked, At
<1>4. /\ s \in Slots /\ Owner[s] = t /\ k \in DOMAIN Pools /\ slot[s] # NoRegion /\ m \in Busy(h)
      /\ old = MEMITEM_SIZE(h, m) /\ (n <= old => n + RT_MEMHEAP_SIZE + RT_MEMHEAP_MINIALLOC < old)
      /\ x.op = "realloc" /\ old >= slot[s].n
  BY <1>1, <1>2, <1>3 DEF TaskOK, Active
<1>5. TaskAt(x) = Null /\ TaskRoom(x) = 0 BY <1>3 DEF TaskAt, TaskRoom
<1>6. Request(t) = n /\ task[t].n \in Nat /\ Item(t) = m BY <1>1, <1>2 DEF Request, Ask, Item, Tasks
<1>7. n \in Int /\ n >= task[t].n /\ n >= 12 /\ n % RT_ALIGN_SIZE = 0
  BY <1>6, Asked DEF RT_MEMHEAP_MINIALLOC
<1>8. GoodHeap(h, k) /\ m \in Int /\ PoolOf(m) = k /\ PoolOf(m + RT_MEMHEAP_SIZE) = k /\ h.next[m] \in Int
  BY <1>2, <1>4, BusyFacts DEF HeapsGood
<1>9. slot[s] \in Region /\ p \in Nat /\ m + RT_MEMHEAP_SIZE = p
  <2>1. slot[s] \in Region BY <1>4, SlotItem
  <2>2. p \in Nat BY <2>1 DEF Region
  <2> QED BY <2>1, <2>2 DEF RT_MEMHEAP_SIZE
<1>10. old \in Int BY <1>4, <1>8 DEF MEMITEM_SIZE, RT_MEMHEAP_SIZE
<1>11. Shrinks(t) <=> n < old BY <1>4, <1>6, <1>8 DEF Shrinks
<1>12. ASSUME NEW g, GoodHeap(g, k), Keeps(h, g, m), m \in Busy(g), MEMITEM_SIZE(g, m) = n,
              heap' = Changed(heap, k, g), NEW meta, Stayed(t, meta)
       PROVE  Steady(heap', slot', task')
  <2>1. HeapsGood(heap') /\ heap'[k] = g /\ ItemsStay(heap, heap', m + RT_MEMHEAP_SIZE, m + RT_MEMHEAP_SIZE)
    BY <1>2, <1>4, <1>8, <1>12, OneChanges
  <2>2. ItemsStay(heap, heap', p, p) BY <1>9, <2>1
  <2>3. task[t].n <= MEMITEM_SIZE(heap'[k], p - RT_MEMHEAP_SIZE) BY <1>7, <1>12, <2>1
  <2>4. HasItem(heap', p, task[t].n) BY <1>4, <1>12, <2>1, <2>3 DEF HasItem
  <2> HIDE DEF m, k, h, n
  <2>5. CanStay(t, heap') BY <1>1, <1>4, <1>5, <2>1, <2>2, <2>4 DEF CanStay
  <2> QED BY <1>12, <2>5, StayedOK
<1>13. CASE /\ Shrinks(t) /\ heap' = [heap EXCEPT ![k] = ShrinkItem(@, m, n)] /\ Stayed(t, Headers(heap'))
  <2> DEFINE g == ShrinkItem(h, m, n)
  <2>1. n + RT_MEMHEAP_SIZE <= MEMITEM_SIZE(h, m) /\ n >= 0
    <3>1. PICK a \in Int : a = n BY <1>7
    <3>2. PICK z \in Int : z = old BY <1>10
    <3>3. a < z /\ (a <= z => a + 24 + 12 < z) /\ a >= 12
      BY <1>4, <1>7, <1>11, <1>13, <3>1, <3>2 DEF RT_MEMHEAP_SIZE, RT_MEMHEAP_MINIALLOC
    <3>4. a + 24 <= z /\ a >= 0 BY <3>3
    <3> QED BY <1>4, <3>1, <3>2, <3>4 DEF RT_MEMHEAP_SIZE
  <2>2. GoodHeap(g, k) /\ Keeps(h, g, m) /\ m \in Busy(g) /\ MEMITEM_SIZE(g, m) = n
    BY <1>4, <1>7, <1>8, <2>1, ShrinkItemOK
  <2>3. heap' = Changed(heap, k, g) BY <1>2, <1>4, <1>13 DEF Changed, HeapsGood
  <2> HIDE DEF g
  <2> QED BY <1>12, <1>13, <2>2, <2>3
<1>14. CASE /\ ~Shrinks(t) /\ heap' = [heap EXCEPT ![k] = GrowItem(@, m, n)] /\ Stayed(t, Headers(heap'))
            /\ ~h.used[b] /\ MEMITEM_SIZE(h, b) + old > n + RT_MEMHEAP_MINIALLOC
  <2> DEFINE g == GrowItem(h, m, n)
  <2>1. h.used[b] = FALSE
    <3>1. Ring(h.next, h.prev, h.used, k) /\ m \in DOMAIN h.next BY <1>4, <1>8 DEF GoodHeap, Busy
    <3>2. b \in DOMAIN h.next BY <3>1 DEF Ring
    <3>3. h.used[b] \in BOOLEAN BY <3>1, <3>2 DEF Ring
    <3> QED BY <1>14, <3>3
  <2>2. MEMITEM_SIZE(h, b) + MEMITEM_SIZE(h, m) > n + RT_MEMHEAP_MINIALLOC
    <3>1. MEMITEM_SIZE(h, b) + old > n + RT_MEMHEAP_MINIALLOC BY <1>14
    <3>2. old = MEMITEM_SIZE(h, m) BY <1>4
    <3> QED BY <3>1, <3>2
  <2>3. n \in Int /\ n >= 0 /\ n % RT_ALIGN_SIZE = 0 BY <1>7
  <2>5. CanGrow(h, k, m, n) BY <1>4, <1>8, <2>1, <2>2, <2>3 DEF CanGrow
  <2>6. GoodHeap(g, k) /\ Keeps(h, g, m) /\ m \in Busy(g) /\ MEMITEM_SIZE(g, m) = n
    BY <2>5, GrowItemOK
  <2>4. heap' = Changed(heap, k, g) BY <1>2, <1>4, <1>14 DEF Changed, HeapsGood
  <2> HIDE DEF g
  <2> QED BY <1>12, <1>14, <2>4, <2>6
<1>15. CASE ~Shrinks(t) /\ GoTo(t, "move") /\ UNCHANGED <<heap, slot, bytes>>
  <2> DEFINE y == [x EXCEPT !.pc = "move"]
  <2>1. task' = [task EXCEPT ![t] = y] BY <1>1, <1>2, <1>15 DEF GoTo
  <2>2. y \in Tasks BY <1>2 DEF Tasks, Active
  <2>3. y.pc = "move" /\ y.k = x.k /\ y.s = x.s /\ y.op = x.op /\ y.old = x.old BY <1>2 DEF Tasks
  <2> HIDE DEF y
  <2>4. TaskAt(y) = Null /\ TaskRoom(y) = 0 BY <2>3 DEF TaskAt, TaskRoom
  <2>5. TaskOK(t, y, slot, heap) BY <1>1, <1>4, <2>3 DEF TaskOK, Active
  <2>6. Steady(heap, slot, [task EXCEPT ![t] = y]) BY <1>1, <1>5, <2>2, <2>4, <2>5, GoesOn
  <2> QED BY <1>15, <2>1, <2>6
<1> QED BY <1>6, <1>13, <1>14, <1>15 DEF ReallocLocked

\* rt_realloc has a new region with the contents of the old one, which it now gives back.
LEMMA CopyOK ==
  ASSUME PoolsProper, Steady(heap, slot, task), NEW t \in Threads, Copy(t)
  PROVE  Steady(heap', slot', task')
<1> DEFINE s == task[t].s
           old == slot[s]
           r == [at |-> task[t].p, n |-> task[t].n, zero |-> old.zero]
<1>1. PICK x : x = task[t] OBVIOUS
<1>2. /\ x \in Tasks /\ TaskOK(t, x, slot, heap) /\ HeapsGood(heap) /\ task \in [Threads -> Tasks]
      /\ slot \in [Slots -> Region \union {NoRegion}]
  BY <1>1 DEF Steady
<1> DEFINE y == [x EXCEPT !.pc = "free", !.p = old.at]
<1>3. /\ x.pc = "copy" /\ slot' = [slot EXCEPT ![s] = r] /\ task' = [task EXCEPT ![t] = y]
      /\ UNCHANGED heap
  BY <1>1, <1>2 DEF Copy, At
<1>4. s \in Slots /\ Owner[s] = t /\ x.s = s /\ old # NoRegion BY <1>1, <1>2, <1>3 DEF TaskOK
<1>5. old \in Region /\ IsItem(heap, old.at, old.n) /\ SlotAt(old) = old.at BY <1>4, SlotItem
<1>6. TaskAt(x) = x.p /\ IsItem(heap, x.p, x.n)
  <2>1. TaskRoom(x) = x.n BY <1>3 DEF TaskRoom
  <2> QED BY <1>1, <1>3, <2>1, TaskItem
<1>7. r \in Region /\ r.at = x.p /\ r.n = x.n
  <2>1. x.p \in Nat /\ x.n \in Nat BY <1>6 DEF IsItem
  <2>2. old.zero \in BOOLEAN BY <1>5 DEF Region
  <2> QED BY <1>1, <2>1, <2>2 DEF Region
<1>8. r # NoRegion BY <1>7, RegionsAre
<1>9. old.at \in Nat /\ old.at \in Int BY <1>5, NotNull DEF IsItem
<1>10. y \in Tasks BY <1>2, <1>9 DEF Tasks, Active
<1>11. y.pc = "free" /\ y.p = old.at /\ y.s = s BY <1>2, <1>4 DEF Tasks
<1> HIDE DEF r, y
<1>12. /\ slot' \in [Slots -> Region \union {NoRegion}] /\ slot'[s] = r
       /\ \A q \in Slots : q # s => slot'[q] = slot[q]
  BY <1>2, <1>3, <1>4, <1>7
<1>13. task' \in [Threads -> Tasks] /\ task'[t] = y /\ \A u \in Threads : u # t => task'[u] = task[u]
  BY <1>2, <1>3, <1>10
<1>14. SlotAt(r) = x.p /\ SlotRoom(r) = x.n BY <1>7, <1>8 DEF SlotAt, SlotRoom
<1>15. TaskAt(y) = old.at /\ TaskRoom(y) = 0 BY <1>11 DEF TaskAt, TaskRoom
<1>16. HasItem(heap, x.p, x.n) BY <1>6, ItemHas DEF IsItem
<1>17. HasItem(heap, old.at, 0)
  <2>1. /\ MEMITEM_SIZE(heap[PoolOf(old.at)], old.at - RT_MEMHEAP_SIZE) \in Int /\ old.n \in Nat
        /\ old.n <= MEMITEM_SIZE(heap[PoolOf(old.at)], old.at - RT_MEMHEAP_SIZE)
    BY <1>5 DEF IsItem
  <2>2. 0 \in Nat /\ 0 <= MEMITEM_SIZE(heap[PoolOf(old.at)], old.at - RT_MEMHEAP_SIZE) BY <2>1
  <2> QED BY <1>5, <2>2, ItemHas
<1>18. MayHave(heap, old, x, heap, SlotAt(r), SlotRoom(r)) BY <1>6, <1>14, <1>16 DEF MayHave
<1>19. MayHave(heap, old, x, heap, TaskAt(y), TaskRoom(y)) BY <1>5, <1>15, <1>17 DEF MayHave
<1>20. x.p # old.at
  <2>1. Place(slot, task)[SlotOf(s)] = old.at /\ Place(slot, task)[TaskOf(t)] = x.p
    BY <1>1, <1>4, <1>5, <1>6, Places
  <2>2. SlotOf(s) \in Holder /\ TaskOf(t) \in Holder /\ SlotOf(s) # TaskOf(t) BY <1>4, Holders
  <2>3. Apart(Place(slot, task)) /\ old.at # Null BY <1>5 DEF Steady, IsItem
  <2> QED BY <2>1, <2>2, <2>3 DEF Apart
<1>21. TaskOK(t, y, slot', heap) BY <1>4, <1>9, <1>11 DEF TaskOK, Active
<1>22. ItemsStay(heap, heap, SlotAt(slot[s]), TaskAt(task[t])) BY DEF ItemsStay
<1> HIDE DEF s
<1>23. CanStep(t, s, heap, slot, task, heap, slot', task')
  BY <1>1, <1>2, <1>4, <1>12, <1>13, <1>14, <1>15, <1>18, <1>19, <1>20, <1>21, <1>22 DEF CanStep
<1>24. Steady(heap, slot', task') BY <1>23, Stepped
<1> QED BY <1>3, <1>24

\* rt_memheap_alloc takes an item nobody has.
LEMMA AllocLockedOK ==
  ASSUME PoolsProper, Steady(heap, slot, task), NEW t \in Threads, AllocLocked(t)
  PROVE  Steady(heap', slot', task')
<1> DEFINE s == task[t].s
           k == task[t].k
           h == heap[k]
           n == Ask(task[t].n)
           m == FirstFit(h, n)
           p == m + RT_MEMHEAP_SIZE
           g == UseItem(h, m, n)
<1>1. PICK x : x = task[t] OBVIOUS
<1>2. /\ x \in Tasks /\ TaskOK(t, x, slot, heap) /\ HeapsGood(heap) /\ task \in [Threads -> Tasks]
      /\ slot \in [Slots -> Region \union {NoRegion}]
  BY <1>1 DEF Steady
<1>3. x.pc \in {"malloc locked", "move locked"} BY <1>1 DEF AllocLocked
<1>4. s \in Slots /\ Owner[s] = t /\ x.s = s /\ k \in DOMAIN Pools BY <1>1, <1>2, <1>3 DEF TaskOK
<1>5. TaskAt(x) = Null BY <1>3 DEF TaskAt
<1>6. Request(t) = n /\ x.n \in Nat /\ task[t].n = x.n BY <1>1, <1>2 DEF Request, Ask, Tasks
<1>7. n \in Int /\ n >= x.n /\ n >= RT_MEMHEAP_MINIALLOC /\ n % RT_ALIGN_SIZE = 0 BY <1>6, Asked
<1>8. CASE m = Null
  <2>1. heap' = heap /\ NoMemory(t) BY <1>6, <1>8 DEF AllocLocked
  <2>2. slot' = slot /\ Steady(heap, slot, task')
    <3>1. task[t].pc \in {"malloc", "malloc locked", "move", "move locked"} BY <1>1, <1>3
    <3> QED BY <2>1, <3>1, NoMemoryOK
  <2> QED BY <2>1, <2>2
<1>9. CASE m # Null
  <2>1. heap' = Changed(heap, k, g) /\ Got(t, p, Headers(heap'))
    BY <1>2, <1>4, <1>6, <1>9 DEF AllocLocked, Changed, HeapsGood
  <2>2. GoodHeap(h, k) BY <1>2, <1>4 DEF HeapsGood
  <2>3. m \in DOMAIN h.next /\ h.used[m] = FALSE /\ MEMITEM_SIZE(h, m) >= n
    <3>1. Lists(h.free, {y \in DOMAIN h.next : h.used[y] = FALSE}) BY <2>2 DEF GoodHeap
    <3> QED BY <1>9, <3>1, FirstFitFits, SMTT(40)
  <2> HIDE DEF m
  <2>4. /\ GoodHeap(g, k) /\ Keeps(h, g, m) /\ m \in Busy(g) /\ m \notin Busy(h)
        /\ MEMITEM_SIZE(g, m) >= n
    BY <1>4, <1>7, <2>2, <2>3, UseItemOK
  <2>5. m \in Int BY <2>2, <2>3 DEF GoodHeap, Ring
  <2> HIDE DEF g
  <2>6. HeapsGood(heap') /\ heap'[k] = g /\ ItemsStay(heap, heap', p, p)
    BY <1>2, <1>4, <2>1, <2>4, <2>5, OneChanges
  <2>7. m \in Busy(heap'[k]) /\ p - RT_MEMHEAP_SIZE = m BY <2>4, <2>5, <2>6 DEF RT_MEMHEAP_SIZE
  <2>8. p \in Nat
    <3>1. m >= 0 BY <1>4, <2>6, <2>7, BusyFacts
    <3> QED BY <2>5, <3>1 DEF RT_MEMHEAP_SIZE
  <2>9. New(heap, p)
    <3> SUFFICES ASSUME NEW j \in DOMAIN Pools, m \in Busy(heap[j]) PROVE FALSE BY <2>7 DEF New
    <3>1. j = k BY <1>2, <1>4, <2>3, OneHeap
    <3> QED BY <2>4, <3>1
  <2>10. MEMITEM_SIZE(heap'[k], m) >= x.n
    <3>1. heap'[k].next[m] \in Int BY <1>4, <2>6, <2>7, BusyFacts
    <3>2. MEMITEM_SIZE(heap'[k], m) \in Int BY <2>5, <3>1 DEF MEMITEM_SIZE, RT_MEMHEAP_SIZE
    <3> QED BY <1>6, <1>7, <2>4, <2>6, <3>2
  <2>11. HasItem(heap', p, x.n) BY <1>4, <2>7, <2>10 DEF HasItem
  <2>12. p # Null BY <2>8, NotNull
  <2>13. ItemsStay(heap, heap', SlotAt(slot[s]), TaskAt(x))
    <3> SUFFICES ASSUME NEW j \in DOMAIN Pools, NEW y \in Busy(heap[j])
                 PROVE  y \in Busy(heap'[j]) /\ heap'[j].next[y] = heap[j].next[y]
      BY DEF ItemsStay
    <3>1. y \in Int BY <1>2, BusyFacts
    <3>2. y # m BY <2>7, <2>9 DEF New
    <3>3. y + RT_MEMHEAP_SIZE # p BY <2>5, <3>1, <3>2 DEF RT_MEMHEAP_SIZE
    <3> QED BY <2>6, <3>3 DEF ItemsStay
  <2> DEFINE r == [at |-> p, n |-> task[t].n, zero |-> task[t].op = "calloc"]
  <2>14. CASE /\ task[t].op = "realloc" => slot[s] = NoRegion
              /\ slot' = [slot EXCEPT ![s] = r] /\ task' = [task EXCEPT ![t] = Idle]
    <3>1. r \in Region /\ r.at = p /\ r.n = x.n BY <1>6, <2>8 DEF Region
    <3>2. r # NoRegion BY <3>1, RegionsAre
    <3> HIDE DEF r, p
    <3>3. /\ slot' \in [Slots -> Region \union {NoRegion}] /\ slot'[s] = r
          /\ \A q \in Slots : q # s => slot'[q] = slot[q]
      BY <1>2, <1>4, <2>14, <3>1
    <3>4. task' \in [Threads -> Tasks] /\ task'[t] = Idle /\ \A u \in Threads : u # t => task'[u] = task[u]
      BY <1>2, <2>14, IdleIs
    <3>5. TaskAt(Idle) = Null /\ TaskOK(t, Idle, slot', heap') BY IdleIs DEF TaskAt, TaskOK, Active
    <3>6. SlotAt(r) = p /\ SlotRoom(r) = x.n BY <3>1, <3>2 DEF SlotAt, SlotRoom
    <3>7. MayHave(heap, slot[s], x, heap', SlotAt(r), SlotRoom(r)) BY <2>9, <2>11, <3>6 DEF MayHave
    <3>8. MayHave(heap, slot[s], x, heap', TaskAt(Idle), TaskRoom(Idle)) BY <3>5 DEF MayHave
    <3> HIDE DEF s
    <3>9. CanStep(t, s, heap, slot, task, heap', slot', task')
      BY <1>1, <1>4, <2>6, <2>12, <2>13, <3>3, <3>4, <3>5, <3>6, <3>7, <3>8 DEF CanStep
    <3> QED BY <3>9, Stepped
  <2>15. CASE /\ task[t].op = "realloc" /\ slot[s] # NoRegion /\ slot' = slot
              /\ task' = [task EXCEPT ![t].pc = "copy", ![t].p = p]
    <3> DEFINE y == [x EXCEPT !.pc = "copy", !.p = p]
    <3>1. task' = [task EXCEPT ![t] = y] BY <1>1, <1>2, <2>15
    <3>2. p \in Int BY <2>8
    <3>3. y \in Tasks BY <1>2, <3>2 DEF Tasks, Active
    <3>4. y.pc = "copy" /\ y.p = p /\ y.s = s /\ y.op = x.op /\ y.old = x.old /\ y.n = x.n
      BY <1>2, <1>4 DEF Tasks
    <3> HIDE DEF y, p
    <3>5. task' \in [Threads -> Tasks] /\ task'[t] = y /\ \A u \in Threads : u # t => task'[u] = task[u]
      BY <1>2, <3>1, <3>3
    <3>6. TaskAt(y) = p /\ TaskRoom(y) = x.n BY <3>4 DEF TaskAt, TaskRoom
    <3>7. SlotAt(slot[s]) = slot[s].at /\ IsItem(heap, slot[s].at, slot[s].n) /\ SlotRoom(slot[s]) = slot[s].n
      BY <1>4, <2>15, SlotItem DEF SlotRoom
    <3>8. slot[s].at # p
      <4>1. PoolOf(slot[s].at) \in DOMAIN Pools
            /\ slot[s].at - RT_MEMHEAP_SIZE \in Busy(heap[PoolOf(slot[s].at)])
        BY <3>7 DEF IsItem
      <4> QED BY <2>9, <4>1 DEF New
    <3>9. HasItem(heap', slot[s].at, slot[s].n) BY <2>6, <3>7, <3>8, Survives
    <3>10. MayHave(heap, slot[s], x, heap', SlotAt(slot[s]), SlotRoom(slot[s])) BY <3>7, <3>9 DEF MayHave
    <3>11. MayHave(heap, slot[s], x, heap', TaskAt(y), TaskRoom(y)) BY <2>9, <2>11, <3>6 DEF MayHave
    <3>12. x.op = "realloc" /\ x.old >= slot[s].n
      BY <1>1, <1>2, <1>3, <1>4, <2>15 DEF TaskOK, Active
    <3>13. TaskOK(t, y, slot', heap') BY <1>4, <2>8, <2>15, <3>4, <3>12 DEF TaskOK, Active
    <3> HIDE DEF s
    <3>14. CanStep(t, s, heap, slot, task, heap', slot', task')
      BY <1>1, <1>2, <1>4, <2>6, <2>13, <2>15, <3>5, <3>6, <3>7, <3>8, <3>10, <3>11, <3>13 DEF CanStep
    <3> QED BY <3>14, Stepped
  <2> QED BY <2>1, <2>12, <2>14, <2>15 DEF Got
<1> QED BY <1>8, <1>9

\* rt_memheap_init: one free item and the tail.
LEMMA InitGood ==
  ASSUME PoolsProper, NEW k \in DOMAIN Pools
  PROVE  GoodHeap(rt_memheap_init(Pools[k]), k) /\ Busy(rt_memheap_init(Pools[k])) = {}
<1> DEFINE h == rt_memheap_init(Pools[k])
           a == First(k)
           e == End(k)
<1>1. /\ a \in Int /\ e \in Int /\ a % RT_ALIGN_SIZE = 0 /\ e % RT_ALIGN_SIZE = 0
      /\ a + RT_MEMHEAP_SIZE <= e
  BY PoolBounds
<1>2. Pools[k][1] = a BY DEF First
<1>3. PICK z : z = RT_ALIGN_DOWN(Pools[k][2], RT_ALIGN_SIZE) OBVIOUS
<1>4. z \in Int
  <2>1. PICK i \in Int : i = Pools[k][2] BY DEF PoolsProper
  <2>2. RT_ALIGN_DOWN(i, RT_ALIGN_SIZE) \in Int BY Aligned
  <2> QED BY <1>3, <2>1, <2>2
<1>5. a + (z - 2 * RT_MEMHEAP_SIZE) + RT_MEMHEAP_SIZE = e
  <2>1. e = a + z - RT_MEMHEAP_SIZE BY <1>2, <1>3 DEF First, End
  <2> QED BY <1>1, <1>4, <2>1 DEF RT_MEMHEAP_SIZE
<1>6. /\ DOMAIN h = HeapFields
      /\ h.next = [m \in {a, e} |-> IF m = a THEN e ELSE a]
      /\ h.prev = [m \in {a, e} |-> IF m = a THEN e ELSE a]
      /\ h.used = [m \in {a, e} |-> m = e] /\ h.free = <<a>> /\ h.tail = e
  BY <1>2, <1>3, <1>5 DEF rt_memheap_init, HeapFields
<1> HIDE DEF h
<1>7. a # e /\ a <= e BY <1>1 DEF RT_MEMHEAP_SIZE
<1>8. /\ DOMAIN h.next = {a, e} /\ DOMAIN h.prev = {a, e} /\ DOMAIN h.used = {a, e}
      /\ h.next[a] = e /\ h.next[e] = a /\ h.prev[a] = e /\ h.prev[e] = a
      /\ h.used[a] = FALSE /\ h.used[e] = TRUE
  BY <1>6, <1>7
<1> HIDE DEF a, e
<1>9. Ring(h.next, h.prev, h.used, k)
  <2>1. \A m \in {a, e} : m \in Int /\ m % RT_ALIGN_SIZE = 0 /\ a <= m /\ m <= e BY <1>1, <1>7
  <2>2. \A m \in {a, e} : /\ h.next[m] \in {a, e} /\ h.prev[h.next[m]] = m
                          /\ h.prev[m] \in {a, e} /\ h.next[h.prev[m]] = m
                          /\ h.used[m] \in BOOLEAN
    BY <1>8
  <2>3. \A m \in {a, e} : m # e => /\ h.next[m] >= m + RT_MEMHEAP_SIZE
                                   /\ \A b \in {a, e} : b <= m \/ b >= h.next[m]
    BY <1>1, <1>8
  <2> QED BY <1>8, <2>1, <2>2, <2>3 DEF Ring, a, e
<1>10. Lists(h.free, {m \in DOMAIN h.next : h.used[m] = FALSE})
  <2>1. {m \in DOMAIN h.next : h.used[m] = FALSE} = {a} BY <1>8
  <2>2. PICK q : q = <<a>> OBVIOUS
  <2>3. q \in Seq(Int) /\ Len(q) = 1 /\ q[1] = a /\ DOMAIN q = {1} BY <1>1, <2>2
  <2>4. IsInjective(q) /\ Range(q) = {a} BY <2>3 DEF IsInjective, Range
  <2> QED BY <1>6, <2>1, <2>2, <2>3, <2>4 DEF Lists
<1>11. GoodHeap(h, k) BY <1>6, <1>8, <1>9, <1>10 DEF GoodHeap, e
<1>12. Busy(h) = {} BY <1>6, <1>8 DEF Busy
<1> QED BY <1>11, <1>12 DEF h

LEMMA InitOK == ASSUME PoolsProper, Init PROVE Steady(heap, slot, task) /\ BytesOK
<1>1. heap = rt_system_heap_init /\ task = [t \in Threads |-> Idle] /\ slot = [s \in Slots |-> NoRegion]
  BY DEF Init
<1>2. HeapsGood(heap) BY <1>1, InitGood DEF HeapsGood, rt_system_heap_init
<1>3. \A x \in Holder : Place(slot, task)[x] = Null
  <2>1. TaskAt(Idle) = Null /\ SlotAt(NoRegion) = Null BY IdleIs DEF TaskAt, SlotAt
  <2>2. \A s \in Slots : slot[s] = NoRegion BY <1>1
  <2>3. \A t \in Threads : task[t] = Idle BY <1>1
  <2> QED BY <2>1, <2>2, <2>3, Places, Holders
<1>4. Held(heap, Place(slot, task), Room(slot, task)) /\ Apart(Place(slot, task))
  BY <1>3 DEF Held, Apart
<1>5. \A t \in Threads : TaskOK(t, task[t], slot, heap) BY <1>1, IdleIs DEF TaskOK, Active
<1>6. slot \in [Slots -> Region \union {NoRegion}] /\ task \in [Threads -> Tasks] BY <1>1, IdleIs
<1>7. \A s \in Slots : slot[s] = NoRegion BY <1>1
<1> QED BY <1>2, <1>4, <1>5, <1>6, <1>7 DEF Steady, BytesOK

LEMMA StepsOK ==
  ASSUME PoolsProper, Steady(heap, slot, task), [Next]_vars PROVE Steady(heap', slot', task')
<1>1. CASE UNCHANGED vars BY <1>1 DEF vars
<1>2. CASE Next
  <2>1. PICK t \in Threads : Call(t) \/ Step(t) BY <1>2 DEF Next
  <2>2. CASE Call(t) BY <2>2, CallsOK
  <2>3. CASE Alloc(t) BY <2>3, AllocOK
  <2>4. CASE AllocLocked(t) BY <2>4, AllocLockedOK
  <2>5. CASE Free(t) BY <2>5, FreeOK
  <2>6. CASE FreeLocked(t) BY <2>6, FreeLockedOK
  <2>7. CASE Realloc(t) BY <2>7, ReallocOK
  <2>8. CASE ReallocLocked(t) BY <2>8, ReallocLockedOK
  <2>9. CASE Copy(t) BY <2>9, CopyOK
  <2> QED BY <2>1, <2>2, <2>3, <2>4, <2>5, <2>6, <2>7, <2>8, <2>9 DEF Step
<1> QED BY <1>1, <1>2

\* A good heap is well formed.
LEMMA GoodIsWellFormed ==
  ASSUME PoolsProper, NEW k \in DOMAIN Pools, NEW h, GoodHeap(h, k) PROVE HeapWellFormed(h)
<1>1. /\ h.tail = End(k) /\ Ring(h.next, h.prev, h.used, k)
      /\ \A m \in DOMAIN h.next : m # End(k) => h.used[m] = TRUE \/ h.used[h.next[m]] = TRUE
      /\ Lists(h.free, {m \in DOMAIN h.next : h.used[m] = FALSE})
  BY DEF GoodHeap
<1>2. ASSUME NEW m \in DOMAIN h.next
      PROVE  LET n == h.next[m] IN
             /\ n \in DOMAIN h.next /\ h.prev[n] = m
             /\ m # h.tail => /\ m < n /\ ~\E b \in DOMAIN h.next : m < b /\ b < n
                              /\ h.used[m] \/ h.used[n]
  <2> DEFINE n == h.next[m]
  <2>1. n \in DOMAIN h.next /\ h.prev[n] = m BY <1>1 DEF Ring
  <2>2. ASSUME m # h.tail PROVE m < n /\ ~\E b \in DOMAIN h.next : m < b /\ b < n
    <3>1. n >= m + RT_MEMHEAP_SIZE /\ \A b \in DOMAIN h.next : b <= m \/ b >= n BY <1>1, <2>2 DEF Ring
    <3>2. \A b \in DOMAIN h.next : b \in Int BY <1>1 DEF Ring
    <3>3. m \in Int /\ n \in Int BY <2>1, <3>2
    <3> QED BY <3>1, <3>2, <3>3 DEF RT_MEMHEAP_SIZE
  <2>3. ASSUME m # h.tail PROVE h.used[m] \/ h.used[n] BY <1>1, <2>3
  <2> QED BY <2>1, <2>2, <2>3
<1>3. {m \in DOMAIN h.next : h.used[m] = FALSE} = {m \in DOMAIN h.next : ~h.used[m]}
  <2>1. \A m \in DOMAIN h.next : h.used[m] \in BOOLEAN BY <1>1 DEF Ring
  <2> QED BY <2>1
<1>4. Range(h.free) = {m \in DOMAIN h.next : ~h.used[m]} BY <1>1, <1>3 DEF Lists
<1>5. Len(h.free) = Cardinality(Range(h.free)) BY <1>1, Counted DEF Lists
<1> QED BY <1>2, <1>4, <1>5 DEF HeapWellFormed

\* The heaps stay well formed, whatever the threads call, and however their steps in
\* rt_memheap_alloc, rt_memheap_realloc and rt_memheap_free interleave: the items tile each heap and
\* know their neighbours, no two free ones are adjacent, and the free list holds the free ones, each
\* once.
THEOREM HeapsAreWellFormed == PoolsProper => (Spec => []WellFormed)
<1> SUFFICES ASSUME PoolsProper PROVE Spec => []WellFormed OBVIOUS
<1>1. Init => Steady(heap, slot, task) BY InitOK
<1>2. Steady(heap, slot, task) /\ [Next]_vars => Steady(heap, slot, task)' BY StepsOK
<1>3. Steady(heap, slot, task) => WellFormed
  BY GoodIsWellFormed DEF Steady, HeapsGood, WellFormed
<1> QED BY <1>1, <1>2, <1>3, PTL DEF Spec

-----------------------------------------------------------------------------
(***************************************************************************)
(* The bytes: what a client wrote into its region stays there.             *)
(***************************************************************************)
LEMMA WordsAre ==
  ASSUME NEW a \in Int, NEW n \in Int, NEW w
  PROVE  w \in Words(a, n) <=> w \in Int /\ a <= w /\ w < a + n /\ w % RT_ALIGN_SIZE = 0
BY DEF Words

LEMMA WordsApart ==
  ASSUME NEW a \in Int, NEW n \in Int, NEW b \in Int, NEW i \in Int, a + n <= b \/ b + i <= a
  PROVE  \A w \in Words(a, n) : w \notin Words(b, i)
<1> SUFFICES ASSUME NEW w \in Words(a, n), w \in Words(b, i) PROVE FALSE OBVIOUS
<1>1. w \in Int /\ a <= w /\ w < a + n /\ b <= w /\ w < b + i BY WordsAre
<1> QED BY <1>1

\* What the words W hold in b they hold in c.
Same(b, c, W) == \A w \in W : w \in DOMAIN b => w \in DOMAIN c /\ c[w] = b[w]
\* Region r has the contents that pointer s is to have.
IntactIn(b, s, r) == \A w \in Words(r.at, r.n) : w \in DOMAIN b /\ b[w] = Value(s, r.zero, w - r.at)

LEMMA Forgotten ==
  ASSUME NEW b, NEW ws PROVE \A w \in DOMAIN b : w \notin ws => w \in DOMAIN Forget(b, ws) /\ Forget(b, ws)[w] = b[w]
BY DEF Forget, Restrict

LEMMA SameForget ==
  ASSUME NEW b, NEW ws, NEW W, \A w \in W : w \notin ws PROVE Same(b, Forget(b, ws), W)
BY Forgotten DEF Same

LEMMA Filled ==
  ASSUME NEW b, NEW s, NEW r, NEW from
  PROVE  /\ \A w \in Words(r.at, r.n) : w >= r.at + from =>
              w \in DOMAIN Fill(b, s, r, from) /\ Fill(b, s, r, from)[w] = Value(s, r.zero, w - r.at)
         /\ \A w \in DOMAIN b : w \notin Words(r.at, r.n) \/ ~(w >= r.at + from) =>
              w \in DOMAIN Fill(b, s, r, from) /\ Fill(b, s, r, from)[w] = b[w]
<1> DEFINE new == {w \in Words(r.at, r.n) : w >= r.at + from}
           f == Fill(b, s, r, from)
<1>1. f = [w \in DOMAIN b \union new |-> IF w \in new THEN Value(s, r.zero, w - r.at) ELSE b[w]] BY DEF Fill
<1> HIDE DEF f
<1>2. DOMAIN f = DOMAIN b \union new BY <1>1
<1>3. ASSUME NEW w \in Words(r.at, r.n), w >= r.at + from
      PROVE  w \in DOMAIN f /\ f[w] = Value(s, r.zero, w - r.at)
  BY <1>1, <1>2, <1>3
<1>4. ASSUME NEW w \in DOMAIN b, w \notin Words(r.at, r.n) \/ ~(w >= r.at + from)
      PROVE  w \in DOMAIN f /\ f[w] = b[w]
  BY <1>1, <1>2, <1>4
<1> QED BY <1>3, <1>4 DEF f

LEMMA SameFill ==
  ASSUME NEW b, NEW s, NEW r, NEW from, NEW W, \A w \in W : w \notin Words(r.at, r.n)
  PROVE  Same(b, Fill(b, s, r, from), W)
BY Filled DEF Same

LEMMA Cleared ==
  ASSUME NEW b, NEW at, NEW n
  PROVE  /\ \A w \in Words(at, n) : w \in DOMAIN rt_memset(b, at, n) /\ rt_memset(b, at, n)[w] = 0
         /\ \A w \in DOMAIN b : w \notin Words(at, n) =>
              w \in DOMAIN rt_memset(b, at, n) /\ rt_memset(b, at, n)[w] = b[w]
BY DEF rt_memset

LEMMA Copied ==
  ASSUME NEW b, NEW to, NEW from, NEW n
  PROVE  /\ \A w \in Words(to, n) : w - to + from \in DOMAIN b =>
              w \in DOMAIN rt_memcpy(b, to, from, n) /\ rt_memcpy(b, to, from, n)[w] = b[w - to + from]
         /\ \A w \in DOMAIN b : w \notin Words(to, n) =>
              w \in DOMAIN rt_memcpy(b, to, from, n) /\ rt_memcpy(b, to, from, n)[w] = b[w]
<1> DEFINE moved == {w \in Words(to, n) : w - to + from \in DOMAIN b}
           kept == Forget(b, Words(to, n))
           f == rt_memcpy(b, to, from, n)
<1>1. f = [w \in DOMAIN kept \union moved |-> IF w \in moved THEN b[w - to + from] ELSE kept[w]]
  BY DEF rt_memcpy
<1> HIDE DEF f, kept
<1>2. DOMAIN f = DOMAIN kept \union moved BY <1>1
<1>3. \A w \in DOMAIN b : w \notin Words(to, n) => w \in DOMAIN kept /\ kept[w] = b[w]
  BY Forgotten DEF kept
<1>4. ASSUME NEW w \in Words(to, n), w - to + from \in DOMAIN b
      PROVE  w \in DOMAIN f /\ f[w] = b[w - to + from]
  BY <1>1, <1>2, <1>4
<1>5. ASSUME NEW w \in DOMAIN b, w \notin Words(to, n) PROVE w \in DOMAIN f /\ f[w] = b[w]
  BY <1>1, <1>2, <1>3, <1>5
<1> QED BY <1>4, <1>5 DEF f

\* The words of a region are in no other one, and in no header.
LEMMA SlotsApart ==
  ASSUME PoolsProper, NEW hp, NEW sl, NEW ta, Steady(hp, sl, ta), NEW s \in Slots, sl[s] # NoRegion
  PROVE  /\ \A w \in Words(sl[s].at, sl[s].n) : w \notin Headers(hp)
         /\ \A q \in Slots : q # s /\ sl[q] # NoRegion =>
              /\ sl[s].at + sl[s].n <= sl[q].at \/ sl[q].at + sl[q].n <= sl[s].at
              /\ \A w \in Words(sl[s].at, sl[s].n) : w \notin Words(sl[q].at, sl[q].n)
         /\ \A t \in Threads : ta[t].pc = "copy" =>
              \A w \in Words(sl[s].at, sl[s].n) : w \notin Words(ta[t].p, ta[t].n)
<1> DEFINE place == Place(sl, ta)
           room == Room(sl, ta)
           x == SlotOf(s)
           at == sl[s].at
           n == sl[s].n
<1>1. HeapsGood(hp) /\ Held(hp, place, room) /\ Apart(place) BY DEF Steady
<1>2. \A q \in Slots : sl[q] # NoRegion =>
        /\ SlotOf(q) \in Holder /\ place[SlotOf(q)] = sl[q].at /\ room[SlotOf(q)] = sl[q].n
        /\ sl[q].at \in Int /\ sl[q].at # Null /\ sl[q].n \in Int
  <2> SUFFICES ASSUME NEW q \in Slots, sl[q] # NoRegion
               PROVE  /\ SlotOf(q) \in Holder /\ place[SlotOf(q)] = sl[q].at /\ room[SlotOf(q)] = sl[q].n
                      /\ sl[q].at \in Int /\ sl[q].at # Null /\ sl[q].n \in Int
    OBVIOUS
  <2>1. IsItem(hp, sl[q].at, sl[q].n) /\ SlotAt(sl[q]) = sl[q].at /\ SlotRoom(sl[q]) = sl[q].n
    BY SlotItem DEF SlotRoom
  <2>2. sl[q].at \in Nat /\ sl[q].n \in Nat /\ sl[q].at # Null BY <2>1 DEF IsItem
  <2> QED BY <2>1, <2>2, Holders, Places
<1>3. x \in Holder /\ place[x] = at /\ room[x] = n /\ at \in Int /\ at # Null /\ n \in Int BY <1>2
<1> HIDE DEF place, room, x
<1>4. /\ \A k \in DOMAIN Pools : \A b \in DOMAIN hp[k].next :
           b \in Int /\ (b + RT_MEMHEAP_SIZE <= at \/ at + n <= b)
      /\ \A y \in Holder : y # x /\ place[y] \in Int /\ place[y] # Null /\ room[y] \in Int =>
           at + n <= place[y] \/ place[y] + room[y] <= at
  BY <1>1, <1>3, RegionsApart
<1> HIDE DEF at, n
<1>5. ASSUME NEW w \in Words(at, n), w \in Headers(hp) PROVE FALSE
  <2>1. DOMAIN hp = DOMAIN Pools BY <1>1 DEF HeapsGood
  <2>4. PICK k \in DOMAIN Pools : \E b \in DOMAIN hp[k].next : w \in Words(b, RT_MEMHEAP_SIZE)
    BY <1>5, <2>1 DEF Headers
  <2>2. PICK b \in DOMAIN hp[k].next : w \in Words(b, RT_MEMHEAP_SIZE) BY <2>4
  <2>3. b \in Int /\ (b + RT_MEMHEAP_SIZE <= at \/ at + n <= b) /\ RT_MEMHEAP_SIZE \in Int
    BY <1>4, <2>2 DEF RT_MEMHEAP_SIZE
  <2> QED BY <1>3, <1>5, <2>2, <2>3, WordsApart
<1>6. ASSUME NEW q \in Slots, q # s, sl[q] # NoRegion
      PROVE  /\ at + n <= sl[q].at \/ sl[q].at + sl[q].n <= at
             /\ \A w \in Words(at, n) : w \notin Words(sl[q].at, sl[q].n)
  <2>1. SlotOf(q) # x BY <1>6, Holders DEF x
  <2>2. at + n <= sl[q].at \/ sl[q].at + sl[q].n <= at BY <1>2, <1>4, <1>6, <2>1
  <2>3. sl[q].at \in Int /\ sl[q].n \in Int BY <1>2, <1>6
  <2> QED BY <1>3, <2>2, <2>3, WordsApart
<1>7. ASSUME NEW t \in Threads, ta[t].pc = "copy"
      PROVE  \A w \in Words(at, n) : w \notin Words(ta[t].p, ta[t].n)
  <2>1. TaskAt(ta[t]) = ta[t].p /\ IsItem(hp, ta[t].p, TaskRoom(ta[t])) /\ TaskRoom(ta[t]) = ta[t].n
    BY <1>7, TaskItem DEF TaskRoom
  <2>2. ta[t].p \in Nat /\ ta[t].p # Null /\ ta[t].n \in Nat BY <2>1 DEF IsItem
  <2>3. TaskOf(t) \in Holder /\ TaskOf(t) # x BY Holders DEF x
  <2>4. place[TaskOf(t)] = ta[t].p /\ room[TaskOf(t)] = ta[t].n BY <2>1, Places DEF place, room
  <2>5. ta[t].p \in Int /\ ta[t].n \in Int BY <2>2
  <2>6. at + n <= ta[t].p \/ ta[t].p + ta[t].n <= at BY <1>4, <2>2, <2>3, <2>4, <2>5
  <2> QED BY <1>3, <2>5, <2>6, WordsApart
<1> QED BY <1>5, <1>6, <1>7 DEF at, n

\* A step that touches at most pointer s.
OthersKept(s) ==
  \A q \in Slots : q # s =>
    slot'[q] = slot[q] /\ (slot[q] # NoRegion => Same(bytes, bytes', Words(slot[q].at, slot[q].n)))

LEMMA BytesStep ==
  ASSUME BytesOK, NEW s \in Slots, OthersKept(s),
         slot'[s] # NoRegion => IntactIn(bytes', s, slot'[s])
  PROVE  BytesOK'
<1> SUFFICES ASSUME NEW q \in Slots, slot'[q] # NoRegion PROVE IntactIn(bytes', q, slot'[q])
  BY DEF BytesOK, Intact, IntactIn
<1>1. CASE q = s BY <1>1
<1>2. CASE q # s
  <2>1. slot'[q] = slot[q] /\ Same(bytes, bytes', Words(slot[q].at, slot[q].n)) BY <1>2 DEF OthersKept
  <2>2. Intact(q) BY <2>1 DEF BytesOK
  <2> QED BY <2>1, <2>2 DEF Intact, IntactIn, Same
<1> QED BY <1>1, <1>2

LEMMA BytesStay == ASSUME BytesOK, UNCHANGED <<slot, bytes>> PROVE BytesOK'
BY DEF BytesOK, Intact

\* The manager writes its headers, and nobody's pointer changes.
LEMMA BytesForget ==
  ASSUME PoolsProper, BytesOK, Steady(heap', slot', task'), slot' = slot, NEW ws,
         \A w \in ws : w \in Headers(heap'), bytes' = Forget(bytes, ws)
  PROVE  BytesOK'
<1> SUFFICES ASSUME NEW q \in Slots, slot[q] # NoRegion PROVE IntactIn(bytes', q, slot[q])
  BY DEF BytesOK, Intact, IntactIn
<1>1. \A w \in Words(slot[q].at, slot[q].n) : w \notin ws BY SlotsApart
<1>2. Intact(q) BY DEF BytesOK
<1> QED BY <1>1, <1>2, Forgotten DEF Intact, IntactIn

LEMMA BytesGiveUp ==
  ASSUME PoolsProper, BytesOK, Steady(heap, slot, task), NEW s \in Slots, slot[s] # NoRegion,
         slot' = [slot EXCEPT ![s] = NoRegion], bytes' = Forget(bytes, Words(slot[s].at, slot[s].n))
  PROVE  BytesOK'
<1>1. slot'[s] = NoRegion /\ \A q \in Slots : q # s => slot'[q] = slot[q] BY DEF Steady
<1>2. ASSUME NEW q \in Slots, q # s, slot[q] # NoRegion
      PROVE  Same(bytes, bytes', Words(slot[q].at, slot[q].n))
  <2>1. \A w \in Words(slot[q].at, slot[q].n) : w \notin Words(slot[s].at, slot[s].n)
    BY <1>2, SlotsApart
  <2> QED BY <2>1, SameForget
<1>3. OthersKept(s) BY <1>1, <1>2 DEF OthersKept
<1> QED BY <1>1, <1>3, BytesStep

\* rt_malloc returned an item, and the client wrote its region or rt_calloc cleared it.
LEMMA BytesGot ==
  ASSUME PoolsProper, BytesOK, Steady(heap, slot, task), Steady(heap', slot', task'),
         NEW t \in Threads, task[t].s \in Slots, NEW p \in Nat, Got(t, p, Headers(heap'))
  PROVE  BytesOK'
<1> DEFINE s == task[t].s
           r == [at |-> p, n |-> task[t].n, zero |-> task[t].op = "calloc"]
           b == Forget(bytes, Headers(heap'))
<1>1. p # Null BY NotNull
<1>2. task[t].n \in Nat BY DEF Steady, Tasks
<1>3. CASE bytes' = b /\ UNCHANGED slot BY <1>3, BytesForget
<1>4. CASE /\ bytes' = IF r.zero THEN rt_memset(b, p, r.n) ELSE Fill(b, s, r, 0)
           /\ slot' = [slot EXCEPT ![s] = r]
  <2>1. r \in Region /\ r.at = p /\ r.n = task[t].n BY <1>2 DEF Region
  <2>2. r # NoRegion BY <2>1, RegionsAre
  <2>3. r.zero \in BOOLEAN BY <2>1 DEF Region
  <2> HIDE DEF r
  <2>4. slot'[s] = r /\ \A q \in Slots : q # s => slot'[q] = slot[q] BY <1>4 DEF Steady
  <2> HIDE DEF s
  <2>5. s \in Slots BY DEF s
  <2>6. /\ \A w \in Words(r.at, r.n) : w \in DOMAIN bytes' /\ bytes'[w] = Value(s, r.zero, w - r.at)
        /\ \A w \in DOMAIN b : w \notin Words(r.at, r.n) => w \in DOMAIN bytes' /\ bytes'[w] = b[w]
    <3>1. CASE r.zero
      <4>1. bytes' = rt_memset(b, r.at, r.n) BY <1>4, <2>1, <3>1
      <4>2. \A i : Value(s, r.zero, i) = 0 BY <3>1 DEF Value
      <4> QED BY <4>1, <4>2, Cleared
    <3>2. CASE ~r.zero
      <4>1. bytes' = Fill(b, s, r, 0) BY <1>4, <3>2
      <4>2. \A w \in Words(r.at, r.n) : w >= r.at + 0
        <5>1. r.at \in Int /\ r.n \in Int BY <1>2, <2>1
        <5> QED BY <5>1, WordsAre
      <4> QED BY <4>1, <4>2, Filled
    <3> QED BY <3>1, <3>2
  <2>7. ASSUME NEW q \in Slots, q # s, slot[q] # NoRegion
        PROVE  Same(bytes, bytes', Words(slot[q].at, slot[q].n))
    <3>1. slot'[q] = slot[q] BY <2>4, <2>7
    <3>2. \A w \in Words(slot[q].at, slot[q].n) : w \notin Headers(heap') /\ w \notin Words(r.at, r.n)
      BY <2>2, <2>4, <2>5, <2>7, <3>1, SlotsApart
    <3> QED BY <2>6, <3>2, Forgotten DEF Same
  <2>8. OthersKept(s) BY <2>4, <2>7 DEF OthersKept
  <2>9. IntactIn(bytes', s, slot'[s]) BY <2>4, <2>6 DEF IntactIn
  <2> QED BY <2>5, <2>8, <2>9, BytesStep
<1> QED BY <1>1, <1>3, <1>4 DEF Got

\* rt_realloc kept the region where it is: what fits of the contents is still there.
LEMMA BytesStayed ==
  ASSUME PoolsProper, BytesOK, Steady(heap, slot, task), Steady(heap', slot', task'),
         NEW t \in Threads, task[t].s \in Slots, slot[task[t].s] # NoRegion,
         NEW meta, \A w \in meta : w \in Headers(heap'), Stayed(t, meta)
  PROVE  BytesOK'
<1> DEFINE s == task[t].s
           old == slot[s]
           r == [old EXCEPT !.n = task[t].n]
           cut == {w \in Words(old.at, old.n) : w >= old.at + r.n}
           b == Forget(bytes, meta \union cut)
<1>1. slot' = [slot EXCEPT ![s] = r] /\ bytes' = Fill(b, s, r, old.n) BY DEF Stayed
<1>2. task[t].n \in Nat BY DEF Steady, Tasks
<1>3. old \in Region BY SlotItem
<1>4. old.at \in Int /\ old.n \in Int BY <1>3 DEF Region
<1>5. r \in Region /\ r.at = old.at /\ r.n = task[t].n /\ r.zero = old.zero BY <1>2, <1>3 DEF Region
<1>6. r # NoRegion /\ r.n \in Int BY <1>2, <1>5, RegionsAre
<1> HIDE DEF r
<1>7. slot'[s] = r /\ \A q \in Slots : q # s => slot'[q] = slot[q] BY <1>1 DEF Steady
<1>8. s \in Slots /\ old # NoRegion OBVIOUS
<1>9. Intact(s) BY <1>8 DEF BytesOK
<1>10. \A w \in Words(old.at, old.n) : w \in DOMAIN bytes /\ bytes[w] = Value(s, old.zero, w - old.at)
  BY <1>9 DEF Intact
<1> HIDE DEF s, cut
<1>11. ASSUME NEW q \in Slots, q # s, slot[q] # NoRegion
       PROVE  Same(bytes, bytes', Words(slot[q].at, slot[q].n))
  <2>1. slot'[q] = slot[q] BY <1>7, <1>11
  <2>2. \A w \in Words(slot[q].at, slot[q].n) : w \notin Headers(heap') /\ w \notin Words(r.at, r.n)
    BY <1>6, <1>7, <1>8, <1>11, <2>1, SlotsApart
  <2>3. \A w \in Words(slot[q].at, slot[q].n) : w \notin Words(old.at, old.n)
    BY <1>8, <1>11, SlotsApart
  <2>4. \A w \in Words(slot[q].at, slot[q].n) : w \notin meta \union cut BY <2>2, <2>3 DEF cut
  <2>5. \A w \in Words(slot[q].at, slot[q].n) : w \in DOMAIN bytes => w \in DOMAIN b /\ b[w] = bytes[w]
    BY <2>4, Forgotten
  <2>6. Same(b, bytes', Words(slot[q].at, slot[q].n)) BY <1>1, <2>2, SameFill
  <2> HIDE DEF b
  <2> QED BY <2>5, <2>6 DEF Same
<1>12. OthersKept(s) BY <1>7, <1>11 DEF OthersKept
<1>13. ASSUME NEW w \in Words(r.at, r.n)
       PROVE  w \in DOMAIN bytes' /\ bytes'[w] = Value(s, r.zero, w - r.at)
  <2>1. w \in Int /\ r.at <= w /\ w < r.at + r.n /\ w % RT_ALIGN_SIZE = 0
    BY <1>4, <1>5, <1>6, <1>13, WordsAre
  <2>2. CASE w >= r.at + old.n BY <1>1, <2>2, Filled
  <2>3. CASE ~(w >= r.at + old.n)
    <3>1. w < old.at + old.n BY <1>4, <1>5, <2>1, <2>3
    <3>2. w \in Words(old.at, old.n) BY <1>4, <1>5, <2>1, <3>1, WordsAre
    <3>3. w \notin meta BY <1>6, <1>7, <1>8, SlotsApart
    <3>4. w \notin cut BY <1>4, <1>5, <1>6, <2>1 DEF cut
    <3>5. w \in DOMAIN b /\ b[w] = bytes[w] BY <1>10, <3>2, <3>3, <3>4, Forgotten
    <3>6. w \in DOMAIN bytes' /\ bytes'[w] = b[w] BY <1>1, <2>3, <3>5, Filled
    <3> QED BY <1>5, <1>10, <3>2, <3>5, <3>6
  <2> QED BY <2>2, <2>3
<1>14. IntactIn(bytes', s, slot'[s]) BY <1>7, <1>13 DEF IntactIn
<1> QED BY <1>8, <1>12, <1>14, BytesStep

\* rt_realloc moved the region: what fits of the contents is in the new one.
LEMMA BytesCopied ==
  ASSUME PoolsProper, BytesOK, Steady(heap, slot, task), Steady(heap', slot', task'),
         NEW t \in Threads, Copy(t)
  PROVE  BytesOK'
<1> DEFINE s == task[t].s
           old == slot[s]
           r == [at |-> task[t].p, n |-> task[t].n, zero |-> old.zero]
           l == Lesser(task[t].old, task[t].n)
           moved == rt_memcpy(bytes, r.at, old.at, l)
           b == Forget(moved, Words(old.at, old.n))
<1>1. PICK x : x = task[t] OBVIOUS
<1>2. x \in Tasks /\ TaskOK(t, x, slot, heap) BY <1>1 DEF Steady
<1>3. x.pc = "copy" /\ slot' = [slot EXCEPT ![s] = r] /\ bytes' = Fill(b, s, r, old.n)
  BY <1>1 DEF Copy, At
<1>4. s \in Slots /\ x.s = s /\ old # NoRegion BY <1>1, <1>2, <1>3 DEF TaskOK
<1>5. old \in Region /\ IsItem(heap, old.at, old.n) BY <1>4, SlotItem
<1>6. IsItem(heap, x.p, x.n)
  <2>1. TaskRoom(x) = x.n BY <1>3 DEF TaskRoom
  <2> QED BY <1>1, <1>3, <2>1, TaskItem
<1>7. x.op = "realloc" /\ x.old >= old.n
  <2>1. x.op = "realloc" BY <1>2, <1>3, <1>4 DEF TaskOK, Active
  <2> QED BY <1>2, <1>3, <1>4, <2>1 DEF TaskOK, Active
<1>8. r \in Region /\ r.at = x.p /\ r.n = x.n /\ r.zero = old.zero
  <2>1. x.p \in Nat /\ x.n \in Nat BY <1>6 DEF IsItem
  <2>2. old.zero \in BOOLEAN BY <1>5 DEF Region
  <2> QED BY <1>1, <2>1, <2>2 DEF Region
<1>9. r # NoRegion BY <1>8, RegionsAre
<1> HIDE DEF r
<1>10. slot'[s] = r /\ \A q \in Slots : q # s => slot'[q] = slot[q] BY <1>3, <1>4 DEF Steady
<1>11. Intact(s) BY <1>4 DEF BytesOK
<1>12. \A w \in Words(old.at, old.n) : w \in DOMAIN bytes /\ bytes[w] = Value(s, old.zero, w - old.at)
  BY <1>11 DEF Intact
<1>13. /\ old.at \in Int /\ old.n \in Int /\ old.at % RT_ALIGN_SIZE = 0
       /\ r.at \in Int /\ r.n \in Int /\ r.at % RT_ALIGN_SIZE = 0
  BY <1>5, <1>6, <1>8 DEF IsItem
<1>14. l \in Int /\ l <= r.n /\ \A i \in Int : i < old.n /\ i < r.n => i < l
  <2>1. PICK o \in Int : o = x.old BY <1>2 DEF Tasks
  <2>2. l = IF o < r.n THEN o ELSE r.n BY <1>1, <1>8, <2>1 DEF Lesser
  <2>3. o >= old.n BY <1>7, <2>1
  <2> QED BY <1>13, <2>2, <2>3
<1>15. \A w \in Words(r.at, l) : w \in Words(r.at, r.n)
  <2> SUFFICES ASSUME NEW w \in Words(r.at, l) PROVE w \in Words(r.at, r.n) OBVIOUS
  <2>1. w \in Int /\ r.at <= w /\ w < r.at + l /\ w % RT_ALIGN_SIZE = 0 BY <1>13, <1>14, WordsAre
  <2>2. w < r.at + r.n BY <1>13, <1>14, <2>1
  <2> QED BY <1>13, <2>1, <2>2, WordsAre
<1>16. \A w \in Words(old.at, old.n) : w \notin Words(r.at, r.n)
  BY <1>1, <1>3, <1>4, <1>8, SlotsApart
<1> HIDE DEF s, l
<1>17. ASSUME NEW q \in Slots, q # s, slot[q] # NoRegion
       PROVE  Same(bytes, bytes', Words(slot[q].at, slot[q].n))
  <2>1. slot'[q] = slot[q] BY <1>10, <1>17
  <2>2. \A w \in Words(slot[q].at, slot[q].n) : w \notin Words(r.at, r.n)
    BY <1>4, <1>9, <1>10, <1>17, <2>1, SlotsApart
  <2>3. \A w \in Words(slot[q].at, slot[q].n) : w \notin Words(old.at, old.n)
    BY <1>4, <1>17, SlotsApart
  <2>4. \A w \in Words(slot[q].at, slot[q].n) :
          w \in DOMAIN bytes => w \in DOMAIN moved /\ moved[w] = bytes[w]
    BY <1>15, <2>2, Copied
  <2>5. \A w \in Words(slot[q].at, slot[q].n) : w \in DOMAIN bytes => w \in DOMAIN b /\ b[w] = bytes[w]
    BY <2>3, <2>4, Forgotten
  <2> QED BY <1>3, <2>2, <2>5, Filled DEF Same
<1>18. OthersKept(s) BY <1>10, <1>17 DEF OthersKept
<1>19. ASSUME NEW w \in Words(r.at, r.n)
       PROVE  w \in DOMAIN bytes' /\ bytes'[w] = Value(s, r.zero, w - r.at)
  <2>1. w \in Int /\ r.at <= w /\ w < r.at + r.n /\ w % RT_ALIGN_SIZE = 0 BY <1>13, <1>19, WordsAre
  <2>2. CASE w >= r.at + old.n BY <1>3, <2>2, Filled
  <2>3. CASE ~(w >= r.at + old.n)
    <3>1. PICK v : v = w - r.at + old.at OBVIOUS
    <3>2. v \in Int /\ old.at <= v /\ v < old.at + old.n /\ v - old.at = w - r.at
      BY <1>13, <2>1, <2>3, <3>1
    <3>3. v % RT_ALIGN_SIZE = 0 BY <1>13, <2>1, <3>1 DEF RT_ALIGN_SIZE
    <3>4. v \in Words(old.at, old.n) BY <1>13, <3>2, <3>3, WordsAre
    <3>5. v \in DOMAIN bytes /\ bytes[v] = Value(s, old.zero, w - r.at) BY <1>12, <3>2, <3>4
    <3>6. w - r.at < l BY <1>13, <1>14, <2>1, <2>3
    <3>7. w < r.at + l BY <1>13, <1>14, <2>1, <3>6
    <3>8. w \in Words(r.at, l) BY <1>13, <1>14, <2>1, <3>7, WordsAre
    <3>9. w \in DOMAIN moved /\ moved[w] = bytes[v] BY <3>1, <3>5, <3>8, Copied
    <3>10. w \notin Words(old.at, old.n) BY <1>16, <1>19
    <3>11. w \in DOMAIN b /\ b[w] = moved[w] BY <3>9, <3>10, Forgotten
    <3>12. w \in DOMAIN bytes' /\ bytes'[w] = b[w] BY <1>3, <2>3, <3>11, Filled
    <3> QED BY <1>8, <3>5, <3>9, <3>11, <3>12
  <2> QED BY <2>2, <2>3
<1>20. IntactIn(bytes', s, slot'[s]) BY <1>10, <1>19 DEF IntactIn
<1> QED BY <1>4, <1>18, <1>20, BytesStep

\* rt_memheap_alloc returns the address of an item.
LEMMA FitAt ==
  ASSUME PoolsProper, HeapsGood(heap), NEW k \in DOMAIN Pools, NEW n, FirstFit(heap[k], n) # Null
  PROVE  FirstFit(heap[k], n) + RT_MEMHEAP_SIZE \in Nat
<1>1. GoodHeap(heap[k], k) BY DEF HeapsGood
<1>2. PICK m : m = FirstFit(heap[k], n) OBVIOUS
<1>3. Lists(heap[k].free, {y \in DOMAIN heap[k].next : heap[k].used[y] = FALSE}) BY <1>1 DEF GoodHeap
<1>4. m \in DOMAIN heap[k].next BY <1>2, <1>3, FirstFitFits
<1>5. m \in Int /\ First(k) <= m BY <1>1, <1>4 DEF GoodHeap, Ring
<1>6. First(k) \in Int /\ First(k) >= 0 BY PoolBounds
<1> QED BY <1>2, <1>5, <1>6 DEF RT_MEMHEAP_SIZE

LEMMA BytesNoMemory ==
  ASSUME PoolsProper, BytesOK, Steady(heap', slot', task'), NEW t, NoMemory(t)
  PROVE  BytesOK'
<1>1. CASE UNCHANGED <<slot, bytes>> BY <1>1, BytesStay
<1>2. CASE Got(t, Null, {})
  <2>1. bytes' = Forget(bytes, {}) /\ slot' = slot BY <1>2 DEF Got
  <2> QED BY <2>1, BytesForget
<1> QED BY <1>1, <1>2 DEF NoMemory

LEMMA BytesStepsOK ==
  ASSUME PoolsProper, Steady(heap, slot, task), BytesOK, Steady(heap', slot', task'), [Next]_vars
  PROVE  BytesOK'
<1>1. CASE UNCHANGED vars BY <1>1, BytesStay DEF vars
<1>2. ASSUME NEW t \in Threads, Call(t) PROVE BytesOK'
  <2>1. PICK s \in Slots : \/ \E n \in Nat : \/ \E zero \in BOOLEAN : CallMalloc(t, s, n, zero)
                                             \/ CallRealloc(t, s, n)
                           \/ CallFree(t, s)
    BY <1>2 DEF Call
  <2>2. CASE CallFree(t, s)
    <3>1. /\ slot[s] # NoRegion /\ slot' = [slot EXCEPT ![s] = NoRegion]
          /\ bytes' = Forget(bytes, Words(slot[s].at, slot[s].n))
      BY <2>2 DEF CallFree
    <3> QED BY <3>1, BytesGiveUp
  <2>3. ASSUME NEW n \in Nat, NEW zero \in BOOLEAN, CallMalloc(t, s, n, zero) PROVE BytesOK'
    BY <2>3, BytesStay DEF CallMalloc
  <2>4. ASSUME NEW n \in Nat, CallRealloc(t, s, n) PROVE BytesOK' BY <2>4, BytesStay DEF CallRealloc
  <2> QED BY <2>1, <2>2, <2>3, <2>4
<1>3. ASSUME NEW t \in Threads, Alloc(t) PROVE BytesOK'
  <2>1. NoMemory(t) \/ UNCHANGED <<slot, bytes>> BY <1>3 DEF Alloc
  <2> QED BY <2>1, BytesNoMemory, BytesStay
<1>4. ASSUME NEW t \in Threads, AllocLocked(t) PROVE BytesOK'
  <2> DEFINE k == task[t].k
             m == FirstFit(heap[k], Request(t))
  <2>1. task[t].pc \in {"malloc locked", "move locked"} BY <1>4 DEF AllocLocked
  <2>2. TaskOK(t, task[t], slot, heap) /\ HeapsGood(heap) BY DEF Steady
  <2>3. k \in DOMAIN Pools /\ task[t].s \in Slots BY <2>1, <2>2 DEF TaskOK
  <2>4. CASE m = Null
    <3>1. NoMemory(t) BY <1>4, <2>4 DEF AllocLocked
    <3> QED BY <3>1, BytesNoMemory
  <2>5. CASE m # Null
    <3>1. Got(t, m + RT_MEMHEAP_SIZE, Headers(heap')) BY <1>4, <2>5 DEF AllocLocked
    <3>2. m + RT_MEMHEAP_SIZE \in Nat BY <2>2, <2>3, <2>5, FitAt
    <3> HIDE DEF m
    <3> QED BY <2>3, <3>1, <3>2, BytesGot
  <2> QED BY <2>4, <2>5
<1>5. ASSUME NEW t \in Threads, Free(t) PROVE BytesOK' BY <1>5, BytesStay DEF Free
<1>6. ASSUME NEW t \in Threads, FreeLocked(t) PROVE BytesOK'
  <2>1. bytes' = Forget(bytes, Headers(heap')) /\ slot' = slot BY <1>6 DEF FreeLocked, Freed
  <2> QED BY <2>1, BytesForget
<1>7. ASSUME NEW t \in Threads, Realloc(t) PROVE BytesOK'
  <2> DEFINE s == task[t].s
  <2>1. task[t].pc = "realloc" BY <1>7 DEF Realloc, At
  <2>2. s \in Slots
    <3>1. TaskOK(t, task[t], slot, heap) BY DEF Steady
    <3> QED BY <2>1, <3>1 DEF TaskOK
  <2>3. \/ UNCHANGED <<slot, bytes>>
        \/ slot[s] # NoRegion /\ ReallocIsFree(t)
        \/ slot[s] # NoRegion /\ Stayed(t, {})
    BY <1>7 DEF Realloc
  <2>4. CASE UNCHANGED <<slot, bytes>> BY <2>4, BytesStay
  <2>5. CASE slot[s] # NoRegion /\ ReallocIsFree(t)
    <3>1. /\ slot' = [slot EXCEPT ![s] = NoRegion]
          /\ bytes' = Forget(bytes, Words(slot[s].at, slot[s].n))
      BY <2>5 DEF ReallocIsFree
    <3> QED BY <2>2, <2>5, <3>1, BytesGiveUp
  <2>6. CASE slot[s] # NoRegion /\ Stayed(t, {}) BY <2>2, <2>6, BytesStayed
  <2> QED BY <2>3, <2>4, <2>5, <2>6
<1>8. ASSUME NEW t \in Threads, ReallocLocked(t) PROVE BytesOK'
  <2>1. task[t].pc = "realloc locked" BY <1>8 DEF ReallocLocked, At
  <2>2. task[t].s \in Slots /\ slot[task[t].s] # NoRegion
    <3>1. TaskOK(t, task[t], slot, heap) BY DEF Steady
    <3> QED BY <2>1, <3>1 DEF TaskOK
  <2>3. Stayed(t, Headers(heap')) \/ UNCHANGED <<slot, bytes>> BY <1>8 DEF ReallocLocked
  <2> QED BY <2>2, <2>3, BytesStayed, BytesStay
<1>9. ASSUME NEW t \in Threads, Copy(t) PROVE BytesOK' BY <1>9, BytesCopied
<1> QED BY <1>1, <1>2, <1>3, <1>4, <1>5, <1>6, <1>7, <1>8, <1>9 DEF Next, Step

LEMMA Invariant == PoolsProper => (Spec => []HeapInv)
<1> SUFFICES ASSUME PoolsProper PROVE Spec => []HeapInv OBVIOUS
<1>1. Init => HeapInv BY InitOK DEF HeapInv
<1>2. HeapInv /\ [Next]_vars => HeapInv'
  <2> SUFFICES ASSUME HeapInv, [Next]_vars PROVE HeapInv' OBVIOUS
  <2>1. Steady(heap, slot, task) /\ BytesOK BY DEF HeapInv
  <2>2. Steady(heap', slot', task') BY <2>1, StepsOK
  <2>3. BytesOK' BY <2>1, <2>2, BytesStepsOK
  <2> QED BY <2>2, <2>3 DEF HeapInv
<1> QED BY <1>1, <1>2, PTL DEF Spec

-----------------------------------------------------------------------------
(***************************************************************************)
(* The allocator that the clients see.                                     *)
(***************************************************************************)
\* No step changes the pointers of two slots.
OneSlot == \E s : \A q \in Slots : q # s => slot'[q] = slot[q]

LEMMA StepsTouchOne == ASSUME Steady(heap, slot, task), [Next]_vars PROVE OneSlot
<1>0. slot \in [Slots -> Region \union {NoRegion}] BY DEF Steady
<1>1. ASSUME slot' = slot PROVE OneSlot BY <1>1 DEF OneSlot
<1>2. ASSUME NEW s, NEW r, slot' = [slot EXCEPT ![s] = r] PROVE OneSlot BY <1>0, <1>2 DEF OneSlot
<1>3. ASSUME NEW t, NEW p, NEW meta, Got(t, p, meta) PROVE OneSlot
  <2>1. slot' = slot \/ \E r : slot' = [slot EXCEPT ![task[t].s] = r] BY <1>3 DEF Got
  <2> QED BY <1>1, <1>2, <2>1
<1>4. ASSUME NEW t, NoMemory(t) PROVE OneSlot BY <1>1, <1>3, <1>4 DEF NoMemory
<1>5. ASSUME NEW t, NEW meta, Stayed(t, meta) PROVE OneSlot BY <1>2, <1>5 DEF Stayed
<1>6. ASSUME NEW t \in Threads, Call(t) PROVE OneSlot
  <2>1. slot' = slot \/ \E s \in Slots : slot' = [slot EXCEPT ![s] = NoRegion]
    BY <1>6 DEF Call, CallMalloc, CallRealloc, CallFree
  <2> QED BY <1>1, <1>2, <2>1
<1>7. ASSUME NEW t \in Threads, Alloc(t) PROVE OneSlot BY <1>1, <1>4, <1>7 DEF Alloc
<1>8. ASSUME NEW t \in Threads, AllocLocked(t) PROVE OneSlot
  <2>1. NoMemory(t) \/ \E p, meta : Got(t, p, meta) BY <1>8 DEF AllocLocked
  <2> QED BY <1>3, <1>4, <2>1
<1>9. ASSUME NEW t \in Threads, Free(t) \/ FreeLocked(t) PROVE OneSlot
  BY <1>1, <1>9 DEF Free, FreeLocked, Freed
<1>10. ASSUME NEW t \in Threads, Realloc(t) PROVE OneSlot
  <2>1. slot' = slot \/ ReallocIsFree(t) \/ Stayed(t, {}) BY <1>10 DEF Realloc
  <2>2. ReallocIsFree(t) => slot' = slot \/ slot' = [slot EXCEPT ![task[t].s] = NoRegion]
    BY DEF ReallocIsFree
  <2> QED BY <1>1, <1>2, <1>5, <2>1, <2>2
<1>11. ASSUME NEW t \in Threads, ReallocLocked(t) PROVE OneSlot
  BY <1>1, <1>5, <1>11 DEF ReallocLocked
<1>12. ASSUME NEW t \in Threads, Copy(t) PROVE OneSlot
  <2>1. \E r : slot' = [slot EXCEPT ![task[t].s] = r] BY <1>12 DEF Copy
  <2> QED BY <1>2, <2>1
<1> QED BY <1>1, <1>6, <1>7, <1>8, <1>9, <1>10, <1>11, <1>12 DEF Next, Step, vars

LEMMA RegionStep ==
  ASSUME PoolsProper, HeapInv, HeapInv', OneSlot
  PROVE  [A!Next]_[s \in Slots |-> IF slot[s] = NoRegion THEN NoRegion
                                   ELSE [at |-> slot[s].at, n |-> slot[s].n, intact |-> Intact(s)]]
<1> DEFINE R == [s \in Slots |-> IF slot[s] = NoRegion THEN NoRegion
                                 ELSE [at |-> slot[s].at, n |-> slot[s].n, intact |-> Intact(s)]]
           View(r) == IF r = NoRegion THEN NoRegion ELSE [at |-> r.at, n |-> r.n, intact |-> TRUE]
<1>1. PICK s : \A q \in Slots : q # s => slot'[q] = slot[q] BY DEF OneSlot
<1>2. \A q \in Slots : R[q] = View(slot[q])
  <2>1. \A q \in Slots : slot[q] # NoRegion => Intact(q) = TRUE BY DEF HeapInv, BytesOK
  <2> QED BY <2>1
<1>3. \A q \in Slots : R'[q] = View(slot'[q])
  <2>1. \A q \in Slots : slot'[q] # NoRegion => Intact(q)' = TRUE BY DEF HeapInv, BytesOK
  <2> QED BY <2>1
<1>4. R' = [q \in Slots |-> View(slot'[q])] /\ R = [q \in Slots |-> View(slot[q])] BY <1>2, <1>3
<1>5. Steady(heap', slot', task') BY DEF HeapInv
<1>6. \A r \in Region : View(r) # NoRegion /\ View(r).at = r.at /\ View(r).n = r.n /\ View(r).intact = TRUE
  <2> SUFFICES ASSUME NEW r \in Region
               PROVE  View(r) # NoRegion /\ View(r).at = r.at /\ View(r).n = r.n /\ View(r).intact = TRUE
    OBVIOUS
  <2>1. View(r) = [at |-> r.at, n |-> r.n, intact |-> TRUE] BY RegionsAre
  <2>2. r.at \in Int /\ r.n \in Int BY DEF Region
  <2> HIDE DEF View
  <2>3. TRUE \in BOOLEAN OBVIOUS
  <2>4. [at |-> r.at, n |-> r.n, intact |-> TRUE] \in [at : Int, n : Int, intact : BOOLEAN]
    BY ONLY <2>2, <2>3
  <2>5. View(r) # NoRegion BY <2>1, <2>4, HeapAssumption
  <2>6. View(r).at = r.at /\ View(r).n = r.n /\ View(r).intact = TRUE BY ONLY <2>1
  <2> QED BY <2>5, <2>6
<1>7. View(NoRegion) = NoRegion OBVIOUS
<1>8. slot \in [Slots -> Region \union {NoRegion}] /\ slot' \in [Slots -> Region \union {NoRegion}]
  BY <1>5 DEF HeapInv, Steady
<1> HIDE DEF View, R
<1>9. CASE s \notin Slots
  <2>1. R' = R BY <1>1, <1>4, <1>9
  <2> QED BY <2>1 DEF R
<1>10. CASE s \in Slots
  <2>1. R' = [R EXCEPT ![s] = R'[s]] BY <1>1, <1>4, <1>10
  <2>2. ASSUME slot'[s] # NoRegion
        PROVE  /\ R'[s] # NoRegion /\ R'[s].intact
               /\ \A q \in Slots \ {s} : \/ R[q] = NoRegion
                                         \/ R'[s].at + R'[s].n <= R[q].at \/ R[q].at + R[q].n <= R'[s].at
    <3>1. slot'[s] \in Region /\ R'[s] = View(slot'[s]) BY <1>3, <1>8, <1>10, <2>2
    <3>2. ASSUME NEW q \in Slots, q # s, R[q] # NoRegion
          PROVE  R'[s].at + R'[s].n <= R[q].at \/ R[q].at + R[q].n <= R'[s].at
      <4>1. slot'[q] = slot[q] /\ slot[q] \in Region /\ R[q] = View(slot[q])
        BY <1>1, <1>2, <1>7, <1>8, <3>2
      <4>2. slot'[q] # NoRegion BY <4>1, RegionsAre
      <4>3. \/ slot'[s].at + slot'[s].n <= slot'[q].at
            \/ slot'[q].at + slot'[q].n <= slot'[s].at
        BY <1>5, <1>10, <2>2, <3>2, <4>2, SlotsApart
      <4> QED BY <1>6, <3>1, <4>1, <4>3
    <3> QED BY <1>6, <3>1, <3>2
  <2>3. (R[s] = NoRegion <=> slot[s] = NoRegion) /\ (R'[s] = NoRegion <=> slot'[s] = NoRegion)
    BY <1>2, <1>3, <1>6, <1>7, <1>8, <1>10
  <2>4. CASE slot[s] = NoRegion /\ slot'[s] = NoRegion
    <3>1. R' = R BY <1>1, <1>4, <1>10, <2>4
    <3> QED BY <3>1 DEF R
  <2>5. CASE slot[s] # NoRegion \/ slot'[s] # NoRegion
    <3>1. A!Next
      <4>1. CASE slot'[s] = NoRegion
        <5>1. A!Free(s) BY <2>3, <2>5, <4>1 DEF A!Free, R
        <5> QED BY <1>10, <2>1, <5>1 DEF A!Next, R
      <4>2. CASE slot'[s] # NoRegion
        <5>1. A!Given(s, R'[s]) BY <2>2, <4>2 DEF A!Given, R
        <5>2. A!Alloc(s) \/ A!Resize(s) BY <2>3, <4>2, <5>1 DEF A!Alloc, A!Resize, R
        <5> QED BY <1>10, <2>1, <5>2 DEF A!Next, R
      <4> QED BY <4>1, <4>2
    <3> QED BY <3>1
  <2> QED BY <2>4, <2>5
<1> QED BY <1>9, <1>10

\* For all heaps, threads, pointers and sizes, what the clients see is the allocator they were
\* promised: the regions that rt_malloc, rt_calloc and rt_realloc hand out never overlap, only their
\* owners' calls change them, and each has the contents its owner left in it, through the moves of
\* rt_realloc and whatever the manager writes.
THEOREM HeapsAreAnAllocator == PoolsProper => (Spec => AllocatorSpec)
<1> SUFFICES ASSUME PoolsProper PROVE Spec => AllocatorSpec OBVIOUS
<1>1. Init => A!Init
  <2> SUFFICES ASSUME Init PROVE A!Init OBVIOUS
  <2>1. \A s \in Slots : slot[s] = NoRegion BY DEF Init
  <2> QED BY <2>1 DEF A!Init
<1>2. HeapInv /\ HeapInv' /\ [Next]_vars
        => [A!Next]_[s \in Slots |-> IF slot[s] = NoRegion THEN NoRegion
                                     ELSE [at |-> slot[s].at, n |-> slot[s].n, intact |-> Intact(s)]]
  BY RegionStep, StepsTouchOne DEF HeapInv
<1> QED BY <1>1, <1>2, Invariant, PTL DEF Spec, AllocatorSpec, A!Spec
=============================================================================
