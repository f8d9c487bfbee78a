-------------------------------- MODULE Heap --------------------------------
(***************************************************************************)
(* The clients of a memory manager: threads that call rt_malloc,           *)
(* rt_calloc, rt_realloc and rt_free, and the memory they write.  The      *)
(* three managers of the kernel (modules Mem, MemHeap and Slab; rtconfig   *)
(* selects one) extend this module with the steps of the calls.            *)
(*                                                                         *)
(* Memory is seen word by word: "bytes" holds the value of every word      *)
(* whose value somebody relies on.  A client writes a value of its own     *)
(* into each word it is given; the manager's headers overwrite what they   *)
(* are written over; rt_memcpy moves values and rt_memset clears them.  A  *)
(* region that is handed out twice, or too short, or not copied in full,   *)
(* therefore shows in the values.                                          *)
(***************************************************************************)
EXTENDS Integers, FiniteSets, Functions

CONSTANTS Threads,   \* the threads that allocate
          Owner,     \* [slot -> thread]: each slot is one pointer variable of a thread
          NoThread,
          NoRegion

Slots == DOMAIN Owner

ASSUME HeapAssumption ==
  /\ \A s \in Slots : Owner[s] \in Threads
  /\ NoRegion \notin [at : Int, n : Int, zero : BOOLEAN] \union [at : Int, n : Int, intact : BOOLEAN]

VARIABLES heap,   \* the manager's data
          lock,   \* which thread holds heap_sem (of each heap, in MemHeap)
          task,   \* per thread: the call it is in and where it is in it
          slot,   \* per pointer variable: the region its owner was given
          bytes   \* [word address -> value], of the words with a known value

Null == -1
RT_ALIGN_SIZE == 4
RT_ALIGN(n, a) == ((n + a - 1) \div a) * a
RT_ALIGN_DOWN(n, a) == (n \div a) * a
Lesser(a, b) == IF a < b THEN a ELSE b
Greater(a, b) == IF a < b THEN b ELSE a

Idle == [op |-> "none", pc |-> "none", s |-> 0, n |-> 0, m |-> 0, p |-> Null, old |-> 0, k |-> 0]

Words(at, n) == {w \in at..(at + n - 1) : w % RT_ALIGN_SIZE = 0}
\* what the owner of slot s keeps in the word at distance i (zero, if it asked for zeroes)
Value(s, zero, i) == IF zero THEN 0 ELSE 1000 * s + i + 1
Forget(b, ws) == Restrict(b, DOMAIN b \ ws)
Fill(b, s, r, from) ==
  LET new == {w \in Words(r.at, r.n) : w >= r.at + from}
  IN  [w \in DOMAIN b \union new |-> IF w \in new THEN Value(s, r.zero, w - r.at) ELSE b[w]]
rt_memset(b, at, n) == [w \in DOMAIN b \union Words(at, n) |-> IF w \in Words(at, n) THEN 0 ELSE b[w]]
rt_memcpy(b, to, from, n) ==
  LET moved == {w \in Words(to, n) : w - to + from \in DOMAIN b}
      kept == Forget(b, Words(to, n))
  IN  [w \in DOMAIN kept \union moved |-> IF w \in moved THEN b[w - to + from] ELSE kept[w]]

Intact(s) == \A w \in Words(slot[s].at, slot[s].n) :
               w \in DOMAIN bytes /\ bytes[w] = Value(s, slot[s].zero, w - slot[s].at)

-----------------------------------------------------------------------------
At(t, pc) == task[t].pc = pc
GoTo(t, pc) == task' = [task EXCEPT ![t].pc = pc]

\* A thread calls the manager with one of its pointers.
CallMalloc(t, s, n, zero) ==
  /\ At(t, "none") /\ Owner[s] = t /\ slot[s] = NoRegion
  /\ task' = [task EXCEPT ![t] = [Idle EXCEPT !.op = IF zero THEN "calloc" ELSE "malloc",
                                             !.pc = "malloc", !.s = s, !.n = n, !.m = n]]
  /\ UNCHANGED <<heap, lock, slot, bytes>>
CallRealloc(t, s, n) ==
  /\ At(t, "none") /\ Owner[s] = t
  /\ task' = [task EXCEPT ![t] = [Idle EXCEPT !.op = "realloc", !.pc = "realloc",
                                             !.s = s, !.n = n, !.m = n]]
  /\ UNCHANGED <<heap, lock, slot, bytes>>
CallFree(t, s) ==
  /\ At(t, "none") /\ Owner[s] = t /\ slot[s] # NoRegion
  /\ task' = [task EXCEPT ![t] = [Idle EXCEPT !.op = "free", !.pc = "free", !.s = s, !.p = slot[s].at]]
  /\ slot' = [slot EXCEPT ![s] = NoRegion]
  /\ bytes' = Forget(bytes, Words(slot[s].at, slot[s].n))
  /\ UNCHANGED <<heap, lock>>

\* rt_malloc returned p (with "meta" the words the manager has written): to the client, which
\* writes to its region; to rt_calloc, which clears it; or to rt_realloc, which copies into it.
Got(t, p, meta) ==
  LET s == task[t].s
      r == [at |-> p, n |-> task[t].n, zero |-> task[t].op = "calloc"]
      b == Forget(bytes, meta)
  IN  \/ /\ p = Null
         /\ bytes' = b /\ task' = [task EXCEPT ![t] = Idle] /\ UNCHANGED slot
      \/ /\ p # Null /\ (task[t].op = "realloc" => slot[s] = NoRegion)
         /\ bytes' = IF r.zero THEN rt_memset(b, p, r.n) ELSE Fill(b, s, r, 0)
         /\ slot' = [slot EXCEPT ![s] = r]
         /\ task' = [task EXCEPT ![t] = Idle]
      \/ /\ p # Null /\ task[t].op = "realloc" /\ slot[s] # NoRegion
         /\ bytes' = b
         /\ task' = [task EXCEPT ![t].pc = "copy", ![t].p = p]
         /\ UNCHANGED slot

\* rt_realloc moves the contents: rt_memcpy, then rt_free of the old region, which from now on
\* is no longer the client's.
Copy(t) ==
  LET s == task[t].s
      old == slot[s]
      r == [at |-> task[t].p, n |-> task[t].n, zero |-> old.zero]
      moved == rt_memcpy(bytes, r.at, old.at, Lesser(task[t].old, task[t].n))
  IN  /\ At(t, "copy")
      /\ slot' = [slot EXCEPT ![s] = r]
      /\ bytes' = Fill(Forget(moved, Words(old.at, old.n)), s, r, old.n)
      /\ task' = [task EXCEPT ![t].pc = "free", ![t].p = old.at]
      /\ UNCHANGED <<heap, lock>>

\* rt_realloc returned the pointer it was given: the region now has task[t].n bytes.
Stayed(t, meta) ==
  LET s == task[t].s
      r == [slot[s] EXCEPT !.n = task[t].n]
      b == Forget(bytes, meta \union {w \in Words(slot[s].at, slot[s].n) : w >= slot[s].at + r.n})
  IN  /\ slot' = [slot EXCEPT ![s] = r]
      /\ bytes' = Fill(b, s, r, slot[s].n)
      /\ task' = [task EXCEPT ![t] = Idle]

\* rt_realloc to no bytes is rt_free, and without a pointer it is rt_malloc.
ReallocIsFree(t) ==
  LET s == task[t].s IN
  \/ /\ slot[s] = NoRegion
     /\ task' = [task EXCEPT ![t] = Idle] /\ UNCHANGED <<slot, bytes>>
  \/ /\ slot[s] # NoRegion
     /\ task' = [task EXCEPT ![t].pc = "free", ![t].p = slot[s].at]
     /\ slot' = [slot EXCEPT ![s] = NoRegion]
     /\ bytes' = Forget(bytes, Words(slot[s].at, slot[s].n))

Freed(t, meta) == /\ task' = [task EXCEPT ![t] = Idle]
                  /\ bytes' = Forget(bytes, meta)
                  /\ UNCHANGED slot

\* rt_sem_take(.., RT_WAITING_FOREVER) and rt_sem_release on the lock of heap k
Taken(t, k) == lock[k] = NoThread /\ lock' = [lock EXCEPT ![k] = t]
Released(k) == lock' = [lock EXCEPT ![k] = NoThread]

-----------------------------------------------------------------------------
\* What the clients see is the abstract module Allocator: regions that are handed out never
\* overlap, are as long as was asked, and keep their contents through every rt_realloc.
A == INSTANCE Allocator WITH
       region <- [s \in Slots |-> IF slot[s] = NoRegion THEN NoRegion
                                  ELSE [at |-> slot[s].at, n |-> slot[s].n, intact |-> Intact(s)]]
AllocatorSpec == A!Spec
=============================================================================
