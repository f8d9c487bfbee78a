------------------------------ MODULE Objects -------------------------------
(***************************************************************************)
(* Kernel objects (object.c): threads register objects in the list of      *)
(* their class and take them out, while the shell lists a class (cmd.c).   *)
(* The lister copies a few nodes at a time with interrupts disabled, looks *)
(* at each with interrupts enabled in between, and goes on from the last   *)
(* node it copied.  Both tell a registered object by its type alone.       *)
(***************************************************************************)
EXTENDS Integers, Sequences, SequencesExt

CONSTANTS Things,             \* the objects
          Heap,               \* those of them that are allocated, and freed when they are deleted
          Classes,            \* the classes whose objects come and go
          LIST_FIND_OBJ_NR    \* the nodes that the lister copies at a time

Null == "Null"                \* RT_Object_Class_Null, the type of no class
Nobody == "nobody"            \* RT_NULL
AllClasses == {"Thread", "Semaphore", "Event", "Mutex", "MailBox", "MessageQueue", "MemHeap", "MemPool", "Device", "Timer"}
ASSUME ObjectsAssumption == LIST_FIND_OBJ_NR \in Nat \ {0} /\ Classes \subseteq AllClasses /\ Nobody \notin Things

VARIABLES type,           \* of each object
          stage,          \* "out" of its list, "entering", "in", "leaving", or "freed"
          object_list,    \* of each class
          lister          \* the listing: its class, the node to go on from, the copied nodes, what was shown
objVars == <<type, stage, object_list, lister>>

NoLister == [class |-> Null, current |-> Nobody, array |-> <<>>, shown |-> {}, twice |-> FALSE,
             steady |-> {}, missed |-> {}, adrift |-> FALSE]
ObjectsInit ==
  /\ type = [o \in Things |-> Null]
  /\ stage = [o \in Things |-> IF o \in Heap THEN "freed" ELSE "out"]
  /\ object_list = [c \in AllClasses |-> <<>>]
  /\ lister = NoLister

Position(q, node) == CHOOSE i \in 1..Len(q) : q[i] = node
Unlink(q, node) == IF node \in ToSet(q) THEN RemoveAt(q, Position(q, node)) ELSE q

-----------------------------------------------------------------------------
\* rt_object_init and rt_object_allocate give the object its type, and then insert it.
SetType(o, from, c) ==
  /\ stage[o] = from
  /\ type' = [type EXCEPT ![o] = c]
  /\ stage' = [stage EXCEPT ![o] = "entering"]
  /\ UNCHANGED <<object_list, lister>>
rt_object_init(o, c) == o \notin Heap /\ SetType(o, "out", c)
rt_object_allocate(o, c) == o \in Heap /\ SetType(o, "freed", c)
InsertObject(o) ==
  /\ stage[o] = "entering"
  /\ object_list' = [object_list EXCEPT ![type[o]] = <<o>> \o @]
  /\ stage' = [stage EXCEPT ![o] = "in"]
  /\ UNCHANGED <<type, lister>>

\* rt_object_detach and rt_object_delete take the type away, and then the object out of its list;
\* the latter frees it.
rt_object_detach(o) ==
  /\ stage[o] = "in"
  /\ type' = [type EXCEPT ![o] = Null]
  /\ stage' = [stage EXCEPT ![o] = "leaving"]
  /\ lister' = [lister EXCEPT !.steady = @ \ {o}, !.adrift = @ \/ o = lister.current]
  /\ UNCHANGED object_list
RemoveObject(o) ==
  /\ stage[o] = "leaving"
  /\ object_list' = [c \in AllClasses |-> Unlink(object_list[c], o)]
  /\ stage' = [stage EXCEPT ![o] = IF o \in Heap THEN "freed" ELSE "out"]
  /\ UNCHANGED <<type, lister>>

-----------------------------------------------------------------------------
\* The nodes that follow a node, or the head, in the list.  The node of an object that is
\* outside of its list points to itself.
After(c, node) ==
  IF node = Nobody THEN object_list[c]
  ELSE IF node \in ToSet(object_list[c])
       THEN SubSeq(object_list[c], Position(object_list[c], node), Len(object_list[c]))
  ELSE [i \in 1..(LIST_FIND_OBJ_NR + 1) |-> node]
FirstOf(nodes) == [array |-> SubSeq(nodes, 1, IF Len(nodes) < LIST_FIND_OBJ_NR THEN Len(nodes) ELSE LIST_FIND_OBJ_NR),
                   more |-> Len(nodes) >= LIST_FIND_OBJ_NR]
\* MUTANT: it does not skip the node it stopped at
list_from_current(c, node) == FirstOf(After(c, node))
list_get_next(c, node) == FirstOf(IF node = Nobody THEN After(c, node) ELSE Tail(After(c, node)))

Ended(l) == [NoLister EXCEPT !.missed = l.steady \ l.shown, !.twice = l.twice]
Copy(l) ==
  LET got == list_get_next(l.class, l.current)
      next == IF got.more THEN Last(got.array) ELSE Nobody
  IN  IF got.array = <<>> \/ (l.current # Nobody /\ type[l.current] # l.class) THEN Ended(l)
      ELSE [l EXCEPT !.array = got.array, !.current = next, !.adrift = next # Nobody /\ stage[next] # "in"]

\* A command of the shell begins a listing: list_find_init, and the first list_get_next.
Listing(c) ==
  /\ lister.class = Null
  /\ lister' = Copy([NoLister EXCEPT !.class = c, !.steady = ToSet(object_list[c]) \intersect {o \in Things : stage[o] = "in"}])
  /\ UNCHANGED <<type, stage, object_list>>
list_thread == Listing("Thread")
list_sem == Listing("Semaphore")
list_event == Listing("Event")
list_mutex == Listing("Mutex")
list_mailbox == Listing("MailBox")
list_msgqueue == Listing("MessageQueue")
list_memheap == Listing("MemHeap")
list_mempool == Listing("MemPool")
list_timer == Listing("Timer")
list_device == Listing("Device")

\* It looks at the next node it copied.
ShowObject ==
  /\ lister.class # Null /\ lister.array # <<>>
  /\ LET o == Head(lister.array)
         shows == type[o] = lister.class
         seen == [lister EXCEPT !.array = Tail(@),
                    !.shown = IF shows THEN @ \union {o} ELSE @,
                    !.twice = shows /\ o \in lister.shown,
                    !.adrift = stage[o] = "freed"]
     IN  lister' = IF seen.array = <<>> /\ lister.current = Nobody THEN Ended(seen) ELSE seen
  /\ UNCHANGED <<type, stage, object_list>>
\* It copies the nodes after the last one.
NextObjects ==
  /\ lister.class # Null /\ lister.array = <<>>
  /\ lister' = Copy(lister)
  /\ UNCHANGED <<type, stage, object_list>>

\* (Once the listing is adrift, or has shown an object twice, it is not followed further.)
ObjectsNext == ~lister.adrift /\ ~lister.twice /\ (
  \/ \E o \in Things : \/ \E c \in Classes : rt_object_init(o, c) \/ rt_object_allocate(o, c)
                       \/ InsertObject(o) \/ rt_object_detach(o) \/ RemoveObject(o)
  \/ list_thread \/ list_sem \/ list_event \/ list_mutex \/ list_mailbox \/ list_msgqueue
  \/ list_memheap \/ list_mempool \/ list_timer \/ list_device
  \/ ShowObject \/ NextObjects)
ObjectsSpec == ObjectsInit /\ [][ObjectsNext]_objVars

\* A listing shows every object that was registered all the while, and none twice, whatever
\* else comes and goes meanwhile, unless the node where it paused left the list (the listing
\* then ends early, begins again or repeats that node) or a node it copied was freed.
ListingComplete == ~lister.adrift => ~lister.twice /\ lister.missed = {}
=============================================================================
