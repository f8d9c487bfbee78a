------------------------------ MODULE ListProofs ------------------------------
(***************************************************************************)
(* Where threads are: in one list at most, as their state says, with a     *)
(* timer only while they are suspended; and the thread that runs is the    *)
(* first of the highest priority that is ready, or about to ask the        *)
(* scheduler.  This holds of all programs whose threads are orderly, see   *)
(* Kernel, and call the scheduler where its functions ask them to.         *)
(***************************************************************************)
EXTENDS KernelProofs

\* The lists in which thread t waits.
Waiting(s, t) == {o \in WaitList : t \in Range(s.waiting[o])}

\* The lists are lists of threads without duplicates.
Listed(s) ==
  /\ DOMAIN s = Fields
  /\ s.ready \in [Priority -> Seq(Thread)] /\ s.waiting \in [WaitList -> Seq(Thread)]
  /\ s.priority \in [Thread -> Priority] /\ s.stat \in [Thread -> State]
  /\ \A p \in Priority : NoDuplicates(s.ready[p])
  /\ \A o \in WaitList : NoDuplicates(s.waiting[o])

\* From s to u, thread x stays where it is.
Same(s, u, x) ==
  /\ u.stat[x] = s.stat[x] /\ Waiting(u, x) = Waiting(s, x)
  /\ Out(u, x) <=> Out(s, x)
  /\ x \in u.activated <=> x \in s.activated

\* From s to u, the threads that move are among W.
Moves(s, u, W) == Listed(u) /\ \A x \in Thread \ W : Same(s, u, x)

\* Thread t is in no list of waiting threads, and its timer does not run.
InNoList(s, t) == Waiting(s, t) = {} /\ t \notin s.activated

-----------------------------------------------------------------------------
(***************************************************************************)
(* What the functions of the kernel do to the place of a thread.           *)
(***************************************************************************)
LEMMA MovesInTurn ==
  ASSUME NEW s, NEW u, NEW v, NEW W, NEW X, Moves(s, u, W), Moves(u, v, X) PROVE Moves(s, v, W \cup X)
BY DEF Moves, Same

LEMMA NobodyMoves ==
  ASSUME NEW s, Listed(s), NEW u, NEW F, Changes(s, u, F),
         F \cap {"ready", "waiting", "stat", "priority", "activated"} = {}
  PROVE  Moves(s, u, {}) /\ \A x : Same(s, u, x)
<1>1. /\ DOMAIN u = Fields /\ u.ready = s.ready /\ u.waiting = s.waiting /\ u.stat = s.stat
      /\ u.priority = s.priority /\ u.activated = s.activated
  BY DEF Changes, Fields
<1> QED BY <1>1 DEF Moves, Same, Listed, Waiting, Out

LEMMA WithoutLists ==
  ASSUME NEW lists \in [WaitList -> Seq(Thread)], \A o \in WaitList : NoDuplicates(lists[o]), NEW t
  PROVE  LET r == Without(lists, t) IN
         /\ r \in [WaitList -> Seq(Thread)]
         /\ \A o \in WaitList : NoDuplicates(r[o]) /\ Range(r[o]) = Range(lists[o]) \ {t}
<1> SUFFICES ASSUME NEW o \in WaitList
             PROVE  LET r == RemoveFirst(lists[o], t) IN NoDuplicates(r) /\ Range(r) = Range(lists[o]) \ {t}
  BY WithoutTyped DEF Without
<1>1. lists[o] \in Seq(Thread) /\ NoDuplicates(lists[o]) OBVIOUS
<1> QED BY <1>1, RemoveFirstProperties

LEMMA UnlinkMoves ==
  ASSUME NEW s, Listed(s), NEW t
  PROVE  LET u == Unlink(s, t) IN
         /\ Moves(s, u, {t}) /\ Out(u, t) /\ Waiting(u, t) = {}
         /\ Changes(s, u, {"ready", "waiting"})
<1> DEFINE u == Unlink(s, t)
<1>0. DOMAIN s = Fields BY DEF Listed
<1>1. /\ Changes(s, u, {"ready", "waiting"}) /\ u.waiting = Without(s.waiting, t)
      /\ u.ready = [p \in Priority |-> RemoveFirst(s.ready[p], t)]
  <2>1. u.ready = [p \in Priority |-> RemoveFirst(s.ready[p], t)] BY <1>0 DEF Unlink, Fields
  <2> HIDE DEF u
  <2>2. Changes(s, u, {"ready", "waiting"}) /\ u.waiting = Without(s.waiting, t)
    BY <1>0, UnlinkEffect DEF u
  <2> QED BY <2>1, <2>2
<1> HIDE DEF u
<1>2. /\ u.waiting \in [WaitList -> Seq(Thread)]
      /\ \A o \in WaitList : NoDuplicates(u.waiting[o]) /\ Range(u.waiting[o]) = Range(s.waiting[o]) \ {t}
  <2>1. s.waiting \in [WaitList -> Seq(Thread)] /\ \A o \in WaitList : NoDuplicates(s.waiting[o])
    BY DEF Listed
  <2>2. LET r == Without(s.waiting, t) IN
         /\ r \in [WaitList -> Seq(Thread)]
         /\ \A o \in WaitList : NoDuplicates(r[o]) /\ Range(r[o]) = Range(s.waiting[o]) \ {t}
    BY ONLY <2>1, WithoutLists
  <2> QED BY <1>1, <2>2
<1>3. \A p \in Priority : /\ u.ready[p] \in Seq(Thread) /\ NoDuplicates(u.ready[p])
                          /\ Range(u.ready[p]) = Range(s.ready[p]) \ {t}
  <2> SUFFICES ASSUME NEW p \in Priority
               PROVE  /\ u.ready[p] \in Seq(Thread) /\ NoDuplicates(u.ready[p])
                      /\ Range(u.ready[p]) = Range(s.ready[p]) \ {t}
    OBVIOUS
  <2>1. s.ready[p] \in Seq(Thread) /\ NoDuplicates(s.ready[p]) BY DEF Listed
  <2>2. u.ready[p] = RemoveFirst(s.ready[p], t) BY <1>1
  <2> QED BY <2>1, <2>2, RemoveFirstProperties
<1>4. DOMAIN u = Fields /\ u.stat = s.stat /\ u.priority = s.priority /\ u.activated = s.activated
  BY <1>1 DEF Changes, Fields
<1>7. u.ready \in [Priority -> Seq(Thread)] BY <1>1, <1>3
<1>5. Out(u, t) /\ Waiting(u, t) = {} BY <1>2, <1>3 DEF Out, Waiting
<1>6. \A x \in Thread \ {t} : Same(s, u, x) BY <1>2, <1>3, <1>4 DEF Same, Out, Waiting
<1> QED BY <1>1, <1>2, <1>3, <1>4, <1>5, <1>6, <1>7 DEF Moves, Listed, u

\* Removed from its queue, with or without the bit of its priority.
LEMMA RemoveMoves ==
  ASSUME NEW s, Listed(s), NEW t
  PROVE  LET u == rt_schedule_remove_thread(s, t) IN
         /\ Moves(s, u, {t}) /\ Out(u, t) /\ Waiting(u, t) = {}
         /\ u.stat = s.stat /\ u.activated = s.activated
<1> DEFINE a == Unlink(s, t)
           u == rt_schedule_remove_thread(s, t)
<1>1. /\ Moves(s, a, {t}) /\ Out(a, t) /\ Waiting(a, t) = {} /\ Changes(s, a, {"ready", "waiting"})
  BY UnlinkMoves
<1>2. u = IF a.ready[a.priority[t]] = <<>> THEN [a EXCEPT !.group = @ \ {a.priority[t]}] ELSE a
  BY DEF rt_schedule_remove_thread
<1> HIDE DEF a, u
<1>3. Changes(a, u, {"group"}) BY <1>1, <1>2 DEF Changes, Fields
<1>4. Listed(a) BY <1>1 DEF Moves
<1>5. Moves(a, u, {}) /\ Same(a, u, t) BY <1>3, <1>4, NobodyMoves
<1>6. Moves(s, u, {t}) BY <1>1, <1>5 DEF Moves, Same
<1>7. u.stat = s.stat /\ u.activated = s.activated BY <1>1, <1>3 DEF Changes, Fields
<1> QED BY <1>1, <1>5, <1>6, <1>7 DEF Same, u

LEMMA InsertMoves ==
  ASSUME NEW s, Listed(s), NEW t \in Thread, Out(s, t)
  PROVE  LET u == rt_schedule_insert_thread(s, t) IN
         /\ Moves(s, u, {t}) /\ ~Out(u, t) /\ u.stat = [s.stat EXCEPT ![t] = "ready"]
         /\ Waiting(u, t) = Waiting(s, t) /\ u.activated = s.activated
<1> DEFINE u == rt_schedule_insert_thread(s, t)
           p0 == s.priority[t]
<1>1. /\ DOMAIN u = Fields /\ u.waiting = s.waiting /\ u.priority = s.priority /\ u.activated = s.activated
      /\ u.stat = [s.stat EXCEPT ![t] = "ready"]
      /\ u.ready = [s.ready EXCEPT ![p0] = Append(@, t)]
  BY DEF rt_schedule_insert_thread, Listed, Fields
<1> HIDE DEF u
<1>2. p0 \in Priority BY DEF Listed
<1>3. LET r == Append(s.ready[p0], t) IN
      r \in Seq(Thread) /\ NoDuplicates(r) /\ Range(r) = Range(s.ready[p0]) \cup {t}
  <2>1. s.ready[p0] \in Seq(Thread) /\ NoDuplicates(s.ready[p0]) /\ t \notin Range(s.ready[p0])
    BY <1>2 DEF Listed, Out
  <2> QED BY <2>1, Appended
<1>4. /\ u.ready[p0] = Append(s.ready[p0], t)
      /\ \A p \in Priority : p # p0 => u.ready[p] = s.ready[p]
  BY <1>1, <1>2 DEF Listed
<1>5. u.ready \in [Priority -> Seq(Thread)] BY <1>1, <1>3 DEF Listed
<1>6. \A p \in Priority : NoDuplicates(u.ready[p]) BY <1>3, <1>4 DEF Listed
<1>7. ~Out(u, t) BY <1>2, <1>3, <1>4 DEF Out
<1>8. \A x \in Thread \ {t} : Out(u, x) <=> Out(s, x) BY <1>3, <1>4 DEF Out
<1>9. Waiting(u, t) = Waiting(s, t) /\ \A x \in Thread \ {t} : Waiting(u, x) = Waiting(s, x)
  BY <1>1 DEF Waiting
<1>10. "ready" \in State BY DEF State
<1>11. Listed(u) BY <1>1, <1>5, <1>6, <1>10 DEF Listed
<1>12. \A x \in Thread \ {t} : u.stat[x] = s.stat[x] BY <1>1 DEF Listed
<1>13. Moves(s, u, {t}) BY <1>1, <1>8, <1>9, <1>11, <1>12 DEF Moves, Same
<1> QED BY <1>1, <1>7, <1>9, <1>13 DEF u

LEMMA TimerMoves ==
  ASSUME NEW s, Listed(s), NEW x
  PROVE  /\ \A u \in {rt_timer_detach(s, x), rt_timer_stop(s, x)} :
              Moves(s, u, {x}) /\ u.stat = s.stat /\ x \notin u.activated
              /\ (Out(u, x) <=> Out(s, x)) /\ Waiting(u, x) = Waiting(s, x)
         /\ \A ticks : LET u == rt_timer_start(s, x, ticks) IN
              Moves(s, u, {x}) /\ u.stat = s.stat
              /\ (Out(u, x) <=> Out(s, x)) /\ Waiting(u, x) = Waiting(s, x)
<1>0. DOMAIN s = Fields BY DEF Listed
<1>1. ASSUME NEW u, Changes(s, u, TimerParts), u.activated \in {s.activated \ {x}, s.activated \cup {x}}
      PROVE  /\ Moves(s, u, {x}) /\ u.stat = s.stat
             /\ (Out(u, x) <=> Out(s, x)) /\ Waiting(u, x) = Waiting(s, x)
  <2>1. /\ DOMAIN u = Fields /\ u.ready = s.ready /\ u.waiting = s.waiting /\ u.stat = s.stat
        /\ u.priority = s.priority
    BY <1>1 DEF Changes, Fields, TimerParts
  <2>2. \A y : (Out(u, y) <=> Out(s, y)) /\ Waiting(u, y) = Waiting(s, y) BY <2>1 DEF Out, Waiting
  <2>3. Listed(u) BY <2>1 DEF Listed
  <2> QED BY <1>1, <2>1, <2>2, <2>3 DEF Moves, Same
<1>2. \A u \in {rt_timer_detach(s, x), rt_timer_stop(s, x)} :
        Changes(s, u, TimerParts) /\ u.activated = s.activated \ {x}
  BY <1>0, DetachEffect
<1>3. ASSUME NEW ticks PROVE LET u == rt_timer_start(s, x, ticks) IN
                             Changes(s, u, TimerParts) /\ u.activated = s.activated \cup {x}
  BY <1>0, StartEffect
<1>4. ASSUME NEW u \in {rt_timer_detach(s, x), rt_timer_stop(s, x)}
      PROVE  Moves(s, u, {x}) /\ u.stat = s.stat /\ x \notin u.activated
              /\ (Out(u, x) <=> Out(s, x)) /\ Waiting(u, x) = Waiting(s, x)
  <2>1. Changes(s, u, TimerParts) /\ u.activated = s.activated \ {x} BY <1>2
  <2> QED BY <1>1, <2>1
<1>5. ASSUME NEW ticks
      PROVE  LET u == rt_timer_start(s, x, ticks) IN
             Moves(s, u, {x}) /\ u.stat = s.stat
             /\ (Out(u, x) <=> Out(s, x)) /\ Waiting(u, x) = Waiting(s, x)
  <2> DEFINE u == rt_timer_start(s, x, ticks)
  <2>1. Changes(s, u, TimerParts) /\ u.activated = s.activated \cup {x} BY <1>3
  <2> HIDE DEF u
  <2>2. Moves(s, u, {x}) /\ u.stat = s.stat
             /\ (Out(u, x) <=> Out(s, x)) /\ Waiting(u, x) = Waiting(s, x)
    BY <1>1, <2>1
  <2> QED BY <2>2 DEF u
<1> QED BY <1>4, <1>5

\* Thread t gets another state, or threads get another priority.
LEMMA StateMoves ==
  ASSUME NEW s, Listed(s), NEW t \in Thread, NEW u, Changes(s, u, {"stat"}), u.stat \in [Thread -> State],
         \A y \in Thread \ {t} : u.stat[y] = s.stat[y]
  PROVE  /\ Moves(s, u, {t}) /\ u.activated = s.activated
         /\ (Out(u, t) <=> Out(s, t)) /\ Waiting(u, t) = Waiting(s, t)
<1>1. /\ DOMAIN u = Fields /\ u.ready = s.ready /\ u.waiting = s.waiting
      /\ u.priority = s.priority /\ u.activated = s.activated
  BY DEF Changes, Fields
<1>2. \A y : (Out(u, y) <=> Out(s, y)) /\ Waiting(u, y) = Waiting(s, y) BY <1>1 DEF Out, Waiting
<1>3. Listed(u) BY <1>1 DEF Listed
<1> QED BY <1>1, <1>2, <1>3 DEF Moves, Same

LEMMA PriorityMoves ==
  ASSUME NEW s, Listed(s), NEW u, Changes(s, u, {"priority"}), u.priority \in [Thread -> Priority]
  PROVE  Moves(s, u, {}) /\ u.stat = s.stat /\ u.activated = s.activated /\ \A y : Same(s, u, y)
<1>1. /\ DOMAIN u = Fields /\ u.ready = s.ready /\ u.waiting = s.waiting
      /\ u.stat = s.stat /\ u.activated = s.activated
  BY DEF Changes, Fields
<1>2. \A y : (Out(u, y) <=> Out(s, y)) /\ Waiting(u, y) = Waiting(s, y) BY <1>1 DEF Out, Waiting
<1>3. Listed(u) BY <1>1 DEF Listed
<1> QED BY <1>1, <1>2, <1>3 DEF Moves, Same

LEMMA SuspendMoves ==
  ASSUME NEW s, Listed(s), NEW t \in Thread
  PROVE  LET u == SuspendReady(s, t) IN
         Moves(s, u, {t}) /\ Out(u, t) /\ InNoList(u, t) /\ u.stat = [s.stat EXCEPT ![t] = "suspend"]
<1> DEFINE a == rt_schedule_remove_thread(s, t)
           b == [a EXCEPT !.stat[t] = "suspend"]
           u == rt_timer_stop(b, t)
<1>1. SuspendReady(s, t) = u BY DEF SuspendReady
<1>2. Moves(s, a, {t}) /\ Out(a, t) /\ Waiting(a, t) = {} /\ a.stat = s.stat BY RemoveMoves
<1> HIDE DEF a
<1>6. Listed(a) BY <1>2 DEF Moves
<1>7. Changes(a, b, {"stat"}) /\ b.stat = [s.stat EXCEPT ![t] = "suspend"]
  BY <1>2, <1>6 DEF Listed, Changes, Fields
<1> HIDE DEF b
<1>8. b.stat \in [Thread -> State] /\ \A y \in Thread \ {t} : b.stat[y] = a.stat[y]
  BY <1>2, <1>6, <1>7 DEF Listed, State
<1>3. Moves(a, b, {t}) /\ (Out(b, t) <=> Out(a, t)) /\ Waiting(b, t) = Waiting(a, t)
  BY <1>6, <1>7, <1>8, StateMoves
<1>4. Moves(b, u, {t}) /\ u.stat = b.stat /\ t \notin u.activated /\ Out(u, t) /\ Waiting(u, t) = {}
  BY <1>2, <1>3, TimerMoves DEF Moves
<1> HIDE DEF u
<1>5. Moves(s, u, {t}) BY <1>2, <1>3, <1>4 DEF Moves, Same
<1> QED BY <1>1, <1>4, <1>5, <1>7 DEF InNoList

LEMMA UnlinkTimerMoves ==
  ASSUME NEW s, Listed(s), NEW t \in Thread
  PROVE  LET u == ResumeUnlink(s, t) IN
         Moves(s, u, {t}) /\ Out(u, t) /\ InNoList(u, t) /\ u.stat = s.stat
<1> DEFINE a == Unlink(s, t)
           u == ResumeUnlink(s, t)
<1>1. Moves(s, a, {t}) /\ Out(a, t) /\ Waiting(a, t) = {} /\ Changes(s, a, {"ready", "waiting"})
  BY UnlinkMoves
<1>2. u = rt_timer_stop(a, t) BY DEF ResumeUnlink
<1> HIDE DEF a, u
<1>5. a.stat = s.stat BY <1>1 DEF Changes, Fields
<1>3. Moves(a, u, {t}) /\ u.stat = a.stat /\ t \notin u.activated /\ Out(u, t) /\ Waiting(u, t) = {}
  BY <1>1, <1>2, TimerMoves DEF Moves
<1>4. Moves(s, u, {t}) BY <1>1, <1>3 DEF Moves, Same
<1> QED BY <1>3, <1>4, <1>5 DEF InNoList, u

\* A suspended thread is resumed.
LEMMA ResumeMoves ==
  ASSUME NEW s, Listed(s), NEW t \in Thread, s.stat[t] = "suspend"
  PROVE  LET u == rt_thread_resume(s, t) IN
         Moves(s, u, {t}) /\ ~Out(u, t) /\ InNoList(u, t) /\ u.stat = [s.stat EXCEPT ![t] = "ready"]
<1> DEFINE a == ResumeUnlink(s, t)
           u == rt_schedule_insert_thread(a, t)
<1>1. rt_thread_resume(s, t) = u BY DEF rt_thread_resume
<1>2. Moves(s, a, {t}) /\ Out(a, t) /\ InNoList(a, t) /\ a.stat = s.stat BY UnlinkTimerMoves
<1> HIDE DEF a
<1>3. /\ Moves(a, u, {t}) /\ ~Out(u, t) /\ u.stat = [a.stat EXCEPT ![t] = "ready"]
      /\ Waiting(u, t) = Waiting(a, t) /\ u.activated = a.activated
  BY <1>2, InsertMoves DEF Moves
<1> HIDE DEF u
<1>4. Moves(s, u, {t}) BY <1>2, <1>3 DEF Moves, Same
<1> QED BY <1>1, <1>2, <1>3, <1>4 DEF InNoList

\* The timer of a suspended thread has been taken from the list and its timeout function runs.
LEMMA TimeoutMoves ==
  ASSUME NEW s, Listed(s), NEW t \in Thread
  PROVE  LET u == rt_thread_timeout(s, t) IN
         /\ Moves(s, u, {t}) /\ ~Out(u, t) /\ Waiting(u, t) = {} /\ u.stat = [s.stat EXCEPT ![t] = "ready"]
         /\ u.activated = s.activated
<1> DEFINE a == [s EXCEPT !.error[t] = "timeout"]
           b == Unlink(a, t)
           c == rt_schedule_insert_thread(b, t)
           u == ScheduleInInterrupt(c)
<1>1. rt_thread_timeout(s, t) = u BY DEF rt_thread_timeout
<1>2. Changes(s, a, {"error"}) BY DEF Listed, Changes, Fields
<1> HIDE DEF a
<1>3. Moves(s, a, {}) /\ a.stat = s.stat /\ a.activated = s.activated
  <2>1. a.stat = s.stat /\ a.activated = s.activated BY <1>2 DEF Changes, Fields
  <2> QED BY <1>2, <2>1, NobodyMoves
<1>4. Moves(a, b, {t}) /\ Out(b, t) /\ Waiting(b, t) = {} /\ Changes(a, b, {"ready", "waiting"})
  BY <1>3, UnlinkMoves DEF Moves
<1> HIDE DEF b
<1>5. b.stat = s.stat /\ b.activated = s.activated BY <1>3, <1>4 DEF Changes, Fields
<1>6. /\ Moves(b, c, {t}) /\ ~Out(c, t) /\ c.stat = [b.stat EXCEPT ![t] = "ready"]
      /\ Waiting(c, t) = Waiting(b, t) /\ c.activated = b.activated
  BY <1>4, InsertMoves DEF Moves
<1> HIDE DEF c
<1>7. Changes(c, u, Processor) BY <1>6, SwitchEffect DEF Moves, Listed
<1> HIDE DEF u
<1>8. Moves(c, u, {}) /\ Same(c, u, t) /\ u.stat = c.stat /\ u.activated = c.activated
  <2>1. u.stat = c.stat /\ u.activated = c.activated BY <1>7 DEF Changes, Fields, Processor
  <2> QED BY <1>6, <1>7, <2>1, NobodyMoves DEF Processor, Moves
<1>9. Moves(s, u, {t}) BY <1>3, <1>4, <1>6, <1>8 DEF Moves, Same
<1> QED BY <1>1, <1>4, <1>5, <1>6, <1>8, <1>9 DEF Same

\* The list with a new element at position p.
LEMMA InsertedList ==
  ASSUME NEW T, NEW q \in Seq(T), NoDuplicates(q), NEW x \in T, x \notin Range(q), NEW p \in 1 .. Len(q) + 1
  PROVE  LET r == InsertAt(q, p, x) IN r \in Seq(T) /\ NoDuplicates(r) /\ Range(r) = Range(q) \cup {x}
<1> DEFINE r == InsertAt(q, p, x)
<1>1. /\ r \in Seq(T) /\ DOMAIN r = 1 .. Len(q) + 1
      /\ \A i \in DOMAIN r : r[i] = IF i < p THEN q[i] ELSE IF i = p THEN x ELSE q[i - 1]
  BY InsertAtProperties
<1>2. DOMAIN q = 1 .. Len(q) /\ Len(q) \in Nat OBVIOUS
<1> HIDE DEF r
<1>3. \A i \in DOMAIN r : /\ i < p => i \in DOMAIN q /\ r[i] = q[i]
                          /\ i = p => r[i] = x
                          /\ i > p => i - 1 \in DOMAIN q /\ r[i] = q[i - 1]
  BY <1>1, <1>2
<1>4. \A i \in DOMAIN r : r[i] \in Range(q) \cup {x} BY <1>1, <1>3 DEF Range
<1>5. ASSUME NEW i \in DOMAIN q PROVE q[i] \in Range(r)
  <2> DEFINE a == IF i < p THEN i ELSE i + 1
  <2>1. a \in DOMAIN r /\ r[a] = q[i] BY <1>1, <1>2
  <2> QED BY <2>1 DEF Range
<1>6. x \in Range(r)
  <2>1. p \in DOMAIN r /\ r[p] = x BY <1>1
  <2> QED BY <2>1 DEF Range
<1>7. Range(r) = Range(q) \cup {x} BY <1>4, <1>5, <1>6 DEF Range
<1>8. NoDuplicates(r)
  <2> SUFFICES ASSUME NEW i \in DOMAIN r, NEW j \in DOMAIN r, i < j PROVE r[i] # r[j]
    BY <1>1, <1>2 DEF NoDuplicates, IsInjective
  <2>1. \A a, b \in DOMAIN q : a # b => q[a] # q[b] BY DEF NoDuplicates, IsInjective
  <2>2. \A a \in DOMAIN q : q[a] # x BY DEF Range
  <2>3. i \in Int /\ j \in Int BY <1>1, <1>2
  <2>4. CASE i < p /\ j < p BY <1>3, <2>1, <2>3, <2>4
  <2>5. CASE i < p /\ j = p BY <1>3, <2>2, <2>5
  <2>6. CASE i < p /\ j > p
    <3>1. i # j - 1 BY <2>3, <2>6
    <3> QED BY <1>3, <2>1, <2>6, <3>1
  <2>7. CASE i = p /\ j > p BY <1>3, <2>2, <2>7
  <2>8. CASE i > p /\ j > p
    <3>1. i - 1 # j - 1 BY <2>3
    <3> QED BY <1>3, <2>1, <2>8, <3>1
  <2> QED BY <2>3, <2>4, <2>5, <2>6, <2>7, <2>8
<1> QED BY <1>1, <1>7, <1>8 DEF r

\* A thread that is ready takes its place in a list of waiting threads.
LEMMA BlockMoves ==
  ASSUME NEW s, Listed(s), NEW o \in WaitList, NEW t \in Thread, NEW time, s.stat[t] = "ready"
  PROVE  LET u == Block(s, o, t, time) IN
         Moves(s, u, {t}) /\ Out(u, t) /\ Waiting(u, t) = {o} /\ u.stat = [s.stat EXCEPT ![t] = "suspend"]
<1> DEFINE a == [s EXCEPT !.error[t] = "ok"]
           b == SuspendReady(a, t)
           place == Place(b, o, t)
           c == [b EXCEPT !.waiting[o] = InsertAt(@, place, t)]
           d == rt_timer_start(c, t, time)
<1>0. Changes(s, a, {"error"}) BY DEF Listed, Changes, Fields
<1>1. Block(s, o, t, time) = IF time > 0 THEN d ELSE c
  <2>1. a.stat[t] = "ready" BY DEF Listed, Fields
  <2> QED BY <2>1 DEF Block, rt_ipc_list_suspend, rt_thread_suspend
<1> HIDE DEF a
<1>2. Moves(s, a, {}) /\ a.stat = s.stat
  <2>1. a.stat = s.stat BY <1>0 DEF Changes, Fields
  <2> QED BY <1>0, <2>1, NobodyMoves
<1>3. Moves(a, b, {t}) /\ Out(b, t) /\ InNoList(b, t) /\ b.stat = [a.stat EXCEPT ![t] = "suspend"]
  BY <1>2, SuspendMoves DEF Moves
<1> HIDE DEF b
<1>4. Listed(b) /\ b.waiting[o] \in Seq(Thread) /\ NoDuplicates(b.waiting[o]) /\ t \notin Range(b.waiting[o])
  BY <1>3 DEF Moves, Listed, InNoList, Waiting
<1> DEFINE r == InsertAt(b.waiting[o], place, t)
<1>5. r \in Seq(Thread) /\ NoDuplicates(r) /\ Range(r) = Range(b.waiting[o]) \cup {t}
  <2>1. place \in 1 .. Len(b.waiting[o]) + 1 BY <1>4, PlaceInRange
  <2> HIDE DEF place
  <2> QED BY <1>4, <2>1, InsertedList
<1>6. /\ Changes(b, c, {"waiting"}) /\ c.waiting = [b.waiting EXCEPT ![o] = r]
  BY <1>4 DEF Listed, Changes, Fields
<1> HIDE DEF place, c, r
<1>7. /\ DOMAIN c = Fields /\ c.ready = b.ready /\ c.priority = b.priority /\ c.stat = b.stat
      /\ c.activated = b.activated
  BY <1>6 DEF Changes, Fields
<1>8. /\ c.waiting[o] = r /\ \A l \in WaitList : l # o => c.waiting[l] = b.waiting[l]
      /\ c.waiting \in [WaitList -> Seq(Thread)]
  BY <1>4, <1>5, <1>6 DEF Listed
<1>9. Listed(c) BY <1>4, <1>5, <1>7, <1>8 DEF Listed
<1>10. \A x \in Thread \ {t} : Waiting(c, x) = Waiting(b, x)
  <2> SUFFICES ASSUME NEW x \in Thread \ {t}, NEW l \in WaitList
               PROVE  x \in Range(c.waiting[l]) <=> x \in Range(b.waiting[l])
    BY DEF Waiting
  <2> QED BY <1>5, <1>8
<1>11. Waiting(c, t) = {o}
  <2> SUFFICES ASSUME NEW l \in WaitList PROVE t \in Range(c.waiting[l]) <=> l = o BY DEF Waiting
  <2>1. t \notin Range(b.waiting[l]) BY <1>3 DEF InNoList, Waiting
  <2> QED BY <1>5, <1>8, <2>1
<1>12. Moves(b, c, {t}) /\ Out(c, t) BY <1>3, <1>7, <1>9, <1>10 DEF Moves, Same, Out
<1>13. Moves(s, c, {t}) BY <1>2, <1>3, <1>12 DEF Moves, Same
<1>14. Moves(c, d, {t}) /\ d.stat = c.stat /\ Out(d, t) /\ Waiting(d, t) = {o}
  BY <1>9, <1>11, <1>12, TimerMoves
<1> HIDE DEF d
<1>15. Moves(s, d, {t}) BY <1>13, <1>14 DEF Moves, Same
<1>16. c.stat = [s.stat EXCEPT ![t] = "suspend"] BY <1>2, <1>3, <1>7
<1>17. LET u == IF time > 0 THEN d ELSE c IN
       Moves(s, u, {t}) /\ Out(u, t) /\ Waiting(u, t) = {o} /\ u.stat = [s.stat EXCEPT ![t] = "suspend"]
  BY <1>11, <1>12, <1>13, <1>14, <1>15, <1>16
<1> QED BY <1>1, <1>17

\* A thread goes to the end of its queue.
LEMMA RotateMoves ==
  ASSUME NEW s, Listed(s), NEW t \in Thread
  PROVE  LET u == Rotate(s, t) IN
         Moves(s, u, {t}) /\ ~Out(u, t) /\ Waiting(u, t) = Waiting(s, t)
         /\ u.stat = s.stat /\ u.activated = s.activated
<1> DEFINE u == Rotate(s, t)
           p0 == s.priority[t]
           q == RemoveFirst(s.ready[p0], t)
           r == Append(q, t)
<1>1. /\ DOMAIN u = Fields /\ u.stat = s.stat /\ u.priority = s.priority /\ u.waiting = s.waiting
      /\ u.activated = s.activated /\ u.ready = [s.ready EXCEPT ![p0] = r]
  BY DEF Rotate, Listed, Fields
<1> HIDE DEF u
<1>2. p0 \in Priority /\ s.ready[p0] \in Seq(Thread) /\ NoDuplicates(s.ready[p0]) BY DEF Listed
<1>3. q \in Seq(Thread) /\ NoDuplicates(q) /\ Range(q) = Range(s.ready[p0]) \ {t}
  BY <1>2, RemoveFirstProperties
<1> HIDE DEF q
<1>4. r \in Seq(Thread) /\ NoDuplicates(r) /\ Range(r) = Range(q) \cup {t} BY <1>3, Appended
<1> HIDE DEF r
<1>5. u.ready[p0] = r /\ \A p \in Priority : p # p0 => u.ready[p] = s.ready[p] BY <1>1, <1>2 DEF Listed
<1>6. u.ready \in [Priority -> Seq(Thread)] BY <1>1, <1>4 DEF Listed
<1>7. \A p \in Priority : NoDuplicates(u.ready[p]) BY <1>4, <1>5 DEF Listed
<1>8. Listed(u) BY <1>1, <1>6, <1>7 DEF Listed
<1>9. ~Out(u, t) BY <1>2, <1>4, <1>5 DEF Out
<1>10. \A x \in Thread \ {t} : Out(u, x) <=> Out(s, x) BY <1>3, <1>4, <1>5 DEF Out
<1>11. \A x : Waiting(u, x) = Waiting(s, x) BY <1>1 DEF Waiting
<1> QED BY <1>1, <1>8, <1>9, <1>10, <1>11 DEF Moves, Same, u

LEMMA ChangePriorityMoves ==
  ASSUME NEW s, Listed(s), NEW t \in Thread, NEW p \in Priority
  PROVE  LET u == ChangePriority(s, t, p) IN
         /\ Moves(s, u, {t}) /\ u.activated = s.activated /\ u.stat = s.stat
         /\ s.stat[t] = "ready" => ~Out(u, t) /\ Waiting(u, t) = {}
         /\ s.stat[t] # "ready" => Same(s, u, t)
<1> DEFINE a == rt_schedule_remove_thread(s, t)
           b == [a EXCEPT !.priority[t] = p]
           c == rt_schedule_insert_thread(b, t)
           d == [s EXCEPT !.priority[t] = p]
           u == ChangePriority(s, t, p)
<1>1. u = IF s.stat[t] = "ready" THEN c ELSE d BY DEF ChangePriority
<1> HIDE DEF u
<1>2. CASE s.stat[t] # "ready"
  <2>1. Changes(s, d, {"priority"}) /\ d.priority = [s.priority EXCEPT ![t] = p]
    BY DEF Listed, Changes, Fields
  <2>2. d.priority \in [Thread -> Priority] BY <2>1 DEF Listed
  <2> HIDE DEF d
  <2>3. Moves(s, d, {}) /\ d.stat = s.stat /\ d.activated = s.activated /\ \A y : Same(s, d, y)
    BY <2>1, <2>2, PriorityMoves
  <2> QED BY <1>1, <1>2, <2>3 DEF Moves, u
<1>3. CASE s.stat[t] = "ready"
  <2>1. /\ Moves(s, a, {t}) /\ Out(a, t) /\ Waiting(a, t) = {} /\ a.stat = s.stat
        /\ a.activated = s.activated
    BY RemoveMoves
  <2> HIDE DEF a
  <2>2. Listed(a) BY <2>1 DEF Moves
  <2>3. Changes(a, b, {"priority"}) /\ b.priority = [a.priority EXCEPT ![t] = p]
    BY <2>2 DEF Listed, Changes, Fields
  <2>4. b.priority \in [Thread -> Priority] BY <2>2, <2>3 DEF Listed
  <2> HIDE DEF b
  <2>5. Moves(a, b, {}) /\ b.stat = a.stat /\ b.activated = a.activated /\ \A y : Same(a, b, y)
    BY <2>2, <2>3, <2>4, PriorityMoves
  <2>6. Out(b, t) /\ Waiting(b, t) = {} /\ Listed(b) BY <2>1, <2>5 DEF Same, Moves
  <2>7. /\ Moves(b, c, {t}) /\ ~Out(c, t) /\ c.stat = [b.stat EXCEPT ![t] = "ready"]
        /\ Waiting(c, t) = Waiting(b, t) /\ c.activated = b.activated
    BY <2>6, InsertMoves
  <2> HIDE DEF c
  <2>8. Moves(s, c, {t}) BY <2>1, <2>5, <2>7 DEF Moves, Same
  <2>9. c.stat = s.stat BY <1>3, <2>1, <2>5, <2>7 DEF Listed
  <2> QED BY <1>1, <1>3, <2>1, <2>5, <2>6, <2>7, <2>8, <2>9 DEF u
<1> QED BY <1>2, <1>3

-----------------------------------------------------------------------------
(***************************************************************************)
(* Threads of a list of waiting threads that are resumed.                  *)
(***************************************************************************)
\* From s to u only threads of W move: they were suspended, and they are ready.
Revives(s, u, W) ==
  /\ W \subseteq Thread /\ Moves(s, u, W)
  /\ \A x \in W : s.stat[x] = "suspend" /\ u.stat[x] = "ready" /\ ~Out(u, x) /\ InNoList(u, x)

\* The fields of the kernel that nothing else here is about have their types.
Errors == {"ok", "timeout", "error"}

Plain(s) ==
  /\ s.remaining_tick \in [Thread -> Nat \ {0}] /\ s.error \in [Thread -> Errors]
  /\ s.value \in [Semaphore -> 0 .. ValueMax]

LEMMA PlainSame ==
  ASSUME NEW s, Plain(s), NEW u, NEW F, Changes(s, u, F), F \cap {"remaining_tick", "error", "value"} = {}
  PROVE  Plain(u)
BY DEF Plain, Changes, Fields

LEMMA PlainError ==
  ASSUME NEW s, Plain(s), NEW u, NEW F, Changes(s, u, F), F \cap {"remaining_tick", "value"} = {},
         NEW t \in Thread, NEW e \in Errors, u.error = [s.error EXCEPT ![t] = e]
  PROVE  Plain(u)
BY DEF Plain, Changes, Fields

WaitersSleep(s) == \A x \in Thread : Waiting(s, x) # {} => s.stat[x] = "suspend"

LEMMA RevivesInTurn ==
  ASSUME NEW s, NEW u, NEW v, NEW W, NEW X, Revives(s, u, W), Revives(u, v, X)
  PROVE  Revives(s, v, W \cup X)
<1>1. W \cup X \subseteq Thread /\ Moves(s, v, W \cup X) BY DEF Revives, Moves, Same
<1>2. ASSUME NEW x \in X PROVE s.stat[x] = "suspend"
  <2>1. x \in Thread \ W /\ u.stat[x] = "suspend" BY DEF Revives
  <2> QED BY <2>1 DEF Revives, Moves, Same
<1>3. ASSUME NEW x \in W, x \notin X PROVE v.stat[x] = "ready" /\ ~Out(v, x) /\ InNoList(v, x)
  <2>1. x \in Thread \ X /\ u.stat[x] = "ready" /\ ~Out(u, x) /\ InNoList(u, x) BY <1>3 DEF Revives
  <2> QED BY <2>1 DEF Revives, Moves, Same, InNoList
<1> QED BY <1>1, <1>2, <1>3 DEF Revives

LEMMA NobodyRevives ==
  ASSUME NEW s, Listed(s), NEW u, NEW F, Changes(s, u, F),
         F \cap {"ready", "waiting", "stat", "priority", "activated"} = {}
  PROVE  Revives(s, u, {})
BY NobodyMoves DEF Revives

LEMMA WaitersStillSleep ==
  ASSUME NEW s, NEW u, NEW W, WaitersSleep(s), Revives(s, u, W) PROVE WaitersSleep(u)
BY DEF WaitersSleep, Revives, Moves, Same, InNoList

\* The first thread of a list waits there.
LEMMA FirstWaits ==
  ASSUME NEW s, Listed(s), NEW o \in WaitList, s.waiting[o] # <<>>, WaitersSleep(s)
  PROVE  LET t == Head(s.waiting[o]) IN t \in Thread /\ o \in Waiting(s, t) /\ s.stat[t] = "suspend"
<1> DEFINE q == s.waiting[o]
<1>1. q \in Seq(Thread) BY DEF Listed
<1>2. 1 \in DOMAIN q /\ Head(q) = q[1] /\ q[1] \in Thread BY <1>1, EmptySeq
<1>3. o \in Waiting(s, Head(q)) BY <1>2 DEF Waiting, Range
<1> QED BY <1>2, <1>3 DEF WaitersSleep

LEMMA ReleaseRevives ==
  ASSUME NEW s, Listed(s), NEW o \in WaitList, WaitersSleep(s)
  PROVE  LET u == Release(s, o) IN
         /\ \E W \in SUBSET Thread : Revives(s, u, W)
         /\ s.waiting[o] = <<>> => Changes(s, u, {"value"})
<1> DEFINE u == Release(s, o)
           t == Head(s.waiting[o])
<1>0. DOMAIN s = Fields BY DEF Listed
<1>1. CASE s.waiting[o] # <<>>
  <2>1. t \in Thread /\ s.stat[t] = "suspend" BY <1>1, FirstWaits
  <2>2. u = rt_thread_resume(s, t) BY <1>1 DEF Release, rt_ipc_list_resume
  <2> HIDE DEF u, t
  <2>3. Moves(s, u, {t}) /\ ~Out(u, t) /\ InNoList(u, t) /\ u.stat = [s.stat EXCEPT ![t] = "ready"]
    BY <2>1, <2>2, ResumeMoves
  <2>4. u.stat[t] = "ready" BY <2>1, <2>3 DEF Listed
  <2>5. Revives(s, u, {t}) BY <2>1, <2>3, <2>4 DEF Revives
  <2> QED BY <1>1, <2>1, <2>5 DEF u
<1>2. CASE s.waiting[o] = <<>>
  <2>1. Changes(s, u, {"value"}) BY <1>0, <1>2, ReleaseEffect
  <2> HIDE DEF u
  <2>2. Revives(s, u, {}) BY <2>1, NobodyRevives
  <2> QED BY <2>1, <2>2 DEF u
<1> QED BY <1>1, <1>2

LEMMA ErrorRevives ==
  ASSUME NEW s, Listed(s), NEW o \in WaitList, s.waiting[o] # <<>>, WaitersSleep(s)
  PROVE  \E W \in SUBSET Thread : Revives(s, ResumeWithError(s, o), W)
<1> DEFINE t == Head(s.waiting[o])
           a == [s EXCEPT !.error[t] = "error"]
           u == rt_thread_resume(a, t)
<1>1. t \in Thread /\ s.stat[t] = "suspend" BY FirstWaits
<1>2. ResumeWithError(s, o) = u BY DEF ResumeWithError
<1>3. Changes(s, a, {"error"}) BY DEF Listed, Changes, Fields
<1> HIDE DEF t, a
<1>4. Revives(s, a, {}) BY <1>3, NobodyRevives
<1>5. Listed(a) /\ a.stat[t] = "suspend" BY <1>1, <1>4 DEF Revives, Moves, Same
<1>6. Moves(a, u, {t}) /\ ~Out(u, t) /\ InNoList(u, t) /\ u.stat = [a.stat EXCEPT ![t] = "ready"]
  BY <1>1, <1>5, ResumeMoves
<1> HIDE DEF u
<1>7. u.stat[t] = "ready" BY <1>1, <1>5, <1>6 DEF Listed
<1>8. Revives(a, u, {t}) BY <1>1, <1>5, <1>6, <1>7 DEF Revives
<1>9. Revives(s, u, {} \cup {t}) BY <1>4, <1>8, RevivesInTurn
<1> QED BY <1>1, <1>2, <1>9

\* By induction over its rounds: rt_ipc_list_resume_all finds a thread in each.
LEMMA AllRevive ==
  ASSUME NEW s, Listed(s), NEW o \in WaitList, WaitersSleep(s)
  PROVE  /\ \E W \in SUBSET Thread : Revives(s, ResumeAll(s, o), W)
         /\ Plain(s) => Plain(ResumeAll(s, o))
<1> DEFINE n == Len(s.waiting[o])
           r == ResumeAll(s, o)
<1>1. n \in Nat /\ DOMAIN s = Fields BY DEF Listed
<1>2. PICK after : /\ after[0] = s
                   /\ \A i \in 1 .. n : after[i] = ResumeWithError(after[i - 1], o)
                   /\ DOMAIN r = Fields
                   /\ \A f \in RoundFields : r[f] = after[n][f]
                   /\ \A f \in Fields \ RoundFields : r[f] = s[f]
  BY <1>1, Rounds
<1> DEFINE S == {i \in 0 .. n : /\ \E W \in SUBSET Thread : Revives(s, after[i], W)
                                /\ after[i].priority = s.priority
                                /\ Plain(s) => Plain(after[i])
                                /\ Len(after[i].waiting[o]) >= n - i}
<1>3. 0 \in S
  <2>1. Changes(s, s, {}) BY <1>1 DEF Changes
  <2>2. Revives(s, s, {}) BY <2>1, NobodyRevives
  <2> QED BY <1>1, <1>2, <2>2
<1>4. ASSUME NEW i \in 0 .. n - 1, i \in S PROVE i + 1 \in S
  <2> DEFINE a == after[i]
             b == after[i + 1]
             q == a.waiting[o]
  <2>1. a.priority = s.priority /\ Len(q) >= n - i BY <1>4
  <2>2. i + 1 \in 1 .. n /\ i + 1 \in 0 .. n /\ (i + 1) - 1 = i BY <1>1
  <2>3. b = ResumeWithError(a, o) BY <1>2, <2>2
  <2>4. PICK W \in SUBSET Thread : Revives(s, a, W) BY <1>4
  <2> HIDE DEF a, b
  <2>5. Listed(a) /\ WaitersSleep(a) BY <2>4, WaitersStillSleep DEF Revives, Moves
  <2>6. q \in Seq(Thread) /\ q # <<>> BY <1>1, <2>1, <2>5 DEF Listed
  <2>7. PICK X \in SUBSET Thread : Revives(a, b, X) BY <2>3, <2>5, <2>6, ErrorRevives
  <2>8. Revives(s, b, W \cup X) BY <2>4, <2>7, RevivesInTurn
  <2>9. b.priority = a.priority
    <3>1. Changes(a, b, QueueParts \cup TimerParts \cup {"stat", "error"})
      BY <2>3, <2>5, ErrorEffect DEF Listed
    <3> QED BY <3>1 DEF Changes, Fields, QueueParts, TimerParts
  <2>10. Len(b.waiting[o]) >= n - (i + 1)
    <3>1. ListsOf(a, Thread) BY <2>5 DEF Listed, ListsOf
    <3>2. Len(b.waiting[o]) >= Len(q) - 1 BY <2>3, <2>6, <3>1, RoundShortens
    <3>3. b.waiting[o] \in Seq(Thread) BY <2>7 DEF Revives, Moves, Listed
    <3>4. Len(q) \in Nat /\ Len(b.waiting[o]) \in Nat BY <2>6, <3>3
    <3> HIDE DEF q, n
    <3> QED BY <1>1, <2>1, <3>2, <3>4
  <2>11. Plain(s) => Plain(b)
    <3>1. Plain(s) => Plain(a) BY <1>4 DEF a
    <3> DEFINE t == Head(q)
    <3>2. t \in Thread BY <2>6, HeadTailProperties
    <3>3. Changes(a, b, QueueParts \cup TimerParts \cup {"stat", "error"}) /\ b.error = [a.error EXCEPT ![t] = "error"]
      BY <2>3, <2>5, ErrorEffect DEF Listed
    <3> HIDE DEF t, q
    <3> QED BY <3>1, <3>2, <3>3, PlainError DEF QueueParts, TimerParts, Errors
  <2> QED BY <2>1, <2>2, <2>8, <2>9, <2>10, <2>11 DEF b
<1>5. n \in S
  <2> HIDE DEF S, n
  <2>1. 0 .. n \subseteq S BY <1>1, <1>3, <1>4, UpTo
  <2> QED BY <1>1, <2>1
<1> DEFINE l == after[n]
<1>6. PICK W \in SUBSET Thread : /\ Revives(s, l, W) /\ l.priority = s.priority
                                 /\ Plain(s) => Plain(l)
  BY <1>5
<1> HIDE DEF r, n, S, l
<1>7. DOMAIN r = Fields /\ r.ready = l.ready /\ r.waiting = l.waiting /\ r.stat = l.stat
      /\ r.activated = l.activated /\ r.priority = l.priority
  BY <1>2, <1>6 DEF l, Fields, RoundFields
<1>8. \A x : (Out(r, x) <=> Out(l, x)) /\ Waiting(r, x) = Waiting(l, x) BY <1>7 DEF Out, Waiting
<1>9. Listed(r) BY <1>6, <1>7 DEF Listed, Revives, Moves
<1>10. Revives(s, r, W) BY <1>6, <1>7, <1>8, <1>9 DEF Revives, Moves, Same, InNoList
<1>11. Plain(s) => Plain(r)
  <2>1. r.remaining_tick = s.remaining_tick /\ r.value = s.value /\ r.error = l.error
    BY <1>2 DEF l, Fields, RoundFields
  <2> QED BY <1>6, <2>1 DEF Plain
<1> QED BY <1>10, <1>11 DEF r

-----------------------------------------------------------------------------
(***************************************************************************)
(* Where a thread is agrees with its state and with the call it is in.     *)
(***************************************************************************)
\* A thread waits in the list of the semaphore that it takes.
Seated(x) ==
  Waiting(k, x) # {} =>
    /\ k.stat[x] = "suspend" /\ pc[x] \in {"schedule", "return"} /\ calls[x] # <<>>
    /\ Call(x).op = "take" /\ Waiting(k, x) \subseteq {Call(x).on}

Timed(x) == x \in k.activated => k.stat[x] = "suspend"

Queued(x) == k.stat[x] = "ready" => ~Out(k, x) \/ Detaching(x)

\* What the thread that y resumes or detaches has been taken from already.
Aims(y) ==
  /\ pc[y] \in {"resume_insert", "detach_close"} => InNoList(k, Call(y).on)
  /\ pc[y] = "detach_timer" => Waiting(k, Call(y).on) = {}

Waits ==
  /\ Listed(k)
  /\ \A x \in Thread : Seated(x) /\ Timed(x) /\ Queued(x) /\ Aims(x)

\* From s to u, no thread of W enters a list of waiting threads or gets a timer,
\* but those that were in a ready queue.
Calms(s, u, W) ==
  \A x \in W : ~Out(s, x) \/ /\ Waiting(u, x) \subseteq Waiting(s, x)
                             /\ x \in u.activated => x \in s.activated

\* Thread t does not leave the parts of a detach, but to end it.
Detaches(t) == pc[t] \in {"detach_timer", "detach_close"}

\* A step that moves the threads of W, and in which only the threads of T go on, keeps all
\* others where they belong.
LEMMA OthersWait ==
  ASSUME NEW C, Proper(C), CallsOK(C), QueuesOK(k), Orderly, Waits,
         NEW T \in SUBSET Thread, NEW W \in SUBSET Thread, Moves(k, k', W), Calms(k, k', W),
         \A y \in Thread \ T : pc'[y] = pc[y] /\ calls'[y] = calls[y],
         \A x \in W : (Seated(x) /\ Timed(x) /\ Queued(x))',
         \A t \in T : /\ Seated(t)' /\ Aims(t)'
                      /\ Detaches(t) => (Detaches(t)' /\ calls'[t] = calls[t]) \/ Call(t).on \in W
  PROVE  Waits'
<1>1. ASSUME NEW x \in Thread \ W PROVE Timed(x)' BY <1>1 DEF Waits, Timed, Moves, Same
<1>2. ASSUME NEW x \in Thread \ W, x \notin T PROVE Seated(x)'
  BY <1>2 DEF Waits, Seated, Moves, Same, Call
<1>3. ASSUME NEW x \in Thread \ W PROVE Queued(x)'
  <2> SUFFICES ASSUME k'.stat[x] = "ready", Out(k', x) PROVE Detaching(x)' BY DEF Queued
  <2>1. k.stat[x] = "ready" /\ Out(k, x) BY <1>3 DEF Moves, Same
  <2>2. PICK y \in Thread : Detaches(y) /\ Call(y).on = x BY <1>3, <2>1 DEF Waits, Queued, Detaching, Detaches
  <2>3. Detaches(y)' /\ calls'[y] = calls[y] BY <1>3, <2>2 DEF Detaches
  <2> QED BY <2>2, <2>3 DEF Detaching, Detaches, Call
<1>4. ASSUME NEW y \in Thread \ T PROVE Aims(y)'
  <2> DEFINE z == Call(y).on
  <2>1. pc'[y] = pc[y] /\ Call(y)' = Call(y) BY <1>4 DEF Call
  <2>2. Aims(y) BY <1>4 DEF Waits
  <2>3. ASSUME pc[y] \in {"resume_insert", "detach_close", "detach_timer"}
        PROVE  z \in Thread /\ Out(k, z)
    <3>1. calls[y] # <<>> /\ Fits(pc[y], Call(y).op) BY <1>4, <2>3 DEF CallsOK
    <3>2. z \in Thread BY <1>4, <2>3, <3>1, Called DEF CallsOK, Fits, ProperCall
    <3>3. k.stat[z] = "suspend" \/ \A p \in Priority : ~Contains(k.ready[p], z)
      BY <1>4, <2>3 DEF Orderly, NobodyInterferes
    <3>4. k.stat[z] = "suspend" => Out(k, z) BY <3>2 DEF QueuesOK, Out
    <3> QED BY <3>2, <3>3, <3>4, NotContained
  <2> HIDE DEF z
  <2>4. CASE z \in W
    <3>1. ASSUME Out(k, z)
          PROVE  Waiting(k', z) \subseteq Waiting(k, z) /\ (z \in k'.activated => z \in k.activated)
      BY <2>4, <3>1 DEF Calms
    <3> QED BY <2>1, <2>2, <2>3, <3>1 DEF Aims, InNoList, z
  <2>5. CASE z \in Thread \ W BY <2>1, <2>2, <2>5 DEF Aims, InNoList, Moves, Same, z
  <2>6. CASE z \notin Thread BY <2>1, <2>3, <2>6 DEF Aims
  <2> QED BY <2>4, <2>5, <2>6
<1> QED BY <1>1, <1>2, <1>3, <1>4 DEF Waits, Moves

-----------------------------------------------------------------------------
(***************************************************************************)
(* The thread that runs is in a ready queue when it does anything but ask  *)
(* the scheduler.                                                          *)
(***************************************************************************)
\* Thread t asks the scheduler before it does anything else.
About(t) == pc[t] \in {"schedule", "drain", "drain_one"} \/ Calls(t, "schedule")

Prompt ==
  /\ k.lock_nest \in Nat
  /\ k.lock_nest = 0 => k.current = Highest(k) \/ About(k.current)
  /\ k.lock_nest > 0 => ~Out(k, k.current)

\* The highest thread is the first of the queue of the least priority of the group.
LEMMA HighestIsFirst ==
  ASSUME NEW s, QueuesOK(s)
  PROVE  \E p \in s.group : /\ \A q \in s.group : p <= q
                            /\ Highest(s) = Head(s.ready[p]) /\ s.ready[p] \in Seq(Thread)
                            /\ s.ready[p] # <<>> /\ Highest(s) \in Range(s.ready[p])
<1> DEFINE least(p) == \A q \in s.group : p <= q
<1>1. s.group \in SUBSET Nat /\ s.group \subseteq Priority BY DEF QueuesOK, Priority
<1>2. s.group # {} BY IdlePriority, EmptyRange DEF QueuesOK
<1>3. \E p \in s.group : least(p) BY <1>1, <1>2, Smallest
<1>4. PICK p \in s.group : least(p) /\ p = CHOOSE q \in s.group : least(q) BY <1>3
<1>5. s.ready[p] \in Seq(Thread) /\ s.ready[p] # <<>> BY <1>1 DEF QueuesOK
<1>6. 1 \in DOMAIN s.ready[p] /\ Head(s.ready[p]) = s.ready[p][1] BY <1>5, EmptySeq
<1>7. Highest(s) = Head(s.ready[p]) BY <1>4 DEF Highest
<1> QED BY <1>4, <1>5, <1>6, <1>7 DEF Range

LEMMA HighestIsReady == ASSUME NEW s, QueuesOK(s) PROVE Highest(s) \in Thread /\ ~Out(s, Highest(s))
<1>1. PICK p \in s.group : Highest(s) \in Range(s.ready[p]) BY HighestIsFirst
<1>2. p \in Priority BY DEF QueuesOK
<1> QED BY <1>1, <1>2, QueuesGiveThread DEF Out

LEMMA Running ==
  ASSUME QueuesOK(k), Waits, Prompt, NEW t, t = k.current, t \in Thread, ~About(t)
  PROVE  ~Out(k, t) /\ k.stat[t] = "ready" /\ Waiting(k, t) = {} /\ t \notin k.activated
<1>1. ~Out(k, t) BY HighestIsReady DEF Prompt
<1>2. k.stat[t] = "ready" BY <1>1 DEF QueuesOK, Out
<1> QED BY <1>1, <1>2 DEF Waits, Seated, Timed

-----------------------------------------------------------------------------
(***************************************************************************)
(* The steps keep the threads where they belong.                           *)
(***************************************************************************)
LEMMA ThreadKeepsWaits ==
  ASSUME NEW C, Proper(C), CallsOK(C), QueuesOK(k), Orderly, Waits, Prompt,
         NEW t \in Thread, t = k.current, ThreadStep(t)
  PROVE  Waits'
<1> DEFINE c == Call(t)
<1>0. DOMAIN k = Fields /\ Listed(k) /\ \A x \in Thread : Seated(x) /\ Timed(x) /\ Queued(x) /\ Aims(x)
  BY DEF QueuesOK, Waits
<1>1. pc[t] # "user" => calls[t] # <<>> /\ Fits(pc[t], c.op) BY DEF CallsOK
<1>2. calls[t] # <<>> => ProperCall(c) BY Called DEF CallsOK
<1>3. pc \in [Thread -> Label] /\ calls \in [Thread -> Seq(C)] BY DEF CallsOK
<1>4. \A y \in Thread \ {t} : pc'[y] = pc[y] /\ calls'[y] = calls[y]
  BY <1>1, <1>3, CallEffect DEF Stay, Return, Goto
<1>5. pc[t] \notin {"schedule", "return"} => Waiting(k, t) = {} BY <1>0 DEF Seated
<1>6. ~About(t) => ~Out(k, t) /\ k.stat[t] = "ready" /\ Waiting(k, t) = {} /\ t \notin k.activated
  BY Running
<1>7. ASSUME NEW W \in SUBSET Thread, Moves(k, k', W), Calms(k, k', W),
             \A x \in W : (Seated(x) /\ Timed(x) /\ Queued(x))', Seated(t)', Aims(t)',
             Detaches(t) => (Detaches(t)' /\ calls'[t] = calls[t]) \/ c.on \in W
      PROVE  Waits'
  <2>1. \A y \in {t} : /\ Seated(y)' /\ Aims(y)'
                       /\ Detaches(y) => (Detaches(y)' /\ calls'[y] = calls[y]) \/ Call(y).on \in W
    BY <1>7
  <2>2. {t} \in SUBSET Thread OBVIOUS
  <2> HIDE DEF c
  <2> QED BY <1>4, <1>7, <2>1, <2>2, OthersWait
<1>8. ASSUME Moves(k, k', {}), ~Detaches(t), Waiting(k, t) = {},
             pc'[t] \notin {"resume_insert", "detach_close", "detach_timer"}
      PROVE  Waits'
  <2>1. Waiting(k', t) = {} BY <1>8 DEF Moves, Same
  <2>2. Seated(t)' /\ Aims(t)' BY <1>8, <2>1 DEF Seated, Aims
  <2>3. Calms(k, k', {}) BY DEF Calms
  <2> QED BY <1>7, <1>8, <2>2, <2>3
<1>9. ASSUME NEW l, Goto(t, l) PROVE pc'[t] = l /\ calls'[t] = calls[t] /\ Call(t)' = c
  BY <1>3, <1>9 DEF Goto, Call
<1>10. ASSUME Return(t) PROVE pc'[t] = "user" BY <1>3, <1>10 DEF Return
<1> HIDE DEF c
\* Steps that move no thread.
<1>11. CASE Schedule(t)
  <2>1. Changes(k, k', Processor) BY <1>0, <1>11, SwitchEffect DEF Schedule
  <2>2. Moves(k, k', {}) /\ Same(k, k', t) BY <1>0, <2>1, NobodyMoves DEF Processor
  <2>3. pc[t] = "schedule" /\ ~Detaches(t) BY <1>11 DEF Schedule, At, Detaches
  <2>4. Waiting(k', t) # {} => /\ pc'[t] = "return" /\ calls'[t] = calls[t] /\ Call(t)' = c
                               /\ Waiting(k, t) # {}
    BY <1>0, <1>9, <1>11, <2>2 DEF Schedule, Seated, Same, c
  <2>5. Seated(t)' BY <1>0, <2>2, <2>4 DEF Seated, Same, c
  <2>6. pc'[t] \in {"return", "user"} BY <1>9, <1>10, <1>11 DEF Schedule
  <2>7. Aims(t)' /\ Calms(k, k', {}) BY <2>6 DEF Aims, Calms
  <2> QED BY <1>7, <2>2, <2>3, <2>5, <2>7
<1>12. CASE \/ CallSchedule(t) \/ SleepReturn(t) \/ Suspend(t) \/ Resume(t) \/ EnterCritical(t)
            \/ ExitCritical(t) \/ TakeReturn(t) \/ Poll(t) \/ SemDetach(t) \/ Drain(t) \/ SetTime(t)
            \/ StopTimer(t) \/ (Yield(t) /\ UNCHANGED k)
  <2>1. Changes(k, k', Processor \cup {"error", "lock_nest", "value", "init_tick"})
    <3>1. CASE CallSchedule(t) BY <1>0, <1>12, <3>1, SwitchEffect DEF CallSchedule, Changes
    <3>2. CASE ~CallSchedule(t)
      BY <1>0, <1>12, <3>2
         DEF SleepReturn, Suspend, Resume, EnterCritical, ExitCritical, TakeReturn, Poll, SemDetach, Drain,
             SetTime, StopTimer, Yield, Changes, Fields
    <3> QED BY <3>1, <3>2
  <2>2. Moves(k, k', {}) BY <1>0, <2>1, NobodyMoves DEF Processor
  <2>3. ~Detaches(t)
    BY <1>12 DEF CallSchedule, SleepReturn, Suspend, Resume, EnterCritical, ExitCritical, TakeReturn, Poll,
                 SemDetach, Drain, SetTime, StopTimer, Yield, Calls, At, Detaches
  <2>4. Waiting(k, t) = {}
    <3>1. CASE SleepReturn(t) BY <1>0, <3>1 DEF SleepReturn, Seated
    <3>2. CASE TakeReturn(t)
      <4>1. ~About(t) BY <3>2 DEF TakeReturn, At, About, Calls
      <4> QED BY <1>6, <4>1
    <3>3. CASE ~SleepReturn(t) /\ ~TakeReturn(t)
      BY <1>5, <1>12, <3>3 DEF CallSchedule, Suspend, Resume, EnterCritical, ExitCritical, Poll,
                               SemDetach, Drain, SetTime, StopTimer, Yield, Calls, At
    <3> QED BY <3>1, <3>2, <3>3
  <2>5. pc'[t] \notin {"resume_insert", "detach_close", "detach_timer"}
    <3>1. \/ Return(t) \/ (Stay(t) /\ pc[t] = "user")
          \/ \E l \in {"suspend_body", "resume_unlink", "schedule", "drain", "drain_one", "stop_timer"} :
               Goto(t, l)
      BY <1>12 DEF CallSchedule, SleepReturn, Suspend, Resume, EnterCritical, ExitCritical, TakeReturn, Poll,
                   SemDetach, Drain, SetTime, StopTimer, Yield, Calls
    <3>2. Stay(t) => pc'[t] = pc[t] BY DEF Stay
    <3> QED BY <1>9, <1>10, <3>1, <3>2
  <2> QED BY <1>8, <2>2, <2>3, <2>4, <2>5
<1>13. CASE StartTimer(t)
  <2>1. c.op = "start_timer" /\ calls[t] # <<>> /\ pc[t] = "user" BY <1>13 DEF StartTimer, Calls, c
  <2>2. c.on \notin Thread BY <1>2, <2>1, SchedAssumption DEF ProperCall
  <2>3. k' = rt_timer_start(k, c.on, k.init_tick[c.on]) BY <1>13 DEF StartTimer, c
  <2>4. Moves(k, k', {c.on}) BY <1>0, <2>3, TimerMoves
  <2>5. Moves(k, k', {}) BY <2>2, <2>4 DEF Moves
  <2> QED BY <1>5, <1>8, <1>10, <1>13, <2>1, <2>5 DEF StartTimer, Detaches
<1>14. CASE Detach(t)
  <2>1. k' = k /\ pc[t] = "user" /\ calls[t] # <<>> /\ c.op = "detach" BY <1>14 DEF Detach, Calls, c
  <2>2. c.on \in Thread BY <1>2, <2>1 DEF ProperCall
  <2>3. Changes(k, k', {}) BY <1>0, <2>1 DEF Changes
  <2>4. Moves(k, k', {}) /\ Calms(k, k', {}) BY <1>0, <2>3, NobodyMoves DEF Calms
  <2>5. CASE k.stat[c.on] = "init"
    <3>1. k.stat[c.on] # "close" BY <2>5
    <3>2. Goto(t, "detach_timer") BY <1>14, <2>5, <3>1 DEF Detach, c
    <3>3. pc'[t] = "detach_timer" /\ Call(t)' = c BY <1>9, <3>2
    <3>4. Waiting(k, c.on) = {} BY <1>0, <2>2, <2>5 DEF Seated
    <3>5. Aims(t)' BY <2>1, <3>3, <3>4 DEF Aims
    <3>6. Seated(t)' BY <1>5, <2>1 DEF Seated
    <3> QED BY <1>7, <2>1, <2>4, <3>5, <3>6 DEF Detaches
  <2>6. CASE k.stat[c.on] # "init"
    <3>1. Return(t) \/ Goto(t, "detach_remove") BY <1>14, <2>6 DEF Detach, c
    <3> QED BY <1>5, <1>8, <1>9, <1>10, <2>1, <2>4, <3>1 DEF Detaches
  <2> QED BY <2>5, <2>6
\* Steps that move the thread itself.
<1>15. CASE Yield(t) /\ ~UNCHANGED k
  <2>1. k' = Rotate(k, t) /\ Goto(t, "schedule") /\ ~About(t) /\ ~Detaches(t)
    BY <1>15 DEF Yield, Calls, About, Detaches
  <2>2. /\ Moves(k, k', {t}) /\ ~Out(k', t) /\ Waiting(k', t) = Waiting(k, t)
        /\ k'.stat = k.stat /\ k'.activated = k.activated
    BY <1>0, <2>1, RotateMoves
  <2>3. (Seated(t) /\ Timed(t) /\ Queued(t))' BY <1>6, <2>1, <2>2 DEF Seated, Timed, Queued
  <2>4. Aims(t)' BY <1>9, <2>1 DEF Aims
  <2>5. Calms(k, k', {t}) BY <2>2 DEF Calms
  <2> QED BY <1>7, <2>1, <2>2, <2>3, <2>4, <2>5
<1>16. CASE Sleep(t)
  <2> DEFINE u == SuspendReady(k, t)
  <2>1. Goto(t, "schedule") /\ ~About(t) /\ ~Detaches(t) BY <1>16 DEF Sleep, Calls, About, Detaches
  <2>2. k' = rt_timer_start(u, t, c.arg) BY <1>6, <1>16, <2>1 DEF Sleep, rt_thread_suspend, c
  <2>3. Moves(k, u, {t}) /\ Out(u, t) /\ InNoList(u, t) /\ u.stat = [k.stat EXCEPT ![t] = "suspend"]
    BY <1>0, SuspendMoves
  <2> HIDE DEF u
  <2>4. /\ Moves(u, k', {t}) /\ k'.stat = u.stat /\ (Out(k', t) <=> Out(u, t))
        /\ Waiting(k', t) = Waiting(u, t)
    BY <2>2, <2>3, TimerMoves DEF Moves
  <2>5. Moves(k, k', {t}) BY <2>3, <2>4 DEF Moves, Same
  <2>6. k'.stat[t] = "suspend" /\ Waiting(k', t) = {} BY <1>0, <2>3, <2>4 DEF Listed, InNoList
  <2>7. (Seated(t) /\ Timed(t) /\ Queued(t))' BY <2>6 DEF Seated, Timed, Queued
  <2>8. Aims(t)' BY <1>9, <2>1 DEF Aims
  <2>9. Calms(k, k', {t}) BY <1>6, <2>1 DEF Calms
  <2> QED BY <1>7, <2>1, <2>5, <2>7, <2>8, <2>9
<1>17. CASE Exit(t)
  <2> DEFINE u == rt_schedule_remove_thread(k, t)
             v == [u EXCEPT !.stat[t] = "close"]
             w == rt_timer_detach(v, t)
  <2>1. k' = rt_schedule(w) /\ Stay(t) /\ pc[t] = "user" BY <1>17 DEF Exit, At
  <2>2. Moves(k, u, {t}) /\ Out(u, t) /\ Waiting(u, t) = {} /\ u.stat = k.stat BY <1>0, RemoveMoves
  <2> HIDE DEF u
  <2>3. Listed(u) BY <2>2 DEF Moves
  <2>4. Changes(u, v, {"stat"}) /\ v.stat = [u.stat EXCEPT ![t] = "close"]
    BY <2>3 DEF Listed, Changes, Fields
  <2> HIDE DEF v
  <2>5. v.stat \in [Thread -> State] /\ v.stat[t] = "close" /\ \A y \in Thread \ {t} : v.stat[y] = u.stat[y]
    BY <2>3, <2>4 DEF Listed, State
  <2>6. Moves(u, v, {t}) /\ (Out(v, t) <=> Out(u, t)) /\ Waiting(v, t) = Waiting(u, t)
    BY <2>3, <2>4, <2>5, StateMoves
  <2>7. Moves(v, w, {t}) /\ w.stat = v.stat /\ t \notin w.activated /\ Out(w, t) /\ Waiting(w, t) = {}
    BY <2>2, <2>6, TimerMoves DEF Moves
  <2> HIDE DEF w
  <2>8. Changes(w, k', Processor) BY <2>1, <2>7, SwitchEffect DEF Moves, Listed
  <2>9. Moves(w, k', {}) /\ Same(w, k', t) BY <2>7, <2>8, NobodyMoves DEF Processor, Moves
  <2>10. Moves(k, k', {t}) BY <2>2, <2>6, <2>7, <2>9 DEF Moves, Same
  <2>11. k'.stat[t] = "close" /\ InNoList(k', t) BY <2>5, <2>7, <2>9 DEF Same, InNoList
  <2>12. (Seated(t) /\ Timed(t) /\ Queued(t))' BY <2>11 DEF Seated, Timed, Queued, InNoList
  <2>13. Aims(t)' BY <2>1 DEF Stay, Aims
  <2>14. Calms(k, k', {t}) BY <2>11 DEF Calms, InNoList
  <2> QED BY <1>7, <2>1, <2>10, <2>12, <2>13, <2>14 DEF Detaches
<1>18. CASE Take(t)
  <2>0. PICK o : o = c.on OBVIOUS
  <2>1. pc[t] = "user" /\ calls[t] # <<>> /\ c.op = "take" /\ ~About(t) /\ ~Detaches(t)
    BY <1>18 DEF Take, Calls, About, Detaches, c
  <2>2. o \in WaitList BY <1>2, <2>0, <2>1 DEF ProperCall, WaitList
  <2>3. CASE Return(t) /\ Changes(k, k', {"value"})
    <3>1. Moves(k, k', {}) BY <1>0, <2>3, NobodyMoves
    <3> QED BY <1>5, <1>8, <1>10, <2>1, <2>3, <3>1
  <2>4. CASE k' = Block(k, o, t, c.arg) /\ Goto(t, "schedule")
    <3>0. k.stat[t] = "ready" BY <1>6, <2>1
    <3>1. /\ Moves(k, k', {t}) /\ Out(k', t) /\ Waiting(k', t) = {o}
          /\ k'.stat = [k.stat EXCEPT ![t] = "suspend"]
      <4>1. ASSUME NEW time
            PROVE  LET u == Block(k, o, t, time) IN
                   /\ Moves(k, u, {t}) /\ Out(u, t) /\ Waiting(u, t) = {o}
                   /\ u.stat = [k.stat EXCEPT ![t] = "suspend"]
        BY ONLY <1>0, <2>2, <3>0, t \in Thread, BlockMoves
      <4> QED BY <2>4, <4>1
    <3>2. k'.stat[t] = "suspend" BY <1>0, <3>1 DEF Listed
    <3>3. pc'[t] = "schedule" /\ calls'[t] = calls[t] /\ Call(t)' = c BY <1>9, <2>4
    <3>4. (Seated(t) /\ Timed(t) /\ Queued(t) /\ Aims(t))'
      BY <2>0, <2>1, <3>1, <3>2, <3>3 DEF Seated, Timed, Queued, Aims
    <3>5. Calms(k, k', {t}) BY <1>6, <2>1 DEF Calms
    <3> QED BY <1>7, <2>1, <3>1, <3>4, <3>5
  <2>5. Changes(k, [k EXCEPT !.value[o] = @ - 1], {"value"}) /\ Changes(k, k, {"value"})
    BY <1>0 DEF Changes, Fields
  <2>6. \/ k' = [k EXCEPT !.value[o] = @ - 1] /\ Return(t)
        \/ k' = k /\ Return(t)
        \/ k' = Block(k, o, t, c.arg) /\ Goto(t, "schedule")
    BY <1>18, <2>0 DEF Take, c
  <2> QED BY <2>3, <2>4, <2>5, <2>6
\* Steps that move another thread.
<1>19. CASE SuspendBody(t)
  <2>0. PICK x : x = c.on OBVIOUS
  <2>1. pc[t] = "suspend_body" /\ Return(t) /\ k' = SuspendReady(k, x) BY <1>19, <2>0 DEF SuspendBody, At, c
  <2>2. x \in Thread BY <1>1, <1>2, <2>0, <2>1 DEF Fits, ProperCall
  <2>3. Moves(k, k', {x}) /\ Out(k', x) /\ InNoList(k', x) /\ k'.stat = [k.stat EXCEPT ![x] = "suspend"]
    BY <1>0, <2>1, <2>2, SuspendMoves
  <2>4. k'.stat[x] = "suspend" BY <1>0, <2>2, <2>3 DEF Listed
  <2>5. (Seated(x) /\ Timed(x) /\ Queued(x))' BY <2>3, <2>4 DEF Seated, Timed, Queued, InNoList
  <2>6. Waiting(k', t) = {} BY <1>5, <2>1, <2>3 DEF Moves, Same, InNoList
  <2>7. Seated(t)' /\ Aims(t)' BY <1>10, <2>1, <2>6 DEF Seated, Aims
  <2>8. Calms(k, k', {x}) BY <2>3 DEF Calms, InNoList
  <2> QED BY <1>7, <2>0, <2>1, <2>2, <2>3, <2>5, <2>7, <2>8 DEF Detaches
<1>20. CASE ResumeFirst(t)
  <2>0. PICK x : x = c.on OBVIOUS
  <2>1. pc[t] = "resume_unlink" /\ Goto(t, "resume_insert") /\ k' = ResumeUnlink(k, x)
    BY <1>20, <2>0 DEF ResumeFirst, At, c
  <2>2. x \in Thread /\ k.stat[x] = "suspend"
    BY <1>1, <1>2, <2>0, <2>1 DEF Fits, ProperCall, Orderly, NobodyInterferes, c
  <2>3. pc'[t] = "resume_insert" /\ Call(t)'.on = x BY <1>9, <2>0, <2>1
  <2>4. Moves(k, k', {x}) /\ Out(k', x) /\ InNoList(k', x) /\ k'.stat = k.stat
    BY <1>0, <2>1, <2>2, UnlinkTimerMoves
  <2>5. (Seated(x) /\ Timed(x) /\ Queued(x))' BY <2>2, <2>4 DEF Seated, Timed, Queued, InNoList
  <2>6. Waiting(k', t) = {} BY <1>5, <2>1, <2>4 DEF Moves, Same, InNoList
  <2>7. Seated(t)' /\ Aims(t)' BY <2>3, <2>4, <2>6 DEF Seated, Aims
  <2>8. Calms(k, k', {x}) BY <2>4 DEF Calms, InNoList
  <2> QED BY <1>7, <2>0, <2>1, <2>2, <2>4, <2>5, <2>7, <2>8 DEF Detaches
<1>21. CASE ResumeSecond(t)
  <2>0. PICK x : x = c.on OBVIOUS
  <2>1. /\ pc[t] = "resume_insert" /\ k' = rt_schedule_insert_thread(k, x)
        /\ Goto(t, "schedule") \/ Return(t)
    BY <1>21, <2>0 DEF ResumeSecond, At, c
  <2>2. x \in Thread /\ k.stat[x] = "suspend" /\ InNoList(k, x)
    BY <1>0, <1>1, <1>2, <2>0, <2>1 DEF Fits, ProperCall, Orderly, NobodyInterferes, Aims, c
  <2>3. Out(k, x) BY <2>2 DEF QueuesOK, Out
  <2>4. /\ Moves(k, k', {x}) /\ ~Out(k', x) /\ Waiting(k', x) = Waiting(k, x)
        /\ k'.activated = k.activated
    BY <1>0, <2>1, <2>2, <2>3, InsertMoves
  <2>5. InNoList(k', x) BY <2>2, <2>4 DEF InNoList
  <2>6. (Seated(x) /\ Timed(x) /\ Queued(x))' BY <2>4, <2>5 DEF Seated, Timed, Queued, InNoList
  <2>7. Waiting(k', t) = {} BY <1>5, <2>1, <2>4, <2>5 DEF Moves, Same, InNoList
  <2>8. Seated(t)' /\ Aims(t)' BY <1>9, <1>10, <2>1, <2>7 DEF Seated, Aims
  <2>9. Calms(k, k', {x}) BY <2>5 DEF Calms, InNoList
  <2> QED BY <1>7, <2>0, <2>1, <2>2, <2>4, <2>6, <2>8, <2>9 DEF Detaches
<1>22. CASE Startup(t)
  <2>0. PICK x : x = c.on OBVIOUS
  <2> DEFINE u == [k EXCEPT !.priority[x] = InitPriority[x]]
             v == [u EXCEPT !.stat[x] = "suspend"]
  <2>1. /\ Calls(t, "startup") /\ pc[t] = "user" /\ Goto(t, "resume_unlink")
        /\ k' = [k EXCEPT !.priority[x] = InitPriority[x], !.stat[x] = "suspend"]
    BY <1>22, <2>0 DEF Startup, Calls, c
  <2>2. x \in Thread /\ k.stat[x] = "init"
    BY <1>2, <2>0, <2>1 DEF Calls, ProperCall, Orderly, NobodyInterferes, c
  <2>3. InitPriority[x] \in Priority BY <2>2, SchedAssumption
  <2>4. k' = v BY <1>0, <2>1 DEF Fields
  <2>5. Changes(k, u, {"priority"}) /\ u.priority = [k.priority EXCEPT ![x] = InitPriority[x]]
    BY <1>0 DEF Changes, Fields
  <2>6. u.priority \in [Thread -> Priority] BY <1>0, <2>3, <2>5 DEF Listed
  <2> HIDE DEF u
  <2>7. Moves(k, u, {}) /\ Same(k, u, x) BY <1>0, <2>5, <2>6, PriorityMoves
  <2>8. Listed(u) BY <2>7 DEF Moves
  <2>9. Changes(u, v, {"stat"}) /\ v.stat = [u.stat EXCEPT ![x] = "suspend"]
    BY <2>8 DEF Listed, Changes, Fields
  <2>10. /\ v.stat \in [Thread -> State] /\ v.stat[x] = "suspend"
         /\ \A y \in Thread \ {x} : v.stat[y] = u.stat[y]
    BY <2>2, <2>8, <2>9 DEF Listed, State
  <2> HIDE DEF v
  <2>11. /\ Moves(u, v, {x}) /\ v.activated = u.activated
         /\ (Out(v, x) <=> Out(u, x)) /\ Waiting(v, x) = Waiting(u, x)
    BY <2>2, <2>8, <2>9, <2>10, StateMoves
  <2>12. Moves(k, k', {x}) BY <2>4, <2>7, <2>11 DEF Moves, Same
  <2>13. InNoList(k, x) BY <1>0, <2>2 DEF Seated, Timed, InNoList
  <2>14. InNoList(k', x) BY <2>4, <2>7, <2>11, <2>13 DEF Same, InNoList
  <2>15. (Seated(x) /\ Timed(x) /\ Queued(x))'
    BY <2>4, <2>10, <2>14 DEF Seated, Timed, Queued, InNoList
  <2>16. Waiting(k', t) = {} BY <1>5, <2>1, <2>12, <2>14 DEF Moves, Same, InNoList
  <2>17. Seated(t)' /\ Aims(t)' BY <1>9, <2>1, <2>16 DEF Seated, Aims
  <2>18. Calms(k, k', {x}) BY <2>14 DEF Calms, InNoList
  <2> QED BY <1>7, <2>0, <2>1, <2>2, <2>12, <2>15, <2>17, <2>18 DEF Detaches
<1>23. CASE SetPriority(t)
  <2>0. PICK x : x = c.on OBVIOUS
  <2>1. Calls(t, "set_priority") /\ pc[t] = "user" /\ Return(t) /\ k' = ChangePriority(k, x, c.arg)
    BY <1>23, <2>0 DEF SetPriority, Calls, c
  <2>2. x \in Thread /\ c.arg \in Priority BY <1>2, <2>0, <2>1 DEF Calls, ProperCall, c
  <2>3. /\ Moves(k, k', {x}) /\ k'.activated = k.activated /\ k'.stat = k.stat
        /\ k.stat[x] = "ready" => ~Out(k', x) /\ Waiting(k', x) = {}
        /\ k.stat[x] # "ready" => Same(k, k', x)
    BY <1>0, <2>1, <2>2, ChangePriorityMoves
  <2>4. pc'[t] = "user" /\ Waiting(k, t) = {} /\ ~Detaches(t) BY <1>5, <1>10, <2>1 DEF Detaches
  <2>5. CASE k.stat[x] # "ready"
    <3>1. Moves(k, k', {}) BY <2>3, <2>5 DEF Moves
    <3> QED BY <1>8, <2>4, <3>1
  <2>6. CASE k.stat[x] = "ready"
    <3>1. x \notin k'.activated BY <1>0, <2>2, <2>3, <2>6 DEF Timed
    <3>2. InNoList(k', x) BY <2>3, <2>6, <3>1 DEF InNoList
    <3>3. (Seated(x) /\ Timed(x) /\ Queued(x))' BY <2>3, <2>6, <3>2 DEF Seated, Timed, Queued, InNoList
    <3>4. Waiting(k', t) = {} BY <2>3, <2>4, <3>2 DEF Moves, Same, InNoList
    <3>5. Seated(t)' /\ Aims(t)' BY <2>4, <3>4 DEF Seated, Aims
    <3>6. Calms(k, k', {x}) BY <3>2 DEF Calms, InNoList
    <3> QED BY <1>7, <2>0, <2>2, <2>3, <2>4, <3>3, <3>5, <3>6
  <2> QED BY <2>5, <2>6
<1>24. CASE DetachRemove(t)
  <2>0. PICK x : x = c.on OBVIOUS
  <2>1. pc[t] = "detach_remove" /\ Goto(t, "detach_timer") /\ k' = rt_schedule_remove_thread(k, x)
    BY <1>24, <2>0 DEF DetachRemove, At, c
  <2>2. x \in Thread BY <1>1, <1>2, <2>0, <2>1 DEF Fits, ProperCall
  <2>3. pc'[t] = "detach_timer" /\ Call(t)'.on = x BY <1>9, <2>0, <2>1
  <2>4. /\ Moves(k, k', {x}) /\ Out(k', x) /\ Waiting(k', x) = {}
        /\ k'.stat = k.stat /\ k'.activated = k.activated
    BY <1>0, <2>1, RemoveMoves
  <2>5. Detaching(x)' BY <2>3 DEF Detaching
  <2>6. Seated(x)' /\ Timed(x)' BY <1>0, <2>2, <2>4 DEF Seated, Timed
  <2>7. Queued(x)' BY <2>5 DEF Queued
  <2>8. Waiting(k', t) = {} BY <1>5, <2>1, <2>4 DEF Moves, Same
  <2>9. Seated(t)' /\ Aims(t)' BY <2>3, <2>4, <2>8 DEF Seated, Aims
  <2>10. Calms(k, k', {x}) BY <2>4 DEF Calms
  <2> QED BY <1>7, <2>0, <2>1, <2>2, <2>4, <2>6, <2>7, <2>9, <2>10 DEF Detaches
<1>25. CASE DetachTimer(t)
  <2>0. PICK x : x = c.on OBVIOUS
  <2>1. pc[t] = "detach_timer" /\ Goto(t, "detach_close") /\ k' = rt_timer_detach(k, x)
    BY <1>25, <2>0 DEF DetachTimer, At, c
  <2>2. x \in Thread /\ Waiting(k, x) = {}
    BY <1>0, <1>1, <1>2, <2>0, <2>1 DEF Fits, ProperCall, Aims, c
  <2>3. pc'[t] = "detach_close" /\ Call(t)'.on = x BY <1>9, <2>0, <2>1
  <2>4. /\ Moves(k, k', {x}) /\ k'.stat = k.stat /\ x \notin k'.activated
        /\ Waiting(k', x) = Waiting(k, x)
    BY <1>0, <2>1, TimerMoves
  <2>5. Detaching(x)' BY <2>3 DEF Detaching
  <2>6. (Seated(x) /\ Timed(x) /\ Queued(x))' BY <2>2, <2>4, <2>5 DEF Seated, Timed, Queued
  <2>7. Waiting(k', t) = {} BY <1>5, <2>1, <2>2, <2>4 DEF Moves, Same
  <2>8. Seated(t)' /\ Aims(t)' BY <2>2, <2>3, <2>4, <2>7 DEF Seated, Aims, InNoList
  <2>9. Calms(k, k', {x}) BY <2>2, <2>4 DEF Calms
  <2> QED BY <1>7, <2>0, <2>1, <2>2, <2>4, <2>6, <2>8, <2>9 DEF Detaches
<1>26. CASE DetachClose(t)
  <2>0. PICK x : x = c.on OBVIOUS
  <2>1. pc[t] = "detach_close" /\ Return(t) /\ k' = [k EXCEPT !.stat[x] = "close"]
    BY <1>26, <2>0 DEF DetachClose, At, c
  <2>2. x \in Thread /\ InNoList(k, x)
    BY <1>0, <1>1, <1>2, <2>0, <2>1 DEF Fits, ProperCall, Aims, c
  <2>3. Changes(k, k', {"stat"}) /\ k'.stat = [k.stat EXCEPT ![x] = "close"]
    BY <1>0, <2>1 DEF Changes, Fields
  <2>4. /\ k'.stat \in [Thread -> State] /\ k'.stat[x] = "close"
        /\ \A y \in Thread \ {x} : k'.stat[y] = k.stat[y]
    BY <1>0, <2>2, <2>3 DEF Listed, State
  <2>5. Moves(k, k', {x}) /\ k'.activated = k.activated /\ Waiting(k', x) = Waiting(k, x)
    BY <1>0, <2>2, <2>3, <2>4, StateMoves
  <2>6. InNoList(k', x) BY <2>2, <2>5 DEF InNoList
  <2>7. (Seated(x) /\ Timed(x) /\ Queued(x))' BY <2>4, <2>6 DEF Seated, Timed, Queued, InNoList
  <2>8. Waiting(k', t) = {} BY <1>5, <2>1, <2>5, <2>6 DEF Moves, Same, InNoList
  <2>9. Seated(t)' /\ Aims(t)' BY <1>10, <2>1, <2>8 DEF Seated, Aims
  <2>10. Calms(k, k', {x}) BY <2>6 DEF Calms, InNoList
  <2> QED BY <1>7, <2>0, <2>2, <2>5, <2>7, <2>9, <2>10
<1>27. CASE StopTimerBody(t)
  <2>0. PICK x : x = c.on OBVIOUS
  <2>1. pc[t] = "stop_timer" /\ Return(t) /\ k' = rt_timer_detach(k, x)
    BY <1>27, <2>0 DEF StopTimerBody, At, c
  <2>2. /\ Moves(k, k', {x}) /\ k'.stat = k.stat /\ x \notin k'.activated
        /\ (Out(k', x) <=> Out(k, x)) /\ Waiting(k', x) = Waiting(k, x)
    BY <1>0, <2>1, TimerMoves
  <2>3. pc'[t] = "user" /\ Waiting(k, t) = {} /\ ~Detaches(t) BY <1>5, <1>10, <2>1 DEF Detaches
  <2>4. CASE x \notin Thread
    <3>1. Moves(k, k', {}) BY <2>2, <2>4 DEF Moves
    <3> QED BY <1>8, <2>3, <3>1
  <2>5. CASE x \in Thread
    <3>1. Waiting(k', t) = {} BY <2>2, <2>3 DEF Moves, Same
    <3>2. Seated(t)' /\ Aims(t)' BY <2>3, <3>1 DEF Seated, Aims
    <3>3. Seated(x)'
      <4>1. CASE x = t BY <3>2, <4>1
      <4>2. CASE x # t
        <5>1. pc'[x] = pc[x] /\ calls'[x] = calls[x] /\ Call(x)' = Call(x) BY <1>4, <2>5, <4>2 DEF Call
        <5> QED BY <1>0, <2>2, <2>5, <5>1 DEF Seated
      <4> QED BY <4>1, <4>2
    <3>4. Timed(x)' BY <2>2 DEF Timed
    <3>5. Queued(x)'
      <4> SUFFICES ASSUME k'.stat[x] = "ready", Out(k', x) PROVE Detaching(x)' BY DEF Queued
      <4>1. k.stat[x] = "ready" /\ Out(k, x) BY <2>2
      <4>2. PICK y \in Thread : Detaches(y) /\ Call(y).on = x
        BY <1>0, <2>5, <4>1 DEF Queued, Detaching, Detaches
      <4>3. pc'[y] = pc[y] /\ Call(y)' = Call(y) BY <1>4, <2>3, <4>2 DEF Call
      <4> QED BY <4>2, <4>3 DEF Detaching, Detaches
    <3>6. Calms(k, k', {x}) BY <2>2 DEF Calms
    <3> QED BY <1>7, <2>2, <2>3, <2>5, <3>2, <3>3, <3>4, <3>5, <3>6
  <2> QED BY <2>4, <2>5
\* Steps that resume threads from a list.
<1>28. ASSUME NEW W \in SUBSET Thread, Revives(k, k', W), Waiting(k, t) = {}, ~Detaches(t),
              pc'[t] \in {"user", "schedule", "drain"}
       PROVE  Waits'
  <2>1. \A x \in W : (Seated(x) /\ Timed(x) /\ Queued(x))'
    BY <1>28 DEF Seated, Timed, Queued, Revives, InNoList
  <2>2. Waiting(k', t) = {} BY <1>28 DEF Revives, Moves, Same, InNoList
  <2>3. Seated(t)' /\ Aims(t)' BY <1>28, <2>2 DEF Seated, Aims
  <2>4. Calms(k, k', W) /\ Moves(k, k', W) BY <1>28 DEF Calms, Revives, InNoList
  <2> QED BY <1>7, <1>28, <2>1, <2>3, <2>4
<1>29. WaitersSleep(k) BY <1>0 DEF WaitersSleep, Seated
<1>30. CASE SemRelease(t)
  <2>0. PICK o : o = c.on OBVIOUS
  <2>1. pc[t] = "user" /\ calls[t] # <<>> /\ c.op = "release" /\ k' = Release(k, o)
    BY <1>30, <2>0 DEF SemRelease, Calls, c
  <2>2. o \in WaitList BY <1>2, <2>0, <2>1 DEF ProperCall, WaitList
  <2>3. PICK W \in SUBSET Thread : Revives(k, k', W) BY <1>0, <1>29, <2>1, <2>2, ReleaseRevives
  <2>4. pc'[t] \in {"user", "schedule"} BY <1>9, <1>10, <1>30 DEF SemRelease
  <2>5. Waiting(k, t) = {} /\ ~Detaches(t) BY <1>5, <2>1 DEF Detaches
  <2> QED BY <1>28, <2>3, <2>4, <2>5
<1>31. CASE Reset(t)
  <2>0. PICK o : o = c.on OBVIOUS
  <2> DEFINE u == ResumeAll(k, o)
  <2>1. /\ pc[t] = "user" /\ calls[t] # <<>> /\ c.op = "reset" /\ Goto(t, "schedule")
        /\ k' = [u EXCEPT !.value[o] = c.arg]
    BY <1>31, <2>0 DEF Reset, Calls, c
  <2>2. o \in WaitList BY <1>2, <2>0, <2>1 DEF ProperCall, WaitList
  <2>3. PICK W \in SUBSET Thread : Revives(k, u, W) BY <1>0, <1>29, <2>2, AllRevive
  <2> HIDE DEF u
  <2>4. Listed(u) BY <2>3 DEF Revives, Moves
  <2>5. Changes(u, k', {"value"}) BY <2>1, <2>4 DEF Listed, Changes, Fields
  <2>6. Revives(u, k', {}) BY <2>4, <2>5, NobodyRevives
  <2>7. Revives(k, k', W \cup {}) BY <2>3, <2>6, RevivesInTurn
  <2>8. pc'[t] = "schedule" /\ Waiting(k, t) = {} /\ ~Detaches(t) BY <1>5, <1>9, <2>1 DEF Detaches
  <2> QED BY <1>28, <2>7, <2>8
<1>32. CASE DrainOne(t)
  <2>0. PICK o : o = c.on OBVIOUS
  <2>1. /\ pc[t] = "drain_one" /\ Goto(t, "drain")
        /\ k' = IF k.waiting[o] # <<>> THEN ResumeWithError(k, o) ELSE k
    BY <1>32, <2>0 DEF DrainOne, At, c
  <2>2. o \in WaitList BY <1>1, <1>2, <2>0, <2>1 DEF Fits, ProperCall
  <2>3. Changes(k, k, {}) BY <1>0 DEF Changes
  <2>4. Revives(k, k, {}) BY <1>0, <2>3, NobodyRevives
  <2>5. \E W \in SUBSET Thread : Revives(k, k', W) BY <1>0, <1>29, <2>1, <2>2, <2>4, ErrorRevives
  <2>6. PICK W \in SUBSET Thread : Revives(k, k', W) BY <2>5
  <2>7. pc'[t] = "drain" /\ Waiting(k, t) = {} /\ ~Detaches(t) BY <1>5, <1>9, <2>1 DEF Detaches
  <2> QED BY <1>28, <2>6, <2>7
<1> QED
  BY <1>11, <1>12, <1>13, <1>14, <1>15, <1>16, <1>17, <1>18, <1>19, <1>20, <1>21, <1>22, <1>23, <1>24,
     <1>25, <1>26, <1>27, <1>30, <1>31, <1>32 DEF ThreadStep

LEMMA InterruptKeepsWaits ==
  ASSUME NEW C, Proper(C), CallsOK(C), QueuesOK(k), Orderly, Waits, k.current \in Thread,
         TimersOK(k, {}, 0), Tick \/ TimerExpires \/ TickReturns
  PROVE  Waits'
<1>0. /\ DOMAIN k = Fields /\ Listed(k)
      /\ \A x \in Thread : Seated(x) /\ Timed(x) /\ Queued(x) /\ Aims(x)
  BY DEF QueuesOK, Waits
<1>1. UNCHANGED <<pc, calls>> BY DEF Tick, TimerExpires, TickReturns
<1>2. ASSUME NEW W \in SUBSET Thread, Moves(k, k', W), Calms(k, k', W),
             \A x \in W : (Seated(x) /\ Timed(x) /\ Queued(x))'
      PROVE  Waits'
  <2>1. {} \in SUBSET Thread OBVIOUS
  <2>2. \A y \in Thread \ {} : pc'[y] = pc[y] /\ calls'[y] = calls[y] BY <1>1
  <2> QED BY <1>2, <2>1, <2>2, OthersWait
<1>3. ASSUME NEW W \in SUBSET Thread, Revives(k, k', W) PROVE Waits'
  <2>1. \A x \in W : (Seated(x) /\ Timed(x) /\ Queued(x))'
    BY <1>3 DEF Seated, Timed, Queued, Revives, InNoList
  <2>2. Calms(k, k', W) /\ Moves(k, k', W) BY <1>3 DEF Calms, Revives, InNoList
  <2> QED BY <1>2, <1>3, <2>1, <2>2
<1>4. CASE Tick
  <2>0. PICK t \in Thread : t = k.current OBVIOUS
  <2> DEFINE u == [k EXCEPT !.tick = (@ + 1) % TickMod]
             v == [u EXCEPT !.remaining_tick[t] = Slice[t]]
             w == [u EXCEPT !.remaining_tick[t] = @ - 1]
             r == Rotate(v, t)
  <2>1. k' = IF k.remaining_tick[t] > 1 THEN w
             ELSE IF CanYield(v, t) THEN ScheduleInInterrupt(r) ELSE v
    <3>1. u.remaining_tick = k.remaining_tick BY <1>0 DEF Fields
    <3> QED BY <1>4, <2>0, <3>1 DEF Tick, TickOver
  <2>2. Changes(k, v, {"tick", "remaining_tick"}) /\ Changes(k, w, {"tick", "remaining_tick"})
    BY <1>0 DEF Changes, Fields
  <2> HIDE DEF u, v, w
  <2>3. Revives(k, v, {}) /\ Revives(k, w, {}) BY <1>0, <2>2, NobodyRevives
  <2>4. CASE CanYield(v, t) /\ k' = ScheduleInInterrupt(r)
    <3>1. Listed(v) BY <2>3 DEF Revives, Moves
    <3>2. /\ Moves(v, r, {t}) /\ ~Out(r, t) /\ Waiting(r, t) = Waiting(v, t)
          /\ r.stat = v.stat /\ r.activated = v.activated
      BY <3>1, RotateMoves
    <3> HIDE DEF r
    <3>3. Changes(r, k', Processor) BY <2>4, <3>2, SwitchEffect DEF Moves, Listed
    <3>4. Moves(r, k', {}) /\ Same(r, k', t) BY <3>2, <3>3, NobodyMoves DEF Processor, Moves
    <3>5. Same(k, v, t) BY <2>3 DEF Revives, Moves
    <3>6. Moves(k, k', {t}) BY <2>3, <3>2, <3>4 DEF Revives, Moves, Same
    <3>7. /\ Waiting(k', t) = Waiting(k, t) /\ k'.stat[t] = k.stat[t] /\ ~Out(k', t)
          /\ t \in k'.activated <=> t \in k.activated
      BY <3>2, <3>4, <3>5 DEF Same
    <3>8. Call(t)' = Call(t) BY <1>1 DEF Call
    <3>9. (Seated(t) /\ Timed(t) /\ Queued(t))' BY <1>0, <1>1, <3>7, <3>8 DEF Seated, Timed, Queued
    <3>10. Calms(k, k', {t}) BY <3>7 DEF Calms
    <3> QED BY <1>2, <3>6, <3>9, <3>10
  <2> QED BY <1>3, <2>1, <2>3, <2>4
<1>5. CASE TickReturns
  <2>1. Changes(k, k', Processor) BY <1>0, <1>5, SwitchEffect DEF TickReturns
  <2>2. Revives(k, k', {}) BY <1>0, <2>1, NobodyRevives DEF Processor
  <2> QED BY <1>3, <2>2
<1>6. CASE TimerExpires
  <2>0. PICK x : x = Head(k.timers) OBVIOUS
  <2> DEFINE a == [k EXCEPT !.timers = Tail(@)]
             d == rt_timer_detach(k, x)
  <2>1. k' = (IF x \in Periodic THEN rt_timer_start(Fire(a, x), x, k.init_tick[x]) ELSE Fire(d, x))
    BY <1>6, <2>0 DEF TimerExpires, Expire
  <2>2. x \in Timer /\ x \in k.activated
    <3>1. k.timers \in Seq(Timer) /\ k.timers # <<>> /\ Range(k.timers) = k.activated
      BY <1>6 DEF TimersOK, TimerExpires, TimerIsDue
    <3>2. 1 \in DOMAIN k.timers /\ x = k.timers[1] BY <2>0, <3>1, EmptySeq
    <3> QED BY <3>1, <3>2 DEF Range
  <2>3. Changes(k, a, {"timers"}) BY <1>0 DEF Changes, Fields
  <2>4. /\ Moves(k, d, {x}) /\ d.stat = k.stat /\ x \notin d.activated
        /\ (Out(d, x) <=> Out(k, x)) /\ Waiting(d, x) = Waiting(k, x)
    BY <1>0, TimerMoves
  <2> HIDE DEF a, d
  <2>5. CASE x \in Thread
    <3>1. x \notin Periodic BY <2>5, SchedAssumption
    <3>2. k' = rt_thread_timeout(d, x) BY <2>1, <2>5, <3>1 DEF Fire
    <3>3. /\ Moves(d, k', {x}) /\ ~Out(k', x) /\ Waiting(k', x) = {}
          /\ k'.activated = d.activated
      BY <2>4, <2>5, <3>2, TimeoutMoves DEF Moves
    <3>4. Moves(k, k', {x}) BY <2>4, <3>3 DEF Moves, Same
    <3>5. (Seated(x) /\ Timed(x) /\ Queued(x))' BY <2>4, <3>3 DEF Seated, Timed, Queued
    <3>6. Calms(k, k', {x}) BY <2>4, <3>3 DEF Calms
    <3> QED BY <1>2, <2>5, <3>4, <3>5, <3>6
  <2>6. CASE x \notin Thread
    <3>1. Signals[x] \in WaitList BY <2>2, <2>6, SchedAssumption DEF Timer, WaitList
    <3>2. WaitersSleep(k) BY <1>0 DEF WaitersSleep, Seated
    <3>3. ASSUME NEW s, Revives(k, s, {}) PROVE \E W \in SUBSET Thread : Revives(k, Fire(s, x), W)
      <4> DEFINE r == Release(s, Signals[x])
      <4>1. Listed(s) /\ WaitersSleep(s) BY <3>2, <3>3, WaitersStillSleep DEF Revives, Moves
      <4>2. PICK W \in SUBSET Thread : Revives(s, r, W) BY <3>1, <4>1, ReleaseRevives
      <4>3. Fire(s, x) = r \/ Fire(s, x) = ScheduleInInterrupt(r) BY <2>6 DEF Fire
      <4> HIDE DEF r
      <4>4. Listed(r) BY <4>2 DEF Revives, Moves
      <4>5. Changes(r, ScheduleInInterrupt(r), Processor) BY <4>4, SwitchEffect DEF Listed
      <4>6. Revives(r, ScheduleInInterrupt(r), {}) BY <4>4, <4>5, NobodyRevives DEF Processor
      <4>7. Revives(k, r, {} \cup W) /\ Revives(k, ScheduleInInterrupt(r), ({} \cup W) \cup {})
        BY <3>3, <4>2, <4>6, RevivesInTurn
      <4>8. {} \cup W \in SUBSET Thread /\ ({} \cup W) \cup {} \in SUBSET Thread OBVIOUS
      <4> QED BY <4>3, <4>7, <4>8
    <3>4. Revives(k, a, {}) BY <1>0, <2>3, NobodyRevives
    <3>5. Revives(k, d, {}) BY <2>4, <2>6 DEF Revives, Moves
    <3>6. CASE x \in Periodic
      <4> DEFINE f == Fire(a, x)
      <4>1. PICK W \in SUBSET Thread : Revives(k, f, W) BY <3>3, <3>4
      <4>2. k' = rt_timer_start(f, x, k.init_tick[x]) BY <2>1, <3>6
      <4> HIDE DEF f
      <4>3. Moves(f, k', {x}) BY <4>1, <4>2, TimerMoves DEF Revives, Moves
      <4>4. Revives(f, k', {}) BY <2>6, <4>3 DEF Revives, Moves
      <4>5. Revives(k, k', W \cup {}) BY <4>1, <4>4, RevivesInTurn
      <4> QED BY <1>3, <4>5
    <3>7. CASE x \notin Periodic
      <4>1. \E W \in SUBSET Thread : Revives(k, k', W) BY <2>1, <3>3, <3>5, <3>7
      <4> QED BY <1>3, <4>1
    <3> QED BY <3>6, <3>7
  <2> QED BY <2>5, <2>6
<1> QED BY <1>4, <1>5, <1>6

-----------------------------------------------------------------------------
(***************************************************************************)
(* The scheduler is asked in time.                                         *)
(***************************************************************************)
LEMMA AskedNext ==
  ASSUME NEW C, NEW t, NEW q \in Seq(C), q # <<>>, Asks(t, q)
  PROVE  /\ Asks(t, Tail(q))
         /\ Head(q).op \in Leaves => Tail(q) # <<>> /\ Head(Tail(q)).op = "schedule"
         /\ Head(q).op = "detach" => Head(q).on # t
<1>1. /\ Tail(q) \in Seq(C) /\ Len(Tail(q)) = Len(q) - 1 /\ Len(q) \in Nat /\ Head(q) = q[1] /\ 1 \in DOMAIN q
      /\ DOMAIN q = 1 .. Len(q) /\ DOMAIN Tail(q) = 1 .. Len(q) - 1
      /\ \A i \in 1 .. Len(q) - 1 : Tail(q)[i] = q[i + 1]
  BY HeadTailProperties, EmptySeq
<1>2. Asks(t, Tail(q)) BY <1>1 DEF Asks
<1>3. ASSUME q[1].op \in Leaves PROVE Tail(q) # <<>> /\ Head(Tail(q)).op = "schedule"
  <2>1. 1 < Len(q) /\ q[2].op = "schedule" BY <1>1, <1>3 DEF Asks
  <2> DEFINE r == Tail(q)
  <2>2. r \in Seq(C) /\ Len(r) > 0 /\ r[1] = q[2] BY <1>1, <2>1
  <2> HIDE DEF r
  <2>3. r # <<>> /\ Head(r) = r[1] BY <2>2
  <2> QED BY <2>1, <2>2, <2>3 DEF r
<1>4. Head(q).op = "detach" => Head(q).on # t BY <1>1 DEF Asks
<1> QED BY <1>1, <1>2, <1>3, <1>4

\* The scheduler has been asked: the thread that runs is the first of the highest priority, or
\* the scheduler is locked.
First(s) ==
  /\ s.lock_nest \in Nat
  /\ s.lock_nest = 0 => s.current = Highest(s)
  /\ s.lock_nest > 0 => ~Out(s, s.current)

LEMMA ScheduledFirst ==
  ASSUME NEW s, DOMAIN s = Fields, s.lock_nest \in Nat, s.lock_nest > 0 => ~Out(s, s.current)
  PROVE  /\ First(rt_schedule(s)) /\ First(ScheduleInInterrupt(s))
         /\ rt_schedule(s).lock_nest = s.lock_nest /\ ScheduleInInterrupt(s).lock_nest = s.lock_nest
<1> DEFINE h == Highest(s)
           c == [s EXCEPT !.current = h]
<1>1. CASE s.lock_nest > 0 \/ h = s.current
  <2>1. rt_schedule(s) = s /\ ScheduleInInterrupt(s) = s BY <1>1 DEF rt_schedule, ScheduleInInterrupt
  <2> QED BY <1>1, <2>1 DEF First
<1>2. CASE ~(s.lock_nest > 0 \/ h = s.current)
  <2>1. /\ rt_schedule(s) = rt_hw_context_switch(c, s.current, h)
        /\ ScheduleInInterrupt(s) = rt_hw_context_switch_interrupt(c, s.current, h)
    BY <1>2 DEF rt_schedule, ScheduleInInterrupt
  <2>2. /\ DOMAIN c = Fields /\ c.ready = s.ready /\ c.group = s.group /\ c.current = h
        /\ c.lock_nest = s.lock_nest
    BY DEF Fields
  <2> HIDE DEF c, h
  <2>3. \A u \in {rt_schedule(s), ScheduleInInterrupt(s)} :
          u.ready = s.ready /\ u.group = s.group /\ u.current = h /\ u.lock_nest = s.lock_nest
    <3>1. ASSUME NEW a, NEW b, NEW u \in {rt_hw_context_switch(c, a, b), rt_hw_context_switch_interrupt(c, a, b)}
          PROVE  u.ready = c.ready /\ u.group = c.group /\ u.current = c.current /\ u.lock_nest = c.lock_nest
      BY <2>2 DEF rt_hw_context_switch, rt_hw_context_switch_interrupt, Fields
    <3> QED BY <2>1, <2>2, <3>1
  <2>4. \A u \in {rt_schedule(s), ScheduleInInterrupt(s)} : Highest(u) = h BY <2>3 DEF Highest, h
  <2> QED BY <1>2, <2>3, <2>4 DEF First
<1> QED BY <1>1, <1>2

\* A thread is removed from its queue that is not the highest.
LEMMA RemovedBelow ==
  ASSUME NEW s, QueuesOK(s), NEW t \in Thread \ {Idle}, t # Highest(s)
  PROVE  Highest(rt_schedule_remove_thread(s, t)) = Highest(s)
<1> DEFINE u == rt_schedule_remove_thread(s, t)
<1>1. PICK p \in s.group : /\ \A q \in s.group : p <= q
                           /\ Highest(s) = Head(s.ready[p]) /\ s.ready[p] \in Seq(Thread)
                           /\ s.ready[p] # <<>> /\ Highest(s) \in Range(s.ready[p])
  BY HighestIsFirst
<1>2. QueuesOK(u) BY RemovedFromQueue
<1>3. u.ready = [q \in Priority |-> RemoveFirst(s.ready[q], t)]
  <2> DEFINE v == Unlink(s, t)
  <2>1. DOMAIN v = Fields /\ v.ready = [q \in Priority |-> RemoveFirst(s.ready[q], t)]
    BY DEF Unlink, QueuesOK, Fields
  <2>2. u = IF v.ready[v.priority[t]] = <<>> THEN [v EXCEPT !.group = @ \ {v.priority[t]}] ELSE v
    BY DEF rt_schedule_remove_thread
  <2> HIDE DEF v
  <2> QED BY <2>1, <2>2 DEF Fields
<1> HIDE DEF u
<1>4. p \in Priority /\ p \in Nat /\ \A q \in Priority : q \in Nat BY DEF QueuesOK, Priority
<1>5. u.ready[p] # <<>> /\ Head(u.ready[p]) = Head(s.ready[p])
  <2> DEFINE q == s.ready[p]
             r == RemoveFirst(q, t)
  <2>1. q \in Seq(Thread) /\ q # <<>> /\ Head(q) # t /\ u.ready[p] = r BY <1>1, <1>3, <1>4
  <2>2. CASE t \notin Range(q) BY <2>1, <2>2, NotInside
  <2>3. CASE t \in Range(q)
    <3> HIDE DEF q
    <3>1. PICK m \in 1 .. Len(q) : /\ q[m] = t /\ r \in Seq(Thread) /\ Len(r) = Len(q) - 1
                                   /\ \A i \in 1 .. Len(q) - 1 : r[i] = IF i < m THEN q[i] ELSE q[i + 1]
      BY <2>1, <2>3, RemoveFirstAt
    <3> HIDE DEF r
    <3>2. Head(q) = q[1] /\ Len(q) \in Nat BY <2>1
    <3>3. m > 1 BY <2>1, <3>1, <3>2
    <3>4. 1 \in 1 .. Len(q) - 1 /\ r[1] = q[1] BY <3>1, <3>2, <3>3
    <3>5. r # <<>> /\ Head(r) = r[1] BY <3>1, <3>2, <3>4, EmptySeq
    <3> QED BY <2>1, <3>2, <3>4, <3>5 DEF q
  <2> QED BY <2>2, <2>3
<1>6. p \in u.group BY <1>2, <1>4, <1>5 DEF QueuesOK
<1>7. ASSUME NEW q \in u.group PROVE p <= q
  <2>1. q \in Priority /\ u.ready[q] # <<>> BY <1>2 DEF QueuesOK
  <2>2. s.ready[q] # <<>>
    <3>1. s.ready[q] \in Seq(Thread) /\ u.ready[q] \in Seq(Thread) BY <1>2, <2>1 DEF QueuesOK
    <3>2. Range(u.ready[q]) = Range(s.ready[q]) \ {t}
      BY <1>3, <2>1, <3>1, RemoveFirstProperties DEF QueuesOK
    <3> QED BY <2>1, <3>1, <3>2, EmptyRange
  <2>3. q \in s.group BY <2>1, <2>2 DEF QueuesOK
  <2> QED BY <1>1, <2>3
<1>8. (CHOOSE q \in u.group : \A r \in u.group : q <= r) = p
  <2>1. \A q \in u.group : (\A r \in u.group : q <= r) => q = p
    <3> SUFFICES ASSUME NEW q \in u.group, \A r \in u.group : q <= r PROVE q = p OBVIOUS
    <3>1. q \in Nat /\ q <= p /\ p <= q BY <1>2, <1>4, <1>6, <1>7 DEF QueuesOK
    <3> QED BY <1>4, <3>1
  <2> QED BY <1>6, <1>7, <2>1
<1>9. Highest(u) = Head(u.ready[p]) BY <1>8 DEF Highest
<1> QED BY <1>1, <1>5, <1>9 DEF u

AllAsk == \A t \in Thread : Asks(t, calls[t])

LEMMA UnlinkedApart ==
  ASSUME NEW s, QueuesOK(s), NEW t, Out(s, t) PROVE Unlink(s, t).ready = s.ready
<1>1. Unlink(s, t).ready = [p \in Priority |-> RemoveFirst(s.ready[p], t)] BY DEF Unlink, QueuesOK, Fields
<1> QED BY <1>1, NotInside DEF QueuesOK, Out

LEMMA AllEffect ==
  ASSUME NEW s, NEW o, DOMAIN s = Fields PROVE Changes(s, ResumeAll(s, o), RoundFields)
BY DEF Changes, ResumeAll, Fields, RoundFields

LEMMA ThreadKeepsPrompt ==
  ASSUME NEW C, Proper(C), CallsOK(C), QueuesOK(k), Orderly, Waits, Prompt, AllAsk,
         NEW t \in Thread, t = k.current, t = k.cpu, isr = "none", ThreadStep(t)
  PROVE  Prompt'
<1> DEFINE c == Call(t)
<1>0. DOMAIN k = Fields /\ Listed(k) /\ k.lock_nest \in Nat BY DEF QueuesOK, Waits, Prompt
<1>1. pc[t] # "user" => calls[t] # <<>> /\ Fits(pc[t], c.op) BY DEF CallsOK
<1>2. calls[t] # <<>> => ProperCall(c) BY Called DEF CallsOK
<1>3. pc \in [Thread -> Label] /\ calls \in [Thread -> Seq(C)] BY DEF CallsOK
<1>4. k.lock_nest = 0 \/ k.lock_nest > 0 BY <1>0
<1>5. k.lock_nest > 0 => ~Out(k, t) BY DEF Prompt
<1>6. ~About(t) => ~Out(k, t) BY Running
<1>7. k.lock_nest > 0 => /\ calls[t] # <<>> /\ c.op # "sleep"
                         /\ Calls(t, "take") => k.value[c.on] > 0 \/ c.arg = 0
                         /\ c.op = "suspend" => c.on # t
  BY DEF Orderly, NobodyBlocksLocked
<1>8. ASSUME Return(t), calls[t] # <<>>, c.op \in Leaves PROVE About(t)'
  <2>1. pc'[t] = "user" /\ calls'[t] = Tail(calls[t]) BY <1>3, <1>8 DEF Return
  <2>2. Asks(t, calls[t]) /\ calls[t] \in Seq(C) BY <1>3 DEF AllAsk
  <2>3. Tail(calls[t]) # <<>> /\ Head(Tail(calls[t])).op = "schedule" BY <1>8, <2>2, AskedNext DEF Call
  <2> QED BY <2>1, <2>3 DEF About, Calls, Call
<1>9. ASSUME NEW l, l \in {"schedule", "drain", "drain_one"}, Goto(t, l) PROVE About(t)'
  BY <1>3, <1>9 DEF Goto, About
<1> HIDE DEF c
\* The scheduler is asked, the queues stay, or the scheduler will be asked.
<1>10. ASSUME First(k') PROVE Prompt' BY <1>10 DEF First, Prompt
<1>11. ASSUME NEW F, Changes(k, k', F), F \cap {"current", "lock_nest"} = {},
              k'.ready = k.ready, k'.group = k.group, ~About(t)
       PROVE  Prompt'
  <2>1. k'.current = t /\ k'.lock_nest = k.lock_nest BY <1>11 DEF Changes, Fields
  <2>2. Highest(k') = Highest(k) /\ (~Out(k', t)) BY <1>6, <1>11 DEF Highest, Out
  <2> QED BY <1>0, <1>11, <2>1, <2>2 DEF Prompt
<1>12. ASSUME NEW F, Changes(k, k', F), F \cap {"current", "lock_nest"} = {}, About(t)',
              k.lock_nest > 0 => ~Out(k', t)
       PROVE  Prompt'
  <2>1. k'.current = t /\ k'.lock_nest = k.lock_nest BY <1>12 DEF Changes, Fields
  <2> QED BY <1>0, <1>12, <2>1 DEF Prompt
<1>13. CASE Schedule(t) \/ CallSchedule(t)
  <2>1. k' = rt_schedule(k) BY <1>13 DEF Schedule, CallSchedule
  <2> QED BY <1>0, <1>5, <1>10, <2>1, ScheduledFirst
<1>14. CASE Exit(t)
  <2> DEFINE u == rt_schedule_remove_thread(k, t)
             v == [u EXCEPT !.stat[t] = "close"]
             w == rt_timer_detach(v, t)
  <2>1. k' = rt_schedule(w) /\ calls[t] = <<>> BY <1>14 DEF Exit
  <2>2. Changes(k, u, QueueParts) BY <1>0, RemoveEffect
  <2> HIDE DEF u
  <2>3. Changes(u, v, {"stat"}) BY <2>2 DEF Changes, Fields
  <2> HIDE DEF v
  <2>4. Changes(v, w, TimerParts) BY <2>3, DetachEffect DEF Changes
  <2> HIDE DEF w
  <2>5. DOMAIN w = Fields /\ w.lock_nest = k.lock_nest
    BY <2>2, <2>3, <2>4 DEF Changes, Fields, QueueParts, TimerParts
  <2> QED BY <1>0, <1>4, <1>7, <1>10, <2>1, <2>5, ScheduledFirst
<1>15. CASE EnterCritical(t) \/ ExitCritical(t)
  <2>1. ~About(t) /\ k'.current = t /\ k'.ready = k.ready
    BY <1>0, <1>15 DEF EnterCritical, ExitCritical, Calls, About, Fields
  <2>2. ~Out(k', t) BY <1>6, <2>1 DEF Out
  <2>3. CASE EnterCritical(t)
    <3>1. k'.lock_nest = k.lock_nest + 1 BY <1>0, <2>3 DEF EnterCritical, Fields
    <3> QED BY <1>0, <2>1, <2>2, <3>1 DEF Prompt
  <2>4. CASE ExitCritical(t)
    <3>1. k'.lock_nest = IF k.lock_nest > 0 THEN k.lock_nest - 1 ELSE 0
      BY <1>0, <2>4 DEF ExitCritical, Fields
    <3>2. k'.lock_nest \in Nat BY <1>0, <3>1
    <3>3. CASE k.lock_nest > 1
      <4>1. k'.lock_nest > 0 BY <1>0, <3>1, <3>3
      <4> QED BY <2>1, <2>2, <3>2, <4>1 DEF Prompt
    <3>4. CASE ~(k.lock_nest > 1)
      <4>1. Goto(t, "schedule") BY <2>4, <3>4 DEF ExitCritical
      <4>2. About(t)' BY <1>9, <4>1
      <4> QED BY <2>1, <2>2, <3>2, <4>2 DEF Prompt
    <3> QED BY <3>3, <3>4
  <2> QED BY <1>15, <2>3, <2>4
<1>16. CASE \/ SleepReturn(t) \/ Suspend(t) \/ Resume(t) \/ Startup(t) \/ Detach(t)
            \/ DetachClose(t) \/ TakeReturn(t) \/ Poll(t) \/ SetTime(t) \/ StopTimer(t)
            \/ (Yield(t) /\ UNCHANGED k)
  <2>1. /\ Changes(k, k', {"error", "stat", "priority", "value", "init_tick"})
        /\ k'.ready = k.ready /\ k'.group = k.group
    BY <1>0, <1>16
       DEF SleepReturn, Suspend, Resume, Startup, Detach, DetachClose, TakeReturn, Poll, SetTime,
           StopTimer, Yield, Changes, Fields
  <2>2. ~About(t)
    BY <1>16 DEF SleepReturn, Suspend, Resume, Startup, Detach, DetachClose, TakeReturn, Poll, SetTime,
                 StopTimer, Yield, About, Calls, At
  <2> QED BY <1>11, <2>1, <2>2
<1>17. CASE DetachTimer(t) \/ StartTimer(t) \/ StopTimerBody(t)
  <2>1. Changes(k, k', TimerParts) /\ ~About(t)
    BY <1>0, <1>17, DetachEffect, StartEffect
       DEF DetachTimer, StartTimer, StopTimerBody, About, Calls, At
  <2>2. k'.ready = k.ready /\ k'.group = k.group BY <2>1 DEF Changes, Fields, TimerParts
  <2> QED BY <1>11, <2>1, <2>2 DEF TimerParts
<1>18. CASE ResumeFirst(t)
  <2> DEFINE u == Unlink(k, c.on)
  <2>1. /\ pc[t] = "resume_unlink" /\ ~About(t) /\ k' = rt_timer_stop(u, c.on)
    BY <1>18 DEF ResumeFirst, ResumeUnlink, At, About, Calls, c
  <2>2. c.on \in Thread /\ k.stat[c.on] = "suspend"
    BY <1>1, <1>2, <2>1 DEF Fits, ProperCall, Orderly, NobodyInterferes, c
  <2>3. Out(k, c.on) BY <2>2 DEF QueuesOK, Out
  <2>4. Changes(k, u, {"ready", "waiting"}) /\ u.ready = k.ready BY <1>0, <2>3, UnlinkEffect, UnlinkedApart
  <2> HIDE DEF u
  <2>5. Changes(u, k', TimerParts) BY <2>1, <2>4, DetachEffect DEF Changes
  <2>6. Changes(k, k', {"ready", "waiting"} \cup TimerParts) BY <2>4, <2>5, ChangesInTurn
  <2>7. k'.ready = k.ready /\ k'.group = k.group BY <2>4, <2>5 DEF Changes, Fields, TimerParts
  <2> QED BY <1>11, <2>1, <2>6, <2>7 DEF TimerParts
<1>19. CASE DetachRemove(t)
  <2>1. pc[t] = "detach_remove" /\ ~About(t) /\ k' = rt_schedule_remove_thread(k, c.on) /\ calls[t] # <<>>
    BY <1>1, <1>19 DEF DetachRemove, At, About, Calls, c
  <2>2. c.op = "detach" /\ c.on \in Thread \ {Idle} BY <1>1, <1>2, <2>1 DEF Fits, ProperCall
  <2>3. c.on # t
    <3>1. Asks(t, calls[t]) /\ calls[t] \in Seq(C) BY <1>3 DEF AllAsk
    <3> QED BY <2>1, <2>2, <3>1, AskedNext DEF Call, c
  <2>4. Changes(k, k', QueueParts) BY <1>0, <2>1, RemoveEffect
  <2>5. k'.current = t /\ k'.lock_nest = k.lock_nest BY <2>4 DEF Changes, Fields, QueueParts
  <2>6. Moves(k, k', {c.on}) BY <1>0, <2>1, RemoveMoves
  <2>7. ~Out(k', t) BY <1>6, <2>1, <2>3, <2>6 DEF Moves, Same
  <2>8. k.lock_nest = 0 => t = Highest(k) BY <2>1 DEF Prompt
  <2>9. k.lock_nest = 0 => Highest(k') = t BY <2>1, <2>2, <2>3, <2>8, RemovedBelow
  <2> QED BY <1>0, <2>5, <2>7, <2>9 DEF Prompt
<1>20. ASSUME NEW W, Moves(k, k', W), t \in W => ~Out(k', t) PROVE k.lock_nest > 0 => ~Out(k', t)
  BY <1>5, <1>20 DEF Moves, Same
<1>21. CASE Yield(t) /\ ~UNCHANGED k
  <2>1. k' = Rotate(k, t) /\ Goto(t, "schedule") BY <1>21 DEF Yield
  <2>2. Changes(k, k', {"ready"}) BY <1>0, <2>1 DEF Changes, Rotate, Fields
  <2>3. ~Out(k', t) BY <1>0, <2>1, RotateMoves
  <2> QED BY <1>9, <1>12, <2>1, <2>2, <2>3
<1>22. CASE Sleep(t)
  <2> DEFINE u == rt_thread_suspend(k, t)
  <2>1. k' = rt_timer_start(u, t, c.arg) /\ Goto(t, "schedule") /\ c.op = "sleep"
    BY <1>22 DEF Sleep, Calls, c
  <2>2. Changes(k, u, QueueParts \cup TimerParts \cup {"stat"})
    <3>1. Changes(k, SuspendReady(k, t), QueueParts \cup TimerParts \cup {"stat"})
      BY <1>0, SuspendEffect
    <3>2. u = SuspendReady(k, t) \/ u = k BY DEF rt_thread_suspend
    <3> HIDE DEF u
    <3> QED BY <1>0, <3>1, <3>2 DEF Changes
  <2> HIDE DEF u
  <2>3. Changes(u, k', TimerParts) BY <2>1, <2>2, StartEffect DEF Changes
  <2>4. Changes(k, k', (QueueParts \cup TimerParts \cup {"stat"}) \cup TimerParts)
    BY <2>2, <2>3, ChangesInTurn
  <2> QED BY <1>7, <1>9, <1>12, <2>1, <2>4 DEF QueueParts, TimerParts
<1>23. CASE SuspendBody(t)
  <2>0. PICK x : x = c.on OBVIOUS
  <2>1. pc[t] = "suspend_body" /\ k' = SuspendReady(k, x) /\ Return(t)
    BY <1>23, <2>0 DEF SuspendBody, At, c
  <2>2. calls[t] # <<>> /\ c.op = "suspend" /\ x \in Thread
    BY <1>1, <1>2, <2>0, <2>1 DEF Fits, ProperCall
  <2>3. Changes(k, k', QueueParts \cup TimerParts \cup {"stat"}) BY <1>0, <2>1, SuspendEffect
  <2>4. Moves(k, k', {x}) BY <1>0, <2>1, <2>2, SuspendMoves
  <2>5. k.lock_nest > 0 => ~Out(k', t) BY <1>5, <1>7, <2>0, <2>2, <2>4 DEF Moves, Same
  <2>6. About(t)' BY <1>8, <2>1, <2>2 DEF Leaves
  <2> QED BY <1>12, <2>3, <2>5, <2>6 DEF QueueParts, TimerParts
<1>24. CASE ResumeSecond(t)
  <2>0. PICK x : x = c.on OBVIOUS
  <2>1. /\ pc[t] = "resume_insert" /\ k' = rt_schedule_insert_thread(k, x)
        /\ IF c.op = "startup" THEN Goto(t, "schedule") ELSE Return(t)
    BY <1>24, <2>0 DEF ResumeSecond, At, c
  <2>2. calls[t] # <<>> /\ c.op \in {"resume", "startup"} /\ x \in Thread
    BY <1>1, <1>2, <2>0, <2>1 DEF Fits, ProperCall
  <2>3. Changes(k, k', {"stat", "ready", "group"}) BY <1>0, <2>1, InsertEffect
  <2>4. Out(k, x)
    <3>1. k.stat[x] = "suspend" BY <2>0, <2>1 DEF Orderly, NobodyInterferes, c
    <3> QED BY <2>2, <3>1 DEF QueuesOK, Out
  <2>5. Moves(k, k', {x}) /\ ~Out(k', x) BY <1>0, <2>1, <2>2, <2>4, InsertMoves
  <2>6. About(t)'
    <3>1. CASE c.op = "startup" BY <1>9, <2>1, <3>1
    <3>2. CASE c.op = "resume" BY <1>8, <2>1, <2>2, <3>2 DEF Leaves
    <3> QED BY <2>2, <3>1, <3>2
  <2> QED BY <1>12, <1>20, <2>3, <2>5, <2>6
<1>25. CASE SetPriority(t)
  <2>0. PICK x, p : x = c.on /\ p = c.arg OBVIOUS
  <2>1. calls[t] # <<>> /\ c.op = "set_priority" /\ k' = ChangePriority(k, x, p) /\ Return(t)
    BY <1>25, <2>0 DEF SetPriority, Calls, c
  <2>2. x \in Thread /\ p \in Priority BY <1>2, <2>0, <2>1 DEF ProperCall
  <2>3. Changes(k, k', QueueParts \cup {"stat", "priority"}) BY <1>0, <2>1, PriorityEffect
  <2>4. Moves(k, k', {x}) /\ (~Out(k, x) => ~Out(k', x))
    BY <1>0, <2>1, <2>2, ChangePriorityMoves DEF Same
  <2>5. k.lock_nest > 0 => ~Out(k', t) BY <1>5, <2>4 DEF Moves, Same
  <2>6. About(t)' BY <1>8, <2>1 DEF Leaves
  <2> QED BY <1>12, <2>3, <2>5, <2>6 DEF QueueParts
<1>26. CASE Take(t)
  <2>0. PICK o, time : o = c.on /\ time = c.arg OBVIOUS
  <2>1. /\ pc[t] = "user" /\ calls[t] # <<>> /\ c.op = "take"
        /\ \/ k' = [k EXCEPT !.value[o] = @ - 1]
           \/ UNCHANGED k
           \/ ~(k.value[o] > 0 \/ time = 0) /\ k' = Block(k, o, t, time) /\ Goto(t, "schedule")
    <3>1. o \in Semaphore /\ (k.value[o] = 0 => ~(k.value[o] > 0))
      BY <1>2, <1>26, <2>0 DEF Take, Calls, ProperCall, c
    <3> QED BY <1>26, <2>0, <3>1 DEF Take, Calls, c
  <2>2. CASE k' = [k EXCEPT !.value[o] = @ - 1] \/ UNCHANGED k
    <3>1. Changes(k, k', {"value"}) /\ k'.ready = k.ready /\ k'.group = k.group
      BY <1>0, <2>2 DEF Changes, Fields
    <3>2. ~About(t) BY <2>1 DEF About, Calls, c
    <3> QED BY <1>11, <3>1, <3>2
  <2>3. CASE ~(k.value[o] > 0 \/ time = 0) /\ k' = Block(k, o, t, time) /\ Goto(t, "schedule")
    <3>b. Enqueues(k, k', o, t, time) BY <1>0, <2>3, BlockEffect
    <3>1. Changes(k, k', QueueParts \cup TimerParts \cup {"stat", "error"}) BY <3>b DEF Enqueues
    <3>2. ~(k.lock_nest > 0) BY <1>7, <2>0, <2>1, <2>3 DEF Calls, c
    <3> QED BY <1>9, <1>12, <2>3, <3>1, <3>2 DEF QueueParts, TimerParts
  <2> QED BY <2>1, <2>2, <2>3
<1>27. WaitersSleep(k) BY DEF WaitersSleep, Waits, Seated
<1>28. CASE SemRelease(t)
  <2>0. PICK o : o = c.on OBVIOUS
  <2>1. /\ pc[t] = "user" /\ calls[t] # <<>> /\ c.op = "release" /\ k' = Release(k, o)
        /\ k.waiting[o] # <<>> => Goto(t, "schedule")
    BY <1>28, <2>0 DEF SemRelease, Calls, c
  <2>2. o \in WaitList BY <1>2, <2>0, <2>1 DEF ProperCall, WaitList
  <2>3. CASE k.waiting[o] = <<>>
    <3>1. Changes(k, k', {"value"}) BY <1>0, <2>1, <2>3, ReleaseEffect
    <3>2. k'.ready = k.ready /\ k'.group = k.group BY <3>1 DEF Changes, Fields
    <3>3. ~About(t) BY <2>1 DEF About, Calls, c
    <3> QED BY <1>11, <3>1, <3>2, <3>3
  <2>4. CASE k.waiting[o] # <<>>
    <3>1. PICK W \in SUBSET Thread : Revives(k, k', W) BY <1>0, <1>27, <2>1, <2>2, ReleaseRevives
    <3>2. Changes(k, k', QueueParts \cup TimerParts \cup {"stat", "value"}) BY <1>0, <2>1, ReleaseEffect
    <3>3. k.lock_nest > 0 => ~Out(k', t) BY <1>20, <3>1 DEF Revives
    <3> QED BY <1>9, <1>12, <2>1, <2>4, <3>2, <3>3 DEF QueueParts, TimerParts
  <2> QED BY <2>3, <2>4
<1>29. CASE Reset(t)
  <2>0. PICK o : o = c.on OBVIOUS
  <2> DEFINE u == ResumeAll(k, o)
  <2>1. /\ calls[t] # <<>> /\ c.op = "reset" /\ Goto(t, "schedule")
        /\ k' = [u EXCEPT !.value[o] = c.arg]
    BY <1>29, <2>0 DEF Reset, Calls, c
  <2>2. o \in WaitList BY <1>2, <2>0, <2>1 DEF ProperCall, WaitList
  <2>3. PICK W \in SUBSET Thread : Revives(k, u, W) BY <1>0, <1>27, <2>2, AllRevive
  <2>4. Changes(k, u, RoundFields) BY <1>0, AllEffect
  <2> HIDE DEF u
  <2>5. Listed(u) BY <2>3 DEF Revives, Moves
  <2>6. Changes(u, k', {"value"}) BY <2>1, <2>5 DEF Listed, Changes, Fields
  <2>7. Changes(k, k', RoundFields \cup {"value"}) BY <2>4, <2>6, ChangesInTurn
  <2>8. Moves(u, k', {}) /\ Same(u, k', t) BY <2>5, <2>6, NobodyMoves
  <2>9. k.lock_nest > 0 => ~Out(k', t) BY <1>5, <2>3, <2>8 DEF Revives, Moves, Same
  <2> QED BY <1>9, <1>12, <2>1, <2>7, <2>9 DEF RoundFields
<1>30. CASE SemDetach(t) \/ Drain(t) \/ DrainOne(t)
  <2>0. PICK o : o = c.on OBVIOUS
  <2>1. About(t)'
    <3>1. CASE SemDetach(t) \/ DrainOne(t) BY <1>9, <3>1 DEF SemDetach, DrainOne
    <3>2. CASE Drain(t)
      <4>1. calls[t] # <<>> /\ c.op = "sem_detach" BY <1>1, <3>2 DEF Drain, At, Fits
      <4> QED BY <1>8, <1>9, <3>2, <4>1 DEF Drain, Leaves
    <3> QED BY <1>30, <3>1, <3>2
  <2>2. CASE k' = k
    <3>1. Changes(k, k', {}) BY <1>0, <2>2 DEF Changes
    <3> QED BY <1>5, <1>12, <2>1, <2>2, <3>1
  <2>3. CASE k' # k
    <3>1. pc[t] = "drain_one" /\ k.waiting[o] # <<>> /\ k' = ResumeWithError(k, o)
      BY <1>30, <2>0, <2>3 DEF SemDetach, Drain, DrainOne, At, c
    <3>2. o \in WaitList BY <1>1, <1>2, <2>0, <3>1 DEF Fits, ProperCall
    <3>3. PICK W \in SUBSET Thread : Revives(k, k', W) BY <1>0, <1>27, <3>1, <3>2, ErrorRevives
    <3>4. Changes(k, k', QueueParts \cup TimerParts \cup {"stat", "error"}) BY <1>0, <3>1, ErrorEffect
    <3>5. k.lock_nest > 0 => ~Out(k', t) BY <1>20, <3>3 DEF Revives
    <3> QED BY <1>12, <2>1, <3>4, <3>5 DEF QueueParts, TimerParts
  <2> QED BY <2>2, <2>3
<1> QED
  BY <1>13, <1>14, <1>15, <1>16, <1>17, <1>18, <1>19, <1>21, <1>22, <1>23, <1>24, <1>25, <1>26, <1>28,
     <1>29, <1>30 DEF ThreadStep

\* Of the states an interrupt goes through: what Prompt says of the kernel's memory, and its part
\* about a locked scheduler.
Locked(s) == s.lock_nest \in Nat /\ (s.lock_nest > 0 => ~Out(s, s.current))

Ahead(s) == Locked(s) /\ (s.lock_nest = 0 => s.current = Highest(s) \/ About(s.current))

LEMMA ScheduledAhead ==
  ASSUME NEW s, DOMAIN s = Fields, Locked(s)
  PROVE  Ahead(ScheduleInInterrupt(s))
BY ScheduledFirst DEF Locked, Ahead, First

LEMMA SameAhead ==
  ASSUME NEW s, NEW u, NEW F, Changes(s, u, F), F \cap {"current", "lock_nest", "ready", "group"} = {},
         Ahead(s)
  PROVE  Ahead(u)
<1>1. u.current = s.current /\ u.lock_nest = s.lock_nest /\ u.ready = s.ready /\ u.group = s.group
  BY DEF Changes, Fields
<1>2. Highest(u) = Highest(s) /\ (Out(u, u.current) <=> Out(s, s.current)) BY <1>1 DEF Highest, Out
<1> QED BY <1>1, <1>2 DEF Ahead, Locked

LEMMA MovesLocked ==
  ASSUME NEW s, NEW u, NEW F, Changes(s, u, F), F \cap {"current", "lock_nest"} = {}, Locked(s),
         s.current \in Thread, NEW W, Moves(s, u, W), \A x \in W : Out(u, x) => Out(s, x)
  PROVE  Locked(u)
<1>1. u.current = s.current /\ u.lock_nest = s.lock_nest BY DEF Changes, Fields
<1> QED BY <1>1 DEF Locked, Moves, Same

LEMMA TimeoutAhead ==
  ASSUME NEW s, Listed(s), NEW t \in Thread, Locked(s), s.current \in Thread
  PROVE  Ahead(rt_thread_timeout(s, t))
<1> DEFINE a == [s EXCEPT !.error[t] = "timeout"]
           b == Unlink(a, t)
           c == rt_schedule_insert_thread(b, t)
<1>1. rt_thread_timeout(s, t) = ScheduleInInterrupt(c) BY DEF rt_thread_timeout
<1>2. Changes(s, a, {"error"}) BY DEF Listed, Changes, Fields
<1> HIDE DEF a
<1>3. Moves(s, a, {}) BY <1>2, NobodyMoves
<1>4. Moves(a, b, {t}) /\ Out(b, t) /\ Changes(a, b, {"ready", "waiting"}) BY <1>3, UnlinkMoves DEF Moves
<1> HIDE DEF b
<1>5. Moves(b, c, {t}) /\ ~Out(c, t) BY <1>4, InsertMoves DEF Moves
<1>6. Changes(b, c, {"stat", "ready", "group"})
  <2>1. DOMAIN b = Fields BY <1>4 DEF Changes
  <2> QED BY <2>1, InsertEffect
<1> HIDE DEF c
<1>7. Changes(s, c, ({"error"} \cup {"ready", "waiting"}) \cup {"stat", "ready", "group"})
  BY <1>2, <1>4, <1>6, ChangesInTurn
<1>8. Moves(s, c, ({} \cup {t}) \cup {t}) BY <1>3, <1>4, <1>5, MovesInTurn
<1>9. Locked(c) BY <1>5, <1>7, <1>8, MovesLocked
<1> QED BY <1>1, <1>7, <1>9, ScheduledAhead DEF Changes

LEMMA FireAhead ==
  ASSUME NEW s, Listed(s), NEW x \in Timer, WaitersSleep(s), Ahead(s), s.current \in Thread
  PROVE  Ahead(Fire(s, x))
<1>0. DOMAIN s = Fields /\ Locked(s) BY DEF Listed, Ahead
<1>1. CASE x \in Thread BY <1>0, <1>1, TimeoutAhead DEF Fire
<1>2. CASE x \notin Thread
  <2>0. PICK o : o = Signals[x] OBVIOUS
  <2>1. o \in WaitList BY <1>2, <2>0, SchedAssumption DEF Timer, WaitList
  <2> DEFINE u == Release(s, o)
  <2>2. CASE s.waiting[o] = <<>>
    <3>1. Fire(s, x) = u BY <1>2, <2>0, <2>2 DEF Fire
    <3>2. Changes(s, u, {"value"}) BY <1>0, <2>2, ReleaseEffect
    <3> HIDE DEF u
    <3> QED BY <3>1, <3>2, SameAhead
  <2>3. CASE s.waiting[o] # <<>>
    <3>1. Fire(s, x) = ScheduleInInterrupt(u) BY <1>2, <2>0, <2>3 DEF Fire
    <3>2. PICK W \in SUBSET Thread : Revives(s, u, W) BY <2>1, ReleaseRevives
    <3>3. Changes(s, u, QueueParts \cup TimerParts \cup {"stat", "value"}) BY <1>0, ReleaseEffect
    <3> HIDE DEF u
    <3>4. Locked(u) BY <1>0, <3>2, <3>3, MovesLocked DEF Revives, QueueParts, TimerParts
    <3> QED BY <3>1, <3>3, <3>4, ScheduledAhead DEF Changes
  <2> QED BY <2>2, <2>3
<1> QED BY <1>1, <1>2

LEMMA InterruptKeepsPrompt ==
  ASSUME NEW C, QueuesOK(k), Waits, Prompt, k.current \in Thread, TimersOK(k, {}, 0),
         Tick \/ TimerExpires \/ TickReturns
  PROVE  Prompt'
<1>0. /\ DOMAIN k = Fields /\ Listed(k) /\ WaitersSleep(k) /\ Ahead(k) /\ Locked(k)
  BY DEF QueuesOK, Waits, WaitersSleep, Seated, Prompt, Ahead, Locked
<1>1. UNCHANGED <<pc, calls>> BY DEF Tick, TimerExpires, TickReturns
<1>2. ASSUME Ahead(k') PROVE Prompt'
  <2>1. \A x : About(x)' <=> About(x) BY <1>1 DEF About, Calls, Call
  <2> QED BY <1>2, <2>1 DEF Ahead, Locked, Prompt
<1>3. CASE Tick
  <2>0. PICK t \in Thread : t = k.current OBVIOUS
  <2> DEFINE u == [k EXCEPT !.tick = (@ + 1) % TickMod]
             v == [u EXCEPT !.remaining_tick[t] = Slice[t]]
             w == [u EXCEPT !.remaining_tick[t] = @ - 1]
             r == Rotate(v, t)
  <2>1. k' = IF k.remaining_tick[t] > 1 THEN w
             ELSE IF CanYield(v, t) THEN ScheduleInInterrupt(r) ELSE v
    <3>1. u.remaining_tick = k.remaining_tick BY <1>0 DEF Fields
    <3> QED BY <1>3, <2>0, <3>1 DEF Tick, TickOver
  <2>2. Changes(k, v, {"tick", "remaining_tick"}) /\ Changes(k, w, {"tick", "remaining_tick"})
    BY <1>0 DEF Changes, Fields
  <2> HIDE DEF u, v, w
  <2>3. Ahead(v) /\ Ahead(w) BY <1>0, <2>2, SameAhead
  <2>4. Moves(k, v, {}) BY <1>0, <2>2, NobodyMoves
  <2>5. Changes(v, r, {"ready"}) BY <2>2 DEF Changes, Rotate, Fields
  <2>6. Moves(v, r, {t}) /\ ~Out(r, t) BY <2>4, RotateMoves DEF Moves
  <2> HIDE DEF r
  <2>7. v.current \in Thread BY <2>2 DEF Changes, Fields
  <2>8. Locked(r) BY <2>3, <2>5, <2>6, <2>7, MovesLocked DEF Ahead
  <2>9. Ahead(ScheduleInInterrupt(r)) BY <2>5, <2>8, ScheduledAhead DEF Changes
  <2> QED BY <1>2, <2>1, <2>3, <2>9
<1>4. CASE TickReturns
  <2>1. k'.current = k.current /\ k'.lock_nest = k.lock_nest /\ k'.ready = k.ready /\ k'.group = k.group
    BY <1>0, <1>4 DEF TickReturns, LeaveInterrupt, rt_hw_context_switch, Fields
  <2>2. Highest(k') = Highest(k) /\ (Out(k', k'.current) <=> Out(k, k.current)) BY <2>1 DEF Highest, Out
  <2>3. Ahead(k') BY <1>0, <2>1, <2>2 DEF Ahead, Locked
  <2> QED BY <1>2, <2>3
<1>5. CASE TimerExpires
  <2>0. PICK x : x = Head(k.timers) OBVIOUS
  <2> DEFINE a == [k EXCEPT !.timers = Tail(@)]
             d == rt_timer_detach(k, x)
             f == Fire(a, x)
  <2>1. k' = (IF x \in Periodic THEN rt_timer_start(f, x, k.init_tick[x]) ELSE Fire(d, x)) /\ x \in Timer
    BY <1>5, <2>0, HeadTailProperties DEF TimerExpires, TimerIsDue, Expire, TimersOK
  <2>2. Changes(k, a, {"timers"}) /\ Changes(k, d, TimerParts)
    <3>1. Changes(k, a, {"timers"}) BY <1>0 DEF Changes, Fields
    <3>2. Changes(k, d, TimerParts) BY <1>0, DetachEffect
    <3> QED BY <3>1, <3>2
  <2> HIDE DEF a, d
  <2>3. ASSUME NEW s \in {a, d} PROVE Ahead(Fire(s, x))
    <3>1. Changes(k, s, TimerParts)
      <4>1. Changes(k, a, TimerParts) BY <2>2, ChangesMore DEF TimerParts
      <4> QED BY <2>2, <2>3, <4>1
    <3>2. Ahead(s) BY <1>0, <3>1, SameAhead DEF TimerParts
    <3>3. s.current \in Thread /\ DOMAIN s = Fields /\ s.ready = k.ready /\ s.waiting = k.waiting
          /\ s.priority = k.priority /\ s.stat = k.stat
      BY <3>1 DEF Changes, Fields, TimerParts
    <3>4. Listed(s) /\ WaitersSleep(s) BY <1>0, <3>3 DEF Listed, WaitersSleep, Waiting
    <3> QED BY <2>1, <3>2, <3>3, <3>4, FireAhead
  <2>4. Ahead(f) /\ Ahead(Fire(d, x)) BY <2>3
  <2>5. DOMAIN f = Fields
    <3>1. DOMAIN a = Fields /\ a.waiting = k.waiting BY <2>2 DEF Changes, Fields
    <3>2. ListsOf(a, Thread) BY <1>0, <3>1 DEF ListsOf, Listed
    <3> QED BY <3>2, FireTyped DEF ListsOf
  <2> HIDE DEF f
  <2>6. \A ticks : Ahead(rt_timer_start(f, x, ticks))
    <3> SUFFICES ASSUME NEW ticks PROVE Ahead(rt_timer_start(f, x, ticks)) OBVIOUS
    <3>1. Changes(f, rt_timer_start(f, x, ticks), TimerParts) BY <2>5, StartEffect
    <3> QED BY <2>4, <3>1, SameAhead DEF TimerParts
  <2> QED BY <1>2, <2>1, <2>4, <2>6
<1> QED BY <1>3, <1>4, <1>5

LEMMA AskedKept ==
  ASSUME NEW C, Proper(C), CallsOK(C), AllAsk, NEW t \in Thread, ThreadStep(t)
  PROVE  AllAsk'
<1>1. pc[t] # "user" => calls[t] # <<>> /\ Fits(pc[t], Call(t).op) BY DEF CallsOK
<1>2. calls' = calls \/ (calls[t] # <<>> /\ calls' = [calls EXCEPT ![t] = Tail(@)])
  BY <1>1, CallEffect DEF Stay, Return, Goto
<1>3. calls \in [Thread -> Seq(C)] BY DEF CallsOK
<1>4. CASE calls' = calls BY <1>4 DEF AllAsk
<1>5. CASE calls[t] # <<>> /\ calls' = [calls EXCEPT ![t] = Tail(@)]
  <2>1. Asks(t, Tail(calls[t])) BY <1>3, <1>5, AskedNext DEF AllAsk
  <2> QED BY <1>3, <1>5, <2>1 DEF AllAsk
<1> QED BY <1>2, <1>4, <1>5

-----------------------------------------------------------------------------
(***************************************************************************)
(* The fields that nothing else here is about.                             *)
(***************************************************************************)
LEMMA PlainValue ==
  ASSUME NEW s, Plain(s), NEW o \in Semaphore, NEW n \in 0 .. ValueMax, DOMAIN s = Fields
  PROVE  Plain([s EXCEPT !.value[o] = n])
<1> DEFINE u == [s EXCEPT !.value[o] = n]
<1>1. u.value = [s.value EXCEPT ![o] = n] /\ u.error = s.error /\ u.remaining_tick = s.remaining_tick
  BY DEF Fields
<1> HIDE DEF u
<1>2. Plain(u) BY <1>1 DEF Plain
<1> QED BY <1>2 DEF u

LEMMA ReleasePlain ==
  ASSUME NEW s, Plain(s), DOMAIN s = Fields, NEW o \in Semaphore
  PROVE  Plain(Release(s, o))
<1>1. CASE s.waiting[o] = <<>> /\ s.value[o] < ValueMax
  <2>1. s.value[o] + 1 \in 0 .. ValueMax BY <1>1, SchedAssumption DEF Plain
  <2>2. Release(s, o) = [s EXCEPT !.value[o] = s.value[o] + 1] BY <1>1 DEF Release
  <2> QED BY <2>1, <2>2, PlainValue
<1>2. CASE s.waiting[o] = <<>> /\ ~(s.value[o] < ValueMax) BY <1>2 DEF Release
<1>3. CASE s.waiting[o] # <<>>
  <2> DEFINE t == Head(s.waiting[o])
             u == rt_thread_resume(s, t)
  <2>1. Release(s, o) = u BY <1>3 DEF Release, rt_ipc_list_resume
  <2>2. Changes(s, u, QueueParts \cup TimerParts \cup {"stat"}) BY ResumeEffect
  <2> HIDE DEF u
  <2> QED BY <2>1, <2>2, PlainSame DEF QueueParts, TimerParts
<1> QED BY <1>1, <1>2, <1>3

LEMMA BlockPlain ==
  ASSUME NEW s, Plain(s), DOMAIN s = Fields, NEW t \in Thread, NEW o, NEW time
  PROVE  Plain(Block(s, o, t, time))
<1> DEFINE a == [s EXCEPT !.error[t] = "ok"]
           b == rt_thread_suspend(a, t)
           c == [b EXCEPT !.waiting[o] = InsertAt(@, Place(b, o, t), t)]
           d == rt_timer_start(c, t, time)
<1>1. Block(s, o, t, time) = IF time > 0 THEN d ELSE c BY DEF Block, rt_ipc_list_suspend
<1>2. Plain(a) /\ DOMAIN a = Fields
  <2>1. Changes(s, a, {"error"}) /\ a.error = [s.error EXCEPT ![t] = "ok"] BY DEF Changes, Fields
  <2>2. "ok" \in Errors BY DEF Errors
  <2> HIDE DEF a
  <2>3. Plain(a) BY <2>1, <2>2, PlainError
  <2> QED BY <2>1, <2>3 DEF Changes
<1>3. b = SuspendReady(a, t) \/ b = a BY DEF rt_thread_suspend
<1> HIDE DEF a, b
<1>4. Changes(a, b, QueueParts \cup TimerParts \cup {"stat"})
  <2>1. Changes(a, SuspendReady(a, t), QueueParts \cup TimerParts \cup {"stat"}) BY <1>2, SuspendEffect
  <2> QED BY <1>2, <1>3, <2>1 DEF Changes
<1>5. Changes(b, c, {"waiting"}) BY <1>4 DEF Changes, Fields
<1> HIDE DEF c
<1>6. Changes(c, d, TimerParts) BY <1>5, StartEffect DEF Changes
<1> HIDE DEF d
<1>7. Plain(b) BY <1>2, <1>4, PlainSame DEF QueueParts, TimerParts
<1>8. Plain(c) BY <1>5, <1>7, PlainSame
<1>9. Plain(d) BY <1>6, <1>8, PlainSame DEF TimerParts
<1> QED BY <1>1, <1>8, <1>9

LEMMA ThreadKeepsPlain ==
  ASSUME NEW C, Proper(C), CallsOK(C), Waits, Plain(k), NEW t \in Thread, ThreadStep(t)
  PROVE  Plain(k')
<1> DEFINE c == Call(t)
<1>0. DOMAIN k = Fields /\ Listed(k) /\ WaitersSleep(k) BY DEF Waits, Listed, WaitersSleep, Seated
<1>1. pc[t] # "user" => calls[t] # <<>> /\ Fits(pc[t], c.op) BY DEF CallsOK
<1>2. calls[t] # <<>> => ProperCall(c) BY Called DEF CallsOK
<1> HIDE DEF c
<1>3. PICK o, x, n : o = c.on /\ x = c.on /\ n = c.arg OBVIOUS
<1>4. ASSUME NEW F, Changes(k, k', F), F \cap {"remaining_tick", "error", "value"} = {} PROVE Plain(k')
  BY <1>4, PlainSame
<1>5. ASSUME UNCHANGED k PROVE Plain(k') BY <1>5
<1>6. CASE Schedule(t) \/ CallSchedule(t)
  BY <1>0, <1>4, <1>6, SwitchEffect DEF Schedule, CallSchedule, Processor
<1>7. CASE Yield(t) \/ Startup(t) \/ EnterCritical(t) \/ ExitCritical(t) \/ DetachClose(t) \/ SetTime(t)
  <2>1. Changes(k, k', {"ready", "priority", "stat", "lock_nest", "init_tick"})
    BY <1>0, <1>7 DEF Yield, Rotate, Startup, EnterCritical, ExitCritical, DetachClose, SetTime, Changes, Fields
  <2> QED BY <1>4, <2>1
<1>8. CASE \/ Suspend(t) \/ Resume(t) \/ Detach(t) \/ TakeReturn(t) \/ SemDetach(t) \/ Drain(t) \/ StopTimer(t)
  BY <1>5, <1>8 DEF Suspend, Resume, Detach, TakeReturn, SemDetach, Drain, StopTimer
<1>9. CASE Sleep(t)
  <2> DEFINE u == rt_thread_suspend(k, t)
  <2>1. Plain(u) /\ DOMAIN u = Fields
    <3>1. Changes(k, SuspendReady(k, t), QueueParts \cup TimerParts \cup {"stat"})
      BY <1>0, SuspendEffect
    <3>2. u = SuspendReady(k, t) \/ u = k BY DEF rt_thread_suspend
    <3> HIDE DEF u
    <3>3. CASE u = k BY <1>0, <3>3
    <3>4. CASE u = SuspendReady(k, t)
      <4>1. Plain(u) BY <3>1, <3>4, PlainSame DEF QueueParts, TimerParts
      <4> QED BY <3>1, <3>4, <4>1 DEF Changes
    <3> QED BY <3>2, <3>3, <3>4
  <2>2. k' = rt_timer_start(u, t, n) BY <1>3, <1>9 DEF Sleep, c
  <2> HIDE DEF u
  <2>3. Changes(u, k', TimerParts) BY <2>1, <2>2, StartEffect
  <2> QED BY <2>1, <2>3, PlainSame DEF TimerParts
<1>10. CASE SleepReturn(t)
  <2>1. k' = [k EXCEPT !.error[t] = IF @ = "timeout" THEN "ok" ELSE @] BY <1>10 DEF SleepReturn
  <2> DEFINE e == IF k.error[t] = "timeout" THEN "ok" ELSE k.error[t]
  <2>2. e \in Errors BY DEF Plain, Errors
  <2>3. Changes(k, k', {"error"}) /\ k'.error = [k.error EXCEPT ![t] = e] BY <1>0, <2>1 DEF Changes, Fields
  <2> HIDE DEF e
  <2> QED BY <2>2, <2>3, PlainError
<1>11. CASE SuspendBody(t) BY <1>0, <1>4, <1>11, SuspendEffect DEF SuspendBody, QueueParts, TimerParts
<1>12. CASE ResumeFirst(t) BY <1>0, <1>4, <1>12, ResumeEffect DEF ResumeFirst, TimerParts
<1>13. CASE ResumeSecond(t) BY <1>0, <1>4, <1>13, InsertEffect DEF ResumeSecond
<1>14. CASE DetachRemove(t) BY <1>0, <1>4, <1>14, RemoveEffect DEF DetachRemove, QueueParts
<1>15. CASE DetachTimer(t) \/ StartTimer(t) \/ StopTimerBody(t)
  BY <1>0, <1>4, <1>15, DetachEffect, StartEffect DEF DetachTimer, StartTimer, StopTimerBody, TimerParts
<1>16. CASE SetPriority(t) BY <1>0, <1>4, <1>16, PriorityEffect DEF SetPriority, QueueParts
<1>17. CASE Exit(t)
  <2> DEFINE u == rt_schedule_remove_thread(k, t)
             v == [u EXCEPT !.stat[t] = "close"]
             w == rt_timer_detach(v, t)
  <2>1. k' = rt_schedule(w) BY <1>17 DEF Exit
  <2>2. Changes(k, u, QueueParts) BY <1>0, RemoveEffect
  <2> HIDE DEF u
  <2>3. Changes(u, v, {"stat"}) BY <2>2 DEF Changes, Fields
  <2> HIDE DEF v
  <2>4. Changes(v, w, TimerParts) BY <2>3, DetachEffect DEF Changes
  <2> HIDE DEF w
  <2>5. Changes(w, k', Processor) BY <2>1, <2>4, SwitchEffect DEF Changes
  <2>6. Changes(k, k', ((QueueParts \cup {"stat"}) \cup TimerParts) \cup Processor)
    BY <2>2, <2>3, <2>4, <2>5, ChangesInTurn
  <2> QED BY <1>4, <2>6 DEF QueueParts, TimerParts, Processor
<1>18. CASE Take(t) \/ Poll(t)
  <2>1. /\ calls[t] # <<>> /\ c.op \in {"take", "poll"}
        /\ \/ k.value[o] > 0 /\ k' = [k EXCEPT !.value[o] = @ - 1]
           \/ UNCHANGED k
           \/ k' = Block(k, o, t, n)
    BY <1>3, <1>18 DEF Take, Poll, Calls, c
  <2>2. o \in Semaphore BY <1>2, <1>3, <2>1 DEF ProperCall
  <2>3. CASE k.value[o] > 0 /\ k' = [k EXCEPT !.value[o] = @ - 1]
    <3>1. k.value[o] - 1 \in 0 .. ValueMax BY <2>2, <2>3, SchedAssumption DEF Plain
    <3>2. k' = [k EXCEPT !.value[o] = k.value[o] - 1] BY <2>3
    <3> QED BY <1>0, <2>2, <3>1, <3>2, PlainValue
  <2>4. CASE k' = Block(k, o, t, n) BY <1>0, <2>4, BlockPlain
  <2> QED BY <1>5, <2>1, <2>3, <2>4
<1>19. CASE SemRelease(t)
  <2>1. calls[t] # <<>> /\ c.op = "release" /\ k' = Release(k, o)
    BY <1>3, <1>19 DEF SemRelease, Calls, c
  <2>2. o \in Semaphore BY <1>2, <1>3, <2>1 DEF ProperCall
  <2> QED BY <1>0, <2>1, <2>2, ReleasePlain
<1>20. CASE Reset(t)
  <2> DEFINE u == ResumeAll(k, o)
  <2>1. calls[t] # <<>> /\ c.op = "reset" /\ k' = [u EXCEPT !.value[o] = n]
    BY <1>3, <1>20 DEF Reset, Calls, c
  <2>2. o \in Semaphore /\ n \in 0 .. ValueMax BY <1>2, <1>3, <2>1 DEF ProperCall
  <2>3. Plain(u) BY <1>0, <2>2, AllRevive DEF WaitList
  <2>4. DOMAIN u = Fields BY <1>0, AllEffect DEF Changes
  <2> HIDE DEF u
  <2> QED BY <2>1, <2>2, <2>3, <2>4, PlainValue
<1>21. CASE DrainOne(t)
  <2>1. pc[t] = "drain_one" /\ k' = IF k.waiting[o] # <<>> THEN ResumeWithError(k, o) ELSE k
    BY <1>3, <1>21 DEF DrainOne, At, c
  <2>2. o \in WaitList BY <1>1, <1>2, <1>3, <2>1 DEF Fits, ProperCall
  <2>3. CASE k.waiting[o] # <<>>
    <3> DEFINE y == Head(k.waiting[o])
    <3>1. y \in Thread BY <1>0, <2>2, <2>3, FirstWaits
    <3>2. Changes(k, k', QueueParts \cup TimerParts \cup {"stat", "error"})
          /\ k'.error = [k.error EXCEPT ![y] = "error"]
      BY <1>0, <2>1, <2>3, ErrorEffect
    <3>3. "error" \in Errors BY DEF Errors
    <3> HIDE DEF y
    <3> QED BY <3>1, <3>2, <3>3, PlainError DEF QueueParts, TimerParts
  <2> QED BY <1>5, <2>1, <2>3
<1> QED
  BY <1>6, <1>7, <1>8, <1>9, <1>10, <1>11, <1>12, <1>13, <1>14, <1>15, <1>16, <1>17, <1>18, <1>19,
     <1>20, <1>21 DEF ThreadStep

LEMMA InterruptKeepsPlain ==
  ASSUME Waits, Plain(k), k.current \in Thread, TimersOK(k, {}, 0), Tick \/ TimerExpires \/ TickReturns
  PROVE  Plain(k')
<1>0. DOMAIN k = Fields /\ Listed(k) BY DEF Waits, Listed
<1>1. CASE Tick
  <2>0. PICK t \in Thread : t = k.current OBVIOUS
  <2> DEFINE u == [k EXCEPT !.tick = (@ + 1) % TickMod]
             v == [u EXCEPT !.remaining_tick[t] = Slice[t]]
             w == [u EXCEPT !.remaining_tick[t] = @ - 1]
             r == Rotate(v, t)
  <2>1. k' = IF k.remaining_tick[t] > 1 THEN w
             ELSE IF CanYield(v, t) THEN ScheduleInInterrupt(r) ELSE v
    <3>1. u.remaining_tick = k.remaining_tick BY <1>0 DEF Fields
    <3> QED BY <1>1, <2>0, <3>1 DEF Tick, TickOver
  <2>2. /\ DOMAIN v = Fields /\ v.error = k.error /\ v.value = k.value
        /\ v.remaining_tick = [k.remaining_tick EXCEPT ![t] = Slice[t]]
    BY <1>0 DEF Fields
  <2>3. /\ w.error = k.error /\ w.value = k.value
        /\ w.remaining_tick = [k.remaining_tick EXCEPT ![t] = k.remaining_tick[t] - 1]
    BY <1>0 DEF Fields
  <2> HIDE DEF u, v, w
  <2>4. Plain(v)
    <3>1. Slice[t] \in Nat \ {0} BY SchedAssumption
    <3> QED BY <2>2, <3>1 DEF Plain
  <2>5. k.remaining_tick[t] > 1 => Plain(w)
    <3>1. k.remaining_tick[t] > 1 => k.remaining_tick[t] - 1 \in Nat \ {0} BY DEF Plain
    <3> QED BY <2>3, <3>1 DEF Plain
  <2>6. Changes(v, r, {"ready"}) BY <2>2 DEF Changes, Rotate, Fields
  <2> HIDE DEF r
  <2>7. Plain(r) BY <2>4, <2>6, PlainSame
  <2>8. Changes(r, ScheduleInInterrupt(r), Processor) BY <2>6, SwitchEffect DEF Changes
  <2>9. Plain(ScheduleInInterrupt(r)) BY <2>7, <2>8, PlainSame DEF Processor
  <2> QED BY <2>1, <2>4, <2>5, <2>9
<1>2. CASE TickReturns
  <2>1. Changes(k, k', Processor) BY <1>0, <1>2, SwitchEffect DEF TickReturns
  <2> QED BY <2>1, PlainSame DEF Processor
<1>3. CASE TimerExpires
  <2>0. PICK x : x = Head(k.timers) OBVIOUS
  <2> DEFINE a == [k EXCEPT !.timers = Tail(@)]
             d == rt_timer_detach(k, x)
             f == Fire(a, x)
  <2>1. k' = (IF x \in Periodic THEN rt_timer_start(f, x, k.init_tick[x]) ELSE Fire(d, x)) /\ x \in Timer
    BY <1>3, <2>0, HeadTailProperties DEF TimerExpires, TimerIsDue, Expire, TimersOK
  <2>2. Changes(k, a, {"timers"}) /\ Changes(k, d, TimerParts)
    <3>1. Changes(k, a, {"timers"}) BY <1>0 DEF Changes, Fields
    <3>2. Changes(k, d, TimerParts) BY <1>0, DetachEffect
    <3> QED BY <3>1, <3>2
  <2> HIDE DEF a, d
  <2>3. ASSUME NEW s, Plain(s), ListsOf(s, Thread) PROVE Plain(Fire(s, x)) /\ DOMAIN Fire(s, x) = Fields
    <3>0. DOMAIN s = Fields /\ DOMAIN Fire(s, x) = Fields BY <2>3, FireTyped DEF ListsOf
    <3>1. CASE x \in Thread
      <4> DEFINE u == rt_thread_timeout(s, x)
      <4>1. Fire(s, x) = u BY <3>1 DEF Fire
      <4>2. Changes(s, u, QueueParts \cup Processor \cup {"stat", "error"}) BY <3>0, TimeoutEffect
      <4>3. u.error = [s.error EXCEPT ![x] = "timeout"] BY <3>0, TimeoutEffect
      <4>4. "timeout" \in Errors BY DEF Errors
      <4> HIDE DEF u
      <4> QED BY <2>3, <3>0, <3>1, <4>1, <4>2, <4>3, <4>4, PlainError DEF QueueParts, Processor
    <3>2. CASE x \notin Thread
      <4> DEFINE r == Release(s, Signals[x])
      <4>1. Signals[x] \in Semaphore BY <2>1, <3>2, SchedAssumption DEF Timer
      <4>2. Plain(r) BY <2>3, <3>0, <4>1, ReleasePlain
      <4>3. DOMAIN r = Fields BY <3>0, ReleaseEffect DEF Changes
      <4>4. Fire(s, x) = r \/ Fire(s, x) = ScheduleInInterrupt(r) BY <3>2 DEF Fire
      <4> HIDE DEF r
      <4>5. Changes(r, ScheduleInInterrupt(r), Processor) BY <4>3, SwitchEffect
      <4>6. Plain(ScheduleInInterrupt(r)) BY <4>2, <4>5, PlainSame DEF Processor
      <4> QED BY <3>0, <4>2, <4>4, <4>6
    <3> QED BY <3>1, <3>2
  <2>4. Plain(a) /\ Plain(d) /\ ListsOf(a, Thread) /\ ListsOf(d, Thread)
    <3>1. ListsOf(k, Thread) BY <1>0 DEF ListsOf, Listed
    <3>2. Plain(a) /\ Plain(d) BY <2>2, PlainSame DEF TimerParts
    <3>3. ListsOf(a, Thread) BY <2>2, <3>1, SameLists
    <3>4. ListsOf(d, Thread) BY <2>2, <3>1, SameLists DEF TimerParts
    <3> QED BY <3>2, <3>3, <3>4
  <2>5. Plain(f) /\ DOMAIN f = Fields /\ Plain(Fire(d, x)) BY <2>3, <2>4
  <2> HIDE DEF f
  <2>6. \A ticks : Plain(rt_timer_start(f, x, ticks))
    <3> SUFFICES ASSUME NEW ticks PROVE Plain(rt_timer_start(f, x, ticks)) OBVIOUS
    <3>1. Changes(f, rt_timer_start(f, x, ticks), TimerParts) BY <2>5, StartEffect
    <3> QED BY <2>5, <3>1, PlainSame DEF TimerParts
  <2> QED BY <2>1, <2>5, <2>6
<1> QED BY <1>1, <1>2, <1>3

-----------------------------------------------------------------------------
(***************************************************************************)
(* The theorems.                                                           *)
(***************************************************************************)
\* The programs ask the scheduler where its functions say they must (thread.c:709).
Prompted == \A p \in Programs, t \in Thread : Asks(t, p[t])

ListInv(C) == KernelInv(C) /\ Waits /\ Prompt /\ AllAsk /\ Plain(k)

LEMMA ListsInit == ASSUME NEW C, Proper(C), Prompted, Init PROVE ListInv(C)
<1>1. k = Booted /\ Main \in Thread BY SchedAssumption DEF Init
<1>2. ContextInv /\ TimerInv(C) /\ QueuesOK(k) BY Initially, TimersInit, QueuesInit
<1>3. KernelInv(C) BY <1>2 DEF KernelInv
<1>4. /\ k.waiting = [o \in WaitList |-> <<>>] /\ k.activated = {} /\ k.lock_nest = 0 /\ k.current = Main
      /\ k.ready = [p \in Priority |-> IF p = InitPriority[Main] THEN <<Main>>
                                       ELSE IF p = InitPriority[Idle] THEN <<Idle>> ELSE <<>>]
      /\ k.group = {InitPriority[Main], InitPriority[Idle]}
      /\ k.stat = [t \in Thread |-> IF t \in {Main, Idle} THEN "ready" ELSE "init"]
      /\ k.remaining_tick = Slice /\ k.error = [t \in Thread |-> "ok"]
      /\ k.value = [o \in Semaphore |-> 0] /\ k.priority = InitPriority
  BY <1>1 DEF Booted
<1>5. Range(<<>>) = {} /\ <<>> \in Seq(Thread) /\ NoDuplicates(<<>>)
  BY DEF Range, NoDuplicates, IsInjective
<1>6. Listed(k)
  <2>1. \A o \in WaitList : NoDuplicates(k.waiting[o]) BY <1>4, <1>5
  <2> QED BY <1>2, <2>1 DEF Listed, QueuesOK
<1>7. \A x \in Thread : Waiting(k, x) = {} BY <1>4, <1>5 DEF Waiting
<1>8. /\ InitPriority[Main] \in Priority /\ InitPriority[Idle] \in Priority
      /\ InitPriority[Main] < InitPriority[Idle]
  BY SchedAssumption
<1>9. \A x \in {Main, Idle} : ~Out(k, x)
  <2>1. \A x : x \in Range(<<x>>) BY DEF Range
  <2>2. k.ready[InitPriority[Main]] = <<Main>> /\ k.ready[InitPriority[Idle]] = <<Idle>>
    <3> HIDE DEF Priority
    <3>1. InitPriority[Main] # InitPriority[Idle] BY <1>8 DEF Priority
    <3> QED BY <1>4, <1>8, <3>1
  <2> QED BY <1>8, <2>1, <2>2 DEF Out
<1>10. Waits
  <2>1. SUFFICES ASSUME NEW x \in Thread PROVE Seated(x) /\ Timed(x) /\ Queued(x) /\ Aims(x)
    BY <1>6 DEF Waits
  <2>2. pc[x] = "user" BY DEF Init
  <2> QED BY <1>4, <1>7, <1>9, <2>2 DEF Seated, Timed, Queued, Aims
<1>11. Prompt
  <2>1. (CHOOSE p \in k.group : \A q \in k.group : p <= q) = InitPriority[Main]
    <3>1. InitPriority[Main] \in Int /\ InitPriority[Idle] \in Int BY <1>8 DEF Priority
    <3> QED BY <1>4, <1>8, <3>1
  <2>2. k.ready[InitPriority[Main]] = <<Main>> BY <1>4, <1>8
  <2>3. Head(<<Main>>) = Main OBVIOUS
  <2>4. Highest(k) = Main BY <2>1, <2>2, <2>3 DEF Highest
  <2> QED BY <1>4, <2>4 DEF Prompt
<1>12. AllAsk BY DEF Prompted, Init, AllAsk
<1>13. Plain(k)
  <2>1. "ok" \in Errors /\ 0 \in 0 .. ValueMax BY SchedAssumption DEF Errors
  <2> QED BY <1>4, <2>1, SchedAssumption DEF Plain
<1> QED BY <1>3, <1>10, <1>11, <1>12, <1>13 DEF ListInv

LEMMA ListsKept ==
  ASSUME NEW C, Proper(C), ListInv(C), Orderly, [Next]_vars
  PROVE  ListInv(C)'
<1>1. /\ ContextInv /\ TimerInv(C) /\ QueuesOK(k) /\ Waits /\ Prompt /\ AllAsk /\ Plain(k)
      /\ CallsOK(C) /\ KernelInv(C)
  BY DEF ListInv, KernelInv, TimerInv
<1>2. k.cpu \in Thread /\ k.current \in Thread BY <1>1 DEF ContextInv, Deferred
<1>3. KernelInv(C)' BY <1>1, KernelKept DEF Orderly
<1>4. CASE RunThread
  <2>1. isr = "none" /\ k.cpu = k.current
    BY <1>1, <1>4, PairIsNotEmpty DEF RunThread, ContextInv, Deferred
  <2>2. PICK t \in Thread : t = k.cpu /\ t = k.current /\ ThreadStep(t) BY <1>2, <1>4, <2>1 DEF RunThread
  <2>3. Waits' BY <1>1, <2>2, ThreadKeepsWaits
  <2>4. Prompt' BY <1>1, <2>1, <2>2, ThreadKeepsPrompt
  <2>5. AllAsk' BY <1>1, <2>2, AskedKept
  <2>6. Plain(k') BY <1>1, <2>2, ThreadKeepsPlain
  <2> QED BY <1>3, <2>3, <2>4, <2>5, <2>6 DEF ListInv
<1>5. CASE Tick \/ TimerExpires \/ TickReturns
  <2>1. TimersOK(k, {}, 0)
    <3>1. CASE isr = "none"
      <4>1. TimersOK(k, {}, 1) BY <1>1, <3>1 DEF TimerInv
      <4>2. \A x \in Range(k.timers) : Remaining(k, x) \in 0 .. HalfTick BY <4>1 DEF TimersOK
      <4> QED BY <4>1, <4>2 DEF TimersOK
    <3>2. CASE isr # "none" BY <1>1, <3>2 DEF TimerInv
    <3> QED BY <3>1, <3>2
  <2>2. Waits' BY <1>1, <1>2, <1>5, <2>1, InterruptKeepsWaits
  <2>3. Prompt' BY <1>1, <1>2, <1>5, <2>1, InterruptKeepsPrompt
  <2>4. AllAsk' BY <1>1, <1>5 DEF Tick, TimerExpires, TickReturns, AllAsk
  <2>5. Plain(k') BY <1>1, <1>2, <1>5, <2>1, InterruptKeepsPlain
  <2> QED BY <1>3, <2>2, <2>3, <2>4, <2>5 DEF ListInv
<1>6. CASE UNCHANGED vars
  <2>1. k' = k /\ pc' = pc /\ calls' = calls BY <1>6 DEF vars
  <2>2. AllAsk' /\ Plain(k') BY <1>1, <2>1 DEF AllAsk
  <2>3. Waits' /\ Prompt'
    BY <1>1, <2>1 DEF Waits, Prompt, Seated, Timed, Queued, Aims, Detaching, About, Calls, Call
  <2> QED BY <1>3, <2>2, <2>3 DEF ListInv
<1> QED BY <1>4, <1>5, <1>6 DEF Next

\* In every orderly program that asks the scheduler where it must, the invariant holds.
THEOREM ListInvariant ==
  ASSUME NEW C, Proper(C), Prompted PROVE Spec /\ []Orderly => []ListInv(C)
<1>1. Init => ListInv(C) BY ListsInit
<1>2. ListInv(C) /\ Orderly /\ [Next]_vars => ListInv(C)' BY ListsKept
<1> QED BY <1>1, <1>2, PTL DEF Spec

\* Every field of the kernel's memory keeps its type: no timeout leaves the tick's range, no time
\* slice is 0, no count of a semaphore goes beyond RT_SEM_VALUE_MAX, and the processor always
\* holds a thread (scheduler.c, thread.c, timer.c, ipc.c).
THEOREM FieldsKeepTypes ==
  ASSUME NEW C, Proper(C), Prompted PROVE Spec /\ []Orderly => []TypeOK
<1>1. ListInv(C) => TypeOK
  <2> SUFFICES ASSUME ListInv(C) PROVE TypeOK OBVIOUS
  <2>1. /\ Deferred(k) /\ TimerInv(C) /\ QueuesOK(k) /\ Prompt /\ Plain(k) /\ CallsOK(C)
    BY DEF ListInv, KernelInv, TimerInv, ContextInv
  <2>2. TimersOK(k, {}, 0) \/ TimersOK(k, {}, 1) BY <2>1 DEF TimerInv
  <2>3. k.init_tick \in [UserTimer -> Nat]
    <3>1. 1 .. HalfTick - 1 \subseteq Nat BY Ticks
    <3> QED BY <2>2, <3>1 DEF TimersOK
  <2>4. /\ k.ready \in [Priority -> Seq(Thread)] /\ k.waiting \in [WaitList -> Seq(Thread)]
        /\ k.group \subseteq Priority /\ k.priority \in [Thread -> Priority]
        /\ k.stat \in [Thread -> {"init", "ready", "suspend", "close"}]
    BY <2>1 DEF QueuesOK, State
  <2>5. /\ k.remaining_tick \in [Thread -> Nat \ {0}] /\ k.error \in [Thread -> {"ok", "timeout", "error"}]
        /\ k.value \in [Semaphore -> 0 .. ValueMax] /\ k.lock_nest \in Nat
    BY <2>1 DEF Plain, Errors, Prompt
  <2>6. /\ k.current \in Thread /\ k.cpu \in Thread /\ k.saved \in [Thread -> Thread]
        /\ k.switch = <<>> \/ k.switch = <<k.cpu, k.current>>
    BY <2>1 DEF Deferred
  <2>9. k.switch \in {<<>>} \cup Thread \X Thread
    <3>1. <<k.cpu, k.current>> \in Thread \X Thread BY <2>6
    <3> QED BY <2>6, <3>1
  <2>7. /\ k.tick \in 0 .. TickMod - 1 /\ k.timers \in Seq(Timer) /\ k.activated \subseteq Timer
        /\ k.timeout \in [Timer -> 0 .. TickMod - 1]
    BY <2>2 DEF TimersOK
  <2>8. pc \in [Thread -> Label] /\ isr \in {"none", "timers"} BY <2>1 DEF CallsOK, TimerInv
  <2> QED BY <2>3, <2>4, <2>5, <2>6, <2>7, <2>8, <2>9 DEF TypeOK
<1> QED BY <1>1, ListInvariant, PTL

\* A thread is in the ready queue of its priority exactly when its state says so, waits in one list
\* at most and only where its call says, and its timer runs only while it is suspended.
THEOREM ThreadsAreInTheirLists ==
  ASSUME NEW C, Proper(C), Prompted PROVE Spec /\ []Orderly /\ []WaitsUndisturbed => []ListsConsistent
<1>1. ListInv(C) /\ Orderly /\ WaitsUndisturbed => ListsConsistent
  <2> SUFFICES ASSUME ListInv(C), Orderly, WaitsUndisturbed PROVE ListsConsistent OBVIOUS
  <2>1. QueuesOK(k) /\ Waits BY DEF ListInv, KernelInv
  <2>2. Listed(k) BY <2>1 DEF Waits
  <2>3. \A T : \A q \in Seq(T) : \A x : Contains(q, x) <=> x \in Range(q) BY DEF Contains, Range
  <2>4. ASSUME NEW t \in Thread
        PROVE  /\ \A p \in Priority : Contains(k.ready[p], t) => k.stat[t] = "ready" /\ p = k.priority[t]
               /\ k.stat[t] = "ready" => Contains(k.ready[k.priority[t]], t) \/ Detaching(t)
               /\ \A o \in Semaphore : Contains(k.waiting[o], t) =>
                    /\ k.stat[t] = "suspend"
                    /\ pc[t] \in {"schedule", "return"} /\ Call(t).op = "take" /\ Call(t).on = o
               /\ t \in k.activated => k.stat[t] = "suspend"
    <3>1. \A p \in Priority : Contains(k.ready[p], t) <=> t \in Range(k.ready[p]) BY <2>2, <2>3 DEF Listed
    <3>2. \A o \in Semaphore : Contains(k.waiting[o], t) => o \in Waiting(k, t)
      BY <2>2, <2>3 DEF Listed, Waiting, WaitList
    <3>3. Seated(t) /\ Timed(t) /\ Queued(t) BY <2>1 DEF Waits
    <3>4. \A p \in Priority : t \in Range(k.ready[p]) => k.stat[t] = "ready" /\ p = k.priority[t]
      BY <2>1 DEF QueuesOK
    <3>5. k.stat[t] = "ready" => Contains(k.ready[k.priority[t]], t) \/ Detaching(t)
      BY <3>1, <3>3, <3>4 DEF Queued, Out
    <3>6. \A o \in Semaphore : Contains(k.waiting[o], t) =>
            /\ k.stat[t] = "suspend"
            /\ pc[t] \in {"schedule", "return"} /\ Call(t).op = "take" /\ Call(t).on = o
      BY <3>2, <3>3 DEF Seated
    <3> QED BY <3>1, <3>3, <3>4, <3>5, <3>6 DEF Timed
  <2>5. /\ k.group = {p \in Priority : k.ready[p] # <<>>}
        /\ \A p \in Priority : NoDuplicates(k.ready[p])
        /\ \A o \in Semaphore : NoDuplicates(k.waiting[o])
    BY <2>1, <2>2 DEF QueuesOK, Listed, WaitList
  <2> QED BY <2>4, <2>5 DEF ListsConsistent
<1> QED BY <1>1, ListInvariant, PTL

\* The thread that goes on is the first of the highest priority that is ready, however interrupts,
\* timeouts and other threads have made threads ready meanwhile (scheduler.c).
THEOREM HighestRuns ==
  ASSUME NEW C, Proper(C), Prompted PROVE Spec /\ []Orderly => []RunsHighest
<1>1. ListInv(C) => RunsHighest
  <2>1. Settled(k.current) => ~About(k.current) BY DEF Settled, About, Calls
  <2> QED BY <2>1 DEF ListInv, Prompt, RunsHighest
<1> QED BY <1>1, ListInvariant, PTL
=============================================================================
