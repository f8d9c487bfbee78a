---------------------------- MODULE KernelProofs ----------------------------
(***************************************************************************)
(* The deferred context switch: whatever interrupts make ready, and        *)
(* however often they ask for a switch, every thread goes on with its own  *)
(* registers.  This holds of all threads, priorities, time slices, timers, *)
(* semaphores and programs, as long as some thread is ready.               *)
(***************************************************************************)
EXTENDS Kernel, TLAPS, WellFoundedInduction, SequenceTheorems

Fields == {"ready", "group", "stat", "priority", "remaining_tick", "error", "lock_nest", "current",
           "cpu", "saved", "switch", "tick", "timers", "activated", "timeout", "init_tick",
           "waiting", "value"}
Processor == {"current", "cpu", "saved", "switch"}

\* From s to u the processor and the stacks stay as they are.
Keeps(s, u) == DOMAIN u = Fields /\ \A f \in Processor : u[f] = s[f]

-----------------------------------------------------------------------------
LEMMA KeepsIsTransitive == ASSUME NEW s, NEW u, NEW v, Keeps(s, u), Keeps(u, v) PROVE Keeps(s, v)
BY DEF Keeps

LEMMA Unlinked == ASSUME NEW s, NEW t, DOMAIN s = Fields PROVE Keeps(s, Unlink(s, t))
BY DEF Keeps, Unlink, Fields, Processor

LEMMA TimerDetached == ASSUME NEW s, NEW x, DOMAIN s = Fields PROVE Keeps(s, rt_timer_detach(s, x))
BY DEF Keeps, rt_timer_detach, Fields, Processor

LEMMA TimerStopped == ASSUME NEW s, NEW x, DOMAIN s = Fields PROVE Keeps(s, rt_timer_stop(s, x))
BY TimerDetached DEF Keeps, rt_timer_stop, Fields, Processor

LEMMA TimerStarted ==
  ASSUME NEW s, NEW x, NEW ticks, DOMAIN s = Fields PROVE Keeps(s, rt_timer_start(s, x, ticks))
BY DEF Keeps, rt_timer_start, Fields, Processor

LEMMA Inserted == ASSUME NEW s, NEW t, DOMAIN s = Fields PROVE Keeps(s, rt_schedule_insert_thread(s, t))
BY DEF Keeps, rt_schedule_insert_thread, Fields, Processor

LEMMA Removed == ASSUME NEW s, NEW t, DOMAIN s = Fields PROVE Keeps(s, rt_schedule_remove_thread(s, t))
BY Unlinked DEF Keeps, rt_schedule_remove_thread, Fields, Processor

LEMMA Suspended == ASSUME NEW s, NEW t, DOMAIN s = Fields
                   PROVE  Keeps(s, SuspendReady(s, t)) /\ Keeps(s, rt_thread_suspend(s, t))
<1> DEFINE u == rt_schedule_remove_thread(s, t)
           v == [u EXCEPT !.stat[t] = "suspend"]
<1>1. Keeps(s, v)
  <2>1. Keeps(s, u) BY Removed
  <2> HIDE DEF u
  <2>2. Keeps(u, v) BY <2>1 DEF Keeps, Fields, Processor
  <2> QED BY <2>1, <2>2, KeepsIsTransitive
<1>2. SuspendReady(s, t) = rt_timer_stop(v, t) BY DEF SuspendReady
<1> HIDE DEF v
<1>3. Keeps(v, rt_timer_stop(v, t)) BY <1>1, TimerStopped DEF Keeps
<1>4. Keeps(s, SuspendReady(s, t)) BY <1>1, <1>2, <1>3, KeepsIsTransitive
<1> QED BY <1>4 DEF Keeps, rt_thread_suspend

LEMMA Resumed == ASSUME NEW s, NEW t, DOMAIN s = Fields
                 PROVE  Keeps(s, ResumeUnlink(s, t)) /\ Keeps(s, rt_thread_resume(s, t))
<1>1. Keeps(s, ResumeUnlink(s, t))
  <2>1. Keeps(s, Unlink(s, t)) BY Unlinked
  <2>2. Keeps(Unlink(s, t), rt_timer_stop(Unlink(s, t), t)) BY <2>1, TimerStopped DEF Keeps
  <2> QED BY <2>1, <2>2, KeepsIsTransitive DEF ResumeUnlink
<1>2. Keeps(ResumeUnlink(s, t), rt_schedule_insert_thread(ResumeUnlink(s, t), t))
  BY <1>1, Inserted DEF Keeps
<1>3. Keeps(s, rt_schedule_insert_thread(ResumeUnlink(s, t), t)) BY <1>1, <1>2, KeepsIsTransitive
<1> QED BY <1>1, <1>3 DEF rt_thread_resume, Keeps

LEMMA PriorityChanged ==
  ASSUME NEW s, NEW t, NEW p, DOMAIN s = Fields PROVE Keeps(s, ChangePriority(s, t, p))
<1> DEFINE u == rt_schedule_remove_thread(s, t)
           v == [u EXCEPT !.priority[t] = p]
<1>1. Keeps(s, v)
  <2>1. Keeps(s, u) BY Removed
  <2> HIDE DEF u
  <2>2. Keeps(u, v) BY <2>1 DEF Keeps, Fields, Processor
  <2> QED BY <2>1, <2>2, KeepsIsTransitive
<1>2. ChangePriority(s, t, p) = IF s.stat[t] = "ready" THEN rt_schedule_insert_thread(v, t)
                                ELSE [s EXCEPT !.priority[t] = p]
  BY DEF ChangePriority
<1> HIDE DEF v
<1>3. Keeps(v, rt_schedule_insert_thread(v, t)) BY <1>1, Inserted DEF Keeps
<1>4. Keeps(s, rt_schedule_insert_thread(v, t)) BY <1>1, <1>3, KeepsIsTransitive
<1>5. Keeps(s, [s EXCEPT !.priority[t] = p]) BY DEF Keeps, Fields, Processor
<1> QED BY <1>2, <1>4, <1>5

LEMMA Blocked ==
  ASSUME NEW s, NEW o, NEW t, NEW time, DOMAIN s = Fields PROVE Keeps(s, Block(s, o, t, time))
<1> DEFINE u == [s EXCEPT !.error[t] = "ok"]
           v == rt_thread_suspend(u, t)
           w == [v EXCEPT !.waiting[o] = InsertAt(@, Place(v, o, t), t)]
<1>1. Keeps(s, u) BY DEF Keeps, Fields, Processor
<1>2. Keeps(s, w)
  <2> HIDE DEF u
  <2>1. Keeps(u, v) BY <1>1, Suspended DEF Keeps
  <2> HIDE DEF v
  <2>2. Keeps(v, w) BY <2>1 DEF Keeps, Fields, Processor
  <2> QED BY <1>1, <2>1, <2>2, KeepsIsTransitive
<1>3. Block(s, o, t, time) = IF time > 0 THEN rt_timer_start(w, t, time) ELSE w
  BY DEF Block, rt_ipc_list_suspend
<1> HIDE DEF w
<1>4. Keeps(s, rt_timer_start(w, t, time))
  BY <1>2, TimerStarted, KeepsIsTransitive DEF Keeps
<1> QED BY <1>2, <1>3, <1>4

LEMMA Released == ASSUME NEW s, NEW o, DOMAIN s = Fields PROVE Keeps(s, Release(s, o))
<1>1. Keeps(s, [s EXCEPT !.value[o] = @ + 1]) BY DEF Keeps, Fields, Processor
<1>2. Keeps(s, rt_ipc_list_resume(s, o)) BY Resumed DEF rt_ipc_list_resume
<1> QED BY <1>1, <1>2 DEF Release, Keeps

LEMMA ResumedWithError == ASSUME NEW s, NEW o, DOMAIN s = Fields PROVE Keeps(s, ResumeWithError(s, o))
<1> DEFINE t == Head(s.waiting[o])
           u == [s EXCEPT !.error[t] = "error"]
<1>1. Keeps(s, u) BY DEF Keeps, Fields, Processor
<1>2. Keeps(u, rt_thread_resume(u, t)) BY <1>1, Resumed DEF Keeps
<1> QED BY <1>1, <1>2, KeepsIsTransitive DEF ResumeWithError

LEMMA AllResumed == ASSUME NEW s, NEW o, DOMAIN s = Fields PROVE Keeps(s, ResumeAll(s, o))
BY DEF Keeps, ResumeAll, Fields, Processor

-----------------------------------------------------------------------------
(***************************************************************************)
(* Induction over natural numbers, and with it over the rounds in which    *)
(* rt_ipc_list_resume_all resumes the threads of a list.                   *)
(***************************************************************************)
\* A set of natural numbers that is not empty has a least one.
LEMMA Smallest == ASSUME NEW S \in SUBSET Nat, S # {} PROVE \E x \in S : \A y \in S : x <= y
<1>1. IsWellFoundedOn(OpToRel(<, Nat), Nat) BY NatLessThanWellFounded
<1>2. PICK x \in S : \A y \in S : ~(<<y, x>> \in OpToRel(<, Nat))
  BY <1>1, WFMin
<1>3. \A y \in S : ~(y < x) BY <1>2 DEF OpToRel
<1> QED BY <1>3

\* Induction up to n.
LEMMA UpTo ==
  ASSUME NEW n \in Nat, NEW S, 0 \in S, \A i \in 0 .. n - 1 : i \in S => i + 1 \in S
  PROVE  0 .. n \subseteq S
<1> DEFINE R == {i \in 0 .. n : i \notin S}
<1> SUFFICES ASSUME R # {} PROVE FALSE OBVIOUS
<1>0. R \in SUBSET Nat OBVIOUS
<1>1. PICK i \in R : \A j \in R : i <= j BY <1>0, Smallest
<1>2. i # 0 /\ i - 1 \in 0 .. n - 1 /\ i - 1 \notin R BY <1>1
<1>3. i - 1 \in S BY <1>2
<1> QED BY <1>1, <1>2, <1>3

\* The fields that the rounds of rt_ipc_list_resume_all change.
RoundFields == {"error", "stat", "ready", "group", "waiting", "timers", "activated", "timeout"}

LEMMA Rounds ==
  ASSUME NEW s, DOMAIN s = Fields, NEW o, Len(s.waiting[o]) \in Nat
  PROVE  LET n == Len(s.waiting[o]) IN
         \E after : /\ after[0] = s
                    /\ \A i \in 1 .. n : after[i] = ResumeWithError(after[i - 1], o)
                    /\ LET r == ResumeAll(s, o) IN
                       /\ DOMAIN r = Fields
                       /\ \A f \in RoundFields : r[f] = after[n][f]
                       /\ \A f \in Fields \ RoundFields : r[f] = s[f]
<1> DEFINE n == Len(s.waiting[o])
           Run(m, g) == g = [i \in 0 .. m |-> IF i = 0 THEN s ELSE ResumeWithError(g[i - 1], o)]
           S == {m \in 0 .. n : \E g : Run(m, g)}
<1>1. 0 \in S
  <2> DEFINE h == [i \in 0 .. 0 |-> s]
  <2>1. Run(0, h) /\ 0 \in 0 .. n OBVIOUS
  <2> HIDE DEF h, Run
  <2> QED BY <2>1
<1>2. ASSUME NEW m \in 0 .. n - 1, m \in S PROVE m + 1 \in S
  <2>1. PICK g : Run(m, g) BY <1>2
  <2> DEFINE h == [i \in 0 .. m + 1 |-> IF i <= m THEN g[i] ELSE ResumeWithError(g[m], o)]
  <2>2. \A i \in 0 .. m + 1 : h[i] = IF i = 0 THEN s ELSE ResumeWithError(h[i - 1], o)
    <3> SUFFICES ASSUME NEW i \in 0 .. m + 1
                 PROVE  h[i] = IF i = 0 THEN s ELSE ResumeWithError(h[i - 1], o)
      OBVIOUS
    <3>1. CASE i = 0 BY <2>1, <3>1
    <3>2. CASE i \in 1 .. m
      <4>1. h[i] = g[i] /\ h[i - 1] = g[i - 1] BY <3>2
      <4>2. g[i] = IF i = 0 THEN s ELSE ResumeWithError(g[i - 1], o) BY <2>1, <3>2
      <4> HIDE DEF h
      <4> QED BY <3>2, <4>1, <4>2
    <3>3. CASE i = m + 1
      <4>1. h[i] = ResumeWithError(g[m], o) /\ h[i - 1] = g[m] /\ i # 0 BY <3>3
      <4> HIDE DEF h
      <4> QED BY <4>1
    <3> QED BY <3>1, <3>2, <3>3
  <2>3. Run(m + 1, h)
    <3>1. h = [i \in 0 .. m + 1 |-> h[i]] OBVIOUS
    <3> HIDE DEF h
    <3> QED BY <2>2, <3>1
  <2>4. m + 1 \in 0 .. n BY <1>2
  <2> HIDE DEF h, Run
  <2> QED BY <2>3, <2>4
<1>3. n \in S
  <2> HIDE DEF S
  <2>1. 0 .. n \subseteq S BY <1>1, <1>2, UpTo
  <2> QED BY <2>1
<1>4. \E g : Run(n, g) BY <1>3
<1> DEFINE after == CHOOSE g : Run(n, g)
<1>5. Run(n, after) BY <1>4
<1> DEFINE u == after[n]
<1>6. ResumeAll(s, o) = [s EXCEPT !.error = u.error, !.stat = u.stat, !.ready = u.ready, !.group = u.group,
               !.waiting = u.waiting, !.timers = u.timers, !.activated = u.activated,
               !.timeout = u.timeout]
  BY DEF ResumeAll
<1> HIDE DEF after
<1>7. after[0] = s /\ \A i \in 1 .. n : after[i] = ResumeWithError(after[i - 1], o)
  <2>1. \A i \in 0 .. n : after[i] = IF i = 0 THEN s ELSE ResumeWithError(after[i - 1], o) BY <1>5
  <2> QED BY <2>1
<1>8. LET r == ResumeAll(s, o) IN
                       /\ DOMAIN r = Fields
                       /\ \A f \in RoundFields : r[f] = after[n][f]
                       /\ \A f \in Fields \ RoundFields : r[f] = s[f]
  <2> HIDE DEF u
  <2> QED BY <1>6 DEF u, Fields, RoundFields
<1> QED BY <1>7, <1>8

-----------------------------------------------------------------------------
(***************************************************************************)
(* What each function of the kernel changes: only the fields named, and of *)
(* the states, the lists of waiting threads and the active timers, how.    *)
(***************************************************************************)
Changes(s, u, F) == DOMAIN u = Fields /\ \A f \in Fields \ F : u[f] = s[f]

QueueParts == {"ready", "group", "waiting"}
TimerParts == {"timers", "activated", "timeout"}

\* The lists of waiting threads, without thread t.
Without(lists, t) == [o \in WaitList |-> RemoveFirst(lists[o], t)]

LEMMA ChangesInTurn ==
  ASSUME NEW s, NEW u, NEW v, NEW F, NEW G, Changes(s, u, F), Changes(u, v, G)
  PROVE  Changes(s, v, F \cup G)
BY DEF Changes

LEMMA ChangesMore ==
  ASSUME NEW s, NEW u, NEW F, NEW G, Changes(s, u, F), F \subseteq G PROVE Changes(s, u, G)
BY DEF Changes

LEMMA UnlinkEffect ==
  ASSUME NEW s, NEW t, DOMAIN s = Fields
  PROVE  LET u == Unlink(s, t) IN
         Changes(s, u, {"ready", "waiting"}) /\ u.waiting = Without(s.waiting, t)
BY DEF Changes, Unlink, Fields, Without

LEMMA DetachEffect ==
  ASSUME NEW s, NEW x, DOMAIN s = Fields
  PROVE  /\ LET u == rt_timer_detach(s, x) IN Changes(s, u, TimerParts) /\ u.activated = s.activated \ {x}
         /\ LET u == rt_timer_stop(s, x) IN Changes(s, u, TimerParts) /\ u.activated = s.activated \ {x}
<1>1. LET u == rt_timer_detach(s, x) IN Changes(s, u, TimerParts) /\ u.activated = s.activated \ {x}
  BY DEF Changes, rt_timer_detach, Fields, TimerParts
<1>2. Changes(s, s, TimerParts) BY DEF Changes
<1> QED BY <1>1, <1>2 DEF rt_timer_stop

LEMMA StartEffect ==
  ASSUME NEW s, NEW x, NEW ticks, DOMAIN s = Fields
  PROVE  LET u == rt_timer_start(s, x, ticks) IN
         Changes(s, u, TimerParts) /\ u.activated = s.activated \cup {x}
BY DEF Changes, rt_timer_start, Fields, TimerParts

LEMMA InsertEffect ==
  ASSUME NEW s, NEW t, DOMAIN s = Fields
  PROVE  LET u == rt_schedule_insert_thread(s, t) IN
         Changes(s, u, {"stat", "ready", "group"}) /\ u.stat = [s.stat EXCEPT ![t] = "ready"]
BY DEF Changes, rt_schedule_insert_thread, Fields

LEMMA RemoveEffect ==
  ASSUME NEW s, NEW t, DOMAIN s = Fields
  PROVE  LET u == rt_schedule_remove_thread(s, t) IN
         Changes(s, u, QueueParts) /\ u.waiting = Without(s.waiting, t)
<1> DEFINE u == Unlink(s, t)
<1>1. Changes(s, u, {"ready", "waiting"}) /\ u.waiting = Without(s.waiting, t) BY UnlinkEffect
<1>2. rt_schedule_remove_thread(s, t) =
        IF u.ready[u.priority[t]] = <<>> THEN [u EXCEPT !.group = @ \ {u.priority[t]}] ELSE u
  BY DEF rt_schedule_remove_thread
<1> HIDE DEF u
<1> QED BY <1>1, <1>2 DEF Changes, Fields, QueueParts

LEMMA SwitchEffect ==
  ASSUME NEW s, DOMAIN s = Fields
  PROVE  /\ Changes(s, rt_schedule(s), Processor) /\ Changes(s, ScheduleInInterrupt(s), Processor)
         /\ Changes(s, LeaveInterrupt(s), Processor)
<1> DEFINE c == [s EXCEPT !.current = Highest(s)]
           e == [s EXCEPT !.switch = <<>>]
<1>1. Changes(s, s, Processor) /\ Changes(s, c, Processor) /\ Changes(s, e, Processor)
  BY DEF Changes, Fields, Processor
<1>2. ASSUME NEW u, Changes(s, u, Processor), NEW a, NEW b
      PROVE  /\ Changes(s, rt_hw_context_switch(u, a, b), Processor)
             /\ Changes(s, rt_hw_context_switch_interrupt(u, a, b), Processor)
  BY <1>2 DEF rt_hw_context_switch, rt_hw_context_switch_interrupt, Changes, Fields, Processor
<1>3. rt_schedule(s) = s \/ rt_schedule(s) = rt_hw_context_switch(c, s.current, Highest(s))
  BY DEF rt_schedule
<1>4. \/ ScheduleInInterrupt(s) = s
      \/ ScheduleInInterrupt(s) = rt_hw_context_switch_interrupt(c, s.current, Highest(s))
  BY DEF ScheduleInInterrupt
<1>5. LeaveInterrupt(s) = s \/ LeaveInterrupt(s) = rt_hw_context_switch(e, s.switch[1], s.switch[2])
  BY DEF LeaveInterrupt
<1> HIDE DEF c, e
<1> QED BY <1>1, <1>2, <1>3, <1>4, <1>5

LEMMA SuspendEffect ==
  ASSUME NEW s, NEW t, DOMAIN s = Fields
  PROVE  LET u == SuspendReady(s, t) IN
         /\ Changes(s, u, QueueParts \cup TimerParts \cup {"stat"})
         /\ u.stat = [s.stat EXCEPT ![t] = "suspend"]
         /\ u.waiting = Without(s.waiting, t) /\ u.activated = s.activated \ {t}
<1> DEFINE a == rt_schedule_remove_thread(s, t)
           b == [a EXCEPT !.stat[t] = "suspend"]
<1>1. Changes(s, a, QueueParts) /\ a.waiting = Without(s.waiting, t) BY RemoveEffect
<1>2. SuspendReady(s, t) = rt_timer_stop(b, t) BY DEF SuspendReady
<1> HIDE DEF a
<1>3. /\ Changes(s, b, QueueParts \cup {"stat"}) /\ b.waiting = Without(s.waiting, t)
      /\ b.stat = [s.stat EXCEPT ![t] = "suspend"] /\ b.activated = s.activated
  BY <1>1 DEF Changes, Fields, QueueParts
<1> HIDE DEF b
<1>4. Changes(b, rt_timer_stop(b, t), TimerParts) /\ rt_timer_stop(b, t).activated = b.activated \ {t}
  BY <1>3, DetachEffect DEF Changes
<1> QED BY <1>2, <1>3, <1>4 DEF Changes, Fields, QueueParts, TimerParts

LEMMA ResumeEffect ==
  ASSUME NEW s, NEW t, DOMAIN s = Fields
  PROVE  /\ LET u == ResumeUnlink(s, t) IN
            /\ Changes(s, u, {"ready", "waiting"} \cup TimerParts)
            /\ u.waiting = Without(s.waiting, t) /\ u.activated = s.activated \ {t}
         /\ LET u == rt_thread_resume(s, t) IN
            /\ Changes(s, u, QueueParts \cup TimerParts \cup {"stat"})
            /\ s.stat[t] = "suspend" =>
                 /\ u.stat = [s.stat EXCEPT ![t] = "ready"]
                 /\ u.waiting = Without(s.waiting, t) /\ u.activated = s.activated \ {t}
            /\ s.stat[t] # "suspend" => u = s
<1> DEFINE a == Unlink(s, t)
           b == ResumeUnlink(s, t)
           c == rt_schedule_insert_thread(b, t)
<1>1. Changes(s, a, {"ready", "waiting"}) /\ a.waiting = Without(s.waiting, t) BY UnlinkEffect
<1>2. b = rt_timer_stop(a, t) BY DEF ResumeUnlink
<1>3. rt_thread_resume(s, t) = IF s.stat[t] = "suspend" THEN c ELSE s BY DEF rt_thread_resume
<1> HIDE DEF a, b
<1>4. Changes(a, b, TimerParts) /\ b.activated = a.activated \ {t} BY <1>1, <1>2, DetachEffect DEF Changes
<1>5. /\ Changes(s, b, {"ready", "waiting"} \cup TimerParts)
      /\ b.waiting = Without(s.waiting, t) /\ b.activated = s.activated \ {t}
  BY <1>1, <1>4 DEF Changes, Fields, TimerParts
<1>6. Changes(b, c, {"stat", "ready", "group"}) /\ c.stat = [b.stat EXCEPT ![t] = "ready"]
  BY <1>4, InsertEffect DEF Changes
<1> HIDE DEF c
<1>7. /\ Changes(s, c, QueueParts \cup TimerParts \cup {"stat"}) /\ c.stat = [s.stat EXCEPT ![t] = "ready"]
      /\ c.waiting = Without(s.waiting, t) /\ c.activated = s.activated \ {t}
  BY <1>5, <1>6 DEF Changes, Fields, TimerParts, QueueParts
<1>8. Changes(s, s, QueueParts \cup TimerParts \cup {"stat"}) BY DEF Changes
<1> QED BY <1>3, <1>5, <1>7, <1>8 DEF b

LEMMA ErrorEffect ==
  ASSUME NEW s, NEW o, DOMAIN s = Fields
  PROVE  LET t == Head(s.waiting[o])
             u == ResumeWithError(s, o) IN
         /\ Changes(s, u, QueueParts \cup TimerParts \cup {"stat", "error"})
         /\ u.error = [s.error EXCEPT ![t] = "error"]
         /\ s.stat[t] = "suspend" =>
              /\ u.stat = [s.stat EXCEPT ![t] = "ready"]
              /\ u.waiting = Without(s.waiting, t) /\ u.activated = s.activated \ {t}
         /\ s.stat[t] # "suspend" => u.stat = s.stat /\ u.waiting = s.waiting /\ u.activated = s.activated
<1> DEFINE t == Head(s.waiting[o])
           a == [s EXCEPT !.error[t] = "error"]
           u == rt_thread_resume(a, t)
<1>1. ResumeWithError(s, o) = u BY DEF ResumeWithError
<1> HIDE DEF t
<1>2. Changes(s, a, {"error"}) /\ a.error = [s.error EXCEPT ![t] = "error"] BY DEF Changes, Fields
<1> HIDE DEF a
<1>3. /\ Changes(a, u, QueueParts \cup TimerParts \cup {"stat"})
      /\ a.stat[t] = "suspend" =>
           /\ u.stat = [a.stat EXCEPT ![t] = "ready"]
           /\ u.waiting = Without(a.waiting, t) /\ u.activated = a.activated \ {t}
      /\ a.stat[t] # "suspend" => u = a
  BY <1>2, ResumeEffect DEF Changes
<1> HIDE DEF u
<1>4. a.stat = s.stat /\ a.waiting = s.waiting /\ a.activated = s.activated BY <1>2 DEF Changes, Fields
<1>5. u.error = a.error BY <1>3 DEF Changes, Fields, QueueParts, TimerParts
<1>6. Changes(s, u, QueueParts \cup TimerParts \cup {"stat", "error"}) BY <1>2, <1>3 DEF Changes
<1> QED BY <1>1, <1>2, <1>3, <1>4, <1>5, <1>6 DEF t

LEMMA ReleaseEffect ==
  ASSUME NEW s, NEW o, DOMAIN s = Fields
  PROVE  LET u == Release(s, o)
             t == Head(s.waiting[o]) IN
         /\ Changes(s, u, QueueParts \cup TimerParts \cup {"stat", "value"})
         /\ s.waiting[o] # <<>> => u = rt_thread_resume(s, t) /\ u.value = s.value
         /\ s.waiting[o] = <<>> =>
              /\ Changes(s, u, {"value"})
              /\ u.value = IF s.value[o] < ValueMax THEN [s.value EXCEPT ![o] = @ + 1] ELSE s.value
<1> DEFINE t == Head(s.waiting[o])
           r == rt_thread_resume(s, t)
           n == [s EXCEPT !.value[o] = @ + 1]
<1>1. Release(s, o) = IF s.waiting[o] # <<>> THEN r ELSE IF s.value[o] < ValueMax THEN n ELSE s
  BY DEF Release, rt_ipc_list_resume
<1>2. Changes(s, r, QueueParts \cup TimerParts \cup {"stat"}) BY ResumeEffect
<1> HIDE DEF r
<1>3. Changes(s, n, {"value"}) /\ n.value = [s.value EXCEPT ![o] = @ + 1] BY DEF Changes, Fields
<1>4. Changes(s, s, {"value"}) BY DEF Changes
<1>5. r.value = s.value BY <1>2 DEF Changes, Fields, QueueParts, TimerParts
<1>6. /\ Changes(s, r, QueueParts \cup TimerParts \cup {"stat", "value"})
      /\ Changes(s, n, QueueParts \cup TimerParts \cup {"stat", "value"})
      /\ Changes(s, s, QueueParts \cup TimerParts \cup {"stat", "value"})
  BY <1>2, <1>3, <1>4, ChangesMore
<1> HIDE DEF n
<1> QED BY <1>1, <1>3, <1>4, <1>5, <1>6 DEF r, t

LEMMA PriorityEffect ==
  ASSUME NEW s, NEW t, NEW p, DOMAIN s = Fields
  PROVE  LET u == ChangePriority(s, t, p) IN
         /\ Changes(s, u, QueueParts \cup {"stat", "priority"})
         /\ u.priority = [s.priority EXCEPT ![t] = p]
         /\ s.stat[t] = "ready" =>
              u.stat = [s.stat EXCEPT ![t] = "ready"] /\ u.waiting = Without(s.waiting, t)
         /\ s.stat[t] # "ready" => Changes(s, u, {"priority"})
<1> DEFINE a == rt_schedule_remove_thread(s, t)
           b == [a EXCEPT !.priority[t] = p]
           c == rt_schedule_insert_thread(b, t)
           d == [s EXCEPT !.priority[t] = p]
<1>1. ChangePriority(s, t, p) = IF s.stat[t] = "ready" THEN c ELSE d BY DEF ChangePriority
<1>2. Changes(s, a, QueueParts) /\ a.waiting = Without(s.waiting, t) BY RemoveEffect
<1> HIDE DEF a
<1>3. /\ Changes(s, b, QueueParts \cup {"priority"}) /\ b.waiting = Without(s.waiting, t)
      /\ b.priority = [s.priority EXCEPT ![t] = p] /\ b.stat = s.stat
  BY <1>2 DEF Changes, Fields, QueueParts
<1> HIDE DEF b
<1>4. Changes(b, c, {"stat", "ready", "group"}) /\ c.stat = [b.stat EXCEPT ![t] = "ready"]
  BY <1>3, InsertEffect DEF Changes
<1> HIDE DEF c
<1>5. /\ Changes(s, c, QueueParts \cup {"stat", "priority"})
      /\ c.stat = [s.stat EXCEPT ![t] = "ready"] /\ c.waiting = Without(s.waiting, t)
      /\ c.priority = [s.priority EXCEPT ![t] = p]
  BY <1>3, <1>4 DEF Changes, Fields, QueueParts
<1>6. Changes(s, d, {"priority"}) /\ d.priority = [s.priority EXCEPT ![t] = p] BY DEF Changes, Fields
<1>7. Changes(s, d, QueueParts \cup {"stat", "priority"}) BY <1>6, ChangesMore
<1> QED BY <1>1, <1>5, <1>6, <1>7

\* From s to u, thread t has begun to wait in list o.
Enqueues(s, u, o, t, time) ==
  /\ Changes(s, u, QueueParts \cup TimerParts \cup {"stat", "error"})
  /\ u.error = [s.error EXCEPT ![t] = "ok"]
  /\ u.stat = IF s.stat[t] = "ready" THEN [s.stat EXCEPT ![t] = "suspend"] ELSE s.stat
  /\ time > 0 => u.activated = s.activated \cup {t}
  /\ ~(time > 0) => u.activated \subseteq s.activated
  /\ \A l : s.stat[t] = "ready" /\ l.waiting = Without(s.waiting, t) /\ l.priority = s.priority =>
       u.waiting = [l.waiting EXCEPT ![o] = InsertAt(@, Place(l, o, t), t)]

LEMMA BlockEffect ==
  ASSUME NEW s, NEW o, NEW t, NEW time, DOMAIN s = Fields PROVE Enqueues(s, Block(s, o, t, time), o, t, time)
<1> DEFINE lists == IF s.stat[t] = "ready" THEN Without(s.waiting, t) ELSE s.waiting
           a == [s EXCEPT !.error[t] = "ok"]
           b == rt_thread_suspend(a, t)
           c == [b EXCEPT !.waiting[o] = InsertAt(@, Place(b, o, t), t)]
           d == rt_timer_start(c, t, time)
<1>1. Block(s, o, t, time) = IF time > 0 THEN d ELSE c BY DEF Block, rt_ipc_list_suspend
<1>2. Changes(s, a, {"error"}) /\ a.error = [s.error EXCEPT ![t] = "ok"] BY DEF Changes, Fields
<1>3. b = IF a.stat[t] = "ready" THEN SuspendReady(a, t) ELSE a BY DEF rt_thread_suspend
<1> HIDE DEF a, b, lists
<1>4. a.stat = s.stat /\ a.waiting = s.waiting /\ a.activated = s.activated /\ a.priority = s.priority
  BY <1>2 DEF Changes, Fields
<1>5. /\ Changes(a, b, QueueParts \cup TimerParts \cup {"stat"})
      /\ b.stat = IF s.stat[t] = "ready" THEN [s.stat EXCEPT ![t] = "suspend"] ELSE s.stat
      /\ b.waiting = lists
      /\ b.activated = IF s.stat[t] = "ready" THEN s.activated \ {t} ELSE s.activated
  <2>1. DOMAIN a = Fields BY <1>2 DEF Changes
  <2>2. CASE s.stat[t] = "ready"
    <3>1. b = SuspendReady(a, t) /\ lists = Without(a.waiting, t) BY <1>3, <1>4, <2>2 DEF lists
    <3> QED BY <1>4, <2>1, <2>2, <3>1, SuspendEffect
  <2>3. CASE s.stat[t] # "ready"
    <3>1. b = a /\ lists = a.waiting BY <1>3, <1>4, <2>3 DEF lists
    <3> QED BY <1>4, <2>1, <2>3, <3>1 DEF Changes
  <2> QED BY <2>2, <2>3
<1>6. b.error = a.error /\ b.priority = s.priority
  BY <1>4, <1>5 DEF Changes, Fields, QueueParts, TimerParts
<1>7. \A l : s.stat[t] = "ready" /\ l.waiting = Without(s.waiting, t) /\ l.priority = s.priority =>
        l.waiting = b.waiting /\ Place(b, o, t) = Place(l, o, t)
  BY <1>5, <1>6 DEF Place, lists
<1>8. /\ Changes(b, c, {"waiting"})
      /\ c.waiting = [b.waiting EXCEPT ![o] = InsertAt(@, Place(b, o, t), t)]
  BY <1>5 DEF Changes, Fields
<1> HIDE DEF c
<1>9. /\ Changes(s, c, QueueParts \cup TimerParts \cup {"stat", "error"})
      /\ c.error = [s.error EXCEPT ![t] = "ok"] /\ c.stat = b.stat /\ c.activated = b.activated
  BY <1>2, <1>5, <1>6, <1>8 DEF Changes, Fields, QueueParts
<1>10. Changes(c, d, TimerParts) /\ d.activated = c.activated \cup {t} BY <1>9, StartEffect DEF Changes
<1> HIDE DEF d
<1>11. /\ Changes(s, d, QueueParts \cup TimerParts \cup {"stat", "error"})
       /\ d.error = c.error /\ d.stat = c.stat /\ d.waiting = c.waiting
  BY <1>9, <1>10 DEF Changes, Fields, TimerParts
<1>12. b.activated \cup {t} = s.activated \cup {t} /\ b.activated \subseteq s.activated BY <1>5
<1>13. LET u == Block(s, o, t, time) IN
         /\ Changes(s, u, QueueParts \cup TimerParts \cup {"stat", "error"})
         /\ u.error = [s.error EXCEPT ![t] = "ok"]
         /\ u.stat = IF s.stat[t] = "ready" THEN [s.stat EXCEPT ![t] = "suspend"] ELSE s.stat
         /\ u.waiting = [b.waiting EXCEPT ![o] = InsertAt(@, Place(b, o, t), t)]
         /\ time > 0 => u.activated = s.activated \cup {t}
         /\ ~(time > 0) => u.activated \subseteq s.activated
  <2>1. CASE time > 0 BY <1>1, <1>5, <1>8, <1>9, <1>10, <1>11, <1>12, <2>1
  <2>2. CASE ~(time > 0) BY <1>1, <1>5, <1>8, <1>9, <1>12, <2>2
  <2> QED BY <2>1, <2>2
<1> QED BY <1>7, <1>13 DEF Enqueues

\* The timeout function of a thread's timer.
LEMMA TimeoutEffect ==
  ASSUME NEW s, NEW t, DOMAIN s = Fields
  PROVE  LET u == rt_thread_timeout(s, t) IN
         /\ Changes(s, u, QueueParts \cup Processor \cup {"stat", "error"})
         /\ u.error = [s.error EXCEPT ![t] = "timeout"] /\ u.stat = [s.stat EXCEPT ![t] = "ready"]
         /\ u.waiting = Without(s.waiting, t)
<1> DEFINE a == [s EXCEPT !.error[t] = "timeout"]
           b == Unlink(a, t)
           c == rt_schedule_insert_thread(b, t)
           d == ScheduleInInterrupt(c)
<1>1. rt_thread_timeout(s, t) = d BY DEF rt_thread_timeout
<1>2. Changes(s, a, {"error"}) /\ a.error = [s.error EXCEPT ![t] = "timeout"] BY DEF Changes, Fields
<1> HIDE DEF a
<1>3. Changes(a, b, {"ready", "waiting"}) /\ b.waiting = Without(a.waiting, t)
  BY <1>2, UnlinkEffect DEF Changes
<1> HIDE DEF b
<1>4. Changes(b, c, {"stat", "ready", "group"}) /\ c.stat = [b.stat EXCEPT ![t] = "ready"]
  BY <1>3, InsertEffect DEF Changes
<1> HIDE DEF c
<1>5. Changes(c, d, Processor) BY <1>4, SwitchEffect DEF Changes
<1> HIDE DEF d
<1>6. /\ a.stat = s.stat /\ a.waiting = s.waiting /\ b.error = a.error /\ b.stat = s.stat
      /\ c.error = a.error /\ c.waiting = b.waiting
      /\ d.error = c.error /\ d.waiting = c.waiting /\ d.stat = c.stat
  BY <1>2, <1>3, <1>4, <1>5 DEF Changes, Fields, Processor
<1>7. Changes(s, d, QueueParts \cup Processor \cup {"stat", "error"})
  BY <1>2, <1>3, <1>4, <1>5 DEF Changes, QueueParts
<1> QED BY <1>1, <1>2, <1>3, <1>4, <1>6, <1>7

-----------------------------------------------------------------------------
(***************************************************************************)
(* What holds of the processor within an interrupt: it still has the       *)
(* registers of the interrupted thread, every other thread has its own on  *)
(* its stack, and the switch that was asked for, if any, leads from the    *)
(* interrupted thread to the one that the scheduler has chosen last.       *)
(***************************************************************************)
Deferred(s) ==
  /\ DOMAIN s = Fields
  /\ s.current \in Thread /\ s.cpu \in Thread /\ s.saved \in [Thread -> Thread]
  /\ \A t \in Thread \ {s.cpu} : s.saved[t] = t
  /\ \/ s.switch = <<>> /\ s.cpu = s.current
     \/ s.switch = <<s.cpu, s.current>>

\* Outside interrupts no switch is left over.
Own(s) == Deferred(s) /\ s.switch = <<>>

LEMMA DeferredKept ==
  ASSUME NEW s, NEW u, Keeps(s, u) PROVE (Deferred(s) => Deferred(u)) /\ (Own(s) => Own(u))
BY DEF Keeps, Deferred, Own, Fields, Processor

LEMMA PairIsNotEmpty == \A a, b : <<a, b>> # <<>>
OBVIOUS

LEMMA Switched ==
  ASSUME NEW s, Own(s), Highest(rt_schedule(s)) \in Thread PROVE Own(rt_schedule(s))
<1> DEFINE h == Highest(s)
<1>1. CASE s.lock_nest > 0 \/ h = s.current BY <1>1 DEF rt_schedule
<1>2. CASE ~(s.lock_nest > 0 \/ h = s.current)
  <2> DEFINE u == rt_schedule(s)
             stacks == [s.saved EXCEPT ![s.current] = s.cpu]
  <2>1. u = [[s EXCEPT !.current = h] EXCEPT !.saved = stacks, !.cpu = stacks[h]]
    BY <1>2 DEF rt_schedule, rt_hw_context_switch, Own, Deferred, Fields
  <2>2. /\ DOMAIN u = Fields /\ u.ready = s.ready /\ u.group = s.group /\ u.switch = s.switch
        /\ u.current = h /\ u.saved = stacks /\ u.cpu = stacks[h]
    BY <2>1 DEF Own, Deferred, Fields
  <2>3. h \in Thread BY <2>2 DEF Highest
  <2>4. stacks[h] = h /\ stacks \in [Thread -> Thread] /\ \A t \in Thread : stacks[t] = t
    BY <1>2, <2>3, PairIsNotEmpty DEF Own, Deferred
  <2> QED BY <2>2, <2>3, <2>4 DEF Own, Deferred
<1> QED BY <1>1, <1>2

LEMMA SwitchedLater ==
  ASSUME NEW s, Deferred(s), Highest(ScheduleInInterrupt(s)) \in Thread
  PROVE  Deferred(ScheduleInInterrupt(s))
<1> DEFINE h == Highest(s)
<1>1. CASE s.lock_nest > 0 \/ h = s.current BY <1>1 DEF ScheduleInInterrupt
<1>2. CASE ~(s.lock_nest > 0 \/ h = s.current)
  <2> DEFINE u == ScheduleInInterrupt(s)
             v == [s EXCEPT !.current = h]
  <2>1. u = [v EXCEPT !.switch = IF @ = <<>> THEN <<s.current, h>> ELSE <<@[1], h>>]
    BY <1>2 DEF ScheduleInInterrupt, rt_hw_context_switch_interrupt
  <2>2. DOMAIN v = Fields /\ v.switch = s.switch BY DEF Deferred, Fields
  <2>3. /\ DOMAIN u = Fields /\ u.ready = s.ready /\ u.group = s.group
        /\ u.current = h /\ u.saved = s.saved /\ u.cpu = s.cpu
        /\ u.switch = IF s.switch = <<>> THEN <<s.current, h>> ELSE <<s.switch[1], h>>
    BY <2>1, <2>2 DEF Deferred, Fields
  <2>4. h \in Thread BY <2>3 DEF Highest
  <2>5. u.switch = <<s.cpu, h>> BY <2>3, PairIsNotEmpty DEF Deferred
  <2> QED BY <2>3, <2>4, <2>5 DEF Deferred
<1> QED BY <1>1, <1>2

LEMMA SwitchedAtReturn == ASSUME NEW s, Deferred(s) PROVE Own(LeaveInterrupt(s))
<1>1. CASE s.switch = <<>> BY <1>1 DEF LeaveInterrupt, Own
<1>2. CASE s.switch # <<>>
  <2> DEFINE u == LeaveInterrupt(s)
             stacks == [s.saved EXCEPT ![s.cpu] = s.cpu]
  <2>1. s.switch = <<s.cpu, s.current>> /\ s.switch[1] = s.cpu /\ s.switch[2] = s.current
    BY <1>2 DEF Deferred
  <2>2. u = [[s EXCEPT !.switch = <<>>] EXCEPT !.saved = stacks, !.cpu = stacks[s.current]]
    BY <1>2, <2>1 DEF LeaveInterrupt, rt_hw_context_switch, Deferred, Fields
  <2>3. /\ DOMAIN u = Fields /\ u.switch = <<>> /\ u.current = s.current
        /\ u.saved = stacks /\ u.cpu = stacks[s.current]
    BY <2>2 DEF Deferred, Fields
  <2>4. \A t \in Thread : stacks[t] = t BY DEF Deferred
  <2>5. stacks \in [Thread -> Thread] BY DEF Deferred
  <2> QED BY <2>3, <2>4, <2>5 DEF Own, Deferred
<1> QED BY <1>1, <1>2

-----------------------------------------------------------------------------
(***************************************************************************)
(* The steps.  SomeReady is what the kernel owes to its idle thread: the   *)
(* highest priority with a ready thread exists and its queue has a thread. *)
(***************************************************************************)
SomeReady == Highest(k) \in Thread

ContextInv ==
  /\ Deferred(k)
  /\ isr = "none" => k.switch = <<>>

LEMMA Initially == Init => ContextInv
<1> SUFFICES ASSUME Init PROVE ContextInv OBVIOUS
<1>1. k = Booted /\ Main \in Thread BY SchedAssumption DEF Init
<1>2. DOMAIN k = Fields BY <1>1 DEF Booted, Fields
<1>3. k.current = Main /\ k.cpu = Main /\ k.switch = <<>> /\ k.saved = [t \in Thread |-> t]
  BY <1>1 DEF Booted
<1> QED BY <1>1, <1>2, <1>3 DEF ContextInv, Deferred

\* A step of a thread leaves the processor as it is, or ends with rt_schedule.
LEMMA ThreadEffect ==
  ASSUME NEW t, ThreadStep(t), DOMAIN k = Fields
  PROVE  Keeps(k, k') \/ \E w : Keeps(k, w) /\ k' = rt_schedule(w)
<1>0. Keeps(k, k) BY DEF Keeps
<1>1. CASE Schedule(t) \/ CallSchedule(t) BY <1>0, <1>1 DEF Schedule, CallSchedule
<1>2. CASE Yield(t) BY <1>0, <1>2 DEF Yield, Rotate, Keeps, Fields, Processor
<1>3. CASE Sleep(t)
  <2>1. Keeps(k, rt_thread_suspend(k, t)) BY Suspended
  <2>2. Keeps(rt_thread_suspend(k, t), k')
    BY <1>3, <2>1, TimerStarted DEF Sleep, Keeps
  <2> QED BY <2>1, <2>2, KeepsIsTransitive
<1>4. CASE SleepReturn(t) BY <1>4 DEF SleepReturn, Keeps, Fields, Processor
<1>5. CASE Suspend(t) \/ Resume(t) \/ Detach(t) \/ TakeReturn(t) \/ SemDetach(t) \/ Drain(t) \/ StopTimer(t)
  BY <1>0, <1>5 DEF Suspend, Resume, Detach, TakeReturn, SemDetach, Drain, StopTimer
<1>6. CASE SuspendBody(t) BY <1>6, Suspended DEF SuspendBody
<1>7. CASE ResumeFirst(t) BY <1>7, Resumed DEF ResumeFirst
<1>8. CASE ResumeSecond(t) BY <1>8, Inserted DEF ResumeSecond
<1>9. CASE Startup(t) BY <1>9 DEF Startup, Keeps, Fields, Processor
<1>10. CASE Exit(t)
  <2> DEFINE u == rt_schedule_remove_thread(k, t)
             v == [u EXCEPT !.stat[t] = "close"]
  <2>1. Keeps(k, v)
    <3>1. Keeps(k, u) BY Removed
    <3> HIDE DEF u
    <3>2. Keeps(u, v) BY <3>1 DEF Keeps, Fields, Processor
    <3> QED BY <3>1, <3>2, KeepsIsTransitive
  <2>2. k' = rt_schedule(rt_timer_detach(v, t)) BY <1>10 DEF Exit
  <2> HIDE DEF v
  <2>3. Keeps(k, rt_timer_detach(v, t)) BY <2>1, TimerDetached, KeepsIsTransitive DEF Keeps
  <2> QED BY <2>2, <2>3
<1>11. CASE SetPriority(t) BY <1>11, PriorityChanged DEF SetPriority
<1>12. CASE EnterCritical(t) \/ ExitCritical(t)
  BY <1>12 DEF EnterCritical, ExitCritical, Keeps, Fields, Processor
<1>13. CASE DetachRemove(t) BY <1>13, Removed DEF DetachRemove
<1>14. CASE DetachTimer(t) \/ StopTimerBody(t) BY <1>14, TimerDetached DEF DetachTimer, StopTimerBody
<1>15. CASE DetachClose(t) BY <1>15 DEF DetachClose, Keeps, Fields, Processor
<1>16. CASE Take(t)
  <2>1. Keeps(k, [k EXCEPT !.value[Call(t).on] = @ - 1]) BY DEF Keeps, Fields, Processor
  <2> QED BY <1>0, <1>16, <2>1, Blocked DEF Take
<1>17. CASE Poll(t) BY <1>0, <1>17 DEF Poll, Keeps, Fields, Processor
<1>18. CASE SemRelease(t) BY <1>18, Released DEF SemRelease
<1>19. CASE Reset(t)
  <2> DEFINE u == ResumeAll(k, Call(t).on)
  <2>1. Keeps(k, u) BY AllResumed
  <2>2. k' = [u EXCEPT !.value[Call(t).on] = Call(t).arg] BY <1>19 DEF Reset
  <2> HIDE DEF u
  <2>3. Keeps(u, k') BY <2>1, <2>2 DEF Keeps, Fields, Processor
  <2> QED BY <2>1, <2>3, KeepsIsTransitive
<1>20. CASE DrainOne(t) BY <1>0, <1>20, ResumedWithError DEF DrainOne
<1>21. CASE SetTime(t) BY <1>21 DEF SetTime, Keeps, Fields, Processor
<1>22. CASE StartTimer(t) BY <1>22, TimerStarted DEF StartTimer
<1> QED
  BY <1>1, <1>2, <1>3, <1>4, <1>5, <1>6, <1>7, <1>8, <1>9, <1>10, <1>11, <1>12, <1>13, <1>14, <1>15,
     <1>16, <1>17, <1>18, <1>19, <1>20, <1>21, <1>22 DEF ThreadStep

LEMMA ThreadKeepsContexts == ASSUME ContextInv, SomeReady', RunThread PROVE ContextInv'
<1>1. isr = "none" /\ Own(k) /\ DOMAIN k = Fields BY DEF RunThread, ContextInv, Own, Deferred
<1>2. CASE Keeps(k, k') BY <1>1, <1>2, DeferredKept DEF ContextInv, Own
<1>3. ASSUME NEW w, Keeps(k, w), k' = rt_schedule(w) PROVE ContextInv'
  <2>1. Own(w) BY <1>1, <1>3, DeferredKept
  <2>2. Highest(rt_schedule(w)) \in Thread BY <1>3 DEF SomeReady
  <2> QED BY <1>3, <2>1, <2>2, Switched DEF ContextInv, Own
<1> QED BY <1>1, <1>2, <1>3, ThreadEffect DEF RunThread

\* The tick: time slices, and a switch at the end of one.
LEMMA TickKeepsContexts == ASSUME ContextInv, SomeReady', Tick PROVE ContextInv'
<1> DEFINE t == k.current
           u == [k EXCEPT !.tick = (@ + 1) % TickMod]
           v == [u EXCEPT !.remaining_tick[t] = Slice[t]]
           w == [u EXCEPT !.remaining_tick[t] = @ - 1]
<1>1. Deferred(k) /\ k' = TickOver(k) /\ isr' = "timers" BY DEF Tick, ContextInv
<1>2. Keeps(k, u) BY <1>1 DEF Deferred, Keeps, Fields, Processor
<1>3. k' = IF k.remaining_tick[t] > 1 THEN w
           ELSE IF CanYield(v, t) THEN ScheduleInInterrupt(Rotate(v, t)) ELSE v
  BY <1>1 DEF TickOver
<1>4. Keeps(k, v) /\ Keeps(k, w)
  <2> HIDE DEF u
  <2>1. Keeps(u, v) /\ Keeps(u, w) BY <1>2 DEF Keeps, Fields, Processor
  <2> QED BY <1>2, <2>1, KeepsIsTransitive
<1> HIDE DEF u, v, w
<1>5. Keeps(v, Rotate(v, t)) BY <1>4 DEF Rotate, Keeps, Fields, Processor
<1>6. Deferred(v) /\ Deferred(w) /\ Deferred(Rotate(v, t))
  BY <1>1, <1>4, <1>5, DeferredKept
<1>7. Deferred(k')
  <2>1. CASE k' = ScheduleInInterrupt(Rotate(v, t))
    BY <1>6, <2>1, SwitchedLater DEF SomeReady
  <2> QED BY <1>3, <1>6, <2>1
<1> QED BY <1>1, <1>7 DEF ContextInv

\* A timeout function, of a thread's timer or of one that releases a semaphore.
LEMMA Fired ==
  ASSUME NEW s, NEW x, Deferred(s)
  PROVE  /\ DOMAIN Fire(s, x) = Fields
         /\ Highest(Fire(s, x)) \in Thread => Deferred(Fire(s, x))
<1>1. ASSUME NEW u, Keeps(s, u)
      PROVE  /\ DOMAIN ScheduleInInterrupt(u) = Fields
             /\ Highest(ScheduleInInterrupt(u)) \in Thread => Deferred(ScheduleInInterrupt(u))
  <2>1. Deferred(u) BY <1>1, DeferredKept
  <2>2. DOMAIN ScheduleInInterrupt(u) = Fields
    BY <2>1 DEF ScheduleInInterrupt, rt_hw_context_switch_interrupt, Deferred
  <2> QED BY <2>1, <2>2, SwitchedLater
<1>2. CASE x \in Thread
  <2> DEFINE a == [s EXCEPT !.error[x] = "timeout"]
             b == rt_schedule_insert_thread(Unlink(a, x), x)
  <2>1. Keeps(s, a) BY DEF Deferred, Keeps, Fields, Processor
  <2>2. Fire(s, x) = ScheduleInInterrupt(b) BY <1>2 DEF Fire, rt_thread_timeout
  <2>3. Keeps(a, Unlink(a, x)) BY <2>1, Unlinked DEF Keeps
  <2>4. Keeps(Unlink(a, x), b) BY <2>3, Inserted DEF Keeps
  <2> HIDE DEF a, b
  <2>5. Keeps(s, b) BY <2>1, <2>3, <2>4, KeepsIsTransitive
  <2> QED BY <1>1, <2>2, <2>5
<1>3. CASE x \notin Thread
  <2>1. Keeps(s, Release(s, Signals[x])) BY Released DEF Deferred
  <2>2. Fire(s, x) \in {ScheduleInInterrupt(Release(s, Signals[x])), Release(s, Signals[x])}
    BY <1>3 DEF Fire
  <2>3. Deferred(Release(s, Signals[x])) BY <2>1, DeferredKept
  <2> QED BY <1>1, <2>1, <2>2, <2>3 DEF Deferred
<1> QED BY <1>2, <1>3

LEMMA ExpiryKeepsContexts == ASSUME ContextInv, SomeReady', TimerExpires PROVE ContextInv'
<1> DEFINE x == Head(k.timers)
           u == [k EXCEPT !.timers = Tail(@)]
<1>1. Deferred(k) /\ k' = Expire(k, x) /\ isr' = isr /\ isr = "timers" BY DEF TimerExpires, ContextInv
<1>2. CASE x \in Periodic
  <2>1. Keeps(k, u) BY <1>1 DEF Deferred, Keeps, Fields, Processor
  <2>2. k' = rt_timer_start(Fire(u, x), x, k.init_tick[x]) BY <1>1, <1>2 DEF Expire
  <2>3. Deferred(u) BY <1>1, <2>1, DeferredKept
  <2> HIDE DEF u
  <2>4. DOMAIN Fire(u, x) = Fields BY <2>3, Fired
  <2>5. Highest(k') = Highest(Fire(u, x)) BY <2>2, <2>4 DEF rt_timer_start, Highest, Fields
  <2>6. Deferred(Fire(u, x)) BY <2>3, <2>5, Fired DEF SomeReady
  <2>7. Keeps(Fire(u, x), k') BY <2>2, <2>4, TimerStarted
  <2> QED BY <1>1, <2>6, <2>7, DeferredKept DEF ContextInv
<1>3. CASE x \notin Periodic
  <2>1. Keeps(k, rt_timer_detach(k, x)) BY <1>1, TimerDetached DEF Deferred
  <2>2. k' = Fire(rt_timer_detach(k, x), x) BY <1>1, <1>3 DEF Expire
  <2> QED BY <1>1, <2>1, <2>2, DeferredKept, Fired DEF ContextInv, SomeReady
<1> QED BY <1>2, <1>3

LEMMA ReturnKeepsContexts == ASSUME ContextInv, TickReturns PROVE ContextInv'
BY SwitchedAtReturn DEF ContextInv, TickReturns, Own

\* As long as some thread is ready, what the deferred switch relies on always holds (cpuport.c).
THEOREM ContextsInvariant == Spec /\ []SomeReady => []ContextInv
<1>1. ContextInv /\ SomeReady' /\ [Next]_vars => ContextInv'
  <2> SUFFICES ASSUME ContextInv, SomeReady', [Next]_vars PROVE ContextInv' OBVIOUS
  <2>1. CASE Next
    BY <2>1, ThreadKeepsContexts, TickKeepsContexts, ExpiryKeepsContexts, ReturnKeepsContexts DEF Next
  <2>2. CASE UNCHANGED vars
    BY <2>2 DEF vars, ContextInv, Deferred
  <2> QED BY <2>1, <2>2
<1> QED BY <1>1, Initially, PTL DEF Spec

\* As long as some thread is ready, the processor runs the thread that the scheduler has chosen
\* and the stack of every other thread holds that thread's own registers, for all programs.
THEOREM ContextsAreOwn == Spec /\ []SomeReady => []RunsOwnContext
<1>1. ContextInv => RunsOwnContext
  BY PairIsNotEmpty DEF ContextInv, Deferred, RunsOwnContext
<1> QED BY <1>1, ContextsInvariant, PTL

-----------------------------------------------------------------------------
(***************************************************************************)
(* Lists: what RemoveFirst and InsertAt do to a list without duplicates.   *)
(***************************************************************************)
\* Where v is, RemoveFirst closes the gap.
LEMMA RemoveFirstAt ==
  ASSUME NEW T, NEW q \in Seq(T), NEW v, v \in Range(q)
  PROVE  \E m \in 1 .. Len(q) :
           /\ q[m] = v
           /\ RemoveFirst(q, v) \in Seq(T)
           /\ Len(RemoveFirst(q, v)) = Len(q) - 1
           /\ \A i \in 1 .. Len(q) - 1 : RemoveFirst(q, v)[i] = IF i < m THEN q[i] ELSE q[i + 1]
<1> DEFINE I == {i \in 1 .. Len(q) : q[i] = v}
           m == Min(I)
           a == SubSeq(q, 1, m - 1)
           b == SubSeq(q, m + 1, Len(q))
<1>1. DOMAIN q = 1 .. Len(q) /\ Len(q) \in Nat /\ \A i \in 1 .. Len(q) : q[i] \in T OBVIOUS
<1>2. I \in SUBSET Nat /\ I # {} BY <1>1 DEF Range
<1>3. m \in I BY <1>2, Smallest DEF Min
<1>4. RemoveFirst(q, v) = a \o b
  BY <1>2 DEF RemoveFirst, RemoveAt, SelectInSeq
<1> HIDE DEF m
<1>5. a \in Seq(T) /\ Len(a) = m - 1 /\ \A i \in 1 .. m - 1 : a[i] = q[i]
  <2>1. 1 \in Int /\ m - 1 \in Int /\ \A i \in 1 .. m - 1 : q[i] \in T BY <1>1, <1>3
  <2>2. /\ a \in Seq(T) /\ Len(a) = IF 1 <= m - 1 THEN (m - 1) - 1 + 1 ELSE 0
        /\ \A i \in 1 .. (m - 1) - 1 + 1 : a[i] = q[1 + i - 1]
    BY ONLY <2>1, SubSeqProperties
  <2> QED BY <1>3, <2>2
<1>6. b \in Seq(T) /\ Len(b) = Len(q) - m /\ \A i \in 1 .. Len(q) - m : b[i] = q[m + i]
  <2>1. m + 1 \in Int /\ Len(q) \in Int /\ \A i \in m + 1 .. Len(q) : q[i] \in T BY <1>1, <1>3
  <2>2. /\ b \in Seq(T) /\ Len(b) = IF m + 1 <= Len(q) THEN Len(q) - (m + 1) + 1 ELSE 0
        /\ \A i \in 1 .. Len(q) - (m + 1) + 1 : b[i] = q[(m + 1) + i - 1]
    BY ONLY <2>1, SubSeqProperties
  <2> QED BY <1>3, <2>2
<1> HIDE DEF a, b
<1>7. /\ a \o b \in Seq(T) /\ Len(a \o b) = Len(a) + Len(b)
      /\ \A i \in 1 .. Len(a) + Len(b) : (a \o b)[i] = IF i <= Len(a) THEN a[i] ELSE b[i - Len(a)]
  BY ONLY <1>5, <1>6, ConcatProperties
<1>8. \A i \in 1 .. Len(q) - 1 : (a \o b)[i] = IF i < m THEN q[i] ELSE q[i + 1]
  <2> SUFFICES ASSUME NEW i \in 1 .. Len(q) - 1
               PROVE  (a \o b)[i] = IF i < m THEN q[i] ELSE q[i + 1]
    OBVIOUS
  <2>1. (a \o b)[i] = IF i <= m - 1 THEN a[i] ELSE b[i - (m - 1)] BY <1>1, <1>3, <1>5, <1>6, <1>7
  <2>2. CASE i < m BY <1>1, <1>3, <1>5, <2>1, <2>2
  <2>3. CASE i >= m
    <3>1. b[i - (m - 1)] = q[m + (i - (m - 1))] BY <1>1, <1>3, <1>6, <2>3
    <3>2. m + (i - (m - 1)) = i + 1 BY <1>3
    <3> QED BY <1>3, <2>1, <2>3, <3>1, <3>2
  <2>4. i < m \/ i >= m BY <1>1, <1>3
  <2> QED BY <2>2, <2>3, <2>4
<1>9. m \in 1 .. Len(q) /\ q[m] = v BY <1>3
<1> QED BY <1>1, <1>4, <1>5, <1>6, <1>7, <1>8, <1>9, SMTT(30)

\* The other elements stay, in their order.
LEMMA RemoveFirstProperties ==
  ASSUME NEW T, NEW q \in Seq(T), NoDuplicates(q), NEW v
  PROVE  LET r == RemoveFirst(q, v) IN
         /\ r \in Seq(T) /\ Range(r) = Range(q) \ {v} /\ NoDuplicates(r)
         /\ \A i, j \in DOMAIN r : i < j => \E a, b \in DOMAIN q : a < b /\ q[a] = r[i] /\ q[b] = r[j]
<1> DEFINE r == RemoveFirst(q, v)
<1>0. DOMAIN q = 1 .. Len(q) /\ Len(q) \in Nat OBVIOUS
<1>1. CASE v \notin Range(q)
  <2>1. r = q BY <1>0, <1>1 DEF RemoveFirst, Range
  <2> QED BY <1>1, <2>1
<1>2. CASE v \in Range(q)
  <2>1. PICK m \in 1 .. Len(q) : /\ q[m] = v
                                 /\ r \in Seq(T) /\ Len(r) = Len(q) - 1
                                 /\ \A i \in 1 .. Len(q) - 1 : r[i] = IF i < m THEN q[i] ELSE q[i + 1]
    BY <1>2, RemoveFirstAt
  <2> HIDE DEF r
  <2>2. DOMAIN r = 1 .. Len(q) - 1 BY <2>1
  <2>3. ASSUME NEW i \in DOMAIN r, NEW j \in DOMAIN r, i < j
        PROVE  \E a, b \in DOMAIN q : a < b /\ q[a] = r[i] /\ q[b] = r[j]
    <3> DEFINE a == IF i < m THEN i ELSE i + 1
               b == IF j < m THEN j ELSE j + 1
    <3>1. a \in DOMAIN q /\ b \in DOMAIN q /\ a < b BY <1>0, <2>2, <2>3
    <3>2. q[a] = r[i] /\ q[b] = r[j] BY <2>1, <2>2
    <3> QED BY <3>1, <3>2
  <2>4. \A i \in DOMAIN r : r[i] \in Range(q) /\ r[i] # v
    <3> SUFFICES ASSUME NEW i \in DOMAIN r PROVE r[i] \in Range(q) /\ r[i] # v OBVIOUS
    <3> DEFINE a == IF i < m THEN i ELSE i + 1
    <3>1. a \in DOMAIN q /\ a # m /\ m \in DOMAIN q BY <1>0, <2>2
    <3>2. r[i] = q[a] BY <2>1, <2>2
    <3> HIDE DEF a
    <3> QED BY <2>1, <3>1, <3>2 DEF NoDuplicates, IsInjective, Range
  <2>5. \A a \in DOMAIN q : q[a] # v => q[a] \in Range(r)
    <3> SUFFICES ASSUME NEW a \in DOMAIN q, q[a] # v PROVE q[a] \in Range(r) OBVIOUS
    <3> DEFINE i == IF a < m THEN a ELSE a - 1
    <3>1. i \in DOMAIN r /\ r[i] = q[a] BY <1>0, <2>1, <2>2
    <3> QED BY <3>1 DEF Range
  <2>6. NoDuplicates(r)
    <3> SUFFICES ASSUME NEW i \in DOMAIN r, NEW j \in DOMAIN r, i < j PROVE r[i] # r[j]
      BY <2>2 DEF NoDuplicates, IsInjective
    <3> QED BY <1>0, <2>3 DEF NoDuplicates, IsInjective
  <2>7. Range(r) = Range(q) \ {v} BY <2>4, <2>5 DEF Range
  <2> QED BY <2>1, <2>3, <2>6, <2>7 DEF r
<1> QED BY <1>1, <1>2

LEMMA NotInside == ASSUME NEW T, NEW q \in Seq(T), NEW v, v \notin Range(q) PROVE RemoveFirst(q, v) = q
<1>1. DOMAIN q = 1 .. Len(q) OBVIOUS
<1> QED BY <1>1 DEF RemoveFirst, Range

LEMMA RemoveFirstType == ASSUME NEW T, NEW q \in Seq(T), NEW v PROVE RemoveFirst(q, v) \in Seq(T)
BY NotInside, RemoveFirstAt

\* The new element is at position p, those from there on move by one.
LEMMA InsertAtProperties ==
  ASSUME NEW T, NEW q \in Seq(T), NEW x \in T, NEW p \in 1 .. Len(q) + 1
  PROVE  LET r == InsertAt(q, p, x) IN
         /\ r \in Seq(T) /\ DOMAIN r = 1 .. Len(q) + 1
         /\ \A i \in DOMAIN r : r[i] = IF i < p THEN q[i] ELSE IF i = p THEN x ELSE q[i - 1]
<1> DEFINE a == SubSeq(q, 1, p - 1)
           b == SubSeq(q, p, Len(q))
           c == <<x>>
           r == InsertAt(q, p, x)
<1>1. Len(q) \in Nat /\ \A i \in 1 .. Len(q) : q[i] \in T OBVIOUS
<1>2. a \in Seq(T) /\ Len(a) = p - 1 /\ \A i \in 1 .. p - 1 : a[i] = q[i]
  <2>1. 1 \in Int /\ p - 1 \in Int /\ \A i \in 1 .. p - 1 : q[i] \in T BY <1>1
  <2>2. /\ a \in Seq(T) /\ Len(a) = IF 1 <= p - 1 THEN (p - 1) - 1 + 1 ELSE 0
        /\ \A i \in 1 .. (p - 1) - 1 + 1 : a[i] = q[1 + i - 1]
    BY ONLY <2>1, SubSeqProperties
  <2> QED BY <1>1, <2>2
<1>3. b \in Seq(T) /\ Len(b) = Len(q) - p + 1 /\ \A i \in 1 .. Len(q) - p + 1 : b[i] = q[p + i - 1]
  <2>1. p \in Int /\ Len(q) \in Int /\ \A i \in p .. Len(q) : q[i] \in T BY <1>1
  <2>2. /\ b \in Seq(T) /\ Len(b) = IF p <= Len(q) THEN Len(q) - p + 1 ELSE 0
        /\ \A i \in 1 .. Len(q) - p + 1 : b[i] = q[p + i - 1]
    BY ONLY <2>1, SubSeqProperties
  <2> QED BY <1>1, <2>2
<1>4. r = (a \o c) \o b BY DEF InsertAt
<1>5. c \in Seq(T) /\ Len(c) = 1 /\ c[1] = x OBVIOUS
<1> HIDE DEF a, b, c, r
<1>6. /\ a \o c \in Seq(T) /\ Len(a \o c) = Len(a) + Len(c)
      /\ \A i \in 1 .. Len(a) + Len(c) : (a \o c)[i] = IF i <= Len(a) THEN a[i] ELSE c[i - Len(a)]
  BY ONLY <1>2, <1>5, ConcatProperties
<1> DEFINE d == a \o c
<1>7. d \in Seq(T) /\ Len(d) = p /\ \A i \in 1 .. p : d[i] = IF i < p THEN q[i] ELSE x
  BY <1>1, <1>2, <1>5, <1>6
<1> HIDE DEF d
<1>8. /\ d \o b \in Seq(T) /\ Len(d \o b) = Len(d) + Len(b)
      /\ \A i \in 1 .. Len(d) + Len(b) : (d \o b)[i] = IF i <= Len(d) THEN d[i] ELSE b[i - Len(d)]
  BY ONLY <1>3, <1>7, ConcatProperties
<1>9. r = d \o b BY <1>4 DEF d
<1>10. r \in Seq(T) /\ Len(r) = Len(q) + 1 BY <1>1, <1>3, <1>7, <1>8, <1>9
<1>11. \A i \in 1 .. Len(q) + 1 : r[i] = IF i < p THEN q[i] ELSE IF i = p THEN x ELSE q[i - 1]
  BY <1>1, <1>3, <1>7, <1>8, <1>9
<1> QED BY <1>10, <1>11 DEF r

-----------------------------------------------------------------------------
(***************************************************************************)
(* Ticks: the counter wraps, and timeouts lie less than half of it ahead.  *)
(***************************************************************************)
LEMMA Ticks == TickMod \in Nat /\ HalfTick \in Nat /\ HalfTick > 1 /\ 2 * HalfTick < TickMod
BY SchedAssumption DEF HalfTick

\* The ticks from b to a, where both are ticks of the counter or a is one more.
LEMMA SinceIs ==
  ASSUME NEW a \in 0 .. TickMod, NEW b \in 0 .. TickMod - 1
  PROVE  /\ a >= b /\ a - b < TickMod => Since(a, b) = a - b
         /\ a < b => Since(a, b) = a - b + TickMod
         /\ a - b = TickMod => Since(a, b) = 0
<1> DEFINE d == a - b
<1>0. TickMod \in Nat /\ TickMod > 2 /\ d \in Int /\ d \in -TickMod .. TickMod BY Ticks
<1>1. \A M \in Nat, e \in Int : M > 2 =>
        /\ e \in 0 .. M - 1 => e % M = e
        /\ e \in -M .. -1 => e % M = e + M
        /\ e = M => e % M = 0
  OBVIOUS
<1>2. /\ d \in 0 .. TickMod - 1 => d % TickMod = d
      /\ d \in -TickMod .. -1 => d % TickMod = d + TickMod
      /\ d = TickMod => d % TickMod = 0
  BY ONLY <1>0, <1>1
<1>3. Since(a, b) = d % TickMod BY DEF Since
<1> HIDE DEF d
<1>4. d = a - b BY DEF d
<1> QED BY <1>0, <1>2, <1>3, <1>4

\* A timer that expires in l ticks is later than one that expires in d ticks if l > d.
LEMMA LaterIsMore ==
  ASSUME NEW now \in 0 .. TickMod - 1, NEW a \in 0 .. TickMod - 1, NEW b \in 0 .. TickMod - 1,
         Since(a + 1, now) \in 0 .. HalfTick, Since(b + 1, now) \in 1 .. HalfTick
  PROVE  Later(a, b) <=> Since(a + 1, now) > Since(b + 1, now)
<1>1. Since(a + 1, now) \in {a + 1 - now, a + 1 - now + TickMod, a + 1 - now - TickMod}
  BY Ticks, SinceIs
<1>2. Since(b + 1, now) \in {b + 1 - now, b + 1 - now + TickMod}
  BY Ticks, SinceIs
<1>3. Since(a, b) = IF a >= b THEN a - b ELSE a - b + TickMod BY Ticks, SinceIs
<1> QED BY <1>1, <1>2, <1>3, Ticks DEF Later

LEMMA DueIsSoon ==
  ASSUME NEW now \in 0 .. TickMod - 1, NEW a \in 0 .. TickMod - 1, Since(a + 1, now) \in 0 .. HalfTick
  PROVE  Since(now, a) < HalfTick <=> Since(a + 1, now) <= 1
<1>1. Since(a + 1, now) = IF a + 1 - now = TickMod THEN 0
                          ELSE IF a + 1 >= now THEN a + 1 - now ELSE a + 1 - now + TickMod
  BY Ticks, SinceIs
<1>2. Since(now, a) = IF now >= a THEN now - a ELSE now - a + TickMod BY Ticks, SinceIs
<1> QED BY <1>1, <1>2, Ticks

LEMMA AfterTick ==
  ASSUME NEW now \in 0 .. TickMod - 1, NEW a \in 0 .. TickMod - 1, Since(a + 1, now) \in 1 .. HalfTick
  PROVE  /\ (now + 1) % TickMod \in 0 .. TickMod - 1
         /\ Since(a + 1, (now + 1) % TickMod) = Since(a + 1, now) - 1
<1> DEFINE next == IF now = TickMod - 1 THEN 0 ELSE now + 1
<1>0. \A M \in Nat : \A e \in 0 .. M - 1 : M > 2 => (e + 1) % M = IF e = M - 1 THEN 0 ELSE e + 1 OBVIOUS
<1>1. (now + 1) % TickMod = next BY <1>0, Ticks
<1>2. next \in 0 .. TickMod - 1 BY Ticks
<1>3. Since(a + 1, now) = IF a + 1 - now = TickMod THEN 0
                          ELSE IF a + 1 >= now THEN a + 1 - now ELSE a + 1 - now + TickMod
  BY Ticks, SinceIs
<1> HIDE DEF next
<1>4. Since(a + 1, next) = IF a + 1 - next = TickMod THEN 0
                          ELSE IF a + 1 >= next THEN a + 1 - next ELSE a + 1 - next + TickMod
  BY <1>2, Ticks, SinceIs
<1>5. Since(a + 1, next) = Since(a + 1, now) - 1 BY <1>3, <1>4, Ticks DEF next
<1> QED BY <1>1, <1>2, <1>5

LEMMA StartedLeft ==
  ASSUME NEW now \in 0 .. TickMod - 1, NEW ticks \in 0 .. HalfTick - 1
  PROVE  /\ (now + ticks) % TickMod \in 0 .. TickMod - 1
         /\ Since(((now + ticks) % TickMod) + 1, now) = ticks + 1
<1> DEFINE at == IF now + ticks >= TickMod THEN now + ticks - TickMod ELSE now + ticks
           e  == now + ticks
<1>0. \A M \in Nat, d \in Int : M > 2 =>
        /\ d \in 0 .. M - 1 => d % M = d
        /\ d \in M .. 2 * M - 1 => d % M = d - M
  OBVIOUS
<1>1. e % TickMod = at
  <2>1. e \in Int /\ e \in 0 .. 2 * TickMod - 1 BY Ticks
  <2>2. /\ e \in 0 .. TickMod - 1 => e % TickMod = e
        /\ e \in TickMod .. 2 * TickMod - 1 => e % TickMod = e - TickMod
    BY ONLY <1>0, <2>1, Ticks
  <2>3. e = now + ticks OBVIOUS
  <2> HIDE DEF e
  <2> QED BY <2>1, <2>2, <2>3, Ticks
<1> HIDE DEF at
<1>2. at \in 0 .. TickMod - 1 BY Ticks DEF at
<1>3. Since(at + 1, now) = IF at + 1 - now = TickMod THEN 0
                          ELSE IF at + 1 >= now THEN at + 1 - now ELSE at + 1 - now + TickMod
  BY <1>2, Ticks, SinceIs
<1> QED BY <1>1, <1>2, <1>3, Ticks DEF at, e

-----------------------------------------------------------------------------
(***************************************************************************)
(* TimersOK(s, z, low): the list holds the active timers except those of z,*)
(* in the order in which they expire, and none expires in less than low    *)
(* ticks.  z is the periodic timer that is being served, low is 1 outside  *)
(* interrupts and 0 inside.                                                *)
(***************************************************************************)
TimerFields == {"tick", "timers", "activated", "timeout", "init_tick"}

SameTimers(s, u) == DOMAIN u = Fields /\ \A f \in TimerFields : u[f] = s[f]

Remaining(s, x) == Since(s.timeout[x] + 1, s.tick)

TimersOK(s, z, low) ==
  /\ DOMAIN s = Fields
  /\ s.tick \in 0 .. TickMod - 1
  /\ s.timeout \in [Timer -> 0 .. TickMod - 1]
  /\ s.init_tick \in [UserTimer -> 1 .. HalfTick - 1]
  /\ s.timers \in Seq(Timer) /\ s.activated \subseteq Timer
  /\ Range(s.timers) = s.activated \ z
  /\ NoDuplicates(s.timers)
  /\ \A x \in Range(s.timers) : Remaining(s, x) \in low .. HalfTick
  /\ \A i, j \in DOMAIN s.timers : i < j => Remaining(s, s.timers[i]) <= Remaining(s, s.timers[j])

LEMMA SameTimersOK ==
  ASSUME NEW s, NEW u, NEW z, NEW low, TimersOK(s, z, low), SameTimers(s, u)
  PROVE  TimersOK(u, z, low) /\ DueTimers(u) = DueTimers(s)
<1>1. /\ DOMAIN u = Fields /\ u.tick = s.tick /\ u.timers = s.timers /\ u.activated = s.activated
      /\ u.timeout = s.timeout /\ u.init_tick = s.init_tick
  BY DEF SameTimers, TimerFields
<1>2. \A x : Remaining(u, x) = Remaining(s, x) BY <1>1 DEF Remaining
<1>3. \A x : Due(u, x) = Due(s, x) BY <1>1 DEF Due
<1> QED BY <1>1, <1>2, <1>3 DEF TimersOK, DueTimers

LEMMA SameTimersIsTransitive ==
  ASSUME NEW s, NEW u, NEW v, SameTimers(s, u), SameTimers(u, v) PROVE SameTimers(s, v)
BY DEF SameTimers

\* A timer is taken from the list.
LEMMA DetachedTimers ==
  ASSUME NEW s, NEW z, NEW low, TimersOK(s, z, low), NEW x
  PROVE  /\ TimersOK(rt_timer_detach(s, x), z, low)
         /\ DueTimers(rt_timer_detach(s, x)) \subseteq DueTimers(s) \ {x}
<1> DEFINE u == rt_timer_detach(s, x)
           q == s.timers
           r == RemoveFirst(s.timers, x)
<1>1. /\ DOMAIN u = Fields /\ u.tick = s.tick /\ u.init_tick = s.init_tick
      /\ u.timers = r /\ u.activated = s.activated \ {x} /\ u.timeout = [s.timeout EXCEPT ![x] = 0]
  BY DEF rt_timer_detach, TimersOK, Fields
<1>2. /\ r \in Seq(Timer) /\ Range(r) = Range(q) \ {x} /\ NoDuplicates(r)
      /\ \A i, j \in DOMAIN r : i < j => \E a, b \in DOMAIN q : a < b /\ q[a] = r[i] /\ q[b] = r[j]
  BY RemoveFirstProperties DEF TimersOK
<1> HIDE DEF u, r
<1>3. \A y \in Range(r) : u.timeout[y] = s.timeout[y] /\ y \in Timer
  <2>1. Range(r) \subseteq Timer /\ x \notin Range(r) BY <1>2 DEF TimersOK
  <2> QED BY <1>1, <2>1 DEF TimersOK
<1>4. \A y \in Range(r) : Remaining(u, y) = Remaining(s, y) /\ Due(u, y) = Due(s, y)
  BY <1>1, <1>3 DEF Remaining, Due
<1>5. \A i \in DOMAIN r : r[i] \in Range(r) BY DEF Range
<1>6. \A i, j \in DOMAIN r : i < j => Remaining(u, r[i]) <= Remaining(u, r[j])
  BY <1>2, <1>4, <1>5 DEF TimersOK
<1>7. Range(r) = u.activated \ z BY <1>1, <1>2 DEF TimersOK
<1>8. u.timeout \in [Timer -> 0 .. TickMod - 1]
  <2>1. 0 \in 0 .. TickMod - 1 BY Ticks
  <2> QED BY <1>1, <2>1 DEF TimersOK
<1>9. \A y \in Range(r) : Remaining(u, y) \in low .. HalfTick BY <1>2, <1>4 DEF TimersOK
<1>10. TimersOK(u, z, low)
  BY <1>1, <1>2, <1>6, <1>7, <1>8, <1>9 DEF TimersOK
<1>11. DueTimers(u) \subseteq DueTimers(s) \ {x} BY <1>1, <1>2, <1>4 DEF DueTimers
<1> QED BY <1>10, <1>11 DEF u

\* A timer is put into the list, among those of its tick behind the others.
LEMMA StartedTimers ==
  ASSUME NEW s, NEW x \in Timer, NEW low \in {0, 1}, NEW z \in SUBSET {x}, TimersOK(s, z, low),
         NEW ticks \in 0 .. HalfTick - 1
  PROVE  LET u == rt_timer_start(s, x, ticks) IN
         /\ TimersOK(u, {}, low)
         /\ ticks > 0 => DueTimers(u) \subseteq DueTimers(s) \ {x}
<1> DEFINE u == rt_timer_start(s, x, ticks)
           q == s.timers
           o == RemoveFirst(s.timers, x)
           at == (s.tick + ticks) % TickMod
           after == {i \in DOMAIN o : Later(s.timeout[o[i]], at)}
           here == IF after = {} THEN Len(o) + 1 ELSE CHOOSE i \in after : \A j \in after : i <= j
           r == InsertAt(o, here, x)
<1>1. /\ DOMAIN u = Fields /\ u.tick = s.tick /\ u.init_tick = s.init_tick
      /\ u.timers = r /\ u.activated = s.activated \cup {x} /\ u.timeout = [s.timeout EXCEPT ![x] = at]
  BY DEF rt_timer_start, TimersOK, Fields
<1>2. /\ o \in Seq(Timer) /\ Range(o) = Range(q) \ {x} /\ NoDuplicates(o)
      /\ \A i, j \in DOMAIN o : i < j => \E a, b \in DOMAIN q : a < b /\ q[a] = o[i] /\ q[b] = o[j]
  BY RemoveFirstProperties DEF TimersOK
<1>3. at \in 0 .. TickMod - 1 /\ Since(at + 1, s.tick) = ticks + 1
  BY StartedLeft DEF TimersOK
<1> HIDE DEF u, o, at, r
<1>4. /\ DOMAIN o = 1 .. Len(o) /\ Len(o) \in Nat
      /\ \A i \in DOMAIN o : o[i] \in Range(o) /\ o[i] # x /\ o[i] \in Timer
  BY <1>2 DEF Range
<1>5. \A y \in Range(o) : /\ Remaining(s, y) \in low .. HalfTick
                          /\ s.timeout[y] \in 0 .. TickMod - 1
                          /\ Later(s.timeout[y], at) <=> Remaining(s, y) > ticks + 1
  <2> SUFFICES ASSUME NEW y \in Range(o)
               PROVE  /\ Remaining(s, y) \in low .. HalfTick
                      /\ s.timeout[y] \in 0 .. TickMod - 1
                      /\ Later(s.timeout[y], at) <=> Remaining(s, y) > ticks + 1
    OBVIOUS
  <2>1. y \in Range(q) /\ y \in Timer BY <1>2 DEF TimersOK
  <2>2. Remaining(s, y) \in low .. HalfTick /\ s.timeout[y] \in 0 .. TickMod - 1
    BY <2>1 DEF TimersOK
  <2>3. Since(s.timeout[y] + 1, s.tick) \in 0 .. HalfTick BY <2>2 DEF Remaining
  <2>4. Since(at + 1, s.tick) \in 1 .. HalfTick /\ s.tick \in 0 .. TickMod - 1 BY <1>3, Ticks DEF TimersOK
  <2>5. Later(s.timeout[y], at) <=> Since(s.timeout[y] + 1, s.tick) > Since(at + 1, s.tick)
    BY <1>3, <2>2, <2>3, <2>4, LaterIsMore
  <2> QED BY <1>3, <2>2, <2>5 DEF Remaining
<1>6. \A i, j \in DOMAIN o : i < j => Remaining(s, o[i]) <= Remaining(s, o[j])
  BY <1>2 DEF TimersOK
<1>7. /\ here \in 1 .. Len(o) + 1
      /\ \A i \in DOMAIN o : i < here => Remaining(s, o[i]) <= ticks + 1
      /\ \A i \in DOMAIN o : i >= here => Remaining(s, o[i]) > ticks + 1
  <2>1. \A i \in DOMAIN o : i \in after <=> Remaining(s, o[i]) > ticks + 1
    BY <1>4, <1>5
  <2>2. \A i \in DOMAIN o : Remaining(s, o[i]) \in Int BY <1>4, <1>5
  <2>3. CASE after = {} BY <1>4, <2>1, <2>2, <2>3
  <2>4. CASE after # {}
    <3>1. after \in SUBSET Nat BY <1>4
    <3>2. here \in after /\ \A j \in after : here <= j
      <4> DEFINE least(i) == \A j \in after : i <= j
      <4>1. \E i \in after : least(i) BY <2>4, <3>1, Smallest
      <4>2. here = CHOOSE i \in after : least(i) BY <2>4
      <4> HIDE DEF here, after
      <4>3. here \in after /\ least(here) BY <4>1, <4>2
      <4> QED BY <4>3
    <3> HIDE DEF here
    <3>3. here \in DOMAIN o /\ Remaining(s, o[here]) > ticks + 1 BY <2>1, <3>2
    <3>4. ASSUME NEW i \in DOMAIN o, i < here PROVE Remaining(s, o[i]) <= ticks + 1
      <4>1. i \notin after BY <1>4, <3>2, <3>3, <3>4
      <4> QED BY <2>1, <2>2, <4>1
    <3>5. ASSUME NEW i \in DOMAIN o, i >= here PROVE Remaining(s, o[i]) > ticks + 1
      <4>1. CASE i = here BY <3>3, <4>1
      <4>2. CASE i > here BY <1>6, <2>2, <3>3, <4>2
      <4> QED BY <1>4, <3>3, <3>5, <4>1, <4>2
    <3> QED BY <1>4, <3>3, <3>4, <3>5
  <2> QED BY <2>3, <2>4
<1> HIDE DEF here
<1>8. /\ r \in Seq(Timer) /\ DOMAIN r = 1 .. Len(o) + 1
      /\ \A i \in DOMAIN r : r[i] = IF i < here THEN o[i] ELSE IF i = here THEN x ELSE o[i - 1]
  BY <1>2, <1>7, InsertAtProperties DEF r
<1>9. \A i \in DOMAIN r : /\ i < here => i \in DOMAIN o /\ r[i] = o[i]
                          /\ i = here => r[i] = x
                          /\ i > here => i - 1 \in DOMAIN o /\ i - 1 >= here /\ r[i] = o[i - 1]
  BY <1>4, <1>7, <1>8
<1>10. Range(r) = Range(o) \cup {x}
  <2>1. \A i \in DOMAIN r : r[i] \in Range(o) \cup {x} BY <1>4, <1>7, <1>8, <1>9
  <2>2. ASSUME NEW i \in DOMAIN o PROVE o[i] \in Range(r)
    <3> DEFINE a == IF i < here THEN i ELSE i + 1
    <3>1. a \in DOMAIN r /\ r[a] = o[i] BY <1>4, <1>7, <1>8
    <3> QED BY <3>1 DEF Range
  <2>3. x \in Range(r)
    <3>1. here \in DOMAIN r /\ r[here] = x BY <1>7, <1>8, <1>9
    <3> QED BY <3>1 DEF Range
  <2> QED BY <2>1, <2>2, <2>3 DEF Range
<1>11. \A y \in Range(o) : /\ u.timeout[y] = s.timeout[y]
                           /\ Remaining(u, y) = Remaining(s, y) /\ Due(u, y) = Due(s, y)
  <2>1. \A y \in Range(o) : y \in Timer /\ y # x BY <1>2 DEF TimersOK
  <2> QED BY <1>1, <2>1 DEF TimersOK, Remaining, Due
<1>12. u.timeout[x] = at /\ Remaining(u, x) = ticks + 1 BY <1>1, <1>3 DEF TimersOK, Remaining
<1>13. ASSUME NEW i \in DOMAIN r, NEW j \in DOMAIN r, i < j
       PROVE  r[i] # r[j] /\ Remaining(u, r[i]) <= Remaining(u, r[j])
  <2>0. i \in Nat /\ j \in Nat /\ here \in Nat BY <1>4, <1>7, <1>8
  <2>1. CASE j < here
    BY <1>2, <1>4, <1>6, <1>9, <1>11, <1>13, <2>0, <2>1 DEF NoDuplicates, IsInjective
  <2>2. CASE j = here
    <3>1. i \in DOMAIN o /\ r[i] = o[i] /\ r[j] = x /\ i < here BY <1>9, <1>13, <2>2
    <3> QED BY <1>4, <1>7, <1>11, <1>12, <3>1
  <2>3. CASE i = here
    <3>1. j - 1 \in DOMAIN o /\ j - 1 >= here /\ r[j] = o[j - 1] /\ r[i] = x BY <1>9, <1>13, <2>3
    <3>2. Remaining(s, o[j - 1]) > ticks + 1 /\ Remaining(s, o[j - 1]) \in Int /\ o[j - 1] # x
      BY <1>4, <1>5, <1>7, <3>1
    <3> QED BY <1>4, <1>11, <1>12, <3>1, <3>2
  <2>4. CASE i < here /\ j > here
    <3>1. i \in DOMAIN o /\ r[i] = o[i] /\ j - 1 \in DOMAIN o /\ r[j] = o[j - 1] /\ i < j - 1
      BY <1>9, <2>0, <2>4
    <3> QED BY <1>2, <1>4, <1>6, <1>11, <3>1 DEF NoDuplicates, IsInjective
  <2>5. CASE i > here
    <3>1. i - 1 \in DOMAIN o /\ r[i] = o[i - 1] /\ j - 1 \in DOMAIN o /\ r[j] = o[j - 1] /\ i - 1 < j - 1
      BY <1>9, <1>13, <2>0, <2>5
    <3> QED BY <1>2, <1>4, <1>6, <1>11, <3>1 DEF NoDuplicates, IsInjective
  <2> QED BY <1>13, <2>0, <2>1, <2>2, <2>3, <2>4, <2>5
<1>14. NoDuplicates(r)
  <2> SUFFICES ASSUME NEW i \in DOMAIN r, NEW j \in DOMAIN r, i # j PROVE r[i] # r[j]
    BY DEF NoDuplicates, IsInjective
  <2>1. i < j \/ j < i BY <1>4, <1>8
  <2> QED BY <1>13, <2>1
<1>15. Range(r) = u.activated \ {} BY <1>1, <1>2, <1>10 DEF TimersOK
<1>16. u.timeout \in [Timer -> 0 .. TickMod - 1] BY <1>1, <1>3 DEF TimersOK
<1>17. \A y \in Range(r) : Remaining(u, y) \in low .. HalfTick
  BY <1>5, <1>10, <1>11, <1>12, Ticks
<1>18. u.activated \subseteq Timer BY <1>1 DEF TimersOK
<1>19. TimersOK(u, {}, low)
  BY <1>1, <1>8, <1>13, <1>14, <1>15, <1>16, <1>17, <1>18 DEF TimersOK
<1>20. ASSUME ticks > 0 PROVE DueTimers(u) \subseteq DueTimers(s) \ {x}
  <2>1. ~Due(u, x)
    <3>1. Since(u.timeout[x] + 1, u.tick) = ticks + 1 BY <1>12 DEF Remaining
    <3>2. Since(u.tick, u.timeout[x]) < HalfTick <=> Since(u.timeout[x] + 1, u.tick) <= 1
      <4>1. u.tick \in 0 .. TickMod - 1 /\ u.timeout[x] \in 0 .. TickMod - 1 BY <1>1, <1>3, <1>12 DEF TimersOK
      <4>2. Since(u.timeout[x] + 1, u.tick) \in 0 .. HalfTick BY <3>1, Ticks
      <4> QED BY ONLY <4>1, <4>2, DueIsSoon
    <3> QED BY <1>20, <3>1, <3>2 DEF Due
  <2> QED BY <1>1, <1>2, <1>10, <1>11, <2>1 DEF DueTimers
<1> QED BY <1>19, <1>20 DEF u

-----------------------------------------------------------------------------
(***************************************************************************)
(* The other functions of the kernel take at most a timer from the list.   *)
(***************************************************************************)
\* From s to u, timers may have been taken from the list, and that is all.
Preserves(s, u) ==
  \A z, low : TimersOK(s, z, low) => TimersOK(u, z, low) /\ DueTimers(u) \subseteq DueTimers(s)

LEMMA PreservesIsTransitive ==
  ASSUME NEW s, NEW u, NEW v, Preserves(s, u), Preserves(u, v) PROVE Preserves(s, v)
BY DEF Preserves

LEMMA SamePreserves == ASSUME NEW s, NEW u, SameTimers(s, u) PROVE Preserves(s, u)
BY SameTimersOK DEF Preserves

LEMMA StopPreserves ==
  ASSUME NEW s, NEW x PROVE Preserves(s, rt_timer_detach(s, x)) /\ Preserves(s, rt_timer_stop(s, x))
BY DetachedTimers DEF Preserves, rt_timer_stop

LEMMA ListsPreserve ==
  ASSUME NEW s, NEW t, DOMAIN s = Fields
  PROVE  /\ SameTimers(s, Unlink(s, t)) /\ SameTimers(s, rt_schedule_remove_thread(s, t))
         /\ SameTimers(s, rt_schedule_insert_thread(s, t)) /\ SameTimers(s, Rotate(s, t))
<1>1. SameTimers(s, Unlink(s, t)) BY DEF Unlink, SameTimers, Fields, TimerFields
<1>2. SameTimers(s, rt_schedule_remove_thread(s, t))
  <2> DEFINE u == Unlink(s, t)
  <2> HIDE DEF u
  <2>1. SameTimers(s, u) BY <1>1 DEF u
  <2>2. SameTimers(u, [u EXCEPT !.group = @ \ {u.priority[t]}])
    BY <2>1 DEF SameTimers, Fields, TimerFields
  <2> QED BY <2>1, <2>2, SameTimersIsTransitive DEF rt_schedule_remove_thread, u
<1>3. SameTimers(s, rt_schedule_insert_thread(s, t))
  BY DEF rt_schedule_insert_thread, SameTimers, Fields, TimerFields
<1>4. SameTimers(s, Rotate(s, t)) BY DEF Rotate, SameTimers, Fields, TimerFields
<1> QED BY <1>1, <1>2, <1>3, <1>4

LEMMA SwitchesPreserve ==
  ASSUME NEW s, DOMAIN s = Fields
  PROVE  /\ SameTimers(s, rt_schedule(s)) /\ SameTimers(s, ScheduleInInterrupt(s))
         /\ SameTimers(s, LeaveInterrupt(s))
<1>1. ASSUME NEW u, DOMAIN u = Fields, NEW a, NEW b PROVE SameTimers(u, rt_hw_context_switch(u, a, b))
  BY <1>1 DEF rt_hw_context_switch, SameTimers, Fields, TimerFields
<1>2. ASSUME NEW u, DOMAIN u = Fields, NEW a, NEW b
      PROVE  SameTimers(u, rt_hw_context_switch_interrupt(u, a, b))
  BY <1>2 DEF rt_hw_context_switch_interrupt, SameTimers, Fields, TimerFields
<1> DEFINE c == [s EXCEPT !.current = Highest(s)]
           e == [s EXCEPT !.switch = <<>>]
<1>3. SameTimers(s, s) /\ SameTimers(s, c) /\ SameTimers(s, e) BY DEF SameTimers, Fields, TimerFields
<1>4. SameTimers(s, rt_schedule(s)) \/ rt_schedule(s) = rt_hw_context_switch(c, s.current, Highest(s))
  BY <1>3 DEF rt_schedule
<1>5. \/ SameTimers(s, ScheduleInInterrupt(s))
      \/ ScheduleInInterrupt(s) = rt_hw_context_switch_interrupt(c, s.current, Highest(s))
  BY <1>3 DEF ScheduleInInterrupt
<1>6. \/ SameTimers(s, LeaveInterrupt(s))
      \/ LeaveInterrupt(s) = rt_hw_context_switch(e, s.switch[1], s.switch[2])
  BY <1>3 DEF LeaveInterrupt
<1> HIDE DEF c, e
<1>7. DOMAIN c = Fields /\ DOMAIN e = Fields BY <1>3 DEF SameTimers
<1> QED BY <1>1, <1>2, <1>3, <1>4, <1>5, <1>6, <1>7, SameTimersIsTransitive

LEMMA SuspendPreserves ==
  ASSUME NEW s, NEW t, DOMAIN s = Fields
  PROVE  Preserves(s, SuspendReady(s, t)) /\ Preserves(s, rt_thread_suspend(s, t))
<1> DEFINE u == rt_schedule_remove_thread(s, t)
           v == [u EXCEPT !.stat[t] = "suspend"]
<1>1. SameTimers(s, u) BY ListsPreserve
<1>2. SuspendReady(s, t) = rt_timer_stop(v, t) BY DEF SuspendReady
<1> HIDE DEF u
<1>3. SameTimers(u, v) BY <1>1 DEF SameTimers, Fields, TimerFields
<1> HIDE DEF v
<1>4. Preserves(s, v) BY <1>1, <1>3, SameTimersIsTransitive, SamePreserves
<1>5. Preserves(s, SuspendReady(s, t)) BY <1>2, <1>4, StopPreserves, PreservesIsTransitive
<1>6. Preserves(s, s) BY DEF Preserves
<1> QED BY <1>5, <1>6 DEF rt_thread_suspend

LEMMA ResumePreserves ==
  ASSUME NEW s, NEW t, DOMAIN s = Fields
  PROVE  Preserves(s, ResumeUnlink(s, t)) /\ Preserves(s, rt_thread_resume(s, t))
<1>1. Preserves(s, Unlink(s, t)) BY ListsPreserve, SamePreserves
<1>2. Preserves(s, ResumeUnlink(s, t))
  BY <1>1, StopPreserves, PreservesIsTransitive DEF ResumeUnlink
<1>3. DOMAIN ResumeUnlink(s, t) = Fields BY Resumed DEF Keeps
<1>4. Preserves(ResumeUnlink(s, t), rt_schedule_insert_thread(ResumeUnlink(s, t), t))
  BY <1>3, ListsPreserve, SamePreserves
<1>5. Preserves(s, s) BY DEF Preserves
<1> QED BY <1>2, <1>4, <1>5, PreservesIsTransitive DEF rt_thread_resume

LEMMA ReleasePreserves == ASSUME NEW s, NEW o, DOMAIN s = Fields PROVE Preserves(s, Release(s, o))
<1>1. Preserves(s, s) BY DEF Preserves
<1>2. SameTimers(s, [s EXCEPT !.value[o] = @ + 1]) BY DEF SameTimers, Fields, TimerFields
<1> QED BY <1>1, <1>2, SamePreserves, ResumePreserves DEF Release, rt_ipc_list_resume

LEMMA ErrorPreserves == ASSUME NEW s, NEW o, DOMAIN s = Fields PROVE Preserves(s, ResumeWithError(s, o))
<1> DEFINE t == Head(s.waiting[o])
           u == [s EXCEPT !.error[t] = "error"]
<1>1. SameTimers(s, u) BY DEF SameTimers, Fields, TimerFields
<1>2. ResumeWithError(s, o) = rt_thread_resume(u, t) BY DEF ResumeWithError
<1> HIDE DEF u, t
<1>3. DOMAIN u = Fields BY <1>1 DEF SameTimers
<1> QED BY <1>1, <1>2, <1>3, SamePreserves, ResumePreserves, PreservesIsTransitive

LEMMA PriorityPreserves ==
  ASSUME NEW s, NEW t, NEW p, DOMAIN s = Fields PROVE SameTimers(s, ChangePriority(s, t, p))
<1> DEFINE u == rt_schedule_remove_thread(s, t)
           v == [u EXCEPT !.priority[t] = p]
           w == [s EXCEPT !.priority[t] = p]
<1>1. SameTimers(s, u) /\ SameTimers(s, w) BY ListsPreserve DEF SameTimers, Fields, TimerFields
<1>2. ChangePriority(s, t, p) = IF s.stat[t] = "ready" THEN rt_schedule_insert_thread(v, t) ELSE w
  BY DEF ChangePriority
<1> HIDE DEF u, w
<1>3. SameTimers(u, v) BY <1>1 DEF SameTimers, Fields, TimerFields
<1> HIDE DEF v
<1>4. SameTimers(s, v) /\ DOMAIN v = Fields BY <1>1, <1>3, SameTimersIsTransitive DEF SameTimers
<1>5. SameTimers(v, rt_schedule_insert_thread(v, t)) BY <1>4, ListsPreserve
<1> QED BY <1>1, <1>2, <1>4, <1>5, SameTimersIsTransitive

\* A thread queues itself and, if its time is limited, starts its timer.
LEMMA BlockPreserves ==
  ASSUME NEW s, NEW o, NEW t \in Thread, NEW time \in Int, time < HalfTick, TimersOK(s, {}, 1)
  PROVE  TimersOK(Block(s, o, t, time), {}, 1)
<1> DEFINE u == [s EXCEPT !.error[t] = "ok"]
           v == rt_thread_suspend(u, t)
           w == [v EXCEPT !.waiting[o] = InsertAt(@, Place(v, o, t), t)]
<1>0. DOMAIN s = Fields BY DEF TimersOK
<1>1. SameTimers(s, u) /\ DOMAIN u = Fields BY <1>0 DEF SameTimers, Fields, TimerFields
<1>2. Block(s, o, t, time) = IF time > 0 THEN rt_timer_start(w, t, time) ELSE w
  BY DEF Block, rt_ipc_list_suspend
<1> HIDE DEF u
<1>3. Preserves(u, v) /\ DOMAIN v = Fields BY <1>1, SuspendPreserves, Suspended DEF Keeps
<1> HIDE DEF v
<1>4. SameTimers(v, w) BY <1>3 DEF SameTimers, Fields, TimerFields
<1> HIDE DEF w
<1>5. Preserves(s, w) BY <1>1, <1>3, <1>4, SamePreserves, PreservesIsTransitive
<1>6. TimersOK(w, {}, 1) BY <1>5 DEF Preserves
<1>7. ASSUME time > 0 PROVE TimersOK(rt_timer_start(w, t, time), {}, 1)
  <2>1. time \in 0 .. HalfTick - 1 /\ t \in Timer /\ {} \in SUBSET {t} /\ 1 \in {0, 1}
    BY <1>7, Ticks DEF Timer
  <2> QED BY <1>6, <2>1, StartedTimers
<1> QED BY <1>2, <1>6, <1>7

-----------------------------------------------------------------------------
(***************************************************************************)
(* The lists of waiting threads are lists of threads.                      *)
(***************************************************************************)
ListsOf(s, T) == DOMAIN s = Fields /\ s.waiting \in [WaitList -> Seq(T)]

LEMMA WithoutTyped ==
  ASSUME NEW T, NEW lists \in [WaitList -> Seq(T)], NEW t PROVE Without(lists, t) \in [WaitList -> Seq(T)]
BY RemoveFirstType DEF Without

LEMMA SameLists ==
  ASSUME NEW T, NEW s, ListsOf(s, T), NEW u, NEW F, Changes(s, u, F), "waiting" \notin F PROVE ListsOf(u, T)
BY DEF ListsOf, Changes, Fields

LEMMA PlaceInRange ==
  ASSUME NEW T, NEW s, NEW o, NEW t, s.waiting[o] \in Seq(T) PROVE Place(s, o, t) \in 1 .. Len(s.waiting[o]) + 1
<1> DEFINE lower == {i \in DOMAIN s.waiting[o] : s.priority[t] < s.priority[s.waiting[o][i]]}
           least(i) == \A j \in lower : i <= j
<1>1. DOMAIN s.waiting[o] = 1 .. Len(s.waiting[o]) /\ Len(s.waiting[o]) \in Nat OBVIOUS
<1>2. \/ Place(s, o, t) = Len(s.waiting[o]) + 1
      \/ lower # {} /\ Place(s, o, t) = CHOOSE i \in lower : least(i)
  BY DEF Place
<1>3. lower \in SUBSET Nat /\ lower \subseteq 1 .. Len(s.waiting[o]) BY <1>1
<1>4. lower # {} => \E i \in lower : least(i) BY <1>3, Smallest
<1> HIDE DEF lower
<1>5. lower # {} => (CHOOSE i \in lower : least(i)) \in lower BY <1>4
<1>6. Place(s, o, t) = Len(s.waiting[o]) + 1 \/ Place(s, o, t) \in lower BY <1>2, <1>5
<1>7. /\ Len(s.waiting[o]) + 1 \in 1 .. Len(s.waiting[o]) + 1
      /\ \A i \in lower : i \in 1 .. Len(s.waiting[o]) + 1
  BY <1>1, <1>3
<1> QED BY <1>6, <1>7

LEMMA ResumeTyped ==
  ASSUME NEW T, NEW s, ListsOf(s, T), NEW t
  PROVE  /\ ListsOf(ResumeUnlink(s, t), T) /\ ListsOf(rt_thread_resume(s, t), T)
         /\ ListsOf(SuspendReady(s, t), T) /\ ListsOf(rt_thread_suspend(s, t), T)
         /\ ListsOf(rt_schedule_remove_thread(s, t), T) /\ ListsOf(rt_thread_timeout(s, t), T)
         /\ \A p : ListsOf(ChangePriority(s, t, p), T)
<1>1. DOMAIN s = Fields /\ s.waiting \in [WaitList -> Seq(T)] BY DEF ListsOf
<1>2. Without(s.waiting, t) \in [WaitList -> Seq(T)] BY <1>1, WithoutTyped
<1>3. ListsOf(ResumeUnlink(s, t), T) /\ ListsOf(rt_thread_resume(s, t), T)
  BY <1>1, <1>2, ResumeEffect DEF ListsOf, Changes
<1>4. ListsOf(SuspendReady(s, t), T) BY <1>1, <1>2, SuspendEffect DEF ListsOf, Changes
<1>5. ListsOf(rt_schedule_remove_thread(s, t), T) BY <1>1, <1>2, RemoveEffect DEF ListsOf, Changes
<1>6. ListsOf(rt_thread_timeout(s, t), T) BY <1>1, <1>2, TimeoutEffect DEF ListsOf, Changes
<1>7. ASSUME NEW p PROVE ListsOf(ChangePriority(s, t, p), T)
  <2> DEFINE u == ChangePriority(s, t, p)
  <2>1. /\ DOMAIN u = Fields
        /\ s.stat[t] = "ready" => u.waiting = Without(s.waiting, t)
        /\ s.stat[t] # "ready" => u.waiting = s.waiting
    <3>1. /\ Changes(s, u, QueueParts \cup {"stat", "priority"})
          /\ u.priority = [s.priority EXCEPT ![t] = p]
          /\ s.stat[t] = "ready" =>
               u.stat = [s.stat EXCEPT ![t] = "ready"] /\ u.waiting = Without(s.waiting, t)
          /\ s.stat[t] # "ready" => Changes(s, u, {"priority"})
      BY <1>1, PriorityEffect, Zenon
    <3> HIDE DEF u
    <3>2. Changes(s, u, {"priority"}) => u.waiting = s.waiting BY DEF Changes, Fields
    <3>3. DOMAIN u = Fields BY <3>1 DEF Changes
    <3> QED BY <3>1, <3>2, <3>3
  <2> HIDE DEF u
  <2> QED BY <1>1, <1>2, <2>1 DEF ListsOf, u
<1> QED BY <1>3, <1>4, <1>5, <1>6, <1>7 DEF rt_thread_suspend

LEMMA BlockTyped ==
  ASSUME NEW T, NEW s, ListsOf(s, T), NEW o, NEW t \in T, NEW time PROVE ListsOf(Block(s, o, t, time), T)
<1> DEFINE a == [s EXCEPT !.error[t] = "ok"]
           b == rt_thread_suspend(a, t)
           place == Place(b, o, t)
           c == [b EXCEPT !.waiting[o] = InsertAt(@, place, t)]
<1>1. Block(s, o, t, time) = IF time > 0 THEN rt_timer_start(c, t, time) ELSE c
  BY DEF Block, rt_ipc_list_suspend
<1>2. ListsOf(a, T) BY DEF ListsOf, Fields
<1> HIDE DEF a
<1>3. ListsOf(b, T) BY <1>2, ResumeTyped
<1> HIDE DEF b
<1>4. ASSUME o \in WaitList PROVE InsertAt(b.waiting[o], place, t) \in Seq(T)
  <2>1. b.waiting[o] \in Seq(T) BY <1>3, <1>4 DEF ListsOf
  <2>2. place \in 1 .. Len(b.waiting[o]) + 1 BY <2>1, PlaceInRange
  <2> HIDE DEF place
  <2> QED BY <2>1, <2>2, InsertAtProperties
<1>5. DOMAIN c = Fields /\ c.waiting = [b.waiting EXCEPT ![o] = InsertAt(@, place, t)]
  BY <1>3 DEF ListsOf, Fields
<1> HIDE DEF place, c
<1>6. ListsOf(c, T) BY <1>3, <1>4, <1>5 DEF ListsOf
<1>7. Changes(c, rt_timer_start(c, t, time), TimerParts) BY <1>6, StartEffect DEF ListsOf
<1> QED BY <1>1, <1>6, <1>7, SameLists DEF TimerParts

LEMMA ErrorTyped == ASSUME NEW T, NEW s, ListsOf(s, T), NEW o PROVE ListsOf(ResumeWithError(s, o), T)
<1> DEFINE t == Head(s.waiting[o])
           u == ResumeWithError(s, o)
<1>1. Without(s.waiting, t) \in [WaitList -> Seq(T)] BY WithoutTyped DEF ListsOf
<1>2. DOMAIN u = Fields /\ u.waiting \in {s.waiting, Without(s.waiting, t)}
  BY ErrorEffect DEF ListsOf, Changes
<1> HIDE DEF t, u
<1> QED BY <1>1, <1>2 DEF ListsOf, u

\* A round of rt_ipc_list_resume_all takes at most one thread from its list.
LEMMA RoundShortens ==
  ASSUME NEW T, NEW s, ListsOf(s, T), NEW o \in WaitList, s.waiting[o] # <<>>
  PROVE  Len(ResumeWithError(s, o).waiting[o]) >= Len(s.waiting[o]) - 1
<1> DEFINE q == s.waiting[o]
           t == Head(q)
           u == ResumeWithError(s, o)
<1>1. q \in Seq(T) /\ DOMAIN s = Fields BY DEF ListsOf
<1>2. t \in Range(q)
  <2>1. 1 \in DOMAIN q /\ t = q[1] BY <1>1, EmptySeq
  <2> QED BY <2>1 DEF Range
<1>3. Len(RemoveFirst(q, t)) = Len(q) - 1 /\ Len(q) \in Nat BY <1>1, <1>2, RemoveFirstAt
<1>4. u.waiting = s.waiting \/ u.waiting = Without(s.waiting, t) BY <1>1, ErrorEffect
<1>5. u.waiting[o] = q \/ u.waiting[o] = RemoveFirst(q, t) BY <1>4 DEF Without
<1> HIDE DEF t, q, u
<1> QED BY <1>3, <1>5 DEF q, u

LEMMA ReleaseTyped == ASSUME NEW T, NEW s, ListsOf(s, T), NEW o PROVE ListsOf(Release(s, o), T)
<1>1. DOMAIN s = Fields BY DEF ListsOf
<1>2. CASE s.waiting[o] # <<>> BY <1>2, ResumeTyped DEF Release, rt_ipc_list_resume
<1>3. CASE s.waiting[o] = <<>>
  <2>1. Changes(s, Release(s, o), {"value"}) BY <1>1, <1>3, ReleaseEffect
  <2> QED BY <2>1, SameLists
<1> QED BY <1>2, <1>3

\* By induction over its rounds: rt_ipc_list_resume_all takes at most timers from their list.
LEMMA AllPreserves ==
  ASSUME NEW T, NEW s, ListsOf(s, T), NEW o \in WaitList
  PROVE  ListsOf(ResumeAll(s, o), T) /\ Preserves(s, ResumeAll(s, o))
<1> DEFINE n == Len(s.waiting[o])
           r == ResumeAll(s, o)
<1>1. n \in Nat /\ DOMAIN s = Fields BY DEF ListsOf
<1>2. PICK after : /\ after[0] = s
                   /\ \A i \in 1 .. n : after[i] = ResumeWithError(after[i - 1], o)
                   /\ DOMAIN r = Fields
                   /\ \A f \in RoundFields : r[f] = after[n][f]
                   /\ \A f \in Fields \ RoundFields : r[f] = s[f]
  BY <1>1, Rounds
<1> DEFINE S == {i \in 0 .. n : /\ ListsOf(after[i], T) /\ Preserves(s, after[i])
                                /\ Changes(s, after[i], RoundFields)}
<1>3. 0 \in S BY <1>1, <1>2 DEF Preserves, Changes
<1>4. ASSUME NEW i \in 0 .. n - 1, i \in S PROVE i + 1 \in S
  <2> DEFINE a == after[i]
             b == after[i + 1]
  <2>1. ListsOf(a, T) /\ Preserves(s, a) /\ Changes(s, a, RoundFields) BY <1>4
  <2>2. i + 1 \in 1 .. n /\ i + 1 \in 0 .. n /\ (i + 1) - 1 = i BY <1>1
  <2>3. b = ResumeWithError(a, o) BY <1>2, <2>2
  <2> HIDE DEF a, b
  <2>4. ListsOf(b, T) BY <2>1, <2>3, ErrorTyped
  <2>5. Preserves(s, b) BY <2>1, <2>3, ErrorPreserves, PreservesIsTransitive DEF ListsOf
  <2>6. Changes(a, b, QueueParts \cup TimerParts \cup {"stat", "error"})
    BY <2>1, <2>3, ErrorEffect DEF ListsOf
  <2>7. Changes(s, b, RoundFields)
    BY <2>1, <2>6 DEF Changes, RoundFields, QueueParts, TimerParts
  <2> QED BY <2>2, <2>4, <2>5, <2>7 DEF b
<1>5. n \in S
  <2> HIDE DEF S, n
  <2>1. 0 .. n \subseteq S BY <1>1, <1>3, <1>4, UpTo
  <2> QED BY <1>1, <2>1
<1> DEFINE l == after[n]
<1>6. ListsOf(l, T) /\ Preserves(s, l) /\ Changes(s, l, RoundFields) BY <1>5
<1> HIDE DEF r, n, S, l
<1>7. DOMAIN r = Fields /\ \A f \in Fields : r[f] = l[f]
  BY <1>2, <1>6 DEF Changes, l
<1>8. ListsOf(r, T) BY <1>6, <1>7 DEF ListsOf, Fields
<1>9. SameTimers(l, r) BY <1>6, <1>7 DEF SameTimers, TimerFields, Fields
<1> QED BY <1>6, <1>8, <1>9, SamePreserves, PreservesIsTransitive DEF r

-----------------------------------------------------------------------------
(***************************************************************************)
(* The calls of a program, and where a thread is in one.                   *)
(***************************************************************************)
\* The programs make calls of C, which are proper, and the idle thread makes none.
Proper(C) ==
  /\ Programs \subseteq [Thread -> Seq(C)]
  /\ \A c \in C : ProperCall(c)
  /\ \A p \in Programs : p[Idle] = <<>>

\* The calls in which a thread can be at a label.
Fits(label, op) ==
  /\ label = "suspend_body" => op = "suspend"
  /\ label \in {"resume_unlink", "resume_insert"} => op \in {"resume", "startup"}
  /\ label \in {"detach_remove", "detach_timer", "detach_close"} => op = "detach"
  /\ label \in {"drain", "drain_one"} => op = "sem_detach"

CallsOK(C) ==
  /\ calls \in [Thread -> Seq(C)] /\ pc \in [Thread -> Label]
  /\ calls[Idle] = <<>>
  /\ \A t \in Thread : pc[t] # "user" => calls[t] # <<>> /\ Fits(pc[t], Call(t).op)

\* What the kernel relies on of the threads that call it, whatever else they call.
Engaged(C) ==
  /\ calls \in [Thread -> Seq(C)]
  /\ calls[Idle] = <<>>
  /\ \A t \in Thread : pc[t] # "user" =>
       /\ calls[t] # <<>>
       /\ IF pc[t] \in {"drain", "drain_one"} THEN Call(t).on \in WaitList ELSE Fits(pc[t], Call(t).op)

LEMMA Called ==
  ASSUME NEW C, Proper(C), NEW t, calls[t] \in Seq(C), calls[t] # <<>> PROVE ProperCall(Call(t))
<1>1. Head(calls[t]) \in C BY HeadTailProperties
<1> QED BY <1>1 DEF Proper, Call

LEMMA CallsEngage == ASSUME NEW C, Proper(C), CallsOK(C) PROVE Engaged(C)
BY Called DEF CallsOK, Engaged, Fits, ProperCall

LEMMA CallsInit == ASSUME NEW C, Proper(C), Init PROVE CallsOK(C)
BY DEF Proper, Init, CallsOK, Label

\* A step of a thread stays, goes to the next point of its call, or ends the call.
LEMMA CallEffect ==
  ASSUME NEW t, ThreadStep(t), pc[t] # "user" => Fits(pc[t], Call(t).op)
  PROVE  \/ Stay(t)
         \/ /\ pc[t] # "user" \/ calls[t] # <<>>
            /\ Return(t) \/ \E l \in Label : Goto(t, l) /\ Fits(l, Call(t).op)
BY DEF ThreadStep, Schedule, CallSchedule, Yield, Sleep, SleepReturn, Suspend, SuspendBody, Resume,
       ResumeFirst, ResumeSecond, Startup, Exit, SetPriority, EnterCritical, ExitCritical, Detach,
       DetachRemove, DetachTimer, DetachClose, Take, TakeReturn, Poll, SemRelease, Reset, SemDetach,
       Drain, DrainOne, SetTime, StartTimer, StopTimer, StopTimerBody, Calls, At, Label, Fits

LEMMA CallsKept ==
  ASSUME NEW C, CallsOK(C), NEW t \in Thread, ThreadStep(t) PROVE CallsOK(C)' /\ isr' = isr
<1>0. Idle \in Thread BY SchedAssumption
<1>1. CASE Stay(t) BY <1>1 DEF Stay, CallsOK, Call
<1>2. CASE calls[t] # <<>> /\ Return(t)
  <2>1. calls[t] \in Seq(C) BY DEF CallsOK
  <2>2. Tail(calls[t]) \in Seq(C) BY <1>2, <2>1, HeadTailProperties
  <2> QED BY <1>0, <1>2, <2>2 DEF Return, CallsOK, Label, Call
<1>3. ASSUME NEW l \in Label, calls[t] # <<>>, Goto(t, l), Fits(l, Call(t).op) PROVE CallsOK(C)' /\ isr' = isr
  BY <1>3 DEF Goto, CallsOK, Call
<1>4. pc[t] # "user" => calls[t] # <<>> /\ Fits(pc[t], Call(t).op) BY DEF CallsOK
<1> QED BY <1>1, <1>2, <1>3, <1>4, CallEffect

-----------------------------------------------------------------------------
(***************************************************************************)
(* The steps of threads and of the timer interrupt.                        *)
(***************************************************************************)
\* Wherever threads wait there are only threads, whatever a step does.
LEMMA ThreadKeepsLists ==
  ASSUME NEW C, Proper(C), Engaged(C), NEW T, Thread \ {Idle} \subseteq T, ListsOf(k, T),
         NEW t \in Thread, ThreadStep(t)
  PROVE  ListsOf(k', T)
<1> DEFINE c == Call(t)
<1>0. DOMAIN k = Fields BY DEF ListsOf
<1>2. ASSUME NEW F, Changes(k, k', F), "waiting" \notin F PROVE ListsOf(k', T) BY <1>2, SameLists
<1>3. CASE Schedule(t) \/ CallSchedule(t)
  BY <1>0, <1>2, <1>3, SwitchEffect DEF Schedule, CallSchedule, Processor
<1>4. CASE \/ Yield(t) \/ SleepReturn(t) \/ Suspend(t) \/ Resume(t) \/ Startup(t) \/ EnterCritical(t)
           \/ ExitCritical(t) \/ Detach(t) \/ DetachClose(t) \/ TakeReturn(t) \/ Poll(t) \/ SemDetach(t)
           \/ Drain(t) \/ SetTime(t) \/ StopTimer(t)
  <2>1. DOMAIN k' = Fields /\ k'.waiting = k.waiting
    BY <1>0, <1>4 DEF Yield, Rotate, SleepReturn, Suspend, Resume, Startup, EnterCritical, ExitCritical,
                      Detach, DetachClose, TakeReturn, Poll, SemDetach, Drain, SetTime, StopTimer, Fields
  <2> QED BY <2>1 DEF ListsOf
<1>5. CASE DetachTimer(t) \/ StopTimerBody(t) \/ StartTimer(t)
  <2>1. Changes(k, k', TimerParts)
    BY <1>0, <1>5, DetachEffect, StartEffect DEF DetachTimer, StopTimerBody, StartTimer
  <2> QED BY <2>1, SameLists DEF TimerParts
<1>6. CASE Sleep(t)
  <2> DEFINE u == rt_thread_suspend(k, t)
  <2>1. ListsOf(u, T) BY ResumeTyped
  <2>2. k' = rt_timer_start(u, t, c.arg) BY <1>6 DEF Sleep
  <2> HIDE DEF u
  <2>3. Changes(u, k', TimerParts) BY <2>1, <2>2, StartEffect DEF ListsOf
  <2> QED BY <2>1, <2>3, SameLists DEF TimerParts
<1>7. CASE SuspendBody(t) \/ ResumeFirst(t) \/ DetachRemove(t) \/ SetPriority(t)
  BY <1>7, ResumeTyped DEF SuspendBody, ResumeFirst, DetachRemove, SetPriority
<1>8. CASE ResumeSecond(t)
  <2>1. Changes(k, k', {"stat", "ready", "group"}) BY <1>0, <1>8, InsertEffect DEF ResumeSecond
  <2> QED BY <2>1, SameLists
<1>9. CASE Exit(t)
  <2> DEFINE u == rt_schedule_remove_thread(k, t)
             v == [u EXCEPT !.stat[t] = "close"]
             w == rt_timer_detach(v, t)
  <2>1. ListsOf(u, T) BY ResumeTyped
  <2>2. k' = rt_schedule(w) BY <1>9 DEF Exit
  <2> HIDE DEF u
  <2>3. ListsOf(v, T) BY <2>1 DEF ListsOf, Fields
  <2> HIDE DEF v
  <2>4. Changes(v, w, TimerParts) BY <2>3, DetachEffect DEF ListsOf
  <2>5. ListsOf(w, T) BY <2>3, <2>4, SameLists DEF TimerParts
  <2> HIDE DEF w
  <2>6. Changes(w, k', Processor) BY <2>2, <2>5, SwitchEffect DEF ListsOf
  <2> QED BY <2>5, <2>6, SameLists DEF Processor
<1>10. CASE Take(t)
  <2> DEFINE v == [k EXCEPT !.value[c.on] = @ - 1]
  <2>1. ListsOf(v, T) BY DEF ListsOf, Fields
  <2>2. k' = v \/ k' = k \/ k' = Block(k, c.on, t, c.arg) BY <1>10 DEF Take
  <2>3. t \in T BY <1>10 DEF Take, Calls, Engaged
  <2> QED BY <2>1, <2>2, <2>3, BlockTyped
<1>11. CASE SemRelease(t) BY <1>11, ReleaseTyped DEF SemRelease
<1>12. CASE DrainOne(t) BY <1>12, ErrorTyped DEF DrainOne
<1>13. CASE Reset(t)
  <2> DEFINE u == ResumeAll(k, c.on)
  <2>1. calls[t] # <<>> /\ c.op = "reset" BY <1>13 DEF Reset, Calls
  <2>2. c.on \in WaitList BY <2>1, Called DEF Engaged, ProperCall, WaitList
  <2>3. ListsOf(u, T) BY <2>2, AllPreserves
  <2>4. k' = [u EXCEPT !.value[c.on] = c.arg] BY <1>13 DEF Reset
  <2> HIDE DEF u
  <2> QED BY <2>3, <2>4 DEF ListsOf, Fields
<1> QED
  BY <1>3, <1>4, <1>5, <1>6, <1>7, <1>8, <1>9, <1>10, <1>11, <1>12, <1>13 DEF ThreadStep

LEMMA FireTyped == ASSUME NEW T, NEW s, ListsOf(s, T), NEW x PROVE ListsOf(Fire(s, x), T)
<1>1. CASE x \in Thread BY <1>1, ResumeTyped DEF Fire
<1>2. CASE x \notin Thread
  <2> DEFINE r == Release(s, Signals[x])
  <2>1. ListsOf(r, T) BY ReleaseTyped
  <2>2. Fire(s, x) = r \/ Fire(s, x) = ScheduleInInterrupt(r) BY <1>2 DEF Fire
  <2> HIDE DEF r
  <2>3. Changes(r, ScheduleInInterrupt(r), Processor) BY <2>1, SwitchEffect DEF ListsOf
  <2>4. ListsOf(ScheduleInInterrupt(r), T) BY <2>1, <2>3, SameLists DEF Processor
  <2> QED BY <2>1, <2>2, <2>4
<1> QED BY <1>1, <1>2

LEMMA InterruptKeepsLists ==
  ASSUME NEW T, ListsOf(k, T), Tick \/ TimerExpires \/ TickReturns PROVE ListsOf(k', T)
<1>0. DOMAIN k = Fields BY DEF ListsOf
<1>1. CASE Tick
  <2> DEFINE t == k.current
             u == [k EXCEPT !.tick = (@ + 1) % TickMod]
             v == [u EXCEPT !.remaining_tick[t] = Slice[t]]
             w == [u EXCEPT !.remaining_tick[t] = @ - 1]
             r == Rotate(v, t)
  <2>1. k' = w \/ k' = v \/ k' = ScheduleInInterrupt(r) BY <1>1 DEF Tick, TickOver
  <2>2. ListsOf(u, T) BY DEF ListsOf, Fields
  <2> HIDE DEF u
  <2>3. ListsOf(v, T) /\ ListsOf(w, T) BY <2>2 DEF ListsOf, Fields
  <2> HIDE DEF v, w
  <2>4. ListsOf(r, T) BY <2>3 DEF Rotate, ListsOf, Fields
  <2> HIDE DEF r
  <2>5. Changes(r, ScheduleInInterrupt(r), Processor) BY <2>4, SwitchEffect DEF ListsOf
  <2>6. ListsOf(ScheduleInInterrupt(r), T) BY <2>4, <2>5, SameLists DEF Processor
  <2> QED BY <2>1, <2>3, <2>6
<1>2. CASE TimerExpires
  <2> DEFINE x == Head(k.timers)
             u == [k EXCEPT !.timers = Tail(@)]
             d == rt_timer_detach(k, x)
  <2>1. ListsOf(u, T) BY DEF ListsOf, Fields
  <2>2. Changes(k, d, TimerParts) BY <1>0, DetachEffect
  <2>3. ListsOf(d, T) BY <2>2, SameLists DEF TimerParts
  <2>4. k' = rt_timer_start(Fire(u, x), x, k.init_tick[x]) \/ k' = Fire(d, x)
    BY <1>2 DEF TimerExpires, Expire
  <2> HIDE DEF u, d
  <2>5. ListsOf(Fire(u, x), T) /\ ListsOf(Fire(d, x), T) BY <2>1, <2>3, FireTyped
  <2>6. Changes(Fire(u, x), rt_timer_start(Fire(u, x), x, k.init_tick[x]), TimerParts)
    BY <2>5, StartEffect DEF ListsOf
  <2>7. ListsOf(rt_timer_start(Fire(u, x), x, k.init_tick[x]), T)
    BY <2>5, <2>6, SameLists DEF TimerParts
  <2> QED BY <2>4, <2>5, <2>7
<1>3. CASE TickReturns
  <2>1. Changes(k, k', Processor) BY <1>0, <1>3, SwitchEffect DEF TickReturns
  <2> QED BY <2>1, SameLists DEF Processor
<1> QED BY <1>1, <1>2, <1>3

\* A step of a thread, one case per group of actions that treat the timers alike.
LEMMA ThreadKeepsTimers ==
  ASSUME NEW C, Proper(C), Engaged(C), NEW T, ListsOf(k, T), NEW t \in Thread, TimersOK(k, {}, 1), ThreadStep(t)
  PROVE  TimersOK(k', {}, 1)
<1>0. DOMAIN k = Fields BY DEF TimersOK
<1>1. ASSUME Preserves(k, k') PROVE TimersOK(k', {}, 1) BY <1>1 DEF Preserves
<1>2. ASSUME SameTimers(k, k') PROVE TimersOK(k', {}, 1) BY <1>2, SameTimersOK
<1>3. SameTimers(k, k) BY <1>0 DEF SameTimers
<1>4. ASSUME calls[t] # <<>> PROVE ProperCall(Call(t)) BY <1>4, Called DEF Engaged
<1>5. CASE \/ Schedule(t) \/ CallSchedule(t) \/ Suspend(t) \/ Resume(t) \/ Detach(t) \/ TakeReturn(t)
           \/ SemDetach(t) \/ Drain(t) \/ StopTimer(t)
  BY <1>0, <1>2, <1>3, <1>5, SwitchesPreserve
     DEF Schedule, CallSchedule, Suspend, Resume, Detach, TakeReturn, SemDetach, Drain, StopTimer
<1>6. CASE Yield(t) BY <1>0, <1>2, <1>3, <1>6, ListsPreserve DEF Yield
<1>7. CASE \/ SleepReturn(t) \/ Startup(t) \/ EnterCritical(t) \/ ExitCritical(t) \/ DetachClose(t) \/ Poll(t)
  <2>1. SameTimers(k, k')
    BY <1>0, <1>3, <1>7 DEF SleepReturn, Startup, EnterCritical, ExitCritical, DetachClose, Poll,
                            SameTimers, Fields, TimerFields
  <2> QED BY <1>2, <2>1
<1>8. CASE SuspendBody(t) BY <1>0, <1>1, <1>8, SuspendPreserves DEF SuspendBody
<1>9. CASE ResumeFirst(t) BY <1>0, <1>1, <1>9, ResumePreserves DEF ResumeFirst
<1>10. CASE ResumeSecond(t) BY <1>0, <1>2, <1>10, ListsPreserve DEF ResumeSecond
<1>11. CASE DetachRemove(t) BY <1>0, <1>2, <1>11, ListsPreserve DEF DetachRemove
<1>12. CASE DetachTimer(t) \/ StopTimerBody(t)
  BY <1>1, <1>12, StopPreserves DEF DetachTimer, StopTimerBody
<1>13. CASE SetPriority(t) BY <1>0, <1>2, <1>13, PriorityPreserves DEF SetPriority
<1>14. CASE SemRelease(t) BY <1>0, <1>1, <1>14, ReleasePreserves DEF SemRelease
<1>15. CASE DrainOne(t) BY <1>0, <1>1, <1>2, <1>3, <1>15, ErrorPreserves DEF DrainOne
<1>16. CASE Exit(t)
  <2> DEFINE u == rt_schedule_remove_thread(k, t)
             v == [u EXCEPT !.stat[t] = "close"]
             w == rt_timer_detach(v, t)
  <2>1. SameTimers(k, u) BY <1>0, ListsPreserve
  <2>2. k' = rt_schedule(w) BY <1>16 DEF Exit
  <2> HIDE DEF u
  <2>3. SameTimers(u, v) BY <2>1 DEF SameTimers, Fields, TimerFields
  <2> HIDE DEF v
  <2>4. Preserves(k, v) /\ DOMAIN v = Fields
    BY <2>1, <2>3, SameTimersIsTransitive, SamePreserves DEF SameTimers
  <2>5. Preserves(k, w) /\ DOMAIN w = Fields
    BY <2>4, StopPreserves, PreservesIsTransitive, TimerDetached DEF Keeps
  <2> HIDE DEF w
  <2>6. Preserves(w, k') BY <2>2, <2>5, SwitchesPreserve, SamePreserves
  <2> QED BY <1>1, <2>5, <2>6, PreservesIsTransitive
<1>17. CASE Sleep(t)
  <2>1. Preserves(k, rt_thread_suspend(k, t)) BY <1>0, SuspendPreserves
  <2>2. Call(t).arg \in 0 .. HalfTick - 1 BY <1>4, <1>17 DEF Sleep, Calls, ProperCall
  <2>3. TimersOK(rt_thread_suspend(k, t), {}, 1) BY <2>1 DEF Preserves
  <2>4. t \in Timer /\ {} \in SUBSET {t} /\ 1 \in {0, 1} BY DEF Timer
  <2>5. k' = rt_timer_start(rt_thread_suspend(k, t), t, Call(t).arg) BY <1>17 DEF Sleep
  <2> QED BY <2>2, <2>3, <2>4, <2>5, StartedTimers
<1>18. CASE Take(t)
  <2> DEFINE o == Call(t).on
             v == [k EXCEPT !.value[o] = @ - 1]
  <2>1. Call(t).arg \in Int /\ Call(t).arg < HalfTick BY <1>4, <1>18 DEF Take, Calls, ProperCall
  <2>2. SameTimers(k, v) BY <1>0 DEF SameTimers, Fields, TimerFields
  <2>3. TimersOK(Block(k, o, t, Call(t).arg), {}, 1) BY <2>1, BlockPreserves
  <2>4. k' = v \/ k' = k \/ k' = Block(k, o, t, Call(t).arg) BY <1>18 DEF Take
  <2> QED BY <1>2, <2>2, <2>3, <2>4
<1>19. CASE Reset(t)
  <2> DEFINE u == ResumeAll(k, Call(t).on)
  <2>1. Call(t).on \in WaitList BY <1>4, <1>19 DEF Reset, Calls, ProperCall, WaitList
  <2>2. ListsOf(u, T) /\ Preserves(k, u) BY <2>1, AllPreserves
  <2>3. k' = [u EXCEPT !.value[Call(t).on] = Call(t).arg] BY <1>19 DEF Reset
  <2> HIDE DEF u
  <2>4. SameTimers(u, k') BY <2>2, <2>3 DEF ListsOf, SameTimers, Fields, TimerFields
  <2> QED BY <1>1, <2>2, <2>4, SamePreserves, PreservesIsTransitive
<1>20. CASE SetTime(t)
  <2>1. Call(t).arg \in 1 .. HalfTick - 1 BY <1>4, <1>20 DEF SetTime, Calls, ProperCall
  <2>2. k' = [k EXCEPT !.init_tick[Call(t).on] = Call(t).arg] BY <1>20 DEF SetTime
  <2>3. /\ DOMAIN k' = Fields /\ k'.tick = k.tick /\ k'.timers = k.timers /\ k'.timeout = k.timeout
        /\ k'.activated = k.activated /\ k'.init_tick = [k.init_tick EXCEPT ![Call(t).on] = Call(t).arg]
    BY <1>0, <2>2 DEF Fields
  <2>4. k'.init_tick \in [UserTimer -> 1 .. HalfTick - 1] BY <2>1, <2>3 DEF TimersOK
  <2>5. \A x : Remaining(k', x) = Remaining(k, x) BY <2>3 DEF Remaining
  <2> QED BY <2>3, <2>4, <2>5 DEF TimersOK
<1>21. CASE StartTimer(t)
  <2> DEFINE x == Call(t).on
  <2>1. x \in UserTimer BY <1>4, <1>21 DEF StartTimer, Calls, ProperCall
  <2>2. k.init_tick[x] \in 0 .. HalfTick - 1 BY <2>1, Ticks DEF TimersOK
  <2>3. x \in Timer /\ {} \in SUBSET {x} /\ 1 \in {0, 1} BY <2>1 DEF Timer
  <2>4. k' = rt_timer_start(k, x, k.init_tick[x]) BY <1>21 DEF StartTimer
  <2> QED BY <2>2, <2>3, <2>4, StartedTimers
<1> QED
  BY <1>5, <1>6, <1>7, <1>8, <1>9, <1>10, <1>11, <1>12, <1>13, <1>14, <1>15, <1>16, <1>17, <1>18,
     <1>19, <1>20, <1>21 DEF ThreadStep

LEMMA TickKeepsTimers == ASSUME TimersOK(k, {}, 1), Tick PROVE TimersOK(k', {}, 0)
<1> DEFINE t == k.current
           u == [k EXCEPT !.tick = (@ + 1) % TickMod]
           v == [u EXCEPT !.remaining_tick[t] = Slice[t]]
           w == [u EXCEPT !.remaining_tick[t] = @ - 1]
<1>1. k' = IF k.remaining_tick[t] > 1 THEN w
           ELSE IF CanYield(v, t) THEN ScheduleInInterrupt(Rotate(v, t)) ELSE v
  <2>1. u.remaining_tick = k.remaining_tick BY DEF TimersOK, Fields
  <2> QED BY <2>1 DEF Tick, TickOver
<1>2. /\ DOMAIN u = Fields /\ u.tick = (k.tick + 1) % TickMod /\ u.timers = k.timers
      /\ u.timeout = k.timeout /\ u.activated = k.activated /\ u.init_tick = k.init_tick
  BY DEF TimersOK, Fields
<1> HIDE DEF u
<1>3. TimersOK(u, {}, 0)
  <2>1. \A x \in Range(k.timers) : x \in Timer /\ k.timeout[x] \in 0 .. TickMod - 1 BY DEF TimersOK
  <2>2. \A x \in Range(k.timers) :
          /\ Remaining(k, x) \in 1 .. HalfTick
          /\ Remaining(u, x) = Remaining(k, x) - 1
    BY <1>2, <2>1, AfterTick DEF TimersOK, Remaining
  <2>3. \A i \in DOMAIN k.timers : k.timers[i] \in Range(k.timers) BY DEF Range
  <2>4. u.tick \in 0 .. TickMod - 1
    <3>1. \A M \in Nat, e \in Int : M > 2 => e % M \in 0 .. M - 1 OBVIOUS
    <3>2. k.tick + 1 \in Int BY Ticks DEF TimersOK
    <3>3. (k.tick + 1) % TickMod \in 0 .. TickMod - 1 BY ONLY <3>1, <3>2, Ticks, SMTT(30)
    <3> QED BY <1>2, <3>3
  <2>5. \A i, j \in DOMAIN u.timers : i < j => Remaining(u, u.timers[i]) <= Remaining(u, u.timers[j])
    <3> SUFFICES ASSUME NEW i \in DOMAIN k.timers, NEW j \in DOMAIN k.timers, i < j
                 PROVE  Remaining(u, k.timers[i]) <= Remaining(u, k.timers[j])
      BY <1>2
    <3>1. Remaining(k, k.timers[i]) <= Remaining(k, k.timers[j]) BY DEF TimersOK
    <3> QED BY <2>2, <2>3, <3>1
  <2>6. \A x \in Range(u.timers) : Remaining(u, x) \in 0 .. HalfTick BY <1>2, <2>2, Ticks
  <2> QED BY <1>2, <2>4, <2>5, <2>6 DEF TimersOK
<1>4. SameTimers(u, v) /\ SameTimers(u, w) BY <1>2 DEF SameTimers, Fields, TimerFields
<1> HIDE DEF v, w
<1>5. SameTimers(u, Rotate(v, t))
  BY <1>4, ListsPreserve, SameTimersIsTransitive DEF SameTimers
<1>6. SameTimers(u, ScheduleInInterrupt(Rotate(v, t)))
  BY <1>5, SwitchesPreserve, SameTimersIsTransitive DEF SameTimers
<1> QED BY <1>1, <1>3, <1>4, <1>6, SameTimersOK

\* A timeout function takes at most one timer from the list.
LEMMA FirePreserves == ASSUME NEW s, NEW x, DOMAIN s = Fields PROVE Preserves(s, Fire(s, x))
<1>1. CASE x \in Thread
  <2> DEFINE a == [s EXCEPT !.error[x] = "timeout"]
             b == Unlink(a, x)
             c == rt_schedule_insert_thread(b, x)
  <2>1. SameTimers(s, a) /\ DOMAIN a = Fields BY DEF SameTimers, Fields, TimerFields
  <2>2. Fire(s, x) = ScheduleInInterrupt(c) BY <1>1 DEF Fire, rt_thread_timeout
  <2> HIDE DEF a
  <2>3. SameTimers(a, b) /\ DOMAIN b = Fields BY <2>1, ListsPreserve DEF SameTimers
  <2> HIDE DEF b
  <2>4. SameTimers(b, c) /\ DOMAIN c = Fields BY <2>3, ListsPreserve DEF SameTimers
  <2> HIDE DEF c
  <2>5. SameTimers(c, Fire(s, x)) BY <2>2, <2>4, SwitchesPreserve
  <2> QED BY <2>1, <2>3, <2>4, <2>5, SameTimersIsTransitive, SamePreserves
<1>2. CASE x \notin Thread
  <2> DEFINE r == Release(s, Signals[x])
  <2>1. Preserves(s, r) /\ DOMAIN r = Fields BY ReleasePreserves, Released DEF Keeps
  <2>2. Fire(s, x) = r \/ Fire(s, x) = ScheduleInInterrupt(r) BY <1>2 DEF Fire
  <2> HIDE DEF r
  <2>3. Preserves(r, ScheduleInInterrupt(r)) BY <2>1, SwitchesPreserve, SamePreserves
  <2> QED BY <2>1, <2>2, <2>3, PreservesIsTransitive
<1> QED BY <1>1, <1>2

\* The first timer of the list expires: it is not due again, nor is any other that was not.
LEMMA ExpiryKeepsTimers ==
  ASSUME TimersOK(k, {}, 0), TimerExpires
  PROVE  TimersOK(k', {}, 0) /\ DueTimers(k') \subseteq DueTimers(k) \ {Head(k.timers)}
<1> DEFINE q == k.timers
           x == Head(q)
           r == Tail(q)
           u == [k EXCEPT !.timers = r]
<1>0. DOMAIN k = Fields /\ k' = Expire(k, x) /\ q # <<>> /\ q \in Seq(Timer) /\ NoDuplicates(q)
  BY DEF TimerExpires, TimerIsDue, TimersOK
<1>1. x \in Timer /\ r \in Seq(Timer) /\ Len(r) = Len(q) - 1 /\ \A i \in 1 .. Len(r) : r[i] = q[i + 1]
  BY <1>0, HeadTailProperties
<1>2. x = q[1] /\ DOMAIN q = 1 .. Len(q) /\ Len(q) \in Nat \ {0} BY <1>0, EmptySeq
<1>3. CASE x \in Periodic
  <2>1. /\ DOMAIN u = Fields /\ u.tick = k.tick /\ u.timers = r /\ u.activated = k.activated
        /\ u.timeout = k.timeout /\ u.init_tick = k.init_tick
    BY <1>0 DEF Fields
  <2>2. k' = rt_timer_start(Fire(u, x), x, k.init_tick[x]) BY <1>0, <1>3 DEF Expire
  <2> HIDE DEF x, r, u
  <2>3. DOMAIN r = 1 .. Len(q) - 1 /\ \A i \in DOMAIN r : i + 1 \in DOMAIN q /\ r[i] = q[i + 1]
    BY <1>1, <1>2
  <2>4. Range(r) = Range(q) \ {x}
    <3>1. \A i \in DOMAIN r : r[i] \in Range(q) /\ r[i] # x
      <4> SUFFICES ASSUME NEW i \in DOMAIN r PROVE r[i] \in Range(q) /\ r[i] # x OBVIOUS
      <4>1. i + 1 # 1 /\ 1 \in DOMAIN q BY <1>2, <2>3
      <4> QED BY <1>0, <1>2, <2>3, <4>1 DEF Range, NoDuplicates, IsInjective
    <3>2. \A a \in DOMAIN q : a # 1 => a - 1 \in DOMAIN r /\ r[a - 1] = q[a]
      <4> SUFFICES ASSUME NEW a \in DOMAIN q, a # 1 PROVE a - 1 \in DOMAIN r /\ r[a - 1] = q[a] OBVIOUS
      <4>1. a - 1 \in DOMAIN r /\ (a - 1) + 1 = a BY <1>2, <2>3
      <4> QED BY <2>3, <4>1
    <3> QED BY <1>2, <3>1, <3>2 DEF Range
  <2>5. TimersOK(u, {x}, 0)
    <3>1. \A y : Remaining(u, y) = Remaining(k, y) BY <2>1 DEF Remaining
    <3>2. NoDuplicates(r) BY <1>0, <1>2, <2>3 DEF NoDuplicates, IsInjective
    <3>3. \A i, j \in DOMAIN r : i < j => Remaining(k, r[i]) <= Remaining(k, r[j])
      <4> SUFFICES ASSUME NEW i \in DOMAIN r, NEW j \in DOMAIN r, i < j
                   PROVE  Remaining(k, r[i]) <= Remaining(k, r[j])
        OBVIOUS
      <4>1. i + 1 < j + 1 /\ i + 1 \in DOMAIN q /\ j + 1 \in DOMAIN q BY <1>2, <2>3
      <4> QED BY <2>3, <4>1 DEF TimersOK
    <3>4. Range(r) = u.activated \ {x} BY <2>1, <2>4 DEF TimersOK
    <3> QED BY <1>1, <2>1, <2>4, <3>1, <3>2, <3>3, <3>4 DEF TimersOK
  <2>6. DueTimers(u) = DueTimers(k) \ {x} BY <2>1, <2>4 DEF DueTimers, Due
  <2>7. TimersOK(Fire(u, x), {x}, 0) /\ DueTimers(Fire(u, x)) \subseteq DueTimers(u)
    BY <2>1, <2>5, FirePreserves DEF Preserves
  <2>8. x \in UserTimer BY <1>3, SchedAssumption
  <2>9. k.init_tick[x] \in 0 .. HalfTick - 1 /\ k.init_tick[x] > 0 BY <2>8, Ticks DEF TimersOK
  <2>10. /\ TimersOK(k', {}, 0)
         /\ DueTimers(k') \subseteq DueTimers(Fire(u, x)) \ {x}
    BY <1>1, <2>2, <2>7, <2>9, StartedTimers
  <2> QED BY <2>6, <2>7, <2>10 DEF x
<1>4. CASE x \notin Periodic
  <2> DEFINE d == rt_timer_detach(k, x)
  <2>1. TimersOK(d, {}, 0) /\ DueTimers(d) \subseteq DueTimers(k) \ {x} BY DetachedTimers
  <2>2. k' = Fire(d, x) BY <1>0, <1>4 DEF Expire
  <2> HIDE DEF d, x
  <2>3. Preserves(d, k') BY <2>1, <2>2, FirePreserves DEF TimersOK
  <2> QED BY <2>1, <2>3 DEF Preserves, x
<1> QED BY <1>3, <1>4

\* When the first timer is not due, none is.
LEMMA ReturnKeepsTimers == ASSUME TimersOK(k, {}, 0), TickReturns PROVE TimersOK(k', {}, 1)
<1> DEFINE q == k.timers
<1>1. DOMAIN k = Fields /\ k' = LeaveInterrupt(k) /\ ~TimerIsDue /\ q \in Seq(Timer)
  BY DEF TickReturns, TimersOK
<1>2. \A i \in DOMAIN q : Remaining(k, q[i]) \in 1 .. HalfTick
  <2> SUFFICES ASSUME NEW i \in DOMAIN q PROVE Remaining(k, q[i]) \in 1 .. HalfTick OBVIOUS
  <2>1. DOMAIN q = 1 .. Len(q) /\ Len(q) \in Nat /\ q # <<>> BY <1>1
  <2>2. 1 \in DOMAIN q /\ Head(q) = q[1] /\ i >= 1 BY <1>1, <2>1
  <2>3. \A j \in DOMAIN q : q[j] \in Range(q) /\ q[j] \in Timer BY <1>1 DEF Range
  <2>4. Remaining(k, q[1]) \in 0 .. HalfTick /\ Remaining(k, q[i]) \in 0 .. HalfTick
    BY <2>2, <2>3 DEF TimersOK
  <2>5. Remaining(k, q[1]) > 1
    <3>1. k.tick \in 0 .. TickMod - 1 /\ k.timeout[q[1]] \in 0 .. TickMod - 1 BY <2>2, <2>3 DEF TimersOK
    <3>2. ~(Since(k.tick, k.timeout[q[1]]) < HalfTick) BY <1>1, <2>1, <2>2 DEF TimerIsDue, Due
    <3>3. Since(k.timeout[q[1]] + 1, k.tick) \in 0 .. HalfTick BY <2>4 DEF Remaining
    <3>4. ~(Since(k.timeout[q[1]] + 1, k.tick) <= 1) BY ONLY <3>1, <3>2, <3>3, DueIsSoon
    <3> QED BY <2>4, <3>4, Ticks DEF Remaining
  <2>6. i = 1 \/ (i > 1 /\ Remaining(k, q[1]) <= Remaining(k, q[i])) BY <2>1, <2>2 DEF TimersOK
  <2> QED BY <2>4, <2>5, <2>6, Ticks
<1>3. \A x \in Range(q) : Remaining(k, x) \in 1 .. HalfTick BY <1>2 DEF Range
<1>4. TimersOK(k, {}, 1) BY <1>3 DEF TimersOK
<1> QED BY <1>1, <1>4, SwitchesPreserve, SameTimersOK

-----------------------------------------------------------------------------
(***************************************************************************)
(* The invariant and the theorems.                                         *)
(***************************************************************************)
\* Outside interrupts no timer is overdue.
TimerInv(C) ==
  /\ isr \in {"none", "timers"}
  /\ TimersOK(k, {}, IF isr = "none" THEN 1 ELSE 0)
  /\ ListsOf(k, Thread \ {Idle}) /\ CallsOK(C)

LEMMA TimersInit == ASSUME NEW C, Proper(C), Init PROVE TimerInv(C)
<1>1. k = Booted /\ isr = "none" BY DEF Init
<1>2. DOMAIN k = Fields BY <1>1 DEF Booted, Fields
<1>3. /\ k.tick = 0 /\ k.timers = <<>> /\ k.activated = {}
      /\ k.timeout = [x \in Timer |-> 0] /\ k.init_tick = [x \in UserTimer |-> 1]
  BY <1>1 DEF Booted
<1>4. 0 \in 0 .. TickMod - 1 /\ 1 \in 1 .. HalfTick - 1 BY Ticks
<1>5. <<>> \in Seq(Timer) /\ DOMAIN <<>> = {} OBVIOUS
<1>6. Range(k.timers) = {} BY <1>3, <1>5 DEF Range
<1>7. TimersOK(k, {}, 1) BY <1>2, <1>3, <1>4, <1>5, <1>6 DEF TimersOK, NoDuplicates, IsInjective
<1>8. k.waiting \in [WaitList -> Seq(Thread \ {Idle})] BY <1>1 DEF Booted
<1> QED BY <1>1, <1>2, <1>7, <1>8, CallsInit DEF TimerInv, ListsOf

LEMMA TimersKept ==
  ASSUME NEW C, Proper(C), TimerInv(C), k.cpu \in Thread, [Next]_vars PROVE TimerInv(C)'
<1>0. ListsOf(k, Thread \ {Idle}) BY DEF TimerInv
<1>1. CASE RunThread
  <2>1. isr = "none" /\ ThreadStep(k.cpu) /\ TimersOK(k, {}, 1) /\ CallsOK(C) BY <1>1 DEF RunThread, TimerInv
  <2>2. TimersOK(k', {}, 1) /\ ListsOf(k', Thread \ {Idle}) BY <1>0, <2>1, CallsEngage, ThreadKeepsTimers, ThreadKeepsLists
  <2>3. CallsOK(C)' /\ isr' = isr BY <2>1, CallsKept
  <2> QED BY <2>1, <2>2, <2>3 DEF TimerInv
<1>2. CASE Tick
  <2>1. TimersOK(k, {}, 1) /\ isr' = "timers" BY <1>2 DEF Tick, TimerInv
  <2>2. ListsOf(k', Thread \ {Idle}) BY <1>0, <1>2, InterruptKeepsLists
  <2> QED BY <1>2, <2>1, <2>2, TickKeepsTimers DEF Tick, TimerInv, CallsOK, Call
<1>3. CASE TimerExpires
  <2>1. TimersOK(k, {}, 0) /\ isr' = "timers" BY <1>3 DEF TimerExpires, TimerInv
  <2>2. ListsOf(k', Thread \ {Idle}) BY <1>0, <1>3, InterruptKeepsLists
  <2> QED BY <1>3, <2>1, <2>2, ExpiryKeepsTimers DEF TimerExpires, TimerInv, CallsOK, Call
<1>4. CASE TickReturns
  <2>1. TimersOK(k, {}, 0) /\ isr' = "none" BY <1>4 DEF TickReturns, TimerInv
  <2>2. ListsOf(k', Thread \ {Idle}) BY <1>0, <1>4, InterruptKeepsLists
  <2> QED BY <1>4, <2>1, <2>2, ReturnKeepsTimers DEF TickReturns, TimerInv, CallsOK, Call
<1>5. CASE UNCHANGED vars BY <1>5 DEF vars, TimerInv, ListsOf, CallsOK, Call
<1> QED BY <1>1, <1>2, <1>3, <1>4, <1>5 DEF Next

\* As long as some thread is ready, the list of timers and the calls of proper programs are as
\* TimerInv says (timer.c).
THEOREM TimersInvariant ==
  ASSUME NEW C, Proper(C) PROVE Spec /\ []SomeReady => []TimerInv(C)
<1>1. ContextInv => k.cpu \in Thread BY DEF ContextInv, Deferred
<1>2. Init => TimerInv(C) BY TimersInit
<1>3. TimerInv(C) /\ ContextInv /\ [Next]_vars => TimerInv(C)' BY <1>1, TimersKept
<1> QED BY <1>2, <1>3, ContextsInvariant, PTL DEF Spec

\* The list of timers holds the active ones in the order in which they expire, and no interrupt
\* leaves one that is overdue, for any number of timers and any width of the tick (timer.c).
THEOREM TimersAreConsistent ==
  ASSUME NEW C, Proper(C) PROVE Spec /\ []SomeReady => []TimersConsistent
<1>1. TimerInv(C) => TimersConsistent
  <2> SUFFICES ASSUME TimerInv(C) PROVE TimersConsistent OBVIOUS
  <2>1. \A x : Remaining(k, x) = Left(x) BY DEF Remaining, Left
  <2>2. \A x \in k.activated : isr = "none" => Left(x) > 0
    <3> SUFFICES ASSUME NEW x \in k.activated, isr = "none" PROVE Left(x) > 0 OBVIOUS
    <3>1. Remaining(k, x) \in 1 .. HalfTick BY DEF TimerInv, TimersOK
    <3> QED BY <2>1, <3>1, Ticks
  <2> QED BY <2>1, <2>2 DEF TimerInv, TimersOK, TimersConsistent
<1> QED BY <1>1, TimersInvariant, PTL

\* Every round of rt_timer_check leaves fewer timers that are due, also when it restarts a
\* periodic one, so that the timer interrupt ends (timer.c).
THEOREM InterruptsEnd ==
  ASSUME NEW C, Proper(C) PROVE Spec /\ []SomeReady => HandlerEnds
<1> DEFINE Fewer == isr = "timers" /\ isr' = "timers" =>
                      DueTimers(k') \subseteq DueTimers(k) \ {Head(k.timers)}
<1>1. TimerInv(C) /\ [Next]_vars => [Fewer]_vars
  <2> SUFFICES ASSUME TimerInv(C), Next, isr = "timers", isr' = "timers"
               PROVE  DueTimers(k') \subseteq DueTimers(k) \ {Head(k.timers)}
    OBVIOUS
  <2>1. TimerExpires BY DEF Next, RunThread, Tick, TickReturns
  <2>2. TimersOK(k, {}, 0) BY DEF TimerInv
  <2> QED BY <2>1, <2>2, ExpiryKeepsTimers
<1>2. Spec /\ []SomeReady => [][Next]_vars /\ []TimerInv(C) BY TimersInvariant, PTL DEF Spec
<1>3. Spec /\ []SomeReady => [][Fewer]_vars BY <1>1, <1>2, PTL
<1> QED BY <1>3 DEF HandlerEnds
-----------------------------------------------------------------------------
(***************************************************************************)
(* The ready queues: for all programs that do not resume a thread that     *)
(* somebody else has resumed, the group of ready priorities names exactly  *)
(* the queues that have a thread.  So the scheduler always finds one, and  *)
(* what is supposed of the kernel above follows.                           *)
(***************************************************************************)
QueueFields == {"ready", "group", "stat", "priority", "waiting"}

SameQueues(s, u) == DOMAIN u = Fields /\ \A f \in QueueFields : u[f] = s[f]

State == {"init", "ready", "suspend", "close"}

QueuesOK(s) ==
  /\ DOMAIN s = Fields
  /\ s.ready \in [Priority -> Seq(Thread)] /\ s.waiting \in [WaitList -> Seq(Thread)]
  /\ s.priority \in [Thread -> Priority] /\ s.stat \in [Thread -> State]
  /\ s.group = {p \in Priority : s.ready[p] # <<>>}
  /\ \A p \in Priority : NoDuplicates(s.ready[p])
  /\ \A t \in Thread, p \in Priority :
       t \in Range(s.ready[p]) => s.stat[t] = "ready" /\ p = s.priority[t]
  /\ Idle \in Range(s.ready[PriorityMax - 1])

\* Thread t is in no ready queue.
Out(s, t) == \A p \in Priority : t \notin Range(s.ready[p])

-----------------------------------------------------------------------------
(***************************************************************************)
(* Lists.                                                                  *)
(***************************************************************************)
LEMMA Appended ==
  ASSUME NEW T, NEW q \in Seq(T), NoDuplicates(q), NEW v \in T, v \notin Range(q)
  PROVE  LET r == Append(q, v) IN
         r \in Seq(T) /\ r # <<>> /\ NoDuplicates(r) /\ Range(r) = Range(q) \cup {v}
<1> DEFINE r == Append(q, v)
<1>1. /\ r \in Seq(T) /\ r # <<>> /\ Len(r) = Len(q) + 1
      /\ \A i \in 1 .. Len(q) : r[i] = q[i]
      /\ r[Len(q) + 1] = v
  BY AppendProperties
<1>2. DOMAIN q = 1 .. Len(q) /\ Len(q) \in Nat OBVIOUS
<1> HIDE DEF r
<1>3. DOMAIN r = 1 .. Len(q) + 1 BY <1>1
<1>4. Range(r) = Range(q) \cup {v} BY <1>1, <1>2, <1>3 DEF Range
<1>5. NoDuplicates(r) BY <1>1, <1>2, <1>3 DEF NoDuplicates, IsInjective, Range
<1> QED BY <1>1, <1>4, <1>5 DEF r

LEMMA EmptyRange == ASSUME NEW T, NEW q \in Seq(T) PROVE q = <<>> <=> Range(q) = {}
<1>1. DOMAIN q = 1 .. Len(q) /\ Len(q) \in Nat OBVIOUS
<1>2. CASE q = <<>> BY <1>2 DEF Range
<1>3. CASE q # <<>>
  <2>1. 1 \in DOMAIN q BY <1>1, <1>3, EmptySeq
  <2> QED BY <1>3, <2>1 DEF Range
<1> QED BY <1>2, <1>3

LEMMA IdlePriority == PriorityMax - 1 \in Priority /\ Idle \in Thread
BY SchedAssumption DEF Priority

-----------------------------------------------------------------------------
(***************************************************************************)
(* What leaves the queues as they are.                                     *)
(***************************************************************************)
LEMMA SameQueuesOK ==
  ASSUME NEW s, NEW u, QueuesOK(s), SameQueues(s, u)
  PROVE  QueuesOK(u) /\ \A t : Out(s, t) => Out(u, t)
BY DEF QueuesOK, SameQueues, QueueFields, Out

LEMMA SameQueuesIsTransitive ==
  ASSUME NEW s, NEW u, NEW v, SameQueues(s, u), SameQueues(u, v) PROVE SameQueues(s, v)
BY DEF SameQueues

LEMMA TimersLeaveQueues ==
  ASSUME NEW s, NEW x, DOMAIN s = Fields
  PROVE  /\ SameQueues(s, rt_timer_detach(s, x)) /\ SameQueues(s, rt_timer_stop(s, x))
         /\ \A ticks : SameQueues(s, rt_timer_start(s, x, ticks))
BY DEF rt_timer_detach, rt_timer_stop, rt_timer_start, SameQueues, Fields, QueueFields

LEMMA SwitchesLeaveQueues ==
  ASSUME NEW s, DOMAIN s = Fields
  PROVE  /\ SameQueues(s, rt_schedule(s)) /\ SameQueues(s, ScheduleInInterrupt(s))
         /\ SameQueues(s, LeaveInterrupt(s))
<1>1. ASSUME NEW u, DOMAIN u = Fields, NEW a, NEW b PROVE SameQueues(u, rt_hw_context_switch(u, a, b))
  BY <1>1 DEF rt_hw_context_switch, SameQueues, Fields, QueueFields
<1>2. ASSUME NEW u, DOMAIN u = Fields, NEW a, NEW b
      PROVE  SameQueues(u, rt_hw_context_switch_interrupt(u, a, b))
  BY <1>2 DEF rt_hw_context_switch_interrupt, SameQueues, Fields, QueueFields
<1> DEFINE c == [s EXCEPT !.current = Highest(s)]
           e == [s EXCEPT !.switch = <<>>]
<1>3. SameQueues(s, s) /\ SameQueues(s, c) /\ SameQueues(s, e) BY DEF SameQueues, Fields, QueueFields
<1>4. SameQueues(s, rt_schedule(s)) \/ rt_schedule(s) = rt_hw_context_switch(c, s.current, Highest(s))
  BY <1>3 DEF rt_schedule
<1>5. \/ SameQueues(s, ScheduleInInterrupt(s))
      \/ ScheduleInInterrupt(s) = rt_hw_context_switch_interrupt(c, s.current, Highest(s))
  BY <1>3 DEF ScheduleInInterrupt
<1>6. \/ SameQueues(s, LeaveInterrupt(s))
      \/ LeaveInterrupt(s) = rt_hw_context_switch(e, s.switch[1], s.switch[2])
  BY <1>3 DEF LeaveInterrupt
<1> HIDE DEF c, e
<1>7. DOMAIN c = Fields /\ DOMAIN e = Fields BY <1>3 DEF SameQueues
<1> QED BY <1>1, <1>2, <1>3, <1>4, <1>5, <1>6, <1>7, SameQueuesIsTransitive

-----------------------------------------------------------------------------
(***************************************************************************)
(* What changes them.                                                      *)
(***************************************************************************)
\* rt_list_remove leaves the thread in no queue, and every other where it was.
LEMMA UnlinkedQueues ==
  ASSUME NEW s, QueuesOK(s), NEW t
  PROVE  LET u == Unlink(s, t) IN
         /\ DOMAIN u = Fields /\ u.group = s.group /\ u.stat = s.stat /\ u.priority = s.priority
         /\ u.ready \in [Priority -> Seq(Thread)] /\ u.waiting \in [WaitList -> Seq(Thread)]
         /\ \A p \in Priority : NoDuplicates(u.ready[p]) /\ Range(u.ready[p]) = Range(s.ready[p]) \ {t}
<1> DEFINE u == Unlink(s, t)
<1>1. /\ DOMAIN u = Fields /\ u.group = s.group /\ u.stat = s.stat /\ u.priority = s.priority
      /\ u.ready = [p \in Priority |-> RemoveFirst(s.ready[p], t)]
      /\ u.waiting = [o \in WaitList |-> RemoveFirst(s.waiting[o], t)]
  BY DEF Unlink, QueuesOK, Fields
<1> HIDE DEF u
<1>2. u.waiting \in [WaitList -> Seq(Thread)] BY <1>1, RemoveFirstType DEF QueuesOK
<1>3. \A p \in Priority : /\ u.ready[p] \in Seq(Thread) /\ NoDuplicates(u.ready[p])
                          /\ Range(u.ready[p]) = Range(s.ready[p]) \ {t}
  <2> SUFFICES ASSUME NEW p \in Priority
               PROVE  /\ u.ready[p] \in Seq(Thread) /\ NoDuplicates(u.ready[p])
                      /\ Range(u.ready[p]) = Range(s.ready[p]) \ {t}
    OBVIOUS
  <2>1. s.ready[p] \in Seq(Thread) /\ NoDuplicates(s.ready[p]) BY DEF QueuesOK
  <2>2. u.ready[p] = RemoveFirst(s.ready[p], t) BY <1>1
  <2> QED BY <2>1, <2>2, RemoveFirstProperties
<1>4. u.ready \in [Priority -> Seq(Thread)] BY <1>1, <1>3
<1> QED BY <1>1, <1>2, <1>3, <1>4 DEF u

LEMMA RemovedFromQueue ==
  ASSUME NEW s, QueuesOK(s), NEW t \in Thread \ {Idle}
  PROVE  LET u == rt_schedule_remove_thread(s, t) IN
         QueuesOK(u) /\ Out(u, t) /\ u.stat = s.stat
<1> DEFINE u == Unlink(s, t)
           v == rt_schedule_remove_thread(s, t)
           p0 == s.priority[t]
<1>1. /\ DOMAIN u = Fields /\ u.group = s.group /\ u.stat = s.stat /\ u.priority = s.priority
      /\ u.ready \in [Priority -> Seq(Thread)] /\ u.waiting \in [WaitList -> Seq(Thread)]
      /\ \A p \in Priority : NoDuplicates(u.ready[p]) /\ Range(u.ready[p]) = Range(s.ready[p]) \ {t}
  BY UnlinkedQueues
<1>2. v = IF u.ready[u.priority[t]] = <<>> THEN [u EXCEPT !.group = @ \ {u.priority[t]}] ELSE u
  BY DEF rt_schedule_remove_thread
<1> HIDE DEF u, v
<1>3. /\ DOMAIN v = Fields /\ v.stat = s.stat /\ v.priority = s.priority
      /\ v.ready = u.ready /\ v.waiting = u.waiting
      /\ v.group = IF u.ready[p0] = <<>> THEN s.group \ {p0} ELSE s.group
  BY <1>1, <1>2 DEF Fields
<1>4. \A p \in Priority : u.ready[p] = <<>> <=> Range(s.ready[p]) \subseteq {t}
  BY <1>1, EmptyRange
<1>5. \A p \in Priority : s.ready[p] = <<>> <=> Range(s.ready[p]) = {} BY EmptyRange DEF QueuesOK
<1>6. \A p \in Priority : p # p0 => t \notin Range(s.ready[p]) BY DEF QueuesOK
<1>7. v.group = {p \in Priority : v.ready[p] # <<>>}
  <2>1. \A p \in Priority : p # p0 => (u.ready[p] = <<>> <=> s.ready[p] = <<>>)
    BY <1>4, <1>5, <1>6
  <2>2. p0 \in Priority /\ (s.ready[p0] = <<>> => u.ready[p0] = <<>>) BY <1>4, <1>5 DEF QueuesOK
  <2>3. s.group = {p \in Priority : s.ready[p] # <<>>} BY DEF QueuesOK
  <2> QED BY <1>3, <2>1, <2>2, <2>3, SMTT(30)
<1>8. Idle \in Range(v.ready[PriorityMax - 1]) BY <1>1, <1>3, IdlePriority DEF QueuesOK
<1>9. Out(v, t) BY <1>1, <1>3 DEF Out
<1>10. QueuesOK(v)
  <2>1. \A x \in Thread, p \in Priority : x \in Range(v.ready[p]) => v.stat[x] = "ready" /\ p = v.priority[x]
    <3> SUFFICES ASSUME NEW x \in Thread, NEW p \in Priority, x \in Range(v.ready[p])
                 PROVE  v.stat[x] = "ready" /\ p = v.priority[x]
      OBVIOUS
    <3>1. x \in Range(s.ready[p])
      <4>1. v.ready[p] = u.ready[p] /\ Range(u.ready[p]) = Range(s.ready[p]) \ {t} BY <1>1, <1>3
      <4> QED BY <4>1
    <3>2. s.stat[x] = "ready" /\ p = s.priority[x] BY <3>1 DEF QueuesOK
    <3> QED BY <1>3, <3>2
  <2>2. /\ v.ready \in [Priority -> Seq(Thread)] /\ v.waiting \in [WaitList -> Seq(Thread)]
        /\ v.priority \in [Thread -> Priority] /\ v.stat \in [Thread -> State]
    BY <1>1, <1>3 DEF QueuesOK
  <2>3. \A p \in Priority : NoDuplicates(v.ready[p]) BY <1>1, <1>3
  <2> QED BY <1>3, <1>7, <1>8, <2>1, <2>2, <2>3 DEF QueuesOK
<1> QED BY <1>3, <1>9, <1>10 DEF v

LEMMA InsertedIntoQueue ==
  ASSUME NEW s, QueuesOK(s), NEW t \in Thread, Out(s, t)
  PROVE  QueuesOK(rt_schedule_insert_thread(s, t))
<1> DEFINE v == rt_schedule_insert_thread(s, t)
           p0 == s.priority[t]
<1>1. /\ DOMAIN v = Fields /\ v.priority = s.priority /\ v.waiting = s.waiting
      /\ v.stat = [s.stat EXCEPT ![t] = "ready"]
      /\ v.ready = [s.ready EXCEPT ![p0] = Append(@, t)]
      /\ v.group = s.group \cup {p0}
  BY DEF rt_schedule_insert_thread, QueuesOK, Fields
<1> HIDE DEF v
<1>2. p0 \in Priority BY DEF QueuesOK
<1>3. \A p \in Priority : /\ p # p0 => v.ready[p] = s.ready[p]
                          /\ p = p0 => v.ready[p] = Append(s.ready[p0], t)
  BY <1>1 DEF QueuesOK
<1>4. LET r == Append(s.ready[p0], t) IN
      r \in Seq(Thread) /\ r # <<>> /\ NoDuplicates(r) /\ Range(r) = Range(s.ready[p0]) \cup {t}
  <2>1. s.ready[p0] \in Seq(Thread) /\ NoDuplicates(s.ready[p0]) /\ t \notin Range(s.ready[p0])
    BY <1>2 DEF QueuesOK, Out
  <2> QED BY <2>1, Appended
<1>5. v.ready \in [Priority -> Seq(Thread)] BY <1>1, <1>4 DEF QueuesOK
<1>6. \A p \in Priority : NoDuplicates(v.ready[p]) BY <1>3, <1>4 DEF QueuesOK
<1>7. v.group = {p \in Priority : v.ready[p] # <<>>} BY <1>1, <1>2, <1>3, <1>4 DEF QueuesOK
<1>8. \A x \in Thread, p \in Priority : x \in Range(v.ready[p]) => v.stat[x] = "ready" /\ p = v.priority[x]
  BY <1>1, <1>3, <1>4 DEF QueuesOK
<1>9. Idle \in Range(v.ready[PriorityMax - 1]) BY <1>3, <1>4, IdlePriority DEF QueuesOK
<1>10. v.stat \in [Thread -> State] BY <1>1 DEF QueuesOK, State
<1>11. QueuesOK(v) BY <1>1, <1>5, <1>6, <1>7, <1>8, <1>9, <1>10 DEF QueuesOK
<1> QED BY <1>11 DEF v

LEMMA OutsideChanged ==
  ASSUME NEW s, QueuesOK(s), NEW t \in Thread, Out(s, t), NEW p \in Priority, NEW x \in State
  PROVE  /\ LET u == [s EXCEPT !.stat[t] = x] IN QueuesOK(u) /\ Out(u, t)
         /\ LET u == [s EXCEPT !.priority[t] = p] IN QueuesOK(u) /\ Out(u, t)
<1> DEFINE u == [s EXCEPT !.stat[t] = x]
           v == [s EXCEPT !.priority[t] = p]
<1>1. /\ DOMAIN u = Fields /\ u.ready = s.ready /\ u.group = s.group /\ u.waiting = s.waiting
      /\ u.priority = s.priority /\ u.stat = [s.stat EXCEPT ![t] = x]
  BY DEF QueuesOK, Fields
<1>2. /\ DOMAIN v = Fields /\ v.ready = s.ready /\ v.group = s.group /\ v.waiting = s.waiting
      /\ v.stat = s.stat /\ v.priority = [s.priority EXCEPT ![t] = p]
  BY DEF QueuesOK, Fields
<1> HIDE DEF u, v
<1>3. QueuesOK(u) /\ Out(u, t) BY <1>1 DEF QueuesOK, Out
<1>4. QueuesOK(v) /\ Out(v, t) BY <1>2 DEF QueuesOK, Out
<1> QED BY <1>3, <1>4 DEF u, v

LEMMA UnlinkedOutside ==
  ASSUME NEW s, QueuesOK(s), NEW t \in Thread, Out(s, t)
  PROVE  QueuesOK(Unlink(s, t)) /\ Out(Unlink(s, t), t)
<1> DEFINE u == Unlink(s, t)
<1>1. /\ DOMAIN u = Fields /\ u.group = s.group /\ u.stat = s.stat /\ u.priority = s.priority
      /\ u.ready \in [Priority -> Seq(Thread)] /\ u.waiting \in [WaitList -> Seq(Thread)]
  BY UnlinkedQueues
<1>0. u.ready = [p \in Priority |-> RemoveFirst(s.ready[p], t)] BY DEF Unlink, QueuesOK, Fields
<1> HIDE DEF u
<1>2. u.ready = s.ready BY <1>0, NotInside DEF QueuesOK, Out
<1>3. QueuesOK(u) /\ Out(u, t) BY <1>1, <1>2 DEF QueuesOK, Out
<1> QED BY <1>3 DEF u

\* A thread that moves to the end of its queue.
LEMMA MovedToEnd ==
  ASSUME NEW s, QueuesOK(s), NEW t \in Thread, s.stat[t] = "ready", NEW u, DOMAIN u = Fields,
         u.stat = s.stat, u.priority = s.priority, u.group = s.group \cup {s.priority[t]},
         u.waiting \in [WaitList -> Seq(Thread)],
         u.ready = [p \in Priority |-> IF p = s.priority[t] THEN Append(RemoveFirst(s.ready[p], t), t)
                                       ELSE s.ready[p]]
  PROVE  QueuesOK(u)
<1> DEFINE p0 == s.priority[t]
           q  == s.ready[p0]
           r  == RemoveFirst(q, t)
           e  == Append(r, t)
<1>1. p0 \in Priority /\ q \in Seq(Thread) /\ NoDuplicates(q) BY DEF QueuesOK
<1>2. r \in Seq(Thread) /\ NoDuplicates(r) /\ Range(r) = Range(q) \ {t} BY <1>1, RemoveFirstProperties
<1>3. e \in Seq(Thread) /\ e # <<>> /\ NoDuplicates(e) /\ Range(e) = Range(q) \cup {t}
  <2> HIDE DEF r
  <2> QED BY <1>2, Appended
<1>4. /\ u.ready[p0] = e /\ \A p \in Priority : p # p0 => u.ready[p] = s.ready[p]
      /\ u.ready = [p \in Priority |-> u.ready[p]]
  BY <1>1
<1>0. \A p \in Priority : s.ready[p] \in Seq(Thread) BY DEF QueuesOK
<1> HIDE DEF e, r
<1>5. u.ready \in [Priority -> Seq(Thread)]
  <2>1. \A p \in Priority : u.ready[p] \in Seq(Thread) BY <1>0, <1>3, <1>4
  <2> QED BY <1>4, <2>1
<1> HIDE DEF q
<1>6. \A p \in Priority : NoDuplicates(u.ready[p]) BY <1>3, <1>4 DEF QueuesOK
<1>7. u.group = {p \in Priority : u.ready[p] # <<>>} BY <1>1, <1>3, <1>4 DEF QueuesOK
<1>8. \A x \in Thread, p \in Priority : x \in Range(u.ready[p]) => u.stat[x] = "ready" /\ p = u.priority[x]
  <2> SUFFICES ASSUME NEW x \in Thread, NEW p \in Priority, x \in Range(u.ready[p])
               PROVE  s.stat[x] = "ready" /\ p = s.priority[x]
    OBVIOUS
  <2>1. CASE p = p0 BY <1>1, <1>3, <1>4, <2>1 DEF QueuesOK, q
  <2>2. CASE p # p0 BY <1>4, <2>2 DEF QueuesOK
  <2> QED BY <2>1, <2>2
<1>9. Idle \in Range(u.ready[PriorityMax - 1])
  BY <1>3, <1>4, IdlePriority DEF QueuesOK, q
<1> QED BY <1>5, <1>6, <1>7, <1>8, <1>9 DEF QueuesOK

LEMMA RotatedQueue ==
  ASSUME NEW s, QueuesOK(s), NEW t \in Thread, s.stat[t] = "ready", s.ready[s.priority[t]] # <<>>
  PROVE  QueuesOK(Rotate(s, t))
<1> DEFINE u == Rotate(s, t)
           p0 == s.priority[t]
<1>1. /\ DOMAIN u = Fields /\ u.stat = s.stat /\ u.priority = s.priority /\ u.group = s.group
      /\ u.waiting = s.waiting
      /\ u.ready = [s.ready EXCEPT ![p0] = Append(RemoveFirst(@, t), t)]
  BY DEF Rotate, QueuesOK, Fields
<1> HIDE DEF u
<1>2. u.group = s.group \cup {p0} BY <1>1 DEF QueuesOK
<1>3. u.ready = [p \in Priority |-> IF p = p0 THEN Append(RemoveFirst(s.ready[p], t), t) ELSE s.ready[p]]
  BY <1>1 DEF QueuesOK
<1>4. u.waiting \in [WaitList -> Seq(Thread)] BY <1>1 DEF QueuesOK
<1>5. QueuesOK(u) BY <1>1, <1>2, <1>3, <1>4, MovedToEnd
<1> QED BY <1>5 DEF u

-----------------------------------------------------------------------------
(***************************************************************************)
(* The functions of the kernel.                                            *)
(***************************************************************************)
LEMMA SuspendedQueues ==
  ASSUME NEW s, QueuesOK(s), NEW t \in Thread \ {Idle}
  PROVE  QueuesOK(SuspendReady(s, t)) /\ QueuesOK(rt_thread_suspend(s, t))
<1> DEFINE u == rt_schedule_remove_thread(s, t)
           v == [u EXCEPT !.stat[t] = "suspend"]
<1>1. QueuesOK(u) /\ Out(u, t) BY RemovedFromQueue
<1>2. SuspendReady(s, t) = rt_timer_stop(v, t) BY DEF SuspendReady
<1> HIDE DEF u
<1>3. QueuesOK(v)
  <2>1. "suspend" \in State /\ PriorityMax - 1 \in Priority BY IdlePriority DEF State
  <2> QED BY <1>1, <2>1, OutsideChanged
<1> HIDE DEF v
<1>4. SameQueues(v, SuspendReady(s, t)) BY <1>2, <1>3, TimersLeaveQueues DEF QueuesOK
<1>5. QueuesOK(SuspendReady(s, t)) BY <1>3, <1>4, SameQueuesOK
<1> QED BY <1>5 DEF rt_thread_suspend

LEMMA ResumedQueues ==
  ASSUME NEW s, QueuesOK(s), NEW t \in Thread
  PROVE  /\ s.stat[t] = "suspend" => QueuesOK(ResumeUnlink(s, t))
         /\ QueuesOK(rt_thread_resume(s, t))
<1>1. ASSUME s.stat[t] = "suspend"
      PROVE  QueuesOK(ResumeUnlink(s, t)) /\ Out(ResumeUnlink(s, t), t)
  <2>1. Out(s, t) BY <1>1 DEF QueuesOK, Out
  <2>2. QueuesOK(Unlink(s, t)) /\ Out(Unlink(s, t), t) BY <2>1, UnlinkedOutside
  <2>3. SameQueues(Unlink(s, t), ResumeUnlink(s, t)) BY <2>2, TimersLeaveQueues DEF ResumeUnlink, QueuesOK
  <2> QED BY <2>2, <2>3, SameQueuesOK
<1>2. s.stat[t] = "suspend" => QueuesOK(rt_schedule_insert_thread(ResumeUnlink(s, t), t))
  BY <1>1, InsertedIntoQueue
<1> QED BY <1>1, <1>2 DEF rt_thread_resume

LEMMA FirstWaiting ==
  ASSUME NEW s, QueuesOK(s), NEW o \in WaitList, s.waiting[o] # <<>> PROVE Head(s.waiting[o]) \in Thread
<1>1. s.waiting[o] \in Seq(Thread) BY DEF QueuesOK
<1> QED BY <1>1, HeadTailProperties

LEMMA ReleasedQueues == ASSUME NEW s, QueuesOK(s), NEW o \in WaitList PROVE QueuesOK(Release(s, o))
<1>1. SameQueues(s, [s EXCEPT !.value[o] = @ + 1]) BY DEF SameQueues, QueuesOK, Fields, QueueFields
<1> QED BY <1>1, FirstWaiting, ResumedQueues, SameQueuesOK DEF Release, rt_ipc_list_resume

LEMMA ErrorQueues ==
  ASSUME NEW s, QueuesOK(s), NEW o \in WaitList, s.waiting[o] # <<>> PROVE QueuesOK(ResumeWithError(s, o))
<1> DEFINE t == Head(s.waiting[o])
           u == [s EXCEPT !.error[t] = "error"]
<1>1. SameQueues(s, u) BY DEF SameQueues, QueuesOK, Fields, QueueFields
<1>2. t \in Thread /\ ResumeWithError(s, o) = rt_thread_resume(u, t) BY FirstWaiting DEF ResumeWithError
<1> HIDE DEF t, u
<1> QED BY <1>1, <1>2, ResumedQueues, SameQueuesOK

\* By induction over its rounds: in round i at least n - i + 1 threads are still in the list.
LEMMA AllQueues == ASSUME NEW s, QueuesOK(s), NEW o \in WaitList PROVE QueuesOK(ResumeAll(s, o))
<1> DEFINE n == Len(s.waiting[o])
           r == ResumeAll(s, o)
<1>1. n \in Nat /\ DOMAIN s = Fields BY DEF QueuesOK
<1>2. PICK after : /\ after[0] = s
                   /\ \A i \in 1 .. n : after[i] = ResumeWithError(after[i - 1], o)
                   /\ DOMAIN r = Fields
                   /\ \A f \in RoundFields : r[f] = after[n][f]
                   /\ \A f \in Fields \ RoundFields : r[f] = s[f]
  BY <1>1, Rounds
<1> DEFINE S == {i \in 0 .. n : /\ QueuesOK(after[i]) /\ after[i].priority = s.priority
                                /\ Len(after[i].waiting[o]) >= n - i}
<1>3. 0 \in S BY <1>1, <1>2
<1>4. ASSUME NEW i \in 0 .. n - 1, i \in S PROVE i + 1 \in S
  <2> DEFINE a == after[i]
             b == after[i + 1]
             q == a.waiting[o]
  <2>1. QueuesOK(a) /\ a.priority = s.priority /\ Len(q) >= n - i BY <1>4
  <2>2. i + 1 \in 1 .. n /\ i + 1 \in 0 .. n /\ (i + 1) - 1 = i BY <1>1
  <2>3. b = ResumeWithError(a, o) BY <1>2, <2>2
  <2> HIDE DEF a, b
  <2>4. q \in Seq(Thread) /\ q # <<>> BY <1>1, <2>1 DEF QueuesOK
  <2>5. QueuesOK(b) BY <2>1, <2>3, <2>4, ErrorQueues
  <2>6. b.priority = a.priority
    <3>1. Changes(a, b, QueueParts \cup TimerParts \cup {"stat", "error"})
      BY <2>1, <2>3, ErrorEffect DEF QueuesOK
    <3> QED BY <3>1 DEF Changes, Fields, QueueParts, TimerParts
  <2>7. Len(b.waiting[o]) >= n - (i + 1)
    <3>1. ListsOf(a, Thread) BY <2>1 DEF QueuesOK, ListsOf
    <3>2. Len(b.waiting[o]) >= Len(q) - 1 BY <2>3, <2>4, <3>1, RoundShortens
    <3>3. b.waiting[o] \in Seq(Thread) BY <2>5 DEF QueuesOK
    <3>4. Len(q) \in Nat /\ Len(b.waiting[o]) \in Nat BY <2>4, <3>3
    <3> HIDE DEF q
    <3> HIDE DEF n
    <3> QED BY <1>1, <2>1, <3>2, <3>4
  <2> QED BY <2>1, <2>2, <2>5, <2>6, <2>7 DEF b
<1>5. n \in S
  <2> HIDE DEF S, n
  <2>1. 0 .. n \subseteq S BY <1>1, <1>3, <1>4, UpTo
  <2> QED BY <1>1, <2>1
<1>6. SameQueues(after[n], r)
  <2>1. QueuesOK(after[n]) /\ after[n].priority = s.priority BY <1>5
  <2> HIDE DEF r, n
  <2> QED BY <1>2, <2>1 DEF SameQueues, QueueFields, RoundFields, Fields
<1> QED BY <1>5, <1>6, SameQueuesOK

LEMMA PriorityQueues ==
  ASSUME NEW s, QueuesOK(s), NEW t \in Thread \ {Idle}, NEW p \in Priority
  PROVE  QueuesOK(ChangePriority(s, t, p))
<1> DEFINE u == rt_schedule_remove_thread(s, t)
           v == [u EXCEPT !.priority[t] = p]
<1>0. "ready" \in State BY DEF State
<1>1. QueuesOK(u) /\ Out(u, t) BY RemovedFromQueue
<1>2. ChangePriority(s, t, p) = IF s.stat[t] = "ready" THEN rt_schedule_insert_thread(v, t)
                                ELSE [s EXCEPT !.priority[t] = p]
  BY DEF ChangePriority
<1> HIDE DEF u
<1>3. QueuesOK(v) /\ Out(v, t) BY <1>0, <1>1, OutsideChanged
<1> HIDE DEF v
<1>4. CASE s.stat[t] = "ready" BY <1>2, <1>3, <1>4, InsertedIntoQueue
<1>5. CASE s.stat[t] # "ready"
  <2>1. Out(s, t) BY <1>5 DEF QueuesOK, Out
  <2>2. QueuesOK([s EXCEPT !.priority[t] = p]) BY <1>0, <2>1, OutsideChanged
  <2> QED BY <1>2, <1>5, <2>2
<1> QED BY <1>4, <1>5

LEMMA BlockedQueues ==
  ASSUME NEW s, QueuesOK(s), NEW o \in WaitList, NEW t \in Thread \ {Idle}, NEW time
  PROVE  QueuesOK(Block(s, o, t, time))
<1> DEFINE u == [s EXCEPT !.error[t] = "ok"]
           v == rt_thread_suspend(u, t)
           w == [v EXCEPT !.waiting[o] = InsertAt(@, Place(v, o, t), t)]
<1>1. SameQueues(s, u) BY DEF SameQueues, QueuesOK, Fields, QueueFields
<1>2. Block(s, o, t, time) = IF time > 0 THEN rt_timer_start(w, t, time) ELSE w
  BY DEF Block, rt_ipc_list_suspend
<1> HIDE DEF u
<1>3. QueuesOK(v) BY <1>1, SameQueuesOK, SuspendedQueues
<1> HIDE DEF v
<1>4. v.waiting[o] \in Seq(Thread) BY <1>3 DEF QueuesOK
<1>5. Place(v, o, t) \in 1 .. Len(v.waiting[o]) + 1 BY <1>4, PlaceInRange
<1>6. InsertAt(v.waiting[o], Place(v, o, t), t) \in Seq(Thread) BY <1>4, <1>5, InsertAtProperties
<1>7. /\ DOMAIN w = Fields /\ w.ready = v.ready /\ w.group = v.group /\ w.stat = v.stat
      /\ w.priority = v.priority /\ w.waiting = [v.waiting EXCEPT ![o] = InsertAt(@, Place(v, o, t), t)]
  BY <1>3 DEF QueuesOK, Fields
<1> HIDE DEF w
<1>8. w.waiting \in [WaitList -> Seq(Thread)] BY <1>3, <1>6, <1>7 DEF QueuesOK
<1>9. QueuesOK(w) BY <1>3, <1>7, <1>8 DEF QueuesOK
<1>10. SameQueues(w, rt_timer_start(w, t, time)) BY <1>9, TimersLeaveQueues DEF QueuesOK
<1> QED BY <1>2, <1>9, <1>10, SameQueuesOK

\* A thread whose time is up is taken from wherever it is and put into its queue.
LEMMA TimeoutQueues ==
  ASSUME NEW s, QueuesOK(s), NEW t \in Thread
  PROVE  QueuesOK(rt_schedule_insert_thread(Unlink(s, t), t))
<1> DEFINE u == Unlink(s, t)
           v == rt_schedule_insert_thread(u, t)
           p0 == s.priority[t]
<1>1. CASE Out(s, t) BY <1>1, UnlinkedOutside, InsertedIntoQueue
<1>2. CASE ~Out(s, t)
  <2>1. s.stat[t] = "ready" /\ \A p \in Priority : p # p0 => t \notin Range(s.ready[p])
    BY <1>2 DEF QueuesOK, Out
  <2>2. /\ DOMAIN u = Fields /\ u.group = s.group /\ u.stat = s.stat /\ u.priority = s.priority
        /\ u.waiting \in [WaitList -> Seq(Thread)]
    BY UnlinkedQueues
  <2>3. u.ready = [p \in Priority |-> RemoveFirst(s.ready[p], t)] BY DEF Unlink, QueuesOK, Fields
  <2>4. \A p \in Priority : p # p0 => u.ready[p] = s.ready[p]
    BY <2>1, <2>3, NotInside DEF QueuesOK
  <2> HIDE DEF u
  <2>5. /\ DOMAIN v = Fields /\ v.priority = u.priority /\ v.waiting = u.waiting
        /\ v.stat = [u.stat EXCEPT ![t] = "ready"]
        /\ v.ready = [u.ready EXCEPT ![u.priority[t]] = Append(@, t)]
        /\ v.group = u.group \cup {u.priority[t]}
    BY <2>2 DEF rt_schedule_insert_thread, Fields
  <2> HIDE DEF v
  <2>6. v.stat = s.stat BY <2>1, <2>2, <2>5 DEF QueuesOK
  <2>7. v.ready = [p \in Priority |-> IF p = p0 THEN Append(RemoveFirst(s.ready[p], t), t) ELSE s.ready[p]]
    <3>1. p0 \in Priority BY DEF QueuesOK
    <3>2. v.ready[p0] = Append(RemoveFirst(s.ready[p0], t), t) BY <2>2, <2>3, <2>5, <3>1
    <3>3. \A p \in Priority : p # p0 => v.ready[p] = s.ready[p] BY <2>2, <2>3, <2>4, <2>5
    <3>4. v.ready = [p \in Priority |-> v.ready[p]] BY <2>2, <2>3, <2>5
    <3> HIDE DEF p0
    <3> QED BY <3>2, <3>3, <3>4
  <2>8. QueuesOK(v) BY <2>1, <2>2, <2>5, <2>6, <2>7, MovedToEnd
  <2> QED BY <2>8 DEF u, v
<1> QED BY <1>1, <1>2

LEMMA FiredQueues == ASSUME NEW s, QueuesOK(s), NEW x \in Timer PROVE QueuesOK(Fire(s, x))
<1>1. CASE x \in Thread
  <2> DEFINE a == [s EXCEPT !.error[x] = "timeout"]
             c == rt_schedule_insert_thread(Unlink(a, x), x)
  <2>1. SameQueues(s, a) BY DEF SameQueues, QueuesOK, Fields, QueueFields
  <2>2. Fire(s, x) = ScheduleInInterrupt(c) BY <1>1 DEF Fire, rt_thread_timeout
  <2> HIDE DEF a
  <2>3. QueuesOK(c) BY <1>1, <2>1, SameQueuesOK, TimeoutQueues
  <2> HIDE DEF c
  <2>4. SameQueues(c, ScheduleInInterrupt(c)) BY <2>3, SwitchesLeaveQueues DEF QueuesOK
  <2> QED BY <2>2, <2>3, <2>4, SameQueuesOK
<1>2. CASE x \notin Thread
  <2> DEFINE r == Release(s, Signals[x])
  <2>1. Signals[x] \in WaitList BY <1>2, SchedAssumption DEF Timer, WaitList
  <2>2. QueuesOK(r) BY <2>1, ReleasedQueues
  <2>3. Fire(s, x) = r \/ Fire(s, x) = ScheduleInInterrupt(r) BY <1>2 DEF Fire
  <2> HIDE DEF r
  <2>4. SameQueues(r, ScheduleInInterrupt(r)) BY <2>2, SwitchesLeaveQueues DEF QueuesOK
  <2> QED BY <2>2, <2>3, <2>4, SameQueuesOK
<1> QED BY <1>1, <1>2

-----------------------------------------------------------------------------
(***************************************************************************)
(* The steps.                                                              *)
(***************************************************************************)
LEMMA NotContained ==
  ASSUME NEW s, QueuesOK(s), NEW t, \A p \in Priority : ~Contains(s.ready[p], t) PROVE Out(s, t)
<1> SUFFICES ASSUME NEW p \in Priority, t \in Range(s.ready[p]) PROVE FALSE BY DEF Out
<1>1. s.ready[p] \in Seq(Thread) /\ DOMAIN s.ready[p] = 1 .. Len(s.ready[p]) BY DEF QueuesOK
<1> QED BY <1>1 DEF Contains, Range

LEMMA QueuesInit == Init => QueuesOK(k)
<1> SUFFICES ASSUME Init PROVE QueuesOK(k) OBVIOUS
<1> DEFINE m == InitPriority[Main]
           i == InitPriority[Idle]
<1>1. /\ k = Booted /\ Main \in Thread /\ Idle \in Thread /\ m \in Priority /\ i \in Priority /\ m # i
      /\ i = PriorityMax - 1 /\ Main # Idle
  BY SchedAssumption DEF Init, Priority
<1>2. /\ DOMAIN k = Fields
      /\ k.ready = [p \in Priority |-> IF p = m THEN <<Main>> ELSE IF p = i THEN <<Idle>> ELSE <<>>]
      /\ k.group = {m, i} /\ k.priority = InitPriority
      /\ k.stat = [t \in Thread |-> IF t \in {Main, Idle} THEN "ready" ELSE "init"]
      /\ k.waiting = [o \in WaitList |-> <<>>]
  BY <1>1 DEF Booted, Fields
<1> HIDE DEF m, i
<1>3. \A t \in Thread : /\ <<t>> \in Seq(Thread) /\ <<t>> # <<>> /\ NoDuplicates(<<t>>)
                        /\ Range(<<t>>) = {t}
  BY DEF NoDuplicates, IsInjective, Range
<1>4. <<>> \in Seq(Thread) /\ NoDuplicates(<<>>) /\ Range(<<>>) = {}
  BY DEF NoDuplicates, IsInjective, Range
<1>5. \A p \in Priority : k.ready[p] \in Seq(Thread) /\ NoDuplicates(k.ready[p])
  BY <1>1, <1>2, <1>3, <1>4
<1>6. \A t \in Thread, p \in Priority : t \in Range(k.ready[p]) => k.stat[t] = "ready" /\ p = k.priority[t]
  BY <1>1, <1>2, <1>3, <1>4 DEF m, i
<1>7. k.group = {p \in Priority : k.ready[p] # <<>>} BY <1>1, <1>2, <1>3
<1>8. Idle \in Range(k.ready[PriorityMax - 1]) BY <1>1, <1>2, <1>3
<1>9. k.ready \in [Priority -> Seq(Thread)] /\ k.waiting \in [WaitList -> Seq(Thread)] BY <1>2, <1>4, <1>5
<1>10. k.priority \in [Thread -> Priority] /\ k.stat \in [Thread -> State]
  BY <1>2, SchedAssumption DEF State
<1> QED BY <1>2, <1>5, <1>6, <1>7, <1>8, <1>9, <1>10 DEF QueuesOK

LEMMA ThreadKeepsQueues ==
  ASSUME NEW C, Proper(C), Engaged(C), NobodyInterferes, NEW t \in Thread, QueuesOK(k), ThreadStep(t)
  PROVE  QueuesOK(k')
<1> DEFINE c == Call(t)
<1>0. DOMAIN k = Fields BY DEF QueuesOK
<1>1. ASSUME SameQueues(k, k') PROVE QueuesOK(k') BY <1>1, SameQueuesOK
<1>2. SameQueues(k, k) BY <1>0 DEF SameQueues
<1>3. ASSUME calls[t] # <<>> PROVE ProperCall(c) /\ t \in Thread \ {Idle}
  BY <1>3, Called DEF Engaged
<1>4. ASSUME pc[t] \notin {"user", "drain", "drain_one"}
      PROVE  ProperCall(c) /\ t \in Thread \ {Idle} /\ Fits(pc[t], c.op)
  BY <1>3, <1>4 DEF Engaged
<1>5. CASE \/ Schedule(t) \/ CallSchedule(t) \/ Suspend(t) \/ Resume(t) \/ Detach(t) \/ TakeReturn(t)
           \/ SemDetach(t) \/ Drain(t) \/ StopTimer(t)
  BY <1>0, <1>1, <1>2, <1>5, SwitchesLeaveQueues
     DEF Schedule, CallSchedule, Suspend, Resume, Detach, TakeReturn, SemDetach, Drain, StopTimer
<1>6. CASE Yield(t)
  <2>1. CASE CanYield(k, t)
    <3>1. k.stat[t] = "ready" /\ k.ready[k.priority[t]] # <<>> BY <2>1, EmptySeq DEF CanYield
    <3> QED BY <1>6, <2>1, <3>1, RotatedQueue DEF Yield
  <2> QED BY <1>1, <1>2, <1>6, <2>1 DEF Yield
<1>7. CASE \/ SleepReturn(t) \/ EnterCritical(t) \/ ExitCritical(t) \/ Poll(t) \/ SetTime(t)
  <2>1. SameQueues(k, k')
    BY <1>0, <1>2, <1>7 DEF SleepReturn, EnterCritical, ExitCritical, Poll, SetTime,
                            SameQueues, Fields, QueueFields
  <2> QED BY <1>1, <2>1
<1>8. CASE DetachTimer(t) \/ StopTimerBody(t) \/ StartTimer(t)
  BY <1>0, <1>1, <1>8, TimersLeaveQueues DEF DetachTimer, StopTimerBody, StartTimer
<1>9. CASE Sleep(t)
  <2> DEFINE u == rt_thread_suspend(k, t)
  <2>1. QueuesOK(u) BY <1>3, <1>9, SuspendedQueues DEF Sleep, Calls
  <2>2. k' = rt_timer_start(u, t, c.arg) BY <1>9 DEF Sleep
  <2> HIDE DEF u
  <2>3. SameQueues(u, k') BY <2>1, <2>2, TimersLeaveQueues DEF QueuesOK
  <2> QED BY <2>1, <2>3, SameQueuesOK
<1>10. CASE SuspendBody(t)
  <2>1. c.on \in Thread \ {Idle} BY <1>4, <1>10 DEF SuspendBody, At, Fits, ProperCall
  <2> QED BY <1>10, <2>1, SuspendedQueues DEF SuspendBody
<1>11. CASE ResumeFirst(t) \/ ResumeSecond(t)
  <2>1. c.on \in Thread /\ k.stat[c.on] = "suspend"
    BY <1>4, <1>11 DEF ResumeFirst, ResumeSecond, At, Fits, ProperCall, NobodyInterferes
  <2>2. Out(k, c.on) BY <2>1 DEF QueuesOK, Out
  <2> QED BY <1>11, <2>1, <2>2, ResumedQueues, InsertedIntoQueue DEF ResumeFirst, ResumeSecond
<1>12. CASE Startup(t)
  <2> DEFINE x == c.on
             u == [k EXCEPT !.priority[x] = InitPriority[x]]
             v == [u EXCEPT !.stat[x] = "suspend"]
  <2>1. x \in Thread /\ k.stat[x] = "init" /\ calls[t] # <<>>
    BY <1>3, <1>12 DEF Startup, Calls, ProperCall, NobodyInterferes
  <2>2. Out(k, x) BY <2>1 DEF QueuesOK, Out
  <2>3. InitPriority[x] \in Priority /\ "suspend" \in State BY <2>1, SchedAssumption DEF State
  <2>4. k' = [k EXCEPT !.priority[x] = InitPriority[x], !.stat[x] = "suspend"] BY <1>12 DEF Startup
  <2>5. k' = v BY <1>0, <2>4 DEF Fields
  <2> HIDE DEF x
  <2>6. QueuesOK(u) /\ Out(u, x) BY <2>1, <2>2, <2>3, OutsideChanged
  <2> HIDE DEF u
  <2>7. QueuesOK(v) BY <2>1, <2>3, <2>6, OutsideChanged
  <2> QED BY <2>5, <2>7
<1>13. CASE Exit(t)
  <2> DEFINE u == rt_schedule_remove_thread(k, t)
             v == [u EXCEPT !.stat[t] = "close"]
             w == rt_timer_detach(v, t)
  <2>1. t \in Thread \ {Idle} /\ "close" \in State /\ PriorityMax - 1 \in Priority
    BY <1>13, IdlePriority DEF Exit, State
  <2>2. QueuesOK(u) /\ Out(u, t) BY <2>1, RemovedFromQueue
  <2>3. k' = rt_schedule(w) BY <1>13 DEF Exit
  <2> HIDE DEF u
  <2>4. QueuesOK(v) BY <2>1, <2>2, OutsideChanged
  <2> HIDE DEF v
  <2>5. SameQueues(v, w) BY <2>4, TimersLeaveQueues DEF QueuesOK
  <2> HIDE DEF w
  <2>6. SameQueues(w, k') BY <2>3, <2>5, SwitchesLeaveQueues DEF SameQueues
  <2> QED BY <2>4, <2>5, <2>6, SameQueuesOK
<1>14. CASE SetPriority(t)
  <2>1. c.on \in Thread \ {Idle} /\ c.arg \in Priority
    BY <1>3, <1>14 DEF SetPriority, Calls, ProperCall
  <2> QED BY <1>14, <2>1, PriorityQueues DEF SetPriority
<1>15. CASE DetachRemove(t)
  <2>1. c.on \in Thread \ {Idle} BY <1>4, <1>15 DEF DetachRemove, At, Fits, ProperCall
  <2> QED BY <1>15, <2>1, RemovedFromQueue DEF DetachRemove
<1>16. CASE DetachClose(t)
  <2>1. c.on \in Thread /\ \A p \in Priority : ~Contains(k.ready[p], c.on)
    BY <1>4, <1>16 DEF DetachClose, At, Fits, ProperCall, NobodyInterferes
  <2>2. Out(k, c.on) BY <2>1, NotContained
  <2>3. "close" \in State /\ PriorityMax - 1 \in Priority BY IdlePriority DEF State
  <2>4. k' = [k EXCEPT !.stat[c.on] = "close"] BY <1>16 DEF DetachClose
  <2> HIDE DEF c
  <2> QED BY <2>1, <2>2, <2>3, <2>4, OutsideChanged
<1>17. CASE Take(t)
  <2> DEFINE v == [k EXCEPT !.value[c.on] = @ - 1]
  <2>1. c.on \in WaitList /\ t \in Thread \ {Idle}
    BY <1>3, <1>17 DEF Take, Calls, ProperCall, WaitList
  <2>2. SameQueues(k, v) BY <1>0 DEF SameQueues, Fields, QueueFields
  <2>3. QueuesOK(Block(k, c.on, t, c.arg)) BY <2>1, BlockedQueues
  <2>4. k' = v \/ k' = k \/ k' = Block(k, c.on, t, c.arg) BY <1>17 DEF Take
  <2> QED BY <1>1, <2>2, <2>3, <2>4
<1>18. CASE SemRelease(t)
  <2>1. c.on \in WaitList BY <1>3, <1>18 DEF SemRelease, Calls, ProperCall, WaitList
  <2> QED BY <1>18, <2>1, ReleasedQueues DEF SemRelease
<1>19. CASE Reset(t)
  <2> DEFINE u == ResumeAll(k, c.on)
  <2>1. c.on \in WaitList BY <1>3, <1>19 DEF Reset, Calls, ProperCall, WaitList
  <2>2. QueuesOK(u) BY <2>1, AllQueues
  <2>3. k' = [u EXCEPT !.value[c.on] = c.arg] BY <1>19 DEF Reset
  <2> HIDE DEF u
  <2>4. SameQueues(u, k') BY <2>2, <2>3 DEF QueuesOK, SameQueues, Fields, QueueFields
  <2> QED BY <2>2, <2>4, SameQueuesOK
<1>20. CASE DrainOne(t)
  <2>1. c.on \in WaitList BY <1>20 DEF DrainOne, At, Engaged
  <2>2. k' = k \/ (k.waiting[c.on] # <<>> /\ k' = ResumeWithError(k, c.on)) BY <1>20 DEF DrainOne
  <2> QED BY <2>1, <2>2, ErrorQueues
<1> QED
  BY <1>5, <1>6, <1>7, <1>8, <1>9, <1>10, <1>11, <1>12, <1>13, <1>14, <1>15, <1>16, <1>17, <1>18,
     <1>19, <1>20 DEF ThreadStep

LEMMA TickKeepsQueues == ASSUME QueuesOK(k), k.current \in Thread, Tick PROVE QueuesOK(k')
<1> DEFINE t == k.current
           u == [k EXCEPT !.tick = (@ + 1) % TickMod]
           v == [u EXCEPT !.remaining_tick[t] = Slice[t]]
           w == [u EXCEPT !.remaining_tick[t] = @ - 1]
           r == Rotate(v, t)
<1>1. k' = IF k.remaining_tick[t] > 1 THEN w
           ELSE IF CanYield(v, t) THEN ScheduleInInterrupt(r) ELSE v
  <2>1. u.remaining_tick = k.remaining_tick BY DEF QueuesOK, Fields
  <2> QED BY <2>1 DEF Tick, TickOver
<1>2. SameQueues(k, u) BY DEF SameQueues, QueuesOK, Fields, QueueFields
<1> HIDE DEF u
<1>3. SameQueues(u, v) /\ SameQueues(u, w) BY <1>2 DEF SameQueues, Fields, QueueFields
<1> HIDE DEF v, w
<1>4. QueuesOK(v) /\ QueuesOK(w) BY <1>2, <1>3, SameQueuesOK
<1>5. ASSUME CanYield(v, t) PROVE QueuesOK(ScheduleInInterrupt(r))
  <2>1. v.stat[t] = "ready" /\ v.ready[v.priority[t]] # <<>> BY <1>5, EmptySeq DEF CanYield
  <2>2. QueuesOK(r) BY <1>4, <2>1, RotatedQueue
  <2> HIDE DEF r
  <2>3. SameQueues(r, ScheduleInInterrupt(r)) BY <2>2, SwitchesLeaveQueues DEF QueuesOK
  <2> QED BY <2>2, <2>3, SameQueuesOK
<1> QED BY <1>1, <1>4, <1>5

LEMMA ExpiryKeepsQueues == ASSUME QueuesOK(k), TimersOK(k, {}, 0), TimerExpires PROVE QueuesOK(k')
<1> DEFINE x == Head(k.timers)
           u == [k EXCEPT !.timers = Tail(@)]
           d == rt_timer_detach(k, x)
<1>1. x \in Timer /\ k' = Expire(k, x)
  BY HeadTailProperties DEF TimerExpires, TimerIsDue, TimersOK
<1>2. SameQueues(k, u) /\ SameQueues(k, d)
  BY TimersLeaveQueues DEF SameQueues, QueuesOK, Fields, QueueFields
<1>3. k' = rt_timer_start(Fire(u, x), x, k.init_tick[x]) \/ k' = Fire(d, x) BY <1>1 DEF Expire
<1> HIDE DEF x, u, d
<1>4. QueuesOK(Fire(u, x)) /\ QueuesOK(Fire(d, x)) BY <1>1, <1>2, SameQueuesOK, FiredQueues
<1>5. SameQueues(Fire(u, x), rt_timer_start(Fire(u, x), x, k.init_tick[x]))
  BY <1>4, TimersLeaveQueues DEF QueuesOK
<1> QED BY <1>3, <1>4, <1>5, SameQueuesOK

LEMMA QueuesGiveThread == ASSUME NEW s, QueuesOK(s) PROVE Highest(s) \in Thread
<1> DEFINE least(p) == \A q \in s.group : p <= q
<1>1. s.group \in SUBSET Nat /\ s.group \subseteq Priority BY DEF QueuesOK, Priority
<1>2. s.group # {} BY IdlePriority, EmptyRange DEF QueuesOK
<1>3. \E p \in s.group : least(p) BY <1>1, <1>2, Smallest
<1>4. PICK p \in s.group : p = CHOOSE q \in s.group : least(q) BY <1>3
<1>5. s.ready[p] \in Seq(Thread) /\ s.ready[p] # <<>> BY <1>1 DEF QueuesOK
<1>6. Head(s.ready[p]) \in Thread BY <1>5, HeadTailProperties
<1> QED BY <1>4, <1>6 DEF Highest

-----------------------------------------------------------------------------
(***************************************************************************)
(* The three invariants together.                                          *)
(***************************************************************************)
KernelInv(C) == ContextInv /\ TimerInv(C) /\ QueuesOK(k)

LEMMA KernelKept ==
  ASSUME NEW C, Proper(C), KernelInv(C), NobodyInterferes, [Next]_vars PROVE KernelInv(C)'
<1>1. k.cpu \in Thread /\ k.current \in Thread BY DEF KernelInv, ContextInv, Deferred
<1>2. TimerInv(C)' BY <1>1, TimersKept DEF KernelInv
<1>3. QueuesOK(k)'
  <2>1. CASE RunThread BY <1>1, <2>1, CallsEngage, ThreadKeepsQueues DEF RunThread, KernelInv, TimerInv
  <2>2. CASE Tick BY <1>1, <2>2, TickKeepsQueues DEF KernelInv
  <2>3. CASE TimerExpires
    <3>1. TimersOK(k, {}, 0) BY <2>3 DEF TimerExpires, KernelInv, TimerInv
    <3> QED BY <2>3, <3>1, ExpiryKeepsQueues DEF KernelInv
  <2>4. CASE TickReturns
    <3>1. SameQueues(k, k') BY <2>4, SwitchesLeaveQueues DEF TickReturns, KernelInv, QueuesOK
    <3> QED BY <3>1, SameQueuesOK DEF KernelInv
  <2>5. CASE UNCHANGED vars BY <2>5 DEF vars, KernelInv, QueuesOK
  <2> QED BY <2>1, <2>2, <2>3, <2>4, <2>5 DEF Next
<1>4. SomeReady' BY <1>3, QueuesGiveThread DEF SomeReady
<1>5. ContextInv'
  <2>1. CASE Next
    BY <1>4, <2>1, ThreadKeepsContexts, TickKeepsContexts, ExpiryKeepsContexts, ReturnKeepsContexts
       DEF Next, KernelInv
  <2>2. CASE UNCHANGED vars BY <2>2 DEF vars, KernelInv, ContextInv, Deferred
  <2> QED BY <2>1, <2>2
<1> QED BY <1>2, <1>3, <1>5 DEF KernelInv

\* The group names the priorities whose queue has a thread, every queue holds ready threads of
\* its priority, each once, and the idle thread is in the last one (scheduler.c).
THEOREM KernelInvariant ==
  ASSUME NEW C, Proper(C) PROVE Spec /\ []NobodyInterferes => []KernelInv(C)
<1>1. Init => KernelInv(C) BY Initially, TimersInit, QueuesInit DEF KernelInv
<1>2. KernelInv(C) /\ NobodyInterferes /\ [Next]_vars => KernelInv(C)' BY KernelKept
<1> QED BY <1>1, <1>2, PTL DEF Spec

\* The scheduler always finds a thread: the queue that the group names has one (scheduler.c).
THEOREM SchedulerFindsThread ==
  ASSUME NEW C, Proper(C) PROVE Spec /\ []NobodyInterferes => []SomeReady
<1>1. KernelInv(C) => SomeReady BY QueuesGiveThread DEF KernelInv, SomeReady
<1> QED BY <1>1, KernelInvariant, PTL

\* What is shown above as long as some thread is ready therefore holds of every
\* proper program in which nobody interferes: the processor runs the thread the scheduler chose
\* and every other stack holds its own thread's registers (cpuport.c, context_gcc.S).
COROLLARY ProgramsRunOwnContexts ==
  ASSUME NEW C, Proper(C) PROVE Spec /\ []NobodyInterferes => []RunsOwnContext
BY SchedulerFindsThread, ContextsAreOwn, PTL

\* The same of the timers: the list is sorted, holds the active ones and none is overdue (timer.c).
COROLLARY ProgramsKeepTimers ==
  ASSUME NEW C, Proper(C) PROVE Spec /\ []NobodyInterferes => []TimersConsistent
BY SchedulerFindsThread, TimersAreConsistent, PTL

\* The same of the timer interrupt: every round of rt_timer_check leaves fewer due timers (timer.c).
COROLLARY ProgramsEndInterrupts ==
  ASSUME NEW C, Proper(C) PROVE Spec /\ []NobodyInterferes => HandlerEnds
BY SchedulerFindsThread, InterruptsEnd, PTL
=============================================================================
