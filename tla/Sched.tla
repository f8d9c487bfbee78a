------------------------------- MODULE Sched --------------------------------
(***************************************************************************)
(* The kernel of os/rt-thread-nano/src as functions of its memory: what    *)
(* scheduler.c, thread.c, timer.c, clock.c and the semaphores of ipc.c do  *)
(* between disabling and enabling interrupts.  A kernel memory s is a      *)
(* record; an operator named after a C function returns the memory that    *)
(* the function leaves.                                                    *)
(***************************************************************************)
EXTENDS Integers, Sequences, SequencesExt

CONSTANTS
  Thread,       \* the thread objects, Main and Idle among them
  Main, Idle,   \* main_thread and the idle thread
  PriorityMax,  \* RT_THREAD_PRIORITY_MAX
  InitPriority, \* init_priority of each thread
  Slice,        \* init_tick of each thread
  TickMod,      \* rt_tick_t counts modulo this (2^32)
  Semaphore,    \* the semaphore objects
  OtherLists,   \* the lists of waiting threads of other objects than semaphores
  ByPriority,   \* lists of objects with RT_IPC_FLAG_PRIO: the others are RT_IPC_FLAG_FIFO
  ValueMax,     \* RT_SEM_VALUE_MAX
  UserTimer,    \* timers of the application
  Periodic,     \* those with RT_TIMER_FLAG_PERIODIC
  Signals       \* the semaphore that a timer's timeout function releases

Priority == 0 .. PriorityMax - 1
Timer    == Thread \cup UserTimer
WaitList == Semaphore \cup OtherLists
HalfTick == (TickMod - 1) \div 2   \* RT_TICK_MAX / 2

ASSUME SchedAssumption ==
  /\ {Main, Idle} \subseteq Thread
  /\ PriorityMax \in Nat /\ ValueMax \in Nat
  /\ TickMod \in Nat /\ TickMod > 4
  /\ InitPriority \in [Thread -> Priority]
  /\ InitPriority[Idle] = PriorityMax - 1
  /\ InitPriority[Main] < PriorityMax - 1
  /\ Slice \in [Thread -> Nat \ {0}]
  /\ ByPriority \subseteq WaitList /\ Periodic \subseteq UserTimer
  /\ Signals \in [UserTimer -> Semaphore]
  /\ UserTimer \cap Thread = {}

-----------------------------------------------------------------------------
(***************************************************************************)
(* Intrusive lists (rtservice.h).  The node tlist of a thread is in at     *)
(* most one list: a ready queue or the suspend_thread list of an object.   *)
(***************************************************************************)
\* rt_list_remove(&thread->tlist), whichever list it is in.
Unlink(s, t) ==
  [s EXCEPT !.ready   = [p \in Priority |-> RemoveFirst(s.ready[p], t)],
            !.waiting = [o \in WaitList |-> RemoveFirst(s.waiting[o], t)]]

-----------------------------------------------------------------------------
(***************************************************************************)
(* timer.c, with one skip-list level (RT_TIMER_SKIP_LIST_LEVEL is 1).      *)
(***************************************************************************)
\* Ticks from b to a, across the wrap of rt_tick.
Since(a, b) == (a - b) % TickMod

\* MUTANT: ticks are compared as plain numbers.
LaterPlain(a, b) == a > b

\* a is a later timeout than b.
Later(a, b) == Since(a, b) \in 1 .. HalfTick - 1

Due(s, x) == Since(s.tick, s.timeout[x]) < HalfTick

\* The timeout of a timer outside the list is never read: it is 0 here.
rt_timer_detach(s, x) ==
  [s EXCEPT !.timers = RemoveFirst(@, x), !.activated = @ \ {x}, !.timeout[x] = 0]

rt_timer_stop(s, x) == IF x \in s.activated THEN rt_timer_detach(s, x) ELSE s

\* Timer x with init_tick ticks: before the first timer that is later, so
\* behind those of the same tick.  The timer of a thread is always given its
\* time (RT_TIMER_CTRL_SET_TIME) right before it is started.
rt_timer_start(s, x, ticks) ==
  LET others == RemoveFirst(s.timers, x)
      at     == (s.tick + ticks) % TickMod
      after  == {i \in DOMAIN others : Later(s.timeout[others[i]], at)}
      here   == IF after = {} THEN Len(others) + 1
                ELSE CHOOSE i \in after : \A j \in after : i <= j
  IN [s EXCEPT !.timers = InsertAt(others, here, x),
               !.timeout[x] = at,
               !.activated = @ \cup {x}]

-----------------------------------------------------------------------------
(***************************************************************************)
(* scheduler.c.                                                            *)
(***************************************************************************)
rt_schedule_insert_thread(s, t) ==
  [s EXCEPT !.stat[t] = "ready",
            !.ready[s.priority[t]] = Append(@, t),
            !.group = @ \cup {s.priority[t]}]

\* MUTANT: the bit of the priority is cleared although another thread has it.
remove_thread_clear(s, t) ==
  LET u == Unlink(s, t) IN [u EXCEPT !.group = @ \ {u.priority[t]}]

rt_schedule_remove_thread(s, t) ==
  LET u == Unlink(s, t)
  IN IF u.ready[u.priority[t]] = <<>> THEN [u EXCEPT !.group = @ \ {u.priority[t]}] ELSE u

\* The first thread of the highest (least) ready priority: __rt_ffs.
Highest(s) == Head(s.ready[CHOOSE p \in s.group : \A q \in s.group : p <= q])

\* rt_hw_context_switch: the registers go to one stack and come from another.
rt_hw_context_switch(s, from, to) ==
  LET stacks == [s.saved EXCEPT ![from] = s.cpu]
  IN [s EXCEPT !.saved = stacks, !.cpu = stacks[to]]

\* rt_schedule outside interrupts.
rt_schedule(s) ==
  IF s.lock_nest > 0 \/ Highest(s) = s.current THEN s
  ELSE rt_hw_context_switch([s EXCEPT !.current = Highest(s)], s.current, Highest(s))

\* MUTANT: the second switch of one interrupt forgets who was interrupted.
switch_interrupt_last(s, from, to) == [s EXCEPT !.switch = <<from, to>>]

\* rt_hw_context_switch_interrupt: remembered until the interrupt returns.
rt_hw_context_switch_interrupt(s, from, to) ==
  [s EXCEPT !.switch = IF @ = <<>> THEN <<from, to>> ELSE <<@[1], to>>]

\* rt_schedule in an interrupt.
ScheduleInInterrupt(s) ==
  IF s.lock_nest > 0 \/ Highest(s) = s.current THEN s
  ELSE rt_hw_context_switch_interrupt([s EXCEPT !.current = Highest(s)], s.current, Highest(s))

\* The end of irq_entry: interrupt_gcc.S.
LeaveInterrupt(s) ==
  IF s.switch = <<>> THEN s
  ELSE rt_hw_context_switch([s EXCEPT !.switch = <<>>], s.switch[1], s.switch[2])

-----------------------------------------------------------------------------
(***************************************************************************)
(* thread.c, the parts that run with interrupts disabled.                  *)
(***************************************************************************)
\* After the test of rt_thread_suspend.
SuspendReady(s, t) ==
  rt_timer_stop([rt_schedule_remove_thread(s, t) EXCEPT !.stat[t] = "suspend"], t)

rt_thread_suspend(s, t) == IF s.stat[t] = "ready" THEN SuspendReady(s, t) ELSE s

\* The first critical section of rt_thread_resume; the second inserts the thread.
ResumeUnlink(s, t) == rt_timer_stop(Unlink(s, t), t)

\* rt_thread_resume in a caller that has disabled interrupts.
rt_thread_resume(s, t) ==
  IF s.stat[t] = "suspend" THEN rt_schedule_insert_thread(ResumeUnlink(s, t), t) ELSE s

\* The condition of rt_thread_yield: ready, and not alone in its queue.
CanYield(s, t) == s.stat[t] = "ready" /\ Len(s.ready[s.priority[t]]) > 1

Rotate(s, t) == [s EXCEPT !.ready[s.priority[t]] = Append(RemoveFirst(@, t), t)]

\* MUTANT: a thread whose timer expires waits for the next switch.
TimeoutNoSchedule(s, t) ==
  rt_schedule_insert_thread(Unlink([s EXCEPT !.error[t] = "timeout"], t), t)

\* rt_thread_timeout, in the timer interrupt.
rt_thread_timeout(s, t) ==
  ScheduleInInterrupt(rt_schedule_insert_thread(Unlink([s EXCEPT !.error[t] = "timeout"], t), t))

\* rt_thread_control(RT_THREAD_CTRL_CHANGE_PRIORITY).
ChangePriority(s, t, p) ==
  IF s.stat[t] = "ready"
  THEN rt_schedule_insert_thread([rt_schedule_remove_thread(s, t) EXCEPT !.priority[t] = p], t)
  ELSE [s EXCEPT !.priority[t] = p]

-----------------------------------------------------------------------------
(***************************************************************************)
(* ipc.c: the list of waiting threads, and semaphores.                     *)
(***************************************************************************)
\* Where rt_ipc_list_suspend puts thread t: behind those of its priority, or last.
Place(s, o, t) ==
  LET lower == {i \in DOMAIN s.waiting[o] : s.priority[t] < s.priority[s.waiting[o][i]]}
  IN IF o \in ByPriority /\ lower # {} THEN CHOOSE i \in lower : \A j \in lower : i <= j
     ELSE Len(s.waiting[o]) + 1

\* rt_ipc_list_suspend, on a thread that is ready: it is the caller.
rt_ipc_list_suspend(s, o, t) ==
  LET u == rt_thread_suspend(s, t)
  IN [u EXCEPT !.waiting[o] = InsertAt(@, Place(u, o, t), t)]

rt_ipc_list_resume(s, o) == rt_thread_resume(s, Head(s.waiting[o]))

\* One round of rt_ipc_list_resume_all.
ResumeWithError(s, o) ==
  LET t == Head(s.waiting[o]) IN rt_thread_resume([s EXCEPT !.error[t] = "error"], t)

\* rt_ipc_list_resume_all with interrupts disabled: in order, all of them.
ResumeAll(s, o) ==
  LET n == Len(s.waiting[o])
      after[i \in 0 .. n] == IF i = 0 THEN s ELSE ResumeWithError(after[i - 1], o)
      u == after[n]
  IN [s EXCEPT !.error = u.error, !.stat = u.stat, !.ready = u.ready, !.group = u.group,
               !.waiting = u.waiting, !.timers = u.timers, !.activated = u.activated,
               !.timeout = u.timeout]

\* MUTANT: a token is counted without regard to the greatest value.
ReleaseUnbounded(s, o) ==
  IF s.waiting[o] # <<>> THEN rt_ipc_list_resume(s, o) ELSE [s EXCEPT !.value[o] = @ + 1]

\* MUTANT: a released token is also counted when it is handed over.
ReleaseTwice(s, o) ==
  IF s.waiting[o] # <<>> THEN [rt_ipc_list_resume(s, o) EXCEPT !.value[o] = @ + 1]
  ELSE IF s.value[o] < ValueMax THEN [s EXCEPT !.value[o] = @ + 1] ELSE s

\* The critical section of rt_sem_release.
Release(s, o) ==
  IF s.waiting[o] # <<>> THEN rt_ipc_list_resume(s, o)
  ELSE IF s.value[o] < ValueMax THEN [s EXCEPT !.value[o] = @ + 1] ELSE s

\* rt_sem_take when there is no token: -1 is RT_WAITING_FOREVER.
Block(s, o, t, time) ==
  LET u == rt_ipc_list_suspend([s EXCEPT !.error[t] = "ok"], o, t)
  IN IF time > 0 THEN rt_timer_start(u, t, time) ELSE u

-----------------------------------------------------------------------------
(***************************************************************************)
(* clock.c and rt_timer_check.                                             *)
(***************************************************************************)
\* MUTANT: no thread yields at the end of its time slice.
TickOverStay(s) == [s EXCEPT !.tick = (@ + 1) % TickMod]

\* rt_tick_increase up to rt_timer_check.
TickOver(s) ==
  LET t == s.current
      u == [s EXCEPT !.tick = (@ + 1) % TickMod]
  IN IF s.remaining_tick[t] > 1 THEN [u EXCEPT !.remaining_tick[t] = @ - 1]
     ELSE LET v == [u EXCEPT !.remaining_tick[t] = Slice[t]]
          IN IF CanYield(v, t) THEN ScheduleInInterrupt(Rotate(v, t)) ELSE v

\* The timeout function of timer x: of a thread's timer, or of one that signals.
Fire(s, x) ==
  IF x \in Thread THEN rt_thread_timeout(s, x)
  ELSE IF s.waiting[Signals[x]] # <<>> THEN ScheduleInInterrupt(Release(s, Signals[x]))
  ELSE Release(s, Signals[x])

\* MUTANT: a periodic timer is started again before its time is set.
ExpireAgain(s, x) ==
  IF x \in Periodic THEN rt_timer_start(Fire([s EXCEPT !.timers = Tail(@)], x), x, 0)
  ELSE Fire(rt_timer_detach(s, x), x)

\* One round of rt_timer_check, on the first timer of the list.
Expire(s, x) ==
  IF x \in Periodic THEN rt_timer_start(Fire([s EXCEPT !.timers = Tail(@)], x), x, s.init_tick[x])
  ELSE Fire(rt_timer_detach(s, x), x)

-----------------------------------------------------------------------------
(***************************************************************************)
(* rtthread_startup: main and idle are in their queues, and the scheduler  *)
(* has started main.  The other threads are initialised, not started.      *)
(***************************************************************************)
Booted ==
  [ ready     |-> [p \in Priority |-> IF p = InitPriority[Main] THEN <<Main>>
                                      ELSE IF p = InitPriority[Idle] THEN <<Idle>> ELSE <<>>],
    group     |-> {InitPriority[Main], InitPriority[Idle]},
    stat      |-> [t \in Thread |-> IF t \in {Main, Idle} THEN "ready" ELSE "init"],
    priority  |-> InitPriority,
    remaining_tick |-> Slice,
    error     |-> [t \in Thread |-> "ok"],
    lock_nest |-> 0,
    current   |-> Main,
    cpu       |-> Main, saved |-> [t \in Thread |-> t],
    switch    |-> <<>>,
    tick      |-> 0,
    timers    |-> <<>>, activated |-> {},
    timeout   |-> [x \in Timer |-> 0], init_tick |-> [x \in UserTimer |-> 1],
    waiting   |-> [o \in WaitList |-> <<>>],
    value     |-> [o \in Semaphore |-> 0] ]
=============================================================================
