------------------------------- MODULE Kernel -------------------------------
(***************************************************************************)
(* Threads of an application that call the kernel, and the timer interrupt *)
(* that may come wherever interrupts are enabled.  A step of a thread is   *)
(* what it does from one point with interrupts enabled to the next; a      *)
(* function that enables them in the middle is several steps, and pc names *)
(* the points between.                                                     *)
(***************************************************************************)
EXTENDS Sched

CONSTANT Programs   \* each gives every thread the calls it makes, in order

VARIABLES
  k,      \* the memory of the kernel, see Sched
  pc,     \* where each thread is in its call; "user" is between calls
  calls,  \* the calls each thread has left, the one it is in included
  isr     \* "none" or "timers": in the timer interrupt, in rt_timer_check

vars == <<k, pc, calls, isr>>

Label == {"user", "schedule", "return", "suspend_body", "resume_unlink", "resume_insert",
          "detach_remove", "detach_timer", "detach_close", "drain", "drain_one", "stop_timer"}

Init ==
  /\ calls \in Programs
  /\ k = Booted
  /\ pc = [t \in Thread |-> "user"]
  /\ isr = "none"

-----------------------------------------------------------------------------
Call(t) == Head(calls[t])

At(t, label) == pc[t] = label

Calls(t, op) == pc[t] = "user" /\ calls[t] # <<>> /\ Call(t).op = op

Goto(t, label) == pc' = [pc EXCEPT ![t] = label] /\ UNCHANGED <<calls, isr>>

Return(t) ==
  /\ pc' = [pc EXCEPT ![t] = "user"]
  /\ calls' = [calls EXCEPT ![t] = Tail(@)]
  /\ UNCHANGED isr

Stay(t) == UNCHANGED <<pc, calls, isr>>

-----------------------------------------------------------------------------
(***************************************************************************)
(* scheduler.c and thread.c.                                               *)
(***************************************************************************)
\* rt_schedule at the end of a call.  A thread that is switched out here goes
\* on behind it when it is switched in again.
Schedule(t) ==
  /\ At(t, "schedule")
  /\ k' = rt_schedule(k)
  /\ IF Call(t).op \in {"sleep", "take"} THEN Goto(t, "return") ELSE Return(t)

\* The application calls rt_schedule, as rt_thread_suspend asks it to.
CallSchedule(t) == Calls(t, "schedule") /\ k' = rt_schedule(k) /\ Return(t)

Yield(t) ==
  /\ Calls(t, "yield")
  /\ IF CanYield(k, t) THEN k' = Rotate(k, t) /\ Goto(t, "schedule")
     ELSE UNCHANGED k /\ Return(t)

Sleep(t) ==
  /\ Calls(t, "sleep")
  /\ k' = rt_timer_start(rt_thread_suspend(k, t), t, Call(t).arg)
  /\ Goto(t, "schedule")

SleepReturn(t) ==
  /\ At(t, "return") /\ Call(t).op = "sleep"
  /\ k' = [k EXCEPT !.error[t] = IF @ = "timeout" THEN "ok" ELSE @]
  /\ Return(t)

\* rt_thread_suspend tests the state before it disables interrupts.
Suspend(t) ==
  /\ Calls(t, "suspend") /\ UNCHANGED k
  /\ IF k.stat[Call(t).on] = "ready" THEN Goto(t, "suspend_body") ELSE Return(t)

SuspendBody(t) ==
  /\ At(t, "suspend_body")
  /\ k' = SuspendReady(k, Call(t).on)
  /\ Return(t)

\* rt_thread_resume too; and it enables them between its two halves.
Resume(t) ==
  /\ Calls(t, "resume") /\ UNCHANGED k
  /\ IF k.stat[Call(t).on] = "suspend" THEN Goto(t, "resume_unlink") ELSE Return(t)

ResumeFirst(t) ==
  /\ At(t, "resume_unlink")
  /\ k' = ResumeUnlink(k, Call(t).on)
  /\ Goto(t, "resume_insert")

ResumeSecond(t) ==
  /\ At(t, "resume_insert")
  /\ k' = rt_schedule_insert_thread(k, Call(t).on)
  /\ IF Call(t).op = "startup" THEN Goto(t, "schedule") ELSE Return(t)

Startup(t) ==
  LET u == Call(t).on IN
  /\ Calls(t, "startup")
  /\ k' = [k EXCEPT !.priority[u] = InitPriority[u], !.stat[u] = "suspend"]
  /\ Goto(t, "resume_unlink")

\* The entry function of thread t returns.
Exit(t) ==
  /\ At(t, "user") /\ calls[t] = <<>> /\ t # Idle
  /\ k' = rt_schedule(rt_timer_detach([rt_schedule_remove_thread(k, t) EXCEPT !.stat[t] = "close"], t))
  /\ Stay(t)

\* rt_thread_detach does each of its parts with interrupts enabled between them.
Detach(t) ==
  LET u == Call(t).on IN
  /\ Calls(t, "detach") /\ UNCHANGED k
  /\ IF k.stat[u] = "close" THEN Return(t)
     ELSE Goto(t, IF k.stat[u] = "init" THEN "detach_timer" ELSE "detach_remove")

DetachRemove(t) ==
  /\ At(t, "detach_remove")
  /\ k' = rt_schedule_remove_thread(k, Call(t).on)
  /\ Goto(t, "detach_timer")

DetachTimer(t) ==
  /\ At(t, "detach_timer")
  /\ k' = rt_timer_detach(k, Call(t).on)
  /\ Goto(t, "detach_close")

DetachClose(t) ==
  /\ At(t, "detach_close")
  /\ k' = [k EXCEPT !.stat[Call(t).on] = "close"]
  /\ Return(t)

SetPriority(t) ==
  /\ Calls(t, "set_priority")
  /\ k' = ChangePriority(k, Call(t).on, Call(t).arg)
  /\ Return(t)

EnterCritical(t) ==
  /\ Calls(t, "enter_critical")
  /\ k' = [k EXCEPT !.lock_nest = @ + 1]
  /\ Return(t)

ExitCritical(t) ==
  /\ Calls(t, "exit_critical")
  /\ k' = [k EXCEPT !.lock_nest = IF @ > 0 THEN @ - 1 ELSE 0]
  /\ IF k.lock_nest > 1 THEN Return(t) ELSE Goto(t, "schedule")

-----------------------------------------------------------------------------
(***************************************************************************)
(* Semaphores (ipc.c).                                                     *)
(***************************************************************************)
Take(t) ==
  LET o == Call(t).on IN
  /\ Calls(t, "take")
  /\ \/ k.value[o] > 0 /\ k' = [k EXCEPT !.value[o] = @ - 1] /\ Return(t)
     \/ k.value[o] = 0 /\ Call(t).arg = 0 /\ UNCHANGED k /\ Return(t)
     \/ k.value[o] = 0 /\ Call(t).arg # 0 /\ k' = Block(k, o, t, Call(t).arg) /\ Goto(t, "schedule")

\* The caller looks at the error code, which is the thread's.
TakeReturn(t) ==
  /\ At(t, "return") /\ Call(t).op = "take"
  /\ UNCHANGED k
  /\ Return(t)

\* A loop of rt_sem_trytake that ends with a token.
Poll(t) ==
  LET o == Call(t).on IN
  /\ Calls(t, "poll")
  /\ \/ k.value[o] > 0 /\ k' = [k EXCEPT !.value[o] = @ - 1] /\ Return(t)
     \/ k.value[o] = 0 /\ UNCHANGED k /\ Stay(t)

SemRelease(t) ==
  LET o == Call(t).on IN
  /\ Calls(t, "release")
  /\ k' = Release(k, o)
  /\ IF k.waiting[o] # <<>> THEN Goto(t, "schedule") ELSE Return(t)

\* rt_sem_control(RT_IPC_CMD_RESET): all waiting threads in one critical section.
Reset(t) ==
  LET o == Call(t).on IN
  /\ Calls(t, "reset")
  /\ k' = [ResumeAll(k, o) EXCEPT !.value[o] = Call(t).arg]
  /\ Goto(t, "schedule")

\* rt_sem_detach: rt_ipc_list_resume_all tests the list with interrupts enabled.
SemDetach(t) == Calls(t, "sem_detach") /\ UNCHANGED k /\ Goto(t, "drain")

Drain(t) ==
  /\ At(t, "drain") /\ UNCHANGED k
  /\ IF k.waiting[Call(t).on] # <<>> THEN Goto(t, "drain_one") ELSE Return(t)

\* Of an empty list the loop takes the list head for a thread: it writes and
\* reads the memory around the semaphore, which is no thread's.
DrainOne(t) ==
  LET o == Call(t).on IN
  /\ At(t, "drain_one")
  /\ k' = IF k.waiting[o] # <<>> THEN ResumeWithError(k, o) ELSE k
  /\ Goto(t, "drain")

-----------------------------------------------------------------------------
(***************************************************************************)
(* Timers of the application (timer.c).                                    *)
(***************************************************************************)
SetTime(t) ==
  /\ Calls(t, "set_time")
  /\ k' = [k EXCEPT !.init_tick[Call(t).on] = Call(t).arg]
  /\ Return(t)

StartTimer(t) ==
  /\ Calls(t, "start_timer")
  /\ k' = rt_timer_start(k, Call(t).on, k.init_tick[Call(t).on])
  /\ Return(t)

\* rt_timer_stop tests the flag before it disables interrupts.
StopTimer(t) ==
  /\ Calls(t, "stop_timer") /\ UNCHANGED k
  /\ IF Call(t).on \in k.activated THEN Goto(t, "stop_timer") ELSE Return(t)

StopTimerBody(t) ==
  /\ At(t, "stop_timer")
  /\ k' = rt_timer_detach(k, Call(t).on)
  /\ Return(t)

-----------------------------------------------------------------------------
(***************************************************************************)
(* The timer interrupt (board.c, clock.c): the tick, then the timers that  *)
(* are due one by one, then the return to a thread.                        *)
(***************************************************************************)
Tick ==
  /\ isr = "none" /\ isr' = "timers"
  /\ k' = TickOver(k)
  /\ UNCHANGED <<pc, calls>>

TimerIsDue == k.timers # <<>> /\ Due(k, Head(k.timers))

TimerExpires ==
  /\ isr = "timers" /\ TimerIsDue
  /\ k' = Expire(k, Head(k.timers))
  /\ UNCHANGED <<pc, calls, isr>>

TickReturns ==
  /\ isr = "timers" /\ ~TimerIsDue /\ isr' = "none"
  /\ k' = LeaveInterrupt(k)
  /\ UNCHANGED <<pc, calls>>

-----------------------------------------------------------------------------
ThreadStep(t) ==
  \/ Schedule(t) \/ CallSchedule(t) \/ Yield(t) \/ Sleep(t) \/ SleepReturn(t)
  \/ Suspend(t) \/ SuspendBody(t) \/ Resume(t) \/ ResumeFirst(t) \/ ResumeSecond(t)
  \/ Startup(t) \/ Exit(t) \/ SetPriority(t) \/ EnterCritical(t) \/ ExitCritical(t)
  \/ Detach(t) \/ DetachRemove(t) \/ DetachTimer(t) \/ DetachClose(t)
  \/ Take(t) \/ TakeReturn(t) \/ Poll(t) \/ SemRelease(t) \/ Reset(t)
  \/ SemDetach(t) \/ Drain(t) \/ DrainOne(t)
  \/ SetTime(t) \/ StartTimer(t) \/ StopTimer(t) \/ StopTimerBody(t)

\* The thread on the processor goes on.
RunThread == isr = "none" /\ ThreadStep(k.cpu)

Next == RunThread \/ Tick \/ TimerExpires \/ TickReturns

\* The tick comes again and again (Tick is the step of isr out of "none"), and
\* its handler returns (TickReturns is the step back; HandlerEnds bounds the way
\* there).  Between ticks the processor has time for the thread.
Fairness ==
  /\ WF_isr(isr = "none" /\ isr' = "timers")
  /\ WF_isr(isr = "timers" /\ isr' = "none")
  /\ SF_vars(RunThread)

Spec == Init /\ [][Next]_vars /\ Fairness

-----------------------------------------------------------------------------
TypeOK ==
  /\ k.ready \in [Priority -> Seq(Thread)] /\ k.waiting \in [WaitList -> Seq(Thread)]
  /\ k.group \subseteq Priority
  /\ k.stat \in [Thread -> {"init", "ready", "suspend", "close"}]
  /\ k.priority \in [Thread -> Priority]
  /\ k.remaining_tick \in [Thread -> Nat \ {0}]
  /\ k.error \in [Thread -> {"ok", "timeout", "error"}]
  /\ k.lock_nest \in Nat
  /\ {k.current, k.cpu} \subseteq Thread /\ k.saved \in [Thread -> Thread]
  /\ k.switch \in {<<>>} \cup Thread \X Thread
  /\ k.tick \in 0 .. TickMod - 1
  /\ k.timers \in Seq(Timer) /\ k.activated \subseteq Timer
  /\ k.timeout \in [Timer -> 0 .. TickMod - 1] /\ k.init_tick \in [UserTimer -> Nat]
  /\ k.value \in [Semaphore -> 0 .. ValueMax]
  /\ pc \in [Thread -> Label]
  /\ isr \in {"none", "timers"}

\* Thread u is between the parts of an rt_thread_detach.
Detaching(u) == \E t \in Thread : pc[t] \in {"detach_timer", "detach_close"} /\ Call(t).on = u

NoDuplicates(q) == IsInjective(q)

\* Between the parts of rt_thread_resume the thread stays suspended, of rt_thread_detach
\* it stays out of the ready queues, and what is started up is new (thread.c).
NobodyInterferes ==
  \A t \in Thread :
    /\ pc[t] \in {"resume_unlink", "resume_insert"} => k.stat[Call(t).on] = "suspend"
    /\ pc[t] = "detach_close" => \A p \in Priority : ~Contains(k.ready[p], Call(t).on)
    /\ Calls(t, "startup") => k.stat[Call(t).on] = "init"

\* While the scheduler is locked, the thread that runs neither waits nor suspends
\* itself nor ends: nobody could go on (scheduler.c).
NobodyBlocksLocked ==
  LET t == k.cpu IN
  isr = "none" /\ k.lock_nest > 0 =>
    /\ calls[t] # <<>> /\ Call(t).op # "sleep"
    /\ Calls(t, "take") => k.value[Call(t).on] > 0 \/ Call(t).arg = 0
    /\ Call(t).op = "suspend" => Call(t).on # t

\* The thread that rt_thread_suspend or rt_thread_resume acts on, after it has tested its state,
\* does not wait for a semaphore, and has not been detached in the middle of a call (thread.c).
WaitsUndisturbed ==
  \A t \in Thread :
    LET u == Call(t).on IN
    /\ pc[t] \in {"suspend_body", "resume_unlink"} => \A o \in Semaphore : ~Contains(k.waiting[o], u)
    /\ pc[t] = "suspend_body" => k.stat[u] # "close" \/ calls[u] = <<>>

\* What the threads of an application owe to the kernel's lists.
Orderly ==
  /\ NobodyInterferes
  /\ NobodyBlocksLocked
  /\ \A t \in Thread : pc[t] = "detach_timer" => \A p \in Priority : ~Contains(k.ready[p], Call(t).on)

\* What is asked of the calls of a program: that they name objects of the right kind, never
\* the idle thread, and keep to what rt_timer_start asserts of the time of a timer, which is
\* less than RT_TICK_MAX / 2 (timer.c), and of the value of a semaphore, which has 16 bits.
ProperCall(c) ==
  /\ c.op \in {"take", "poll", "release", "reset"} => c.on \in Semaphore
  /\ c.op = "sem_detach" => c.on \in WaitList
  /\ c.op \in {"suspend", "resume", "startup", "detach", "set_priority"} => c.on \in Thread \ {Idle}
  /\ c.op = "set_priority" => c.arg \in Priority
  /\ c.op = "sleep"    => c.arg \in 0 .. HalfTick - 1
  /\ c.op = "take"     => c.arg \in Int /\ c.arg < HalfTick
  /\ c.op = "set_time" => c.arg \in 1 .. HalfTick - 1
  /\ c.op = "start_timer" => c.on \in UserTimer
  /\ c.op = "reset"    => c.arg \in 0 .. ValueMax

\* The functions that leave it to their caller to ask the scheduler.
Leaves == {"suspend", "resume", "set_priority", "sem_detach"}

\* What the calls q of thread t owe to the scheduler: they ask it where one of these
\* functions may have changed who is the highest ("if suspend self thread, after this
\* function call, the rt_schedule() must be invoked", thread.c:709), and t does not detach itself.
Asks(t, q) ==
  \A i \in DOMAIN q :
    /\ q[i].op \in Leaves => i < Len(q) /\ q[i + 1].op = "schedule"
    /\ q[i].op = "detach" => q[i].on # t

\* A thread is in the ready queue of its priority exactly when its state says
\* so, in one list at most, and the bits from which the scheduler picks the
\* priority are those of the queues that have a thread; the timer of a thread
\* runs only while the thread is suspended (scheduler.c, thread.c).
ListsConsistent ==
  /\ Orderly /\ WaitsUndisturbed
  /\ k.group = {p \in Priority : k.ready[p] # <<>>}
  /\ \A p \in Priority : NoDuplicates(k.ready[p])
  /\ \A o \in Semaphore : NoDuplicates(k.waiting[o])
  /\ \A t \in Thread :
       /\ \A p \in Priority : Contains(k.ready[p], t) => k.stat[t] = "ready" /\ p = k.priority[t]
       /\ k.stat[t] = "ready" => Contains(k.ready[k.priority[t]], t) \/ Detaching(t)
       /\ \A o \in Semaphore : Contains(k.waiting[o], t) =>
            /\ k.stat[t] = "suspend"
            /\ pc[t] \in {"schedule", "return"} /\ Call(t).op = "take" /\ Call(t).on = o
       /\ t \in k.activated => k.stat[t] = "suspend"

\* Ticks until the interrupt in which timer x expires, across the wrap.
Left(x) == Since(k.timeout[x] + 1, k.tick)

\* The list of timers holds the active ones, first the first to expire; when
\* no interrupt is served none is overdue, also across the wrap (timer.c).
TimersConsistent ==
  /\ Range(k.timers) = k.activated /\ NoDuplicates(k.timers)
  /\ \A i, j \in DOMAIN k.timers : i < j => Left(k.timers[i]) <= Left(k.timers[j])
  /\ isr = "none" => \A x \in k.activated : Left(x) > 0

DueTimers(s) == {x \in Range(s.timers) : Due(s, x)}

\* Each round of rt_timer_check leaves fewer timers that are due, so the interrupt
\* ends; a periodic timer that is started again is not due at once (timer.c).
HandlerEnds ==
  [][isr = "timers" /\ isr' = "timers" => DueTimers(k') \subseteq DueTimers(k) \ {Head(k.timers)}]_vars

\* Outside interrupts the processor runs the thread that the scheduler says it
\* runs, and the stack of every other thread holds that thread's own registers,
\* however many switches one interrupt asked for (cpuport.c, context_gcc.S).
RunsOwnContext ==
  isr = "none" =>
    /\ k.cpu = k.current
    /\ \A t \in Thread \ {k.current} : k.saved[t] = t

\* Thread t is not about to ask for a switch.
Settled(t) == pc[t] \in {"user", "return"} /\ ~(calls[t] # <<>> /\ Call(t).op = "schedule")

\* A thread that goes on while the scheduler is not locked is the first of the
\* highest priority that is ready, whatever interrupts have made ready meanwhile
\* ("It will select one thread with the highest priority level", scheduler.c).
RunsHighest ==
  isr = "none" /\ k.lock_nest = 0 /\ Settled(k.current) => k.current = Highest(k)

\* A thread that sleeps, or waits for a token with a time limit, goes on: its
\* timer expires and the scheduler gives it its turn, also beside a thread of its
\* priority that never blocks (thread.c, clock.c).
TimedCallsReturn ==
  \A t \in Thread \ {Idle} : (t \in k.activated /\ pc[t] = "return") ~> (pc[t] = "user")

\* A closed thread is in no list from which it could run ("remove from
\* schedule", thread.c:322).
ClosedIsUnlinked ==
  \A t \in Thread : k.stat[t] = "close" => \A p \in Priority : ~Contains(k.ready[p], t)

\* "get next suspended thread" (ipc.c:174) finds one.
DrainFindsThread ==
  isr = "none" /\ At(k.cpu, "drain_one") => k.waiting[Call(k.cpu).on] # <<>>
=============================================================================
