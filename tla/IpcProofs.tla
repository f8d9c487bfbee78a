------------------------------ MODULE IpcProofs ------------------------------
(***************************************************************************)
(* Mailboxes, message queues, mutexes, events and memory pools (ipc.c,     *)
(* mempool.c), for all programs that call them with objects of the right   *)
(* kind: what is proved of the kernel holds in their midst, no block of a  *)
(* message queue or pool is lost, and mailboxes and message queues are the *)
(* bounded sequences of module Channel.                                    *)
(***************************************************************************)
EXTENDS MemPool, KernelProofs, FiniteSetTheorems

Users == Thread \ {Idle}

IpcProper(C) == Proper(C) /\ \A c \in C : IpcCall(c)

-----------------------------------------------------------------------------
(***************************************************************************)
(* What the objects do to the kernel.                                      *)
(***************************************************************************)
Sane(s) == QueuesOK(s) /\ TimersOK(s, {}, 1) /\ ListsOf(s, Users)

\* From s to u with the kernel as it should be, and nobody switched.
Safe(s, u) == Keeps(s, u) /\ Sane(u)

LEMMA SafeIsTransitive == ASSUME NEW s, NEW u, NEW v, Safe(s, u), Safe(u, v) PROVE Safe(s, v)
BY KeepsIsTransitive DEF Safe

LEMMA StaysSafe == ASSUME NEW s, Sane(s) PROVE Safe(s, s)
BY DEF Safe, Keeps, Sane, QueuesOK

LEMMA ErrorSafe == ASSUME NEW s, Sane(s), NEW t, NEW e PROVE Safe(s, [s EXCEPT !.error[t] = e])
<1> DEFINE u == [s EXCEPT !.error[t] = e]
<1>1. DOMAIN s = Fields BY DEF Sane, QueuesOK
<1>2. DOMAIN u = Fields /\ \A f \in Fields \ {"error"} : u[f] = s[f] BY <1>1 DEF Fields
<1> HIDE DEF u
<1>3. Keeps(s, u) BY <1>2 DEF Keeps, Fields, Processor
<1>4. QueuesOK(u)
  <2>1. SameQueues(s, u) BY <1>2 DEF SameQueues, QueueFields, Fields
  <2> QED BY <2>1, SameQueuesOK DEF Sane
<1>5. TimersOK(u, {}, 1)
  <2>1. SameTimers(s, u) BY <1>2 DEF SameTimers, TimerFields, Fields
  <2> QED BY <2>1, SameTimersOK DEF Sane
<1>6. ListsOf(u, Users) BY <1>2 DEF ListsOf, Sane, Fields
<1>7. Safe(s, u) BY <1>3, <1>4, <1>5, <1>6 DEF Safe, Sane
<1> QED BY <1>7 DEF u

LEMMA ResumeSafe == ASSUME NEW s, Sane(s), NEW t \in Thread PROVE Safe(s, rt_thread_resume(s, t))
<1>1. DOMAIN s = Fields BY DEF Sane, QueuesOK
<1> QED BY <1>1, Resumed, ResumedQueues, ResumePreserves, ResumeTyped DEF Safe, Sane, Preserves

LEMMA FirstIsUser ==
  ASSUME NEW s, Sane(s), NEW o \in WaitList, s.waiting[o] # <<>> PROVE Head(s.waiting[o]) \in Users
<1>1. s.waiting[o] \in Seq(Users) BY DEF Sane, ListsOf
<1> QED BY <1>1, HeadTailProperties

LEMMA WakeSafe ==
  ASSUME NEW s, Sane(s), NEW o \in WaitList
  PROVE  Safe(s, Wake(s, o)) /\ (s.waiting[o] # <<>> => Safe(s, rt_ipc_list_resume(s, o)))
<1>1. CASE s.waiting[o] # <<>>
  <2>1. Head(s.waiting[o]) \in Thread BY <1>1, FirstIsUser DEF Users
  <2> QED BY <1>1, <2>1, ResumeSafe DEF Wake, rt_ipc_list_resume
<1>2. CASE s.waiting[o] = <<>> BY <1>2, StaysSafe DEF Wake
<1> QED BY <1>1, <1>2

LEMMA AllSafe == ASSUME NEW s, Sane(s), NEW o \in WaitList PROVE Safe(s, ResumeAll(s, o))
<1>1. DOMAIN s = Fields BY DEF Sane, QueuesOK
<1> QED BY <1>1, AllResumed, AllQueues, AllPreserves DEF Safe, Sane, Preserves

LEMMA PrioritySafe ==
  ASSUME NEW s, Sane(s), NEW t \in Users, NEW p \in Priority PROVE Safe(s, ChangePriority(s, t, p))
<1>1. DOMAIN s = Fields BY DEF Sane, QueuesOK
<1>2. SameTimers(s, ChangePriority(s, t, p)) BY <1>1, PriorityPreserves
<1> QED BY <1>1, <1>2, PriorityChanged, PriorityQueues, SameTimersOK, ResumeTyped DEF Safe, Sane, Users

LEMMA BlockSafe ==
  ASSUME NEW s, Sane(s), NEW o \in WaitList, NEW t \in Users, NEW time \in -1 .. HalfTick - 1
  PROVE  Safe(s, Block(s, o, t, time))
<1>1. DOMAIN s = Fields BY DEF Sane, QueuesOK
<1>2. t \in Thread /\ t \in Thread \ {Idle} BY DEF Users
<1>3. time \in Int /\ time < HalfTick BY Ticks
<1> QED BY <1>1, <1>2, <1>3, Blocked, BlockedQueues, BlockPreserves, BlockTyped DEF Safe, Sane

\* The thread is put first in the list of a pool.
LEMMA BlockFirstSafe ==
  ASSUME NEW s, Sane(s), NEW o \in WaitList, NEW t \in Users, NEW time \in -1 .. HalfTick - 1
  PROVE  Safe(s, BlockFirst(s, o, t, time))
<1> DEFINE a == [s EXCEPT !.error[t] = "ok"]
           u == rt_thread_suspend(a, t)
           v == [u EXCEPT !.waiting[o] = <<t>> \o @]
<1>0. t \in Thread \ {Idle} /\ t \in Thread BY DEF Users
<1>1. BlockFirst(s, o, t, time) = IF time > 0 THEN rt_timer_start(v, t, time) ELSE v BY DEF BlockFirst
<1>2. Safe(s, a) BY ErrorSafe
<1> HIDE DEF a
<1>3. Safe(a, u)
  <2>1. Sane(a) /\ DOMAIN a = Fields BY <1>2 DEF Safe, Sane, QueuesOK
  <2> QED BY <1>0, <2>1, Suspended, SuspendedQueues, SuspendPreserves, ResumeTyped DEF Safe, Sane, Preserves
<1> HIDE DEF u
<1>4. Safe(u, v)
  <2>1. Sane(u) /\ DOMAIN u = Fields BY <1>3 DEF Safe, Sane, QueuesOK
  <2>2. DOMAIN v = Fields /\ v.waiting = [u.waiting EXCEPT ![o] = <<t>> \o @]
        /\ \A f \in Fields \ {"waiting"} : v[f] = u[f]
    BY <2>1 DEF Fields
  <2> HIDE DEF v
  <2>3. Keeps(u, v) BY <2>2 DEF Keeps, Fields, Processor
  <2>4. ListsOf(v, Users)
    <3>1. u.waiting \in [WaitList -> Seq(Users)] BY <2>1 DEF Sane, ListsOf
    <3>2. <<t>> \o u.waiting[o] \in Seq(Users) BY <3>1
    <3> QED BY <2>2, <3>1, <3>2 DEF ListsOf
  <2>5. TimersOK(v, {}, 1)
    <3>1. SameTimers(u, v) BY <2>2 DEF SameTimers, TimerFields, Fields
    <3> QED BY <2>1, <3>1, SameTimersOK DEF Sane
  <2>6. QueuesOK(v)
    <3>1. v.waiting \in [WaitList -> Seq(Thread)]
      <4>1. u.waiting \in [WaitList -> Seq(Thread)] BY <2>1 DEF Sane, QueuesOK
      <4>2. <<t>> \o u.waiting[o] \in Seq(Thread) BY <1>0, <4>1
      <4> QED BY <2>2, <4>1, <4>2
    <3>2. /\ v.ready = u.ready /\ v.group = u.group /\ v.stat = u.stat /\ v.priority = u.priority
      BY <2>2 DEF Fields
    <3> QED BY SMTT(30), <2>1, <2>2, <3>1, <3>2 DEF Sane, QueuesOK
  <2> QED BY <2>3, <2>4, <2>5, <2>6 DEF Safe, Sane
<1> HIDE DEF v
<1>5. ASSUME time > 0 PROVE Safe(v, rt_timer_start(v, t, time))
  <2> DEFINE w == rt_timer_start(v, t, time)
  <2>1. Sane(v) /\ DOMAIN v = Fields BY <1>4 DEF Safe, Sane, QueuesOK
  <2>2. time \in 0 .. HalfTick - 1 /\ t \in Timer /\ {} \in SUBSET {t} /\ 1 \in {0, 1}
    BY <1>0, <1>5, Ticks DEF Timer
  <2>3. TimersOK(w, {}, 1) BY <2>1, <2>2, StartedTimers DEF Sane
  <2>4. Keeps(v, w) BY <2>1, TimerStarted
  <2>5. SameQueues(v, w) BY <2>1, TimersLeaveQueues
  <2>6. Changes(v, w, TimerParts) BY <2>1, StartEffect
  <2>7. ListsOf(w, Users) BY <2>1, <2>6, SameLists DEF Sane, TimerParts
  <2> QED BY <2>1, <2>3, <2>4, <2>5, <2>7, SameQueuesOK DEF Safe, Sane
<1>6. Safe(s, v) BY <1>2, <1>3, <1>4, SafeIsTransitive
<1> QED BY <1>1, <1>5, <1>6, SafeIsTransitive

-----------------------------------------------------------------------------
(***************************************************************************)
(* The calls.                                                              *)
(***************************************************************************)
IpcLabel == {"wait", "retry", "fill", "link", "copy", "free"}

IpcFits(label, op) ==
  /\ label \in {"wait", "retry"} => op \in TimedCalls
  /\ label \in {"fill", "link"} => op \in {"mq_send", "mq_urgent"}
  /\ label \in {"copy", "free"} => op = "mq_recv"

CallersOK(C) ==
  /\ Engaged(C)
  /\ pc \in [Thread -> Label \cup IpcLabel]
  /\ \A t \in Thread : IpcFits(pc[t], Call(t).op)

LEMMA Labels == /\ Label \cap IpcLabel = {} /\ "user" \in Label /\ "schedule" \in Label /\ "drain" \in Label
                /\ "user" \notin IpcLabel /\ IpcLabel = {"wait", "retry", "fill", "link", "copy", "free"}
BY DEF Label, IpcLabel

IpcOps == {"mb_send", "mb_recv", "mb_reset", "mq_send", "mq_urgent", "mq_recv", "mq_reset",
           "mutex_take", "mutex_release", "event_send", "event_recv", "event_reset",
           "mp_alloc", "mp_free", "mp_detach"}

\* Who is in a call of these objects is not the idle thread.
LEMMA CallerIs ==
  ASSUME NEW C, IpcProper(C), CallersOK(C), NEW t \in Thread, calls[t] # <<>>
  PROVE  t \in Users /\ Call(t) \in C /\ IpcCall(Call(t)) /\ ProperCall(Call(t))
<1>1. calls[t] \in Seq(C) /\ calls[Idle] = <<>> BY DEF CallersOK, Engaged
<1>2. Head(calls[t]) \in C BY <1>1, HeadTailProperties
<1> QED BY <1>1, <1>2 DEF IpcProper, Proper, Call, Users

LEMMA InCall ==
  ASSUME NEW C, IpcProper(C), CallersOK(C), NEW t \in Thread, pc[t] # "user"
  PROVE  calls[t] # <<>> /\ t \in Users /\ IpcCall(Call(t)) /\ ProperCall(Call(t))
<1>1. calls[t] # <<>> BY DEF CallersOK, Engaged
<1> QED BY <1>1, CallerIs

\* A step of a call ends it or goes to a point that fits it.
LEMMA Moves ==
  ASSUME NEW t, IpcStep(t) \/ PoolStep(t)
  PROVE  /\ pc[t] # "user" \/ calls[t] # <<>>
         /\ pc[t] = "user" => Call(t).op \in IpcOps
         /\ pc[t] \in IpcLabel \cup {"user"}
         /\ \/ Return(t)
            \/ Goto(t, "schedule")
            \/ Goto(t, "drain") /\ Call(t).op = "mp_detach"
            \/ Goto(t, "wait") /\ (Call(t).op \in TimedCalls)
            \/ Goto(t, "retry") /\ pc[t] = "wait"
            \/ Goto(t, "fill") /\ Call(t).op \in {"mq_send", "mq_urgent"}
            \/ Goto(t, "link") /\ pc[t] = "fill"
            \/ Goto(t, "copy") /\ Call(t).op = "mq_recv"
            \/ Goto(t, "free") /\ pc[t] = "copy"
<1>1. CASE WaitSchedule(t) \/ WaitFails(t)
  BY <1>1 DEF WaitSchedule, WaitFails, Fail, At, IpcLabel
<1>2. CASE MbSend(t) \/ MbRecv(t) \/ MbReset(t)
  BY <1>2 DEF MbSend, MbRecv, MbReset, Tries, Calls, At, NoTime, WaitIn, WakeAndReturn, TimedCalls, IpcOps, IpcLabel
<1>3. CASE MqSend(t) \/ MqUrgent(t) \/ MqFill(t) \/ MqLink(t)
  BY <1>3 DEF MqSend, MqUrgent, MqFill, MqLink, Tries, Calls, At, NoTime, WaitIn, WakeAndReturn, TimedCalls, TakeFree,
              Fail, IpcOps, IpcLabel
<1>4. CASE MqRecv(t) \/ MqCopy(t) \/ MqFree(t) \/ MqReset(t)
  BY <1>4 DEF MqRecv, MqCopy, MqFree, MqReset, Tries, Calls, At, NoTime, WaitIn, WakeAndReturn, TimedCalls,
              IpcOps, IpcLabel
<1>5. CASE MutexTake(t) \/ MutexTaken(t) \/ MutexRelease(t)
  BY <1>5 DEF MutexTake, MutexTaken, MutexRelease, Calls, At, TimedCalls, IpcOps, IpcLabel
<1>6. CASE EventSend(t) \/ EventRecv(t) \/ EventReceived(t) \/ EventReset(t)
  BY <1>6 DEF EventSend, EventRecv, EventReceived, EventReset, Calls, At, TimedCalls, Fail, IpcOps, IpcLabel
<1>7. CASE PoolStep(t)
  BY <1>7 DEF PoolStep, MpAlloc, MpFails, MpFree, MpDetach, MpWait, Tries, Calls, At, NoTime, WakeAndReturn,
              TimedCalls, Fail, IpcOps, IpcLabel
<1> QED BY <1>1, <1>2, <1>3, <1>4, <1>5, <1>6, <1>7 DEF IpcStep

LEMMA ReturnEngages ==
  ASSUME NEW C, CallersOK(C), NEW t \in Thread, calls[t] # <<>>, Return(t) PROVE CallersOK(C)'
<1>1. calls[t] \in Seq(C) BY DEF CallersOK, Engaged
<1>2. Tail(calls[t]) \in Seq(C) /\ Idle \in Thread BY <1>1, HeadTailProperties, SchedAssumption
<1>3. calls' \in [Thread -> Seq(C)] /\ calls'[Idle] = <<>> BY <1>2 DEF Return, CallersOK, Engaged
<1>4. pc' \in [Thread -> Label \cup IpcLabel] BY Labels DEF Return, CallersOK
<1>5. \A u \in Thread : pc'[u] = IF u = t THEN "user" ELSE pc[u] BY DEF Return, CallersOK
<1>6. \A u \in Thread : u # t => calls'[u] = calls[u] /\ Call(u)' = Call(u)
  BY DEF Return, CallersOK, Engaged, Call
<1>7. IpcFits("user", Call(t)'.op) BY DEF IpcFits
<1>8. \A u \in Thread : IpcFits(pc'[u], Call(u)'.op)
  <2> SUFFICES ASSUME NEW u \in Thread PROVE IpcFits(pc'[u], Call(u)'.op) OBVIOUS
  <2>1. CASE u = t BY <1>5, <1>7, <2>1
  <2>2. CASE u # t BY <1>5, <1>6, <2>2 DEF CallersOK
  <2> QED BY <2>1, <2>2
<1>9. Engaged(C)' BY <1>3, <1>5, <1>6 DEF CallersOK, Engaged
<1> QED BY <1>4, <1>8, <1>9 DEF CallersOK

LEMMA GotoEngages ==
  ASSUME NEW C, CallersOK(C), NEW t \in Thread, calls[t] # <<>>, NEW l \in Label \cup IpcLabel, Goto(t, l),
         IpcFits(l, Call(t).op),
         IF l \in {"drain", "drain_one"} THEN Call(t).on \in WaitList ELSE Fits(l, Call(t).op)
  PROVE  CallersOK(C)'
<1>1. calls' = calls /\ \A u \in Thread : Call(u)' = Call(u) BY DEF Goto, Call
<1>2. pc' \in [Thread -> Label \cup IpcLabel] BY DEF Goto, CallersOK
<1>3. \A u \in Thread : pc'[u] = IF u = t THEN l ELSE pc[u] BY DEF Goto, CallersOK
<1>4. \A u \in Thread : IpcFits(pc'[u], Call(u)'.op)
  BY <1>1, <1>3 DEF CallersOK
<1>5. Engaged(C)' BY <1>1, <1>3 DEF CallersOK, Engaged
<1> QED BY <1>2, <1>4, <1>5 DEF CallersOK

LEMMA CallersInit == ASSUME NEW C, IpcProper(C), Init PROVE CallersOK(C)
<1>1. pc = [t \in Thread |-> "user"] /\ \A t \in Thread : pc[t] = "user" BY DEF Init
<1>2. calls \in [Thread -> Seq(C)] /\ calls[Idle] = <<>> BY DEF IpcProper, Proper, Init
<1>3. pc \in [Thread -> Label \cup IpcLabel] BY <1>1, Labels
<1> QED BY <1>1, <1>2, <1>3 DEF CallersOK, Engaged, IpcFits

LEMMA IpcKeepsCallers ==
  ASSUME NEW C, IpcProper(C), CallersOK(C), NEW t \in Thread, IpcStep(t) \/ PoolStep(t)
  PROVE  CallersOK(C)' /\ isr' = isr /\ t \in Users /\ calls[t] # <<>> /\ IpcCall(Call(t))
<1>1. calls[t] # <<>> BY Moves DEF CallersOK, Engaged
<1>2. t \in Users /\ IpcCall(Call(t)) BY <1>1, CallerIs
<1>3. IpcFits(pc[t], Call(t).op) BY DEF CallersOK
<1>4. isr' = isr BY Moves DEF Return, Goto
<1>5. CASE Return(t) BY <1>1, <1>2, <1>4, <1>5, ReturnEngages
<1>6. CASE ~Return(t)
  <2> DEFINE Target(l) == /\ l \in Label \cup IpcLabel /\ Goto(t, l) /\ IpcFits(l, Call(t).op)
                          /\ IF l \in {"drain", "drain_one"} THEN Call(t).on \in WaitList ELSE Fits(l, Call(t).op)
  <2>1. Goto(t, "schedule") => Target("schedule") BY Labels DEF IpcFits, Fits
  <2>2. Goto(t, "drain") /\ Call(t).op = "mp_detach" => Target("drain")
    BY <1>2, Labels, PoolAssumption DEF IpcFits, IpcCall, WaitList
  <2>3. Goto(t, "wait") /\ Call(t).op \in TimedCalls => Target("wait") BY Labels DEF IpcFits, Fits
  <2>4. Goto(t, "retry") /\ pc[t] = "wait" => Target("retry") BY <1>3, Labels DEF IpcFits, Fits
  <2>5. Goto(t, "fill") /\ Call(t).op \in {"mq_send", "mq_urgent"} => Target("fill") BY Labels DEF IpcFits, Fits
  <2>6. Goto(t, "link") /\ pc[t] = "fill" => Target("link") BY <1>3, Labels DEF IpcFits, Fits
  <2>7. Goto(t, "copy") /\ Call(t).op = "mq_recv" => Target("copy") BY Labels DEF IpcFits, Fits
  <2>8. Goto(t, "free") /\ pc[t] = "copy" => Target("free") BY <1>3, Labels DEF IpcFits, Fits
  <2> HIDE DEF Target
  <2>9. \E l : Target(l) BY <1>6, <2>1, <2>2, <2>3, <2>4, <2>5, <2>6, <2>7, <2>8, Moves
  <2>10. CallersOK(C)' BY <1>1, <2>9, GotoEngages DEF Target
  <2> QED BY <1>1, <1>2, <1>4, <2>10
<1> QED BY <1>5, <1>6

\* A thread that calls the kernel itself is in none of these calls.
LEMMA ThreadMoves ==
  ASSUME NEW C, IpcProper(C), CallersOK(C), NEW t \in Thread, ThreadStep(t)
  PROVE  CallersOK(C)' /\ isr' = isr /\ pc[t] \in Label /\ pc'[t] \in Label
         /\ \A u \in Thread \ {t} : pc'[u] = pc[u] /\ Call(u)' = Call(u) /\ calls'[u] = calls[u]
<1>1. pc[t] \in Label
  BY Labels DEF ThreadStep, Schedule, CallSchedule, Yield, Sleep, SleepReturn, Suspend, SuspendBody, Resume,
       ResumeFirst, ResumeSecond, Startup, Exit, SetPriority, EnterCritical, ExitCritical, Detach,
       DetachRemove, DetachTimer, DetachClose, Take, TakeReturn, Poll, SemRelease, Reset, SemDetach,
       Drain, DrainOne, SetTime, StartTimer, StopTimer, StopTimerBody, Calls, At, Label
<1>2. \/ Stay(t)
      \/ calls[t] # <<>> /\ Return(t)
      \/ calls[t] # <<>> /\ \E l \in Label : /\ Goto(t, l)
             /\ IF l \in {"drain", "drain_one"} THEN Call(t).on \in WaitList ELSE Fits(l, Call(t).op)
  <2>1. CASE pc[t] \in {"drain", "drain_one"}
    <3>1. Drain(t) \/ DrainOne(t)
      BY <2>1 DEF ThreadStep, Schedule, CallSchedule, Yield, Sleep, SleepReturn, Suspend, SuspendBody, Resume,
         ResumeFirst, ResumeSecond, Startup, Exit, SetPriority, EnterCritical, ExitCritical, Detach,
         DetachRemove, DetachTimer, DetachClose, Take, TakeReturn, Poll, SemRelease, Reset, SemDetach,
         SetTime, StartTimer, StopTimer, StopTimerBody, Calls, At
    <3>2. calls[t] # <<>> /\ Call(t).on \in WaitList BY <2>1 DEF CallersOK, Engaged
    <3>3. "drain" \in Label /\ "drain_one" \in Label BY DEF Label
    <3> QED BY <3>1, <3>2, <3>3 DEF Drain, DrainOne
  <2>2. CASE pc[t] \notin {"drain", "drain_one"}
    <3>1. pc[t] # "user" => Fits(pc[t], Call(t).op) /\ calls[t] # <<>> BY <2>2 DEF CallersOK, Engaged
    <3>2. ASSUME calls[t] # <<>>, NEW l \in Label, Goto(t, l), Fits(l, Call(t).op)
          PROVE  IF l \in {"drain", "drain_one"} THEN Call(t).on \in WaitList ELSE Fits(l, Call(t).op)
      <4>1. ProperCall(Call(t)) BY <3>2, CallerIs
      <4> QED BY <3>2, <4>1 DEF ProperCall, Fits
    <3> QED BY <3>1, <3>2, CallEffect
  <2> QED BY <2>1, <2>2
<1>3. CASE Stay(t)
  BY <1>1, <1>3 DEF Stay, CallersOK, Engaged, Call
<1>4. CASE calls[t] # <<>> /\ Return(t)
  BY <1>1, <1>4, ReturnEngages, Labels DEF Return, CallersOK, Engaged, Call
<1>5. ASSUME calls[t] # <<>>, NEW l \in Label, Goto(t, l),
             IF l \in {"drain", "drain_one"} THEN Call(t).on \in WaitList ELSE Fits(l, Call(t).op)
      PROVE  CallersOK(C)' /\ isr' = isr /\ pc[t] \in Label /\ pc'[t] \in Label
             /\ \A u \in Thread \ {t} : pc'[u] = pc[u] /\ Call(u)' = Call(u) /\ calls'[u] = calls[u]
  <2>1. IpcFits(l, Call(t).op) BY <1>5, Labels DEF IpcFits, IpcLabel
  <2>2. CallersOK(C)' BY <1>5, <2>1, GotoEngages
  <2> QED BY <1>1, <1>5, <2>2 DEF Goto, CallersOK, Call
<1> QED BY <1>2, <1>3, <1>4, <1>5

-----------------------------------------------------------------------------
(***************************************************************************)
(* Linked lists of blocks: list s begins with first and goes on by next.   *)
(***************************************************************************)
Linked(next, first, s) ==
  /\ first = IF s = <<>> THEN Block0 ELSE s[1]
  /\ \A i \in 1 .. Len(s) : next[s[i]] = IF i = Len(s) THEN Block0 ELSE s[i + 1]

\* Follow returns the list, as long as it is given room for it.
LEMMA FollowIs ==
  ASSUME NEW n \in Nat, NEW next, NEW first, NEW s \in Seq(Nat \ {0}), Len(s) <= n, Linked(next, first, s)
  PROVE  Follow(next, n, first) = s
<1> DEFINE Step(at, i) == IF i = 0 THEN first ELSE IF at[i - 1] = Block0 THEN Block0 ELSE next[at[i - 1]]
           Run(at) == at = [i \in 0 .. n |-> Step(at, i)]
           g == [i \in 0 .. n |-> IF i < Len(s) THEN s[i + 1] ELSE Block0]
           at == CHOOSE at : Run(at)
           Ends(f, i) == (i = n \/ f[i] = Block0) /\ \A j \in 0 .. i - 1 : f[j] # Block0
           length == CHOOSE i \in 0 .. n : Ends(at, i)
<1>0. Len(s) \in Nat /\ \A i \in 1 .. Len(s) : s[i] # Block0
  BY DEF Block0
<1>1. Follow(next, n, first) = [i \in 1 .. length |-> at[i - 1]] BY DEF Follow
<1>2. \A i \in 0 .. n : g[i] = Step(g, i)
  <2> SUFFICES ASSUME NEW i \in 0 .. n PROVE g[i] = Step(g, i) OBVIOUS
  <2>1. CASE i = 0
    <3>1. CASE s = <<>> BY <1>0, <2>1, <3>1 DEF Linked
    <3>2. CASE s # <<>>
      <4>1. Len(s) > 0 BY <1>0, <3>2, EmptySeq
      <4> QED BY <1>0, <2>1, <3>2, <4>1 DEF Linked
    <3> QED BY <3>1, <3>2
  <2>2. CASE i > 0 /\ i - 1 >= Len(s)
    <3>1. g[i] = Block0 /\ g[i - 1] = Block0 BY <1>0, <2>2
    <3> HIDE DEF g
    <3> QED BY <2>2, <3>1
  <2>3. CASE i > 0 /\ i - 1 < Len(s)
    <3>1. g[i - 1] = s[i] /\ s[i] # Block0 BY <1>0, <2>3
    <3>2. next[s[i]] = IF i = Len(s) THEN Block0 ELSE s[i + 1] BY <1>0, <2>3 DEF Linked
    <3>3. g[i] = IF i = Len(s) THEN Block0 ELSE s[i + 1] BY <1>0, <2>3
    <3> HIDE DEF g
    <3> QED BY <2>3, <3>1, <3>2, <3>3
  <2> QED BY <1>0, <2>1, <2>2, <2>3
<1>3. Run(g)
  <2>1. g = [i \in 0 .. n |-> g[i]] OBVIOUS
  <2> HIDE DEF g, Step
  <2> QED BY <1>2, <2>1
<1>4. Run(at)
  <2> HIDE DEF Run, g
  <2> QED BY <1>3
<1> HIDE DEF at
<1>5. \A i \in 0 .. n : at[i] = Step(at, i)
  <2> HIDE DEF Step
  <2> QED BY <1>4
<1> DEFINE S == {i \in 0 .. n : at[i] = g[i]}
<1>6. 0 \in S
  <2>1. 0 \in 0 .. n OBVIOUS
  <2>2. at[0] = first /\ g[0] = first
    <3> HIDE DEF g
    <3> QED BY <1>2, <1>5, <2>1
  <2> QED BY <2>1, <2>2
<1>7. ASSUME NEW i \in 0 .. n - 1, i \in S PROVE i + 1 \in S
  <2>1. i + 1 \in 0 .. n /\ i + 1 # 0 /\ (i + 1) - 1 = i BY <1>7
  <2>2. at[i + 1] = Step(at, i + 1) /\ g[i + 1] = Step(g, i + 1) BY <1>2, <1>5, <2>1
  <2>3. at[i] = g[i] BY <1>7
  <2> HIDE DEF g
  <2> QED BY <2>1, <2>2, <2>3
<1>8. \A i \in 0 .. n : at[i] = IF i < Len(s) THEN s[i + 1] ELSE Block0
  <2>1. \A i \in 0 .. n : at[i] = g[i]
    <3> HIDE DEF S
    <3>1. 0 .. n \subseteq S BY <1>6, <1>7, UpTo
    <3> QED BY <3>1 DEF S
  <2> QED BY <2>1
<1>9. length = Len(s)
  <2>1. Len(s) \in 0 .. n BY <1>0
  <2>2. Ends(at, Len(s))
    <3>1. Len(s) # n => at[Len(s)] = Block0 BY <1>0, <1>8, <2>1
    <3>2. \A j \in 0 .. Len(s) - 1 : j \in 0 .. n /\ j < Len(s) /\ j + 1 \in 1 .. Len(s) BY <1>0
    <3>3. \A j \in 0 .. Len(s) - 1 : at[j] # Block0 BY <1>0, <1>8, <3>2
    <3> QED BY <3>1, <3>3
  <2>3. ASSUME NEW i \in 0 .. n, Ends(at, i) PROVE i = Len(s)
    <3>1. CASE i < Len(s)
      <4>1. at[i] = s[i + 1] /\ i # n BY <1>0, <1>8, <3>1
      <4> QED BY <1>0, <2>3, <3>1, <4>1
    <3>2. CASE i > Len(s)
      <4>1. Len(s) \in 0 .. i - 1 /\ at[Len(s)] = Block0 BY <1>0, <1>8, <3>2
      <4> QED BY <2>3, <4>1
    <3> QED BY <1>0, <3>1, <3>2
  <2> HIDE DEF Ends
  <2>4. length \in 0 .. n /\ Ends(at, length) BY <2>1, <2>2
  <2> QED BY <2>3, <2>4
<1> HIDE DEF length
<1>10. \A i \in 1 .. Len(s) : at[i - 1] = s[i] BY <1>0, <1>8
<1>11. s = [i \in 1 .. Len(s) |-> s[i]] OBVIOUS
<1> QED BY <1>1, <1>9, <1>10, <1>11

\* A list stays what it is when its blocks stay linked as they are.
LEMMA LinkedElsewhere ==
  ASSUME NEW S, NEW s \in Seq(S), NEW next, NEW first, Linked(next, first, s), NEW other,
         \A m \in Range(s) : other[m] = next[m]
  PROVE  Linked(other, first, s)
<1>1. \A i \in 1 .. Len(s) : s[i] \in Range(s) BY DEF Range
<1> QED BY <1>1 DEF Linked

\* The blocks 1 .. n are in the queue, in the free list or in H.
Parts(n, H, Q, F) ==
  /\ Q \in Seq(1 .. n) /\ F \in Seq(1 .. n) /\ NoDuplicates(Q) /\ NoDuplicates(F)
  /\ Range(Q) \cap Range(F) = {} /\ Range(Q) \cap H = {} /\ Range(F) \cap H = {}
  /\ Range(Q) \cup Range(F) \cup H = 1 .. n

LEMMA TailIs ==
  ASSUME NEW S, NEW s \in Seq(S), s # <<>>, NoDuplicates(s)
  PROVE  /\ s[1] \in S /\ s[1] \in Range(s) /\ Len(s) \in Nat \ {0} /\ Head(s) = s[1]
         /\ Tail(s) \in Seq(S) /\ NoDuplicates(Tail(s)) /\ Len(Tail(s)) = Len(s) - 1
         /\ Range(Tail(s)) = Range(s) \ {s[1]}
         /\ \A i \in 1 .. Len(s) - 1 : Tail(s)[i] = s[i + 1]
<1> DEFINE r == Tail(s)
<1>1. r \in Seq(S) /\ Len(r) = Len(s) - 1 /\ \A i \in 1 .. Len(s) - 1 : r[i] = s[i + 1]
  BY HeadTailProperties
<1>2. Len(s) \in Nat \ {0} /\ DOMAIN s = 1 .. Len(s) BY EmptySeq
<1> HIDE DEF r
<1>3. DOMAIN r = 1 .. Len(s) - 1 BY <1>1
<1>4. s[1] \in S /\ s[1] \in Range(s) BY <1>2 DEF Range
<1>5. NoDuplicates(r) BY <1>1, <1>2, <1>3 DEF NoDuplicates, IsInjective
<1>6. \A i, j \in 1 .. Len(s) : s[i] = s[j] => i = j BY <1>2 DEF NoDuplicates, IsInjective
<1>7. Range(r) = Range(s) \ {s[1]}
  <2>1. ASSUME NEW x \in Range(r) PROVE x \in Range(s) \ {s[1]}
    <3>1. PICK i \in 1 .. Len(s) - 1 : x = s[i + 1] BY <1>1, <1>3, <2>1 DEF Range
    <3>2. i + 1 \in 1 .. Len(s) /\ i + 1 # 1 /\ 1 \in 1 .. Len(s) BY <1>2, <3>1
    <3> QED BY <1>2, <1>6, <3>1, <3>2 DEF Range
  <2>2. ASSUME NEW x \in Range(s), x # s[1] PROVE x \in Range(r)
    <3>1. PICK i \in 1 .. Len(s) : x = s[i] BY <1>2, <2>2 DEF Range
    <3>2. i - 1 \in 1 .. Len(s) - 1 /\ (i - 1) + 1 = i BY <1>2, <2>2, <3>1
    <3> QED BY <1>1, <1>3, <3>1, <3>2 DEF Range
  <2> QED BY <2>1, <2>2
<1>8. Head(s) = s[1] BY <1>2
<1> QED BY <1>1, <1>2, <1>4, <1>5, <1>7, <1>8 DEF r

LEMMA PushIs ==
  ASSUME NEW S, NEW s \in Seq(S), NoDuplicates(s), NEW m \in S, m \notin Range(s)
  PROVE  LET r == <<m>> \o s IN
         /\ r \in Seq(S) /\ NoDuplicates(r) /\ Len(r) = Len(s) + 1 /\ r # <<>>
         /\ Range(r) = Range(s) \cup {m}
         /\ \A i \in 1 .. Len(s) + 1 : r[i] = IF i = 1 THEN m ELSE s[i - 1]
<1> DEFINE r == <<m>> \o s
<1>0. Len(s) \in Nat /\ DOMAIN s = 1 .. Len(s) OBVIOUS
<1>1. r \in Seq(S) /\ Len(r) = Len(s) + 1 /\ \A i \in 1 .. Len(s) + 1 : r[i] = IF i = 1 THEN m ELSE s[i - 1]
  <2>1. <<m>> \in Seq(S) /\ Len(<<m>>) = 1 /\ <<m>>[1] = m OBVIOUS
  <2>2. /\ r \in Seq(S) /\ Len(r) = 1 + Len(s)
        /\ \A i \in 1 .. 1 + Len(s) : r[i] = IF i <= 1 THEN <<m>>[i] ELSE s[i - 1]
    BY <2>1, ConcatProperties
  <2> HIDE DEF r
  <2> QED BY <1>0, <2>1, <2>2
<1> HIDE DEF r
<1>2. DOMAIN r = 1 .. Len(s) + 1 BY <1>1
<1>3. r # <<>>
  <2>1. Len(r) > 0 BY <1>0, <1>1
  <2> QED BY <1>1, <2>1, EmptySeq
<1>4. Range(r) = Range(s) \cup {m}
  <2>1. m \in Range(r)
    <3>1. 1 \in 1 .. Len(s) + 1 /\ r[1] = m BY <1>0, <1>1
    <3> QED BY <1>2, <3>1 DEF Range
  <2>2. ASSUME NEW x \in Range(s) PROVE x \in Range(r)
    <3>1. PICK i \in 1 .. Len(s) : x = s[i] BY <1>0, <2>2 DEF Range
    <3>2. i + 1 \in 1 .. Len(s) + 1 /\ r[i + 1] = s[i] BY <1>0, <1>1, <3>1
    <3> QED BY <1>2, <3>1, <3>2 DEF Range
  <2>3. ASSUME NEW x \in Range(r), x # m PROVE x \in Range(s)
    <3>1. PICK i \in 1 .. Len(s) + 1 : x = r[i] BY <1>2, <2>3 DEF Range
    <3>2. i - 1 \in 1 .. Len(s) /\ r[i] = s[i - 1] BY <1>0, <1>1, <2>3, <3>1
    <3> QED BY <1>0, <3>1, <3>2 DEF Range
  <2> QED BY <2>1, <2>2, <2>3
<1>5. NoDuplicates(r)
  <2>1. \A i \in 1 .. Len(s) : s[i] # m BY <1>0 DEF Range
  <2>2. \A i, j \in 1 .. Len(s) : s[i] = s[j] => i = j BY <1>0 DEF NoDuplicates, IsInjective
  <2>3. ASSUME NEW i \in 1 .. Len(s) + 1, NEW j \in 1 .. Len(s) + 1, r[i] = r[j] PROVE i = j
    <3>1. CASE i = 1 /\ j # 1
      <4>1. j - 1 \in 1 .. Len(s) /\ r[j] = s[j - 1] /\ r[i] = m BY <1>0, <1>1, <3>1
      <4> QED BY <2>1, <2>3, <4>1
    <3>2. CASE i # 1 /\ j = 1
      <4>1. i - 1 \in 1 .. Len(s) /\ r[i] = s[i - 1] /\ r[j] = m BY <1>0, <1>1, <3>2
      <4> QED BY <2>1, <2>3, <4>1
    <3>4. CASE i = 1 /\ j = 1 BY <3>4
    <3>3. CASE i # 1 /\ j # 1
      <4>1. i - 1 \in 1 .. Len(s) /\ r[i] = s[i - 1] /\ j - 1 \in 1 .. Len(s) /\ r[j] = s[j - 1]
        BY <1>0, <1>1, <3>3
      <4>2. i - 1 = j - 1 BY <2>2, <2>3, <4>1
      <4> QED BY <4>2
    <3> QED BY <3>1, <3>2, <3>3, <3>4
  <2> QED BY <1>2, <2>3 DEF NoDuplicates, IsInjective
<1> QED BY <1>1, <1>3, <1>4, <1>5 DEF r

\* The first block leaves a list.
LEMMA LinkedTail ==
  ASSUME NEW S, NEW s \in Seq(S), s # <<>>, NoDuplicates(s), NEW next, NEW first, Linked(next, first, s)
  PROVE  Linked(next, next[s[1]], Tail(s))
<1> DEFINE r == Tail(s)
<1>1. /\ Len(s) \in Nat \ {0} /\ r \in Seq(S) /\ Len(r) = Len(s) - 1
      /\ \A i \in 1 .. Len(s) - 1 : r[i] = s[i + 1]
  BY TailIs
<1> HIDE DEF r
<1>2. next[s[1]] = IF Len(s) = 1 THEN Block0 ELSE s[2] BY <1>1 DEF Linked
<1>3. r = <<>> <=> Len(s) = 1 BY <1>1, EmptySeq
<1>4. r # <<>> => r[1] = s[2] BY <1>1, <1>3
<1>5. ASSUME NEW i \in 1 .. Len(r) PROVE next[r[i]] = IF i = Len(r) THEN Block0 ELSE r[i + 1]
  <2>1. i + 1 \in 1 .. Len(s) /\ r[i] = s[i + 1] BY <1>1, <1>5
  <2>2. next[s[i + 1]] = IF i + 1 = Len(s) THEN Block0 ELSE s[(i + 1) + 1] BY <2>1 DEF Linked
  <2>3. i # Len(r) => r[i + 1] = s[(i + 1) + 1] BY <1>1, <1>5
  <2> QED BY <1>1, <1>5, <2>1, <2>2, <2>3
<1> QED BY <1>2, <1>3, <1>4, <1>5 DEF r, Linked

\* A block is put in front of a list.
LEMMA LinkedPush ==
  ASSUME NEW S, NEW s \in Seq(S), NoDuplicates(s), NEW next, NEW first, Linked(next, first, s),
         NEW m \in S, m \notin Range(s), NEW other, other[m] = first, \A x \in Range(s) : other[x] = next[x]
  PROVE  Linked(other, m, <<m>> \o s)
<1> DEFINE r == <<m>> \o s
<1>0. Len(s) \in Nat OBVIOUS
<1>1. Len(r) = Len(s) + 1 /\ r # <<>> /\ \A i \in 1 .. Len(s) + 1 : r[i] = IF i = 1 THEN m ELSE s[i - 1]
  BY PushIs
<1> HIDE DEF r
<1>2. Linked(other, first, s) BY LinkedElsewhere
<1>3. r[1] = m BY <1>0, <1>1
<1>4. ASSUME NEW i \in 1 .. Len(r) PROVE other[r[i]] = IF i = Len(r) THEN Block0 ELSE r[i + 1]
  <2>1. CASE i = 1 /\ s = <<>> BY <1>0, <1>1, <1>2, <1>3, <2>1 DEF Linked
  <2>2. CASE i = 1 /\ s # <<>>
    <3>1. Len(s) > 0 BY <1>0, <2>2, EmptySeq
    <3>2. r[2] = s[1] /\ first = s[1] BY <1>0, <1>1, <1>2, <2>2, <3>1 DEF Linked
    <3> QED BY <1>0, <1>1, <1>3, <2>2, <3>1, <3>2
  <2>3. CASE i # 1
    <3>1. i - 1 \in 1 .. Len(s) /\ r[i] = s[i - 1] BY <1>0, <1>1, <1>4, <2>3
    <3>2. other[s[i - 1]] = IF i - 1 = Len(s) THEN Block0 ELSE s[(i - 1) + 1] BY <1>2, <3>1 DEF Linked
    <3>3. i # Len(r) => r[i + 1] = s[(i - 1) + 1] BY <1>0, <1>1, <1>4, <2>3
    <3> QED BY <1>0, <1>1, <3>1, <3>2, <3>3
  <2> QED BY <2>1, <2>2, <2>3
<1> QED BY <1>1, <1>3, <1>4 DEF r, Linked

\* A block is linked behind the last one of a list.
LEMMA LinkedAppend ==
  ASSUME NEW S, NEW s \in Seq(S), NoDuplicates(s), NEW next, NEW first, Linked(next, first, s),
         NEW m \in S, m \notin Range(s), NEW other, other[m] = Block0,
         \A x \in Range(s) : other[x] = IF x = s[Len(s)] THEN m ELSE next[x]
  PROVE  Linked(other, IF s = <<>> THEN m ELSE first, Append(s, m))
<1> DEFINE r == Append(s, m)
<1>00. Len(s) \in Nat OBVIOUS
<1>0. Len(s) \in Nat /\ DOMAIN s = 1 .. Len(s) OBVIOUS
<1>1. Len(r) = Len(s) + 1 /\ r # <<>> /\ (\A i \in 1 .. Len(s) : r[i] = s[i]) /\ r[Len(s) + 1] = m
  BY AppendProperties
<1> HIDE DEF r
<1>2. r[1] = IF s = <<>> THEN m ELSE first
  <2>1. CASE s = <<>> BY <1>1, <2>1
  <2>2. CASE s # <<>>
    <3>1. 1 \in 1 .. Len(s) BY <1>0, <2>2, EmptySeq
    <3> QED BY <1>1, <2>2, <3>1 DEF Linked
  <2> QED BY <2>1, <2>2
<1>3. ASSUME NEW i \in 1 .. Len(r) PROVE other[r[i]] = IF i = Len(r) THEN Block0 ELSE r[i + 1]
  <2>1. CASE i = Len(r) BY <1>1, <2>1
  <2>2. CASE i = Len(s)
    <3>1. r[i] = s[Len(s)] /\ s[Len(s)] \in Range(s) /\ r[i + 1] = m /\ i # Len(r)
      <4>1. i \in 1 .. Len(s) /\ i # Len(r) /\ r[i + 1] = m
        <5>1. i \in 1 .. Len(s) + 1 BY <1>1, <1>3
        <5>2. i \in 1 .. Len(s) /\ i # Len(s) + 1 BY <1>00, <2>2, <5>1
        <5> QED BY <1>1, <2>2, <5>2
      <4>2. r[i] = s[i] /\ s[i] \in Range(s) BY <1>0, <1>1, <4>1 DEF Range
      <4> QED BY <2>2, <4>1, <4>2
    <3> QED BY <3>1
  <2>3. CASE i < Len(s)
    <3>1. i \in 1 .. Len(s) /\ i + 1 \in 1 .. Len(s) /\ i # Len(r) BY <1>0, <1>1, <1>3, <2>3
    <3>2. r[i] = s[i] /\ r[i + 1] = s[i + 1] /\ next[s[i]] = s[i + 1]
      BY <1>1, <2>3, <3>1 DEF Linked
    <3>3. s[i] \in Range(s) /\ s[i] # s[Len(s)]
      BY <1>0, <2>3, <3>1 DEF Range, NoDuplicates, IsInjective
    <3> QED BY <3>1, <3>2, <3>3
  <2>4. i \in 1 .. Len(s) + 1 BY <1>1, <1>3
  <2>5. i = Len(s) + 1 \/ i = Len(s) \/ i < Len(s) BY <1>00, <2>4
  <2> QED BY <1>1, <2>1, <2>2, <2>3, <2>5
<1> QED BY <1>1, <1>2, <1>3 DEF r, Linked

LEMMA CountTo == ASSUME NEW n \in Nat PROVE IsFiniteSet(1 .. n) /\ Cardinality(1 .. n) = n
BY FS_Interval

LEMMA Sizes ==
  ASSUME NEW n \in Nat, NEW s \in Seq(1 .. n), NoDuplicates(s)
  PROVE  IsFiniteSet(Range(s)) /\ Cardinality(Range(s)) = Len(s) /\ Len(s) <= n
<1>00. Len(s) \in Nat OBVIOUS
<1>0. Len(s) \in Nat /\ DOMAIN s = 1 .. Len(s) OBVIOUS
<1>1. IsFiniteSet(1 .. Len(s)) /\ Cardinality(1 .. Len(s)) = Len(s) BY <1>00, CountTo
<1>2. IsFiniteSet(1 .. n) /\ Cardinality(1 .. n) = n BY CountTo
<1>3. s \in [1 .. Len(s) -> Range(s)] /\ \A y \in Range(s) : \E i \in 1 .. Len(s) : s[i] = y
  BY <1>0 DEF Range
<1>4. \A i, j \in 1 .. Len(s) : s[i] = s[j] => i = j BY <1>0 DEF NoDuplicates, IsInjective
<1>5. ExistsBijection(1 .. Len(s), Range(s))
  <2>1. s \in Injection(1 .. Len(s), Range(s)) BY <1>3 DEF Injection, NoDuplicates
  <2>2. s \in Surjection(1 .. Len(s), Range(s)) BY <1>3 DEF Surjection
  <2> QED BY <2>1, <2>2 DEF ExistsBijection, Bijection
<1>6. IsFiniteSet(Range(s)) /\ Cardinality(Range(s)) = Len(s) BY <1>1, <1>5, FS_Bijection
<1>7. Range(s) \in SUBSET (1 .. n) BY <1>0 DEF Range
<1> QED BY <1>2, <1>6, <1>7, FS_Subset

-----------------------------------------------------------------------------
(***************************************************************************)
(* The blocks of one message queue: Q is the queue, F the free list and H  *)
(* the set of blocks in the hands of threads.                              *)
(***************************************************************************)
Arranged(n, next, head, tail, free, entry, H, Q, F) ==
  /\ Parts(n, H, Q, F)
  /\ Linked(next, head, Q) /\ Linked(next, free, F)
  /\ entry = Len(Q)
  /\ tail = IF Q = <<>> THEN Block0 ELSE Q[Len(Q)]
  /\ next \in [1 .. n -> 0 .. n]

LEMMA ArrangedTypes ==
  ASSUME NEW n \in Nat, NEW next, NEW head, NEW tail, NEW free, NEW entry, NEW H, NEW Q, NEW F,
         Arranged(n, next, head, tail, free, entry, H, Q, F)
  PROVE  /\ head \in 0 .. n /\ tail \in 0 .. n /\ free \in 0 .. n /\ entry \in 0 .. n
         /\ Q \in Seq(1 .. n) /\ F \in Seq(1 .. n) /\ Q \in Seq(Nat \ {0}) /\ F \in Seq(Nat \ {0})
         /\ Len(Q) \in 0 .. n /\ Len(F) \in 0 .. n
         /\ Follow(next, n, head) = Q /\ Follow(next, n, free) = F
         /\ (Q = <<>> <=> entry = 0) /\ (Q = <<>> <=> head = Block0) /\ (F = <<>> <=> free = Block0)
         /\ (Q # <<>> => head = Q[1] /\ tail = Q[Len(Q)] /\ tail \in Range(Q) /\ head \in Range(Q))
         /\ (F # <<>> => free = F[1] /\ free \in Range(F))
<1>1. Q \in Seq(1 .. n) /\ F \in Seq(1 .. n) /\ NoDuplicates(Q) /\ NoDuplicates(F) BY DEF Arranged, Parts
<1>2. Len(Q) \in Nat /\ Len(F) \in Nat /\ Len(Q) <= n /\ Len(F) <= n BY <1>1, Sizes
<1>3. Q \in Seq(Nat \ {0}) /\ F \in Seq(Nat \ {0})
  <2>1. 1 .. n \subseteq Nat \ {0} OBVIOUS
  <2> QED BY <1>1, <2>1, SeqMonotonic
<1>4. Follow(next, n, head) = Q /\ Follow(next, n, free) = F BY <1>2, <1>3, FollowIs DEF Arranged
<1>5. ASSUME Q # <<>> PROVE head = Q[1] /\ tail = Q[Len(Q)] /\ tail \in Range(Q) /\ head \in Range(Q) /\ Len(Q) > 0
  <2>1. Len(Q) > 0 BY <1>1, <1>5, EmptySeq
  <2>2. 1 \in 1 .. Len(Q) /\ Len(Q) \in 1 .. Len(Q) BY <1>2, <2>1
  <2>3. Q[1] \in Range(Q) /\ Q[Len(Q)] \in Range(Q) BY <1>1, <2>2 DEF Range
  <2> QED BY <1>5, <2>1, <2>3 DEF Arranged, Linked
<1>6. ASSUME F # <<>> PROVE free = F[1] /\ free \in Range(F)
  <2>1. Len(F) > 0 BY <1>1, <1>6, EmptySeq
  <2>2. 1 \in 1 .. Len(F) BY <1>2, <2>1
  <2>3. F[1] \in Range(F) BY <1>1, <2>2 DEF Range
  <2> QED BY <1>6, <2>3 DEF Arranged, Linked
<1>7. Range(Q) \subseteq 1 .. n /\ Range(F) \subseteq 1 .. n BY <1>1 DEF Range
<1>8. Q = <<>> => head = Block0 /\ tail = Block0 /\ Len(Q) = 0 BY DEF Arranged, Linked
<1>9. F = <<>> => free = Block0 BY DEF Arranged, Linked
<1>10. entry = Len(Q) /\ 0 \in 0 .. n /\ Block0 = 0 /\ \A m \in 1 .. n : m # 0 /\ m \in 0 .. n
  BY DEF Arranged, Block0
<1>11. head \in 0 .. n /\ tail \in 0 .. n /\ free \in 0 .. n /\ entry \in 0 .. n
  BY <1>2, <1>5, <1>6, <1>7, <1>8, <1>9, <1>10
<1>12. (Q = <<>> <=> entry = 0) /\ (Q = <<>> <=> head = Block0) /\ (F = <<>> <=> free = Block0)
  BY <1>5, <1>6, <1>7, <1>8, <1>9, <1>10
<1>13. Len(Q) \in 0 .. n /\ Len(F) \in 0 .. n BY <1>2
<1> QED BY <1>1, <1>3, <1>4, <1>5, <1>6, <1>11, <1>12, <1>13

\* Whatever is done to a block in somebody's hand leaves the lists alone.
LEMMA HandIsOutside ==
  ASSUME NEW n \in Nat, NEW next, NEW head, NEW tail, NEW free, NEW entry, NEW H, NEW Q, NEW F,
         Arranged(n, next, head, tail, free, entry, H, Q, F), NEW m \in H, NEW x \in 0 .. n
  PROVE  LET other == [next EXCEPT ![m] = x] IN
         /\ Arranged(n, other, head, tail, free, entry, H, Q, F)
         /\ \A y \in Range(Q) \cup Range(F) : other[y] = next[y]
         /\ other[m] = x
         /\ m \in 1 .. n /\ m \notin Range(Q) /\ m \notin Range(F)
<1> DEFINE other == [next EXCEPT ![m] = x]
<1>1. Parts(n, H, Q, F) /\ next \in [1 .. n -> 0 .. n] BY DEF Arranged
<1>2. m \in 1 .. n /\ m \notin Range(Q) /\ m \notin Range(F) BY <1>1 DEF Parts
<1>3. Range(Q) \subseteq 1 .. n /\ Range(F) \subseteq 1 .. n BY <1>1 DEF Parts
<1>4. other \in [1 .. n -> 0 .. n] /\ other[m] = x /\ \A y \in Range(Q) \cup Range(F) : other[y] = next[y]
  BY <1>1, <1>2, <1>3
<1> HIDE DEF other
<1>5. Linked(other, head, Q) /\ Linked(other, free, F)
  BY <1>1, <1>4, LinkedElsewhere DEF Arranged, Parts
<1>6. Arranged(n, other, head, tail, free, entry, H, Q, F) BY <1>4, <1>5 DEF Arranged
<1> QED BY <1>2, <1>4, <1>6 DEF other

LEMMA TakeArranged ==
  ASSUME NEW n \in Nat, NEW next, NEW head, NEW tail, NEW free, NEW entry, NEW H, NEW Q, NEW F,
         Arranged(n, next, head, tail, free, entry, H, Q, F), free # Block0
  PROVE  /\ free \in 1 .. n /\ free \notin H
         /\ Arranged(n, next, head, tail, next[free], entry, H \cup {free}, Q, Tail(F))
<1>1. F # <<>> /\ free = F[1] /\ free \in Range(F) BY ArrangedTypes
<1>2. Parts(n, H, Q, F) /\ Linked(next, free, F) BY DEF Arranged
<1>3. /\ Tail(F) \in Seq(1 .. n) /\ NoDuplicates(Tail(F)) /\ Range(Tail(F)) = Range(F) \ {free}
  BY <1>1, <1>2, TailIs DEF Parts
<1>4. Linked(next, next[free], Tail(F)) BY <1>1, <1>2, LinkedTail DEF Parts
<1>5. Parts(n, H \cup {free}, Q, Tail(F)) BY <1>1, <1>2, <1>3 DEF Parts
<1> QED BY <1>1, <1>2, <1>4, <1>5 DEF Arranged, Parts

LEMMA PutArranged ==
  ASSUME NEW n \in Nat, NEW next, NEW head, NEW tail, NEW free, NEW entry, NEW H, NEW Q, NEW F,
         Arranged(n, next, head, tail, free, entry, H, Q, F), NEW m \in H
  PROVE  Arranged(n, [next EXCEPT ![m] = free], head, tail, m, entry, H \ {m}, Q, <<m>> \o F)
<1> DEFINE other == [next EXCEPT ![m] = free]
<1>1. free \in 0 .. n BY ArrangedTypes
<1>2. /\ Arranged(n, other, head, tail, free, entry, H, Q, F)
      /\ other[m] = free /\ m \in 1 .. n /\ m \notin Range(Q) /\ m \notin Range(F)
  BY <1>1, HandIsOutside
<1> HIDE DEF other
<1>3. Parts(n, H, Q, F) /\ Linked(other, free, F) BY <1>2 DEF Arranged
<1>4. /\ <<m>> \o F \in Seq(1 .. n) /\ NoDuplicates(<<m>> \o F) /\ Range(<<m>> \o F) = Range(F) \cup {m}
  BY <1>2, <1>3, PushIs DEF Parts
<1>5. Linked(other, m, <<m>> \o F) BY <1>2, <1>3, LinkedPush DEF Parts
<1>6. Parts(n, H \ {m}, Q, <<m>> \o F) BY <1>2, <1>3, <1>4 DEF Parts
<1>7. Arranged(n, other, head, tail, m, entry, H \ {m}, Q, <<m>> \o F) BY <1>2, <1>5, <1>6 DEF Arranged
<1> QED BY <1>7 DEF other

LEMMA UnlinkArranged ==
  ASSUME NEW n \in Nat, NEW next, NEW head, NEW tail, NEW free, NEW entry, NEW H, NEW Q, NEW F,
         Arranged(n, next, head, tail, free, entry, H, Q, F), entry > 0
  PROVE  /\ Q # <<>> /\ head = Head(Q) /\ head \in 1 .. n /\ head \notin H
         /\ Arranged(n, next, next[head], IF tail = head THEN Block0 ELSE tail, free, entry - 1,
                     H \cup {head}, Tail(Q), F)
<1>1. Q # <<>> /\ head = Q[1] /\ head \in Range(Q) /\ tail = Q[Len(Q)] BY ArrangedTypes
<1>2. Parts(n, H, Q, F) /\ Linked(next, head, Q) /\ entry = Len(Q) BY DEF Arranged
<1>3. /\ Tail(Q) \in Seq(1 .. n) /\ NoDuplicates(Tail(Q)) /\ Range(Tail(Q)) = Range(Q) \ {head}
      /\ Len(Tail(Q)) = Len(Q) - 1 /\ Len(Q) \in Nat \ {0} /\ Head(Q) = head
      /\ \A i \in 1 .. Len(Q) - 1 : Tail(Q)[i] = Q[i + 1]
  BY <1>1, <1>2, TailIs DEF Parts
<1>4. Linked(next, next[head], Tail(Q)) BY <1>1, <1>2, LinkedTail DEF Parts
<1>5. Parts(n, H \cup {head}, Tail(Q), F) BY <1>1, <1>2, <1>3 DEF Parts
<1>6. (IF tail = head THEN Block0 ELSE tail) = IF Tail(Q) = <<>> THEN Block0 ELSE Tail(Q)[Len(Tail(Q))]
  <2>1. Tail(Q) = <<>> <=> Len(Q) = 1
    <3> DEFINE r == Tail(Q)
    <3>1. r \in Seq(1 .. n) /\ Len(r) = Len(Q) - 1 /\ Len(Q) \in Nat BY <1>3
    <3> HIDE DEF r
    <3>2. r = <<>> <=> Len(r) = 0 BY <3>1, EmptySeq
    <3> QED BY <3>1, <3>2 DEF r
  <2>2. CASE Len(Q) = 1 BY <1>1, <2>1, <2>2
  <2>3. CASE Len(Q) # 1
    <3>1. Len(Q) - 1 \in 1 .. Len(Q) - 1 /\ (Len(Q) - 1) + 1 = Len(Q) BY <1>3, <2>3
    <3>2. Tail(Q)[Len(Tail(Q))] = Q[Len(Q)] BY <1>3, <3>1
    <3>3. tail # head
      <4>1. 1 \in DOMAIN Q /\ Len(Q) \in DOMAIN Q BY <1>2, <1>3 DEF Parts
      <4> QED BY <1>1, <1>2, <2>3, <4>1 DEF Parts, NoDuplicates, IsInjective
    <3> QED BY <1>1, <2>1, <2>3, <3>2, <3>3
  <2> QED BY <2>2, <2>3
<1>7. entry - 1 = Len(Tail(Q)) BY <1>2, <1>3
<1>8. Arranged(n, next, next[head], IF tail = head THEN Block0 ELSE tail, free, entry - 1,
               H \cup {head}, Tail(Q), F)
  BY <1>2, <1>4, <1>5, <1>6, <1>7 DEF Arranged
<1> QED BY <1>1, <1>2, <1>3, <1>8 DEF Parts

LEMMA LastArranged ==
  ASSUME NEW n \in Nat, NEW next, NEW head, NEW tail, NEW free, NEW entry, NEW H, NEW Q, NEW F,
         Arranged(n, next, head, tail, free, entry, H, Q, F), NEW m \in H, next[m] = Block0
  PROVE  Arranged(n, IF tail # Block0 THEN [next EXCEPT ![tail] = m] ELSE next,
                  IF head = Block0 THEN m ELSE head, m, free, entry + 1, H \ {m}, Append(Q, m), F)
<1> DEFINE other == IF tail # Block0 THEN [next EXCEPT ![tail] = m] ELSE next
<1>1. Parts(n, H, Q, F) /\ Linked(next, head, Q) /\ Linked(next, free, F) /\ next \in [1 .. n -> 0 .. n]
      /\ entry = Len(Q)
  BY DEF Arranged
<1>2. m \in 1 .. n /\ m \notin Range(Q) /\ m \notin Range(F) /\ m \in 0 .. n /\ Range(Q) \subseteq 1 .. n
  BY <1>1 DEF Parts
<1>3. /\ Append(Q, m) \in Seq(1 .. n) /\ Append(Q, m) # <<>> /\ NoDuplicates(Append(Q, m))
      /\ Range(Append(Q, m)) = Range(Q) \cup {m}
  <2>1. Q \in Seq(1 .. n) /\ NoDuplicates(Q) BY <1>1 DEF Parts
  <2> QED BY <1>2, <2>1, Appended
<1>4. Len(Append(Q, m)) = Len(Q) + 1 /\ Append(Q, m)[Len(Q) + 1] = m BY <1>1, <1>2, AppendProperties DEF Parts
<1>5. (tail = Block0 <=> Q = <<>>) /\ (head = Block0 <=> Q = <<>>) /\ (Q # <<>> => tail = Q[Len(Q)] /\ tail \in Range(Q))
  BY SMTT(30), <1>2, ArrangedTypes DEF Arranged, Block0
<1>6. /\ other \in [1 .. n -> 0 .. n] /\ other[m] = Block0
      /\ \A x \in Range(Q) : other[x] = IF x = Q[Len(Q)] THEN m ELSE next[x]
      /\ \A x \in Range(F) : other[x] = next[x]
  <2>1. CASE Q = <<>>
    <3>1. other = next /\ Range(Q) = {} BY <1>1, <1>5, <2>1, EmptyRange DEF Parts
    <3> HIDE DEF other
    <3> QED BY <1>1, <3>1
  <2>2. CASE Q # <<>>
    <3>1. other = [next EXCEPT ![tail] = m] /\ tail = Q[Len(Q)] /\ tail \in Range(Q) BY <1>5, <2>2
    <3>2. tail \notin Range(F) /\ tail # m /\ Range(F) \subseteq 1 .. n BY <1>1, <1>2, <3>1 DEF Parts
    <3> HIDE DEF other
    <3> QED BY <1>1, <1>2, <3>1, <3>2
  <2> QED BY <2>1, <2>2
<1> HIDE DEF other
<1>7. Linked(other, free, F) BY <1>1, <1>6, LinkedElsewhere DEF Parts
<1>8. Linked(other, IF Q = <<>> THEN m ELSE head, Append(Q, m)) BY <1>1, <1>2, <1>6, LinkedAppend DEF Parts
<1>9. Linked(other, IF head = Block0 THEN m ELSE head, Append(Q, m)) BY <1>5, <1>8
<1>10. Parts(n, H \ {m}, Append(Q, m), F) BY <1>1, <1>2, <1>3 DEF Parts
<1>11. Arranged(n, other, IF head = Block0 THEN m ELSE head, m, free, entry + 1, H \ {m}, Append(Q, m), F)
  BY <1>1, <1>3, <1>4, <1>6, <1>7, <1>9, <1>10 DEF Arranged
<1> QED BY <1>11 DEF other

LEMMA FirstArranged ==
  ASSUME NEW n \in Nat, NEW next, NEW head, NEW tail, NEW free, NEW entry, NEW H, NEW Q, NEW F,
         Arranged(n, next, head, tail, free, entry, H, Q, F), NEW m \in H
  PROVE  Arranged(n, [next EXCEPT ![m] = head], m, IF tail = Block0 THEN m ELSE tail, free, entry + 1,
                  H \ {m}, <<m>> \o Q, F)
<1> DEFINE other == [next EXCEPT ![m] = head]
           r == <<m>> \o Q
<1>1. head \in 0 .. n BY ArrangedTypes
<1>2. /\ Arranged(n, other, head, tail, free, entry, H, Q, F)
      /\ other[m] = head /\ m \in 1 .. n /\ m \notin Range(Q) /\ m \notin Range(F)
  BY <1>1, HandIsOutside
<1> HIDE DEF other
<1>3. Parts(n, H, Q, F) /\ Linked(other, head, Q) /\ entry = Len(Q) /\ Len(Q) \in Nat
  <2>1. Parts(n, H, Q, F) /\ Linked(other, head, Q) /\ entry = Len(Q) BY <1>2 DEF Arranged
  <2>2. Q \in Seq(1 .. n) BY <2>1 DEF Parts
  <2> QED BY <2>1, <2>2
<1>4. /\ r \in Seq(1 .. n) /\ NoDuplicates(r) /\ Range(r) = Range(Q) \cup {m} /\ r # <<>> /\ Len(r) = Len(Q) + 1
      /\ \A i \in 1 .. Len(Q) + 1 : r[i] = IF i = 1 THEN m ELSE Q[i - 1]
  BY <1>2, <1>3, PushIs DEF Parts
<1>5. Linked(other, m, r) BY <1>2, <1>3, LinkedPush DEF Parts
<1> HIDE DEF r
<1>6. Parts(n, H \ {m}, r, F) BY <1>2, <1>3, <1>4 DEF Parts
<1>7. (IF tail = Block0 THEN m ELSE tail) = r[Len(r)]
  <2>1. CASE Q = <<>>
    <3>1. Len(Q) = 0 /\ tail = Block0 BY <1>2, <2>1 DEF Arranged
    <3> QED BY <1>4, <3>1
  <2>2. CASE Q # <<>>
    <3>1. Len(Q) > 0 BY <1>3, <2>2, EmptySeq DEF Parts
    <3>2. tail = Q[Len(Q)] /\ tail \in Range(Q) BY <1>2, <2>2, ArrangedTypes
    <3>3. tail # Block0 BY <1>3, <3>2 DEF Parts, Block0
    <3>4. r[Len(Q) + 1] = Q[Len(Q)] BY <1>3, <1>4, <3>1
    <3> QED BY <1>4, <3>2, <3>3, <3>4
  <2> QED BY <2>1, <2>2
<1>8. Arranged(n, other, m, IF tail = Block0 THEN m ELSE tail, free, entry + 1, H \ {m}, r, F)
  BY <1>2, <1>3, <1>4, <1>5, <1>6, <1>7 DEF Arranged
<1> QED BY <1>8 DEF other, r

-----------------------------------------------------------------------------
(***************************************************************************)
(* Local variables and mutexes.                                            *)
(***************************************************************************)
LocFields == {"time", "start", "hand", "event_set", "event_info", "due", "got", "held"}
IpcFields == {"pool", "in", "out", "entry", "head", "tail", "free", "next", "text", "owner", "hold",
              "original", "set"}

\* A mutex that has no owner counts nothing, and one that has an owner counts within its range
\* and remembers a priority.
MutexesOK ==
  /\ ipc.owner \in [Mutex -> Users \cup {Nobody}] /\ ipc.hold \in [Mutex -> 0 .. HoldMax]
  /\ ipc.original \in [Mutex -> 0 .. PriorityMax]
  /\ \A x \in Mutex : IF ipc.owner[x] = Nobody THEN ipc.hold[x] = 0
                      ELSE ipc.hold[x] > 0 /\ ipc.original[x] \in Priority

\* A call remembers a time that a timer takes and the tick at which its wait began.
LocalsOK ==
  /\ DOMAIN loc = LocFields /\ DOMAIN ipc = IpcFields
  /\ loc.time \in [Thread -> -1 .. HalfTick - 1] /\ loc.start \in [Thread -> 0 .. TickMod - 1]
  /\ MutexesOK

LEMMA SinceIsNat ==
  ASSUME NEW a \in 0 .. TickMod - 1, NEW b \in 0 .. TickMod - 1 PROVE Since(a, b) \in Nat
<1>1. a \in 0 .. TickMod BY Ticks
<1>2. a >= b \/ a < b OBVIOUS
<1> QED BY <1>1, <1>2, SinceIs, Ticks

\* What is left of the time of a call is again such a time.
LEMMA TimeLeftIs ==
  ASSUME NEW t \in Thread, LocalsOK, k.tick \in 0 .. TickMod - 1,
         pc[t] = "user" => Call(t).arg \in -1 .. HalfTick - 1
  PROVE  TimeLeft(t) \in -1 .. HalfTick - 1
<1>1. loc.time[t] \in -1 .. HalfTick - 1 /\ loc.start[t] \in 0 .. TickMod - 1 BY DEF LocalsOK
<1>2. Since(k.tick, loc.start[t]) \in Nat BY <1>1, SinceIsNat
<1> QED BY <1>1, <1>2, Ticks DEF TimeLeft

LEMMA LocalsInit == ASSUME IpcInit PROVE LocalsOK
BY IpcAssumption, Ticks, SchedAssumption DEF IpcInit, LocalsOK, MutexesOK, LocFields, IpcFields, Users

LEMMA Lists ==
  /\ \A b \in Box : b \in WaitList /\ Senders[b] \in WaitList
  /\ \A x \in Mutex \cup Event \cup Pool : x \in WaitList
  /\ Mailbox \subseteq Box /\ MessageQueue \subseteq Box
BY IpcAssumption, PoolAssumption DEF WaitList, Box

-----------------------------------------------------------------------------
(***************************************************************************)
(* What each step of a call does to the kernel.                            *)
(***************************************************************************)
LEMMA WaitInSafe ==
  ASSUME NEW t \in Users, Sane(k), NEW o \in WaitList, NEW time \in -1 .. HalfTick - 1, WaitIn(t, o, time)
  PROVE  Safe(k, k')
BY BlockSafe DEF WaitIn

LEMMA WakeAndReturnSafe ==
  ASSUME NEW t, Sane(k), NEW o \in WaitList, WakeAndReturn(t, o) PROVE Safe(k, k')
BY WakeSafe DEF WakeAndReturn

LEMMA NoTimeSafe == ASSUME NEW t, NEW sets, Sane(k), NoTime(t, sets) PROVE Safe(k, k')
BY ErrorSafe, StaysSafe DEF NoTime

LEMMA BothSafe == ASSUME NEW b \in Box, Sane(k) PROVE Safe(k, ResumeBoth(b))
<1>1. Safe(k, ResumeAll(k, b)) BY Lists, AllSafe
<1>2. Safe(ResumeAll(k, b), ResumeAll(ResumeAll(k, b), Senders[b])) BY <1>1, Lists, AllSafe DEF Safe
<1> QED BY <1>1, <1>2, SafeIsTransitive DEF ResumeBoth

LEMMA MailboxesSafe ==
  ASSUME NEW t \in Users, Sane(k), LocalsOK, IpcCall(Call(t)), MbSend(t) \/ MbRecv(t) \/ MbReset(t)
  PROVE  Safe(k, k')
<1> DEFINE b == Call(t).on
<1>1. b \in Mailbox /\ b \in Box /\ b \in WaitList /\ Senders[b] \in WaitList
  BY Lists DEF MbSend, MbRecv, MbReset, Tries, Calls, At, IpcCall
<1>2. ASSUME MbSend(t) \/ MbRecv(t) PROVE TimeLeft(t) \in -1 .. HalfTick - 1
  <2>1. Call(t).op \in TimedCalls BY <1>2 DEF MbSend, MbRecv, Tries, Calls, At, TimedCalls
  <2>2. k.tick \in 0 .. TickMod - 1 /\ t \in Thread BY DEF Sane, TimersOK, Users
  <2> QED BY <2>1, <2>2, TimeLeftIs DEF IpcCall
<1>3. CASE MbSend(t) BY <1>1, <1>2, <1>3, WaitInSafe, WakeAndReturnSafe, NoTimeSafe DEF MbSend
<1>4. CASE MbRecv(t) BY <1>1, <1>2, <1>4, WaitInSafe, WakeAndReturnSafe, NoTimeSafe DEF MbRecv
<1>5. CASE MbReset(t) BY <1>1, <1>5, BothSafe DEF MbReset
<1> QED BY <1>3, <1>4, <1>5

LEMMA QueueCallsSafe ==
  ASSUME NEW t \in Users, Sane(k), LocalsOK, IpcCall(Call(t)), IpcFits(pc[t], Call(t).op),
         MqSend(t) \/ MqUrgent(t) \/ MqFill(t) \/ MqLink(t) \/ MqRecv(t) \/ MqCopy(t) \/ MqFree(t) \/ MqReset(t)
  PROVE  Safe(k, k')
<1> DEFINE q == Call(t).on
<1>1. q \in MessageQueue /\ q \in Box /\ q \in WaitList /\ Senders[q] \in WaitList
  BY Lists DEF MqSend, MqUrgent, MqFill, MqLink, MqRecv, MqCopy, MqFree, MqReset,
               Tries, Calls, At, IpcCall, IpcFits
<1>2. ASSUME MqSend(t) \/ MqRecv(t) PROVE TimeLeft(t) \in -1 .. HalfTick - 1
  <2>1. Call(t).op \in TimedCalls BY <1>2 DEF MqSend, MqRecv, Tries, Calls, At, TimedCalls
  <2>2. k.tick \in 0 .. TickMod - 1 /\ t \in Thread BY DEF Sane, TimersOK, Users
  <2> QED BY <2>1, <2>2, TimeLeftIs DEF IpcCall
<1>3. CASE MqSend(t) BY <1>1, <1>2, <1>3, WaitInSafe, StaysSafe, NoTimeSafe DEF MqSend, TakeFree
<1>4. CASE MqRecv(t) BY <1>1, <1>2, <1>4, WaitInSafe, StaysSafe, NoTimeSafe DEF MqRecv
<1>5. CASE MqUrgent(t) \/ MqFill(t) \/ MqCopy(t)
  BY <1>5, StaysSafe DEF MqUrgent, MqFill, MqCopy, Fail, TakeFree
<1>6. CASE MqLink(t) \/ MqFree(t) BY <1>1, <1>6, WakeAndReturnSafe DEF MqLink, MqFree
<1>7. CASE MqReset(t) BY <1>1, <1>7, BothSafe DEF MqReset
<1> QED BY <1>3, <1>4, <1>5, <1>6, <1>7

LEMMA MutexesSafe ==
  ASSUME NEW t \in Users, Sane(k), LocalsOK, IpcCall(Call(t)),
         MutexTake(t) \/ MutexTaken(t) \/ MutexRelease(t)
  PROVE  Safe(k, k')
<1> DEFINE x == Call(t).on
           owner == ipc.owner[x]
<1>1. CASE MutexTaken(t) BY <1>1, StaysSafe DEF MutexTaken
<1>2. CASE MutexTake(t)
  <2> DEFINE s == [k EXCEPT !.error[t] = "ok"]
             v == Inherit(s, t, owner)
  <2>1. x \in Mutex /\ x \in WaitList /\ Call(t).arg \in -1 .. HalfTick - 1
    BY <1>2, Lists DEF MutexTake, Calls, IpcCall, TimedCalls
  <2>2. owner \in Users \cup {Nobody} BY <2>1 DEF LocalsOK, MutexesOK
  <2>3. Safe(k, s) BY ErrorSafe
  <2>4. k' \in {s, [k EXCEPT !.error[t] = "timeout"]} \/ (owner \in Users /\ k' = Block(v, x, t, Call(t).arg))
    BY <1>2, <2>2 DEF MutexTake
  <2> HIDE DEF s
  <2>5. ASSUME owner \in Users PROVE Safe(s, v)
    <3>1. s.priority[t] \in Priority BY <2>3 DEF Safe, Sane, QueuesOK, Users
    <3>2. Sane(s) BY <2>3 DEF Safe
    <3> QED BY <2>5, <3>1, <3>2, PrioritySafe, StaysSafe DEF Inherit
  <2> HIDE DEF v
  <2>6. ASSUME owner \in Users, k' = Block(v, x, t, Call(t).arg) PROVE Safe(v, k')
    BY <2>1, <2>5, <2>6, BlockSafe DEF Safe
  <2>7. CASE k' = s BY <2>3, <2>7
  <2>8. CASE k' = [k EXCEPT !.error[t] = "timeout"] BY <2>8, ErrorSafe
  <2> QED BY <2>3, <2>4, <2>5, <2>6, <2>7, <2>8, SafeIsTransitive
<1>3. CASE MutexRelease(t)
  <2> DEFINE s == Restore(k, t, ipc.original[x])
  <2>1. x \in Mutex /\ x \in WaitList BY <1>3, Lists DEF MutexRelease, Calls, IpcCall
  <2>2. owner = t => ipc.original[x] \in Priority
    BY <2>1, IpcAssumption DEF LocalsOK, MutexesOK, Users
  <2>3. \/ k' = [k EXCEPT !.error[t] = "error"] \/ k' = k
        \/ owner = t /\ s.waiting[x] # <<>> /\ k' = rt_ipc_list_resume(s, x)
        \/ owner = t /\ k' = s
    BY <1>3 DEF MutexRelease
  <2>4. owner = t => Safe(k, s) BY <2>2, PrioritySafe, StaysSafe DEF Restore
  <2> HIDE DEF s
  <2>5. CASE k' = [k EXCEPT !.error[t] = "error"] BY <2>5, ErrorSafe
  <2>6. CASE owner = t /\ s.waiting[x] # <<>> /\ k' = rt_ipc_list_resume(s, x)
    <3>1. Safe(s, k') BY <2>1, <2>4, <2>6, WakeSafe DEF Safe
    <3> QED BY <2>4, <2>6, <3>1, SafeIsTransitive
  <2> QED BY <2>3, <2>4, <2>5, <2>6, StaysSafe
<1> QED BY <1>1, <1>2, <1>3

\* The rounds of rt_event_send, one by one.
LEMMA EventRounds ==
  ASSUME NEW v, NEW sent, Len(k.waiting[v]) \in Nat
  PROVE  LET n == Len(k.waiting[v]) IN
         \E after : /\ after[0] = [k |-> k, set |-> ipc.set[v] \cup sent, loc |-> loc]
                    /\ \A i \in 1 .. n : after[i] = Notify(after[i - 1], k.waiting[v][i])
                    /\ NotifyAll(v, sent) = after[n]
<1> DEFINE n == Len(k.waiting[v])
           first == [k |-> k, set |-> ipc.set[v] \cup sent, loc |-> loc]
           Run(m, g) == g = [i \in 0 .. m |-> IF i = 0 THEN first ELSE Notify(g[i - 1], k.waiting[v][i])]
           S == {m \in 0 .. n : \E g : Run(m, g)}
<1> HIDE DEF first
<1>1. 0 \in S
  <2> DEFINE h == [i \in 0 .. 0 |-> first]
  <2>1. Run(0, h) /\ 0 \in 0 .. n OBVIOUS
  <2> HIDE DEF h, Run
  <2> QED BY <2>1
<1>2. ASSUME NEW m \in 0 .. n - 1, m \in S PROVE m + 1 \in S
  <2>1. PICK g : Run(m, g) BY <1>2
  <2> DEFINE h == [i \in 0 .. m + 1 |-> IF i <= m THEN g[i] ELSE Notify(g[m], k.waiting[v][m + 1])]
  <2>2. \A i \in 0 .. m + 1 : h[i] = IF i = 0 THEN first ELSE Notify(h[i - 1], k.waiting[v][i])
    <3> SUFFICES ASSUME NEW i \in 0 .. m + 1
                 PROVE  h[i] = IF i = 0 THEN first ELSE Notify(h[i - 1], k.waiting[v][i])
      OBVIOUS
    <3>1. CASE i = 0 BY <2>1, <3>1
    <3>2. CASE i \in 1 .. m
      <4>1. h[i] = g[i] /\ h[i - 1] = g[i - 1] BY <3>2
      <4>2. g[i] = IF i = 0 THEN first ELSE Notify(g[i - 1], k.waiting[v][i]) BY <2>1, <3>2
      <4> HIDE DEF h
      <4> QED BY <3>2, <4>1, <4>2
    <3>3. CASE i = m + 1
      <4>1. h[i] = Notify(g[m], k.waiting[v][i]) /\ h[i - 1] = g[m] /\ i # 0 BY <3>3
      <4> HIDE DEF h
      <4> QED BY <4>1
    <3> QED BY <3>1, <3>2, <3>3
  <2>3. Run(m + 1, h)
    <3>1. h = [i \in 0 .. m + 1 |-> h[i]] OBVIOUS
    <3> HIDE DEF h
    <3> QED BY <2>2, <3>1
  <2>4. m + 1 \in 0 .. n BY <1>2
  <2> HIDE DEF h, Run
  <2> QED BY <2>3, <2>4
<1>3. n \in S
  <2> HIDE DEF S
  <2>1. 0 .. n \subseteq S BY <1>1, <1>2, UpTo
  <2> QED BY <2>1
<1>4. \E g : Run(n, g) BY <1>3
<1> DEFINE after == CHOOSE g : Run(n, g)
<1>5. Run(n, after) BY <1>4
<1>6. NotifyAll(v, sent) = after[n] BY DEF NotifyAll, first
<1> HIDE DEF after
<1>7. \A i \in 0 .. n : after[i] = IF i = 0 THEN first ELSE Notify(after[i - 1], k.waiting[v][i]) BY <1>5
<1>8. after[0] = first /\ \A i \in 1 .. n : after[i] = Notify(after[i - 1], k.waiting[v][i]) BY <1>7
<1> QED BY <1>6, <1>8 DEF first

\* A round changes of the local variables only the events that are reported.
Reports(st) ==
  /\ Safe(k, st.k)
  /\ DOMAIN st.loc = LocFields /\ \A f \in LocFields \ {"event_set"} : st.loc[f] = loc[f]

LEMMA NotifySafe ==
  ASSUME NEW v \in WaitList, NEW sent, Sane(k), DOMAIN loc = LocFields PROVE Reports(NotifyAll(v, sent))
<1> DEFINE n == Len(k.waiting[v])
<1>1. k.waiting[v] \in Seq(Users) BY DEF Sane, ListsOf
<1>2. n \in Nat BY <1>1
<1>3. PICK after : /\ after[0] = [k |-> k, set |-> ipc.set[v] \cup sent, loc |-> loc]
                   /\ \A i \in 1 .. n : after[i] = Notify(after[i - 1], k.waiting[v][i])
                   /\ NotifyAll(v, sent) = after[n]
  BY <1>2, EventRounds
<1> DEFINE S == {i \in 0 .. n : Reports(after[i])}
<1>4. 0 \in S
  <2>1. after[0].k = k /\ after[0].loc = loc BY <1>3
  <2>2. Safe(k, k) BY StaysSafe
  <2> QED BY <1>2, <2>1, <2>2 DEF Reports
<1>5. ASSUME NEW i \in 0 .. n - 1, i \in S PROVE i + 1 \in S
  <2> DEFINE st == after[i]
             t == k.waiting[v][i + 1]
             r == Notify(st, t)
             info == st.loc.event_info[t]
             received == IF "and" \in info THEN st.loc.event_set[t] ELSE st.loc.event_set[t] \cap st.set
  <2>1. i + 1 \in 1 .. n /\ (i + 1) - 1 = i BY <1>2, <1>5
  <2>2. after[i + 1] = r BY <1>3, <2>1
  <2>3. t \in Thread BY <1>1, <2>1 DEF Users
  <2>4. Reports(st) BY <1>5
  <2>5. \/ r = st
        \/ /\ r.k = rt_thread_resume(st.k, t)
           /\ r.loc = [st.loc EXCEPT !.event_set[t] = received]
    BY DEF Notify
  <2> HIDE DEF r, received, t, st
  <2>6. Safe(st.k, rt_thread_resume(st.k, t)) BY <2>3, <2>4, ResumeSafe DEF Reports, Safe
  <2>7. Reports(r)
    <3>1. CASE r = st BY <2>4, <3>1
    <3>2. CASE r.k = rt_thread_resume(st.k, t) /\ r.loc = [st.loc EXCEPT !.event_set[t] = received]
      <4>1. Safe(k, r.k) BY <2>4, <2>6, <3>2, SafeIsTransitive DEF Reports
      <4>2. DOMAIN r.loc = LocFields /\ \A f \in LocFields \ {"event_set"} : r.loc[f] = st.loc[f]
        BY <2>4, <3>2 DEF Reports, LocFields
      <4> QED BY <2>4, <4>1, <4>2 DEF Reports
    <3> QED BY <2>5, <3>1, <3>2
  <2> QED BY <2>1, <2>2, <2>7
<1>6. n \in S
  <2> HIDE DEF S
  <2>1. 0 .. n \subseteq S BY <1>2, <1>4, <1>5, UpTo
  <2> QED BY <1>2, <2>1
<1> QED BY <1>3, <1>6

LEMMA EventsSafe ==
  ASSUME NEW t \in Users, Sane(k), LocalsOK, IpcCall(Call(t)),
         EventSend(t) \/ EventRecv(t) \/ EventReceived(t) \/ EventReset(t)
  PROVE  Safe(k, k')
<1> DEFINE v == Call(t).on
<1>1. CASE EventReceived(t) BY <1>1, StaysSafe DEF EventReceived
<1>2. ASSUME EventSend(t) \/ EventRecv(t) \/ EventReset(t) PROVE v \in WaitList
  BY <1>2, Lists DEF EventSend, EventRecv, EventReset, Calls, IpcCall
<1>3. CASE EventSend(t)
  <2>1. Reports(NotifyAll(v, Call(t).val)) BY <1>2, <1>3, NotifySafe DEF LocalsOK
  <2> QED BY <1>3, <2>1, StaysSafe DEF EventSend, Fail, Reports
<1>4. CASE EventRecv(t)
  <2> DEFINE s == [k EXCEPT !.error[t] = "ok"]
  <2>1. Call(t).arg \in -1 .. HalfTick - 1 BY <1>4 DEF EventRecv, Calls, IpcCall, TimedCalls
  <2>2. k' \in {k, s, [k EXCEPT !.error[t] = "timeout"]} \/ k' = Block(s, v, t, Call(t).arg)
    BY <1>4 DEF EventRecv, Fail
  <2>3. Safe(k, s) BY ErrorSafe
  <2> HIDE DEF s
  <2>4. ASSUME k' = Block(s, v, t, Call(t).arg) PROVE Safe(s, k') BY <1>2, <1>4, <2>1, <2>3, <2>4, BlockSafe DEF Safe
  <2>5. CASE k' = [k EXCEPT !.error[t] = "timeout"] BY <2>5, ErrorSafe
  <2>6. CASE k' = Block(s, v, t, Call(t).arg) BY <2>3, <2>4, <2>6, SafeIsTransitive
  <2> QED BY <2>2, <2>3, <2>5, <2>6, StaysSafe
<1>5. CASE EventReset(t) BY <1>2, <1>5, AllSafe DEF EventReset
<1> QED BY <1>1, <1>3, <1>4, <1>5

LEMMA PoolsSafe ==
  ASSUME NEW t \in Users, Sane(k), LocalsOK, IpcCall(Call(t)), PoolStep(t)
  PROVE  Safe(k, k')
<1> DEFINE p == Call(t).on
<1>1. CASE MpFails(t) \/ MpDetach(t) BY <1>1, StaysSafe DEF MpFails, MpDetach, Fail
<1>2. ASSUME MpAlloc(t) \/ MpFree(t) PROVE p \in WaitList
  BY <1>2, Lists DEF MpAlloc, MpFree, Tries, Calls, At, IpcCall
<1>3. CASE MpAlloc(t)
  <2>1. Call(t).op \in TimedCalls BY <1>3 DEF MpAlloc, Tries, Calls, At, TimedCalls
  <2>2. k.tick \in 0 .. TickMod - 1 /\ t \in Thread BY DEF Sane, TimersOK, Users
  <2>3. TimeLeft(t) \in -1 .. HalfTick - 1 BY <2>1, <2>2, TimeLeftIs DEF IpcCall
  <2>4. k' = BlockFirst(k, p, t, TimeLeft(t)) => Safe(k, k') BY <1>2, <1>3, <2>3, BlockFirstSafe
  <2>5. NoTime(t, FALSE) => Safe(k, k') BY NoTimeSafe
  <2>6. k' = k => Safe(k, k') BY StaysSafe
  <2> QED BY <1>3, <2>4, <2>5, <2>6 DEF MpAlloc, MpWait
<1>4. CASE MpFree(t) BY <1>2, <1>4, WakeAndReturnSafe, StaysSafe DEF MpFree, Fail
<1> QED BY <1>1, <1>3, <1>4 DEF PoolStep

\* Every step of a call keeps the kernel as it should be, or is one of the scheduler.
LEMMA StepsSafe ==
  ASSUME NEW t \in Users, Sane(k), LocalsOK, IpcCall(Call(t)), IpcFits(pc[t], Call(t).op),
         IpcStep(t) \/ PoolStep(t)
  PROVE  Safe(k, k') \/ k' = rt_schedule(k)
<1>1. CASE WaitSchedule(t) BY <1>1 DEF WaitSchedule
<1>2. CASE WaitFails(t) BY <1>2, StaysSafe DEF WaitFails, Fail
<1> QED
  BY <1>1, <1>2, MailboxesSafe, QueueCallsSafe, MutexesSafe, EventsSafe, PoolsSafe DEF IpcStep

-----------------------------------------------------------------------------
(***************************************************************************)
(* The message queues: who has a block in the hand, and how the blocks are *)
(* arranged.                                                               *)
(***************************************************************************)
Holders(q) == {t \in Thread : loc.hand[t] # Block0 /\ Call(t).on = q}
Held(q) == {loc.hand[t] : t \in Holders(q)}

\* Q is the queue and F the free list of q.
Lane(q, Q, F) ==
  Arranged(Size[q], ipc.next[q], ipc.head[q], ipc.tail[q], ipc.free[q], ipc.entry[q], Held(q), Q, F)

Handling == {"fill", "link", "copy", "free"}

HandsOK ==
  /\ loc.hand \in [Thread -> Nat]
  /\ \A t \in Thread : loc.hand[t] # Block0 <=> pc[t] \in Handling
  /\ \A t, u \in Thread : t # u /\ loc.hand[t] # Block0 /\ Call(t).on = Call(u).on => loc.hand[t] # loc.hand[u]

QueueDomains ==
  /\ DOMAIN ipc.head = MessageQueue /\ DOMAIN ipc.tail = MessageQueue /\ DOMAIN ipc.free = MessageQueue
  /\ DOMAIN ipc.next = MessageQueue /\ DOMAIN ipc.text = MessageQueue /\ DOMAIN ipc.entry = Box
  /\ \A q \in MessageQueue : DOMAIN ipc.text[q] = Blocks(q)

\* A block that is to be linked holds its message, and ends a list if it is to be the last.
Filled ==
  \A t \in Thread : pc[t] = "link" =>
    /\ Call(t).on \in MessageQueue /\ ipc.text[Call(t).on][loc.hand[t]] = Call(t).val
    /\ Call(t).op = "mq_send" => ipc.next[Call(t).on][loc.hand[t]] = Block0

QueuesKept ==
  /\ HandsOK /\ QueueDomains /\ Filled
  /\ \A q \in MessageQueue : \E Q, F : Lane(q, Q, F)

LEMMA SizeIs == \A b \in Box : Size[b] \in Nat /\ Size[b] > 0
BY IpcAssumption

Closed(i, q) == [i EXCEPT !.head[q] = Block0, !.tail[q] = Block0, !.entry[q] = 0]

\* The rounds in which rt_mq_control empties a queue, one by one.
LEMMA FreeRounds ==
  ASSUME NEW q, NEW Q, Q = Chain(q, ipc.head[q]), Len(Q) \in Nat
  PROVE  LET n == Len(Q) IN
         \E after : /\ after[0] = ipc
                    /\ \A j \in 1 .. n : after[j] = PutFree(after[j - 1], q, Q[j])
                    /\ FreeAll(q) = Closed(after[n], q)
<1> DEFINE n == Len(Q)
           Run(m, g) == g = [j \in 0 .. m |-> IF j = 0 THEN ipc ELSE PutFree(g[j - 1], q, Q[j])]
           S == {m \in 0 .. n : \E g : Run(m, g)}
<1>1. 0 \in S
  <2> DEFINE h == [j \in 0 .. 0 |-> ipc]
  <2>1. Run(0, h) /\ 0 \in 0 .. n OBVIOUS
  <2> HIDE DEF h, Run
  <2> QED BY <2>1
<1>2. ASSUME NEW m \in 0 .. n - 1, m \in S PROVE m + 1 \in S
  <2>1. PICK g : Run(m, g) BY <1>2
  <2> DEFINE h == [j \in 0 .. m + 1 |-> IF j <= m THEN g[j] ELSE PutFree(g[m], q, Q[m + 1])]
  <2>2. \A j \in 0 .. m + 1 : h[j] = IF j = 0 THEN ipc ELSE PutFree(h[j - 1], q, Q[j])
    <3> SUFFICES ASSUME NEW j \in 0 .. m + 1
                 PROVE  h[j] = IF j = 0 THEN ipc ELSE PutFree(h[j - 1], q, Q[j])
      OBVIOUS
    <3>1. CASE j = 0 BY <2>1, <3>1
    <3>2. CASE j \in 1 .. m
      <4>1. h[j] = g[j] /\ h[j - 1] = g[j - 1] BY <3>2
      <4>2. g[j] = IF j = 0 THEN ipc ELSE PutFree(g[j - 1], q, Q[j]) BY <2>1, <3>2
      <4> HIDE DEF h
      <4> QED BY <3>2, <4>1, <4>2
    <3>3. CASE j = m + 1
      <4>1. h[j] = PutFree(g[m], q, Q[j]) /\ h[j - 1] = g[m] /\ j # 0 BY <3>3
      <4> HIDE DEF h
      <4> QED BY <4>1
    <3> QED BY <3>1, <3>2, <3>3
  <2>3. Run(m + 1, h)
    <3>1. h = [j \in 0 .. m + 1 |-> h[j]] OBVIOUS
    <3> HIDE DEF h
    <3> QED BY <2>2, <3>1
  <2>4. m + 1 \in 0 .. n BY <1>2
  <2> HIDE DEF h, Run
  <2> QED BY <2>3, <2>4
<1>3. n \in S
  <2> HIDE DEF S
  <2>1. 0 .. n \subseteq S BY <1>1, <1>2, UpTo
  <2> QED BY <2>1
<1>4. \E g : Run(n, g) BY <1>3
<1> DEFINE after == CHOOSE g : Run(n, g)
<1>5. Run(n, after) BY <1>4
<1>6. FreeAll(q) = Closed(after[n], q) BY DEF FreeAll, Closed
<1> HIDE DEF after
<1>7. \A j \in 0 .. n : after[j] = IF j = 0 THEN ipc ELSE PutFree(after[j - 1], q, Q[j]) BY <1>5
<1>8. after[0] = ipc /\ \A j \in 1 .. n : after[j] = PutFree(after[j - 1], q, Q[j]) BY <1>7
<1> QED BY <1>6, <1>8

\* All the messages of a queue may as well be in somebody's hand.
LEMMA AllInHand ==
  ASSUME NEW n \in Nat, NEW next, NEW head, NEW tail, NEW free, NEW entry, NEW H, NEW Q, NEW F,
         Arranged(n, next, head, tail, free, entry, H, Q, F)
  PROVE  Arranged(n, next, Block0, Block0, free, 0, H \cup Range(Q), <<>>, F)
<1>1. Parts(n, H, Q, F) BY DEF Arranged
<1>2. <<>> \in Seq(1 .. n) /\ NoDuplicates(<<>>) /\ Range(<<>>) = {} /\ Len(<<>>) = 0
  BY DEF NoDuplicates, IsInjective, Range
<1>3. Parts(n, H \cup Range(Q), <<>>, F) BY <1>1, <1>2 DEF Parts
<1>4. Linked(next, Block0, <<>>) BY DEF Linked
<1> QED BY <1>2, <1>3, <1>4 DEF Arranged

\* What a reset leaves of the fields.
LEMMA Emptied ==
  ASSUME QueueDomains, DOMAIN ipc = IpcFields, NEW q \in MessageQueue, NEW Q, NEW F, Lane(q, Q, F)
  PROVE  LET i == FreeAll(q) IN
         /\ DOMAIN i = IpcFields
         /\ \A f \in IpcFields \ {"next", "free", "head", "tail", "entry"} : i[f] = ipc[f]
         /\ \A f \in {"next", "free", "head", "tail", "entry"} :
              DOMAIN i[f] = DOMAIN ipc[f] /\ \A p \in DOMAIN ipc[f] \ {q} : i[f][p] = ipc[f][p]
         /\ \A x \in Held(q) : i.next[q][x] = ipc.next[q][x]
         /\ \E G : Arranged(Size[q], i.next[q], i.head[q], i.tail[q], i.free[q], i.entry[q], Held(q), <<>>, G)
<1> DEFINE n == Len(Q)
           H == Held(q)
           size == Size[q]
<1>1. size \in Nat /\ q \in Box BY SizeIs, Lists
<1>2. Arranged(size, ipc.next[q], ipc.head[q], ipc.tail[q], ipc.free[q], ipc.entry[q], H, Q, F) BY DEF Lane
<1> HIDE DEF H, size
<1>3. Q = Chain(q, ipc.head[q]) /\ n \in Nat /\ Q \in Seq(1 .. size) /\ NoDuplicates(Q)
  <2>1. Q \in Seq(1 .. size) /\ NoDuplicates(Q) BY <1>2 DEF Arranged, Parts
  <2>2. n \in Nat BY <2>1
  <2>3. Follow(ipc.next[q], size, ipc.head[q]) = Q BY <1>1, <1>2, ArrangedTypes
  <2> QED BY <2>1, <2>2, <2>3 DEF Chain, size
<1>4. PICK after : /\ after[0] = ipc
                   /\ \A j \in 1 .. n : after[j] = PutFree(after[j - 1], q, Q[j])
                   /\ FreeAll(q) = Closed(after[n], q)
  <2>1. Q = Chain(q, ipc.head[q]) /\ Len(Q) \in Nat BY <1>3
  <2> QED BY <2>1, FreeRounds
<1> DEFINE Rest(j) == {Q[l] : l \in j + 1 .. n}
           Good(i, j) ==
             /\ DOMAIN i = IpcFields
             /\ \A f \in IpcFields \ {"next", "free"} : i[f] = ipc[f]
             /\ \A f \in {"next", "free"} :
                  DOMAIN i[f] = MessageQueue /\ \A p \in MessageQueue \ {q} : i[f][p] = ipc[f][p]
             /\ \A x \in H : i.next[q][x] = ipc.next[q][x]
             /\ \E G : Arranged(size, i.next[q], Block0, Block0, i.free[q], 0, H \cup Rest(j), <<>>, G)
           S == {j \in 0 .. n : Good(after[j], j)}
<1>5. 0 \in S
  <2>1. Range(Q) = Rest(0)
    <3>1. DOMAIN Q = 1 .. n BY <1>3
    <3>2. 0 + 1 = 1 OBVIOUS
    <3> QED BY <3>1, <3>2 DEF Range
  <2> HIDE DEF Rest, n
  <2>2. Arranged(size, ipc.next[q], Block0, Block0, ipc.free[q], 0, H \cup Rest(0), <<>>, F)
    BY <1>1, <1>2, <2>1, AllInHand
  <2>3. Good(ipc, 0) BY <2>2 DEF QueueDomains, IpcFields
  <2> HIDE DEF Good
  <2> QED BY <1>3, <1>4, <2>3
<1>6. ASSUME NEW j \in 0 .. n - 1, j \in S PROVE j + 1 \in S
  <2> DEFINE m == Q[j + 1]
             i == after[j]
             u == PutFree(i, q, m)
  <2>1. j + 1 \in 1 .. n /\ (j + 1) - 1 = j /\ j + 1 \in 0 .. n BY <1>3, <1>6
  <2>2. after[j + 1] = u BY <1>4, <2>1
  <2>3. Good(i, j)
    <3> HIDE DEF Good, n
    <3> QED BY <1>6
  <2>4. m \in Rest(j) /\ m \in 1 .. size
    <3>1. j + 1 \in j + 1 .. n BY <1>3, <1>6
    <3>2. m \in 1 .. size BY <1>3, <2>1, ElementOfSeq
    <3> QED BY <3>1, <3>2
  <2>5. Rest(j + 1) = Rest(j) \ {m}
    <3>1. \A l \in j + 1 .. n : l = j + 1 \/ l \in (j + 1) + 1 .. n BY <1>3, <1>6
    <3>2. \A l \in (j + 1) + 1 .. n : l \in j + 1 .. n /\ l # j + 1 /\ l \in 1 .. n BY <1>3, <1>6
    <3>3. \A a, b \in 1 .. n : Q[a] = Q[b] => a = b BY <1>3 DEF NoDuplicates, IsInjective
    <3>4. \A l \in (j + 1) + 1 .. n : Q[l] # m BY <2>1, <3>2, <3>3
    <3> QED BY <3>1, <3>2, <3>4
  <2>6. m \notin H
    <3>1. m \in Range(Q) BY <1>3, <2>1 DEF Range
    <3> QED BY <1>2, <3>1 DEF Arranged, Parts
  <2> HIDE DEF Rest, m, i, n
  <2>7. PICK G : Arranged(size, i.next[q], Block0, Block0, i.free[q], 0, H \cup Rest(j), <<>>, G) BY <2>3
  <2>8. Arranged(size, [i.next[q] EXCEPT ![m] = i.free[q]], Block0, Block0, m, 0, (H \cup Rest(j)) \ {m},
                 <<>>, <<m>> \o G)
    BY <1>1, <2>4, <2>7, PutArranged
  <2>9. (H \cup Rest(j)) \ {m} = H \cup Rest(j + 1) BY <2>5, <2>6
  <2>10. /\ DOMAIN u = IpcFields /\ u.next = [i.next EXCEPT ![q] = [i.next[q] EXCEPT ![m] = i.free[q]]]
         /\ u.free = [i.free EXCEPT ![q] = m] /\ \A f \in IpcFields \ {"next", "free"} : u[f] = i[f]
    BY <2>3 DEF PutFree, IpcFields
  <2> HIDE DEF u
  <2>11. u.next[q] = [i.next[q] EXCEPT ![m] = i.free[q]] /\ u.free[q] = m BY <2>3, <2>10
  <2>12. Arranged(size, u.next[q], Block0, Block0, u.free[q], 0, H \cup Rest(j + 1), <<>>, <<m>> \o G)
    BY <2>8, <2>9, <2>11
  <2>13. \A f \in {"next", "free"} :
           DOMAIN u[f] = MessageQueue /\ \A p \in MessageQueue \ {q} : u[f][p] = ipc[f][p]
    BY <2>3, <2>10
  <2>14. \A f \in IpcFields \ {"next", "free"} : u[f] = ipc[f] BY <2>3, <2>10
  <2>15. \A x \in H : u.next[q][x] = ipc.next[q][x] BY <2>3, <2>6, <2>11
  <2>16. Good(u, j + 1) BY <2>10, <2>12, <2>13, <2>14, <2>15
  <2> HIDE DEF Good
  <2> QED BY <2>1, <2>2, <2>16
<1>7. Good(after[n], n)
  <2> HIDE DEF S, n, Good
  <2>1. 0 .. n \subseteq S BY <1>3, <1>5, <1>6, UpTo
  <2>2. n \in S BY <1>3, <2>1
  <2> QED BY <2>2 DEF S
<1>8. Rest(n) = {} BY <1>3
<1> DEFINE i == after[n]
           u == FreeAll(q)
<1> HIDE DEF Rest, n, i
<1>9. Good(i, n) BY <1>7 DEF i
<1>10. /\ DOMAIN u = IpcFields /\ u.head = [i.head EXCEPT ![q] = Block0] /\ u.tail = [i.tail EXCEPT ![q] = Block0]
       /\ u.entry = [i.entry EXCEPT ![q] = 0] /\ u.next = i.next /\ u.free = i.free
       /\ \A f \in IpcFields \ {"head", "tail", "entry"} : u[f] = i[f]
  <2>1. u = Closed(i, q) BY <1>4 DEF i, n
  <2>2. DOMAIN i = IpcFields BY <1>9
  <2> HIDE DEF u
  <2> QED BY <2>1, <2>2 DEF Closed, IpcFields
<1> HIDE DEF u
<1>11. i.head = ipc.head /\ i.tail = ipc.tail /\ i.entry = ipc.entry BY <1>9 DEF IpcFields
<1>12. u.head[q] = Block0 /\ u.tail[q] = Block0 /\ u.entry[q] = 0
  BY <1>1, <1>10, <1>11 DEF QueueDomains
<1>13. PICK G : Arranged(size, i.next[q], Block0, Block0, i.free[q], 0, H \cup Rest(n), <<>>, G) BY <1>9
<1>14. Arranged(size, u.next[q], u.head[q], u.tail[q], u.free[q], u.entry[q], H, <<>>, G)
  BY <1>8, <1>10, <1>12, <1>13
<1>15. \A f \in {"next", "free", "head", "tail", "entry"} :
         DOMAIN u[f] = DOMAIN ipc[f] /\ \A p \in DOMAIN ipc[f] \ {q} : u[f][p] = ipc[f][p]
  <2>1. /\ DOMAIN u.head = DOMAIN ipc.head /\ \A p \in DOMAIN ipc.head \ {q} : u.head[p] = ipc.head[p]
    BY <1>10, <1>11
  <2>2. /\ DOMAIN u.tail = DOMAIN ipc.tail /\ \A p \in DOMAIN ipc.tail \ {q} : u.tail[p] = ipc.tail[p]
    BY <1>10, <1>11
  <2>3. /\ DOMAIN u.entry = DOMAIN ipc.entry /\ \A p \in DOMAIN ipc.entry \ {q} : u.entry[p] = ipc.entry[p]
    BY <1>10, <1>11
  <2>4. \A f \in {"next", "free"} :
          u[f] = i[f] /\ DOMAIN i[f] = MessageQueue /\ DOMAIN ipc[f] = MessageQueue
          /\ \A p \in MessageQueue \ {q} : i[f][p] = ipc[f][p]
    BY <1>9, <1>10 DEF QueueDomains
  <2> QED BY <2>1, <2>2, <2>3, <2>4
<1>16. \A f \in IpcFields \ {"next", "free", "head", "tail", "entry"} : u[f] = ipc[f]
  BY <1>9, <1>10
<1>17. \A x \in H : u.next[q][x] = ipc.next[q][x] BY <1>9, <1>10
<1> QED BY <1>10, <1>14, <1>15, <1>16, <1>17 DEF u, H, size

\* Thread t takes a step, and the others stay in their calls.
Others(t) == \A u \in Thread \ {t} : pc'[u] = pc[u] /\ calls'[u] = calls[u] /\ Call(u)' = Call(u)

LEMMA OthersStay ==
  ASSUME NEW C, CallersOK(C), NEW t \in Thread, IpcStep(t) \/ PoolStep(t)
  PROVE  /\ Others(t) /\ pc'[t] \in Label \cup IpcLabel
         /\ pc'[t] \notin {"user"} => Call(t)' = Call(t)
<1>1. DOMAIN pc = Thread /\ DOMAIN calls = Thread BY DEF CallersOK, Engaged
<1>2. CASE Return(t) BY <1>1, <1>2, Labels DEF Return, Others, Call
<1>3. ASSUME NEW l \in Label \cup IpcLabel, Goto(t, l)
      PROVE  /\ Others(t) /\ pc'[t] \in Label \cup IpcLabel
             /\ pc'[t] \notin {"user"} => Call(t)' = Call(t)
  BY <1>1, <1>3 DEF Goto, Others, Call
<1>4. Return(t) \/ \E l \in Label \cup IpcLabel : Goto(t, l) BY Moves, Labels
<1> QED BY <1>2, <1>3, <1>4

\* What becomes of the blocks in the hands when that of t changes from nothing or to nothing.
LEMMA HandStep ==
  ASSUME HandsOK, NEW t \in Thread, Others(t), NEW h \in Nat, loc'.hand = [loc.hand EXCEPT ![t] = h],
         h # Block0 => Call(t)' = Call(t), h # Block0 <=> pc'[t] \in Handling,
         NEW q, q = Call(t).on, h \in {loc.hand[t], Block0} \/ h \notin Held(q)
  PROVE  /\ HandsOK'
         /\ \A p : p # q \/ h = loc.hand[t] => Held(p)' = Held(p)
         /\ h # Block0 /\ loc.hand[t] = Block0 => Held(q)' = Held(q) \cup {h}
         /\ h = Block0 /\ loc.hand[t] # Block0 => Held(q)' = Held(q) \ {loc.hand[t]}
<1>1. loc.hand \in [Thread -> Nat] BY DEF HandsOK
<1>2. loc'.hand \in [Thread -> Nat] /\ loc'.hand[t] = h /\ \A u \in Thread \ {t} : loc'.hand[u] = loc.hand[u]
  BY <1>1
<1>3. \A u \in Thread \ {t} : Call(u)' = Call(u) /\ pc'[u] = pc[u] BY DEF Others
<1>4. ASSUME NEW p PROVE /\ \A u \in Thread \ {t} : u \in Holders(p)' <=> u \in Holders(p)
                         /\ t \in Holders(p)' <=> h # Block0 /\ Call(t).on = p
                         /\ t \in Holders(p) <=> loc.hand[t] # Block0 /\ Call(t).on = p
  BY <1>2, <1>3 DEF Holders
<1>5. ASSUME NEW p, p # q \/ h = loc.hand[t] PROVE Held(p)' = Held(p)
  <2>1. Holders(p)' = Holders(p) BY <1>4, <1>5 DEF Holders
  <2>2. \A u \in Holders(p) : loc'.hand[u] = loc.hand[u] BY <1>2, <1>4, <1>5 DEF Holders
  <2> QED BY <2>1, <2>2 DEF Held
<1>6. ASSUME h # Block0, loc.hand[t] = Block0 PROVE Held(q)' = Held(q) \cup {h}
  <2>1. Holders(q)' = Holders(q) \cup {t} /\ t \notin Holders(q) BY <1>4, <1>6 DEF Holders
  <2>2. \A u \in Holders(q) : loc'.hand[u] = loc.hand[u] BY <1>2, <2>1 DEF Holders
  <2> QED BY <1>2, <2>1, <2>2 DEF Held
<1>7. ASSUME h = Block0, loc.hand[t] # Block0 PROVE Held(q)' = Held(q) \ {loc.hand[t]}
  <2>1. Holders(q)' = Holders(q) \ {t} /\ t \in Holders(q) BY <1>4, <1>7 DEF Holders
  <2>2. \A u \in Holders(q) \ {t} : loc'.hand[u] = loc.hand[u] /\ loc.hand[u] # loc.hand[t]
    BY <1>2, <1>7 DEF Holders, HandsOK
  <2> QED BY <2>1, <2>2 DEF Held
<1>8. \A u \in Thread : loc'.hand[u] # Block0 <=> pc'[u] \in Handling BY <1>2, <1>3 DEF HandsOK
<1>9. ASSUME NEW a \in Thread, NEW b \in Thread, a # b, loc'.hand[a] # Block0, Call(a)'.on = Call(b)'.on
      PROVE  loc'.hand[a] # loc'.hand[b]
  <2>0. ASSUME NEW u \in Thread \ {t}, loc.hand[u] # Block0, h # Block0, Call(u).on = Call(t).on
        PROVE  loc.hand[u] # h
    <3>1. loc.hand[u] \in Held(q) BY <2>0 DEF Held, Holders
    <3>2. h = loc.hand[t] => loc.hand[u] # h BY <2>0 DEF HandsOK
    <3> QED BY <2>0, <3>1, <3>2
  <2>1. CASE a # t /\ b # t BY <1>2, <1>3, <1>9, <2>1 DEF HandsOK
  <2>2. CASE a = t /\ h # loc'.hand[b] BY <1>2, <2>2
  <2>3. CASE a = t /\ h = loc'.hand[b]
    <3>1. h # Block0 /\ b # t /\ loc.hand[b] = h BY <1>2, <1>9, <2>3
    <3>2. Call(b).on = Call(t).on BY <1>3, <1>9, <2>3, <3>1
    <3> QED BY <2>0, <3>1, <3>2
  <2>4. CASE b = t /\ h = Block0 BY <1>2, <1>9, <2>4
  <2>5. CASE b = t /\ h # Block0
    <3>1. a # t /\ loc.hand[a] # Block0 /\ loc'.hand[a] = loc.hand[a] BY <1>2, <1>9, <2>5
    <3>2. Call(a).on = Call(t).on BY <1>3, <1>9, <2>5, <3>1
    <3> QED BY <1>2, <2>0, <2>5, <3>1, <3>2
  <2> QED BY <2>1, <2>2, <2>3, <2>4, <2>5
<1>10. HandsOK' BY <1>2, <1>8, <1>9 DEF HandsOK
<1> QED BY <1>5, <1>6, <1>7, <1>10

\* The fields of queue q stay what they are.
SameQueue(q) ==
  /\ ipc'.next[q] = ipc.next[q] /\ ipc'.text[q] = ipc.text[q] /\ ipc'.head[q] = ipc.head[q]
  /\ ipc'.tail[q] = ipc.tail[q] /\ ipc'.free[q] = ipc.free[q] /\ ipc'.entry[q] = ipc.entry[q]

LEMMA LaneStays ==
  ASSUME NEW q, NEW Q, NEW F, Lane(q, Q, F), SameQueue(q), Held(q)' = Held(q) PROVE Lane(q, Q, F)'
BY DEF Lane, SameQueue

\* A step on queue q, by thread t.
LEMMA QueueStep ==
  ASSUME QueuesKept, NEW t \in Thread, Others(t), NEW q \in MessageQueue, q = Call(t).on,
         NEW h \in Nat, loc'.hand = [loc.hand EXCEPT ![t] = h],
         h # Block0 => Call(t)' = Call(t), h # Block0 <=> pc'[t] \in Handling,
         h \in {loc.hand[t], Block0} \/ h \notin Held(q),
         QueueDomains', \A p \in MessageQueue \ {q} : SameQueue(p),
         pc'[t] = "link" => /\ ipc'.text[q][h] = Call(t).val
                            /\ Call(t).op = "mq_send" => ipc'.next[q][h] = Block0,
         \A m \in Held(q) \ {loc.hand[t]} :
           ipc'.text[q][m] = ipc.text[q][m] /\ ipc'.next[q][m] = ipc.next[q][m],
         \E Q, F : Lane(q, Q, F)'
  PROVE  QueuesKept' /\ \A p \in MessageQueue \ {q} : \A P, G : Lane(p, P, G) => Lane(p, P, G)'
<1>1. HandsOK /\ QueueDomains /\ Filled BY DEF QueuesKept
<1>2. HandsOK' /\ \A p : p # q => Held(p)' = Held(p) BY <1>1, HandStep
<1>3. \A p \in MessageQueue \ {q} : \A P, G : Lane(p, P, G) => Lane(p, P, G)' BY <1>2, LaneStays
<1>4. loc'.hand[t] = h /\ \A u \in Thread \ {t} : loc'.hand[u] = loc.hand[u] BY <1>1 DEF HandsOK
<1>5. Filled'
  <2> SUFFICES ASSUME NEW u \in Thread, pc'[u] = "link"
               PROVE  /\ Call(u)'.on \in MessageQueue /\ ipc'.text[Call(u)'.on][loc'.hand[u]] = Call(u)'.val
                      /\ Call(u)'.op = "mq_send" => ipc'.next[Call(u)'.on][loc'.hand[u]] = Block0
    BY DEF Filled
  <2>1. CASE u = t
    <3>1. h # Block0 BY <2>1 DEF Handling
    <3> QED BY <1>4, <2>1, <3>1
  <2>2. CASE u # t
    <3>1. /\ pc[u] = "link" /\ Call(u)' = Call(u) /\ loc'.hand[u] = loc.hand[u] /\ loc.hand[u] # Block0
      BY <1>1, <1>4, <2>2 DEF Others, HandsOK, Handling
    <3>2. Call(u).on \in MessageQueue /\ ipc.text[Call(u).on][loc.hand[u]] = Call(u).val
          /\ (Call(u).op = "mq_send" => ipc.next[Call(u).on][loc.hand[u]] = Block0)
      BY <1>1, <3>1 DEF Filled
    <3>3. CASE Call(u).on = q
      <4>1. loc.hand[u] \in Held(q) /\ loc.hand[u] # loc.hand[t]
        BY <1>1, <2>2, <3>1, <3>3 DEF Held, Holders, HandsOK
      <4> QED BY <3>1, <3>2, <3>3, <4>1
    <3>4. CASE Call(u).on # q
      <4>1. SameQueue(Call(u).on) BY <3>2, <3>4
      <4> QED BY <3>1, <3>2, <4>1 DEF SameQueue
    <3> QED BY <3>3, <3>4
  <2> QED BY <2>1, <2>2
<1>6. ASSUME NEW p \in MessageQueue PROVE \E Q, F : Lane(p, Q, F)'
  <2>1. CASE p = q BY <2>1
  <2>2. CASE p # q
    <3>1. PICK Q, F : Lane(p, Q, F) BY DEF QueuesKept
    <3> QED BY <1>3, <2>2, <3>1
  <2> QED BY <2>1, <2>2
<1> QED BY <1>2, <1>3, <1>5, <1>6 DEF QueuesKept

LEMMA StepMoves ==
  ASSUME NEW C, CallersOK(C), NEW t \in Thread
  PROVE  /\ Return(t) => Others(t) /\ pc'[t] = "user"
         /\ \A l : Goto(t, l) => Others(t) /\ pc'[t] = l /\ Call(t)' = Call(t)
<1>1. DOMAIN pc = Thread /\ DOMAIN calls = Thread BY DEF CallersOK, Engaged
<1> QED BY <1>1 DEF Return, Goto, Others, Call

\* What a step on queue q leaves as it should be; Q and F are its lists afterwards.
Rearranged(q, Q, F) ==
  /\ QueuesKept' /\ Lane(q, Q, F)'
  /\ \A p \in MessageQueue \ {q} : SameQueue(p) /\ \A P, G : Lane(p, P, G) => Lane(p, P, G)'

LEMMA QueueStepLeaves ==
  ASSUME QueuesKept, NEW t \in Thread, Others(t), NEW q \in MessageQueue, q = Call(t).on,
         NEW h \in Nat, loc'.hand = [loc.hand EXCEPT ![t] = h],
         h # Block0 => Call(t)' = Call(t), h # Block0 <=> pc'[t] \in Handling,
         h \in {loc.hand[t], Block0} \/ h \notin Held(q),
         QueueDomains', \A p \in MessageQueue \ {q} : SameQueue(p),
         pc'[t] = "link" => /\ ipc'.text[q][h] = Call(t).val
                            /\ Call(t).op = "mq_send" => ipc'.next[q][h] = Block0,
         \A m \in Held(q) \ {loc.hand[t]} :
           ipc'.text[q][m] = ipc.text[q][m] /\ ipc'.next[q][m] = ipc.next[q][m],
         NEW Q, NEW F, Lane(q, Q, F)'
  PROVE  Rearranged(q, Q, F)
<1>1. \E P, G : Lane(q, P, G)' OBVIOUS
<1>2. QueuesKept' /\ \A p \in MessageQueue \ {q} : \A P, G : Lane(p, P, G) => Lane(p, P, G)'
  BY SMTT(30), <1>1, QueueStep
<1> QED BY <1>2 DEF Rearranged

\* What the steps on message queues have in common.
OnQueue(C, t, q, Q, F) ==
  /\ CallersOK(C) /\ LocalsOK /\ QueuesKept /\ t \in Thread /\ q \in MessageQueue /\ q = Call(t).on
  /\ Lane(q, Q, F)

LEMMA OnQueueIs ==
  ASSUME NEW C, NEW t, NEW q, NEW Q, NEW F, OnQueue(C, t, q, Q, F)
  PROVE  /\ t \in Thread /\ Size[q] \in Nat /\ DOMAIN ipc = IpcFields /\ DOMAIN loc = LocFields
         /\ DOMAIN loc.hand = Thread /\ loc.hand[t] \in Nat /\ HandsOK /\ QueueDomains /\ Filled
         /\ q \in Box /\ q \in MessageQueue /\ q = Call(t).on /\ CallersOK(C) /\ QueuesKept
         /\ loc.hand[t] # Block0 <=> pc[t] \in Handling
         /\ loc.hand[t] # Block0 => loc.hand[t] \in Held(q)
         /\ Arranged(Size[q], ipc.next[q], ipc.head[q], ipc.tail[q], ipc.free[q], ipc.entry[q], Held(q), Q, F)
BY SizeIs, Lists DEF OnQueue, LocalsOK, QueuesKept, HandsOK, Lane, Held, Holders

LEMMA TakeLeaves ==
  ASSUME NEW C, NEW t, NEW q, NEW Q, NEW F, OnQueue(C, t, q, Q, F),
         pc[t] \notin Handling, ipc.free[q] # Block0, TakeFree(t, q)
  PROVE  Rearranged(q, Q, Tail(F)) /\ ipc'.text = ipc.text
<1> DEFINE h == ipc.free[q]
<1>1. /\ DOMAIN ipc' = IpcFields /\ ipc'.free = [ipc.free EXCEPT ![q] = ipc.next[q][h]]
      /\ \A f \in IpcFields \ {"free"} : ipc'[f] = ipc[f]
  BY OnQueueIs DEF TakeFree, IpcFields
<1>2. loc'.hand = [loc.hand EXCEPT ![t] = h]
  BY OnQueueIs DEF TakeFree, Leave, LocFields
<1>3. Others(t) /\ pc'[t] = "fill" /\ Call(t)' = Call(t) BY OnQueueIs, StepMoves DEF TakeFree
<1>4. /\ h \in 1 .. Size[q] /\ h \notin Held(q)
      /\ Arranged(Size[q], ipc.next[q], ipc.head[q], ipc.tail[q], ipc.next[q][h], ipc.entry[q],
                  Held(q) \cup {h}, Q, Tail(F))
  <2>1. Size[q] \in Nat /\ Arranged(Size[q], ipc.next[q], ipc.head[q], ipc.tail[q], h, ipc.entry[q], Held(q), Q, F)
    BY OnQueueIs
  <2>2. h # Block0 OBVIOUS
  <2> HIDE DEF h
  <2> QED BY <2>1, <2>2, TakeArranged
<1> HIDE DEF h
<1>5. h \in Nat /\ h # Block0 BY <1>4, OnQueueIs DEF Block0
<1>6. Held(q)' = Held(q) \cup {h}
  <2>1. loc.hand[t] = Block0 BY OnQueueIs
  <2>2. h # Block0 <=> pc'[t] \in Handling BY <1>3, <1>5 DEF Handling
  <2> QED BY <1>2, <1>3, <1>4, <1>5, <2>1, <2>2, HandStep, OnQueueIs
<1>7. /\ ipc'.free[q] = ipc.next[q][h] /\ ipc'.next = ipc.next /\ ipc'.head = ipc.head /\ ipc'.tail = ipc.tail
      /\ ipc'.entry = ipc.entry /\ ipc'.text = ipc.text
  BY <1>1, OnQueueIs DEF QueueDomains, IpcFields
<1>8. Lane(q, Q, Tail(F))' BY <1>4, <1>6, <1>7 DEF Lane
<1>9. QueueDomains' BY <1>1, <1>7, OnQueueIs DEF QueueDomains
<1>10. \A p \in MessageQueue \ {q} : SameQueue(p) BY <1>1, <1>7, OnQueueIs DEF QueueDomains, SameQueue
<1>11. h # Block0 <=> pc'[t] \in Handling BY <1>3, <1>5 DEF Handling
<1>12. Rearranged(q, Q, Tail(F))
  BY SMTT(30), <1>2, <1>3, <1>4, <1>5, <1>7, <1>8, <1>9, <1>10, <1>11, OnQueueIs, QueueStepLeaves
<1> QED BY <1>7, <1>12

LEMMA FillLeaves ==
  ASSUME NEW C, NEW t, NEW q, NEW Q, NEW F, OnQueue(C, t, q, Q, F), MqFill(t)
  PROVE  LET m == loc.hand[t] IN
         /\ Rearranged(q, Q, F) /\ m \in Blocks(q) /\ m \notin Range(Q) /\ loc' = loc
         /\ ipc'.text = [ipc.text EXCEPT ![q][m] = Call(t).val]
<1> DEFINE m == loc.hand[t]
           x == IF Call(t).op = "mq_send" THEN Block0 ELSE ipc.next[q][m]
<1>1. pc[t] = "fill" /\ m \in Held(q) BY OnQueueIs DEF MqFill, At, Handling
<1>2. m \in 1 .. Size[q] /\ m \notin Range(Q) /\ m \notin Range(F) /\ ipc.next[q] \in [1 .. Size[q] -> 0 .. Size[q]]
  BY <1>1, OnQueueIs DEF Arranged, Parts
<1>3. x \in 0 .. Size[q] BY <1>2, OnQueueIs DEF Block0
<1>4. Arranged(Size[q], [ipc.next[q] EXCEPT ![m] = x], ipc.head[q], ipc.tail[q], ipc.free[q], ipc.entry[q],
               Held(q), Q, F)
  BY <1>1, <1>3, OnQueueIs, HandIsOutside
<1>5. /\ DOMAIN ipc' = IpcFields /\ \A f \in IpcFields \ {"text", "next"} : ipc'[f] = ipc[f]
      /\ ipc'.text = [ipc.text EXCEPT ![q] = [ipc.text[q] EXCEPT ![m] = Call(t).val]]
      /\ ipc'.next = [ipc.next EXCEPT ![q] = [ipc.next[q] EXCEPT ![m] = x]]
  BY <1>2, OnQueueIs DEF MqFill, IpcFields, QueueDomains, OnQueue
<1> HIDE DEF x
<1>6. /\ ipc'.next[q] = [ipc.next[q] EXCEPT ![m] = x] /\ ipc'.head = ipc.head /\ ipc'.tail = ipc.tail
      /\ ipc'.entry = ipc.entry /\ ipc'.free = ipc.free
      /\ ipc'.text[q] = [ipc.text[q] EXCEPT ![m] = Call(t).val]
      /\ \A p \in MessageQueue \ {q} : ipc'.next[p] = ipc.next[p] /\ ipc'.text[p] = ipc.text[p]
  BY <1>5, OnQueueIs DEF QueueDomains, IpcFields
<1>7. loc' = loc /\ loc'.hand = [loc.hand EXCEPT ![t] = m] BY OnQueueIs DEF MqFill, HandsOK
<1>8. Others(t) /\ pc'[t] = "link" /\ Call(t)' = Call(t) BY OnQueueIs, StepMoves DEF MqFill
<1>9. m \in Nat /\ m # Block0 /\ (m # Block0 <=> pc'[t] \in Handling) BY <1>1, <1>8, OnQueueIs DEF Handling
<1>10. Held(q)' = Held(q) BY <1>7, <1>8, <1>9, OnQueueIs, HandStep
<1>11. Lane(q, Q, F)' BY <1>4, <1>6, <1>10 DEF Lane
<1>12. QueueDomains' /\ \A p \in MessageQueue \ {q} : SameQueue(p)
  BY <1>5, <1>6, OnQueueIs DEF QueueDomains, SameQueue
<1>13. \A y \in Held(q) \ {m} : ipc'.text[q][y] = ipc.text[q][y] /\ ipc'.next[q][y] = ipc.next[q][y]
  <2>1. Held(q) \subseteq 1 .. Size[q] BY OnQueueIs DEF Arranged, Parts
  <2>2. DOMAIN ipc.text[q] = 1 .. Size[q] BY OnQueueIs DEF QueueDomains, Blocks
  <2> QED BY <1>2, <1>6, <2>1, <2>2
<1>14. ipc'.text[q][m] = Call(t).val /\ (Call(t).op = "mq_send" => ipc'.next[q][m] = Block0)
  BY <1>2, <1>6, OnQueueIs DEF QueueDomains, Blocks, x
<1> HIDE DEF m
<1>15. Rearranged(q, Q, F)
  <2>1. PICK h \in Nat : h = m BY <1>9
  <2>2. QueuesKept /\ t \in Thread /\ q \in MessageQueue /\ q = Call(t).on /\ h = loc.hand[t]
    BY <2>1, OnQueueIs DEF m
  <2>3. /\ loc'.hand = [loc.hand EXCEPT ![t] = h] /\ (h # Block0 <=> pc'[t] \in Handling)
        /\ ipc'.text[q][h] = Call(t).val /\ (Call(t).op = "mq_send" => ipc'.next[q][h] = Block0)
    BY <1>7, <1>9, <1>14, <2>1
  <2>4. \A y \in Held(q) \ {loc.hand[t]} : ipc'.text[q][y] = ipc.text[q][y] /\ ipc'.next[q][y] = ipc.next[q][y]
    BY <1>13, <2>1, <2>2
  <2> QED BY ZenonT(40), <1>8, <1>11, <1>12, <2>2, <2>3, <2>4, QueueStepLeaves
<1> QED BY <1>2, <1>5, <1>7, <1>15 DEF m, Blocks

\* What a step that empties the hand of its thread leaves.
LEMMA DropLeaves ==
  ASSUME NEW C, NEW t, NEW q, NEW Q, NEW F, OnQueue(C, t, q, Q, F), NEW m, m = loc.hand[t], m # Block0,
         Others(t), pc'[t] \notin Handling, loc' = [loc EXCEPT !.hand[t] = Block0],
         QueueDomains', \A p \in MessageQueue \ {q} : SameQueue(p),
         ipc'.text = ipc.text, \A y \in Held(q) \ {m} : ipc'.next[q][y] = ipc.next[q][y],
         NEW P, NEW G,
         Arranged(Size[q], ipc'.next[q], ipc'.head[q], ipc'.tail[q], ipc'.free[q], ipc'.entry[q],
                  Held(q) \ {m}, P, G)
  PROVE  Rearranged(q, P, G)
<1>1. loc'.hand = [loc.hand EXCEPT ![t] = Block0] BY OnQueueIs DEF LocFields
<1>2. Block0 \in Nat BY DEF Block0
<1>3. Held(q)' = Held(q) \ {m}
  <2>1. t \in Thread /\ HandsOK /\ q = Call(t).on BY OnQueueIs
  <2> QED BY <1>1, <1>2, <2>1, HandStep
<1>4. Lane(q, P, G)' BY <1>3 DEF Lane
<1>5. QueuesKept /\ t \in Thread /\ q \in MessageQueue /\ q = Call(t).on BY OnQueueIs
<1>6. pc'[t] # "link" BY DEF Handling
<1> QED BY <1>1, <1>2, <1>4, <1>5, <1>6, QueueStepLeaves

LEMMA WakeMoves ==
  ASSUME NEW C, CallersOK(C), NEW t \in Thread, NEW o, WakeAndReturn(t, o)
  PROVE  Others(t) /\ pc'[t] \in {"user", "schedule"}
BY StepMoves DEF WakeAndReturn

LEMMA LinkLeaves ==
  ASSUME NEW C, NEW t, NEW q, NEW Q, NEW F, OnQueue(C, t, q, Q, F), MqLink(t), NEW m, m = loc.hand[t]
  PROVE  /\ Call(t).op = "mq_send" => Rearranged(q, Append(Q, m), F)
         /\ Call(t).op # "mq_send" => Rearranged(q, <<m>> \o Q, F)
         /\ m \in Blocks(q) /\ m \notin Range(Q) /\ ipc.text[q][m] = Call(t).val
         /\ ipc'.text = ipc.text /\ loc' = [loc EXCEPT !.hand[t] = Block0]
<1>1. pc[t] = "link" /\ loc.hand[t] # Block0 /\ loc.hand[t] \in Held(q)
  BY OnQueueIs DEF MqLink, At, Handling
<1>2. m \in Held(q) /\ m = loc.hand[t] BY <1>1
<1>3. ipc.text[q][m] = Call(t).val /\ (Call(t).op = "mq_send" => ipc.next[q][m] = Block0)
  BY <1>1, <1>2, OnQueueIs DEF Filled
<1>4. /\ m \in Held(q) /\ m # Block0 /\ m \in 1 .. Size[q] /\ m \notin Range(Q)
      /\ Arranged(Size[q], ipc.next[q], ipc.head[q], ipc.tail[q], ipc.free[q], ipc.entry[q], Held(q), Q, F)
      /\ Size[q] \in Nat
  BY <1>1, <1>2, OnQueueIs DEF Arranged, Parts
<1>5. Others(t) /\ pc'[t] \notin Handling BY OnQueueIs, WakeMoves DEF MqLink, Handling
<1>6. loc' = [loc EXCEPT !.hand[t] = Block0] BY DEF MqLink
<1>7. CASE Call(t).op = "mq_send"
  <2> DEFINE tail == ipc.tail[q]
             other == IF tail # Block0 THEN [ipc.next[q] EXCEPT ![tail] = m] ELSE ipc.next[q]
             first == IF ipc.head[q] = Block0 THEN m ELSE ipc.head[q]
  <2>1. ipc' = LinkLast(q, m) BY <1>2, <1>7, OnQueueIs DEF MqLink
  <2>2. /\ DOMAIN ipc' = IpcFields /\ ipc'.next = [ipc.next EXCEPT ![q] = other]
        /\ ipc'.tail = [ipc.tail EXCEPT ![q] = m] /\ ipc'.head = [ipc.head EXCEPT ![q] = first]
        /\ ipc'.entry = [ipc.entry EXCEPT ![q] = ipc.entry[q] + 1] /\ ipc'.free = ipc.free
        /\ ipc'.text = ipc.text
    BY <2>1, OnQueueIs DEF LinkLast, IpcFields
  <2>3. Arranged(Size[q], other, first, m, ipc.free[q], ipc.entry[q] + 1, Held(q) \ {m}, Append(Q, m), F)
    <3>1. PICK n, next, head, last, free, entry, H :
             /\ n = Size[q] /\ next = ipc.next[q] /\ head = ipc.head[q] /\ last = ipc.tail[q]
             /\ free = ipc.free[q] /\ entry = ipc.entry[q] /\ H = Held(q)
      OBVIOUS
    <3>2. n \in Nat /\ Arranged(n, next, head, last, free, entry, H, Q, F) BY <1>4, <3>1
    <3>3. m \in H /\ next[m] = Block0 BY <1>2, <1>3, <1>7, <3>1
    <3>4. Arranged(n, IF last # Block0 THEN [next EXCEPT ![last] = m] ELSE next,
                   IF head = Block0 THEN m ELSE head, m, free, entry + 1, H \ {m}, Append(Q, m), F)
      BY ONLY <3>2, <3>3, LastArranged
    <3> QED BY <3>1, <3>4
  <2>4. \A y \in Held(q) \ {m} : other[y] = ipc.next[q][y]
    <3>1. tail # Block0 => tail \in Range(Q)
      <4>1. (Q = <<>> => tail = Block0) /\ (Q # <<>> => tail \in Range(Q))
        <5>1. Q = <<>> => tail = Block0 BY <1>4 DEF Arranged
        <5> QED BY <1>4, <5>1, ArrangedTypes
      <4> QED BY <4>1
    <3>2. Range(Q) \cap Held(q) = {} BY <1>4 DEF Arranged, Parts
    <3> QED BY <3>1, <3>2
  <2> HIDE DEF other, first
  <2>5. /\ ipc'.next[q] = other /\ ipc'.tail[q] = m /\ ipc'.head[q] = first
        /\ ipc'.entry[q] = ipc.entry[q] + 1 /\ ipc'.free[q] = ipc.free[q]
    BY <2>2, OnQueueIs DEF QueueDomains
  <2>6. QueueDomains' /\ \A p \in MessageQueue \ {q} : SameQueue(p)
    BY <2>2, OnQueueIs DEF QueueDomains, SameQueue
  <2>7. Arranged(Size[q], ipc'.next[q], ipc'.head[q], ipc'.tail[q], ipc'.free[q], ipc'.entry[q],
                 Held(q) \ {m}, Append(Q, m), F)
    BY <2>3, <2>5
  <2>8. (\A y \in Held(q) \ {m} : ipc'.next[q][y] = ipc.next[q][y]) /\ ipc'.text = ipc.text BY <2>2, <2>4, <2>5
  <2>9. m = loc.hand[t] /\ m # Block0 BY <1>2, <1>4
  <2>10. Rearranged(q, Append(Q, m), F)
    BY <1>5, <1>6, <2>6, <2>7, <2>8, <2>9, DropLeaves
  <2> QED BY <1>2, <1>3, <1>4, <1>6, <1>7, <2>2, <2>10 DEF Blocks
<1>8. CASE Call(t).op # "mq_send"
  <2> DEFINE other == [ipc.next[q] EXCEPT ![m] = ipc.head[q]]
             last == IF ipc.tail[q] = Block0 THEN m ELSE ipc.tail[q]
  <2>1. ipc' = LinkFirst(q, m) BY <1>2, <1>8, OnQueueIs DEF MqLink
  <2>2. /\ DOMAIN ipc' = IpcFields /\ ipc'.next = [ipc.next EXCEPT ![q] = other]
        /\ ipc'.tail = [ipc.tail EXCEPT ![q] = last] /\ ipc'.head = [ipc.head EXCEPT ![q] = m]
        /\ ipc'.entry = [ipc.entry EXCEPT ![q] = ipc.entry[q] + 1] /\ ipc'.free = ipc.free
        /\ ipc'.text = ipc.text
    BY <2>1, OnQueueIs DEF LinkFirst, IpcFields, QueueDomains
  <2>3. Arranged(Size[q], other, m, last, ipc.free[q], ipc.entry[q] + 1, Held(q) \ {m}, <<m>> \o Q, F)
    BY <1>4, FirstArranged
  <2>4. \A y \in Held(q) \ {m} : other[y] = ipc.next[q][y]
    <3>1. Held(q) \subseteq 1 .. Size[q] /\ ipc.next[q] \in [1 .. Size[q] -> 0 .. Size[q]]
      BY <1>4 DEF Arranged, Parts
    <3> QED BY <3>1
  <2> HIDE DEF other, last
  <2>5. /\ ipc'.next[q] = other /\ ipc'.tail[q] = last /\ ipc'.head[q] = m
        /\ ipc'.entry[q] = ipc.entry[q] + 1 /\ ipc'.free[q] = ipc.free[q]
    BY <2>2, OnQueueIs DEF QueueDomains
  <2>6. QueueDomains' /\ \A p \in MessageQueue \ {q} : SameQueue(p)
    BY <2>2, OnQueueIs DEF QueueDomains, SameQueue
  <2>7. Arranged(Size[q], ipc'.next[q], ipc'.head[q], ipc'.tail[q], ipc'.free[q], ipc'.entry[q],
                 Held(q) \ {m}, <<m>> \o Q, F)
    BY <2>3, <2>5
  <2>8. (\A y \in Held(q) \ {m} : ipc'.next[q][y] = ipc.next[q][y]) /\ ipc'.text = ipc.text BY <2>2, <2>4, <2>5
  <2>9. m = loc.hand[t] /\ m # Block0 BY <1>2, <1>4
  <2>10. Rearranged(q, <<m>> \o Q, F)
    BY <1>5, <1>6, <2>6, <2>7, <2>8, <2>9, DropLeaves
  <2> QED BY <1>2, <1>3, <1>4, <1>6, <1>8, <2>2, <2>10 DEF Blocks
<1> QED BY <1>7, <1>8

LEMMA FreeLeaves ==
  ASSUME NEW C, NEW t, NEW q, NEW Q, NEW F, OnQueue(C, t, q, Q, F), MqFree(t)
  PROVE  /\ \E G : Rearranged(q, Q, G)
         /\ ipc'.text = ipc.text /\ loc' = [loc EXCEPT !.hand[t] = Block0]
<1>1. pc[t] = "free" /\ loc.hand[t] # Block0 /\ loc.hand[t] \in Held(q)
  BY OnQueueIs DEF MqFree, At, Handling
<1>2. PICK m \in Held(q) : m = loc.hand[t] BY <1>1
<1>4. /\ m # Block0 /\ m \in 1 .. Size[q] /\ m \notin Range(Q)
      /\ Arranged(Size[q], ipc.next[q], ipc.head[q], ipc.tail[q], ipc.free[q], ipc.entry[q], Held(q), Q, F)
      /\ Size[q] \in Nat
  BY <1>1, <1>2, OnQueueIs DEF Arranged, Parts
<1>5. Others(t) /\ pc'[t] \notin Handling BY OnQueueIs, WakeMoves DEF MqFree, Handling
<1>6. loc' = [loc EXCEPT !.hand[t] = Block0] BY DEF MqFree
<1> DEFINE other == [ipc.next[q] EXCEPT ![m] = ipc.free[q]]
<1>7. ipc' = PutFree(ipc, q, m) BY <1>2, OnQueueIs DEF MqFree
<1>8. /\ DOMAIN ipc' = IpcFields /\ ipc'.next = [ipc.next EXCEPT ![q] = other]
      /\ ipc'.free = [ipc.free EXCEPT ![q] = m] /\ ipc'.head = ipc.head /\ ipc'.tail = ipc.tail
      /\ ipc'.entry = ipc.entry /\ ipc'.text = ipc.text
  BY <1>7, OnQueueIs DEF PutFree, IpcFields, QueueDomains
<1>9. Arranged(Size[q], other, ipc.head[q], ipc.tail[q], m, ipc.entry[q], Held(q) \ {m}, Q, <<m>> \o F)
  BY <1>4, PutArranged
<1>10. \A y \in Held(q) \ {m} : other[y] = ipc.next[q][y]
  <2>1. Held(q) \subseteq 1 .. Size[q] /\ ipc.next[q] \in [1 .. Size[q] -> 0 .. Size[q]]
    BY <1>4 DEF Arranged, Parts
  <2> QED BY <2>1
<1> HIDE DEF other
<1>11. ipc'.next[q] = other /\ ipc'.free[q] = m BY <1>8, OnQueueIs DEF QueueDomains
<1>12. QueueDomains' /\ \A p \in MessageQueue \ {q} : SameQueue(p)
  BY <1>8, OnQueueIs DEF QueueDomains, SameQueue
<1>13. Rearranged(q, Q, <<m>> \o F)
  <2>1. Arranged(Size[q], ipc'.next[q], ipc'.head[q], ipc'.tail[q], ipc'.free[q], ipc'.entry[q],
                 Held(q) \ {m}, Q, <<m>> \o F)
    BY <1>8, <1>9, <1>11
  <2>2. (\A y \in Held(q) \ {m} : ipc'.next[q][y] = ipc.next[q][y]) /\ ipc'.text = ipc.text BY <1>8, <1>10, <1>11
  <2>3. m = loc.hand[t] /\ m # Block0 BY <1>2, <1>4
  <2> QED BY <1>5, <1>6, <1>12, <2>1, <2>2, <2>3, DropLeaves
<1> QED BY <1>2, <1>6, <1>8, <1>13

LEMMA UnlinkLeaves ==
  ASSUME NEW C, NEW t, NEW q, NEW Q, NEW F, OnQueue(C, t, q, Q, F), pc[t] \notin Handling,
         ipc.entry[q] > 0, ipc' = UnlinkFirst(q), loc' = [Leave(loc, t) EXCEPT !.hand[t] = ipc.head[q]],
         Goto(t, "copy")
  PROVE  /\ Rearranged(q, Tail(Q), F) /\ Q # <<>> /\ Head(Q) = ipc.head[q] /\ ipc.head[q] \in Blocks(q)
         /\ ipc'.text = ipc.text /\ loc'.hand = [loc.hand EXCEPT ![t] = ipc.head[q]] /\ loc'.got = loc.got
<1> DEFINE h == ipc.head[q]
           last == IF ipc.tail[q] = h THEN Block0 ELSE ipc.tail[q]
<1>1. /\ DOMAIN ipc' = IpcFields /\ ipc'.head = [ipc.head EXCEPT ![q] = ipc.next[q][h]]
      /\ ipc'.tail = [ipc.tail EXCEPT ![q] = last] /\ ipc'.entry = [ipc.entry EXCEPT ![q] = ipc.entry[q] - 1]
      /\ ipc'.next = ipc.next /\ ipc'.free = ipc.free /\ ipc'.text = ipc.text
  BY OnQueueIs DEF UnlinkFirst, IpcFields
<1>2. loc'.hand = [loc.hand EXCEPT ![t] = h] /\ loc'.got = loc.got
  BY OnQueueIs DEF Leave, LocFields
<1>3. Others(t) /\ pc'[t] = "copy" /\ Call(t)' = Call(t) BY OnQueueIs, StepMoves
<1>4. /\ Q # <<>> /\ h = Head(Q) /\ h \in 1 .. Size[q] /\ h \notin Held(q)
      /\ Arranged(Size[q], ipc.next[q], ipc.next[q][h], last, ipc.free[q], ipc.entry[q] - 1,
                  Held(q) \cup {h}, Tail(Q), F)
  <2>1. /\ Size[q] \in Nat
        /\ Arranged(Size[q], ipc.next[q], h, ipc.tail[q], ipc.free[q], ipc.entry[q], Held(q), Q, F)
    BY OnQueueIs
  <2> HIDE DEF h
  <2>2. /\ Q # <<>> /\ h = Head(Q) /\ h \in 1 .. Size[q] /\ h \notin Held(q)
        /\ Arranged(Size[q], ipc.next[q], ipc.next[q][h], IF ipc.tail[q] = h THEN Block0 ELSE ipc.tail[q],
                    ipc.free[q], ipc.entry[q] - 1, Held(q) \cup {h}, Tail(Q), F)
    <3> HIDE DEF last
    <3>1. PICK n, next, tail, free, entry, H :
            /\ n \in Nat /\ n = Size[q] /\ next = ipc.next[q] /\ tail = ipc.tail[q] /\ free = ipc.free[q]
            /\ entry = ipc.entry[q] /\ H = Held(q)
      BY <2>1
    <3>2. n \in Nat /\ Arranged(n, next, h, tail, free, entry, H, Q, F) /\ entry > 0 BY <2>1, <3>1
    <3>3. /\ Q # <<>> /\ h = Head(Q) /\ h \in 1 .. n /\ h \notin H
          /\ Arranged(n, next, next[h], IF tail = h THEN Block0 ELSE tail, free, entry - 1, H \cup {h}, Tail(Q), F)
      BY <3>2, UnlinkArranged
    <3> QED BY <3>1, <3>3
  <2> QED BY <2>2
<1> HIDE DEF h, last
<1>5. h \in Nat /\ h # Block0 /\ (h # Block0 <=> pc'[t] \in Handling)
  BY <1>3, <1>4, OnQueueIs DEF Block0, Handling
<1>6. Held(q)' = Held(q) \cup {h}
  <2>1. loc.hand[t] = Block0 /\ t \in Thread /\ HandsOK /\ q = Call(t).on BY OnQueueIs
  <2> QED BY <1>2, <1>3, <1>4, <1>5, <2>1, HandStep
<1>7. /\ ipc'.head[q] = ipc.next[q][h] /\ ipc'.tail[q] = last /\ ipc'.entry[q] = ipc.entry[q] - 1
  BY <1>1, OnQueueIs DEF QueueDomains
<1>8. Lane(q, Tail(Q), F)' BY <1>1, <1>4, <1>6, <1>7 DEF Lane
<1>9. QueueDomains' /\ \A p \in MessageQueue \ {q} : SameQueue(p)
  BY <1>1, OnQueueIs DEF QueueDomains, SameQueue
<1>10. QueuesKept /\ t \in Thread /\ q \in MessageQueue /\ q = Call(t).on BY OnQueueIs
<1>11. pc'[t] # "link" BY <1>3
<1>12. Rearranged(q, Tail(Q), F)
  BY <1>1, <1>2, <1>3, <1>4, <1>5, <1>8, <1>9, <1>10, <1>11, QueueStepLeaves
<1> QED BY <1>1, <1>2, <1>4, <1>12 DEF h, Blocks

LEMMA ResetLeaves ==
  ASSUME NEW C, NEW t, NEW q, NEW Q, NEW F, OnQueue(C, t, q, Q, F), MqReset(t)
  PROVE  /\ \E G : Rearranged(q, <<>>, G)
         /\ ipc'.text = ipc.text /\ loc' = loc
<1> DEFINE i == FreeAll(q)
<1>1. ipc' = i /\ loc' = loc /\ Goto(t, "schedule") /\ pc[t] = "user"
  BY OnQueueIs DEF MqReset, Calls
<1>2. PICK G :
      /\ DOMAIN i = IpcFields
      /\ \A f \in IpcFields \ {"next", "free", "head", "tail", "entry"} : i[f] = ipc[f]
      /\ \A f \in {"next", "free", "head", "tail", "entry"} :
           DOMAIN i[f] = DOMAIN ipc[f] /\ \A p \in DOMAIN ipc[f] \ {q} : i[f][p] = ipc[f][p]
      /\ \A x \in Held(q) : i.next[q][x] = ipc.next[q][x]
      /\ Arranged(Size[q], i.next[q], i.head[q], i.tail[q], i.free[q], i.entry[q], Held(q), <<>>, G)
  <2>1. QueueDomains /\ DOMAIN ipc = IpcFields /\ q \in MessageQueue /\ Lane(q, Q, F)
    BY OnQueueIs DEF OnQueue
  <2> HIDE DEF i
  <2> QED BY <2>1, Emptied DEF i
<1> HIDE DEF i
<1>3. Others(t) /\ pc'[t] = "schedule" /\ Call(t)' = Call(t) BY <1>1, OnQueueIs, StepMoves
<1>4. loc.hand[t] = Block0 /\ loc'.hand = [loc.hand EXCEPT ![t] = Block0] /\ pc'[t] \notin Handling
  BY <1>1, <1>3, OnQueueIs DEF Handling, HandsOK
<1>5. Held(q)' = Held(q)
  <2>1. t \in Thread /\ HandsOK /\ q = Call(t).on /\ Block0 \in Nat BY OnQueueIs DEF Block0
  <2> QED BY <1>3, <1>4, <2>1, HandStep
<1>6. Lane(q, <<>>, G)' BY <1>1, <1>2, <1>5 DEF Lane
<1>7. ipc'.text = ipc.text BY <1>1, <1>2 DEF IpcFields
<1>8. QueueDomains' BY <1>1, <1>2, <1>7, OnQueueIs DEF QueueDomains
<1>9. \A p \in MessageQueue \ {q} : SameQueue(p)
  <2>1. \A p \in MessageQueue \ {q} : p \in Box \ {q} BY Lists
  <2> QED BY <1>1, <1>2, <1>7, <2>1, OnQueueIs DEF QueueDomains, SameQueue
<1>10. QueuesKept /\ t \in Thread /\ q \in MessageQueue /\ q = Call(t).on /\ Block0 \in Nat
  BY OnQueueIs DEF Block0
<1>11. \A m \in Held(q) \ {loc.hand[t]} : ipc'.text[q][m] = ipc.text[q][m] /\ ipc'.next[q][m] = ipc.next[q][m]
  BY <1>1, <1>2, <1>7
<1>12. pc'[t] # "link" BY <1>3
<1>13. Rearranged(q, <<>>, G)
  BY <1>3, <1>4, <1>6, <1>8, <1>9, <1>10, <1>11, <1>12, QueueStepLeaves
<1> QED BY <1>1, <1>7, <1>13

\* A step that has nothing to do with the blocks of message queues, or only copies one.
LEMMA QuietLeaves ==
  ASSUME QueuesKept, NEW t \in Thread, Others(t), loc'.hand = loc.hand,
         \A p \in MessageQueue : SameQueue(p), QueueDomains',
         pc'[t] \in Handling <=> pc[t] \in Handling, pc'[t] \in Handling => Call(t)' = Call(t), pc'[t] # "link"
  PROVE  QueuesKept' /\ \A p \in MessageQueue : \A P, G : Lane(p, P, G) => Lane(p, P, G)'
<1>1. HandsOK /\ QueueDomains /\ Filled BY DEF QueuesKept
<1>2. PICK h \in Nat : h = loc.hand[t] BY <1>1 DEF HandsOK
<1>3. loc'.hand = [loc.hand EXCEPT ![t] = h] /\ (h # Block0 <=> pc'[t] \in Handling)
      /\ (h # Block0 => Call(t)' = Call(t))
  BY <1>1, <1>2 DEF HandsOK
<1>4. PICK q : q = Call(t).on OBVIOUS
<1>5. HandsOK' /\ \A p : Held(p)' = Held(p) BY <1>1, <1>2, <1>3, <1>4, HandStep
<1>6. \A p \in MessageQueue : \A P, G : Lane(p, P, G) => Lane(p, P, G)' BY <1>5, LaneStays
<1>7. Filled'
  <2> SUFFICES ASSUME NEW u \in Thread, pc'[u] = "link"
               PROVE  /\ Call(u)'.on \in MessageQueue /\ ipc'.text[Call(u)'.on][loc'.hand[u]] = Call(u)'.val
                      /\ Call(u)'.op = "mq_send" => ipc'.next[Call(u)'.on][loc'.hand[u]] = Block0
    BY DEF Filled
  <2>1. u # t /\ pc[u] = "link" /\ Call(u)' = Call(u) /\ loc'.hand[u] = loc.hand[u] BY DEF Others
  <2>2. Call(u).on \in MessageQueue /\ ipc.text[Call(u).on][loc.hand[u]] = Call(u).val
        /\ (Call(u).op = "mq_send" => ipc.next[Call(u).on][loc.hand[u]] = Block0)
    BY <1>1, <2>1 DEF Filled
  <2>3. SameQueue(Call(u).on) BY <2>2
  <2> QED BY <2>1, <2>2, <2>3 DEF SameQueue
<1>8. ASSUME NEW p \in MessageQueue PROVE \E Q, F : Lane(p, Q, F)'
  <2>1. PICK Q, F : Lane(p, Q, F) BY DEF QueuesKept
  <2> QED BY <1>6, <2>1
<1> QED BY <1>5, <1>6, <1>7, <1>8 DEF QueuesKept

\* A step that leaves the message queues' fields and the hands alone.
QuietStep ==
  /\ \A f \in {"next", "text", "head", "tail", "free"} : ipc'[f] = ipc[f]
  /\ DOMAIN ipc'.entry = DOMAIN ipc.entry /\ \A q \in MessageQueue : ipc'.entry[q] = ipc.entry[q]
  /\ loc'.hand = loc.hand

LEMMA QuietIs ==
  ASSUME NEW t \in Users, Sane(k), NEW C, CallersOK(C), IpcProper(C), LocalsOK, QueuesKept,
         IpcStep(t) \/ PoolStep(t)
  PROVE  \/ /\ QuietStep
            /\ \/ pc[t] \in {"user", "wait", "retry"} /\ pc'[t] \notin Handling
               \/ MqCopy(t)
         \/ /\ pc[t] \notin Handling /\ TakeFree(t, Call(t).on) /\ ipc.free[Call(t).on] # Block0
            /\ MqSend(t) \/ MqUrgent(t)
         \/ MqFill(t) \/ MqLink(t) \/ MqFree(t) \/ MqReset(t)
         \/ /\ MqRecv(t) /\ pc[t] \notin Handling /\ ipc.entry[Call(t).on] > 0 /\ ipc' = UnlinkFirst(Call(t).on)
            /\ loc' = [Leave(loc, t) EXCEPT !.hand[t] = ipc.head[Call(t).on]] /\ Goto(t, "copy")
<1> DEFINE b == Call(t).on
           Quiet == QuietStep /\ pc[t] \in {"user", "wait", "retry"} /\ pc'[t] \notin Handling
<1>1. DOMAIN loc = LocFields /\ DOMAIN ipc = IpcFields /\ QueueDomains BY DEF LocalsOK, QueuesKept
<1>2. Leave(loc, t).hand = loc.hand /\ DOMAIN Leave(loc, t) = LocFields BY <1>1 DEF Leave, LocFields
<1>3. t \in Thread /\ IpcCall(Call(t)) /\ Mailbox \cap MessageQueue = {}
  BY IpcKeepsCallers, IpcAssumption DEF Users
<1>4. ipc' = ipc /\ loc' \in {loc, Leave(loc, t)} => QuietStep BY <1>2 DEF QuietStep
<1>5. (Return(t) => pc'[t] = "user") /\ \A l : Goto(t, l) => pc'[t] = l BY <1>3, StepMoves
<1>6. ASSUME NEW o, NEW time, WaitIn(t, o, time) \/ MpWait(t, o, time) PROVE QuietStep /\ pc'[t] = "wait"
  <2>1. loc'.hand = loc.hand BY <1>1, <1>6 DEF WaitIn, MpWait, LocFields
  <2> QED BY <1>5, <1>6, <2>1 DEF WaitIn, MpWait, QuietStep
<1>7. \A sets : NoTime(t, sets) => QuietStep /\ pc'[t] = "user" BY <1>4, <1>5 DEF NoTime
<1>8. Fail(t) => QuietStep /\ pc'[t] = "user" BY <1>4, <1>5 DEF Fail
<1>9. \A o : WakeAndReturn(t, o) => pc'[t] \in {"user", "schedule"} BY <1>5 DEF WakeAndReturn
<1>10. \A op : Tries(t, op) => pc[t] \in {"user", "retry"} /\ pc[t] \notin Handling
  BY DEF Tries, Calls, At, Handling
<1>11. CASE WaitSchedule(t) \/ WaitFails(t)
  <2>1. QuietStep /\ pc[t] \in {"wait", "retry"} /\ pc'[t] \in {"user", "retry"}
    BY <1>4, <1>5, <1>8, <1>11 DEF WaitSchedule, WaitFails, At, ipcVars
  <2> QED BY <2>1 DEF Handling
<1>12. CASE MbSend(t) \/ MbRecv(t)
  <2>1. b \in Mailbox /\ pc[t] \in {"user", "retry"} BY <1>3, <1>10, <1>12 DEF MbSend, MbRecv, Tries, Calls, At, IpcCall
  <2>2. ASSUME MbSend(t), ipc' = Post(b, Call(t).val), loc' = Leave(loc, t) PROVE QuietStep
    BY <1>1, <1>2, <1>3, <2>1, <2>2 DEF Post, QuietStep, IpcFields, QueueDomains
  <2>3. ASSUME MbRecv(t), ipc' = Fetch(b), loc' = [Leave(loc, t) EXCEPT !.got[b][t] = ipc.pool[b][ipc.out[b]]]
        PROVE  QuietStep
    <3>1. loc'.hand = loc.hand BY <1>2, <2>3 DEF LocFields
    <3> QED BY <1>1, <1>3, <2>1, <2>3, <3>1 DEF Fetch, QuietStep, IpcFields, QueueDomains
  <2>4. QuietStep /\ pc'[t] \in {"user", "schedule", "wait"}
    BY <1>6, <1>7, <1>9, <1>12, <2>2, <2>3 DEF MbSend, MbRecv
  <2> QED BY <2>1, <2>4 DEF Handling
<1>13. CASE MbReset(t)
  <2>1. b \in Mailbox /\ pc[t] = "user" BY <1>3, <1>13 DEF MbReset, Calls, IpcCall
  <2>2. QuietStep
    BY <1>1, <1>3, <1>13, <2>1 DEF MbReset, QuietStep, IpcFields, QueueDomains
  <2> QED BY <1>5, <1>13, <2>1, <2>2 DEF MbReset, Handling
<1>14. CASE MqSend(t)
  <2>1. NoTime(t, FALSE) \/ WaitIn(t, Senders[b], TimeLeft(t)) => Quiet
    BY <1>6, <1>7, <1>10, <1>14 DEF MqSend, Handling
  <2> QED BY <1>10, <1>14, <2>1 DEF MqSend
<1>15. CASE MqUrgent(t)
  <2>1. pc[t] = "user" /\ pc[t] \notin Handling BY <1>15 DEF MqUrgent, Calls, Handling
  <2>2. Fail(t) => Quiet BY <1>8, <2>1 DEF Handling
  <2> QED BY <1>15, <2>1, <2>2 DEF MqUrgent
<1>16. CASE MqCopy(t)
  <2>1. QuietStep BY <1>1, <1>16 DEF MqCopy, QuietStep, LocFields
  <2> QED BY <1>16, <2>1
<1>17. CASE MqRecv(t)
  <2>1. NoTime(t, TRUE) \/ WaitIn(t, b, TimeLeft(t)) => Quiet
    BY <1>6, <1>7, <1>10, <1>17 DEF MqRecv, Handling
  <2> QED BY <1>10, <1>17, <2>1 DEF MqRecv
<1>18. CASE MutexTake(t) \/ MutexTaken(t) \/ MutexRelease(t)
  <2>1. pc[t] \in {"user", "retry"} /\ pc'[t] \in {"user", "wait", "schedule"}
    BY <1>5, <1>18 DEF MutexTake, MutexTaken, MutexRelease, Calls, At
  <2>2. loc'.hand = loc.hand
    BY <1>1, <1>18 DEF MutexTake, MutexTaken, MutexRelease, LocFields, ipcVars
  <2>3. \A f \in {"next", "text", "head", "tail", "free", "entry"} : ipc'[f] = ipc[f]
    BY <1>1, <1>18 DEF MutexTake, MutexTaken, MutexRelease, IpcFields, ipcVars, GrantTo, PassTo
  <2>4. QuietStep BY <2>2, <2>3 DEF QuietStep
  <2> QED BY <2>1, <2>4 DEF Handling
<1>19. CASE EventSend(t) \/ EventRecv(t) \/ EventReceived(t) \/ EventReset(t)
  <2>1. pc[t] \in {"user", "retry"} /\ pc'[t] \in {"user", "wait", "schedule"}
    BY <1>5, <1>8, <1>19 DEF EventSend, EventRecv, EventReceived, EventReset, Calls, At
  <2>2. \A f \in {"next", "text", "head", "tail", "free", "entry"} : ipc'[f] = ipc[f]
    BY <1>1, <1>19 DEF EventSend, EventRecv, EventReceived, EventReset, IpcFields, ipcVars, Fail
  <2>3. loc'.hand = loc.hand
    <3>1. CASE EventSend(t) /\ ~Fail(t)
      <4>1. b \in WaitList /\ loc' = NotifyAll(b, Call(t).val).loc
        BY <1>3, <3>1, Lists DEF EventSend, Calls, IpcCall
      <4>2. Reports(NotifyAll(b, Call(t).val)) BY <1>1, <4>1, NotifySafe
      <4> QED BY <4>1, <4>2 DEF Reports, LocFields
    <3>2. CASE EventRecv(t) \/ EventReceived(t) \/ EventReset(t)
      BY <1>1, <1>8, <3>2 DEF EventRecv, EventReceived, EventReset, LocFields, ipcVars, QuietStep
    <3>3. CASE Fail(t) BY <1>8, <3>3 DEF QuietStep
    <3> QED BY <1>19, <3>1, <3>2, <3>3
  <2>4. QuietStep BY <2>2, <2>3 DEF QuietStep
  <2> QED BY <2>1, <2>4 DEF Handling
<1>20. CASE PoolStep(t)
  <2>1. QuietStep
    BY <1>4, <1>6, <1>7, <1>8, <1>20 DEF PoolStep, MpAlloc, MpFails, MpFree, MpDetach
  <2>2. pc[t] \in {"user", "retry"} /\ pc'[t] \in {"user", "schedule", "wait", "drain"}
    BY <1>5, <1>6, <1>7, <1>8, <1>9, <1>10, <1>20 DEF PoolStep, MpAlloc, MpFails, MpFree, MpDetach, Calls, At
  <2> QED BY <2>1, <2>2 DEF Handling
<1> QED
  BY <1>11, <1>12, <1>13, <1>14, <1>15, <1>16, <1>17, <1>18, <1>19, <1>20 DEF IpcStep

LEMMA QueuesStay ==
  ASSUME NEW t \in Users, Sane(k), NEW C, CallersOK(C), IpcProper(C), LocalsOK, QueuesKept,
         IpcStep(t) \/ PoolStep(t)
  PROVE  QueuesKept'
<1>1. /\ t \in Thread /\ IpcCall(Call(t)) /\ IpcFits(pc[t], Call(t).op) /\ DOMAIN loc = LocFields /\ QueueDomains
  BY IpcKeepsCallers DEF Users, CallersOK, LocalsOK, QueuesKept
<1>2. PICK q : q = Call(t).on OBVIOUS
<1>3. ASSUME q \in MessageQueue PROVE \E Q, F : OnQueue(C, t, q, Q, F)
  BY <1>1, <1>2, <1>3 DEF OnQueue, QueuesKept
<1>4. Others(t) /\ (pc'[t] # "user" => Call(t)' = Call(t)) BY <1>1, OthersStay
<1>5. CASE QuietStep /\ ((pc[t] \in {"user", "wait", "retry"} /\ pc'[t] \notin Handling) \/ MqCopy(t))
  <2>1. loc'.hand = loc.hand /\ \A p \in MessageQueue : SameQueue(p) BY <1>5 DEF QuietStep, SameQueue
  <2>2. QueueDomains' BY <1>1, <1>5 DEF QueueDomains, QuietStep
  <2>3. MqCopy(t) => pc[t] = "copy" /\ pc'[t] = "free" BY <1>1, StepMoves DEF MqCopy, At
  <2>4. (pc'[t] \in Handling <=> pc[t] \in Handling) /\ pc'[t] # "link" /\ (pc'[t] \in Handling => pc'[t] # "user")
    BY <1>5, <2>3 DEF Handling
  <2> QED BY <1>1, <1>4, <2>1, <2>2, <2>4, QuietLeaves
<1>6. CASE pc[t] \notin Handling /\ TakeFree(t, q) /\ ipc.free[q] # Block0 /\ (MqSend(t) \/ MqUrgent(t))
  <2>1. q \in MessageQueue BY <1>1, <1>2, <1>6 DEF MqSend, MqUrgent, Tries, Calls, At, IpcCall
  <2>2. PICK Q, F : OnQueue(C, t, q, Q, F) BY <1>3, <2>1
  <2> QED BY <1>6, <2>2, TakeLeaves DEF Rearranged
<1>7. CASE MqFill(t) \/ MqLink(t) \/ MqFree(t) \/ MqReset(t)
  <2>1. q \in MessageQueue
    BY <1>1, <1>2, <1>7 DEF MqFill, MqLink, MqFree, MqReset, Calls, At, IpcCall, IpcFits
  <2>2. PICK Q, F : OnQueue(C, t, q, Q, F) BY <1>3, <2>1
  <2> QED BY <1>7, <2>2, FillLeaves, LinkLeaves, FreeLeaves, ResetLeaves DEF Rearranged
<1>8. CASE /\ MqRecv(t) /\ pc[t] \notin Handling /\ ipc.entry[q] > 0 /\ ipc' = UnlinkFirst(q)
           /\ loc' = [Leave(loc, t) EXCEPT !.hand[t] = ipc.head[q]] /\ Goto(t, "copy")
  <2>1. q \in MessageQueue BY <1>1, <1>2, <1>8 DEF MqRecv, Tries, Calls, At, IpcCall
  <2>2. PICK Q, F : OnQueue(C, t, q, Q, F) BY <1>3, <2>1
  <2> QED BY <1>8, <2>2, UnlinkLeaves DEF Rearranged
<1> QED BY <1>2, <1>5, <1>6, <1>7, <1>8, QuietIs

LEMMA MutexesStay ==
  ASSUME NEW t \in Users, Sane(k), LocalsOK, IpcCall(Call(t)),
         MutexTake(t) \/ MutexTaken(t) \/ MutexRelease(t)
  PROVE  MutexesOK'
<1> DEFINE x == Call(t).on
           owner == ipc.owner[x]
           Only(i, o, h, p) == /\ i.owner = [ipc.owner EXCEPT ![x] = o] /\ i.hold = [ipc.hold EXCEPT ![x] = h]
                               /\ i.original = [ipc.original EXCEPT ![x] = p]
<1>1. MutexesOK /\ DOMAIN ipc = IpcFields BY DEF LocalsOK, MutexesOK
<1>2. CASE ipc' = ipc BY <1>1, <1>2 DEF MutexesOK
<1>3. Nobody \notin Users /\ PriorityMax \in 0 .. PriorityMax /\ Priority \subseteq 0 .. PriorityMax
      /\ HoldMax \in Nat \ {0}
  BY IpcAssumption, SchedAssumption DEF Users, Priority
<1>4. ASSUME x \in Mutex, NEW o \in Users \cup {Nobody}, NEW h \in 0 .. HoldMax, NEW p \in 0 .. PriorityMax,
             Only(ipc', o, h, p), IF o = Nobody THEN h = 0 ELSE h > 0 /\ p \in Priority
      PROVE  MutexesOK'
  <2>1. /\ ipc'.owner \in [Mutex -> Users \cup {Nobody}] /\ ipc'.hold \in [Mutex -> 0 .. HoldMax]
        /\ ipc'.original \in [Mutex -> 0 .. PriorityMax]
    BY <1>1, <1>4 DEF MutexesOK
  <2>2. ipc'.owner[x] = o /\ ipc'.hold[x] = h /\ ipc'.original[x] = p BY <1>1, <1>4 DEF MutexesOK
  <2>3. \A y \in Mutex \ {x} :
          ipc'.owner[y] = ipc.owner[y] /\ ipc'.hold[y] = ipc.hold[y] /\ ipc'.original[y] = ipc.original[y]
    BY <1>1, <1>4 DEF MutexesOK
  <2>4. ASSUME NEW y \in Mutex PROVE IF ipc'.owner[y] = Nobody THEN ipc'.hold[y] = 0
                                     ELSE ipc'.hold[y] > 0 /\ ipc'.original[y] \in Priority
    <3>1. CASE y = x BY <1>4, <2>2, <3>1
    <3>2. CASE y # x BY <1>1, <2>3, <3>2 DEF MutexesOK
    <3> QED BY <3>1, <3>2
  <2> QED BY <2>1, <2>4 DEF MutexesOK
<1>5. CASE MutexTake(t)
  <2>1. x \in Mutex BY <1>5 DEF MutexTake, Calls, IpcCall
  <2>2. /\ owner \in Users \cup {Nobody} /\ ipc.hold[x] \in 0 .. HoldMax /\ ipc.original[x] \in 0 .. PriorityMax
        /\ IF owner = Nobody THEN ipc.hold[x] = 0 ELSE ipc.hold[x] > 0 /\ ipc.original[x] \in Priority
    BY <1>1, <2>1 DEF MutexesOK
  <2>3. CASE owner = t /\ ipc.hold[x] < HoldMax /\ ipc' = [ipc EXCEPT !.hold[x] = @ + 1]
    <3>1. Only(ipc', owner, ipc.hold[x] + 1, ipc.original[x])
      BY <1>1, <2>1, <2>3 DEF MutexesOK, IpcFields
    <3>2. ipc.hold[x] + 1 \in 0 .. HoldMax /\ ipc.hold[x] + 1 > 0 BY <1>3, <2>2, <2>3
    <3> HIDE DEF Only
    <3> QED BY <1>3, <1>4, <2>1, <2>2, <2>3, <3>1, <3>2
  <2>4. CASE owner = Nobody /\ ipc' = GrantTo(ipc, x, t, k.priority[t])
    <3>1. Only(ipc', t, ipc.hold[x] + 1, k.priority[t])
      BY <1>1, <2>1, <2>4 DEF MutexesOK, IpcFields, GrantTo
    <3>2. k.priority[t] \in Priority BY DEF Sane, QueuesOK, Users
    <3>3. ipc.hold[x] + 1 \in 0 .. HoldMax /\ ipc.hold[x] + 1 > 0 BY <1>3, <2>2, <2>4
    <3> HIDE DEF Only
    <3> QED BY <1>3, <1>4, <2>1, <3>1, <3>2, <3>3
  <2> QED BY <1>2, <1>5, <2>3, <2>4 DEF MutexTake, ipcVars
<1>6. CASE MutexTaken(t) BY <1>2, <1>6 DEF MutexTaken
<1>7. CASE MutexRelease(t)
  <2> DEFINE s == Restore(k, t, ipc.original[x])
             u == [ipc EXCEPT !.hold[x] = @ - 1]
             w == Head(s.waiting[x])
  <2>1. x \in Mutex /\ x \in WaitList BY <1>7, Lists DEF MutexRelease, Calls, IpcCall
  <2>2. /\ ipc.hold[x] \in 0 .. HoldMax /\ ipc.original[x] \in 0 .. PriorityMax
        /\ IF owner = Nobody THEN ipc.hold[x] = 0 ELSE ipc.hold[x] > 0 /\ ipc.original[x] \in Priority
    BY <1>1, <2>1 DEF MutexesOK
  <2>3. ASSUME owner = t, ipc.hold[x] > 1, ipc' = u PROVE MutexesOK'
    <3>1. Only(ipc', owner, ipc.hold[x] - 1, ipc.original[x])
      BY <1>1, <2>1, <2>3 DEF MutexesOK, IpcFields
    <3>2. ipc.hold[x] - 1 \in 0 .. HoldMax /\ ipc.hold[x] - 1 > 0 BY <1>3, <2>2, <2>3
    <3> HIDE DEF Only
    <3> QED BY <1>3, <1>4, <2>1, <2>2, <2>3, <3>1, <3>2
  <2>4. ASSUME owner = t, ipc.hold[x] = 1, s.waiting[x] # <<>>, ipc' = PassTo(u, x, w, s.priority[w])
        PROVE  MutexesOK'
    <3>1. Sane(s) BY <1>3, <2>2, <2>4, PrioritySafe DEF Restore, Safe
    <3>2. w \in Users BY <2>1, <2>4, <3>1, FirstIsUser
    <3>3. s.priority[w] \in Priority BY <3>1, <3>2 DEF Sane, QueuesOK, Users
    <3> HIDE DEF s, w
    <3>4. Only(ipc', w, (ipc.hold[x] - 1) + 1, s.priority[w])
      BY <1>1, <2>1, <2>4 DEF MutexesOK, IpcFields, PassTo, GrantTo
    <3>5. (ipc.hold[x] - 1) + 1 \in 0 .. HoldMax /\ (ipc.hold[x] - 1) + 1 > 0 BY <1>3, <2>4
    <3> HIDE DEF Only
    <3> QED BY <1>3, <1>4, <2>1, <3>2, <3>3, <3>4, <3>5
  <2>5. ASSUME owner = t, ipc.hold[x] = 1, ipc' = [u EXCEPT !.owner[x] = Nobody, !.original[x] = PriorityMax]
        PROVE  MutexesOK'
    <3>1. Only(ipc', Nobody, ipc.hold[x] - 1, PriorityMax)
      BY <1>1, <2>1, <2>5 DEF MutexesOK, IpcFields
    <3>2. ipc.hold[x] - 1 \in 0 .. HoldMax /\ ipc.hold[x] - 1 = 0 BY <1>3, <2>5
    <3> HIDE DEF Only
    <3> QED BY <1>3, <1>4, <2>1, <3>1, <3>2
  <2> HIDE DEF s, u, w
  <2>6. \/ ipc' = ipc
        \/ owner = t /\ ipc.hold[x] > 1 /\ ipc' = u
        \/ owner = t /\ ipc.hold[x] = 1 /\ s.waiting[x] # <<>> /\ ipc' = PassTo(u, x, w, s.priority[w])
        \/ owner = t /\ ipc.hold[x] = 1 /\ ipc' = [u EXCEPT !.owner[x] = Nobody, !.original[x] = PriorityMax]
    BY <1>7 DEF MutexRelease, ipcVars, s, u, w
  <2> QED BY <1>2, <2>3, <2>4, <2>5, <2>6
<1> QED BY <1>5, <1>6, <1>7

LEMMA LocalsKept ==
  ASSUME NEW t \in Users, Sane(k), LocalsOK, QueuesKept, IpcCall(Call(t)), IpcFits(pc[t], Call(t).op),
         IpcStep(t) \/ PoolStep(t)
  PROVE  LocalsOK'
<1> DEFINE x == Call(t).on
<1>0. t \in Thread /\ k.tick \in 0 .. TickMod - 1 /\ 0 \in -1 .. HalfTick - 1 /\ 0 \in 0 .. TickMod - 1
  BY Ticks DEF Users, Sane, TimersOK
<1>1. /\ DOMAIN Leave(loc, t) = LocFields /\ Leave(loc, t).time \in [Thread -> -1 .. HalfTick - 1]
      /\ Leave(loc, t).start \in [Thread -> 0 .. TickMod - 1]
  BY <1>0 DEF LocalsOK, Leave, LocFields
<1> DEFINE SameMutexes == /\ DOMAIN ipc' = IpcFields
                          /\ ipc'.owner = ipc.owner /\ ipc'.hold = ipc.hold /\ ipc'.original = ipc.original
           SameTimes == DOMAIN loc' = LocFields /\ loc'.time = loc.time /\ loc'.start = loc.start
           LeftTimes == DOMAIN loc' = LocFields /\ loc'.time = Leave(loc, t).time /\ loc'.start = Leave(loc, t).start
           Times == /\ DOMAIN loc' = LocFields /\ loc'.time \in [Thread -> -1 .. HalfTick - 1]
                    /\ loc'.start \in [Thread -> 0 .. TickMod - 1]
<1>2. ASSUME SameMutexes, SameTimes \/ LeftTimes \/ Times PROVE LocalsOK'
  BY <1>1, <1>2 DEF LocalsOK, MutexesOK
<1>3. ASSUME ipc' = ipc PROVE SameMutexes BY <1>3 DEF LocalsOK
<1>4. ASSUME loc' = loc PROVE SameTimes BY <1>4 DEF LocalsOK
<1>5. ASSUME NEW time \in -1 .. HalfTick - 1, NEW o, WaitIn(t, o, time) \/ MpWait(t, o, time) PROVE Times
  <2> DEFINE began == IF time > 0 THEN k.tick ELSE 0
             due == IF pc[t] = "retry" \/ time < 0 THEN loc.due[t] ELSE (k.tick + time) % TickMod
  <2>1. loc' = [loc EXCEPT !.time[t] = time, !.start[t] = began, !.due[t] = due] BY <1>5 DEF WaitIn, MpWait
  <2>2. began \in 0 .. TickMod - 1 BY <1>0
  <2> HIDE DEF began, due
  <2>3. /\ DOMAIN loc' = LocFields /\ loc'.time = [loc.time EXCEPT ![t] = time]
        /\ loc'.start = [loc.start EXCEPT ![t] = began]
    BY <2>1 DEF LocalsOK, LocFields
  <2> QED BY <1>0, <2>2, <2>3 DEF LocalsOK
<1>6. ASSUME NEW sets, NoTime(t, sets) PROVE LeftTimes /\ ipc' = ipc BY <1>1, <1>6 DEF NoTime
<1>7. ASSUME Fail(t) PROVE LeftTimes /\ ipc' = ipc BY <1>1, <1>7 DEF Fail
<1>8. ASSUME Tries(t, "mb_send") \/ Tries(t, "mb_recv") \/ Tries(t, "mq_send") \/ Tries(t, "mq_recv")
             \/ Tries(t, "mp_alloc")
      PROVE  TimeLeft(t) \in -1 .. HalfTick - 1
  <2>1. Call(t).op \in TimedCalls BY <1>8 DEF Tries, Calls, At, TimedCalls
  <2> QED BY <1>0, <2>1, TimeLeftIs DEF IpcCall
<1> HIDE DEF Times, SameTimes, LeftTimes, SameMutexes
<1>9. CASE WaitSchedule(t) \/ WaitFails(t)
  BY <1>2, <1>3, <1>4, <1>7, <1>9 DEF WaitSchedule, WaitFails, ipcVars
<1>10. CASE MbSend(t)
  <2>1. CASE ipc' = Post(x, Call(t).val) /\ loc' = Leave(loc, t)
    <3>1. SameMutexes BY <2>1 DEF SameMutexes, Post, LocalsOK, IpcFields
    <3>2. LeftTimes BY <1>1, <2>1 DEF LeftTimes
    <3> QED BY <1>2, <3>1, <3>2
  <2>2. CASE NoTime(t, FALSE) BY <1>2, <1>3, <1>6, <2>2
  <2>3. CASE WaitIn(t, Senders[x], TimeLeft(t))
    BY <1>2, <1>3, <1>5, <1>8, <1>10, <2>3 DEF MbSend, WaitIn
  <2> QED BY <1>10, <2>1, <2>2, <2>3 DEF MbSend
<1>11. CASE MbRecv(t)
  <2>1. CASE ipc' = Fetch(x) /\ loc' = [Leave(loc, t) EXCEPT !.got[x][t] = ipc.pool[x][ipc.out[x]]]
    <3>1. SameMutexes BY <2>1 DEF SameMutexes, Fetch, LocalsOK, IpcFields
    <3>2. LeftTimes BY <1>1, <2>1 DEF LeftTimes, LocFields
    <3> QED BY <1>2, <3>1, <3>2
  <2>2. CASE NoTime(t, TRUE) BY <1>2, <1>3, <1>6, <2>2
  <2>3. CASE WaitIn(t, x, TimeLeft(t))
    BY <1>2, <1>3, <1>5, <1>8, <1>11, <2>3 DEF MbRecv, WaitIn
  <2> QED BY <1>11, <2>1, <2>2, <2>3 DEF MbRecv
<1>12. CASE MbReset(t)
  <2>1. SameMutexes BY <1>12 DEF MbReset, SameMutexes, LocalsOK, IpcFields
  <2> QED BY <1>2, <1>4, <1>12, <2>1 DEF MbReset
<1>13. ASSUME TakeFree(t, x) PROVE SameMutexes /\ LeftTimes
  BY <1>1, <1>13 DEF TakeFree, SameMutexes, LeftTimes, LocalsOK, IpcFields, LocFields
<1>14. CASE MqSend(t)
  <2>1. CASE TakeFree(t, x) BY <1>2, <1>13, <2>1
  <2>2. CASE NoTime(t, FALSE) BY <1>2, <1>3, <1>6, <2>2
  <2>3. CASE WaitIn(t, Senders[x], TimeLeft(t))
    BY <1>2, <1>3, <1>5, <1>8, <1>14, <2>3 DEF MqSend, WaitIn
  <2> QED BY <1>14, <2>1, <2>2, <2>3 DEF MqSend
<1>15. CASE MqUrgent(t) BY <1>2, <1>3, <1>7, <1>13, <1>15 DEF MqUrgent
<1>16. CASE MqFill(t)
  <2>1. SameMutexes BY <1>16 DEF MqFill, SameMutexes, LocalsOK, IpcFields
  <2> QED BY <1>2, <1>4, <1>16, <2>1 DEF MqFill
<1>17. CASE MqLink(t)
  <2>1. SameMutexes BY <1>17 DEF MqLink, LinkLast, LinkFirst, SameMutexes, LocalsOK, IpcFields
  <2>2. SameTimes BY <1>17 DEF MqLink, SameTimes, LocalsOK, LocFields
  <2> QED BY <1>2, <2>1, <2>2
<1>18. CASE MqRecv(t)
  <2>1. CASE ipc' = UnlinkFirst(x) /\ loc' = [Leave(loc, t) EXCEPT !.hand[t] = ipc.head[x]]
    <3>1. SameMutexes BY <2>1 DEF SameMutexes, UnlinkFirst, LocalsOK, IpcFields
    <3>2. LeftTimes BY <1>1, <2>1 DEF LeftTimes, LocFields
    <3> QED BY <1>2, <3>1, <3>2
  <2>2. CASE NoTime(t, TRUE) BY <1>2, <1>3, <1>6, <2>2
  <2>3. CASE WaitIn(t, x, TimeLeft(t))
    BY <1>2, <1>3, <1>5, <1>8, <1>18, <2>3 DEF MqRecv, WaitIn
  <2> QED BY <1>18, <2>1, <2>2, <2>3 DEF MqRecv
<1>19. CASE MqCopy(t)
  <2>1. SameTimes BY <1>19 DEF MqCopy, SameTimes, LocalsOK, LocFields
  <2> QED BY <1>2, <1>3, <1>19, <2>1 DEF MqCopy
<1>20. CASE MqFree(t)
  <2>1. SameMutexes BY <1>20 DEF MqFree, PutFree, SameMutexes, LocalsOK, IpcFields
  <2>2. SameTimes BY <1>20 DEF MqFree, SameTimes, LocalsOK, LocFields
  <2> QED BY <1>2, <2>1, <2>2
<1>27. CASE PoolStep(t)
  <2>1. CASE loc' = Leave(loc, t) /\ ipc' = ipc
    <3>1. LeftTimes BY <1>1, <2>1 DEF LeftTimes
    <3> QED BY <1>2, <1>3, <2>1, <3>1
  <2>2. CASE NoTime(t, FALSE) BY <1>2, <1>3, <1>6, <2>2
  <2>3. CASE MpAlloc(t) /\ MpWait(t, x, TimeLeft(t))
    BY <1>2, <1>3, <1>5, <1>8, <2>3 DEF MpAlloc, MpWait
  <2>4. CASE Fail(t) BY <1>2, <1>3, <1>7, <2>4
  <2>5. CASE loc' = loc /\ ipc' = ipc BY <1>2, <1>3, <1>4, <2>5
  <2> QED BY <1>27, <2>1, <2>2, <2>3, <2>4, <2>5 DEF PoolStep, MpAlloc, MpFails, MpFree, MpDetach
<1>21. CASE MqReset(t)
  <2>1. x \in MessageQueue BY <1>21 DEF MqReset, Calls, IpcCall
  <2>2. PICK Q, F : Lane(x, Q, F) BY <2>1 DEF QueuesKept
  <2>3. PICK q \in MessageQueue : q = x BY <2>1
  <2>4. \A f \in IpcFields \ {"next", "free", "head", "tail", "entry"} : ipc'[f] = ipc[f]
    BY <1>21, <2>2, <2>3, Emptied DEF MqReset, LocalsOK, QueuesKept
  <2>5. DOMAIN ipc' = IpcFields BY <1>21, <2>2, <2>3, Emptied DEF MqReset, LocalsOK, QueuesKept
  <2>6. SameMutexes BY <2>4, <2>5 DEF SameMutexes, IpcFields
  <2> QED BY <1>2, <1>4, <1>21, <2>6 DEF MqReset
<1>22. CASE EventSend(t) \/ EventRecv(t) \/ EventReceived(t) \/ EventReset(t)
  <2>1. SameMutexes
    BY <1>3, <1>7, <1>22 DEF EventSend, EventRecv, EventReceived, EventReset, SameMutexes, LocalsOK, IpcFields, ipcVars
  <2>2. CASE EventSend(t) /\ ~Fail(t)
    <3>1. x \in WaitList /\ loc' = NotifyAll(x, Call(t).val).loc
      BY <2>2, Lists DEF EventSend, Calls, IpcCall
    <3>2. Reports(NotifyAll(x, Call(t).val)) BY <3>1, NotifySafe DEF LocalsOK
    <3>3. SameTimes BY <3>1, <3>2 DEF Reports, SameTimes, LocFields
    <3> QED BY <1>2, <2>1, <3>3
  <2>3. CASE Fail(t) BY <1>2, <1>7, <2>1, <2>3
  <2>4. CASE (EventRecv(t) \/ EventReceived(t) \/ EventReset(t)) /\ ~Fail(t)
    <3>1. SameTimes BY <2>4 DEF EventRecv, EventReceived, EventReset, SameTimes, LocalsOK, LocFields, ipcVars
    <3> QED BY <1>2, <2>1, <3>1
  <2> QED BY <1>22, <2>2, <2>3, <2>4
<1>23. CASE MutexTake(t) \/ MutexTaken(t) \/ MutexRelease(t)
  <2>1. SameTimes
    BY <1>23 DEF MutexTake, MutexTaken, MutexRelease, SameTimes, LocalsOK, LocFields, ipcVars
  <2>2. MutexesOK' BY <1>23, MutexesStay
  <2>3. DOMAIN ipc' = IpcFields
    BY <1>23 DEF MutexTake, MutexTaken, MutexRelease, LocalsOK, GrantTo, PassTo, ipcVars
  <2> QED BY <2>1, <2>2, <2>3 DEF LocalsOK, SameTimes, MutexesOK
<1> QED
  BY <1>9, <1>10, <1>11, <1>12, <1>14, <1>15, <1>16, <1>17, <1>18, <1>19, <1>20, <1>21, <1>22, <1>23, <1>27
     DEF IpcStep

-----------------------------------------------------------------------------
(***************************************************************************)
(* The objects as they are created.                                        *)
(***************************************************************************)
\* The free list of a queue that has just been initialised.
FreshList(n) == [i \in 1 .. n |-> n - i + 1]

LEMMA FreshArranged ==
  ASSUME NEW n \in Nat, n > 0, NEW next, next = [m \in 1 .. n |-> m - 1]
  PROVE  Arranged(n, next, Block0, Block0, n, 0, {}, <<>>, FreshList(n))
<1> DEFINE F == FreshList(n)
<1>0. F \in [1 .. n -> 1 .. n] /\ DOMAIN F = 1 .. n BY DEF FreshList
<1>1. F \in Seq(1 .. n) /\ DOMAIN F = 1 .. n /\ Len(F) = n
  <2> HIDE DEF F
  <2>1. F \in Seq(1 .. n) BY <1>0, SeqDef
  <2>2. DOMAIN F = 1 .. Len(F) /\ Len(F) \in Nat BY <2>1
  <2> QED BY <1>0, <2>1, <2>2
<1>2. \A i \in 1 .. n : F[i] = n - i + 1 BY DEF FreshList
<1> HIDE DEF F
<1>3. NoDuplicates(F) BY <1>1, <1>2 DEF NoDuplicates, IsInjective
<1>4. Range(F) = 1 .. n
  <2>1. Range(F) \subseteq 1 .. n BY <1>0 DEF Range
  <2>2. ASSUME NEW m \in 1 .. n PROVE m \in Range(F)
    <3>1. n - m + 1 \in 1 .. n /\ F[n - m + 1] = m BY <1>2
    <3> QED BY <1>1, <3>1 DEF Range
  <2> QED BY <2>1, <2>2
<1>5. Linked(next, n, F)
  <2>1. F # <<>> /\ F[1] = n BY <1>1, <1>2
  <2>2. ASSUME NEW i \in 1 .. Len(F) PROVE next[F[i]] = IF i = Len(F) THEN Block0 ELSE F[i + 1]
    <3>1. i \in 1 .. n /\ F[i] = n - i + 1 /\ F[i] \in 1 .. n BY <1>1, <1>2, <2>2
    <3>2. next[F[i]] = n - i BY <3>1
    <3>3. i # n => i + 1 \in 1 .. n BY <3>1
    <3>4. i # n => F[i + 1] = n - i BY <1>2, <3>1, <3>3
    <3> QED BY <1>1, <3>1, <3>2, <3>4 DEF Block0
  <2> QED BY <2>1, <2>2 DEF Linked
<1>6. /\ <<>> \in Seq(1 .. n) /\ NoDuplicates(<<>>) /\ Range(<<>>) = {} /\ Len(<<>>) = 0
      /\ Linked(next, Block0, <<>>)
  BY DEF NoDuplicates, IsInjective, Range, Linked
<1>7. Parts(n, {}, <<>>, F) BY <1>1, <1>3, <1>4, <1>6 DEF Parts
<1>8. next \in [1 .. n -> 0 .. n] OBVIOUS
<1> QED BY <1>5, <1>6, <1>7, <1>8 DEF Arranged, F

LEMMA FreshQueues == ASSUME IpcInit PROVE QueuesKept /\ \A q \in MessageQueue : Lane(q, <<>>, FreshList(Size[q]))
<1>1. /\ loc.hand = [t \in Thread |-> Block0] /\ pc = [t \in Thread |-> "user"]
      /\ ipc.head = [q \in MessageQueue |-> Block0] /\ ipc.tail = [q \in MessageQueue |-> Block0]
      /\ ipc.free = [q \in MessageQueue |-> Size[q]] /\ ipc.entry = [b \in Box |-> 0]
      /\ ipc.next = [q \in MessageQueue |-> [m \in Blocks(q) |-> m - 1]]
      /\ ipc.text = [q \in MessageQueue |-> [m \in Blocks(q) |-> Nothing]]
  BY DEF IpcInit, Init
<1>2. HandsOK BY <1>1 DEF HandsOK, Handling, Block0
<1>3. QueueDomains BY <1>1 DEF QueueDomains
<1>4. Filled BY <1>1 DEF Filled
<1>5. ASSUME NEW q \in MessageQueue PROVE Lane(q, <<>>, FreshList(Size[q]))
  <2>1. q \in Box /\ Size[q] \in Nat /\ Size[q] > 0 BY Lists, SizeIs
  <2>2. Held(q) = {} BY <1>1 DEF Held, Holders
  <2>3. /\ ipc.head[q] = Block0 /\ ipc.tail[q] = Block0 /\ ipc.free[q] = Size[q] /\ ipc.entry[q] = 0
        /\ ipc.next[q] = [m \in 1 .. Size[q] |-> m - 1]
    BY <1>1, <2>1 DEF Blocks
  <2>4. Arranged(Size[q], ipc.next[q], Block0, Block0, Size[q], 0, {}, <<>>, FreshList(Size[q]))
    BY <2>1, <2>3, FreshArranged
  <2> QED BY <2>2, <2>3, <2>4 DEF Lane
<1> QED BY <1>2, <1>3, <1>4, <1>5 DEF QueuesKept

-----------------------------------------------------------------------------
(***************************************************************************)
(* The mails of a mailbox lie in a ring of n places, from out on.          *)
(***************************************************************************)
Ring(n, pool, in, out, entry) ==
  /\ DOMAIN pool = 0 .. n - 1 /\ in \in 0 .. n - 1 /\ out \in 0 .. n - 1 /\ entry \in 0 .. n
  /\ in \in {out + entry, out + entry - n}

Mails(n, pool, out, entry) == [i \in 1 .. entry |-> pool[(out + i - 1) % n]]

NextPlace(n, i) == IF i + 1 >= n THEN 0 ELSE i + 1

\* Where the ring has turned around, n is taken off once.
LEMMA PlaceIs ==
  ASSUME NEW n \in Nat, n > 0, NEW d \in 0 .. 2 * n - 1 PROVE d % n = IF d < n THEN d ELSE d - n
<1>1. \A m \in Nat, e \in Int : m > 0 =>
        /\ e \in 0 .. m - 1 => e % m = e
        /\ e \in m .. 2 * m - 1 => e % m = e - m
  OBVIOUS
<1>2. d \in 0 .. n - 1 \/ d \in n .. 2 * n - 1 OBVIOUS
<1> QED BY <1>1, <1>2

LEMMA MailIs ==
  ASSUME NEW n \in Nat, n > 0, NEW pool, NEW out \in 0 .. n - 1, NEW entry \in 0 .. n, NEW i \in 1 .. entry
  PROVE  Mails(n, pool, out, entry)[i] = pool[IF out + i - 1 < n THEN out + i - 1 ELSE out + i - 1 - n]
<1>1. out + i - 1 \in 0 .. 2 * n - 1 OBVIOUS
<1>2. (out + i - 1) % n = IF out + i - 1 < n THEN out + i - 1 ELSE out + i - 1 - n BY <1>1, PlaceIs
<1> QED BY <1>2 DEF Mails

LEMMA MailsAre ==
  ASSUME NEW n, NEW pool, NEW out, NEW entry \in Nat
  PROVE  /\ Mails(n, pool, out, entry) \in Seq(Range(Mails(n, pool, out, entry)))
         /\ Len(Mails(n, pool, out, entry)) = entry
<1> DEFINE s == Mails(n, pool, out, entry)
<1>1. DOMAIN s = 1 .. entry /\ s = [i \in 1 .. entry |-> s[i]] BY DEF Mails
<1> HIDE DEF s
<1>2. s \in [1 .. entry -> Range(s)] BY <1>1 DEF Range
<1>3. s \in Seq(Range(s)) BY <1>2, SeqDef
<1>4. DOMAIN s = 1 .. Len(s) /\ Len(s) \in Nat BY <1>3
<1>5. Len(s) = entry BY <1>1, <1>4
<1> QED BY <1>3, <1>5 DEF s

LEMMA RingEmpty == ASSUME NEW n, NEW pool, NEW out PROVE Mails(n, pool, out, 0) = <<>>
<1>1. Mails(n, pool, out, 0) \in Seq(Range(Mails(n, pool, out, 0))) /\ Len(Mails(n, pool, out, 0)) = 0
  BY MailsAre
<1> QED BY <1>1, EmptySeq

\* One sequence is another with an element behind it, or without its first element.
IsAppend(r, s, e) == r = Append(s, e)
IsTail(r, s, e) == s # <<>> /\ Head(s) = e /\ r = Tail(s)

\* A mail is put behind the others.
LEMMA RingPost ==
  ASSUME NEW n \in Nat, n > 0, NEW pool, NEW in, NEW out, NEW entry, Ring(n, pool, in, out, entry),
         entry # n, NEW mail
  PROVE  LET after == [pool EXCEPT ![in] = mail] IN
         /\ Ring(n, after, NextPlace(n, in), out, entry + 1)
         /\ IsAppend(Mails(n, after, out, entry + 1), Mails(n, pool, out, entry), mail)
<1> DEFINE after == [pool EXCEPT ![in] = mail]
           s == Mails(n, pool, out, entry)
           r == Mails(n, after, out, entry + 1)
<1>1. /\ DOMAIN pool = 0 .. n - 1 /\ in \in 0 .. n - 1 /\ out \in 0 .. n - 1 /\ entry \in 0 .. n
      /\ in \in {out + entry, out + entry - n} /\ entry + 1 \in 0 .. n /\ entry \in Nat /\ entry + 1 \in Nat
  BY DEF Ring
<1>2. DOMAIN after = 0 .. n - 1 /\ after[in] = mail /\ \A j \in 0 .. n - 1 : j # in => after[j] = pool[j]
  BY <1>1
<1> HIDE DEF after
<1>3. NextPlace(n, in) \in 0 .. n - 1 /\ NextPlace(n, in) \in {out + (entry + 1), out + (entry + 1) - n}
  BY <1>1 DEF NextPlace
<1>4. Ring(n, after, NextPlace(n, in), out, entry + 1) BY <1>1, <1>2, <1>3 DEF Ring
<1>5. s \in Seq(Range(s)) /\ Len(s) = entry /\ r \in Seq(Range(r)) /\ Len(r) = entry + 1 BY <1>1, MailsAre
<1>6. ASSUME NEW i \in 1 .. entry PROVE r[i] = s[i]
  <2> DEFINE j == IF out + i - 1 < n THEN out + i - 1 ELSE out + i - 1 - n
  <2>1. i \in 1 .. entry + 1 BY <1>1
  <2>2. r[i] = after[j] /\ s[i] = pool[j] BY <1>1, <2>1, MailIs
  <2>3. j \in 0 .. n - 1 /\ j # in BY <1>1
  <2> HIDE DEF j
  <2> QED BY <1>2, <2>2, <2>3
<1>7. r[entry + 1] = mail
  <2> DEFINE j == IF out + (entry + 1) - 1 < n THEN out + (entry + 1) - 1 ELSE out + (entry + 1) - 1 - n
  <2>1. entry + 1 \in 1 .. entry + 1 BY <1>1
  <2>2. r[entry + 1] = after[j] BY <1>1, <2>1, MailIs
  <2>3. j = in BY <1>1
  <2> HIDE DEF j
  <2> QED BY <1>2, <2>2, <2>3
<1> HIDE DEF s, r
<1>8. r = Append(s, mail)
  <2> DEFINE T == Range(s) \cup Range(r) \cup {mail}
             a == Append(s, mail)
  <2>1. s \in Seq(T) /\ r \in Seq(T) BY <1>5, SeqMonotonic
  <2>2. a \in Seq(T) /\ Len(a) = Len(s) + 1 /\ (\A i \in 1 .. Len(s) : a[i] = s[i]) /\ a[Len(s) + 1] = mail
    BY <2>1, AppendProperties
  <2>3. Len(r) = Len(a) BY <1>5, <2>2
  <2>4. \A i \in 1 .. Len(r) : r[i] = a[i]
    <3> SUFFICES ASSUME NEW i \in 1 .. Len(r) PROVE r[i] = a[i] OBVIOUS
    <3> HIDE DEF a
    <3>1. CASE i \in 1 .. entry BY <1>5, <1>6, <2>2, <3>1
    <3>2. CASE i = entry + 1 BY <1>5, <1>7, <2>2, <3>2
    <3> QED BY <1>1, <1>5, <3>1, <3>2
  <2> HIDE DEF a, T
  <2>5. r = a BY <2>1, <2>2, <2>3, <2>4, SeqEqual
  <2> QED BY <2>5 DEF a
<1> QED BY <1>4, <1>8 DEF r, s, after, IsAppend

\* The first mail is taken.
LEMMA RingFetch ==
  ASSUME NEW n \in Nat, n > 0, NEW pool, NEW in, NEW out, NEW entry, Ring(n, pool, in, out, entry), entry > 0
  PROVE  /\ Ring(n, pool, in, NextPlace(n, out), entry - 1)
         /\ IsTail(Mails(n, pool, NextPlace(n, out), entry - 1), Mails(n, pool, out, entry), pool[out])
<1> DEFINE s == Mails(n, pool, out, entry)
           to == NextPlace(n, out)
           r == Mails(n, pool, to, entry - 1)
<1>1. /\ DOMAIN pool = 0 .. n - 1 /\ in \in 0 .. n - 1 /\ out \in 0 .. n - 1 /\ entry \in 0 .. n
      /\ in \in {out + entry, out + entry - n} /\ entry - 1 \in 0 .. n /\ entry \in Nat /\ entry - 1 \in Nat
  BY DEF Ring
<1>2. to \in 0 .. n - 1 /\ to = IF out + 1 >= n THEN 0 ELSE out + 1 BY <1>1 DEF NextPlace
<1> HIDE DEF to
<1>3. in \in {to + (entry - 1), to + (entry - 1) - n} BY <1>1, <1>2
<1>4. Ring(n, pool, in, to, entry - 1) BY <1>1, <1>2, <1>3 DEF Ring
<1>5. s \in Seq(Range(s)) /\ Len(s) = entry /\ r \in Seq(Range(r)) /\ Len(r) = entry - 1 BY <1>1, MailsAre
<1>6. s[1] = pool[out]
  <2>1. 1 \in 1 .. entry BY <1>1
  <2>2. s[1] = pool[IF out + 1 - 1 < n THEN out + 1 - 1 ELSE out + 1 - 1 - n] BY <1>1, <2>1, MailIs
  <2>3. (IF out + 1 - 1 < n THEN out + 1 - 1 ELSE out + 1 - 1 - n) = out BY <1>1
  <2> HIDE DEF s
  <2> QED BY <2>2, <2>3
<1>7. ASSUME NEW i \in 1 .. entry - 1 PROVE r[i] = s[i + 1]
  <2> DEFINE j == IF to + i - 1 < n THEN to + i - 1 ELSE to + i - 1 - n
             l == IF out + (i + 1) - 1 < n THEN out + (i + 1) - 1 ELSE out + (i + 1) - 1 - n
  <2>1. i + 1 \in 1 .. entry BY <1>1
  <2>2. r[i] = pool[j]
    <3>1. PICK e \in 0 .. n : e = entry - 1 BY <1>1
    <3>2. i \in 1 .. e BY <3>1
    <3>3. Mails(n, pool, to, e)[i] = pool[j] BY ZenonT(40), <1>2, <3>2, MailIs
    <3> QED BY <3>1, <3>3
  <2>3. s[i + 1] = pool[l] BY <1>1, <2>1, MailIs
  <2>4. j = l BY <1>1, <1>2
  <2> HIDE DEF j, l, r, s
  <2> QED BY <2>2, <2>3, <2>4
<1> HIDE DEF s, r
<1>8. s # <<>> BY <1>1, <1>5, EmptySeq
<1>9. r = Tail(s)
  <2> DEFINE T == Range(s) \cup Range(r)
             a == Tail(s)
  <2>1. s \in Seq(T) /\ r \in Seq(T) BY <1>5, SeqMonotonic
  <2>2. a \in Seq(T) /\ Len(a) = Len(s) - 1 /\ \A i \in 1 .. Len(a) : a[i] = s[i + 1]
    BY <1>8, <2>1, HeadTailProperties
  <2> HIDE DEF a, T
  <2>3. Len(r) = Len(a) BY <1>5, <2>2
  <2>4. \A i \in 1 .. Len(r) : r[i] = a[i] BY <1>5, <1>7, <2>2, <2>3
  <2>5. r = a BY <2>1, <2>2, <2>3, <2>4, SeqEqual
  <2> QED BY <2>5 DEF a
<1>10. Head(s) = s[1] BY <1>5, <1>8
<1> QED BY <1>4, <1>6, <1>8, <1>9, <1>10 DEF r, s, to, IsTail

-----------------------------------------------------------------------------
(***************************************************************************)
(* The mailboxes, and what the threads have received.                      *)
(***************************************************************************)
RingOf(b) == Ring(Size[b], ipc.pool[b], ipc.in[b], ipc.out[b], ipc.entry[b])

MailDomains ==
  /\ DOMAIN ipc.pool = Mailbox /\ DOMAIN ipc.in = Mailbox /\ DOMAIN ipc.out = Mailbox /\ DOMAIN ipc.entry = Box
  /\ DOMAIN loc.got = Box /\ \A b \in Box : DOMAIN loc.got[b] = Thread

MailsKept == MailDomains /\ \A b \in Mailbox : RingOf(b)

SameMailbox(b) ==
  /\ ipc'.pool[b] = ipc.pool[b] /\ ipc'.in[b] = ipc.in[b] /\ ipc'.out[b] = ipc.out[b] /\ ipc'.entry[b] = ipc.entry[b]

LEMMA FreshMails == ASSUME IpcInit PROVE MailsKept
<1>1. /\ ipc.pool = [b \in Mailbox |-> [i \in 0 .. Size[b] - 1 |-> Nothing]]
      /\ ipc.in = [b \in Mailbox |-> 0] /\ ipc.out = [b \in Mailbox |-> 0] /\ ipc.entry = [b \in Box |-> 0]
      /\ loc.got = [b \in Box |-> [t \in Thread |-> Nothing]]
  BY DEF IpcInit
<1>2. ASSUME NEW b \in Mailbox PROVE RingOf(b)
  <2>1. b \in Box /\ Size[b] \in Nat /\ Size[b] > 0 BY Lists, SizeIs
  <2>2. ipc.in[b] = 0 /\ ipc.out[b] = 0 /\ ipc.entry[b] = 0 /\ DOMAIN ipc.pool[b] = 0 .. Size[b] - 1
    BY <1>1, <2>1
  <2>3. 0 \in 0 .. Size[b] - 1 /\ 0 \in 0 .. Size[b] BY <2>1
  <2> QED BY <2>2, <2>3 DEF RingOf, Ring
<1> QED BY <1>1, <1>2 DEF MailsKept, MailDomains

\* What a step does to the mailboxes and to what has been received.
NoMail ==
  /\ ipc'.pool = ipc.pool /\ ipc'.in = ipc.in /\ ipc'.out = ipc.out
  /\ DOMAIN ipc'.entry = DOMAIN ipc.entry /\ \A b \in Mailbox : ipc'.entry[b] = ipc.entry[b]

Sends1(t, b) ==
  /\ MbSend(t) /\ b \in Mailbox /\ b = Call(t).on /\ ipc.entry[b] # Size[b]
  /\ ipc'.pool = [ipc.pool EXCEPT ![b] = [@ EXCEPT ![ipc.in[b]] = Call(t).val]]
  /\ ipc'.in = [ipc.in EXCEPT ![b] = NextPlace(Size[b], @)] /\ ipc'.out = ipc.out
  /\ ipc'.entry = [ipc.entry EXCEPT ![b] = @ + 1]
  /\ loc'.got = loc.got

Receives1(t, b) ==
  /\ MbRecv(t) /\ b \in Mailbox /\ b = Call(t).on /\ ipc.entry[b] > 0
  /\ ipc'.pool = ipc.pool /\ ipc'.in = ipc.in /\ ipc'.out = [ipc.out EXCEPT ![b] = NextPlace(Size[b], @)]
  /\ ipc'.entry = [ipc.entry EXCEPT ![b] = @ - 1]
  /\ loc'.got = [loc.got EXCEPT ![b] = [@ EXCEPT ![t] = ipc.pool[b][ipc.out[b]]]]

Resets1(t, b) ==
  /\ MbReset(t) /\ b \in Mailbox /\ b = Call(t).on
  /\ ipc'.pool = ipc.pool /\ ipc'.in = [ipc.in EXCEPT ![b] = 0] /\ ipc'.out = [ipc.out EXCEPT ![b] = 0]
  /\ ipc'.entry = [ipc.entry EXCEPT ![b] = 0]
  /\ loc'.got = loc.got

Copies(t) ==
  /\ MqCopy(t)
  /\ loc'.got = [loc.got EXCEPT ![Call(t).on] = [@ EXCEPT ![t] = ipc.text[Call(t).on][loc.hand[t]]]]

LEMMA MailIsOneOf ==
  ASSUME NEW t \in Users, Sane(k), NEW C, CallersOK(C), IpcProper(C), LocalsOK, QueuesKept,
         IpcStep(t) \/ PoolStep(t)
  PROVE  \/ NoMail /\ (loc'.got = loc.got \/ Copies(t))
         \/ \E b : Sends1(t, b) \/ Receives1(t, b) \/ Resets1(t, b)
<1> DEFINE b == Call(t).on
           Quiet == NoMail /\ loc'.got = loc.got
<1>1. DOMAIN loc = LocFields /\ DOMAIN ipc = IpcFields /\ QueueDomains BY DEF LocalsOK, QueuesKept
<1>2. Leave(loc, t).got = loc.got /\ DOMAIN Leave(loc, t) = LocFields BY <1>1 DEF Leave, LocFields
<1>3. t \in Thread /\ IpcCall(Call(t)) /\ IpcFits(pc[t], Call(t).op) /\ Mailbox \cap MessageQueue = {}
  BY IpcKeepsCallers, IpcAssumption DEF Users, CallersOK
<1>4. ipc' = ipc => NoMail BY DEF NoMail
<1>5. ASSUME NEW o, NEW time, WaitIn(t, o, time) \/ MpWait(t, o, time) PROVE Quiet
  <2>1. loc'.got = loc.got BY <1>1, <1>5 DEF WaitIn, MpWait, LocFields
  <2> QED BY <1>4, <1>5, <2>1 DEF WaitIn, MpWait
<1>6. \A sets : NoTime(t, sets) => Quiet BY <1>2, <1>4 DEF NoTime
<1>7. Fail(t) => Quiet BY <1>2, <1>4 DEF Fail
<1>8. CASE WaitSchedule(t) \/ WaitFails(t) BY <1>4, <1>7, <1>8 DEF WaitSchedule, WaitFails, ipcVars
<1>9. CASE MbSend(t)
  <2>1. b \in Mailbox BY <1>3, <1>9 DEF MbSend, Tries, Calls, At, IpcCall
  <2>2. ASSUME ~MailFull(b), ipc' = Post(b, Call(t).val), loc' = Leave(loc, t) PROVE Sends1(t, b)
    BY <1>1, <1>2, <1>9, <2>1, <2>2 DEF Post, Sends1, IpcFields, MailFull, Succ, NextPlace
  <2> QED BY <1>5, <1>6, <1>9, <2>2 DEF MbSend
<1>10. CASE MbRecv(t)
  <2>1. b \in Mailbox BY <1>3, <1>10 DEF MbRecv, Tries, Calls, At, IpcCall
  <2>2. ASSUME ipc.entry[b] > 0, ipc' = Fetch(b), loc' = [Leave(loc, t) EXCEPT !.got[b][t] = ipc.pool[b][ipc.out[b]]]
        PROVE  Receives1(t, b)
    <3>1. loc'.got = [loc.got EXCEPT ![b] = [@ EXCEPT ![t] = ipc.pool[b][ipc.out[b]]]]
      BY <1>2, <2>2 DEF LocFields
    <3> QED BY <1>1, <1>10, <2>1, <2>2, <3>1 DEF Fetch, Receives1, IpcFields, Succ, NextPlace
  <2> QED BY <1>5, <1>6, <1>10, <2>2 DEF MbRecv
<1>11. CASE MbReset(t)
  <2>1. b \in Mailbox BY <1>3, <1>11 DEF MbReset, Calls, IpcCall
  <2>2. Resets1(t, b) BY <1>1, <1>11, <2>1 DEF MbReset, Resets1, IpcFields
  <2> QED BY <2>2
<1>12. TakeFree(t, b) => Quiet BY <1>1, <1>2 DEF TakeFree, NoMail, IpcFields, LocFields
<1>13. CASE MqSend(t) \/ MqUrgent(t) BY <1>5, <1>6, <1>7, <1>12, <1>13 DEF MqSend, MqUrgent
<1>14. CASE MqFill(t) BY <1>1, <1>14 DEF MqFill, NoMail, IpcFields
<1>15. CASE MqLink(t) \/ MqRecv(t) \/ MqFree(t) \/ MqReset(t)
  <2>1. b \in MessageQueue /\ b \notin Mailbox
    BY <1>3, <1>15 DEF MqLink, MqRecv, MqFree, MqReset, Tries, Calls, At, IpcCall, IpcFits
  <2>2. CASE MqLink(t) \/ MqFree(t)
    <3>1. loc'.got = loc.got BY <1>1, <2>2 DEF MqLink, MqFree, LocFields
    <3>2. ipc' = LinkLast(b, loc.hand[t]) \/ ipc' = LinkFirst(b, loc.hand[t]) \/ ipc' = PutFree(ipc, b, loc.hand[t])
      BY <2>2 DEF MqLink, MqFree
    <3>3. /\ ipc'.pool = ipc.pool /\ ipc'.in = ipc.in /\ ipc'.out = ipc.out
          /\ ipc'.entry = ipc.entry \/ ipc'.entry = [ipc.entry EXCEPT ![b] = @ + 1]
      BY <1>1, <3>2 DEF LinkLast, LinkFirst, PutFree, IpcFields
    <3>4. PICK q \in MessageQueue : q = b /\ q \notin Mailbox BY <2>1
    <3>5. \A m \in Mailbox : m # q BY <3>4
    <3>6. DOMAIN ipc'.entry = DOMAIN ipc.entry /\ \A m \in Mailbox : ipc'.entry[m] = ipc.entry[m]
      BY <1>1, <3>3, <3>4, <3>5, Lists DEF QueueDomains
    <3> QED BY <3>1, <3>3, <3>6 DEF NoMail
  <2>3. CASE MqRecv(t)
    <3>1. ASSUME ipc' = UnlinkFirst(b), loc' = [Leave(loc, t) EXCEPT !.hand[t] = ipc.head[b]] PROVE Quiet
      BY <1>1, <1>2, <2>1, <3>1 DEF UnlinkFirst, NoMail, IpcFields, QueueDomains, LocFields
    <3> QED BY <1>5, <1>6, <2>3, <3>1 DEF MqRecv
  <2>4. CASE MqReset(t)
    <3>1. PICK Q, F : Lane(b, Q, F) BY <2>1 DEF QueuesKept
    <3>2. PICK q \in MessageQueue : q = b BY <2>1
    <3>3. /\ \A f \in IpcFields \ {"next", "free", "head", "tail", "entry"} : ipc'[f] = ipc[f]
          /\ loc' = loc
      BY <2>4, <3>1, <3>2, Emptied DEF MqReset, LocalsOK, QueuesKept
    <3>4. DOMAIN ipc'.entry = DOMAIN ipc.entry /\ \A p \in DOMAIN ipc.entry \ {q} : ipc'.entry[p] = ipc.entry[p]
      BY <2>4, <3>1, <3>2, Emptied DEF MqReset, LocalsOK, QueuesKept
    <3>5. DOMAIN ipc'.entry = DOMAIN ipc.entry /\ \A m \in Mailbox : ipc'.entry[m] = ipc.entry[m]
      BY <1>1, <2>1, <3>2, <3>4, Lists DEF QueueDomains
    <3> QED BY <3>3, <3>5 DEF NoMail, IpcFields
  <2> QED BY <1>15, <2>2, <2>3, <2>4
<1>16. CASE MqCopy(t)
  <2>1. Copies(t) BY <1>1, <1>16 DEF MqCopy, Copies, LocFields
  <2> QED BY <1>4, <1>16, <2>1 DEF MqCopy
<1>17. CASE MutexTake(t) \/ MutexTaken(t) \/ MutexRelease(t)
  <2>1. loc'.got = loc.got
    BY <1>1, <1>17 DEF MutexTake, MutexTaken, MutexRelease, LocFields, ipcVars
  <2>2. \A f \in {"pool", "in", "out", "entry"} : ipc'[f] = ipc[f]
    BY <1>1, <1>17 DEF MutexTake, MutexTaken, MutexRelease, IpcFields, ipcVars, GrantTo, PassTo
  <2> QED BY <2>1, <2>2 DEF NoMail
<1>18. CASE EventSend(t) \/ EventRecv(t) \/ EventReceived(t) \/ EventReset(t)
  <2>1. \A f \in {"pool", "in", "out", "entry"} : ipc'[f] = ipc[f]
    BY <1>1, <1>18 DEF EventSend, EventRecv, EventReceived, EventReset, IpcFields, ipcVars, Fail
  <2>2. loc'.got = loc.got
    <3>1. CASE EventSend(t) /\ ~Fail(t)
      <4>1. b \in WaitList /\ loc' = NotifyAll(b, Call(t).val).loc
        BY <1>3, <3>1, Lists DEF EventSend, Calls, IpcCall
      <4>2. Reports(NotifyAll(b, Call(t).val)) BY <1>1, <4>1, NotifySafe
      <4> QED BY <4>1, <4>2 DEF Reports, LocFields
    <3>2. CASE EventRecv(t) \/ EventReceived(t) \/ EventReset(t)
      BY <1>1, <1>7, <3>2 DEF EventRecv, EventReceived, EventReset, LocFields, ipcVars
    <3>3. CASE Fail(t) BY <1>7, <3>3
    <3> QED BY <1>18, <3>1, <3>2, <3>3
  <2> QED BY <2>1, <2>2 DEF NoMail
<1>19. CASE PoolStep(t)
  BY <1>2, <1>4, <1>5, <1>6, <1>7, <1>19 DEF PoolStep, MpAlloc, MpFails, MpFree, MpDetach
<1> QED
  BY <1>8, <1>9, <1>10, <1>11, <1>13, <1>14, <1>15, <1>16, <1>17, <1>18, <1>19 DEF IpcStep

LEMMA MailsStay ==
  ASSUME NEW t \in Users, Sane(k), NEW C, CallersOK(C), IpcProper(C), LocalsOK, QueuesKept, MailsKept,
         IpcStep(t) \/ PoolStep(t)
  PROVE  MailsKept'
<1>1. MailDomains /\ t \in Thread BY DEF MailsKept, Users
<1>2. ASSUME NoMail PROVE \A b \in Mailbox : RingOf(b) => RingOf(b)' BY <1>2 DEF NoMail, RingOf
<1>3. CASE NoMail /\ loc'.got = loc.got BY <1>1, <1>2, <1>3 DEF MailsKept, MailDomains, NoMail
<1>4. CASE NoMail /\ Copies(t)
  <2>1. loc'.got = [loc.got EXCEPT ![Call(t).on] = [@ EXCEPT ![t] = ipc.text[Call(t).on][loc.hand[t]]]]
    BY <1>4 DEF Copies
  <2>2. DOMAIN loc'.got = Box /\ \A b \in Box : DOMAIN loc'.got[b] = Thread BY <1>1, <2>1 DEF MailDomains
  <2>3. /\ ipc'.pool = ipc.pool /\ ipc'.in = ipc.in /\ ipc'.out = ipc.out
        /\ DOMAIN ipc'.entry = DOMAIN ipc.entry
    BY <1>4 DEF NoMail
  <2> QED BY <1>1, <1>2, <1>4, <2>2, <2>3 DEF MailsKept, MailDomains
<1>5. ASSUME NEW b \in Mailbox, MailDomains', \A c \in Mailbox \ {b} : SameMailbox(c), RingOf(b)'
      PROVE  MailsKept'
  <2>1. \A c \in Mailbox \ {b} : RingOf(c)' BY <1>5 DEF MailsKept, SameMailbox, RingOf
  <2> QED BY <1>5, <2>1 DEF MailsKept
<1>6. ASSUME NEW b, Sends1(t, b) \/ Receives1(t, b) \/ Resets1(t, b)
      PROVE  b \in Mailbox /\ MailDomains' /\ \A c \in Mailbox \ {b} : SameMailbox(c)
  BY <1>1, <1>6, Lists DEF Sends1, Receives1, Resets1, SameMailbox, MailDomains
<1>7. ASSUME NEW b, Sends1(t, b) \/ Receives1(t, b) \/ Resets1(t, b) PROVE RingOf(b)'
  <2>1. /\ b \in Mailbox /\ b \in Box /\ Size[b] \in Nat /\ Size[b] > 0
        /\ Ring(Size[b], ipc.pool[b], ipc.in[b], ipc.out[b], ipc.entry[b])
    BY <1>6, <1>7, Lists, SizeIs DEF MailsKept, RingOf
  <2>2. CASE Sends1(t, b)
    <3>1. Ring(Size[b], [ipc.pool[b] EXCEPT ![ipc.in[b]] = Call(t).val], NextPlace(Size[b], ipc.in[b]),
               ipc.out[b], ipc.entry[b] + 1)
      BY <2>1, <2>2, RingPost DEF Sends1
    <3>2. /\ ipc'.pool[b] = [ipc.pool[b] EXCEPT ![ipc.in[b]] = Call(t).val]
          /\ ipc'.in[b] = NextPlace(Size[b], ipc.in[b])
          /\ ipc'.out[b] = ipc.out[b] /\ ipc'.entry[b] = ipc.entry[b] + 1
      BY <1>1, <2>1, <2>2 DEF Sends1, MailDomains
    <3> QED BY <3>1, <3>2 DEF RingOf
  <2>3. CASE Receives1(t, b)
    <3>1. Ring(Size[b], ipc.pool[b], ipc.in[b], NextPlace(Size[b], ipc.out[b]), ipc.entry[b] - 1)
      BY <2>1, <2>3, RingFetch DEF Receives1
    <3>2. /\ ipc'.pool[b] = ipc.pool[b] /\ ipc'.in[b] = ipc.in[b]
          /\ ipc'.out[b] = NextPlace(Size[b], ipc.out[b]) /\ ipc'.entry[b] = ipc.entry[b] - 1
      BY <1>1, <2>1, <2>3 DEF Receives1, MailDomains
    <3> QED BY <3>1, <3>2 DEF RingOf
  <2>4. CASE Resets1(t, b)
    <3>1. ipc'.pool[b] = ipc.pool[b] /\ ipc'.in[b] = 0 /\ ipc'.out[b] = 0 /\ ipc'.entry[b] = 0
      BY <1>1, <2>1, <2>4 DEF Resets1, MailDomains
    <3>2. Ring(Size[b], ipc.pool[b], 0, 0, 0) BY <2>1 DEF Ring
    <3> QED BY <3>1, <3>2 DEF RingOf
  <2> QED BY <1>7, <2>2, <2>3, <2>4
<1> QED BY <1>3, <1>4, <1>5, <1>6, <1>7, MailIsOneOf

\* The other calls of the kernel, and interrupts, leave the objects alone.
LEMMA IdleKeepsObjects ==
  ASSUME UNCHANGED <<pc, calls, ipc, loc>> PROVE
    /\ LocalsOK => LocalsOK'
    /\ QueuesKept => QueuesKept'
    /\ MailsKept => MailsKept'
    /\ \A C : CallersOK(C) => CallersOK(C)'
<1>1. \A t : Call(t)' = Call(t) BY DEF Call
<1>2. \A q : Held(q)' = Held(q) BY <1>1 DEF Held, Holders
<1> QED
  BY <1>1, <1>2 DEF LocalsOK, MutexesOK, QueuesKept, HandsOK, QueueDomains, Filled, Lane, MailsKept, MailDomains,
     RingOf, CallersOK, Engaged

LEMMA ThreadKeepsObjects ==
  ASSUME NEW C, IpcProper(C), CallersOK(C), LocalsOK, QueuesKept, MailsKept, NEW t \in Thread,
         ThreadStep(t), UNCHANGED ipcVars
  PROVE  LocalsOK' /\ QueuesKept' /\ MailsKept' /\ CallersOK(C)' /\ isr' = isr
<1>1. /\ CallersOK(C)' /\ isr' = isr /\ pc[t] \in Label /\ pc'[t] \in Label /\ Others(t)
  BY ThreadMoves DEF Others
<1>2. pc[t] \notin Handling /\ pc'[t] \notin Handling /\ pc'[t] # "link"
  BY <1>1, Labels DEF Handling
<1>3. loc' = loc /\ ipc' = ipc BY DEF ipcVars
<1>4. LocalsOK' /\ MailsKept' BY <1>3 DEF LocalsOK, MutexesOK, MailsKept, MailDomains, RingOf
<1>5. /\ loc'.hand = loc.hand /\ \A p \in MessageQueue : SameQueue(p) BY <1>3 DEF SameQueue
<1>6. QueueDomains' BY <1>3 DEF QueuesKept, QueueDomains
<1>7. QueuesKept' BY <1>1, <1>2, <1>5, <1>6, QuietLeaves
<1> QED BY <1>1, <1>4, <1>7

-----------------------------------------------------------------------------
(***************************************************************************)
(* The kernel with all of these objects.                                   *)
(***************************************************************************)
IpcInv(C) ==
  /\ isr \in {"none", "timers"}
  /\ TimersOK(k, {}, IF isr = "none" THEN 1 ELSE 0)
  /\ ListsOf(k, Users) /\ QueuesOK(k) /\ ContextInv
  /\ CallersOK(C) /\ LocalsOK /\ QueuesKept /\ MailsKept

LEMMA IpcInvInit == ASSUME NEW C, IpcProper(C), IpcInit PROVE IpcInv(C)
<1>1. Init /\ Proper(C) BY DEF IpcInit, IpcProper
<1> QED
  BY <1>1, Initially, TimersInit, QueuesInit, CallersInit, LocalsInit, FreshQueues, FreshMails
     DEF IpcInv, TimerInv, Users

\* A step of a thread in a call of these objects.
LEMMA ObjectStepKeeps ==
  ASSUME NEW C, IpcProper(C), IpcInv(C), isr = "none", NEW t \in Thread, IpcStep(t) \/ PoolStep(t)
  PROVE  IpcInv(C)'
<1>1. CallersOK(C) /\ LocalsOK /\ QueuesKept /\ MailsKept /\ Sane(k) /\ Own(k) /\ DOMAIN k = Fields
  BY DEF IpcInv, Sane, ContextInv, Own, QueuesOK
<1>2. /\ CallersOK(C)' /\ isr' = isr /\ t \in Users /\ calls[t] # <<>> /\ IpcCall(Call(t))
      /\ IpcFits(pc[t], Call(t).op)
  BY <1>1, IpcKeepsCallers DEF CallersOK
<1>3. LocalsOK' BY <1>1, <1>2, LocalsKept
<1>4. QueuesKept' BY <1>1, <1>2, QueuesStay
<1>5. MailsKept' BY <1>1, <1>2, MailsStay
<1>6. Safe(k, k') \/ k' = rt_schedule(k) BY <1>1, <1>2, StepsSafe
<1>7. CASE Safe(k, k')
  <2>1. Own(k') BY <1>1, <1>7, DeferredKept DEF Safe
  <2> QED BY <1>2, <1>3, <1>4, <1>5, <1>7, <2>1 DEF IpcInv, Safe, Sane, ContextInv, Own
<1>8. CASE k' = rt_schedule(k)
  <2>1. QueuesOK(k') BY <1>1, <1>8, SwitchesLeaveQueues, SameQueuesOK DEF Sane
  <2>2. TimersOK(k', {}, 1) BY <1>1, <1>8, SwitchesPreserve, SameTimersOK DEF Sane
  <2>3. ListsOf(k', Users) BY <1>1, <1>8, SwitchEffect, SameLists DEF Sane, Processor
  <2>4. Own(k') BY <1>1, <1>8, <2>1, QueuesGiveThread, Switched
  <2> QED BY <1>2, <1>3, <1>4, <1>5, <2>1, <2>2, <2>3, <2>4 DEF IpcInv, ContextInv, Own
<1> QED BY <1>6, <1>7, <1>8

\* A step of a thread in any other call of the kernel.
LEMMA KernelStepKeeps ==
  ASSUME NEW C, IpcProper(C), IpcInv(C), NobodyInterferes, isr = "none", ThreadStep(k.cpu), UNCHANGED ipcVars
  PROVE  IpcInv(C)'
<1>1. /\ Proper(C) /\ Engaged(C) /\ k.cpu \in Thread /\ TimersOK(k, {}, 1) /\ ListsOf(k, Users)
      /\ QueuesOK(k) /\ ContextInv /\ Thread \ {Idle} \subseteq Users
  BY DEF IpcProper, IpcInv, CallersOK, ContextInv, Deferred, Users
<1>2. LocalsOK' /\ QueuesKept' /\ MailsKept' /\ CallersOK(C)' /\ isr' = isr
  BY <1>1, ThreadKeepsObjects DEF IpcInv
<1>3. QueuesOK(k') BY <1>1, ThreadKeepsQueues
<1>4. TimersOK(k', {}, 1) BY <1>1, ThreadKeepsTimers
<1>5. ListsOf(k', Users) BY <1>1, ThreadKeepsLists
<1>6. SomeReady' BY <1>3, QueuesGiveThread DEF SomeReady
<1>7. ContextInv' BY <1>1, <1>6, ThreadKeepsContexts DEF RunThread
<1> QED BY <1>2, <1>3, <1>4, <1>5, <1>7 DEF IpcInv

LEMMA InterruptStepKeeps ==
  ASSUME NEW C, IpcProper(C), IpcInv(C), Tick \/ TimerExpires \/ TickReturns, UNCHANGED ipcVars
  PROVE  IpcInv(C)'
<1>1. /\ UNCHANGED <<pc, calls, ipc, loc>> /\ ListsOf(k, Users) /\ QueuesOK(k) /\ ContextInv
      /\ k.current \in Thread /\ DOMAIN k = Fields
  BY DEF Tick, TimerExpires, TickReturns, ipcVars, IpcInv, ContextInv, Deferred
<1>2. CallersOK(C)' /\ LocalsOK' /\ QueuesKept' /\ MailsKept' BY <1>1, IdleKeepsObjects DEF IpcInv
<1>3. ListsOf(k', Users) BY <1>1, InterruptKeepsLists
<1>4. CASE Tick
  <2>1. QueuesOK(k') BY <1>1, <1>4, TickKeepsQueues
  <2>2. TimersOK(k', {}, 0) /\ isr' = "timers" BY <1>4, TickKeepsTimers DEF IpcInv, Tick
  <2>3. SomeReady' BY <2>1, QueuesGiveThread DEF SomeReady
  <2> QED BY <1>1, <1>2, <1>3, <1>4, <2>1, <2>2, <2>3, TickKeepsContexts DEF IpcInv
<1>5. CASE TimerExpires
  <2>1. TimersOK(k, {}, 0) /\ isr' = "timers" BY <1>5 DEF IpcInv, TimerExpires
  <2>2. QueuesOK(k') BY <1>1, <1>5, <2>1, ExpiryKeepsQueues
  <2>3. TimersOK(k', {}, 0) BY <1>5, <2>1, ExpiryKeepsTimers
  <2>4. SomeReady' BY <2>2, QueuesGiveThread DEF SomeReady
  <2> QED BY <1>1, <1>2, <1>3, <1>5, <2>1, <2>2, <2>3, <2>4, ExpiryKeepsContexts DEF IpcInv
<1>6. CASE TickReturns
  <2>1. TimersOK(k, {}, 0) /\ isr' = "none" BY <1>6 DEF IpcInv, TickReturns
  <2>2. QueuesOK(k') BY <1>1, <1>6, SwitchesLeaveQueues, SameQueuesOK DEF TickReturns
  <2>3. TimersOK(k', {}, 1) BY <1>6, <2>1, ReturnKeepsTimers
  <2> QED BY <1>1, <1>2, <1>3, <1>6, <2>1, <2>2, <2>3, ReturnKeepsContexts DEF IpcInv
<1> QED BY <1>4, <1>5, <1>6

LEMMA IpcKept ==
  ASSUME NEW C, IpcProper(C), IpcInv(C), NobodyInterferes, [PoolNext]_poolVars PROVE IpcInv(C)'
<1>1. k.cpu \in Thread BY DEF IpcInv, ContextInv, Deferred
<1>2. CASE isr = "none" /\ (PoolStep(k.cpu) \/ IpcStep(k.cpu)) BY <1>1, <1>2, ObjectStepKeeps
<1>3. CASE isr = "none" /\ ThreadStep(k.cpu) /\ UNCHANGED ipcVars BY <1>3, KernelStepKeeps
<1>4. CASE (Tick \/ TimerExpires \/ TickReturns) /\ UNCHANGED ipcVars BY <1>4, InterruptStepKeeps
<1>5. CASE UNCHANGED poolVars
  <2>1. k' = k /\ isr' = isr /\ UNCHANGED <<pc, calls, ipc, loc>> BY <1>5 DEF poolVars
  <2>2. CallersOK(C)' /\ LocalsOK' /\ QueuesKept' /\ MailsKept' BY <2>1, IdleKeepsObjects DEF IpcInv
  <2> QED BY <2>1, <2>2 DEF IpcInv, ContextInv
<1> QED BY <1>2, <1>3, <1>4, <1>5 DEF PoolNext, PoolRun, RunCall

\* Whatever programs do with mailboxes, message queues, mutexes, events, pools and all other calls
\* of the kernel, IpcInv holds.
THEOREM IpcInvariant ==
  ASSUME NEW C, IpcProper(C) PROVE PoolSpec /\ []NobodyInterferes => []IpcInv(C)
<1>1. PoolInit => IpcInv(C) BY IpcInvInit DEF PoolInit
<1>2. IpcInv(C) /\ NobodyInterferes /\ [PoolNext]_poolVars => IpcInv(C)' BY IpcKept
<1> QED BY <1>1, <1>2, PTL DEF PoolSpec

\* The processor runs the thread the scheduler chose and every other stack holds its own thread's
\* registers, also where calls of ipc.c and mempool.c resume threads (cpuport.c, context_gcc.S).
THEOREM ObjectsRunOwnContexts ==
  ASSUME NEW C, IpcProper(C) PROVE PoolSpec /\ []NobodyInterferes => []RunsOwnContext
<1>1. IpcInv(C) => RunsOwnContext BY DEF IpcInv, ContextInv, Deferred, RunsOwnContext
<1> QED BY <1>1, IpcInvariant, PTL

\* The list of timers is sorted, holds the active ones and none is overdue, also where calls of
\* ipc.c and mempool.c start and stop the timers of their callers (timer.c).
THEOREM ObjectsKeepTimers ==
  ASSUME NEW C, IpcProper(C) PROVE PoolSpec /\ []NobodyInterferes => []TimersConsistent
<1>1. IpcInv(C) => TimersConsistent
  <2> SUFFICES ASSUME IpcInv(C) PROVE TimersConsistent OBVIOUS
  <2>1. \A x : Remaining(k, x) = Left(x) BY DEF Remaining, Left
  <2>2. \A x \in k.activated : isr = "none" => Left(x) > 0
    <3> SUFFICES ASSUME NEW x \in k.activated, isr = "none" PROVE Left(x) > 0 OBVIOUS
    <3>1. Remaining(k, x) \in 1 .. HalfTick BY DEF IpcInv, TimersOK
    <3> QED BY <2>1, <3>1, Ticks
  <2> QED BY <2>1, <2>2 DEF IpcInv, TimersOK, TimersConsistent
<1> QED BY <1>1, IpcInvariant, PTL

\* The objects and the local variables of the calls hold values of their types: the positions of a
\* mailbox stay in its pool, no list of blocks leaves its queue, a mutex counts within its range
\* (ipc.c), for all sizes and programs.
THEOREM ObjectsKeepTypes ==
  ASSUME NEW C, IpcProper(C) PROVE PoolSpec /\ []NobodyInterferes => []IpcTypeOK
<1>1. IpcInv(C) => IpcTypeOK
  <2> SUFFICES ASSUME IpcInv(C) PROVE IpcTypeOK OBVIOUS
  <2>1. \A b \in Mailbox : Ring(Size[b], ipc.pool[b], ipc.in[b], ipc.out[b], ipc.entry[b])
    BY DEF IpcInv, MailsKept, RingOf
  <2>2. ASSUME NEW q \in MessageQueue
        PROVE  /\ ipc.head[q] \in 0 .. Size[q] /\ ipc.tail[q] \in 0 .. Size[q] /\ ipc.free[q] \in 0 .. Size[q]
               /\ ipc.entry[q] \in 0 .. Size[q] /\ ipc.next[q] \in [1 .. Size[q] -> 0 .. Size[q]]
    <3>1. PICK Q, F : Lane(q, Q, F) BY DEF IpcInv, QueuesKept
    <3>2. q \in Box /\ Size[q] \in Nat BY Lists, SizeIs
    <3> QED BY SMTT(30), <3>1, <3>2, ArrangedTypes DEF Lane, Arranged
  <2>3. ASSUME NEW q \in MessageQueue PROVE 0 .. Size[q] = Blocks(q) \cup {Block0}
    <3>1. q \in Box /\ Size[q] \in Nat BY Lists, SizeIs
    <3> QED BY <3>1 DEF Blocks, Block0
  <2>4. \A b \in Box : ipc.entry[b] \in 0 .. Size[b] BY <2>1, <2>2 DEF Box, Ring
  <2>5. \A b \in Mailbox : {ipc.in[b], ipc.out[b]} \subseteq 0 .. Size[b] - 1 BY <2>1 DEF Ring
  <2>6. \A q \in MessageQueue :
          /\ {ipc.head[q], ipc.tail[q], ipc.free[q]} \subseteq Blocks(q) \cup {Block0}
          /\ ipc.next[q] \in [Blocks(q) -> Blocks(q) \cup {Block0}]
    BY <2>2, <2>3 DEF Blocks
  <2>7. /\ ipc.owner \in [Mutex -> Thread \cup {Nobody}] /\ ipc.hold \in [Mutex -> 0 .. HoldMax]
        /\ ipc.original \in [Mutex -> 0 .. PriorityMax]
    BY DEF IpcInv, LocalsOK, MutexesOK, Users
  <2>8. pc \in [Thread -> Label \cup {"wait", "retry", "fill", "link", "copy", "free"}]
    BY DEF IpcInv, CallersOK, IpcLabel
  <2>9. -1 .. HalfTick - 1 \subseteq Nat \cup {-1} BY Ticks
  <2>10. loc.time \in [Thread -> Nat \cup {-1}] /\ loc.start \in [Thread -> 0 .. TickMod - 1]
    BY <2>9 DEF IpcInv, LocalsOK
  <2> QED BY <2>4, <2>5, <2>6, <2>7, <2>8, <2>10 DEF IpcTypeOK
<1> QED BY <1>1, IpcInvariant, PTL

\* As many threads as blocks in hands: no block is in two.
LEMMA HandsAre ==
  ASSUME HandsOK, NEW q, IsFiniteSet(Held(q))
  PROVE  IsFiniteSet(Holders(q)) /\ Cardinality(Holders(q)) = Cardinality(Held(q))
<1> DEFINE f == [m \in Held(q) |-> CHOOSE t \in Holders(q) : loc.hand[t] = m]
<1>1. \A m \in Held(q) : f[m] \in Holders(q) /\ loc.hand[f[m]] = m BY DEF Held
<1>2. \A t, u \in Holders(q) : loc.hand[t] = loc.hand[u] => t = u BY DEF Holders, HandsOK
<1>3. \A t \in Holders(q) : loc.hand[t] \in Held(q) BY DEF Held
<1>4. f \in [Held(q) -> Holders(q)] BY <1>1
<1> HIDE DEF f
<1>5. f \in Injection(Held(q), Holders(q)) BY <1>1, <1>4 DEF Injection, IsInjective
<1>6. \A t \in Holders(q) : \E m \in Held(q) : f[m] = t BY <1>1, <1>2, <1>3
<1>7. f \in Surjection(Held(q), Holders(q)) BY <1>4, <1>6 DEF Surjection
<1>8. ExistsBijection(Held(q), Holders(q)) BY <1>5, <1>7 DEF ExistsBijection, Bijection
<1> QED BY <1>8, FS_Bijection

\* Every block of a message queue is in the queue, in the free list or in the hand of one thread;
\* entry and tail say how long the queue is and where it ends (ipc.c), although blocks are filled
\* and read with interrupts enabled; for all sizes, numbers of threads and programs.
THEOREM BlocksAreNotLost ==
  ASSUME NEW C, IpcProper(C) PROVE PoolSpec /\ []NobodyInterferes => []BlocksPartitioned
<1>1. IpcInv(C) => BlocksPartitioned
  <2> SUFFICES ASSUME IpcInv(C), NEW q \in MessageQueue
               PROVE  LET queued == Chain(q, ipc.head[q])
                          free   == Chain(q, ipc.free[q])
                      IN /\ Range(queued) \cup Range(free) \cup Held(q) = Blocks(q)
                         /\ Len(queued) + Len(free) + Cardinality(Holders(q)) = Size[q]
                         /\ ipc.entry[q] = Len(queued)
                         /\ ipc.tail[q] = IF queued = <<>> THEN Block0 ELSE Last(queued)
    BY DEF BlocksPartitioned, Holders, Held
  <2>1. PICK Q, F : Lane(q, Q, F) BY DEF IpcInv, QueuesKept
  <2>2. q \in Box /\ Size[q] \in Nat /\ HandsOK BY Lists, SizeIs DEF IpcInv, QueuesKept
  <2>3. Arranged(Size[q], ipc.next[q], ipc.head[q], ipc.tail[q], ipc.free[q], ipc.entry[q], Held(q), Q, F)
    BY <2>1 DEF Lane
  <2>4. /\ Chain(q, ipc.head[q]) = Q /\ Chain(q, ipc.free[q]) = F
        /\ Q \in Seq(1 .. Size[q]) /\ F \in Seq(1 .. Size[q])
    BY <2>2, <2>3, ArrangedTypes DEF Chain
  <2>5. Parts(Size[q], Held(q), Q, F) /\ ipc.entry[q] = Len(Q)
        /\ ipc.tail[q] = IF Q = <<>> THEN Block0 ELSE Last(Q)
    BY <2>3 DEF Arranged, Last
  <2>6. Range(Q) \cup Range(F) \cup Held(q) = Blocks(q) BY <2>5 DEF Parts, Blocks
  <2>7. Len(Q) + Len(F) + Cardinality(Holders(q)) = Size[q]
    <3>1. /\ IsFiniteSet(Range(Q)) /\ Cardinality(Range(Q)) = Len(Q)
          /\ IsFiniteSet(Range(F)) /\ Cardinality(Range(F)) = Len(F)
      BY <2>2, <2>4, <2>5, Sizes DEF Parts
    <3>2. IsFiniteSet(1 .. Size[q]) /\ Cardinality(1 .. Size[q]) = Size[q] BY <2>2, CountTo
    <3>3. Held(q) \subseteq 1 .. Size[q] BY <2>5 DEF Parts
    <3>4. IsFiniteSet(Held(q)) BY <3>2, <3>3, FS_Subset
    <3>5. Cardinality(Holders(q)) = Cardinality(Held(q)) BY <2>2, <3>4, HandsAre
    <3>6. Range(Q) \cap Range(F) = {} /\ (Range(Q) \cup Range(F)) \cap Held(q) = {} BY <2>5 DEF Parts
    <3>7. IsFiniteSet(Range(Q) \cup Range(F)) /\ Cardinality(Range(Q) \cup Range(F)) = Len(Q) + Len(F) - 0
      <4>1. /\ IsFiniteSet(Range(Q) \cup Range(F))
            /\ Cardinality(Range(Q) \cup Range(F)) = Len(Q) + Len(F) - Cardinality(Range(Q) \cap Range(F))
        BY <3>1, FS_Union
      <4> QED BY <3>6, <4>1, FS_EmptySet
    <3>8. Cardinality((Range(Q) \cup Range(F)) \cup Held(q))
          = Cardinality(Range(Q) \cup Range(F)) + Cardinality(Held(q)) - 0
      <4>1. Cardinality((Range(Q) \cup Range(F)) \cup Held(q))
            = Cardinality(Range(Q) \cup Range(F)) + Cardinality(Held(q))
              - Cardinality((Range(Q) \cup Range(F)) \cap Held(q))
        BY <3>4, <3>7, FS_Union
      <4> QED BY <3>6, <4>1, FS_EmptySet
    <3>9. Cardinality(Held(q)) \in Nat /\ Len(Q) \in Nat /\ Len(F) \in Nat BY <2>4, <3>4, FS_CardinalityType
    <3>10. Cardinality((Range(Q) \cup Range(F)) \cup Held(q)) = Size[q] BY <2>6, <3>2 DEF Blocks
    <3>11. PICK a, b, h \in Nat : a = Len(Q) /\ b = Len(F) /\ h = Cardinality(Held(q)) BY <3>9
    <3>12. Size[q] = a + b - 0 + h - 0 BY <3>7, <3>8, <3>10, <3>11
    <3> QED BY <2>2, <3>5, <3>11, <3>12
  <2> QED BY <2>4, <2>5, <2>6, <2>7
<1> QED BY <1>1, IpcInvariant, PTL

-----------------------------------------------------------------------------
(***************************************************************************)
(* Mailboxes and message queues are channels.                              *)
(***************************************************************************)
\* The messages in the blocks Q.
Texts(text, Q) == [i \in DOMAIN Q |-> text[Q[i]]]

LEMMA TextsAre ==
  ASSUME NEW S, NEW Q \in Seq(S), NEW text
  PROVE  /\ Texts(text, Q) \in Seq(Range(Texts(text, Q))) /\ Len(Texts(text, Q)) = Len(Q)
         /\ DOMAIN Texts(text, Q) = 1 .. Len(Q) /\ \A i \in 1 .. Len(Q) : Texts(text, Q)[i] = text[Q[i]]
         /\ Texts(text, Q) = <<>> <=> Q = <<>>
<1> DEFINE s == Texts(text, Q)
<1>1. Len(Q) \in Nat /\ DOMAIN Q = 1 .. Len(Q) OBVIOUS
<1>2. DOMAIN s = 1 .. Len(Q) /\ \A i \in 1 .. Len(Q) : s[i] = text[Q[i]] BY <1>1 DEF Texts
<1>3. s \in [1 .. Len(Q) -> Range(s)] BY <1>1 DEF Range, Texts
<1> HIDE DEF s
<1>4. s \in Seq(Range(s)) BY <1>1, <1>3, SeqDef
<1>5. Len(s) = Len(Q) BY <1>1, <1>2, <1>4, LenProperties
<1>6. s = <<>> <=> Q = <<>> BY <1>1, <1>4, <1>5, EmptySeq
<1> QED BY <1>2, <1>4, <1>5, <1>6 DEF s

LEMMA TextsAppend ==
  ASSUME NEW S, NEW Q \in Seq(S), NEW text, NEW m \in S
  PROVE  Texts(text, Append(Q, m)) = Append(Texts(text, Q), text[m])
<1> DEFINE s == Texts(text, Q)
           r == Append(Q, m)
           u == Texts(text, r)
           T == Range(s) \cup {text[m]}
<1>1. s \in Seq(Range(s)) /\ Len(s) = Len(Q) /\ \A i \in 1 .. Len(Q) : s[i] = text[Q[i]] BY TextsAre
<1>2. r \in Seq(S) /\ Len(r) = Len(Q) + 1 /\ (\A i \in 1 .. Len(Q) : r[i] = Q[i]) /\ r[Len(Q) + 1] = m
  BY AppendProperties
<1> HIDE DEF r
<1>3. u \in Seq(Range(u)) /\ Len(u) = Len(Q) + 1 /\ \A i \in 1 .. Len(Q) + 1 : u[i] = text[r[i]] BY <1>2, TextsAre
<1> HIDE DEF s, u
<1>4. s \in Seq(T) /\ text[m] \in T BY <1>1, SeqMonotonic
<1> HIDE DEF T
<1>5. /\ Append(s, text[m]) \in Seq(T) /\ Len(Append(s, text[m])) = Len(Q) + 1
      /\ (\A i \in 1 .. Len(Q) : Append(s, text[m])[i] = s[i]) /\ Append(s, text[m])[Len(Q) + 1] = text[m]
  BY <1>1, <1>4, AppendProperties
<1>6. \A i \in 1 .. Len(Q) + 1 : u[i] = Append(s, text[m])[i]
  <2> SUFFICES ASSUME NEW i \in 1 .. Len(Q) + 1 PROVE u[i] = Append(s, text[m])[i] OBVIOUS
  <2>1. PICK n \in Nat : n = Len(Q) OBVIOUS
  <2>2. i = n + 1 \/ i \in 1 .. n BY <2>1
  <2>3. CASE i = n + 1 BY <1>2, <1>3, <1>5, <2>1, <2>3
  <2>4. CASE i \in 1 .. n BY <1>1, <1>2, <1>3, <1>5, <2>1, <2>4
  <2> QED BY <2>2, <2>3, <2>4
<1>7. u = Append(s, text[m]) BY <1>3, <1>5, <1>6, SeqEqual
<1> QED BY <1>7 DEF s, u, r

LEMMA TextsPush ==
  ASSUME NEW S, NEW Q \in Seq(S), NoDuplicates(Q), NEW text, NEW m \in S, m \notin Range(Q)
  PROVE  Texts(text, <<m>> \o Q) = <<text[m]>> \o Texts(text, Q)
<1> DEFINE s == Texts(text, Q)
           r == <<m>> \o Q
           u == Texts(text, r)
           T == Range(s) \cup {text[m]}
           v == <<text[m]>> \o s
<1>1. s \in Seq(Range(s)) /\ Len(s) = Len(Q) /\ \A i \in 1 .. Len(Q) : s[i] = text[Q[i]] BY TextsAre
<1>2. /\ r \in Seq(S) /\ Len(r) = Len(Q) + 1
      /\ \A i \in 1 .. Len(Q) + 1 : r[i] = IF i = 1 THEN m ELSE Q[i - 1]
  BY PushIs
<1> HIDE DEF r
<1>3. u \in Seq(Range(u)) /\ Len(u) = Len(Q) + 1 /\ \A i \in 1 .. Len(Q) + 1 : u[i] = text[r[i]] BY <1>2, TextsAre
<1> HIDE DEF s, u
<1>4. s \in Seq(T) /\ text[m] \in T BY <1>1, SeqMonotonic
<1> HIDE DEF T
<1>5. <<text[m]>> \in Seq(T) /\ Len(<<text[m]>>) = 1 /\ <<text[m]>>[1] = text[m] /\ Len(Q) \in Nat BY <1>4
<1>6. /\ v \in Seq(T) /\ Len(v) = Len(Q) + 1
      /\ \A i \in 1 .. Len(Q) + 1 : v[i] = IF i <= 1 THEN <<text[m]>>[i] ELSE s[i - 1]
  BY <1>1, <1>4, <1>5, ConcatProperties
<1> HIDE DEF v
<1>7. \A i \in 1 .. Len(Q) + 1 : u[i] = v[i]
  <2> SUFFICES ASSUME NEW i \in 1 .. Len(Q) + 1 PROVE u[i] = v[i] OBVIOUS
  <2>1. CASE i = 1 BY <1>2, <1>3, <1>5, <1>6, <2>1
  <2>2. CASE i # 1
    <3>1. i - 1 \in 1 .. Len(Q) /\ ~(i <= 1) BY <1>5, <2>2
    <3>2. v[i] = s[i - 1] BY <1>6, <3>1
    <3>3. u[i] = text[Q[i - 1]] BY <1>2, <1>3, <2>2
    <3> QED BY <1>1, <3>1, <3>2, <3>3
  <2> QED BY <2>1, <2>2
<1>8. u = v BY <1>3, <1>6, <1>7, SeqEqual
<1> QED BY <1>8 DEF s, u, r, v

LEMMA TextsTail ==
  ASSUME NEW S, NEW Q \in Seq(S), NoDuplicates(Q), Q # <<>>, NEW text
  PROVE  /\ Texts(text, Tail(Q)) = Tail(Texts(text, Q)) /\ Head(Texts(text, Q)) = text[Head(Q)]
         /\ Texts(text, Q) # <<>>
<1> DEFINE s == Texts(text, Q)
           r == Tail(Q)
           u == Texts(text, r)
<1>1. /\ s \in Seq(Range(s)) /\ Len(s) = Len(Q) /\ (\A i \in 1 .. Len(Q) : s[i] = text[Q[i]]) /\ s # <<>>
  BY TextsAre
<1>2. /\ r \in Seq(S) /\ Len(r) = Len(Q) - 1 /\ (\A i \in 1 .. Len(Q) - 1 : r[i] = Q[i + 1])
      /\ Head(Q) = Q[1] /\ Len(Q) \in Nat \ {0}
  BY TailIs
<1> HIDE DEF r
<1>3. u \in Seq(Range(u)) /\ Len(u) = Len(Q) - 1 /\ \A i \in 1 .. Len(Q) - 1 : u[i] = text[r[i]] BY <1>2, TextsAre
<1> HIDE DEF s, u
<1>4. Head(s) = s[1] /\ Tail(s) \in Seq(Range(s)) /\ Len(Tail(s)) = Len(s) - 1
      /\ \A i \in 1 .. Len(s) - 1 : Tail(s)[i] = s[i + 1]
  BY <1>1
<1>5. \A i \in 1 .. Len(Q) - 1 : u[i] = Tail(s)[i]
  <2> SUFFICES ASSUME NEW i \in 1 .. Len(Q) - 1 PROVE u[i] = Tail(s)[i] OBVIOUS
  <2>1. i + 1 \in 1 .. Len(Q) BY <1>2
  <2> QED BY <1>1, <1>2, <1>3, <1>4, <2>1
<1>6. u = Tail(s) BY <1>1, <1>3, <1>4, <1>5, SeqEqual
<1>7. Head(s) = text[Head(Q)]
  <2>1. 1 \in 1 .. Len(Q) BY <1>2
  <2> QED BY <1>1, <1>2, <1>4, <2>1
<1> QED BY <1>1, <1>6, <1>7 DEF s, u, r

\* Only the blocks of the queue matter.
LEMMA TextsStay ==
  ASSUME NEW S, NEW Q \in Seq(S), NEW text, NEW other, \A m \in Range(Q) : other[m] = text[m]
  PROVE  Texts(other, Q) = Texts(text, Q)
BY DEF Texts, Range

-----------------------------------------------------------------------------
ChannelStep(b) == [Abstraction(b)!Next]_(Abstraction(b)!vars)

LEMMA Stutters == ASSUME NEW b, Contents(b)' = Contents(b), Received(b)' = Received(b) PROVE ChannelStep(b)
BY DEF ChannelStep, Abstraction!vars

LEMMA Clears == ASSUME NEW b, Contents(b)' = <<>>, Received(b)' = Received(b) PROVE ChannelStep(b)
BY DEF ChannelStep, Abstraction!Next, Abstraction!Clear

LEMMA Puts ==
  ASSUME NEW b, NEW t \in Thread, Len(Contents(b)) < Size[b], calls[t] # <<>>,
         Call(t).op \in Sends, Call(t).on = b, pc[t] \in {"user", "wait", "retry", "fill", "link"},
         Call(t).val # Nothing, Received(b)' = Received(b),
         Contents(b)' = IF Call(t).op = "mq_urgent" THEN <<Call(t).val>> \o Contents(b)
                        ELSE Append(Contents(b), Call(t).val)
  PROVE  ChannelStep(b)
<1>1. Offered(b)[t] = Call(t).val BY DEF Offered
<1>2. Abstraction(b)!Put(t) BY <1>1 DEF Abstraction!Put
<1> QED BY <1>2 DEF ChannelStep, Abstraction!Next

LEMMA Gets ==
  ASSUME NEW b, NEW t \in Thread, Contents(b) # <<>>, Contents(b)' = Tail(Contents(b)),
         Received(b)' = [Received(b) EXCEPT ![t] = Head(Contents(b))]
  PROVE  ChannelStep(b)
<1>1. Abstraction(b)!Get(t) BY DEF Abstraction!Get
<1> QED BY <1>1 DEF ChannelStep, Abstraction!Next

\* Only a receiver from a message queue copies.
LEMMA WhoCopies ==
  ASSUME NEW C, IpcProper(C), CallersOK(C), NEW u \in Thread, pc[u] = "copy"
  PROVE  Call(u).on \in MessageQueue /\ Call(u).op = "mq_recv"
<1>1. IpcCall(Call(u)) BY InCall
<1> QED BY <1>1 DEF CallersOK, IpcFits, IpcCall

LEMMA WhoWillCopy ==
  ASSUME NEW C, IpcProper(C), CallersOK(C), NEW t \in Thread, IpcStep(t) \/ PoolStep(t),
         NEW u \in Thread, pc'[u] = "copy"
  PROVE  Call(u)' = Call(u) /\ Call(u).on \in MessageQueue
<1>1. Others(t) /\ (pc'[t] # "user" => Call(t)' = Call(t)) BY OthersStay
<1>2. CASE u # t BY <1>1, <1>2, WhoCopies DEF Others
<1>3. CASE u = t
  <2>1. pc \in [Thread -> Label \cup IpcLabel] BY DEF CallersOK
  <2>2. Call(t).op = "mq_recv" BY <1>3, <2>1, Moves DEF Return, Goto
  <2>3. IpcCall(Call(t)) BY IpcKeepsCallers
  <2> QED BY <1>1, <1>3, <2>2, <2>3 DEF IpcCall
<1> QED BY <1>2, <1>3

LEMMA MailsReceived ==
  ASSUME NEW C, IpcProper(C), CallersOK(C), NEW b \in Mailbox
  PROVE  /\ Received(b) = [u \in Thread |-> loc.got[b][u]]
         /\ \A t \in Thread : IpcStep(t) \/ PoolStep(t) => Received(b)' = [u \in Thread |-> loc'.got[b][u]]
<1>1. b \notin MessageQueue BY IpcAssumption
<1>2. \A u \in Thread : ~(pc[u] = "copy" /\ Call(u).on = b) BY <1>1, WhoCopies
<1>3. Received(b) = [u \in Thread |-> loc.got[b][u]] BY <1>2 DEF Received
<1>4. ASSUME NEW t \in Thread, IpcStep(t) \/ PoolStep(t)
      PROVE  Received(b)' = [u \in Thread |-> loc'.got[b][u]]
  <2>1. \A u \in Thread : ~(pc'[u] = "copy" /\ Call(u)'.on = b) BY <1>1, <1>4, WhoWillCopy
  <2> QED BY <2>1 DEF Received
<1> QED BY <1>3, <1>4

LEMMA MailsContained ==
  ASSUME NEW b \in Mailbox
  PROVE  /\ Contents(b) = Mails(Size[b], ipc.pool[b], ipc.out[b], ipc.entry[b])
         /\ Contents(b)' = Mails(Size[b], ipc'.pool[b], ipc'.out[b], ipc'.entry[b])
BY DEF Contents, Mails

LEMMA MailboxSteps ==
  ASSUME NEW t \in Users, Sane(k), NEW C, CallersOK(C), IpcProper(C), LocalsOK, QueuesKept, MailsKept,
         IpcStep(t) \/ PoolStep(t), NEW b \in Mailbox
  PROVE  ChannelStep(b)
<1>1. MailDomains /\ t \in Thread /\ b \in Box /\ b \notin MessageQueue
  BY Lists, IpcAssumption DEF MailsKept, Users
<1>2. /\ Received(b) = [u \in Thread |-> loc.got[b][u]]
      /\ Received(b)' = [u \in Thread |-> loc'.got[b][u]]
  BY <1>1, MailsReceived
<1>3. /\ Contents(b) = Mails(Size[b], ipc.pool[b], ipc.out[b], ipc.entry[b])
      /\ Contents(b)' = Mails(Size[b], ipc'.pool[b], ipc'.out[b], ipc'.entry[b])
  BY MailsContained
<1>4. ASSUME SameMailbox(b), loc'.got[b] = loc.got[b] PROVE ChannelStep(b)
  BY <1>2, <1>3, <1>4, Stutters DEF SameMailbox
<1>5. CASE NoMail /\ (loc'.got = loc.got \/ Copies(t))
  <2>1. SameMailbox(b) BY <1>5 DEF NoMail, SameMailbox
  <2>2. loc'.got[b] = loc.got[b]
    <3>1. CASE Copies(t)
      <4>1. pc[t] = "copy" BY <3>1 DEF Copies, MqCopy, At
      <4>2. Call(t).on # b BY <1>1, <4>1, WhoCopies
      <4>3. loc'.got = [loc.got EXCEPT ![Call(t).on] = [@ EXCEPT ![t] = ipc.text[Call(t).on][loc.hand[t]]]]
        BY <3>1 DEF Copies
      <4> QED BY <1>1, <4>2, <4>3 DEF MailDomains
    <3> QED BY <1>5, <3>1
  <2> QED BY <1>4, <2>1, <2>2
<1>6. ASSUME NEW c, Sends1(t, c) \/ Receives1(t, c) \/ Resets1(t, c), c # b PROVE ChannelStep(b)
  <2>1. SameMailbox(b) /\ loc'.got[b] = loc.got[b]
    BY <1>1, <1>6 DEF Sends1, Receives1, Resets1, SameMailbox, MailDomains
  <2> QED BY <1>4, <2>1
<1>7. Size[b] \in Nat /\ Size[b] > 0 /\ Ring(Size[b], ipc.pool[b], ipc.in[b], ipc.out[b], ipc.entry[b])
  BY <1>1, SizeIs DEF MailsKept, RingOf
<1>8. ipc.entry[b] \in 0 .. Size[b] BY <1>7 DEF Ring
<1>9. CASE Sends1(t, b)
  <2>1. /\ ipc'.pool[b] = [ipc.pool[b] EXCEPT ![ipc.in[b]] = Call(t).val]
        /\ ipc'.out[b] = ipc.out[b] /\ ipc'.entry[b] = ipc.entry[b] + 1
    BY <1>1, <1>9 DEF Sends1, MailDomains
  <2>2. ipc.entry[b] # Size[b] BY <1>9 DEF Sends1
  <2>3. Contents(b)' = Append(Contents(b), Call(t).val)
    <3>1. PICK n, pool, in, out, entry, val :
            n = Size[b] /\ pool = ipc.pool[b] /\ in = ipc.in[b] /\ out = ipc.out[b] /\ entry = ipc.entry[b]
            /\ val = Call(t).val
      OBVIOUS
    <3>2. n \in Nat /\ n > 0 /\ Ring(n, pool, in, out, entry) /\ entry # n BY <1>7, <2>2, <3>1
    <3>3. IsAppend(Mails(n, [pool EXCEPT ![in] = val], out, entry + 1), Mails(n, pool, out, entry), val)
      BY ONLY <3>2, RingPost
    <3>4. Contents(b)' = Mails(n, [pool EXCEPT ![in] = val], out, entry + 1) BY <1>3, <2>1, <3>1
    <3> QED BY <1>3, <3>1, <3>3, <3>4 DEF IsAppend
  <2>4. Len(Contents(b)) < Size[b]
    <3>1. ipc.entry[b] \in Nat BY <1>7, <1>8
    <3>2. Len(Contents(b)) = ipc.entry[b] BY <1>3, <3>1, MailsAre
    <3> QED BY <1>7, <1>8, <2>2, <3>2
  <2>5. Received(b)' = Received(b) BY <1>2, <1>9 DEF Sends1
  <2>6. /\ calls[t] # <<>> /\ Call(t).op = "mb_send" /\ Call(t).on = b
        /\ pc[t] \in {"user", "wait", "retry", "fill", "link"}
    <3>1. calls[t] # <<>> BY <1>1, IpcKeepsCallers
    <3> QED BY <1>9, <3>1 DEF Sends1, MbSend, Tries, Calls, At
  <2>7. Call(t).val # Nothing /\ Call(t).op \in Sends /\ Call(t).op # "mq_urgent"
    <3>1. IpcCall(Call(t)) BY <1>1, IpcKeepsCallers
    <3> QED BY <2>6, <3>1 DEF IpcCall, Sends
  <2> QED BY <1>1, <2>3, <2>4, <2>5, <2>6, <2>7, Puts
<1>10. CASE Receives1(t, b)
  <2>1. /\ ipc'.pool[b] = ipc.pool[b] /\ ipc'.out[b] = NextPlace(Size[b], ipc.out[b])
        /\ ipc'.entry[b] = ipc.entry[b] - 1 /\ ipc.entry[b] > 0
    BY <1>1, <1>10 DEF Receives1, MailDomains
  <2>2. /\ Contents(b) # <<>> /\ Head(Contents(b)) = ipc.pool[b][ipc.out[b]]
        /\ Contents(b)' = Tail(Contents(b))
    <3>1. PICK n, pool, in, out, entry :
            n = Size[b] /\ pool = ipc.pool[b] /\ in = ipc.in[b] /\ out = ipc.out[b] /\ entry = ipc.entry[b]
      OBVIOUS
    <3>2. n \in Nat /\ n > 0 /\ Ring(n, pool, in, out, entry) /\ entry > 0 BY <1>7, <2>1, <3>1
    <3>3. IsTail(Mails(n, pool, NextPlace(n, out), entry - 1), Mails(n, pool, out, entry), pool[out])
      BY ONLY <3>2, RingFetch
    <3>4. Contents(b)' = Mails(n, pool, NextPlace(n, out), entry - 1) BY <1>3, <2>1, <3>1
    <3> QED BY <1>3, <3>1, <3>3, <3>4 DEF IsTail
  <2>3. loc'.got[b] = [loc.got[b] EXCEPT ![t] = ipc.pool[b][ipc.out[b]]]
    BY <1>1, <1>10 DEF Receives1, MailDomains
  <2>4. Received(b)' = [Received(b) EXCEPT ![t] = Head(Contents(b))]
    BY <1>1, <1>2, <2>2, <2>3 DEF MailDomains
  <2> QED BY <1>1, <2>2, <2>4, Gets
<1>11. CASE Resets1(t, b)
  <2>1. ipc'.entry[b] = 0 BY <1>1, <1>11 DEF Resets1, MailDomains
  <2>2. Contents(b)' = <<>> BY <1>3, <2>1, RingEmpty
  <2>3. Received(b)' = Received(b) BY <1>2, <1>11 DEF Resets1
  <2> QED BY <2>2, <2>3, Clears
<1> QED BY <1>5, <1>6, <1>9, <1>10, <1>11, MailIsOneOf

LEMMA LaneContained ==
  ASSUME NEW q \in MessageQueue, NEW Q, NEW F
  PROVE  /\ Lane(q, Q, F) => Contents(q) = Texts(ipc.text[q], Q) /\ Q \in Seq(1 .. Size[q]) /\ NoDuplicates(Q)
         /\ Lane(q, Q, F)' => Contents(q)' = Texts(ipc'.text[q], Q) /\ Q \in Seq(1 .. Size[q]) /\ NoDuplicates(Q)
<1>1. q \notin Mailbox /\ Size[q] \in Nat BY IpcAssumption, Lists, SizeIs
<1>2. ASSUME Lane(q, Q, F) PROVE Chain(q, ipc.head[q]) = Q /\ Q \in Seq(1 .. Size[q]) /\ NoDuplicates(Q)
  <2>1. Arranged(Size[q], ipc.next[q], ipc.head[q], ipc.tail[q], ipc.free[q], ipc.entry[q], Held(q), Q, F)
    BY <1>2 DEF Lane
  <2>2. Follow(ipc.next[q], Size[q], ipc.head[q]) = Q /\ Q \in Seq(1 .. Size[q]) BY <1>1, <2>1, ArrangedTypes
  <2> QED BY <2>1, <2>2 DEF Chain, Arranged, Parts
<1>3. ASSUME Lane(q, Q, F)' PROVE Chain(q, ipc.head[q])' = Q /\ Q \in Seq(1 .. Size[q]) /\ NoDuplicates(Q)
  <2>1. Arranged(Size[q], ipc'.next[q], ipc'.head[q], ipc'.tail[q], ipc'.free[q], ipc'.entry[q], Held(q)', Q, F)
    BY <1>3 DEF Lane
  <2>2. Follow(ipc'.next[q], Size[q], ipc'.head[q]) = Q /\ Q \in Seq(1 .. Size[q]) BY <1>1, <2>1, ArrangedTypes
  <2> QED BY <2>1, <2>2 DEF Chain, Arranged, Parts
<1>4. Lane(q, Q, F) => Contents(q) = Texts(ipc.text[q], Q) BY <1>1, <1>2 DEF Contents, Texts
<1>5. Lane(q, Q, F)' => Contents(q)' = Texts(ipc'.text[q], Q) BY <1>1, <1>3 DEF Contents, Texts
<1> QED BY <1>2, <1>3, <1>4, <1>5

LEMMA SameContents ==
  ASSUME NEW q \in MessageQueue, ipc'.next[q] = ipc.next[q], ipc'.head[q] = ipc.head[q], ipc'.text[q] = ipc.text[q]
  PROVE  Contents(q)' = Contents(q)
<1>1. q \notin Mailbox BY IpcAssumption
<1>2. Chain(q, ipc.head[q])' = Chain(q, ipc.head[q]) BY DEF Chain
<1> QED BY <1>1, <1>2 DEF Contents

\* What u has received from b.
Has(b, u) == IF pc[u] = "copy" /\ Call(u).on = b THEN ipc.text[b][loc.hand[u]] ELSE loc.got[b][u]

LEMMA OthersHave ==
  ASSUME NEW t \in Thread, Others(t), NEW b,
         \A u \in Thread \ {t} : loc'.hand[u] = loc.hand[u] /\ loc'.got[b][u] = loc.got[b][u],
         \A u \in Thread \ {t} : pc[u] = "copy" /\ Call(u).on = b =>
            ipc'.text[b][loc.hand[u]] = ipc.text[b][loc.hand[u]]
  PROVE  /\ Has(b, t)' = Has(b, t) => Received(b)' = Received(b)
         /\ Received(b)' = [Received(b) EXCEPT ![t] = Has(b, t)']
<1>1. \A u \in Thread \ {t} : Has(b, u)' = Has(b, u) BY DEF Has, Others
<1>2. Received(b) = [u \in Thread |-> Has(b, u)] /\ Received(b)' = [u \in Thread |-> Has(b, u)']
  BY DEF Received, Has
<1> QED BY <1>1, <1>2

\* Where nobody copies in this step, nothing is received.
LEMMA ReceivedStays ==
  ASSUME NEW t \in Thread, Others(t), NEW b, loc'.got[b] = loc.got[b],
         \A u \in Thread \ {t} : loc'.hand[u] = loc.hand[u],
         \A u \in Thread \ {t} : pc[u] = "copy" /\ Call(u).on = b =>
            ipc'.text[b][loc.hand[u]] = ipc.text[b][loc.hand[u]],
         pc[t] # "copy" \/ Call(t).on # b, pc'[t] # "copy" \/ Call(t)'.on # b
  PROVE  Received(b)' = Received(b)
<1>1. Has(b, t)' = Has(b, t) BY DEF Has
<1> QED BY <1>1, OthersHave

LEMMA QuietSteps ==
  ASSUME NEW t \in Users, Sane(k), NEW C, CallersOK(C), IpcProper(C), LocalsOK, QueuesKept, MailsKept,
         IpcStep(t) \/ PoolStep(t), NEW b \in MessageQueue, QuietStep,
         (pc[t] \in {"user", "wait", "retry"} /\ pc'[t] \notin Handling) \/ MqCopy(t)
  PROVE  ChannelStep(b)
<1>1. MailDomains /\ t \in Thread /\ b \in Box /\ b \notin Mailbox /\ Others(t)
  BY Lists, IpcAssumption, OthersStay DEF MailsKept, Users
<1>2. Contents(b)' = Contents(b) BY SameContents DEF QuietStep
<1>3. ipc'.text = ipc.text /\ loc'.hand = loc.hand BY DEF QuietStep
<1>4. loc'.got[b] = loc.got[b] \/ Copies(t)
  BY <1>1, MailIsOneOf DEF Sends1, Receives1, Resets1, MailDomains
<1>5. CASE MqCopy(t)
  <2>1. pc[t] = "copy" /\ pc' = [pc EXCEPT ![t] = "free"] BY <1>5 DEF MqCopy, At, Goto
  <2>2. pc'[t] = "free" BY <1>1, <2>1 DEF CallersOK
  <2>3. loc'.got = [loc.got EXCEPT ![Call(t).on] = [@ EXCEPT ![t] = ipc.text[Call(t).on][loc.hand[t]]]]
    BY <1>1, <1>5 DEF MqCopy, LocalsOK, LocFields
  <2>4. Has(b, t)' = Has(b, t) BY <1>1, <2>1, <2>2, <2>3 DEF Has, MailDomains
  <2>5. \A u \in Thread \ {t} : loc'.got[b][u] = loc.got[b][u] BY <1>1, <2>3 DEF MailDomains
  <2>6. Received(b)' = Received(b) BY <1>1, <1>3, <2>4, <2>5, OthersHave
  <2> QED BY <1>2, <2>6, Stutters
<1>6. CASE pc[t] \in {"user", "wait", "retry"} /\ pc'[t] \notin Handling
  <2>1. pc[t] # "copy" /\ pc'[t] # "copy" BY <1>6 DEF Handling
  <2>2. loc'.got[b] = loc.got[b] BY <1>4, <2>1 DEF Copies, MqCopy, At
  <2>3. Received(b)' = Received(b) BY <1>1, <1>3, <2>1, <2>2, ReceivedStays
  <2> QED BY <1>2, <2>3, Stutters
<1> QED BY <1>5, <1>6

\* A step on another queue.
LEMMA StepsElsewhere ==
  ASSUME NEW t \in Thread, Others(t), NEW q, q = Call(t).on, pc'[t] # "user" => Call(t)' = Call(t),
         NEW b \in MessageQueue, b # q, SameQueue(b), loc'.got = loc.got, NEW h,
         loc'.hand = [loc.hand EXCEPT ![t] = h]
  PROVE  ChannelStep(b)
<1>1. Contents(b)' = Contents(b) BY SameContents DEF SameQueue
<1>2. Received(b)' = Received(b) BY ReceivedStays DEF SameQueue
<1> QED BY <1>1, <1>2, Stutters

\* A step on queue q with its lists before and after it.
LEMMA LeavesContained ==
  ASSUME NEW C, NEW t, NEW q, NEW Q, NEW F, OnQueue(C, t, q, Q, F), NEW P, NEW G, Rearranged(q, P, G)
  PROVE  /\ Contents(q) = Texts(ipc.text[q], Q) /\ Contents(q)' = Texts(ipc'.text[q], P)
         /\ Q \in Seq(1 .. Size[q]) /\ NoDuplicates(Q) /\ P \in Seq(1 .. Size[q]) /\ NoDuplicates(P)
<1>1. q \in MessageQueue /\ Lane(q, Q, F) /\ Lane(q, P, G)' BY DEF OnQueue, Rearranged
<1> QED BY <1>1, LaneContained

LEMMA TakeSteps ==
  ASSUME NEW C, NEW t, NEW q, NEW Q, NEW F, OnQueue(C, t, q, Q, F),
         pc[t] \notin Handling, ipc.free[q] # Block0, TakeFree(t, q), NEW b \in MessageQueue
  PROVE  ChannelStep(b)
<1>1. Rearranged(q, Q, Tail(F)) /\ ipc'.text = ipc.text BY TakeLeaves
<1>2. Others(t) /\ pc'[t] = "fill" /\ Call(t)' = Call(t) BY OnQueueIs, StepMoves DEF TakeFree
<1>3. loc'.hand = [loc.hand EXCEPT ![t] = ipc.free[q]] /\ loc'.got = loc.got
  BY OnQueueIs DEF TakeFree, Leave, LocFields
<1>4. t \in Thread /\ q = Call(t).on /\ q \in MessageQueue /\ pc[t] # "copy" BY OnQueueIs DEF Handling
<1>5. CASE b # q
  <2>1. SameQueue(b) BY <1>1, <1>5 DEF Rearranged
  <2> QED BY <1>2, <1>3, <1>4, <1>5, <2>1, StepsElsewhere
<1>6. CASE b = q
  <2>1. Contents(q)' = Contents(q) BY <1>1, LeavesContained
  <2>2. \A u \in Thread \ {t} : loc'.hand[u] = loc.hand[u] BY <1>3, OnQueueIs
  <2>3. Received(q)' = Received(q) BY <1>1, <1>2, <1>3, <1>4, <2>2, ReceivedStays
  <2> QED BY <1>6, <2>1, <2>3, Stutters
<1> QED BY <1>5, <1>6

LEMMA FillSteps ==
  ASSUME NEW C, NEW t, NEW q, NEW Q, NEW F, OnQueue(C, t, q, Q, F), MqFill(t), NEW b \in MessageQueue
  PROVE  ChannelStep(b)
<1>1. PICK m : m = loc.hand[t] OBVIOUS
<1>2. /\ Rearranged(q, Q, F) /\ m \in Blocks(q) /\ m \notin Range(Q) /\ loc' = loc
      /\ ipc'.text = [ipc.text EXCEPT ![q][m] = Call(t).val]
  BY <1>1, FillLeaves
<1>3. Others(t) /\ pc'[t] = "link" /\ Call(t)' = Call(t) BY OnQueueIs, StepMoves DEF MqFill
<1>4. /\ t \in Thread /\ q = Call(t).on /\ q \in MessageQueue /\ pc[t] = "fill" /\ HandsOK /\ QueueDomains
      /\ loc.hand[t] # Block0 /\ Held(q) \subseteq 1 .. Size[q]
  BY OnQueueIs DEF MqFill, At, Handling, Arranged, Parts
<1>5. loc'.hand = [loc.hand EXCEPT ![t] = m] BY <1>1, <1>2, OnQueueIs DEF HandsOK
<1>6. CASE b # q
  <2>1. SameQueue(b) BY <1>2, <1>6 DEF Rearranged
  <2> QED BY <1>2, <1>3, <1>4, <1>5, <1>6, <2>1, StepsElsewhere
<1>7. CASE b = q
  <2>1. \A y \in Blocks(q) \ {m} : ipc'.text[q][y] = ipc.text[q][y] BY <1>2, <1>4 DEF QueueDomains
  <2>2. Contents(q) = Texts(ipc.text[q], Q) /\ Contents(q)' = Texts(ipc'.text[q], Q) /\ Q \in Seq(1 .. Size[q])
    BY <1>2, LeavesContained
  <2>3. \A y \in Range(Q) : ipc'.text[q][y] = ipc.text[q][y]
    <3>1. Range(Q) \subseteq Blocks(q) BY OnQueueIs DEF Arranged, Parts, Blocks
    <3> QED BY <1>2, <2>1, <3>1
  <2>4. Contents(q)' = Contents(q) BY <2>2, <2>3, TextsStay
  <2>5. ASSUME NEW u \in Thread \ {t}, pc[u] = "copy", Call(u).on = q
        PROVE  ipc'.text[q][loc.hand[u]] = ipc.text[q][loc.hand[u]]
    <3>1. loc.hand[u] # Block0 BY <1>4, <2>5 DEF HandsOK, Handling
    <3>2. loc.hand[u] # m BY <1>1, <1>4, <2>5, <3>1 DEF HandsOK
    <3>3. loc.hand[u] \in Held(q) BY <2>5, <3>1 DEF Held, Holders
    <3> QED BY <1>4, <2>1, <3>2, <3>3 DEF Blocks
  <2>6. Received(q)' = Received(q) BY <1>2, <1>3, <1>4, <2>5, ReceivedStays
  <2> QED BY <1>7, <2>4, <2>6, Stutters
<1> QED BY <1>6, <1>7

LEMMA LinkSteps ==
  ASSUME NEW C, NEW t, NEW q, NEW Q, NEW F, OnQueue(C, t, q, Q, F), MqLink(t), NEW b \in MessageQueue,
         calls[t] # <<>>, IpcCall(Call(t)), Call(t).op \in {"mq_send", "mq_urgent"}
  PROVE  ChannelStep(b)
<1>1. PICK m : m = loc.hand[t] OBVIOUS
<1>2. PICK P : P = (IF Call(t).op = "mq_send" THEN Append(Q, m) ELSE <<m>> \o Q) /\ Rearranged(q, P, F)
  <2>1. CASE Call(t).op = "mq_send"
    <3>1. Rearranged(q, Append(Q, m), F) BY ZenonT(40), <1>1, <2>1, LinkLeaves
    <3> QED BY <2>1, <3>1
  <2>2. CASE Call(t).op # "mq_send"
    <3>1. Rearranged(q, <<m>> \o Q, F) BY <1>1, <2>2, LinkLeaves
    <3> QED BY <2>2, <3>1
  <2> QED BY <2>1, <2>2
<1>3. /\ m \in Blocks(q) /\ m \notin Range(Q) /\ ipc.text[q][m] = Call(t).val
      /\ ipc'.text = ipc.text /\ loc' = [loc EXCEPT !.hand[t] = Block0]
  BY <1>1, <1>2, LinkLeaves
<1>4. Others(t) /\ pc'[t] \in {"user", "schedule"} BY OnQueueIs, WakeMoves DEF MqLink
<1>5. t \in Thread /\ q = Call(t).on /\ q \in MessageQueue /\ pc[t] = "link" /\ Size[q] \in Nat
  BY OnQueueIs DEF MqLink, At
<1>6. loc'.hand = [loc.hand EXCEPT ![t] = Block0] /\ loc'.got = loc.got BY <1>3, OnQueueIs DEF LocFields
<1>7. CASE b # q
  <2>1. SameQueue(b) BY <1>2, <1>7 DEF Rearranged
  <2>2. pc'[t] # "copy" BY <1>4
  <2>3. \A u \in Thread \ {t} : loc'.hand[u] = loc.hand[u] BY <1>6, OnQueueIs
  <2>4. Received(b)' = Received(b) BY <1>3, <1>4, <1>5, <1>6, <2>2, <2>3, ReceivedStays
  <2>5. Contents(b)' = Contents(b) BY <2>1, SameContents DEF SameQueue
  <2> QED BY <2>4, <2>5, Stutters
<1>8. CASE b = q
  <2>1. /\ Contents(q) = Texts(ipc.text[q], Q) /\ Contents(q)' = Texts(ipc.text[q], P)
        /\ Q \in Seq(1 .. Size[q]) /\ NoDuplicates(Q) /\ P \in Seq(1 .. Size[q]) /\ NoDuplicates(P)
    BY <1>2, <1>3, LeavesContained
  <2>2. m \in 1 .. Size[q] BY <1>3 DEF Blocks
  <2>3. Contents(q)' = IF Call(t).op = "mq_urgent" THEN <<Call(t).val>> \o Contents(q)
                       ELSE Append(Contents(q), Call(t).val)
    <3>1. CASE Call(t).op = "mq_send"
      <4>1. P = Append(Q, m) BY <1>2, <3>1
      <4>2. Texts(ipc.text[q], Append(Q, m)) = Append(Texts(ipc.text[q], Q), ipc.text[q][m])
        <5>1. PICK S, text : S = 1 .. Size[q] /\ text = ipc.text[q] OBVIOUS
        <5>2. Q \in Seq(S) /\ m \in S BY <2>1, <2>2, <5>1
        <5>3. Texts(text, Append(Q, m)) = Append(Texts(text, Q), text[m]) BY ONLY <5>2, TextsAppend
        <5> QED BY <5>1, <5>3
      <4> QED BY <1>3, <2>1, <3>1, <4>1, <4>2
    <3>2. CASE Call(t).op = "mq_urgent"
      <4>1. P = <<m>> \o Q BY <1>2, <3>2
      <4>2. Texts(ipc.text[q], <<m>> \o Q) = <<ipc.text[q][m]>> \o Texts(ipc.text[q], Q)
        BY <1>3, <2>1, <2>2, TextsPush
      <4> QED BY <1>3, <2>1, <3>2, <4>1, <4>2
    <3> QED BY <3>1, <3>2
  <2>4. Len(Contents(q)) < Size[q]
    <3>1. Len(P) = Len(Q) + 1
      <4>1. Append(Q, m) \in Seq(1 .. Size[q]) /\ Len(Append(Q, m)) = Len(Q) + 1 BY <2>1, <2>2, AppendProperties
      <4>2. Len(<<m>> \o Q) = Len(Q) + 1 BY <1>3, <2>1, <2>2, PushIs
      <4> QED BY <1>2, <4>1, <4>2
    <3>2. Len(P) <= Size[q] BY <1>5, <2>1, Sizes
    <3>3. Len(Contents(q)) = Len(Q) BY <2>1, TextsAre
    <3>4. Len(Q) \in Nat BY <2>1
    <3> QED BY <1>5, <3>1, <3>2, <3>3, <3>4
  <2>5. \A u \in Thread \ {t} : loc'.hand[u] = loc.hand[u] BY <1>6, OnQueueIs
  <2>6. Received(q)' = Received(q)
    <3>1. pc[t] # "copy" /\ pc'[t] # "copy" BY <1>4, <1>5
    <3> QED BY <1>3, <1>4, <1>5, <1>6, <2>5, <3>1, ReceivedStays
  <2>7. Call(t).op \in Sends /\ Call(t).val # Nothing BY DEF IpcCall, Sends
  <2>8. pc[t] \in {"user", "wait", "retry", "fill", "link"} BY <1>5
  <2> QED BY <1>5, <1>8, <2>3, <2>4, <2>6, <2>7, <2>8, Puts
<1> QED BY <1>7, <1>8

LEMMA FreeSteps ==
  ASSUME NEW C, NEW t, NEW q, NEW Q, NEW F, OnQueue(C, t, q, Q, F), MqFree(t), NEW b \in MessageQueue
  PROVE  ChannelStep(b)
<1>0. PICK G : Rearranged(q, Q, G) BY FreeLeaves
<1>1. ipc'.text = ipc.text /\ loc' = [loc EXCEPT !.hand[t] = Block0] BY FreeLeaves
<1>2. Others(t) /\ pc'[t] \in {"user", "schedule"} BY OnQueueIs, WakeMoves DEF MqFree
<1>3. t \in Thread /\ q = Call(t).on /\ q \in MessageQueue /\ pc[t] = "free" BY OnQueueIs DEF MqFree, At
<1>4. loc'.hand = [loc.hand EXCEPT ![t] = Block0] /\ loc'.got = loc.got BY <1>1, OnQueueIs DEF LocFields
<1>5. pc[t] # "copy" /\ pc'[t] # "copy" BY <1>2, <1>3
<1>6. \A u \in Thread \ {t} : loc'.hand[u] = loc.hand[u] BY <1>4, OnQueueIs
<1>7. Received(b)' = Received(b) BY <1>1, <1>2, <1>3, <1>4, <1>5, <1>6, ReceivedStays
<1>8. Contents(b)' = Contents(b)
  <2>1. CASE b # q
    <3>1. SameQueue(b) BY <1>0, <2>1 DEF Rearranged
    <3> QED BY <3>1, SameContents DEF SameQueue
  <2>2. CASE b = q
    <3>1. Contents(q)' = Contents(q) BY <1>0, <1>1, LeavesContained
    <3> QED BY <2>2, <3>1
  <2> QED BY <2>1, <2>2
<1> QED BY <1>7, <1>8, Stutters

LEMMA ResetSteps ==
  ASSUME NEW C, NEW t, NEW q, NEW Q, NEW F, OnQueue(C, t, q, Q, F), MqReset(t), NEW b \in MessageQueue
  PROVE  ChannelStep(b)
<1>1. ipc'.text = ipc.text /\ loc' = loc BY ResetLeaves
<1>2. PICK G : Rearranged(q, <<>>, G) BY ResetLeaves
<1>3. pc[t] = "user" /\ pc'[t] = "schedule" /\ Others(t) /\ t \in Thread
  BY OnQueueIs, StepMoves DEF MqReset, Calls, At
<1>4. Received(b)' = Received(b)
  <2>1. pc[t] # "copy" /\ pc'[t] # "copy" BY <1>3
  <2> QED BY <1>1, <1>3, <2>1, ReceivedStays
<1>5. CASE b # q
  <2>1. SameQueue(b) BY <1>2, <1>5 DEF Rearranged
  <2>2. Contents(b)' = Contents(b) BY <2>1, SameContents DEF SameQueue
  <2> QED BY <1>4, <2>2, Stutters
<1>6. CASE b = q
  <2>1. Contents(q)' = Texts(ipc'.text[q], <<>>) /\ <<>> \in Seq(1 .. Size[q]) BY <1>2, LeavesContained
  <2>2. Texts(ipc'.text[q], <<>>) = <<>> BY <2>1, TextsAre
  <2> QED BY <1>4, <1>6, <2>1, <2>2, Clears
<1> QED BY <1>5, <1>6

LEMMA ReceiveSteps ==
  ASSUME NEW C, NEW t, NEW q, NEW Q, NEW F, OnQueue(C, t, q, Q, F), pc[t] \notin Handling,
         ipc.entry[q] > 0, ipc' = UnlinkFirst(q), loc' = [Leave(loc, t) EXCEPT !.hand[t] = ipc.head[q]],
         Goto(t, "copy"), NEW b \in MessageQueue
  PROVE  ChannelStep(b)
<1>1. /\ Rearranged(q, Tail(Q), F) /\ Q # <<>> /\ Head(Q) = ipc.head[q] /\ ipc'.text = ipc.text
      /\ loc'.hand = [loc.hand EXCEPT ![t] = ipc.head[q]] /\ loc'.got = loc.got
  BY UnlinkLeaves
<1>2. Others(t) /\ pc'[t] = "copy" /\ Call(t)' = Call(t) BY OnQueueIs, StepMoves
<1>3. t \in Thread /\ q = Call(t).on /\ q \in MessageQueue /\ DOMAIN loc.hand = Thread BY OnQueueIs
<1>4. CASE b # q
  <2>1. SameQueue(b) BY <1>1, <1>4 DEF Rearranged
  <2> QED BY <1>1, <1>2, <1>3, <1>4, <2>1, StepsElsewhere
<1>5. CASE b = q
  <2>1. PICK P : P = Tail(Q) OBVIOUS
  <2>2. /\ Contents(q) = Texts(ipc.text[q], Q) /\ Contents(q)' = Texts(ipc.text[q], P)
        /\ Q \in Seq(1 .. Size[q]) /\ NoDuplicates(Q)
    <3>1. Rearranged(q, P, F) BY <1>1, <2>1
    <3> QED BY <1>1, <3>1, LeavesContained
  <2>3. /\ Texts(ipc.text[q], Tail(Q)) = Tail(Texts(ipc.text[q], Q))
        /\ Head(Texts(ipc.text[q], Q)) = ipc.text[q][Head(Q)] /\ Texts(ipc.text[q], Q) # <<>>
    BY <1>1, <2>2, TextsTail
  <2>4. Contents(q) # <<>> /\ Contents(q)' = Tail(Contents(q)) /\ Head(Contents(q)) = ipc.text[q][ipc.head[q]]
    BY <1>1, <2>1, <2>2, <2>3
  <2>5. Has(q, t)' = ipc.text[q][ipc.head[q]] BY <1>1, <1>2, <1>3 DEF Has
  <2>6. \A u \in Thread \ {t} : loc'.hand[u] = loc.hand[u] /\ loc'.got[q][u] = loc.got[q][u] BY <1>1, <1>3
  <2>7. Received(q)' = [Received(q) EXCEPT ![t] = Has(q, t)'] BY <1>1, <1>2, <1>3, <2>6, OthersHave
  <2>8. Received(q)' = [Received(q) EXCEPT ![t] = Head(Contents(q))] BY <2>4, <2>5, <2>7
  <2> QED BY <1>3, <1>5, <2>4, <2>8, Gets
<1> QED BY <1>4, <1>5

LEMMA QueueSteps ==
  ASSUME NEW t \in Users, Sane(k), NEW C, CallersOK(C), IpcProper(C), LocalsOK, QueuesKept, MailsKept,
         IpcStep(t) \/ PoolStep(t), NEW b \in MessageQueue
  PROVE  ChannelStep(b)
<1>1. /\ t \in Thread /\ IpcCall(Call(t)) /\ IpcFits(pc[t], Call(t).op) /\ calls[t] # <<>>
  BY IpcKeepsCallers DEF Users, CallersOK
<1>2. PICK q : q = Call(t).on OBVIOUS
<1>3. ASSUME q \in MessageQueue PROVE \E Q, F : OnQueue(C, t, q, Q, F)
  BY <1>1, <1>2, <1>3 DEF OnQueue, QueuesKept
<1>4. CASE QuietStep /\ ((pc[t] \in {"user", "wait", "retry"} /\ pc'[t] \notin Handling) \/ MqCopy(t))
  BY <1>4, QuietSteps
<1>5. CASE pc[t] \notin Handling /\ TakeFree(t, q) /\ ipc.free[q] # Block0 /\ (MqSend(t) \/ MqUrgent(t))
  <2>1. q \in MessageQueue BY <1>1, <1>2, <1>5 DEF MqSend, MqUrgent, Tries, Calls, At, IpcCall
  <2>2. PICK Q, F : OnQueue(C, t, q, Q, F) BY <1>3, <2>1
  <2> QED BY <1>5, <2>2, TakeSteps
<1>6. CASE MqFill(t) \/ MqLink(t) \/ MqFree(t) \/ MqReset(t)
  <2>1. q \in MessageQueue
    BY <1>1, <1>2, <1>6 DEF MqFill, MqLink, MqFree, MqReset, Calls, At, IpcCall, IpcFits
  <2>2. PICK Q, F : OnQueue(C, t, q, Q, F) BY <1>3, <2>1
  <2>3. MqLink(t) => Call(t).op \in {"mq_send", "mq_urgent"} BY <1>1 DEF MqLink, At, IpcFits
  <2> QED BY <1>1, <1>6, <2>2, <2>3, FillSteps, LinkSteps, FreeSteps, ResetSteps
<1>7. CASE /\ MqRecv(t) /\ pc[t] \notin Handling /\ ipc.entry[q] > 0 /\ ipc' = UnlinkFirst(q)
           /\ loc' = [Leave(loc, t) EXCEPT !.hand[t] = ipc.head[q]] /\ Goto(t, "copy")
  <2>1. q \in MessageQueue BY <1>1, <1>2, <1>7 DEF MqRecv, Tries, Calls, At, IpcCall
  <2>2. PICK Q, F : OnQueue(C, t, q, Q, F) BY <1>3, <2>1
  <2> QED BY <1>7, <2>2, ReceiveSteps
<1> QED BY <1>2, <1>4, <1>5, <1>6, <1>7, QuietIs

\* Nothing else changes what is in a mailbox or a message queue.
LEMMA IdleChannels ==
  ASSUME UNCHANGED ipcVars, NEW b,
         \A u \in Thread : (pc'[u] = pc[u] /\ Call(u)' = Call(u)) \/ (pc[u] # "copy" /\ pc'[u] # "copy")
  PROVE  ChannelStep(b)
<1>1. ipc' = ipc /\ loc' = loc BY DEF ipcVars
<1>2. Contents(b)' = Contents(b)
  <2>1. Chain(b, ipc.head[b])' = Chain(b, ipc.head[b]) BY <1>1 DEF Chain
  <2> QED BY <1>1, <2>1 DEF Contents
<1>3. \A u \in Thread : Has(b, u)' = Has(b, u) BY <1>1 DEF Has
<1>4. Received(b)' = Received(b)
  <2>1. Received(b) = [u \in Thread |-> Has(b, u)] /\ Received(b)' = [u \in Thread |-> Has(b, u)']
    BY DEF Received, Has
  <2> QED BY <1>3, <2>1
<1> QED BY <1>2, <1>4, Stutters

LEMMA ChannelSteps ==
  ASSUME NEW C, IpcProper(C), IpcInv(C), [PoolNext]_poolVars, NEW b \in Box PROVE ChannelStep(b)
<1>1. /\ k.cpu \in Thread /\ CallersOK(C) /\ LocalsOK /\ QueuesKept /\ MailsKept
      /\ b \in Mailbox \/ b \in MessageQueue
  BY DEF IpcInv, ContextInv, Deferred, Box
<1>2. PICK t \in Thread : t = k.cpu BY <1>1
<1>3. CASE isr = "none" /\ (PoolStep(t) \/ IpcStep(t))
  <2>1. Sane(k) BY <1>3 DEF IpcInv, Sane
  <2>2. t \in Users BY <1>1, <1>3, IpcKeepsCallers
  <2> QED BY <1>1, <1>3, <2>1, <2>2, MailboxSteps, QueueSteps
<1>4. CASE ThreadStep(t) /\ UNCHANGED ipcVars
  <2>1. /\ pc[t] \in Label /\ pc'[t] \in Label
        /\ \A u \in Thread \ {t} : pc'[u] = pc[u] /\ Call(u)' = Call(u)
    BY <1>1, <1>4, ThreadMoves
  <2>2. pc[t] # "copy" /\ pc'[t] # "copy" BY <2>1, Labels
  <2> QED BY <1>4, <2>1, <2>2, IdleChannels
<1>5. CASE (Tick \/ TimerExpires \/ TickReturns) /\ UNCHANGED ipcVars
  <2>1. pc' = pc /\ \A u \in Thread : Call(u)' = Call(u) BY <1>5 DEF Tick, TimerExpires, TickReturns, Call
  <2> QED BY <1>5, <2>1, IdleChannels
<1>6. CASE UNCHANGED poolVars
  <2>1. UNCHANGED ipcVars /\ pc' = pc /\ \A u \in Thread : Call(u)' = Call(u)
    BY <1>6 DEF poolVars, ipcVars, Call
  <2> QED BY <2>1, IdleChannels
<1> QED BY <1>2, <1>3, <1>4, <1>5, <1>6 DEF PoolNext, PoolRun, RunCall

LEMMA ChannelsInit == ASSUME IpcInit, NEW b \in Box PROVE Abstraction(b)!Init
<1>1. /\ ipc.entry = [o \in Box |-> 0] /\ pc = [t \in Thread |-> "user"]
      /\ loc.got = [o \in Box |-> [t \in Thread |-> Nothing]]
  BY DEF IpcInit, Init
<1>2. Received(b) = [t \in Thread |-> Nothing]
  <2>1. \A t \in Thread : pc[t] # "copy" /\ loc.got[b][t] = Nothing BY <1>1
  <2> QED BY <2>1 DEF Received
<1>3. Contents(b) = <<>>
  <2>1. CASE b \in Mailbox
    <3>1. Contents(b) = Mails(Size[b], ipc.pool[b], ipc.out[b], 0) BY <1>1, <2>1, MailsContained
    <3> QED BY <3>1, RingEmpty
  <2>2. CASE b \in MessageQueue
    <3>1. Lane(b, <<>>, FreshList(Size[b])) BY <2>2, FreshQueues
    <3>2. PICK F : F = FreshList(Size[b]) OBVIOUS
    <3>3. Contents(b) = Texts(ipc.text[b], <<>>) /\ <<>> \in Seq(1 .. Size[b])
      BY <2>2, <3>1, <3>2, LaneContained
    <3> QED BY <3>3, TextsAre
  <2> QED BY <2>1, <2>2 DEF Box
<1> QED BY <1>2, <1>3 DEF Abstraction!Init

\* Every mailbox and message queue is a bounded sequence of messages: what a thread sends goes in
\* once and whole, at its end or in front, and comes out once, to one thread, in order (ipc.c),
\* although the ring of a mailbox turns and a queue's blocks are filled and read with interrupts
\* enabled; for all sizes, numbers of threads and programs.
THEOREM MessagesPassThrough ==
  ASSUME NEW C, IpcProper(C) PROVE PoolSpec /\ []NobodyInterferes => ChannelsImplement
<1>1. PoolInit => \A b \in Box : Abstraction(b)!Init BY ChannelsInit DEF PoolInit
<1>2. IpcInv(C) /\ [PoolNext]_poolVars
        => [\A b \in Box : [Abstraction(b)!Next]_(Abstraction(b)!vars)]_allVars
  BY ChannelSteps DEF ChannelStep
<1> QED BY <1>1, <1>2, IpcInvariant, PTL DEF PoolSpec, ChannelsImplement
=============================================================================
