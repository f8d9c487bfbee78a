------------------------------ MODULE MemPool -------------------------------
(***************************************************************************)
(* Memory pools (mempool.c) on top of module Ipc: blocks of one size, in a *)
(* list of free ones, and threads that wait for a block.  Unlike the lists *)
(* of ipc.c, the one of a pool is a stack: the last to wait is woken first.*)
(***************************************************************************)
EXTENDS Ipc

CONSTANTS Pool,     \* the pools; the list of threads waiting at one has its name
          PoolSize  \* [Pool -> <<bytes given to rt_mp_init, size of a block>>]

SIZEOF_POINTER == 4
AlignUp(n) == ((n + 3) \div 4) * 4
block_total_count(p) == ((PoolSize[p][1] \div 4) * 4) \div (AlignUp(PoolSize[p][2]) + SIZEOF_POINTER)

ASSUME PoolAssumption ==
  /\ Pool \subseteq OtherLists
  /\ \A p \in Pool : block_total_count(p) > 0

VARIABLE mp    \* block_list, block_free_count, and the blocks each thread was given
poolVars == <<k, pc, calls, isr, ipc, loc, mp>>

rt_mp_init(p) ==
  [block_list |-> [i \in 1..block_total_count(p) |-> i], block_free_count |-> block_total_count(p),
   given |-> [t \in Thread |-> <<>>]]
PoolInit == IpcInit /\ mp = [p \in Pool |-> rt_mp_init(p)]

-----------------------------------------------------------------------------
\* The caller waits as the first of the list.
BlockFirst(s, p, t, time) ==
  LET u == rt_thread_suspend([s EXCEPT !.error[t] = "ok"], t)
      v == [u EXCEPT !.waiting[p] = <<t>> \o @]
  IN  IF time > 0 THEN rt_timer_start(v, t, time) ELSE v

MpWait(t, p, time) ==
  /\ k' = BlockFirst(k, p, t, time)
  /\ loc' = [loc EXCEPT !.time[t] = time, !.start[t] = IF time > 0 THEN k.tick ELSE 0,
                        !.due[t] = IF pc[t] = "retry" \/ time < 0 THEN @ ELSE (k.tick + time) % TickMod]
  /\ Goto(t, "wait") /\ UNCHANGED <<ipc, mp>>

MpAlloc(t) ==
  LET p == Call(t).on  free == mp[p].block_list IN
  /\ Tries(t, "mp_alloc")
  /\ \/ mp[p].block_free_count = 0 /\ NoTime(t, FALSE) /\ UNCHANGED mp
     \/ mp[p].block_free_count = 0 /\ TimeLeft(t) # 0 /\ MpWait(t, p, TimeLeft(t))
     \/ /\ mp[p].block_free_count > 0
        /\ mp' = [mp EXCEPT ![p].block_free_count = @ - 1, ![p].block_list = Tail(free),
                            ![p].given[t] = Append(@, Head(free))]
        /\ loc' = Leave(loc, t) /\ Return(t) /\ UNCHANGED <<k, ipc>>
MpFails(t) == /\ At(t, "retry") /\ Call(t).op = "mp_alloc" /\ k.error[t] # "ok"
              /\ Fail(t) /\ UNCHANGED mp


\* rt_mp_free of the first block the thread holds (of nothing, if it holds none)
MpFree(t) ==
  LET p == Call(t).on IN
  /\ Calls(t, "mp_free")
  /\ \/ mp[p].given[t] = <<>> /\ Fail(t) /\ UNCHANGED mp
     \/ /\ mp[p].given[t] # <<>>
        /\ mp' = [mp EXCEPT ![p].block_free_count = @ + 1,
                            ![p].block_list = <<Head(mp[p].given[t])>> \o @, ![p].given[t] = Tail(@)]
        /\ UNCHANGED <<ipc, loc>>
        /\ WakeAndReturn(t, p)

\* rt_mp_detach goes on as rt_sem_detach does: it tests the list and wakes its first thread
\* with an error, with interrupts enabled in between.
MpDetach(t) == Calls(t, "mp_detach") /\ Goto(t, "drain") /\ UNCHANGED <<k, ipc, loc, mp>>

PoolStep(t) == MpAlloc(t) \/ MpFails(t) \/ MpFree(t) \/ MpDetach(t)
PoolRun == \/ isr = "none" /\ PoolStep(k.cpu)
           \/ RunCall /\ UNCHANGED mp
PoolNext == PoolRun \/ ((Tick \/ TimerExpires \/ TickReturns) /\ UNCHANGED <<ipcVars, mp>>)
PoolSpec ==
  /\ PoolInit /\ [][PoolNext]_poolVars
  /\ WF_isr(isr = "none" /\ isr' = "timers")
  /\ WF_isr(isr = "timers" /\ isr' = "none")
  /\ SF_poolVars(PoolRun)

-----------------------------------------------------------------------------
\* The calls that may wait; -1 is RT_WAITING_FOREVER.
TimedCalls == {"mb_send", "mb_recv", "mq_send", "mq_recv", "mutex_take", "event_recv", "mp_alloc"}

\* What is asked of these calls of a program: an object of the right kind, a time that
\* rt_timer_start takes, and a message.
IpcCall(c) ==
  /\ c.op \in {"mb_send", "mb_recv", "mb_reset"} => c.on \in Mailbox
  /\ c.op \in {"mq_send", "mq_urgent", "mq_recv", "mq_reset"} => c.on \in MessageQueue
  /\ c.op \in {"mutex_take", "mutex_release"} => c.on \in Mutex
  /\ c.op \in {"event_send", "event_recv", "event_reset"} => c.on \in Event
  /\ c.op \in {"mp_alloc", "mp_free", "mp_detach"} => c.on \in Pool
  /\ c.op \in TimedCalls => c.arg \in -1 .. HalfTick - 1
  /\ c.op \in Sends => c.val # Nothing

-----------------------------------------------------------------------------
=============================================================================
