--------------------------------- MODULE Ipc ---------------------------------
(***************************************************************************)
(* The other objects of ipc.c on top of module Kernel: mailboxes, message  *)
(* queues, mutexes and events.  A thread's step goes, as in Kernel, from   *)
(* one point with interrupts enabled to the next.  A list of waiting       *)
(* threads has the name of its object; that of the senders to a mailbox or *)
(* message queue is Senders[object].                                       *)
(***************************************************************************)
EXTENDS Kernel, FiniteSets

CONSTANTS
  Mailbox, MessageQueue, Mutex, Event,   \* the objects
  Senders,    \* suspend_sender_thread of each mailbox and message queue
  Size,       \* size of each mailbox, max_msgs of each message queue
  HoldMax,    \* RT_MUTEX_HOLD_MAX
  Nothing,    \* no message
  Nobody      \* RT_NULL for the owner of a mutex

Box   == Mailbox \cup MessageQueue
Block0 == 0   \* RT_NULL for a message block; the blocks of a queue are 1 .. Size
Blocks(q) == 1 .. Size[q]

ASSUME IpcAssumption ==
  /\ Box \cup Mutex \cup Event \cup {Senders[b] : b \in Box} \subseteq OtherLists
  /\ Size \in [Box -> Nat \ {0}] /\ HoldMax \in Nat \ {0}
  /\ Mailbox \cap MessageQueue = {} /\ Nobody \notin Thread

VARIABLES
  ipc,    \* the fields of the objects
  loc     \* per thread: local variables of its call, event_set and event_info, and history

ipcVars == <<ipc, loc>>
allVars == <<k, pc, calls, isr, ipc, loc>>

\* rt_mb_init, rt_mq_init, rt_mutex_init, rt_event_init.
IpcInit ==
  /\ Init
  /\ ipc = [ pool  |-> [b \in Mailbox |-> [i \in 0 .. Size[b] - 1 |-> Nothing]],
             in    |-> [b \in Mailbox |-> 0], out |-> [b \in Mailbox |-> 0],
             entry |-> [b \in Box |-> 0],
             head  |-> [q \in MessageQueue |-> Block0], tail |-> [q \in MessageQueue |-> Block0],
             free  |-> [q \in MessageQueue |-> Size[q]],
             next  |-> [q \in MessageQueue |-> [m \in Blocks(q) |-> m - 1]],
             text  |-> [q \in MessageQueue |-> [m \in Blocks(q) |-> Nothing]],
             owner |-> [x \in Mutex |-> Nobody], hold |-> [x \in Mutex |-> 0],
             original |-> [x \in Mutex |-> PriorityMax],
             set   |-> [v \in Event |-> {}] ]
  /\ loc = [ time |-> [t \in Thread |-> 0], start |-> [t \in Thread |-> 0],
             hand |-> [t \in Thread |-> Block0],
             event_set |-> [t \in Thread |-> {}], event_info |-> [t \in Thread |-> {}],
             due  |-> [t \in Thread |-> 0],
             got  |-> [b \in Box |-> [t \in Thread |-> Nothing]],
             held |-> [x \in Mutex |-> [t \in Thread |-> 0]] ]

-----------------------------------------------------------------------------
(***************************************************************************)
(* What the functions have in common.                                      *)
(***************************************************************************)
\* The local variables of a call are gone when it returns.
Leave(l, t) == [l EXCEPT !.time[t] = 0, !.start[t] = 0, !.due[t] = 0]

Fail(t) == UNCHANGED <<k, ipc>> /\ loc' = Leave(loc, t) /\ Return(t)

\* The end of a call that may have something for a thread in list: it is resumed.
Wake(s, list) == IF s.waiting[list] # <<>> THEN rt_ipc_list_resume(s, list) ELSE s

\* MUTANT: a thread is resumed only for the first message in an empty box.
WakeOnEmpty(t, list) ==
  IF ipc.entry[Call(t).on] = 0 /\ k.waiting[list] # <<>>
  THEN k' = Wake(k, list) /\ Goto(t, "schedule")
  ELSE UNCHANGED k /\ Return(t)

WakeAndReturn(t, list) ==
  /\ k' = Wake(k, list)
  /\ IF k.waiting[list] # <<>> THEN Goto(t, "schedule") ELSE Return(t)

\* The caller waits in list, with time left; due is when the call has to end.
WaitIn(t, list, time) ==
  /\ k' = Block(k, list, t, time)
  /\ loc' = [loc EXCEPT !.time[t] = time,
                        !.start[t] = IF time > 0 THEN k.tick ELSE 0,
                        !.due[t] = IF pc[t] = "retry" \/ time < 0 THEN @ ELSE (k.tick + time) % TickMod]
  /\ UNCHANGED ipc
  /\ Goto(t, "wait")

\* rt_schedule after that; the caller goes on at "retry".
WaitSchedule(t) ==
  /\ At(t, "wait")
  /\ k' = rt_schedule(k)
  /\ Goto(t, "retry")
  /\ UNCHANGED ipcVars

\* The caller has been resumed with an error: by its timer, a reset or a detach.
WaitFails(t) ==
  /\ At(t, "retry")
  /\ Call(t).op \in {"mb_send", "mb_recv", "mq_send", "mq_recv", "mutex_take", "event_recv"}
  /\ k.error[t] # "ok"
  /\ Fail(t)

\* MUTANT: a call that has to wait again waits for its whole time.
TimeLeftWhole(t) == IF pc[t] = "user" THEN Call(t).arg ELSE loc.time[t]

\* MUTANT: time that has run out turns into a negative number, which is for ever.
TimeLeftNegative(t) ==
  IF pc[t] = "user" THEN Call(t).arg
  ELSE IF loc.time[t] <= 0 THEN loc.time[t]
  ELSE loc.time[t] - Since(k.tick, loc.start[t])

\* The time a call has left: what it was given, or what the wait has left of it.
TimeLeft(t) ==
  IF pc[t] = "user" THEN Call(t).arg
  ELSE IF loc.time[t] <= 0 THEN loc.time[t]
  ELSE LET delta == Since(k.tick, loc.start[t])
       IN IF delta < loc.time[t] THEN loc.time[t] - delta ELSE 0

\* A call of op is at the test of its loop.
Tries(t, op) ==
  \/ Calls(t, op)
  \/ At(t, "retry") /\ Call(t).op = op /\ k.error[t] = "ok"

\* A receiver that runs out of time in the loop sets the error of its thread.
NoTime(t, sets) ==
  /\ TimeLeft(t) = 0
  /\ k' = IF sets /\ pc[t] = "retry" THEN [k EXCEPT !.error[t] = "timeout"] ELSE k
  /\ loc' = Leave(loc, t)
  /\ UNCHANGED ipc
  /\ Return(t)

-----------------------------------------------------------------------------
(***************************************************************************)
(* Mailboxes: rt_mb_send_wait, rt_mb_recv, rt_mb_control.                  *)
(***************************************************************************)
\* MUTANT: the position runs past the end of the pool.
SuccPast(b, i) == i + 1

Succ(b, i) == IF i + 1 >= Size[b] THEN 0 ELSE i + 1

MailFull(b) == ipc.entry[b] = Size[b]

Post(b, mail) ==
  [ipc EXCEPT !.pool[b][ipc.in[b]] = mail, !.in[b] = Succ(b, @), !.entry[b] = @ + 1]

\* MUTANT: the position of the next mail to be received is not moved on.
FetchAgain(b) == [ipc EXCEPT !.entry[b] = @ - 1]

Fetch(b) == [ipc EXCEPT !.out[b] = Succ(b, @), !.entry[b] = @ - 1]

MbSend(t) ==
  LET b == Call(t).on IN
  /\ Tries(t, "mb_send")
  /\ \/ MailFull(b) /\ NoTime(t, FALSE)
     \/ MailFull(b) /\ TimeLeft(t) # 0 /\ WaitIn(t, Senders[b], TimeLeft(t))
     \/ /\ ~MailFull(b)
        /\ ipc' = Post(b, Call(t).val)
        /\ loc' = Leave(loc, t)
        /\ WakeAndReturn(t, b)

MbRecv(t) ==
  LET b == Call(t).on IN
  /\ Tries(t, "mb_recv")
  /\ \/ ipc.entry[b] = 0 /\ NoTime(t, TRUE)
     \/ ipc.entry[b] = 0 /\ TimeLeft(t) # 0 /\ WaitIn(t, b, TimeLeft(t))
     \/ /\ ipc.entry[b] > 0
        /\ ipc' = Fetch(b)
        /\ loc' = [Leave(loc, t) EXCEPT !.got[b][t] = ipc.pool[b][ipc.out[b]]]
        /\ WakeAndReturn(t, Senders[b])

ResumeBoth(b) == ResumeAll(ResumeAll(k, b), Senders[b])

MbReset(t) ==
  LET b == Call(t).on IN
  /\ Calls(t, "mb_reset")
  /\ k' = ResumeBoth(b)
  /\ ipc' = [ipc EXCEPT !.entry[b] = 0, !.in[b] = 0, !.out[b] = 0]
  /\ Goto(t, "schedule") /\ UNCHANGED loc

-----------------------------------------------------------------------------
(***************************************************************************)
(* Message queues: rt_mq_send_wait, rt_mq_urgent, rt_mq_recv,              *)
(* rt_mq_control.  A block of the pool is taken, filled and linked in      *)
(* three steps, and unlinked, read and freed in three.                     *)
(***************************************************************************)
TakeFree(t, q) ==
  /\ ipc' = [ipc EXCEPT !.free[q] = ipc.next[q][@]]
  /\ loc' = [Leave(loc, t) EXCEPT !.hand[t] = ipc.free[q]]
  /\ UNCHANGED k
  /\ Goto(t, "fill")

MqSend(t) ==
  LET q == Call(t).on IN
  /\ Tries(t, "mq_send")
  /\ \/ ipc.free[q] = Block0 /\ NoTime(t, FALSE)
     \/ ipc.free[q] = Block0 /\ TimeLeft(t) # 0 /\ WaitIn(t, Senders[q], TimeLeft(t))
     \/ ipc.free[q] # Block0 /\ TakeFree(t, q)

MqUrgent(t) ==
  LET q == Call(t).on IN
  /\ Calls(t, "mq_urgent")
  /\ IF ipc.free[q] = Block0 THEN Fail(t) ELSE TakeFree(t, q)

MqFill(t) ==
  LET q == Call(t).on  m == loc.hand[t] IN
  /\ At(t, "fill")
  /\ ipc' = [ipc EXCEPT !.text[q][m] = Call(t).val,
                        !.next[q][m] = IF Call(t).op = "mq_send" THEN Block0 ELSE @]
  /\ UNCHANGED <<k, loc>>
  /\ Goto(t, "link")

\* MUTANT: the block is linked behind the tail, but the tail is not moved.
LinkLastStill(q, m) ==
  LET tail == ipc.tail[q] IN
  [ipc EXCEPT !.next[q] = IF tail # Block0 THEN [@ EXCEPT ![tail] = m] ELSE @,
              !.tail[q] = IF tail = Block0 THEN m ELSE tail,
              !.head[q] = IF @ = Block0 THEN m ELSE @,
              !.entry[q] = @ + 1]

LinkLast(q, m) ==
  LET tail == ipc.tail[q] IN
  [ipc EXCEPT !.next[q] = IF tail # Block0 THEN [@ EXCEPT ![tail] = m] ELSE @,
              !.tail[q] = m,
              !.head[q] = IF @ = Block0 THEN m ELSE @,
              !.entry[q] = @ + 1]

LinkFirst(q, m) ==
  [ipc EXCEPT !.next[q][m] = ipc.head[q],
              !.head[q] = m,
              !.tail[q] = IF @ = Block0 THEN m ELSE @,
              !.entry[q] = @ + 1]

MqLink(t) ==
  LET q == Call(t).on  m == loc.hand[t] IN
  /\ At(t, "link")
  /\ ipc' = IF Call(t).op = "mq_send" THEN LinkLast(q, m) ELSE LinkFirst(q, m)
  /\ loc' = [loc EXCEPT !.hand[t] = Block0]
  /\ WakeAndReturn(t, q)

UnlinkFirst(q) ==
  LET m == ipc.head[q] IN
  [ipc EXCEPT !.head[q] = ipc.next[q][m],
              !.tail[q] = IF @ = m THEN Block0 ELSE @,
              !.entry[q] = @ - 1]

MqRecv(t) ==
  LET q == Call(t).on IN
  /\ Tries(t, "mq_recv")
  /\ \/ ipc.entry[q] = 0 /\ NoTime(t, TRUE)
     \/ ipc.entry[q] = 0 /\ TimeLeft(t) # 0 /\ WaitIn(t, q, TimeLeft(t))
     \/ /\ ipc.entry[q] > 0
        /\ ipc' = UnlinkFirst(q)
        /\ loc' = [Leave(loc, t) EXCEPT !.hand[t] = ipc.head[q]]
        /\ UNCHANGED k
        /\ Goto(t, "copy")

MqCopy(t) ==
  LET q == Call(t).on IN
  /\ At(t, "copy")
  /\ loc' = [loc EXCEPT !.got[q][t] = ipc.text[q][loc.hand[t]]]
  /\ UNCHANGED <<k, ipc>>
  /\ Goto(t, "free")

\* Block m becomes the first free one.
PutFree(i, q, m) == [i EXCEPT !.next[q][m] = i.free[q], !.free[q] = m]

MqFree(t) ==
  LET q == Call(t).on  m == loc.hand[t] IN
  /\ At(t, "free")
  /\ ipc' = PutFree(ipc, q, m)
  /\ loc' = [loc EXCEPT !.hand[t] = Block0]
  /\ WakeAndReturn(t, Senders[q])

\* The list that begins with first and goes on by next, of at most n blocks.
Follow(next, n, first) ==
  LET at[i \in 0 .. n] == IF i = 0 THEN first ELSE IF at[i - 1] = Block0 THEN Block0 ELSE next[at[i - 1]]
      length == CHOOSE i \in 0 .. n : (i = n \/ at[i] = Block0) /\ \A j \in 0 .. i - 1 : at[j] # Block0
  IN [i \in 1 .. length |-> at[i - 1]]

Chain(q, first) == Follow(ipc.next[q], Size[q], first)

\* The queue is emptied block by block, from the head, into the free list.
FreeAll(q) ==
  LET queued == Chain(q, ipc.head[q])
      n == Len(queued)
      after[j \in 0 .. n] == IF j = 0 THEN ipc ELSE PutFree(after[j - 1], q, queued[j])
  IN [after[n] EXCEPT !.head[q] = Block0, !.tail[q] = Block0, !.entry[q] = 0]

MqReset(t) ==
  LET q == Call(t).on IN
  /\ Calls(t, "mq_reset")
  /\ k' = ResumeBoth(q)
  /\ ipc' = FreeAll(q)
  /\ Goto(t, "schedule") /\ UNCHANGED loc

-----------------------------------------------------------------------------
(***************************************************************************)
(* Mutexes: rt_mutex_take and rt_mutex_release.  The value of a mutex is 1 *)
(* exactly when it has no owner.  held counts what the callers know.       *)
(***************************************************************************)
\* MUTANT: the owner keeps its priority when a higher one waits.
InheritNothing(s, t, owner) == s

\* The owner is given the priority of a caller that has to wait for it.
Inherit(s, t, owner) ==
  IF s.priority[t] < s.priority[owner] THEN ChangePriority(s, owner, s.priority[t]) ELSE s

GrantTo(i, x, t, priority) == [i EXCEPT !.owner[x] = t, !.original[x] = priority, !.hold[x] = @ + 1]

MutexTake(t) ==
  LET x == Call(t).on  owner == ipc.owner[Call(t).on]
      s == [k EXCEPT !.error[t] = "ok"]
  IN /\ Calls(t, "mutex_take")
     /\ \/ /\ owner = t /\ ipc.hold[x] < HoldMax
           /\ k' = s /\ ipc' = [ipc EXCEPT !.hold[x] = @ + 1]
           /\ loc' = [loc EXCEPT !.held[x][t] = @ + 1] /\ Return(t)
        \/ owner = t /\ ipc.hold[x] >= HoldMax /\ k' = s /\ Return(t) /\ UNCHANGED ipcVars
        \/ /\ owner = Nobody
           /\ k' = s /\ ipc' = GrantTo(ipc, x, t, k.priority[t])
           /\ loc' = [loc EXCEPT !.held[x][t] = 1] /\ Return(t)
        \/ /\ owner \notin {t, Nobody} /\ Call(t).arg = 0
           /\ k' = [k EXCEPT !.error[t] = "timeout"] /\ Return(t) /\ UNCHANGED ipcVars
        \/ /\ owner \notin {t, Nobody} /\ Call(t).arg # 0
           /\ k' = Block(Inherit(s, t, owner), x, t, Call(t).arg)
           /\ Goto(t, "wait") /\ UNCHANGED ipcVars

\* The release has made the caller the owner before it was resumed.
MutexTaken(t) ==
  /\ At(t, "retry") /\ Call(t).op = "mutex_take" /\ k.error[t] = "ok"
  /\ loc' = [loc EXCEPT !.held[Call(t).on][t] = @ + 1]
  /\ UNCHANGED <<k, ipc>>
  /\ Return(t)

\* MUTANT: the mutex is marked free although a waiting thread is resumed.
PassToNobody(i, x, t, priority) == [i EXCEPT !.owner[x] = Nobody, !.original[x] = PriorityMax]

\* The mutex goes from its owner to the first waiting thread.
PassTo(i, x, t, priority) == GrantTo(i, x, t, priority)

Restore(s, t, priority) == IF priority # s.priority[t] THEN ChangePriority(s, t, priority) ELSE s

MutexRelease(t) ==
  LET x == Call(t).on
      s == Restore(k, t, ipc.original[x])
      u == [ipc EXCEPT !.hold[x] = @ - 1]
  IN /\ Calls(t, "mutex_release")
     /\ \/ /\ ipc.owner[x] # t
           /\ k' = [k EXCEPT !.error[t] = "error"] /\ Return(t) /\ UNCHANGED ipcVars
        \/ /\ ipc.owner[x] = t
           /\ loc' = [loc EXCEPT !.held[x][t] = @ - 1]
           /\ \/ ipc.hold[x] > 1 /\ ipc' = u /\ UNCHANGED k /\ Return(t)
              \/ /\ ipc.hold[x] = 1 /\ s.waiting[x] # <<>>
                 /\ ipc' = PassTo(u, x, Head(s.waiting[x]), s.priority[Head(s.waiting[x])])
                 /\ k' = rt_ipc_list_resume(s, x)
                 /\ Goto(t, "schedule")
              \/ /\ ipc.hold[x] = 1 /\ s.waiting[x] = <<>>
                 /\ ipc' = [u EXCEPT !.owner[x] = Nobody, !.original[x] = PriorityMax]
                 /\ k' = s /\ Return(t)

-----------------------------------------------------------------------------
(***************************************************************************)
(* Events: rt_event_send, rt_event_recv, rt_event_control.  A set of       *)
(* events is a set; info holds "and" or "or", and perhaps "clear".         *)
(***************************************************************************)
Satisfied(info, wanted, set) ==
  IF "and" \in info THEN wanted \subseteq set ELSE wanted \cap set # {}

\* MUTANT: a thread that is resumed does not clear what it has received.
ClearNothing(info, received, set) == set

ClearedBy(info, received, set) == IF "clear" \in info THEN set \ received ELSE set

\* One round of the loop of rt_event_send, on waiting thread t.
Notify(st, t) ==
  LET info == st.loc.event_info[t]
      received == IF "and" \in info THEN st.loc.event_set[t] ELSE st.loc.event_set[t] \cap st.set
  IN IF ~Satisfied(info, st.loc.event_set[t], st.set) THEN st
     ELSE [ k   |-> rt_thread_resume(st.k, t),
            set |-> ClearedBy(info, received, st.set),
            loc |-> [st.loc EXCEPT !.event_set[t] = received] ]

\* MUTANT: the loop ends with the first thread.
NotifyFirst(v, sent) ==
  LET st == [k |-> k, set |-> ipc.set[v] \cup sent, loc |-> loc]
  IN IF k.waiting[v] = <<>> THEN st ELSE Notify(st, Head(k.waiting[v]))

NotifyAll(v, sent) ==
  LET n == Len(k.waiting[v])
      after[i \in 0 .. n] ==
        IF i = 0 THEN [k |-> k, set |-> ipc.set[v] \cup sent, loc |-> loc]
        ELSE Notify(after[i - 1], k.waiting[v][i])
  IN after[n]

EventSend(t) ==
  LET v == Call(t).on
      st == NotifyAll(v, Call(t).val)
  IN /\ Calls(t, "event_send")
     /\ IF Call(t).val = {} THEN Fail(t)
        ELSE /\ k' = st.k /\ loc' = st.loc /\ ipc' = [ipc EXCEPT !.set[v] = st.set]
             /\ IF st.k # k THEN Goto(t, "schedule") ELSE Return(t)

EventRecv(t) ==
  LET v == Call(t).on  wanted == Call(t).val  info == Call(t).info
      s == [k EXCEPT !.error[t] = "ok"]
      met == Satisfied(info, wanted, ipc.set[v])
  IN /\ Calls(t, "event_recv")
     /\ \/ wanted = {} /\ Fail(t)
        \/ /\ wanted # {} /\ met
           /\ loc' = [loc EXCEPT !.event_set[t] = wanted \cap ipc.set[v], !.event_info[t] = info]
           /\ ipc' = [ipc EXCEPT !.set[v] = ClearedBy(info, wanted, @)]
           /\ k' = s /\ Return(t)
        \/ /\ wanted # {} /\ ~met /\ Call(t).arg = 0
           /\ k' = [k EXCEPT !.error[t] = "timeout"] /\ Return(t) /\ UNCHANGED ipcVars
        \/ /\ wanted # {} /\ ~met /\ Call(t).arg # 0
           /\ loc' = [loc EXCEPT !.event_set[t] = wanted, !.event_info[t] = info]
           /\ k' = Block(s, v, t, Call(t).arg)
           /\ UNCHANGED ipc /\ Goto(t, "wait")

EventReceived(t) ==
  /\ At(t, "retry") /\ Call(t).op = "event_recv" /\ k.error[t] = "ok"
  /\ UNCHANGED <<k, ipc, loc>>
  /\ Return(t)

EventReset(t) ==
  LET v == Call(t).on IN
  /\ Calls(t, "event_reset")
  /\ k' = ResumeAll(k, v)
  /\ ipc' = [ipc EXCEPT !.set[v] = {}]
  /\ Goto(t, "schedule") /\ UNCHANGED loc

-----------------------------------------------------------------------------
IpcStep(t) ==
  \/ WaitSchedule(t) \/ WaitFails(t)
  \/ MbSend(t) \/ MbRecv(t) \/ MbReset(t)
  \/ MqSend(t) \/ MqUrgent(t) \/ MqFill(t) \/ MqLink(t)
  \/ MqRecv(t) \/ MqCopy(t) \/ MqFree(t) \/ MqReset(t)
  \/ MutexTake(t) \/ MutexTaken(t) \/ MutexRelease(t)
  \/ EventSend(t) \/ EventRecv(t) \/ EventReceived(t) \/ EventReset(t)

RunCall == isr = "none" /\ (IpcStep(k.cpu) \/ (ThreadStep(k.cpu) /\ UNCHANGED ipcVars))

IpcNext == RunCall \/ ((Tick \/ TimerExpires \/ TickReturns) /\ UNCHANGED ipcVars)

\* As in Kernel: the tick comes and returns, and between ticks threads run.
IpcSpec ==
  /\ IpcInit /\ [][IpcNext]_allVars
  /\ WF_isr(isr = "none" /\ isr' = "timers")
  /\ WF_isr(isr = "timers" /\ isr' = "none")
  /\ SF_allVars(RunCall)

-----------------------------------------------------------------------------
\* The objects and the local variables of the calls hold values of their types.
IpcTypeOK ==
  /\ \A b \in Mailbox : {ipc.in[b], ipc.out[b]} \subseteq 0 .. Size[b] - 1
  /\ \A b \in Box : ipc.entry[b] \in 0 .. Size[b]
  /\ \A q \in MessageQueue :
       /\ {ipc.head[q], ipc.tail[q], ipc.free[q]} \subseteq Blocks(q) \cup {Block0}
       /\ ipc.next[q] \in [Blocks(q) -> Blocks(q) \cup {Block0}]
  /\ ipc.owner \in [Mutex -> Thread \cup {Nobody}]
  /\ ipc.hold \in [Mutex -> 0 .. HoldMax] /\ ipc.original \in [Mutex -> 0 .. PriorityMax]
  /\ pc \in [Thread -> Label \cup {"wait", "retry", "fill", "link", "copy", "free"}]
  /\ loc.time \in [Thread -> Nat \cup {-1}] /\ loc.start \in [Thread -> 0 .. TickMod - 1]

(***************************************************************************)
(* Mailboxes and message queues.                                           *)
(***************************************************************************)
Contents(b) ==
  IF b \in Mailbox
  THEN [i \in 1 .. ipc.entry[b] |-> ipc.pool[b][(ipc.out[b] + i - 1) % Size[b]]]
  ELSE LET linked == Chain(b, ipc.head[b])
       IN [i \in DOMAIN linked |-> ipc.text[b][linked[i]]]

Sends == {"mb_send", "mq_send", "mq_urgent"}

\* What thread t sends to b in a call that has not put it in yet.
Offered(b) ==
  [t \in Thread |->
     IF calls[t] # <<>> /\ Call(t).op \in Sends /\ Call(t).on = b
        /\ pc[t] \in {"user", "wait", "retry", "fill", "link"}
     THEN Call(t).val ELSE Nothing]

\* What t has received from b, or has in its hand to copy.
Received(b) ==
  [t \in Thread |->
     IF pc[t] = "copy" /\ Call(t).on = b THEN ipc.text[b][loc.hand[t]] ELSE loc.got[b][t]]

Abstraction(b) == INSTANCE Channel WITH
  Size <- Size[b], queue <- Contents(b), got <- Received(b), offered <- Offered(b),
  urgent <- {t \in Thread : calls[t] # <<>> /\ Call(t).op = "mq_urgent"}

\* Every mailbox and message queue is a bounded queue: each message goes in once
\* and whole, and comes out once, to one thread, in order (ipc.c), although a
\* queue's blocks are filled and read with interrupts enabled.
ChannelsImplement ==
  /\ \A b \in Box : Abstraction(b)!Init
  /\ [][\A b \in Box : [Abstraction(b)!Next]_(Abstraction(b)!vars)]_allVars

WaitsFor(t) == IF Call(t).op \in {"mb_send", "mq_send"} THEN Senders[Call(t).on] ELSE Call(t).on

\* Threads that a message or a free place has been handed to, but have not run yet.
Woken(list) ==
  {t \in Thread : /\ pc[t] \in {"wait", "retry"} /\ WaitsFor(t) = list
                  /\ ~Contains(k.waiting[list], t) /\ k.error[t] = "ok"}

Room(b) == IF b \in Mailbox THEN Size[b] - ipc.entry[b] ELSE Len(Chain(b, ipc.free[b]))

\* While somebody waits to receive, no more messages lie there than threads have
\* been woken for, even if a third has taken the message of one of them; and the
\* same for senders and free places (ipc.c: the loops around the waits); threads are
\* resumed, detached and started up without interfering with each other.
NoLostWakeup ==
  /\ NobodyInterferes
  /\ \A b \in Box :
       /\ k.waiting[b] # <<>> => ipc.entry[b] <= Cardinality(Woken(b))
       /\ k.waiting[Senders[b]] # <<>> => Room(b) <= Cardinality(Woken(Senders[b]))

\* A call that is woken in vain and waits again still ends at the tick it was to
\* end at in the first place (ipc.c: tick_delta).
KeepsDeadline ==
  \A t \in Thread \cap k.activated :
    pc[t] \in {"wait", "retry"} /\ Call(t).on \in Box => k.timeout[t] = loc.due[t]

\* Every block of a message queue is in the queue, in the free list or in the hand
\* of one thread; the tail is the last block of the queue and entry their number.
BlocksPartitioned ==
  \A q \in MessageQueue :
    LET queued  == Chain(q, ipc.head[q])
        free    == Chain(q, ipc.free[q])
        holders == {t \in Thread : loc.hand[t] # Block0 /\ Call(t).on = q}
    IN /\ Range(queued) \cup Range(free) \cup {loc.hand[t] : t \in holders} = Blocks(q)
       /\ Len(queued) + Len(free) + Cardinality(holders) = Size[q]
       /\ ipc.entry[q] = Len(queued)
       /\ ipc.tail[q] = IF queued = <<>> THEN Block0 ELSE Last(queued)

(***************************************************************************)
(* Mutexes.                                                                *)
(***************************************************************************)
\* At most one thread knows that it holds a mutex, as often as the mutex counts; a
\* mutex whose owner does not know is on its way to a thread in rt_mutex_take; and
\* nobody waits for one without an owner, however waits end (ipc.c).
MutexIsExclusive ==
  \A x \in Mutex :
    /\ \A t \in Thread : loc.held[x][t] > 0 => ipc.owner[x] = t /\ ipc.hold[x] = loc.held[x][t]
    /\ ipc.owner[x] # Nobody /\ loc.held[x][ipc.owner[x]] = 0 =>
         LET t == ipc.owner[x]
         IN pc[t] \in {"wait", "retry"} /\ Call(t).op = "mutex_take" /\ Call(t).on = x
    /\ ipc.owner[x] = Nobody => k.waiting[x] = <<>>

\* Who owns a mutex that threads wait for by priority is at least as urgent as any of
\* them, also when ownership has just been handed on ("change the owner thread priority
\* of mutex", ipc.c), in programs that hold one mutex at a time.
OwnerInherits ==
  \A x \in Mutex \cap ByPriority :
    ipc.owner[x] # Nobody =>
      \A t \in Range(k.waiting[x]) : k.priority[ipc.owner[x]] <= k.priority[t]

\* A thread that holds no mutex has its own priority ("change the owner thread to
\* original priority", ipc.c:848), in programs that do not change priorities themselves.
PriorityRestored ==
  \A t \in Thread : (\A x \in Mutex : ipc.owner[x] # t) => k.priority[t] = InitPriority[t]

(***************************************************************************)
(* Events.                                                                 *)
(***************************************************************************)
InEventCall(t) == pc[t] \in {"wait", "retry"} /\ Call(t).op = "event_recv"

\* Nobody waits for events that are set, and a wait that succeeds reports what was
\* asked for: all of the events, or some (ipc.c rt_event_send).
EventsAnswered ==
  \A t \in Thread : InEventCall(t) =>
    LET c == Call(t) IN
    /\ Contains(k.waiting[c.on], t) =>
         /\ loc.event_set[t] = c.val
         /\ IF "and" \in c.info THEN ~(c.val \subseteq ipc.set[c.on])
            ELSE c.val \cap ipc.set[c.on] = {}
    /\ ~Contains(k.waiting[c.on], t) /\ k.error[t] = "ok" =>
         /\ loc.event_set[t] \subseteq c.val /\ loc.event_set[t] # {}
         /\ "and" \in c.info => loc.event_set[t] = c.val

\* Threads that one step gives the events they wait for, and that clear them.
Consumers(v) ==
  {t \in Thread : /\ Contains(k.waiting[v], t) /\ ~Contains(k'.waiting[v], t)
                  /\ k'.error[t] = "ok" /\ "clear" \in loc.event_info[t]}

\* An event that several threads wait for, to clear it, is given to one of them and
\* is gone then (ipc.c rt_event_send, RT_EVENT_FLAG_CLEAR).
EventsAreConsumed ==
  [][\A v \in Event : \A t \in Consumers(v) :
       /\ loc'.event_set[t] \cap ipc'.set[v] = {}
       /\ \A u \in Consumers(v) \ {t} : loc'.event_set[t] \cap loc'.event_set[u] = {}]_allVars

\* A call with a time limit that waits at one of these objects returns, also if it is
\* woken in vain and runs again only when its time is over.
LimitedWaitsEnd ==
  \A t \in Thread \ {Idle} : (t \in k.activated /\ pc[t] = "retry") ~> (pc[t] = "user")
=============================================================================
