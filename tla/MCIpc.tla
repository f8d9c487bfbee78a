-------------------------------- MODULE MCIpc --------------------------------
EXTENDS MemPool, TLC

CONSTANTS A, B, S, P, MB, MBs, MB2, MB2s, MQ, MQs, M, N, E, m1, m2, m3, m4, e1, e2

C(op, on, arg) == [op |-> op, on |-> on, arg |-> arg]
Send(op, on, msg, time) == C(op, on, time) @@ [val |-> msg]
Wants(set, info, time)  == C("event_recv", E, time) @@ [val |-> set, info |-> info]
Sets(set)   == C("event_send", E, 0) @@ [val |-> set]
Take_(x, time) == C("mutex_take", x, time)
Give(x)     == C("mutex_release", x, 0)
Pause(time) == C("sleep", Main, time)
Program(m, a, b) == [t \in Thread |-> CASE t = Main -> m [] t = A -> a [] t = B -> b [] OTHER -> <<>>]

MCThread == {Main, Idle, A, B}
MCInitPriority == Main :> 1 @@ A :> 0 @@ B :> 1 @@ Idle :> 3
MCSlice == [t \in Thread |-> 1]
MCSenders == MB :> MBs @@ MB2 :> MB2s @@ MQ :> MQs
MCSize == MB :> 1 @@ MB2 :> 2 @@ MQ :> 2
NoTimers == [x \in {} |-> S]

Start == <<C("startup", A, 0), C("startup", B, 0)>>

\* Senders and receivers on both sides of a mailbox of one mail.
Mail == Program(
  Start \o <<Send("mb_send", MB, m1, 0), Send("mb_send", MB, m2, 1), C("mb_recv", MB, 2)>>,
  <<C("mb_recv", MB, 2), Send("mb_send", MB, m3, -1)>>,
  <<C("mb_recv", MB, 2)>>)

\* A thread that is woken for a mail which another takes, and a sender likewise.
Vain == Program(
  Start \o <<Send("mb_send", MB, m1, 0), Send("mb_send", MB, m2, 0)>>,
  <<Pause(1), Send("mb_send", MB, m3, 0), C("mb_recv", MB, 0), Send("mb_send", MB, m4, 0)>>,
  <<C("mb_recv", MB, 2), Send("mb_send", MB, m2, 1)>>)

\* A mailbox of two mails, whose positions wrap around.
Wrap == Program(
  Start \o <<Send("mb_send", MB2, m1, 0), Send("mb_send", MB2, m2, 0), C("mb_recv", MB2, 0),
             Send("mb_send", MB2, m3, 0), C("mb_recv", MB2, 0)>>,
  <<Pause(1), C("mb_recv", MB2, -1)>>,
  <<>>)

\* A mailbox that is reset while threads wait at it, and detached.
Emptied == Program(
  Start \o <<Send("mb_send", MB, m1, 0), C("mb_reset", MB, 0), C("sem_detach", MB, 0), C("sem_detach", MBs, 0)>>,
  <<Send("mb_send", MB, m2, -1), Send("mb_send", MB, m3, -1)>>,
  <<C("mb_recv", MB, -1), C("mb_recv", MB, -1)>>)

\* A queue of two messages, one of them urgent.
Queue == Program(
  Start \o <<Send("mq_send", MQ, m1, 0), Send("mq_urgent", MQ, m2, 0), Send("mq_send", MQ, m3, 1)>>,
  <<Pause(1), C("mq_recv", MQ, 1), C("mq_recv", MQ, 0)>>,
  <<Send("mq_send", MQ, m4, -1)>>)

\* A queue that is emptied while blocks are filled and read.
Flushed == Program(
  Start \o <<Send("mq_urgent", MQ, m2, 0), C("mq_reset", MQ, 0), C("mq_recv", MQ, 0)>>,
  <<C("mq_recv", MQ, -1), Send("mq_urgent", MQ, m1, 0)>>,
  <<Send("mq_send", MQ, m4, 0), Send("mq_urgent", MQ, m3, 0), C("mq_recv", MQ, 0)>>)

\* A mutex that is taken twice, waited for with and without limit, and not awaited.
Locks == Program(
  <<Take_(M, -1), Take_(M, -1), Take_(M, -1)>> \o Start \o
  <<Give(M), Give(M), Give(M), Take_(M, 0), Pause(1), Give(M)>>,
  <<Take_(M, 1), Give(M), Take_(M, 0), Take_(M, -1), Pause(1), Give(M)>>,
  <<Take_(M, -1), Pause(0), Give(M)>>)

\* Threads that wait for all and for any of two events.
Events == Program(
  Start \o <<Sets({e1}), Sets({e2}), Sets({e1, e2}), Sets({}), Pause(1), C("event_reset", E, 0),
             Wants({e1}, {"or"}, 0), Sets({e2}), Wants({e2}, {"or", "clear"}, 0), Wants({}, {"or"}, 0)>>,
  <<Wants({e1, e2}, {"and", "clear"}, -1), Wants({e1}, {"or"}, 1), Wants({e1}, {"or", "clear"}, -1)>>,
  <<Wants({e1, e2}, {"or", "clear"}, 2), Wants({e2}, {"and", "clear"}, 1)>>)

\* A pool of two blocks: a thread that is woken for a block which another takes, waits of
\* limited time, and a pool that is detached while threads wait.
MCPoolSize == P :> <<26, 5>>
Alloc(time) == C("mp_alloc", P, time)
FreeBlock == C("mp_free", P, 0)
PoolUse == Program(
  <<Alloc(0), Alloc(0)>> \o Start \o
  <<Pause(1), Alloc(0), FreeBlock, FreeBlock, Alloc(1), C("mp_detach", P, 0)>>,
  <<Alloc(2), FreeBlock>>,
  <<Alloc(2), Alloc(-1)>>)

MCPrograms == {PoolUse, Mail, Vain, Wrap, Emptied, Queue, Flushed, Locks, Events}

\* Two mutexes released in the order they were taken.
CrossedPrograms == {Program(
  <<Take_(M, -1)>> \o Start \o <<Take_(N, -1), Give(M), Give(N)>>,
  <<Take_(M, -1), Give(M)>>,
  <<>>)}

\* They are programs as the theorems of IpcProofs are about.
ASSUME MCProgramsAreProper ==
  \A p \in MCPrograms, t \in Thread :
    /\ \A i \in DOMAIN p[t] : ProperCall(p[t][i]) /\ IpcCall(p[t][i])
    /\ p[Idle] = <<>>
=============================================================================
