------------------------------ MODULE MCKernel ------------------------------
EXTENDS Semaphores, TLC

CONSTANTS A, B, S, Q, X   \* two threads, two semaphores, a timer

C(op, on, arg) == [op |-> op, on |-> on, arg |-> arg]
Do(op) == C(op, Main, 0)
Program(m, a, b) == [t \in Thread |-> CASE t = Main -> m [] t = A -> a [] t = B -> b [] OTHER -> <<>>]

MCThread == {Main, Idle, A, B}
MCInitPriority == Main :> 1 @@ A :> 0 @@ B :> 1 @@ Idle :> 3
MCSlice == [t \in Thread |-> IF t = B THEN 2 ELSE 1]
MCSignals == [x \in UserTimer |-> S]

Start == <<C("startup", A, 0), C("startup", B, 0)>>

\* Tokens: waits that end by token, by timeout and at once, a full semaphore,
\* and a thread that polls beside one of its own priority.
Tokens == Program(
  Start \o <<C("release", S, 0), C("sleep", Main, 1), C("release", S, 0), C("release", S, 0),
             C("release", S, 0), C("release", S, 0), C("release", S, 0)>>,
  <<C("take", S, -1), C("take", S, 2), C("take", S, 0), C("sleep", A, 0)>>,
  <<C("poll", S, 0)>>)

\* Waiting by priority, a priority changed while its thread waits or runs.
Priorities == Program(
  Start \o <<C("take", Q, 1), C("set_priority", B, 2), Do("schedule"), C("set_priority", Main, 2), Do("schedule"),
             C("release", Q, 0), C("set_priority", Main, 1), Do("schedule"), C("release", Q, 0), C("reset", Q, 1)>>,
  <<C("take", Q, 2), C("sleep", A, 1), C("take", Q, 1)>>,
  <<C("take", Q, -1), Do("yield"), C("take", Q, -1)>>)

\* Threads that stop and resume each other, and a locked scheduler.
Pauses == Program(
  Start \o <<C("resume", A, 0), Do("schedule"), Do("enter_critical"), Do("enter_critical"),
             C("resume", A, 0), Do("schedule"), C("release", S, 0), Do("exit_critical"), Do("exit_critical"),
             C("suspend", B, 0), Do("schedule"), Do("yield"), C("resume", B, 0), Do("schedule"), Do("yield")>>,
  <<C("suspend", A, 0), Do("schedule"), C("suspend", A, 0), Do("schedule"), C("take", S, 2)>>,
  <<Do("yield"), Do("yield"), Do("yield")>>)

\* Threads and a semaphore that are detached.
Detached == Program(
  Start \o <<C("sleep", Main, 1), C("sem_detach", S, 0), Do("schedule"), C("detach", B, 0),
             C("detach", A, 0), C("detach", B, 0)>>,
  <<C("take", S, -1), C("take", Q, -1)>>,
  <<C("take", S, -1), Do("yield")>>)

\* A periodic timer that releases a semaphore for a thread that waits.
Timers == Program(
  Start \o <<C("set_time", X, 2), C("start_timer", X, 0), C("sleep", Main, 2), C("set_time", X, 1),
             Do("yield"), C("stop_timer", X, 0), C("stop_timer", X, 0)>>,
  <<C("take", S, -1), C("take", S, 1)>>,
  <<C("take", S, 2)>>)

MCPrograms == {Tokens, Priorities, Pauses, Detached, Timers}
DetachPrograms == {Program(Start \o <<C("detach", B, 0)>>, <<>>, <<C("sleep", B, 1)>>)}
ResumeAllPrograms == {Program(Start \o <<C("sem_detach", S, 0)>>, <<C("take", S, 1)>>, <<>>)}

\* They are programs as the theorems of KernelProofs and ListProofs are about.
ASSUME MCProgramsAreProper ==
  \A p \in MCPrograms, t \in Thread :
    /\ \A i \in DOMAIN p[t] : ProperCall(p[t][i])
    /\ Asks(t, p[t]) /\ p[Idle] = <<>>
=============================================================================
