-------------------------- MODULE CountingSemaphore --------------------------
(***************************************************************************)
(* What a semaphore promises to the threads that use it, with nothing of   *)
(* how the kernel runs them: a count, the threads that wait in the order   *)
(* in which they will be served, and how each finished wait ended.         *)
(***************************************************************************)
EXTENDS Integers, Sequences

CONSTANTS
  Thread,
  ValueMax,   \* the greatest count
  Ordered     \* waiting threads are served by priority, else as they came

VARIABLES
  value,
  waiting,    \* a sequence of threads
  outcome,    \* how the wait of each thread ended, until the thread has seen it
  priority    \* of each thread; not the semaphore's to change

vars == <<value, waiting, outcome>>

Init == value = 0 /\ waiting = <<>> /\ outcome = [t \in Thread |-> "none"]

\* A token for a thread that does not have to wait: only when there is one.
Take == value > 0 /\ value' = value - 1 /\ UNCHANGED <<waiting, outcome>>

Waits(t) == \E i \in DOMAIN waiting : waiting[i] = t

\* Thread t, wherever it waits, is taken out of the list.
Leaves(t) ==
  \E i \in DOMAIN waiting :
    waiting[i] = t /\ waiting' = SubSeq(waiting, 1, i - 1) \o SubSeq(waiting, i + 1, Len(waiting))

\* A thread waits, when there is no token.
Wait(t) ==
  /\ value = 0 /\ outcome[t] = "none"
  /\ \E i \in 1 .. Len(waiting) + 1 :
       /\ waiting' = SubSeq(waiting, 1, i - 1) \o <<t>> \o SubSeq(waiting, i, Len(waiting))
       /\ \/ i = Len(waiting) + 1
          \/ Ordered /\ priority[t] < priority[waiting[i]]
       /\ Ordered => \A j \in 1 .. i - 1 : priority[waiting[j]] <= priority[t]
  /\ outcome' = [outcome EXCEPT ![t] = "waiting"]
  /\ UNCHANGED value

\* A token goes to the first waiting thread; it is counted only if nobody waits.
Release ==
  \/ /\ waiting # <<>>
     /\ waiting' = Tail(waiting)
     /\ outcome' = [outcome EXCEPT ![Head(waiting)] = "granted"]
     /\ UNCHANGED value
  \/ /\ waiting = <<>> /\ value < ValueMax
     /\ value' = value + 1
     /\ UNCHANGED <<waiting, outcome>>

\* A thread has waited long enough.
Timeout(t) ==
  /\ Leaves(t)
  /\ outcome' = [outcome EXCEPT ![t] = "timeout"]
  /\ UNCHANGED value

\* The thread learns how its wait ended.
Return(t) ==
  /\ outcome[t] \in {"granted", "timeout", "error"}
  /\ outcome' = [outcome EXCEPT ![t] = "none"]
  /\ UNCHANGED <<value, waiting>>

\* All waiting threads are sent away and the count starts anew.
Reset ==
  /\ \E v \in 0 .. ValueMax : value' = v
  /\ waiting' = <<>>
  /\ outcome' = [t \in Thread |-> IF Waits(t) THEN "error" ELSE outcome[t]]

\* The semaphore is about to go: its first waiting thread is sent away.
Dismiss ==
  /\ waiting # <<>>
  /\ waiting' = Tail(waiting)
  /\ outcome' = [outcome EXCEPT ![Head(waiting)] = "error"]
  /\ UNCHANGED value

\* The thread ceases to exist, waiting or about to return.
Cease(t) ==
  /\ outcome[t] # "none"
  /\ IF Waits(t) THEN Leaves(t) ELSE UNCHANGED waiting
  /\ outcome' = [outcome EXCEPT ![t] = "gone"]
  /\ UNCHANGED value

Next ==
  \/ Take \/ Release \/ Reset \/ Dismiss
  \/ \E t \in Thread : Wait(t) \/ Timeout(t) \/ Return(t) \/ Cease(t)

Spec == Init /\ [][Next]_vars

-----------------------------------------------------------------------------
\* Nobody waits while there is a token.
TokenOrQueue == value \in Nat /\ (waiting # <<>> => value = 0)
=============================================================================
