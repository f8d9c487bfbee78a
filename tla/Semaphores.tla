----------------------------- MODULE Semaphores -----------------------------
(***************************************************************************)
(* The semaphores of module Kernel implement CountingSemaphore.            *)
(***************************************************************************)
EXTENDS Kernel

\* How the wait of thread t for semaphore o ended.
Ended(o, t) ==
  IF pc[t] \notin {"schedule", "return"} \/ Call(t).op # "take" \/ Call(t).on # o THEN "none"
  ELSE IF Contains(k.waiting[o], t) THEN "waiting"
  ELSE IF k.stat[t] = "close" \/ Detaching(t) THEN "gone"
  ELSE IF k.error[t] = "ok" THEN "granted"
  ELSE k.error[t]

Outcome(o) == [t \in Thread |-> Ended(o, t)]

Abstract(o) == INSTANCE CountingSemaphore WITH
  Ordered <- o \in ByPriority, value <- k.value[o], waiting <- k.waiting[o],
  outcome <- Outcome(o), priority <- k.priority

\* Every semaphore keeps what CountingSemaphore promises: a release gives its
\* token to the thread that waits first and never counts it as well, a wait that
\* ends in success has had a token, and each wait ends once (ipc.c).
SemaphoresImplement ==
  /\ \A o \in Semaphore : Abstract(o)!Init
  /\ [][\A o \in Semaphore : [Abstract(o)!Next]_(Abstract(o)!vars)]_vars
=============================================================================
