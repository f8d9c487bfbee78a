------------------------------- MODULE Channel -------------------------------
(***************************************************************************)
(* What a mailbox and a message queue promise: a bounded sequence of       *)
(* messages.  A message enters once, from a thread that offers it, at the  *)
(* end or, if it is urgent, at the front; the first one leaves, to one     *)
(* thread.  Who waits, and for how long, is not seen here.                 *)
(***************************************************************************)
EXTENDS Naturals, Sequences

CONSTANTS
  Thread,
  Size,      \* the greatest number of messages
  Nothing    \* no message

VARIABLES
  queue,     \* the messages inside
  got,       \* what each thread has received last
  offered,   \* what each thread is sending, else Nothing; not the channel's to change
  urgent     \* the threads whose message is urgent; likewise

vars == <<queue, got>>

Init == queue = <<>> /\ got = [t \in Thread |-> Nothing]

Put(t) ==
  /\ Len(queue) < Size /\ offered[t] # Nothing
  /\ queue' = IF t \in urgent THEN <<offered[t]>> \o queue ELSE Append(queue, offered[t])
  /\ UNCHANGED got

Get(t) ==
  /\ queue # <<>>
  /\ got' = [got EXCEPT ![t] = Head(queue)]
  /\ queue' = Tail(queue)

Clear == queue' = <<>> /\ UNCHANGED got

Next == Clear \/ \E t \in Thread : Put(t) \/ Get(t)

Spec == Init /\ [][Next]_vars
=============================================================================
