-------------------------------- MODULE Msgq --------------------------------
(***************************************************************************)
(* Message queues (src/lib/msgq/msgq.c): a list under a mutex, and a       *)
(* semaphore that counts it.  Putting a message is one step, for the post  *)
(* is made with the mutex in hand.  Getting one is two: a thread gets past *)
(* the semaphore first and to the list later, with other threads between.  *)
(***************************************************************************)
EXTENDS Naturals, Sequences

EmptyQueue == [sp |-> 0, list |-> <<>>]

\* msgqInit, for n messages m.
FilledQueue(n, m) == [sp |-> n, list |-> [i \in 1..n |-> m]]

\* SEM_TRYWAIT, or the end of SEM_WAIT.
Available(q) == q.sp > 0
LooksOnly(q) == q
Passed(q) == [q EXCEPT !.sp = @ - 1]

\* "QUEUE MANAGMENT IS HOSED!"
Hosed(q) == q.list = <<>>
Popped(q) == [q EXCEPT !.list = Tail(@)]

msgqPut(q, m) == [sp |-> q.sp + 1, list |-> Append(q.list, m)]
=============================================================================
