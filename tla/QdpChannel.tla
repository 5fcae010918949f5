----------------------------- MODULE QdpChannel -----------------------------
(***************************************************************************)
(* What a data connection with a digitiser promises the application: from  *)
(* the packet a registration starts with, it is given every packet the     *)
(* digitiser makes, once, in order.                                        *)
(***************************************************************************)
EXTENDS Integers, Sequences

VARIABLES
  made,   \* how many packets the digitiser has made; they are numbered from 0
  from,   \* the packet the present registration starts with
  given   \* what the application was given since

Init == made \in Nat /\ from = made /\ given = <<>>

Make == made' = made + 1 /\ UNCHANGED <<from, given>>

\* The next few packets.
Give ==
  \E k \in 1..(made - from - Len(given)) :
    /\ given' = given \o [i \in 1..k |-> from + Len(given) + i - 1]
    /\ UNCHANGED <<made, from>>

\* A new registration: what was made before may be given again or skipped.
Open ==
  /\ \E first \in 0..made : from' = first
  /\ given' = <<>>
  /\ UNCHANGED made

Next == Make \/ Give \/ Open

Spec == Init /\ [][Next]_<<made, from, given>>
=============================================================================
