----------------------------- MODULE PacketLog -----------------------------
(***************************************************************************)
(* What an ISI disk loop promises: a log of packets of which the newest    *)
(* Capacity can be read back, whole and in the order they were written.    *)
(* A packet is named by its sequence number.  A crash is not a step of     *)
(* this specification: whatever the writer was doing, either the packet    *)
(* has been appended or the log is what it was.                            *)
(***************************************************************************)
EXTENDS Naturals, Sequences

CONSTANTS Capacity,  \* packets that can be read back (isimkdl's "nrec"), at least one
          Packets    \* the packets a writer may be given

VARIABLE window      \* the readable packets, oldest first

Init == window = <<>>

Append1(p) ==
  window' = IF Len(window) < Capacity THEN Append(window, p)
                                      ELSE Append(Tail(window), p)

Next == \E p \in Packets : Append1(p)

Spec == Init /\ [][Next]_window
=============================================================================
