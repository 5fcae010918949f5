-------------------------------- MODULE Iacp --------------------------------
(***************************************************************************)
(* One IACP connection (src/lib/iacp/send.c, recv.c): a frame is written   *)
(* to the socket in pieces, each with a timeout of its own, and read in    *)
(* the same pieces.  Only the tag of a preamble tells where a frame        *)
(* begins, so the rest of a frame that was cut short would be looked for   *)
(* in the next one.                                                        *)
(*                                                                         *)
(* A piece that was written in part is one that was not written: what      *)
(* reads it does not get past it either.  Signatures have no length        *)
(* (auth.c), which leaves their preamble.  This module has no state; a     *)
(* connection is a record.                                                 *)
(***************************************************************************)
EXTENDS Integers, Sequences

CONSTANT SockBuf   \* pieces the sockets of a connection hold

ASSUME SockBufAssumption == SockBuf \in Nat \ {0}

NOP == 0        \* IACP_TYPE_NOP, a heartbeat
Garbled == -1   \* pieces of more than one frame taken for a frame

\* A message without a payload has no piece for it.
Parts(frame) ==
  IF frame = NOP THEN <<"preamble", "signature">>
                 ELSE <<"preamble", "payload", "signature">>
Piece(frame, k) == [frame |-> frame, part |-> Parts(frame)[k]]

\* cut: what is written no longer gets through.  server: what became of the
\* peer's thread; one that "exited" has not closed its socket.
NoConn == [wire |-> <<>>, cut |-> FALSE, open |-> FALSE, server |-> "none", in |-> <<>>]
Opened == [NoConn EXCEPT !.open = TRUE, !.server = "recv"]

Full(c) == Len(c.wire) = SockBuf
Gone(c) == c.cut \/ c.server = "closed"

\* write_to.  After the connection is gone a write may still succeed.
CanWrite(c) == Gone(c) \/ ~Full(c)
Written(c, piece) == IF Gone(c) THEN c ELSE [c EXCEPT !.wire = Append(@, piece)]

\* It fails when that is noticed, or when there is no room until the timeout.
CanFail(c) == Gone(c) \/ Full(c)

\* iacpClose by the one that writes.
Closed(c) == [c EXCEPT !.open = FALSE]

\* read_to, for the next piece: what is in the socket is still read after the
\* peer has closed it.
CanRead(c) == c.server = "recv" /\ c.wire /= <<>>
CanEnd(c) == c.server = "recv" /\ c.wire = <<>> /\ (c.cut \/ ~c.open)

NoTag(c) == c.in = <<>> /\ Head(c.wire).part /= "preamble"

Take(c) == [c EXCEPT !.wire = Tail(@), !.in = Append(@, Head(c.wire))]
Complete(c) == c.in /= <<>> /\ Len(c.in) = Len(Parts(c.in[1].frame))
Frame(c) ==
  IF \A k \in 1..Len(c.in) : c.in[k] = Piece(c.in[1].frame, k) THEN c.in[1].frame
                                                               ELSE Garbled

\* The one that reads closes it.
Dropped(c) == [c EXCEPT !.server = "closed", !.wire = <<>>, !.in = <<>>]
=============================================================================
