----------------------------- MODULE QdpReorder -----------------------------
(***************************************************************************)
(* The data packets of a Q330 (src/lib/qdp/reorder.c and the actions of    *)
(* action.c that go with it): the library puts those that arrive into a    *)
(* window by their 16 bit sequence numbers, gives the application those    *)
(* that are next, and tells the digitiser which it has with a bit map.     *)
(*                                                                         *)
(* A packet is known here by its place among all the digitiser makes; the  *)
(* program sees only what is left of that modulo Modulus.  The digitiser   *)
(* and the network, which are no part of the program, keep to SendWindow   *)
(* and deliver nothing that is half the sequence numbers away.             *)
(***************************************************************************)
EXTENDS Integers, FiniteSets, Sequences

CONSTANTS Modulus,     \* sequence numbers: 2^16
          Window,      \* slots, a divisor of Modulus: QDP_MAX_WINDOW_NBUF
          SendWindow,  \* how far the digitiser runs ahead of what is acknowledged
          AckCnt,      \* log.ack_cnt, packets that ask for an acknowledgement
          NBuf,        \* packet buffers
          First,       \* the number of the first packet
          MaxMade,     \* bound: the number of the last one
          MaxReg,      \* bound: registrations
          MaxDacks     \* bound: acknowledgements in flight

ASSUME ReorderAssumption ==
  /\ Modulus \in Nat /\ Window \in Nat \ {0} /\ SendWindow \in 1..Window
  /\ Modulus % Window = 0 /\ Modulus > 2 * Window
  /\ Modulus % 2 = 0
  /\ AckCnt \in Nat \ {0} /\ NBuf \in Nat /\ First \in Nat

VARIABLES
  made, owed,   \* the digitiser: packets made; those it has no acknowledgement for
  data, dacks,  \* the network: packets and acknowledgements in flight
  recv,         \* the handle's receive buffer
  state,        \* of the machine: registering, READY or OFF
  nreg,         \* registrations so far, for the bound
  pool,         \* the free packet buffers: those linked, and the semaphore's count
  from, given   \* the application: what it is given since the last registration

digitiser == <<made, owed>>
network == <<data, dacks>>
library == <<recv, state, pool>>
application == <<from, given>>
vars == <<digitiser, network, library, nreg, application>>

None == -1   \* no packet
Slot == 0..(Window - 1)

\* The packet to be given next; recv.last_packet is what the program has of it.
next == from + Len(given)

\* qdpInit.
Init ==
  /\ made = First /\ owed = {}
  /\ data = {} /\ dacks = {}
  /\ recv = [last_packet |-> 0, msg |-> [s \in Slot |-> None], count |-> 0,
             ack_seqno |-> 0, ack |-> {}]
  /\ state = "registering" /\ nreg = 0
  /\ pool = [linked |-> NBuf, posted |-> NBuf]
  /\ from = First /\ given = <<>>

-----------------------------------------------------------------------------
(* The digitiser and the network.                                             *)

\* The sign of a 16 bit difference.
Minus(a, b) == (a + Modulus - b) % Modulus
SEQ_GE(a, b) == Minus(a, b) < Modulus \div 2
SEQ_LE(a, b) == Minus(a, b) = 0 \/ Minus(a, b) >= Modulus \div 2

Base == IF owed = {} THEN made ELSE CHOOSE n \in owed : \A m \in owed : n <= m

Make ==
  /\ made < MaxMade /\ made < Base + SendWindow
  /\ made' = made + 1
  /\ owed' = owed \cup {made}
  /\ data' = data \cup {made}
  /\ UNCHANGED <<dacks, library, nreg, application>>

Resend(n) ==
  /\ n \in owed \ data
  /\ data' = data \cup {n}
  /\ UNCHANGED <<digitiser, dacks, library, nreg, application>>

\* An acknowledgement covers what comes before its number, and from there on
\* the packets its bits are set for.
Covers(dack, n) ==
  LET d == Minus(n % Modulus, dack.seqno) IN d \in dack.bits \/ d >= Modulus \div 2

\* dack.at is the place its number stands for: it does not come any more when
\* the digitiser has made a packet that is half the numbers from there.
Fresh(dack) == made - dack.at <= Modulus \div 2

RecvDack(dack) ==
  /\ dack \in dacks /\ Fresh(dack)
  /\ dacks' = dacks \ {dack}
  /\ owed' = {n \in owed : ~Covers(dack, n)}
  /\ UNCHANGED <<made, data, library, nreg, application>>

LoseData(n) ==
  /\ n \in data
  /\ data' = data \ {n}
  /\ UNCHANGED <<digitiser, dacks, library, nreg, application>>

LoseDack(dack) ==
  /\ dack \in dacks
  /\ dacks' = dacks \ {dack}
  /\ UNCHANGED <<digitiser, data, library, nreg, application>>

-----------------------------------------------------------------------------
(* The receive buffer.                                                        *)

LowerOpen(r, seqno) == ~SEQ_LE(seqno, r.last_packet + Window - 1)
Unsigned(r, seqno) ==
  ~(seqno >= r.last_packet /\ seqno <= (r.last_packet + Window - 1) % Modulus)
OutOfWindow(r, seqno) ==
  ~(SEQ_GE(seqno, r.last_packet) /\ SEQ_LE(seqno, (r.last_packet + Window - 1) % Modulus))

SetAckBit(r, seqno) == [r EXCEPT !.ack = @ \cup {(seqno + Modulus - r.ack_seqno) % Window}]

OneAhead(r) == [r EXCEPT !.ack_seqno = r.last_packet, !.ack = {0}]
ActionINITDACK(r) == [r EXCEPT !.ack_seqno = Minus(r.last_packet, 1), !.ack = {0}]

\* The i-th slot from the one whose packet is to be given next.
Ahead(r, i) == (r.last_packet + i) % Window

\* The packets of k slots can be given, and no more.
Contiguous(r, k) ==
  /\ \A i \in 0..(k - 1) : r.msg[Ahead(r, i)] # None
  /\ k = Window \/ r.msg[Ahead(r, k)] = None

KeepsSlots(r, k) == [r EXCEPT !.last_packet = (@ + k) % Modulus]
Release(r, k) ==
  [r EXCEPT !.last_packet = (@ + k) % Modulus,
            !.msg = [s \in Slot |->
                       IF \E i \in 0..(k - 1) : s = Ahead(r, i) THEN None ELSE r.msg[s]]]

\* ActionDACK, with what ActionDATA has made of the receive buffer.
Acknowledge(r) ==
  /\ recv' = [ActionINITDACK(r) EXCEPT !.count = 0]
  /\ dacks' = IF Cardinality(dacks) < MaxDacks
                THEN dacks \cup {[seqno |-> r.ack_seqno, bits |-> r.ack,
                                  at |-> next - Minus(next % Modulus, r.ack_seqno)]}
                ELSE dacks
ActionDACK(r) ==
  \/ Acknowledge(r)     \* the timer has expired, or there are enough
  \/ r.count < AckCnt /\ recv' = r /\ UNCHANGED dacks

SlotOf(n) == (n % Modulus) % Window

\* A packet that is out of the window or there already.
Drop(n) ==
  /\ OutOfWindow(recv, n % Modulus) \/ recv.msg[SlotOf(n)] = n
  /\ ActionDACK(recv)
  /\ UNCHANGED <<state, pool, application>>

\* "slot is already full": the machine is turned off.
Clash(n) ==
  /\ ~OutOfWindow(recv, n % Modulus) /\ recv.msg[SlotOf(n)] \notin {None, n}
  /\ state' = "OFF"
  /\ pool' = [linked |-> pool.linked - 1, posted |-> pool.posted - 1]
  /\ ActionDACK(recv)
  /\ UNCHANGED application

\* The packet is put into its slot, what has become contiguous is given to the
\* application and its buffers are returned.
Insert(n) ==
  /\ ~OutOfWindow(recv, n % Modulus) /\ recv.msg[SlotOf(n)] = None
  /\ LET r == [recv EXCEPT !.msg[SlotOf(n)] = n, !.count = @ + 1]
     IN  \E k \in 0..Window :
           /\ Contiguous(r, k)
           /\ given' = given \o [i \in 1..k |-> r.msg[Ahead(r, i - 1)]]
           /\ pool' = [linked |-> pool.linked - 1 + k, posted |-> pool.posted - 1 + k]
           /\ ActionDACK(SetAckBit(Release(r, k), n % Modulus))
  /\ UNCHANGED <<state, from>>

\* Nothing comes that is half the sequence numbers away or more.
Near(n) == n - next < Modulus \div 2 /\ next - n <= Modulus \div 2

\* ActionDATA and ActionDACK, for a packet or for one more copy of it.  It takes
\* a buffer; if the semaphore has let it look for one and there is none the
\* program aborts, which is the end.
Receive(n) ==
  /\ state = "READY" /\ n \in data /\ Near(n) /\ pool.linked > 0
  /\ data' \in {data, data \ {n}}
  /\ Drop(n) \/ Clash(n) \/ Insert(n)
  /\ UNCHANGED <<digitiser, nreg>>

\* The timer expires when nothing arrives.
AckTimer ==
  /\ state = "READY"
  /\ Acknowledge(recv)
  /\ UNCHANGED <<digitiser, data, state, pool, nreg, application>>

-----------------------------------------------------------------------------
(* Registration.                                                              *)

\* The digitiser does not know the library any more (NOTREG).  ActionFLUSH
\* returns the buffer of this message for each packet it finds in a slot:
\* the first time it is linked, but the semaphore is posted every time.
Buffered(r) == Cardinality({s \in Slot : r.msg[s] # None})

ActionFLUSH ==
  /\ state = "READY" /\ nreg < MaxReg /\ pool.linked > 0
  /\ state' = "registering"
  /\ recv' = [recv EXCEPT !.msg = [s \in Slot |-> None], !.count = 0,
                          !.ack = {b \in @ : b >= Window \div 4}]
  /\ pool' = [linked |-> pool.linked - (IF Buffered(recv) > 0 THEN 0 ELSE 1),
              posted |-> pool.posted - 1 + Buffered(recv)]
  /\ UNCHANGED <<digitiser, network, nreg, application>>

\* The last step of the handshake: data will begin with log.dataseq.  The
\* digitiser has what it has no acknowledgement for yet, or starts afresh; the
\* acknowledgements of the time before are lost.
ActionLD_C1_FLGS(dataseq) ==
  /\ state = "registering" /\ nreg < MaxReg
  /\ dataseq \in {Base, made}
  /\ recv' = ActionINITDACK([recv EXCEPT !.last_packet = dataseq % Modulus])
  /\ state' = "READY" /\ nreg' = nreg + 1
  /\ from' = dataseq /\ given' = <<>>
  /\ owed' = dataseq..(made - 1) /\ dacks' = {}
  /\ UNCHANGED <<made, data, pool>>

Number == First..(MaxMade - 1)

Next ==
  \/ Make \/ AckTimer \/ ActionFLUSH
  \/ \E n \in Number : Resend(n) \/ LoseData(n) \/ Receive(n)
  \/ \E dack \in dacks : RecvDack(dack) \/ LoseDack(dack)
  \/ \E dataseq \in First..MaxMade : ActionLD_C1_FLGS(dataseq)

Spec == Init /\ [][Next]_vars

\* The digitiser sends again what it has no acknowledgement for, the network
\* does not lose everything, the timer expires, a registration succeeds.
FairSpec ==
  /\ Spec
  /\ SF_vars(Resend(Base)) /\ SF_vars(Receive(Base))
  /\ SF_vars(\E dack \in dacks : RecvDack(dack))
  /\ WF_vars(AckTimer)
  /\ WF_vars(\E dataseq \in First..MaxMade : ActionLD_C1_FLGS(dataseq))

-----------------------------------------------------------------------------
(* Properties.                                                                *)

\* The application is given every packet once and in order, whatever the
\* network does: what the slots hold is released by number, not by arrival.
Channel == INSTANCE QdpChannel
InOrder == Channel!Spec

\* What the digitiser has an acknowledgement for, and so will not send again,
\* the library has: the bits are set relative to a number that is kept while
\* the window moves on, and wrap around at its width.
AckedIsHeld ==
  state = "READY" =>
    \A n \in (from..(made - 1)) \ owed : n < next \/ recv.msg[n % Window] = n

\* "FATAL ERROR: slot is already full": two packets never meet in a slot.
NeverClash == state # "OFF"

\* However often packets and acknowledgements are lost, the application is given
\* all that was made, again and again (the digitiser of the model pauses).
CatchesUp == []<>(next = made)

\* A message queue's semaphore counts its list; where it does not, msgqGet finds
\* "QUEUE MANAGMENT IS HOSED".
QueueAgrees == pool.posted = pool.linked
=============================================================================
