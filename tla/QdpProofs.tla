------------------------------ MODULE QdpProofs ------------------------------
(***************************************************************************)
(* Proofs about the QDP library.  The reorder buffer: packets are given to *)
(* the application once and in order, two of them never meet in a slot,    *)
(* and what is acknowledged is held, for every modulus and window: the     *)
(* sign of a difference of sequence numbers is that of the difference of   *)
(* the packets' places as long as nothing is half the numbers away.        *)
(*                                                                         *)
(* The connection machine, whatever threads it has: nobody closes a socket *)
(* or frees the handle while a thread may use it.                          *)
(***************************************************************************)
EXTENDS QdpReorder, QdpMachine, ModArithmetic, WellFoundedInduction, FiniteSetTheorems, TLAPS

Half == Modulus \div 2

-----------------------------------------------------------------------------
(* Sequence numbers.                                                          *)

LEMMA Bounds ==
  /\ Modulus \in Nat \ {0} /\ Window \in Nat \ {0} /\ 2 * Window <= Modulus
  /\ Half \in Nat /\ Modulus = 2 * Half /\ Window <= Half
BY ReorderAssumption DEF Half

\* The slot of a packet is that of its sequence number.
LEMMA ModDivides ==
  ASSUME NEW n \in Nat
  PROVE  (n % Modulus) % Window = n % Window
<1> DEFINE q == n \div Modulus
           r == n % Modulus
           c == Modulus \div Window
           p == r \div Window
           s == r % Window
<1>1. q \in Nat /\ r \in 0..(Modulus - 1) /\ n = Modulus * q + r  BY Bounds, DivMod
<1>2. c \in Nat /\ Modulus = Window * c
  <2>1. c \in Nat /\ Modulus = Window * c + (Modulus % Window)  BY Bounds, DivMod
  <2>2. Modulus % Window = 0  BY ReorderAssumption
  <2> HIDE DEF c
  <2> QED  BY <2>1, <2>2, Bounds
<1>3. p \in Nat /\ s \in 0..(Window - 1) /\ r = Window * p + s
  <2>1. r \in Nat  BY <1>1, Bounds
  <2> HIDE DEF r, q, c
  <2> QED  BY <2>1, Bounds, DivMod
<1> HIDE DEF q, r, c, p, s
<1>4. n = (Window * c) * q + (Window * p + s)  BY <1>1, <1>2, <1>3
<1>5. (Window * c) * q = Window * (c * q)  BY <1>1, <1>2, Bounds
<1>6. Window * (c * q) + Window * p = Window * (c * q + p)  BY <1>1, <1>2, <1>3, Bounds
<1>7. c * q + p \in Nat  BY <1>1, <1>2, <1>3
<1> DEFINE w == c * q + p
<1>8. n = Window * w + s
  <2>1. Window * (c * q) \in Int /\ Window * p \in Int /\ Window * (c * q + p) \in Int
        BY <1>1, <1>2, <1>3, <1>7, Bounds
  <2> QED  BY <1>3, <1>4, <1>5, <1>6, <2>1
<1>9. n % Window = s
  <2>1. w \in Nat  BY <1>7
  <2> HIDE DEF w
  <2> QED  BY <1>3, <1>8, <2>1, Bounds, ModUnique
<1> QED  BY <1>9 DEF s, r

\* A sequence number a distance ahead.
LEMMA MinusAhead ==
  ASSUME NEW x \in Nat, NEW d \in 0..(Modulus - 1)
  PROVE  Minus((x + d) % Modulus, x % Modulus) = d
<1>1. (((x + d) % Modulus) - (x % Modulus) + Modulus) % Modulus = d  BY Bounds, ModDistance
<1>2. x % Modulus \in Nat /\ (x + d) % Modulus \in Nat  BY Bounds, ModRange
<1>3. ((x + d) % Modulus) - (x % Modulus) + Modulus
        = ((x + d) % Modulus) + Modulus - (x % Modulus)
      BY <1>2, Bounds
<1> QED  BY <1>1, <1>3 DEF Minus

\* Once round.
LEMMA ModPeriod ==
  ASSUME NEW n \in Nat
  PROVE  (n + Modulus) % Modulus = n % Modulus
<1>1. n % Modulus \in 0..(Modulus - 1)  BY Bounds, ModRange
<1>2. (n + Modulus) % Modulus
        = IF (n % Modulus) + Modulus < Modulus THEN (n % Modulus) + Modulus
                                               ELSE (n % Modulus) + Modulus - Modulus
  <2>1. Modulus \in 0..Modulus  BY Bounds
  <2> QED  BY <2>1, Bounds, ModAdd
<1> DEFINE v == n % Modulus
<1> HIDE DEF v
<1>3. v \in Nat /\ (n + Modulus) % Modulus
                     = IF v + Modulus < Modulus THEN v + Modulus ELSE v + Modulus - Modulus
      BY <1>1, <1>2, Bounds DEF v
<1>4. (n + Modulus) % Modulus = v  BY <1>3, Bounds
<1> QED  BY <1>4 DEF v

\* And a distance behind.
LEMMA MinusBehind ==
  ASSUME NEW n \in Nat, NEW d \in 1..Modulus
  PROVE  Minus(n % Modulus, (n + d) % Modulus) = Modulus - d
<1> DEFINE x == n + d
           e == Modulus - d
<1>1. x \in Nat /\ e \in 0..(Modulus - 1) /\ x + e = n + Modulus  BY Bounds
<1>2. Minus((x + e) % Modulus, x % Modulus) = e  BY <1>1, MinusAhead
<1>3. (n + Modulus) % Modulus = n % Modulus  BY ModPeriod
<1> QED  BY <1>1, <1>2, <1>3

\* The window test finds what is in the window, as long as nothing is half the
\* sequence numbers away.
LEMMA InWindow ==
  ASSUME NEW n \in Nat, NEW x \in Nat, NEW r, r.last_packet = x % Modulus,
         n - x < Half, x - n <= Half, ~OutOfWindow(r, n % Modulus)
  PROVE  n \in x..(x + Window - 1)
<1> DEFINE y == x + Window - 1
<1>1. Minus(n % Modulus, x % Modulus) < Half  BY DEF OutOfWindow, SEQ_GE, Half
<1>2. (r.last_packet + Window - 1) % Modulus = y % Modulus
  <2>1. ((x % Modulus) + (Window - 1)) % Modulus = (x + (Window - 1)) % Modulus
    <3>1. Window - 1 \in 0..Modulus  BY Bounds
    <3> QED  BY <3>1, Bounds, ModMod
  <2>2. x % Modulus \in Nat  BY Bounds, ModRange
  <2>3. (x % Modulus) + (Window - 1) = r.last_packet + Window - 1  BY <2>2, Bounds
  <2>4. x + (Window - 1) = y  BY Bounds
  <2> HIDE DEF y
  <2> QED  BY <2>1, <2>3, <2>4
<1>3. \/ Minus(n % Modulus, y % Modulus) = 0 \/ Minus(n % Modulus, y % Modulus) >= Half
      BY <1>2 DEF OutOfWindow, SEQ_LE, Half
<1>4. n >= x
  <2> SUFFICES ASSUME n < x PROVE FALSE  OBVIOUS
  <2>1. (x - n) \in 1..Modulus /\ n + (x - n) = x  BY Bounds
  <2>2. Minus(n % Modulus, x % Modulus) = Modulus - (x - n)  BY <2>1, MinusBehind
  <2> QED  BY <1>1, <2>2, Bounds
<1>5. n <= y
  <2> SUFFICES ASSUME n > y PROVE FALSE  BY Bounds
  <2>1. y \in Nat /\ (n - y) \in 0..(Modulus - 1) /\ y + (n - y) = n  BY Bounds
  <2>2. Minus(n % Modulus, y % Modulus) = n - y  BY <2>1, MinusAhead
  <2> HIDE DEF y
  <2>3. n - y < Half /\ n - y > 0  BY Bounds DEF y
  <2> QED  BY <1>3, <2>2, <2>3, <2>1, Bounds
<1> QED  BY <1>4, <1>5, Bounds

-----------------------------------------------------------------------------
(* The inductive invariant: what is in a slot is in the window and belongs    *)
(* there, and recv.last_packet is what is left of the next packet's place.    *)

Recv == [last_packet : Nat, msg : [Slot -> Nat \cup {None}], count : Nat,
         ack_seqno : 0..(Modulus - 1), ack : SUBSET Nat]

TypeOK ==
  /\ made \in Nat
  /\ owed \subseteq Nat /\ \A n \in owed : n < made
  /\ data \subseteq Nat /\ \A n \in data : n < made
  /\ recv \in Recv
  /\ state \in {"registering", "READY"}
  /\ from \in Nat /\ given \in Seq(Nat) /\ next <= made

\* The packets r holds, when x is to be given next.
Holds(r, x) ==
  \A s \in Slot : r.msg[s] # None =>
    /\ r.msg[s] \in x..(x + Window - 1) /\ r.msg[s] < made
    /\ r.msg[s] % Window = s

WindowInv ==
  /\ state = "READY" => recv.last_packet = next % Modulus /\ Holds(recv, next)
  /\ state = "registering" => \A s \in Slot : recv.msg[s] = None

ReorderInv == TypeOK /\ WindowInv

LEMMA NextIsNat == TypeOK => next \in Nat
BY DEF TypeOK, next

\* An acknowledgement leaves the window alone.
LEMMA AckKeeps ==
  ASSUME NEW r \in Recv, ActionDACK(r) \/ Acknowledge(r)
  PROVE  recv' \in Recv /\ recv'.last_packet = r.last_packet /\ recv'.msg = r.msg
<1>1. CASE recv' = r  BY <1>1
<1>2. CASE Acknowledge(r)
  <2> DEFINE a == Minus(r.last_packet, 1)
  <2>1. a \in 0..(Modulus - 1)
    <3>1. r.last_packet + Modulus - 1 \in Nat  BY Bounds DEF Recv
    <3> QED  BY <3>1, Bounds, ModRange DEF Minus
  <2>2. recv' = [[r EXCEPT !.ack_seqno = a, !.ack = {0}] EXCEPT !.count = 0]
        BY <1>2 DEF Acknowledge, ActionINITDACK
  <2> HIDE DEF a
  <2>3. {0} \subseteq Nat  OBVIOUS
  <2>4. [r EXCEPT !.ack_seqno = a, !.ack = {0}] \in Recv
        BY <2>1, <2>3 DEF Recv
  <2>5. recv' \in Recv  BY <2>2, <2>4 DEF Recv
  <2>6. recv'.last_packet = r.last_packet  BY <2>2 DEF Recv
  <2>7. recv'.msg = r.msg  BY <2>2 DEF Recv
  <2> QED  BY <2>5, <2>6, <2>7
<1> QED  BY <1>1, <1>2 DEF ActionDACK

LEMMA SameWindow ==
  ASSUME ReorderInv, recv' \in Recv, recv'.last_packet = recv.last_packet,
         recv'.msg = recv.msg, made' \in Nat, made' >= made,
         owed' \subseteq Nat, \A n \in owed' : n < made',
         data' \subseteq Nat, \A n \in data' : n < made',
         UNCHANGED <<state, from, given>>
  PROVE  ReorderInv'
<1>1. next' = next /\ next \in Nat  BY NextIsNat DEF next, ReorderInv
<1>2. TypeOK'  BY <1>1 DEF ReorderInv, TypeOK
<1>3. Holds(recv, next) => Holds(recv, next)'  BY <1>1 DEF Holds, Recv, ReorderInv, TypeOK
<1> QED  BY <1>1, <1>2, <1>3 DEF ReorderInv, WindowInv

-----------------------------------------------------------------------------
(* A packet goes into its slot.                                               *)

\* The slots from that of the next packet on.
LEMMA AheadSlot ==
  ASSUME NEW x \in Nat, NEW r, r.last_packet = x % Modulus, NEW i \in 0..Window
  PROVE  Ahead(r, i) = (x + i) % Window
<1>1. x % Modulus \in Nat  BY Bounds, ModRange
<1>2. (x % Modulus) % Window = x % Window  BY ModDivides
<1>3. (((x % Modulus) % Window) + i) % Window = ((x % Modulus) + i) % Window
      BY <1>1, Bounds, ModMod
<1>4. ((x % Window) + i) % Window = (x + i) % Window  BY Bounds, ModMod
<1> QED  BY <1>2, <1>3, <1>4 DEF Ahead

\* Two packets of a window in one slot are the same.
LEMMA OneInSlot ==
  ASSUME NEW x \in Nat, NEW m \in x..(x + Window - 1), NEW n \in x..(x + Window - 1),
         m % Window = n % Window
  PROVE  m = n
<1>1. m \in Nat /\ n \in Nat /\ m < n + Window /\ n < m + Window  BY Bounds
<1>2. m < n => n % Window # m % Window  BY <1>1, Bounds, ModInj
<1>3. n < m => m % Window # n % Window  BY <1>1, Bounds, ModInj
<1> QED  BY <1>1, <1>2, <1>3

\* What the first k slots hold are the next k packets.
LEMMA Contents ==
  ASSUME NEW x \in Nat, NEW r \in Recv, r.last_packet = x % Modulus, Holds(r, x),
         NEW k \in 0..Window, Contiguous(r, k), NEW i \in 0..(k - 1)
  PROVE  r.msg[Ahead(r, i)] = x + i /\ x + i < made
<1>1. i \in 0..Window /\ i < Window /\ x + i \in x..(x + Window - 1)  BY Bounds
<1>2. Ahead(r, i) = (x + i) % Window  BY <1>1, AheadSlot
<1>3. Ahead(r, i) \in Slot
  <2>1. x + i \in Nat  BY <1>1
  <2> QED  BY <1>2, <2>1, Bounds, ModRange DEF Slot
<1>4. r.msg[Ahead(r, i)] # None  BY DEF Contiguous
<1>5. /\ r.msg[Ahead(r, i)] \in x..(x + Window - 1) /\ r.msg[Ahead(r, i)] < made
      /\ r.msg[Ahead(r, i)] % Window = (x + i) % Window
      BY <1>2, <1>3, <1>4 DEF Holds
<1> QED  BY <1>1, <1>5, OneInSlot

\* When they are released, what is left is in the window k further on.
LEMMA Left ==
  ASSUME NEW x \in Nat, NEW r \in Recv, r.last_packet = x % Modulus, Holds(r, x),
         NEW k \in 0..Window, Contiguous(r, k)
  PROVE  /\ Release(r, k) \in Recv
         /\ Release(r, k).last_packet = (x + k) % Modulus
         /\ Holds(Release(r, k), x + k)
<1> DEFINE q == Release(r, k)
<1>1. /\ q.last_packet = (r.last_packet + k) % Modulus
      /\ q.msg = [s \in Slot |->
                   IF \E i \in 0..(k - 1) : s = Ahead(r, i) THEN None ELSE r.msg[s]]
      /\ q.count = r.count /\ q.ack_seqno = r.ack_seqno /\ q.ack = r.ack
      BY DEF Release, Recv
<1>2. q.last_packet = (x + k) % Modulus
  <2>1. k \in 0..Modulus  BY Bounds
  <2>2. ((x % Modulus) + k) % Modulus = (x + k) % Modulus  BY <2>1, Bounds, ModMod
  <2> HIDE DEF q
  <2> QED  BY <1>1, <2>2
<1>3. q \in Recv
  <2>1. (x + k) % Modulus \in Nat  BY Bounds, ModRange
  <2>2. q.msg \in [Slot -> Nat \cup {None}]  BY <1>1 DEF Recv
  <2>3. q = [r EXCEPT !.last_packet = q.last_packet, !.msg = q.msg]
        BY <1>1 DEF Release, Recv
  <2> HIDE DEF q
  <2> QED  BY <1>2, <2>1, <2>2, <2>3 DEF Recv
<1>4. Holds(q, x + k)
  <2> SUFFICES ASSUME NEW s \in Slot, q.msg[s] # None
               PROVE  /\ q.msg[s] \in (x + k)..(x + k + Window - 1) /\ q.msg[s] < made
                      /\ q.msg[s] % Window = s
      BY DEF Holds
  <2>1. q.msg[s] = r.msg[s] /\ \A i \in 0..(k - 1) : s # Ahead(r, i)  BY <1>1
  <2>2. r.msg[s] \in x..(x + Window - 1) /\ r.msg[s] < made /\ r.msg[s] % Window = s
        BY <2>1 DEF Holds
  <2>3. r.msg[s] >= x + k
    <3> SUFFICES ASSUME r.msg[s] < x + k PROVE FALSE  BY <2>2
    <3> DEFINE i == r.msg[s] - x
    <3>1. i \in 0..(k - 1) /\ i \in 0..Window /\ x + i = r.msg[s]  BY <2>2, Bounds
    <3>2. Ahead(r, i) = s  BY <2>2, <3>1, AheadSlot
    <3> QED  BY <2>1, <3>1, <3>2
  <2> QED  BY <2>1, <2>2, <2>3, Bounds
<1> QED  BY <1>2, <1>3, <1>4

-----------------------------------------------------------------------------
(* Every step keeps the invariant.                                            *)

\* What an incoming packet that is in the window may meet in its slot.
LEMMA InSlot ==
  ASSUME ReorderInv, state = "READY", NEW n \in data, Near(n),
         ~OutOfWindow(recv, n % Modulus)
  PROVE  /\ n \in next..(next + Window - 1) /\ n < made
         /\ SlotOf(n) = n % Window /\ SlotOf(n) \in Slot
         /\ recv.msg[SlotOf(n)] \in {None, n}
<1>1. n \in Nat /\ n < made /\ next \in Nat  BY NextIsNat DEF ReorderInv, TypeOK
<1>2. n \in next..(next + Window - 1)
  <2>1. n - next < Half /\ next - n <= Half  BY DEF Near, Half
  <2>2. recv.last_packet = next % Modulus  BY DEF ReorderInv, WindowInv
  <2> QED  BY <1>1, <2>1, <2>2, InWindow
<1>3. SlotOf(n) = n % Window  BY <1>1, ModDivides DEF SlotOf
<1>4. SlotOf(n) \in Slot  BY <1>1, <1>3, Bounds, ModRange DEF Slot
<1>5. recv.msg[SlotOf(n)] # None => recv.msg[SlotOf(n)] = n
  <2> SUFFICES ASSUME recv.msg[SlotOf(n)] # None PROVE recv.msg[SlotOf(n)] = n
      OBVIOUS
  <2>1. Holds(recv, next)  BY DEF ReorderInv, WindowInv
  <2>2. /\ recv.msg[SlotOf(n)] \in next..(next + Window - 1)
        /\ recv.msg[SlotOf(n)] % Window = n % Window
        BY <1>3, <1>4, <2>1 DEF Holds
  <2> QED  BY <1>1, <1>2, <2>2, OneInSlot
<1> QED  BY <1>1, <1>2, <1>3, <1>4, <1>5

\* What putting a packet into its slot makes of the receive buffer, before the
\* k packets that are next are given.
InsertedInto(r, n) ==
  /\ r \in Recv /\ r.last_packet = next % Modulus /\ Holds(r, next)
  /\ r.msg = [recv.msg EXCEPT ![n % Window] = n]
  /\ r.ack_seqno = recv.ack_seqno /\ r.ack = recv.ack

LEMMA InsertParts ==
  ASSUME ReorderInv, state = "READY", NEW n \in data, Near(n), Insert(n)
  PROVE  /\ n \in next..(next + Window - 1) /\ n < made /\ n \in Nat
         /\ recv.msg[n % Window] = None
         /\ \E k \in 0..Window, r \in Recv :
              /\ InsertedInto(r, n)
              /\ Contiguous(r, k)
              /\ given' = given \o [i \in 1..k |-> r.msg[Ahead(r, i - 1)]]
              /\ ActionDACK(SetAckBit(Release(r, k), n % Modulus))
<1> DEFINE r == [recv EXCEPT !.msg[SlotOf(n)] = n, !.count = @ + 1]
<1>1. PICK k \in 0..Window :
        /\ Contiguous(r, k)
        /\ given' = given \o [i \in 1..k |-> r.msg[Ahead(r, i - 1)]]
        /\ ActionDACK(SetAckBit(Release(r, k), n % Modulus))
      BY DEF Insert
<1>2. /\ n \in next..(next + Window - 1) /\ n < made
      /\ SlotOf(n) = n % Window /\ SlotOf(n) \in Slot
      BY InSlot DEF Insert
<1>3. next \in Nat /\ n \in Nat /\ recv \in Recv
      BY <1>2, NextIsNat DEF ReorderInv, TypeOK
<1>4. recv.msg[n % Window] = None  BY <1>2 DEF Insert
<1>5. [recv.msg EXCEPT ![SlotOf(n)] = n] \in [Slot -> Nat \cup {None}]
      BY <1>2, <1>3 DEF Recv
<1>6. /\ r.last_packet = recv.last_packet /\ r.msg = [recv.msg EXCEPT ![SlotOf(n)] = n]
      /\ r.ack_seqno = recv.ack_seqno /\ r.ack = recv.ack
      BY <1>3 DEF Recv
<1>7. r \in Recv
  <2>1. recv.count + 1 \in Nat  BY <1>3 DEF Recv
  <2>2. r = [recv EXCEPT !.msg = [recv.msg EXCEPT ![SlotOf(n)] = n],
                         !.count = recv.count + 1]
        BY <1>3 DEF Recv
  <2> HIDE DEF r
  <2> QED  BY <1>3, <1>5, <2>1, <2>2 DEF Recv
<1>8. r.last_packet = next % Modulus /\ Holds(recv, next)
      BY <1>6 DEF ReorderInv, WindowInv
<1> HIDE DEF r
<1>9. Holds(r, next)
  <2> SUFFICES ASSUME NEW s \in Slot, r.msg[s] # None
               PROVE  /\ r.msg[s] \in next..(next + Window - 1) /\ r.msg[s] < made
                      /\ r.msg[s] % Window = s
      BY DEF Holds
  <2>1. CASE s = SlotOf(n)
    <3>1. r.msg[s] = n  BY <1>3, <1>6, <2>1 DEF Recv
    <3> QED  BY <1>2, <2>1, <3>1
  <2>2. CASE s # SlotOf(n)
    <3>1. r.msg[s] = recv.msg[s]  BY <1>3, <1>6, <2>2 DEF Recv
    <3> QED  BY <1>8, <3>1 DEF Holds
  <2> QED  BY <2>1, <2>2
<1>10. InsertedInto(r, n)  BY <1>2, <1>6, <1>7, <1>8, <1>9 DEF InsertedInto
<1> QED  BY <1>1, <1>2, <1>3, <1>4, <1>7, <1>10

\* Setting a bit is all SetAckBit does.
LEMMA BitSet ==
  ASSUME NEW q \in Recv, NEW n \in Nat,
         NEW b, b = ((n % Modulus) + Modulus - q.ack_seqno) % Window
  PROVE  /\ b \in 0..(Window - 1)
         /\ SetAckBit(q, n % Modulus) \in Recv
         /\ SetAckBit(q, n % Modulus).last_packet = q.last_packet
         /\ SetAckBit(q, n % Modulus).msg = q.msg
         /\ SetAckBit(q, n % Modulus).ack_seqno = q.ack_seqno
         /\ SetAckBit(q, n % Modulus).ack = q.ack \cup {b}
<1> DEFINE p == SetAckBit(q, n % Modulus)
<1>1. b \in 0..(Window - 1) /\ b \in Nat
  <2>1. n % Modulus \in Nat  BY Bounds, ModRange
  <2>2. (n % Modulus) + Modulus - q.ack_seqno \in Nat  BY <2>1, Bounds DEF Recv
  <2>3. b \in 0..(Window - 1)  BY <2>2, Bounds, ModRange
  <2> QED  BY <2>3, Bounds
<1>2. p = [q EXCEPT !.ack = @ \cup {b}]  BY DEF SetAckBit
<1> HIDE DEF p
<1>3. q.ack \cup {b} \in SUBSET Nat  BY <1>1 DEF Recv
<1>4. p \in Recv  BY <1>2, <1>3 DEF Recv
<1>5. p.last_packet = q.last_packet  BY <1>2 DEF Recv
<1>6. p.msg = q.msg  BY <1>2 DEF Recv
<1>7. p.ack_seqno = q.ack_seqno  BY <1>2 DEF Recv
<1>8. p.ack = q.ack \cup {b}  BY <1>2 DEF Recv
<1> QED  BY <1>1, <1>4, <1>5, <1>6, <1>7, <1>8 DEF p

\* Giving some packets moves on what is next by their number.
LEMMA Given ==
  ASSUME TypeOK, NEW more \in Seq(Nat), given' = given \o more, UNCHANGED from
  PROVE  given' \in Seq(Nat) /\ next' = next + Len(more)
BY DEF TypeOK, next

\* What is given are the k packets that are next.
LEMMA Gives ==
  ASSUME ReorderInv, state = "READY", NEW n,
         NEW r \in Recv, InsertedInto(r, n), NEW k \in 0..Window, Contiguous(r, k)
  PROVE  /\ next + k <= made
         /\ [i \in 1..k |-> r.msg[Ahead(r, i - 1)]] = [i \in 1..k |-> next + i - 1]
         /\ [i \in 1..k |-> next + i - 1] \in Seq(Nat)
         /\ Len([i \in 1..k |-> next + i - 1]) = k
<1> DEFINE x == next
<1>1. x \in Nat /\ r.last_packet = x % Modulus /\ Holds(r, x)
      BY NextIsNat DEF ReorderInv, InsertedInto
<1>2. \A i \in 0..(k - 1) : r.msg[Ahead(r, i)] = x + i /\ x + i < made
      BY <1>1, Contents
<1>3. x + k <= made
  <2>1. made \in Nat /\ x <= made  BY DEF ReorderInv, TypeOK
  <2>2. CASE k = 0  BY <1>1, <2>1, <2>2
  <2>3. CASE k > 0
    <3>1. k - 1 \in 0..(k - 1)  BY <2>3, Bounds
    <3>2. x + (k - 1) < made  BY <1>2, <3>1
    <3> QED  BY <1>1, <2>1, <3>2, Bounds
  <2> QED  BY <2>2, <2>3, Bounds
<1>4. \A i \in 1..k : r.msg[Ahead(r, i - 1)] = x + i - 1
  <2> TAKE i \in 1..k
  <2>1. i - 1 \in 0..(k - 1)  BY Bounds
  <2>2. r.msg[Ahead(r, i - 1)] = x + (i - 1)  BY <1>2, <2>1
  <2> QED  BY <1>1, <2>2
<1>5. \A i \in 1..k : x + i - 1 \in Nat  BY <1>1
<1>6. k \in Nat  BY Bounds
<1> QED  BY <1>3, <1>4, <1>5, <1>6

\* A packet is put into its slot and those that are next are given.
LEMMA Inserted ==
  ASSUME ReorderInv, state = "READY", NEW n \in data, Near(n), Insert(n),
         UNCHANGED <<made, owed>>, data' \subseteq data
  PROVE  /\ ReorderInv'
         /\ \E k \in 0..Window :
              /\ next + k <= made
              /\ given' = given \o [i \in 1..k |-> next + i - 1]
<1>1. PICK k \in 0..Window, r \in Recv :
        /\ InsertedInto(r, n)
        /\ Contiguous(r, k)
        /\ given' = given \o [i \in 1..k |-> r.msg[Ahead(r, i - 1)]]
        /\ ActionDACK(SetAckBit(Release(r, k), n % Modulus))
      BY InsertParts
<1>2. n \in Nat /\ next \in Nat  BY InsertParts, NextIsNat DEF ReorderInv
<1>3. /\ next + k <= made /\ next' = next + k
      /\ given' \in Seq(Nat)
      /\ given' = given \o [i \in 1..k |-> next + i - 1]
  <2>1. /\ next + k <= made
        /\ [i \in 1..k |-> r.msg[Ahead(r, i - 1)]] = [i \in 1..k |-> next + i - 1]
        /\ [i \in 1..k |-> next + i - 1] \in Seq(Nat)
        /\ Len([i \in 1..k |-> next + i - 1]) = k
        BY <1>1, Gives
  <2>2. given' = given \o [i \in 1..k |-> next + i - 1]  BY <1>1, <2>1
  <2>3. UNCHANGED from  BY DEF Insert
  <2> DEFINE more == [i \in 1..k |-> next + i - 1]
  <2> HIDE DEF more
  <2>4. given' \in Seq(Nat) /\ next' = next + Len(more)
        BY <2>1, <2>2, <2>3, Given DEF ReorderInv, more
  <2> QED  BY <2>1, <2>2, <2>4 DEF more
<1> DEFINE q == Release(r, k)
           p == SetAckBit(q, n % Modulus)
<1>4. q \in Recv /\ q.last_packet = (next + k) % Modulus /\ Holds(q, next + k)
      BY <1>1, <1>2, Left DEF InsertedInto
<1> HIDE DEF q
<1>5. p \in Recv /\ p.last_packet = q.last_packet /\ p.msg = q.msg
      BY <1>2, <1>4, BitSet
<1>6. ActionDACK(p)  BY <1>1 DEF q
<1> HIDE DEF p
<1>7. recv' \in Recv /\ recv'.last_packet = q.last_packet /\ recv'.msg = q.msg
      BY <1>5, <1>6, AckKeeps
<1>8. made' = made /\ owed' = owed /\ state' = state /\ from' = from  BY DEF Insert
<1>9. TypeOK'  BY <1>3, <1>7, <1>8 DEF ReorderInv, TypeOK
<1>10. Holds(recv, next)'  BY <1>3, <1>4, <1>7, <1>8 DEF Holds
<1>11. WindowInv'  BY <1>3, <1>4, <1>7, <1>8, <1>10 DEF WindowInv
<1> QED  BY <1>3, <1>9, <1>11 DEF ReorderInv

LEMMA InvInit == Init => ReorderInv
<1> SUFFICES ASSUME Init PROVE ReorderInv  OBVIOUS
<1>1. recv.last_packet = 0 /\ recv.msg = [s \in Slot |-> None]  BY DEF Init
<1>2. recv \in Recv
  <2>1. 0 \in 0..(Modulus - 1) /\ 0 \in Nat  BY Bounds
  <2>2. [s \in Slot |-> None] \in [Slot -> Nat \cup {None}]  OBVIOUS
  <2> QED  BY <2>1, <2>2 DEF Init, Recv
<1>3. next = First /\ First \in Nat  BY ReorderAssumption DEF Init, next
<1>4. TypeOK  BY <1>2, <1>3 DEF Init, TypeOK
<1>5. WindowInv  BY <1>1 DEF Init, WindowInv
<1> QED  BY <1>4, <1>5 DEF ReorderInv

\* A message, a copy or nothing arrives.
LEMMA InvReceive ==
  ASSUME ReorderInv, NEW n \in Number, Receive(n)
  PROVE  /\ ReorderInv'
         /\ \/ UNCHANGED <<made, from, given>>
            \/ \E k \in 0..Window :
                 /\ next + k <= made
                 /\ given' = given \o [i \in 1..k |-> next + i - 1]
                 /\ UNCHANGED <<made, from>>
<1>1. /\ state = "READY" /\ n \in data /\ Near(n)
      /\ data' \subseteq data /\ UNCHANGED <<made, owed>>
      BY DEF Receive, digitiser
<1>2. CASE Drop(n)
  <2>1. recv \in Recv  BY DEF ReorderInv, TypeOK
  <2>2. ActionDACK(recv)  BY <1>2 DEF Drop
  <2>3. recv' \in Recv /\ recv'.last_packet = recv.last_packet /\ recv'.msg = recv.msg
        BY <2>1, <2>2, AckKeeps
  <2>4. UNCHANGED <<state, from, given>>  BY <1>2 DEF Drop, application
  <2>5. /\ made' \in Nat /\ made' >= made /\ owed' \subseteq Nat
        /\ \A m \in owed' : m < made'
        /\ data' \subseteq Nat /\ \A m \in data' : m < made'
        BY <1>1 DEF ReorderInv, TypeOK
  <2>6. ReorderInv'  BY <2>3, <2>4, <2>5, SameWindow
  <2> QED  BY <1>1, <2>4, <2>6
<1>3. CASE Clash(n)
  <2>1. recv.msg[SlotOf(n)] \in {None, n}  BY <1>1, <1>3, InSlot DEF Clash
  <2> QED  BY <1>3, <2>1 DEF Clash
<1>4. CASE Insert(n)
  <2>1. /\ ReorderInv'
        /\ \E k \in 0..Window :
             /\ next + k <= made
             /\ given' = given \o [i \in 1..k |-> next + i - 1]
        BY <1>1, <1>4, Inserted
  <2>2. UNCHANGED from  BY <1>4 DEF Insert
  <2> QED  BY <1>1, <2>1, <2>2
<1> QED  BY <1>2, <1>3, <1>4 DEF Receive

\* What the digitiser has no acknowledgement for has a first packet.
LEMMA BaseLeast ==
  ASSUME owed \subseteq Nat, owed # {}
  PROVE  Base \in owed /\ \A m \in owed : Base <= m
<1>1. \E n \in owed : \A m \in owed : n <= m
  <2> DEFINE R == OpToRel(<, Nat)
  <2>1. IsWellFoundedOn(R, Nat)  BY NatLessThanWellFounded
  <2>2. \A m, n \in Nat : m < n => <<m, n>> \in R  BY DEF OpToRel
  <2> HIDE DEF R
  <2>3. \E n \in owed : \A m \in owed : ~(<<m, n>> \in R)  BY <2>1, WFMin
  <2>4. \E n \in owed : \A m \in owed : ~(m < n)  BY <2>2, <2>3
  <2> QED  BY <2>4
<1>2. Base = CHOOSE n \in owed : \A m \in owed : n <= m  BY DEF Base
<1> QED  BY <1>1, <1>2

\* A registration begins with a packet the digitiser has made, or the next.
LEMMA BaseMade == ReorderInv => Base \in 0..made
<1> SUFFICES ASSUME ReorderInv PROVE Base \in 0..made  OBVIOUS
<1>1. made \in Nat /\ owed \subseteq Nat /\ \A n \in owed : n < made
      BY DEF ReorderInv, TypeOK
<1>2. CASE owed = {}  BY <1>1, <1>2 DEF Base
<1>3. CASE owed # {}
  <2>1. Base \in owed  BY <1>1, <1>3, BaseLeast
  <2> QED  BY <1>1, <2>1
<1> QED  BY <1>2, <1>3

\* What each step does to what the application sees.
Seen ==
  \/ UNCHANGED <<made, from, given>>
  \/ made' = made + 1 /\ UNCHANGED <<from, given>>
  \/ \E k \in 0..Window :
       /\ next + k <= made
       /\ given' = given \o [i \in 1..k |-> next + i - 1]
       /\ UNCHANGED <<made, from>>
  \/ from' \in 0..made /\ given' = <<>> /\ UNCHANGED made

\* Every step keeps the invariant, and is one of these.
LEMMA InvNext == ReorderInv /\ [Next]_vars => ReorderInv' /\ Seen
<1> SUFFICES ASSUME ReorderInv, [Next]_vars PROVE ReorderInv' /\ Seen  OBVIOUS
<1> USE DEF digitiser, network, library, application
<1>1. /\ made \in Nat /\ owed \subseteq Nat /\ \A n \in owed : n < made
      /\ data \subseteq Nat /\ \A n \in data : n < made
      /\ recv \in Recv /\ from \in Nat /\ given \in Seq(Nat) /\ next <= made
      /\ state \in {"registering", "READY"}
      BY DEF ReorderInv, TypeOK
<1>2. CASE Make
  <2>1. /\ made' = made + 1 /\ owed' = owed \cup {made} /\ data' = data \cup {made}
        /\ UNCHANGED <<recv, state, from, given>>
        BY <1>2 DEF Make
  <2>2. /\ made' \in Nat /\ made' >= made /\ owed' \subseteq Nat
        /\ \A n \in owed' : n < made'
        /\ data' \subseteq Nat /\ \A n \in data' : n < made'
        BY <1>1, <2>1
  <2>3. recv' \in Recv /\ recv'.last_packet = recv.last_packet /\ recv'.msg = recv.msg
        BY <1>1, <2>1
  <2>4. UNCHANGED <<state, from, given>>  BY <2>1
  <2>5. ReorderInv'  BY <2>2, <2>3, <2>4, SameWindow
  <2> QED  BY <2>1, <2>5 DEF Seen
<1>3. ASSUME UNCHANGED <<made, from, given, state>>, owed' \subseteq owed,
             data' \subseteq data \cup owed,
             recv' \in Recv, recv'.last_packet = recv.last_packet, recv'.msg = recv.msg
      PROVE  ReorderInv' /\ Seen
  <2>1. /\ made' \in Nat /\ made' >= made /\ owed' \subseteq Nat
        /\ \A n \in owed' : n < made'
        /\ data' \subseteq Nat /\ \A n \in data' : n < made'
        BY <1>1, <1>3
  <2>2. ReorderInv'  BY <1>3, <2>1, SameWindow
  <2> QED  BY <1>3, <2>2 DEF Seen
<1>4. ASSUME NEW n \in Number, Resend(n) PROVE ReorderInv' /\ Seen
  BY <1>1, <1>3, <1>4 DEF Resend
<1>5. ASSUME NEW dack \in dacks, RecvDack(dack) PROVE ReorderInv' /\ Seen
  BY <1>1, <1>3, <1>5 DEF RecvDack
<1>6. ASSUME NEW n \in Number, LoseData(n) PROVE ReorderInv' /\ Seen
  BY <1>1, <1>3, <1>6 DEF LoseData
<1>7. ASSUME NEW dack \in dacks, LoseDack(dack) PROVE ReorderInv' /\ Seen
  BY <1>1, <1>3, <1>7 DEF LoseDack
<1>8. CASE AckTimer
  <2>1. recv' \in Recv /\ recv'.last_packet = recv.last_packet /\ recv'.msg = recv.msg
        BY <1>1, <1>8, AckKeeps DEF AckTimer
  <2> QED  BY <1>3, <1>8, <2>1 DEF AckTimer
<1>9. ASSUME NEW n \in Number, Receive(n) PROVE ReorderInv' /\ Seen
  BY <1>9, InvReceive DEF Seen
<1>10. CASE ActionFLUSH
  <2>1. /\ recv' = [recv EXCEPT !.msg = [s \in Slot |-> None], !.count = 0,
                                !.ack = {b \in @ : b >= Window \div 4}]
        /\ state' = "registering" /\ UNCHANGED <<made, owed, data, from, given>>
        BY <1>10 DEF ActionFLUSH
  <2> DEFINE a == {b \in recv.ack : b >= Window \div 4}
             m == [s \in Slot |-> None]
  <2>2. a \in SUBSET Nat /\ m \in [Slot -> Nat \cup {None}]  BY <1>1 DEF Recv
  <2>3. recv' = [recv EXCEPT !.msg = m, !.count = 0, !.ack = a]  BY <2>1
  <2> HIDE DEF a, m
  <2>4. recv' \in Recv  BY <1>1, <2>2, <2>3 DEF Recv
  <2>5. recv'.msg = m  BY <1>1, <2>3 DEF Recv
  <2>6. next' = next  BY <2>1 DEF next
  <2>7. TypeOK'  BY <1>1, <2>1, <2>4, <2>6 DEF TypeOK
  <2>8. WindowInv'  BY <2>1, <2>5 DEF WindowInv, m
  <2> QED  BY <2>1, <2>7, <2>8 DEF ReorderInv, Seen
<1>11. ASSUME NEW dataseq \in First..MaxMade, ActionLD_C1_FLGS(dataseq)
       PROVE  ReorderInv' /\ Seen
  <2>1. /\ state = "registering" /\ state' = "READY" /\ from' = dataseq /\ given' = <<>>
        /\ owed' = dataseq..(made - 1) /\ UNCHANGED <<made, data>>
        /\ recv' = ActionINITDACK([recv EXCEPT !.last_packet = dataseq % Modulus])
        BY <1>11 DEF ActionLD_C1_FLGS
  <2>2. dataseq \in 0..made /\ dataseq \in Nat
        BY <1>1, <1>11, BaseMade DEF ActionLD_C1_FLGS
  <2> DEFINE l == dataseq % Modulus
             r == [recv EXCEPT !.last_packet = l]
             a == Minus(r.last_packet, 1)
  <2>3. l \in 0..(Modulus - 1) /\ l \in Nat  BY <2>2, Bounds, ModRange
  <2>4. r \in Recv /\ r.last_packet = l /\ r.msg = recv.msg
    <3> HIDE DEF l
    <3> QED  BY <1>1, <2>3 DEF Recv
  <2>5. a \in 0..(Modulus - 1)
    <3> HIDE DEF l, r
    <3>1. r.last_packet + Modulus - 1 \in Nat  BY <2>4, Bounds DEF Recv
    <3> QED  BY <3>1, Bounds, ModRange DEF Minus
  <2>6. recv' = [r EXCEPT !.ack_seqno = a, !.ack = {0}]  BY <2>1 DEF ActionINITDACK
  <2> HIDE DEF l, r, a
  <2>7. recv' \in Recv
    <3>1. {0} \subseteq Nat  OBVIOUS
    <3> QED  BY <2>4, <2>5, <2>6, <3>1 DEF Recv
  <2>8. recv'.last_packet = l /\ recv'.msg = recv.msg  BY <2>4, <2>6 DEF Recv
  <2>9. next' = dataseq /\ given' \in Seq(Nat)  BY <2>1, <2>2 DEF next
  <2>10. \A s \in Slot : recv'.msg[s] = None
         BY <2>1, <2>8 DEF ReorderInv, WindowInv
  <2>11. owed' \subseteq Nat /\ \A n \in owed' : n < made  BY <1>1, <2>1, <2>2
  <2>12. TypeOK'  BY <1>1, <2>1, <2>2, <2>7, <2>9, <2>11 DEF TypeOK
  <2>13. WindowInv'  BY <2>1, <2>8, <2>9, <2>10 DEF WindowInv, Holds, l
  <2> QED  BY <2>1, <2>2, <2>12, <2>13 DEF ReorderInv, Seen
<1>12. CASE UNCHANGED vars
  BY <1>1, <1>3, <1>12 DEF vars
<1> QED
  BY <1>2, <1>4, <1>5, <1>6, <1>7, <1>8, <1>9, <1>10, <1>11, <1>12 DEF Next

-----------------------------------------------------------------------------
(* The results.                                                               *)

\* What is in a slot is in the window and belongs there, at every moment.
THEOREM SlotsInWindow == Spec => []ReorderInv
BY InvInit, InvNext, PTL DEF Spec

\* Two packets never meet in a slot: the machine is not turned off for it.
THEOREM SlotsNeverClash == Spec => []NeverClash
<1>1. ReorderInv => NeverClash  BY DEF ReorderInv, TypeOK, NeverClash
<1> QED  BY <1>1, SlotsInWindow, PTL

\* A step of the reorder buffer is a step of the channel, or none.
LEMMA ChannelStep ==
  ReorderInv /\ Seen => [Channel!Next]_<<made, from, given>>
<1> SUFFICES ASSUME ReorderInv, Seen PROVE [Channel!Next]_<<made, from, given>>
    OBVIOUS
<1>1. /\ made \in Nat /\ from \in Nat /\ given \in Seq(Nat) /\ Len(given) \in Nat
      /\ next = from + Len(given)
      BY DEF ReorderInv, TypeOK, next
<1>2. CASE \E k \in 0..Window :
             /\ next + k <= made
             /\ given' = given \o [i \in 1..k |-> next + i - 1]
             /\ UNCHANGED <<made, from>>
  <2>1. PICK k \in 0..Window :
          /\ next + k <= made
          /\ given' = given \o [i \in 1..k |-> next + i - 1]
          /\ UNCHANGED <<made, from>>
        BY <1>2
  <2>2. CASE k = 0
    <3>1. [i \in 1..0 |-> next + i - 1] = <<>>  OBVIOUS
    <3>2. given' = given \o <<>>  BY <2>1, <2>2, <3>1
    <3>3. given' = given  BY <1>1, <3>2
    <3> QED  BY <2>1, <3>3
  <2>3. CASE k # 0
    <3>1. k \in 1..(made - from - Len(given))  BY <1>1, <2>1, <2>3, Bounds
    <3>2. [i \in 1..k |-> next + i - 1] = [i \in 1..k |-> from + Len(given) + i - 1]
          BY <1>1
    <3>3. given' = given \o [i \in 1..k |-> from + Len(given) + i - 1]
          BY <2>1, <3>2
    <3> QED  BY <2>1, <3>1, <3>3 DEF Channel!Next, Channel!Give
  <2> QED  BY <2>2, <2>3
<1>3. CASE from' \in 0..made /\ given' = <<>> /\ UNCHANGED made
  BY <1>3 DEF Channel!Next, Channel!Open
<1>4. CASE made' = made + 1 /\ UNCHANGED <<from, given>>
  BY <1>4 DEF Channel!Next, Channel!Make
<1> QED  BY <1>2, <1>3, <1>4 DEF Seen

\* The reorder buffer, over a network that loses, repeats and reorders, is a
\* channel that gives the application every packet once and in order.
THEOREM IsChannel == Spec => InOrder
<1>1. Init => Channel!Init
  BY ReorderAssumption DEF Init, Channel!Init
<1>2. ReorderInv /\ [Next]_vars => [Channel!Next]_<<made, from, given>>
  BY InvNext, ChannelStep
<1> QED  BY <1>1, <1>2, SlotsInWindow, PTL DEF Spec, InOrder, Channel!Spec

-----------------------------------------------------------------------------
(* What is acknowledged is held.                                              *)

\* When x is to be given next, the application or r has packet n.
HeldBy(r, x, n) == n < x \/ r.msg[n % Window] = n

\* An acknowledgement in flight has a bit only for what is held, and none for
\* packet a, which was to be given next when the numbering of the bits began.
Sound(r, x, dack, a) ==
  /\ dack.at \in Int /\ dack.at + 1 \in 0..a
  /\ dack.seqno = Minus((dack.at + 1) % Modulus, 1)
  /\ \A b \in dack.bits : b \in 0..(Window - 1) /\ dack.at + b # a /\ HeldBy(r, x, dack.at + b)

\* The bits are relative to the packet before a.  It is not acknowledged, so
\* the digitiser gets no further from it than SendWindow.
AckFrom(r, x, a) ==
  /\ a \in owed \/ a = made
  /\ r.ack_seqno = Minus(a % Modulus, 1)
  /\ \A b \in r.ack : b \in 0..(Window - 1) /\ HeldBy(r, x, a - 1 + b)
  /\ \A dack \in dacks : Sound(r, x, dack, a)

\* The packet to be given next is not held; what is not owed is.
HeldOrOwed(r, x) ==
  /\ ~HeldBy(r, x, x)
  /\ \A n \in (from..(made - 1)) \ owed : HeldBy(r, x, n)

OwedInv == \A n \in owed : made <= n + SendWindow

AckInv ==
  /\ OwedInv
  /\ state = "READY" =>
       HeldOrOwed(recv, next) /\ \E a \in 0..next : AckFrom(recv, next, a)

\* The number before a packet's.
LEMMA NumberBefore ==
  ASSUME NEW a \in Nat
  PROVE  /\ Minus(a % Modulus, 1) = (a + (Modulus - 1)) % Modulus
         /\ Minus(a % Modulus, 1) \in 0..(Modulus - 1)
<1>1. a % Modulus \in Nat  BY Bounds, ModRange
<1>2. Modulus - 1 \in 0..Modulus  BY Bounds
<1>3. ((a % Modulus) + (Modulus - 1)) % Modulus = (a + (Modulus - 1)) % Modulus
      BY <1>2, Bounds, ModMod
<1>4. (a % Modulus) + (Modulus - 1) = (a % Modulus) + Modulus - 1  BY <1>1, Bounds
<1>5. Minus(a % Modulus, 1) = (a + (Modulus - 1)) % Modulus
      BY <1>3, <1>4 DEF Minus
<1>6. a + (Modulus - 1) \in Nat  BY Bounds
<1> QED  BY <1>5, <1>6, Bounds, ModRange

\* How far a packet is from there.
LEMMA DistanceFrom ==
  ASSUME NEW a \in Nat, NEW n \in Nat, n >= a - 1, n - (a - 1) < Modulus
  PROVE  Minus(n % Modulus, Minus(a % Modulus, 1)) = n - (a - 1)
<1> DEFINE x == a + (Modulus - 1)
           d == n - (a - 1)
<1>1. x \in Nat /\ d \in 0..(Modulus - 1) /\ x + d = n + Modulus  BY Bounds
<1>2. Minus((x + d) % Modulus, x % Modulus) = d  BY <1>1, MinusAhead
<1>3. Minus(a % Modulus, 1) = x % Modulus  BY NumberBefore
<1>4. (n + Modulus) % Modulus = n % Modulus  BY ModPeriod
<1> QED  BY <1>1, <1>2, <1>3, <1>4

\* The bit for a packet that is at most a window after a - 1.
LEMMA BitOf ==
  ASSUME NEW a \in Nat, NEW n \in Nat, n >= a, n - (a - 1) <= Window
  PROVE  ((n % Modulus) + Modulus - Minus(a % Modulus, 1)) % Window
           = IF n - (a - 1) < Window THEN n - (a - 1) ELSE 0
<1> DEFINE v == (n % Modulus) + Modulus - Minus(a % Modulus, 1)
           d == n - (a - 1)
<1>1. v \in Nat
  <2>1. n % Modulus \in Nat  BY Bounds, ModRange
  <2>2. Minus(a % Modulus, 1) \in 0..(Modulus - 1)  BY NumberBefore
  <2> DEFINE u == n % Modulus
             w == Minus(a % Modulus, 1)
  <2> HIDE DEF u, w
  <2>3. u + Modulus - w \in Nat  BY <2>1, <2>2, Bounds DEF u, w
  <2> QED  BY <2>3 DEF u, w
<1>2. v % Modulus = d
  <2>1. n - (a - 1) < Modulus /\ n >= a - 1  BY Bounds
  <2> QED  BY <2>1, DistanceFrom DEF Minus
<1> HIDE DEF v
<1>3. (v % Modulus) % Window = v % Window  BY <1>1, ModDivides
<1>4. v % Window = d % Window  BY <1>2, <1>3
<1>5. d \in 0..Window  BY Bounds
<1>6. CASE d < Window
  <2>1. d \in 0..(Window - 1)  BY <1>5, <1>6, Bounds
  <2> HIDE DEF d
  <2>2. d % Window = d  BY <2>1, Bounds, ModSmall
  <2> QED  BY <1>4, <1>6, <2>2 DEF v, d
<1>7. CASE d = Window
  <2>1. Window % Window = 0
    <3>1. Window = Window * 1 + 0 /\ 0 \in 0..(Window - 1)  BY Bounds
    <3> QED  BY <3>1, Bounds, ModUnique
  <2> QED  BY <1>4, <1>7, <2>1, Bounds DEF v
<1> QED  BY <1>5, <1>6, <1>7, Bounds

\* What the digitiser takes an acknowledgement to cover is held, and a is not
\* covered: unless it is so old that a difference has the wrong sign.
LEMMA CoveredIsHeld ==
  ASSUME ReorderInv, NEW a \in 0..next, NEW dack, Sound(recv, next, dack, a),
         Fresh(dack), NEW n \in owed, Covers(dack, n)
  PROVE  HeldBy(recv, next, n) /\ n # a
<1>1. next \in Nat /\ n \in Nat /\ n < made /\ made \in Nat
      BY NextIsNat DEF ReorderInv, TypeOK
<1> DEFINE e == dack.at + 1
<1>2. e \in 0..a  BY DEF Sound
<1>3. dack.at \in Int  BY DEF Sound
<1>4. CASE n < dack.at
      BY <1>1, <1>2, <1>3, <1>4 DEF HeldBy
<1>5. CASE n >= dack.at
  <2>1. n - dack.at < Half /\ Half < Modulus
        BY <1>1, <1>3, <1>5, Bounds DEF Fresh, Half
  <2>2. n >= e - 1 /\ n - (e - 1) < Modulus /\ n - (e - 1) = n - dack.at /\ e \in Nat
        BY <1>1, <1>2, <1>3, <1>5, <2>1, Bounds
  <2> HIDE DEF e
  <2>3. Minus(n % Modulus, dack.seqno) = n - dack.at
        BY <1>1, <2>2, DistanceFrom DEF Sound, e
  <2>4. n - dack.at \in dack.bits
        BY <1>1, <1>3, <2>1, <2>3, Bounds DEF Covers, Half
  <2>5. dack.at + (n - dack.at) = n  BY <1>1, <1>3
  <2> QED  BY <2>4, <2>5 DEF Sound
<1> QED  BY <1>1, <1>3, <1>4, <1>5

\* Who has a packet keeps it when the packet is put into a slot and the next k
\* are given; packet n is held then, and the next one is not.
LEMMA ReleaseKeeps ==
  ASSUME ReorderInv, state = "READY", NEW n \in Nat, n \in next..(next + Window - 1),
         recv.msg[n % Window] = None,
         NEW r \in Recv, InsertedInto(r, n), NEW k \in 0..Window, Contiguous(r, k)
  PROVE  LET q == Release(r, k) IN
         /\ \A m \in Int : HeldBy(recv, next, m) => HeldBy(q, next + k, m)
         /\ HeldBy(q, next + k, n)
         /\ ~HeldBy(q, next + k, next + k)
<1> DEFINE q == Release(r, k)
           x == next
<1>1. x \in Nat /\ r.last_packet = x % Modulus /\ Holds(r, x)
      BY NextIsNat DEF ReorderInv, InsertedInto
<1>2. /\ q.msg = [s \in Slot |->
                   IF \E i \in 0..(k - 1) : s = Ahead(r, i) THEN None ELSE r.msg[s]]
      BY DEF Release, Recv
<1>3. r.msg = [recv.msg EXCEPT ![n % Window] = n] /\ recv \in Recv
      BY DEF InsertedInto, ReorderInv, TypeOK
<1>4. ASSUME NEW m \in Nat, r.msg[m % Window] = m
      PROVE  HeldBy(q, x + k, m)
  <2>1. m % Window \in Slot  BY Bounds, ModRange DEF Slot
  <2>2. CASE \E i \in 0..(k - 1) : m % Window = Ahead(r, i)
    <3>1. PICK i \in 0..(k - 1) : m % Window = Ahead(r, i)  BY <2>2
    <3>2. m = x + i  BY <1>1, <1>4, <3>1, Contents
    <3> QED  BY <1>1, <3>2, Bounds DEF HeldBy
  <2>3. CASE ~\E i \in 0..(k - 1) : m % Window = Ahead(r, i)
    <3>1. q.msg[m % Window] = m  BY <1>2, <1>4, <2>1, <2>3
    <3> QED  BY <3>1 DEF HeldBy
  <2> QED  BY <2>2, <2>3
<1>5. n % Window \in Slot  BY Bounds, ModRange DEF Slot
<1>6. ASSUME NEW m \in Int, HeldBy(recv, x, m) PROVE HeldBy(q, x + k, m)
  <2>1. CASE m < x  BY <1>1, <1>6, <2>1, Bounds DEF HeldBy
  <2>2. CASE ~(m < x)
    <3>1. m \in Nat /\ recv.msg[m % Window] = m  BY <1>1, <1>6, <2>2 DEF HeldBy
    <3>2. m % Window # n % Window  BY <3>1 DEF None
    <3>3. m % Window \in Slot  BY <3>1, Bounds, ModRange DEF Slot
    <3>4. r.msg[m % Window] = m  BY <1>3, <1>5, <3>1, <3>2, <3>3 DEF Recv
    <3> QED  BY <1>4, <3>1, <3>4
  <2> QED  BY <2>1, <2>2
<1>7. HeldBy(q, x + k, n)
  <2>1. r.msg[n % Window] = n  BY <1>3, <1>5 DEF Recv
  <2> QED  BY <1>4, <2>1
<1>8. ~HeldBy(q, x + k, x + k)
  <2> DEFINE y == x + k
  <2>1. y \in Nat /\ ~(y < y)  BY <1>1, Bounds
  <2>2. y % Window \in Slot  BY <2>1, Bounds, ModRange DEF Slot
  <2>3. SUFFICES ASSUME q.msg[y % Window] = y PROVE FALSE
        BY <2>1 DEF HeldBy
  <2>4. q.msg[y % Window] # None  BY <2>1, <2>3 DEF None
  <2>5. r.msg[y % Window] = y /\ r.msg[y % Window] # None
        BY <1>2, <2>2, <2>3, <2>4
  <2>6. y \in x..(x + Window - 1)  BY <1>1, <2>2, <2>5 DEF Holds
  <2>7. k # Window  BY <1>1, <2>6, Bounds
  <2>8. Ahead(r, k) = y % Window  BY <1>1, AheadSlot
  <2> QED  BY <2>5, <2>7, <2>8 DEF Contiguous
<1> QED  BY <1>6, <1>7, <1>8

\* Sending an acknowledgement, or waiting for more, with x to be given next.
LEMMA AckOutcome ==
  ASSUME ReorderInv, OwedInv,
         NEW r \in Recv, NEW x \in Nat, next <= x, x <= made, r.last_packet = x % Modulus,
         NEW a \in 0..next, AckFrom(r, x, a), HeldOrOwed(r, x),
         ActionDACK(r) \/ Acknowledge(r), next' = x, UNCHANGED <<made, owed, from>>
  PROVE  HeldOrOwed(recv, next)' /\ \E c \in 0..next' : AckFrom(recv, next, c)'
<1>1. /\ next \in Nat /\ made \in Nat /\ from \in Nat /\ from <= next
      /\ \A n \in owed : n \in Nat /\ n < made
  <2>1. Len(given) \in Nat  BY DEF ReorderInv, TypeOK
  <2> QED  BY <2>1, NextIsNat DEF ReorderInv, TypeOK, next
<1>2. recv'.msg = r.msg  BY AckKeeps
<1>3. \A m : HeldBy(recv, next, m)' <=> HeldBy(r, x, m)  BY <1>2 DEF HeldBy
<1>4. HeldOrOwed(recv, next)'  BY <1>2 DEF HeldOrOwed, HeldBy
<1>5. CASE recv' = r /\ dacks' = dacks
  <2>1. AckFrom(recv, next, a)'
        BY <1>5 DEF AckFrom, Sound, HeldBy
  <2>2. a \in 0..next'  BY <1>1
  <2> QED  BY <1>4, <2>1, <2>2
<1>6. CASE Acknowledge(r)
  <2> DEFINE b == a - 1
             sent == [seqno |-> r.ack_seqno, bits |-> r.ack,
                      at |-> next - Minus(next % Modulus, r.ack_seqno)]
  <2>1. x \in owed \/ x = made
    <3>1. ~HeldBy(r, x, x)  BY DEF HeldOrOwed
    <3>2. x \in from..(made - 1) => x \in owed  BY <3>1 DEF HeldOrOwed
    <3> QED  BY <1>1, <3>2
  <2>2. recv'.ack_seqno = Minus(x % Modulus, 1) /\ recv'.ack = {0}
    <3> DEFINE l == Minus(r.last_packet, 1)
    <3>1. recv' = [[r EXCEPT !.ack_seqno = l, !.ack = {0}] EXCEPT !.count = 0]
          BY <1>6 DEF Acknowledge, ActionINITDACK
    <3> HIDE DEF l
    <3>2. recv'.ack_seqno = l /\ recv'.ack = {0}  BY <3>1 DEF Recv
    <3> QED  BY <3>2 DEF l
  <2>3. 0 \in 0..(Window - 1) /\ HeldBy(r, x, x - 1 + 0)  BY Bounds DEF HeldBy
  <2>4. ASSUME NEW dack \in dacks PROVE Sound(r, x, dack, x)
    <3>1. Sound(r, x, dack, a)  BY DEF AckFrom
    <3>2. \A c \in dack.bits : dack.at + c # x  BY <3>1 DEF HeldOrOwed, Sound
    <3>3. dack.at \in Int /\ dack.at + 1 \in 0..x  BY <1>1, <3>1 DEF Sound
    <3> QED  BY <3>1, <3>2, <3>3 DEF Sound
  <2>5. sent.at = b
    <3>1. next >= a - 1 /\ next - (a - 1) < Modulus /\ a \in Nat
      <4>1. CASE a = made  BY <1>1, <4>1, Bounds
      <4>2. CASE a \in owed
        <5>1. made <= a + SendWindow /\ SendWindow <= Window /\ SendWindow \in Nat
              BY <4>2, ReorderAssumption DEF OwedInv
        <5>2. next - (a - 1) <= Window + 1  BY <1>1, <5>1, Bounds
        <5>3. Window + 1 < Modulus  BY Bounds, ReorderAssumption
        <5> QED  BY <1>1, <5>2, <5>3, Bounds
      <4> QED  BY <4>1, <4>2 DEF AckFrom
    <3>2. Minus(next % Modulus, r.ack_seqno) = next - (a - 1)
          BY <1>1, <3>1, DistanceFrom DEF AckFrom
    <3> QED  BY <1>1, <3>2
  <2>6. Sound(r, x, sent, x)
    <3>1. sent.at + 1 = a /\ a \in Nat /\ a <= x  BY <1>1, <2>5
    <3>2. sent.seqno = Minus((sent.at + 1) % Modulus, 1)
          BY <3>1 DEF AckFrom
    <3>3. \A c \in sent.bits : c \in 0..(Window - 1) /\ HeldBy(r, x, b + c)
          BY DEF AckFrom
    <3>4. \A c \in sent.bits : c \in 0..(Window - 1) /\ HeldBy(r, x, sent.at + c)
          BY <2>5, <3>3
    <3>5. \A c \in sent.bits : sent.at + c # x  BY <3>4 DEF HeldOrOwed
    <3>6. sent.at \in Int /\ sent.at + 1 \in 0..x  BY <2>5, <3>1
    <3> HIDE DEF sent
    <3> QED  BY <3>2, <3>4, <3>5, <3>6 DEF Sound
  <2>7. \A dack \in dacks' : Sound(r, x, dack, x)
    <3>1. dacks' \subseteq dacks \cup {sent}  BY <1>6 DEF Acknowledge
    <3> QED  BY <2>4, <2>6, <3>1
  <2>8. \A dack \in dacks' : Sound(recv', x, dack, x)
        BY <1>2, <2>7 DEF Sound, HeldBy
  <2>9. \A c \in recv'.ack : c \in 0..(Window - 1) /\ HeldBy(recv', x, x - 1 + c)
        BY <1>2, <2>2, <2>3 DEF HeldBy
  <2>10. AckFrom(recv, next, x)'
        BY <2>1, <2>2, <2>8, <2>9 DEF AckFrom, Sound, HeldBy
  <2>11. x \in 0..next'  OBVIOUS
  <2> QED  BY <1>4, <2>10, <2>11
<1> QED  BY <1>5, <1>6 DEF ActionDACK

\* A packet goes into its slot, k are given, and its bit is set.
LEMMA AckInsert ==
  ASSUME ReorderInv, AckInv, state = "READY", NEW n \in data, Near(n), Insert(n),
         UNCHANGED <<made, owed>>
  PROVE  HeldOrOwed(recv, next)' /\ \E c \in 0..next' : AckFrom(recv, next, c)'
<1>1. PICK k \in 0..Window, r \in Recv :
        /\ InsertedInto(r, n)
        /\ Contiguous(r, k)
        /\ given' = given \o [i \in 1..k |-> r.msg[Ahead(r, i - 1)]]
        /\ ActionDACK(SetAckBit(Release(r, k), n % Modulus))
      BY InsertParts
<1>2. /\ n \in Nat /\ n \in next..(next + Window - 1) /\ n < made
      /\ recv.msg[n % Window] = None
      BY InsertParts
<1>3. /\ next \in Nat /\ made \in Nat /\ from \in Nat
      /\ \A m \in owed : m \in Nat /\ m < made
      BY NextIsNat DEF ReorderInv, TypeOK
<1>4. next' = next + k /\ next + k <= made
  <2>1. /\ next + k <= made
        /\ [i \in 1..k |-> r.msg[Ahead(r, i - 1)]] = [i \in 1..k |-> next + i - 1]
        /\ [i \in 1..k |-> next + i - 1] \in Seq(Nat)
        /\ Len([i \in 1..k |-> next + i - 1]) = k
        BY <1>1, Gives
  <2>2. given' = given \o [i \in 1..k |-> next + i - 1]  BY <1>1, <2>1
  <2>3. UNCHANGED from  BY DEF Insert
  <2> DEFINE more == [i \in 1..k |-> next + i - 1]
  <2> HIDE DEF more
  <2>4. next' = next + Len(more)
        BY <2>1, <2>2, <2>3, Given DEF ReorderInv, more
  <2> QED  BY <2>1, <2>4 DEF more
<1>5. PICK a \in 0..next : AckFrom(recv, next, a)  BY DEF AckInv
<1> DEFINE x == next + k
           q == Release(r, k)
           p == SetAckBit(q, n % Modulus)
           b == ((n % Modulus) + Modulus - q.ack_seqno) % Window
<1>6. x \in Nat /\ next <= x /\ x <= made  BY <1>3, <1>4, Bounds
<1>7. /\ q \in Recv /\ q.last_packet = x % Modulus
      /\ q.ack_seqno = recv.ack_seqno /\ q.ack = recv.ack
  <2>1. q \in Recv /\ q.last_packet = x % Modulus
        BY <1>1, <1>3, Left DEF InsertedInto
  <2>2. q.ack_seqno = r.ack_seqno /\ q.ack = r.ack  BY DEF Release, Recv
  <2> HIDE DEF q
  <2> QED  BY <1>1, <2>1, <2>2 DEF InsertedInto
<1>8. /\ \A m \in Int : HeldBy(recv, next, m) => HeldBy(q, x, m)
      /\ HeldBy(q, x, n)
      /\ ~HeldBy(q, x, x)
      BY <1>1, <1>2, ReleaseKeeps
<1> HIDE DEF q
<1>9. /\ p \in Recv /\ p.last_packet = q.last_packet /\ p.msg = q.msg
      /\ p.ack_seqno = q.ack_seqno /\ p.ack = q.ack \cup {b}
      BY <1>2, <1>7, BitSet
<1>10. b \in 0..(Window - 1) /\ HeldBy(q, x, a - 1 + b)
  <2>1. n >= a /\ n - (a - 1) <= Window /\ a \in Nat
    <3>1. a # made  BY <1>2, <1>3
    <3>2. made <= a + SendWindow /\ SendWindow <= Window /\ SendWindow \in Nat
          BY <1>5, <3>1, ReorderAssumption DEF AckFrom, AckInv, OwedInv
    <3> QED  BY <1>2, <1>3, <3>2, Bounds
  <2>2. q.ack_seqno = Minus(a % Modulus, 1)  BY <1>5, <1>7 DEF AckFrom
  <2>3. b = IF n - (a - 1) < Window THEN n - (a - 1) ELSE 0
        BY <1>2, <2>1, <2>2, BitOf
  <2> HIDE DEF b, x
  <2>4. CASE n - (a - 1) < Window
    <3>1. b = n - (a - 1) /\ a - 1 + b = n  BY <1>2, <2>1, <2>3, <2>4
    <3> QED  BY <1>2, <1>8, <2>1, <2>4, <3>1, Bounds
  <2>5. CASE ~(n - (a - 1) < Window)
    <3>1. b = 0 /\ a - 1 + b < x  BY <1>3, <1>6, <2>1, <2>3, <2>5
    <3> QED  BY <3>1, Bounds DEF HeldBy
  <2> QED  BY <2>4, <2>5
<1> HIDE DEF b
<1>11. \A m \in Int : HeldBy(recv, next, m) => HeldBy(p, x, m)
       BY <1>8, <1>9 DEF HeldBy
<1>12. HeldOrOwed(p, x)
  <2>1. ~HeldBy(p, x, x)  BY <1>8, <1>9 DEF HeldBy
  <2>2. \A m \in (from..(made - 1)) \ owed : HeldBy(recv, next, m)
        BY DEF AckInv, HeldOrOwed
  <2>3. \A m \in from..(made - 1) : m \in Int  BY <1>3
  <2> QED  BY <1>11, <2>1, <2>2, <2>3 DEF HeldOrOwed
<1>13. AckFrom(p, x, a)
  <2>1. \A c \in p.ack : c \in 0..(Window - 1) /\ HeldBy(p, x, a - 1 + c)
    <3>1. ASSUME NEW c \in recv.ack
          PROVE  c \in 0..(Window - 1) /\ HeldBy(p, x, a - 1 + c)
      <4>1. c \in 0..(Window - 1) /\ HeldBy(recv, next, a - 1 + c)
            BY <1>5 DEF AckFrom
      <4>2. a - 1 + c \in Int  BY <4>1, Bounds
      <4> QED  BY <1>11, <4>1, <4>2
    <3>2. HeldBy(p, x, a - 1 + b)  BY <1>9, <1>10 DEF HeldBy
    <3> QED  BY <1>7, <1>9, <1>10, <3>1, <3>2
  <2>2. ASSUME NEW dack \in dacks PROVE Sound(p, x, dack, a)
    <3>1. Sound(recv, next, dack, a)  BY <1>5 DEF AckFrom
    <3>2. ASSUME NEW c \in dack.bits PROVE HeldBy(p, x, dack.at + c)
      <4>1. c \in 0..(Window - 1) /\ HeldBy(recv, next, dack.at + c) /\ dack.at \in Int
            BY <3>1 DEF Sound
      <4>2. dack.at + c \in Int  BY <4>1, Bounds
      <4> QED  BY <1>11, <4>1, <4>2
    <3> QED  BY <3>1, <3>2 DEF Sound
  <2>3. p.ack_seqno = Minus(a % Modulus, 1)  BY <1>5, <1>7, <1>9 DEF AckFrom
  <2>4. a \in owed \/ a = made  BY <1>5 DEF AckFrom
  <2> QED  BY <2>1, <2>2, <2>3, <2>4 DEF AckFrom
<1>14. ActionDACK(p)  BY <1>1 DEF q
<1>15. UNCHANGED from  BY DEF Insert
<1> HIDE DEF p
<1>16. p.last_packet = x % Modulus  BY <1>7, <1>9
<1>17. OwedInv  BY DEF AckInv
<1> HIDE DEF x
<1>18. next' = x  BY <1>4 DEF x
<1> QED  BY <1>6, <1>9, <1>12, <1>13, <1>14, <1>15, <1>16, <1>17, <1>18, AckOutcome

\* A registration begins afresh: everything from dataseq on is owed.
LEMMA AckRegister ==
  ASSUME ReorderInv, AckInv, NEW dataseq, ActionLD_C1_FLGS(dataseq)
  PROVE  AckInv'
<1>1. /\ dataseq \in {Base, made} /\ state = "registering" /\ state' = "READY"
      /\ from' = dataseq /\ given' = <<>> /\ owed' = dataseq..(made - 1)
      /\ dacks' = {} /\ made' = made
      /\ recv' = ActionINITDACK([recv EXCEPT !.last_packet = dataseq % Modulus])
      BY DEF ActionLD_C1_FLGS
<1>2. made \in Nat /\ owed \subseteq Nat /\ recv \in Recv  BY DEF ReorderInv, TypeOK
<1>3. dataseq \in Nat /\ dataseq <= made  BY <1>1, <1>2, BaseMade
<1>4. next' = dataseq  BY <1>1, <1>3 DEF next
<1>5. OwedInv'
  <2> SUFFICES ASSUME NEW n \in dataseq..(made - 1) PROVE made <= n + SendWindow
      BY <1>1 DEF OwedInv
  <2>1. owed # {} /\ dataseq = Base  BY <1>1, <1>2, <1>3 DEF Base
  <2>2. dataseq \in owed  BY <1>2, <2>1, BaseLeast
  <2>3. made <= dataseq + SendWindow  BY <2>2 DEF AckInv, OwedInv
  <2> QED  BY <1>2, <1>3, <2>3, ReorderAssumption
<1>6. /\ recv'.ack_seqno = Minus(dataseq % Modulus, 1) /\ recv'.ack = {0}
      /\ recv'.msg = recv.msg
  <2> DEFINE l == dataseq % Modulus
             r == [recv EXCEPT !.last_packet = l]
             c == Minus(r.last_packet, 1)
  <2>1. recv' = [r EXCEPT !.ack_seqno = c, !.ack = {0}]  BY <1>1 DEF ActionINITDACK
  <2>2. r.last_packet = l  BY <1>2 DEF Recv
  <2> HIDE DEF l
  <2>3. recv'.ack_seqno = c /\ recv'.ack = {0} /\ recv'.msg = recv.msg
        BY <1>2, <2>1 DEF Recv
  <2> QED  BY <2>2, <2>3 DEF l
<1>7. ~HeldBy(recv', dataseq, dataseq)
  <2>1. dataseq % Window \in Slot  BY <1>3, Bounds, ModRange DEF Slot
  <2>2. recv'.msg[dataseq % Window] = None
        BY <1>1, <1>6, <2>1 DEF ReorderInv, WindowInv
  <2> QED  BY <1>3, <2>2 DEF HeldBy, None
<1>8. HeldOrOwed(recv, next)'
      BY <1>1, <1>4, <1>7 DEF HeldOrOwed, HeldBy
<1>9. AckFrom(recv, next, dataseq)'
  <2>1. dataseq \in owed' \/ dataseq = made'  BY <1>1, <1>2, <1>3
  <2>2. \A b \in recv'.ack : b \in 0..(Window - 1) /\ HeldBy(recv', dataseq, dataseq - 1 + b)
    <3>1. 0 \in 0..(Window - 1) /\ dataseq - 1 + 0 < dataseq  BY <1>3, Bounds
    <3> QED  BY <1>6, <3>1 DEF HeldBy
  <2> QED  BY <1>1, <1>4, <1>6, <2>1, <2>2 DEF AckFrom, HeldBy
<1>10. dataseq \in 0..next'  BY <1>3, <1>4
<1> QED  BY <1>5, <1>8, <1>9, <1>10 DEF AckInv

\* The receive buffer stays as it is, and nothing that is not held becomes
\* acknowledged.
LEMMA AckSame ==
  ASSUME ReorderInv, AckInv, OwedInv', UNCHANGED <<recv, state, from, given>>,
         dacks' \subseteq dacks, made' \in Nat, made' >= made,
         state = "READY" =>
           /\ \A a \in 0..next : AckFrom(recv, next, a) =>
                                   (a \in owed' \/ a = made')
           /\ \A n \in from..(made' - 1) :
                n \in owed' \/ HeldBy(recv, next, n)
  PROVE  AckInv'
<1>1. next' = next  BY DEF next
<1>2. SUFFICES ASSUME state = "READY"
               PROVE  HeldOrOwed(recv, next)'
                      /\ \E c \in 0..next' : AckFrom(recv, next, c)'
      BY DEF AckInv
<1>3. HeldOrOwed(recv, next)'
      BY <1>1, <1>2 DEF AckInv, HeldOrOwed, HeldBy
<1>4. PICK a \in 0..next : AckFrom(recv, next, a)  BY <1>2 DEF AckInv
<1>5. AckFrom(recv, next, a)'
      BY <1>1, <1>2, <1>4 DEF AckFrom, Sound, HeldBy
<1> QED  BY <1>1, <1>3, <1>5

\* Every step keeps what the acknowledgements say true.
LEMMA AckStep == ReorderInv /\ AckInv /\ [Next]_vars => AckInv'
<1> SUFFICES ASSUME ReorderInv, AckInv, [Next]_vars PROVE AckInv'  OBVIOUS
<1> USE DEF digitiser, network, library, application
<1>1. /\ made \in Nat /\ owed \subseteq Nat /\ \A n \in owed : n < made
      /\ next \in Nat /\ next <= made /\ from \in Nat
      BY NextIsNat DEF ReorderInv, TypeOK
<1>2. state = "READY" => \A n \in from..(made - 1) : n \in owed \/ HeldBy(recv, next, n)
      BY DEF AckInv, HeldOrOwed
<1>3. state = "READY" => \A a \in 0..next : AckFrom(recv, next, a) =>
                                              (a \in owed \/ a = made)
      BY DEF AckFrom
<1>4. CASE Make
  <2>1. /\ made < Base + SendWindow /\ made' = made + 1 /\ owed' = owed \cup {made}
        /\ UNCHANGED <<recv, state, from, given, dacks>>
        BY <1>4 DEF Make
  <2>2. OwedInv'
    <3>1. \A n \in owed : Base <= n /\ Base \in Nat  BY <1>1, BaseLeast
    <3>2. \A n \in owed : made + 1 <= n + SendWindow
          BY <1>1, <2>1, <3>1, ReorderAssumption
    <3>3. made + 1 <= made + SendWindow  BY <1>1, ReorderAssumption
    <3> QED  BY <2>1, <3>2, <3>3 DEF OwedInv
  <2>3. \A n \in from..(made' - 1) : n \in from..(made - 1) \/ n = made
        BY <1>1, <2>1
  <2>4. made' \in Nat /\ made' >= made  BY <1>1, <2>1
  <2> QED  BY <1>2, <1>3, <2>1, <2>2, <2>3, <2>4, AckSame
<1>5. ASSUME UNCHANGED <<made, owed, recv, state, from, given>>, dacks' \subseteq dacks
      PROVE  AckInv'
  <2>1. OwedInv'  BY <1>5 DEF AckInv, OwedInv
  <2>2. made' \in Nat /\ made' >= made  BY <1>1, <1>5
  <2> QED  BY <1>2, <1>3, <1>5, <2>1, <2>2, AckSame
<1>6. ASSUME NEW n \in Number, Resend(n) \/ LoseData(n) PROVE AckInv'
      BY <1>5, <1>6 DEF Resend, LoseData
<1>7. ASSUME NEW dack \in dacks, LoseDack(dack) PROVE AckInv'
      BY <1>5, <1>7 DEF LoseDack
<1>8. ASSUME NEW dack \in dacks, RecvDack(dack) PROVE AckInv'
  <2>1. /\ Fresh(dack) /\ owed' = {n \in owed : ~Covers(dack, n)}
        /\ dacks' = dacks \ {dack} /\ UNCHANGED <<made, recv, state, from, given>>
        BY <1>8 DEF RecvDack
  <2>2. OwedInv'  BY <2>1 DEF AckInv, OwedInv
  <2>3. ASSUME state = "READY", NEW a \in 0..next, AckFrom(recv, next, a),
               NEW n \in owed, n \notin owed'
        PROVE  HeldBy(recv, next, n) /\ n # a
    <3>1. Covers(dack, n)  BY <2>1, <2>3
    <3>2. Sound(recv, next, dack, a)  BY <2>3 DEF AckFrom
    <3> QED  BY <2>1, <3>1, <3>2, CoveredIsHeld
  <2>4. state = "READY" => \A a \in 0..next : AckFrom(recv, next, a) =>
                                                (a \in owed' \/ a = made')
        BY <1>3, <2>1, <2>3
  <2>5. state = "READY" => \A n \in from..(made' - 1) :
                              n \in owed' \/ HeldBy(recv, next, n)
    <3> SUFFICES ASSUME state = "READY", NEW n \in from..(made - 1), n \notin owed'
                 PROVE  HeldBy(recv, next, n)
        BY <2>1
    <3>1. PICK a \in 0..next : AckFrom(recv, next, a)  BY DEF AckInv
    <3>2. CASE n \in owed  BY <2>3, <3>1, <3>2
    <3>3. CASE n \notin owed  BY <1>2, <3>3
    <3> QED  BY <3>2, <3>3
  <2>6. made' \in Nat /\ made' >= made  BY <1>1, <2>1
  <2> QED  BY <2>1, <2>2, <2>4, <2>5, <2>6, AckSame
<1>9. ASSUME state = "READY", state' = "READY", ActionDACK(recv) \/ Acknowledge(recv),
             UNCHANGED <<made, owed, from, given>>
      PROVE  AckInv'
  <2>1. PICK a \in 0..next : AckFrom(recv, next, a)  BY <1>9 DEF AckInv
  <2>2. recv \in Recv /\ recv.last_packet = next % Modulus
        BY <1>9 DEF ReorderInv, TypeOK, WindowInv
  <2>3. next' = next /\ next <= next  BY <1>1, <1>9 DEF next
  <2>4. HeldOrOwed(recv, next) /\ OwedInv  BY <1>9 DEF AckInv
  <2>5. HeldOrOwed(recv, next)' /\ \E c \in 0..next' : AckFrom(recv, next, c)'
        BY <1>1, <1>9, <2>1, <2>2, <2>3, <2>4, AckOutcome
  <2>6. OwedInv'  BY <1>9 DEF AckInv, OwedInv
  <2> QED  BY <1>9, <2>5, <2>6 DEF AckInv
<1>10. CASE AckTimer
  BY <1>9, <1>10 DEF AckTimer
<1>11. ASSUME NEW n \in Number, Receive(n) PROVE AckInv'
  <2>1. /\ state = "READY" /\ n \in data /\ Near(n) /\ UNCHANGED <<made, owed>>
        BY <1>11 DEF Receive
  <2>2. CASE Drop(n)  BY <1>9, <2>1, <2>2 DEF Drop
  <2>3. CASE Clash(n)
    <3>1. recv.msg[SlotOf(n)] \in {None, n}  BY <2>1, <2>3, InSlot DEF Clash
    <3> QED  BY <2>3, <3>1 DEF Clash
  <2>4. CASE Insert(n)
    <3>1. HeldOrOwed(recv, next)' /\ \E c \in 0..next' : AckFrom(recv, next, c)'
          BY <2>1, <2>4, AckInsert
    <3>2. OwedInv'  BY <2>1 DEF AckInv, OwedInv
    <3> QED  BY <3>1, <3>2 DEF AckInv
  <2> QED  BY <1>11, <2>2, <2>3, <2>4 DEF Receive
<1>12. CASE ActionFLUSH
  BY <1>12 DEF ActionFLUSH, AckInv, OwedInv
<1>13. ASSUME NEW dataseq \in First..MaxMade, ActionLD_C1_FLGS(dataseq) PROVE AckInv'
  BY <1>13, AckRegister
<1>14. CASE UNCHANGED vars
  BY <1>5, <1>14 DEF vars
<1> QED
  BY <1>4, <1>6, <1>7, <1>8, <1>10, <1>11, <1>12, <1>13, <1>14 DEF Next

\* What the digitiser has an acknowledgement for, and so will never send again,
\* the application or the receive buffer has: however many packets and
\* acknowledgements are lost or repeated and however the numbers and the bits
\* wrap (the bit map of reorder.c is relative to ack_seqno, which lags behind the window).
THEOREM AcknowledgedIsHeld == Spec => []AckedIsHeld
<1>1. Init => AckInv  BY DEF Init, AckInv, OwedInv
<1>2. Spec => [](ReorderInv /\ AckInv)
  <2>1. ReorderInv /\ [Next]_vars => ReorderInv'  BY InvNext
  <2> QED  BY <1>1, <2>1, InvInit, AckStep, PTL DEF Spec
<1>3. ReorderInv /\ AckInv => AckedIsHeld
      BY DEF AckInv, HeldOrOwed, HeldBy, AckedIsHeld
<1> QED  BY <1>2, <1>3, PTL

-----------------------------------------------------------------------------
(* The connection machine: the invariant.                                    *)

EventName == {NoEvent, "ctrl packet", "ctrl nothing", "data packet", "data nothing",
              "UP", "OFF", "APPCMD", "HBEAT", "WATCHDOG"}
Working == {"ready", "listen", "packet", "nothing", "handled", "taken", "cleared", "asleep"}
ThreadAt == Working \cup {"none", "created", "dead"}
Serving == {"connected", "command", "waitcmd", "shutdown", "deregister", "off", "refused",
            "waitoff"}
CallerAt == Starting \cup Serving \cup {"waitup", "closed", "failed"}

Handle ==
  [state : State, tld : BOOLEAN, failed : BOOLEAN, nthread : Nat, open : BOOLEAN,
   heap : Int, automaton : Nat, watchdog : Int,
   cmdheap : Int, cmdfull : {"none", "pill", "command"}, cmd : {"none", "unsent", "sent"},
   attempts : Int, cmdsem : Int,
   next : State \cup {"nochange", Never}, ups : Nat, early : BOOLEAN]

MType ==
  /\ qp \in Handle
  /\ event \in EventName
  /\ pc \in [Thread -> ThreadAt]
  /\ caller \in [at : CallerAt, started : 0..Len(Started)]
  /\ proc \in {"live", "crashed", "freed"}

\* The threads that have counted themselves and not yet left.
Counted == {t \in Thread : pc[t] \in Working}
CountedInv == IsFiniteSet(Counted) /\ qp.nthread = Cardinality(Counted)

\* qdpStartFSA creates the threads one by one.
OrderInv ==
  /\ \A i \in DOMAIN Started : i > caller.started <=> pc[Started[i]] = "none"
  /\ At("launch") => caller.started > 0
  /\ caller.at \notin {"create", "launch", "failed"} => caller.started = Len(Started)
  /\ proc = "freed" <=> caller.at \in {"closed", "failed"}

\* Posts of Automaton that were waited for, once the threads are all started.
Waited ==
  CASE At("closed") -> 2
    [] caller.at \in Serving \cup {"failed"} -> 1
    [] OTHER -> 0
Ended == IF qp.open THEN 0 ELSE 1

\* What goes on before the machine is asked to come up.
StartingInv ==
  /\ qp.state = initial /\ qp.open /\ qp.ups = 0 /\ event \notin {"UP", "OFF"}
  /\ \A t \in Thread : pc[t] = "created" =>
       At("launch") /\ t = Started[caller.started]
  /\ qp.automaton = IF At("launch") /\ pc[Started[caller.started]] # "created" THEN 1 ELSE 0

\* What goes on after.
StartedInv ==
  /\ \A t \in Thread : pc[t] # "created"
  /\ qp.open <=> Counted # {}
  /\ qp.automaton + Waited = qp.ups + Ended

EndsOff ==
  /\ qp.tld \/ qp.failed => Off
  /\ \A t \in Thread : pc[t] = "dead" => Off

StillOpen == caller.started < Len(Started) /\ At("failed") => qp.open

MInv ==
  /\ MType /\ CountedInv /\ OrderInv
  /\ ~qp.early =>
       /\ EndsOff /\ StillOpen
       /\ caller.at \in Starting => StartingInv
       /\ caller.at \notin Starting /\ caller.started = Len(Started) => StartedInv

-----------------------------------------------------------------------------
(* The actions of the machine.                                                *)

\* What the invariant speaks of, but for the machine's own state.
Same(q, r) == /\ r.nthread = q.nthread /\ r.open = q.open /\ r.early = q.early
              /\ r.automaton = q.automaton /\ r.ups = q.ups
SameCore(q, r) == /\ Same(q, r) /\ r.state = q.state
                  /\ r.tld = q.tld /\ r.failed = q.failed
SameNext(q, r) == SameCore(q, r) /\ r.next = q.next

LEMMA ReturnType == ASSUME NEW q \in Handle PROVE Return(q) \in Handle /\ SameNext(q, Return(q))
BY DEF Handle, Return, SameNext, SameCore, Same

LEMMA PillType == ASSUME NEW q \in Handle PROVE Pill(q) \in Handle /\ SameNext(q, Pill(q))
<1>1. CASE q.cmdheap # 1  BY <1>1 DEF Pill, SameNext, SameCore, Same
<1>2. CASE q.cmdheap = 1
  <2>1. PICK a : a = [q EXCEPT !.cmdheap = 0]  OBVIOUS
  <2>2. PICK b : b = [a EXCEPT !.cmdfull = "pill"]  OBVIOUS
  <2>3. Pill(q) = b  BY <1>2, <2>1, <2>2 DEF Pill
  <2>4. a \in Handle /\ SameNext(q, a)  BY <2>1 DEF Handle, SameNext, SameCore, Same
  <2>5. b \in Handle /\ SameNext(a, b)  BY <2>2, <2>4 DEF Handle, SameNext, SameCore, Same
  <2> QED  BY <2>3, <2>4, <2>5 DEF SameNext, SameCore, Same
<1> QED  BY <1>1, <1>2

LEMMA AnswerType == ASSUME NEW q \in Handle PROVE Answer(q) \in Handle /\ SameNext(q, Answer(q))
<1>1. PICK a : a = [q EXCEPT !.cmd = "none"]  OBVIOUS
<1>2. PICK b : b = [a EXCEPT !.cmdheap = @ + 1]  OBVIOUS
<1>3. PICK c : c = [b EXCEPT !.cmdsem = @ + 1]  OBVIOUS
<1>4. a \in Handle /\ SameNext(q, a)  BY <1>1 DEF Handle, SameNext, SameCore, Same
<1>5. b \in Handle /\ SameNext(a, b)  BY <1>2, <1>4 DEF Handle, SameNext, SameCore, Same
<1>6. c \in Handle /\ SameNext(b, c)  BY <1>3, <1>5 DEF Handle, SameNext, SameCore, Same
<1>7. Answer(q) = c  BY <1>1, <1>2, <1>3 DEF Answer, Handle
<1> QED  BY <1>4, <1>5, <1>6, <1>7 DEF SameNext, SameCore, Same

LEMMA AppcmdType ==
  ASSUME NEW q \in Handle
  PROVE  ActionAPPCMD(q) \in Handle /\ SameNext(q, ActionAPPCMD(q))
<1>1. CASE q.cmd = "none"  BY <1>1 DEF ActionAPPCMD, SameNext, SameCore, Same
<1>2. CASE q.cmd /= "none" /\ q.attempts > QDP_MAX_CMD_ATTEMPTS
  BY <1>2, AnswerType DEF ActionAPPCMD
<1>3. CASE q.cmd /= "none" /\ ~(q.attempts > QDP_MAX_CMD_ATTEMPTS)
  <2>1. PICK a : a = [q EXCEPT !.cmd = "sent"]  OBVIOUS
  <2>2. PICK b : b = [a EXCEPT !.attempts = @ + 1]  OBVIOUS
  <2>3. a \in Handle /\ SameNext(q, a)  BY <2>1 DEF Handle, SameNext, SameCore, Same
  <2>4. b \in Handle /\ SameNext(a, b)  BY <2>2, <2>3 DEF Handle, SameNext, SameCore, Same
  <2>5. ActionAPPCMD(q) = b  BY <1>3, <2>1, <2>2 DEF ActionAPPCMD, Handle
  <2> QED  BY <2>3, <2>4, <2>5 DEF SameNext, SameCore, Same
<1> QED  BY <1>1, <1>2, <1>3

LEMMA NextType ==
  ASSUME NEW q \in Handle, NEW s \in State \cup {"nochange", Never},
         NEW r, r = [q EXCEPT !.next = s]
  PROVE  r \in Handle /\ SameCore(q, r) /\ r.next = s
BY DEF Handle, SameCore, Same

LEMMA TldType ==
  ASSUME NEW q \in Handle
  PROVE  /\ ActionTLD(q) \in Handle /\ Same(q, ActionTLD(q)) /\ ActionTLD(q).state = q.state
         /\ ActionTLD(q).tld /\ ActionTLD(q).failed = q.failed /\ ActionTLD(q).next = "OFF"
<1>1. PICK p \in Handle : p = Pill(q) /\ SameNext(q, p)  BY PillType
<1>2. PICK a : a = [p EXCEPT !.next = "OFF"]  OBVIOUS
<1>3. PICK b : b = [a EXCEPT !.tld = TRUE]  OBVIOUS
<1>4. PICK c : c = [b EXCEPT !.watchdog = @ + 1]  OBVIOUS
<1>5. a \in Handle /\ SameCore(p, a) /\ a.next = "OFF"  BY <1>2, NextType DEF State
<1>6. /\ b \in Handle /\ Same(a, b) /\ b.state = a.state /\ b.failed = a.failed
      /\ b.tld /\ b.next = a.next
      BY <1>3, <1>5 DEF Handle, Same
<1>7. c \in Handle /\ SameNext(b, c)
  <2>1. b \in Handle  BY <1>6
  <2> QED  BY ONLY <1>4, <2>1 DEF Handle, SameNext, SameCore, Same
<1>8. ActionTLD(q) = c  BY <1>1, <1>2, <1>3, <1>4, <1>5 DEF ActionTLD, Handle
<1> QED  BY <1>1, <1>5, <1>6, <1>7, <1>8 DEF SameNext, SameCore, Same

LEMMA FailType ==
  ASSUME NEW q \in Handle
  PROVE  /\ Fail(q) \in Handle /\ Same(q, Fail(q)) /\ Fail(q).state = q.state
         /\ Fail(q).tld /\ Fail(q).failed /\ Fail(q).next = "OFF"
<1>1. PICK p : p = [q EXCEPT !.failed = TRUE]  OBVIOUS
<1>2. p \in Handle /\ Same(q, p) /\ p.state = q.state /\ p.failed
      BY <1>1 DEF Handle, Same
<1>3. Fail(q) = ActionTLD(p)  BY <1>1 DEF Fail
<1> QED  BY <1>2, <1>3, TldType DEF Same

\* What an action does to all this.
Fine(q, r) ==
  /\ r \in Handle
  /\ r.nthread = q.nthread /\ r.open = q.open /\ r.early = q.early /\ r.state = q.state
  /\ r.automaton + q.ups = q.automaton + r.ups
  /\ ~q.tld /\ ~q.failed /\ (r.tld \/ r.failed) => r.next = "OFF"

LEMMA CoreIsFine ==
  ASSUME NEW q \in Handle, NEW r \in Handle, SameCore(q, r)
  PROVE  Fine(q, r) /\ (r.tld => q.tld)
BY DEF Fine, SameCore, Same, Handle

LEMMA TluFine ==
  ASSUME NEW q \in Handle
  PROVE  Fine(q, ActionTLU(q)) /\ (ActionTLU(q).tld => q.tld)
<1>1. PICK a : a = [q EXCEPT !.next = "READY"]  OBVIOUS
<1>2. PICK b : b = [a EXCEPT !.failed = FALSE]  OBVIOUS
<1>3. PICK c : c = [b EXCEPT !.automaton = @ + 1]  OBVIOUS
<1>4. PICK r : r = [c EXCEPT !.ups = @ + 1]  OBVIOUS
<1>5. a \in Handle /\ SameCore(q, a)  BY <1>1, NextType DEF State
<1>6. b \in Handle /\ Same(a, b) /\ b.state = a.state /\ b.tld = a.tld /\ b.failed = FALSE
      BY <1>2, <1>5 DEF Handle, Same
<1>7. /\ c \in Handle /\ c.nthread = b.nthread /\ c.open = b.open /\ c.early = b.early
      /\ c.state = b.state /\ c.automaton = b.automaton + 1 /\ c.ups = b.ups
      /\ c.tld = b.tld /\ c.failed = b.failed
      BY <1>3, <1>6 DEF Handle
<1>8. /\ r \in Handle /\ r.nthread = c.nthread /\ r.open = c.open /\ r.early = c.early
      /\ r.state = c.state /\ r.automaton = c.automaton /\ r.ups = c.ups + 1
      /\ r.tld = c.tld /\ r.failed = c.failed
      BY <1>4, <1>7 DEF Handle
<1>9. ActionTLU(q) = r  BY <1>1, <1>2, <1>3, <1>4 DEF ActionTLU, Handle
<1>10. /\ r.nthread = q.nthread /\ r.open = q.open /\ r.early = q.early /\ r.state = q.state
       /\ r.automaton = q.automaton + 1 /\ r.ups = q.ups + 1
       /\ r.tld = q.tld /\ r.failed = FALSE
       BY <1>5, <1>6, <1>7, <1>8 DEF SameCore, Same
<1>11. q.automaton \in Nat /\ q.ups \in Nat  BY DEF Handle
<1> QED  BY <1>8, <1>9, <1>10, <1>11 DEF Fine

ActionName ==
  {"SEND", "FLUSH", "LDSN", "DECODECH", "LD_C1_FIX", "LD_C2_EPD", "LD_C1_FLGS", "LD_TOKENS",
   "FILL", "DROP", "START", "SRVRQ", "REGISTERED", "LD_C1_LOG", "TLU", "TLD", "IOERR",
   "WATCHDOG", "REGERR", "APPCMD", "DATA", "CERR", "CACK", "CTRL", Never}

\* These take the machine down without an error.
Quiet == {"TLD", "IOERR", "DATA"}

LEMMA EffectFine ==
  ASSUME NEW q \in Handle, NEW a \in ActionName, NEW how
  PROVE  /\ Fine(q, Effect(a, how, q))
         /\ a \notin Quiet /\ ~q.tld /\ Effect(a, how, q).tld => Effect(a, how, q).failed
<1>1. PICK r : r = Effect(a, how, q)  OBVIOUS
<1>2. CASE a \in {"SEND", "FLUSH"}
  <2>1. r = q  BY <1>1, <1>2 DEF Effect, Never
  <2>2. SameCore(q, r)  BY <2>1 DEF SameCore, Same
  <2> QED  BY <1>1, <2>1, <2>2, CoreIsFine
<1>3. CASE a \in {"LDSN", "DECODECH", "LD_C1_FIX", "LD_C2_EPD", "LD_C1_FLGS", "LD_TOKENS",
                  "FILL", "DROP"}
  <2>1. r = Return(q)  BY <1>1, <1>3 DEF Effect, Never
  <2> QED  BY <1>1, <2>1, ReturnType, CoreIsFine DEF SameNext
<1>4. CASE a = "START"
  <2>1. r = q \/ r = [q EXCEPT !.watchdog = @ + 1]  BY <1>1, <1>4 DEF Effect, Never
  <2>2. r \in Handle /\ SameCore(q, r)  BY <2>1 DEF Handle, SameCore, Same
  <2> QED  BY <1>1, <2>2, CoreIsFine
<1>5. CASE a \in {"SRVRQ", Never}
  <2>1. PICK s \in State : r = [q EXCEPT !.next = s]
        BY <1>1, <1>5 DEF Effect, Never, State, Waiting
  <2> QED  BY <1>1, <2>1, NextType, CoreIsFine
<1>6. CASE a = "REGISTERED"
  <2>1. r = ActionREGISTERED(q)  BY <1>1, <1>6 DEF Effect, Never
  <2>2. CASE DataLink
    <3>1. r = [q EXCEPT !.next = "WAIT_C1_LOG"] /\ "WAIT_C1_LOG" \in State
          BY <2>1, <2>2 DEF ActionREGISTERED, State, Waiting
    <3> QED  BY <1>1, <3>1, NextType, CoreIsFine
  <2>3. CASE ~DataLink
    <3>1. r = ActionTLU(q)  BY <2>1, <2>3 DEF ActionREGISTERED
    <3> QED  BY <1>1, <3>1, TluFine
  <2> QED  BY <2>2, <2>3
<1>7. CASE a = "LD_C1_LOG"
  <2>1. PICK p \in Handle : p = Return(q) /\ SameNext(q, p)  BY ReturnType
  <2>2. r = ActionLD_C1_LOG(p, how)  BY <1>1, <1>7, <2>1 DEF Effect, Never
  <2>3. CASE how = "disabled"
    <3>1. r = Fail(p)  BY <2>2, <2>3 DEF ActionLD_C1_LOG
    <3> QED  BY <1>1, <2>1, <3>1, FailType DEF Fine, SameNext, SameCore, Same, Handle
  <2>4. CASE how # "disabled"
    <3>1. PICK s \in State : r = [p EXCEPT !.next = s]
          BY <2>2, <2>4 DEF ActionLD_C1_LOG, State, Waiting
    <3>2. r \in Handle /\ SameCore(q, r)
          BY <2>1, <3>1, NextType DEF SameNext, SameCore, Same
    <3> QED  BY <1>1, <3>2, CoreIsFine
  <2> QED  BY <2>3, <2>4
<1>8. CASE a = "TLU"
  <2>1. r = ActionTLU(q)  BY <1>1, <1>8 DEF Effect, Never
  <2> QED  BY <1>1, <2>1, TluFine
<1>9. CASE a \in {"TLD", "IOERR"}
  <2>1. r = ActionTLD(q)  BY <1>1, <1>9 DEF Effect, Never
  <2>2. Fine(q, r)  BY <2>1, TldType DEF Fine, Same, Handle
  <2> QED  BY <1>1, <1>9, <2>2 DEF Quiet
<1>10. CASE a = "WATCHDOG"
  <2>1. r = Fail(q)  BY <1>1, <1>10 DEF Effect, Never
  <2> QED  BY <1>1, <2>1, FailType DEF Fine, Same, Handle
<1>11. CASE a = "REGERR"
  <2>1. PICK p \in Handle : p = Return(q) /\ SameNext(q, p)  BY ReturnType
  <2>2. r = Fail(p)  BY <1>1, <1>11, <2>1 DEF Effect, Never
  <2> QED  BY <1>1, <2>1, <2>2, FailType DEF Fine, SameNext, SameCore, Same, Handle
<1>12. CASE a = "APPCMD"
  <2>1. r = ActionAPPCMD(q)  BY <1>1, <1>12 DEF Effect, Never
  <2> QED  BY <1>1, <2>1, AppcmdType, CoreIsFine DEF SameNext
<1>13. CASE a = "DATA"
  <2>1. r = ActionTLD(q) \/ r = Return(q)  BY <1>1, <1>13 DEF Effect, Never
  <2>2. Fine(q, ActionTLD(q))  BY TldType DEF Fine, Same, Handle
  <2>3. Fine(q, Return(q))  BY ReturnType, CoreIsFine DEF SameNext
  <2> QED  BY <1>1, <1>13, <2>1, <2>2, <2>3 DEF Quiet
<1>14. CASE a \in {"CERR", "CACK", "CTRL"}
  <2>1. PICK p \in Handle : p = Return(q) /\ SameNext(q, p)  BY ReturnType
  <2>2. r = Answer(p) \/ r = q \/ r = p
        BY <1>1, <1>14, <2>1 DEF Effect, ActionReply, Never
  <2>3. r \in Handle /\ SameCore(q, r)
        BY <2>1, <2>2, AnswerType DEF SameNext, SameCore, Same
  <2> QED  BY <1>1, <2>3, CoreIsFine
<1> QED
  BY <1>2, <1>3, <1>4, <1>5, <1>6, <1>7, <1>8, <1>9, <1>10, <1>11, <1>12, <1>13, <1>14
     DEF ActionName

-----------------------------------------------------------------------------
(* The table.                                                                 *)

CodeName == CtrlPacket \cup DataPacket \cup
            {"CTO", "DTO", "CRCERR", "IOERR", "UP", "OFF", "APPCMD", "HBEAT", "WATCHDOG"}

\* What a list of the table can be.
Loud(list) == \A i \in DOMAIN list : list[i] \in ActionName \ Quiet
Listed(list) == \/ Loud(list)
                \/ list \in {<<"TLD">>, <<"IOERR">>, <<"DATA", "SEND">>}

LEMMA LoudLists ==
  /\ Loud(<<>>)
  /\ \A a \in ActionName \ Quiet : Loud(<<a>>)
  /\ \A a, b \in ActionName \ Quiet : Loud(<<a, b>>)
  /\ \A a, b, c \in ActionName \ Quiet : Loud(<<a, b, c>>)
BY DEF Loud

LEMMA ReceivedLoud == ASSUME NEW s \in Waiting PROVE Loud(Received(s))
BY LoudLists DEF Waiting, Received, ActionName, Quiet, Never

LEMMA HandshakeLoud ==
  ASSUME NEW s \in Unasked \cup Waiting, NEW e \in CodeName
  PROVE  Loud(HandshakeActions(s, e))
<1>1. \A a \in {"WATCHDOG", "SEND", "LD_TOKENS", "REGERR", "SRVRQ", "DROP"} :
        a \in ActionName \ Quiet
      BY DEF ActionName, Quiet
<1>2. \/ HandshakeActions(s, e) \in
           {<<>>, <<"WATCHDOG">>, <<"SEND">>, <<"LD_TOKENS", "SEND">>, <<"REGERR">>,
            <<"SRVRQ">>, <<"DROP">>}
      \/ s \in Waiting /\ HandshakeActions(s, e) = Received(s)
      BY DEF HandshakeActions
<1> QED  BY <1>1, <1>2, LoudLists, ReceivedLoud

LEMMA ReadyListed ==
  ASSUME NEW e \in CodeName \ {"UP", "OFF", "IOERR"}
  PROVE  Listed(ReadyActions(e))
<1>1. \A a \in {"FLUSH", "START", "SRVRQ", "CERR", "CACK", "CTRL", Never, "APPCMD", "SEND",
                "FILL", "DROP"} :
        a \in ActionName \ Quiet
      BY DEF ActionName, Quiet, Never
<1>2. ReadyActions(e) \in
        {<<"FLUSH", "START", "SRVRQ">>, <<"CERR">>, <<"CACK">>, <<"CTRL">>, <<Never>>,
         <<"APPCMD">>, <<"DATA", "SEND">>, <<"FILL", "SEND", Never>>,
         <<"DROP", "SEND", Never>>, <<"SEND">>}
      BY DEF ReadyActions, CodeName, CtrlPacket, DataPacket
<1> QED  BY <1>1, <1>2, LoudLists DEF Listed

LEMMA ActionsListed ==
  ASSUME NEW s \in State, NEW e \in CodeName
  PROVE  Listed(Actions(s, e))
<1>1. \A a \in {"START", "SRVRQ", "SEND", Never} : a \in ActionName \ Quiet
      BY DEF ActionName, Quiet, Never
<1>2. CASE s = "READY" /\ e \notin {"UP", "OFF", "IOERR"}
  <2>1. Actions(s, e) = ReadyActions(e)  BY <1>2 DEF Actions
  <2> QED  BY <1>2, <2>1, ReadyListed
<1>3. CASE s \in Unasked \cup Waiting /\ e \notin {"UP", "OFF", "IOERR"}
  <2>1. Actions(s, e) = HandshakeActions(s, e)  BY <1>3 DEF Actions, Unasked, Waiting
  <2> QED  BY <1>3, <2>1, HandshakeLoud DEF Listed
<1>4. CASE s = "OFF" \/ e \in {"UP", "OFF", "IOERR"}
  <2>1. Actions(s, e) \in {<<Never>>, <<"START", "SEND">>, <<"START", "SRVRQ">>, <<"TLD">>,
                           <<"IOERR">>}
        BY <1>4 DEF Actions
  <2> QED  BY <1>1, <2>1, LoudLists DEF Listed
<1> QED  BY <1>2, <1>3, <1>4 DEF State

LEMMA NextStateType ==
  ASSUME NEW s \in State, NEW e
  PROVE  NextState(s, e) \in State \cup {"nochange", Never}
<1>1. s \in Waiting => After(s) \in State \cup {Never}
      BY DEF After, Waiting, State, Unasked
<1>2. \/ NextState(s, e) \in {"WAITSN", "RQSRV", Never, "nochange"}
      \/ s \in Waiting /\ NextState(s, e) = After(s)
      BY DEF NextState
<1> QED  BY <1>1, <1>2 DEF State, Waiting

-----------------------------------------------------------------------------
(* An event is handled.                                                       *)

LEMMA ChangeStateType ==
  ASSUME NEW q \in Handle
  PROVE  /\ ChangeState(q) \in Handle /\ Same(q, ChangeState(q))
         /\ ChangeState(q).tld = q.tld /\ ChangeState(q).failed = q.failed
         /\ ChangeState(q).state = IF q.next = "nochange" THEN q.state
                                   ELSE IF q.next = Never THEN "OFF" ELSE q.next
<1>1. PICK s : s = CASE q.next = "nochange" -> q.state
                     [] q.next \in State -> q.next
                     [] q.next = Never -> "OFF"
      OBVIOUS
<1>2. s \in State /\ s = IF q.next = "nochange" THEN q.state
                         ELSE IF q.next = Never THEN "OFF" ELSE q.next
      BY <1>1 DEF Handle, State, Unasked, Waiting, Never
<1>3. PICK a : a = [q EXCEPT !.state = s]  OBVIOUS
<1>4. PICK b : b = [a EXCEPT !.next = "nochange"]  OBVIOUS
<1>5. a \in Handle /\ Same(q, a) /\ a.tld = q.tld /\ a.failed = q.failed /\ a.state = s
      BY <1>2, <1>3 DEF Handle, Same
<1>6. b \in Handle /\ SameCore(a, b)  BY <1>4, <1>5, NextType
<1>7. ChangeState(q) = b  BY <1>1, <1>3, <1>4 DEF ChangeState, Handle
<1> QED  BY <1>2, <1>5, <1>6, <1>7 DEF SameCore, Same

LEMMA FineTrans ==
  ASSUME NEW p \in Handle, NEW q, NEW r, Fine(p, q), Fine(q, r)
  PROVE  /\ r \in Handle
         /\ r.nthread = p.nthread /\ r.open = p.open /\ r.early = p.early /\ r.state = p.state
         /\ r.automaton + p.ups = p.automaton + r.ups
BY DEF Fine, Handle

LEMMA PerformFine ==
  ASSUME NEW q \in Handle, NEW list, NEW i, NEW how, Listed(list)
  PROVE  Fine(q, Perform(list, i, how, q))
<1>1. Fine(q, q)  BY CoreIsFine DEF SameCore, Same
<1>2. CASE i \in DOMAIN list /\ (i = 1 \/ ~q.failed)
  <2>1. list[i] \in ActionName
    <3>1. /\ <<"TLD">>[1] \in ActionName /\ <<"IOERR">>[1] \in ActionName
          /\ <<"DATA", "SEND">>[1] \in ActionName /\ <<"DATA", "SEND">>[2] \in ActionName
          BY DEF ActionName
    <3> QED  BY <1>2, <3>1 DEF Listed, Loud
  <2> QED  BY <1>2, <2>1, EffectFine DEF Perform
<1> QED  BY <1>1, <1>2 DEF Perform

\* After a list of actions, the machine goes off if it was taken down.
DownIsOff(q) == q.tld \/ q.failed => q.next = "OFF"

LEMMA ListDown ==
  ASSUME NEW q \in Handle, ~q.tld, ~q.failed, NEW list, NEW how, Listed(list),
         NEW a, a = Perform(list, 1, how, q), NEW b, b = Perform(list, 2, how, a),
         NEW c, c = Perform(list, 3, how, b)
  PROVE  DownIsOff(c)
<1>1. Fine(q, a) /\ Fine(a, b) /\ Fine(b, c) /\ a \in Handle /\ b \in Handle /\ c \in Handle
  <2>1. Fine(q, a) /\ a \in Handle  BY PerformFine DEF Fine
  <2>2. Fine(a, b) /\ b \in Handle  BY <2>1, PerformFine DEF Fine
  <2> QED  BY <2>1, <2>2, PerformFine DEF Fine
<1>2. CASE list \in {<<"TLD">>, <<"IOERR">>}
  <2>1. 2 \notin DOMAIN list /\ 3 \notin DOMAIN list  BY <1>2
  <2>2. b = a /\ c = b  BY <2>1 DEF Perform
  <2> QED  BY <1>1, <2>2 DEF Fine, DownIsOff
<1>3. CASE list = <<"DATA", "SEND">>
  <2>1. 3 \notin DOMAIN list /\ list[2] = "SEND"  BY <1>3
  <2>2. b = a /\ c = b  BY <2>1 DEF Perform, Effect, Never
  <2> QED  BY <1>1, <2>2 DEF Fine, DownIsOff
<1>4. CASE Loud(list)
  <2>1. ASSUME NEW p \in Handle, NEW i, i # 1 \/ ~p.failed, p.tld => p.failed, DownIsOff(p),
               NEW r, r = Perform(list, i, how, p)
        PROVE  (r.tld => r.failed) /\ DownIsOff(r)
    <3>1. CASE i \in DOMAIN list /\ ~p.failed
      <4>1. r = Effect(list[i], how, p) /\ list[i] \in ActionName \ Quiet
            BY <1>4, <2>1, <3>1 DEF Perform, Loud
      <4>2. ~p.tld /\ ~p.failed  BY <2>1, <3>1
      <4>3. Fine(p, r) /\ (r.tld => r.failed)  BY <4>1, <4>2, EffectFine
      <4> QED  BY <4>2, <4>3 DEF Fine, DownIsOff
    <3>2. CASE ~(i \in DOMAIN list /\ ~p.failed)
      <4>1. r = p  BY <2>1, <3>2 DEF Perform
      <4> QED  BY <2>1, <4>1
    <3> QED  BY <3>1, <3>2
  <2>2. (a.tld => a.failed) /\ DownIsOff(a)  BY <2>1 DEF DownIsOff
  <2>3. (b.tld => b.failed) /\ DownIsOff(b)  BY <1>1, <2>1, <2>2
  <2> QED  BY <1>1, <2>1, <2>3
<1> QED  BY <1>2, <1>3, <1>4 DEF Listed

\* The counts go together, a machine that is off stays off, and one that is
\* taken down goes off.
LEMMA Handled ==
  ASSUME NEW q \in Handle, NEW code \in CodeName, NEW how,
         NEW r, r = EventHandler(q, code, how)
  PROVE  /\ r \in Handle
         /\ r.nthread = q.nthread /\ r.open = q.open /\ r.early = q.early
         /\ r.automaton + q.ups = q.automaton + r.ups
         /\ q.state = "OFF" => r.state = "OFF"
         /\ ~q.tld /\ ~q.failed /\ (r.tld \/ r.failed) => r.state = "OFF"
<1>1. PICK list : list = Actions(q.state, code)  OBVIOUS
<1>2. PICK s : s = NextState(q.state, code)  OBVIOUS
<1>3. PICK p : p = [q EXCEPT !.next = s]  OBVIOUS
<1>4. PICK a : a = Perform(list, 1, how, p)  OBVIOUS
<1>5. PICK b : b = Perform(list, 2, how, a)  OBVIOUS
<1>6. PICK c : c = Perform(list, 3, how, b)  OBVIOUS
<1>7. r = ChangeState(c)  BY <1>1, <1>2, <1>3, <1>4, <1>5, <1>6 DEF EventHandler
<1>8. q.state \in State  BY DEF Handle
<1>9. Listed(list) /\ s \in State \cup {"nochange", Never}
      BY <1>1, <1>2, <1>8, ActionsListed, NextStateType
<1>10. p \in Handle /\ SameCore(q, p) /\ p.next = s  BY <1>3, <1>9, NextType
<1>11. Fine(p, a) /\ a \in Handle  BY <1>4, <1>9, <1>10, PerformFine DEF Fine
<1>12. Fine(a, b) /\ b \in Handle  BY <1>5, <1>9, <1>11, PerformFine DEF Fine
<1>13. Fine(b, c) /\ c \in Handle  BY <1>6, <1>9, <1>12, PerformFine DEF Fine
<1>14. /\ c.nthread = q.nthread /\ c.open = q.open /\ c.early = q.early /\ c.state = q.state
       /\ c.automaton + q.ups = q.automaton + c.ups
       BY <1>10, <1>11, <1>12, <1>13 DEF Fine, SameCore, Same, Handle
<1>15. /\ r \in Handle /\ Same(c, r) /\ r.tld = c.tld /\ r.failed = c.failed
       /\ r.state = IF c.next = "nochange" THEN c.state
                    ELSE IF c.next = Never THEN "OFF" ELSE c.next
       BY <1>7, <1>13, ChangeStateType
<1>16. ASSUME q.state = "OFF" PROVE r.state = "OFF"
  <2>1. list = <<Never>>  BY <1>1, <1>16 DEF Actions
  <2>2. s \in {"nochange", Never}  BY <1>2, <1>16 DEF NextState, Waiting
  <2>3. 2 \notin DOMAIN list /\ 3 \notin DOMAIN list /\ 1 \in DOMAIN list /\ list[1] = Never
        BY <2>1
  <2>4. b = a /\ c = b  BY <1>5, <1>6, <2>3 DEF Perform
  <2>5. a = p \/ a = [p EXCEPT !.next = "OFF"]
        BY <1>4, <2>3 DEF Perform, Effect, Never
  <2>6. a.next = s \/ a.next = "OFF"  BY <1>10, <2>5, NextType DEF State
  <2> QED  BY <1>14, <1>15, <1>16, <2>2, <2>4, <2>6 DEF Never
<1>17. ASSUME ~q.tld, ~q.failed, r.tld \/ r.failed PROVE r.state = "OFF"
  <2>1. ~p.tld /\ ~p.failed  BY <1>10, <1>17 DEF SameCore
  <2>2. DownIsOff(c)  BY <1>4, <1>5, <1>6, <1>9, <1>10, <2>1, ListDown
  <2> QED  BY <1>15, <1>17, <2>2 DEF DownIsOff, Never
<1> QED  BY <1>14, <1>15, <1>16, <1>17 DEF Same

\* Before it is asked to come up the machine stays as it is, or goes off.
LEMMA HandledUnasked ==
  ASSUME NEW q \in Handle, q.state \in Unasked, ~q.tld, ~q.failed,
         NEW code \in CodeName \ {"UP", "OFF"}, NEW how,
         NEW r, r = EventHandler(q, code, how), r.state # "OFF"
  PROVE  r.state = q.state /\ Same(q, r) /\ ~r.tld /\ ~r.failed
<1>1. PICK list : list = Actions(q.state, code)  OBVIOUS
<1>2. PICK s : s = NextState(q.state, code)  OBVIOUS
<1>3. PICK p : p = [q EXCEPT !.next = s]  OBVIOUS
<1>4. PICK a : a = Perform(list, 1, how, p)  OBVIOUS
<1>5. PICK b : b = Perform(list, 2, how, a)  OBVIOUS
<1>6. PICK c : c = Perform(list, 3, how, b)  OBVIOUS
<1>7. r = ChangeState(c)  BY <1>1, <1>2, <1>3, <1>4, <1>5, <1>6 DEF EventHandler
<1>8. list \in {<<>>, <<"DROP">>, <<"IOERR">>}
      BY <1>1 DEF Actions, HandshakeActions, Unasked, Waiting, Registered
<1>9. s \in {"nochange", Never}
      BY <1>2 DEF NextState, Unasked, Waiting
<1>10. p \in Handle /\ SameCore(q, p) /\ p.next = s  BY <1>3, <1>9, NextType
<1>11. 2 \notin DOMAIN list /\ 3 \notin DOMAIN list  BY <1>8
<1>12. c = a  BY <1>5, <1>6, <1>11 DEF Perform
<1>13. a = p \/ a = Return(p) \/ a = ActionTLD(p)
  <2>1. CASE list = <<>>  BY <1>4, <2>1 DEF Perform
  <2>2. CASE list = <<"DROP">>  BY <1>4, <2>2 DEF Perform, Effect, Never
  <2>3. CASE list = <<"IOERR">>  BY <1>4, <2>3 DEF Perform, Effect, Never
  <2> QED  BY <1>8, <2>1, <2>2, <2>3
<1>14. a \in Handle  BY <1>10, <1>13, ReturnType, TldType
<1>15. /\ Same(c, r) /\ r.tld = c.tld /\ r.failed = c.failed
       /\ r.state = IF c.next = "nochange" THEN c.state
                    ELSE IF c.next = Never THEN "OFF" ELSE c.next
       BY <1>7, <1>12, <1>14, ChangeStateType
<1>16. CASE a = ActionTLD(p)
  <2>1. a.next = "OFF"  BY <1>10, <1>16, TldType
  <2> QED  BY <1>12, <1>15, <2>1 DEF Never
<1>17. CASE a = p \/ a = Return(p)
  <2>1. SameNext(p, a)  BY <1>10, <1>17, ReturnType DEF SameNext, SameCore, Same
  <2> QED  BY <1>9, <1>10, <1>12, <1>15, <2>1 DEF SameNext, SameCore, Same
<1> QED  BY <1>13, <1>16, <1>17

-----------------------------------------------------------------------------
(* The threads.                                                               *)

\* What a thread's step comes to: it goes on, it ends, or it begins.
Quietly == /\ proc = "live" /\ caller' = caller
           /\ event' \in EventName /\ (event' \in {"UP", "OFF"} => event' = event)

Goes ==
  /\ Quietly /\ proc' \in {"live", "crashed"}
  /\ qp' \in Handle /\ SameCore(qp, qp')
  /\ \E t \in Thread, p \in Working :
       pc[t] \in Working /\ (pc' = pc \/ pc' = [pc EXCEPT ![t] = p])

Leaves ==
  /\ Quietly /\ proc' = proc
  /\ Down
  /\ \E r \in Handle : SameCore(qp, r) /\ qp' = Exit(r)
  /\ \E t \in Thread : pc[t] \in Working /\ pc' = [pc EXCEPT ![t] = "dead"]

Begins ==
  /\ proc = "live" /\ UNCHANGED <<event, caller, proc>>
  /\ qp' = [qp EXCEPT !.nthread = @ + 1, !.automaton = @ + 1]
  /\ \E t \in Thread, p \in Working : pc[t] = "created" /\ pc' = [pc EXCEPT ![t] = p]

LEMMA SameSelf == ASSUME NEW q PROVE SameCore(q, q)
BY DEF SameCore, Same

LEMMA Staying ==
  ASSUME MType, NEW t \in Thread, pc[t] \in Working, proc = "live",
         qp' = qp, UNCHANGED <<caller, proc>>,
         event' \in EventName, event' \in {"UP", "OFF"} => event' = event,
         NEW p \in Working, pc' = [pc EXCEPT ![t] = p]
  PROVE  Goes
BY SameSelf DEF Goes, Quietly, MType

LEMMA Leaving ==
  ASSUME MType, NEW t \in Thread, pc[t] \in Working, proc = "live", Down,
         TerminateSelf(t), UNCHANGED <<caller, proc>>,
         event' \in EventName, event' \in {"UP", "OFF"} => event' = event
  PROVE  Leaves
<1>1. qp \in Handle /\ SameCore(qp, qp)  BY SameSelf DEF MType
<1> QED  BY <1>1 DEF Leaves, Quietly, TerminateSelf, Place

LEMMA PostsStep ==
  ASSUME MType, NEW t \in Thread, NEW before \in Working, NEW to \in Working,
         NEW e \in EventName \ {"UP", "OFF"}, Posts(t, before, e, to)
  PROVE  Goes \/ Leaves
<1>1. proc = "live" /\ pc[t] = before /\ UNCHANGED <<caller, proc>>  BY DEF Posts, Runs
<1>2. CASE PostEvent(e) /\ Place(t, to) /\ UNCHANGED qp
  BY <1>1, <1>2, Staying DEF PostEvent, Place
<1>3. CASE PostRefused /\ TerminateSelf(t)
  <2>1. Down /\ event' = event /\ event \in EventName  BY <1>3 DEF PostRefused, Down, MType
  <2> QED  BY <1>1, <1>3, <2>1, Leaving
<1> QED  BY <1>2, <1>3 DEF Posts

LEMMA BeginStep ==
  ASSUME NEW t \in Thread, NEW p \in Working, Begin(t, p)
  PROVE  Begins
BY DEF Begin, Begins, Runs, Place

LEMMA PortStep ==
  ASSUME MType, NEW t \in Thread, TakeBuffer(t) \/ RecvPkt(t) \/ RecvNothing(t)
  PROVE  Goes \/ Leaves
<1>1. "listen" \in Working /\ "packet" \in Working /\ "nothing" \in Working
      /\ "ready" \in Working
      BY DEF Working
<1>2. proc = "live" /\ pc[t] \in Working /\ UNCHANGED <<event, caller, proc>>
      /\ event \in EventName /\ qp \in Handle
      BY <1>1 DEF TakeBuffer, RecvPkt, RecvNothing, Runs, MType
<1>3. CASE TakeBuffer(t)
  <2>1. qp' = [qp EXCEPT !.heap = @ - 1] /\ pc' = [pc EXCEPT ![t] = "listen"]
        BY <1>3 DEF TakeBuffer, Place
  <2>2. qp' \in Handle /\ SameCore(qp, qp')  BY <1>2, <2>1 DEF Handle, SameCore, Same
  <2> QED  BY <1>1, <1>2, <2>1, <2>2 DEF Goes, Quietly
<1>4. CASE RecvPkt(t)
  <2>1. CASE Down  BY <1>2, <1>4, <2>1, Leaving DEF RecvPkt
  <2>2. CASE ~Down  BY <1>1, <1>2, <1>4, <2>2, Staying DEF RecvPkt, Place
  <2> QED  BY <2>1, <2>2
<1>5. CASE RecvNothing(t)
  <2>1. PICK r \in Handle : r = Return(qp) /\ SameCore(qp, r)
        BY <1>2, ReturnType DEF SameNext
  <2>2. CASE Down
    <3>1. pc' = [pc EXCEPT ![t] = "dead"] /\ qp' = Exit(r)
          BY <1>5, <2>1, <2>2 DEF RecvNothing, Place
    <3> QED  BY <1>2, <2>1, <2>2, <3>1 DEF Leaves, Quietly
  <2>3. CASE ~Down
    <3>1. pc' = [pc EXCEPT ![t] = "nothing"] /\ qp' = r
          BY <1>5, <2>1, <2>3 DEF RecvNothing, Place
    <3> QED  BY <1>1, <1>2, <2>1, <3>1 DEF Goes, Quietly
  <2> QED  BY <2>2, <2>3
<1> QED  BY <1>3, <1>4, <1>5

LEMMA EventStep ==
  ASSUME MType, "Event" \in Thread, EventThread
  PROVE  \/ Goes \/ Leaves \/ Begins
         \/ \E code \in Codes(event) : \E how \in How(code) : HandleEvent(code, how)
<1>1. CASE Begin("Event", "ready")  BY <1>1, BeginStep DEF Working
<1>2. CASE FreeEvent
  <2>1. /\ proc = "live" /\ pc["Event"] = "handled" /\ UNCHANGED <<caller, proc>>
        /\ event' = NoEvent /\ event' \in EventName /\ event' \notin {"UP", "OFF"}
        BY <1>2 DEF FreeEvent, Runs, EventName, NoEvent
  <2>2. "handled" \in Working /\ "ready" \in Working  BY DEF Working
  <2>3. CASE Off
    <3>1. TerminateSelf("Event") /\ Down  BY <1>2, <2>3 DEF FreeEvent, Down
    <3> QED  BY <2>1, <2>2, <3>1, Leaving
  <2>4. CASE ~Off
    <3>1. pc' = [pc EXCEPT !["Event"] = "ready"] /\ qp' = qp  BY <1>2, <2>4 DEF FreeEvent, Place
    <3> QED  BY <2>1, <2>2, <3>1, Staying
  <2> QED  BY <2>3, <2>4
<1> QED  BY <1>1, <1>2 DEF EventThread

LEMMA CtrlStep == ASSUME MType, "Ctrl" \in Thread, CtrlThread PROVE Goes \/ Leaves \/ Begins
<1>1. /\ "packet" \in Working /\ "nothing" \in Working /\ "ready" \in Working
      /\ "ctrl packet" \in EventName \ {"UP", "OFF"}
      /\ "ctrl nothing" \in EventName \ {"UP", "OFF"}
      BY DEF Working, EventName
<1> QED  BY <1>1, BeginStep, PortStep, PostsStep DEF CtrlThread

LEMMA DataStep == ASSUME MType, "Data" \in Thread, DataThread PROVE Goes \/ Leaves \/ Begins
<1>1. /\ "packet" \in Working /\ "nothing" \in Working /\ "ready" \in Working
      /\ "data packet" \in EventName \ {"UP", "OFF"}
      /\ "data nothing" \in EventName \ {"UP", "OFF"}
      BY DEF Working, EventName
<1> QED  BY <1>1, BeginStep, PortStep, PostsStep DEF DataThread

LEMMA AppcmdStep ==
  ASSUME MType, "Appcmd" \in Thread, AppcmdThread \/ PrepareCmd
  PROVE  Goes \/ Leaves \/ Begins
<1>1. /\ "packet" \in Working /\ "taken" \in Working /\ "ready" \in Working
      /\ "cleared" \in Working /\ "APPCMD" \in EventName \ {"UP", "OFF"}
      BY DEF Working, EventName
<1>2. qp \in Handle /\ event \in EventName  BY DEF MType
<1>3. CASE Begin("Appcmd", "ready")  BY <1>1, <1>3, BeginStep
<1>4. CASE TakeCmd
  <2>1. PICK a : a = [qp EXCEPT !.cmd = "unsent"]  OBVIOUS
  <2>2. PICK b : b = [a EXCEPT !.cmdfull = "none"]  OBVIOUS
  <2>3. a \in Handle /\ SameCore(qp, a)  BY <1>2, <2>1 DEF Handle, SameCore, Same
  <2>4. b \in Handle /\ SameCore(a, b)  BY <2>2, <2>3 DEF Handle, SameCore, Same
  <2>5. qp' = b /\ pc' = [pc EXCEPT !["Appcmd"] = "taken"]
        BY <1>4, <2>1, <2>2 DEF TakeCmd, Place
  <2>6. SameCore(qp, b)  BY <2>3, <2>4 DEF SameCore, Same
  <2> QED  BY <1>1, <1>2, <1>4, <2>4, <2>5, <2>6 DEF Goes, Quietly, TakeCmd, Runs
<1>5. CASE ClearAttempts
  <2>1. proc = "live" /\ pc["Appcmd"] = "taken" /\ UNCHANGED <<event, caller, proc>>
        BY <1>5 DEF ClearAttempts, Runs
  <2>2. CASE qp.tld
    <3>1. TerminateSelf("Appcmd") /\ Down  BY <1>5, <2>2 DEF ClearAttempts, Down
    <3> QED  BY <1>1, <1>2, <2>1, <3>1, Leaving
  <2>3. CASE ~qp.tld
    <3>1. qp' = [qp EXCEPT !.attempts = 0] /\ pc' = [pc EXCEPT !["Appcmd"] = "cleared"]
          BY <1>5, <2>3 DEF ClearAttempts, Place
    <3>2. qp' \in Handle /\ SameCore(qp, qp')  BY <1>2, <3>1 DEF Handle, SameCore, Same
    <3> QED  BY <1>1, <1>2, <2>1, <3>1, <3>2 DEF Goes, Quietly
  <2> QED  BY <2>2, <2>3
<1>6. CASE PrepareCmd
  <2>1. /\ proc = "live" /\ pc["Appcmd"] = "cleared" /\ UNCHANGED <<qp, event, caller>>
        /\ proc' \in {"live", "crashed"}
        /\ pc' = pc \/ pc' = [pc EXCEPT !["Appcmd"] = "packet"]
        BY <1>6 DEF PrepareCmd, Runs, Place
  <2> QED  BY <1>1, <1>2, <2>1, SameSelf DEF Goes, Quietly
<1>7. CASE Posts("Appcmd", "packet", "APPCMD", "ready")  BY <1>1, <1>7, PostsStep
<1> QED  BY <1>3, <1>4, <1>5, <1>6, <1>7 DEF AppcmdThread

LEMMA HeartbeatStep ==
  ASSUME MType, "Heartbeat" \in Thread, HeartbeatThread PROVE Goes \/ Leaves \/ Begins
<1>1. /\ "packet" \in Working /\ "ready" \in Working /\ "HBEAT" \in EventName \ {"UP", "OFF"}
      BY DEF Working, EventName
<1>2. CASE Beat
  <2>1. /\ proc = "live" /\ pc["Heartbeat"] = "ready" /\ UNCHANGED <<event, caller, proc>>
        /\ event \in EventName
        BY <1>2 DEF Beat, Runs, MType
  <2>2. CASE Down  BY <1>1, <1>2, <2>1, <2>2, Leaving DEF Beat
  <2>3. CASE ~Down  BY <1>1, <1>2, <2>1, <2>3, Staying DEF Beat, Place
  <2> QED  BY <2>2, <2>3
<1> QED  BY <1>1, <1>2, BeginStep, PostsStep DEF HeartbeatThread

LEMMA WatchdogStep ==
  ASSUME MType, "Watchdog" \in Thread, WatchdogThread PROVE Goes \/ Leaves \/ Begins
<1>1. /\ "packet" \in Working /\ "ready" \in Working /\ "asleep" \in Working
      /\ "WATCHDOG" \in EventName \ {"UP", "OFF"}
      BY DEF Working, EventName
<1>2. event \in EventName /\ qp \in Handle  BY DEF MType
<1>3. CASE Begin("Watchdog", "ready")  BY <1>1, <1>3, BeginStep
<1>4. CASE WakeWatchdog
  <2>1. proc = "live" /\ pc["Watchdog"] = "ready" /\ UNCHANGED <<event, caller, proc>>
        BY <1>4 DEF WakeWatchdog, Runs
  <2>2. PICK r : r = [qp EXCEPT !.watchdog = @ - 1]  OBVIOUS
  <2>3. r \in Handle /\ SameCore(qp, r)  BY <1>2, <2>2 DEF Handle, SameCore, Same
  <2>4. CASE qp.tld
    <3>1. pc' = [pc EXCEPT !["Watchdog"] = "dead"] /\ qp' = Exit(r) /\ Down
          BY <1>4, <2>2, <2>4 DEF WakeWatchdog, Place, Down
    <3> QED  BY <1>1, <1>2, <2>1, <2>3, <3>1 DEF Leaves, Quietly
  <2>5. CASE ~qp.tld
    <3>1. pc' = [pc EXCEPT !["Watchdog"] = "asleep"] /\ qp' = r
          BY <1>4, <2>2, <2>5 DEF WakeWatchdog, Place
    <3> QED  BY <1>1, <1>2, <2>1, <2>3, <3>1 DEF Goes, Quietly
  <2> QED  BY <2>4, <2>5
<1>5. CASE WatchdogExpires
  <2>1. proc = "live" /\ pc["Watchdog"] = "asleep" /\ UNCHANGED <<event, caller, proc>>
        BY <1>5 DEF WatchdogExpires, Runs
  <2>2. CASE Down  BY <1>1, <1>2, <1>5, <2>1, <2>2, Leaving DEF WatchdogExpires
  <2>3. CASE ~Down
    <3>1. PICK p \in Working : pc' = [pc EXCEPT !["Watchdog"] = p] /\ qp' = qp
          BY <1>1, <1>5, <2>3 DEF WatchdogExpires, Place
    <3> QED  BY <1>1, <1>2, <2>1, <3>1, Staying
  <2> QED  BY <2>2, <2>3
<1>6. CASE PostWatchdog
  <2>1. /\ proc = "live" /\ pc["Watchdog"] = "packet" /\ UNCHANGED <<qp, caller, proc>>
        /\ pc' = [pc EXCEPT !["Watchdog"] = "ready"]
        /\ event' = event \/ event' = "WATCHDOG"
        BY <1>6 DEF PostWatchdog, Runs, Place, PostEvent, PostRefused
  <2> QED  BY <1>1, <1>2, <2>1, Staying
<1> QED  BY <1>3, <1>4, <1>5, <1>6 DEF WatchdogThread

-----------------------------------------------------------------------------
(* The invariant, step by step.                                               *)

\* What the invariant says of a machine that did not go off before it was asked
\* to come up.
MachineSound ==
  /\ EndsOff /\ StillOpen
  /\ caller.at \in Starting => StartingInv
  /\ caller.at \notin Starting /\ caller.started = Len(Started) => StartedInv

LEMMA MInvParts == MInv <=> MType /\ CountedInv /\ OrderInv /\ (~qp.early => MachineSound)
BY DEF MInv, MachineSound

LEMMA ThreadsStarted ==
  /\ DOMAIN Started = 1..Len(Started) /\ Len(Started) \in Nat
  /\ \A i \in DOMAIN Started : Started[i] \in Thread
  /\ \A t \in Thread : \E i \in DOMAIN Started : Started[i] = t
  /\ \A i, j \in DOMAIN Started : Started[i] = Started[j] => i = j
  /\ "Event" \in Thread
<1>1. DOMAIN Started = 1..Len(Started) /\ Len(Started) \in Nat  BY MachineAssumption
<1>2. Thread = {Started[i] : i \in DOMAIN Started}  BY DEF Thread, Range
<1>3. \A i, j \in DOMAIN Started : Started[i] = Started[j] => i = j
      BY MachineAssumption DEF IsInjective
<1> QED  BY <1>1, <1>2, <1>3, MachineAssumption

\* Unless it has failed, a caller whose machine is not asked to come up yet has
\* threads to start, and every other one has started them all.
LEMMA StartedAll ==
  ASSUME MType, OrderInv, proc # "freed", caller.at \notin Starting
  PROVE  caller.started = Len(Started)
BY DEF OrderInv, Starting, MType

LEMMA InitialIsUnasked == initial \in Unasked /\ initial \in State /\ initial # "OFF"
BY DEF initial, Unasked, State

LEMMA GoesKeeps == ASSUME MInv, Goes PROVE MInv'
<1>1. PICK t \in Thread, p \in Working :
        pc[t] \in Working /\ (pc' = pc \/ pc' = [pc EXCEPT ![t] = p])
      BY DEF Goes
<1>2. MType /\ CountedInv /\ OrderInv /\ (~qp.early => MachineSound)  BY MInvParts
<1>3. /\ proc = "live" /\ proc' \in {"live", "crashed"} /\ caller' = caller
      /\ event' \in EventName /\ (event' \in {"UP", "OFF"} => event' = event)
      /\ qp' \in Handle /\ SameCore(qp, qp')
      BY DEF Goes, Quietly
<1>4. /\ pc' \in [Thread -> ThreadAt]
      /\ \A u \in Thread : pc'[u] = pc[u] \/ (pc[u] \in Working /\ pc'[u] \in Working)
  <2>1. pc \in [Thread -> ThreadAt] /\ p \in ThreadAt  BY <1>2 DEF MType, ThreadAt
  <2>2. CASE pc' = pc  BY <2>1, <2>2
  <2>3. CASE pc' = [pc EXCEPT ![t] = p]  BY <1>1, <2>1, <2>3
  <2> QED  BY <1>1, <2>2, <2>3
<1>5. MType'  BY <1>2, <1>3, <1>4 DEF MType
<1>6. Counted' = Counted  BY <1>4 DEF Counted
<1>7. CountedInv'  BY <1>2, <1>3, <1>6 DEF CountedInv, SameCore, Same
<1>8. \A u \in Thread, s \in {"none", "created", "dead"} : pc'[u] = s <=> pc[u] = s
      BY <1>4 DEF Working
<1>9. OrderInv'
  <2>1. \A i \in DOMAIN Started : pc'[Started[i]] = "none" <=> pc[Started[i]] = "none"
        BY <1>8, ThreadsStarted
  <2> QED  BY <1>2, <1>3, <2>1 DEF OrderInv, At
<1>10. ASSUME ~qp'.early PROVE MachineSound'
  <2>1. MachineSound  BY <1>2, <1>3, <1>10 DEF SameCore, Same
  <2>2. EndsOff'  BY <1>3, <1>8, <2>1 DEF MachineSound, EndsOff, SameCore, Off
  <2>3. StillOpen'  BY <1>3, <2>1 DEF MachineSound, StillOpen, SameCore, Same, At
  <2>4. ASSUME caller.at \in Starting PROVE StartingInv'
    <3>1. StartingInv  BY <2>1, <2>4 DEF MachineSound
    <3>2. \A u \in Thread : pc'[u] = "created" => At("launch") /\ u = Started[caller.started]
          BY <1>8, <3>1 DEF StartingInv
    <3>3. At("launch") => Started[caller.started] \in Thread
          BY <1>2, ThreadsStarted DEF OrderInv, MType
    <3>4. qp'.automaton = IF At("launch") /\ pc'[Started[caller.started]] # "created" THEN 1 ELSE 0
          BY <1>3, <1>8, <3>1, <3>3 DEF StartingInv, SameCore, Same
    <3> QED  BY <1>3, <3>1, <3>2, <3>4 DEF StartingInv, SameCore, Same, At
  <2>5. ASSUME StartedInv PROVE StartedInv'
    <3>1. \A u \in Thread : pc'[u] # "created"  BY <1>8, <2>5 DEF StartedInv
    <3>2. Waited' = Waited /\ Ended' = Ended
          BY <1>3 DEF Waited, Ended, At, SameCore, Same
    <3>3. qp'.automaton = qp.automaton /\ qp'.ups = qp.ups /\ qp'.open = qp.open
          BY <1>3 DEF SameCore, Same
    <3> QED  BY <1>6, <2>5, <3>1, <3>2, <3>3 DEF StartedInv
  <2> QED  BY <1>3, <2>1, <2>2, <2>3, <2>4, <2>5 DEF MachineSound
<1> QED  BY <1>5, <1>7, <1>9, <1>10 DEF MInv, MachineSound

LEMMA BeginsKeeps == ASSUME MInv, Begins PROVE MInv'
<1>1. PICK t \in Thread, p \in Working : pc[t] = "created" /\ pc' = [pc EXCEPT ![t] = p]
      BY DEF Begins
<1>2. MType /\ CountedInv /\ OrderInv /\ (~qp.early => MachineSound)  BY MInvParts
<1>3. /\ proc = "live" /\ UNCHANGED <<event, caller, proc>> /\ qp \in Handle
      /\ qp' = [qp EXCEPT !.nthread = @ + 1, !.automaton = @ + 1]
      BY <1>2 DEF Begins, MType
<1>4. /\ qp' \in Handle /\ qp'.nthread = qp.nthread + 1 /\ qp'.automaton = qp.automaton + 1
      /\ qp'.open = qp.open /\ qp'.early = qp.early /\ qp'.ups = qp.ups
      /\ qp'.state = qp.state /\ qp'.tld = qp.tld /\ qp'.failed = qp.failed
  <2>1. PICK a : a = [qp EXCEPT !.nthread = @ + 1]  OBVIOUS
  <2>2. PICK b : b = [a EXCEPT !.automaton = @ + 1]  OBVIOUS
  <2>3. /\ a \in Handle /\ a.nthread = qp.nthread + 1 /\ a.automaton = qp.automaton
        /\ a.open = qp.open /\ a.early = qp.early /\ a.ups = qp.ups
        /\ a.state = qp.state /\ a.tld = qp.tld /\ a.failed = qp.failed
        BY <1>3, <2>1 DEF Handle
  <2>4. /\ b \in Handle /\ b.nthread = a.nthread /\ b.automaton = a.automaton + 1
        /\ b.open = a.open /\ b.early = a.early /\ b.ups = a.ups
        /\ b.state = a.state /\ b.tld = a.tld /\ b.failed = a.failed
        BY <2>2, <2>3 DEF Handle
  <2>5. qp' = b  BY <1>3, <2>1, <2>2 DEF Handle
  <2> QED  BY <2>3, <2>4, <2>5
<1>5. pc' \in [Thread -> ThreadAt] /\ pc'[t] = p /\ \A u \in Thread \ {t} : pc'[u] = pc[u]
      BY <1>1, <1>2 DEF MType, ThreadAt
<1>6. MType'  BY <1>2, <1>3, <1>4, <1>5 DEF MType
<1>7. Counted' = Counted \cup {t} /\ t \notin Counted
      BY <1>1, <1>5 DEF Counted, Working
<1>8. CountedInv'  BY <1>2, <1>4, <1>7, FS_AddElement DEF CountedInv
<1>9. /\ \A u \in Thread : pc'[u] = "none" <=> pc[u] = "none"
      /\ \A u \in Thread : pc'[u] = "dead" <=> pc[u] = "dead"
      /\ \A u \in Thread : pc'[u] = "created" <=> pc[u] = "created" /\ u # t
      BY <1>1, <1>5 DEF Working
<1>10. OrderInv'
  <2>1. \A i \in DOMAIN Started : pc'[Started[i]] = "none" <=> pc[Started[i]] = "none"
        BY <1>9, ThreadsStarted
  <2> QED  BY <1>2, <1>3, <2>1 DEF OrderInv, At
<1>11. ASSUME ~qp'.early PROVE MachineSound'
  <2>1. MachineSound  BY <1>2, <1>4, <1>11
  <2>2. EndsOff'  BY <1>4, <1>9, <2>1 DEF MachineSound, EndsOff, Off
  <2>3. caller.at \in Starting
    <3>1. StartedInv => pc[t] # "created"  BY DEF StartedInv
    <3> QED  BY <1>1, <1>2, <1>3, <2>1, <3>1, StartedAll DEF MachineSound
  <2>4. StartingInv  BY <2>1, <2>3 DEF MachineSound
  <2>5. At("launch") /\ t = Started[caller.started]  BY <1>1, <2>4 DEF StartingInv
  <2>6. qp.automaton = 0 /\ qp'.automaton = 1  BY <1>1, <1>4, <2>4, <2>5 DEF StartingInv
  <2>7. pc'[Started[caller.started]] # "created" /\ \A u \in Thread : pc'[u] # "created"
        BY <1>9, <2>4, <2>5 DEF StartingInv
  <2>8. StartingInv'  BY <1>3, <1>4, <2>4, <2>5, <2>6, <2>7 DEF StartingInv, At
  <2>9. StillOpen'  BY <1>3, <1>4, <2>1 DEF MachineSound, StillOpen, At
  <2> QED  BY <1>3, <2>2, <2>3, <2>8, <2>9 DEF MachineSound
<1> QED  BY <1>6, <1>8, <1>10, <1>11 DEF MInv, MachineSound

LEMMA ExitType ==
  ASSUME NEW q \in Handle, q.nthread > 0
  PROVE  /\ Exit(q) \in Handle /\ Exit(q).nthread = q.nthread - 1
         /\ Exit(q).open = (q.nthread > 1 /\ q.open)
         /\ Exit(q).automaton = q.automaton + (IF q.nthread = 1 THEN 1 ELSE 0)
         /\ Exit(q).ups = q.ups /\ Exit(q).early = q.early
         /\ Exit(q).state = q.state /\ Exit(q).tld = q.tld /\ Exit(q).failed = q.failed
<1>1. q.nthread \in Nat /\ q.open \in BOOLEAN /\ q.automaton \in Nat  BY DEF Handle
<1>2. CASE q.nthread = 1
  <2>1. PICK a : a = [q EXCEPT !.nthread = 0]  OBVIOUS
  <2>2. PICK b : b = [a EXCEPT !.open = FALSE]  OBVIOUS
  <2>3. PICK c : c = [b EXCEPT !.automaton = @ + 1]  OBVIOUS
  <2>4. /\ a \in Handle /\ a.nthread = 0 /\ a.automaton = q.automaton
        /\ a.early = q.early /\ a.ups = q.ups
        /\ a.state = q.state /\ a.tld = q.tld /\ a.failed = q.failed
        BY <2>1 DEF Handle
  <2>5. /\ b \in Handle /\ b.nthread = a.nthread /\ b.automaton = a.automaton
        /\ b.open = FALSE /\ b.early = a.early /\ b.ups = a.ups
        /\ b.state = a.state /\ b.tld = a.tld /\ b.failed = a.failed
        BY <2>2, <2>4 DEF Handle
  <2>6. /\ c \in Handle /\ c.nthread = b.nthread /\ c.automaton = b.automaton + 1
        /\ c.open = b.open /\ c.early = b.early /\ c.ups = b.ups
        /\ c.state = b.state /\ c.tld = b.tld /\ c.failed = b.failed
        BY <2>3, <2>5 DEF Handle
  <2>7. Exit(q) = c  BY <1>2, <2>1, <2>2, <2>3 DEF Exit, Handle
  <2>8. ~(q.nthread > 1)  BY <1>2
  <2>9. c.open = FALSE /\ (q.nthread > 1 /\ q.open) = FALSE  BY <2>5, <2>6, <2>8
  <2>10. /\ c.nthread = q.nthread - 1 /\ c.ups = q.ups /\ c.early = q.early
         /\ c.automaton = q.automaton + (IF q.nthread = 1 THEN 1 ELSE 0)
         /\ c.state = q.state /\ c.tld = q.tld /\ c.failed = q.failed
         BY <1>2, <2>4, <2>5, <2>6
  <2>11. c.open = (q.nthread > 1 /\ q.open)  BY <2>9
  <2> QED  BY <2>6, <2>7, <2>10, <2>11
<1>3. CASE q.nthread # 1
  <2>1. Exit(q) = [q EXCEPT !.nthread = @ - 1]  BY <1>3 DEF Exit
  <2>2. q.nthread - 1 \in Nat  BY <1>1
  <2>3. /\ Exit(q) \in Handle /\ Exit(q).nthread = q.nthread - 1
        /\ Exit(q).open = q.open /\ Exit(q).automaton = q.automaton
        /\ Exit(q).ups = q.ups /\ Exit(q).early = q.early
        /\ Exit(q).state = q.state /\ Exit(q).tld = q.tld /\ Exit(q).failed = q.failed
        BY <2>1, <2>2 DEF Handle
  <2>4. q.nthread > 1  BY <1>1, <1>3
  <2> QED  BY <1>1, <1>3, <2>3, <2>4
<1> QED  BY <1>2, <1>3

LEMMA LeavesKeeps == ASSUME MInv, Leaves PROVE MInv'
<1>1. PICK t \in Thread : pc[t] \in Working /\ pc' = [pc EXCEPT ![t] = "dead"]  BY DEF Leaves
<1>2. PICK r \in Handle : SameCore(qp, r) /\ qp' = Exit(r)  BY DEF Leaves
<1>3. MType /\ CountedInv /\ OrderInv /\ (~qp.early => MachineSound)  BY MInvParts
<1>4. /\ proc = "live" /\ proc' = proc /\ caller' = caller /\ Down
      /\ event' \in EventName /\ (event' \in {"UP", "OFF"} => event' = event)
      BY DEF Leaves, Quietly
<1>5. /\ Counted' = Counted \ {t} /\ t \in Counted
      /\ pc' \in [Thread -> ThreadAt] /\ pc'[t] = "dead" /\ \A u \in Thread \ {t} : pc'[u] = pc[u]
      BY <1>1, <1>3 DEF MType, ThreadAt, Counted, Working
<1>6. /\ IsFiniteSet(Counted') /\ Cardinality(Counted') = Cardinality(Counted) - 1
      /\ Cardinality(Counted) \in Nat /\ Cardinality(Counted') \in Nat
      BY <1>3, <1>5, FS_RemoveElement, FS_CardinalityType DEF CountedInv
<1>7. r.nthread = qp.nthread /\ qp.nthread = Cardinality(Counted) /\ r.nthread > 0
      BY <1>2, <1>3, <1>6 DEF CountedInv, SameCore, Same
<1>8. /\ qp' \in Handle /\ qp'.nthread = qp.nthread - 1
      /\ qp'.open = (qp.nthread > 1 /\ qp.open)
      /\ qp'.automaton = qp.automaton + (IF qp.nthread = 1 THEN 1 ELSE 0)
      /\ qp'.ups = qp.ups /\ qp'.early = qp.early
      /\ qp'.state = qp.state /\ qp'.tld = qp.tld /\ qp'.failed = qp.failed
      BY <1>2, <1>7, ExitType DEF SameCore, Same
<1>9. MType'  BY <1>3, <1>4, <1>5, <1>8 DEF MType
<1>10. CountedInv'  BY <1>6, <1>7, <1>8 DEF CountedInv
<1>11. OrderInv'
  <2>1. \A i \in DOMAIN Started : pc'[Started[i]] = "none" <=> pc[Started[i]] = "none"
        BY <1>1, <1>5, ThreadsStarted DEF Working
  <2> QED  BY <1>3, <1>4, <2>1 DEF OrderInv, At
<1>12. ASSUME ~qp'.early PROVE MachineSound'
  <2>1. MachineSound  BY <1>3, <1>8, <1>12
  <2>2. Off  BY <1>4, <2>1 DEF MachineSound, EndsOff, Down
  <2>3. EndsOff'  BY <1>8, <2>2 DEF EndsOff, Off
  <2>4. caller.at \notin Starting
        BY <2>1, <2>2, InitialIsUnasked DEF MachineSound, StartingInv, Off
  <2>5. caller.started = Len(Started) /\ StartedInv
        BY <1>3, <1>4, <2>1, <2>4, StartedAll DEF MachineSound
  <2>6. StillOpen'  BY <1>3, <1>4, <2>5, ThreadsStarted DEF StillOpen, At
  <2>7. \A u \in Thread : pc'[u] # "created"  BY <1>5, <2>5 DEF StartedInv
  <2>8. qp.open = TRUE  BY <1>3, <1>5, <2>5 DEF StartedInv, MType, Handle
  <2>9. qp'.open <=> Counted' # {}
    <3>1. CASE qp.nthread = 1
      <4>1. Cardinality(Counted') = 0  BY <1>6, <1>7, <3>1
      <4>2. Counted' = {}  BY <1>6, <4>1, FS_EmptySet
      <4>3. ~(qp.nthread > 1)  BY <3>1
      <4>4. ~qp'.open  BY <1>8, <4>3
      <4> QED  BY <4>2, <4>4
    <3>2. CASE qp.nthread # 1
      <4>1. Cardinality(Counted') # 0 /\ qp.nthread > 1  BY <1>6, <1>7, <3>2
      <4>2. Counted' # {}  BY <4>1, FS_EmptySet
      <4> QED  BY <1>8, <2>8, <4>1, <4>2
    <3> QED  BY <3>1, <3>2
  <2>10. qp'.automaton + Waited' = qp'.ups + Ended'
    <3>1. Waited' = Waited /\ Waited \in Nat  BY <1>4 DEF Waited, At
    <3>2. /\ qp.automaton + Waited = qp.ups + 0
          /\ qp.automaton \in Nat /\ qp.ups \in Nat /\ qp.nthread \in Nat
          BY <1>3, <2>5, <2>8 DEF StartedInv, Ended, MType, Handle
    <3>3. Ended' = IF qp.nthread = 1 THEN 1 ELSE 0
      <4>1. qp.nthread > 1 <=> qp.nthread # 1  BY <1>6, <1>7
      <4>2. qp'.open <=> qp.nthread # 1  BY <1>8, <2>8, <4>1
      <4> QED  BY <4>2 DEF Ended
    <3> QED  BY <1>8, <3>1, <3>2, <3>3
  <2>11. StartedInv'  BY <2>7, <2>9, <2>10 DEF StartedInv
  <2> QED  BY <1>4, <2>3, <2>4, <2>6, <2>11 DEF MachineSound
<1> QED  BY <1>9, <1>10, <1>11, <1>12 DEF MInv, MachineSound

LEMMA CodesNamed ==
  ASSUME event \in EventName, event # NoEvent, NEW code \in Codes(event)
  PROVE  code \in CodeName /\ (event \notin {"UP", "OFF"} => code \notin {"UP", "OFF"})
BY DEF EventName, NoEvent, Codes, CodeName, CtrlPacket, DataPacket

LEMMA HandleKeeps ==
  ASSUME MInv, NEW code, NEW how, HandleEvent(code, how)
  PROVE  MInv'
<1>1. PICK q : q = EventHandler(qp, code, how)  OBVIOUS
<1>2. MType /\ CountedInv /\ OrderInv /\ (~qp.early => MachineSound)  BY MInvParts
<1>3. /\ proc = "live" /\ pc["Event"] = "ready" /\ event # NoEvent /\ code \in Codes(event)
      /\ pc' = [pc EXCEPT !["Event"] = "handled"] /\ UNCHANGED <<event, caller, proc>>
      /\ qp' = [q EXCEPT !.early = @ \/ (caller.at \in Starting /\ q.state = "OFF")]
      BY <1>1 DEF HandleEvent, Runs, Place
<1>4. qp \in Handle /\ event \in EventName /\ pc \in [Thread -> ThreadAt] /\ "Event" \in Thread
      BY <1>2, ThreadsStarted DEF MType
<1>5. code \in CodeName /\ (event \notin {"UP", "OFF"} => code \notin {"UP", "OFF"})
      BY <1>3, <1>4, CodesNamed
<1>6. /\ q \in Handle
      /\ q.nthread = qp.nthread /\ q.open = qp.open /\ q.early = qp.early
      /\ q.automaton + qp.ups = qp.automaton + q.ups
      /\ qp.state = "OFF" => q.state = "OFF"
      /\ ~qp.tld /\ ~qp.failed /\ (q.tld \/ q.failed) => q.state = "OFF"
      BY <1>1, <1>4, <1>5, Handled
<1>7. /\ qp' \in Handle
      /\ qp'.nthread = q.nthread /\ qp'.open = q.open /\ qp'.automaton = q.automaton
      /\ qp'.ups = q.ups /\ qp'.state = q.state /\ qp'.tld = q.tld /\ qp'.failed = q.failed
      /\ qp'.early = (q.early \/ (caller.at \in Starting /\ q.state = "OFF"))
  <2>1. PICK e \in BOOLEAN : e = (q.early \/ (caller.at \in Starting /\ q.state = "OFF"))
        OBVIOUS
  <2>2. qp' = [q EXCEPT !.early = e]  BY <1>3, <1>6, <2>1 DEF Handle
  <2>3. /\ qp' \in Handle
        /\ qp'.nthread = q.nthread /\ qp'.open = q.open /\ qp'.automaton = q.automaton
        /\ qp'.ups = q.ups /\ qp'.state = q.state /\ qp'.tld = q.tld /\ qp'.failed = q.failed
        /\ qp'.early = e
        BY <1>6, <2>2 DEF Handle
  <2> QED  BY <2>1, <2>3
<1>8. /\ pc' \in [Thread -> ThreadAt] /\ pc'["Event"] = "handled"
      /\ \A u \in Thread \ {"Event"} : pc'[u] = pc[u]
      BY <1>3, <1>4 DEF ThreadAt, Working
<1>9. MType'  BY <1>2, <1>3, <1>7, <1>8 DEF MType
<1>10. Counted' = Counted  BY <1>3, <1>4, <1>8 DEF Counted, Working
<1>11. CountedInv'  BY <1>2, <1>6, <1>7, <1>10 DEF CountedInv
<1>12. \A u \in Thread, s \in {"none", "created", "dead"} : pc'[u] = s <=> pc[u] = s
       BY <1>3, <1>8
<1>13. OrderInv'
  <2>1. \A i \in DOMAIN Started : pc'[Started[i]] = "none" <=> pc[Started[i]] = "none"
        BY <1>12, ThreadsStarted
  <2> QED  BY <1>2, <1>3, <2>1 DEF OrderInv, At
<1>14. ASSUME ~qp'.early PROVE MachineSound'
  <2>1. MachineSound /\ ~(caller.at \in Starting /\ q.state = "OFF")
    <3>1. ~(q.early \/ (caller.at \in Starting /\ q.state = "OFF"))  BY <1>7, <1>14
    <3>2. ~qp.early  BY <1>6, <3>1
    <3> QED  BY <1>2, <3>1, <3>2
  <2>2. EndsOff'
    <3>1. Off => qp'.state = "OFF"  BY <1>6, <1>7 DEF Off
    <3>2. ASSUME qp'.tld \/ qp'.failed PROVE qp'.state = "OFF"
      <4>1. CASE qp.tld \/ qp.failed  BY <2>1, <3>1, <4>1 DEF MachineSound, EndsOff
      <4>2. CASE ~qp.tld /\ ~qp.failed  BY <1>6, <1>7, <3>2, <4>2
      <4> QED  BY <4>1, <4>2
    <3>3. \A u \in Thread : pc'[u] = "dead" => qp'.state = "OFF"
          BY <1>12, <2>1, <3>1 DEF MachineSound, EndsOff
    <3> QED  BY <3>2, <3>3 DEF EndsOff, Off
  <2>3. StillOpen'  BY <1>3, <1>6, <1>7, <2>1 DEF MachineSound, StillOpen, At
  <2>4. ASSUME caller.at \in Starting PROVE StartingInv'
    <3>1. StartingInv  BY <2>1, <2>4 DEF MachineSound
    <3>2. qp.state \in Unasked /\ ~qp.tld /\ ~qp.failed
      <4>1. qp.state = initial /\ ~Off  BY <3>1, InitialIsUnasked DEF StartingInv, Off
      <4> QED  BY <2>1, <4>1, InitialIsUnasked DEF MachineSound, EndsOff
    <3>3. code \in CodeName \ {"UP", "OFF"}  BY <1>5, <3>1 DEF StartingInv
    <3>4. q.state = qp.state /\ Same(qp, q)
          BY <1>1, <1>4, <2>1, <2>4, <3>2, <3>3, HandledUnasked
    <3>5. \A u \in Thread : pc'[u] = "created" => At("launch") /\ u = Started[caller.started]
          BY <1>12, <3>1 DEF StartingInv
    <3>6. At("launch") => Started[caller.started] \in Thread
          BY <1>2, ThreadsStarted DEF OrderInv, MType
    <3>7. qp'.automaton = IF At("launch") /\ pc'[Started[caller.started]] # "created" THEN 1 ELSE 0
          BY <1>7, <1>12, <3>1, <3>4, <3>6 DEF StartingInv, Same
    <3> QED  BY <1>3, <1>7, <3>1, <3>4, <3>5, <3>7 DEF StartingInv, Same, At
  <2>5. ASSUME StartedInv PROVE StartedInv'
    <3>1. \A u \in Thread : pc'[u] # "created"  BY <1>12, <2>5 DEF StartedInv
    <3>2. Waited' = Waited /\ Ended' = Ended /\ Waited \in Nat /\ Ended \in Nat
          BY <1>3, <1>6, <1>7 DEF Waited, Ended, At
    <3>3. qp.automaton + Waited = qp.ups + Ended  BY <2>5 DEF StartedInv
    <3>4. /\ qp.automaton \in Nat /\ qp.ups \in Nat /\ qp'.automaton \in Nat /\ qp'.ups \in Nat
          /\ qp'.automaton + qp.ups = qp.automaton + qp'.ups
          BY <1>4, <1>6, <1>7 DEF Handle
    <3>5. qp'.automaton + Waited' = qp'.ups + Ended'  BY <3>2, <3>3, <3>4
    <3>6. qp'.open <=> Counted' # {}  BY <1>6, <1>7, <1>10, <2>5 DEF StartedInv
    <3> QED  BY <3>1, <3>5, <3>6 DEF StartedInv
  <2> QED  BY <1>3, <2>1, <2>2, <2>3, <2>4, <2>5 DEF MachineSound
<1> QED  BY <1>9, <1>11, <1>13, <1>14 DEF MInv, MachineSound

-----------------------------------------------------------------------------
(* The application.                                                           *)

LEMMA GoToType ==
  ASSUME MType, NEW p \in CallerAt, GoTo(p)
  PROVE  /\ caller' \in [at : CallerAt, started : 0..Len(Started)]
         /\ caller'.at = p /\ caller'.started = caller.started
BY DEF MType, GoTo

LEMMA WaitAutomatonType ==
  ASSUME MType, NEW before, WaitAutomaton(before)
  PROVE  /\ proc = "live" /\ caller.at = before
         /\ qp' \in Handle /\ qp.automaton \in Nat /\ qp.automaton > 0
         /\ qp'.automaton = qp.automaton - 1
         /\ qp'.nthread = qp.nthread /\ qp'.open = qp.open /\ qp'.early = qp.early
         /\ qp'.ups = qp.ups /\ qp'.state = qp.state /\ qp'.tld = qp.tld
         /\ qp'.failed = qp.failed
<1>1. /\ proc = "live" /\ caller.at = before /\ qp.automaton > 0 /\ qp \in Handle
      /\ qp' = [qp EXCEPT !.automaton = @ - 1]
      BY DEF WaitAutomaton, Calls, At, MType
<1>2. qp.automaton \in Nat /\ qp.automaton - 1 \in Nat  BY <1>1 DEF Handle
<1> QED  BY <1>1, <1>2 DEF Handle

LEMMA CreateKeeps == ASSUME MInv, CreateThread PROVE MInv'
<1>1. PICK t : t = Started[caller.started + 1]  OBVIOUS
<1>2. MType /\ CountedInv /\ OrderInv /\ (~qp.early => MachineSound)  BY MInvParts
<1>3. /\ proc = "live" /\ caller.at = "create" /\ caller.started < Len(Started)
      /\ pc' = [pc EXCEPT ![t] = "created"] /\ UNCHANGED <<qp, event, proc>>
      /\ caller' = [caller EXCEPT !.at = "launch", !.started = @ + 1]
      BY <1>1 DEF CreateThread, Calls, At, Place
<1>4. caller.started \in Nat /\ caller.started + 1 \in DOMAIN Started
      BY <1>2, <1>3, ThreadsStarted DEF MType
<1>5. t \in Thread /\ pc[t] = "none"  BY <1>1, <1>2, <1>4, ThreadsStarted DEF OrderInv
<1>6. /\ caller' \in [at : CallerAt, started : 0..Len(Started)]
      /\ caller'.at = "launch" /\ caller'.started = caller.started + 1
  <2>1. PICK a : a = [caller EXCEPT !.at = "launch"]  OBVIOUS
  <2>2. PICK b : b = [a EXCEPT !.started = @ + 1]  OBVIOUS
  <2>3. /\ a \in [at : CallerAt, started : 0..Len(Started)]
        /\ a.at = "launch" /\ a.started = caller.started
        BY <1>2, <2>1 DEF MType, CallerAt, Starting
  <2>4. a.started + 1 \in 0..Len(Started)  BY <1>4, <2>3, ThreadsStarted
  <2>5. /\ b \in [at : CallerAt, started : 0..Len(Started)]
        /\ b.at = "launch" /\ b.started = caller.started + 1
        BY <2>2, <2>3, <2>4
  <2>6. caller' = b  BY <1>2, <1>3, <2>1, <2>2 DEF MType
  <2> QED  BY <2>5, <2>6
<1>7. /\ pc' \in [Thread -> ThreadAt] /\ pc'[t] = "created"
      /\ \A u \in Thread \ {t} : pc'[u] = pc[u]
      BY <1>2, <1>3, <1>5 DEF MType, ThreadAt
<1>8. MType'  BY <1>2, <1>3, <1>6, <1>7 DEF MType
<1>9. Counted' = Counted  BY <1>5, <1>7 DEF Counted, Working
<1>10. CountedInv'  BY <1>2, <1>3, <1>9 DEF CountedInv
<1>11. OrderInv'
  <2>1. \A i \in DOMAIN Started : i > caller.started + 1 <=> pc'[Started[i]] = "none"
    <3> SUFFICES ASSUME NEW i \in DOMAIN Started
                 PROVE  i > caller.started + 1 <=> pc'[Started[i]] = "none"
        OBVIOUS
    <3>1. CASE i = caller.started + 1  BY <1>1, <1>4, <1>7, <3>1
    <3>2. CASE i # caller.started + 1
      <4>1. Started[i] \in Thread \ {t}  BY <1>1, <1>4, <3>2, ThreadsStarted
      <4>2. i > caller.started <=> pc[Started[i]] = "none"  BY <1>2 DEF OrderInv
      <4>3. i > caller.started + 1 <=> i > caller.started
            BY <1>4, <3>2, ThreadsStarted
      <4> QED  BY <1>7, <4>1, <4>2, <4>3
    <3> QED  BY <3>1, <3>2
  <2> QED  BY <1>2, <1>3, <1>4, <1>6, <2>1 DEF OrderInv, At
<1>12. ASSUME ~qp'.early PROVE MachineSound'
  <2>1. MachineSound  BY <1>2, <1>3, <1>12
  <2>2. StartingInv  BY <1>3, <2>1 DEF MachineSound, Starting
  <2>3. \A u \in Thread : pc[u] # "created"  BY <1>3, <2>2 DEF StartingInv, At
  <2>4. EndsOff'  BY <1>3, <1>5, <1>7, <2>1 DEF MachineSound, EndsOff, Off
  <2>5. StillOpen'  BY <1>6 DEF StillOpen, At
  <2>6. qp.automaton = 0  BY <1>3, <2>2 DEF StartingInv, At
  <2>7. Started[caller'.started] = t  BY <1>1, <1>6
  <2>8. StartingInv'  BY <1>3, <1>6, <1>7, <2>2, <2>3, <2>6, <2>7 DEF StartingInv, At
  <2> QED  BY <1>6, <2>4, <2>5, <2>8 DEF MachineSound, Starting
<1> QED  BY <1>8, <1>10, <1>11, <1>12 DEF MInv, MachineSound

LEMMA CreateFailsKeeps == ASSUME MInv, CreateFails PROVE MInv'
<1>1. MType /\ CountedInv /\ OrderInv /\ (~qp.early => MachineSound)  BY MInvParts
<1>2. /\ proc = "live" /\ caller.at = "create" /\ caller.started < Len(Started)
      /\ GoTo("failed") /\ proc' = "freed" /\ UNCHANGED <<qp, event, pc>>
      BY DEF CreateFails, Calls, At
<1>3. /\ caller' \in [at : CallerAt, started : 0..Len(Started)]
      /\ caller'.at = "failed" /\ caller'.started = caller.started
      BY <1>1, <1>2, GoToType DEF CallerAt
<1>4. MType'  BY <1>1, <1>2, <1>3 DEF MType
<1>5. CountedInv'  BY <1>1, <1>2 DEF CountedInv, Counted
<1>6. OrderInv'  BY <1>1, <1>2, <1>3 DEF OrderInv, At
<1>7. ASSUME ~qp'.early PROVE MachineSound'
  <2>1. MachineSound /\ StartingInv  BY <1>1, <1>2, <1>7 DEF MachineSound, Starting
  <2>2. EndsOff'  BY <1>2, <2>1 DEF MachineSound, EndsOff, Off
  <2>3. StillOpen'  BY <1>2, <2>1 DEF StillOpen, StartingInv
  <2>4. caller'.started # Len(Started)  BY <1>1, <1>2, <1>3, ThreadsStarted DEF MType
  <2> QED  BY <1>3, <2>2, <2>3, <2>4 DEF MachineSound, Starting
<1> QED  BY <1>4, <1>5, <1>6, <1>7 DEF MInv, MachineSound

LEMMA LaunchedKeeps == ASSUME MInv, Launched PROVE MInv'
<1>1. MType /\ CountedInv /\ OrderInv /\ (~qp.early => MachineSound)  BY MInvParts
<1>2. WaitAutomaton("launch") /\ GoTo("create") /\ UNCHANGED <<event, pc, proc>>
      BY DEF Launched
<1>3. /\ proc = "live" /\ caller.at = "launch"
      /\ qp' \in Handle /\ qp.automaton \in Nat /\ qp.automaton > 0
      /\ qp'.automaton = qp.automaton - 1
      /\ qp'.nthread = qp.nthread /\ qp'.open = qp.open /\ qp'.early = qp.early
      /\ qp'.ups = qp.ups /\ qp'.state = qp.state /\ qp'.tld = qp.tld
      /\ qp'.failed = qp.failed
      BY <1>1, <1>2, WaitAutomatonType
<1>4. /\ caller' \in [at : CallerAt, started : 0..Len(Started)]
      /\ caller'.at = "create" /\ caller'.started = caller.started
      BY <1>1, <1>2, GoToType DEF CallerAt, Starting
<1>5. MType'  BY <1>1, <1>2, <1>3, <1>4 DEF MType
<1>6. CountedInv'  BY <1>1, <1>2, <1>3 DEF CountedInv, Counted
<1>7. OrderInv'  BY <1>1, <1>2, <1>3, <1>4 DEF OrderInv, At
<1>8. ASSUME ~qp'.early PROVE MachineSound'
  <2>1. MachineSound /\ StartingInv  BY <1>1, <1>3, <1>8 DEF MachineSound, Starting
  <2>2. EndsOff'  BY <1>2, <1>3, <2>1 DEF MachineSound, EndsOff, Off
  <2>3. StillOpen'  BY <1>3, <1>4, <2>1 DEF StillOpen, At
  <2>4. pc[Started[caller.started]] # "created" /\ qp.automaton = 1
        BY <1>3, <2>1 DEF StartingInv, At
  <2>5. \A t \in Thread : pc[t] # "created"  BY <2>1, <2>4 DEF StartingInv
  <2>6. qp'.automaton = 0  BY <1>3, <2>4
  <2>7. StartingInv'  BY <1>2, <1>3, <1>4, <2>1, <2>5, <2>6 DEF StartingInv, At
  <2> QED  BY <1>4, <2>2, <2>3, <2>7 DEF MachineSound, Starting
<1> QED  BY <1>5, <1>6, <1>7, <1>8 DEF MInv, MachineSound

LEMMA SetInitialKeeps == ASSUME MInv, SetInitial PROVE MInv'
<1>1. MType /\ CountedInv /\ OrderInv /\ (~qp.early => MachineSound)  BY MInvParts
<1>2. /\ proc = "live" /\ caller.at = "create" /\ caller.started = Len(Started)
      /\ qp' = [qp EXCEPT !.state = initial] /\ GoTo("up") /\ UNCHANGED <<event, pc, proc>>
      BY DEF SetInitial, Calls, At
<1>3. /\ qp' \in Handle /\ Same(qp, qp') /\ qp'.state = initial
      /\ qp'.tld = qp.tld /\ qp'.failed = qp.failed
      BY <1>1, <1>2, InitialIsUnasked DEF MType, Handle, Same
<1>4. /\ caller' \in [at : CallerAt, started : 0..Len(Started)]
      /\ caller'.at = "up" /\ caller'.started = caller.started
      BY <1>1, <1>2, GoToType DEF CallerAt, Starting
<1>5. MType'  BY <1>1, <1>2, <1>3, <1>4 DEF MType
<1>6. CountedInv'  BY <1>1, <1>2, <1>3 DEF CountedInv, Counted, Same
<1>7. OrderInv'  BY <1>1, <1>2, <1>3, <1>4 DEF OrderInv, At
<1>8. ASSUME ~qp'.early PROVE MachineSound'
  <2>1. MachineSound /\ StartingInv  BY <1>1, <1>2, <1>3, <1>8 DEF MachineSound, Starting, Same
  <2>2. qp'.state = qp.state  BY <1>3, <2>1 DEF StartingInv
  <2>3. EndsOff'  BY <1>2, <1>3, <2>1, <2>2 DEF MachineSound, EndsOff, Off
  <2>4. StillOpen'  BY <1>4 DEF StillOpen, At
  <2>5. \A t \in Thread : pc[t] # "created"  BY <1>2, <2>1 DEF StartingInv, At
  <2>6. qp'.automaton = 0  BY <1>2, <1>3, <2>1 DEF StartingInv, At, Same
  <2>7. StartingInv'  BY <1>2, <1>3, <1>4, <2>1, <2>5, <2>6 DEF StartingInv, At, Same
  <2> QED  BY <1>4, <2>3, <2>4, <2>7 DEF MachineSound, Starting
<1> QED  BY <1>5, <1>6, <1>7, <1>8 DEF MInv, MachineSound

LEMMA PostUpKeeps == ASSUME MInv, PostUp PROVE MInv'
<1>1. MType /\ CountedInv /\ OrderInv /\ (~qp.early => MachineSound)  BY MInvParts
<1>2. /\ proc = "live" /\ caller.at = "up" /\ (PostEvent("UP") \/ PostRefused)
      /\ GoTo("waitup") /\ UNCHANGED <<qp, pc, proc>>
      BY DEF PostUp, Calls, At
<1>3. event' \in EventName  BY <1>1, <1>2 DEF PostEvent, PostRefused, EventName, MType
<1>4. /\ caller' \in [at : CallerAt, started : 0..Len(Started)]
      /\ caller'.at = "waitup" /\ caller'.started = caller.started
      BY <1>1, <1>2, GoToType DEF CallerAt
<1>5. MType'  BY <1>1, <1>2, <1>3, <1>4 DEF MType
<1>6. CountedInv'  BY <1>1, <1>2 DEF CountedInv, Counted
<1>7. caller.started = Len(Started)  BY <1>1, <1>2 DEF OrderInv
<1>8. OrderInv'  BY <1>1, <1>2, <1>4, <1>7 DEF OrderInv, At
<1>9. ASSUME ~qp'.early PROVE MachineSound'
  <2>1. MachineSound /\ StartingInv  BY <1>1, <1>2, <1>9 DEF MachineSound, Starting
  <2>2. EndsOff'  BY <1>2, <2>1 DEF MachineSound, EndsOff, Off
  <2>3. StillOpen'  BY <1>4 DEF StillOpen, At
  <2>4. \A t \in Thread : pc[t] # "created"  BY <1>2, <2>1 DEF StartingInv, At
  <2>5. "Event" \in Counted
    <3>1. "Event" \in Thread /\ pc["Event"] \in ThreadAt  BY <1>1, ThreadsStarted DEF MType
    <3>2. pc["Event"] # "none"
      <4>1. PICK i \in DOMAIN Started : Started[i] = "Event"  BY ThreadsStarted
      <4>2. ~(i > caller.started)  BY <1>7, ThreadsStarted
      <4> QED  BY <1>1, <4>1, <4>2 DEF OrderInv
    <3>3. ~Off  BY <2>1, InitialIsUnasked DEF StartingInv, Off
    <3>4. pc["Event"] # "dead"  BY <2>1, <3>1, <3>3 DEF MachineSound, EndsOff
    <3> QED  BY <2>4, <3>1, <3>2, <3>4 DEF Counted, ThreadAt
  <2>6. qp.automaton = 0 /\ qp.ups = 0 /\ qp.open  BY <1>2, <2>1 DEF StartingInv, At
  <2>7. Counted' = Counted /\ Waited' = 0 /\ Ended' = 0
        BY <1>2, <1>4, <2>6 DEF Counted, Waited, Ended, At, Serving
  <2>8. StartedInv'  BY <1>2, <2>4, <2>5, <2>6, <2>7 DEF StartedInv
  <2> QED  BY <1>4, <2>2, <2>3, <2>8 DEF MachineSound, Starting
<1> QED  BY <1>5, <1>6, <1>8, <1>9 DEF MInv, MachineSound

LEMMA ServingKeeps ==
  ASSUME MInv, proc = "live", proc' = proc, pc' = pc, event' \in EventName,
         qp' \in Handle, SameCore(qp, qp'),
         caller.at \in Serving, NEW p \in Serving, GoTo(p)
  PROVE  MInv'
<1>1. MType /\ CountedInv /\ OrderInv /\ (~qp.early => MachineSound)  BY MInvParts
<1>2. /\ p \notin Starting \cup {"create", "launch", "failed", "closed"}
      /\ caller.at \notin Starting \cup {"create", "launch", "failed", "closed"}
      BY DEF Serving, Starting
<1>3. /\ caller' \in [at : CallerAt, started : 0..Len(Started)]
      /\ caller'.at = p /\ caller'.started = caller.started
      BY <1>1, GoToType DEF CallerAt
<1>4. MType'  BY <1>1, <1>3 DEF MType
<1>5. CountedInv'  BY <1>1 DEF CountedInv, Counted, SameCore, Same
<1>6. OrderInv'  BY <1>1, <1>2, <1>3 DEF OrderInv, At
<1>7. ASSUME ~qp'.early PROVE MachineSound'
  <2>1. MachineSound  BY <1>1, <1>7 DEF SameCore, Same
  <2>2. EndsOff'  BY <2>1 DEF MachineSound, EndsOff, Off, SameCore
  <2>3. caller.started = Len(Started) /\ StartedInv  BY <1>1, <1>2, <2>1 DEF MachineSound, OrderInv
  <2>4. StillOpen'  BY <1>2, <1>3 DEF StillOpen, At
  <2>5. Counted' = Counted /\ Waited' = Waited /\ Ended' = Ended
        BY <1>2, <1>3 DEF Counted, Waited, Ended, At, SameCore, Same
  <2>6. StartedInv'  BY <2>3, <2>5 DEF StartedInv, SameCore, Same
  <2> QED  BY <1>2, <1>3, <2>2, <2>4, <2>6 DEF MachineSound
<1> QED  BY <1>4, <1>5, <1>6, <1>7 DEF MInv, MachineSound

LEMMA CommandsKeep ==
  ASSUME MInv,
         \/ PostCmd("command", "waitcmd") \/ CmdDone("waitcmd", "connected")
         \/ PostCmd("shutdown", "deregister") \/ CmdDone("deregister", "off")
         \/ PostOff \/ Call("command") \/ Call("shutdown")
  PROVE  MInv'
<1>1. MType  BY DEF MInv
<1>2. qp \in Handle /\ event \in EventName /\ SameCore(qp, qp)  BY <1>1, SameSelf DEF MType
<1>3. ASSUME NEW before \in Serving, NEW to \in Serving, PostCmd(before, to) PROVE MInv'
  <2>1. /\ proc = "live" /\ caller.at = before /\ GoTo(to) /\ UNCHANGED <<event, pc, proc>>
        /\ qp' = [qp EXCEPT !.cmdheap = 0, !.cmdfull = "command"]
        BY <1>3 DEF PostCmd, Calls, At
  <2>2. PICK a : a = [qp EXCEPT !.cmdheap = 0]  OBVIOUS
  <2>3. PICK b : b = [a EXCEPT !.cmdfull = "command"]  OBVIOUS
  <2>4. a \in Handle /\ SameCore(qp, a)  BY <1>2, <2>2 DEF Handle, SameCore, Same
  <2>5. b \in Handle /\ SameCore(a, b)  BY <2>3, <2>4 DEF Handle, SameCore, Same
  <2>6. qp' = b  BY <2>1, <2>2, <2>3
  <2>7. SameCore(qp, qp') /\ qp' \in Handle  BY <2>4, <2>5, <2>6 DEF SameCore, Same
  <2> QED  BY <1>2, <1>3, <2>1, <2>7, ServingKeeps
<1>4. ASSUME NEW before \in Serving, NEW to \in Serving, CmdDone(before, to) PROVE MInv'
  <2>1. /\ proc = "live" /\ caller.at = before /\ GoTo(to) /\ UNCHANGED <<event, pc, proc>>
        /\ qp' = [qp EXCEPT !.cmdsem = @ - 1]
        BY <1>4 DEF CmdDone, Calls, At
  <2>2. qp' \in Handle /\ SameCore(qp, qp')  BY <1>2, <2>1 DEF Handle, SameCore, Same
  <2> QED  BY <1>2, <1>4, <2>1, <2>2, ServingKeeps
<1>5. ASSUME NEW to \in Serving, Call(to) PROVE MInv'
  <2>1. proc = "live" /\ caller.at = "connected" /\ GoTo(to) /\ UNCHANGED <<qp, event, pc, proc>>
        BY <1>5 DEF Call, Calls, At
  <2> QED  BY <1>2, <1>5, <2>1, ServingKeeps DEF Serving
<1>6. CASE PostOff
  <2>1. /\ proc = "live" /\ caller.at = "off" /\ UNCHANGED <<qp, pc, proc>>
        /\ event' \in EventName /\ (GoTo("waitoff") \/ GoTo("refused"))
        BY <1>2, <1>6 DEF PostOff, Calls, At, PostEvent, PostRefused, EventName
  <2> QED  BY <1>2, <2>1, ServingKeeps DEF Serving
<1>7. /\ "command" \in Serving /\ "waitcmd" \in Serving /\ "connected" \in Serving
      /\ "shutdown" \in Serving /\ "deregister" \in Serving /\ "off" \in Serving
      BY DEF Serving
<1> QED  BY <1>3, <1>4, <1>5, <1>6, <1>7

\* The caller has waited for another post.
LEMMA WaitedKeeps ==
  ASSUME MInv, NEW before, NEW to, WaitAutomaton(before), GoTo(to), UNCHANGED <<event, pc>>,
         \/ before = "waitup" /\ to \in {"failed", "connected"}
         \/ before = "waitoff" /\ to = "closed",
         proc' = IF to = "connected" THEN "live" ELSE "freed"
  PROVE  MInv'
<1>1. MType /\ CountedInv /\ OrderInv /\ (~qp.early => MachineSound)  BY MInvParts
<1>2. /\ proc = "live" /\ caller.at = before
      /\ qp' \in Handle /\ qp.automaton \in Nat /\ qp.automaton > 0
      /\ qp'.automaton = qp.automaton - 1
      /\ qp'.nthread = qp.nthread /\ qp'.open = qp.open /\ qp'.early = qp.early
      /\ qp'.ups = qp.ups /\ qp'.state = qp.state /\ qp'.tld = qp.tld
      /\ qp'.failed = qp.failed
      BY <1>1, WaitAutomatonType
<1>3. to \in CallerAt \ Starting /\ before \notin Starting
      BY DEF CallerAt, Serving, Starting
<1>4. /\ caller' \in [at : CallerAt, started : 0..Len(Started)]
      /\ caller'.at = to /\ caller'.started = caller.started
      BY <1>1, <1>3, GoToType
<1>5. MType'  BY <1>1, <1>2, <1>4 DEF MType
<1>6. CountedInv'  BY <1>1, <1>2 DEF CountedInv, Counted
<1>7. caller.started = Len(Started)  BY <1>1, <1>2 DEF OrderInv
<1>8. OrderInv'  BY <1>1, <1>2, <1>4, <1>7 DEF OrderInv, At
<1>9. ASSUME ~qp'.early PROVE MachineSound'
  <2>1. MachineSound /\ StartedInv  BY <1>1, <1>2, <1>3, <1>7, <1>9 DEF MachineSound
  <2>2. EndsOff'  BY <1>2, <2>1 DEF MachineSound, EndsOff, Off
  <2>3. StillOpen'  BY <1>1, <1>4, <1>7, ThreadsStarted DEF StillOpen
  <2>4. Counted' = Counted /\ Ended' = Ended /\ Ended \in Nat  BY <1>2 DEF Counted, Ended
  <2>5. Waited' = Waited + 1 /\ Waited \in Nat
        BY <1>2, <1>4 DEF Waited, At, Serving
  <2>6. qp.ups \in Nat /\ qp.automaton + Waited = qp.ups + Ended
        BY <1>1, <2>1 DEF MType, Handle, StartedInv
  <2>7. qp'.automaton + Waited' = qp'.ups + Ended'  BY <1>2, <2>4, <2>5, <2>6
  <2>8. StartedInv'  BY <1>2, <2>1, <2>4, <2>7 DEF StartedInv
  <2> QED  BY <1>3, <1>4, <2>2, <2>3, <2>8 DEF MachineSound
<1> QED  BY <1>5, <1>6, <1>8, <1>9 DEF MInv, MachineSound

LEMMA ConnectedKeeps == ASSUME MInv, Connected \/ Destroy PROVE MInv'
<1>1. CASE Connected
  <2>1. WaitAutomaton("waitup") /\ UNCHANGED <<event, pc>> /\ proc = "live"
        BY <1>1 DEF Connected, WaitAutomaton, Calls
  <2>2. CASE qp.failed
    <3>1. GoTo("failed") /\ proc' = "freed"  BY <1>1, <2>2 DEF Connected
    <3> QED  BY <2>1, <3>1, WaitedKeeps
  <2>3. CASE ~qp.failed
    <3>1. GoTo("connected") /\ proc' = "live"  BY <1>1, <2>1, <2>3 DEF Connected
    <3> QED  BY <2>1, <3>1, WaitedKeeps
  <2> QED  BY <2>2, <2>3
<1>2. CASE Destroy
  <2>1. WaitAutomaton("waitoff") /\ GoTo("closed") /\ proc' = "freed" /\ UNCHANGED <<event, pc>>
        BY <1>2 DEF Destroy
  <2> QED  BY <2>1, WaitedKeeps
<1> QED  BY <1>1, <1>2

-----------------------------------------------------------------------------
(* The theorems.                                                              *)

LEMMA MInitInv == MInit => MInv
<1> SUFFICES ASSUME MInit PROVE MInv
    OBVIOUS
<1>1. /\ pc = [t \in Thread |-> "none"] /\ event = "heap" /\ proc = "live"
      /\ caller = [at |-> "create", started |-> 0]
      BY DEF MInit, NoEvent
<1>2. /\ qp \in Handle /\ qp.state = initial /\ qp.tld = FALSE /\ qp.failed = FALSE
      /\ qp.nthread = 0 /\ qp.open = TRUE /\ qp.automaton = 0 /\ qp.ups = 0
  <2>1. Buffers \in Int  BY MachineAssumption
  <2> QED  BY <2>1, InitialIsUnasked DEF MInit, Handle
<1>3. MType
  BY <1>1, <1>2, ThreadsStarted DEF MType, EventName, NoEvent, ThreadAt, CallerAt, Starting
<1>4. Counted = {}  BY <1>1 DEF Counted, Working
<1>5. CountedInv  BY <1>2, <1>4, FS_EmptySet DEF CountedInv
<1>6. OrderInv
  <2>1. \A i \in DOMAIN Started : i > 0 /\ pc[Started[i]] = "none"
        BY <1>1, ThreadsStarted
  <2> QED  BY <1>1, <2>1 DEF OrderInv, At
<1>7. StartingInv  BY <1>1, <1>2 DEF StartingInv, At
<1>8. EndsOff  BY <1>1, <1>2 DEF EndsOff
<1>9. StillOpen  BY <1>2 DEF StillOpen
<1> QED  BY <1>1, <1>3, <1>5, <1>6, <1>7, <1>8, <1>9 DEF MInv, Starting

LEMMA MNextInv == ASSUME MInv, [MNext]_mvars PROVE MInv'
<1>1. CASE UNCHANGED mvars
  BY <1>1 DEF mvars, MInv, MType, CountedInv, Counted, OrderInv, At, EndsOff, Off, StillOpen,
     StartingInv, StartedInv, Waited, Ended
<1>2. CASE Threads
  <2>1. MType /\ {"Event", "Ctrl", "Appcmd"} \subseteq Thread
        BY MachineAssumption DEF MInv
  <2>2. CASE EventThread  BY <2>1, <2>2, EventStep, HandleKeeps, GoesKeeps, LeavesKeeps, BeginsKeeps
  <2>3. CASE CtrlThread  BY <2>1, <2>3, CtrlStep, GoesKeeps, LeavesKeeps, BeginsKeeps
  <2>4. CASE AppcmdThread \/ PrepareCmd
    BY <2>1, <2>4, AppcmdStep, GoesKeeps, LeavesKeeps, BeginsKeeps
  <2>5. CASE "Data" \in Thread /\ DataThread
    BY <2>1, <2>5, DataStep, GoesKeeps, LeavesKeeps, BeginsKeeps
  <2>6. CASE "Heartbeat" \in Thread /\ HeartbeatThread
    BY <2>1, <2>6, HeartbeatStep, GoesKeeps, LeavesKeeps, BeginsKeeps
  <2>7. CASE "Watchdog" \in Thread /\ WatchdogThread
    BY <2>1, <2>7, WatchdogStep, GoesKeeps, LeavesKeeps, BeginsKeeps
  <2> QED  BY <1>2, <2>2, <2>3, <2>4, <2>5, <2>6, <2>7 DEF Threads
<1>3. CASE InLibrary
  BY <1>3, CreateKeeps, CreateFailsKeeps, LaunchedKeeps, SetInitialKeeps, PostUpKeeps,
     ConnectedKeeps, CommandsKeep DEF InLibrary
<1>4. CASE Call("command") \/ Call("shutdown")  BY <1>4, CommandsKeep
<1> QED  BY <1>1, <1>2, <1>3, <1>4 DEF MNext

\* The invariant of the connection machine: nthread counts the threads that
\* work on the handle, and from the moment the machine is asked to come up the
\* Automaton semaphore has been posted once for every time it has come up and
\* once for the last thread's end.
THEOREM MachineInvariant == MSpec => []MInv
<1>1. MInit => MInv  BY MInitInv
<1>2. MInv /\ [MNext]_mvars => MInv'  BY MNextInv
<1> QED  BY <1>1, <1>2, PTL DEF MSpec

\* The sockets are closed by the last thread that could have used them.
LEMMA ClosedIsDead ==
  ASSUME MInv, ~qp.open, ~qp.early
  PROVE  Alive = {} /\ Off
<1>1. MType /\ OrderInv /\ MachineSound  BY MInvParts
<1>2. caller.at \notin Starting  BY <1>1 DEF MachineSound, StartingInv
<1>3. caller.started = Len(Started)
  <2>1. CASE At("failed")  BY <1>1, <2>1, ThreadsStarted DEF MachineSound, StillOpen, MType
  <2>2. CASE ~At("failed")  BY <1>1, <1>2, <2>2 DEF OrderInv, Starting, At
  <2> QED  BY <2>1, <2>2
<1>4. StartedInv /\ Counted = {}  BY <1>1, <1>2, <1>3 DEF MachineSound, StartedInv
<1>5. \A t \in Thread : pc[t] \in {"none", "dead"}
      BY <1>1, <1>4 DEF StartedInv, MType, ThreadAt, Counted
<1>6. pc["Event"] # "none" /\ "Event" \in Thread
  <2>1. PICK i \in DOMAIN Started : Started[i] = "Event"  BY ThreadsStarted
  <2>2. ~(i > caller.started)  BY <1>3, ThreadsStarted
  <2> QED  BY <1>1, <2>1, <2>2, ThreadsStarted DEF OrderInv
<1>7. Off  BY <1>1, <1>5, <1>6 DEF MachineSound, EndsOff
<1> QED  BY <1>5, <1>7 DEF Alive

\* Once the machine is asked to come up, and comes up once at the most, the
\* caller's posts are told apart by what it has waited for.
LEMMA PostsTellApart ==
  ASSUME MInv, Orderly, caller.at \in {"failed", "connected", "closed"}
  PROVE  (qp.ups = 1 /\ At("connected")) \/ ~qp.open
<1>1. MType /\ MachineSound /\ caller.started = Len(Started)  BY MInvParts DEF Orderly
<1>2. StartedInv  BY <1>1 DEF MachineSound, Starting
<1>3. qp.automaton \in Nat /\ qp.ups \in Nat /\ qp.ups <= (IF At("failed") THEN 0 ELSE 1)
      BY <1>1 DEF MType, Handle, Orderly
<1>4. Waited = IF At("closed") THEN 2 ELSE 1  BY DEF Waited, At, Serving
<1>5. qp.automaton + Waited = qp.ups + Ended  BY <1>2 DEF StartedInv
<1>6. ASSUME qp.open PROVE qp.ups = 1 /\ At("connected")
  <2>1. Ended = 0  BY <1>6 DEF Ended
  <2> QED  BY <1>3, <1>4, <1>5, <2>1 DEF At
<1> QED  BY <1>6

\* No socket is closed while a thread that could still use it is left
\* (TerminateSelf, fsa.c), whatever the digitiser sends and the threads do.
THEOREM MachineSockets == MSpec => []SocketsOutliveThreads
<1>1. MInv => SocketsOutliveThreads  BY ClosedIsDead DEF SocketsOutliveThreads
<1> QED  BY <1>1, MachineInvariant, PTL

\* The handle is not freed while a thread works on it (qdpConnect, qdpDestroy).
THEOREM MachineHandle == MSpec => []HandleOutlivesThreads
<1>1. ASSUME MInv, proc = "freed", Orderly PROVE Alive = {}
  <2>1. caller.at \in {"closed", "failed"} /\ ~qp.early
        BY <1>1 DEF MInv, OrderInv, Orderly
  <2>2. ~qp.open  BY <1>1, <2>1, PostsTellApart DEF At
  <2> QED  BY <1>1, <2>1, <2>2, ClosedIsDead
<1>2. MInv => HandleOutlivesThreads  BY <1>1 DEF HandleOutlivesThreads
<1> QED  BY <1>2, MachineInvariant, PTL

\* qdpStartFSA's success means that the machine came up, or that it died with
\* all its threads without an error code.
THEOREM MachineConnected == MSpec => []ConnectedIsUpOrDead
<1>1. ASSUME MInv, At("connected"), Orderly
      PROVE  qp.ups = 1 \/ (Off /\ Alive = {} /\ ~qp.open)
  <2>1. qp.ups = 1 \/ ~qp.open  BY <1>1, PostsTellApart DEF At
  <2>2. ~qp.early  BY <1>1 DEF Orderly
  <2> QED  BY <1>1, <2>1, <2>2, ClosedIsDead
<1>2. MInv => ConnectedIsUpOrDead  BY <1>1 DEF ConnectedIsUpOrDead
<1> QED  BY <1>2, MachineInvariant, PTL
=============================================================================
