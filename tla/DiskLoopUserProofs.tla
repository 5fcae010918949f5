------------------------- MODULE DiskLoopUserProofs -------------------------
(***************************************************************************)
(* Proofs about programs that use a disk loop, for every size of the loops *)
(* and any number of processes.                                            *)
(*                                                                         *)
(* Relay: its loop is a DiskLoop, the packets reach it in order and at     *)
(* most once, and one is lost only if the server no longer had it or its   *)
(* write was cut short, whatever mishaps there are.                        *)
(*                                                                         *)
(* IsidSeqno, with any number of clients' threads on one lock and writers  *)
(* killed anywhere: what a client gets is an unbroken run of whole packets *)
(* unless the writer laps it or its snapshot is ahead of its count.        *)
(*                                                                         *)
(* DiskLoopDaemon: a writer that forks leaves its loop with one writer, if *)
(* nobody kills it before it has named its child.                          *)
(***************************************************************************)
EXTENDS Relay, IsidSeqno, DiskLoopDaemon, DiskLoopProofs, WellFoundedInduction

(***************************************************************************)
(* The invariant.                                                          *)
(***************************************************************************)
RTypeOK ==
  /\ hub \in Nat
  /\ online \subseteq Pid
  /\ next \in [Pid -> Nat]
  /\ net \in [Pid -> Seq(Nat)]
  /\ taken \in [Pid -> Nat]

\* The numbers before n, as many as q is long.
Before(q, n) == \A i \in 1..Len(q) : q[i] = n - Len(q) + i - 1

\* The number a relay receives next.
Due(p) == next[p] - Len(net[p])

\* Only an owner of the loop is connected or has a packet; what is under way is
\* an unbroken run.
Feed(p) ==
  /\ p \in online \/ taken[p] # NoPkt => pc[p] \in {"ready"} \cup WritePc
  /\ pc[p] \in WritePc => taken[p] # NoPkt
  /\ p \notin online => net[p] = <<>>
  /\ p \in online => Due(p) >= 1 /\ Before(net[p], next[p]) /\ taken[p] < Due(p)

\* The packet a relay has comes after all in the loop until it is one of them,
\* and what it is still to receive comes after that.
Order(p) ==
  /\ HalfWritten(p) => seqno = taken[p]
  /\ taken[p] # NoPkt /\ pc[p] \notin {"committed", "counted"} =>
       \A i \in 1..Len(log) : log[i] < taken[p]
  /\ pc[p] \in {"committed", "counted"} =>
       Len(log) > 0 /\ log[Len(log)] = taken[p]
  /\ p \in online => \A i \in 1..Len(log) : log[i] < Due(p)

LogInv == StoredOnce /\ \A i \in 1..Len(log) : 1 <= log[i] /\ log[i] <= seqno

\* Not lost without a reason.
Accounted(s) == s \in missed \cup cut \/ \E i \in 1..Len(log) : s = log[i]

\* What comes before the packets a relay has and waits for is accounted for.
Account(p) ==
  /\ taken[p] # NoPkt => \A s \in 1..(taken[p] - 1) : Accounted(s)
  /\ p \in online => \A s \in 1..(Due(p) - 1) : Accounted(s) \/ s = taken[p]

\* And so is what VerifySequence refuses, once no write is half done.
SeqnoInv ==
  \A s \in 1..seqno : Accounted(s) \/ (s = seqno /\ \E p \in Pid : HalfWritten(p))

RInv ==
  /\ IInv /\ RTypeOK /\ LogInv /\ SeqnoInv
  /\ \A p \in Pid : Feed(p) /\ Order(p) /\ Account(p)

-----------------------------------------------------------------------------
(***************************************************************************)
(* Runs of numbers.                                                        *)
(***************************************************************************)
LEMMA RunGrows ==
  ASSUME NEW q \in Seq(Nat), NEW n \in Nat, Before(q, n)
  PROVE  /\ Append(q, n) \in Seq(Nat)
         /\ Len(Append(q, n)) = Len(q) + 1
         /\ Before(Append(q, n), n + 1)
<1> DEFINE a == Append(q, n)  k == Len(q)
<1>1. /\ a \in Seq(Nat) /\ k \in Nat /\ Len(a) = k + 1
      /\ a[k + 1] = n /\ \A i \in 1..k : a[i] = q[i]
      OBVIOUS
<1>2. \A i \in 1..k : q[i] = n - k + i - 1  BY DEF Before
<1> HIDE DEF a, k
<1>3. ASSUME NEW i \in 1..(k + 1) PROVE a[i] = (n + 1) - (k + 1) + i - 1
  <2>1. CASE i = k + 1  BY <1>1, <2>1
  <2>2. CASE i \in 1..k
    <3>1. a[i] = n - k + i - 1  BY <1>1, <1>2, <2>2
    <3> QED  BY <1>1, <3>1
  <2> QED  BY <1>1, <2>1, <2>2
<1>4. Before(a, n + 1)  BY <1>1, <1>3 DEF Before
<1> QED  BY <1>1, <1>4 DEF a, k

LEMMA RunShrinks ==
  ASSUME NEW q \in Seq(Nat), NEW n \in Nat, Before(q, n), q # <<>>
  PROVE  /\ Tail(q) \in Seq(Nat)
         /\ Len(Tail(q)) = Len(q) - 1
         /\ Before(Tail(q), n)
         /\ Head(q) = n - Len(q)
         /\ Len(q) \in Nat \ {0}
BY DEF Before

LEMMA NoRun == \A n : Before(<<>>, n) /\ <<>> \in Seq(Nat) /\ Len(<<>>) = 0
BY DEF Before

\* A log of naturals is extended at its end.
LEMMA LogGrows ==
  ASSUME NEW q \in Seq(Nat), NEW n \in Nat
  PROVE  /\ Append(q, n) \in Seq(Nat)
         /\ Len(Append(q, n)) = Len(q) + 1
         /\ \A i \in 1..Len(q) : Append(q, n)[i] = q[i]
         /\ Append(q, n)[Len(q) + 1] = n
         /\ Len(q) \in Nat
OBVIOUS

-----------------------------------------------------------------------------
(***************************************************************************)
(* The relay's loop is a disk loop.                                        *)
(***************************************************************************)
LEMMA HalfIsNumbered ==
  \A p \in Pid : HalfWritten(p) <=> pc[p] \in NumberedPc
BY DEF HalfWritten, WritePc, NumberedPc, UpdatePc

LEMMA RelayStep == RNext => [Next]_vars
<1> SUFFICES ASSUME RNext PROVE [Next]_vars  OBVIOUS
<1>1. CASE HubWrites  BY <1>1 DEF HubWrites
<1>2. ASSUME NEW p \in Pid,
             Connect(p) \/ ServerSends(p) \/ Break(p) \/ ServerFault(p) \/ Receive(p)
      PROVE  UNCHANGED vars
      BY <1>2 DEF Connect, ServerSends, Break, ServerFault, Receive
<1>3. ASSUME NEW p \in Pid, Start(p) PROVE Next
  <2>1. CASE Open(p)  BY <2>1 DEF Next
  <2>2. CASE At(p, "dead", "start")
        BY <1>3, <2>2 DEF Start, At, Spawn, Next
  <2> QED  BY <1>3, <2>1, <2>2 DEF Start
<1>4. ASSUME NEW p \in Pid, Store(p) PROVE Next
      BY <1>4 DEF Store, Next
<1>5. ASSUME NEW p \in Pid, Stop(p) PROVE Next
      BY <1>5 DEF Stop, Next
<1>6. ASSUME NEW p \in Pid, Kill(p) PROVE Next
      BY <1>6 DEF Kill, Next
<1> QED  BY <1>1, <1>2, <1>3, <1>4, <1>5, <1>6 DEF RNext

\* Whatever the relay does to its loop is what any writer may do to a disk loop:
\* what holds of DiskLoop holds of the relay's.
THEOREM RelayIsDiskLoop == RSpec => Spec
<1>1. RInit => Init  BY DEF RInit
<1>2. UNCHANGED rvars => UNCHANGED vars  BY DEF rvars
<1> QED  BY <1>1, <1>2, RelayStep, PTL DEF RSpec, Spec

-----------------------------------------------------------------------------
(***************************************************************************)
(* Steps that do not touch the loop.                                       *)
(***************************************************************************)
LEMMA AccountedStays ==
  ASSUME missed \subseteq missed', cut \subseteq cut', log' = log
  PROVE  \A s : Accounted(s) => Accounted(s)'
BY DEF Accounted

LEMMA LoopSame == IInv /\ UNCHANGED vars => IInv'
<1> SUFFICES ASSUME IInv, UNCHANGED vars PROVE IInv'  OBVIOUS
<1>1. TypeOK' /\ AccessInv'
      BY AccessStep, TypeStep, RingBumps DEF IInv, AccessInv
<1>2. RingInv'  BY RingStep DEF IInv, AccessInv
<1> QED  BY <1>1, <1>2 DEF IInv, AccessInv

\* A process the step is not about.
LEMMA OtherKeeps ==
  ASSUME RInv, NEW q \in Pid,
         pc'[q] = pc[q], taken'[q] = taken[q], net'[q] = net[q], next'[q] = next[q],
         q \in online' <=> q \in online,
         missed \subseteq missed', cut \subseteq cut',
         UNCHANGED <<log, seqno>>
  PROVE  Feed(q)' /\ Order(q)' /\ Account(q)'
<1>1. Feed(q) /\ Order(q) /\ Account(q)  BY DEF RInv
<1>2. Due(q)' = Due(q)  BY DEF Due
<1>3. \A s : Accounted(s) => Accounted(s)'  BY AccountedStays
<1>4. Feed(q)'  BY <1>1, <1>2 DEF Feed, Before
<1>5. Order(q)'  BY <1>1, <1>2 DEF Order, HalfWritten
<1>6. Account(q)'  BY <1>1, <1>2, <1>3 DEF Account
<1> QED  BY <1>4, <1>5, <1>6

\* One relay's step while the loop stays as it is.
LEMMA FeedSteps ==
  ASSUME RInv, NEW p \in Pid, UNCHANGED <<vars, cut>>, missed \subseteq missed',
         RTypeOK', Feed(p)', Order(p)', Account(p)',
         \A q \in Pid \ {p} : /\ taken'[q] = taken[q] /\ net'[q] = net[q]
                              /\ next'[q] = next[q]
                              /\ q \in online' <=> q \in online
  PROVE  RInv'
<1>1. UNCHANGED <<pc, log, seqno>>  BY DEF vars
<1>2. IInv'  BY LoopSame DEF RInv
<1>3. LogInv'  BY <1>1 DEF RInv, LogInv, StoredOnce
<1>4. SeqnoInv'
      BY <1>1, AccountedStays DEF RInv, SeqnoInv, HalfWritten
<1>5. ASSUME NEW q \in Pid, q # p PROVE Feed(q)' /\ Order(q)' /\ Account(q)'
      BY <1>1, <1>5, OtherKeeps
<1> QED  BY <1>2, <1>3, <1>4, <1>5 DEF RInv

LEMMA HubKeeps == RInv /\ HubWrites => RInv'
<1> SUFFICES ASSUME RInv, HubWrites PROVE RInv'  OBVIOUS
<1>1. /\ UNCHANGED <<vars, cut, missed>> /\ UNCHANGED <<online, next, net, taken>>
      /\ hub' = hub + 1
      BY DEF HubWrites, relayvars
<1>2. UNCHANGED <<pc, log, seqno>>  BY <1>1 DEF vars
<1>3. IInv'  BY <1>1, LoopSame DEF RInv
<1>4. RTypeOK'  BY <1>1 DEF RInv, RTypeOK
<1>5. LogInv'  BY <1>2 DEF RInv, LogInv, StoredOnce
<1>6. SeqnoInv'  BY <1>1, <1>2, AccountedStays DEF RInv, SeqnoInv, HalfWritten
<1>7. ASSUME NEW q \in Pid PROVE Feed(q)' /\ Order(q)' /\ Account(q)'
      BY <1>1, <1>2, OtherKeeps
<1> QED  BY <1>3, <1>4, <1>5, <1>6, <1>7 DEF RInv

\* An owner at rest finds the indices of all it has written, and every number up
\* to sys.seqno accounted for.
LEMMA AtRest ==
  ASSUME RInv, NEW p \in Pid, pc[p] = "ready"
  PROVE  /\ index = Committed
         /\ \A s \in 1..seqno : Accounted(s)
<1>1. TypeOK /\ AccessInv /\ IndexInv /\ ProgressInv
      BY DEF RInv, IInv, AccessInv, RingInv
<1>2. state # UPDATE
      BY <1>1 DEF ProgressInv, Progress, IDLE, ACTIVE, UPDATE
<1>3. index = Committed  BY <1>1, <1>2 DEF IndexInv
<1>4. ~HalfWritten(p)  BY DEF HalfWritten, WritePc
<1>5. \A q \in Pid \ {p} : ~HalfWritten(q)
      BY <1>1, AloneOwner DEF OwnerPc, HalfWritten
<1> QED  BY <1>3, <1>4, <1>5 DEF RInv, SeqnoInv

\* GetBegSeqnoFromDiskLoop asks for what comes after all in the loop, and nothing
\* before that is unaccounted for.
LEMMA AsksForNext ==
  ASSUME RInv, NEW p \in Pid, pc[p] = "ready"
  PROVE  /\ BegSeqno \in Nat \ {0}
         /\ \A i \in 1..Len(log) : log[i] < BegSeqno
         /\ \A s \in 1..(BegSeqno - 1) : Accounted(s)
<1>1. index = Committed /\ \A s \in 1..seqno : Accounted(s)  BY AtRest
<1>2. /\ TypeOK /\ LogInv /\ log \in Seq(Nat) /\ Count \in Nat /\ Count = Len(log)
      /\ seqno \in Nat
      BY DEF RInv, IInv, TypeOK, Count
<1>3. CASE Count = 0
  <2>1. index.yngest = Undefined  BY <1>1, <1>3 DEF Committed, IndexAfter
  <2>2. BegSeqno = 1  BY <2>1 DEF BegSeqno
  <2> QED  BY <1>2, <1>3, <2>2
<1>4. CASE Count > 0
  <2>1. N \in Nat \ {0} /\ NumPkt \in Nat \ {0}  BY Slots, SizeAssumption
  <2>2. index.yngest = (Count - 1) % N
        BY <1>1, <1>2, <1>4 DEF Committed, IndexAfter
  <2>3. (Count - 1) % N \in 0..(N - 1)
    <3>1. Count - 1 \in Nat  BY <1>2, <1>4
    <3> QED  BY <2>1, <3>1, ModRange
  <2>4. index.yngest # Undefined  BY <2>2, <2>3 DEF Undefined
  <2>5. Count \in 1..Count /\ Count > Count - NumPkt  BY <1>2, <1>4, <2>1
  <2>6. Stored(Count)  BY <2>5 DEF RInv, IInv, RingInv, ContentInv
  <2>7. hdr[index.yngest] = log[Count]  BY <2>2, <2>6 DEF Stored
  <2>8. /\ log[Count] \in Nat /\ 1 <= log[Count] /\ log[Count] <= seqno
        BY <1>2, <1>4 DEF LogInv
  <2>9. BegSeqno = log[Count] + 1
        BY <2>4, <2>7, <2>8 DEF BegSeqno, After, NoPkt
  <2>10. \A i \in 1..Len(log) : log[i] <= log[Count]
    <3>1. ASSUME NEW i \in 1..Len(log) PROVE log[i] <= log[Count]
      <4>1. log[i] \in Nat  BY <1>2
      <4>2. i = Count \/ log[i] < log[Count]
            BY <1>2, <1>4 DEF LogInv, StoredOnce
      <4> QED  BY <2>8, <4>1, <4>2
    <3> QED  BY <3>1
  <2>11. \A i \in 1..Len(log) : log[i] < BegSeqno
    <3>1. \A i \in 1..Len(log) : log[i] \in Nat  BY <1>2
    <3> QED  BY <2>8, <2>9, <2>10, <3>1
  <2> QED  BY <1>1, <1>2, <2>8, <2>9, <2>11
<1> QED  BY <1>2, <1>3, <1>4

LEMMA ConnectKeeps ==
  ASSUME RInv, NEW p \in Pid, Connect(p)
  PROVE  RInv'
<1> DEFINE b == BegSeqno
           h == HubOldest
           n == IF b < h THEN h ELSE b
<1>1. /\ pc[p] = "ready" /\ taken[p] = NoPkt /\ p \notin online
      /\ online' = online \cup {p}
      /\ next' = [next EXCEPT ![p] = n]
      /\ missed' = missed \cup (b..(h - 1))
      /\ UNCHANGED <<vars, hub, net, taken, cut>>
      BY DEF Connect, Idle
<1>2. RTypeOK /\ Feed(p) /\ Order(p) /\ Account(p)  BY DEF RInv
<1>3. /\ b \in Nat \ {0}
      /\ \A i \in 1..Len(log) : log[i] < b
      /\ \A s \in 1..(b - 1) : Accounted(s)
      BY <1>1, AsksForNext
<1>4. h \in Nat \ {0}
      BY <1>2, RelayAssumption DEF RTypeOK, HubOldest
<1>5. UNCHANGED <<pc, log, seqno>> /\ log \in Seq(Nat)
      BY <1>1 DEF vars, RInv, IInv, TypeOK
<1> HIDE DEF b, h
<1>6. n \in Nat \ {0} /\ b <= n  BY <1>3, <1>4
<1>7. net[p] = <<>>  BY <1>1, <1>2 DEF Feed
<1>8. /\ next'[p] = n /\ net'[p] = <<>> /\ taken'[p] = NoPkt /\ p \in online'
      /\ \A q \in Pid \ {p} : next'[q] = next[q] /\ (q \in online' <=> q \in online)
      BY <1>1, <1>2, <1>7 DEF RTypeOK
<1>9. \A s : Accounted(s) => Accounted(s)'  BY <1>1, <1>5, AccountedStays
<1>10. \A s \in 1..(n - 1) : Accounted(s)'
  <2>1. ASSUME NEW s \in 1..(n - 1) PROVE Accounted(s)'
    <3>1. CASE s < b  BY <1>3, <1>6, <1>9, <3>1
    <3>2. CASE s >= b
      <4>1. s \in b..(h - 1)  BY <1>3, <1>4, <3>2
      <4> QED  BY <1>1, <4>1 DEF Accounted
    <3> QED  BY <1>3, <3>1, <3>2
  <2> QED  BY <2>1
<1> HIDE DEF n
<1>11. Due(p)' = n  BY <1>6, <1>8, NoRun DEF Due
<1>12. RTypeOK'  BY <1>1, <1>2, <1>6 DEF RTypeOK
<1>13. Feed(p)'
  <2>1. Before(net'[p], next'[p])  BY <1>8, NoRun
  <2>2. pc'[p] = "ready"  BY <1>1, <1>5
  <2> QED  BY <1>6, <1>8, <1>11, <2>1, <2>2 DEF Feed, NoPkt, WritePc
<1>14. Order(p)'
  <2>1. \A i \in 1..Len(log) : log[i] < n
    <3>1. \A i \in 1..Len(log) : log[i] \in Nat  BY <1>5
    <3> QED  BY <1>3, <1>6, <3>1
  <2>2. pc'[p] = "ready"  BY <1>1, <1>5
  <2> QED  BY <1>5, <1>8, <1>11, <2>1, <2>2 DEF Order, HalfWritten, WritePc
<1>15. Account(p)'  BY <1>8, <1>10, <1>11 DEF Account
<1> QED  BY <1>1, <1>8, <1>12, <1>13, <1>14, <1>15, FeedSteps

LEMMA SendKeeps ==
  ASSUME RInv, NEW p \in Pid, ServerSends(p)
  PROVE  RInv'
<1>1. /\ p \in online
      /\ net' = [net EXCEPT ![p] = Append(@, next[p])]
      /\ next' = [next EXCEPT ![p] = @ + 1]
      /\ UNCHANGED <<vars, hub, online, taken, missed, cut>>
      BY DEF ServerSends
<1>2. RTypeOK /\ Feed(p) /\ Order(p) /\ Account(p)  BY DEF RInv
<1>3. UNCHANGED <<pc, log, seqno>>  BY <1>1 DEF vars
<1>4. net[p] \in Seq(Nat) /\ next[p] \in Nat /\ Before(net[p], next[p])
      BY <1>1, <1>2 DEF RTypeOK, Feed
<1>5. /\ net'[p] \in Seq(Nat)
      /\ Len(net'[p]) = Len(net[p]) + 1
      /\ next'[p] = next[p] + 1
      /\ Before(net'[p], next'[p])
  <2>1. net'[p] = Append(net[p], next[p]) /\ next'[p] = next[p] + 1
        BY <1>1, <1>2 DEF RTypeOK
  <2> QED  BY <1>4, <2>1, RunGrows
<1>6. Due(p)' = Due(p)
  <2>1. \A k, n \in Nat : (n + 1) - (k + 1) = n - k  OBVIOUS
  <2>2. Len(net[p]) \in Nat /\ next[p] \in Nat  BY <1>4
  <2>3. (next[p] + 1) - (Len(net[p]) + 1) = next[p] - Len(net[p])  BY <2>1, <2>2
  <2>4. next'[p] - Len(net'[p]) = (next[p] + 1) - (Len(net[p]) + 1)  BY <1>5
  <2> QED  BY <2>3, <2>4 DEF Due
<1>7. RTypeOK'  BY <1>1, <1>2, <1>4, <1>5 DEF RTypeOK
<1>8. Feed(p)'  BY <1>1, <1>2, <1>3, <1>5, <1>6 DEF Feed
<1>9. Order(p)'  BY <1>1, <1>2, <1>3, <1>6 DEF Order, HalfWritten
<1>10. Account(p)'
       BY <1>1, <1>2, <1>3, <1>6, AccountedStays DEF Account
<1>11. \A q \in Pid \ {p} : net'[q] = net[q] /\ next'[q] = next[q]
       BY <1>1, <1>2 DEF RTypeOK
<1> QED  BY <1>1, <1>7, <1>8, <1>9, <1>10, <1>11, FeedSteps

\* A connection that ends.
LEMMA OfflineKeeps ==
  ASSUME RInv, NEW p \in Pid, Offline(p),
         UNCHANGED <<vars, hub, next, taken, missed, cut>>
  PROVE  RInv'
<1>1. RTypeOK /\ Feed(p) /\ Order(p) /\ Account(p)  BY DEF RInv
<1>2. UNCHANGED <<pc, log, seqno>>  BY DEF vars
<1>3. /\ online' = online \ {p} /\ p \notin online'
      /\ net' = [net EXCEPT ![p] = <<>>] /\ net'[p] = <<>>
      BY <1>1 DEF Offline, RTypeOK
<1>4. RTypeOK'  BY <1>1, <1>3, NoRun DEF RTypeOK
<1>5. Feed(p)'  BY <1>1, <1>2, <1>3 DEF Feed
<1>6. Order(p)'  BY <1>1, <1>2, <1>3 DEF Order, HalfWritten
<1>7. Account(p)'  BY <1>1, <1>2, <1>3, AccountedStays DEF Account
<1>8. \A q \in Pid \ {p} : net'[q] = net[q] /\ (q \in online' <=> q \in online)
      BY <1>1, <1>3 DEF RTypeOK
<1> QED  BY <1>4, <1>5, <1>6, <1>7, <1>8, FeedSteps

\* VerifySequence lets through what comes after all in the loop, and refuses
\* only what is accounted for.
LEMMA ReceiveKeeps ==
  ASSUME RInv, NEW p \in Pid, Receive(p)
  PROVE  RInv'
<1> DEFINE m == Head(net[p])
<1>1. /\ pc[p] = "ready" /\ taken[p] = NoPkt /\ p \in online /\ net[p] # <<>>
      /\ net' = [net EXCEPT ![p] = Tail(@)]
      /\ taken' = IF Accepted(m) THEN [taken EXCEPT ![p] = m] ELSE taken
      /\ UNCHANGED <<vars, hub, online, next, missed, cut>>
      BY DEF Receive, Idle
<1>2. RTypeOK /\ Feed(p) /\ Order(p) /\ Account(p)  BY DEF RInv
<1>3. UNCHANGED <<pc, log, seqno, count>>  BY <1>1 DEF vars
<1>4. /\ net[p] \in Seq(Nat) /\ next[p] \in Nat /\ Before(net[p], next[p])
      /\ Due(p) >= 1
      BY <1>1, <1>2 DEF RTypeOK, Feed
<1>5. /\ Tail(net[p]) \in Seq(Nat)
      /\ Len(Tail(net[p])) = Len(net[p]) - 1
      /\ Before(Tail(net[p]), next[p])
      /\ m = next[p] - Len(net[p])
      /\ Len(net[p]) \in Nat \ {0}
      BY <1>1, <1>4, RunShrinks
<1>6. net'[p] = Tail(net[p]) /\ next'[p] = next[p]  BY <1>1, <1>2 DEF RTypeOK
<1>7. m = Due(p) /\ m \in Nat \ {0}  BY <1>4, <1>5 DEF Due
<1>8. Due(p)' = m + 1  BY <1>4, <1>5, <1>6 DEF Due
<1> HIDE DEF m
<1>9. /\ taken'[p] = IF Accepted(m) THEN m ELSE NoPkt
      /\ taken' \in [Pid -> Nat]
      /\ \A q \in Pid \ {p} : taken'[q] = taken[q] /\ net'[q] = net[q]
      BY <1>1, <1>2, <1>7 DEF RTypeOK
<1>10. RTypeOK'
  <2>1. net' \in [Pid -> Seq(Nat)]  BY <1>1, <1>2, <1>5 DEF RTypeOK
  <2> QED  BY <1>1, <1>2, <1>9, <2>1 DEF RTypeOK
<1>11. Feed(p)'
  <2>1. pc'[p] = "ready" /\ p \in online'  BY <1>1, <1>3
  <2>2. taken'[p] < m + 1  BY <1>7, <1>9 DEF NoPkt
  <2>3. Before(net'[p], next'[p])  BY <1>5, <1>6
  <2> QED  BY <1>7, <1>8, <2>1, <2>2, <2>3 DEF Feed, WritePc
<1>12. log \in Seq(Nat) /\ \A i \in 1..Len(log) : log[i] \in Nat /\ log[i] < m
  <2>1. log \in Seq(Nat)  BY DEF RInv, IInv, TypeOK
  <2> QED  BY <1>1, <1>2, <1>7, <2>1 DEF Order
<1>13. Order(p)'
  <2>1. pc'[p] = "ready" /\ p \in online'  BY <1>1, <1>3
  <2>2. taken'[p] # NoPkt => taken'[p] = m  BY <1>9
  <2>3. \A i \in 1..Len(log) : log[i] < m + 1  BY <1>7, <1>12
  <2> QED  BY <1>3, <1>8, <1>12, <2>1, <2>2, <2>3 DEF Order, HalfWritten, WritePc
<1>14. \A s \in 1..(m - 1) : Accounted(s)
  <2>1. NoPkt \notin 1..(m - 1)  BY DEF NoPkt
  <2> QED  BY <1>1, <1>2, <1>7, <2>1 DEF Account
<1>15. ~Accepted(m) => Accounted(m)
  <2>1. ASSUME ~Accepted(m) PROVE m \in 1..seqno
    <3>1. seqno \in Nat  BY DEF RInv, IInv, TypeOK
    <3> QED  BY <1>7, <2>1, <3>1 DEF Accepted
  <2> QED  BY <1>1, <2>1, AtRest
<1>16. \A s : Accounted(s) => Accounted(s)'  BY <1>1, <1>3, AccountedStays
<1>17. Account(p)'
  <2>1. \A s \in 1..(m - 1) : Accounted(s)'  BY <1>14, <1>16
  <2>2. \A s \in 1..m : Accounted(s)' \/ s = taken'[p]
        BY <1>7, <1>9, <1>15, <1>16, <2>1
  <2>3. (m + 1) - 1 = m  BY <1>7
  <2>4. taken'[p] # NoPkt => taken'[p] = m  BY <1>9
  <2> QED  BY <1>8, <2>1, <2>2, <2>3, <2>4 DEF Account
<1> QED  BY <1>1, <1>9, <1>10, <1>11, <1>13, <1>17, FeedSteps

-----------------------------------------------------------------------------
(***************************************************************************)
(* Steps of the loop.                                                      *)
(***************************************************************************)
LEMMA LoopKeeps == IInv /\ [Next]_vars => IInv'
BY AccessStep, TypeStep, RingBumps, RingStep DEF IInv, AccessInv

\* Opening, closing and being killed: what the relay had is gone, and a number
\* it had stored is accounted for.
LEMMA LeavesKeeps ==
  ASSUME RInv, IInv', NEW p \in Pid, RTypeOK',
         \A q \in Pid \ {p} : /\ pc'[q] = pc[q]
                              /\ taken'[q] = taken[q] /\ net'[q] = net[q]
                              /\ next'[q] = next[q]
                              /\ q \in online' <=> q \in online,
         UNCHANGED <<log, seqno>>, missed \subseteq missed', cut \subseteq cut',
         pc'[p] \notin WritePc, p \notin online',
         taken'[p] = NoPkt, net'[p] = <<>>,
         HalfWritten(p) => seqno \in cut'
  PROVE  RInv'
<1>1. LogInv'  BY DEF RInv, LogInv, StoredOnce
<1>2. \A s : Accounted(s) => Accounted(s)'  BY AccountedStays
<1>3. SeqnoInv'
  <2>1. ASSUME NEW s \in 1..seqno, ~Accounted(s)'
        PROVE  s = seqno /\ \E q \in Pid : HalfWritten(q)'
    <3>1. s = seqno /\ \E q \in Pid : HalfWritten(q)
          BY <1>2, <2>1 DEF RInv, SeqnoInv
    <3>2. PICK q \in Pid : HalfWritten(q)  BY <3>1
    <3>3. q # p  BY <2>1, <3>1, <3>2 DEF Accounted
    <3>4. HalfWritten(q)'  BY <3>2, <3>3 DEF HalfWritten
    <3> QED  BY <3>1, <3>4
  <2> QED  BY <2>1 DEF SeqnoInv
<1>4. Feed(p)' /\ Order(p)' /\ Account(p)'
      BY DEF Feed, Order, Account, HalfWritten, WritePc
<1>5. ASSUME NEW q \in Pid, q # p PROVE Feed(q)' /\ Order(q)' /\ Account(q)'
      BY <1>5, OtherKeeps
<1> QED  BY <1>1, <1>3, <1>4, <1>5 DEF RInv

LEMMA StartKeeps ==
  ASSUME RInv, IInv', NEW p \in Pid, Start(p)
  PROVE  RInv'
<1>1. TypeOK /\ RTypeOK /\ Feed(p)  BY DEF RInv, IInv
<1>2. UNCHANGED <<hub, online, next, net, taken, missed, cut>>
      BY DEF Start, relayvars
<1>3. \E from \in {"dead", "start"} \cup OpenPc, to \in PcValues \ WritePc :
        At(p, from, to) /\ UNCHANGED <<log, seqno>>
  <2>1. CASE Open(p)
        BY <2>1 DEF Open, OpenLock, OpenRefused, OpenClaim, OpenClean, OpenRestore,
                    OpenSetIdle, OpenUnlock, sysvars, OpenPc, PcValues, LockedPc, WritePc
  <2>2. CASE At(p, "dead", "start")
        BY <2>2 DEF Start, At, sysvars, PcValues, WritePc
  <2> QED  BY <2>1, <2>2 DEF Start
<1>4. PICK from \in {"dead", "start"} \cup OpenPc, to \in PcValues \ WritePc :
        At(p, from, to) /\ UNCHANGED <<log, seqno>>
      BY <1>3
<1>5. /\ pc[p] = from /\ pc'[p] = to
      /\ \A q \in Pid \ {p} : pc'[q] = pc[q]
      BY <1>1, <1>4 DEF At, TypeOK
<1>6. pc[p] \notin {"ready"} \cup WritePc  BY <1>5 DEF OpenPc, WritePc
<1>7. p \notin online /\ taken[p] = NoPkt /\ net[p] = <<>>
      BY <1>1, <1>6 DEF Feed
<1>8. ~HalfWritten(p)  BY <1>6 DEF HalfWritten
<1>9. RTypeOK'  BY <1>1, <1>2 DEF RTypeOK
<1> QED  BY <1>2, <1>4, <1>5, <1>7, <1>8, <1>9, LeavesKeeps

LEMMA StopKeeps ==
  ASSUME RInv, IInv', NEW p \in Pid, Stop(p)
  PROVE  RInv'
<1>1. TypeOK /\ RTypeOK /\ Feed(p)  BY DEF RInv, IInv
<1>2. UNCHANGED <<hub, next, taken, missed, cut>> /\ Offline(p)
      BY DEF Stop
<1>3. \E from \in {"ready"} \cup ClosePc, to \in PcValues \ WritePc :
        /\ At(p, from, to) /\ UNCHANGED <<log, seqno>>
        /\ from = "ready" => taken[p] = NoPkt
  <2>1. CASE CloseLock(p) /\ taken[p] = NoPkt
        BY <2>1 DEF CloseLock, sysvars, ClosePc, PcValues, LockedPc, WritePc
  <2>2. CASE Close(p)
        BY <2>2 DEF Close, CloseParent, CloseDisown, CloseNotParent, CloseInactive,
                    sysvars, ClosePc, PcValues, LockedPc, WritePc
  <2> QED  BY <2>1, <2>2 DEF Stop
<1>4. PICK from \in {"ready"} \cup ClosePc, to \in PcValues \ WritePc :
        /\ At(p, from, to) /\ UNCHANGED <<log, seqno>>
        /\ from = "ready" => taken[p] = NoPkt
      BY <1>3
<1>5. /\ pc[p] = from /\ pc'[p] = to
      /\ \A q \in Pid \ {p} : pc'[q] = pc[q]
      BY <1>1, <1>4 DEF At, TypeOK
<1>6. taken[p] = NoPkt /\ ~HalfWritten(p)
      BY <1>1, <1>4, <1>5 DEF Feed, ClosePc, WritePc, HalfWritten
<1>7. /\ p \notin online' /\ net'[p] = <<>>
      /\ \A q \in Pid \ {p} : net'[q] = net[q] /\ (q \in online' <=> q \in online)
      BY <1>1, <1>2 DEF Offline, RTypeOK
<1>8. RTypeOK'  BY <1>1, <1>2, NoRun DEF RTypeOK, Offline
<1> QED  BY <1>2, <1>4, <1>5, <1>6, <1>7, <1>8, LeavesKeeps

LEMMA KillKeeps ==
  ASSUME RInv, IInv', NEW p \in Pid, Kill(p)
  PROVE  RInv'
<1>1. TypeOK /\ RTypeOK  BY DEF RInv, IInv
<1>2. /\ UNCHANGED <<hub, next, missed, log, seqno>> /\ Offline(p)
      /\ taken' = [taken EXCEPT ![p] = NoPkt]
      /\ cut' = IF HalfWritten(p) THEN cut \cup {seqno} ELSE cut
      /\ pc' = [pc EXCEPT ![p] = "dead"]
      BY DEF Kill, Crash, sysvars
<1>3. /\ pc'[p] \notin WritePc
      /\ \A q \in Pid \ {p} : pc'[q] = pc[q]
      BY <1>1, <1>2 DEF TypeOK, WritePc
<1>4. /\ taken'[p] = NoPkt /\ taken' \in [Pid -> Nat]
      /\ \A q \in Pid \ {p} : taken'[q] = taken[q]
      BY <1>1, <1>2 DEF RTypeOK, NoPkt
<1>5. /\ p \notin online' /\ net'[p] = <<>>
      /\ \A q \in Pid \ {p} : net'[q] = net[q] /\ (q \in online' <=> q \in online)
      BY <1>1, <1>2 DEF Offline, RTypeOK
<1>6. RTypeOK'  BY <1>1, <1>2, <1>4, NoRun DEF RTypeOK, Offline
<1>7. cut \subseteq cut' /\ (HalfWritten(p) => seqno \in cut')  BY <1>2
<1> QED  BY <1>2, <1>3, <1>4, <1>5, <1>6, <1>7, LeavesKeeps

-----------------------------------------------------------------------------
(***************************************************************************)
(* Writing a packet.                                                       *)
(***************************************************************************)

\* What a step of WritePacketToDisk does to the numbers.
Prepares(p) ==
  /\ pc[p] \in {"ready", "locked", "backed"}
  /\ pc'[p] \in {"locked", "backed", "activated"}
  /\ UNCHANGED <<log, seqno>>
Stamps(p) ==
  /\ pc[p] = "activated" /\ pc'[p] = "stamped"
  /\ UNCHANGED log
Proceeds(p) ==
  /\ pc[p] \in NumberedPc /\ pc'[p] \in NumberedPc
  /\ UNCHANGED <<log, seqno>>
Fails(p) ==
  /\ pc[p] \in NumberedPc /\ pc'[p] = "ready"
  /\ UNCHANGED <<log, seqno>>
Commits(p) ==
  /\ pc[p] = "incremented" /\ pc'[p] = "committed"
  /\ log' = Append(log, seqno)
  /\ UNCHANGED seqno
Counts(p) ==
  /\ pc[p] = "committed" /\ pc'[p] = "counted"
  /\ UNCHANGED <<log, seqno>>
Ends(p) ==
  /\ pc[p] = "counted" /\ pc'[p] = "ready"
  /\ UNCHANGED <<log, seqno>>

LEMMA WriteMoves ==
  ASSUME TypeOK, NEW p \in Pid, WriteLock(p) \/ Write(p)
  PROVE  /\ \A q \in Pid \ {p} : pc'[q] = pc[q]
         /\ \/ Prepares(p) \/ Stamps(p) \/ Proceeds(p) \/ Fails(p)
            \/ Commits(p) \/ Counts(p) \/ Ends(p)
<1> USE DEF At, sysvars, NumberedPc, UpdatePc
<1>0. pc \in [Pid -> PcValues]  BY DEF TypeOK
<1>1. CASE WriteLock(p)  BY <1>0, <1>1 DEF WriteLock, Prepares
<1>2. CASE WriteBackup(p)  BY <1>0, <1>2 DEF WriteBackup, Prepares
<1>3. CASE WriteActivate(p)  BY <1>0, <1>3 DEF WriteActivate, Prepares
<1>4. CASE WriteSeqno(p)  BY <1>0, <1>4 DEF WriteSeqno, Stamps
<1>5. CASE WriteHdr(p)  BY <1>0, <1>5 DEF WriteHdr, Proceeds
<1>6. CASE WriteRaw(p)  BY <1>0, <1>6 DEF WriteRaw, Proceeds
<1>7. CASE WriteHdrFails(p)  BY <1>0, <1>7 DEF WriteHdrFails, Fails
<1>8. CASE WriteRawFails(p)  BY <1>0, <1>8 DEF WriteRawFails, Fails
<1>9. CASE WriteUpdate(p)  BY <1>0, <1>9 DEF WriteUpdate, Proceeds
<1>10. CASE IncOldest(p) \/ IncYngest(p) \/ IncLend(p) \/ IncSlide(p) \/ IncActive(p)
  <2>1. UNCHANGED <<log, seqno>>
        BY <1>10 DEF IncOldest, IncYngest, IncLend, IncSlide, IncActive, Increment
  <2>2. \E from, to \in UpdatePc : At(p, from, to)
        BY <1>10 DEF IncOldest, IncYngest, IncLend, IncSlide, IncActive, Increment
  <2> QED  BY <1>0, <2>1, <2>2 DEF Proceeds
<1>11. CASE WriteCommit(p)  BY <1>0, <1>11 DEF WriteCommit, Commits
<1>12. CASE WriteCount(p)  BY <1>0, <1>12 DEF WriteCount, Counts
<1>13. CASE WriteUnlock(p)  BY <1>0, <1>13 DEF WriteUnlock, Ends
<1> QED  BY <1>1, <1>2, <1>3, <1>4, <1>5, <1>6, <1>7, <1>8, <1>9, <1>10, <1>11,
            <1>12, <1>13 DEF Write

\* While one process owns the loop, no other has anything to lose.
LEMMA Bystander ==
  ASSUME RInv, NEW p \in Pid, pc[p] \in {"ready"} \cup WritePc,
         NEW q \in Pid, q # p, pc'[q] = pc[q],
         taken'[q] = taken[q], net'[q] = net[q], online' = online
  PROVE  (Feed(q) /\ Order(q) /\ Account(q))' /\ ~HalfWritten(q)'
<1>1. pc[q] \notin {"ready"} \cup WritePc
      BY AloneOwner DEF RInv, IInv, AccessInv, OwnerPc
<1>2. q \notin online /\ taken[q] = NoPkt /\ net[q] = <<>>
      BY <1>1 DEF RInv, Feed
<1> QED  BY <1>1, <1>2 DEF Feed, Order, Account, HalfWritten, WritePc

LEMMA StoreKeeps ==
  ASSUME RInv, IInv', NEW p \in Pid, Store(p)
  PROVE  RInv'
<1>1. /\ TypeOK /\ RTypeOK /\ LogInv /\ SeqnoInv /\ Feed(p) /\ Order(p) /\ Account(p)
      BY DEF RInv, IInv
<1>2. /\ taken[p] # NoPkt
      /\ WriteLock(p) \/ Write(p)
      /\ pc[p] = "activated" => seqno' = taken[p]
      /\ taken' = IF pc'[p] = "ready" THEN [taken EXCEPT ![p] = NoPkt] ELSE taken
      /\ cut' = IF HalfWritten(p) /\ pc'[p] = "ready" THEN cut \cup {seqno} ELSE cut
      /\ UNCHANGED <<hub, online, next, net, missed>>
      BY DEF Store
<1>3. /\ \A q \in Pid \ {p} : pc'[q] = pc[q]
      /\ \/ Prepares(p) \/ Stamps(p) \/ Proceeds(p) \/ Fails(p)
         \/ Commits(p) \/ Counts(p) \/ Ends(p)
      BY <1>1, <1>2, WriteMoves
<1>4. /\ taken' \in [Pid -> Nat]
      /\ \A q \in Pid \ {p} : taken'[q] = taken[q]
      /\ taken'[p] = IF pc'[p] = "ready" THEN NoPkt ELSE taken[p]
      /\ taken[p] \in Nat
      BY <1>1, <1>2 DEF RTypeOK, NoPkt
<1>5. RTypeOK'  BY <1>1, <1>2, <1>4 DEF RTypeOK
<1>6. pc[p] \in {"ready"} \cup WritePc
      BY <1>3 DEF Prepares, Stamps, Proceeds, Fails, Commits, Counts, Ends,
                  NumberedPc, UpdatePc, WritePc
<1>7. ASSUME NEW q \in Pid, q # p
      PROVE  (Feed(q) /\ Order(q) /\ Account(q))' /\ ~HalfWritten(q)'
      BY <1>2, <1>3, <1>4, <1>6, <1>7, Bystander
<1>8. \A q \in Pid : HalfWritten(q) => q = p
      BY <1>6, AloneOwner DEF RInv, IInv, AccessInv, OwnerPc, HalfWritten
<1>9. Due(p)' = Due(p) /\ cut \subseteq cut' /\ missed \subseteq missed'
      BY <1>2 DEF Due
<1>10. /\ log \in Seq(Nat) /\ seqno \in Nat
       /\ \A i \in 1..Len(log) : log[i] \in Nat
       BY <1>1 DEF TypeOK
<1>11. HalfWritten(p) <=> pc[p] \in NumberedPc  BY HalfIsNumbered
<1>12. HalfWritten(p)' <=> pc'[p] \in NumberedPc
       BY DEF HalfWritten, WritePc, NumberedPc, UpdatePc
<1> SUFFICES LogInv' /\ SeqnoInv' /\ Feed(p)' /\ Order(p)' /\ Account(p)'
    BY <1>5, <1>7 DEF RInv
<1>13. Feed(p)'
  <2>1. pc'[p] \in {"ready"} \cup WritePc
        BY <1>3 DEF Prepares, Stamps, Proceeds, Fails, Commits, Counts, Ends,
                    NumberedPc, UpdatePc, WritePc
  <2>2. pc'[p] \in WritePc => taken'[p] # NoPkt  BY <1>2, <1>4 DEF WritePc
  <2>3. taken'[p] = taken[p] \/ taken'[p] = NoPkt  BY <1>4
  <2>4. p \in online => taken'[p] < Due(p)
        BY <1>1, <1>4, <2>3 DEF Feed, RTypeOK, Due, NoPkt
  <2> QED  BY <1>1, <1>2, <1>9, <2>1, <2>2, <2>4 DEF Feed
<1>14. CASE Prepares(p) \/ Proceeds(p)
  <2>1. /\ UNCHANGED <<log, seqno>> /\ taken'[p] = taken[p]
        /\ pc[p] \notin {"committed", "counted"} /\ pc'[p] \notin {"committed", "counted"}
        /\ HalfWritten(p)' <=> HalfWritten(p)
        BY <1>4, <1>11, <1>12, <1>14 DEF Prepares, Proceeds, NumberedPc, UpdatePc
  <2>2. \A s : Accounted(s) => Accounted(s)'  BY <1>9, <2>1, AccountedStays
  <2>3. LogInv'  BY <1>1, <2>1 DEF LogInv, StoredOnce
  <2>4. SeqnoInv'  BY <1>1, <1>8, <2>1, <2>2 DEF SeqnoInv
  <2>5. Order(p)'  BY <1>1, <1>2, <1>9, <2>1 DEF Order
  <2>6. Account(p)'  BY <1>1, <1>2, <1>9, <2>1, <2>2 DEF Account
  <2> QED  BY <1>13, <2>3, <2>4, <2>5, <2>6
<1>15. CASE Stamps(p)
  <2>1. /\ pc[p] = "activated" /\ pc'[p] = "stamped" /\ log' = log
        /\ seqno' = taken[p] /\ taken'[p] = taken[p]
        BY <1>2, <1>4, <1>15 DEF Stamps
  <2>2. \A s : Accounted(s) => Accounted(s)'  BY <1>9, <2>1, AccountedStays
  <2>3. HalfWritten(p)'  BY <1>12, <2>1 DEF NumberedPc
  <2>4. \A i \in 1..Len(log) : log[i] < taken[p]  BY <1>1, <1>2, <2>1 DEF Order
  <2>5. LogInv'  BY <1>1, <1>4, <1>10, <2>1, <2>4 DEF LogInv, StoredOnce
  <2>6. \A s \in 1..(taken[p] - 1) : Accounted(s)'  BY <1>1, <1>2, <2>2 DEF Account
  <2>7. SeqnoInv'
    <3>1. ASSUME NEW s \in 1..taken[p] PROVE s = taken[p] \/ s \in 1..(taken[p] - 1)
          BY <1>4
    <3> QED  BY <2>1, <2>3, <2>6, <3>1 DEF SeqnoInv
  <2>8. Order(p)'  BY <1>1, <1>2, <1>9, <2>1, <2>4 DEF Order
  <2>9. Account(p)'  BY <1>1, <1>2, <1>9, <2>1, <2>2 DEF Account
  <2> QED  BY <1>13, <2>5, <2>7, <2>8, <2>9
<1>16. CASE Fails(p)
  <2>1. /\ UNCHANGED <<log, seqno>> /\ HalfWritten(p) /\ pc'[p] = "ready"
        /\ taken'[p] = NoPkt /\ seqno = taken[p] /\ cut' = cut \cup {seqno}
        BY <1>1, <1>2, <1>4, <1>11, <1>16 DEF Fails, Order
  <2>2. \A s : Accounted(s) => Accounted(s)'  BY <1>9, <2>1, AccountedStays
  <2>3. Accounted(seqno)'  BY <2>1 DEF Accounted
  <2>4. LogInv'  BY <1>1, <2>1 DEF LogInv, StoredOnce
  <2>5. SeqnoInv'  BY <1>1, <2>1, <2>2, <2>3 DEF SeqnoInv
  <2>6. ~HalfWritten(p)'  BY <1>12, <2>1 DEF NumberedPc, UpdatePc
  <2>7. Order(p)'  BY <1>1, <1>2, <1>9, <2>1, <2>6 DEF Order
  <2>8. Account(p)'  BY <1>1, <1>2, <1>9, <2>1, <2>2, <2>3 DEF Account
  <2> QED  BY <1>13, <2>4, <2>5, <2>7, <2>8
<1>17. CASE Commits(p)
  <2>1. /\ pc[p] = "incremented" /\ pc'[p] = "committed"
        /\ log' = Append(log, seqno) /\ seqno' = seqno /\ taken'[p] = taken[p]
        BY <1>4, <1>17 DEF Commits
  <2>2. HalfWritten(p) /\ seqno = taken[p]
        BY <1>1, <1>11, <2>1 DEF Order, NumberedPc, UpdatePc
  <2>3. \A i \in 1..Len(log) : log[i] < seqno
        BY <1>1, <1>2, <2>1, <2>2 DEF Order
  <2>4. /\ Len(log') = Len(log) + 1 /\ Len(log) \in Nat
        /\ \A i \in 1..Len(log) : log'[i] = log[i]
        /\ log'[Len(log) + 1] = seqno
        BY <1>10, <2>1, LogGrows
  <2>5. \A i \in 1..Len(log') : i \in 1..Len(log) \/ i = Len(log) + 1  BY <2>4
  <2>6. LogInv'
    <3>1. StoredOnce'
          BY <1>1, <2>3, <2>4, <2>5 DEF LogInv, StoredOnce
    <3>2. ASSUME NEW i \in 1..Len(log') PROVE 1 <= log'[i] /\ log'[i] <= seqno
          BY <1>1, <1>2, <1>4, <1>10, <2>2, <2>4, <2>5 DEF LogInv, NoPkt
    <3> QED  BY <2>1, <3>1, <3>2 DEF LogInv
  <2>7. \A s : Accounted(s) => Accounted(s)'
    <3>1. ASSUME NEW s, Accounted(s) PROVE Accounted(s)'
      <4>1. CASE s \in missed \cup cut  BY <1>9, <4>1 DEF Accounted
      <4>2. ASSUME NEW i \in 1..Len(log), s = log[i] PROVE Accounted(s)'
        <5>1. i \in 1..Len(log') /\ s = log'[i]  BY <2>4, <4>2
        <5> QED  BY <5>1 DEF Accounted
      <4> QED  BY <3>1, <4>1, <4>2 DEF Accounted
    <3> QED  BY <3>1
  <2>8. Accounted(seqno)'
    <3>1. Len(log) + 1 \in 1..Len(log')  BY <2>4
    <3> QED  BY <2>1, <2>4, <3>1 DEF Accounted
  <2>9. SeqnoInv'  BY <1>1, <2>1, <2>7, <2>8 DEF SeqnoInv
  <2>10. Order(p)'
    <3>1. ~HalfWritten(p)'  BY <1>12, <2>1 DEF NumberedPc, UpdatePc
    <3>2. Len(log') > 0 /\ log'[Len(log')] = taken'[p]  BY <2>1, <2>2, <2>4
    <3>3. ASSUME p \in online', NEW i \in 1..Len(log') PROVE log'[i] < Due(p)
          BY <1>1, <1>2, <2>2, <2>4, <2>5, <3>3 DEF Order, Feed
    <3> QED  BY <1>9, <2>1, <3>1, <3>2, <3>3 DEF Order
  <2>11. Account(p)'  BY <1>1, <1>2, <1>9, <2>1, <2>7 DEF Account
  <2> QED  BY <1>13, <2>6, <2>9, <2>10, <2>11
<1>18. CASE Counts(p)
  <2>1. /\ UNCHANGED <<log, seqno>> /\ taken'[p] = taken[p]
        /\ pc[p] = "committed" /\ pc'[p] = "counted"
        /\ ~HalfWritten(p) /\ ~HalfWritten(p)'
        BY <1>4, <1>11, <1>12, <1>18 DEF Counts, NumberedPc, UpdatePc
  <2>2. \A s : Accounted(s) => Accounted(s)'  BY <1>9, <2>1, AccountedStays
  <2>3. LogInv'  BY <1>1, <2>1 DEF LogInv, StoredOnce
  <2>4. SeqnoInv'  BY <1>1, <1>8, <2>1, <2>2 DEF SeqnoInv
  <2>5. Order(p)'  BY <1>1, <1>2, <1>9, <2>1 DEF Order
  <2>6. Account(p)'  BY <1>1, <1>2, <1>9, <2>1, <2>2 DEF Account
  <2> QED  BY <1>13, <2>3, <2>4, <2>5, <2>6
<1>19. CASE Ends(p)
  <2>1. /\ UNCHANGED <<log, seqno>> /\ taken'[p] = NoPkt
        /\ pc[p] = "counted" /\ pc'[p] = "ready"
        /\ ~HalfWritten(p) /\ ~HalfWritten(p)'
        BY <1>4, <1>11, <1>12, <1>19 DEF Ends, NumberedPc, UpdatePc
  <2>2. \A s : Accounted(s) => Accounted(s)'  BY <1>9, <2>1, AccountedStays
  <2>3. LogInv'  BY <1>1, <2>1 DEF LogInv, StoredOnce
  <2>4. SeqnoInv'  BY <1>1, <1>8, <2>1, <2>2 DEF SeqnoInv
  <2>5. Order(p)'  BY <1>1, <1>2, <1>9, <2>1 DEF Order
  <2>6. Accounted(taken[p])
    <3>1. Len(log) > 0 /\ log[Len(log)] = taken[p]  BY <1>1, <2>1 DEF Order
    <3>2. Len(log) \in 1..Len(log)  BY <1>10, <3>1
    <3> QED  BY <3>1, <3>2 DEF Accounted
  <2>7. Account(p)'  BY <1>1, <1>2, <1>9, <2>1, <2>2, <2>6 DEF Account
  <2> QED  BY <1>13, <2>3, <2>4, <2>5, <2>7
<1> QED  BY <1>3, <1>14, <1>15, <1>16, <1>17, <1>18, <1>19

-----------------------------------------------------------------------------
(***************************************************************************)
(* The theorems.                                                           *)
(***************************************************************************)
LEMMA RInitOK == RInit => RInv
<1> SUFFICES ASSUME RInit PROVE RInv  OBVIOUS
<1>1. Init  BY DEF RInit
<1>2. IInv  BY <1>1, TypeInit, AccessInit, RingInit DEF IInv, AccessInv
<1>3. /\ pc = [p \in Pid |-> "dead"] /\ log = <<>> /\ Len(log) = 0 /\ seqno = 0
      BY <1>1 DEF Init
<1>4. RTypeOK  BY NoRun DEF RInit, RTypeOK, NoPkt
<1>5. LogInv /\ SeqnoInv  BY <1>3 DEF LogInv, StoredOnce, SeqnoInv
<1>6. \A p \in Pid : Feed(p) /\ Order(p) /\ Account(p)
      BY <1>3 DEF RInit, Feed, Order, Account, HalfWritten, WritePc
<1> QED  BY <1>2, <1>4, <1>5, <1>6 DEF RInv

LEMMA RNextOK == RInv /\ [RNext]_rvars => RInv'
<1> SUFFICES ASSUME RInv, [RNext]_rvars PROVE RInv'  OBVIOUS
<1>1. IInv'
      BY RelayStep, LoopKeeps DEF RInv, rvars
<1>2. CASE UNCHANGED rvars
  <2>1. UNCHANGED <<vars, hub, online, next, net, taken, missed, cut>>
        BY <1>2 DEF rvars, relayvars
  <2>2. UNCHANGED <<pc, log, seqno>>  BY <2>1 DEF vars
  <2> QED  BY <1>1, <2>1, <2>2
           DEF RInv, RTypeOK, LogInv, StoredOnce, SeqnoInv, Feed, Before, Due, Order,
               HalfWritten, Account, Accounted
<1>3. CASE HubWrites  BY <1>3, HubKeeps
<1>4. ASSUME NEW p \in Pid, Break(p) \/ ServerFault(p) PROVE RInv'
      BY <1>4, OfflineKeeps DEF Break, ServerFault
<1>5. ASSUME NEW p \in Pid, Connect(p) \/ ServerSends(p) \/ Receive(p) PROVE RInv'
      BY <1>5, ConnectKeeps, SendKeeps, ReceiveKeeps
<1>6. ASSUME NEW p \in Pid, Start(p) \/ Store(p) \/ Stop(p) \/ Kill(p) PROVE RInv'
      BY <1>1, <1>6, StartKeeps, StoreKeeps, StopKeeps, KillKeeps
<1> QED  BY <1>2, <1>3, <1>4, <1>5, <1>6 DEF RNext

LEMMA RelayCorrect == RSpec => []RInv
BY RInitOK, RNextOK, PTL DEF RSpec

\* The server's packets are in the relay's loop in order and at most once, over
\* any breaks, failed writes, kills and restarts (VerifySequence and
\* GetBegSeqnoFromDiskLoop).
THEOREM RelayedOnce == RSpec => []StoredOnce
<1>1. RInv => StoredOnce  BY DEF RInv, LogInv
<1> QED  BY <1>1, RelayCorrect, PTL

\* A packet that a newer one has overtaken is in the loop, or the server had
\* dropped it, or its write was cut short after WriteSeqno: the one hole in the
\* relay's restart.
THEOREM NothingElseLost == RSpec => []LostOnlyIfCut
<1>1. RInv => LostOnlyIfCut
  <2> SUFFICES ASSUME RInv, NEW s \in 1..MaxSeqno, NEW i \in 1..Len(log), s < log[i]
               PROVE  s \in missed \cup cut \/ \E j \in 1..Len(log) : s = log[j]
      BY DEF LostOnlyIfCut
  <2>1. log[i] \in Nat /\ seqno \in Nat /\ log[i] <= seqno
        BY DEF RInv, IInv, TypeOK, LogInv
  <2>2. s \in 1..seqno /\ s # seqno  BY <2>1, BoundAssumption
  <2>3. Accounted(s)  BY <2>2 DEF RInv, SeqnoInv
  <2> QED  BY <2>3 DEF Accounted
<1> QED  BY <1>1, RelayCorrect, PTL

-----------------------------------------------------------------------------
(***************************************************************************)
(* isid's sequence number requests: the invariant.                         *)
(***************************************************************************)
\* Not only the window's slots but all that the writer has not come round to
\* hold what was committed to them, and those it has never reached hold nothing.
DeepInv == /\ \A k \in 1..Count : ~Overrun(k) => Stored(k)
           /\ \A s \in Slot : s > Count => hdr[s] = NoPkt

LoopInv == IInv /\ CountInv /\ NumberInv /\ ReaderInv /\ UpdateInv /\ DeepInv

\* With the oldest one past the youngest, from before a recovery, they go round the
\* whole of a file that is not full.
Torn(ix, b) == b \in 1..(N - 1) /\ b <= Count /\ Span(ix, b, b + N)

\* What a snapshot's indices lead to, if the youngest of them is packet b: nothing,
\* the first packet of all while it is being written, or the packets up to b.
Shows(ix, b) ==
  \/ ix.oldest = Undefined
  \/ ix.oldest = 0 /\ ix.yngest = Undefined
  \/ ix.oldest = N /\ b \in Nat \ {0} /\ ix.yngest = (b - 1) % N
  \/ \E a \in Nat : Span(ix, a, b)
  \/ Torn(ix, b)

\* An oldest index that the loop has now, or has had.
OldestSeen(o) ==
  \/ o = Undefined
  \/ o = N /\ Count > 0
  \/ \E a \in 0..Count : o = a % N

\* The youngest that a snapshot taken now would show.
Showing == IF Early THEN Count + 1 ELSE Count

Phase == {"accepted", "loop", "snapoldest", "snapyngest", "snapcount", "check",
          "readhdr", "readraw", "send", "finished"}
Packets == Seq(Nat \X Nat)
Indices == [oldest : Bumped \cup {Undefined}, yngest : Bumped \cup {Undefined}]
ClientType ==
  [at : Phase, beg : Nat \cup {Oldest, Newest}, end : Nat \cup {Newest},
   continuous : BOOLEAN, status : {WAITING, READY, DONE},
   count : Nat, endndx : Bumped, nxtndx : Bumped,
   snapindex : Indices, snapcount : Nat, hdr : Nat, raw : Nat,
   sent : Packets, shown : Nat, pos : Int, gap : Int, ahead : BOOLEAN,
   lapped : BOOLEAN]

\* A snapshot's count may lag behind its indices, and its indices behind its count.
\* Unless they were too far ahead, the packets they show are committed once the
\* count has grown to what it was, or to any later one.
SnapInv(c) ==
  /\ c.at = "snapyngest" => OldestSeen(c.snapindex.oldest)
  /\ c.at \in {"snapcount", "check"} => Shows(c.snapindex, c.shown)
  /\ c.at = "check" => c.snapcount <= count
  /\ c.at = "check" /\ c.count = 0 => c.gap = c.shown - c.snapcount
  /\ ~c.ahead => c.gap <= Uncounted

\* What the request asks for, and where in the code each status is met.
AskedInv(c) ==
  /\ c.at \notin {"accepted", "finished"} =>
       Forwards(c) /\ (c.continuous => c.end = Newest)
  /\ c.at \in {"snapoldest", "snapyngest", "snapcount", "check"} => c.status = WAITING
  /\ c.at \in {"readhdr", "readraw", "send"} => c.status = READY
  /\ c.at \in {"readraw", "send"} => c.nxtndx \in Slot
  /\ c.at = "accepted" => c.count = 0
  /\ c.count = 0 => c.sent = <<>> /\ c.status # READY

\* The packets of the current batch that are still to be sent are those from
\* pos to e; for a continuous request e is as far from the count as the last
\* packet of the first batch was.
BatchTo(c, e) ==
  /\ c.pos <= e /\ e < c.pos + N /\ e <= Count
  /\ c.nxtndx = (c.pos - 1) % N /\ c.endndx = (e - 1) % N
  /\ c.continuous => e = c.count + c.gap

\* What has been sent is what comes before pos.
RunInv(c) ==
  /\ c.pos >= Len(c.sent) + 1 /\ c.pos - 1 <= Count
  /\ \A i \in 1..Len(c.sent) :
       LET k == c.pos - 1 - Len(c.sent) + i IN c.sent[i] = <<log[k], log[k]>>
  /\ c.status = READY => \E e \in Nat : BatchTo(c, e)
  /\ c.status = WAITING =>
       /\ c.continuous /\ c.pos = c.count + c.gap + 1 /\ c.pos > 1
       /\ c.endndx = (c.pos - 2) % N
  /\ c.at = "readraw" => c.hdr = log[c.pos]
  /\ c.at = "send" => c.hdr = log[c.pos] /\ c.raw = log[c.pos]

\* Nothing has been sent, and where the first packet is looked for there is nothing
\* to read, or the writer has come round to it.
PastEnd(c) == /\ c.sent = <<>> /\ c.status = READY /\ c.at \in {"loop", "readhdr"}
              /\ c.nxtndx = N \/ Overrun(c.pos)

ClientInv(c) ==
  /\ SnapInv(c) /\ AskedInv(c)
  /\ Generate /\ c.count > 0 /\ ~c.lapped /\ ~c.ahead => PastEnd(c) \/ RunInv(c)

\* A thread whose process has kept the lock has seen the loop as it still is.
KeptInv(t) ==
  t \in holders /\ cl[t].at = "snapcount" => cl[t].shown = Showing

ServerInv ==
  /\ cl \in [Thread -> ClientType]
  /\ holders # {} => rlock = Reader
  /\ \A t \in Thread : KeptInv(t)
  /\ \A t \in Thread, c \in ClientType : c = cl[t] => ClientInv(c)

-----------------------------------------------------------------------------
(* The loop, while threads and writers come and go.                         *)

\* The slot being written is that of no packet the writer has not come round to.
LEMMA WritesBeyond ==
  ASSUME TypeOK, NEW k \in 1..Count, ~Overrun(k)
  PROVE  /\ (k - 1) % N # Count % N
         /\ (k - 1) % N \in Slot
         /\ Count % N \in Slot
<1>1. Count \in Nat /\ Count = Len(log)  BY DEF TypeOK, Count
<1>2. k - 1 \in Nat /\ k - 1 < Count /\ Count < (k - 1) + N
      BY <1>1, Slots DEF Overrun
<1>3. (k - 1) % N # Count % N  BY <1>1, <1>2, Slots, ModInj
<1>4. (k - 1) % N \in 0..(N - 1) /\ Count % N \in 0..(N - 1)
      BY <1>1, <1>2, Slots, ModRange
<1> QED  BY <1>3, <1>4 DEF Slot

LEMMA DeepStep ==
  ASSUME TypeOK, RingInv, DeepInv, [Next]_vars
  PROVE  DeepInv'
<1>0. /\ hdr \in [Slot -> Nat] /\ raw \in [Slot -> Nat] /\ log \in Seq(Nat)
      /\ seqno \in Nat /\ Count = Len(log) /\ Count \in Nat /\ Count' = Len(log')
      BY DEF TypeOK, Count
<1>n. NoPkt = 0 /\ N \in Nat \ {0} /\ Slot = 0..(N - 1)  BY Slots DEF NoPkt, Slot
<1>1. CASE UNCHANGED <<hdr, raw, log>>
      BY <1>0, <1>1 DEF DeepInv, Overrun, Stored, Count
<1>2. ASSUME NEW p \in Pid,
             WriteHdr(p) \/ WriteRaw(p) \/ WriteHdrFails(p) \/ WriteRawFails(p)
      PROVE  DeepInv'
  <2>1. index.active = Count % N
    <3>1. state = ACTIVE  BY <1>2 DEF RingInv, ProgressInv, Progress, WriteHdr, WriteRaw,
                                 WriteHdrFails, WriteRawFails, At
    <3>2. index = Committed  BY <3>1 DEF RingInv, IndexInv, ACTIVE, UPDATE
    <3> QED  BY <3>2 DEF Committed, IndexAfter
  <2>2. /\ log' = log
        /\ \A s \in Slot : s # index.active => hdr'[s] = hdr[s] /\ raw'[s] = raw[s]
        BY <1>0, <1>2 DEF WriteHdr, WriteRaw, WriteHdrFails, WriteRawFails
  <2>3. ASSUME NEW k \in 1..Count, ~Overrun(k) PROVE Stored(k)'
    <3>1. Stored(k)  BY <2>3 DEF DeepInv
    <3> QED  BY <2>1, <2>2, <2>3, <3>1, WritesBeyond DEF Stored
  <2>4. ASSUME NEW s \in Slot, s > Count PROVE hdr'[s] = NoPkt
    <3>0. Count \in 0..(N - 1) /\ s # Count  BY <1>0, <1>n, <2>4
    <3>1. s # index.active  BY <1>n, <2>1, <3>0, ModSmall
    <3> QED  BY <2>2, <2>4, <3>1 DEF DeepInv
  <2> QED  BY <1>0, <2>2, <2>3, <2>4 DEF DeepInv, Overrun, Count
<1>3. ASSUME NEW p \in Pid, WriteCommit(p) PROVE DeepInv'
  <2>1. UNCHANGED <<hdr, raw>> /\ log' = Append(log, seqno) /\ pc[p] = "incremented"
        BY <1>3 DEF WriteCommit, At
  <2>2. hdr[Count % N] = seqno /\ raw[Count % N] = seqno
        BY <2>1 DEF RingInv, ContentInv, Written, UpdatePc
  <2>3. /\ Count' = Count + 1 /\ log'[Count + 1] = seqno
        /\ \A k \in 1..Count : log'[k] = log[k]
        BY <1>0, <2>1
  <2>4. ASSUME NEW k \in 1..Count', ~Overrun(k)' PROVE Stored(k)'
    <3>1. CASE k = Count + 1
      <4>1. k - 1 = Count  BY <1>0, <3>1
      <4> QED  BY <2>1, <2>2, <2>3, <3>1, <4>1 DEF Stored
    <3>2. CASE k \in 1..Count
      <4>1. ~Overrun(k)  BY <1>0, <2>3, <2>4, <3>2, Slots DEF Overrun
      <4>2. Stored(k)  BY <3>2, <4>1 DEF DeepInv
      <4> QED  BY <2>1, <2>3, <3>2, <4>2 DEF Stored
    <3> QED  BY <1>0, <2>3, <3>1, <3>2
  <2>5. ASSUME NEW s \in Slot, s > Count' PROVE hdr'[s] = NoPkt
    <3>1. s > Count  BY <1>0, <1>n, <2>3, <2>5
    <3> QED  BY <2>1, <2>5, <3>1 DEF DeepInv
  <2> QED  BY <2>4, <2>5 DEF DeepInv
<1>4. ASSUME NEW p \in Pid
      PROVE  /\ Spawn(p) \/ Crash(p) \/ Open(p) \/ WriteLock(p) \/ CloseLock(p) \/ Close(p)
                  => UNCHANGED <<hdr, raw, log>>
             /\ Write(p) => \/ UNCHANGED <<hdr, raw, log>>
                            \/ WriteHdr(p) \/ WriteRaw(p) \/ WriteHdrFails(p)
                            \/ WriteRawFails(p) \/ WriteCommit(p)
  <2>1. Spawn(p) \/ Crash(p) \/ Open(p) \/ WriteLock(p) \/ CloseLock(p) \/ Close(p)
          => UNCHANGED <<hdr, raw, log>>
        BY DEF Spawn, Crash, Open, OpenLock, OpenRefused, OpenClaim, OpenClean,
               OpenRestore, OpenSetIdle, OpenUnlock, WriteLock, CloseLock, Close,
               CloseParent, CloseDisown, CloseNotParent, CloseInactive
  <2>2. Write(p) => \/ UNCHANGED <<hdr, raw, log>>
                    \/ WriteHdr(p) \/ WriteRaw(p) \/ WriteHdrFails(p) \/ WriteRawFails(p)
                    \/ WriteCommit(p)
        BY DEF Write, WriteBackup, WriteActivate, WriteSeqno, WriteUpdate, IncOldest,
               IncYngest, IncLend, IncSlide, IncActive, Increment, WriteCount,
               WriteUnlock
  <2> QED  BY <2>1, <2>2
<1>5. ASSUME NEW r \in Reader, ReadLock(r) \/ ReadUnlock(r)
      PROVE  UNCHANGED <<hdr, raw, log>>
      BY <1>5 DEF ReadLock, ReadUnlock
<1>6. CASE UNCHANGED vars  BY <1>1, <1>6 DEF vars
<1> QED  BY <1>1, <1>2, <1>3, <1>4, <1>5, <1>6 DEF Next

LEMMA LoopStep == LoopInv /\ [Next]_vars => LoopInv'
<1> SUFFICES ASSUME LoopInv, [Next]_vars PROVE LoopInv'  OBVIOUS
<1>0. /\ TypeOK /\ AccessInv /\ RingInv /\ CountInv /\ NumberInv /\ ReaderInv /\ UpdateInv
      /\ DeepInv /\ [Next]_vars
      BY DEF LoopInv, IInv, AccessInv
<1>1. TypeOK'  BY <1>0, RingBumps, TypeStep
<1>2. AccessInv'  BY <1>0, AccessStep
<1>3. RingInv'  BY <1>0, RingStep
<1>4. CountInv' /\ NumberInv'  BY <1>0, LedgerStep
<1>5. ReaderInv'  BY <1>0, ReaderStep
<1>6. UpdateInv'
  <2>1. RingInv' /\ Updating' => UpdateInv'  BY UpdateWorks, PTL
  <2> QED  BY <1>0, <1>3, <2>1, UpdateStep
<1>7. DeepInv'  BY <1>0, DeepStep
<1> QED  BY <1>1, <1>2, <1>3, <1>4, <1>5, <1>6, <1>7 DEF LoopInv, IInv, AccessInv

\* Nobody but isid looks at the readers' lock.
LEMMA LockApart ==
  ASSUME LoopInv, WriterKeeps, rlock' \in SUBSET Reader, wlock = NoPid \/ rlock' \in {rlock, {}}
  PROVE  LoopInv'
<1>0. /\ TypeOK /\ AccessInv /\ RingInv /\ CountInv /\ NumberInv /\ ReaderInv /\ UpdateInv
      /\ DeepInv
      /\ UNCHANGED <<index, backup, state, seqno, count, parent, hdr, raw, wlock, pc, log>>
      BY DEF LoopInv, IInv, AccessInv, WriterKeeps, sysvars
<1>1. TypeOK'  BY <1>0 DEF TypeOK
<1>2. AccessInv'  BY <1>0 DEF AccessInv, LockInv, OwnerInv
<1>3. /\ Count' = Count /\ Committed' = Committed
      /\ Begun' = Begun /\ Slid' = Slid
      BY <1>0 DEF Count, Committed, Begun, Slid
<1>4. IndexInv'  BY <1>0, <1>3 DEF RingInv, IndexInv
<1>5. ASSUME NEW p \in Pid PROVE Progress(p)' /\ Written(p)'
  <2>1. Progress(p) /\ Written(p)  BY <1>0 DEF RingInv, ProgressInv, ContentInv
  <2>2. Progress(p)'  BY <1>0, <1>3, <2>1 DEF Progress
  <2>3. Written(p)'  BY <1>0, <1>3, <2>1 DEF Written
  <2> QED  BY <2>2, <2>3
<1>6. \A k \in Int : Stored(k)' <=> Stored(k)  BY <1>0 DEF Stored
<1>c. Count \in Int  BY <1>0 DEF TypeOK, Count
<1>7. RingInv'
      BY <1>0, <1>3, <1>4, <1>5, <1>6, <1>c DEF RingInv, ProgressInv, ContentInv
<1>8. CountInv' /\ NumberInv'
      BY <1>0, <1>3 DEF CountInv, NumberInv, SeqnoIncreases
<1>9. ReaderInv'  BY <1>0 DEF ReaderInv
<1>10. UpdateInv'  BY <1>0, <1>3 DEF UpdateInv, Halfway
<1>11. DeepInv'  BY <1>0, <1>3, <1>6, <1>c DEF DeepInv, Overrun
<1> QED  BY <1>1, <1>2, <1>7, <1>8, <1>9, <1>10, <1>11 DEF LoopInv, IInv, AccessInv

\* A packet killed off its count is never counted, one committed is.
LEMMA UncountedGrows ==
  ASSUME LoopInv, [Next]_vars
  PROVE  /\ count' \in Nat /\ count <= count'
         /\ Uncounted \in Int /\ Uncounted' \in Int /\ Uncounted <= Uncounted'
<1>0. /\ pc \in [Pid -> PcValues] /\ log \in Seq(Nat) /\ count \in Nat /\ seqno \in Nat
      /\ Len(log) \in Nat
      BY DEF LoopInv, IInv, TypeOK
<1>1. \A p \in Pid : pc[p] \in LockedPc <=> wlock = p  BY DEF LoopInv, IInv, LockInv
<1>2. \A p, q \in Pid : pc[p] \in LockedPc /\ pc[q] \in LockedPc => p = q  BY <1>1
<1>3. ASSUME UNCHANGED <<count, log>>, \A p \in Pid : pc'[p] = "committed" => pc[p] = "committed"
      PROVE  /\ count' \in Nat /\ count <= count'
             /\ Uncounted \in Int /\ Uncounted' \in Int /\ Uncounted <= Uncounted'
      BY <1>0, <1>3 DEF Uncounted
<1>4. ASSUME NEW p \in Pid, WriteCommit(p)
      PROVE  /\ count' = count /\ Uncounted \in Int /\ Uncounted' = Uncounted
  <2>1. /\ count' = count /\ log' = Append(log, seqno) /\ pc[p] = "incremented"
        /\ pc' = [pc EXCEPT ![p] = "committed"]
        BY <1>4 DEF WriteCommit, At
  <2>2. ~\E q \in Pid : pc[q] = "committed"
        BY <1>2, <2>1 DEF LockedPc, WritePc
  <2>3. \E q \in Pid : pc'[q] = "committed"  BY <1>0, <2>1
  <2>4. Len(log') = Len(log) + 1  BY <1>0, <2>1
  <2> QED  BY <1>0, <2>1, <2>2, <2>3, <2>4 DEF Uncounted
<1>5. ASSUME NEW p \in Pid, WriteCount(p)
      PROVE  /\ count' = count + 1 /\ Uncounted \in Int /\ Uncounted' = Uncounted
  <2>1. /\ count' = count + 1 /\ log' = log /\ pc[p] = "committed"
        /\ pc' = [pc EXCEPT ![p] = "counted"]
        BY <1>5 DEF WriteCount, At
  <2>2. ~\E q \in Pid : pc'[q] = "committed"
        BY <1>0, <1>2, <2>1 DEF LockedPc, WritePc
  <2> QED  BY <1>0, <2>1, <2>2 DEF Uncounted
<1>6. ASSUME NEW p \in Pid, Write(p), ~WriteCommit(p), ~WriteCount(p)
      PROVE  UNCHANGED <<count, log>> /\ \A q \in Pid : pc'[q] = "committed" => pc[q] = "committed"
  <2>1. UNCHANGED <<count, log>>
        BY <1>6
           DEF Write, WriteBackup, WriteActivate, WriteSeqno, WriteHdr, WriteRaw,
               WriteHdrFails, WriteRawFails, WriteUpdate, IncOldest, IncYngest, IncLend,
               IncSlide, IncActive, Increment, WriteUnlock, sysvars
  <2>2. \E to \in PcValues \ {"committed"} : pc' = [pc EXCEPT ![p] = to]
        BY <1>6
           DEF Write, WriteBackup, WriteActivate, WriteSeqno, WriteHdr, WriteRaw,
               WriteHdrFails, WriteRawFails, WriteUpdate, IncOldest, IncYngest, IncLend,
               IncSlide, IncActive, Increment, WriteUnlock, At, PcValues, LockedPc, WritePc
  <2> QED  BY <1>0, <2>1, <2>2
<1>7. ASSUME NEW p \in Pid, Spawn(p) \/ Crash(p) \/ Open(p) \/ WriteLock(p) \/ CloseLock(p) \/ Close(p)
      PROVE  UNCHANGED <<count, log>> /\ \A q \in Pid : pc'[q] = "committed" => pc[q] = "committed"
  <2>1. UNCHANGED <<count, log>>
        BY <1>7
           DEF Spawn, Crash, Open, OpenLock, OpenRefused, OpenClaim, OpenClean, OpenRestore,
               OpenSetIdle, OpenUnlock, WriteLock, CloseLock, Close, CloseParent,
               CloseDisown, CloseNotParent, CloseInactive, sysvars
  <2>2. \E to \in PcValues \ {"committed"} : pc' = [pc EXCEPT ![p] = to]
        BY <1>7
           DEF Spawn, Crash, Open, OpenLock, OpenRefused, OpenClaim, OpenClean, OpenRestore,
               OpenSetIdle, OpenUnlock, WriteLock, CloseLock, Close, CloseParent,
               CloseDisown, CloseNotParent, CloseInactive, At, PcValues, LockedPc, WritePc,
               OpenPc, ClosePc
  <2> QED  BY <1>0, <2>1, <2>2
<1>8. ASSUME NEW r \in Reader, ReadLock(r) \/ ReadUnlock(r) PROVE UNCHANGED <<count, log, pc>>
      BY <1>8 DEF ReadLock, ReadUnlock, sysvars
<1>9. CASE UNCHANGED vars  BY <1>3, <1>9 DEF vars
<1>10. ASSUME NEW p \in Pid, WriteCommit(p) \/ WriteCount(p)
       PROVE  /\ count' \in Nat /\ count <= count'
              /\ Uncounted \in Int /\ Uncounted' \in Int /\ Uncounted <= Uncounted'
       BY <1>0, <1>4, <1>5, <1>10
<1> QED  BY <1>3, <1>6, <1>7, <1>8, <1>9, <1>10 DEF Next

\* The lock's holder sees nothing change, and nobody in front of it.
LEMMA LockHolds ==
  ASSUME LoopInv, [Next]_vars, wlock = NoPid
  PROVE  UNCHANGED <<index, log>> /\ ~\E p \in Pid : pc[p] = "committed"
<1>0. TypeOK /\ AccessInv  BY DEF LoopInv, IInv, AccessInv
<1>1. \A p \in Pid : pc[p] \notin LockedPc  BY PidAssumption, <1>0 DEF AccessInv, LockInv
<1>2. index' = index  BY <1>0, StoresUnderLock DEF StoresNothing
<1>3. \A p \in Pid : ~WriteCommit(p)  BY <1>1 DEF WriteCommit, At, LockedPc, WritePc
<1>4. log' = log  BY <1>3, OnlyCommits
<1> QED  BY <1>1, <1>2, <1>4 DEF LockedPc, WritePc

-----------------------------------------------------------------------------
(* What a snapshot shows, and where a search of it leads.                   *)

\* Counting backwards by file lengths, one gets to one of the last ones of them.
LEMMA LastOfSlot ==
  ASSUME NEW k \in Nat, NEW b \in Nat, k < b
  PROVE  \E a \in Nat : a < b /\ b - a <= N /\ a % N = k % N
<1> DEFINE j == b - 1 - k
<1>1. j \in Nat /\ N \in Nat \ {0}  BY Slots
<1>2. PICK q \in Nat, d \in 0..(N - 1) : j = N * q + d
  <2> HIDE DEF j
  <2> QED  BY <1>1, DivMod
<1>3. PICK p \in Nat, s \in 0..(N - 1) : k = N * p + s  BY <1>1, DivMod
<1>4. PICK w \in Nat, u \in Nat, v \in Nat : w = p + q /\ u = N * p /\ v = N * q
      BY <1>1
<1>5. N * w = u + v  BY <1>1, <1>4
<1>6. PICK a \in Nat : a = k + v  BY <1>4
<1>7. a = N * w + s  BY <1>3, <1>4, <1>5, <1>6
<1>8. a % N = s /\ k % N = s  BY <1>1, <1>3, <1>7, ModUnique
<1>9. a < b /\ b - a <= N  BY <1>1, <1>2, <1>4, <1>6
<1> QED  BY <1>8, <1>9

\* Once round the file is the same slot.
LEMMA ModPeriod ==
  ASSUME NEW k \in Nat
  PROVE  (k + N) % N = k % N
<1>1. N \in Nat \ {0} /\ N \in 0..N  BY Slots
<1>2. (k + N) % N = IF (k % N) + N < N THEN (k % N) + N ELSE (k % N) + N - N
      BY <1>1, ModAdd
<1>3. k % N \in 0..(N - 1)  BY <1>1, ModRange
<1> QED  BY <1>1, <1>2, <1>3

LEMMA HalfwayNow == LoopInv => index \in Halfway
<1>1. LoopInv /\ state # UPDATE => index = Committed
      BY DEF LoopInv, IInv, RingInv, IndexInv
<1> QED  BY <1>1 DEF LoopInv, UpdateInv, Halfway

\* What the youngest index is when it is read: that of no packet in an empty loop,
\* or of the last one committed or the one after it.
YngestSeen(y, b) ==
  \/ y = Undefined /\ Count = 0
  \/ b \in {Count, Count + 1} /\ b # 0 /\ y = (b - 1) % N

LEMMA YngestShown ==
  ASSUME LoopInv
  PROVE  /\ YngestSeen(index.yngest, Showing) /\ Showing \in Nat
         /\ index.yngest \in Bumped \cup {Undefined}
<1> DEFINE n == Count
<1>0. /\ TypeOK /\ n \in Nat /\ n = Len(log) /\ index \in Index /\ N \in Nat \ {0}
      /\ NumPkt \in 1..(N - 1)
      BY Slots DEF LoopInv, IInv, TypeOK, Count
<1>1. index.yngest \in Bumped \cup {Undefined}  BY <1>0 DEF Index
<1>3. Showing = (IF index.yngest = n % N THEN n + 1 ELSE n) /\ Showing \in Nat
      BY <1>0 DEF Showing, Early
<1>4. index \in Halfway  BY HalfwayNow
<1>6. Begun.yngest = n % N
      BY DEF Begun, WithYngest, WithOldest, Committed, IndexAfter
<1>7. CASE index = Committed \/ index = WithOldest(Committed)
  <2>1. CASE n = 0
    <3>1. index.yngest = Undefined  BY <1>7, <2>1 DEF Committed, IndexAfter, WithOldest
    <3> QED  BY <1>1, <1>3, <2>1, <3>1 DEF YngestSeen
  <2>2. CASE n # 0
    <3>1. index.yngest = (n - 1) % N
          BY <1>7, <2>2 DEF Committed, IndexAfter, WithOldest
    <3>2. (n - 1) % N # n % N
      <4>1. n - 1 \in Nat /\ n - 1 < n /\ n < (n - 1) + N  BY <1>0, <2>2
      <4> HIDE DEF n
      <4> QED  BY <1>0, <4>1, ModInj
    <3>3. Showing = n  BY <1>3, <3>1, <3>2
    <3> QED  BY <1>0, <1>1, <1>3, <2>2, <3>1, <3>3 DEF YngestSeen
  <2> QED  BY <2>1, <2>2
<1>8. CASE index.yngest = n % N
  <2>1. Showing = n + 1 /\ n + 1 # 0 /\ (n + 1) - 1 = n  BY <1>0, <1>3, <1>8
  <2> QED  BY <1>1, <1>3, <1>8, <2>1 DEF YngestSeen
<1>9. index.yngest = n % N \/ index \in {Committed, WithOldest(Committed)}
  <2>1. CASE index = IndexAfter(n + 1)
    <3>1. n + 1 # 0 /\ (n + 1) - 1 = n  BY <1>0
    <3>2. index.yngest = ((n + 1) - 1) % N  BY <2>1, <3>1 DEF IndexAfter
    <3> QED  BY <3>1, <3>2
  <2>2. CASE index \in {Begun, BumpActive(Slid), BumpLend(Begun), SlideLend(Begun),
                        BumpOldest(SlideLend(Begun)), Slid}
    <3>1. /\ Slid.yngest = Begun.yngest /\ BumpActive(Slid).yngest = Slid.yngest
          /\ BumpLend(Begun).yngest = Begun.yngest /\ SlideLend(Begun).yngest = Begun.yngest
          /\ BumpOldest(SlideLend(Begun)).yngest = Begun.yngest
      <4>1. /\ DOMAIN Begun = {"active", "lend", "oldest", "yngest"}
            BY DEF Begun, WithYngest, WithOldest, Committed, IndexAfter
      <4> QED  BY <4>1 DEF Slid, SlideOldest, SlideLend, BumpActive, BumpLend, BumpOldest
    <3> QED  BY <1>6, <2>2, <3>1
  <2> QED  BY <1>4, <2>1, <2>2 DEF Halfway
<1> QED  BY <1>7, <1>8, <1>9

\* Whatever a writer has done, or left undone, when the oldest index is read.
LEMMA OldestShown ==
  ASSUME LoopInv
  PROVE  OldestSeen(index.oldest) /\ index.oldest \in Bumped \cup {Undefined}
<1> DEFINE n == Count
<1>0. /\ TypeOK /\ n \in Nat /\ n = Len(log) /\ index \in Index /\ N \in Nat \ {0}
      /\ NumPkt \in 1..(N - 1)
      BY Slots DEF LoopInv, IInv, TypeOK, Count
<1>1. index.oldest \in Bumped \cup {Undefined}  BY <1>0 DEF Index
<1>2. index \in Halfway  BY HalfwayNow
<1>3. CASE n = 0
  <2>1. 0 % N = 0 /\ 1 % N # Undefined  BY <1>0, ModSmall, NextSlotMod
  <2>2. First(0) = 0 /\ First(1) = 0  BY <1>0 DEF First
  <2>3. ~Full(Begun)
    <3>1. Begun.yngest = 0 /\ Begun.lend = NumPkt
      <4>1. NumPkt % N = NumPkt /\ Committed.active = 0 /\ Committed.lend = NumPkt % N
            BY <1>0, <1>3, <2>1, ModSmall DEF Committed, IndexAfter
      <4> QED  BY <4>1 DEF Begun, WithYngest, WithOldest, Committed, IndexAfter
    <3> QED  BY <1>0, <3>1 DEF Full
  <2>4. Committed.oldest = Undefined /\ Committed.active = 0
        BY <1>3, <2>1 DEF Committed, IndexAfter
  <2>5. WithOldest(Committed).oldest = 0  BY <2>4 DEF WithOldest, Committed, IndexAfter
  <2>6. Begun.oldest = 0  BY <2>5 DEF Begun, WithYngest, WithOldest, Committed, IndexAfter
  <2>7. Slid = Begun /\ BumpActive(Slid).oldest = 0
    <3>1. Slid = Begun  BY <2>3 DEF Slid
    <3> QED  BY <2>6, <3>1 DEF BumpActive
  <2>8. IndexAfter(n + 1).oldest = 0
    <3>1. n + 1 = 1 /\ n + 1 # 0  BY <1>3
    <3> QED  BY <2>1, <2>2, <3>1 DEF IndexAfter
  <2>9. index.oldest \in {Undefined, 0}
        BY <1>2, <2>3, <2>4, <2>5, <2>6, <2>7, <2>8 DEF Halfway
  <2>10. 0 \in 0..Count  BY <1>0
  <2> QED  BY <1>1, <2>1, <2>9, <2>10 DEF OldestSeen
<1>4. CASE n # 0 /\ index.oldest = N  BY <1>0, <1>1, <1>4 DEF OldestSeen
<1>5. CASE n # 0 /\ index.oldest # N
  <2>1. index.yngest # Undefined
    <3>1. \A b \in Nat \ {0} : (b - 1) % N # Undefined
      <4> SUFFICES ASSUME NEW b \in Nat \ {0} PROVE (b - 1) % N # Undefined
          OBVIOUS
      <4>1. b - 1 \in Nat  OBVIOUS
      <4> QED  BY <4>1, NextSlotMod
    <3>2. YngestSeen(index.yngest, Showing) /\ Showing \in Nat  BY YngestShown
    <3> QED  BY <1>5, <3>1, <3>2 DEF YngestSeen
  <2>2. PICK a \in First(Count)..Count, b \in {Count, Count + 1} : Span(index, a, b)
        BY <1>0, <1>2, <1>5, <2>1, HalfwaySpans
  <2>3. a \in 0..Count /\ index.oldest = a % N  BY <1>0, <2>2 DEF First, Span
  <2> QED  BY <1>1, <2>3 DEF OldestSeen
<1> QED  BY <1>3, <1>4, <1>5

\* Though the loop may have moved on between the two, they lead to packets up to the
\* last one committed or the one after it.
LEMMA BothShow ==
  ASSUME TypeOK, NEW ix, NEW b \in Nat, OldestSeen(ix.oldest), YngestSeen(ix.yngest, b)
  PROVE  Shows(ix, b)
<1>0. Count \in Nat /\ N \in Nat \ {0}  BY Slots DEF TypeOK, Count
<1>1. CASE ix.oldest = Undefined  BY <1>1 DEF Shows
<1>2. CASE ix.oldest # Undefined /\ ix.yngest = Undefined
  <2>1. Count = 0
    <3>1. CASE b # 0 /\ ix.yngest = (b - 1) % N
      <4>1. b - 1 \in Nat  BY <3>1
      <4> QED  BY <1>2, <3>1, <4>1, NextSlotMod
    <3> QED  BY <3>1 DEF YngestSeen
  <2>2. PICK a \in 0..Count : ix.oldest = a % N  BY <1>0, <1>2, <2>1 DEF OldestSeen
  <2>3. a = 0 /\ 0 % N = 0  BY <1>0, <2>1, ModSmall
  <2> QED  BY <1>2, <2>2, <2>3 DEF Shows
<1>3. CASE ix.oldest # Undefined /\ ix.yngest # Undefined
  <2>1. b \in {Count, Count + 1} /\ b # 0 /\ ix.yngest = (b - 1) % N
        BY <1>3 DEF YngestSeen
  <2>2. CASE ix.oldest = N  BY <2>1, <2>2 DEF Shows
  <2>3. ASSUME NEW k \in 0..Count, ix.oldest = k % N PROVE Shows(ix, b)
    <3>1. CASE k < b
      <4>1. PICK a \in Nat : a < b /\ b - a <= N /\ a % N = k % N
            BY <3>1, LastOfSlot
      <4>2. Span(ix, a, b)  BY <2>1, <2>3, <4>1 DEF Span
      <4> QED  BY <4>2 DEF Shows
    <3>2. CASE k = b /\ b >= N
      <4>1. PICK a \in Nat : a = b - N  BY <1>0, <3>2
      <4>2. a < b /\ b - a <= N /\ b = a + N  BY <1>0, <4>1
      <4>3. b % N = a % N  BY <1>0, <4>2, ModPeriod
      <4>4. Span(ix, a, b)  BY <2>1, <2>3, <3>2, <4>2, <4>3 DEF Span
      <4> QED  BY <4>4 DEF Shows
    <3>3. CASE k = b /\ b < N
      <4>1. b \in Nat /\ b + N \in Nat /\ b < b + N /\ (b + N) - b <= N
            /\ b - 1 \in Nat /\ (b + N) - 1 = (b - 1) + N
            BY <1>0, <2>1
      <4>2. ((b + N) - 1) % N = (b - 1) % N  BY <1>0, <4>1, ModPeriod
      <4>o. ix.oldest = b % N  BY <2>3, <3>3
      <4>y. ix.yngest = ((b + N) - 1) % N  BY <2>1, <4>2
      <4>3. Span(ix, b, b + N)  BY <4>1, <4>o, <4>y, Zenon DEF Span
      <4>4. b \in 1..(N - 1) /\ b <= Count  BY <1>0, <2>1, <3>3
      <4> QED  BY <4>3, <4>4 DEF Shows, Torn
    <3>4. k \in Nat /\ k <= b  BY <1>0, <2>1
    <3> QED  BY <1>0, <3>1, <3>2, <3>3, <3>4
  <2> QED  BY <1>3, <2>2, <2>3 DEF OldestSeen
<1> QED  BY <1>1, <1>2, <1>3

\* The i-th of the packets a span from a + 1 shows is packet a + i; its header is
\* that, or one the writer has come round with.
Place(a, i) == a + i
Header(a, i) == hdr[(Place(a, i) - 1) % N]

\* What makes Search lead to the i-th of h.
Leads(a, h, target, i) ==
  \/ target = Oldest /\ i = 1
  \/ target = Newest /\ i = h
  \/ target \in Nat /\ target = Header(a, 1) /\ i = 1
  \/ target \in Nat /\ target = Header(a, h) /\ i = h
  \/ /\ target \in Nat /\ target # Header(a, 1) /\ target < Header(a, h)
     /\ Header(a, i) >= target
     /\ \A j \in 1..(i - 1) : Header(a, j) < target

LEMMA HeaderIsNat ==
  ASSUME TypeOK, NEW a \in Nat, NEW i \in Nat \ {0}
  PROVE  Header(a, i) \in Nat /\ (Place(a, i) - 1) % N \in Slot
<1>1. Place(a, i) - 1 \in Nat  BY DEF Place
<1>2. (Place(a, i) - 1) % N \in Slot  BY <1>1, Slots, ModRange DEF Slot
<1> QED  BY <1>2 DEF Header, TypeOK

\* The first element of a set of numbers.
LEMMA FirstOf ==
  ASSUME NEW m \in Nat, NEW S \in SUBSET (1..m), S # {}
  PROVE  \E i \in S : \A j \in S : i <= j
<1> DEFINE R == OpToRel(<, Nat)
<1>1. IsWellFoundedOn(R, Nat)  BY NatLessThanWellFounded
<1>2. \A j, k \in Nat : j < k => <<j, k>> \in R  BY DEF OpToRel
<1>3. S \subseteq Nat  OBVIOUS
<1> HIDE DEF R
<1>4. \E i \in S : \A j \in S : ~(<<j, i>> \in R)  BY <1>1, <1>3, WFMin
<1>5. \E i \in S : \A j \in S : ~(j < i)  BY <1>2, <1>3, <1>4
<1> QED  BY <1>3, <1>5

LEMMA SearchLeads ==
  ASSUME TypeOK, NEW ix, NEW a, NEW b, Span(ix, a, b),
         NEW target \in Nat \cup {Oldest, Newest},
         NEW s, s = Search(ix, target), s # Undefined, s # Corrupt,
         NEW h, h = b - a
  PROVE  \E i \in 1..h : s = (Place(a, i) - 1) % N /\ Leads(a, h, target, i)
<1> DEFINE num(i) == hdr[SlotOf(ix, i)]
           from == {i \in 1..h : num(i) >= target}
<1>1. /\ a \in Nat /\ b \in Nat /\ h \in Nat \ {0} /\ a + h = b /\ Held(ix) = h
  <2>1. Held(ix) = b - a  BY SpanHolds
  <2> QED  BY <2>1 DEF Span
<1>2. \A i \in 1..h : SlotOf(ix, i) = (Place(a, i) - 1) % N
  <2> SUFFICES ASSUME NEW i \in 1..h PROVE SlotOf(ix, i) = (Place(a, i) - 1) % N
      OBVIOUS
  <2>1. SlotOf(ix, i) = (a + i - 1) % N  BY SpanHolds
  <2>2. a + i - 1 = Place(a, i) - 1  BY <1>1 DEF Place
  <2> QED  BY <2>1, <2>2, Zenon
<1>3. \A i \in 1..h : num(i) = Header(a, i) /\ num(i) \in Nat
      BY <1>1, <1>2, HeaderIsNat DEF Header
<1>4. /\ ix.oldest = (Place(a, 1) - 1) % N /\ ix.yngest = (Place(a, h) - 1) % N
      /\ ix.oldest \in Slot /\ ix.yngest \in Slot
  <2>1. ix.oldest = a % N /\ ix.yngest = (b - 1) % N  BY DEF Span
  <2>2. Place(a, 1) - 1 = a /\ Place(a, h) = b /\ b - 1 \in Nat  BY <1>1 DEF Place
  <2>3. a % N \in Slot /\ (b - 1) % N \in Slot  BY <1>1, <2>2, Slots, ModRange DEF Slot
  <2> QED  BY <2>1, <2>2, <2>3
<1>5. ix.oldest # Undefined /\ ix.yngest # Undefined  BY <1>4, Slots DEF Undefined
<1>6. 1 \in 1..h /\ h \in 1..h  BY <1>1
<1>7. CASE target = Oldest
  <2>1. s = ix.oldest  BY <1>5, <1>7, Zenon DEF Search
  <2> QED  BY <1>4, <1>6, <1>7, <2>1 DEF Leads
<1>8. CASE target = Newest
  <2>1. target # Oldest  BY <1>8 DEF Oldest, Newest
  <2>2. s = ix.yngest  BY <1>5, <1>8, <2>1, Zenon DEF Search
  <2> QED  BY <1>4, <1>6, <1>8, <2>2 DEF Leads
<1>9. CASE target \in Nat
  <2>1. target # Oldest /\ target # Newest  BY <1>9 DEF Oldest, Newest
  <2>2. CASE target = num(1)
    <3>1. s = ix.oldest  BY <1>1, <1>4, <1>5, <2>1, <2>2, Zenon DEF Search
    <3> QED  BY <1>3, <1>4, <1>6, <1>9, <2>2, <3>1 DEF Leads
  <2>3. CASE target # num(1) /\ target = num(h)
    <3>1. s = ix.yngest  BY <1>1, <1>4, <1>5, <2>1, <2>3, Zenon DEF Search
    <3> QED  BY <1>3, <1>4, <1>6, <1>9, <2>3, <3>1 DEF Leads
  <2>4. CASE target # num(1) /\ target # num(h)
    <3> DEFINE least == CHOOSE i \in from : \A j \in from : i <= j
    <3>1. ~(target > num(h)) /\ s = SlotOf(ix, least)
          BY <1>1, <1>4, <1>5, <2>1, <2>4, Zenon DEF Search
    <3>2. target < num(h)  BY <1>3, <1>6, <1>9, <2>4, <3>1
    <3>3. from \in SUBSET (1..h) /\ h \in from  BY <1>3, <1>6, <1>9, <3>2
    <3>4. \E i \in from : \A j \in from : i <= j  BY <1>1, <3>3, FirstOf
    <3>5. least \in from /\ \A j \in from : least <= j  BY <3>4
    <3> HIDE DEF least
    <3>6. least \in 1..h /\ num(least) >= target  BY <3>5
    <3>7. \A j \in 1..(least - 1) : Header(a, j) < target
      <4> SUFFICES ASSUME NEW j \in 1..(least - 1) PROVE Header(a, j) < target
          OBVIOUS
      <4>1. j \in 1..h /\ ~(least <= j)  BY <1>1, <3>6
      <4>2. j \notin from  BY <3>5, <4>1
      <4> QED  BY <1>3, <1>9, <4>1, <4>2
    <3>8. Leads(a, h, target, least)
          BY <1>3, <1>6, <1>9, <2>4, <3>2, <3>6, <3>7 DEF Leads
    <3> QED  BY <1>2, <3>1, <3>6, <3>8
  <2> QED  BY <2>2, <2>3, <2>4
<1> QED  BY <1>7, <1>8, <1>9

\* A request that does not end before it begins leads to slots of which the same
\* can be said, if the packets shown are committed and the writer has not come
\* round to the second.
LEMMA LeadsForward ==
  ASSUME TypeOK, DeepInv, SeqnoIncreases, Generate,
         NEW a \in Nat, NEW h \in Nat \ {0}, a + h <= Count,
         NEW b \in Nat \cup {Oldest, Newest}, NEW e \in Nat \cup {Newest},
         b = Oldest \/ e = Newest \/ (b # Newest /\ b <= e),
         NEW i \in 1..h, Leads(a, h, b, i),
         NEW j \in 1..h, Leads(a, h, e, j), ~Overrun(Place(a, j))
  PROVE  i <= j
<1>2. \A k \in 1..h : Header(a, k) \in Nat  BY HeaderIsNat
<1>3. Oldest \notin Nat /\ Newest \notin Nat /\ Oldest # Newest  BY DEF Oldest, Newest
<1>4. CASE b = Oldest  BY <1>3, <1>4 DEF Leads
<1>5. CASE e = Newest  BY <1>3, <1>5 DEF Leads
<1>6. CASE b \in Nat /\ e \in Nat /\ b <= e
  <2>1. CASE e = Header(a, 1) /\ j = 1 /\ h > 1
    <3>1. \A k \in 1..h : Header(a, k) = log[Place(a, k)]
      <4> SUFFICES ASSUME NEW k \in 1..h PROVE Header(a, k) = log[Place(a, k)]
          OBVIOUS
      <4>1. /\ Place(a, k) \in Nat /\ Place(a, j) \in Nat /\ Len(log) \in Nat
            /\ 1 <= Place(a, k) /\ Place(a, k) <= Count /\ Place(a, j) <= Place(a, k)
            BY <2>1 DEF Place, TypeOK, Count
      <4>2. Place(a, k) \in 1..Count  BY <4>1 DEF Count
      <4>3. ~Overrun(Place(a, k))  BY <4>1, Slots DEF Overrun
      <4> QED  BY <4>2, <4>3 DEF DeepInv, Stored, Header
    <3>2. log[Place(a, 1)] < log[Place(a, h)]
      <4>1. /\ Place(a, 1) \in 1..Len(log) /\ Place(a, h) \in 1..Len(log)
            /\ Place(a, 1) < Place(a, h)
            BY <2>1 DEF Place, TypeOK, Count
      <4> QED  BY <4>1 DEF SeqnoIncreases
    <3>3. Header(a, 1) < Header(a, h)  BY <3>1, <3>2
    <3>4. b # Header(a, h)  BY <1>2, <1>6, <2>1, <3>3
    <3>5. b = Header(a, 1) \/ b < Header(a, 1)  BY <1>2, <1>6, <2>1
    <3>6. CASE i # 1
      <4>1. \A k \in 1..(i - 1) : Header(a, k) < b  BY <1>3, <1>6, <3>4, <3>6 DEF Leads
      <4>2. Header(a, 1) < b  BY <3>6, <4>1
      <4> QED  BY <1>2, <1>6, <3>5, <4>2
    <3> QED  BY <2>1, <3>6
  <2>2. CASE j = h  BY <2>2
  <2>3. CASE /\ e # Header(a, 1) /\ e < Header(a, h) /\ Header(a, j) >= e
    <3>1. CASE i = 1  BY <3>1
    <3>2. CASE i # 1
      <4>1. b # Header(a, h)  BY <1>2, <1>6, <2>3
      <4>2. \A k \in 1..(i - 1) : Header(a, k) < b  BY <1>3, <1>6, <3>2, <4>1 DEF Leads
      <4>3. CASE j < i
        <5>1. Header(a, j) < b  BY <4>2, <4>3
        <5> QED  BY <1>2, <1>6, <2>3, <5>1
      <4> QED  BY <4>3
    <3> QED  BY <3>1, <3>2
  <2>4. \/ e = Header(a, 1) /\ j = 1
        \/ j = h
        \/ e # Header(a, 1) /\ e < Header(a, h) /\ Header(a, j) >= e
        BY <1>3, <1>6 DEF Leads
  <2>5. CASE h = 1  BY <2>5
  <2> QED  BY <2>1, <2>2, <2>3, <2>4, <2>5
<1> QED  BY <1>3, <1>4, <1>5, <1>6

\* From its slot, seqno.c's arithmetic gets back to the packet's place.
LEMMA PlaceOf ==
  ASSUME NEW ix, NEW a, NEW b, Span(ix, a, b), NEW i \in 1..(b - a)
  PROVE  Position(ix, b, (Place(a, i) - 1) % N) = Place(a, i)
<1> DEFINE k == Place(a, i) - 1
           d == b - 1 - k
<1>1. k \in Nat /\ d \in 0..(N - 1) /\ b - 1 = k + d /\ k + 1 = Place(a, i) /\ b \in Nat
      BY Slots DEF Place, Span
<1>2. ix.yngest = (k + d) % N  BY <1>1 DEF Span
<1>u. ix.yngest # Undefined
  <2>1. k + d \in Nat  BY <1>1
  <2> HIDE DEF k, d
  <2> QED  BY <1>2, <2>1, NextSlotMod
<1>p. Position(ix, b, k % N) = b - ((ix.yngest - (k % N) + N) % N)
      BY <1>u DEF Position
<1> HIDE DEF k, d
<1>3. (((k + d) % N) - (k % N) + N) % N = d  BY <1>1, Slots, ModDistance
<1>4. b - d = k + 1  BY <1>1
<1> QED  BY <1>1, <1>2, <1>3, <1>4, <1>p DEF k

-----------------------------------------------------------------------------
(* What a step of isid's thread does to the state of its request.           *)

\* What a request's place in the code has nothing to do with.
SameRun(c, d) ==
  /\ d.beg = c.beg /\ d.end = c.end /\ d.continuous = c.continuous
  /\ d.status = c.status /\ d.count = c.count /\ d.sent = c.sent
  /\ d.nxtndx = c.nxtndx /\ d.endndx = c.endndx /\ d.pos = c.pos
  /\ d.lapped = c.lapped

LEMMA RunsSame ==
  ASSUME NEW c, NEW d, SameRun(c, d), d.at \notin {"accepted", "readraw", "send"},
         d.at \in {"loop", "readhdr"} \/ c.status # READY,
         d.gap = c.gap \/ c.count = 0, d.ahead = c.ahead \/ c.count = 0,
         Generate /\ c.count > 0 /\ ~c.lapped /\ ~c.ahead => PastEnd(c) \/ RunInv(c),
         c.count \in Nat
  PROVE  Generate /\ d.count > 0 /\ ~d.lapped /\ ~d.ahead => PastEnd(d) \/ RunInv(d)
<1> SUFFICES ASSUME Generate, d.count > 0, ~d.lapped, ~d.ahead
             PROVE  PastEnd(d) \/ RunInv(d)
    OBVIOUS
<1>1. c.count > 0 /\ ~c.lapped /\ d.gap = c.gap /\ ~c.ahead  BY DEF SameRun
<1>2. CASE PastEnd(c)  BY <1>2 DEF PastEnd, SameRun
<1>3. CASE RunInv(c)
  <2>1. d.status = READY => \E e \in Nat : BatchTo(d, e)
        BY <1>1, <1>3 DEF RunInv, BatchTo, SameRun
  <2> QED  BY <1>1, <1>3, <2>1 DEF RunInv, SameRun
<1> QED  BY <1>1, <1>2, <1>3

LEMMA Asks ==
  ASSUME NEW c \in ClientType, ClientInv(c), c.at = "accepted", NEW q \in Requests,
         NEW d, d = [c EXCEPT !.at = "loop", !.beg = q.beg, !.end = q.end,
                              !.continuous = q.continuous]
  PROVE  d \in ClientType /\ ClientInv(d)
<1>1. /\ q.beg \in Nat \cup {Oldest, Newest} /\ q.end \in Nat \cup {Newest}
      /\ q.continuous \in BOOLEAN /\ Forwards(q) /\ (q.continuous => q.end = Newest)
      BY RequestAssumption DEF Request, Seqno
<1>2. d \in ClientType  BY <1>1 DEF ClientType, Phase
<1>3. /\ d.at = "loop" /\ d.beg = q.beg /\ d.end = q.end /\ d.continuous = q.continuous
      /\ d.status = c.status /\ d.count = c.count /\ d.sent = c.sent
      /\ d.gap = c.gap /\ d.ahead = c.ahead
      BY DEF ClientType
<1>4. Forwards(d)  BY <1>1, <1>3 DEF Forwards
<1>5. c.count = 0 /\ c.status # READY /\ c.sent = <<>>
      BY DEF ClientInv, AskedInv
<1>6. SnapInv(d)  BY <1>3 DEF ClientInv, SnapInv
<1>7. AskedInv(d)  BY <1>1, <1>3, <1>4, <1>5 DEF AskedInv
<1> QED  BY <1>2, <1>3, <1>5, <1>6, <1>7 DEF ClientInv

\* A step that takes nothing but the thread's place.
LEMMA TakesLock ==
  ASSUME NEW c \in ClientType, ClientInv(c), c.at = "loop", c.status # DONE,
         NEW d, d = [c EXCEPT !.at = IF c.status = WAITING THEN "snapoldest" ELSE "readhdr"]
  PROVE  d \in ClientType /\ ClientInv(d)
<1>1. d \in ClientType  BY DEF ClientType, Phase
<1>2. /\ d.at = (IF c.status = WAITING THEN "snapoldest" ELSE "readhdr")
      /\ SameRun(c, d) /\ d.gap = c.gap /\ d.ahead = c.ahead
      BY DEF ClientType, SameRun
<1>3. c.status \in {WAITING, READY} /\ c.count \in Nat  BY DEF ClientType
<1>4. SnapInv(d)  BY <1>2 DEF ClientInv, SnapInv
<1>5. AskedInv(d)
      BY <1>2, <1>3 DEF ClientInv, AskedInv, Forwards, WAITING, READY, SameRun
<1>6. Generate /\ d.count > 0 /\ ~d.lapped /\ ~d.ahead => PastEnd(d) \/ RunInv(d)
  <2>1. /\ d.at \notin {"accepted", "readraw", "send"}
        /\ d.at \in {"loop", "readhdr"} \/ c.status # READY
        BY <1>2 DEF WAITING, READY
  <2>2. Generate /\ c.count > 0 /\ ~c.lapped /\ ~c.ahead => PastEnd(c) \/ RunInv(c)
        BY DEF ClientInv
  <2> QED  BY <1>2, <1>3, <2>1, <2>2, RunsSame
<1> QED  BY <1>1, <1>4, <1>5, <1>6 DEF ClientInv

LEMMA TakesOldest ==
  ASSUME LoopInv, NEW c \in ClientType, ClientInv(c), c.at = "snapoldest",
         NEW d, d = [c EXCEPT !.at = "snapyngest", !.snapindex.oldest = index.oldest]
  PROVE  d \in ClientType /\ ClientInv(d) /\ d.at = "snapyngest"
<1>1. OldestSeen(index.oldest) /\ index.oldest \in Bumped \cup {Undefined}
      BY OldestShown
<1>2. PICK ix : ix = [c.snapindex EXCEPT !.oldest = index.oldest]  OBVIOUS
<1>3. ix \in Indices /\ ix.oldest = index.oldest
  <2>1. c.snapindex \in Indices  BY DEF ClientType
  <2> QED  BY <1>1, <1>2, <2>1 DEF Indices
<1>4. d = [c EXCEPT !.at = "snapyngest", !.snapindex = ix]  BY <1>2
<1>5. d \in ClientType  BY <1>3, <1>4 DEF ClientType, Phase
<1>6. /\ d.at = "snapyngest" /\ d.snapindex = ix
      /\ SameRun(c, d) /\ d.gap = c.gap /\ d.ahead = c.ahead
      BY <1>4 DEF ClientType, SameRun
<1>7. SnapInv(d)  BY <1>1, <1>3, <1>6 DEF ClientInv, SnapInv
<1>8. AskedInv(d)  BY <1>6 DEF ClientInv, AskedInv, Forwards, SameRun
<1>9. c.count \in Nat /\ c.status # READY
      BY DEF ClientType, ClientInv, AskedInv, WAITING, READY
<1>10. Generate /\ d.count > 0 /\ ~d.lapped /\ ~d.ahead => PastEnd(d) \/ RunInv(d)
      BY <1>6, <1>9, RunsSame DEF ClientInv
<1> QED  BY <1>5, <1>6, <1>7, <1>8, <1>10 DEF ClientInv

LEMMA TakesYngest ==
  ASSUME LoopInv, NEW c \in ClientType, ClientInv(c), c.at = "snapyngest",
         NEW d, d = [c EXCEPT !.at = "snapcount", !.snapindex.yngest = index.yngest,
                              !.shown = IF Early THEN Len(log) + 1 ELSE Len(log)]
  PROVE  d \in ClientType /\ ClientInv(d) /\ d.shown = Showing /\ d.at = "snapcount"
<1>1. YngestSeen(index.yngest, Showing) /\ Showing \in Nat
      /\ index.yngest \in Bumped \cup {Undefined}
      BY YngestShown
<1>2. PICK ix : ix = [c.snapindex EXCEPT !.yngest = index.yngest]  OBVIOUS
<1>3. ix \in Indices /\ ix.oldest = c.snapindex.oldest /\ ix.yngest = index.yngest
  <2>1. c.snapindex \in Indices  BY DEF ClientType
  <2> QED  BY <1>1, <1>2, <2>1 DEF Indices
<1>4. d = [c EXCEPT !.at = "snapcount", !.snapindex = ix, !.shown = Showing]
      BY <1>2 DEF Showing, Count
<1> HIDE DEF Showing
<1>5. d \in ClientType  BY <1>1, <1>3, <1>4 DEF ClientType, Phase
<1>6. /\ d.at = "snapcount" /\ d.snapindex = ix /\ d.shown = Showing
      /\ SameRun(c, d) /\ d.gap = c.gap /\ d.ahead = c.ahead
      BY <1>4 DEF ClientType, SameRun
<1>7. Shows(ix, Showing)
  <2>1. OldestSeen(ix.oldest)  BY <1>3 DEF ClientInv, SnapInv
  <2>2. YngestSeen(ix.yngest, Showing) /\ TypeOK  BY <1>1, <1>3 DEF LoopInv, IInv
  <2> QED  BY <1>1, <2>1, <2>2, BothShow
<1>8. SnapInv(d)  BY <1>6, <1>7 DEF ClientInv, SnapInv
<1>9. AskedInv(d)  BY <1>6 DEF ClientInv, AskedInv, Forwards, SameRun
<1>10. c.count \in Nat /\ c.status # READY
      BY DEF ClientType, ClientInv, AskedInv, WAITING, READY
<1>11. Generate /\ d.count > 0 /\ ~d.lapped /\ ~d.ahead => PastEnd(d) \/ RunInv(d)
      BY <1>6, <1>10, RunsSame DEF ClientInv
<1> QED  BY <1>5, <1>6, <1>8, <1>9, <1>11 DEF ClientInv

\* What SnapCount(t) makes of c: s for every batch, and d once gap and ahead are
\* set for the first one.
CountTaken(t, c, g, s, d) ==
  /\ g = c.shown - count
  /\ s = [c EXCEPT !.at = "check", !.snapcount = count]
  /\ d = IF c.count > 0 THEN s
         ELSE [s EXCEPT !.gap = g, !.ahead = (t \notin holders \/ Early) /\ g > Uncounted]

\* The snapshot is complete.  Its indices are too far ahead of its count only if
\* the client is marked so: under a lock that was kept they lead to the last packet
\* committed, or to one that is not committed yet.
LEMMA TakesCount ==
  ASSUME LoopInv, NEW t, NEW c \in ClientType, ClientInv(c), c.at = "snapcount",
         t \in holders => wlock = NoPid /\ c.shown = Showing,
         NEW g, NEW s, NEW d, CountTaken(t, c, g, s, d)
  PROVE  d \in ClientType /\ ClientInv(d) /\ d.at = "check"
<1> USE DEF CountTaken
<1>0. /\ count \in Nat /\ log \in Seq(Nat) /\ Count = Len(log) /\ Count \in Nat
      /\ c.shown \in Nat /\ c.count \in Nat /\ g \in Int
      /\ Uncounted \in Int
  <2>1. count \in Nat /\ log \in Seq(Nat)  BY DEF LoopInv, IInv, TypeOK
  <2>2. c.shown \in Nat /\ c.count \in Nat  BY DEF ClientType
  <2> QED  BY <2>1, <2>2 DEF Count, Uncounted
<1> DEFINE far == (t \notin holders \/ Early) /\ g > Uncounted
<1>1. far \in BOOLEAN  OBVIOUS
<1>2. ~far => g <= Uncounted
  <2> SUFFICES ASSUME t \in holders, ~Early PROVE g <= Uncounted
      BY <1>0
  <2>1. \A p \in Pid : pc[p] # "committed"
    <3>1. \A p \in Pid : pc[p] \notin LockedPc
          BY PidAssumption DEF LoopInv, IInv, LockInv
    <3> QED  BY <3>1 DEF LockedPc, WritePc
  <2>2. Uncounted = Count - count  BY <1>0, <2>1 DEF Uncounted
  <2>3. c.shown = Count  BY DEF Showing
  <2> QED  BY <1>0, <2>2, <2>3
<1> HIDE DEF far
<1>3. /\ s \in ClientType /\ s.at = "check" /\ s.snapcount = count
      /\ s.snapindex = c.snapindex /\ s.shown = c.shown
      /\ SameRun(c, s) /\ s.gap = c.gap /\ s.ahead = c.ahead
      BY <1>0 DEF ClientType, Phase, SameRun
<1>4. d = IF c.count > 0 THEN s ELSE [s EXCEPT !.gap = g, !.ahead = far]  BY DEF far
<1>f. PICK f : f = [s EXCEPT !.gap = g, !.ahead = far]  OBVIOUS
<1>k. /\ f \in ClientType /\ f.at = "check" /\ f.snapcount = count
      /\ f.snapindex = c.snapindex /\ f.shown = c.shown
      /\ SameRun(c, f) /\ f.gap = g /\ f.ahead = far
  <2>1. f \in ClientType  BY <1>0, <1>1, <1>3, <1>f DEF ClientType
  <2> QED  BY <1>3, <1>f, <2>1 DEF ClientType, SameRun
<1>d. d = IF c.count > 0 THEN s ELSE f  BY <1>4, <1>f
<1>5. d \in ClientType  BY <1>3, <1>k, <1>d
<1>6. /\ d.at = "check" /\ d.snapcount = count
      /\ d.snapindex = c.snapindex /\ d.shown = c.shown
      /\ SameRun(c, d)
      /\ d.gap = IF c.count > 0 THEN c.gap ELSE g
      /\ d.ahead = IF c.count > 0 THEN c.ahead ELSE far
      BY <1>3, <1>k, <1>d
<1>7. SnapInv(d)
  <2>1. d.count = 0 => d.gap = d.shown - d.snapcount  BY <1>0, <1>6 DEF SameRun
  <2>2. ~d.ahead => d.gap <= Uncounted  BY <1>2, <1>6 DEF ClientInv, SnapInv
  <2> QED  BY <1>0, <1>6, <2>1, <2>2 DEF ClientInv, SnapInv
<1>8. AskedInv(d)  BY <1>6 DEF ClientInv, AskedInv, Forwards, SameRun
<1>9. Generate /\ d.count > 0 /\ ~d.lapped /\ ~d.ahead => PastEnd(d) \/ RunInv(d)
  <2>1. d.gap = c.gap \/ c.count = 0  BY <1>0, <1>6
  <2>2. d.ahead = c.ahead \/ c.count = 0  BY <1>0, <1>6
  <2>3. c.status # READY  BY DEF ClientInv, AskedInv, WAITING, READY
  <2> QED  BY <1>0, <1>6, <2>1, <2>2, <2>3, RunsSame DEF ClientInv
<1> QED  BY <1>5, <1>6, <1>7, <1>8, <1>9 DEF ClientInv

\* Nothing is left of a request that is over.
LEMMA EndsRequest ==
  ASSUME LoopInv
  PROVE  /\ NewClient \in ClientType /\ NewClient.at = "accepted" /\ ClientInv(NewClient)
         /\ Ended \in ClientType /\ Ended.at = "finished" /\ ClientInv(Ended)
<1>1. /\ 0 \in Bumped /\ Undefined \in Bumped \cup {Undefined} /\ <<>> \in Packets
      /\ 0 \in Nat /\ NoPkt \in Nat
      BY Slots DEF Bumped, Packets, NoPkt
<1>2. NoSnap \in Indices  BY <1>1 DEF NoSnap, Indices
<1>3. NewClient \in ClientType  BY <1>1, <1>2 DEF NewClient, ClientType, Phase
<1>4. Ended \in ClientType  BY <1>3 DEF Ended, ClientType, Phase
<1>5. 0 <= Uncounted
  <2>1. count \in Nat /\ Len(log) \in Nat  BY DEF LoopInv, IInv, TypeOK
  <2> QED  BY <2>1 DEF LoopInv, CountInv, Count, Uncounted
<1>6. ASSUME NEW c \in {NewClient, Ended}
      PROVE  /\ c.at = (IF c = Ended THEN "finished" ELSE "accepted")
             /\ ClientInv(c)
  <2>1. /\ NewClient.at = "accepted" /\ Ended.at = "finished"
        BY DEF NewClient, Ended
  <2>2. /\ c.at \in {"accepted", "finished"} /\ c.count = 0 /\ c.status # READY
        /\ c.sent = <<>> /\ c.gap = 0
        BY <1>6 DEF NewClient, Ended, WAITING, READY
  <2>3. SnapInv(c) /\ AskedInv(c)  BY <1>5, <2>2 DEF SnapInv, AskedInv
  <2> QED  BY <1>6, <2>1, <2>2, <2>3 DEF ClientInv
<1>7. NewClient.at = "accepted" /\ Ended.at = "finished"  BY DEF NewClient, Ended
<1> QED  BY <1>3, <1>4, <1>6, <1>7

\* A copy of sys is gone, and nothing else.
LEMMA Decides ==
  ASSUME NEW c \in ClientType
  PROVE  LET d == Decided(c) IN
         /\ d \in ClientType /\ SameRun(c, d)
         /\ d.at = c.at /\ d.gap = c.gap /\ d.ahead = c.ahead
<1>1. NoSnap \in Indices
      BY DEF NoSnap, Indices
<1>2. Decided(c) \in ClientType  BY <1>1 DEF Decided, ClientType
<1> QED  BY <1>2 DEF Decided, ClientType, SameRun

\* The request waits for more, or there is nothing to wait for.
LEMMA Waits ==
  ASSUME NEW c \in ClientType, ClientInv(c), c.at = "check",
         NEW d, d = Nothing(c) \/ (c.count = 0 /\ d = Done(c))
  PROVE  d \in ClientType /\ ClientInv(d) /\ d.at = "loop"
<1>f. PICK f : f = Decided(c)  OBVIOUS
<1>g. /\ f \in ClientType /\ SameRun(c, f)
      /\ f.at = c.at /\ f.gap = c.gap /\ f.ahead = c.ahead
      BY <1>f, Decides
<1>1. PICK s \in {WAITING, DONE} :
        /\ d = [f EXCEPT !.at = "loop", !.status = s]
        /\ s = WAITING => c.continuous \/ c.count = 0
        /\ c.continuous /\ c.count # 0 => s = WAITING
      BY <1>f DEF Nothing, Drained, Done, ClientType, WAITING, DONE
<1>2. d \in ClientType  BY <1>1, <1>g DEF ClientType, Phase
<1>3. /\ d.at = "loop" /\ d.status = s /\ d.gap = c.gap /\ d.ahead = c.ahead
      /\ d.beg = c.beg /\ d.end = c.end /\ d.continuous = c.continuous
      /\ d.count = c.count /\ d.sent = c.sent
      /\ d.pos = c.pos /\ d.lapped = c.lapped
      /\ d.nxtndx = c.nxtndx /\ d.endndx = c.endndx
      BY <1>1, <1>g DEF ClientType, SameRun
<1>4. s # READY  BY DEF WAITING, DONE, READY
<1>5. c.status = WAITING /\ c.status # READY  BY DEF ClientInv, AskedInv, WAITING, READY
<1>6. SnapInv(d)  BY <1>3 DEF ClientInv, SnapInv
<1>7. AskedInv(d)  BY <1>3, <1>4 DEF ClientInv, AskedInv, Forwards
<1>8. Generate /\ c.count > 0 /\ ~c.lapped /\ ~c.ahead => RunInv(d)
      BY <1>3, <1>4, <1>5 DEF ClientInv, PastEnd, RunInv, BatchTo
<1> QED  BY <1>2, <1>3, <1>6, <1>7, <1>8 DEF ClientInv

LEMMA NextIsSlot ==
  ASSUME NEW i \in Bumped
  PROVE  NextSlot(i) \in Slot
<1>1. i + 1 \in Nat  BY Slots DEF Bumped
<1> QED  BY <1>1, Slots, ModRange DEF NextSlot, Wrap, Slot

LEMMA BatchType ==
  ASSUME NEW c \in ClientType, NEW b \in Bumped, NEW e \in Bumped, NEW x \in Int
  PROVE  LET d == Batch(c, b, e, x) IN
         /\ d \in ClientType
         /\ d.at = "loop" /\ d.status = READY /\ d.nxtndx = b /\ d.endndx = e
         /\ d.count = c.snapcount /\ d.pos = x /\ d.lapped = c.lapped
         /\ d.beg = c.beg /\ d.end = c.end /\ d.continuous = c.continuous
         /\ d.sent = c.sent /\ d.gap = c.gap /\ d.ahead = c.ahead
<1>1. c.snapcount \in Nat  BY DEF ClientType
<1>f. PICK f : f = Decided(c)  OBVIOUS
<1>2. /\ f \in ClientType /\ SameRun(c, f)
      /\ f.at = c.at /\ f.gap = c.gap /\ f.ahead = c.ahead
      BY <1>f, Decides
<1>g. PICK g : g = [f EXCEPT !.at = "loop", !.status = READY, !.endndx = e]
      OBVIOUS
<1>3. /\ g \in ClientType /\ g.at = "loop" /\ g.status = READY /\ g.endndx = e
      /\ g.lapped = c.lapped /\ g.beg = c.beg /\ g.end = c.end
      /\ g.continuous = c.continuous /\ g.sent = c.sent /\ g.gap = c.gap
      /\ g.ahead = c.ahead
      BY <1>2, <1>g DEF ClientType, Phase, SameRun
<1> DEFINE d == Batch(c, b, e, x)
<1>4. d = [g EXCEPT !.nxtndx = b, !.count = c.snapcount, !.pos = x]
      BY <1>2, <1>f, <1>g DEF ClientType, Batch
<1> HIDE DEF d
<1>5. d \in ClientType  BY <1>1, <1>3, <1>4 DEF ClientType
<1>6. /\ d.at = "loop" /\ d.status = READY /\ d.nxtndx = b /\ d.endndx = e
      /\ d.count = c.snapcount /\ d.pos = x /\ d.lapped = c.lapped
      /\ d.beg = c.beg /\ d.end = c.end /\ d.continuous = c.continuous
      /\ d.sent = c.sent /\ d.gap = c.gap /\ d.ahead = c.ahead
      BY <1>3, <1>4, <1>5 DEF ClientType
<1> QED  BY <1>5, <1>6 DEF d

\* Unless the first snapshot's indices were too far ahead, the packets the indices
\* led to are committed by the time the count says so.
LEMMA CommittedByThen ==
  ASSUME LoopInv, NEW c \in ClientType, ClientInv(c), c.at = "check"
  PROVE  /\ c.snapcount \in Nat /\ c.gap \in Int /\ c.snapcount <= Count /\ Count \in Nat
         /\ ~c.ahead => c.snapcount + c.gap <= Count
<1>1. /\ count \in Nat /\ Len(log) \in Nat /\ Count = Len(log) /\ count <= Count
      /\ c.snapcount \in Nat /\ c.gap \in Int /\ c.snapcount <= count
      BY DEF LoopInv, IInv, TypeOK, CountInv, Count, ClientType, ClientInv, SnapInv
<1>2. ~c.ahead => c.gap <= Uncounted  BY DEF ClientInv, SnapInv
<1>3. Uncounted \in Int /\ Uncounted <= Count - count  BY <1>1 DEF Uncounted
<1> QED  BY <1>1, <1>2, <1>3

\* Torn indices do not lead into the part of the file that was never written, unless
\* the writer has gone on into it.
LEMMA TornLeads ==
  ASSUME TypeOK, DeepInv, NEW a \in 1..(N - 1), a <= Count,
         NEW target \in Nat \cup {Oldest, Newest},
         NEW i \in 1..N, Leads(a, N, target, i),
         NEW k \in Int, k = a + i - N, ~Overrun(k)
  PROVE  k >= 1 /\ i >= 2
<1>0. Count \in Nat /\ Len(log) = Count /\ N \in Nat \ {0}  BY Slots DEF TypeOK, Count
<1>1. i >= 2  BY <1>0 DEF Overrun
<1>2. /\ Oldest \notin Nat /\ Newest \notin Nat /\ Oldest # Newest /\ NoPkt = 0
      BY DEF Oldest, Newest, NoPkt
<1>3. SUFFICES ASSUME k < 1 PROVE FALSE  BY <1>1
<1>4. i # N  BY <1>0, <1>3
<1>5. target \in Nat /\ Header(a, i) >= target /\ Header(a, 1) < target
      BY <1>1, <1>2, <1>4 DEF Leads
<1>6. Header(a, i) = 0
  <2>1. PICK s \in Nat : s = a + (i - 1)  BY <1>1
  <2>2. s \in 0..(N - 1) /\ s > Count  BY <1>0, <1>3, <2>1 DEF Overrun
  <2>3. Place(a, i) - 1 = s  BY <2>1 DEF Place
  <2>4. s \in Slot /\ s % N = s  BY <1>0, <2>2, ModSmall DEF Slot
  <2> QED  BY <1>2, <2>2, <2>3, <2>4 DEF Header, DeepInv
<1>7. Header(a, 1) \in Nat  BY <1>0, HeaderIsNat
<1> QED  BY <1>5, <1>6, <1>7

\* Counted from the youngest shown, the i-th slot of torn indices is one ring back.
LEMMA TornPlace ==
  ASSUME NEW ix, NEW a \in 1..(N - 1), Span(ix, a, a + N), NEW i \in 1..N
  PROVE  Position(ix, a, (Place(a, i) - 1) % N) = a + i - N
<1> DEFINE s == (Place(a, i) - 1) % N
<1>0. N \in Nat \ {0} /\ Slot = 0..(N - 1)  BY Slots DEF Slot
<1>1. (a + N) - 1 \in Nat /\ Place(a, i) - 1 \in Nat /\ (a + N) - a = N
      BY <1>0 DEF Place
<1>2. ix.yngest = ((a + N) - 1) % N  BY DEF Span
<1>3. ix.yngest \in Slot /\ s \in Slot /\ ix.yngest # Undefined
      BY <1>1, <1>2, NextSlotMod
<1>4. Position(ix, a + N, s) = a + i
  <2>1. i \in 1..((a + N) - a)  BY <1>1
  <2>2. Position(ix, a + N, s) = Place(a, i)  BY <2>1, PlaceOf
  <2> QED  BY <2>2 DEF Place
<1> HIDE DEF s
<1>5. PICK w \in Nat : w = (ix.yngest - s + N) % N
  <2>1. PICK q \in Nat : q = ix.yngest - s + N  BY ONLY <1>0, <1>3
  <2>2. q % N \in 0..(N - 1)  BY <1>0, ModRange
  <2>3. q % N \in Nat  BY <1>0, <2>2
  <2> QED  BY <2>1, <2>3
<1>6. Position(ix, a + N, s) = (a + N) - w /\ Position(ix, a, s) = a - w
      BY <1>3, <1>5 DEF Position
<1>7. a \in Nat /\ i \in Nat /\ N \in Nat /\ w \in Nat  BY <1>0
<1>8. a + i = (a + N) - w  BY <1>4, <1>6
<1>9. a - w = a + i - N  BY ONLY <1>7, <1>8
<1> QED  BY <1>6, <1>9 DEF s

\* Where the search leads a request for which there is something to send.
LEMMA FirstBatch ==
  ASSUME LoopInv, NEW c \in ClientType, ClientInv(c),
         c.at = "check", c.count = 0, c.snapcount # 0,
         NEW b, b = Search(c.snapindex, c.beg), b # Undefined, b # Corrupt,
         NEW e, e = Search(c.snapindex, c.end), e # Undefined, e # Corrupt,
         NEW x, x = Position(c.snapindex, c.shown, b),
         NEW y, y = Position(c.snapindex, c.shown, e)
  PROVE  /\ b \in Bumped /\ e \in Bumped /\ x \in Int
         /\ Generate /\ ~c.ahead /\ ~Overrun(y) =>
              \/ b = N \/ Overrun(x)
              \/ /\ x \in Nat \ {0} /\ y \in Nat /\ x <= y /\ y < x + N /\ y <= Count
                 /\ b = (x - 1) % N /\ e = (y - 1) % N
                 /\ c.continuous => y = c.snapcount + c.gap
<1> DEFINE ix == c.snapindex
           z == c.shown
<1>0. /\ TypeOK /\ DeepInv /\ SeqnoIncreases
      /\ Shows(ix, z) /\ ix \in Indices /\ z \in Nat
      /\ c.beg \in Nat \cup {Oldest, Newest} /\ c.end \in Nat \cup {Newest}
      /\ Forwards(c) /\ (c.continuous => c.end = Newest)
      /\ c.gap = z - c.snapcount
      BY DEF LoopInv, IInv, NumberInv, ClientType, ClientInv, SnapInv, AskedInv
<1>1. /\ c.snapcount \in Nat \ {0} /\ c.gap \in Int /\ c.snapcount <= Count /\ Count \in Nat
      /\ ~c.ahead => c.snapcount + c.gap <= Count
      BY CommittedByThen
<1>z. ~c.ahead => z <= Count  BY <1>0, <1>1
<1>n. N \in Nat \ {0} /\ N >= 2 /\ Bumped = 0..N /\ Slot = 0..(N - 1)
      BY Slots DEF Bumped, Slot
<1>o. /\ Oldest \notin Nat /\ Newest \notin Nat /\ Oldest # Newest
      /\ Undefined \notin Nat /\ Corrupt # Undefined
      BY DEF Oldest, Newest, Undefined, Corrupt
<1>2. ix.oldest # Undefined  BY Zenon DEF Search
<1>3. CASE ix.oldest = 0 /\ ix.yngest = Undefined
  <2>1. 0 \in Slot  BY Slots
  <2>2. b = 0
    <3>1. CASE c.beg = Oldest  BY <1>2, <1>3, <3>1, Zenon DEF Search
    <3>2. CASE c.beg = Newest  BY <1>2, <1>3, <1>o, <3>2, Zenon DEF Search
    <3>3. CASE c.beg \in Nat
      <4>1. c.beg # Oldest /\ c.beg # Newest  BY <1>o, <3>3
      <4> QED  BY <1>2, <1>3, <2>1, <4>1, Zenon DEF Search
    <3> QED  BY <1>0, <3>1, <3>2, <3>3
  <2>3. e = 0 /\ c.end # Newest
    <3>1. CASE c.end = Newest  BY <1>2, <1>3, <1>o, <3>1, Zenon DEF Search
    <3>2. CASE c.end \in Nat
      <4>1. c.end # Oldest /\ c.end # Newest  BY <1>o, <3>2
      <4> QED  BY <1>2, <1>3, <2>1, <4>1, Zenon DEF Search
    <3> QED  BY <1>0, <3>1, <3>2
  <2>4. x = 1 /\ y = 1  BY <1>3 DEF Position
  <2>5. (x - 1) % N = 0
    <3>1. 0 % N = 0  BY <1>n, ModSmall
    <3> QED  BY <2>4, <3>1
  <2> QED  BY <1>0, <1>1, <1>n, <2>2, <2>3, <2>4, <2>5
<1>4. CASE ix.oldest = N /\ z \in Nat \ {0} /\ ix.yngest = (z - 1) % N
  <2>1. N \notin Slot  BY <1>n
  <2>2. ix.yngest \in Slot /\ ix.yngest # Undefined
    <3>1. z - 1 \in Nat  BY <1>4
    <3> HIDE DEF ix, z
    <3> QED  BY <1>4, <3>1, NextSlotMod
  <2>3. b = N \/ (b = ix.yngest /\ c.beg = Newest)
    <3>1. CASE c.beg = Oldest  BY <1>2, <1>4, <3>1, Zenon DEF Search
    <3>2. CASE c.beg = Newest  BY <1>2, <1>4, <1>o, <3>2, Zenon DEF Search
    <3>3. CASE c.beg \in Nat
      <4>1. c.beg # Oldest /\ c.beg # Newest  BY <1>o, <3>3
      <4> QED  BY <1>2, <1>4, <2>1, <4>1, Zenon DEF Search
    <3> QED  BY <1>0, <3>1, <3>2, <3>3
  <2>4. e = ix.yngest
    <3>1. CASE c.end = Newest  BY <1>2, <1>4, <1>o, <3>1, Zenon DEF Search
    <3>2. CASE c.end \in Nat
      <4>1. c.end # Oldest /\ c.end # Newest  BY <1>o, <3>2
      <4> QED  BY <1>2, <1>4, <2>1, <4>1, Zenon DEF Search
    <3> QED  BY <1>0, <3>1, <3>2
  <2>5. Position(ix, z, ix.yngest) = z
    <3>1. PICK w \in 0..(N - 1) : ix.yngest = w  BY <1>n, <2>2
    <3>2. (w - w + N) % N = 0
      <4>1. w - w + N = N /\ N = N * 1 + 0 /\ 0 \in 0..(N - 1) /\ 1 \in Nat  BY <1>n
      <4>2. N % N = 0  BY <1>n, <4>1, ModUnique
      <4> QED  BY <4>1, <4>2
    <3>3. z - 0 = z  BY <1>0
    <3> QED  BY <2>2, <3>1, <3>2, <3>3 DEF Position
  <2>6. Position(ix, z, N) \in Int
    <3>1. PICK w \in 0..(N - 1) : ix.yngest = w  BY <1>n, <2>2
    <3>2. w - N + N = w  BY <1>n
    <3>3. w % N = w  BY <1>n, ModSmall
    <3> QED  BY <1>0, <2>2, <3>1, <3>2, <3>3 DEF Position
  <2>7. b \in Bumped /\ e \in Bumped /\ x \in Int /\ y = z
    <3>1. x = Position(ix, z, N) \/ x = Position(ix, z, ix.yngest)  BY <2>3
    <3> QED  BY <1>0, <1>n, <2>2, <2>3, <2>4, <2>5, <2>6, <3>1
  <2>8. b # N => x = z  BY <2>3, <2>5
  <2> QED  BY <1>0, <1>1, <1>4, <1>n, <1>z, <2>3, <2>4, <2>7, <2>8
<1>5. ASSUME NEW a \in Nat, Span(ix, a, z) PROVE
         /\ b \in Bumped /\ e \in Bumped /\ x \in Int
         /\ Generate /\ ~c.ahead /\ ~Overrun(y) =>
              \/ b = N \/ Overrun(x)
              \/ /\ x \in Nat \ {0} /\ y \in Nat /\ x <= y /\ y < x + N /\ y <= Count
                 /\ b = (x - 1) % N /\ e = (y - 1) % N
                 /\ c.continuous => y = c.snapcount + c.gap
  <2>a. PICK h : h = z - a  OBVIOUS
  <2>s. /\ b = Search(ix, c.beg) /\ e = Search(ix, c.end)
        /\ x = Position(ix, z, b) /\ y = Position(ix, z, e)
        OBVIOUS
  <2> HIDE DEF ix, z
  <2>1. h \in Nat \ {0} /\ a + h = z /\ h <= N  BY <1>5, <2>a DEF Span
  <2>l. ASSUME NEW target \in Nat \cup {Oldest, Newest},
               NEW s, s = Search(ix, target), s # Undefined, s # Corrupt
        PROVE  \E i \in 1..h : s = (Place(a, i) - 1) % N /\ Leads(a, h, target, i)
        BY <1>0, <1>5, <2>a, <2>l, SearchLeads
  <2>2. PICK i \in 1..h : b = (Place(a, i) - 1) % N /\ Leads(a, h, c.beg, i)
        BY <1>0, <2>s, <2>l, Zenon
  <2>3. PICK j \in 1..h : e = (Place(a, j) - 1) % N /\ Leads(a, h, c.end, j)
    <3>1. c.end \in Nat \cup {Oldest, Newest}  BY <1>0
    <3> QED  BY <3>1, <2>s, <2>l, Zenon
  <2>4. x = Place(a, i) /\ y = Place(a, j)
        BY <1>5, <2>a, <2>s, <2>2, <2>3, PlaceOf
  <2>5. x = a + i /\ y = a + j  BY <2>4 DEF Place
  <2>6. b \in Slot /\ e \in Slot  BY <1>0, <2>2, <2>3, HeaderIsNat
  <2>7. b \in Bumped /\ e \in Bumped /\ x \in Int  BY <1>n, <2>5, <2>6
  <2>8. ASSUME Generate, ~c.ahead, ~Overrun(y) PROVE i <= j
    <3>1. a + h <= Count  BY <1>z, <2>1, <2>8
    <3>2. ~Overrun(Place(a, j))  BY <2>4, <2>8
    <3> QED  BY <1>0, <2>1, <2>2, <2>3, <2>8, <3>1, <3>2, LeadsForward DEF Forwards
  <2>9. c.continuous => y = c.snapcount + c.gap
    <3> SUFFICES ASSUME c.continuous PROVE y = c.snapcount + c.gap  OBVIOUS
    <3>1. Leads(a, h, Newest, j)  BY <1>0, <2>3
    <3>2. j = h  BY <3>1 DEF Leads, Oldest, Newest
    <3> QED  BY <1>0, <1>1, <2>1, <2>5, <3>2
  <2>10. ASSUME Generate, ~c.ahead, ~Overrun(y)
         PROVE  /\ x \in Nat \ {0} /\ y \in Nat /\ x <= y /\ y < x + N /\ y <= Count
    <3>1. i <= j /\ z <= Count  BY <1>z, <2>8, <2>10
    <3>2. /\ Count \in Nat /\ N \in Nat /\ a \in Nat /\ h \in Nat /\ z \in Nat
          /\ i \in 1..h /\ j \in 1..h
          BY <1>0, <1>1, <1>n, <2>1
    <3> QED  BY ONLY <2>1, <2>5, <3>1, <3>2
  <2> QED  BY <2>2, <2>3, <2>4, <2>7, <2>9, <2>10
<1>6. CASE Torn(ix, z)
  <2>s. /\ b = Search(ix, c.beg) /\ e = Search(ix, c.end)
        /\ x = Position(ix, z, b) /\ y = Position(ix, z, e)
        OBVIOUS
  <2> HIDE DEF ix, z
  <2>1. /\ z \in 1..(N - 1) /\ z <= Count /\ Span(ix, z, z + N)
        /\ z + N \in Nat /\ N = (z + N) - z
        BY <1>0, <1>6, <1>n DEF Torn
  <2>l. ASSUME NEW target \in Nat \cup {Oldest, Newest},
               NEW s, s = Search(ix, target), s # Undefined, s # Corrupt
        PROVE  \E i \in 1..N : s = (Place(z, i) - 1) % N /\ Leads(z, N, target, i)
        BY <1>0, <2>1, <2>l, SearchLeads
  <2>2. PICK i \in 1..N : b = (Place(z, i) - 1) % N /\ Leads(z, N, c.beg, i)
        BY <1>0, <2>s, <2>l, Zenon
  <2>3. PICK j \in 1..N : e = (Place(z, j) - 1) % N /\ Leads(z, N, c.end, j)
    <3>1. c.end \in Nat \cup {Oldest, Newest}  BY <1>0
    <3> QED  BY <3>1, <2>s, <2>l, Zenon
  <2>4. \A k \in 1..N : Position(ix, z, (Place(z, k) - 1) % N) = z + k - N
        BY <2>1, TornPlace
  <2>5. x = z + i - N /\ y = z + j - N  BY <2>s, <2>2, <2>3, <2>4
  <2>h. ASSUME NEW k \in 1..N PROVE Header(z, k) \in Nat /\ (Place(z, k) - 1) % N \in Slot
    <3>1. z \in Nat /\ k \in Nat \ {0}  BY <1>0, <1>n
    <3> QED  BY <1>0, <3>1, HeaderIsNat
  <2>6. b \in Slot /\ e \in Slot  BY <2>2, <2>3, <2>h
  <2>7. b \in Bumped /\ e \in Bumped /\ x \in Int /\ y \in Int
    <3>1. z \in Nat /\ i \in Nat /\ j \in Nat /\ N \in Nat  BY <1>0, <1>n
    <3> QED  BY ONLY <1>n, <2>5, <2>6, <3>1
  <2>9. c.continuous => y = c.snapcount + c.gap
    <3> SUFFICES ASSUME c.continuous PROVE y = c.snapcount + c.gap  OBVIOUS
    <3>1. Leads(z, N, Newest, j)  BY <1>0, <2>3
    <3>2. j = N  BY <3>1 DEF Leads, Oldest, Newest
    <3> QED  BY <1>0, <1>1, <2>1, <2>5, <3>2
  <2>10. ASSUME ~Overrun(y), ~Overrun(x)
         PROVE  /\ x \in Nat \ {0} /\ y \in Nat /\ x <= y /\ y < x + N /\ y <= Count
                /\ b = (x - 1) % N /\ e = (y - 1) % N
    <3>1. x >= 1 /\ i >= 2
          BY <1>0, <2>1, <2>2, <2>5, <2>7, <2>10, TornLeads
    <3>2. y >= 1 /\ j >= 2
          BY <1>0, <2>1, <2>3, <2>5, <2>7, <2>10, TornLeads
    <3>3. i <= j
      <4>h. \A k \in 1..N : Header(z, k) \in Nat  BY <2>h
      <4>1. CASE j = N  BY <4>1
      <4>2. CASE j # N /\ j < i
        <5>1. c.end \in Nat /\ Header(z, j) >= c.end /\ c.end < Header(z, N)
              BY <1>o, <2>3, <3>2, <4>2 DEF Leads
        <5>2. c.beg \in Nat /\ c.beg <= c.end
          <6>1. c.beg # Oldest  BY <1>o, <2>2, <3>1 DEF Leads
          <6> QED  BY <1>0, <1>o, <5>1, <6>1 DEF Forwards
        <5>3. \A k \in 1..(i - 1) : Header(z, k) < c.beg
              BY <1>o, <2>2, <3>1, <4>h, <5>1, <5>2 DEF Leads
        <5>4. Header(z, j) < c.beg  BY <4>2, <5>3
        <5> QED  BY <4>h, <5>1, <5>2, <5>4
      <4> QED  BY <4>1, <4>2
    <3>4. ASSUME NEW m \in 1..N, NEW k \in Nat \ {0}, k = z + m - N
          PROVE  (Place(z, m) - 1) % N = (k - 1) % N
      <4>1. k - 1 \in Nat /\ Place(z, m) - 1 = (k - 1) + N  BY <1>n, <2>1, <3>4 DEF Place
      <4> QED  BY <4>1, ModPeriod
    <3>5. x \in Nat \ {0} /\ y \in Nat \ {0}  BY <2>7, <3>1, <3>2
    <3>6. b = (x - 1) % N /\ e = (y - 1) % N  BY <2>2, <2>3, <2>5, <3>4, <3>5
    <3>7. x <= y /\ y < x + N /\ y <= Count  BY <1>1, <1>n, <2>1, <2>5, <3>3
    <3> QED  BY <3>5, <3>6, <3>7
  <2> QED  BY <2>7, <2>9, <2>10
<1> QED  BY <1>0, <1>2, <1>3, <1>4, <1>5, <1>6 DEF Shows

\* What CheckFirst makes of c when there is a batch from b to e, x and y their places.
BatchStarts(c, b, e, x, y, d) ==
  /\ b = Search(c.snapindex, c.beg) /\ e = Search(c.snapindex, c.end)
  /\ x = Position(c.snapindex, c.shown, b) /\ y = Position(c.snapindex, c.shown, e)
  /\ d = [Batch(c, b, e, x) EXCEPT !.lapped = Overrun(y)]

\* The first batch of a request: from where the search for its first packet leads
\* to where that for its last one does.
LEMMA StartsBatch ==
  ASSUME LoopInv, NEW c \in ClientType, ClientInv(c),
         c.at = "check", c.count = 0, c.snapcount # 0,
         NEW b, b # Undefined, b # Corrupt, NEW e, e # Undefined, e # Corrupt,
         NEW x, NEW y, NEW d, BatchStarts(c, b, e, x, y, d)
  PROVE  d \in ClientType /\ ClientInv(d) /\ d.at = "loop"
<1> USE DEF BatchStarts
<1>0. /\ c.sent = <<>> /\ Forwards(c) /\ (c.continuous => c.end = Newest)
      /\ Count \in Nat /\ c.snapcount \in Nat
      /\ (~c.ahead => c.gap <= Uncounted)
      BY CommittedByThen DEF ClientInv, AskedInv, SnapInv
<1>1. b \in Bumped /\ e \in Bumped /\ x \in Int  BY FirstBatch
<1>2. Generate /\ ~c.ahead /\ ~Overrun(y) =>
        \/ b = N \/ Overrun(x)
        \/ /\ x \in Nat \ {0} /\ y \in Nat /\ x <= y /\ y < x + N /\ y <= Count
           /\ b = (x - 1) % N /\ e = (y - 1) % N
           /\ c.continuous => y = c.snapcount + c.gap
      BY FirstBatch
<1>3. Overrun(y) \in BOOLEAN  BY DEF Overrun
<1>f. PICK f : f = Batch(c, b, e, x)  OBVIOUS
<1>4. /\ f \in ClientType
      /\ f.at = "loop" /\ f.status = READY /\ f.nxtndx = b /\ f.endndx = e
      /\ f.count = c.snapcount /\ f.pos = x
      /\ f.beg = c.beg /\ f.end = c.end /\ f.continuous = c.continuous
      /\ f.sent = c.sent /\ f.gap = c.gap /\ f.ahead = c.ahead
      BY SMTT(20), <1>1, <1>f, BatchType
<1>t. d = [f EXCEPT !.lapped = Overrun(y)]  BY <1>f
<1>5. d \in ClientType  BY <1>3, <1>4, <1>t DEF ClientType
<1>6. /\ d.at = "loop" /\ d.status = READY /\ d.nxtndx = b /\ d.endndx = e
      /\ d.count = c.snapcount /\ d.pos = x /\ d.lapped = Overrun(y)
      /\ d.beg = c.beg /\ d.end = c.end /\ d.continuous = c.continuous
      /\ d.sent = <<>> /\ d.gap = c.gap /\ d.ahead = c.ahead
      BY <1>0, <1>3, <1>4, <1>t DEF ClientType
<1>7. SnapInv(d)  BY <1>0, <1>6 DEF SnapInv
<1>8. AskedInv(d)  BY <1>0, <1>6 DEF AskedInv, Forwards
<1>9. ASSUME Generate, ~d.lapped, ~d.ahead PROVE PastEnd(d) \/ RunInv(d)
  <2>1. CASE b = N \/ Overrun(x)  BY <1>6, <2>1 DEF PastEnd
  <2>2. CASE /\ x \in Nat \ {0} /\ y \in Nat /\ x <= y /\ y < x + N /\ y <= Count
             /\ b = (x - 1) % N /\ e = (y - 1) % N
             /\ c.continuous => y = c.snapcount + c.gap
    <3>1. BatchTo(d, y)  BY <1>6, <2>2 DEF BatchTo
    <3>2. Len(d.sent) = 0 /\ d.pos >= Len(d.sent) + 1 /\ d.pos - 1 <= Count
          BY <1>0, <1>6, <2>2
    <3>3. 1..Len(d.sent) = {}  BY <3>2
    <3>4. d.at = "loop" /\ d.status = READY /\ READY # WAITING
          BY <1>6 DEF READY, WAITING
    <3>5. \E k \in Nat : BatchTo(d, k)  BY <2>2, <3>1
    <3> QED  BY <3>2, <3>3, <3>4, <3>5 DEF RunInv
  <2> QED  BY <1>2, <1>6, <1>9, <2>1, <2>2
<1> QED  BY <1>5, <1>6, <1>7, <1>8, <1>9 DEF ClientInv

\* A later batch: as many packets as the count has grown by.
LEMMA NextBatch ==
  ASSUME LoopInv, NEW c \in ClientType, ClientInv(c), c.at = "check", c.count > 0,
         NEW r, NEW b, NEW e, NEW d
  PROVE     /\ r = c.snapcount - c.count /\ r > 0 /\ r <= N
            /\ b = NextSlot(c.endndx) /\ e = (b + r - 1) % N
            /\ d = Batch(c, b, e, c.pos)
         => d \in ClientType /\ ClientInv(d) /\ d.at = "loop"
<1>a. SUFFICES ASSUME r = c.snapcount - c.count, r > 0, r <= N,
                      b = NextSlot(c.endndx), e = (b + r - 1) % N,
                      d = Batch(c, b, e, c.pos)
               PROVE  d \in ClientType /\ ClientInv(d) /\ d.at = "loop"
      OBVIOUS
<1>0. /\ c.snapcount \in Nat /\ c.count \in Nat /\ c.endndx \in Bumped /\ Count \in Nat
      /\ c.status = WAITING /\ c.gap \in Int
      /\ Forwards(c) /\ (c.continuous => c.end = Newest) /\ c.pos \in Int
      /\ (~c.ahead => c.snapcount + c.gap <= Count)
      /\ (~c.ahead => c.gap <= Uncounted)
      BY CommittedByThen DEF ClientType, ClientInv, SnapInv, AskedInv
<1>1. r \in Nat \ {0} /\ N \in Nat \ {0} /\ Slot \subseteq Nat /\ Slot \subseteq Bumped
      BY <1>a, <1>0, Slots DEF Slot, Bumped
<1>2. b \in Slot  BY <1>a, <1>0, NextIsSlot
<1>3. b + r - 1 \in Nat  BY <1>1, <1>2
<1>4. e \in Slot  BY <1>a, <1>1, <1>3, ModRange DEF Slot
<1>b. b \in Bumped /\ e \in Bumped  BY <1>1, <1>2, <1>4
<1>x. PICK x \in Int : x = c.pos  BY <1>0
<1>5. d = Batch(c, b, e, x)  BY <1>a, <1>x
<1>6. /\ d \in ClientType /\ d.at = "loop" /\ d.status = READY /\ d.nxtndx = b /\ d.endndx = e
      /\ d.count = c.snapcount /\ d.pos = c.pos /\ d.lapped = c.lapped
      /\ d.beg = c.beg /\ d.end = c.end /\ d.continuous = c.continuous
      /\ d.sent = c.sent /\ d.gap = c.gap /\ d.ahead = c.ahead
      BY SMTT(20), <1>b, <1>x, <1>5, BatchType
<1>7. SnapInv(d)  BY <1>0, <1>6 DEF SnapInv
<1>p. d.count # 0  BY <1>a, <1>0, <1>6
<1>8. AskedInv(d)  BY <1>0, <1>6, <1>p DEF AskedInv, Forwards
<1>9. ASSUME Generate, ~d.lapped, ~d.ahead PROVE RunInv(d)
  <2>1. RunInv(c)
    <3>1. ~PastEnd(c)  BY <1>0 DEF PastEnd, WAITING, READY
    <3> QED  BY <1>6, <1>9, <3>1 DEF ClientInv
  <2>2. PICK k \in Nat : k + 1 = c.pos - 1
    <3>1. c.pos > 1  BY <1>0, <2>1 DEF RunInv
    <3>2. c.pos - 2 \in Nat /\ (c.pos - 2) + 1 = c.pos - 1  BY <1>0, <3>1
    <3> QED  BY <3>2
  <2>3. /\ c.pos = c.count + c.gap + 1 /\ c.endndx = k % N
    <3>1. c.pos = c.count + c.gap + 1 /\ c.endndx = (c.pos - 2) % N
          BY <1>0, <2>1 DEF RunInv
    <3>2. c.pos - 2 = k  BY <1>0, <2>2
    <3> QED  BY <3>1, <3>2
  <2>4. b = (k + 1) % N  BY <1>a, <2>3, NextSlotMod
  <2>5. PICK y \in Nat : y = k + 1 + r /\ y = c.snapcount + c.gap /\ y - 1 = (k + 1) + (r - 1)
        BY <1>a, <1>0, <1>1, <2>2, <2>3
  <2>6. e = (y - 1) % N
    <3>1. r - 1 \in 0..N /\ b + r - 1 = b + (r - 1) /\ k + 1 \in Nat
          BY <1>a, <1>1, <1>2
    <3>2. (((k + 1) % N) + (r - 1)) % N = ((k + 1) + (r - 1)) % N
          BY <1>1, <3>1, ModMod
    <3> QED  BY <1>a, <2>4, <2>5, <3>1, <3>2
  <2>7. BatchTo(d, y)
    <3>1. d.pos <= y /\ y < d.pos + N /\ y <= Count
          BY <1>a, <1>0, <1>1, <1>6, <1>9, <2>2, <2>5
    <3>2. d.nxtndx = (d.pos - 1) % N  BY <1>6, <2>2, <2>4
    <3>3. d.endndx = (y - 1) % N /\ d.count + d.gap = y  BY <1>6, <2>5, <2>6
    <3> QED  BY <3>1, <3>2, <3>3 DEF BatchTo
  <2>8. \E i \in Nat : BatchTo(d, i)  BY <2>7
  <2>9. d.at = "loop" /\ d.status = READY /\ READY # WAITING
        BY <1>6 DEF READY, WAITING
  <2>10. d.sent = c.sent /\ d.pos = c.pos  BY <1>6
  <2> QED  BY <2>1, <2>8, <2>9, <2>10 DEF RunInv
<1> QED  BY <1>0, <1>1, <1>6, <1>7, <1>8, <1>9 DEF ClientInv

\* The header is read while the slot holds the packet, or the thread is lapped.
LEMMA ReadsHdr ==
  ASSUME TypeOK, DeepInv, NEW c \in ClientType, ClientInv(c), c.at = "readhdr",
         c.nxtndx \in Slot,
         NEW d, d = [c EXCEPT !.at = "readraw", !.hdr = hdr[c.nxtndx],
                              !.lapped = @ \/ Overrun(c.pos)]
  PROVE  d \in ClientType /\ ClientInv(d) /\ d.at = "readraw"
<1>1. /\ hdr[c.nxtndx] \in Nat /\ Overrun(c.pos) \in BOOLEAN
      /\ c.pos \in Int /\ Count \in Nat /\ Len(c.sent) \in Nat /\ c.status = READY
      BY SMTT(20) DEF ClientType, Packets, TypeOK, Overrun, Count, ClientInv, AskedInv
<1>2. d \in ClientType  BY ZenonT(30), <1>1 DEF ClientType, Phase
<1>3. /\ d.at = "readraw" /\ d.hdr = hdr[c.nxtndx]
      /\ d.lapped = (c.lapped \/ Overrun(c.pos))
      /\ d.beg = c.beg /\ d.end = c.end /\ d.continuous = c.continuous
      /\ d.status = c.status /\ d.count = c.count /\ d.sent = c.sent /\ d.pos = c.pos
      /\ d.nxtndx = c.nxtndx /\ d.endndx = c.endndx
      /\ d.gap = c.gap /\ d.ahead = c.ahead
      BY DEF ClientType
<1>4. SnapInv(d)  BY <1>3 DEF ClientInv, SnapInv
<1>5. AskedInv(d)  BY <1>1, <1>3 DEF ClientInv, AskedInv, Forwards
<1>6. ASSUME Generate, c.count > 0, ~d.lapped, ~d.ahead PROVE RunInv(d)
  <2>n. PastEnd(c) => Overrun(c.pos)  BY DEF PastEnd, Slot
  <2>1. RunInv(c) /\ ~Overrun(c.pos)  BY <1>3, <1>6, <2>n DEF ClientInv
  <2>2. PICK e \in Nat : BatchTo(c, e)  BY <1>1, <2>1 DEF RunInv
  <2>3. c.pos \in 1..Count /\ c.nxtndx = (c.pos - 1) % N
        BY <1>1, <2>1, <2>2 DEF RunInv, BatchTo
  <2>4. d.hdr = log[d.pos]  BY <1>3, <2>1, <2>3 DEF DeepInv, Stored
  <2>5. d.status = READY /\ READY # WAITING  BY <1>1, <1>3 DEF READY, WAITING
  <2>6. BatchTo(d, e)  BY <1>3, <2>2 DEF BatchTo
  <2> QED  BY <1>3, <2>1, <2>4, <2>5, <2>6 DEF RunInv
<1> QED  BY <1>2, <1>3, <1>4, <1>5, <1>6 DEF ClientInv

\* And so is the payload.
LEMMA ReadsRaw ==
  ASSUME TypeOK, DeepInv, NEW c \in ClientType, ClientInv(c), c.at = "readraw",
         NEW d, d = [c EXCEPT !.at = "send", !.raw = raw[c.nxtndx],
                              !.lapped = @ \/ Overrun(c.pos)]
  PROVE  d \in ClientType /\ ClientInv(d) /\ d.at = "send"
<1>0. c.nxtndx \in Slot  BY DEF ClientInv, AskedInv
<1>1. /\ raw[c.nxtndx] \in Nat /\ Overrun(c.pos) \in BOOLEAN
      /\ c.pos \in Int /\ Count \in Nat /\ Len(c.sent) \in Nat /\ c.status = READY
      BY SMTT(20), <1>0 DEF ClientType, Packets, TypeOK, Overrun, Count, ClientInv, AskedInv
<1>2. d \in ClientType  BY ZenonT(30), <1>1 DEF ClientType, Phase
<1>3. /\ d.at = "send" /\ d.raw = raw[c.nxtndx] /\ d.hdr = c.hdr
      /\ d.lapped = (c.lapped \/ Overrun(c.pos))
      /\ d.beg = c.beg /\ d.end = c.end /\ d.continuous = c.continuous
      /\ d.status = c.status /\ d.count = c.count /\ d.sent = c.sent /\ d.pos = c.pos
      /\ d.nxtndx = c.nxtndx /\ d.endndx = c.endndx
      /\ d.gap = c.gap /\ d.ahead = c.ahead
      BY DEF ClientType
<1>4. SnapInv(d)  BY <1>3 DEF ClientInv, SnapInv
<1>5. AskedInv(d)  BY <1>0, <1>1, <1>3 DEF ClientInv, AskedInv, Forwards
<1>6. ASSUME Generate, c.count > 0, ~d.lapped, ~d.ahead PROVE RunInv(d)
  <2>n. ~PastEnd(c)  BY DEF PastEnd
  <2>1. RunInv(c) /\ ~Overrun(c.pos)  BY <1>3, <1>6, <2>n DEF ClientInv
  <2>2. PICK e \in Nat : BatchTo(c, e)  BY <1>1, <2>1 DEF RunInv
  <2>3. c.pos \in 1..Count /\ c.nxtndx = (c.pos - 1) % N
        BY <1>1, <2>1, <2>2 DEF RunInv, BatchTo
  <2>4. d.raw = log[d.pos] /\ d.hdr = log[d.pos]
        BY <1>3, <2>1, <2>3 DEF DeepInv, Stored, RunInv
  <2>5. d.status = READY /\ READY # WAITING  BY <1>1, <1>3 DEF READY, WAITING
  <2>6. BatchTo(d, e)  BY <1>3, <2>2 DEF BatchTo
  <2> QED  BY <1>3, <2>1, <2>4, <2>5, <2>6 DEF RunInv
<1> QED  BY <1>2, <1>3, <1>4, <1>5, <1>6 DEF ClientInv

\* Two packets less than a ring apart are in different slots.
LEMMA TwoSlots ==
  ASSUME NEW p \in Int, NEW e \in Int, 1 <= p, p < e, e < p + N
  PROVE  (p - 1) % N # (e - 1) % N
<1>1. PICK j \in Nat, k \in Nat : j = p - 1 /\ k = e - 1  OBVIOUS
<1>2. j < k /\ k < j + N  BY <1>1, Slots
<1> QED  BY <1>1, <1>2, Slots, ModInj

\* One packet more, and the next slot or the end of the batch.
LEMMA RunsOn ==
  ASSUME NEW c, NEW d, RunInv(c), c.status = READY, c.at = "send", Count \in Nat,
         NEW p \in Int, c.pos = p, d.pos = p + 1,
         NEW m \in Nat, Len(c.sent) = m, Len(d.sent) = m + 1,
         d.sent[m + 1] = <<c.hdr, c.raw>>, \A i \in 1..m : d.sent[i] = c.sent[i],
         d.at = "loop", d.count = c.count, d.continuous = c.continuous, d.gap = c.gap,
         d.endndx = c.endndx,
         d.status = IF c.nxtndx = c.endndx THEN Drained(c) ELSE READY,
         c.nxtndx # c.endndx => d.nxtndx = NextSlot(c.nxtndx)
  PROVE  RunInv(d)
<1>1. c.hdr = log[p] /\ c.raw = log[p]  BY DEF RunInv
<1>2. PICK e \in Nat : BatchTo(c, e)  BY DEF RunInv
<1>3. /\ p \in 1..Count /\ p <= e /\ e < p + N /\ e <= Count
      /\ c.nxtndx = (p - 1) % N /\ c.endndx = (e - 1) % N
      /\ c.continuous => e = c.count + c.gap
      BY <1>2 DEF RunInv, BatchTo
<1>4. \A i \in 1..Len(d.sent) :
        LET k == d.pos - 1 - Len(d.sent) + i IN d.sent[i] = <<log[k], log[k]>>
  <2> SUFFICES ASSUME NEW i \in 1..(m + 1),
                      NEW k, k = p + 1 - 1 - (m + 1) + i
               PROVE  d.sent[i] = <<log[k], log[k]>>
      OBVIOUS
  <2>1. k = p - 1 - m + i  OBVIOUS
  <2>2. CASE i = m + 1
    <3>1. k = p  BY <2>1, <2>2
    <3> QED  BY <1>1, <2>2, <3>1
  <2>3. CASE i \in 1..m
    <3>1. c.sent[i] = <<log[k], log[k]>>  BY <2>1, <2>3 DEF RunInv
    <3> QED  BY <2>3, <3>1
  <2> QED  BY <2>2, <2>3
<1>5. d.pos >= Len(d.sent) + 1 /\ d.pos - 1 <= Count
      BY <1>3 DEF RunInv
<1>6. CASE p = e
  <2>1. d.status = IF c.continuous THEN WAITING ELSE DONE  BY <1>3, <1>6 DEF Drained
  <2>2. d.status # READY /\ (d.status = WAITING => d.continuous)
        BY <2>1 DEF WAITING, DONE, READY
  <2>3. d.continuous => /\ d.pos = d.count + d.gap + 1 /\ d.pos > 1
                        /\ d.endndx = (d.pos - 2) % N
    <3>1. d.pos - 2 = e - 1 /\ d.pos > 1  BY <1>3, <1>6
    <3> QED  BY <1>3, <1>6, <3>1
  <2> QED  BY <1>4, <1>5, <2>2, <2>3 DEF RunInv
<1>7. CASE p < e
  <2>3. (p - 1) % N # (e - 1) % N  BY <1>3, <1>7, TwoSlots
  <2>4. c.nxtndx # c.endndx  BY <1>3, <2>3
  <2>5. NextSlot((p - 1) % N) = p % N
    <3>1. PICK j \in Nat : j = p - 1  BY <1>3
    <3>2. j + 1 = p  BY <3>1
    <3> QED  BY <3>1, <3>2, NextSlotMod
  <2>6. d.nxtndx = p % N  BY <1>3, <2>4, <2>5
  <2>7. p + 1 <= e /\ e < (p + 1) + N /\ (p + 1) - 1 = p  BY <1>3, <1>7, Slots
  <2>8. BatchTo(d, e)  BY <1>3, <2>6, <2>7 DEF BatchTo
  <2>9. d.status = READY /\ READY # WAITING  BY <2>4 DEF READY, WAITING
  <2> QED  BY <1>4, <1>5, <2>8, <2>9 DEF RunInv
<1> QED  BY <1>3, <1>6, <1>7

Sent(c) == [c EXCEPT !.at = "loop", !.hdr = NoPkt, !.raw = NoPkt, !.pos = @ + 1,
                     !.sent = Append(@, <<c.hdr, c.raw>>)]
Moved(c, s) == IF c.nxtndx = c.endndx THEN [s EXCEPT !.status = Drained(c)]
                                      ELSE [s EXCEPT !.nxtndx = NextSlot(@)]

LEMMA Sends ==
  ASSUME TypeOK, NEW c \in ClientType, ClientInv(c), c.at = "send",
         NEW s, s = Sent(c), NEW d, d = Moved(c, s)
  PROVE  d \in ClientType /\ ClientInv(d) /\ d.at = "loop"
<1>1. /\ c.nxtndx \in Slot /\ c.endndx \in Bumped /\ c.pos \in Int /\ Count \in Nat
      /\ c.sent \in Packets /\ Len(c.sent) \in Nat /\ c.status = READY
      /\ c.hdr \in Nat /\ c.raw \in Nat /\ c.count \in Nat /\ c.count # 0
      BY SMTT(20) DEF ClientType, Packets, TypeOK, Count, ClientInv, AskedInv
<1>2. PICK m \in Nat, w \in Packets :
        /\ m = Len(c.sent) /\ w = Append(c.sent, <<c.hdr, c.raw>>)
        /\ Len(w) = m + 1 /\ w[m + 1] = <<c.hdr, c.raw>>
        /\ \A i \in 1..m : w[i] = c.sent[i]
  <2> DEFINE q == <<c.hdr, c.raw>>
             l == c.sent
  <2>1. q \in Nat \X Nat /\ l \in Seq(Nat \X Nat)  BY <1>1 DEF Packets
  <2> HIDE DEF q, l
  <2>2. /\ Append(l, q) \in Seq(Nat \X Nat) /\ Len(l) \in Nat
        /\ Len(Append(l, q)) = Len(l) + 1 /\ Append(l, q)[Len(l) + 1] = q
        /\ \A i \in 1..Len(l) : Append(l, q)[i] = l[i]
        BY <2>1
  <2> QED  BY <2>2 DEF Packets, q, l
<1>3. NextSlot(c.nxtndx) \in Slot /\ Slot \subseteq Bumped
  <2>1. Slot \subseteq Bumped  BY Slots DEF Slot, Bumped
  <2> QED  BY <1>1, <2>1, NextIsSlot
<1>4. Drained(c) = IF c.continuous THEN WAITING ELSE DONE  BY DEF Drained
<1>5. PICK p \in Int : p = c.pos + 1  BY <1>1
<1>6. PICK f : f = [c EXCEPT !.at = "loop", !.hdr = NoPkt, !.raw = NoPkt]  OBVIOUS
<1>7. /\ f \in ClientType
      /\ f.at = "loop" /\ f.gap = c.gap /\ f.ahead = c.ahead /\ f.lapped = c.lapped
      /\ f.beg = c.beg /\ f.end = c.end /\ f.continuous = c.continuous
      /\ f.status = c.status /\ f.count = c.count
      /\ f.nxtndx = c.nxtndx /\ f.endndx = c.endndx
      BY <1>6 DEF ClientType, Phase, NoPkt
<1>8. s = [f EXCEPT !.pos = p, !.sent = w]  BY <1>2, <1>5, <1>6 DEF ClientType, Sent
<1>9. /\ s \in ClientType
      /\ s.at = "loop" /\ s.gap = c.gap /\ s.ahead = c.ahead /\ s.lapped = c.lapped
      /\ s.beg = c.beg /\ s.end = c.end /\ s.continuous = c.continuous
      /\ s.status = c.status /\ s.count = c.count /\ s.pos = p /\ s.sent = w
      /\ s.nxtndx = c.nxtndx /\ s.endndx = c.endndx
      BY ZenonT(30), <1>5, <1>7, <1>8 DEF ClientType
<1>t. d \in ClientType  BY <1>3, <1>4, <1>9 DEF ClientType, Moved
<1>10. /\ d.at = "loop" /\ d.gap = c.gap /\ d.ahead = c.ahead /\ d.lapped = c.lapped
       /\ d.beg = c.beg /\ d.end = c.end /\ d.continuous = c.continuous
       /\ d.count = c.count /\ d.pos = p /\ d.sent = w /\ d.endndx = c.endndx
       /\ d.status = IF c.nxtndx = c.endndx THEN Drained(c) ELSE READY
       /\ d.nxtndx = IF c.nxtndx = c.endndx THEN c.nxtndx ELSE NextSlot(c.nxtndx)
       BY <1>1, <1>9 DEF ClientType, Moved
<1>11. SnapInv(d)  BY <1>10 DEF ClientInv, SnapInv
<1>12. AskedInv(d)  BY <1>1, <1>10 DEF ClientInv, AskedInv, Forwards
<1>13. Generate /\ ~d.lapped /\ ~d.ahead => RunInv(c)
  <2>1. ~PastEnd(c)  BY DEF PastEnd
  <2> QED  BY <1>1, <1>10, <2>1 DEF ClientInv
<1>14. ASSUME Generate, ~d.lapped, ~d.ahead PROVE RunInv(d)
  <2>1. PICK k \in Int : c.pos = k  BY <1>1
  <2>2. d.pos = k + 1  BY <1>5, <1>10, <2>1
  <2>3. RunInv(c) /\ (c.nxtndx # c.endndx => d.nxtndx = NextSlot(c.nxtndx))
        BY <1>10, <1>13, <1>14
  <2>4. /\ d.sent[m + 1] = <<c.hdr, c.raw>> /\ Len(d.sent) = m + 1
        /\ \A i \in 1..m : d.sent[i] = c.sent[i]
        BY <1>2, <1>10
  <2>5. /\ d.at = "loop" /\ d.count = c.count /\ d.continuous = c.continuous
        /\ d.endndx = c.endndx /\ d.gap = c.gap
        /\ d.status = IF c.nxtndx = c.endndx THEN Drained(c) ELSE READY
        BY <1>10
  <2>6. c.status = READY /\ Count \in Nat /\ Len(c.sent) = m  BY <1>1, <1>2
  <2> QED  BY <2>1, <2>2, <2>3, <2>4, <2>5, <2>6, RunsOn
<1> QED  BY <1>t, <1>10, <1>11, <1>12, <1>14 DEF ClientInv

-----------------------------------------------------------------------------
(* The steps of isid's threads.                                             *)

\* What was true of the packets in the log, and of those not counted, stays true.
LEMMA ClientKeeps ==
  ASSUME TypeOK, NEW c \in ClientType, ClientInv(c),
         log' = log \/ log' = Append(log, seqno),
         count' \in Nat, count <= count',
         Uncounted \in Int, Uncounted' \in Int, Uncounted <= Uncounted'
  PROVE  ClientInv(c)'
<1>0. /\ log \in Seq(Nat) /\ seqno \in Nat /\ Count = Len(log) /\ Count' = Len(log')
      /\ Count \in Nat /\ c.pos \in Int /\ Len(c.sent) \in Nat /\ count \in Nat
      /\ c.gap \in Int /\ c.count \in Nat /\ c.snapcount \in Nat
      BY DEF TypeOK, Count, ClientType, Packets
<1>1. Count' \in Nat /\ Count <= Count' /\ \A k \in 1..Count : log'[k] = log[k]
  <2>1. CASE log' = log  BY <1>0, <2>1
  <2>2. CASE log' = Append(log, seqno)  BY <1>0, <2>2
  <2> QED  BY <2>1, <2>2
<1>2. SnapInv(c)'
  <2>1. c.at \in {"snapcount", "check"} => Shows(c.snapindex, c.shown)'
    <3>1. ASSUME NEW b \in Nat, Torn(c.snapindex, b) PROVE Torn(c.snapindex, b)'
          BY <1>0, <1>1, <3>1 DEF Torn, Span
    <3>2. c.shown \in Nat  BY DEF ClientType
    <3> QED  BY <3>1, <3>2 DEF ClientInv, SnapInv, Shows, Span
  <2>4. c.at = "snapyngest" => OldestSeen(c.snapindex.oldest)'
        BY <1>0, <1>1 DEF ClientInv, SnapInv, OldestSeen
  <2>2. c.at = "check" => c.snapcount <= count'  BY <1>0 DEF ClientInv, SnapInv
  <2>3. ~c.ahead => c.gap <= Uncounted'  BY <1>0 DEF ClientInv, SnapInv
  <2> QED  BY <2>1, <2>2, <2>3, <2>4 DEF ClientInv, SnapInv
<1>3. AskedInv(c)'  BY DEF ClientInv, AskedInv, Forwards
<1>4. ASSUME RunInv(c), c.status = READY \/ c.at \notin {"readraw", "send"} PROVE RunInv(c)'
  <2> DEFINE p == c.pos
             m == Len(c.sent)
  <2>0. p \in Int /\ m \in Nat /\ p >= m + 1 /\ p - 1 <= Count  BY <1>0, <1>4 DEF RunInv
  <2>1. \A i \in 1..m :
          LET k == p - 1 - m + i IN c.sent[i] = <<log'[k], log'[k]>>
    <3> SUFFICES ASSUME NEW i \in 1..m, NEW k, k = p - 1 - m + i
                 PROVE  c.sent[i] = <<log'[k], log'[k]>>
        OBVIOUS
    <3>1. c.sent[i] = <<log[k], log[k]>>  BY <1>4 DEF RunInv
    <3> HIDE DEF p, m
    <3>2. k \in 1..Count  BY <1>0, <2>0
    <3> QED  BY <1>1, <3>1, <3>2
  <2>2. ASSUME NEW e \in Nat, BatchTo(c, e) PROVE BatchTo(c, e)'
        BY <1>0, <1>1, <2>2 DEF BatchTo
  <2>3. c.status = READY => p \in 1..Count
        BY <1>0, <1>4, <2>0 DEF RunInv, BatchTo
  <2>4. c.status = READY => \E e \in Nat : BatchTo(c, e)'  BY <1>4, <2>2 DEF RunInv
  <2>5. c.at = "readraw" => c.hdr = log'[c.pos]
        BY <1>1, <1>4, <2>3 DEF RunInv
  <2>6. c.at = "send" => c.hdr = log'[c.pos] /\ c.raw = log'[c.pos]
        BY <1>1, <1>4, <2>3 DEF RunInv
  <2>7. p - 1 <= Count'  BY <1>0, <1>1, <2>0
  <2> QED  BY <1>4, <2>0, <2>1, <2>4, <2>5, <2>6, <2>7 DEF RunInv
<1>5. c.status = READY \/ c.at \notin {"readraw", "send"}  BY DEF ClientInv, AskedInv
<1>6. PastEnd(c) => PastEnd(c)'
  <2>1. Overrun(c.pos) => Overrun(c.pos)'
        BY <1>0, <1>1, Slots DEF Overrun
  <2> QED  BY <2>1 DEF PastEnd
<1> QED  BY <1>2, <1>3, <1>4, <1>5, <1>6 DEF ClientInv

\* Each step of a thread, on the state of its request.
Good(t, d) ==
  /\ d \in ClientType /\ ClientInv(d)
  /\ cl' = [cl EXCEPT ![t] = d]
  /\ d.at = "snapcount" => d.shown = Showing

\* And on the lock: nothing, or the process gives it up, or this thread takes it.
OnLock(t) ==
  \/ rlock' = rlock /\ holders' = holders
  \/ rlock' = {} /\ holders' = {}
  \/ wlock = NoPid /\ rlock' = Reader /\ holders' = holders \cup {t}

LEMMA LockSteps ==
  ASSUME NEW t \in Thread, ThreadStep(t)
  PROVE  WriterKeeps /\ OnLock(t)
<1>1. ASSUME NEW q \in Requests, CheckRequest(t, q) PROVE WriterKeeps /\ OnLock(t)
      BY <1>1 DEF CheckRequest, LockStays, OnLock
<1>2. CASE GetLock(t)
      BY <1>2 DEF GetLock, SnapLock, ReadPktLock, ProcessLock, OnLock
<1>3. CASE Serve(t)
  <2>0. CASE SnapOldest(t)  BY <2>0 DEF SnapOldest, LockStays, OnLock
  <2>1. CASE SnapYngest(t)  BY <2>1 DEF SnapYngest, LockStays, OnLock
  <2>2. CASE SnapCount(t)  BY <2>2 DEF SnapCount, ProcessUnlock, OnLock
  <2>3. CASE CheckFirst(t)
    <3>1. WriterKeeps /\ (ProcessUnlock \/ LockStays)  BY <2>3, Zenon DEF CheckFirst
    <3> QED  BY <3>1 DEF ProcessUnlock, LockStays, OnLock
  <2>4. CASE CheckNext(t)
    <3>1. WriterKeeps /\ LockStays  BY <2>4, Zenon DEF CheckNext
    <3> QED  BY <3>1 DEF LockStays, OnLock
  <2>5. CASE ReadHdr(t)  BY <2>5 DEF ReadHdr, ProcessUnlock, LockStays, OnLock
  <2>6. CASE ReadRaw(t)  BY <2>6 DEF ReadRaw, ProcessUnlock, OnLock
  <2>7. CASE Send(t)
    <3>1. WriterKeeps /\ LockStays  BY <2>7, Zenon DEF Send
    <3> QED  BY <3>1 DEF LockStays, OnLock
  <2>8. CASE SendFails(t) \/ Finish(t)  BY <2>8 DEF SendFails, Finish, LockStays, OnLock
  <2> QED  BY <1>3, <2>0, <2>1, <2>2, <2>3, <2>4, <2>5, <2>6, <2>7, <2>8 DEF Serve
<1> QED  BY <1>1, <1>2, <1>3 DEF ThreadStep

LEMMA ServeStep ==
  ASSUME LoopInv, ServerInv, NEW t \in Thread, ThreadStep(t)
  PROVE  \E d : Good(t, d)
<1> DEFINE c == cl[t]
<1>0. /\ c \in ClientType /\ ClientInv(c)
      /\ t \in holders => rlock = Reader /\ (c.at = "snapcount" => c.shown = Showing)
      BY DEF ServerInv, KeptInv
<1>1. TypeOK /\ DeepInv  BY DEF LoopInv, IInv
<1>2. t \in holders => wlock = NoPid
      BY <1>0, ServerAssumption DEF LoopInv, ReaderInv
<1>3. ASSUME NEW q \in Requests, CheckRequest(t, q) PROVE \E d : Good(t, d)
  <2>1. PICK d : d = [c EXCEPT !.at = "loop", !.beg = q.beg, !.end = q.end,
                               !.continuous = q.continuous]
        OBVIOUS
  <2>2. cl' = [cl EXCEPT ![t] = d] /\ c.at = "accepted"
        BY <1>3, <2>1 DEF CheckRequest, Set
  <2>3. d \in ClientType /\ ClientInv(d)  BY <1>0, <2>1, <2>2, Asks
  <2>4. d.at = "loop"  BY <1>0, <2>1 DEF ClientType
  <2> QED  BY <2>2, <2>3, <2>4 DEF Good
<1>4. CASE GetLock(t)
  <2>1. PICK d : d = [c EXCEPT !.at = IF c.status = WAITING THEN "snapoldest" ELSE "readhdr"]
        OBVIOUS
  <2>2. cl' = [cl EXCEPT ![t] = d] /\ c.at = "loop" /\ c.status # DONE
        BY <1>4, <2>1
           DEF GetLock, SnapLock, ReadPktLock, Set, WAITING, READY, DONE
  <2>3. d \in ClientType /\ ClientInv(d)  BY <1>0, <2>1, <2>2, TakesLock
  <2>4. d.at # "snapcount"  BY <1>0, <2>1 DEF ClientType
  <2> QED  BY <2>2, <2>3, <2>4 DEF Good
<1>o. CASE SnapOldest(t)
  <2>1. PICK d : d = [c EXCEPT !.at = "snapyngest", !.snapindex.oldest = index.oldest]
        OBVIOUS
  <2>2. cl' = [cl EXCEPT ![t] = d] /\ c.at = "snapoldest"
        BY <1>o, <2>1 DEF SnapOldest, Set
  <2> HIDE DEF c
  <2>3. d \in ClientType /\ ClientInv(d) /\ d.at = "snapyngest"
        BY <1>0, <2>1, <2>2, TakesOldest
  <2> QED  BY <2>2, <2>3 DEF Good
<1>5. CASE SnapYngest(t)
  <2>1. PICK d : d = [c EXCEPT !.at = "snapcount", !.snapindex.yngest = index.yngest,
                               !.shown = IF Early THEN Len(log) + 1 ELSE Len(log)]
        OBVIOUS
  <2>2. cl' = [cl EXCEPT ![t] = d] /\ c.at = "snapyngest"
        BY <1>5, <2>1 DEF SnapYngest, Set
  <2> HIDE DEF c
  <2>3. d \in ClientType /\ ClientInv(d) /\ d.shown = Showing
        BY <1>0, <2>1, <2>2, TakesYngest
  <2> QED  BY <2>2, <2>3 DEF Good
<1>6. CASE SnapCount(t)
  <2>1. PICK g, s : g = c.shown - count /\ s = [c EXCEPT !.at = "check", !.snapcount = count]
        OBVIOUS
  <2>2. PICK d : d = IF c.count > 0 THEN s
                     ELSE [s EXCEPT !.gap = g,
                                    !.ahead = (t \notin holders \/ Early) /\ g > Uncounted]
        OBVIOUS
  <2>3. cl' = [cl EXCEPT ![t] = d] /\ c.at = "snapcount"
        BY <1>6, <2>1, <2>2, Zenon DEF SnapCount, Set
  <2>4. t \in holders => wlock = NoPid /\ c.shown = Showing  BY <1>0, <1>2, <2>3
  <2> HIDE DEF c
  <2>5. d \in ClientType /\ ClientInv(d) /\ d.at = "check"
    <3>1. c \in ClientType /\ ClientInv(c) /\ c.at = "snapcount"  BY <1>0, <2>3
    <3>2. CountTaken(t, c, g, s, d)  BY <2>1, <2>2, Zenon DEF CountTaken
    <3> QED  BY <2>4, <3>1, <3>2, TakesCount
  <2> QED  BY <2>3, <2>5 DEF Good
<1>7. ASSUME cl' = [cl EXCEPT ![t] = Ended] PROVE \E d : Good(t, d)
  <2>1. Ended \in ClientType /\ ClientInv(Ended) /\ Ended.at = "finished"  BY EndsRequest
  <2> QED  BY <1>7, <2>1 DEF Good
<1>8. ASSUME c.at = "check", NEW d, d = Nothing(c) \/ (c.count = 0 /\ d = Done(c)),
             cl' = [cl EXCEPT ![t] = d]
      PROVE  \E f : Good(t, f)
  <2>1. d \in ClientType /\ ClientInv(d) /\ d.at = "loop"  BY <1>0, <1>8, Waits
  <2> QED  BY <1>8, <2>1 DEF Good
<1>9. CASE CheckFirst(t)
  <2>1. PICK b, e : b = Search(c.snapindex, c.beg) /\ e = Search(c.snapindex, c.end)
        OBVIOUS
  <2>2. PICK x, y : /\ x = Position(c.snapindex, c.shown, b)
                    /\ y = Position(c.snapindex, c.shown, e)
        OBVIOUS
  <2>3. /\ c.at = "check" /\ c.count = 0
        /\ cl' = [cl EXCEPT ![t] =
                    IF c.snapcount = 0 \/ b = Undefined THEN Nothing(c)
                    ELSE IF Corrupt \in {b, e} THEN Ended
                    ELSE IF e = Undefined THEN Done(c)
                    ELSE [Batch(c, b, e, x) EXCEPT !.lapped = Overrun(y)]]
        BY <1>9, <2>1, <2>2, Zenon DEF CheckFirst, Set
  <2>4. CASE c.snapcount = 0 \/ b = Undefined  BY <1>8, <2>3, <2>4
  <2>5. CASE ~(c.snapcount = 0 \/ b = Undefined) /\ Corrupt \in {b, e}
        BY <1>7, <2>3, <2>5
  <2>6. CASE ~(c.snapcount = 0 \/ b = Undefined) /\ Corrupt \notin {b, e} /\ e = Undefined
    <3>1. cl' = [cl EXCEPT ![t] = Done(c)]  BY <2>3, <2>6
    <3> QED  BY <1>8, <2>3, <3>1
  <2>7. CASE ~(c.snapcount = 0 \/ b = Undefined) /\ Corrupt \notin {b, e} /\ e # Undefined
    <3>1. PICK d : d = [Batch(c, b, e, x) EXCEPT !.lapped = Overrun(y)]  OBVIOUS
    <3>2. cl' = [cl EXCEPT ![t] = d]  BY <2>3, <2>7, <3>1
    <3>3. c.snapcount # 0 /\ b # Undefined /\ b # Corrupt /\ e # Undefined /\ e # Corrupt
          BY <2>7
    <3> HIDE DEF c
    <3>4. d \in ClientType /\ ClientInv(d) /\ d.at = "loop"
      <4>1. c \in ClientType /\ ClientInv(c) /\ c.at = "check" /\ c.count = 0  BY <1>0, <2>3
      <4>2. BatchStarts(c, b, e, x, y, d)  BY <2>1, <2>2, <3>1, Zenon DEF BatchStarts
      <4> QED  BY <3>3, <4>1, <4>2, StartsBatch
    <3> QED  BY <3>2, <3>4 DEF Good
  <2> QED  BY <2>4, <2>5, <2>6, <2>7
<1>10. CASE CheckNext(t)
  <2>1. PICK r, b, e : r = NewRecords(c) /\ b = AfterBatch(c) /\ e = (b + r - 1) % N
        OBVIOUS
  <2>v. PICK v : v = CASE r = 0 -> Nothing(c)
                       [] r < 0 \/ r > N -> Ended
                       [] OTHER -> Batch(c, b, e, c.pos)
        OBVIOUS
  <2>2. c.at = "check" /\ c.count > 0 /\ cl' = [cl EXCEPT ![t] = v]
        BY <1>10, <2>1, <2>v, Zenon DEF CheckNext, Set
  <2>n. r = c.snapcount - c.count /\ r \in Int /\ N \in Nat \ {0}
        BY <1>0, <2>1, Slots DEF NewRecords, ClientType
  <2>3. CASE r = 0
    <3>1. v = Nothing(c)  BY <2>v, <2>3, <2>n
    <3> QED  BY <1>8, <2>2, <3>1
  <2>4. CASE r < 0 \/ r > N
    <3>1. v = Ended  BY <2>v, <2>4, <2>n
    <3> QED  BY <1>7, <2>2, <3>1
  <2>5. CASE r > 0 /\ r <= N
    <3>1. PICK d : d = Batch(c, b, e, c.pos)  OBVIOUS
    <3>v. v = d  BY <2>v, <2>5, <2>n, <3>1
    <3>2. cl' = [cl EXCEPT ![t] = d]  BY <2>2, <3>v
    <3>3. d \in ClientType /\ ClientInv(d) /\ d.at = "loop"
          BY <1>0, <2>1, <2>2, <2>5, <2>n, <3>1, NextBatch DEF AfterBatch
    <3> QED  BY <3>2, <3>3 DEF Good
  <2> QED  BY <2>3, <2>4, <2>5, <2>n
<1>11. CASE ReadHdr(t)
  <2>1. CASE c.nxtndx \in Slot
    <3>1. PICK d : d = [c EXCEPT !.at = "readraw", !.hdr = hdr[c.nxtndx],
                                 !.lapped = @ \/ Overrun(c.pos)]
          OBVIOUS
    <3>2. cl' = [cl EXCEPT ![t] = d] /\ c.at = "readhdr"
          BY <1>11, <2>1, <3>1 DEF ReadHdr, Set
    <3>3. d \in ClientType /\ ClientInv(d) /\ d.at = "readraw"
          BY <1>0, <1>1, <2>1, <3>1, <3>2, ReadsHdr
    <3> QED  BY <3>2, <3>3 DEF Good
  <2>2. CASE c.nxtndx \notin Slot  BY <1>7, <1>11, <2>2 DEF ReadHdr, Set
  <2> QED  BY <2>1, <2>2
<1>12. CASE ReadRaw(t)
  <2>1. PICK d : d = [c EXCEPT !.at = "send", !.raw = raw[c.nxtndx],
                               !.lapped = @ \/ Overrun(c.pos)]
        OBVIOUS
  <2>2. cl' = [cl EXCEPT ![t] = d] /\ c.at = "readraw"  BY <1>12, <2>1 DEF ReadRaw, Set
  <2>3. d \in ClientType /\ ClientInv(d) /\ d.at = "send"
        BY <1>0, <1>1, <2>1, <2>2, ReadsRaw
  <2> QED  BY <2>2, <2>3 DEF Good
<1>13. CASE Send(t)
  <2>1. PICK s : s = Sent(c)  OBVIOUS
  <2>2. PICK d : d = Moved(c, s)  OBVIOUS
  <2>3. c.at = "send" /\ cl' = [cl EXCEPT ![t] = d]
        BY <1>13, <2>1, <2>2, Zenon DEF Send, Set, Sent, Moved
  <2>4. d \in ClientType /\ ClientInv(d) /\ d.at = "loop"
        BY <1>0, <1>1, <2>1, <2>2, <2>3, Sends
  <2> QED  BY <2>3, <2>4 DEF Good
<1>14. CASE SendFails(t) \/ Finish(t)
       BY <1>7, <1>14 DEF SendFails, Finish, Set
<1> HIDE DEF c
<1> QED  BY <1>3, <1>4, <1>o, <1>5, <1>6, <1>9, <1>10, <1>11, <1>12, <1>13, <1>14
         DEF ThreadStep, Serve

-----------------------------------------------------------------------------
(* The whole server.                                                        *)

LEMMA WriterSteps ==
  ASSUME WriterStep
  PROVE  Next /\ rlock' = rlock /\ UNCHANGED <<cl, holders>>
<1>1. PICK p \in Pid : \/ Spawn(p) \/ Open(p) \/ WriteLock(p) \/ Write(p)
                       \/ CloseLock(p) \/ Close(p) \/ Crash(p)
      BY DEF WriterStep
<1>2. Next  BY <1>1 DEF Next
<1>3. Spawn(p) \/ Crash(p) \/ WriteLock(p) \/ CloseLock(p) => rlock' = rlock
      BY DEF Spawn, Crash, WriteLock, CloseLock, Acquire
<1>4. Open(p) => rlock' = rlock
      BY DEF Open, OpenLock, OpenRefused, OpenClaim, OpenClean, OpenRestore, OpenSetIdle,
             OpenUnlock, Acquire, Release, KeepLock
<1>5. Close(p) => rlock' = rlock
      BY DEF Close, CloseParent, CloseDisown, CloseNotParent, CloseInactive, Release, KeepLock
<1>6. Write(p) => rlock' = rlock
      BY DEF Write, WriteBackup, WriteActivate, WriteSeqno, WriteHdr, WriteRaw,
             WriteHdrFails, WriteRawFails, UnlockAndFail, WriteUpdate, IncOldest,
             IncYngest, IncLend, IncSlide, IncActive, Increment, WriteCommit,
             WriteCount, WriteUnlock, Release, KeepLock
<1>7. UNCHANGED <<cl, holders>>  BY DEF WriterStep
<1> QED  BY <1>1, <1>2, <1>3, <1>4, <1>5, <1>6, <1>7

\* A writer changes nothing that a thread whose process has the lock has seen.
LEMMA ServerWrites ==
  ASSUME LoopInv, ServerInv, WriterStep
  PROVE  LoopInv' /\ ServerInv'
<1>0. [Next]_vars /\ rlock' = rlock /\ cl' = cl /\ holders' = holders  BY WriterSteps
<1>1. LoopInv'  BY <1>0, LoopStep
<1>2. TypeOK  BY DEF LoopInv, IInv
<1>3. log' = log \/ log' = Append(log, seqno)
      BY <1>0, OnlyCommits DEF WriteCommit
<1>4. /\ count' \in Nat /\ count <= count'
      /\ Uncounted \in Int /\ Uncounted' \in Int /\ Uncounted <= Uncounted'
      BY <1>0, UncountedGrows
<1>5. ASSUME NEW t \in Thread, NEW c \in ClientType, c = cl'[t] PROVE ClientInv(c)'
  <2>1. ClientInv(c)  BY <1>0, <1>5 DEF ServerInv
  <2> QED  BY <1>2, <1>3, <1>4, <2>1, ClientKeeps
<1>6. ASSUME NEW t \in Thread PROVE KeptInv(t)'
  <2>1. CASE t \notin holders  BY <1>0, <2>1 DEF KeptInv
  <2>2. CASE t \in holders
    <3>1. wlock = NoPid  BY <2>2, ServerAssumption DEF ServerInv, LoopInv, ReaderInv
    <3>2. UNCHANGED <<index, log>>  BY <1>0, <3>1, LockHolds
    <3>3. Showing' = Showing  BY <3>2 DEF Showing, Early, Count
    <3> QED  BY <1>0, <3>3 DEF ServerInv, KeptInv
  <2> QED  BY <2>1, <2>2
<1>7. cl' \in [Thread -> ClientType] /\ (holders' # {} => rlock' = Reader)
      BY <1>0 DEF ServerInv
<1> QED  BY <1>1, <1>5, <1>6, <1>7 DEF ServerInv

\* What the threads do with the lock leaves the loop, and what every other thread
\* knows of it, as they are.
LEMMA LoopApart ==
  ASSUME LoopInv, WriterKeeps,
         \/ rlock' \in {rlock, {}}
         \/ wlock = NoPid /\ rlock' = Reader
  PROVE  /\ LoopInv' /\ Showing' = Showing
         /\ \A c \in ClientType : ClientInv(c) => ClientInv(c)'
<1>1. TypeOK /\ rlock \in SUBSET Reader  BY DEF LoopInv, IInv, TypeOK
<1>2. LoopInv'  BY <1>1, LockApart
<1>3. UNCHANGED <<index, log, count, pc>>  BY DEF WriterKeeps, sysvars
<1>4. Showing' = Showing /\ Uncounted' = Uncounted
      BY <1>3 DEF Showing, Early, Count, Uncounted
<1>5. count \in Nat /\ Len(log) \in Nat  BY <1>1 DEF TypeOK
<1>6. Uncounted \in Int  BY <1>5 DEF Uncounted
<1>7. ASSUME NEW c \in ClientType, ClientInv(c) PROVE ClientInv(c)'
      BY <1>1, <1>3, <1>4, <1>5, <1>6, <1>7, ClientKeeps
<1> QED  BY <1>2, <1>4, <1>7

LEMMA ServerServes ==
  ASSUME LoopInv, ServerInv, NEW t \in Thread, ThreadStep(t)
  PROVE  LoopInv' /\ ServerInv'
<1>1. PICK d : Good(t, d)  BY ServeStep
<1>2. WriterKeeps /\ OnLock(t)  BY LockSteps
<1>3. /\ LoopInv' /\ Showing' = Showing
      /\ \A c \in ClientType : ClientInv(c) => ClientInv(c)'
      BY <1>2, LoopApart DEF OnLock
<1>4. cl \in [Thread -> ClientType]  BY DEF ServerInv
<1>5. /\ cl' \in [Thread -> ClientType] /\ cl'[t] = d /\ d \in ClientType
      /\ \A u \in Thread : u # t => cl'[u] = cl[u]
      BY <1>1, <1>4 DEF Good
<1>6. holders' # {} => rlock' = Reader  BY <1>2 DEF OnLock, ServerInv
<1>7. ASSUME NEW u \in Thread PROVE KeptInv(u)'
  <2>1. CASE u = t  BY <1>1, <1>3, <1>5, <2>1 DEF Good, KeptInv
  <2>2. CASE u # t
    <3>1. u \in holders' => u \in holders  BY <1>2, <2>2 DEF OnLock
    <3>2. KeptInv(u) /\ cl'[u] = cl[u]  BY <1>5, <2>2 DEF ServerInv
    <3> QED  BY <1>3, <3>1, <3>2 DEF KeptInv
  <2> QED  BY <2>1, <2>2
<1>8. ASSUME NEW u \in Thread, NEW c \in ClientType, c = cl'[u] PROVE ClientInv(c)'
  <2>1. ClientInv(c)  BY <1>1, <1>5, <1>8 DEF Good, ServerInv
  <2> QED  BY <1>3, <2>1
<1> QED  BY <1>3, <1>5, <1>6, <1>7, <1>8 DEF ServerInv

\* Other threads take the lock, or give it up for those that are followed.
LEMMA ServerLetsOthers ==
  ASSUME LoopInv, ServerInv, OtherThread \/ UNCHANGED svars
  PROVE  LoopInv' /\ ServerInv'
<1>1. /\ WriterKeeps /\ cl' = cl
      /\ \/ rlock' = rlock /\ holders' = holders
         \/ rlock' = {} /\ holders' = {}
         \/ wlock = NoPid /\ rlock' = Reader /\ holders' = holders
      BY DEF OtherThread, ProcessUnlock, svars, vars, WriterKeeps, sysvars
<1>2. /\ LoopInv' /\ Showing' = Showing
      /\ \A c \in ClientType : ClientInv(c) => ClientInv(c)'
      BY <1>1, LoopApart
<1>3. ASSUME NEW t \in Thread PROVE KeptInv(t)'
  <2>1. KeptInv(t) /\ (t \in holders' => t \in holders)  BY <1>1 DEF ServerInv
  <2> QED  BY <1>1, <1>2, <2>1 DEF KeptInv
<1>4. ASSUME NEW t \in Thread, NEW c \in ClientType, c = cl'[t] PROVE ClientInv(c)'
  <2>1. ClientInv(c)  BY <1>1, <1>4 DEF ServerInv
  <2> QED  BY <1>2, <2>1
<1>5. cl' \in [Thread -> ClientType] /\ (holders' # {} => rlock' = Reader)
      BY <1>1 DEF ServerInv
<1> QED  BY <1>2, <1>3, <1>4, <1>5 DEF ServerInv

LEMMA ServerInit == SInit => LoopInv /\ ServerInv
<1> SUFFICES ASSUME SInit PROVE LoopInv /\ ServerInv  OBVIOUS
<1>0. /\ Init /\ cl = [t \in Thread |-> NewClient] /\ holders = {}
      /\ log = <<>> /\ Count = 0 /\ wlock = NoPid /\ rlock = {} /\ state = INACTIVE
      BY DEF SInit, Init, Count
<1>1. IInv /\ CountInv /\ NumberInv
      BY <1>0, TypeInit, AccessInit, RingInit, LedgerInit DEF IInv, AccessInv
<1>2. ReaderInv /\ UpdateInv /\ DeepInv
  <2>1. hdr = [s \in Slot |-> NoPkt]  BY <1>0 DEF Init
  <2> QED  BY <1>0, <2>1 DEF ReaderInv, UpdateInv, DeepInv, INACTIVE, UPDATE
<1>3. LoopInv  BY <1>1, <1>2 DEF LoopInv
<1>4. NewClient \in ClientType /\ NewClient.at = "accepted" /\ ClientInv(NewClient)
      BY <1>3, EndsRequest
<1>5. \A t \in Thread : cl[t] = NewClient  BY <1>0
<1> QED  BY <1>0, <1>3, <1>4, <1>5 DEF ServerInv, KeptInv

LEMMA ServerCorrect == SSpec => [](LoopInv /\ ServerInv)
<1>1. LoopInv /\ ServerInv /\ [SNext]_svars => LoopInv' /\ ServerInv'
  <2> SUFFICES ASSUME LoopInv, ServerInv, [SNext]_svars PROVE LoopInv' /\ ServerInv'
      OBVIOUS
  <2>1. CASE WriterStep  BY <2>1, ServerWrites
  <2>2. ASSUME NEW t \in Thread, ThreadStep(t) PROVE LoopInv' /\ ServerInv'
        BY <2>2, ServerServes
  <2>3. CASE OtherThread \/ UNCHANGED svars  BY <2>3, ServerLetsOthers
  <2> QED  BY <2>1, <2>2, <2>3 DEF SNext
<1> QED  BY <1>1, ServerInit, PTL DEF SSpec

\* From a loop that numbers its packets a client gets an unbroken run of those
\* committed, each whole and once, unless the writer overtakes its thread or its
\* first snapshot is too far ahead of its count: whatever the other clients' threads
\* do to the lock they share, and wherever writers are killed.
THEOREM ServedInOrder ==
  ASSUME Generate
  PROVE  SSpec => []DeliversInOrder
<1>1. LoopInv /\ ServerInv => DeliversInOrder
  <2> SUFFICES ASSUME LoopInv, ServerInv, NEW t \in Thread, ~cl[t].lapped, ~cl[t].ahead
               PROVE  \E k \in 0..Len(log) : \A i \in 1..Got(t) :
                        k + i <= Len(log) /\ cl[t].sent[i] = <<log[k + i], log[k + i]>>
      BY DEF DeliversInOrder
  <2>1. PICK c \in ClientType : c = cl[t] /\ ClientInv(c)  BY DEF ServerInv
  <2>t. /\ Len(log) \in Nat /\ c.pos \in Int /\ Len(c.sent) \in Nat /\ c.count \in Nat
    <3>1. Len(log) \in Nat  BY DEF LoopInv, IInv, TypeOK
    <3>2. c.pos \in Int /\ c.sent \in Packets /\ c.count \in Nat  BY DEF ClientType
    <3>3. Len(c.sent) \in Nat  BY <3>2 DEF Packets
    <3> QED  BY <3>1, <3>2, <3>3
  <2>2. PICK n \in Nat, p \in Int, m \in Nat :
          n = Len(log) /\ n = Count /\ p = c.pos /\ m = Len(c.sent) /\ m = Got(t)
        BY <2>1, <2>t DEF Count, Got
  <2>3. CASE c.sent = <<>>
    <3>e. Len(c.sent) = 0  BY <2>3
    <3>m. m = 0  BY ONLY <2>2, <3>e
    <3>n. 0 \in 0..Len(log)  BY ONLY <2>t
    <3>1. m = 0 /\ 0 \in 0..Len(log)  BY ONLY <3>m, <3>n
    <3> QED  BY <2>2, <3>1
  <2>4. CASE RunInv(c)
    <3>1. p >= m + 1 /\ p - 1 <= n  BY <2>2, <2>4 DEF RunInv
    <3> DEFINE k == p - 1 - m
    <3>2. k \in 0..n  BY <3>1
    <3>3. ASSUME NEW i \in 1..m PROVE k + i <= n /\ c.sent[i] = <<log[k + i], log[k + i]>>
      <4>1. k + i <= n  BY <3>1
      <4>2. c.sent[i] = <<log[k + i], log[k + i]>>  BY <2>2, <2>4 DEF RunInv
      <4> QED  BY <4>1, <4>2
    <3> QED  BY <2>1, <2>2, <3>2, <3>3
  <2>5. c.sent = <<>> \/ RunInv(c)
        BY <2>1, <2>t DEF ClientInv, AskedInv, PastEnd
  <2> QED  BY <2>3, <2>4, <2>5
<1>2. Generate  OBVIOUS
<1> QED  BY <1>1, <1>2, ServerCorrect, PTL

-----------------------------------------------------------------------------
(* A writer that goes into the background: who owns the loop meanwhile.     *)

\* Processes that have forked and are not done, and all that hold the lock.
ForkedPc == {"forked", "handover"}
HoldingPc == LockedPc \cup {"handover"}
ClaimedPc == OpenPc \ {"opening"}

HandoverType ==
  /\ pc \in [Pid -> PcValues \cup ForkedPc]
  /\ heir \in [Pid -> Pid \cup {NoPid}]
  /\ parent \in Pid \cup {NoPid}
  /\ wlock \in Pid \cup {NoPid}

\* The loop's parent is its owner, or a live process that has still to name it.
HandoverInv ==
  /\ HandoverType
  /\ \A p \in Pid : pc[p] \in HoldingPc <=> wlock = p
  /\ \A p \in Pid : pc[p] \in ForkedPc \cup ClaimedPc => parent = p
  /\ \A p \in Pid : pc[p] = "disowned" => parent = NoPid
  /\ \A p \in Pid : pc[p] \in OwnerPc =>
       \/ parent = p
       \/ parent \in Pid /\ pc[parent] \in ForkedPc /\ heir[parent] = p
  /\ \A p \in Pid : p \in fresh => pc[p] = "ready" /\ parent = p

\* The forking process is neither owner nor dead, so nobody else claims the loop.
LEMMA Apart ==
  /\ ForkedPc \cap OwnerPc = {} /\ "dead" \notin ForkedPc \cup OwnerPc
  /\ ClaimedPc \subseteq OwnerPc /\ ClaimedPc \subseteq HoldingPc
  /\ "ready" \notin HoldingPc \cup ForkedPc \cup ClaimedPc /\ "ready" \in OwnerPc
  /\ "cleaned" \in ClaimedPc
  /\ "disowned" \notin OwnerPc \cup ForkedPc /\ "disowned" \in HoldingPc
  /\ "closing" \in OwnerPc /\ "opening" \notin OwnerPc
  /\ "closing" \notin ForkedPc \cup ClaimedPc
BY DEF ForkedPc, HoldingPc, ClaimedPc, OwnerPc, LockedPc, OpenPc, WritePc, ClosePc

FreshStep == fresh' = {p \in Pid : pc'[p] = "ready" /\ (p \in fresh \/ pc[p] = "cleaned")}

\* p goes from one place to another, and nobody's claim to the loop changes.
MovesTo(p, v) ==
  /\ pc' = [pc EXCEPT ![p] = v]
  /\ v \in PcValues \cup ForkedPc
  /\ v \in ForkedPc <=> pc[p] \in ForkedPc
  /\ v \in OwnerPc => pc[p] \in OwnerPc
  /\ v \in ClaimedPc => pc[p] \in ClaimedPc
  /\ v = "disowned" => pc[p] = "disowned"
  /\ v \in HoldingPc /\ pc[p] \notin HoldingPc => wlock = NoPid
  /\ wlock' = IF v \in HoldingPc THEN p ELSE IF wlock = p THEN NoPid ELSE wlock
  /\ UNCHANGED <<parent, heir>>

LEMMA MovesStep ==
  ASSUME HandoverInv, FreshStep, NEW p \in Pid, NEW v, MovesTo(p, v)
  PROVE  HandoverInv'
<1>0. NoPid \notin Pid  BY PidAssumption
<1>1. /\ pc'[p] = v /\ \A q \in Pid : q # p => pc'[q] = pc[q]
      /\ UNCHANGED <<parent, heir>>
      BY DEF HandoverInv, HandoverType, MovesTo
<1>2. HandoverType'  BY <1>0 DEF HandoverInv, HandoverType, MovesTo
<1>3. \A q \in Pid : pc'[q] \in HoldingPc <=> wlock' = q
      BY <1>0, <1>1 DEF HandoverInv, HandoverType, MovesTo
<1>4. \A q \in Pid : pc'[q] \in ForkedPc <=> pc[q] \in ForkedPc
      BY <1>1 DEF MovesTo
<1>5. /\ \A q \in Pid : pc'[q] \in ForkedPc \cup ClaimedPc => parent' = q
      /\ \A q \in Pid : pc'[q] = "disowned" => parent' = NoPid
      BY <1>1 DEF HandoverInv, MovesTo
<1>6. \A q \in Pid : pc'[q] \in OwnerPc =>
        \/ parent' = q
        \/ parent' \in Pid /\ pc'[parent'] \in ForkedPc /\ heir'[parent'] = q
      BY <1>1, <1>4 DEF HandoverInv, MovesTo
<1>7. \A q \in Pid : q \in fresh' => pc'[q] = "ready" /\ parent' = q
      BY <1>1, Apart DEF HandoverInv, FreshStep
<1> QED  BY <1>2, <1>3, <1>5, <1>6, <1>7 DEF HandoverInv

\* Whoever gets past the test in open finds no forking process alive.
LEMMA ClaimStep ==
  ASSUME HandoverInv, FreshStep, NEW p \in Pid, OpenClaim(p), UNCHANGED heir
  PROVE  HandoverInv'
<1>0. NoPid \notin Pid  BY PidAssumption
<1>1. /\ pc[p] = "opening" /\ pc'[p] = "claimed" /\ parent' = p /\ wlock' = wlock
      /\ \A q \in Pid : q # p => pc'[q] = pc[q]
      /\ wlock = p /\ Vacant(p)
      BY DEF HandoverInv, HandoverType, OpenClaim, At, KeepLock, HoldingPc, LockedPc, OpenPc
<1>2. \A q \in Pid : q # p => pc[q] \notin HoldingPc  BY <1>1 DEF HandoverInv
<1>3. \A q \in Pid : q # p => pc[q] \notin ForkedPc \cup OwnerPc
  <2> SUFFICES ASSUME NEW q \in Pid, q # p, pc[q] \in ForkedPc \cup OwnerPc PROVE FALSE
      OBVIOUS
  <2>1. parent = q \/ (parent \in Pid /\ pc[parent] \in ForkedPc)  BY DEF HandoverInv
  <2>2. parent # p  BY <1>1, <2>1, Apart DEF ForkedPc
  <2>3. Alive(parent)  BY <2>1, Apart DEF Alive
  <2> QED  BY <1>1, <2>2, <2>3 DEF Vacant
<1>4. HandoverType'
      BY <1>1 DEF HandoverInv, HandoverType, OpenClaim, At, PcValues, LockedPc, OpenPc
<1>5. "claimed" \in HoldingPc /\ "claimed" # "disowned" /\ "claimed" # "ready"
      BY DEF HoldingPc, LockedPc, OpenPc
<1>6. \A q \in Pid : pc'[q] \in HoldingPc <=> wlock' = q  BY <1>1, <1>5 DEF HandoverInv
<1>7. \A q \in Pid : pc'[q] \in ForkedPc \cup ClaimedPc \cup OwnerPc => parent' = q
      BY <1>1, <1>3, Apart
<1>8. \A q \in Pid : pc'[q] # "disowned"  BY <1>1, <1>2, <1>5, Apart
<1>9. fresh' = {}
  <2>1. \A q \in Pid : q \notin fresh \/ pc'[q] # "ready"
        BY <1>1, <1>3, <1>5, Apart DEF HandoverInv
  <2>2. \A q \in Pid : pc[q] # "cleaned"  BY <1>1, <1>3, Apart
  <2> QED  BY <2>1, <2>2 DEF FreshStep
<1> QED  BY <1>4, <1>6, <1>7, <1>8, <1>9 DEF HandoverInv

LEMMA DisownStep ==
  ASSUME HandoverInv, FreshStep, NEW p \in Pid, CloseDisown(p), UNCHANGED heir
  PROVE  HandoverInv'
<1>0. NoPid \notin Pid  BY PidAssumption
<1>1. /\ pc[p] = "closing" /\ pc'[p] = "disowned" /\ parent = p /\ parent' = NoPid
      /\ \A q \in Pid : q # p => pc'[q] = pc[q]
      /\ wlock' = wlock
      BY DEF HandoverInv, HandoverType, CloseDisown, At, KeepLock
<1>2. wlock = p  BY <1>1 DEF HandoverInv, HoldingPc, LockedPc, ClosePc
<1>3. \A q \in Pid : q # p => pc[q] \notin ForkedPc \cup OwnerPc
      BY <1>1, Apart DEF HandoverInv
<1>4. HandoverType'
      BY <1>1 DEF HandoverInv, HandoverType, CloseDisown, At, PcValues, LockedPc, ClosePc
<1>5. \A q \in Pid : pc'[q] \in HoldingPc <=> wlock' = q
      BY <1>1, <1>2, Apart DEF HandoverInv
<1>6. \A q \in Pid : pc'[q] \notin ForkedPc \cup ClaimedPc \cup OwnerPc
      BY <1>1, <1>3, Apart
<1>7. fresh' = {}  BY <1>6, Apart DEF FreshStep
<1> QED  BY <1>1, <1>4, <1>5, <1>6, <1>7 DEF HandoverInv

\* The child becomes the writer while its parent keeps the loop for it.
LEMMA ForkStep ==
  ASSUME HandoverInv, FreshStep, NEW p \in Pid, NEW c \in Pid, Fork(p, c)
  PROVE  HandoverInv'
<1>0. NoPid \notin Pid  BY PidAssumption
<1>1. /\ pc[p] = "ready" /\ pc[c] = "dead" /\ p # c /\ parent = p
      /\ pc'[p] = "forked" /\ pc'[c] = "ready"
      /\ \A q \in Pid : q # p /\ q # c => pc'[q] = pc[q]
      /\ heir'[p] = c /\ UNCHANGED <<parent, wlock>>
      BY DEF HandoverInv, HandoverType, Fork, sysvars
<1>2. \A q \in Pid : q # p => pc[q] \notin ForkedPc \cup OwnerPc
      BY <1>1, Apart DEF HandoverInv
<1>3. HandoverType'
      BY <1>1 DEF HandoverInv, HandoverType, Fork, PcValues, ForkedPc
<1>4. /\ "forked" \notin HoldingPc \cup OwnerPc \cup ClaimedPc /\ "forked" \in ForkedPc
      /\ "dead" \notin HoldingPc
      BY DEF HoldingPc, ForkedPc, OwnerPc, ClaimedPc, LockedPc, OpenPc, WritePc, ClosePc
<1>5. \A q \in Pid : pc'[q] \in HoldingPc <=> wlock' = q
      BY <1>1, <1>4, Apart DEF HandoverInv
<1>6. \A q \in Pid : pc'[q] \in ForkedPc \cup ClaimedPc => parent' = q
      BY <1>1, <1>2, Apart
<1>7. \A q \in Pid : pc'[q] # "disowned"
  <2>1. \A q \in Pid : pc[q] # "disowned"  BY <1>0, <1>1 DEF HandoverInv
  <2> QED  BY <1>1, <2>1
<1>8. \A q \in Pid : pc'[q] \in OwnerPc => q = c  BY <1>1, <1>2, <1>4
<1>9. parent' \in Pid /\ pc'[parent'] \in ForkedPc /\ heir'[parent'] = c
      BY <1>1, <1>4
<1>10. fresh' = {}
  <2>1. \A q \in Pid : q \notin fresh \/ pc'[q] # "ready"
        BY <1>1, <1>2, Apart DEF HandoverInv
  <2>2. \A q \in Pid : pc'[q] # "ready" \/ pc[q] # "cleaned"  BY <1>1, <1>2, Apart
  <2> QED  BY <2>1, <2>2 DEF FreshStep
<1> QED  BY <1>3, <1>5, <1>6, <1>7, <1>8, <1>9, <1>10 DEF HandoverInv

\* From here on the child, if it still lives, owns the loop by its own name.
LEMMA NameStep ==
  ASSUME HandoverInv, FreshStep, NEW p \in Pid, Handover(p)
  PROVE  HandoverInv'
<1>0. NoPid \notin Pid  BY PidAssumption
<1>1. /\ pc[p] = "handover" /\ pc'[p] = "dead" /\ parent = p
      /\ \A q \in Pid : q # p => pc'[q] = pc[q]
      /\ parent' = heir[p] /\ wlock = p /\ wlock' = NoPid /\ heir' = heir
      BY DEF HandoverInv, HandoverType, Handover, Names, At, Release, HoldingPc, ForkedPc
<1>2. \A q \in Pid : q # p => pc[q] \notin HoldingPc \cup ForkedPc \cup ClaimedPc
      BY <1>1, Apart DEF HandoverInv
<1>3. HandoverType'
      BY <1>1 DEF HandoverInv, HandoverType, Handover, At, PcValues
<1>4. "dead" \notin HoldingPc \cup ForkedPc \cup ClaimedPc \cup OwnerPc
      BY Apart DEF HoldingPc, LockedPc, OpenPc, WritePc, ClosePc
<1>5. \A q \in Pid : pc'[q] \notin HoldingPc \cup ForkedPc \cup ClaimedPc
      BY <1>1, <1>2, <1>4
<1>6. \A q \in Pid : pc'[q] \in OwnerPc => parent' = q
      BY <1>1, <1>4, Apart DEF HandoverInv
<1>7. fresh' = {}
  <2>1. \A q \in Pid : q \in fresh => q = p  BY <1>1 DEF HandoverInv
  <2>2. \A q \in Pid : pc'[q] = "ready" => q # p /\ pc[q] # "cleaned"  BY <1>1
  <2> QED  BY <2>1, <2>2 DEF FreshStep
<1>8. \A q \in Pid : pc'[q] # "disowned"  BY <1>5, Apart
<1>9. \A q \in Pid : pc'[q] \in HoldingPc <=> wlock' = q  BY <1>0, <1>1, <1>5
<1> QED  BY <1>3, <1>5, <1>6, <1>7, <1>8, <1>9 DEF HandoverInv

\* All that a process does but fork, take over, disown and name its child.
LEMMA OtherSteps ==
  ASSUME HandoverInv, NEW p \in Pid, UNCHANGED heir, ForkerDies = FALSE,
         \/ Spawn(p) \/ Killed(p) \/ (Open(p) /\ ~OpenClaim(p))
         \/ WriteLock(p) \/ Write(p) \/ CloseLock(p)
         \/ (Close(p) /\ ~CloseDisown(p)) \/ HandoverLock(p)
  PROVE  \E v \in PcValues \cup ForkedPc : MovesTo(p, v)
<1>0. NoPid \notin Pid  BY PidAssumption
<1>1. /\ pc[p] \in HoldingPc <=> wlock = p
      /\ pc[p] \in PcValues \cup ForkedPc /\ wlock \in Pid \cup {NoPid}
      BY DEF HandoverInv, HandoverType
<1>2. CASE Spawn(p)
  <2>1. PICK v \in {"start", "other"} : pc[p] = "dead" /\ pc' = [pc EXCEPT ![p] = v]
        BY <1>2 DEF Spawn, At
  <2> QED  BY <1>1, <1>2, <2>1
           DEF Spawn, sysvars, MovesTo, PcValues, HoldingPc, ForkedPc, ClaimedPc, OwnerPc,
               LockedPc, OpenPc, WritePc, ClosePc
<1>3. CASE Killed(p)
  <2>1. pc[p] \notin ForkedPc  BY <1>3 DEF Killed, ForkedPc
  <2>2. pc' = [pc EXCEPT ![p] = "dead"]  BY <1>3 DEF Killed, Crash
  <2> QED  BY <1>1, <1>3, <2>1, <2>2
           DEF Killed, Crash, sysvars, MovesTo, PcValues, HoldingPc, ForkedPc, ClaimedPc,
               OwnerPc, LockedPc, OpenPc, WritePc, ClosePc
<1>4. CASE OpenLock(p) \/ WriteLock(p) \/ CloseLock(p) \/ HandoverLock(p)
  <2>1. PICK u, v : At(p, u, v) /\ Acquire(p) /\ parent' = parent
                    /\ <<u, v>> \in {<<"start", "opening">>, <<"ready", "locked">>,
                                     <<"ready", "closing">>, <<"forked", "handover">>}
        BY <1>4 DEF OpenLock, WriteLock, CloseLock, HandoverLock, sysvars
  <2> QED  BY <1>0, <1>1, <2>1
           DEF At, Acquire, LockFree, MovesTo, PcValues, HoldingPc, ForkedPc, ClaimedPc,
               OwnerPc, LockedPc, OpenPc, WritePc, ClosePc
<1>5. CASE Open(p) /\ ~OpenClaim(p) /\ ~OpenLock(p)
  <2>1. PICK u, v : At(p, u, v) /\ parent' = parent
                    /\ \/ KeepLock /\ <<u, v>> \in {<<"claimed", "cleaned">>,
                                          <<"claimed", "restored">>, <<"restored", "cleaned">>}
                       \/ Release /\ <<u, v>> \in {<<"opening", "dead">>, <<"cleaned", "ready">>}
        BY <1>5 DEF Open, OpenRefused, OpenClean, OpenRestore, OpenSetIdle, OpenUnlock,
                    sysvars
  <2> QED  BY <1>0, <1>1, <2>1
           DEF At, KeepLock, Release, MovesTo, PcValues, HoldingPc, ForkedPc, ClaimedPc,
               OwnerPc, LockedPc, OpenPc, WritePc, ClosePc
<1>6. CASE Close(p) /\ ~CloseDisown(p)
  <2>1. PICK u \in {"closing", "disowned"} : At(p, u, "dead") /\ Release /\ parent' = parent
        BY <1>6 DEF Close, CloseParent, CloseNotParent, CloseInactive, sysvars
  <2> QED  BY <1>0, <1>1, <2>1
           DEF At, Release, MovesTo, PcValues, HoldingPc, ForkedPc, ClaimedPc,
               OwnerPc, LockedPc, OpenPc, WritePc, ClosePc
<1>7. CASE Write(p)
  <2>0. /\ pc[p] \in WritePc /\ pc'[p] \in WritePc \cup {"ready"}
        /\ pc' = [pc EXCEPT ![p] = pc'[p]] /\ parent' = parent
        /\ \/ pc'[p] # "ready" /\ KeepLock
           \/ pc'[p] = "ready" /\ Release
    <3>0. pc \in [Pid -> PcValues \cup ForkedPc]  BY DEF HandoverInv, HandoverType
    <3>1. CASE WriteHdrFails(p) \/ WriteRawFails(p) \/ WriteUnlock(p)
          BY <3>0, <3>1 DEF At, WriteHdrFails, WriteRawFails, WriteUnlock, UnlockAndFail, sysvars,
                      WritePc
    <3>2. CASE WriteBackup(p) \/ WriteActivate(p) \/ WriteSeqno(p) \/ WriteHdr(p)
               \/ WriteRaw(p) \/ WriteUpdate(p) \/ WriteCommit(p) \/ WriteCount(p)
          BY <3>0, <3>2 DEF At, WriteBackup, WriteActivate, WriteSeqno, WriteHdr, WriteRaw,
                      WriteUpdate, WriteCommit, WriteCount, sysvars, WritePc
    <3>3. CASE IncOldest(p) \/ IncYngest(p) \/ IncLend(p) \/ IncSlide(p) \/ IncActive(p)
          BY <3>0, <3>3 DEF At, IncOldest, IncYngest, IncLend, IncSlide, IncActive, Increment, WritePc
    <3> QED  BY <1>7, <3>1, <3>2, <3>3 DEF Write
  <2>a. PICK u, v : u = pc[p] /\ v = pc'[p]  OBVIOUS
  <2>1. /\ u \in WritePc /\ v \in WritePc \cup {"ready"}
        /\ At(p, u, v) /\ parent' = parent
        /\ \/ v # "ready" /\ KeepLock
           \/ v = "ready" /\ Release
        BY <2>0, <2>a DEF At
  <2>2. v \in PcValues /\ (v \in HoldingPc <=> v # "ready")
        BY <2>1 DEF PcValues, LockedPc, HoldingPc, WritePc, OpenPc, ClosePc
  <2>3. /\ u \in OwnerPc /\ u \in HoldingPc
        /\ v \notin ForkedPc \cup ClaimedPc /\ u \notin ForkedPc /\ v # "disowned"
        BY <2>1 DEF OwnerPc, HoldingPc, LockedPc, ForkedPc, ClaimedPc, WritePc, OpenPc
  <2> QED  BY <1>0, <1>1, <2>1, <2>2, <2>3 DEF At, KeepLock, Release, MovesTo
<1> QED  BY <1>2, <1>3, <1>4, <1>5, <1>6, <1>7

LEMMA HandoverInductive == ForkerDies = FALSE => (DSpec => []HandoverInv)
<1> SUFFICES ASSUME ForkerDies = FALSE PROVE DSpec => []HandoverInv  OBVIOUS
<1>1. DInit => HandoverInv
  <2> SUFFICES ASSUME DInit PROVE HandoverInv  OBVIOUS
  <2>1. /\ pc = [p \in Pid |-> "dead"] /\ wlock = NoPid /\ parent = NoPid
        /\ heir = [p \in Pid |-> NoPid] /\ fresh = {}
        BY DEF DInit, Init
  <2>2. "dead" \notin HoldingPc \cup ForkedPc \cup ClaimedPc \cup OwnerPc
        BY DEF HoldingPc, ForkedPc, ClaimedPc, OwnerPc, LockedPc, OpenPc, WritePc, ClosePc
  <2> QED  BY <2>1, <2>2, PidAssumption DEF HandoverInv, HandoverType, PcValues
<1>2. HandoverInv /\ [DNext]_dvars => HandoverInv'
  <2> SUFFICES ASSUME HandoverInv, [DNext]_dvars PROVE HandoverInv'  OBVIOUS
  <2>1. CASE UNCHANGED dvars
        BY <2>1 DEF dvars, vars, HandoverInv, HandoverType
  <2>2. CASE DNext
    <3>1. PICK p \in Pid : DStep(p)  BY <2>2 DEF DNext
    <3>2. FreshStep  BY <2>2 DEF DNext, FreshStep
    <3>3. CASE \E c \in Pid : Fork(p, c)  BY <3>2, <3>3, ForkStep
    <3>4. CASE Handover(p)  BY <3>2, <3>4, NameStep
    <3>5. CASE OpenClaim(p) /\ UNCHANGED heir  BY <3>2, <3>5, ClaimStep
    <3>6. CASE CloseDisown(p) /\ UNCHANGED heir  BY <3>2, <3>6, DisownStep
    <3>7. CASE ~(\E c \in Pid : Fork(p, c)) /\ ~Handover(p)
               /\ ~(OpenClaim(p) /\ UNCHANGED heir) /\ ~(CloseDisown(p) /\ UNCHANGED heir)
      <4>1. UNCHANGED heir  BY <3>1, <3>7 DEF DStep, HandoverLock
      <4>2. \E v \in PcValues \cup ForkedPc : MovesTo(p, v)
            BY <3>1, <3>7, <4>1, OtherSteps DEF DStep
      <4> QED  BY <3>2, <4>2, MovesStep
    <3> QED  BY <3>3, <3>4, <3>5, <3>6, <3>7
  <2> QED  BY <2>1, <2>2
<1> QED  BY <1>1, <1>2, PTL DEF DSpec

\* Forking keeps SingleWriter, if nobody kills the forking process before it has
\* named its child in sys.
THEOREM OneWriterForks == ForkerDies = FALSE => (DSpec => []SingleWriter)
<1>1. HandoverInv => SingleWriter
  <2> SUFFICES ASSUME HandoverInv, NEW p \in Pid, NEW q \in Pid,
                      pc[p] \in OwnerPc, pc[q] \in OwnerPc
               PROVE  p = q
      BY DEF SingleWriter, Owners
  <2> QED  BY Apart DEF HandoverInv
<1> QED  BY <1>1, HandoverInductive, PTL
=============================================================================
