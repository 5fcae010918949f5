---------------------------- MODULE IsiPushProofs ----------------------------
(***************************************************************************)
(* Proofs about a program that pushes packets and its peer, for any number *)
(* of buffers, packets, connections and faults and sockets of any size.    *)
(* No thread aborts in msgqGet, for a queue has as many messages as its    *)
(* semaphore says and threads are past it (QInv).  And what a connection   *)
(* has stored is what was sent on it, in order, for what is on its way are *)
(* whole frames with packets that become newer from one to the next (PInv).*)
(***************************************************************************)
EXTENDS IsiPush, TLAPS

QueueType == [sp : Nat, list : Seq(Int)]

AppType == [at : {"idle", "heap", "popheap", "steal", "popfull", "put"}, pkt : Nat]

PusherType ==
  [at : {"ready", "pop", "send", "connect", "write", "done"}, frame : Int, part : Int]

\* Threads past the semaphore of the queue and not yet at its list.
PastHeap == IF app.at = "popheap" THEN 1 ELSE 0
PastFull == (IF app.at = "popfull" THEN 1 ELSE 0) + (IF pusher.at = "pop" THEN 1 ELSE 0)

QueueTypes == heap \in QueueType /\ full \in QueueType
ThreadTypes == app \in AppType /\ pusher \in PusherType
HeapCounted == heap.sp + PastHeap = Len(heap.list)
FullCounted == full.sp + PastFull = Len(full.list)

\* The inductive invariant.
QInv == QueueTypes /\ ThreadTypes /\ HeapCounted /\ FullCounted /\ NeverHosed

queues == <<heap, full, app, pusher, proc>>

-----------------------------------------------------------------------------
(* What the operations on a queue do to it.                                  *)

LEMMA PassedCount ==
  ASSUME NEW q \in QueueType, Available(q)
  PROVE  /\ Passed(q) \in QueueType
         /\ Passed(q).sp = q.sp - 1 /\ Passed(q).list = q.list
BY DEF QueueType, Available, Passed

LEMMA PoppedCount ==
  ASSUME NEW q \in QueueType, Len(q.list) > 0
  PROVE  /\ ~Hosed(q) /\ Popped(q) \in QueueType
         /\ Popped(q).sp = q.sp /\ Len(Popped(q).list) = Len(q.list) - 1
         /\ Head(q.list) \in Int
<1>1. q.list \in Seq(Int) /\ q.list /= <<>>  BY DEF QueueType
<1>2. Tail(q.list) \in Seq(Int) /\ Len(Tail(q.list)) = Len(q.list) - 1 /\ Head(q.list) \in Int
  BY <1>1
<1> QED  BY <1>1, <1>2 DEF QueueType, Hosed, Popped

LEMMA PutCount ==
  ASSUME NEW q \in QueueType, NEW m \in Int
  PROVE  /\ msgqPut(q, m) \in QueueType
         /\ msgqPut(q, m).sp = q.sp + 1
         /\ Len(msgqPut(q, m).list) = Len(q.list) + 1
BY DEF QueueType, msgqPut

LEMMA EmptyCount == EmptyQueue \in QueueType /\ EmptyQueue.sp = Len(EmptyQueue.list)
BY DEF QueueType, EmptyQueue

LEMMA FilledCount ==
  ASSUME NEW n \in Nat, NEW m \in Int
  PROVE  /\ FilledQueue(n, m) \in QueueType
         /\ FilledQueue(n, m).sp = n /\ Len(FilledQueue(n, m).list) = n
<1>1. [i \in 1..n |-> m] \in Seq(Int) /\ Len([i \in 1..n |-> m]) = n  OBVIOUS
<1> QED  BY <1>1 DEF QueueType, FilledQueue

-----------------------------------------------------------------------------
(* The invariant holds at the start and is kept.                             *)

LEMMA QInvInit == Init => QInv
<1> SUFFICES ASSUME Init PROVE QInv  OBVIOUS
<1>1. Depth \in Nat /\ NOP \in Int /\ Ready \in PusherType
  BY PushAssumption DEF NOP, Ready, PusherType
<1>2. QueueTypes /\ heap.sp = Len(heap.list) /\ full.sp = Len(full.list)
  BY <1>1, FilledCount, EmptyCount DEF Init, QueueTypes
<1>3. ThreadTypes /\ app.at = "idle" /\ pusher.at = "send" /\ proc = "live"
  BY <1>1 DEF Init, ThreadTypes, AppType, PusherType
<1>4. heap.sp \in Nat /\ full.sp \in Nat  BY <1>2 DEF QueueTypes, QueueType
<1> QED
  BY <1>2, <1>3, <1>4 DEF QInv, HeapCounted, FullCounted, PastHeap, PastFull, NeverHosed

LEMMA Idle ==
  ASSUME QInv, UNCHANGED queues
  PROVE  QInv'
BY DEF queues, QInv, QueueTypes, ThreadTypes, HeapCounted, FullCounted, PastHeap, PastFull,
       NeverHosed

\* Where the threads are may change as long as nobody comes to, or leaves, the
\* list of a queue.
LEMMA ThreadsMove ==
  ASSUME QInv, ThreadTypes', UNCHANGED <<heap, full>>, proc' /= "aborted",
         PastHeap' = PastHeap, PastFull' = PastFull
  PROVE  QInv'
BY DEF QInv, QueueTypes, HeapCounted, FullCounted, NeverHosed

\* The application moves to another place and keeps its packet, or takes the next.
LEMMA AppMoves ==
  ASSUME QInv,
         \/ NextPkt
         \/ \E to \in {"heap", "popheap", "steal", "popfull", "put"} : AppTo(to)
  PROVE  app' \in AppType
BY DEF QInv, ThreadTypes, AppType, NextPkt, AppTo

LEMMA AppKeeps ==
  ASSUME QInv, App \/ Call
  PROVE  QInv'
<1> USE DEF AppAt
<1>1. QueueTypes /\ ThreadTypes /\ HeapCounted /\ FullCounted /\ proc /= "aborted"
  BY DEF QInv, NeverHosed
<1>2. /\ heap.sp \in Nat /\ full.sp \in Nat /\ PastHeap \in Nat /\ PastFull \in Nat
      /\ Len(heap.list) \in Nat /\ Len(full.list) \in Nat
      /\ app.pkt \in Int /\ pusher \in PusherType /\ app \in AppType
  BY <1>1 DEF QueueTypes, QueueType, ThreadTypes, AppType, PastHeap, PastFull
<1>3. CASE Call
  <2>1. app' \in AppType /\ app'.at = "heap"  BY <1>3, <1>2, AppMoves DEF Call, AppTo, AppType
  <2> QED  BY <1>3, <1>1, <1>2, <2>1, ThreadsMove DEF Call, ThreadTypes, PastHeap, PastFull
<1>4. CASE WaitHeap
  <2>1. CASE Available(heap) /\ heap' = Passed(heap) /\ AppTo("popheap")
    <3>1. app' \in AppType /\ app'.at = "popheap"  BY <2>1, <1>2, AppMoves DEF AppTo, AppType
    <3>2. heap' \in QueueType /\ heap'.sp = heap.sp - 1 /\ heap'.list = heap.list
      BY <2>1, <1>1, PassedCount DEF QueueTypes
    <3> QED  BY <1>4, <1>1, <1>2, <3>1, <3>2
             DEF WaitHeap, QInv, QueueTypes, ThreadTypes, HeapCounted, FullCounted, PastHeap,
                 PastFull, NeverHosed
  <2>2. CASE AppTo("steal") /\ UNCHANGED heap
    <3>1. app' \in AppType /\ app'.at = "steal"  BY <2>2, <1>2, AppMoves DEF AppTo, AppType
    <3> QED  BY <1>4, <2>2, <1>1, <1>2, <3>1, ThreadsMove DEF WaitHeap, ThreadTypes, PastHeap, PastFull
  <2> QED  BY <1>4, <2>1, <2>2 DEF WaitHeap
<1>5. CASE TrySteal
  <2>1. CASE Available(full) /\ full' = Passed(full) /\ AppTo("popfull")
    <3>1. app' \in AppType /\ app'.at = "popfull"  BY <2>1, <1>2, AppMoves DEF AppTo, AppType
    <3>2. full' \in QueueType /\ full'.sp = full.sp - 1 /\ full'.list = full.list
      BY <2>1, <1>1, PassedCount DEF QueueTypes
    <3> QED  BY <1>5, <1>1, <1>2, <3>1, <3>2
             DEF TrySteal, QInv, QueueTypes, ThreadTypes, HeapCounted, FullCounted, PastHeap,
                 PastFull, NeverHosed
  <2>2. CASE NextPkt /\ UNCHANGED full
    <3>1. app' \in AppType /\ app'.at = "idle"  BY <2>2, AppMoves DEF NextPkt
    <3> QED  BY <1>5, <2>2, <1>1, <1>2, <3>1, ThreadsMove DEF TrySteal, ThreadTypes, PastHeap, PastFull
  <2> QED  BY <1>5, <2>1, <2>2 DEF TrySteal
<1>6. CASE PopHeap
  <2>1. Len(heap.list) > 0  BY <1>6, <1>1, <1>2 DEF PopHeap, HeapCounted, PastHeap
  <2>2. /\ ~Hosed(heap) /\ Popped(heap) \in QueueType
        /\ Popped(heap).sp = heap.sp /\ Len(Popped(heap).list) = Len(heap.list) - 1
    BY <2>1, <1>1, PoppedCount DEF QueueTypes
  <2>3. heap' = Popped(heap) /\ AppTo("put") /\ proc' = proc  BY <1>6, <2>2 DEF PopHeap
  <2>4. app' \in AppType /\ app'.at = "put"  BY <2>3, <1>2, AppMoves DEF AppTo, AppType
  <2> QED  BY <1>6, <1>1, <1>2, <2>2, <2>3, <2>4
           DEF PopHeap, QInv, QueueTypes, ThreadTypes, HeapCounted, FullCounted, PastHeap,
               PastFull, NeverHosed
<1>7. CASE PopFull
  <2>1. Len(full.list) > 0  BY <1>7, <1>1, <1>2 DEF PopFull, FullCounted, PastFull
  <2>2. /\ ~Hosed(full) /\ Popped(full) \in QueueType
        /\ Popped(full).sp = full.sp /\ Len(Popped(full).list) = Len(full.list) - 1
    BY <2>1, <1>1, PoppedCount DEF QueueTypes
  <2>3. full' = Popped(full) /\ AppTo("put") /\ proc' = proc  BY <1>7, <2>2 DEF PopFull
  <2>4. app' \in AppType /\ app'.at = "put"  BY <2>3, <1>2, AppMoves DEF AppTo, AppType
  <2> QED  BY <1>7, <1>1, <1>2, <2>2, <2>3, <2>4
           DEF PopFull, QInv, QueueTypes, ThreadTypes, HeapCounted, FullCounted, PastHeap,
               PastFull, NeverHosed
<1>8. CASE Put
  <2>1. /\ full' \in QueueType /\ full'.sp = full.sp + 1
        /\ Len(full'.list) = Len(full.list) + 1
    BY <1>8, <1>1, <1>2, PutCount DEF Put, QueueTypes
  <2>2. app' \in AppType /\ app'.at = "idle"  BY <1>8, AppMoves DEF Put, NextPkt
  <2> QED  BY <1>8, <1>1, <1>2, <2>1, <2>2
           DEF Put, QInv, QueueTypes, ThreadTypes, HeapCounted, FullCounted, PastHeap,
               PastFull, NeverHosed
<1> QED  BY <1>3, <1>4, <1>5, <1>6, <1>7, <1>8 DEF App

LEMMA ExitKeeps ==
  ASSUME QInv, Exit
  PROVE  QInv'
<1>1. Ready \in PusherType /\ Ready.at = "ready"  BY DEF Ready, PusherType, NOP
<1>2. app' = app /\ app \in AppType /\ app.at = "idle"
  BY DEF Exit, AppAt, QInv, ThreadTypes
<1>3. EmptyQueue.sp \in Nat  BY EmptyCount DEF QueueType
<1> QED  BY <1>1, <1>2, <1>3, EmptyCount
         DEF Exit, QInv, QueueTypes, ThreadTypes, HeapCounted, FullCounted, PastHeap,
             PastFull, NeverHosed

LEMMA PusherMoves ==
  ASSUME QInv,
         \/ \E to \in {"pop", "connect", "write", "done"} : PusherTo(to)
         \/ pusher' = [pusher EXCEPT !.part = @ + 1]
         \/ pusher' = Ready
         \/ \E f \in Int : pusher' = [at |-> "send", frame |-> f, part |-> 1]
  PROVE  pusher' \in PusherType
BY DEF QInv, ThreadTypes, PusherType, PusherTo, Ready, NOP

LEMMA PusherKeeps ==
  ASSUME QInv, Pusher
  PROVE  QInv'
<1> USE DEF PusherAt
<1>1. QueueTypes /\ ThreadTypes /\ HeapCounted /\ FullCounted /\ proc /= "aborted"
  BY DEF QInv, NeverHosed
<1>2. /\ heap.sp \in Nat /\ full.sp \in Nat /\ PastHeap \in Nat /\ PastFull \in Nat
      /\ Len(heap.list) \in Nat /\ Len(full.list) \in Nat
      /\ pusher \in PusherType /\ app \in AppType
  BY <1>1 DEF QueueTypes, QueueType, ThreadTypes, PastHeap, PastFull
<1>3. CASE TryFull
  <2>1. pusher' \in PusherType /\ pusher'.at = "pop"
    BY <1>3, <1>2, PusherMoves DEF TryFull, PusherTo, PusherType
  <2>2. full' \in QueueType /\ full'.sp = full.sp - 1 /\ full'.list = full.list
    BY <1>3, <1>1, PassedCount DEF TryFull, QueueTypes
  <2> QED  BY <1>3, <1>1, <1>2, <2>1, <2>2
           DEF TryFull, QInv, QueueTypes, ThreadTypes, HeapCounted, FullCounted, PastHeap,
               PastFull, NeverHosed
<1>4. CASE TakeFull
  <2>1. Len(full.list) > 0  BY <1>4, <1>1, <1>2 DEF TakeFull, FullCounted, PastFull
  <2>2. /\ ~Hosed(full) /\ Popped(full) \in QueueType /\ Head(full.list) \in Int
        /\ Popped(full).sp = full.sp /\ Len(Popped(full).list) = Len(full.list) - 1
    BY <2>1, <1>1, PoppedCount DEF QueueTypes
  <2>3. /\ full' = Popped(full) /\ proc' = proc
        /\ pusher' = [at |-> "send", frame |-> Head(full.list), part |-> 1]
    BY <1>4, <2>2 DEF TakeFull
  <2>4. pusher' \in PusherType /\ pusher'.at = "send"  BY <2>2, <2>3, PusherMoves
  <2> QED  BY SMTT(20), <1>4, <1>1, <1>2, <2>2, <2>3, <2>4
           DEF TakeFull, QInv, QueueTypes, ThreadTypes, HeapCounted, FullCounted, PastHeap,
               PastFull, NeverHosed
<1>5. CASE Done
  <2>1. heap \in QueueType /\ NOP \in Int  BY <1>1 DEF QueueTypes, NOP
  <2>2. \/ heap' = heap
        \/ heap' = msgqPut(heap, NOP)
    BY <1>5 DEF Done, ReturnBuffer
  <2>3. /\ heap' \in QueueType
        /\ \/ heap' = heap
           \/ heap'.sp = heap.sp + 1 /\ Len(heap'.list) = Len(heap.list) + 1
    BY <2>1, <2>2, PutCount
  <2>4. pusher' \in PusherType /\ pusher'.at = "ready"
    BY <1>5, PusherMoves DEF Done, Ready
  <2>5. pusher.at = "done" /\ UNCHANGED <<full, app, proc>>  BY <1>5 DEF Done
  <2>6. QueueTypes' /\ ThreadTypes' /\ NeverHosed'
    BY <1>1, <2>3, <2>4, <2>5 DEF QueueTypes, ThreadTypes, NeverHosed
  <2>7. PastHeap' = PastHeap /\ PastFull' = PastFull
    BY <2>4, <2>5 DEF PastHeap, PastFull
  <2>8. HeapCounted'
    BY SMTT(20), <1>1, <1>2, <2>3, <2>7 DEF HeapCounted
  <2> QED  BY <1>1, <2>5, <2>6, <2>7, <2>8 DEF QInv, FullCounted
<1>6. CASE Beat \/ SendFrame \/ Connect \/ HandshakeFails \/ ConnectFails \/ WritePiece \/ WriteFails
  <2>1. UNCHANGED <<heap, full, app>> /\ proc' /= "aborted"
    BY <1>6, <1>1 DEF Beat, SendFrame, Connect, HandshakeFails, ConnectFails, WritePiece, WriteFails
  <2>2. pusher.at /= "pop"
    BY <1>6 DEF Beat, SendFrame, Connect, HandshakeFails, ConnectFails, WritePiece, WriteFails
  <2>3. \/ pusher' = pusher
        \/ \E to \in {"connect", "write", "done"} : PusherTo(to)
        \/ pusher' = [pusher EXCEPT !.part = @ + 1]
        \/ pusher' = [at |-> "send", frame |-> NOP, part |-> 1]
    BY <1>6 DEF Beat, SendFrame, Connect, HandshakeFails, ConnectFails, WritePiece, WriteFails
  <2>4. pusher' \in PusherType /\ pusher'.at /= "pop"
    BY <1>2, <2>2, <2>3, PusherMoves DEF PusherType, PusherTo, NOP
  <2> QED  BY <2>1, <2>2, <2>4, <1>1, <1>2, ThreadsMove DEF ThreadTypes, PastHeap, PastFull
<1> QED  BY <1>3, <1>4, <1>5, <1>6 DEF Pusher

\* The invariant is kept by every step of the program and of its peer.
LEMMA QInvNext == QInv /\ [Next]_vars => QInv'
<1> SUFFICES ASSUME QInv, [Next]_vars PROVE QInv'  OBVIOUS
<1>1. CASE Call \/ App  BY <1>1, AppKeeps
<1>2. CASE Exit  BY <1>2, ExitKeeps
<1>3. CASE Pusher  BY <1>3, PusherKeeps
<1>4. CASE \E c \in Conn : ClientThread(c) \/ Break(c)
  <2>1. UNCHANGED client
    BY <1>4 DEF ClientThread, ReadPiece, ReadFails, WritePacketToDisk, StoreFails, Break, ClientKeeps
  <2> QED  BY <2>1, Idle DEF client, queues
<1>5. CASE UNCHANGED vars  BY <1>5, Idle DEF vars, client, queues
<1> QED  BY <1>1, <1>2, <1>3, <1>4, <1>5 DEF Next

\* A thread that got past a queue's semaphore finds a message, however the
\* application, which steals from the queue of full buffers, and PacketThread
\* take turns (msgqGet's "QUEUE MANAGMENT IS HOSED!", src/lib/msgq/msgq.c).
THEOREM QueueSound == Spec => []NeverHosed
<1>1. QInv => NeverHosed  BY DEF QInv
<1> QED  BY <1>1, QInvInit, QInvNext, PTL DEF Spec

-----------------------------------------------------------------------------
(* What is on a connection.                                                  *)

PieceType == [frame : Nat, part : {"preamble", "payload", "signature"}]

ConnType ==
  [wire : Seq(PieceType), cut : BOOLEAN, open : BOOLEAN,
   server : {"none", "recv", "write", "exited", "closed"}, in : Seq(PieceType)]

\* The pieces of connection k that were written and not yet dealt with: those
\* the server has read of a frame, then those in the sockets.
Size(k) == Len(k.in) + Len(k.wire)
Nth(a, b, i) == IF i <= Len(a) THEN a[i] ELSE b[i - Len(a)]
At(k, i) == Nth(k.in, k.wire, i)

Ends(p) == p.part = "signature"
Carries(p) == p.frame /= NOP

\* Piece q comes after piece p.
Follows(p, q) ==
  \/ Ends(p) /\ q.part = "preamble"
  \/ ~Ends(p) /\ q.frame = p.frame
     /\ \/ p.part = "preamble" /\ ~Carries(p) /\ q.part = "signature"
        \/ p.part = "preamble" /\ Carries(p) /\ q.part = "payload"
        \/ p.part = "payload" /\ q.part = "signature"

\* They are whole frames, but for the last one.
Framed(k) ==
  /\ Size(k) > 0 => At(k, 1).part = "preamble"
  /\ \A i \in 1..(Size(k) - 1) : Follows(At(k, i), At(k, i + 1))

\* What the server has read is part of a frame, or a packet to be stored.
Reading(k) ==
  /\ k.server = "recv" => k.in = <<>> \/ Len(k.in) < Len(Parts(k.in[1].frame))
  /\ k.server = "write" => Complete(k) /\ Carries(k.in[1])

\* How the packets on connection k, those stored g and those sent s go together:
\* what comes after the end of a frame is newer than that frame, and all of it is
\* newer than what is stored; what ends was sent; and what was sent is stored, or
\* on its way, or was lost with everything after it.
Newer(k, g, p) ==
  /\ \A m \in 1..Len(g) : g[m] < p
  /\ \A i \in 1..Size(k) : Ends(At(k, i)) => At(k, i).frame < p

Flow(k, g, s) ==
  /\ \A i, j \in 1..Size(k) :
       i < j /\ Ends(At(k, i)) /\ Carries(At(k, j)) => At(k, i).frame < At(k, j).frame
  /\ \A i \in 1..Size(k) : Carries(At(k, i)) => \A m \in 1..Len(g) : g[m] < At(k, i).frame
  /\ \A i \in 1..Size(k) :
       Ends(At(k, i)) /\ Carries(At(k, i)) => \E n \in 1..Len(s) : s[n] = At(k, i).frame
  /\ \A n \in 1..Len(s) :
       \/ \E m \in 1..Len(g) : g[m] = s[n]
       \/ \E i \in 1..Size(k) : Ends(At(k, i)) /\ At(k, i).frame = s[n]
       \/ k.cut /\ Newer(k, g, s[n])

\* g is how s begins.
Begins(g, s) == Len(g) <= Len(s) /\ \A m \in 1..Len(g) : g[m] = s[m]

Serving(k) == k.server \in {"recv", "write"}

ConnInv(k, g, s) ==
  /\ Begins(g, s)
  /\ Serving(k) => Framed(k) /\ Reading(k) /\ Flow(k, g, s)

-----------------------------------------------------------------------------
(* Where packets are.                                                        *)

\* The thread has a packet that it has not yet sent or given up.
InHand == pusher.at \in {"send", "connect", "write"} /\ pusher.frame /= NOP

\* Everything is in the order in which the application made it: sent, in hand, in
\* the queue, still to come.
OrderInv ==
  /\ pusher.frame \in 0..(app.pkt - 1)
  /\ \A i \in 1..Len(full.list) : full.list[i] \in 1..(app.pkt - 1)
  /\ \A i, j \in 1..Len(full.list) : i < j => full.list[i] < full.list[j]
  /\ InHand => \A i \in 1..Len(full.list) : pusher.frame < full.list[i]

SentInv ==
  /\ \A c \in Conn : \A n \in 1..Len(sent[c]) :
       /\ sent[c][n] \in 1..(app.pkt - 1)
       /\ \A i \in 1..Len(full.list) : sent[c][n] < full.list[i]
       /\ InHand => sent[c][n] < pusher.frame
  /\ \A c \in Conn : \A m, n \in 1..Len(sent[c]) : m < n => sent[c][m] < sent[c][n]
  /\ \A c, d \in Conn : c < d =>
       \A m \in 1..Len(sent[c]), n \in 1..Len(sent[d]) : sent[c][m] < sent[d][n]

\* The thread writes on the newest connection only, and what it has written of a
\* frame is the last of what is there.
Boundary(k) == Size(k) = 0 \/ Ends(At(k, Size(k)))

LastWritten(k) ==
  IF pusher.at = "write" /\ pusher.part > 1
    THEN Size(k) > 0 /\ At(k, Size(k)) = Piece(pusher.frame, pusher.part - 1)
    ELSE Boundary(k)

LinkInv ==
  /\ ph.iacp \in {NULL, WILD, ph.made}
  /\ pusher.at \in {"send", "connect"} => pusher.part = 1
  /\ pusher.at = "connect" => ph.iacp = NULL
  /\ pusher.at = "write" =>
       ph.iacp = ph.made /\ ph.made > 0 /\ pusher.part \in 1..Len(Parts(pusher.frame))
  /\ \A c \in Conn : c > ph.made =>
       conn[c].server = "none" /\ sent[c] = <<>> /\ got[c] = <<>>
  /\ proc = "live" => \A c \in Conn :
       c = ph.iacp /\ Serving(conn[c]) /\ ~conn[c].cut => LastWritten(conn[c])

HandleType ==
  [iacp : Int, block : BOOLEAN, at_retry : BOOLEAN, disabled : BOOLEAN, made : Nat,
   poisoned : BOOLEAN]

StreamTypes ==
  /\ ph \in HandleType
  /\ conn \in [Conn -> ConnType]
  /\ sent \in [Conn -> Seq(Nat)] /\ got \in [Conn -> Seq(Nat)]

PInv ==
  /\ StreamTypes /\ OrderInv /\ SentInv /\ LinkInv
  /\ \A c \in Conn : ConnInv(conn[c], got[c], sent[c])

-----------------------------------------------------------------------------
(* What the operations on a connection do to what is on it.                  *)

\* Connection l is k without its first e pieces.
Without(k, l, e) ==
  Size(l) = Size(k) - e /\ \A i \in 1..Size(l) : At(l, i) = At(k, i + e)

LEMMA PieceAt ==
  ASSUME NEW k \in ConnType
  PROVE  /\ Size(k) \in Nat /\ Len(k.in) \in Nat /\ Len(k.wire) \in Nat
         /\ \A i \in 1..Size(k) : At(k, i) \in PieceType
<1>1. k.in \in Seq(PieceType) /\ k.wire \in Seq(PieceType)  BY DEF ConnType
<1>2. Len(k.in) \in Nat /\ Len(k.wire) \in Nat  BY <1>1
<1>3. ASSUME NEW i \in 1..Size(k) PROVE At(k, i) \in PieceType
  <2>1. CASE i <= Len(k.in)
    <3>1. i \in 1..Len(k.in)  BY <2>1, <1>2, <1>3 DEF Size, ConnType
    <3> QED  BY <1>1, <2>1, <3>1 DEF At, Nth
  <2>2. CASE ~(i <= Len(k.in))
    <3>1. i - Len(k.in) \in 1..Len(k.wire)  BY <2>2, <1>2, <1>3 DEF Size, ConnType
    <3> QED  BY <1>1, <2>2, <3>1 DEF At, Nth
  <2> QED  BY <2>1, <2>2
<1> QED  BY <1>2, <1>3 DEF Size, ConnType

LEMMA PartsOf ==
  ASSUME NEW f \in Nat
  PROVE  /\ Len(Parts(f)) = IF f = NOP THEN 2 ELSE 3
         /\ Parts(f)[1] = "preamble"
         /\ f = NOP => Parts(f)[2] = "signature"
         /\ f /= NOP => Parts(f)[2] = "payload" /\ Parts(f)[3] = "signature"
         /\ \A n \in 1..Len(Parts(f)) : Piece(f, n) \in PieceType
BY DEF Parts, Piece, PieceType, NOP

\* A piece that is read stays where it is in the stream, in the sequences first
\* and then in the connection.
LEMMA TakeSeq ==
  ASSUME NEW S, NEW a \in Seq(S), NEW b \in Seq(S), b /= <<>>
  PROVE  LET c == Append(a, Head(b))
             d == Tail(b)
         IN  /\ c \in Seq(S) /\ d \in Seq(S) /\ c /= <<>>
             /\ Len(c) = Len(a) + 1 /\ Len(d) = Len(b) - 1 /\ Len(b) > 0
             /\ \A i \in 1..(Len(a) + Len(b)) : Nth(c, d, i) = Nth(a, b, i)
<1> DEFINE c == Append(a, Head(b))  d == Tail(b)
<1>1. /\ Len(a) \in Nat /\ Len(b) \in Nat /\ Len(b) > 0
      /\ d \in Seq(S) /\ Len(d) = Len(b) - 1
      /\ \A i \in 1..(Len(b) - 1) : d[i] = b[i + 1]
      /\ c \in Seq(S) /\ Len(c) = Len(a) + 1
      /\ \A i \in 1..Len(a) : c[i] = a[i]
      /\ c[Len(a) + 1] = b[1] /\ c /= <<>>
  OBVIOUS
<1> HIDE DEF c, d
<1>2. ASSUME NEW i \in 1..(Len(a) + Len(b)) PROVE Nth(c, d, i) = Nth(a, b, i)
  <2>1. CASE i <= Len(a) + 1
    <3>1. Nth(c, d, i) = c[i]  BY <2>1, <1>1 DEF Nth
    <3>2. CASE i <= Len(a)  BY <3>1, <3>2, <1>1 DEF Nth
    <3>3. CASE i = Len(a) + 1
      <4>1. i - Len(a) = 1  BY <3>3, <1>1
      <4>2. Nth(a, b, i) = b[1]  BY <3>3, <4>1, <1>1 DEF Nth
      <4> QED  BY <3>1, <3>3, <4>2, <1>1
    <3> QED  BY <2>1, <3>2, <3>3, <1>1
  <2>2. CASE i > Len(a) + 1
    <3>1. i - Len(c) \in 1..(Len(b) - 1) /\ i - Len(c) + 1 = i - Len(a)  BY <1>1, <2>2
    <3>2. d[i - Len(c)] = b[i - Len(a)]  BY <1>1, <3>1
    <3> QED  BY <2>2, <3>2, <1>1 DEF Nth
  <2> QED  BY <2>1, <2>2, <1>1
<1> QED  BY <1>1, <1>2 DEF c, d

LEMMA TakeKeeps ==
  ASSUME NEW k \in ConnType, k.wire /= <<>>
  PROVE  /\ Take(k) \in ConnType /\ Without(k, Take(k), 0)
         /\ Take(k).cut = k.cut /\ Take(k).server = k.server /\ Take(k).in /= <<>>
         /\ Len(Take(k).in) = Len(k.in) + 1 /\ Size(k) >= Len(k.in) + 1
<1> DEFINE a == k.in  b == k.wire  c == Append(a, Head(b))  d == Tail(b)
<1>1. a \in Seq(PieceType) /\ b \in Seq(PieceType) /\ b /= <<>>  BY DEF ConnType
<1> HIDE DEF a, b
<1>2. /\ c \in Seq(PieceType) /\ d \in Seq(PieceType) /\ c /= <<>>
      /\ Len(c) = Len(a) + 1 /\ Len(d) = Len(b) - 1 /\ Len(b) > 0
      /\ \A i \in 1..(Len(a) + Len(b)) : Nth(c, d, i) = Nth(a, b, i)
  BY <1>1, TakeSeq
<1>3. Len(a) \in Nat /\ Len(b) \in Nat  BY <1>1
<1> USE DEF a, b
<1> HIDE DEF c, d
<1>4. /\ Take(k).in = c /\ Take(k).wire = d /\ Take(k) \in ConnType
      /\ Take(k).cut = k.cut /\ Take(k).server = k.server
  BY <1>2 DEF Take, ConnType, c, d
<1>5. Size(Take(k)) = Len(c) + Len(d) /\ Size(k) = Len(a) + Len(b)  BY <1>4 DEF Size
<1>6. \A i \in 1..(Len(a) + Len(b)) : At(Take(k), i) = At(k, i)
  BY <1>2, <1>4 DEF At
<1> HIDE DEF a, b
<1>7. /\ Size(Take(k)) = Size(k) - 0 /\ Size(k) >= Len(a) + 1
      /\ \A i \in 1..Size(k) : At(Take(k), i) = At(k, i + 0)
  BY <1>2, <1>3, <1>5, <1>6
<1> QED  BY <1>2, <1>4, <1>5, <1>7, PieceAt DEF Without, a

\* A piece that is written is the last.
LEMMA AppendSeq ==
  ASSUME NEW S, NEW a \in Seq(S), NEW b \in Seq(S), NEW p \in S
  PROVE  LET d == Append(b, p)
         IN  /\ d \in Seq(S) /\ Len(d) = Len(b) + 1
             /\ \A i \in 1..(Len(a) + Len(b)) : Nth(a, d, i) = Nth(a, b, i)
             /\ Nth(a, d, Len(a) + Len(b) + 1) = p
<1> DEFINE d == Append(b, p)
<1>1. /\ Len(a) \in Nat /\ Len(b) \in Nat
      /\ d \in Seq(S) /\ Len(d) = Len(b) + 1
      /\ \A i \in 1..Len(b) : d[i] = b[i]
      /\ d[Len(b) + 1] = p
  OBVIOUS
<1> HIDE DEF d
<1>2. ASSUME NEW i \in 1..(Len(a) + Len(b)) PROVE Nth(a, d, i) = Nth(a, b, i)
  <2>1. CASE i <= Len(a)  BY <2>1 DEF Nth
  <2>2. CASE ~(i <= Len(a))
    <3>1. i - Len(a) \in 1..Len(b)  BY <1>1, <2>2
    <3> QED  BY <2>2, <3>1, <1>1 DEF Nth
  <2> QED  BY <2>1, <2>2
<1>3. Nth(a, d, Len(a) + Len(b) + 1) = p
  <2>1. Len(a) + Len(b) + 1 - Len(a) = Len(b) + 1 /\ ~(Len(a) + Len(b) + 1 <= Len(a))
    BY <1>1
  <2> QED  BY <2>1, <1>1 DEF Nth
<1> QED  BY <1>1, <1>2, <1>3 DEF d

LEMMA WriteAdds ==
  ASSUME NEW k \in ConnType, NEW p \in PieceType, ~Gone(k)
  PROVE  /\ Written(k, p) \in ConnType
         /\ Written(k, p).cut = k.cut /\ Written(k, p).server = k.server
         /\ Written(k, p).in = k.in
         /\ Size(Written(k, p)) = Size(k) + 1
         /\ At(Written(k, p), Size(k) + 1) = p
         /\ \A i \in 1..Size(k) : At(Written(k, p), i) = At(k, i)
<1> DEFINE a == k.in  b == k.wire  d == Append(b, p)
<1>1. a \in Seq(PieceType) /\ b \in Seq(PieceType)  BY DEF ConnType
<1> HIDE DEF a, b
<1>2. /\ d \in Seq(PieceType) /\ Len(d) = Len(b) + 1
      /\ \A i \in 1..(Len(a) + Len(b)) : Nth(a, d, i) = Nth(a, b, i)
      /\ Nth(a, d, Len(a) + Len(b) + 1) = p
  BY <1>1, AppendSeq
<1>3. Len(a) \in Nat /\ Len(b) \in Nat  BY <1>1
<1> USE DEF a, b
<1> HIDE DEF d
<1>4. /\ Written(k, p).in = a /\ Written(k, p).wire = d /\ Written(k, p) \in ConnType
      /\ Written(k, p).cut = k.cut /\ Written(k, p).server = k.server
  BY <1>2 DEF Written, ConnType, d
<1>5. Size(Written(k, p)) = Len(a) + Len(d) /\ Size(k) = Len(a) + Len(b)  BY <1>4 DEF Size
<1>6. /\ \A i \in 1..(Len(a) + Len(b)) : At(Written(k, p), i) = At(k, i)
      /\ At(Written(k, p), Len(a) + Len(b) + 1) = p
  BY <1>2, <1>4 DEF At
<1> HIDE DEF a, b
<1>7. Size(Written(k, p)) = Size(k) + 1  BY <1>2, <1>3, <1>5
<1> QED  BY <1>4, <1>5, <1>6, <1>7 DEF a

\* What the server has dealt with is gone, and the rest moves up.
LEMMA EmptiedShifts ==
  ASSUME NEW k \in ConnType, NEW l \in ConnType, l.in = <<>>, l.wire = k.wire
  PROVE  Without(k, l, Len(k.in))
<1>1. Len(k.in) \in Nat /\ Len(k.wire) \in Nat /\ Len(l.in) = 0
  BY DEF ConnType
<1>2. Size(l) = Len(k.wire) /\ Size(k) = Len(k.in) + Len(k.wire)  BY <1>1 DEF Size, ConnType
<1>3. ASSUME NEW i \in 1..Size(l) PROVE At(l, i) = At(k, i + Len(k.in))
  BY <1>1, <1>2 DEF At, Nth
<1> QED  BY <1>1, <1>2, <1>3 DEF Without

\* Of what is lost nothing is left behind what gets through.
LEMMA CutLeaves ==
  ASSUME NEW k \in ConnType, NEW n \in 0..Len(k.wire), NEW l \in ConnType,
         l.in = k.in, l.wire = SubSeq(k.wire, 1, n)
  PROVE  Size(l) <= Size(k) /\ \A i \in 1..Size(l) : At(l, i) = At(k, i)
<1>1. k.wire \in Seq(PieceType) /\ Len(k.in) \in Nat /\ Len(k.wire) \in Nat
  BY DEF ConnType
<1>2. Len(l.wire) = n /\ \A i \in 1..n : l.wire[i] = k.wire[i]  BY <1>1
<1>3. Size(l) = Len(k.in) + n /\ Size(k) = Len(k.in) + Len(k.wire)  BY <1>1, <1>2 DEF Size, ConnType
<1>4. ASSUME NEW i \in 1..Size(l) PROVE At(l, i) = At(k, i)
  <2>1. CASE i <= Len(k.in)  BY <2>1 DEF At, Nth
  <2>2. CASE i > Len(k.in)
    <3>1. i - Len(k.in) \in 1..n  BY <2>2, <1>1, <1>3, <1>4
    <3> QED  BY <2>2, <3>1, <1>1, <1>2 DEF At, Nth
  <2> QED  BY <2>1, <2>2, <1>1
<1> QED  BY <1>1, <1>3, <1>4

-----------------------------------------------------------------------------
(* What that means for the frames and packets on it.                         *)

\* The same pieces, read or not.
LEMMA SameStream ==
  ASSUME NEW k \in ConnType, NEW l \in ConnType, Without(k, l, 0), l.cut = k.cut,
         NEW g, NEW s
  PROVE  /\ Framed(k) => Framed(l)
         /\ Flow(k, g, s) => Flow(l, g, s)
         /\ LastWritten(k) => LastWritten(l)
<1>1. Size(k) \in Nat /\ Size(l) = Size(k) /\ \A i \in 1..Size(k) : At(l, i) = At(k, i)
  BY PieceAt DEF Without
<1> DEFINE N == Size(k)
<1>2. ASSUME Framed(k) PROVE Framed(l)
  <2>1. N > 0 => 1 \in 1..N  BY <1>1
  <2>2. \A i \in 1..(N - 1) : i \in 1..N /\ i + 1 \in 1..N  BY <1>1
  <2> QED  BY <1>1, <1>2, <2>1, <2>2 DEF Framed
<1>3. ASSUME Flow(k, g, s) PROVE Flow(l, g, s)
  <2>1. \A p : Newer(k, g, p) => Newer(l, g, p)  BY <1>1 DEF Newer
  <2> QED  BY <1>1, <1>3, <2>1 DEF Flow
<1>4. ASSUME LastWritten(k) PROVE LastWritten(l)
  <2>1. N > 0 => N \in 1..N  BY <1>1
  <2>2. N = 0 \/ N > 0  BY <1>1
  <2>3. At(l, Size(l)) = At(k, Size(k)) \/ (Size(k) = 0 /\ Size(l) = 0)  BY <1>1, <2>1, <2>2
  <2>4. Size(l) > 0 <=> Size(k) > 0  BY <1>1
  <2>5. Size(k) = 0 => ~(Size(k) > 0)  OBVIOUS
  <2> QED  BY <1>1, <1>4, <2>3, <2>4, <2>5, Zenon DEF LastWritten, Boundary
<1> QED  BY <1>2, <1>3, <1>4

\* Pieces that follow each other from a preamble on, no more than its frame has,
\* are how that frame begins.
LEMMA FrameSeq ==
  ASSUME NEW a \in Seq(PieceType), NEW f, f = a[1].frame,
         Len(a) >= 1, Len(a) <= Len(Parts(f)), a[1].part = "preamble",
         \A i \in 1..(Len(a) - 1) : Follows(a[i], a[i + 1])
  PROVE  f \in Nat /\ \A i \in 1..Len(a) : a[i] = Piece(f, i)
<1>1. Len(a) \in Nat /\ \A i \in 1..Len(a) : a[i] \in PieceType  OBVIOUS
<1>2. a[1] \in PieceType  BY <1>1
<1>3. f \in Nat  BY <1>2 DEF PieceType
<1>4. a[1] = Piece(f, 1)  BY <1>2, <1>3, PartsOf DEF Piece, PieceType
<1> DEFINE N == Len(Parts(f))
<1>5. N = (IF f = NOP THEN 2 ELSE 3) /\ Len(a) <= N  BY <1>3, PartsOf
<1> HIDE DEF N
<1>6. ASSUME Len(a) >= 2 PROVE a[2] = Piece(f, 2)
  <2>1. Follows(a[1], a[2]) /\ a[2] \in PieceType  BY <1>1, <1>6
  <2>2. a[2].frame = f /\ a[2].part = IF f = NOP THEN "signature" ELSE "payload"
    BY <2>1 DEF Follows, Ends, Carries
  <2> QED  BY <2>1, <2>2, <1>3, PartsOf DEF Piece, PieceType
<1>7. ASSUME Len(a) >= 3 PROVE a[3] = Piece(f, 3)
  <2>1. Follows(a[2], a[3]) /\ a[3] \in PieceType  BY <1>1, <1>7
  <2>2. f /= NOP  BY <1>1, <1>5, <1>7, SMT
  <2>3. a[2] = Piece(f, 2)  BY <1>1, <1>6, <1>7
  <2>4. a[2].frame = f /\ a[2].part = "payload"  BY <1>3, <2>2, <2>3, PartsOf DEF Piece
  <2>5. a[3].frame = f /\ a[3].part = "signature"  BY <2>1, <2>4 DEF Follows, Ends
  <2> QED  BY <2>1, <2>2, <2>5, <1>3, PartsOf DEF Piece, PieceType
<1>8. Len(a) <= 3  BY <1>5
<1>9. \A i \in 1..Len(a) : i = 1 \/ (i = 2 /\ Len(a) >= 2) \/ (i = 3 /\ Len(a) >= 3)
  BY <1>1, <1>8
<1> QED  BY <1>3, <1>4, <1>6, <1>7, <1>9

\* What the server has read of a frame is how that frame begins.
LEMMA FirstFrame ==
  ASSUME NEW k \in ConnType, Framed(k), k.in /= <<>>,
         Len(k.in) <= Len(Parts(k.in[1].frame))
  PROVE  /\ k.in[1].frame \in Nat
         /\ \A i \in 1..Len(k.in) : At(k, i) = Piece(k.in[1].frame, i) /\ k.in[i] = At(k, i)
<1> DEFINE a == k.in
<1>1. a \in Seq(PieceType) /\ a /= <<>> /\ Len(a) <= Len(Parts(a[1].frame))
  BY DEF ConnType
<1>2. Size(k) \in Nat /\ Len(a) \in Nat /\ Size(k) >= Len(a)
  BY PieceAt DEF Size, ConnType
<1>3. \A i : At(k, i) = Nth(a, k.wire, i)  BY DEF At
<1> HIDE DEF a
<1>4. Len(a) >= 1 /\ \A i \in 1..Len(a) : i <= Len(a)  BY <1>1
<1>5. \A i \in 1..Len(a) : At(k, i) = a[i]  BY <1>3, <1>4, Zenon DEF Nth
<1>6. At(k, 1) = a[1] /\ \A i \in 1..(Len(a) - 1) : At(k, i) = a[i] /\ At(k, i + 1) = a[i + 1]
  BY <1>2, <1>4, <1>5
<1>7. Size(k) > 0 /\ \A i \in 1..(Len(a) - 1) : i \in 1..(Size(k) - 1)  BY <1>2, <1>4
<1>8. /\ a[1].part = "preamble"
      /\ \A i \in 1..(Len(a) - 1) : Follows(a[i], a[i + 1])
  BY <1>6, <1>7, Zenon DEF Framed
<1>9. a[1].frame \in Nat /\ \A i \in 1..Len(a) : a[i] = Piece(a[1].frame, i)
  BY <1>1, <1>4, <1>8, FrameSeq
<1> QED  BY <1>5, <1>9, Zenon DEF a

\* A frame that is dealt with is followed by whole frames.
LEMMA FramedRest ==
  ASSUME NEW k \in ConnType, NEW l \in ConnType, NEW e \in 1..Size(k), Without(k, l, e),
         Framed(k), Ends(At(k, e))
  PROVE  Framed(l)
<1>1. Size(k) \in Nat /\ Size(l) \in Nat  BY PieceAt
<1>2. Size(l) = Size(k) - e /\ \A i \in 1..Size(l) : At(l, i) = At(k, i + e)
  BY DEF Without
<1>3. ASSUME Size(l) > 0 PROVE At(l, 1).part = "preamble"
  <2>1. e \in 1..(Size(k) - 1) /\ 1 \in 1..Size(l) /\ 1 + e = e + 1  BY <1>1, <1>2, <1>3
  <2>2. Follows(At(k, e), At(k, e + 1))  BY <2>1 DEF Framed
  <2>3. At(l, 1) = At(k, e + 1)  BY <1>2, <2>1
  <2> QED  BY <2>2, <2>3 DEF Follows
<1>4. ASSUME NEW i \in 1..(Size(l) - 1) PROVE Follows(At(l, i), At(l, i + 1))
  <2>1. i \in 1..Size(l) /\ i + 1 \in 1..Size(l) /\ i + e \in 1..(Size(k) - 1)
        /\ i + 1 + e = i + e + 1
    BY <1>1, <1>2
  <2>2. Follows(At(k, i + e), At(k, i + e + 1))  BY <2>1 DEF Framed
  <2>3. At(l, i) = At(k, i + e) /\ At(l, i + 1) = At(k, i + e + 1)  BY <1>2, <2>1
  <2> QED  BY <2>2, <2>3
<1> QED  BY <1>3, <1>4 DEF Framed

\* A heartbeat is read and answered by nothing.
LEMMA BeatFlow ==
  ASSUME NEW k \in ConnType, NEW l \in ConnType, NEW e \in 1..Size(k), Without(k, l, e),
         l.cut = k.cut, NEW g \in Seq(Nat), NEW s \in Seq(Nat), Flow(k, g, s),
         \A i \in 1..e : At(k, i).frame = NOP, \A n \in 1..Len(s) : s[n] /= NOP
  PROVE  Flow(l, g, s)
<1>1. Size(k) \in Nat /\ Size(l) \in Nat  BY PieceAt
<1>2. Size(l) = Size(k) - e /\ \A i \in 1..Size(l) : At(l, i) = At(k, i + e)
  BY DEF Without
<1>3. \A i \in 1..Size(l) : i + e \in 1..Size(k)  BY <1>1, <1>2
<1>4. \A i \in 1..Size(k) : i \in 1..e \/ (i - e \in 1..Size(l) /\ (i - e) + e = i)
  BY <1>1, <1>2
<1>5. \A i, j \in 1..Size(l) : i < j => i + e < j + e  BY <1>1
<1>6. \A i, j \in 1..Size(l) :
        i < j /\ Ends(At(l, i)) /\ Carries(At(l, j)) => At(l, i).frame < At(l, j).frame
  BY <1>2, <1>3, <1>5 DEF Flow
<1>7. \A i \in 1..Size(l) : Carries(At(l, i)) => \A m \in 1..Len(g) : g[m] < At(l, i).frame
  BY <1>2, <1>3 DEF Flow
<1>8. \A i \in 1..Size(l) :
        Ends(At(l, i)) /\ Carries(At(l, i)) => \E n \in 1..Len(s) : s[n] = At(l, i).frame
  BY <1>2, <1>3 DEF Flow
<1>9. ASSUME NEW n \in 1..Len(s)
      PROVE  \/ \E m \in 1..Len(g) : g[m] = s[n]
             \/ \E i \in 1..Size(l) : Ends(At(l, i)) /\ At(l, i).frame = s[n]
             \/ l.cut /\ Newer(l, g, s[n])
  <2>1. CASE \E m \in 1..Len(g) : g[m] = s[n]  BY <2>1
  <2>2. CASE \E i \in 1..Size(k) : Ends(At(k, i)) /\ At(k, i).frame = s[n]
    <3>1. PICK i \in 1..Size(k) : Ends(At(k, i)) /\ At(k, i).frame = s[n]  BY <2>2
    <3>2. i - e \in 1..Size(l) /\ (i - e) + e = i  BY <1>4, <3>1
    <3>3. At(l, i - e) = At(k, i)  BY <1>2, <3>2
    <3> QED  BY <3>1, <3>2, <3>3
  <2>3. CASE k.cut /\ Newer(k, g, s[n])
    <3>1. Newer(l, g, s[n])  BY <2>3, <1>2, <1>3 DEF Newer
    <3> QED  BY <2>3, <3>1
  <2> QED  BY <2>1, <2>2, <2>3 DEF Flow
<1> QED  BY <1>6, <1>7, <1>8, <1>9 DEF Flow

Increasing(s) == \A m, n \in 1..Len(s) : m < n => s[m] < s[n]

\* The packet that is stored is the one that was sent next.
LEMMA StoredIsNext ==
  ASSUME NEW k \in ConnType, NEW e \in 1..Size(k), Ends(At(k, e)), Carries(At(k, e)),
         \A i \in 1..(e - 1) : ~Ends(At(k, i)),
         NEW g \in Seq(Nat), NEW s \in Seq(Nat), Flow(k, g, s), Begins(g, s), Increasing(s),
         \A n \in 1..Len(s) : s[n] /= NOP
  PROVE  Begins(Append(g, At(k, e).frame), s)
<1> DEFINE f == At(k, e).frame  h == Append(g, f)
<1>1. Size(k) \in Nat /\ f \in Nat  BY PieceAt DEF PieceType
<1>2. Len(g) \in Nat /\ Len(s) \in Nat /\ \A n \in 1..Len(s) : s[n] \in Nat  OBVIOUS
<1>3. PICK j \in 1..Len(s) : s[j] = f  BY DEF Flow
<1>4. j > Len(g)
  <2> SUFFICES ASSUME j <= Len(g) PROVE FALSE  BY <1>2
  <2>1. j \in 1..Len(g)  BY <1>2
  <2>2. g[j] = f /\ g[j] < f  BY <1>3, <2>1 DEF Begins, Flow
  <2> QED  BY <1>1, <2>2
<1>5. j = Len(g) + 1
  <2> SUFFICES ASSUME j > Len(g) + 1 PROVE FALSE  BY SMTT(20), <1>2, <1>4
  <2> DEFINE n == Len(g) + 1
  <2>1. n \in 1..Len(s) /\ n < j /\ \A m \in 1..Len(g) : m \in 1..Len(s) /\ m < n
    BY <1>2, <1>4 DEF Begins
  <2> HIDE DEF n
  <2>2. s[n] < f /\ s[n] \in Nat  BY <1>2, <1>3, <2>1 DEF Increasing
  <2>3. ~ \E m \in 1..Len(g) : g[m] = s[n]
    <3> SUFFICES ASSUME NEW m \in 1..Len(g), g[m] = s[n] PROVE FALSE  OBVIOUS
    <3>1. s[m] = s[n] /\ s[m] < s[n]  BY <2>1 DEF Begins, Increasing
    <3> QED  BY <2>2, <3>1
  <2>4. ~ \E i \in 1..Size(k) : Ends(At(k, i)) /\ At(k, i).frame = s[n]
    <3> SUFFICES ASSUME NEW i \in 1..Size(k), Ends(At(k, i)), At(k, i).frame = s[n]
                 PROVE  FALSE
      OBVIOUS
    <3>1. CASE i < e
      <4>1. i \in 1..(e - 1)  BY <1>1, <3>1
      <4> QED  BY <4>1
    <3>2. CASE i = e  BY <1>1, <2>2, <3>2
    <3>3. CASE i > e
      <4>1. CASE Carries(At(k, i))
        <5>1. f < s[n]  BY <3>3, <4>1 DEF Flow
        <5> QED  BY SMTT(20), <1>1, <2>2, <5>1
      <4>2. CASE ~Carries(At(k, i))
        <5>1. s[n] = NOP  BY <4>2 DEF Carries
        <5> QED  BY <2>1, <5>1
      <4> QED  BY <4>1, <4>2
    <3> QED  BY <1>1, <3>1, <3>2, <3>3
  <2>5. ~ Newer(k, g, s[n])  BY <1>1, <2>2 DEF Newer
  <2> QED  BY <2>1, <2>3, <2>4, <2>5 DEF Flow
<1>6. /\ Len(h) = Len(g) + 1 /\ h[Len(g) + 1] = f
      /\ \A m \in 1..Len(g) : h[m] = g[m]
  BY <1>1
<1> HIDE DEF h, f
<1>7. Len(h) <= Len(s)  BY <1>2, <1>3, <1>5, <1>6
<1>8. ASSUME NEW m \in 1..Len(h) PROVE h[m] = s[m]
  <2>1. m = Len(g) + 1 \/ m \in 1..Len(g)  BY <1>2, <1>6
  <2> QED  BY <2>1, <1>3, <1>5, <1>6 DEF Begins
<1> QED  BY <1>7, <1>8 DEF Begins, h, f

\* What is left when a packet is stored.
LEMMA StoreFlow ==
  ASSUME NEW k \in ConnType, NEW l \in ConnType, NEW e \in 1..Size(k), Without(k, l, e),
         l.cut = k.cut, Ends(At(k, e)), Carries(At(k, e)),
         \A i \in 1..(e - 1) : ~Ends(At(k, i)),
         NEW g \in Seq(Nat), NEW s \in Seq(Nat), Flow(k, g, s)
  PROVE  Flow(l, Append(g, At(k, e).frame), s)
<1> DEFINE f == At(k, e).frame  h == Append(g, f)
<1>1. Size(k) \in Nat /\ Size(l) \in Nat /\ f \in Nat  BY PieceAt DEF PieceType
<1>2. Size(l) = Size(k) - e /\ \A i \in 1..Size(l) : At(l, i) = At(k, i + e)
  BY DEF Without
<1>3. \A i \in 1..Size(l) : i + e \in 1..Size(k) /\ e < i + e  BY <1>1, <1>2
<1>4. \A i \in 1..Size(k) :
        i \in 1..(e - 1) \/ i = e \/ (i - e \in 1..Size(l) /\ (i - e) + e = i)
  BY <1>1, <1>2
<1>5. /\ Len(h) = Len(g) + 1 /\ Len(g) \in Nat /\ h[Len(g) + 1] = f
      /\ \A m \in 1..Len(g) : h[m] = g[m]
  BY <1>1
<1>6. /\ Len(g) + 1 \in 1..Len(h)
      /\ \A m \in 1..Len(h) : m \in 1..Len(g) \/ m = Len(g) + 1
      /\ \A m \in 1..Len(g) : m \in 1..Len(h)
  BY <1>5
<1> HIDE DEF h, f
<1>7. \A i, j \in 1..Size(l) :
        i < j /\ Ends(At(l, i)) /\ Carries(At(l, j)) => At(l, i).frame < At(l, j).frame
  <2>1. \A i, j \in 1..Size(l) : i < j => i + e < j + e  BY <1>1
  <2> QED  BY <1>2, <1>3, <2>1 DEF Flow
<1>8. ASSUME NEW i \in 1..Size(l), Carries(At(l, i)), NEW m \in 1..Len(h)
      PROVE  h[m] < At(l, i).frame
  <2>1. At(l, i) = At(k, i + e) /\ i + e \in 1..Size(k) /\ e < i + e  BY <1>2, <1>3
  <2>2. CASE m \in 1..Len(g)  BY <2>1, <2>2, <1>5, <1>8 DEF Flow
  <2>3. CASE m = Len(g) + 1
    <3>1. f < At(k, i + e).frame  BY <2>1, <1>8 DEF Flow, f
    <3> QED  BY <3>1, <2>1, <2>3, <1>5
  <2> QED  BY <2>2, <2>3, <1>6
<1>9. \A i \in 1..Size(l) :
        Ends(At(l, i)) /\ Carries(At(l, i)) => \E n \in 1..Len(s) : s[n] = At(l, i).frame
  BY <1>2, <1>3 DEF Flow
<1>10. ASSUME NEW n \in 1..Len(s)
       PROVE  \/ \E m \in 1..Len(h) : h[m] = s[n]
              \/ \E i \in 1..Size(l) : Ends(At(l, i)) /\ At(l, i).frame = s[n]
              \/ l.cut /\ Newer(l, h, s[n])
  <2>1. CASE \E m \in 1..Len(g) : g[m] = s[n]  BY <2>1, <1>5, <1>6
  <2>2. CASE \E i \in 1..Size(k) : Ends(At(k, i)) /\ At(k, i).frame = s[n]
    <3>1. PICK i \in 1..Size(k) : Ends(At(k, i)) /\ At(k, i).frame = s[n]  BY <2>2
    <3>2. CASE i = e  BY <3>1, <3>2, <1>5, <1>6 DEF f
    <3>3. CASE i - e \in 1..Size(l) /\ (i - e) + e = i
      <4>1. At(l, i - e) = At(k, i)  BY <1>2, <3>3
      <4> QED  BY <3>1, <3>3, <4>1
    <3> QED  BY <3>1, <3>2, <3>3, <1>4
  <2>3. CASE k.cut /\ Newer(k, g, s[n])
    <3>1. f < s[n]  BY <2>3 DEF Newer, f
    <3>2. \A m \in 1..Len(h) : h[m] < s[n]  BY <2>3, <3>1, <1>5, <1>6 DEF Newer
    <3>3. \A i \in 1..Size(l) : Ends(At(l, i)) => At(l, i).frame < s[n]
      BY <2>3, <1>2, <1>3 DEF Newer
    <3> QED  BY <2>3, <3>2, <3>3 DEF Newer
  <2> QED  BY <2>1, <2>2, <2>3 DEF Flow
<1> QED  BY <1>7, <1>8, <1>9, <1>10 DEF Flow, h, f

\* A connection that is cut, with what had got through on it.
LEMMA CutFlow ==
  ASSUME NEW k \in ConnType, NEW l \in ConnType, l.cut,
         Size(l) <= Size(k), \A i \in 1..Size(l) : At(l, i) = At(k, i),
         NEW g \in Seq(Nat), NEW s \in Seq(Nat), \A n \in 1..Len(s) : s[n] /= NOP
  PROVE  /\ Framed(k) => Framed(l)
         /\ Flow(k, g, s) => Flow(l, g, s)
<1>1. Size(k) \in Nat /\ Size(l) \in Nat  BY PieceAt
<1>2. \A i \in 1..Size(l) : i \in 1..Size(k)  BY <1>1
<1>3. ASSUME Framed(k) PROVE Framed(l)
  <2>1. Size(l) > 0 => Size(k) > 0 /\ 1 \in 1..Size(l)  BY <1>1
  <2>2. \A i \in 1..(Size(l) - 1) :
          i \in 1..(Size(k) - 1) /\ i \in 1..Size(l) /\ i + 1 \in 1..Size(l)
    BY <1>1
  <2> QED  BY <1>3, <2>1, <2>2 DEF Framed
<1>4. ASSUME Flow(k, g, s) PROVE Flow(l, g, s)
  <2>1. ASSUME NEW n \in 1..Len(s)
        PROVE  \/ \E m \in 1..Len(g) : g[m] = s[n]
               \/ \E i \in 1..Size(l) : Ends(At(l, i)) /\ At(l, i).frame = s[n]
               \/ l.cut /\ Newer(l, g, s[n])
    <3>1. CASE \E m \in 1..Len(g) : g[m] = s[n]  BY <3>1
    <3>2. CASE \E i \in 1..Size(k) : Ends(At(k, i)) /\ At(k, i).frame = s[n]
      <4>1. PICK i \in 1..Size(k) : Ends(At(k, i)) /\ At(k, i).frame = s[n]  BY <3>2
      <4>2. Carries(At(k, i))  BY <4>1 DEF Carries
      <4>3. CASE i \in 1..Size(l)  BY <4>1, <4>3
      <4>4. CASE i \notin 1..Size(l)
        <5>1. \A j \in 1..Size(l) : j < i  BY <1>1, <4>4
        <5>2. \A j \in 1..Size(l) : Ends(At(l, j)) => At(l, j).frame < s[n]
          BY <1>2, <1>4, <4>1, <4>2, <5>1 DEF Flow
        <5>3. \A m \in 1..Len(g) : g[m] < s[n]  BY <1>4, <4>1, <4>2 DEF Flow
        <5> QED  BY <5>2, <5>3 DEF Newer
      <4> QED  BY <4>3, <4>4
    <3>3. CASE k.cut /\ Newer(k, g, s[n])
      <4>1. Newer(l, g, s[n])  BY <3>3, <1>2 DEF Newer
      <4> QED  BY <4>1
    <3> QED  BY <3>1, <3>2, <3>3, <1>4 DEF Flow
  <2>2. \A i, j \in 1..Size(l) :
          i < j /\ Ends(At(l, i)) /\ Carries(At(l, j)) => At(l, i).frame < At(l, j).frame
    BY <1>2, <1>4 DEF Flow
  <2>3. /\ \A i \in 1..Size(l) : Carries(At(l, i)) => \A m \in 1..Len(g) : g[m] < At(l, i).frame
        /\ \A i \in 1..Size(l) :
             Ends(At(l, i)) /\ Carries(At(l, i)) => \E n \in 1..Len(s) : s[n] = At(l, i).frame
    BY <1>2, <1>4 DEF Flow
  <2> QED  BY <2>1, <2>2, <2>3 DEF Flow
<1> QED  BY <1>3, <1>4

\* What has been sent when piece p is written, if it was s before.
SentWith(p, s) == IF Ends(p) /\ Carries(p) THEN Append(s, p.frame) ELSE s

LEMMA SentGrows ==
  ASSUME NEW p \in PieceType, NEW s \in Seq(Nat), NEW g \in Seq(Nat)
  PROVE  /\ SentWith(p, s) \in Seq(Nat)
         /\ \A n \in 1..Len(s) : n \in 1..Len(SentWith(p, s)) /\ SentWith(p, s)[n] = s[n]
         /\ \A n \in 1..Len(SentWith(p, s)) :
              \/ n \in 1..Len(s)
              \/ Ends(p) /\ Carries(p) /\ n = Len(s) + 1 /\ SentWith(p, s)[n] = p.frame
         /\ Ends(p) /\ Carries(p) =>
              /\ Len(s) + 1 \in 1..Len(SentWith(p, s))
              /\ SentWith(p, s)[Len(s) + 1] = p.frame
         /\ Begins(g, s) => Begins(g, SentWith(p, s))
<1> DEFINE t == SentWith(p, s)
<1>1. p.frame \in Nat  BY DEF PieceType
<1>2. Len(s) \in Nat /\ Len(g) \in Nat  OBVIOUS
<1>3. CASE ~(Ends(p) /\ Carries(p))
  <2>1. t = s  BY <1>3 DEF SentWith
  <2> QED  BY <1>3, <2>1
<1>4. CASE Ends(p) /\ Carries(p)
  <2>1. t = Append(s, p.frame)  BY <1>4 DEF SentWith
  <2>2. /\ t \in Seq(Nat) /\ Len(t) = Len(s) + 1 /\ t[Len(s) + 1] = p.frame
        /\ \A n \in 1..Len(s) : t[n] = s[n]
    BY <1>1, <2>1
  <2> HIDE DEF t
  <2>3. \A n \in 1..Len(t) : n \in 1..Len(s) \/ n = Len(s) + 1  BY <1>2, <2>2
  <2>4. Len(s) + 1 \in 1..Len(t) /\ \A n \in 1..Len(s) : n \in 1..Len(t)  BY <1>2, <2>2
  <2>5. Begins(g, s) => Begins(g, t)
    <3> SUFFICES ASSUME Begins(g, s) PROVE Begins(g, t)  OBVIOUS
    <3>1. Len(g) <= Len(t)  BY <1>2, <2>2 DEF Begins
    <3>2. \A m \in 1..Len(g) : m \in 1..Len(s)  BY <1>2 DEF Begins
    <3> QED  BY <2>2, <3>1, <3>2 DEF Begins
  <2> QED  BY <1>4, <2>2, <2>3, <2>4, <2>5 DEF t
<1> QED  BY <1>3, <1>4

\* A piece is written to a connection that gets it through.
LEMMA WriteFlow ==
  ASSUME NEW k \in ConnType, NEW p \in PieceType, ~Gone(k),
         NEW g \in Seq(Nat), NEW s \in Seq(Nat), Flow(k, g, s), Begins(g, s),
         Carries(p) => \A n \in 1..Len(s) : s[n] < p.frame
  PROVE  Flow(Written(k, p), g, SentWith(p, s))
<1> DEFINE l == Written(k, p)  t == SentWith(p, s)  N == Size(k)
<1>1. N \in Nat /\ ~k.cut /\ p.frame \in Nat /\ Len(g) \in Nat /\ Len(s) \in Nat
  BY PieceAt DEF Gone, PieceType
<1>2. Size(l) = N + 1 /\ At(l, N + 1) = p /\ \A i \in 1..N : At(l, i) = At(k, i)
  BY WriteAdds
<1>3. /\ \A n \in 1..Len(s) : n \in 1..Len(t) /\ t[n] = s[n]
      /\ \A n \in 1..Len(t) :
           n \in 1..Len(s) \/ (Ends(p) /\ Carries(p) /\ n = Len(s) + 1 /\ t[n] = p.frame)
      /\ Ends(p) /\ Carries(p) => Len(s) + 1 \in 1..Len(t) /\ t[Len(s) + 1] = p.frame
  BY SentGrows
<1> HIDE DEF l, t, N
<1>4. \A i \in 1..(N + 1) : i = N + 1 \/ i \in 1..N  BY <1>1
<1>5. N + 1 \in 1..(N + 1) /\ \A i \in 1..N : i \in 1..(N + 1)  BY <1>1
<1>6. ASSUME NEW i \in 1..Size(l), NEW j \in 1..Size(l), i < j, Ends(At(l, i)), Carries(At(l, j))
      PROVE  At(l, i).frame < At(l, j).frame
  <2>1. i \in 1..N  BY <1>1, <1>2, <1>6
  <2>2. CASE j \in 1..N
    <3>1. At(l, i) = At(k, i) /\ At(l, j) = At(k, j)  BY <1>2, <2>1, <2>2
    <3> QED  BY <1>6, <2>1, <2>2, <3>1 DEF Flow, N
  <2>3. CASE j = N + 1
    <3>1. At(l, i) = At(k, i) /\ At(l, j) = p  BY <1>2, <2>1, <2>3
    <3>2. CASE Carries(At(k, i))
      <4>1. PICK n \in 1..Len(s) : s[n] = At(k, i).frame
        BY <1>6, <2>1, <3>1, <3>2 DEF Flow, N
      <4> QED  BY <1>6, <3>1, <4>1
    <3>3. CASE ~Carries(At(k, i))
      <4>1. At(k, i).frame = 0 /\ p.frame /= 0  BY <1>6, <3>1, <3>3 DEF Carries, NOP
      <4> QED  BY <1>1, <3>1, <4>1
    <3> QED  BY <3>2, <3>3
  <2> QED  BY <1>2, <1>4, <2>2, <2>3
<1>7. ASSUME NEW i \in 1..Size(l), Carries(At(l, i)), NEW m \in 1..Len(g)
      PROVE  g[m] < At(l, i).frame
  <2>1. CASE i \in 1..N
    <3>1. At(l, i) = At(k, i)  BY <1>2, <2>1
    <3> QED  BY <1>7, <2>1, <3>1 DEF Flow, N
  <2>2. CASE i = N + 1
    <3>1. At(l, i) = p  BY <1>2, <2>2
    <3>2. m \in 1..Len(s) /\ g[m] = s[m]  BY <1>1 DEF Begins
    <3> QED  BY <1>7, <3>1, <3>2
  <2> QED  BY <1>2, <1>4, <2>1, <2>2
<1>8. ASSUME NEW i \in 1..Size(l), Ends(At(l, i)), Carries(At(l, i))
      PROVE  \E n \in 1..Len(t) : t[n] = At(l, i).frame
  <2>1. CASE i \in 1..N
    <3>1. At(l, i) = At(k, i)  BY <1>2, <2>1
    <3>2. PICK n \in 1..Len(s) : s[n] = At(k, i).frame  BY <1>8, <2>1, <3>1 DEF Flow, N
    <3> QED  BY <1>3, <3>1, <3>2
  <2>2. CASE i = N + 1
    <3>1. At(l, i) = p  BY <1>2, <2>2
    <3> QED  BY <1>3, <1>8, <3>1
  <2> QED  BY <1>2, <1>4, <2>1, <2>2
<1>9. ASSUME NEW n \in 1..Len(t)
      PROVE  \/ \E m \in 1..Len(g) : g[m] = t[n]
             \/ \E i \in 1..Size(l) : Ends(At(l, i)) /\ At(l, i).frame = t[n]
  <2>1. CASE n \in 1..Len(s)
    <3>1. t[n] = s[n]  BY <1>3, <2>1
    <3>2. CASE \E m \in 1..Len(g) : g[m] = s[n]  BY <3>1, <3>2
    <3>3. CASE \E i \in 1..N : Ends(At(k, i)) /\ At(k, i).frame = s[n]
      <4>1. PICK i \in 1..N : Ends(At(k, i)) /\ At(k, i).frame = s[n]  BY <3>3
      <4>2. i \in 1..Size(l) /\ At(l, i) = At(k, i)  BY <1>2, <1>5
      <4> QED  BY <3>1, <4>1, <4>2
    <3> QED  BY <2>1, <3>2, <3>3, <1>1 DEF Flow, N
  <2>2. CASE Ends(p) /\ t[n] = p.frame
    <3>1. N + 1 \in 1..Size(l) /\ At(l, N + 1) = p  BY <1>2, <1>5
    <3> QED  BY <2>2, <3>1
  <2> QED  BY <1>3, <2>1, <2>2
<1>10. Flow(l, g, t)  BY <1>6, <1>7, <1>8, <1>9 DEF Flow
<1> QED  BY <1>10 DEF l, t

\* A piece is written to a connection that does not get it through.
LEMMA LostFlow ==
  ASSUME NEW k \in ConnType, NEW p \in PieceType, k.cut,
         NEW g \in Seq(Nat), NEW s \in Seq(Nat), Flow(k, g, s), Begins(g, s),
         Carries(p) => \A n \in 1..Len(s) : s[n] < p.frame
  PROVE  Flow(k, g, SentWith(p, s))
<1> DEFINE t == SentWith(p, s)
<1>1. p.frame \in Nat /\ Len(g) \in Nat /\ Len(s) \in Nat  BY DEF PieceType
<1>2. /\ \A n \in 1..Len(s) : n \in 1..Len(t) /\ t[n] = s[n]
      /\ \A n \in 1..Len(t) :
           n \in 1..Len(s) \/ (Ends(p) /\ Carries(p) /\ n = Len(s) + 1 /\ t[n] = p.frame)
  BY SentGrows
<1> HIDE DEF t
<1>3. \A i \in 1..Size(k) :
        Ends(At(k, i)) /\ Carries(At(k, i)) => \E n \in 1..Len(t) : t[n] = At(k, i).frame
  BY <1>2 DEF Flow
<1>4. ASSUME Ends(p), Carries(p) PROVE Newer(k, g, p.frame)
  <2>1. \A m \in 1..Len(g) : m \in 1..Len(s) /\ g[m] = s[m]  BY <1>1 DEF Begins
  <2>2. \A m \in 1..Len(g) : g[m] < p.frame  BY <2>1, <1>4
  <2>3. ASSUME NEW i \in 1..Size(k), Ends(At(k, i)) PROVE At(k, i).frame < p.frame
    <3>1. CASE Carries(At(k, i))
      <4>1. PICK n \in 1..Len(s) : s[n] = At(k, i).frame  BY <2>3, <3>1 DEF Flow
      <4> QED  BY <1>4, <4>1
    <3>2. CASE ~Carries(At(k, i))
      <4>1. At(k, i).frame = 0 /\ p.frame /= 0  BY <1>4, <3>2 DEF Carries, NOP
      <4> QED  BY <1>1, <4>1
    <3> QED  BY <3>1, <3>2
  <2> QED  BY <2>2, <2>3 DEF Newer
<1>5. ASSUME NEW n \in 1..Len(t)
      PROVE  \/ \E m \in 1..Len(g) : g[m] = t[n]
             \/ \E i \in 1..Size(k) : Ends(At(k, i)) /\ At(k, i).frame = t[n]
             \/ k.cut /\ Newer(k, g, t[n])
  <2>1. CASE n \in 1..Len(s)
    <3>1. t[n] = s[n]  BY <1>2, <2>1
    <3> QED  BY <2>1, <3>1 DEF Flow
  <2>2. CASE Ends(p) /\ Carries(p) /\ t[n] = p.frame  BY <1>4, <2>2
  <2> QED  BY <1>2, <2>1, <2>2
<1>6. Flow(k, g, t)  BY <1>3, <1>5 DEF Flow
<1> QED  BY <1>6 DEF t

\* The frames stay whole when a piece comes that follows the last one.
LEMMA WriteFramed ==
  ASSUME NEW k \in ConnType, NEW p \in PieceType, ~Gone(k), Framed(k),
         IF Size(k) = 0 THEN p.part = "preamble" ELSE Follows(At(k, Size(k)), p)
  PROVE  Framed(Written(k, p))
<1> DEFINE l == Written(k, p)  N == Size(k)
<1>1. N \in Nat  BY PieceAt
<1>2. Size(l) = N + 1 /\ At(l, N + 1) = p /\ \A i \in 1..N : At(l, i) = At(k, i)
  BY WriteAdds
<1> HIDE DEF l
<1>3. At(l, 1).part = "preamble"
  <2>1. CASE N = 0
    <3>1. At(l, 1) = p  BY <1>2, <2>1
    <3> QED  BY <2>1, <3>1
  <2>2. CASE N > 0
    <3>1. 1 \in 1..N  BY <1>1, <2>2
    <3> QED  BY <1>2, <2>2, <3>1 DEF Framed
  <2> QED  BY <1>1, <2>1, <2>2
<1>4. ASSUME NEW i \in 1..N PROVE Follows(At(l, i), At(l, i + 1))
  <2>1. CASE i = N
    <3>1. N /= 0  BY <1>4
    <3>2. At(l, i) = At(k, N) /\ At(l, i + 1) = p  BY <1>2, <2>1, <1>4
    <3> QED  BY <3>1, <3>2
  <2>2. CASE i /= N
    <3>1. i \in 1..(N - 1) /\ i + 1 \in 1..N  BY <1>1, <1>4, <2>2
    <3>2. At(l, i) = At(k, i) /\ At(l, i + 1) = At(k, i + 1)  BY <1>2, <3>1
    <3> QED  BY <3>1, <3>2 DEF Framed
  <2> QED  BY <2>1, <2>2
<1>5. (N + 1) - 1 = N  BY <1>1
<1> QED  BY <1>2, <1>3, <1>4, <1>5 DEF Framed, l

\* A frame whose last piece has been read is whole.
LEMMA WholeFrame ==
  ASSUME NEW k \in ConnType, Framed(k), Complete(k)
  PROVE  LET e == Len(k.in)
             f == k.in[1].frame
         IN  /\ f \in Nat /\ Frame(k) = f /\ e \in 1..Size(k)
             /\ Ends(At(k, e)) /\ \A i \in 1..(e - 1) : ~Ends(At(k, i))
             /\ \A i \in 1..e : At(k, i).frame = f
<1> DEFINE a == k.in  e == Len(a)  f == a[1].frame
<1>1. a \in Seq(PieceType) /\ a /= <<>> /\ e = Len(Parts(f))  BY DEF ConnType, Complete
<1>2. f \in Nat /\ \A i \in 1..e : At(k, i) = Piece(f, i) /\ a[i] = At(k, i)
  <2>1. Len(k.in) <= Len(Parts(k.in[1].frame))
    <3> DEFINE n == Len(Parts(f))
    <3>1. e \in Nat  BY <1>1
    <3> HIDE DEF e, f, n
    <3>2. e <= n  BY <1>1, <3>1 DEF n
    <3> QED  BY <3>2 DEF e, f, n
  <2> QED  BY <1>1, <2>1, FirstFrame
<1>3. Frame(k) = f  BY <1>2 DEF Frame
<1>4. e \in Nat /\ Size(k) \in Nat /\ e <= Size(k) /\ e >= 1
  <2>1. e \in Nat /\ e >= 1  BY <1>1
  <2> QED  BY <2>1, PieceAt DEF Size, ConnType
<1> HIDE DEF a, e, f
<1>5. /\ e = IF f = NOP THEN 2 ELSE 3
      /\ Parts(f)[1] = "preamble" /\ (f = NOP => Parts(f)[2] = "signature")
      /\ f /= NOP => Parts(f)[2] = "payload" /\ Parts(f)[3] = "signature"
  BY <1>1, <1>2, PartsOf
<1>6. \A i \in 1..e : At(k, i).frame = f /\ At(k, i).part = Parts(f)[i]
  BY <1>2 DEF Piece
<1>7. Parts(f)[e] = "signature" /\ \A i \in 1..(e - 1) : Parts(f)[i] /= "signature"
  BY <1>5
<1>8. e \in 1..e /\ e \in 1..Size(k) /\ \A i \in 1..(e - 1) : i \in 1..e  BY <1>4
<1>9. Ends(At(k, e)) /\ \A i \in 1..(e - 1) : ~Ends(At(k, i))  BY <1>6, <1>7, <1>8 DEF Ends
<1> QED  BY <1>2, <1>3, <1>6, <1>8, <1>9 DEF a, e, f

\* What one step of the server leaves of a connection: the pieces there were, or
\* those after a frame it was done with.
Moved(k, l) ==
  /\ l \in ConnType /\ l.cut = k.cut
  /\ Without(k, l, 0) \/ \E e \in 1..Size(k) : Without(k, l, e) /\ Ends(At(k, e))

\* The next piece is read.
LEMMA TakeReads ==
  ASSUME NEW k \in ConnType, NEW g \in Seq(Nat), NEW s \in Seq(Nat), ConnInv(k, g, s),
         CanRead(k)
  PROVE  /\ ~NoTag(k) /\ Take(k) \in ConnType /\ Moved(k, Take(k)) /\ Take(k).server = "recv"
         /\ Framed(Take(k)) /\ Flow(Take(k), g, s) /\ Begins(g, s) /\ Take(k).in /= <<>>
         /\ Len(Take(k).in) <= Len(Parts(Take(k).in[1].frame))
<1> DEFINE l == Take(k)
<1>1. k.server = "recv" /\ k.wire /= <<>> /\ Framed(k) /\ Reading(k) /\ Flow(k, g, s) /\ Begins(g, s)
  BY DEF CanRead, ConnInv, Serving
<1>2. /\ l \in ConnType /\ Without(k, l, 0) /\ l.cut = k.cut /\ l.server = "recv"
      /\ l.in /= <<>> /\ Len(l.in) = Len(k.in) + 1 /\ Size(k) >= Len(k.in) + 1
  BY <1>1, TakeKeeps
<1>3. Framed(l) /\ Flow(l, g, s)  BY <1>1, <1>2, SameStream
<1>4. ~NoTag(k)
  <2> SUFFICES ASSUME k.in = <<>> PROVE Head(k.wire).part = "preamble"  BY DEF NoTag
  <2>1. Size(k) > 0 /\ Len(k.in) = 0  BY <1>2, PieceAt
  <2>2. At(k, 1) = k.wire[1]
    <3>1. ~(1 <= Len(k.in)) /\ 1 - Len(k.in) = 1  BY <2>1
    <3> QED  BY <3>1 DEF At, Nth
  <2> QED  BY <1>1, <2>1, <2>2 DEF Framed, ConnType
<1>5. Len(l.in) <= Len(Parts(l.in[1].frame))
  <2> DEFINE a == k.in  b == l.in
  <2>1. a \in Seq(PieceType) /\ b \in Seq(PieceType) /\ b = Append(a, Head(k.wire))
    BY <1>2 DEF ConnType, Take
  <2>2. a = <<>> \/ Len(a) < Len(Parts(a[1].frame))  BY <1>1 DEF Reading
  <2>3. Head(k.wire) \in PieceType  BY <1>1 DEF ConnType
  <2> DEFINE h == Head(k.wire)
  <2> HIDE DEF a, b, h
  <2>4. CASE a = <<>>
    <3>1. b = Append(<<>>, h)  BY <2>1, <2>4 DEF h
    <3>2. Len(b) = 1 /\ b[1] = h  BY <3>1
    <3>3. h.frame \in Nat  BY <2>3 DEF h, PieceType
    <3>4. Len(Parts(h.frame)) = 2 \/ Len(Parts(h.frame)) = 3  BY <3>3, PartsOf
    <3>5. Len(b) <= Len(Parts(b[1].frame))  BY SMTT(20), <3>2, <3>4
    <3> QED  BY <3>5 DEF b
  <2>5. CASE Len(a) < Len(Parts(a[1].frame)) /\ a /= <<>>
    <3>1. b = Append(a, h) /\ h \in PieceType  BY <2>1, <2>3 DEF h
    <3>2. Len(b) = Len(a) + 1 /\ b[1] = a[1] /\ Len(a) \in Nat /\ a[1] \in PieceType
      BY <2>1, <2>5, <3>1
    <3>3. a[1].frame \in Nat  BY <3>2 DEF PieceType
    <3> DEFINE n == Len(Parts(a[1].frame))
    <3>4. n \in Nat  BY <3>3, PartsOf
    <3>5. n = Len(Parts(b[1].frame)) /\ Len(a) < n  BY <2>5, <3>2
    <3> HIDE DEF n
    <3>6. Len(b) <= n  BY <3>2, <3>4, <3>5
    <3>7. Len(b) <= Len(Parts(b[1].frame))  BY <3>5, <3>6
    <3> QED  BY <3>7 DEF b
  <2> QED  BY <2>2, <2>4, <2>5
<1>6. Moved(k, l)  BY <1>2 DEF Moved
<1> QED  BY <1>1, <1>2, <1>3, <1>4, <1>5, <1>6

\* A frame is not complete yet.
LEMMA ReadsOn ==
  ASSUME NEW k \in ConnType, NEW g \in Seq(Nat), NEW s \in Seq(Nat), ConnInv(k, g, s),
         CanRead(k), ~Complete(Take(k))
  PROVE  Moved(k, Take(k)) /\ ConnInv(Take(k), g, s)
<1> DEFINE l == Take(k)
<1>1. /\ l \in ConnType /\ Moved(k, l) /\ l.server = "recv" /\ Framed(l) /\ Flow(l, g, s)
      /\ Begins(g, s) /\ l.in /= <<>> /\ Len(l.in) <= Len(Parts(l.in[1].frame))
  BY TakeReads
<1>2. Len(l.in) /= Len(Parts(l.in[1].frame))  BY <1>1 DEF Complete
<1>3. Len(l.in) < Len(Parts(l.in[1].frame))
  <2> DEFINE m == Len(l.in)  n == Len(Parts(l.in[1].frame))
  <2>1. l.in \in Seq(PieceType)  BY <1>1 DEF ConnType
  <2>2. m \in Nat /\ l.in[1] \in PieceType
    <3> DEFINE a == l.in
    <3>1. a \in Seq(PieceType) /\ a /= <<>>  BY <1>1, <2>1
    <3> HIDE DEF a
    <3>2. Len(a) \in Nat /\ a[1] \in PieceType  BY <3>1
    <3> QED  BY <3>2 DEF a
  <2>3. l.in[1].frame \in Nat  BY <2>2 DEF PieceType
  <2>4. n \in Nat  BY <2>3, PartsOf
  <2>5. m <= n /\ m /= n  BY <1>1, <1>2
  <2> HIDE DEF m, n
  <2>6. m < n  BY <2>2, <2>4, <2>5
  <2> QED  BY <2>6 DEF m, n
<1>4. Reading(l)  BY <1>1, <1>3 DEF Reading
<1> QED  BY <1>1, <1>4 DEF ConnInv

LEMMA InEmptied ==
  ASSUME NEW k \in ConnType
  PROVE  /\ LET m == [k EXCEPT !.in = <<>>]
            IN  /\ m \in ConnType /\ m.in = <<>> /\ m.wire = k.wire /\ m.cut = k.cut
                /\ m.server = k.server
         /\ \A to \in {"recv", "exited"} :
              LET m == [k EXCEPT !.server = to, !.in = <<>>]
              IN  /\ m \in ConnType /\ m.in = <<>> /\ m.wire = k.wire /\ m.cut = k.cut
                  /\ m.server = to
<1>1. <<>> \in Seq(PieceType)  OBVIOUS
<1> DEFINE none == <<>>
<1>2. none \in Seq(PieceType)  BY <1>1
<1> HIDE DEF none
<1>3. LET m == [k EXCEPT !.in = none]
      IN  m \in ConnType /\ m.in = none /\ m.wire = k.wire /\ m.cut = k.cut
          /\ m.server = k.server
  BY <1>2 DEF ConnType
<1>4. ASSUME NEW to \in {"recv", "exited"}
      PROVE  LET m == [k EXCEPT !.server = to, !.in = none]
             IN  m \in ConnType /\ m.in = none /\ m.wire = k.wire /\ m.cut = k.cut
                 /\ m.server = to
  BY <1>2 DEF ConnType
<1> QED  BY <1>3, <1>4 DEF none

\* A heartbeat has been read.
LEMMA ReadsBeat ==
  ASSUME NEW k \in ConnType, NEW g \in Seq(Nat), NEW s \in Seq(Nat), ConnInv(k, g, s),
         CanRead(k), Complete(Take(k)), Frame(Take(k)) = NOP,
         \A n \in 1..Len(s) : s[n] /= NOP,
         NEW m, m = [Take(k) EXCEPT !.in = <<>>]
  PROVE  Moved(k, m) /\ ConnInv(m, g, s)
<1> DEFINE l == Take(k)  e == Len(l.in)
<1>1. /\ l \in ConnType /\ Without(k, l, 0) /\ l.cut = k.cut /\ l.server = "recv"
      /\ Framed(l) /\ Flow(l, g, s) /\ Begins(g, s)
  BY TakeReads, TakeKeeps DEF CanRead
<1>2. /\ e \in 1..Size(l) /\ Ends(At(l, e)) /\ \A i \in 1..e : At(l, i).frame = NOP
  BY <1>1, WholeFrame
<1>3. m \in ConnType /\ m.in = <<>> /\ m.wire = l.wire /\ m.cut = l.cut /\ m.server = "recv"
  BY <1>1, InEmptied
<1>4. Without(l, m, e)  BY <1>1, <1>3, EmptiedShifts
<1>5. Framed(m) /\ Flow(m, g, s)  BY <1>1, <1>2, <1>3, <1>4, FramedRest, BeatFlow
<1>6. Reading(m)  BY <1>3 DEF Reading
<1>7. Size(k) \in Nat /\ Size(l) \in Nat  BY <1>1, PieceAt
<1>8. e \in 1..Size(k) /\ At(l, e) = At(k, e) /\ Without(k, m, e)
  <2>1. Size(l) = Size(k) /\ \A i \in 1..Size(l) : At(l, i) = At(k, i)
    BY <1>1, <1>7 DEF Without
  <2>2. Size(m) = Size(k) - e /\ \A i \in 1..Size(m) : At(m, i) = At(l, i + e)
    BY <1>4, <2>1 DEF Without
  <2>3. \A i \in 1..Size(m) : i + e \in 1..Size(l)  BY <1>2, <1>7, <2>1, <2>2
  <2> QED  BY <1>2, <2>1, <2>2, <2>3 DEF Without
<1> QED  BY <1>1, <1>2, <1>3, <1>5, <1>6, <1>8 DEF ConnInv, Moved

\* A packet has been read.
LEMMA ReadsPacket ==
  ASSUME NEW k \in ConnType, NEW g \in Seq(Nat), NEW s \in Seq(Nat), ConnInv(k, g, s),
         CanRead(k), Complete(Take(k)), Frame(Take(k)) /= NOP,
         NEW m, m = [Take(k) EXCEPT !.server = "write"]
  PROVE  Moved(k, m) /\ ConnInv(m, g, s)
<1> DEFINE l == Take(k)
<1>1. /\ l \in ConnType /\ Without(k, l, 0) /\ l.cut = k.cut
      /\ Framed(l) /\ Flow(l, g, s) /\ Begins(g, s)
  BY TakeReads, TakeKeeps DEF CanRead
<1>2. Frame(l) = l.in[1].frame  BY <1>1, WholeFrame
<1>3. /\ m \in ConnType /\ m.in = l.in /\ m.wire = l.wire /\ m.cut = l.cut
      /\ m.server = "write"
  BY <1>1 DEF ConnType
<1>4. Size(m) = Size(l) /\ \A i \in 1..Size(l) : At(m, i) = At(l, i)
  BY <1>3, Zenon DEF Size, At
<1>5. Size(k) \in Nat /\ Size(l) \in Nat  BY <1>1, PieceAt
<1>6. Without(l, m, 0) /\ Without(k, m, 0)
  <2>1. Size(l) - 0 = Size(l) /\ \A i \in 1..Size(l) : i + 0 = i  BY <1>5
  <2>2. Size(l) = Size(k) - 0 /\ \A i \in 1..Size(l) : At(l, i) = At(k, i + 0)
    BY <1>1 DEF Without
  <2> HIDE DEF l
  <2>3. Without(l, m, 0)  BY <1>4, <2>1 DEF Without
  <2>4. Without(k, m, 0)  BY <1>4, <2>1, <2>2 DEF Without
  <2> QED  BY <2>3, <2>4
<1>7. Framed(m) /\ Flow(m, g, s)  BY <1>1, <1>3, <1>6, SameStream
<1>8. Reading(m)  BY <1>2, <1>3 DEF Reading, Complete, Carries
<1> QED  BY <1>1, <1>3, <1>6, <1>7, <1>8 DEF ConnInv, Moved

\* It is stored.
LEMMA Stores ==
  ASSUME NEW k \in ConnType, NEW g \in Seq(Nat), NEW s \in Seq(Nat), ConnInv(k, g, s),
         Increasing(s), \A n \in 1..Len(s) : s[n] /= NOP, k.server = "write",
         NEW m, m = [k EXCEPT !.server = "recv", !.in = <<>>]
  PROVE  /\ Moved(k, m) /\ Append(g, Frame(k)) \in Seq(Nat)
         /\ ConnInv(m, Append(g, Frame(k)), s)
<1> DEFINE e == Len(k.in)  f == k.in[1].frame
<1>1. Framed(k) /\ Flow(k, g, s) /\ Begins(g, s) /\ Complete(k) /\ Carries(k.in[1])
  BY DEF ConnInv, Serving, Reading
<1>2. /\ f \in Nat /\ Frame(k) = f /\ e \in 1..Size(k)
      /\ Ends(At(k, e)) /\ At(k, e).frame = f /\ \A i \in 1..(e - 1) : ~Ends(At(k, i))
  <2>1. e >= 1 => e \in 1..e  BY PieceAt
  <2> QED  BY <1>1, <2>1, WholeFrame, PieceAt
<1>3. m \in ConnType /\ m.in = <<>> /\ m.wire = k.wire /\ m.cut = k.cut /\ m.server = "recv"
  BY InEmptied
<1>4. Without(k, m, e)  BY <1>3, EmptiedShifts
<1>5. Carries(At(k, e))  BY <1>1, <1>2 DEF Carries
<1>6. Begins(Append(g, f), s)  BY <1>1, <1>2, <1>5, StoredIsNext
<1>7. Flow(m, Append(g, f), s)  BY <1>1, <1>2, <1>3, <1>4, <1>5, StoreFlow
<1>8. Framed(m)  BY <1>1, <1>2, <1>3, <1>4, FramedRest
<1>9. Reading(m)  BY <1>3 DEF Reading
<1>10. Append(g, f) \in Seq(Nat)  BY <1>2
<1> QED  BY <1>2, <1>3, <1>4, <1>6, <1>7, <1>8, <1>9, <1>10 DEF ConnInv, Moved

-----------------------------------------------------------------------------
(* The order of the packets is kept.                                         *)

LEMMA OrderSame ==
  ASSUME OrderInv, SentInv, full.list \in Seq(Int), app.pkt \in Nat,
         full'.list = full.list, UNCHANGED sent, app'.pkt \in {app.pkt, app.pkt + 1},
         pusher'.frame \in {pusher.frame, NOP},
         InHand' => InHand /\ pusher'.frame = pusher.frame
  PROVE  OrderInv' /\ SentInv'
<1>1. /\ 1..(app.pkt - 1) \subseteq 1..(app'.pkt - 1)
      /\ 0..(app.pkt - 1) \subseteq 0..(app'.pkt - 1)
  OBVIOUS
<1>2. pusher'.frame \in 0..(app'.pkt - 1)
  <2>1. pusher.frame \in 0..(app.pkt - 1)  BY DEF OrderInv
  <2>2. 0 \in 0..(app.pkt - 1)  BY <2>1
  <2> QED  BY <1>1, <2>1, <2>2 DEF NOP
<1>3. OrderInv'  BY <1>1, <1>2 DEF OrderInv
<1>4. SentInv'  BY <1>1 DEF SentInv
<1> QED  BY <1>3, <1>4

\* The oldest packet of the queue is taken out.
LEMMA OrderTail ==
  ASSUME OrderInv, SentInv, full.list \in Seq(Int), full.list /= <<>>,
         full'.list = Tail(full.list), UNCHANGED sent, app'.pkt = app.pkt,
         \/ pusher' = pusher
         \/ pusher' = [at |-> "send", frame |-> Head(full.list), part |-> 1]
  PROVE  OrderInv' /\ SentInv'
<1> DEFINE q == full.list  r == full'.list
<1>1. q \in Seq(Int) /\ q /= <<>> /\ r = Tail(q)  OBVIOUS
<1>2. /\ \A i \in 1..Len(q) : q[i] \in 1..(app.pkt - 1)
      /\ \A i, j \in 1..Len(q) : i < j => q[i] < q[j]
      /\ InHand => \A i \in 1..Len(q) : pusher.frame < q[i]
      /\ \A c \in Conn : \A n \in 1..Len(sent[c]) : \A i \in 1..Len(q) : sent[c][n] < q[i]
  BY DEF OrderInv, SentInv
<1>3. \/ pusher' = pusher
      \/ pusher'.at = "send" /\ pusher'.frame = Head(q)
  OBVIOUS
<1> HIDE DEF q, r
<1>4. /\ Len(r) = Len(q) - 1 /\ Len(q) \in Nat /\ Len(q) >= 1 /\ Head(q) = q[1]
      /\ \A i \in 1..(Len(q) - 1) : r[i] = q[i + 1]
  BY <1>1
<1>5. \A i \in 1..Len(r) : r[i] = q[i + 1] /\ i + 1 \in 1..Len(q) /\ 1 < i + 1  BY <1>4
<1>6. 1 \in 1..Len(q)  BY <1>4
<1>7. \A i, j \in 1..Len(r) : i < j => i + 1 < j + 1  BY <1>4
<1>8. /\ \A i \in 1..Len(r) : r[i] \in 1..(app.pkt - 1)
      /\ \A i, j \in 1..Len(r) : i < j => r[i] < r[j]
      /\ \A c \in Conn : \A n \in 1..Len(sent[c]) : \A i \in 1..Len(r) : sent[c][n] < r[i]
  BY <1>2, <1>5, <1>7
<1>9. CASE pusher' = pusher
  <2>1. InHand' => InHand  BY <1>9 DEF InHand
  <2>2. InHand => \A i \in 1..Len(r) : pusher.frame < r[i]  BY <1>2, <1>5
  <2>3. OrderInv'
    BY <1>8, <1>9, <2>1, <2>2 DEF OrderInv, r
  <2>4. SentInv'  BY <1>8, <1>9, <2>1 DEF SentInv, r
  <2> QED  BY <2>3, <2>4
<1>10. CASE pusher'.at = "send" /\ pusher'.frame = Head(q)
  <2>1. pusher'.frame = q[1] /\ q[1] \in 1..(app.pkt - 1)  BY <1>2, <1>4, <1>6, <1>10
  <2>2. q[1] \in 0..(app.pkt - 1)  BY <2>1
  <2>3. \A i \in 1..Len(r) : q[1] < r[i]  BY <1>2, <1>5, <1>6
  <2>4. \A c \in Conn : \A n \in 1..Len(sent[c]) : sent[c][n] < q[1]  BY <1>2, <1>6
  <2>5. OrderInv'  BY <1>8, <2>1, <2>2, <2>3 DEF OrderInv, r
  <2>6. SentInv'  BY <1>8, <2>1, <2>4 DEF SentInv, r
  <2> QED  BY <2>5, <2>6
<1> QED  BY <1>3, <1>9, <1>10

\* The application's packet is put into the queue.
LEMMA OrderPut ==
  ASSUME OrderInv, SentInv, full.list \in Seq(Int), app.pkt \in Nat,
         full'.list = Append(full.list, app.pkt), UNCHANGED <<sent, pusher>>,
         app'.pkt = app.pkt + 1
  PROVE  OrderInv' /\ SentInv'
<1> DEFINE q == full.list  r == full'.list  p == app.pkt
<1>1. q \in Seq(Int) /\ p \in Nat /\ r = Append(q, p)  OBVIOUS
<1>2. /\ \A i \in 1..Len(q) : q[i] \in 1..(p - 1)
      /\ \A i, j \in 1..Len(q) : i < j => q[i] < q[j]
      /\ InHand => \A i \in 1..Len(q) : pusher.frame < q[i]
      /\ pusher.frame \in 0..(p - 1)
      /\ \A c \in Conn : \A n \in 1..Len(sent[c]) :
           sent[c][n] \in 1..(p - 1) /\ \A i \in 1..Len(q) : sent[c][n] < q[i]
  BY DEF OrderInv, SentInv
<1>3. InHand' <=> InHand  BY DEF InHand
<1> HIDE DEF q, r, p
<1>4. /\ Len(r) = Len(q) + 1 /\ Len(q) \in Nat /\ r[Len(q) + 1] = p
      /\ \A i \in 1..Len(q) : r[i] = q[i]
  BY <1>1
<1>5. \A i \in 1..Len(r) :
        (i \in 1..Len(q) /\ r[i] = q[i]) \/ (i = Len(q) + 1 /\ r[i] = p)
  BY <1>4
<1>6. /\ p \in 1..((p + 1) - 1)
      /\ \A x \in 1..(p - 1) : x < p /\ x \in 1..((p + 1) - 1)
      /\ \A x \in 0..(p - 1) : x < p /\ x \in 0..((p + 1) - 1)
  BY <1>1, <1>2
<1>7. \A i \in 1..Len(r) : r[i] \in 1..((p + 1) - 1)  BY <1>2, <1>5, <1>6
<1>8. ASSUME NEW i \in 1..Len(r), NEW j \in 1..Len(r), i < j PROVE r[i] < r[j]
  <2>1. i \in 1..Len(q)  BY <1>4, <1>8
  <2>2. CASE j \in 1..Len(q)  BY <1>2, <1>4, <1>8, <2>1, <2>2
  <2>3. CASE j = Len(q) + 1 /\ r[j] = p
    <3>1. r[i] \in 1..(p - 1)  BY <1>2, <1>4, <2>1
    <3> QED  BY <1>6, <2>3, <3>1
  <2> QED  BY <1>5, <2>2, <2>3
<1>9. InHand => \A i \in 1..Len(r) : pusher.frame < r[i]  BY <1>2, <1>5, <1>6
<1>10. \A c \in Conn : \A n \in 1..Len(sent[c]) :
         sent[c][n] \in 1..((p + 1) - 1) /\ \A i \in 1..Len(r) : sent[c][n] < r[i]
  BY <1>2, <1>5, <1>6
<1>11. app'.pkt = p + 1 /\ full'.list = r  BY DEF p, r
<1>12. OrderInv'  BY <1>2, <1>3, <1>6, <1>7, <1>8, <1>9, <1>11 DEF OrderInv
<1>13. SentInv'  BY <1>3, <1>10, <1>11 DEF SentInv
<1> QED  BY <1>12, <1>13

\* The queue is gone.
LEMMA OrderEmpty ==
  ASSUME OrderInv, SentInv, app.pkt \in Nat, full'.list = <<>>, UNCHANGED <<sent, app>>,
         pusher' = Ready
  PROVE  OrderInv' /\ SentInv'
<1>1. ~InHand' /\ pusher'.frame = 0  BY DEF InHand, Ready, NOP
<1>2. 0 \in 0..(app.pkt - 1)  BY DEF OrderInv
<1>3. 1..Len(full'.list) = {}  OBVIOUS
<1>4. OrderInv'  BY <1>1, <1>2, <1>3 DEF OrderInv
<1>5. SentInv'  BY <1>1, <1>3 DEF SentInv
<1> QED  BY <1>4, <1>5

\* The packet in hand is sent, on the newest connection.
LEMMA OrderSent ==
  ASSUME OrderInv, SentInv, NEW d \in Conn, InHand, app.pkt \in Nat,
         sent \in [Conn -> Seq(Nat)], \A c \in Conn : c > d => sent[c] = <<>>,
         sent' = [sent EXCEPT ![d] = Append(@, pusher.frame)],
         full'.list = full.list, app'.pkt = app.pkt, pusher'.frame = pusher.frame, ~InHand'
  PROVE  OrderInv' /\ SentInv'
<1> DEFINE f == pusher.frame  s == sent[d]  t == Append(s, f)
<1>1. /\ f \in 0..(app.pkt - 1) /\ f /= 0
      /\ \A i \in 1..Len(full.list) : f < full.list[i]
  BY DEF OrderInv, InHand, NOP
<1>2. f \in 1..(app.pkt - 1) /\ f \in Nat  BY <1>1
<1>3. s \in Seq(Nat)  OBVIOUS
<1>4. \A c \in Conn : \A n \in 1..Len(sent[c]) :
        /\ sent[c][n] \in 1..(app.pkt - 1) /\ sent[c][n] < f
        /\ \A i \in 1..Len(full.list) : sent[c][n] < full.list[i]
  BY DEF SentInv
<1>5. \A m, n \in 1..Len(s) : m < n => s[m] < s[n]  BY DEF SentInv
<1>6. \A n \in 1..Len(s) : /\ s[n] \in 1..(app.pkt - 1) /\ s[n] < f
                           /\ \A i \in 1..Len(full.list) : s[n] < full.list[i]
  BY <1>4
<1>7. sent'[d] = t /\ \A c \in Conn : c /= d => sent'[c] = sent[c]  OBVIOUS
<1>8. OrderInv'  BY DEF OrderInv
<1> HIDE DEF t, s, f
<1>9. /\ Len(t) = Len(s) + 1 /\ Len(s) \in Nat /\ t[Len(s) + 1] = f
      /\ \A i \in 1..Len(s) : t[i] = s[i]
  BY <1>2, <1>3 DEF t
<1>10. \A i \in 1..Len(t) :
        (i \in 1..Len(s) /\ t[i] = s[i]) \/ (i = Len(s) + 1 /\ t[i] = f)
  BY <1>9
<1>11. \A n \in 1..Len(t) :
         t[n] \in 1..(app.pkt - 1) /\ \A i \in 1..Len(full.list) : t[n] < full.list[i]
  BY <1>1, <1>2, <1>6, <1>10 DEF f
<1>12. ASSUME NEW m \in 1..Len(t), NEW n \in 1..Len(t), m < n PROVE t[m] < t[n]
  <2>1. m \in 1..Len(s)  BY <1>9, <1>12
  <2>2. CASE n \in 1..Len(s)  BY <1>5, <1>9, <1>12, <2>1, <2>2
  <2>3. CASE t[n] = f  BY <1>6, <1>9, <2>1, <2>3
  <2> QED  BY <1>10, <2>2, <2>3
<1>13. \A c \in Conn : c < d => \A m \in 1..Len(sent[c]), n \in 1..Len(t) : sent[c][m] < t[n]
  <2> SUFFICES ASSUME NEW c \in Conn, c < d, NEW m \in 1..Len(sent[c]), NEW n \in 1..Len(t)
               PROVE  sent[c][m] < t[n]
    OBVIOUS
  <2>1. CASE n \in 1..Len(s) /\ t[n] = s[n]
    <3>1. sent[c][m] < s[n]  BY <2>1 DEF SentInv, s
    <3> QED  BY <2>1, <3>1
  <2>2. CASE t[n] = f  BY <1>4, <2>2
  <2> QED  BY <1>10, <2>1, <2>2
<1>14. ASSUME NEW c \in Conn
       PROVE  /\ \A n \in 1..Len(sent'[c]) :
                   /\ sent'[c][n] \in 1..(app.pkt - 1)
                   /\ \A i \in 1..Len(full.list) : sent'[c][n] < full.list[i]
              /\ \A m, n \in 1..Len(sent'[c]) : m < n => sent'[c][m] < sent'[c][n]
  <2>1. CASE c = d  BY <1>7, <1>11, <1>12, <2>1
  <2>2. CASE c /= d
    <3>1. \A m, n \in 1..Len(sent[c]) : m < n => sent[c][m] < sent[c][n]  BY DEF SentInv
    <3> QED  BY <1>4, <1>7, <2>2, <3>1
  <2> QED  BY <2>1, <2>2
<1>15. ASSUME NEW b \in Conn, NEW c \in Conn, b < c,
              NEW m \in 1..Len(sent'[b]), NEW n \in 1..Len(sent'[c])
       PROVE  sent'[b][m] < sent'[c][n]
  <2>1. CASE c = d
    <3>1. b /= d  BY <1>15, <2>1 DEF Conn
    <3> QED  BY <1>7, <1>13, <1>15, <2>1, <3>1
  <2>2. CASE b = d
    <3>1. c /= d /\ c > d  BY <1>15, <2>2 DEF Conn
    <3>2. sent'[c] = <<>>  BY <1>7, <3>1
    <3>3. 1..Len(sent'[c]) = {}  BY <3>2
    <3> QED  BY <1>15, <3>3
  <2>3. CASE b /= d /\ c /= d
    <3>1. sent'[b] = sent[b] /\ sent'[c] = sent[c]  BY <1>7, <2>3
    <3>2. \A x \in 1..Len(sent[b]), y \in 1..Len(sent[c]) : sent[b][x] < sent[c][y]
      BY <1>15 DEF SentInv
    <3> QED  BY <1>15, <3>1, <3>2
  <2> QED  BY <2>1, <2>2, <2>3
<1>16. SentInv'  BY <1>14, <1>15 DEF SentInv
<1> QED  BY <1>8, <1>16

-----------------------------------------------------------------------------
(* The handle and its connection belong together.                            *)

\* The middle of a frame is being written.
Midst == pusher.at = "write" /\ pusher.part > 1

LEMMA LinkSame ==
  ASSUME LinkInv, UNCHANGED <<ph, conn, sent, got, pusher>>,
         proc' = "live" => proc = "live"
  PROVE  LinkInv'
<1>1. \A k : LastWritten(k) => LastWritten(k)'
  BY DEF LastWritten
<1> QED  BY <1>1 DEF LinkInv

LEMMA LinkMoves ==
  ASSUME LinkInv, ph'.iacp = ph.iacp, ph'.made = ph.made, UNCHANGED <<conn, sent, got, proc>>,
         ~Midst, pusher'.at \in {"send", "connect", "write"} => pusher'.part = 1,
         pusher'.at = "connect" => ph.iacp = NULL,
         pusher'.at = "write" => ph.iacp = ph.made /\ ph.made > 0 /\ pusher'.frame \in Nat
  PROVE  LinkInv'
<1>1. ~Midst'  BY DEF Midst
<1>2. \A c \in Conn : LastWritten(conn[c]) => LastWritten(conn[c])'
  BY <1>1 DEF LastWritten, Midst
<1>3. pusher'.at = "write" => pusher'.part \in 1..Len(Parts(pusher'.frame))
  <2> SUFFICES ASSUME pusher'.at = "write" PROVE 1 \in 1..Len(Parts(pusher'.frame))  OBVIOUS
  <2> DEFINE n == Len(Parts(pusher'.frame))
  <2>1. n = 2 \/ n = 3  BY PartsOf
  <2> HIDE DEF n
  <2>2. 1 \in 1..n  BY <2>1
  <2> QED  BY <2>2 DEF n
<1>4. ph'.iacp \in {NULL, WILD, ph'.made} /\ (pusher'.at = "connect" => ph'.iacp = NULL)
  BY DEF LinkInv
<1>5. \A c \in Conn : c > ph'.made => conn'[c].server = "none" /\ sent'[c] = <<>> /\ got'[c] = <<>>
  BY DEF LinkInv
<1>6. proc' = "live" => \A c \in Conn :
        c = ph'.iacp /\ Serving(conn'[c]) /\ ~conn'[c].cut => LastWritten(conn[c])'
  BY <1>2 DEF LinkInv
<1> QED  BY <1>3, <1>4, <1>5, <1>6 DEF LinkInv

\* What the server does leaves the last piece that was written, or nothing of a
\* frame that is complete.
LEMMA LastMoved ==
  ASSUME NEW k \in ConnType, NEW l, Moved(k, l), LastWritten(k),
         pusher.at = "write" =>
           pusher.frame \in Nat /\ pusher.part \in 1..Len(Parts(pusher.frame))
  PROVE  LastWritten(l)
<1>1. Size(k) \in Nat /\ Size(l) \in Nat /\ l \in ConnType  BY PieceAt DEF Moved
<1>2. CASE Without(k, l, 0)
  <2>1. l.cut = k.cut  BY DEF Moved
  <2> QED  BY <1>1, <1>2, <2>1, SameStream
<1>3. CASE \E e \in 1..Size(k) : Without(k, l, e) /\ Ends(At(k, e))
  <2>1. PICK e \in 1..Size(k) : Without(k, l, e) /\ Ends(At(k, e))  BY <1>3
  <2>2. Size(l) = Size(k) - e /\ \A i \in 1..Size(l) : At(l, i) = At(k, i + e)
    BY <2>1 DEF Without
  <2>3. CASE e < Size(k)
    <3>1. Size(l) > 0 /\ Size(k) > 0 /\ Size(l) \in 1..Size(l) /\ Size(l) + e = Size(k)
      BY <1>1, <2>2, <2>3
    <3>2. At(l, Size(l)) = At(k, Size(k))  BY <2>2, <3>1
    <3>3. Size(k) /= 0  BY <3>1
    <3> QED  BY <3>1, <3>2, <3>3, Zenon DEF LastWritten, Boundary
  <2>4. CASE e = Size(k)
    <3>1. Size(l) = 0 /\ Size(k) > 0  BY <1>1, <2>2, <2>4
    <3>2. ~Midst
      <4> SUFFICES ASSUME Midst PROVE FALSE  OBVIOUS
      <4> DEFINE f == pusher.frame  n == pusher.part
      <4>1. f \in Nat /\ n \in 1..Len(Parts(f)) /\ n > 1  BY DEF Midst
      <4>2. Len(Parts(f)) = (IF f = NOP THEN 2 ELSE 3)  BY <4>1, PartsOf
      <4>3. At(k, Size(k)) = Piece(f, n - 1)  BY DEF Midst, LastWritten
      <4>4. Parts(f)[n - 1] = "signature"  BY <2>1, <2>4, <4>3 DEF Ends, Piece
      <4> HIDE DEF f, n
      <4>5. n - 1 = 1 \/ (n - 1 = 2 /\ f /= NOP)  BY <4>1, <4>2
      <4> QED  BY <4>1, <4>4, <4>5, PartsOf
    <3> QED  BY <3>1, <3>2 DEF LastWritten, Boundary, Midst
  <2> QED  BY <1>1, <2>3, <2>4
<1> QED  BY <1>2, <1>3 DEF Moved

\* What closing by the other end leaves.
LEMMA ClosedSame ==
  ASSUME NEW k \in ConnType
  PROVE  /\ Closed(k) \in ConnType /\ Closed(k).cut = k.cut /\ Closed(k).server = k.server
         /\ LastWritten(k) => LastWritten(Closed(k))
         /\ \A g, s : ConnInv(k, g, s) => ConnInv(Closed(k), g, s)
<1> DEFINE l == Closed(k)
<1>1. /\ l \in ConnType /\ l.in = k.in /\ l.wire = k.wire /\ l.cut = k.cut
      /\ l.server = k.server
  BY DEF Closed, ConnType
<1> HIDE DEF l
<1>3. Size(l) = Size(k) /\ \A i : At(l, i) = At(k, i)  BY <1>1, Zenon DEF Size, At
<1>4. Size(k) \in Nat  BY PieceAt
<1>5. Without(k, l, 0)
  <2>1. Size(k) - 0 = Size(k) /\ \A i \in 1..Size(k) : i + 0 = i  BY <1>4
  <2> QED  BY <1>3, <2>1 DEF Without
<1>6. Reading(k) => Reading(l)  BY <1>1, Zenon DEF Reading, Complete
<1>7. LastWritten(k) => LastWritten(l)  BY <1>1, <1>5, SameStream
<1>8. ASSUME NEW g, NEW s, ConnInv(k, g, s) PROVE ConnInv(l, g, s)
  <2>1. Serving(l) <=> Serving(k)  BY <1>1 DEF Serving
  <2>2. Serving(k) => Framed(l) /\ Flow(l, g, s)  BY <1>1, <1>5, <1>8, SameStream DEF ConnInv
  <2> QED  BY <1>6, <1>8, <2>1, <2>2 DEF ConnInv
<1> QED  BY <1>1, <1>7, <1>8 DEF l

-----------------------------------------------------------------------------
(* The invariant holds at the start and is kept.                             *)

LEMMA NewConn ==
  /\ NoConn \in ConnType /\ Opened \in ConnType
  /\ Opened.server = "recv" /\ NoConn.server = "none" /\ Size(Opened) = 0
  /\ ConnInv(NoConn, <<>>, <<>>) /\ ConnInv(Opened, <<>>, <<>>)
<1>1. <<>> \in Seq(PieceType)  OBVIOUS
<1>2. NoConn \in ConnType /\ NoConn.server = "none"
  BY <1>1 DEF NoConn, ConnType
<1>3. Opened.in = <<>> /\ Opened.wire = <<>> /\ Opened.server = "recv"
  BY DEF Opened, NoConn
<1>4. Opened \in ConnType
  BY <1>2 DEF Opened, ConnType
<1>5. Size(Opened) = 0  BY <1>3 DEF Size
<1>6. Begins(<<>>, <<>>)  BY DEF Begins
<1>7. 1..Size(Opened) = {} /\ 1..(Size(Opened) - 1) = {} /\ ~(Size(Opened) > 0)  BY <1>5
<1>8. 1..Len(<<>>) = {}  OBVIOUS
<1>9. Framed(Opened) /\ Flow(Opened, <<>>, <<>>)  BY <1>7, <1>8, Zenon DEF Framed, Flow
<1>10. Reading(Opened)  BY <1>3 DEF Reading
<1>11. ConnInv(NoConn, <<>>, <<>>)  BY <1>2, <1>6 DEF ConnInv, Serving
<1>12. ConnInv(Opened, <<>>, <<>>)  BY <1>6, <1>9, <1>10 DEF ConnInv
<1> QED  BY <1>2, <1>3, <1>4, <1>5, <1>11, <1>12

LEMMA PInvInit == Init => PInv
<1> SUFFICES ASSUME Init PROVE PInv  OBVIOUS
<1>1. StreamTypes
  <2>1. ph \in HandleType
    <3>1. {NULL, WILD} \subseteq Int /\ {FALSE} \subseteq BOOLEAN /\ {0} \subseteq Nat
      BY DEF NULL, WILD
    <3> DEFINE I == {NULL, WILD}  F == {FALSE}  Z == {0}
    <3>2. ph \in [iacp : I, block : BOOLEAN, at_retry : BOOLEAN, disabled : F, made : Z,
                  poisoned : F]
      BY DEF Init
    <3> HIDE DEF I, F, Z
    <3> QED  BY <3>1, <3>2 DEF I, F, Z, HandleType
  <2>2. conn \in [Conn -> ConnType]  BY NewConn DEF Init
  <2>3. sent \in [Conn -> Seq(Nat)] /\ got \in [Conn -> Seq(Nat)]  BY DEF Init
  <2> QED  BY <2>1, <2>2, <2>3 DEF StreamTypes
<1>2. /\ app.pkt = 1 /\ pusher.frame = 0 /\ pusher.at = "send" /\ pusher.part = 1
      /\ full.list = <<>> /\ ph.made = 0 /\ ph.iacp \in {NULL, WILD}
      /\ \A c \in Conn : sent[c] = <<>> /\ got[c] = <<>> /\ conn[c] = NoConn
  BY DEF Init, NOP, EmptyQueue
<1>3. ~InHand  BY <1>2 DEF InHand, NOP
<1>4. 1..Len(full.list) = {} /\ \A c \in Conn : 1..Len(sent[c]) = {}  BY <1>2
<1>5. OrderInv  BY <1>2, <1>3, <1>4 DEF OrderInv
<1>6. SentInv  BY <1>4 DEF SentInv
<1>7. LinkInv
  <2>1. \A c \in Conn : c /= ph.iacp  BY <1>2, PushAssumption DEF Conn, NULL, WILD
  <2> QED  BY <1>2, <2>1, NewConn DEF LinkInv
<1>8. \A c \in Conn : ConnInv(conn[c], got[c], sent[c])  BY <1>2, NewConn
<1> QED  BY <1>1, <1>5, <1>6, <1>7, <1>8 DEF PInv

\* What the queues' invariant says of the variables that matter here.
LEMMA Kinds ==
  ASSUME QInv, PInv
  PROVE  /\ full.list \in Seq(Int) /\ app.pkt \in Nat /\ pusher.frame \in Nat
         /\ app \in AppType /\ pusher \in PusherType
<1>1. full.list \in Seq(Int) /\ app.pkt \in Nat /\ app \in AppType /\ pusher \in PusherType
  BY DEF QInv, QueueTypes, QueueType, ThreadTypes, AppType
<1>2. pusher.frame \in Nat  BY <1>1 DEF PInv, OrderInv
<1> QED  BY <1>1, <1>2

\* A step of this side that sends nothing.
LEMMA QuietStep ==
  ASSUME PInv, UNCHANGED <<conn, sent, got>>, OrderInv', SentInv', LinkInv',
         ph' \in HandleType
  PROVE  PInv'
<1>1. StreamTypes'  BY DEF PInv, StreamTypes
<1> QED  BY <1>1 DEF PInv

LEMMA AppSends ==
  ASSUME QInv, PInv, App \/ Call
  PROVE  PInv'
<1> USE DEF AppAt
<1>1. full.list \in Seq(Int) /\ app.pkt \in Nat /\ app \in AppType  BY Kinds
<1>2. OrderInv /\ SentInv /\ LinkInv
      /\ ph \in HandleType
  BY DEF PInv, StreamTypes
<1>3. UNCHANGED <<ph, conn, sent, got, pusher>> /\ (proc' = "live" => proc = "live")
  BY DEF App, Call, WaitHeap, TrySteal, PopHeap, PopFull, Put, history
<1>4. LinkInv'  BY <1>2, <1>3, LinkSame
<1>5. InHand' <=> InHand  BY <1>3 DEF InHand
<1>6. \A to : AppTo(to) => app'.pkt = app.pkt  BY <1>1 DEF AppTo, AppType
<1>7. NextPkt => app'.pkt = app.pkt + 1  BY DEF NextPkt
<1>8. CASE full'.list = full.list /\ app'.pkt \in {app.pkt, app.pkt + 1}
  BY <1>1, <1>2, <1>3, <1>4, <1>5, <1>8, OrderSame, QuietStep
<1>9. CASE PopFull /\ ~Hosed(full)
  <2>1. full.list /= <<>> /\ full' = Popped(full)  BY <1>9 DEF PopFull, Hosed
  <2>2. full'.list = Tail(full.list) /\ app'.pkt = app.pkt
    BY <1>6, <1>9, <2>1 DEF PopFull, Popped, QInv, QueueTypes, QueueType
  <2> QED  BY <1>1, <1>2, <1>3, <1>4, <2>1, <2>2, OrderTail, QuietStep
<1>10. CASE Put
  <2>1. full'.list = Append(full.list, app.pkt) /\ app'.pkt = app.pkt + 1
    BY <1>7, <1>10 DEF Put, msgqPut
  <2> QED  BY <1>1, <1>2, <1>3, <1>4, <2>1, OrderPut, QuietStep
<1>11. CASE Call \/ WaitHeap \/ PopHeap \/ (PopFull /\ Hosed(full))
  <2>1. full' = full /\ app'.pkt = app.pkt
    BY <1>6, <1>11 DEF Call, WaitHeap, PopHeap, PopFull
  <2> QED  BY <1>8, <2>1
<1>12. CASE TrySteal
  <2>1. full'.list = full.list
    BY <1>12 DEF TrySteal, Passed, QInv, QueueTypes, QueueType
  <2>2. app'.pkt \in {app.pkt, app.pkt + 1}  BY <1>6, <1>7, <1>12 DEF TrySteal
  <2> QED  BY <1>8, <2>1, <2>2
<1> QED  BY <1>9, <1>10, <1>11, <1>12 DEF App

LEMMA ExitSends ==
  ASSUME QInv, PInv, Exit
  PROVE  PInv'
<1>1. app.pkt \in Nat /\ OrderInv /\ SentInv /\ LinkInv /\ StreamTypes
  BY Kinds DEF PInv
<1>2. /\ full'.list = <<>> /\ UNCHANGED <<sent, got, app, ph>> /\ pusher' = Ready
      /\ conn' = CloseAll /\ proc' = "exited"
  BY DEF Exit, EmptyQueue, history
<1>3. OrderInv' /\ SentInv'  BY <1>1, <1>2, OrderEmpty
<1>4. \A c \in Conn : conn[c] \in ConnType /\ conn'[c] = Closed(conn[c])
  BY <1>1, <1>2 DEF CloseAll, StreamTypes
<1>5. conn' \in [Conn -> ConnType]  BY <1>2, <1>4, ClosedSame DEF CloseAll
<1>6. StreamTypes'  BY <1>1, <1>2, <1>5 DEF StreamTypes
<1>7. \A c \in Conn : ConnInv(conn[c], got[c], sent[c])'
  BY <1>2, <1>4, ClosedSame DEF PInv
<1>8. LinkInv'
  <2>1. pusher'.at = "ready"  BY <1>2 DEF Ready
  <2>2. \A c \in Conn : conn'[c].server = conn[c].server  BY <1>4, ClosedSame
  <2> QED  BY <1>1, <1>2, <2>1, <2>2 DEF LinkInv
<1> QED  BY <1>3, <1>6, <1>7, <1>8 DEF PInv

\* What becomes of the handle.
LEMMA Handles ==
  ASSUME NEW h \in HandleType
  PROVE  /\ Disconnected(h) \in HandleType
         /\ Disconnected(h).iacp = NULL /\ Disconnected(h).made = h.made
         /\ LET new == [h EXCEPT !.iacp = h.made + 1, !.made = @ + 1]
            IN  new \in HandleType /\ new.iacp = h.made + 1 /\ new.made = h.made + 1
<1>1. NULL \in Int  BY DEF NULL
<1> DEFINE b == ~h.at_retry  n == NULL
<1>2. b \in BOOLEAN /\ n \in Int  BY <1>1
<1> HIDE DEF b, n
<1>3. Disconnected(h) = [h EXCEPT !.iacp = n, !.poisoned = FALSE, !.disabled = b]
  BY DEF Disconnected, b, n
<1>4. /\ Disconnected(h) \in HandleType
      /\ Disconnected(h).iacp = n /\ Disconnected(h).made = h.made
  BY <1>2, <1>3 DEF HandleType
<1> DEFINE m == h.made + 1
<1>5. m \in Nat /\ m \in Int
  <2>1. h.made \in Nat  BY DEF HandleType
  <2> QED  BY <2>1
<1> HIDE DEF m
<1>6. LET new == [h EXCEPT !.iacp = m, !.made = m]
      IN  new \in HandleType /\ new.iacp = m /\ new.made = m
  BY <1>5 DEF HandleType
<1>7. [h EXCEPT !.iacp = h.made + 1, !.made = @ + 1] = [h EXCEPT !.iacp = m, !.made = m]
  BY DEF m
<1> QED  BY <1>4, <1>6, <1>7 DEF n, m

\* The pusher's steps that neither connect nor write.
LEMMA PusherWaits ==
  ASSUME QInv, PInv,
         TryFull \/ Beat \/ TakeFull \/ SendFrame \/ HandshakeFails \/ ConnectFails \/ Done
  PROVE  PInv'
<1> USE DEF PusherAt
<1>1. /\ full.list \in Seq(Int) /\ app.pkt \in Nat /\ pusher.frame \in Nat
      /\ pusher \in PusherType
  BY Kinds
<1>2. OrderInv /\ SentInv /\ LinkInv
      /\ ph \in HandleType
  BY DEF PInv, StreamTypes
<1>3. UNCHANGED <<conn, sent, got, app>> /\ pusher.at /= "write"
  BY DEF TryFull, Beat, TakeFull, SendFrame, HandshakeFails, ConnectFails, Done, history
<1>4. ~Midst  BY <1>3 DEF Midst
<1>5. \A to : PusherTo(to) =>
        pusher'.at = to /\ pusher'.frame = pusher.frame /\ pusher'.part = pusher.part
  BY <1>1 DEF PusherTo, PusherType
<1>6. CASE TryFull
  <2>1. full'.list = full.list
    BY <1>6 DEF TryFull, Passed, QInv, QueueTypes, QueueType
  <2>2. UNCHANGED <<ph, proc>> /\ pusher'.at = "pop" /\ pusher'.frame = pusher.frame
    BY <1>5, <1>6 DEF TryFull
  <2>3. ~InHand'  BY <2>2 DEF InHand
  <2>4. OrderInv' /\ SentInv'  BY <1>1, <1>2, <1>3, <2>1, <2>2, <2>3, OrderSame
  <2>5. LinkInv'  BY <1>2, <1>3, <1>4, <2>2, LinkMoves
  <2> QED  BY <1>2, <1>3, <2>2, <2>4, <2>5, QuietStep
<1>7. CASE Beat
  <2>1. /\ UNCHANGED <<full, ph, proc>>
        /\ pusher'.at = "send" /\ pusher'.frame = NOP /\ pusher'.part = 1
    BY <1>7 DEF Beat
  <2>2. ~InHand'  BY <2>1 DEF InHand
  <2>3. OrderInv' /\ SentInv'  BY <1>1, <1>2, <1>3, <2>1, <2>2, OrderSame
  <2>4. LinkInv'  BY <1>2, <1>3, <1>4, <2>1, LinkMoves
  <2> QED  BY <1>2, <1>3, <2>1, <2>3, <2>4, QuietStep
<1>8. CASE TakeFull /\ ~Hosed(full)
  <2>1. full.list /= <<>> /\ full' = Popped(full) /\ UNCHANGED <<ph, proc>>
        /\ pusher' = [at |-> "send", frame |-> Head(full.list), part |-> 1]
    BY <1>8 DEF TakeFull, Hosed
  <2>2. full'.list = Tail(full.list)
    BY <2>1 DEF Popped, QInv, QueueTypes, QueueType
  <2>3. OrderInv' /\ SentInv'  BY <1>1, <1>2, <1>3, <2>1, <2>2, OrderTail
  <2>4. pusher'.at = "send" /\ pusher'.part = 1  BY <2>1
  <2>5. LinkInv'  BY <1>2, <1>3, <1>4, <2>1, <2>4, LinkMoves
  <2> QED  BY <1>2, <1>3, <2>1, <2>3, <2>5, QuietStep
<1>9. CASE (TakeFull /\ Hosed(full)) \/ (SendFrame /\ pusher' = pusher)
  <2>1. UNCHANGED <<full, pusher, ph>> /\ (proc' = "live" => proc = "live")
    BY <1>9 DEF TakeFull, SendFrame
  <2>2. InHand' <=> InHand  BY <2>1 DEF InHand
  <2>3. OrderInv' /\ SentInv'  BY <1>1, <1>2, <1>3, <2>1, <2>2, OrderSame
  <2>4. LinkInv'  BY <1>2, <1>3, <2>1, LinkSame
  <2> QED  BY <1>2, <1>3, <2>1, <2>3, <2>4, QuietStep
<1>10. CASE SendFrame /\ pusher' /= pusher
  <2>1. UNCHANGED <<full, ph, proc>> /\ pusher.at = "send"  BY <1>10 DEF SendFrame
  <2>2. \/ PusherTo("done")
        \/ PusherTo("connect") /\ ph.iacp = NULL
        \/ PusherTo("write") /\ ph.iacp \in Conn
    BY <1>10 DEF SendFrame
  <2>3. pusher'.frame = pusher.frame /\ pusher'.part = 1
    BY <1>2, <1>5, <2>1, <2>2 DEF LinkInv
  <2>4. InHand' => InHand  BY <2>1, <2>3 DEF InHand
  <2>5. OrderInv' /\ SentInv'  BY <1>1, <1>2, <1>3, <2>1, <2>3, <2>4, OrderSame
  <2>6. ph.iacp \in Conn => ph.iacp = ph.made /\ ph.made > 0
    BY <1>2, PushAssumption DEF LinkInv, Conn, NULL, WILD
  <2>7. LinkInv'  BY <1>1, <1>2, <1>3, <1>4, <1>5, <2>1, <2>2, <2>3, <2>6, LinkMoves
  <2> QED  BY <1>2, <1>3, <2>1, <2>5, <2>7, QuietStep
<1>11. CASE HandshakeFails
  <2>1. /\ UNCHANGED <<full, pusher, proc>> /\ ph'.iacp = ph.iacp /\ ph'.made = ph.made
        /\ ph' \in HandleType
    BY <1>2, <1>11 DEF HandshakeFails, HandleType
  <2>2. pusher.at = "connect" /\ pusher.part = 1 /\ ph.iacp = NULL
    BY <1>2, <1>11 DEF HandshakeFails, LinkInv
  <2>3. InHand' <=> InHand  BY <2>1 DEF InHand
  <2>4. OrderInv' /\ SentInv'  BY <1>1, <1>2, <1>3, <2>1, <2>3, OrderSame
  <2>5. LinkInv'  BY <1>2, <1>3, <1>4, <2>1, <2>2, LinkMoves
  <2> QED  BY <1>3, <2>1, <2>4, <2>5, QuietStep
<1>12. CASE ConnectFails
  <2>1. /\ UNCHANGED <<full, proc>> /\ ph'.iacp = NULL /\ ph'.made = ph.made
        /\ ph' \in HandleType
    BY <1>2, <1>12, Handles DEF ConnectFails
  <2>2. pusher.at = "connect" /\ ph.iacp = NULL
    BY <1>2, <1>12 DEF ConnectFails, LinkInv
  <2>3. pusher'.at = "done" /\ pusher'.frame = pusher.frame  BY <1>5, <1>12 DEF ConnectFails
  <2>4. ~InHand'  BY <2>3 DEF InHand
  <2>5. OrderInv' /\ SentInv'  BY <1>1, <1>2, <1>3, <2>1, <2>3, <2>4, OrderSame
  <2>6. LinkInv'  BY <1>2, <1>3, <1>4, <2>1, <2>2, <2>3, LinkMoves
  <2> QED  BY <1>3, <2>1, <2>5, <2>6, QuietStep
<1>13. CASE Done
  <2>1. UNCHANGED <<full, ph, proc>> /\ pusher'.at = "ready" /\ pusher'.frame = NOP
    BY <1>13 DEF Done, Ready
  <2>2. ~InHand'  BY <2>1 DEF InHand
  <2>3. OrderInv' /\ SentInv'  BY <1>1, <1>2, <1>3, <2>1, <2>2, OrderSame
  <2>4. LinkInv'  BY <1>2, <1>3, <1>4, <2>1, LinkMoves
  <2> QED  BY <1>2, <1>3, <2>1, <2>3, <2>4, QuietStep
<1> QED  BY <1>6, <1>7, <1>8, <1>9, <1>10, <1>11, <1>12, <1>13

LEMMA Connects ==
  ASSUME QInv, PInv, Connect
  PROVE  PInv'
<1> DEFINE d == ph.made + 1
<1>1. /\ full.list \in Seq(Int) /\ app.pkt \in Nat /\ pusher.frame \in Nat
      /\ pusher \in PusherType
  BY Kinds
<1>2. OrderInv /\ SentInv /\ LinkInv
      /\ ph \in HandleType
      /\ conn \in [Conn -> ConnType] /\ sent \in [Conn -> Seq(Nat)] /\ got \in [Conn -> Seq(Nat)]
  BY DEF PInv, StreamTypes
<1>3. /\ UNCHANGED <<full, app, sent, got, proc>> /\ conn' = [conn EXCEPT ![d] = Opened]
      /\ pusher'.at = "write" /\ pusher'.frame = pusher.frame /\ pusher'.part = pusher.part
      /\ pusher.at = "connect"
  BY <1>1 DEF Connect, PusherAt, PusherTo, PusherType, history
<1>4. /\ ph'.iacp = d /\ ph'.made = d
      /\ ph' \in HandleType
  BY <1>2, Handles DEF Connect
<1>5. conn' \in [Conn -> ConnType]
      /\ \A c \in Conn : conn'[c] = IF c = d THEN Opened ELSE conn[c]
  BY <1>2, <1>3, NewConn
<1>6. StreamTypes'  BY <1>2, <1>3, <1>4, <1>5 DEF StreamTypes
<1>7. InHand' => InHand  BY <1>3 DEF InHand
<1>8. OrderInv' /\ SentInv'  BY <1>1, <1>2, <1>3, <1>7, OrderSame
<1>9. \A c \in Conn : c >= d => c > ph.made /\ sent[c] = <<>> /\ got[c] = <<>>
  <2>1. ph.made \in Nat  BY <1>2 DEF HandleType
  <2>2. \A c \in Conn : c >= d => c > ph.made  BY <2>1 DEF Conn
  <2> QED  BY <1>2, <2>2 DEF LinkInv
<1>10. ASSUME NEW c \in Conn PROVE ConnInv(conn[c], got[c], sent[c])'
  <2>1. CASE c = d
    <3>1. c >= d
      <4>1. ph.made \in Nat  BY <1>2 DEF HandleType
      <4> QED  BY <2>1, <4>1
    <3>2. conn'[c] = Opened /\ got'[c] = <<>> /\ sent'[c] = <<>>
      BY <1>3, <1>5, <1>9, <2>1, <3>1
    <3> QED  BY <3>2, NewConn
  <2>2. CASE c /= d
    <3>1. conn'[c] = conn[c]  BY <1>5, <2>2
    <3> QED  BY <1>3, <3>1 DEF PInv
  <2> QED  BY <2>1, <2>2
<1>11. LinkInv'
  <2>1. pusher'.part = 1 /\ d > 0
    <3>1. ph.made \in Nat  BY <1>2 DEF HandleType
    <3> QED  BY <1>2, <1>3, <3>1 DEF LinkInv
  <2>2. pusher'.part \in 1..Len(Parts(pusher'.frame))
    <3> DEFINE n == Len(Parts(pusher.frame))
    <3>1. n = 2 \/ n = 3  BY <1>1, PartsOf
    <3> HIDE DEF n
    <3>2. 1 \in 1..n  BY <3>1
    <3> QED  BY <1>3, <2>1, <3>2 DEF n
  <2>3. ASSUME NEW c \in Conn, c > d
        PROVE  conn'[c].server = "none" /\ sent'[c] = <<>> /\ got'[c] = <<>>
    <3>1. c > ph.made /\ c /= d
      <4>1. ph.made \in Nat  BY <1>2 DEF HandleType
      <4> QED  BY <2>3, <4>1 DEF Conn
    <3>2. conn'[c] = conn[c]  BY <1>5, <3>1
    <3> QED  BY <1>2, <1>3, <3>1, <3>2 DEF LinkInv
  <2>4. ASSUME NEW c \in Conn, c = d PROVE LastWritten(conn[c])'
    <3>1. Size(conn'[c]) = 0  BY <1>5, <2>4, NewConn
    <3> QED  BY <1>3, <2>1, <3>1 DEF LastWritten, Boundary
  <2> QED  BY <1>3, <1>4, <2>1, <2>2, <2>3, <2>4 DEF LinkInv
<1> QED  BY <1>6, <1>8, <1>10, <1>11 DEF PInv

LEMMA WriteStops ==
  ASSUME QInv, PInv, WriteFails
  PROVE  PInv'
<1> DEFINE d == ph.iacp
<1>1. /\ full.list \in Seq(Int) /\ app.pkt \in Nat /\ pusher.frame \in Nat
      /\ pusher \in PusherType
  BY Kinds
<1>2. OrderInv /\ SentInv /\ LinkInv
      /\ ph \in HandleType
      /\ conn \in [Conn -> ConnType] /\ sent \in [Conn -> Seq(Nat)] /\ got \in [Conn -> Seq(Nat)]
  BY DEF PInv, StreamTypes
<1>3. /\ UNCHANGED <<full, app, sent, got, proc>>
      /\ pusher'.at = "done" /\ pusher'.frame = pusher.frame
      /\ ph' = Disconnected(ph)
  BY <1>1 DEF WriteFails, AfterFailure, PusherTo, PusherType
<1>4. conn' = [conn EXCEPT ![d] = Closed(@)]  BY DEF WriteFails, AfterFailure
<1>5. /\ ph'.iacp = NULL /\ ph'.made = ph.made
      /\ ph' \in HandleType
  BY <1>2, <1>3, Handles
<1>6. \A c \in Conn : conn'[c] = IF c = d THEN Closed(conn[c]) ELSE conn[c]
  BY <1>2, <1>4
<1>7. conn' \in [Conn -> ConnType]  BY <1>2, <1>4, ClosedSame
<1>8. StreamTypes'  BY <1>2, <1>3, <1>5, <1>7 DEF StreamTypes
<1>9. ~InHand'  BY <1>3 DEF InHand
<1>10. OrderInv' /\ SentInv'  BY <1>1, <1>2, <1>3, <1>9, OrderSame
<1>11. \A c \in Conn : ConnInv(conn[c], got[c], sent[c])'
  BY ZenonT(30), <1>2, <1>3, <1>6, ClosedSame DEF PInv
<1>12. LinkInv'
  <2>1. \A c \in Conn : c /= NULL  BY DEF Conn, NULL
  <2>2. \A c \in Conn : conn'[c].server = conn[c].server  BY <1>2, <1>6, ClosedSame
  <2>3. \A c \in Conn : c > ph'.made => conn'[c].server = "none" /\ sent'[c] = <<>> /\ got'[c] = <<>>
    BY <1>2, <1>3, <1>5, <2>2 DEF LinkInv
  <2> QED  BY <1>3, <1>5, <2>1, <2>3 DEF LinkInv
<1> QED  BY <1>8, <1>10, <1>11, <1>12 DEF PInv

\* A frame's pieces in their order.
LEMMA PieceOrder ==
  ASSUME NEW f \in Nat, NEW n \in 1..Len(Parts(f))
  PROVE  /\ Piece(f, n) \in PieceType /\ Piece(f, n).frame = f
         /\ Ends(Piece(f, n)) <=> n = Len(Parts(f))
         /\ Carries(Piece(f, n)) <=> f /= NOP
         /\ n = 1 => Piece(f, n).part = "preamble"
         /\ n > 1 => Follows(Piece(f, n - 1), Piece(f, n))
<1> DEFINE N == Len(Parts(f))
<1>1. /\ N = IF f = NOP THEN 2 ELSE 3
      /\ Parts(f)[1] = "preamble" /\ (f = NOP => Parts(f)[2] = "signature")
      /\ f /= NOP => Parts(f)[2] = "payload" /\ Parts(f)[3] = "signature"
      /\ Piece(f, n) \in PieceType
  BY PartsOf
<1> HIDE DEF N
<1>2. n = 1 \/ n = 2 \/ (n = 3 /\ f /= NOP)  BY <1>1 DEF N
<1>3. \A i : Piece(f, i).frame = f /\ Piece(f, i).part = Parts(f)[i]  BY DEF Piece
<1>4. Ends(Piece(f, n)) <=> n = N  BY <1>1, <1>2, <1>3 DEF Ends
<1>5. Carries(Piece(f, n)) <=> f /= NOP  BY <1>3 DEF Carries
<1>6. ASSUME n > 1 PROVE Follows(Piece(f, n - 1), Piece(f, n))
  <2>1. CASE n = 2
    <3>1. n - 1 = 1  BY <2>1
    <3> QED  BY <1>1, <1>3, <2>1, <3>1 DEF Follows, Ends, Carries
  <2>2. CASE n = 3 /\ f /= NOP
    <3>1. n - 1 = 2  BY <2>2
    <3> QED  BY <1>1, <1>3, <2>2, <3>1 DEF Follows, Ends, Carries
  <2> QED  BY <1>2, <1>6, <2>1, <2>2
<1> QED  BY <1>1, <1>3, <1>4, <1>5, <1>6 DEF N

\* What becomes of the connection that the piece is written to.
LEMMA WriteConn ==
  ASSUME NEW k \in ConnType, NEW g \in Seq(Nat), NEW s \in Seq(Nat), ConnInv(k, g, s),
         NEW f \in Nat, NEW n \in 1..Len(Parts(f)),
         f /= NOP => \A i \in 1..Len(s) : s[i] < f,
         Serving(k) /\ ~k.cut =>
           IF n > 1 THEN Size(k) > 0 /\ At(k, Size(k)) = Piece(f, n - 1) ELSE Boundary(k)
  PROVE  /\ Written(k, Piece(f, n)) \in ConnType
         /\ Written(k, Piece(f, n)).server = k.server /\ Written(k, Piece(f, n)).cut = k.cut
         /\ ConnInv(Written(k, Piece(f, n)), g, SentWith(Piece(f, n), s))
         /\ Serving(k) /\ ~k.cut =>
              /\ Size(Written(k, Piece(f, n))) > 0
              /\ At(Written(k, Piece(f, n)), Size(Written(k, Piece(f, n)))) = Piece(f, n)
<1> DEFINE p == Piece(f, n)  l == Written(k, p)  t == SentWith(p, s)
<1>1. /\ p \in PieceType /\ p.frame = f /\ (Carries(p) <=> f /= NOP)
      /\ n = 1 => p.part = "preamble"
      /\ n > 1 => Follows(Piece(f, n - 1), p)
  BY PieceOrder
<1>2. Begins(g, s) /\ (Serving(k) => Framed(k) /\ Reading(k) /\ Flow(k, g, s))
  BY DEF ConnInv
<1> HIDE DEF p
<1>3. Begins(g, t)  BY <1>1, <1>2, SentGrows
<1>4. CASE Gone(k)
  <2>1. l = k  BY <1>4 DEF Written
  <2>2. Serving(k) => k.cut  BY <1>4 DEF Serving, Gone
  <2>3. Serving(k) => Flow(k, g, t)  BY <1>1, <1>2, <2>2, LostFlow
  <2> QED  BY <1>2, <1>3, <2>1, <2>2, <2>3 DEF ConnInv, p
<1>5. CASE ~Gone(k)
  <2>1. /\ l \in ConnType /\ l.cut = k.cut /\ l.server = k.server /\ l.in = k.in
        /\ Size(l) = Size(k) + 1 /\ At(l, Size(k) + 1) = p /\ Size(k) \in Nat
    BY <1>1, <1>5, WriteAdds, PieceAt
  <2>2. ~k.cut  BY <1>5 DEF Gone
  <2>3. Size(l) > 0 /\ At(l, Size(l)) = p  BY <2>1
  <2>4. ASSUME Serving(k) PROVE Framed(l) /\ Reading(l) /\ Flow(l, g, t)
    <3>1. Framed(k) /\ Reading(k) /\ Flow(k, g, s)  BY <1>2, <2>4
    <3>2. Flow(l, g, t)  BY <1>1, <1>2, <1>5, <3>1, WriteFlow
    <3>3. Reading(l)
      <4> HIDE DEF l
      <4> QED  BY <2>1, <3>1, Zenon DEF Reading, Complete
    <3>4. IF Size(k) = 0 THEN p.part = "preamble" ELSE Follows(At(k, Size(k)), p)
      <4>1. CASE n > 1
        <5>1. Size(k) > 0 /\ At(k, Size(k)) = Piece(f, n - 1)  BY <2>2, <2>4, <4>1
        <5> QED  BY <1>1, <4>1, <5>1
      <4>2. CASE ~(n > 1)
        <5>1. n = 1  BY <4>2
        <5>2. Size(k) = 0 \/ Ends(At(k, Size(k)))  BY <2>2, <2>4, <4>2 DEF Boundary
        <5> QED  BY <1>1, <5>1, <5>2 DEF Follows
      <4> QED  BY <4>1, <4>2
    <3>5. Framed(l)  BY <1>1, <1>5, <3>1, <3>4, WriteFramed
    <3> QED  BY <3>2, <3>3, <3>5
  <2>5. ConnInv(l, g, t)
    <3>1. Serving(l) => Serving(k)  BY <2>1 DEF Serving
    <3> QED  BY <1>3, <2>4, <3>1 DEF ConnInv
  <2> QED  BY <2>1, <2>3, <2>5 DEF p
<1> QED  BY <1>4, <1>5

LEMMA Writes ==
  ASSUME QInv, PInv, WritePiece
  PROVE  PInv'
<1> DEFINE d == ph.iacp  f == pusher.frame  n == pusher.part  p == Piece(f, n)
           N == Len(Parts(f))
<1>1. full.list \in Seq(Int) /\ app.pkt \in Nat /\ f \in Nat /\ pusher \in PusherType
  BY Kinds
<1>2. OrderInv /\ SentInv /\ LinkInv /\ ph \in HandleType
      /\ conn \in [Conn -> ConnType] /\ sent \in [Conn -> Seq(Nat)] /\ got \in [Conn -> Seq(Nat)]
  BY DEF PInv, StreamTypes
<1>3. /\ UNCHANGED <<full, app, got, ph, proc>> /\ proc = "live" /\ pusher.at = "write"
      /\ conn' = [conn EXCEPT ![d] = Written(@, p)]
      /\ sent' = IF n = N /\ f /= NOP THEN [sent EXCEPT ![d] = Append(@, f)] ELSE sent
      /\ IF n = N THEN PusherTo("done") ELSE pusher' = [pusher EXCEPT !.part = @ + 1]
  BY DEF WritePiece, PusherAt
<1>4. n \in 1..N /\ d = ph.made /\ ph.made > 0  BY <1>2, <1>3 DEF LinkInv
<1>5. /\ pusher'.frame = f
      /\ IF n = N THEN pusher'.at = "done" ELSE pusher'.at = "write" /\ pusher'.part = n + 1
  BY <1>1, <1>3 DEF PusherTo, PusherType
<1>6. /\ p \in PieceType /\ p.frame = f /\ (Ends(p) <=> n = N) /\ (Carries(p) <=> f /= NOP)
  BY <1>1, <1>4, PieceOrder
<1>7. \A c \in Conn : conn'[c] = IF c = d THEN Written(conn[c], p) ELSE conn[c]
  BY <1>2, <1>3
<1>8. \A c \in Conn : sent'[c] = IF c = d THEN SentWith(p, sent[c]) ELSE sent[c]
  BY <1>2, <1>3, <1>6 DEF SentWith
<1>9. InHand <=> f /= NOP  BY <1>3 DEF InHand
<1>10. \A c \in Conn : c > d => sent[c] = <<>>  BY <1>2, <1>4 DEF LinkInv
<1>11. OrderInv' /\ SentInv'
  <2>1. CASE d \in Conn /\ n = N /\ f /= NOP
    <3>1. ~InHand'  BY <1>5, <2>1 DEF InHand
    <3>2. sent' = [sent EXCEPT ![d] = Append(@, f)]  BY <1>3, <2>1
    <3> QED  BY <1>1, <1>2, <1>3, <1>5, <1>9, <1>10, <2>1, <3>1, <3>2, OrderSent
  <2>2. CASE ~(d \in Conn /\ n = N /\ f /= NOP)
    <3>1. sent' = sent
      <4>1. CASE d \notin Conn /\ n = N /\ f /= NOP
        <5>1. sent' = [sent EXCEPT ![d] = Append(@, f)]  BY <1>3, <4>1
        <5> QED  BY <1>2, <4>1, <5>1
      <4>2. CASE ~(n = N /\ f /= NOP)  BY <1>3, <4>2
      <4> QED  BY <2>2, <4>1, <4>2
    <3>2. InHand' => InHand  BY <1>5, <1>9 DEF InHand
    <3> QED  BY <1>1, <1>2, <1>3, <1>5, <3>1, <3>2, OrderSame
  <2> QED  BY <2>1, <2>2
<1>12. ASSUME NEW c \in Conn, c = d
       PROVE  /\ conn'[c] \in ConnType /\ sent'[c] \in Seq(Nat)
              /\ ConnInv(conn'[c], got[c], sent'[c])
              /\ conn'[c].server = conn[c].server /\ conn'[c].cut = conn[c].cut
              /\ Serving(conn[c]) /\ ~conn[c].cut =>
                   /\ Size(conn'[c]) > 0
                   /\ At(conn'[c], Size(conn'[c])) = p
  <2> DEFINE k == conn[c]  g == got[c]  s == sent[c]
  <2>1. k \in ConnType /\ g \in Seq(Nat) /\ s \in Seq(Nat) /\ ConnInv(k, g, s)
    BY <1>2 DEF PInv
  <2>2. f /= NOP => \A i \in 1..Len(s) : s[i] < f  BY <1>2, <1>9 DEF SentInv
  <2>3. Serving(k) /\ ~k.cut => LastWritten(k)  BY <1>2, <1>3, <1>12 DEF LinkInv
  <2>4. LastWritten(k) =>
          IF n > 1 THEN Size(k) > 0 /\ At(k, Size(k)) = Piece(f, n - 1) ELSE Boundary(k)
    BY <1>3 DEF LastWritten
  <2>5. conn'[c] = Written(k, p) /\ sent'[c] = SentWith(p, s)  BY <1>7, <1>8, <1>12
  <2>6. SentWith(p, s) \in Seq(Nat)  BY <1>6, <2>1, SentGrows
  <2> HIDE DEF k, g, s
  <2>7. /\ Written(k, p) \in ConnType
        /\ Written(k, p).server = k.server /\ Written(k, p).cut = k.cut
        /\ ConnInv(Written(k, p), g, SentWith(p, s))
        /\ Serving(k) /\ ~k.cut =>
             Size(Written(k, p)) > 0 /\ At(Written(k, p), Size(Written(k, p))) = p
    BY ZenonT(30), <1>1, <1>4, <2>1, <2>2, <2>3, <2>4, WriteConn
  <2> QED  BY <2>5, <2>6, <2>7 DEF k, g, s
<1>13. StreamTypes'
  <2>1. \A c \in Conn : conn'[c] \in ConnType /\ sent'[c] \in Seq(Nat)
    BY <1>2, <1>7, <1>8, <1>12
  <2>2. conn' \in [Conn -> ConnType]  BY <1>2, <1>3, <2>1
  <2>3. sent' \in [Conn -> Seq(Nat)]  BY <1>2, <1>3, <2>1
  <2> QED  BY <1>2, <1>3, <2>2, <2>3 DEF StreamTypes
<1>14. ASSUME NEW c \in Conn PROVE ConnInv(conn[c], got[c], sent[c])'
  <2>1. CASE c = d  BY <1>3, <1>12, <2>1
  <2>2. CASE c /= d
    <3>1. conn'[c] = conn[c] /\ sent'[c] = sent[c]  BY <1>7, <1>8, <2>2
    <3> QED  BY <1>3, <3>1 DEF PInv
  <2> QED  BY <2>1, <2>2
<1>15. LinkInv'
  <2>1. pusher'.at = "write" => pusher'.part \in 1..Len(Parts(pusher'.frame))
    <3>1. pusher'.at = "write" => n /= N /\ pusher'.part = n + 1  BY <1>5
    <3>2. N = 2 \/ N = 3  BY <1>1, PartsOf
    <3> HIDE DEF N, n
    <3>3. n /= N => n + 1 \in 1..N  BY <1>4, <3>2
    <3> QED  BY <1>5, <3>1, <3>3 DEF N
  <2>2. ASSUME NEW c \in Conn, c > ph.made
        PROVE  conn'[c].server = "none" /\ sent'[c] = <<>> /\ got'[c] = <<>>
    <3>1. c /= d  BY <1>2, <1>4, <2>2 DEF HandleType, Conn
    <3> QED  BY <1>2, <1>3, <1>7, <1>8, <2>2, <3>1 DEF LinkInv
  <2>3. ASSUME NEW c \in Conn, c = ph.iacp, Serving(conn'[c]), ~conn'[c].cut
        PROVE  LastWritten(conn[c])'
    <3>1. Size(conn'[c]) > 0 /\ At(conn'[c], Size(conn'[c])) = p
      BY <1>12, <2>3 DEF Serving
    <3>2. CASE n = N
      <4>1. Boundary(conn'[c])  BY <1>6, <3>1, <3>2 DEF Boundary
      <4> QED  BY <1>5, <3>2, <4>1 DEF LastWritten
    <3>3. CASE n /= N
      <4>1. pusher'.part - 1 = n /\ pusher'.frame = f  BY <1>4, <1>5, <3>3
      <4>2. Piece(pusher'.frame, pusher'.part - 1) = p  BY <4>1
      <4>3. pusher'.at = "write" /\ pusher'.part > 1  BY <1>4, <1>5, <3>3
      <4> QED  BY <3>1, <4>2, <4>3 DEF LastWritten
    <3> QED  BY <3>2, <3>3
  <2>4. ph'.iacp = ph.iacp /\ ph'.made = ph.made  BY <1>3
  <2>5. pusher'.at \in {"done", "write"}  BY <1>5
  <2>6. ph.iacp \in {NULL, WILD, ph.made} /\ ph.iacp = ph.made /\ ph.made > 0
    BY <1>2, <1>4 DEF LinkInv
  <2> HIDE DEF d, f, n, p, N
  <2> QED  BY <2>1, <2>2, <2>3, <2>4, <2>5, <2>6 DEF LinkInv
<1> QED  BY <1>11, <1>13, <1>14, <1>15 DEF PInv

LEMMA PusherSends ==
  ASSUME QInv, PInv, Pusher
  PROVE  PInv'
BY PusherWaits, Connects, Writes, WriteStops DEF Pusher

\* A step of the peer, or of the network, on connection c.
LEMMA PeerStep ==
  ASSUME QInv, PInv, NEW c \in Conn, NEW l \in ConnType,
         Becomes(c, l), UNCHANGED <<client, sent>>, conn[c].server /= "none",
         got' \in [Conn -> Seq(Nat)], \A b \in Conn : b /= c => got'[b] = got[b],
         ConnInv(l, got'[c], sent[c]),
         Serving(l) /\ ~l.cut => Serving(conn[c]) /\ Moved(conn[c], l)
  PROVE  PInv'
<1>1. /\ OrderInv /\ SentInv /\ LinkInv /\ StreamTypes /\ conn \in [Conn -> ConnType]
      /\ pusher.frame \in Nat
  BY Kinds DEF PInv, StreamTypes
<1>2. UNCHANGED <<ph, full, app, pusher, proc>>  BY DEF client
<1>3. OrderInv' /\ SentInv'  BY <1>1, <1>2 DEF OrderInv, SentInv, InHand
<1>4. conn' \in [Conn -> ConnType] /\ \A b \in Conn : conn'[b] = IF b = c THEN l ELSE conn[b]
  BY <1>1 DEF Becomes
<1>5. StreamTypes'  BY <1>1, <1>2, <1>4 DEF StreamTypes
<1>6. \A b \in Conn : ConnInv(conn[b], got[b], sent[b])'  BY <1>4 DEF PInv
<1>7. LinkInv'
  <2>1. \A b \in Conn : b > ph.made => b /= c  BY <1>1 DEF LinkInv
  <2>2. \A b \in Conn : b > ph.made =>
          conn'[b].server = "none" /\ sent'[b] = <<>> /\ got'[b] = <<>>
    BY <1>1, <1>4, <2>1 DEF LinkInv
  <2>3. ASSUME NEW b \in Conn, proc = "live", b = ph.iacp, Serving(conn'[b]), ~conn'[b].cut
        PROVE  LastWritten(conn[b])'
    <3>1. \A k : LastWritten(k) => LastWritten(k)'  BY <1>2 DEF LastWritten
    <3>2. CASE b /= c
      <4>1. conn'[b] = conn[b]  BY <1>4, <3>2
      <4>2. LastWritten(conn[b])  BY <1>1, <2>3, <4>1 DEF LinkInv
      <4> QED  BY <1>2, <4>1, <4>2 DEF LastWritten
    <3>3. CASE b = c
      <4>1. conn'[b] = l /\ Serving(conn[b]) /\ Moved(conn[b], l) /\ ~l.cut
        BY <1>4, <2>3, <3>3
      <4>2. ~conn[b].cut  BY <4>1 DEF Moved
      <4>3. LastWritten(conn[b])  BY <1>1, <2>3, <4>1, <4>2 DEF LinkInv
      <4>4. pusher.at = "write" =>
              pusher.frame \in Nat /\ pusher.part \in 1..Len(Parts(pusher.frame))
        BY <1>1 DEF LinkInv
      <4>5. LastWritten(l)  BY <1>1, <4>1, <4>3, <4>4, LastMoved
      <4> QED  BY <1>2, <4>1, <4>5 DEF LastWritten
    <3> QED  BY <3>2, <3>3
  <2> QED  BY <1>1, <1>2, <2>2, <2>3 DEF LinkInv
<1> QED  BY <1>3, <1>5, <1>6, <1>7 DEF PInv

\* A thread that has ended reads nothing more.
LEMMA PeerEnds ==
  ASSUME QInv, PInv, NEW c \in Conn, NEW l \in ConnType,
         Becomes(c, l), UNCHANGED <<client, sent, got>>, conn[c].server /= "none",
         ~Serving(l)
  PROVE  PInv'
<1>1. ConnInv(conn[c], got[c], sent[c]) /\ got \in [Conn -> Seq(Nat)]
  BY DEF PInv, StreamTypes
<1>2. ConnInv(l, got'[c], sent[c])  BY <1>1 DEF ConnInv
<1> QED  BY <1>1, <1>2, PeerStep

LEMMA DroppedEnds ==
  ASSUME NEW k \in ConnType
  PROVE  Dropped(k) \in ConnType /\ ~Serving(Dropped(k))
<1> DEFINE none == <<>>
<1>1. none \in Seq(PieceType)  OBVIOUS
<1> HIDE DEF none
<1>2. Dropped(k) = [k EXCEPT !.server = "closed", !.wire = none, !.in = none]
  BY DEF Dropped, none
<1> QED  BY <1>1, <1>2 DEF ConnType, Serving

LEMMA ClientThreadSends ==
  ASSUME QInv, PInv, NEW c \in Conn, ClientThread(c)
  PROVE  PInv'
<1> DEFINE k == conn[c]  g == got[c]  s == sent[c]
<1>1. /\ k \in ConnType /\ g \in Seq(Nat) /\ s \in Seq(Nat) /\ ConnInv(k, g, s)
      /\ got \in [Conn -> Seq(Nat)]
  BY DEF PInv, StreamTypes
<1>2. Increasing(s) /\ \A n \in 1..Len(s) : s[n] /= NOP
  <2>1. Increasing(s)  BY DEF PInv, SentInv, Increasing
  <2>2. \A n \in 1..Len(s) : s[n] \in 1..(app.pkt - 1)  BY DEF PInv, SentInv
  <2>3. \A x \in 1..(app.pkt - 1) : x /= 0  OBVIOUS
  <2> QED  BY <2>1, <2>2, <2>3, Zenon DEF NOP
<1> HIDE DEF k, g, s
<1>3. CASE ReadPiece(c)
  <2> DEFINE new == Take(k)
  <2>1. CanRead(k) /\ UNCHANGED <<client, sent, got>>
    BY <1>3 DEF ReadPiece, ClientKeeps, k
  <2>2. k.server = "recv" /\ Serving(k) /\ k.server /= "none"
    BY <2>1 DEF CanRead, Serving
  <2>3. ~NoTag(k)  BY <1>1, <2>1, TakeReads
  <2>4. CASE ~Complete(new)
    <3>1. Becomes(c, new)  BY <1>3, <2>3, <2>4 DEF ReadPiece, k
    <3>2. Moved(k, new) /\ ConnInv(new, g, s)  BY <1>1, <2>1, <2>4, ReadsOn
    <3>3. new \in ConnType  BY <3>2 DEF Moved
    <3> QED  BY <1>1, <2>1, <2>2, <3>1, <3>2, <3>3, PeerStep DEF k, g, s
  <2>5. CASE Complete(new) /\ Frame(new) = NOP
    <3> DEFINE m == [new EXCEPT !.in = <<>>]
    <3>1. Becomes(c, m)  BY <1>3, <2>3, <2>5 DEF ReadPiece, k
    <3>2. Moved(k, m) /\ ConnInv(m, g, s)  BY <1>1, <1>2, <2>1, <2>5, ReadsBeat
    <3>3. m \in ConnType  BY <3>2 DEF Moved
    <3> HIDE DEF m
    <3> QED  BY <1>1, <2>1, <2>2, <3>1, <3>2, <3>3, PeerStep DEF k, g, s
  <2>6. CASE Complete(new) /\ Frame(new) /= NOP
    <3> DEFINE m == [new EXCEPT !.server = "write"]
    <3>1. Becomes(c, m)  BY <1>3, <2>3, <2>6 DEF ReadPiece, k
    <3>2. Moved(k, m) /\ ConnInv(m, g, s)  BY <1>1, <2>1, <2>6, ReadsPacket
    <3>3. m \in ConnType  BY <3>2 DEF Moved
    <3> HIDE DEF m
    <3> QED  BY <1>1, <2>1, <2>2, <3>1, <3>2, <3>3, PeerStep DEF k, g, s
  <2> QED  BY <2>4, <2>5, <2>6
<1>4. CASE ReadFails(c)
  <2>1. /\ Becomes(c, Dropped(k)) /\ UNCHANGED <<client, sent, got>>
        /\ k.server /= "none"
    BY <1>4 DEF ReadFails, ClientKeeps, CanEnd, k
  <2>2. Dropped(k) \in ConnType /\ ~Serving(Dropped(k))  BY <1>1, DroppedEnds
  <2> QED  BY <2>1, <2>2, PeerEnds DEF k
<1>5. CASE WritePacketToDisk(c)
  <2> DEFINE m == [k EXCEPT !.server = "recv", !.in = <<>>]  h == Append(g, Frame(k))
  <2>1. /\ k.server = "write" /\ got' = [got EXCEPT ![c] = h] /\ Becomes(c, m)
        /\ UNCHANGED <<client, sent>>
    BY <1>5 DEF WritePacketToDisk, ClientKeeps, k, g
  <2>2. Moved(k, m) /\ h \in Seq(Nat) /\ ConnInv(m, h, s)  BY <1>1, <1>2, <2>1, Stores
  <2>3. m \in ConnType /\ Serving(k) /\ k.server /= "none"
    BY <2>1, <2>2 DEF Moved, Serving
  <2> HIDE DEF m, h
  <2>4. /\ got' \in [Conn -> Seq(Nat)] /\ got'[c] = h
        /\ \A b \in Conn : b /= c => got'[b] = got[b]
    BY <1>1, <2>1, <2>2
  <2> QED  BY <2>1, <2>2, <2>3, <2>4, PeerStep DEF k, s
<1>6. CASE StoreFails(c)
  <2> DEFINE m == [k EXCEPT !.server = "exited", !.in = <<>>]
  <2>1. /\ k.server /= "none" /\ Becomes(c, m) /\ UNCHANGED <<client, sent, got>>
    BY <1>6 DEF StoreFails, ClientKeeps, k
  <2>2. m \in ConnType /\ m.server = "exited"  BY <1>1, InEmptied
  <2> HIDE DEF m
  <2>3. ~Serving(m)  BY <2>2 DEF Serving
  <2> QED  BY <2>1, <2>2, <2>3, PeerEnds DEF k
<1> QED  BY <1>3, <1>4, <1>5, <1>6 DEF ClientThread

LEMMA BreakSends ==
  ASSUME QInv, PInv, NEW c \in Conn, Break(c)
  PROVE  PInv'
<1> DEFINE k == conn[c]  g == got[c]  s == sent[c]
<1>1. /\ k \in ConnType /\ g \in Seq(Nat) /\ s \in Seq(Nat) /\ ConnInv(k, g, s)
      /\ got \in [Conn -> Seq(Nat)]
  BY DEF PInv, StreamTypes
<1>2. \A n \in 1..Len(s) : s[n] /= NOP
  <2>1. \A n \in 1..Len(s) : s[n] \in 1..(app.pkt - 1)  BY DEF PInv, SentInv
  <2>2. \A x \in 1..(app.pkt - 1) : x /= 0  OBVIOUS
  <2> QED  BY <2>1, <2>2, Zenon DEF NOP
<1>3. k.server \in {"recv", "write", "exited"} /\ UNCHANGED <<client, sent, got>>
  BY DEF Break, ClientKeeps
<1>4. PICK n \in 0..Len(k.wire) :
        Becomes(c, [k EXCEPT !.cut = TRUE, !.wire = SubSeq(@, 1, n)])
  BY DEF Break
<1> DEFINE w == SubSeq(k.wire, 1, n)  l == [k EXCEPT !.cut = TRUE, !.wire = w]
<1>5. Becomes(c, l)  BY <1>4
<1> HIDE DEF k, g, s
<1>6. w \in Seq(PieceType)
  <2>1. k.wire \in Seq(PieceType)  BY <1>1 DEF ConnType
  <2> DEFINE b == k.wire
  <2>2. b \in Seq(PieceType) /\ n \in 0..Len(b)  BY <2>1
  <2> HIDE DEF b
  <2>3. SubSeq(b, 1, n) \in Seq(PieceType)  BY <2>2
  <2> QED  BY <2>3 DEF b
<1> HIDE DEF w
<1>7. /\ l \in ConnType /\ l.cut /\ l.wire = w /\ l.in = k.in /\ l.server = k.server
  BY <1>1, <1>6 DEF ConnType
<1> HIDE DEF l
<1>8. Size(l) <= Size(k) /\ \A i \in 1..Size(l) : At(l, i) = At(k, i)
  BY <1>1, <1>7, CutLeaves DEF w
<1>9. ConnInv(l, g, s)
  <2>1. Begins(g, s) /\ (Serving(k) => Framed(k) /\ Reading(k) /\ Flow(k, g, s))
    BY <1>1 DEF ConnInv
  <2>2. Serving(l) => Serving(k)  BY <1>7 DEF Serving
  <2>3. Reading(k) => Reading(l)  BY <1>7, Zenon DEF Reading, Complete
  <2>4. (Framed(k) => Framed(l)) /\ (Flow(k, g, s) => Flow(l, g, s))
    BY <1>1, <1>2, <1>7, <1>8, CutFlow
  <2> QED  BY <2>1, <2>2, <2>3, <2>4 DEF ConnInv
<1> QED  BY <1>1, <1>3, <1>5, <1>7, <1>9, PeerStep DEF k, g, s

\* The invariant is kept by every step of the program and of its peer.
LEMMA PInvNext == QInv /\ PInv /\ [Next]_vars => PInv'
<1> SUFFICES ASSUME QInv, PInv, [Next]_vars PROVE PInv'  OBVIOUS
<1>1. CASE Call \/ App  BY <1>1, AppSends
<1>2. CASE Exit  BY <1>2, ExitSends
<1>3. CASE Pusher  BY <1>3, PusherSends
<1>4. CASE \E c \in Conn : ClientThread(c) \/ Break(c)
  BY <1>4, ClientThreadSends, BreakSends
<1>5. CASE UNCHANGED vars
  <2>1. UNCHANGED <<ph, full, app, pusher, proc, conn, sent, got>>
    BY <1>5 DEF vars, client, history
  <2>2. OrderInv' /\ SentInv'  BY <2>1 DEF PInv, OrderInv, SentInv, InHand
  <2>3. LinkInv'  BY <2>1, LinkSame DEF PInv
  <2> QED  BY <2>1, <2>2, <2>3, QuietStep DEF PInv, StreamTypes
<1> QED  BY <1>1, <1>2, <1>3, <1>4, <1>5 DEF Next

LEMMA ArrivesFromPInv == PInv => ArrivesAsSent
<1> SUFFICES ASSUME PInv PROVE ArrivesAsSent  OBVIOUS
<1>1. sent \in [Conn -> Seq(Nat)] /\ got \in [Conn -> Seq(Nat)] /\ SentInv
  BY DEF PInv, StreamTypes
<1>2. ASSUME NEW c \in Conn PROVE IsPrefix(got[c], sent[c])
  <2> DEFINE g == got[c]  s == sent[c]
  <2>1. g \in Seq(Nat) /\ s \in Seq(Nat) /\ Begins(g, s)  BY <1>1 DEF PInv, ConnInv
  <2> HIDE DEF g, s
  <2>2. Len(g) <= Len(s) /\ \A m \in 1..Len(g) : g[m] = s[m]  BY <2>1 DEF Begins
  <2>3. SubSeq(g, 1, Len(g)) = SubSeq(s, 1, Len(g))  BY <2>1, <2>2
  <2>4. IsPrefix(g, s)  BY <2>2, <2>3 DEF IsPrefix
  <2> QED  BY <2>4 DEF g, s
<1>3. ASSUME NEW c \in Conn, NEW d \in Conn, c /= d
      PROVE  ToSet(sent[c]) \cap ToSet(sent[d]) = {}
  <2>1. \A m \in 1..Len(sent[c]), n \in 1..Len(sent[d]) : sent[c][m] /= sent[d][n]
    <3>1. c < d \/ d < c  BY <1>3 DEF Conn
    <3>2. \A m \in 1..Len(sent[c]) : sent[c][m] \in Nat  BY <1>1
    <3>3. \A n \in 1..Len(sent[d]) : sent[d][n] \in Nat  BY <1>1
    <3>4. \A x, y \in Nat : x < y \/ y < x => x /= y  OBVIOUS
    <3>5. ASSUME NEW m \in 1..Len(sent[c]), NEW n \in 1..Len(sent[d])
          PROVE  sent[c][m] < sent[d][n] \/ sent[d][n] < sent[c][m]
      BY <1>1, <3>1 DEF SentInv
    <3> QED  BY <3>2, <3>3, <3>4, <3>5
  <2>2. /\ DOMAIN sent[c] = 1..Len(sent[c]) /\ DOMAIN sent[d] = 1..Len(sent[d])
    BY <1>1
  <2> QED  BY <2>1, <2>2, Zenon DEF ToSet
<1> QED  BY <1>2, <1>3 DEF ArrivesAsSent

\* What a connection has stored is what was sent on it, from the first packet on,
\* whole and in order, and no packet is sent on two connections, however the
\* connections break, writes fail, threads end and heartbeats come between
\* (iacpSendFrame's pieces, src/lib/iacp/send.c, and iacpRecvFrame's, recv.c).
THEOREM StoredAsSent == Spec => []ArrivesAsSent
<1>1. Init => QInv /\ PInv  BY QInvInit, PInvInit
<1>2. QInv /\ PInv /\ [Next]_vars => (QInv /\ PInv)'  BY QInvNext, PInvNext
<1>3. QInv /\ PInv => ArrivesAsSent  BY ArrivesFromPInv
<1> QED  BY <1>1, <1>2, <1>3, PTL DEF Spec
=============================================================================
