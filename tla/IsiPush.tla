------------------------------- MODULE IsiPush -------------------------------
(***************************************************************************)
(* A program that pushes packets to a disk loop writer on another host     *)
(* (src/lib/isi/push.c) and the writer's packet server (src/lib/isidl/     *)
(* push.c).  The application puts packets into a queue of buffers, which   *)
(* blocks it or is robbed of its oldest packet when it is full.  A thread  *)
(* takes them out, connects when it is not connected, and sends them.  At  *)
(* the other end each connection has a thread that stores what it gets.    *)
(*                                                                         *)
(* Packets are numbered as the application comes to them.  A connection    *)
(* may break, a write to the disk loop may fail and a thread may be slow,  *)
(* MaxFaults times in all.                                                 *)
(***************************************************************************)
EXTENDS Msgq, Iacp, SequencesExt

CONSTANTS Depth,      \* buffers: qdepth
          MaxPkt,     \* bound: packets
          MaxFaults   \* bound: faults

ASSUME PushAssumption == Depth \in Nat \ {0} /\ MaxPkt \in Nat /\ MaxFaults \in Nat

\* Every connection but the last has ended by a fault.
Conn == 1..(MaxFaults + 1)
Pkt == 1..MaxPkt

VARIABLES
  ph,           \* ISI_PUSH, but for the queue, and the handle iacpConnect works on
  heap, full,   \* its queue
  app,          \* the application: the packet it has, and where it is in the library
  pusher,       \* PacketThread: where it is and the frame it has
  conn,         \* the connections; the packet server's threads have no state but these
  proc,         \* "live", or how the pushing process ended
  faults,       \* faults so far, for the bound
  sent,         \* history: the packets iacpSendFrame has sent, by connection
  got,          \* history: those stored at the other end, by connection
  lost          \* history: the packets given up on this side

client == <<ph, heap, full, app, pusher, proc>>
history == <<sent, got, lost>>
vars == <<client, conn, faults, history>>

NULL == 0
WILD == -1   \* whatever malloc returned

\* isiPushInit.  It does not set ph->iacp: what malloc returns decides.
Init ==
  /\ ph \in [iacp : {NULL, WILD}, block : BOOLEAN, at_retry : BOOLEAN,
             disabled : {FALSE}, made : {0}, poisoned : {FALSE}]
  /\ heap = FilledQueue(Depth, NOP) /\ full = EmptyQueue
  /\ app = [at |-> "idle", pkt |-> 1]
  /\ pusher = [at |-> "send", frame |-> NOP, part |-> 1]
  /\ conn = [c \in Conn |-> NoConn]
  /\ proc = "live" /\ faults = 0
  /\ sent = [c \in Conn |-> <<>>] /\ got = [c \in Conn |-> <<>>] /\ lost = {}

Fault == faults < MaxFaults /\ faults' = faults + 1

-----------------------------------------------------------------------------
(* isiPushRawPacket.                                                         *)

AppAt(from) == proc = "live" /\ app.at = from
AppTo(to) == app' = [app EXCEPT !.at = to]
Ready == [at |-> "ready", frame |-> NOP, part |-> 1]   \* PacketThread, waiting
NextPkt == app' = [at |-> "idle", pkt |-> app.pkt + 1]

Call ==
  /\ AppAt("idle") /\ app.pkt \in Pkt
  /\ AppTo("heap")
  /\ UNCHANGED <<ph, heap, full, pusher, proc, conn, faults, history>>

\* The heap's semaphore: passed, waited for, or found at zero.
WaitHeap ==
  /\ AppAt("heap")
  /\ \/ Available(heap) /\ heap' = Passed(heap) /\ AppTo("popheap")
     \/ ~Available(heap) /\ ~ph.block /\ AppTo("steal") /\ UNCHANGED heap
  /\ UNCHANGED <<ph, full, pusher, proc, conn, faults, history>>

\* The full queue's: if that is empty, too, there is no room for the packet.
TrySteal ==
  /\ AppAt("steal")
  /\ \/ Available(full) /\ full' = Passed(full) /\ AppTo("popfull") /\ UNCHANGED lost
     \/ ~Available(full) /\ NextPkt /\ lost' = lost \cup {app.pkt} /\ UNCHANGED full
  /\ UNCHANGED <<ph, heap, pusher, proc, conn, faults, sent, got>>

PopHeap ==
  /\ AppAt("popheap")
  /\ IF Hosed(heap) THEN proc' = "aborted" /\ UNCHANGED <<heap, app>>
                    ELSE heap' = Popped(heap) /\ AppTo("put") /\ UNCHANGED proc
  /\ UNCHANGED <<ph, full, pusher, conn, faults, history>>

\* The packet that was in the buffer is gone.
PopFull ==
  /\ AppAt("popfull")
  /\ IF Hosed(full)
       THEN proc' = "aborted" /\ UNCHANGED <<full, app, lost>>
       ELSE /\ full' = Popped(full) /\ AppTo("put")
            /\ lost' = lost \cup {Head(full.list)}
            /\ UNCHANGED proc
  /\ UNCHANGED <<ph, heap, pusher, conn, faults, sent, got>>

Put ==
  /\ AppAt("put")
  /\ full' = msgqPut(full, app.pkt) /\ NextPkt
  /\ UNCHANGED <<ph, heap, pusher, proc, conn, faults, history>>

\* The input has ended, or a signal has come: nothing waits for the queue, which
\* goes with the process.
CloseAll == [c \in Conn |-> Closed(conn[c])]
Exit ==
  /\ AppAt("idle")
  /\ proc' = "exited" /\ conn' = CloseAll
  /\ heap' = EmptyQueue /\ full' = EmptyQueue /\ pusher' = Ready
  /\ UNCHANGED <<ph, app, faults, history>>

App == WaitHeap \/ TrySteal \/ PopHeap \/ PopFull \/ Put

-----------------------------------------------------------------------------
(* PacketThread and SendFrame.                                               *)

PusherAt(from) == proc = "live" /\ pusher.at = from
PusherTo(to) == pusher' = [pusher EXCEPT !.at = to]

TryFull ==
  /\ PusherAt("ready") /\ Available(full)
  /\ full' = Passed(full) /\ PusherTo("pop")
  /\ UNCHANGED <<ph, heap, app, proc, conn, faults, history>>

\* The heartbeat timer has expired.
Beat ==
  /\ PusherAt("ready") /\ ~Available(full)
  /\ pusher' = [at |-> "send", frame |-> NOP, part |-> 1]
  /\ UNCHANGED <<ph, heap, full, app, proc, conn, faults, history>>

TakeFull ==
  /\ PusherAt("pop")
  /\ IF Hosed(full)
       THEN proc' = "aborted" /\ UNCHANGED <<full, pusher>>
       ELSE /\ full' = Popped(full)
            /\ pusher' = [at |-> "send", frame |-> Head(full.list), part |-> 1]
            /\ UNCHANGED proc
  /\ UNCHANGED <<ph, heap, app, conn, faults, history>>

\* The frame is not tried again: "while (!ph->disabled && !sent)" is left by a
\* break.
GivenUp == lost' = IF pusher.frame = NOP THEN lost ELSE lost \cup {pusher.frame}

SendFrame ==
  /\ PusherAt("send")
  /\ \/ ph.disabled /\ PusherTo("done") /\ GivenUp /\ UNCHANGED proc
     \/ /\ ~ph.disabled /\ UNCHANGED lost
        /\ \/ ph.iacp = NULL /\ PusherTo("connect") /\ UNCHANGED proc
           \/ ph.iacp \in Conn /\ PusherTo("write") /\ UNCHANGED proc
           \/ ph.iacp = WILD /\ proc' = "crashed" /\ UNCHANGED pusher
  /\ UNCHANGED <<ph, heap, full, app, conn, faults, sent, got>>

\* SendFrame when it has no connection any more.
Disconnected(handle) ==
  [handle EXCEPT !.iacp = NULL, !.poisoned = FALSE, !.disabled = ~handle.at_retry]

\* iacpConnect, and iacpAccept at the other end.  That a transient error makes
\* it try again is a step that changes nothing.
Connect ==
  /\ PusherAt("connect") /\ ~ph.poisoned
  /\ ph' = [ph EXCEPT !.iacp = ph.made + 1, !.made = @ + 1]
  /\ conn' = [conn EXCEPT ![ph.made + 1] = Opened]
  /\ PusherTo("write")
  /\ UNCHANGED <<heap, full, app, proc, faults, history>>

\* The handshake cannot be sent: the handle is disabled, and stays so while the
\* connection is tried again with it.
HandshakeFails ==
  /\ PusherAt("connect") /\ ~ph.poisoned /\ ph.at_retry
  /\ ph' = [ph EXCEPT !.poisoned = TRUE]
  /\ UNCHANGED <<heap, full, app, pusher, proc, conn, faults, history>>

\* A fatal error, or any if at_retry is not set.
ConnectFails ==
  /\ PusherAt("connect")
  /\ ph' = Disconnected(ph)
  /\ PusherTo("done") /\ GivenUp
  /\ UNCHANGED <<heap, full, app, proc, conn, faults, sent, got>>

\* iacpSendFrame.
WritePiece ==
  LET c == ph.iacp
      last == pusher.part = Len(Parts(pusher.frame))
  IN  /\ PusherAt("write") /\ CanWrite(conn[c])
      /\ conn' = [conn EXCEPT ![c] = Written(@, Piece(pusher.frame, pusher.part))]
      /\ IF last THEN PusherTo("done") ELSE pusher' = [pusher EXCEPT !.part = @ + 1]
      /\ sent' = IF last /\ pusher.frame /= NOP
                   THEN [sent EXCEPT ![c] = Append(@, pusher.frame)] ELSE sent
      /\ UNCHANGED <<ph, heap, full, app, proc, faults, got, lost>>

StaysConnected == UNCHANGED <<ph, conn>>
AfterFailure == ph' = Disconnected(ph) /\ conn' = [conn EXCEPT ![ph.iacp] = Closed(@)]

\* A thread at the other end that reads, but too slowly, is a fault.
WriteFails ==
  LET c == conn[ph.iacp]
  IN  /\ PusherAt("write") /\ CanFail(c)
      /\ IF c.server \in {"recv", "write"} /\ ~c.cut THEN Fault ELSE UNCHANGED faults
      /\ AfterFailure
      /\ PusherTo("done") /\ GivenUp
      /\ UNCHANGED <<heap, full, app, proc, sent, got>>

KeepsBuffer == UNCHANGED heap
ReturnBuffer == heap' = IF pusher.frame = NOP THEN heap ELSE msgqPut(heap, NOP)

Done ==
  /\ PusherAt("done")
  /\ ReturnBuffer
  /\ pusher' = Ready
  /\ UNCHANGED <<ph, full, app, proc, conn, faults, history>>

Pusher ==
  \/ TryFull \/ Beat \/ TakeFull \/ SendFrame \/ Connect \/ HandshakeFails
  \/ ConnectFails \/ WritePiece \/ WriteFails \/ Done

-----------------------------------------------------------------------------
(* ClientThread of the packet server, one for each connection.               *)

ClientKeeps == UNCHANGED <<client, sent, lost>>

Becomes(c, new) == conn' = [conn EXCEPT ![c] = new]

ReadPiece(c) ==
  LET new == Take(conn[c])
  IN  /\ CanRead(conn[c])
      /\ Becomes(c, CASE NoTag(conn[c]) -> Dropped(conn[c])
                      [] ~NoTag(conn[c]) /\ ~Complete(new) -> new
                      [] ~NoTag(conn[c]) /\ Complete(new) ->
                           IF Frame(new) = NOP THEN [new EXCEPT !.in = <<>>]
                                               ELSE [new EXCEPT !.server = "write"])
      /\ ClientKeeps /\ UNCHANGED <<faults, got>>

\* The connection is closed, reset, or silent for too long.
ReadFails(c) ==
  /\ \/ CanEnd(conn[c]) /\ UNCHANGED faults
     \/ conn[c].server = "recv" /\ ~CanEnd(conn[c]) /\ conn[c].wire = <<>> /\ Fault
  /\ Becomes(c, Dropped(conn[c]))
  /\ ClientKeeps /\ UNCHANGED got

\* WritePacketToDisk, whose mutex makes the threads take turns.
WritePacketToDisk(c) ==
  /\ conn[c].server = "write"
  /\ got' = [got EXCEPT ![c] = Append(@, Frame(conn[c]))]
  /\ Becomes(c, [conn[c] EXCEPT !.server = "recv", !.in = <<>>])
  /\ ClientKeeps /\ UNCHANGED faults

\* The thread ends without closing the connection.
StoreFails(c) ==
  /\ conn[c].server = "write"
  /\ Fault
  /\ Becomes(c, [conn[c] EXCEPT !.server = "exited", !.in = <<>>])
  /\ ClientKeeps /\ UNCHANGED got

ClientThread(c) == ReadPiece(c) \/ ReadFails(c) \/ WritePacketToDisk(c) \/ StoreFails(c)

\* Nothing gets through any more, nor does the end of what was on its way.
Break(c) ==
  /\ conn[c].server \in {"recv", "write", "exited"} /\ ~conn[c].cut
  /\ Fault
  /\ \E n \in 0..Len(conn[c].wire) :
       Becomes(c, [conn[c] EXCEPT !.cut = TRUE, !.wire = SubSeq(@, 1, n)])
  /\ ClientKeeps /\ UNCHANGED got

-----------------------------------------------------------------------------
Next ==
  \/ Call \/ App \/ Exit
  \/ Pusher
  \/ \E c \in Conn : ClientThread(c) \/ Break(c)

Spec == Init /\ [][Next]_vars

\* Every thread that has something to do gets to it; an unreachable server is
\* reached in the end, a timeout comes.
FairSpec ==
  /\ Spec
  /\ WF_vars(App) /\ WF_vars(Pusher)
  /\ \A c \in Conn : WF_vars(ClientThread(c))

-----------------------------------------------------------------------------
(* Properties.                                                               *)

\* What a connection has stored is what was sent on it, from the first packet
\* on: whole, in order, nothing twice and nothing whose sending was reported as
\* failed.  No packet is sent on two connections.
ArrivesAsSent ==
  /\ \A c \in Conn : IsPrefix(got[c], sent[c])
  /\ \A c, d \in Conn : c /= d => ToSet(sent[c]) \cap ToSet(sent[d]) = {}

\* Whoever got past a queue's semaphore finds a message, also while packets are
\* stolen from the thread that sends them.
NeverHosed == proc /= "aborted"

\* A broken connection, or one whose thread has ended: nobody knows what became
\* of the packets on it.
Severed(c) == conn[c].cut \/ conn[c].server \in {"closed", "exited"}

\* A handle that iacpConnect tries again with although it is disabled.
Stuck == pusher.at = "connect" /\ ph.poisoned

\* Every packet is stored, or overwritten in a full queue, or the one that was
\* in hand when connecting or sending failed, or was sent on a connection that
\* broke; and the application is not kept waiting.
Pushed ==
  \A p \in Pkt :
    app.at /= "idle" /\ app.pkt = p ~>
      \/ p \in lost
      \/ \E c \in Conn : p \in ToSet(got[c]) \/ (p \in ToSet(sent[c]) /\ Severed(c))
      \/ proc /= "live" \/ Stuck
=============================================================================
