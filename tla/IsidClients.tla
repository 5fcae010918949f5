---------------------------- MODULE IsidClients -----------------------------
(***************************************************************************)
(* The clients of the disk loop server (src/bin/isid/main.c, echo.c,       *)
(* service.c, client.c, respond.c, report.c, die.c): two listeners accept  *)
(* connections, find each a CLIENT in one shared list and leave a thread   *)
(* behind that collects the parts of a request, serves it, and clears the  *)
(* CLIENT for the next one; the status server looks at all of them; a      *)
(* mutex that is never released again tells that the server is going down. *)
(*                                                                         *)
(* client->finished is where a thread is: it alone reads it.  Frames are   *)
(* always verified (iacpVerifyFrame).  How a request is served is module   *)
(* IsidSeqno; what alerts say, and whether they are sent, is left out.     *)
(***************************************************************************)
EXTENDS Integers, Sequences

CONSTANTS Conn,      \* connections, one per peer
          NumSlots,  \* maxclient
          MaxMsgs,   \* bound: parts and options a peer sends
          MayFail    \* may THREAD_CREATE fail?

VARIABLES
  peer,       \* is the peer there?
  handle,     \* IACP: free, open or closed
  gate,       \* the mutex of die.c: open, or locked for good
  listener,   \* the two accepting threads
  client,     \* ClientList
  thread,     \* the service thread of each connection
  report,     \* the status server
  overlap     \* history: those given a CLIENT that was still being cleared

vars == <<peer, handle, gate, listener, client, thread, report, overlap>>

None == "none"

\* There is a CLIENT; a connection is not the absence of one.
ASSUME ClientsAssumption ==
  /\ NumSlots \in Nat \ {0} /\ MaxMsgs \in Nat /\ MayFail \in BOOLEAN
  /\ None \notin Conn

Listener == {"main", "echo"}
Slot == 1..NumSlots

Unused == [iacp |-> None, type |-> None, list |-> <<>>, opts |-> {}]

Idle == [at |-> "block", iacp |-> None, slot |-> 1]
NoThread == [at |-> None, slot |-> 0, kind |-> None, frames |-> 0,
             asked |-> 0, opts |-> {}, serves |-> <<>>]
NoReport == [slot |-> 0, iacp |-> None]

\* InitClientList.
Init ==
  /\ peer = [c \in Conn |-> "there"]
  /\ handle = [c \in Conn |-> "free"]
  /\ gate = "open"
  /\ listener = [l \in Listener |-> Idle]
  /\ client = [s \in Slot |-> Unused]
  /\ thread = [c \in Conn |-> NoThread]
  /\ report = NoReport
  /\ overlap = {}

clients == <<client, thread, overlap>>

Listen(l, at) == listener' = [listener EXCEPT ![l].at = at]
ListenAgain(l) == listener' = [listener EXCEPT ![l] = Idle]
Go(c, at) == thread' = [thread EXCEPT ![c].at = at]

-----------------------------------------------------------------------------
(* die.c: the listeners pass a gate that is shut at the end.                  *)

\* BlockOnShutdown, which the main thread calls once more for each connection.
\* It locks and unlocks the mutex.
BlockOnShutdown(l) ==
  /\ listener[l].at \in {"block", "block2"} /\ gate = "open"
  /\ Listen(l, IF listener[l].at = "block" THEN "accept" ELSE "scan")
  /\ UNCHANGED <<peer, handle, gate, clients, report>>

\* iacpDisconnect: the handle is closed if the alert could be sent.
Disconnect(c) ==
  \/ handle' = [handle EXCEPT ![c] = "closed"]
  \/ peer[c] = "gone" /\ UNCHANGED handle

\* MUTEX_TRYLOCK fails for good, or for the moment another listener has the mutex.
TryLock(l) == gate = "open"
TryLockFails(l) ==
  \/ gate = "exit"
  \/ \E other \in Listener \ {l} : listener[other].at \in {"block", "block2", "try"}

\* ShutdownInProgress.
ShutdownInProgress(l) ==
  /\ listener[l].at = "try"
  /\ \/ /\ TryLock(l)
        /\ Listen(l, IF l = "main" THEN "block2" ELSE "scan")
        /\ UNCHANGED handle
     \/ TryLockFails(l) /\ Disconnect(listener[l].iacp) /\ ListenAgain(l)
  /\ UNCHANGED <<peer, gate, clients, report>>

\* A signal: the process ends, with its threads and its connections.
GracefulExit ==
  /\ gate = "open"
  /\ gate' = "exit"
  /\ handle' = [c \in Conn |-> "closed"]
  /\ listener' = [l \in Listener |-> Idle]
  /\ client' = [s \in Slot |-> Unused]
  /\ thread' = [c \in Conn |-> NoThread]
  /\ report' = NoReport
  /\ UNCHANGED <<peer, overlap>>

-----------------------------------------------------------------------------
(* Accepting a connection.                                                    *)

\* iacpAccept; a connection whose handshake fails is closed.
Accept(l, c) ==
  /\ listener[l].at = "accept" /\ handle[c] = "free"
  /\ \/ /\ handle' = [handle EXCEPT ![c] = "open"]
        /\ listener' = [listener EXCEPT ![l] = [at |-> "try", iacp |-> c, slot |-> 1]]
     \/ handle' = [handle EXCEPT ![c] = "closed"] /\ ListenAgain(l)
  /\ UNCHANGED <<peer, gate, clients, report>>

\* The status server holds the mutex of the CLIENT it reports on.
Locked(s) == report.slot = s

Clearing(s) == \E c \in Conn : thread[c].slot = s /\ thread[c].at \in {"reset", "clear"}

\* NextAvailableClient, one CLIENT after the other.
NextAvailableClient(l) ==
  LET s == listener[l].slot
      c == listener[l].iacp
  IN  /\ listener[l].at = "scan" /\ s \in Slot /\ ~Locked(s)
      /\ \/ /\ client[s].iacp = None
            /\ client' = [client EXCEPT ![s].iacp = c]
            /\ overlap' = IF Clearing(s) THEN overlap \cup {c} ELSE overlap
            /\ Listen(l, "create")
         \/ /\ client[s].iacp # None
            /\ listener' = [listener EXCEPT ![l].slot = s + 1]
            /\ UNCHANGED <<client, overlap>>
      /\ UNCHANGED <<peer, handle, gate, thread, report>>

\* "threshold reached".
Reject(l) ==
  /\ listener[l].at = "scan" /\ listener[l].slot > NumSlots
  /\ Disconnect(listener[l].iacp)
  /\ ListenAgain(l)
  /\ UNCHANGED <<peer, gate, clients, report>>

\* The thread is started, or the connection is broken and the CLIENT stays taken.
ThreadCreate(l) ==
  LET c == listener[l].iacp
  IN  /\ listener[l].at = "create"
      /\ \/ /\ thread' = [thread EXCEPT ![c].at = "recv", ![c].kind = l,
                                        ![c].slot = listener[l].slot]
            /\ UNCHANGED handle
         \/ MayFail /\ Disconnect(c) /\ UNCHANGED thread
      /\ ListenAgain(l)
      /\ UNCHANGED <<peer, gate, client, report, overlap>>

-----------------------------------------------------------------------------
(* A service thread.                                                          *)

\* What the peer may send; ISI_IACP_REQ_TWIND and _SEQNO are parts of requests,
\* the codes and stream names among "option" too.
Part == {"twind", "seqno"}
Frame == Part \cup {"alert", "null", "simple", "option", "unknown"}

\* SetTwindRequest and SetSeqnoRequest: parts of one type only.
AnyPart(s, type) == TRUE
SameType(s, type) == client[s].list = <<>> \/ client[s].type = type

\* RespondToClientMessage.  Options and parts keep the connection, and a
\* complete request is served; anything else is the end.
RespondToClientMessage(c, type) ==
  LET s == thread[c].slot
  IN  \/ /\ type = "option"
         /\ client' = [client EXCEPT ![s].opts = @ \cup {c}]
         /\ thread' = [thread EXCEPT ![c].opts = {c}, ![c].frames = @ + 1]
      \/ /\ type \in Part /\ SameType(s, type)
         /\ client' = [client EXCEPT ![s].type = type, ![s].list = Append(@, <<c, type>>)]
         /\ thread' = [thread EXCEPT ![c].asked = @ + 1, ![c].frames = @ + 1]
      \/ /\ type = "null" /\ client[s].list # <<>>
         /\ thread' = [thread EXCEPT ![c].at = "serving", ![c].serves = client[s].list]
         /\ UNCHANGED client
      \/ /\ type = "null" /\ client[s].list = <<>> /\ Go(c, "close") /\ UNCHANGED client
      \/ /\ type \in Part /\ ~SameType(s, type) /\ Go(c, "close") /\ UNCHANGED client
      \/ /\ type \in {"alert", "simple", "unknown"} /\ Go(c, "close") /\ UNCHANGED client

\* EchoClientThread sends every frame back, which changes nothing here, and ends
\* with a disconnect.
Echo(c, type) == type = "alert" /\ Go(c, "close") /\ UNCHANGED client

ReceiveFrame(c, type) ==
  /\ thread[c].at = "recv"
  /\ peer[c] = "there"
  /\ type \in Part \cup {"option"} => thread[c].frames < MaxMsgs
  /\ IF thread[c].kind = "main" THEN RespondToClientMessage(c, type) ELSE Echo(c, type)
  /\ UNCHANGED <<peer, handle, gate, listener, report, overlap>>

\* iacpRecvFrame fails: the peer is gone or has been silent for too long.
TriesAgain(c) == thread[c].at = "recv" /\ UNCHANGED vars
ReceiveFails(c) ==
  /\ thread[c].at = "recv"
  /\ Go(c, "close")
  /\ UNCHANGED <<peer, handle, gate, listener, client, report, overlap>>

\* ProcessTwindRequest and ProcessSeqnoRequest: until everything is sent, or
\* data or a heartbeat cannot be sent.
ServeEnds(c) ==
  /\ thread[c].at = "serving"
  /\ client' = [client EXCEPT ![thread[c].slot].list = <<>>]
  /\ Go(c, "close")
  /\ UNCHANGED <<peer, handle, gate, listener, report, overlap>>

-----------------------------------------------------------------------------
(* CloseClientConnection, without the CLIENT's mutex.                         *)

\* iacpClose.
CloseConnection(c) ==
  /\ thread[c].at = "close"
  /\ handle' = [handle EXCEPT ![client[thread[c].slot].iacp] = "closed"]
  /\ Go(c, "unlink")
  /\ UNCHANGED <<peer, gate, listener, client, report, overlap>>

\* From here on the CLIENT can be taken.
Unlink(c) ==
  /\ thread[c].at = "unlink"
  /\ client' = [client EXCEPT ![thread[c].slot].iacp = None]
  /\ Go(c, "reset")
  /\ UNCHANGED <<peer, handle, gate, listener, report, overlap>>

\* iacpResetIncoming.
Emptied(r) == [r EXCEPT !.type = None, !.list = <<>>]
ResetIncoming(c) ==
  /\ thread[c].at = "reset"
  /\ client' = [client EXCEPT ![thread[c].slot] = Emptied(@)]
  /\ Go(c, "clear")
  /\ UNCHANGED <<peer, handle, gate, listener, report, overlap>>

KeepsNothing(r) == Unused
Cleared(r) == [r EXCEPT !.opts = {}]

\* isiClearDataRequest, last and history.
ClearDataRequest(c) ==
  /\ thread[c].at = "clear"
  /\ client' = [client EXCEPT ![thread[c].slot] = Cleared(@)]
  /\ thread' = [thread EXCEPT ![c] = [NoThread EXCEPT !.at = "done"]]
  /\ UNCHANGED <<peer, handle, gate, listener, report, overlap>>

-----------------------------------------------------------------------------
(* The status server, and the peers.                                          *)

\* PrintActiveClientReport takes the mutex of each CLIENT in turn.
LookAtClient(s) ==
  /\ report = NoReport /\ client[s].iacp # None
  /\ report' = [slot |-> s, iacp |-> client[s].iacp]
  /\ UNCHANGED <<peer, handle, gate, listener, clients>>

Returns == report # NoReport /\ UNCHANGED vars
ClientReport ==
  /\ report # NoReport
  /\ report' = NoReport
  /\ UNCHANGED <<peer, handle, gate, listener, clients>>

PeerGoes(c) ==
  /\ peer[c] = "there" /\ handle[c] # "closed"
  /\ peer' = [peer EXCEPT ![c] = "gone"]
  /\ UNCHANGED <<handle, gate, listener, clients, report>>

-----------------------------------------------------------------------------
Listens(l) ==
  \/ BlockOnShutdown(l) \/ ShutdownInProgress(l)
  \/ NextAvailableClient(l) \/ Reject(l) \/ ThreadCreate(l)

Closes(c) == CloseConnection(c) \/ Unlink(c) \/ ResetIncoming(c) \/ ClearDataRequest(c)

Next ==
  \/ \E l \in Listener : Listens(l) \/ \E c \in Conn : Accept(l, c)
  \/ \E c \in Conn : \/ \E type \in Frame : ReceiveFrame(c, type)
                     \/ ReceiveFails(c) \/ ServeEnds(c) \/ Closes(c) \/ PeerGoes(c)
  \/ (\E s \in Slot : LookAtClient(s)) \/ ClientReport \/ GracefulExit

Spec == Init /\ [][Next]_vars

\* Threads run; a receive ends by the timeout, and sending to a peer that is
\* gone fails some time.
FairSpec ==
  /\ Spec
  /\ \A l \in Listener : SF_vars(Listens(l))
  /\ \A c \in Conn :
       /\ WF_vars(ReceiveFails(c)) /\ WF_vars(Closes(c))
       /\ WF_vars(peer[c] = "gone" /\ ServeEnds(c))
  /\ WF_vars(ClientReport)

-----------------------------------------------------------------------------
(* Properties.                                                                *)

\* A client is served what it asked for, no more and no less: the parts of its
\* request, of one type, with the options it has set and no one else's.  Not so
\* one that was given a CLIENT whose last thread had not cleared it yet.
OwnRequest ==
  \A c \in Conn \ overlap :
    thread[c].at = "serving" =>
      /\ Len(thread[c].serves) = thread[c].asked
      /\ \E type \in Part : \A i \in DOMAIN thread[c].serves : thread[c].serves[i] = <<c, type>>
      /\ client[thread[c].slot].opts = thread[c].opts

\* A thread that receives or serves has its connection open, and its CLIENT for
\* itself.  The status server reads a closed handle only while the thread is
\* about to take it out of the CLIENT, or if there never was one.
OpenWhileUsed ==
  /\ \A c \in Conn :
       thread[c].at \in {"recv", "serving"} =>
         handle[c] = "open" /\ client[thread[c].slot].iacp = c
  /\ report.iacp # None /\ handle[report.iacp] = "closed" =>
       thread[report.iacp].at \notin {"recv", "serving", "close"}

\* When the peer of a connection goes, its thread ends, the handle is closed and
\* a CLIENT is free for another.
Reclaimed ==
  \A c \in Conn :
    peer[c] = "gone" /\ thread[c].at # None
      ~> (handle[c] = "closed" /\ \A s \in Slot : client[s].iacp # c)

\* A listener comes back to accept, whatever the clients do.
KeepsListening == \A l \in Listener : []<>(gate = "exit" \/ listener[l].at = "accept")
=============================================================================
