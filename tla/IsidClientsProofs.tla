-------------------------- MODULE IsidClientsProofs --------------------------
(***************************************************************************)
(* Proofs about IsidClients for any number of connections and CLIENTs: a   *)
(* thread that receives or serves has its connection open and its CLIENT   *)
(* for itself, and serves the request of its own peer, although a CLIENT   *)
(* is given away before it is cleared.                                     *)
(***************************************************************************)
EXTENDS IsidClients, TLAPS

(***************************************************************************)
(* The invariant.                                                          *)
(***************************************************************************)
Phase == {None, "recv", "serving", "close", "unlink", "reset", "clear", "done"}
ThreadType == [at : Phase, slot : 0..NumSlots, kind : Listener \cup {None},
               frames : Nat, asked : Nat, opts : SUBSET Conn,
               serves : Seq(Conn \X Part)]
ListenerType == [at : {"block", "accept", "try", "block2", "scan", "create"},
                 iacp : Conn \cup {None}, slot : Nat \ {0}]
ClientType == [iacp : Conn \cup {None}, type : Part \cup {None},
               list : Seq(Conn \X Part), opts : SUBSET Conn]
ReportType == [slot : 0..NumSlots, iacp : Conn \cup {None}]

TypeOK ==
  /\ handle \in [Conn -> {"free", "open", "closed"}]
  /\ listener \in [Listener -> ListenerType]
  /\ client \in [Slot -> ClientType]
  /\ thread \in [Conn -> ThreadType]
  /\ report \in ReportType
  /\ overlap \subseteq Conn

\* A listener between accept and THREAD_CREATE has the connection to itself, and
\* in the end the CLIENT it has found.
Held(l) == listener[l].at \in {"try", "block2", "scan", "create"}
HeldInv ==
  /\ \A l \in Listener : Held(l) =>
       /\ listener[l].iacp \in Conn
       /\ handle[listener[l].iacp] = "open"
       /\ thread[listener[l].iacp] = NoThread
  /\ \A l, m \in Listener :
       Held(l) /\ Held(m) /\ listener[l].iacp = listener[m].iacp => l = m
  /\ \A l \in Listener : listener[l].at = "create" =>
       /\ listener[l].slot \in Slot
       /\ client[listener[l].slot].iacp = listener[l].iacp

\* Until it has unlinked its CLIENT, a thread owns it, and until it has closed
\* the connection, that is open.
Owns(c) == thread[c].at \in {"recv", "serving", "close", "unlink"}
ThreadInv ==
  \A c \in Conn :
    /\ Owns(c) => thread[c].slot \in Slot /\ client[thread[c].slot].iacp = c
    /\ thread[c].at \in {"recv", "serving", "close"} => handle[c] = "open"
    /\ thread[c].at \in {"reset", "clear"} => thread[c].slot \in Slot
    /\ handle[c] = "free" => thread[c] = NoThread

\* A CLIENT that is being cleared is free, or given to one of overlap.
OverlapInv ==
  \A s \in Slot :
    Clearing(s) /\ client[s].iacp # None => client[s].iacp \in overlap

\* What is left in a free CLIENT is still to be cleared: parts by a thread before
\* iacpResetIncoming, options by one before isiClearDataRequest.
Resetting(s) == \E c \in Conn : thread[c].slot = s /\ thread[c].at = "reset"
LeftInv ==
  \A s \in Slot :
    client[s].iacp = None =>
      (client[s].list = <<>> \/ Resetting(s)) /\ (client[s].opts = {} \/ Clearing(s))

\* A CLIENT given to a connection not in overlap is empty.
FreshInv ==
  \A l \in Listener :
    listener[l].at = "create" /\ listener[l].iacp \notin overlap =>
      client[listener[l].slot].list = <<>> /\ client[listener[l].slot].opts = {}

\* What a request holds while its peer still sends parts and options.
Gathered(c, r, t) ==
  /\ Len(r.list) = t.asked
  /\ \A i \in DOMAIN r.list : r.list[i] = <<c, r.type>>
  /\ r.list # <<>> => r.type \in Part
  /\ r.opts = t.opts
  /\ t.opts \subseteq {c}
AskInv ==
  \A c \in Conn \ overlap :
    thread[c].at = "recv" => Gathered(c, client[thread[c].slot], thread[c])

\* And while it is served.
Served(c, r, t) ==
  /\ Len(t.serves) = t.asked
  /\ \E type \in Part : \A i \in DOMAIN t.serves : t.serves[i] = <<c, type>>
  /\ r.opts = t.opts
ServeInv ==
  \A c \in Conn \ overlap :
    thread[c].at = "serving" => Served(c, client[thread[c].slot], thread[c])

IInv ==
  /\ TypeOK /\ HeldInv /\ ThreadInv
  /\ OverlapInv /\ LeftInv /\ FreshInv /\ AskInv /\ ServeInv

-----------------------------------------------------------------------------
(***************************************************************************)
(* What the helpers of the model write.                                    *)
(***************************************************************************)
LEMMA Nobody == None \notin Conn
BY ClientsAssumption

\* A thread goes on, and nothing else of it or of another changes.
LEMMA Goes ==
  ASSUME TypeOK, NEW c \in Conn, NEW at \in Phase, Go(c, at)
  PROVE  /\ thread' \in [Conn -> ThreadType]
         /\ thread'[c].at = at
         /\ thread'[c].slot = thread[c].slot
         /\ thread'[c].asked = thread[c].asked
         /\ thread'[c].opts = thread[c].opts
         /\ thread'[c].serves = thread[c].serves
         /\ \A d \in Conn \ {c} : thread'[d] = thread[d]
<1>1. thread \in [Conn -> ThreadType] /\ thread' = [thread EXCEPT ![c].at = at]
      BY DEF TypeOK, Go
<1>2. [thread[c] EXCEPT !.at = at] \in ThreadType
  <2> DEFINE S == Seq(Conn \X Part)
  <2>1. thread[c] \in [at : Phase, slot : 0..NumSlots, kind : Listener \cup {None},
                       frames : Nat, asked : Nat, opts : SUBSET Conn, serves : S]
        BY <1>1 DEF ThreadType
  <2> HIDE DEF S
  <2>2. [thread[c] EXCEPT !.at = at]
          \in [at : Phase, slot : 0..NumSlots, kind : Listener \cup {None},
              frames : Nat, asked : Nat, opts : SUBSET Conn, serves : S]
        BY <2>1
  <2> QED  BY <2>2 DEF ThreadType, S
<1>3. /\ thread'[c] = [thread[c] EXCEPT !.at = at]
      /\ \A d \in Conn \ {c} : thread'[d] = thread[d]
      BY <1>1
<1>4. thread' \in [Conn -> ThreadType]  BY <1>1, <1>2
<1>5. thread[c] \in ThreadType  BY <1>1
<1>6. /\ thread'[c].at = at
      /\ thread'[c].slot = thread[c].slot
      /\ thread'[c].asked = thread[c].asked
      /\ thread'[c].opts = thread[c].opts
      /\ thread'[c].serves = thread[c].serves
      BY <1>3, <1>5 DEF ThreadType
<1> QED  BY <1>3, <1>4, <1>6

\* The same of a listener.
LEMMA ListenerGoes ==
  ASSUME TypeOK, NEW l \in Listener,
         NEW at \in {"block", "accept", "try", "block2", "scan", "create"},
         Listen(l, at)
  PROVE  /\ listener' \in [Listener -> ListenerType]
         /\ listener'[l].at = at
         /\ listener'[l].iacp = listener[l].iacp
         /\ listener'[l].slot = listener[l].slot
         /\ \A m \in Listener \ {l} : listener'[m] = listener[m]
BY DEF TypeOK, Listen, ListenerType

LEMMA ListenerIdle ==
  ASSUME TypeOK, NEW l \in Listener, ListenAgain(l)
  PROVE  /\ listener' \in [Listener -> ListenerType]
         /\ listener'[l] = Idle
         /\ listener'[l].at = "block"
         /\ \A m \in Listener \ {l} : listener'[m] = listener[m]
BY DEF TypeOK, ListenAgain, ListenerType, Idle

\* Only the handle of c may be closed.
LEMMA Disconnects ==
  ASSUME TypeOK, NEW c \in Conn, Disconnect(c)
  PROVE  /\ handle' \in [Conn -> {"free", "open", "closed"}]
         /\ handle'[c] = "free" => handle[c] = "free"
         /\ \A d \in Conn \ {c} : handle'[d] = handle[d]
BY DEF TypeOK, Disconnect

LEMMA NoThreadType ==
  /\ NoThread \in ThreadType
  /\ NoThread.at = None
  /\ NoThread.slot = 0
  /\ NoThread.asked = 0
  /\ NoThread.opts = {}
BY ClientsAssumption DEF NoThread, ThreadType, Phase

LEMMA UnusedType ==
  /\ Unused \in ClientType
  /\ Unused.iacp = None
  /\ Unused.list = <<>>
  /\ Unused.opts = {}
BY DEF Unused, ClientType

-----------------------------------------------------------------------------
(***************************************************************************)
(* The listeners.                                                          *)
(***************************************************************************)
LEMMA InitOK == Init => IInv
<1> SUFFICES ASSUME Init PROVE IInv  OBVIOUS
<1>1. TypeOK
      BY NoThreadType, UnusedType, ClientsAssumption
      DEF Init, TypeOK, ListenerType, Idle, ReportType, NoReport
<1>2. \A c \in Conn : thread[c].at = None  BY NoThreadType DEF Init
<1>3. \A l \in Listener : listener[l].at = "block"  BY DEF Init, Idle
<1>4. HeldInv  BY <1>3 DEF HeldInv, Held
<1>5. ThreadInv  BY <1>2 DEF Init, ThreadInv, Owns, None
<1>6. \A s \in Slot : ~Clearing(s)  BY <1>2 DEF Clearing, None
<1>7. OverlapInv /\ LeftInv  BY <1>6, UnusedType DEF Init, OverlapInv, LeftInv
<1>8. FreshInv /\ AskInv /\ ServeInv
      BY <1>2, <1>3 DEF FreshInv, AskInv, ServeInv, None
<1> QED  BY <1>1, <1>4, <1>5, <1>7, <1>8 DEF IInv

\* A step that changes nothing the invariant speaks of.
LEMMA NothingSaid ==
  ASSUME IInv, UNCHANGED <<handle, listener, client, thread, overlap>>,
         report' \in ReportType
  PROVE  IInv'
BY DEF IInv, TypeOK, HeldInv, Held, ThreadInv, Owns, OverlapInv, Clearing,
       LeftInv, Resetting, FreshInv, AskInv, ServeInv, Gathered, Served

\* The invariants of CLIENTs and requests while these stay as they are.
LEMMA RequestsSame ==
  ASSUME IInv, UNCHANGED <<client, thread, overlap>>
  PROVE  (OverlapInv /\ LeftInv /\ AskInv /\ ServeInv)'
BY DEF IInv, OverlapInv, Clearing, LeftInv, Resetting, AskInv, ServeInv, Gathered, Served

\* A listener drops the connection it holds.
LEMMA ConnectionDropped ==
  ASSUME IInv, NEW l \in Listener, Held(l), NEW c \in Conn, c = listener[l].iacp,
         Disconnect(c), ListenAgain(l),
         UNCHANGED <<client, thread, overlap, report>>
  PROVE  IInv'
<1>1. TypeOK /\ HeldInv /\ ThreadInv /\ FreshInv  BY DEF IInv
<1>2. /\ listener' \in [Listener -> ListenerType]
      /\ listener'[l].at = "block"
      /\ \A m \in Listener \ {l} : listener'[m] = listener[m]
      BY <1>1, ListenerIdle
<1>3. /\ handle' \in [Conn -> {"free", "open", "closed"}]
      /\ handle'[c] = "free" => handle[c] = "free"
      /\ \A d \in Conn \ {c} : handle'[d] = handle[d]
      BY <1>1, Disconnects
<1>4. thread[c] = NoThread /\ thread[c].at = None
      BY <1>1, NoThreadType DEF HeldInv
<1>5. TypeOK'  BY <1>1, <1>2, <1>3 DEF TypeOK
<1>6. HeldInv'
  <2>1. \A m \in Listener : Held(m)' =>
          m # l /\ Held(m) /\ listener'[m] = listener[m] /\ listener[m].iacp # c
        BY <1>1, <1>2 DEF HeldInv, Held
  <2> QED  BY <1>1, <1>2, <1>3, <2>1 DEF HeldInv, Held
<1>7. ThreadInv'  BY <1>1, <1>3, <1>4 DEF ThreadInv, Owns, None
<1>8. FreshInv'  BY <1>1, <1>2 DEF FreshInv
<1> QED  BY <1>5, <1>6, <1>7, <1>8, RequestsSame DEF IInv

LEMMA BlockKeeps ==
  ASSUME IInv, NEW l \in Listener, BlockOnShutdown(l)
  PROVE  IInv'
<1> DEFINE at == IF listener[l].at = "block" THEN "accept" ELSE "scan"
<1>1. UNCHANGED <<handle, client, thread, overlap, report>>
      BY DEF BlockOnShutdown, clients
<1>2. TypeOK /\ Listen(l, at)  BY DEF IInv, BlockOnShutdown
<1>3. at \in {"block", "accept", "try", "block2", "scan", "create"}  OBVIOUS
<1>4. at = "scan" => listener[l].at = "block2"  BY DEF BlockOnShutdown
<1>5. at # "create" /\ at \notin {"try", "block2"}  OBVIOUS
<1> HIDE DEF at
<1>6. /\ listener' \in [Listener -> ListenerType]
      /\ listener'[l].at = at
      /\ listener'[l].iacp = listener[l].iacp
      /\ \A m \in Listener \ {l} : listener'[m] = listener[m]
      BY <1>2, <1>3, ListenerGoes
<1>7. TypeOK'  BY <1>1, <1>2, <1>6 DEF TypeOK
<1>8. HeldInv'  BY <1>1, <1>4, <1>5, <1>6 DEF IInv, HeldInv, Held
<1>9. ThreadInv'  BY <1>1 DEF IInv, ThreadInv, Owns
<1>10. FreshInv'  BY <1>1, <1>5, <1>6 DEF IInv, FreshInv
<1> QED  BY <1>1, <1>7, <1>8, <1>9, <1>10, RequestsSame DEF IInv

LEMMA ShutdownKeeps ==
  ASSUME IInv, NEW l \in Listener, ShutdownInProgress(l)
  PROVE  IInv'
<1>1. UNCHANGED <<client, thread, overlap, report>> /\ Held(l)
      BY DEF ShutdownInProgress, clients, Held
<1>2. TypeOK /\ HeldInv /\ ThreadInv /\ FreshInv  BY DEF IInv
<1>3. CASE UNCHANGED handle /\ Listen(l, IF l = "main" THEN "block2" ELSE "scan")
  <2> DEFINE at == IF l = "main" THEN "block2" ELSE "scan"
  <2>1. at \in {"block2", "scan"}  OBVIOUS
  <2>2. Listen(l, at)  BY <1>3
  <2> HIDE DEF at
  <2>3. /\ listener' \in [Listener -> ListenerType]
        /\ listener'[l].at = at
        /\ listener'[l].iacp = listener[l].iacp
        /\ \A m \in Listener \ {l} : listener'[m] = listener[m]
        BY <1>2, <2>1, <2>2, ListenerGoes
  <2>4. TypeOK'  BY <1>1, <1>2, <1>3, <2>3 DEF TypeOK
  <2>5. HeldInv'  BY <1>1, <1>2, <1>3, <2>1, <2>3 DEF HeldInv, Held
  <2>6. ThreadInv'  BY <1>1, <1>2, <1>3 DEF ThreadInv, Owns
  <2>7. FreshInv'  BY <1>1, <1>2, <2>1, <2>3 DEF FreshInv
  <2> QED  BY <1>1, <2>4, <2>5, <2>6, <2>7, RequestsSame DEF IInv
<1>4. CASE Disconnect(listener[l].iacp) /\ ListenAgain(l)
  <2>1. PICK c \in Conn : c = listener[l].iacp  BY <1>1, <1>2 DEF HeldInv
  <2>2. Disconnect(c) /\ thread[c] = NoThread
        BY <1>1, <1>2, <1>4, <2>1 DEF HeldInv
  <2> QED  BY <1>1, <1>4, <2>1, <2>2, ConnectionDropped
<1> QED  BY <1>3, <1>4 DEF ShutdownInProgress

LEMMA AcceptKeeps ==
  ASSUME IInv, NEW l \in Listener, NEW c \in Conn, Accept(l, c)
  PROVE  IInv'
<1>1. UNCHANGED <<client, thread, overlap, report>> /\ handle[c] = "free"
      BY DEF Accept, clients
<1>2. TypeOK /\ HeldInv /\ ThreadInv /\ FreshInv  BY DEF IInv
<1>3. thread[c] = NoThread /\ thread[c].at = None
      BY <1>1, <1>2, NoThreadType DEF ThreadInv
<1>4. \A m \in Listener : Held(m) => listener[m].iacp # c
      BY <1>1, <1>2 DEF HeldInv
<1>5. CASE /\ handle' = [handle EXCEPT ![c] = "open"]
           /\ listener' = [listener EXCEPT ![l] = [at |-> "try", iacp |-> c, slot |-> 1]]
  <2>1. /\ handle' \in [Conn -> {"free", "open", "closed"}]
        /\ handle'[c] = "open"
        /\ \A d \in Conn \ {c} : handle'[d] = handle[d]
        BY <1>2, <1>5 DEF TypeOK
  <2>2. /\ listener' \in [Listener -> ListenerType]
        /\ listener'[l].at = "try"
        /\ listener'[l].iacp = c
        /\ \A m \in Listener \ {l} : listener'[m] = listener[m]
        BY <1>2, <1>5 DEF TypeOK, ListenerType
  <2>3. TypeOK'  BY <1>1, <1>2, <2>1, <2>2 DEF TypeOK
  <2>4. HeldInv'  BY <1>1, <1>2, <1>3, <1>4, <2>1, <2>2 DEF HeldInv, Held
  <2>5. ThreadInv'  BY <1>1, <1>2, <1>3, <2>1 DEF ThreadInv, Owns
  <2>6. FreshInv'  BY <1>1, <1>2, <2>2 DEF FreshInv
  <2> QED  BY <1>1, <2>3, <2>4, <2>5, <2>6, RequestsSame DEF IInv
<1>6. CASE handle' = [handle EXCEPT ![c] = "closed"] /\ ListenAgain(l)
  <2>1. /\ handle' \in [Conn -> {"free", "open", "closed"}]
        /\ handle'[c] = "closed"
        /\ \A d \in Conn \ {c} : handle'[d] = handle[d]
        BY <1>2, <1>6 DEF TypeOK
  <2>2. /\ listener' \in [Listener -> ListenerType]
        /\ listener'[l].at = "block"
        /\ \A m \in Listener \ {l} : listener'[m] = listener[m]
        BY <1>2, <1>6, ListenerIdle
  <2>3. TypeOK'  BY <1>1, <1>2, <2>1, <2>2 DEF TypeOK
  <2>4. HeldInv'  BY <1>1, <1>2, <1>4, <2>1, <2>2 DEF HeldInv, Held
  <2>5. ThreadInv'  BY <1>1, <1>2, <1>3, <2>1 DEF ThreadInv, Owns, None
  <2>6. FreshInv'  BY <1>1, <1>2, <2>2 DEF FreshInv
  <2> QED  BY <1>1, <2>3, <2>4, <2>5, <2>6, RequestsSame DEF IInv
<1> QED  BY <1>5, <1>6 DEF Accept

LEMMA RejectKeeps ==
  ASSUME IInv, NEW l \in Listener, Reject(l)
  PROVE  IInv'
<1>1. /\ UNCHANGED <<client, thread, overlap, report>> /\ Held(l)
      /\ Disconnect(listener[l].iacp) /\ ListenAgain(l)
      BY DEF Reject, clients, Held
<1>2. PICK c \in Conn : c = listener[l].iacp  BY <1>1 DEF IInv, HeldInv
<1> QED  BY <1>1, <1>2, ConnectionDropped

\* NextAvailableClient takes a free CLIENT.
LEMMA TakeKeeps ==
  ASSUME IInv, NEW l \in Listener, NextAvailableClient(l),
         client[listener[l].slot].iacp = None
  PROVE  IInv'
<1> DEFINE s == listener[l].slot
           c == listener[l].iacp
<1>1. /\ s \in Slot /\ Held(l) /\ client[s].iacp = None
      /\ client' = [client EXCEPT ![s].iacp = c]
      /\ overlap' = IF Clearing(s) THEN overlap \cup {c} ELSE overlap
      /\ Listen(l, "create")
      /\ UNCHANGED <<handle, thread, report>>
      BY DEF NextAvailableClient, Held
<1>2. /\ TypeOK /\ HeldInv /\ ThreadInv
      /\ OverlapInv /\ LeftInv /\ FreshInv /\ AskInv /\ ServeInv
      BY DEF IInv
<1>3. c \in Conn /\ thread[c] = NoThread /\ c # None
      BY <1>1, <1>2, Nobody DEF HeldInv
<1>4. thread[c].at = None  BY <1>3, NoThreadType
<1>5. /\ listener' \in [Listener -> ListenerType]
      /\ listener'[l].at = "create"
      /\ listener'[l].iacp = c
      /\ listener'[l].slot = s
      /\ \A m \in Listener \ {l} : listener'[m] = listener[m]
      BY <1>1, <1>2, ListenerGoes
<1> HIDE DEF s, c
<1>6. /\ client' \in [Slot -> ClientType]
      /\ client'[s].iacp = c
      /\ client'[s].list = client[s].list
      /\ client'[s].opts = client[s].opts
      /\ \A q \in Slot \ {s} : client'[q] = client[q]
      BY <1>1, <1>2, <1>3 DEF TypeOK, ClientType
<1>7. overlap \subseteq overlap' /\ overlap' \subseteq overlap \cup {c}
      BY <1>1
<1>8. TypeOK'  BY <1>1, <1>2, <1>3, <1>5, <1>6, <1>7 DEF TypeOK
<1>9. HeldInv'
  <2>1. \A m \in Listener : listener'[m].iacp = listener[m].iacp
        BY <1>5 DEF c
  <2>2. \A m \in Listener : Held(m)' = Held(m)
        BY <1>1, <1>5 DEF Held
  <2>3. \A m \in Listener \ {l} : listener[m].at = "create" => listener[m].slot # s
        BY <1>1, <1>2, Nobody DEF HeldInv, Held
  <2> QED  BY <1>1, <1>2, <1>5, <1>6, <2>1, <2>2, <2>3 DEF HeldInv
<1>10. ThreadInv'
  <2>1. \A d \in Conn : Owns(d) => thread[d].slot # s
        BY <1>1, <1>2, Nobody DEF ThreadInv
  <2> QED  BY <1>1, <1>2, <1>6, <2>1 DEF ThreadInv, Owns
<1>11. OverlapInv'
  <2>1. \A q \in Slot : Clearing(q)' = Clearing(q)  BY <1>1 DEF Clearing
  <2>2. Clearing(s) => c \in overlap'  BY <1>1
  <2> QED  BY <1>2, <1>6, <1>7, <2>1, <2>2 DEF OverlapInv
<1>12. LeftInv'
  <2>1. \A q \in Slot : Clearing(q)' = Clearing(q) /\ Resetting(q)' = Resetting(q)
        BY <1>1 DEF Clearing, Resetting
  <2> QED  BY <1>2, <1>3, <1>6, <2>1 DEF LeftInv
<1>13. FreshInv'
  <2>1. c \notin overlap' => client[s].list = <<>> /\ client[s].opts = {}
    <3>1. Resetting(s) => Clearing(s)  BY DEF Resetting, Clearing
    <3> QED  BY <1>1, <1>2, <3>1 DEF LeftInv
  <2>2. \A m \in Listener \ {l} : listener[m].at = "create" =>
          listener[m].slot # s /\ listener[m].slot \in Slot
        BY <1>1, <1>2, Nobody DEF HeldInv, Held
  <2>3. ASSUME NEW m \in Listener, listener'[m].at = "create",
               listener'[m].iacp \notin overlap'
        PROVE  /\ client'[listener'[m].slot].list = <<>>
               /\ client'[listener'[m].slot].opts = {}
    <3>1. CASE m = l  BY <1>5, <1>6, <2>1, <2>3, <3>1
    <3>2. CASE m # l
      <4>1. listener'[m] = listener[m] /\ listener[m].iacp \notin overlap
            BY <1>5, <1>7, <2>3, <3>2
      <4>2. client'[listener[m].slot] = client[listener[m].slot]
            BY <1>6, <2>2, <2>3, <3>2, <4>1
      <4> QED  BY <1>2, <2>3, <4>1, <4>2 DEF FreshInv
    <3> QED  BY <3>1, <3>2
  <2> QED  BY <2>3 DEF FreshInv
<1>14. \A d \in Conn : thread[d].at \in {"recv", "serving"} =>
         thread[d].slot \in Slot \ {s}
       BY <1>1, <1>2, Nobody DEF ThreadInv, Owns
<1>15. AskInv'
       BY <1>1, <1>2, <1>6, <1>7, <1>14 DEF AskInv
<1>16. ServeInv'
       BY <1>1, <1>2, <1>6, <1>7, <1>14 DEF ServeInv
<1> QED  BY <1>8, <1>9, <1>10, <1>11, <1>12, <1>13, <1>15, <1>16 DEF IInv

\* Or it goes on to the next.
LEMMA ScanKeeps ==
  ASSUME IInv, NEW l \in Listener, NextAvailableClient(l),
         client[listener[l].slot].iacp # None
  PROVE  IInv'
<1>1. /\ listener[l].at = "scan"
      /\ listener' = [listener EXCEPT ![l].slot = listener[l].slot + 1]
      /\ UNCHANGED <<handle, client, thread, report, overlap>>
      BY DEF NextAvailableClient
<1>2. TypeOK /\ HeldInv /\ ThreadInv /\ FreshInv  BY DEF IInv
<1>3. /\ listener' \in [Listener -> ListenerType]
      /\ listener'[l].at = "scan"
      /\ listener'[l].iacp = listener[l].iacp
      /\ \A m \in Listener \ {l} : listener'[m] = listener[m]
      BY <1>1, <1>2 DEF TypeOK, ListenerType
<1>4. TypeOK'  BY <1>1, <1>2, <1>3 DEF TypeOK
<1>5. HeldInv'  BY <1>1, <1>2, <1>3 DEF HeldInv, Held
<1>6. ThreadInv'  BY <1>1, <1>2 DEF ThreadInv, Owns
<1>7. FreshInv'  BY <1>1, <1>2, <1>3 DEF FreshInv
<1> QED  BY <1>1, <1>4, <1>5, <1>6, <1>7, RequestsSame DEF IInv

LEMMA CreateKeeps ==
  ASSUME IInv, NEW l \in Listener, ThreadCreate(l)
  PROVE  IInv'
<1> DEFINE s == listener[l].slot
           c == listener[l].iacp
           t == [NoThread EXCEPT !.at = "recv", !.kind = l, !.slot = s]
<1>1. /\ listener[l].at = "create" /\ Held(l) /\ ListenAgain(l)
      /\ UNCHANGED <<client, report, overlap>>
      BY DEF ThreadCreate, Held
<1>2. /\ TypeOK /\ HeldInv /\ ThreadInv
      /\ OverlapInv /\ LeftInv /\ FreshInv /\ AskInv /\ ServeInv
      BY DEF IInv
<1>3. /\ c \in Conn /\ handle[c] = "open" /\ thread[c] = NoThread
      /\ s \in Slot /\ client[s].iacp = c
      BY <1>1, <1>2 DEF HeldInv
<1>4. CASE Disconnect(c) /\ UNCHANGED thread
      BY <1>1, <1>3, <1>4, ConnectionDropped
<1>5. CASE /\ thread' = [thread EXCEPT ![c].at = "recv", ![c].kind = l, ![c].slot = s]
           /\ UNCHANGED handle
  <2>1. /\ listener' \in [Listener -> ListenerType]
        /\ listener'[l].at = "block"
        /\ \A m \in Listener \ {l} : listener'[m] = listener[m]
        BY <1>1, <1>2, ListenerIdle
  <2>2. \A m \in Listener : Held(m)' => m # l  BY <2>1 DEF Held
  <2>3. /\ t \in ThreadType /\ t.at = "recv" /\ t.slot = s
        /\ t.asked = 0 /\ t.opts = {}
    <3> DEFINE S == Seq(Conn \X Part)
    <3>1. PICK r \in [at : Phase, slot : 0..NumSlots, kind : Listener \cup {None},
                      frames : Nat, asked : Nat, opts : SUBSET Conn, serves : S] :
            r = NoThread
          BY NoThreadType DEF ThreadType
    <3>2. s \in 0..NumSlots /\ l \in Listener /\ "recv" \in Phase
          BY <1>3, ClientsAssumption DEF Slot, Phase
    <3> DEFINE u == [r EXCEPT !.at = "recv", !.kind = l, !.slot = s]
    <3>3. u = t  BY <3>1
    <3> HIDE DEF S, s, t
    <3>4. u \in [at : Phase, slot : 0..NumSlots, kind : Listener \cup {None},
                 frames : Nat, asked : Nat, opts : SUBSET Conn, serves : S]
          BY <3>1, <3>2
    <3>5. u.at = "recv" /\ u.slot = s /\ u.asked = r.asked /\ u.opts = r.opts
          BY <3>1
    <3> HIDE DEF u
    <3> QED  BY <3>1, <3>3, <3>4, <3>5, NoThreadType DEF ThreadType, S
  <2>4. thread' = [thread EXCEPT ![c] = t]
    <3> HIDE DEF s, c
    <3> QED  BY <1>2, <1>3, <1>5 DEF TypeOK
  <2> HIDE DEF t, s, c
  <2>5. /\ thread' \in [Conn -> ThreadType]
        /\ thread'[c] = t
        /\ \A d \in Conn \ {c} : thread'[d] = thread[d]
        BY <1>2, <1>3, <2>3, <2>4 DEF TypeOK
  <2>6. TypeOK'  BY <1>1, <1>2, <1>5, <2>1, <2>5 DEF TypeOK
  <2>7. HeldInv'
    <3>1. \A m \in Listener : Held(m)' =>
            Held(m) /\ listener'[m] = listener[m] /\ listener[m].iacp # c
          BY <1>1, <1>2, <2>1, <2>2 DEF Held, HeldInv, c
    <3> QED  BY <1>1, <1>2, <1>5, <2>1, <2>2, <2>5, <3>1 DEF HeldInv
  <2>8. ThreadInv'  BY <1>1, <1>2, <1>3, <1>5, <2>3, <2>5 DEF ThreadInv, Owns
  <2>9. \A q \in Slot : Clearing(q)' = Clearing(q) /\ Resetting(q)' = Resetting(q)
    <3>1. thread[c].at = None  BY <1>3, NoThreadType
    <3> QED  BY <1>3, <2>3, <2>5, <3>1 DEF Clearing, Resetting, None
  <2>10. OverlapInv'  BY <1>1, <1>2, <2>9 DEF OverlapInv
  <2>11. LeftInv'  BY <1>1, <1>2, <2>9 DEF LeftInv
  <2>12. FreshInv'  BY <1>1, <1>2, <2>1 DEF FreshInv
  <2>13. AskInv'
    <3>1. c \notin overlap => client[s].list = <<>> /\ client[s].opts = {}
          BY <1>1, <1>2 DEF FreshInv, c, s
    <3>2. c \notin overlap => Gathered(c, client[s], t)
          BY <2>3, <3>1 DEF Gathered
    <3> QED  BY <1>1, <1>2, <2>3, <2>5, <3>2 DEF AskInv
  <2>14. ServeInv'  BY <1>1, <1>2, <2>3, <2>5 DEF ServeInv
  <2> QED  BY <2>6, <2>7, <2>8, <2>10, <2>11, <2>12, <2>13, <2>14 DEF IInv
<1> QED  BY <1>4, <1>5 DEF ThreadCreate

-----------------------------------------------------------------------------
(***************************************************************************)
(* A thread while it owns its CLIENT.                                      *)
(***************************************************************************)

\* No other thread owns that CLIENT, no listener has found it, nor holds its
\* connection.
LEMMA Alone ==
  ASSUME IInv, NEW c \in Conn, Owns(c)
  PROVE  /\ thread[c].slot \in Slot
         /\ client[thread[c].slot].iacp = c
         /\ \A d \in Conn \ {c} : Owns(d) =>
              thread[d].slot \in Slot \ {thread[c].slot}
         /\ \A l \in Listener : Held(l) => listener[l].iacp # c
         /\ \A l \in Listener : listener[l].at = "create" =>
              listener[l].slot \in Slot \ {thread[c].slot}
<1>1. HeldInv /\ ThreadInv  BY DEF IInv
<1>2. thread[c].slot \in Slot /\ client[thread[c].slot].iacp = c
      BY <1>1 DEF ThreadInv
<1>3. \A d \in Conn \ {c} : Owns(d) => thread[d].slot \in Slot \ {thread[c].slot}
      BY <1>1, <1>2 DEF ThreadInv
<1>4. thread[c] # NoThread  BY NoThreadType DEF Owns, None
<1>5. \A l \in Listener : Held(l) => listener[l].iacp # c
      BY <1>1, <1>4 DEF HeldInv
<1>6. \A l \in Listener : listener[l].at = "create" =>
        listener[l].slot \in Slot \ {thread[c].slot}
      BY <1>1, <1>2, <1>5 DEF HeldInv, Held
<1> QED  BY <1>2, <1>3, <1>5, <1>6

\* A thread that stays the owner, and changes nothing but its own CLIENT.
LEMMA OwnerSteps ==
  ASSUME IInv, NEW c \in Conn, NEW s, s = thread[c].slot,
         thread[c].at \in {"recv", "serving"},
         TypeOK', UNCHANGED <<handle, listener, overlap>>,
         \A d \in Conn \ {c} : thread'[d] = thread[d],
         thread'[c].slot = s,
         thread'[c].at \in {"recv", "serving", "close"},
         \A q \in Slot \ {s} : client'[q] = client[q],
         client'[s].iacp = client[s].iacp,
         c \notin overlap /\ thread'[c].at = "recv" =>
           Gathered(c, client'[s], thread'[c]),
         c \notin overlap /\ thread'[c].at = "serving" =>
           Served(c, client'[s], thread'[c])
  PROVE  IInv'
<1>1. /\ TypeOK /\ HeldInv /\ ThreadInv
      /\ OverlapInv /\ LeftInv /\ FreshInv /\ AskInv /\ ServeInv
      BY DEF IInv
<1>2. Owns(c)  BY DEF Owns
<1>3. /\ s \in Slot /\ client[s].iacp = c
      /\ \A d \in Conn \ {c} : Owns(d) => thread[d].slot \in Slot \ {s}
      /\ \A l \in Listener : Held(l) => listener[l].iacp # c
      /\ \A l \in Listener : listener[l].at = "create" => listener[l].slot \in Slot \ {s}
      BY <1>2, Alone
<1>4. \A q \in Slot : client'[q].iacp = client[q].iacp  BY <1>3
<1>5. HeldInv'  BY <1>1, <1>3, <1>4 DEF HeldInv, Held
<1>6. handle[c] = "open"  BY <1>1 DEF ThreadInv
<1>7. ThreadInv'
  <2>1. ASSUME NEW d \in Conn \ {c}
        PROVE  /\ Owns(d)' => thread'[d].slot \in Slot /\ client'[thread'[d].slot].iacp = d
               /\ thread'[d].at \in {"recv", "serving", "close"} => handle'[d] = "open"
               /\ thread'[d].at \in {"reset", "clear"} => thread'[d].slot \in Slot
               /\ handle'[d] = "free" => thread'[d] = NoThread
        BY <1>1, <1>4 DEF ThreadInv, Owns
  <2>2. /\ thread'[c].slot \in Slot /\ client'[thread'[c].slot].iacp = c
        /\ handle'[c] = "open"
        BY <1>3, <1>4, <1>6
  <2> QED  BY <2>1, <2>2 DEF ThreadInv
<1>8. \A q \in Slot : Clearing(q)' = Clearing(q) /\ Resetting(q)' = Resetting(q)
      BY DEF Clearing, Resetting
<1>9. OverlapInv'  BY <1>1, <1>4, <1>8 DEF OverlapInv
<1>10. LeftInv'
  <2>1. \A q \in Slot : client'[q].iacp = None => client'[q] = client[q]
        BY <1>3, <1>4, Nobody
  <2> QED  BY <1>1, <1>8, <2>1 DEF LeftInv
<1>11. FreshInv'  BY <1>1, <1>3 DEF FreshInv
<1>12. \A d \in Conn \ {c} : thread[d].at \in {"recv", "serving"} =>
         client'[thread[d].slot] = client[thread[d].slot]
       BY <1>3 DEF Owns
<1>13. AskInv'
  <2>1. ASSUME NEW d \in Conn \ overlap, d # c, thread'[d].at = "recv"
        PROVE  Gathered(d, client'[thread'[d].slot], thread'[d])
        BY <1>1, <1>12, <2>1 DEF AskInv
  <2> QED  BY <2>1 DEF AskInv
<1>14. ServeInv'
  <2>1. ASSUME NEW d \in Conn \ overlap, d # c, thread'[d].at = "serving"
        PROVE  Served(d, client'[thread'[d].slot], thread'[d])
        BY <1>1, <1>12, <2>1 DEF ServeInv
  <2> QED  BY <2>1 DEF ServeInv
<1> QED  BY <1>5, <1>7, <1>9, <1>10, <1>11, <1>13, <1>14 DEF IInv

\* The end of a request, before the connection is closed.
LEMMA EndsRequest ==
  ASSUME IInv, NEW c \in Conn, thread[c].at \in {"recv", "serving"}, Go(c, "close"),
         UNCHANGED <<handle, listener, report, overlap, client>>
  PROVE  IInv'
<1>1. TypeOK /\ "close" \in Phase  BY DEF IInv, Phase
<1>2. /\ thread' \in [Conn -> ThreadType]
      /\ thread'[c].at = "close"
      /\ thread'[c].slot = thread[c].slot
      /\ \A d \in Conn \ {c} : thread'[d] = thread[d]
      BY <1>1, Goes
<1>3. TypeOK'  BY <1>1, <1>2 DEF TypeOK
<1> QED  BY <1>2, <1>3, OwnerSteps

LEMMA ServeEndsKeeps ==
  ASSUME IInv, NEW c \in Conn, ServeEnds(c)
  PROVE  IInv'
<1> DEFINE s == thread[c].slot
<1>1. /\ thread[c].at = "serving" /\ Go(c, "close")
      /\ client' = [client EXCEPT ![s].list = <<>>]
      /\ UNCHANGED <<handle, listener, report, overlap>>
      BY DEF ServeEnds
<1>2. TypeOK /\ "close" \in Phase  BY DEF IInv, Phase
<1>3. /\ thread' \in [Conn -> ThreadType]
      /\ thread'[c].at = "close"
      /\ thread'[c].slot = s
      /\ \A d \in Conn \ {c} : thread'[d] = thread[d]
      BY <1>1, <1>2, Goes
<1>4. s \in Slot  BY <1>1, Alone DEF Owns
<1> HIDE DEF s
<1>5. /\ client' \in [Slot -> ClientType]
      /\ client'[s].iacp = client[s].iacp
      /\ \A q \in Slot \ {s} : client'[q] = client[q]
  <2> DEFINE S == Seq(Conn \X Part)
             e == <<>>
  <2>1. /\ client[s] \in [iacp : Conn \cup {None}, type : Part \cup {None},
                          list : S, opts : SUBSET Conn]
        /\ e \in S
        BY <1>2, <1>4 DEF TypeOK, ClientType
  <2>2. client' = [client EXCEPT ![s].list = e]  BY <1>1
  <2> HIDE DEF S, e
  <2>3. /\ [client[s] EXCEPT !.list = e]
             \in [iacp : Conn \cup {None}, type : Part \cup {None},
                  list : S, opts : SUBSET Conn]
        /\ [client[s] EXCEPT !.list = e].iacp = client[s].iacp
        BY <2>1
  <2>4. [client[s] EXCEPT !.list = e] \in ClientType  BY <2>3 DEF ClientType, S
  <2> QED  BY <1>2, <1>4, <2>2, <2>3, <2>4 DEF TypeOK
<1>6. TypeOK'  BY <1>1, <1>2, <1>3, <1>5 DEF TypeOK
<1> QED  BY <1>1, <1>3, <1>5, <1>6, OwnerSteps DEF s

\* RespondToClientMessage takes an option: the CLIENT and the history agree on it.
LEMMA OptionKeeps ==
  ASSUME IInv, NEW c \in Conn, thread[c].at = "recv",
         client' = [client EXCEPT ![thread[c].slot].opts = @ \cup {c}],
         thread' = [thread EXCEPT ![c].opts = {c}, ![c].frames = @ + 1],
         UNCHANGED <<handle, listener, report, overlap>>
  PROVE  IInv'
<1> DEFINE s == thread[c].slot
           S == Seq(Conn \X Part)
           P == client[s].opts \cup {c}
<1>1. TypeOK /\ AskInv  BY DEF IInv
<1>2. s \in Slot  BY Alone DEF Owns
<1>3. client' = [client EXCEPT ![s].opts = P]  OBVIOUS
<1>4. client[s] \in [iacp : Conn \cup {None}, type : Part \cup {None},
                     list : S, opts : SUBSET Conn]
      BY <1>1, <1>2 DEF TypeOK, ClientType
<1>5. thread[c] \in [at : Phase, slot : 0..NumSlots, kind : Listener \cup {None},
                     frames : Nat, asked : Nat, opts : SUBSET Conn, serves : S]
      BY <1>1 DEF TypeOK, ThreadType
<1>6. P \in SUBSET Conn  BY <1>4
<1> HIDE DEF s, S, P
<1>7. /\ [client[s] EXCEPT !.opts = P]
           \in [iacp : Conn \cup {None}, type : Part \cup {None},
                list : S, opts : SUBSET Conn]
      /\ [client[s] EXCEPT !.opts = P].iacp = client[s].iacp
      /\ [client[s] EXCEPT !.opts = P].type = client[s].type
      /\ [client[s] EXCEPT !.opts = P].list = client[s].list
      /\ [client[s] EXCEPT !.opts = P].opts = P
      BY <1>4, <1>6
<1>8. /\ client' \in [Slot -> ClientType]
      /\ client'[s] = [client[s] EXCEPT !.opts = P]
      /\ \A q \in Slot \ {s} : client'[q] = client[q]
  <2>1. [client[s] EXCEPT !.opts = P] \in ClientType  BY <1>7 DEF ClientType, S
  <2> QED  BY <1>1, <1>2, <1>3, <2>1 DEF TypeOK
<1> DEFINE n == thread[c].frames + 1
           O == {c}
           t == [thread[c] EXCEPT !.opts = O, !.frames = n]
<1>9. /\ t \in [at : Phase, slot : 0..NumSlots, kind : Listener \cup {None},
                frames : Nat, asked : Nat, opts : SUBSET Conn, serves : S]
      /\ t.at = thread[c].at
      /\ t.slot = thread[c].slot
      /\ t.asked = thread[c].asked
      /\ t.opts = {c}
  <2>1. n \in Nat /\ O \in SUBSET Conn  BY <1>5
  <2>2. O = {c}  OBVIOUS
  <2> HIDE DEF n, O
  <2> QED  BY <1>5, <2>1, <2>2
<1>10. /\ thread' \in [Conn -> ThreadType]
       /\ thread'[c] = t
       /\ \A d \in Conn \ {c} : thread'[d] = thread[d]
  <2>1. thread' = [thread EXCEPT ![c] = t]  BY <1>1 DEF TypeOK
  <2> HIDE DEF t
  <2>2. t \in ThreadType  BY <1>9 DEF ThreadType, S
  <2> QED  BY <1>1, <2>1, <2>2 DEF TypeOK
<1> HIDE DEF t
<1>11. TypeOK'  BY <1>1, <1>8, <1>10 DEF TypeOK
<1>12. ASSUME c \notin overlap PROVE Gathered(c, client'[s], thread'[c])
  <2>1. Gathered(c, client[s], thread[c])  BY <1>1, <1>12 DEF AskInv, s
  <2>2. P = {c}  BY <2>1 DEF Gathered, P
  <2> QED  BY <1>7, <1>8, <1>9, <1>10, <2>1, <2>2 DEF Gathered
<1>13. /\ thread'[c].at = "recv" /\ thread'[c].slot = s
       /\ client'[s].iacp = client[s].iacp
       BY <1>7, <1>8, <1>9, <1>10 DEF s
<1> QED  BY <1>8, <1>10, <1>11, <1>12, <1>13, OwnerSteps DEF s

\* What Append adds.
LEMMA Appended ==
  ASSUME NEW T, NEW q \in Seq(T), NEW e \in T
  PROVE  /\ Append(q, e) \in Seq(T)
         /\ Len(Append(q, e)) = Len(q) + 1
         /\ Append(q, e) # <<>>
         /\ \A i \in DOMAIN Append(q, e) :
              Append(q, e)[i] = IF i \in DOMAIN q THEN q[i] ELSE e
OBVIOUS

\* SetTwindRequest and SetSeqnoRequest add a part of the type of the others.
LEMMA PartKeeps ==
  ASSUME IInv, NEW c \in Conn, NEW type \in Part, thread[c].at = "recv",
         SameType(thread[c].slot, type),
         client' = [client EXCEPT ![thread[c].slot].type = type,
                                  ![thread[c].slot].list = Append(@, <<c, type>>)],
         thread' = [thread EXCEPT ![c].asked = @ + 1, ![c].frames = @ + 1],
         UNCHANGED <<handle, listener, report, overlap>>
  PROVE  IInv'
<1> DEFINE s == thread[c].slot
           S == Seq(Conn \X Part)
           P == Append(client[s].list, <<c, type>>)
<1>1. TypeOK /\ AskInv  BY DEF IInv
<1>2. s \in Slot  BY Alone DEF Owns
<1>3. client' = [client EXCEPT ![s].type = type, ![s].list = P]
      BY <1>1, <1>2 DEF TypeOK, ClientType
<1>4. client[s] \in [iacp : Conn \cup {None}, type : Part \cup {None},
                     list : S, opts : SUBSET Conn]
      BY <1>1, <1>2 DEF TypeOK, ClientType
<1>5. thread[c] \in [at : Phase, slot : 0..NumSlots, kind : Listener \cup {None},
                     frames : Nat, asked : Nat, opts : SUBSET Conn, serves : S]
      BY <1>1 DEF TypeOK, ThreadType
<1>6. /\ P \in S
      /\ Len(P) = Len(client[s].list) + 1
      /\ P # <<>>
      /\ \A i \in DOMAIN P : P[i] = IF i \in DOMAIN client[s].list
                                     THEN client[s].list[i] ELSE <<c, type>>
  <2> DEFINE T == Conn \X Part
             q == client[s].list
             e == <<c, type>>
  <2>1. q \in Seq(T) /\ e \in T  BY <1>4
  <2> HIDE DEF T, q, e
  <2>2. /\ Append(q, e) \in Seq(T)
        /\ Len(Append(q, e)) = Len(q) + 1
        /\ Append(q, e) # <<>>
        /\ \A i \in DOMAIN Append(q, e) :
             Append(q, e)[i] = IF i \in DOMAIN q THEN q[i] ELSE e
        BY <2>1, Appended
  <2> QED  BY <2>2 DEF T, q, e
<1> HIDE DEF s, S, P
<1> DEFINE r == [client[s] EXCEPT !.type = type, !.list = P]
<1>7. /\ r \in [iacp : Conn \cup {None}, type : Part \cup {None},
                list : S, opts : SUBSET Conn]
      /\ r.iacp = client[s].iacp
      /\ r.type = type
      /\ r.list = P
      /\ r.opts = client[s].opts
      BY <1>4, <1>6
<1>8. /\ client' \in [Slot -> ClientType]
      /\ client'[s] = r
      /\ \A q \in Slot \ {s} : client'[q] = client[q]
  <2>1. client' = [client EXCEPT ![s] = r]  BY <1>1, <1>2, <1>3 DEF TypeOK
  <2> HIDE DEF r
  <2>2. r \in ClientType  BY <1>7 DEF ClientType, S
  <2> QED  BY <1>1, <1>2, <2>1, <2>2 DEF TypeOK
<1> DEFINE n == thread[c].frames + 1
           k == thread[c].asked + 1
           t == [thread[c] EXCEPT !.asked = k, !.frames = n]
<1>9. /\ t \in [at : Phase, slot : 0..NumSlots, kind : Listener \cup {None},
                frames : Nat, asked : Nat, opts : SUBSET Conn, serves : S]
      /\ t.at = thread[c].at
      /\ t.slot = thread[c].slot
      /\ t.asked = thread[c].asked + 1
      /\ t.opts = thread[c].opts
  <2>1. n \in Nat /\ k \in Nat  BY <1>5
  <2>2. k = thread[c].asked + 1  OBVIOUS
  <2> HIDE DEF n, k
  <2> QED  BY <1>5, <2>1, <2>2
<1>10. /\ thread' \in [Conn -> ThreadType]
       /\ thread'[c] = t
       /\ \A d \in Conn \ {c} : thread'[d] = thread[d]
  <2>1. thread' = [thread EXCEPT ![c] = t]  BY <1>1 DEF TypeOK
  <2> HIDE DEF t
  <2>2. t \in ThreadType  BY <1>9 DEF ThreadType, S
  <2> QED  BY <1>1, <2>1, <2>2 DEF TypeOK
<1> HIDE DEF t, r
<1>11. TypeOK'  BY <1>1, <1>8, <1>10 DEF TypeOK
<1>12. ASSUME c \notin overlap PROVE Gathered(c, r, t)
  <2>1. Gathered(c, client[s], thread[c])  BY <1>1, <1>12 DEF AskInv, s
  <2>2. client[s].list = <<>> \/ client[s].type = type  BY DEF SameType, s
  <2>3. \A i \in DOMAIN client[s].list : client[s].list[i] = <<c, type>>
        BY <2>1, <2>2 DEF Gathered
  <2>4. \A i \in DOMAIN P : P[i] = <<c, type>>  BY <1>6, <2>3
  <2>5. Len(P) = t.asked  BY <1>6, <1>9, <2>1 DEF Gathered
  <2>6. r.opts = t.opts /\ t.opts \subseteq {c}  BY <1>7, <1>9, <2>1 DEF Gathered
  <2> QED  BY <1>7, <2>4, <2>5, <2>6 DEF Gathered
<1>13. /\ thread'[c].at = "recv" /\ thread'[c].slot = s
       /\ client'[s].iacp = client[s].iacp
       BY <1>7, <1>8, <1>9, <1>10 DEF s
<1>14. c \notin overlap => Gathered(c, client'[s], thread'[c])
       BY <1>8, <1>10, <1>12
<1> QED  BY <1>8, <1>10, <1>11, <1>13, <1>14, OwnerSteps DEF s

\* A complete request is served.
LEMMA NullKeeps ==
  ASSUME IInv, NEW c \in Conn, thread[c].at = "recv",
         client[thread[c].slot].list # <<>>,
         thread' = [thread EXCEPT ![c].at = "serving",
                                  ![c].serves = client[thread[c].slot].list],
         UNCHANGED <<handle, listener, client, report, overlap>>
  PROVE  IInv'
<1> DEFINE s == thread[c].slot
           S == Seq(Conn \X Part)
           P == client[s].list
<1>1. TypeOK /\ AskInv  BY DEF IInv
<1>2. s \in Slot  BY Alone DEF Owns
<1>3. P \in S  BY <1>1, <1>2 DEF TypeOK, ClientType
<1>4. thread' = [thread EXCEPT ![c].at = "serving", ![c].serves = P]  OBVIOUS
<1>5. /\ thread[c] \in [at : Phase, slot : 0..NumSlots, kind : Listener \cup {None},
                        frames : Nat, asked : Nat, opts : SUBSET Conn, serves : S]
      /\ "serving" \in Phase
      BY <1>1 DEF TypeOK, ThreadType, Phase
<1> HIDE DEF s, S, P
<1> DEFINE t == [thread[c] EXCEPT !.at = "serving", !.serves = P]
<1>6. /\ t \in [at : Phase, slot : 0..NumSlots, kind : Listener \cup {None},
                frames : Nat, asked : Nat, opts : SUBSET Conn, serves : S]
      /\ t.at = "serving"
      /\ t.slot = thread[c].slot
      /\ t.asked = thread[c].asked
      /\ t.opts = thread[c].opts
      /\ t.serves = P
      BY <1>3, <1>5
<1>7. /\ thread' \in [Conn -> ThreadType]
      /\ thread'[c] = t
      /\ \A d \in Conn \ {c} : thread'[d] = thread[d]
  <2>1. thread' = [thread EXCEPT ![c] = t]  BY <1>1, <1>4 DEF TypeOK
  <2> HIDE DEF t
  <2>2. t \in ThreadType  BY <1>6 DEF ThreadType, S
  <2> QED  BY <1>1, <2>1, <2>2 DEF TypeOK
<1> HIDE DEF t
<1>8. TypeOK'  BY <1>1, <1>7 DEF TypeOK
<1>9. ASSUME c \notin overlap PROVE Served(c, client[s], t)
  <2>1. Gathered(c, client[s], thread[c])  BY <1>1, <1>9 DEF AskInv, s
  <2>2. client[s].type \in Part  BY <2>1 DEF Gathered, s
  <2>3. \A i \in DOMAIN P : P[i] = <<c, client[s].type>>  BY <2>1 DEF Gathered, P
  <2>4. Len(P) = t.asked /\ client[s].opts = t.opts
        BY <1>6, <2>1 DEF Gathered, P
  <2> QED  BY <1>6, <2>2, <2>3, <2>4 DEF Served
<1>10. c \notin overlap => Served(c, client'[s], thread'[c])  BY <1>7, <1>9
<1>11. thread'[c].at = "serving" /\ thread'[c].slot = s  BY <1>6, <1>7 DEF s
<1> QED  BY <1>7, <1>8, <1>10, <1>11, OwnerSteps DEF s

LEMMA ReceiveKeeps ==
  ASSUME IInv, NEW c \in Conn, NEW type \in Frame, ReceiveFrame(c, type)
  PROVE  IInv'
<1>1. /\ thread[c].at = "recv"
      /\ UNCHANGED <<handle, listener, report, overlap>>
      /\ RespondToClientMessage(c, type) \/ Echo(c, type)
      BY DEF ReceiveFrame
<1>2. CASE Go(c, "close") /\ UNCHANGED client
      BY <1>1, <1>2, EndsRequest
<1>3. CASE Echo(c, type)  BY <1>2, <1>3 DEF Echo
<1>4. CASE RespondToClientMessage(c, type)
  <2>1. CASE /\ client' = [client EXCEPT ![thread[c].slot].opts = @ \cup {c}]
             /\ thread' = [thread EXCEPT ![c].opts = {c}, ![c].frames = @ + 1]
        BY <1>1, <2>1, OptionKeeps
  <2>2. CASE /\ type \in Part /\ SameType(thread[c].slot, type)
             /\ client' = [client EXCEPT
                  ![thread[c].slot].type = type,
                  ![thread[c].slot].list = Append(@, <<c, type>>)]
             /\ thread' = [thread EXCEPT ![c].asked = @ + 1, ![c].frames = @ + 1]
        BY <1>1, <2>2, PartKeeps
  <2>3. CASE /\ client[thread[c].slot].list # <<>>
             /\ thread' = [thread EXCEPT ![c].at = "serving",
                                         ![c].serves = client[thread[c].slot].list]
             /\ UNCHANGED client
        BY <1>1, <2>3, NullKeeps
  <2> QED  BY <1>2, <1>4, <2>1, <2>2, <2>3 DEF RespondToClientMessage
<1> QED  BY <1>1, <1>3, <1>4

-----------------------------------------------------------------------------
(***************************************************************************)
(* A thread at its end.                                                    *)
(***************************************************************************)

\* iacpClose: the handle in the CLIENT is the thread's own.
LEMMA CloseKeeps ==
  ASSUME IInv, NEW c \in Conn, CloseConnection(c)
  PROVE  IInv'
<1>1. /\ thread[c].at = "close" /\ Go(c, "unlink")
      /\ handle' = [handle EXCEPT ![client[thread[c].slot].iacp] = "closed"]
      /\ UNCHANGED <<listener, client, report, overlap>>
      BY DEF CloseConnection
<1>2. /\ TypeOK /\ HeldInv /\ ThreadInv
      /\ OverlapInv /\ LeftInv /\ FreshInv /\ AskInv /\ ServeInv
      BY DEF IInv
<1>3. "unlink" \in Phase  BY DEF Phase
<1>4. /\ thread' \in [Conn -> ThreadType]
      /\ thread'[c].at = "unlink"
      /\ thread'[c].slot = thread[c].slot
      /\ \A d \in Conn \ {c} : thread'[d] = thread[d]
      BY <1>1, <1>2, <1>3, Goes
<1>5. Owns(c)  BY <1>1 DEF Owns
<1>6. /\ thread[c].slot \in Slot
      /\ client[thread[c].slot].iacp = c
      /\ \A l \in Listener : Held(l) => listener[l].iacp # c
      BY <1>5, Alone
<1>7. /\ handle' \in [Conn -> {"free", "open", "closed"}]
      /\ handle'[c] = "closed"
      /\ \A d \in Conn \ {c} : handle'[d] = handle[d]
      BY <1>1, <1>2, <1>6 DEF TypeOK
<1>8. TypeOK'  BY <1>1, <1>2, <1>4, <1>7 DEF TypeOK
<1>9. HeldInv'  BY <1>1, <1>2, <1>4, <1>6, <1>7 DEF HeldInv, Held
<1>10. ThreadInv'
  <2>1. ASSUME NEW d \in Conn \ {c}
        PROVE  /\ Owns(d)' => thread'[d].slot \in Slot /\ client'[thread'[d].slot].iacp = d
               /\ thread'[d].at \in {"recv", "serving", "close"} => handle'[d] = "open"
               /\ thread'[d].at \in {"reset", "clear"} => thread'[d].slot \in Slot
               /\ handle'[d] = "free" => thread'[d] = NoThread
        BY <1>1, <1>2, <1>4, <1>7 DEF ThreadInv, Owns
  <2> QED  BY <1>1, <1>4, <1>6, <1>7, <2>1 DEF ThreadInv
<1>11. \A q \in Slot : Clearing(q)' = Clearing(q) /\ Resetting(q)' = Resetting(q)
       BY <1>1, <1>4 DEF Clearing, Resetting
<1>12. OverlapInv' /\ LeftInv' /\ FreshInv'
       BY <1>1, <1>2, <1>11 DEF OverlapInv, LeftInv, FreshInv
<1>13. AskInv' /\ ServeInv'
       BY <1>1, <1>2, <1>4 DEF AskInv, ServeInv
<1> QED  BY <1>8, <1>9, <1>10, <1>12, <1>13 DEF IInv

\* From here on the CLIENT is free, and still to be cleared.
LEMMA UnlinkKeeps ==
  ASSUME IInv, NEW c \in Conn, Unlink(c)
  PROVE  IInv'
<1> PICK s \in Slot : s = thread[c].slot  BY Alone DEF Unlink, Owns
<1>1. /\ thread[c].at = "unlink" /\ Go(c, "reset")
      /\ client' = [client EXCEPT ![s].iacp = None]
      /\ UNCHANGED <<handle, listener, report, overlap>>
      BY DEF Unlink
<1>2. /\ TypeOK /\ HeldInv /\ ThreadInv
      /\ OverlapInv /\ LeftInv /\ FreshInv /\ AskInv /\ ServeInv
      BY DEF IInv
<1>3. "reset" \in Phase  BY DEF Phase
<1>4. /\ thread' \in [Conn -> ThreadType]
      /\ thread'[c].at = "reset"
      /\ thread'[c].slot = s
      /\ \A d \in Conn \ {c} : thread'[d] = thread[d]
      BY <1>1, <1>2, <1>3, Goes
<1>5. Owns(c)  BY <1>1 DEF Owns
<1>6. /\ s \in Slot /\ client[s].iacp = c
      /\ \A d \in Conn \ {c} : Owns(d) => thread[d].slot \in Slot \ {s}
      /\ \A l \in Listener : Held(l) => listener[l].iacp # c
      /\ \A l \in Listener : listener[l].at = "create" => listener[l].slot \in Slot \ {s}
      BY <1>5, Alone
<1>7. /\ client' \in [Slot -> ClientType]
      /\ client'[s].iacp = None
      /\ \A q \in Slot \ {s} : client'[q] = client[q]
  <2> DEFINE S == Seq(Conn \X Part)
             r == [client[s] EXCEPT !.iacp = None]
  <2>1. client[s] \in [iacp : Conn \cup {None}, type : Part \cup {None},
                       list : S, opts : SUBSET Conn]
        BY <1>2 DEF TypeOK, ClientType
  <2>2. client' = [client EXCEPT ![s] = r]  BY <1>1
  <2> HIDE DEF S
  <2>3. /\ r \in [iacp : Conn \cup {None}, type : Part \cup {None},
                  list : S, opts : SUBSET Conn]
        /\ r.iacp = None
        BY <2>1
  <2> HIDE DEF r
  <2>4. r \in ClientType  BY <2>3 DEF ClientType, S
  <2> QED  BY <1>2, <2>2, <2>3, <2>4 DEF TypeOK
<1>8. TypeOK'  BY <1>1, <1>2, <1>4, <1>7 DEF TypeOK
<1>9. HeldInv'  BY <1>1, <1>2, <1>4, <1>6, <1>7 DEF HeldInv, Held
<1>10. ThreadInv'
  <2>1. ASSUME NEW d \in Conn \ {c}
        PROVE  /\ Owns(d)' => thread'[d].slot \in Slot /\ client'[thread'[d].slot].iacp = d
               /\ thread'[d].at \in {"recv", "serving", "close"} => handle'[d] = "open"
               /\ thread'[d].at \in {"reset", "clear"} => thread'[d].slot \in Slot
               /\ handle'[d] = "free" => thread'[d] = NoThread
    <3>1. Owns(d) => client'[thread[d].slot] = client[thread[d].slot]  BY <1>6, <1>7
    <3>2. thread'[d] = thread[d] /\ handle' = handle  BY <1>1, <1>4
    <3> QED  BY <1>2, <3>1, <3>2 DEF ThreadInv, Owns
  <2>2. handle[c] # "free"  BY <1>1, <1>2, NoThreadType DEF ThreadInv, None
  <2>3. /\ ~Owns(c)' /\ thread'[c].at = "reset"
        /\ thread'[c].slot \in Slot /\ handle'[c] # "free"
        BY <1>1, <1>4, <1>6, <2>2 DEF Owns
  <2> QED  BY <2>1, <2>3 DEF ThreadInv
<1>11. \A q \in Slot \ {s} : Clearing(q)' = Clearing(q) /\ Resetting(q)' = Resetting(q)
       BY <1>4 DEF Clearing, Resetting
<1>12. Clearing(s)' /\ Resetting(s)'  BY <1>4 DEF Clearing, Resetting
<1>13. OverlapInv'  BY <1>1, <1>2, <1>7, <1>11 DEF OverlapInv
<1>14. LeftInv'  BY <1>2, <1>7, <1>11, <1>12 DEF LeftInv
<1>15. FreshInv'  BY <1>1, <1>2, <1>6, <1>7 DEF FreshInv
<1>16. \A d \in Conn : thread'[d].at \in {"recv", "serving"} =>
         /\ thread'[d] = thread[d]
         /\ client'[thread[d].slot] = client[thread[d].slot]
       BY <1>4, <1>6, <1>7 DEF Owns
<1>17. AskInv'  BY <1>1, <1>2, <1>16 DEF AskInv
<1>18. ServeInv'  BY <1>1, <1>2, <1>16 DEF ServeInv
<1> QED  BY <1>8, <1>9, <1>10, <1>13, <1>14, <1>15, <1>17, <1>18 DEF IInv

\* One step of clearing a CLIENT, which may be another's by now.
LEMMA ClearingSteps ==
  ASSUME IInv, NEW c \in Conn, NEW s \in Slot, s = thread[c].slot,
         thread[c].at \in {"reset", "clear"},
         TypeOK', UNCHANGED <<handle, listener, overlap>>,
         \A d \in Conn \ {c} : thread'[d] = thread[d],
         thread'[c].at \in {"clear", "done"},
         thread'[c].at = "clear" => thread'[c].slot = s,
         \A q \in Slot \ {s} : client'[q] = client[q],
         client'[s].iacp = client[s].iacp,
         \/ client'[s].list = <<>>
         \/ thread[c].at = "clear" /\ client'[s].list = client[s].list,
         client'[s].opts = {} \/ thread'[c].at = "clear"
  PROVE  IInv'
<1>1. /\ TypeOK /\ HeldInv /\ ThreadInv
      /\ OverlapInv /\ LeftInv /\ FreshInv /\ AskInv /\ ServeInv
      BY DEF IInv
<1>2. thread[c] # NoThread /\ thread[c].at # None /\ handle[c] # "free"
      BY <1>1, NoThreadType DEF ThreadInv, None
<1>3. \A q \in Slot : client'[q].iacp = client[q].iacp  OBVIOUS
<1>4. HeldInv'  BY <1>1, <1>2, <1>3 DEF HeldInv, Held
<1>5. ThreadInv'
  <2>1. ASSUME NEW d \in Conn \ {c}
        PROVE  /\ Owns(d)' => thread'[d].slot \in Slot /\ client'[thread'[d].slot].iacp = d
               /\ thread'[d].at \in {"recv", "serving", "close"} => handle'[d] = "open"
               /\ thread'[d].at \in {"reset", "clear"} => thread'[d].slot \in Slot
               /\ handle'[d] = "free" => thread'[d] = NoThread
        BY <1>1, <1>3 DEF ThreadInv, Owns
  <2>2. /\ ~Owns(c)' /\ thread'[c].at \notin {"recv", "serving", "close", "reset"}
        /\ thread'[c].at = "clear" => thread'[c].slot \in Slot
        /\ handle'[c] # "free"
        BY <1>2 DEF Owns
  <2> QED  BY <2>1, <2>2 DEF ThreadInv
<1>6. Clearing(s)  BY DEF Clearing
<1>7. client[s].iacp # None => client[s].iacp \in overlap  BY <1>1, <1>6 DEF OverlapInv
<1>8. \A q \in Slot : Clearing(q)' => Clearing(q)  BY DEF Clearing
<1>9. \A q \in Slot \ {s} : Clearing(q) => Clearing(q)'  BY DEF Clearing
<1>10. \A q \in Slot \ {s} : Resetting(q) => Resetting(q)'  BY DEF Resetting
<1>11. thread[c].at = "clear" /\ Resetting(s) => Resetting(s)'  BY DEF Resetting
<1>12. thread'[c].at = "clear" => Clearing(s)'  BY DEF Clearing
<1>13. OverlapInv'  BY <1>1, <1>3, <1>8 DEF OverlapInv
<1>14. LeftInv'
  <2>1. ASSUME client[s].iacp = None
        PROVE  /\ client'[s].list = <<>> \/ Resetting(s)'
               /\ client'[s].opts = {} \/ Clearing(s)'
        BY <1>1, <1>11, <1>12, <2>1 DEF LeftInv
  <2>2. ASSUME NEW q \in Slot \ {s}, client[q].iacp = None
        PROVE  /\ client'[q].list = <<>> \/ Resetting(q)'
               /\ client'[q].opts = {} \/ Clearing(q)'
        BY <1>1, <1>9, <1>10, <2>2 DEF LeftInv
  <2> QED  BY <1>3, <2>1, <2>2 DEF LeftInv
<1>15. FreshInv'
  <2>1. \A l \in Listener :
          listener[l].at = "create" /\ listener[l].iacp \notin overlap =>
            listener[l].slot \in Slot \ {s}
        BY <1>1, <1>7, Nobody DEF HeldInv, Held
  <2> QED  BY <1>1, <2>1 DEF FreshInv
<1>16. \A d \in Conn \ overlap : thread'[d].at \in {"recv", "serving"} =>
         /\ thread'[d] = thread[d]
         /\ client'[thread[d].slot] = client[thread[d].slot]
  <2>1. ASSUME NEW d \in Conn \ overlap, thread'[d].at \in {"recv", "serving"}
        PROVE  /\ thread'[d] = thread[d]
               /\ client'[thread[d].slot] = client[thread[d].slot]
    <3>1. d # c  BY <2>1
    <3>2. thread[d].slot \in Slot \ {s}
          BY <1>1, <1>7, <2>1, <3>1, Nobody DEF ThreadInv, Owns
    <3> QED  BY <3>1, <3>2
  <2> QED  BY <2>1
<1>17. AskInv'  BY <1>1, <1>16 DEF AskInv
<1>18. ServeInv'  BY <1>1, <1>16 DEF ServeInv
<1> QED  BY <1>4, <1>5, <1>13, <1>14, <1>15, <1>17, <1>18 DEF IInv

LEMMA ResetKeeps ==
  ASSUME IInv, NEW c \in Conn, ResetIncoming(c)
  PROVE  IInv'
<1> PICK s \in Slot : s = thread[c].slot  BY DEF ResetIncoming, IInv, ThreadInv
<1> DEFINE S == Seq(Conn \X Part)
           e == <<>>
           r == [client[s] EXCEPT !.type = None, !.list = e]
<1>1. /\ thread[c].at = "reset" /\ Go(c, "clear")
      /\ client' = [client EXCEPT ![s] = r]
      /\ UNCHANGED <<handle, listener, report, overlap>>
      BY DEF ResetIncoming, Emptied
<1>2. TypeOK /\ ThreadInv /\ "clear" \in Phase  BY DEF IInv, Phase
<1>3. /\ thread' \in [Conn -> ThreadType]
      /\ thread'[c].at = "clear"
      /\ thread'[c].slot = s
      /\ \A d \in Conn \ {c} : thread'[d] = thread[d]
      BY <1>1, <1>2, Goes
<1>4. s \in Slot  OBVIOUS
<1>5. /\ client[s] \in [iacp : Conn \cup {None}, type : Part \cup {None},
                        list : S, opts : SUBSET Conn]
      /\ e \in S /\ e = <<>>
      BY <1>2, <1>4 DEF TypeOK, ClientType
<1> HIDE DEF S, e
<1>6. /\ r \in [iacp : Conn \cup {None}, type : Part \cup {None},
                list : S, opts : SUBSET Conn]
      /\ r.iacp = client[s].iacp /\ r.list = e
      BY <1>5
<1> HIDE DEF r
<1>7. r \in ClientType  BY <1>6 DEF ClientType, S
<1>8. /\ client' \in [Slot -> ClientType]
      /\ client'[s] = r
      /\ \A q \in Slot \ {s} : client'[q] = client[q]
      BY <1>1, <1>2, <1>4, <1>7 DEF TypeOK
<1>9. TypeOK'  BY <1>1, <1>2, <1>3, <1>8 DEF TypeOK
<1>10. s = thread[c].slot  OBVIOUS
<1>11. client'[s].list = <<>> /\ client'[s].iacp = client[s].iacp
       BY <1>5, <1>6, <1>8
<1>12. /\ thread[c].at \in {"reset", "clear"}
       /\ thread'[c].at \in {"clear", "done"} /\ thread'[c].slot = s
       /\ \A d \in Conn \ {c} : thread'[d] = thread[d]
       /\ UNCHANGED <<handle, listener, overlap>>
       BY <1>1, <1>3
<1>13. \A q \in Slot \ {s} : client'[q] = client[q]  BY <1>8
<1>14. client'[s].opts = {} \/ thread'[c].at = "clear"  BY <1>3
<1> QED  BY <1>9, <1>10, <1>11, <1>12, <1>13, <1>14, ClearingSteps

LEMMA ClearKeeps ==
  ASSUME IInv, NEW c \in Conn, ClearDataRequest(c)
  PROVE  IInv'
<1> DEFINE s == thread[c].slot
           S == Seq(Conn \X Part)
           O == {}
           r == [client[s] EXCEPT !.opts = O]
<1>1. /\ thread[c].at = "clear"
      /\ client' = [client EXCEPT ![s] = r]
      /\ thread' = [thread EXCEPT ![c] = [NoThread EXCEPT !.at = "done"]]
      /\ UNCHANGED <<handle, listener, report, overlap>>
      BY DEF ClearDataRequest, Cleared
<1>2. TypeOK /\ ThreadInv /\ "done" \in Phase  BY DEF IInv, Phase
<1>3. /\ thread' \in [Conn -> ThreadType]
      /\ thread'[c].at = "done"
      /\ \A d \in Conn \ {c} : thread'[d] = thread[d]
  <2>1. PICK t \in [at : Phase, slot : 0..NumSlots, kind : Listener \cup {None},
                    frames : Nat, asked : Nat, opts : SUBSET Conn, serves : S] :
          t = NoThread
        BY NoThreadType DEF ThreadType
  <2> DEFINE u == [t EXCEPT !.at = "done"]
  <2>2. thread' = [thread EXCEPT ![c] = u]  BY <1>1, <2>1
  <2> HIDE DEF S
  <2>3. /\ u \in [at : Phase, slot : 0..NumSlots, kind : Listener \cup {None},
                  frames : Nat, asked : Nat, opts : SUBSET Conn, serves : S]
        /\ u.at = "done"
        BY <1>2, <2>1
  <2> HIDE DEF u
  <2>4. u \in ThreadType  BY <2>3 DEF ThreadType, S
  <2> QED  BY <1>2, <2>2, <2>3, <2>4 DEF TypeOK
<1>4. s \in Slot  BY <1>1, <1>2 DEF ThreadInv
<1>5. /\ client[s] \in [iacp : Conn \cup {None}, type : Part \cup {None},
                        list : S, opts : SUBSET Conn]
      /\ O \in SUBSET Conn /\ O = {}
      BY <1>2, <1>4 DEF TypeOK, ClientType
<1> HIDE DEF s, S, O
<1>6. /\ r \in [iacp : Conn \cup {None}, type : Part \cup {None},
                list : S, opts : SUBSET Conn]
      /\ r.iacp = client[s].iacp /\ r.list = client[s].list /\ r.opts = O
      BY <1>5
<1> HIDE DEF r
<1>7. r \in ClientType  BY <1>6 DEF ClientType, S
<1>8. /\ client' \in [Slot -> ClientType]
      /\ client'[s] = r
      /\ \A q \in Slot \ {s} : client'[q] = client[q]
      BY <1>1, <1>2, <1>4, <1>7 DEF TypeOK
<1>9. TypeOK'  BY <1>1, <1>2, <1>3, <1>8 DEF TypeOK
<1>10. s = thread[c].slot  BY DEF s
<1> QED  BY <1>1, <1>3, <1>4, <1>5, <1>6, <1>8, <1>9, <1>10, ClearingSteps

\* The process ends, and everything in it.
LEMMA ExitKeeps == ASSUME IInv, GracefulExit PROVE IInv'
<1>1. TypeOK'
      BY NoThreadType, UnusedType, ClientsAssumption
      DEF IInv, GracefulExit, TypeOK, ListenerType, Idle, ReportType, NoReport
<1>2. \A c \in Conn : thread'[c].at = None /\ handle'[c] = "closed"
      BY NoThreadType DEF GracefulExit
<1>3. \A l \in Listener : listener'[l].at = "block"  BY DEF GracefulExit, Idle
<1>4. HeldInv'  BY <1>3 DEF HeldInv, Held
<1>5. ThreadInv'  BY <1>2 DEF ThreadInv, Owns, None
<1>6. \A s \in Slot : ~Clearing(s)'  BY <1>2 DEF Clearing, None
<1>7. (OverlapInv /\ LeftInv)'
      BY <1>6, UnusedType DEF GracefulExit, OverlapInv, LeftInv
<1>8. (FreshInv /\ AskInv /\ ServeInv)'
      BY <1>2, <1>3 DEF FreshInv, AskInv, ServeInv, None
<1> QED  BY <1>1, <1>4, <1>5, <1>7, <1>8 DEF IInv

-----------------------------------------------------------------------------
(***************************************************************************)
(* The theorems.                                                           *)
(***************************************************************************)
LEMMA ReportKeeps ==
  ASSUME IInv, ClientReport \/ \E s \in Slot : LookAtClient(s)
  PROVE  IInv'
<1>1. UNCHANGED <<handle, listener, client, thread, overlap>>
      BY DEF ClientReport, LookAtClient, clients
<1>2. CASE ClientReport
  <2>1. report' \in ReportType
        BY <1>2, ClientsAssumption DEF ClientReport, NoReport, ReportType
  <2> QED  BY <1>1, <2>1, NothingSaid
<1>3. ASSUME NEW s \in Slot, LookAtClient(s) PROVE IInv'
  <2>1. client[s].iacp \in Conn \cup {None}  BY DEF IInv, TypeOK, ClientType
  <2>2. s \in 0..NumSlots  BY ClientsAssumption DEF Slot
  <2>3. report' \in ReportType  BY <1>3, <2>1, <2>2 DEF LookAtClient, ReportType
  <2> QED  BY <1>1, <2>3, NothingSaid
<1> QED  BY <1>2, <1>3

LEMMA NextKeeps == IInv /\ [Next]_vars => IInv'
<1> SUFFICES ASSUME IInv, [Next]_vars PROVE IInv'  OBVIOUS
<1>1. report \in ReportType  BY DEF IInv, TypeOK
<1>2. CASE UNCHANGED vars
      BY <1>1, <1>2, NothingSaid DEF vars
<1>3. ASSUME NEW l \in Listener, NEW c \in Conn, Accept(l, c) PROVE IInv'
      BY <1>3, AcceptKeeps
<1>4. ASSUME NEW l \in Listener, Listens(l) PROVE IInv'
      BY <1>4, BlockKeeps, ShutdownKeeps, TakeKeeps, ScanKeeps, RejectKeeps, CreateKeeps
      DEF Listens
<1>5. ASSUME NEW c \in Conn, NEW type \in Frame, ReceiveFrame(c, type) PROVE IInv'
      BY <1>5, ReceiveKeeps
<1>6. ASSUME NEW c \in Conn, ReceiveFails(c) PROVE IInv'
      BY <1>6, EndsRequest DEF ReceiveFails
<1>7. ASSUME NEW c \in Conn, ServeEnds(c) \/ Closes(c) PROVE IInv'
      BY <1>7, ServeEndsKeeps, CloseKeeps, UnlinkKeeps, ResetKeeps, ClearKeeps DEF Closes
<1>8. ASSUME NEW c \in Conn, PeerGoes(c) PROVE IInv'
  <2>1. UNCHANGED <<handle, listener, client, thread, overlap>> /\ report' = report
        BY <1>8 DEF PeerGoes, clients
  <2> QED  BY <1>1, <2>1, NothingSaid
<1> QED  BY <1>2, <1>3, <1>4, <1>5, <1>6, <1>7, <1>8, ReportKeeps, ExitKeeps DEF Next

LEMMA InvHolds == Spec => []IInv
<1>1. Init => IInv  BY InitOK
<1>2. IInv /\ [Next]_vars => IInv'  BY NextKeeps
<1> QED  BY <1>1, <1>2, PTL DEF Spec

\* A client is served what it asked for and no more, with its own options, as
\* long as it was not given a CLIENT still being cleared (the lists that
\* RespondToClientMessage fills and CloseClientConnection empties).
THEOREM OwnRequestServed == Spec => []OwnRequest
<1>1. IInv => OwnRequest  BY DEF IInv, ServeInv, Served, OwnRequest
<1> QED  BY <1>1, InvHolds, PTL

\* While a thread receives or serves, its handle is open and its CLIENT is its
\* own, whatever other threads clear, unlink and take (no use of a closed IACP).
THEOREM OpenWhileInUse == Spec => []OpenWhileUsed
<1>1. IInv => OpenWhileUsed
  <2> SUFFICES ASSUME IInv PROVE OpenWhileUsed  OBVIOUS
  <2>1. ThreadInv /\ report.iacp \in Conn \cup {None}
        BY DEF IInv, TypeOK, ReportType
  <2> QED  BY <2>1 DEF ThreadInv, Owns, OpenWhileUsed
<1> QED  BY <1>1, InvHolds, PTL
=============================================================================
