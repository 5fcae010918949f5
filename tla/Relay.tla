-------------------------------- MODULE Relay --------------------------------
(***************************************************************************)
(* A relay: isidl fed by another host's disk loop server                   *)
(* (src/bin/isidl/isi.c, write.c, exit.c).  It asks for the packet after   *)
(* the youngest one in its own loop, checks the number of each packet it   *)
(* is sent against sys.seqno, and writes it with the number it came with   *)
(* (module DiskLoop, without ISI_OPTION_GENERATE_SEQNO).  When anything    *)
(* goes wrong it reconnects, or the process exits and is started again.    *)
(*                                                                         *)
(* The server is what IsidSeqno promises a client that keeps up: an        *)
(* unbroken run of its packets, here numbered 1, 2, 3 and so on.           *)
(***************************************************************************)
EXTENDS DiskLoop

CONSTANTS HubPkt,     \* packets the server's loop can hold
          MaxBreaks   \* bound on what goes wrong: broken connections, failed
                      \* writes, relays killed or told to stop

ASSUME RelayAssumption ==
  /\ HubPkt \in Nat \ {0} /\ MaxBreaks \in Nat
  /\ Generate = FALSE

VARIABLES
  hub,     \* packets the server has: 1..hub, the last HubPkt of them readable
  online,  \* the relays that are connected
  next,    \* the number of the next packet the server sends to each
  net,     \* packets under way to each relay
  taken,   \* the packet each relay is writing, or NoPkt
  exiting, \* relays that hold for their main thread to exit
  breaks,  \* what has gone wrong so far
  missed,  \* history: numbers the server no longer had when asked for them
  cut      \* history: numbers whose write ended after WriteSeqno, uncommitted

relayvars == <<online, next, net, taken, exiting>>
rvars == <<vars, hub, relayvars, breaks, missed, cut>>

RInit ==
  /\ Init
  /\ hub = 0
  /\ online = {}
  /\ next = [p \in Pid |-> 1]
  /\ net = [p \in Pid |-> <<>>]
  /\ taken = [p \in Pid |-> NoPkt]
  /\ exiting = {}
  /\ breaks = 0
  /\ missed = {}
  /\ cut = {}

\* One more thing goes wrong.
Mishap == breaks < MaxBreaks /\ breaks' = breaks + 1

HubOldest == IF hub > HubPkt THEN hub - HubPkt + 1 ELSE 1
HubNewest == IF hub = 0 THEN 1 ELSE hub

HubWrites ==
  /\ hub < MaxSeqno
  /\ hub' = hub + 1
  /\ UNCHANGED <<vars, relayvars, breaks, missed, cut>>

-----------------------------------------------------------------------------
AskAgain(s) == s
SkipOne(s) == s + 2
After(s) == s + 1

\* GetBegSeqnoFromDiskLoop: where to take up the feed again.
BegSeqno ==
  IF index.yngest = Undefined THEN 1       \* ISI_OLDEST_SEQNO
  ELSE IF hdr[index.yngest] = NoPkt THEN HubNewest
  ELSE After(hdr[index.yngest])

Idle(p) == pc[p] = "ready" /\ taken[p] = NoPkt /\ p \notin exiting

\* ConnectToServer; a number older than the server's oldest gets the oldest.
Connect(p) ==
  /\ Idle(p) /\ p \notin online
  /\ online' = online \cup {p}
  /\ next' = [next EXCEPT ![p] = IF BegSeqno < HubOldest THEN HubOldest
                                                         ELSE BegSeqno]
  /\ missed' = missed \cup (BegSeqno..(HubOldest - 1))
  /\ UNCHANGED <<vars, hub, net, taken, exiting, breaks, cut>>

ServerSends(p) ==
  /\ p \in online /\ HubOldest <= next[p] /\ next[p] <= hub
  /\ net' = [net EXCEPT ![p] = Append(@, next[p])]
  /\ next' = [next EXCEPT ![p] = @ + 1]
  /\ UNCHANGED <<vars, hub, online, taken, exiting, breaks, missed, cut>>

Offline(p) ==
  /\ online' = online \ {p}
  /\ net' = [net EXCEPT ![p] = <<>>]

\* A reset, a timeout or a corrupt packet: what was under way is lost.
Break(p) ==
  /\ p \in online
  /\ Mishap
  /\ Offline(p)
  /\ UNCHANGED <<vars, hub, next, taken, exiting, missed, cut>>

\* The server overran the relay and alerts it of a server fault: Hold.
ServerFault(p) ==
  /\ Idle(p) /\ p \in online /\ net[p] = <<>> /\ next[p] < HubOldest
  /\ Offline(p)
  /\ exiting' = exiting \cup {p}
  /\ UNCHANGED <<vars, hub, next, taken, breaks, missed, cut>>

-----------------------------------------------------------------------------
\* VerifySequence: newer than anything sys.seqno has seen.
AcceptedWithGap(s) == count = 0 \/ s > seqno + 1
Accepted(s) == count = 0 \/ s > seqno

Receive(p) ==
  /\ Idle(p) /\ p \in online /\ net[p] # <<>>
  /\ net' = [net EXCEPT ![p] = Tail(@)]
  /\ taken' = IF Accepted(Head(net[p])) THEN [taken EXCEPT ![p] = Head(net[p])]
                                        ELSE taken
  /\ UNCHANGED <<vars, hub, online, next, exiting, breaks, missed, cut>>

\* Between the store of a packet's number and the commit.
HalfWritten(p) ==
  pc[p] \in WritePc \ {"locked", "backed", "activated", "committed", "counted"}

\* WritePacketToDisk: the disk loop's own steps, for the packet received.
Store(p) ==
  LET fails == HalfWritten(p) /\ pc'[p] = "ready"
  IN  /\ taken[p] # NoPkt
      /\ WriteLock(p) \/ Write(p)
      /\ pc[p] = "activated" => seqno' = taken[p]
      /\ taken' = IF pc'[p] = "ready" THEN [taken EXCEPT ![p] = NoPkt] ELSE taken
      /\ IF fails                                       \* Hold
           THEN Mishap /\ exiting' = exiting \cup {p} /\ cut' = cut \cup {seqno}
           ELSE UNCHANGED <<breaks, exiting, cut>>
      /\ UNCHANGED <<hub, online, next, net, missed>>

\* Exit, held for or told to: close the loop, once no write is in progress
\* (BlockShutdown).
Stop(p) ==
  /\ \/ CloseLock(p) /\ taken[p] = NoPkt
        /\ IF p \in exiting THEN UNCHANGED breaks ELSE Mishap
     \/ Close(p) /\ UNCHANGED breaks
  /\ Offline(p)
  /\ exiting' = exiting \ {p}
  /\ UNCHANGED <<hub, next, taken, missed, cut>>

Start(p) ==
  /\ At(p, "dead", "start") \/ Open(p)
  /\ pc[p] = "dead" =>
       UNCHANGED <<sysvars, hdr, raw, wlock, rlock, log>>
  /\ UNCHANGED <<hub, relayvars, breaks, missed, cut>>

Kill(p) ==
  /\ Crash(p)
  /\ Mishap
  /\ Offline(p)
  /\ taken' = [taken EXCEPT ![p] = NoPkt]
  /\ exiting' = exiting \ {p}
  /\ cut' = IF HalfWritten(p) THEN cut \cup {seqno} ELSE cut
  /\ UNCHANGED <<hub, next, missed>>

RNext ==
  \/ HubWrites
  \/ \E p \in Pid : \/ Start(p) \/ Connect(p) \/ ServerSends(p) \/ Break(p)
                    \/ ServerFault(p) \/ Receive(p) \/ Store(p) \/ Stop(p)
                    \/ Kill(p)

RSpec == RInit /\ [][RNext]_rvars

\* The relay is started whenever it is down, reconnects (it retries every 80
\* seconds at least), goes on with what it can do and exits when it has to; the
\* server sends what it has.
Goes(p) == \/ Start(p) \/ Connect(p) \/ ServerFault(p) \/ Receive(p) \/ Store(p)
           \/ (p \in exiting \/ pc[p] \in ClosePc) /\ Stop(p)
RFairSpec ==
  RSpec /\ \A p \in Pid : WF_rvars(Goes(p)) /\ WF_rvars(ServerSends(p))

-----------------------------------------------------------------------------
(* Properties.                                                              *)

\* The packets of the server reach the loop in order and at most once,
\* however often the connection breaks or the relay dies.
StoredOnce == \A i, j \in 1..Len(log) : i < j => log[i] < log[j]

\* The one way to lose a packet the server had is a write that is cut short
\* between the store of its number and the commit.
LostOnlyIfCut ==
  \A s \in 1..MaxSeqno :
    (\E i \in 1..Len(log) : s < log[i]) =>
       s \in missed \cup cut \/ \E i \in 1..Len(log) : s = log[i]

\* A relay that is left to run has the server's newest packet in the end, unless
\* it lost that one, even if it has to be started again after an overrun.
EventuallyStored ==
  <>[](hub > 0 => \/ hub \in cut
                  \/ Len(log) > 0 /\ log[Len(log)] = hub)
=============================================================================
