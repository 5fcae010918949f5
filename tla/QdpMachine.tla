----------------------------- MODULE QdpMachine -----------------------------
(***************************************************************************)
(* The state machine that keeps a connection with a Q330 digitiser         *)
(* (src/lib/qdp/fsa.c, action.c, cmds.c and the table in include/qdp/      *)
(* fsa.h).  Threads that listen on the control and the data port, take the *)
(* application's commands and watch the clock post events; one thread      *)
(* handles them.  The one event buffer there is makes them take turns.     *)
(*                                                                         *)
(* The digitiser is arbitrary: any packet may arrive at any time, none has *)
(* to.  What a packet is, is decided when its event is handled: nothing    *)
(* looks at it before.  Data packets go straight to the application here;  *)
(* QdpReorder is about their order.                                        *)
(***************************************************************************)
EXTENDS Naturals, Sequences, Functions

CONSTANTS Console,   \* a serial console, whose serial number has to be asked for?
          Started,   \* the threads qdpStartFSA creates, in its order
          Buffers,   \* packet buffers
          MaxUp,     \* bound: how often the connection is registered
          MayFail    \* may a thread fail to be created?

Thread == Range(Started)
DataLink == "Data" \in Thread

ASSUME MachineAssumption ==
  /\ Console \in BOOLEAN /\ MayFail \in BOOLEAN
  /\ Buffers \in Nat \ {0} /\ MaxUp \in Nat
  /\ IsInjective(Started)
  /\ Started \in Seq({"Event", "Ctrl", "Appcmd", "Data", "Heartbeat", "Watchdog"})
  /\ {"Event", "Ctrl", "Appcmd"} \subseteq Thread

VARIABLES
  qp,      \* the handle: what the actions of the machine change
  event,   \* where the one event buffer is: in the heap, or full with this event
  pc,      \* where each thread is
  caller,  \* where the application's thread is in the library
  proc     \* "live", or why nothing of the handle can be relied on any more

mvars == <<qp, event, pc, caller, proc>>

NoEvent == "heap"

\* The states that wait for something during the handshake, in order.
Waiting == {"WAITSN", "RQSRV", "SRVRSP", "WAIT_C1_FIX", "WAIT_C1_LOG",
            "WAIT_C2_EPD", "WAIT_C1_FLGS", "WAITTOKEN"}
Registered == {"WAIT_C1_FIX", "WAIT_C1_LOG", "WAIT_C2_EPD", "WAIT_C1_FLGS", "WAITTOKEN"}
Unasked == {"NEEDSN", "UNREG"}
State == Unasked \cup Waiting \cup {"READY", "OFF"}
initial == IF Console THEN "NEEDSN" ELSE "UNREG"

CtrlPacket == {"MYSN", "SRVCH", "NOTREG", "CERR", "CACK", "C1_FIX", "C1_LOG", "C2_EPD",
               "C1_FLGS", "TOKEN_SOME", "TOKEN_DONE", "CTRL"}
DataPacket == {"DATA", "FILL", "UKNDATA"}

\* SEM_INIT and the rest of qdpInit.  cmd is the command in hand, cmdfull the
\* one queued; ups, a history, how often the layer has come up; early, whether
\* the machine was turned off before the application had it begin.
MInit ==
  /\ qp = [state |-> initial, tld |-> FALSE, failed |-> FALSE, nthread |-> 0, open |-> TRUE,
           heap |-> Buffers, automaton |-> 0, watchdog |-> 0,
           cmdheap |-> 1, cmdfull |-> "none", cmd |-> "none", attempts |-> 0, cmdsem |-> 0,
           next |-> "nochange", ups |-> 0, early |-> FALSE]
  /\ event = NoEvent
  /\ pc = [t \in Thread |-> "none"]
  /\ caller = [at |-> "create", started |-> 0]
  /\ proc = "live"

-----------------------------------------------------------------------------
(* The table of include/qdp/fsa.h: what is done for an event in a state, and  *)
(* the state after.  -1 is the table's own mark of what can never happen.     *)

Never == "-1"

Awaited(s) ==
  CASE s = "WAITSN"       -> "MYSN"
    [] s = "RQSRV"        -> "SRVCH"
    [] s = "SRVRSP"       -> "CACK"
    [] s = "WAIT_C1_FIX"  -> "C1_FIX"
    [] s = "WAIT_C1_LOG"  -> "C1_LOG"
    [] s = "WAIT_C2_EPD"  -> "C2_EPD"
    [] s = "WAIT_C1_FLGS" -> "C1_FLGS"
    [] s = "WAITTOKEN"    -> "TOKEN_DONE"

Received(s) ==
  CASE s = "WAITSN"       -> <<"LDSN", "SRVRQ">>
    [] s = "RQSRV"        -> <<"DECODECH", "SEND">>
    [] s = "SRVRSP"       -> <<"SEND">>
    [] s = "WAIT_C1_FIX"  -> <<"LD_C1_FIX", "REGISTERED">>
    [] s = "WAIT_C1_LOG"  -> <<"LD_C1_LOG">>
    [] s = "WAIT_C2_EPD"  -> <<"LD_C2_EPD", "SEND">>
    [] s = "WAIT_C1_FLGS" -> <<"LD_C1_FLGS", "SEND">>
    [] s = "WAITTOKEN"    -> <<"LD_TOKENS", "SEND", "TLU">>

HandshakeActions(s, e) ==
  CASE e = "WATCHDOG" -> IF s \in Unasked THEN <<>> ELSE <<"WATCHDOG">>
    [] e \in {"DTO", "HBEAT", "APPCMD"} -> <<>>
    [] e \in {"CTO", "CRCERR"} -> IF s \in Unasked THEN <<>> ELSE <<"SEND">>
    [] s \in Waiting /\ e = Awaited(s) -> Received(s)
    [] s = "WAITTOKEN" /\ e = "TOKEN_SOME" -> <<"LD_TOKENS", "SEND">>
    [] s \in Waiting /\ e = "CERR" -> <<"REGERR">>
    [] s \in Registered /\ e = "NOTREG" -> <<"SRVRQ">>
    [] OTHER -> <<"DROP">>

ReadyActions(e) ==
  CASE e = "NOTREG" -> <<"FLUSH", "START", "SRVRQ">>
    [] e \in {"CERR", "CACK"} -> <<e>>
    [] e \in CtrlPacket \ {"NOTREG", "CERR", "CACK"} -> <<"CTRL">>
    [] e = "WATCHDOG" -> <<Never>>
    [] e \in {"CTO", "APPCMD"} -> <<"APPCMD">>
    [] e = "DATA" -> <<"DATA", "SEND">>
    [] e = "FILL" -> <<"FILL", "SEND", Never>>
    [] e = "UKNDATA" -> <<"DROP", "SEND", Never>>
    [] e \in {"CRCERR", "DTO", "HBEAT"} -> <<"SEND">>

Actions(s, e) ==
  CASE s = "OFF" -> <<Never>>
    [] s /= "OFF" /\ e = "UP" -> IF s = "NEEDSN" THEN <<"START", "SEND">>
                                 ELSE IF s = "UNREG" THEN <<"START", "SRVRQ">>
                                 ELSE <<Never>>
    [] s /= "OFF" /\ e = "OFF" -> <<"TLD">>
    [] s /= "OFF" /\ e = "IOERR" -> <<"IOERR">>
    [] s = "READY" /\ e \notin {"UP", "OFF", "IOERR"} -> ReadyActions(e)
    [] OTHER -> HandshakeActions(s, e)

After(s) ==
  CASE s = "WAITSN"       -> "RQSRV"
    [] s = "RQSRV"        -> "SRVRSP"
    [] s = "SRVRSP"       -> "WAIT_C1_FIX"
    [] s = "WAIT_C1_FIX"  -> Never         \* ActionREGISTERED's to decide
    [] s = "WAIT_C1_LOG"  -> Never         \* ActionLD_C1_LOG's to decide
    [] s = "WAIT_C2_EPD"  -> "WAIT_C1_FLGS"
    [] s = "WAIT_C1_FLGS" -> "WAITTOKEN"
    [] s = "WAITTOKEN"    -> "READY"

NextState(s, e) ==
  CASE s = "NEEDSN" /\ e = "UP" -> "WAITSN"
    [] s = "UNREG" /\ e = "UP" -> "RQSRV"
    [] s = "UNREG" /\ e \in {"CTO", "WATCHDOG"} -> Never
    [] s \notin {"NEEDSN", "WAITSN", "READY"} /\ e = "APPCMD" -> Never
    [] s \in Waiting /\ e = Awaited(s) -> After(s)
    [] OTHER -> "nochange"

-----------------------------------------------------------------------------
(* The actions (action.c), on the handle.  q.heap counts the free packet      *)
(* buffers: what does not return the event's packet has lost its buffer.      *)
(* What is only sent or logged changes nothing here ("SEND").                 *)

Return(q) == [q EXCEPT !.heap = @ + 1]

Pill(q) == IF q.cmdheap = 1 THEN [q EXCEPT !.cmdheap = 0, !.cmdfull = "pill"] ELSE q

LeavesCommands(q) == [q EXCEPT !.next = "OFF", !.tld = TRUE, !.watchdog = @ + 1]
WakesCaller(q) ==
  [Pill(q) EXCEPT !.next = "OFF", !.tld = TRUE, !.watchdog = @ + 1, !.automaton = @ + 1]
ActionTLD(q) == [Pill(q) EXCEPT !.next = "OFF", !.tld = TRUE, !.watchdog = @ + 1]

Fail(q) == ActionTLD([q EXCEPT !.failed = TRUE])

ActionTLU(q) ==
  [q EXCEPT !.next = "READY", !.failed = FALSE, !.automaton = @ + 1, !.ups = @ + 1]

\* The pending command is done with: its buffer and its caller are released.
Answer(q) ==
  [q EXCEPT !.cmd = "none", !.cmdheap = @ + 1, !.cmdsem = @ + 1]

QDP_MAX_CMD_ATTEMPTS == 2
NeverGivesUp(q) ==
  CASE q.cmd = "none" -> q
    [] OTHER -> [q EXCEPT !.cmd = "sent"]
ActionAPPCMD(q) ==
  CASE q.cmd = "none" -> q
    [] q.cmd /= "none" /\ q.attempts > QDP_MAX_CMD_ATTEMPTS -> Answer(q)
    [] OTHER -> [q EXCEPT !.cmd = "sent", !.attempts = @ + 1]

ActionLD_C1_LOG(q, how) ==
  CASE how = "disabled" -> Fail(q)
    [] how = "environment" -> [q EXCEPT !.next = "WAIT_C2_EPD"]
    [] OTHER -> [q EXCEPT !.next = "WAIT_C1_FLGS"]

ActionREGISTERED(q) ==
  IF DataLink THEN [q EXCEPT !.next = "WAIT_C1_LOG"] ELSE ActionTLU(q)

\* An error reply to what the machine itself asked for keeps its packet.
ActionReply(q, how) ==
  CASE how = "user" -> Answer(Return(q))
    [] how = "automaton" -> q
    [] OTHER -> Return(q)

Effect(a, how, q) ==
  CASE a \in {"SEND", "FLUSH"} -> q
    [] a \in {"LDSN", "DECODECH", "LD_C1_FIX", "LD_C2_EPD", "LD_C1_FLGS", "LD_TOKENS",
              "FILL", "DROP"} -> Return(q)
    [] a = "START" -> IF "Watchdog" \in Thread THEN [q EXCEPT !.watchdog = @ + 1] ELSE q
    [] a = "SRVRQ" -> [q EXCEPT !.next = "RQSRV"]
    [] a = "REGISTERED" -> ActionREGISTERED(q)
    [] a = "LD_C1_LOG" -> ActionLD_C1_LOG(Return(q), how)
    [] a = "TLU" -> ActionTLU(q)
    [] a \in {"TLD", "IOERR"} -> ActionTLD(q)
    [] a = "WATCHDOG" -> Fail(q)
    [] a = "REGERR" -> Fail(Return(q))
    [] a = "APPCMD" -> ActionAPPCMD(q)
    [] a = "DATA" -> IF how = "clash" THEN ActionTLD(q) ELSE Return(q)
    [] a \in {"CERR", "CACK", "CTRL"} -> ActionReply(q, how)
    [] a = Never -> [q EXCEPT !.next = "OFF"]

\* An invalid next state turns the machine off.
ChangeState(q) ==
  [q EXCEPT !.state = CASE q.next = "nochange" -> @
                        [] q.next \in State -> q.next
                        [] q.next = Never -> "OFF",
            !.next = "nochange"]

\* EventHandler goes through the list, of MAX_ACTION_PER_EVENT = 3 at the most,
\* and looks after each action whether there is an error code.
Perform(list, i, how, q) ==
  IF i \in DOMAIN list /\ (i = 1 \/ ~q.failed) THEN Effect(list[i], how, q) ELSE q

EventHandler(q, code, how) ==
  LET list == Actions(q.state, code)
      set == [q EXCEPT !.next = NextState(q.state, code)]
  IN  ChangeState(Perform(list, 3, how, Perform(list, 2, how, Perform(list, 1, how, set))))

\* What the machine can find in a packet that makes a difference.  A reply to
\* the user's command needs the command to have been sent (sender()).
How(code) ==
  CASE code = "C1_LOG" /\ qp.state = "WAIT_C1_LOG" -> {"disabled", "environment", "plain"}
    [] code = "DATA" /\ qp.state = "READY" -> {"new", "clash"}
    [] code \in CtrlPacket /\ qp.state = "READY" ->
         {"other"} \cup (IF qp.cmd = "sent" THEN {"user"} ELSE {})
                   \cup (IF code = "CERR" THEN {"automaton"} ELSE {})
    [] OTHER -> {"other"}

\* An event's codes, by who posted it.
Codes(e) ==
  CASE e = "ctrl packet"  -> CtrlPacket
    [] e = "data packet"  -> DataPacket
    [] e = "ctrl nothing" -> {"CTO", "CRCERR", "IOERR"}
    [] e = "data nothing" -> {"DTO", "CRCERR", "IOERR"}
    [] OTHER -> {e}

-----------------------------------------------------------------------------
(* The threads (fsa.c).                                                       *)

Runs(t, p) == proc = "live" /\ pc[t] = p
Place(t, p) == pc' = [pc EXCEPT ![t] = p]

\* TerminateSelf.
LeavesOpen(q) == [q EXCEPT !.nthread = @ - 1]
ClosesAtOnce(q) ==
  [q EXCEPT !.nthread = @ - 1, !.open = FALSE, !.automaton = @ + (IF q.nthread = 1 THEN 1 ELSE 0)]
TellsEach(q) ==
  [q EXCEPT !.nthread = @ - 1, !.open = @ /\ q.nthread > 1, !.automaton = @ + 1]
Exit(q) ==
  IF q.nthread = 1
    THEN [q EXCEPT !.nthread = 0, !.open = FALSE, !.automaton = @ + 1]
    ELSE [q EXCEPT !.nthread = @ - 1]
TerminateSelf(t) == Place(t, "dead") /\ qp' = Exit(qp)

Starting == {"create", "launch", "up"}   \* where qdpStartFSA is until it has posted UP
Off == qp.state = "OFF"
Down == qp.tld \/ Off

\* PostEvent: the event buffer is free and the machine is not off.
PostEvent(e) == event = NoEvent /\ ~Off /\ event' = e
PostRefused == event = NoEvent /\ Off /\ UNCHANGED event

\* A thread that was just created counts itself and says so.
Begin(t, p) ==
  /\ Runs(t, "created")
  /\ Place(t, p)
  /\ qp' = [qp EXCEPT !.nthread = @ + 1, !.automaton = @ + 1]
  /\ UNCHANGED <<event, caller, proc>>

Posts(t, from, e, to) ==
  /\ Runs(t, from)
  /\ \/ PostEvent(e) /\ Place(t, to) /\ UNCHANGED qp
     \/ PostRefused /\ TerminateSelf(t)
  /\ UNCHANGED <<caller, proc>>

HandleEvent(code, how) ==
  /\ Runs("Event", "ready") /\ event /= NoEvent
  /\ code \in Codes(event) /\ how \in How(code)
  /\ (code = "NOTREG" /\ qp.state \in Registered \cup {"READY"}) => qp.ups < MaxUp
  /\ LET q == EventHandler(qp, code, how)
     IN  qp' = [q EXCEPT !.early = @ \/ (caller.at \in Starting /\ q.state = "OFF")]
  /\ Place("Event", "handled")
  /\ UNCHANGED <<event, caller, proc>>

FreeEvent ==
  /\ Runs("Event", "handled")
  /\ event' = NoEvent
  /\ IF Off THEN TerminateSelf("Event") ELSE Place("Event", "ready") /\ UNCHANGED qp
  /\ UNCHANGED <<caller, proc>>

EventThread == \/ Begin("Event", "ready")
               \/ \E code \in Codes(event) : \E how \in How(code) : HandleEvent(code, how)
               \/ FreeEvent

\* qdpRecvPkt: a buffer from the heap, then a packet or none.
TakeBuffer(t) ==
  /\ Runs(t, "ready") /\ qp.heap > 0
  /\ Place(t, "listen")
  /\ qp' = [qp EXCEPT !.heap = @ - 1]
  /\ UNCHANGED <<event, caller, proc>>

RecvPkt(t) ==
  /\ Runs(t, "listen")
  /\ IF Down THEN TerminateSelf(t) ELSE Place(t, "packet") /\ UNCHANGED qp
  /\ UNCHANGED <<event, caller, proc>>

RecvNothing(t) ==
  /\ Runs(t, "listen")
  /\ IF Down THEN Place(t, "dead") /\ qp' = Exit(Return(qp))
             ELSE Place(t, "nothing") /\ qp' = Return(qp)
  /\ UNCHANGED <<event, caller, proc>>

CtrlThread == \/ Begin("Ctrl", "ready")
              \/ TakeBuffer("Ctrl") \/ RecvPkt("Ctrl") \/ RecvNothing("Ctrl")
              \/ Posts("Ctrl", "packet", "ctrl packet", "ready")
              \/ Posts("Ctrl", "nothing", "ctrl nothing", "ready")
DataThread == \/ Begin("Data", "ready")
              \/ TakeBuffer("Data") \/ RecvPkt("Data") \/ RecvNothing("Data")
              \/ Posts("Data", "packet", "data packet", "ready")
              \/ Posts("Data", "nothing", "data nothing", "ready")

\* qp->cmd.msg is set, then attempts is cleared; the event thread looks at both.
TakeCmd ==
  /\ Runs("Appcmd", "ready") /\ qp.cmdfull /= "none"
  /\ Place("Appcmd", "taken")
  /\ qp' = [qp EXCEPT !.cmd = "unsent", !.cmdfull = "none"]
  /\ UNCHANGED <<event, caller, proc>>

ClearAttempts ==
  /\ Runs("Appcmd", "taken")
  /\ IF qp.tld THEN TerminateSelf("Appcmd")
               ELSE Place("Appcmd", "cleared") /\ qp' = [qp EXCEPT !.attempts = 0]
  /\ UNCHANGED <<event, caller, proc>>

\* cmd.msg->data: there is no such message if the command was given up already.
PrepareCmd ==
  /\ Runs("Appcmd", "cleared")
  /\ IF qp.cmd = "none" THEN proc' = "crashed" /\ UNCHANGED pc
                        ELSE Place("Appcmd", "packet") /\ UNCHANGED proc
  /\ UNCHANGED <<qp, event, caller>>

AppcmdThread == \/ Begin("Appcmd", "ready")
                \/ TakeCmd \/ ClearAttempts
                \/ Posts("Appcmd", "packet", "APPCMD", "ready")

\* The interval is over, or it is noticed that the machine is down.
Beat ==
  /\ Runs("Heartbeat", "ready")
  /\ IF Down THEN TerminateSelf("Heartbeat") ELSE Place("Heartbeat", "packet") /\ UNCHANGED qp
  /\ UNCHANGED <<event, caller, proc>>

HeartbeatThread == \/ Begin("Heartbeat", "ready")
                   \/ Beat
                   \/ Posts("Heartbeat", "packet", "HBEAT", "ready")

WakeWatchdog ==
  /\ Runs("Watchdog", "ready") /\ qp.watchdog > 0
  /\ LET q == [qp EXCEPT !.watchdog = @ - 1]
     IN  IF qp.tld THEN Place("Watchdog", "dead") /\ qp' = Exit(q)
                   ELSE Place("Watchdog", "asleep") /\ qp' = q
  /\ UNCHANGED <<event, caller, proc>>

WatchdogExpires ==
  /\ Runs("Watchdog", "asleep")
  /\ IF Down THEN TerminateSelf("Watchdog")
             ELSE /\ Place("Watchdog", IF qp.state = "READY" THEN "ready" ELSE "packet")
                  /\ UNCHANGED qp
  /\ UNCHANGED <<event, caller, proc>>

\* Unlike the others it does not look at what PostEvent returns.
PostWatchdog ==
  /\ Runs("Watchdog", "packet")
  /\ PostEvent("WATCHDOG") \/ PostRefused
  /\ Place("Watchdog", "ready")
  /\ UNCHANGED <<qp, caller, proc>>

WatchdogThread == Begin("Watchdog", "ready") \/ WakeWatchdog \/ WatchdogExpires \/ PostWatchdog

-----------------------------------------------------------------------------
(* The application: qdpConnect (qdpStartFSA), commands (qdpPostCmd, always    *)
(* waiting for the answer) and qdpShutdown.                                   *)

At(p) == caller.at = p
Calls(p) == proc = "live" /\ At(p)
GoTo(p) == caller' = [caller EXCEPT !.at = p]

CreateThread ==
  /\ Calls("create") /\ caller.started < Len(Started)
  /\ Place(Started[caller.started + 1], "created")
  /\ caller' = [caller EXCEPT !.at = "launch", !.started = @ + 1]
  /\ UNCHANGED <<qp, event, proc>>

\* qdpStartFSA returns FALSE and qdpConnect frees the handle.
CreateFails ==
  /\ MayFail
  /\ Calls("create") /\ caller.started < Len(Started)
  /\ GoTo("failed") /\ proc' = "freed"
  /\ UNCHANGED <<qp, event, pc>>

\* SEM_WAIT(Automaton): for a thread's launch, for the machine to come up or
\* go down, for the last thread to end.
WaitAutomaton(from) ==
  /\ Calls(from) /\ qp.automaton > 0
  /\ qp' = [qp EXCEPT !.automaton = @ - 1]

Launched == WaitAutomaton("launch") /\ GoTo("create") /\ UNCHANGED <<event, pc, proc>>

SetInitial ==
  /\ Calls("create") /\ caller.started = Len(Started)
  /\ qp' = [qp EXCEPT !.state = initial]
  /\ GoTo("up")
  /\ UNCHANGED <<event, pc, proc>>

PostUp ==
  /\ Calls("up")
  /\ PostEvent("UP") \/ PostRefused
  /\ GoTo("waitup")
  /\ UNCHANGED <<qp, pc, proc>>

Connected ==
  /\ WaitAutomaton("waitup")
  /\ IF qp.failed THEN GoTo("failed") /\ proc' = "freed"
                  ELSE GoTo("connected") /\ UNCHANGED proc
  /\ UNCHANGED <<event, pc>>

Call(to) ==
  /\ Calls("connected")
  /\ GoTo(to)
  /\ UNCHANGED <<qp, event, pc, proc>>

\* qdpPostCmd, for a command or for the deregistration that begins a shutdown.
PostCmd(from, to) ==
  /\ Calls(from) /\ qp.cmdheap > 0
  /\ qp' = [qp EXCEPT !.cmdheap = 0, !.cmdfull = "command"]
  /\ GoTo(to)
  /\ UNCHANGED <<event, pc, proc>>

CmdDone(from, to) ==
  /\ Calls(from) /\ qp.cmdsem > 0
  /\ qp' = [qp EXCEPT !.cmdsem = @ - 1]
  /\ GoTo(to)
  /\ UNCHANGED <<event, pc, proc>>

PostOff ==
  /\ Calls("off")
  /\ \/ PostEvent("OFF") /\ GoTo("waitoff")
     \/ PostRefused /\ GoTo("refused")
  /\ UNCHANGED <<qp, pc, proc>>

Destroy ==
  /\ WaitAutomaton("waitoff")
  /\ GoTo("closed") /\ proc' = "freed"
  /\ UNCHANGED <<event, pc>>

-----------------------------------------------------------------------------
Threads ==
  \/ EventThread \/ CtrlThread \/ AppcmdThread \/ PrepareCmd
  \/ "Data" \in Thread /\ DataThread
  \/ "Heartbeat" \in Thread /\ HeartbeatThread
  \/ "Watchdog" \in Thread /\ WatchdogThread

InLibrary ==
  \/ CreateThread \/ CreateFails \/ Launched \/ SetInitial \/ PostUp \/ Connected
  \/ PostCmd("command", "waitcmd") \/ CmdDone("waitcmd", "connected")
  \/ PostCmd("shutdown", "deregister") \/ CmdDone("deregister", "off")
  \/ PostOff \/ Destroy

MNext == Threads \/ InLibrary \/ Call("command") \/ Call("shutdown")

MSpec == MInit /\ [][MNext]_mvars

\* Every thread runs, and one that waits for a semaphore that is posted again
\* and again gets it; the control port does time out again and again.
MFairSpec ==
  /\ MSpec
  /\ SF_mvars(EventThread) /\ SF_mvars(HandleEvent("CTO", "other"))
  /\ SF_mvars(CtrlThread) /\ SF_mvars(RecvNothing("Ctrl"))
  /\ SF_mvars(AppcmdThread \/ PrepareCmd)
  /\ "Data" \in Thread => SF_mvars(DataThread)
  /\ "Heartbeat" \in Thread => SF_mvars(HeartbeatThread)
  /\ "Watchdog" \in Thread => SF_mvars(WatchdogThread)
  /\ SF_mvars(InLibrary)

-----------------------------------------------------------------------------
(* Properties.                                                                *)

Alive == {t \in Thread : pc[t] \notin {"none", "dead"}}

\* The machine was started in full, and has not come up another time nor before
\* it failed.  Otherwise the Automaton semaphore has posts that mean something
\* else than what the thread that waits for it takes them for.
Orderly == /\ caller.started = Len(Started) /\ ~qp.early
           /\ qp.ups <= IF At("failed") THEN 0 ELSE 1

\* "TerminateSelf() is now the *only* place where these sockets can get closed":
\* no thread that could still use them is left.
SocketsOutliveThreads == ~qp.open /\ ~qp.early => Alive = {}

\* The handle is freed, by a failed connect or at the end of a shutdown, only
\* when every thread that works on it is gone.
HandleOutlivesThreads == proc = "freed" /\ Orderly => Alive = {}

\* qdpStartFSA returns success when the machine is up; after an I/O error in
\* the handshake, which leaves no error code, when it is dead to the last thread.
ConnectedIsUpOrDead ==
  At("connected") /\ Orderly => qp.ups = 1 \/ (Off /\ Alive = {} /\ ~qp.open)

\* Buffers the actions have lost leave the ports' threads waiting for one.
Drained ==
  /\ qp.heap = 0
  /\ event \notin {"ctrl packet", "data packet"}
  /\ \A t \in Alive : pc[t] \notin {"listen", "packet"} \/ t \notin {"Ctrl", "Data"}

\* A command is answered, by the digitiser or by giving it up, unless the
\* machine leaves READY under it, to register again or for good.
CommandAnswered ==
  At("waitcmd") /\ ~qp.early ~> ~At("waitcmd") \/ qp.state /= "READY" \/ Drained \/ proc = "crashed"

\* Once off, every thread ends; but if the machine went off without ActionTLD
\* nothing wakes the two that wait for a command or for the next handshake, and
\* if it did while a command was with the digitiser, the first of them.
Stranded ==
  (IF ~qp.tld \/ qp.cmd = "sent" THEN {"Appcmd"} ELSE {})
    \cup (IF qp.tld THEN {} ELSE {"Watchdog"})
ThreadsEnd == Off /\ ~qp.early ~> Alive \subseteq Stranded \/ Drained \/ proc /= "live"

\* A shutdown that got to the machine ends with the handle destroyed.
ShutdownCompletes == At("waitoff") /\ ~qp.early ~> proc /= "live" \/ Drained
=============================================================================
