# A verification project for NRTS/ISI data acquisition

This directory holds TLA+ specifications of the core of the NRTS/ISI data
acquisition software, from the digitiser's packets to the disk loops and their
clients, the TLC configurations that check them on small instances, and proofs,
checked by TLAPS, of the main properties of the disk loops, the search, the
server, the relay, isid's client slots, the packet push and the digitiser's data channel for
every size. `PROJECT.json` lists components, runs, hazards,
findings and theorems, and maps every definition to the lines it models.

    tlc -config DiskLoopCrash.cfg MCDiskLoop     # any run: see "Runs"
    tlapm DiskLoopProofs.tla                     # any module of "Proofs"

1. [The system](#1-the-system) - 2. [Modules](#2-modules) -
3. [Runs](#3-runs) - 4. [Proofs](#4-proofs) - 5. [Findings](#5-findings) -
6. [Abstractions](#6-abstractions) - 7. [Plan](#7-plan)


## 1. The system

A station's digitiser data arrive as packets. A *writer* (isidl, sbds, siomet,
isi330, ...) stores them in the station's *ISI disk loop*, a ring of packet
slots in files. *isid* is the disk loop server: it sends clients the packets
they ask for over TCP. A client may itself be a writer: a *relay*, isidl at the
data centre, keeps a copy of the remote loop. Other parts feed and drain these.

| Component | State | Operations | Interacts through |
|---|---|---|---|
| Disk loop (`lib/isidl/dl.c`, `sys.c`) | a memory-mapped `sys` page (indices and their backup, state, sequence number, count, parent pid) and the hdr and raw files | create, open, write, close, snapshot, read packet | a page and files shared by every process of the host; one fcntl lock |
| Background writers (`bin/isidl/bground.c`, `bin/qhlp/bground.c`) | the parent's process id in `sys` | fork, hand over | fork(); the `sys` page |
| Sequence search (`lib/isidl/search.c`) | none: a function of a snapshot and the hdr file | where to begin a request | called by isid |
| isid, sequence requests (`bin/isid/seqno.c`) | per client: status, count, begin/end/next slot | check request, snapshot, choose a batch, read and forward | threads on one loop handle; TCP to the client |
| Relay (`bin/isidl/isi.c`, `write.c`, `exit.c`) | the loop's own `sys.seqno`, a connection | resume, verify, write, reconnect, hold, exit | TCP to isid; the disk loop; a shutdown mutex |
| isid clients (`bin/isid/client.c`, `service.c`, `respond.c`, `report.c`, `die.c`, `echo.c`) | a table of client slots, the request each collects, a mutex that is the shutdown's gate | accept, collect, serve, release, report, exit | two listeners, a thread per client, the status server |
| isid, time window requests (`bin/isid/twind.c`) | per stream: status, count, begin/end/next slot | copy a channel's entry, choose a batch, read and forward | the NRTS channel loops, without a lock |
| NRTS channel loops (`lib/nrts`) | per channel: indices, status and count in a mapped file; hdr and data files | open, write, read, search by time | isidl's writer; any reader |
| IACP (`lib/iacp`) | a handle: socket, sequence number, a flag that disables it | connect, handshake, send and receive frames, alert | TCP, timeouts |
| Packet push (`lib/isi/push.c`, `lib/isidl/push.c`) | a queue of empty and one of full buffers, a connection; a thread per connection at the other end | push a packet, connect, send, heartbeat; receive and store | two queues between two threads; IACP; the disk loop under isidl's shutdown mutex |
| SeedLink feed (`lib/isidl/slink.c`) | a bounded queue, a thread | append, drain to ringserver | mutex and queue with the writer |
| Message queue (`lib/msgq`) | list, heap, full-queue, semaphores | get, put, flush | threads |
| QDP connection (`lib/qdp/fsa.c`, `action.c`, `cmds.c`) | a state of the table in `include/qdp/fsa.h`, the pending command, thread count, semaphores, buffers | connect, command, shut down; handle an event | six threads, one event buffer; UDP to a Q330 |
| QDP reorder buffer (`lib/qdp/reorder.c`) | a window of 128 packets over 16 bit numbers, acknowledge bits | receive, acknowledge, deliver, flush, register | the connection's event thread; the pool of packet buffers |

What is hard about them, and what would make each correct:

* **Disk loop.** The writer may die between any two stores to the page, and
  the page outlives it; so may the process that repairs it. Readers read while
  a dead writer's half-done update is in place. *The window of readable packets
  must be the newest committed ones, whole, whatever died where; at most one
  process may be the writer; a number is never used twice; nothing changes
  under a reader's lock; the lock comes back.*
* **Background writers.** The process whose id is in the page is not the one
  that writes until the hand-over is done. *Still one writer.*
* **Search.** A wrapped ring with gaps in the numbering, and boundaries in
  every direction. *The first packet wanted, or a right reason why not; never
  a hidden slot.*
* **isid.** A snapshot is stale as soon as it is taken, batches are joined by
  modular arithmetic on counts, threads share one lock that does not exclude
  them. *An unbroken run of whole packets; every packet in the end; an end for
  requests that have one.*
* **Relay.** Connections break with packets under way, writes fail half way,
  the process is killed and started again, the server overruns it.
  *Each packet once and in order; which may be lost, exactly; the newest
  packet in the end.*
* **isid clients.** A slot is found under its mutex but given back without it,
  and cleared only after that; threads may fail to start; a report reads the
  handles of others. *A client is served what it asked for; a handle is open
  while it is used; slots and listeners come back, whatever clients do.*
* **NRTS loops and time windows.** Nobody locks a channel. Its fields are stored
  and copied one by one, a killed writer's half of them stays, and the server
  infers from two counts which slots are new. *The ring holds the newest
  records; a client gets each from its first one on, and all of them.*
* **QDP connection.** Events of six threads queue for one buffer, one semaphore
  says three different things, one command buffer serves callers and the
  shutdown. *Sockets and handle outlive the threads; a command and a shutdown
  end.*
* **QDP reorder buffer.** UDP loses, repeats and reorders; numbers wrap at 2^16
  and slots at 128, acknowledge bits are relative to a number that lags.
  *Every packet once and in order; nothing acknowledged that is not held; two
  packets never meet in a slot; everything arrives.*
* **IACP and packet push.** A frame is sent in pieces and may be cut short
  anywhere; the application steals from the queue the sender takes from; either
  end may give up while the other goes on. *What arrives is what was sent,
  whole and in order; the queues never run out under a thread; each packet is
  stored, or it is known how it was lost.*
* **SeedLink, message queues in general**: see section 7.

Every hazard, with its line and the property that would catch it, is in
`PROJECT.json` under "hazards".


## 2. Modules

| Module | Models | How |
|---|---|---|
| `PacketLog` | what a disk loop promises | an abstract log of the newest `Capacity` packets; a crash is not a step |
| `DiskLoop` | `dl.c`, `sys.c`, `lock.c` | one action per observable store to `sys` or a file |
| `DiskLoopInv` | - | the inductive invariant `IInv` and its parts, and what other proofs add to it |
| `DiskLoopDaemon` | `bground.c` | extends `DiskLoop` with fork and hand-over |
| `SeqnoSearch` | `search.c` | one action per decision; a header read per bisection step |
| `IsidSeqno` | `bin/isid/seqno.c` | service threads composed with `DiskLoop`'s writers |
| `Relay` | `bin/isidl/isi.c`, `write.c`, `exit.c` | a client of an abstract server composed with `DiskLoop`'s writer |
| `IsidClients` | `bin/isid/client.c`, `service.c`, `respond.c`, `report.c`, `die.c`, `echo.c`, `main.c` | one action per mutex section or call; a thread per connection |
| `NrtsLoop` | `lib/nrts/dl.c` | one action per store to a channel's entry or files |
| `IsidTwind` | `bin/isid/twind.c` | extends `NrtsLoop` with a service thread that copies the entry field by field |
| `QdpMachine` | `lib/qdp/fsa.c`, `action.c`, `cmds.c`, `io.c`, `include/qdp/fsa.h` | the table and the actions as operators on the handle; one action per blocking step of a thread |
| `QdpChannel` | what a data connection promises | an abstract in-order channel that a registration restarts |
| `QdpReorder` | `lib/qdp/reorder.c` and its actions | the receive buffer between a digitiser and a network that may do anything UDP does |
| `Msgq` | `lib/msgq/msgq.c` | operators on a queue: a semaphore's count and a list |
| `Iacp` | `lib/iacp/send.c`, `recv.c`, `close.c` | operators on a connection: frames written and read in pieces |
| `IsiPush` | `lib/isi/push.c`, `lib/isidl/push.c`, `lib/iacp/connect.c`, `bin/isidl/write.c` | composes `Msgq` and `Iacp`: the application, `PacketThread`, and the packet server's threads |
| `ModArithmetic`, `DiskLoopProofs`, `SeqnoSearchProofs`, `DiskLoopUserProofs`, `NrtsLoopProofs`, `QdpProofs`, `IsiPushProofs`, `IsidClientsProofs` | - | lemmas and theorems |
| `MC*` | - | instances for TLC |

**DiskLoop.** `index`, `backup`, `state`, `seqno`, `count`, `parent` are the
fields of `sys`; `hdr` and `raw` the two files, a packet being its sequence
counter; `wlock`/`rlock` the advisory lock; `pc` the place of each process in
open, write or close; `log`, a history variable, the packets committed. A
process is killed by `Crash`: it loses its lock and its `pc`, and the page and
files keep what they had. A process id may come back as another writer or as an
unrelated program ("other"), which is what `kill(parent, 0)` cannot tell apart.
`isidlWriteToDiskLoop` is `WriteLock` ... `WriteUnlock` in the order of its
stores, with the failing writes as actions of their own (`WriteHdrFails`,
`WriteRawFails`), and `IncrementIndicies` is up to eight stores in place.
The readers' side is `ReadLock`/`ReadUnlock`; what they read is in properties
(`Held`, `SlotOf`, `Window`) and in `IsidSeqno`.

**DiskLoopDaemon.** `fresh` keeps fork to where the programs call it, between
open and the first packet. `heir` is the child id the forking process holds.

**SeqnoSearch.** `Init` ranges over every sound loop of the size: empty, filling
up, or full at any rotation, with any increasing numbering, anything in the
hidden slots, and every target. So the run is a check of the function over all
bounded inputs, against `FirstFrom`, its one-line definition.

**IsidSeqno.** `cl[t]` is a thread's `ISID_SEQNO_REQUEST` and its place. The
lock is the process's, not the thread's: `ProcessLock` sets it for `Reader`
as a whole and `ProcessUnlock` clears it whoever else thinks it is held. A
snapshot is three steps (`oldest`, `yngest`, `count`) because that is what a writer can
get in between when the lock is gone. isid runs a thread per client, and threads of
different clients share nothing but that lock: so `OtherThread` stands for all that
are not in `Thread`, and takes the lock (if a writer does not have it) or gives it
up for everybody, at any moment. `KillPc` says where in its code a writer may be
killed. `holders` (which threads still have the lock they took), `shown`, `pos`,
`gap`, `ahead` and `lapped` are history.

**Relay.** `Store` is `DiskLoop`'s own `WriteLock`/`Write` with the number the
packet came with; `Start` is its `Open`. The server is abstract: it has packets
1..`hub` and keeps the last `HubPkt`, and sends an unbroken run of them to a
client that keeps up, which is what `IsidServe` shows of isid. `Mishap` counts
what goes wrong against `MaxBreaks`. `missed` and `cut` are history.

**IsidClients.** `client[s]` is a `CLIENT`: whose handle it has, the request it
collects (`type`, `list`) and the options set (`opts`), each tagged with the
connection it came from, so that a property can tell a part left behind by
another client. `thread[c]` is the service thread of a connection and
`client->finished` is its place. `NextAvailableClient` looks at one slot per
step, under its mutex, which only the status report contends for. Releasing a
slot is four steps without the mutex: `CloseConnection`, `Unlink`,
`ResetIncoming`, `ClearDataRequest`. `gate` is the mutex of `die.c`. `overlap`,
a history, has the connections that got a slot between the second and the last.

**NrtsLoop, IsidTwind.** `chn` is the `NRTS_CHN` in shared memory; `hdr`, `dat` the
files, a record being its number. `nrtsWriteToDiskLoop` is `Begin` ... `Count` in
the order of its stores; `WriteFails` and `Crash` leave what there is, and `Open`
takes it as it is. `CheckDiskLoop`'s structure copy of an entry nobody locks is
`Copy(f)`, one field at a time in any order, with stores in between. `top`,
`half`, `due` and `skewed` are history.

**QdpMachine.** The handle is the record `qp`. What an event does is a pure function
on it: `Actions` and `NextState` are the table, `Effect` the action handlers,
`EventHandler` performs the at most `MAX_ACTION_PER_EVENT` = 3 actions of an event
(`Perform`) and stops after one that sets an error code. A `-1` in
the table becomes `Never`, as an action and as a state, and turns the machine
off as `fsa.c` does. `HandleEvent` is the event thread's; every other thread
gets to its next blocking call in one action, and posts an event by filling the
one buffer (`PostEvent`). A packet is a token whose kind is chosen when it is
handled (`Codes`, `How`), so the digitiser may answer anything at any time.
`caller` is the application's thread in `qdpConnect`, `qdpPostCmd` and
`qdpShutdown`; `proc` becomes "freed" or "crashed" when nothing of the handle
can be relied on. `ups` and `early` are history.

**QdpReorder.** A packet is its place among all that are made; the program's
arithmetic (`OutOfWindow`, `SlotOf`, `SetAckBit`) sees only what is left of it
modulo `Modulus`. `Receive` is the whole of `ActionDATA` and `ActionDACK`. `owed` is
what the digitiser keeps for sending again; `pool` compares the free buffers
linked with the semaphore's posts. `QdpChannel` is what the application may rely
on; `InOrder` is the refinement.

**Msgq, Iacp, IsiPush.** `heap` and `full` are the two queues of `MSGQ_BUF`. `msgqGet`
is two steps, past the semaphore (`WaitHeap`, `TrySteal`, `TryFull`) and off the
list (`PopHeap`, `PopFull`, `TakeFull`), for the other thread can come in between.
`app` is a thread in `isiPushRawPacket`, `pusher` is `PacketThread`, whose frame is
a packet's number or `NOP`, a heartbeat. `conn[c]` is one TCP connection: `wire`
has the pieces in the sockets, `cut` says that the network between is gone,
`server` is the packet server's `ClientThread` and `in` the part of a frame it has
read. `ph.poisoned` is `iacp->disabled` of the handle `iacpConnect` works on. `sent`,
`got` and `lost` are history.

In every module an operator that nothing uses, placed before another with the
same parameters (`WrapNever` before `Wrap`), is a plausible slip: put in the
place of the one it precedes, it breaks the property that "mutants" in
`PROJECT.json` names.


## 3. Runs

| Run | Question | Bounds | Result |
|---|---|---|---|
| `DiskLoopCrash` | does the loop survive crashes, failed writes and races of owners? | 2 writers, 1 reader, 2+1 slots, 5 packets, numbers to 6 | pass, 566,312 states |
| `DaemonHandover` | is there one writer while one goes into the background? | 3 ids (symmetric), 1+1 slots | pass, 417,249 states |
| `Search` | does the search answer right, for every loop and target? | 4+1 slots, numbers to 5 | pass, 274,452 states |
| `IsidServe` | does a client get what it asked for, whatever other threads do to the lock? | 1 thread and any others, 1 writer killed in either of two places, 2+1 slots, 4 packets, 2 requests | pass, 691,457 states |
| `IsidClients` | do slots keep clients apart, and come back? | 2 connections, 1 slot, 2 listeners, 2 parts | pass, 249,800 states |
| `RelayFeed` | is the copy in order, once, complete but for `cut`, and up to date? | 5 packets, 2 on the server, 3 mishaps | pass, 237,495 states |
| `IsidTwind` | does a client of an unlocked ring get every record? | 3 slots, 1 hidden, 5 records, 2 requests | pass, 1,523,139 states |
| `QdpReorder` | is the data channel in order and complete? | numbers modulo 16, window 4, 5 packets across the wrap, 2 registrations | pass, 305,581 states |
| `QdpFlush` | does the pool survive a flush? | the same | `QueueAgrees` violated |
| `QdpConnection` | do sockets and handle outlive the threads? | 6 threads, each may fail to start; 2 buffers | pass, 845,327 states |
| `QdpCommands` | do commands and shutdowns end? | 3 threads, 3 buffers, up twice | pass, 56,751 states |
| `PushFeed` | is what is pushed stored, and how may it be lost? | 1 buffer, 2 packets, sockets for 1 frame, 1 fault | pass, 121,719 states |

What the properties say:

* `WindowIntact`: the indices the next writer would start from (`Recovered`)
  hold exactly the newest committed packets, whole. `AppendsOneByOne` says the
  same as a refinement: under `window <- Window(Recovered)` the loop
  implements `PacketLog`, every crash and every store but the commit a stutter.
* `ReaderSeesWhole`: a reader that has the lock while the last writer is dead
  in the middle of `IncrementIndicies` still sees whole, consecutive packets,
  at most one of which will be taken back. It excepts the states with an `oldest`
  past the end (see section 5).
* `SeqnoIncreases`, `CountNeverAhead`, `SingleWriter` (in `DaemonHandover`), `StableUnderReadLock`,
  `LockComesBack`: as named; each spans several processes or several lives.
* `StartsAtFirstWanted` and `RefusedRightly` cover the three kinds of answer,
  `ProbesOnlyWindow` what is looked at on the way.
* `DeliversInOrder`: what a client has is a contiguous piece of the log, each
  packet's header and payload from the same packet, across batches and wraps,
  as long as the writer has not come round to the slot being read: although
  another client's thread may release the lock between any two steps, and although
  a writer may die with its indices half incremented or its packet not counted. The
  one exception these cause is `ahead` (see section 5).
  `EventuallyServed` and `RequestCompletes` are its liveness side.
* `LostOnlyIfCut`: every packet the server had is stored, but those whose write
  was cut short after `sys.seqno` was set. `StoredOnce`, `EventuallyStored`.
* `OwnRequest`: what a thread serves is exactly the parts its own client sent, all
  of one type, with its own options. `OpenWhileUsed`: no thread receives or serves
  on a closed handle, and the report reads one only while its thread is taking
  it out of the slot. `Reclaimed`, `KeepsListening` are the liveness side: slots
  come back when a peer goes, and neither a full table, a failed thread, a
  rejected client nor a report keeps a listener from accepting.
* `WindowWhole`: the channel's indices are those of the newest records, whole and
  in order, over failed writes and kills. `Consecutive`: each record a client is
  sent is the next one, header and data from the same write. `KeepsUp`.
* `SocketsOutliveThreads`, `HandleOutlivesThreads`: when the sockets are closed or the
  handle is freed no thread is left. `ConnectedIsUpOrDead`: what `qdpConnect`'s
  success means. `CommandAnswered`, `ThreadsEnd`, `ShutdownCompletes`: as named,
  with their exceptions in section 5.
* `InOrder`: the refinement of `QdpChannel`. `AckedIsHeld`: the digitiser may
  forget what an acknowledgement covers, because the library has it. `NeverClash`:
  "slot is already full" never happens. `CatchesUp`: all that was made arrives.
* `ArrivesAsSent`: a connection's stored packets are a prefix of those whose sending
  was reported as done, and no packet is sent on two. `NeverHosed`: `msgqGet`
  never aborts. `Pushed`: every packet is stored, or one of four things has become
  of it: stolen or refused with a full queue, in hand when connecting or
  sending failed, under way on a connection that broke, or gone with its process.

**Why the bounds are enough.** With 2+1 slots a loop is full after the second
packet, slides at the third and has every index wrapped by the fifth; the
numbers go one beyond so that one write may fail or be killed after taking one.
Two writers let one die and the other repair, die in the repair, or be refused;
the third id in `DaemonHandover` is the intruder. Crashes are not counted: any
number may happen. In `Search` four packets in five slots give a bisection of
three steps and both halves of a wrapped ring more than one slot. In
`RelayFeed` three mishaps allow a cut, a break during the resend and an exit;
the server's two packets make overruns frequent. In `IsidServe` one client is
enough, since `OtherThread` does all that a second one can do to it; four packets in
three slots wrap every index, so that a batch wraps, a new one is joined to it and an
overrun is possible; the two places of a kill are those of which the page keeps a
trace that a client can see: indices that show a packet never committed
("incyngest"), and a packet never counted ("committed"). In the proof `KillPc` is any set. In `IsidClients` two connections
for one slot give reuse, rejection and the overlap of a thread that clears with
one that collects; two parts make requests of one type, of two, and options in
between. In `IsidTwind` five records go round three slots almost twice, so that
a batch wraps, is overrun, and every index has wrapped. In `QdpReorder` the first
packet is two before the wrap and a window of four slides past it; a modulus of
four windows keeps the halves of the number circle apart from the window, as
2^16 and 128 do. In `QdpConnection` two packet buffers are fewer than the ports'
threads and the event need, so that threads wait for each other's; `QdpCommands`
has three attempts for a command, late answers, and a second handshake. In
`PushFeed` the second packet finds the one buffer queued, taken or free, so it is
blocked, refused or steals; the sockets fill with a heartbeat and part of a
packet, so a send stops in the middle of a frame; after the one fault the other
packet goes over a second connection while the first is still being read. With
two buffers and three packets (sockets for two pieces, 300,431 states) it passes too.
`MaxSeqno`, `MaxLog` and
`MaxBreaks` stand in guards (`WriteLock`, `WriteSeqno`, `HubWrites`, `Mishap`)
and nowhere else; so do `MaxRec` (`Begin`), `MaxMade`, `MaxReg` and `MaxDacks`
(`Make`, `ActionLD_C1_FLGS`, `ActionFLUSH`, `Acknowledge`), `MaxMsgs` (`ReceiveFrame`)
and `MaxUp` (`HandleEvent`, the digitiser's "not registered"), `MaxPkt` and `MaxFaults`
(`Call`, `Fault`): `Spec` in the proofs has them as arbitrary numbers.

**Deadlock** is checked except where behaviours end: the search with its answer,
the relay with the last packet, isid with a signal or its last connection, the
digitiser's runs with a closed connection or the last packet, the channel's
run with a request that is done and the last record, and the push with the end
of its process. What must not stop before
that is a liveness property of each.

**Fairness.**
`DiskLoop`: weak, for the steps of the process that holds the lock; none of them
blocks, and the kernel runs the process or it is killed. Nobody is obliged to
write, open or close.
`SeqnoSearch`: weak, a single thread.
`IsidSeqno`: weak for a thread's own steps; strong for `GetLock`, since
F_SETLKW queues a waiter and the lock is free again and again; weak for the
writer that has the lock.
`Relay`: weak for the relay's loop (it retries after 80 seconds at most,
`isi.c`), including its restart by whatever starts it at boot, and for the
server's sending. Kills, breaks and new packets are never obliged.
`IsidClients`: strong for a listener's steps, which contend for mutexes; weak for a
service thread's close and for the end of a receive, which has a timeout; weak
for a request's end only when the peer is gone, since sending then fails.
`IsidTwind`: weak for the thread and for a writer that has begun; nobody is obliged
to begin, to fail or to open.
`QdpReorder`: strong for sending again the oldest packet not acknowledged, for its
arrival and for an acknowledgement's, which is to say that the network does not
lose every copy; weak for the acknowledge timer and a registration.
`QdpMachine`: strong for every thread and for the caller in the library, whose
semaphores are posted again and again; and the control port times out again and
again, which is `select()`'s time limit. The digitiser is obliged to nothing.
`IsiPush`: weak for the application inside the library, for `PacketThread` and for each
thread of the packet server: a read, a write and a connect have timeouts, or, when
they are tried again, end when the other host is there. No new packet, fault or
exit is obliged.


## 4. Proofs

`ModArithmetic` has the facts about `%` that rings need, down to division with
remainder. The others prove about `DiskLoop`, for every `NumPkt`, `NHide`, set of
processes, set of readers, `MaxLog` and `MaxSeqno`; about `SeqnoSearch`, for every size of
the ring and every target; about `Relay`, for every size of the two loops and any
number of processes and mishaps; about `IsidSeqno`, for every size of the loop, any
set of threads, requests, readers and writers, and any `KillPc`; about `DiskLoopDaemon`, for any set of process ids;
about `NrtsLoop`, for every
`NRec`, `NHide` and `MaxRec`; about `QdpReorder`, for every modulus, window, and
bound; about `IsiPush`, for every number of buffers, packets and faults; and about
`IsidClients`, for any set of connections and any number of slots and messages:

| Theorem | Module | States |
|---|---|---|
| `RingCorrect` | `DiskLoopProofs` | `Spec => []IInv` |
| `TypeCorrect` | `DiskLoopProofs` | `Spec => []TypeOK` |
| `OneWriter` | `DiskLoopProofs` | `Spec => []SingleWriter` |
| `WindowCorrect` | `DiskLoopProofs` | `Spec => []WindowIntact` |
| `NumbersIncrease` | `DiskLoopProofs` | `Spec => []SeqnoIncreases` |
| `CountBehind` | `DiskLoopProofs` | `Spec => []CountNeverAhead` |
| `ImplementsPacketLog` | `DiskLoopProofs` | `Spec => AppendsOneByOne`: the refinement of `PacketLog` |
| `ReadersUndisturbed` | `DiskLoopProofs` | `Spec => StableUnderReadLock` |
| `ReadersSeeWhole` | `DiskLoopProofs` | `Spec => []ReaderSeesWhole` |
| `SearchCorrect` | `SeqnoSearchProofs` | `Spec => []StartsAtFirstWanted` |
| `RefusalsCorrect` | `SeqnoSearchProofs` | `Spec => []RefusedRightly` |
| `ProbesWindow` | `SeqnoSearchProofs` | `Spec => []ProbesOnlyWindow` |
| `BisectionShrinks` | `SeqnoSearchProofs` | `Spec => [][Shrinks]_vars`: `rite - left` falls and stays positive |
| `RelayIsDiskLoop` | `DiskLoopUserProofs` | `RSpec => Spec`: the relay's loop is a `DiskLoop` |
| `RelayedOnce` | `DiskLoopUserProofs` | `RSpec => []StoredOnce` |
| `NothingElseLost` | `DiskLoopUserProofs` | `RSpec => []LostOnlyIfCut` |
| `ServedInOrder` | `DiskLoopUserProofs` | `SSpec => []DeliversInOrder`, if the loop numbers its packets (`Generate`) |
| `OneWriterForks` | `DiskLoopUserProofs` | `DSpec => []SingleWriter`, with `ForkerDies` FALSE |
| `ChannelSound` | `NrtsLoopProofs` | `NSpec => []NInv` |
| `WindowCorrect` | `NrtsLoopProofs` | `NSpec => []WindowWhole` |
| `RecordsConsecutive` | `NrtsLoopProofs` | `TSpec => Consecutive`: a time window's records are sent one after the other |
| `SlotsInWindow` | `QdpProofs` | `Spec => []ReorderInv` |
| `SlotsNeverClash` | `QdpProofs` | `Spec => []NeverClash` |
| `IsChannel` | `QdpProofs` | `Spec => InOrder`: the refinement of `QdpChannel` |
| `AcknowledgedIsHeld` | `QdpProofs` | `Spec => []AckedIsHeld` |
| `MachineInvariant` | `QdpProofs` | `MSpec => []MInv` |
| `MachineSockets` | `QdpProofs` | `MSpec => []SocketsOutliveThreads` |
| `MachineHandle` | `QdpProofs` | `MSpec => []HandleOutlivesThreads` |
| `MachineConnected` | `QdpProofs` | `MSpec => []ConnectedIsUpOrDead` |
| `QueueSound` | `IsiPushProofs` | `Spec => []NeverHosed` |
| `StoredAsSent` | `IsiPushProofs` | `Spec => []ArrivesAsSent` |
| `OwnRequestServed` | `IsidClientsProofs` | `Spec => []OwnRequest` |
| `OpenWhileInUse` | `IsidClientsProofs` | `Spec => []OpenWhileUsed` |

Assumptions: `SizeAssumption` (isimkdl refuses sizes below 1), `BoundAssumption`
and `PidAssumption` (0 is nobody's id); `SearchAssumption` (the same sizes);
`RelayAssumption` (the server keeps a packet, and the relay does not number packets
itself); `ServerAssumption` (isid has a process id) and `RequestAssumption` (see section 6);
`NrtsAssumption` (at least one slot hidden and
one seen, which `nrts_chksys` and mkdl see to); `ReorderAssumption` (the window
divides the modulus, which is even and more than twice the window: 2^16 and 128);
`MachineAssumption` (`qdpStartFSA` creates each of its threads once, the event, control
and command threads always);
`PushAssumption` and `SockBufAssumption` (a queue has a buffer, a socket holds something);
`ClientsAssumption` (isid has a slot, and `None`, the null handle, is no connection).

None of these is inductive. First the disk loop. `WindowIntact` speaks of the slots
and of an index that recovery might use, and a state that satisfies it could
have, say, a writer past `WriteHdr` with `index.active` inside the window. So
`IInv` says where everything is:

* `LockInv`, `OwnerInv`: inside open, write or close means holding the lock, and
  owning the loop means being `parent`. So a process between two stores is
  alone (`Alone`, `AloneOwner`).
* `IndexAfter(n)`: the four indices in closed form after n packets. Recovery is
  right because `index = IndexAfter(Len(log))` unless the state is UPDATE, and
  `backup` is that whenever the state is ACTIVE or UPDATE (`IndexInv`).
* `ProgressInv`: at each `pc`, the state, and how far the indices are on the way
  to `IndexAfter(Len(log) + 1)`. `IncrementAfter` shows that the stores of
  `IncrementIndicies` add up to it; the case that matters is whether the ring
  is full (`FullAfter`: `yngest = lend` exactly when `n >= NumPkt`).
* `ContentInv`: packet k of the window is in slot (k-1) % N, in both files, and
  the packet being written is in slot `Len(log) % N`, which is none of those
  (`WritesOutside`, where `NHide >= 1` is needed).

`TypeStep`, `AccessStep` and `RingStep` show each part preserved, one step per
action. `TypeOK` itself needs `BumpsASlot`, that an index is in a slot before it
is bumped, which `RingBumps` gets from `ProgressInv`. `WindowCorrect` then
counts the packets between `IndexAfter(n)`'s ends (`HeldAfter`) and finds the
i-th of them (`SlotAfter`).

Three smaller invariants stand on `IInv`:

* `CountInv` and `NumberInv` say where a writer is when the count is one behind
  and when its number is newer than every one in the log; only the process
  with the lock is ever there (`LedgerWrite`).
* `ReaderInv` is the lock's exclusion. With `StoresUnderLock` (every store to what
  a reader looks at is made by the process with the write lock) it gives
  `StableUnderReadLock`.
* `UpdateInv` is what remains of `ProgressInv` when the writer is dead: its `pc` is
  gone, and the page can hold any of the indices in `Halfway`. `HalfwaySpans` shows
  that each spans consecutive packets up to `Len(log)` or one more, but for the
  one whose `oldest` is past the end of the files.

The refinement needs no more invariant: `WindowIsLog` gives the window as a
sequence, only `WriteCommit` changes the log (`OnlyCommits`), and appending to
the log slides the window as `PacketLog` says (`CommitAppends`).

The channel loop needs less, for it has no recovery. `NInv` says, unless a writer was
killed between two stores of indices (`half`), that the shared indices and the
writer's local ones are at each place of the writer those after `top` or
`top + 1` records (`Shared`, `Local`), and that the slots of the records readers may see hold them, as
does the slot being written what has been written so far (`Files`). That slot
is none of the others because at least one slot is hidden (`PlaceApart`).

A time window's thread takes no lock, so what it knows is old and was copied field by
field; `TwInv` says what may be concluded from it all the same. Where the next record
is, it computes from where it stopped and from a difference of counts, and that
is right for two reasons. A killed writer leaves a record that is never
counted, but none is counted twice: the number of such records (`Uncounted`) can only
grow. So the thread's own count lags by no more than that (`Caught`, `Covers`), and every
record it concludes to be there is there (`CountedIsThere`). And a record once stored
stays in its slot, header and data, until the header of a younger one takes its
place (`Kept`), so what the thread reads is what is due or shows the overrun
(`DueIsKept`). The indices are copied once, for the first batch; `Agrees`, the
absence of `skewed`, is what makes them those of the last record. From one batch
to the next the slots go on because `due` is one more than the last record sent.

The reorder buffer's `ReorderInv` ties the numbers the program has to the packets
they stand for: `last_packet` is `next` modulo `Modulus`; a packet in a slot is in the
slot of its number and less than `Window` ahead of `next`. So two packets in one
slot would be equal, being less than a window apart (`SlotsNeverClash`), and
since `Window` divides `Modulus` a slot's number is that of the packet itself, whatever
wraps. `OutOfWindow` accepts a packet that is `Near` just when it is in the window:
that is where an even modulus of at least two windows is used. `IsChannel` maps
an insertion that releases k packets to one `Give` of those k.

`AckedIsHeld` is about three clocks: the packet to be given next, the one the
acknowledge bits count from (`ack_seqno`, which lags), and the number in an
acknowledgement sent some time ago. `AckInv` says that for some packet `a` not
yet acknowledged, or not yet made, the bits count from the one before `a`, and that
every acknowledgement in flight counts from that or an earlier one and has a
set bit only for what is held (`Sound`), and none for `a`: so the digitiser gets no
further from `a` than `SendWindow` (`OwedInv`), and an acknowledgement cannot be read as one of
another turn of the numbers unless it is half of them late (`Fresh`). Without that
bound the property is false, which TLC shows with numbers modulo 6, windows of 2
and eight packets; the model had assumed it of data only.

The search's `SearchInv` is the invariant of its loop (`Bracketed`): `left` and `rite` are
in the window, on one side of the end of the file, and the target is above
the number in the one and not above that in the other. `RankOnce` and
`HoldsNumber` turn places in the file into places in the ring.

The relay's steps are either no steps of its loop or steps of `DiskLoop`'s writer
(`RelayStep`), so `RSpec => Spec` and `IInv` holds of its loop. `RInv` adds what is on
the way: the packets in `net` are an unbroken run up to `next` (`Feed`); what a relay
has in hand, and after that what it waits for (`Due`), comes after all in the log
(`Order`); and every number before either is accounted for: stored, gone from
the server or cut (`Account`). `SeqnoInv` says the same of the numbers up to
`sys.seqno`, from which the next life of the relay resumes, but for the one
that a live writer is half through with. That is where `cut` comes from.

The server's theorem is about any number of threads on one lock, and writers that
are killed anywhere. It supposes only that the loop numbers its packets (`Generate`),
so that the number is new in the search. `LoopInv` is what the writers give: `IInv`,
`CountInv`, `NumberInv`, `ReaderInv`, `UpdateInv`, and that not just the window but every packet
the writer has not come round to is whole in its slot (`DeepInv`: what a slow client is
still reading). `ServerInv` is the threads'. A thread whose process has kept the
lock since it took it (`holders`) has seen the loop as it still is (`KeptInv`); for
one that has lost it something weaker is enough. By `UpdateInv`, also behind a dead
writer, the oldest index is one the loop has or had (`OldestSeen`), and the youngest, read
then or later, that of packet `shown`, the last one committed or one more. Together they
show a run of packets up to that one (`Shows`, `BothShow`): `oldest` may be any
number of file lengths behind, and if it is one ahead of `yngest` (`Torn`: read before a
recovery took it back) the run goes round slots that `DeepInv` knows to be empty, where
the search finds nothing (`TornLeads`). The count that goes with them was the loop's, then
or later. So `gap`, how far the
indices are past the count, is bounded: a packet that a killed writer has not
counted is never counted, so `Uncounted` only grows (`UncountedGrows`); and unless
the snapshot is `ahead`, `gap <= Uncounted`, so what the indices showed is committed by
the time the count says so, now or in any later batch (`CommittedByThen`). The search, on
headers that may be newer by now, leads to the slots of two packets of which the first is
not after the second (`SearchLeads`, `LeadsForward`, which is where `Forwards` is
needed) or is overrun; and in a batch `nxtndx` is the slot of packet `pos`, `endndx` that of
a packet less than a ring ahead (`BatchTo`), and `sent` the packets before `pos` (`RunInv`). A
batch is joined to the next by `endndx + 1` because after it `pos` is one more than
`count + gap`: what the code does not know, that the two differ, does no harm, because
they differ by the same number in every batch. This is how two of the exceptions in section 5
were found: the search reads without the lock, and a first snapshot may be too far
ahead; without either exception `RunInv` is not inductive and `DeliversInOrder` false.

With a fork the owner is not always `parent`. `HandoverInv` says that the owner is `parent` or
the child (`heir`) that a forking process has still to name, and that such a process
is `parent` itself and alive: so nobody gets past the test in open (`ClaimStep`), and
only an owner that has just opened the loop forks. A kill of the forking process
breaks exactly that, and then the property is false (section 5).

`QueueSound` needs that a semaphore's count and the threads past it add up to the
list's length (`QInv`: `HeapCounted`, `FullCounted`). Both threads may be past the
full queue's semaphore at once; then there are two messages. `StoredAsSent` needs what
is on every connection (`PInv`): the pieces read and those in the sockets are
those of frames in order, the last perhaps not complete (`Framed`, `Reading`); their
numbers increase and come after all that is stored (`Flow`); what is reported as
sent is stored, or under way, or was cut off by a break behind all the rest; and
across connections, the queue and the thread's hand everything is in the order
in which it was pushed (`OrderInv`, `SentInv`).

The client slots' `IInv` follows a slot round: a listener that is about to start a
thread has its connection and its slot to itself (`HeldInv`); a thread owns its
slot until it unlinks it (`ThreadInv`); from then on the slot is free or with a
connection of `overlap` (`OverlapInv`), and a free slot that is not empty still has a
thread that will empty it (`LeftInv`). So a connection that is not in `overlap` starts
with an empty slot (`FreshInv`), and no thread but its own touches it while it
collects (`AskInv`) and serves (`ServeInv`).

The connection machine's `MInv` keeps three ledgers. `CountedInv`: `nthread` is the number
of threads that have counted themselves and not left. `OrderInv`: the threads exist up
to `caller.started`, and the handle is freed where the caller says so. The third is what
`HandleOutlivesThreads` depends on, because one semaphore has three meanings. While
`qdpStartFSA` starts threads, `Automaton` holds the launch of the last one or nothing
(`StartingInv`); from the posted UP on, its value and the posts waited for (`Waited`) are
together the times the machine came up and the end of its last thread
(`StartedInv`). So a caller that has waited twice, on a machine that came up once,
has waited for the last thread (`PostsTellApart`). A thread dies only when the
machine is off (`EndsOff`), and a machine that goes down in a list of actions is off
when the event is handled: by an error, which ends the list, or by one of the
three lists of the table that go down without one (`Quiet`, `ActionsListed`,
`ListDown`). All of it is claimed until the machine is turned off before UP is posted
(`early`): then `SetInitial` brings back a machine whose threads have begun to leave.
The threads' steps need three lemmas and not thirty: each goes on, leaves or begins
(`Goes`, `Leaves`, `Begins`).

Only model-checked: liveness
(`LockComesBack`, `Answers`, `EventuallyServed`, `RequestCompletes`, `EventuallyStored`,
`Reclaimed`, `KeepsListening`, `KeepsUp`, `CatchesUp`, `CommandAnswered`, `ThreadsEnd`,
`ShutdownCompletes`, `Pushed`) stays with TLC: TLAPS does not reason about ENABLED.


## 5. Findings

One run is violated by what the code does; `PROJECT.json` has the full text.

`QdpFlush`: flushing the reorder buffer returns the message in hand once per full
slot, instead of the packets in the slots (`action.c:641`).

Others are the exceptions in properties that pass; each exception is as narrow
as the code allows, and without it TLC finds the property violated.

| Property | What it has to except, and why |
|---|---|
| `CountNeverAhead` (not: equal) | killed between IDLE and `++count`, a writer leaves `count` one short for ever (`isidl/dl.c:609-610`; "number of records written since creation", `dl.h:229`) |
| `ReaderSeesWhole` | `oldest = ++oldest % numpkt` stores `numpkt` first; a kill in between leaves readers an index past the files (`isidl/dl.c:392`) |
| `SingleWriter`, with `ForkerDies` FALSE | a forking process killed before it names its child lets a second writer in (`bground.c:43`) |
| `RefusedRightly`, second part | a number missing just at the file's end of a sound loop is answered with "corrupt index" (`search.c:106`) |
| `DeliversInOrder`: `lapped` | an overrun inside a batch is not noticed (`seqno.c:308`) |
| ... | the search reads headers without the lock (`seqno.c:124`): after an overrun it may end a request at a packet whose header is written and whose payload is not, or never will be |
| `DeliversInOrder`: `ahead` | fcntl locks do not exclude threads of one process: when another client's thread releases the lock during the copy (`isidl/dl.c:716-719`, `lock.c:101`), a snapshot mixes two moments, though the search wants "a static snapshot" (`search.c:6`). Indices newer than the count make the next batch send packets twice or from slots not yet written |
| ... | a snapshot behind a writer that died between two stores of its indices shows a packet that was not committed (`isidl/dl.c:391-395`): a client may be given one that is taken back at recovery, and miss the one that takes its slot |
| `EventuallyServed`: `gap # Uncounted` | a client whose first batch did not end at the last packet counted stays that far behind, for as long as it is connected: a snapshot torn by another thread is never corrected (`seqno.c:162-163`) |
| ... `count = 0` | a loop whose only packets were never counted looks empty (`seqno.c:171`) |
| `LostOnlyIfCut` | a packet whose write was cut short is taken for a duplicate when it is sent again (`isi.c:301`) |
| `Consecutive`: `skewed` | the first copy of an entry may be idle with a count that is one behind, or with fields of two records: a record is sent twice or passed over (`twind.c:67`, `nrts/dl.c:414-419`) |
| `Consecutive`: `half`; `WindowWhole` | a kill between the three stores of indices is repaired by nothing (`nrts/dl.c:410-412`) |
| `Consecutive`: `Overwritten` | as `lapped`: only the start of a batch looks for an overrun (`twind.c:86`) |
| `KeepsUp` | a failed or killed write leaves the channel BUSY, and its clients without what there is, until the next record |
| `OwnRequest`: `overlap` | a slot is free before it is cleared: the next client's first parts or options may be thrown away by the last one's thread (`client.c:28`) |
| `OpenWhileUsed`, second part | the report may read a handle that is being closed, or, after a thread that failed to start, one that was (`client.c:27`, `service.c:110`) |
| `Orderly` in `HandleOutlivesThreads` and `ConnectedIsUpOrDead` | after a failed start, a second registration or a failure before UP, the Automaton semaphore has a post that the next wait takes for something else (`fsa.c:610`) |
| `ThreadsEnd`: `Stranded` | off by a `-1` of the table the machine wakes nobody; off while a command was sent it has no buffer for the pill (`action.c:351-358`) |
| ... | one such `-1` is met: rows FILL and UKNDATA of READY lack `QDP_ACTION_done` (`fsa.h:451-452`), so a fill packet turns the machine off, though "DT_FILL packets get tossed" (`action.c:604`) |
| `Drained` | "not registered" during and after the handshake, an error answer to the automaton and a clash do not return their packet's buffer; when all are lost the ports' threads wait for ever |
| `ShutdownCompletes` (from "waitoff" only) | `qdpShutdown` first deregisters with the one command buffer; after an I/O error that is with the command thread as a pill, or nobody takes the command, and the caller waits for ever (`cmds.c:20`, `fsa.c:395-400`) |
| "crashed" in `CommandAnswered` | a command given up between being taken and `attempts = 0` leaves a null `cmd.msg` to be read (`fsa.c:395-404`) |
| `Pushed`: `lost` | "Relentless packet pusher" (`isi/push.c:4`): "while not sent" is left by a break, so the packet whose sending or connecting failed is dropped and the next one tried (`push.c:30, 42`) |
| `Pushed`: sent and `Severed` | nothing acknowledges a packet; when the packet server cannot store one its thread ends with the connection open (`isidl/push.c:80`) and all that is sent until the sockets are full is lost |
| `Pushed`: `Stuck` | a handle whose handshake could not be sent is disabled, and `iacpConnect` tries again and again with it (`send.c:115, 137`, `connect.c:84-88`) |
| `Pushed`: "crashed" | `isiPushInit` does not set `ph->iacp`, which `SendFrame` compares with NULL (`push.c:173-204, 26`) |
| `Pushed`: "exited" | the pushing programs exit at the end of input with packets in the queue (`i10push/main.c:45`) |


## 6. Abstractions

* **Packets** are their sequence counters. The signature half of a number is
  fixed when a loop is created, so the order is the counters'. Counters are 64
  bits wide and are not wrapped.
* **Crashes** are of processes: what was stored to the mapped page or written
  to a file stays. Power failures and reordered page write-back are not modelled.
* **Structure copies** (`backup = index`, `index = backup`) are one step. A copy
  cut short does no harm: the copied-from index is good, and the state, which
  says which of the two counts, is stored after the first copy and before
  (IDLE) it is trusted again after the second.
* **`x = ++x % n`** is undefined in C. The model takes the outcome of the
  makefiles' unoptimised build, two stores; a build that stores once has fewer
  behaviours.
* **Opening the data files** after claiming the loop may fail; the process then
  exits without disowning it, which is `Crash`. Any fcntl error is left out.
* **Writes** leave out time stamps, `isidlCanonicalSiteName`, the NRTS loop, the
  tee file and the SeedLink queue; a packet the NRTS loop rejects is not
  written at all, so the model has no step for it.
* **isid** serves one site per request, without stream selection, compression
  or format conversion, and what the alert at the end of a request says. The search is
  one step there, on the headers of that moment, and all its probes' locking and
  unlocking together one release of the lock at its end; `SeqnoSearch` takes it apart.
  The structure copy of `sys` is a read of each of the three fields the server uses, in
  their order in the structure (`include/isi/dl.h:211-232`). Requests have `beg <= end` (`Forwards`): the server does not look, and
  for others goes round the ring from the one to the other.
* **The relay** has one site and one server.
* **isid's clients.** Frames verify; what alerts say and simple requests answer is
  left out. A request is served in one stay of its thread (`IsidSeqno`, `IsidTwind`).
  A signal ends the process with everything in it.
* **The channel loops.** One writer at a time, which the ISI loop's ownership gives:
  `nrtsOpenDiskLoop`'s own test of the pid (`nrts/dl.c:229-242`) sets it without a lock.
  Left out: the wfdisc records, the backup indices, which only `nrts_fixsys` reads,
  and the time stamps. The ten seconds a reader waits for an idle channel are no
  exclusion, so a read may happen at any time.
* **Time windows** given by times need `nrtsSearchDiskloop`, which is not modelled;
  a request here is from "oldest" or "newest", to "newest" or for ever.
  `WeirdIndexingProblemCheck` is commented out in the code (`twind.c:372`).
* **The QDP machine.** A user function for packets is installed, and returns them; a
  command's caller waits for its answer. What is only sent or counted is "SEND".
  Timer intervals are not modelled: a timeout may come at any time. A reply is taken for
  the user command's only if that has been sent (`How`), while `sender()` compares just the
  numbers (`action.c:22-23`), so that one not yet sent, whose number is still 0, may match an
  acknowledgement of 0: another way to the "crashed" of section 5.
* **Packet push.** `isiPushShutdown` and the branch of `SendFrame` that it leads to, which closes
  the connection, frees the handle and ends `PacketThread` (`isi/push.c:19-24, 101-107`), are
  not modelled: no program of the repository calls it. A piece that is written in part counts as not written: what reads
  it does not get past it. Signatures are empty (`auth.c`). A handshake that ends in an
  error `iacpConnect` retries is no step unless it disables the handle. An
  uninitialised `ph->iacp` is NULL or crashes the process. The packet server's reads may
  time out, which counts as a fault, as does a write that times out on a peer that reads.
* **The Q330** is not part of the repository. `QdpReorder` takes of it that it runs at most
  `SendWindow` ahead, reads an acknowledgement as covering what precedes its
  number and the bits that are set, keeps what is not covered, begins with
  `log.dataseq` after a registration, and that no packet and no
  acknowledgement is delivered when it is half the numbers old (`Near`, `Fresh`): with
  2^16 numbers and what a network keeps for seconds, none is. `QdpMachine` takes nothing of it.


## 7. Plan

Not modelled, in the order in which they should follow:

1. `SeedLinkFeed`: the bounded queue and its unlocked peek (`slink.c:42`); the writer
   never blocks; what ringserver gets is in order.
2. Message queues with several users: `msgqFlush`, the overrun check and the heap.
3. `nrtsSearchDiskloop` and windows given by times; the wfdisc records.
4. Alerts, messages of several frames and the handshake's content in `Iacp`, and
   isid's handles shared by the threads that send data and heartbeats.

To prove next: no safety property of a run is without a theorem but for what a theorem
leaves out by a hypothesis (a forker that dies; in `IsidSeqno` a loop that does not number
its packets, so that a writer may die and store the same number again). The
state invariants of the not yet modelled parts above come with their modules.

Not to be modelled: instrument drivers, format converters, displays, legacy
programs and vendored code (`PROJECT.json`, "components"). They hold no state that
several actors share; what they do is conversion or input and output, and most
of the repository's lines are theirs.
