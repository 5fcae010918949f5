------------------------------ MODULE DiskLoop ------------------------------
(***************************************************************************)
(* The ISI disk loop (src/lib/isidl/dl.c, sys.c, src/lib/util/lock.c): a   *)
(* ring of packet slots in two files, "hdr" and "raw", controlled by a     *)
(* memory-mapped "sys" structure that every process of the host shares and *)
(* that outlives all of them.                                              *)
(*                                                                         *)
(* A writer opens the loop read/write, becomes its "parent", and writes    *)
(* packets; every store to sys that another process, or the next writer    *)
(* after a crash, can observe on its own is a step of its own.  Readers    *)
(* appear only through the advisory lock; what they do under it is in the  *)
(* modules that extend this one.                                           *)
(*                                                                         *)
(* A packet is its sequence counter (the signature is fixed when the loop  *)
(* is created), and NoPkt is a slot half that holds no packet: never       *)
(* written, or cut short.                                                  *)
(*                                                                         *)
(* Here and in the modules that extend this one, an operator that nothing  *)
(* uses and whose comment or name tells a slip (WrapNever) is what          *)
(* the definition after it must not be: put in its place, it breaks the    *)
(* property that PROJECT.json's "mutants" names.                           *)
(***************************************************************************)
EXTENDS Integers, Sequences

CONSTANTS NumPkt,    \* packets that can be read back
          NHide,     \* slots of slack between the oldest packet and the writer
          Pid,       \* process ids
          NoPid,     \* parent id 0: nobody
          Reader,    \* processes that only read
          Generate,  \* TRUE: ISI_OPTION_GENERATE_SEQNO, number packets here
          MaxSeqno,  \* bound on sequence counters
          MaxLog     \* bound on packets committed

\* isimkdl insists on at least one packet of each kind (src/bin/isimkdl).
ASSUME SizeAssumption ==
  /\ NumPkt \in Nat \ {0}
  /\ NHide \in Nat \ {0}
ASSUME BoundAssumption ==
  /\ MaxSeqno \in Nat
  /\ MaxLog \in Nat
  /\ Generate \in BOOLEAN
ASSUME PidAssumption == NoPid \notin Pid

VARIABLES
  index,    \* sys.index
  backup,   \* sys.backup
  state,    \* sys.state
  seqno,    \* sys.seqno.counter
  count,    \* sys.count
  parent,   \* sys.parent
  hdr,      \* the hdr file: the header in each slot
  raw,      \* the raw file: the payload in each slot
  wlock,    \* the process that holds the write lock, or NoPid
  rlock,    \* the processes that hold the read lock
  pc,       \* where each process is
  log       \* history: the packets committed since creation

sysvars == <<index, backup, state, seqno, count, parent>>
vars == <<index, backup, state, seqno, count, parent, hdr, raw, wlock, rlock,
          pc, log>>

N == NumPkt + NHide                 \* sys.numpkt: every slot, hidden ones too
Slot == 0..(N - 1)
Undefined == -1                     \* ISI_UNDEFINED_INDEX
NoPkt == 0
Seqno == 1..MaxSeqno
WrapNever(i) == i
Wrap(i) == i % N
NextSlot(i) == Wrap(i + 1)

\* IncrementIndicies bumps an index and wraps it around in two stores: in
\* between, one that was in the last slot is past the end of the files.
Bumped == 0..N
Index == [active : Bumped, lend : Bumped,
          oldest : Bumped \cup {Undefined}, yngest : Bumped \cup {Undefined}]

\* sys.state.
INACTIVE == "inactive"
ACTIVE   == "active"
IDLE     == "idle"
UPDATE   == "update"

-----------------------------------------------------------------------------
(* Where a process can be.  "dead": no process has this id.  "other": a     *)
(* program that has nothing to do with the loop has it.                     *)

OpenPc   == {"opening", "claimed", "restored", "cleaned"}
WritePc  == {"locked", "backed", "activated", "stamped", "hdrdone", "rawdone",
             "updating", "incoldest", "incyngest", "bumpedlend", "inclend",
             "bumpedoldest", "incslid", "bumpedactive", "incremented",
             "committed", "counted"}
ClosePc  == {"closing", "disowned"}
LockedPc == OpenPc \cup WritePc \cup ClosePc
PcValues == {"dead", "other", "start", "ready"} \cup LockedPc

\* Between taking the loop over and giving it up a process owns it.
OwnerPc == (OpenPc \ {"opening"}) \cup WritePc \cup {"ready", "closing"}
Owners  == {p \in Pid : pc[p] \in OwnerPc}

At(p, from, to) == pc[p] = from /\ pc' = [pc EXCEPT ![p] = to]

\* kill(pid, 0) == 0: some process, writer or not, has this id.
Alive(p) == p \in Pid /\ pc[p] # "dead"

-----------------------------------------------------------------------------
(* The advisory lock: one writing process, or any number of reading ones.   *)

LockFree == wlock = NoPid /\ rlock = {}
AcquireOverReaders(p) == wlock = NoPid /\ wlock' = p /\ UNCHANGED rlock
Acquire(p) == LockFree /\ wlock' = p /\ UNCHANGED rlock
Release == wlock' = NoPid /\ UNCHANGED rlock
KeepLock == UNCHANGED <<wlock, rlock>>
FailLocked == KeepLock
UnlockAndFail == Release

ReadLock(r) ==
  /\ wlock = NoPid /\ r \notin rlock
  /\ rlock' = rlock \cup {r}
  /\ UNCHANGED <<sysvars, hdr, raw, wlock, pc, log>>

ReadUnlock(r) ==
  /\ r \in rlock
  /\ rlock' = rlock \ {r}
  /\ UNCHANGED <<sysvars, hdr, raw, wlock, pc, log>>

-----------------------------------------------------------------------------
(* A new loop, as isidlCreateDiskLoop and InitNewSys leave it; the backup   *)
(* is whatever the zero-filled file holds.                                  *)

NewIndex == [active |-> 0, lend |-> N - NHide,
             oldest |-> Undefined, yngest |-> Undefined]

Init ==
  /\ index = NewIndex
  /\ backup = [active |-> 0, lend |-> 0, oldest |-> 0, yngest |-> 0]
  /\ state = INACTIVE
  /\ seqno = 0
  /\ count = 0
  /\ parent = NoPid
  /\ hdr = [i \in Slot |-> NoPkt]
  /\ raw = [i \in Slot |-> NoPkt]
  /\ wlock = NoPid
  /\ rlock = {}
  /\ pc = [p \in Pid |-> "dead"]
  /\ log = <<>>

-----------------------------------------------------------------------------
(* Processes come and go.  A killed process loses its lock and nothing      *)
(* else: sys and the files keep what it had stored.                         *)

Spawn(p) ==
  /\ \/ At(p, "dead", "start")
     \/ At(p, "dead", "other")
  /\ UNCHANGED <<sysvars, hdr, raw, wlock, rlock, log>>

Crash(p) ==
  /\ pc[p] # "dead"
  /\ pc' = [pc EXCEPT ![p] = "dead"]
  /\ wlock' = IF wlock = p THEN NoPid ELSE wlock
  /\ UNCHANGED <<sysvars, hdr, raw, rlock, log>>

-----------------------------------------------------------------------------
(* isidlOpenDiskLoop(ISI_RDWR).                                             *)

OpenLock(p) ==
  /\ At(p, "start", "opening")
  /\ Acquire(p)
  /\ UNCHANGED <<sysvars, hdr, raw, log>>

\* A stale parent, or our own id left by an earlier life, does not count.
Vacant(p) == parent = p \/ ~Alive(parent)

\* Another live process is the parent: close the handle, lock and all.
OpenRefused(p) ==
  /\ At(p, "opening", "dead")
  /\ ~Vacant(p)
  /\ Release
  /\ UNCHANGED <<sysvars, hdr, raw, log>>

OpenClaim(p) ==
  /\ At(p, "opening", "claimed")
  /\ Vacant(p)
  /\ parent' = p
  /\ KeepLock
  /\ UNCHANGED <<index, backup, state, seqno, count, hdr, raw, log>>

OpenClean(p) ==
  /\ state \in {INACTIVE, IDLE}
  /\ At(p, "claimed", "cleaned")
  /\ state' = IDLE
  /\ KeepLock
  /\ UNCHANGED <<index, backup, seqno, count, parent, hdr, raw, log>>

\* The last writer died part way: take the indices it started from.
NotRestored == index
Restored == backup
OpenRestore(p) ==
  /\ state \notin {INACTIVE, IDLE}
  /\ At(p, "claimed", "restored")
  /\ index' = Restored
  /\ KeepLock
  /\ UNCHANGED <<backup, state, seqno, count, parent, hdr, raw, log>>

OpenSetIdle(p) ==
  /\ At(p, "restored", "cleaned")
  /\ state' = IDLE
  /\ KeepLock
  /\ UNCHANGED <<index, backup, seqno, count, parent, hdr, raw, log>>

\* Opening the hdr and raw files comes next; if that fails the process exits
\* without disowning the loop, as in Crash.
OpenUnlock(p) ==
  /\ At(p, "cleaned", "ready")
  /\ Release
  /\ UNCHANGED <<sysvars, hdr, raw, log>>

-----------------------------------------------------------------------------
(* isidlWriteToDiskLoop.                                                    *)

\* Only for a packet of this site that the NRTS loop does not reject as a
\* duplicate or an overlap; for any other nothing here happens.
WriteLock(p) ==
  /\ Len(log) < MaxLog /\ (Generate => seqno < MaxSeqno)      \* bounds
  /\ At(p, "ready", "locked")
  /\ Acquire(p)
  /\ UNCHANGED <<sysvars, hdr, raw, log>>

WriteBackup(p) ==
  /\ At(p, "locked", "backed")
  /\ backup' = index
  /\ KeepLock
  /\ UNCHANGED <<index, state, seqno, count, parent, hdr, raw, log>>

WriteActivate(p) ==
  /\ At(p, "backed", "activated")
  /\ state' = ACTIVE
  /\ KeepLock
  /\ UNCHANGED <<index, backup, seqno, count, parent, hdr, raw, log>>

CountAsSeqno == count + 1
NextSeqno == seqno + 1

\* isidlSysIncrSeqno, or isidlSysSetSeqno with the number the packet came with.
WriteSeqno(p) ==
  /\ At(p, "activated", "stamped")
  /\ IF Generate THEN seqno' = NextSeqno ELSE seqno' \in Seqno
  /\ KeepLock
  /\ UNCHANGED <<index, backup, state, count, parent, hdr, raw, log>>

WriteHdr(p) ==
  /\ At(p, "stamped", "hdrdone")
  /\ hdr' = [hdr EXCEPT ![index.active] = seqno]
  /\ KeepLock
  /\ UNCHANGED <<sysvars, raw, log>>

WriteRaw(p) ==
  /\ At(p, "hdrdone", "rawdone")
  /\ raw' = [raw EXCEPT ![index.active] = seqno]
  /\ KeepLock
  /\ UNCHANGED <<sysvars, hdr, log>>

\* A failed or short write: UnlockAndFail, with state and seqno as they are.
WriteHdrFails(p) ==
  /\ At(p, "stamped", "ready")
  /\ hdr' \in {hdr, [hdr EXCEPT ![index.active] = NoPkt]}
  /\ UnlockAndFail
  /\ UNCHANGED <<sysvars, raw, log>>

WriteRawFailsCounted(p) ==
  /\ At(p, "hdrdone", "ready")
  /\ count' = count + 1
  /\ UnlockAndFail
  /\ UNCHANGED <<index, backup, state, seqno, parent, hdr, raw, log>>

WriteRawFails(p) ==
  /\ At(p, "hdrdone", "ready")
  /\ raw' \in {raw, [raw EXCEPT ![index.active] = NoPkt]}
  /\ UnlockAndFail
  /\ UNCHANGED <<sysvars, hdr, log>>

WriteUpdate(p) ==
  /\ At(p, "rawdone", "updating")
  /\ state' = UPDATE
  /\ KeepLock
  /\ UNCHANGED <<index, backup, seqno, count, parent, hdr, raw, log>>

-----------------------------------------------------------------------------
(* IncrementIndicies: stores to sys.index, in place.  "x = ++x % numpkt" is  *)
(* undefined in C; the makefiles build without optimisation, which stores x  *)
(* twice.                                                                    *)

Increment(p, from, to, new) ==
  /\ At(p, from, to)
  /\ index' = new
  /\ KeepLock
  /\ UNCHANGED <<backup, state, seqno, count, parent, hdr, raw, log>>

WithOldest(ix) == IF ix.oldest = Undefined THEN [ix EXCEPT !.oldest = ix.active]
                                           ELSE ix
WithYngest(ix) == [ix EXCEPT !.yngest = ix.active]

\* At the logical end the window starts to slide.
FullAtFileEnd(ix) == ix.yngest = N - 1
Full(ix)          == ix.yngest = ix.lend

BumpLend(ix)    == [ix EXCEPT !.lend = @ + 1]
WrapLend(ix)    == [ix EXCEPT !.lend = Wrap(@)]
OldestStays(ix) == ix
BumpOldest(ix)  == [ix EXCEPT !.oldest = @ + 1]
WrapOldest(ix)  == [ix EXCEPT !.oldest = Wrap(@)]
BumpActive(ix)  == [ix EXCEPT !.active = @ + 1]
WrapActive(ix)  == [ix EXCEPT !.active = Wrap(@)]

IncOldest(p) == Increment(p, "updating", "incoldest", WithOldest(index))
IncYngest(p) == Increment(p, "incoldest", "incyngest", WithYngest(index))
IncLend(p) ==
  \/ Full(index) /\ Increment(p, "incyngest", "bumpedlend", BumpLend(index))
  \/ Increment(p, "bumpedlend", "inclend", WrapLend(index))
IncSlide(p) ==
  \/ Increment(p, "inclend", "bumpedoldest", BumpOldest(index))
  \/ Increment(p, "bumpedoldest", "incslid", WrapOldest(index))
IncActive(p) ==
  \/ Increment(p, "incslid", "bumpedactive", BumpActive(index))
  \/ ~Full(index) /\ Increment(p, "incyngest", "bumpedactive", BumpActive(index))
  \/ Increment(p, "bumpedactive", "incremented", WrapActive(index))

-----------------------------------------------------------------------------
(* The rest of isidlWriteToDiskLoop.  From here a crash keeps the packet.   *)

WriteCommit(p) ==
  /\ At(p, "incremented", "committed")
  /\ state' = IDLE
  /\ log' = Append(log, seqno)
  /\ KeepLock
  /\ UNCHANGED <<index, backup, seqno, count, parent, hdr, raw>>

WriteCount(p) ==
  /\ At(p, "committed", "counted")
  /\ count' = count + 1
  /\ KeepLock
  /\ UNCHANGED <<index, backup, state, seqno, parent, hdr, raw, log>>

WriteUnlock(p) ==
  /\ At(p, "counted", "ready")
  /\ Release
  /\ UNCHANGED <<sysvars, hdr, raw, log>>

-----------------------------------------------------------------------------
(* isidlCloseDiskLoop, by a process that opened the loop to write.          *)

CloseLock(p) ==
  /\ At(p, "ready", "closing")
  /\ Acquire(p)
  /\ UNCHANGED <<sysvars, hdr, raw, log>>

CloseDisown(p) ==
  /\ parent = p
  /\ At(p, "closing", "disowned")
  /\ parent' = NoPid
  /\ KeepLock
  /\ UNCHANGED <<index, backup, state, seqno, count, hdr, raw, log>>

CloseNotParent(p) ==
  /\ parent # p
  /\ At(p, "closing", "dead")
  /\ Release
  /\ UNCHANGED <<sysvars, hdr, raw, log>>

\* Only a child that its parent has not named yet (DiskLoopDaemon) closes a
\* loop that is not its own.
CloseParent(p) == wlock = p /\ (CloseDisown(p) \/ CloseNotParent(p))

CloseInactive(p) ==
  /\ At(p, "disowned", "dead")
  /\ state' = INACTIVE
  /\ Release
  /\ UNCHANGED <<index, backup, seqno, count, parent, hdr, raw, log>>

-----------------------------------------------------------------------------
Open(p)  == OpenLock(p) \/ OpenRefused(p) \/ OpenClaim(p) \/ OpenClean(p)
            \/ OpenRestore(p) \/ OpenSetIdle(p) \/ OpenUnlock(p)
Write(p) == WriteBackup(p) \/ WriteActivate(p) \/ WriteSeqno(p) \/ WriteHdr(p)
            \/ WriteRaw(p) \/ WriteHdrFails(p) \/ WriteRawFails(p)
            \/ WriteUpdate(p) \/ IncOldest(p) \/ IncYngest(p) \/ IncLend(p)
            \/ IncSlide(p) \/ IncActive(p) \/ WriteCommit(p) \/ WriteCount(p)
            \/ WriteUnlock(p)
Close(p) == CloseParent(p) \/ CloseInactive(p)

\* The steps a process takes once it holds the lock, none of which blocks.
LockedStep(p) == wlock = p /\ (Open(p) \/ Write(p) \/ Close(p))

Next ==
  \/ \E p \in Pid : \/ Spawn(p) \/ Crash(p)
                    \/ Open(p) \/ WriteLock(p) \/ Write(p)
                    \/ CloseLock(p) \/ Close(p)
  \/ \E r \in Reader : ReadLock(r) \/ ReadUnlock(r)

Spec == Init /\ [][Next]_vars

\* A process that holds the lock keeps running until it is killed.
FairSpec == Spec /\ \A p \in Pid : WF_vars(LockedStep(p))

-----------------------------------------------------------------------------
(* What a reader makes of an index that is not past the end of the files:   *)
(* the number of packets from oldest to yngest, and the slot of the i-th.   *)

Held(ix) == IF ix.yngest = Undefined THEN 0
            ELSE ((ix.yngest - ix.oldest + N) % N) + 1
SlotOf(ix, i) == (ix.oldest + i - 1) % N
Window(ix) == [i \in 1..Held(ix) |-> hdr[SlotOf(ix, i)]]

\* What the next writer to open the loop will take the index to be.
Recovered == IF state \in {ACTIVE, UPDATE} THEN backup ELSE index

-----------------------------------------------------------------------------
(* Properties.                                                              *)

\* Every variable holds what its C type and the protocol around it allow.
TypeOK ==
  /\ index \in Index
  /\ backup \in Index
  /\ state \in {INACTIVE, ACTIVE, IDLE, UPDATE}
  /\ seqno \in Nat
  /\ count \in Nat
  /\ parent \in Pid \cup {NoPid}
  /\ hdr \in [Slot -> Nat]
  /\ raw \in [Slot -> Nat]
  /\ wlock \in Pid \cup {NoPid}
  /\ rlock \in SUBSET Reader
  /\ pc \in [Pid -> PcValues]
  /\ log \in Seq(Nat)

Whole(ix) == \A i \in 1..Held(ix) : hdr[SlotOf(ix, i)] = raw[SlotOf(ix, i)]
IsTail(w, l) == /\ Len(w) <= Len(l)
                /\ \A i \in 1..Len(w) : w[i] = l[Len(l) - Len(w) + i]

\* Whenever the writer dies, the indices the next one starts from hold exactly
\* the newest committed packets, all of them whole: as many as were ever
\* written, or NumPkt once the loop is full ("clean up inconsistent state").
WindowIntact ==
  /\ Held(Recovered) = IF Len(log) < NumPkt THEN Len(log) ELSE NumPkt
  /\ Whole(Recovered)
  /\ IsTail(Window(Recovered), log)

\* A reader that holds the lock never finds half a packet or a gap between
\* two, even in the indices a dead writer left half incremented; the most it
\* can find is one packet that the next writer will take back, or an oldest
\* index past the end of the files.
ReaderSeesWhole ==
  rlock # {} /\ index.oldest # N =>
    /\ Whole(index)
    /\ \/ IsTail(Window(index), log)
       \/ state = UPDATE /\ IsTail(Window(index), Append(log, seqno))

\* "make sure there already isn't a parent": one process at a time owns the loop.
SingleWriter == \A p, q \in Owners : p = q

\* A loop that numbers its packets never uses a number twice or out of order,
\* whatever dies in between.
SeqnoIncreases ==
  Generate => /\ \A i, j \in 1..Len(log) : i < j => log[i] < log[j]
              /\ \A i \in 1..Len(log) : log[i] <= seqno

\* The count that isid compares with its own never runs ahead of the packets.
CountNeverAhead == count <= Len(log)

\* Nothing a reader looks at changes as long as it holds the lock.
StableUnderReadLock ==
  [][rlock \cap rlock' # {} => UNCHANGED <<index, count, state, hdr, raw>>]_vars

\* Every path through open, write and close, the failing ones and a kill
\* included, gives the lock back.
LockComesBack == wlock # NoPid ~> wlock = NoPid

\* The packets between Recovered's indices are an abstract log of NumPkt
\* packets: one step appends, every other one, a crash included, is a stutter.
PL == INSTANCE PacketLog WITH
        window <- Window(Recovered), Capacity <- NumPkt, Packets <- Seqno
AppendsOneByOne == PL!Spec
=============================================================================
