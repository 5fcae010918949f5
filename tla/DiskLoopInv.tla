----------------------------- MODULE DiskLoopInv -----------------------------
(***************************************************************************)
(* The inductive invariant of DiskLoop, from which DiskLoopProofs proves   *)
(* its safety properties.  Its parts say who may touch sys, where the      *)
(* indices are after n packets, how far a write has got at each point of   *)
(* the writer's code, and what the slots hold.                             *)
(***************************************************************************)
EXTENDS DiskLoop

\* Exactly the process inside open, write or close holds the lock.
LockInv == \A p \in Pid : pc[p] \in LockedPc <=> wlock = p

\* sys.parent names the process that owns the loop, if one does.
OwnerInv ==
  \A p \in Pid : /\ pc[p] \in OwnerPc => parent = p
                 /\ pc[p] = "disowned" => parent = NoPid

-----------------------------------------------------------------------------
\* The indices of a loop that n packets have been written to: packet k, for k
\* from 1 on, went to slot (k - 1) % N, and the oldest kept is First(n) + 1.
First(n) == IF n > NumPkt THEN n - NumPkt ELSE 0
IndexAfter(n) ==
  [active |-> n % N,
   lend   |-> (IF n > NumPkt THEN n ELSE NumPkt) % N,
   oldest |-> IF n = 0 THEN Undefined ELSE First(n) % N,
   yngest |-> IF n = 0 THEN Undefined ELSE (n - 1) % N]

Count == Len(log)
Committed == IndexAfter(Count)

\* On the way to the next packet's.
SlideLend(ix)   == [ix EXCEPT !.lend = NextSlot(@)]
SlideOldest(ix) == [ix EXCEPT !.oldest = NextSlot(@)]
WithActive(ix)  == [ix EXCEPT !.active = NextSlot(@)]
Begun == WithYngest(WithOldest(Committed))
Slid == IF Full(Begun) THEN SlideOldest(SlideLend(Begun)) ELSE Begun

\* Whatever state the last writer left, its index or its backup is good.
IndexInv ==
  /\ state # UPDATE => index = Committed
  /\ state \in {ACTIVE, UPDATE} => backup = Committed

UpdatePc == {"updating", "incoldest", "incyngest", "bumpedlend", "inclend",
             "bumpedoldest", "incslid", "bumpedactive", "incremented"}

\* The state at each point of the writer's code, and the half of
\* IncrementIndicies it has done.
Progress(p) ==
  /\ pc[p] = "restored" => index = Committed
  /\ pc[p] \in {"cleaned", "committed", "counted"} => state = IDLE
  /\ pc[p] \in {"ready", "locked", "backed", "closing", "disowned"} =>
       state \in {IDLE, ACTIVE}
  /\ pc[p] = "backed" => backup = Committed
  /\ pc[p] \in {"activated", "stamped", "hdrdone", "rawdone"} => state = ACTIVE
  /\ pc[p] \in UpdatePc => state = UPDATE
  /\ pc[p] = "updating" => index = Committed
  /\ pc[p] = "incoldest" => index = WithOldest(Committed)
  /\ pc[p] = "incyngest" => index = Begun
  /\ pc[p] = "bumpedlend" => Full(Begun) /\ index = BumpLend(Begun)
  /\ pc[p] = "inclend" => Full(Begun) /\ index = SlideLend(Begun)
  /\ pc[p] = "bumpedoldest" => Full(Begun) /\ index = BumpOldest(SlideLend(Begun))
  /\ pc[p] = "incslid" => Full(Begun) /\ index = Slid
  /\ pc[p] = "bumpedactive" => index = BumpActive(Slid)
  /\ pc[p] = "incremented" => index = IndexAfter(Count + 1)

\* What the next commit will find in the slot being written.
Written(p) ==
  /\ pc[p] \in {"hdrdone", "rawdone"} \cup UpdatePc => hdr[Count % N] = seqno
  /\ pc[p] \in {"rawdone"} \cup UpdatePc => raw[Count % N] = seqno

\* The window's slots hold what was committed, header and payload.
Stored(k) == hdr[(k - 1) % N] = log[k] /\ raw[(k - 1) % N] = log[k]

ProgressInv == \A p \in Pid : Progress(p)
ContentInv ==
  /\ \A p \in Pid : Written(p)
  /\ \A k \in 1..Count : k > Count - NumPkt => Stored(k)

RingInv == IndexInv /\ ProgressInv /\ ContentInv

\* The whole of it: inductive, and enough for TypeOK, SingleWriter and
\* WindowIntact.
IInv == TypeOK /\ LockInv /\ OwnerInv /\ RingInv
-----------------------------------------------------------------------------
(* Invariants that hold because of IInv, each for the property named: of    *)
(* CountNeverAhead, SeqnoIncreases, StableUnderReadLock, ReaderSeesWhole.   *)

\* Only the packet just committed is not counted.
CountInv ==
  /\ count <= Count
  /\ \A p \in Pid : pc[p] = "committed" => count < Count

\* A writer that is about to take a number, and one that has taken its own.
NumberingPc == {"locked", "backed", "activated"}
NumberedPc == {"stamped", "hdrdone", "rawdone"} \cup UpdatePc

\* The number taken is new.
NumberInv ==
  /\ SeqnoIncreases
  /\ \A p \in Pid : /\ pc[p] \in NumberingPc /\ Generate => seqno < MaxSeqno
                    /\ pc[p] \in NumberedPc =>
                         /\ seqno \in Seqno
                         /\ Generate => \A i \in 1..Count : log[i] < seqno

\* The lock is shared by readers or held by a writer.
ReaderInv == wlock # NoPid => rlock = {}

\* How far an increment can have got when its writer dies.
Halfway ==
  {Committed, WithOldest(Committed), Begun, BumpActive(Slid), IndexAfter(Count + 1)}
  \cup (IF Full(Begun) THEN {BumpLend(Begun), SlideLend(Begun),
                             BumpOldest(SlideLend(Begun)), Slid} ELSE {})

\* The packet is in its slot by the time the indices begin to move.
UpdateInv ==
  state = UPDATE => /\ index \in Halfway
                    /\ hdr[Count % N] = seqno /\ raw[Count % N] = seqno
=============================================================================
