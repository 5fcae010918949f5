--------------------------- MODULE DiskLoopProofs ---------------------------
(***************************************************************************)
(* Proofs about DiskLoop for every size of the loop, every number of       *)
(* processes and every bound.                                              *)
(*                                                                         *)
(* First IInv (module DiskLoopInv), part by part: no step breaks TypeOK,   *)
(* every step keeps the lock and sys.parent with the process they belong   *)
(* to, and RingInv says which packet is in which slot.  TypeOK,            *)
(* SingleWriter and WindowIntact follow.  Then what follows from these:    *)
(* the count is never ahead of the packets, the numbers increase, the disk *)
(* loop implements PacketLog, nothing changes as long as a reader has the  *)
(* lock, and the indices a dead writer left lead to whole packets.         *)
(***************************************************************************)
EXTENDS DiskLoopInv, ModArithmetic

\* What isimkdl's checks on its sizes give: some slots, more of them than packets.
LEMMA Slots ==
  /\ N \in Nat \ {0}
  /\ NumPkt \in 1..(N - 1)
  /\ 0 \in Slot
  /\ Slot \subseteq Nat
BY SizeAssumption DEF N, Slot

\* A bumped slot index wraps around to a slot.
LEMMA WrapType ==
  /\ \A i \in Bumped : Wrap(i) \in Slot
  /\ \A i \in Slot : i + 1 \in Bumped
  /\ Slot \subseteq Bumped
<1>1. N \in Nat \ {0}  BY Slots
<1>2. ASSUME NEW i \in Bumped PROVE Wrap(i) \in Slot
  <2>1. i \in Nat  BY <1>1 DEF Bumped
  <2>2. i % N \in 0..(N - 1)  BY <1>1, <2>1, ModRange
  <2> QED  BY <2>2 DEF Wrap, Slot
<1> QED  BY <1>1, <1>2 DEF Slot, Bumped

-----------------------------------------------------------------------------
(* TypeOK.                                                                  *)

\* A loop as isidlCreateDiskLoop leaves it is well typed.
LEMMA TypeInit == Init => TypeOK
<1> SUFFICES ASSUME Init PROVE TypeOK  OBVIOUS
<1>1. NewIndex \in Index
      BY Slots, SizeAssumption DEF NewIndex, Index, Bumped, N
<1>2. [active |-> 0, lend |-> 0, oldest |-> 0, yngest |-> 0] \in Index
      BY Slots DEF Index, Bumped
<1>3. pc \in [Pid -> PcValues]  BY DEF Init, PcValues
<1>4. log \in Seq(Nat)  BY DEF Init
<1>5. hdr \in [Slot -> Nat] /\ raw \in [Slot -> Nat]  BY DEF Init, NoPkt
<1> QED  BY <1>1, <1>2, <1>3, <1>4, <1>5 DEF Init, TypeOK

\* Every location a step leads to is one of PcValues.
LEMMA PcType ==
  ASSUME TypeOK, NEW p \in Pid, NEW from, NEW to \in PcValues, At(p, from, to)
  PROVE  pc' \in [Pid -> PcValues]
BY DEF At, TypeOK

\* util_lock and its opposite leave the lock with a process or with nobody.
LEMMA LockType ==
  ASSUME TypeOK, NEW p \in Pid,
         Acquire(p) \/ Release \/ KeepLock \/ UnlockAndFail
  PROVE  wlock' \in Pid \cup {NoPid} /\ rlock' \in SUBSET Reader
BY DEF Acquire, Release, KeepLock, UnlockAndFail, TypeOK

\* A store of IncrementIndicies leaves an index of the right type if it bumps
\* one that is in a slot.
LEMMA IndexType ==
  ASSUME NEW ix \in Index
  PROVE  /\ WithOldest(ix) \in Index
         /\ WithYngest(ix) \in Index
         /\ ix.lend \in Slot => BumpLend(ix) \in Index
         /\ WrapLend(ix) \in Index
         /\ ix.oldest \in Slot => BumpOldest(ix) \in Index
         /\ ix.oldest # Undefined => WrapOldest(ix) \in Index
         /\ ix.active \in Slot => BumpActive(ix) \in Index
         /\ WrapActive(ix) \in Index
<1>1. /\ Wrap(ix.lend) \in Bumped
      /\ ix.oldest # Undefined => Wrap(ix.oldest) \in Bumped
      /\ Wrap(ix.active) \in Bumped
      BY WrapType DEF Index
<1>2. WithOldest(ix) \in Index /\ WithYngest(ix) \in Index
      BY DEF Index, WithOldest, WithYngest
<1>3. /\ ix.lend \in Slot => BumpLend(ix) \in Index
      /\ WrapLend(ix) \in Index
      BY <1>1, WrapType DEF Index, BumpLend, WrapLend
<1>4. /\ ix.oldest \in Slot => BumpOldest(ix) \in Index
      /\ ix.oldest # Undefined => WrapOldest(ix) \in Index
      BY <1>1, WrapType DEF Index, BumpOldest, WrapOldest
<1>5. /\ ix.active \in Slot => BumpActive(ix) \in Index
      /\ WrapActive(ix) \in Index
      BY <1>1, WrapType DEF Index, BumpActive, WrapActive
<1> QED  BY <1>2, <1>3, <1>4, <1>5

\* So does the step that makes the store.
LEMMA IncrementType ==
  ASSUME TypeOK, NEW p \in Pid, NEW from, NEW to \in PcValues,
         NEW new \in Index, Increment(p, from, to, new)
  PROVE  TypeOK'
<1>1. pc' \in [Pid -> PcValues]  BY PcType DEF Increment
<1>2. wlock' \in Pid \cup {NoPid} /\ rlock' \in SUBSET Reader
      BY LockType DEF Increment
<1> QED  BY <1>1, <1>2 DEF Increment, TypeOK

\* IncrementIndicies never bumps an index twice.
BumpsASlot ==
  \A p \in Pid :
    /\ pc[p] = "incyngest" => index.lend \in Slot /\ index.active \in Slot
    /\ pc[p] = "inclend" => index.oldest \in Slot
    /\ pc[p] = "bumpedoldest" => index.oldest # Undefined
    /\ pc[p] = "incslid" => index.active \in Slot

\* No step of open, write, close, a kill or a reader breaks a type.
LEMMA TypeStep == TypeOK /\ BumpsASlot /\ [Next]_vars => TypeOK'
<1> SUFFICES ASSUME TypeOK, BumpsASlot, [Next]_vars PROVE TypeOK'  OBVIOUS
<1> USE DEF PcValues, LockedPc, OpenPc, WritePc, ClosePc
<1>1. ASSUME NEW p \in Pid, Spawn(p) PROVE TypeOK'
      BY <1>1, PcType DEF Spawn, sysvars, TypeOK
<1>2. ASSUME NEW p \in Pid, Crash(p) PROVE TypeOK'
      BY <1>2 DEF Crash, sysvars, TypeOK
<1>3. ASSUME NEW p \in Pid, Open(p) PROVE TypeOK'
  <2>1. CASE OpenLock(p)  BY <2>1, PcType, LockType DEF OpenLock, sysvars, TypeOK
  <2>2. CASE OpenRefused(p)  BY <2>2, PcType, LockType DEF OpenRefused, sysvars, TypeOK
  <2>3. CASE OpenClaim(p)  BY <2>3, PcType, LockType DEF OpenClaim, TypeOK
  <2>4. CASE OpenClean(p)  BY <2>4, PcType, LockType DEF OpenClean, TypeOK
  <2>5. CASE OpenRestore(p)
        BY <2>5, PcType, LockType DEF OpenRestore, Restored, TypeOK
  <2>6. CASE OpenSetIdle(p)  BY <2>6, PcType, LockType DEF OpenSetIdle, TypeOK
  <2>7. CASE OpenUnlock(p)  BY <2>7, PcType, LockType DEF OpenUnlock, sysvars, TypeOK
  <2> QED  BY <1>3, <2>1, <2>2, <2>3, <2>4, <2>5, <2>6, <2>7 DEF Open
<1>4. ASSUME NEW p \in Pid, WriteLock(p) PROVE TypeOK'
      BY <1>4, PcType, LockType DEF WriteLock, sysvars, TypeOK
<1>5. ASSUME NEW p \in Pid, Write(p) PROVE TypeOK'
  <2>1. CASE WriteBackup(p)  BY <2>1, PcType, LockType DEF WriteBackup, TypeOK
  <2>2. CASE WriteActivate(p)  BY <2>2, PcType, LockType DEF WriteActivate, TypeOK
  <2>3. CASE WriteSeqno(p)
    <3>1. seqno' \in Nat
          BY <2>3, BoundAssumption DEF WriteSeqno, NextSeqno, Seqno, TypeOK
    <3> QED  BY <2>3, <3>1, PcType, LockType DEF WriteSeqno, TypeOK
  <2>4. CASE WriteHdr(p)  BY <2>4, PcType, LockType DEF WriteHdr, sysvars, TypeOK
  <2>5. CASE WriteRaw(p)  BY <2>5, PcType, LockType DEF WriteRaw, sysvars, TypeOK
  <2>6. CASE WriteHdrFails(p)
    <3>1. hdr' \in [Slot -> Nat]
      <4>1. hdr \in [Slot -> Nat] /\ NoPkt \in Nat  BY DEF NoPkt, TypeOK
      <4>2. hdr' = hdr \/ hdr' = [hdr EXCEPT ![index.active] = NoPkt]
            BY <2>6 DEF WriteHdrFails
      <4> QED  BY <4>1, <4>2
    <3>2. At(p, "stamped", "ready")  BY <2>6 DEF WriteHdrFails
    <3>3. pc' \in [Pid -> PcValues]  BY <3>2, PcType
    <3> QED  BY <2>6, <3>1, <3>3, LockType DEF WriteHdrFails, sysvars, TypeOK
  <2>7. CASE WriteRawFails(p)
    <3>1. raw' \in [Slot -> Nat]
      <4>1. raw \in [Slot -> Nat] /\ NoPkt \in Nat  BY DEF NoPkt, TypeOK
      <4>2. raw' = raw \/ raw' = [raw EXCEPT ![index.active] = NoPkt]
            BY <2>7 DEF WriteRawFails
      <4> QED  BY <4>1, <4>2
    <3>2. At(p, "hdrdone", "ready")  BY <2>7 DEF WriteRawFails
    <3>3. pc' \in [Pid -> PcValues]  BY <3>2, PcType
    <3> QED  BY <2>7, <3>1, <3>3, LockType DEF WriteRawFails, sysvars, TypeOK
  <2>8. CASE WriteUpdate(p)  BY <2>8, PcType, LockType DEF WriteUpdate, TypeOK
  <2>9. CASE IncOldest(p) \/ IncYngest(p) \/ IncLend(p) \/ IncSlide(p) \/ IncActive(p)
    <3> DEFINE Stores(new) == \E from, to \in PcValues : Increment(p, from, to, new)
    <3>1. index \in Index  BY DEF TypeOK
    <3>2. \A new \in Index : Stores(new) => TypeOK'  BY IncrementType
    <3> HIDE DEF Stores
    <3>3. CASE IncOldest(p)
      <4>1. Stores(WithOldest(index))  BY <3>3 DEF IncOldest, Stores
      <4> QED  BY <3>1, <3>2, <4>1, IndexType
    <3>4. CASE IncYngest(p)
      <4>1. Stores(WithYngest(index))  BY <3>4 DEF IncYngest, Stores
      <4> QED  BY <3>1, <3>2, <4>1, IndexType
    <3>5. CASE IncLend(p)
      <4>1. \/ index.lend \in Slot /\ Stores(BumpLend(index))
            \/ Stores(WrapLend(index))
            BY <3>5 DEF IncLend, Increment, At, BumpsASlot, Stores
      <4> QED  BY <3>1, <3>2, <4>1, IndexType
    <3>6. CASE IncSlide(p)
      <4>1. \/ index.oldest \in Slot /\ Stores(BumpOldest(index))
            \/ index.oldest # Undefined /\ Stores(WrapOldest(index))
            BY <3>6 DEF IncSlide, Increment, At, BumpsASlot, Stores
      <4> QED  BY <3>1, <3>2, <4>1, IndexType
    <3>7. CASE IncActive(p)
      <4>1. \/ index.active \in Slot /\ Stores(BumpActive(index))
            \/ Stores(WrapActive(index))
            BY <3>7 DEF IncActive, Increment, At, BumpsASlot, Stores
      <4> QED  BY <3>1, <3>2, <4>1, IndexType
    <3> QED  BY <2>9, <3>3, <3>4, <3>5, <3>6, <3>7
  <2>10. CASE WriteCommit(p)  BY <2>10, PcType, LockType DEF WriteCommit, TypeOK
  <2>11. CASE WriteCount(p)  BY <2>11, PcType, LockType DEF WriteCount, TypeOK
  <2>12. CASE WriteUnlock(p)
         BY <2>12, PcType, LockType DEF WriteUnlock, sysvars, TypeOK
  <2> QED  BY <1>5, <2>1, <2>2, <2>3, <2>4, <2>5, <2>6, <2>7, <2>8, <2>9,
              <2>10, <2>11, <2>12 DEF Write
<1>6. ASSUME NEW p \in Pid, CloseLock(p) PROVE TypeOK'
      BY <1>6, PcType, LockType DEF CloseLock, sysvars, TypeOK
<1>7. ASSUME NEW p \in Pid, Close(p) PROVE TypeOK'
  <2>1. CASE CloseDisown(p)  BY <2>1, PcType, LockType DEF CloseDisown, TypeOK
  <2>2. CASE CloseNotParent(p)
        BY <2>2, PcType, LockType DEF CloseNotParent, sysvars, TypeOK
  <2>3. CASE CloseInactive(p)  BY <2>3, PcType, LockType DEF CloseInactive, TypeOK
  <2> QED  BY <1>7, <2>1, <2>2, <2>3 DEF Close, CloseParent
<1>8. ASSUME NEW r \in Reader, ReadLock(r) \/ ReadUnlock(r) PROVE TypeOK'
      BY <1>8 DEF ReadLock, ReadUnlock, sysvars, TypeOK
<1>9. CASE UNCHANGED vars  BY <1>9 DEF vars, TypeOK
<1> QED  BY <1>1, <1>2, <1>3, <1>4, <1>5, <1>6, <1>7, <1>8, <1>9 DEF Next

-----------------------------------------------------------------------------
(* LockInv and OwnerInv.                                                    *)

AccessInv == LockInv /\ OwnerInv

\* A new loop has no owner and no lock is held.
LEMMA AccessInit == Init => AccessInv
BY PidAssumption
   DEF Init, AccessInv, LockInv, OwnerInv, LockedPc, OpenPc, WritePc, ClosePc,
       OwnerPc

\* A process on its way through open, write or close is alone there.
LEMMA Alone ==
  ASSUME AccessInv, NEW p \in Pid, pc[p] \in LockedPc,
         NEW q \in Pid, q # p
  PROVE  pc[q] \notin LockedPc
BY DEF AccessInv, LockInv

\* One that owns the loop, or has just disowned it, is the only one to do so.
LEMMA AloneOwner ==
  ASSUME AccessInv, NEW p \in Pid, pc[p] \in OwnerPc \cup {"disowned"},
         NEW q \in Pid, q # p
  PROVE  pc[q] \notin OwnerPc
BY PidAssumption DEF AccessInv, OwnerInv

\* Every step keeps the lock and sys.parent with the process they belong to.
LEMMA AccessStep == TypeOK /\ AccessInv /\ [Next]_vars => AccessInv'
<1> SUFFICES ASSUME TypeOK, AccessInv, [Next]_vars PROVE AccessInv'  OBVIOUS
<1> USE DEF AccessInv, LockInv, OwnerInv, LockedPc, OpenPc, WritePc, ClosePc,
            OwnerPc, At
<1>0. pc \in [Pid -> PcValues] /\ NoPid \notin Pid
      BY PidAssumption DEF TypeOK
<1>1. ASSUME NEW p \in Pid, Spawn(p) PROVE AccessInv'
      BY <1>0, <1>1 DEF Spawn, sysvars
<1>2. ASSUME NEW p \in Pid, Crash(p) PROVE AccessInv'
      BY <1>0, <1>2 DEF Crash, sysvars
<1>3. ASSUME NEW p \in Pid, Open(p) PROVE AccessInv'
  <2>1. CASE OpenLock(p)
        BY <1>0, <2>1 DEF OpenLock, Acquire, LockFree, sysvars
  <2>2. CASE OpenRefused(p)  BY <1>0, <2>2 DEF OpenRefused, Release, sysvars
  <2>3. CASE OpenClaim(p)
        BY <1>0, <2>3 DEF OpenClaim, Vacant, Alive, KeepLock
  <2>4. CASE OpenClean(p)  BY <1>0, <2>4 DEF OpenClean, KeepLock
  <2>5. CASE OpenRestore(p)  BY <1>0, <2>5 DEF OpenRestore, KeepLock
  <2>6. CASE OpenSetIdle(p)  BY <1>0, <2>6 DEF OpenSetIdle, KeepLock
  <2>7. CASE OpenUnlock(p)  BY <1>0, <2>7 DEF OpenUnlock, Release, sysvars
  <2> QED  BY <1>3, <2>1, <2>2, <2>3, <2>4, <2>5, <2>6, <2>7 DEF Open
<1>4. ASSUME NEW p \in Pid, WriteLock(p) PROVE AccessInv'
      BY <1>0, <1>4 DEF WriteLock, Acquire, LockFree, sysvars
<1>5. ASSUME NEW p \in Pid, Write(p) PROVE AccessInv'
  <2>1. CASE WriteBackup(p)  BY <1>0, <2>1 DEF WriteBackup, KeepLock
  <2>2. CASE WriteActivate(p)  BY <1>0, <2>2 DEF WriteActivate, KeepLock
  <2>3. CASE WriteSeqno(p)  BY <1>0, <2>3 DEF WriteSeqno, KeepLock
  <2>4. CASE WriteHdr(p)  BY <1>0, <2>4 DEF WriteHdr, KeepLock, sysvars
  <2>5. CASE WriteRaw(p)  BY <1>0, <2>5 DEF WriteRaw, KeepLock, sysvars
  <2>6. CASE WriteHdrFails(p)
        BY <1>0, <2>6 DEF WriteHdrFails, UnlockAndFail, Release, sysvars
  <2>7. CASE WriteRawFails(p)
        BY <1>0, <2>7 DEF WriteRawFails, UnlockAndFail, Release, sysvars
  <2>8. CASE WriteUpdate(p)  BY <1>0, <2>8 DEF WriteUpdate, KeepLock
  <2>9. CASE IncOldest(p) \/ IncYngest(p) \/ IncLend(p) \/ IncSlide(p) \/ IncActive(p)
    <3>1. UNCHANGED <<wlock, parent>>
          BY <2>9 DEF IncOldest, IncYngest, IncLend, IncSlide, IncActive,
                      Increment, KeepLock
    <3>2. \E from, to \in {"updating", "incoldest", "incyngest", "bumpedlend",
                           "inclend", "bumpedoldest", "incslid",
                           "bumpedactive", "incremented"} : At(p, from, to)
          BY <2>9 DEF IncOldest, IncYngest, IncLend, IncSlide, IncActive, Increment
    <3> QED  BY <1>0, <3>1, <3>2
  <2>10. CASE WriteCommit(p)  BY <1>0, <2>10 DEF WriteCommit, KeepLock
  <2>11. CASE WriteCount(p)  BY <1>0, <2>11 DEF WriteCount, KeepLock
  <2>12. CASE WriteUnlock(p)  BY <1>0, <2>12 DEF WriteUnlock, Release, sysvars
  <2> QED  BY <1>5, <2>1, <2>2, <2>3, <2>4, <2>5, <2>6, <2>7, <2>8, <2>9,
              <2>10, <2>11, <2>12 DEF Write
<1>6. ASSUME NEW p \in Pid, CloseLock(p) PROVE AccessInv'
      BY <1>0, <1>6 DEF CloseLock, Acquire, LockFree, sysvars
<1>7. ASSUME NEW p \in Pid, Close(p) PROVE AccessInv'
  <2>1. CASE CloseDisown(p)  BY <1>0, <2>1 DEF CloseDisown, KeepLock
  <2>2. CASE CloseNotParent(p)
        BY <1>0, <2>2 DEF CloseNotParent, Release, sysvars
  <2>3. CASE CloseInactive(p)  BY <1>0, <2>3 DEF CloseInactive, Release
  <2> QED  BY <1>7, <2>1, <2>2, <2>3 DEF Close, CloseParent
<1>8. ASSUME NEW r \in Reader, ReadLock(r) \/ ReadUnlock(r) PROVE AccessInv'
      BY <1>8 DEF ReadLock, ReadUnlock, sysvars
<1>9. CASE UNCHANGED vars  BY <1>9 DEF vars
<1> QED  BY <1>1, <1>2, <1>3, <1>4, <1>5, <1>6, <1>7, <1>8, <1>9 DEF Next

-----------------------------------------------------------------------------
(* IncrementIndicies, carried out to the end, leads from the indices after  *)
(* n packets to the indices after n + 1.                                    *)

\* The slot after packet k's is packet k + 1's.
LEMMA NextSlotMod ==
  ASSUME NEW k \in Nat
  PROVE  NextSlot(k % N) = (k + 1) % N /\ k % N \in Slot /\ k % N # Undefined
<1>1. N \in Nat \ {0} /\ 1 \in 0..N  BY Slots
<1>2. ((k % N) + 1) % N = (k + 1) % N  BY <1>1, ModMod
<1>3. k % N \in 0..(N - 1)  BY <1>1, ModRange
<1> QED  BY <1>2, <1>3 DEF NextSlot, Wrap, Slot, Undefined

\* Writing packet n + 1 makes the window slide when NumPkt are there already.
LEMMA FullAfter ==
  ASSUME NEW n \in Nat
  PROVE  Full(WithYngest(WithOldest(IndexAfter(n)))) <=> n >= NumPkt
<1> DEFINE lend == (IF n > NumPkt THEN n ELSE NumPkt) % N
<1>1. Full(WithYngest(WithOldest(IndexAfter(n)))) <=> n % N = lend
      BY DEF Full, WithYngest, WithOldest, IndexAfter
<1>2. CASE n >= NumPkt
  <2>1. n % N = lend  BY <1>2, SizeAssumption
  <2> QED  BY <1>1, <1>2, <2>1
<1>3. CASE n < NumPkt
  <2>1. n \in 0..(N - 1) /\ NumPkt \in 0..(N - 1) /\ N \in Nat \ {0}
        BY <1>3, Slots
  <2>2. n % N = n /\ NumPkt % N = NumPkt  BY <2>1, ModSmall
  <2>3. lend = NumPkt % N  BY <1>3, SizeAssumption
  <2> HIDE DEF lend
  <2> QED  BY <1>1, <1>3, <2>1, <2>2, <2>3
<1> QED  BY <1>2, <1>3, SizeAssumption

\* A bump and a wrap move an index on to the next slot.
LEMMA LendSlides == \A ix : WrapLend(BumpLend(ix)) = SlideLend(ix)
BY DEF WrapLend, BumpLend, SlideLend, NextSlot

LEMMA OldestSlides == \A ix : WrapOldest(BumpOldest(ix)) = SlideOldest(ix)
BY DEF WrapOldest, BumpOldest, SlideOldest, NextSlot

LEMMA ActiveSlides == \A ix : WrapActive(BumpActive(ix)) = WithActive(ix)
BY DEF WrapActive, BumpActive, WithActive, NextSlot

\* The stores of IncrementIndicies add up to one more packet in the indices.
LEMMA IncrementAfter ==
  ASSUME NEW n \in Nat, NEW b, b = WithYngest(WithOldest(IndexAfter(n)))
  PROVE  /\ ~Full(b) => WithActive(b) = IndexAfter(n + 1)
         /\ Full(b) => WithActive(SlideOldest(SlideLend(b))) = IndexAfter(n + 1)
<1> DEFINE a == n % N
           o == First(n) % N
           l == (IF n > NumPkt THEN n ELSE NumPkt) % N
<1>1. First(n) \in Nat /\ NumPkt \in Nat /\ NumPkt > 0
      BY SizeAssumption DEF First
<1>2. b = [active |-> a, lend |-> l, oldest |-> o, yngest |-> a]
  <2>1. o # Undefined  BY <1>1, NextSlotMod
  <2>2. n = 0 => a = o  BY <1>1 DEF First
  <2> HIDE DEF a, o, l
  <2>3. IndexAfter(n) = [active |-> a, lend |-> l,
                         oldest |-> IF n = 0 THEN Undefined ELSE o,
                         yngest |-> IF n = 0 THEN Undefined ELSE (n - 1) % N]
        BY DEF IndexAfter, a, o, l
  <2>4. WithOldest(IndexAfter(n)) =
          [active |-> a, lend |-> l, oldest |-> o,
           yngest |-> IF n = 0 THEN Undefined ELSE (n - 1) % N]
        BY <2>1, <2>2, <2>3 DEF WithOldest
  <2> QED  BY <2>4 DEF WithYngest
<1>3. NextSlot(a) = (n + 1) % N /\ NextSlot(o) = (First(n) + 1) % N
      BY <1>1, NextSlotMod
<1>4. IndexAfter(n + 1) =
        [active |-> (n + 1) % N,
         lend   |-> (IF n + 1 > NumPkt THEN n + 1 ELSE NumPkt) % N,
         oldest |-> First(n + 1) % N, yngest |-> a]
  <2>1. n + 1 # 0 /\ (n + 1) - 1 = n  OBVIOUS
  <2>2. ((n + 1) - 1) % N = a  BY <2>1
  <2> HIDE DEF a
  <2> DEFINE m == n + 1
  <2>3. m # 0 /\ (m - 1) % N = a  BY <2>1, <2>2
  <2> HIDE DEF m
  <2>4. IndexAfter(m) =
          [active |-> m % N, lend |-> (IF m > NumPkt THEN m ELSE NumPkt) % N,
           oldest |-> First(m) % N, yngest |-> a]
        BY <2>3 DEF IndexAfter
  <2> QED  BY <2>4 DEF m
<1>5. CASE n >= NumPkt
  <2>1. Full(b)  BY <1>5, FullAfter
  <2>2. First(n + 1) = First(n) + 1  BY <1>1, <1>5 DEF First
  <2>3. l = a  BY <1>1, <1>5
  <2>4. (IF n + 1 > NumPkt THEN n + 1 ELSE NumPkt) = n + 1  BY <1>1, <1>5
  <2> HIDE DEF a, o, l
  <2>5. WithActive(SlideOldest(SlideLend(b))) =
          [active |-> NextSlot(a), lend |-> NextSlot(l),
           oldest |-> NextSlot(o), yngest |-> a]
    <3>1. SlideLend(b) =
            [active |-> a, lend |-> NextSlot(l), oldest |-> o, yngest |-> a]
          BY <1>2 DEF SlideLend
    <3>2. SlideOldest(SlideLend(b)) =
            [active |-> a, lend |-> NextSlot(l), oldest |-> NextSlot(o),
             yngest |-> a]
          BY <3>1 DEF SlideOldest
    <3> QED  BY <3>2 DEF WithActive
  <2> QED  BY <1>3, <1>4, <2>1, <2>2, <2>3, <2>4, <2>5
<1>6. CASE n < NumPkt
  <2>1. ~Full(b)  BY <1>1, <1>6, FullAfter
  <2>2. First(n + 1) = First(n)  BY <1>1, <1>6 DEF First
  <2>3. l = (IF n + 1 > NumPkt THEN n + 1 ELSE NumPkt) % N  BY <1>1, <1>6
  <2> HIDE DEF a, o, l
  <2>4. WithActive(b) =
          [active |-> NextSlot(a), lend |-> l, oldest |-> o, yngest |-> a]
        BY <1>2 DEF WithActive
  <2>5. o = First(n + 1) % N  BY <2>2 DEF o
  <2> QED  BY <1>3, <1>4, <2>1, <2>3, <2>4, <2>5
<1> QED  BY <1>1, <1>5, <1>6

-----------------------------------------------------------------------------
(* RingInv.                                                                 *)

\* A new loop's indices are those of no packet.
LEMMA RingInit == Init => RingInv
<1> SUFFICES ASSUME Init PROVE RingInv  OBVIOUS
<1> USE DEF Init
<1>1. Count = 0  BY DEF Count
<1>2. 0 % N = 0 /\ N - NHide = NumPkt % N
  <2>1. N \in Nat \ {0} /\ 0 \in 0..(N - 1) /\ NumPkt \in 0..(N - 1)  BY Slots
  <2>2. N - NHide = NumPkt  BY SizeAssumption DEF N
  <2> QED  BY <2>1, <2>2, ModSmall
<1>3. NewIndex = IndexAfter(0)
      BY <1>2, SizeAssumption DEF NewIndex, IndexAfter
<1>4. IndexInv
      BY <1>1, <1>3 DEF IndexInv, Committed, INACTIVE, ACTIVE, UPDATE
<1>5. ProgressInv  BY DEF ProgressInv, Progress, UpdatePc
<1>6. ContentInv  BY <1>1 DEF ContentInv, Written, UpdatePc
<1> QED  BY <1>4, <1>5, <1>6 DEF RingInv

\* A step that moves one process and touches neither the indices nor the
\* packets.
LEMMA Moves ==
  ASSUME RingInv, NEW p \in Pid, NEW to,
         pc \in [Pid -> PcValues], pc' = [pc EXCEPT ![p] = to],
         UNCHANGED <<index, backup, state, seqno, hdr, raw, log>>,
         Progress(p)', Written(p)'
  PROVE  RingInv'
<1>1. IndexInv'  BY DEF RingInv, IndexInv, Committed, Count
<1>2. ASSUME NEW q \in Pid PROVE Progress(q)' /\ Written(q)'
  <2>1. CASE q = p  BY <2>1
  <2>2. CASE q # p
    <3>1. pc'[q] = pc[q]  BY <2>2
    <3>2. Progress(q) /\ Written(q)  BY DEF RingInv, ProgressInv, ContentInv
    <3> QED  BY <3>1, <3>2
             DEF Progress, Written, UpdatePc, Committed, Begun, Slid, Count
  <2> QED  BY <2>1, <2>2
<1>3. \A k \in 1..Count' : k > Count' - NumPkt => Stored(k)'
      BY DEF RingInv, ContentInv, Count, Stored
<1> QED  BY <1>1, <1>2, <1>3 DEF RingInv, ProgressInv, ContentInv

\* A step of the one process that has the loop to itself: only its own part of
\* the invariant is at stake.
LEMMA Works ==
  ASSUME AccessInv, NEW p \in Pid, NEW to,
         pc[p] \in LockedPc, pc[p] \in OwnerPc \cup {"disowned"},
         pc \in [Pid -> PcValues], pc' = [pc EXCEPT ![p] = to],
         IndexInv', Progress(p)', Written(p)',
         \A k \in 1..Count' : k > Count' - NumPkt => Stored(k)'
  PROVE  RingInv'
<1>1. ASSUME NEW q \in Pid, q # p PROVE Progress(q)' /\ Written(q)'
  <2>1. pc'[q] = pc[q]  BY <1>1
  <2>2. pc[q] \notin LockedPc /\ pc[q] \notin OwnerPc
        BY <1>1, Alone, AloneOwner
  <2> QED  BY <2>1, <2>2
           DEF LockedPc, OpenPc, WritePc, ClosePc, OwnerPc, Progress, Written, UpdatePc
<1> QED  BY <1>1 DEF RingInv, ProgressInv, ContentInv

\* The slot being written is not one of the window's.
LEMMA WritesOutside ==
  ASSUME TypeOK, NEW k \in 1..Count, k > Count - NumPkt
  PROVE  /\ (k - 1) % N # Count % N
         /\ (k - 1) % N \in Slot
         /\ Count % N \in Slot
<1>1. Count \in Nat  BY DEF TypeOK, Count
<1>2. N \in Nat \ {0} /\ NumPkt \in Nat /\ NumPkt < N  BY Slots, SizeAssumption
<1>3. k - 1 \in Nat /\ k - 1 < Count /\ Count < (k - 1) + N  BY <1>1, <1>2
<1>4. Count % N # (k - 1) % N  BY <1>1, <1>2, <1>3, ModInj
<1>5. (k - 1) % N \in 0..(N - 1) /\ Count % N \in 0..(N - 1)
      BY <1>1, <1>2, <1>3, ModRange
<1> QED  BY <1>4, <1>5 DEF Slot

\* Opening a loop, and cleaning up after a dead writer, finds its packets.
LEMMA RingOpen ==
  ASSUME TypeOK, AccessInv, RingInv, NEW p \in Pid, Open(p)
  PROVE  RingInv'
<1> USE DEF At
<1>0. pc \in [Pid -> PcValues]  BY DEF TypeOK
<1>p. Progress(p) /\ IndexInv /\ \A k \in 1..Count : k > Count - NumPkt => Stored(k)
      BY DEF RingInv, ProgressInv, ContentInv
<1>1. CASE OpenLock(p)
  <2>1. Progress(p)' /\ Written(p)'
        BY <1>0, <1>1 DEF OpenLock, Progress, Written, UpdatePc
  <2> QED  BY <1>0, <1>1, <2>1, Moves DEF OpenLock, sysvars
<1>2. CASE OpenRefused(p)
  <2>1. Progress(p)' /\ Written(p)'
        BY <1>0, <1>2 DEF OpenRefused, Progress, Written, UpdatePc
  <2> QED  BY <1>0, <1>2, <2>1, Moves DEF OpenRefused, sysvars
<1>3. CASE OpenClaim(p)
  <2>1. Progress(p)' /\ Written(p)'
        BY <1>0, <1>3 DEF OpenClaim, Progress, Written, UpdatePc
  <2> QED  BY <1>0, <1>3, <2>1, Moves DEF OpenClaim
<1>4. CASE OpenClean(p)
  <2>1. Committed' = Committed /\ Count' = Count
        BY <1>4 DEF OpenClean, Committed, Count
  <2>2. IndexInv'
        BY <1>4, <1>p, <2>1
           DEF OpenClean, IndexInv, INACTIVE, ACTIVE, IDLE, UPDATE
  <2>3. Progress(p)' /\ Written(p)'
        BY <1>0, <1>4 DEF OpenClean, Progress, Written, UpdatePc
  <2>4. \A k \in 1..Count' : k > Count' - NumPkt => Stored(k)'
        BY <1>4, <1>p, <2>1 DEF OpenClean, Stored
  <2> QED  BY <1>0, <1>4, <2>2, <2>3, <2>4, Works
           DEF OpenClean, LockedPc, OpenPc, OwnerPc
<1>5. CASE OpenRestore(p)
  <2>1. Committed' = Committed /\ Count' = Count
        BY <1>5 DEF OpenRestore, Committed, Count
  <2>2. index' = Committed /\ backup = Committed
        BY <1>5, <1>p DEF OpenRestore, Restored, IndexInv, TypeOK
  <2>3. IndexInv'  BY <1>5, <2>1, <2>2 DEF OpenRestore, IndexInv
  <2>4. Progress(p)' /\ Written(p)'
        BY <1>0, <1>5, <2>1, <2>2 DEF OpenRestore, Progress, Written, UpdatePc
  <2>5. \A k \in 1..Count' : k > Count' - NumPkt => Stored(k)'
        BY <1>5, <1>p, <2>1 DEF OpenRestore, Stored
  <2> QED  BY <1>0, <1>5, <2>3, <2>4, <2>5, Works
           DEF OpenRestore, LockedPc, OpenPc, OwnerPc
<1>6. CASE OpenSetIdle(p)
  <2>1. Committed' = Committed /\ Count' = Count
        BY <1>6 DEF OpenSetIdle, Committed, Count
  <2>2. index = Committed  BY <1>6, <1>p DEF OpenSetIdle, Progress
  <2>3. IndexInv'
        BY <1>6, <2>1, <2>2 DEF OpenSetIdle, IndexInv, IDLE, ACTIVE, UPDATE
  <2>4. Progress(p)' /\ Written(p)'
        BY <1>0, <1>6 DEF OpenSetIdle, Progress, Written, UpdatePc
  <2>5. \A k \in 1..Count' : k > Count' - NumPkt => Stored(k)'
        BY <1>6, <1>p, <2>1 DEF OpenSetIdle, Stored
  <2> QED  BY <1>0, <1>6, <2>3, <2>4, <2>5, Works
           DEF OpenSetIdle, LockedPc, OpenPc, OwnerPc
<1>7. CASE OpenUnlock(p)
  <2>1. Progress(p)' /\ Written(p)'
        BY <1>0, <1>7, <1>p DEF OpenUnlock, Progress, Written, UpdatePc, sysvars
  <2> QED  BY <1>0, <1>7, <2>1, Moves DEF OpenUnlock, sysvars
<1> QED  BY <1>1, <1>2, <1>3, <1>4, <1>5, <1>6, <1>7 DEF Open

\* Closing leaves the indices and the packets alone.
LEMMA RingClose ==
  ASSUME TypeOK, AccessInv, RingInv, NEW p \in Pid, CloseLock(p) \/ Close(p)
  PROVE  RingInv'
<1> USE DEF At
<1>0. pc \in [Pid -> PcValues]  BY DEF TypeOK
<1>p. Progress(p) /\ IndexInv /\ \A k \in 1..Count : k > Count - NumPkt => Stored(k)
      BY DEF RingInv, ProgressInv, ContentInv
<1>1. CASE CloseLock(p)
  <2>1. Progress(p)' /\ Written(p)'
        BY <1>0, <1>1, <1>p DEF CloseLock, Progress, Written, UpdatePc, sysvars
  <2> QED  BY <1>0, <1>1, <2>1, Moves DEF CloseLock, sysvars
<1>2. CASE CloseDisown(p)
  <2>1. Progress(p)' /\ Written(p)'
        BY <1>0, <1>2, <1>p DEF CloseDisown, Progress, Written, UpdatePc
  <2> QED  BY <1>0, <1>2, <2>1, Moves DEF CloseDisown
<1>3. CASE CloseNotParent(p)
  <2>1. Progress(p)' /\ Written(p)'
        BY <1>0, <1>3 DEF CloseNotParent, Progress, Written, UpdatePc
  <2> QED  BY <1>0, <1>3, <2>1, Moves DEF CloseNotParent, sysvars
<1>4. CASE CloseInactive(p)
  <2>1. Committed' = Committed /\ Count' = Count
        BY <1>4 DEF CloseInactive, Committed, Count
  <2>2. index = Committed
        BY <1>4, <1>p DEF CloseInactive, Progress, IndexInv, IDLE, ACTIVE, UPDATE
  <2>3. IndexInv'
        BY <1>4, <2>1, <2>2 DEF CloseInactive, IndexInv, INACTIVE, ACTIVE, UPDATE
  <2>4. Progress(p)' /\ Written(p)'
        BY <1>0, <1>4 DEF CloseInactive, Progress, Written, UpdatePc
  <2>5. \A k \in 1..Count' : k > Count' - NumPkt => Stored(k)'
        BY <1>4, <1>p, <2>1 DEF CloseInactive, Stored
  <2> QED  BY <1>0, <1>4, <2>3, <2>4, <2>5, Works
           DEF CloseInactive, LockedPc, ClosePc
<1> QED  BY <1>1, <1>2, <1>3, <1>4 DEF Close, CloseParent

\* A write while it has not begun to move the indices: nothing but the slot it
\* writes, which is outside the window, and its own progress change.
LEMMA RingWriting ==
  ASSUME TypeOK, AccessInv, RingInv, NEW p \in Pid,
         \/ WriteBackup(p) \/ WriteActivate(p) \/ WriteSeqno(p) \/ WriteHdr(p)
         \/ WriteRaw(p) \/ WriteHdrFails(p) \/ WriteRawFails(p) \/ WriteUpdate(p)
  PROVE  RingInv'
<1> USE DEF At
<1>0. /\ pc \in [Pid -> PcValues]
      /\ hdr \in [Slot -> Nat] /\ raw \in [Slot -> Nat]
      BY DEF TypeOK
<1>p. /\ Progress(p) /\ Written(p) /\ IndexInv
      /\ \A k \in 1..Count : k > Count - NumPkt => Stored(k)
      BY DEF RingInv, ProgressInv, ContentInv
<1>c. Committed' = Committed /\ Count' = Count
      BY DEF WriteBackup, WriteActivate, WriteSeqno, WriteHdr, WriteRaw,
             WriteHdrFails, WriteRawFails, WriteUpdate, sysvars, Committed, Count
<1>x. /\ pc[p] \in LockedPc /\ pc[p] \in OwnerPc \cup {"disowned"}
      /\ \E to : pc' = [pc EXCEPT ![p] = to]
      BY DEF WriteBackup, WriteActivate, WriteSeqno, WriteHdr, WriteRaw,
             WriteHdrFails, WriteRawFails, WriteUpdate, LockedPc, WritePc, OwnerPc
<1>i. index = Committed
      BY <1>p DEF WriteBackup, WriteActivate, WriteSeqno, WriteHdr, WriteRaw,
         WriteHdrFails, WriteRawFails, WriteUpdate, Progress, IndexInv,
         IDLE, ACTIVE, UPDATE
<1>a. index.active = Count % N  BY <1>i DEF Committed, IndexAfter
<1>1. CASE WriteBackup(p)
  <2>1. IndexInv'  BY <1>1, <1>p, <1>c, <1>i DEF WriteBackup, IndexInv
  <2>2. Progress(p)' /\ Written(p)'
        BY <1>0, <1>1, <1>p, <1>c, <1>i DEF WriteBackup, Progress, Written, UpdatePc
  <2>3. \A k \in 1..Count' : k > Count' - NumPkt => Stored(k)'
        BY <1>1, <1>p, <1>c DEF WriteBackup, Stored
  <2> QED  BY <1>0, <1>x, <2>1, <2>2, <2>3, Works
<1>2. CASE WriteActivate(p)
  <2>1. IndexInv'
        BY <1>2, <1>p, <1>c, <1>i DEF WriteActivate, IndexInv, Progress
  <2>2. Progress(p)' /\ Written(p)'
        BY <1>0, <1>2 DEF WriteActivate, Progress, Written, UpdatePc
  <2>3. \A k \in 1..Count' : k > Count' - NumPkt => Stored(k)'
        BY <1>2, <1>p, <1>c DEF WriteActivate, Stored
  <2> QED  BY <1>0, <1>x, <2>1, <2>2, <2>3, Works
<1>3. CASE WriteSeqno(p)
  <2>1. IndexInv'  BY <1>3, <1>p, <1>c DEF WriteSeqno, IndexInv
  <2>2. Progress(p)' /\ Written(p)'
        BY <1>0, <1>3, <1>p DEF WriteSeqno, Progress, Written, UpdatePc
  <2>3. \A k \in 1..Count' : k > Count' - NumPkt => Stored(k)'
        BY <1>3, <1>p, <1>c DEF WriteSeqno, Stored
  <2> QED  BY <1>0, <1>x, <2>1, <2>2, <2>3, Works
<1>4. CASE WriteHdr(p)
  <2>1. IndexInv'  BY <1>4, <1>p, <1>c DEF WriteHdr, IndexInv, sysvars
  <2>2. Progress(p)'
        BY <1>0, <1>4, <1>p DEF WriteHdr, Progress, UpdatePc, sysvars
  <2>3. Written(p)'
    <3>1. Count \in Nat /\ N \in Nat \ {0}  BY Slots DEF TypeOK, Count
    <3>2. Count % N \in 0..(N - 1)  BY <3>1, ModRange
    <3>3. Count % N \in Slot  BY <3>2 DEF Slot
    <3>4. hdr'[Count % N] = seqno /\ seqno' = seqno
          BY <1>0, <1>4, <1>a, <3>3 DEF WriteHdr, sysvars
    <3> QED  BY <1>0, <1>4, <1>c, <3>4 DEF WriteHdr, Written, UpdatePc
  <2>4. ASSUME NEW k \in 1..Count, k > Count - NumPkt PROVE Stored(k)'
    <3>1. hdr'[(k - 1) % N] = hdr[(k - 1) % N]
          BY <1>0, <1>4, <1>a, <2>4, WritesOutside DEF WriteHdr
    <3> QED  BY <1>4, <1>p, <2>4, <3>1 DEF WriteHdr, Stored
  <2> QED  BY <1>0, <1>x, <1>c, <2>1, <2>2, <2>3, <2>4, Works
<1>5. CASE WriteRaw(p)
  <2>1. IndexInv'  BY <1>5, <1>p, <1>c DEF WriteRaw, IndexInv, sysvars
  <2>2. Progress(p)'
        BY <1>0, <1>5, <1>p DEF WriteRaw, Progress, UpdatePc, sysvars
  <2>3. Written(p)'
    <3>1. Count \in Nat /\ N \in Nat \ {0}  BY Slots DEF TypeOK, Count
    <3>2. Count % N \in 0..(N - 1)  BY <3>1, ModRange
    <3>3. Count % N \in Slot  BY <3>2 DEF Slot
    <3>4. raw'[Count % N] = seqno /\ seqno' = seqno
          BY <1>0, <1>5, <1>a, <3>3 DEF WriteRaw, sysvars
    <3>5. hdr'[Count % N] = seqno  BY <1>5, <1>p DEF WriteRaw, Written
    <3> QED  BY <1>0, <1>5, <1>c, <3>4, <3>5 DEF WriteRaw, Written
  <2>4. ASSUME NEW k \in 1..Count, k > Count - NumPkt PROVE Stored(k)'
    <3>1. raw'[(k - 1) % N] = raw[(k - 1) % N]
          BY <1>0, <1>5, <1>a, <2>4, WritesOutside DEF WriteRaw
    <3> QED  BY <1>5, <1>p, <2>4, <3>1 DEF WriteRaw, Stored
  <2> QED  BY <1>0, <1>x, <1>c, <2>1, <2>2, <2>3, <2>4, Works
<1>6. CASE WriteHdrFails(p)
  <2>1. IndexInv'  BY <1>6, <1>p, <1>c DEF WriteHdrFails, IndexInv, sysvars
  <2>2. Progress(p)' /\ Written(p)'
        BY <1>0, <1>6, <1>p DEF WriteHdrFails, Progress, Written, UpdatePc, sysvars
  <2>3. ASSUME NEW k \in 1..Count, k > Count - NumPkt PROVE Stored(k)'
    <3>1. hdr'[(k - 1) % N] = hdr[(k - 1) % N]
          BY <1>0, <1>6, <1>a, <2>3, WritesOutside DEF WriteHdrFails
    <3> QED  BY <1>6, <1>p, <2>3, <3>1 DEF WriteHdrFails, Stored
  <2> QED  BY <1>0, <1>x, <1>c, <2>1, <2>2, <2>3, Works
<1>7. CASE WriteRawFails(p)
  <2>1. IndexInv'  BY <1>7, <1>p, <1>c DEF WriteRawFails, IndexInv, sysvars
  <2>2. Progress(p)' /\ Written(p)'
        BY <1>0, <1>7, <1>p DEF WriteRawFails, Progress, Written, UpdatePc, sysvars
  <2>3. ASSUME NEW k \in 1..Count, k > Count - NumPkt PROVE Stored(k)'
    <3>1. raw'[(k - 1) % N] = raw[(k - 1) % N]
          BY <1>0, <1>7, <1>a, <2>3, WritesOutside DEF WriteRawFails
    <3> QED  BY <1>7, <1>p, <2>3, <3>1 DEF WriteRawFails, Stored
  <2> QED  BY <1>0, <1>x, <1>c, <2>1, <2>2, <2>3, Works
<1>8. CASE WriteUpdate(p)
  <2>1. state = ACTIVE  BY <1>8, <1>p DEF WriteUpdate, Progress
  <2>2. IndexInv'  BY <1>8, <1>p, <1>c, <2>1 DEF WriteUpdate, IndexInv
  <2>3. Progress(p)' /\ Written(p)'
        BY <1>0, <1>8, <1>p, <1>c, <1>i DEF WriteUpdate, Progress, Written, UpdatePc
  <2>4. \A k \in 1..Count' : k > Count' - NumPkt => Stored(k)'
        BY <1>8, <1>p, <1>c DEF WriteUpdate, Stored
  <2> QED  BY <1>0, <1>x, <2>2, <2>3, <2>4, Works
<1> QED  BY <1>1, <1>2, <1>3, <1>4, <1>5, <1>6, <1>7, <1>8

\* IncrementIndicies and the commit.  The packet joins the window when the
\* state goes back to IDLE, with the indices already in place for it.
LEMMA RingUpdating ==
  ASSUME TypeOK, AccessInv, RingInv, NEW p \in Pid,
         \/ IncOldest(p) \/ IncYngest(p) \/ IncLend(p) \/ IncSlide(p)
         \/ IncActive(p)
  PROVE  RingInv'
<1> USE DEF At
<1>0. pc \in [Pid -> PcValues]  BY DEF TypeOK
<1>p. /\ Progress(p) /\ Written(p) /\ IndexInv
      /\ \A k \in 1..Count : k > Count - NumPkt => Stored(k)
      BY DEF RingInv, ProgressInv, ContentInv
<1>1. /\ UNCHANGED <<backup, state, seqno, hdr, raw, log>>
      /\ pc[p] \in UpdatePc
      /\ pc'[p] \in UpdatePc
      /\ \E to : pc' = [pc EXCEPT ![p] = to]
      BY <1>0 DEF IncOldest, IncYngest, IncLend, IncSlide, IncActive, Increment,
                  UpdatePc
<1>2. pc[p] \in LockedPc /\ pc[p] \in OwnerPc \cup {"disowned"}
      BY <1>1 DEF UpdatePc, LockedPc, WritePc, OwnerPc
<1>3. /\ Committed' = Committed /\ Count' = Count
      /\ Begun' = Begun /\ Slid' = Slid
      BY <1>1 DEF Committed, Count, Begun, Slid
<1>4. state = UPDATE  BY <1>1, <1>p DEF Progress
<1>5. IndexInv'  BY <1>1, <1>3, <1>4, <1>p DEF IndexInv
<1>6. \A k \in 1..Count' : k > Count' - NumPkt => Stored(k)'
      BY <1>1, <1>3, <1>p DEF Stored
<1>7. hdr'[Count' % N] = seqno' /\ raw'[Count' % N] = seqno'
      BY <1>1, <1>3, <1>p DEF Written
<1>8. Written(p)'  BY <1>7 DEF Written
<1>9. Count \in Nat  BY DEF TypeOK, Count
<1>10. Progress(p)'
  <2> DEFINE at == pc[p]
             to == pc'[p]
  <2>1. /\ at = "updating" => index = Committed
        /\ at = "incoldest" => index = WithOldest(Committed)
        /\ at = "incyngest" => index = Begun
        /\ at = "bumpedlend" => Full(Begun) /\ index = BumpLend(Begun)
        /\ at = "inclend" => Full(Begun) /\ index = SlideLend(Begun)
        /\ at = "bumpedoldest" =>
             Full(Begun) /\ index = BumpOldest(SlideLend(Begun))
        /\ at = "incslid" => Full(Begun) /\ index = Slid
        /\ at = "bumpedactive" => index = BumpActive(Slid)
        BY <1>p DEF Progress
  <2>2. /\ to = "incoldest" => index' = WithOldest(Committed)
        /\ to = "incyngest" => index' = Begun
        /\ to = "bumpedlend" => Full(Begun) /\ index' = BumpLend(Begun)
        /\ to = "inclend" => Full(Begun) /\ index' = SlideLend(Begun)
        /\ to = "bumpedoldest" =>
             Full(Begun) /\ index' = BumpOldest(SlideLend(Begun))
        /\ to = "incslid" => Full(Begun) /\ index' = Slid
        /\ to = "bumpedactive" => index' = BumpActive(Slid)
        /\ to = "incremented" => index' = IndexAfter(Count + 1)
        /\ to # "updating"
    <3>1. CASE IncOldest(p)
          BY <1>0, <2>1, <3>1 DEF IncOldest, Increment
    <3>2. CASE IncYngest(p)
          BY <1>0, <2>1, <3>2 DEF IncYngest, Increment, Begun
    <3>3. CASE IncLend(p)
          BY <1>0, <2>1, <3>3, LendSlides DEF IncLend, Increment
    <3>4. CASE IncSlide(p)
          BY <1>0, <2>1, <3>4, OldestSlides DEF IncSlide, Increment, Slid
    <3>5. CASE IncActive(p)
      <4>1. CASE pc[p] = "bumpedactive"
        <5>1. index' = WithActive(Slid) /\ to = "incremented"
              BY <1>0, <2>1, <3>5, <4>1, ActiveSlides DEF IncActive, Increment
        <5>2. WithActive(Slid) = IndexAfter(Count + 1)
              BY <1>9, IncrementAfter DEF Slid, Begun, Committed
        <5> QED  BY <5>1, <5>2
      <4>2. CASE pc[p] # "bumpedactive"
            BY <1>0, <2>1, <3>5, <4>2 DEF IncActive, Increment, Slid
      <4> QED  BY <4>1, <4>2
    <3> QED  BY <3>1, <3>2, <3>3, <3>4, <3>5
  <2>3. state' = UPDATE  BY <1>1, <1>4
  <2> QED  BY <1>1, <1>3, <2>2, <2>3 DEF UpdatePc, Progress
<1> QED  BY <1>0, <1>1, <1>2, <1>5, <1>6, <1>8, <1>10, Works

\* When a write commits, the slot it wrote holds the packet the log gains.
LEMMA RingCommit ==
  ASSUME TypeOK, AccessInv, RingInv, NEW p \in Pid, WriteCommit(p)
  PROVE  RingInv'
<1> USE DEF At
<1>0. pc \in [Pid -> PcValues] /\ Count \in Nat /\ log \in Seq(Nat) /\ seqno \in Nat
      BY DEF TypeOK, Count
<1>p. /\ Progress(p) /\ Written(p)
      /\ \A k \in 1..Count : k > Count - NumPkt => Stored(k)
      BY DEF RingInv, ProgressInv, ContentInv
<1>1. pc[p] = "incremented" /\ pc' = [pc EXCEPT ![p] = "committed"]
      BY DEF WriteCommit
<1>2. UNCHANGED <<index, backup, seqno, hdr, raw>> /\ state' = IDLE
      BY DEF WriteCommit
<1>3. /\ Count' = Count + 1
      /\ log'[Count + 1] = seqno
      /\ \A k \in 1..Count : log'[k] = log[k]
      BY <1>0 DEF WriteCommit, Count
<1>4. index' = Committed'
  <2>1. Committed' = IndexAfter(Count')  BY DEF Committed
  <2>2. index = IndexAfter(Count + 1)  BY <1>1, <1>p DEF Progress
  <2> QED  BY <1>2, <1>3, <2>1, <2>2
<1>5. IndexInv'  BY <1>2, <1>4 DEF IndexInv, IDLE, ACTIVE, UPDATE
<1>6. Progress(p)' /\ Written(p)'
      BY <1>0, <1>1, <1>2 DEF Progress, Written, UpdatePc
<1>7. ASSUME NEW k \in 1..Count', k > Count' - NumPkt PROVE Stored(k)'
  <2>1. CASE k = Count + 1
    <3>1. hdr[Count % N] = seqno /\ raw[Count % N] = seqno
          BY <1>1, <1>p DEF Written, UpdatePc
    <3>2. k - 1 = Count  BY <1>0, <2>1
    <3> QED  BY <1>2, <1>3, <2>1, <3>1, <3>2 DEF Stored
  <2>2. CASE k # Count + 1
    <3>1. k \in 1..Count /\ k > Count - NumPkt
          BY <1>0, <1>3, <1>7, <2>2, SizeAssumption
    <3> QED  BY <1>2, <1>3, <1>p, <3>1 DEF Stored
  <2> QED  BY <2>1, <2>2
<1>8. pc[p] \in LockedPc /\ pc[p] \in OwnerPc
      BY <1>1 DEF LockedPc, WritePc, OwnerPc
<1> QED  BY <1>0, <1>1, <1>5, <1>6, <1>7, <1>8, Works

\* Every step keeps the indices, the writer's progress and the slots in line.
LEMMA RingStep == TypeOK /\ AccessInv /\ RingInv /\ [Next]_vars => RingInv'
<1> SUFFICES ASSUME TypeOK, AccessInv, RingInv, [Next]_vars PROVE RingInv'
    OBVIOUS
<1>0. pc \in [Pid -> PcValues]  BY DEF TypeOK
<1>p. \A p \in Pid : Progress(p)  BY DEF RingInv, ProgressInv
<1>1. ASSUME NEW p \in Pid, Spawn(p) PROVE RingInv'
  <2>1. Progress(p)' /\ Written(p)'
        BY <1>0, <1>1 DEF Spawn, At, Progress, Written, UpdatePc
  <2> QED  BY <1>0, <1>1, <2>1, Moves DEF Spawn, At, sysvars
<1>2. ASSUME NEW p \in Pid, Crash(p) PROVE RingInv'
  <2>1. Progress(p)' /\ Written(p)'
        BY <1>0, <1>2 DEF Crash, Progress, Written, UpdatePc
  <2> QED  BY <1>0, <1>2, <2>1, Moves DEF Crash, sysvars
<1>3. ASSUME NEW p \in Pid, Open(p) PROVE RingInv'  BY <1>3, RingOpen
<1>4. ASSUME NEW p \in Pid, WriteLock(p) PROVE RingInv'
  <2>1. Progress(p)' /\ Written(p)'
        BY <1>0, <1>4, <1>p DEF WriteLock, At, Progress, Written, UpdatePc, sysvars
  <2> QED  BY <1>0, <1>4, <2>1, Moves DEF WriteLock, At, sysvars
<1>5. ASSUME NEW p \in Pid, Write(p) PROVE RingInv'
  <2>1. CASE \/ WriteBackup(p) \/ WriteActivate(p) \/ WriteSeqno(p)
             \/ WriteHdr(p) \/ WriteRaw(p) \/ WriteHdrFails(p)
             \/ WriteRawFails(p) \/ WriteUpdate(p)
        BY <2>1, RingWriting
  <2>2. CASE \/ IncOldest(p) \/ IncYngest(p) \/ IncLend(p) \/ IncSlide(p)
             \/ IncActive(p)
        BY <2>2, RingUpdating
  <2>3. CASE WriteCommit(p)  BY <2>3, RingCommit
  <2>4. CASE WriteCount(p)
    <3>1. Progress(p)' /\ Written(p)'
          BY <1>0, <1>p, <2>4 DEF WriteCount, At, Progress, Written, UpdatePc
    <3> QED  BY <1>0, <2>4, <3>1, Moves DEF WriteCount, At
  <2>5. CASE WriteUnlock(p)
    <3>1. Progress(p)' /\ Written(p)'
          BY <1>0, <1>p, <2>5 DEF WriteUnlock, At, Progress, Written, UpdatePc, sysvars
    <3> QED  BY <1>0, <2>5, <3>1, Moves DEF WriteUnlock, At, sysvars
  <2> QED  BY <1>5, <2>1, <2>2, <2>3, <2>4, <2>5 DEF Write
<1>6. ASSUME NEW p \in Pid, CloseLock(p) \/ Close(p) PROVE RingInv'
      BY <1>6, RingClose
<1>7. CASE \/ \E r \in Reader : ReadLock(r) \/ ReadUnlock(r)
           \/ UNCHANGED vars
  <2>1. UNCHANGED <<index, backup, state, seqno, hdr, raw, log, pc>>
        BY <1>7 DEF ReadLock, ReadUnlock, sysvars, vars
  <2>2. /\ Committed' = Committed /\ Count' = Count
        /\ Begun' = Begun /\ Slid' = Slid
        BY <2>1 DEF Committed, Begun, Slid, Count
  <2>3. IndexInv'  BY <2>1, <2>2 DEF RingInv, IndexInv
  <2>4. ProgressInv'  BY <2>1, <2>2, <1>p DEF ProgressInv, Progress
  <2>5. ContentInv'
        BY <2>1, <2>2 DEF RingInv, ContentInv, Written, Stored
  <2> QED  BY <2>3, <2>4, <2>5 DEF RingInv
<1> QED  BY <1>1, <1>2, <1>3, <1>4, <1>5, <1>6, <1>7 DEF Next

\* Before each bump of IncrementIndicies the index it bumps is in a slot.
LEMMA RingBumps == TypeOK /\ RingInv => BumpsASlot
<1> SUFFICES ASSUME TypeOK, RingInv PROVE BumpsASlot  OBVIOUS
<1>1. Count \in Nat  BY DEF TypeOK, Count
<1>2. /\ Committed.active \in Slot
      /\ Committed.lend \in Slot
      /\ Committed.oldest \in Slot \/ Committed.oldest = Undefined
  <2>1. \A k \in Nat : k % N \in Slot  BY NextSlotMod
  <2>2. First(Count) \in Nat  BY <1>1, SizeAssumption DEF First
  <2> QED  BY <1>1, <2>1, <2>2, SizeAssumption DEF Committed, IndexAfter
<1>3. /\ Begun.active \in Slot
      /\ Begun.lend \in Slot
      /\ Begun.oldest \in Slot
  <2>1. Committed = [active |-> Committed.active, lend |-> Committed.lend,
                     oldest |-> Committed.oldest, yngest |-> Committed.yngest]
        BY DEF Committed, IndexAfter
  <2> QED  BY <1>2, <2>1 DEF Begun, WithYngest, WithOldest
<1>4. /\ SlideLend(Begun).oldest \in Slot
      /\ BumpOldest(SlideLend(Begun)).oldest # Undefined
      /\ Slid.active \in Slot
  <2>1. Begun = [active |-> Begun.active, lend |-> Begun.lend,
                 oldest |-> Begun.oldest, yngest |-> Begun.yngest]
        BY DEF Begun, WithYngest, WithOldest, Committed, IndexAfter
  <2>2. SlideLend(Begun).oldest = Begun.oldest  BY <2>1 DEF SlideLend
  <2>3. BumpOldest(SlideLend(Begun)).oldest = Begun.oldest + 1
        BY <2>1 DEF SlideLend, BumpOldest
  <2>4. Slid.active = Begun.active  BY <2>1 DEF Slid, SlideLend, SlideOldest
  <2> DEFINE o == Begun.oldest
  <2>5. o \in Nat  BY <1>3, Slots
  <2> HIDE DEF o
  <2>6. o + 1 # Undefined  BY <2>5 DEF Undefined
  <2> QED  BY <1>3, <2>2, <2>3, <2>4, <2>6 DEF o
<1>5. ASSUME NEW p \in Pid PROVE Progress(p)  BY <1>5 DEF RingInv, ProgressInv
<1> QED  BY <1>3, <1>4, <1>5 DEF BumpsASlot, Progress

\* The inductive invariant holds: at every point of open, write and close, and
\* after a kill at any of them, the lock, the owner, the indices and the slots
\* are as the code's control flow says.
THEOREM RingCorrect == Spec => []IInv
<1>1. Init => IInv
      BY TypeInit, AccessInit, RingInit DEF IInv, AccessInv
<1>2. IInv /\ [Next]_vars => IInv'
      BY RingBumps, TypeStep, AccessStep, RingStep DEF IInv, AccessInv
<1> QED  BY <1>1, <1>2, PTL DEF Spec

\* Whatever open, write and close do, and wherever they are cut short, every
\* field of sys and every slot holds a value of its type.
THEOREM TypeCorrect == Spec => []TypeOK
<1>1. IInv => TypeOK  BY DEF IInv
<1> QED  BY <1>1, RingCorrect, PTL

\* However opens, closes, kills and reused process ids interleave, two
\* processes never own the loop at the same time.
THEOREM OneWriter == Spec => []SingleWriter
<1>1. IInv => SingleWriter
      BY DEF IInv, OwnerInv, SingleWriter, Owners
<1> QED  BY <1>1, RingCorrect, PTL

-----------------------------------------------------------------------------
(* What a reader finds between the indices after n packets.                 *)

\* Whatever the last writer left, recovery gives the committed indices.
LEMMA RecoveredAfter ==
  ASSUME RingInv
  PROVE  Recovered = Committed
BY DEF RingInv, IndexInv, Recovered, ACTIVE, UPDATE

\* The indices after n packets span n of them, or NumPkt.
LEMMA HeldAfter ==
  ASSUME NEW n \in Nat
  PROVE  /\ Held(IndexAfter(n)) = n - First(n)
         /\ n - First(n) = IF n < NumPkt THEN n ELSE NumPkt
         /\ First(n) \in 0..n
<1>1. n - First(n) = (IF n < NumPkt THEN n ELSE NumPkt) /\ First(n) \in 0..n
      BY SizeAssumption DEF First
<1>2. CASE n = 0
      BY <1>1, <1>2, SizeAssumption DEF Held, IndexAfter
<1>3. CASE n # 0
  <2> DEFINE k == First(n)
             d == (n - 1) - First(n)
  <2>1. N \in Nat \ {0} /\ NumPkt < N  BY Slots, SizeAssumption
  <2>2. k \in Nat /\ d \in 0..(N - 1)  BY <1>1, <1>3, <2>1, SizeAssumption
  <2>3. k + d = n - 1 /\ n - 1 \in Nat  BY <1>1, <1>3
  <2>4. (n - 1) % N # Undefined  BY <2>3, NextSlotMod
  <2>5. Held(IndexAfter(n)) = ((((n - 1) % N) - (First(n) % N) + N) % N) + 1
        BY <1>3, <2>4 DEF Held, IndexAfter
  <2>6. (((k + d) % N) - (k % N) + N) % N = d
    <3> HIDE DEF k, d
    <3> QED  BY <2>1, <2>2, ModDistance
  <2>7. (((n - 1) % N) - (First(n) % N) + N) % N = d  BY <2>3, <2>6
  <2> QED  BY <1>1, <2>5, <2>7
<1> QED  BY <1>2, <1>3

\* The i-th packet between them is packet First(n) + i.
LEMMA SlotAfter ==
  ASSUME NEW n \in Nat, NEW i \in 1..(n - First(n))
  PROVE  SlotOf(IndexAfter(n), i) = (First(n) + i - 1) % N
<1> DEFINE k == First(n)
           d == i - 1
<1>1. k \in Nat /\ n # 0 /\ n - k <= NumPkt
      BY HeldAfter, SizeAssumption
<1>2. N \in Nat \ {0} /\ NumPkt < N  BY Slots, SizeAssumption
<1>3. d \in 0..N  BY <1>1, <1>2, SizeAssumption
<1>4. IndexAfter(n).oldest = k % N  BY <1>1 DEF IndexAfter
<1>5. ((k % N) + d) % N = (k + d) % N
  <2> HIDE DEF k, d
  <2> QED  BY <1>1, <1>2, <1>3, ModMod
<1>6. k % N \in Nat
  <2> HIDE DEF k
  <2> QED  BY <1>1, <1>2, ModRange
<1>7. (k % N) + i - 1 = (k % N) + d /\ k + i - 1 = k + d  BY <1>1, <1>6
<1> QED  BY <1>4, <1>5, <1>7 DEF SlotOf

\* The window is the committed packets but for the first First(Count).
LEMMA WindowAfter ==
  ASSUME TypeOK, RingInv, NEW i \in 1..Held(Recovered)
  PROVE  /\ First(Count) + i \in 1..Len(log)
         /\ hdr[SlotOf(Recovered, i)] = log[First(Count) + i]
         /\ raw[SlotOf(Recovered, i)] = log[First(Count) + i]
<1> DEFINE k == First(Count) + i
<1>1. Count \in Nat /\ Count = Len(log)  BY DEF TypeOK, Count
<1>2. Recovered = IndexAfter(Count)  BY RecoveredAfter DEF Committed
<1>3. /\ i \in 1..(Count - First(Count))
      /\ First(Count) \in 0..Count
      /\ Count - First(Count) <= NumPkt
      BY <1>1, <1>2, HeldAfter, SizeAssumption
<1>4. SlotOf(Recovered, i) = (k - 1) % N  BY <1>1, <1>2, <1>3, SlotAfter
<1>5. k \in 1..Count /\ k > Count - NumPkt
      BY <1>1, <1>3, SizeAssumption
<1>6. Stored(k)  BY <1>5 DEF RingInv, ContentInv
<1> QED  BY <1>1, <1>4, <1>5, <1>6 DEF Stored

\* A function on 1..m is a sequence of length m.
LEMMA TupleLen ==
  ASSUME NEW S, NEW m \in Nat, NEW f \in [1..m -> S]
  PROVE  f \in Seq(S) /\ Len(f) = m
OBVIOUS

\* So the window is what the log ends with.
LEMMA WindowFromRing == TypeOK /\ RingInv => WindowIntact
<1> SUFFICES ASSUME TypeOK, RingInv PROVE WindowIntact  OBVIOUS
<1> DEFINE m == Held(Recovered)
           w == Window(Recovered)
<1>1. Count \in Nat /\ Count = Len(log)  BY DEF TypeOK, Count
<1>2. m = Count - First(Count) /\ First(Count) \in 0..Count
      BY <1>1, RecoveredAfter, HeldAfter DEF Committed
<1>3. m = IF Len(log) < NumPkt THEN Len(log) ELSE NumPkt
      BY <1>1, RecoveredAfter, HeldAfter DEF Committed
<1>4. Whole(Recovered)  BY WindowAfter DEF Whole
<1>5. \A i \in 1..m : w[i] = log[First(Count) + i] /\ log[First(Count) + i] \in Nat
      BY WindowAfter DEF Window, TypeOK
<1>6. w \in [1..m -> Nat]
  <2>1. w = [i \in 1..m |-> hdr[SlotOf(Recovered, i)]]  BY DEF Window
  <2> QED  BY <1>5, <2>1
<1>7. Len(w) = m  BY <1>1, <1>2, <1>6, TupleLen
<1>8. IsTail(w, log)
  <2>1. m <= Len(log) /\ Len(log) - m = First(Count)  BY <1>1, <1>2
  <2> HIDE DEF m, w
  <2> QED  BY <1>5, <1>7, <2>1 DEF IsTail
<1> QED  BY <1>3, <1>4, <1>8 DEF WindowIntact

\* Wherever the writers die, the indices the next one starts from hold the
\* newest committed packets, whole and in order: NumPkt of them, or all.
THEOREM WindowCorrect == Spec => []WindowIntact
<1>1. IInv => WindowIntact  BY WindowFromRing DEF IInv
<1> QED  BY <1>1, RingCorrect, PTL

-----------------------------------------------------------------------------
(* The count and the numbers.                                               *)

\* A new loop has no packets and no numbers.
LEMMA LedgerInit == Init => CountInv /\ NumberInv
<1> SUFFICES ASSUME Init PROVE CountInv /\ NumberInv  OBVIOUS
<1>1. count = 0 /\ Count = 0 /\ log = <<>>  BY DEF Init, Count
<1>2. CountInv  BY <1>1 DEF Init, CountInv
<1>3. NumberInv
      BY <1>1 DEF Init, NumberInv, SeqnoIncreases, NumberingPc, NumberedPc, UpdatePc
<1> QED  BY <1>2, <1>3

\* A step that leaves the ledger alone and brings no process to where it has
\* to be ahead of or behind it.
LEMMA LedgerMoves ==
  ASSUME CountInv, NumberInv, UNCHANGED <<count, seqno, log>>,
         \A q \in Pid : /\ pc'[q] = "committed" => pc[q] = "committed"
                        /\ pc'[q] \in NumberingPc => pc[q] \in NumberingPc
                        /\ pc'[q] \in NumberedPc => pc[q] \in NumberedPc
  PROVE  CountInv' /\ NumberInv'
BY DEF CountInv, NumberInv, SeqnoIncreases, Count

LEMMA LedgerOpenClose ==
  ASSUME TypeOK, CountInv, NumberInv, NEW p \in Pid,
         Spawn(p) \/ Crash(p) \/ Open(p) \/ CloseLock(p) \/ Close(p)
  PROVE  CountInv' /\ NumberInv'
<1> USE DEF At, sysvars
<1>1. UNCHANGED <<count, seqno, log>>
      BY DEF Spawn, Crash, Open, OpenLock, OpenRefused, OpenClaim, OpenClean,
             OpenRestore, OpenSetIdle, OpenUnlock, CloseLock, Close,
             CloseParent, CloseDisown, CloseNotParent, CloseInactive
<1>2. \E to \in PcValues \ WritePc : pc' = [pc EXCEPT ![p] = to]
      BY DEF Spawn, Crash, Open, OpenLock, OpenRefused, OpenClaim, OpenClean,
             OpenRestore, OpenSetIdle, OpenUnlock, CloseLock, Close,
             CloseParent, CloseDisown, CloseNotParent, CloseInactive,
             PcValues, LockedPc, OpenPc, ClosePc, WritePc
<1>3. \A q \in Pid : pc'[q] = pc[q] \/ pc'[q] \notin WritePc
      BY <1>2 DEF TypeOK
<1> QED  BY <1>1, <1>3, LedgerMoves DEF WritePc, NumberingPc, NumberedPc, UpdatePc

\* A writer takes the next number, and counts a packet after it has committed it.
LEMMA LedgerWrite ==
  ASSUME TypeOK, AccessInv, CountInv, NumberInv, NEW p \in Pid,
         WriteLock(p) \/ Write(p)
  PROVE  CountInv' /\ NumberInv'
<1> USE DEF At, sysvars
<1>0. /\ pc \in [Pid -> PcValues] /\ seqno \in Nat /\ count \in Nat
      /\ Count \in Nat /\ Count = Len(log) /\ log \in Seq(Nat)
      /\ MaxSeqno \in Nat
      BY BoundAssumption DEF TypeOK, Count
<1>a. ASSUME pc[p] \in WritePc, NEW q \in Pid, q # p
      PROVE  pc[q] \notin WritePc
      BY <1>a, Alone DEF LockedPc
<1>1. CASE WriteLock(p)
  <2>1. UNCHANGED <<count, seqno, log>> /\ (Generate => seqno < MaxSeqno)
        BY <1>1 DEF WriteLock
  <2>2. pc' = [pc EXCEPT ![p] = "locked"]  BY <1>1 DEF WriteLock
  <2>3. \A q \in Pid : pc'[q] = pc[q] \/ pc'[q] = "locked"  BY <1>0, <2>2
  <2>4. CountInv'  BY <2>1, <2>3 DEF CountInv, Count
  <2>5. SeqnoIncreases'  BY <2>1 DEF NumberInv, SeqnoIncreases
  <2> QED  BY <2>1, <2>3, <2>4, <2>5
           DEF NumberInv, NumberedPc, UpdatePc, Count
<1>2. CASE WriteSeqno(p)
  <2>1. UNCHANGED <<count, log>> /\ pc[p] = "activated"
        BY <1>2 DEF WriteSeqno
  <2>2. pc' = [pc EXCEPT ![p] = "stamped"]  BY <1>2 DEF WriteSeqno
  <2>3. \A q \in Pid : q # p => pc'[q] = pc[q] /\ pc[q] \notin WritePc
        BY <1>0, <1>a, <2>1, <2>2 DEF WritePc
  <2>4. Generate => seqno' = seqno + 1 /\ seqno < MaxSeqno
        BY <1>2, <2>1 DEF WriteSeqno, NextSeqno, NumberInv, NumberingPc
  <2>5. seqno' \in Seqno  BY <1>0, <1>2, <2>4 DEF WriteSeqno, Seqno
  <2>6. CountInv'
        BY <1>0, <2>1, <2>2, <2>3 DEF CountInv, Count, WritePc
  <2>7. Generate => \A i \in 1..Count : log[i] \in Nat /\ log[i] < seqno'
        BY <1>0, <2>4 DEF NumberInv, SeqnoIncreases, Count
  <2>8. SeqnoIncreases'
        BY <1>0, <2>1, <2>5, <2>7 DEF NumberInv, SeqnoIncreases, Count, Seqno
  <2>9. \A q \in Pid : pc'[q] \in NumberingPc \cup NumberedPc => q = p
        BY <2>3 DEF WritePc, NumberingPc, NumberedPc, UpdatePc
  <2>10. pc'[p] \notin NumberingPc  BY <1>0, <2>2 DEF NumberingPc
  <2>11. Count' = Count  BY <2>1 DEF Count
  <2> QED  BY <2>1, <2>5, <2>6, <2>7, <2>8, <2>9, <2>10, <2>11 DEF NumberInv
<1>3. CASE WriteCommit(p)
  <2>1. /\ UNCHANGED <<count, seqno>> /\ pc[p] = "incremented"
        /\ log' = Append(log, seqno)
        BY <1>3 DEF WriteCommit
  <2>2. pc' = [pc EXCEPT ![p] = "committed"]  BY <1>3 DEF WriteCommit
  <2>3. \A q \in Pid : q # p => pc'[q] = pc[q] /\ pc[q] \notin WritePc
        BY <1>0, <1>a, <2>1, <2>2 DEF WritePc
  <2>4. \A q \in Pid : pc'[q] \notin NumberingPc \cup NumberedPc
        BY <1>0, <2>2, <2>3 DEF WritePc, NumberingPc, NumberedPc, UpdatePc
  <2>5. /\ Count' = Count + 1
        /\ \A i \in 1..Count : log'[i] = log[i]
        /\ log'[Count + 1] = seqno
        BY <1>0, <2>1 DEF Count
  <2>6. CountInv'  BY <1>0, <2>1, <2>5 DEF CountInv
  <2>7. Generate => \A i \in 1..Count : log[i] < seqno
        BY <2>1 DEF NumberInv, NumberedPc, UpdatePc
  <2>8. SeqnoIncreases'
    <3> SUFFICES ASSUME Generate
                 PROVE  /\ \A i, j \in 1..Count' : i < j => log'[i] < log'[j]
                        /\ \A i \in 1..Count' : log'[i] <= seqno'
        BY DEF SeqnoIncreases, Count
    <3>1. ASSUME NEW i \in 1..Count', NEW j \in 1..Count', i < j
          PROVE  log'[i] < log'[j]
      <4>1. i \in 1..Count  BY <1>0, <2>5, <3>1
      <4>2. CASE j = Count + 1  BY <2>5, <2>7, <4>1, <4>2
      <4>3. CASE j # Count + 1
        <5>1. j \in 1..Count  BY <1>0, <2>5, <4>3
        <5> QED  BY <2>5, <3>1, <4>1, <5>1 DEF NumberInv, SeqnoIncreases, Count
      <4> QED  BY <4>2, <4>3
    <3>2. ASSUME NEW i \in 1..Count' PROVE log'[i] <= seqno'
      <4>1. CASE i = Count + 1  BY <1>0, <2>1, <2>5, <4>1
      <4>2. CASE i # Count + 1
        <5>1. i \in 1..Count  BY <1>0, <2>5, <4>2
        <5> QED  BY <2>1, <2>5, <5>1 DEF NumberInv, SeqnoIncreases, Count
      <4> QED  BY <4>1, <4>2
    <3> QED  BY <3>1, <3>2
  <2> QED  BY <2>4, <2>6, <2>8 DEF NumberInv
<1>4. CASE WriteCount(p)
  <2>1. /\ UNCHANGED <<seqno, log>> /\ pc[p] = "committed"
        /\ count' = count + 1
        BY <1>4 DEF WriteCount
  <2>2. pc' = [pc EXCEPT ![p] = "counted"]  BY <1>4 DEF WriteCount
  <2>3. \A q \in Pid : pc'[q] = "counted" \/ (pc'[q] = pc[q] /\ pc[q] \notin WritePc)
        BY <1>0, <1>a, <2>1, <2>2 DEF WritePc
  <2>4. CountInv'  BY <1>0, <2>1, <2>3 DEF CountInv, Count, WritePc
  <2> QED  BY <2>1, <2>3, <2>4
           DEF NumberInv, SeqnoIncreases, NumberingPc, NumberedPc, UpdatePc, Count
<1>5. CASE ~(WriteLock(p) \/ WriteSeqno(p) \/ WriteCommit(p) \/ WriteCount(p))
  <2>1. UNCHANGED <<count, seqno, log>>
        BY <1>5 DEF Write, WriteBackup, WriteActivate, WriteHdr, WriteRaw,
           WriteHdrFails, WriteRawFails, WriteUpdate, IncOldest, IncYngest,
           IncLend, IncSlide, IncActive, Increment, WriteUnlock
  <2>2. \E to \in PcValues :
          /\ pc' = [pc EXCEPT ![p] = to] /\ to # "committed"
          /\ to \in NumberingPc => pc[p] \in NumberingPc
          /\ to \in NumberedPc => pc[p] \in NumberedPc
        BY <1>5 DEF Write, WriteBackup, WriteActivate, WriteHdr, WriteRaw,
           WriteHdrFails, WriteRawFails, WriteUpdate, IncOldest, IncYngest,
           IncLend, IncSlide, IncActive, Increment, WriteUnlock,
           PcValues, LockedPc, WritePc, NumberingPc, NumberedPc, UpdatePc
  <2>3. \A q \in Pid : /\ pc'[q] = "committed" => pc[q] = "committed"
                       /\ pc'[q] \in NumberingPc => pc[q] \in NumberingPc
                       /\ pc'[q] \in NumberedPc => pc[q] \in NumberedPc
        BY <1>0, <2>2
  <2> QED  BY <2>1, <2>3, LedgerMoves
<1> QED  BY <1>1, <1>2, <1>3, <1>4, <1>5

\* Nothing a process does brings the count ahead or a number back.
LEMMA LedgerStep ==
  TypeOK /\ AccessInv /\ CountInv /\ NumberInv /\ [Next]_vars
    => CountInv' /\ NumberInv'
<1> SUFFICES ASSUME TypeOK, AccessInv, CountInv, NumberInv, [Next]_vars
             PROVE  CountInv' /\ NumberInv'
    OBVIOUS
<1>1. ASSUME NEW p \in Pid,
             \/ Spawn(p) \/ Crash(p) \/ Open(p) \/ CloseLock(p) \/ Close(p)
      PROVE  CountInv' /\ NumberInv'
      BY <1>1, LedgerOpenClose
<1>2. ASSUME NEW p \in Pid, WriteLock(p) \/ Write(p)
      PROVE  CountInv' /\ NumberInv'
      BY <1>2, LedgerWrite
<1>3. CASE \/ \E r \in Reader : ReadLock(r) \/ ReadUnlock(r)
           \/ UNCHANGED vars
  <2>1. UNCHANGED <<count, seqno, log, pc>>
        BY <1>3 DEF ReadLock, ReadUnlock, vars, sysvars
  <2> QED  BY <2>1, LedgerMoves
<1> QED  BY <1>1, <1>2, <1>3 DEF Next

\* The window is a sequence: the log without its first First(Count) packets.
WindowLogged ==
  /\ Window(Recovered) \in Seq(Nat)
  /\ Len(Window(Recovered)) = Count - First(Count)
  /\ \A i \in 1..(Count - First(Count)) :
       Window(Recovered)[i] = log[First(Count) + i]
  /\ Count \in Nat /\ Count = Len(log)
  /\ First(Count) \in 0..Count

\* That much follows from where the packets are.
LEMMA WindowIsLog == TypeOK /\ RingInv => WindowLogged
<1> SUFFICES ASSUME TypeOK, RingInv PROVE WindowLogged  OBVIOUS
<1> DEFINE m == Held(Recovered)
           w == Window(Recovered)
<1>1. Count \in Nat /\ Count = Len(log)  BY DEF TypeOK, Count
<1>2. m = Count - First(Count) /\ First(Count) \in 0..Count
      BY <1>1, RecoveredAfter, HeldAfter DEF Committed
<1>3. \A i \in 1..m : w[i] = log[First(Count) + i] /\ log[First(Count) + i] \in Nat
      BY WindowAfter DEF Window, TypeOK
<1>4. w \in [1..m -> Nat]
  <2>1. w = [i \in 1..m |-> hdr[SlotOf(Recovered, i)]]  BY DEF Window
  <2> QED  BY <1>3, <2>1
<1>5. m \in Nat  BY <1>1, <1>2
<1>6. w \in Seq(Nat) /\ Len(w) = m  BY <1>4, <1>5, TupleLen
<1> QED  BY <1>1, <1>2, <1>3, <1>6 DEF WindowLogged

\* What is proved in this module and the last one, as one invariant.
AccountInv ==
  TypeOK /\ AccessInv /\ RingInv /\ CountInv /\ NumberInv /\ WindowLogged

LEMMA AccountCorrect == Spec => []AccountInv
<1>2. IInv => TypeOK /\ AccessInv /\ RingInv  BY DEF IInv, AccessInv
<1>3. TypeOK /\ AccessInv /\ RingInv /\ CountInv /\ NumberInv => AccountInv
      BY WindowIsLog DEF AccountInv
<1> QED  BY <1>2, <1>3, LedgerInit, LedgerStep, RingCorrect, PTL DEF Spec

\* The numbers of a loop that numbers its own packets go up, over any crashes,
\* failed writes and changes of writer, and none is used twice.
THEOREM NumbersIncrease == Spec => []SeqnoIncreases
<1>1. AccountInv => SeqnoIncreases  BY DEF AccountInv, NumberInv
<1> QED  BY <1>1, AccountCorrect, PTL

\* sys.count is never ahead of the packets, wherever a writer dies.
THEOREM CountBehind == Spec => []CountNeverAhead
<1>1. AccountInv => CountNeverAhead
      BY DEF AccountInv, CountInv, CountNeverAhead, Count
<1> QED  BY <1>1, AccountCorrect, PTL

-----------------------------------------------------------------------------
(* The disk loop implements PacketLog.                                      *)

\* Two sequences of the same length that agree everywhere are the same.
LEMMA SeqEqual ==
  ASSUME NEW S, NEW s \in Seq(S), NEW t \in Seq(S), Len(s) = Len(t),
         \A i \in 1..Len(s) : s[i] = t[i]
  PROVE  s = t
OBVIOUS

\* Only the commit adds a packet to the log.
LEMMA OnlyCommits ==
  ASSUME [Next]_vars
  PROVE  log' = log \/ \E p \in Pid : WriteCommit(p)
<1> SUFFICES ASSUME ~\E p \in Pid : WriteCommit(p) PROVE log' = log  OBVIOUS
<1>1. ASSUME NEW p \in Pid, Spawn(p) \/ Crash(p) \/ WriteLock(p) \/ CloseLock(p)
      PROVE  log' = log
      BY <1>1 DEF Spawn, Crash, WriteLock, CloseLock
<1>2. ASSUME NEW p \in Pid, Open(p) PROVE log' = log
      BY <1>2 DEF Open, OpenLock, OpenRefused, OpenClaim, OpenClean, OpenRestore,
         OpenSetIdle, OpenUnlock
<1>3. ASSUME NEW p \in Pid, Write(p) PROVE log' = log
      BY <1>3 DEF Write, WriteBackup, WriteActivate, WriteSeqno, WriteHdr,
         WriteRaw, WriteHdrFails, WriteRawFails, WriteUpdate, IncOldest,
         IncYngest, IncLend, IncSlide, IncActive, Increment, WriteCount,
         WriteUnlock
<1>4. ASSUME NEW p \in Pid, Close(p) PROVE log' = log
      BY <1>4 DEF Close, CloseParent, CloseDisown, CloseNotParent, CloseInactive
<1>5. ASSUME NEW r \in Reader, ReadLock(r) \/ ReadUnlock(r) PROVE log' = log
      BY <1>5 DEF ReadLock, ReadUnlock
<1>6. CASE UNCHANGED vars  BY <1>6 DEF vars
<1> QED  BY <1>1, <1>2, <1>3, <1>4, <1>5, <1>6 DEF Next

\* A commit appends to the window, which then slides if it was full.
LEMMA CommitAppends ==
  ASSUME AccountInv, AccountInv', NEW p \in Pid, WriteCommit(p)
  PROVE  PL!Next
<1> DEFINE w == Window(Recovered)
           v == Window(Recovered)'
           f == First(Count)
           n == Count
<1>1. /\ w \in Seq(Nat) /\ Len(w) = n - f
      /\ \A i \in 1..(n - f) : w[i] = log[f + i]
      /\ n \in Nat /\ n = Len(log) /\ f \in 0..n
      BY DEF AccountInv, WindowLogged
<1>2. /\ v \in Seq(Nat) /\ Len(v) = n' - f'
      /\ \A i \in 1..(n' - f') : v[i] = log'[f' + i]
      BY DEF AccountInv, WindowLogged
<1>3. /\ log \in Seq(Nat) /\ seqno \in Nat
      /\ log' = Append(log, seqno)
      BY DEF WriteCommit, AccountInv, TypeOK
<1>4. n' = n + 1 /\ \A i \in 1..n : log'[i] = log[i]
      BY <1>1, <1>3 DEF Count
<1>5. log'[n + 1] = seqno  BY <1>1, <1>3
<1>6. seqno \in Seqno
      BY DEF WriteCommit, At, AccountInv, NumberInv, NumberedPc, UpdatePc
<1>7. f = (IF n > NumPkt THEN n - NumPkt ELSE 0)  BY DEF First
<1>8. f' = (IF n' > NumPkt THEN n' - NumPkt ELSE 0)  BY DEF First
<1>9. NumPkt \in Nat \ {0}  BY SizeAssumption
<1>10. CASE n < NumPkt
  <2>1. f = 0 /\ f' = 0  BY <1>1, <1>4, <1>7, <1>8, <1>9, <1>10
  <2> DEFINE u == Append(w, seqno)
  <2>2. u \in Seq(Nat) /\ Len(u) = n + 1  BY <1>1, <1>3, <2>1
  <2>3. \A i \in 1..(n + 1) : u[i] = IF i = n + 1 THEN seqno ELSE log[i]
        BY <1>1, <1>3, <2>1
  <2>4. \A i \in 1..(n + 1) : v[i] = IF i = n + 1 THEN seqno ELSE log[i]
        BY <1>1, <1>2, <1>4, <1>5, <2>1
  <2>5. Len(v) = n + 1  BY <1>1, <1>2, <1>4, <2>1
  <2>6. v = u
    <3> HIDE DEF v, u, n
    <3> QED  BY <1>2, <2>2, <2>3, <2>4, <2>5, SeqEqual
  <2>7. Len(w) < NumPkt  BY <1>1, <1>10, <2>1
  <2> QED  BY <1>6, <2>6, <2>7 DEF PL!Next, PL!Append1
<1>11. CASE n >= NumPkt
  <2>1. f = n - NumPkt /\ f' = f + 1 /\ n - f = NumPkt
        BY <1>1, <1>4, <1>7, <1>8, <1>9, <1>11
  <2> DEFINE t == Tail(w)
             u == Append(t, seqno)
  <2>2. /\ t \in Seq(Nat) /\ Len(t) = NumPkt - 1
        /\ \A i \in 1..(NumPkt - 1) : t[i] = log[f + 1 + i]
    <3>1. Len(w) = NumPkt /\ w # <<>>  BY <1>1, <1>9, <2>1
    <3>2. t \in Seq(Nat) /\ Len(t) = NumPkt - 1  BY <1>1, <1>9, <3>1
    <3>3. \A i \in 1..(NumPkt - 1) : t[i] = w[i + 1]  BY <1>1, <1>9, <3>1
    <3>4. \A i \in 1..(NumPkt - 1) : i + 1 \in 1..(n - f) /\ f + (i + 1) = f + 1 + i
          BY <1>1, <1>9, <2>1
    <3> QED  BY <1>1, <3>2, <3>3, <3>4
  <2>3. u \in Seq(Nat) /\ Len(u) = NumPkt  BY <1>3, <1>9, <2>2
  <2>4. \A i \in 1..NumPkt : u[i] = IF i = NumPkt THEN seqno ELSE log[f + 1 + i]
        BY <1>3, <1>9, <2>2
  <2>5. Len(v) = NumPkt  BY <1>1, <1>2, <1>4, <1>9, <2>1
  <2>6. ASSUME NEW i \in 1..NumPkt
        PROVE  v[i] = IF i = NumPkt THEN seqno ELSE log[f + 1 + i]
    <3>1. v[i] = log'[f + 1 + i]
      <4>1. n' - f' = NumPkt  BY <1>1, <1>4, <1>9, <2>1
      <4>2. v[i] = log'[f' + i]  BY <1>2, <4>1
      <4> QED  BY <2>1, <4>2
    <3>2. CASE i = NumPkt
      <4>1. f + 1 + i = n + 1  BY <1>1, <1>9, <2>1, <3>2
      <4> QED  BY <1>5, <3>1, <3>2, <4>1
    <3>3. CASE i # NumPkt
      <4>1. f + 1 + i \in 1..n  BY <1>1, <1>9, <2>1, <3>3
      <4> QED  BY <1>4, <3>1, <3>3, <4>1
    <3> QED  BY <3>2, <3>3
  <2>7. v = u
    <3> HIDE DEF v, u
    <3> QED  BY <1>2, <2>3, <2>4, <2>5, <2>6, SeqEqual
  <2>8. ~(Len(w) < NumPkt)  BY <1>1, <1>9, <2>1
  <2> QED  BY <1>6, <2>7, <2>8 DEF PL!Next, PL!Append1
<1> QED  BY <1>1, <1>9, <1>10, <1>11

\* Every other step leaves the window as it is.
LEMMA OthersStutter ==
  ASSUME AccountInv, AccountInv', log' = log
  PROVE  Window(Recovered)' = Window(Recovered)
<1> DEFINE w == Window(Recovered)
           v == Window(Recovered)'
           m == Count - First(Count)
<1>1. /\ w \in Seq(Nat) /\ Len(w) = m
      /\ \A i \in 1..m : w[i] = log[First(Count) + i]
      BY DEF AccountInv, WindowLogged
<1>2. /\ v \in Seq(Nat) /\ Len(v) = m'
      /\ \A i \in 1..m' : v[i] = log'[First(Count)' + i]
      BY DEF AccountInv, WindowLogged
<1>3. Count' = Count /\ First(Count)' = First(Count)  BY DEF Count, First
<1>4. m' = m  BY <1>3
<1>5. Len(v) = Len(w)  BY <1>1, <1>2, <1>4
<1>6. \A i \in 1..Len(v) : v[i] = w[i]  BY <1>1, <1>2, <1>3, <1>4
<1> HIDE DEF v, w
<1>7. v = w  BY <1>1, <1>2, <1>5, <1>6, SeqEqual
<1> QED  BY <1>7 DEF v, w

\* The packets that recovery would find are, at every moment, an abstract log of
\* the newest NumPkt: a commit appends one, every other step, a kill at any
\* store included, leaves them as they are.
THEOREM ImplementsPacketLog == Spec => AppendsOneByOne
<1>1. Init => PL!Init
  <2> SUFFICES ASSUME Init PROVE Window(Recovered) = <<>>  BY DEF PL!Init
  <2>1. Recovered.yngest = Undefined
        BY DEF Init, Recovered, NewIndex, INACTIVE, ACTIVE, UPDATE
  <2>2. Held(Recovered) = 0  BY <2>1 DEF Held
  <2> QED  BY <2>2 DEF Window
<1>2. AccountInv /\ AccountInv' /\ [Next]_vars => [PL!Next]_(Window(Recovered))
  <2> SUFFICES ASSUME AccountInv, AccountInv', [Next]_vars
               PROVE  PL!Next \/ Window(Recovered)' = Window(Recovered)
      OBVIOUS
  <2> QED  BY OnlyCommits, CommitAppends, OthersStutter
<1> QED  BY <1>1, <1>2, AccountCorrect, PTL DEF Spec, PL!Spec, AppendsOneByOne

-----------------------------------------------------------------------------
(* The readers' lock.                                                       *)

\* A step of one process stores to what readers look at only with the lock.
StoresNothing == UNCHANGED <<index, count, state, hdr, raw>>

\* No process gets the write lock over a reader, nor a reader over a writer.
LEMMA ReaderStep == TypeOK /\ ReaderInv /\ [Next]_vars => ReaderInv'
<1> SUFFICES ASSUME TypeOK, ReaderInv, [Next]_vars PROVE ReaderInv'  OBVIOUS
<1> USE PidAssumption DEF TypeOK, ReaderInv
<1>1. ASSUME NEW p \in Pid, Spawn(p) PROVE ReaderInv'  BY <1>1 DEF Spawn
<1>2. ASSUME NEW p \in Pid, Crash(p) PROVE ReaderInv'  BY <1>2 DEF Crash
<1>3. ASSUME NEW p \in Pid,
             \/ OpenLock(p) \/ WriteLock(p) \/ CloseLock(p)
      PROVE  ReaderInv'
      BY <1>3 DEF OpenLock, WriteLock, CloseLock, Acquire, LockFree
<1>4. ASSUME NEW p \in Pid, Release \/ KeepLock PROVE ReaderInv'
      BY <1>4 DEF Release, KeepLock
<1>5. ASSUME NEW p \in Pid, Open(p) PROVE ReaderInv'
      BY <1>3, <1>4, <1>5
         DEF Open, OpenRefused, OpenClaim, OpenClean, OpenRestore, OpenSetIdle,
             OpenUnlock
<1>6. ASSUME NEW p \in Pid, Write(p) PROVE ReaderInv'
      BY <1>4, <1>6
         DEF Write, WriteBackup, WriteActivate, WriteSeqno, WriteHdr, WriteRaw,
             WriteHdrFails, WriteRawFails, UnlockAndFail, WriteUpdate, IncOldest,
             IncYngest, IncLend, IncSlide, IncActive, Increment, WriteCommit,
             WriteCount, WriteUnlock
<1>7. ASSUME NEW p \in Pid, Close(p) PROVE ReaderInv'
      BY <1>4, <1>7 DEF Close, CloseParent, CloseDisown, CloseNotParent, CloseInactive
<1>8. ASSUME NEW r \in Reader, ReadLock(r) \/ ReadUnlock(r) PROVE ReaderInv'
      BY <1>8 DEF ReadLock, ReadUnlock
<1>9. CASE UNCHANGED vars  BY <1>9 DEF vars
<1> QED  BY <1>1, <1>2, <1>3, <1>5, <1>6, <1>7, <1>8, <1>9 DEF Next

\* Every store to what a reader looks at is made by the process with the lock.
LEMMA StoresUnderLock ==
  ASSUME TypeOK, AccessInv, [Next]_vars
  PROVE  StoresNothing \/ wlock # NoPid
<1> SUFFICES ASSUME wlock = NoPid PROVE StoresNothing  OBVIOUS
<1>0. \A p \in Pid : pc[p] \notin LockedPc
      BY PidAssumption DEF AccessInv, LockInv
<1> USE DEF StoresNothing, sysvars
<1>1. ASSUME NEW p \in Pid, Spawn(p) \/ Crash(p) PROVE StoresNothing
      BY <1>1 DEF Spawn, Crash
<1>2. ASSUME NEW p \in Pid, Open(p) PROVE StoresNothing
      BY <1>0, <1>2
         DEF LockedPc, OpenPc, At, Open, OpenLock, OpenRefused, OpenClaim,
             OpenClean, OpenRestore, OpenSetIdle, OpenUnlock
<1>3. ASSUME NEW p \in Pid, WriteLock(p) \/ CloseLock(p) PROVE StoresNothing
      BY <1>3 DEF WriteLock, CloseLock
<1>4. ASSUME NEW p \in Pid, Write(p) PROVE StoresNothing
  <2>1. pc[p] \in WritePc
        BY <1>4 DEF WritePc, At,
           Write, WriteBackup, WriteActivate, WriteSeqno, WriteHdr, WriteRaw,
           WriteHdrFails, WriteRawFails, WriteUpdate, IncOldest, IncYngest,
           IncLend, IncSlide, IncActive, Increment, WriteCommit, WriteCount,
           WriteUnlock
  <2> QED  BY <1>0, <2>1 DEF LockedPc
<1>5. ASSUME NEW p \in Pid, Close(p) PROVE StoresNothing
      BY <1>0, <1>5
         DEF LockedPc, ClosePc, At, Close, CloseParent, CloseDisown, CloseNotParent,
             CloseInactive
<1>6. ASSUME NEW r \in Reader, ReadLock(r) \/ ReadUnlock(r) PROVE StoresNothing
      BY <1>6 DEF ReadLock, ReadUnlock
<1>7. CASE UNCHANGED vars  BY <1>7 DEF vars
<1> QED  BY <1>1, <1>2, <1>3, <1>4, <1>5, <1>6, <1>7 DEF Next

\* Readers see nothing change as long as they keep the lock.
THEOREM ReadersUndisturbed == Spec => StableUnderReadLock
<1>1. TypeOK /\ AccessInv /\ ReaderInv /\ [Next]_vars =>
        (rlock \cap rlock' # {} => StoresNothing)
      BY StoresUnderLock DEF ReaderInv
<1>2. Init => ReaderInv  BY DEF Init, ReaderInv
<1>3. IInv => TypeOK /\ AccessInv  BY DEF IInv, AccessInv
<1>4. TypeOK /\ AccessInv /\ ReaderInv /\ [Next]_vars =>
        [rlock \cap rlock' # {} => UNCHANGED <<index, count, state, hdr, raw>>]_vars
      BY <1>1 DEF StoresNothing
<1> QED  BY <1>2, <1>3, <1>4, ReaderStep, RingCorrect, PTL
         DEF Spec, StableUnderReadLock

-----------------------------------------------------------------------------
(* A reader of an increment that nobody finished.                           *)

\* A writer on its way through IncrementIndicies has its packet in the slot.
Updating == \E p \in Pid : pc[p] \in UpdatePc

LEMMA UpdateWorks == RingInv /\ Updating => UpdateInv
<1> SUFFICES ASSUME RingInv, NEW p \in Pid, pc[p] \in UpdatePc PROVE UpdateInv
    BY DEF Updating
<1>1. Progress(p) /\ Written(p)  BY DEF RingInv, ProgressInv, ContentInv
<1>2. index \in Halfway  BY <1>1 DEF Progress, UpdatePc, Halfway
<1> QED  BY <1>1, <1>2 DEF Written, UpdateInv

\* Whoever comes after a writer that died there leaves its work alone, or goes
\* back to the indices it started from.
LEMMA UpdateStep ==
  ASSUME TypeOK, RingInv, RingInv', UpdateInv, [Next]_vars,
         RingInv' /\ Updating' => UpdateInv'
  PROVE  UpdateInv'
<1> USE DEF At, sysvars
<1>0. pc \in [Pid -> PcValues]  BY DEF TypeOK
<1>1. ASSUME UNCHANGED <<index, state, seqno, hdr, raw, log>> PROVE UpdateInv'
      BY <1>1 DEF UpdateInv, Halfway, Committed, Begun, Slid, Count
<1>2. ASSUME state' # UPDATE PROVE UpdateInv'  BY <1>2 DEF UpdateInv
<1>3. ASSUME NEW p \in Pid, OpenRestore(p) PROVE UpdateInv'
  <2>1. UNCHANGED <<state, seqno, hdr, raw, log>> /\ index' = backup
        BY <1>3 DEF OpenRestore, Restored
  <2>2. Count' = Count /\ Committed' = Committed  BY <2>1 DEF Count, Committed
  <2>3. state = UPDATE => index' = Committed'
        BY <2>1, <2>2 DEF RingInv, IndexInv
  <2> QED  BY <2>1, <2>2, <2>3 DEF UpdateInv, Halfway
<1>4. ASSUME NEW p \in Pid, Open(p) PROVE UpdateInv'
  <2>1. OpenClean(p) \/ OpenSetIdle(p) => state' # UPDATE
        BY DEF OpenClean, OpenSetIdle, IDLE, UPDATE
  <2> QED  BY <1>1, <1>2, <1>3, <1>4, <2>1
           DEF Open, OpenLock, OpenRefused, OpenClaim, OpenUnlock
<1>5. ASSUME NEW p \in Pid, Write(p) PROVE UpdateInv'
  <2>1. CASE \/ WriteUpdate(p) \/ IncOldest(p) \/ IncYngest(p) \/ IncLend(p)
             \/ IncSlide(p) \/ IncActive(p)
    <3>1. \E to \in UpdatePc : pc' = [pc EXCEPT ![p] = to]
          BY <2>1 DEF WriteUpdate, IncOldest, IncYngest, IncLend, IncSlide,
             IncActive, Increment, UpdatePc
    <3>2. pc'[p] \in UpdatePc  BY <1>0, <3>1
    <3> QED  BY <3>2 DEF Updating
  <2>2. CASE \/ WriteSeqno(p) \/ WriteHdr(p) \/ WriteRaw(p)
             \/ WriteHdrFails(p) \/ WriteRawFails(p)
    <3>1. pc[p] \in {"activated", "stamped", "hdrdone"} /\ state' = state
          BY <2>2 DEF WriteSeqno, WriteHdr, WriteRaw, WriteHdrFails, WriteRawFails
    <3>2. state = ACTIVE  BY <3>1 DEF RingInv, ProgressInv, Progress
    <3> QED  BY <1>2, <3>1, <3>2 DEF ACTIVE, UPDATE
  <2>3. CASE WriteActivate(p) \/ WriteCommit(p)
        BY <1>2, <2>3 DEF WriteActivate, WriteCommit, ACTIVE, IDLE, UPDATE
  <2>4. CASE WriteBackup(p) \/ WriteCount(p) \/ WriteUnlock(p)
        BY <1>1, <2>4 DEF WriteBackup, WriteCount, WriteUnlock
  <2> QED  BY <1>5, <2>1, <2>2, <2>3, <2>4 DEF Write
<1>6. ASSUME NEW p \in Pid, Close(p) PROVE UpdateInv'
  <2>1. CloseInactive(p) => state' # UPDATE  BY DEF CloseInactive, INACTIVE, UPDATE
  <2> QED  BY <1>1, <1>2, <1>6, <2>1 DEF Close, CloseParent, CloseDisown,
           CloseNotParent
<1>7. ASSUME NEW p \in Pid, Spawn(p) \/ Crash(p) \/ WriteLock(p) \/ CloseLock(p)
      PROVE  UpdateInv'
      BY <1>1, <1>7 DEF Spawn, Crash, WriteLock, CloseLock
<1>8. ASSUME NEW r \in Reader, ReadLock(r) \/ ReadUnlock(r) PROVE UpdateInv'
      BY <1>1, <1>8 DEF ReadLock, ReadUnlock
<1>9. CASE UNCHANGED vars  BY <1>1, <1>9 DEF vars
<1> QED  BY <1>4, <1>5, <1>6, <1>7, <1>8, <1>9 DEF Next

-----------------------------------------------------------------------------
\* An index from packet a + 1 to packet b, counting from the loop's creation.
Span(ix, a, b) == /\ a \in Nat /\ b \in Nat /\ a < b /\ b - a <= N
                  /\ ix.oldest = a % N /\ ix.yngest = (b - 1) % N

\* It holds b - a packets, and the i-th of them is packet a + i.
LEMMA SpanHolds ==
  ASSUME NEW ix, NEW a, NEW b, Span(ix, a, b)
  PROVE  /\ Held(ix) = b - a
         /\ \A i \in 1..(b - a) : SlotOf(ix, i) = (a + i - 1) % N
<1> DEFINE d == b - 1 - a
<1>1. N \in Nat \ {0} /\ a \in Nat /\ d \in 0..(N - 1) /\ a + d = b - 1
      BY Slots DEF Span
<1>2. Held(ix) = b - a
  <2>1. ix.yngest = (a + d) % N /\ ix.oldest = a % N  BY <1>1 DEF Span
  <2>2. ix.yngest # Undefined
    <3>1. b - 1 \in Nat  BY DEF Span
    <3> QED  BY <3>1, NextSlotMod DEF Span
  <2>3. (((a + d) % N) - (a % N) + N) % N = d
    <3> HIDE DEF d
    <3> QED  BY <1>1, ModDistance
  <2>4. Held(ix) = d + 1  BY <2>1, <2>2, <2>3 DEF Held
  <2> QED  BY <1>1, <2>4 DEF Span
<1>3. ASSUME NEW i \in 1..(b - a) PROVE SlotOf(ix, i) = (a + i - 1) % N
  <2> DEFINE e == i - 1
  <2>1. e \in 0..N /\ a + e = a + i - 1  BY <1>1, <1>3 DEF Span
  <2>2. ((a % N) + e) % N = (a + e) % N
    <3> HIDE DEF e
    <3> QED  BY <1>1, <2>1, ModMod
  <2>3. a % N \in Nat  BY <1>1, ModRange
  <2>4. SlotOf(ix, i) = ((a % N) + e) % N
    <3>1. ix.oldest + i - 1 = (a % N) + e  BY <2>3 DEF Span
    <3> QED  BY <3>1 DEF SlotOf
  <2> QED  BY <2>1, <2>2, <2>4
<1> QED  BY <1>2, <1>3

\* Every index that a writer can leave, unless its oldest is past the end of the
\* files, is empty or spans packets up to the last one committed, or one more.
LEMMA HalfwaySpans ==
  ASSUME TypeOK, NEW ix \in Halfway, ix.oldest # N, ix.yngest # Undefined
  PROVE  \E a \in First(Count)..Count, b \in {Count, Count + 1} : Span(ix, a, b)
<1> DEFINE n == Count
           f == First(Count)
<1>1. n \in Nat /\ N \in Nat \ {0} /\ NumPkt \in Nat \ {0} /\ NumPkt < N
      BY Slots, SizeAssumption DEF TypeOK, Count
<1>2. f = (IF n > NumPkt THEN n - NumPkt ELSE 0)  BY DEF First
<1>3. f \in 0..n /\ n - f <= NumPkt  BY <1>1, <1>2
<1>4. /\ Begun.oldest = f % N /\ Begun.yngest = n % N
      /\ Begun = [active |-> Begun.active, lend |-> Begun.lend,
                  oldest |-> Begun.oldest, yngest |-> Begun.yngest]
  <2>1. n = 0 => f = n  BY <1>1, <1>2
  <2>2. f % N # Undefined  BY <1>3, NextSlotMod
  <2> QED  BY <2>1, <2>2 DEF Begun, WithYngest, WithOldest, Committed, IndexAfter
<1>5. ASSUME ix.oldest = f % N, ix.yngest = n % N PROVE Span(ix, f, n + 1)
      BY <1>1, <1>3, <1>5 DEF Span
<1>6. ASSUME Full(Begun), ix.oldest = (f + 1) % N, ix.yngest = n % N
      PROVE  Span(ix, f + 1, n + 1) /\ f + 1 \in f..n
  <2>1. n >= NumPkt  BY <1>1, <1>6, FullAfter DEF Begun, Committed
  <2>2. f + 1 <= n  BY <1>1, <1>2, <2>1
  <2> QED  BY <1>1, <1>3, <1>6, <2>2 DEF Span
<1>7. CASE ix = Committed \/ ix = WithOldest(Committed)
  <2>1. n # 0  BY <1>7 DEF Committed, IndexAfter, WithOldest
  <2>2. Committed.oldest = f % N /\ Committed.yngest = (n - 1) % N
        BY <2>1 DEF Committed, IndexAfter
  <2>3. f % N # Undefined  BY <1>3, NextSlotMod
  <2>4. ix.oldest = f % N /\ ix.yngest = (n - 1) % N
        BY <1>7, <2>2, <2>3 DEF WithOldest
  <2>5. f < n  BY <1>1, <1>2, <2>1
  <2>6. Span(ix, f, n)  BY <1>1, <1>3, <2>4, <2>5 DEF Span
  <2> QED  BY <1>3, <2>6
<1>8. CASE \/ ix = Begun
           \/ Full(Begun) /\ ix \in {BumpLend(Begun), SlideLend(Begun)}
  <2>1. ix.oldest = f % N /\ ix.yngest = n % N
        BY <1>4, <1>8 DEF BumpLend, SlideLend
  <2> QED  BY <1>3, <1>5, <2>1
<1>9. CASE Full(Begun) /\ ix = BumpOldest(SlideLend(Begun))
  <2>1. ix.oldest = (f % N) + 1 /\ ix.yngest = n % N
        BY <1>4, <1>9 DEF BumpOldest, SlideLend
  <2>2. f % N \in 0..(N - 1)
    <3>1. f \in Nat  BY <1>1, <1>3
    <3> HIDE DEF f
    <3> QED  BY <1>1, <3>1, ModRange
  <2>3. (f % N) + 1 \in 0..(N - 1)  BY <1>1, <2>1, <2>2
  <2>4. ((f % N) + 1) % N = (f + 1) % N  BY <1>1, <1>3, ModMod
  <2>5. ix.oldest = (f + 1) % N  BY <1>1, <2>1, <2>3, <2>4, ModSmall
  <2> QED  BY <1>6, <1>9, <2>1, <2>5
<1>10. CASE ix = BumpActive(Slid) \/ ix = Slid
  <2>1. CASE ~Full(Begun)
    <3>1. ix.oldest = f % N /\ ix.yngest = n % N
          BY <1>4, <1>10, <2>1 DEF Slid, BumpActive
    <3> QED  BY <1>3, <1>5, <3>1
  <2>2. CASE Full(Begun)
    <3>1. ix.oldest = NextSlot(f % N) /\ ix.yngest = n % N
          BY <1>4, <1>10, <2>2 DEF Slid, BumpActive, SlideOldest, SlideLend
    <3>2. NextSlot(f % N) = (f + 1) % N  BY <1>3, NextSlotMod
    <3> QED  BY <1>6, <2>2, <3>1, <3>2
  <2> QED  BY <2>1, <2>2
<1>11. CASE ix = IndexAfter(n + 1)
  <2> DEFINE g == First(n + 1)
  <2>1. g = IF n + 1 > NumPkt THEN n + 1 - NumPkt ELSE 0  BY <1>1 DEF First
  <2>2. g \in f..n /\ n + 1 - g <= NumPkt  BY <1>1, <1>2, <2>1
  <2>3. ix.oldest = g % N /\ ix.yngest = (n + 1 - 1) % N
        BY <1>1, <1>11 DEF IndexAfter
  <2>4. Span(ix, g, n + 1)
    <3> HIDE DEF g
    <3> QED  BY <1>1, <1>3, <2>2, <2>3 DEF Span
  <2> QED  BY <2>2, <2>4
<1> QED  BY <1>7, <1>8, <1>9, <1>10, <1>11 DEF Halfway

\* Packets a + 1 to b of l are in their slots.
InSlots(l, a, b) ==
  \A k \in (a + 1)..b : hdr[(k - 1) % N] = l[k] /\ raw[(k - 1) % N] = l[k]

\* What an index that spans committed packets, and perhaps one more, shows.
LEMMA SpanSees ==
  ASSUME TypeOK, NEW ix, NEW a \in Nat, NEW b \in Nat, Span(ix, a, b),
         NEW l \in Seq(Nat), b = Len(l), InSlots(l, a, b)
  PROVE  Whole(ix) /\ IsTail(Window(ix), l)
<1> DEFINE m == b - a
           w == Window(ix)
<1>1. m \in Nat /\ m <= b /\ b - m = a  BY DEF Span
<1>2. Held(ix) = m /\ \A i \in 1..m : SlotOf(ix, i) = (a + i - 1) % N
  <2>1. /\ Held(ix) = b - a
        /\ \A i \in 1..(b - a) : SlotOf(ix, i) = (a + i - 1) % N
    <3> HIDE DEF m, w
    <3> QED  BY SpanHolds
  <2> QED  BY <2>1
<1>3. ASSUME NEW i \in 1..m
      PROVE  /\ hdr[SlotOf(ix, i)] = l[a + i] /\ raw[SlotOf(ix, i)] = l[a + i]
             /\ l[a + i] \in Nat
  <2>1. a + i \in (a + 1)..b  BY <1>1
  <2>2. a + i \in 1..Len(l)  BY <1>1
  <2> QED  BY <1>2, <2>1, <2>2 DEF InSlots
<1>4. Whole(ix)  BY <1>2, <1>3 DEF Whole
<1>5. w = [i \in 1..m |-> hdr[SlotOf(ix, i)]]  BY <1>2 DEF Window
<1>6. w \in [1..m -> Nat] /\ \A i \in 1..m : w[i] = l[a + i]
  <2> HIDE DEF m, w
  <2> QED  BY <1>3, <1>5
<1>7. Len(w) = m
  <2> HIDE DEF m, w
  <2> QED  BY <1>1, <1>6, TupleLen
<1>8. IsTail(w, l)
  <2> HIDE DEF m, w
  <2> QED  BY <1>1, <1>6, <1>7 DEF IsTail
<1> QED  BY <1>4, <1>8

\* A window of no packets.
LEMMA EmptySees ==
  ASSUME NEW ix, ix.yngest = Undefined, NEW l \in Seq(Nat)
  PROVE  Whole(ix) /\ IsTail(Window(ix), l)
<1>1. Held(ix) = 0  BY DEF Held
<1>2. Window(ix) = <<>>  BY <1>1 DEF Window
<1> QED  BY <1>1, <1>2 DEF Whole, IsTail

\* Every slot of the window holds what was committed to it, in both files, and
\* while an increment is unfinished the next slot holds the packet to come.
LEMMA ReaderWindow == TypeOK /\ RingInv /\ UpdateInv => ReaderSeesWhole
<1> SUFFICES ASSUME TypeOK, RingInv, UpdateInv, index.oldest # N
             PROVE  /\ Whole(index)
                    /\ \/ IsTail(Window(index), log)
                       \/ /\ state = UPDATE
                          /\ IsTail(Window(index), Append(log, seqno))
    BY DEF ReaderSeesWhole
<1> DEFINE n == Count
           f == First(Count)
           l == Append(log, seqno)
<1>1. /\ n \in Nat /\ n = Len(log) /\ log \in Seq(Nat) /\ seqno \in Nat
      /\ NumPkt \in Nat \ {0}
      BY SizeAssumption DEF TypeOK, Count
<1>2. f \in 0..n /\ f >= n - NumPkt  BY <1>1 DEF First
<1>3. \A k \in (f + 1)..n : hdr[(k - 1) % N] = log[k] /\ raw[(k - 1) % N] = log[k]
  <2>1. \A k \in (f + 1)..n : k \in 1..n /\ k > n - NumPkt  BY <1>1, <1>2
  <2> QED  BY <2>1 DEF RingInv, ContentInv, Stored
<1>4. CASE index.yngest = Undefined  BY <1>1, <1>4, EmptySees
<1>5. CASE index.yngest # Undefined
  <2>1. index \in Halfway
    <3>1. state # UPDATE => index = Committed  BY DEF RingInv, IndexInv
    <3> QED  BY <3>1 DEF UpdateInv, Halfway
  <2>2. PICK a \in f..n, b \in {n, n + 1} : Span(index, a, b)
        BY <1>5, <2>1, HalfwaySpans
  <2>3. a \in Nat /\ a >= f  BY <1>1, <1>2
  <2>4. CASE b = n
    <3>1. \A k \in (a + 1)..n : k \in (f + 1)..n  BY <1>1, <1>2, <2>3
    <3>2. InSlots(log, a, b)  BY <1>3, <2>4, <3>1 DEF InSlots
    <3>3. Whole(index) /\ IsTail(Window(index), log)
      <4> HIDE DEF n
      <4> QED  BY <1>1, <2>2, <2>3, <2>4, <3>2, SpanSees
    <3> QED  BY <3>3
  <2>5. CASE b = n + 1
    <3>1. CASE state = UPDATE
      <4>1. l \in Seq(Nat) /\ Len(l) = n + 1  BY <1>1
      <4>2. \A k \in 1..(n + 1) : l[k] = IF k = n + 1 THEN seqno ELSE log[k]
            BY <1>1
      <4>3. ASSUME NEW k \in (a + 1)..(n + 1)
            PROVE  hdr[(k - 1) % N] = l[k] /\ raw[(k - 1) % N] = l[k]
        <5>1. CASE k = n + 1
          <6>1. hdr[n % N] = seqno /\ raw[n % N] = seqno
                BY <3>1 DEF UpdateInv
          <6>2. k - 1 = n  BY <1>1, <5>1
          <6>3. l[k] = seqno  BY <1>1, <4>2, <5>1
          <6> QED  BY <6>1, <6>2, <6>3
        <5>2. CASE k # n + 1
          <6>1. k \in (f + 1)..n /\ k \in 1..(n + 1)  BY <1>1, <1>2, <2>3, <5>2
          <6> QED  BY <1>3, <4>2, <5>2, <6>1
        <5> QED  BY <5>1, <5>2
      <4>4. n + 1 \in Nat /\ Span(index, a, n + 1)  BY <1>1, <2>2, <2>5
      <4>5. InSlots(l, a, n + 1)  BY <4>3 DEF InSlots
      <4>6. Whole(index) /\ IsTail(Window(index), l)
        <5> HIDE DEF l, n
        <5> QED  BY <2>3, <4>1, <4>4, <4>5, SpanSees
      <4> QED  BY <3>1, <4>6
    <3>2. CASE state # UPDATE
      <4>1. index.yngest = (n - 1) % N /\ n # 0
            BY <1>5, <3>2 DEF RingInv, IndexInv, Committed, IndexAfter
      <4>2. index.yngest = n % N  BY <1>1, <2>2, <2>5 DEF Span
      <4>3. n - 1 \in Nat /\ N \in Nat \ {0} /\ n - 1 < n /\ n < (n - 1) + N
            BY <1>1, <4>1, Slots
      <4>4. n % N # (n - 1) % N
        <5> HIDE DEF n
        <5> QED  BY <1>1, <4>3, ModInj
      <4> QED  BY <4>1, <4>2, <4>4
    <3> QED  BY <3>1, <3>2
  <2> QED  BY <2>2, <2>4, <2>5
<1> QED  BY <1>4, <1>5

\* Whatever a dead writer left in the indices, a reader finds whole packets in
\* them, in the order they were written, up to the last one committed or the
\* one after it.
THEOREM ReadersSeeWhole == Spec => []ReaderSeesWhole
<1>1. Init => UpdateInv  BY DEF Init, UpdateInv, INACTIVE, UPDATE
<1>2. IInv => TypeOK /\ RingInv  BY DEF IInv
<1>3. IInv /\ IInv' /\ UpdateInv /\ [Next]_vars => UpdateInv'
  <2> SUFFICES ASSUME IInv, IInv', UpdateInv, [Next]_vars PROVE UpdateInv'
      OBVIOUS
  <2>1. TypeOK /\ RingInv /\ RingInv'  BY DEF IInv
  <2>2. RingInv' /\ Updating' => UpdateInv'  BY UpdateWorks, PTL
  <2> QED  BY <2>1, <2>2, UpdateStep
<1>4. IInv /\ UpdateInv => ReaderSeesWhole  BY <1>2, ReaderWindow
<1> QED  BY <1>1, <1>3, <1>4, RingCorrect, PTL DEF Spec
=============================================================================
