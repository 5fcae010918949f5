--------------------------- MODULE NrtsLoopProofs ---------------------------
(***************************************************************************)
(* Proof that the slots from oldest to yngest of an NRTS channel hold the  *)
(* newest records, for every size of the ring and every number of hidden   *)
(* slots.  Record k + 1 is in slot k % NRec; the indices in shared memory  *)
(* are those of top records, but for the two moments at which some of them *)
(* are stored and others are not; and the slot being written is hidden.    *)
(*                                                                         *)
(* Then, that a client's time window is served record after record.        *)
(***************************************************************************)
EXTENDS IsidTwind, ModArithmetic, TLAPS

\* The indices of a channel with t records.
Place(k) == k % NRec
OldestOf(t) == IF t <= Visible THEN 0 ELSE Place(t - Visible)
YngestOf(t) == IF t = 0 THEN -1 ELSE Place(t - 1)
LendOf(t) == IF t <= Visible THEN Visible ELSE Place(t)

Points == {"gone", "ready", "hdr", "dat", "oldest", "yngest", "lend", "idle", "count"}

NType ==
  /\ chn \in [oldest : Slot, yngest : Slot \cup {-1}, lend : Slot,
              status : Status, count : Nat]
  /\ hdr \in [Slot -> Nat] /\ dat \in [Slot -> Nat]
  /\ writer \in [at : Points, oldest : Slot, yngest : Slot, lend : Slot]
  /\ top \in Nat
  /\ half \in BOOLEAN

\* What is in shared memory.
Shared ==
  /\ chn.yngest = YngestOf(top)
  /\ chn.oldest = IF writer.at = "yngest" THEN OldestOf(top + 1) ELSE OldestOf(top)
  /\ writer.at # "lend" => chn.lend = LendOf(top)

\* What the writer is about to store.
Local ==
  /\ writer.at \in {"hdr", "dat", "oldest", "yngest"} =>
       /\ writer.oldest = OldestOf(top + 1) /\ writer.yngest = YngestOf(top + 1)
       /\ writer.lend = LendOf(top + 1)
  /\ writer.at = "lend" => writer.lend = LendOf(top)

\* What is in the files: visible records, and the one being written.
Held(k) == hdr[Place(k)] = k + 1 /\ dat[Place(k)] = k + 1
Files ==
  /\ \A k \in Nat : k < top /\ top <= k + Visible => Held(k)
  /\ writer.at = "dat" => hdr[Place(top)] = top + 1
  /\ writer.at \in {"oldest", "yngest"} => Held(top)

NInv == NType /\ (~half => Shared /\ Local /\ Files)

-----------------------------------------------------------------------------
(* The ring.                                                                 *)

LEMMA Sizes ==
  /\ NRec \in Nat \ {0} /\ Visible \in Nat \ {0} /\ Visible < NRec /\ NRec > 1
  /\ Slot = 0..(NRec - 1)
BY NrtsAssumption DEF Visible, Slot

LEMMA PlaceType == ASSUME NEW k \in Nat PROVE Place(k) \in Slot
BY Sizes, ModRange DEF Place

LEMMA PlaceSmall == ASSUME NEW k \in Slot PROVE Place(k) = k
BY Sizes, ModSmall DEF Place

\* A step in the ring.
LEMMA AfterPlace == ASSUME NEW k \in Nat PROVE After(Place(k)) = Place(k + 1)
<1>1. (k + 1) % NRec = IF (k % NRec) + 1 < NRec THEN (k % NRec) + 1 ELSE (k % NRec) + 1 - NRec
  <2>1. 1 \in 0..NRec  BY Sizes
  <2> QED  BY <2>1, Sizes, ModAdd
<1>2. k % NRec \in 0..(NRec - 1)  BY Sizes, ModRange
<1> QED  BY <1>1, <1>2, Sizes DEF After, Place

LEMMA AfterType == ASSUME NEW i \in Slot \cup {-1} PROVE After(i) \in Slot
BY Sizes DEF After

\* Two records less than a ring apart are in different slots.
LEMMA PlaceApart ==
  ASSUME NEW j \in Nat, NEW k \in Nat, j < k, k < j + NRec
  PROVE  Place(j) # Place(k)
BY Sizes, ModInj DEF Place

LEMMA IndicesType ==
  ASSUME NEW t \in Nat
  PROVE  OldestOf(t) \in Slot /\ YngestOf(t) \in Slot \cup {-1} /\ LendOf(t) \in Slot
<1>1. t > Visible => t - Visible \in Nat  BY Sizes
<1>2. t # 0 => t - 1 \in Nat  OBVIOUS
<1> QED  BY SMTT(20), <1>1, <1>2, PlaceType, Sizes DEF OldestOf, YngestOf, LendOf

\* The slot after the youngest.
LEMMA NextYngest == ASSUME NEW t \in Nat PROVE After(YngestOf(t)) = Place(t)
<1>1. CASE t = 0
  <2>1. Place(0) = 0  BY Sizes, PlaceSmall
  <2> QED  BY <1>1, <2>1, Sizes DEF After, YngestOf
<1>2. CASE t # 0
  <2>1. t - 1 \in Nat /\ (t - 1) + 1 = t  BY <1>2
  <2>2. After(Place(t - 1)) = Place((t - 1) + 1)  BY <2>1, AfterPlace
  <2> QED  BY <1>2, <2>1, <2>2 DEF YngestOf
<1> QED  BY <1>1, <1>2

\* It is the logical end when as many records are there as readers may see.
LEMMA FullAt == ASSUME NEW t \in Nat PROVE Place(t) = LendOf(t) <=> t >= Visible
<1>1. CASE t <= Visible
  <2>1. Place(t) = t  BY <1>1, Sizes, PlaceSmall
  <2> QED  BY <1>1, <2>1, Sizes DEF LendOf
<1>2. CASE t > Visible
  BY <1>2, Sizes DEF LendOf
<1> QED  BY <1>1, <1>2, Sizes

\* The indices after one more record.
LEMMA NextOldest ==
  ASSUME NEW t \in Nat
  PROVE  OldestOf(t + 1) = IF t >= Visible THEN After(OldestOf(t)) ELSE OldestOf(t)
<1>1. CASE t < Visible  BY <1>1, Sizes DEF OldestOf
<1>2. CASE t = Visible
  <2>1. Place(0) = 0 /\ After(Place(0)) = Place(0 + 1)  BY Sizes, PlaceSmall, AfterPlace
  <2>2. t + 1 - Visible = 1  BY <1>2, Sizes
  <2>3. OldestOf(t + 1) = Place(1) /\ OldestOf(t) = 0  BY <1>2, <2>2, Sizes DEF OldestOf
  <2> QED  BY <1>2, <2>1, <2>3, Sizes
<1>3. CASE t > Visible
  <2>1. t - Visible \in Nat /\ (t - Visible) + 1 = t + 1 - Visible  BY <1>3, Sizes
  <2>2. After(Place(t - Visible)) = Place((t - Visible) + 1)  BY <2>1, AfterPlace
  <2>3. OldestOf(t + 1) = Place(t + 1 - Visible) /\ OldestOf(t) = Place(t - Visible)
        BY <1>3, Sizes DEF OldestOf
  <2> QED  BY <1>3, <2>1, <2>2, <2>3, Sizes
<1> QED  BY <1>1, <1>2, <1>3, Sizes

LEMMA NextLend ==
  ASSUME NEW t \in Nat
  PROVE  LendOf(t + 1) = IF t >= Visible THEN After(LendOf(t)) ELSE LendOf(t)
<1>1. CASE t < Visible  BY <1>1, Sizes DEF LendOf
<1>2. CASE t >= Visible
  <2>1. LendOf(t) = Place(t)  BY <1>2, FullAt
  <2>2. After(Place(t)) = Place(t + 1)  BY AfterPlace
  <2>3. LendOf(t + 1) = Place(t + 1)  BY <1>2, Sizes DEF LendOf
  <2> QED  BY <1>2, <2>1, <2>2, <2>3
<1> QED  BY <1>1, <1>2, Sizes

\* If the logical end stays, so does the oldest.
LEMMA SameEnd ==
  ASSUME NEW t \in Nat, LendOf(t + 1) = LendOf(t)
  PROVE  OldestOf(t + 1) = OldestOf(t)
<1>1. CASE t < Visible  BY <1>1, NextOldest, Sizes
<1>2. CASE t >= Visible
  <2>1. LendOf(t) = Place(t) /\ LendOf(t + 1) = Place(t + 1)  BY <1>2, FullAt, Sizes
  <2>2. Place(t) # Place(t + 1)  BY Sizes, PlaceApart
  <2> QED  BY <2>1, <2>2
<1> QED  BY <1>1, <1>2, Sizes

-----------------------------------------------------------------------------
(* The invariant.                                                            *)

LEMMA AtType ==
  ASSUME NEW p \in Points
  PROVE  /\ At(p) \in [at : Points, oldest : Slot, yngest : Slot, lend : Slot]
         /\ At(p).at = p
<1>1. 0 \in Slot  BY Sizes
<1> QED  BY <1>1 DEF At

LEMMA InvInit == Init => NInv
<1> SUFFICES ASSUME Init PROVE NInv  OBVIOUS
<1>1. Visible \in Slot /\ NRec - NHide = Visible  BY Sizes DEF Visible
<1>2. NType
  <2>1. writer \in [at : Points, oldest : Slot, yngest : Slot, lend : Slot]
        BY AtType DEF Init, Points
  <2>2. 0 \in Slot /\ 0 \in Nat /\ "idle" \in Status  BY Sizes DEF Status
  <2>3. chn \in [oldest : Slot, yngest : Slot \cup {-1}, lend : Slot,
                 status : Status, count : Nat]
        BY <1>1, <2>2 DEF Init
  <2> QED  BY <2>1, <2>2, <2>3 DEF Init, NType
<1>3. Shared  BY <1>1, Sizes DEF Init, Shared, At, YngestOf, OldestOf, LendOf
<1>4. Local  BY DEF Init, Local, At
<1>5. Files  BY DEF Init, Files, At
<1> QED  BY <1>2, <1>3, <1>4, <1>5 DEF NInv

LEMMA OpenKeeps == NInv /\ Open => NInv'
<1> SUFFICES ASSUME NInv, Open PROVE NInv'  OBVIOUS
<1> USE DEF Open
<1>1. NType'  BY AtType DEF NInv, NType, Points
<1>2. ~half => Shared' /\ Local' /\ Files'
      BY DEF NInv, NType, Shared, Local, Files, Held, YngestOf, OldestOf, LendOf, At
<1> QED  BY <1>1, <1>2 DEF NInv

LEMMA BeginKeeps == NInv /\ Begin => NInv'
<1> SUFFICES ASSUME NInv, Begin PROVE NInv'  OBVIOUS
<1> USE DEF Begin
<1> DEFINE slot == After(chn.yngest)
<1>1. /\ slot \in Slot
      /\ writer' = [at |-> "hdr", yngest |-> slot,
                    oldest |-> IF AtEnd(slot) THEN After(chn.oldest) ELSE chn.oldest,
                    lend   |-> IF AtEnd(slot) THEN After(chn.lend) ELSE chn.lend]
      BY AfterType DEF Determine, NInv, NType
<1>2. NType'
  <2>1. chn.oldest \in Slot /\ chn.lend \in Slot  BY DEF NInv, NType
  <2>2. After(chn.oldest) \in Slot /\ After(chn.lend) \in Slot  BY <2>1, AfterType
  <2>3. writer' \in [at : Points, oldest : Slot, yngest : Slot, lend : Slot]
        BY <1>1, <2>1, <2>2 DEF Points
  <2> QED  BY <2>3 DEF NInv, NType, Status
<1>3. ASSUME ~half PROVE Shared' /\ Local' /\ Files'
  <2>1. /\ top \in Nat /\ chn.yngest = YngestOf(top) /\ chn.oldest = OldestOf(top)
        /\ chn.lend = LendOf(top)
        BY <1>3 DEF NInv, NType, Shared
  <2>2. slot = Place(top) /\ YngestOf(top + 1) = Place(top)  BY <2>1, NextYngest DEF YngestOf
  <2>3. AtEnd(slot) <=> top >= Visible  BY <2>1, <2>2, FullAt DEF AtEnd
  <2>4. Local'
    <3>1. writer'.oldest = OldestOf(top + 1)  BY <1>1, <2>1, <2>3, NextOldest
    <3>2. writer'.lend = LendOf(top + 1)  BY <1>1, <2>1, <2>3, NextLend
    <3> QED  BY <1>1, <2>2, <3>1, <3>2 DEF Local, YngestOf, OldestOf, LendOf
  <2>5. Shared'
    <3>1. chn'.yngest = chn.yngest /\ chn'.oldest = chn.oldest /\ chn'.lend = chn.lend
          BY DEF NInv, NType
    <3> QED  BY <1>1, <2>1, <3>1 DEF Shared, YngestOf, OldestOf, LendOf
  <2>6. Files'  BY <1>1, <1>3 DEF NInv, Files, Held
  <2> QED  BY <2>4, <2>5, <2>6
<1> QED  BY <1>2, <1>3 DEF NInv

LEMMA WriteHdrKeeps == NInv /\ WriteHdr => NInv'
<1> SUFFICES ASSUME NInv, WriteHdr PROVE NInv'  OBVIOUS
<1> USE DEF WriteHdr
<1>1. NType'  BY DEF NInv, NType, Points
<1>2. ASSUME ~half PROVE Shared' /\ Local' /\ Files'
  <2>1. Shared' /\ Local'
        BY <1>2 DEF NInv, NType, Shared, Local, YngestOf, OldestOf, LendOf
  <2>2. top \in Nat /\ writer.yngest = Place(top) /\ Place(top) \in Slot
        BY <1>2, PlaceType DEF NInv, NType, Local, YngestOf
  <2>3. hdr' = [hdr EXCEPT ![Place(top)] = top + 1] /\ hdr \in [Slot -> Nat]
        BY <2>2 DEF NInv, NType
  <2>4. hdr'[Place(top)] = top + 1  BY <2>2, <2>3
  <2>5. ASSUME NEW k \in Nat, k < top, top <= k + Visible PROVE Held(k)'
    <3>1. Place(k) # Place(top) /\ Place(k) \in Slot  BY <2>2, <2>5, Sizes, PlaceApart, PlaceType
    <3>2. Held(k)  BY <1>2, <2>5 DEF NInv, Files
    <3>3. hdr'[Place(k)] = hdr[Place(k)]  BY <2>3, <3>1
    <3> QED  BY <3>2, <3>3 DEF Held, Place
  <2>6. Files'  BY <2>4, <2>5 DEF Files, Held, Place, NInv, NType
  <2> QED  BY <2>1, <2>6
<1> QED  BY <1>1, <1>2 DEF NInv

LEMMA WriteDatKeeps == NInv /\ WriteDat => NInv'
<1> SUFFICES ASSUME NInv, WriteDat PROVE NInv'  OBVIOUS
<1> USE DEF WriteDat
<1>1. NType'  BY DEF NInv, NType, Points, Status
<1>2. ASSUME ~half PROVE Shared' /\ Local' /\ Files'
  <2>1. Shared' /\ Local'
        BY <1>2 DEF NInv, NType, Shared, Local, YngestOf, OldestOf, LendOf
  <2>2. top \in Nat /\ writer.yngest = Place(top) /\ Place(top) \in Slot
        BY SMTT(20), <1>2, PlaceType DEF NInv, NType, Local, YngestOf
  <2>3. dat' = [dat EXCEPT ![Place(top)] = top + 1] /\ dat \in [Slot -> Nat]
        BY <2>2 DEF NInv, NType
  <2>4. Held(top)'
    <3>1. dat'[Place(top)] = top + 1 /\ hdr[Place(top)] = top + 1
          BY <1>2, <2>2, <2>3 DEF NInv, Files
    <3> QED  BY <3>1 DEF Held, Place
  <2>5. ASSUME NEW k \in Nat, k < top, top <= k + Visible PROVE Held(k)'
    <3>1. Place(k) # Place(top) /\ Place(k) \in Slot  BY <2>2, <2>5, Sizes, PlaceApart, PlaceType
    <3>2. Held(k)  BY <1>2, <2>5 DEF NInv, Files
    <3>3. dat'[Place(k)] = dat[Place(k)]  BY <2>3, <3>1
    <3> QED  BY <3>2, <3>3 DEF Held, Place
  <2>6. Files'  BY <2>4, <2>5 DEF Files, Held, Place, NInv, NType
  <2> QED  BY <2>1, <2>6
<1> QED  BY <1>1, <1>2 DEF NInv

LEMMA StoreOldestKeeps == NInv /\ StoreOldest => NInv'
<1> SUFFICES ASSUME NInv, StoreOldest PROVE NInv'  OBVIOUS
<1> USE DEF StoreOldest
<1>1. NType'  BY DEF NInv, NType, Points
<1>2. ~half => Shared' /\ Local' /\ Files'
      BY DEF NInv, NType, Shared, Local, Files, Held, Place, YngestOf, OldestOf, LendOf
<1> QED  BY <1>1, <1>2 DEF NInv

LEMMA StoreYngestKeeps == NInv /\ StoreYngest => NInv'
<1> SUFFICES ASSUME NInv, StoreYngest PROVE NInv'  OBVIOUS
<1> USE DEF StoreYngest
<1>1. NType'  BY DEF NInv, NType, Points
<1>2. ASSUME ~half PROVE Shared' /\ Local' /\ Files'
  <2>1. top \in Nat /\ top' = top + 1  BY DEF NInv, NType
  <2>2. Shared'
    <3>1. chn'.yngest = writer.yngest /\ chn'.oldest = chn.oldest /\ writer'.at = "lend"
          BY DEF NInv, NType
    <3>2. writer.yngest = YngestOf(top + 1) /\ chn.oldest = OldestOf(top + 1)
          BY <1>2 DEF NInv, Shared, Local
    <3> QED  BY <2>1, <3>1, <3>2 DEF Shared, YngestOf, OldestOf
  <2>3. Local'
    <3>1. writer'.lend = writer.lend /\ writer'.at = "lend"  BY DEF NInv, NType
    <3>2. writer.lend = LendOf(top + 1)  BY <1>2 DEF NInv, Local
    <3> QED  BY <2>1, <3>1, <3>2 DEF Local, LendOf
  <2>4. ASSUME NEW k \in Nat, k < top + 1, top + 1 <= k + Visible PROVE Held(k)
    <3>1. CASE k = top  BY <1>2, <3>1 DEF NInv, Files
    <3>2. CASE k < top /\ top <= k + Visible  BY <1>2, <3>2 DEF NInv, Files
    <3> QED  BY <2>1, <2>4, <3>1, <3>2, Sizes
  <2>5. Files'  BY <2>1, <2>4 DEF Files, Held, Place, NInv, NType
  <2> QED  BY <2>2, <2>3, <2>5
<1> QED  BY <1>1, <1>2 DEF NInv

LEMMA StoreLendKeeps == NInv /\ StoreLend => NInv'
<1> SUFFICES ASSUME NInv, StoreLend PROVE NInv'  OBVIOUS
<1> USE DEF StoreLend
<1>1. NType'  BY DEF NInv, NType, Points
<1>2. ~half => Shared' /\ Local' /\ Files'
      BY DEF NInv, NType, Shared, Local, Files, Held, Place, YngestOf, OldestOf, LendOf
<1> QED  BY <1>1, <1>2 DEF NInv

LEMMA SetIdleKeeps == NInv /\ SetIdle => NInv'
<1> SUFFICES ASSUME NInv, SetIdle PROVE NInv'  OBVIOUS
<1> USE DEF SetIdle
<1>1. NType'  BY AtType DEF NInv, NType, Points, Status
<1>2. writer'.at = "count"  BY AtType DEF Points
<1>3. ~half => Shared' /\ Local' /\ Files'
      BY <1>2 DEF NInv, NType, Shared, Local, Files, Held, Place, YngestOf, OldestOf, LendOf
<1> QED  BY <1>1, <1>3 DEF NInv

LEMMA CountKeeps == NInv /\ Count => NInv'
<1> SUFFICES ASSUME NInv, Count PROVE NInv'  OBVIOUS
<1> USE DEF Count
<1>1. NType'  BY AtType DEF NInv, NType, Points
<1>2. writer'.at = "ready"  BY AtType DEF Points
<1>3. ~half => Shared' /\ Local' /\ Files'
      BY <1>2 DEF NInv, NType, Shared, Local, Files, Held, Place, YngestOf, OldestOf, LendOf
<1> QED  BY <1>1, <1>3 DEF NInv

LEMMA WriteFailsKeeps == NInv /\ WriteFails => NInv'
<1> SUFFICES ASSUME NInv, WriteFails PROVE NInv'  OBVIOUS
<1> USE DEF WriteFails
<1>1. NType'  BY AtType DEF NInv, NType, Points
<1>2. writer'.at = "gone"  BY AtType DEF Points
<1>3. ~half => Shared' /\ Local' /\ Files'
      BY <1>2 DEF NInv, NType, Shared, Local, Files, Held, Place, YngestOf, OldestOf, LendOf
<1> QED  BY <1>1, <1>3 DEF NInv

LEMMA CrashKeeps == NInv /\ Crash => NInv'
<1> SUFFICES ASSUME NInv, Crash PROVE NInv'  OBVIOUS
<1> USE DEF Crash
<1>1. NType'  BY AtType DEF NInv, NType, Points
<1>2. writer'.at = "gone"  BY AtType DEF Points
<1>3. ASSUME ~half' PROVE Shared' /\ Local' /\ Files'
  <2>1. Shared /\ Local /\ Files /\ top \in Nat  BY <1>3 DEF NInv, NType
  <2>2. chn.oldest = OldestOf(top)
    <3>1. CASE writer.at = "yngest"
      <4>1. LendOf(top + 1) = LendOf(top)
            BY <1>3, <2>1, <3>1 DEF HalfStored, Shared, Local
      <4> QED  BY <2>1, <3>1, <4>1, SameEnd DEF Shared
    <3> QED  BY <2>1, <3>1 DEF Shared
  <2>3. chn.lend = LendOf(top)
        BY <1>3, <2>1 DEF HalfStored, Shared, Local
  <2>4. Shared'  BY <1>2, <2>1, <2>2, <2>3 DEF Shared, YngestOf, OldestOf, LendOf
  <2>5. Local' /\ Files'  BY <1>2, <2>1 DEF Local, Files, Held, Place
  <2> QED  BY <2>4, <2>5
<1> QED  BY <1>1, <1>3 DEF NInv

LEMMA InvNext == NInv /\ [NNext]_nvars => NInv'
<1> SUFFICES ASSUME NInv, [NNext]_nvars PROVE NInv'  OBVIOUS
<1>1. CASE Open  BY <1>1, OpenKeeps
<1>2. CASE Begin  BY <1>2, BeginKeeps
<1>3. CASE WriteHdr  BY <1>3, WriteHdrKeeps
<1>4. CASE WriteDat  BY <1>4, WriteDatKeeps
<1>5. CASE StoreOldest  BY <1>5, StoreOldestKeeps
<1>6. CASE StoreYngest  BY <1>6, StoreYngestKeeps
<1>7. CASE StoreLend  BY <1>7, StoreLendKeeps
<1>8. CASE SetIdle  BY <1>8, SetIdleKeeps
<1>9. CASE Count  BY <1>9, CountKeeps
<1>10. CASE WriteFails  BY <1>10, WriteFailsKeeps
<1>11. CASE Crash  BY <1>11, CrashKeeps
<1>12. CASE UNCHANGED nvars
  BY <1>12 DEF nvars, NInv, NType, Shared, Local, Files, Held, Place, YngestOf, OldestOf,
               LendOf
<1> QED
  BY <1>1, <1>2, <1>3, <1>4, <1>5, <1>6, <1>7, <1>8, <1>9, <1>10, <1>11, <1>12
  DEF NNext, Write

\* Whatever writers do and wherever they are killed, every variable keeps its
\* type, and unless that was between two stores of the indices, the indices,
\* the writer's progress and the files belong together.
THEOREM ChannelSound == NSpec => []NInv
<1> QED  BY InvInit, InvNext, PTL DEF NSpec

-----------------------------------------------------------------------------
(* The window.                                                               *)

LEMMA WindowHolds == NInv => WindowWhole
<1> SUFFICES ASSUME NInv, ~half, top > 0, writer.at # "yngest"
             PROVE  /\ chn.oldest = SlotOf(OldestRecord) /\ chn.yngest = SlotOf(top)
                    /\ \A r \in OldestRecord..top :
                         hdr[SlotOf(r)] = r /\ dat[SlotOf(r)] = r
    BY DEF WindowWhole
<1>1. Shared /\ Files /\ top \in Nat /\ top > 0  BY DEF NInv, NType
<1>2. chn.yngest = SlotOf(top)  BY <1>1 DEF Shared, YngestOf, SlotOf, Place
<1>3. chn.oldest = SlotOf(OldestRecord)
  <2>1. CASE top <= Visible
    <3>1. OldestRecord = 1 /\ chn.oldest = 0  BY <1>1, <2>1 DEF OldestRecord, Shared, OldestOf
    <3>2. 0 \in Slot /\ Place(0) = 0  BY Sizes, PlaceSmall
    <3> QED  BY <3>1, <3>2 DEF SlotOf, Place
  <2>2. CASE top > Visible
    <3>1. OldestRecord - 1 = top - Visible /\ chn.oldest = Place(top - Visible)
          BY <1>1, <2>2, Sizes DEF OldestRecord, Shared, OldestOf
    <3> QED  BY <3>1 DEF SlotOf, Place
  <2> QED  BY <1>1, <2>1, <2>2, Sizes
<1>4. ASSUME NEW r \in OldestRecord..top PROVE hdr[SlotOf(r)] = r /\ dat[SlotOf(r)] = r
  <2>1. OldestRecord \in Nat /\ OldestRecord >= 1 /\ top <= (OldestRecord - 1) + Visible
        BY <1>1, Sizes DEF OldestRecord
  <2>2. r - 1 \in Nat /\ r - 1 < top /\ top <= (r - 1) + Visible /\ (r - 1) + 1 = r
        BY <1>1, <2>1, Sizes
  <2>3. Held(r - 1)  BY <1>1, <2>2 DEF Files
  <2> QED  BY <2>2, <2>3 DEF Held, Place, SlotOf
<1> QED  BY <1>2, <1>3, <1>4

\* For every size of the ring: the slots from oldest to yngest hold the newest
\* records, whole and in order, unless a writer was killed between two stores of
\* the indices.
THEOREM WindowCorrect == NSpec => []WindowWhole
<1> QED  BY ChannelSound, WindowHolds, PTL

-----------------------------------------------------------------------------
(* Time windows: the invariant.                                              *)

\* Records that will never be counted, because a writer was killed before it
\* counted them.  It may grow.
Uncounted == top - chn.count - (IF writer.at \in {"lend", "idle", "count"} THEN 1 ELSE 0)

\* A record that was once the youngest is in its slot, header and data, until
\* the header of a younger one is.
Kept(k) == /\ hdr[Place(k)] >= k + 1
           /\ hdr[Place(k)] = k + 1 => dat[Place(k)] = k + 1
KeptInv == ~half => \A k \in Nat : k < top => Kept(k)

Places == {"copy", "check", "read", "forward", "done", "abort"}
TwRecord ==
  [at : Places, todo : SUBSET Field, snap : [Field -> Int \cup Status],
   beg : {"oldest", "newest"}, continuous : BOOLEAN, count : Nat,
   endndx : Slot, nxtndx : Slot, hdr : Nat]
TwType ==
  /\ tw \in TwRecord
  /\ due \in Nat /\ skewed \in BOOLEAN

\* What thread t has copied so far.
Copied(t) ==
  /\ t.at = "check" => t.todo = {}
  /\ t.count <= chn.count
  /\ t.at \in {"copy", "check"} =>
       /\ "count" \notin t.todo => t.snap.count \in t.count..chn.count
       /\ t.count = 0 /\ "oldest" \notin t.todo => t.snap.oldest \in Slot
       /\ t.count = 0 /\ "yngest" \notin t.todo => t.snap.yngest \in Slot \cup {-1}

\* The slots from beg to end are those of the records from due to e, and the
\* count n says how many there are up to e but for some that stay uncounted.
Covers(beg, end, n, e) ==
  /\ end = Place(e - 1) /\ beg = Place(due - 1)
  /\ 1 <= due /\ due <= e /\ e < due + NRec
  /\ e - n <= Uncounted

\* The last batch ended with record e, and the next is due.
Caught(t, e) == due = e + 1 /\ t.endndx = Place(e - 1) /\ e - t.count <= Uncounted

\* The first copy found something to send.
Finds(t) == /\ t.count = 0 /\ t.at = "check" /\ t.snap.status = "idle"
            /\ t.snap.count > 0 /\ t.snap.yngest \in Slot
Begins(t) == IF t.beg = "oldest" THEN t.snap.oldest ELSE t.snap.yngest

Track(t) ==
  /\ Finds(t) => \E e \in Nat \ {0} : Covers(Begins(t), t.snap.yngest, t.snap.count, e)
  /\ t.at \in {"copy", "check"} /\ t.count > 0 => \E e \in Nat \ {0} : Caught(t, e)
  /\ t.at \in {"read", "forward"} =>
       t.count > 0 /\ \E e \in Nat \ {0} : Covers(t.nxtndx, t.endndx, t.count, e)
  /\ t.at = "forward" => t.hdr = due \/ Overwritten(due)

CopyInv == \A t : t = tw => Copied(t)
TrackInv == ~half /\ ~skewed => \A t : t = tw => Track(t)

TwInv == NInv /\ KeptInv /\ TwType /\ CopyInv /\ TrackInv

-----------------------------------------------------------------------------
(* The channel, step by step.                                                *)

LEMMA KeptInit == Init => KeptInv
BY DEF Init, KeptInv

LEMMA KeptStep == NInv /\ KeptInv /\ [NNext]_nvars => KeptInv'
<1> SUFFICES ASSUME NInv, KeptInv, [NNext]_nvars, ~half', NEW k \in Nat, k < top'
             PROVE  Kept(k)'
    BY DEF KeptInv
<1>1. /\ ~half /\ hdr \in [Slot -> Nat] /\ dat \in [Slot -> Nat] /\ top \in Nat
      /\ Place(k) \in Slot /\ Place(top) \in Slot
      BY PlaceType DEF NInv, NType, NNext, Open, Write, Begin, WriteHdr, WriteDat,
                       StoreOldest, StoreYngest, StoreLend, SetIdle, Count, WriteFails,
                       Crash, nvars
<1>2. /\ writer.at \in {"hdr", "dat"} => writer.yngest = Place(top)
      /\ writer.at = "dat" => hdr[Place(top)] = top + 1
      /\ writer.at = "yngest" => Held(top)
      BY <1>1 DEF NInv, Local, Files, YngestOf
<1>3. CASE WriteHdr
  <2>1. hdr' = [hdr EXCEPT ![Place(top)] = top + 1] /\ UNCHANGED <<dat, top>>
        BY <1>2, <1>3 DEF WriteHdr
  <2>2. Kept(k) /\ k + 1 < top + 1  BY <1>1, <2>1 DEF KeptInv
  <2> QED  BY <1>1, <2>1, <2>2 DEF Kept, Place
<1>4. CASE WriteDat
  <2>1. dat' = [dat EXCEPT ![Place(top)] = top + 1] /\ UNCHANGED <<hdr, top>>
        /\ hdr[Place(top)] = top + 1
        BY <1>2, <1>4 DEF WriteDat
  <2>2. Kept(k) /\ k + 1 < top + 1  BY <1>1, <2>1 DEF KeptInv
  <2> QED  BY <1>1, <2>1, <2>2 DEF Kept, Place
<1>5. CASE StoreYngest
  <2>1. top' = top + 1 /\ UNCHANGED <<hdr, dat>> /\ Held(top)
        BY <1>2, <1>5 DEF StoreYngest
  <2>2. CASE k = top  BY <1>1, <2>1, <2>2 DEF Kept, Held, Place
  <2>3. CASE k < top  BY <1>1, <2>1, <2>3 DEF Kept, KeptInv, Place
  <2> QED  BY <1>1, <2>1, <2>2, <2>3
<1>6. CASE UNCHANGED <<hdr, dat, top>>
  BY <1>1, <1>6 DEF Kept, KeptInv, Place
<1> QED
  BY <1>3, <1>4, <1>5, <1>6
     DEF NNext, Open, Write, Begin, StoreOldest, StoreLend, SetIdle, Count, WriteFails,
         Crash, nvars

\* A writer never takes back a count, and what it leaves uncounted stays so.
LEMMA UncountedGrows ==
  ASSUME NInv, [NNext]_nvars
  PROVE  /\ chn.count \in Nat /\ chn'.count \in Nat /\ chn.count <= chn'.count
         /\ Uncounted \in Int /\ Uncounted' \in Int /\ Uncounted <= Uncounted'
         /\ half => half'
<1>1. /\ chn \in [oldest : Slot, yngest : Slot \cup {-1}, lend : Slot,
                  status : Status, count : Nat]
      /\ top \in Nat /\ \A p \in Points : At(p).at = p
      /\ writer \in [at : Points, oldest : Slot, yngest : Slot, lend : Slot]
      BY AtType DEF NInv, NType
<1>2. CASE UNCHANGED nvars  BY <1>1, <1>2 DEF nvars, Uncounted
<1>3. CASE Open \/ WriteFails
  BY <1>1, <1>3 DEF Open, WriteFails, Uncounted, Points
<1>4. CASE Begin \/ WriteHdr \/ WriteDat \/ StoreOldest \/ StoreLend
  BY <1>1, <1>4 DEF Begin, Determine, WriteHdr, WriteDat, StoreOldest, StoreLend, Uncounted
<1>5. CASE StoreYngest  BY <1>1, <1>5 DEF StoreYngest, Uncounted
<1>6. CASE SetIdle \/ Count
  BY <1>1, <1>6 DEF SetIdle, Count, Uncounted, Points
<1>7. CASE Crash
  <2>1. chn' = chn /\ top' = top /\ writer'.at = "gone" /\ (half => half')
        BY <1>1, <1>7 DEF Crash, Points
  <2> QED  BY <1>1, <2>1 DEF Uncounted
<1> QED  BY <1>2, <1>3, <1>4, <1>5, <1>6, <1>7 DEF NNext, Write

\* What has been counted is there.
LEMMA CountedIsThere ==
  ASSUME NInv, NEW n \in Nat, n <= chn.count, NEW e \in Int, e - n <= Uncounted
  PROVE  e <= top
BY DEF NInv, NType, Uncounted

\* A record overwritten stays so.
LEMMA OverwrittenStays ==
  ASSUME NInv, [NNext]_nvars, ~half, NEW r \in Nat \ {0}, r <= top, Overwritten(r)
  PROVE  Overwritten(r)'
<1>1. hdr \in [Slot -> Nat] /\ top \in Nat /\ SlotOf(r) \in Slot
  <2>1. r - 1 \in Nat  OBVIOUS
  <2> QED  BY <2>1, PlaceType DEF NInv, NType, SlotOf, Place
<1>2. CASE WriteHdr
  <2>1. writer.yngest \in Slot /\ hdr' = [hdr EXCEPT ![writer.yngest] = top + 1]
        BY <1>2 DEF WriteHdr, NInv, NType
  <2> QED  BY <1>1, <2>1 DEF Overwritten, SlotOf
<1>3. CASE UNCHANGED hdr  BY <1>1, <1>3 DEF Overwritten, SlotOf
<1> QED
  BY <1>2, <1>3
     DEF NNext, Open, Write, Begin, WriteDat, StoreOldest, StoreYngest, StoreLend, SetIdle,
         Count, WriteFails, Crash, nvars

\* The record that is due is in its slot, or a younger one is.
LEMMA DueIsKept ==
  ASSUME NInv, KeptInv, ~half, NEW r \in Nat \ {0}, r <= top
  PROVE  /\ SlotOf(r) \in Slot /\ hdr[SlotOf(r)] \in Nat
         /\ hdr[SlotOf(r)] = r \/ Overwritten(r)
         /\ hdr[SlotOf(r)] = r => dat[SlotOf(r)] = r
<1>1. PICK k \in Nat : k = r - 1  OBVIOUS
<1>2. k < top /\ k + 1 = r /\ SlotOf(r) = Place(k)  BY <1>1 DEF NInv, NType, SlotOf, Place
<1>3. Kept(k)  BY <1>2 DEF KeptInv
<1>4. Place(k) \in Slot /\ hdr[Place(k)] \in Nat  BY PlaceType DEF NInv, NType
<1> QED  BY <1>2, <1>3, <1>4 DEF Kept, Overwritten

-----------------------------------------------------------------------------
(* The thread, while the writer takes a step.                                *)

LEMMA WriterStep ==
  ASSUME TwInv, [NNext]_nvars, UNCHANGED <<tw, due, skewed>>
  PROVE  TwInv'
<1>1. NInv' /\ KeptInv'  BY InvNext, KeptStep DEF TwInv
<1>2. TwType'  BY DEF TwInv, TwType
<1>3. /\ chn.count \in Nat /\ chn'.count \in Nat /\ chn.count <= chn'.count
      /\ Uncounted \in Int /\ Uncounted' \in Int /\ Uncounted <= Uncounted'
      /\ half => half'
      BY UncountedGrows DEF TwInv
<1>4. PICK t : t = tw  OBVIOUS
<1>5. t.count \in Nat /\ Copied(t)  BY <1>4 DEF TwInv, TwType, TwRecord, CopyInv
<1>6. Copied(t)'  BY <1>3, <1>5 DEF Copied
<1>7. CopyInv'  BY <1>4, <1>6 DEF CopyInv
<1>8. ASSUME ~half', ~skewed PROVE Track(t)'
  <2>0. /\ ~half /\ NInv /\ due \in Nat /\ t.count <= chn.count /\ Track(t)
        BY <1>3, <1>4, <1>5, <1>8 DEF TwInv, TwType, TrackInv, Copied
  <2>1. ASSUME NEW beg, NEW end, NEW n \in Nat, NEW e \in Nat \ {0}, Covers(beg, end, n, e)
        PROVE  Covers(beg, end, n, e)'
        BY <1>3, <2>1 DEF Covers, Place
  <2>2. ASSUME NEW e \in Nat \ {0}, Caught(t, e)
        PROVE  Caught(t, e)'
        BY <1>3, <1>5, <2>2 DEF Caught, Place
  <2>3. Finds(t) => t.snap.count \in Nat  BY <1>3, <1>5 DEF Finds, Copied
  <2>4. t.at = "forward" => t.hdr = due \/ Overwritten(due)'
    <3> SUFFICES ASSUME t.at = "forward", Overwritten(due) PROVE Overwritten(due)'
        BY <2>0 DEF Track
    <3>1. PICK e \in Nat \ {0} : Covers(t.nxtndx, t.endndx, t.count, e)
          BY <2>0 DEF Track
    <3>2. due \in Nat \ {0} /\ due <= e /\ e - t.count <= Uncounted
          BY <2>0, <3>1 DEF Covers
    <3>3. e <= top  BY <1>5, <2>0, <3>1, <3>2, CountedIsThere
    <3>4. due <= top  BY <2>0, <3>2, <3>3 DEF NInv, NType
    <3>5. PICK r \in Nat \ {0} : r = due  BY <3>2
    <3> QED  BY <2>0, <3>4, <3>5, OverwrittenStays
  <2> QED  BY <1>5, <2>0, <2>1, <2>2, <2>3, <2>4 DEF Track, Finds
<1>9. TrackInv'  BY <1>4, <1>8 DEF TrackInv
<1> QED  BY <1>1, <1>2, <1>7, <1>9 DEF TwInv

-----------------------------------------------------------------------------
(* The thread's own steps.                                                   *)

\* What they leave alone.
LEMMA ThreadKeeps ==
  ASSUME TwInv, WriterKeeps
  PROVE  /\ NInv' /\ KeptInv' /\ Uncounted' = Uncounted
         /\ UNCHANGED <<chn, hdr, dat, writer, top, half>>
<1>1. UNCHANGED <<chn, hdr, dat, writer, top, half>>  BY DEF WriterKeeps, nvars
<1>2. [NNext]_nvars  BY DEF WriterKeeps
<1>3. NInv' /\ KeptInv'  BY <1>2, InvNext, KeptStep DEF TwInv
<1> QED  BY <1>1, <1>3 DEF Uncounted

\* It is enough to look at the thread's next record.
LEMMA ThreadStep ==
  ASSUME TwInv, WriterKeeps, TwType',
         NEW d, tw' = d, Copied(d), ~half /\ ~skewed' => Track(d)'
  PROVE  TwInv'
<1>1. NInv' /\ KeptInv' /\ UNCHANGED <<chn, half>>  BY ThreadKeeps
<1>2. CopyInv'  BY <1>1 DEF CopyInv, Copied
<1>3. TrackInv'  BY <1>1 DEF TrackInv
<1> QED  BY <1>1, <1>2, <1>3 DEF TwInv

\* Looking again, or no more.
LEMMA LooksAgain ==
  ASSUME NInv, NEW t \in TwRecord, NEW d, Copied(t),
         d = LookAgain(t) \/ \E how \in {"done", "abort"} : d = Ends(t, how)
  PROVE  /\ d \in TwRecord
         /\ Copied(d)
         /\ \/ d.at = "copy" /\ d.count = t.count /\ d.endndx = t.endndx
            \/ d.at \in {"done", "abort"}
<1>1. 0 \in Slot /\ NoCopy \in [Field -> Int \cup Status] /\ chn.count \in Nat
      BY Sizes DEF NoCopy, NInv, NType
<1>2. /\ Wanted(t) \in SUBSET Field /\ "count" \in Wanted(t)
      /\ t.count = 0 => Wanted(t) = Field
      BY DEF Wanted, Field
<1>3. PICK l : l = LookAgain(t)  OBVIOUS
<1>4. /\ l \in TwRecord /\ l.at = "copy" /\ l.count = t.count /\ l.endndx = t.endndx
      /\ l.todo = Wanted(t)
      BY <1>1, <1>2, <1>3 DEF LookAgain, TwRecord, Places
<1>5. Copied(l)  BY <1>2, <1>4 DEF Copied, Field
<1>6. ASSUME NEW how \in {"done", "abort"}, d = Ends(t, how)
      PROVE  d \in TwRecord /\ Copied(d) /\ d.at \in {"done", "abort"}
  <2>1. d = [l EXCEPT !.at = how, !.count = 0, !.endndx = 0]  BY <1>3, <1>6 DEF Ends
  <2>2. how \in Places /\ 0 \in Nat  BY <1>6 DEF Places
  <2>3. d \in TwRecord  BY ONLY <1>1, <1>4, <2>1, <2>2 DEF TwRecord
  <2>4. d.at = how /\ d.count = 0  BY ONLY <1>4, <2>1 DEF TwRecord
  <2> QED  BY <1>1, <1>6, <2>2, <2>3, <2>4 DEF Copied
<1> QED  BY <1>3, <1>4, <1>5, <1>6

\* A field of the entry, and with the last one what there is to send.
LEMMA CopyStep == ASSUME TwInv, NEW f \in Field, Copy(f) PROVE TwInv'
<1>1. PICK t \in TwRecord : t = tw  BY DEF TwInv, TwType
<1>2. PICK v : v = chn[f]  OBVIOUS
<1>3. PICK snap : snap = [t.snap EXCEPT ![f] = v]  OBVIOUS
<1>4. PICK d : d = [t EXCEPT !.snap = snap, !.todo = @ \ {f},
                              !.at = IF t.todo = {f} THEN "check" ELSE "copy"]
      OBVIOUS
<1>5. /\ t.at = "copy" /\ f \in t.todo /\ tw' = d /\ WriterKeeps
      /\ IF t.todo = {f} /\ t.count = 0 /\ snap.status = "idle" /\ snap.count > 0
           THEN /\ skewed' = ~Agrees(snap)
                /\ due' = IF snap.yngest \in Slot THEN hdr[First(snap)] ELSE 0
           ELSE UNCHANGED <<skewed, due>>
      BY <1>1, <1>2, <1>3, <1>4 DEF Copy
<1>6. /\ chn \in [oldest : Slot, yngest : Slot \cup {-1}, lend : Slot,
                  status : Status, count : Nat]
      /\ hdr \in [Slot -> Nat] /\ due \in Nat /\ skewed \in BOOLEAN
      BY DEF TwInv, NInv, NType, TwType
<1>7. v \in Int \cup Status
  <2>1. f \in {"oldest", "yngest", "status", "count"}  BY DEF Field
  <2> QED  BY <1>2, <1>6, <2>1, Sizes
<1>8. /\ t.snap \in [Field -> Int \cup Status] /\ snap \in [Field -> Int \cup Status]
      /\ snap[f] = v /\ \A g \in Field : g # f => snap[g] = t.snap[g]
      BY <1>3, <1>7 DEF TwRecord
<1>9. /\ d \in TwRecord /\ d.snap = snap /\ d.todo = t.todo \ {f}
      /\ d.at = (IF t.todo = {f} THEN "check" ELSE "copy")
      /\ d.count = t.count /\ d.endndx = t.endndx /\ d.beg = t.beg
      BY <1>4, <1>8 DEF TwRecord, Places
<1>10. /\ snap.count = (IF f = "count" THEN chn.count ELSE t.snap.count)
       /\ snap.oldest = (IF f = "oldest" THEN chn.oldest ELSE t.snap.oldest)
       /\ snap.yngest = (IF f = "yngest" THEN chn.yngest ELSE t.snap.yngest)
       BY <1>2, <1>8 DEF Field
<1>11. Copied(t) /\ t.count \in Nat  BY <1>1 DEF TwInv, CopyInv, TwRecord
<1>12. Copied(d)
  <2>1. d.at = "check" => d.todo = {}  BY <1>9
  <2>2. "count" \notin d.todo => d.snap.count \in d.count..chn.count
        BY <1>5, <1>6, <1>9, <1>10, <1>11 DEF Copied
  <2>3. d.count = 0 /\ "oldest" \notin d.todo => d.snap.oldest \in Slot
        BY <1>5, <1>6, <1>9, <1>10, <1>11 DEF Copied
  <2>4. d.count = 0 /\ "yngest" \notin d.todo => d.snap.yngest \in Slot \cup {-1}
        BY <1>5, <1>6, <1>9, <1>10, <1>11 DEF Copied
  <2> QED  BY <1>9, <1>11, <2>1, <2>2, <2>3, <2>4 DEF Copied
<1>13. First(snap) = Begins(d)  BY <1>1, <1>9 DEF First, Begins
<1>14. snap.yngest \in Slot /\ d.at = "check" /\ d.count = 0 => Begins(d) \in Slot
       BY <1>9, <1>12 DEF Copied, Begins
<1>15. TwType'
  <2> DEFINE last == t.todo = {f} /\ t.count = 0 /\ snap.status = "idle" /\ snap.count > 0
  <2>1. CASE last
    <3>1. skewed' = ~Agrees(snap) /\ due' = IF snap.yngest \in Slot THEN hdr[Begins(d)] ELSE 0
          BY <1>5, <1>13, <2>1
    <3>2. snap.yngest \in Slot => Begins(d) \in Slot  BY <1>9, <1>14, <2>1
    <3>3. due' \in Nat  BY <1>6, <3>1, <3>2
    <3>4. skewed' \in BOOLEAN  BY ZenonT(30), <3>1
    <3> QED  BY <1>5, <1>9, <3>3, <3>4 DEF TwType
  <2>2. CASE ~last
    <3>1. skewed' = skewed /\ due' = due  BY <1>5, <2>2
    <3> QED  BY <1>5, <1>6, <1>9, <3>1 DEF TwType
  <2> QED  BY <2>1, <2>2
<1>16. ASSUME ~half, ~skewed' PROVE Track(d)'
  <2>1. UNCHANGED <<chn, hdr, top, writer>> /\ Uncounted' = Uncounted  BY <1>5, ThreadKeeps
  <2>2. ASSUME Finds(d)
        PROVE  \E e \in Nat \ {0} : Covers(Begins(d), d.snap.yngest, d.snap.count, e)'
    <3>1. /\ Agrees(snap) /\ due' = hdr[Begins(d)]
          BY <1>5, <1>9, <1>13, <1>16, <2>2 DEF Finds
    <3>2. /\ Shared /\ Files /\ top \in Nat /\ NInv  BY <1>16 DEF TwInv, NInv, NType
    <3>3. /\ chn.yngest = YngestOf(top) /\ chn.oldest = OldestOf(top)
          /\ d.snap.oldest = chn.oldest /\ d.snap.yngest = chn.yngest
          /\ d.snap.count = chn.count
          /\ Uncounted = top - chn.count
      <4>1. /\ snap.oldest = chn.oldest /\ snap.yngest = chn.yngest /\ snap.count = chn.count
            /\ writer.at \notin {"yngest", "lend", "idle", "count"}
            BY <3>1 DEF Agrees
      <4>2. chn.yngest = YngestOf(top) /\ chn.oldest = OldestOf(top)
            BY <3>2, <4>1 DEF Shared
      <4>3. Uncounted = top - chn.count  BY <1>6, <3>2, <4>1 DEF Uncounted
      <4> QED  BY <1>9, <4>1, <4>2, <4>3
    <3>4. top # 0 /\ chn.yngest = Place(top - 1)
          BY <1>9, <2>2, <3>3, Sizes DEF Finds, YngestOf
    <3>5. PICK k \in Nat : /\ k < top /\ top <= k + Visible /\ Begins(d) = Place(k)
      <4>1. CASE d.beg = "newest"
        <5>1. Begins(d) = Place(top - 1)  BY <3>3, <3>4, <4>1 DEF Begins
        <5>2. top - 1 \in Nat /\ top - 1 < top /\ top <= (top - 1) + Visible
              BY <3>2, <3>4, Sizes
        <5> QED  BY <5>1, <5>2
      <4>2. CASE d.beg = "oldest" /\ top <= Visible
        <5>1. Begins(d) = chn.oldest /\ chn.oldest = 0  BY <3>3, <4>2 DEF Begins, OldestOf
        <5>2. 0 \in Slot  BY Sizes
        <5>3. Place(0) = 0  BY <5>2, PlaceSmall
        <5>4. 0 \in Nat /\ 0 < top /\ top <= 0 + Visible  BY <3>2, <3>4, <4>2, Sizes
        <5> QED  BY <5>1, <5>3, <5>4
      <4>3. CASE d.beg = "oldest" /\ top > Visible
        <5>1. Begins(d) = Place(top - Visible)
          <6>1. Begins(d) = chn.oldest  BY <3>3, <4>3 DEF Begins
          <6>2. ~(top <= Visible)  BY <3>2, <4>3, Sizes
          <6> QED  BY <3>3, <6>1, <6>2 DEF OldestOf
        <5>2. top - Visible \in Nat /\ top - Visible < top /\ top <= (top - Visible) + Visible
              BY <3>2, <4>3, Sizes
        <5> QED  BY <5>1, <5>2
      <4>4. d.beg \in {"oldest", "newest"}  BY <1>9 DEF TwRecord
      <4> QED  BY <3>2, <4>1, <4>2, <4>3, <4>4, Sizes
    <3>6. due' = k + 1  BY <3>1, <3>2, <3>5 DEF Files, Held
    <3>7. /\ due' - 1 = k /\ 1 <= due' /\ due' <= top /\ top < due' + NRec
          BY <3>2, <3>5, <3>6, Sizes
    <3>8. Covers(Begins(d), d.snap.yngest, d.snap.count, top)'
          BY <2>1, <3>3, <3>4, <3>5, <3>7 DEF Covers, Place
    <3> QED  BY <2>1, <3>2, <3>4, <3>8
  <2>3. ASSUME d.count > 0 PROVE \E e \in Nat \ {0} : Caught(d, e)'
    <3>1. t.count > 0 /\ ~skewed /\ due' = due  BY <1>5, <1>9, <1>11, <1>16, <2>3
    <3>2. Track(t)  BY <1>1, <1>16, <3>1 DEF TwInv, TrackInv
    <3>3. PICK e \in Nat \ {0} : Caught(t, e)  BY <1>5, <3>1, <3>2 DEF Track
    <3>4. Caught(d, e)'  BY <1>9, <2>1, <3>1, <3>3 DEF Caught, Place
    <3> QED  BY <3>4
  <2> QED  BY <1>9, <2>2, <2>3 DEF Track, Finds
<1> QED  BY <1>5, <1>12, <1>15, <1>16, ThreadStep

\* The reader's way of stepping to the next slot is the writer's.
LEMMA NextIsAfter == ASSUME NEW i \in Slot PROVE (i + 1) % NRec = After(i)
<1>1. i \in Nat /\ Place(i) = i  BY Sizes, PlaceSmall
<1>2. After(Place(i)) = Place(i + 1)  BY <1>1, AfterPlace
<1> QED  BY <1>1, <1>2 DEF Place

\* Nothing is known of a thread that has nothing to send, and what was known of
\* one that looks again stays.
LEMMA LooksOn ==
  ASSUME TwInv, WriterKeeps, UNCHANGED skewed, due' \in Nat,
         NEW t \in TwRecord, t = tw, NEW d, tw' = d,
         d = LookAgain(t) \/ \E how \in {"done", "abort"} : d = Ends(t, how),
         ~half /\ ~skewed /\ t.count > 0 => \E e \in Nat \ {0} : Caught(t, e)'
  PROVE  TwInv'
<1>1. /\ d \in TwRecord /\ Copied(d)
      /\ \/ d.at = "copy" /\ d.count = t.count /\ d.endndx = t.endndx
         \/ d.at \in {"done", "abort"}
  <2>1. NInv /\ Copied(t)  BY DEF TwInv, CopyInv
  <2> QED  BY <2>1, LooksAgain
<1>2. TwType'  BY <1>1 DEF TwInv, TwType
<1>3. ASSUME ~half, ~skewed PROVE Track(d)'
  <2>1. CASE d.at \in {"done", "abort"}  BY <2>1 DEF Track, Finds
  <2>2. CASE d.at = "copy" /\ d.count = t.count /\ d.endndx = t.endndx
    <3>1. \A e \in Nat : Caught(t, e)' => Caught(d, e)'  BY <2>2 DEF Caught, Place
    <3>2. d.count > 0 => \E e \in Nat \ {0} : Caught(d, e)'  BY <1>3, <2>2, <3>1
    <3> QED  BY <2>2, <3>2 DEF Track, Finds
  <2> QED  BY <1>1, <2>1, <2>2
<1> QED  BY <1>1, <1>2, <1>3, ThreadStep

\* The thread starts on a batch.
LEMMA BatchStep ==
  ASSUME TwInv, WriterKeeps, UNCHANGED <<due, skewed>>,
         NEW beg \in Slot, NEW end \in Slot, Batch(beg, end),
         tw.snap.count \in 1..chn.count,
         ~half /\ ~skewed => \E e \in Nat \ {0} : Covers(beg, end, tw.snap.count, e)
  PROVE  TwInv'
<1>1. PICK t \in TwRecord : t = tw  BY DEF TwInv, TwType
<1>2. PICK n : n = t.snap.count  OBVIOUS
<1>3. chn.count \in Nat /\ n \in Nat /\ n > 0 /\ n <= chn.count
      BY <1>1, <1>2 DEF TwInv, NInv, NType
<1>4. PICK d : d = [t EXCEPT !.at = "read", !.endndx = end, !.nxtndx = beg, !.snap = NoCopy,
                             !.count = n]
      OBVIOUS
<1>5. tw' = d  BY <1>1, <1>2, <1>4 DEF Batch
<1>6. NoCopy \in [Field -> Int \cup Status]  BY DEF NoCopy
<1>7. /\ d \in TwRecord /\ d.at = "read" /\ d.endndx = end /\ d.nxtndx = beg /\ d.count = n
      BY ONLY <1>1, <1>3, <1>4, <1>6, beg \in Slot, end \in Slot DEF TwRecord, Places
<1>8. TwType'  BY <1>5, <1>7 DEF TwInv, TwType
<1>9. Copied(d)  BY <1>3, <1>7 DEF Copied
<1>10. ASSUME ~half, ~skewed' PROVE Track(d)'
  <2>1. PICK e \in Nat \ {0} : Covers(beg, end, n, e)  BY <1>1, <1>2, <1>10
  <2>2. Uncounted' = Uncounted  BY ThreadKeeps
  <2>3. Covers(d.nxtndx, d.endndx, d.count, e)'  BY <1>7, <2>1, <2>2 DEF Covers, Place
  <2> QED  BY <1>3, <1>7, <2>3 DEF Track, Finds
<1> QED  BY <1>5, <1>8, <1>9, <1>10, ThreadStep

LEMMA CheckStep == ASSUME TwInv, CheckDiskLoop PROVE TwInv'
<1>1. PICK t \in TwRecord : t = tw  BY DEF TwInv, TwType
<1>2. PICK snap : snap = t.snap  OBVIOUS
<1>3. PICK newrec : newrec = snap.count - t.count  OBVIOUS
<1>4. PICK next : next = (t.endndx + 1) % NRec  OBVIOUS
<1>5. /\ t.at = "check" /\ WriterKeeps /\ UNCHANGED <<due, skewed>>
      /\ \/ tw' = LookAgain(t)
         \/ \E how \in {"done", "abort"} : tw' = Ends(t, how)
         \/ /\ snap.status = "idle" /\ t.count > 0 /\ newrec \in 0..NRec /\ newrec > 0
            /\ Batch(next, (next + newrec - 1) % NRec)
         \/ /\ snap.status = "idle" /\ t.count = 0 /\ snap.count > 0 /\ snap.yngest >= 0
            /\ Batch(Begins(t), snap.yngest)
      BY <1>1, <1>2, <1>3, <1>4 DEF CheckDiskLoop, Idle, New, Waits, First, Begins
<1>6. /\ chn.count \in Nat /\ t.count \in Nat /\ t.endndx \in Slot /\ due \in Nat
      /\ t.beg \in {"oldest", "newest"}
      BY DEF TwInv, NInv, NType, TwType, TwRecord
<1>7. /\ snap.count \in t.count..chn.count
      /\ t.count = 0 => snap.oldest \in Slot /\ snap.yngest \in Slot \cup {-1}
      BY <1>1, <1>2, <1>5 DEF TwInv, CopyInv, Copied
<1>8. ASSUME ~half, ~skewed, t.count > 0 PROVE \E e \in Nat \ {0} : Caught(t, e)
      BY <1>1, <1>5, <1>8 DEF TwInv, TrackInv, Track
<1>9. CASE tw' = LookAgain(t) \/ \E how \in {"done", "abort"} : tw' = Ends(t, how)
  <2>1. ASSUME NEW e \in Nat \ {0}, Caught(t, e) PROVE Caught(t, e)'
    <3>1. Uncounted' = Uncounted /\ due' = due  BY <1>5, ThreadKeeps
    <3> QED  BY <2>1, <3>1 DEF Caught, Place
  <2>2. ~half /\ ~skewed /\ t.count > 0 => \E e \in Nat \ {0} : Caught(t, e)'
        BY <1>8, <2>1
  <2>3. due' \in Nat /\ skewed' = skewed  BY <1>5, <1>6
  <2>4. PICK d : d = tw'  OBVIOUS
  <2> QED  BY <1>1, <1>5, <1>9, <2>2, <2>3, <2>4, LooksOn
<1>10. ASSUME snap.status = "idle", t.count > 0, newrec \in 0..NRec, newrec > 0,
              Batch(next, (next + newrec - 1) % NRec)
       PROVE  TwInv'
  <2>1. newrec \in Nat /\ 1 <= newrec /\ newrec <= NRec /\ snap.count = t.count + newrec
        /\ snap.count \in Nat
        BY <1>3, <1>6, <1>7, <1>10, Sizes
  <2>2. next \in Slot
    <3>1. t.endndx + 1 \in Nat  BY <1>6, Sizes
    <3> QED  BY <1>4, <3>1, Sizes, ModRange
  <2>3. PICK end : end = (next + newrec - 1) % NRec  OBVIOUS
  <2>4. end \in Slot
    <3>1. next + newrec - 1 \in Nat  BY <2>1, <2>2, Sizes
    <3> QED  BY <2>3, <3>1, Sizes, ModRange
  <2>5. ASSUME NEW e \in Nat \ {0}, Caught(t, e)
        PROVE  \E g \in Nat \ {0} : Covers(next, end, snap.count, g)
    <3>1. due = e + 1 /\ t.endndx = Place(e - 1) /\ e - t.count <= Uncounted
          BY <2>5 DEF Caught
    <3>2. e - 1 \in Nat /\ (e - 1) + 1 = e  OBVIOUS
    <3>3. next = Place(e)
      <4>1. Place((e - 1) + 1) = After(Place(e - 1))  BY <3>2, AfterPlace
      <4>2. next = After(t.endndx)  BY <1>4, <1>6, NextIsAfter
      <4> QED  BY <3>1, <3>2, <4>1, <4>2
    <3>4. end = Place(e + newrec - 1)
      <4>1. PICK k : k = newrec - 1  OBVIOUS
      <4>2. k \in Nat /\ next + newrec - 1 = Place(e) + k /\ e + newrec - 1 = e + k
            BY <2>1, <2>2, <3>3, <4>1, Sizes
      <4>3. k \in 0..NRec /\ e \in Nat  BY <2>1, <4>1, Sizes
      <4>4. ((e % NRec) + k) % NRec = (e + k) % NRec  BY <4>3, Sizes, ModMod
      <4> QED  BY <2>3, <4>2, <4>4 DEF Place
    <3>5. PICK g : g = e + newrec  OBVIOUS
    <3>6. /\ g \in Nat \ {0} /\ due <= g /\ g < due + NRec /\ due - 1 = e /\ 1 <= due
          /\ g - 1 = e + newrec - 1 /\ g - snap.count = e - t.count
          BY <1>6, <2>1, <3>1, <3>5, Sizes
    <3>7. Covers(next, end, snap.count, g)  BY <3>1, <3>3, <3>4, <3>6 DEF Covers
    <3> QED  BY <3>6, <3>7
  <2>6. ~half /\ ~skewed => \E g \in Nat \ {0} : Covers(next, end, snap.count, g)
        BY <1>8, <1>10, <2>5
  <2>7. snap.count \in 1..chn.count  BY <1>6, <1>7, <2>1
  <2> QED  BY <1>1, <1>2, <1>5, <1>10, <2>2, <2>3, <2>4, <2>6, <2>7, BatchStep
<1>11. ASSUME snap.status = "idle", t.count = 0, snap.count > 0, snap.yngest >= 0,
              Batch(Begins(t), snap.yngest)
       PROVE  TwInv'
  <2>1. snap.yngest \in Slot /\ Begins(t) \in Slot /\ snap.count \in 1..chn.count
    <3>1. snap.yngest \in Slot  BY <1>7, <1>11
    <3> QED  BY <1>2, <1>6, <1>7, <1>11, <3>1 DEF Begins
  <2>2. ~half /\ ~skewed => \E e \in Nat \ {0} : Covers(Begins(t), snap.yngest, snap.count, e)
        BY <1>1, <1>2, <1>5, <1>11, <2>1 DEF TwInv, TrackInv, Track, Finds
  <2> QED  BY <1>1, <1>2, <1>5, <1>11, <2>1, <2>2, BatchStep
<1> QED  BY <1>5, <1>9, <1>10, <1>11

LEMMA ReadHdrStep == ASSUME TwInv, ReadHdr PROVE TwInv'
<1>1. PICK t \in TwRecord : t = tw  BY DEF TwInv, TwType
<1>2. /\ hdr \in [Slot -> Nat] /\ t.nxtndx \in Slot /\ t.count \in Nat /\ due \in Nat
      /\ skewed \in BOOLEAN
      BY DEF TwInv, NInv, NType, TwType, TwRecord
<1>3. PICK h \in Nat : h = hdr[t.nxtndx]  BY <1>2
<1>4. PICK d : d = [t EXCEPT !.at = "forward", !.hdr = h]  OBVIOUS
<1>5. t.at = "read" /\ tw' = d /\ WriterKeeps /\ UNCHANGED <<due, skewed>>
      BY <1>1, <1>3, <1>4 DEF ReadHdr
<1>6. /\ d \in TwRecord /\ d.at = "forward" /\ d.hdr = h /\ d.count = t.count
      /\ d.nxtndx = t.nxtndx /\ d.endndx = t.endndx
      BY <1>3, <1>4 DEF TwRecord, Places
<1>7. TwType'  BY <1>2, <1>5, <1>6 DEF TwType
<1>8. Copied(d)  BY <1>1, <1>6 DEF TwInv, CopyInv, Copied
<1>9. ASSUME ~half, ~skewed' PROVE Track(d)'
  <2>1. PICK e \in Nat \ {0} : Covers(t.nxtndx, t.endndx, t.count, e)
        BY <1>1, <1>5, <1>9 DEF TwInv, TrackInv, Track
  <2>2. t.count > 0 /\ t.count <= chn.count
        BY <1>1, <1>5, <1>9 DEF TwInv, TrackInv, Track, CopyInv, Copied
  <2>3. UNCHANGED <<hdr, due>> /\ Uncounted' = Uncounted  BY <1>5, ThreadKeeps
  <2>4. Covers(d.nxtndx, d.endndx, d.count, e)'  BY <1>6, <2>1, <2>3 DEF Covers, Place
  <2>5. due \in Nat \ {0} /\ due <= e /\ e - t.count <= Uncounted /\ t.nxtndx = SlotOf(due)
        BY <1>2, <2>1 DEF Covers, SlotOf, Place
  <2>6. e <= top  BY <1>2, <2>2, <2>5, CountedIsThere DEF TwInv
  <2>7. due <= top  BY <1>2, <2>5, <2>6 DEF TwInv, NInv, NType
  <2>8. PICK r \in Nat \ {0} : r = due  BY <2>5
  <2>9. hdr[SlotOf(r)] = r \/ Overwritten(r)
        BY <1>9, <2>7, <2>8, DueIsKept DEF TwInv
  <2>10. d.hdr = due' \/ Overwritten(due)'
         BY <1>3, <1>6, <2>3, <2>5, <2>8, <2>9 DEF Overwritten, SlotOf
  <2> QED  BY <1>2, <1>6, <2>2, <2>4, <2>10 DEF Track, Finds
<1> QED  BY <1>5, <1>7, <1>8, <1>9, ThreadStep

LEMMA ForwardStep == ASSUME TwInv, Forward PROVE TwInv'
<1>1. PICK t \in TwRecord : t = tw  BY DEF TwInv, TwType
<1>2. /\ t.at = "forward" /\ WriterKeeps /\ UNCHANGED skewed
      /\ \/ tw' = Ends(t, "abort") /\ due' = due
         \/ due' = due + 1 /\ t.nxtndx = t.endndx /\ tw' = Waits(t)
         \/ /\ due' = due + 1 /\ t.nxtndx # t.endndx
            /\ tw' = [t EXCEPT !.at = "read", !.nxtndx = NextSlot(@), !.hdr = 0]
      BY <1>1 DEF Forward
<1>3. /\ t.nxtndx \in Slot /\ t.count \in Nat /\ due \in Nat /\ skewed \in BOOLEAN
      /\ due' \in Nat
      BY <1>2 DEF TwInv, TwType, TwRecord
<1>4. Uncounted' = Uncounted  BY <1>2, ThreadKeeps
<1>5. ASSUME ~half, ~skewed
      PROVE  t.count > 0 /\ \E e \in Nat \ {0} : Covers(t.nxtndx, t.endndx, t.count, e)
      BY <1>1, <1>2, <1>5 DEF TwInv, TrackInv, Track
<1>6. ASSUME NEW e \in Nat \ {0}, Covers(t.nxtndx, t.endndx, t.count, e)
      PROVE  /\ due - 1 \in Nat /\ e - 1 \in Nat /\ 1 <= due /\ due <= e /\ e < due + NRec
             /\ t.nxtndx = Place(due - 1) /\ t.endndx = Place(e - 1)
             /\ e - t.count <= Uncounted
      BY <1>3, <1>6 DEF Covers
<1>7. CASE tw' = Ends(t, "abort") /\ due' = due
  <2>1. PICK d : d = tw'  OBVIOUS
  <2>2. d = Ends(t, "abort")  BY <1>7, <2>1
  <2>3. d \in TwRecord /\ Copied(d) /\ d.at \in {"done", "abort"}
    <3>1. NInv /\ Copied(t)  BY <1>1 DEF TwInv, CopyInv
    <3>2. d.at = "abort"  BY <2>2 DEF Ends, LookAgain, TwRecord
    <3> QED  BY <2>2, <3>1, <3>2, LooksAgain
  <2>4. TwType'  BY <1>2, <1>3, <2>1, <2>3 DEF TwType
  <2>5. Track(d)'  BY <2>3 DEF Track, Finds
  <2> QED  BY <1>2, <2>1, <2>3, <2>4, <2>5, ThreadStep
<1>8. CASE due' = due + 1 /\ t.nxtndx = t.endndx /\ tw' = Waits(t)
  <2>1. PICK d : d = tw'  OBVIOUS
  <2>2. d = LookAgain(t) \/ \E how \in {"done", "abort"} : d = Ends(t, how)
        BY <1>8, <2>1 DEF Waits
  <2>3. ASSUME ~half, ~skewed PROVE \E e \in Nat \ {0} : Caught(t, e)'
    <3>1. PICK e \in Nat \ {0} : Covers(t.nxtndx, t.endndx, t.count, e)  BY <1>5, <2>3
    <3>2. /\ due - 1 \in Nat /\ e - 1 \in Nat /\ due <= e /\ e < due + NRec
          /\ Place(due - 1) = Place(e - 1) /\ t.endndx = Place(e - 1)
          /\ e - t.count <= Uncounted
          BY <1>6, <1>8, <3>1
    <3>3. due = e
      <4>1. ~(due - 1 < e - 1 /\ e - 1 < (due - 1) + NRec)  BY <3>2, PlaceApart
      <4> QED  BY <1>3, <3>2, <4>1, Sizes
    <3> QED  BY <1>4, <1>8, <3>2, <3>3 DEF Caught, Place
  <2> QED  BY <1>1, <1>2, <1>3, <2>1, <2>2, <2>3, LooksOn
<1>9. ASSUME due' = due + 1, t.nxtndx # t.endndx,
             tw' = [t EXCEPT !.at = "read", !.nxtndx = NextSlot(@), !.hdr = 0]
      PROVE  TwInv'
  <2>1. PICK s : s = NextSlot(t.nxtndx)  OBVIOUS
  <2>2. s \in Slot /\ s = After(t.nxtndx)
        BY <1>3, <2>1, Sizes, NextIsAfter, AfterType DEF NextSlot
  <2>3. PICK d : d = [t EXCEPT !.at = "read", !.nxtndx = s, !.hdr = 0]  OBVIOUS
  <2>4. tw' = d  BY <1>9, <2>1, <2>3
  <2>5. /\ d \in TwRecord /\ d.at = "read" /\ d.nxtndx = s /\ d.endndx = t.endndx
        /\ d.count = t.count
        BY <2>2, <2>3 DEF TwRecord, Places
  <2>6. TwType'  BY <1>2, <1>3, <2>4, <2>5 DEF TwType
  <2>7. Copied(d)  BY <1>1, <2>5 DEF TwInv, CopyInv, Copied
  <2>8. ASSUME ~half, ~skewed PROVE Track(d)'
    <3>1. PICK e \in Nat \ {0} : Covers(t.nxtndx, t.endndx, t.count, e)  BY <1>5, <2>8
    <3>2. /\ due - 1 \in Nat /\ e - 1 \in Nat /\ 1 <= due /\ due <= e /\ e < due + NRec
          /\ t.nxtndx = Place(due - 1) /\ t.endndx = Place(e - 1)
          /\ e - t.count <= Uncounted
          BY <1>6, <3>1
    <3>3. due # e  BY <1>9, <3>2
    <3>4. s = Place((due - 1) + 1)  BY <2>2, <3>2, AfterPlace
    <3>5. /\ due' - 1 = (due - 1) + 1 /\ 1 <= due' /\ due' <= e /\ e < due' + NRec
      <4>1. due' = due + 1 /\ due \in Nat  BY <1>3, <1>9
      <4>2. due + 1 <= e  BY <1>3, <3>2, <3>3
      <4> QED  BY <3>2, <4>1, <4>2, Sizes
    <3>6. Covers(d.nxtndx, d.endndx, d.count, e)'
          BY <1>4, <2>5, <3>2, <3>4, <3>5 DEF Covers, Place
    <3> QED  BY <1>5, <2>5, <2>8, <3>6 DEF Track, Finds
  <2> QED  BY <1>2, <2>4, <2>6, <2>7, <2>8, ThreadStep
<1> QED  BY <1>2, <1>7, <1>8, <1>9

-----------------------------------------------------------------------------
(* What the client gets.                                                     *)

LEMMA TwInit == TInit => TwInv
<1> SUFFICES ASSUME TInit PROVE TwInv  OBVIOUS
<1>1. NInv /\ KeptInv  BY InvInit, KeptInit DEF TInit
<1>2. PICK q \in Requests :
        tw = [at |-> "copy", todo |-> Field, snap |-> NoCopy, beg |-> q.beg,
              continuous |-> q.continuous, count |-> 0, endndx |-> 0, nxtndx |-> 0,
              hdr |-> 0]
      BY DEF TInit
<1>3. q.beg \in {"oldest", "newest"} /\ q.continuous \in BOOLEAN  BY RequestAssumption
<1>4. 0 \in Slot /\ 0 <= chn.count /\ NoCopy \in [Field -> Int \cup Status]
      BY <1>1, Sizes DEF NoCopy, NInv, NType
<1>5. tw \in TwRecord  BY <1>2, <1>3, <1>4 DEF TwRecord, Places
<1>6. TwType  BY <1>5 DEF TwType, TInit
<1>7. Copied(tw)  BY <1>2, <1>4 DEF Copied, Field
<1>8. Track(tw)  BY <1>2 DEF Track, Finds
<1> QED  BY <1>1, <1>6, <1>7, <1>8 DEF TwInv, CopyInv, TrackInv

LEMMA TwNext == TwInv /\ [TNext]_tvars => TwInv'
<1> SUFFICES ASSUME TwInv, [TNext]_tvars PROVE TwInv'  OBVIOUS
<1>1. CASE NNext /\ UNCHANGED <<tw, due, skewed>>  BY <1>1, WriterStep
<1>2. CASE UNCHANGED tvars  BY <1>2, WriterStep DEF tvars
<1>3. ASSUME NEW f \in Field, Copy(f) PROVE TwInv'  BY <1>3, CopyStep
<1>4. CASE CheckDiskLoop  BY <1>4, CheckStep
<1>5. CASE ReadHdr  BY <1>5, ReadHdrStep
<1>6. CASE Forward  BY <1>6, ForwardStep
<1> QED  BY <1>1, <1>2, <1>3, <1>4, <1>5, <1>6 DEF TNext, TReads

LEMMA SentIsDue ==
  ASSUME TwInv, tw.at = "forward"
  PROVE  \/ tw.hdr = due /\ dat[tw.nxtndx] = due
         \/ skewed \/ half \/ Overwritten(due)
<1> SUFFICES ASSUME ~skewed, ~half, ~Overwritten(due)
             PROVE  tw.hdr = due /\ dat[tw.nxtndx] = due
    OBVIOUS
<1>1. PICK t \in TwRecord : t = tw  BY DEF TwInv, TwType
<1>2. /\ t.count \in Nat /\ due \in Nat /\ t.count <= chn.count /\ Track(t)
      BY <1>1 DEF TwInv, TwType, TwRecord, CopyInv, Copied, TrackInv
<1>3. t.hdr = due  BY <1>1, <1>2 DEF Track
<1>4. PICK e \in Nat \ {0} : Covers(t.nxtndx, t.endndx, t.count, e)  BY <1>1, <1>2 DEF Track
<1>5. due \in Nat \ {0} /\ due <= e /\ e - t.count <= Uncounted /\ t.nxtndx = SlotOf(due)
      BY <1>2, <1>4 DEF Covers, SlotOf, Place
<1>6. e <= top  BY <1>2, <1>5, CountedIsThere DEF TwInv
<1>7. due <= top  BY <1>2, <1>5, <1>6 DEF TwInv, NInv, NType
<1>8. PICK r \in Nat \ {0} : r = due  BY <1>5
<1>9. dat[SlotOf(r)] = r  BY <1>7, <1>8, DueIsKept DEF TwInv
<1> QED  BY <1>1, <1>3, <1>5, <1>8, <1>9

\* For every size of the ring, every number of hidden slots and any writes,
\* failures and restarts: each record sent is the one after the last, whole,
\* unless it was overwritten before it was read, the first copy was made while
\* a record was stored or not yet counted, or a writer was killed while it
\* stored the indices.
THEOREM RecordsConsecutive == TSpec => Consecutive
<1>1. TwInv /\ [TNext]_tvars =>
        [due' # due /\ tw.at = "forward" =>
           \/ tw.hdr = due /\ dat[tw.nxtndx] = due
           \/ skewed \/ half \/ Overwritten(due)]_tvars
      BY SentIsDue
<1> QED  BY <1>1, TwInit, TwNext, PTL DEF TSpec, Consecutive
=============================================================================
