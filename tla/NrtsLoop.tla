------------------------------ MODULE NrtsLoop -------------------------------
(***************************************************************************)
(* One channel of an NRTS disk loop (src/lib/nrts/dl.c), which isidl keeps *)
(* beside its own loop: a header file and a data file with one slot per    *)
(* record, and a channel entry in a memory mapped file that says which     *)
(* slots are in use.  Nobody locks it.  The writer stores field after      *)
(* field, other processes copy the entry whenever they like, and what a    *)
(* writer that is killed has stored stays.                                 *)
(*                                                                         *)
(* A record is its number.  The backup of the indices is left out: only    *)
(* nrts_fixsys reads it, which no program that is still in use calls.  So  *)
(* are the wfdisc records; that one writer at a time has the loop is the   *)
(* ISI disk loop's doing (module DiskLoop).                                *)
(***************************************************************************)
EXTENDS Integers

CONSTANTS NRec,    \* hdr.nrec, slots
          NHide,   \* hdr.hide, slots kept out of the readers' sight
          MaxRec   \* bound: records written

\* nrts_chksys refuses any other hide.
ASSUME NrtsAssumption ==
  NRec \in Nat /\ NHide \in Nat /\ MaxRec \in Nat /\ 1 <= NHide /\ NHide < NRec

VARIABLES
  chn,      \* NRTS_CHN, in shared memory
  hdr,      \* the header file, slot by slot
  dat,      \* the data file
  writer,   \* where nrtsWriteToDiskLoop is, and its local variables
  top,      \* history: number of the youngest record
  half      \* history: was a writer killed between two stores of indices?

nvars == <<chn, hdr, dat, writer, top, half>>

Slot == 0..NRec - 1
Status == {"idle", "busy1", "busy2"}

At(place) == [at |-> place, oldest |-> 0, yngest |-> 0, lend |-> 0]

\* mkdl makes the files; no process has them open yet.
Init ==
  /\ chn = [oldest |-> 0, yngest |-> -1, lend |-> NRec - NHide,
            status |-> "idle", count |-> 0]
  /\ hdr = [s \in Slot |-> 0]
  /\ dat = [s \in Slot |-> 0]
  /\ writer = At("gone")
  /\ top = 0
  /\ half = FALSE

\* An index steps to the next slot.
After(i) == IF i + 1 = NRec THEN 0 ELSE i + 1

\* nrtsOpenDiskLoop takes the indices as they are.
Open ==
  /\ writer.at = "gone"
  /\ writer' = At("ready")
  /\ UNCHANGED <<chn, hdr, dat, top, half>>

\* "Determine the offsets to write to."
AtOldest(slot) == slot = chn.oldest
AtEnd(slot) == slot = chn.lend
Determine ==
  LET slot == After(chn.yngest)
      full == AtEnd(slot)
  IN  writer' = [at |-> "hdr", yngest |-> slot,
                 oldest |-> IF full THEN After(chn.oldest) ELSE chn.oldest,
                 lend   |-> IF full THEN After(chn.lend) ELSE chn.lend]

Begin ==
  /\ writer.at = "ready" /\ top < MaxRec
  /\ Determine
  /\ chn' = [chn EXCEPT !.status = "busy1"]
  /\ UNCHANGED <<hdr, dat, top, half>>

WriteHdr ==
  /\ writer.at = "hdr"
  /\ hdr' = [hdr EXCEPT ![writer.yngest] = top + 1]
  /\ writer' = [writer EXCEPT !.at = "dat"]
  /\ UNCHANGED <<chn, dat, top, half>>

WriteDat ==
  /\ writer.at = "dat"
  /\ dat' = [dat EXCEPT ![writer.yngest] = top + 1]
  /\ chn' = [chn EXCEPT !.status = "busy2"]
  /\ writer' = [writer EXCEPT !.at = "oldest"]
  /\ UNCHANGED <<hdr, top, half>>

StoreOldest ==
  /\ writer.at = "oldest"
  /\ chn' = [chn EXCEPT !.oldest = writer.oldest]
  /\ writer' = [writer EXCEPT !.at = "yngest"]
  /\ UNCHANGED <<hdr, dat, top, half>>

StoreYngest ==
  /\ writer.at = "yngest"
  /\ chn' = [chn EXCEPT !.yngest = writer.yngest]
  /\ top' = top + 1
  /\ writer' = [writer EXCEPT !.at = "lend"]
  /\ UNCHANGED <<hdr, dat, half>>

StoreLend ==
  /\ writer.at = "lend"
  /\ chn' = [chn EXCEPT !.lend = writer.lend]
  /\ writer' = [writer EXCEPT !.at = "idle"]
  /\ UNCHANGED <<hdr, dat, top, half>>

SetIdle ==
  /\ writer.at = "idle"
  /\ chn' = [chn EXCEPT !.status = "idle"]
  /\ writer' = At("count")
  /\ UNCHANGED <<hdr, dat, top, half>>

\* The counters come after the status.
Count ==
  /\ writer.at = "count"
  /\ chn' = [chn EXCEPT !.count = @ + 1]
  /\ writer' = At("ready")
  /\ UNCHANGED <<hdr, dat, top, half>>

\* An open, lseek or write fails: isidlWriteToDiskLoop drops the loop, and what
\* has been stored, the status too, stays until the next process opens it.
WriteFails ==
  /\ writer.at \in {"ready", "hdr", "dat"}
  /\ writer' = At("gone")
  /\ UNCHANGED <<chn, hdr, dat, top, half>>

\* Between these stores the indices in shared memory do not go together.
HalfStored ==
  \/ writer.at = "yngest" /\ writer.lend # chn.lend
  \/ writer.at = "lend" /\ writer.lend # chn.lend

Crash ==
  /\ writer.at # "gone"
  /\ writer' = At("gone")
  /\ half' = (half \/ HalfStored)
  /\ UNCHANGED <<chn, hdr, dat, top>>

Write ==
  \/ Begin \/ WriteHdr \/ WriteDat \/ StoreOldest \/ StoreYngest
  \/ StoreLend \/ SetIdle \/ Count

NNext == Open \/ Write \/ WriteFails \/ Crash

NSpec == Init /\ [][NNext]_nvars

-----------------------------------------------------------------------------
(* Properties.                                                               *)

\* How many records the readers may see, the oldest of them, and where one is.
Visible == NRec - NHide
OldestRecord == IF top <= Visible THEN 1 ELSE top - Visible + 1
SlotOf(r) == (r - 1) % NRec

\* However writes fail and writers are killed, the slots from oldest to yngest
\* hold the newest records, whole and in order, unless a writer was killed
\* between two stores of the indices: dl.c has nothing that repairs them then.
WindowWhole ==
  ~half /\ top > 0 /\ writer.at # "yngest" =>
    /\ chn.oldest = SlotOf(OldestRecord) /\ chn.yngest = SlotOf(top)
    /\ \A r \in OldestRecord..top : hdr[SlotOf(r)] = r /\ dat[SlotOf(r)] = r
=============================================================================
