------------------------------ MODULE IsidTwind ------------------------------
(***************************************************************************)
(* The disk loop server's answer to a time window request                  *)
(* (src/bin/isid/twind.c) for one stream: the service thread copies the    *)
(* channel's entry (module NrtsLoop) to see what there is to send, sends   *)
(* it record by record, and looks again.  What is new it knows from the    *)
(* difference of two counts, and where it is from where it stopped.        *)
(*                                                                         *)
(* Windows given by a time are left out: nrtsSearchDiskloop finds their    *)
(* first and last index.  A reader waits for the channel to become idle    *)
(* before it reads a record, but not for longer than ten seconds and not   *)
(* while it reads, which leaves the reading at any time.                   *)
(***************************************************************************)
EXTENDS NrtsLoop

CONSTANT Requests   \* the requests clients make

ASSUME RequestAssumption ==
  Requests \subseteq [beg : {"oldest", "newest"}, continuous : BOOLEAN]

VARIABLES
  tw,       \* ISID_TWIND_REQUEST, and the thread that has it
  due,      \* history: number of the next record to send
  skewed    \* history: were index and count of the first copy of two moments?

tvars == <<nvars, tw, due, skewed>>

Field == {"oldest", "yngest", "status", "count"}

\* The fields that CheckDiskLoop looks at: the indices only the first time.
Wanted(r) == IF r.count = 0 THEN Field ELSE {"status", "count"}

NoCopy == [f \in Field |-> 0]
LookAgain(r) == [r EXCEPT !.at = "copy", !.todo = Wanted(r), !.snap = NoCopy, !.nxtndx = 0,
                          !.hdr = 0]
Ends(r, how) == [LookAgain(r) EXCEPT !.at = how, !.count = 0, !.endndx = 0]

\* InitStreamStatus.
TInit ==
  /\ Init
  /\ \E q \in Requests :
       tw = [at |-> "copy", todo |-> Field, snap |-> NoCopy, beg |-> q.beg,
             continuous |-> q.continuous, count |-> 0, endndx |-> 0, nxtndx |-> 0,
             hdr |-> 0]
  /\ due = 0 /\ skewed = FALSE

WriterKeeps == UNCHANGED nvars

-----------------------------------------------------------------------------
(* CheckDiskLoop.                                                            *)

\* The copy is the entry of a moment at which the count was not behind.
Agrees(snap) ==
  /\ snap.oldest = chn.oldest /\ snap.yngest = chn.yngest /\ snap.count = chn.count
  /\ writer.at \notin {"yngest", "lend", "idle", "count"}

First(snap) == IF tw.beg = "oldest" THEN snap.oldest ELSE snap.yngest

\* "Get snapshot of current system status", field by field in any order.
Copy(f) ==
  LET snap == [tw.snap EXCEPT ![f] = chn[f]]
  IN  /\ tw.at = "copy" /\ f \in tw.todo
      /\ tw' = [tw EXCEPT !.snap = snap, !.todo = @ \ {f},
                          !.at = IF tw.todo = {f} THEN "check" ELSE "copy"]
      /\ IF tw.todo = {f} /\ tw.count = 0 /\ snap.status = "idle" /\ snap.count > 0
           THEN /\ skewed' = ~Agrees(snap)
                /\ due' = IF snap.yngest \in Slot THEN hdr[First(snap)] ELSE 0
           ELSE UNCHANGED <<skewed, due>>
      /\ WriterKeeps

Waits(r) == IF r.continuous THEN LookAgain(r) ELSE Ends(r, "done")

Accepts(status) == TRUE
Idle(status) == status = "idle"

New(newrec) == newrec > 0

BatchOnly(beg, end) ==
  tw' = [tw EXCEPT !.at = "read", !.endndx = end, !.nxtndx = beg, !.snap = NoCopy]
Batch(beg, end) ==
  tw' = [tw EXCEPT !.at = "read", !.endndx = end, !.nxtndx = beg, !.snap = NoCopy,
                   !.count = tw.snap.count]

CheckDiskLoop ==
  LET snap == tw.snap
      newrec == snap.count - tw.count
      next == (tw.endndx + 1) % NRec
  IN  /\ tw.at = "check"
      /\ \/ ~Idle(snap.status) /\ tw' = LookAgain(tw)
         \/ /\ Idle(snap.status) /\ tw.count > 0
            /\ \/ newrec \notin 0..NRec /\ tw' = Ends(tw, "abort")
               \/ newrec \in 0..NRec /\ ~New(newrec) /\ tw' = Waits(tw)
               \/ newrec \in 0..NRec /\ New(newrec) /\ Batch(next, (next + newrec - 1) % NRec)
         \/ /\ Idle(snap.status) /\ tw.count = 0
            /\ \/ snap.count = 0 /\ tw' = Waits(tw)
               \/ snap.count > 0 /\ First(snap) < 0 /\ tw' = Waits(tw)
               \/ /\ snap.count > 0 /\ First(snap) >= 0 /\ snap.yngest < 0
                  /\ tw' = Ends(tw, "done")
               \/ snap.count > 0 /\ snap.yngest >= 0 /\ Batch(First(snap), snap.yngest)
      /\ WriterKeeps /\ UNCHANGED <<due, skewed>>

-----------------------------------------------------------------------------
(* ReadAndForward.                                                           *)

\* nrtsRead, the header part.
ReadHdr ==
  /\ tw.at = "read"
  /\ tw' = [tw EXCEPT !.at = "forward", !.hdr = hdr[tw.nxtndx]]
  /\ WriterKeeps /\ UNCHANGED <<due, skewed>>

NextSlot(i) == (i + 1) % NRec

\* The data part.  A slot never written cannot be unpacked, and a client that
\* cannot be sent to is given up.
Forward ==
  /\ tw.at = "forward"
  /\ \/ tw' = Ends(tw, "abort") /\ UNCHANGED due
     \/ /\ tw.hdr > 0
        /\ due' = due + 1
        /\ tw' = IF tw.nxtndx = tw.endndx THEN Waits(tw)
                 ELSE [tw EXCEPT !.at = "read", !.nxtndx = NextSlot(@), !.hdr = 0]
  /\ WriterKeeps /\ UNCHANGED skewed

-----------------------------------------------------------------------------
TReads == (\E f \in Field : Copy(f)) \/ CheckDiskLoop \/ ReadHdr \/ Forward

TNext ==
  \/ TReads
  \/ NNext /\ UNCHANGED <<tw, due, skewed>>

TSpec == TInit /\ [][TNext]_tvars

\* The thread runs, and a writer that has begun goes on or is killed.
TFairSpec == TSpec /\ WF_tvars(TReads) /\ WF_tvars(Write /\ UNCHANGED <<tw, due, skewed>>)

-----------------------------------------------------------------------------
(* Properties.                                                               *)

\* The writer has come round to the slot of the record.
Overwritten(r) == hdr[SlotOf(r)] > r

\* What a client gets is every record from its first one on, whole and in order,
\* over any writes, failures and restarts: the counts and indices that a thread
\* copies without a lock take it to the right slots.  Not so if the first copy
\* was made between the status and the count of a record, or while it changed,
\* if a writer was killed while it stored the indices, or if the record was
\* overwritten before it was read: nothing looks for that within one batch.
Consecutive ==
  [][due' # due /\ tw.at = "forward" =>
       \/ tw.hdr = due /\ dat[tw.nxtndx] = due
       \/ skewed \/ half \/ Overwritten(due)]_tvars

\* A client that stays gets everything that has been counted, unless a writer
\* that was killed or failed left the channel busy and nothing comes after.
KeepsUp ==
  []<>(\/ tw.at \in {"copy", "check"} /\ tw.count = chn.count
       \/ tw.at \in {"done", "abort"}
       \/ writer.at \in {"gone", "ready"} /\ chn.status # "idle")
=============================================================================
