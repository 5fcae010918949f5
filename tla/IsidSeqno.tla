------------------------------ MODULE IsidSeqno ------------------------------
(***************************************************************************)
(* The disk loop server's answer to a sequence number request              *)
(* (src/bin/isid/seqno.c): one service thread per client, all of them in   *)
(* one process and all of them on one disk loop, which a writer in another *)
(* process keeps filling (module DiskLoop).                                *)
(*                                                                         *)
(* The threads share the process's advisory lock.  fcntl locks belong to   *)
(* the process: a thread that locks while another one already has gets     *)
(* nothing new, and the first one to unlock unlocks for both.  A thread    *)
(* that has lost its lock goes on as if it had not.                        *)
(*                                                                         *)
(* The search for the first packet is one step here, each probe of which   *)
(* locks and unlocks for itself; SeqnoSearch takes it apart.  Stream       *)
(* selection, compression and formats do not change which packets a client *)
(* with no stream list gets and are left out.                              *)
(***************************************************************************)
EXTENDS DiskLoop

CONSTANTS Thread,     \* the service threads that are followed, one client each
          Requests,   \* the requests clients make, none of which ends before it begins
          KillPc,     \* where in its code a writer may be killed
          MayHangUp   \* may sending to a client fail?

ASSUME ServerAssumption ==
  /\ KillPc \subseteq PcValues /\ MayHangUp \in BOOLEAN
  /\ Reader # {}   \* isid itself

Corrupt == -2         \* ISI_CORRUPT_INDEX
Oldest == -1          \* ISI_OLDEST_SEQNO
Newest == -2          \* ISI_NEWEST_SEQNO

\* A continuous request ("keepup") has Newest for its end.
Request == [beg : Seqno \cup {Oldest, Newest}, end : Seqno \cup {Newest},
            continuous : BOOLEAN]

Forwards(q) == q.beg = Oldest \/ q.end = Newest \/ (q.beg # Newest /\ q.beg <= q.end)

ASSUME RequestAssumption ==
  \A q \in Requests : q \in Request /\ Forwards(q) /\ (q.continuous => q.end = Newest)

VARIABLES cl,      \* the state of each service thread
          holders  \* history: the threads that took the lock and whose process
                   \* has had it ever since

svars == <<vars, cl, holders>>

\* ISID_SEQNO_REQUEST's status.
WAITING == "waiting"
READY   == "ready"
DONE    == "done"

\* Of a snapshot's indices the server uses two.
NoSnap == [oldest |-> Undefined, yngest |-> Undefined]

NewClient ==
  [at |-> "accepted", beg |-> 0, end |-> 0, continuous |-> TRUE, status |-> WAITING,
   count |-> 0, endndx |-> 0, nxtndx |-> 0,
   snapindex |-> NoSnap, snapcount |-> 0,    \* the snapshot of sys
   hdr |-> NoPkt,                            \* the header just read
   raw |-> NoPkt,                            \* the payload just read
   sent |-> <<>>,                            \* history: what the client got
   shown |-> 0,      \* history: position in log of the packet at snapindex.yngest
   pos |-> 0,        \* history: position in log of the packet at nxtndx
   gap |-> 0,        \* history: how far the first batch's indices were past its count
   ahead |-> FALSE,  \* history: were they too far, with the lock lost or the
                     \* youngest packet not committed?
   lapped |-> FALSE] \* history: has the writer come round to a slot the thread
                     \* had still to read, or to the one a search led to?

SInit == Init /\ cl = [t \in Thread |-> NewClient] /\ holders = {}

Set(t, r) == cl' = [cl EXCEPT ![t] = r]
WriterKeeps == UNCHANGED <<sysvars, hdr, raw, wlock, pc, log>>

\* utilReadLockWait and utilReleaseLock, for the whole process.
ProcessLockNoWait(t) == rlock' = Reader /\ holders' = holders \cup {t}
ProcessLock(t) == wlock = NoPid /\ rlock' = Reader /\ holders' = holders \cup {t}
ProcessUnlock  == rlock' = {} /\ holders' = {}
LockStays      == UNCHANGED <<rlock, holders>>

-----------------------------------------------------------------------------
(* CheckRequest.                                                            *)

CheckRequest(t, q) ==
  /\ cl[t].at = "accepted"
  /\ Set(t, [cl[t] EXCEPT !.at = "loop", !.beg = q.beg, !.end = q.end,
                          !.continuous = q.continuous])
  /\ WriterKeeps /\ LockStays

-----------------------------------------------------------------------------
(* CheckDiskLoop: a snapshot under the lock, then decide what to send.  It   *)
(* is a structure copy, in the order of the fields: a thread whose lock      *)
(* another one has released may stop between any two.                        *)

SnapLock(t) ==
  /\ cl[t].at = "loop" /\ cl[t].status = WAITING
  /\ ProcessLock(t)
  /\ Set(t, [cl[t] EXCEPT !.at = "snapoldest"])
  /\ WriterKeeps

\* Is the packet at the youngest index one that is not committed?
Early == index.yngest = Len(log) % N

SnapOldest(t) ==
  /\ cl[t].at = "snapoldest"
  /\ Set(t, [cl[t] EXCEPT !.at = "snapyngest", !.snapindex.oldest = index.oldest])
  /\ WriterKeeps /\ LockStays

SnapYngest(t) ==
  /\ cl[t].at = "snapyngest"
  /\ Set(t, [cl[t] EXCEPT !.at = "snapcount", !.snapindex.yngest = index.yngest,
                          !.shown = IF Early THEN Len(log) + 1 ELSE Len(log)])
  /\ WriterKeeps /\ LockStays

\* The packets committed that no count will ever include: their writers were
\* killed before they had counted them.
Uncounted == Len(log) - count - IF \E p \in Pid : pc[p] = "committed" THEN 1 ELSE 0

SnapCount(t) ==
  LET c == cl[t]
      gap == c.shown - count
      taken == [c EXCEPT !.at = "check", !.snapcount = count]
  IN  /\ c.at = "snapcount"
      /\ Set(t, IF c.count > 0 THEN taken
                ELSE [taken EXCEPT !.gap = gap,
                                   !.ahead = (t \notin holders \/ Early) /\ gap > Uncounted])
      /\ ProcessUnlock
      /\ WriterKeeps

\* isidlSearchDiskLoopForSeqno, on the snapshot's indices and the hdr file as
\* it is by now.  If the writer has overwritten headers since the snapshot they
\* are out of order: of two packets that is what the code answers, of more the
\* bisection may land on another one.
Search(ix, target) ==
  LET holds == 1..Held(ix)
      num(i) == hdr[SlotOf(ix, i)]
      last == Held(ix)
      from == {i \in holds : num(i) >= target}
      seam == \E i \in 1..(last - 1) : /\ SlotOf(ix, i + 1) = 0
                                       /\ num(i) < target /\ target < num(i + 1)
  IN  IF ix.oldest = Undefined THEN Undefined
      ELSE IF target = Oldest THEN ix.oldest
      ELSE IF target = Newest THEN ix.yngest
      ELSE IF ix.oldest \notin Slot THEN Corrupt
      ELSE IF target = num(1) THEN ix.oldest
      ELSE IF ix.yngest = Undefined THEN Corrupt
      ELSE IF target = num(last) THEN ix.yngest
      ELSE IF target > num(last) THEN Undefined
      ELSE IF seam THEN Corrupt
      ELSE SlotOf(ix, CHOOSE i \in from : \A j \in from : i <= j)

\* It reads a header, under a lock of its own, unless the answer is an index of
\* the snapshot or there is none.
Probes(ix, target) == target \in Seqno /\ ix.oldest \in Slot

\* CheckDiskLoop returns, and its copy of sys is gone.
Decided(c) == [c EXCEPT !.snapindex = NoSnap, !.snapcount = 0, !.shown = 0]

\* Nothing to send for now, or ever.
DrainedWaits(c) == WAITING
Drained(c) == IF c.continuous THEN WAITING ELSE DONE
Nothing(c) == [Decided(c) EXCEPT !.at = "loop", !.status = Drained(c)]
Done(c)  == [Decided(c) EXCEPT !.at = "loop", !.status = DONE]

\* The request is over and cleared.  With which alert, "request complete", an i/o
\* error or a server fault, is left out.
Ended == [NewClient EXCEPT !.at = "finished"]

\* The writer has come round to the slot of packet k, or is about to.
Overrun(k) == Len(log) + 1 >= k + N

\* The packets from beg to end, a batch of them.
Batch(c, beg, end, pos) ==
  [Decided(c) EXCEPT !.at = "loop", !.status = READY, !.endndx = end, !.nxtndx = beg,
                     !.count = c.snapcount, !.pos = pos]

\* The position in log of the packet in a slot, if that at ix.yngest is shown.  With
\* an oldest index and no youngest, the first packet of all is being written.
Position(ix, shown, slot) ==
  IF ix.yngest = Undefined THEN 1 ELSE shown - ((ix.yngest - slot + N) % N)

\* SearchForIndicies: the first time there is anything to send.
CheckFirst(t) ==
  LET c == cl[t]
      ix == c.snapindex
      beg == Search(ix, c.beg)
      end == Search(ix, c.end)
      place(slot) == Position(ix, c.shown, slot)
      probes == \/ Probes(ix, c.beg)
                \/ Probes(ix, c.end) /\ beg \notin {Undefined, Corrupt}
  IN  /\ c.at = "check" /\ c.count = 0
      /\ Set(t, IF c.snapcount = 0 \/ beg = Undefined THEN Nothing(c)
                ELSE IF Corrupt \in {beg, end} THEN Ended
                ELSE IF end = Undefined THEN Done(c)
                ELSE [Batch(c, beg, end, place(beg)) EXCEPT !.lapped = Overrun(place(end))])
      /\ IF c.snapcount > 0 /\ probes THEN ProcessUnlock ELSE LockStays
      /\ WriterKeeps

AfterBatch(c) == NextSlot(c.endndx)
NewRecordsButOne(c) == c.snapcount - c.count - 1
NewRecords(c) == c.snapcount - c.count

\* CompareCounters: after that the count says how many packets are new.
CheckNext(t) ==
  LET c == cl[t]
      newrec == NewRecords(c)
      beg == AfterBatch(c)
  IN  /\ c.at = "check" /\ c.count > 0
      /\ Set(t, CASE newrec = 0 -> Nothing(c)
                  [] newrec < 0 \/ newrec > N -> Ended
                  [] OTHER -> Batch(c, beg, (beg + newrec - 1) % N, c.pos))
      /\ WriterKeeps /\ LockStays

-----------------------------------------------------------------------------
(* ReadAndForward: one packet of the batch, read under the lock.            *)

ReadPktLock(t) ==
  /\ cl[t].at = "loop" /\ cl[t].status = READY
  /\ ProcessLock(t)
  /\ Set(t, [cl[t] EXCEPT !.at = "readhdr"])
  /\ WriterKeeps

ReadHdr(t) ==
  /\ cl[t].at = "readhdr"
  /\ IF cl[t].nxtndx \in Slot
       THEN /\ Set(t, [cl[t] EXCEPT !.at = "readraw", !.hdr = hdr[cl[t].nxtndx],
                                    !.lapped = @ \/ Overrun(cl[t].pos)])
            /\ LockStays
       ELSE Set(t, Ended) /\ ProcessUnlock  \* past the end of the file
  /\ WriterKeeps

ReadRaw(t) ==
  /\ cl[t].at = "readraw"
  /\ Set(t, [cl[t] EXCEPT !.at = "send", !.raw = raw[cl[t].nxtndx],
                          !.lapped = @ \/ Overrun(cl[t].pos)])
  /\ ProcessUnlock
  /\ WriterKeeps

Send(t) ==
  LET c == cl[t]
      s == [c EXCEPT !.at = "loop", !.hdr = NoPkt, !.raw = NoPkt, !.pos = @ + 1,
                     !.sent = Append(@, <<c.hdr, c.raw>>)]
  IN  /\ c.at = "send"
      /\ Set(t, IF c.nxtndx = c.endndx
                  THEN [s EXCEPT !.status = Drained(c)]
                  ELSE [s EXCEPT !.nxtndx = NextSlot(@)])
      /\ WriterKeeps /\ LockStays

SendFails(t) ==
  /\ MayHangUp
  /\ cl[t].at = "send"
  /\ Set(t, Ended)
  /\ WriterKeeps /\ LockStays

\* SendAvailableData, when the one site of the request is done.
Finish(t) ==
  /\ cl[t].at = "loop" /\ cl[t].status = DONE
  /\ Set(t, Ended)
  /\ WriterKeeps /\ LockStays

-----------------------------------------------------------------------------
Serve(t) == \/ SnapOldest(t) \/ SnapYngest(t) \/ SnapCount(t)
            \/ CheckFirst(t) \/ CheckNext(t)
            \/ ReadHdr(t) \/ ReadRaw(t) \/ Send(t) \/ SendFails(t) \/ Finish(t)
GetLock(t) == SnapLock(t) \/ ReadPktLock(t)

WriterStep == /\ \E p \in Pid : \/ Spawn(p) \/ Open(p) \/ WriteLock(p) \/ Write(p)
                                \/ CloseLock(p) \/ Close(p)
                                \/ pc[p] \in KillPc \cup {"other"} /\ Crash(p)
              /\ UNCHANGED <<cl, holders>>

\* Threads that are not followed share nothing with those that are but the lock.
OtherThread ==
  /\ \/ wlock = NoPid /\ rlock' = Reader /\ UNCHANGED holders
     \/ ProcessUnlock
  /\ WriterKeeps /\ UNCHANGED cl

ThreadStep(t) ==
  \/ \E q \in Requests : CheckRequest(t, q)
  \/ GetLock(t) \/ Serve(t)

SNext == WriterStep \/ OtherThread \/ \E t \in Thread : ThreadStep(t)

SSpec == SInit /\ [][SNext]_svars

\* Threads run, the kernel hands the lock to a thread that waits for it again
\* and again, and a writer that has the lock goes on.
SFairSpec ==
  /\ SSpec
  /\ \A t \in Thread : /\ WF_svars(Serve(t))
                       /\ SF_svars(GetLock(t))
  /\ \A p \in Pid : WF_svars(LockedStep(p) /\ UNCHANGED <<cl, holders>>)

-----------------------------------------------------------------------------
(* Properties.                                                              *)

Got(t) == Len(cl[t].sent)

\* What a client gets is an unbroken run of what the writer committed, each
\* packet whole and once, whatever the other threads do to the lock and wherever
\* writers die: the index arithmetic between batches (endndx + 1, newrec) neither
\* skips nor repeats.  There are two exceptions.  The writer came round the ring
\* to a slot the thread had still to read, or had come round by the time of the
\* search to the slot the request ends at (that may be a packet only half
\* written).  And the first snapshot's indices lead further than its count will,
\* because another thread unlocked before it was complete or because its
\* youngest packet is one that a dead writer did not commit.
DeliversInOrder ==
  \A t \in Thread : ~cl[t].lapped /\ ~cl[t].ahead =>
    \E k \in 0..Len(log) : \A i \in 1..Got(t) :
      k + i <= Len(log) /\ cl[t].sent[i] = <<log[k + i], log[k + i]>>

\* A continuous client that keeps ahead of the writer ends up with the newest
\* packet committed, and no packet is left for it to ask for.  One whose first
\* batch did not end at the last packet counted stays that far behind or ahead:
\* its snapshot was torn when another thread unlocked, or a writer died before
\* it had counted its packet or committed what the snapshot showed.
UpToDate(t) ==
  \/ count = 0   \* to isid the loop is still empty
  \/ Got(t) > 0 /\ cl[t].sent[Got(t)][1] = log[Len(log)]
  \/ cl[t].beg > log[Len(log)]

EventuallyServed ==
  <>[](\A t \in Thread : \/ cl[t].at \in {"accepted", "finished"}
                         \/ cl[t].lapped \/ cl[t].ahead
                         \/ cl[t].count > 0 /\ cl[t].gap # Uncounted
                         \/ cl[t].continuous => UpToDate(t))

\* A request with an end is answered in full and told so, or told of a fault.
RequestCompletes ==
  \A t \in Thread :
    cl[t].at = "loop" /\ ~cl[t].continuous ~> cl[t].at = "finished"
=============================================================================
