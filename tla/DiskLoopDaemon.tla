--------------------------- MODULE DiskLoopDaemon ---------------------------
(***************************************************************************)
(* A writer that puts itself in the background (src/bin/isidl/bground.c,   *)
(* src/bin/qhlp/bground.c).  The process that opened the loop forks before *)
(* it starts any input; the child is the writer from then on, and it is    *)
(* the forking process that writes the child's id into sys                 *)
(* (isidlUpdateParentID) before it exits.  Until then the loop's parent is *)
(* a process that no longer writes.                                        *)
(***************************************************************************)
EXTENDS DiskLoop

CONSTANT ForkerDies   \* may the forking process be killed before it is done?

VARIABLES heir,   \* the child each forking process has to name
          fresh   \* owners that have opened the loop and done nothing else

dvars == <<vars, heir, fresh>>

DInit == Init /\ heir = [p \in Pid |-> NoPid] /\ fresh = {}

\* The child starts life where fork() left its parent, but for the lock.
Fork(p, c) ==
  /\ p \in fresh /\ pc[c] = "dead"
  /\ pc' = [pc EXCEPT ![p] = "forked", ![c] = "ready"]
  /\ heir' = [heir EXCEPT ![p] = c]
  /\ UNCHANGED <<sysvars, hdr, raw, wlock, rlock, log>>

HandoverLock(p) ==
  /\ At(p, "forked", "handover")
  /\ Acquire(p)
  /\ UNCHANGED <<sysvars, hdr, raw, log, heir>>

NamesItself(p) == p
Names(p) == heir[p]

\* isidlUpdateParentID and exit(0).
Handover(p) ==
  /\ At(p, "handover", "dead")
  /\ parent' = Names(p)
  /\ Release
  /\ UNCHANGED <<index, backup, state, seqno, count, hdr, raw, log, heir>>

Killed(p) ==
  /\ ForkerDies \/ pc[p] \notin {"forked", "handover"}
  /\ Crash(p)

DStep(p) ==
  \/ \E c \in Pid : Fork(p, c)
  \/ HandoverLock(p) \/ Handover(p)
  \/ /\ \/ Spawn(p) \/ Killed(p)
        \/ Open(p) \/ WriteLock(p) \/ Write(p)
        \/ CloseLock(p) \/ Close(p)
     /\ UNCHANGED heir

DNext ==
  /\ \E p \in Pid : DStep(p)
  /\ fresh' = {p \in Pid : pc'[p] = "ready" /\ (p \in fresh \/ pc[p] = "cleaned")}

DSpec == DInit /\ [][DNext]_dvars

(* SingleWriter of DiskLoop has to survive the hand-over.                     *)
=============================================================================
