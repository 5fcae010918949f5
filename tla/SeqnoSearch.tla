----------------------------- MODULE SeqnoSearch -----------------------------
(***************************************************************************)
(* isidlSearchDiskLoopForSeqno and its BinarySearch                        *)
(* (src/lib/isidl/search.c): find the slot of a disk loop from which to    *)
(* serve a request for a sequence number.  The loop is a snapshot, so it   *)
(* does not change while the search runs; the search is a state machine    *)
(* whose steps are the decisions of the function, one packet header read   *)
(* at a time in the loop of the bisection.                                 *)
(*                                                                         *)
(* Sequence numbers are compared by (signature, counter)                   *)
(* (src/lib/isi/seqno.c), a total order, so a natural number stands for    *)
(* one.  The numbers in a loop increase but need not be consecutive: a     *)
(* writer that dies uses up a number, and a relay stores whatever its      *)
(* server let through.                                                     *)
(***************************************************************************)
EXTENDS Integers

CONSTANTS NumPkt, NHide, MaxSeqno

ASSUME SearchAssumption ==
  /\ NumPkt \in Nat \ {0}
  /\ NHide \in Nat \ {0}
  /\ MaxSeqno \in Nat \ {0}

N == NumPkt + NHide
Slot == 0..(N - 1)
Undefined == -1          \* ISI_UNDEFINED_INDEX
Corrupt == -2            \* ISI_CORRUPT_INDEX
NoSeqno == 0             \* what a slot that was never written reads as
Oldest == -1             \* ISI_OLDEST_SEQNO
Newest == -2             \* ISI_NEWEST_SEQNO
Relative == -3           \* any number that is neither symbolic nor absolute
Absolute == 1..MaxSeqno
Targets == Absolute \cup {Oldest, Newest, Relative}

VARIABLES
  val,      \* the sequence number in each slot's header
  oldest,   \* sys.index of the snapshot
  yngest,
  target,
  left, rite,  \* the slots the bisection is between
  pc,       \* "search", "bisect" or "done"
  result,   \* the slot found, Undefined or Corrupt
  probed    \* history: the slots whose header was read

ring == <<val, oldest, yngest, target>>
vars == <<ring, left, rite, pc, result, probed>>

-----------------------------------------------------------------------------
(* The loops to search: empty, filling up from slot 0, or full and at any   *)
(* rotation; the packets between oldest and yngest are in order, the hidden *)
(* slots hold anything.  A header that cannot be read, which the code also  *)
(* reports as corruption, is left out.  As in DiskLoop, an unused operator  *)
(* before another one is a slip that must break a property.                 *)

\* How far a slot is after the oldest one, and what the loop holds.
Rank(s) == IF s >= oldest THEN s - oldest ELSE s - oldest + N
InWindow(s) == /\ oldest # Undefined
               /\ s \in Slot /\ Rank(s) <= Rank(yngest)

LegalEnds ==
  \/ oldest = Undefined /\ yngest = Undefined
  \/ oldest = 0 /\ yngest \in 0..(NumPkt - 1)
  \/ oldest \in Slot /\ yngest \in Slot /\ Rank(yngest) = NumPkt - 1

Ordered ==
  /\ \A s \in Slot : InWindow(s) => val[s] # NoSeqno
  /\ \A s, t \in Slot :
        InWindow(s) /\ InWindow(t) /\ Rank(s) < Rank(t) => val[s] < val[t]

Init ==
  /\ oldest \in Slot \cup {Undefined}
  /\ yngest \in Slot \cup {Undefined}
  /\ LegalEnds
  /\ val \in [Slot -> Absolute \cup {NoSeqno}]
  /\ Ordered
  /\ target \in Targets
  /\ left = 0 /\ rite = 0
  /\ pc = "search"
  /\ result = Undefined
  /\ probed = {}

-----------------------------------------------------------------------------
Answer(r, slots) ==
  /\ pc' = "done"
  /\ result' = r
  /\ probed' = probed \cup slots
  /\ UNCHANGED <<ring, left, rite>>

Bisect(l, r, slots) ==
  /\ pc' = "bisect"
  /\ left' = l /\ rite' = r
  /\ probed' = probed \cup slots
  /\ UNCHANGED <<ring, result>>

\* Nothing in the loop, or a symbolic or unsupported number.
SearchEmpty ==
  /\ pc = "search" /\ oldest = Undefined
  /\ Answer(Undefined, {})

SearchSymbolic ==
  /\ pc = "search" /\ oldest # Undefined /\ target \notin Absolute
  /\ Answer(CASE target = Oldest -> oldest
              [] target = Newest -> yngest
              [] OTHER -> Undefined, {})

Searching == pc = "search" /\ oldest # Undefined /\ target \in Absolute

BeyondOldest == target > val[oldest]
BeyondNewest == target > val[yngest]

\* At, before or after the ends of what the loop holds.
SearchEnds ==
  /\ Searching
  /\ \/ target = val[oldest] /\ Answer(oldest, {oldest})
     \/ target = val[yngest] /\ target # val[oldest]
        /\ Answer(yngest, {oldest, yngest})
     \/ BeyondNewest /\ Answer(Undefined, {oldest, yngest})
     \/ target < val[oldest] /\ Answer(oldest, {oldest, yngest})

Inside == Searching /\ val[oldest] < target /\ target < val[yngest]
WrappedUnlessFirst == oldest # 0
Wrapped == oldest > yngest

SearchStraight ==
  /\ Inside /\ ~Wrapped
  /\ Bisect(oldest, yngest, {oldest, yngest})

\* The data wrap around the end of the file: find which half it is in.
InLowHalf == target > val[0] /\ target <= val[yngest]
InHighHalf == target > val[oldest] /\ target <= val[N - 1]

SearchWrapped ==
  /\ Inside /\ Wrapped
  /\ \/ target = val[0] /\ Answer(0, {oldest, yngest, 0})
     \/ InLowHalf /\ Bisect(0, yngest, {oldest, yngest, 0})
     \/ /\ target < val[0] \/ (target > val[0] /\ target > val[yngest])
        /\ \/ /\ target = val[N - 1]
              /\ Answer(N - 1, {oldest, yngest, 0, N - 1})
           \/ /\ target # val[N - 1] /\ InHighHalf
              /\ Bisect(oldest, N - 1, {oldest, yngest, 0, N - 1})
           \* "unexpected fall through"
           \/ /\ target # val[N - 1] /\ ~InHighHalf
              /\ Answer(Corrupt, {oldest, yngest, 0, N - 1})

Middle == left + ((rite - left) \div 2)
ApartAtAll == rite - left > 0
Apart == rite - left > 1
LowEnd == left
HighEnd == rite

BisectStep ==
  /\ pc = "bisect" /\ Apart
  /\ \/ val[Middle] = target /\ Answer(Middle, {Middle})
     \/ val[Middle] < target /\ Bisect(Middle, rite, {Middle})
     \/ val[Middle] > target /\ Bisect(left, Middle, {Middle})

BisectDone ==
  /\ pc = "bisect" /\ ~Apart
  /\ Answer(HighEnd, {})

Next == SearchEmpty \/ SearchSymbolic \/ SearchEnds \/ SearchStraight
        \/ SearchWrapped \/ BisectStep \/ BisectDone

Spec == Init /\ [][Next]_vars
FairSpec == Spec /\ WF_vars(Next)

-----------------------------------------------------------------------------
(* What the search is for.                                                  *)

\* The slot of the first packet numbered target or later.
FirstFrom(s) ==
  /\ InWindow(s) /\ val[s] >= target
  /\ \A t \in Slot : InWindow(t) /\ val[t] >= target => val[s] <= val[t]

Answered == pc = "done" /\ oldest # Undefined /\ target \in Absolute

\* A slot it answers with is where to start serving the request: no packet
\* the client asked for is skipped, none it did not ask for is sent.
StartsAtFirstWanted ==
  Answered /\ result \notin {Undefined, Corrupt} => FirstFrom(result)

\* It has no slot to offer only if nothing that new has been written yet, and
\* calls a sound loop corrupt in one case only: the number asked for is one that
\* was never stored, lost between the last slot of the file and the first.
RefusedRightly ==
  /\ Answered /\ result = Undefined => target > val[yngest]
  /\ Answered /\ result = Corrupt =>
       /\ oldest > yngest
       /\ val[N - 1] < target /\ target < val[0]

\* It never looks at a hidden slot, which may hold anything.
ProbesOnlyWindow == \A s \in probed : InWindow(s)

\* The bisection ends, whatever the gaps in the numbering.
Answers == <>(pc = "done")
=============================================================================
