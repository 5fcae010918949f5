-------------------------- MODULE SeqnoSearchProofs --------------------------
(***************************************************************************)
(* Proof that the search for a sequence number answers with the right      *)
(* slot, or is right to refuse, and reads no hidden slot, in every loop.   *)
(***************************************************************************)
EXTENDS SeqnoSearch, TLAPS

-----------------------------------------------------------------------------
(* The inductive invariant.                                                 *)

SearchType ==
  /\ val \in [Slot -> Absolute \cup {NoSeqno}]
  /\ oldest \in Slot \cup {Undefined}
  /\ yngest \in Slot \cup {Undefined}
  /\ left \in Slot /\ rite \in Slot
  /\ pc \in {"search", "bisect", "done"}

\* The slots between which the bisection looks are in the window and on one
\* side of the end of the file, and the target is between their numbers.
Bracketed ==
  /\ oldest # Undefined /\ target \in Absolute
  /\ InWindow(left) /\ InWindow(rite)
  /\ oldest <= left \/ rite < oldest
  /\ left < rite
  /\ val[left] < target /\ target <= val[rite]

SearchInv ==
  /\ SearchType
  /\ LegalEnds /\ Ordered
  /\ pc = "bisect" => Bracketed
  /\ ProbesOnlyWindow
  /\ StartsAtFirstWanted
  /\ RefusedRightly

-----------------------------------------------------------------------------
(* The ring.                                                                *)

\* A loop that holds anything holds its ends, the oldest first.
LEMMA EndsInWindow ==
  ASSUME SearchType, LegalEnds, oldest # Undefined
  PROVE  /\ N \in Nat /\ N >= 2
         /\ oldest \in Slot /\ yngest \in Slot
         /\ InWindow(oldest) /\ InWindow(yngest)
         /\ Rank(oldest) = 0
BY SearchAssumption DEF SearchType, LegalEnds, InWindow, Rank, Slot, N, Undefined

\* Every slot has a rank of its own.
LEMMA RankOnce ==
  ASSUME SearchType, LegalEnds, oldest # Undefined,
         NEW s \in Slot, NEW t \in Slot
  PROVE  /\ Rank(s) \in 0..(N - 1)
         /\ Rank(s) = Rank(t) => s = t
BY EndsInWindow DEF Rank, Slot

\* What a slot of the window holds is a number.
LEMMA HoldsNumber ==
  ASSUME SearchType, LegalEnds, oldest # Undefined, NEW s, InWindow(s)
  PROVE  s \in Slot /\ val[s] \in Nat
BY SearchAssumption DEF SearchType, InWindow, Absolute, NoSeqno

\* The data wrap exactly when the window goes over the end of the file; then
\* the last slot and the first are in it, one after the other.
LEMMA WrapsOver ==
  ASSUME SearchType, LegalEnds, oldest # Undefined, Wrapped
  PROVE  /\ 0 \in Slot /\ N - 1 \in Slot
         /\ InWindow(0) /\ InWindow(N - 1)
         /\ Rank(0) = Rank(N - 1) + 1
         /\ yngest < oldest
BY EndsInWindow DEF Wrapped, InWindow, Rank, Slot

\* All slots between two of the window on one side of the file's end are in it.
LEMMA BetweenInWindow ==
  ASSUME SearchType, LegalEnds, oldest # Undefined,
         NEW l \in Slot, NEW r \in Slot, NEW m \in Slot,
         InWindow(l), InWindow(r), oldest <= l \/ r < oldest,
         l <= m, m <= r
  PROVE  /\ InWindow(m)
         /\ oldest <= m \/ m < oldest
         /\ oldest <= l \/ m < oldest
         /\ oldest <= m \/ r < oldest
BY EndsInWindow DEF InWindow, Rank, Slot

-----------------------------------------------------------------------------
(* Where the first packet wanted is.                                        *)

\* Where the number itself is.
LEMMA FirstIfEqual ==
  ASSUME SearchType, LegalEnds, oldest # Undefined,
         NEW s, InWindow(s), val[s] = target
  PROVE  FirstFrom(s)
<1>1. val[s] \in Nat  BY HoldsNumber
<1>2. \A t \in Slot : InWindow(t) => val[t] \in Nat  BY HoldsNumber
<1> QED  BY <1>1, <1>2 DEF FirstFrom

\* The number of a packet is at least that of every one before it.
LEMMA NotAfter ==
  ASSUME SearchType, LegalEnds, Ordered, oldest # Undefined,
         NEW s, NEW t, InWindow(s), InWindow(t), Rank(s) <= Rank(t)
  PROVE  val[s] <= val[t]
<1>1. s \in Slot /\ t \in Slot /\ val[s] \in Nat /\ val[t] \in Nat  BY HoldsNumber
<1>2. CASE Rank(s) = Rank(t)
      BY <1>1, <1>2, RankOnce
<1>3. CASE Rank(s) < Rank(t)
      BY <1>1, <1>3 DEF Ordered
<1> QED  BY <1>1, <1>2, <1>3, RankOnce

\* In the oldest slot, if its number is not below the target.
LEMMA FirstIfOldest ==
  ASSUME SearchType, LegalEnds, Ordered, oldest # Undefined,
         target \in Absolute, target <= val[oldest]
  PROVE  FirstFrom(oldest)
<1>1. InWindow(oldest) /\ Rank(oldest) = 0 /\ val[oldest] \in Nat
      BY EndsInWindow, HoldsNumber
<1>2. ASSUME NEW t \in Slot, InWindow(t) PROVE val[oldest] <= val[t]
      BY <1>1, <1>2, RankOnce, NotAfter
<1> QED  BY <1>1, <1>2, SearchAssumption DEF FirstFrom, Absolute

\* Right after a packet that is older.
LEMMA FirstIfNext ==
  ASSUME SearchType, LegalEnds, Ordered, oldest # Undefined,
         target \in Absolute,
         NEW p, NEW s, InWindow(p), InWindow(s), Rank(s) = Rank(p) + 1,
         val[p] < target, target <= val[s]
  PROVE  FirstFrom(s)
<1>1. /\ p \in Slot /\ s \in Slot /\ val[p] \in Nat /\ val[s] \in Nat
      /\ target \in Nat
      BY HoldsNumber DEF Absolute
<1>2. ASSUME NEW t \in Slot, InWindow(t), val[t] >= target
      PROVE  val[s] <= val[t]
  <2>1. val[t] \in Nat  BY <1>2, HoldsNumber
  <2>2. Rank(t) \in Int /\ Rank(p) \in Int  BY <1>1, RankOnce
  <2>3. ~(Rank(t) <= Rank(p))  BY <1>1, <1>2, <2>1, NotAfter
  <2>4. Rank(s) <= Rank(t)  BY <2>2, <2>3
  <2> QED  BY <1>2, <2>4, NotAfter
<1> QED  BY <1>1, <1>2 DEF FirstFrom

-----------------------------------------------------------------------------
(* The two ways a step ends.                                                *)

\* What may be answered: a slot only if it is the first wanted, that there is
\* none or that the loop is corrupt only for a reason.
RightAnswer(r) ==
  oldest # Undefined /\ target \in Absolute =>
     /\ r \notin {Undefined, Corrupt} => FirstFrom(r)
     /\ r = Undefined => target > val[yngest]
     /\ r = Corrupt => oldest > yngest /\ val[N - 1] < target /\ target < val[0]

LEMMA AnswerKeeps ==
  ASSUME SearchInv, NEW r, NEW slots, Answer(r, slots), RightAnswer(r),
         \A s \in slots : InWindow(s)
  PROVE  SearchInv'
<1>1. SearchType' /\ LegalEnds' /\ Ordered'
      BY DEF SearchInv, SearchType, LegalEnds, Ordered, InWindow, Rank, Answer, ring
<1>2. pc' = "done" /\ result' = r  BY DEF Answer
<1>3. ProbesOnlyWindow'
      BY DEF SearchInv, ProbesOnlyWindow, InWindow, Rank, Answer, ring
<1>4. StartsAtFirstWanted'
      BY <1>2 DEF StartsAtFirstWanted, Answered, RightAnswer, FirstFrom, InWindow,
                  Rank, Answer, ring
<1>5. RefusedRightly'
      BY <1>2 DEF RefusedRightly, Answered, RightAnswer, Answer, ring, Undefined, Corrupt
<1> QED  BY <1>1, <1>2, <1>3, <1>4, <1>5 DEF SearchInv

LEMMA BisectKeeps ==
  ASSUME SearchInv, oldest # Undefined, target \in Absolute,
         NEW l \in Slot, NEW r \in Slot, NEW slots, Bisect(l, r, slots),
         InWindow(l), InWindow(r), oldest <= l \/ r < oldest, l < r,
         val[l] < target, target <= val[r],
         \A s \in slots : InWindow(s)
  PROVE  SearchInv'
<1>1. SearchType' /\ LegalEnds' /\ Ordered'
      BY DEF SearchInv, SearchType, LegalEnds, Ordered, InWindow, Rank, Bisect, ring
<1>2. pc' = "bisect"  BY DEF Bisect
<1>3. Bracketed'
      BY DEF Bracketed, InWindow, Rank, Bisect, ring
<1>4. ProbesOnlyWindow'
      BY DEF SearchInv, ProbesOnlyWindow, InWindow, Rank, Bisect, ring
<1>5. StartsAtFirstWanted' /\ RefusedRightly'
      BY <1>2 DEF StartsAtFirstWanted, RefusedRightly, Answered
<1> QED  BY <1>1, <1>2, <1>3, <1>4, <1>5 DEF SearchInv

-----------------------------------------------------------------------------
(* The steps.                                                               *)

\* At the ends of the window, or beyond them.
LEMMA EndsStep == SearchInv /\ SearchEnds => SearchInv'
<1> SUFFICES ASSUME SearchInv, SearchEnds PROVE SearchInv'  OBVIOUS
<1>1. /\ SearchType /\ LegalEnds /\ Ordered
      /\ oldest # Undefined /\ target \in Absolute
      BY DEF SearchInv, SearchEnds, Searching
<1>2. /\ oldest \in Slot /\ yngest \in Slot
      /\ InWindow(oldest) /\ InWindow(yngest)
      BY <1>1, EndsInWindow
<1>3. \A s \in Slot : s # Undefined /\ s # Corrupt
      BY DEF Slot, Undefined, Corrupt
<1>4. \A s \in {oldest, yngest} : InWindow(s)  BY <1>2
<1>5. CASE target = val[oldest] /\ Answer(oldest, {oldest})
  <2>1. RightAnswer(oldest)  BY <1>1, <1>2, <1>3, <1>5, FirstIfEqual DEF RightAnswer
  <2> QED  BY <1>4, <1>5, <2>1, AnswerKeeps
<1>6. CASE target = val[yngest] /\ Answer(yngest, {oldest, yngest})
  <2>1. RightAnswer(yngest)  BY <1>1, <1>2, <1>3, <1>6, FirstIfEqual DEF RightAnswer
  <2> QED  BY <1>4, <1>6, <2>1, AnswerKeeps
<1>7. CASE BeyondNewest /\ Answer(Undefined, {oldest, yngest})
  <2>1. RightAnswer(Undefined)
        BY <1>7 DEF RightAnswer, BeyondNewest, Undefined, Corrupt
  <2> QED  BY <1>4, <1>7, <2>1, AnswerKeeps
<1>8. CASE target < val[oldest] /\ Answer(oldest, {oldest, yngest})
  <2>1. target <= val[oldest]
        BY <1>1, <1>2, <1>8, HoldsNumber DEF Absolute
  <2>2. RightAnswer(oldest)
        BY <1>1, <1>2, <1>3, <2>1, FirstIfOldest DEF RightAnswer
  <2> QED  BY <1>4, <1>8, <2>2, AnswerKeeps
<1> QED  BY <1>5, <1>6, <1>7, <1>8 DEF SearchEnds

\* Strictly inside: the bisection starts with a bracket.
LEMMA StraightStep == SearchInv /\ SearchStraight => SearchInv'
<1> SUFFICES ASSUME SearchInv, SearchStraight PROVE SearchInv'  OBVIOUS
<1>1. /\ SearchType /\ LegalEnds /\ Ordered
      /\ oldest # Undefined /\ target \in Absolute
      /\ val[oldest] < target /\ target < val[yngest]
      /\ ~(oldest > yngest)
      /\ Bisect(oldest, yngest, {oldest, yngest})
      BY DEF SearchInv, SearchStraight, Inside, Searching, Wrapped
<1>2. /\ oldest \in Slot /\ yngest \in Slot
      /\ InWindow(oldest) /\ InWindow(yngest)
      BY <1>1, EndsInWindow
<1>3. val[oldest] \in Nat /\ val[yngest] \in Nat /\ target \in Nat
      BY <1>1, <1>2, HoldsNumber DEF Absolute
<1>4. oldest # yngest /\ target <= val[yngest]  BY <1>1, <1>3
<1>5. oldest < yngest /\ oldest <= oldest  BY <1>1, <1>2, <1>4 DEF Slot
<1>6. \A s \in {oldest, yngest} : InWindow(s)  BY <1>2
<1> QED  BY <1>1, <1>2, <1>4, <1>5, <1>6, BisectKeeps

\* The half to look in, or the slot at the end of one.
LEMMA WrappedStep == SearchInv /\ SearchWrapped => SearchInv'
<1> SUFFICES ASSUME SearchInv, SearchWrapped PROVE SearchInv'  OBVIOUS
<1>1. /\ SearchType /\ LegalEnds /\ Ordered
      /\ oldest # Undefined /\ target \in Absolute
      /\ val[oldest] < target /\ target < val[yngest]
      /\ Wrapped
      BY DEF SearchInv, SearchWrapped, Inside, Searching
<1>2. /\ oldest \in Slot /\ yngest \in Slot /\ 0 \in Slot /\ N - 1 \in Slot
      /\ InWindow(oldest) /\ InWindow(yngest) /\ InWindow(0) /\ InWindow(N - 1)
      /\ Rank(0) = Rank(N - 1) + 1
      /\ yngest < oldest
      BY <1>1, EndsInWindow, WrapsOver
<1>3. /\ val[oldest] \in Nat /\ val[yngest] \in Nat /\ target \in Nat
      /\ val[0] \in Nat /\ val[N - 1] \in Nat
      BY <1>1, <1>2, HoldsNumber DEF Absolute
<1>4. \A s \in Slot : s # Undefined /\ s # Corrupt
      BY DEF Slot, Undefined, Corrupt
<1>5. CASE target = val[0] /\ Answer(0, {oldest, yngest, 0})
  <2>1. RightAnswer(0)  BY <1>1, <1>2, <1>4, <1>5, FirstIfEqual DEF RightAnswer
  <2> QED  BY <1>2, <1>5, <2>1, AnswerKeeps
<1>6. CASE InLowHalf /\ Bisect(0, yngest, {oldest, yngest, 0})
  <2>1. val[0] < target /\ target <= val[yngest]  BY <1>3, <1>6 DEF InLowHalf
  <2>2. 0 # yngest  BY <1>3, <2>1
  <2>3. 0 < yngest  BY <1>2, <2>2 DEF Slot
  <2>4. \A s \in {oldest, yngest, 0} : InWindow(s)  BY <1>2
  <2>5. Bisect(0, yngest, {oldest, yngest, 0})  BY <1>6
  <2> QED  BY <1>1, <1>2, <2>1, <2>3, <2>4, <2>5, BisectKeeps
<1>7. CASE target = val[N - 1] /\ Answer(N - 1, {oldest, yngest, 0, N - 1})
  <2>1. RightAnswer(N - 1)  BY <1>1, <1>2, <1>4, <1>7, FirstIfEqual DEF RightAnswer
  <2> QED  BY <1>2, <1>7, <2>1, AnswerKeeps
<1>8. CASE InHighHalf /\ Bisect(oldest, N - 1, {oldest, yngest, 0, N - 1})
  <2>1. val[oldest] < target /\ target <= val[N - 1]  BY <1>3, <1>8 DEF InHighHalf
  <2>2. oldest # N - 1  BY <1>3, <2>1
  <2>3. oldest < N - 1 /\ oldest <= oldest  BY <1>1, <1>2, <2>2, EndsInWindow DEF Slot
  <2>4. \A s \in {oldest, yngest, 0, N - 1} : InWindow(s)  BY <1>2
  <2>5. Bisect(oldest, N - 1, {oldest, yngest, 0, N - 1})  BY <1>8
  <2> QED  BY <1>1, <1>2, <2>1, <2>3, <2>4, <2>5, BisectKeeps
<1>9. CASE /\ target < val[0] \/ (target > val[0] /\ target > val[yngest])
           /\ target # val[N - 1] /\ ~InHighHalf
           /\ Answer(Corrupt, {oldest, yngest, 0, N - 1})
  <2>1. target < val[0] /\ val[N - 1] < target
        BY <1>1, <1>3, <1>9 DEF InHighHalf
  <2>2. RightAnswer(Corrupt)
        BY <1>2, <2>1, EndsInWindow DEF RightAnswer, Undefined, Corrupt, Slot
  <2> QED  BY <1>2, <1>9, <2>2, AnswerKeeps
<1> QED  BY <1>5, <1>6, <1>7, <1>8, <1>9 DEF SearchWrapped

\* The slot in the middle of two that are apart is strictly between them.
LEMMA MiddleBetween ==
  ASSUME SearchType, Apart
  PROVE  Middle \in Slot /\ left < Middle /\ Middle < rite
<1>1. left \in Slot /\ rite \in Slot /\ rite - left > 1  BY DEF SearchType, Apart
<1>2. /\ (rite - left) \div 2 >= 1
      /\ (rite - left) \div 2 < rite - left
      /\ (rite - left) \div 2 \in Int
      BY <1>1 DEF Slot
<1> QED  BY <1>1, <1>2, SearchAssumption DEF Middle, Slot, N

\* Half of the bracket is a bracket.
LEMMA BisectionStep == SearchInv /\ BisectStep => SearchInv'
<1> SUFFICES ASSUME SearchInv, BisectStep PROVE SearchInv'  OBVIOUS
<1>1. SearchType /\ LegalEnds /\ Ordered /\ Bracketed /\ Apart
      BY DEF SearchInv, BisectStep
<1>2. /\ oldest # Undefined /\ target \in Absolute
      /\ left \in Slot /\ rite \in Slot
      /\ InWindow(left) /\ InWindow(rite)
      /\ oldest <= left \/ rite < oldest
      /\ val[left] < target /\ target <= val[rite]
      BY <1>1 DEF Bracketed, SearchType
<1> DEFINE m == Middle
<1>3. m \in Slot /\ left < m /\ m < rite  BY <1>1, MiddleBetween
<1> HIDE DEF m
<1>4. left <= m /\ m <= rite  BY <1>2, <1>3 DEF Slot
<1>5. InWindow(m) /\ (oldest <= left \/ m < oldest) /\ (oldest <= m \/ rite < oldest)
      BY <1>1, <1>2, <1>3, <1>4, BetweenInWindow
<1>6. val[m] \in Nat /\ target \in Nat
      BY <1>1, <1>2, <1>5, HoldsNumber DEF Absolute
<1>7. \A s \in {m} : InWindow(s)  BY <1>5
<1>8. CASE val[m] = target /\ Answer(m, {m})
  <2>1. m # Undefined /\ m # Corrupt  BY <1>3 DEF Slot, Undefined, Corrupt
  <2>2. RightAnswer(m)  BY <1>1, <1>2, <1>5, <1>8, <2>1, FirstIfEqual DEF RightAnswer
  <2> QED  BY <1>7, <1>8, <2>2, AnswerKeeps
<1>9. CASE val[m] < target /\ Bisect(m, rite, {m})
      BY <1>2, <1>3, <1>5, <1>7, <1>9, BisectKeeps
<1>10. CASE val[m] > target /\ Bisect(left, m, {m})
  <2>1. target <= val[m]  BY <1>6, <1>10
  <2> QED  BY <1>2, <1>3, <1>5, <1>7, <1>10, <2>1, BisectKeeps
<1> QED  BY <1>8, <1>9, <1>10 DEF BisectStep, m

\* When nothing is left between the two, the answer is the later one.
LEMMA BisectionDone == SearchInv /\ BisectDone => SearchInv'
<1> SUFFICES ASSUME SearchInv, BisectDone PROVE SearchInv'  OBVIOUS
<1>1. SearchType /\ LegalEnds /\ Ordered /\ Bracketed /\ ~(rite - left > 1)
      BY DEF SearchInv, BisectDone, Apart
<1>2. /\ oldest # Undefined /\ target \in Absolute
      /\ left \in Slot /\ rite \in Slot /\ oldest \in Slot
      /\ InWindow(left) /\ InWindow(rite)
      /\ oldest <= left \/ rite < oldest
      /\ left < rite
      /\ val[left] < target /\ target <= val[rite]
      BY <1>1 DEF Bracketed, SearchType
<1>3. rite = left + 1  BY <1>1, <1>2 DEF Slot
<1>4. Rank(rite) = Rank(left) + 1  BY <1>2, <1>3, EndsInWindow, <1>1 DEF Rank, Slot
<1>5. FirstFrom(rite)  BY <1>1, <1>2, <1>4, FirstIfNext
<1>6. RightAnswer(rite)  BY <1>2, <1>5 DEF RightAnswer, Slot, Undefined, Corrupt
<1>7. Answer(rite, {})  BY DEF BisectDone, HighEnd
<1> QED  BY <1>6, <1>7, AnswerKeeps

LEMMA SearchStep == SearchInv /\ [Next]_vars => SearchInv'
<1> SUFFICES ASSUME SearchInv, [Next]_vars PROVE SearchInv'  OBVIOUS
<1>1. CASE SearchEmpty
  <2>1. RightAnswer(Undefined)  BY <1>1 DEF SearchEmpty, RightAnswer
  <2> QED  BY <1>1, <2>1, AnswerKeeps DEF SearchEmpty
<1>2. CASE SearchSymbolic
  <2>1. PICK r : Answer(r, {})  BY <1>2 DEF SearchSymbolic
  <2>2. RightAnswer(r)  BY <1>2 DEF SearchSymbolic, RightAnswer
  <2> QED  BY <2>1, <2>2, AnswerKeeps
<1>3. CASE SearchEnds  BY <1>3, EndsStep
<1>4. CASE SearchStraight  BY <1>4, StraightStep
<1>5. CASE SearchWrapped  BY <1>5, WrappedStep
<1>6. CASE BisectStep  BY <1>6, BisectionStep
<1>7. CASE BisectDone  BY <1>7, BisectionDone
<1>8. CASE UNCHANGED vars
      BY <1>8 DEF vars, ring, SearchInv, SearchType, LegalEnds, Ordered, Bracketed,
                  ProbesOnlyWindow, StartsAtFirstWanted, RefusedRightly, Answered,
                  FirstFrom, InWindow, Rank
<1> QED  BY <1>1, <1>2, <1>3, <1>4, <1>5, <1>6, <1>7, <1>8 DEF Next

\* The search keeps what it knows of the loop and of where the target is.
LEMMA SearchSound == Spec => []SearchInv
<1>1. Init => SearchInv
  <2> SUFFICES ASSUME Init PROVE SearchInv  OBVIOUS
  <2>1. SearchType  BY SearchAssumption DEF Init, SearchType, Slot, N
  <2> QED  BY <2>1 DEF Init, SearchInv, ProbesOnlyWindow, StartsAtFirstWanted,
                       RefusedRightly, Answered
<1> QED  BY <1>1, SearchStep, PTL DEF Spec

-----------------------------------------------------------------------------
(* The theorems.                                                            *)

\* Whatever the size of the loop, its rotation, the gaps in its numbering and
\* what the hidden slots hold, the slot isidlSearchDiskLoopForSeqno answers
\* with is that of the first packet numbered target or later.
THEOREM SearchCorrect == Spec => []StartsAtFirstWanted
<1>1. SearchInv => StartsAtFirstWanted  BY DEF SearchInv
<1> QED  BY <1>1, SearchSound, PTL

\* It answers that there is no slot only for a number not written yet, and
\* that the loop is corrupt only for one lost at the end of the file.
THEOREM RefusalsCorrect == Spec => []RefusedRightly
<1>1. SearchInv => RefusedRightly  BY DEF SearchInv
<1> QED  BY <1>1, SearchSound, PTL

\* It reads no header of a hidden slot, which a writer may be writing.
THEOREM ProbesWindow == Spec => []ProbesOnlyWindow
<1>1. SearchInv => ProbesOnlyWindow  BY DEF SearchInv
<1> QED  BY <1>1, SearchSound, PTL

\* Each step of BinarySearch that does not end it brings the two slots closer
\* together and leaves them apart from each other, so that it takes no more
\* steps than the loop has slots.
Shrinks ==
  pc = "bisect" /\ pc' = "bisect" =>
     0 < rite' - left' /\ rite' - left' < rite - left

THEOREM BisectionShrinks == Spec => [][Shrinks]_vars
<1>1. SearchInv /\ SearchInv' /\ [Next]_vars => [Shrinks]_vars
  <2> SUFFICES ASSUME SearchInv, SearchInv', Next, pc = "bisect", pc' = "bisect"
               PROVE  0 < rite' - left' /\ rite' - left' < rite - left
      BY DEF Shrinks
  <2>1. /\ SearchType /\ left \in Slot /\ rite \in Slot
        /\ left' \in Slot /\ rite' \in Slot /\ left' < rite'
        BY DEF SearchInv, SearchType, Bracketed
  <2>0. \A s \in Slot : s \in Int  BY SearchAssumption DEF Slot, N
  <2>2. 0 < rite' - left'  BY <2>0, <2>1
  <2>3. BisectStep
        BY DEF Next, SearchEmpty, SearchSymbolic, SearchEnds, SearchStraight,
               SearchWrapped, Searching, Inside, BisectDone, Answer
  <2>4. Middle \in Slot /\ left < Middle /\ Middle < rite
        BY <2>1, <2>3, MiddleBetween DEF BisectStep
  <2>5. \/ left' = Middle /\ rite' = rite
        \/ left' = left /\ rite' = Middle
        BY <2>3 DEF BisectStep, Bisect, Answer
  <2> HIDE DEF Middle
  <2>6. rite' - left' < rite - left  BY <2>0, <2>1, <2>4, <2>5
  <2> QED  BY <2>2, <2>6
<1> QED  BY <1>1, SearchSound, PTL DEF Spec
=============================================================================
