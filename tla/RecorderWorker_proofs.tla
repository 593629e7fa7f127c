------------------------- MODULE RecorderWorker_proofs -------------------------
(***************************************************************************)
(* The recorder, its worker and the threads of its exports, for any sizes  *)
(* of segments, chunks and the window, any number of jobs and faults: no   *)
(* audio that was promised is lost, and the last word is right.            *)
(***************************************************************************)
EXTENDS RecorderWorker, SequenceTheorems, FiniteSetTheorems, WellFoundedInduction, TLAPS

-----------------------------------------------------------------------------
(* Sets of numbers *)

LEMMA LeastExists ==
  ASSUME NEW S, S \subseteq Nat, S # {}
  PROVE  \E k \in S : \A j \in S : k <= j
<1> DEFINE R == OpToRel(<, Nat)
<1>1. IsWellFoundedOn(R, Nat)
  BY NatLessThanWellFounded
<1>2. PICK k \in S : \A j \in S : <<j, k>> \notin R
  <2> HIDE DEF R
  <2> QED
    BY <1>1, WFMin
<1>3. \A j \in S : ~(j < k)
  BY <1>2 DEF OpToRel
<1> QED
  BY <1>3

\* A part of 1..n that has with a number all smaller ones is where one counts to.
LEMMA InitialPart ==
  ASSUME NEW n \in Nat, NEW S, S \subseteq 1..n,
         \A k \in S : \A j \in 1..k : j \in S
  PROVE  /\ Cardinality(S) \in 0..n
         /\ S = 1..Cardinality(S)
<1> DEFINE T == {k \in 1..n + 1 : k \notin S}
<1>1. T \subseteq Nat /\ n + 1 \in T
  OBVIOUS
<1>2. PICK k \in T : \A j \in T : k <= j
  <2> HIDE DEF T
  <2> QED
    BY <1>1, LeastExists
<1>3. S = 1..k - 1
  <2>1. \A j \in 1..k - 1 : j \in S
    BY <1>2
  <2>2. \A j \in S : j \in 1..k - 1
    BY <1>2
  <2> QED
    BY <2>1, <2>2
<1>4. Cardinality(1..k - 1) = k - 1
  BY <1>2, FS_Interval, Z3
<1> QED
  BY <1>2, <1>3, <1>4

LEMMA SubsetOfInterval ==
  ASSUME NEW n \in Nat, NEW S, S \subseteq 1..n
  PROVE  IsFiniteSet(S)
<1>1. IsFiniteSet(1..n)
  BY FS_Interval
<1> QED
  BY <1>1, FS_Subset

IsAscending(s, S) ==
  /\ s \in Seq(S)
  /\ \A k, l \in 1..Len(s) : k < l => s[k] < s[l]
  /\ \A i \in S : \E k \in 1..Len(s) : s[k] = i

\* Ascending names every member once, in order.
LEMMA AscendingIs ==
  ASSUME NEW S, S \subseteq Nat, IsFiniteSet(S)
  PROVE  /\ IsAscending(Ascending(S), S)
         /\ Len(Ascending(S)) = Cardinality(S)
<1> DEFINE n == Cardinality(S)
           Below(i) == {j \in S : j < i}
           rank == [i \in S |-> Cardinality(Below(i)) + 1]
<1>1. n \in Nat
  BY FS_CardinalityType
<1>2. ASSUME NEW i \in S
      PROVE  /\ IsFiniteSet(Below(i))
             /\ Cardinality(Below(i)) \in Nat
             /\ Cardinality(Below(i)) + 1 \in 1..n
  <2>1. Below(i) \in SUBSET S /\ i \notin Below(i)
    OBVIOUS
  <2>2. IsFiniteSet(Below(i)) /\ Cardinality(Below(i)) <= n /\ Cardinality(Below(i)) # n
    BY <2>1, FS_Subset
  <2>3. Cardinality(Below(i)) \in Nat
    BY <2>2, FS_CardinalityType
  <2> QED
    BY <1>1, <2>2, <2>3
<1>3. ASSUME NEW i \in S, NEW j \in S, i < j
      PROVE  rank[i] < rank[j]
  <2>0. i \in Nat /\ j \in Nat
    OBVIOUS
  <2>4. ASSUME NEW x \in Below(i)
        PROVE  x \in Below(j)
    <3>1. x \in Nat /\ x < i
      OBVIOUS
    <3> QED
      BY <3>1, <2>0, <1>3
  <2>5. i \in Below(j) /\ i \notin Below(i)
    BY <1>3, <2>0
  <2>1. Below(i) \in SUBSET Below(j) /\ i \in Below(j) /\ i \notin Below(i)
    <3> HIDE DEF Below
    <3> QED
      BY <2>4, <2>5
  <2>2. Cardinality(Below(i)) <= Cardinality(Below(j))
        /\ Cardinality(Below(i)) # Cardinality(Below(j))
    BY <2>1, <1>2, FS_Subset
  <2> QED
    BY <2>2, <1>2
<1>4. rank \in [S -> 1..n]
  BY <1>2
<1>5. \A i, j \in S : rank[i] = rank[j] => i = j
  <2> SUFFICES ASSUME NEW i \in S, NEW j \in S, rank[i] = rank[j]
               PROVE  i = j
    OBVIOUS
  <2>1. i \in Nat /\ j \in Nat /\ rank[i] \in Nat
    BY <1>1, <1>4
  <2> HIDE DEF rank
  <2> QED
    BY <2>1, <1>3
<1>6. \A k \in 1..n : \E i \in S : rank[i] = k
  <2> HIDE DEF rank
  <2>1. rank \in Injection(S, 1..n)
    BY <1>4, <1>5 DEF Injection, IsInjective
  <2>2. IsFiniteSet(1..n) /\ Cardinality(1..n) = n
    BY <1>1, FS_Interval
  <2>3. rank \in Surjection(S, 1..n)
    BY <2>1, <2>2, FS_Injection
  <2> QED
    BY <2>3 DEF Surjection
<1>7. ASSUME NEW k \in 1..n
      PROVE  Ascending(S)[k] \in S /\ rank[Ascending(S)[k]] = k
  <2>1. PICK i \in S : rank[i] = k
    BY <1>6
  <2>2. Cardinality({j \in S : j < i}) = k - 1
    BY <2>1, <1>2
  <2>3. Ascending(S)[k] \in S /\ Cardinality({j \in S : j < Ascending(S)[k]}) = k - 1
    BY <2>2 DEF Ascending
  <2> QED
    BY <2>3, <1>1
<1> HIDE DEF rank
<1>9. Ascending(S) \in Seq(S) /\ Len(Ascending(S)) = n
  <2>1. Ascending(S) \in [1..n -> S]
    BY <1>7 DEF Ascending
  <2> HIDE DEF n
  <2> QED
    BY <1>1, <2>1
<1>10. ASSUME NEW k \in 1..n, NEW l \in 1..n, k < l
       PROVE  Ascending(S)[k] < Ascending(S)[l]
  <2>1. /\ Ascending(S)[k] \in S /\ rank[Ascending(S)[k]] = k
        /\ Ascending(S)[l] \in S /\ rank[Ascending(S)[l]] = l
    BY <1>7
  <2>2. /\ Ascending(S)[k] \in Nat /\ Ascending(S)[l] \in Nat
        /\ k \in Nat /\ l \in Nat
    <3>1. Ascending(S)[k] \in Nat /\ Ascending(S)[l] \in Nat
      BY <2>1
    <3> QED
      BY <1>1, <3>1
  <2>3. ~(Ascending(S)[l] < Ascending(S)[k])
    BY <2>1, <2>2, <1>3, <1>10
  <2>4. Ascending(S)[l] # Ascending(S)[k]
    BY <2>1, <2>2, <1>10
  <2> QED
    BY <2>2, <2>3, <2>4
<1>11. ASSUME NEW i \in S
       PROVE  \E k \in 1..n : Ascending(S)[k] = i
  BY <1>4, <1>5, <1>7
<1> QED
  BY <1>9, <1>10, <1>11 DEF IsAscending

-----------------------------------------------------------------------------
(* The window *)

Segments(r) == 1..Len(r.segments)
StartAt(r, k) == r.segments[k].start_sample
EndAt(r, k) == EndSample(r.segments[k])

\* The positions of the segments: they follow each other, none is empty, and only
\* the last one may be incomplete, which is the one being written.
Placed(r) ==
  /\ r.segments \in Seq(SegmentInfo) /\ r.total \in Nat /\ r.writing \in BOOLEAN
  /\ \A k \in Segments(r) :
       /\ r.segments[k].sample_count > 0
       /\ EndAt(r, k) <= r.total
       /\ r.segments[k].complete \/ (r.writing /\ k = Len(r.segments))
  /\ \A k, l \in Segments(r) : k < l => EndAt(r, k) <= StartAt(r, l)
  /\ r.writing =>
       /\ r.segments # << >>
       /\ ~Last(r.segments).complete
       /\ Last(r.segments).sample_count < SegmentSize
       /\ EndSample(Last(r.segments)) = r.total

Cutoff(r) == r.total - Window

\* How many segments begin before the window does.
Reached(r) == Cardinality({k \in DOMAIN r.segments : StartAt(r, k) <= Cutoff(r)})

LEMMA SegmentsAre ==
  ASSUME NEW r, Placed(r)
  PROVE  /\ Len(r.segments) \in Nat
         /\ DOMAIN r.segments = Segments(r)
         /\ r.segments = << >> <=> Len(r.segments) = 0
         /\ \A k \in Segments(r) :
              /\ r.segments[k] \in SegmentInfo
              /\ StartAt(r, k) \in Nat /\ EndAt(r, k) \in Nat
              /\ EndAt(r, k) = StartAt(r, k) + r.segments[k].sample_count
              /\ StartAt(r, k) < EndAt(r, k) /\ EndAt(r, k) <= r.total
              /\ r.segments[k].complete \in BOOLEAN
<1>1. Len(r.segments) \in Nat /\ DOMAIN r.segments = Segments(r)
  BY DEF Placed, Segments
<1>2. r.segments = << >> <=> Len(r.segments) = 0
  <2>1. r.segments \in Seq(SegmentInfo)
    BY DEF Placed
  <2> QED
    BY <2>1, EmptySeq
<1>3. \A k \in Segments(r) : r.segments[k] \in SegmentInfo
  BY <1>1 DEF Placed, Segments
<1>4. ASSUME NEW k \in Segments(r)
      PROVE  /\ StartAt(r, k) \in Nat /\ EndAt(r, k) \in Nat
             /\ EndAt(r, k) = StartAt(r, k) + r.segments[k].sample_count
             /\ StartAt(r, k) < EndAt(r, k) /\ EndAt(r, k) <= r.total
             /\ r.segments[k].complete \in BOOLEAN
  <2>1. /\ r.segments[k].start_sample \in Nat /\ r.segments[k].sample_count \in Nat
        /\ r.segments[k].complete \in BOOLEAN
    BY <1>3 DEF SegmentInfo
  <2>2. r.segments[k].sample_count > 0 /\ EndAt(r, k) <= r.total
    BY DEF Placed
  <2> QED
    BY <2>1, <2>2 DEF StartAt, EndAt, EndSample
<1> QED
  BY <1>1, <1>2, <1>3, <1>4

\* The segments that begin up to a position come first.
LEMMA BegunIs ==
  ASSUME NEW r, Placed(r), NEW x \in Int
  PROVE  LET m == Cardinality({k \in DOMAIN r.segments : StartAt(r, k) <= x}) IN
         /\ m \in 0..Len(r.segments)
         /\ \A k \in Segments(r) : StartAt(r, k) <= x <=> k <= m
<1> DEFINE S == {k \in DOMAIN r.segments : StartAt(r, k) <= x}
<1>2. S \subseteq 1..Len(r.segments) /\ Len(r.segments) \in Nat
  BY SegmentsAre DEF Segments
<1>3. ASSUME NEW k \in S, NEW j \in 1..k
      PROVE  j \in S
  <2>1. k \in Segments(r) /\ j \in Segments(r) /\ (j = k \/ j < k)
    BY <1>2, <1>3 DEF Segments
  <2>2. j < k => EndAt(r, j) <= StartAt(r, k)
    BY <2>1 DEF Placed
  <2>3. StartAt(r, j) <= StartAt(r, k)
    BY <2>1, <2>2, SegmentsAre
  <2>4. StartAt(r, j) <= x
    BY <2>1, <2>3, SegmentsAre
  <2> QED
    BY <2>1, <2>4, SegmentsAre
<1>4. Cardinality(S) \in 0..Len(r.segments) /\ S = 1..Cardinality(S)
  <2> HIDE DEF S
  <2> QED
    BY <1>2, <1>3, InitialPart
<1>6. ASSUME NEW k \in Segments(r)
      PROVE  StartAt(r, k) <= x <=> k <= Cardinality(S)
  <2>1. k \in DOMAIN r.segments
    BY SegmentsAre
  <2>2. k \in S <=> k <= Cardinality(S)
    <3> HIDE DEF S
    <3> QED
      BY <1>2, <1>4 DEF Segments
  <2> QED
    BY <2>1, <2>2
<1> QED
  BY <1>4, <1>6

LEMMA ReachedIs ==
  ASSUME SegmentedRecorderConstants, NEW r, Placed(r)
  PROVE  /\ Reached(r) \in 0..Len(r.segments)
         /\ \A k \in Segments(r) : StartAt(r, k) <= Cutoff(r) <=> k <= Reached(r)
<1>1. Cutoff(r) \in Int
  BY DEF Cutoff, Placed, SegmentedRecorderConstants
<1> QED
  BY <1>1, BegunIs DEF Reached

LEMMA RetainedIs ==
  ASSUME SegmentedRecorderConstants, NEW r, Placed(r)
  PROVE  LET n == Len(r.segments)
             m == Reached(r) IN
         RetainedStart(r) =
           IF n = 0 THEN r.total
           ELSE IF r.total < Window \/ m = 0 THEN StartAt(r, 1)
           ELSE IF EndAt(r, m) <= Cutoff(r)
           THEN IF m < n THEN StartAt(r, m + 1) ELSE r.total
           ELSE IF ~r.segments[m].complete /\ r.writing THEN Cutoff(r)
           ELSE EndAt(r, m)
<1>1. Cardinality({k \in DOMAIN r.segments : r.segments[k].start_sample <= r.total - Window})
      = Reached(r)
  BY DEF Reached, StartAt, Cutoff
<1>2. r.segments = << >> <=> Len(r.segments) = 0
  BY SegmentsAre
<1> QED
  BY <1>1, <1>2 DEF RetainedStart, StartAt, EndAt, Cutoff

\* What the cases of RetainedStart are about, with n segments of which m begin before
\* the window may.
WindowIs(r, n, m) ==
  /\ n \in Nat /\ m \in 0..n /\ r.total \in Nat /\ Window \in Nat \ {0}
  /\ Cutoff(r) = r.total - Window
  /\ \A k \in 1..n : /\ StartAt(r, k) \in Nat /\ EndAt(r, k) \in Nat
                     /\ StartAt(r, k) < EndAt(r, k) /\ EndAt(r, k) <= r.total
                     /\ r.segments[k].complete \in BOOLEAN
                     /\ r.segments[k].complete \/ (r.writing /\ k = n)
  /\ \A k \in 1..n : StartAt(r, k) <= Cutoff(r) <=> k <= m
  /\ \A k, l \in 1..n : k < l => EndAt(r, k) <= StartAt(r, l)
  /\ r.writing \in BOOLEAN
  /\ r.writing => n > 0 /\ EndAt(r, n) = r.total /\ ~r.segments[n].complete
  /\ RetainedStart(r) =
       IF n = 0 THEN r.total
       ELSE IF r.total < Window \/ m = 0 THEN StartAt(r, 1)
       ELSE IF EndAt(r, m) <= Cutoff(r)
       THEN IF m < n THEN StartAt(r, m + 1) ELSE r.total
       ELSE IF ~r.segments[m].complete /\ r.writing THEN Cutoff(r)
       ELSE EndAt(r, m)

LEMMA WindowFacts ==
  ASSUME SegmentedRecorderConstants, NEW r, Placed(r)
  PROVE  WindowIs(r, Len(r.segments), Reached(r))
<1> DEFINE n == Len(r.segments)
           m == Reached(r)
<1>1. /\ n \in Nat /\ m \in 0..n /\ r.total \in Nat /\ Window \in Nat \ {0}
      /\ Cutoff(r) = r.total - Window
  BY ReachedIs, SegmentsAre DEF Placed, Cutoff, SegmentedRecorderConstants
<1>2. \A k \in 1..n : /\ StartAt(r, k) \in Nat /\ EndAt(r, k) \in Nat
                     /\ StartAt(r, k) < EndAt(r, k) /\ EndAt(r, k) <= r.total
                     /\ r.segments[k].complete \in BOOLEAN
  BY SegmentsAre DEF Segments
<1>3. \A k \in 1..n : StartAt(r, k) <= Cutoff(r) <=> k <= m
  BY ReachedIs DEF Segments
<1>4. /\ \A k, l \in 1..n : k < l => EndAt(r, k) <= StartAt(r, l)
      /\ \A k \in 1..n : r.segments[k].complete \/ (r.writing /\ k = n)
      /\ r.writing \in BOOLEAN
  BY DEF Placed, Segments
<1>5. r.writing => n > 0 /\ EndAt(r, n) = r.total /\ ~r.segments[n].complete
  BY <1>1, SegmentsAre DEF Placed, Last, EndAt
<1> QED
  BY <1>1, <1>2, <1>3, <1>4, <1>5, RetainedIs DEF WindowIs

\* The window lies before the end, is no longer than it may be, and begins behind
\* the first segment and those it has reached.
LEMMA RetainedBounds ==
  ASSUME SegmentedRecorderConstants, NEW r, Placed(r)
  PROVE  /\ RetainedStart(r) \in 0..r.total
         /\ Cutoff(r) <= RetainedStart(r)
         /\ \A k \in Segments(r) : k = 1 \/ (k <= Reached(r) /\ r.total >= Window) =>
              StartAt(r, k) <= RetainedStart(r)
<1> DEFINE n == Len(r.segments)
           m == Reached(r)
<1> HIDE DEF n, m
<1>1. WindowIs(r, n, m)
  BY WindowFacts DEF n, m
<1>2. CASE n = 0
  BY <1>1, <1>2 DEF WindowIs, Segments, n, m
<1>3. CASE n > 0 /\ (r.total < Window \/ m = 0)
  <2>1. RetainedStart(r) = StartAt(r, 1)
    BY <1>1, <1>3 DEF WindowIs
  <2>2. RetainedStart(r) \in 0..r.total /\ Cutoff(r) <= RetainedStart(r)
    BY <1>1, <1>3, <2>1 DEF WindowIs
  <2> QED
    BY <1>1, <1>3, <2>1, <2>2 DEF WindowIs, Segments, n, m
<1>4. CASE n > 0 /\ r.total >= Window /\ m > 0
  <2>1. /\ RetainedStart(r) \in 0..r.total /\ Cutoff(r) <= RetainedStart(r)
        /\ StartAt(r, m) <= RetainedStart(r)
    BY <1>1, <1>4 DEF WindowIs
  <2>2. \A k \in 1..n : k <= m => StartAt(r, k) <= StartAt(r, m)
    BY <1>1, <1>4 DEF WindowIs
  <2> QED
    BY <1>1, <1>4, <2>1, <2>2 DEF WindowIs, Segments, n, m
<1> QED
  BY <1>1, <1>2, <1>3, <1>4 DEF WindowIs

-----------------------------------------------------------------------------
(* Holes *)

\* A hole, which a trim leaves behind a pinned segment, is over where the window
\* begins, also the one at the end.
NoHole(r) ==
  /\ \A k \in Segments(r) : k + 1 \in Segments(r) =>
       EndAt(r, k) = StartAt(r, k + 1) \/ StartAt(r, k + 1) <= RetainedStart(r)
  /\ r.segments # << >> =>
       EndAt(r, Len(r.segments)) = r.total \/ RetainedStart(r) = r.total

LEMMA WindowIsCovered ==
  ASSUME SegmentedRecorderConstants, NEW r, Placed(r), NoHole(r),
         NEW p \in Int, RetainedStart(r) <= p, p < r.total
  PROVE  \E k \in Segments(r) : StartAt(r, k) <= p /\ p < EndAt(r, k)
<1> DEFINE n == Len(r.segments)
           m == Cardinality({k \in DOMAIN r.segments : StartAt(r, k) <= p})
<1>1. m \in 0..n /\ \A k \in 1..n : StartAt(r, k) <= p <=> k <= m
  BY BegunIs DEF Segments
<1> HIDE DEF m, n
<1>2. WindowIs(r, n, Reached(r))
  BY WindowFacts DEF n
<1>3. RetainedStart(r) \in 0..r.total /\ (n > 0 => StartAt(r, 1) <= RetainedStart(r))
  BY <1>2, RetainedBounds DEF n, Segments, WindowIs
<1>4. n > 0 /\ m > 0
  BY <1>1, <1>2, <1>3 DEF WindowIs
<1>5. p < EndAt(r, m)
  <2>1. CASE m < n
    <3>1. EndAt(r, m) = StartAt(r, m + 1) \/ StartAt(r, m + 1) <= RetainedStart(r)
      BY <1>1, <1>2, <1>4, <2>1 DEF NoHole, Segments, n, WindowIs
    <3>2. p < StartAt(r, m + 1)
      BY <1>1, <1>2, <1>4, <2>1 DEF WindowIs
    <3> QED
      BY <1>1, <1>2, <1>3, <1>4, <2>1, <3>1, <3>2 DEF WindowIs
  <2>2. CASE m = n
    <3>1. EndAt(r, n) = r.total \/ RetainedStart(r) = r.total
      BY <1>2, <1>4, SegmentsAre DEF NoHole, n, WindowIs
    <3> QED
      BY <1>2, <1>3, <1>4, <2>2, <3>1 DEF WindowIs
  <2> QED
    BY <1>1, <1>2, <2>1, <2>2 DEF WindowIs
<1> QED
  BY <1>1, <1>2, <1>4, <1>5 DEF Segments, n, WindowIs

\* What is being written does not expire.
LEMMA WritingIsLive ==
  ASSUME SegmentedRecorderConstants, NEW r, Placed(r), r.writing
  PROVE  RetainedStart(r) < EndAt(r, Len(r.segments))
<1> DEFINE n == Len(r.segments)
           m == Reached(r)
<1> HIDE DEF n, m
<1>1. WindowIs(r, n, m)
  BY WindowFacts DEF n, m
<1>2. n > 0 /\ EndAt(r, n) = r.total /\ ~r.segments[n].complete
  BY <1>1 DEF WindowIs
<1>3. CASE r.total < Window \/ m = 0
  <2>1. RetainedStart(r) = StartAt(r, 1)
    BY <1>1, <1>2, <1>3 DEF WindowIs
  <2> QED
    BY <1>1, <1>2, <2>1 DEF WindowIs, n
<1>4. CASE r.total >= Window /\ m > 0 /\ EndAt(r, m) <= Cutoff(r)
  <2>1. m < n
    BY <1>1, <1>2, <1>4 DEF WindowIs
  <2>2. RetainedStart(r) = StartAt(r, m + 1)
    BY <1>1, <1>2, <1>4, <2>1 DEF WindowIs
  <2>3. m + 1 \in 1..n /\ n \in 1..n
    BY <1>1, <1>2, <1>4, <2>1 DEF WindowIs
  <2>4. /\ StartAt(r, m + 1) \in Nat /\ StartAt(r, n) \in Nat
        /\ EndAt(r, m + 1) \in Nat /\ EndAt(r, n) \in Nat
        /\ StartAt(r, m + 1) < EndAt(r, m + 1) /\ StartAt(r, n) < EndAt(r, n)
    BY <1>1, <2>3 DEF WindowIs
  <2>5. m + 1 = n \/ EndAt(r, m + 1) <= StartAt(r, n)
    BY <1>1, <2>1, <2>3 DEF WindowIs
  <2> QED
    BY <2>2, <2>4, <2>5 DEF n
<1>5. CASE r.total >= Window /\ m > 0 /\ ~(EndAt(r, m) <= Cutoff(r))
  <2>1. RetainedStart(r) = IF ~r.segments[m].complete /\ r.writing THEN Cutoff(r)
                           ELSE EndAt(r, m)
    BY <1>1, <1>2, <1>5 DEF WindowIs
  <2>2. CASE m = n
    BY <1>1, <1>2, <2>1, <2>2 DEF WindowIs, n
  <2>3. CASE m < n
    <3>1. r.segments[m].complete
      BY <1>1, <1>5, <2>3 DEF WindowIs
    <3>2. EndAt(r, m) <= StartAt(r, n) /\ n \in 1..n
      BY <1>1, <1>5, <2>3 DEF WindowIs
    <3>3. EndAt(r, m) \in Nat /\ StartAt(r, n) \in Nat /\ EndAt(r, n) \in Nat
          /\ StartAt(r, n) < EndAt(r, n)
      BY <1>1, <1>5, <2>3, <3>2 DEF WindowIs
    <3>4. RetainedStart(r) = EndAt(r, m)
      BY <2>1, <3>1
    <3> QED
      BY <3>2, <3>3, <3>4 DEF n
  <2> QED
    BY <1>1, <2>2, <2>3 DEF WindowIs
<1> QED
  BY <1>1, <1>3, <1>4, <1>5 DEF WindowIs

-----------------------------------------------------------------------------
(* What a trim leaves *)

\* t has the segments of r that s names, in order, and s names all that live.
IsTrimOf(t, r, s) ==
  /\ Len(s) \in Nat
  /\ \A j \in 1..Len(s) : s[j] \in Segments(r)
  /\ \A j, l \in 1..Len(s) : j < l => s[j] < s[l]
  /\ \A k \in Segments(r) :
       (\E j \in 1..Len(s) : s[j] = k) \/ EndAt(r, k) <= RetainedStart(r)
  /\ t.segments \in Seq(SegmentInfo) /\ Len(t.segments) = Len(s)
  /\ \A j \in 1..Len(s) : t.segments[j] = r.segments[s[j]]
  /\ t.total = r.total /\ t.writing = r.writing

LEMMA TrimIs ==
  ASSUME NEW t, NEW r, NEW s, Placed(r), IsTrimOf(t, r, s)
  PROVE  \A j \in 1..Len(s) : /\ s[j] \in 1..Len(r.segments)
                              /\ StartAt(t, j) = StartAt(r, s[j])
                              /\ EndAt(t, j) = EndAt(r, s[j])
                              /\ t.segments[j] = r.segments[s[j]]
BY DEF IsTrimOf, StartAt, EndAt, Segments

LEMMA TrimPlaced ==
  ASSUME SegmentedRecorderConstants, NEW t, NEW r, NEW s, Placed(r), IsTrimOf(t, r, s)
  PROVE  Placed(t)
<1> DEFINE n == Len(r.segments)
           q == Len(s)
<1>1. Segments(t) = 1..q /\ q \in Nat /\ n \in Nat /\ Segments(r) = 1..n
  BY SegmentsAre DEF IsTrimOf, Segments
<1>2. t.segments \in Seq(SegmentInfo) /\ t.total \in Nat /\ t.writing \in BOOLEAN
  BY DEF IsTrimOf, Placed
<1>3. ASSUME NEW j \in 1..q, NEW l \in 1..q, j < l
      PROVE  EndAt(t, j) <= StartAt(t, l)
  <2>1. s[j] < s[l] /\ s[j] \in Segments(r) /\ s[l] \in Segments(r)
    BY <1>3 DEF IsTrimOf
  <2> QED
    BY <2>1, TrimIs DEF Placed
<1>4. ASSUME r.writing
      PROVE  q > 0 /\ s[q] = n /\ n > 0
  <2>1. n > 0
    BY <1>1, <1>4, SegmentsAre DEF Placed
  <2>2. ~(EndAt(r, n) <= RetainedStart(r))
    <3>1. RetainedStart(r) < EndAt(r, n)
      BY <1>4, WritingIsLive
    <3>2. RetainedStart(r) \in Nat /\ EndAt(r, n) \in Nat
      BY <1>1, <2>1, RetainedBounds, SegmentsAre
    <3> QED
      BY <3>1, <3>2
  <2>3. PICK j \in 1..q : s[j] = n
    BY <1>1, <2>1, <2>2 DEF IsTrimOf
  <2>4. j = q
    BY <1>1, <2>1, <2>3 DEF IsTrimOf
  <2> QED
    BY <1>1, <2>1, <2>3, <2>4
<1>5. ASSUME NEW j \in 1..q
      PROVE  /\ t.segments[j].sample_count > 0
             /\ EndAt(t, j) <= t.total
             /\ t.segments[j].complete \/ (t.writing /\ j = q)
  <2>1. /\ t.segments[j] = r.segments[s[j]] /\ s[j] \in 1..n
        /\ t.total = r.total /\ t.writing = r.writing
    BY <1>1 DEF IsTrimOf
  <2>2. j # q => s[j] < s[q]
    BY <1>1 DEF IsTrimOf
  <2>3. t.segments[j].complete \/ (t.writing /\ j = q)
    <3>1. r.segments[s[j]].complete \/ (r.writing /\ s[j] = n)
      BY <1>1, <2>1 DEF Placed
    <3>2. r.writing /\ s[j] = n => j = q
      BY <1>1, <1>4, <2>1, <2>2
    <3> QED
      BY <2>1, <3>1, <3>2
  <2>4. r.segments[s[j]].sample_count > 0 /\ EndAt(r, s[j]) <= r.total
    BY <1>1, <2>1 DEF Placed
  <2>5. EndAt(t, j) = EndAt(r, s[j])
    BY TrimIs
  <2> QED
    BY <2>1, <2>3, <2>4, <2>5
<1>6. ASSUME t.writing
      PROVE  /\ t.segments # << >>
             /\ ~Last(t.segments).complete
             /\ Last(t.segments).sample_count < SegmentSize
             /\ EndSample(Last(t.segments)) = t.total
  <2>1. r.writing /\ t.total = r.total /\ Len(t.segments) = q
    BY <1>6 DEF IsTrimOf
  <2>2. q > 0 /\ Last(t.segments) = Last(r.segments)
    BY <1>1, <1>4, <2>1 DEF IsTrimOf, Last
  <2>3. t.segments # << >>
    BY <2>1, <2>2
  <2> QED
    BY <2>1, <2>2, <2>3 DEF Placed
<1> QED
  BY <1>1, <1>2, <1>3, <1>5, <1>6 DEF Placed, IsTrimOf

\* Which segments a trim leaves of those the window has reached, and of the others all.
LEMMA TrimReached ==
  ASSUME SegmentedRecorderConstants, NEW t, NEW r, NEW s, Placed(r), IsTrimOf(t, r, s)
  PROVE  /\ Reached(t) \in 0..Len(s)
         /\ \A j \in 1..Len(s) : s[j] <= Reached(r) <=> j <= Reached(t)
<1>1. Placed(t) /\ Len(t.segments) = Len(s) /\ Cutoff(t) = Cutoff(r)
  BY TrimPlaced DEF IsTrimOf, Cutoff
<1>2. /\ Reached(t) \in 0..Len(s)
      /\ \A j \in 1..Len(s) : StartAt(t, j) <= Cutoff(r) <=> j <= Reached(t)
  BY <1>1, ReachedIs DEF Segments
<1>3. \A j \in 1..Len(s) : StartAt(r, s[j]) <= Cutoff(r) <=> s[j] <= Reached(r)
  BY ReachedIs DEF IsTrimOf
<1> QED
  BY <1>2, <1>3, TrimIs

\* The first kept segment behind those the window has reached is the one that
\* follows them, and it lives.
LEMMA TrimNext ==
  ASSUME SegmentedRecorderConstants, NEW t, NEW r, NEW s, Placed(r), NoHole(r),
         IsTrimOf(t, r, s), r.total >= Window, Reached(r) > 0
  PROVE  LET n == Len(r.segments)
             m == Reached(r)
             p == Reached(t) IN
         /\ m < n => p < Len(s) /\ s[p + 1] = m + 1
         /\ m = n => p = Len(s)
         /\ p = 0 \/ s[p] # m =>
              RetainedStart(r) = IF m < n THEN StartAt(r, m + 1) ELSE r.total
<1> DEFINE n == Len(r.segments)
           m == Reached(r)
           p == Reached(t)
           q == Len(s)
<1>1. p \in 0..q /\ \A j \in 1..q : s[j] <= m <=> j <= p
  BY TrimReached
<1>2. WindowIs(r, n, m) /\ RetainedStart(r) \in 0..r.total
  BY WindowFacts, RetainedBounds
<1>3. /\ q \in Nat /\ \A j \in 1..q : s[j] \in 1..n
      /\ \A j, l \in 1..q : j < l => s[j] < s[l]
      /\ \A k \in 1..n : (\E j \in 1..q : s[j] = k) \/ EndAt(r, k) <= RetainedStart(r)
  BY DEF IsTrimOf, Segments
<1>4. /\ \A k \in 1..n : k + 1 \in 1..n =>
           EndAt(r, k) = StartAt(r, k + 1) \/ StartAt(r, k + 1) <= RetainedStart(r)
      /\ n > 0 => EndAt(r, n) = r.total \/ RetainedStart(r) = r.total
  BY <1>2, SegmentsAre DEF NoHole, Segments, WindowIs
<1>5. r.writing => RetainedStart(r) < EndAt(r, n)
  BY WritingIsLive
<1> HIDE DEF n, m, p, q
<1>6. m \in 1..n /\ n \in Nat
  BY <1>2 DEF WindowIs, m
<1>7. RetainedStart(r) =
        IF EndAt(r, m) <= Cutoff(r) THEN IF m < n THEN StartAt(r, m + 1) ELSE r.total
        ELSE IF ~r.segments[m].complete /\ r.writing THEN Cutoff(r) ELSE EndAt(r, m)
  BY <1>2, <1>6 DEF WindowIs
<1>8. ASSUME m < n
      PROVE  RetainedStart(r) <= StartAt(r, m + 1)
  <2>1. r.segments[m].complete
    BY <1>2, <1>6, <1>8 DEF WindowIs
  <2>2. EndAt(r, m) <= StartAt(r, m + 1)
    BY <1>2, <1>6, <1>8 DEF WindowIs
  <2> QED
    BY <1>2, <1>6, <1>7, <1>8, <2>1, <2>2 DEF WindowIs
<1>9. ASSUME m < n
      PROVE  p < q /\ s[p + 1] = m + 1
  <2>1. ~(EndAt(r, m + 1) <= RetainedStart(r))
    BY <1>2, <1>6, <1>8, <1>9 DEF WindowIs
  <2>2. PICK j \in 1..q : s[j] = m + 1
    BY <1>3, <1>6, <1>9, <2>1
  <2>3. j > p
    BY <1>1, <1>6, <2>2
  <2>4. j = p + 1
    <3>1. SUFFICES ASSUME j > p + 1
                   PROVE  FALSE
      BY <1>1, <2>3
    <3>2. p + 1 \in 1..q /\ s[p + 1] < m + 1 /\ s[p + 1] \in 1..n
      BY <1>1, <1>3, <2>2, <3>1
    <3>3. s[p + 1] <= m
      BY <1>6, <3>2
    <3> QED
      BY <1>1, <3>2, <3>3
  <2> QED
    BY <1>1, <1>3, <2>2, <2>4
<1>10. ASSUME m = n
       PROVE  p = q
  BY <1>1, <1>3, <1>6, <1>10
<1>11. ASSUME p = 0 \/ s[p] # m
       PROVE  RetainedStart(r) = IF m < n THEN StartAt(r, m + 1) ELSE r.total
  <2>1. \A j \in 1..q : s[j] # m
    BY <1>1, <1>3, <1>6, <1>11
  <2>2. EndAt(r, m) <= RetainedStart(r)
    BY <1>3, <1>6, <2>1
  <2>3. ~(~r.segments[m].complete /\ r.writing)
    <3>1. ~r.segments[m].complete /\ r.writing => m = n
      BY <1>2, <1>6 DEF WindowIs
    <3> QED
      BY <1>2, <1>5, <1>6, <2>2, <3>1 DEF WindowIs
  <2>4. CASE EndAt(r, m) <= Cutoff(r)
    BY <1>7, <2>4
  <2>5. CASE ~(EndAt(r, m) <= Cutoff(r))
    <3>1. RetainedStart(r) = EndAt(r, m)
      BY <1>7, <2>3, <2>5
    <3>2. CASE m < n
      <4>1. EndAt(r, m) = StartAt(r, m + 1) \/ StartAt(r, m + 1) <= RetainedStart(r)
        BY <1>4, <1>6, <3>2
      <4>2. EndAt(r, m) <= StartAt(r, m + 1) /\ StartAt(r, m + 1) \in Nat
        BY <1>2, <1>6, <3>2 DEF WindowIs
      <4> QED
        BY <1>2, <3>1, <3>2, <4>1, <4>2
    <3>3. CASE m = n
      BY <1>4, <1>6, <3>1, <3>3
    <3> QED
      BY <1>6, <3>2, <3>3
  <2> QED
    BY <2>4, <2>5
<1> QED
  BY <1>9, <1>10, <1>11 DEF n, m, p, q

\* A trim does not move the window.
LEMMA TrimKeepsWindow ==
  ASSUME SegmentedRecorderConstants, NEW t, NEW r, NEW s, Placed(r), NoHole(r),
         IsTrimOf(t, r, s)
  PROVE  RetainedStart(t) = RetainedStart(r)
<1> DEFINE n == Len(r.segments)
           m == Reached(r)
           p == Reached(t)
           q == Len(s)
<1>1. /\ WindowIs(r, n, m) /\ RetainedStart(r) \in 0..r.total
      /\ WindowIs(t, q, p)
  BY WindowFacts, RetainedBounds, TrimPlaced DEF IsTrimOf
<1>0. \A j \in 1..q : /\ s[j] \in 1..n
                      /\ StartAt(t, j) = StartAt(r, s[j])
                      /\ EndAt(t, j) = EndAt(r, s[j])
                      /\ t.segments[j] = r.segments[s[j]]
  BY TrimIs
<1>2. /\ t.total = r.total /\ t.writing = r.writing /\ Cutoff(t) = Cutoff(r)
      /\ \A j, l \in 1..q : j < l => s[j] < s[l]
      /\ \A k \in 1..n : (\E j \in 1..q : s[j] = k) \/ EndAt(r, k) <= RetainedStart(r)
  BY DEF IsTrimOf, Segments, Cutoff
<1>3. p \in 0..q /\ \A j \in 1..q : s[j] <= m <=> j <= p
  BY TrimReached
<1>4. r.total >= Window /\ m > 0 =>
        /\ m < n => p < q /\ s[p + 1] = m + 1
        /\ m = n => p = q
        /\ p = 0 \/ s[p] # m =>
             RetainedStart(r) = IF m < n THEN StartAt(r, m + 1) ELSE r.total
  BY TrimNext
<1> HIDE DEF n, m, p, q
<1>5. n \in Nat /\ m \in 0..n /\ q \in Nat /\ p \in 0..q
  BY <1>1 DEF WindowIs
<1>6. CASE n = 0
  <2>1. q = 0
    BY <1>0, <1>2, <1>5, <1>6
  <2> QED
    BY <1>0, <1>1, <1>2, <1>6, <2>1 DEF WindowIs
<1>7. CASE n > 0 /\ (r.total < Window \/ m = 0)
  <2>1. RetainedStart(r) = StartAt(r, 1)
    BY <1>1, <1>7 DEF WindowIs
  <2>2. PICK j \in 1..q : s[j] = 1
    <3>1. ~(EndAt(r, 1) <= RetainedStart(r))
      BY <1>1, <1>7, <2>1 DEF WindowIs
    <3> QED
      BY <1>0, <1>2, <1>5, <1>7, <3>1
  <2>3. j = 1
    BY <1>0, <1>2, <1>5, <2>2
  <2>4. m = 0 => p = 0
    BY <1>0, <1>2, <1>3, <1>5, <2>2
  <2>5. q > 0 /\ StartAt(t, 1) = StartAt(r, 1)
    BY <1>0, <1>2, <1>5, <2>2, <2>3
  <2> QED
    BY <1>0, <1>1, <1>2, <1>7, <2>1, <2>4, <2>5 DEF WindowIs
<1>8. CASE n > 0 /\ r.total >= Window /\ m > 0
  <2>1. CASE p = 0
    <3>1. RetainedStart(r) = IF m < n THEN StartAt(r, m + 1) ELSE r.total
      BY <1>4, <1>8, <2>1
    <3>2. RetainedStart(t) = IF q = 0 THEN t.total ELSE StartAt(t, 1)
      BY <1>1, <2>1 DEF WindowIs
    <3>3. m < n => q > 0 /\ StartAt(t, 1) = StartAt(r, m + 1)
      BY <1>0, <1>2, <1>4, <1>5, <1>8, <2>1
    <3>4. m = n => q = 0
      BY <1>4, <1>8, <2>1
    <3> QED
      BY <1>0, <1>2, <1>5, <3>1, <3>2, <3>3, <3>4
  <2>2. CASE p > 0
    <3>1. RetainedStart(t) =
            IF EndAt(r, s[p]) <= Cutoff(r)
            THEN IF p < q THEN StartAt(r, s[p + 1]) ELSE r.total
            ELSE IF ~r.segments[s[p]].complete /\ r.writing THEN Cutoff(r)
            ELSE EndAt(r, s[p])
      <4>1. RetainedStart(t) =
              IF EndAt(t, p) <= Cutoff(t)
              THEN IF p < q THEN StartAt(t, p + 1) ELSE t.total
              ELSE IF ~t.segments[p].complete /\ t.writing THEN Cutoff(t)
              ELSE EndAt(t, p)
        BY <1>0, <1>1, <1>2, <1>5, <1>8, <2>2 DEF WindowIs
      <4>2. EndAt(t, p) = EndAt(r, s[p]) /\ t.segments[p] = r.segments[s[p]]
        BY <1>0, <1>2, <1>5, <2>2
      <4>3. p < q => StartAt(t, p + 1) = StartAt(r, s[p + 1])
        BY <1>0, <1>2, <1>5
      <4> QED
        BY <1>0, <1>2, <4>1, <4>2, <4>3
    <3>2. (IF p < q THEN StartAt(r, s[p + 1]) ELSE r.total)
            = IF m < n THEN StartAt(r, m + 1) ELSE r.total
      BY <1>4, <1>5, <1>8
    <3>3. CASE s[p] = m
      <4>1. RetainedStart(r) =
              IF EndAt(r, m) <= Cutoff(r)
              THEN IF m < n THEN StartAt(r, m + 1) ELSE r.total
              ELSE IF ~r.segments[m].complete /\ r.writing THEN Cutoff(r)
              ELSE EndAt(r, m)
        BY <1>1, <1>8 DEF WindowIs
      <4> QED
        BY <3>1, <3>2, <3>3, <4>1
    <3>4. CASE s[p] # m
      <4>1. RetainedStart(r) = IF m < n THEN StartAt(r, m + 1) ELSE r.total
        BY <1>4, <1>8, <3>4
      <4>2. s[p] \in 1..n /\ s[p] < m
        <5>1. p \in 1..q /\ m \in Nat
          BY <1>5, <2>2
        <5>2. s[p] \in 1..n
          BY <1>0, <5>1
        <5>3. s[p] <= m
          BY <1>3, <5>1
        <5> QED
          BY <1>5, <3>4, <5>1, <5>2, <5>3
      <4>3. EndAt(r, s[p]) <= StartAt(r, m) /\ StartAt(r, m) <= Cutoff(r)
        BY <1>1, <1>5, <1>8, <4>2 DEF WindowIs
      <4>4. EndAt(r, s[p]) <= Cutoff(r)
        BY <1>1, <1>5, <1>8, <4>2, <4>3 DEF WindowIs
      <4> QED
        BY <3>1, <3>2, <4>1, <4>4
    <3> QED
      BY <3>3, <3>4
  <2> QED
    BY <1>5, <2>1, <2>2
<1> QED
  BY <1>1, <1>5, <1>6, <1>7, <1>8 DEF WindowIs

\* Nor does it open a hole in it.
LEMMA TrimNoHole ==
  ASSUME SegmentedRecorderConstants, NEW t, NEW r, NEW s, Placed(r), NoHole(r),
         IsTrimOf(t, r, s)
  PROVE  NoHole(t)
<1> DEFINE n == Len(r.segments)
           q == Len(s)
           R == RetainedStart(r)
<1>1. /\ n \in Nat /\ q \in Nat /\ R \in 0..r.total /\ r.total \in Nat
      /\ \A k \in 1..n : StartAt(r, k) \in Nat /\ EndAt(r, k) \in Nat
  BY SegmentsAre, RetainedBounds DEF IsTrimOf, Segments, Placed
<1>0. \A j \in 1..q : /\ s[j] \in 1..n
                      /\ StartAt(t, j) = StartAt(r, s[j])
                      /\ EndAt(t, j) = EndAt(r, s[j])
  BY TrimIs
<1>2. /\ t.total = r.total
      /\ \A j, l \in 1..q : j < l => s[j] < s[l]
      /\ \A k \in 1..n : (\E j \in 1..q : s[j] = k) \/ EndAt(r, k) <= R
  BY DEF IsTrimOf, Segments
<1>3. /\ \A k \in 1..n : k + 1 \in 1..n =>
           EndAt(r, k) = StartAt(r, k + 1) \/ StartAt(r, k + 1) <= R
      /\ n > 0 => EndAt(r, n) = r.total \/ R = r.total
  BY <1>1, SegmentsAre DEF NoHole, Segments
<1>4. RetainedStart(t) = R /\ Segments(t) = 1..q
  BY TrimKeepsWindow DEF IsTrimOf, Segments
<1> HIDE DEF n, q, R
<1>5. ASSUME NEW j \in 1..q, j + 1 \in 1..q
      PROVE  EndAt(t, j) = StartAt(t, j + 1) \/ StartAt(t, j + 1) <= R
  <2>1. /\ s[j] \in 1..n /\ s[j + 1] \in 1..n /\ s[j] < s[j + 1]
        /\ StartAt(t, j + 1) = StartAt(r, s[j + 1]) /\ EndAt(t, j) = EndAt(r, s[j])
    BY <1>0, <1>1, <1>2, <1>5
  <2>2. CASE s[j] + 1 = s[j + 1]
    BY <1>1, <1>3, <2>1, <2>2
  <2>3. CASE s[j] + 1 < s[j + 1]
    <3> DEFINE k == s[j + 1] - 1
    <3>1. k \in 1..n /\ k + 1 \in 1..n /\ k + 1 = s[j + 1] /\ s[j] < k
      BY <1>1, <2>1, <2>3
    <3>2. \A l \in 1..q : s[l] # k
      <4>1. SUFFICES ASSUME NEW l \in 1..q, s[l] = k
                     PROVE  FALSE
        OBVIOUS
      <4>2. l <= j \/ j + 1 <= l
        BY <1>1
      <4>3. s[l] <= s[j] \/ s[j + 1] <= s[l]
        <5>1. CASE l = j \/ l = j + 1
          BY <2>1, <5>1
        <5>2. CASE l < j
          BY <1>2, <1>5, <4>1, <5>2, <2>1
        <5>3. CASE j + 1 < l
          BY <1>2, <1>5, <4>1, <5>3, <2>1
        <5> QED
          BY <1>0, <1>5, <4>1, <4>2, <5>1, <5>2, <5>3
      <4> QED
        BY <1>1, <2>1, <3>1, <4>1, <4>3
    <3>3. EndAt(r, k) <= R
      BY <1>0, <1>2, <3>1, <3>2
    <3>4. EndAt(r, k) = StartAt(r, s[j + 1]) \/ StartAt(r, s[j + 1]) <= R
      BY <1>3, <3>1
    <3> QED
      BY <2>1, <3>3, <3>4
  <2> QED
    BY <1>1, <2>1, <2>2, <2>3
<1>6. ASSUME q > 0
      PROVE  EndAt(t, q) = t.total \/ R = t.total
  <2>1. s[q] \in 1..n /\ EndAt(t, q) = EndAt(r, s[q])
    BY <1>0, <1>1, <1>2, <1>6
  <2>2. CASE s[q] = n
    BY <1>0, <1>1, <1>2, <1>3, <2>1, <2>2
  <2>3. CASE s[q] # n
    <3>1. \A l \in 1..q : s[l] # n
      <4>1. SUFFICES ASSUME NEW l \in 1..q, s[l] = n
                     PROVE  FALSE
        OBVIOUS
      <4>2. l = q \/ s[l] < s[q]
        BY <1>0, <1>1, <1>2, <1>6
      <4> QED
        BY <1>1, <2>1, <2>3, <4>1, <4>2
    <3>2. EndAt(r, n) <= R
      BY <1>0, <1>1, <1>2, <2>1, <3>1
    <3> QED
      BY <1>0, <1>1, <1>2, <1>3, <2>1, <3>2
  <2> QED
    BY <2>2, <2>3
<1>7. t.segments # << >> => q > 0
  <2>1. Placed(t) /\ Len(t.segments) = q
    BY TrimPlaced DEF IsTrimOf, q
  <2> QED
    BY <1>1, <2>1, SegmentsAre
<1>8. Len(t.segments) = q
  BY DEF IsTrimOf, q
<1> QED
  BY <1>4, <1>5, <1>6, <1>7, <1>8 DEF NoHole

-----------------------------------------------------------------------------
(* Recording *)

IsShape(r) ==
  r = [segments |-> r.segments, files |-> r.files, total |-> r.total,
       writing |-> r.writing, heard |-> r.heard]

\* A new file gets a name that no file has, behind those of the segments.
LEMMA NextIndexIs ==
  ASSUME NEW r, IsFiniteSet(DOMAIN r.files), NEW first \in Nat,
         first = IF r.segments = << >> THEN 0 ELSE Last(r.segments).index + 1
  PROVE  NextIndex(r) \in Nat /\ first <= NextIndex(r) /\ NextIndex(r) \notin DOMAIN r.files
<1> DEFINE D == DOMAIN r.files
           free == {i \in first .. first + Cardinality(D) : i \notin D}
<1>1. Cardinality(D) \in Nat
  BY FS_CardinalityType
<1>2. Cardinality(first .. first + Cardinality(D)) = Cardinality(D) + 1
  <2> DEFINE last == first + Cardinality(D)
  <2>1. last \in Int /\ first \in Int /\ ~(first > last) /\ last - first = Cardinality(D)
    BY <1>1
  <2> HIDE DEF last
  <2>2. Cardinality(first .. last) = last - first + 1
    <3>1. Cardinality(first .. last) = IF first > last THEN 0 ELSE last - first + 1
      BY <2>1, FS_Interval, Zenon
    <3> QED
      BY <2>1, <3>1
  <2>3. Cardinality(first .. last) = Cardinality(D) + 1
    BY <1>1, <2>1, <2>2
  <2> QED
    BY <2>3 DEF last
<1>3. free # {}
  <2>1. SUFFICES ASSUME first .. first + Cardinality(D) \subseteq D
                 PROVE  FALSE
    OBVIOUS
  <2>2. Cardinality(first .. first + Cardinality(D)) <= Cardinality(D)
    BY <2>1, FS_Subset
  <2> QED
    BY <1>1, <1>2, <2>2
<1>4. free \subseteq Nat
  BY <1>1
<1>5. \E i \in free : \A j \in free : i <= j
  <2> HIDE DEF free
  <2> QED
    BY <1>3, <1>4, LeastExists
<1>6. NextIndex(r) = CHOOSE i \in free : \A j \in free : i <= j
  BY DEF NextIndex
<1>7. NextIndex(r) \in free
  <2> HIDE DEF free
  <2> QED
    BY <1>5, <1>6
<1> QED
  BY <1>1, <1>7

\* A segment is written: the n-th, in file i, which had s samples, of which "flushed"
\* have left the buffer.
WrittenAt(w, r, c, n, i, begin, s, first, flushed) ==
  /\ IsShape(w)
  /\ w.segments \in Seq(SegmentInfo) /\ Len(w.segments) = n
  /\ \A k \in 1..n - 1 : w.segments[k] = r.segments[k]
  /\ w.segments[n] = [index |-> i, start_sample |-> begin, sample_count |-> s + c,
                      complete |-> s + c = SegmentSize]
  /\ DOMAIN w.files = DOMAIN r.files \cup {i}
  /\ \A j \in DOMAIN r.files : j # i => w.files[j] = r.files[j]
  /\ w.files[i] = [first |-> first, count |-> s + c,
                   flushed |-> IF s + c = SegmentSize THEN s + c ELSE flushed]
  /\ w.total = r.total + c /\ w.heard = r.heard + c
  /\ w.writing = (s + c # SegmentSize)

LEMMA WrittenOn ==
  ASSUME SegmentedRecorderConstants, NEW r, IsRecorder(r), r.writing, NEW c \in Nat,
         NEW n, n = Len(r.segments), n > 0,
         NEW i, i = r.segments[n].index, i \in DOMAIN r.files
  PROVE  WrittenAt(Written(r, c), r, c, n, i, r.segments[n].start_sample,
                   r.segments[n].sample_count, r.files[i].first, r.files[i].flushed)
<1> DEFINE w == Written(r, c)
           s == r.segments[n].sample_count
           full == s + c = SegmentSize
           segment == [index |-> i, start_sample |-> r.segments[n].start_sample,
                       sample_count |-> s + c, complete |-> full]
           file == [first |-> r.files[i].first, count |-> s + c,
                    flushed |-> IF full THEN s + c ELSE r.files[i].flushed]
<1>1. n \in Nat /\ r.segments \in Seq(SegmentInfo) /\ r.segments[n] \in SegmentInfo
  BY DEF IsRecorder
<1>2. r.files[i] \in PcmFile
  BY DEF IsRecorder
<1>4. w = [r EXCEPT !.segments = [@ EXCEPT ![n] = segment], !.files = [@ EXCEPT ![i] = file],
                    !.total = @ + c, !.heard = @ + c, !.writing = ~full]
  BY DEF Written, WithCurrent
<1>5. /\ w.segments = [r.segments EXCEPT ![n] = segment]
      /\ w.files = [r.files EXCEPT ![i] = file]
      /\ w.total = r.total + c /\ w.heard = r.heard + c /\ w.writing = ~full
      /\ IsShape(w)
  <2> HIDE DEF segment, file, w
  <2> QED
    BY <1>4 DEF IsRecorder, IsShape
<1>7. segment \in SegmentInfo
  BY <1>1 DEF SegmentInfo
<1>8. w.segments \in Seq(SegmentInfo) /\ Len(w.segments) = n /\ w.segments[n] = segment
  <2> HIDE DEF segment
  <2> QED
    BY <1>1, <1>5, <1>7
<1>9. \A k \in 1..n - 1 : w.segments[k] = r.segments[k]
  <2> HIDE DEF segment
  <2> QED
    BY <1>1, <1>5
<1>10. /\ DOMAIN w.files = DOMAIN r.files \cup {i}
       /\ \A j \in DOMAIN r.files : j # i => w.files[j] = r.files[j]
       /\ w.files[i] = file
  <2> HIDE DEF file
  <2> QED
    BY <1>5
<1> HIDE DEF w
<1>11. w.writing = (s + c # SegmentSize)
  BY <1>5
<1> QED
  BY <1>5, <1>8, <1>9, <1>10, <1>11 DEF WrittenAt, w

LEMMA WrittenNew ==
  ASSUME SegmentedRecorderConstants, NEW r, IsRecorder(r), ~r.writing, NEW c \in Nat,
         NextIndex(r) \in Nat, NextIndex(r) \notin DOMAIN r.files
  PROVE  WrittenAt(Written(r, c), r, c, Len(r.segments) + 1, NextIndex(r), r.total,
                   0, r.heard, 0)
<1> DEFINE i == NextIndex(r)
           n == Len(r.segments) + 1
           begun == WithCurrent(r)
           segment == [index |-> i, start_sample |-> r.total, sample_count |-> 0,
                       complete |-> FALSE]
           file == [first |-> r.heard, count |-> 0, flushed |-> 0]
<1>1. /\ Len(r.segments) \in Nat /\ r.segments \in Seq(SegmentInfo)
      /\ r.total \in Nat /\ r.heard \in Nat /\ n \in Nat /\ n > 0
  BY DEF IsRecorder
<1>2. segment \in SegmentInfo /\ file \in PcmFile
  BY <1>1 DEF SegmentInfo, PcmFile
<1>3. begun = [r EXCEPT !.segments = Append(@, segment),
                        !.files = [j \in DOMAIN @ \cup {i} |-> IF j = i THEN file ELSE @[j]],
                        !.writing = TRUE]
  BY DEF WithCurrent
<1> HIDE DEF segment, file, begun, i
<1>4. /\ begun.segments = Append(r.segments, segment)
      /\ begun.files = [j \in DOMAIN r.files \cup {i} |-> IF j = i THEN file ELSE r.files[j]]
      /\ begun.writing = TRUE /\ begun.total = r.total /\ begun.heard = r.heard
      /\ IsShape(begun)
  BY <1>3 DEF IsRecorder, IsShape
<1>5. /\ begun.segments \in Seq(SegmentInfo) /\ Len(begun.segments) = n
      /\ begun.segments[n] = segment
      /\ \A k \in 1..n - 1 : begun.segments[k] = r.segments[k]
  BY <1>1, <1>2, <1>4
<1>6. /\ DOMAIN begun.files = DOMAIN r.files \cup {i}
      /\ begun.files[i] = file
      /\ \A j \in DOMAIN r.files : j # i => begun.files[j] = r.files[j]
  BY <1>4
<1>7. IsRecorder(begun)
  <2>1. file.flushed <= file.count
    BY DEF file
  <2>2. \A j \in DOMAIN begun.files :
          begun.files[j] \in PcmFile /\ begun.files[j].flushed <= begun.files[j].count
    BY <1>2, <1>6, <2>1 DEF IsRecorder
  <2>3. DOMAIN begun.files \subseteq Nat
    BY <1>6 DEF IsRecorder, i
  <2> QED
    BY <1>1, <1>4, <1>5, <2>2, <2>3 DEF IsRecorder, IsShape
<1>8. Written(r, c) = Written(begun, c)
  BY <1>4 DEF Written, WithCurrent, begun
<1>9. /\ segment.index = i /\ segment.start_sample = r.total /\ segment.sample_count = 0
      /\ file.first = r.heard /\ file.flushed = 0
  BY DEF segment, file
<1>10. WrittenAt(Written(begun, c), begun, c, n, i, r.total, 0, r.heard, 0)
  <2>1. i = begun.segments[n].index /\ i \in DOMAIN begun.files
    BY <1>5, <1>6, <1>9
  <2>2. WrittenAt(Written(begun, c), begun, c, n, i, begun.segments[n].start_sample,
                  begun.segments[n].sample_count, begun.files[i].first,
                  begun.files[i].flushed)
    BY <1>1, <1>4, <1>5, <1>7, <2>1, WrittenOn
  <2> QED
    BY <1>5, <1>6, <1>9, <2>2
<1> DEFINE w == Written(begun, c)
<1> HIDE DEF w
<1>11. \A j \in DOMAIN r.files : j # i => w.files[j] = r.files[j]
  BY <1>6, <1>10 DEF WrittenAt, w
<1>12. \A k \in 1..n - 1 : w.segments[k] = r.segments[k]
  BY <1>5, <1>10 DEF WrittenAt, w
<1>13. DOMAIN w.files = DOMAIN r.files \cup {i}
  BY <1>6, <1>10 DEF WrittenAt, w
<1>14. WrittenAt(w, r, c, n, i, r.total, 0, r.heard, 0)
  BY <1>4, <1>10, <1>11, <1>12, <1>13 DEF WrittenAt, w
<1> QED
  BY <1>8, <1>14 DEF w, i

FileOf(r, k) == r.files[r.segments[k].index]

\* The segments and the files are the same audio, in the same order: a file that
\* holds anything is some segment's, and a complete one has left the buffer.
Filed(r) ==
  /\ IsRecorder(r)
  /\ IsFiniteSet(DOMAIN r.files)
  /\ \A k \in Segments(r) :
       /\ r.segments[k].index \in DOMAIN r.files
       /\ FileOf(r, k).count = r.segments[k].sample_count
       /\ FileOf(r, k).first + r.segments[k].sample_count <= r.heard
       /\ r.segments[k].complete => FileOf(r, k).flushed = r.segments[k].sample_count
  /\ \A k, l \in Segments(r) : k < l =>
       /\ r.segments[k].index < r.segments[l].index
       /\ FileOf(r, k).first + r.segments[k].sample_count <= FileOf(r, l).first
  /\ \A i \in DOMAIN r.files : r.files[i].count > 0 =>
       \E k \in Segments(r) : r.segments[k].index = i

Sound(r) == Placed(r) /\ Filed(r) /\ NoHole(r)

\* Where the next samples go: into the last segment, or into one of their own.
WritesAt(r, n, i, begin, s, first, flushed) ==
  /\ n \in Nat /\ Len(r.segments) \in Nat
  /\ n > 0 /\ (n = Len(r.segments) \/ n = Len(r.segments) + 1)
  /\ begin \in Nat /\ s \in Nat /\ begin + s = r.total
  /\ i \in Nat /\ first \in Nat /\ first + s <= r.heard /\ flushed \in 0..s
  /\ \A k \in 1..n - 1 :
       /\ r.segments[k].complete /\ EndAt(r, k) <= begin
       /\ r.segments[k].index < i
       /\ FileOf(r, k).first + r.segments[k].sample_count <= first
  /\ \A j \in DOMAIN r.files : j # i /\ r.files[j].count > 0 =>
       \E k \in 1..n - 1 : r.segments[k].index = j
  /\ n = Len(r.segments) =>
       r.writing /\ StartAt(r, n) = begin /\ EndAt(r, n) = r.total
  /\ n = Len(r.segments) + 1 => begin = r.total
  /\ n > 1 => EndAt(r, n - 1) = begin \/ begin <= RetainedStart(r)
  /\ i \in DOMAIN r.files => flushed = r.files[i].flushed
  /\ Remaining(r) = SegmentSize - s

LEMMA WrittenWhere ==
  ASSUME SegmentedRecorderConstants, NEW r, Sound(r)
  PROVE  \E n, i, begin, s, first, flushed :
           /\ WritesAt(r, n, i, begin, s, first, flushed)
           /\ \A c \in Nat : WrittenAt(Written(r, c), r, c, n, i, begin, s, first, flushed)
<1> DEFINE q == Len(r.segments)
<1>1. /\ q \in Nat /\ r.total \in Nat /\ r.heard \in Nat /\ r.segments \in Seq(SegmentInfo)
      /\ Placed(r) /\ Filed(r) /\ NoHole(r) /\ IsRecorder(r) /\ IsFiniteSet(DOMAIN r.files)
      /\ DOMAIN r.files \subseteq Nat
      /\ \A j \in DOMAIN r.files : r.files[j] \in PcmFile /\ r.files[j].flushed <= r.files[j].count
      /\ \A k \in 1..q : r.segments[k] \in SegmentInfo
  BY SegmentsAre DEF Sound, Filed, IsRecorder, Segments
<1>2. WindowIs(r, q, Reached(r)) /\ RetainedStart(r) \in 0..r.total
  BY <1>1, WindowFacts, RetainedBounds
<1>3. r.segments = << >> <=> q = 0
  BY <1>1, SegmentsAre
<1>4. CASE r.writing
  <2> DEFINE i == r.segments[q].index
             begin == r.segments[q].start_sample
             s == r.segments[q].sample_count
             first == r.files[i].first
             flushed == r.files[i].flushed
  <2>1. q > 0 /\ q \in Segments(r) /\ EndAt(r, q) = r.total /\ begin + s = r.total
    BY <1>1, <1>2, <1>4 DEF WindowIs, EndAt, EndSample, Segments
  <2>2. /\ i \in DOMAIN r.files /\ r.files[i].count = s /\ first + s <= r.heard
        /\ FileOf(r, q).first = first
    BY <1>1, <2>1 DEF Filed, FileOf
  <2>3. /\ begin \in Nat /\ s \in Nat /\ i \in Nat /\ first \in Nat /\ flushed \in 0..s
        /\ r.files[i] \in PcmFile
    <3>1. r.segments[q] \in SegmentInfo
      BY <1>1, <2>1 DEF Segments
    <3>2. begin \in Nat /\ s \in Nat /\ i \in Nat
      <4> HIDE DEF q
      <4> QED
        BY <3>1 DEF SegmentInfo
    <3>3. r.files[i] \in PcmFile /\ r.files[i].flushed <= r.files[i].count
      BY <1>1, <2>2
    <3>4. first \in Nat /\ flushed \in Nat /\ flushed <= s
      <4> HIDE DEF i, s
      <4> QED
        BY <2>2, <3>3 DEF PcmFile
    <3> QED
      BY <3>2, <3>3, <3>4
  <2>4. ASSUME NEW k \in 1..q - 1
        PROVE  /\ r.segments[k].complete /\ EndAt(r, k) <= begin
               /\ r.segments[k].index < i
               /\ FileOf(r, k).first + r.segments[k].sample_count <= first
    <3>1. k \in Segments(r) /\ k < q /\ k # q
      BY <1>1 DEF Segments
    <3>2. r.segments[k].complete
      BY <1>1, <3>1 DEF Placed
    <3>3. EndAt(r, k) <= begin
      BY <1>1, <2>1, <3>1 DEF Placed, StartAt
    <3>4. /\ r.segments[k].index < i
          /\ FileOf(r, k).first + r.segments[k].sample_count <= FileOf(r, q).first
      BY <1>1, <2>1, <3>1 DEF Filed
    <3> QED
      BY <2>2, <3>2, <3>3, <3>4
  <2>5. ASSUME NEW j \in DOMAIN r.files, j # i, r.files[j].count > 0
        PROVE  \E k \in 1..q - 1 : r.segments[k].index = j
    <3>1. PICK k \in Segments(r) : r.segments[k].index = j
      BY <1>1, <2>5 DEF Filed
    <3>2. k # q
      BY <2>5, <3>1
    <3> QED
      BY <1>1, <3>1, <3>2 DEF Segments
  <2>6. q > 1 => EndAt(r, q - 1) = begin \/ begin <= RetainedStart(r)
    BY <1>1, <2>1 DEF NoHole, Segments, StartAt
  <2>7. Remaining(r) = SegmentSize - s
    BY <1>4 DEF Remaining, Last
  <2>8. WritesAt(r, q, i, begin, s, first, flushed)
    <3>1. StartAt(r, q) = begin /\ flushed = r.files[i].flushed
      BY DEF StartAt
    <3> HIDE DEF i, begin, s, first, flushed, q
    <3>2. Len(r.segments) = q
      BY DEF q
    <3> QED
      BY <1>1, <1>4, <2>1, <2>2, <2>3, <2>4, <2>5, <2>6, <2>7, <3>1, <3>2 DEF WritesAt
  <2>9. \A c \in Nat : WrittenAt(Written(r, c), r, c, q, i, begin, s, first, flushed)
    BY <1>1, <1>4, <2>1, <2>2, WrittenOn
  <2> QED
    BY <2>8, <2>9
<1>5. CASE ~r.writing
  <2> DEFINE n == q + 1
             i == NextIndex(r)
             next == IF r.segments = << >> THEN 0 ELSE Last(r.segments).index + 1
  <2>1. \A k \in 1..q : r.segments[k].index \in Nat
    BY <1>1 DEF SegmentInfo
  <2>2. next \in Nat /\ \A k \in 1..q : r.segments[k].index < next
    <3>1. CASE q = 0
      BY <1>3, <3>1
    <3>2. CASE q > 0
      <4>1. next = r.segments[q].index + 1
        BY <1>3, <3>2 DEF Last
      <4>2. \A k \in 1..q : k = q \/ r.segments[k].index < r.segments[q].index
        BY <1>1, <3>2 DEF Filed, Segments
      <4> HIDE DEF next
      <4> QED
        BY <1>1, <2>1, <3>2, <4>1, <4>2
    <3> QED
      BY <1>1, <3>1, <3>2
  <2>3. i \in Nat /\ next <= i /\ i \notin DOMAIN r.files
    <3> HIDE DEF next
    <3>1. next = IF r.segments = << >> THEN 0 ELSE Last(r.segments).index + 1
      BY DEF next
    <3> QED
      BY <1>1, <2>2, <3>1, NextIndexIs
  <2> HIDE DEF next, i
  <2>4. ASSUME NEW k \in 1..q
        PROVE  /\ r.segments[k].complete /\ EndAt(r, k) <= r.total
               /\ r.segments[k].index < i
               /\ FileOf(r, k).first + r.segments[k].sample_count <= r.heard
    <3>1. r.segments[k].complete /\ EndAt(r, k) <= r.total
      BY <1>1, <1>5 DEF Placed, Segments
    <3>2. FileOf(r, k).first + r.segments[k].sample_count <= r.heard
      BY <1>1 DEF Filed, Segments
    <3> QED
      BY <2>1, <2>2, <2>3, <3>1, <3>2
  <2>5. n - 1 = q /\ n \in Nat /\ n > 0 /\ Len(r.segments) = q
    BY <1>1
  <2>6. ASSUME NEW j \in DOMAIN r.files, r.files[j].count > 0
        PROVE  \E k \in 1..q : r.segments[k].index = j
    BY <1>1, <2>6 DEF Filed, Segments
  <2>7. q > 0 => EndAt(r, q) = r.total \/ r.total <= RetainedStart(r)
    BY <1>1, <1>2, <1>3 DEF NoHole
  <2>8. Remaining(r) = SegmentSize - 0
    BY <1>5 DEF Remaining, SegmentedRecorderConstants
  <2>9. WritesAt(r, n, i, r.total, 0, r.heard, 0)
    <3> HIDE DEF n
    <3>1. n = q + 1
      BY DEF n
    <3> HIDE DEF q
    <3> QED
      BY <1>1, <2>3, <2>4, <2>5, <2>6, <2>7, <2>8, <3>1 DEF WritesAt
  <2>10. \A c \in Nat : WrittenAt(Written(r, c), r, c, n, i, r.total, 0, r.heard, 0)
    BY <1>1, <1>5, <2>3, WrittenNew DEF i
  <2> QED
    BY <2>9, <2>10
<1> QED
  BY <1>2, <1>4, <1>5 DEF WindowIs

Grows(w, r, c, n, i, begin, s, first, flushed) ==
  /\ WritesAt(r, n, i, begin, s, first, flushed)
  /\ WrittenAt(w, r, c, n, i, begin, s, first, flushed)
  /\ c \in Nat \ {0} /\ s + c <= SegmentSize

LEMMA GrownIs ==
  ASSUME SegmentedRecorderConstants, NEW r, Sound(r), NEW w, NEW c, NEW n, NEW i,
         NEW begin, NEW s, NEW first, NEW flushed,
         Grows(w, r, c, n, i, begin, s, first, flushed)
  PROVE  /\ n \in Nat /\ n > 0 /\ Len(w.segments) = n
         /\ \A k \in 1..n - 1 : /\ w.segments[k] = r.segments[k] /\ k \in Segments(r)
                                /\ StartAt(w, k) = StartAt(r, k) /\ EndAt(w, k) = EndAt(r, k)
         /\ StartAt(w, n) = begin /\ EndAt(w, n) = w.total
         /\ w.total = r.total + c /\ w.total \in Nat
         /\ w.segments[n].sample_count = s + c /\ w.segments[n].index = i
         /\ w.segments[n].complete = (s + c = SegmentSize)
         /\ w.writing = (s + c # SegmentSize)
<1>1. /\ n \in Nat /\ n > 0 /\ (n = Len(r.segments) \/ n = Len(r.segments) + 1)
      /\ Len(r.segments) \in Nat /\ begin \in Nat /\ s \in Nat /\ begin + s = r.total
      /\ c \in Nat
  BY DEF Grows, WritesAt
<1>2. /\ Len(w.segments) = n
      /\ \A k \in 1..n - 1 : w.segments[k] = r.segments[k]
      /\ w.segments[n] = [index |-> i, start_sample |-> begin, sample_count |-> s + c,
                          complete |-> s + c = SegmentSize]
      /\ w.total = r.total + c
      /\ w.writing = (s + c # SegmentSize)
  BY DEF Grows, WrittenAt
<1>3. \A k \in 1..n - 1 : k \in Segments(r)
  BY <1>1 DEF Segments
<1>4. /\ w.segments[n].start_sample = begin /\ w.segments[n].sample_count = s + c
      /\ w.segments[n].index = i /\ w.segments[n].complete = (s + c = SegmentSize)
  BY <1>2
<1>5. StartAt(w, n) = begin /\ EndAt(w, n) = begin + (s + c)
  BY <1>4 DEF StartAt, EndAt, EndSample
<1>6. begin + (s + c) = w.total /\ w.total \in Nat
  BY <1>1, <1>2
<1>7. \A k \in 1..n - 1 : StartAt(w, k) = StartAt(r, k) /\ EndAt(w, k) = EndAt(r, k)
  BY <1>2 DEF StartAt, EndAt
<1> QED
  BY <1>1, <1>2, <1>3, <1>4, <1>5, <1>6, <1>7

LEMMA GrownPlaced ==
  ASSUME SegmentedRecorderConstants, NEW r, Sound(r), NEW w, NEW c, NEW n, NEW i,
         NEW begin, NEW s, NEW first, NEW flushed,
         Grows(w, r, c, n, i, begin, s, first, flushed)
  PROVE  Placed(w)
<1>1. /\ n \in Nat /\ n > 0 /\ Len(w.segments) = n
      /\ \A k \in 1..n - 1 : /\ w.segments[k] = r.segments[k] /\ k \in Segments(r)
                             /\ StartAt(w, k) = StartAt(r, k) /\ EndAt(w, k) = EndAt(r, k)
      /\ StartAt(w, n) = begin /\ EndAt(w, n) = w.total
      /\ w.total = r.total + c /\ w.total \in Nat
      /\ w.segments[n].sample_count = s + c
      /\ w.segments[n].complete = (s + c = SegmentSize)
      /\ w.writing = (s + c # SegmentSize)
  BY GrownIs
<1>2. /\ w.segments \in Seq(SegmentInfo)
      /\ c \in Nat \ {0} /\ s \in Nat /\ s + c <= SegmentSize
      /\ \A k \in 1..n - 1 : r.segments[k].complete /\ EndAt(r, k) <= begin
  BY DEF Grows, WritesAt, WrittenAt
<1>3. /\ \A k \in Segments(r) : /\ r.segments[k].sample_count > 0
                                /\ EndAt(r, k) <= r.total /\ EndAt(r, k) \in Nat
      /\ \A k, l \in Segments(r) : k < l => EndAt(r, k) <= StartAt(r, l)
      /\ r.total \in Nat
  BY SegmentsAre DEF Sound, Placed
<1>4. ASSUME NEW k \in 1..n
      PROVE  /\ w.segments[k].sample_count > 0
             /\ EndAt(w, k) <= w.total
             /\ w.segments[k].complete \/ (w.writing /\ k = n)
  <2>1. CASE k = n
    <3>1. s + c > 0
      BY <1>2
    <3>2. w.segments[n].complete \/ w.writing
      BY <1>1
    <3> QED
      BY <1>1, <2>1, <3>1, <3>2
  <2>2. CASE k \in 1..n - 1
    <3>1. EndAt(w, k) <= w.total
      BY <1>1, <1>2, <1>3, <2>2
    <3> QED
      BY <1>1, <1>2, <1>3, <2>2, <3>1
  <2> QED
    BY <1>1, <2>1, <2>2
<1>5. ASSUME NEW k \in 1..n, NEW l \in 1..n, k < l
      PROVE  EndAt(w, k) <= StartAt(w, l)
  <2>1. k \in 1..n - 1
    BY <1>1, <1>5
  <2>2. CASE l = n
    BY <1>1, <1>2, <2>1, <2>2
  <2>3. CASE l \in 1..n - 1
    BY <1>1, <1>3, <1>5, <2>1, <2>3
  <2> QED
    BY <1>1, <2>2, <2>3
<1>6. w.writing \in BOOLEAN
  BY <1>1
<1>7. w.segments # << >> /\ Last(w.segments) = w.segments[n] /\ Segments(w) = 1..n
  BY <1>1 DEF Last, Segments
<1>8. w.writing => /\ ~Last(w.segments).complete
                   /\ Last(w.segments).sample_count < SegmentSize
                   /\ EndSample(Last(w.segments)) = w.total
  <2>1. EndSample(Last(w.segments)) = w.total
    BY <1>1, <1>7 DEF EndAt
  <2>2. w.writing => s + c < SegmentSize /\ ~w.segments[n].complete
    <3>1. s + c \in Nat /\ SegmentSize \in Nat
      BY <1>2 DEF SegmentedRecorderConstants
    <3>2. w.writing => s + c # SegmentSize
      BY <1>1
    <3>3. s + c # SegmentSize => ~w.segments[n].complete
      BY <1>1
    <3> QED
      BY <1>2, <3>1, <3>2, <3>3
  <2> QED
    BY <1>1, <1>7, <2>1, <2>2
<1> QED
  BY <1>1, <1>2, <1>4, <1>5, <1>6, <1>7, <1>8 DEF Placed

\* The window only moves forward.
LEMMA GrownWindow ==
  ASSUME SegmentedRecorderConstants, NEW r, Sound(r), NEW w, NEW c, NEW n, NEW i,
         NEW begin, NEW s, NEW first, NEW flushed,
         Grows(w, r, c, n, i, begin, s, first, flushed)
  PROVE  RetainedStart(w) >= RetainedStart(r)
<1> DEFINE q == Len(r.segments)
           m == Reached(r)
           p == Reached(w)
<1>1. /\ WindowIs(r, q, m) /\ RetainedStart(r) \in 0..r.total
  BY WindowFacts, RetainedBounds DEF Sound
<1>2. /\ Placed(w) /\ Len(w.segments) = n
      /\ WindowIs(w, n, p) /\ RetainedStart(w) \in 0..w.total
      /\ Cutoff(w) <= RetainedStart(w)
      /\ \A k \in 1..n : k = 1 \/ (k <= p /\ w.total >= Window) =>
              StartAt(w, k) <= RetainedStart(w)
  BY GrownIs, GrownPlaced, WindowFacts, RetainedBounds DEF Segments
<1>3. /\ n > 0 /\ (n = q \/ n = q + 1) /\ c \in Nat /\ begin \in Nat /\ s \in Nat
      /\ begin + s = r.total
      /\ \A k \in 1..n - 1 : r.segments[k].complete
      /\ n = q => r.writing /\ StartAt(r, n) = begin /\ EndAt(r, n) = r.total
      /\ n = q + 1 => begin = r.total
      /\ n > 1 => EndAt(r, n - 1) = begin \/ begin <= RetainedStart(r)
  BY DEF Grows, WritesAt
<1>4. /\ \A k \in 1..n - 1 : /\ w.segments[k] = r.segments[k]
                             /\ StartAt(w, k) = StartAt(r, k) /\ EndAt(w, k) = EndAt(r, k)
      /\ StartAt(w, n) = begin /\ EndAt(w, n) = w.total /\ w.total = r.total + c
  BY GrownIs
<1> HIDE DEF q, m, p
<1>5. /\ q \in Nat /\ n \in Nat /\ m \in 0..q /\ p \in 0..n
      /\ r.total \in Nat /\ w.total \in Nat /\ Window \in Nat \ {0}
      /\ Cutoff(r) = r.total - Window /\ Cutoff(w) = Cutoff(r) + c
  BY <1>1, <1>2, <1>3, <1>4 DEF WindowIs
<1>6. \A k \in 1..q : StartAt(w, k) = StartAt(r, k)
  BY <1>3, <1>4, <1>5
<1>7. CASE q = 0
  <2>1. n = 1 /\ begin = r.total
    BY <1>3, <1>5, <1>7
  <2> QED
    BY <1>1, <1>2, <1>4, <1>5, <1>7, <2>1 DEF WindowIs
<1>8. CASE q > 0 /\ (r.total < Window \/ m = 0)
  <2>1. RetainedStart(r) = StartAt(r, 1)
    BY <1>1, <1>8 DEF WindowIs
  <2>2. 1 \in 1..q /\ 1 \in 1..n
    BY <1>3, <1>5, <1>8
  <2>3. StartAt(w, 1) = StartAt(r, 1)
    BY <1>6, <2>2
  <2>4. StartAt(w, 1) <= RetainedStart(w)
    BY <1>2, <2>2
  <2> QED
    BY <2>1, <2>3, <2>4
<1>9. CASE q > 0 /\ r.total >= Window /\ m > 0
  <2>1. RetainedStart(r) =
          IF EndAt(r, m) <= Cutoff(r) THEN IF m < q THEN StartAt(r, m + 1) ELSE r.total
          ELSE IF ~r.segments[m].complete /\ r.writing THEN Cutoff(r) ELSE EndAt(r, m)
    BY <1>1, <1>9 DEF WindowIs
  <2>2. w.total >= Window
    BY <1>3, <1>4, <1>5, <1>9
  <2>3. m <= p
    <3>1. StartAt(r, m) <= Cutoff(r) /\ StartAt(r, m) \in Nat
      BY <1>1, <1>5, <1>9 DEF WindowIs
    <3>2. StartAt(w, m) <= Cutoff(w) /\ m \in 1..n
      BY <1>3, <1>5, <1>6, <1>9, <3>1
    <3> QED
      BY <1>2, <3>2 DEF WindowIs
  <2>4. RetainedStart(w) =
          IF EndAt(w, p) <= Cutoff(w) THEN IF p < n THEN StartAt(w, p + 1) ELSE w.total
          ELSE IF ~w.segments[p].complete /\ w.writing THEN Cutoff(w) ELSE EndAt(w, p)
    <3>1. n # 0 /\ p # 0 /\ ~(w.total < Window)
      BY <1>3, <1>5, <1>9, <2>2, <2>3
    <3> QED
      BY <1>2, <3>1 DEF WindowIs
  <2>5. \A k \in 1..n : /\ StartAt(w, k) \in Nat /\ EndAt(w, k) \in Nat
                        /\ StartAt(w, k) < EndAt(w, k)
    BY <1>2 DEF WindowIs
  <2>6. CASE m = n
    <3>1. q = n /\ p = n /\ EndAt(r, n) = r.total
      BY <1>3, <1>5, <2>3, <2>6
    <3>2. ~(EndAt(r, m) <= Cutoff(r))
      BY <1>5, <2>6, <3>1
    <3>3. r.writing => ~r.segments[n].complete
      BY <1>1, <3>1 DEF WindowIs
    <3>4. ~(EndAt(w, p) <= Cutoff(w))
      BY <1>3, <1>4, <1>5, <3>1
    <3>5. RetainedStart(w) = Cutoff(w) \/ RetainedStart(w) = w.total
      BY <1>4, <2>4, <3>1, <3>4
    <3>6. CASE RetainedStart(w) = w.total
      BY <1>1, <1>4, <1>5, <1>3, <3>6
    <3>7. CASE RetainedStart(w) = Cutoff(w)
      <4>1. r.writing /\ ~r.segments[n].complete
        BY <1>3, <3>1, <3>3
      <4> QED
        BY <1>3, <1>5, <2>1, <2>6, <3>2, <3>7, <4>1
    <3> QED
      BY <3>5, <3>6, <3>7
  <2>7. CASE m < n
    <3>1. r.segments[m].complete /\ EndAt(w, m) = EndAt(r, m) /\ m \in 1..n - 1
      BY <1>3, <1>4, <1>5, <1>9, <2>7
    <3>2. EndAt(w, m) <= StartAt(w, m + 1)
      BY <1>2, <1>5, <3>1 DEF WindowIs
    <3>3. RetainedStart(r) <= StartAt(w, m + 1)
      <4>1. CASE m < q
        <5>1. EndAt(r, m) <= StartAt(r, m + 1) /\ StartAt(r, m + 1) \in Nat
          BY <1>1, <1>5, <1>9, <4>1 DEF WindowIs
        <5>2. StartAt(w, m + 1) = StartAt(r, m + 1)
          BY <1>5, <1>6, <4>1
        <5> QED
          BY <1>5, <2>1, <3>1, <4>1, <5>1, <5>2
      <4>2. CASE m = q
        <5>1. StartAt(w, m + 1) = r.total
          BY <1>3, <1>4, <1>5, <2>7, <4>2
        <5> QED
          BY <1>1, <5>1
      <4> QED
        BY <1>5, <4>1, <4>2
    <3>4. CASE p > m
      <4>1. StartAt(w, m + 1) <= StartAt(w, p) /\ StartAt(w, m + 1) \in Nat
        <5>1. m + 1 \in 1..n /\ p \in 1..n /\ (m + 1 = p \/ m + 1 < p)
          BY <1>5, <1>9, <3>4
        <5>2. m + 1 < p => EndAt(w, m + 1) <= StartAt(w, p)
          BY <1>2, <5>1 DEF WindowIs
        <5> QED
          BY <2>5, <5>1, <5>2
      <4>2. StartAt(w, p) <= RetainedStart(w) /\ StartAt(w, p) \in Nat
        BY <1>2, <1>5, <1>9, <2>2, <2>5, <3>4
      <4> QED
        BY <1>1, <1>2, <1>5, <3>3, <4>1, <4>2
    <3>5. CASE p = m
      <4>1. CASE EndAt(w, p) <= Cutoff(w)
        BY <2>4, <2>7, <3>3, <3>5, <4>1, <1>1, <1>2, <2>5, <1>5
      <4>2. CASE ~(EndAt(w, p) <= Cutoff(w))
        <5>1. RetainedStart(w) = EndAt(r, m)
          BY <1>4, <2>4, <3>1, <3>5, <4>2
        <5>2. ~(EndAt(r, m) <= Cutoff(r)) /\ EndAt(r, m) \in Nat
          BY <1>3, <1>5, <2>5, <3>1, <3>5, <4>2
        <5> QED
          BY <2>1, <3>1, <5>1, <5>2
      <4> QED
        BY <4>1, <4>2
    <3> QED
      BY <1>5, <2>3, <3>4, <3>5
  <2> QED
    BY <1>3, <1>5, <2>6, <2>7
<1> QED
  BY <1>5, <1>7, <1>8, <1>9

LEMMA GrownNoHole ==
  ASSUME SegmentedRecorderConstants, NEW r, Sound(r), NEW w, NEW c, NEW n, NEW i,
         NEW begin, NEW s, NEW first, NEW flushed,
         Grows(w, r, c, n, i, begin, s, first, flushed)
  PROVE  NoHole(w)
<1>1. /\ RetainedStart(w) >= RetainedStart(r)
      /\ RetainedStart(r) \in Nat /\ RetainedStart(w) \in Nat
  BY GrownWindow, GrownPlaced, RetainedBounds DEF Sound
<1>2. /\ n \in Nat /\ n > 0 /\ Len(w.segments) = n /\ Segments(w) = 1..n
      /\ \A k \in 1..n - 1 : /\ k \in Segments(r)
                             /\ StartAt(w, k) = StartAt(r, k) /\ EndAt(w, k) = EndAt(r, k)
      /\ StartAt(w, n) = begin /\ EndAt(w, n) = w.total
  BY GrownIs DEF Segments
<1>3. /\ n > 1 => EndAt(r, n - 1) = begin \/ begin <= RetainedStart(r)
      /\ begin \in Nat
  BY DEF Grows, WritesAt
<1>4. ASSUME NEW k \in 1..n, k + 1 \in 1..n
      PROVE  EndAt(w, k) = StartAt(w, k + 1) \/ StartAt(w, k + 1) <= RetainedStart(w)
  <2>1. CASE k + 1 = n
    <3>1. k = n - 1 /\ n > 1 /\ k \in 1..n - 1
      BY <1>2, <2>1
    <3>2. EndAt(w, k) = EndAt(r, n - 1) /\ StartAt(w, k + 1) = begin
      BY <1>2, <2>1, <3>1
    <3> QED
      BY <1>1, <1>3, <3>1, <3>2
  <2>2. CASE k + 1 \in 1..n - 1
    <3>1. k \in 1..n - 1 /\ StartAt(r, k + 1) \in Nat
      BY <1>2, <2>2, SegmentsAre DEF Sound
    <3>2. EndAt(r, k) = StartAt(r, k + 1) \/ StartAt(r, k + 1) <= RetainedStart(r)
      BY <1>2, <2>2, <3>1 DEF Sound, NoHole
    <3>3. EndAt(w, k) = EndAt(r, k) /\ StartAt(w, k + 1) = StartAt(r, k + 1)
      BY <1>2, <2>2, <3>1
    <3> QED
      BY <1>1, <3>1, <3>2, <3>3
  <2> QED
    BY <1>2, <1>4, <2>1, <2>2
<1> QED
  BY <1>2, <1>4 DEF NoHole

LEMMA GrownFiled ==
  ASSUME SegmentedRecorderConstants, NEW r, Sound(r), NEW w, NEW c, NEW n, NEW i,
         NEW begin, NEW s, NEW first, NEW flushed,
         Grows(w, r, c, n, i, begin, s, first, flushed)
  PROVE  Filed(w)
<1>1. /\ n \in Nat /\ n > 0 /\ Len(w.segments) = n /\ Segments(w) = 1..n
      /\ \A k \in 1..n - 1 : w.segments[k] = r.segments[k] /\ k \in Segments(r)
      /\ w.total \in Nat
      /\ w.segments[n].sample_count = s + c /\ w.segments[n].index = i
      /\ w.segments[n].complete = (s + c = SegmentSize)
  BY GrownIs DEF Segments
<1>0. w.writing \in BOOLEAN
  BY GrownPlaced DEF Placed
<1>2. /\ IsShape(w) /\ w.segments \in Seq(SegmentInfo)
      /\ DOMAIN w.files = DOMAIN r.files \cup {i}
      /\ \A j \in DOMAIN r.files : j # i => w.files[j] = r.files[j]
      /\ w.files[i] = [first |-> first, count |-> s + c,
                       flushed |-> IF s + c = SegmentSize THEN s + c ELSE flushed]
      /\ w.heard = r.heard + c
  BY DEF Grows, WrittenAt
<1>3. /\ s \in Nat /\ c \in Nat /\ i \in Nat /\ first \in Nat /\ flushed \in 0..s
      /\ first + s <= r.heard
      /\ \A k \in 1..n - 1 :
           /\ r.segments[k].index < i
           /\ FileOf(r, k).first + r.segments[k].sample_count <= first
      /\ \A j \in DOMAIN r.files : j # i /\ r.files[j].count > 0 =>
           \E k \in 1..n - 1 : r.segments[k].index = j
  BY DEF Grows, WritesAt
<1>4. Filed(r) /\ IsRecorder(r) /\ r.heard \in Nat
  BY DEF Sound, Filed, IsRecorder
<1>5. /\ w.files[i].first = first /\ w.files[i].count = s + c
      /\ w.files[i].flushed = IF s + c = SegmentSize THEN s + c ELSE flushed
      /\ w.files[i] \in PcmFile /\ w.files[i].flushed <= w.files[i].count
  BY <1>2, <1>3 DEF PcmFile
<1>6. IsRecorder(w)
  <2>1. \A j \in DOMAIN w.files :
          w.files[j] \in PcmFile /\ w.files[j].flushed <= w.files[j].count
    BY <1>2, <1>4, <1>5 DEF IsRecorder
  <2>2. DOMAIN w.files \subseteq Nat
    BY <1>2, <1>3, <1>4 DEF IsRecorder
  <2>3. w.heard \in Nat
    BY <1>2, <1>3, <1>4
  <2> QED
    BY <1>0, <1>1, <1>2, <2>1, <2>2, <2>3 DEF IsRecorder, IsShape
<1>7. IsFiniteSet(DOMAIN w.files)
  <2>1. IsFiniteSet(DOMAIN r.files) /\ DOMAIN w.files = DOMAIN r.files \cup {i}
    BY <1>2, <1>4 DEF Filed
  <2> QED
    BY <2>1, FS_AddElement
<1>8. ASSUME NEW k \in 1..n - 1
      PROVE  /\ w.segments[k].index \in DOMAIN w.files
             /\ FileOf(w, k) = FileOf(r, k) /\ w.segments[k] = r.segments[k]
             /\ k \in Segments(r)
             /\ w.segments[k].index < i
             /\ FileOf(w, k).first + w.segments[k].sample_count <= first
             /\ FileOf(r, k).first \in Nat /\ r.segments[k].sample_count \in Nat
  <2>1. r.segments[k].index \in DOMAIN r.files
    BY <1>1, <1>4 DEF Filed
  <2>2. r.segments[k].index < i /\ r.segments[k].index \in Nat
    BY <1>3, <1>4, <2>1 DEF IsRecorder
  <2>3. w.files[r.segments[k].index] = r.files[r.segments[k].index]
    BY <1>2, <1>3, <2>1, <2>2
  <2>4. r.files[r.segments[k].index] \in PcmFile
    BY <1>4, <2>1 DEF IsRecorder
  <2>5. FileOf(r, k).first \in Nat
    BY <2>4 DEF FileOf, PcmFile
  <2>6. r.segments[k].sample_count \in Nat
    BY <1>1, SegmentsAre DEF Sound, SegmentInfo
  <2> QED
    BY <1>1, <1>2, <1>3, <2>1, <2>2, <2>3, <2>5, <2>6 DEF FileOf
<1>9. FileOf(w, n) = w.files[i]
  BY <1>1 DEF FileOf
<1>10. ASSUME NEW k \in 1..n
       PROVE  /\ w.segments[k].index \in DOMAIN w.files
              /\ FileOf(w, k).count = w.segments[k].sample_count
              /\ FileOf(w, k).first + w.segments[k].sample_count <= w.heard
              /\ w.segments[k].complete => FileOf(w, k).flushed = w.segments[k].sample_count
  <2>1. CASE k = n
    <3>1. w.segments[n].complete => w.files[i].flushed = s + c
      BY <1>1, <1>5
    <3>2. first + (s + c) <= w.heard
      BY <1>2, <1>3, <1>4
    <3> QED
      BY <1>1, <1>2, <1>5, <1>9, <2>1, <3>1, <3>2
  <2>2. CASE k \in 1..n - 1
    <3>1. /\ FileOf(r, k).count = r.segments[k].sample_count
          /\ FileOf(r, k).first + r.segments[k].sample_count <= r.heard
          /\ r.segments[k].complete => FileOf(r, k).flushed = r.segments[k].sample_count
      BY <1>4, <1>8, <2>2 DEF Filed
    <3>2. FileOf(r, k).first + r.segments[k].sample_count <= w.heard
      <4>1. FileOf(r, k).first \in Nat /\ r.segments[k].sample_count \in Nat
        BY <1>8, <2>2
      <4>2. w.heard = r.heard + c /\ c \in Nat /\ r.heard \in Nat
        BY <1>2, <1>3, <1>4
      <4> QED
        BY <3>1, <4>1, <4>2
    <3> QED
      BY <1>8, <2>2, <3>1, <3>2
  <2> QED
    BY <1>1, <2>1, <2>2
<1>11. ASSUME NEW k \in 1..n, NEW l \in 1..n, k < l
       PROVE  /\ w.segments[k].index < w.segments[l].index
              /\ FileOf(w, k).first + w.segments[k].sample_count <= FileOf(w, l).first
  <2>1. k \in 1..n - 1
    BY <1>1, <1>11
  <2>2. CASE l = n
    BY <1>1, <1>5, <1>8, <1>9, <2>1, <2>2
  <2>3. CASE l \in 1..n - 1
    <3>1. /\ r.segments[k].index < r.segments[l].index
          /\ FileOf(r, k).first + r.segments[k].sample_count <= FileOf(r, l).first
      BY <1>4, <1>8, <1>11, <2>1, <2>3 DEF Filed
    <3> QED
      BY <1>8, <2>1, <2>3, <3>1
  <2> QED
    BY <1>1, <2>2, <2>3
<1>12. ASSUME NEW j \in DOMAIN w.files, w.files[j].count > 0
       PROVE  \E k \in 1..n : w.segments[k].index = j
  <2>1. CASE j = i
    BY <1>1, <2>1
  <2>2. CASE j # i
    <3>1. PICK k \in 1..n - 1 : r.segments[k].index = j
      BY <1>2, <1>3, <1>12, <2>2
    <3> QED
      BY <1>1, <3>1
  <2> QED
    BY <2>1, <2>2
<1> QED
  BY <1>1, <1>6, <1>7, <1>10, <1>11, <1>12 DEF Filed

LEMMA WrittenSound ==
  ASSUME SegmentedRecorderConstants, NEW r, Sound(r),
         NEW c \in Nat \ {0}, c <= Remaining(r)
  PROVE  LET w == Written(r, c) IN
         /\ Sound(w)
         /\ RetainedStart(w) >= RetainedStart(r)
         /\ w.total = r.total + c /\ w.heard = r.heard + c
         /\ \A i \in DOMAIN r.files : i \in DOMAIN w.files /\ w.files[i].flushed >= r.files[i].flushed
<1> DEFINE w == Written(r, c)
<1>1. PICK n, i, begin, s, first, flushed :
        /\ WritesAt(r, n, i, begin, s, first, flushed)
        /\ WrittenAt(w, r, c, n, i, begin, s, first, flushed)
  BY WrittenWhere
<1> HIDE DEF w
<1>2. Grows(w, r, c, n, i, begin, s, first, flushed)
  BY <1>1 DEF Grows, WritesAt, SegmentedRecorderConstants
<1>3. Sound(w)
  BY <1>2, GrownPlaced, GrownFiled, GrownNoHole DEF Sound
<1>4. RetainedStart(w) >= RetainedStart(r)
  BY <1>2, GrownWindow
<1>5. w.total = r.total + c /\ w.heard = r.heard + c
  BY <1>1 DEF WrittenAt
<1>6. ASSUME NEW j \in DOMAIN r.files
      PROVE  j \in DOMAIN w.files /\ w.files[j].flushed >= r.files[j].flushed
  <2>1. /\ r.files[j].flushed \in Nat /\ c \in Nat /\ s \in Nat /\ flushed \in 0..s
    BY <1>1 DEF Sound, Filed, IsRecorder, PcmFile, WritesAt
  <2>2. CASE j = i
    <3>1. w.files[i].flushed = IF s + c = SegmentSize THEN s + c ELSE flushed
      BY <1>1 DEF WrittenAt
    <3>2. flushed = r.files[i].flushed
      BY <1>1, <2>2 DEF WritesAt
    <3> QED
      BY <1>1, <2>1, <2>2, <3>1, <3>2 DEF WrittenAt
  <2>3. CASE j # i
    BY <1>1, <2>1, <2>3 DEF WrittenAt
  <2> QED
    BY <2>2, <2>3
<1> QED
  BY <1>3, <1>4, <1>5, <1>6 DEF w

-----------------------------------------------------------------------------
(* Flushing and trimming *)

\* A flush changes nothing but what has left the buffer, and then all has.
LEMMA FlushedSound ==
  ASSUME SegmentedRecorderConstants, NEW r, Sound(r)
  PROVE  LET f == Flushed(r) IN
         /\ Sound(f)
         /\ f.segments = r.segments /\ f.total = r.total /\ f.heard = r.heard
         /\ RetainedStart(f) = RetainedStart(r)
         /\ DOMAIN f.files = DOMAIN r.files
         /\ \A i \in DOMAIN r.files : f.files[i].flushed >= r.files[i].flushed
         /\ \A k \in Segments(f) : FileOf(f, k).flushed = f.segments[k].sample_count
<1> DEFINE n == Len(r.segments)
           i == r.segments[n].index
           f == Flushed(r)
<1>1. /\ IsRecorder(r) /\ Placed(r) /\ Filed(r) /\ NoHole(r)
      /\ n \in Nat /\ Segments(r) = 1..n
  BY SegmentsAre DEF Sound, Filed, Segments
<1>2. CASE ~r.writing
  <2>1. f = r
    BY <1>2 DEF Flushed
  <2>2. \A k \in Segments(r) : FileOf(r, k).flushed = r.segments[k].sample_count
    BY <1>1, <1>2 DEF Placed, Filed
  <2>3. \A j \in DOMAIN r.files : r.files[j].flushed >= r.files[j].flushed
    BY <1>1 DEF IsRecorder, PcmFile
  <2> QED
    BY <2>1, <2>2, <2>3
<1>3. CASE r.writing
  <2> DEFINE file == [r.files[i] EXCEPT !.flushed = r.files[i].count]
  <2>1. n > 0 /\ n \in Segments(r)
    BY <1>1, <1>3, SegmentsAre DEF Placed
  <2>2. i \in DOMAIN r.files /\ r.files[i] \in PcmFile /\ r.files[i].count = r.segments[n].sample_count
    BY <1>1, <2>1 DEF Filed, IsRecorder, FileOf
  <2>3. /\ file.first = r.files[i].first /\ file.count = r.files[i].count
        /\ file.flushed = r.files[i].count /\ file \in PcmFile
    BY <2>2 DEF PcmFile
  <2>4. f = [r EXCEPT !.files = [r.files EXCEPT ![i] = file]]
    BY <1>3 DEF Flushed, Last
  <2>5. /\ f.segments = r.segments /\ f.total = r.total /\ f.heard = r.heard
        /\ f.writing = r.writing /\ f.files = [r.files EXCEPT ![i] = file]
        /\ IsShape(f)
    <3> HIDE DEF file, i, f
    <3> QED
      BY <1>1, <2>4 DEF IsRecorder, IsShape
  <2> HIDE DEF file, f
  <2>6. /\ DOMAIN f.files = DOMAIN r.files /\ f.files[i] = file
        /\ \A j \in DOMAIN r.files : j # i => f.files[j] = r.files[j]
    BY <2>2, <2>5
  <2>7. \A k \in Segments(r) :
          /\ r.segments[k].index \in DOMAIN r.files
          /\ FileOf(f, k).first = FileOf(r, k).first
          /\ FileOf(f, k).count = FileOf(r, k).count
          /\ FileOf(r, k).count = r.segments[k].sample_count
          /\ FileOf(f, k).flushed = r.segments[k].sample_count
    <3> SUFFICES ASSUME NEW k \in Segments(r)
                 PROVE  /\ r.segments[k].index \in DOMAIN r.files
                        /\ FileOf(f, k).first = FileOf(r, k).first
                        /\ FileOf(f, k).count = FileOf(r, k).count
                        /\ FileOf(r, k).count = r.segments[k].sample_count
                        /\ FileOf(f, k).flushed = r.segments[k].sample_count
      OBVIOUS
    <3>1. r.segments[k].index \in DOMAIN r.files /\ FileOf(r, k).count = r.segments[k].sample_count
      BY <1>1 DEF Filed
    <3>2. CASE k = n
      BY <2>2, <2>3, <2>5, <2>6, <3>1, <3>2 DEF FileOf
    <3>3. CASE k # n
      <4>1. r.segments[k].index # i
        <5>1. k < n
          BY <1>1, <3>3
        <5>2. r.segments[k].index < r.segments[n].index /\ r.segments[k].index \in Nat
          BY <1>1, <2>1, <3>1, <5>1 DEF Filed, IsRecorder
        <5> QED
          BY <5>2
      <4>2. FileOf(f, k) = FileOf(r, k)
        BY <2>5, <2>6, <3>1, <4>1 DEF FileOf
      <4>3. r.segments[k].complete
        BY <1>1, <3>3 DEF Placed
      <4>4. FileOf(r, k).flushed = r.segments[k].sample_count
        BY <1>1, <4>3 DEF Filed
      <4> QED
        BY <3>1, <4>2, <4>4
    <3> QED
      BY <3>2, <3>3
  <2>8. IsRecorder(f)
    <3>1. file.flushed <= file.count
      BY <2>2, <2>3 DEF PcmFile
    <3>2. \A j \in DOMAIN f.files :
            f.files[j] \in PcmFile /\ f.files[j].flushed <= f.files[j].count
      BY <1>1, <2>3, <2>6, <3>1 DEF IsRecorder
    <3> QED
      BY <1>1, <2>5, <2>6, <3>2 DEF IsRecorder, IsShape
  <2>9. /\ Segments(f) = Segments(r) /\ RetainedStart(f) = RetainedStart(r)
        /\ \A k : EndAt(f, k) = EndAt(r, k) /\ StartAt(f, k) = StartAt(r, k)
    BY <2>5 DEF Segments, RetainedStart, EndAt, StartAt
  <2>10. Placed(f) /\ NoHole(f)
    <3>1. Placed(f)
      BY <1>1, <2>5, <2>9 DEF Placed
    <3> QED
      BY <1>1, <2>5, <2>9, <3>1 DEF NoHole
  <2>11. ASSUME NEW j \in DOMAIN f.files, f.files[j].count > 0
         PROVE  \E k \in Segments(f) : f.segments[k].index = j
    <3>1. j \in DOMAIN r.files /\ r.files[j].count = f.files[j].count
      BY <2>3, <2>6
    <3> QED
      BY <1>1, <2>5, <2>9, <2>11, <3>1 DEF Filed
  <2>12. Filed(f)
    <3>1. /\ \A k \in Segments(f) :
               /\ f.segments[k].index \in DOMAIN f.files
               /\ FileOf(f, k).count = f.segments[k].sample_count
               /\ FileOf(f, k).first + f.segments[k].sample_count <= f.heard
               /\ f.segments[k].complete => FileOf(f, k).flushed = f.segments[k].sample_count
      BY <1>1, <2>5, <2>6, <2>7, <2>9 DEF Filed
    <3>2. \A k, l \in Segments(f) : k < l =>
               /\ f.segments[k].index < f.segments[l].index
               /\ FileOf(f, k).first + f.segments[k].sample_count <= FileOf(f, l).first
      BY <1>1, <2>5, <2>7, <2>9 DEF Filed
    <3>3. IsFiniteSet(DOMAIN f.files)
      BY <1>1, <2>6 DEF Filed
    <3> QED
      BY <2>8, <2>11, <3>1, <3>2, <3>3 DEF Filed
  <2>13. ASSUME NEW j \in DOMAIN r.files
         PROVE  f.files[j].flushed >= r.files[j].flushed
    <3>1. r.files[j].flushed \in Nat /\ r.files[j].count \in Nat
          /\ r.files[j].flushed <= r.files[j].count
      BY <1>1 DEF IsRecorder, PcmFile
    <3>2. CASE j = i
      BY <2>3, <2>6, <3>1, <3>2
    <3>3. CASE j # i
      BY <2>6, <3>1, <3>3
    <3> QED
      BY <3>2, <3>3
  <2> QED
    BY <2>5, <2>6, <2>7, <2>9, <2>10, <2>12, <2>13 DEF Sound, f
<1> QED
  BY <1>1, <1>2, <1>3 DEF Placed

\* A trim deletes the files of expired segments that are not pinned, and when none
\* fails to go, of all those; the window and what is in it stay.
LEMMA TrimmedSound ==
  ASSUME SegmentedRecorderConstants, NEW r, Sound(r), NEW pinned, NEW stop
  PROVE  LET t == Trimmed(r, pinned, stop) IN
         /\ Sound(t)
         /\ t.total = r.total /\ t.heard = r.heard
         /\ RetainedStart(t) = RetainedStart(r)
         /\ \A i \in DOMAIN r.files : i \in pinned => i \in DOMAIN t.files
         /\ \A i \in DOMAIN t.files : i \in DOMAIN r.files /\ t.files[i] = r.files[i]
         /\ stop = NoFailure(r) => Removable(t, pinned) = {}
<1> DEFINE n == Len(r.segments)
           gone == {k \in Removable(r, pinned) : k < stop}
           names == {r.segments[k].index : k \in gone}
           left == {k \in DOMAIN r.segments : r.segments[k].index \notin names}
           s == Ascending(left)
           t == Trimmed(r, pinned, stop)
           segments == [k \in 1..Len(s) |-> r.segments[s[k]]]
           files == [i \in DOMAIN r.files \ names |-> r.files[i]]
<1>1. /\ IsRecorder(r) /\ Placed(r) /\ Filed(r) /\ NoHole(r)
      /\ n \in Nat /\ Segments(r) = 1..n /\ DOMAIN r.segments = 1..n
      /\ r.segments \in Seq(SegmentInfo)
  BY SegmentsAre DEF Sound, Filed, Segments, IsRecorder
<1>2. \A k, l \in 1..n : r.segments[k].index = r.segments[l].index => k = l
  <2> SUFFICES ASSUME NEW k \in 1..n, NEW l \in 1..n,
                      r.segments[k].index = r.segments[l].index
               PROVE  k = l
    OBVIOUS
  <2>1. r.segments[k].index \in Nat /\ r.segments[l].index \in Nat
    BY <1>1 DEF Filed, IsRecorder
  <2>2. /\ k < l => r.segments[k].index < r.segments[l].index
        /\ l < k => r.segments[l].index < r.segments[k].index
    BY <1>1 DEF Filed
  <2> QED
    BY <1>1, <2>1, <2>2
<1>3. \A k \in gone : /\ k \in 1..n /\ EndAt(r, k) <= RetainedStart(r)
                      /\ r.segments[k].index \notin pinned
  BY <1>1 DEF Removable, Expired, EndAt
<1> HIDE DEF gone
<1>4. \A k \in 1..n : k \notin left => k \in gone
  BY <1>1, <1>2, <1>3
<1>5. left \subseteq 1..n /\ left \subseteq Nat
  BY <1>1
<1> HIDE DEF left
<1>6. IsFiniteSet(left)
  BY <1>1, <1>5, SubsetOfInterval
<1>7. IsAscending(s, left)
  BY <1>5, <1>6, AscendingIs
<1>8. t = [r EXCEPT !.segments = segments, !.files = files]
  BY DEF Trimmed, left, gone
<1> HIDE DEF segments, files, t, s
<1>9. /\ t.segments = segments /\ t.files = files /\ t.total = r.total
      /\ t.writing = r.writing /\ t.heard = r.heard /\ IsShape(t)
  BY <1>1, <1>8 DEF IsRecorder, IsShape
<1>10. /\ Len(s) \in Nat /\ s \in Seq(left)
       /\ \A j \in 1..Len(s) : s[j] \in left /\ s[j] \in 1..n
       /\ \A j, l \in 1..Len(s) : j < l => s[j] < s[l]
       /\ \A k \in left : \E j \in 1..Len(s) : s[j] = k
  <2>1. Len(s) \in Nat /\ s \in Seq(left)
    BY <1>7 DEF IsAscending
  <2>2. \A j \in 1..Len(s) : s[j] \in left
    BY <2>1
  <2> QED
    BY <1>5, <1>7, <2>1, <2>2 DEF IsAscending
<1>11. /\ segments \in Seq(SegmentInfo) /\ Len(segments) = Len(s)
       /\ \A j \in 1..Len(s) : segments[j] = r.segments[s[j]]
  <2>1. \A j \in 1..Len(s) : r.segments[s[j]] \in SegmentInfo
    <3>1. \A k \in 1..n : r.segments[k] \in SegmentInfo
      BY <1>1
    <3>2. \A j \in 1..Len(s) : s[j] \in 1..n
      BY <1>10
    <3> QED
      BY <3>1, <3>2
  <2> DEFINE q == Len(s)
  <2>2. segments \in [1..q -> SegmentInfo]
    BY <2>1 DEF segments
  <2>3. \A j \in 1..q : segments[j] = r.segments[s[j]]
    BY DEF segments
  <2>4. q \in Nat
    BY <1>10
  <2> HIDE DEF q
  <2>5. segments \in Seq(SegmentInfo) /\ Len(segments) = q
    BY <2>2, <2>4
  <2> QED
    BY <2>3, <2>5 DEF q
<1>12. IsTrimOf(t, r, s)
  <2>1. \A k \in 1..n : (\E j \in 1..Len(s) : s[j] = k) \/ EndAt(r, k) <= RetainedStart(r)
    BY <1>3, <1>4, <1>10
  <2> QED
    BY <1>1, <1>9, <1>10, <1>11, <2>1 DEF IsTrimOf
<1>13. /\ Placed(t) /\ NoHole(t) /\ RetainedStart(t) = RetainedStart(r)
  BY <1>1, <1>12, TrimPlaced, TrimNoHole, TrimKeepsWindow
<1>14. /\ DOMAIN t.files = DOMAIN r.files \ names
       /\ \A i \in DOMAIN t.files : t.files[i] = r.files[i]
  BY <1>9 DEF files
<1>15. \A i \in DOMAIN r.files : i \in pinned => i \in DOMAIN t.files
  BY <1>3, <1>14
<1>16. IsRecorder(t) /\ IsFiniteSet(DOMAIN t.files)
  <2>1. IsFiniteSet(DOMAIN t.files)
    BY <1>1, <1>14, FS_Subset DEF Filed
  <2>2. \A j \in DOMAIN t.files :
          t.files[j] \in PcmFile /\ t.files[j].flushed <= t.files[j].count
    BY <1>1, <1>14 DEF IsRecorder
  <2>3. DOMAIN t.files \subseteq Nat
    BY <1>1, <1>14 DEF IsRecorder
  <2> QED
    BY <1>1, <1>9, <1>11, <2>1, <2>2, <2>3 DEF IsRecorder, IsShape
<1>17. Segments(t) = 1..Len(s) /\ \A j \in 1..Len(s) : t.segments[j] = r.segments[s[j]]
  BY <1>9, <1>11 DEF Segments
<1>18. \A j \in 1..Len(s) :
         /\ t.segments[j].index \in DOMAIN t.files
         /\ FileOf(t, j) = FileOf(r, s[j])
  <2>1. \A j \in 1..Len(s) : r.segments[s[j]].index \in DOMAIN r.files \ names
    BY <1>1, <1>10 DEF Filed, left
  <2> HIDE DEF names
  <2> QED
    BY <1>14, <1>17, <2>1 DEF FileOf
<1> HIDE DEF names
<1>19. Filed(t)
  <2>1. ASSUME NEW k \in 1..Len(s)
        PROVE  /\ t.segments[k].index \in DOMAIN t.files
               /\ FileOf(t, k).count = t.segments[k].sample_count
               /\ FileOf(t, k).first + t.segments[k].sample_count <= t.heard
               /\ t.segments[k].complete => FileOf(t, k).flushed = t.segments[k].sample_count
    <3>1. s[k] \in Segments(r)
      BY <1>1, <1>10
    <3>2. /\ FileOf(r, s[k]).count = r.segments[s[k]].sample_count
          /\ FileOf(r, s[k]).first + r.segments[s[k]].sample_count <= r.heard
          /\ r.segments[s[k]].complete =>
               FileOf(r, s[k]).flushed = r.segments[s[k]].sample_count
      BY <1>1, <3>1 DEF Filed
    <3> QED
      BY <1>9, <1>17, <1>18, <3>2
  <2>2. ASSUME NEW k \in 1..Len(s), NEW l \in 1..Len(s), k < l
        PROVE  /\ t.segments[k].index < t.segments[l].index
               /\ FileOf(t, k).first + t.segments[k].sample_count <= FileOf(t, l).first
    <3>1. s[k] \in Segments(r) /\ s[l] \in Segments(r) /\ s[k] < s[l]
      BY <1>1, <1>10, <2>2
    <3>2. /\ r.segments[s[k]].index < r.segments[s[l]].index
          /\ FileOf(r, s[k]).first + r.segments[s[k]].sample_count <= FileOf(r, s[l]).first
      BY <1>1, <3>1 DEF Filed
    <3> QED
      BY <1>17, <1>18, <3>2
  <2>3. ASSUME NEW i \in DOMAIN t.files, t.files[i].count > 0
        PROVE  \E k \in Segments(t) : t.segments[k].index = i
    <3>1. i \in DOMAIN r.files /\ i \notin names /\ r.files[i].count > 0
      BY <1>14, <2>3
    <3>2. PICK k \in 1..n : r.segments[k].index = i
      BY <1>1, <3>1 DEF Filed
    <3>3. k \in left
      BY <1>1, <3>1, <3>2 DEF left
    <3>4. PICK j \in 1..Len(s) : s[j] = k
      BY <1>10, <3>3
    <3> QED
      BY <1>17, <3>2, <3>4
  <2> QED
    BY <1>16, <1>17, <2>1, <2>2, <2>3 DEF Filed
<1>20. ASSUME stop = NoFailure(r)
       PROVE  Removable(t, pinned) = {}
  <2>1. SUFFICES ASSUME NEW j \in Removable(t, pinned)
                 PROVE  FALSE
    OBVIOUS
  <2>2. /\ j \in 1..Len(s) /\ EndAt(t, j) <= RetainedStart(t)
        /\ t.segments[j].index \notin pinned
    BY <1>9, <1>11, <2>1 DEF Removable, Expired, EndAt
  <2>3. s[j] \in 1..n /\ s[j] \in left /\ EndAt(r, s[j]) <= RetainedStart(r)
    BY <1>10, <1>13, <1>17, <2>2 DEF EndAt
  <2>4. s[j] \in Removable(r, pinned)
    BY <1>1, <1>17, <2>2, <2>3 DEF Removable, Expired, EndAt
  <2>5. s[j] < stop
    BY <1>1, <1>20, <2>3 DEF NoFailure
  <2>6. s[j] \in gone
    BY <2>4, <2>5 DEF gone
  <2> QED
    BY <2>3, <2>6 DEF left, names
<1> QED
  BY <1>9, <1>13, <1>14, <1>15, <1>19, <1>20 DEF t, Sound

-----------------------------------------------------------------------------
(* Recovery *)

\* The sums of a sequence of numbers exist, or there is a least number up to which
\* they do not.
LEMMA SumsExist ==
  ASSUME NEW n \in Nat, NEW c \in [1..n -> Nat]
  PROVE  \E f \in [0..n -> Nat] : f[0] = 0 /\ \A k \in 1..n : f[k] = f[k - 1] + c[k]
<1> DEFINE Sums(m) ==
             \E f \in [0..m -> Nat] : f[0] = 0 /\ \A k \in 1..m : f[k] = f[k - 1] + c[k]
           T == {m \in 0..n : ~Sums(m)}
<1>1. SUFFICES ASSUME ~Sums(n)
               PROVE  FALSE
  OBVIOUS
<1>2. n \in T /\ T \subseteq Nat
  BY <1>1
<1>3. PICK m \in T : \A j \in T : m <= j
  <2> HIDE DEF T
  <2> QED
    BY <1>2, LeastExists
<1>4. m \in 0..n /\ ~Sums(m)
  OBVIOUS
<1>5. CASE m = 0
  <2> DEFINE f == [k \in 0..0 |-> 0]
  <2>1. f \in [0..0 -> Nat] /\ f[0] = 0 /\ \A k \in 1..0 : f[k] = f[k - 1] + c[k]
    OBVIOUS
  <2> QED
    BY <1>4, <1>5, <2>1
<1>6. CASE m > 0
  <2>1. m - 1 \in 0..n /\ m - 1 \notin T
    <3> HIDE DEF T
    <3> QED
      BY <1>3, <1>4, <1>6
  <2>2. PICK g \in [0..m - 1 -> Nat] :
          g[0] = 0 /\ \A k \in 1..m - 1 : g[k] = g[k - 1] + c[k]
    BY <2>1
  <2> DEFINE f == [k \in 0..m |-> IF k = m THEN g[m - 1] + c[m] ELSE g[k]]
  <2>3. f \in [0..m -> Nat]
    <3>1. m - 1 \in 0..m - 1 /\ m \in 1..n
      BY <1>4, <1>6
    <3>2. g[m - 1] + c[m] \in Nat
      BY <3>1
    <3>3. \A k \in 0..m : k # m => k \in 0..m - 1
      BY <1>4
    <3> QED
      BY <3>2, <3>3
  <2>4. f[0] = 0
    BY <1>4, <1>6, <2>2
  <2>5. ASSUME NEW k \in 1..m
        PROVE  f[k] = f[k - 1] + c[k]
    <3>1. k \in 0..m /\ k - 1 \in 0..m /\ k - 1 # m
      BY <1>4
    <3>2. f[k - 1] = g[k - 1]
      BY <3>1
    <3>3. CASE k = m
      BY <3>1, <3>2, <3>3
    <3>4. CASE k # m
      <4>1. k \in 1..m - 1
        BY <1>4, <3>4
      <4>2. f[k] = g[k]
        BY <3>1, <3>4
      <4> QED
        BY <2>2, <3>2, <4>1, <4>2
    <3> QED
      BY <3>3, <3>4
  <2> HIDE DEF f
  <2> QED
    BY <1>4, <2>3, <2>4, <2>5
<1> QED
  BY <1>4, <1>5, <1>6

\* They grow.
AreSums(f, c, n) == \A k \in 1..n : f[k] = f[k - 1] + c[k]

LEMMA SumsGrow ==
  ASSUME NEW n \in Nat, NEW c \in [1..n -> Nat], NEW f \in [0..n -> Nat],
         AreSums(f, c, n)
  PROVE  \A j, k \in 0..n : j <= k => f[j] <= f[k]
<1> DEFINE T == {k \in 0..n : \E j \in 0..k : ~(f[j] <= f[k])}
<1>1. SUFFICES ASSUME T # {}
               PROVE  FALSE
  <2>1. ASSUME NEW j \in 0..n, NEW k \in 0..n, j <= k, T = {}
        PROVE  f[j] <= f[k]
    <3>1. j \in 0..k
      BY <2>1
    <3>2. k \notin T
      <4> HIDE DEF T
      <4> QED
        BY <2>1
    <3> QED
      BY <3>1, <3>2
  <2> QED
    BY <2>1
<1>2. T \subseteq Nat
  OBVIOUS
<1>3. PICK k \in T : \A i \in T : k <= i
  <2> HIDE DEF T
  <2> QED
    BY <1>1, <1>2, LeastExists
<1>4. k \in 0..n
  OBVIOUS
<1>5. PICK j \in 0..k : ~(f[j] <= f[k])
  OBVIOUS
<1>6. f[k] \in Nat /\ f[j] \in Nat
  BY <1>4
<1>7. j \in 0..k - 1 /\ k \in 1..n /\ k - 1 \in 0..n
  BY <1>4, <1>5, <1>6
<1>8. k - 1 \notin T
  BY <1>3, <1>4, <1>7
<1>9. f[j] <= f[k - 1]
  BY <1>7, <1>8
<1>10. f[k] = f[k - 1] + c[k] /\ c[k] \in Nat /\ f[k - 1] \in Nat
  BY <1>7 DEF AreSums
<1> HIDE DEF T
<1>11. f[j] \in Nat /\ f[k - 1] \in Nat /\ f[k - 1] <= f[k]
  BY <1>6, <1>10
<1> QED
  BY <1>5, <1>6, <1>9, <1>11

LEMMA PositionsAre ==
  ASSUME NEW files, NEW order, Len(order) \in Nat,
         \A k \in 1..Len(order) : files[order[k]].count \in Nat
  PROVE  LET p == Positions(files, order)
             n == Len(order) IN
         /\ p \in [0..n -> Nat] /\ p[0] = 0
         /\ \A k \in 1..n : p[k] = p[k - 1] + files[order[k]].count
         /\ \A j, k \in 0..n : j <= k => p[j] <= p[k]
<1> DEFINE n == Len(order)
           c == [k \in 1..n |-> files[order[k]].count]
           p == Positions(files, order)
           Rule(f) == [k \in 0..n |-> IF k = 0 THEN 0 ELSE f[k - 1] + files[order[k]].count]
<1>1. c \in [1..n -> Nat]
  OBVIOUS
<1>2. PICK f \in [0..n -> Nat] : f[0] = 0 /\ \A k \in 1..n : f[k] = f[k - 1] + c[k]
  <2> HIDE DEF c
  <2> QED
    BY <1>1, SumsExist
<1>3. f = Rule(f)
  <2>1. \A k \in 0..n : f[k] = IF k = 0 THEN 0 ELSE f[k - 1] + files[order[k]].count
    BY <1>2
  <2> QED
    BY <2>1
<1>4. p = Rule(p)
  <2>1. p = CHOOSE g : g = Rule(g)
    BY DEF Positions
  <2> HIDE DEF Rule, p
  <2> QED
    BY <1>3, <2>1
<1> HIDE DEF p
<1>5. /\ \A k \in 0..n : p[k] = IF k = 0 THEN 0 ELSE p[k - 1] + files[order[k]].count
      /\ DOMAIN p = 0..n /\ p = [k \in 0..n |-> p[k]]
  BY <1>4
<1>6. p[0] = 0 /\ \A k \in 1..n : p[k] = p[k - 1] + c[k]
  BY <1>5
<1>7. \A k \in 0..n : p[k] = f[k]
  <2> DEFINE T == {k \in 0..n : p[k] # f[k]}
  <2>1. SUFFICES ASSUME T # {}
                 PROVE  FALSE
    OBVIOUS
  <2>2. T \subseteq Nat
    OBVIOUS
  <2>3. PICK k \in T : \A j \in T : k <= j
    <3> HIDE DEF T
    <3> QED
      BY <2>1, <2>2, LeastExists
  <2>4. k # 0 /\ k \in 0..n
    BY <1>2, <1>6
  <2>5. k \in 1..n /\ k - 1 \in 0..n /\ k - 1 \notin T
    BY <2>3, <2>4
  <2>6. p[k - 1] = f[k - 1]
    BY <2>5
  <2>7. p[k] = f[k]
    BY <1>2, <1>6, <2>5, <2>6
  <2> QED
    BY <2>7
<1>8. p \in [0..n -> Nat]
  BY <1>5, <1>7
<1>9. \A j, k \in 0..n : j <= k => p[j] <= p[k]
  <2> HIDE DEF c, n
  <2>1. n \in Nat
    BY DEF n
  <2> QED
    BY <1>1, <1>6, <1>8, <2>1, SumsGrow DEF AreSums
<1> QED
  BY <1>5, <1>8, <1>9, <1>6 DEF p

\* What a crash leaves: files that are wholly on the disk and in the order they were
\* recorded in.
Left(files, heard) ==
  /\ IsFiniteSet(DOMAIN files) /\ DOMAIN files \subseteq Nat /\ heard \in Nat
  /\ \A i \in DOMAIN files :
       /\ files[i] \in PcmFile /\ files[i].flushed = files[i].count
       /\ files[i].count > 0 => files[i].first + files[i].count <= heard
  /\ \A i, j \in DOMAIN files : i < j /\ files[i].count > 0 /\ files[j].count > 0 =>
       files[i].first + files[i].count <= files[j].first

LEMMA TornLeft ==
  ASSUME SegmentedRecorderConstants, NEW r, Sound(r), NEW files \in Torn(r)
  PROVE  Left(files, r.heard)
<1>1. /\ IsRecorder(r) /\ Placed(r) /\ Filed(r) /\ Len(r.segments) \in Nat
      /\ Segments(r) = 1..Len(r.segments)
      /\ DOMAIN r.files \subseteq Nat /\ IsFiniteSet(DOMAIN r.files)
      /\ r.heard \in Nat
  BY SegmentsAre DEF Sound, Filed, Segments, IsRecorder
<1>2. \A i \in DOMAIN r.files :
        /\ r.files[i] \in PcmFile /\ r.files[i].flushed <= r.files[i].count
        /\ r.files[i].count \in Nat /\ r.files[i].flushed \in Nat /\ r.files[i].first \in Nat
  BY <1>1 DEF IsRecorder, PcmFile
<1>3. /\ DOMAIN files = DOMAIN r.files
      /\ \A i \in DOMAIN r.files :
           /\ files[i] \in PcmFile /\ files[i].first = r.files[i].first
           /\ files[i].flushed = files[i].count /\ files[i].count <= r.files[i].count
           /\ files[i].count \in Nat
  <2>1. CASE r.writing
    <3> DEFINE i == Last(r.segments).index
    <3>1. PICK n \in r.files[i].flushed .. r.files[i].count :
            files = [r.files EXCEPT ![i].count = n, ![i].flushed = n]
      BY <2>1 DEF Torn
    <3>2. Len(r.segments) \in Segments(r) /\ i = r.segments[Len(r.segments)].index
      BY <1>1, <2>1, SegmentsAre DEF Placed, Last
    <3>3. i \in DOMAIN r.files
      BY <1>1, <3>2 DEF Filed
    <3>4. n \in Nat /\ n <= r.files[i].count
      BY <1>2, <3>1, <3>3
    <3> HIDE DEF i
    <3>5. /\ DOMAIN files = DOMAIN r.files
          /\ \A j \in DOMAIN r.files : j # i => files[j] = r.files[j]
          /\ files[i].first = r.files[i].first
          /\ files[i].count = n /\ files[i].flushed = n /\ files[i] \in PcmFile
      BY <1>2, <3>1, <3>3, <3>4 DEF PcmFile
    <3>6. ASSUME NEW j \in DOMAIN r.files, j # i
          PROVE  r.files[j].flushed = r.files[j].count
      <4>1. CASE r.files[j].count = 0
        BY <1>2, <4>1
      <4>2. CASE r.files[j].count > 0
        <5>1. PICK k \in Segments(r) : r.segments[k].index = j
          BY <1>1, <4>2 DEF Filed
        <5>2. r.segments[k].complete
          BY <1>1, <3>2, <3>6, <5>1 DEF Placed
        <5> QED
          BY <1>1, <5>1, <5>2 DEF Filed, FileOf
      <4> QED
        BY <1>2, <4>1, <4>2
    <3>7. ASSUME NEW j \in DOMAIN r.files
          PROVE  /\ files[j] \in PcmFile /\ files[j].first = r.files[j].first
                 /\ files[j].flushed = files[j].count /\ files[j].count <= r.files[j].count
                 /\ files[j].count \in Nat
      BY <1>2, <3>4, <3>5, <3>6
    <3> QED
      BY <3>5, <3>7
  <2>2. CASE ~r.writing
    <3>1. files = r.files
      BY <2>2 DEF Torn
    <3>2. ASSUME NEW j \in DOMAIN r.files
          PROVE  r.files[j].flushed = r.files[j].count
      <4>1. CASE r.files[j].count = 0
        BY <1>2, <4>1
      <4>2. CASE r.files[j].count > 0
        <5>1. PICK k \in Segments(r) : r.segments[k].index = j
          BY <1>1, <4>2 DEF Filed
        <5>2. r.segments[k].complete
          BY <1>1, <2>2 DEF Placed
        <5> QED
          BY <1>1, <5>1, <5>2 DEF Filed, FileOf
      <4> QED
        BY <1>2, <4>1, <4>2
    <3> QED
      BY <1>2, <3>1, <3>2
  <2> QED
    BY <1>1, <2>1, <2>2 DEF Placed
<1>4. ASSUME NEW i \in DOMAIN files, files[i].count > 0
      PROVE  \E k \in Segments(r) :
               /\ r.segments[k].index = i
               /\ FileOf(r, k) = r.files[i]
               /\ r.files[i].count = r.segments[k].sample_count
               /\ r.files[i].first + r.segments[k].sample_count <= r.heard
  <2>1. r.files[i].count > 0 /\ i \in DOMAIN r.files
    BY <1>2, <1>3, <1>4
  <2>2. PICK k \in Segments(r) : r.segments[k].index = i
    BY <1>1, <2>1 DEF Filed
  <2> QED
    BY <1>1, <2>2 DEF Filed, FileOf
<1>5. ASSUME NEW i \in DOMAIN files, files[i].count > 0
      PROVE  files[i].first + files[i].count <= r.heard
  BY <1>1, <1>2, <1>3, <1>4, <1>5
<1>6. ASSUME NEW i \in DOMAIN files, NEW j \in DOMAIN files, i < j,
             files[i].count > 0, files[j].count > 0
      PROVE  files[i].first + files[i].count <= files[j].first
  <2>1. PICK k \in Segments(r) :
          /\ r.segments[k].index = i /\ FileOf(r, k) = r.files[i]
          /\ r.files[i].count = r.segments[k].sample_count
    BY <1>4, <1>6
  <2>2. PICK l \in Segments(r) :
          /\ r.segments[l].index = j /\ FileOf(r, l) = r.files[j]
    BY <1>4, <1>6
  <2>3. i \in Nat /\ j \in Nat /\ k \in Nat /\ l \in Nat
    BY <1>1, <1>3
  <2>4. k < l
    <3>1. l < k => j < i
      BY <1>1, <2>1, <2>2 DEF Filed
    <3> QED
      BY <1>6, <2>1, <2>2, <2>3, <3>1
  <2>5. FileOf(r, k).first + r.segments[k].sample_count <= FileOf(r, l).first
    BY <1>1, <2>4 DEF Filed
  <2>6. r.files[i].first + r.files[i].count <= r.files[j].first
    BY <2>1, <2>2, <2>5
  <2> QED
    BY <1>2, <1>3, <2>6
<1> QED
  BY <1>1, <1>3, <1>5, <1>6 DEF Left

LEMMA RecoveredSound ==
  ASSUME SegmentedRecorderConstants, NEW files, NEW heard, Left(files, heard)
  PROVE  /\ Sound(Recovered(files, heard))
         /\ Removable(Recovered(files, heard), {}) = {}
<1> DEFINE held == {i \in DOMAIN files : files[i].count > 0}
           order == InOrder(files)
           n == Len(order)
           p == Positions(files, order)
           Segment(k) == [index |-> order[k], start_sample |-> p[k - 1],
                          sample_count |-> files[order[k]].count, complete |-> TRUE]
           segments == [k \in 1..n |-> Segment(k)]
           all == [segments |-> segments, files |-> files, total |-> p[n],
                   writing |-> FALSE, heard |-> heard]
<1>1. held \subseteq Nat /\ IsFiniteSet(held)
  <2>1. held \in SUBSET DOMAIN files
    OBVIOUS
  <2> HIDE DEF held
  <2> QED
    BY <2>1, FS_Subset DEF Left
<1>2. order = Ascending(held)
  BY DEF InOrder
<1>3. IsAscending(order, held)
  <2> HIDE DEF held, order
  <2> QED
    BY <1>1, <1>2, AscendingIs
<1>4. /\ order \in Seq(held) /\ n \in Nat
      /\ \A k, l \in 1..n : k < l => order[k] < order[l]
      /\ \A i \in held : \E k \in 1..n : order[k] = i
  <2> HIDE DEF held, order
  <2> QED
    BY <1>3 DEF IsAscending
<1> HIDE DEF order
<1>5. ASSUME NEW k \in 1..n
      PROVE  /\ order[k] \in DOMAIN files /\ order[k] \in Nat
             /\ files[order[k]].count \in Nat /\ files[order[k]].count > 0
             /\ files[order[k]] \in PcmFile
             /\ files[order[k]].flushed = files[order[k]].count
             /\ files[order[k]].first + files[order[k]].count <= heard
  <2>1. order[k] \in held
    <3> HIDE DEF held
    <3> QED
      BY <1>4
  <2>2. order[k] \in DOMAIN files /\ files[order[k]].count > 0
    BY <2>1
  <2> QED
    BY <2>2 DEF Left, PcmFile
<1>6. /\ p \in [0..n -> Nat] /\ p[0] = 0
      /\ \A k \in 1..n : p[k] = p[k - 1] + files[order[k]].count
      /\ \A j, k \in 0..n : j <= k => p[j] <= p[k]
  BY <1>4, <1>5, PositionsAre
<1>7. Recovered(files, heard) = Trimmed(all, {}, NoFailure(all))
  BY DEF Recovered, order
<1> HIDE DEF p
<1>8. ASSUME NEW k \in 1..n
      PROVE  /\ Segment(k) \in SegmentInfo
             /\ k - 1 \in 0..n /\ p[k - 1] \in Nat /\ p[k] \in Nat /\ p[k] <= p[n]
  <2>1. k - 1 \in 0..n /\ k \in 0..n /\ n \in 0..n /\ k <= n
    BY <1>4
  <2>2. p[k - 1] \in Nat /\ p[k] \in Nat /\ p[k] <= p[n]
    BY <1>6, <2>1
  <2> QED
    BY <1>5, <2>1, <2>2 DEF SegmentInfo
<1>9. /\ segments \in Seq(SegmentInfo) /\ Len(segments) = n
      /\ \A k \in 1..n : segments[k] = Segment(k)
  <2> HIDE DEF Segment, n
  <2>1. n \in Nat
    BY <1>4
  <2> QED
    BY <1>8, <2>1
<1> HIDE DEF segments
<1>10. /\ all.segments = segments /\ all.files = files /\ all.total = p[n]
       /\ all.writing = FALSE /\ all.heard = heard /\ IsShape(all)
       /\ Segments(all) = 1..n /\ p[n] \in Nat
  <2>1. n \in 0..n
    BY <1>4
  <2> QED
    BY <1>6, <1>9, <2>1 DEF IsShape, Segments
<1>11. ASSUME NEW k \in 1..n
       PROVE  /\ all.segments[k].index = order[k] /\ all.segments[k].complete
              /\ all.segments[k].sample_count = files[order[k]].count
              /\ StartAt(all, k) = p[k - 1] /\ EndAt(all, k) = p[k]
              /\ FileOf(all, k) = files[order[k]]
  <2>1. all.segments[k] = Segment(k)
    BY <1>9, <1>10
  <2>2. /\ Segment(k).index = order[k] /\ Segment(k).start_sample = p[k - 1]
        /\ Segment(k).sample_count = files[order[k]].count /\ Segment(k).complete
    OBVIOUS
  <2>3. all.files = files
    BY <1>10
  <2> HIDE DEF Segment, all
  <2>4. EndAt(all, k) = p[k - 1] + files[order[k]].count
    BY <2>1, <2>2 DEF EndAt, EndSample
  <2>5. p[k] = p[k - 1] + files[order[k]].count
    BY <1>6
  <2> QED
    BY <2>1, <2>2, <2>3, <2>4, <2>5 DEF StartAt, FileOf
<1> HIDE DEF all
<1>12. ASSUME NEW k \in 1..n, NEW l \in 1..n, k < l
       PROVE  /\ EndAt(all, k) <= StartAt(all, l)
              /\ all.segments[k].index < all.segments[l].index
              /\ FileOf(all, k).first + all.segments[k].sample_count <= FileOf(all, l).first
  <2>1. k \in 0..n /\ l - 1 \in 0..n /\ k <= l - 1
    BY <1>4, <1>12
  <2>2. p[k] <= p[l - 1]
    BY <1>6, <2>1
  <2>3. order[k] < order[l]
    BY <1>4, <1>12
  <2>4. files[order[k]].first + files[order[k]].count <= files[order[l]].first
    BY <1>5, <2>3 DEF Left
  <2> QED
    BY <1>11, <2>2, <2>3, <2>4
<1>13. Placed(all)
  <2>1. \A k \in 1..n : /\ all.segments[k].sample_count > 0
                        /\ EndAt(all, k) <= all.total
                        /\ all.segments[k].complete
    BY <1>5, <1>8, <1>10, <1>11
  <2>2. \A k, l \in 1..n : k < l => EndAt(all, k) <= StartAt(all, l)
    BY <1>12
  <2>3. all.segments \in Seq(SegmentInfo) /\ all.total \in Nat /\ all.writing = FALSE
    BY <1>9, <1>10
  <2> HIDE DEF n
  <2> QED
    BY <1>10, <2>1, <2>2, <2>3 DEF Placed
<1>14. Filed(all)
  <2>1. IsRecorder(all)
    <3>1. /\ DOMAIN files \subseteq Nat /\ heard \in Nat
          /\ \A i \in DOMAIN files : files[i] \in PcmFile /\ files[i].flushed <= files[i].count
      BY DEF Left, PcmFile
    <3> QED
      BY <1>9, <1>10, <3>1 DEF IsRecorder, IsShape
  <2>2. ASSUME NEW i \in DOMAIN all.files, all.files[i].count > 0
        PROVE  \E k \in Segments(all) : all.segments[k].index = i
    <3>1. i \in held
      BY <1>10, <2>2
    <3> HIDE DEF held
    <3>2. PICK k \in 1..n : order[k] = i
      BY <1>4, <3>1
    <3>3. all.segments[k].index = i
      BY <1>11, <3>2
    <3> QED
      BY <1>10, <3>2, <3>3
  <2>3. \A k \in Segments(all) :
          /\ all.segments[k].index \in DOMAIN all.files
          /\ FileOf(all, k).count = all.segments[k].sample_count
          /\ FileOf(all, k).first + all.segments[k].sample_count <= all.heard
          /\ all.segments[k].complete => FileOf(all, k).flushed = all.segments[k].sample_count
    BY <1>5, <1>10, <1>11
  <2> QED
    BY <1>10, <1>12, <2>1, <2>2, <2>3 DEF Filed, Left
<1>15. NoHole(all)
  <2>1. Len(all.segments) = n /\ all.total = p[n]
    BY <1>9, <1>10
  <2>2. all.segments # << >> => n \in 1..n
    BY <1>4, <1>9, <1>10
  <2>3. all.segments # << >> => EndAt(all, Len(all.segments)) = all.total
    BY <1>11, <2>1, <2>2
  <2>4. ASSUME NEW k \in 1..n, k + 1 \in 1..n
        PROVE  EndAt(all, k) = StartAt(all, k + 1)
    <3>1. EndAt(all, k) = p[k] /\ StartAt(all, k + 1) = p[k + 1 - 1] /\ k + 1 - 1 = k
      BY <1>4, <1>11, <2>4
    <3> QED
      BY <3>1
  <2> QED
    BY <1>10, <2>3, <2>4 DEF NoHole
<1>16. Sound(all)
  BY <1>13, <1>14, <1>15 DEF Sound
<1> QED
  BY <1>7, <1>16, TrimmedSound

-----------------------------------------------------------------------------
(* The invariant of the process *)

IsFcn(f) == f = [x \in DOMAIN f |-> f[x]]

\* The stages of an export thread.
Busy == {"begin", "copy", "retire"}
Over == {"retire", "release", "settle", "trim"}

Export ==
  [at : {"spawn", "begin", "copy", "retire", "release", "settle", "trim"},
   from : Nat, to : Nat, result : Terminal \cup {None}, remaining : Nat,
   segments : SUBSET SegmentInfo]

\* What TypeOK says of the callers and the threads, and what it leaves unsaid.
QueueTyped ==
  /\ queue \in Seq(Command) /\ Len(queue) <= Capacity
  /\ \A k \in 1..Len(queue) : queue[k].kind = "push" => queue[k].count > 0

WorkerTyped ==
  /\ worker \in [at : {"idle", "write", "publish", "spawn", "gone"},
                 left : Nat, seen : Nat, job : Job \cup {None}]
  /\ status \in [retained : Nat, total : Nat, active : Nat]

JobsTyped ==
  /\ DOMAIN jobs \subseteq Job /\ \A job \in DOMAIN jobs : jobs[job] \in JobState
  /\ DOMAIN flags \subseteq DOMAIN jobs /\ \A job \in DOMAIN flags : flags[job] \in BOOLEAN
  /\ DOMAIN sending \subseteq DOMAIN jobs
  /\ \A job \in DOMAIN sending : sending[job] \in Request
  /\ DOMAIN exports \subseteq DOMAIN jobs /\ outputs \subseteq DOMAIN jobs
  /\ \A job \in DOMAIN exports : exports[job] \in Export

RestTyped == IsFcn(pins) /\ stopped \in BOOLEAN /\ faults \in 0 .. MaxFaults

Typed == QueueTyped /\ WorkerTyped /\ JobsTyped /\ RestTyped

\* Each job is asked for once.
HasTrim == \E k \in 1..Len(queue) : queue[k].kind = "trim"

HasSave(job) == \E k \in 1..Len(queue) : queue[k].kind = "save" /\ queue[k].job = job

SavesDiffer ==
  \A k, l \in 1..Len(queue) :
    queue[k].kind = "save" /\ queue[l].kind = "save" /\ queue[k].job = queue[l].job => k = l

AskedOnce ==
  /\ SavesDiffer
  /\ \A job \in DOMAIN sending : ~HasSave(job) /\ worker.job # job
  /\ \A job \in Job : HasSave(job) => worker.job # job /\ job \in DOMAIN jobs
  /\ worker.job # None => worker.job \in DOMAIN jobs /\ worker.at \in {"publish", "spawn"}
  /\ worker.at = "spawn" => worker.job # None

Waits(job) == job \in DOMAIN sending \/ HasSave(job) \/ worker.job = job

\* A job is waiting, is exported, or has been settled.
JobIsSomewhere(job) ==
  /\ Waits(job) =>
       /\ jobs[job] \in {"pending", "canceled"} /\ job \notin outputs
       /\ job \in DOMAIN exports => worker.job = job /\ exports[job].at = "spawn"
  /\ job \in DOMAIN exports =>
       /\ exports[job].at = "spawn" => worker.job = job
       /\ exports[job].at \in Busy \cup {"release", "settle"} => jobs[job] = "running"
       /\ exports[job].at = "begin" => job \notin outputs
       /\ exports[job].at = "copy" => job \in outputs
       /\ exports[job].at \in Over =>
            /\ exports[job].result \in Terminal
            /\ exports[job].result = "finished" => job \in outputs
  /\ ~Waits(job) /\ (job \in DOMAIN exports => exports[job].at = "trim") =>
       /\ jobs[job] \in Terminal
       /\ jobs[job] \in {"failed", "canceled"} => job \notin outputs
       /\ jobs[job] = "finished" => job \in outputs

JobsAreSomewhere == \A job \in DOMAIN jobs : JobIsSomewhere(job)

\* The counters count.
Running == {job \in DOMAIN exports : exports[job].at \in Busy}
Holders(i) == {job \in DOMAIN exports : i \in FilesOf(exports[job])}

Counted ==
  /\ IsFiniteSet(DOMAIN exports)
  /\ active = Cardinality(Running)
  /\ \A i \in DOMAIN pins : Holders(i) # {} /\ pins[i] = Cardinality(Holders(i))
  /\ \A job \in DOMAIN exports :
       /\ FilesOf(exports[job]) \subseteq DOMAIN pins
       /\ exports[job].at \in {"settle", "trim"} => exports[job].segments = {}

\* What a clip is made of is there.
ClipsAreThere ==
  \A job \in DOMAIN exports :
    exports[job].at \in {"spawn", "begin", "copy"} =>
      /\ Covers(exports[job].segments, exports[job].from, exports[job].to)
      /\ \A segment \in exports[job].segments : IsReadable(segment)

\* Who still has something to say about the status.
StatusFollows ==
  /\ worker.at \in {"idle", "spawn"} =>
       status.retained = RetainedStart(recorder) /\ status.total = recorder.total
  /\ worker.at # "gone" /\ status.active # 0 =>
       DOMAIN exports # {} \/ HasTrim \/ (worker.at = "publish" /\ worker.seen = 0)
  /\ worker.at = "publish" /\ worker.seen # 0 => DOMAIN exports # {} \/ HasTrim

\* Who will remove what has expired.
TrimFollows ==
  faults = 0 =>
    \/ worker.at \in {"write", "gone"} \/ HasTrim
    \/ \E job \in DOMAIN exports : exports[job].at \in {"settle", "trim"}
    \/ Removable(recorder, DOMAIN pins) = {}

IInv ==
  /\ Sound(recorder) /\ Typed /\ AskedOnce /\ JobsAreSomewhere /\ Counted
  /\ ClipsAreThere /\ StatusFollows /\ TrimFollows

-----------------------------------------------------------------------------
(* The recorder in the process *)

LEMMA EmptySound == Sound(EmptyRecorder)
<1> DEFINE r == EmptyRecorder
<1>1. /\ r.segments = << >> /\ r.files = << >> /\ r.total = 0 /\ r.writing = FALSE
      /\ r.heard = 0 /\ IsShape(r)
  BY DEF EmptyRecorder, IsShape
<1>2. Segments(r) = {} /\ r.segments \in Seq(SegmentInfo)
  BY <1>1 DEF Segments
<1>3. DOMAIN r.files = {}
  BY <1>1
<1>4. r.total \in Nat /\ r.heard \in Nat /\ r.writing \in BOOLEAN /\ ~r.writing
  BY DEF EmptyRecorder
<1>5. ~(r.segments # << >>) /\ IsShape(r)
  BY <1>1
<1> HIDE DEF r
<1>6. Placed(r)
  BY <1>2, <1>4 DEF Placed
<1>7. NoHole(r)
  BY <1>2, <1>5 DEF NoHole
<1>8. IsRecorder(r)
  BY <1>2, <1>3, <1>4, <1>5 DEF IsRecorder, IsShape
<1>9. IsFiniteSet(DOMAIN r.files)
  BY <1>3, FS_EmptySet
<1>10. Filed(r)
  BY <1>2, <1>3, <1>8, <1>9 DEF Filed
<1> QED
  BY <1>6, <1>7, <1>10 DEF Sound, r

LEMMA CommandIs ==
  ASSUME NEW c \in Command
  PROVE  /\ c.kind \in {"push", "save", "trim", "stop"}
         /\ c.kind = "push" => c.count \in Nat
         /\ c.kind = "save" => c.job \in Job /\ c.want \in Request
BY DEF Command

LEMMA QueueTail ==
  ASSUME queue \in Seq(Command), queue # << >>, queue' = Tail(queue)
  PROVE  /\ queue' \in Seq(Command) /\ Len(queue) \in Nat /\ Len(queue') = Len(queue) - 1
         /\ 1 \in 1..Len(queue) /\ Next1 = queue[1] /\ Next1 \in Command
         /\ \A k \in 1..Len(queue') : queue'[k] = queue[k + 1] /\ k + 1 \in 1..Len(queue)
         /\ \A k \in 1..Len(queue) : k # 1 => k - 1 \in 1..Len(queue')
<1>1. queue' \in Seq(Command) /\ Len(queue) \in Nat /\ Len(queue') = Len(queue) - 1
      /\ Len(queue) > 0
  OBVIOUS
<1>2. Next1 = queue[1] /\ Next1 \in Command
  BY <1>1 DEF Next1
<1>3. \A k \in 1..Len(queue') : queue'[k] = queue[k + 1]
  BY <1>1
<1> QED
  BY <1>1, <1>2, <1>3

LEMMA QueueAppend ==
  ASSUME queue \in Seq(Command), NEW c \in Command, queue' = Append(queue, c)
  PROVE  /\ queue' \in Seq(Command) /\ Len(queue) \in Nat /\ Len(queue') = Len(queue) + 1
         /\ queue'[Len(queue')] = c
         /\ \A k \in 1..Len(queue) : queue'[k] = queue[k] /\ k \in 1..Len(queue')
         /\ \A k \in 1..Len(queue') : k = Len(queue') \/ k \in 1..Len(queue)
<1>1. queue' \in Seq(Command) /\ Len(queue) \in Nat /\ Len(queue') = Len(queue) + 1
  OBVIOUS
<1>2. queue'[Len(queue) + 1] = c /\ \A k \in 1..Len(queue) : queue'[k] = queue[k]
  OBVIOUS
<1> QED
  BY <1>1, <1>2

\* A clip loses nothing it has pinned.
Keeps(r) ==
  /\ r.total >= recorder.total
  /\ RetainedStart(r) >= RetainedStart(recorder)
  /\ \A i \in DOMAIN recorder.files :
       i \in DOMAIN pins =>
         i \in DOMAIN r.files /\ r.files[i].flushed >= recorder.files[i].flushed

LEMMA SoundIs ==
  ASSUME NEW r, Sound(r)
  PROVE  /\ r.total \in Nat /\ RetainedStart(r) \in Nat /\ RetainedStart(r) <= r.total
         /\ \A i \in DOMAIN r.files : r.files[i].flushed \in Nat
<1>1. r.total \in Nat /\ RetainedStart(r) \in 0..r.total
  BY RetainedBounds, SegmentedRecorderConstants DEF Sound, Placed
<1>2. \A i \in DOMAIN r.files : r.files[i].flushed \in Nat
  BY DEF Sound, Filed, IsRecorder, PcmFile
<1> QED
  BY <1>1, <1>2

LEMMA KeepsItself ==
  ASSUME Sound(recorder)
  PROVE  Keeps(recorder)
BY SoundIs DEF Keeps

LEMMA RemainingIs ==
  ASSUME NEW r, Sound(r)
  PROVE  Remaining(r) \in Nat \ {0}
<1>1. CASE r.writing
  <2>1. Len(r.segments) \in Segments(r) /\ Last(r.segments).sample_count < SegmentSize
    BY <1>1, SegmentsAre DEF Sound, Placed, Segments
  <2>2. Last(r.segments) \in SegmentInfo
    BY <2>1, SegmentsAre DEF Sound, Last
  <2> QED
    BY <1>1, <2>1, <2>2, SegmentedRecorderConstants
    DEF Remaining, SegmentInfo, SegmentedRecorderConstants
<1>2. CASE ~r.writing
  BY <1>2, SegmentedRecorderConstants DEF Remaining, SegmentedRecorderConstants
<1> QED
  BY <1>1, <1>2

LEMMA WritesSound ==
  ASSUME Sound(recorder), NEW count \in Nat \ {0}, Writes(count)
  PROVE  Sound(recorder') /\ Keeps(recorder')
         /\ worker'.at = "write" /\ worker'.left \in Nat
         /\ worker'.seen = 0 /\ worker'.job = None
         /\ worker' \in [at : {"write"}, left : Nat, seen : Nat, job : {None}]
<1> DEFINE piece == Smaller(count, Remaining(recorder))
<1>1. piece \in Nat \ {0} /\ piece <= Remaining(recorder) /\ count - piece \in Nat
  BY RemainingIs DEF Smaller
<1>2. recorder' = Written(recorder, piece)
      /\ worker' = [IdleWorker EXCEPT !.at = "write", !.left = count - piece]
  BY DEF Writes
<1> HIDE DEF piece
<1>3. /\ Sound(recorder') /\ RetainedStart(recorder') >= RetainedStart(recorder)
      /\ recorder'.total = recorder.total + piece
      /\ \A i \in DOMAIN recorder.files :
           i \in DOMAIN recorder'.files
           /\ recorder'.files[i].flushed >= recorder.files[i].flushed
  BY <1>1, <1>2, WrittenSound, SegmentedRecorderConstants
<1>4. Keeps(recorder')
  BY <1>1, <1>3, SoundIs DEF Keeps
<1>5. /\ worker'.at = "write" /\ worker'.left = count - piece
      /\ worker'.seen = 0 /\ worker'.job = None
      /\ worker' \in [at : {"write"}, left : Nat, seen : Nat, job : {None}]
  BY <1>1, <1>2 DEF IdleWorker
<1> QED
  BY <1>1, <1>2, <1>3, <1>4, <1>5

LEMMA TrimsSound ==
  ASSUME Sound(recorder), Trims(recorder), faults \in 0 .. MaxFaults
  PROVE  /\ Sound(recorder') /\ Keeps(recorder')
         /\ faults' \in 0 .. MaxFaults
         /\ faults' = 0 => faults = 0 /\ Removable(recorder', DOMAIN pins) = {}
<1>1. PICK stop : /\ recorder' = Trimmed(recorder, DOMAIN pins, stop)
                  /\ \/ stop = NoFailure(recorder) /\ UNCHANGED faults
                     \/ Fault("remove")
  BY DEF Trims
<1>2. /\ Sound(recorder') /\ recorder'.total = recorder.total
      /\ RetainedStart(recorder') = RetainedStart(recorder)
      /\ \A i \in DOMAIN recorder.files : i \in DOMAIN pins => i \in DOMAIN recorder'.files
      /\ \A i \in DOMAIN recorder'.files : recorder'.files[i] = recorder.files[i]
      /\ stop = NoFailure(recorder) => Removable(recorder', DOMAIN pins) = {}
  BY <1>1, TrimmedSound, SegmentedRecorderConstants
<1>3. Keeps(recorder')
  BY <1>2, SoundIs DEF Keeps
<1>4. faults' \in 0 .. MaxFaults /\ (faults' = 0 => faults = 0 /\ UNCHANGED faults)
  BY <1>1, RecorderWorkerConstants DEF Fault, RecorderWorkerConstants
<1>5. faults' = 0 => stop = NoFailure(recorder)
  BY <1>1, <1>4, RecorderWorkerConstants DEF Fault, RecorderWorkerConstants
<1> QED
  BY <1>2, <1>3, <1>4, <1>5

LEMMA FlushSound ==
  ASSUME Sound(recorder), recorder' = Flushed(recorder)
  PROVE  /\ Sound(recorder') /\ Keeps(recorder')
         /\ recorder'.segments = recorder.segments /\ recorder'.total = recorder.total
         /\ RetainedStart(recorder') = RetainedStart(recorder)
         /\ \A k \in Segments(recorder') :
              FileOf(recorder', k).flushed = recorder'.segments[k].sample_count
<1>1. /\ Sound(recorder') /\ recorder'.segments = recorder.segments
      /\ recorder'.total = recorder.total
      /\ RetainedStart(recorder') = RetainedStart(recorder)
      /\ DOMAIN recorder'.files = DOMAIN recorder.files
      /\ \A i \in DOMAIN recorder.files :
           recorder'.files[i].flushed >= recorder.files[i].flushed
      /\ \A k \in Segments(recorder') :
           FileOf(recorder', k).flushed = recorder'.segments[k].sample_count
  BY FlushedSound, SegmentedRecorderConstants
<1>2. Keeps(recorder')
  BY <1>1, SoundIs DEF Keeps
<1> QED
  BY <1>1, <1>2

LEMMA PushCount ==
  ASSUME Typed, Receives("push")
  PROVE  Next1.count \in Nat \ {0}
<1>1. Next1 = queue[1] /\ 1 \in 1..Len(queue) /\ Next1 \in Command /\ Next1.kind = "push"
  BY QueueTail DEF Typed, QueueTyped, Receives
<1> QED
  BY <1>1, CommandIs DEF Typed, QueueTyped

\* Whatever the worker does, the recorder stays sound and keeps what is pinned.
LEMMA RecorderMoves ==
  ASSUME Sound(recorder), Typed, [Next]_vars
  PROVE  /\ Sound(recorder')
         /\ Keeps(recorder') \/ Crash
<1> USE DEF Typed, WorkerTyped, RestTyped
<1>1. CASE UNCHANGED recorder
  BY <1>1, KeepsItself
<1>2. CASE Push
  BY <1>2, PushCount, WritesSound DEF Push
<1>3. CASE PushRest
  BY <1>3, WritesSound DEF PushRest
<1>4. CASE PushTrim
  BY <1>4, TrimsSound DEF PushTrim
<1>5. CASE Trim
  BY <1>5, TrimsSound DEF Trim
<1>6. CASE Save
  BY <1>6, FlushSound DEF Save
<1>7. CASE Leave
  BY <1>7, FlushSound DEF Leave
<1>8. CASE Crash
  <2>1. PICK files \in Torn(recorder) : recorder' = Recovered(files, recorder.heard)
    BY <1>8 DEF Crash, Fresh
  <2>2. Left(files, recorder.heard)
    BY <2>1, TornLeft, SegmentedRecorderConstants
  <2> QED
    BY <1>8, <2>1, <2>2, RecoveredSound, SegmentedRecorderConstants
<1>9. CASE UNCHANGED vars
  BY <1>1, <1>9 DEF vars
<1>10. CASE \/ \E count \in Chunk : PushSamples(count)
            \/ Stop
            \/ \E job \in Job :
                 \/ \E want \in Requests : EnqueueExport(job, want)
                 \/ SendExport(job) \/ CancelExport(job)
  BY <1>1, <1>10 DEF PushSamples, Stop, EnqueueExport, SendExport, CancelExport
<1>11. CASE \E job \in Job : ExportStep(job)
  BY <1>1, <1>11 DEF ExportStep, Begin, Retire, Release, Settle, End, Copy
<1>12. CASE Publish \/ Spawn
  BY <1>1, <1>12 DEF Publish, Spawn
<1> QED
  BY <1>2, <1>3, <1>4, <1>5, <1>6, <1>7, <1>8, <1>9, <1>10, <1>11, <1>12
  DEF Next, WorkerStep

-----------------------------------------------------------------------------
(* Types *)

LEMMA ExportsAre ==
  ASSUME Typed, NEW job \in DOMAIN exports
  PROVE  /\ exports[job] \in Export /\ job \in DOMAIN jobs /\ job \in Job
         /\ exports[job].segments \subseteq SegmentInfo
         /\ exports[job].from \in Nat /\ exports[job].to \in Nat
         /\ exports[job].remaining \in Nat
BY DEF Typed, JobsTyped, Export

\* An export that has begun is one of those that are counted.
LEMMA ActiveIs ==
  ASSUME Counted
  PROVE  /\ active \in Nat
         /\ \A job \in Running : active - 1 \in Nat
         /\ active # 0 => DOMAIN exports # {}
<1>1. Running \in SUBSET DOMAIN exports
  BY DEF Running
<1>2. IsFiniteSet(Running)
  BY <1>1, FS_Subset DEF Counted
<1>3. active \in Nat /\ active = Cardinality(Running)
  BY <1>2, FS_CardinalityType DEF Counted
<1>4. active = 0 <=> Running = {}
  BY <1>2, <1>3, FS_EmptySet
<1> QED
  BY <1>1, <1>3, <1>4

\* The first command, when it is a save, is for a job.
LEMMA SaveIs ==
  ASSUME Typed, AskedOnce, Receives("save")
  PROVE  /\ Next1.job \in Job /\ Next1.job \in DOMAIN jobs /\ Next1.want \in Request
         /\ HasSave(Next1.job) /\ Next1.job # None
<1>1. Next1 = queue[1] /\ 1 \in 1..Len(queue) /\ Next1 \in Command /\ Next1.kind = "save"
  BY QueueTail DEF Typed, QueueTyped, Receives
<1>2. Next1.job \in Job /\ Next1.want \in Request /\ HasSave(Next1.job)
  BY <1>1, CommandIs DEF HasSave
<1>3. Next1.job # None
  BY <1>2, RecorderWorkerConstants DEF RecorderWorkerConstants
<1> QED
  BY <1>2, <1>3 DEF AskedOnce

LEMMA NewExportIs ==
  ASSUME NEW r, Sound(r), NEW want \in Request
  PROVE  LET export == NewExport(want, r) IN
         /\ export \in Export
         /\ export.at = "spawn"
         /\ export.from >= RetainedStart(r) \/ want.kind = "range"
         /\ want.kind = "range" => export.from = want.from /\ export.to = want.to
         /\ want.kind # "range" => export.to = r.total
         /\ \A segment \in export.segments : \E k \in Segments(r) : segment = r.segments[k]
         /\ \A k \in Segments(r) : StartAt(r, k) < export.to /\ EndAt(r, k) > export.from =>
              r.segments[k] \in export.segments
<1> DEFINE all == {r.segments[k] : k \in DOMAIN r.segments}
           from == IF want.kind = "range" THEN want.from
                   ELSE Larger(RetainedStart(r), r.total - want.length)
           to == IF want.kind = "range" THEN want.to ELSE r.total
           segments == IF want.kind = "range" THEN Overlapping(all, from, to) ELSE all
           export == NewExport(want, r)
<1>1. /\ want.kind = "range" => want.from \in Nat /\ want.to \in Nat
      /\ want.kind # "range" => want.length \in Nat
  BY DEF Request
<1>2. r.total \in Nat /\ RetainedStart(r) \in Nat
  BY SoundIs
<1>3. from \in Nat /\ to \in Nat
  BY <1>1, <1>2 DEF Larger
<1>4. from >= RetainedStart(r) \/ want.kind = "range"
  BY <1>1, <1>2 DEF Larger
<1>5. all \subseteq SegmentInfo /\ DOMAIN r.segments = Segments(r)
  BY SegmentsAre DEF Sound
<1>6. segments \subseteq all
  <2> HIDE DEF all
  <2> QED
    BY DEF Overlapping
<1>7. \A k \in Segments(r) : StartAt(r, k) < to /\ EndAt(r, k) > from =>
        r.segments[k] \in segments
  BY <1>5 DEF Overlapping, StartAt, EndAt
<1>8. export = [at |-> "spawn", from |-> from, to |-> to, result |-> None,
                remaining |-> 0, segments |-> segments]
  BY DEF NewExport
<1>9. \A segment \in all : \E k \in Segments(r) : segment = r.segments[k]
  BY <1>5
<1> HIDE DEF all, segments, from, to, export
<1>10. export \in Export
  BY <1>3, <1>5, <1>6, <1>8 DEF Export
<1>11. /\ want.kind = "range" => from = want.from /\ to = want.to
       /\ want.kind # "range" => to = r.total
  BY DEF from, to
<1> QED
  BY <1>4, <1>6, <1>7, <1>8, <1>9, <1>10, <1>11 DEF export

LEMMA InitTyped ==
  ASSUME Init
  PROVE  Typed
<1>1. queue \in Seq(Command) /\ Len(queue) = 0
  BY DEF Init
<1>2. DOMAIN jobs = {} /\ DOMAIN flags = {} /\ DOMAIN sending = {} /\ DOMAIN exports = {}
      /\ IsFcn(pins) /\ outputs = {}
  BY DEF Init, IsFcn
<1>3. RetainedStart(EmptyRecorder) \in Nat /\ EmptyRecorder.total \in Nat
  BY EmptySound, SoundIs
<1>4. worker \in [at : {"idle"}, left : Nat, seen : Nat, job : {None}]
      /\ status \in [retained : Nat, total : Nat, active : Nat]
  BY <1>3 DEF Init, IdleWorker, StatusOf
<1>5. WorkerTyped
  BY <1>4 DEF WorkerTyped
<1>6. QueueTyped
  BY <1>1, RecorderWorkerConstants DEF RecorderWorkerConstants, QueueTyped
<1>7. RestTyped
  <2>1. faults \in 0 .. MaxFaults
    BY RecorderWorkerConstants DEF Init, RecorderWorkerConstants
  <2>2. stopped \in BOOLEAN
    BY DEF Init
  <2> QED
    BY <1>2, <2>1, <2>2 DEF RestTyped
<1>8. JobsTyped
  BY <1>2 DEF JobsTyped
<1> QED
  BY <1>5, <1>6, <1>7, <1>8 DEF Typed

\* How the channel changes: someone sends a command, the worker takes one, or the
\* process begins anew.
Sends(c) ==
  /\ c \in Command /\ (c.kind = "push" => c.count > 0)
  /\ HasRoom /\ queue' = Append(queue, c)

LEMMA QueueMoves ==
  ASSUME Typed, [Next]_vars
  PROVE  \/ UNCHANGED queue
         \/ \E c : Sends(c)
         \/ \E kind : Receives(kind)
         \/ queue' = << >>
<1>1. CASE \E count \in Chunk : PushSamples(count)
  <2>1. PICK count \in Chunk : PushSamples(count)
    BY <1>1
  <2>2. count \in Nat /\ count > 0
    BY RecorderWorkerConstants DEF RecorderWorkerConstants
  <2> DEFINE c == [kind |-> "push", count |-> count]
  <2>3. c \in Command /\ c.count > 0
    BY <2>2 DEF Command
  <2>4. Sends(c)
    BY <2>1, <2>3 DEF PushSamples, Sends
  <2> QED
    BY <2>4
<1>2. CASE Stop
  <2> DEFINE c == [kind |-> "stop"]
  <2>1. c \in Command /\ c.kind # "push"
    BY DEF Command
  <2>2. Sends(c)
    BY <1>2, <2>1 DEF Stop, Sends
  <2> QED
    BY <2>2
<1>3. CASE \E job \in Job : SendExport(job)
  <2>1. PICK job \in Job : SendExport(job)
    BY <1>3
  <2> DEFINE c == [kind |-> "save", job |-> job, want |-> sending[job]]
  <2>2. sending[job] \in Request
    BY <2>1 DEF SendExport, Typed, JobsTyped
  <2>3. c \in Command /\ c.kind # "push"
    BY <2>2 DEF Command
  <2>4. Sends(c)
    BY <2>1, <2>3 DEF SendExport, Sends
  <2> QED
    BY <2>4
<1>4. CASE \E job \in Job : End(job)
  <2> DEFINE c == [kind |-> "trim"]
  <2>1. c \in Command /\ c.kind # "push"
    BY DEF Command
  <2>2. UNCHANGED queue \/ Sends(c)
    BY <1>4, <2>1 DEF End, AskTrim, Sends
  <2> QED
    BY <2>2
<1>5. CASE \E job \in Job :
             \/ \E want \in Requests : EnqueueExport(job, want)
             \/ CancelExport(job) \/ Begin(job) \/ Retire(job) \/ Release(job) \/ Settle(job)
             \/ \E result \in Terminal : Copy(job, result)
  BY <1>5 DEF EnqueueExport, CancelExport, Begin, Retire, Release, Settle, Copy
<1>6. CASE WorkerStep
  BY <1>6 DEF WorkerStep, Push, PushRest, PushTrim, Trim, Save, Publish, Spawn, Leave
<1>7. CASE Crash
  BY <1>7 DEF Crash, Fresh
<1>8. CASE UNCHANGED vars
  BY <1>8 DEF vars
<1> QED
  BY <1>1, <1>2, <1>3, <1>4, <1>5, <1>6, <1>7, <1>8 DEF Next, ExportStep

LEMMA NextQueueTyped ==
  ASSUME Typed, [Next]_vars
  PROVE  QueueTyped'
<1> USE DEF Typed, QueueTyped
<1>1. CASE UNCHANGED queue
  BY <1>1
<1>2. ASSUME NEW c, Sends(c)
      PROVE  QueueTyped'
  <2>1. Len(queue) + 1 <= Capacity
    BY <1>2, RecorderWorkerConstants DEF Sends, HasRoom, RecorderWorkerConstants
  <2> QED
    BY <1>2, <2>1, QueueAppend DEF Sends
<1>3. ASSUME NEW kind, Receives(kind)
      PROVE  QueueTyped'
  <2>1. Len(queue') = Len(queue) - 1 /\ Len(queue) \in Nat /\ Capacity \in Nat
    BY <1>3, QueueTail, RecorderWorkerConstants DEF Receives, RecorderWorkerConstants
  <2> QED
    BY <1>3, <2>1, QueueTail DEF Receives
<1>4. CASE queue' = << >>
  BY <1>4, RecorderWorkerConstants DEF RecorderWorkerConstants
<1> QED
  BY <1>1, <1>2, <1>3, <1>4, QueueMoves

LEMMA WorkerPublishes ==
  ASSUME active \in Nat, NEW job \in Job \cup {None}, WillPublish(job)
  PROVE  /\ worker'.at = "publish" /\ worker'.seen = active /\ worker'.job = job
         /\ worker' \in [at : {"publish"}, left : Nat, seen : Nat, job : Job \cup {None}]
BY DEF WillPublish, IdleWorker

LEMMA NextWorkerTyped ==
  ASSUME Sound(recorder), Typed, AskedOnce, Counted, [Next]_vars
  PROVE  WorkerTyped'
<1> DEFINE W == [at : {"idle", "write", "publish", "spawn", "gone"},
                 left : Nat, seen : Nat, job : Job \cup {None}]
           S == [retained : Nat, total : Nat, active : Nat]
<1>1. worker \in W /\ status \in S /\ active \in Nat
  BY ActiveIs DEF Typed, WorkerTyped
<1>2. IdleWorker \in W
  BY DEF IdleWorker
<1>3. ASSUME NEW r, Sound(r), NEW n \in Nat
      PROVE  StatusOf(r, n) \in S
  BY <1>3, SoundIs DEF StatusOf
<1>4. CASE UNCHANGED <<worker, status>>
  BY <1>1, <1>4 DEF WorkerTyped
<1>5. CASE Push \/ PushRest
  <2>1. PICK count \in Nat \ {0} : Writes(count)
    <3>1. CASE Push
      BY <3>1, PushCount DEF Push
    <3>2. CASE PushRest
      <4>1. worker.left \in Nat \ {0}
        BY <1>1, <3>2 DEF PushRest
      <4> QED
        BY <3>2, <4>1 DEF PushRest
    <3> QED
      BY <1>5, <3>1, <3>2
  <2>2. worker' \in [at : {"write"}, left : Nat, seen : Nat, job : {None}] /\ UNCHANGED status
    BY <2>1, WritesSound DEF Writes
  <2>3. worker' \in W
    BY <2>2
  <2> QED
    BY <1>1, <2>2, <2>3 DEF WorkerTyped
<1>6. CASE PushTrim \/ Trim \/ Save
  <2>1. PICK job \in Job \cup {None} : WillPublish(job)
    BY <1>6, SaveIs DEF PushTrim, Trim, Save
  <2>2. worker' \in [at : {"publish"}, left : Nat, seen : Nat, job : Job \cup {None}]
    BY <1>1, <2>1, WorkerPublishes
  <2>3. worker' \in W /\ UNCHANGED status
    BY <1>6, <2>2 DEF PushTrim, Trim, Save
  <2> QED
    BY <1>1, <2>3 DEF WorkerTyped
<1>7. CASE Publish
  <2>1. status' \in S
    BY <1>1, <1>3, <1>7 DEF Publish
  <2>2. worker' \in W
    BY <1>1, <1>2, <1>7 DEF Publish
  <2> QED
    BY <2>1, <2>2 DEF WorkerTyped
<1>8. CASE Spawn \/ Leave
  <2>1. worker' \in W /\ UNCHANGED status
    BY <1>2, <1>8 DEF Spawn, Leave, IdleWorker
  <2> QED
    BY <1>1, <2>1 DEF WorkerTyped
<1>9. CASE \E job \in Job : Settle(job)
  <2>1. PICK job \in Job : Settle(job)
    BY <1>9
  <2>2. exports[job].remaining \in Nat
    BY <2>1, ExportsAre DEF Settle, At
  <2>3. status' \in S /\ UNCHANGED worker
    BY <1>1, <2>1, <2>2 DEF Settle
  <2> QED
    BY <1>1, <2>3 DEF WorkerTyped
<1>10. CASE Crash
  <2>1. worker' = IdleWorker /\ status' = StatusOf(recorder', 0)
    BY <1>10 DEF Crash, Fresh
  <2>2. Sound(recorder')
    BY RecorderMoves
  <2> QED
    BY <1>2, <1>3, <2>1, <2>2 DEF WorkerTyped
<1>11. CASE \/ \E count \in Chunk : PushSamples(count)
            \/ Stop
            \/ \E job \in Job :
                 \/ \E want \in Requests : EnqueueExport(job, want)
                 \/ SendExport(job) \/ CancelExport(job)
                 \/ Begin(job) \/ Retire(job) \/ Release(job) \/ End(job)
                 \/ \E result \in Terminal : Copy(job, result)
  BY <1>4, <1>11
  DEF PushSamples, Stop, EnqueueExport, SendExport, CancelExport,
      Begin, Retire, Release, End, Copy
<1>12. CASE UNCHANGED vars
  BY <1>4, <1>12 DEF vars
<1> QED
  BY <1>5, <1>6, <1>7, <1>8, <1>9, <1>10, <1>11, <1>12 DEF Next, WorkerStep, ExportStep

LEMMA NextRestTyped ==
  ASSUME Sound(recorder), Typed, [Next]_vars
  PROVE  RestTyped'
<1> USE DEF Typed, RestTyped
<1>1. CASE UNCHANGED <<pins, stopped, faults>>
  BY <1>1
<1>2. faults' \in 0 .. MaxFaults
  <2>1. ASSUME NEW kind, Fault(kind)
        PROVE  faults' \in 0 .. MaxFaults
    BY <2>1, RecorderWorkerConstants DEF Fault, RecorderWorkerConstants
  <2>2. CASE UNCHANGED faults
    BY <2>2
  <2>3. CASE PushTrim \/ Trim
    BY <2>3, TrimsSound DEF PushTrim, Trim
  <2>4. CASE \E job \in Job : \E result \in Terminal : Copy(job, result)
    BY <2>1, <2>2, <2>4 DEF Copy
  <2>5. CASE Crash
    BY <2>1, <2>5 DEF Crash
  <2>6. CASE UNCHANGED vars
    BY <2>2, <2>6 DEF vars
  <2>7. CASE \/ \E count \in Chunk : PushSamples(count)
             \/ Stop
             \/ \E job \in Job :
                  \/ \E want \in Requests : EnqueueExport(job, want)
                  \/ SendExport(job) \/ CancelExport(job)
                  \/ Begin(job) \/ Retire(job) \/ Release(job) \/ Settle(job) \/ End(job)
    BY <2>2, <2>7
    DEF PushSamples, Stop, EnqueueExport, SendExport, CancelExport,
        Begin, Retire, Release, Settle, End
  <2>8. CASE Push \/ PushRest \/ Save \/ Publish \/ Spawn \/ Leave
    BY <2>2, <2>8 DEF Push, PushRest, Writes, Save, Publish, Spawn, Leave
  <2> QED
    BY <2>3, <2>4, <2>5, <2>6, <2>7, <2>8 DEF Next, WorkerStep, ExportStep
<1>3. stopped' \in BOOLEAN
  <2>1. CASE Stop
    BY <2>1 DEF Stop
  <2>2. CASE Crash
    BY <2>2 DEF Crash, Fresh
  <2>3. CASE \/ \E count \in Chunk : PushSamples(count)
             \/ \E job \in Job :
                  \/ \E want \in Requests : EnqueueExport(job, want)
                  \/ SendExport(job) \/ CancelExport(job)
                  \/ ExportStep(job)
    BY <2>3
    DEF PushSamples, EnqueueExport, SendExport, CancelExport, ExportStep, callerVars,
        Begin, Retire, Release, Settle, End, Copy
  <2>4. CASE WorkerStep
    BY <2>4 DEF WorkerStep, Push, PushRest, Writes, PushTrim, Trim, Save, Publish, Spawn,
                Leave, callerVars
  <2>5. CASE UNCHANGED vars
    BY <2>5 DEF vars, callerVars
  <2> QED
    BY <2>1, <2>2, <2>3, <2>4, <2>5 DEF Next
<1>4. IsFcn(pins')
  <2>1. ASSUME NEW files
        PROVE  IsFcn(Pinned(files)) /\ IsFcn(Unpinned(files))
    BY DEF IsFcn, Pinned, Unpinned
  <2>2. CASE UNCHANGED pins
    BY <2>2
  <2>3. CASE Save
    BY <2>1, <2>2, <2>3 DEF Save
  <2>4. CASE \E job \in Job : Release(job)
    BY <2>1, <2>4 DEF Release
  <2>5. CASE Crash
    BY <2>5 DEF Crash, Fresh, IsFcn
  <2>6. CASE \/ \E count \in Chunk : PushSamples(count)
             \/ Stop
             \/ \E job \in Job :
                  \/ \E want \in Requests : EnqueueExport(job, want)
                  \/ SendExport(job) \/ CancelExport(job)
                  \/ Begin(job) \/ Retire(job) \/ Settle(job) \/ End(job)
                  \/ \E result \in Terminal : Copy(job, result)
    BY <2>2, <2>6
    DEF PushSamples, Stop, EnqueueExport, SendExport, CancelExport,
        Begin, Retire, Copy, Settle, End
  <2>7. CASE Push \/ PushRest \/ PushTrim \/ Trim \/ Publish \/ Spawn \/ Leave
    BY <2>2, <2>7 DEF Push, PushRest, Writes, PushTrim, Trim, Publish, Spawn, Leave
  <2>8. CASE UNCHANGED vars
    BY <2>2, <2>8 DEF vars
  <2> QED
    BY <2>3, <2>4, <2>5, <2>6, <2>7, <2>8 DEF Next, WorkerStep, ExportStep
<1> QED
  BY <1>2, <1>3, <1>4

-----------------------------------------------------------------------------
(* The steps of an export thread *)

\* Only this export goes on, from one stage to another.
Moves(job, from, to) ==
  /\ job \in DOMAIN exports /\ DOMAIN exports' = DOMAIN exports
  /\ \A other \in DOMAIN exports : other # job => exports'[other] = exports[other]
  /\ exports[job].at = from /\ exports'[job].at \in to
  /\ exports'[job] \in Export
  /\ exports'[job].from = exports[job].from /\ exports'[job].to = exports[job].to

Gives(job, result) == exports'[job].result = result

SameSegments(job) == exports'[job].segments = exports[job].segments

LEMMA BeginMoves ==
  ASSUME Typed, NEW job, Begin(job)
  PROVE  /\ Moves(job, "begin", {"copy", "retire"}) /\ SameSegments(job)
         /\ \/ exports'[job].at = "copy" /\ outputs' = outputs \cup {job}
            \/ /\ exports'[job].at = "retire" /\ UNCHANGED outputs
               /\ exports'[job].result \in {"failed", "canceled"}
<1>1. job \in DOMAIN exports /\ exports[job].at = "begin" /\ exports[job] \in Export
  BY ExportsAre DEF Begin, At
<1> DEFINE ends == IsEmptyClip(job) \/ IsCanceled(job)
           at == IF ends THEN "retire" ELSE "copy"
           result == IF IsEmptyClip(job) THEN "failed"
                     ELSE IF IsCanceled(job) THEN "canceled" ELSE None
<1>2. exports' = [exports EXCEPT ![job].at = at, ![job].result = result]
  BY DEF Begin
<1>3. /\ at \in {"copy", "retire"} /\ result \in Terminal \cup {None}
      /\ outputs' = IF ends THEN outputs ELSE outputs \cup {job}
      /\ ends => at = "retire" /\ result \in {"failed", "canceled"}
      /\ ~ends => at = "copy"
  BY DEF Begin, Terminal
<1> HIDE DEF at, result, ends
<1>4. /\ DOMAIN exports' = DOMAIN exports
      /\ \A other \in DOMAIN exports : other # job => exports'[other] = exports[other]
      /\ exports'[job].at = at /\ exports'[job].result = result
      /\ exports'[job].from = exports[job].from /\ exports'[job].to = exports[job].to
      /\ exports'[job].segments = exports[job].segments
      /\ exports'[job] \in Export
  BY <1>1, <1>2, <1>3 DEF Export
<1>5. Moves(job, "begin", {"copy", "retire"}) /\ SameSegments(job)
  BY <1>1, <1>3, <1>4 DEF Moves, SameSegments
<1> QED
  BY <1>3, <1>4, <1>5

LEMMA CopyMoves ==
  ASSUME Typed, NEW job, NEW result \in Terminal, Copy(job, result)
  PROVE  Moves(job, "copy", {"retire"}) /\ SameSegments(job) /\ Gives(job, result)
<1>1. job \in DOMAIN exports /\ exports[job].at = "copy" /\ exports[job] \in Export
  BY ExportsAre DEF Copy, At
<1>2. exports' = [exports EXCEPT ![job].at = "retire", ![job].result = result]
  BY DEF Copy
<1>3. /\ DOMAIN exports' = DOMAIN exports
      /\ \A other \in DOMAIN exports : other # job => exports'[other] = exports[other]
      /\ exports'[job].at = "retire" /\ exports'[job].result = result
      /\ exports'[job].from = exports[job].from /\ exports'[job].to = exports[job].to
      /\ exports'[job].segments = exports[job].segments
      /\ exports'[job] \in Export
  BY <1>1, <1>2 DEF Export
<1> QED
  BY <1>1, <1>3 DEF Moves, SameSegments, Gives

LEMMA RetireMoves ==
  ASSUME Typed, Counted, NEW job, Retire(job)
  PROVE  /\ Moves(job, "retire", {"release"}) /\ SameSegments(job)
         /\ Gives(job, exports[job].result)
<1>1. job \in DOMAIN exports /\ exports[job].at = "retire" /\ exports[job] \in Export
  BY ExportsAre DEF Retire, At
<1>2. exports' = [exports EXCEPT ![job].at = "release", ![job].remaining = active - 1]
  BY DEF Retire
<1>3. active - 1 \in Nat
  BY <1>1, ActiveIs DEF Running, Busy
<1>4. /\ DOMAIN exports' = DOMAIN exports
      /\ \A other \in DOMAIN exports : other # job => exports'[other] = exports[other]
      /\ exports'[job].at = "release" /\ exports'[job].result = exports[job].result
      /\ exports'[job].from = exports[job].from /\ exports'[job].to = exports[job].to
      /\ exports'[job].segments = exports[job].segments
      /\ exports'[job] \in Export
  BY <1>1, <1>2, <1>3 DEF Export
<1> QED
  BY <1>1, <1>4 DEF Moves, SameSegments, Gives

LEMMA ReleaseMoves ==
  ASSUME Typed, NEW job, Release(job)
  PROVE  /\ Moves(job, "release", {"settle"}) /\ Gives(job, exports[job].result)
         /\ exports'[job].segments = {}
<1>1. job \in DOMAIN exports /\ exports[job].at = "release" /\ exports[job] \in Export
  BY ExportsAre DEF Release, At
<1>2. exports' = [exports EXCEPT ![job].at = "settle", ![job].segments = {}]
  BY DEF Release
<1>3. /\ DOMAIN exports' = DOMAIN exports
      /\ \A other \in DOMAIN exports : other # job => exports'[other] = exports[other]
      /\ exports'[job].at = "settle" /\ exports'[job].result = exports[job].result
      /\ exports'[job].from = exports[job].from /\ exports'[job].to = exports[job].to
      /\ exports'[job].segments = {}
      /\ exports'[job] \in Export
  BY <1>1, <1>2 DEF Export
<1> QED
  BY <1>1, <1>3 DEF Moves, Gives

LEMMA GoesMoves ==
  ASSUME Typed, NEW job \in DOMAIN exports, NEW at, exports[job].at = at,
         NEW place \in {"begin", "trim"}, Goes(job, place)
  PROVE  Moves(job, at, {place}) /\ SameSegments(job) /\ Gives(job, exports[job].result)
<1>1. exports[job] \in Export
  BY ExportsAre
<1>2. exports' = [exports EXCEPT ![job].at = place]
  BY DEF Goes
<1>3. /\ DOMAIN exports' = DOMAIN exports
      /\ \A other \in DOMAIN exports : other # job => exports'[other] = exports[other]
      /\ exports'[job].at = place /\ exports'[job].result = exports[job].result
      /\ exports'[job].from = exports[job].from /\ exports'[job].to = exports[job].to
      /\ exports'[job].segments = exports[job].segments
      /\ exports'[job] \in Export
  BY <1>1, <1>2 DEF Export
<1> QED
  BY <1>3 DEF Moves, SameSegments, Gives

LEMMA NextJobsTyped ==
  ASSUME Sound(recorder), Typed, AskedOnce, JobsAreSomewhere, Counted, [Next]_vars
  PROVE  JobsTyped'
<1>0. JobsTyped
  BY DEF Typed
<1>1. CASE UNCHANGED <<jobs, flags, sending, exports, outputs>>
  BY <1>0, <1>1 DEF JobsTyped
<1>2. CASE Crash
  <2>1. DOMAIN jobs' = {} /\ DOMAIN flags' = {} /\ DOMAIN sending' = {} /\ DOMAIN exports' = {}
        /\ outputs' = {}
    BY <1>2 DEF Crash, Fresh
  <2> QED
    BY <2>1 DEF JobsTyped
<1>3. ASSUME NEW job \in Job, NEW want \in Requests, EnqueueExport(job, want)
      PROVE  JobsTyped'
  <2>1. want \in Request
    <3>1. CASE want \in [kind : {"latest"}, length : Latest]
      BY <3>1, RecorderWorkerConstants DEF Request, RecorderWorkerConstants
    <3>2. CASE want \in {[kind |-> "range", from |-> from, to |-> status.total] :
                           from \in {status.retained} \cap 0 .. status.total - 1}
      <4>1. status.retained \in Nat /\ status.total \in Nat
        BY DEF Typed, WorkerTyped
      <4> QED
        BY <3>2, <4>1 DEF Request
    <3> QED
      BY <3>1, <3>2 DEF Requests
  <2>2. /\ DOMAIN jobs' = DOMAIN jobs \cup {job} /\ jobs'[job] = "pending"
        /\ \A other \in DOMAIN jobs : other # job => jobs'[other] = jobs[other]
    BY <1>3 DEF EnqueueExport, With
  <2>3. /\ DOMAIN flags' = DOMAIN flags \cup {job} /\ flags'[job] = FALSE
        /\ \A other \in DOMAIN flags : other # job => flags'[other] = flags[other]
    BY <1>3 DEF EnqueueExport, With
  <2>4. /\ DOMAIN sending' = DOMAIN sending \cup {job} /\ sending'[job] = want
        /\ \A other \in DOMAIN sending : other # job => sending'[other] = sending[other]
    BY <1>3 DEF EnqueueExport, With
  <2>5. UNCHANGED <<exports, outputs>>
    BY <1>3 DEF EnqueueExport
  <2>6. \A other \in DOMAIN flags' : flags'[other] \in BOOLEAN
    BY <1>0, <2>3, Zenon DEF JobsTyped
  <2>7. \A other \in DOMAIN jobs' : jobs'[other] \in JobState
    BY <1>0, <2>2 DEF JobsTyped, JobState
  <2>8. \A other \in DOMAIN sending' : sending'[other] \in Request
    BY <1>0, <2>1, <2>4 DEF JobsTyped
  <2> QED
    BY <1>0, <2>2, <2>3, <2>4, <2>5, <2>6, <2>7, <2>8 DEF JobsTyped
<1>4. ASSUME NEW job \in Job, SendExport(job)
      PROVE  JobsTyped'
  <2>1. /\ DOMAIN sending' \subseteq DOMAIN sending
        /\ \A other \in DOMAIN sending' : sending'[other] = sending[other]
    BY <1>4 DEF SendExport, Without
  <2> QED
    BY <1>0, <1>4, <2>1 DEF JobsTyped, SendExport
<1>5. ASSUME NEW job \in Job, CancelExport(job)
      PROVE  JobsTyped'
  <2>1. job \in DOMAIN flags /\ job \in DOMAIN jobs
    BY <1>0, <1>5 DEF CancelExport, JobsTyped
  <2>2. /\ DOMAIN jobs' = DOMAIN jobs
        /\ \A other \in DOMAIN jobs : jobs'[other] = jobs[other] \/ jobs'[other] = "canceled"
    BY <1>5, <2>1 DEF CancelExport
  <2>3. /\ DOMAIN flags' = DOMAIN flags
        /\ \A other \in DOMAIN flags : other # job => flags'[other] = flags[other]
        /\ flags'[job] = TRUE
    BY <1>5, <2>1 DEF CancelExport
  <2>4. \A other \in DOMAIN flags' : flags'[other] \in BOOLEAN
    BY <1>0, <2>3, Zenon DEF JobsTyped
  <2>5. \A other \in DOMAIN jobs' : jobs'[other] \in JobState
    BY <1>0, <2>2 DEF JobsTyped, JobState
  <2>6. UNCHANGED <<sending, exports, outputs>>
    BY <1>5 DEF CancelExport, callerVars
  <2> QED
    BY <1>0, <2>2, <2>3, <2>4, <2>5, <2>6 DEF JobsTyped
<1>6. CASE Save
  <2> DEFINE job == Next1.job
             r == Flushed(recorder)
  <2>1. UNCHANGED <<jobs, flags, sending, outputs>>
    BY <1>6 DEF Save, callerVars
  <2>2. CASE UNCHANGED exports
    BY <1>0, <2>1, <2>2 DEF JobsTyped
  <2>3. CASE exports' = With(exports, job, NewExport(Next1.want, r))
    <3>1. job \in DOMAIN jobs /\ Next1.want \in Request
      BY <1>6, SaveIs DEF Save
    <3>2. NewExport(Next1.want, r) \in Export
      BY <3>1, FlushedSound, NewExportIs, SegmentedRecorderConstants
    <3> HIDE DEF job, r
    <3>3. /\ DOMAIN exports' = DOMAIN exports \cup {job}
          /\ exports'[job] \in Export
          /\ \A other \in DOMAIN exports : other # job => exports'[other] = exports[other]
      BY <2>3, <3>2 DEF With
    <3> QED
      BY <1>0, <2>1, <3>1, <3>3 DEF JobsTyped
  <2> QED
    BY <1>6, <2>2, <2>3 DEF Save
<1>7. CASE Spawn
  <2> DEFINE job == worker.job
  <2>1. job \in DOMAIN jobs /\ UNCHANGED <<flags, sending, outputs>>
    BY <1>7 DEF Spawn, AskedOnce, callerVars
  <2>2. /\ DOMAIN jobs' = DOMAIN jobs
        /\ \A other \in DOMAIN jobs : jobs'[other] \in {jobs[other], "running", "failed"}
    BY <1>7, <2>1 DEF Spawn
  <2>3. \A other \in DOMAIN jobs' : jobs'[other] \in JobState
    BY <1>0, <2>2 DEF JobsTyped, JobState
  <2>4. CASE UNCHANGED exports
    BY <1>0, <2>1, <2>2, <2>3, <2>4 DEF JobsTyped
  <2>5. CASE job \in DOMAIN exports
    <3>1. Goes(job, "begin")
      BY <1>7, <2>5 DEF Spawn, Goes
    <3>2. Moves(job, exports[job].at, {"begin"})
      BY <2>5, <3>1, GoesMoves
    <3> QED
      BY <1>0, <2>1, <2>2, <2>3, <3>2 DEF JobsTyped, Moves
  <2> QED
    BY <1>7, <2>4, <2>5 DEF Spawn
<1>8. ASSUME NEW job, NEW at, NEW to, Moves(job, at, to), DOMAIN jobs' = DOMAIN jobs,
             \A other \in DOMAIN jobs : jobs'[other] = jobs[other] \/ jobs'[other] \in Terminal,
             DOMAIN flags' \subseteq DOMAIN flags,
             \A other \in DOMAIN flags' : flags'[other] = flags[other],
             UNCHANGED sending, outputs' \subseteq outputs \cup {job}
      PROVE  JobsTyped'
  <2>1. \A other \in DOMAIN jobs' : jobs'[other] \in JobState
    BY <1>0, <1>8 DEF JobsTyped, JobState, Terminal
  <2>2. \A other \in DOMAIN flags' : flags'[other] \in BOOLEAN
    BY <1>0, <1>8, Zenon DEF JobsTyped
  <2>3. \A other \in DOMAIN exports' : exports'[other] \in Export
    BY <1>0, <1>8 DEF JobsTyped, Moves
  <2>4. DOMAIN exports' = DOMAIN exports /\ job \in DOMAIN jobs
    BY <1>0, <1>8 DEF JobsTyped, Moves
  <2> QED
    BY <1>0, <1>8, <2>1, <2>2, <2>3, <2>4 DEF JobsTyped
<1>9. ASSUME NEW job \in Job, Begin(job)
      PROVE  JobsTyped'
  BY <1>8, <1>9, BeginMoves DEF Begin, callerVars
<1>10. ASSUME NEW job \in Job, NEW result \in Terminal, Copy(job, result)
       PROVE  JobsTyped'
  BY <1>8, <1>10, CopyMoves DEF Copy, callerVars
<1>11. ASSUME NEW job \in Job, Retire(job)
       PROVE  JobsTyped'
  BY <1>8, <1>11, RetireMoves DEF Retire, callerVars
<1>12. ASSUME NEW job \in Job, Release(job)
       PROVE  JobsTyped'
  BY <1>8, <1>12, ReleaseMoves DEF Release, Without, callerVars
<1>13. ASSUME NEW job \in Job, Settle(job)
       PROVE  JobsTyped'
  <2>1. /\ job \in DOMAIN exports /\ job \in DOMAIN jobs /\ exports[job].at = "settle"
        /\ Goes(job, "trim")
    BY <1>13, ExportsAre DEF Settle, At
  <2>2. Moves(job, "settle", {"trim"})
    BY <2>1, GoesMoves
  <2>3. exports[job].result \in Terminal
    BY <2>1 DEF JobsAreSomewhere, JobIsSomewhere, Over
  <2>4. /\ DOMAIN jobs' = DOMAIN jobs
        /\ \A other \in DOMAIN jobs : jobs'[other] = jobs[other] \/ jobs'[other] \in Terminal
        /\ outputs' \subseteq outputs /\ UNCHANGED <<flags, sending>>
    BY <1>13, <2>1, <2>3 DEF Settle, OutputAfter, callerVars
  <2> QED
    BY <1>8, <2>2, <2>4
<1>14. ASSUME NEW job \in Job, End(job)
       PROVE  JobsTyped'
  <2>1. /\ DOMAIN exports' \subseteq DOMAIN exports
        /\ \A other \in DOMAIN exports' : exports'[other] = exports[other]
        /\ UNCHANGED <<jobs, flags, sending, outputs>>
    BY <1>14 DEF End, Without, callerVars
  <2> QED
    BY <1>0, <2>1 DEF JobsTyped
<1>15. CASE \/ \E count \in Chunk : PushSamples(count)
            \/ Stop \/ Push \/ PushRest \/ PushTrim \/ Trim \/ Publish \/ Leave
            \/ UNCHANGED vars
  BY <1>1, <1>15
  DEF PushSamples, Stop, Push, PushRest, Writes, PushTrim, Trim, Publish, Leave, vars,
      callerVars
<1> QED
  BY <1>2, <1>3, <1>4, <1>5, <1>6, <1>7, <1>9, <1>10, <1>11, <1>12, <1>13, <1>14, <1>15
  DEF Next, WorkerStep, ExportStep

-----------------------------------------------------------------------------
(* Where the jobs are *)

LEMMA SavesSent ==
  ASSUME Typed, SavesDiffer, NEW c, Sends(c)
  PROVE  /\ \A job : HasSave(job)' <=> HasSave(job) \/ (c.kind = "save" /\ c.job = job)
         /\ HasTrim' <=> HasTrim \/ c.kind = "trim"
         /\ (c.kind = "save" => ~HasSave(c.job)) => SavesDiffer'
<1>1. /\ queue' \in Seq(Command) /\ Len(queue) \in Nat /\ Len(queue') = Len(queue) + 1
      /\ queue'[Len(queue')] = c /\ Len(queue') \in 1..Len(queue')
      /\ \A k \in 1..Len(queue) : queue'[k] = queue[k] /\ k \in 1..Len(queue')
      /\ \A k \in 1..Len(queue') : k = Len(queue') \/ k \in 1..Len(queue)
  BY QueueAppend DEF Sends, Typed, QueueTyped
<1>2. ASSUME NEW job
      PROVE  HasSave(job)' <=> HasSave(job) \/ (c.kind = "save" /\ c.job = job)
  BY <1>1 DEF HasSave
<1>3. HasTrim' <=> HasTrim \/ c.kind = "trim"
  BY <1>1 DEF HasTrim
<1>4. ASSUME c.kind = "save" => ~HasSave(c.job),
             NEW k \in 1..Len(queue'), NEW l \in 1..Len(queue'),
             queue'[k].kind = "save", queue'[l].kind = "save", queue'[k].job = queue'[l].job
      PROVE  k = l
  <2>1. CASE k \in 1..Len(queue) /\ l \in 1..Len(queue)
    BY <1>1, <1>4, <2>1 DEF SavesDiffer
  <2>2. CASE k = Len(queue') /\ l # k
    BY <1>1, <1>4, <2>2 DEF HasSave
  <2>3. CASE l = Len(queue') /\ l # k
    BY <1>1, <1>4, <2>3 DEF HasSave
  <2> QED
    BY <1>1, <2>1, <2>2, <2>3
<1>5. (c.kind = "save" => ~HasSave(c.job)) => SavesDiffer'
  BY <1>4 DEF SavesDiffer
<1> QED
  BY <1>2, <1>3, <1>5

LEMMA SavesReceived ==
  ASSUME Typed, SavesDiffer, NEW kind, Receives(kind)
  PROVE  /\ \A job : HasSave(job)' <=> HasSave(job) /\ ~(kind = "save" /\ Next1.job = job)
         /\ HasTrim' => HasTrim
         /\ kind # "trim" => (HasTrim' <=> HasTrim)
         /\ SavesDiffer'
<1>1. /\ Len(queue) \in Nat /\ Len(queue') = Len(queue) - 1
      /\ 1 \in 1..Len(queue) /\ Next1 = queue[1] /\ Next1.kind = kind
      /\ \A k \in 1..Len(queue') : queue'[k] = queue[k + 1] /\ k + 1 \in 1..Len(queue)
      /\ \A k \in 1..Len(queue) : k # 1 => k - 1 \in 1..Len(queue')
  BY QueueTail DEF Receives, Typed, QueueTyped
<1>2. \A k \in 1..Len(queue) : k # 1 => queue'[k - 1] = queue[k]
  <2> SUFFICES ASSUME NEW k \in 1..Len(queue), k # 1
               PROVE  queue'[k - 1] = queue[k]
    OBVIOUS
  <2>1. queue'[k - 1] = queue[k - 1 + 1] /\ k - 1 + 1 = k
    BY <1>1
  <2> QED
    BY <2>1
<1>3. ASSUME NEW job
      PROVE  HasSave(job)' <=> HasSave(job) /\ ~(kind = "save" /\ Next1.job = job)
  <2>1. ASSUME HasSave(job)'
        PROVE  HasSave(job) /\ ~(kind = "save" /\ Next1.job = job)
    <3>1. PICK k \in 1..Len(queue') : queue'[k].kind = "save" /\ queue'[k].job = job
      BY <2>1 DEF HasSave
    <3>2. /\ k + 1 \in 1..Len(queue) /\ k + 1 # 1
          /\ queue[k + 1].kind = "save" /\ queue[k + 1].job = job
      BY <1>1, <3>1
    <3>3. ~(kind = "save" /\ Next1.job = job)
      BY <1>1, <3>2 DEF SavesDiffer
    <3> QED
      BY <3>2, <3>3 DEF HasSave
  <2>2. ASSUME HasSave(job), ~(kind = "save" /\ Next1.job = job)
        PROVE  HasSave(job)'
    <3>1. PICK k \in 1..Len(queue) : queue[k].kind = "save" /\ queue[k].job = job
      BY <2>2 DEF HasSave
    <3>2. k # 1
      BY <1>1, <2>2, <3>1
    <3> QED
      BY <1>1, <1>2, <3>1, <3>2 DEF HasSave
  <2> QED
    BY <2>1, <2>2
<1>4. HasTrim' => HasTrim
  BY <1>1 DEF HasTrim
<1>5. ASSUME kind # "trim", HasTrim
      PROVE  HasTrim'
  <2>1. PICK k \in 1..Len(queue) : queue[k].kind = "trim"
    BY <1>5 DEF HasTrim
  <2>2. k # 1
    BY <1>1, <1>5, <2>1
  <2> QED
    BY <1>1, <1>2, <2>1, <2>2 DEF HasTrim
<1>6. SavesDiffer'
  <2>1. ASSUME NEW k \in 1..Len(queue'), NEW l \in 1..Len(queue'),
               queue'[k].kind = "save", queue'[l].kind = "save", queue'[k].job = queue'[l].job
        PROVE  k = l
    <3>1. k + 1 = l + 1
      BY <1>1, <2>1 DEF SavesDiffer
    <3> QED
      BY <1>1, <3>1
  <2> QED
    BY <2>1 DEF SavesDiffer
<1> QED
  BY <1>3, <1>4, <1>5, <1>6

\* A step of the loop that sees to no save, and what others do to the channel meanwhile.
SameSaves ==
  /\ SavesDiffer' /\ \A job : HasSave(job)' <=> HasSave(job)

LEMMA SameQueue ==
  ASSUME SavesDiffer, UNCHANGED queue
  PROVE  SameSaves /\ (HasTrim' <=> HasTrim)
BY DEF SavesDiffer, SameSaves, HasSave, HasTrim

LEMMA SentOther ==
  ASSUME Typed, SavesDiffer, NEW c, Sends(c), c.kind # "save"
  PROVE  SameSaves
BY SavesSent DEF SameSaves

LEMMA ReceivedOther ==
  ASSUME Typed, SavesDiffer, NEW kind, Receives(kind), kind # "save"
  PROVE  SameSaves
BY SavesReceived DEF SameSaves

\* Which steps leave the saves alone.
LEMMA SavesStay ==
  ASSUME Typed, SavesDiffer
  PROVE  /\ \A count \in Chunk : PushSamples(count) => SameSaves
         /\ Stop => SameSaves
         /\ \A job : End(job) => SameSaves
         /\ Push \/ PushRest \/ PushTrim \/ Trim \/ Publish \/ Spawn \/ Leave => SameSaves
<1>1. ASSUME NEW count \in Chunk, PushSamples(count)
      PROVE  SameSaves
  <2> DEFINE c == [kind |-> "push", count |-> count]
  <2>1. count \in Nat /\ count > 0
    BY RecorderWorkerConstants DEF RecorderWorkerConstants
  <2>2. c \in Command /\ c.count > 0 /\ c.kind # "save"
    BY <2>1 DEF Command
  <2>3. Sends(c)
    BY <1>1, <2>2 DEF PushSamples, Sends
  <2> QED
    BY <2>2, <2>3, SentOther
<1>2. ASSUME Stop
      PROVE  SameSaves
  <2> DEFINE c == [kind |-> "stop"]
  <2>1. c \in Command /\ c.kind = "stop"
    BY DEF Command
  <2>2. Sends(c)
    BY <1>2, <2>1 DEF Stop, Sends
  <2> QED
    BY <2>1, <2>2, SentOther
<1>3. ASSUME NEW job, End(job)
      PROVE  SameSaves
  <2> DEFINE c == [kind |-> "trim"]
  <2>1. c \in Command /\ c.kind = "trim"
    BY DEF Command
  <2>2. UNCHANGED queue \/ Sends(c)
    BY <1>3, <2>1 DEF End, AskTrim, Sends
  <2> QED
    BY <2>1, <2>2, SentOther, SameQueue
<1>4. ASSUME Push \/ Trim \/ Leave
      PROVE  SameSaves
  BY <1>4, ReceivedOther DEF Push, Trim, Leave
<1>5. ASSUME PushRest \/ PushTrim \/ Publish \/ Spawn
      PROVE  SameSaves
  BY <1>5, SameQueue DEF PushRest, PushTrim, Publish, Spawn
<1> QED
  BY <1>1, <1>2, <1>3, <1>4, <1>5

\* What the loop has at hand after its steps.
LEMMA WorkerMoves ==
  ASSUME Sound(recorder), Typed, Counted
  PROVE  /\ Push \/ PushRest => worker'.at = "write" /\ worker'.job = None
         /\ PushTrim \/ Trim =>
              worker'.at = "publish" /\ worker'.job = None /\ worker'.seen = active
         /\ Save => worker'.at = "publish" /\ worker'.job = Next1.job /\ worker'.seen = active
         /\ Publish =>
              /\ worker'.job = worker.job
              /\ worker'.at = IF worker.job = None THEN "idle" ELSE "spawn"
         /\ Spawn => worker'.at = "idle" /\ worker'.job = None
         /\ Leave => worker'.at = "gone" /\ worker'.job = None
<1>1. ASSUME Push \/ PushRest
      PROVE  worker'.at = "write" /\ worker'.job = None
  BY <1>1 DEF Push, PushRest, Writes, IdleWorker
<1>2. ASSUME NEW job, WillPublish(job)
      PROVE  worker'.at = "publish" /\ worker'.job = job /\ worker'.seen = active
  BY <1>2 DEF WillPublish, IdleWorker
<1>3. ASSUME Publish
      PROVE  /\ worker'.job = worker.job
             /\ worker'.at = IF worker.job = None THEN "idle" ELSE "spawn"
  BY <1>3 DEF Publish, IdleWorker, Typed, WorkerTyped
<1>4. ASSUME Spawn
      PROVE  worker'.at = "idle" /\ worker'.job = None
  BY <1>4 DEF Spawn, IdleWorker
<1>5. ASSUME Leave
      PROVE  worker'.at = "gone" /\ worker'.job = None
  BY <1>5 DEF Leave, IdleWorker
<1> QED
  BY <1>1, <1>2, <1>3, <1>4, <1>5 DEF PushTrim, Trim, Save

LEMMA NextAskedOnce ==
  ASSUME Sound(recorder), Typed, AskedOnce, Counted, [Next]_vars
  PROVE  AskedOnce'
<1>0. SavesDiffer /\ DOMAIN jobs \subseteq Job /\ None \notin Job
  BY RecorderWorkerConstants DEF AskedOnce, Typed, JobsTyped, RecorderWorkerConstants
<1>1. ASSUME SameSaves, UNCHANGED sending, DOMAIN jobs \subseteq DOMAIN jobs',
             worker'.job \in {worker.job, None},
             worker'.job # None => worker'.at \in {"publish", "spawn"},
             worker'.at = "spawn" => worker'.job # None
      PROVE  AskedOnce'
  <2>1. \A job \in DOMAIN sending' : ~HasSave(job)' /\ worker'.job # job
    BY <1>0, <1>1 DEF AskedOnce, SameSaves, Typed, JobsTyped
  <2>2. \A job \in Job : HasSave(job)' => worker'.job # job /\ job \in DOMAIN jobs'
    BY <1>0, <1>1 DEF AskedOnce, SameSaves
  <2>3. worker'.job # None => worker'.job \in DOMAIN jobs'
    BY <1>1 DEF AskedOnce
  <2> QED
    BY <1>1, <2>1, <2>2, <2>3 DEF AskedOnce, SameSaves
<1>2. ASSUME SameSaves, UNCHANGED <<sending, worker>>, DOMAIN jobs \subseteq DOMAIN jobs'
      PROVE  AskedOnce'
  BY <1>1, <1>2 DEF AskedOnce
<1>3. CASE \E count \in Chunk : PushSamples(count)
  <2>1. SameSaves
    BY <1>0, <1>3, SavesStay
  <2> QED
    BY <1>2, <1>3, <2>1 DEF PushSamples, callerVars
<1>4. CASE Stop
  <2>1. SameSaves
    BY <1>0, <1>4, SavesStay
  <2> QED
    BY <1>2, <1>4, <2>1 DEF Stop
<1>5. ASSUME NEW job \in Job, NEW want \in Requests, EnqueueExport(job, want)
      PROVE  AskedOnce'
  <2>1. SameSaves /\ UNCHANGED worker
    BY <1>0, <1>5, SameQueue DEF EnqueueExport
  <2>2. DOMAIN sending' = DOMAIN sending \cup {job} /\ DOMAIN jobs' = DOMAIN jobs \cup {job}
    BY <1>5 DEF EnqueueExport, With
  <2>3. ~HasSave(job) /\ worker.job # job
    BY <1>0, <1>5 DEF EnqueueExport, AskedOnce
  <2>4. \A other \in DOMAIN sending' : ~HasSave(other)' /\ worker'.job # other
    BY <2>1, <2>2, <2>3 DEF AskedOnce, SameSaves
  <2>5. \A other \in Job : HasSave(other)' => worker'.job # other /\ other \in DOMAIN jobs'
    BY <2>1, <2>2 DEF AskedOnce, SameSaves
  <2> QED
    BY <2>1, <2>2, <2>4, <2>5 DEF AskedOnce, SameSaves
<1>6. ASSUME NEW job \in Job, SendExport(job)
      PROVE  AskedOnce'
  <2> DEFINE c == [kind |-> "save", job |-> job, want |-> sending[job]]
  <2>1. job \in DOMAIN sending /\ job \in DOMAIN jobs /\ sending[job] \in Request
    BY <1>6 DEF SendExport, Typed, JobsTyped
  <2>2. c \in Command /\ c.kind = "save" /\ c.job = job
    BY <2>1 DEF Command
  <2>3. Sends(c)
    BY <1>6, <2>2 DEF SendExport, Sends
  <2>4. ~HasSave(job) /\ worker.job # job
    BY <2>1 DEF AskedOnce
  <2>5. SavesDiffer' /\ \A other : HasSave(other)' <=> HasSave(other) \/ job = other
    BY <1>0, <2>2, <2>3, <2>4, SavesSent
  <2>6. DOMAIN sending' = DOMAIN sending \ {job} /\ UNCHANGED <<worker, jobs>>
    BY <1>6 DEF SendExport, Without
  <2>7. \A other \in DOMAIN sending' : ~HasSave(other)' /\ worker'.job # other
    BY <2>5, <2>6 DEF AskedOnce
  <2>8. \A other \in Job : HasSave(other)' => worker'.job # other /\ other \in DOMAIN jobs'
    BY <2>1, <2>4, <2>5, <2>6 DEF AskedOnce
  <2> QED
    BY <2>5, <2>6, <2>7, <2>8 DEF AskedOnce
<1>7. CASE \E job \in Job :
             \/ CancelExport(job) \/ Begin(job) \/ Retire(job) \/ Release(job) \/ Settle(job)
             \/ \E result \in Terminal : Copy(job, result)
  <2>1. UNCHANGED <<queue, sending, worker>> /\ DOMAIN jobs' = DOMAIN jobs
    BY <1>7 DEF CancelExport, Begin, Retire, Release, Settle, Copy, callerVars
  <2> QED
    BY <1>0, <1>2, <2>1, SameQueue
<1>8. CASE \E job \in Job : End(job)
  <2>1. SameSaves
    BY <1>0, <1>8, SavesStay
  <2> QED
    BY <1>2, <1>8, <2>1 DEF End, callerVars
<1>9. CASE Save
  <2> DEFINE job == Next1.job
  <2>1. Receives("save") /\ UNCHANGED <<sending, jobs>> /\ worker.at = "idle"
    BY <1>9 DEF Save, Receives, callerVars
  <2>2. worker'.at = "publish" /\ worker'.job = job
    BY <1>9, WorkerMoves
  <2>3. job \in DOMAIN jobs /\ job \in Job /\ HasSave(job)
    BY <2>1, SaveIs
  <2>4. SavesDiffer' /\ \A other : HasSave(other)' <=> HasSave(other) /\ job # other
    BY <1>0, <2>1, SavesReceived
  <2> HIDE DEF job
  <2>5. \A other \in DOMAIN sending' : ~HasSave(other)' /\ worker'.job # other
    BY <2>1, <2>2, <2>3, <2>4 DEF AskedOnce
  <2>6. \A other \in Job : HasSave(other)' => worker'.job # other /\ other \in DOMAIN jobs'
    BY <2>1, <2>2, <2>4 DEF AskedOnce
  <2> QED
    BY <2>1, <2>2, <2>3, <2>4, <2>5, <2>6 DEF AskedOnce
<1>10. CASE Push \/ PushRest \/ PushTrim \/ Trim \/ Publish \/ Spawn \/ Leave
  <2>1. SameSaves
    BY <1>0, <1>10, SavesStay
  <2>2. UNCHANGED sending /\ DOMAIN jobs' = DOMAIN jobs
    BY <1>10 DEF Push, PushRest, Writes, PushTrim, Trim, Publish, Spawn, Leave, callerVars
  <2>3. /\ worker'.job \in {worker.job, None}
        /\ worker'.job # None => worker'.at \in {"publish", "spawn"}
        /\ worker'.at = "spawn" => worker'.job # None
    BY <1>10, WorkerMoves
  <2> QED
    BY <1>1, <2>1, <2>2, <2>3
<1>11. CASE Crash
  <2>1. queue' = << >> /\ DOMAIN sending' = {} /\ worker' = IdleWorker
    BY <1>11 DEF Crash, Fresh
  <2>2. Len(queue') = 0 /\ worker'.job = None /\ worker'.at = "idle"
    BY <2>1 DEF IdleWorker
  <2>3. SavesDiffer' /\ \A job : ~HasSave(job)'
    BY <2>2 DEF SavesDiffer, HasSave
  <2> QED
    BY <2>1, <2>2, <2>3 DEF AskedOnce
<1>12. CASE UNCHANGED vars
  BY <1>0, <1>2, <1>12, SameQueue DEF vars, callerVars
<1> QED
  BY <1>3, <1>4, <1>5, <1>6, <1>7, <1>8, <1>9, <1>10, <1>11, <1>12
  DEF Next, WorkerStep, ExportStep

\* Nothing happens to the job.
SameJob(job) ==
  /\ jobs'[job] = jobs[job]
  /\ job \in outputs' <=> job \in outputs
  /\ Waits(job)' <=> Waits(job)
  /\ worker'.job = job <=> worker.job = job
  /\ job \in DOMAIN exports' <=> job \in DOMAIN exports
  /\ job \in DOMAIN exports =>
       exports'[job].at = exports[job].at /\ exports'[job].result = exports[job].result

LEMMA SameJobStays ==
  ASSUME NEW job, JobIsSomewhere(job), SameJob(job)
  PROVE  JobIsSomewhere(job)'
BY DEF JobIsSomewhere, SameJob

LEMMA JobsAre ==
  ASSUME Typed, AskedOnce
  PROVE  /\ None \notin Job /\ DOMAIN jobs \subseteq Job /\ None \notin DOMAIN jobs
         /\ SavesDiffer
         /\ worker.at \notin {"publish", "spawn"} => worker.job = None
BY RecorderWorkerConstants DEF RecorderWorkerConstants, Typed, JobsTyped, AskedOnce

\* Who waits has not begun.
LEMMA BegunWaitsNot ==
  ASSUME NEW job \in DOMAIN exports, JobIsSomewhere(job), exports[job].at # "spawn"
  PROVE  ~Waits(job)
BY DEF JobIsSomewhere

\* A step of one export thread leaves the other jobs alone.
LEMMA OthersStay ==
  ASSUME NEW job, NEW at, NEW to, Moves(job, at, to),
         UNCHANGED <<queue, worker, sending>>, NEW other, other # job,
         jobs'[other] = jobs[other], other \in outputs' <=> other \in outputs,
         JobIsSomewhere(other)
  PROVE  JobIsSomewhere(other)'
<1>1. Waits(other)' <=> Waits(other)
  BY DEF Waits, HasSave
<1>2. SameJob(other)
  BY <1>1 DEF SameJob, Moves
<1> QED
  BY <1>2, SameJobStays

LEMMA ExportJobs ==
  ASSUME Typed, AskedOnce, JobsAreSomewhere, Counted, NEW job \in Job, ExportStep(job)
  PROVE  JobsAreSomewhere'
<1>0. \A other \in DOMAIN jobs : JobIsSomewhere(other)
  BY DEF JobsAreSomewhere
<1>1. ASSUME Begin(job)
      PROVE  JobsAreSomewhere'
  <2>1. /\ Moves(job, "begin", {"copy", "retire"})
        /\ \/ exports'[job].at = "copy" /\ outputs' = outputs \cup {job}
           \/ /\ exports'[job].at = "retire" /\ UNCHANGED outputs
              /\ exports'[job].result \in {"failed", "canceled"}
    BY <1>1, BeginMoves
  <2>2. UNCHANGED <<queue, worker, sending, jobs>>
    BY <1>1 DEF Begin, callerVars
  <2>3. job \in DOMAIN exports /\ exports[job].at = "begin" /\ job \in DOMAIN exports'
    BY <2>1 DEF Moves
  <2>4. job \in DOMAIN jobs /\ JobIsSomewhere(job) /\ ~Waits(job)
    BY <1>0, <2>3, ExportsAre, BegunWaitsNot
  <2>5. ~Waits(job)' /\ worker'.job # job
    BY <2>2, <2>4 DEF Waits, HasSave
  <2>6. jobs'[job] = "running" /\ job \notin outputs
    BY <2>2, <2>3, <2>4 DEF JobIsSomewhere, Busy
  <2>7. JobIsSomewhere(job)'
    <3>1. CASE exports'[job].at = "copy" /\ outputs' = outputs \cup {job}
      BY <2>3, <2>5, <2>6, <3>1 DEF JobIsSomewhere, Busy, Over, Terminal
    <3>2. CASE exports'[job].at = "retire" /\ UNCHANGED outputs
               /\ exports'[job].result \in {"failed", "canceled"}
      BY <2>3, <2>5, <2>6, <3>2 DEF JobIsSomewhere, Busy, Over, Terminal
    <3> QED
      BY <2>1, <3>1, <3>2
  <2>8. \A other \in DOMAIN jobs : other # job => JobIsSomewhere(other)'
    BY <1>0, <2>1, <2>2, OthersStay
  <2> QED
    BY <2>2, <2>7, <2>8 DEF JobsAreSomewhere
<1>2. ASSUME NEW result \in Terminal, Copy(job, result)
      PROVE  JobsAreSomewhere'
  <2>1. Moves(job, "copy", {"retire"}) /\ exports'[job].result = result
    BY <1>2, CopyMoves DEF Gives
  <2>2. UNCHANGED <<queue, worker, sending, jobs, outputs>>
    BY <1>2 DEF Copy, callerVars
  <2>3. /\ job \in DOMAIN exports /\ exports[job].at = "copy" /\ job \in DOMAIN exports'
        /\ exports'[job].at = "retire"
    BY <2>1 DEF Moves
  <2>4. job \in DOMAIN jobs /\ JobIsSomewhere(job) /\ ~Waits(job)
    BY <1>0, <2>3, ExportsAre, BegunWaitsNot
  <2>5. ~Waits(job)' /\ worker'.job # job
    BY <2>2, <2>4 DEF Waits, HasSave
  <2>6. jobs'[job] = "running" /\ job \in outputs'
    BY <2>2, <2>3, <2>4 DEF JobIsSomewhere, Busy
  <2>7. JobIsSomewhere(job)'
    BY <1>2, <2>1, <2>3, <2>5, <2>6 DEF JobIsSomewhere, Busy, Over
  <2>8. \A other \in DOMAIN jobs : other # job => JobIsSomewhere(other)'
    BY <1>0, <2>1, <2>2, OthersStay
  <2> QED
    BY <2>2, <2>7, <2>8 DEF JobsAreSomewhere
<1>3. ASSUME Retire(job) \/ Release(job)
      PROVE  JobsAreSomewhere'
  <2>1. PICK at \in {"retire", "release"}, to \in {"release", "settle"} :
          Moves(job, at, {to}) /\ exports'[job].result = exports[job].result
    BY <1>3, RetireMoves, ReleaseMoves DEF Gives
  <2>2. UNCHANGED <<queue, worker, sending, jobs, outputs>>
    BY <1>3 DEF Retire, Release, callerVars
  <2>3. /\ job \in DOMAIN exports /\ exports[job].at = at /\ job \in DOMAIN exports'
        /\ exports'[job].at = to
    BY <2>1 DEF Moves
  <2>4. job \in DOMAIN jobs /\ JobIsSomewhere(job) /\ ~Waits(job)
    BY <1>0, <2>3, ExportsAre, BegunWaitsNot
  <2>5. ~Waits(job)' /\ worker'.job # job
    BY <2>2, <2>4 DEF Waits, HasSave
  <2>6. /\ jobs'[job] = "running" /\ exports'[job].result \in Terminal
        /\ exports'[job].result = "finished" => job \in outputs'
    BY <2>1, <2>2, <2>3, <2>4 DEF JobIsSomewhere, Busy, Over
  <2>7. JobIsSomewhere(job)'
    BY <2>3, <2>5, <2>6 DEF JobIsSomewhere, Busy, Over
  <2>8. \A other \in DOMAIN jobs : other # job => JobIsSomewhere(other)'
    BY <1>0, <2>1, <2>2, OthersStay
  <2> QED
    BY <2>2, <2>7, <2>8 DEF JobsAreSomewhere
<1>4. ASSUME Settle(job)
      PROVE  JobsAreSomewhere'
  <2>0. job \in DOMAIN exports /\ exports[job].at = "settle" /\ Goes(job, "trim")
    BY <1>4 DEF Settle, At
  <2>1. Moves(job, "settle", {"trim"}) /\ exports'[job].result = exports[job].result
    BY <2>0, GoesMoves DEF Gives
  <2>2. /\ UNCHANGED <<queue, worker, sending>>
        /\ jobs' = [jobs EXCEPT ![job] = exports[job].result]
        /\ outputs' = OutputAfter(job, exports[job].result)
    BY <1>4 DEF Settle, callerVars
  <2>3. job \in DOMAIN exports' /\ exports'[job].at = "trim"
    BY <2>1 DEF Moves
  <2>4. job \in DOMAIN jobs /\ JobIsSomewhere(job) /\ ~Waits(job)
    BY <1>0, <2>0, ExportsAre, BegunWaitsNot
  <2>5. ~Waits(job)' /\ worker'.job # job
    BY <2>2, <2>4 DEF Waits, HasSave
  <2>6. /\ exports[job].result \in Terminal
        /\ exports[job].result = "finished" => job \in outputs
    BY <2>0, <2>4 DEF JobIsSomewhere, Over
  <2>7. /\ DOMAIN jobs' = DOMAIN jobs /\ jobs'[job] = exports[job].result
        /\ \A other \in DOMAIN jobs : other # job => jobs'[other] = jobs[other]
        /\ \A other : other # job => (other \in outputs' <=> other \in outputs)
        /\ jobs'[job] = "finished" => job \in outputs'
        /\ jobs'[job] # "finished" => job \notin outputs'
    BY <2>2, <2>4, <2>6 DEF OutputAfter
  <2>8. JobIsSomewhere(job)'
    BY <2>1, <2>3, <2>5, <2>6, <2>7 DEF JobIsSomewhere, Busy, Over
  <2>9. \A other \in DOMAIN jobs : other # job => JobIsSomewhere(other)'
    BY <1>0, <2>1, <2>2, <2>7, OthersStay
  <2> QED
    BY <2>7, <2>8, <2>9 DEF JobsAreSomewhere
<1>5. ASSUME End(job)
      PROVE  JobsAreSomewhere'
  <2>1. /\ job \in DOMAIN exports /\ exports[job].at = "trim"
        /\ DOMAIN exports' = DOMAIN exports \ {job}
        /\ \A other \in DOMAIN exports' : exports'[other] = exports[other]
        /\ UNCHANGED <<worker, sending, jobs, outputs>>
    BY <1>5 DEF End, At, Without, callerVars
  <2>2. \A other : HasSave(other)' <=> HasSave(other)
    BY <1>5, SavesStay DEF SameSaves, AskedOnce
  <2>3. \A other : Waits(other)' <=> Waits(other)
    BY <2>1, <2>2 DEF Waits
  <2>4. job \in DOMAIN jobs /\ JobIsSomewhere(job) /\ ~Waits(job)
    BY <1>0, <2>1, ExportsAre, BegunWaitsNot
  <2>5. JobIsSomewhere(job)'
    BY <2>1, <2>3, <2>4 DEF JobIsSomewhere
  <2>6. \A other \in DOMAIN jobs : other # job => JobIsSomewhere(other)'
    <3> SUFFICES ASSUME NEW other \in DOMAIN jobs, other # job
                 PROVE  JobIsSomewhere(other)'
      OBVIOUS
    <3>1. SameJob(other)
      BY <2>1, <2>3 DEF SameJob
    <3> QED
      BY <1>0, <3>1, SameJobStays
  <2> QED
    BY <2>1, <2>5, <2>6 DEF JobsAreSomewhere
<1> QED
  BY <1>1, <1>2, <1>3, <1>4, <1>5 DEF ExportStep

LEMMA NextJobsAreSomewhere ==
  ASSUME Sound(recorder), Typed, AskedOnce, JobsAreSomewhere, Counted, [Next]_vars
  PROVE  JobsAreSomewhere'
<1>0. /\ None \notin Job /\ DOMAIN jobs \subseteq Job /\ None \notin DOMAIN jobs /\ SavesDiffer
      /\ \A other \in DOMAIN jobs : JobIsSomewhere(other)
  BY JobsAre DEF JobsAreSomewhere
<1>1. ASSUME SameSaves, UNCHANGED <<sending, jobs, outputs, exports>>,
             \A job \in DOMAIN jobs : worker'.job = job <=> worker.job = job
      PROVE  JobsAreSomewhere'
  <2>1. \A job \in DOMAIN jobs : Waits(job)' <=> Waits(job)
    BY <1>1 DEF Waits, SameSaves
  <2>2. \A job \in DOMAIN jobs : SameJob(job)
    BY <1>1, <2>1 DEF SameJob
  <2>3. \A job \in DOMAIN jobs : JobIsSomewhere(job)'
    BY <1>0, <2>2, SameJobStays
  <2> QED
    BY <1>1, <2>3 DEF JobsAreSomewhere
<1>2. CASE \E count \in Chunk : PushSamples(count)
  <2>1. SameSaves
    BY <1>0, <1>2, SavesStay
  <2> QED
    BY <1>1, <1>2, <2>1 DEF PushSamples, callerVars
<1>3. CASE Stop
  <2>1. SameSaves
    BY <1>0, <1>3, SavesStay
  <2> QED
    BY <1>1, <1>3, <2>1 DEF Stop
<1>4. ASSUME NEW job \in Job, NEW want \in Requests, EnqueueExport(job, want)
      PROVE  JobsAreSomewhere'
  <2>1. /\ job \notin DOMAIN jobs /\ UNCHANGED <<queue, worker, exports, outputs>>
        /\ DOMAIN jobs' = DOMAIN jobs \cup {job} /\ jobs'[job] = "pending"
        /\ \A other \in DOMAIN jobs : jobs'[other] = jobs[other]
        /\ DOMAIN sending' = DOMAIN sending \cup {job}
    BY <1>4 DEF EnqueueExport, With
  <2>2. job \notin DOMAIN exports /\ job \notin outputs
    BY <2>1 DEF Typed, JobsTyped
  <2>3. JobIsSomewhere(job)'
    <3>1. Waits(job)'
      BY <2>1 DEF Waits
    <3> QED
      BY <2>1, <2>2, <3>1 DEF JobIsSomewhere
  <2>4. ASSUME NEW other \in DOMAIN jobs
        PROVE  JobIsSomewhere(other)'
    <3>1. Waits(other)' <=> Waits(other)
      BY <2>1 DEF Waits, HasSave
    <3>2. SameJob(other)
      BY <2>1, <3>1 DEF SameJob
    <3> QED
      BY <1>0, <3>2, SameJobStays
  <2> QED
    BY <2>1, <2>3, <2>4 DEF JobsAreSomewhere
<1>5. ASSUME NEW job \in Job, SendExport(job)
      PROVE  JobsAreSomewhere'
  <2> DEFINE c == [kind |-> "save", job |-> job, want |-> sending[job]]
  <2>1. job \in DOMAIN sending /\ sending[job] \in Request
    BY <1>5 DEF SendExport, Typed, JobsTyped
  <2>2. c \in Command /\ c.kind = "save" /\ c.job = job
    BY <2>1 DEF Command
  <2>3. Sends(c)
    BY <1>5, <2>2 DEF SendExport, Sends
  <2>4. \A other : HasSave(other)' <=> HasSave(other) \/ job = other
    BY <1>0, <2>2, <2>3, SavesSent
  <2>5. DOMAIN sending' = DOMAIN sending \ {job} /\ UNCHANGED <<worker, jobs, exports, outputs>>
    BY <1>5 DEF SendExport, Without
  <2>6. \A other \in DOMAIN jobs : Waits(other)' <=> Waits(other)
    BY <2>1, <2>4, <2>5 DEF Waits
  <2>7. \A other \in DOMAIN jobs : SameJob(other)
    BY <2>5, <2>6 DEF SameJob
  <2>8. \A other \in DOMAIN jobs : JobIsSomewhere(other)'
    BY <1>0, <2>7, SameJobStays
  <2> QED
    BY <2>5, <2>8 DEF JobsAreSomewhere
<1>6. ASSUME NEW job \in Job, CancelExport(job)
      PROVE  JobsAreSomewhere'
  <2>1. /\ UNCHANGED <<queue, worker, sending, exports, outputs>>
        /\ jobs' = [jobs EXCEPT ![job] = IF @ = "pending" THEN "canceled" ELSE @]
    BY <1>6 DEF CancelExport, callerVars
  <2>2. \A other \in DOMAIN jobs : Waits(other)' <=> Waits(other)
    BY <2>1 DEF Waits, HasSave
  <2>3. ASSUME NEW other \in DOMAIN jobs, jobs'[other] = jobs[other]
        PROVE  JobIsSomewhere(other)'
    <3>1. SameJob(other)
      BY <2>1, <2>2, <2>3 DEF SameJob
    <3> QED
      BY <1>0, <3>1, SameJobStays
  <2>4. ASSUME job \in DOMAIN jobs, jobs[job] = "pending"
        PROVE  JobIsSomewhere(job)'
    <3>1. JobIsSomewhere(job) /\ jobs'[job] = "canceled"
      BY <1>0, <2>1, <2>4
    <3>2. Waits(job)
      <4>1. CASE job \in DOMAIN exports
        <5>1. exports[job].at \in {"spawn", "trim"} \cup Busy \cup {"release", "settle"}
          BY <4>1, ExportsAre DEF Export, Busy
        <5> QED
          BY <2>4, <3>1, <4>1, <5>1 DEF JobIsSomewhere, Terminal, Waits
      <4>2. CASE job \notin DOMAIN exports
        BY <2>4, <3>1, <4>2 DEF JobIsSomewhere, Terminal
      <4> QED
        BY <4>1, <4>2
    <3>3. Waits(job)'
      BY <2>2, <2>4, <3>2
    <3> QED
      BY <2>1, <3>1, <3>2, <3>3 DEF JobIsSomewhere, Busy
  <2>5. /\ DOMAIN jobs' = DOMAIN jobs
        /\ \A other \in DOMAIN jobs :
             jobs'[other] = jobs[other] \/ (other = job /\ jobs[job] = "pending")
    BY <2>1
  <2> QED
    BY <2>3, <2>4, <2>5 DEF JobsAreSomewhere
<1>7. CASE \E job \in Job : ExportStep(job)
  BY <1>7, ExportJobs
<1>8. CASE Push \/ PushRest \/ PushTrim \/ Trim \/ Publish \/ Leave
  <2>1. SameSaves
    BY <1>0, <1>8, SavesStay
  <2>2. UNCHANGED <<sending, jobs, outputs, exports>>
    BY <1>8 DEF Push, PushRest, Writes, PushTrim, Trim, Publish, Leave, callerVars
  <2>3. worker'.job = worker.job
    <3>1. CASE Publish
      BY <3>1, WorkerMoves
    <3>2. CASE Push \/ PushRest \/ PushTrim \/ Trim \/ Leave
      <4>1. worker.at \in {"idle", "write"}
        BY <3>2 DEF Push, PushRest, PushTrim, Trim, Leave, Receives
      <4> QED
        BY <3>2, <4>1, JobsAre, WorkerMoves
    <3> QED
      BY <1>8, <3>1, <3>2
  <2> QED
    BY <1>1, <2>1, <2>2, <2>3
<1>9. CASE Save
  <2>0. PICK job : job = Next1.job
    OBVIOUS
  <2>1. Receives("save") /\ UNCHANGED <<sending, jobs, outputs>> /\ worker.job = None
    BY <1>9, JobsAre DEF Save, Receives, callerVars
  <2>2. worker'.job = job
    BY <1>9, <2>0, WorkerMoves
  <2>3. job \in DOMAIN jobs /\ HasSave(job) /\ job # None
    BY <2>0, <2>1, SaveIs
  <2>4. \A other : HasSave(other)' <=> HasSave(other) /\ job # other
    BY <1>0, <2>0, <2>1, SavesReceived
  <2>5. \/ UNCHANGED exports
        \/ /\ DOMAIN exports' = DOMAIN exports \cup {job} /\ exports'[job].at = "spawn"
           /\ \A other \in DOMAIN exports : other # job => exports'[other] = exports[other]
    <3>1. \A want, r : NewExport(want, r).at = "spawn"
      BY DEF NewExport
    <3> QED
      BY <1>9, <2>0, <3>1 DEF Save, With
  <2>6. \A other \in DOMAIN jobs : Waits(other)' <=> Waits(other)
    BY <1>0, <2>1, <2>2, <2>3, <2>4 DEF Waits
  <2>7. job \notin DOMAIN exports
    BY <1>0, <2>1, <2>3 DEF JobIsSomewhere, Waits
  <2>8. JobIsSomewhere(job)'
    <3>1. Waits(job) /\ Waits(job)' /\ JobIsSomewhere(job)
      BY <1>0, <2>3, <2>6 DEF Waits
    <3>2. jobs'[job] \in {"pending", "canceled"} /\ job \notin outputs'
      BY <2>1, <3>1 DEF JobIsSomewhere
    <3> QED
      BY <2>2, <2>5, <2>7, <3>1, <3>2 DEF JobIsSomewhere, Busy, Over
  <2>9. ASSUME NEW other \in DOMAIN jobs, other # job
        PROVE  JobIsSomewhere(other)'
    <3>1. SameJob(other)
      BY <1>0, <2>1, <2>2, <2>5, <2>6, <2>9 DEF SameJob
    <3> QED
      BY <1>0, <3>1, SameJobStays
  <2> QED
    BY <2>1, <2>8, <2>9 DEF JobsAreSomewhere
<1>10. CASE Spawn
  <2>0. PICK job : job = worker.job
    OBVIOUS
  <2>1. /\ worker.at = "spawn" /\ job # None /\ job \in DOMAIN jobs
        /\ ~HasSave(job) /\ job \notin DOMAIN sending
    BY <1>0, <1>10, <2>0 DEF Spawn, AskedOnce, Typed, JobsTyped
  <2>2. worker'.job = None /\ UNCHANGED <<queue, sending, outputs>>
    BY <1>10, WorkerMoves DEF Spawn, callerVars
  <2>3. JobIsSomewhere(job) /\ Waits(job)
    BY <1>0, <2>0, <2>1 DEF Waits
  <2>4. ~Waits(job)' /\ \A other : HasSave(other)' <=> HasSave(other)
    BY <2>1, <2>2 DEF Waits, HasSave
  <2>5. /\ \A other \in DOMAIN jobs : other # job =>
             /\ Waits(other)' <=> Waits(other)
             /\ worker.job # other /\ worker'.job # other
    BY <1>0, <2>0, <2>2, <2>4 DEF Waits
  <2>6. job \notin outputs'
    BY <2>2, <2>3 DEF JobIsSomewhere
  <2>7. CASE job \in DOMAIN exports
    <3>1. Goes(job, "begin") /\ jobs' = [jobs EXCEPT ![job] = "running"]
      BY <1>10, <2>0, <2>7 DEF Spawn, Goes
    <3>2. Moves(job, exports[job].at, {"begin"})
      BY <2>7, <3>1, GoesMoves
    <3>3. job \in DOMAIN exports' /\ exports'[job].at = "begin" /\ jobs'[job] = "running"
      BY <2>1, <3>1, <3>2 DEF Moves
    <3>4. JobIsSomewhere(job)'
      BY <2>4, <2>6, <3>3 DEF JobIsSomewhere, Busy, Over
    <3>5. ASSUME NEW other \in DOMAIN jobs, other # job
          PROVE  JobIsSomewhere(other)'
      <4>1. SameJob(other)
        BY <2>2, <2>5, <3>1, <3>2, <3>5 DEF SameJob, Moves
      <4> QED
        BY <1>0, <4>1, SameJobStays
    <3>6. DOMAIN jobs' = DOMAIN jobs
      BY <3>1
    <3> QED
      BY <3>4, <3>5, <3>6 DEF JobsAreSomewhere
  <2>8. CASE job \notin DOMAIN exports
    <3>1. UNCHANGED exports /\ jobs' = [jobs EXCEPT ![job] = "failed"]
      BY <1>10, <2>0, <2>8 DEF Spawn
    <3>2. jobs'[job] = "failed" /\ DOMAIN jobs' = DOMAIN jobs
      BY <2>1, <3>1
    <3>3. JobIsSomewhere(job)'
      BY <2>4, <2>6, <2>8, <3>1, <3>2 DEF JobIsSomewhere, Terminal
    <3>4. ASSUME NEW other \in DOMAIN jobs, other # job
          PROVE  JobIsSomewhere(other)'
      <4>1. SameJob(other)
        BY <2>2, <2>5, <3>1, <3>4 DEF SameJob
      <4> QED
        BY <1>0, <4>1, SameJobStays
    <3> QED
      BY <3>2, <3>3, <3>4 DEF JobsAreSomewhere
  <2> QED
    BY <2>7, <2>8
<1>11. CASE Crash
  <2>1. DOMAIN jobs' = {}
    BY <1>11 DEF Crash, Fresh
  <2> QED
    BY <2>1 DEF JobsAreSomewhere
<1>12. CASE UNCHANGED vars
  BY <1>0, <1>1, <1>12, SameQueue DEF vars, callerVars
<1> QED
  BY <1>2, <1>3, <1>4, <1>5, <1>6, <1>7, <1>8, <1>9, <1>10, <1>11, <1>12
  DEF Next, WorkerStep, ExportStep

-----------------------------------------------------------------------------
(* The counters *)

LEMMA HoldersAre ==
  ASSUME Counted
  PROVE  /\ \A i : IsFiniteSet(Holders(i)) /\ Cardinality(Holders(i)) \in Nat
         /\ \A i : i \in DOMAIN pins <=> Holders(i) # {}
         /\ \A i \in DOMAIN pins : pins[i] \in Nat \ {0}
         /\ IsFiniteSet(Running)
<1>1. ASSUME NEW i
      PROVE  IsFiniteSet(Holders(i)) /\ Cardinality(Holders(i)) \in Nat
  <2>1. Holders(i) \in SUBSET DOMAIN exports
    BY DEF Holders
  <2> QED
    BY <2>1, FS_Subset, FS_CardinalityType DEF Counted
<1>2. \A i : i \in DOMAIN pins <=> Holders(i) # {}
  BY DEF Counted, Holders
<1>3. ASSUME NEW i \in DOMAIN pins
      PROVE  pins[i] \in Nat \ {0}
  <2>1. Cardinality(Holders(i)) # 0
    BY <1>1, <1>2, <1>3, FS_EmptySet
  <2> QED
    BY <1>1, <1>3, <2>1 DEF Counted
<1>4. IsFiniteSet(Running)
  <2>1. Running \in SUBSET DOMAIN exports
    BY DEF Running
  <2> QED
    BY <2>1, FS_Subset DEF Counted
<1> QED
  BY <1>1, <1>2, <1>3, <1>4

\* Which exports hold a file, when one of them lets go of none.
LEMMA HoldersStay ==
  ASSUME NEW job, NEW at, NEW to, Moves(job, at, to), SameSegments(job), NEW i
  PROVE  Holders(i)' = Holders(i)
<1>1. \A other \in DOMAIN exports : FilesOf(exports'[other]) = FilesOf(exports[other])
  BY DEF Moves, SameSegments, FilesOf
<1> QED
  BY <1>1 DEF Holders, Moves

LEMMA CountedStays ==
  ASSUME Counted, NEW job, NEW at, NEW to, Moves(job, at, to), SameSegments(job),
         UNCHANGED pins, active' = Cardinality(Running'),
         exports'[job].at \in {"settle", "trim"} => at = "settle"
  PROVE  Counted'
<1>1. \A i : Holders(i)' = Holders(i)
  BY HoldersStay
<1>2. \A other \in DOMAIN exports : FilesOf(exports'[other]) = FilesOf(exports[other])
  BY DEF Moves, SameSegments, FilesOf
<1>3. \A other \in DOMAIN exports' :
        exports'[other].at \in {"settle", "trim"} => exports'[other].segments = {}
  BY DEF Moves, SameSegments, Counted
<1>4. DOMAIN exports' = DOMAIN exports
  BY DEF Moves
<1> QED
  BY <1>1, <1>2, <1>3, <1>4 DEF Counted

LEMMA NextCounted ==
  ASSUME Sound(recorder), Typed, AskedOnce, JobsAreSomewhere, Counted, [Next]_vars
  PROVE  Counted'
<1>0. /\ active = Cardinality(Running) /\ IsFiniteSet(Running) /\ active \in Nat
      /\ IsFiniteSet(DOMAIN exports)
  BY HoldersAre, ActiveIs DEF Counted
<1>1. CASE UNCHANGED <<exports, active, pins>>
  BY <1>1 DEF Counted, Running, Holders
<1>2. CASE Save
  <2>0. PICK job : job = Next1.job
    OBVIOUS
  <2>1. Receives("save") /\ UNCHANGED active
    BY <1>2 DEF Save
  <2>2. job \in DOMAIN jobs /\ HasSave(job) /\ worker.job # job
    BY <2>0, <2>1, SaveIs DEF AskedOnce
  <2>3. job \notin DOMAIN exports
    BY <2>2 DEF JobsAreSomewhere, JobIsSomewhere, Waits
  <2>4. CASE UNCHANGED <<pins, exports>>
    BY <1>1, <2>1, <2>4
  <2>5. CASE ~UNCHANGED <<pins, exports>>
    <3>1. PICK export : /\ export.at = "spawn"
                        /\ pins' = Pinned(FilesOf(export))
                        /\ exports' = With(exports, job, export)
      BY <1>2, <2>0, <2>5 DEF Save, NewExport
    <3>2. /\ DOMAIN exports' = DOMAIN exports \cup {job} /\ exports'[job] = export
          /\ \A other \in DOMAIN exports : exports'[other] = exports[other]
      BY <2>3, <3>1 DEF With
    <3>3. DOMAIN pins' = DOMAIN pins \cup FilesOf(export)
          /\ \A i \in DOMAIN pins' :
               pins'[i] = (IF i \in DOMAIN pins THEN pins[i] ELSE 0)
                          + (IF i \in FilesOf(export) THEN 1 ELSE 0)
      BY <3>1 DEF Pinned
    <3>4. Running' = Running
      BY <2>3, <3>1, <3>2 DEF Running, Busy
    <3>5. IsFiniteSet(DOMAIN exports')
      BY <1>0, <3>2, FS_AddElement
    <3>6. ASSUME NEW i
          PROVE  /\ Holders(i)' = Holders(i) \cup (IF i \in FilesOf(export) THEN {job} ELSE {})
                 /\ job \notin Holders(i)
      BY <2>3, <3>2 DEF Holders
    <3>7. ASSUME NEW i \in DOMAIN pins'
          PROVE  Holders(i)' # {} /\ pins'[i] = Cardinality(Holders(i)')
      <4>1. /\ Cardinality(Holders(i)) \in Nat /\ IsFiniteSet(Holders(i))
            /\ i \in DOMAIN pins => pins[i] = Cardinality(Holders(i)) /\ Holders(i) # {}
            /\ i \notin DOMAIN pins => Holders(i) = {}
        BY HoldersAre DEF Counted
      <4>2. (IF i \in DOMAIN pins THEN pins[i] ELSE 0) = Cardinality(Holders(i))
        BY <4>1, FS_EmptySet
      <4>3. CASE i \in FilesOf(export)
        <5>1. Holders(i)' = Holders(i) \cup {job} /\ job \notin Holders(i)
          BY <3>6, <4>3
        <5>2. Cardinality(Holders(i)') = Cardinality(Holders(i)) + 1
          BY <4>1, <5>1, FS_AddElement
        <5> QED
          BY <3>3, <4>1, <4>2, <4>3, <5>1, <5>2
      <4>4. CASE i \notin FilesOf(export)
        <5>1. Holders(i)' = Holders(i)
          BY <3>6, <4>4
        <5> QED
          BY <3>3, <4>1, <4>2, <4>4, <5>1
      <4> QED
        BY <4>3, <4>4
    <3>8. ASSUME NEW other \in DOMAIN exports'
          PROVE  /\ FilesOf(exports'[other]) \subseteq DOMAIN pins'
                 /\ exports'[other].at \in {"settle", "trim"} => exports'[other].segments = {}
      BY <3>1, <3>2, <3>3 DEF Counted
    <3> QED
      BY <1>0, <2>1, <3>4, <3>5, <3>7, <3>8 DEF Counted
  <2> QED
    BY <2>4, <2>5
<1>3. CASE Spawn
  <2>0. PICK job : job = worker.job
    OBVIOUS
  <2>1. UNCHANGED pins
    BY <1>3 DEF Spawn
  <2>2. CASE UNCHANGED <<active, exports>>
    BY <1>1, <2>1, <2>2
  <2>3. CASE job \in DOMAIN exports
    <3>1. Goes(job, "begin") /\ active' = active + 1
      BY <1>3, <2>0, <2>3 DEF Spawn, Goes
    <3>2. exports[job].at = "spawn"
      <4>1. Waits(job) /\ job \in DOMAIN jobs
        BY <2>0, <2>3, ExportsAre DEF Waits
      <4> QED
        BY <2>3, <4>1 DEF JobsAreSomewhere, JobIsSomewhere
    <3>3. Moves(job, "spawn", {"begin"}) /\ SameSegments(job)
      BY <2>3, <3>1, <3>2, GoesMoves
    <3>4. Running' = Running \cup {job} /\ job \notin Running
      BY <3>3 DEF Moves, Running, Busy
    <3>5. active' = Cardinality(Running')
      BY <1>0, <3>1, <3>4, FS_AddElement
    <3>6. exports'[job].at \notin {"settle", "trim"}
      BY <3>3 DEF Moves
    <3> QED
      BY <2>1, <3>3, <3>5, <3>6, CountedStays
  <2> QED
    BY <1>3, <2>0, <2>2, <2>3 DEF Spawn
<1>4. ASSUME NEW job, Begin(job)
      PROVE  Counted'
  <2>1. Moves(job, "begin", {"copy", "retire"}) /\ SameSegments(job)
        /\ UNCHANGED <<pins, active>>
    BY <1>4, BeginMoves DEF Begin
  <2>2. Running' = Running /\ exports'[job].at \notin {"settle", "trim"}
    BY <2>1 DEF Moves, Running, Busy
  <2> QED
    BY <1>0, <2>1, <2>2, CountedStays
<1>5. ASSUME NEW job, NEW result \in Terminal, Copy(job, result)
      PROVE  Counted'
  <2>1. Moves(job, "copy", {"retire"}) /\ SameSegments(job) /\ UNCHANGED <<pins, active>>
    BY <1>5, CopyMoves DEF Copy
  <2>2. Running' = Running /\ exports'[job].at \notin {"settle", "trim"}
    BY <2>1 DEF Moves, Running, Busy
  <2> QED
    BY <1>0, <2>1, <2>2, CountedStays
<1>6. ASSUME NEW job, Retire(job)
      PROVE  Counted'
  <2>1. /\ Moves(job, "retire", {"release"}) /\ SameSegments(job)
        /\ UNCHANGED pins /\ active' = active - 1
    BY <1>6, RetireMoves DEF Retire
  <2>2. Running' = Running \ {job} /\ job \in Running /\ exports'[job].at = "release"
    BY <2>1 DEF Moves, Running, Busy
  <2>3. active' = Cardinality(Running')
    BY <1>0, <2>1, <2>2, FS_RemoveElement
  <2> QED
    BY <2>1, <2>2, <2>3, CountedStays
<1>7. ASSUME NEW job, Release(job)
      PROVE  Counted'
  <2>0. PICK files : files = FilesOf(exports[job])
    OBVIOUS
  <2>1. /\ Moves(job, "release", {"settle"}) /\ exports'[job].segments = {}
        /\ UNCHANGED active /\ pins' = Unpinned(files)
    BY <1>7, <2>0, ReleaseMoves DEF Release
  <2>2. Running' = Running /\ DOMAIN exports' = DOMAIN exports
    BY <2>1 DEF Moves, Running, Busy
  <2>3. /\ FilesOf(exports'[job]) = {}
        /\ \A other \in DOMAIN exports : other # job => exports'[other] = exports[other]
        /\ job \in DOMAIN exports
    BY <2>1 DEF FilesOf, Moves
  <2>4. ASSUME NEW i
        PROVE  /\ Holders(i)' = Holders(i) \ {job}
               /\ job \in Holders(i) <=> i \in files
    <3>1. \A other \in DOMAIN exports : other # job =>
            FilesOf(exports'[other]) = FilesOf(exports[other])
      BY <2>3
    <3>2. i \notin FilesOf(exports'[job])
      BY <2>3
    <3>3. job \in Holders(i) <=> i \in files
      BY <2>0, <2>3 DEF Holders
    <3>4. Holders(i)' = {other \in DOMAIN exports : i \in FilesOf(exports'[other])}
      BY <2>2 DEF Holders, FilesOf
    <3>5. Holders(i)' = Holders(i) \ {job}
      BY <3>1, <3>2, <3>4 DEF Holders
    <3> QED
      BY <3>3, <3>5
  <2>5. /\ DOMAIN pins' = {i \in DOMAIN pins : i \notin files \/ pins[i] > 1}
        /\ \A i \in DOMAIN pins' : pins'[i] = IF i \in files THEN pins[i] - 1 ELSE pins[i]
    BY <2>1 DEF Unpinned
  <2>6. ASSUME NEW i
        PROVE  Cardinality(Holders(i)') =
                 IF i \in files THEN Cardinality(Holders(i)) - 1 ELSE Cardinality(Holders(i))
    <3>1. IsFiniteSet(Holders(i)) /\ Cardinality(Holders(i)) \in Nat
      BY HoldersAre
    <3> QED
      BY <2>4, <3>1, FS_RemoveElement
  <2>7. ASSUME NEW i \in DOMAIN pins'
        PROVE  Holders(i)' # {} /\ pins'[i] = Cardinality(Holders(i)')
    <3>1. i \in DOMAIN pins /\ (i \notin files \/ pins[i] > 1)
          /\ pins[i] = Cardinality(Holders(i)) /\ pins[i] \in Nat \ {0}
      BY <2>5, HoldersAre DEF Counted
    <3>2. pins'[i] = Cardinality(Holders(i)')
      BY <2>5, <2>6, <3>1
    <3>3. Cardinality(Holders(i)') # 0
      BY <2>6, <3>1
    <3> QED
      BY <3>2, <3>3, FS_EmptySet
  <2>8. ASSUME NEW other \in DOMAIN exports', NEW i \in FilesOf(exports'[other])
        PROVE  i \in DOMAIN pins'
    <3>1. other # job /\ other \in DOMAIN exports /\ i \in FilesOf(exports[other])
      BY <2>2, <2>3, <2>8
    <3>2. other \in Holders(i) /\ other \in Holders(i)' /\ i \in DOMAIN pins
      BY <2>4, <3>1 DEF Holders, Counted
    <3>3. Cardinality(Holders(i)') # 0
      <4>1. IsFiniteSet(Holders(i)')
        BY <2>4, HoldersAre, FS_RemoveElement
      <4> QED
        BY <3>2, <4>1, FS_EmptySet
    <3>4. pins[i] = Cardinality(Holders(i)) /\ pins[i] \in Nat \ {0}
      BY <3>2, HoldersAre DEF Counted
    <3> QED
      BY <2>5, <2>6, <3>2, <3>3, <3>4
  <2>9. ASSUME NEW other \in DOMAIN exports'
        PROVE  exports'[other].at \in {"settle", "trim"} => exports'[other].segments = {}
    BY <2>1, <2>2, <2>3 DEF Counted
  <2> QED
    BY <1>0, <2>1, <2>2, <2>7, <2>8, <2>9 DEF Counted
<1>8. ASSUME NEW job, Settle(job)
      PROVE  Counted'
  <2>1. /\ job \in DOMAIN exports /\ exports[job].at = "settle" /\ Goes(job, "trim")
        /\ UNCHANGED <<pins, active>>
    BY <1>8 DEF Settle, At
  <2>2. Moves(job, "settle", {"trim"}) /\ SameSegments(job)
    BY <2>1, GoesMoves
  <2>3. Running' = Running
    BY <2>2 DEF Moves, Running, Busy
  <2> QED
    BY <1>0, <2>1, <2>2, <2>3, CountedStays
<1>9. ASSUME NEW job, End(job)
      PROVE  Counted'
  <2>1. /\ job \in DOMAIN exports /\ exports[job].at = "trim"
        /\ DOMAIN exports' = DOMAIN exports \ {job}
        /\ \A other \in DOMAIN exports' : exports'[other] = exports[other]
        /\ UNCHANGED <<pins, active>>
    BY <1>9 DEF End, At, Without
  <2>2. Running' = Running
    BY <2>1 DEF Running, Busy
  <2>3. FilesOf(exports[job]) = {}
    BY <2>1 DEF Counted, FilesOf
  <2>4. \A i : Holders(i)' = Holders(i)
    BY <2>1, <2>3 DEF Holders
  <2>5. IsFiniteSet(DOMAIN exports')
    BY <1>0, <2>1, FS_RemoveElement
  <2> QED
    BY <1>0, <2>1, <2>2, <2>4, <2>5 DEF Counted
<1>10. CASE Crash
  <2>1. DOMAIN exports' = {} /\ DOMAIN pins' = {} /\ active' = 0
    BY <1>10 DEF Crash, Fresh
  <2>2. Running' = {}
    BY <2>1 DEF Running
  <2> QED
    BY <2>1, <2>2, FS_EmptySet DEF Counted
<1>11. CASE \/ \E count \in Chunk : PushSamples(count)
            \/ Stop
            \/ \E job \in Job :
                 \/ \E want \in Requests : EnqueueExport(job, want)
                 \/ SendExport(job) \/ CancelExport(job)
            \/ Push \/ PushRest \/ PushTrim \/ Trim \/ Publish \/ Leave
            \/ UNCHANGED vars
  BY <1>1, <1>11
  DEF PushSamples, Stop, EnqueueExport, SendExport, CancelExport, vars,
      Push, PushRest, Writes, PushTrim, Trim, Publish, Leave
<1> QED
  BY <1>2, <1>3, <1>4, <1>5, <1>6, <1>7, <1>8, <1>9, <1>10, <1>11
  DEF Next, WorkerStep, ExportStep

-----------------------------------------------------------------------------
(* The clips *)

Reads == {"spawn", "begin", "copy"}

\* The exports that will read have been there before, with the same segments.
NoNewClip ==
  \A job \in DOMAIN exports' : exports'[job].at \in Reads =>
    /\ job \in DOMAIN exports /\ exports[job].at \in Reads
    /\ exports'[job].segments = exports[job].segments
    /\ exports'[job].from = exports[job].from /\ exports'[job].to = exports[job].to

LEMMA ReadableStays ==
  ASSUME Sound(recorder), Sound(recorder'), Keeps(recorder'), NEW segment \in SegmentInfo,
         segment.index \in DOMAIN pins, IsReadable(segment)
  PROVE  IsReadable(segment)'
<1>1. /\ segment.index \in DOMAIN recorder.files
      /\ recorder.files[segment.index].flushed >= segment.sample_count
      /\ segment.sample_count \in Nat
  BY DEF IsReadable, SegmentInfo
<1>2. /\ segment.index \in DOMAIN recorder'.files
      /\ recorder'.files[segment.index].flushed >= recorder.files[segment.index].flushed
  BY <1>1 DEF Keeps
<1>3. /\ recorder.files[segment.index].flushed \in Nat
      /\ recorder'.files[segment.index].flushed \in Nat
  BY <1>1, <1>2, SoundIs
<1> QED
  BY <1>1, <1>2, <1>3 DEF IsReadable

LEMMA ClipsStay ==
  ASSUME Sound(recorder), Sound(recorder'), Keeps(recorder'), Typed, Counted, ClipsAreThere,
         NoNewClip
  PROVE  ClipsAreThere'
<1> SUFFICES ASSUME NEW job \in DOMAIN exports', exports'[job].at \in Reads
             PROVE  /\ Covers(exports'[job].segments, exports'[job].from, exports'[job].to)
                    /\ \A segment \in exports'[job].segments : IsReadable(segment)'
  BY DEF ClipsAreThere, Reads, Covers
<1>1. /\ job \in DOMAIN exports /\ exports[job].at \in Reads
      /\ exports'[job].segments = exports[job].segments
      /\ exports'[job].from = exports[job].from /\ exports'[job].to = exports[job].to
  BY DEF NoNewClip
<1>2. /\ Covers(exports[job].segments, exports[job].from, exports[job].to)
      /\ \A segment \in exports[job].segments : IsReadable(segment)
      /\ exports[job].segments \subseteq SegmentInfo
  BY <1>1, ExportsAre DEF ClipsAreThere, Reads
<1>3. \A segment \in exports[job].segments : segment.index \in DOMAIN pins
  BY <1>1 DEF Counted, FilesOf
<1>4. \A segment \in exports[job].segments : IsReadable(segment)'
  BY <1>2, <1>3, ReadableStays
<1> QED
  BY <1>1, <1>2, <1>4

\* What a snapshot takes is there and has no hole.
LEMMA NewClipIsThere ==
  ASSUME Sound(recorder), recorder' = Flushed(recorder), NEW want \in Request,
         IsAvailable(want, recorder')
  PROVE  LET export == NewExport(want, recorder') IN
         /\ Covers(export.segments, export.from, export.to)
         /\ \A segment \in export.segments : IsReadable(segment)'
<1> DEFINE export == NewExport(want, recorder')
<1>1. /\ Sound(recorder')
      /\ \A k \in Segments(recorder') :
           FileOf(recorder', k).flushed = recorder'.segments[k].sample_count
  BY FlushSound
<1>2. /\ export \in Export
      /\ export.from >= RetainedStart(recorder') \/ want.kind = "range"
      /\ want.kind = "range" => export.from = want.from /\ export.to = want.to
      /\ want.kind # "range" => export.to = recorder'.total
      /\ \A segment \in export.segments : \E k \in Segments(recorder') :
           segment = recorder'.segments[k]
      /\ \A k \in Segments(recorder') :
           StartAt(recorder', k) < export.to /\ EndAt(recorder', k) > export.from =>
             recorder'.segments[k] \in export.segments
  BY <1>1, NewExportIs
<1> HIDE DEF export
<1>3. /\ export.from \in Nat /\ export.to \in Nat
      /\ recorder'.total \in Nat /\ RetainedStart(recorder') \in Nat
  BY <1>1, <1>2, SoundIs DEF Export
<1>4. RetainedStart(recorder') <= export.from /\ export.to <= recorder'.total
  <2>1. CASE want.kind = "range"
    BY <1>2, <2>1 DEF IsAvailable
  <2>2. CASE want.kind # "range"
    BY <1>2, <1>3, <2>2
  <2> QED
    BY <2>1, <2>2
<1>5. ASSUME NEW p \in export.from .. export.to - 1
      PROVE  \E segment \in export.segments :
               segment.start_sample <= p /\ p < EndSample(segment)
  <2>1. p \in Int /\ RetainedStart(recorder') <= p /\ p < recorder'.total
        /\ export.from <= p /\ p < export.to
    BY <1>3, <1>4
  <2>2. PICK k \in Segments(recorder') :
          StartAt(recorder', k) <= p /\ p < EndAt(recorder', k)
    BY <1>1, <2>1, WindowIsCovered, SegmentedRecorderConstants DEF Sound
  <2>3. StartAt(recorder', k) \in Nat /\ EndAt(recorder', k) \in Nat
    BY <1>1, SegmentsAre DEF Sound
  <2>4. recorder'.segments[k] \in export.segments
    BY <1>2, <1>3, <2>1, <2>2, <2>3
  <2> QED
    BY <2>2, <2>4 DEF StartAt, EndAt
<1>6. ASSUME NEW segment \in export.segments
      PROVE  IsReadable(segment)'
  <2>1. PICK k \in Segments(recorder') : segment = recorder'.segments[k]
    BY <1>2
  <2>2. /\ segment.index \in DOMAIN recorder'.files
        /\ recorder'.files[segment.index].flushed = segment.sample_count
    BY <1>1, <2>1 DEF Sound, Filed, FileOf
  <2>3. recorder'.files[segment.index].flushed \in Nat
    BY <1>1, <2>2, SoundIs
  <2> QED
    BY <2>2, <2>3 DEF IsReadable
<1> QED
  BY <1>5, <1>6 DEF Covers, export

LEMMA NextClipsAreThere ==
  ASSUME Sound(recorder), Typed, AskedOnce, JobsAreSomewhere, Counted, ClipsAreThere,
         [Next]_vars
  PROVE  ClipsAreThere'
<1>0. Sound(recorder') /\ (Keeps(recorder') \/ Crash)
  BY RecorderMoves
<1>1. ASSUME NoNewClip, ~Crash
      PROVE  ClipsAreThere'
  BY <1>0, <1>1, ClipsStay
<1>2. CASE Crash
  <2>1. DOMAIN exports' = {}
    BY <1>2 DEF Crash, Fresh
  <2> QED
    BY <2>1 DEF ClipsAreThere
<1>3. CASE UNCHANGED exports /\ ~Crash
  BY <1>1, <1>3 DEF NoNewClip
<1>4. ASSUME NEW job, NEW at, NEW to, Moves(job, at, to), SameSegments(job),
             exports'[job].at \in Reads => at \in Reads, ~Crash
      PROVE  ClipsAreThere'
  <2>1. NoNewClip
    BY <1>4 DEF NoNewClip, Moves, SameSegments
  <2> QED
    BY <1>1, <1>4, <2>1
<1>5. ASSUME NEW job, Begin(job), ~Crash
      PROVE  ClipsAreThere'
  <2>1. Moves(job, "begin", {"copy", "retire"}) /\ SameSegments(job)
    BY <1>5, BeginMoves
  <2> QED
    BY <1>4, <1>5, <2>1 DEF Reads
<1>6. ASSUME NEW job, NEW result \in Terminal, Copy(job, result), ~Crash
      PROVE  ClipsAreThere'
  <2>1. Moves(job, "copy", {"retire"}) /\ SameSegments(job)
    BY <1>6, CopyMoves
  <2> QED
    BY <1>4, <1>6, <2>1 DEF Reads
<1>7. ASSUME NEW job, Retire(job), ~Crash
      PROVE  ClipsAreThere'
  <2>1. Moves(job, "retire", {"release"}) /\ SameSegments(job)
    BY <1>7, RetireMoves
  <2>2. exports'[job].at \notin Reads
    BY <2>1 DEF Moves, Reads
  <2> QED
    BY <1>4, <1>7, <2>1, <2>2
<1>8. ASSUME NEW job, Release(job), ~Crash
      PROVE  ClipsAreThere'
  <2>1. Moves(job, "release", {"settle"})
    BY <1>8, ReleaseMoves
  <2>2. NoNewClip
    BY <2>1 DEF Moves, NoNewClip, Reads
  <2> QED
    BY <1>1, <1>8, <2>2
<1>9. ASSUME NEW job, Settle(job), ~Crash
      PROVE  ClipsAreThere'
  <2>1. job \in DOMAIN exports /\ exports[job].at = "settle" /\ Goes(job, "trim")
    BY <1>9 DEF Settle, At
  <2>2. Moves(job, "settle", {"trim"}) /\ SameSegments(job)
    BY <2>1, GoesMoves
  <2>3. exports'[job].at \notin Reads
    BY <2>2 DEF Moves, Reads
  <2> QED
    BY <1>4, <1>9, <2>2, <2>3
<1>10. ASSUME NEW job, End(job), ~Crash
       PROVE  ClipsAreThere'
  <2>1. /\ DOMAIN exports' \subseteq DOMAIN exports
        /\ \A other \in DOMAIN exports' : exports'[other] = exports[other]
    BY <1>10 DEF End, Without
  <2>2. NoNewClip
    BY <2>1 DEF NoNewClip
  <2> QED
    BY <1>1, <1>10, <2>2
<1>11. ASSUME Spawn, ~Crash
       PROVE  ClipsAreThere'
  <2>0. PICK job : job = worker.job
    OBVIOUS
  <2>1. CASE UNCHANGED exports
    BY <1>3, <1>11, <2>1
  <2>2. CASE job \in DOMAIN exports
    <3>1. Goes(job, "begin")
      BY <1>11, <2>0, <2>2 DEF Spawn, Goes
    <3>2. exports[job].at = "spawn"
      <4>1. Waits(job) /\ job \in DOMAIN jobs
        BY <2>0, <2>2, ExportsAre DEF Waits
      <4> QED
        BY <2>2, <4>1 DEF JobsAreSomewhere, JobIsSomewhere
    <3>3. Moves(job, "spawn", {"begin"}) /\ SameSegments(job)
      BY <2>2, <3>1, <3>2, GoesMoves
    <3> QED
      BY <1>4, <1>11, <3>3 DEF Reads
  <2> QED
    BY <1>11, <2>0, <2>1, <2>2 DEF Spawn
<1>12. ASSUME Save, ~Crash
       PROVE  ClipsAreThere'
  <2>0. PICK job, want, export :
          job = Next1.job /\ want = Next1.want /\ export = NewExport(want, recorder')
    OBVIOUS
  <2>1. CASE UNCHANGED exports
    BY <1>3, <1>12, <2>1
  <2>2. CASE ~UNCHANGED exports
    <3>1. /\ IsAvailable(want, recorder') /\ recorder' = Flushed(recorder)
          /\ exports' = With(exports, job, export)
      BY <1>12, <2>0, <2>2 DEF Save
    <3>2. want \in Request
      BY <1>12, <2>0, SaveIs DEF Save
    <3>3. /\ Covers(export.segments, export.from, export.to)
          /\ \A segment \in export.segments : IsReadable(segment)'
      BY <2>0, <3>1, <3>2, NewClipIsThere
    <3>4. /\ DOMAIN exports' = DOMAIN exports \cup {job} /\ exports'[job] = export
          /\ \A other \in DOMAIN exports : other # job => exports'[other] = exports[other]
      BY <3>1 DEF With
    <3>5. Keeps(recorder')
      BY <1>0, <1>12
    <3>6. ASSUME NEW other \in DOMAIN exports, other # job, exports[other].at \in Reads
          PROVE  /\ Covers(exports'[other].segments, exports'[other].from, exports'[other].to)
                 /\ \A segment \in exports'[other].segments : IsReadable(segment)'
      <4>1. /\ Covers(exports[other].segments, exports[other].from, exports[other].to)
            /\ \A segment \in exports[other].segments : IsReadable(segment)
            /\ exports[other].segments \subseteq SegmentInfo
        BY <3>6, ExportsAre DEF ClipsAreThere, Reads
      <4>2. \A segment \in exports[other].segments : segment.index \in DOMAIN pins
        BY <3>6 DEF Counted, FilesOf
      <4>3. \A segment \in exports[other].segments : IsReadable(segment)'
        BY <1>0, <3>5, <4>1, <4>2, ReadableStays
      <4> QED
        BY <3>4, <3>6, <4>1, <4>3
    <3>7. ASSUME NEW other \in DOMAIN exports', exports'[other].at \in Reads
          PROVE  /\ Covers(exports'[other].segments, exports'[other].from, exports'[other].to)
                 /\ \A segment \in exports'[other].segments : IsReadable(segment)'
      BY <3>3, <3>4, <3>6, <3>7
    <3> QED
      BY <3>7 DEF ClipsAreThere, Reads, Covers
  <2> QED
    BY <2>1, <2>2
<1>13. CASE ~Crash /\
            ( \/ \E count \in Chunk : PushSamples(count)
              \/ Stop
              \/ \E job \in Job :
                   \/ \E want \in Requests : EnqueueExport(job, want)
                   \/ SendExport(job) \/ CancelExport(job)
              \/ Push \/ PushRest \/ PushTrim \/ Trim \/ Publish \/ Leave
              \/ UNCHANGED vars )
  <2>1. UNCHANGED exports
    BY <1>13
    DEF PushSamples, Stop, EnqueueExport, SendExport, CancelExport, vars,
        Push, PushRest, Writes, PushTrim, Trim, Publish, Leave
  <2> QED
    BY <1>3, <1>13, <2>1
<1> QED
  BY <1>2, <1>5, <1>6, <1>7, <1>8, <1>9, <1>10, <1>11, <1>12, <1>13
  DEF Next, WorkerStep, ExportStep

-----------------------------------------------------------------------------
(* Who has the last word *)

\* A trim that was asked for stays in the channel until the worker takes it, and the
\* end of an export asks for one.
LEMMA TrimsStay ==
  ASSUME Typed, SavesDiffer, [Next]_vars, ~Crash
  PROVE  /\ HasTrim => HasTrim' \/ Trim
         /\ \A job : End(job) => worker.at = "gone" \/ HasTrim'
<1>1. ASSUME NEW c, Sends(c)
      PROVE  /\ HasTrim => HasTrim'
             /\ c.kind = "trim" => HasTrim'
  BY <1>1, SavesSent
<1>2. ASSUME UNCHANGED queue
      PROVE  HasTrim => HasTrim'
  BY <1>2 DEF HasTrim
<1>3. ASSUME NEW job, End(job)
      PROVE  /\ HasTrim => HasTrim'
             /\ worker.at = "gone" \/ HasTrim'
  <2> DEFINE c == [kind |-> "trim"]
  <2>1. c \in Command /\ c.kind = "trim"
    BY DEF Command
  <2>2. (UNCHANGED queue /\ worker.at = "gone") \/ Sends(c)
    BY <1>3, <2>1 DEF End, AskTrim, Sends
  <2> QED
    BY <1>1, <1>2, <2>1, <2>2
<1>5. ASSUME HasTrim
      PROVE  HasTrim' \/ Trim
  <2>1. CASE UNCHANGED queue
    BY <1>2, <1>5, <2>1
  <2>2. CASE \E c : Sends(c)
    BY <1>1, <1>5, <2>2
  <2>3. CASE Push \/ Save \/ Leave
    <3>1. PICK kind \in {"push", "save", "stop"} : Receives(kind)
      BY <2>3 DEF Push, Save, Leave
    <3> QED
      BY <1>5, <3>1, SavesReceived
  <2>4. CASE PushRest \/ PushTrim \/ Publish \/ Spawn
    BY <2>1, <2>4 DEF PushRest, PushTrim, Publish, Spawn
  <2>5. CASE Trim
    BY <2>5
  <2>6. CASE ~WorkerStep
    <3>1. UNCHANGED queue \/ \E c : Sends(c)
      <4>1. CASE \E count \in Chunk : PushSamples(count)
        <5>1. PICK count \in Chunk : PushSamples(count)
          BY <4>1
        <5>2. count \in Nat /\ count > 0
          BY RecorderWorkerConstants DEF RecorderWorkerConstants
        <5> DEFINE c == [kind |-> "push", count |-> count]
        <5>3. c \in Command /\ c.count > 0
          BY <5>2 DEF Command
        <5>4. Sends(c)
          BY <5>1, <5>3 DEF PushSamples, Sends
        <5> QED
          BY <5>4
      <4>2. CASE Stop
        <5> DEFINE c == [kind |-> "stop"]
        <5>1. c \in Command /\ c.kind # "push"
          BY DEF Command
        <5>2. Sends(c)
          BY <4>2, <5>1 DEF Stop, Sends
        <5> QED
          BY <5>2
      <4>3. CASE \E job \in Job : SendExport(job)
        <5>1. PICK job \in Job : SendExport(job)
          BY <4>3
        <5> DEFINE c == [kind |-> "save", job |-> job, want |-> sending[job]]
        <5>2. sending[job] \in Request
          BY <5>1 DEF SendExport, Typed, JobsTyped
        <5>3. c \in Command /\ c.kind # "push"
          BY <5>2 DEF Command
        <5>4. Sends(c)
          BY <5>1, <5>3 DEF SendExport, Sends
        <5> QED
          BY <5>4
      <4>4. CASE \E job \in Job : End(job)
        <5> DEFINE c == [kind |-> "trim"]
        <5>1. c \in Command /\ c.kind # "push"
          BY DEF Command
        <5>2. UNCHANGED queue \/ Sends(c)
          BY <4>4, <5>1 DEF End, AskTrim, Sends
        <5> QED
          BY <5>2
      <4>5. CASE \E job \in Job :
                   \/ \E want \in Requests : EnqueueExport(job, want)
                   \/ CancelExport(job)
                   \/ Begin(job) \/ Retire(job) \/ Release(job) \/ Settle(job)
                   \/ \E result \in Terminal : Copy(job, result)
        BY <4>5 DEF EnqueueExport, CancelExport, Begin, Retire, Release, Settle, Copy
      <4>6. CASE UNCHANGED vars
        BY <4>6 DEF vars
      <4> QED
        BY <2>6, <4>1, <4>2, <4>3, <4>4, <4>5, <4>6 DEF Next, ExportStep
    <3> QED
      BY <2>1, <2>2, <3>1
  <2> QED
    BY <2>3, <2>4, <2>5, <2>6 DEF WorkerStep
<1> QED
  BY <1>3, <1>5

\* An export is there until its thread ends.
LEMMA ExportsStay ==
  ASSUME Typed, Counted, [Next]_vars, ~Crash, NEW job \in DOMAIN exports, ~End(job)
  PROVE  job \in DOMAIN exports'
<1>1. CASE Save
  BY <1>1 DEF Save, With
<1>2. CASE \E other \in Job : End(other)
  BY <1>2 DEF End, Without
<1>3. CASE Spawn
  BY <1>3 DEF Spawn
<1>4. CASE \E other \in Job :
             \/ Begin(other) \/ Retire(other) \/ Release(other) \/ Settle(other)
             \/ \E result \in Terminal : Copy(other, result)
  BY <1>4 DEF Begin, Retire, Release, Settle, Goes, Copy
<1>5. CASE \/ \E count \in Chunk : PushSamples(count)
           \/ Stop
           \/ \E other \in Job :
                \/ \E want \in Requests : EnqueueExport(other, want)
                \/ SendExport(other) \/ CancelExport(other)
           \/ Push \/ PushRest \/ PushTrim \/ Trim \/ Publish \/ Leave
           \/ UNCHANGED vars
  BY <1>5
  DEF PushSamples, Stop, EnqueueExport, SendExport, CancelExport, vars,
      Push, PushRest, Writes, PushTrim, Trim, Publish, Leave
<1> QED
  BY <1>1, <1>2, <1>3, <1>4, <1>5 DEF Next, WorkerStep, ExportStep

\* As long as there is an export or a trim in the channel, there is one afterwards.
LEMMA LastWordStays ==
  ASSUME Typed, SavesDiffer, Counted, [Next]_vars, ~Crash, ~Trim, worker.at # "gone",
         DOMAIN exports # {} \/ HasTrim
  PROVE  DOMAIN exports' # {} \/ HasTrim'
BY TrimsStay, ExportsStay

LEMMA NextStatusFollows ==
  ASSUME Sound(recorder), Typed, AskedOnce, Counted, StatusFollows, [Next]_vars
  PROVE  StatusFollows'
<1> DEFINE Said == DOMAIN exports # {} \/ HasTrim
<1>0. SavesDiffer /\ (active # 0 => DOMAIN exports # {})
  BY ActiveIs DEF AskedOnce
<1>1. ~Crash /\ ~Trim /\ worker.at # "gone" /\ Said => Said'
  BY <1>0, LastWordStays
<1>2. /\ worker.at \in {"idle", "spawn"} =>
           status.retained = RetainedStart(recorder) /\ status.total = recorder.total
      /\ worker.at # "gone" /\ status.active # 0 =>
           Said \/ (worker.at = "publish" /\ worker.seen = 0)
      /\ worker.at = "publish" /\ worker.seen # 0 => Said
  BY DEF StatusFollows
<1>3. ASSUME /\ worker'.at \in {"idle", "spawn"} =>
                  /\ status'.retained = RetainedStart(recorder')
                  /\ status'.total = recorder'.total
             /\ worker'.at # "gone" /\ status'.active # 0 =>
                  Said' \/ (worker'.at = "publish" /\ worker'.seen = 0)
             /\ worker'.at = "publish" /\ worker'.seen # 0 => Said'
      PROVE  StatusFollows'
  BY <1>3 DEF StatusFollows
<1> HIDE DEF Said
<1>4. ASSUME ~Crash, ~Trim, UNCHANGED <<worker, recorder>>,
             status'.retained = status.retained, status'.total = status.total,
             status'.active = status.active \/ Said'
      PROVE  StatusFollows'
  BY <1>1, <1>2, <1>3, <1>4
<1>5. CASE Crash
  <2>1. PICK r : recorder' = r /\ worker' = IdleWorker /\ status' = StatusOf(r, 0)
    BY <1>5 DEF Crash, Fresh
  <2>2. /\ worker'.at = "idle" /\ status'.active = 0
        /\ status'.retained = RetainedStart(recorder') /\ status'.total = recorder'.total
    BY <2>1 DEF IdleWorker, StatusOf
  <2> QED
    BY <1>3, <2>2
<1>6. CASE ~Crash /\ (Push \/ PushRest)
  <2>1. worker'.at = "write" /\ ~Trim /\ worker.at \in {"idle", "write"} /\ UNCHANGED status
    BY <1>6, WorkerMoves DEF Push, PushRest, Writes, Receives, Trim
  <2> QED
    BY <1>1, <1>2, <1>3, <1>6, <2>1
<1>7. CASE ~Crash /\ (PushTrim \/ Trim \/ Save)
  <2>1. /\ worker'.at = "publish" /\ worker'.seen = active /\ UNCHANGED status
        /\ worker.at \in {"idle", "write"}
    BY <1>7, WorkerMoves DEF PushTrim, Trim, Save, Receives
  <2>2. active # 0 => Said'
    <3>1. \A job : ~End(job)
      <4>1. UNCHANGED recorder => UNCHANGED worker \/ worker'.at = "publish"
        BY <2>1
      <4>2. \A job : End(job) => UNCHANGED worker
        BY DEF End
      <4> QED
        BY <2>1, <4>2
    <3>2. active # 0 => DOMAIN exports' # {}
      BY <1>0, <1>7, <3>1, ExportsStay
    <3> QED
      BY <3>2 DEF Said
  <2> QED
    BY <1>3, <2>1, <2>2
<1>8. CASE ~Crash /\ Publish
  <2>1. /\ worker.at = "publish" /\ worker'.at \in {"idle", "spawn"}
        /\ status' = StatusOf(recorder, worker.seen) /\ UNCHANGED recorder
    BY <1>8, WorkerMoves DEF Publish
  <2>2. /\ status'.retained = RetainedStart(recorder') /\ status'.total = recorder'.total
        /\ status'.active = worker.seen
    BY <2>1 DEF StatusOf
  <2>3. ~Trim
    BY <2>1 DEF Trim, Receives
  <2> QED
    BY <1>1, <1>2, <1>3, <1>8, <2>1, <2>2, <2>3
<1>9. CASE ~Crash /\ Spawn
  <2>1. /\ worker.at = "spawn" /\ worker'.at = "idle" /\ UNCHANGED <<recorder, status>>
    BY <1>9, WorkerMoves DEF Spawn
  <2>2. ~Trim
    BY <2>1 DEF Trim, Receives
  <2> QED
    BY <1>1, <1>2, <1>3, <1>9, <2>1, <2>2
<1>10. CASE Leave
  <2>1. worker'.at = "gone"
    BY <1>10, WorkerMoves
  <2> QED
    BY <1>3, <2>1
<1>11. ASSUME NEW job, Settle(job), ~Crash
       PROVE  StatusFollows'
  <2>1. /\ job \in DOMAIN exports /\ UNCHANGED <<worker, recorder>>
        /\ status' = [status EXCEPT !.active = exports[job].remaining]
        /\ exports' = [exports EXCEPT ![job].at = "trim"]
    BY <1>11 DEF Settle, At, Goes
  <2>2. ~Trim
    <3>1. Trim => worker.at = "idle" /\ worker'.at = "publish"
      BY WorkerMoves DEF Trim, Receives
    <3> QED
      BY <2>1, <3>1
  <2>3. status'.retained = status.retained /\ status'.total = status.total
    BY <2>1 DEF Typed, WorkerTyped
  <2>4. Said'
    BY <2>1 DEF Said
  <2> QED
    BY <1>4, <1>11, <2>1, <2>2, <2>3, <2>4
<1>12. CASE ~Crash /\
            ( \/ \E count \in Chunk : PushSamples(count)
              \/ Stop
              \/ \E job \in Job :
                   \/ \E want \in Requests : EnqueueExport(job, want)
                   \/ SendExport(job) \/ CancelExport(job)
                   \/ Begin(job) \/ Retire(job) \/ Release(job) \/ End(job)
                   \/ \E result \in Terminal : Copy(job, result)
              \/ UNCHANGED vars )
  <2>1. UNCHANGED <<worker, recorder, status>>
    BY <1>12
    DEF PushSamples, Stop, EnqueueExport, SendExport, CancelExport, vars,
        Begin, Retire, Release, End, Copy
  <2>2. ~Trim
    <3>1. Trim => worker.at = "idle" /\ worker'.at = "publish"
      BY WorkerMoves DEF Trim, Receives
    <3> QED
      BY <2>1, <3>1
  <2> QED
    BY <1>4, <1>12, <2>1, <2>2
<1> QED
  BY <1>5, <1>6, <1>7, <1>8, <1>9, <1>10, <1>11, <1>12 DEF Next, WorkerStep, ExportStep

\* A fault is counted for good.
LEMMA FaultsStay ==
  ASSUME Sound(recorder), Typed, [Next]_vars, faults' = 0
  PROVE  faults = 0 /\ ~Crash
<1>0. faults \in Nat /\ faults \in 0 .. MaxFaults
  BY RecorderWorkerConstants DEF Typed, RestTyped, RecorderWorkerConstants
<1>1. \A kind : Fault(kind) => faults' # 0
  BY <1>0 DEF Fault
<1>2. CASE Crash
  BY <1>1, <1>2 DEF Crash
<1>3. CASE PushTrim \/ Trim
  <2>1. Trims(recorder) /\ ~Crash
    BY <1>1, <1>3 DEF PushTrim, Trim, Crash
  <2> QED
    BY <1>0, <2>1, TrimsSound
<1>4. CASE UNCHANGED faults
  BY <1>1, <1>4 DEF Crash
<1>5. CASE \E job \in Job : \E result \in Terminal : Copy(job, result)
  BY <1>1, <1>4, <1>5 DEF Copy
<1>6. CASE \/ \E count \in Chunk : PushSamples(count)
           \/ Stop
           \/ \E job \in Job :
                \/ \E want \in Requests : EnqueueExport(job, want)
                \/ SendExport(job) \/ CancelExport(job)
                \/ Begin(job) \/ Retire(job) \/ Release(job) \/ Settle(job) \/ End(job)
           \/ Push \/ PushRest \/ Save \/ Publish \/ Spawn \/ Leave
           \/ UNCHANGED vars
  BY <1>4, <1>6
  DEF PushSamples, Stop, EnqueueExport, SendExport, CancelExport, vars,
      Begin, Retire, Release, Settle, End, Push, PushRest, Writes, Save, Publish, Spawn, Leave
<1> QED
  BY <1>2, <1>3, <1>5, <1>6 DEF Next, WorkerStep, ExportStep

LEMMA NextTrimFollows ==
  ASSUME Sound(recorder), Typed, AskedOnce, JobsAreSomewhere, Counted, TrimFollows,
         [Next]_vars
  PROVE  TrimFollows'
<1> DEFINE AtEnd(job) == exports[job].at \in {"settle", "trim"}
           Asked == HasTrim \/ \E job \in DOMAIN exports : AtEnd(job)
           Clean == Removable(recorder, DOMAIN pins) = {}
<1> SUFFICES ASSUME faults' = 0
             PROVE  worker'.at \in {"write", "gone"} \/ Asked' \/ Clean'
  BY DEF TrimFollows
<1>0. SavesDiffer /\ faults = 0 /\ ~Crash
  BY FaultsStay DEF AskedOnce
<1>1. worker.at \in {"write", "gone"} \/ Asked \/ Clean
  BY <1>0 DEF TrimFollows
<1>2. ~Trim /\ HasTrim => HasTrim'
  BY <1>0, TrimsStay
<1> HIDE DEF Clean
<1>3. ASSUME ~Trim, UNCHANGED <<recorder, pins>>,
             worker.at \in {"write", "gone"} => worker'.at \in {"write", "gone"},
             \A job \in DOMAIN exports : AtEnd(job) => job \in DOMAIN exports' /\ AtEnd(job)'
      PROVE  worker'.at \in {"write", "gone"} \/ Asked' \/ Clean'
  BY <1>1, <1>2, <1>3 DEF Clean
<1>4. ASSUME NEW job, NEW at, NEW to, Moves(job, at, to), at \notin {"settle", "trim"},
             UNCHANGED <<recorder, pins, worker>>, ~Trim
      PROVE  worker'.at \in {"write", "gone"} \/ Asked' \/ Clean'
  BY <1>3, <1>4 DEF Moves
<1>5. UNCHANGED worker => ~Trim
  BY WorkerMoves DEF Trim, Receives
<1>6. CASE Push \/ PushRest \/ Leave
  BY <1>6, WorkerMoves
<1>7. CASE PushTrim \/ Trim
  <2>1. Trims(recorder) /\ UNCHANGED pins
    BY <1>7 DEF PushTrim, Trim
  <2>2. Removable(recorder', DOMAIN pins) = {}
    BY <2>1, TrimsSound DEF Typed, RestTyped
  <2> QED
    BY <2>1, <2>2 DEF Clean
<1>8. CASE Publish
  <2>1. worker.at = "publish" /\ UNCHANGED <<recorder, pins, exports>>
    BY <1>8 DEF Publish
  <2>2. ~Trim
    BY <2>1 DEF Trim, Receives
  <2> QED
    BY <1>3, <2>1, <2>2
<1>9. CASE Spawn
  <2>0. PICK job : job = worker.job
    OBVIOUS
  <2>1. worker.at = "spawn" /\ UNCHANGED <<recorder, pins>>
    BY <1>9 DEF Spawn
  <2>2. ~Trim
    BY <2>1 DEF Trim, Receives
  <2>3. CASE UNCHANGED exports
    BY <1>3, <2>1, <2>2, <2>3
  <2>4. CASE job \in DOMAIN exports
    <3>1. Goes(job, "begin")
      BY <1>9, <2>0, <2>4 DEF Spawn, Goes
    <3>2. exports[job].at = "spawn"
      <4>1. Waits(job) /\ job \in DOMAIN jobs
        BY <2>0, <2>4, ExportsAre DEF Waits
      <4> QED
        BY <2>4, <4>1 DEF JobsAreSomewhere, JobIsSomewhere
    <3>3. Moves(job, "spawn", {"begin"})
      BY <2>4, <3>1, <3>2, GoesMoves
    <3> QED
      BY <1>3, <2>1, <2>2, <3>3 DEF Moves
  <2> QED
    BY <1>9, <2>0, <2>3, <2>4 DEF Spawn
<1>10. CASE Save
  <2>0. PICK job : job = Next1.job
    OBVIOUS
  <2>1. worker.at = "idle" /\ recorder' = Flushed(recorder) /\ Receives("save")
    BY <1>10 DEF Save, Receives
  <2>2. DOMAIN pins \subseteq DOMAIN pins'
    BY <1>10 DEF Save, Pinned
  <2>3. recorder'.segments = recorder.segments
        /\ RetainedStart(recorder') = RetainedStart(recorder)
    BY <2>1, FlushSound
  <2>4. Removable(recorder', DOMAIN pins') \subseteq Removable(recorder, DOMAIN pins)
    BY <2>2, <2>3 DEF Removable, Expired
  <2>5. ~Trim
    BY <2>1 DEF Trim, Receives
  <2>6. \A other \in DOMAIN exports : AtEnd(other) => other \in DOMAIN exports' /\ AtEnd(other)'
    <3>1. job \in DOMAIN exports => ~AtEnd(job)
      <4>1. Waits(job) /\ job \in DOMAIN jobs
        BY <2>0, <2>1, SaveIs DEF Waits
      <4> QED
        BY <4>1 DEF JobsAreSomewhere, JobIsSomewhere
    <3>2. \A other \in DOMAIN exports :
            other # job => other \in DOMAIN exports' /\ exports'[other] = exports[other]
      BY <1>10, <2>0 DEF Save, With
    <3> QED
      BY <3>1, <3>2
  <2> QED
    BY <1>1, <1>2, <2>1, <2>4, <2>5, <2>6 DEF Clean
<1>11. ASSUME NEW job \in Job, Begin(job)
       PROVE  worker'.at \in {"write", "gone"} \/ Asked' \/ Clean'
  <2>1. Moves(job, "begin", {"copy", "retire"}) /\ UNCHANGED <<recorder, pins, worker>>
    BY <1>11, BeginMoves DEF Begin
  <2> QED
    BY <1>4, <1>5, <2>1
<1>12. ASSUME NEW job \in Job, NEW result \in Terminal, Copy(job, result)
       PROVE  worker'.at \in {"write", "gone"} \/ Asked' \/ Clean'
  <2>1. Moves(job, "copy", {"retire"}) /\ UNCHANGED <<recorder, pins, worker>>
    BY <1>12, CopyMoves DEF Copy
  <2> QED
    BY <1>4, <1>5, <2>1
<1>13. ASSUME NEW job \in Job, Retire(job)
       PROVE  worker'.at \in {"write", "gone"} \/ Asked' \/ Clean'
  <2>1. Moves(job, "retire", {"release"}) /\ UNCHANGED <<recorder, pins, worker>>
    BY <1>13, RetireMoves DEF Retire
  <2> QED
    BY <1>4, <1>5, <2>1
<1>14. ASSUME NEW job \in Job, Release(job)
       PROVE  worker'.at \in {"write", "gone"} \/ Asked' \/ Clean'
  <2>1. Moves(job, "release", {"settle"})
    BY <1>14, ReleaseMoves
  <2> QED
    BY <2>1 DEF Moves
<1>15. ASSUME NEW job \in Job, Settle(job)
       PROVE  worker'.at \in {"write", "gone"} \/ Asked' \/ Clean'
  <2>1. job \in DOMAIN exports /\ exports[job].at = "settle" /\ Goes(job, "trim")
    BY <1>15 DEF Settle, At
  <2>2. Moves(job, "settle", {"trim"})
    BY <2>1, GoesMoves
  <2> QED
    BY <2>2 DEF Moves
<1>16. ASSUME NEW job \in Job, End(job)
       PROVE  worker'.at \in {"write", "gone"} \/ Asked' \/ Clean'
  <2>1. worker.at = "gone" \/ HasTrim'
    BY <1>0, <1>16, TrimsStay
  <2> QED
    BY <1>16, <2>1 DEF End
<1>17. CASE \/ \E count \in Chunk : PushSamples(count)
            \/ Stop
            \/ \E job \in Job :
                 \/ \E want \in Requests : EnqueueExport(job, want)
                 \/ SendExport(job) \/ CancelExport(job)
            \/ UNCHANGED vars
  <2>1. UNCHANGED <<recorder, pins, worker, exports>>
    BY <1>17 DEF PushSamples, Stop, EnqueueExport, SendExport, CancelExport, vars
  <2> QED
    BY <1>3, <1>5, <2>1
<1> QED
  BY <1>0, <1>6, <1>7, <1>8, <1>9, <1>10, <1>11, <1>12, <1>13, <1>14, <1>15, <1>16, <1>17
  DEF Next, WorkerStep, ExportStep

-----------------------------------------------------------------------------
(* The invariant holds *)

LEMMA InitIInv ==
  ASSUME Init
  PROVE  IInv
<1>1. Sound(recorder) /\ Typed
  BY EmptySound, InitTyped DEF Init
<1>2. /\ DOMAIN jobs = {} /\ DOMAIN sending = {} /\ DOMAIN exports = {} /\ DOMAIN pins = {}
      /\ Len(queue) = 0 /\ active = 0
      /\ worker.at = "idle" /\ worker.job = None
      /\ status = StatusOf(recorder, 0)
  BY DEF Init, IdleWorker
<1>3. AskedOnce
  BY <1>2 DEF AskedOnce, SavesDiffer, HasSave
<1>4. JobsAreSomewhere /\ ClipsAreThere
  BY <1>2 DEF JobsAreSomewhere, ClipsAreThere
<1>5. Counted
  <2>1. Running = {}
    BY <1>2 DEF Running
  <2> QED
    BY <1>2, <2>1, FS_EmptySet DEF Counted
<1>6. StatusFollows
  BY <1>2 DEF StatusFollows, StatusOf
<1>7. TrimFollows
  <2>1. DOMAIN recorder.segments = {}
    BY DEF Init, EmptyRecorder
  <2>2. Removable(recorder, DOMAIN pins) = {}
    BY <2>1 DEF Removable, Expired
  <2> QED
    BY <2>2 DEF TrimFollows
<1> QED
  BY <1>1, <1>3, <1>4, <1>5, <1>6, <1>7 DEF IInv

LEMMA NextIInv ==
  ASSUME IInv, [Next]_vars
  PROVE  IInv'
<1>1. /\ Sound(recorder) /\ Typed /\ AskedOnce /\ JobsAreSomewhere /\ Counted
      /\ ClipsAreThere /\ StatusFollows /\ TrimFollows
  BY DEF IInv
<1>2. Sound(recorder')
  BY <1>1, RecorderMoves
<1>3. Typed'
  BY <1>1, NextQueueTyped, NextWorkerTyped, NextJobsTyped, NextRestTyped DEF Typed
<1>4. AskedOnce' /\ JobsAreSomewhere' /\ Counted'
  BY <1>1, NextAskedOnce, NextJobsAreSomewhere, NextCounted
<1>5. ClipsAreThere' /\ StatusFollows' /\ TrimFollows'
  BY <1>1, NextClipsAreThere, NextStatusFollows, NextTrimFollows
<1> QED
  BY <1>2, <1>3, <1>4, <1>5 DEF IInv

\* The invariant of the recorder, its worker and its exports.
THEOREM Invariant == Spec => []IInv
<1>1. Init => IInv
  BY InitIInv
<1>2. IInv /\ [Next]_vars => IInv'
  BY NextIInv
<1> QED
  BY <1>1, <1>2, PTL DEF Spec

-----------------------------------------------------------------------------
(* What it says *)

\* RecorderWorker: active_exports never passes below zero, a file is in the map of pins
\* only while an export needs it, no job is known to a flag, a thread or an output that
\* the table of jobs does not know; for any number of jobs, sizes and faults.
THEOREM CountersAreTyped == Spec => []TypeOK
<1>1. ASSUME IInv
      PROVE  TypeOK
  <2>1. /\ Sound(recorder) /\ QueueTyped /\ WorkerTyped /\ JobsTyped /\ RestTyped /\ Counted
    BY <1>1 DEF IInv, Typed
  <2>2. IsRecorder(recorder)
    BY <2>1 DEF Sound, Filed
  <2>3. active \in Nat /\ \A i \in DOMAIN pins : pins[i] \in Nat \ {0}
    BY <2>1, ActiveIs, HoldersAre
  <2> QED
    BY <2>1, <2>2, <2>3 DEF TypeOK, QueueTyped, WorkerTyped, JobsTyped, RestTyped
<1> QED
  BY <1>1, Invariant, PTL

LEMMA WindowFollows ==
  ASSUME Sound(recorder)
  PROVE  WindowIsWhole /\ AudioInOrder
<1> DEFINE live == {recorder.segments[k] : k \in DOMAIN recorder.segments}
<1>1. /\ Placed(recorder) /\ NoHole(recorder) /\ Filed(recorder)
      /\ recorder.total \in Nat /\ RetainedStart(recorder) \in Nat
      /\ DOMAIN recorder.segments = Segments(recorder)
  BY SoundIs, SegmentsAre DEF Sound
<1>2. ASSUME NEW p \in RetainedStart(recorder) .. recorder.total - 1
      PROVE  \E segment \in live : segment.start_sample <= p /\ p < EndSample(segment)
  <2>1. p \in Int /\ RetainedStart(recorder) <= p /\ p < recorder.total
    BY <1>1
  <2>2. PICK k \in Segments(recorder) : StartAt(recorder, k) <= p /\ p < EndAt(recorder, k)
    BY <1>1, <2>1, WindowIsCovered, SegmentedRecorderConstants
  <2> QED
    BY <1>1, <2>2 DEF StartAt, EndAt
<1>3. \A segment \in live : segment.index \in DOMAIN recorder.files
  BY <1>1 DEF Filed
<1>4. recorder.total - RetainedStart(recorder) <= Window
  <2>1. Cutoff(recorder) <= RetainedStart(recorder)
    BY <1>1, RetainedBounds, SegmentedRecorderConstants
  <2> QED
    BY <1>1, <2>1, SegmentedRecorderConstants DEF Cutoff, SegmentedRecorderConstants
<1>5. WindowIsWhole
  BY <1>2, <1>3, <1>4 DEF WindowIsWhole, Covers
<1>6. AudioInOrder
  BY <1>1 DEF AudioInOrder, Filed, FileOf, Placed, StartAt, EndAt
<1> QED
  BY <1>5, <1>6

\* snapshot, pin_snapshot_segments, trim_expired_segments_except and the recovery: whatever
\* is recorded, trimmed, exported or lost in a crash meanwhile, what a clip needs stays
\* readable until it has been read, the window has no hole and is no longer than
\* max_replay_seconds, and its audio is in the order it was recorded in.
THEOREM NoAudioIsLost == Spec => []AudioIsWhole
<1>1. ASSUME IInv
      PROVE  AudioIsWhole
  <2>1. WindowIsWhole /\ AudioInOrder
    BY <1>1, WindowFollows DEF IInv
  <2>2. ClipsAreWhole
    BY <1>1 DEF IInv, ClipsAreThere, ClipsAreWhole, Needed, Overlapping
  <2> QED
    BY <2>1, <2>2 DEF AudioIsWhole
<1> QED
  BY <1>1, Invariant, PTL

\* When nobody has anything left to do, no export is counted and nothing is pinned.
LEMMA QuietIs ==
  ASSUME IInv, Quiet
  PROVE  /\ active = 0 /\ pins = << >> /\ ~HasTrim
         /\ DOMAIN exports = {} /\ worker.at = "idle"
         /\ \A job \in DOMAIN jobs : ~Waits(job)
<1>1. /\ Typed /\ AskedOnce /\ Counted
      /\ worker.at = "idle" /\ Len(queue) = 0 /\ DOMAIN sending = {} /\ DOMAIN exports = {}
  BY DEF IInv, Quiet
<1>2. active = 0
  BY <1>1, ActiveIs
<1>3. pins = << >>
  <2>1. DOMAIN pins = {}
    BY <1>1 DEF Counted, Holders
  <2> QED
    BY <1>1, <2>1 DEF Typed, RestTyped, IsFcn
<1>4. ~HasTrim /\ \A job : ~HasSave(job)
  BY <1>1 DEF HasTrim, HasSave
<1>5. worker.job = None /\ None \notin DOMAIN jobs
  BY <1>1, JobsAre
<1> QED
  BY <1>1, <1>2, <1>3, <1>4, <1>5 DEF Waits

\* update_worker_status and the end of an export thread: in whatever order the exports
\* write their counts, when nothing is left to do the status is the truth and every job,
\* also the one canceled in the queue and the one whose range expired, has been settled.
THEOREM LastWordIsRight == Spec => []ReportsSettle
<1>1. ASSUME IInv, Quiet
      PROVE  active = 0 /\ status = StatusOf(recorder, active)
  <2>1. /\ active = 0 /\ ~HasTrim /\ DOMAIN exports = {} /\ worker.at = "idle"
        /\ StatusFollows /\ WorkerTyped
    BY <1>1, QuietIs DEF IInv, Typed
  <2>2. /\ status.retained = RetainedStart(recorder) /\ status.total = recorder.total
        /\ status.active = 0
    BY <2>1 DEF StatusFollows
  <2>3. status = [retained |-> status.retained, total |-> status.total,
                  active |-> status.active]
    BY <2>1 DEF WorkerTyped
  <2> QED
    BY <2>1, <2>2, <2>3 DEF StatusOf
<1>2. ASSUME IInv, Quiet, NEW job \in DOMAIN jobs
      PROVE  jobs[job] \in Terminal
  <2>1. ~Waits(job) /\ job \notin DOMAIN exports
    BY <1>2, QuietIs
  <2> QED
    BY <1>2, <2>1 DEF IInv, JobsAreSomewhere, JobIsSomewhere
<1>3. IInv => ReportsSettle
  BY <1>1, <1>2 DEF ReportsSettle, StatusSettles, JobsSettle
<1> QED
  BY <1>3, Invariant, PTL

\* trim_expired_segments_except and the trim each export asks for at its end: when nothing
\* is left to do and no file refused to go, no expired file is left on the disk, although
\* exports may have pinned it when it expired.
THEOREM NoExpiredFileStays == Spec => []ExpiredIsRemoved
<1>1. ASSUME IInv, Quiet, faults = 0
      PROVE  Expired(recorder) = {} /\ pins = << >>
  <2>1. pins = << >> /\ ~HasTrim /\ DOMAIN exports = {} /\ worker.at = "idle" /\ TrimFollows
    BY <1>1, QuietIs DEF IInv
  <2>2. Removable(recorder, DOMAIN pins) = {} /\ DOMAIN pins = {}
    BY <1>1, <2>1 DEF TrimFollows
  <2>3. Removable(recorder, {}) = Expired(recorder)
    BY DEF Removable, Expired
  <2> QED
    BY <2>1, <2>2, <2>3
<1>2. IInv => ExpiredIsRemoved
  BY <1>1 DEF ExpiredIsRemoved
<1> QED
  BY <1>2, Invariant, PTL

\* spawn_export_job and cancel_export: at every moment, also while other exports come and
\* go and however a cancel races the worker, a job reported as failed or canceled has no
\* output file, and one reported as finished has one.
THEOREM ReportsTellTheOutput == Spec => []OutputMatchesState
<1>1. ASSUME IInv, NEW job \in DOMAIN jobs
      PROVE  /\ jobs[job] \in {"failed", "canceled"} => job \notin outputs
             /\ jobs[job] = "finished" => job \in outputs
  <2>1. JobIsSomewhere(job) /\ JobsTyped
    BY <1>1 DEF IInv, Typed, JobsAreSomewhere
  <2>2. CASE Waits(job)
    BY <2>1, <2>2 DEF JobIsSomewhere
  <2>3. CASE job \in DOMAIN exports /\ exports[job].at # "trim" /\ ~Waits(job)
    <3>1. exports[job].at \in Busy \cup {"release", "settle"}
      <4>1. exports[job].at # "spawn"
        BY <2>1, <2>3 DEF JobIsSomewhere, Waits
      <4> QED
        BY <2>1, <2>3, <4>1 DEF JobsTyped, Export, Busy
    <3> QED
      BY <2>1, <2>3, <3>1 DEF JobIsSomewhere
  <2>4. CASE ~Waits(job) /\ (job \in DOMAIN exports => exports[job].at = "trim")
    BY <2>1, <2>4 DEF JobIsSomewhere
  <2> QED
    BY <2>2, <2>3, <2>4
<1>2. IInv => OutputMatchesState
  BY <1>1 DEF OutputMatchesState
<1> QED
  BY <1>2, Invariant, PTL

\* retained_start_sample over all that changes the inventory: as long as the process lives
\* neither end of the window goes back, for any retention and any size of the segments.
THEOREM WindowMovesForward == Spec => NeverRewinds
<1>1. ASSUME IInv, [Next]_vars
      PROVE  [\/ Crash
              \/ /\ recorder'.total >= recorder.total
                 /\ RetainedStart(recorder') >= RetainedStart(recorder)]_vars
  BY <1>1, RecorderMoves DEF IInv, Keeps
<1> QED
  BY <1>1, Invariant, PTL DEF Spec, NeverRewinds

=============================================================================
