-------------------------- MODULE SegmentedRecorder --------------------------
(***************************************************************************)
(* echoclip_core::SegmentedRecorder: PCM in numbered segment files, of     *)
(* which the youngest Window samples are the rolling buffer.               *)
(*                                                                         *)
(* A recorder is a record: its operations are operators that return the    *)
(* next one.  A sample is known by its place in the recording ("heard"     *)
(* counts the samples ever pushed), so that a file can be told to hold the *)
(* wrong audio; the positions of the manifest are another numbering, which *)
(* recovery starts again at zero.  The manifest file is left out: recovery *)
(* takes every PCM file it finds, listed or not.                           *)
(***************************************************************************)
EXTENDS Integers, Sequences, FiniteSets

CONSTANTS
  SegmentSize,  \* samples in a full segment
  Window        \* samples in max_replay_seconds

ASSUME SegmentedRecorderConstants ==
  SegmentSize \in Nat \ {0} /\ Window \in Nat \ {0}

VARIABLE recorder

SegmentInfo ==
  [index : Nat, start_sample : Nat, sample_count : Nat, complete : BOOLEAN]

\* What a file holds: the samples first .. first + count - 1 of the recording,
\* of which the first "flushed" have left the buffer of the writer.
PcmFile == [first : Nat, count : Nat, flushed : Nat]

\* "writing" says that the last segment has a current_file.
IsRecorder(r) ==
  /\ r = [segments |-> r.segments, files |-> r.files, total |-> r.total,
          writing |-> r.writing, heard |-> r.heard]
  /\ r.segments \in Seq(SegmentInfo)
  /\ DOMAIN r.files \subseteq Nat
  /\ \A i \in DOMAIN r.files :
       r.files[i] \in PcmFile /\ r.files[i].flushed <= r.files[i].count
  /\ r.total \in Nat /\ r.heard \in Nat /\ r.writing \in BOOLEAN

EmptyRecorder ==
  [segments |-> << >>, files |-> << >>, total |-> 0, writing |-> FALSE, heard |-> 0]

EndSample(segment) == segment.start_sample + segment.sample_count

Last(segments) == segments[Len(segments)]

\* The members of a finite set of numbers in ascending order.
Ascending(S) ==
  [k \in 1..Cardinality(S) |-> CHOOSE i \in S : Cardinality({j \in S : j < i}) = k - 1]

\* Mutant of RetainedStart: the window begins where the expired segment ends, even
\* if files behind it are gone.
RetainedStartOverGap(r) ==
  LET cutoff  == r.total - Window
      reached == Cardinality({k \in DOMAIN r.segments :
                                r.segments[k].start_sample <= cutoff}) IN
  IF r.segments = << >> THEN r.total
  ELSE IF r.total < Window \/ reached = 0 THEN r.segments[1].start_sample
  ELSE IF ~r.segments[reached].complete /\ r.writing THEN cutoff
  ELSE EndSample(r.segments[reached])

\* retained_start_sample: the segment that meets the boundary expires as a whole,
\* unless it is the one being written.
RetainedStart(r) ==
  LET cutoff  == r.total - Window
      reached == Cardinality({k \in DOMAIN r.segments :
                                r.segments[k].start_sample <= cutoff}) IN
  IF r.segments = << >> THEN r.total
  ELSE IF r.total < Window \/ reached = 0 THEN r.segments[1].start_sample
  ELSE LET segment == r.segments[reached] IN
       IF EndSample(segment) <= cutoff
       THEN IF reached < Len(r.segments) THEN r.segments[reached + 1].start_sample
            ELSE r.total
       ELSE IF ~segment.complete /\ r.writing THEN cutoff
       ELSE EndSample(segment)

-----------------------------------------------------------------------------
(* push_samples_defer_trim *)

\* The first free name after the last segment's.
NextIndex(r) ==
  LET first == IF r.segments = << >> THEN 0 ELSE Last(r.segments).index + 1
      free  == {i \in first .. first + Cardinality(DOMAIN r.files) :
                  i \notin DOMAIN r.files} IN
  CHOOSE i \in free : \A j \in free : i <= j

\* ensure_current_segment
WithCurrent(r) ==
  IF r.writing THEN r
  ELSE LET index == NextIndex(r) IN
       [r EXCEPT
         !.segments = Append(@, [index |-> index, start_sample |-> r.total,
                                 sample_count |-> 0, complete |-> FALSE]),
         !.files = [i \in DOMAIN @ \cup {index} |->
                      IF i = index THEN [first |-> r.heard, count |-> 0, flushed |-> 0]
                      ELSE @[i]],
         !.writing = TRUE]

\* remaining_in_current_segment, once there is a current segment
Remaining(r) ==
  IF r.writing THEN SegmentSize - Last(r.segments).sample_count ELSE SegmentSize

\* One pass of the loop over a chunk: write_samples_to_current with as much as the
\* segment takes, and close_current_segment if that fills it.
Written(r, count) ==
  LET c    == WithCurrent(r)
      n    == Len(c.segments)
      old  == c.segments[n]
      i    == old.index
      size == old.sample_count + count
      full == size = SegmentSize
      segment == [index |-> i, start_sample |-> old.start_sample,
                  sample_count |-> size, complete |-> full]
      file == [first |-> c.files[i].first, count |-> size,
               flushed |-> IF full THEN size ELSE c.files[i].flushed] IN
  [c EXCEPT !.segments = [@ EXCEPT ![n] = segment], !.files = [@ EXCEPT ![i] = file],
            !.total = @ + count, !.heard = @ + count, !.writing = ~full]

\* The flush of flush() and snapshot().
Flushed(r) ==
  IF r.writing
  THEN LET i == Last(r.segments).index IN [r EXCEPT !.files[i].flushed = r.files[i].count]
  ELSE r

-----------------------------------------------------------------------------
(* trim_expired_segments_except *)

Expired(r) == {k \in DOMAIN r.segments : EndSample(r.segments[k]) <= RetainedStart(r)}

\* The files that may be deleted, by segment.
Removable(r, pinned) == {k \in Expired(r) : r.segments[k].index \notin pinned}

\* Deletes the files of the removable segments before "stop", where one failed.
Trimmed(r, pinned, stop) ==
  LET gone  == {k \in Removable(r, pinned) : k < stop}
      names == {r.segments[k].index : k \in gone}
      kept  == Ascending({k \in DOMAIN r.segments : r.segments[k].index \notin names}) IN
  [r EXCEPT !.segments = [k \in 1..Len(kept) |-> @[kept[k]]],
            !.files = [i \in DOMAIN @ \ names |-> @[i]]]

\* The whole inventory: no removal fails.
NoFailure(r) == Len(r.segments) + 1

-----------------------------------------------------------------------------
(* recover_latest_or_start *)

\* What a crash may leave: of the buffered samples any prefix is in the file.
Torn(r) ==
  IF r.writing
  THEN LET i == Last(r.segments).index IN
       {[r.files EXCEPT ![i].count = n, ![i].flushed = n] :
          n \in r.files[i].flushed .. r.files[i].count}
  ELSE {r.files}

\* The files that hold anything, by index.
InOrder(files) == Ascending({i \in DOMAIN files : files[i].count > 0})

\* Where each of them begins, and at last where the end of the recording is.
Positions(files, order) ==
  LET position[k \in 0..Len(order)] ==
        IF k = 0 THEN 0 ELSE position[k - 1] + files[order[k]].count IN
  position

\* Every file becomes a complete segment, numbered on from zero.
Recovered(files, heard) ==
  LET order    == InOrder(files)
      position == Positions(files, order)
      all == [segments |-> [k \in 1..Len(order) |->
                [index |-> order[k], start_sample |-> position[k - 1],
                 sample_count |-> files[order[k]].count, complete |-> TRUE]],
              files |-> files, total |-> position[Len(order)],
              writing |-> FALSE, heard |-> heard] IN
  Trimmed(all, {}, NoFailure(all))

=============================================================================
