---------------------------- MODULE RecorderWorker ----------------------------
(***************************************************************************)
(* echoclip_core::RecorderWorker: the thread that owns the recorder and    *)
(* takes its commands from a bounded queue, the threads it spawns for      *)
(* exports, and the callers of its public methods.                         *)
(*                                                                         *)
(* The parties share, each under a lock of its own or as an atomic, the    *)
(* pins, the jobs, their cancel flags, the number of active exports and    *)
(* the published status.  A step of an action is what happens between two  *)
(* points where another thread can see or change one of these.             *)
(*                                                                         *)
(* stop takes the worker exclusively (&mut self), so no public method is   *)
(* under way when it begins; exports go on after it.  Left out are flush   *)
(* and read_range, which only lessen what a crash may lose, the notices of *)
(* commits and the pruning of old finished jobs.                           *)
(***************************************************************************)
EXTENDS SegmentedRecorder

CONSTANTS
  None,
  Job,          \* the ids of export jobs, given in ascending order (next_job_id)
  Chunk,        \* the sizes of the chunks capture pushes
  Latest,       \* the lengths of the clips asked for with save_latest
  Capacity,     \* queue_capacity_chunks
  MaxHeard,     \* bound on the samples recorded
  FaultKinds,   \* the faults that may occur, of "crash", "remove" and "export"
  MaxFaults     \* bound on their number

ASSUME RecorderWorkerConstants ==
  /\ None \notin Nat /\ Job \subseteq Nat
  /\ Chunk \subseteq Nat \ {0} /\ Latest \subseteq Nat
  /\ Capacity \in Nat \ {0} /\ MaxHeard \in Nat /\ MaxFaults \in Nat

VARIABLES
  queue,    \* the commands in the channel
  worker,   \* where the worker thread is in a command
  status,   \* SharedWorkerStatus
  jobs,     \* export_jobs: the state of each job
  flags,    \* cancel_flags: whether the job is canceled, while it has a flag
  sending,  \* what is asked for by enqueue_exports that have not sent it yet
  pins,     \* pinned_segments: how often each file is pinned
  active,   \* active_exports
  exports,  \* the export threads
  outputs,  \* the jobs whose output file exists
  stopped,  \* the flag that stop sets
  faults    \* how many faults have occurred

callerVars == <<sending, stopped>>
vars == <<recorder, queue, worker, status, jobs, flags, callerVars, pins, active,
          exports, outputs, faults>>

JobState == {"pending", "running", "finished", "failed", "canceled"}
Terminal == {"finished", "failed", "canceled"}

\* save_latest asks for a number of samples, save_range for positions.
Request == [kind : {"latest"}, length : Nat] \cup [kind : {"range"}, from : Nat, to : Nat]

Command == [kind : {"push"}, count : Nat] \cup [kind : {"save"}, job : Job, want : Request]
           \cup [kind : {"trim", "stop"}]

\* at: the loop waits ("idle"), has samples of a chunk left to write ("write"), is
\* about to write the status it has computed ("publish") or to spawn an export
\* ("spawn"), or has ended ("gone").
IdleWorker == [at |-> "idle", left |-> 0, seen |-> 0, job |-> None]

StatusOf(r, count) ==
  [retained |-> RetainedStart(r), total |-> r.total, active |-> count]

Fault(kind) ==
  /\ kind \in FaultKinds /\ faults < MaxFaults
  /\ faults' = faults + 1

-----------------------------------------------------------------------------
(* The public methods *)

With(f, x, y) == [z \in DOMAIN f \cup {x} |-> IF z = x THEN y ELSE f[z]]

Without(f, x) == [y \in DOMAIN f \ {x} |-> f[y]]

HasRoom == Len(queue) < Capacity

\* push_samples: a full queue drops the chunk.
PushSamples(count) ==
  /\ ~stopped /\ recorder.heard + count <= MaxHeard
  /\ HasRoom
  /\ queue' = Append(queue, [kind |-> "push", count |-> count])
  /\ UNCHANGED <<recorder, worker, status, jobs, flags, callerVars, pins, active, exports,
                 outputs, faults>>

\* A range is chosen from a published window, which may be old by now.
Requests ==
  [kind : {"latest"}, length : Latest]
  \cup {[kind |-> "range", from |-> from, to |-> status.total] :
          from \in {status.retained} \cap 0 .. status.total - 1}

\* enqueue_export up to its send
EnqueueExport(job, want) ==
  /\ ~stopped /\ job \notin DOMAIN jobs
  /\ \A other \in Job : other < job => other \in DOMAIN jobs
  /\ flags' = With(flags, job, FALSE)
  /\ jobs' = With(jobs, job, "pending")
  /\ sending' = With(sending, job, want)
  /\ UNCHANGED <<recorder, queue, worker, status, stopped, pins, active, exports, outputs,
                 faults>>

SendExport(job) ==
  /\ job \in DOMAIN sending /\ HasRoom
  /\ queue' = Append(queue, [kind |-> "save", job |-> job, want |-> sending[job]])
  /\ sending' = Without(sending, job)
  /\ UNCHANGED <<recorder, worker, status, jobs, flags, stopped, pins, active, exports,
                 outputs, faults>>

\* A pending job is settled at once, although its command is on its way.
CancelExport(job) ==
  /\ ~stopped /\ job \in DOMAIN flags /\ ~flags[job]
  /\ flags' = [flags EXCEPT ![job] = TRUE]
  /\ jobs' = [jobs EXCEPT ![job] = IF @ = "pending" THEN "canceled" ELSE @]
  /\ UNCHANGED <<recorder, queue, worker, status, callerVars, pins,
                 active, exports, outputs, faults>>

\* stop: its send waits for room, and it joins the worker.
Stop ==
  /\ ~stopped /\ sending = << >>
  /\ HasRoom
  /\ stopped' = TRUE
  /\ queue' = Append(queue, [kind |-> "stop"])
  /\ UNCHANGED <<recorder, worker, status, jobs, flags, sending,
                 pins, active, exports, outputs, faults>>

-----------------------------------------------------------------------------
(* recorder_worker_loop *)

Next1 == Head(queue)

Receives(kind) ==
  /\ worker.at = "idle" /\ queue # << >> /\ Next1.kind = kind
  /\ queue' = Tail(queue)

\* update_worker_status counts the active exports before it takes the lock.
WillPublish(job) == worker' = [IdleWorker EXCEPT !.at = "publish", !.seen = active, !.job = job]

\* The deletion of a file may fail, which ends the trim.
Trims(r) ==
  \/ recorder' = Trimmed(r, DOMAIN pins, NoFailure(r)) /\ UNCHANGED faults
  \/ \E stop \in Removable(r, DOMAIN pins) :
       recorder' = Trimmed(r, DOMAIN pins, stop) /\ Fault("remove")

Smaller(a, b) == IF a < b THEN a ELSE b

Writes(count) ==
  LET piece == Smaller(count, Remaining(recorder)) IN
  /\ recorder' = Written(recorder, piece)
  /\ worker' = [IdleWorker EXCEPT !.at = "write", !.left = count - piece]
  /\ UNCHANGED <<status, jobs, flags, callerVars, pins, active, exports, outputs, faults>>

Push == Receives("push") /\ Writes(Next1.count)

PushRest ==
  /\ worker.at = "write" /\ worker.left > 0
  /\ Writes(worker.left)
  /\ UNCHANGED queue

\* The end of a push: only then the retention is applied.
PushTrim ==
  /\ worker.at = "write" /\ worker.left = 0
  /\ Trims(recorder)
  /\ WillPublish(None)
  /\ UNCHANGED <<queue, status, jobs, flags, callerVars, pins, active, exports, outputs>>

Trim ==
  /\ Receives("trim")
  /\ Trims(recorder)
  /\ WillPublish(None)
  /\ UNCHANGED <<status, jobs, flags, callerVars, pins, active, exports,
                 outputs>>

Overlapping(segments, from, to) ==
  {segment \in segments : segment.start_sample < to /\ EndSample(segment) > from}

IsAvailable(want, r) ==
  want.kind = "range" => RetainedStart(r) <= want.from /\ want.to <= r.total

Larger(a, b) == IF a > b THEN a ELSE b

\* The snapshot for a job and what the clip takes from it: all segments and the
\* youngest samples, or a range and the segments it meets.
NewExport(want, r) ==
  LET all  == {r.segments[k] : k \in DOMAIN r.segments}
      from == IF want.kind = "range" THEN want.from
              ELSE Larger(RetainedStart(r), r.total - want.length)
      to   == IF want.kind = "range" THEN want.to ELSE r.total IN
  [at |-> "spawn", from |-> from, to |-> to, result |-> None, remaining |-> 0,
   segments |-> IF want.kind = "range" THEN Overlapping(all, from, to) ELSE all]

FilesOf(export) == {segment.index : segment \in export.segments}

\* Mutant of Pinned: a file that is pinned already is not counted again.
PinnedOnce(files) ==
  [i \in DOMAIN pins \cup files |-> IF i \in DOMAIN pins THEN pins[i] ELSE 1]

\* pin_snapshot_segments
Pinned(files) ==
  [i \in DOMAIN pins \cup files |->
     (IF i \in DOMAIN pins THEN pins[i] ELSE 0) + (IF i \in files THEN 1 ELSE 0)]

\* SaveLatest up to update_worker_status.  Also the snapshot of a range that has
\* expired meanwhile flushes.
Save ==
  /\ Receives("save")
  /\ LET job == Next1.job
         r   == Flushed(recorder) IN
     /\ recorder' = r
     /\ IF IsAvailable(Next1.want, r)
        THEN LET export == NewExport(Next1.want, r) IN
             /\ pins' = Pinned(FilesOf(export))
             /\ exports' = With(exports, job, export)
        ELSE UNCHANGED <<pins, exports>>
     /\ WillPublish(job)
  /\ UNCHANGED <<status, jobs, flags, callerVars, active, outputs, faults>>

Publish ==
  /\ worker.at = "publish"
  /\ status' = StatusOf(recorder, worker.seen)
  /\ worker' = IF worker.job = None THEN IdleWorker ELSE [worker EXCEPT !.at = "spawn"]
  /\ UNCHANGED <<recorder, queue, jobs, flags, callerVars, pins, active,
                 exports, outputs, faults>>

\* Mutant of Spawn: nobody tells the job that its range has expired.
SpawnAvailable ==
  /\ worker.at = "spawn"
  /\ LET job == worker.job IN
     IF job \in DOMAIN exports
     THEN /\ active' = active + 1
          /\ jobs' = [jobs EXCEPT ![job] = "running"]
          /\ exports' = [exports EXCEPT ![job].at = "begin"]
     ELSE UNCHANGED <<active, jobs, exports>>
  /\ worker' = IdleWorker
  /\ UNCHANGED <<recorder, queue, status, flags, callerVars, pins,
                 outputs, faults>>

\* spawn_export_job, or the failure of a job whose range has expired.
Spawn ==
  /\ worker.at = "spawn"
  /\ LET job == worker.job IN
     IF job \in DOMAIN exports
     THEN /\ active' = active + 1
          /\ jobs' = [jobs EXCEPT ![job] = "running"]
          /\ exports' = [exports EXCEPT ![job].at = "begin"]
     ELSE /\ jobs' = [jobs EXCEPT ![job] = "failed"]
          /\ UNCHANGED <<active, exports>>
  /\ worker' = IdleWorker
  /\ UNCHANGED <<recorder, queue, status, flags, callerVars, pins,
                 outputs, faults>>

\* What is behind Stop in the channel is dropped with it.
Leave ==
  /\ Receives("stop")
  /\ recorder' = Flushed(recorder)
  /\ worker' = [IdleWorker EXCEPT !.at = "gone"]
  /\ UNCHANGED <<status, jobs, flags, callerVars, pins, active, exports,
                 outputs, faults>>

-----------------------------------------------------------------------------
(* The threads of spawn_export_job *)

At(job, place) == job \in DOMAIN exports /\ exports[job].at = place

Goes(job, place) == exports' = [exports EXCEPT ![job].at = place]

IsEmptyClip(job) == exports[job].to <= exports[job].from

IsCanceled(job) == job \in DOMAIN flags /\ flags[job]

\* save_range_by_sample_with_options before it creates the file
Begin(job) ==
  /\ At(job, "begin")
  /\ exports' = [exports EXCEPT
       ![job].at = IF IsEmptyClip(job) \/ IsCanceled(job) THEN "retire" ELSE "copy",
       ![job].result = IF IsEmptyClip(job) THEN "failed"
                       ELSE IF IsCanceled(job) THEN "canceled" ELSE None]
  /\ outputs' = IF IsEmptyClip(job) \/ IsCanceled(job) THEN outputs ELSE outputs \cup {job}
  /\ UNCHANGED <<recorder, queue, worker, status, jobs, flags, callerVars,
                 pins, active, faults>>

\* The files are opened by name, one after the other, and the flag is looked at
\* now and then.
IsReadable(segment) ==
  /\ segment.index \in DOMAIN recorder.files
  /\ recorder.files[segment.index].flushed >= segment.sample_count

Needed(job) == Overlapping(exports[job].segments, exports[job].from, exports[job].to)

Copy(job, result) ==
  /\ At(job, "copy")
  /\ LET isWhole == \A segment \in Needed(job) : IsReadable(segment) IN
     /\ result = "finished" => isWhole
     /\ result = "canceled" => IsCanceled(job)
     /\ IF result = "failed" /\ isWhole THEN Fault("export") ELSE UNCHANGED faults
  /\ exports' = [exports EXCEPT ![job].at = "retire", ![job].result = result]
  /\ UNCHANGED <<recorder, queue, worker, status, jobs, flags, callerVars,
                 pins, active, outputs>>

\* Mutant of Unpinned: a file whose last pin goes stays in the map.
UnpinnedKept(files) ==
  [i \in DOMAIN pins |-> IF i \in files THEN pins[i] - 1 ELSE pins[i]]

\* unpin_snapshot_segments
Unpinned(files) ==
  LET left == {i \in DOMAIN pins : i \notin files \/ pins[i] > 1} IN
  [i \in left |-> IF i \in files THEN pins[i] - 1 ELSE pins[i]]

Retire(job) ==
  /\ At(job, "retire")
  /\ active' = active - 1
  /\ exports' = [exports EXCEPT ![job].at = "release", ![job].remaining = active - 1]
  /\ UNCHANGED <<recorder, queue, worker, status, jobs, flags, callerVars,
                 pins, outputs, faults>>

Release(job) ==
  /\ At(job, "release")
  /\ pins' = Unpinned(FilesOf(exports[job]))
  /\ flags' = Without(flags, job)
  /\ exports' = [exports EXCEPT ![job].at = "settle", ![job].segments = {}]
  /\ UNCHANGED <<recorder, queue, worker, status, jobs, callerVars, active,
                 outputs, faults>>

\* Mutant of OutputAfter: only a canceled export removes its file.
OutputAfterCancel(job, result) ==
  IF result = "canceled" THEN outputs \ {job} ELSE outputs

\* An export that did not finish removes its file before the job says so.
OutputAfter(job, result) == IF result = "finished" THEN outputs ELSE outputs \ {job}

\* The job is settled before the status is written; nothing any other thread does
\* depends on which of the two it finds done.
Settle(job) ==
  /\ At(job, "settle")
  /\ jobs' = [jobs EXCEPT ![job] = exports[job].result]
  /\ outputs' = OutputAfter(job, exports[job].result)
  /\ status' = [status EXCEPT !.active = exports[job].remaining]
  /\ Goes(job, "trim")
  /\ UNCHANGED <<recorder, queue, worker, flags, callerVars, pins, active, faults>>

\* Mutant of AskTrim: the retention waits for the next chunk.
AskTrimNever == UNCHANGED queue

\* The last thing the thread does is to ask for a trim; its send waits for room,
\* or fails when the worker is gone.
AskTrim ==
  IF worker.at = "gone" THEN UNCHANGED queue
  ELSE HasRoom /\ queue' = Append(queue, [kind |-> "trim"])

End(job) ==
  /\ At(job, "trim")
  /\ AskTrim
  /\ exports' = Without(exports, job)
  /\ UNCHANGED <<recorder, worker, status, jobs, flags, callerVars, pins,
                 active, outputs, faults>>

-----------------------------------------------------------------------------
(* The process *)

Fresh(r) ==
  /\ recorder' = r
  /\ queue' = << >> /\ worker' = IdleWorker /\ status' = StatusOf(r, 0)
  /\ jobs' = << >> /\ flags' = << >>
  /\ sending' = << >>
  /\ pins' = << >> /\ active' = 0 /\ exports' = << >> /\ stopped' = FALSE

\* The process dies and starts again; unfinished outputs lie about.  A new worker in
\* the same process, after stop, is the case in which the buffer was written.
Crash ==
  /\ Fault("crash")
  /\ \E files \in Torn(recorder) : Fresh(Recovered(files, recorder.heard))
  /\ outputs' = {}

Init ==
  /\ recorder = EmptyRecorder
  /\ queue = << >> /\ worker = IdleWorker /\ status = StatusOf(EmptyRecorder, 0)
  /\ jobs = << >> /\ flags = << >>
  /\ sending = << >>
  /\ pins = << >> /\ active = 0 /\ exports = << >> /\ outputs = {}
  /\ stopped = FALSE /\ faults = 0

WorkerStep == Push \/ PushRest \/ PushTrim \/ Trim \/ Save \/ Publish \/ Spawn \/ Leave

ExportStep(job) ==
  \/ Begin(job) \/ Retire(job) \/ Release(job) \/ Settle(job) \/ End(job)
  \/ \E result \in Terminal : Copy(job, result)

Next ==
  \/ \E count \in Chunk : PushSamples(count)
  \/ Stop
  \/ \E job \in Job :
       \/ \E want \in Requests : EnqueueExport(job, want)
       \/ SendExport(job) \/ CancelExport(job)
       \/ ExportStep(job)
  \/ WorkerStep
  \/ Crash

Spec == Init /\ [][Next]_vars

-----------------------------------------------------------------------------
(* Properties *)

\* Every variable has its type, the counters included: the number of active
\* exports is unsigned and must not pass below zero, and a file is in the map of pins
\* only as long as an export needs it.
TypeOK ==
  /\ IsRecorder(recorder)
  /\ queue \in Seq(Command) /\ Len(queue) <= Capacity
  /\ worker \in [at : {"idle", "write", "publish", "spawn", "gone"},
                 left : Nat, seen : Nat, job : Job \cup {None}]
  /\ status \in [retained : Nat, total : Nat, active : Nat]
  /\ DOMAIN jobs \subseteq Job /\ \A job \in DOMAIN jobs : jobs[job] \in JobState
  /\ DOMAIN flags \subseteq DOMAIN jobs /\ \A job \in DOMAIN flags : flags[job] \in BOOLEAN
  /\ DOMAIN sending \subseteq DOMAIN jobs
  /\ \A job \in DOMAIN sending : sending[job] \in Request
  /\ active \in Nat /\ stopped \in BOOLEAN
  /\ \A i \in DOMAIN pins : pins[i] \in Nat \ {0}
  /\ DOMAIN exports \subseteq DOMAIN jobs /\ outputs \subseteq DOMAIN jobs
  /\ faults \in 0 .. MaxFaults

Covers(segments, from, to) ==
  \A p \in from .. to - 1 :
    \E segment \in segments : segment.start_sample <= p /\ p < EndSample(segment)

\* From the moment it is pinned until it has been read, every segment a clip needs
\* is there, has left the writer's buffer and leaves no hole, whatever the worker
\* records, trims or exports meanwhile (pin_snapshot_segments before the spawn,
\* the counted pins, the flush in snapshot).
ClipsAreWhole ==
  \A job \in DOMAIN exports :
    exports[job].at \in {"spawn", "begin", "copy"} =>
      /\ Covers(exports[job].segments, exports[job].from, exports[job].to)
      /\ \A segment \in Needed(job) : IsReadable(segment)

\* The buffer the recorder reports has no hole, not even while exports keep some of
\* the expired files (the comments in retained_start_sample), and is no longer
\* than max_replay_seconds.
WindowIsWhole ==
  LET live == {recorder.segments[k] : k \in DOMAIN recorder.segments} IN
  /\ Covers(live, RetainedStart(recorder), recorder.total)
  /\ \A segment \in live : segment.index \in DOMAIN recorder.files
  /\ recorder.total - RetainedStart(recorder) <= Window

\* The audio of two positions is in the order it was recorded in, also after a
\* recovery has numbered what the directory holds anew.
AudioInOrder ==
  \A k, l \in DOMAIN recorder.segments : k < l =>
    LET before == recorder.segments[k]
        after  == recorder.segments[l] IN
    /\ EndSample(before) <= after.start_sample
    /\ recorder.files[before.index].first + before.sample_count
         <= recorder.files[after.index].first

\* Neither the buffer nor a clip of it has a hole or audio out of order.
AudioIsWhole == ClipsAreWhole /\ WindowIsWhole /\ AudioInOrder

\* The worker is between two commands and nobody has one for it.
Quiet ==
  /\ worker.at = "idle" /\ queue = << >>
  /\ sending = << >> /\ exports = << >>

\* When all is quiet the status is the truth.  Exports write the number of the
\* others without a common lock and in any order; the trim that each asks for at
\* its end is what puts the last word right.
StatusSettles == Quiet => active = 0 /\ status = StatusOf(recorder, active)

\* When all is quiet no expired file is left, although pins may have kept it when
\* it expired; unless a file could not be deleted.
ExpiredIsRemoved == Quiet /\ faults = 0 => Expired(recorder) = {} /\ pins = << >>

\* A job that says it failed or was canceled has no output file, one that says it
\* finished has one, whenever the user asks.
OutputMatchesState ==
  \A job \in DOMAIN jobs :
    /\ jobs[job] \in {"failed", "canceled"} => job \notin outputs
    /\ jobs[job] = "finished" => job \in outputs

\* As long as the process lives, the window only moves forward: what has been
\* reported as expired is never offered again, so that a caller who clamps a range
\* to an older window gets an error rather than other audio.
NeverRewinds ==
  [][Crash
     \/ /\ recorder'.total >= recorder.total
        /\ RetainedStart(recorder') >= RetainedStart(recorder)]_vars

\* When all is quiet every export has ended and holds nothing: not only the one that
\* was copied, also the one that was canceled before its command was looked at, and
\* the one whose range had expired by then.
JobsSettle ==
  Quiet => \A job \in DOMAIN jobs : jobs[job] \in Terminal

\* When all is quiet, the status and the jobs have said their last word.
ReportsSettle == StatusSettles /\ JobsSettle

=============================================================================
