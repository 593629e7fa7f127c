# A TLA+ model of EchoClip

EchoClip keeps the last minutes of what a device hears in a rolling buffer of
PCM segments, saves clips out of it, uploads it in real time to a server that
appends every upload to one global cache, and runs one-shot scheduled tasks. This
directory holds TLA+ modules of the parts of it that are concurrent or must
survive a failure, configurations that check them with TLC, and proofs that TLAPS
checks. Paths below are relative to the repository root; `core`, `sync_client`,
`sync_protocol`, `server`, `windows_ffi` and `android_jni` are the crates of that name
under `crates/echoclip_*`.

    tlc -workers 2 -config MCUploadSync_safety.cfg MCUploadSync.tla
    tlapm Service_proofs.tla

`PROJECT.json` ties it together: the components, the runs with their properties,
for each property a mutation of the model that breaks it, the source lines each
definition stands for, the findings, the hazards and the theorems.

## 1. Inventory

### Parts that are modelled

**Encrypted envelope and epochs** (`server/src/main.rs`: `challenge`,
`process_envelope`). *State*: the epoch map; per epoch an expiry, the expected
sequence number and the last message with its cached answer. *Operations*: challenge,
sweep, process one envelope: handle the next message, repeat the cached answer for an
identical retransmission, refuse anything else. *Hard*: two copies of one envelope
race; a copy arrives after its sender has moved to another epoch; an epoch is swept
between its look-up and its lock. *Correct if* a message takes effect at most once,
only in an epoch the table holds, and client and server never disagree on the sequence
by more than the message under way.

**Admission and upload key** (`server/src/main.rs`: `enter_upload_request`,
`reset_upload_key`). *State*: rate windows and in-flight counts per address; the
credentials behind a read-write lock; the key file. *Operations*: admit or refuse,
drop the guard with the handler, load the key, replace it. *Hard*: a reset comes in
while challenges and envelopes are under way; the replacement fails or the process
dies between file and memory; three kinds of lock. *Correct if* the old key is void at
once, the key in memory is the one a restart loads, no requests wait for each other,
and the count is that of the open connections.

**Service loop** (`server/src/main.rs`: `run_service_loop`, `serve_once`,
`request_control`). *State*: the turn of the loop; each turn makes credentials, table
and StreamManager anew. *Hard*: a request on a blocking thread outlives its connection,
and with it the turn it belongs to.

**StreamManager** (`server/src/main.rs`). *State*: upload sessions by stream id, the
active stream, the cache metadata, a `SegmentedRecorder` that holds the global
cache; `cache.json` and `upload-sessions.json`. *Operations*: `open_or_resume`,
`push_pcm`, `close_stream`, `mark_incomplete`, `create_cache`, `load_cache`. *Hard*: an
Open cuts the active stream off while its messages are still queued; a crash in
or between the writes of PCM and JSON; a write that fails after memory has
changed; recovery renumbers the cache. *Correct if* there is one writer at a time,
on disk as in memory, every stream owns one contiguous part of the cache, and the
position it offers on a resume never loses or doubles a sample.

**Upload client** (`sync_client/src/lib.rs`). *State*: the activation (start sample,
format), the logical stream suffix, the session (epoch, sequence, stream, next
sample), a stop flag. *Operations*: `upload_loop` (reconnect and back-off),
`establish_session`, `sync_available`, an exchange of two attempts with the same
envelope, `stop` with its 250 ms deadline, the Close at the end. *Hard*: a position
read before two exchanges and used after them; activations that overlap; a stop in
the middle of any exchange. *Correct if* it sends only what was recorded since it
was turned on, catches up after a failure, and ends when told to.

**Wire protocol** (`sync_protocol`). The messages and responses the two share. Framing
and sealing deliver what was sealed or nothing; that is assumed.

**Segmented recorder** (`core/src/lib.rs`). *State*: the total of samples, the list of
segments with their index and start sample, the PCM files, the current segment and
its buffered bytes. *Operations*: push (in chunks that end at segment boundaries),
flush, trim with a set of pinned files, snapshot, recovery. *Hard*: retention while
exports pin files in the middle of the list; a deletion that fails halfway; recovery
from files in an arbitrary order with a torn tail. *Correct if* the reported window
has no hole, moves only forward, and positions follow the recorded order.

**Recorder worker and export jobs** (`core/src/lib.rs`). *State*: a bounded command
queue, a published status, jobs, cancel flags, counted pins, the number of active
exports. *Operations*: `push_samples` (drops when the queue is full), `enqueue_export`,
`cancel_export`, `stop`, the worker's commands, one thread per export. *Hard*: every
one of those is under a lock of its own; a cancel races the command it cancels; two
exports end at once; an export outlives the recorder's window. *Correct if* no file of
a clip goes before it has been read, and when all is quiet the status, the jobs, the
pins, the outputs and the files agree.

**Windows recorder** (`windows_ffi/src/lib.rs`, `windows_replay_service.dart`).
*State*: three slots, each behind a lock of its own (recorder worker, capture thread,
upload client), and flags without one. *Operations*: start, stop, configure, clear,
save, upload on and off, called by the UI isolate (one at a time, `_runExclusive`), by
helper isolates, by scheduled actions; `ec_destroy`. *Hard*: any two of them at any point,
and the destruction in the middle of all. *Correct if* nothing is left running when
`ec_destroy` has returned, it always returns, and there is one recording at a time.

**Scheduler** (`core/src/scheduler.rs`). *State*: tasks with a revision, a trigger and a
state; the history of executions; `state-v1.json`. *Operations*: upsert, set_enabled,
delete, tick, complete_execution, open with `reconcile_interrupted`, pruning. *Hard*: the
write is the last thing an operation does and may fail or kill the process;
an edit races an execution. *Correct if* one revision is executed at most once, what
is executed is on disk first, and nothing stays running that is not.

**Scheduler thread** (`windows_ffi/src/lib.rs`). *State*: the thread's place in its loop,
its channel, the shutdown flag. *Operations*: sleep until the next due time or a wake-up,
tick, execute, complete; editor calls; create and destroy. *Hard*: a wake-up between
the look at the schedule and the wait; a shutdown during an execution. *Correct if* no
due task is missed and a shutdown settles what it began.

**Schedule coordinator** (`ScheduleCoordinator.kt`, `ScheduleAlarmReceiver` and the
execution threads of `ReplayForegroundService.kt`; `with_scheduler` in `android_jni`).
*State*: one system alarm; per thread the executions it has still to do. *Operations*:
edit, alarm goes off, execute, boot and permission broadcasts; each ends by setting the
alarm from a snapshot. *Hard*: the alarm is set outside the scheduler's lock, so from an
older snapshot; a process dies with its alarm used up; the system refuses to start the
service. *Correct if* every execution is on one thread's list until it is reported, and
the alarm is at the next due time.

### Parts that are not modelled

| Part | Why |
| --- | --- |
| Recording library and exports (server) | each operation is one request on files under directory names; a file that retention deletes while it is copied fails that request |
| HTTP pages and library calls (server) | they hand requests to the StreamManager and the library |
| Audio callbacks, timeline mixer, power requests (Windows) | sample arithmetic and system calls |
| Windows startup registration | one registry entry |
| Recorder calls of the Android JNI bridge | a handle table without state of its own |
| Android service life, capture, save jobs | `stopSelf` and what the system does after it; the jobs are those of the core |
| Android storage, sharing, activity | platform I/O |
| Flutter pages, and services other than `_runExclusive` | adapters and presentation |
| Presets, names, startup templates of the scheduler | they change no task |
| Build, installer, deployment | nothing that runs in the program |

### How the parts interact

Capture pushes samples into the recorder worker's queue. The upload thread reads
totals and ranges of that recorder through its status and sends them as messages; the
server admits a request, checks key and epoch under their locks, and hands the message
to its StreamManager, which owns another `SegmentedRecorder`. A status poll and the
exports read the recorder beside its worker. On Windows a thread, on Android an alarm
ticks the scheduler, executes what it is handed (recording, upload switch, export) and
reports the outcome back; the editor changes the same scheduler from other threads and
wakes the thread through a channel, or sets the alarm anew.

## 2. Modules

| Module | Stands for | Composed of |
| --- | --- | --- |
| `UploadServer` | epochs and StreamManager; an environment that may send anything | |
| `UploadSync` | upload threads, local recorder, network and that server | extends `UploadServer` |
| `UploadLog` | what an upload promises: a log with one writer at a time, appended in order | implemented by `UploadSync` |
| `Service` | admission, the locks of a request, the key and its file, the service loop | |
| `SegmentedRecorder` | the recorder as operators on a record of segments and files | |
| `RecorderWorker` | worker thread, queue, exports, callers | extends `SegmentedRecorder` |
| `WindowsRecorder` | the slots of a Windows recorder and all that works on them | |
| `Scheduler` | the scheduler and its file | |
| `SchedulerThread` | the Windows thread, editor, shutdown and restart | extends `Scheduler` |
| `ScheduleCoordinator` | the Android alarm, broadcasts and execution threads | extends `Scheduler`, implements it |
| `*_proofs` | the proofs about the module of that name | extends it |
| `MC*` | small constants for TLC | |

**UploadServer.** One action is one request: `open_lock` orders the handlers and the
epoch's mutex the envelopes of an epoch, so nothing can be seen between. `Answer`
and `Respond` are the two ways out of `process_envelope` (without and with a new
cached answer). A sample is the pair of the uploader and its position in that
uploader's recording; audio itself does not matter. The cache is every sample ever
appended, with two marks: `dropped`, what retention has deleted, and `origin`, what
recovery no longer counts: `recover_latest_or_start` numbers what is left from zero,
while the sessions keep the positions they had. Which whole segments retention has
deleted depends on segment boundaries; any amount outside the window is allowed. A
failed JSON write (`SaveSessions`) leaves memory changed and the file as it was, or gone
when the rename is what failed; a crash may come between requests, after part of a chunk is
on disk, or between the removal of a JSON file and the rename that replaces it.

The recorder answers with what it has counted (`counted`), which need not be what its
files hold. A failed append has one of these ends, chosen freely: a segment file cannot be
created or a manifest not be written, and what is counted is stored (`AppendPart`, fault
"storage"); the chunk is counted but its end is only in the BufWriter (`LeaveUnflushed`), where it
stays until a later flush succeeds (`StayUnflushed`) or a crash loses it; a write that failed midway
leaves samples in the file that nobody counts, or a segment whose last flush failed is dropped
with samples that are counted (`Miscount`). The last three are the fault "pcm".

**UploadSync.** Each member of `Client` is one activation of the upload switch. The steps
of a thread are separated where another party can act: at each exchange, and between
reading the recorder's total and using it. `requests` holds the copies of envelopes that
may still reach the server, in any order and however late. A lost link is established
again at once: the back-off is time, which the model leaves out.

**Service.** One action is what a request does between two points where it takes a
lock: of the credentials (`readers`, `writer`), of the epoch table, of one epoch. What a
message does to the streams is `UploadServer`'s; here it is handled or refused. All that
one turn of the service loop makes is indexed by the turn, so a request that outlived
its connection can be seen working on its own, former server. A sweep looks at the
epochs one by one, waiting for those that are locked.

**SegmentedRecorder and RecorderWorker.** The recorder is a value and its operations
are operators; a file remembers where in what was heard its audio comes from, so that a
property can tell whether positions still follow it. A step of a `RecorderWorker` action
is what happens between two points where another thread can see a lock's contents. The
trim after a push, the flush in a snapshot and the publication of the status are steps
of the worker in the order of the code.

**WindowsRecorder.** A call is the list of the steps it has still to do; what the code
decides on the way (a start that finds a thread, a clear that must restart the upload)
changes the list. A step ends where a lock is taken or given back or an unguarded flag
is read or written. Callers are the UI isolate, a helper isolate, the scheduler thread and
the one that calls `ec_destroy`. A capture thread may panic wherever it is, the scheduler thread
between two actions; who joins it gets an error, which ends `ec_destroy` early with the handle
already removed, so that only the drop of the recorder (`DropHandle`) ends what is left.

**Scheduler.** An operation computes the state it writes; the write succeeds, fails
or kills the process, and each operation says which state a failure leaves in memory
(`upsert` puts the old one back, `set_enabled`, `delete`, `tick` and `complete_execution`
do not). `Renames` says whether `atomic_replace` is one rename (Unix) or a removal and
a rename (Windows).

**ScheduleCoordinator.** The second half of every call, in which the alarm is set from
the snapshot the core returned, is a step of its own. `overtaken` is a history variable:
the alarm was last set from a snapshot that was no longer true, or was not set, because
the process died before (also when it died with the alarm that had started it), the edit
failed, or the scheduler could not be opened. It says in one bit which states are no fault of
the paths that set the alarm; section 6 says what it hides. An alarm that goes off is used up
at once. Between `startForegroundService` (`HandOut`) and `onStartCommand` the executions are with
the system (`Pending`), and are lost if the process dies.

## 3. Runs

All runs stop on the state space, not on a depth bound. Every bound is a CONSTANT that
appears in a guard.

| Run | Question | Bounds |
| --- | --- | --- |
| `server_faults` | Is the active stream the one open session, in memory and in the file, whatever is sent? | 2 uploaders, 1 epoch, sequence numbers to 3 (a supersession and a message for the superseded stream), 2 faults of every class, failed writes of PCM, segment files, manifests and JSON among them (136,213 states) |
| `sync_safety` | Is a sample ever doubled, or acknowledged and lost? Is what a stream stores contiguous after an append that was cut off? Does the upload catch up, and does a stop end it? | 1 uploader, 3 epochs (two reconnects), 4 samples in chunks of up to 2, 2 faults of network, crash, storage (segment files and manifests), expiry, a recorder that retains everything (102,691 states) |
| `sync_two` | Does the upload implement `UploadLog` when two activations overlap and local retention overtakes them? | 2 uploaders under symmetry, 3 epochs, 2 samples, a window of 1, 1 fault of network or crash (failed appends and expiry concern one client and its stream: `sync_safety`; 1,305,193 states) |
| `service` | Is the old key void at once, is the key in memory on disk, and do requests come to an end? | 3 requests at a time (a challenge that sweeps, an envelope, a reset), 4 in all, a table of 1 epoch, a clock of 2 values that lets an epoch expire, 1 failed write, failed replacement or crash, 1 reboot; envelopes lose their connection |
| `recorder_exports` | Do files, pins, jobs and status agree under exports, cancels, a stop and a fault? | 2 exports, segments of 2, a window of 4, a queue of 1, 8 samples in chunks of 3 (so a chunk ends inside a segment), 1 fault |
| `windows_recorder` | Is nothing left of a recorder that is destroyed while it is worked on, and does the shutdown end? | 1 call of the UI, 1 of a helper, 2 scheduled actions, of every kind, 1 fault (a failed action or a panic; 433,046 states) |
| `scheduler_faults` | Is a revision executed once, and is the file ahead of the action? | 2 tasks, 2 revisions, clock to 3, 1 fault (a failed write, or a crash in or between operations) |
| `scheduler_thread` | Is every due task picked up and settled, on Windows, across a shutdown and a crash? | 2 tasks, a history of 2, clock to 2, 1 crash that may lose the file |
| `schedule_coordinator` | Is every execution on one thread's list, and does every way through a thread leave the alarm at the next task? | 2 tasks, 2 execution threads, clock to 2, 1 crash or reboot (113,215 states) |

The bounds are the smallest that contain the cases the hazards name: two parties where
the code arbitrates between two; one more epoch than reconnects; a chunk that is not a
divisor of a segment; a buffer that rolls over its window more than once while an
export is under way; as many requests as there are kinds of locks. Each property has in
`PROJECT.json` a mutation of the mapped code that the same configuration refutes, so none
holds for want of the interesting case. Several small properties of one question are one
conjunction: `SingleWriters`, `StoredOnce`, `SendsWhatIsNew`, `HandledAsAdmitted`,
`AudioIsWhole`, `ReportsSettle`, `NothingAfterDestroy`, `RunningIsExecuted`.

Symmetry is used only in `sync_two`, beside two properties of steps, `CompleteStreamsStay`
and `ImplementsLog`, which are safety properties and speak of every uploader alike.
Deadlock is not reported where the system may stop: all uploads done, a recorder stopped,
a scheduler shut down. In `service` and `windows_recorder`, where it would be requests or
callers waiting in a circle, `RequestsEnd` and `ShutdownEnds` exclude it.

Three runs are counterexamples, one per finding: `stall`, `overtaken`, `windows_noop`
(section 6).

## 4. Liveness and its fairness

`UploadSync` (`Fairness`): each client's own step is weakly fair, for the operating
system runs its thread. A request the client still waits for is delivered or fails: the
socket has timeouts, and this is only assumed while an exchange is open. An
exchange whose server died with it fails, a challenge of a stopped client fails, and a
copy nobody waits for is lost in the end. A replaced client is stopped, as
`nativeConfigureSync` does right after it has started the new one (the Windows library does
so before). Nothing is assumed of
recording, of faults or of turning the switch; faults are bounded, so that "eventually" is
read as "once they have stopped".

`Service` (`FairSpec`): as long as some request can go on, some request does. Every step
takes a request forward and arrivals are bounded, so this is enough, and nothing is
assumed of who gets a lock. Arrivals, breaks, reboots and time are never forced.

`WindowsRecorder` (`FairSpec`): threads are scheduled; an encoder that was told to cancel
ends, any other may run for ever; a destroyed handle is dropped. The scheduler thread's
action, its report and its exit are one fair step: it is one thread.

`SchedulerThread` (`ThreadSpec`): weak fairness of the thread's steps, which includes that
what it executes returns (an export can be canceled, every other action is a call
that returns); strong fairness of the exit, for the thread may go round its loop until the
shutdown has put `Stop` into its channel, and takes `Stop` before a timeout once it is
there. Nothing is assumed of the clock: `DueTasksFire` speaks of a task whose time has come.
Editor calls, crashes and restarts are never forced.

`ScheduleCoordinator` (`CoordinatorSpec`): weak fairness of each thread's steps. The alarm
goes off under strong fairness, for it needs the main thread, which an editor may keep busy
again and again but not without end. A process that is needed, because an alarm goes off or
a broadcast came in, is started and opens the scheduler. An intent the system has taken is
delivered under the same strong fairness.

`RecorderWorker` has no fairness. A liveness graph of two exports with faults is
beyond five minutes, so what must be true in the end is stated where it must
be true: `ReportsSettle` and `ExpiredIsRemoved` are invariants of the states in
which no thread has anything left to do. They show that whatever order the threads
finish in, the last one leaves the right values; that they do finish is not checked.

## 5. What is proved

Every theorem holds for every value of the constants. The assumptions on them are
`ServerConstants`, `SyncConstants`, `ServiceConstants`, `SchedulerConstants`,
`CoordinatorConstants`, `SegmentedRecorderConstants`, `RecorderWorkerConstants` and
`RecorderConstants` (of `WindowsRecorder`), which say of what kind the constants are and which
TLC evaluates in every run. What a theorem needs beyond them it names itself, and each such hypothesis is one of
these:

| Hypothesis | What it says | Why it is needed |
| --- | --- | --- |
| `NoneIsNoMap`, `NoneIsNoFile`, `NoneIsNoWriter` | `None`, which stands for no file or no writer, is none of the values in its place | It is a model value; the language does not know that it differs from a record |
| `FilesAreWritten` | the JSON files and the PCM of the server are written whole; segment files and manifests may fail | *Torn JSON* and *Unflushed PCM* of section 6, failed JSON writes in section 7 |
| `[](origin = 0)` | recovery never renumbers the cache of the server | *Renumbering* of section 6 |
| `RecorderKeepsAll` | the local window holds all that is recorded | the first limit of section 7: with less, `StoredOnce` is false |
| `WritesSucceed`, `FileSurvives`, `Renames` | no write of the scheduler's file fails; or a failed one leaves the old file | *Unwritten tick* of section 6, the Windows replacement of section 7 |
| `RunsAreRecent`, `RunningIsRecent`, `FileRunningIsRecent` | fewer executions than the history holds have begun since those in question | `prune_history` drops open records too, once they are the oldest |

The last group is a condition on single states, so a theorem with it says the most that is
true: an execution is in the file for as long as pruning cannot have reached it (only
`AlarmFollowsTheSchedule` asks it of the whole behaviour). A crash,
lost and repeated messages, expired epochs, appends that a crash or a missing segment file cuts
off, and restarts are in every theorem about the upload; failed writes of JSON and PCM are in
those that do not ask for `FilesAreWritten`.

**`UploadServer_proofs`**: any clients, epochs, formats and messages, any retention
window, any faults.

* `Invariance`: `Spec => []Inv`, from which the others follow;
* `TypeCorrect`: every variable keeps its type and `origin <= dropped <= Len(cache) - unflushed`;
* `SingleWriter`: the active stream is the one open session;
* `SingleWriterOnDisk`: `upload-sessions.json` never holds two open sessions;
* `SingleWriterThroughout`: both, the property of `server_faults`.

The argument: `OneOpenSession` is not inductive. A restart makes the active stream out of
the file, so it needs the same of the file (`OneOpenSessionOnDisk`), and the file gets its
contents from memory at each successful write, but keeps the contents of an earlier one
at a failed write, so each needs the other. A new stream closes the active one and is the
only open one only if its id is not in the map already, which is why the types
bound every id by `issued`. There is one lemma per handler, with the answer
(`RespondType`), the write (`SaveKeepsFiles`) and the restart (`ReloadStep`) shared by all.

* `StreamsStayContiguous`: each stream owns one contiguous part of the cache, whatever is
  sent, while JSON and PCM are written and the cache is not renumbered.

`StreamsAreContiguous` says nothing of where the next sample goes, so the invariant is a
`Ledger`: streams begin in the order of their ids, only the last can be open, and sample
`n` between the start of a stream and that of the next is the one the stream counts as
`n`. Every message does one of four things to it (`StreamEffect`): nothing, open a stream at
the end, append where the last one stands, or end one. A restart cuts the open stream at
what was written, and `Saved` says that the file names the same streams.

**`UploadSync_proofs`**: any number of clients, each with its connection, copies, retries and
stop, any epochs and faults.

* `SyncTypesStay`; `SequencesStayInStep`: client and server never disagree on a sequence
  number by more than the message under way; `SendsStayNew`: no PCM message is empty or holds
  what was recorded before its upload was turned on; `SyncSingleWriters`;
* `AcknowledgedIsStored`: what the server has acknowledged is in the cache;
  `AcknowledgedStreamsAreSaved`: and its stream is in the file a restart reads;
* `SyncStreamsStayContiguous`, `CompleteStreamsStayWhole`: the streams of the real clients,
  in memory and when they are closed as complete;
* `PositionsStandOrRise`: no step moves the position the server offers backwards;
  `CompleteStreamsAreSettled`: no step opens a complete stream again or cuts it off.

The first five follow from `SyncInv`, which needs no hypothesis. A client does not know
whether its last message was handled, so `SequencesInStep` is true only because nobody else
can move the epoch: `EpochsInUse` says that every epoch has one user and every message in it
is one of his, at his sequence number or an earlier one. `Owners` says the same of streams, for
a stream id in a message, an answer, a cached answer or the file belongs to the client it was
given to; and `SamplesAreNew` and `Fresh` follow a gap, after which a call goes on with bounds it
had read before it reconnected, into a logical stream the server has not seen.

The others follow from `UploadInv`, under `FilesAreWritten` and `[](origin = 0)`. Its idea is one
predicate, `Reaches`: every stream that anything still in use names (a link, a message and its
copy, an answer, the answer an epoch would repeat) is there, and stands at or beyond the
position that was named. It is inductive together with `Rises`, by which positions
never fall, the restart included: what was acknowledged was written before. The hard part
is completeness. A late copy of a `MarkIncomplete` must not reach a stream that is closed, so
the invariant has `NotBoth` (no stream has a Close and a Mark under way), which rests on
`CompletesAreLast` (a client whose stream is complete is at its last message).

**The refinement of `UploadLog`** (the end of `UploadSync_proofs`), for a recorder that retains
everything.

* `RecordingIsStoredOnce`: no sample is stored twice, and none that was acknowledged is lost;
* `UploadImplementsLog`: `UploadSync` implements `UploadLog`, an append-only log per client with
  one writer at a time.

`LogInv` adds to `UploadInv` that a client has one logical stream for all its life (no step
gives one up, for `LeftRetention` needs a floor above the start), that every position
anybody names lies in the recording, and that every sample of the cache belongs to exactly
one stream. Each client's stream is therefore the only one with samples of its own, and it
holds them in order, from which no sample is there twice. In the simulation an Open that creates a stream
is `TakeOver`, an append `Extend`, also if a crash cuts it in the middle, the end of the active
stream and a restart `Release`, and every other step stutters. `Extend` has to take the
writer's *next* sample, which is what `Contiguous` and `StandsAt` give. `sync_two` checks the same
refinement on a small instance with a local window of one sample, where retention does overtake the
upload; that case is only model-checked.

**`Service_proofs`**: any number of requests, addresses, servers and faults.

* `HandledUnderTheKey`: no message is handled under a key or in an epoch that is gone, and
  no epoch of an older key is left in a table;
* `KeySurvives`: the key in memory is the one on disk, where a rename replaces a file and
  the connection of a reset does not break;
* `GuardsAreGivenBack` (`TypeOK`): `in_flight` counts exactly the connections it limits, over
  breaks, reboots and crashes, and no table outgrows `max_pending_challenges`.

`HandledAsAdmitted` is not inductive, for it looks at a request only when it handles.
`Inv` says of each place of a request what it relies on (`Relies`): from the comparison of
the key to the end it has a read lock, so a reset, which holds the write lock, finds none
of them (`Locked`). An envelope that was looked up without keeping the table's lock is in
an epoch that is in the table, or was swept, and then it *stays expired*: only a message
handled in it would give it more time, and that message holds a read lock of the same
server and its epoch is in the table. `Spares` says what each step may do to an epoch, and
`EpochStep` shows once that a step that spares every epoch leaves the other requests what
they rely on. `KeySurvives` needs beside it that a reset still has the server it began
with (`MyReset`), since the service loop waits for connections, and for nothing else.
`GuardsAreGivenBack` follows the guard of a connection: a step of a request keeps it or gives it
back once (`Moved`, `Finish`), so that the counter and the cardinality of the set of open
connections move together; that a peer has finitely many connections and that a request carries
only keys and epochs that were given is part of the invariant (`Extent`).

**`Scheduler_proofs`**: any tasks, clocks, histories and faults, `Renames` or not.

* `Invariance` and `TypeCorrect`;
* `ExecutedOnce`: one revision of a task is handed out at most once;
* `EditsWin`: no execution that ends late settles a task that is switched on;
* `StartsAreJournaled`: the start of an execution is in the file before the platform acts, and
  stays there until its end is, as long as `RunsAreRecent`;
* `NoTaskRunsForEver`: while writes succeed, a task runs exactly while its execution is under way.

The strengthening bounds the state in memory *and* the one on disk by everything ever
handed out: an execution of a task that is there has at most its revision, and a smaller
one as long as the task is armed. A failed write leaves the two apart and a crash goes back
to the one on disk, so neither bound alone is inductive. `JournalInv` and `RunningInv` speak of
each execution by itself and only while it is recent: ids only grow, so an old one never
becomes recent again, and the invariant needs no count of tasks or records.

**`ScheduleCoordinator_proofs`**: any number of threads and tasks.

* `UsesTheScheduler`: `CoordinatorSpec => Spec`: every step of the platform is one of the
  scheduler's operations or leaves it alone, so what is proved of `Spec` holds on Android;
* `ExecutedOnceOnAndroid`, `StartsAreJournaledOnAndroid`: the corollaries;
* `OneThreadEach`: each execution is on one thread's list until it is reported. The
  strengthening: a thread that only reads the schedule has no list, so what it is told to do
  afterwards overwrites none;
* `AlarmFollowsTheSchedule`: when nobody is about to set it, the alarm is the one of the
  schedule, unless it was last set from an overtaken snapshot or not set at all (`overtaken`).
  The strengthening follows
  the alarm through the death of the process: with no scheduler open it is that of the file, and
  reconciliation does not change it, for what it settles is switched off.

**`SchedulerThread_proofs`**: any tasks, clocks, editor calls, shutdowns and crashes.

* `ExecutedOnceOnWindows`, `StartsAreJournaledOnWindows`;
* `ShutdownSettles`: while writes succeed, what is running is with the thread, and a thread that
  has ended leaves no running task in the file.

The thread's exit drops the scheduler, which is no operation of `Scheduler`, so there is
no refinement; the invariants of `Scheduler_proofs` are shown to be invariants of `ThreadSpec`
directly, with `StepOrExit` to tell the exit from the rest. `ShutdownSettles` adds that the
thread has nothing in its hands when it is not executing (`ThreadQuiet`), so it never leaves
the loop in the middle of a batch.

**`WindowsRecorder_proofs`**: any calls of the interface, its helpers and the schedule, `ec_destroy`
at any moment, and any faults.

* `TypeCorrect`: types, and nobody takes a worker out of its slot while it is read;
* `OneThreadRecords`: two capture threads never feed the recorder, unless one was told to end;
* `NothingSurvives`: when `ec_destroy` has returned no capture is left, and, unless a thread has
  panicked, no upload (`NoCaptureSurvives`, `NoUploadSurvives`);
* `UploadFollowsTheWorker`: while nothing has failed, an upload that is there when nobody is at
  work reads the worker that records.

What a caller has still to do is a list of steps, and it says which lock the caller holds.
`Listed` therefore comes first: every list is a tail of one of the calls, with one
lemma per step for where it leads, and after that no proof looks into a list. `Captures`: exactly
the caller in the middle of a start has the lock, the slot is empty meanwhile, and a thread that
lives is in the slot or in that caller's hands, which is why there is one; once `ec_destroy` has
looked at the slot, nobody is, for who takes the lock afterwards looks at `shutting_down` under
it. `Publishing` says the same of the slot of the client. `Follows` is about a clearing of the cache
that the schedule interrupts: between the end of the old client and the new worker the
schedule may publish a client of the worker that goes. That client will be replaced at the
end of the clearing (`WillReplace`: the upload is on, its configuration valid, and it is not being
switched back) or the scheduler has still to stop it (`WillStop`). A fault breaks this chain in
`ec_clear`, hence the condition in the property.

**`RecorderWorker_proofs`**: any segment size, window, sizes of chunks, jobs, capacity of the
queue and faults.

* `Invariant`: `Spec => []IInv`, from which the others follow;
* `CountersAreTyped` (`TypeOK`): no count passes below zero, and no flag, thread or output
  belongs to a job that is not in the table;
* `NoAudioIsLost` (`AudioIsWhole`): what a clip needs is readable until it is read, the window has
  no hole, and its audio is in order, over trims, exports, crashes and recovery;
* `LastWordIsRight` (`ReportsSettle`) and `NoExpiredFileStays` (`ExpiredIsRemoved`): in
  whatever order the threads end, the last one leaves the right status and no expired file;
* `ReportsTellTheOutput` (`OutputMatchesState`): a job that failed or was canceled has no output,
  one that finished has it;
* `WindowMovesForward` (`NeverRewinds`): neither end of the window goes back but in a crash.

Half of the invariant is about the recorder as a value, `Sound`. `WindowIsWhole` is not
inductive: a trim takes an expired segment away and leaves an older one that is pinned, which
makes a hole in the inventory, and later segments must not make it a hole of the window. So
`NoHole` says that a hole ends no later than the window begins; `Placed` keeps the positions of
the segments apart and in order, and `Filed` says that segments and files are the same audio in
the same order. Each operation has one lemma that keeps `Sound` (`Written`, `Flushed`, `Trimmed`,
`Recovered`), and `Keeps` is what the exports need of all four: the window only moves
forward and a pinned file stays as long as it was.

The other half is about who has still something to do. `AskedOnce` and
`JobsAreSomewhere`: an export is with its caller, in the channel, in the worker's hands or in
a thread of its own, in at most one of them, and is settled when it is in none. `Counted`: what
an export needs is pinned, the pins of a file count the exports that hold it, and `active` those
that run. `ClipsAreThere`: an export's choice of segments covers its clip and can be read. `StatusFollows` and `TrimFollows` are the
invariants behind the two settled properties: when the status is not the truth, or an expired
file is there that no export holds, somebody is left who will say so or remove it.

Trimming and recovery walk over a sequence, and induction over it is out of the provers'
reach. The model writes positions as a function (`Positions`) and the proofs reason with the least
number instead: `LeastExists` gives the first place where something is wrong, from which
`InitialPart` (a part of `1..n` without gaps from below is where one counts to, so what has
begun before a position is a beginning of the inventory), `AscendingIs` (a finite set of numbers
can be listed in order, each once) and `SumsExist` (the recursive function of positions
exists) follow.

Only model-checked: liveness under fairness (`UploadCatchesUp`, `StopEndsTheThread`,
`DueTasksFire`, `RunningEnds`, `ShutdownEnds`, `RequestsEnd`), for the proof system does not
handle `ENABLED`, and `ImplementsLog` and `StoredOnce` where retention overtakes the upload. Every
other property of a passing run is stated by a theorem, some of them under the hypotheses above.

## 6. Findings

1. **`stall`.** After a lost session the client reopens the same logical stream with the
   retained start of that moment (`sync_client/src/lib.rs:471`). When retention has moved
   since the first Open the server refuses it as `stream_source_changed`, for ever.
2. **`overtaken`.** No fault at all: the Open of a replaced client is processed after the
   Open of its successor, cuts it off, and the successor is refused as `stream_incomplete`
   at every reopen (`server/src/main.rs:908`, `:851`).
3. **`windows_noop`.** A scheduled start that comes after a manual stop has let the capture slot go
   and before its last store (`windows_ffi/src/lib.rs:1992`): the store marks the new recording as stopped, and the
   scheduled stop after it does nothing.

Each is checked under the specification that shows it with the fewest faults, and
`PROJECT.json` quotes the document it contradicts.

More deviations are known and have no run of their own. Each follows from a change of
constants:

* *Torn JSON.* A crash between `remove_file` and `rename` in `persist_json_atomic`
  (`server/src/main.rs:3115`) loses the sessions and the client uploads its samples again:
  `sync_safety` with `FaultKind = {"torn"}` violates `StoredOnce`.
* *Unflushed PCM.* A chunk is counted before it is flushed (`core/src/lib.rs:809`). When the flush
  fails the client is refused, reconnects, and the answer to its Open (`server/src/main.rs:854`)
  acknowledges what is counted; a crash loses it. Half a chunk that was written is sent again and
  stored twice, and a segment whose last flush failed keeps its full count while its tail is
  gone, which nobody sends again (`core/src/lib.rs:815`): `sync_safety` with `FaultKind = {"pcm"}`
  violates `StoredOnce` and `StreamsAreContiguous`, and with `{"pcm", "crash"}` also
  `PositionsNeverRewind`.
* *Renumbering.* Recovery numbers the cache from zero (`core/src/lib.rs:576`) while the sessions
  keep their old positions: `sync_safety` with `CacheWindow = 1` violates `StoredOnce`.
* *Unwritten tick.* `tick` marks tasks running, fails to write, and returns neither the
  executions nor the old state (`core/src/scheduler.rs:946`): `scheduler_thread` with
  `FaultKinds = {"write"}` violates `RunningEnds`.
* *Reboot.* A message whose connection broke is handled by a StreamManager whose directory
  the next turn of the service loop has opened: `service` with `Slot = {1}`, no resets and
  `OneManager` as an invariant. No document speaks of it.
* *Alarm.* Without the exception for `overtaken`, `AlarmIsNextWakeup` and `DueTasksFire` fail
  with no fault: an execution thread that read the schedule before an edit cancels the alarm
  the edit has set. `docs/SCHEDULED_TASKS_DESIGN.md:477` plans a token against it that the code
  does not have.
* *Used-up alarm.* The same variable covers a process that dies, or a scheduler that cannot be
  opened, between the alarm that started it and the next reschedule
  (`ScheduleCoordinator.kt:98`, `:220`): no alarm is left until something else calls in.

What the passing runs leave out for these reasons is exactly: local retention in
`sync_safety`, renumbering in both `sync_*` runs (a cache window larger than what is
uploaded), failed writes of PCM and failed or torn ones of JSON in both, failed writes in
`scheduler_thread` and `schedule_coordinator`, broken resets and a replacement in two steps in `service`, and states
after `overtaken` in `schedule_coordinator`.

## 7. Limits of what the runs show

* With a local window of one sample and two network faults, a late PCM message and the
  `MarkIncomplete` of the same client can store a sample of the next logical stream twice:
  `StoredOnce` is checked over a recorder that retains everything.
* Failed writes of PCM are checked for the single writer and the types (`server_faults`). For the
  reasons given under *Unflushed PCM*, `StoredOnce`, `StreamsAreContiguous`,
  `CompleteStreamsAreWhole`, `PositionsNeverRewind` and `ImplementsLog` are stated for runs in
  which they succeed. Writes fail at whole samples, an odd byte is not modelled; and after a
  miscount what retention may delete is bounded by the larger of the two lengths.
* A panic inside an action of the scheduler thread, with locks held, is not modelled.
* `AckedStreamsAreSaved` does not survive failed JSON writes: the memory of the server has
  changed when the write fails, and the next Open of that stream is a resume, which does
  not write. `sync_two` has no failed JSON writes.
* On Windows `replace_key_file` removes the old key file before it renames the new one, so a
  rename that fails leaves none, and a restart makes a key no client has;
  `KeyIsOnDisk` is checked and proved with `ReplacesAtOnce`. It is also false when the
  connection of a reset breaks and the service loop goes round before the reset has written.
* On Windows the scheduler's file can be lost in the same way and a start that finds none
  begins with no task; `scheduler_thread` runs with that.
* `DueTasksFire` is checked without failed writes: an edit that reports an error wakes nobody
  although `set_enabled` leaves its change in memory.
* A repeated `complete_execution` after a failed write is answered from memory and not
  written.
* The comment of `configure_sync_values` says that the replacement is validated and created
  before the persistent configuration is discarded. The code stops the client and stores the
  new configuration first, and `UploadClient::start` validates after that: an address it
  refuses leaves `sync_enabled` set, the refused configuration stored and no client running,
  which `WindowsRecorder` follows. No run states the comment as a property.
* `ec_clear` that fails after it has stopped the upload leaves it stopped;
  `UploadReadsTheRecorder` therefore speaks of histories without faults.
* A pending export that is canceled is turned back to running when its command is looked at,
  or to failed when its range has expired, and settles for good only then; in the second
  case its cancel flag is never removed. `ReportsSettle` speaks of the end, not of that.
* Exports outlive `stop`. A recorder opened over the same directory right after it knows
  nothing of their pins; two recorders over one directory are not modelled.
* Two Android executions may be under way at once, and the first to end clears the one flag
  that keeps the service; `stopSelf` and what the system does after it are not modelled.
* Positions are counted, not timed: a chunk that is dropped at a full queue leaves the
  later samples earlier than they were heard, and no property speaks of that.
* Expired files that a pin kept may be in the window again after a crash, for recovery
  keeps what it finds up to the window; `NeverRewinds` therefore excepts `Crash`.
* The manifest of the recorder, a change of the buffer length, failed PCM writes in
  the local recorder and the migration of legacy streams are not modelled. Cryptography is
  ideal.

## 8. Plan

In order, what comes next:

1. *Upload under retention.* `UploadImplementsLog` without `RecorderKeepsAll`: what a client gave
   up lies before the floor of its next logical stream.
2. *Server exports*: `save_range` between its choice of files and its reading of them, against
   retention; the life of the Android service; *recorder liveness* on one export.
3. *Weaker hypotheses*: how far `[](origin = 0)` and `FilesAreWritten` can be replaced by
   conditions on the state a restart finds.

### Not modelled

What is left (section 1) is I/O, presentation, or a table of handles. Three parts with
behaviour of their own are left for the reasons given there and above: the recording
library, whose requests share nothing but directory entries; the life of the Android
service, which depends on what the system does after `stopSelf`; and a second recorder over
the directory of one that still exports.
