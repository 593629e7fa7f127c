--------------------------- MODULE WindowsRecorder ---------------------------
(***************************************************************************)
(* One recorder of echoclip_windows_ffi and everything that works on it at *)
(* the same time: calls of the UI isolate, calls the UI makes from a       *)
(* helper isolate, the actions of the scheduler thread, the capture        *)
(* threads, and ec_destroy.                                                *)
(*                                                                         *)
(* The recorder is a set of slots, each behind a lock of its own (worker,  *)
(* capture, sync_client), and of flags that are read and written without   *)
(* one (shutting_down, capture_running, sync_enabled).  A call is the list *)
(* of the steps it has still to do: a step is what happens between two     *)
(* points at which another thread may come in between.                     *)
(***************************************************************************)
EXTENDS Naturals, Sequences, FiniteSets

CONSTANTS
  None,
  UiCalls,      \* operations the UI isolate calls, of UiOperation
  HelperCalls,  \* operations its helper isolates call, of HelperOperation
  Scheduled,    \* actions of the schedule, of ScheduledAction
  MaxCalls,     \* bound: how many calls each of the callers makes
  FaultKinds,   \* which faults happen
  MaxFaults     \* bound: how many of them

Caller == {"ui", "helper", "scheduler", "quit"}
UiOperation == {"start", "configure_capture", "clear", "sync_on", "sync_off"}
HelperOperation == {"stop", "save"}
ScheduledAction == {"upload_on", "upload_off", "start", "stop", "save"}
FaultKind == {"device", "stream", "remove", "restart", "panic"}

\* What is between two points at which another thread may come in between.
StepName ==
  {"take_capture", "join_capture", "enter_capture", "spawn", "await_ready", "look_at_capture",
   "switch_on", "switch_off", "switch_back", "stop_sync", "set_config", "enter_sync", "publish",
   "take_worker", "restart_worker", "enter_save", "wait_save", "request_stop", "cancel_exports",
   "stop_scheduler", "join_scheduler", "end_worker"}

ASSUME RecorderConstants ==
  /\ UiCalls \subseteq UiOperation
  /\ HelperCalls \subseteq HelperOperation
  /\ Scheduled \subseteq ScheduledAction
  /\ FaultKinds \subseteq FaultKind
  /\ MaxCalls \in [Caller -> Nat] /\ MaxFaults \in Nat
  /\ None \notin Nat \cup Caller \cup {"valid", "invalid"} \cup ScheduledAction

NoThread == 0

VARIABLES
  shutting,     \* shutting_down; the handle has left the registry as well
  worker,       \* the RecorderWorker, told apart by number, None without one
  made,         \* how many workers there have been
  readers,      \* callers that keep a read lock on the worker slot
  writer,       \* the caller that holds its write lock
  captureLock,  \* the caller that holds the capture slot's lock
  slot,         \* the CaptureThread in the capture slot, NoThread if empty
  threads,      \* the capture threads so far
  running,      \* capture_running
  syncLock,     \* the caller that holds the sync_client slot's lock
  client,       \* the worker the UploadClient in the slot reads, None if empty
  enabled,      \* sync_enabled
  config,       \* sync_config
  exports,      \* the export a caller waits for
  todo,         \* the steps a caller has still to do
  held,         \* the capture thread a caller has in hand
  calls,        \* how many calls each has made
  result,       \* what the last scheduled action reported, until it is noted
  thread,       \* the scheduler thread: "up", "told" to stop, "ended" or "panicked"
  faults

captureVars == <<captureLock, slot, threads, running, held>>
syncVars == <<syncLock, client, enabled, config>>
workerVars == <<worker, made, readers, writer, exports>>
controlVars == <<shutting, calls, result, thread, faults>>
vars == <<captureVars, syncVars, workerVars, controlVars, todo>>

-----------------------------------------------------------------------------
(* Calls as lists of steps *)

Idle(a) == todo[a] = <<>>
Does(a, step) == ~Idle(a) /\ Head(todo[a]) = step

Then(a, steps) == todo' = [todo EXCEPT ![a] = steps \o Tail(@)]
Proceed(a) == Then(a, <<>>)

\* An error is returned at once, except that a scheduled activation of the upload
\* first turns its switch back.
Fail(a) ==
  todo' = [todo EXCEPT ![a] =
             IF a = "scheduler" /\ Head(@) \in {"enter_sync", "publish"}
             THEN <<"switch_back">> ELSE <<>>]

StopCapture == <<"take_capture", "join_capture">>
StartCapture == <<"enter_capture">>
StopSync == <<"stop_sync">>
StartSync == <<"enter_sync">>
Save == <<"enter_save", "wait_save">>

\* Mutant of Clear: the upload is not started again.
ClearForgetsUpload == StopSync \o StopCapture \o <<"take_worker", "restart_worker">>

Clear == StopSync \o StopCapture \o <<"take_worker", "restart_worker">> \o StartSync

UiSteps ==
  [op \in UiOperation |->
     CASE op = "start" -> StartCapture
       [] op = "configure_capture" -> <<"look_at_capture">>
       [] op = "clear" -> Clear
       [] op = "sync_on" -> <<"switch_on">> \o StopSync \o <<"set_config">> \o StartSync
       [] op = "sync_off" -> <<"switch_off">> \o StopSync]

HelperSteps == [op \in HelperOperation |-> IF op = "stop" THEN StopCapture ELSE Save]

QuitSteps ==
  <<"request_stop", "cancel_exports">> \o StopCapture
    \o <<"stop_scheduler", "join_scheduler">> \o StopSync \o <<"end_worker">>

\* Mutant of MayWrite: readers take a copy of the worker and keep no lock.
MayWriteAnytime == writer = None

\* The worker slot's lock has one writer or any number of readers.
MayRead == writer = None
MayWrite == writer = None /\ readers = {}

Fault(kind) ==
  /\ kind \in FaultKinds /\ faults < MaxFaults
  /\ faults' = faults + 1

-----------------------------------------------------------------------------
(* The capture slot *)

Told(t) == [threads EXCEPT ![t].told = TRUE]
Ended(t) == threads[t].at \in {"gone", "panicked"}

\* stop_capture_thread takes the thread out of the slot and lets the lock go
\* before it waits for it.
TakeCapture(a) ==
  /\ Does(a, "take_capture") /\ captureLock = None
  /\ held' = [held EXCEPT ![a] = slot]
  /\ slot' = NoThread
  /\ threads' = IF slot = NoThread THEN threads ELSE Told(slot)
  /\ Proceed(a)
  /\ UNCHANGED <<captureLock, running, syncVars, workerVars, controlVars>>

\* stop_join_capture: the panic of a thread is an error of whoever joins it, ec_destroy
\* included, and a start then gives the slot's lock back.
JoinCapture(a) ==
  /\ Does(a, "join_capture")
  /\ held[a] # NoThread => Ended(held[a])
  /\ running' = FALSE
  /\ held' = [held EXCEPT ![a] = NoThread]
  /\ IF held[a] # NoThread /\ threads[held[a]].at = "panicked"
     THEN Fail(a) /\ captureLock' = IF captureLock = a THEN None ELSE captureLock
     ELSE Proceed(a) /\ UNCHANGED captureLock
  /\ UNCHANGED <<slot, threads, syncVars, workerVars, controlVars>>

\* Mutant of MayStart: the flag is not looked at once the lock is there.
MayStartAnyway == TRUE

MayStart == ~shutting

\* Mutant of Guarded: the lock is not kept while the new thread starts.
GuardedBriefly(a) == UNCHANGED captureLock

Guarded(a) == captureLock' = a

\* start_capture_for_recorder: the lock is kept until the thread is ready; a
\* thread that is there but does not run is joined under it.
EnterCapture(a) ==
  /\ Does(a, "enter_capture") /\ captureLock = None
  /\ \/ ~MayStart /\ Fail(a) /\ UNCHANGED <<captureLock, slot, threads, held>>
     \/ /\ MayStart /\ slot # NoThread /\ running
        /\ Proceed(a)
        /\ UNCHANGED <<captureLock, slot, threads, held>>
     \/ /\ MayStart /\ slot # NoThread /\ ~running
        /\ Guarded(a)
        /\ held' = [held EXCEPT ![a] = slot] /\ slot' = NoThread /\ threads' = Told(slot)
        /\ Then(a, <<"join_capture", "spawn">>)
     \/ /\ MayStart /\ slot = NoThread
        /\ Guarded(a)
        /\ Then(a, <<"spawn">>)
        /\ UNCHANGED <<slot, threads, held>>
  /\ UNCHANGED <<running, syncVars, workerVars, controlVars>>

Spawn(a) ==
  /\ Does(a, "spawn")
  /\ threads' = Append(threads, [at |-> "opening", told |-> FALSE,
                                 failed |-> FALSE, ready |-> FALSE])
  /\ held' = [held EXCEPT ![a] = Len(threads')]
  /\ Then(a, <<"await_ready">>)
  /\ UNCHANGED <<captureLock, slot, running, syncVars, workerVars, controlVars>>

AwaitReady(a) ==
  /\ Does(a, "await_ready")
  /\ LET t == threads[held[a]] IN
     \/ t.ready /\ slot' = held[a] /\ Proceed(a)
     \/ ~t.ready /\ Ended(held[a]) /\ Fail(a) /\ UNCHANGED slot
  /\ captureLock' = None
  /\ held' = [held EXCEPT ![a] = NoThread]
  /\ UNCHANGED <<threads, running, syncVars, workerVars, controlVars>>

\* ec_configure_capture: whether it will restart the capture is decided first.
LookAtCapture(a) ==
  /\ Does(a, "look_at_capture") /\ captureLock = None
  /\ \/ Proceed(a)
     \/ slot # NoThread /\ Then(a, StopCapture \o StartCapture)
  /\ UNCHANGED <<captureVars, syncVars, workerVars, controlVars>>

-----------------------------------------------------------------------------
(* A capture thread *)

Moves(t, place) == threads' = [threads EXCEPT ![t].at = place]

OpenStreams(t) ==
  /\ threads[t].at = "opening"
  /\ \/ /\ threads' = [threads EXCEPT ![t].at = "recording", ![t].ready = TRUE]
        /\ running' = TRUE /\ UNCHANGED faults
     \/ Moves(t, "gone") /\ running' = FALSE /\ Fault("device")
  /\ UNCHANGED <<captureLock, slot, held, syncVars, workerVars, shutting,
                 calls, result, thread, todo>>

\* The error callback of a stream; the loop finds its message later.
StreamFails(t) ==
  /\ threads[t].at = "recording" /\ ~threads[t].failed
  /\ Fault("stream")
  /\ threads' = [threads EXCEPT ![t].failed = TRUE]
  /\ running' = FALSE
  /\ UNCHANGED <<captureLock, slot, held, syncVars, workerVars, shutting,
                 calls, result, thread, todo>>

\* push_captured_pcm: without a worker the capture counts as stopped, although
\* its thread goes on.  The wait for the slot's lock is no state of its own: who
\* holds that lock for writing waits for no capture thread.
Push(t) ==
  /\ threads[t].at = "recording" /\ ~threads[t].told /\ ~threads[t].failed
  /\ MayRead /\ worker = None /\ running
  /\ running' = FALSE
  /\ UNCHANGED <<captureLock, slot, threads, held, syncVars, workerVars, controlVars,
                 todo>>

Leave(t) ==
  /\ threads[t].at = "recording" /\ (threads[t].told \/ threads[t].failed)
  /\ Moves(t, "gone")
  /\ running' = FALSE
  /\ UNCHANGED <<captureLock, slot, held, syncVars, workerVars,
                 controlVars, todo>>

\* The end of the thread is noted by whoever joins it.
Panics(t) ==
  /\ ~Ended(t)
  /\ Fault("panic")
  /\ Moves(t, "panicked")
  /\ UNCHANGED <<captureLock, slot, running, held, syncVars, workerVars, shutting,
                 calls, result, thread, todo>>

-----------------------------------------------------------------------------
(* The upload *)

Switch(a) ==
  /\ \/ Does(a, "switch_on") /\ enabled' = TRUE
     \/ (Does(a, "switch_off") \/ Does(a, "switch_back")) /\ enabled' = FALSE
  /\ Proceed(a)
  /\ UNCHANGED <<syncLock, client, config, captureVars, workerVars, controlVars>>

\* stop_sync_client keeps the lock while the client ends.
StopClient(a) ==
  /\ Does(a, "stop_sync") /\ syncLock = None
  /\ client' = None
  /\ Proceed(a)
  /\ UNCHANGED <<syncLock, enabled, config, captureVars, workerVars, controlVars>>

\* configure_sync_values; the client refuses some of the server addresses.
SetConfig(a) ==
  /\ Does(a, "set_config")
  /\ config' \in {"valid", "invalid"}
  /\ Proceed(a)
  /\ UNCHANGED <<syncLock, client, enabled, captureVars, workerVars, controlVars>>

MayActivate == ~shutting

\* start_configured_sync keeps the slot's lock while it waits for the worker's.
EnterSync(a) ==
  /\ Does(a, "enter_sync") /\ syncLock = None
  /\ \/ /\ ~MayActivate \/ (enabled /\ config = None)
        /\ Fail(a)
        /\ UNCHANGED syncLock
     \/ MayActivate /\ ~enabled /\ Proceed(a) /\ UNCHANGED syncLock
     \/ /\ MayActivate /\ enabled /\ config # None
        /\ syncLock' = a
        /\ Then(a, <<"publish">>)
  /\ UNCHANGED <<client, enabled, config, captureVars, workerVars, controlVars>>

Publish(a) ==
  /\ Does(a, "publish") /\ MayRead
  /\ syncLock' = None
  /\ \/ worker # None /\ config = "valid" /\ client' = worker /\ Proceed(a)
     \/ (worker = None \/ config = "invalid") /\ Fail(a) /\ UNCHANGED client
  /\ UNCHANGED <<enabled, config, captureVars, workerVars, controlVars>>

-----------------------------------------------------------------------------
(* The worker *)

\* ec_clear empties the slot and fills it again under one write lock.
TakeWorker(a) ==
  /\ Does(a, "take_worker") /\ MayWrite
  /\ writer' = a /\ worker' = None
  /\ Proceed(a)
  /\ UNCHANGED <<made, readers, exports, captureVars, syncVars, controlVars>>

RestartWorker(a) ==
  /\ Does(a, "restart_worker")
  /\ writer' = None
  /\ \/ /\ worker' = made + 1 /\ made' = made + 1
        /\ \/ Proceed(a) /\ UNCHANGED faults
           \/ Fault("remove") /\ Fail(a)
     \/ Fault("restart") /\ Fail(a) /\ UNCHANGED <<worker, made>>
  /\ UNCHANGED <<readers, exports, captureVars, syncVars, shutting, calls, result, thread>>

\* A save keeps its read lock until its export has ended.
EnterSave(a) ==
  /\ Does(a, "enter_save") /\ MayRead
  /\ \/ worker = None /\ Fail(a) /\ UNCHANGED <<readers, exports>>
     \/ /\ worker # None /\ Proceed(a)
        /\ readers' = readers \cup {a}
        /\ exports' = [exports EXCEPT ![a] = "running"]
  /\ UNCHANGED <<worker, made, writer, captureVars, syncVars, controlVars>>

\* Mutant of CancelsItself: only the shutdown cancels exports.
CancelsItselfNever == FALSE

CancelsItself == shutting

WaitSave(a) ==
  /\ Does(a, "wait_save")
  /\ \/ /\ CancelsItself /\ exports[a] = "running"
        /\ exports' = [exports EXCEPT ![a] = "canceling"]
        /\ UNCHANGED <<readers, todo>>
     \/ /\ exports[a] = "ended"
        /\ exports' = [exports EXCEPT ![a] = None]
        /\ readers' = readers \ {a}
        /\ Proceed(a)
  /\ UNCHANGED <<worker, made, writer, captureVars, syncVars, controlVars>>

\* An encoder takes as long as it likes, unless it is canceled.
ExportEnds(a) ==
  /\ exports[a] \in {"running", "canceling"}
  /\ exports' = [exports EXCEPT ![a] = "ended"]
  /\ UNCHANGED <<worker, made, readers, writer, captureVars, syncVars, controlVars, todo>>

-----------------------------------------------------------------------------
(* ec_destroy *)

Quit ==
  /\ ~shutting
  /\ shutting' = TRUE
  /\ todo' = [todo EXCEPT !["quit"] = QuitSteps]
  /\ UNCHANGED <<captureVars, syncVars, workerVars, calls, result, thread, faults>>

\* client.request_stop leaves the client in its slot.
RequestStop(a) ==
  /\ Does(a, "request_stop") /\ syncLock = None
  /\ Proceed(a)
  /\ UNCHANGED <<captureVars, syncVars, workerVars, controlVars>>

CancelExports(a) ==
  /\ Does(a, "cancel_exports") /\ MayRead
  /\ exports' = [c \in Caller |->
                   IF exports[c] = "running" THEN "canceling" ELSE exports[c]]
  /\ Proceed(a)
  /\ UNCHANGED <<worker, made, readers, writer, captureVars, syncVars, controlVars>>

StopScheduler(a) ==
  /\ Does(a, "stop_scheduler")
  /\ thread' = IF thread = "up" THEN "told" ELSE thread
  /\ Proceed(a)
  /\ UNCHANGED <<captureVars, syncVars, workerVars, shutting, calls, result, faults>>

\* Here, too, a panic ends ec_destroy with an error.
JoinScheduler(a) ==
  /\ Does(a, "join_scheduler")
  /\ \/ thread = "ended" /\ Proceed(a)
     \/ thread = "panicked" /\ Fail(a)
  /\ UNCHANGED <<captureVars, syncVars, workerVars, controlVars>>

EndWorker(a) ==
  /\ Does(a, "end_worker") /\ MayWrite
  /\ worker' = None
  /\ Proceed(a)
  /\ UNCHANGED <<made, readers, writer, exports, captureVars, syncVars, controlVars>>

\* The last reference is gone: a worker that a late ec_clear has left is dropped, and
\* all that an ec_destroy has left that failed.
DropHandle ==
  /\ shutting /\ thread \in {"ended", "panicked"} /\ {worker, client} # {None}
  /\ \A a \in Caller : Idle(a)
  /\ \A t \in 1..Len(threads) : Ended(t)
  /\ worker' = None /\ client' = None
  /\ UNCHANGED <<made, readers, writer, exports, captureVars, syncLock, enabled, config,
                 controlVars, todo>>

-----------------------------------------------------------------------------
(* Who calls what *)

MayCall(a) == ~shutting /\ Idle(a) /\ calls[a] < MaxCalls[a]

Call(a, steps) ==
  /\ todo' = [todo EXCEPT ![a] = steps]
  /\ calls' = [calls EXCEPT ![a] = @ + 1]

\* Starting and clearing wait for the helper isolate's call to return.
CallUi(op) ==
  /\ MayCall("ui")
  /\ op \in {"start", "clear"} => Idle("helper")
  /\ Call("ui", UiSteps[op])
  /\ UNCHANGED <<captureVars, syncVars, workerVars, shutting, result, thread, faults>>

\* A helper isolate is started by the UI isolate, between two calls of its own.
CallHelper(op) ==
  /\ MayCall("helper") /\ Idle("ui")
  /\ Call("helper", HelperSteps[op])
  /\ UNCHANGED <<captureVars, syncVars, workerVars, shutting, result, thread, faults>>

Reports(action) == result' = action /\ Call("scheduler", <<>>)
Carries(steps) == Call("scheduler", steps) /\ UNCHANGED result

\* execute_due_execution: an action that finds nothing to do reports a NoOp.
RunScheduled(action) ==
  /\ MayCall("scheduler") /\ thread = "up" /\ result = None
  /\ \/ /\ action \in {"upload_on", "upload_off"}
        /\ enabled' = (action = "upload_on")
        /\ \/ enabled = enabled' /\ Reports(action)
           \/ enabled # enabled' /\ Carries(IF enabled' THEN StartSync ELSE StopSync)
     \/ /\ action \in {"start", "stop"}
        /\ \/ running = (action = "start") /\ Reports(action)
           \/ running # (action = "start")
              /\ Carries(IF running THEN StopCapture ELSE StartCapture)
        /\ UNCHANGED enabled
     \/ action = "save" /\ Carries(Save) /\ UNCHANGED enabled
  /\ UNCHANGED <<captureVars, syncLock, client, config, workerVars, shutting, thread, faults>>

\* complete_execution
Note ==
  /\ result # None
  /\ result' = None
  /\ UNCHANGED <<captureVars, syncVars, workerVars, shutting, calls, thread, faults, todo>>

SchedulerEnds ==
  /\ thread = "told" /\ Idle("scheduler") /\ result = None
  /\ thread' = "ended"
  /\ UNCHANGED <<captureVars, syncVars, workerVars, shutting, calls, result, faults, todo>>

\* The scheduler thread panics between two actions: nobody notes what it has done.
SchedulerPanics ==
  /\ thread \in {"up", "told"} /\ Idle("scheduler")
  /\ Fault("panic")
  /\ thread' = "panicked" /\ result' = None
  /\ UNCHANGED <<captureVars, syncVars, workerVars, shutting, calls, todo>>

\* A new recorder, to which the UI has applied its settings: the upload may be
\* configured and is off.
Init ==
  /\ shutting = FALSE
  /\ worker = 1 /\ made = 1 /\ readers = {} /\ writer = None
  /\ captureLock = None /\ slot = NoThread /\ threads = <<>> /\ running = FALSE
  /\ syncLock = None /\ client = None /\ enabled = FALSE /\ config \in {None, "valid"}
  /\ exports = [a \in Caller |-> None]
  /\ todo = [a \in Caller |-> <<>>]
  /\ held = [a \in Caller |-> NoThread]
  /\ calls = [a \in Caller |-> 0]
  /\ result = None /\ thread = "up" /\ faults = 0

Step(a) ==
  \/ TakeCapture(a) \/ JoinCapture(a) \/ EnterCapture(a) \/ Spawn(a) \/ AwaitReady(a)
  \/ LookAtCapture(a)
  \/ Switch(a) \/ StopClient(a) \/ SetConfig(a) \/ EnterSync(a) \/ Publish(a)
  \/ TakeWorker(a) \/ RestartWorker(a) \/ EnterSave(a) \/ WaitSave(a)
  \/ RequestStop(a) \/ CancelExports(a) \/ StopScheduler(a) \/ JoinScheduler(a)
  \/ EndWorker(a)

ThreadStep(t) == OpenStreams(t) \/ Push(t) \/ Leave(t)

Next ==
  \/ \E a \in Caller : Step(a) \/ ExportEnds(a)
  \/ \E t \in 1..Len(threads) : ThreadStep(t) \/ StreamFails(t) \/ Panics(t)
  \/ \E op \in UiCalls : CallUi(op)
  \/ \E op \in HelperCalls : CallHelper(op)
  \/ \E action \in Scheduled : RunScheduled(action)
  \/ Note \/ SchedulerEnds \/ SchedulerPanics \/ Quit \/ DropHandle

Spec == Init /\ [][Next]_vars

MaxThreads == MaxCalls["ui"] + MaxCalls["scheduler"]

\* The scheduler thread, in an action and between two of them.
SchedulerStep == Step("scheduler") \/ Note \/ SchedulerEnds

\* Threads are scheduled and locks are handed on; a canceled encoder ends, any
\* other may run for ever.
Fairness ==
  /\ \A a \in {"ui", "helper", "quit"} : WF_vars(Step(a))
  /\ WF_vars(SchedulerStep)
  /\ WF_vars(\E a \in Caller : exports[a] = "canceling" /\ ExportEnds(a))
  /\ \A t \in 1..MaxThreads : WF_vars(t <= Len(threads) /\ ThreadStep(t))
  /\ WF_vars(DropHandle)

FairSpec == Spec /\ Fairness

-----------------------------------------------------------------------------
(* Properties *)

\* Records audio, and nothing has told it yet to end.
Live(t) == ~Ended(t) /\ ~threads[t].told /\ ~threads[t].failed
IsRecording(t) == Live(t) /\ threads[t].ready

CaptureThread ==
  [at : {"opening", "recording", "gone", "panicked"}, told : BOOLEAN,
   failed : BOOLEAN, ready : BOOLEAN]

TypeOK ==
  /\ shutting \in BOOLEAN /\ running \in BOOLEAN /\ enabled \in BOOLEAN
  /\ worker \in 1..made \cup {None} /\ client \in 1..made \cup {None}
  /\ readers \subseteq Caller /\ {writer, captureLock, syncLock} \subseteq Caller \cup {None}
  /\ threads \in Seq(CaptureThread) /\ slot \in 0..Len(threads)
  /\ held \in [Caller -> 0..Len(threads)]
  /\ config \in {None, "valid", "invalid"}
  /\ exports \in [Caller -> {None, "running", "canceling", "ended"}]
  /\ calls \in [Caller -> Nat] /\ todo \in [Caller -> Seq(StepName)]
  /\ result \in Scheduled \cup {None} /\ thread \in {"up", "told", "ended", "panicked"}
  /\ readers # {} => writer = None /\ worker # None

\* Some thread of the recorder has panicked.
HasPanicked == thread = "panicked" \/ \E t \in 1..Len(threads) : threads[t].at = "panicked"

\* ec_destroy has returned.
IsDestroyed == shutting /\ Idle("quit")

\* No call that was under way when the recorder was destroyed leaves a capture
\* behind: the microphone is off when ec_destroy returns, whoever was starting it.
NoCaptureAfterDestroy ==
  IsDestroyed => slot = NoThread /\ \A t \in 1..Len(threads) : ~Live(t)

\* The comment of start_configured_sync: no concurrent command publishes a new
\* upload client after the teardown has emptied the slot.
\* Only where ec_destroy has met a panic does it return before it comes to the upload.
NoUploadAfterDestroy == IsDestroyed /\ ~HasPanicked => client = None

\* ec_destroy leaves neither a capture nor an upload behind.
NothingAfterDestroy == NoCaptureAfterDestroy /\ NoUploadAfterDestroy

\* Never do two capture threads feed the recorder, unless one has been told to
\* end: every start finds the thread of an earlier one.
OneRecorder ==
  \A t, u \in 1..Len(threads) : IsRecording(t) /\ IsRecording(u) => t = u

\* When nobody is at work and nothing has failed, an upload reads the recorder
\* that records, also when the schedule turned it on while the cache was cleared.
UploadReadsTheRecorder ==
  (\A a \in Caller : Idle(a)) /\ faults = 0 /\ ~shutting /\ client # None
    => client = worker

\* docs/SCHEDULED_TASKS_DESIGN 4.4: stopping the recording is a NoOp when it is
\* stopped already, and manual operations are serialised with those of a task.
StopIsNoOpWhenStopped ==
  [][result = None /\ result' = "stop" => \A t \in 1..Len(threads) : ~IsRecording(t)]_vars

\* docs/HANDOFF_GPT6_ASTRA: closing ends the uploads and the exports first and
\* then comes to an end, whatever is under way: no lock is waited for in a
\* circle, no encoder is waited for, and at last no call and no capture thread is
\* left, nor a client and a worker unless a thread has panicked.
ShutdownEnds ==
  shutting ~> /\ readers = {} /\ \A a \in Caller : Idle(a)
              /\ \A t \in 1..Len(threads) : Ended(t)
              /\ HasPanicked \/ {worker, client} = {None}

=============================================================================
