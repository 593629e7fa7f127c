------------------------------ MODULE Scheduler ------------------------------
(***************************************************************************)
(* echoclip_core::scheduler: one-shot tasks that fire actions at a time,   *)
(* kept in memory and in state-v1.json.                                    *)
(*                                                                         *)
(* Every operation computes a new state and writes it out.  The write is   *)
(* the last thing an operation does, and it has three outcomes ("answer"): *)
(* it succeeds, it fails and the operation reports the error, or the       *)
(* process dies in it.  Some operations put the old state back when the    *)
(* write fails and some do not; "left" is the state each one leaves.       *)
(*                                                                         *)
(* The actions of a task are a set: normalize_actions rejects duplicates   *)
(* and orders them.  Names, presets and startup templates are left out.    *)
(***************************************************************************)
EXTENDS Integers, FiniteSets

CONSTANTS
  None,
  Input,          \* the [enabled, trigger, actions] a user may enter
  ActionSets,     \* the sets of actions normalize_actions accepts
  ClosingActions, \* the actions that run however late they are
  MaxTasks,       \* MAX_SCHEDULED_TASKS
  MaxHistory,     \* MAX_EXECUTION_HISTORY
  Grace,          \* DEFAULT_LATE_GRACE_MILLIS
  Renames,        \* atomic_replace is one rename; on Windows it removes first
  MaxTime,        \* bound on the clock
  MaxId,          \* bound on the ids handed out
  MaxRevision,    \* bound on the edits of one task
  FaultKinds,     \* the faults that may occur, of "write" and "crash"
  MaxFaults       \* bound on their number

TriggerInput ==
  [kind : {"countdown"}, delay : Nat \ {0}] \cup [kind : {"timepoint"}, due : Nat]

ASSUME SchedulerConstants ==
  /\ None \notin Nat
  /\ Input \subseteq [enabled : BOOLEAN, trigger : TriggerInput, actions : ActionSets]
  /\ MaxTasks \in Nat /\ MaxHistory \in Nat /\ Grace \in Nat
  /\ MaxTime \in Nat /\ MaxId \in Nat /\ MaxRevision \in Nat /\ MaxFaults \in Nat
  /\ Renames \in BOOLEAN

VARIABLES
  now,      \* the clock
  file,     \* the SchedulerFile in memory, None while no scheduler is open
  disk,     \* state-v1.json, None when it does not exist
  handed,   \* the executions tick has handed out and the platform works on
  started,  \* history: all executions ever handed out
  lastId,   \* NEXT_ID; the clock in an id keeps ids apart across restarts
  faults    \* how many faults have occurred

schedulerVars == <<now, file, disk, handed, started, lastId, faults>>

Trigger == [kind : {"countdown"}, delay : Nat, due : Nat]
           \cup [kind : {"timepoint"}, due : Nat]

TaskState == {"armed", "running", "succeeded", "partially_succeeded", "failed",
              "missed", "disabled"}

Task == [revision : Nat, enabled : BOOLEAN, trigger : Trigger,
         actions : ActionSets, state : TaskState, due : Nat \cup {None},
         last : Nat \cup {None}]

\* ActionResultState as summarize_results tells it apart: NoOp and Partial are
\* successes, PlatformBlocked is a failure.
Outcome == {"succeeded", "failed"}

\* Results are indexed by action.
ExecutionRecord ==
  [task : Nat, revision : Nat,
   results : UNION {[S -> Outcome \cup {"missed"}] : S \in SUBSET UNION ActionSets},
   result : {"running", "succeeded", "partially_succeeded", "failed", "missed",
             "interrupted"}]

DueExecution ==
  [id : Nat, task : Nat, revision : Nat, actions : SUBSET UNION ActionSets]

\* The lists are indexed by id: ids grow in the order of insertion.
IsSchedulerFile(f) ==
  /\ f = [tasks |-> f.tasks, history |-> f.history]
  /\ DOMAIN f.tasks \subseteq 1..lastId /\ DOMAIN f.history \subseteq 1..lastId
  /\ \A t \in DOMAIN f.tasks : f.tasks[t] \in Task
  /\ \A e \in DOMAIN f.history : f.history[e] \in ExecutionRecord

EmptyFile == [tasks |-> << >>, history |-> << >>]

-----------------------------------------------------------------------------
(* persist *)

Answer == {"ok", "error", "crash"}

Fault(kind) ==
  /\ kind \in FaultKinds /\ faults < MaxFaults
  /\ faults' = faults + 1

\* Where remove_file comes before rename the old file may be gone already.
Torn == IF Renames THEN {} ELSE {None}

\* Mutant of Save: the operation is answered before its state is written.
SaveLater(new, left, answer) ==
  \/ answer = "ok" /\ file' = new /\ UNCHANGED <<disk, faults>>
  \/ answer = "error" /\ Fault("write") /\ file' = left /\ UNCHANGED disk
  \/ answer = "crash" /\ Fault("crash") /\ file' = None /\ UNCHANGED disk

Save(new, left, answer) ==
  \/ answer = "ok" /\ file' = new /\ disk' = new /\ UNCHANGED faults
  \/ answer = "error" /\ Fault("write") /\ file' = left /\ disk' \in {disk} \cup Torn
  \/ answer = "crash" /\ Fault("crash") /\ file' = None /\ disk' \in {disk, new} \cup Torn

\* What the platform still works on dies with the process.
Handed(set, answer) == handed' = IF answer = "crash" THEN {} ELSE set

-----------------------------------------------------------------------------
(* The editor's operations *)

Resolve(input) ==
  IF input.kind = "countdown"
  THEN [kind |-> "countdown", delay |-> input.delay, due |-> now + input.delay]
  ELSE input

\* An enabled time point may not lie in the past.
IsAcceptable(input) ==
  input.enabled /\ input.trigger.kind = "timepoint" => input.trigger.due > now

TaskFrom(input, revision) ==
  LET trigger == Resolve(input.trigger) IN
  [revision |-> revision, enabled |-> input.enabled, trigger |-> trigger,
   actions |-> input.actions,
   state |-> IF input.enabled THEN "armed" ELSE "disabled",
   due |-> IF input.enabled THEN trigger.due ELSE None,
   last |-> None]

WithTask(f, id, task) ==
  [f EXCEPT !.tasks = [t \in DOMAIN f.tasks \cup {id} |->
                         IF t = id THEN task ELSE f.tasks[t]]]

Edited(new, left, answer) ==
  /\ Save(new, left, answer)
  /\ Handed(handed, answer)
  /\ UNCHANGED <<now, started>>

\* upsert without an id
Create(input, answer) ==
  /\ file # None /\ IsAcceptable(input)
  /\ Cardinality(DOMAIN file.tasks) < MaxTasks
  /\ lastId < MaxId
  /\ lastId' = lastId + 1
  /\ Edited(WithTask(file, lastId + 1, TaskFrom(input, 1)), file, answer)

IsEditable(id) ==
  file # None /\ id \in DOMAIN file.tasks /\ file.tasks[id].revision < MaxRevision

\* upsert of a task that exists, also of a running one
Change(id, input, answer) ==
  /\ IsEditable(id) /\ IsAcceptable(input)
  /\ Edited(WithTask(file, id, TaskFrom(input, file.tasks[id].revision + 1)),
            file, answer)
  /\ UNCHANGED lastId

\* Mutant of Switched: the revision stays.
SwitchedInPlace(task, enabled) ==
  IF enabled THEN [task EXCEPT !.enabled = TRUE, !.last = None, !.state = "armed",
                               !.due = task.trigger.due]
  ELSE [task EXCEPT !.enabled = FALSE, !.last = None, !.state = "disabled", !.due = None]

\* Enabling restarts a countdown and keeps a time point.
Switched(task, enabled) ==
  LET trigger == IF enabled THEN Resolve(task.trigger) ELSE task.trigger IN
  [task EXCEPT !.revision = @ + 1, !.enabled = enabled, !.last = None,
               !.trigger = trigger,
               !.state = IF enabled THEN "armed" ELSE "disabled",
               !.due = IF enabled THEN trigger.due ELSE None]

\* set_enabled changes the task in place: a failed write leaves the change.
SetEnabled(id, enabled, answer) ==
  /\ IsEditable(id)
  /\ enabled /\ file.tasks[id].trigger.kind = "timepoint" =>
       file.tasks[id].trigger.due > now
  /\ LET new == WithTask(file, id, Switched(file.tasks[id], enabled)) IN
     Edited(new, new, answer)
  /\ UNCHANGED lastId

\* delete, too.
Delete(id, answer) ==
  /\ file # None /\ id \in DOMAIN file.tasks
  /\ LET new == [file EXCEPT !.tasks = [t \in DOMAIN @ \ {id} |-> @[t]]] IN
     Edited(new, new, answer)
  /\ UNCHANGED lastId

Edit(answer) ==
  \/ \E input \in Input : Create(input, answer)
  \/ file # None /\ \E id \in DOMAIN file.tasks :
       \/ \E input \in Input : Change(id, input, answer)
       \/ \E enabled \in BOOLEAN : SetEnabled(id, enabled, answer)
       \/ Delete(id, answer)

-----------------------------------------------------------------------------
(* tick *)

ArmedDues ==
  {task.due : task \in {file.tasks[t] : t \in {u \in DOMAIN file.tasks :
     file.tasks[u].enabled /\ file.tasks[u].state = "armed"}}}

\* next_wakeup_utc_millis
NextWakeup ==
  IF ArmedDues = {} THEN None
  ELSE CHOOSE due \in ArmedDues : \A other \in ArmedDues : due <= other

DueTasks ==
  {t \in DOMAIN file.tasks :
     LET task == file.tasks[t] IN
     task.enabled /\ task.state = "armed" /\ task.due # None /\ task.due <= now}

Runs(task) ==
  IF now - task.trigger.due > Grace THEN task.actions \cap ClosingActions
  ELSE task.actions

ExecutionOf(t) == lastId + Cardinality({u \in DueTasks : u <= t})

\* The task's actions may all be too late.
Fired(t) ==
  LET task == file.tasks[t] IN
  [task EXCEPT !.enabled = FALSE, !.due = None, !.last = ExecutionOf(t),
               !.state = IF Runs(task) = {} THEN "missed" ELSE "running"]

RecordOf(t) ==
  LET task == file.tasks[t] IN
  [task |-> t, revision |-> task.revision,
   results |-> [a \in task.actions \ Runs(task) |-> "missed"],
   result |-> IF Runs(task) = {} THEN "missed" ELSE "running"]

\* Mutant of PruneHistory: one record too few is kept.
PruneHistoryShort(history) ==
  LET kept == {e \in DOMAIN history :
                 Cardinality({f \in DOMAIN history : f > e}) < MaxHistory - 1} IN
  [e \in kept |-> history[e]]

\* The MaxHistory youngest records stay, running or not.
PruneHistory(history) ==
  LET kept == {e \in DOMAIN history :
                 Cardinality({f \in DOMAIN history : f > e}) < MaxHistory} IN
  [e \in kept |-> history[e]]

\* The state tick leaves in memory, also when it cannot write it.
Ticked ==
  LET of == [e \in {ExecutionOf(t) : t \in DueTasks} |->
               CHOOSE t \in DueTasks : ExecutionOf(t) = e] IN
  [tasks |-> [t \in DOMAIN file.tasks |->
                IF t \in DueTasks THEN Fired(t) ELSE file.tasks[t]],
   history |-> PruneHistory(
     [e \in DOMAIN file.history \cup DOMAIN of |->
        IF e \in DOMAIN of THEN RecordOf(of[e]) ELSE file.history[e]])]

DueExecutions ==
  {[id |-> ExecutionOf(t), task |-> t, revision |-> file.tasks[t].revision,
    actions |-> Runs(file.tasks[t])] :
     t \in {u \in DueTasks : Runs(file.tasks[u]) # {}}}

\* tick returns the executions only when the state is written.
HandsOut(answer) == answer = "ok"

Tick(answer) ==
  /\ file # None /\ DueTasks # {}
  /\ Save(Ticked, Ticked, answer)
  /\ LET due == IF HandsOut(answer) THEN DueExecutions ELSE {} IN
     Handed(handed \cup due, answer) /\ started' = started \cup due
  /\ lastId' = lastId + Cardinality(DueTasks)
  /\ UNCHANGED now

-----------------------------------------------------------------------------
(* complete_execution *)

\* Mutant of Summary: no success counts as an interruption, which no task can have.
SummaryInterrupted(results) ==
  IF \E a \in DOMAIN results : results[a] = "succeeded" THEN "succeeded" ELSE "interrupted"

\* summarize_results
Summary(results) ==
  LET successes == {a \in DOMAIN results : results[a] = "succeeded"} IN
  IF successes = DOMAIN results THEN "succeeded"
  ELSE IF successes # {} THEN "partially_succeeded"
  ELSE IF \A a \in DOMAIN results : results[a] = "missed" THEN "missed"
  ELSE "failed"

\* Mutant of IsOfExecution: the task is found by its id alone.
IsOfTask(t, id) == t = file.history[id].task

\* The task may have been edited since, and then this is not its execution.
IsOfExecution(t, id) == t = file.history[id].task /\ file.tasks[t].last = id

Completed(id, results) ==
  LET old    == file.history[id]
      all    == [a \in DOMAIN old.results \cup DOMAIN results |->
                   IF a \in DOMAIN results THEN results[a] ELSE old.results[a]] IN
  [tasks |-> [t \in DOMAIN file.tasks |->
                IF IsOfExecution(t, id)
                THEN [file.tasks[t] EXCEPT !.state = Summary(all)] ELSE file.tasks[t]],
   history |-> [file.history EXCEPT ![id].results = all, ![id].result = Summary(all)]]

\* The platform reports what became of an execution, once.  A record that prune
\* has dropped is an error, one that is settled is answered as it is.
Complete(x, results, answer) ==
  /\ file # None /\ x \in handed
  /\ IF x.id \in DOMAIN file.history /\ file.history[x.id].result = "running"
     THEN LET new == Completed(x.id, results) IN Save(new, new, answer)
     ELSE answer = "ok" /\ UNCHANGED <<file, disk, faults>>
  /\ Handed(handed \ {x}, answer)
  /\ UNCHANGED <<now, started, lastId>>

-----------------------------------------------------------------------------
(* open, the clock and the end of the process *)

\* Mutant of Reconciled: the records are settled and the tasks forgotten.
ReconciledRecords(f) ==
  [f EXCEPT !.history = [e \in DOMAIN @ |->
     IF @[e].result = "running" THEN [@[e] EXCEPT !.result = "interrupted"] ELSE @[e]]]

\* reconcile_interrupted
Reconciled(f) ==
  LET open == {e \in DOMAIN f.history : f.history[e].result = "running"} IN
  [tasks |-> [t \in DOMAIN f.tasks |->
     IF \E e \in open : f.history[e].task = t /\ f.tasks[t].last = e
     THEN [f.tasks[t] EXCEPT !.state = "failed", !.enabled = FALSE, !.due = None]
     ELSE f.tasks[t]],
   history |-> [e \in DOMAIN f.history |->
     IF e \in open THEN [f.history[e] EXCEPT !.result = "interrupted"]
     ELSE f.history[e]]]

\* Without a file the scheduler starts empty.  open fails when it cannot write
\* what it has reconciled or migrated.
Open(answer) ==
  /\ file = None
  /\ LET new == Reconciled(IF disk = None THEN EmptyFile ELSE disk) IN
     IF new = disk THEN answer = "ok" /\ file' = new /\ UNCHANGED <<disk, faults>>
     ELSE Save(new, None, answer)
  /\ Handed(handed, answer)
  /\ UNCHANGED <<now, started, lastId>>

\* Also a process that has not opened the scheduler yet.
Crash ==
  /\ Fault("crash")
  /\ file' = None /\ handed' = {}
  /\ UNCHANGED <<now, disk, started, lastId>>

Advance ==
  /\ now < MaxTime
  /\ now' = now + 1
  /\ UNCHANGED <<file, disk, handed, started, lastId, faults>>

\* A first start has just written its empty file.
Init ==
  /\ now = 0
  /\ file = EmptyFile /\ disk = EmptyFile
  /\ handed = {} /\ started = {} /\ lastId = 0 /\ faults = 0

ResultsOf(x) == [x.actions -> Outcome]

Next ==
  \/ \E answer \in Answer :
       \/ Edit(answer)
       \/ Tick(answer)
       \/ \E x \in handed : \E results \in ResultsOf(x) : Complete(x, results, answer)
       \/ Open(answer)
  \/ Crash
  \/ Advance

Spec == Init /\ [][Next]_schedulerVars

-----------------------------------------------------------------------------
(* Properties *)

TypeOK ==
  /\ now \in Nat /\ lastId \in Nat /\ faults \in Nat
  /\ file # None => IsSchedulerFile(file)
  /\ disk # None => IsSchedulerFile(disk)
  /\ handed \subseteq started /\ started \subseteq DueExecution

\* docs/SCHEDULED_TASKS_DESIGN 17: tick may be called again and again, and one
\* revision of a task is executed at most once, whatever writes failed and
\* whenever the process died.
OncePerRevision ==
  \A x, y \in started : x.task = y.task /\ x.revision = y.revision => x = y

\* docs 7.2: the start of an execution is in the file before the platform acts,
\* so that a restart finds it and does not repeat it.
HandedIsJournaled ==
  \A x \in handed :
    /\ disk # None /\ x.id \in DOMAIN disk.history
    /\ disk.history[x.id].task = x.task /\ disk.history[x.id].result = "running"
    /\ disk.history[x.id].revision = x.revision

\* docs 7.1: a task is running exactly while its execution is under way; edits
\* during the execution, its completion, failures and restarts do not leave a
\* task behind that runs for ever.
RunningIsUnderWay ==
  file # None =>
    \A t \in DOMAIN file.tasks : file.tasks[t].state = "running" =>
      \E x \in handed : x.id = file.tasks[t].last /\ x.task = t

\* docs 7.1: an edit wins over an execution that is still under way: whatever
\* ends later, a task that is switched on waits for its time.
EnabledIsArmed ==
  file # None =>
    \A t \in DOMAIN file.tasks : file.tasks[t].enabled =>
      file.tasks[t].state = "armed" /\ file.tasks[t].due = file.tasks[t].trigger.due

=============================================================================
