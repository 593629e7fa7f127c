-------------------------- MODULE ScheduleCoordinator --------------------------
(***************************************************************************)
(* The Android platform around Scheduler: ScheduleCoordinator keeps one    *)
(* system alarm at the next due time, ScheduleAlarmReceiver ticks when it  *)
(* goes off, and ReplayForegroundService executes what is due on a thread  *)
(* of its own.                                                             *)
(*                                                                         *)
(* Whoever changes or reads the schedule (the editor and the alarm on the  *)
(* main thread, an execution on its thread, a system broadcast on another) *)
(* gets a snapshot and then sets the alarm from it.  The scheduler's lock  *)
(* (with_scheduler) covers the first half only, so a snapshot may be old   *)
(* when the alarm is set: "overtaken".                                     *)
(***************************************************************************)
EXTENDS Scheduler

CONSTANT MaxJobs   \* bound on the execution threads at a time

ASSUME CoordinatorConstants == MaxJobs \in Nat \ {0}

VARIABLES
  thread,    \* what each thread is doing
  alarm,     \* the time of the system's alarm, None when there is none
  overtaken  \* history: the alarm was last set from an old snapshot, or was not
             \* set: the process died, an edit failed or the file was not read

coordinatorVars == <<thread, alarm, overtaken>>
vars == <<schedulerVars, coordinatorVars>>

\* Threads are numbered: the main thread, those that execute, and the one a
\* broadcast starts.
Main      == 0
Job       == 1..MaxJobs
Broadcast == MaxJobs + 1
Thread    == {Main, Broadcast} \cup Job

\* A thread sets the alarm to "due" ("set"), reads the schedule to do so
\* ("read"), or executes what is in "todo"; "then" is what follows a "set".  At
\* "start" the thread is an intent for the service that the system holds.
Idle == [at |-> "idle", then |-> "idle", due |-> None, todo |-> {}]
IsIdle(p) == thread[p] = Idle
Quiet == \A p \in Thread : IsIdle(p)

Reading == [Idle EXCEPT !.at = "read"]
Executing(todo) == [Idle EXCEPT !.at = "execute", !.todo = todo]
Pending(todo) == [Idle EXCEPT !.at = "start", !.todo = todo]

\* reschedule, with the snapshot that a call into the core has just returned.
Setting(then, todo) == [at |-> "set", then |-> then, due |-> NextWakeup', todo |-> todo]

\* The system hands an alarm over once.
GoesOff == alarm # None /\ now >= alarm

\* Every thread dies with the process.  An alarm survives it, unless it has gone
\* off or reschedule has canceled it, which comes before it is set.
Die ==
  /\ thread' = [p \in Thread |-> Idle]
  /\ alarm' \in {alarm} \cup
       {None : p \in {q \in Thread : GoesOff \/ thread[q].at = "set"}}
  /\ overtaken' = TRUE

Go(p, next) ==
  thread' = [thread EXCEPT ![p] = next] /\ UNCHANGED overtaken

-----------------------------------------------------------------------------
(* The editor, on the main thread *)

\* upsert, delete and setEnabled: an error leaves the alarm alone.  A task that
\* set_enabled has changed all the same is then without one.
EditorCall(answer) ==
  /\ IsIdle(Main)
  /\ Edit(answer)
  /\ \/ answer = "ok" /\ Go(Main, Setting("idle", {})) /\ UNCHANGED alarm
     \/ answer = "error" /\ overtaken' = TRUE /\ UNCHANGED <<thread, alarm>>
     \/ answer = "crash" /\ Die

-----------------------------------------------------------------------------
(* The alarm, on the main thread *)

\* Mutant of NothingDue: a tick without executions leaves the alarm used up.
NothingDueIsIdle == Idle

\* tick answered with no execution, or with an error.
NothingDue == Reading

\* Mutant of Blocked: what the service cannot execute is dropped.
BlockedForgets(due) == Reading

\* The system refuses the start of the foreground service, and the executions
\* are completed as platform_blocked.
Blocked(due) == Executing(due)

\* startForegroundService: the system takes the intent, or refuses it.
HandOut(due) ==
  \/ \E p \in Job :
       /\ IsIdle(p) /\ \A q \in Job : q < p => ~IsIdle(q)
       /\ Go(p, Pending(due))
  \/ Go(Main, Blocked(due))

\* ScheduleAlarmReceiver
AlarmGoesOff(answer) ==
  /\ IsIdle(Main) /\ GoesOff /\ file # None
  /\ \/ /\ DueTasks = {} /\ answer = "ok"
        /\ Go(Main, NothingDue)
        /\ alarm' = None
        /\ UNCHANGED schedulerVars
     \/ /\ Tick(answer)
        /\ \/ /\ answer = "ok" /\ DueExecutions # {}
              /\ HandOut(DueExecutions)
              /\ alarm' = None
           \/ /\ answer # "crash" /\ (answer = "error" \/ DueExecutions = {})
              /\ Go(Main, NothingDue)
              /\ alarm' = None
           \/ answer = "crash" /\ Die /\ alarm' = None

\* The service is given the intent on the main thread and starts a thread for it.
OnStartCommand(p) ==
  /\ thread[p].at = "start" /\ IsIdle(Main)
  /\ Go(p, Executing(thread[p].todo))
  /\ UNCHANGED <<schedulerVars, alarm>>

-----------------------------------------------------------------------------
(* reschedule and complete, on any thread *)

Read(p) ==
  /\ thread[p].at = "read" /\ file # None
  /\ thread' = [thread EXCEPT ![p] = [Idle EXCEPT !.at = "set", !.due = NextWakeup]]
  /\ UNCHANGED <<schedulerVars, alarm, overtaken>>

\* Mutant of AlarmAt: an alarm in the past is not set.
AlarmAtFuture(due) == IF due # None /\ due > now THEN due ELSE None

AlarmAt(due) == due

Set(p) ==
  /\ thread[p].at = "set"
  /\ alarm' = AlarmAt(thread[p].due)
  /\ overtaken' = (thread[p].due # NextWakeup)
  /\ thread' = [thread EXCEPT ![p] = [Idle EXCEPT !.at = thread[p].then, !.todo = thread[p].todo]]
  /\ UNCHANGED schedulerVars

\* What follows an execution: the next one, and on a thread of the service a last
\* reschedule when all are done (the finally of executeScheduledExecutions).
After(p, todo) ==
  IF todo # {} THEN "execute" ELSE IF p \in Job THEN "read" ELSE "idle"

\* Mutant of Rest: the execution is not taken off the list.
RestAll(todo, x) == todo

Rest(todo, x) == todo \ {x}

\* The main thread completes what could not be started as platform_blocked.
Outcomes(p, x) ==
  IF p = Main THEN {[a \in x.actions |-> "failed"]} ELSE ResultsOf(x)

\* complete: an error is not rescheduled after.
Finish(p, x, answer) ==
  LET rest == Rest(thread[p].todo, x)
      then == After(p, rest)
  IN
  /\ \E results \in Outcomes(p, x) : Complete(x, results, answer)
  /\ \/ /\ answer = "ok" /\ x.id \in DOMAIN file.history
        /\ Go(p, Setting(then, rest)) /\ UNCHANGED alarm
     \/ /\ answer # "crash" /\ (answer = "error" \/ x.id \notin DOMAIN file.history)
        /\ Go(p, [Idle EXCEPT !.at = then, !.todo = rest]) /\ UNCHANGED alarm
     \/ answer = "crash" /\ Die

\* The executions of a list are done one after the other.
Execute(p, answer) ==
  /\ thread[p].at = "execute"
  /\ \E x \in thread[p].todo :
       /\ \A y \in thread[p].todo : x.id <= y.id
       /\ Finish(p, x, answer)

-----------------------------------------------------------------------------
(* The system *)

\* ScheduleBootReceiver: the permission for exact alarms has changed.
PermissionChanges ==
  /\ IsIdle(Broadcast)
  /\ Go(Broadcast, Reading)
  /\ UNCHANGED <<schedulerVars, alarm>>

\* A process dies at leisure, in the middle of something, or with the alarm it was
\* started for.
Ends ==
  \/ Quiet /\ UNCHANGED coordinatorVars
  \/ ~Quiet /\ Die
  \/ GoesOff /\ Die /\ alarm' = None

\* Open has failed: the editor is told, tick goes on to reschedule, and reschedule
\* returns without an alarm.
IsRefused ==
  \/ IsIdle(Main) /\ UNCHANGED coordinatorVars
  \/ IsIdle(Main) /\ GoesOff /\ Go(Main, NothingDue) /\ alarm' = None
  \/ /\ \E p \in Thread : thread[p].at = "read" /\ thread' = [thread EXCEPT ![p] = Idle]
     /\ overtaken' = TRUE /\ UNCHANGED alarm

\* The first call into the core opens the scheduler, whoever makes it.
Start(answer) ==
  /\ Open(answer)
  /\ \/ answer = "ok" /\ UNCHANGED coordinatorVars
     \/ answer = "error" /\ IsRefused
     \/ answer = "crash" /\ Ends

ProcessDies == Crash /\ Ends

\* A reboot of the device takes the alarm along, and the boot receiver sets it anew.
DeviceReboots ==
  /\ Crash
  /\ thread' = [p \in Thread |-> IF p = Broadcast THEN Reading ELSE Idle]
  /\ alarm' = None
  /\ UNCHANGED overtaken

Tock == Advance /\ UNCHANGED coordinatorVars

CoordinatorInit ==
  /\ Init
  /\ thread = [p \in Thread |-> Idle]
  /\ alarm = None /\ overtaken = FALSE

Step(p) ==
  Read(p) \/ Set(p) \/ \E answer \in Answer : Execute(p, answer)

CoordinatorNext ==
  \/ \E answer \in Answer : EditorCall(answer) \/ AlarmGoesOff(answer) \/ Start(answer)
  \/ \E p \in Thread : Step(p) \/ OnStartCommand(p)
  \/ PermissionChanges \/ ProcessDies \/ DeviceReboots \/ Tock

\* Somebody is about to make a call into the core.
IsCalled == GoesOff \/ \E p \in Thread : thread[p].at = "read"

\* Threads are scheduled and what is executed ends.  An alarm goes off and an intent
\* is delivered between two steps of the main thread, however busy the editor is.
CoordinatorSpec ==
  /\ CoordinatorInit /\ [][CoordinatorNext]_vars
  /\ \A p \in Thread : WF_vars(Step(p))
  /\ \A p \in Job : SF_vars(OnStartCommand(p))
  /\ SF_vars(\E answer \in Answer : AlarmGoesOff(answer))
  /\ WF_vars(IsCalled /\ \E answer \in Answer : Start(answer))

-----------------------------------------------------------------------------
(* Properties *)

\* docs/SCHEDULED_TASKS_DESIGN 17: each execution that was handed out is on the list of
\* one thread until its end is reported, however many run at once and whichever of
\* them the system refuses to start: none is forgotten and none executed twice.
OnOneThread ==
  /\ \A x \in handed : \E p \in Thread : x \in thread[p].todo
  /\ \A p \in Thread : thread[p].todo \subseteq handed
  /\ \A p, q \in Thread : p # q => thread[p].todo \cap thread[q].todo = {}

\* docs/SCHEDULED_TASKS_DESIGN 12.1: the alarm is the core's next wake-up, whichever
\* way a thread came to its end.  The one way it is not is that the alarm was set
\* from an old snapshot, or a call did not get as far as setting it.
AlarmIsNextWakeup == Quiet /\ file # None /\ ~overtaken => alarm = NextWakeup

Waits(t) ==
  /\ file # None /\ t \in DOMAIN file.tasks
  /\ file.tasks[t].state = "armed" /\ file.tasks[t].due <= now

Running(t) ==
  file # None /\ t \in DOMAIN file.tasks /\ file.tasks[t].state = "running"

\* docs 7.2: a task whose time has come is picked up, also when it came while the
\* executions of another one kept the alarm unset, or while there was no process;
\* unless an old snapshot has taken its alarm away.
DueTasksFire == \A t \in 1..MaxId : Waits(t) ~> (~Waits(t) \/ overtaken)

\* docs 7.1: what has begun to run ends, also when the system refuses to start the
\* service that would execute it.
RunningEnds == \A t \in 1..MaxId : Running(t) ~> ~Running(t)

=============================================================================
