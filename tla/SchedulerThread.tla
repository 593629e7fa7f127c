--------------------------- MODULE SchedulerThread ---------------------------
(***************************************************************************)
(* The Windows platform around Scheduler: the scheduler thread of          *)
(* echoclip_windows_ffi (scheduler_thread_main, run_due_executions), the   *)
(* editor calls that wake it, and ec_create and ec_destroy.                *)
(*                                                                         *)
(* The thread holds the scheduler's lock only while it looks, ticks and    *)
(* completes.  While it sleeps and while it executes, the editor works.    *)
(***************************************************************************)
EXTENDS Scheduler

VARIABLES
  at,       \* where the scheduler thread is, "off" when there is none
  wakeup,   \* the due time it sleeps until, None to sleep until it is woken
  woken,    \* a Wake is in its channel
  quitting  \* shutting_down is set, and Stop is or will be in the channel

threadVars == <<at, wakeup, woken, quitting>>
vars == <<schedulerVars, threadVars>>

\* The thread goes on, or dies with the process.
Goes(place, answer) == at' = IF answer = "crash" THEN "off" ELSE place

\* Mutant of Wake: a thread that sleeps without a time is not woken.
WakeSleeper(answer) ==
  woken' = (answer # "crash" /\ (woken \/ (answer = "ok" /\ wakeup # None)))

\* ec_scheduler_upsert, _set_enabled and _delete wake the thread on success.
Wake(answer) == woken' = (answer # "crash" /\ (woken \/ answer = "ok"))

EditorCall(answer) ==
  /\ at # "off" /\ ~quitting
  /\ Edit(answer)
  /\ Wake(answer)
  /\ Goes(at, answer)
  /\ UNCHANGED <<wakeup, quitting>>

\* The top of the loop.
Look ==
  /\ at = "look"
  /\ wakeup' = NextWakeup
  /\ at' = "sleep"
  /\ UNCHANGED <<schedulerVars, woken, quitting>>

BeWoken ==
  /\ at = "sleep" /\ woken
  /\ woken' = FALSE
  /\ at' = "look"
  /\ UNCHANGED <<schedulerVars, wakeup, quitting>>

\* A message in the channel comes before the timeout.
TimeOut ==
  /\ at = "sleep" /\ ~woken /\ wakeup # None /\ now >= wakeup
  /\ at' = "due"
  /\ UNCHANGED <<schedulerVars, wakeup, woken, quitting>>

\* run_due_executions up to the end of tick.
RunDue(answer) ==
  /\ at = "due"
  /\ IF quitting \/ DueTasks = {}
     THEN answer = "ok" /\ at' = "look" /\ UNCHANGED schedulerVars
     ELSE Tick(answer) /\ Goes(IF answer = "ok" THEN "execute" ELSE "look", answer)
  /\ woken' = (woken /\ answer # "crash")
  /\ UNCHANGED <<wakeup, quitting>>

\* The executions of a tick are done one after the other.  An error of
\* complete_execution is only noted.
Execute(answer) ==
  /\ at = "execute"
  /\ \E x \in handed :
       /\ \A y \in handed : x.id <= y.id
       /\ \E results \in ResultsOf(x) : Complete(x, results, answer)
       /\ Goes(IF handed = {x} THEN "look" ELSE "execute", answer)
  /\ woken' = (woken /\ answer # "crash")
  /\ UNCHANGED <<wakeup, quitting>>

\* A tick whose tasks were all too late hands nothing out.
ExecuteNothing ==
  /\ at = "execute" /\ handed = {}
  /\ at' = "look"
  /\ UNCHANGED <<schedulerVars, wakeup, woken, quitting>>

\* destroy_impl: no editor call finds the handle any more.
Quit ==
  /\ at # "off" /\ ~quitting
  /\ quitting' = TRUE
  /\ UNCHANGED <<schedulerVars, at, wakeup, woken>>

\* The thread takes Stop from its channel and is joined.
Exit ==
  /\ at = "sleep" /\ quitting /\ ~woken
  /\ at' = "off" /\ quitting' = FALSE
  /\ file' = None
  /\ UNCHANGED <<now, disk, handed, started, lastId, faults, wakeup, woken>>

\* create_impl
Start(answer) ==
  /\ at = "off"
  /\ Open(answer)
  /\ at' = IF answer = "ok" THEN "look" ELSE "off"
  /\ UNCHANGED <<wakeup, woken, quitting>>

ProcessDies ==
  /\ Crash
  /\ at' = "off" /\ woken' = FALSE /\ quitting' = FALSE
  /\ UNCHANGED wakeup

Tock == Advance /\ UNCHANGED threadVars

ThreadInit ==
  /\ Init
  /\ at = "look" /\ wakeup = None /\ woken = FALSE /\ quitting = FALSE

ThreadStep ==
  \/ Look \/ BeWoken \/ TimeOut \/ ExecuteNothing \/ Exit
  \/ \E answer \in Answer : RunDue(answer) \/ Execute(answer)

ThreadNext ==
  \/ ThreadStep
  \/ \E answer \in Answer : EditorCall(answer) \/ Start(answer)
  \/ Quit
  \/ ProcessDies
  \/ Tock

\* The thread is scheduled; what it executes comes to an end (an export can be
\* canceled, every other action returns).  Until destroy_impl has sent Stop the
\* thread may go round; once sent, Stop is taken before any timeout.
ThreadSpec ==
  ThreadInit /\ [][ThreadNext]_vars /\ WF_vars(ThreadStep) /\ SF_vars(Exit)

-----------------------------------------------------------------------------
(* Properties *)

\* A shutdown waits for the executions under way and settles them: the file it
\* leaves behind names no running task, unlike that of a crash.
QuitSettles ==
  file = None /\ faults = 0 =>
    \A t \in DOMAIN disk.tasks : disk.tasks[t].state # "running"

\* A task is running only while somebody executes it: in memory, and in the file of
\* a scheduler that was shut down.
RunningIsExecuted == RunningIsUnderWay /\ QuitSettles

Waits(t) ==
  /\ file # None /\ t \in DOMAIN file.tasks
  /\ file.tasks[t].state = "armed" /\ file.tasks[t].due <= now

Running(t) ==
  file # None /\ t \in DOMAIN file.tasks /\ file.tasks[t].state = "running"

\* docs 7.2: a task whose time has come is picked up, however the edits, the
\* wake-ups and the timeouts of the thread fall.
DueTasksFire == \A t \in 1..MaxId : Waits(t) ~> ~Waits(t)

\* docs 7.1: what has begun to run ends.
RunningEnds == \A t \in 1..MaxId : Running(t) ~> ~Running(t)

=============================================================================
